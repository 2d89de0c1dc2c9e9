------------------------------- MODULE Outbox -------------------------------
(***************************************************************************)
(* client/src/messaging.ts send and flush: one conversation's outbound     *)
(* half, from the record that is written before the relay is called to the *)
(* record that says the relay has it.                                      *)
(*                                                                         *)
(* A pass is the work one rendering of the conversation screen does behind *)
(* its busy latch (ui/app.ts run). Leaving the screen does not stop its    *)
(* pass, and neither does a lock: the pass goes on with the records of the *)
(* session it began in. Saving follows DurableCell: a snapshot taken at    *)
(* once, landing later and in order, or not at all.                        *)
(***************************************************************************)
EXTENDS Naturals, Sequences, FiniteSets

CONSTANTS
  Last,         \* messages the person writes, 1..Last, in timestamp order
  Pass,         \* renderings of the conversation that may have work running
  StoreFails,   \* whether the vault may fail to write
  MaxSessions   \* bound: times the vault is opened

ASSUME OutboxAssumption ==
  /\ Last \in Nat
  /\ StoreFails \in BOOLEAN
  /\ MaxSessions \in Nat \ {0}

Msg == 1..Last
Session == 1..MaxSessions

VARIABLES
  live,        \* whether the session is unlocked
  cur,         \* the session last opened
  recs,        \* each session's records: absent, queued (with wire) or relayed
  flight,      \* snapshots on their way to the disk, oldest first
  disk,        \* the records the stored blob holds
  sent,        \* messages written so far
  screen,      \* the rendering that may start work
  pass,        \* what each rendering's work is waiting for
  late,        \* messages in abandoned requests the relay may still act on
  accepted,    \* history: messages in the order the relay first took them
  overtaken    \* history: messages an unlock read while a pending write disagreed

store == <<live, cur, flight, disk, overtaken>>
vars == <<store, recs, sent, screen, pass, late, accepted>>

Absent == [m \in Msg |-> "absent"]
Idle == [at |-> "idle", session |-> 0, msg |-> 0, todo |-> {}, relayed |-> FALSE, req |-> "none"]

Queued(r) == { m \in Msg : r[m] = "queued" }

Least(S) == CHOOSE m \in S : \A n \in S : m <= n

Taken(m) == \E i \in DOMAIN accepted : accepted[i] = m

\* Vault.assertUnlocked, asked of the session the pass began in.
Usable(s) == live /\ s = cur

-----------------------------------------------------------------------------
(* The steps of flush, each up to the next await. p is the rendering, s the *)
(* session it began in, r that session's records, f the writes on their way.*)

\* The end of a pass: persist if anything was relayed. A locked session throws.
SaveMarks(p, s, r, f, relayed) ==
  /\ flight' = IF relayed /\ Usable(s) THEN Append(f, [by |-> p, recs |-> r]) ELSE f
  /\ pass' = [pass EXCEPT ![p] =
       IF relayed /\ Usable(s) THEN [Idle EXCEPT !.at = "marking", !.session = s] ELSE Idle]

\* Slip: newest first.
OfferNewest(p, s, r, f, todo, relayed) ==
  LET waiting == todo \cap Queued(r)
      m       == CHOOSE n \in waiting : \A k \in waiting : k <= n
  IN  IF waiting = {}
      THEN SaveMarks(p, s, r, f, relayed)
      ELSE /\ pass' = [pass EXCEPT ![p] =
                 [at |-> "offering", session |-> s, msg |-> m,
                  todo |-> todo \ {m}, relayed |-> relayed, req |-> "sent"]]
           /\ flight' = f

\* The loop: skip what lost its wire since the pass began, offer the next.
OfferNext(p, s, r, f, todo, relayed) ==
  LET waiting == todo \cap Queued(r)
      m       == Least(waiting)
  IN  IF waiting = {}
      THEN SaveMarks(p, s, r, f, relayed)
      ELSE /\ pass' = [pass EXCEPT ![p] =
                 [at |-> "offering", session |-> s, msg |-> m,
                  todo |-> { n \in todo : n > m }, relayed |-> relayed, req |-> "sent"]]
           /\ flight' = f

\* flush: throws on a locked session, otherwise walks what is queued now.
Flush(p, s, r, f) ==
  IF Usable(s)
  THEN OfferNext(p, s, r, f, Queued(r), FALSE)
  ELSE /\ pass' = [pass EXCEPT ![p] = Idle]
       /\ flight' = f

-----------------------------------------------------------------------------
Init ==
  /\ live = TRUE
  /\ cur = 1
  /\ recs = [s \in Session |-> Absent]
  /\ flight = <<>>
  /\ disk = Absent
  /\ sent = 0
  /\ screen \in Pass
  /\ pass = [p \in Pass |-> Idle]
  /\ late = {}
  /\ accepted = <<>>
  /\ overtaken = {}

\* send, up to its persist.
Send(p) ==
  /\ live
  /\ p = screen
  /\ pass[p].at = "idle"
  /\ sent < Last
  /\ sent' = sent + 1
  /\ recs' = [recs EXCEPT ![cur][sent + 1] = "queued"]
  /\ flight' = Append(flight, [by |-> p, recs |-> recs'[cur]])
  /\ pass' = [pass EXCEPT ![p] = [Idle EXCEPT !.at = "saving", !.session = cur]]
  /\ UNCHANGED <<live, cur, disk, screen, late, accepted, overtaken>>

\* The flush half of sync: the refresh button, the poll, or a new rendering.
Sync(p) ==
  /\ live
  /\ p = screen
  /\ pass[p].at = "idle"
  /\ Queued(recs[cur]) # {}
  /\ Flush(p, cur, recs[cur], flight)
  /\ UNCHANGED <<live, cur, recs, disk, sent, screen, late, accepted, overtaken>>

\* The person leaves the screen and opens it again: a new latch.
Reopen(p) ==
  /\ live
  /\ p # screen
  /\ pass[p].at = "idle"
  /\ screen' = p
  /\ UNCHANGED <<store, recs, sent, pass, late, accepted>>

-----------------------------------------------------------------------------
(* Answers. *)

\* Slips: no answer is read as a 201; the mark is made on the stored records.
FinishedUnanswered(p) ==
  LET w == pass[p]
      r == [recs[w.session] EXCEPT ![w.msg] = "relayed"]
  IN  /\ w.req # "none"
      /\ recs' = [recs EXCEPT ![w.session] = r]
      /\ OfferNext(p, w.session, r, flight, w.todo, TRUE)
      /\ UNCHANGED <<live, cur, disk, sent, screen, late, accepted, overtaken>>

FinishedOnDisk(p) ==
  LET w == pass[p]
      r == [disk EXCEPT ![w.msg] = "relayed"]
  IN  /\ w.req = "taken"
      /\ recs' = [recs EXCEPT ![w.session] = r]
      /\ OfferNext(p, w.session, r, flight, w.todo, TRUE)
      /\ UNCHANGED <<live, cur, disk, sent, screen, late, accepted, overtaken>>

\* The relay's 201: mark, drop the wire, carry on with the next record.
Finished(p) ==
  LET w == pass[p]
      r == [recs[w.session] EXCEPT ![w.msg] = "relayed"]
  IN  /\ w.req = "taken"
      /\ recs' = [recs EXCEPT ![w.session] = r]
      /\ OfferNext(p, w.session, r, flight, w.todo, TRUE)
      /\ UNCHANGED <<live, cur, disk, sent, screen, late, accepted, overtaken>>

\* The same answer, with the pass's budget gone.
OutOfTime(p) ==
  LET w == pass[p]
      r == [recs[w.session] EXCEPT ![w.msg] = "relayed"]
  IN  /\ w.req = "taken"
      /\ w.todo # {}
      /\ recs' = [recs EXCEPT ![w.session] = r]
      /\ SaveMarks(p, w.session, r, flight, TRUE)
      /\ UNCHANGED <<live, cur, disk, sent, screen, late, accepted, overtaken>>

\* Slip: a failed offer forgets the record.
OfferFailsForGood(p) ==
  LET w == pass[p]
      r == [recs[w.session] EXCEPT ![w.msg] = "absent"]
  IN  /\ w.req # "none"
      /\ late' = late
      /\ recs' = [recs EXCEPT ![w.session] = r]
      /\ SaveMarks(p, w.session, r, flight, w.relayed)
      /\ UNCHANGED <<live, cur, disk, sent, screen, accepted, overtaken>>

\* A refusal, a dead connection or the deadline: stop at the first failure.
\* The relay may have taken the blob, or may still take it.
OfferFails(p) ==
  LET w == pass[p]
  IN  /\ w.req # "none"
      /\ late' = IF w.req = "sent" THEN late \cup {w.msg} ELSE late
      /\ SaveMarks(p, w.session, recs[w.session], flight, w.relayed)
      /\ UNCHANGED <<live, cur, recs, disk, sent, screen, accepted, overtaken>>

-----------------------------------------------------------------------------
(* The relay's side of putBlob. A request can arrive after it was given up. *)

Takes(m) == accepted' = IF Taken(m) THEN accepted ELSE Append(accepted, m)

RelayTakes(p) ==
  /\ pass[p].req = "sent"
  /\ Takes(pass[p].msg)
  /\ pass' = [pass EXCEPT ![p].req = "taken"]
  /\ UNCHANGED <<store, recs, sent, screen, late>>

RelayTakesLate(m) ==
  /\ m \in late
  /\ Takes(m)
  /\ late' = late \ {m}
  /\ UNCHANGED <<store, recs, sent, screen, pass>>

RelayNeverSees(m) ==
  /\ m \in late
  /\ late' = late \ {m}
  /\ UNCHANGED <<store, recs, sent, screen, pass, accepted>>

-----------------------------------------------------------------------------
(* The vault, as DurableCell promises it. *)

\* A send that was saved goes on to flush; a marking pass is over.
StoreLands ==
  /\ flight # <<>>
  /\ disk' = Head(flight).recs
  /\ LET p == Head(flight).by
         s == pass[p].session
     IN  \/ /\ pass[p].at = "saving"
            /\ Flush(p, s, recs[s], Tail(flight))
         \/ /\ pass[p].at = "marking"
            /\ pass' = [pass EXCEPT ![p] = Idle]
            /\ flight' = Tail(flight)
  /\ UNCHANGED <<live, cur, recs, sent, screen, late, accepted, overtaken>>

\* The caller is told; the records stay as they are in memory.
StoreRefuses ==
  /\ StoreFails
  /\ flight # <<>>
  /\ pass' = [pass EXCEPT ![Head(flight).by] = Idle]
  /\ flight' = Tail(flight)
  /\ UNCHANGED <<live, cur, recs, disk, sent, screen, late, accepted, overtaken>>

\* Locking withdraws nothing: passes and writes go on. The last session is
\* bounded to stay open.
Lock ==
  /\ live
  /\ cur < MaxSessions
  /\ live' = FALSE
  /\ UNCHANGED <<cur, flight, disk, overtaken, recs, sent, screen, pass, late, accepted>>

\* The page goes away: every pass, every write and every record in memory.
Crash ==
  /\ cur < MaxSessions
  /\ live' = FALSE
  /\ flight' = <<>>
  /\ pass' = [p \in Pass |-> Idle]
  /\ late' = late \cup { pass[p].msg : p \in { q \in Pass : pass[q].req = "sent" } }
  /\ UNCHANGED <<cur, disk, overtaken, recs, sent, screen, accepted>>

Unlock ==
  /\ ~live
  /\ live' = TRUE
  /\ cur' = cur + 1
  /\ recs' = [recs EXCEPT ![cur + 1] = disk]
  /\ overtaken' = overtaken \cup
       { m \in Msg : \E i \in DOMAIN flight : flight[i].recs[m] # disk[m] }
  /\ UNCHANGED <<flight, disk, sent, screen, pass, late, accepted>>

PassStep(p) ==
  \/ Send(p) \/ Sync(p) \/ Reopen(p)
  \/ Finished(p) \/ OutOfTime(p) \/ OfferFails(p)

Device ==
  \/ \E p \in Pass : PassStep(p)
  \/ StoreLands \/ StoreRefuses
  \/ Lock \/ Crash \/ Unlock

Relay ==
  \/ \E p \in Pass : RelayTakes(p)
  \/ \E m \in Msg : RelayTakesLate(m) \/ RelayNeverSees(m)

Next == Device \/ Relay

Spec == Init /\ [][Next]_vars

(* The poll keeps firing on the screen that is up, the store and the relay  *)
(* answer, a locked vault is unlocked again, and a relay that is asked for  *)
(* ever takes the blob and says so at some point.                           *)
Fairness ==
  /\ WF_vars(StoreLands \/ StoreRefuses)
  /\ WF_vars(Unlock)
  /\ WF_vars(\E p \in Pass : Sync(p))
  /\ \A p \in Pass :
       /\ WF_vars(Finished(p) \/ OutOfTime(p) \/ OfferFails(p))
       /\ SF_vars(RelayTakes(p))
       /\ SF_vars(Finished(p) \/ OutOfTime(p))

FairSpec == Spec /\ Fairness

-----------------------------------------------------------------------------
(* Properties. *)

Records == [Msg -> {"absent", "queued", "relayed"}]

TypeOK ==
  /\ live \in BOOLEAN
  /\ cur \in Session
  /\ recs \in [Session -> Records]
  /\ flight \in Seq([by : Pass, recs : Records])
  /\ disk \in Records
  /\ sent \in 0..Last
  /\ screen \in Pass
  /\ pass \in [Pass -> [at : {"idle", "saving", "offering", "marking"}, session : {0} \cup Session,
                        msg : {0} \cup Msg, todo : SUBSET Msg, relayed : BOOLEAN,
                        req : {"none", "sent", "taken"}]]
  /\ late \in SUBSET Msg
  /\ accepted \in Seq(Msg)
  /\ overtaken \in SUBSET Msg

(* "Handed to the relay" is never printed for a message the relay did not   *)
(* take: in no session's memory, on no way to the disk, and not on it.      *)
NoFalseClaim ==
  \A m \in Msg :
    /\ \A s \in Session : recs[s][m] = "relayed" => Taken(m)
    /\ \A i \in DOMAIN flight : flight[i].recs[m] = "relayed" => Taken(m)
    /\ disk[m] = "relayed" => Taken(m)

(* The relay first takes the messages this device still has in the order    *)
(* they were written, through failures, late requests, overlapping passes,  *)
(* locks and crashes.                                                       *)
InOrder ==
  overtaken = {} =>
    \A i, j \in DOMAIN accepted :
      i < j /\ disk[accepted[i]] # "absent" /\ disk[accepted[j]] # "absent" =>
        accepted[i] < accepted[j]

(* What the disk knows of a message never goes back: not from queued to     *)
(* nothing, and not from relayed to queued, whichever pass writes last.     *)
Rank(st) == IF st = "absent" THEN 0 ELSE IF st = "queued" THEN 1 ELSE 2

ProgressKept ==
  [][\A m \in Msg : Rank(disk'[m]) >= Rank(disk[m]) \/ m \in overtaken]_vars

(* A message that reached the disk reaches the relay, however many passes   *)
(* fail, run out of time or die with the page.                              *)
Drains == \A m \in Msg : disk[m] = "queued" ~> Taken(m) \/ m \in overtaken
=============================================================================
