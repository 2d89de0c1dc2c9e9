-------------------------------- MODULE Inbox -------------------------------
(***************************************************************************)
(* client/src/messaging.ts receive: one conversation's inbound half. A     *)
(* pass lists the mailbox, pulls one blob at a time from a relay that      *)
(* deletes what it hands out, opens it, asks the replay guard, pushes the  *)
(* record, and makes the whole pass durable with one save at its end.      *)
(*                                                                         *)
(* The guard is the one OnceFilter describes, with room for every message  *)
(* here: held and the conversation travel in the same snapshot. Saving and *)
(* opening are DurableCell's, envelopes are MessageSeal's. Of a hostile    *)
(* relay this module keeps what it can do to a pass: list what is not      *)
(* there, repeat a blob it kept, put another mailbox's blob into ours,     *)
(* answer late, or not at all.                                             *)
(***************************************************************************)
EXTENDS MessageSeal, Sequences, FiniteSets

CONSTANTS
  Me, Peer,     \* key managers, ours and the peer's
  Blob,         \* blob ids in this mailbox
  Settings,     \* an envelope for each blob, and whether the relay may lie
  Said,         \* messages the peer sealed for us, by msgId
  nowMs,        \* our clock, which stands still: ReplayGuard moves it
  Pass,         \* renderings of the conversation that may have work running
  MaxPulls,     \* MAX_PULLS_PER_RECEIVE
  StoreFails,   \* whether the vault may fail to write
  MaxSessions   \* bound: times the vault is opened

ASSUME InboxAssumption ==
  /\ IsFiniteSet(Blob)
  /\ \A setting \in Settings : DOMAIN setting.content = Blob /\ setting.hostile \in BOOLEAN
  /\ nowMs \in Nat
  /\ MaxPulls \in Nat \ {0}
  /\ StoreFails \in BOOLEAN
  /\ MaxSessions \in Nat \ {0}

Session == 1..MaxSessions

VARIABLES
  content,     \* the envelope in each blob
  hostile,     \* whether this relay hands out again what it has deleted
  live,        \* whether the session is unlocked
  cur,         \* the session last opened
  convo,       \* each session's conversation: copies of each message in it
  held,        \* what each session's replay guard refuses
  flight,      \* snapshots on their way to the disk, oldest first
  disk,        \* the snapshot the stored blob holds
  screen,      \* the rendering that may start work
  pass,        \* what each rendering's receive is waiting for
  box,         \* blobs waiting in the mailbox
  posted,      \* blobs ever put into it
  late,        \* pulls given up that the relay may still serve
  named        \* history: messages the code or its docs say may be lost

store == <<content, hostile, live, cur, flight, disk>>
vars == <<store, convo, held, screen, pass, box, posted, late, named>>

Msg == Said \cup { ComputeMsgId(setting.content[b]) : setting \in Settings, b \in Blob }

Nothing == [convo |-> [m \in Msg |-> 0], held |-> {}]
Idle == [at |-> "idle", session |-> 0, ids |-> {}, pull |-> {}, new |-> {}]

\* Vault.isLocked, asked of the session a pass began in.
Usable(s) == live /\ s = cur

\* The peer's messages in a set of blobs.
Carried(B) == { ComputeMsgId(content[b]) : b \in B } \cap Said

\* Slip: the guard goes out with the conversation as it was last saved.
SnapshotGuardOnly(s, c, h) == [convo |-> disk.convo, held |-> h[s]]

Snapshot(s, c, h) == [convo |-> c[s], held |-> h[s]]

-----------------------------------------------------------------------------
(* The loop of receive, each turn up to the next await. w is the pass as    *)
(* the turn finds it, c and h the conversations and guards, f the writes.   *)

\* Slip: the save is skipped when a failure broke the loop.
EndPassIfDone(p, w, c, h, f) ==
  IF Usable(w.session) /\ w.new # {} /\ w.ids = {}
  THEN /\ flight' = Append(f, [by |-> p, data |-> Snapshot(w.session, c, h)])
       /\ pass' = [pass EXCEPT ![p] = [w EXCEPT !.at = "saving", !.ids = {}, !.pull = {}]]
  ELSE /\ flight' = f
       /\ pass' = [pass EXCEPT ![p] = Idle]

\* After the loop: throw on a locked session, save if anything was accepted.
EndPass(p, w, c, h, f) ==
  IF Usable(w.session) /\ w.new # {}
  THEN /\ flight' = Append(f, [by |-> p, data |-> Snapshot(w.session, c, h)])
       /\ pass' = [pass EXCEPT ![p] = [w EXCEPT !.at = "saving", !.ids = {}, !.pull = {}]]
  ELSE /\ flight' = f
       /\ pass' = [pass EXCEPT ![p] = Idle]

\* Ask for one more blob.
Pull(p, w, f) ==
  /\ flight' = f
  /\ \E b \in w.ids :
       pass' = [pass EXCEPT ![p] =
         [w EXCEPT !.at = "pulling", !.ids = @ \ {b}, !.pull = {b}]]

\* Slip: no look at the lock before a pull.
NextPullAnyway(p, w, c, h, f) ==
  \/ /\ w.ids # {}
     /\ Pull(p, w, f)
  \/ EndPass(p, w, c, h, f)

\* A lock ends the loop; so may the budget, at any turn (see ReceiveBudget).
NextPull(p, w, c, h, f) ==
  \/ /\ w.ids # {}
     /\ Usable(w.session)
     /\ Pull(p, w, f)
  \/ EndPass(p, w, c, h, f)

-----------------------------------------------------------------------------
Init ==
  /\ \E setting \in Settings : content = setting.content /\ hostile = setting.hostile
  /\ live = TRUE
  /\ cur = 1
  /\ convo = [s \in Session |-> Nothing.convo]
  /\ held = [s \in Session |-> {}]
  /\ flight = <<>>
  /\ disk = Nothing
  /\ screen \in Pass
  /\ pass = [p \in Pass |-> Idle]
  /\ box = {}
  /\ posted = {}
  /\ late = {}
  /\ named = {}

\* receive, up to its list request.
Receive(p) ==
  /\ live
  /\ p = screen
  /\ pass[p].at = "idle"
  /\ pass' = [pass EXCEPT ![p] = [Idle EXCEPT !.at = "listing", !.session = cur]]
  /\ UNCHANGED <<store, convo, held, screen, box, posted, late, named>>

\* The person leaves the screen and opens it again: a new latch.
Reopen(p) ==
  /\ live
  /\ p # screen
  /\ pass[p].at = "idle"
  /\ screen' = p
  /\ UNCHANGED <<store, convo, held, pass, box, posted, late, named>>

\* The list arrives: ids without repeats, no more than MaxPulls of them.
Listed(p) ==
  /\ pass[p].at = "listing"
  /\ \E ids \in SUBSET (IF hostile THEN posted ELSE box) :
       /\ Cardinality(ids) <= MaxPulls
       /\ hostile \/ ids = box \/ Cardinality(ids) = MaxPulls
       /\ NextPull(p, [pass[p] EXCEPT !.ids = ids], convo, held, flight)
  /\ UNCHANGED <<content, hostile, live, cur, disk, convo, held, screen, box, posted, late, named>>

ListFails(p) ==
  /\ pass[p].at = "listing"
  /\ pass' = [pass EXCEPT ![p] = Idle]
  /\ UNCHANGED <<store, convo, held, screen, box, posted, late, named>>

\* A blob arrives. A locked session's keys throw, and what does not open is
\* skipped, the peer's own message too if it is stamped too far ahead; the
\* guard refuses a repeat; the rest is pushed.
Opened(p) ==
  LET w  == pass[p]
      b  == CHOOSE x \in w.pull : TRUE
      m  == ComputeMsgId(content[b])
      opens == Opens(Me, CardOf(Peer), content[b], nowMs)
      ok == Usable(w.session) /\ opens /\ m \notin held[w.session]
      c  == IF ok THEN [convo EXCEPT ![w.session][m] = @ + 1] ELSE convo
      h  == IF ok THEN [held EXCEPT ![w.session] = @ \cup {m}] ELSE held
  IN  /\ w.at = "pulled"
      /\ convo' = c
      /\ held' = h
      /\ named' = IF opens THEN named ELSE named \cup ({m} \cap Said)
      /\ NextPull(p, [w EXCEPT !.pull = {}, !.new = IF ok THEN @ \cup {m} ELSE @],
                  c, h, flight)
      /\ UNCHANGED <<content, hostile, live, cur, disk, screen, box, posted, late>>

\* A 404: not there any more, or so the relay says.
Vanished(p) ==
  /\ pass[p].at = "pulling"
  /\ hostile \/ pass[p].pull \cap box = {}
  /\ NextPull(p, [pass[p] EXCEPT !.pull = {}], convo, held, flight)
  /\ UNCHANGED <<content, hostile, live, cur, disk, convo, held, screen, box, posted, late, named>>

\* An answer too large or out of form: counted, and the next id is asked for.
Defective(p) ==
  /\ hostile
  /\ pass[p].at = "pulled"
  /\ named' = named \cup Carried(pass[p].pull)
  /\ NextPull(p, [pass[p] EXCEPT !.pull = {}], convo, held, flight)
  /\ UNCHANGED <<content, hostile, live, cur, disk, convo, held, screen, box, posted, late>>

\* The deadline, a dead connection or a 5xx: undecided, and counted as such.
Interrupted(p) ==
  /\ pass[p].at \in {"pulling", "pulled"}
  /\ named' = named \cup Carried(pass[p].pull)
  /\ late' = IF pass[p].at = "pulling" THEN late \cup pass[p].pull ELSE late
  /\ EndPass(p, [pass[p] EXCEPT !.pull = {}], convo, held, flight)
  /\ UNCHANGED <<content, hostile, live, cur, disk, convo, held, screen, box, posted>>

\* A 401 or 429: answered before anything was deleted.
Refused(p) ==
  /\ pass[p].at = "pulling"
  /\ EndPass(p, [pass[p] EXCEPT !.pull = {}], convo, held, flight)
  /\ UNCHANGED <<content, hostile, live, cur, disk, convo, held, screen, box, posted, late, named>>

-----------------------------------------------------------------------------
(* The mailbox. *)

\* A sender's retry puts the same message into another blob; so may the relay
\* put into ours what it took for another mailbox.
Deposit(b) ==
  /\ b \notin posted
  /\ posted' = posted \cup {b}
  /\ box' = box \cup {b}
  /\ UNCHANGED <<store, convo, held, screen, pass, late, named>>

\* The relay deletes what it hands out, before the bytes reach the wire.
RelayServes(p) ==
  /\ pass[p].at = "pulling"
  /\ hostile \/ pass[p].pull \subseteq box
  /\ box' = box \ pass[p].pull
  /\ pass' = [pass EXCEPT ![p].at = "pulled"]
  /\ UNCHANGED <<store, convo, held, screen, posted, late, named>>

RelayServesLate(b) ==
  /\ b \in late
  /\ box' = box \ {b}
  /\ late' = late \ {b}
  /\ UNCHANGED <<store, convo, held, screen, pass, posted, named>>

-----------------------------------------------------------------------------
(* The vault, as DurableCell promises it. *)

StoreLands ==
  /\ flight # <<>>
  /\ disk' = Head(flight).data
  /\ pass' = [pass EXCEPT ![Head(flight).by] = Idle]
  /\ flight' = Tail(flight)
  /\ UNCHANGED <<content, hostile, live, cur, convo, held, screen, box, posted, late, named>>

\* The caller is told, and what was accepted stays in memory only.
StoreRefuses ==
  /\ StoreFails
  /\ flight # <<>>
  /\ named' = named \cup (Head(flight).data.held \ disk.held)
  /\ pass' = [pass EXCEPT ![Head(flight).by] = Idle]
  /\ flight' = Tail(flight)
  /\ UNCHANGED <<content, hostile, live, cur, disk, convo, held, screen, box, posted, late>>

\* What receive names as the price of a lock: the blob of a pull already
\* asked for, and what the pass had accepted and not yet saved.
AtStake(p) == Carried(pass[p].pull) \cup (pass[p].new \ disk.held)

\* Locking withdraws no write. The last session is bounded to stay open.
Lock ==
  /\ live
  /\ cur < MaxSessions
  /\ live' = FALSE
  /\ named' = named \cup
       UNION { AtStake(p) : p \in { q \in Pass : pass[q].at # "saving" /\ pass[q].session = cur } }
  /\ UNCHANGED <<content, hostile, cur, flight, disk, convo, held, screen, pass, box, posted, late>>

Crash ==
  /\ cur < MaxSessions
  /\ live' = FALSE
  /\ flight' = <<>>
  /\ late' = late \cup UNION { pass[p].pull : p \in { q \in Pass : pass[q].at = "pulling" } }
  /\ named' = named \cup UNION { AtStake(p) : p \in Pass }
  /\ pass' = [p \in Pass |-> Idle]
  /\ UNCHANGED <<content, hostile, cur, disk, convo, held, screen, box, posted>>

\* Slip: the guard starts empty in every session.
UnlockUnguarded ==
  /\ ~live
  /\ live' = TRUE
  /\ cur' = cur + 1
  /\ convo' = [convo EXCEPT ![cur + 1] = disk.convo]
  /\ named' = named \cup UNION { flight[i].data.held \ disk.held : i \in DOMAIN flight }
  /\ UNCHANGED <<content, hostile, flight, disk, held, screen, pass, box, posted, late>>

\* The new session reads the disk; a write still on its way is overtaken.
Unlock ==
  /\ ~live
  /\ live' = TRUE
  /\ cur' = cur + 1
  /\ convo' = [convo EXCEPT ![cur + 1] = disk.convo]
  /\ held' = [held EXCEPT ![cur + 1] = disk.held]
  /\ named' = named \cup UNION { flight[i].data.held \ disk.held : i \in DOMAIN flight }
  /\ UNCHANGED <<content, hostile, flight, disk, screen, pass, box, posted, late>>

PassStep(p) ==
  \/ Receive(p) \/ Reopen(p) \/ Listed(p) \/ ListFails(p)
  \/ Opened(p) \/ Vanished(p) \/ Defective(p) \/ Interrupted(p) \/ Refused(p)

Device ==
  \/ \E p \in Pass : PassStep(p)
  \/ StoreLands \/ StoreRefuses
  \/ Lock \/ Crash \/ Unlock

Relay ==
  \/ \E b \in Blob : Deposit(b) \/ RelayServesLate(b)
  \/ \E p \in Pass : RelayServes(p)

Next == Device \/ Relay

Spec == Init /\ [][Next]_vars

(* The poll keeps firing, every request is answered or timed out, a store   *)
(* answers, a locked vault is unlocked again, and a relay that is asked for *)
(* ever answers in time at some point.                                      *)
Fairness ==
  /\ WF_vars(StoreLands \/ StoreRefuses)
  /\ WF_vars(Unlock)
  /\ WF_vars(\E p \in Pass : Receive(p))
  /\ \A p \in Pass :
       /\ WF_vars(PassStep(p) /\ pass[p].at \in {"listing", "pulling", "pulled"})
       /\ SF_vars(Listed(p) /\ pass'[p].at = "pulling")
       /\ SF_vars(RelayServes(p))
       /\ SF_vars(Opened(p))

FairSpec == Spec /\ Fairness

-----------------------------------------------------------------------------
(* Properties. *)

Snapshots == [convo : [Msg -> Nat], held : SUBSET Msg]

TypeOK ==
  /\ \E setting \in Settings : content = setting.content /\ hostile = setting.hostile
  /\ live \in BOOLEAN
  /\ cur \in Session
  /\ convo \in [Session -> [Msg -> Nat]]
  /\ held \in [Session -> SUBSET Msg]
  /\ flight \in Seq([by : Pass, data : Snapshots])
  /\ disk \in Snapshots
  /\ screen \in Pass
  /\ pass \in [Pass -> [at : {"idle", "listing", "pulling", "pulled", "saving"},
                        session : {0} \cup Session, ids : SUBSET Blob,
                        pull : SUBSET Blob, new : SUBSET Msg]]
  /\ box \in SUBSET posted
  /\ posted \in SUBSET Blob
  /\ late \in SUBSET Blob
  /\ named \in SUBSET Msg

(* No message is ever in a conversation twice, in memory or on the disk:    *)
(* not through a sender's retries, a relay that hands a blob out again, two *)
(* passes at once, or a session restored from an older snapshot.            *)
NoDuplicate ==
  /\ \A s \in Session, m \in Msg : convo[s][m] <= 1
  /\ \A m \in Msg : disk.convo[m] <= 1

(* The guard refuses only what the reader can see: a message it holds is in *)
(* the conversation saved beside it, so a refusal never hides a message.    *)
HeldIsShown ==
  /\ \A m \in disk.held : disk.convo[m] >= 1
  /\ \A s \in Session : \A m \in held[s] : convo[s][m] >= 1

Safe(m) ==
  \/ m \in Carried(box)
  \/ \E p \in Pass : /\ Usable(pass[p].session)
                     /\ m \in Carried(pass[p].pull)
  \/ live /\ m \in held[cur]
  \/ \E i \in DOMAIN flight : m \in flight[i].data.held
  \/ m \in disk.held

(* A message the relay took is lost only where the code says it may be: an  *)
(* undecided pull, a pass a lock or a crash cut off, a save that failed, a  *)
(* save an unlock overtook, a stamp too far ahead of our clock. Everything  *)
(* else leaves it in the mailbox, in an open session or on its way to the   *)
(* disk.                                                                    *)
LossesAreNamed == hostile \/ \A m \in Carried(posted) : Safe(m) \/ m \in named

(* Whatever a conversation shows as the peer's, the peer sealed for us: not *)
(* a message of ours that the relay hands back, though both directions      *)
(* share one key, nor one of another pair or of an unknown version.         *)
OnlySaid ==
  \A m \in Msg \ Said : disk.convo[m] = 0 /\ \A s \in Session : convo[s][m] = 0

(* With an honest relay, again and again there is a moment when every       *)
(* message put into the mailbox is read and saved, or met one of those      *)
(* windows: nothing waits for ever.                                         *)
Collected == []<>(hostile \/ Carried(posted) \subseteq disk.held \cup named)

=============================================================================
