---------------------------- MODULE OutboxProofs ----------------------------
(***************************************************************************)
(* What a conversation says of its own messages, and the order in which    *)
(* the relay gets them, for any number of messages, renderings and         *)
(* sessions, whatever the relay, the store and the person do.              *)
(***************************************************************************)
EXTENDS Outbox, FiniteSetTheorems, SequenceTheorems, TLAPS

Status == {"absent", "queued", "relayed"}

Write == [by : Pass, recs : Records]

Work == [at : {"idle", "saving", "offering", "marking"}, session : {0} \cup Session,
         msg : {0} \cup Msg, todo : SUBSET Msg, relayed : BOOLEAN,
         req : {"none", "sent", "taken"}]

\* Only an offer has a request, and all work but none has a session.
PassState ==
  { w \in Work : /\ w.req # "none" => w.at = "offering" /\ w.msg \in Msg
                 /\ w.at # "idle" => w.session \in Session }

Types ==
  /\ live \in BOOLEAN
  /\ cur \in Session
  /\ ~live => cur + 1 \in Session
  /\ recs \in [Session -> Records]
  /\ flight \in Seq(Write)
  /\ disk \in Records
  /\ sent \in 0..Last
  /\ screen \in Pass
  /\ pass \in [Pass -> PassState]
  /\ late \in SUBSET Msg
  /\ accepted \in Seq(Msg)
  /\ overtaken \in SUBSET Msg

-----------------------------------------------------------------------------
(* Lemmas about the operators. *)

(* Every set of numbers that is not empty has a least one.                  *)
LEMMA LeastIsLeast ==
  ASSUME NEW S \in SUBSET Nat, S # {}
  PROVE  Least(S) \in S /\ \A n \in S : Least(S) <= n
<1> DEFINE Below(x) == { y \in S : y <= x }
           T == { Below(x) : x \in S }
<1>1. ASSUME NEW x \in S, NEW y \in S, y < x
      PROVE  <<Below(y), Below(x)>> \in StrictSubsetOrdering(Nat)
  <2>1. x \in Nat /\ y \in Nat
    OBVIOUS
  <2>2. \A z \in S : z <= y => z <= x
    BY <1>1, <2>1
  <2>3. x <= x /\ ~ (x <= y)
    BY <1>1, <2>1
  <2>4. x \in Below(x) /\ x \notin Below(y)
    BY <2>3
  <2>5. Below(y) \subseteq Below(x) /\ Below(x) \subseteq Nat
    BY <2>2
  <2> HIDE DEF Below
  <2>6. QED  BY <2>4, <2>5 DEF StrictSubsetOrdering
<1>2. T \subseteq FiniteSubsetsOf(Nat)
  <2> SUFFICES ASSUME NEW x \in S PROVE IsFiniteSet(Below(x))
    BY DEF FiniteSubsetsOf
  <2>1. QED  BY FS_BoundedSetOfNaturals
<1>3. PICK L \in T : \A M \in T : ~ (<<M, L>> \in StrictSubsetOrdering(Nat))
  <2>1. T # {}
    OBVIOUS
  <2> HIDE DEF T
  <2>2. QED  BY <1>2, <2>1, WFMin, FS_StrictSubsetOrderingWellFounded
<1>4. PICK x \in S : L = Below(x)
  OBVIOUS
<1>5. ASSUME NEW y \in S PROVE x <= y
  <2>1. ~ (y < x)
    <3>1. Below(y) \in T
      OBVIOUS
    <3> HIDE DEF T, Below
    <3>2. QED  BY <1>1, <1>3, <1>4, <3>1
  <2>2. x \in Nat /\ y \in Nat
    OBVIOUS
  <2>3. QED  BY <2>1, <2>2
<1>6. \E m \in S : \A n \in S : m <= n
  BY <1>5
<1>7. QED  BY <1>6, Zenon DEF Least

LEMMA MsgIsNat == Msg \subseteq Nat
BY DEF Msg

LEMMA HeadAndTail ==
  ASSUME Types, flight # <<>>
  PROVE  Head(flight) \in Write /\ Tail(flight) \in Seq(Write)
BY DEF Types

\* A pass takes up the first of todo that still waits in its session's records.
NextOffer(w, s, todo) ==
  LET waiting == todo \cap Queued(recs'[s])
  IN  /\ w.session = s /\ w.req = "sent"
      /\ w.msg \in waiting /\ \A n \in waiting : w.msg <= n
      /\ w.todo = { n \in todo : n > w.msg }

\* What a turn of a pass may do: save its session's records behind f, while that
\* session is the one in use, and stop or go on with the next of todo.
Turn(p, s, f, todo) ==
  /\ \/ flight' = f
     \/ Usable(s) /\ flight' = Append(f, [by |-> p, recs |-> recs'[s]])
  /\ \E w \in PassState :
       /\ pass' = [pass EXCEPT ![p] = w]
       /\ w.req = "none" \/ NextOffer(w, s, todo)

LEMMA IdleIsState == Idle \in PassState /\ Idle.req = "none"
BY DEF Idle, PassState, Work

LEMMA SaveMarksTurns ==
  ASSUME NEW p \in Pass, NEW s \in Session, NEW f, NEW todo, NEW relayed,
         SaveMarks(p, s, recs'[s], f, relayed)
  PROVE  Turn(p, s, f, todo)
<1>1. CASE relayed /\ Usable(s)
  <2>1. [Idle EXCEPT !.at = "marking", !.session = s] \in PassState
        /\ [Idle EXCEPT !.at = "marking", !.session = s].req = "none"
    BY DEF Idle, PassState, Work
  <2>2. QED  BY <1>1, <2>1 DEF SaveMarks, Turn
<1>2. CASE ~ (relayed /\ Usable(s))
  BY <1>2, IdleIsState DEF SaveMarks, Turn
<1>3. QED  BY <1>1, <1>2

LEMMA OfferNextTurns ==
  ASSUME NEW p \in Pass, NEW s \in Session, NEW f, NEW todo \in SUBSET Msg,
         NEW relayed \in BOOLEAN, OfferNext(p, s, recs'[s], f, todo, relayed)
  PROVE  Turn(p, s, f, todo)
<1> DEFINE waiting == todo \cap Queued(recs'[s])
           m == Least(waiting)
           w == [at |-> "offering", session |-> s, msg |-> m,
                 todo |-> { n \in todo : n > m }, relayed |-> relayed, req |-> "sent"]
<1>1. CASE waiting = {}
  BY <1>1, SaveMarksTurns DEF OfferNext
<1>2. CASE waiting # {}
  <2>1. m \in waiting /\ \A n \in waiting : m <= n
    <3>1. waiting \in SUBSET Nat
      BY MsgIsNat
    <3> HIDE DEF waiting
    <3>2. QED  BY <1>2, <3>1, LeastIsLeast
  <2>2. w \in PassState
    BY <2>1 DEF PassState, Work
  <2>3. NextOffer(w, s, todo)
    BY <2>1 DEF NextOffer
  <2>4. pass' = [pass EXCEPT ![p] = w] /\ flight' = f
    BY <1>2 DEF OfferNext
  <2> HIDE DEF w
  <2>5. QED  BY <2>2, <2>3, <2>4 DEF Turn
<1>3. QED  BY <1>1, <1>2

LEMMA FlushTurns ==
  ASSUME NEW p \in Pass, NEW s \in Session, NEW f, Flush(p, s, recs'[s], f)
  PROVE  Turn(p, s, f, Queued(recs'[s]))
<1>1. Queued(recs'[s]) \in SUBSET Msg
  BY DEF Queued
<1>2. CASE Usable(s)
  BY <1>1, <1>2, OfferNextTurns DEF Flush
<1>3. CASE ~ Usable(s)
  BY <1>3, IdleIsState DEF Flush, Turn
<1>4. QED  BY <1>2, <1>3

-----------------------------------------------------------------------------
(* The same for the actions: who turns, with what left to do. *)

LEMMA SyncTurns ==
  ASSUME Types, NEW p \in Pass, Sync(p)
  PROVE  Turn(p, cur, flight, Queued(recs[cur])) /\ recs' = recs
BY FlushTurns DEF Sync, Types

\* The mark of the message the relay has taken.
Marked(p) == [recs EXCEPT ![pass[p].session] =
               [recs[pass[p].session] EXCEPT ![pass[p].msg] = "relayed"]]

LEMMA FinishedTurns ==
  ASSUME Types, NEW p \in Pass, Finished(p) \/ OutOfTime(p)
  PROVE  /\ pass[p].req = "taken" /\ pass[p].session \in Session /\ pass[p].msg \in Msg
         /\ pass[p].todo \in SUBSET Msg
         /\ Turn(p, pass[p].session, flight, pass[p].todo)
         /\ recs' = Marked(p)
<1> DEFINE s == pass[p].session
<1>1. pass[p].req = "taken" /\ pass[p] \in PassState
  BY DEF Finished, OutOfTime, Types
<1>2. s \in Session /\ pass[p].msg \in Msg /\ pass[p].todo \in SUBSET Msg
  BY <1>1 DEF PassState, Work
<1>3. recs' = Marked(p)
  BY DEF Finished, OutOfTime, Marked
<1>4. recs'[s] = [recs[s] EXCEPT ![pass[p].msg] = "relayed"]
  BY <1>2, <1>3 DEF Marked, Types
<1>5. Turn(p, s, flight, pass[p].todo)
  <2>1. \/ OfferNext(p, s, recs'[s], flight, pass[p].todo, TRUE)
        \/ SaveMarks(p, s, recs'[s], flight, TRUE)
    BY <1>4 DEF Finished, OutOfTime
  <2>2. QED  BY <1>2, <2>1, OfferNextTurns, SaveMarksTurns
<1>6. QED  BY <1>1, <1>2, <1>3, <1>5

LEMMA OfferFailsTurns ==
  ASSUME Types, NEW p \in Pass, OfferFails(p)
  PROVE  /\ pass[p].session \in Session /\ pass[p].msg \in Msg
         /\ Turn(p, pass[p].session, flight, {}) /\ recs' = recs
<1>1. pass[p].req # "none" /\ pass[p] \in PassState
  BY DEF OfferFails, Types
<1>2. pass[p].session \in Session /\ pass[p].msg \in Msg
  BY <1>1 DEF PassState, Work
<1>3. QED  BY <1>2, SaveMarksTurns DEF OfferFails

LEMMA StoreLandsTurns ==
  ASSUME Types, StoreLands
  PROVE  /\ flight # <<>> /\ disk' = Head(flight).recs /\ recs' = recs
         /\ \E p \in Pass, s \in Session : Turn(p, s, Tail(flight), Queued(recs[s]))
<1> DEFINE p == Head(flight).by
<1>1. flight # <<>> /\ disk' = Head(flight).recs /\ recs' = recs
  BY DEF StoreLands
<1>2. p \in Pass
  BY <1>1, HeadAndTail DEF Write
<1>3. pass[p] \in PassState
  BY <1>2 DEF Types
<1>4. CASE pass[p].at = "saving" /\ Flush(p, pass[p].session, recs[pass[p].session], Tail(flight))
  <2>1. pass[p].session \in Session
    BY <1>3, <1>4 DEF PassState, Work
  <2>2. QED  BY <1>1, <1>2, <1>4, <2>1, FlushTurns
<1>5. CASE pass[p].at = "marking" /\ pass' = [pass EXCEPT ![p] = Idle] /\ flight' = Tail(flight)
  <2>1. pass[p].session \in Session
    BY <1>3, <1>5 DEF PassState, Work
  <2>2. QED  BY <1>1, <1>2, <1>5, <2>1, IdleIsState DEF Turn
<1>6. QED  BY <1>4, <1>5 DEF StoreLands

-----------------------------------------------------------------------------
(* The invariants. *)

\* Whatever is marked, the relay has; so has it what it is about to say it has.
Claims ==
  /\ NoFalseClaim
  /\ \A p \in Pass : pass[p].req = "taken" => Taken(pass[p].msg)

\* From the disk through the writes on their way to the records in use, in this
\* order, nothing is forgotten.
Climbs(m, d, f) ==
  /\ \A i \in DOMAIN f : Rank(d[m]) <= Rank(f[i].recs[m])
  /\ \A i, j \in DOMAIN f : i <= j => Rank(f[i].recs[m]) <= Rank(f[j].recs[m])

Under(m, d, f, r) ==
  /\ Rank(d[m]) <= Rank(r[m])
  /\ \A i \in DOMAIN f : Rank(f[i].recs[m]) <= Rank(r[m])

Rising(m) == Climbs(m, disk, flight) /\ (live => Under(m, disk, flight, recs[cur]))

\* What is not yet written is nowhere.
Unwritten ==
  \A m \in Msg : m > sent =>
    /\ \A s \in Session : recs[s][m] = "absent"
    /\ \A i \in DOMAIN flight : flight[i].recs[m] = "absent"
    /\ disk[m] = "absent"
    /\ ~ Taken(m) /\ m \notin late

\* A session that is not opened yet has no records.
Unopened == \A t \in Session, m \in Msg : t > cur => recs[t][m] = "absent"

\* Lost for good: nothing that is or will be on the disk knows of it.
Gone(m) ==
  /\ disk[m] = "absent" /\ recs[cur][m] = "absent"
  /\ \A i \in DOMAIN flight : flight[i].recs[m] = "absent"

\* All that was written before m the relay has, or nobody.
Behind(m) == \A n \in Msg : n < m => Taken(n) \/ Gone(n)

\* What a pass has before it is in its session's records.
Listed == \A p \in Pass : pass[p].req # "none" =>
  \A k \in pass[p].todo \cup {pass[p].msg} : recs[pass[p].session][k] # "absent"

\* A pass skips nothing: what still waits before the end of its list is on it.
Thorough(w) ==
  /\ \A k \in w.todo : k > w.msg
  /\ \A k \in w.todo \cup {w.msg}, n \in Queued(recs[w.session]) :
       n < k => n \in w.todo \cup {w.msg}

Order ==
  /\ \A s \in Session, m, n \in Msg :
       n < m /\ recs[s][m] # "absent" /\ recs[s][n] = "absent" => Gone(n)
  /\ \A p \in Pass : pass[p].req # "none" => Thorough(pass[p])
  /\ \A m \in late : Behind(m)
  /\ \A i \in DOMAIN accepted : Behind(accepted[i])
  /\ \A i, j \in DOMAIN accepted :
       i < j => \/ accepted[i] < accepted[j]
                \/ accepted[i] # accepted[j] /\ Gone(accepted[j])

IInv ==
  /\ Types /\ Claims /\ Listed /\ Unwritten /\ Unopened
  /\ \A m \in Msg : Rising(m) \/ m \in overtaken
  /\ overtaken = {} => Order

LEMMA RankIsNat == \A st : Rank(st) \in Nat
BY DEF Rank

LEMMA TailClimbs ==
  ASSUME NEW m, NEW d, NEW f \in Seq(Write), f # <<>>, Climbs(m, d, f)
  PROVE  Climbs(m, Head(f).recs, Tail(f))
<1>1. /\ Len(f) \in Nat /\ 1 \in DOMAIN f /\ Head(f) = f[1]
      /\ \A i \in DOMAIN Tail(f) : i \in Nat /\ i + 1 \in DOMAIN f /\ Tail(f)[i] = f[i + 1]
  OBVIOUS
<1>2. QED  BY <1>1 DEF Climbs

LEMMA TailUnder ==
  ASSUME NEW m, NEW d, NEW r, NEW f \in Seq(Write), f # <<>>, Under(m, d, f, r)
  PROVE  Under(m, Head(f).recs, Tail(f), r)
<1>1. /\ 1 \in DOMAIN f /\ Head(f) = f[1]
      /\ \A i \in DOMAIN Tail(f) : i + 1 \in DOMAIN f /\ Tail(f)[i] = f[i + 1]
  OBVIOUS
<1>2. QED  BY <1>1 DEF Under

LEMMA AppendClimbs ==
  ASSUME NEW m, NEW d, NEW f \in Seq(Write), NEW w \in Write,
         Climbs(m, d, f), Under(m, d, f, w.recs)
  PROVE  Climbs(m, d, Append(f, w)) /\ Under(m, d, Append(f, w), w.recs)
<1>1. /\ Len(f) \in Nat
      /\ \A i \in DOMAIN Append(f, w) :
           \/ i \in DOMAIN f /\ Append(f, w)[i] = f[i] /\ i <= Len(f)
           \/ i = Len(f) + 1 /\ Append(f, w)[i] = w
  OBVIOUS
<1>2. QED  BY <1>1, RankIsNat DEF Climbs, Under

LEMMA UnderRises ==
  ASSUME NEW m, NEW d, NEW f, NEW r, NEW q, Under(m, d, f, r), Rank(r[m]) <= Rank(q[m])
  PROVE  Under(m, d, f, q)
BY RankIsNat DEF Under

LEMMA EmptyClimbs == ASSUME NEW m, NEW d PROVE Climbs(m, d, <<>>)
BY DEF Climbs

LEMMA InitIInv == Init => IInv
<1> SUFFICES ASSUME Init PROVE IInv
  OBVIOUS
<1>1. Absent \in Records /\ \A m \in Msg : Absent[m] = "absent"
  BY DEF Absent, Records
<1>2. cur \in Session /\ recs = [s \in Session |-> Absent]
  BY OutboxAssumption DEF Init, Session
<1>3. Types
  BY <1>1, <1>2, IdleIsState, OutboxAssumption DEF Init, Types
<1>4. \A p \in Pass : pass[p].req = "none"
  BY IdleIsState DEF Init
<1>5. Claims
  BY <1>1, <1>2, <1>4 DEF Init, Claims, NoFalseClaim
<1>6. Unwritten
  BY <1>1, <1>2 DEF Init, Unwritten, Taken
<1>7. \A m \in Msg : Rising(m)
  BY <1>1, <1>2, RankIsNat DEF Init, Rising, Climbs, Under
<1>8. Order /\ Listed /\ Unopened
  BY <1>1, <1>2, <1>4 DEF Init, Order, Listed, Unopened
<1>9. QED  BY <1>3, <1>5, <1>6, <1>7, <1>8 DEF IInv

-----------------------------------------------------------------------------
(* The turns of the passes, and what a write that lands sets off.           *)

\* p turns in session s with todo before it, after f is left to be written.
TurnStep(p, s, f, todo) ==
  /\ Turn(p, s, f, todo)
  /\ \/ f = flight /\ disk' = disk
     \/ flight # <<>> /\ f = Tail(flight) /\ disk' = Head(flight).recs
  /\ recs' = recs \/ (pass[p].req = "taken" /\ recs' = Marked(p))
  /\ UNCHANGED <<live, cur, sent, screen, accepted, overtaken>>
  /\ late' = late \/ (pass[p].req # "none" /\ late' = late \cup {pass[p].msg})
  /\ todo \in SUBSET Msg /\ \A k \in todo : recs'[s][k] # "absent"
  /\ overtaken = {} => \A k \in todo, n \in Queued(recs'[s]) : n < k => n \in todo

(* Marks disturb no status but "queued", and none that is not in the pass.  *)
LEMMA TurnMarks ==
  ASSUME IInv, NEW p \in Pass, NEW s \in Session, NEW f, NEW todo, TurnStep(p, s, f, todo)
  PROVE  /\ recs' \in [Session -> Records]
         /\ \A t \in Session, m \in Msg :
              \/ recs'[t][m] = recs[t][m]
              \/ pass[p].req = "taken" /\ m = pass[p].msg /\ t = pass[p].session
                 /\ recs'[t][m] = "relayed"
         /\ pass[p].req = "taken" /\ recs' # recs =>
              recs'[pass[p].session][pass[p].msg] = "relayed"
<1>1. CASE recs' = recs
  BY <1>1 DEF IInv, Types
<1>2. CASE pass[p].req = "taken" /\ recs' = Marked(p)
  <2>1. pass[p] \in PassState
    BY DEF IInv, Types
  <2>2. pass[p].session \in Session /\ pass[p].msg \in Msg
    BY <1>2, <2>1 DEF PassState, Work
  <2>3. recs \in [Session -> [Msg -> Status]]
    BY DEF IInv, Types, Records, Status
  <2>4. recs' \in [Session -> Records]
    BY <1>2, <2>2, <2>3 DEF Marked, Records, Status
  <2>5. QED  BY <1>2, <2>2, <2>3, <2>4 DEF Marked
<1>3. QED  BY <1>1, <1>2 DEF TurnStep

(* Every write on its way was on its way before, or has just been made of   *)
(* the records in use.                                                      *)
LEMMA TurnWrites ==
  ASSUME IInv, NEW p \in Pass, NEW s \in Session, NEW f, NEW todo, TurnStep(p, s, f, todo)
  PROVE  /\ f \in Seq(Write) /\ flight' \in Seq(Write) /\ disk' \in Records
         /\ disk' = disk \/ \E i \in DOMAIN flight : disk' = flight[i].recs
         /\ \A i \in DOMAIN flight' :
              \/ \E j \in DOMAIN flight : flight'[i] = flight[j]
              \/ live /\ flight'[i].recs = recs'[cur]
<1>1. flight \in Seq(Write) /\ disk \in Records
  BY DEF IInv, Types
<1>2. /\ f \in Seq(Write) /\ disk' \in Records
      /\ disk' = disk \/ \E i \in DOMAIN flight : disk' = flight[i].recs
      /\ \A i \in DOMAIN f : \E j \in DOMAIN flight : f[i] = flight[j]
  <2>1. CASE f = flight /\ disk' = disk
    BY <1>1, <2>1
  <2>2. CASE flight # <<>> /\ f = Tail(flight) /\ disk' = Head(flight).recs
    <3>1. Head(flight) \in Write /\ Tail(flight) \in Seq(Write)
          /\ 1 \in DOMAIN flight /\ Head(flight) = flight[1]
          /\ \A i \in DOMAIN Tail(flight) : i + 1 \in DOMAIN flight /\ Tail(flight)[i] = flight[i + 1]
      BY <1>1, <2>2
    <3>2. QED  BY <2>2, <3>1 DEF Write
  <2>3. QED  BY <2>1, <2>2 DEF TurnStep
<1>3. recs' \in [Session -> Records]
  BY TurnMarks
<1>4. CASE flight' = f
  BY <1>2, <1>4
<1>5. CASE Usable(s) /\ flight' = Append(f, [by |-> p, recs |-> recs'[s]])
  <2>1. [by |-> p, recs |-> recs'[s]] \in Write /\ live /\ s = cur
    BY <1>3, <1>5 DEF Write, Usable
  <2>2. \A i \in DOMAIN flight' :
          \/ i \in DOMAIN f /\ flight'[i] = f[i]
          \/ flight'[i] = [by |-> p, recs |-> recs'[s]]
    BY <1>2, <1>5, <2>1
  <2>3. flight' \in Seq(Write)
    BY <1>2, <1>5, <2>1
  <2>4. QED  BY <1>2, <2>1, <2>2, <2>3
<1>6. QED  BY <1>4, <1>5 DEF TurnStep, Turn

LEMMA TurnTypes ==
  ASSUME IInv, NEW p \in Pass, NEW s \in Session, NEW f, NEW todo, TurnStep(p, s, f, todo)
  PROVE  Types'
<1>1. pass[p] \in PassState
  BY DEF IInv, Types
<1>2. late' \in SUBSET Msg
  BY <1>1 DEF IInv, Types, TurnStep, PassState
<1>3. pass' \in [Pass -> PassState]
  BY DEF IInv, Types, TurnStep, Turn
<1>4. QED
  BY <1>2, <1>3, TurnMarks, TurnWrites DEF IInv, Types, TurnStep

LEMMA TurnClaims ==
  ASSUME IInv, NEW p \in Pass, NEW s \in Session, NEW f, NEW todo, TurnStep(p, s, f, todo)
  PROVE  Claims'
<1>1. \A m : Taken(m)' = Taken(m)
  BY DEF TurnStep, Taken
<1>2. \A m \in Msg, t \in Session : recs'[t][m] = "relayed" => Taken(m)
  BY TurnMarks DEF IInv, Claims, NoFalseClaim
<1>3. \A m \in Msg : disk'[m] = "relayed" => Taken(m)
  BY TurnWrites DEF IInv, Claims, NoFalseClaim
<1>4. \A m \in Msg, i \in DOMAIN flight' : flight'[i].recs[m] = "relayed" => Taken(m)
  BY <1>2, TurnWrites DEF IInv, Types, Claims, NoFalseClaim
<1>5. \A q \in Pass : pass'[q].req = "taken" => Taken(pass'[q].msg)
  BY DEF IInv, Types, Claims, TurnStep, Turn, NextOffer
<1>6. QED  BY <1>1, <1>2, <1>3, <1>4, <1>5 DEF Claims, NoFalseClaim

LEMMA TurnUnwritten ==
  ASSUME IInv, NEW p \in Pass, NEW s \in Session, NEW f, NEW todo, TurnStep(p, s, f, todo)
  PROVE  Unwritten'
<1> SUFFICES ASSUME NEW m \in Msg, m > sent
             PROVE  /\ \A t \in Session : recs'[t][m] = "absent"
                    /\ \A i \in DOMAIN flight' : flight'[i].recs[m] = "absent"
                    /\ disk'[m] = "absent"
                    /\ ~ Taken(m)' /\ m \notin late'
  BY DEF Unwritten, TurnStep
<1>1. ~ Taken(m) /\ m \notin late
  BY DEF IInv, Unwritten
<1>2. pass[p].req # "none" => m # pass[p].msg
  <2>1. pass[p].req # "none" => pass[p].session \in Session
    BY DEF IInv, Types, PassState, Work
  <2>2. QED  BY <2>1 DEF IInv, Listed, Unwritten
<1>3. \A t \in Session : recs'[t][m] = "absent"
  BY <1>2, TurnMarks DEF IInv, Unwritten
<1>4. disk'[m] = "absent" /\ \A i \in DOMAIN flight' : flight'[i].recs[m] = "absent"
  <2>1. disk'[m] = "absent"
    BY TurnWrites DEF IInv, Unwritten
  <2>2. ASSUME NEW i \in DOMAIN flight' PROVE flight'[i].recs[m] = "absent"
    <3>1. \/ \E j \in DOMAIN flight : flight'[i] = flight[j]
          \/ flight'[i].recs = recs'[cur]
      BY TurnWrites
    <3>2. cur \in Session
      BY DEF IInv, Types
    <3>3. QED  BY <1>3, <3>1, <3>2 DEF IInv, Unwritten
  <2>3. QED  BY <2>1, <2>2
<1>5. QED  BY <1>1, <1>2, <1>3, <1>4 DEF TurnStep, Taken

LEMMA TurnListed ==
  ASSUME IInv, NEW p \in Pass, NEW s \in Session, NEW f, NEW todo, TurnStep(p, s, f, todo)
  PROVE  Listed'
<1> SUFFICES ASSUME NEW q \in Pass, pass'[q].req # "none",
                    NEW k \in pass'[q].todo \cup {pass'[q].msg}
             PROVE  recs'[pass'[q].session][k] # "absent"
  BY DEF Listed
<1>1. CASE pass'[q] = pass[q]
  <2>1. pass[q] \in PassState
    BY DEF IInv, Types
  <2>2. pass[q].session \in Session /\ k \in Msg
    BY <1>1, <2>1 DEF PassState, Work
  <2>3. recs[pass[q].session][k] # "absent"
    BY <1>1 DEF IInv, Listed
  <2>4. QED  BY <1>1, <2>2, <2>3, TurnMarks
<1>2. CASE pass'[q].session = s /\ pass'[q].msg \in todo /\ pass'[q].todo \subseteq todo
  BY <1>2 DEF TurnStep
<1>3. QED  BY <1>1, <1>2 DEF IInv, Types, TurnStep, Turn, NextOffer

LEMMA TurnUnopened ==
  ASSUME IInv, NEW p \in Pass, NEW s \in Session, NEW f, NEW todo, TurnStep(p, s, f, todo)
  PROVE  Unopened'
<1> SUFFICES ASSUME NEW t \in Session, NEW m \in Msg, t > cur PROVE recs'[t][m] = "absent"
  BY DEF Unopened, TurnStep
<1>1. recs[t][m] = "absent"
  BY DEF IInv, Unopened
<1>2. pass[p].req = "taken" /\ m = pass[p].msg => recs[pass[p].session][m] # "absent"
  BY DEF IInv, Listed
<1>3. QED  BY <1>1, <1>2, TurnMarks

LEMMA TurnRising ==
  ASSUME IInv, NEW p \in Pass, NEW s \in Session, NEW f, NEW todo, TurnStep(p, s, f, todo),
         NEW m \in Msg, Rising(m)
  PROVE  Rising(m)'
<1>1. flight \in Seq(Write) /\ f \in Seq(Write)
  BY TurnWrites DEF IInv, Types
<1>2. Climbs(m, disk', f) /\ (live => Under(m, disk', f, recs[cur]))
  BY <1>1, TailClimbs, TailUnder DEF Rising, TurnStep
<1>3. Rank(recs[cur][m]) <= Rank(recs'[cur][m])
  <2>1. cur \in Session
    BY DEF IInv, Types
  <2>2. Rank("relayed") = 2 /\ \A st : Rank(st) <= Rank(st) /\ Rank(st) <= 2
    BY DEF Rank
  <2>3. QED  BY <2>1, <2>2, TurnMarks
<1>4. live => Under(m, disk', f, recs'[cur])
  BY <1>2, <1>3, UnderRises
<1>5. CASE flight' = f
  BY <1>2, <1>4, <1>5 DEF Rising, TurnStep
<1>6. CASE Usable(s) /\ flight' = Append(f, [by |-> p, recs |-> recs'[s]])
  <2>1. [by |-> p, recs |-> recs'[s]] \in Write /\ live /\ s = cur
    BY <1>6, TurnMarks DEF Write, Usable
  <2>2. Climbs(m, disk', flight') /\ Under(m, disk', flight', recs'[cur])
    BY <1>1, <1>2, <1>4, <1>6, <2>1, AppendClimbs
  <2>3. QED  BY <2>2 DEF Rising, TurnStep
<1>7. QED  BY <1>5, <1>6 DEF TurnStep, Turn

(* What a request is about is next in line, if nothing was overtaken.       *)
LEMMA OfferIsBehind ==
  ASSUME IInv, Order, NEW p \in Pass, pass[p].req # "none"
  PROVE  Behind(pass[p].msg)
<1> DEFINE s == pass[p].session
           m == pass[p].msg
<1>1. pass[p] \in PassState
  BY DEF IInv, Types
<1>2. s \in Session /\ m \in Msg /\ pass[p].todo \in SUBSET Msg
  BY <1>1 DEF PassState, Work
<1>3. SUFFICES ASSUME NEW n \in Msg, n < m PROVE Taken(n) \/ Gone(n)
  BY DEF Behind
<1>4. m \in Nat /\ n \in Nat
  BY <1>2, MsgIsNat
<1>5. n \notin Queued(recs[s])
  BY <1>2, <1>3, <1>4 DEF Order, Thorough
<1>6. recs[s][n] \in Status
  BY <1>2 DEF IInv, Types, Records, Status
<1>7. CASE recs[s][n] = "relayed"
  BY <1>2, <1>7 DEF IInv, Claims, NoFalseClaim
<1>8. CASE recs[s][n] = "absent"
  BY <1>2, <1>3, <1>8 DEF IInv, Listed, Order
<1>9. QED  BY <1>5, <1>6, <1>7, <1>8 DEF Status, Queued

LEMMA TurnGone ==
  ASSUME IInv, NEW p \in Pass, NEW s \in Session, NEW f, NEW todo, TurnStep(p, s, f, todo),
         NEW m \in Msg, Gone(m), overtaken = {}
  PROVE  Gone(m)'
<1>1. cur \in Session /\ cur' = cur
  BY DEF IInv, Types, TurnStep
<1>2. recs'[cur][m] = "absent"
  <2>1. pass[p].req = "taken" /\ m = pass[p].msg => recs[pass[p].session][m] # "absent"
    BY DEF IInv, Listed
  <2>2. QED  BY <1>1, <2>1, TurnMarks DEF Gone
<1>3. disk'[m] = "absent" /\ \A i \in DOMAIN flight' : flight'[i].recs[m] = "absent"
  <2>1. disk'[m] = "absent"
    BY TurnWrites DEF Gone
  <2>2. ASSUME NEW i \in DOMAIN flight' PROVE flight'[i].recs[m] = "absent"
    <3>1. \/ \E j \in DOMAIN flight : flight'[i] = flight[j]
          \/ flight'[i].recs = recs'[cur]
      BY TurnWrites
    <3>2. QED  BY <1>2, <3>1 DEF Gone
  <2>3. QED  BY <2>1, <2>2
<1>4. QED  BY <1>1, <1>2, <1>3 DEF Gone

LEMMA TurnOrder ==
  ASSUME IInv, NEW p \in Pass, NEW s \in Session, NEW f, NEW todo, TurnStep(p, s, f, todo),
         overtaken = {}
  PROVE  Order'
<1> USE DEF IInv
<1>1. Order /\ overtaken = {} /\ accepted' = accepted /\ \A m : Taken(m)' = Taken(m)
  BY DEF TurnStep, Taken
<1>2. \A m \in Msg : Gone(m) => Gone(m)'
  BY TurnGone
<1>3. \A m : Behind(m) => Behind(m)'
  BY <1>1, <1>2 DEF Behind
<1>4. ASSUME NEW t \in Session, NEW m \in Msg
      PROVE  recs'[t][m] = "absent" <=> recs[t][m] = "absent"
  <2>1. pass[p].req = "taken" /\ m = pass[p].msg => recs[pass[p].session][m] # "absent"
    BY DEF Listed
  <2>2. QED  BY <2>1, TurnMarks
<1>5. \A t \in Session, m, n \in Msg :
        n < m /\ recs'[t][m] # "absent" /\ recs'[t][n] = "absent" => Gone(n)'
  BY <1>1, <1>2, <1>4 DEF Order
<1>6. ASSUME NEW q \in Pass, pass'[q].req # "none"
      PROVE  Thorough(pass[q])'
  <2>1. ASSUME NEW t \in Session, NEW n \in Queued(recs'[t]) PROVE n \in Queued(recs[t])
    BY TurnMarks DEF Queued
  <2>2. CASE pass'[q] = pass[q]
    <3>1. pass[q] \in PassState
      BY DEF Types
    <3>2. pass[q].session \in Session
      BY <1>6, <2>2, <3>1 DEF PassState
    <3>3. Thorough(pass[q])
      BY <1>1, <1>6, <2>2 DEF Order
    <3>4. QED  BY <2>1, <2>2, <3>2, <3>3 DEF Thorough
  <2>3. CASE NextOffer(pass'[q], s, todo)
    <3> DEFINE w == pass'[q]
    <3>1. /\ w.session = s /\ w.msg \in todo /\ w.todo = { n \in todo : n > w.msg }
          /\ \A n \in todo \cap Queued(recs'[s]) : w.msg <= n
      BY <2>3 DEF NextOffer
    <3>2. \A k \in todo, n \in Queued(recs'[s]) : n < k => n \in todo
      BY <1>1 DEF TurnStep
    <3>3. \A k \in todo : k \in Nat
      BY MsgIsNat DEF TurnStep
    <3>4. ASSUME NEW k \in w.todo \cup {w.msg}, NEW n \in Queued(recs'[s]), n < k
          PROVE  n \in w.todo \cup {w.msg}
      <4>1. n \in todo
        BY <3>1, <3>2, <3>4
      <4>2. w.msg <= n /\ n \in Nat /\ w.msg \in Nat
        BY <3>1, <3>3, <3>4, <4>1
      <4>3. QED  BY <3>1, <4>1, <4>2
    <3> HIDE DEF w
    <3>5. (\A k \in w.todo : k > w.msg)
      BY <3>1
    <3>6. QED  BY <3>1, <3>4, <3>5 DEF Thorough, w
  <2>4. QED  BY <1>6, <2>2, <2>3 DEF Types, TurnStep, Turn
<1>7. ASSUME NEW m \in late' PROVE Behind(m)'
  <2>1. m \in late \/ (pass[p].req # "none" /\ m = pass[p].msg)
    BY <1>7 DEF TurnStep
  <2>2. Behind(m)
    BY <1>1, <2>1, OfferIsBehind DEF Order
  <2>3. QED  BY <1>3, <2>2
<1>8. (\A i \in DOMAIN accepted : Behind(accepted[i]))'
  BY <1>1, <1>3 DEF Order
<1>9. (\A i, j \in DOMAIN accepted :
         i < j => \/ accepted[i] < accepted[j]
                  \/ accepted[i] # accepted[j] /\ Gone(accepted[j]))'
  <2>1. \A j \in DOMAIN accepted : accepted[j] \in Msg
    BY DEF Types
  <2>2. \A i, j \in DOMAIN accepted :
          i < j => \/ accepted[i] < accepted[j]
                   \/ accepted[i] # accepted[j] /\ Gone(accepted[j])
    BY <1>1 DEF Order
  <2>3. QED  BY <1>1, <1>2, <2>1, <2>2
<1>10. QED  BY <1>5, <1>6, <1>7, <1>8, <1>9 DEF Order

LEMMA TurnIInv ==
  ASSUME IInv, NEW p \in Pass, NEW s \in Session, NEW f, NEW todo, TurnStep(p, s, f, todo)
  PROVE  IInv'
<1>1. overtaken' = overtaken
  BY DEF TurnStep
<1>2. Types' /\ Claims' /\ Listed' /\ Unwritten' /\ Unopened'
  BY TurnTypes, TurnClaims, TurnListed, TurnUnwritten, TurnUnopened
<1>3. \A m \in Msg : (Rising(m) \/ m \in overtaken)'
  BY <1>1, TurnRising DEF IInv
<1>4. (overtaken = {} => Order)'
  BY <1>1, TurnOrder
<1>5. QED  BY <1>2, <1>3, <1>4 DEF IInv

-----------------------------------------------------------------------------
(* The actions. *)

LEMMA SyncIInv == ASSUME IInv, NEW p \in Pass, Sync(p) PROVE IInv'
<1>1. Turn(p, cur, flight, Queued(recs[cur])) /\ recs' = recs /\ cur \in Session
  BY SyncTurns DEF IInv, Types
<1>2. /\ UNCHANGED <<live, cur, disk, sent, screen, accepted, overtaken>> /\ late' = late
      /\ \A k \in Queued(recs[cur]) : k \in Msg /\ recs'[cur][k] # "absent"
  BY <1>1 DEF Sync, Queued
<1>3. TurnStep(p, cur, flight, Queued(recs[cur]))
  BY <1>1, <1>2 DEF TurnStep
<1>4. QED  BY <1>1, <1>3, TurnIInv

LEMMA StoreLandsIInv == ASSUME IInv, StoreLands PROVE IInv'
<1>1. /\ flight # <<>> /\ disk' = Head(flight).recs /\ recs' = recs
      /\ UNCHANGED <<live, cur, sent, screen, late, accepted, overtaken>>
  BY StoreLandsTurns DEF StoreLands, IInv
<1>2. PICK p \in Pass, s \in Session : Turn(p, s, Tail(flight), Queued(recs[s]))
  BY StoreLandsTurns DEF IInv
<1>3. \A k \in Queued(recs[s]) : k \in Msg /\ recs'[s][k] # "absent"
  BY <1>1 DEF Queued
<1>4. TurnStep(p, s, Tail(flight), Queued(recs[s]))
  BY <1>1, <1>2, <1>3 DEF TurnStep
<1>5. QED  BY <1>4, TurnIInv

LEMMA FinishedIInv ==
  ASSUME IInv, NEW p \in Pass, Finished(p) \/ OutOfTime(p) PROVE IInv'
<1> DEFINE s == pass[p].session
           m == pass[p].msg
           todo == pass[p].todo
<1>1. /\ pass[p].req = "taken" /\ s \in Session /\ m \in Msg /\ todo \in SUBSET Msg
      /\ Turn(p, s, flight, todo) /\ recs' = Marked(p)
  BY FinishedTurns DEF IInv
<1>2. UNCHANGED <<live, cur, disk, sent, screen, late, accepted, overtaken>>
  BY DEF Finished, OutOfTime
<1>3. /\ recs'[s][m] = "relayed"
      /\ \A k \in Msg : k # m => recs'[s][k] = recs[s][k]
  <2>1. recs \in [Session -> [Msg -> Status]]
    BY DEF IInv, Types, Records, Status
  <2>2. QED  BY <1>1, <2>1 DEF Marked
<1>4. ASSUME NEW k \in todo PROVE recs'[s][k] # "absent"
  <2>1. recs[s][k] # "absent"
    BY <1>1 DEF IInv, Listed
  <2>2. QED  BY <1>1, <1>3, <2>1
<1>5. ASSUME overtaken = {}, NEW k \in todo, NEW n \in Queued(recs'[s]), n < k PROVE n \in todo
  <2>1. n # m /\ n \in Queued(recs[s])
    BY <1>3 DEF Queued
  <2>2. Thorough(pass[p])
    BY <1>1, <1>5 DEF IInv, Order
  <2>3. QED  BY <1>5, <2>1, <2>2 DEF Thorough
<1>6. TurnStep(p, s, flight, todo)
  BY <1>1, <1>2, <1>4, <1>5 DEF TurnStep
<1>7. QED  BY <1>1, <1>6, TurnIInv

LEMMA OfferFailsIInv == ASSUME IInv, NEW p \in Pass, OfferFails(p) PROVE IInv'
<1>1. pass[p].session \in Session /\ Turn(p, pass[p].session, flight, {}) /\ recs' = recs
  BY OfferFailsTurns DEF IInv
<1>2. /\ UNCHANGED <<live, cur, disk, sent, screen, accepted, overtaken>>
      /\ pass[p].req # "none"
      /\ late' = late \/ late' = late \cup {pass[p].msg}
  BY DEF OfferFails
<1>3. TurnStep(p, pass[p].session, flight, {})
  BY <1>1, <1>2 DEF TurnStep
<1>4. QED  BY <1>1, <1>3, TurnIInv

LEMMA ReopenIInv == ASSUME IInv, NEW p \in Pass, Reopen(p) PROVE IInv'
<1>1. /\ UNCHANGED <<live, cur, flight, disk, overtaken, recs, sent, pass, late, accepted>>
      /\ screen' \in Pass
  BY DEF Reopen, store
<1>2. Types' /\ Claims' /\ Listed' /\ Unwritten' /\ Unopened'
  BY <1>1 DEF IInv, Types, Claims, NoFalseClaim, Listed, Unwritten, Unopened, Taken
<1>3. \A m \in Msg : Rising(m)' = Rising(m)
  BY <1>1 DEF Rising, Climbs, Under
<1>4. Order' = Order
  BY <1>1 DEF Order, Thorough, Behind, Gone, Taken, Queued
<1>5. QED  BY <1>1, <1>2, <1>3, <1>4 DEF IInv

(* A snapshot of the records in use, with the next message in them.         *)
LEMMA SendIInv == ASSUME IInv, NEW p \in Pass, Send(p) PROVE IInv'
<1> DEFINE new == sent + 1
           w == [by |-> p, recs |-> recs'[cur]]
           idle == [Idle EXCEPT !.at = "saving", !.session = cur]
<1> USE DEF IInv
<1>1. /\ live /\ cur \in Session /\ new \in Msg /\ sent' = new /\ sent \in Nat
      /\ recs' = [recs EXCEPT ![cur][new] = "queued"]
      /\ flight' = Append(flight, w)
      /\ pass' = [pass EXCEPT ![p] = idle]
      /\ UNCHANGED <<live, cur, disk, screen, late, accepted, overtaken>>
  BY OutboxAssumption DEF Send, Types, Msg
<1>2. idle \in PassState /\ idle.req = "none"
  BY <1>1 DEF Idle, PassState, Work
<1>3. recs' \in [Session -> Records] /\ recs \in [Session -> [Msg -> Status]]
  BY <1>1 DEF Types, Records, Status
<1>4. /\ recs'[cur][new] = "queued" /\ recs[cur][new] = "absent"
      /\ \A t \in Session, m \in Msg : t # cur \/ m # new => recs'[t][m] = recs[t][m]
  <2>1. new > sent
    BY <1>1
  <2>2. QED  BY <1>1, <1>3, <2>1 DEF Unwritten
<1>5. w \in Write /\ flight \in Seq(Write)
  BY <1>1, <1>3 DEF Write, Types
<1>6. flight' \in Seq(Write)
      /\ \A i \in DOMAIN flight' :
           \/ i \in DOMAIN flight /\ flight'[i] = flight[i]
           \/ flight'[i].recs = recs'[cur]
  BY <1>1, <1>5
<1>7. pass' \in [Pass -> PassState]
  BY <1>1, <1>2 DEF Types
<1>8. Types'
  BY <1>1, <1>3, <1>6, <1>7, OutboxAssumption DEF Types, Msg
<1>9. \A m : Taken(m)' = Taken(m)
  BY <1>1 DEF Taken
<1>10. Claims'
  <2>1. \A t \in Session, m \in Msg : recs'[t][m] = "relayed" => Taken(m)
    BY <1>4 DEF Claims, NoFalseClaim
  <2>2. \A q \in Pass : pass'[q].req = "taken" => Taken(pass'[q].msg)
    BY <1>1, <1>2 DEF Claims, Types
  <2>3. QED  BY <1>1, <1>6, <1>9, <2>1, <2>2 DEF Claims, NoFalseClaim
<1>11. Listed'
  <2>1. ASSUME NEW q \in Pass, pass'[q].req # "none",
               NEW k \in pass[q].todo \cup {pass[q].msg}
        PROVE  pass'[q] = pass[q] /\ recs'[pass[q].session][k] # "absent"
    <3>1. pass'[q] = pass[q] /\ pass[q] \in PassState
      BY <1>1, <1>2, <2>1 DEF Types
    <3>2. pass[q].session \in Session /\ k \in Msg
      BY <2>1, <3>1 DEF PassState, Work
    <3>3. recs[pass[q].session][k] # "absent"
      BY <2>1, <3>1 DEF Listed
    <3>4. QED  BY <1>4, <3>1, <3>2, <3>3
  <2>2. \A q \in Pass : pass'[q].req # "none" => pass'[q] = pass[q]
    BY <1>1, <1>2 DEF Types
  <2>3. QED  BY <2>1, <2>2 DEF Listed
<1>12. Unwritten'
  <2> SUFFICES ASSUME NEW m \in Msg, m > new
               PROVE  /\ \A t \in Session : recs'[t][m] = "absent"
                      /\ \A i \in DOMAIN flight' : flight'[i].recs[m] = "absent"
                      /\ disk'[m] = "absent"
                      /\ ~ Taken(m)' /\ m \notin late'
    BY <1>1 DEF Unwritten
  <2>1. m > sent /\ m # new
    BY <1>1, MsgIsNat
  <2>2. \A t \in Session : recs'[t][m] = "absent"
    BY <1>4, <2>1 DEF Unwritten
  <2>3. \A i \in DOMAIN flight' : flight'[i].recs[m] = "absent"
    BY <1>1, <1>6, <2>1, <2>2 DEF Unwritten
  <2>4. QED  BY <1>1, <1>9, <2>1, <2>2, <2>3 DEF Unwritten
<1>13. ASSUME NEW m \in Msg, Rising(m) PROVE Rising(m)'
  <2>1. Rank(recs[cur][m]) <= Rank(recs'[cur][m])
    BY <1>1, <1>4 DEF Rank
  <2>2. Under(m, disk, flight, w.recs) /\ Climbs(m, disk, flight)
    BY <1>1, <1>13, <2>1, UnderRises DEF Rising
  <2>3. Climbs(m, disk, flight') /\ Under(m, disk, flight', w.recs)
    BY <1>1, <1>5, <2>2, AppendClimbs
  <2>4. QED  BY <1>1, <2>3 DEF Rising
<1>14. ASSUME overtaken = {} PROVE Order'
  <2>1. Order
    BY <1>14
  <2>2. ASSUME NEW m \in Msg, m # new, Gone(m) PROVE Gone(m)'
    BY <1>1, <1>4, <1>6, <2>2 DEF Gone
  <2>3. ASSUME NEW m \in Msg, m <= sent, Behind(m) PROVE Behind(m)'
    <3>1. \A n \in Msg : n < m => n # new
      BY <1>1, <2>3, MsgIsNat
    <3>2. QED  BY <1>9, <2>2, <2>3, <3>1 DEF Behind
  <2>4. \A m \in Msg : Taken(m) \/ m \in late => m <= sent
    BY <1>1, MsgIsNat DEF Unwritten
  <2>5. ASSUME NEW t \in Session, NEW m \in Msg, NEW n \in Msg,
               n < m, recs'[t][m] # "absent", recs'[t][n] = "absent"
        PROVE  Gone(n)'
    <3>1. n # new
      <4>1. CASE recs[t][m] # "absent"
        <5>1. m <= sent
          BY <1>1, <4>1, MsgIsNat DEF Unwritten
        <5>2. QED  BY <1>1, <2>5, <5>1, MsgIsNat
      <4>2. CASE recs[t][m] = "absent"
        <5>1. m = new
          BY <1>4, <2>5, <4>2
        <5>2. QED  BY <1>1, <2>5, <5>1, MsgIsNat
      <4>3. QED  BY <4>1, <4>2
    <3>2. recs[t][n] = "absent"
      BY <1>4, <2>5, <3>1
    <3>3. CASE recs[t][m] # "absent"
      BY <2>1, <2>2, <2>5, <3>1, <3>2, <3>3 DEF Order
    <3>4. CASE recs[t][m] = "absent"
      <4>1. t = cur /\ m = new
        BY <1>4, <2>5, <3>4
      <4>2. Under(n, disk, flight, recs[cur])
        BY <1>1, <1>14 DEF Rising
      <4>3. \A st : Rank(st) <= Rank("absent") => st = "absent"
        BY DEF Rank
      <4>4. Gone(n)
        BY <3>2, <4>1, <4>2, <4>3 DEF Under, Gone
      <4>5. QED  BY <2>2, <3>1, <4>4
    <3>5. QED  BY <3>3, <3>4
  <2>6. ASSUME NEW q \in Pass, pass'[q].req # "none" PROVE Thorough(pass[q])'
    <3>1. pass'[q] = pass[q] /\ pass[q] \in PassState
      BY <1>1, <1>2, <2>6 DEF Types
    <3>2. pass[q].session \in Session
          /\ \A k \in pass[q].todo \cup {pass[q].msg} : k \in Msg
      BY <2>6, <3>1 DEF PassState, Work
    <3>3. Thorough(pass[q])
      BY <2>1, <2>6, <3>1 DEF Order
    <3>4. ASSUME NEW k \in pass[q].todo \cup {pass[q].msg},
                 NEW n \in Queued(recs'[pass[q].session]), n < k
          PROVE  n \in Queued(recs[pass[q].session])
      <4>1. recs[pass[q].session][k] # "absent"
        BY <2>6, <3>1 DEF Listed
      <4>2. k <= sent
        BY <1>1, <3>2, <4>1, MsgIsNat DEF Unwritten
      <4>3. n # new /\ n \in Msg
        <5>1. n \in Msg
          BY DEF Queued
        <5>2. n \in Nat /\ k \in Nat
          BY <3>2, <5>1, MsgIsNat
        <5>3. QED  BY <1>1, <3>4, <4>2, <5>1, <5>2
      <4>4. QED  BY <1>4, <3>2, <3>4, <4>3 DEF Queued
    <3>5. QED  BY <3>1, <3>3, <3>4 DEF Thorough
  <2>7. ASSUME NEW m \in late' PROVE Behind(m)'
    <3>1. m \in late /\ m \in Msg
      BY <1>1, <2>7 DEF Types
    <3>2. QED  BY <2>1, <2>3, <2>4, <3>1 DEF Order
  <2>8. \A i \in DOMAIN accepted : accepted[i] \in Msg /\ accepted[i] <= sent
    BY <2>4 DEF Types, Taken
  <2>9. (\A i \in DOMAIN accepted : Behind(accepted[i]))'
    BY <1>1, <2>1, <2>3, <2>8 DEF Order
  <2>10. (\A i, j \in DOMAIN accepted :
            i < j => \/ accepted[i] < accepted[j]
                     \/ accepted[i] # accepted[j] /\ Gone(accepted[j]))'
    <3>1. \A j \in DOMAIN accepted : accepted[j] # new
      BY <1>1, <2>8, MsgIsNat
    <3>2. \A i, j \in DOMAIN accepted :
            i < j => \/ accepted[i] < accepted[j]
                     \/ accepted[i] # accepted[j] /\ Gone(accepted[j])
      BY <2>1 DEF Order
    <3>3. QED  BY <1>1, <2>2, <2>8, <3>1, <3>2
  <2>11. QED  BY <2>5, <2>6, <2>7, <2>9, <2>10 DEF Order
<1>15. Unopened'
  <2>1. cur \in Nat
    BY <1>1 DEF Session
  <2>2. QED  BY <1>1, <1>4, <2>1 DEF Unopened
<1>16. QED  BY <1>1, <1>8, <1>10, <1>11, <1>12, <1>13, <1>14, <1>15

(* The relay may take a blob in an open request or in one given up.         *)
LEMMA TakesIInv ==
  ASSUME IInv, NEW m \in Msg, Takes(m),
         overtaken = {} => Behind(m),
         m <= sent,
         UNCHANGED <<live, cur, recs, flight, disk, sent, screen, overtaken>>,
         late' \in SUBSET late, pass' \in [Pass -> PassState],
         \A q \in Pass : \/ pass'[q] = pass[q]
                        \/ /\ pass[q].req # "none" /\ pass'[q] = [pass[q] EXCEPT !.req = "taken"]
                           /\ pass[q].msg = m
  PROVE  IInv'
<1> USE DEF IInv
<1>1. accepted \in Seq(Msg) /\ accepted' \in Seq(Msg)
  BY DEF Types, Takes
<1>2. \A n : Taken(n)' <=> Taken(n) \/ n = m
  BY <1>1 DEF Takes, Taken
<1>3. Types'
  BY <1>1 DEF Types
<1>4. \A q \in Pass : /\ pass'[q].session = pass[q].session /\ pass'[q].msg = pass[q].msg
                      /\ pass'[q].todo = pass[q].todo
                      /\ pass'[q].req # "none" => pass[q].req # "none"
                      /\ pass'[q].req = "taken" => pass[q].req = "taken" \/ pass[q].msg = m
  BY DEF Types, PassState, Work
<1>5. Claims'
  BY <1>2, <1>4 DEF Claims, NoFalseClaim
<1>6. Listed'
  BY <1>4 DEF Listed
<1>7. Unwritten' /\ Unopened'
  <2>1. \A n \in Msg : n > sent => n # m
    BY MsgIsNat DEF Types
  <2>2. QED  BY <1>2, <2>1 DEF Unwritten, Unopened
<1>8. \A n \in Msg : Rising(n)' = Rising(n)
  BY DEF Rising, Climbs, Under
<1>9. ASSUME overtaken = {} PROVE Order'
  <2>1. Order /\ \A n : Gone(n)' = Gone(n)
    BY <1>9 DEF Gone
  <2>2. \A n : Behind(n) => Behind(n)'
    BY <1>2, <2>1 DEF Behind
  <2>3. \A s \in Session, k, n \in Msg :
          n < k /\ recs[s][k] # "absent" /\ recs[s][n] = "absent" => Gone(n)'
    BY <2>1 DEF Order
  <2>4. \A q \in Pass : pass'[q].req # "none" => Thorough(pass[q])'
    BY <1>4, <2>1 DEF Order, Thorough, Queued
  <2>5. \A n \in late' : Behind(n)'
    BY <2>1, <2>2 DEF Order
  <2>6. \A i \in DOMAIN accepted' :
          \/ i \in DOMAIN accepted /\ accepted'[i] = accepted[i]
          \/ i = Len(accepted) + 1 /\ accepted'[i] = m /\ ~ Taken(m)
    BY <1>1 DEF Takes
  <2>7. (\A i \in DOMAIN accepted : Behind(accepted[i]))'
    <3>1. \A i \in DOMAIN accepted : Behind(accepted[i])
      BY <2>1 DEF Order
    <3>2. Behind(m)'
      BY <1>9, <2>2
    <3>3. \A n : Behind(n)' = (\A k \in Msg : k < n => Taken(k)' \/ Gone(k)')
      BY DEF Behind
    <3>4. QED  BY <2>2, <2>6, <3>1, <3>2, <3>3
  <2>8. ASSUME NEW i \in DOMAIN accepted', NEW j \in DOMAIN accepted', i < j
        PROVE  \/ accepted'[i] < accepted'[j]
               \/ accepted'[i] # accepted'[j] /\ \E n : n = accepted'[j] /\ Gone(n)
    <3>1. i \in DOMAIN accepted /\ accepted'[i] = accepted[i]
      BY <1>1, <2>6, <2>8
    <3>2. CASE j \in DOMAIN accepted /\ accepted'[j] = accepted[j]
      BY <2>1, <2>8, <3>1, <3>2 DEF Order
    <3>3. CASE accepted'[j] = m /\ ~ Taken(m)
      <4>1. accepted[i] # m /\ accepted[i] \in Msg
        BY <1>1, <3>1, <3>3 DEF Taken
      <4>2. CASE m < accepted[i]
        <5>1. Behind(accepted[i])
          BY <2>1, <3>1 DEF Order
        <5>2. QED  BY <3>1, <3>3, <4>1, <4>2, <5>1 DEF Behind
      <4>3. QED  BY <3>1, <3>3, <4>1, <4>2, MsgIsNat
    <3>4. QED  BY <2>6, <3>2, <3>3
  <2>9. (\A i, j \in DOMAIN accepted :
           i < j => \/ accepted[i] < accepted[j]
                    \/ accepted[i] # accepted[j] /\ Gone(accepted[j]))'
    <3>1. \A n : Gone(n)' = /\ disk'[n] = "absent" /\ recs'[cur'][n] = "absent"
                            /\ \A i \in DOMAIN flight' : flight'[i].recs[n] = "absent"
      BY DEF Gone
    <3>2. QED  BY <2>1, <2>8, <3>1
  <2>10. QED  BY <1>4, <2>3, <2>4, <2>5, <2>7, <2>9 DEF Order, Thorough, Queued
<1>10. QED  BY <1>3, <1>5, <1>6, <1>7, <1>8, <1>9

LEMMA RelayTakesIInv == ASSUME IInv, NEW p \in Pass, RelayTakes(p) PROVE IInv'
<1> DEFINE m == pass[p].msg
<1>1. /\ pass[p].req # "none" /\ pass[p] \in PassState /\ pass' = [pass EXCEPT ![p].req = "taken"]
      /\ Takes(m) /\ UNCHANGED <<live, cur, recs, flight, disk, sent, screen, overtaken, late>>
  BY DEF RelayTakes, IInv, Types, store
<1>2. m \in Msg /\ pass[p].session \in Session /\ [pass[p] EXCEPT !.req = "taken"] \in PassState
  BY <1>1 DEF PassState, Work
<1>3. overtaken = {} => Behind(m)
  BY <1>1, OfferIsBehind DEF IInv
<1>4. m <= sent
  <2>1. recs[pass[p].session][m] # "absent" /\ sent \in Nat /\ m \in Nat
    BY <1>1, <1>2, MsgIsNat DEF IInv, Listed, Types
  <2>2. QED  BY <1>2, <2>1 DEF IInv, Unwritten
<1>5. pass' \in [Pass -> PassState]
      /\ \A q \in Pass : \/ pass'[q] = pass[q]
                        \/ (q = p /\ pass'[q] = [pass[q] EXCEPT !.req = "taken"])
  BY <1>1, <1>2 DEF IInv, Types
<1>6. QED  BY <1>1, <1>2, <1>3, <1>4, <1>5, TakesIInv

LEMMA RelayTakesLateIInv == ASSUME IInv, NEW m \in Msg, RelayTakesLate(m) PROVE IInv'
<1>1. /\ m \in late /\ late' = late \ {m} /\ Takes(m) /\ pass' = pass
      /\ UNCHANGED <<live, cur, recs, flight, disk, sent, screen, overtaken>>
  BY DEF RelayTakesLate, store
<1>2. overtaken = {} => Behind(m)
  BY <1>1 DEF IInv, Order
<1>3. m <= sent
  <2>1. sent \in Nat /\ m \in Nat
    BY MsgIsNat DEF IInv, Types
  <2>2. QED  BY <1>1, <2>1 DEF IInv, Unwritten
<1>4. QED  BY <1>1, <1>2, <1>3, TakesIInv DEF IInv, Types

LEMMA RelayNeverSeesIInv == ASSUME IInv, NEW m \in Msg, RelayNeverSees(m) PROVE IInv'
<1>1. /\ late' = late \ {m}
      /\ UNCHANGED <<live, cur, flight, disk, overtaken, recs, sent, screen, pass, accepted>>
  BY DEF RelayNeverSees, store
<1>2. Types' /\ Claims' /\ Listed' /\ Unwritten' /\ Unopened'
  BY <1>1 DEF IInv, Types, Claims, NoFalseClaim, Listed, Unwritten, Unopened, Taken
<1>3. \A n \in Msg : Rising(n)' = Rising(n)
  BY <1>1 DEF Rising, Climbs, Under
<1>4. Order => Order'
  BY <1>1 DEF Order, Thorough, Behind, Gone, Taken, Queued
<1>5. QED  BY <1>1, <1>2, <1>3, <1>4 DEF IInv

(* A write that is dropped, with everything behind it still to come.        *)
LEMMA DropKeeps ==
  ASSUME NEW m, NEW d, NEW r, NEW f \in Seq(Write), f # <<>>
  PROVE  /\ Climbs(m, d, f) => Climbs(m, d, Tail(f))
         /\ Under(m, d, f, r) => Under(m, d, Tail(f), r)
<1>1. \A i \in DOMAIN Tail(f) : i \in Nat /\ i + 1 \in DOMAIN f /\ Tail(f)[i] = f[i + 1]
  OBVIOUS
<1>2. QED  BY <1>1 DEF Climbs, Under

(* Writes and requests that are lost: what is left was there before.        *)
LEMMA LosesIInv ==
  ASSUME IInv, Types',
         UNCHANGED <<cur, recs, disk, sent, accepted, overtaken>>,
         live' => live,
         \A i \in DOMAIN flight' : \E j \in DOMAIN flight : flight'[i] = flight[j],
         \A m \in Msg : Climbs(m, disk, flight) => Climbs(m, disk, flight'),
         \A q \in Pass : pass'[q] = pass[q] \/ pass'[q].req = "none",
         \A m \in late' : m \in late \/ \E q \in Pass : pass[q].req # "none" /\ m = pass[q].msg
  PROVE  IInv'
<1> USE DEF IInv
<1>1. \A m : Taken(m)' = Taken(m)
  BY DEF Taken
<1>2. \A m : Gone(m) => Gone(m)'
  BY DEF Gone
<1>3. \A m : Behind(m) => Behind(m)'
  BY <1>1, <1>2 DEF Behind
<1>4. Claims'
  BY <1>1 DEF Claims, NoFalseClaim
<1>5. Listed' /\ Unopened'
  BY DEF Listed, Unopened
<1>6. Unwritten'
  <2> SUFFICES ASSUME NEW m \in Msg, m > sent
               PROVE  /\ \A t \in Session : recs[t][m] = "absent"
                      /\ \A i \in DOMAIN flight' : flight'[i].recs[m] = "absent"
                      /\ disk[m] = "absent"
                      /\ ~ Taken(m)' /\ m \notin late'
    BY DEF Unwritten
  <2>1. \A q \in Pass : pass[q].req # "none" => pass[q].session \in Session
    BY DEF Types, PassState
  <2>2. \A q \in Pass : pass[q].req # "none" => m # pass[q].msg
    BY <2>1 DEF Listed, Unwritten
  <2>3. QED  BY <1>1, <2>2 DEF Unwritten
<1>7. \A m \in Msg : Rising(m) => Rising(m)'
  BY DEF Rising, Under
<1>8. ASSUME overtaken = {} PROVE Order'
  <2>1. Order
    BY <1>8
  <2>2. \A q \in Pass : pass'[q].req # "none" => Thorough(pass[q])' /\ pass'[q] = pass[q]
    BY <2>1 DEF Order, Thorough, Queued
  <2>3. \A m \in late' : Behind(m)'
    BY <1>3, <2>1, OfferIsBehind DEF Order
  <2>4. (\A i \in DOMAIN accepted : Behind(accepted[i]))'
    BY <1>3, <2>1 DEF Order
  <2>5. (\A i, j \in DOMAIN accepted :
           i < j => \/ accepted[i] < accepted[j]
                    \/ accepted[i] # accepted[j] /\ Gone(accepted[j]))'
    BY <1>2, <2>1 DEF Order
  <2>6. \A s \in Session, m, n \in Msg :
          n < m /\ recs[s][m] # "absent" /\ recs[s][n] = "absent" => Gone(n)'
    BY <1>2, <2>1 DEF Order
  <2>7. QED  BY <2>2, <2>3, <2>4, <2>5, <2>6 DEF Order
<1>9. QED  BY <1>4, <1>5, <1>6, <1>7, <1>8

LEMMA StoreRefusesIInv == ASSUME IInv, StoreRefuses PROVE IInv'
<1>1. /\ flight # <<>> /\ flight' = Tail(flight) /\ pass' = [pass EXCEPT ![Head(flight).by] = Idle]
      /\ UNCHANGED <<live, cur, recs, disk, sent, screen, late, accepted, overtaken>>
      /\ flight \in Seq(Write)
  BY DEF StoreRefuses, IInv, Types
<1>2. Types'
  BY <1>1, HeadAndTail, IdleIsState DEF IInv, Types
<1>3. \A i \in DOMAIN flight' : \E j \in DOMAIN flight : flight'[i] = flight[j]
  <2>1. \A i \in DOMAIN Tail(flight) : i + 1 \in DOMAIN flight /\ Tail(flight)[i] = flight[i + 1]
    BY <1>1
  <2>2. QED  BY <1>1, <2>1
<1>4. \A m \in Msg : Climbs(m, disk, flight) => Climbs(m, disk, flight')
  BY <1>1, DropKeeps
<1>5. \A q \in Pass : pass'[q] = pass[q] \/ pass'[q].req = "none"
  BY <1>1, IdleIsState DEF IInv, Types
<1>6. QED  BY <1>1, <1>2, <1>3, <1>4, <1>5, LosesIInv

LEMMA LockIInv == ASSUME IInv, Lock PROVE IInv'
<1>1. /\ live' = FALSE /\ cur < MaxSessions
      /\ UNCHANGED <<cur, flight, disk, overtaken, recs, sent, screen, pass, late, accepted>>
  BY DEF Lock
<1>2. Types'
  <2>1. cur + 1 \in Session
    BY <1>1, OutboxAssumption DEF IInv, Types, Session
  <2>2. QED  BY <1>1, <2>1 DEF IInv, Types
<1>3. QED  BY <1>1, <1>2, LosesIInv

LEMMA CrashIInv == ASSUME IInv, Crash PROVE IInv'
<1>1. /\ live' = FALSE /\ cur < MaxSessions /\ flight' = <<>> /\ pass' = [p \in Pass |-> Idle]
      /\ late' = late \cup { pass[p].msg : p \in { q \in Pass : pass[q].req = "sent" } }
      /\ UNCHANGED <<cur, disk, overtaken, recs, sent, screen, accepted>>
  BY DEF Crash
<1>2. Types'
  <2>1. cur + 1 \in Session
    BY <1>1, OutboxAssumption DEF IInv, Types, Session
  <2>2. \A q \in Pass : pass[q].req = "sent" => pass[q].msg \in Msg
    BY DEF IInv, Types, PassState
  <2>3. late' \in SUBSET Msg
    BY <1>1, <2>2 DEF IInv, Types
  <2>4. pass' \in [Pass -> PassState] /\ flight' \in Seq(Write)
    BY <1>1, IdleIsState
  <2>5. QED  BY <1>1, <2>1, <2>3, <2>4 DEF IInv, Types
<1>3. \A m \in Msg : Climbs(m, disk, flight')
  BY <1>1, EmptyClimbs
<1>4. \A m \in late' : m \in late \/ \E q \in Pass : pass[q].req # "none" /\ m = pass[q].msg
  BY <1>1
<1>5. \A q \in Pass : pass'[q].req = "none"
  BY <1>1, IdleIsState
<1>6. QED  BY <1>1, <1>2, <1>3, <1>4, <1>5, LosesIInv

(* The new session starts from the disk; a message in a write that says     *)
(* otherwise is one it overtakes.                                           *)
LEMMA UnlockIInv == ASSUME IInv, Unlock PROVE IInv'
<1> USE DEF IInv
<1>1. /\ ~ live /\ live' = TRUE /\ cur' = cur + 1 /\ cur + 1 \in Session
      /\ recs' = [recs EXCEPT ![cur + 1] = disk]
      /\ overtaken' = overtaken \cup
           { m \in Msg : \E i \in DOMAIN flight : flight[i].recs[m] # disk[m] }
      /\ UNCHANGED <<flight, disk, sent, screen, pass, late, accepted>>
  BY DEF Unlock, Types
<1>2. recs' \in [Session -> Records] /\ recs'[cur'] = disk
      /\ \A t \in Session : recs'[t] = recs[t] \/ recs'[t] = disk
  BY <1>1 DEF Types
<1>3. Types'
  BY <1>1, <1>2 DEF Types
<1>4. \A m : Taken(m)' = Taken(m)
  BY <1>1 DEF Taken
<1>5. Claims'
  BY <1>1, <1>2, <1>4 DEF Claims, NoFalseClaim
<1>6. ASSUME NEW q \in Pass, pass[q].req # "none"
      PROVE  pass[q].session \in Session /\ recs'[pass[q].session] = recs[pass[q].session]
  <2>1. pass[q] \in PassState
    BY DEF Types
  <2>2. pass[q].session \in Session /\ pass[q].msg \in Msg
    BY <1>6, <2>1 DEF PassState, Work
  <2>3. recs[pass[q].session][pass[q].msg] # "absent"
    BY <1>6 DEF Listed
  <2>4. pass[q].session # cur + 1
    <3>1. cur \in Nat /\ cur + 1 > cur
      BY DEF Types, Session
    <3>2. QED  BY <1>1, <2>2, <2>3, <3>1 DEF Unopened
  <2>5. QED  BY <1>1, <2>2, <2>4 DEF Types
<1>7. Listed' /\ Unwritten' /\ Unopened'
  <2>1. Listed'
    BY <1>1, <1>6 DEF Listed
  <2>2. Unwritten'
    BY <1>1, <1>2, <1>4 DEF Unwritten
  <2>3. ASSUME NEW t \in Session, t > cur' PROVE recs'[t] = recs[t] /\ t > cur
    <3>1. cur \in Nat /\ t \in Nat
      BY DEF Types, Session
    <3>2. t # cur + 1 /\ t > cur
      BY <1>1, <2>3, <3>1
    <3>3. QED  BY <1>1, <3>2 DEF Types
  <2>4. QED  BY <2>1, <2>2, <2>3 DEF Unopened
<1>8. ASSUME NEW m \in Msg, m \notin overtaken' PROVE Rising(m)'
  <2>1. Rising(m) /\ \A i \in DOMAIN flight : flight[i].recs[m] = disk[m]
    BY <1>1, <1>8
  <2>2. Under(m, disk, flight, disk)
    BY <2>1, RankIsNat DEF Under
  <2>3. QED  BY <1>1, <1>2, <2>1, <2>2 DEF Rising
<1>9. ASSUME overtaken' = {} PROVE Order'
  <2>1. Order /\ \A m \in Msg, i \in DOMAIN flight : flight[i].recs[m] = disk[m]
    BY <1>1, <1>9
  <2>2. \A m \in Msg : disk[m] = "absent" => Gone(m)'
    BY <1>1, <1>2, <2>1 DEF Gone
  <2>3. \A m \in Msg : Gone(m) => Gone(m)'
    BY <2>2 DEF Gone
  <2>4. \A m : Behind(m) => Behind(m)'
    BY <1>4, <2>3 DEF Behind
  <2>5. \A s \in Session, m, n \in Msg :
          n < m /\ recs'[s][m] # "absent" /\ recs'[s][n] = "absent" => Gone(n)'
    BY <1>2, <2>1, <2>2, <2>3 DEF Order
  <2>6. ASSUME NEW q \in Pass, pass'[q].req # "none" PROVE Thorough(pass[q])'
    <3>1. Thorough(pass[q])
      BY <1>1, <2>1, <2>6 DEF Order
    <3>2. recs'[pass[q].session] = recs[pass[q].session]
      BY <1>1, <1>6, <2>6
    <3>3. QED  BY <1>1, <3>1, <3>2 DEF Thorough, Queued
  <2>7. \A m \in late' : Behind(m)'
    BY <1>1, <2>1, <2>4 DEF Order
  <2>8. (\A i \in DOMAIN accepted : Behind(accepted[i]))'
    BY <1>1, <2>1, <2>4 DEF Order
  <2>9. (\A i, j \in DOMAIN accepted :
           i < j => \/ accepted[i] < accepted[j]
                    \/ accepted[i] # accepted[j] /\ Gone(accepted[j]))'
    <3>1. \A j \in DOMAIN accepted : accepted[j] \in Msg
      BY DEF Types
    <3>2. QED  BY <1>1, <2>1, <2>3, <3>1 DEF Order
  <2>10. QED  BY <2>5, <2>6, <2>7, <2>8, <2>9 DEF Order
<1>10. QED  BY <1>3, <1>5, <1>7, <1>8, <1>9

LEMMA PassStepIInv == ASSUME IInv, NEW p \in Pass, PassStep(p) PROVE IInv'
BY SendIInv, SyncIInv, ReopenIInv, FinishedIInv, OfferFailsIInv DEF PassStep

LEMMA DeviceIInv == ASSUME IInv, Device PROVE IInv'
BY PassStepIInv, StoreLandsIInv, StoreRefusesIInv, LockIInv, CrashIInv, UnlockIInv DEF Device

LEMMA RelayIInv == ASSUME IInv, Relay PROVE IInv'
BY RelayTakesIInv, RelayTakesLateIInv, RelayNeverSeesIInv DEF Relay

LEMMA StutterIInv == ASSUME IInv, UNCHANGED vars PROVE IInv'
<1>1. UNCHANGED <<live, cur, flight, disk, overtaken, recs, sent, screen, pass, late, accepted>>
  BY DEF vars, store
<1>2. Types' /\ Claims' /\ Listed' /\ Unwritten' /\ Unopened'
  BY <1>1 DEF IInv, Types, Claims, NoFalseClaim, Listed, Unwritten, Unopened, Taken
<1>3. \A n \in Msg : Rising(n)' = Rising(n)
  BY <1>1 DEF Rising, Climbs, Under
<1>4. Order => Order'
  BY <1>1 DEF Order, Thorough, Behind, Gone, Taken, Queued
<1>5. QED  BY <1>1, <1>2, <1>3, <1>4 DEF IInv

-----------------------------------------------------------------------------
(* The theorems. *)

(* The strengthened invariant holds in every state of every conversation.   *)
THEOREM OutboxInvariant == Spec => []IInv
<1>1. IInv /\ [Next]_vars => IInv'
  BY DeviceIInv, RelayIInv, StutterIInv DEF Next
<1>2. QED  BY InitIInv, <1>1, PTL DEF Spec

(* Every value stays in its type, whichever pass, write or request is next. *)
THEOREM OutboxTypes == Spec => []TypeOK
<1>1. IInv => TypeOK
  <2>1. PassState \subseteq Work
    BY DEF PassState
  <2>2. QED  BY <2>1 DEF IInv, Types, TypeOK, Write, Work
<1>2. QED  BY OutboxInvariant, <1>1, PTL

(* No record says the relay has a message it never took: not in memory, not *)
(* in a write on its way and not on the disk.                               *)
THEOREM NothingIsClaimedFalsely == Spec => []NoFalseClaim
<1>1. IInv => NoFalseClaim
  BY DEF IInv, Claims
<1>2. QED  BY OutboxInvariant, <1>1, PTL

(* The relay first takes what this device still has in the order it was     *)
(* written, as long as no unlock read the disk ahead of a pending write.    *)
THEOREM TakenInOrder == Spec => []InOrder
<1>1. IInv => InOrder
  BY DEF IInv, Order, InOrder, Gone
<1>2. QED  BY OutboxInvariant, <1>1, PTL

(* What the disk knows of a message never goes back, whichever pass's       *)
(* snapshot lands last: send and flush save nothing older than what is on   *)
(* its way already.                                                         *)
THEOREM DiskProgressIsKept == Spec => ProgressKept
<1> DEFINE Kept == \A m \in Msg : Rank(disk'[m]) >= Rank(disk[m]) \/ m \in overtaken
<1>1. \A m : Rank(disk[m]) >= Rank(disk[m])
  BY RankIsNat
<1>2. ASSUME IInv, StoreLands PROVE Kept
  <2>1. /\ 1 \in DOMAIN flight /\ disk' = flight[1].recs
    BY <1>2 DEF IInv, Types, StoreLands
  <2>2. \A m \in Msg : Rising(m) \/ m \in overtaken
    BY <1>2 DEF IInv
  <2>3. QED  BY <2>1, <2>2, RankIsNat DEF Rising, Climbs
<1>3. ASSUME Next PROVE disk' = disk \/ StoreLands
  <2>1. ASSUME NEW p \in Pass, PassStep(p) PROVE disk' = disk
    BY <2>1 DEF PassStep, Send, Sync, Reopen, Finished, OutOfTime, OfferFails, store
  <2>2. ASSUME Relay PROVE disk' = disk
    BY <2>2 DEF Relay, RelayTakes, RelayTakesLate, RelayNeverSees, store
  <2>3. ASSUME StoreRefuses \/ Lock \/ Crash \/ Unlock PROVE disk' = disk
    BY <2>3 DEF StoreRefuses, Lock, Crash, Unlock
  <2>4. QED  BY <1>3, <2>1, <2>2, <2>3 DEF Next, Device
<1>4. IInv /\ [Next]_vars => [Kept]_vars
  BY <1>1, <1>2, <1>3
<1>5. QED  BY OutboxInvariant, <1>4, PTL DEF Spec, ProgressKept
=============================================================================
