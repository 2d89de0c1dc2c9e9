--------------------------- MODULE AppShellProofs ---------------------------
(***************************************************************************)
(* KeysMatch, PassphraseFollows and RefusedIsLocked of AppShell, for any   *)
(* number of unlocks and waiting operations.                               *)
(*                                                                         *)
(* Between the copy of the seeds and their import an attempt relies on a   *)
(* buffer it does not own. The first invariant says what it may rely on:   *)
(* unless another vault has locked since the attempt began, the seeds are  *)
(* there. The second does the same for the passphrase: what the worker will*)
(* hold once it has emptied its queue, whatever is in the queue now.       *)
(***************************************************************************)
EXTENDS AppShell, TLAPS

Shapes ==
  /\ stage = [a \in Attempt |-> stage[a]]
  /\ pub = [a \in Attempt |-> pub[a]]
  /\ priv = [a \in Attempt |-> priv[a]]

Importing(a) == stage[a] \in {"founding", "importing"}

\* What an attempt that waits for its import still finds.
SeedsHeld ==
  \A a \in Attempt : Importing(a) /\ a \notin crossed => scratch = "own" /\ pub[a] = "own"

SeedsInv == Shapes /\ SeedsHeld /\ KeysMatch

-----------------------------------------------------------------------------
LEMMA InitSeeds == Init => SeedsInv
<1> SUFFICES ASSUME Init PROVE SeedsInv
  OBVIOUS
<1> QED
  BY DEF Init, SeedsInv, Shapes, SeedsHeld, Importing, KeysMatch, Open

(* A step that moves attempts only away from an import, opens no vault and  *)
(* leaves the keys alone keeps the invariant.                               *)
LEMMA Quiet ==
  ASSUME SeedsInv,
         stage' = [a \in Attempt |-> stage'[a]],
         \A a \in Attempt : stage'[a] = stage[a] \/ ~(Importing(a)' \/ Open(a)'),
         UNCHANGED keys,
         crossed \subseteq crossed'
  PROVE  SeedsInv'
<1> USE DEF SeedsInv, Shapes, SeedsHeld, KeysMatch, Importing, Open, keys
<1>1. Shapes'
  OBVIOUS
<1>2. SeedsHeld'
  OBVIOUS
<1>3. KeysMatch'
  OBVIOUS
<1> QED
  BY <1>1, <1>2, <1>3

(* The seeds are copied for an attempt that begins its import.              *)
LEMMA Copied ==
  ASSUME SeedsInv,
         NEW a \in Attempt, NEW s \in {"founding", "importing"},
         stage' = [stage EXCEPT ![a] = s],
         CopySeeds(a),
         UNCHANGED <<priv, crossed>>
  PROVE  SeedsInv'
<1> USE DEF SeedsInv, Shapes, SeedsHeld, KeysMatch, Importing, Open, CopySeeds
<1>1. Shapes'
  OBVIOUS
<1>2. SeedsHeld'
  OBVIOUS
<1>3. KeysMatch'
  OBVIOUS
<1> QED
  BY <1>1, <1>2, <1>3

LEMMA NextSeeds == SeedsInv /\ [Next]_vars => SeedsInv'
<1> SUFFICES ASSUME SeedsInv, [Next]_vars PROVE SeedsInv'
  OBVIOUS
<1> USE DEF Importing, Open
<1>shapes. Shapes
  BY DEF SeedsInv
<1>1. ASSUME NEW a \in Attempt, Submit(a) PROVE SeedsInv'
  BY <1>1, <1>shapes, Quiet DEF Submit, Shapes
<1>2. ASSUME NEW a \in Attempt, Load(a) PROVE SeedsInv'
  BY <1>2, <1>shapes, Quiet DEF Load, Fail, Shapes
<1>3. ASSUME NEW a \in Attempt, FirstSave(a) PROVE SeedsInv'
  <2>1. CASE stage' = [stage EXCEPT ![a] = "founding"] /\ CopySeeds(a) /\ UNCHANGED priv
    BY <1>3, <2>1, Copied DEF FirstSave
  <2>2. CASE Fail(a) /\ UNCHANGED keys
    BY <1>3, <2>2, <1>shapes, Quiet DEF FirstSave, Fail, Shapes
  <2> QED
    BY <1>3, <2>1, <2>2 DEF FirstSave
<1>4. ASSUME NEW a \in Attempt, Import(a) PROVE SeedsInv'
  <2>1. /\ Importing(a)
        /\ stage' = [stage EXCEPT ![a] = "open"]
        /\ priv' = [priv EXCEPT ![a] = scratch]
        /\ UNCHANGED <<pub, scratch, crossed>>
    BY <1>4 DEF Import
  <2> QED
    BY <2>1, <1>shapes DEF SeedsInv, Shapes, SeedsHeld, KeysMatch
<1>5. ASSUME NEW v \in Attempt, Lock(v) PROVE SeedsInv'
  <2>1. /\ Open(v)
        /\ stage' = [stage EXCEPT ![v] = "locked"]
        /\ crossed' = crossed \cup Underway
        /\ UNCHANGED <<pub, priv>>
    BY <1>5 DEF Lock
  <2>2. \A a \in Attempt : Importing(a)' => a \in crossed'
    BY <2>1, <1>shapes DEF Underway, Shapes
  <2> QED
    BY <2>1, <2>2, <1>shapes DEF SeedsInv, Shapes, SeedsHeld, KeysMatch
<1>6. CASE Operation
  BY <1>6, <1>shapes, Quiet DEF Operation, Shapes
<1>7. CASE Worker
  <2>1. CASE \E a \in Attempt : WorkerUnlocks(a)
    <3> PICK a \in Attempt : WorkerUnlocks(a)
      BY <2>1
    <3>1. CASE stage[a] = "creating"
      BY <1>7, <3>1, <1>shapes, Quiet DEF Worker, WorkerUnlocks, Shapes
    <3>2. CASE stage[a] # "creating"
      BY <1>7, <3>2, Copied DEF Worker, WorkerUnlocks
    <3> QED
      BY <3>1, <3>2
  <2>2. CASE \E a \in Attempt : WorkerRefuses(a)
    BY <1>7, <2>2, <1>shapes, Quiet DEF Worker, WorkerRefuses, Fail, Shapes
  <2>3. CASE (\E o \in Op : WorkerSeals(o)) \/ WorkerForgets
    BY <1>7, <2>3, <1>shapes, Quiet DEF Worker, WorkerSeals, WorkerForgets, Shapes
  <2> QED
    BY <1>7, <2>1, <2>2, <2>3 DEF Worker
<1>8. CASE WorkerDies
  BY <1>8, <1>shapes, Quiet DEF WorkerDies, Shapes
<1>9. CASE UNCHANGED vars
  BY <1>9, <1>shapes, Quiet DEF vars, Shapes, keys
<1> QED
  BY <1>1, <1>2, <1>3, <1>4, <1>5, <1>6, <1>7, <1>8, <1>9 DEF Next, Answers

(* An unlocked vault signs with the key it publishes, unless another vault  *)
(* locked while this one was being opened (vault.ts fromData, keys.ts).     *)
THEOREM KeysAgree == Spec => []KeysMatch
<1>1. SeedsInv => KeysMatch
  BY DEF SeedsInv
<1> QED
  BY <1>1, InitSeeds, NextSeeds, PTL DEF Spec
-----------------------------------------------------------------------------
(* What the worker will hold once it has caught up. A message asked for by  *)
(* an attempt is in the queue as long as the attempt waits for it, once; a  *)
(* forget queued behind it crosses the attempt. So an attempt the worker    *)
(* has answered, and the session it becomes, find the passphrase held and   *)
(* no forget under way. A passphrase held is owed to a vault, or to a first *)
(* save that failed on a device that has no vault yet.                      *)

Forgetting == \E i \in DOMAIN jobs : jobs[i] = "forget"

Answered(a) == stage[a] \in {"writing", "founding", "importing"}

\* A message an attempt posted is there while the attempt waits, and only once.
Queued == \A i \in DOMAIN jobs : jobs[i] \in Attempt =>
            /\ stage[jobs[i]] \in {"creating", "deriving"}
            /\ \A j \in DOMAIN jobs : jobs[j] = jobs[i] => j = i

\* What is forgotten behind an attempt's message crosses the attempt.
Behind == \A i, j \in DOMAIN jobs :
            i < j /\ jobs[i] \in Attempt /\ jobs[j] = "forget" => jobs[i] \in crossed

\* Those that count on the passphrase have it.
Counted == \A a \in Attempt :
             (Answered(a) \/ session = a) /\ a \notin crossed => dead \/ (armed /\ ~Forgetting)

\* Whom a passphrase is held for.
Owed == armed /\ ~dead =>
          Forgetting \/ (\E a \in Attempt : Answered(a) \/ Open(a)) \/ ~stored

\* A device without a vault has one attempt at a time, and has locked nothing.
Fresh ==
  /\ \A a \in Attempt : stage[a] \in {"creating", "writing"} => ~stored /\ pressed = a
  /\ ~stored => /\ \A a \in Attempt : stage[a] \in {"unused", "failed", "creating", "writing"}
                /\ screen = "unlock"
                /\ ~notice
                /\ session = None
                /\ \A o \in Op : op[o].at = "idle"
                /\ \A i \in DOMAIN jobs : jobs[i] \notin Op

WorkerInv == TypeOK /\ Queued /\ Behind /\ Counted /\ Owed /\ Fresh

(* What a queue is after one more message.                                  *)
LEMMA Posted ==
  ASSUME NEW J, NEW q \in Seq(J), NEW x \in J
  PROVE  /\ Append(q, x) \in Seq(J)
         /\ DOMAIN q = 1 .. Len(q) /\ Len(q) \in Nat
         /\ DOMAIN Append(q, x) = 1 .. (Len(q) + 1)
         /\ \A i \in DOMAIN q : Append(q, x)[i] = q[i]
         /\ Append(q, x)[Len(q) + 1] = x
  OBVIOUS

(* What a queue is after its oldest message is taken.                       *)
LEMMA Taken ==
  ASSUME NEW J, NEW q \in Seq(J), q # <<>>
  PROVE  /\ Tail(q) \in Seq(J)
         /\ DOMAIN q = 1 .. Len(q) /\ Len(q) \in Nat
         /\ 1 \in DOMAIN q /\ Head(q) = q[1] /\ Head(q) \in J
         /\ DOMAIN Tail(q) = 1 .. (Len(q) - 1)
         /\ \A i \in DOMAIN Tail(q) : i + 1 \in DOMAIN q /\ Tail(q)[i] = q[i + 1]
  OBVIOUS

-----------------------------------------------------------------------------
(* Types. *)

LEMMA InitTypes == Init => TypeOK
<1> SUFFICES ASSUME Init PROVE TypeOK
  OBVIOUS
<1>1. jobs \in Seq(Attempt \cup Op \cup {"forget"})
  BY DEF Init
<1>2. op \in [Op -> [at : {"idle", "reserving", "signing", "proving", "sealing", "saving",
                           "syncing"}, vault : Attempt \cup {None}]]
  BY DEF Init, Idle
<1> QED
  BY <1>1, <1>2 DEF Init, TypeOK

LEMMA NextTypes == TypeOK /\ [Next]_vars => TypeOK'
<1> SUFFICES ASSUME TypeOK, [Next]_vars PROVE TypeOK'
  OBVIOUS
<1> USE DEF TypeOK, app, keys, worker
<1>1. ASSUME NEW a \in Attempt, Submit(a) PROVE TypeOK'
  <2>1. jobs' \in Seq(Attempt \cup Op \cup {"forget"})
    BY <1>1, Posted DEF Submit
  <2> QED
    BY <1>1, <2>1 DEF Submit
<1>2. ASSUME NEW a \in Attempt, Load(a) PROVE TypeOK'
  <2>1. jobs' \in Seq(Attempt \cup Op \cup {"forget"})
    BY <1>2, Posted DEF Load
  <2> QED
    BY <1>2, <2>1 DEF Load, Fail
<1>3. ASSUME NEW a \in Attempt, FirstSave(a) PROVE TypeOK'
  BY <1>3 DEF FirstSave, Fail, CopySeeds
<1>4. ASSUME NEW a \in Attempt, Import(a) PROVE TypeOK'
  BY <1>4 DEF Import, ShowInstead
<1>5. ASSUME NEW v \in Attempt, Lock(v) PROVE TypeOK'
  <2>1. jobs' \in Seq(Attempt \cup Op \cup {"forget"})
    BY <1>5 DEF Lock, Forget
  <2>2. crossed' \in SUBSET Attempt
    BY <1>5 DEF Lock, Underway
  <2> QED
    BY <1>5, <2>1, <2>2 DEF Lock, ToUnlock
<1>6. CASE Operation
  <2>1. /\ UNCHANGED <<stored, stage, keys, armed, dead, crossed>>
        /\ jobs' = jobs \/ \E o \in Op : jobs' = Append(jobs, o)
    BY <1>6 DEF Operation, Begin, Reserved, Signed, Offer, Proved, Match, Written, Pass, Synced,
                Refuse, Ready, Converse
  <2>2. jobs' \in Seq(Attempt \cup Op \cup {"forget"})
    BY <2>1
  <2>3. op' \in [Op -> [at : {"idle", "reserving", "signing", "proving", "sealing", "saving",
                              "syncing"}, vault : Attempt \cup {None}]]
    BY <1>6 DEF Operation, Begin, Reserved, Signed, Offer, Proved, Match, Written, Pass, Synced,
                Refuse, Ready, Converse, Wait, Done, Idle
  <2>4. /\ screen' \in {"unlock", "ready", "ceremony", "conversation", "refused"}
        /\ notice' \in BOOLEAN
        /\ pressed' \in Attempt \cup {None}
        /\ session' \in Attempt \cup {None}
        /\ ceremony' \in Attempt \cup {None}
    BY <1>6 DEF Operation, Begin, Reserved, Signed, Offer, Proved, Match, Written, Pass, Synced,
                Refuse, Ready, Converse, FailCeremony, ToReady, ToWriteFailure, ShowInstead,
                ToUnlock, ShowCeremony, MatchFails
  <2> QED
    BY <2>1, <2>2, <2>3, <2>4
<1>7. CASE Worker
  <2>1. jobs' \in Seq(Attempt \cup Op \cup {"forget"}) /\ Head(jobs) \in Attempt \cup Op \cup {"forget"}
    BY <1>7, Taken DEF Worker
  <2>2. CASE Head(jobs) \in Attempt /\ WorkerUnlocks(Head(jobs))
    BY <1>7, <2>1, <2>2 DEF Worker, WorkerUnlocks, CopySeeds
  <2>3. CASE Head(jobs) \in Attempt /\ WorkerRefuses(Head(jobs))
    BY <1>7, <2>1, <2>3 DEF Worker, WorkerRefuses, Fail
  <2>4. CASE Head(jobs) \in Op /\ WorkerSeals(Head(jobs))
    <3>1. op' \in [Op -> [at : {"idle", "reserving", "signing", "proving", "sealing", "saving",
                                "syncing"}, vault : Attempt \cup {None}]]
      BY <2>4 DEF WorkerSeals, Wait, Done, Idle
    <3> QED
      BY <1>7, <2>1, <2>4, <3>1
      DEF Worker, WorkerSeals, MatchFails, ToUnlock, ToWriteFailure, ShowInstead
  <2>5. CASE WorkerForgets
    BY <1>7, <2>1, <2>5 DEF Worker, WorkerForgets
  <2> QED
    BY <1>7, <2>2, <2>3, <2>4, <2>5 DEF Worker
<1>8. CASE WorkerDies
  <2>1. op' \in [Op -> [at : {"idle", "reserving", "signing", "proving", "sealing", "saving",
                              "syncing"}, vault : Attempt \cup {None}]]
    BY <1>8 DEF WorkerDies, Idle
  <2>2. jobs' \in Seq(Attempt \cup Op \cup {"forget"})
    BY <1>8 DEF WorkerDies
  <2> QED
    BY <1>8, <2>1, <2>2 DEF WorkerDies, MatchFails, ToUnlock, ToWriteFailure, ShowInstead
<1>9. CASE UNCHANGED vars
  BY <1>9 DEF vars
<1> QED
  BY <1>1, <1>2, <1>3, <1>4, <1>5, <1>6, <1>7, <1>8, <1>9 DEF Next, Answers

(* Every variable of the shell stays within its type (ui/app.ts).           *)
THEOREM ShellTypes == Spec => []TypeOK
  BY InitTypes, NextTypes, PTL DEF Spec

-----------------------------------------------------------------------------
(* The passphrase. *)

LEMMA InitWorker == Init => WorkerInv
<1> SUFFICES ASSUME Init PROVE WorkerInv
  OBVIOUS
<1>1. TypeOK
  BY InitTypes
<1>2. DOMAIN jobs = {}
  BY DEF Init
<1> QED
  BY <1>1, <1>2, AppAssumption
  DEF Init, WorkerInv, Queued, Behind, Counted, Owed, Fresh, Forgetting, Answered, Open, Idle

(* An attempt asks the worker for its keys.                                 *)
LEMMA Asked ==
  ASSUME WorkerInv, NEW a \in Attempt, NEW s \in {"creating", "deriving"},
         stage[a] \notin {"creating", "deriving"},
         stage' = [stage EXCEPT ![a] = s],
         jobs' = Append(jobs, a),
         UNCHANGED crossed
  PROVE  Queued' /\ Behind' /\ Forgetting' = Forgetting
<1> USE DEF WorkerInv, TypeOK
<1>1. /\ DOMAIN jobs = 1 .. Len(jobs) /\ Len(jobs) \in Nat
      /\ DOMAIN jobs' = 1 .. (Len(jobs) + 1)
      /\ \A i \in DOMAIN jobs : jobs'[i] = jobs[i]
      /\ jobs'[Len(jobs) + 1] = a
  BY Posted
<1>2. /\ \A i \in DOMAIN jobs' : i \in DOMAIN jobs \/ i = Len(jobs) + 1
      /\ Len(jobs) + 1 \in DOMAIN jobs'
      /\ Len(jobs) + 1 \notin DOMAIN jobs
      /\ DOMAIN jobs \subseteq DOMAIN jobs'
  BY <1>1
<1>3. \A i \in DOMAIN jobs : jobs[i] # a
  BY DEF Queued
<1>4. a # "forget"
  BY AppAssumption
<1>5. Queued'
  BY <1>1, <1>2, <1>3 DEF Queued
<1>6. Behind'
  BY <1>1, <1>2, <1>4 DEF Behind
<1>7. Forgetting' = Forgetting
  BY <1>1, <1>2, <1>4 DEF Forgetting
<1> QED
  BY <1>5, <1>6, <1>7

LEMMA SubmitWorker ==
  ASSUME WorkerInv, TypeOK', NEW a \in Attempt, Submit(a)
  PROVE  WorkerInv'
<1> USE DEF WorkerInv, TypeOK, Submit
<1>1. CASE stored
  BY <1>1 DEF Queued, Behind, Counted, Owed, Fresh, Forgetting, Answered, Open
<1>2. CASE ~stored
  <2>1. jobs' = Append(jobs, a) /\ stage' = [stage EXCEPT ![a] = "creating"]
    BY <1>2
  <2>2. Queued' /\ Behind' /\ Forgetting' = Forgetting
    BY <2>1, Asked
  <2>3. Counted' /\ Owed'
    BY <2>1, <2>2 DEF Counted, Owed, Answered, Open
  <2>4. /\ DOMAIN jobs' = 1 .. (Len(jobs) + 1)
        /\ jobs'[Len(jobs) + 1] = a
        /\ \A i \in DOMAIN jobs : jobs'[i] = jobs[i]
        /\ DOMAIN jobs = 1 .. Len(jobs) /\ Len(jobs) \in Nat
    BY <2>1, Posted
  <2>5. Fresh'
    BY <1>2, <2>1, <2>4, AppAssumption DEF Fresh
  <2> QED
    BY <2>2, <2>3, <2>5
<1> QED
  BY <1>1, <1>2

LEMMA LoadWorker ==
  ASSUME WorkerInv, TypeOK', NEW a \in Attempt, Load(a)
  PROVE  WorkerInv'
<1> USE DEF WorkerInv, TypeOK, Load
<1>1. stage[a] = "loading" /\ stored
  BY DEF Fresh
<1>2. CASE stage' = [stage EXCEPT ![a] = "deriving"] /\ jobs' = Append(jobs, a) /\ UNCHANGED app
  <2>1. Queued' /\ Behind' /\ Forgetting' = Forgetting
    BY <1>1, <1>2, Asked
  <2>2. Counted' /\ Owed'
    BY <1>1, <1>2, <2>1 DEF Counted, Owed, Answered, Open, app
  <2>3. Fresh'
    BY <1>1, <1>2 DEF Fresh
  <2> QED
    BY <2>1, <2>2, <2>3
<1>3. CASE Fail(a) /\ UNCHANGED jobs
  BY <1>1, <1>3 DEF Fail, Queued, Behind, Counted, Owed, Fresh, Forgetting, Answered, Open
<1> QED
  BY <1>2, <1>3

LEMMA FirstSaveWorker ==
  ASSUME WorkerInv, TypeOK', NEW a \in Attempt, FirstSave(a)
  PROVE  WorkerInv'
<1> USE DEF WorkerInv, TypeOK, FirstSave
<1>1. stage[a] = "writing" /\ ~stored /\ pressed = a /\ UNCHANGED <<jobs, armed, dead, op, crossed>>
  BY DEF Fresh, worker
<1>2. Forgetting' = Forgetting
  BY <1>1 DEF Forgetting
<1>3. \A b \in Attempt : stage[b] \in {"creating", "writing"} => b = a
  BY <1>1 DEF Fresh
<1>4. CASE stage' = [stage EXCEPT ![a] = "founding"] /\ stored' = TRUE /\ UNCHANGED app
  BY <1>1, <1>2, <1>3, <1>4 DEF Queued, Behind, Counted, Owed, Fresh, Answered, Open, app
<1>5. CASE Fail(a) /\ UNCHANGED stored
  BY <1>1, <1>2, <1>3, <1>5 DEF Fail, Queued, Behind, Counted, Owed, Fresh, Answered, Open
<1> QED
  BY <1>4, <1>5

LEMMA ImportWorker ==
  ASSUME WorkerInv, TypeOK', NEW a \in Attempt, Import(a)
  PROVE  WorkerInv'
<1> USE DEF WorkerInv, TypeOK, Import
<1>1. /\ Answered(a) /\ stored
      /\ stage' = [stage EXCEPT ![a] = "open"]
      /\ UNCHANGED <<stored, jobs, armed, dead, op, crossed>>
      /\ session' \in {a, session}
  BY DEF Fresh, Answered, worker
<1>2. Forgetting' = Forgetting
  BY <1>1 DEF Forgetting
<1> QED
  BY <1>1, <1>2, stage[a] \in {"founding", "importing"}
  DEF Queued, Behind, Counted, Owed, Fresh, Answered, Open

LEMMA LockWorker ==
  ASSUME WorkerInv, TypeOK', NEW v \in Attempt, Lock(v)
  PROVE  WorkerInv'
<1> USE DEF WorkerInv, TypeOK, Lock, Open
<1>1. /\ stage[v] = "open" /\ stored
      /\ stage' = [stage EXCEPT ![v] = "locked"]
      /\ crossed' = crossed \cup Underway
      /\ session' = None
      /\ UNCHANGED <<stored, armed, dead, op>>
  BY DEF Fresh, ToUnlock
<1>2. /\ DOMAIN jobs = 1 .. Len(jobs) /\ Len(jobs) \in Nat
      /\ DOMAIN jobs' = 1 .. (Len(jobs) + 1)
      /\ \A i \in DOMAIN jobs : jobs'[i] = jobs[i]
      /\ jobs'[Len(jobs) + 1] = "forget"
  BY Posted DEF Forget
<1>3. \A i \in DOMAIN jobs : jobs[i] \in Attempt => jobs[i] \in crossed'
  BY <1>1 DEF Queued, Underway
<1>4. Queued'
  <2>1. \A i \in DOMAIN jobs' : i \in DOMAIN jobs \/ i = Len(jobs) + 1
    BY <1>2
  <2>2. \A i \in DOMAIN jobs' : jobs'[i] \in Attempt => i \in DOMAIN jobs /\ jobs'[i] # v
    BY <1>1, <1>2, <2>1, AppAssumption DEF Queued
  <2> QED
    BY <1>1, <1>2, <2>2 DEF Queued
<1>5. Behind'
  BY <1>2, <1>3, AppAssumption DEF Behind
<1>6. Counted'
  BY <1>1, AppAssumption DEF Counted, Answered, Underway
<1>7. Owed'
  BY <1>2 DEF Owed, Forgetting
<1>8. Fresh'
  BY <1>1 DEF Fresh
<1> QED
  BY <1>4, <1>5, <1>6, <1>7, <1>8

\* An operation asks for a seal at most, and needs a device that has a vault.
LEMMA OperationWorker ==
  ASSUME WorkerInv, TypeOK', Operation
  PROVE  WorkerInv'
<1> USE DEF WorkerInv, TypeOK
<1>1. UNCHANGED <<stored, stage, armed, dead, crossed>>
  BY DEF Operation
<1>2. stored
  BY DEF Fresh, Operation, Begin, Reserved, Signed, Offer, Proved, Match, Written, Pass, Synced,
         Refuse, Ready, Converse, Waits
<1>3. session' \in {session, None}
  BY DEF Operation, Begin, Reserved, Signed, Offer, Proved, Match, Written, Pass, Synced,
         Refuse, Ready, Converse, FailCeremony, ToReady, ToWriteFailure, ShowInstead,
         ToUnlock, ShowCeremony, MatchFails, app
<1>4. jobs' = jobs \/ \E o \in Op : jobs' = Append(jobs, o)
  BY DEF Operation, Begin, Reserved, Signed, Offer, Proved, Match, Written, Pass, Synced,
         Refuse, Ready, Converse
<1>5. Queued' /\ Behind' /\ Forgetting' = Forgetting
  <2>1. CASE jobs' = jobs
    BY <1>1, <2>1 DEF Queued, Behind, Forgetting
  <2>2. CASE \E o \in Op : jobs' = Append(jobs, o)
    <3> PICK o \in Op : jobs' = Append(jobs, o)
      BY <2>2
    <3>1. /\ DOMAIN jobs = 1 .. Len(jobs) /\ Len(jobs) \in Nat
          /\ DOMAIN jobs' = 1 .. (Len(jobs) + 1)
          /\ \A i \in DOMAIN jobs : jobs'[i] = jobs[i]
          /\ jobs'[Len(jobs) + 1] = o
      BY Posted
    <3>2. o \notin Attempt /\ o # "forget"
      BY AppAssumption
    <3> QED
      BY <1>1, <3>1, <3>2 DEF Queued, Behind, Forgetting
  <2> QED
    BY <1>4, <2>1, <2>2
<1>6. Counted' /\ Owed'
  BY <1>1, <1>3, <1>5, AppAssumption DEF Counted, Owed, Answered, Open
<1>7. Fresh'
  BY <1>1, <1>2 DEF Fresh
<1> QED
  BY <1>5, <1>6, <1>7

\* The worker takes its oldest message.
LEMMA WorkerWorker ==
  ASSUME WorkerInv, TypeOK', Worker
  PROVE  WorkerInv'
<1> USE DEF WorkerInv, TypeOK, Worker
<1>1. /\ ~dead /\ UNCHANGED <<stored, dead, crossed>>
      /\ DOMAIN jobs = 1 .. Len(jobs) /\ Len(jobs) \in Nat
      /\ 1 \in DOMAIN jobs /\ Head(jobs) = jobs[1]
      /\ DOMAIN jobs' = 1 .. (Len(jobs) - 1)
      /\ \A i \in DOMAIN jobs' : i + 1 \in DOMAIN jobs /\ jobs'[i] = jobs[i + 1]
  BY Taken
<1>2. \A i, j \in DOMAIN jobs' : (i < j => i + 1 < j + 1) /\ (i + 1 = j + 1 => i = j)
  BY <1>1
<1>3. Behind'
  BY <1>1, <1>2 DEF Behind
<1>4. ASSUME NEW x, x = jobs[1]
      PROVE  x # "forget" => Forgetting' = Forgetting
  <2>1. Forgetting' => Forgetting
    BY <1>1 DEF Forgetting
  <2>2. ASSUME x # "forget", NEW i \in DOMAIN jobs, jobs[i] = "forget" PROVE Forgetting'
    <3>1. i # 1 /\ i - 1 \in DOMAIN jobs' /\ (i - 1) + 1 = i
      BY <1>1, <1>4, <2>2
    <3> QED
      BY <1>1, <2>2, <3>1 DEF Forgetting
  <2> QED
    BY <2>1, <2>2 DEF Forgetting
<1>5. CASE Head(jobs) \in Attempt
  <2> DEFINE a == Head(jobs)
  <2>1. a \in Attempt /\ a = jobs[1] /\ a # "forget" /\ a \notin Op
    BY <1>1, <1>5, AppAssumption
  <2>2. /\ stage[a] \in {"creating", "deriving"}
        /\ \A i \in DOMAIN jobs' : jobs'[i] # a
    <3>1. \A i \in DOMAIN jobs' : i + 1 # 1
      BY <1>1
    <3> QED
      BY <1>1, <2>1, <3>1 DEF Queued
  <2>3. Forgetting' = Forgetting
    BY <1>4, <2>1
  <2>4. Forgetting => a \in crossed
    <3>1. ASSUME NEW j \in DOMAIN jobs, jobs[j] = "forget" PROVE a \in crossed
      <4>1. 1 < j
        BY <1>1, <2>1, <3>1
      <4> QED
        BY <1>1, <2>1, <3>1, <4>1 DEF Behind
    <3> QED
      BY <3>1 DEF Forgetting
  <2>5. CASE WorkerUnlocks(a)
    <3>1. /\ armed' = TRUE
          /\ UNCHANGED <<screen, notice, pressed, session, op>>
          /\ stage' = [stage EXCEPT ![a] = IF stage[a] = "creating" THEN "writing" ELSE "importing"]
      BY <2>5 DEF WorkerUnlocks, app
    <3> HIDE DEF a
    <3>2. Queued'
      BY <1>1, <1>2, <2>1, <2>2, <3>1 DEF Queued
    <3>3. Counted'
      BY <1>1, <2>1, <2>3, <2>4, <3>1 DEF Counted, Answered
    <3>4. Owed'
      BY <2>1, <3>1 DEF Owed, Answered
    <3>5. stage[a] = "deriving" => stored
      BY <2>1 DEF Fresh
    <3>6. Fresh'
      BY <1>1, <2>1, <2>2, <3>1, <3>5 DEF Fresh
    <3> QED
      BY <1>3, <3>2, <3>3, <3>4, <3>6
  <2>6. CASE WorkerRefuses(a)
    <3>1. /\ stage[a] = "deriving"
          /\ stage' = [stage EXCEPT ![a] = "failed"]
          /\ UNCHANGED <<armed, screen, notice, session, op>>
      BY <2>6 DEF WorkerRefuses, Fail
    <3>2. stored
      BY <2>1, <3>1 DEF Fresh
    <3> HIDE DEF a
    <3>3. Queued'
      BY <1>1, <1>2, <2>1, <2>2, <3>1 DEF Queued
    <3>4. Counted' /\ Owed'
      BY <1>1, <2>1, <2>3, <3>1 DEF Counted, Owed, Answered, Open
    <3>5. Fresh'
      BY <1>1, <2>1, <3>1, <3>2 DEF Fresh
    <3> QED
      BY <1>3, <3>3, <3>4, <3>5
  <2> QED
    BY <1>5, <2>1, <2>5, <2>6
<1>6. CASE Head(jobs) \in Op /\ WorkerSeals(Head(jobs))
  <2>1. /\ UNCHANGED <<armed, stage>>
        /\ session' \in {session, None}
        /\ jobs[1] # "forget"
    BY <1>1, <1>6, AppAssumption DEF WorkerSeals, MatchFails, ToUnlock, ToWriteFailure, app
  <2>2. Forgetting' = Forgetting
    BY <1>4, <2>1
  <2>3. stored
    BY <1>1, <1>6 DEF Fresh
  <2>4. Queued'
    BY <1>1, <1>2, <2>1 DEF Queued
  <2>5. Counted' /\ Owed'
    BY <1>1, <2>1, <2>2, AppAssumption DEF Counted, Owed, Answered, Open
  <2>6. Fresh'
    BY <1>1, <2>1, <2>3 DEF Fresh
  <2> QED
    BY <1>3, <2>4, <2>5, <2>6
<1>7. CASE Head(jobs) = "forget" /\ WorkerForgets
  <2>1. armed' = FALSE /\ UNCHANGED <<screen, notice, pressed, session, stage, op>> /\ Forgetting
    BY <1>1, <1>7 DEF WorkerForgets, app, Forgetting
  <2>2. Queued'
    BY <1>1, <1>2, <2>1 DEF Queued
  <2>3. Counted' /\ Owed'
    BY <1>1, <2>1 DEF Counted, Owed, Answered
  <2>4. Fresh'
    BY <1>1, <2>1 DEF Fresh
  <2> QED
    BY <1>3, <2>2, <2>3, <2>4
<1> QED
  BY <1>5, <1>6, <1>7

LEMMA WorkerDiesWorker ==
  ASSUME WorkerInv, TypeOK', WorkerDies
  PROVE  WorkerInv'
<1> DEFINE waiting == { jobs[i] : i \in DOMAIN jobs }
<1> USE DEF WorkerInv, TypeOK
<1>1. /\ dead' = TRUE
      /\ DOMAIN jobs' = {}
      /\ stage' = [a \in Attempt |-> IF a \in waiting THEN "failed" ELSE stage[a]]
      /\ op' = [o \in Op |-> IF o \in waiting THEN Idle ELSE op[o]]
      /\ stored' = stored
  BY DEF WorkerDies
<1>2. Queued' /\ Behind' /\ Counted' /\ Owed'
  BY <1>1 DEF Queued, Behind, Counted, Owed
<1>3. Fresh'
  <2>1. CASE stored
    BY <1>1, <2>1 DEF Fresh
  <2>2. CASE ~stored
    <3>1. waiting \cap Op = {}
      BY <2>2 DEF Fresh
    <3>2. /\ UNCHANGED <<screen, notice, session>>
          /\ pressed' = IF pressed \in waiting THEN None ELSE pressed
      BY <3>1 DEF WorkerDies
    <3> QED
      BY <1>1, <2>2, <3>1, <3>2 DEF Fresh, Idle
  <2> QED
    BY <2>1, <2>2
<1> QED
  BY <1>2, <1>3

LEMMA NextWorker == WorkerInv /\ [Next]_vars => WorkerInv'
<1> SUFFICES ASSUME WorkerInv, [Next]_vars PROVE WorkerInv'
  OBVIOUS
<1>1. TypeOK'
  BY NextTypes DEF WorkerInv
<1>2. CASE UNCHANGED vars
  BY <1>2 DEF vars, app, keys, worker, WorkerInv, TypeOK, Queued, Behind, Counted, Owed, Fresh,
              Forgetting, Answered, Open
<1> QED
  BY <1>1, <1>2, SubmitWorker, LoadWorker, FirstSaveWorker, ImportWorker, LockWorker,
     OperationWorker, WorkerWorker, WorkerDiesWorker
  DEF Next, Answers

(* Whenever the worker has caught up it can save what the session holds, and*)
(* behind the notice of a lock it has forgotten the passphrase, whichever   *)
(* unlocks, refusals and locks crossed on the way (ui/app.ts onLock,        *)
(* vault.ts lock and Vault.unlock, passphrase-worker.ts).                   *)
THEOREM WorkerFollows == Spec => []PassphraseFollows
<1>1. WorkerInv => PassphraseFollows
  <2> SUFFICES ASSUME WorkerInv, jobs = <<>>, ~dead
               PROVE  SessionCanSave /\ ForgottenBehindNotice
    BY DEF PassphraseFollows
  <2>1. ~Forgetting
    BY DEF Forgetting
  <2>2. SessionCanSave
    BY DEF SessionCanSave, WorkerInv, TypeOK, Counted
  <2>3. ForgottenBehindNotice
    BY <2>1 DEF ForgottenBehindNotice, WorkerInv, TypeOK, Owed, Fresh, Answered, Underway, Open
  <2> QED
    BY <2>2, <2>3
<1> QED
  BY <1>1, InitWorker, NextWorker, PTL DEF Spec

(* A save the worker refuses for want of a passphrase is told as a lock: a  *)
(* session that is up, and that no lock crossed while it was opened, finds  *)
(* the passphrase at whatever place in the queue (ui/app.ts confirmMatch    *)
(* and onLock, session.ts fromData, vault-crypto.ts seal).                  *)
THEOREM RefusalIsLock == Spec => []RefusedIsLocked
<1>1. WorkerInv => RefusedIsLocked
  BY DEF RefusedIsLocked, Locked, WorkerInv, TypeOK, Counted
<1> QED
  BY <1>1, InitWorker, NextWorker, PTL DEF Spec
=============================================================================
