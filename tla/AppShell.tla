------------------------------ MODULE AppShell ------------------------------
(***************************************************************************)
(* Which vaults are unlocked, and what the screen says about it:           *)
(* client/src/ui/app.ts over session.ts, vault.ts and keys.ts.             *)
(*                                                                         *)
(* The screens hold no lock: an unlock, a ceremony and a conversation pass *)
(* each run across awaits, and what they do when they wake is decided by   *)
(* the session the app holds THEN. A vault locks itself on its own timer,  *)
(* whether or not the app still holds it, and its lock empties the screen. *)
(*                                                                         *)
(* The seeds of a vault being opened sit in one module-wide buffer. The    *)
(* public keys are computed from it at once, the private keys are imported *)
(* from it after the browser has said which curves it knows.               *)
(*                                                                         *)
(* Attempt a is an unlock, and then the vault that unlock opened. Time is  *)
(* left out: an open vault may be idle long enough at any step.            *)
(***************************************************************************)
EXTENDS Naturals, Sequences

CONSTANTS
  Attempt,        \* unlocks, each with the vault it opens (bound)
  Op,             \* operations that can be waiting at one time (bound)
  None,           \* no attempt, no vault
  WorkerMayDie,   \* whether the passphrase worker may stop
  BadCards        \* whether a stored card may fail the validator at unlock

ASSUME AppAssumption ==
  /\ None \notin Attempt
  /\ Attempt \cap Op = {}
  /\ "forget" \notin Attempt \cup Op
  /\ WorkerMayDie \in BOOLEAN
  /\ BadCards \in BOOLEAN

VARIABLES
  screen,    \* unlock, ready, ceremony, conversation, refused
  notice,    \* the unlock screen says that Keyweave locked itself
  pressed,   \* the attempt that keeps the button on screen disabled
  session,   \* app.session: a vault, or None
  ceremony,  \* the vault the ceremony on screen was begun with, or None
  stored,    \* whether the device has a vault
  stage,     \* stage[a]: how far attempt a is, then how its vault is
  pub, priv, \* the key pair of vault a: none, own, zero
  scratch,   \* SCRATCH_SEEDS: own or zero
  armed,     \* the worker holds the passphrase
  jobs,      \* messages posted to the worker, oldest first
  dead,      \* the worker has stopped
  op,        \* op[o]: what operation o waits for, and with which vault
  crossed    \* history: attempts under way when another vault locked

app == <<screen, notice, pressed, session, ceremony>>
keys == <<pub, priv, scratch>>
worker == <<armed, jobs, dead>>
vars == <<app, stored, stage, keys, worker, op, crossed>>

Idle == [at |-> "idle", vault |-> None]

Open(v) == stage[v] = "open"

\* app.locked(): asked of the session the app holds now.
Locked == session # None => ~Open(session)

Underway == { a \in Attempt : stage[a] \in {"loading", "deriving", "creating", "writing",
                                            "founding", "importing"} }

Init ==
  /\ screen = "unlock"
  /\ notice = FALSE
  /\ pressed = None
  /\ session = None
  /\ ceremony = None
  /\ stored \in BOOLEAN
  /\ stage = [a \in Attempt |-> "unused"]
  /\ pub = [a \in Attempt |-> "none"]
  /\ priv = [a \in Attempt |-> "none"]
  /\ scratch = "zero"
  /\ armed = FALSE
  /\ jobs = <<>>
  /\ dead = FALSE
  /\ op = [o \in Op |-> Idle]
  /\ crossed = {}

-----------------------------------------------------------------------------
(* Screens. *)

\* app.onLock: a fresh unlock form, whatever was up.
ToUnlock ==
  /\ screen' = "unlock"
  /\ notice' = TRUE
  /\ pressed' = None
  /\ session' = None
  /\ ceremony' = None

ShowInstead(s) ==
  /\ screen' = s
  /\ notice' = FALSE
  /\ pressed' = None

\* app.failCeremony.
FailCeremony ==
  IF Locked
  THEN ToUnlock
  ELSE ShowInstead("refused") /\ ceremony' = None /\ UNCHANGED session

\* app.renderReady.
ToReady ==
  IF Locked
  THEN ToUnlock
  ELSE ShowInstead("ready") /\ ceremony' = None /\ UNCHANGED session

\* app.renderWriteFailure.
ToWriteFailure == ShowInstead("refused") /\ UNCHANGED <<session, ceremony>>

-----------------------------------------------------------------------------
(* Opening a vault. *)

\* submitPassphrase: the button stays disabled until this attempt settles.
Submit(a) ==
  /\ screen = "unlock"
  /\ pressed = None
  /\ stage[a] = "unused"
  /\ pressed' = a
  /\ IF stored
     THEN stage' = [stage EXCEPT ![a] = "loading"] /\ UNCHANGED jobs
     ELSE stage' = [stage EXCEPT ![a] = "creating"] /\ jobs' = Append(jobs, a)
  /\ UNCHANGED <<screen, notice, session, ceremony, stored, keys, armed, dead, op, crossed>>

\* Slip: the button stays disabled.
FailSilently(a) ==
  /\ stage' = [stage EXCEPT ![a] = "failed"]
  /\ UNCHANGED app

\* The catch of submitPassphrase; on a form already replaced nobody sees it.
Fail(a) ==
  /\ stage' = [stage EXCEPT ![a] = "failed"]
  /\ pressed' = IF pressed = a THEN None ELSE pressed
  /\ UNCHANGED <<screen, notice, session, ceremony>>

\* store.load, then the passphrase goes to the worker.
Load(a) ==
  /\ stage[a] = "loading"
  /\ \/ /\ stage' = [stage EXCEPT ![a] = "deriving"]
        /\ jobs' = Append(jobs, a)
        /\ UNCHANGED app
     \/ Fail(a) /\ UNCHANGED jobs
  /\ UNCHANGED <<stored, keys, armed, dead, op, crossed>>

\* Slip: the seeds are wiped as soon as the key import has been called.
CopyAndWipe(a) ==
  /\ scratch' = "zero"
  /\ pub' = [pub EXCEPT ![a] = "own"]

\* Vault.fromData up to its first await.
CopySeeds(a) ==
  /\ scratch' = "own"
  /\ pub' = [pub EXCEPT ![a] = "own"]

\* createIdentity: written before the session exists.
FirstSave(a) ==
  /\ stage[a] = "writing"
  /\ \/ /\ stage' = [stage EXCEPT ![a] = "founding"]
        /\ stored' = TRUE
        /\ CopySeeds(a)
        /\ UNCHANGED <<app, priv>>
     \/ Fail(a) /\ UNCHANGED <<stored, keys>>
  /\ UNCHANGED <<worker, op, crossed>>

\* The private keys are imported, the vault lives, and the app takes it for
\* its session: an older one is dropped, not locked. A stored card that fails
\* the validator rejects the unlock with the vault already open.
Import(a) ==
  /\ stage[a] \in {"founding", "importing"}
  /\ priv' = [priv EXCEPT ![a] = scratch]
  /\ \/ /\ stage' = [stage EXCEPT ![a] = "open"]
        /\ session' = a
        /\ ceremony' = None
        /\ ShowInstead("ready")
     \/ /\ BadCards
        /\ stage[a] = "importing"
        /\ stage' = [stage EXCEPT ![a] = "open"]
        /\ pressed' = IF pressed = a THEN None ELSE pressed
        /\ UNCHANGED <<screen, notice, session, ceremony>>
  /\ UNCHANGED <<stored, pub, scratch, worker, op, crossed>>

-----------------------------------------------------------------------------
(* Locking. *)

Forget(q) == Append(q, "forget")

\* Slip: a vault empties the screen only when it is the one on it.
LockOwnScreen(v) ==
  /\ Open(v)
  /\ stage' = [stage EXCEPT ![v] = "locked"]
  /\ scratch' = "zero"
  /\ jobs' = Forget(jobs)
  /\ crossed' = crossed \cup Underway
  /\ IF session = v THEN ToUnlock ELSE UNCHANGED app
  /\ UNCHANGED <<stored, pub, priv, armed, dead, op>>

\* Slip: the timer of a vault the app no longer holds does nothing.
LockHeld(v) ==
  /\ Open(v)
  /\ session = v
  /\ stage' = [stage EXCEPT ![v] = "locked"]
  /\ scratch' = "zero"
  /\ jobs' = Forget(jobs)
  /\ crossed' = crossed \cup Underway
  /\ ToUnlock
  /\ UNCHANGED <<stored, pub, priv, armed, dead, op>>

\* vault.lock on the idle timer: seeds, scratch and manager, then the session's
\* forget, then app.onLock.
Lock(v) ==
  /\ Open(v)
  /\ stage' = [stage EXCEPT ![v] = "locked"]
  /\ scratch' = "zero"
  /\ jobs' = Forget(jobs)
  /\ crossed' = crossed \cup Underway
  /\ ToUnlock
  /\ UNCHANGED <<stored, pub, priv, armed, dead, op>>

-----------------------------------------------------------------------------
(* Operations that wait. *)

Wait(o, at, v) == op' = [op EXCEPT ![o] = [at |-> at, vault |-> v]]
Done(o) == op' = [op EXCEPT ![o] = Idle]
Waits(o, at) == op[o].at = at

\* beginCeremony: neither button is disabled meanwhile.
Begin(o) ==
  /\ screen = "ready"
  /\ Waits(o, "idle")
  /\ Wait(o, "reserving", session)
  /\ UNCHANGED <<app, jobs>>

\* The relay answered or gave up; a session that is gone throws at keys().
Reserved(o) ==
  /\ Waits(o, "reserving")
  /\ IF Locked
     THEN ToUnlock /\ Done(o)
     ELSE IF Open(op[o].vault)
          THEN Wait(o, "signing", op[o].vault) /\ UNCHANGED app
          ELSE FailCeremony /\ Done(o)
  /\ UNCHANGED jobs

\* The card is signed, and the mailbox if there is one: a manager destroyed
\* between the two refuses; once both are made nothing asks about the vault.
Signed(o) ==
  /\ Waits(o, "signing")
  /\ \/ ceremony' = op[o].vault /\ ShowInstead("ceremony") /\ UNCHANGED session
     \/ ~Open(op[o].vault) /\ FailCeremony
  /\ Done(o)
  /\ UNCHANGED jobs

\* The payload that completes a scan: a destroyed manager refuses to prove.
Offer(o) ==
  /\ screen = "ceremony"
  /\ ceremony # None
  /\ Waits(o, "idle")
  /\ IF Open(ceremony)
     THEN Wait(o, "proving", ceremony) /\ UNCHANGED app
     ELSE FailCeremony /\ UNCHANGED op
  /\ UNCHANGED jobs

\* renderCeremony, or nothing when no ceremony is held any more.
ShowCeremony ==
  IF ceremony = None
  THEN UNCHANGED app
  ELSE ShowInstead("ceremony") /\ UNCHANGED <<session, ceremony>>

\* The proof is made, or the manager was destroyed before its last signature.
Proved(o) ==
  /\ Waits(o, "proving")
  /\ Done(o)
  /\ ShowCeremony \/ (~Open(op[o].vault) /\ FailCeremony)
  /\ UNCHANGED jobs

\* confirmMatch: a lock and a failed write are told apart by locked().
MatchFails == IF Locked THEN ToUnlock ELSE ToWriteFailure

Match(o) ==
  /\ screen = "ceremony"
  /\ ceremony # None
  /\ Waits(o, "idle")
  /\ IF Open(ceremony)
     THEN Wait(o, "sealing", ceremony) /\ jobs' = Append(jobs, o) /\ UNCHANGED app
     ELSE MatchFails /\ UNCHANGED <<op, jobs>>

Written(o) ==
  /\ Waits(o, "saving")
  /\ Done(o)
  /\ ShowCeremony \/ MatchFails
  /\ UNCHANGED jobs

\* cancel and confirmMismatch.
Refuse ==
  /\ screen = "ceremony"
  /\ ShowInstead("refused")
  /\ UNCHANGED <<session, ceremony, op, jobs>>

\* "Start over", "Back" and "Pair another".
Ready ==
  /\ screen \in {"ceremony", "conversation", "refused"}
  /\ ToReady
  /\ UNCHANGED <<op, jobs>>

\* renderConversation, from the ready or the paired screen.
Converse ==
  /\ screen \in {"ready", "ceremony"}
  /\ IF Locked
     THEN ToUnlock
     ELSE ShowInstead("conversation") /\ ceremony' = None /\ UNCHANGED session
  /\ UNCHANGED <<op, jobs>>

\* One send, refresh or poll. A screen runs one at a time; one of an earlier
\* conversation screen may still be running.
Pass(o) ==
  /\ screen = "conversation"
  /\ Waits(o, "idle")
  /\ Wait(o, "syncing", session)
  /\ UNCHANGED <<app, jobs>>

\* A failure, whatever it was, is told as a lock if no session is up by now.
Synced(o) ==
  /\ Waits(o, "syncing")
  /\ Done(o)
  /\ UNCHANGED app \/ (Locked /\ ToUnlock)
  /\ UNCHANGED jobs

Operation ==
  /\ \/ \E o \in Op : \/ Begin(o) \/ Reserved(o) \/ Signed(o) \/ Offer(o) \/ Proved(o)
                      \/ Match(o) \/ Written(o) \/ Pass(o) \/ Synced(o)
     \/ Refuse \/ Ready \/ Converse
  /\ UNCHANGED <<stored, stage, keys, armed, dead, crossed>>

-----------------------------------------------------------------------------
(* The passphrase worker. *)

WorkerUnlocks(a) ==
  /\ armed' = TRUE
  /\ IF stage[a] = "creating"
     THEN stage' = [stage EXCEPT ![a] = "writing"] /\ UNCHANGED keys
     ELSE stage' = [stage EXCEPT ![a] = "importing"] /\ CopySeeds(a) /\ UNCHANGED priv
  /\ UNCHANGED <<app, op>>

\* Slip: a wrong passphrase drops the one held.
RefuseAndForget(a) ==
  /\ stage[a] = "deriving"
  /\ Fail(a)
  /\ armed' = FALSE
  /\ UNCHANGED <<keys, op>>

\* A wrong passphrase: what the worker holds, it keeps.
WorkerRefuses(a) ==
  /\ stage[a] = "deriving"
  /\ Fail(a)
  /\ UNCHANGED <<armed, keys, op>>

WorkerSeals(o) ==
  /\ IF armed
     THEN Wait(o, "saving", op[o].vault) /\ UNCHANGED app
     ELSE Done(o) /\ MatchFails
  /\ UNCHANGED <<armed, stage, keys>>

WorkerForgets ==
  /\ armed' = FALSE
  /\ UNCHANGED <<app, stage, keys, op>>

Worker ==
  /\ ~dead
  /\ jobs # <<>>
  /\ jobs' = Tail(jobs)
  /\ \/ Head(jobs) \in Attempt /\ (WorkerUnlocks(Head(jobs)) \/ WorkerRefuses(Head(jobs)))
     \/ Head(jobs) \in Op /\ WorkerSeals(Head(jobs))
     \/ Head(jobs) = "forget" /\ WorkerForgets
  /\ UNCHANGED <<stored, dead, crossed>>

\* worker.onerror: every call waiting now is rejected. A call made later is
\* posted to nobody and waits for ever.
WorkerDies ==
  LET waiting == { jobs[i] : i \in DOMAIN jobs }
  IN  /\ WorkerMayDie
      /\ ~dead
      /\ dead' = TRUE
      /\ armed' = FALSE
      /\ jobs' = <<>>
      /\ stage' = [a \in Attempt |-> IF a \in waiting THEN "failed" ELSE stage[a]]
      /\ op' = [o \in Op |-> IF o \in waiting THEN Idle ELSE op[o]]
      /\ \/ waiting \cap Op # {} /\ MatchFails
         \/ /\ waiting \cap Op = {}
            /\ pressed' = IF pressed \in waiting THEN None ELSE pressed
            /\ UNCHANGED <<screen, notice, session, ceremony>>
      /\ UNCHANGED <<stored, keys, crossed>>

-----------------------------------------------------------------------------

Answers == \E a \in Attempt : Load(a) \/ FirstSave(a) \/ Import(a)

Next ==
  \/ \E a \in Attempt : Submit(a)
  \/ Answers
  \/ \E v \in Attempt : Lock(v)
  \/ Operation
  \/ Worker
  \/ WorkerDies

Spec == Init /\ [][Next]_vars

\* A vault the app has let go of is read by nobody, so its timer runs out.
LetGo(v) == session # v /\ Lock(v)

\* The database, the browser and a living worker answer.
FairSpec ==
  /\ Spec
  /\ WF_vars(Worker)
  /\ WF_vars(Answers)
  /\ \A v \in Attempt : WF_vars(LetGo(v))

-----------------------------------------------------------------------------
(* Properties. *)

TypeOK ==
  /\ screen \in {"unlock", "ready", "ceremony", "conversation", "refused"}
  /\ notice \in BOOLEAN
  /\ pressed \in Attempt \cup {None}
  /\ session \in Attempt \cup {None}
  /\ ceremony \in Attempt \cup {None}
  /\ stored \in BOOLEAN
  /\ stage \in [Attempt -> {"unused", "loading", "deriving", "creating", "writing",
                            "founding", "importing", "failed", "open", "locked"}]
  /\ pub \in [Attempt -> {"none", "own"}]
  /\ priv \in [Attempt -> {"none", "own", "zero"}]
  /\ scratch \in {"own", "zero"}
  /\ armed \in BOOLEAN
  /\ jobs \in Seq(Attempt \cup Op \cup {"forget"})
  /\ dead \in BOOLEAN
  /\ op \in [Op -> [at : {"idle", "reserving", "signing", "proving", "sealing", "saving",
                          "syncing"}, vault : Attempt \cup {None}]]
  /\ crossed \in SUBSET Attempt

(* An unlocked vault signs with the key it publishes. The private key is    *)
(* read from the shared buffer after an await, and the only thing that can  *)
(* have emptied it by then is another vault's lock.                         *)
KeysMatch == \A v \in Attempt : Open(v) => priv[v] = pub[v] \/ v \in crossed

(* The session on screen can save: the worker holds its passphrase, however *)
(* many unlocks, refusals and locks of other vaults it has been asked for,  *)
(* unless one of those locks fell into the opening of this very session.    *)
SessionCanSave == session # None => armed \/ session \in crossed

(* Behind the notice, with no vault open or opening, the passphrase is gone.*)
ForgottenBehindNotice ==
  screen = "unlock" /\ notice /\ Underway = {} /\ (\A v \in Attempt : ~Open(v)) => ~armed

(* Whenever the worker has caught up, it holds the passphrase exactly for as*)
(* long as the screen says: while there is a session, and not behind the    *)
(* notice of a lock.                                                        *)
PassphraseFollows == jobs = <<>> /\ ~dead => SessionCanSave /\ ForgottenBehindNotice

(* When a lock makes the worker refuse a save, the screen tells of the lock:*)
(* a seal that comes to a worker without the passphrase, whichever vault    *)
(* asked and however many forgets and unlocks stand before it in the queue, *)
(* finds no session up, or one that a lock crossed while it was opened. A   *)
(* person is not told that the browser failed to store a contact.           *)
RefusedIsLocked ==
  ~dead /\ jobs # <<>> /\ Head(jobs) \in Op /\ ~armed => Locked \/ session \in crossed

(* What the notice says becomes true: keys left in a vault the app no       *)
(* longer holds do not stay there.                                          *)
NoticeComesTrue ==
  \A v \in Attempt : notice /\ Open(v) ~> ~Open(v)

(* An unlock button that was pressed comes back or leads somewhere, through *)
(* every failure, as long as the worker lives.                              *)
ButtonReturns == pressed # None ~> pressed = None \/ dead
=============================================================================
