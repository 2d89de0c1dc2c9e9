----------------------------- MODULE VaultStore -----------------------------
(***************************************************************************)
(* How vault state becomes durable: client/src/ui/session.ts and the pins  *)
(* of contacts.ts over the passphrase worker (ui/vault-worker.ts,          *)
(* ui/vault-client.ts), the browser's database (ui/storage.ts), the formats*)
(* of vault.ts (VaultBlob) and its idle lock.                              *)
(*                                                                         *)
(* The main thread never waits: a seal is posted to the worker with a copy *)
(* of the vault as it is at that instant, the sealed blob is queued for    *)
(* the database when the worker answers, and the caller hears when the     *)
(* transaction completes. The worker and the database each take their jobs *)
(* in the order they were asked. Locking posts a forget and withdraws      *)
(* nothing; unlocking reads the database first and asks the worker second. *)
(*                                                                         *)
(* highWater is left empty: it moves with seen, and both with the message  *)
(* they are about.                                                         *)
(***************************************************************************)
EXTENDS VaultBlob, Sequences, FiniteSets

CONSTANTS
  Send,          \* persists that add a message (messaging.ts send)
  Receive,       \* persists that add a message admitted (messaging.ts receive)
  RecordOf,      \* RecordOf[f]: that message
  Commit,        \* persists that pin a contact (session.ts commit)
  Pairing,       \* what a ceremony can end in: a card, and the mailboxes agreed or none
  Older,         \* vaults an older build may have left here, with their format
  Own, Mistyped, \* passphrases
  Params, Salt,  \* the KDF parameters of this build; a salt
  Seeds,         \* the seeds of the identity
  StoreFails,    \* whether the database may refuse a write
  MaxSessions,   \* bound: sessions opened
  MaxWaiting,    \* bound: persists waiting at once
  MaxMessages    \* bound: messages in one vault

Call == Send \cup Receive \cup Commit

Cards == { p.card : p \in Pairing }
Mailboxes == UNION { p.mailboxes : p \in Pairing }
Records == { RecordOf[f] : f \in Send \cup Receive }

Vaults ==
  [seeds : {Seeds}, contacts : SUBSET Cards, highWater : {{}}, messages : SUBSET Records,
   seen : SUBSET { r["msgId"] : r \in Records }, mailboxes : SUBSET Mailboxes]

\* A mailbox is a pinned peer's, and no younger than the pin: a later ceremony
\* that agrees none leaves the earlier one's.
Whole(v) ==
  \A mb \in v.mailboxes : \E p \in Pairing :
    /\ mb \in p.mailboxes
    /\ \E c \in v.contacts : c.of = p.card.of /\ p.card.serial <= c.serial

ASSUME CallsAssumption ==
  /\ Send \cap Receive = {} /\ (Send \cup Receive) \cap Commit = {}
  /\ "first" \notin Call
  /\ DOMAIN RecordOf = Send \cup Receive
  /\ Own # Mistyped
  /\ StoreFails \in BOOLEAN
  /\ MaxSessions \in Nat /\ MaxWaiting \in Nat /\ MaxMessages \in Nat

\* This build's parameters pass its own walls; mailboxes are filed under the
\* card they came with; an older build wrote a vault it could read, with one
\* card for each peer.
ASSUME DataAssumption ==
  /\ WithinWalls(Params)
  /\ \A f \in Send \cup Receive : IsMessage(RecordOf[f])
  /\ Cards \cap Records = {}
  /\ \A p \in Pairing : p.card.serial \in Nat /\ Cardinality(p.mailboxes) <= 1
  /\ \A p \in Pairing : \A mb \in p.mailboxes : mb.peerId = p.card.of
  /\ \A old \in Older :
       /\ old.format \in VAULT_FORMAT_ALLOWLIST /\ old.data \in Vaults
       /\ \A c, d \in old.data.contacts : c.of = d.of => c = d
       /\ "mailboxes" \notin OptionalIn(old.format) =>
            TokensFit(old.data.mailboxes) /\ Whole(old.data)

\* Tokens are checked where they are issued and where the peer's are read, so
\* the check that a save makes of them finds nothing to refuse.
ASSUME TokensAssumption == TokensFit(Mailboxes)

VARIABLES
  phase,      \* the main thread: none, creating, writing, open, locked, loading, deriving
  session,    \* number of the session last opened
  mem,        \* that session's vault data
  armed,      \* whether the worker holds the passphrase
  jobs,       \* messages posted to the worker, oldest first
  writes,     \* database requests, oldest first
  disk,       \* the stored blob, NoBlob before the first save
  call,       \* each persist: where it is, whose, and commit's images
  acked,      \* history: what a caller was told is saved
  overtaken,  \* history: facts an unlock read while a pending write disagreed
  undone      \* history: cards in play when a commit failed beside another persist

vars == <<phase, session, mem, armed, jobs, writes, disk, call, acked, overtaken, undone>>
histories == <<acked, overtaken, undone>>

EmptyVault ==
  [seeds |-> Seeds, contacts |-> {}, highWater |-> {}, messages |-> {}, seen |-> {},
   mailboxes |-> {}]
NoBlob == [blob |-> "none"]
NoCard == [of |-> "nobody", serial |-> 0]
Idle == [at |-> "idle", session |-> 0, before |-> EmptyVault, card |-> NoCard]

Seal(v) == CreateVaultBlob(Own, v, Params, Salt)

\* What a build of an older format left.
LeftBy(old) == SealAs(old.format, Own, EncodeFor(old.data, old.format), Params, Salt)

Stored ==
  IF disk # NoBlob /\ Decrypts(disk, Own) THEN DecryptVaultBlob(disk) ELSE EmptyVault

Pending == { f \in Call : call[f].at # "idle" }

\* Snapshots asked for and not yet on the disk.
Unsaved ==
  { DecryptVaultBlob(writes[i].data) :
      i \in { k \in DOMAIN writes : writes[k].op = "save" /\ writes[k].for # "first" } }
    \cup { jobs[i].data : i \in { k \in DOMAIN jobs : jobs[k].op = "seal" } }

Carries(j) == j.op = "seal" \/ (j.op = "save" /\ j.for # "first")
Snapshot(j) == IF j.op = "seal" THEN j.data ELSE DecryptVaultBlob(j.data)

\* The same, oldest first.
SnapshotsIn(q) ==
  LET upTo[n \in 0 .. Len(q)] ==
        IF n = 0 THEN <<>>
        ELSE IF Carries(q[n]) THEN Append(upTo[n - 1], Snapshot(q[n])) ELSE upTo[n - 1]
  IN  upTo[Len(q)]

InFlight == SnapshotsIn(writes \o jobs)

Facts(v) == v.contacts \cup v.messages

\* What a snapshot and the stored blob disagree about.
Disputed(v) == (Facts(v) \ Facts(Stored)) \cup (Facts(Stored) \ Facts(v))

-----------------------------------------------------------------------------
(* Posting to the worker and to the database. *)

Post(q, j) == Append(q, j)

\* vault.snapshot + contacts.export + crypto.seal: the copy is taken when the
\* message is posted, so nothing that happens later can change what is sealed.
Persist(f, v, before, card) ==
  /\ jobs' = Post(jobs, [op |-> "seal", for |-> f, data |-> v])
  /\ call' = [call EXCEPT ![f] = [at |-> "sealing", session |-> session,
                                  before |-> before, card |-> card]]

\* Slip: the pins are put back and the mailboxes are not.
TakeBackPins(f, v) ==
  IF f \in Commit /\ call[f].session = session
  THEN [v EXCEPT !.contacts = call[f].before.contacts]
  ELSE v

\* A persist that failed: commit puts its images back, everyone else does nothing.
TakeBack(f, v) ==
  IF f \in Commit /\ call[f].session = session
  THEN [v EXCEPT !.contacts = call[f].before.contacts, !.mailboxes = call[f].before.mailboxes]
  ELSE v

\* Persists of one session that wait at the same time as f.
Overlapping(f) == { g \in Pending \ {f} : call[g].session = call[f].session }

\* Slip: a rejection that reaches nobody.
FailedSilently(f) ==
  /\ mem' = TakeBack(f, mem)
  /\ UNCHANGED <<call, histories>>

Failed(f) ==
  /\ call' = [call EXCEPT ![f] = Idle]
  /\ mem' = TakeBack(f, mem)
  /\ undone' = undone \cup
       IF f \in Commit /\ Overlapping(f) # {}
       THEN { call[k].card : k \in Commit \cap (Overlapping(f) \cup {f}) }
              \cup call[f].before.contacts
       ELSE {}
  /\ UNCHANGED <<acked, overtaken>>

Acknowledged(f) ==
  /\ call' = [call EXCEPT ![f] = Idle]
  /\ acked' = IF f \in Commit
              THEN [acked EXCEPT !.contacts = @ \cup {call[f].card}]
              ELSE [acked EXCEPT !.messages = @ \cup {RecordOf[f]}]
  /\ UNCHANGED <<mem, overtaken, undone>>

-----------------------------------------------------------------------------
(* First run. *)

Init ==
  /\ phase = "none"
  /\ session = 0
  /\ mem = EmptyVault
  /\ armed = FALSE
  /\ jobs = <<>>
  /\ writes = <<>>
  /\ \/ disk = NoBlob /\ acked = [contacts |-> {}, messages |-> {}]
     \/ \E old \in Older :
          /\ disk = LeftBy(old)
          /\ acked = [contacts |-> old.data.contacts, messages |-> old.data.messages]
  /\ call = [f \in Call |-> Idle]
  /\ overtaken = {}
  /\ undone = {}

CreateIdentity ==
  /\ phase = "none"
  /\ disk = NoBlob
  /\ phase' = "creating"
  /\ jobs' = Post(jobs, [op |-> "create"])
  /\ UNCHANGED <<session, mem, armed, writes, disk, call, histories>>

WorkerCreates ==
  /\ jobs # <<>>
  /\ Head(jobs).op = "create"
  /\ jobs' = Tail(jobs)
  /\ armed' = TRUE
  /\ writes' = Append(writes, [op |-> "save", for |-> "first", data |-> Seal(EmptyVault)])
  /\ phase' = "writing"
  /\ UNCHANGED <<session, mem, disk, call, histories>>

-----------------------------------------------------------------------------
(* An open session. *)

AddMessage(f, seen) ==
  /\ phase = "open"
  /\ Cardinality(Pending) < MaxWaiting
  /\ f \notin Pending
  /\ RecordOf[f] \notin mem.messages /\ Cardinality(mem.messages) < MaxMessages
  /\ mem' = [mem EXCEPT !.messages = @ \cup {RecordOf[f]}, !.seen = @ \cup seen]
  /\ Persist(f, mem', EmptyVault, NoCard)
  /\ UNCHANGED <<phase, session, armed, writes, disk, histories>>

SendMessage(f) == AddMessage(f, {})

\* snapshot takes what the guard holds along.
ReceiveMessage(f) == AddMessage(f, {RecordOf[f]["msgId"]})

Pinned(v, id) == { c \in v.contacts : c.of = id }

\* ContactStore.classify.
Classify(v, card) ==
  IF Pinned(v, card.of) = {} THEN "new"
  ELSE IF card \in v.contacts THEN "same"
  ELSE IF \E c \in Pinned(v, card.of) : card.serial <= c.serial THEN "rejected"
  ELSE "supersede"

\* putMailbox, when the ceremony agreed on one: the peer has one mailbox.
PutMailboxes(v, p) ==
  IF p.mailboxes = {} THEN v.mailboxes
  ELSE { mb \in v.mailboxes : mb.peerId # p.card.of } \cup p.mailboxes

\* pin or confirmSupersede, and putMailbox; both images are taken first.
CommitContact(p) ==
  /\ phase = "open"
  /\ Cardinality(Pending) < MaxWaiting
  /\ Commit \ Pending # {}
  /\ Classify(mem, p.card) # "rejected"
  /\ mem' = [mem EXCEPT
       !.contacts = (@ \ Pinned(mem, p.card.of)) \cup {p.card},
       !.mailboxes = PutMailboxes(mem, p)]
  /\ Persist(CHOOSE k \in Commit \ Pending : TRUE, mem',
             [EmptyVault EXCEPT !.contacts = mem.contacts, !.mailboxes = mem.mailboxes], p.card)
  /\ UNCHANGED <<phase, session, armed, writes, disk, histories>>

\* Slip: the lock throws the queue away with the passphrase.
ForgetAll(q) == <<[op |-> "forget"]>>

Forget(q) == Post(q, [op |-> "forget"])

\* vault.lock, which only the idle timer calls.
Lock ==
  /\ phase = "open"
  /\ phase' = "locked"
  /\ jobs' = Forget(jobs)
  /\ UNCHANGED <<session, mem, armed, writes, disk, call, histories>>

-----------------------------------------------------------------------------
(* Unlocking. *)

\* One at a time here, and beside no open vault. That attempts overlap in the
\* app, and vaults stay open behind a newer session, is AppShell's.
Unlock ==
  /\ phase \in {"none", "locked"}
  /\ session < MaxSessions
  /\ disk # NoBlob
  /\ phase' = "loading"
  /\ writes' = Append(writes, [op |-> "load"])
  /\ UNCHANGED <<session, mem, armed, jobs, disk, call, histories>>

WorkerUnlocks ==
  /\ jobs # <<>>
  /\ Head(jobs).op = "unlock"
  /\ Decrypts(Head(jobs).data, Head(jobs).passphrase)
  /\ jobs' = Tail(jobs)
  /\ armed' = TRUE
  /\ phase' = "open"
  /\ session' = session + 1
  /\ mem' = DecryptVaultBlob(Head(jobs).data)
  /\ UNCHANGED <<writes, disk, call, histories>>

\* The worker keeps whatever it held.
WorkerRefuses ==
  /\ jobs # <<>>
  /\ Head(jobs).op = "unlock"
  /\ ~Decrypts(Head(jobs).data, Head(jobs).passphrase)
  /\ jobs' = Tail(jobs)
  /\ phase' = "locked"
  /\ UNCHANGED <<session, mem, armed, writes, disk, call, histories>>

WorkerForgets ==
  /\ jobs # <<>>
  /\ Head(jobs).op = "forget"
  /\ jobs' = Tail(jobs)
  /\ armed' = FALSE
  /\ UNCHANGED <<phase, session, mem, writes, disk, call, histories>>

WorkerSeals ==
  /\ jobs # <<>>
  /\ Head(jobs).op = "seal"
  /\ LET j == Head(jobs)
     IN  /\ jobs' = Tail(jobs)
         /\ IF armed /\ Creatable(j.data, Params)
            THEN /\ writes' = Append(writes, [op |-> "save", for |-> j.for, data |-> Seal(j.data)])
                 /\ call' = [call EXCEPT ![j.for].at = "saving"]
                 /\ UNCHANGED <<mem, histories>>
            ELSE Failed(j.for) /\ UNCHANGED writes
  /\ UNCHANGED <<phase, session, armed, disk>>

Worker == WorkerCreates \/ WorkerUnlocks \/ WorkerRefuses \/ WorkerForgets \/ WorkerSeals

-----------------------------------------------------------------------------
(* The database. *)

StoreSaves ==
  /\ writes # <<>>
  /\ Head(writes).op = "save"
  /\ LET w == Head(writes)
     IN  /\ writes' = Tail(writes)
         /\ disk' = w.data
         /\ \/ /\ w.for = "first"
               /\ phase' = "open"
               /\ session' = session + 1
               /\ mem' = EmptyVault
               /\ UNCHANGED <<call, histories>>
            \/ /\ w.for # "first"
               /\ Acknowledged(w.for)
               /\ UNCHANGED <<phase, session>>
  /\ UNCHANGED <<armed, jobs>>

StoreRefuses ==
  /\ StoreFails
  /\ writes # <<>>
  /\ Head(writes).op = "save"
  /\ LET w == Head(writes)
     IN  /\ writes' = Tail(writes)
         /\ \/ /\ w.for = "first"
               /\ phase' = "none"
               /\ UNCHANGED <<mem, call, histories>>
            \/ /\ w.for # "first"
               /\ Failed(w.for)
               /\ UNCHANGED phase
  /\ UNCHANGED <<session, armed, jobs, disk>>

StoreLoads ==
  /\ writes # <<>>
  /\ Head(writes).op = "load"
  /\ writes' = Tail(writes)
  /\ phase' = "deriving"
  /\ \E typed \in {Own, Mistyped} :
       jobs' = Post(jobs, [op |-> "unlock", data |-> disk, passphrase |-> typed])
  /\ overtaken' = overtaken \cup UNION { Disputed(v) : v \in Unsaved }
  /\ UNCHANGED <<session, mem, armed, disk, call, acked, undone>>

Store == StoreSaves \/ StoreRefuses \/ StoreLoads

\* The page goes away: what the database had not completed never happened.
Crash ==
  /\ phase # "none"
  /\ phase' = "none"
  /\ mem' = EmptyVault
  /\ armed' = FALSE
  /\ jobs' = <<>>
  /\ writes' = <<>>
  /\ call' = [f \in Call |-> Idle]
  /\ UNCHANGED <<session, disk, histories>>

Next ==
  \/ CreateIdentity
  \/ \E f \in Send : SendMessage(f)
  \/ \E f \in Receive : ReceiveMessage(f)
  \/ \E p \in Pairing : CommitContact(p)
  \/ Lock
  \/ Unlock
  \/ Worker
  \/ Store
  \/ Crash

Spec == Init /\ [][Next]_vars

-----------------------------------------------------------------------------
(* Properties. *)

TypeOK ==
  /\ phase \in {"none", "creating", "writing", "open", "locked", "loading", "deriving"}
  /\ session \in Nat
  /\ mem \in Vaults
  /\ armed \in BOOLEAN
  /\ \A i \in DOMAIN jobs : jobs[i].op \in {"create", "forget", "unlock", "seal"}
  /\ \A i \in DOMAIN writes : writes[i].op \in {"load", "save"}
  /\ Stored \in Vaults
  /\ call \in [Call -> [at : {"idle", "sealing", "saving"}, session : Nat, before : Vaults,
                        card : Cards \cup {NoCard}]]
  /\ acked \in [contacts : SUBSET Cards, messages : SUBSET Records]
  /\ overtaken \in SUBSET (Cards \cup Records)
  /\ undone \in SUBSET Cards

(* What a caller was told is saved, and what an older build left here, stays*)
(* saved word for word, through later writes that fail, later snapshots,    *)
(* locks, crashes and the change of format. A pin may give way to a higher  *)
(* serial. Two ways lose it: an unlock that read the database before an     *)
(* older session's write reached it, and, for a pin, a commit that fails    *)
(* while another persist waits: it puts its image back over a later pin, or *)
(* a snapshot taken after it carries to the disk what it took back.         *)
AckedStays ==
  /\ acked.messages \subseteq Stored.messages \cup overtaken
  /\ \A c \in acked.contacts :
       \/ \E d \in Pinned(Stored, c.of) : d.serial >= c.serial
       \/ c \in overtaken \cup undone

(* A contact the ready screen can list is on the disk, or a commit of it is *)
(* still being written: a failed write never leaves a pin behind. And the   *)
(* mailboxes go with the pins, in memory and on the disk: none is read or   *)
(* written for somebody who is not pinned, nor one that came with a later   *)
(* card than the pin, as a rollback that forgets one of them would leave.   *)
ListedIsDurable ==
  /\ Whole(Stored)
  /\ phase = "open" =>
       /\ Whole(mem)
       /\ \A c \in mem.contacts :
            \/ c \in Stored.contacts \cup overtaken \cup undone
            \/ \E k \in Commit \cap Pending : call[k].card = c

(* Nobody waits for a save that nothing will answer, and nobody is answered *)
(* twice: whatever fails, is refused or is overtaken by a lock, a persist   *)
(* waits for exactly as long as one job of one queue stands for it.         *)
WaitersAreInLine ==
  \A f \in Call :
    Cardinality({ i \in DOMAIN jobs : jobs[i].op = "seal" /\ jobs[i].for = f })
      + Cardinality({ i \in DOMAIN writes : writes[i].op = "save" /\ writes[i].for = f })
    = IF f \in Pending THEN 1 ELSE 0

-----------------------------------------------------------------------------
(* The pipeline implements the durable cell the rest of the client uses.    *)

Unlocking ==
  IF phase = "deriving"
  THEN LET i == CHOOSE i \in DOMAIN jobs : jobs[i].op = "unlock"
       IN  DecryptVaultBlob(jobs[i].data)
  ELSE EmptyVault

Cell == INSTANCE DurableCell WITH
  Value  <- Vaults,
  Empty  <- EmptyVault,
  mem    <- IF phase = "open" THEN mem ELSE Unlocking,
  open   <- phase \in {"open", "deriving"},
  flight <- InFlight,
  disk   <- Stored

CellSpec == Cell!Spec
=============================================================================
