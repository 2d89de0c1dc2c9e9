-------------------------- MODULE RelayStoreProofs --------------------------
(***************************************************************************)
(* What the relay's disk, its ledger and its answers agree on, for any     *)
(* number of threads, mailboxes and blobs and any caps, with the purge and *)
(* crashes between any two steps.                                          *)
(***************************************************************************)
EXTENDS RelayStore, FiniteSetTheorems, TLAPS

Creating == [at : {"creating"}, op : {"create"}, mailbox : Mailbox]

Listing == [at : {"opening", "waiting", "inside"}, op : {"list"}, mailbox : Mailbox, inode : Nat]

BlobRecord == [at : {"staging", "opening", "waiting", "inside", "funding", "counting"},
               op : {"add", "pull", "delete"}, mailbox : Mailbox, blob : Blob, inode : Nat]

\* A request about a blob is made to the mailbox the blob is in.
OnBlob ==
  { r \in BlobRecord : r.mailbox = Home[r.blob] /\ (r.at = "staging" => r.op = "add") }

Request == {Idle} \cup Creating \cup Listing \cup OnBlob

Sweeping == [at : {"opening", "waiting", "inside", "counting", "condemned"},
             op : {"purge"}, mailbox : Mailbox, inode : Nat]

Removing == [at : {"removing"}, op : {"purge"}, mailbox : Mailbox, inode : Nat,
             todo : SUBSET (Parts \cup {"contents"})]

PurgeWork == {Idle} \cup Sweeping \cup Removing

Types ==
  /\ up \in BOOLEAN
  /\ index \in SUBSET Mailbox
  /\ dir \in [Mailbox -> SUBSET Parts]
  /\ inode \in [Mailbox -> Nat]
  /\ tmp \in SUBSET Blob /\ live \in SUBSET Blob /\ expired \in SUBSET Blob
  /\ posted \in SUBSET Blob /\ accepted \in SUBSET Blob /\ taken \in SUBSET Blob
  /\ ledger \in Nat
  /\ fresh \in SUBSET Mailbox
  /\ answers \in [Blob -> Nat]
  /\ req \in [Server -> Request \cup PurgeWork]
  /\ \A t \in Thread : req[t] \in Request
  /\ req[Purger] \in PurgeWork
  /\ ~up => Crashes /\ \A t \in Server : req[t] = Idle

-----------------------------------------------------------------------------
(* The steps of the requests, by what they do to the request itself.        *)

\* t's record is r from now on.
Becomes(t, r) ==
  /\ \A u \in Server : u # t => req'[u] = req[u]
  /\ req'[t] = r
  /\ req' \in [Server -> Request \cup PurgeWork]
  /\ \A u \in Thread : req'[u] \in Request
  /\ req'[Purger] \in PurgeWork

\* The same request, at x.
MovesTo(t, x) ==
  \E r : /\ Becomes(t, r)
         /\ r.at = x /\ r.op = req[t].op /\ r.mailbox = req[t].mailbox
         /\ r.op \in {"add", "pull", "delete"} => r.blob = req[t].blob

LEMMA BecomesLemma ==
  ASSUME Types, NEW t \in Server, NEW r, req' = [req EXCEPT ![t] = r],
         t \in Thread => r \in Request, t = Purger => r \in PurgeWork
  PROVE  Becomes(t, r)
BY StoreAssumption DEF Types, Becomes, Server

LEMMA FinishLemma ==
  ASSUME Types, NEW t \in Server, Finish(t)
  PROVE  Becomes(t, Idle)
BY BecomesLemma DEF Finish, Request, PurgeWork

LEMMA IdleLemma == Idle.at = "idle" /\ \A t \in Server : req[t] = Idle => req[t].at = "idle"
BY DEF Idle

(* What kind of request a thread has, where it is in it, and who has it.    *)
LEMMA Kinds ==
  ASSUME Types, NEW t \in Server
  PROVE  /\ t \in Thread => req[t] \in Request
         /\ t \notin Thread => t = Purger /\ req[t] \in PurgeWork
         /\ req[t].at = "idle" => req[t] = Idle
         /\ req[t].at # "idle" => req[t].mailbox \in Mailbox
         /\ req[t].at # "idle" /\ req[t].op \in {"add", "pull", "delete"} =>
              req[t] \in OnBlob /\ req[t].blob \in Blob /\ Home[req[t].blob] = req[t].mailbox
                /\ t \in Thread
         /\ req[t].at # "idle" /\ req[t].op = "purge" => t = Purger
         /\ req[t].at # "idle" /\ t = Purger => req[t].op = "purge"
         /\ req[t].at \in {"condemned", "removing"} => t = Purger
         /\ req[t].at = "staging" => req[t].op = "add"
         /\ req[t].at = "funding" => req[t].op \in {"add", "pull", "delete"}
         /\ req[t].at \in {"counting"} => req[t].op \in {"add", "pull", "delete", "purge"}
         /\ req[t].at = "creating" <=> req[t] \in Creating
<1>1. /\ t \in Thread => req[t] \in Request
      /\ t \notin Thread => t = Purger /\ req[t] \in PurgeWork
      /\ t = Purger => t \notin Thread
  BY StoreAssumption DEF Types, Server
<1>2. QED  BY <1>1 DEF Request, PurgeWork, Idle, Creating, Listing, OnBlob, BlobRecord, Sweeping, Removing

LEMMA GotoLemma ==
  ASSUME Types, NEW t \in Server, NEW x, Goto(t, x),
         \/ req[t] \in OnBlob /\ x \in {"opening", "waiting", "inside", "funding", "counting"}
         \/ req[t] \in Listing /\ x \in {"waiting", "inside"}
         \/ req[t] \in Sweeping /\ x \in {"waiting", "inside", "counting", "condemned"}
  PROVE  MovesTo(t, x)
<1> DEFINE r == [req[t] EXCEPT !.at = x]
<1>1. req' = [req EXCEPT ![t] = r]
  BY DEF Goto
<1>2. CASE req[t] \in OnBlob /\ x \in {"opening", "waiting", "inside", "funding", "counting"}
  <2>1. r \in OnBlob /\ r.at = x /\ r.op = req[t].op /\ r.mailbox = req[t].mailbox /\ r.blob = req[t].blob
        /\ req[t].op # "purge" /\ req[t].at # "idle"
    BY <1>2 DEF OnBlob, BlobRecord
  <2>2. t # Purger /\ r \in Request
    BY <2>1, Kinds DEF Request
  <2> HIDE DEF r
  <2>3. QED  BY <1>1, <2>1, <2>2, BecomesLemma DEF MovesTo
<1>3. CASE req[t] \in Listing /\ x \in {"waiting", "inside"}
  <2>1. r \in Listing /\ r.at = x /\ r.op = req[t].op /\ r.mailbox = req[t].mailbox
        /\ r.op = "list" /\ req[t].at # "idle"
    BY <1>3 DEF Listing
  <2>2. t # Purger /\ r \in Request
    BY <2>1, Kinds DEF Request
  <2> HIDE DEF r
  <2>3. QED  BY <1>1, <2>1, <2>2, BecomesLemma DEF MovesTo
<1>4. CASE req[t] \in Sweeping /\ x \in {"waiting", "inside", "counting", "condemned"}
  <2>1. r \in Sweeping /\ r.at = x /\ r.op = req[t].op /\ r.mailbox = req[t].mailbox
        /\ r.op = "purge" /\ req[t].at # "idle"
    BY <1>4 DEF Sweeping
  <2>2. t \notin Thread /\ r \in PurgeWork
    BY <2>1, Kinds, StoreAssumption DEF PurgeWork
  <2> HIDE DEF r
  <2>3. QED  BY <1>1, <2>1, <2>2, BecomesLemma DEF MovesTo
<1>5. QED  BY <1>2, <1>3, <1>4

\* A request that has come this far is made to a running server.
LEMMA UpLemma ==
  ASSUME Types, NEW t \in Server, req[t].at # "idle"
  PROVE  up
BY IdleLemma DEF Types

LEMMA DiscardLemma ==
  ASSUME Types, NEW t \in Server, req[t].at # "idle", Discard(t)
  PROVE  /\ tmp' \subseteq tmp
         /\ \A b \in tmp \ tmp' : req[t].op = "add" /\ req[t].blob = b
         /\ req[t].op = "add" => req[t].blob \notin tmp'
BY DEF Discard

LEMMA StageLemma ==
  ASSUME Types, NEW t \in Server, Stage(t)
  PROVE  /\ req[t].at = "staging" /\ req[t].op = "add" /\ req[t] \in OnBlob /\ t \in Thread
         /\ \/ /\ "blobs" \in dir[req[t].mailbox] /\ tmp' = tmp \cup {req[t].blob}
                /\ MovesTo(t, "opening")
            \/ "blobs" \notin dir[req[t].mailbox] /\ tmp' = tmp /\ Becomes(t, Idle)
BY Kinds, GotoLemma, FinishLemma DEF Stage

\* What an open finds, or makes.
LEMMA OpenLemma ==
  ASSUME Types, NEW t \in Server, Open(t)
  PROVE  LET m == req[t].mailbox IN
         /\ req[t].at = "opening" /\ m \in Mailbox
         /\ \/ /\ "root" \in dir[m] /\ MovesTo(t, "waiting") /\ tmp' = tmp
                /\ dir' = [dir EXCEPT ![m] = @ \cup {"lock"}]
                /\ \E g \in Nat : inode' = [inode EXCEPT ![m] = g]
                                /\ g = IF "lock" \in dir[m] THEN inode[m] ELSE inode[m] + 1
            \/ /\ "root" \notin dir[m] /\ Becomes(t, Idle) /\ Discard(t)
                /\ dir' = dir /\ inode' = inode
<1> DEFINE m == req[t].mailbox
           g == IF "lock" \in dir[m] THEN inode[m] ELSE inode[m] + 1
           r == [req[t] EXCEPT !.at = "waiting", !.inode = g]
<1>1. req[t].at = "opening" /\ m \in Mailbox
  BY Kinds DEF Open
<1>2. g \in Nat
  BY <1>1 DEF Types
<1>3. CASE "root" \in dir[m]
  <2> HIDE DEF g
  <2>1. /\ r.at = "waiting" /\ r.op = req[t].op /\ r.mailbox = m
        /\ r.op \in {"add", "pull", "delete"} => r.blob = req[t].blob
        /\ t \in Thread => r \in Request
        /\ t = Purger => r \in PurgeWork
    <3>1. CASE req[t] \in OnBlob
      <4>1. /\ r \in OnBlob /\ r.at = "waiting" /\ r.op = req[t].op /\ r.mailbox = m
            /\ r.blob = req[t].blob /\ req[t].op # "purge"
        BY <1>1, <1>2, <3>1 DEF OnBlob, BlobRecord
      <4>2. QED  BY <1>1, <4>1, Kinds DEF Request
    <3>2. CASE req[t] \in Listing
      <4>1. /\ r \in Listing /\ r.at = "waiting" /\ r.op = req[t].op /\ r.mailbox = m
            /\ r.op = "list"
        BY <1>1, <1>2, <3>2 DEF Listing
      <4>2. QED  BY <1>1, <4>1, Kinds DEF Request
    <3>3. CASE req[t] \in Sweeping
      <4>1. /\ r \in Sweeping /\ r.at = "waiting" /\ r.op = req[t].op /\ r.mailbox = m
            /\ r.op = "purge"
        BY <1>1, <1>2, <3>3 DEF Sweeping
      <4>2. QED  BY <1>1, <4>1, Kinds, StoreAssumption DEF PurgeWork
    <3>4. req[t] \in OnBlob \cup Listing \cup Sweeping
      BY <1>1, Kinds DEF Request, PurgeWork, Idle, Creating, Removing
    <3>5. QED  BY <3>1, <3>2, <3>3, <3>4
  <2>2. req' = [req EXCEPT ![t] = r]
    BY <1>3 DEF Open, g
  <2> HIDE DEF r
  <2>3. MovesTo(t, "waiting")
    BY <2>1, <2>2, BecomesLemma DEF MovesTo
  <2>4. tmp' = tmp /\ dir' = [dir EXCEPT ![m] = @ \cup {"lock"}] /\ inode' = [inode EXCEPT ![m] = g]
    BY <1>3 DEF Open, g
  <2>5. QED  BY <1>1, <1>2, <1>3, <2>3, <2>4 DEF g
<1>4. CASE "root" \notin dir[m]
  BY <1>1, <1>4, FinishLemma DEF Open
<1>5. QED  BY <1>3, <1>4

LEMMA EnterLemma ==
  ASSUME Types, NEW t \in Server, Enter(t)
  PROVE  /\ req[t].at = "waiting" /\ req[t].mailbox \in Mailbox
         /\ MovesTo(t, "inside")
         /\ \/ fresh' = fresh
            \/ fresh' = fresh \cup {req[t].mailbox} /\ req[t].op # "purge"
<1>1. req[t].at = "waiting" /\ req[t].mailbox \in Mailbox
  BY Kinds DEF Enter
<1>2. req[t] \in OnBlob \cup Listing \cup Sweeping
  BY <1>1, Kinds DEF Request, PurgeWork, Idle, Creating, Removing
<1>3. QED  BY <1>1, <1>2, GotoLemma DEF Enter

LEMMA ConsultLemma ==
  ASSUME Types, NEW t \in Server, Consult(t)
  PROVE  /\ req[t].at = "inside" /\ req[t].op # "purge"
         /\ \/ MovesTo(t, "funding") /\ tmp' = tmp
            \/ Becomes(t, Idle) /\ Discard(t)
<1>1. req[t].at = "inside" /\ req[t].op # "purge"
  BY DEF Consult
<1>2. CASE MayProceed(req[t]) /\ Goto(t, "funding") /\ tmp' = tmp
  <2>1. req[t] \in OnBlob
    BY <1>1, <1>2, Kinds DEF MayProceed
  <2>2. QED  BY <1>1, <1>2, <2>1, GotoLemma
<1>3. QED  BY <1>1, <1>2, FinishLemma DEF Consult

\* Past the ledger's lock: a blob is added, or one goes, and is to be counted.
Appears(t, b) ==
  /\ t \in Thread /\ req[t].at = "funding" /\ req[t].op = "add" /\ req[t].blob = b
  /\ b \in tmp /\ Home[b] = req[t].mailbox
  /\ ledger < MaxTotal
  /\ live' = live \cup {b} /\ tmp' = tmp \ {b} /\ taken' = taken

Vanishes(t, b) ==
  /\ \/ t \in Thread /\ req[t].at = "funding" /\ req[t].op # "add" /\ req[t].blob = b
     \/ t = Purger /\ req[t].at = "inside"
  /\ b \in live
  /\ live' = live \ {b} /\ taken' = taken \cup {b} /\ tmp' = tmp

LEMMA CommitLemma ==
  ASSUME Types, NEW t \in Server, Commit(t)
  PROVE  /\ LedgerLockFree /\ req[t].at = "funding" /\ req[t].op = "add"
         /\ \/ Appears(t, req[t].blob) /\ MovesTo(t, "counting") /\ req[t].blob \in Blob
            \/ Becomes(t, Idle) /\ Discard(t) /\ live' = live /\ taken' = taken
<1>1. req[t].at = "funding" /\ req[t].op = "add" /\ req[t] \in OnBlob /\ LedgerLockFree /\ taken' = taken
      /\ t \in Thread /\ Home[req[t].blob] = req[t].mailbox
  BY Kinds DEF Commit, history
<1>2. CASE /\ ledger < MaxTotal /\ req[t].blob \in tmp
           /\ tmp' = tmp \ {req[t].blob} /\ live' = live \cup {req[t].blob}
           /\ Goto(t, "counting")
  BY <1>1, <1>2, GotoLemma DEF Appears, Types
<1>3. QED  BY <1>1, <1>2, FinishLemma DEF Commit

LEMMA RemoveLemma ==
  ASSUME Types, NEW t \in Server, Remove(t)
  PROVE  /\ LedgerLockFree /\ req[t].at = "funding" /\ req[t].op \in {"pull", "delete"}
         /\ \/ Vanishes(t, req[t].blob) /\ MovesTo(t, "counting") /\ req[t].blob \in Blob
            \/ Becomes(t, Idle) /\ live' = live /\ taken' = taken /\ tmp' = tmp
<1>1. req[t].at = "funding" /\ req[t].op \in {"pull", "delete"} /\ req[t] \in OnBlob /\ LedgerLockFree
      /\ t \in Thread /\ tmp' = tmp
  BY Kinds DEF Remove
<1>2. CASE /\ req[t].blob \in live
           /\ live' = live \ {req[t].blob} /\ taken' = taken \cup {req[t].blob}
           /\ Goto(t, "counting")
  BY <1>1, <1>2, GotoLemma DEF Vanishes, Types
<1>3. QED  BY <1>1, <1>2, FinishLemma DEF Remove

LEMMA CountLemma ==
  ASSUME Types, NEW t \in Server, Count(t)
  PROVE  /\ req[t].at = "counting"
         /\ \/ t \in Thread /\ Becomes(t, Idle)
            \/ t = Purger /\ req[t].op = "purge" /\ MovesTo(t, "inside")
         /\ t \in Thread => req[t] \in OnBlob
<1>1. req[t].at = "counting"
  BY DEF Count
<1>2. CASE req[t].op = "purge"
  <2>1. req[t] \in Sweeping /\ t = Purger /\ t \notin Thread
    BY <1>1, <1>2, Kinds, StoreAssumption DEF PurgeWork, Idle, Removing
  <2>2. QED  BY <1>1, <1>2, <2>1, GotoLemma DEF Count
<1>3. CASE req[t].op # "purge"
  <2>1. req[t] \in OnBlob /\ t \in Thread
    BY <1>1, <1>3, Kinds
  <2>2. QED  BY <1>1, <1>3, <2>1, FinishLemma DEF Count
<1>4. QED  BY <1>2, <1>3

LEMMA PurgeBlobLemma ==
  ASSUME Types, NEW b \in Blob, PurgeBlob(b)
  PROVE  Purger \in Server /\ LedgerLockFree /\ Vanishes(Purger, b) /\ MovesTo(Purger, "counting")
<1>1. Purger \in Server /\ req[Purger].at = "inside" /\ LedgerLockFree
  BY DEF PurgeBlob, Purging, Server
<1>2. req[Purger] \in Sweeping
  BY <1>1, Kinds, StoreAssumption DEF PurgeWork, Idle, Removing, Server
<1>3. Vanishes(Purger, b)
  BY <1>1 DEF PurgeBlob, Vanishes, Expirable, In
<1>4. QED  BY <1>1, <1>2, <1>3, GotoLemma DEF PurgeBlob

\* The purge's other steps find it in a mailbox, and leave it there or idle.
LEMMA PurgeLemma ==
  ASSUME Types, NEW m \in Mailbox
  PROVE  /\ Purger \in Server /\ Purger \notin Thread
         /\ PurgeMailbox(m) => \E r : Becomes(Purger, r) /\ r.at = "opening" /\ r.op = "purge" /\ r.mailbox = m
         /\ Judge(m) => Becomes(Purger, Idle) \/ MovesTo(Purger, "condemned")
         /\ Unindex(m) => MovesTo(Purger, "removing")
         /\ \A part : Unlink(m, part) => MovesTo(Purger, "removing")
         /\ Unlinked(m) => Becomes(Purger, Idle)
<1>1. Purger \in Server /\ Purger \notin Thread
  BY StoreAssumption DEF Server
<1>2. ASSUME PurgeMailbox(m)
      PROVE  \E r : Becomes(Purger, r) /\ r.at = "opening" /\ r.op = "purge" /\ r.mailbox = m
  <2> DEFINE r == [at |-> "opening", op |-> "purge", mailbox |-> m, inode |-> 0]
  <2>1. r \in PurgeWork /\ r.at = "opening" /\ r.op = "purge" /\ r.mailbox = m
    BY DEF PurgeWork, Sweeping
  <2>2. req' = [req EXCEPT ![Purger] = r]
    BY <1>2 DEF PurgeMailbox
  <2> HIDE DEF r
  <2>3. QED  BY <1>1, <2>1, <2>2, BecomesLemma
<1>3. ASSUME Judge(m) PROVE Becomes(Purger, Idle) \/ MovesTo(Purger, "condemned")
  <2>1. req[Purger] \in Sweeping
    BY <1>1, <1>3, Kinds DEF Judge, Purging, PurgeWork, Idle, Removing
  <2>2. Finish(Purger) \/ Goto(Purger, "condemned")
    BY <1>3 DEF Judge
  <2>3. QED  BY <1>1, <2>1, <2>2, FinishLemma, GotoLemma
<1>4. ASSUME Unindex(m) PROVE MovesTo(Purger, "removing")
  <2> DEFINE r == [at |-> "removing", op |-> "purge", mailbox |-> m, inode |-> req[Purger].inode,
                   todo |-> {"contents"} \cup (dir[m] \ {"root"})]
  <2>1. req[Purger] \in Sweeping /\ req[Purger].mailbox = m
    BY <1>1, <1>4, Kinds DEF Unindex, PurgeWork, Idle, Removing
  <2>2. r \in PurgeWork /\ r.at = "removing" /\ r.op = "purge" /\ r.mailbox = m
        /\ req[Purger].op = "purge"
    BY <2>1 DEF Types, PurgeWork, Sweeping, Removing
  <2>3. req' = [req EXCEPT ![Purger] = r]
    BY <1>4 DEF Unindex
  <2> HIDE DEF r
  <2>4. QED  BY <1>1, <2>1, <2>2, <2>3, BecomesLemma DEF MovesTo
<1>5. ASSUME NEW part, Unlink(m, part) PROVE MovesTo(Purger, "removing")
  <2> DEFINE r == [req[Purger] EXCEPT !.todo = @ \ {part}]
  <2>1. req[Purger] \in Removing
    BY <1>1, <1>5, Kinds DEF Unlink, PurgeWork, Idle, Sweeping
  <2>2. r \in PurgeWork /\ r.at = "removing" /\ r.op = "purge" /\ r.mailbox = req[Purger].mailbox
        /\ req[Purger].op = "purge"
    BY <2>1 DEF PurgeWork, Removing
  <2>3. req' = [req EXCEPT ![Purger] = r]
    BY <1>5 DEF Unlink
  <2> HIDE DEF r
  <2>4. QED  BY <1>1, <2>1, <2>2, <2>3, BecomesLemma DEF MovesTo
<1>6. ASSUME Unlinked(m) PROVE Becomes(Purger, Idle)
  BY <1>1, <1>6, FinishLemma DEF Unlinked
<1>7. QED  BY <1>1, <1>2, <1>3, <1>4, <1>5, <1>6

LEMMA ArriveLemma ==
  ASSUME Types, NEW t \in Thread
  PROVE  /\ t \in Server
         /\ \A m \in Mailbox :
              /\ CreateMailbox(t, m) => \E r : Becomes(t, r) /\ r.at = "creating" /\ r.mailbox = m /\ r.op = "create"
              /\ ListBlobs(t, m) => \E r : Becomes(t, r) /\ r.at = "opening" /\ r.op = "list" /\ r.mailbox = m
         /\ \A b \in Blob :
              /\ PutBlob(t, b) => \E r : /\ Becomes(t, r) /\ r.at = "staging" /\ r.op = "add"
                                       /\ r.mailbox = Home[b] /\ r.blob = b
              /\ \A op \in {"pull", "delete"} : TakeBlob(t, op, b) =>
                   \E r : Becomes(t, r) /\ r.at = "opening" /\ r.op = op /\ r.mailbox = Home[b]
<1>1. t \in Server /\ t # Purger
  BY StoreAssumption DEF Server
<1>2. ASSUME NEW m \in Mailbox, CreateMailbox(t, m)
      PROVE  \E r : Becomes(t, r) /\ r.at = "creating" /\ r.mailbox = m /\ r.op = "create"
  <2> DEFINE r == [at |-> "creating", op |-> "create", mailbox |-> m]
  <2>1. r \in Request /\ r.at = "creating" /\ r.mailbox = m /\ r.op = "create"
    BY DEF Request, Creating
  <2>2. req' = [req EXCEPT ![t] = r]
    BY <1>2 DEF CreateMailbox
  <2> HIDE DEF r
  <2>3. QED  BY <1>1, <2>1, <2>2, BecomesLemma
<1>3. ASSUME NEW m \in Mailbox, ListBlobs(t, m)
      PROVE  \E r : Becomes(t, r) /\ r.at = "opening" /\ r.op = "list" /\ r.mailbox = m
  <2> DEFINE r == [at |-> "opening", op |-> "list", mailbox |-> m, inode |-> 0]
  <2>1. r \in Request /\ r.at = "opening" /\ r.op = "list" /\ r.mailbox = m
    BY DEF Request, Listing
  <2>2. req' = [req EXCEPT ![t] = r]
    BY <1>3 DEF ListBlobs
  <2> HIDE DEF r
  <2>3. QED  BY <1>1, <2>1, <2>2, BecomesLemma
<1>4. ASSUME NEW b \in Blob, PutBlob(t, b)
      PROVE  \E r : /\ Becomes(t, r) /\ r.at = "staging" /\ r.op = "add"
                    /\ r.mailbox = Home[b] /\ r.blob = b
  <2> DEFINE r == [at |-> "staging", op |-> "add", mailbox |-> Home[b], blob |-> b, inode |-> 0]
  <2>1. r \in Request /\ r.at = "staging" /\ r.op = "add" /\ r.mailbox = Home[b] /\ r.blob = b
    BY StoreAssumption DEF Request, OnBlob, BlobRecord
  <2>2. req' = [req EXCEPT ![t] = r]
    BY <1>4 DEF PutBlob
  <2> HIDE DEF r
  <2>3. QED  BY <1>1, <2>1, <2>2, BecomesLemma
<1>5. ASSUME NEW b \in Blob, NEW op \in {"pull", "delete"}, TakeBlob(t, op, b)
      PROVE  \E r : Becomes(t, r) /\ r.at = "opening" /\ r.op = op /\ r.mailbox = Home[b]
  <2> DEFINE r == [at |-> "opening", op |-> op, mailbox |-> Home[b], blob |-> b, inode |-> 0]
  <2>1. r \in Request /\ r.at = "opening" /\ r.op = op /\ r.mailbox = Home[b]
    BY StoreAssumption DEF Request, OnBlob, BlobRecord
  <2>2. req' = [req EXCEPT ![t] = r]
    BY <1>5 DEF TakeBlob
  <2> HIDE DEF r
  <2>3. QED  BY <1>1, <2>1, <2>2, BecomesLemma
<1>6. QED  BY <1>1, <1>2, <1>3, <1>4, <1>5

-----------------------------------------------------------------------------
(* Types. *)

LEMMA InitTypes == Init => Types
BY IdleLemma DEF Init, Types, Request, PurgeWork, Server

\* A step of one request that keeps the server up.
LEMMA BecomesTypes ==
  ASSUME Types, NEW t \in Server, NEW r, Becomes(t, r), up, up' = up,
         index' \in SUBSET Mailbox, dir' \in [Mailbox -> SUBSET Parts], inode' \in [Mailbox -> Nat],
         tmp' \in SUBSET Blob, live' \in SUBSET Blob, expired' \in SUBSET Blob,
         posted' \in SUBSET Blob, accepted' \in SUBSET Blob, taken' \in SUBSET Blob,
         ledger' \in Nat, fresh' \in SUBSET Mailbox, answers' \in [Blob -> Nat]
  PROVE  Types'
BY DEF Types, Becomes

LEMMA ArriveTypes == ASSUME Types, NEW t \in Thread, Arrive(t) PROVE Types'
<1>1. PICK r : Becomes(t, r)
  BY ArriveLemma DEF Arrive
<1>2. CASE \E m \in Mailbox : CreateMailbox(t, m)
  BY <1>1, <1>2, ArriveLemma, BecomesTypes DEF CreateMailbox, Types, Parts, history
<1>3. CASE \E m \in Mailbox : ListBlobs(t, m)
  BY <1>1, <1>3, ArriveLemma, BecomesTypes DEF ListBlobs, Authorised, Types, files, history
<1>4. CASE \E b \in Blob : PutBlob(t, b)
  BY <1>1, <1>4, ArriveLemma, BecomesTypes DEF PutBlob, Authorised, Types, files
<1>5. CASE \E b \in Blob : TakeBlob(t, "pull", b) \/ TakeBlob(t, "delete", b)
  BY <1>1, <1>5, ArriveLemma, BecomesTypes DEF TakeBlob, Authorised, Types, files, history
<1>6. QED  BY <1>2, <1>3, <1>4, <1>5 DEF Arrive

LEMMA CreatedLemma ==
  ASSUME Types, NEW t \in Server, Created(t)
  PROVE  /\ req[t].at = "creating" /\ req[t].mailbox \in Mailbox /\ t \in Thread /\ Becomes(t, Idle)
         /\ dir' = [dir EXCEPT ![req[t].mailbox] = @ \cup {"lock"}]
         /\ inode' = [inode EXCEPT ![req[t].mailbox] = IF "lock" \in dir[req[t].mailbox] THEN @ ELSE @ + 1]
         /\ index' = index \cup {req[t].mailbox}
BY Kinds, FinishLemma DEF Created, Creating, PurgeWork, Idle, Sweeping, Removing

LEMMA AdvanceTypes == ASSUME Types, NEW t \in Server, Advance(t) PROVE Types'
<1>1. CASE Created(t)
  <2>1. req[t].at # "idle" /\ Becomes(t, Idle) /\ dir' \in [Mailbox -> SUBSET Parts]
        /\ inode' \in [Mailbox -> Nat] /\ index' \in SUBSET Mailbox
    BY <1>1, CreatedLemma DEF Types, Parts
  <2>2. QED  BY <1>1, <2>1, UpLemma, BecomesTypes DEF Created, Types, history
<1>2. CASE Stage(t)
  <2>1. PICK r : Becomes(t, r) /\ req[t].at # "idle" /\ tmp' \in SUBSET Blob
    BY <1>2, StageLemma, Kinds DEF MovesTo, Types
  <2>2. QED  BY <1>2, <2>1, UpLemma, BecomesTypes DEF Stage, Types, history
<1>3. CASE Open(t)
  <2>1. req[t].at # "idle" /\ tmp' \in SUBSET Blob
        /\ dir' \in [Mailbox -> SUBSET Parts] /\ inode' \in [Mailbox -> Nat]
    BY <1>3, OpenLemma, DiscardLemma DEF Types, Parts
  <2>2. PICK r : Becomes(t, r)
    BY <1>3, OpenLemma DEF MovesTo
  <2>3. QED  BY <1>3, <2>1, <2>2, UpLemma, BecomesTypes DEF Open, Types, history
<1>4. CASE Enter(t)
  <2>1. PICK r : Becomes(t, r) /\ req[t].at # "idle" /\ fresh' \in SUBSET Mailbox
    BY <1>4, EnterLemma DEF MovesTo, Types
  <2>2. QED  BY <1>4, <2>1, UpLemma, BecomesTypes DEF Enter, Types, files, history
<1>5. CASE Consult(t)
  <2>1. PICK r : Becomes(t, r) /\ req[t].at # "idle" /\ tmp' \in SUBSET Blob
    BY <1>5, ConsultLemma, DiscardLemma DEF MovesTo, Types
  <2>2. QED  BY <1>5, <2>1, UpLemma, BecomesTypes DEF Consult, Types, history
<1>6. CASE Commit(t)
  <2>1. PICK r : Becomes(t, r) /\ req[t].at # "idle" /\ tmp' \in SUBSET Blob /\ live' \in SUBSET Blob
    BY <1>6, CommitLemma, DiscardLemma DEF MovesTo, Types, Appears
  <2>2. QED  BY <1>6, <2>1, UpLemma, BecomesTypes DEF Commit, Types, history
<1>7. CASE Remove(t)
  <2>1. PICK r : Becomes(t, r) /\ req[t].at # "idle" /\ live' \in SUBSET Blob /\ taken' \in SUBSET Blob
    BY <1>7, RemoveLemma DEF MovesTo, Types, Vanishes
  <2>2. QED  BY <1>7, <2>1, UpLemma, BecomesTypes DEF Remove, Types
<1>8. CASE Count(t)
  <2>1. PICK r : Becomes(t, r) /\ req[t].at # "idle"
    BY <1>8, CountLemma DEF MovesTo
  <2>2. req[t].op = "add" \/ req[t].op = "pull" => req[t].blob \in Blob
    BY <2>1, Kinds
  <2>3. accepted' \in SUBSET Blob /\ answers' \in [Blob -> Nat] /\ ledger' \in Nat
    BY <1>8, <2>2 DEF Count, Types
  <2>4. QED  BY <1>8, <2>1, <2>3, UpLemma, BecomesTypes DEF Count, Types
<1>9. QED  BY <1>1, <1>2, <1>3, <1>4, <1>5, <1>6, <1>7, <1>8 DEF Advance

LEMMA PurgeTypes ==
  ASSUME Types, NEW m \in Mailbox, PurgeMailbox(m) \/ PurgeStep(m) PROVE Types'
<1>1. Purger \in Server
  BY PurgeLemma
<1>2. CASE PurgeMailbox(m)
  <2>1. PICK r : Becomes(Purger, r)
    BY <1>2, PurgeLemma
  <2>2. QED  BY <1>1, <1>2, <2>1, BecomesTypes DEF PurgeMailbox, Types, files, history
<1>3. CASE \E b \in Blob : PurgeBlob(b)
  <2>1. PICK b \in Blob : PurgeBlob(b)
    BY <1>3
  <2>2. PICK r : Becomes(Purger, r) /\ req[Purger].at # "idle" /\ live' \in SUBSET Blob /\ taken' \in SUBSET Blob
    BY <2>1, PurgeBlobLemma DEF MovesTo, Types, Vanishes
  <2>3. QED  BY <1>1, <2>1, <2>2, UpLemma, BecomesTypes DEF PurgeBlob, Types
<1>4. CASE Judge(m)
  <2>1. PICK r : Becomes(Purger, r) /\ req[Purger].at # "idle" /\ tmp' \in SUBSET Blob
    BY <1>4, PurgeLemma DEF MovesTo, Judge, Purging, Types
  <2>2. QED  BY <1>1, <1>4, <2>1, UpLemma, BecomesTypes DEF Judge, Types, history
<1>5. CASE Unindex(m)
  <2>1. PICK r : Becomes(Purger, r) /\ req[Purger].at # "idle" /\ index' \in SUBSET Mailbox
    BY <1>5, PurgeLemma DEF MovesTo, Unindex, Types
  <2>2. QED  BY <1>1, <1>5, <2>1, UpLemma, BecomesTypes DEF Unindex, Types, files, history
<1>6. CASE \E part \in Parts \cup {"contents"} : Unlink(m, part)
  <2>1. PICK part \in Parts \cup {"contents"} : Unlink(m, part)
    BY <1>6
  <2>2. PICK r : Becomes(Purger, r) /\ req[Purger].at # "idle"
    BY <2>1, PurgeLemma DEF MovesTo, Unlink
  <2>3. tmp' \in SUBSET Blob /\ live' \in SUBSET Blob /\ dir' \in [Mailbox -> SUBSET Parts]
    BY <2>1 DEF Unlink, Types
  <2>4. QED  BY <1>1, <2>1, <2>2, <2>3, UpLemma, BecomesTypes DEF Unlink, Types, history
<1>7. CASE Unlinked(m)
  <2>1. Becomes(Purger, Idle) /\ req[Purger].at # "idle" /\ dir' \in [Mailbox -> SUBSET Parts]
    BY <1>7, PurgeLemma DEF Unlinked, Types
  <2>2. QED  BY <1>1, <1>7, <2>1, UpLemma, BecomesTypes DEF Unlinked, Types, history
<1>8. QED  BY <1>2, <1>3, <1>4, <1>5, <1>6, <1>7 DEF PurgeStep

LEMMA RestTypes ==
  ASSUME Types,
         \/ \E b \in Blob : Expire(b)
         \/ \E m \in Mailbox : GoIdle(m)
         \/ Crash \/ Restart
         \/ UNCHANGED vars
  PROVE  Types'
<1>1. CASE \E b \in Blob : Expire(b)
  BY <1>1 DEF Expire, Types, files, history
<1>2. CASE \E m \in Mailbox : GoIdle(m)
  BY <1>2 DEF GoIdle, Types, files, history
<1>3. CASE Crash
  <2>1. Idle \in Request /\ Idle \in PurgeWork
    BY DEF Request, PurgeWork
  <2>2. req' \in [Server -> Request \cup PurgeWork] /\ (\A t \in Server : req'[t] = Idle)
    BY <1>3, <2>1 DEF Crash
  <2>3. inode' \in [Mailbox -> Nat]
    BY <1>3 DEF Crash
  <2>4. QED  BY <1>3, <2>1, <2>2, <2>3 DEF Crash, Types, Server, history
<1>4. CASE Restart
  <2>1. Seen(live) \in SUBSET Blob /\ IsFiniteSet(Seen(live))
    BY StoreAssumption, FS_Subset DEF Types, Seen
  <2>2. Cardinality(Seen(live)) \in Nat
    BY <2>1, FS_CardinalityType
  <2>3. Known \in SUBSET Mailbox /\ tmp' \in SUBSET Blob
    BY <1>4 DEF Known, Restart, Types
  <2>4. QED  BY <1>4, <2>2, <2>3 DEF Restart, Types, history
<1>5. CASE UNCHANGED vars
  BY <1>5 DEF vars, files, history, Types
<1>6. QED  BY <1>1, <1>2, <1>3, <1>4, <1>5

LEMMA NextTypes == ASSUME Types, [Next]_vars PROVE Types'
BY ArriveTypes, AdvanceTypes, PurgeTypes, RestTypes DEF Next

-----------------------------------------------------------------------------
(* Each blob is uploaded by one request, comes to the disk once, leaves it  *)
(* once, and is handed out only by the request it left it for.              *)

Adding(t) == req[t].at # "idle" /\ req[t].op = "add"

Counting(t) == req[t].at = "counting"

OneCounts == \A t, u \in Server : Counting(t) /\ Counting(u) => t = u

Uploads ==
  /\ \A t \in Thread : Adding(t) =>
       req[t].blob \in posted /\ (~ Counting(t) => req[t].blob \notin live \cup taken)
  /\ \A t, u \in Thread : Adding(t) /\ Adding(u) /\ req[t].blob = req[u].blob => t = u

Once ==
  /\ live \subseteq posted /\ tmp \subseteq posted /\ taken \subseteq posted
  /\ live \cap taken = {}
  /\ \A b \in Blob : answers[b] <= 1 /\ (answers[b] # 0 => b \in taken)
  /\ \A t \in Thread : Counting(t) /\ req[t].op # "add" =>
       req[t].blob \in taken /\ (req[t].op = "pull" => answers[req[t].blob] = 0)

Ids == OneCounts /\ Uploads /\ Once

\* A request that is new, over, or where it was as far as its blob is concerned.
Carries(u) ==
  \/ req'[u] = req[u]
  \/ req'[u].at = "idle"
  \/ /\ req'[u].at # "counting"
     /\ req'[u].op = "add" => Adding(u) /\ ~ Counting(u) /\ req'[u].blob = req[u].blob

\* A step that gives no blob and counts none.
Quiet ==
  /\ \A u \in Server : Carries(u)
  /\ posted' = posted /\ taken' = taken /\ answers' = answers
  /\ live' \subseteq live /\ tmp' \subseteq posted

LEMMA ServerThread == Thread \subseteq Server /\ Purger \in Server /\ Purger \notin Thread
BY StoreAssumption DEF Server

LEMMA QuietIds ==
  ASSUME Types, Ids, Quiet
  PROVE  Ids'
<1>1. OneCounts'
  BY DEF Ids, OneCounts, Quiet, Carries, Counting
<1>2. \A t \in Thread : Adding(t)' =>
        Adding(t) /\ req'[t].blob = req[t].blob /\ (Counting(t) => Counting(t)')
  BY ServerThread DEF Quiet, Carries, Adding, Counting
<1>3. Uploads'
  BY <1>2 DEF Ids, Uploads, Quiet
<1>4. \A t \in Thread : Counting(t)' => req'[t] = req[t]
  BY ServerThread DEF Quiet, Carries, Counting
<1>5. Once'
  BY <1>4 DEF Ids, Once, Quiet, Counting
<1>6. QED  BY <1>1, <1>3, <1>5 DEF Ids

LEMMA InitIds == Init => Ids
<1> SUFFICES ASSUME Init PROVE Ids
  OBVIOUS
<1>1. \A t \in Server : req[t].at = "idle"
  BY IdleLemma DEF Init
<1>2. QED  BY <1>1, ServerThread DEF Init, Ids, OneCounts, Uploads, Once, Adding, Counting

\* One request moves, and no other.
LEMMA MovesCarries ==
  ASSUME Types, NEW t \in Server, NEW r, Becomes(t, r),
         \/ r.at = "idle"
         \/ /\ r.at # "counting"
            /\ r.op = "add" => req[t].at # "idle" /\ req[t].op = "add" /\ req[t].at # "counting"
                               /\ r.blob = req[t].blob
  PROVE  \A u \in Server : Carries(u)
BY DEF Becomes, Carries, Adding, Counting

LEMMA MovesToCarries ==
  ASSUME Types, NEW t \in Server, req[t].at # "idle", NEW x, MovesTo(t, x),
         x # "counting", req[t].at = "counting" => t = Purger
  PROVE  \A u \in Server : Carries(u)
<1>1. PICK r : /\ Becomes(t, r) /\ r.at = x /\ r.op = req[t].op
               /\ r.op \in {"add", "pull", "delete"} => r.blob = req[t].blob
  BY DEF MovesTo
<1>2. r.op = "add" => req[t].at # "counting"
  BY <1>1, Kinds, ServerThread
<1>3. QED  BY <1>1, <1>2, MovesCarries

\* The two ends of a count.
LEMMA AppearsIds ==
  ASSUME Types, Ids, LedgerLockFree, NEW t \in Thread, NEW b \in Blob, Appears(t, b),
         MovesTo(t, "counting"), UNCHANGED <<posted, answers>>
  PROVE  Ids'
<1>1. /\ t \in Server /\ req[t].at = "funding" /\ req[t].op = "add" /\ req[t].blob = b
      /\ live' = live \cup {b} /\ tmp' = tmp \ {b} /\ taken' = taken
  BY ServerThread DEF Appears
<1>2. /\ \A u \in Server : u # t => req'[u] = req[u] /\ ~ Counting(u)
      /\ req'[t].at = "counting" /\ req'[t].op = "add" /\ req'[t].blob = b
  BY <1>1 DEF MovesTo, Becomes, LedgerLockFree, Counting
<1>3. Adding(t) /\ ~ Counting(t) /\ b \in posted /\ b \notin live \cup taken
  BY <1>1 DEF Adding, Counting, Ids, Uploads
<1>4. OneCounts'
  BY <1>2 DEF OneCounts, Counting
<1>5. Uploads'
  BY <1>1, <1>2, <1>3, ServerThread DEF Ids, Uploads, Adding, Counting
<1>6. Once'
  BY <1>1, <1>2, <1>3, ServerThread DEF Ids, Once, Counting
<1>7. QED  BY <1>4, <1>5, <1>6 DEF Ids

LEMMA VanishesIds ==
  ASSUME Types, Ids, LedgerLockFree, NEW t \in Server, NEW b \in Blob, Vanishes(t, b),
         MovesTo(t, "counting"), UNCHANGED <<posted, answers>>
  PROVE  Ids'
<1>1. /\ req[t].at # "idle" /\ req[t].op # "add"
      /\ b \in live /\ live' = live \ {b} /\ tmp' = tmp /\ taken' = taken \cup {b}
  BY Kinds, ServerThread DEF Vanishes
<1>2. /\ \A u \in Server : u # t => req'[u] = req[u] /\ ~ Counting(u)
      /\ req'[t].at = "counting" /\ req'[t].op = req[t].op
      /\ t \in Thread => req[t].op \in {"pull", "delete"} /\ req'[t].blob = b
  <2>1. PICK r : /\ Becomes(t, r) /\ r.at = "counting" /\ r.op = req[t].op
                 /\ r.op \in {"add", "pull", "delete"} => r.blob = req[t].blob
    BY DEF MovesTo
  <2>2. t \in Thread => req[t].op \in {"pull", "delete"} /\ req[t].blob = b
    BY <1>1, Kinds, ServerThread DEF Vanishes
  <2>3. QED  BY <2>1, <2>2 DEF Becomes, LedgerLockFree, Counting
<1>3. b \in posted /\ b \notin taken /\ answers[b] = 0
  BY <1>1 DEF Ids, Once, Types
<1>4. OneCounts'
  BY <1>2 DEF OneCounts, Counting
<1>5. Uploads'
  <2>1. \A u \in Thread : Adding(u)' => Adding(u) /\ req'[u] = req[u] /\ ~ Counting(u)
    BY <1>1, <1>2, ServerThread DEF Adding, Counting
  <2>2. QED  BY <1>1, <2>1 DEF Ids, Uploads
<1>6. Once'
  BY <1>1, <1>2, <1>3, ServerThread DEF Ids, Once, Counting
<1>7. QED  BY <1>4, <1>5, <1>6 DEF Ids

LEMMA CountIds == ASSUME Types, Ids, NEW t \in Server, Count(t) PROVE Ids'
<1>1. req[t].at = "counting" /\ UNCHANGED <<posted, taken, live, tmp>>
  BY DEF Count
<1>2. \A u \in Server : u # t => req'[u] = req[u] /\ ~ Counting(u)
  <2>1. \A u \in Server : u # t => req'[u] = req[u]
    BY CountLemma DEF Becomes, MovesTo
  <2>2. QED  BY <1>1, <2>1 DEF Ids, OneCounts, Counting
<1>3. req'[t].at # "counting" /\ (t \in Thread => req'[t].at = "idle")
  BY CountLemma, IdleLemma, ServerThread DEF Becomes, MovesTo
<1>4. OneCounts'
  BY <1>2, <1>3 DEF OneCounts, Counting
<1>5. Uploads'
  BY <1>1, <1>2, <1>3, ServerThread DEF Ids, Uploads, Adding, Counting
<1>6. ASSUME NEW b \in Blob PROVE answers'[b] <= 1 /\ (answers'[b] # 0 => b \in taken)
  <2>1. CASE req[t].op = "pull"
    <3>1. /\ t \in Thread /\ req[t].blob \in Blob /\ req[t].blob \in taken /\ answers[req[t].blob] = 0
      BY <1>1, <2>1, Kinds DEF Ids, Once, Counting
    <3>2. answers' = [answers EXCEPT ![req[t].blob] = @ + 1]
      BY <2>1 DEF Count
    <3>3. QED  BY <3>1, <3>2 DEF Ids, Once, Types
  <2>2. CASE req[t].op # "pull"
    BY <2>2 DEF Ids, Once, Count
  <2>3. QED  BY <2>1, <2>2
<1>7. Once'
  BY <1>1, <1>2, <1>3, <1>6, ServerThread DEF Ids, Once, Counting
<1>8. QED  BY <1>4, <1>5, <1>7 DEF Ids

LEMMA PutBlobIds == ASSUME Types, Ids, NEW t \in Thread, NEW b \in Blob, PutBlob(t, b) PROVE Ids'
<1>1. /\ b \notin posted /\ posted' = posted \cup {b} /\ req[t].at = "idle"
      /\ UNCHANGED <<live, tmp, taken, answers>>
  BY IdleLemma, ServerThread DEF PutBlob, Authorised, files
<1>2. /\ \A u \in Server : u # t => req'[u] = req[u]
      /\ req'[t].at = "staging" /\ req'[t].op = "add" /\ req'[t].blob = b
  BY ArriveLemma DEF Becomes
<1>3. OneCounts'
  BY <1>2 DEF Ids, OneCounts, Counting
<1>4. b \notin live \cup taken
  BY <1>1 DEF Ids, Once
<1>5. Uploads'
  BY <1>1, <1>2, <1>4, ServerThread DEF Ids, Uploads, Adding, Counting
<1>6. Once'
  BY <1>1, <1>2, ServerThread DEF Ids, Once, Counting
<1>7. QED  BY <1>3, <1>5, <1>6 DEF Ids

LEMMA ArriveIds == ASSUME Types, Ids, NEW t \in Thread, Arrive(t) PROVE Ids'
<1>1. CASE \E b \in Blob : PutBlob(t, b)
  BY <1>1, PutBlobIds
<1>2. CASE \/ \E m \in Mailbox : CreateMailbox(t, m) \/ ListBlobs(t, m)
           \/ \E b \in Blob : TakeBlob(t, "pull", b) \/ TakeBlob(t, "delete", b)
  <2>1. PICK r : Becomes(t, r) /\ r.at \in {"creating", "opening"} /\ r.op # "add"
    BY <1>2, ArriveLemma
  <2>2. \A u \in Server : Carries(u)
    BY <2>1, MovesCarries, ServerThread
  <2>3. UNCHANGED <<posted, taken, answers, live, tmp>>
    BY <1>2 DEF CreateMailbox, ListBlobs, TakeBlob, files, history
  <2>4. QED  BY <2>2, <2>3, QuietIds DEF Quiet, Ids, Once
<1>3. QED  BY <1>1, <1>2 DEF Arrive

LEMMA AdvanceIds == ASSUME Types, Ids, NEW t \in Server, Advance(t) PROVE Ids'
<1>1. ASSUME Becomes(t, Idle) PROVE \A u \in Server : Carries(u)
  BY <1>1, MovesCarries, IdleLemma
<1>2. CASE Created(t)
  <2>1. UNCHANGED <<posted, taken, answers, live, tmp>>
    BY <1>2 DEF Created, history
  <2>2. QED  BY <1>1, <1>2, <2>1, CreatedLemma, QuietIds DEF Quiet, Ids, Once
<1>3. CASE Stage(t)
  <2>1. req[t].at = "staging" /\ Adding(t) /\ t \in Thread
        /\ (Becomes(t, Idle) \/ MovesTo(t, "opening"))
        /\ tmp' \subseteq tmp \cup {req[t].blob}
    BY <1>3, StageLemma DEF Adding
  <2>2. \A u \in Server : Carries(u)
    BY <1>1, <2>1, MovesToCarries
  <2>3. tmp' \subseteq posted /\ UNCHANGED <<posted, taken, answers, live>>
    BY <1>3, <2>1 DEF Stage, history, Ids, Once, Uploads
  <2>4. QED  BY <2>2, <2>3, QuietIds DEF Quiet
<1>4. CASE Open(t)
  <2>1. req[t].at = "opening" /\ (Becomes(t, Idle) \/ MovesTo(t, "waiting")) /\ tmp' \subseteq tmp
    BY <1>4, OpenLemma, DiscardLemma
  <2>2. \A u \in Server : Carries(u)
    BY <1>1, <2>1, MovesToCarries
  <2>3. UNCHANGED <<posted, taken, answers, live>>
    BY <1>4 DEF Open, history
  <2>4. QED  BY <2>1, <2>2, <2>3, QuietIds DEF Quiet, Ids, Once
<1>5. CASE Enter(t)
  <2>1. req[t].at = "waiting" /\ MovesTo(t, "inside")
    BY <1>5, EnterLemma
  <2>2. \A u \in Server : Carries(u)
    BY <2>1, MovesToCarries
  <2>3. UNCHANGED <<posted, taken, answers, live, tmp>>
    BY <1>5 DEF Enter, files, history
  <2>4. QED  BY <2>2, <2>3, QuietIds DEF Quiet, Ids, Once
<1>6. CASE Consult(t)
  <2>1. req[t].at = "inside" /\ (Becomes(t, Idle) \/ MovesTo(t, "funding")) /\ tmp' \subseteq tmp
    BY <1>6, ConsultLemma, DiscardLemma
  <2>2. \A u \in Server : Carries(u)
    BY <1>1, <2>1, MovesToCarries
  <2>3. UNCHANGED <<posted, taken, answers, live>>
    BY <1>6 DEF Consult, history
  <2>4. QED  BY <2>1, <2>2, <2>3, QuietIds DEF Quiet, Ids, Once
<1>7. CASE Commit(t)
  <2>1. UNCHANGED <<posted, answers>>
    BY <1>7 DEF Commit, history
  <2>2. CASE Appears(t, req[t].blob) /\ MovesTo(t, "counting") /\ req[t].blob \in Blob
    BY <1>7, <2>1, <2>2, CommitLemma, AppearsIds DEF Appears
  <2>3. CASE Becomes(t, Idle) /\ Discard(t) /\ live' = live /\ taken' = taken
    <3>1. tmp' \subseteq tmp
      BY <1>7, <2>3, CommitLemma, DiscardLemma
    <3>2. QED  BY <1>1, <2>1, <2>3, <3>1, QuietIds DEF Quiet, Ids, Once
  <2>4. QED  BY <1>7, <2>2, <2>3, CommitLemma
<1>8. CASE Remove(t)
  <2>1. UNCHANGED <<posted, answers>>
    BY <1>8 DEF Remove
  <2>2. CASE Vanishes(t, req[t].blob) /\ MovesTo(t, "counting") /\ req[t].blob \in Blob
    BY <1>8, <2>1, <2>2, RemoveLemma, VanishesIds
  <2>3. CASE Becomes(t, Idle) /\ live' = live /\ taken' = taken /\ tmp' = tmp
    BY <1>1, <2>1, <2>3, QuietIds DEF Quiet, Ids, Once
  <2>4. QED  BY <1>8, <2>2, <2>3, RemoveLemma
<1>9. CASE Count(t)
  BY <1>9, CountIds
<1>10. QED  BY <1>2, <1>3, <1>4, <1>5, <1>6, <1>7, <1>8, <1>9 DEF Advance

LEMMA PurgeIds ==
  ASSUME Types, Ids, NEW m \in Mailbox, PurgeMailbox(m) \/ PurgeStep(m) PROVE Ids'
<1>1. CASE \E b \in Blob : PurgeBlob(b)
  <2>1. PICK b \in Blob : PurgeBlob(b)
    BY <1>1
  <2>2. UNCHANGED <<posted, answers>>
    BY <2>1 DEF PurgeBlob
  <2>3. QED  BY <2>1, <2>2, PurgeBlobLemma, VanishesIds
<1>2. CASE PurgeMailbox(m)
  <2>1. \A u \in Server : Carries(u)
    BY <1>2, PurgeLemma, MovesCarries
  <2>2. UNCHANGED <<posted, taken, answers, live, tmp>>
    BY <1>2 DEF PurgeMailbox, files, history
  <2>3. QED  BY <2>1, <2>2, QuietIds DEF Quiet, Ids, Once
<1>3. CASE Judge(m) \/ Unindex(m) \/ (\E part \in Parts \cup {"contents"} : Unlink(m, part)) \/ Unlinked(m)
  <2>1. req[Purger].at # "idle"
    BY <1>3 DEF Judge, Purging, Unindex, Unlink, Unlinked
  <2>2. Becomes(Purger, Idle) \/ MovesTo(Purger, "condemned") \/ MovesTo(Purger, "removing")
    BY <1>3, PurgeLemma
  <2>3. \A u \in Server : Carries(u)
    BY <2>1, <2>2, MovesCarries, MovesToCarries, IdleLemma, ServerThread
  <2>4. UNCHANGED <<posted, taken, answers>> /\ live' \subseteq live /\ tmp' \subseteq tmp
    BY <1>3 DEF Judge, Unindex, Unlink, Unlinked, files, history
  <2>5. QED  BY <2>3, <2>4, QuietIds DEF Quiet, Ids, Once
<1>4. QED  BY <1>1, <1>2, <1>3 DEF PurgeStep

LEMMA RestIds ==
  ASSUME Types, Ids,
         \/ \E b \in Blob : Expire(b)
         \/ \E m \in Mailbox : GoIdle(m)
         \/ Crash \/ Restart
         \/ UNCHANGED vars
  PROVE  Ids'
<1>1. \A u \in Server : Carries(u)
  BY IdleLemma DEF Expire, GoIdle, Crash, Restart, vars, Carries, Idle
<1>2. UNCHANGED <<posted, taken, answers, live>> /\ tmp' \subseteq tmp
  BY DEF Expire, GoIdle, Crash, Restart, vars, files, history
<1>3. QED  BY <1>1, <1>2, QuietIds DEF Quiet, Ids, Once

LEMMA NextIds == ASSUME Types, Ids, [Next]_vars PROVE Ids'
BY ArriveIds, AdvanceIds, PurgeIds, RestIds DEF Next

-----------------------------------------------------------------------------
(* The mailboxes, if nobody comes back to one that went idle: a request is  *)
(* made to a mailbox that is whole, and what is being removed is empty.     *)

Doomed(m) == req[Purger].at \in {"condemned", "removing"} /\ req[Purger].mailbox = m

Rooms ==
  /\ \A t \in Thread : req[t].at # "idle" =>
       req[t].mailbox \in fresh /\ (req[t].at # "creating" => req[t].mailbox \in index)
  /\ \A m \in fresh : {"root", "blobs", "meta"} \subseteq dir[m]
  /\ \A b \in live \cup tmp : {"blobs", "meta"} \subseteq dir[Home[b]]
  /\ up => \A b \in live : Home[b] \in index
  /\ \A m \in Mailbox : Doomed(m) => m \notin fresh /\ \A b \in live \cup tmp : Home[b] # m
  /\ \A m \in Mailbox : "lock" \in dir[m] => inode[m] # 0
  /\ req[Purger].at \notin {"idle", "opening"} => inode[req[Purger].mailbox] # 0

\* A temporary file has an upload that will see to it.
Tmps ==
  /\ up => tmp \subseteq Owned
  /\ \A t \in Thread : Adding(t) /\ req[t].at \in {"staging", "counting"} => req[t].blob \notin tmp

\* Requests that work in mailboxes in use, and a purge that dooms none.
Settled ==
  /\ \A u \in Thread : req'[u] = req[u] \/ req'[u].at = "idle" \/ req'[u].mailbox \in fresh \cap index
  /\ \/ req'[Purger] = req[Purger]
     \/ req'[Purger].at \in {"idle", "opening"}
     \/ /\ req'[Purger].at \notin {"condemned", "removing"} /\ req[Purger].at \notin {"idle", "opening"}
        /\ req'[Purger].mailbox = req[Purger].mailbox

LEMMA InUse ==
  ASSUME Types, NEW b \in Blob
  PROVE  Home[b] \in Mailbox
BY StoreAssumption

LEMMA SettledRooms ==
  ASSUME Types, Rooms, Settled, UNCHANGED <<up, index, dir, inode, fresh>>,
         \A b \in live' \cup tmp' : b \in live \cup tmp \/ Home[b] \in fresh,
         \A b \in live' : b \in live \/ Home[b] \in index
  PROVE  Rooms'
<1>1. \A t \in Thread : req'[t].at # "idle" =>
        req'[t].mailbox \in fresh /\ (req'[t].at # "creating" => req'[t].mailbox \in index)
  BY DEF Rooms, Settled
<1>2. \A b \in live' \cup tmp' : {"blobs", "meta"} \subseteq dir[Home[b]]
  BY DEF Rooms
<1>3. \A m \in Mailbox : Doomed(m)' => Doomed(m)
  BY DEF Settled, Doomed
<1>4. \A m \in Mailbox : Doomed(m)' => m \notin fresh /\ \A b \in live' \cup tmp' : Home[b] # m
  BY <1>3 DEF Rooms
<1>5. req'[Purger].at \notin {"idle", "opening"} => inode[req'[Purger].mailbox] # 0
  BY DEF Rooms, Settled
<1>6. QED  BY <1>1, <1>2, <1>4, <1>5 DEF Rooms

LEMMA MovesSettled ==
  ASSUME Types, Rooms, NEW t \in Server, NEW x, MovesTo(t, x), req[t].at \notin {"idle", "creating"},
         x \notin {"condemned", "removing"}, t = Purger => req[t].at # "opening"
  PROVE  Settled
<1>1. PICK r : Becomes(t, r) /\ r.at = x /\ r.mailbox = req[t].mailbox
  BY DEF MovesTo
<1>2. CASE t \in Thread
  <2>1. req[t].mailbox \in fresh \cap index
    BY <1>2 DEF Rooms
  <2>2. QED  BY <1>1, <1>2, <2>1, ServerThread DEF Becomes, Settled
<1>3. CASE t = Purger
  BY <1>1, <1>3, ServerThread DEF Becomes, Settled
<1>4. QED  BY <1>2, <1>3, ServerThread DEF Server

LEMMA IdleSettled ==
  ASSUME Types, NEW t \in Server, Becomes(t, Idle)
  PROVE  Settled
BY IdleLemma, ServerThread DEF Becomes, Settled

LEMMA InitRooms == Init => Rooms /\ Tmps
<1> SUFFICES ASSUME Init PROVE Rooms /\ Tmps
  OBVIOUS
<1>1. \A t \in Server : req[t].at = "idle"
  BY IdleLemma DEF Init
<1>2. QED  BY <1>1, ServerThread DEF Init, Rooms, Tmps, Doomed, Adding

LEMMA ArriveRooms ==
  ASSUME Types, Rooms, ~ Returns, NEW t \in Thread, Arrive(t) PROVE Rooms'
<1>1. CASE \/ \E m \in Mailbox : ListBlobs(t, m)
           \/ \E b \in Blob : PutBlob(t, b) \/ TakeBlob(t, "pull", b) \/ TakeBlob(t, "delete", b)
  <2>1. PICK r : Becomes(t, r) /\ r.mailbox \in index \cap fresh
    BY <1>1, ArriveLemma DEF ListBlobs, PutBlob, TakeBlob, Authorised
  <2>2. Settled
    BY <2>1, ServerThread DEF Becomes, Settled
  <2>3. UNCHANGED <<up, index, dir, inode, fresh, live, tmp>>
    BY <1>1 DEF ListBlobs, PutBlob, TakeBlob, files
  <2>4. QED  BY <2>2, <2>3, SettledRooms
<1>2. CASE \E m \in Mailbox : CreateMailbox(t, m)
  <2>1. PICK m \in Mailbox : CreateMailbox(t, m)
    BY <1>2
  <2>2. /\ inode[m] = 0 /\ dir[m] = {} /\ fresh' = fresh \cup {m}
        /\ dir' = [dir EXCEPT ![m] = {"root", "blobs", "meta"}]
        /\ UNCHANGED <<up, index, inode, live, tmp>>
    BY <2>1 DEF CreateMailbox
  <2>3. PICK r : Becomes(t, r) /\ r.at = "creating" /\ r.mailbox = m
    BY <2>1, ArriveLemma
  <2>4. \A n \in Mailbox : n # m => dir'[n] = dir[n]
    BY <2>2 DEF Types
  <2>5. dir'[m] = {"root", "blobs", "meta"}
    BY <2>2 DEF Types
  <2>6. ~ Doomed(m)' /\ \A n \in Mailbox : Doomed(n)' = Doomed(n)
    BY <2>2, <2>3, ServerThread DEF Becomes, Doomed, Rooms
  <2>7. req'[Purger] = req[Purger]
    BY <2>3, ServerThread DEF Becomes
  <2>8. \A u \in Thread : req'[u].at # "idle" =>
          req'[u].mailbox \in fresh' /\ (req'[u].at # "creating" => req'[u].mailbox \in index')
    BY <2>2, <2>3, ServerThread DEF Becomes, Rooms
  <2>9. \A n \in fresh' : {"root", "blobs", "meta"} \subseteq dir'[n]
    BY <2>2, <2>4, <2>5 DEF Rooms, Types
  <2>10. \A b \in live \cup tmp : {"blobs", "meta"} \subseteq dir'[Home[b]]
    BY <2>4, <2>5, InUse DEF Rooms, Types
  <2>11. \A n \in Mailbox : "lock" \in dir'[n] => inode[n] # 0
    BY <2>4, <2>5 DEF Rooms
  <2>12. \A n \in Mailbox : Doomed(n)' => n \notin fresh' /\ \A b \in live \cup tmp : Home[b] # n
    BY <2>2, <2>6 DEF Rooms
  <2>13. QED  BY <2>2, <2>7, <2>8, <2>9, <2>10, <2>11, <2>12 DEF Rooms
<1>3. QED  BY <1>1, <1>2 DEF Arrive

\* A lock file is made where it was missing.
LEMMA LockMade ==
  ASSUME Types, Rooms, NEW m \in Mailbox, NEW g \in Nat, g # 0,
         dir' = [dir EXCEPT ![m] = @ \cup {"lock"}], inode' = [inode EXCEPT ![m] = g],
         UNCHANGED <<up, live, fresh>>, tmp' \subseteq tmp, index \subseteq index',
         \A u \in Thread : req'[u] = req[u] \/ req'[u].at = "idle" \/ req'[u].mailbox \in fresh \cap index,
         \/ req'[Purger] = req[Purger]
         \/ req'[Purger].at = "waiting" /\ req'[Purger].mailbox = m
  PROVE  Rooms'
<1>1. \A n \in Mailbox : dir[n] \subseteq dir'[n] /\ dir'[n] \subseteq dir[n] \cup {"lock"}
                         /\ (n # m => dir'[n] = dir[n] /\ inode'[n] = inode[n]) /\ inode'[m] = g
  BY DEF Types
<1>2. \A t \in Thread : req'[t].at # "idle" =>
        req'[t].mailbox \in fresh /\ (req'[t].at # "creating" => req'[t].mailbox \in index')
  BY DEF Rooms
<1>3. \A n \in fresh : {"root", "blobs", "meta"} \subseteq dir'[n]
  BY <1>1 DEF Rooms, Types
<1>4. \A b \in live \cup tmp' : {"blobs", "meta"} \subseteq dir'[Home[b]]
  BY <1>1, InUse DEF Rooms, Types
<1>5. \A n \in Mailbox : Doomed(n)' => Doomed(n)
  BY DEF Doomed
<1>6. \A n \in Mailbox : Doomed(n)' => n \notin fresh /\ \A b \in live \cup tmp' : Home[b] # n
  BY <1>5 DEF Rooms
<1>7. \A n \in Mailbox : "lock" \in dir'[n] => inode'[n] # 0
  BY <1>1 DEF Rooms
<1>8. req'[Purger].at \notin {"idle", "opening"} => inode'[req'[Purger].mailbox] # 0
  <2>1. req'[Purger] = req[Purger] /\ req[Purger].at # "idle" => req[Purger].mailbox \in Mailbox
    BY Kinds, ServerThread
  <2>2. QED  BY <1>1, <2>1 DEF Rooms
<1>9. up => \A b \in live : Home[b] \in index'
  BY DEF Rooms
<1>10. QED  BY <1>2, <1>3, <1>4, <1>6, <1>7, <1>8, <1>9 DEF Rooms

LEMMA AdvanceRooms == ASSUME Types, Rooms, NEW t \in Server, Advance(t) PROVE Rooms'
<1>1. CASE Created(t)
  <2> DEFINE m == req[t].mailbox
             g == IF "lock" \in dir[m] THEN inode[m] ELSE inode[m] + 1
  <2>1. /\ m \in Mailbox /\ t \in Thread /\ Becomes(t, Idle) /\ index' = index \cup {m}
        /\ dir' = [dir EXCEPT ![m] = @ \cup {"lock"}] /\ inode' = [inode EXCEPT ![m] = g]
    BY <1>1, CreatedLemma
  <2>2. g \in Nat /\ g # 0
    BY <2>1 DEF Types, Rooms
  <2>3. /\ \A u \in Thread : req'[u] = req[u] \/ req'[u].at = "idle"
        /\ req'[Purger] = req[Purger]
    BY <2>1, IdleLemma, ServerThread DEF Becomes
  <2>4. UNCHANGED <<up, tmp, live, fresh>>
    BY <1>1 DEF Created
  <2> HIDE DEF g
  <2>5. QED  BY <2>1, <2>2, <2>3, <2>4, LockMade
<1>2. CASE Open(t)
  <2> DEFINE m == req[t].mailbox
  <2>1. req[t].at = "opening" /\ m \in Mailbox /\ UNCHANGED <<up, index, live, fresh>>
    BY <1>2, OpenLemma DEF Open
  <2>2. CASE /\ MovesTo(t, "waiting") /\ tmp' = tmp /\ dir' = [dir EXCEPT ![m] = @ \cup {"lock"}]
             /\ \E g \in Nat : inode' = [inode EXCEPT ![m] = g]
                             /\ g = IF "lock" \in dir[m] THEN inode[m] ELSE inode[m] + 1
    <3>1. PICK g \in Nat : inode' = [inode EXCEPT ![m] = g]
                            /\ g = IF "lock" \in dir[m] THEN inode[m] ELSE inode[m] + 1
      BY <2>2
    <3>2. g # 0
      BY <2>1, <3>1 DEF Types, Rooms
    <3>3. t \in Thread => m \in fresh \cap index
      BY <2>1 DEF Rooms
    <3>4. PICK r : Becomes(t, r) /\ r.at = "waiting" /\ r.mailbox = m
      BY <2>2 DEF MovesTo
    <3>5. /\ \A u \in Thread : req'[u] = req[u] \/ req'[u].mailbox \in fresh \cap index
          /\ \/ req'[Purger] = req[Purger]
             \/ req'[Purger].at = "waiting" /\ req'[Purger].mailbox = m
      BY <3>3, <3>4, ServerThread DEF Becomes
    <3>6. QED  BY <2>1, <2>2, <3>1, <3>2, <3>5, LockMade
  <2>3. CASE Becomes(t, Idle) /\ Discard(t) /\ dir' = dir /\ inode' = inode
    BY <2>1, <2>3, IdleSettled, DiscardLemma, SettledRooms
  <2>4. QED  BY <1>2, <2>2, <2>3, OpenLemma
<1>3. CASE Stage(t)
  <2>1. /\ req[t].at = "staging" /\ t \in Thread /\ Home[req[t].blob] = req[t].mailbox
        /\ (MovesTo(t, "opening") \/ Becomes(t, Idle)) /\ tmp' \subseteq tmp \cup {req[t].blob}
    BY <1>3, StageLemma, Kinds
  <2>2. Settled
    BY <2>1, MovesSettled, IdleSettled, ServerThread
  <2>3. Home[req[t].blob] \in fresh
    BY <2>1 DEF Rooms
  <2>4. UNCHANGED <<up, index, dir, inode, fresh, live>>
    BY <1>3 DEF Stage
  <2>5. QED  BY <2>1, <2>2, <2>3, <2>4, SettledRooms
<1>4. CASE Enter(t)
  <2>1. req[t].at = "waiting" /\ MovesTo(t, "inside") /\ Settled
    BY <1>4, EnterLemma, MovesSettled
  <2>2. fresh' = fresh
    <3>1. CASE t \in Thread
      <4>1. req[t].mailbox \in fresh
        BY <2>1, <3>1 DEF Rooms
      <4>2. QED  BY <1>4, <4>1, EnterLemma
    <3>2. CASE t = Purger
      BY <1>4, <2>1, <3>2, EnterLemma, Kinds
    <3>3. QED  BY <3>1, <3>2 DEF Server
  <2>3. UNCHANGED <<up, index, dir, inode, live, tmp>>
    BY <1>4 DEF Enter, files
  <2>4. QED  BY <2>1, <2>2, <2>3, SettledRooms
<1>5. CASE Consult(t)
  <2>1. req[t].at = "inside" /\ (MovesTo(t, "funding") \/ Becomes(t, Idle)) /\ tmp' \subseteq tmp
    BY <1>5, ConsultLemma, DiscardLemma
  <2>2. Settled
    BY <2>1, MovesSettled, IdleSettled
  <2>3. UNCHANGED <<up, index, dir, inode, fresh, live>>
    BY <1>5 DEF Consult
  <2>4. QED  BY <2>1, <2>2, <2>3, SettledRooms
<1>6. CASE Commit(t)
  <2>1. UNCHANGED <<up, index, dir, inode, fresh>> /\ req[t].at = "funding"
    BY <1>6 DEF Commit
  <2>2. CASE Appears(t, req[t].blob) /\ MovesTo(t, "counting")
    <3>1. /\ t \in Thread /\ Home[req[t].blob] = req[t].mailbox
          /\ live' = live \cup {req[t].blob} /\ tmp' \subseteq tmp
      BY <2>2 DEF Appears
    <3>2. Home[req[t].blob] \in fresh \cap index
      BY <2>1, <3>1 DEF Rooms
    <3>3. Settled
      BY <2>1, <2>2, <3>1, MovesSettled, ServerThread
    <3>4. QED  BY <2>1, <3>1, <3>2, <3>3, SettledRooms
  <2>3. CASE Becomes(t, Idle) /\ Discard(t) /\ live' = live
    BY <2>1, <2>3, IdleSettled, DiscardLemma, SettledRooms
  <2>4. QED  BY <1>6, <2>2, <2>3, CommitLemma
<1>7. CASE Remove(t)
  <2>1. UNCHANGED <<up, index, dir, inode, fresh, tmp>> /\ req[t].at = "funding" /\ live' \subseteq live
    BY <1>7 DEF Remove
  <2>2. MovesTo(t, "counting") \/ Becomes(t, Idle)
    BY <1>7, RemoveLemma
  <2>3. Settled
    BY <2>1, <2>2, MovesSettled, IdleSettled
  <2>4. QED  BY <2>1, <2>3, SettledRooms
<1>8. CASE Count(t)
  <2>1. UNCHANGED <<up, index, dir, inode, fresh, tmp, live>> /\ req[t].at = "counting"
    BY <1>8 DEF Count
  <2>2. MovesTo(t, "inside") \/ Becomes(t, Idle)
    BY <1>8, CountLemma
  <2>3. Settled
    BY <2>1, <2>2, MovesSettled, IdleSettled
  <2>4. QED  BY <2>1, <2>3, SettledRooms
<1>9. QED  BY <1>1, <1>2, <1>3, <1>4, <1>5, <1>6, <1>7, <1>8 DEF Advance

\* What is owned is in a mailbox in use.
LEMMA OwnedInUse ==
  ASSUME Types, Rooms, NEW b \in Owned
  PROVE  Home[b] \in fresh
<1>1. PICK t \in Thread : req[t].at # "idle" /\ req[t].op = "add" /\ b = req[t].blob
  BY DEF Owned
<1>2. Home[b] = req[t].mailbox
  BY <1>1, Kinds, ServerThread
<1>3. QED  BY <1>1, <1>2 DEF Rooms

\* The rmtree of an empty mailbox takes nothing but its names.
LEMMA UnlinkNames ==
  ASSUME Types, Rooms, NEW m \in Mailbox, NEW part, Unlink(m, part)
  PROVE  /\ Doomed(m) /\ tmp' = tmp /\ live' = live
         /\ \A n \in Mailbox : (n # m => dir'[n] = dir[n]) /\ dir'[n] \subseteq dir[n]
<1>1. Doomed(m)
  BY DEF Unlink, Doomed
<1>2. In(m, tmp) = {} /\ In(m, live) = {}
  BY <1>1 DEF Rooms, In
<1>3. QED  BY <1>1, <1>2 DEF Unlink, Types

LEMMA PurgeRooms ==
  ASSUME Types, Rooms, Tmps, NEW m \in Mailbox, PurgeMailbox(m) \/ PurgeStep(m) PROVE Rooms'
<1>0. Purger \in Server
  BY ServerThread
<1>1. CASE PurgeMailbox(m)
  <2>1. Settled
    BY <1>1, PurgeLemma, ServerThread DEF Becomes, Settled
  <2>2. UNCHANGED <<up, index, dir, inode, fresh, tmp, live>>
    BY <1>1 DEF PurgeMailbox, files
  <2>3. QED  BY <2>1, <2>2, SettledRooms
<1>2. CASE \E b \in Blob : PurgeBlob(b)
  <2>1. PICK b \in Blob : PurgeBlob(b)
    BY <1>2
  <2>2. UNCHANGED <<up, index, dir, inode, fresh, tmp>> /\ live' \subseteq live /\ req[Purger].at = "inside"
    BY <2>1 DEF PurgeBlob, Purging
  <2>3. Settled
    BY <1>0, <2>1, <2>2, PurgeBlobLemma, MovesSettled
  <2>4. QED  BY <2>2, <2>3, SettledRooms
<1>3. CASE Judge(m)
  <2>1. /\ UNCHANGED <<up, index, dir, inode, fresh, live>> /\ tmp' \subseteq tmp
        /\ req[Purger].at = "inside" /\ req[Purger].mailbox = m
    BY <1>3 DEF Judge, Purging
  <2>2. CASE Becomes(Purger, Idle)
    BY <1>0, <2>1, <2>2, IdleSettled, SettledRooms
  <2>3. CASE MovesTo(Purger, "condemned") /\ Reclaimable(m)
    <3>1. PICK r : Becomes(Purger, r) /\ r.at = "condemned" /\ r.mailbox = m
      BY <2>1, <2>3 DEF MovesTo
    <3>2. (\A u \in Thread : req'[u] = req[u]) /\ req'[Purger] = r
      BY <3>1, ServerThread DEF Becomes
    <3>3. m \notin fresh /\ \A b \in live : Home[b] # m
      BY <2>3 DEF Reclaimable, In
    <3>4. \A b \in tmp : Home[b] # m
      <4>1. up
        BY <1>0, <2>1, UpLemma
      <4>2. QED  BY <3>3, <4>1, OwnedInUse DEF Tmps
    <3>5. \A n \in Mailbox : Doomed(n)' => n = m
      BY <3>1, <3>2 DEF Doomed
    <3>6. inode[m] # 0
      BY <2>1 DEF Rooms
    <3>7. QED  BY <2>1, <3>1, <3>2, <3>3, <3>4, <3>5, <3>6 DEF Rooms
  <2>4. Becomes(Purger, Idle) \/ (MovesTo(Purger, "condemned") /\ Reclaimable(m))
    <3>1. Finish(Purger) \/ (Goto(Purger, "condemned") /\ Reclaimable(m))
      BY <1>3 DEF Judge
    <3>2. CASE Finish(Purger)
      BY <1>0, <3>2, FinishLemma
    <3>3. CASE Goto(Purger, "condemned") /\ Reclaimable(m)
      <4>1. req[Purger] \in Sweeping
        BY <1>0, <2>1, Kinds, ServerThread DEF PurgeWork, Idle, Removing
      <4>2. QED  BY <1>0, <3>3, <4>1, GotoLemma
    <3>4. QED  BY <3>1, <3>2, <3>3
  <2>5. QED  BY <2>2, <2>3, <2>4
<1>4. CASE Unindex(m) \/ \E part \in Parts \cup {"contents"} : Unlink(m, part)
  <2>1. /\ UNCHANGED <<up, inode, fresh, tmp, live>> /\ Doomed(m)
        /\ \A n \in Mailbox : (n # m => dir'[n] = dir[n]) /\ dir'[n] \subseteq dir[n]
        /\ index' = index \/ index' = index \ {m}
    <3>1. CASE Unindex(m)
      BY <3>1 DEF Unindex, Doomed, files, Types
    <3>2. CASE \E part \in Parts \cup {"contents"} : Unlink(m, part)
      <4>1. PICK part : Unlink(m, part)
        BY <3>2
      <4>2. QED  BY <4>1, UnlinkNames DEF Unlink
    <3>3. QED  BY <1>4, <3>1, <3>2
  <2>2. PICK r : Becomes(Purger, r) /\ r.at = "removing" /\ r.mailbox = m
    <3>1. MovesTo(Purger, "removing")
      BY <1>4, PurgeLemma
    <3>2. QED  BY <2>1, <3>1 DEF MovesTo, Doomed
  <2>3. (\A u \in Thread : req'[u] = req[u]) /\ req'[Purger] = r
    BY <2>2, ServerThread DEF Becomes
  <2>4. m \notin fresh /\ (\A b \in live \cup tmp : Home[b] # m) /\ inode[m] # 0
    BY <2>1 DEF Rooms, Doomed
  <2>5. \A n \in Mailbox : Doomed(n)' <=> n = m
    BY <2>2, <2>3 DEF Doomed
  <2>6. \A t \in Thread : req'[t].at # "idle" =>
          req'[t].mailbox \in fresh /\ (req'[t].at # "creating" => req'[t].mailbox \in index')
    BY <2>1, <2>3, <2>4 DEF Rooms
  <2>7. \A n \in fresh : {"root", "blobs", "meta"} \subseteq dir'[n]
    BY <2>1, <2>4 DEF Rooms, Types
  <2>8. \A b \in live \cup tmp : {"blobs", "meta"} \subseteq dir'[Home[b]]
    BY <2>1, <2>4, InUse DEF Rooms, Types
  <2>9. up => \A b \in live : Home[b] \in index'
    BY <2>1, <2>4 DEF Rooms
  <2>10. \A n \in Mailbox : "lock" \in dir'[n] => inode[n] # 0
    BY <2>1 DEF Rooms
  <2>11. QED  BY <2>1, <2>2, <2>3, <2>4, <2>5, <2>6, <2>7, <2>8, <2>9, <2>10 DEF Rooms
<1>5. CASE Unlinked(m)
  <2>1. /\ UNCHANGED <<up, index, inode, fresh, tmp, live>> /\ Doomed(m) /\ Becomes(Purger, Idle)
        /\ \A n \in Mailbox : (n # m => dir'[n] = dir[n]) /\ dir'[n] \subseteq dir[n]
    BY <1>5, PurgeLemma DEF Unlinked, Doomed, Types
  <2>2. (\A u \in Thread : req'[u] = req[u]) /\ req'[Purger].at = "idle"
    BY <2>1, IdleLemma, ServerThread DEF Becomes
  <2>3. m \notin fresh /\ (\A b \in live \cup tmp : Home[b] # m)
    BY <2>1 DEF Rooms
  <2>4. \A n \in fresh : {"root", "blobs", "meta"} \subseteq dir'[n]
    BY <2>1, <2>3 DEF Rooms, Types
  <2>5. \A b \in live \cup tmp : {"blobs", "meta"} \subseteq dir'[Home[b]]
    BY <2>1, <2>3, InUse DEF Rooms, Types
  <2>6. \A n \in Mailbox : "lock" \in dir'[n] => inode[n] # 0
    BY <2>1 DEF Rooms
  <2>7. QED  BY <2>1, <2>2, <2>4, <2>5, <2>6 DEF Rooms, Doomed
<1>6. QED  BY <1>1, <1>2, <1>3, <1>4, <1>5 DEF PurgeStep

LEMMA RestRooms ==
  ASSUME Types, Rooms,
         \/ \E b \in Blob : Expire(b)
         \/ \E m \in Mailbox : GoIdle(m)
         \/ Crash \/ Restart
         \/ UNCHANGED vars
  PROVE  Rooms'
<1>1. CASE (\E b \in Blob : Expire(b)) \/ UNCHANGED vars
  <2>1. UNCHANGED <<up, index, dir, inode, fresh, live, tmp, req>>
    BY <1>1 DEF Expire, vars, files
  <2>2. QED  BY <2>1, SettledRooms DEF Settled
<1>2. CASE \E m \in Mailbox : GoIdle(m)
  <2>1. PICK m \in Mailbox : GoIdle(m)
    BY <1>2
  <2>2. /\ UNCHANGED <<up, index, dir, inode, live, tmp, req>> /\ fresh' = fresh \ {m}
        /\ \A t \in Thread : req[t].at # "idle" => req[t].mailbox # m
    BY <2>1, ServerThread DEF GoIdle, files
  <2>3. QED  BY <2>2 DEF Rooms, Doomed
<1>3. CASE Crash
  <2>1. /\ UNCHANGED <<dir, live, tmp, fresh>> /\ up' = FALSE
        /\ \A t \in Server : req'[t].at = "idle"
    BY <1>3, IdleLemma DEF Crash
  <2>2. \A m \in Mailbox : inode[m] # 0 => inode'[m] # 0
    BY <1>3 DEF Crash
  <2>3. QED  BY <2>1, <2>2, ServerThread DEF Rooms, Doomed
<1>4. CASE Restart
  <2>1. /\ UNCHANGED <<dir, inode, live, fresh, req>> /\ tmp' \subseteq tmp /\ index' = Known
        /\ \A t \in Server : req[t].at = "idle"
    BY <1>4, IdleLemma DEF Restart, Types
  <2>2. \A b \in live : Home[b] \in Known
    BY InUse DEF Rooms, Known, Types
  <2>3. QED  BY <2>1, <2>2, ServerThread DEF Rooms, Doomed
<1>5. QED  BY <1>1, <1>2, <1>3, <1>4

-----------------------------------------------------------------------------
(* The temporary files. *)

LEMMA TmpsKeep ==
  ASSUME Types, Tmps, NEW t \in Server, NEW r, Becomes(t, r), up' = up, tmp' \subseteq tmp,
         r.at \in {"staging", "counting"} /\ r.op = "add" => r.blob \notin tmp',
         Adding(t) /\ req[t].blob \in tmp' => r.at # "idle" /\ r.op = "add" /\ r.blob = req[t].blob
  PROVE  Tmps'
<1>1. (\A u \in Server : u # t => req'[u] = req[u]) /\ req'[t] = r
  BY DEF Becomes
<1>2. ASSUME up, NEW b \in tmp' PROVE \E u \in Thread : Adding(u)' /\ req'[u].blob = b
  <2>1. PICK u \in Thread : Adding(u) /\ req[u].blob = b
    BY <1>2 DEF Tmps, Owned, Adding
  <2>2. QED  BY <1>1, <1>2, <2>1, ServerThread DEF Adding
<1>3. (up => tmp \subseteq Owned)'
  BY <1>2 DEF Owned, Adding
<1>4. \A u \in Thread : Adding(u)' /\ req'[u].at \in {"staging", "counting"} => req'[u].blob \notin tmp'
  BY <1>1, ServerThread DEF Tmps, Adding
<1>5. QED  BY <1>3, <1>4 DEF Tmps

LEMMA InitTmps == Init => Tmps
BY InitRooms

LEMMA ArriveTmps == ASSUME Types, Ids, Tmps, NEW t \in Thread, Arrive(t) PROVE Tmps'
<1>1. t \in Server /\ ~ Adding(t) /\ up' = up /\ tmp' = tmp
  BY IdleLemma, ServerThread DEF Arrive, CreateMailbox, ListBlobs, PutBlob, TakeBlob, Authorised, Adding, files
<1>2. CASE \E b \in Blob : PutBlob(t, b)
  <2>1. PICK b \in Blob : PutBlob(t, b)
    BY <1>2
  <2>2. PICK r : Becomes(t, r) /\ r.blob = b
    BY <2>1, ArriveLemma
  <2>3. b \notin tmp
    BY <2>1 DEF PutBlob, Ids, Once
  <2>4. QED  BY <1>1, <2>2, <2>3, TmpsKeep
<1>3. CASE \/ \E m \in Mailbox : CreateMailbox(t, m) \/ ListBlobs(t, m)
           \/ \E b \in Blob : TakeBlob(t, "pull", b) \/ TakeBlob(t, "delete", b)
  <2>1. PICK r : Becomes(t, r) /\ r.at \in {"creating", "opening"} /\ r.op # "add"
    BY <1>3, ArriveLemma
  <2>2. QED  BY <1>1, <2>1, TmpsKeep
<1>4. QED  BY <1>2, <1>3 DEF Arrive

\* An upload that goes on keeps its file; one that ends has none.
LEMMA MovesTmps ==
  ASSUME Types, Tmps, NEW t \in Server, NEW x, MovesTo(t, x), up' = up, tmp' \subseteq tmp,
         x \notin {"idle", "staging"}, req[t].at # "idle",
         x = "counting" /\ req[t].op = "add" => req[t].blob \notin tmp'
  PROVE  Tmps'
<1>1. PICK r : /\ Becomes(t, r) /\ r.at = x /\ r.op = req[t].op
               /\ r.op \in {"add", "pull", "delete"} => r.blob = req[t].blob
  BY DEF MovesTo
<1>2. QED  BY <1>1, TmpsKeep DEF Adding

LEMMA EndsTmps ==
  ASSUME Types, Tmps, NEW t \in Server, Becomes(t, Idle), up' = up, tmp' \subseteq tmp,
         Adding(t) => req[t].blob \notin tmp'
  PROVE  Tmps'
BY TmpsKeep, IdleLemma

LEMMA AdvanceTmps == ASSUME Types, Ids, Tmps, NEW t \in Server, Advance(t) PROVE Tmps'
<1>1. CASE Created(t)
  <2>1. Becomes(t, Idle) /\ ~ Adding(t) /\ up' = up /\ tmp' = tmp
    BY <1>1, CreatedLemma, Kinds DEF Created, Adding, Creating
  <2>2. QED  BY <2>1, EndsTmps
<1>2. CASE Stage(t)
  <2>1. /\ t \in Thread /\ req[t].at = "staging" /\ Adding(t) /\ up' = up
        /\ \/ tmp' = tmp \cup {req[t].blob} /\ MovesTo(t, "opening")
           \/ tmp' = tmp /\ Becomes(t, Idle)
    BY <1>2, StageLemma DEF Adding, Stage
  <2>2. CASE tmp' = tmp /\ Becomes(t, Idle)
    BY <2>1, <2>2, EndsTmps DEF Tmps
  <2>3. CASE tmp' = tmp \cup {req[t].blob} /\ MovesTo(t, "opening")
    <3>1. PICK r : Becomes(t, r) /\ r.at = "opening" /\ r.op = "add" /\ r.blob = req[t].blob
      BY <2>1, <2>3 DEF MovesTo, Adding
    <3>2. (\A u \in Server : u # t => req'[u] = req[u]) /\ req'[t] = r
      BY <3>1 DEF Becomes
    <3>3. ASSUME up, NEW b \in tmp' PROVE \E u \in Thread : Adding(u)' /\ req'[u].blob = b
      <4>1. PICK u \in Thread : Adding(u) /\ req[u].blob = b
        BY <2>1, <2>3, <3>3 DEF Tmps, Owned, Adding
      <4>2. QED  BY <3>1, <3>2, <4>1, ServerThread DEF Adding
    <3>4. (up => tmp \subseteq Owned)'
      BY <2>1, <3>3 DEF Owned, Adding
    <3>5. ASSUME NEW u \in Thread, Adding(u)', req'[u].at \in {"staging", "counting"}
          PROVE  req'[u].blob \notin tmp'
      <4>1. u # t /\ req'[u] = req[u]
        BY <3>1, <3>2, <3>5, ServerThread
      <4>2. Adding(u) /\ req[u].blob # req[t].blob
        BY <2>1, <3>5, <4>1 DEF Ids, Uploads, Adding
      <4>3. QED  BY <2>3, <3>5, <4>1, <4>2 DEF Tmps
    <3>6. QED  BY <3>4, <3>5 DEF Tmps
  <2>4. QED  BY <2>1, <2>2, <2>3
<1>3. CASE Open(t)
  <2>1. /\ req[t].at = "opening" /\ up' = up
        /\ (MovesTo(t, "waiting") /\ tmp' = tmp) \/ (Becomes(t, Idle) /\ Discard(t))
    BY <1>3, OpenLemma DEF Open
  <2>2. QED  BY <2>1, MovesTmps, EndsTmps, DiscardLemma DEF Adding
<1>4. CASE Enter(t)
  <2>1. req[t].at = "waiting" /\ MovesTo(t, "inside") /\ up' = up /\ tmp' = tmp
    BY <1>4, EnterLemma DEF Enter, files
  <2>2. QED  BY <2>1, MovesTmps
<1>5. CASE Consult(t)
  <2>1. /\ req[t].at = "inside" /\ up' = up
        /\ (MovesTo(t, "funding") /\ tmp' = tmp) \/ (Becomes(t, Idle) /\ Discard(t))
    BY <1>5, ConsultLemma DEF Consult
  <2>2. QED  BY <2>1, MovesTmps, EndsTmps, DiscardLemma DEF Adding
<1>6. CASE Commit(t)
  <2>1. req[t].at = "funding" /\ up' = up
    BY <1>6 DEF Commit
  <2>2. CASE Appears(t, req[t].blob) /\ MovesTo(t, "counting")
    BY <2>1, <2>2, MovesTmps DEF Appears
  <2>3. CASE Becomes(t, Idle) /\ Discard(t)
    BY <2>1, <2>3, EndsTmps, DiscardLemma DEF Adding
  <2>4. QED  BY <1>6, <2>2, <2>3, CommitLemma
<1>7. CASE Remove(t)
  <2>1. /\ req[t].at = "funding" /\ req[t].op # "add" /\ up' = up /\ tmp' = tmp
        /\ MovesTo(t, "counting") \/ Becomes(t, Idle)
    BY <1>7, RemoveLemma DEF Remove
  <2>2. QED  BY <2>1, MovesTmps, EndsTmps DEF Adding
<1>8. CASE Count(t)
  <2>1. /\ req[t].at = "counting" /\ up' = up /\ tmp' = tmp
        /\ MovesTo(t, "inside") \/ (Becomes(t, Idle) /\ t \in Thread)
    BY <1>8, CountLemma DEF Count
  <2>2. QED  BY <2>1, MovesTmps, EndsTmps DEF Tmps
<1>9. QED  BY <1>1, <1>2, <1>3, <1>4, <1>5, <1>6, <1>7, <1>8 DEF Advance

LEMMA PurgeTmps ==
  ASSUME Types, Tmps, NEW m \in Mailbox, PurgeMailbox(m) \/ PurgeStep(m) PROVE Tmps'
<1>1. ~ Adding(Purger)
  BY Kinds, ServerThread DEF Adding
<1>2. \E r : Becomes(Purger, r) /\ (r.at = "idle" \/ r.op = "purge")
  <2>1. CASE PurgeMailbox(m)
    BY <2>1, PurgeLemma
  <2>2. CASE Unlinked(m)
    BY <2>2, PurgeLemma, IdleLemma
  <2>3. CASE PurgeStep(m) /\ ~ Unlinked(m)
    <3>1. req[Purger].op = "purge"
      BY <2>3, Kinds, ServerThread DEF PurgeStep, PurgeBlob, Judge, Purging, Unindex, Unlink
    <3>2. Becomes(Purger, Idle) \/ \E x : MovesTo(Purger, x)
      BY <2>3, PurgeLemma, PurgeBlobLemma DEF PurgeStep
    <3>3. QED  BY <3>1, <3>2, IdleLemma DEF MovesTo
  <2>4. QED  BY <2>1, <2>2, <2>3
<1>3. up' = up /\ tmp' \subseteq tmp
  BY DEF PurgeMailbox, PurgeStep, PurgeBlob, Judge, Unindex, Unlink, Unlinked, files
<1>4. QED  BY <1>1, <1>2, <1>3, TmpsKeep, ServerThread

LEMMA RestTmps ==
  ASSUME Types, Tmps, Rooms \/ ~ Crashes,
         \/ \E b \in Blob : Expire(b)
         \/ \E m \in Mailbox : GoIdle(m)
         \/ Crash \/ Restart
         \/ UNCHANGED vars
  PROVE  Tmps'
<1>1. CASE (\E b \in Blob : Expire(b)) \/ (\E m \in Mailbox : GoIdle(m)) \/ UNCHANGED vars
  BY <1>1 DEF Expire, GoIdle, vars, files, Tmps, Owned, Adding
<1>2. CASE Crash
  BY <1>2, IdleLemma, ServerThread DEF Crash, Tmps, Adding
<1>3. CASE Restart
  <2>1. ~ up /\ Crashes
    BY <1>3 DEF Restart, Types
  <2>2. Seen(tmp) = tmp
    BY <2>1 DEF Rooms, Seen
  <2>3. tmp' = {}
    BY <1>3, <2>2 DEF Restart
  <2>4. QED  BY <2>3 DEF Tmps
<1>4. QED  BY <1>1, <1>2, <1>3

-----------------------------------------------------------------------------
(* The ledger. *)

\* What the ledger says once whoever holds its lock has written.
Owed ==
  IF LedgerLockFree THEN ledger
  ELSE IF \E t \in Server : Counting(t) /\ req[t].op = "add" THEN ledger + 1
  ELSE ledger - 1

Capped ==
  /\ Cardinality(live) <= MaxTotal
  /\ up => Cardinality(live) <= Owed /\ Owed <= MaxTotal

Exact == up => Cardinality(live) = Owed

LEMMA LiveIsFinite ==
  ASSUME Types
  PROVE  /\ \A S : S \subseteq live => IsFiniteSet(S) /\ Cardinality(S) \in Nat /\ Cardinality(S) <= Cardinality(live)
         /\ Cardinality(live) \in Nat
         /\ \A b : b \notin live => Cardinality(live \cup {b}) = Cardinality(live) + 1
         /\ \A b \in live : Cardinality(live \ {b}) = Cardinality(live) - 1
<1>1. IsFiniteSet(live)
  BY StoreAssumption, FS_Subset DEF Types
<1>2. QED  BY <1>1, FS_Subset, FS_CardinalityType, FS_AddElement, FS_RemoveElement

\* Who counts what is as it was.
LEMMA OwedStays ==
  ASSUME ledger' = ledger,
         \A t \in Server : \/ Counting(t) /\ req'[t] = req[t]
                           \/ ~ Counting(t) /\ req'[t].at # "counting"
  PROVE  Owed' = Owed
<1>1. LedgerLockFree' = LedgerLockFree
  BY DEF LedgerLockFree, Counting
<1>2. (\E t \in Server : Counting(t) /\ req[t].op = "add")' = (\E t \in Server : Counting(t) /\ req[t].op = "add")
  BY DEF Counting
<1>3. QED  BY <1>1, <1>2 DEF Owed

\* One request moves, outside the ledger's lock before and after.
LEMMA OwedMoves ==
  ASSUME Types, NEW t \in Server, NEW r, Becomes(t, r), r.at # "counting", req[t].at # "counting",
         ledger' = ledger
  PROVE  Owed' = Owed
BY OwedStays DEF Becomes, Counting

LEMMA OwedBegins ==
  ASSUME Types, NEW t \in Server, LedgerLockFree, MovesTo(t, "counting"), ledger' = ledger
  PROVE  /\ Owed = ledger
         /\ Owed' = IF req[t].op = "add" THEN ledger + 1 ELSE ledger - 1
<1>1. /\ \A u \in Server : u # t => req'[u] = req[u]
      /\ req'[t].at = "counting" /\ req'[t].op = req[t].op
  BY DEF MovesTo, Becomes
<1>2. \A u \in Server : req'[u].at = "counting" <=> u = t
  BY <1>1 DEF LedgerLockFree
<1>3. QED  BY <1>1, <1>2 DEF Owed, LedgerLockFree, Counting

LEMMA OwedEnds ==
  ASSUME Types, Ids, NEW t \in Server, Count(t), 0 <= Owed
  PROVE  Owed' = Owed
<1>1. /\ req[t].at = "counting"
      /\ ledger' = IF req[t].op = "add" THEN ledger + 1 ELSE IF ledger = 0 THEN 0 ELSE ledger - 1
  BY DEF Count
<1>2. \A u \in Server : Counting(u) <=> u = t
  BY <1>1 DEF Ids, OneCounts, Counting
<1>3. \A u \in Server : req'[u].at # "counting"
  <2>1. (\A u \in Server : u # t => req'[u] = req[u]) /\ req'[t].at # "counting"
    BY CountLemma, IdleLemma DEF Becomes, MovesTo
  <2>2. QED  BY <1>2, <2>1 DEF Counting
<1>4. Owed' = ledger'
  BY <1>3 DEF Owed, LedgerLockFree
<1>5. Owed = IF req[t].op = "add" THEN ledger + 1 ELSE ledger - 1
  BY <1>1, <1>2 DEF Owed, LedgerLockFree, Counting
<1>6. ledger \in Nat
  BY DEF Types
<1>7. QED  BY <1>1, <1>4, <1>5, <1>6

\* A step of the running server: what is on the disk and what is owed go
\* together, except that rmtree may take blobs nobody counts.
Balanced ==
  /\ up' = up
  /\ \/ Owed' = Owed /\ live' \subseteq live
     \/ /\ LedgerLockFree /\ ledger < MaxTotal /\ Owed = ledger /\ Owed' = ledger + 1
        /\ \E b : b \notin live /\ live' = live \cup {b}
     \/ /\ LedgerLockFree /\ Owed = ledger /\ Owed' = ledger - 1
        /\ \E b \in live : live' = live \ {b}

LEMMA BalancedCapped ==
  ASSUME Types, Capped, up, Balanced
  PROVE  Capped'
<1>1. ledger \in Nat /\ MaxTotal \in Nat /\ Cardinality(live) \in Nat
  BY StoreAssumption, LiveIsFinite DEF Types
<1>2. CASE Owed' = Owed /\ live' \subseteq live
  <2>1. Cardinality(live') \in Nat /\ Cardinality(live') <= Cardinality(live)
    BY <1>2, LiveIsFinite
  <2>2. Owed \in Int
    BY <1>1 DEF Owed
  <2>3. QED  BY <1>1, <1>2, <2>1, <2>2 DEF Capped
<1>3. CASE /\ ledger < MaxTotal /\ Owed = ledger /\ Owed' = ledger + 1
           /\ \E b : b \notin live /\ live' = live \cup {b}
  <2>1. Cardinality(live') = Cardinality(live) + 1
    BY <1>3, LiveIsFinite
  <2>2. QED  BY <1>1, <1>3, <2>1 DEF Capped
<1>4. CASE Owed = ledger /\ Owed' = ledger - 1 /\ \E b \in live : live' = live \ {b}
  <2>1. Cardinality(live') = Cardinality(live) - 1
    BY <1>4, LiveIsFinite
  <2>2. QED  BY <1>1, <1>4, <2>1 DEF Capped
<1>5. QED  BY <1>2, <1>3, <1>4 DEF Balanced

LEMMA BalancedExact ==
  ASSUME Types, Exact, up, Balanced, Owed' = Owed => live' = live
  PROVE  Exact'
<1>1. ledger \in Nat /\ Cardinality(live) \in Nat
  BY LiveIsFinite DEF Types
<1>2. CASE Owed' = Owed
  BY <1>2 DEF Exact
<1>3. CASE /\ Owed = ledger /\ Owed' = ledger + 1
           /\ \E b : b \notin live /\ live' = live \cup {b}
  BY <1>1, <1>3, LiveIsFinite DEF Exact
<1>4. CASE Owed = ledger /\ Owed' = ledger - 1 /\ \E b \in live : live' = live \ {b}
  BY <1>1, <1>4, LiveIsFinite DEF Exact
<1>5. QED  BY <1>2, <1>3, <1>4 DEF Balanced

\* The two ends of a count, and a step that counts nothing.
LEMMA AppearsBalanced ==
  ASSUME Types, Ids, LedgerLockFree, NEW t \in Thread, NEW b, Appears(t, b),
         MovesTo(t, "counting"), up' = up, ledger' = ledger
  PROVE  Balanced
<1>1. /\ t \in Server /\ req[t].op = "add" /\ b \notin live /\ ledger < MaxTotal /\ live' = live \cup {b}
  BY ServerThread DEF Appears, Ids, Uploads, Adding, Counting
<1>2. Owed = ledger /\ Owed' = ledger + 1
  BY <1>1, OwedBegins
<1>3. QED  BY <1>1, <1>2 DEF Balanced

LEMMA VanishesBalanced ==
  ASSUME Types, LedgerLockFree, NEW t \in Server, NEW b, Vanishes(t, b),
         MovesTo(t, "counting"), up' = up, ledger' = ledger
  PROVE  Balanced
<1>1. req[t].op # "add" /\ b \in live /\ live' = live \ {b}
  BY Kinds, ServerThread DEF Vanishes
<1>2. Owed = ledger /\ Owed' = ledger - 1
  BY <1>1, OwedBegins
<1>3. QED  BY <1>1, <1>2 DEF Balanced

LEMMA ArriveBalanced ==
  ASSUME Types, NEW t \in Thread, Arrive(t)
  PROVE  Balanced /\ live' = live
<1>1. PICK r : Becomes(t, r) /\ r.at # "counting"
  BY ArriveLemma DEF Arrive
<1>2. t \in Server /\ req[t].at # "counting" /\ UNCHANGED <<up, live, ledger>>
  BY IdleLemma, ServerThread DEF Arrive, CreateMailbox, ListBlobs, PutBlob, TakeBlob, Authorised, files
<1>3. QED  BY <1>1, <1>2, OwedMoves DEF Balanced

LEMMA AdvanceBalanced ==
  ASSUME Types, Ids, 0 <= Owed, NEW t \in Server, Advance(t)
  PROVE  Balanced /\ (Owed' = Owed => live' = live)
<1>1. CASE Created(t) \/ Stage(t) \/ Open(t) \/ Enter(t) \/ Consult(t)
  <2>1. UNCHANGED <<up, live, ledger>> /\ req[t].at # "counting"
    BY <1>1 DEF Created, Stage, Open, Enter, Consult, files
  <2>2. PICK r : Becomes(t, r) /\ r.at # "counting"
    BY <1>1, CreatedLemma, StageLemma, OpenLemma, EnterLemma, ConsultLemma, IdleLemma DEF MovesTo
  <2>3. QED  BY <2>1, <2>2, OwedMoves DEF Balanced
<1>2. CASE Commit(t)
  <2>1. UNCHANGED <<up, ledger>> /\ ledger \in Nat /\ req[t].at # "counting" /\ LedgerLockFree
    BY <1>2, CommitLemma DEF Commit, Types
  <2>2. CASE Appears(t, req[t].blob) /\ MovesTo(t, "counting")
    <3>1. Balanced
      BY <2>1, <2>2, AppearsBalanced DEF Appears
    <3>2. req[t].op = "add" /\ Owed' # Owed
      BY <2>1, <2>2, OwedBegins DEF Appears
    <3>3. QED  BY <3>1, <3>2
  <2>3. CASE Becomes(t, Idle) /\ live' = live
    BY <2>1, <2>3, OwedMoves, IdleLemma DEF Balanced
  <2>4. QED  BY <1>2, <2>2, <2>3, CommitLemma
<1>3. CASE Remove(t)
  <2>1. /\ UNCHANGED <<up, ledger>> /\ ledger \in Nat /\ req[t].at # "counting" /\ LedgerLockFree
        /\ req[t].op # "add"
    BY <1>3, RemoveLemma DEF Remove, Types
  <2>2. CASE Vanishes(t, req[t].blob) /\ MovesTo(t, "counting")
    <3>1. Balanced
      BY <2>1, <2>2, VanishesBalanced
    <3>2. Owed' # Owed
      BY <2>1, <2>2, OwedBegins
    <3>3. QED  BY <3>1, <3>2
  <2>3. CASE Becomes(t, Idle) /\ live' = live
    BY <2>1, <2>3, OwedMoves, IdleLemma DEF Balanced
  <2>4. QED  BY <1>3, <2>2, <2>3, RemoveLemma
<1>4. CASE Count(t)
  <2>1. UNCHANGED <<up, live>>
    BY <1>4 DEF Count
  <2>2. QED  BY <1>4, <2>1, OwedEnds DEF Balanced
<1>5. QED  BY <1>1, <1>2, <1>3, <1>4 DEF Advance

LEMMA PurgeBalanced ==
  ASSUME Types, NEW m \in Mailbox, PurgeMailbox(m) \/ PurgeStep(m)
  PROVE  Balanced /\ (Rooms /\ Owed' = Owed => live' = live)
<1>1. CASE \E b \in Blob : PurgeBlob(b)
  <2>1. PICK b \in Blob : PurgeBlob(b)
    BY <1>1
  <2>2. UNCHANGED <<up, ledger>> /\ ledger \in Nat
    BY <2>1 DEF PurgeBlob, Types
  <2>3. /\ Purger \in Server /\ LedgerLockFree /\ Vanishes(Purger, b) /\ MovesTo(Purger, "counting")
    BY <2>1, PurgeBlobLemma
  <2>4. req[Purger].op # "add"
    BY <2>3, Kinds, ServerThread DEF Vanishes
  <2>5. Owed' # Owed
    BY <2>2, <2>3, <2>4, OwedBegins
  <2>6. QED  BY <2>2, <2>3, <2>5, VanishesBalanced
<1>2. CASE PurgeMailbox(m) \/ Judge(m) \/ Unindex(m) \/ Unlinked(m)
  <2>1. UNCHANGED <<up, live, ledger>> /\ req[Purger].at # "counting"
    BY <1>2, IdleLemma, ServerThread DEF PurgeMailbox, Judge, Purging, Unindex, Unlinked, files
  <2>2. PICK r : Becomes(Purger, r) /\ r.at # "counting"
    BY <1>2, PurgeLemma, IdleLemma DEF MovesTo
  <2>3. QED  BY <2>1, <2>2, OwedMoves, ServerThread DEF Balanced
<1>3. CASE \E part \in Parts \cup {"contents"} : Unlink(m, part)
  <2>1. PICK part : Unlink(m, part)
    BY <1>3
  <2>2. UNCHANGED <<up, ledger>> /\ live' \subseteq live /\ req[Purger].at # "counting"
    BY <2>1 DEF Unlink
  <2>3. PICK r : Becomes(Purger, r) /\ r.at # "counting"
    BY <2>1, PurgeLemma DEF MovesTo
  <2>4. QED  BY <2>1, <2>2, <2>3, OwedMoves, ServerThread, UnlinkNames DEF Balanced
<1>4. QED  BY <1>1, <1>2, <1>3 DEF PurgeStep

LEMMA RestBooks ==
  ASSUME Types,
         \/ \E b \in Blob : Expire(b)
         \/ \E m \in Mailbox : GoIdle(m)
         \/ Crash \/ Restart
         \/ UNCHANGED vars
  PROVE  /\ Capped /\ (Rooms \/ ~ Crashes) => Capped'
         /\ Exact /\ Rooms => Exact'
<1>1. CASE (\E b \in Blob : Expire(b)) \/ (\E m \in Mailbox : GoIdle(m)) \/ UNCHANGED vars
  <2>1. UNCHANGED <<up, live, ledger, req>>
    BY <1>1 DEF Expire, GoIdle, vars, files
  <2>2. Owed' = Owed
    BY <2>1, OwedStays DEF Counting
  <2>3. QED  BY <2>1, <2>2 DEF Capped, Exact
<1>2. CASE Crash
  BY <1>2 DEF Crash, Capped, Exact
<1>3. CASE Restart
  <2>1. /\ Crashes /\ live' = live /\ ledger' = Cardinality(Seen(live))
        /\ \A t \in Server : req'[t].at = "idle"
    BY <1>3, IdleLemma DEF Restart, Types
  <2>2. Owed' = ledger'
    BY <2>1 DEF Owed, LedgerLockFree
  <2>3. Rooms => Seen(live) = live
    BY DEF Rooms, Seen
  <2>4. QED  BY <2>1, <2>2, <2>3, LiveIsFinite, StoreAssumption DEF Capped, Exact
<1>4. QED  BY <1>1, <1>2, <1>3

-----------------------------------------------------------------------------
(* What was answered 201. *)

Kept ==
  /\ accepted \subseteq live \cup taken
  /\ \A t \in Thread : Counting(t) /\ req[t].op = "add" => req[t].blob \in live

\* Nothing is answered, nothing leaves the disk untold, and no upload counts.
LEMMA KeptStays ==
  ASSUME Kept, accepted' = accepted, live \cup taken \subseteq live' \cup taken',
         \A t \in Thread : Counting(t)' /\ req'[t].op = "add" =>
            \/ Counting(t) /\ req'[t] = req[t] /\ live \subseteq live'
            \/ req'[t].blob \in live'
  PROVE  Kept'
BY DEF Kept, Counting

LEMMA BecomesKept ==
  ASSUME Types, Kept, NEW t \in Server, NEW r, Becomes(t, r), r.at # "counting",
         accepted' = accepted, live' = live, taken' = taken
  PROVE  Kept'
<1>1. \A u \in Thread : Counting(u)' => req'[u] = req[u]
  BY ServerThread DEF Becomes, Counting
<1>2. QED  BY <1>1, KeptStays DEF Counting

LEMMA VanishesKept ==
  ASSUME Types, Kept, LedgerLockFree, NEW t \in Server, NEW b, Vanishes(t, b),
         MovesTo(t, "counting"), accepted' = accepted
  PROVE  Kept'
<1>1. req[t].op # "add" /\ live' = live \ {b} /\ taken' = taken \cup {b}
  BY Kinds, ServerThread DEF Vanishes
<1>2. \A u \in Thread : ~ (Counting(u)' /\ req'[u].op = "add")
  BY <1>1, ServerThread DEF MovesTo, Becomes, LedgerLockFree, Counting
<1>3. QED  BY <1>1, <1>2, KeptStays

LEMMA ArriveKept == ASSUME Types, Kept, NEW t \in Thread, Arrive(t) PROVE Kept'
<1>1. PICK r : Becomes(t, r) /\ r.at # "counting"
  BY ArriveLemma DEF Arrive
<1>2. t \in Server /\ UNCHANGED <<accepted, live, taken>>
  BY ServerThread DEF Arrive, CreateMailbox, ListBlobs, PutBlob, TakeBlob, files, history
<1>3. QED  BY <1>1, <1>2, BecomesKept

LEMMA AdvanceKept == ASSUME Types, Kept, NEW t \in Server, Advance(t) PROVE Kept'
<1>1. CASE Created(t) \/ Stage(t) \/ Open(t) \/ Enter(t) \/ Consult(t)
  <2>1. UNCHANGED <<accepted, live, taken>>
    BY <1>1 DEF Created, Stage, Open, Enter, Consult, files, history
  <2>2. PICK r : Becomes(t, r) /\ r.at # "counting"
    BY <1>1, CreatedLemma, StageLemma, OpenLemma, EnterLemma, ConsultLemma, IdleLemma DEF MovesTo
  <2>3. QED  BY <2>1, <2>2, BecomesKept
<1>2. CASE Commit(t)
  <2>1. accepted' = accepted
    BY <1>2 DEF Commit, history
  <2>2. CASE Appears(t, req[t].blob) /\ MovesTo(t, "counting")
    <3>1. /\ t \in Thread /\ live' = live \cup {req[t].blob} /\ taken' = taken /\ req[t].op = "add"
      BY <2>2 DEF Appears
    <3>2. /\ \A u \in Thread : u # t => req'[u] = req[u]
          /\ req'[t].blob = req[t].blob
      BY <2>2, <3>1, ServerThread DEF MovesTo, Becomes
    <3>3. QED  BY <2>1, <3>1, <3>2, KeptStays DEF Counting
  <2>3. CASE Becomes(t, Idle) /\ live' = live /\ taken' = taken
    BY <2>1, <2>3, BecomesKept, IdleLemma
  <2>4. QED  BY <1>2, <2>2, <2>3, CommitLemma
<1>3. CASE Remove(t)
  <2>1. accepted' = accepted
    BY <1>3 DEF Remove
  <2>2. CASE Vanishes(t, req[t].blob) /\ MovesTo(t, "counting")
    BY <1>3, <2>1, <2>2, RemoveLemma, VanishesKept
  <2>3. CASE Becomes(t, Idle) /\ live' = live /\ taken' = taken
    BY <2>1, <2>3, BecomesKept, IdleLemma
  <2>4. QED  BY <1>3, <2>2, <2>3, RemoveLemma
<1>4. CASE Count(t)
  <2>1. /\ UNCHANGED <<live, taken>> /\ req[t].at = "counting"
        /\ accepted' = IF req[t].op = "add" THEN accepted \cup {req[t].blob} ELSE accepted
    BY <1>4 DEF Count
  <2>2. req[t].op = "add" => t \in Thread
    BY <2>1, Kinds
  <2>3. accepted' \subseteq live \cup taken
    BY <2>1, <2>2 DEF Kept, Counting
  <2>4. \A u \in Thread : Counting(u)' => req'[u] = req[u]
    BY <1>4, CountLemma, IdleLemma, ServerThread DEF Becomes, MovesTo, Counting
  <2>5. QED  BY <2>1, <2>3, <2>4 DEF Kept, Counting
<1>5. QED  BY <1>1, <1>2, <1>3, <1>4 DEF Advance

LEMMA PurgeKept ==
  ASSUME Types, Rooms, Kept, NEW m \in Mailbox, PurgeMailbox(m) \/ PurgeStep(m) PROVE Kept'
<1>1. CASE \E b \in Blob : PurgeBlob(b)
  <2>1. PICK b \in Blob : PurgeBlob(b)
    BY <1>1
  <2>2. accepted' = accepted
    BY <2>1 DEF PurgeBlob
  <2>3. QED  BY <2>1, <2>2, PurgeBlobLemma, VanishesKept
<1>2. CASE \/ PurgeMailbox(m) \/ Judge(m) \/ Unindex(m) \/ Unlinked(m)
           \/ \E part \in Parts \cup {"contents"} : Unlink(m, part)
  <2>1. UNCHANGED <<accepted, taken>>
    BY <1>2 DEF PurgeMailbox, Judge, Unindex, Unlink, Unlinked, files, history
  <2>2. live' = live
    BY <1>2, UnlinkNames DEF PurgeMailbox, Judge, Unindex, Unlinked, files
  <2>3. PICK r : Becomes(Purger, r) /\ r.at # "counting"
    BY <1>2, PurgeLemma, IdleLemma DEF MovesTo
  <2>4. QED  BY <2>1, <2>2, <2>3, BecomesKept, ServerThread
<1>3. QED  BY <1>1, <1>2 DEF PurgeStep

LEMMA RestKept ==
  ASSUME Types, Kept,
         \/ \E b \in Blob : Expire(b)
         \/ \E m \in Mailbox : GoIdle(m)
         \/ Crash \/ Restart
         \/ UNCHANGED vars
  PROVE  Kept'
<1>1. UNCHANGED <<accepted, live, taken>>
  BY DEF Expire, GoIdle, Crash, Restart, vars, files, history
<1>2. \A t \in Thread : Counting(t)' => req'[t] = req[t]
  BY IdleLemma, ServerThread DEF Expire, GoIdle, Crash, Restart, vars, Counting, Idle
<1>3. QED  BY <1>1, <1>2, KeptStays DEF Counting

-----------------------------------------------------------------------------
(* The invariant. *)

IInv ==
  /\ Types /\ Ids
  /\ ~ Returns => Rooms /\ Exact /\ Kept
  /\ ~ Returns \/ ~ Crashes => Capped /\ Tmps

LEMMA InitIInv == Init => IInv
<1> SUFFICES ASSUME Init PROVE IInv
  OBVIOUS
<1>1. \A t \in Server : req[t].at = "idle"
  BY IdleLemma DEF Init
<1>2. Owed = 0 /\ Cardinality(live) = 0
  BY <1>1, FS_EmptySet DEF Init, Owed, LedgerLockFree
<1>3. Exact /\ Capped
  BY <1>2, StoreAssumption DEF Exact, Capped
<1>4. Kept
  BY <1>1, ServerThread DEF Init, Kept, Counting
<1>5. QED  BY <1>3, <1>4, InitTypes, InitIds, InitRooms DEF IInv

Rest ==
  \/ \E b \in Blob : Expire(b)
  \/ \E m \in Mailbox : GoIdle(m)
  \/ Crash \/ Restart
  \/ UNCHANGED vars

LEMMA NextIInv == ASSUME IInv, [Next]_vars PROVE IInv'
<1> USE DEF IInv
<1>1. \/ \E t \in Thread : Arrive(t)
      \/ \E t \in Server : Advance(t)
      \/ \E m \in Mailbox : PurgeMailbox(m) \/ PurgeStep(m)
      \/ Rest
  BY DEF Next, Rest
<1>2. Types' /\ Ids'
  BY NextTypes, NextIds
<1>3. ASSUME ~ Returns \/ ~ Crashes PROVE Tmps'
  <2>1. Tmps /\ (Rooms \/ ~ Crashes)
    BY <1>3
  <2>2. QED  BY <1>1, <2>1, ArriveTmps, AdvanceTmps, PurgeTmps, RestTmps DEF Rest
<1>4. ASSUME ~ Returns PROVE Rooms' /\ Kept'
  <2>1. Rooms /\ Kept /\ Tmps
    BY <1>4
  <2>2. Rooms'
    BY <1>1, <1>4, <2>1, ArriveRooms, AdvanceRooms, PurgeRooms, RestRooms DEF Rest
  <2>3. Kept'
    BY <1>1, <2>1, ArriveKept, AdvanceKept, PurgeKept, RestKept DEF Rest
  <2>4. QED  BY <2>2, <2>3
<1>5. ASSUME ~ Returns \/ ~ Crashes PROVE Capped' /\ (~ Returns => Exact')
  <2>1. Capped /\ (~ Returns => Rooms /\ Exact)
    BY <1>5
  <2>2. CASE Rest
    BY <1>5, <2>1, <2>2, RestBooks DEF Rest
  <2>3. CASE \/ \E t \in Thread : Arrive(t)
             \/ \E t \in Server : Advance(t)
             \/ \E m \in Mailbox : PurgeMailbox(m) \/ PurgeStep(m)
    <3>1. up
      BY <2>3, UpLemma, ServerThread DEF Arrive, CreateMailbox, ListBlobs, PutBlob, TakeBlob, Authorised,
           Advance, Created, Stage, Open, Enter, Consult, Commit, Remove, Count,
           PurgeMailbox, PurgeStep, PurgeBlob, Judge, Purging, Unindex, Unlink, Unlinked
    <3>2. 0 <= Owed
      <4>1. ledger \in Nat /\ Cardinality(live) \in Nat
        BY LiveIsFinite DEF Types
      <4>2. Owed \in Int
        BY <4>1 DEF Owed
      <4>3. QED  BY <2>1, <3>1, <4>1, <4>2 DEF Capped
    <3>3. Balanced /\ (Rooms /\ Owed' = Owed => live' = live)
      BY <2>3, <3>2, ArriveBalanced, AdvanceBalanced, PurgeBalanced
    <3>4. QED  BY <2>1, <3>1, <3>3, BalancedCapped, BalancedExact
  <2>4. QED  BY <1>1, <2>2, <2>3
<1>6. QED  BY <1>2, <1>3, <1>4, <1>5

(* The strengthened invariant holds whatever the threads, the purge, time   *)
(* and crashes do.                                                          *)
THEOREM StoreInvariant == Spec => []IInv
BY InitIInv, NextIInv, PTL DEF Spec

-----------------------------------------------------------------------------
(* The theorems. *)

(* However pulls, deletes, the purge and restarts overlap, and whoever comes *)
(* back to an idle mailbox, no blob is handed out twice.                    *)
THEOREM HandedOutOnce == Spec => []PulledOnce
<1>1. IInv => PulledOnce
  BY DEF IInv, Ids, Once, PulledOnce
<1>2. QED  BY StoreInvariant, <1>1, PTL

(* The disk never holds more than max_total_bytes, between any two steps of *)
(* any threads, if either nobody comes back to an idle mailbox or the       *)
(* server does not die (a restart counts only what is in a whole mailbox).  *)
THEOREM CapIsRespected == (~ Returns \/ ~ Crashes) => (Spec => []CapRespected)
<1> SUFFICES ASSUME ~ Returns \/ ~ Crashes PROVE Spec => []CapRespected
  OBVIOUS
<1>1. IInv => CapRespected
  BY DEF IInv, Capped, CapRespected
<1>2. QED  BY StoreInvariant, <1>1, PTL

(* Under the same condition every temporary file of a running server is one *)
(* of an upload in progress.                                                *)
THEOREM TmpsAreOwned == (~ Returns \/ ~ Crashes) => (Spec => []TmpsOwned)
<1> SUFFICES ASSUME ~ Returns \/ ~ Crashes PROVE Spec => []TmpsOwned
  OBVIOUS
<1>1. IInv => TmpsOwned
  BY DEF IInv, Tmps, TmpsOwned
<1>2. QED  BY StoreInvariant, <1>1, PTL

(* If nobody comes back to an idle mailbox, the ledger is what is on the    *)
(* disk whenever nobody holds its lock.                                     *)
THEOREM LedgerIsExact == ~ Returns => (Spec => []LedgerExact)
<1> SUFFICES ASSUME ~ Returns PROVE Spec => []LedgerExact
  OBVIOUS
<1>1. IInv => LedgerExact
  BY DEF IInv, Exact, LedgerExact, Owed
<1>2. QED  BY StoreInvariant, <1>1, PTL

(* If nobody comes back to an idle mailbox, a blob answered 201 is on the   *)
(* disk and in an indexed mailbox until it is pulled, deleted or expired.   *)
THEOREM AcceptedIsKept == ~ Returns => (Spec => []AcceptedStays)
<1> SUFFICES ASSUME ~ Returns PROVE Spec => []AcceptedStays
  OBVIOUS
<1>1. IInv => AcceptedStays
  BY DEF IInv, Rooms, Kept, AcceptedStays
<1>2. QED  BY StoreInvariant, <1>1, PTL
=============================================================================
