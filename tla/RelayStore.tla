----------------------------- MODULE RelayStore -----------------------------
(***************************************************************************)
(* relay/keyweave_relay.py, class Store: mailboxes of opaque blobs on a    *)
(* file system, served by threads that share only the index, one flock per *)
(* mailbox and one flock on the byte ledger, next to a purge thread that   *)
(* expires blobs and reclaims idle mailboxes.                              *)
(*                                                                         *)
(* A mailbox directory is the set of the names in it. Its lock file can be *)
(* unlinked and made again while a thread still waits on the old inode, so *)
(* a lock is a path and the generation of the inode behind it. All blobs   *)
(* have size 1. A mailbox id and a blob id are never issued twice.         *)
(***************************************************************************)
EXTENDS Naturals, FiniteSets

CONSTANTS
  Thread,         \* request handlers
  Purger,         \* the purge thread
  Mailbox,
  Blob,
  Home,           \* Home[b]: the mailbox b is written to
  MaxBlobs,       \* max_blobs_per_mailbox (and max_mailbox_bytes)
  MaxTotal,       \* max_total_bytes
  MaxMailboxes,   \* max_mailboxes
  Crashes,        \* whether the server may die
  Returns         \* whether anyone uses a mailbox again after it went idle

ASSUME StoreAssumption ==
  /\ Purger \notin Thread
  /\ IsFiniteSet(Blob)
  /\ Home \in [Blob -> Mailbox]
  /\ MaxBlobs \in Nat /\ MaxTotal \in Nat /\ MaxMailboxes \in Nat
  /\ {Crashes, Returns} \subseteq BOOLEAN

Server == Thread \cup {Purger}

VARIABLES
  up,         \* the server process runs
  index,      \* the in-memory index: mailboxes a capability is accepted for
  dir,        \* dir[m]: which of root, blobs, meta and lock exist on disk
  inode,      \* inode[m]: generation of the lock file last created there
  tmp,        \* uncommitted uploads on disk
  live,       \* committed blobs on disk
  ledger,     \* what the ledger file says
  fresh,      \* mailboxes used within mailbox_idle_days
  expired,    \* blobs older than ttl_days
  req,        \* what each server thread is doing
  posted,     \* history: blobs whose upload was attempted
  accepted,   \* history: blobs answered 201
  taken,      \* history: blobs removed by a pull, a delete or the TTL
  answers     \* history: how often each blob was handed out

files == <<dir, inode, tmp, live, ledger>>
history == <<posted, accepted, taken, answers>>
vars == <<up, index, files, fresh, expired, req, history>>

Parts == {"root", "blobs", "meta", "lock"}
Idle == [at |-> "idle"]

In(m, S) == { b \in S : Home[b] = m }

-----------------------------------------------------------------------------
(* The three locks. *)

HasMailboxLock == {"inside", "funding", "counting", "condemned", "removing"}

\* flock excludes only those who opened the same inode.
MailboxLockFree(r) ==
  \A t \in Server : ~ /\ req[t].at \in HasMailboxLock
                      /\ req[t].mailbox = r.mailbox
                      /\ req[t].inode = r.inode

LedgerLockFree == \A t \in Server : req[t].at # "counting"

IndexLockFree == \A t \in Server : req[t].at # "creating"

Goto(t, at) == req' = [req EXCEPT ![t].at = at]

Finish(t) == req' = [req EXCEPT ![t] = Idle]

-----------------------------------------------------------------------------
Init ==
  /\ up = TRUE
  /\ index = {}
  /\ dir = [m \in Mailbox |-> {}]
  /\ inode = [m \in Mailbox |-> 0]
  /\ tmp = {}
  /\ live = {}
  /\ ledger = 0
  /\ fresh = {}
  /\ expired = {}
  /\ req = [t \in Server |-> Idle]
  /\ posted = {}
  /\ accepted = {}
  /\ taken = {}
  /\ answers = [b \in Blob |-> 0]

-----------------------------------------------------------------------------
(* create_mailbox, under the index lock throughout. *)

CreateMailbox(t, m) ==
  /\ up
  /\ req[t] = Idle
  /\ IndexLockFree
  /\ Cardinality(index) < MaxMailboxes
  /\ inode[m] = 0 /\ dir[m] = {}
  /\ dir' = [dir EXCEPT ![m] = {"root", "blobs", "meta"}]
  /\ fresh' = fresh \cup {m}
  /\ req' = [req EXCEPT ![t] = [at |-> "creating", op |-> "create", mailbox |-> m]]
  /\ UNCHANGED <<up, index, inode, tmp, live, ledger, expired, history>>

Created(t) ==
  /\ req[t].at = "creating"
  /\ LET m == req[t].mailbox
     IN  /\ dir' = [dir EXCEPT ![m] = @ \cup {"lock"}]
         /\ inode' = [inode EXCEPT ![m] = IF "lock" \in dir[m] THEN @ ELSE @ + 1]
         /\ index' = index \cup {m}
  /\ Finish(t)
  /\ UNCHANGED <<up, tmp, live, ledger, fresh, expired, history>>

-----------------------------------------------------------------------------
(* The requests. A capability is checked against the index alone.          *)

Authorised(t, op, m) ==
  /\ up
  /\ req[t] = Idle
  /\ m \in index
  /\ Returns \/ m \in fresh

\* add_blob is entered once the whole body has been read.
PutBlob(t, b) ==
  /\ Authorised(t, "add", Home[b])
  /\ b \notin posted
  /\ posted' = posted \cup {b}
  /\ req' = [req EXCEPT ![t] = [at |-> "staging", op |-> "add", mailbox |-> Home[b],
                                blob |-> b, inode |-> 0]]
  /\ UNCHANGED <<up, index, files, fresh, expired, accepted, taken, answers>>

ListBlobs(t, m) ==
  /\ Authorised(t, "list", m)
  /\ req' = [req EXCEPT ![t] = [at |-> "opening", op |-> "list", mailbox |-> m, inode |-> 0]]
  /\ UNCHANGED <<up, index, files, fresh, expired, history>>

\* Blob ids come from a list, so they name blobs that were committed.
TakeBlob(t, op, b) ==
  /\ Authorised(t, op, Home[b])
  /\ b \in live \cup taken
  /\ req' = [req EXCEPT ![t] = [at |-> "opening", op |-> op, mailbox |-> Home[b],
                                blob |-> b, inode |-> 0]]
  /\ UNCHANGED <<up, index, files, fresh, expired, history>>

\* is_dir, then the temporary file is written and fsynced outside any lock.
Stage(t) ==
  /\ req[t].at = "staging"
  /\ \/ /\ "blobs" \in dir[req[t].mailbox]
        /\ tmp' = tmp \cup {req[t].blob}
        /\ Goto(t, "opening")
     \/ /\ "blobs" \notin dir[req[t].mailbox]
        /\ Finish(t)
        /\ UNCHANGED tmp
  /\ UNCHANGED <<up, index, dir, inode, live, ledger, fresh, expired, history>>

\* What an add that ends without committing leaves behind: nothing.
Discard(t) == tmp' = IF req[t].op = "add" THEN tmp \ {req[t].blob} ELSE tmp

\* os.open(O_CREAT): makes the file if it is missing and its directory is not.
Open(t) ==
  LET m == req[t].mailbox
      g == IF "lock" \in dir[m] THEN inode[m] ELSE inode[m] + 1
  IN  /\ req[t].at = "opening"
      /\ \/ /\ "root" \in dir[m]
            /\ dir' = [dir EXCEPT ![m] = @ \cup {"lock"}]
            /\ inode' = [inode EXCEPT ![m] = g]
            /\ req' = [req EXCEPT ![t].at = "waiting", ![t].inode = g]
            /\ UNCHANGED tmp
         \/ /\ "root" \notin dir[m]
            /\ Discard(t)
            /\ Finish(t)
            /\ UNCHANGED <<dir, inode>>
      /\ UNCHANGED <<up, index, live, ledger, fresh, expired, history>>

\* Slip: the purge touches what it inspects.
EnterTouching(t) ==
  /\ req[t].at = "waiting"
  /\ MailboxLockFree(req[t])
  /\ Goto(t, "inside")
  /\ fresh' = IF "root" \in dir[req[t].mailbox]
              THEN fresh \cup {req[t].mailbox} ELSE fresh
  /\ UNCHANGED <<up, index, files, expired, history>>

\* flock, then _touch_mailbox for everyone but the purge.
Enter(t) ==
  /\ req[t].at = "waiting"
  /\ MailboxLockFree(req[t])
  /\ Goto(t, "inside")
  /\ fresh' = IF req[t].op # "purge" /\ "root" \in dir[req[t].mailbox]
              THEN fresh \cup {req[t].mailbox} ELSE fresh
  /\ UNCHANGED <<up, index, files, expired, history>>

\* What the request decides on from the mailbox alone.
MayProceed(r) ==
  \/ r.op = "add" /\ Cardinality(In(r.mailbox, live)) < MaxBlobs
  \/ r.op \in {"pull", "delete"} /\ r.blob \in live

Consult(t) ==
  /\ req[t].at = "inside"
  /\ req[t].op # "purge"
  /\ \/ MayProceed(req[t]) /\ Goto(t, "funding") /\ UNCHANGED tmp
     \/ ~MayProceed(req[t]) /\ Finish(t) /\ Discard(t)
  /\ UNCHANGED <<up, index, dir, inode, live, ledger, fresh, expired, history>>

-----------------------------------------------------------------------------
(* The ledger section: the file appears or goes, then the ledger says so.  *)

\* Slips: the cap is compared outside the ledger lock; a section left by an
\* exception keeps its lock.
CommitUnlocked(t) ==
  /\ req[t].at = "funding" /\ req[t].op = "add"
  /\ \/ /\ ledger < MaxTotal /\ req[t].blob \in tmp
        /\ tmp' = tmp \ {req[t].blob}
        /\ live' = live \cup {req[t].blob}
        /\ Goto(t, "counting")
     \/ /\ ledger >= MaxTotal \/ req[t].blob \notin tmp
        /\ Discard(t)
        /\ Finish(t)
        /\ UNCHANGED live
  /\ UNCHANGED <<up, index, dir, inode, ledger, fresh, expired, history>>

CommitLeaky(t) ==
  /\ req[t].at = "funding" /\ req[t].op = "add"
  /\ LedgerLockFree
  /\ ledger < MaxTotal /\ req[t].blob \in tmp
  /\ tmp' = tmp \ {req[t].blob}
  /\ live' = live \cup {req[t].blob}
  /\ Goto(t, "counting")
  /\ UNCHANGED <<up, index, dir, inode, ledger, fresh, expired, history>>

\* os.replace under the cap; the temporary file is unlinked otherwise.
Commit(t) ==
  /\ req[t].at = "funding" /\ req[t].op = "add"
  /\ LedgerLockFree
  /\ \/ /\ ledger < MaxTotal /\ req[t].blob \in tmp
        /\ tmp' = tmp \ {req[t].blob}
        /\ live' = live \cup {req[t].blob}
        /\ Goto(t, "counting")
     \/ /\ ledger >= MaxTotal \/ req[t].blob \notin tmp
        /\ Discard(t)
        /\ Finish(t)
        /\ UNCHANGED live
  /\ UNCHANGED <<up, index, dir, inode, ledger, fresh, expired, history>>

\* Slip: a remove that fails is taken for one that worked.
RemoveSwallowed(t) ==
  /\ req[t].at = "funding" /\ req[t].op \in {"pull", "delete"}
  /\ LedgerLockFree
  /\ taken' = taken \cup {req[t].blob}
  /\ Goto(t, "counting")
  /\ UNCHANGED <<up, index, files, fresh, expired, posted, accepted, answers>>

\* os.remove, or nothing at all if the file has gone.
Remove(t) ==
  /\ req[t].at = "funding" /\ req[t].op \in {"pull", "delete"}
  /\ LedgerLockFree
  /\ \/ /\ req[t].blob \in live
        /\ live' = live \ {req[t].blob}
        /\ taken' = taken \cup {req[t].blob}
        /\ Goto(t, "counting")
     \/ /\ req[t].blob \notin live
        /\ Finish(t)
        /\ UNCHANGED <<live, taken>>
  /\ UNCHANGED <<up, index, dir, inode, tmp, ledger, fresh, expired,
                 posted, accepted, answers>>

\* Slip: the purge frees space that the ledger goes on charging for.
CountRequests(t) ==
  /\ req[t].at = "counting"
  /\ ledger' = CASE req[t].op = "add"   -> ledger + 1
                 [] req[t].op = "purge" -> ledger
                 [] OTHER               -> IF ledger = 0 THEN 0 ELSE ledger - 1
  /\ accepted' = IF req[t].op = "add" THEN accepted \cup {req[t].blob} ELSE accepted
  /\ answers' = IF req[t].op = "pull" THEN [answers EXCEPT ![req[t].blob] = @ + 1] ELSE answers
  /\ IF req[t].op = "purge" THEN Goto(t, "inside") ELSE Finish(t)
  /\ UNCHANGED <<up, index, dir, inode, tmp, live, fresh, expired, posted, taken>>

\* _ledger_write_fd, both locks released, and the answer.
Count(t) ==
  /\ req[t].at = "counting"
  /\ ledger' = IF req[t].op = "add" THEN ledger + 1 ELSE IF ledger = 0 THEN 0 ELSE ledger - 1
  /\ accepted' = IF req[t].op = "add" THEN accepted \cup {req[t].blob} ELSE accepted
  /\ answers' = IF req[t].op = "pull" THEN [answers EXCEPT ![req[t].blob] = @ + 1] ELSE answers
  /\ IF req[t].op = "purge" THEN Goto(t, "inside") ELSE Finish(t)
  /\ UNCHANGED <<up, index, dir, inode, tmp, live, fresh, expired, posted, taken>>

-----------------------------------------------------------------------------
(* purge_mailbox: expire, sweep, reclaim, under that mailbox's lock.       *)

PurgeMailbox(m) ==
  /\ up
  /\ req[Purger] = Idle
  /\ "root" \in dir[m]
  /\ req' = [req EXCEPT ![Purger] = [at |-> "opening", op |-> "purge", mailbox |-> m,
                                     inode |-> 0]]
  /\ UNCHANGED <<up, index, files, fresh, expired, history>>

Purging(m) ==
  /\ req[Purger].at = "inside"
  /\ req[Purger].mailbox = m

Expirable(m) == IF "blobs" \in dir[m] THEN In(m, live \cap expired) ELSE {}

PurgeBlob(b) ==
  /\ Purging(Home[b])
  /\ LedgerLockFree
  /\ b \in Expirable(Home[b])
  /\ live' = live \ {b}
  /\ taken' = taken \cup {b}
  /\ Goto(Purger, "counting")
  /\ UNCHANGED <<up, index, dir, inode, tmp, ledger, fresh, expired,
                 posted, accepted, answers>>

Owned == { req[t].blob : t \in { u \in Thread : req[u].at # "idle" /\ req[u].op = "add" } }

\* Slip: idleness is not asked about.
ReclaimableEmpty(m) == In(m, live) = {}

\* Empty, and untouched for mailbox_idle_days.
Reclaimable(m) == In(m, live) = {} /\ m \notin fresh

\* _sweep_orphan_tmps spares what a live request may own, then the verdict.
Judge(m) ==
  /\ Purging(m)
  /\ Expirable(m) = {}
  /\ \/ /\ "blobs" \notin dir[m]
        /\ Finish(Purger)
        /\ UNCHANGED tmp
     \/ /\ "blobs" \in dir[m]
        /\ tmp' = tmp \ (In(m, tmp) \ Owned)
        /\ IF Reclaimable(m) THEN Goto(Purger, "condemned") ELSE Finish(Purger)
  /\ UNCHANGED <<up, index, dir, inode, live, ledger, fresh, expired, history>>

\* index.pop under the index lock; shutil.rmtree has listed the directory.
Unindex(m) ==
  /\ req[Purger].at = "condemned"
  /\ req[Purger].mailbox = m
  /\ IndexLockFree
  /\ index' = index \ {m}
  /\ req' = [req EXCEPT ![Purger] = [at |-> "removing", op |-> "purge", mailbox |-> m,
                                     inode |-> req[Purger].inode,
                                     todo |-> {"contents"} \cup (dir[m] \ {"root"})]]
  /\ UNCHANGED <<up, files, fresh, expired, history>>

\* rmtree takes the names in the order the file system lists them; what is in
\* blobs goes before blobs, and a directory that is not empty stays.
Unlink(m, part) ==
  /\ req[Purger].at = "removing"
  /\ req[Purger].mailbox = m
  /\ part \in req[Purger].todo
  /\ part = "blobs" => "contents" \notin req[Purger].todo
  /\ req' = [req EXCEPT ![Purger].todo = @ \ {part}]
  /\ IF part = "contents"
     THEN tmp' = tmp \ In(m, tmp) /\ live' = live \ In(m, live) /\ UNCHANGED dir
     ELSE /\ dir' = [dir EXCEPT ![m] = IF part = "blobs" /\ In(m, tmp \cup live) # {}
                                       THEN @ ELSE @ \ {part}]
          /\ UNCHANGED <<tmp, live>>
  /\ UNCHANGED <<up, index, inode, ledger, fresh, expired, history>>

Unlinked(m) ==
  /\ req[Purger].at = "removing"
  /\ req[Purger].mailbox = m
  /\ req[Purger].todo = {}
  /\ dir' = [dir EXCEPT ![m] = @ \ (IF @ = {"root"} THEN {"root"} ELSE {})]
  /\ Finish(Purger)
  /\ UNCHANGED <<up, index, inode, tmp, live, ledger, fresh, expired, history>>

-----------------------------------------------------------------------------
(* Time and crashes. *)

Expire(b) ==
  /\ b \in live \ expired
  /\ expired' = expired \cup {b}
  /\ UNCHANGED <<up, index, files, fresh, req, history>>

\* mailbox_idle_days pass; no request takes that long.
GoIdle(m) ==
  /\ m \in fresh
  /\ \A t \in Server : req[t].at # "idle" => req[t].mailbox # m
  /\ fresh' = fresh \ {m}
  /\ UNCHANGED <<up, index, files, expired, req, history>>

\* Nobody holds a lock file open any more, so the inodes are numbered afresh.
Crash ==
  /\ Crashes
  /\ up
  /\ up' = FALSE
  /\ index' = {}
  /\ req' = [t \in Server |-> Idle]
  /\ inode' = [m \in Mailbox |-> IF inode[m] = 0 THEN 0 ELSE 1]
  /\ UNCHANGED <<dir, tmp, live, ledger, fresh, expired, history>>

\* reconcile looks only into directories that still have their meta.json.
Known == { m \in Mailbox : "meta" \in dir[m] }
Seen(S) == { b \in S : {"meta", "blobs"} \subseteq dir[Home[b]] }

\* Slip: stray temporary files are left.
RestartUnswept ==
  /\ ~up
  /\ up' = TRUE
  /\ index' = Known
  /\ ledger' = Cardinality(Seen(live))
  /\ UNCHANGED <<tmp, dir, inode, live, fresh, expired, req, history>>

\* build_server: reconcile, alone in its process. Its purge_all is PurgeMailbox.
Restart ==
  /\ ~up
  /\ up' = TRUE
  /\ index' = Known
  /\ tmp' = tmp \ Seen(tmp)
  /\ ledger' = Cardinality(Seen(live))
  /\ UNCHANGED <<dir, inode, live, fresh, expired, req, history>>

-----------------------------------------------------------------------------
Arrive(t) ==
  \/ \E m \in Mailbox : CreateMailbox(t, m) \/ ListBlobs(t, m)
  \/ \E b \in Blob : PutBlob(t, b) \/ TakeBlob(t, "pull", b) \/ TakeBlob(t, "delete", b)

Advance(t) ==
  Created(t) \/ Stage(t) \/ Open(t) \/ Enter(t) \/ Consult(t) \/ Commit(t) \/ Remove(t) \/ Count(t)

PurgeStep(m) ==
  \/ \E b \in Blob : Home[b] = m /\ PurgeBlob(b)
  \/ Judge(m)
  \/ Unindex(m)
  \/ \E part \in Parts \cup {"contents"} : Unlink(m, part)
  \/ Unlinked(m)

Next ==
  \/ \E t \in Thread : Arrive(t)
  \/ \E t \in Server : Advance(t)
  \/ \E m \in Mailbox : PurgeMailbox(m) \/ PurgeStep(m) \/ GoIdle(m)
  \/ \E b \in Blob : Expire(b)
  \/ Crash \/ Restart

Spec == Init /\ [][Next]_vars

\* Threads run; flock wakes its waiters in turn; the purge cursor comes round
\* to every mailbox.
Fairness ==
  /\ \A t \in Server : WF_vars(Advance(t)) /\ SF_vars(Enter(t))
  /\ \A t \in Thread : SF_vars(Commit(t) \/ Remove(t))
  /\ \A m \in Mailbox : SF_vars(PurgeMailbox(m)) /\ SF_vars(PurgeStep(m))
  /\ WF_vars(Restart)

FairSpec == Spec /\ Fairness

-----------------------------------------------------------------------------
(* Properties. *)

TypeOK ==
  /\ up \in BOOLEAN
  /\ index \in SUBSET Mailbox
  /\ dir \in [Mailbox -> SUBSET Parts]
  /\ inode \in [Mailbox -> Nat]
  /\ {tmp, live, expired, posted, accepted, taken} \subseteq SUBSET Blob
  /\ ledger \in 0..MaxTotal
  /\ fresh \in SUBSET Mailbox
  /\ answers \in [Blob -> Nat]
  /\ \A t \in Server :
       req[t].at # "idle" =>
         /\ req[t].at \in HasMailboxLock \cup {"creating", "staging", "opening", "waiting"}
         /\ req[t].mailbox \in Mailbox
         /\ req[t].at \in HasMailboxLock => req[t].inode \in 1..inode[req[t].mailbox]

(* The ledger is a real cap: whenever nobody holds its lock it says exactly *)
(* what is on the disk, after every add, delete, expiry, crash and restart. *)
LedgerExact == up /\ LedgerLockFree => ledger = Cardinality(live)

(* The bytes on the disk never exceed max_total_bytes, not even between a   *)
(* rename and the ledger write, or after a crash between the two.           *)
CapRespected == Cardinality(live) <= MaxTotal

(* A blob answered 201 stays on the disk, in a mailbox the pull token still *)
(* opens, until somebody pulls or deletes it or its TTL runs out.           *)
AcceptedStays ==
  \A b \in accepted \ taken : b \in live /\ (up => Home[b] \in index)

(* While the server runs, a temporary file belongs to an upload in          *)
(* progress: refusals, failures and crashes leave none behind.              *)
TmpsOwned == up => tmp \subseteq Owned

(* Delete-on-pull is at most once: two pulls of a blob, however they        *)
(* overlap each other, a delete, the purge and a restart, never both get it.*)
PulledOnce == \A b \in Blob : answers[b] <= 1

(* Every request gets its answer, whatever holds the locks it needs.        *)
RequestsFinish == \A t \in Thread : req[t].at # "idle" ~> req[t].at = "idle"

(* An empty mailbox that has gone idle, and that nobody comes back to, does *)
(* not occupy one of max_mailboxes for ever.                                *)
SlotFreed ==
  \A m \in Mailbox :
    up /\ m \in index /\ m \notin fresh /\ In(m, live) = {}
      ~> \/ ~up \/ m \notin index
         \/ \E t \in Thread : req[t].at # "idle" /\ req[t].mailbox = m
=============================================================================
