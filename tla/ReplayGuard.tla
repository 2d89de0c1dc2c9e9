----------------------------- MODULE ReplayGuard ----------------------------
(***************************************************************************)
(* client/src/replay.ts: the per-sender acceptance window, the seen-set    *)
(* that refuses replays inside it, the two hard caps, the bounded prune    *)
(* schedule, and the export / restore pair that makes it all durable.      *)
(*                                                                         *)
(* The two nested Maps are modelled by what their insertion order decides: *)
(* seen[m] is the serial number of the insertion that put m in its inner   *)
(* Map (0: not there) and opened[s] the serial at which the inner Map of   *)
(* sender s was created (0: no such Map).                                  *)
(***************************************************************************)
EXTENDS Integers, FiniteSets

CONSTANTS
  Sender,        \* authenticated sender identities
  Message,       \* authenticated messages; a message id fixes both fields below
  From,          \* From[m]: the sender of m
  Timestamp,     \* Timestamp[m]: the sender's authenticated clock
  Window,        \* WINDOW_MS
  Skew,          \* CLOCK_SKEW_MS
  PruneEvery,    \* SEEN_PRUNE_EVERY
  MaxPerSender,  \* MAX_SEEN_PER_SENDER
  MaxTotal,      \* MAX_SEEN_TOTAL
  Now,           \* wall-clock readings a caller may pass to admit
  MaxAdmits      \* bound: insertions explored

ASSUME MessagesAssumption ==
  /\ IsFiniteSet(Message)
  /\ From \in [Message -> Sender]
  /\ Timestamp \in [Message -> Nat]

ASSUME LimitsAssumption ==
  /\ Window \in Nat \ {0}
  /\ Skew \in Nat
  /\ PruneEvery \in Nat \ {0}
  /\ MaxPerSender \in Nat \ {0}
  /\ MaxTotal \in Nat \ {0}
  /\ Now \subseteq Nat
  /\ MaxAdmits \in Nat

VARIABLES
  seen,              \* insertion serial of each retained message, 0 if absent
  opened,            \* creation serial of each sender's inner Map, 0 if absent
  highWater,         \* per-sender high-water mark, NoMark before the first admit
  admitsSincePrune,
  totalSeen,
  destroyed,
  serial,            \* insertions made so far (orders both Maps)
  exported,          \* what the last export handed to the encryptor
  durable,           \* what the last export that reached the store carried
  accepted,          \* history: messages this filter state stands for
  evicted            \* history: of those, the ones a hard cap dropped

guard == <<seen, opened, highWater, admitsSincePrune, totalSeen, destroyed, serial>>
vars == <<guard, exported, durable, accepted, evicted>>

NoMark == -1

-----------------------------------------------------------------------------
(* Reading the two Maps. *)

Retained(f) == { m \in Message : f[m] # 0 }

RetainedFrom(f, s) == { m \in Retained(f) : From[m] = s }

Drop(f, S) == [m \in Message |-> IF m \in S THEN 0 ELSE f[m]]

\* Iteration order: outer Map by creation, then inner Map by insertion.
Before(f, op, m, n) ==
  IF From[m] = From[n] THEN f[m] < f[n] ELSE op[From[m]] < op[From[n]]

\* At or below hwm - windowMs: what admit hard-rejects and prune may reclaim.
BelowWindow(hw, m) ==
  /\ hw[From[m]] # NoMark
  /\ Timestamp[m] <= hw[From[m]] - Window

-----------------------------------------------------------------------------
(* The helpers of admit and exportSeen. *)

\* Slip: one entry too many survives.
PerSenderOverflowLate(f, s) ==
  { m \in RetainedFrom(f, s) :
      Cardinality({ n \in RetainedFrom(f, s) : f[m] < f[n] }) > MaxPerSender }

\* Slip: the cap bites one entry early.
PerSenderOverflowEarly(f, s) ==
  { m \in RetainedFrom(f, s) :
      Cardinality({ n \in RetainedFrom(f, s) : f[m] < f[n] }) >= MaxPerSender - 1 }

\* enforcePerSenderCap: every entry with MaxPerSender later insertions behind it.
PerSenderOverflow(f, s) ==
  { m \in RetainedFrom(f, s) :
      Cardinality({ n \in RetainedFrom(f, s) : f[m] < f[n] }) >= MaxPerSender }

\* Slip: prunes one tick further than admit rejects.
AgedTooFar(f, hw) ==
  { m \in Retained(f) :
      hw[From[m]] # NoMark /\ Timestamp[m] <= hw[From[m]] - Window + 1 }

Aged(f, hw) == { m \in Retained(f) : BelowWindow(hw, m) }

\* enforceTotalCap: the first (count - MaxTotal) entries in iteration order.
TotalOverflow(f, op, count) ==
  { m \in Retained(f) :
      Cardinality({ n \in Retained(f) : Before(f, op, n, m) }) < count - MaxTotal }

\* An inner Map left empty is deleted from the outer one.
NonEmpty(f, op) ==
  [s \in Sender |-> IF RetainedFrom(f, s) = {} THEN 0 ELSE op[s]]

\* Slip: the entries the total cap drops are not subtracted.
PruneAllUncounted(f, op, hw, count) ==
  LET inWindow == Drop(f, Aged(f, hw))
      left     == count - Cardinality(Aged(f, hw))
      over     == TotalOverflow(inWindow, op, left)
  IN  [seen   |-> Drop(inWindow, over),
       opened |-> NonEmpty(Drop(inWindow, over), op),
       total  |-> left,
       evict  |-> over]

\* pruneAll: drop the aged entries of every sender, then enforce the total cap.
PruneAll(f, op, hw, count) ==
  LET inWindow == Drop(f, Aged(f, hw))
      left     == count - Cardinality(Aged(f, hw))
      over     == TotalOverflow(inWindow, op, left)
      kept     == Drop(inWindow, over)
  IN  [seen   |-> kept,
       opened |-> NonEmpty(kept, op),
       total  |-> left - Cardinality(over),
       evict  |-> over]

MarkAfter(s, ts, now) ==
  LET capped == IF ts <= now + Skew THEN ts ELSE now + Skew
  IN  IF highWater[s] = NoMark \/ capped > highWater[s] THEN capped ELSE highWater[s]

-----------------------------------------------------------------------------
(* The durable form: exportHighWater and exportSeen, in iteration order. *)

EmptyState ==
  [seen      |-> [m \in Message |-> 0],
   opened    |-> [s \in Sender |-> 0],
   highWater |-> [s \in Sender |-> NoMark],
   accepted  |-> {},
   evicted   |-> {}]

Init ==
  /\ seen = EmptyState.seen
  /\ opened = EmptyState.opened
  /\ highWater = EmptyState.highWater
  /\ admitsSincePrune = 0
  /\ totalSeen = 0
  /\ destroyed = FALSE
  /\ serial = 0
  /\ exported = EmptyState
  /\ durable = EmptyState
  /\ accepted = {}
  /\ evicted = {}

-----------------------------------------------------------------------------
(* The admit that accepts. The other two verdicts, 'stale' and             *)
(* 'duplicate', are the negations of the guards and change no state.       *)

\* Slip: the boundary instant, which prune reclaims, is accepted.
StaleBelow(m) ==
  /\ highWater[From[m]] # NoMark
  /\ Timestamp[m] < highWater[From[m]] - Window

Stale(m) == BelowWindow(highWater, m)

Duplicate(m) == seen[m] # 0

Admit(m, now) ==
  LET s        == From[m]
      inserted == [seen EXCEPT ![m] = serial + 1]
      created  == [opened EXCEPT ![s] = IF @ = 0 THEN serial + 1 ELSE @]
      marks    == [highWater EXCEPT ![s] = MarkAfter(s, Timestamp[m], now)]
      over     == PerSenderOverflow(inserted, s)
      capped   == Drop(inserted, over)
      count    == totalSeen + 1 - Cardinality(over)
      pruned   == PruneAll(capped, created, marks, count)
  IN  /\ ~destroyed
      /\ serial < MaxAdmits
      /\ ~Stale(m)
      /\ ~Duplicate(m)
      /\ serial' = serial + 1
      /\ highWater' = marks
      /\ accepted' = accepted \cup {m}
      /\ \/ /\ admitsSincePrune + 1 < PruneEvery
            /\ seen' = capped
            /\ opened' = created
            /\ totalSeen' = count
            /\ admitsSincePrune' = admitsSincePrune + 1
            /\ evicted' = (evicted \ {m}) \cup over
         \/ /\ admitsSincePrune + 1 >= PruneEvery
            /\ seen' = pruned.seen
            /\ opened' = pruned.opened
            /\ totalSeen' = pruned.total
            /\ admitsSincePrune' = 0
            /\ evicted' = (evicted \ {m}) \cup over \cup pruned.evict
      /\ UNCHANGED <<destroyed, exported, durable>>

\* Vault.snapshot: exportHighWater, then exportSeen, which prunes on the way out.
Export ==
  LET pruned == PruneAll(seen, opened, highWater, totalSeen)
  IN  /\ ~destroyed
      /\ seen' = pruned.seen
      /\ opened' = pruned.opened
      /\ totalSeen' = pruned.total
      /\ admitsSincePrune' = 0
      /\ evicted' = evicted \cup pruned.evict
      /\ exported' = [seen |-> seen', opened |-> opened', highWater |-> highWater,
                      accepted |-> accepted, evicted |-> evicted']
      /\ UNCHANGED <<highWater, destroyed, serial, accepted, durable>>

\* The blob carrying the last export reaches the store.
Land ==
  /\ durable' = exported
  /\ UNCHANGED <<guard, exported, accepted, evicted>>

\* Vault.lock, or the page going away.
Destroy ==
  /\ ~destroyed
  /\ destroyed' = TRUE
  /\ seen' = EmptyState.seen
  /\ opened' = EmptyState.opened
  /\ highWater' = EmptyState.highWater
  /\ totalSeen' = 0
  /\ UNCHANGED <<admitsSincePrune, serial, exported, durable, accepted, evicted>>

\* ReplayGuard.restore, the only way a session obtains its guard.
Restore ==
  /\ destroyed
  /\ destroyed' = FALSE
  /\ seen' = durable.seen
  /\ opened' = durable.opened
  /\ highWater' = durable.highWater
  /\ admitsSincePrune' = 0
  /\ totalSeen' = Cardinality(Retained(durable.seen))
  /\ accepted' = durable.accepted
  /\ evicted' = durable.evicted
  /\ UNCHANGED <<serial, exported, durable>>

Next ==
  \/ \E m \in Message, now \in Now : Admit(m, now)
  \/ Export
  \/ Land
  \/ Destroy
  \/ Restore

Spec == Init /\ [][Next]_vars

-----------------------------------------------------------------------------
(* Properties. *)

StateType ==
  [seen      : [Message -> Nat],
   opened    : [Sender -> Nat],
   highWater : [Sender -> Nat \cup {NoMark}],
   accepted  : SUBSET Message,
   evicted   : SUBSET Message]

TypeOK ==
  /\ seen \in [Message -> Nat]
  /\ opened \in [Sender -> Nat]
  /\ highWater \in [Sender -> Nat \cup {NoMark}]
  /\ admitsSincePrune \in Nat
  /\ totalSeen \in Int
  /\ destroyed \in BOOLEAN
  /\ serial \in Nat
  /\ exported \in StateType
  /\ durable \in StateType
  /\ accepted \in SUBSET Message
  /\ evicted \in SUBSET Message

\* A guard state refuses every message it stands for, unless a cap dropped it.
Remembers(f, hw, acc, ev) ==
  \A m \in acc \ ev : f[m] # 0 \/ BelowWindow(hw, m)

(* The dedupe wall never has a hole nobody named: whatever pruning, caps,   *)
(* exports and restores did, a message that was accepted is still refused,  *)
(* as a duplicate or as stale, or a hard cap evicted it (R-replay-cap).     *)
(* The same holds of what is on its way to the store and of what is in it.  *)
Remembered ==
  /\ ~destroyed => Remembers(seen, highWater, accepted, evicted)
  /\ Remembers(exported.seen, exported.highWater, exported.accepted, exported.evicted)
  /\ Remembers(durable.seen, durable.highWater, durable.accepted, durable.evicted)

(* No step inserts a message a second time, unless a cap evicted it or the  *)
(* session that accepted it ended before a save landed.                     *)
NoReaccept ==
  [][~destroyed /\ ~destroyed' =>
       \A m \in accepted \ evicted : seen'[m] \in {0, seen[m]}]_vars

(* The running count the total cap is enforced with is the number of        *)
(* entries in the Maps, through every insert, eviction, prune and restore.  *)
CountExact == totalSeen = Cardinality(Retained(seen))

(* The memory bound the caps exist for: MaxTotal plus the admits of one     *)
(* prune period, never more, and no sender above its own cap.               *)
MemoryBound ==
  /\ totalSeen <= MaxTotal + admitsSincePrune
  /\ admitsSincePrune < PruneEvery
  /\ \A s \in Sender : Cardinality(RetainedFrom(seen, s)) <= MaxPerSender

-----------------------------------------------------------------------------
(* The guard implements a filter that takes each message at most once.     *)

Filter == INSTANCE OnceFilter WITH
  Capacity <- IF MaxPerSender < MaxTotal THEN MaxPerSender ELSE MaxTotal,
  held     <- IF destroyed THEN {} ELSE accepted \ evicted,
  staged   <- exported.accepted \ exported.evicted,
  kept     <- durable.accepted \ durable.evicted,
  open     <- ~destroyed

FilterSpec == Filter!Spec
=============================================================================
