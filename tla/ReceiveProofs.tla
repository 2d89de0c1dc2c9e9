--------------------------- MODULE ReceiveProofs ---------------------------
(***************************************************************************)
(* What bounds a receive: the replay guard that every pulled message goes  *)
(* through, and the clocks of the sync that pulls it.                      *)
(*                                                                         *)
(* ReplayGuard, for every set of senders and messages, every window, skew, *)
(* cap and prune period: its types, the exactness of the counter its total *)
(* cap is enforced with, the dedupe wall itself, the bounds the caps set,  *)
(* and that the guard implements OnceFilter.                               *)
(*                                                                         *)
(* PassBudget, for every choice of options, of the transport's ceiling, of *)
(* queue and list lengths, and of lateness: the floor, the first pull, and *)
(* what a sync can cost.                                                   *)
(***************************************************************************)
EXTENDS ReplayGuard, PassBudget, FiniteSetTheorems, TLAPS

-----------------------------------------------------------------------------
(* Lemmas about the helpers. *)

(* Dropping a set from a Map of insertion serials leaves such a Map, and    *)
(* retains exactly the entries outside the set.                             *)
LEMMA DropLemma ==
  ASSUME NEW f \in [Message -> Nat], NEW S
  PROVE  /\ Drop(f, S) \in [Message -> Nat]
         /\ Retained(Drop(f, S)) = Retained(f) \ S
         /\ \A m \in Message : Drop(f, S)[m] = IF m \in S THEN 0 ELSE f[m]
BY DEF Drop, Retained

(* Any set of messages is finite, and its cardinality is a natural number.  *)
LEMMA MessagesFinite ==
  ASSUME NEW S, S \subseteq Message
  PROVE  IsFiniteSet(S) /\ Cardinality(S) \in Nat
BY MessagesAssumption, FS_Subset, FS_CardinalityType

(* Removing part of a set of messages subtracts its cardinality.            *)
LEMMA RemovePart ==
  ASSUME NEW S, S \subseteq Message, NEW T, T \subseteq S
  PROVE  Cardinality(S \ T) = Cardinality(S) - Cardinality(T)
<1>1. IsFiniteSet(S)
  BY MessagesFinite
<1>2. Cardinality(S \ T) = Cardinality(S) - Cardinality(S \cap T)
  BY <1>1, FS_Difference
<1>3. S \cap T = T
  OBVIOUS
<1> QED BY <1>2, <1>3

(* Dropping the empty inner Maps keeps every creation serial in its type.   *)
LEMMA NonEmptyType ==
  ASSUME NEW f, NEW op \in [Sender -> Nat]
  PROVE  NonEmpty(f, op) \in [Sender -> Nat]
BY DEF NonEmpty

(* What pruneAll does to the inner Maps: nothing is inserted, an entry is   *)
(* dropped because it is below its sender's window or because the total cap *)
(* evicted it, and the count goes down by exactly what was dropped.         *)
LEMMA PruneLemma ==
  ASSUME NEW f \in [Message -> Nat], NEW op \in [Sender -> Nat],
         NEW hw, NEW count \in Int,
         NEW p, p = PruneAll(f, op, hw, count)
  PROVE  /\ p.seen \in [Message -> Nat]
         /\ p.opened \in [Sender -> Nat]
         /\ p.total \in Int
         /\ p.evict \subseteq Message
         /\ \A m \in Message : p.seen[m] \in {0, f[m]}
         /\ \A m \in Message \ p.evict :
              f[m] # 0 /\ p.seen[m] = 0 => BelowWindow(hw, m)
         /\ count = Cardinality(Retained(f)) =>
              p.total = Cardinality(Retained(p.seen))
<1> DEFINE aged == Aged(f, hw)
           inW  == Drop(f, aged)
           left == count - Cardinality(aged)
           over == TotalOverflow(inW, op, left)
<1>1. /\ aged \subseteq Retained(f)
      /\ \A m \in aged : BelowWindow(hw, m)
      /\ Retained(f) \subseteq Message
  BY DEF Aged, Retained
<1>2. inW \in [Message -> Nat] /\ Retained(inW) = Retained(f) \ aged
  BY DropLemma
<1>3. over \subseteq Retained(inW) /\ over \subseteq Message
  BY DEF TotalOverflow, Retained
<1>4. Drop(inW, over) \in [Message -> Nat]
      /\ Retained(Drop(inW, over)) = Retained(inW) \ over
  BY <1>2, DropLemma
<1>5. /\ p.seen = Drop(inW, over)
      /\ p.opened = NonEmpty(Drop(inW, over), op)
      /\ p.total = left - Cardinality(over)
      /\ p.evict = over
  BY DEF PruneAll
<1>6. \A m \in Message :
        Drop(inW, over)[m] = IF m \in over \/ m \in aged THEN 0 ELSE f[m]
  BY <1>2, DropLemma
<1>7. Cardinality(aged) \in Nat /\ Cardinality(over) \in Nat
  BY <1>1, <1>3, MessagesFinite
<1>8. ASSUME count = Cardinality(Retained(f))
      PROVE  p.total = Cardinality(Retained(p.seen))
  <2>1. Cardinality(Retained(inW)) = count - Cardinality(aged)
    BY <1>1, <1>2, <1>8, RemovePart
  <2>2. Cardinality(Retained(Drop(inW, over)))
          = Cardinality(Retained(inW)) - Cardinality(over)
    BY <1>1, <1>2, <1>3, <1>4, RemovePart
  <2> QED BY <1>5, <2>1, <2>2
<1>9. p.opened \in [Sender -> Nat]
  BY <1>5, NonEmptyType
<1>10. p.total \in Int
  BY <1>5, <1>7
<1> HIDE DEF over, left, inW, aged
<1>11. \A m \in Message : p.seen[m] \in {0, f[m]}
  BY <1>5, <1>6
<1>12. \A m \in Message \ p.evict :
         f[m] # 0 /\ p.seen[m] = 0 => BelowWindow(hw, m)
  BY <1>1, <1>5, <1>6
<1> QED
  BY <1>3, <1>4, <1>5, <1>8, <1>9, <1>10, <1>11, <1>12

(* A sender's mark stays a clock reading and never goes back.               *)
LEMMA MarkLemma ==
  ASSUME NEW s \in Sender, NEW m \in Message, NEW now \in Now,
         highWater \in [Sender -> Nat \cup {NoMark}]
  PROVE  /\ MarkAfter(s, Timestamp[m], now) \in Nat
         /\ MarkAfter(s, Timestamp[m], now) >= highWater[s]
<1>1. Timestamp[m] \in Nat /\ now \in Nat /\ Skew \in Nat
  BY MessagesAssumption, LimitsAssumption
<1> QED BY <1>1 DEF MarkAfter, NoMark

(* A message below its sender's window stays there when the marks rise.     *)
LEMMA BelowStays ==
  ASSUME NEW hw \in [Sender -> Nat \cup {NoMark}],
         NEW hx \in [Sender -> Nat \cup {NoMark}],
         \A s \in Sender : hx[s] >= hw[s],
         NEW m \in Message, BelowWindow(hw, m)
  PROVE  BelowWindow(hx, m)
<1>1. From[m] \in Sender /\ Timestamp[m] \in Nat /\ Window \in Nat
  BY MessagesAssumption, LimitsAssumption
<1> QED BY <1>1 DEF BelowWindow, NoMark

(* What an accepting admit does to the guard, the cap and the prune it may  *)
(* trigger included: apart from the message it inserts, an entry that goes  *)
(* is below its sender's window or is recorded as evicted, and the count    *)
(* follows the Maps.                                                        *)
LEMMA AdmitLemma ==
  ASSUME TypeOK, NEW m \in Message, NEW now \in Now, Admit(m, now)
  PROVE  /\ seen' \in [Message -> Nat]
         /\ opened' \in [Sender -> Nat]
         /\ highWater' \in [Sender -> Nat \cup {NoMark}]
         /\ \A s \in Sender : highWater'[s] >= highWater[s]
         /\ totalSeen' \in Int
         /\ admitsSincePrune' \in Nat
         /\ evicted' \subseteq Message
         /\ evicted \ {m} \subseteq evicted'
         /\ \A x \in Message \ {m} : seen'[x] \in {0, seen[x]}
         /\ \A x \in Message \ evicted' :
              (x = m \/ seen[x] # 0) => seen'[x] # 0 \/ BelowWindow(highWater', x)
         /\ CountExact => CountExact'
<1> DEFINE s        == From[m]
           inserted == [seen EXCEPT ![m] = serial + 1]
           created  == [opened EXCEPT ![s] = IF @ = 0 THEN serial + 1 ELSE @]
           marks    == [highWater EXCEPT ![s] = MarkAfter(s, Timestamp[m], now)]
           over     == PerSenderOverflow(inserted, s)
           capped   == Drop(inserted, over)
           count    == totalSeen + 1 - Cardinality(over)
           pruned   == PruneAll(capped, created, marks, count)
<1>1. s \in Sender
  BY MessagesAssumption
<1>2. /\ inserted \in [Message -> Nat]
      /\ created \in [Sender -> Nat]
      /\ \A x \in Message : inserted[x] = IF x = m THEN serial + 1 ELSE seen[x]
  BY <1>1 DEF TypeOK
<1>3. /\ marks \in [Sender -> Nat \cup {NoMark}]
      /\ \A t \in Sender : marks[t] >= highWater[t]
  <2>1. highWater \in [Sender -> Nat \cup {NoMark}]
    BY DEF TypeOK
  <2>2. MarkAfter(s, Timestamp[m], now) \in Nat
        /\ MarkAfter(s, Timestamp[m], now) >= highWater[s]
    BY <1>1, <2>1, MarkLemma
  <2> HIDE DEF s
  <2>3. \A t \in Sender :
          marks[t] = IF t = s THEN MarkAfter(s, Timestamp[m], now) ELSE highWater[t]
    BY <1>1, <2>1
  <2>4. marks \in [Sender -> Nat \cup {NoMark}]
    BY <2>1, <2>2
  <2> HIDE DEF marks
  <2>5. ASSUME NEW t \in Sender
        PROVE  marks[t] >= highWater[t]
    BY <2>1, <2>2, <2>3 DEF NoMark
  <2> QED BY <2>4, <2>5
<1> HIDE DEF marks, created, inserted
<1>4. /\ over \subseteq Message
      /\ over \subseteq Retained(inserted)
  BY DEF PerSenderOverflow, RetainedFrom, Retained
<1> HIDE DEF over
<1>5. /\ capped \in [Message -> Nat]
      /\ Retained(capped) = Retained(inserted) \ over
      /\ \A x \in Message : capped[x] = IF x \in over THEN 0 ELSE inserted[x]
  BY <1>2, DropLemma
<1>6. Cardinality(over) \in Nat /\ count \in Int
  BY <1>4, MessagesFinite DEF TypeOK, count
<1> HIDE DEF capped
<1>7. ASSUME CountExact
      PROVE  count = Cardinality(Retained(capped))
  <2>1. /\ m \notin Retained(seen)
        /\ Retained(inserted) = Retained(seen) \cup {m}
        /\ Retained(seen) \subseteq Message
        /\ Retained(inserted) \subseteq Message
    BY <1>2 DEF Admit, Duplicate, Retained, TypeOK
  <2>2. Cardinality(Retained(inserted)) = Cardinality(Retained(seen)) + 1
    BY <2>1, MessagesFinite, FS_AddElement
  <2>3. Cardinality(Retained(capped))
          = Cardinality(Retained(inserted)) - Cardinality(over)
    BY <1>4, <1>5, <2>1, RemovePart
  <2> QED BY <1>7, <2>2, <2>3, <1>6, <2>1, MessagesFinite DEF CountExact, count
<1> HIDE DEF count, pruned
<1>8. pruned = PruneAll(capped, created, marks, count)
  BY DEF pruned
<1>9. /\ pruned.seen \in [Message -> Nat]
      /\ pruned.opened \in [Sender -> Nat]
      /\ pruned.total \in Int
      /\ pruned.evict \subseteq Message
      /\ \A x \in Message : pruned.seen[x] \in {0, capped[x]}
      /\ \A x \in Message \ pruned.evict :
           capped[x] # 0 /\ pruned.seen[x] = 0 => BelowWindow(marks, x)
      /\ count = Cardinality(Retained(capped)) =>
           pruned.total = Cardinality(Retained(pruned.seen))
  <2>1. /\ capped \in [Message -> Nat]
        /\ created \in [Sender -> Nat]
        /\ count \in Int
    BY <1>2, <1>5, <1>6
  <2> QED BY ONLY <1>8, <2>1, PruneLemma
<1>10. highWater' = marks /\ serial \in Nat
  BY DEF Admit, TypeOK, marks
<1>11. \/ /\ seen' = capped
          /\ opened' = created
          /\ totalSeen' = count
          /\ admitsSincePrune' = admitsSincePrune + 1
          /\ evicted' = (evicted \ {m}) \cup over
       \/ /\ seen' = pruned.seen
          /\ opened' = pruned.opened
          /\ totalSeen' = pruned.total
          /\ admitsSincePrune' = 0
          /\ evicted' = (evicted \ {m}) \cup over \cup pruned.evict
  BY DEF Admit, count, capped, over, marks, created, inserted, pruned
<1>12. evicted \subseteq Message /\ admitsSincePrune \in Nat /\ seen \in [Message -> Nat]
  BY DEF TypeOK
<1>13. CASE /\ seen' = capped
            /\ opened' = created
            /\ totalSeen' = count
            /\ admitsSincePrune' = admitsSincePrune + 1
            /\ evicted' = (evicted \ {m}) \cup over
  <2>1. /\ seen' \in [Message -> Nat]
        /\ opened' \in [Sender -> Nat]
        /\ totalSeen' \in Int
        /\ admitsSincePrune' \in Nat
        /\ evicted' \subseteq Message
        /\ evicted \ {m} \subseteq evicted'
    BY <1>2, <1>4, <1>5, <1>6, <1>12, <1>13
  <2>2. \A x \in Message \ {m} : seen'[x] \in {0, seen[x]}
    BY <1>2, <1>5, <1>13
  <2>3. \A x \in Message \ evicted' :
          (x = m \/ seen[x] # 0) => seen'[x] # 0
    BY <1>2, <1>5, <1>10, <1>13
  <2>4. CountExact => CountExact'
    BY <1>7, <1>13 DEF CountExact
  <2> QED BY <1>3, <1>10, <2>1, <2>2, <2>3, <2>4
<1>14. CASE /\ seen' = pruned.seen
            /\ opened' = pruned.opened
            /\ totalSeen' = pruned.total
            /\ admitsSincePrune' = 0
            /\ evicted' = (evicted \ {m}) \cup over \cup pruned.evict
  <2>1. /\ seen' \in [Message -> Nat]
        /\ opened' \in [Sender -> Nat]
        /\ totalSeen' \in Int
        /\ admitsSincePrune' \in Nat
        /\ evicted' \subseteq Message
        /\ evicted \ {m} \subseteq evicted'
    BY <1>4, <1>9, <1>12, <1>14
  <2>2. \A x \in Message \ {m} : seen'[x] \in {0, seen[x]}
    BY <1>2, <1>5, <1>9, <1>14
  <2>3. \A x \in Message \ evicted' :
          (x = m \/ seen[x] # 0) => seen'[x] # 0 \/ BelowWindow(highWater', x)
    BY <1>2, <1>5, <1>9, <1>10, <1>14
  <2>4. CountExact => CountExact'
    BY <1>7, <1>9, <1>14 DEF CountExact
  <2> QED BY <1>3, <1>10, <2>1, <2>2, <2>3, <2>4
<1> QED BY <1>11, <1>13, <1>14

(* Export drops only entries below their sender's window or recorded as     *)
(* evicted, and keeps the count exact.                                      *)
LEMMA ExportLemma ==
  ASSUME TypeOK, Export
  PROVE  /\ seen' \in [Message -> Nat]
         /\ opened' \in [Sender -> Nat]
         /\ totalSeen' \in Int
         /\ evicted' \subseteq Message
         /\ evicted \subseteq evicted'
         /\ \A x \in Message : seen'[x] \in {0, seen[x]}
         /\ \A x \in Message \ evicted' :
              seen[x] # 0 => seen'[x] # 0 \/ BelowWindow(highWater, x)
         /\ CountExact => CountExact'
<1> DEFINE pruned == PruneAll(seen, opened, highWater, totalSeen)
<1>1. /\ seen' = pruned.seen
      /\ opened' = pruned.opened
      /\ totalSeen' = pruned.total
      /\ evicted' = evicted \cup pruned.evict
  BY DEF Export
<1>2. pruned = PruneAll(seen, opened, highWater, totalSeen)
  OBVIOUS
<1> HIDE DEF pruned
<1>3. seen \in [Message -> Nat] /\ opened \in [Sender -> Nat] /\ totalSeen \in Int
  BY DEF TypeOK
<1>4. /\ pruned.seen \in [Message -> Nat]
      /\ pruned.opened \in [Sender -> Nat]
      /\ pruned.total \in Int
      /\ pruned.evict \subseteq Message
      /\ \A x \in Message : pruned.seen[x] \in {0, seen[x]}
      /\ \A x \in Message \ pruned.evict :
           seen[x] # 0 /\ pruned.seen[x] = 0 => BelowWindow(highWater, x)
      /\ totalSeen = Cardinality(Retained(seen)) =>
           pruned.total = Cardinality(Retained(pruned.seen))
  BY <1>2, <1>3, PruneLemma
<1> QED BY <1>1, <1>4 DEF TypeOK, CountExact

-----------------------------------------------------------------------------
(* The state predicates, one step each. *)

(* The empty maps of a new guard, and what an encryptor is handed first.    *)
LEMMA EmptyType == EmptyState \in StateType
BY DEF EmptyState, StateType, NoMark

(* Every variable keeps its type: serials and marks stay naturals through   *)
(* every insertion, eviction, prune, save and restore.                      *)
THEOREM TypeCorrect == Spec => []TypeOK
<1>1. Init => TypeOK
  <2>1. /\ EmptyState.seen \in [Message -> Nat]
        /\ EmptyState.opened \in [Sender -> Nat]
        /\ EmptyState.highWater \in [Sender -> Nat \cup {NoMark}]
    BY DEF EmptyState
  <2>2. 0 \in Nat /\ 0 \in Int
    OBVIOUS
  <2> QED BY <2>1, <2>2, EmptyType, Zenon DEF Init, TypeOK
<1>2. TypeOK /\ [Next]_vars => TypeOK'
  <2> SUFFICES ASSUME TypeOK, [Next]_vars
               PROVE  TypeOK'
    OBVIOUS
  <2>1. ASSUME NEW m \in Message, NEW now \in Now, Admit(m, now)
        PROVE  TypeOK'
    <3>1. /\ serial' \in Nat
          /\ destroyed' \in BOOLEAN
          /\ accepted' \subseteq Message
          /\ exported' \in StateType
          /\ durable' \in StateType
      BY <2>1 DEF Admit, TypeOK
    <3> QED BY <2>1, <3>1, AdmitLemma DEF TypeOK
  <2>2. CASE Export
    <3>1. /\ UNCHANGED <<highWater, destroyed, serial, accepted, durable>>
          /\ admitsSincePrune' = 0
          /\ exported' = [seen |-> seen', opened |-> opened', highWater |-> highWater,
                          accepted |-> accepted, evicted |-> evicted']
      BY <2>2 DEF Export
    <3>2. exported' \in StateType
      BY <2>2, <3>1, ExportLemma DEF TypeOK, StateType
    <3> QED BY <2>2, <3>1, <3>2, ExportLemma DEF TypeOK
  <2>3. CASE Land
    BY <2>3 DEF Land, TypeOK, guard
  <2>4. CASE Destroy
    BY <2>4, EmptyType DEF Destroy, TypeOK, StateType
  <2>5. CASE Restore
    <3>1. Retained(durable.seen) \subseteq Message
      BY DEF Retained
    <3>2. Cardinality(Retained(durable.seen)) \in Nat
      BY <3>1, MessagesFinite
    <3>3. /\ durable.seen \in [Message -> Nat]
          /\ durable.opened \in [Sender -> Nat]
          /\ durable.highWater \in [Sender -> Nat \cup {NoMark}]
          /\ durable.accepted \in SUBSET Message
          /\ durable.evicted \in SUBSET Message
      BY DEF TypeOK, StateType
    <3>4. 0 \in Nat /\ totalSeen' \in Int
      BY <2>5, <3>2 DEF Restore
    <3> QED BY <2>5, <3>3, <3>4, Zenon DEF Restore, TypeOK
  <2>6. CASE UNCHANGED vars
    BY <2>6 DEF vars, guard, TypeOK
  <2> QED BY <2>1, <2>2, <2>3, <2>4, <2>5, <2>6 DEF Next
<1> QED BY <1>1, <1>2, PTL DEF Spec

(* The counter the total cap is enforced with never drifts from the Maps.   *)
THEOREM CountCorrect == Spec => []CountExact
<1>1. Init => CountExact
  <2>1. Retained(EmptyState.seen) = {}
    BY DEF Retained, EmptyState
  <2> QED BY <2>1, FS_EmptySet DEF Init, CountExact
<1>2. TypeOK /\ CountExact /\ [Next]_vars => CountExact'
  <2> SUFFICES ASSUME TypeOK, CountExact, [Next]_vars
               PROVE  CountExact'
    OBVIOUS
  <2>1. ASSUME NEW m \in Message, NEW now \in Now, Admit(m, now)
        PROVE  CountExact'
    BY <2>1, AdmitLemma
  <2>2. CASE Export
    BY <2>2, ExportLemma
  <2>3. CASE Land
    BY <2>3 DEF Land, guard, CountExact
  <2>4. CASE Destroy
    <3>1. Retained(EmptyState.seen) = {}
      BY DEF Retained, EmptyState
    <3> QED BY <2>4, <3>1, FS_EmptySet DEF Destroy, CountExact
  <2>5. CASE Restore
    BY <2>5 DEF Restore, CountExact
  <2>6. CASE UNCHANGED vars
    BY <2>6 DEF vars, guard, CountExact
  <2> QED BY <2>1, <2>2, <2>3, <2>4, <2>5, <2>6 DEF Next
<1> QED BY <1>1, <1>2, TypeCorrect, PTL DEF Spec

(* Whatever pruning, caps, exports and restores did, a message that was     *)
(* accepted is still refused, unless a hard cap evicted it; and the same    *)
(* holds of what the store holds and of what is on its way there.           *)
THEOREM DedupeWall == Spec => []Remembered
<1>1. Init => Remembered
  <2>1. Remembers(EmptyState.seen, EmptyState.highWater, {}, {})
        /\ EmptyState.accepted = {} /\ EmptyState.evicted = {}
    BY DEF Remembers, EmptyState
  <2> QED BY <2>1 DEF Init, Remembered
<1>2. TypeOK /\ Remembered /\ [Next]_vars => Remembered'
  <2> SUFFICES ASSUME TypeOK, Remembered, [Next]_vars
               PROVE  Remembered'
    OBVIOUS
  <2>1. ASSUME NEW m \in Message, NEW now \in Now, Admit(m, now)
        PROVE  Remembered'
    <3>1. /\ ~destroyed
          /\ accepted' = accepted \cup {m}
          /\ exported' = exported
          /\ durable' = durable
      BY <2>1 DEF Admit
    <3>2. Remembers(seen, highWater, accepted, evicted)
      BY <3>1 DEF Remembered
    <3>3. ASSUME NEW x \in accepted' \ evicted'
          PROVE  seen'[x] # 0 \/ BelowWindow(highWater', x)
      <4>1. /\ x \in Message
            /\ x = m \/ x \in accepted \ evicted
            /\ highWater \in [Sender -> Nat \cup {NoMark}]
        BY <2>1, <3>1, <3>3, AdmitLemma DEF TypeOK
      <4>2. CASE x = m \/ seen[x] # 0
        BY <2>1, <3>3, <4>1, <4>2, AdmitLemma
      <4>3. CASE BelowWindow(highWater, x)
        BY <2>1, <4>1, <4>3, AdmitLemma, BelowStays
      <4> QED BY <3>2, <4>1, <4>2, <4>3 DEF Remembers
    <3> QED BY <3>1, <3>3 DEF Remembered, Remembers
  <2>2. CASE Export
    <3>1. /\ ~destroyed
          /\ UNCHANGED <<highWater, destroyed, accepted, durable>>
          /\ exported' = [seen |-> seen', opened |-> opened', highWater |-> highWater,
                          accepted |-> accepted, evicted |-> evicted']
      BY <2>2 DEF Export
    <3>2. Remembers(seen, highWater, accepted, evicted)
      BY <3>1 DEF Remembered
    <3>3. ASSUME NEW x \in accepted \ evicted'
          PROVE  seen'[x] # 0 \/ BelowWindow(highWater, x)
      <4>1. x \in Message /\ x \in accepted \ evicted
        BY <2>2, <3>3, ExportLemma DEF TypeOK
      <4> QED BY <2>2, <3>2, <3>3, <4>1, ExportLemma DEF Remembers
    <3>4. Remembers(seen', highWater, accepted, evicted')
      BY <3>3 DEF Remembers
    <3>5. /\ exported'.seen = seen'
          /\ exported'.highWater = highWater
          /\ exported'.accepted = accepted
          /\ exported'.evicted = evicted'
      BY <3>1
    <3> QED BY <3>1, <3>4, <3>5 DEF Remembered, Remembers
  <2>3. CASE Land
    BY <2>3 DEF Land, guard, Remembered, Remembers, BelowWindow
  <2>4. CASE Destroy
    BY <2>4 DEF Destroy, Remembered, Remembers, BelowWindow
  <2>5. CASE Restore
    BY <2>5 DEF Restore, Remembered, Remembers, BelowWindow
  <2>6. CASE UNCHANGED vars
    BY <2>6 DEF vars, guard, Remembered, Remembers, BelowWindow
  <2> QED BY <2>1, <2>2, <2>3, <2>4, <2>5, <2>6 DEF Next
<1> QED BY <1>1, <1>2, TypeCorrect, PTL DEF Spec

(* No step of a live session inserts a message a second time: the dedupe    *)
(* wall answers 'duplicate' or 'stale' for everything it took, unless a cap *)
(* had evicted it.                                                          *)
THEOREM NeverReaccepted == Spec => NoReaccept
<1> DEFINE Kept == ~destroyed /\ ~destroyed' =>
                     \A m \in accepted \ evicted : seen'[m] \in {0, seen[m]}
<1>1. TypeOK /\ Remembered /\ [Next]_vars => [Kept]_vars
  <2> SUFFICES ASSUME TypeOK, Remembered, Next, ~destroyed, ~destroyed',
                      NEW x \in accepted \ evicted
               PROVE  seen'[x] \in {0, seen[x]}
    OBVIOUS
  <2>1. x \in Message /\ (seen[x] # 0 \/ BelowWindow(highWater, x))
    BY DEF Remembered, Remembers, TypeOK
  <2>2. ASSUME NEW m \in Message, NEW now \in Now, Admit(m, now)
        PROVE  seen'[x] \in {0, seen[x]}
    <3>1. x # m
      BY <2>1, <2>2 DEF Admit, Stale, Duplicate
    <3> QED BY <2>1, <2>2, <3>1, AdmitLemma
  <2>3. CASE Export
    BY <2>1, <2>3, ExportLemma
  <2>4. CASE Land
    BY <2>4 DEF Land, guard
  <2>5. CASE Destroy
    BY <2>5 DEF Destroy
  <2>6. CASE Restore
    BY <2>6 DEF Restore
  <2> QED BY <2>2, <2>3, <2>4, <2>5, <2>6 DEF Next
<1> QED BY <1>1, TypeCorrect, DedupeWall, PTL DEF Spec, NoReaccept
-----------------------------------------------------------------------------
(* The caps. What they leave is counted from the order they evict in.       *)

(* A set of messages that is not empty has one that comes before all the    *)
(* others it is comparable with, in every strict order.                     *)
LEMMA SomeFirst ==
  ASSUME NEW X \in SUBSET Message, X # {},
         NEW pred \in [Message -> SUBSET Message],
         \A x, y \in Message : y \in pred[x] => pred[y] \subseteq pred[x],
         \A x \in Message : x \notin pred[x]
  PROVE  \E x \in X : pred[x] \cap X = {}
<1> DEFINE T == { pred[x] : x \in X }
<1>1. T \subseteq FiniteSubsetsOf(Message)
  <2> SUFFICES ASSUME NEW x \in X PROVE pred[x] \subseteq Message /\ IsFiniteSet(pred[x])
    BY DEF FiniteSubsetsOf
  <2>1. x \in Message
    OBVIOUS
  <2>2. pred[x] \subseteq Message
    BY <2>1
  <2>3. QED  BY <2>2, MessagesFinite
<1>2. PICK P \in T : \A Q \in T : ~ (<<Q, P>> \in StrictSubsetOrdering(Message))
  <2>1. T # {}
    OBVIOUS
  <2> HIDE DEF T
  <2>2. QED  BY <1>1, <2>1, WFMin, FS_StrictSubsetOrderingWellFounded
<1>3. PICK x \in X : P = pred[x]
  OBVIOUS
<1>4. ASSUME NEW y \in pred[x] \cap X PROVE FALSE
  <2>1. x \in Message /\ y \in Message /\ y \in pred[x] /\ pred[y] \in T
    OBVIOUS
  <2>2. pred[y] \subseteq pred[x] /\ y \notin pred[y]
        /\ pred[x] \subseteq Message /\ pred[y] \subseteq Message
    BY <2>1
  <2>3. <<pred[y], pred[x]>> \in StrictSubsetOrdering(Message)
    BY <2>1, <2>2 DEF StrictSubsetOrdering
  <2> HIDE DEF T
  <2>4. QED  BY <1>2, <1>3, <2>1, <2>3
<1>5. QED  BY <1>4

\* Entries of a Map have serials of their own, so insertion order is total.
Serialised(f) == \A m, n \in Message : f[m] = f[n] /\ f[m] # 0 => m = n

(* What enforcePerSenderCap leaves of one sender is within the cap, and     *)
(* nothing goes while there is room.                                        *)
LEMMA PerSenderCapLemma ==
  ASSUME NEW f \in [Message -> Nat], NEW s, Serialised(f),
         NEW left, left = RetainedFrom(f, s) \ PerSenderOverflow(f, s)
  PROVE  /\ Cardinality(left) <= MaxPerSender
         /\ PerSenderOverflow(f, s) # {} => Cardinality(RetainedFrom(f, s)) > MaxPerSender
<1> DEFINE R == RetainedFrom(f, s)
           Later(m) == { n \in R : f[m] < f[n] }
<1>1. R \subseteq Message /\ left \subseteq R /\ MaxPerSender \in Nat \ {0}
      /\ \A m \in R : Later(m) \subseteq R /\ m \notin Later(m) /\ f[m] # 0
  BY LimitsAssumption DEF RetainedFrom, Retained
<1>2. \A m \in R : m \in left <=> ~(Cardinality(Later(m)) >= MaxPerSender)
  BY DEF PerSenderOverflow
<1>3. ASSUME NEW m \in R
      PROVE  /\ IsFiniteSet(Later(m)) /\ Cardinality(Later(m)) \in Nat
             /\ Cardinality({m} \cup Later(m)) = Cardinality(Later(m)) + 1
             /\ Cardinality({m} \cup Later(m)) <= Cardinality(R)
             /\ IsFiniteSet({m} \cup Later(m))
  <2> HIDE DEF R
  <2>1. IsFiniteSet(Later(m)) /\ Cardinality(Later(m)) \in Nat /\ IsFiniteSet(R)
    BY <1>1, MessagesFinite
  <2> DEFINE L == Later(m)
  <2>2. m \notin L /\ L \subseteq R
    BY <1>1
  <2> HIDE DEF L
  <2>3. /\ IsFiniteSet(L \cup {m}) /\ Cardinality(L \cup {m}) = Cardinality(L) + 1
    BY <2>1, <2>2, FS_AddElement DEF L
  <2>4. L \cup {m} = {m} \cup L /\ L \cup {m} \in SUBSET R
    BY <2>2
  <2>5. Cardinality(L \cup {m}) <= Cardinality(R)
    BY <2>1, <2>4, FS_Subset
  <2>6. QED  BY <2>1, <2>3, <2>4, <2>5 DEF L
<1>4. Cardinality(left) <= MaxPerSender
  <2>1. CASE left = {}
    BY <2>1, FS_EmptySet, LimitsAssumption
  <2>2. CASE left # {}
    <3> DEFINE pred == [m \in Message |-> { n \in Message : f[n] < f[m] }]
    <3>1. \A x, y \in Message : y \in pred[x] => pred[y] \subseteq pred[x]
      OBVIOUS
    <3>2. pred \in [Message -> SUBSET Message] /\ \A x \in Message : x \notin pred[x]
      OBVIOUS
    <3>3. PICK x \in left : pred[x] \cap left = {}
      <4> HIDE DEF pred
      <4>1. QED  BY <3>1, <3>2, <2>2, <1>1, SomeFirst
    <3>4. left \subseteq {x} \cup Later(x)
      <4> SUFFICES ASSUME NEW y \in left, y # x PROVE f[x] < f[y]
        BY <1>1
      <4>1. x \in Message /\ y \in Message /\ f[x] # 0 /\ y \notin pred[x]
        BY <3>3, <1>1
      <4>2. ~ (f[y] < f[x])
        BY <4>1
      <4>3. f[x] # f[y]
        BY <4>1 DEF Serialised
      <4>4. QED  BY <4>1, <4>2, <4>3
    <3>5. x \in R /\ Cardinality(Later(x)) \in Nat /\ Cardinality(Later(x)) < MaxPerSender
      <4>1. x \in R /\ ~ (Cardinality(Later(x)) >= MaxPerSender)
        BY <1>1, <1>2
      <4>2. Cardinality(Later(x)) \in Nat
        BY <1>3, <4>1
      <4> HIDE DEF Later, R
      <4>3. QED  BY <4>1, <4>2, <1>1
    <3> HIDE DEF Later, R
    <3>6. Cardinality(left) <= Cardinality({x} \cup Later(x)) /\ Cardinality(left) \in Nat
      <4>1. left \in SUBSET ({x} \cup Later(x)) /\ left \subseteq Message
        BY <3>4, <1>1
      <4>2. QED  BY <4>1, <1>3, <3>5, FS_Subset, MessagesFinite
    <3>7. QED  BY <3>5, <3>6, <1>1, <1>3
  <2>3. QED  BY <2>1, <2>2
<1>5. ASSUME NEW m \in PerSenderOverflow(f, s)
      PROVE  Cardinality(R) > MaxPerSender
  <2>1. m \in R /\ Cardinality(Later(m)) >= MaxPerSender
    BY DEF PerSenderOverflow
  <2> HIDE DEF Later, R
  <2>2. Cardinality(R) \in Nat /\ MaxPerSender \in Nat
    BY <1>1, MessagesFinite
  <2>3. /\ Cardinality(Later(m)) \in Nat
        /\ Cardinality(Later(m)) + 1 <= Cardinality(R)
    BY <2>1, <1>3
  <2>4. QED  BY <2>1, <2>2, <2>3
<1>6. QED  BY <1>4, <1>5

(* What enforceTotalCap leaves, given the exact count, is within the cap,   *)
(* and nothing goes while there is room.                                    *)
LEMMA TotalCapLemma ==
  ASSUME NEW f \in [Message -> Nat], NEW op \in [Sender -> Nat],
         NEW count, count = Cardinality(Retained(f)),
         NEW over, over = TotalOverflow(f, op, count)
  PROVE  /\ Cardinality(Retained(f) \ over) <= MaxTotal
         /\ over # {} => count > MaxTotal
<1> DEFINE R == Retained(f)
           Earlier(m) == { n \in R : Before(f, op, n, m) }
<1>1. /\ R \subseteq Message /\ over \subseteq R /\ MaxTotal \in Nat
      /\ \A m \in R : m \in over <=> Cardinality(Earlier(m)) < count - MaxTotal
      /\ \A m \in R : Earlier(m) \subseteq Message
  BY LimitsAssumption DEF Retained, TotalOverflow
<1>2. /\ IsFiniteSet(R) /\ count \in Nat
      /\ IsFiniteSet(over) /\ Cardinality(over) \in Nat
      /\ \A m \in R : Cardinality(Earlier(m)) \in Nat
  <2>1. \A m \in R : Cardinality(Earlier(m)) \in Nat
    BY <1>1, MessagesFinite
  <2>2. over \subseteq Message
    BY <1>1
  <2> HIDE DEF R, Earlier
  <2>3. QED  BY <1>1, <2>1, <2>2, MessagesFinite DEF R
<1>3. ASSUME NEW m \in over PROVE count > MaxTotal
  <2>1. m \in R
    BY <1>1
  <2>2. Cardinality(Earlier(m)) < count - MaxTotal /\ Cardinality(Earlier(m)) \in Nat
    BY <1>1, <1>2, <2>1
  <2> HIDE DEF Earlier, R
  <2>3. QED  BY <2>2, <1>1, <1>2
\* What goes first is what has too few before it: as many as the excess.
<1>4. R \ over # {} => Cardinality(over) >= count - MaxTotal
  <2> SUFFICES ASSUME R \ over # {} PROVE Cardinality(over) >= count - MaxTotal
    OBVIOUS
  <2> DEFINE pred == [m \in Message |-> { n \in Message : Before(f, op, n, m) }]
  <2>1. pred \in [Message -> SUBSET Message]
    OBVIOUS
  <2>2. \A x, y \in Message : y \in pred[x] => pred[y] \subseteq pred[x]
    <3> SUFFICES ASSUME NEW x \in Message, NEW y \in Message, NEW z \in Message,
                        Before(f, op, y, x), Before(f, op, z, y)
                 PROVE  Before(f, op, z, x)
      OBVIOUS
    <3>1. From[x] \in Sender /\ From[y] \in Sender /\ From[z] \in Sender
      BY MessagesAssumption
    <3>2. QED  BY <3>1 DEF Before
  <2>3. \A x \in Message : x \notin pred[x]
    BY DEF Before
  <2>4. PICK x \in R \ over : pred[x] \cap (R \ over) = {}
    <3>1. R \ over \in SUBSET Message
      BY <1>1
    <3> HIDE DEF pred, R
    <3>2. QED  BY <2>1, <2>2, <2>3, <3>1, SomeFirst
  <2>5. Earlier(x) \subseteq over
    BY <2>4, <1>1
  <2>6. ~ (Cardinality(Earlier(x)) < count - MaxTotal)
    BY <1>1
  <2>7. Cardinality(Earlier(x)) <= Cardinality(over)
    <3> HIDE DEF Earlier
    <3>1. QED  BY <2>5, <1>2, FS_Subset
  <2>8. x \in R
    OBVIOUS
  <2> HIDE DEF Earlier, R
  <2>9. QED  BY <2>6, <2>7, <2>8, <1>1, <1>2
<1>5. Cardinality(R \ over) = count - Cardinality(over)
  BY <1>1, RemovePart
<1>6. CASE R \ over = {}
  <2> HIDE DEF R
  <2>1. QED  BY <1>1, <1>3, <1>6, FS_EmptySet DEF R
<1>7. CASE R \ over # {}
  <2> HIDE DEF R
  <2>1. QED  BY <1>1, <1>2, <1>3, <1>4, <1>5, <1>7 DEF R
<1>8. QED  BY <1>3, <1>6, <1>7

(* pruneAll, given the exact count, leaves no more than the total cap, and  *)
(* evicts nothing while there is room.                                      *)
LEMMA PruneFits ==
  ASSUME NEW f \in [Message -> Nat], NEW op \in [Sender -> Nat], NEW hw,
         NEW p, p = PruneAll(f, op, hw, Cardinality(Retained(f)))
  PROVE  /\ p.total <= MaxTotal
         /\ p.evict \subseteq Message /\ p.evict \cap Retained(p.seen) = {}
         /\ p.evict # {} => Cardinality(Retained(f)) > MaxTotal
<1> DEFINE aged == Aged(f, hw)
           inW  == Drop(f, aged)
           left == Cardinality(Retained(f)) - Cardinality(aged)
           over == TotalOverflow(inW, op, left)
<1>1. aged \subseteq Retained(f) /\ Retained(f) \subseteq Message
  BY DEF Aged, Retained
<1>2. inW \in [Message -> Nat] /\ Retained(inW) = Retained(f) \ aged
  BY DropLemma
<1>3. left = Cardinality(Retained(inW)) /\ Cardinality(Retained(inW)) \in Nat
      /\ Cardinality(Retained(f)) \in Nat /\ Cardinality(Retained(inW)) <= Cardinality(Retained(f))
  <2>1. Cardinality(Retained(f) \ aged) = left
    BY <1>1, RemovePart
  <2>2. Retained(inW) \subseteq Message /\ Retained(inW) \in SUBSET Retained(f)
    BY <1>1, <1>2
  <2> HIDE DEF inW, aged
  <2>3. QED  BY <1>1, <1>2, <2>1, <2>2, MessagesFinite, FS_Subset
<1>4. over \subseteq Retained(inW) /\ over \subseteq Message
  BY DEF TotalOverflow, Retained
<1>5. /\ p.seen = Drop(inW, over) /\ p.total = left - Cardinality(over) /\ p.evict = over
  BY DEF PruneAll
<1> HIDE DEF inW, aged
<1>6. over = TotalOverflow(inW, op, left)
  OBVIOUS
<1> HIDE DEF over, left
<1>7. Cardinality(Retained(inW) \ over) <= MaxTotal /\ (over # {} => left > MaxTotal)
  BY <1>2, <1>3, <1>6, TotalCapLemma
<1>8. Cardinality(Retained(inW) \ over) = Cardinality(Retained(inW)) - Cardinality(over)
  BY <1>1, <1>2, <1>4, RemovePart
<1>9. Retained(p.seen) = Retained(inW) \ over
  BY <1>2, <1>5, DropLemma
<1>10. QED  BY <1>3, <1>4, <1>5, <1>7, <1>8, <1>9, LimitsAssumption

\* A guard's Map is within its senders' caps, and was made by n insertions.
Small(f, n) ==
  /\ Serialised(f)
  /\ \A m \in Message : f[m] <= n
  /\ \A s \in Sender : Cardinality(RetainedFrom(f, s)) <= MaxPerSender

LEMMA SmallShrinks ==
  ASSUME NEW f \in [Message -> Nat], NEW g \in [Message -> Nat],
         \A m \in Message : g[m] \in {0, f[m]},
         NEW n \in Nat, NEW k \in Nat, n <= k, Small(f, n)
  PROVE  Small(g, k)
<1>1. Serialised(g)
  BY DEF Small, Serialised
<1>2. ASSUME NEW m \in Message PROVE g[m] <= k
  <2>1. f[m] \in Nat /\ f[m] <= n /\ g[m] \in {0, f[m]}
    BY DEF Small
  <2>2. QED  BY <2>1
<1>3. ASSUME NEW s \in Sender PROVE Cardinality(RetainedFrom(g, s)) <= MaxPerSender
  <2>1. RetainedFrom(g, s) \in SUBSET RetainedFrom(f, s) /\ RetainedFrom(f, s) \subseteq Message
    BY DEF RetainedFrom, Retained
  <2>2. Cardinality(RetainedFrom(g, s)) <= Cardinality(RetainedFrom(f, s))
        /\ Cardinality(RetainedFrom(g, s)) \in Nat /\ Cardinality(RetainedFrom(f, s)) \in Nat
    BY <2>1, MessagesFinite, FS_Subset
  <2>3. QED  BY <2>2, LimitsAssumption DEF Small
<1>4. QED  BY <1>1, <1>2, <1>3 DEF Small

(* An accepting admit and its caps: the sender's cap holds at once, the     *)
(* total cap at the end of the prune period, and what they evict, they      *)
(* evict for want of room.                                                  *)
LEMMA AdmitCaps ==
  ASSUME TypeOK, CountExact, Small(seen, serial), NEW m \in Message, NEW now \in Now,
         Admit(m, now)
  PROVE  /\ Small(seen', serial')
         /\ \/ admitsSincePrune' = admitsSincePrune + 1 /\ admitsSincePrune' < PruneEvery
               /\ totalSeen' <= totalSeen + 1
            \/ admitsSincePrune' = 0 /\ totalSeen' <= MaxTotal
         /\ \E D \in SUBSET Message :
              /\ evicted' = (evicted \ {m}) \cup D
              /\ D \cap Retained(seen') = {}
              /\ D # {} => \/ Cardinality(Retained(seen) \cup {m}) > MaxPerSender
                           \/ Cardinality(Retained(seen) \cup {m}) > MaxTotal
<1> DEFINE s        == From[m]
           inserted == [seen EXCEPT ![m] = serial + 1]
           created  == [opened EXCEPT ![s] = IF @ = 0 THEN serial + 1 ELSE @]
           marks    == [highWater EXCEPT ![s] = MarkAfter(s, Timestamp[m], now)]
           over     == PerSenderOverflow(inserted, s)
           capped   == Drop(inserted, over)
           count    == totalSeen + 1 - Cardinality(over)
           pruned   == PruneAll(capped, created, marks, count)
<1>1. /\ serial' = serial + 1 /\ serial \in Nat /\ seen[m] = 0 /\ s \in Sender
      /\ totalSeen = Cardinality(Retained(seen)) /\ seen \in [Message -> Nat]
      /\ totalSeen \in Nat /\ Retained(seen) \subseteq Message
  <2>1. Retained(seen) \subseteq Message
    BY DEF Retained
  <2>2. QED
    BY <2>1, MessagesFinite, MessagesAssumption DEF Admit, Duplicate, TypeOK, CountExact
<1>2. \/ /\ admitsSincePrune + 1 < PruneEvery
         /\ seen' = capped
         /\ totalSeen' = count
         /\ admitsSincePrune' = admitsSincePrune + 1
         /\ evicted' = (evicted \ {m}) \cup over
      \/ /\ seen' = pruned.seen
         /\ totalSeen' = pruned.total
         /\ admitsSincePrune' = 0
         /\ evicted' = (evicted \ {m}) \cup over \cup pruned.evict
  BY DEF Admit
<1>3. /\ inserted \in [Message -> Nat]
      /\ created \in [Sender -> Nat]
      /\ \A x \in Message : inserted[x] = IF x = m THEN serial + 1 ELSE seen[x]
  BY <1>1 DEF TypeOK
<1>4. Retained(inserted) = Retained(seen) \cup {m}
  BY <1>1, <1>3 DEF Retained
<1> HIDE DEF inserted, created, marks
<1>5. Serialised(inserted) /\ \A x \in Message : inserted[x] <= serial + 1
  <2>1. \A x \in Message : seen[x] <= serial /\ seen[x] \in Nat
    BY <1>1 DEF Small
  <2>2. QED  BY <1>1, <1>3, <2>1 DEF Small, Serialised
<1>6. /\ over \subseteq RetainedFrom(inserted, s) /\ over \subseteq Retained(inserted)
      /\ over \subseteq Message /\ RetainedFrom(inserted, s) \subseteq Retained(inserted)
      /\ Retained(inserted) \subseteq Message
  BY DEF PerSenderOverflow, RetainedFrom, Retained
<1>7. /\ Cardinality(RetainedFrom(inserted, s) \ over) <= MaxPerSender
      /\ over # {} => Cardinality(RetainedFrom(inserted, s)) > MaxPerSender
  BY <1>3, <1>5, PerSenderCapLemma
<1> HIDE DEF over
<1>8. /\ capped \in [Message -> Nat]
      /\ Retained(capped) = Retained(inserted) \ over
      /\ \A x \in Message : capped[x] = IF x \in over THEN 0 ELSE inserted[x]
  BY <1>3, DropLemma
<1> HIDE DEF capped
<1>9. Small(capped, serial')
  <2>1. Serialised(capped) /\ \A x \in Message : capped[x] <= serial'
    <3>1. \A x \in Message : capped[x] <= serial + 1
      BY <1>1, <1>3, <1>5, <1>8
    <3>2. QED  BY <3>1, <1>1, <1>5, <1>8 DEF Serialised
  <2>2. ASSUME NEW t \in Sender PROVE Cardinality(RetainedFrom(capped, t)) <= MaxPerSender
    <3>1. CASE t = s
      <4>1. RetainedFrom(capped, t) = RetainedFrom(inserted, s) \ over
        BY <3>1, <1>8 DEF RetainedFrom
      <4>2. QED  BY <4>1, <1>7
    <3>2. CASE t # s
      <4>1. \A x \in Message : From[x] = t => x # m /\ x \notin over
        BY <3>2, <1>6 DEF RetainedFrom
      <4>2. \A x \in Message : From[x] = t => capped[x] = seen[x]
        BY <4>1, <1>3, <1>8
      <4>3. RetainedFrom(capped, t) = RetainedFrom(seen, t)
        BY <4>2 DEF RetainedFrom, Retained
      <4>4. QED  BY <4>3 DEF Small
    <3>3. QED  BY <3>1, <3>2
  <2>3. QED  BY <2>1, <2>2 DEF Small
\* The count follows the Maps, and is larger by one at most.
<1>10. /\ Cardinality(Retained(inserted)) = totalSeen + 1 /\ Cardinality(over) \in Nat
       /\ count = Cardinality(Retained(capped)) /\ count \in Nat
  <2>1. m \notin Retained(seen)
    BY <1>1 DEF Retained
  <2>2. Cardinality(Retained(inserted)) = totalSeen + 1
    BY <1>1, <1>4, <2>1, MessagesFinite, FS_AddElement
  <2>3. Cardinality(Retained(inserted) \ over) = Cardinality(Retained(inserted)) - Cardinality(over)
    BY <1>6, RemovePart
  <2>4. Retained(capped) \subseteq Message
    BY <1>6, <1>8
  <2>5. Cardinality(over) \in Nat /\ Cardinality(Retained(capped)) \in Nat
    BY <1>6, <2>4, MessagesFinite
  <2>6. QED  BY <2>2, <2>3, <2>5, <1>1, <1>8
<1> DEFINE room == Cardinality(Retained(seen) \cup {m})
<1>11. over # {} => room > MaxPerSender
  <2>1. Cardinality(RetainedFrom(inserted, s)) <= room /\ room \in Nat
        /\ Cardinality(RetainedFrom(inserted, s)) \in Nat
    <3>1. RetainedFrom(inserted, s) \in SUBSET Retained(inserted)
          /\ RetainedFrom(inserted, s) \subseteq Message
      BY <1>6
    <3>2. QED  BY <3>1, <1>4, <1>6, MessagesFinite, FS_Subset
  <2>2. QED  BY <2>1, <1>7, LimitsAssumption
<1>12. room = totalSeen + 1 /\ count <= room
  BY <1>1, <1>4, <1>10
<1> HIDE DEF room
<1>13. CASE /\ admitsSincePrune + 1 < PruneEvery
            /\ seen' = capped
            /\ totalSeen' = count
            /\ admitsSincePrune' = admitsSincePrune + 1
            /\ evicted' = (evicted \ {m}) \cup over
  <2>1. over \cap Retained(seen') = {}
    BY <1>8, <1>13
  <2>2. totalSeen' <= totalSeen + 1
    BY <1>12, <1>13
  <2>3. QED  BY <2>1, <2>2, <1>6, <1>9, <1>11, <1>13 DEF room
<1>14. CASE /\ seen' = pruned.seen
            /\ totalSeen' = pruned.total
            /\ admitsSincePrune' = 0
            /\ evicted' = (evicted \ {m}) \cup over \cup pruned.evict
  <2>1. pruned = PruneAll(capped, created, marks, Cardinality(Retained(capped)))
    BY <1>10
  <2> HIDE DEF pruned
  <2>2. /\ pruned.total <= MaxTotal
        /\ pruned.evict \subseteq Message /\ pruned.evict \cap Retained(pruned.seen) = {}
        /\ pruned.evict # {} => Cardinality(Retained(capped)) > MaxTotal
    BY ONLY <1>3, <1>8, <2>1, PruneFits
  <2>3. /\ pruned.seen \in [Message -> Nat]
        /\ \A x \in Message : pruned.seen[x] \in {0, capped[x]}
    <3>1. Cardinality(Retained(capped)) \in Int
      BY <1>10
    <3>2. QED  BY ONLY <1>3, <1>8, <2>1, <3>1, PruneLemma
  <2>4. Small(pruned.seen, serial')
    <3>1. serial' \in Nat /\ serial' <= serial'
      BY <1>1
    <3>2. QED  BY ONLY <3>1, <1>8, <1>9, <2>3, SmallShrinks
  <2>5. over \cap Retained(pruned.seen) = {}
    BY <1>6, <1>8, <2>3 DEF Retained
  <2>6. pruned.evict # {} => room > MaxTotal
    BY <2>2, <1>1, <1>10, <1>12, LimitsAssumption
  <2> DEFINE D == over \cup pruned.evict
  <2>7. /\ D \in SUBSET Message /\ evicted' = (evicted \ {m}) \cup D
        /\ D \cap Retained(seen') = {}
    BY <1>6, <1>14, <2>2, <2>5
  <2>8. D # {} => room > MaxPerSender \/ room > MaxTotal
    BY <1>11, <2>6
  <2> HIDE DEF D
  <2>9. QED  BY <2>2, <2>4, <2>7, <2>8, <1>14 DEF room
<1>15. QED
  <2> HIDE DEF pruned, count
  <2>1. QED  BY <1>2, <1>13, <1>14 DEF pruned, count

(* The same of an export, which evicts only above the total cap.            *)
LEMMA ExportCaps ==
  ASSUME TypeOK, CountExact, Small(seen, serial), Export
  PROVE  /\ Small(seen', serial') /\ totalSeen' <= MaxTotal
         /\ \E D \in SUBSET Message :
              /\ evicted' = evicted \cup D
              /\ D \cap Retained(seen') = {}
              /\ D # {} => Cardinality(Retained(seen)) > MaxTotal
<1> DEFINE pruned == PruneAll(seen, opened, highWater, totalSeen)
<1>1. /\ seen' = pruned.seen /\ totalSeen' = pruned.total
      /\ evicted' = evicted \cup pruned.evict /\ serial' = serial
  BY DEF Export
<1>2. pruned = PruneAll(seen, opened, highWater, Cardinality(Retained(seen)))
  BY DEF CountExact
<1> HIDE DEF pruned
<1>3. seen \in [Message -> Nat] /\ opened \in [Sender -> Nat] /\ serial \in Nat
  BY DEF TypeOK
<1>4. /\ pruned.total <= MaxTotal
      /\ pruned.evict \subseteq Message /\ pruned.evict \cap Retained(pruned.seen) = {}
      /\ pruned.evict # {} => Cardinality(Retained(seen)) > MaxTotal
  BY ONLY <1>2, <1>3, PruneFits
<1>5. seen' \in [Message -> Nat] /\ \A x \in Message : seen'[x] \in {0, seen[x]}
  BY ExportLemma
<1>6. Small(seen', serial)
  <2>1. serial <= serial
    BY <1>3
  <2>2. QED  BY <1>3, <1>5, <2>1, SmallShrinks
<1>7. QED  BY <1>1, <1>4, <1>6

\* A guard and both its saved forms are within the caps; the running guard
\* may be above the total cap by what one prune period admits.
Bounds ==
  /\ Small(seen, serial)
  /\ \A saved \in {exported, durable} :
       Small(saved.seen, serial) /\ Cardinality(Retained(saved.seen)) <= MaxTotal
  /\ totalSeen <= MaxTotal + admitsSincePrune
  /\ admitsSincePrune < PruneEvery

LEMMA EmptyIsSmall ==
  Small(EmptyState.seen, 0) /\ Retained(EmptyState.seen) = {}
<1>1. Retained(EmptyState.seen) = {} /\ \A m \in Message : EmptyState.seen[m] = 0
  BY DEF Retained, EmptyState
<1>2. \A s : RetainedFrom(EmptyState.seen, s) = {}
  BY <1>1 DEF RetainedFrom
<1>3. QED  BY <1>1, <1>2, FS_EmptySet, LimitsAssumption DEF Small, Serialised

LEMMA LaterIsSmall ==
  ASSUME NEW f \in [Message -> Nat], NEW n \in Nat, NEW k \in Nat, n <= k, Small(f, n)
  PROVE  Small(f, k)
BY SmallShrinks

LEMMA NextBounds == TypeOK /\ CountExact /\ Bounds /\ [Next]_vars => Bounds'
<1> SUFFICES ASSUME TypeOK, CountExact, Bounds, [Next]_vars PROVE Bounds'
  OBVIOUS
<1>1. /\ Small(seen, serial)
      /\ \A saved \in {exported, durable} :
           Small(saved.seen, serial) /\ Cardinality(Retained(saved.seen)) <= MaxTotal
      /\ totalSeen <= MaxTotal + admitsSincePrune /\ admitsSincePrune < PruneEvery
  BY DEF Bounds
<1>2. /\ serial \in Nat /\ admitsSincePrune \in Nat /\ totalSeen \in Int
      /\ MaxTotal \in Nat /\ PruneEvery \in Nat \ {0}
      /\ \A saved \in {exported, durable} : saved.seen \in [Message -> Nat]
  BY LimitsAssumption DEF TypeOK, StateType
<1>3. ASSUME NEW m \in Message, NEW now \in Now, Admit(m, now)
      PROVE  Bounds'
  <2>1. serial' = serial + 1 /\ exported' = exported /\ durable' = durable
    BY <1>3 DEF Admit
  <2>2. \A saved \in {exported, durable} : Small(saved.seen, serial')
    <3>1. serial' \in Nat /\ serial <= serial'
      BY <1>2, <2>1
    <3>2. QED  BY <1>1, <1>2, <3>1, LaterIsSmall
  <2>3. /\ Small(seen', serial')
        /\ \/ admitsSincePrune' = admitsSincePrune + 1 /\ admitsSincePrune' < PruneEvery
              /\ totalSeen' <= totalSeen + 1
           \/ admitsSincePrune' = 0 /\ totalSeen' <= MaxTotal
    BY <1>1, <1>3, AdmitCaps
  <2>4. totalSeen' \in Int
    BY <1>3, AdmitLemma
  <2>5. totalSeen' <= MaxTotal + admitsSincePrune' /\ admitsSincePrune' < PruneEvery
    BY <1>1, <1>2, <2>3, <2>4
  <2>6. QED  BY <1>1, <2>1, <2>2, <2>3, <2>5 DEF Bounds
<1>4. CASE Export
  <2>1. /\ serial' = serial /\ durable' = durable /\ admitsSincePrune' = 0
        /\ exported'.seen = seen'
    BY <1>4 DEF Export
  <2>2. Small(seen', serial') /\ totalSeen' <= MaxTotal
    BY <1>1, <1>4, ExportCaps
  <2>3. totalSeen' = Cardinality(Retained(seen')) /\ totalSeen' \in Int
    BY <1>4, ExportLemma DEF CountExact, Retained
  <2>4. QED  BY <1>1, <1>2, <2>1, <2>2, <2>3 DEF Bounds
<1>5. CASE Land
  BY <1>1, <1>5 DEF Land, guard, Bounds
<1>6. CASE Destroy
  <2>1. /\ serial' = serial /\ durable' = durable /\ exported' = exported
        /\ totalSeen' = 0 /\ admitsSincePrune' = admitsSincePrune /\ seen' = EmptyState.seen
    BY <1>6 DEF Destroy
  <2>2. Small(EmptyState.seen, serial)
    <3>1. EmptyState.seen \in [Message -> Nat] /\ 0 <= serial /\ 0 \in Nat
      BY <1>2 DEF EmptyState
    <3>2. QED  BY <3>1, <1>2, EmptyIsSmall, LaterIsSmall
  <2>3. QED  BY <1>1, <1>2, <2>1, <2>2 DEF Bounds
<1>7. CASE Restore
  <2>1. /\ serial' = serial /\ durable' = durable /\ exported' = exported
        /\ admitsSincePrune' = 0 /\ seen' = durable.seen
        /\ totalSeen' = Cardinality(Retained(durable.seen))
    BY <1>7 DEF Restore
  <2>2. QED  BY <1>1, <1>2, <2>1 DEF Bounds
<1>8. CASE UNCHANGED vars
  BY <1>1, <1>8 DEF vars, guard, Bounds
<1>9. QED  BY <1>3, <1>4, <1>5, <1>6, <1>7, <1>8 DEF Next

LEMMA BoundsInvariance == Spec => []Bounds
<1>1. Init => Bounds
  <2> SUFFICES ASSUME Init PROVE Bounds
    OBVIOUS
  <2>1. /\ seen = EmptyState.seen /\ serial = 0 /\ totalSeen = 0 /\ admitsSincePrune = 0
        /\ exported.seen = EmptyState.seen /\ durable.seen = EmptyState.seen
    BY DEF Init
  <2>2. QED  BY <2>1, EmptyIsSmall, FS_EmptySet, LimitsAssumption DEF Bounds
<1>2. QED  BY <1>1, NextBounds, TypeCorrect, CountCorrect, PTL DEF Spec

(* The guard's memory is bounded whatever is offered to it: the total cap   *)
(* plus the admits of one prune period, and no sender above its own cap     *)
(* (replay.ts admit, enforcePerSenderCap, enforceTotalCap, restore).        *)
THEOREM MemoryIsBounded == Spec => []MemoryBound
<1>1. Bounds => MemoryBound
  BY DEF Bounds, Small, MemoryBound
<1>2. QED  BY <1>1, BoundsInvariance, PTL

-----------------------------------------------------------------------------
(* The refinement. *)

\* What is in a Map is what the guard stands for and no cap dropped.
Stands ==
  /\ Retained(seen) \subseteq accepted \ evicted
  /\ \A saved \in {exported, durable} : Retained(saved.seen) \subseteq saved.accepted \ saved.evicted

LEMMA NextStands ==
  TypeOK /\ CountExact /\ Bounds /\ Stands /\ [Next]_vars => Stands'
<1> SUFFICES ASSUME TypeOK, CountExact, Bounds, Stands, [Next]_vars PROVE Stands'
  OBVIOUS
<1>1. Small(seen, serial) /\ accepted \subseteq Message
  BY DEF Bounds, TypeOK
<1>2. ASSUME NEW m \in Message, NEW now \in Now, Admit(m, now) PROVE Stands'
  <2>1. /\ accepted' = accepted \cup {m} /\ exported' = exported /\ durable' = durable
    BY <1>2 DEF Admit
  <2>2. PICK D \in SUBSET Message :
          evicted' = (evicted \ {m}) \cup D /\ D \cap Retained(seen') = {}
    BY <1>1, <1>2, AdmitCaps
  <2>3. Retained(seen') \subseteq Retained(seen) \cup {m}
    BY <1>2, AdmitLemma DEF Retained
  <2>4. QED  BY <2>1, <2>2, <2>3 DEF Stands
<1>3. CASE Export
  <2>1. /\ accepted' = accepted /\ durable' = durable
        /\ exported'.seen = seen' /\ exported'.accepted = accepted
        /\ exported'.evicted = evicted'
    BY <1>3 DEF Export
  <2>2. PICK D \in SUBSET Message : evicted' = evicted \cup D /\ D \cap Retained(seen') = {}
    BY <1>1, <1>3, ExportCaps
  <2>3. Retained(seen') \subseteq Retained(seen)
    BY <1>3, ExportLemma DEF Retained
  <2>4. Retained(seen') \subseteq accepted \ evicted'
    BY <2>2, <2>3 DEF Stands
  <2>5. QED  BY <2>1, <2>4 DEF Stands
<1>4. CASE Land
  BY <1>4 DEF Land, guard, Stands
<1>5. CASE Destroy
  BY <1>5, EmptyIsSmall DEF Destroy, Stands
<1>6. CASE Restore
  BY <1>6 DEF Restore, Stands
<1>7. CASE UNCHANGED vars
  BY <1>7 DEF vars, guard, Stands
<1>8. QED  BY <1>2, <1>3, <1>4, <1>5, <1>6, <1>7 DEF Next

(* The guard is a filter that takes each message at most once for as long   *)
(* as it holds it, forgets only for want of room, and after a restore holds *)
(* what the last save that landed held (replay.ts ReplayGuard).             *)
THEOREM ImplementsOnceFilter == Spec => FilterSpec
<1> DEFINE Capacity == IF MaxPerSender < MaxTotal THEN MaxPerSender ELSE MaxTotal
           Held == IF destroyed THEN {} ELSE accepted \ evicted
<1>1. Init => Stands /\ Filter!Init
  <2> SUFFICES ASSUME Init PROVE Stands /\ Filter!Init
    OBVIOUS
  <2>1. /\ seen = EmptyState.seen /\ exported = EmptyState /\ durable = EmptyState
        /\ accepted = {} /\ evicted = {} /\ destroyed = FALSE
        /\ EmptyState.accepted = {} /\ EmptyState.evicted = {}
    BY DEF Init, EmptyState
  <2>2. QED  BY <2>1, EmptyIsSmall DEF Stands, Filter!Init
<1>2. TypeOK /\ CountExact /\ Remembered /\ Bounds /\ Stands /\ [Next]_vars
        => [Filter!Next]_Filter!vars
  <2> SUFFICES ASSUME TypeOK, CountExact, Remembered, Bounds, Stands, [Next]_vars
               PROVE  [Filter!Next]_Filter!vars
    OBVIOUS
  <2>1. /\ Small(seen, serial) /\ accepted \subseteq Message
        /\ MaxPerSender \in Nat /\ MaxTotal \in Nat
        /\ Retained(seen) \subseteq accepted \ evicted
    BY LimitsAssumption DEF Bounds, TypeOK, Stands
  \* What does not fit a cap does not fit the filter.
  <2>2. ASSUME NEW R, NEW S, R \subseteq S, S \subseteq Message,
               Cardinality(R) > MaxPerSender \/ Cardinality(R) > MaxTotal
        PROVE  Cardinality(S) > Capacity
    <3>1. Cardinality(R) <= Cardinality(S) /\ Cardinality(R) \in Nat /\ Cardinality(S) \in Nat
      BY <2>2, MessagesFinite, FS_Subset
    <3>2. QED  BY <2>1, <2>2, <3>1
  <2>3. ASSUME NEW S, NEW D, D # {} => Cardinality(S) > Capacity
        PROVE  S \ D \in Filter!AfterForgetting(S)
    <3>1. D = {} => S \ D = S
      OBVIOUS
    <3>2. S \ D \in SUBSET S /\ (S \ D = S \/ Cardinality(S) > Capacity)
      BY <2>3, <3>1
    <3>3. Filter!Cardinality(S) = Cardinality(S)
      BY DEF Filter!Cardinality, Cardinality
    <3>4. QED  BY <3>2, <3>3 DEF Filter!AfterForgetting
  <2>4. ASSUME NEW m \in Message, NEW now \in Now, Admit(m, now)
        PROVE  Filter!Accept(m)
    <3>1. /\ ~destroyed /\ ~destroyed' /\ accepted' = accepted \cup {m}
          /\ exported' = exported /\ durable' = durable
          /\ seen[m] = 0 /\ ~BelowWindow(highWater, m)
      BY <2>4 DEF Admit, Stale, Duplicate
    <3>2. m \notin accepted \ evicted
      BY <3>1 DEF Remembered, Remembers
    <3>3. PICK D \in SUBSET Message :
            /\ evicted' = (evicted \ {m}) \cup D
            /\ D # {} => \/ Cardinality(Retained(seen) \cup {m}) > MaxPerSender
                         \/ Cardinality(Retained(seen) \cup {m}) > MaxTotal
      BY <2>1, <2>4, AdmitCaps
    <3>4. D # {} => Cardinality((accepted \ evicted) \cup {m}) > Capacity
      <4> HIDE DEF Capacity
      <4>1. QED  BY <2>1, <2>2, <3>3
    <3>5. accepted' \ evicted' = ((accepted \ evicted) \cup {m}) \ D
      BY <3>1, <3>3
    <3>6. accepted' \ evicted' \in Filter!AfterForgetting((accepted \ evicted) \cup {m})
      <4> HIDE DEF Capacity
      <4>1. ((accepted \ evicted) \cup {m}) \ D
              \in Filter!AfterForgetting((accepted \ evicted) \cup {m})
        BY <2>3, <3>4
      <4>2. QED  BY <3>5, <4>1
    <3>7. QED  BY <3>1, <3>2, <3>6 DEF Filter!Accept
  <2>5. CASE Export
    <3>1. /\ ~destroyed /\ ~destroyed' /\ accepted' = accepted /\ durable' = durable
          /\ exported'.accepted = accepted /\ exported'.evicted = evicted'
      BY <2>5 DEF Export
    <3>2. PICK D \in SUBSET Message :
            evicted' = evicted \cup D /\ (D # {} => Cardinality(Retained(seen)) > MaxTotal)
      BY <2>1, <2>5, ExportCaps
    <3>3. D # {} => Cardinality(accepted \ evicted) > Capacity
      <4>1. accepted \ evicted \subseteq Message
        BY <2>1
      <4> HIDE DEF Capacity
      <4>2. QED  BY <4>1, <2>1, <2>2, <3>2
    <3>4. accepted' \ evicted' = (accepted \ evicted) \ D
      BY <3>1, <3>2
    <3>5. Filter!Save
      <4>1. (accepted \ evicted) \ D \in Filter!AfterForgetting(accepted \ evicted)
        <5> HIDE DEF Capacity
        <5>1. QED  BY <2>3, <3>3
      <4>2. QED  BY <3>1, <3>4, <4>1 DEF Filter!Save
    <3>6. QED  BY <3>5 DEF Filter!Next
  <2>6. CASE Land
    BY <2>6 DEF Land, guard, Filter!Land, Filter!Next
  <2>7. CASE Destroy
    BY <2>7 DEF Destroy, Filter!Close, Filter!Next
  <2>8. CASE Restore
    BY <2>8 DEF Restore, Filter!Reopen, Filter!Next
  <2>9. CASE UNCHANGED vars
    BY <2>9 DEF vars, guard, Filter!vars
  <2>10. QED  BY <2>4, <2>5, <2>6, <2>7, <2>8, <2>9 DEF Next, Filter!Next
<1>3. QED
  BY <1>1, <1>2, NextStands, TypeCorrect, CountCorrect, DedupeWall, BoundsInvariance, PTL
     DEF Spec, FilterSpec, Filter!Spec

-----------------------------------------------------------------------------
(***************************************************************************)
(* The clocks of a sync. The invariant says, for each await, what the time *)
(* already spent and the deadline still open add up to: inside a request   *)
(* the two move against each other, so a deadline is paid for once, when   *)
(* it is set.                                                              *)
(***************************************************************************)

\* What List really holds back: nothing when the floor is the whole budget.
Reserve == IF Floor < ReceiveBudget THEN Floor ELSE 0

Open == elapsed + limit - run

FlushTime ==
  /\ at \in {"flush", "offering", "marking"} => flushed = [elapsed |-> 0, slip |-> 0]
  /\ at \in {"flush", "marking"} => elapsed <= FlushBudget + slip
  /\ at = "flush" /\ offered = 0 => elapsed <= slip
  /\ at = "offering" => offered > 0 /\ Open <= FlushBudget + slip
  /\ flushed.elapsed <= FlushBudget + flushed.slip

ReceiveTime ==
  /\ at \in {"flush", "offering", "marking", "begun", "listing"} => pulls = 0
  /\ at = "begun" => elapsed <= slip
  /\ at = "listing" => Open <= ReceiveBudget + slip - Reserve
  /\ at \in {"loop", "refused", "over"} => elapsed <= ReceiveBudget + slip \/ Reserve = 0
  /\ at = "loop" /\ pulls = 0 => elapsed <= ReceiveBudget + slip - Reserve
  /\ at = "pulling" => Open <= ReceiveBudget + slip \/ Reserve = 0
  /\ at = "pulling" => pulls > 0 /\ 2 * Open <= 2 * (ReceiveBudget + late) + Floor

BudgetInv ==
  /\ BudgetTypeOK
  /\ FlushTime
  /\ ReceiveTime
  /\ FloorKept
  /\ FirstPullPaid
  /\ OverrunBounded

-----------------------------------------------------------------------------
(* What the constructor makes of its options, whatever they are.            *)
LEMMA Options ==
  /\ ReceiveBudget \in Nat \ {0}
  /\ FlushBudget \in Nat \ {0}
  /\ Floor \in Nat \ {0}
  /\ Floor <= Larger(1, Ceiling)
  /\ Floor < ReceiveBudget => 2 * Floor <= ReceiveBudget
  /\ Floor <= ReceiveBudget
<1>1. /\ ReceiveBudget \in Nat \ {0}
      /\ FlushBudget \in Nat \ {0}
      /\ msOption(PullOption, PullMs) \in Nat \ {0}
  BY BudgetAssumption DEF msOption, Larger, ReceiveBudget, FlushBudget
<1>2. msOption(Ceiling, ReceiveBudget) = Larger(1, Ceiling)
  BY BudgetAssumption DEF msOption
<1>3. ReceiveBudget \div 2 \in Nat /\ 2 * (ReceiveBudget \div 2) <= ReceiveBudget
  BY <1>1
<1> QED
  BY <1>1, <1>2, <1>3, BudgetAssumption DEF Floor, Larger, Smaller

(* A deadline is a positive number, never longer than what was asked for,   *)
(* and no shorter than a floor the transport can honour.                    *)
LEMMA Deadline ==
  ASSUME NEW w \in Int
  PROVE  /\ limitMs(w) \in Nat \ {0}
         /\ w >= 1 => limitMs(w) <= w
         /\ w < 1 => limitMs(w) = 1
         /\ w >= Floor => limitMs(w) >= Floor
  BY Options, BudgetAssumption DEF limitMs, Larger, Smaller

(* A deadline no longer than what was asked for fits where that fits.       *)
LEMMA Fits ==
  ASSUME NEW x \in Nat, NEW k \in Nat, NEW w \in Nat, NEW b \in Int, k <= w
  PROVE  /\ x + w <= b => x + k <= b
         /\ 2 * (x + w) <= b => 2 * (x + k) <= b
  OBVIOUS

(* The clocks are natural numbers, and no deadline is overspent.            *)
LEMMA Numbers ==
  BudgetTypeOK => /\ elapsed \in Nat /\ slip \in Nat /\ late \in Nat /\ late <= slip
            /\ limit \in Nat /\ run \in Nat /\ run <= limit
            /\ flushed.elapsed \in Nat /\ flushed.slip \in Nat
            /\ offered \in Nat /\ pulls \in Nat
  BY BudgetAssumption DEF BudgetTypeOK

(* The sync starts inside every bound.                                      *)
LEMMA InitOK == BudgetInit => BudgetInv
  BY Options, BudgetAssumption
  DEF BudgetInit, BudgetInv, BudgetTypeOK, FlushTime, ReceiveTime, FloorKept, FirstPullPaid,
      OverrunBounded, Reserve

(* A millisecond passes: inside a deadline it only moves from what is open  *)
(* to what is spent; anywhere else both sides of every bound grow with it.  *)
LEMMA TickOK == BudgetInv /\ Tick => BudgetInv'
<1> SUFFICES ASSUME BudgetInv, Tick PROVE BudgetInv'
  OBVIOUS
<1>0. /\ elapsed \in Nat /\ slip \in Nat /\ late \in Nat /\ late <= slip
      /\ limit \in Nat /\ run \in Nat /\ run <= limit
      /\ flushed.elapsed \in Nat /\ flushed.slip \in Nat
      /\ offered \in Nat /\ pulls \in Nat
  BY Numbers DEF BudgetInv
<1>1. ReceiveBudget \in Nat /\ FlushBudget \in Nat /\ Floor \in Nat /\ Reserve \in Nat
  BY Options DEF Reserve
<1>2. CASE InRequest /\ run < limit
  BY <1>0, <1>1, <1>2, BudgetAssumption
  DEF Tick, InRequest, BudgetInv, BudgetTypeOK, FlushTime, ReceiveTime, FloorKept, FirstPullPaid,
      OverrunBounded, Open
<1>3. CASE ~(InRequest /\ run < limit)
  BY <1>0, <1>1, <1>3, BudgetAssumption
  DEF Tick, InRequest, BudgetInv, BudgetTypeOK, FlushTime, ReceiveTime, FloorKept, FirstPullPaid,
      OverrunBounded, Open
<1> QED
  BY <1>2, <1>3

(* The steps of flush.                                                      *)
LEMMA FlushOK == BudgetInv /\ (Offer \/ FlushEnds \/ Offered \/ Begin) => BudgetInv'
<1> SUFFICES ASSUME BudgetInv, Offer \/ FlushEnds \/ Offered \/ Begin PROVE BudgetInv'
  OBVIOUS
<1>0. /\ elapsed \in Nat /\ slip \in Nat /\ late \in Nat /\ late <= slip
      /\ limit \in Nat /\ run \in Nat /\ run <= limit
      /\ flushed.elapsed \in Nat /\ flushed.slip \in Nat
      /\ offered \in Nat /\ pulls \in Nat
  BY Numbers DEF BudgetInv
<1>1. ReceiveBudget \in Nat /\ FlushBudget \in Nat \ {0} /\ Floor \in Nat /\ Reserve \in Nat
  BY Options DEF Reserve
<1>2. CASE Offer
  <2> DEFINE w == Larger(1, FlushLeft)
  <2>1. w \in Nat \ {0} /\ elapsed + w <= FlushBudget + slip
    <3>1. at = "flush" /\ (offered = 0 \/ FlushBudget - elapsed > 0)
      BY <1>2 DEF Offer, FlushLeft
    <3>2. elapsed <= FlushBudget + slip /\ (offered = 0 => elapsed <= slip)
      BY <3>1 DEF BudgetInv, FlushTime
    <3> QED
      BY ONLY <1>1, <1>0, <3>1, <3>2 DEF Larger, FlushLeft
  <2>2. limit' = limitMs(w) /\ run' = 0 /\ at' = "offering" /\ late' = 0
    BY <1>2 DEF Offer, Ask
  <2> HIDE DEF w
  <2>3. limit' \in Nat \ {0} /\ elapsed + limit' <= FlushBudget + slip
    <3>1. limit' \in Nat \ {0} /\ limit' <= w
      BY <2>1, <2>2, Deadline
    <3>2. FlushBudget + slip \in Int
      BY <1>0, <1>1
    <3> QED
      BY ONLY <1>0, <2>1, <3>1, <3>2, Fits
  <2>4. queue' \in 0..Queue /\ offered' \in Nat /\ offered' > 0
    BY <1>0, <1>2, BudgetAssumption DEF Offer, BudgetInv, BudgetTypeOK
  <2> QED
    BY <1>0, <1>1, <1>2, <2>2, <2>3, <2>4
    DEF Offer, BudgetInv, BudgetTypeOK, FlushTime, ReceiveTime, FloorKept, FirstPullPaid,
        OverrunBounded, Open
<1>3. CASE FlushEnds
  BY <1>0, <1>1, <1>3
  DEF FlushEnds, BudgetInv, BudgetTypeOK, FlushTime, ReceiveTime, FloorKept, FirstPullPaid,
      OverrunBounded, Open
<1>4. CASE Offered
  <2>1. elapsed <= FlushBudget + slip
    BY <1>0, <1>1, <1>4 DEF Offered, BudgetInv, FlushTime, Open
  <2> QED
    BY <1>0, <1>1, <1>4, <2>1
    DEF Offered, BudgetInv, BudgetTypeOK, FlushTime, ReceiveTime, FloorKept, FirstPullPaid,
        OverrunBounded
<1>5. CASE Begin
  BY <1>0, <1>1, <1>5
  DEF Begin, BudgetInv, BudgetTypeOK, FlushTime, ReceiveTime, FloorKept, FirstPullPaid,
      OverrunBounded, Open
<1> QED
  BY <1>2, <1>3, <1>4, <1>5

(* The steps of receive around its requests.                                *)
LEMMA ListOK == BudgetInv /\ (List \/ Listed) => BudgetInv'
<1> SUFFICES ASSUME BudgetInv, List \/ Listed PROVE BudgetInv'
  OBVIOUS
<1>0. /\ elapsed \in Nat /\ slip \in Nat /\ late \in Nat /\ late <= slip
      /\ limit \in Nat /\ run \in Nat /\ run <= limit
      /\ flushed.elapsed \in Nat /\ flushed.slip \in Nat
      /\ offered \in Nat /\ pulls \in Nat
  BY Numbers DEF BudgetInv
<1>1. ReceiveBudget \in Nat \ {0} /\ FlushBudget \in Nat /\ Floor \in Nat \ {0} /\ Reserve \in Nat
  BY Options DEF Reserve
<1>2. CASE List
  <2> DEFINE w == Larger(1, ReceiveLeft - Floor)
  <2>1. w \in Nat \ {0} /\ (w = 1 \/ w = ReceiveBudget - elapsed - Floor)
    BY <1>0, <1>1 DEF Larger, ReceiveLeft
  <2>2. limit' \in Nat \ {0} /\ limit' <= w
    BY <1>2, <2>1, Deadline DEF List, Ask
  <2>3. elapsed + w <= ReceiveBudget + slip - Reserve
    BY <1>0, <1>1, <1>2, <2>1, Options DEF List, BudgetInv, ReceiveTime, Reserve
  <2> HIDE DEF w
  <2>4. elapsed + limit' <= ReceiveBudget + slip - Reserve
    <3>1. ReceiveBudget + slip - Reserve \in Int
      BY <1>0, <1>1
    <3> QED
      BY ONLY <1>0, <2>1, <2>2, <2>3, <3>1, Fits
  <2> QED
    BY <1>0, <1>1, <1>2, <2>2, <2>4
    DEF List, Ask, BudgetInv, BudgetTypeOK, FlushTime, ReceiveTime, FloorKept, FirstPullPaid,
        OverrunBounded, Open
<1>3. CASE Listed
  BY <1>0, <1>1, <1>3, BudgetAssumption
  DEF Listed, BudgetInv, BudgetTypeOK, FlushTime, ReceiveTime, FloorKept, FirstPullPaid,
      OverrunBounded, Open
<1> QED
  BY <1>2, <1>3

(* A pull is given what is left, or the reservation while half of it is     *)
(* there; it fits the budget either way, give or take that half.            *)
LEMMA PullOK == BudgetInv /\ Pull => BudgetInv'
<1> SUFFICES ASSUME BudgetInv, Pull PROVE BudgetInv'
  OBVIOUS
<1>0. /\ elapsed \in Nat /\ slip \in Nat /\ late \in Nat /\ late <= slip
      /\ limit \in Nat /\ run \in Nat /\ run <= limit
      /\ flushed.elapsed \in Nat /\ flushed.slip \in Nat
      /\ offered \in Nat /\ pulls \in Nat
  BY Numbers DEF BudgetInv
<1>1. ReceiveBudget \in Nat \ {0} /\ FlushBudget \in Nat /\ Floor \in Nat \ {0} /\ Reserve \in Nat
  BY Options DEF Reserve
<1> DEFINE w == IF SpendReservation THEN Larger(ReceiveLeft, Floor) ELSE ReceiveLeft
<1>2. /\ w \in Nat \ {0}
      /\ w >= Floor
      /\ 2 * (elapsed + w) <= 2 * ReceiveBudget + Floor
      /\ elapsed + w <= ReceiveBudget + slip \/ Reserve = 0
  BY <1>0, <1>1
  DEF Pull, BudgetInv, ReceiveTime, SpendReservation, ReceiveLeft, Larger, Reserve
<1>3. limit' \in Nat /\ limit' <= w /\ limit' >= Floor
  BY <1>2, Deadline DEF Pull, Ask
<1> HIDE DEF w
<1>4. /\ 2 * (elapsed + limit') <= 2 * ReceiveBudget + Floor
      /\ elapsed + limit' <= ReceiveBudget + slip \/ Reserve = 0
  <2>1. 2 * ReceiveBudget + Floor \in Int /\ ReceiveBudget + slip \in Int
    BY <1>0, <1>1
  <2> QED
    BY ONLY <1>0, <1>2, <1>3, <2>1, Fits
<1>5. /\ at = "loop" /\ ids > 0
      /\ at' = "pulling" /\ late' = 0 /\ run' = 0
      /\ ids' = ids - 1 /\ pulls' = pulls + 1
      /\ UNCHANGED <<elapsed, slip, flushed, queue, offered>>
  BY DEF Pull, Ask
<1>6. BudgetTypeOK'
  BY <1>0, <1>3, <1>5, BudgetAssumption DEF BudgetInv, BudgetTypeOK
<1>7. FlushTime'
  BY <1>5 DEF BudgetInv, FlushTime
<1>8. ReceiveTime' /\ OverrunBounded'
  <2>1. pulls' > 0 /\ 2 * elapsed <= 2 * ReceiveBudget + Floor
    BY <1>0, <1>1, <1>2, <1>5
  <2>2. Open' = elapsed + limit'
    BY <1>0, <1>3, <1>5 DEF Open
  <2> QED
    BY <1>0, <1>1, <1>4, <1>5, <2>1, <2>2 DEF ReceiveTime, OverrunBounded
<1>9. FloorKept' /\ FirstPullPaid'
  BY <1>3, <1>5 DEF FloorKept, FirstPullPaid
<1> QED
  BY <1>6, <1>7, <1>8, <1>9 DEF BudgetInv

(* The loop goes on, runs out of time or runs out of ids.                   *)
LEMMA LoopOK == BudgetInv /\ (Pulled \/ OutOfTime \/ AllAsked) => BudgetInv'
<1> SUFFICES ASSUME BudgetInv, Pulled \/ OutOfTime \/ AllAsked PROVE BudgetInv'
  OBVIOUS
<1>0. /\ elapsed \in Nat /\ slip \in Nat /\ late \in Nat /\ late <= slip
      /\ limit \in Nat /\ run \in Nat /\ run <= limit
      /\ flushed.elapsed \in Nat /\ flushed.slip \in Nat
      /\ offered \in Nat /\ pulls \in Nat
  BY Numbers DEF BudgetInv
<1>1. ReceiveBudget \in Nat \ {0} /\ FlushBudget \in Nat /\ Floor \in Nat \ {0} /\ Reserve \in Nat
  BY Options DEF Reserve
<1>2. CASE Pulled
  BY <1>0, <1>1, <1>2
  DEF Pulled, BudgetInv, BudgetTypeOK, FlushTime, ReceiveTime, FloorKept, FirstPullPaid,
      OverrunBounded, Open
<1>3. CASE OutOfTime
  BY <1>0, <1>1, <1>3
  DEF OutOfTime, BudgetInv, BudgetTypeOK, FlushTime, ReceiveTime, FloorKept, FirstPullPaid,
      OverrunBounded, Open, SpendReservation, ReceiveLeft, Reserve
<1>4. CASE AllAsked
  BY <1>0, <1>1, <1>4
  DEF AllAsked, BudgetInv, BudgetTypeOK, FlushTime, ReceiveTime, FloorKept, FirstPullPaid,
      OverrunBounded, Open
<1> QED
  BY <1>2, <1>3, <1>4

(* Every state of a sync is inside every bound.                             *)
THEOREM InsideBudget == BudgetSpec => []BudgetInv
<1>1. BudgetInv /\ UNCHANGED budgetVars => BudgetInv'
  BY DEF budgetVars, BudgetInv, BudgetTypeOK, FlushTime, ReceiveTime, FloorKept, FirstPullPaid,
         OverrunBounded, Open
<1>2. BudgetInv /\ [BudgetNext]_budgetVars => BudgetInv'
  BY <1>1, TickOK, FlushOK, ListOK, PullOK, LoopOK DEF BudgetNext
<1> QED
  BY <1>2, InitOK, PTL DEF BudgetSpec

(* No pull is started with less than the floor, whatever the options, the   *)
(* transport's ceiling and the clock do.                                    *)
THEOREM FloorIsKept == BudgetSpec => []FloorKept
<1>1. BudgetInv => FloorKept
  BY DEF BudgetInv
<1> QED
  BY <1>1, InsideBudget, PTL

(* A relay that respects its deadlines always gets its first pull.          *)
THEOREM FirstPullIsPaid == BudgetSpec => []FirstPullPaid
<1>1. BudgetInv => FirstPullPaid
  BY DEF BudgetInv
<1> QED
  BY <1>1, InsideBudget, PTL

(* No pull takes a pass more than half a floor past its budget.             *)
THEOREM OverrunIsBounded == BudgetSpec => []OverrunBounded
<1>1. BudgetInv => OverrunBounded
  BY DEF BudgetInv
<1> QED
  BY <1>1, InsideBudget, PTL

(* A relay cannot keep the composer disabled past the two budgets.          *)
THEOREM CostIsBounded == BudgetSpec => []CostBounded
<1>1. BudgetInv => CostBounded
  <2> SUFFICES ASSUME BudgetInv, Floor < ReceiveBudget
               PROVE  flushed.elapsed + elapsed
                        <= FlushBudget + ReceiveBudget + flushed.slip + slip
    BY DEF CostBounded
  <2>1. /\ ReceiveBudget \in Nat \ {0}
        /\ FlushBudget \in Nat
        /\ Reserve = Floor
        /\ Floor \in Nat \ {0}
    BY Options DEF Reserve
  <2>2. elapsed <= FlushBudget + slip \/ elapsed <= ReceiveBudget + slip
    BY <2>1 DEF BudgetInv, BudgetTypeOK, FlushTime, ReceiveTime, Open
  <2> QED
    BY <2>1, <2>2 DEF BudgetInv, BudgetTypeOK, FlushTime, ReceiveTime, Open
<1> QED
  BY <1>1, InsideBudget, PTL
=============================================================================
