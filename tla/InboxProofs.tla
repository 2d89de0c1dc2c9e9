----------------------------- MODULE InboxProofs ----------------------------
(***************************************************************************)
(* What a conversation shows, for all envelopes, blobs, passes, budgets    *)
(* and sessions, whatever the relay and the store do: every message once,  *)
(* none refused that is not shown, and nobody's words but the peer's; and  *)
(* that an honest relay's messages are lost in the named windows only.     *)
(*                                                                         *)
(* One fact carries the first three: a conversation is exactly its guard's *)
(* set, each message once, in every session, in every snapshot on its way  *)
(* to the disk and on the disk itself. receive adds to both between two    *)
(* awaits, and saves and restores them together. The last needs who owes a *)
(* message its next place: a pass what it accepted to its session, a save  *)
(* what it holds to the disk, an unlock what it overtakes to its name.     *)
(***************************************************************************)
EXTENDS Inbox, SequenceTheorems, TLAPS

-----------------------------------------------------------------------------
(* What a sealed message promises both ends, for all parties and clocks.   *)

\* Identities are ordered.
IsParty(km) == km.identityPub \in Nat

\* Nobody has two encryption keys under one identity.
Consistent(a, b) == a.identityPub = b.identityPub => a.encryptionPub = b.encryptionPub

(* Both ends derive one key from their own secrets and the other's card     *)
(* (seal.ts messageKeyInfo, deriveMessageKey).                              *)
THEOREM KeyIsShared ==
  ASSUME NEW a, NEW b, IsParty(a), IsParty(b), Consistent(a, b)
  PROVE  DeriveMessageKey(a, CardOf(b)) = DeriveMessageKey(b, CardOf(a))
<1>1. {a.encryptionPub, b.encryptionPub} = {b.encryptionPub, a.encryptionPub}
  OBVIOUS
<1>2. MessageKeyInfo(a.identityPub, a.encryptionPub, b.identityPub, b.encryptionPub)
        = MessageKeyInfo(b.identityPub, b.encryptionPub, a.identityPub, a.encryptionPub)
  <2>1. CASE a.identityPub = b.identityPub
    BY <2>1 DEF Consistent, MessageKeyInfo
  <2>2. CASE a.identityPub < b.identityPub
    BY <2>2 DEF IsParty, MessageKeyInfo
  <2>3. CASE b.identityPub < a.identityPub
    BY <2>3 DEF IsParty, MessageKeyInfo
  <2>4. QED  BY <2>1, <2>2, <2>3 DEF IsParty
<1>3. QED  BY <1>1, <1>2 DEF DeriveMessageKey, CardOf

(* What one party seals for another opens there as that party's, whatever   *)
(* it says, unless its stamp is further ahead than the skew allows.         *)
THEOREM SealOpens ==
  ASSUME NEW a, NEW b, IsParty(a), IsParty(b), Consistent(a, b),
         NEW body, NEW stamp \in Nat, NEW now \in Nat
  PROVE  Opens(b, CardOf(a), Seal(a, CardOf(b), body, stamp), now)
           <=> stamp <= now + CLOCK_SKEW_MS
<1>1. DeriveMessageKey(a, CardOf(b)) = DeriveMessageKey(b, CardOf(a))
  BY KeyIsShared
<1>2. QED
  BY <1>1 DEF Opens, Seal, Sign, Addressed, CardOf, MESSAGE_VERSION, MESSAGE_VERSION_ALLOWLIST

(* One envelope has one reading: whoever opens it, at whatever time, is the *)
(* same recipient and takes it for the same sender with the same keys. A    *)
(* contact whose encryption key was replaced does not open what was sealed  *)
(* under the old one.                                                       *)
THEOREM OneReading ==
  ASSUME NEW env, NEW a, NEW b, NEW cardA, NEW cardB, NEW now1, NEW now2,
         Opens(a, cardA, env, now1), Opens(b, cardB, env, now2)
  PROVE  /\ a.identityPub = b.identityPub /\ cardA.identityPub = cardB.identityPub
         /\ a.encryptionPub = b.encryptionPub /\ cardA.encryptionPub = cardB.encryptionPub
<1>1. a.identityPub = b.identityPub /\ cardA.identityPub = cardB.identityPub
  BY DEF Opens, Addressed
<1>2. MessageKeyInfo(a.identityPub, a.encryptionPub, cardA.identityPub, cardA.encryptionPub)
        = MessageKeyInfo(a.identityPub, b.encryptionPub, cardA.identityPub, cardB.encryptionPub)
  BY <1>1 DEF Opens, DeriveMessageKey
<1>3. a.encryptionPub = b.encryptionPub /\ cardA.encryptionPub = cardB.encryptionPub
  BY <1>2 DEF MessageKeyInfo
<1>4. QED  BY <1>1, <1>3

(* A message sent out does not come back as one received: what we sealed    *)
(* for a peer never opens with us as that peer's, though both directions    *)
(* share one key.                                                           *)
THEOREM NoReflection ==
  ASSUME NEW a, NEW b, a.identityPub # b.identityPub, NEW body, NEW stamp, NEW now
  PROVE  ~Opens(a, CardOf(b), Seal(a, CardOf(b), body, stamp), now)
BY DEF Opens, Seal, Addressed, CardOf

-----------------------------------------------------------------------------
\* All a relay may hand us, and what of it our keys open from the peer's card.
Envelope == { setting.content[b] : setting \in Settings, b \in Blob }

Openable == { ComputeMsgId(env) : env \in { e \in Envelope : Opens(Me, CardOf(Peer), e, nowMs) } }

\* A conversation that shows each message of h, once.
Copies(h) == [m \in Msg |-> IF m \in h THEN 1 ELSE 0]

Sound == { [convo |-> Copies(h), held |-> h] : h \in SUBSET Openable }

Write == [by : Pass, data : Sound]

Work == [at : {"idle", "listing", "pulling", "pulled", "saving"},
         session : {0} \cup Session, ids : SUBSET Blob,
         pull : SUBSET Blob, new : SUBSET Msg]

\* A pull is for one blob.
PassState == { w \in Work : w.at \in {"pulling", "pulled"} => \E b \in Blob : w.pull = {b} }

IInv ==
  /\ \E setting \in Settings : content = setting.content /\ hostile = setting.hostile
  /\ live \in BOOLEAN
  /\ cur \in Session
  /\ ~live => cur + 1 \in Session
  /\ held \in [Session -> SUBSET Openable]
  /\ convo = [s \in Session |-> Copies(held[s])]
  /\ flight \in Seq(Write)
  /\ disk \in Sound
  /\ screen \in Pass
  /\ pass \in [Pass -> PassState]
  /\ box \in SUBSET posted
  /\ posted \in SUBSET Blob
  /\ late \in SUBSET Blob
  /\ named \in SUBSET Msg

LEMMA OpenableIsMsg == Openable \subseteq Msg
BY DEF Openable, Envelope, Msg

LEMMA SoundIsSnapshot == Sound \subseteq Snapshots
BY OpenableIsMsg DEF Sound, Snapshots, Copies

LEMMA MsgOfBlob ==
  ASSUME NEW b \in Blob, IInv
  PROVE  /\ ComputeMsgId(content[b]) \in Msg
         /\ Opens(Me, CardOf(Peer), content[b], nowMs) => ComputeMsgId(content[b]) \in Openable
<1>1. content[b] \in Envelope
  BY DEF IInv, Envelope
<1>2. QED  BY <1>1 DEF Envelope, Openable, Msg

LEMMA IdleIsState == Idle \in PassState
BY DEF Idle, PassState, Work

(* The end of a turn writes a conversation together with its guard, if it   *)
(* writes at all.                                                           *)
LEMMA EndPassWrites ==
  ASSUME IInv, NEW p \in Pass, NEW w \in Work, NEW c, NEW f \in Seq(Write),
         NEW h \in [Session -> SUBSET Openable], c = [s \in Session |-> Copies(h[s])],
         EndPass(p, w, c, h, f)
  PROVE  flight' \in Seq(Write) /\ pass' \in [Pass -> PassState]
<1>1. CASE Usable(w.session) /\ w.new # {}
  <2>1. w.session \in Session
    BY <1>1 DEF Usable, IInv
  <2>2. Snapshot(w.session, c, h) \in Sound
    BY <2>1 DEF Snapshot, Sound
  <2>3. flight' \in Seq(Write)
    <3>1. [by |-> p, data |-> Snapshot(w.session, c, h)] \in Write
      BY <2>2 DEF Write
    <3>2. flight' = Append(f, [by |-> p, data |-> Snapshot(w.session, c, h)])
      BY <1>1 DEF EndPass
    <3>3. QED  BY <3>1, <3>2
  <2>4. [w EXCEPT !.at = "saving", !.ids = {}, !.pull = {}] \in PassState
    BY DEF Work, PassState
  <2>5. QED  BY <1>1, <2>3, <2>4 DEF EndPass, IInv
<1>2. CASE ~(Usable(w.session) /\ w.new # {})
  BY <1>2, IdleIsState DEF EndPass, IInv
<1>3. QED  BY <1>1, <1>2

LEMMA NextPullWrites ==
  ASSUME IInv, NEW p \in Pass, NEW w \in Work, NEW c, NEW f \in Seq(Write),
         NEW h \in [Session -> SUBSET Openable], c = [s \in Session |-> Copies(h[s])],
         NextPull(p, w, c, h, f)
  PROVE  flight' \in Seq(Write) /\ pass' \in [Pass -> PassState]
<1>1. CASE Pull(p, w, f)
  <2>1. PICK b \in w.ids :
          pass' = [pass EXCEPT ![p] =
                    [w EXCEPT !.at = "pulling", !.ids = @ \ {b}, !.pull = {b}]]
    BY <1>1 DEF Pull
  <2>2. b \in Blob
    BY DEF Work
  <2>3. [w EXCEPT !.at = "pulling", !.ids = @ \ {b}, !.pull = {b}] \in PassState
    BY <2>2 DEF Work, PassState
  <2>4. QED  BY <1>1, <2>1, <2>3 DEF Pull, IInv
<1>2. CASE EndPass(p, w, c, h, f)
  BY <1>2, EndPassWrites
<1>3. QED  BY <1>1, <1>2 DEF NextPull

LEMMA CarriedIsMsg == \A B : Carried(B) \subseteq Msg
BY DEF Carried, Msg

LEMMA InitIInv == Init => IInv
<1> SUFFICES ASSUME Init PROVE IInv
  OBVIOUS
<1> USE DEF Init
<1>1. Nothing \in Sound
  <2>1. Nothing = [convo |-> Copies({}), held |-> {}]
    BY DEF Nothing, Copies
  <2>2. QED  BY <2>1 DEF Sound
<1>2. cur \in Session /\ live \in BOOLEAN /\ (~live => cur + 1 \in Session)
  BY InboxAssumption DEF Session
<1>3. convo = [s \in Session |-> Copies(held[s])]
  BY DEF Nothing, Copies
<1>4. held \in [Session -> SUBSET Openable] /\ flight \in Seq(Write)
  OBVIOUS
<1>5. pass \in [Pass -> PassState]
  BY IdleIsState
<1>6. QED  BY <1>1, <1>2, <1>3, <1>4, <1>5 DEF IInv

LEMMA CopiesAdd ==
  ASSUME NEW h, NEW m \in Msg, m \notin h
  PROVE  [Copies(h) EXCEPT ![m] = @ + 1] = Copies(h \cup {m})
<1>1. Copies(h)[m] + 1 = 1
  BY DEF Copies
<1>2. [Copies(h) EXCEPT ![m] = 1] = Copies(h \cup {m})
  BY DEF Copies
<1>3. QED  BY <1>1, <1>2

LEMMA OpenedIInv == ASSUME IInv, NEW p \in Pass, Opened(p) PROVE IInv'
<1> DEFINE w  == pass[p]
           b  == CHOOSE x \in w.pull : TRUE
           m  == ComputeMsgId(content[b])
           ok == Usable(w.session) /\ Opens(Me, CardOf(Peer), content[b], nowMs)
                 /\ m \notin held[w.session]
           c  == IF ok THEN [convo EXCEPT ![w.session][m] = @ + 1] ELSE convo
           h  == IF ok THEN [held EXCEPT ![w.session] = @ \cup {m}] ELSE held
           nw == [w EXCEPT !.pull = {}, !.new = IF ok THEN @ \cup {m} ELSE @]
<1>1. w \in PassState /\ w \in Work
  BY DEF IInv, PassState
<1>2. b \in Blob
  BY <1>1 DEF Opened, PassState
<1>3. m \in Msg
  BY <1>2, MsgOfBlob
<1>4. nw \in Work
  BY <1>1, <1>3 DEF Work
<1>5. convo' = c /\ held' = h /\ NextPull(p, nw, c, h, flight)
  BY DEF Opened
<1>6. h \in [Session -> SUBSET Openable] /\ c = [s \in Session |-> Copies(h[s])]
  <2>1. CASE ok
    <3>1. w.session \in Session /\ m \in Openable
      BY <2>1, <1>2, MsgOfBlob DEF Usable, IInv
    <3>2. h \in [Session -> SUBSET Openable]
      BY <2>1, <3>1 DEF IInv
    <3>3. [Copies(held[w.session]) EXCEPT ![m] = @ + 1] = Copies(held[w.session] \cup {m})
      <4> HIDE DEF m
      <4>1. m \notin held[w.session]
        BY <2>1
      <4>2. QED  BY <4>1, <1>3, CopiesAdd
    <3>4. c = [convo EXCEPT ![w.session] = [convo[w.session] EXCEPT ![m] = @ + 1]]
      BY <2>1
    <3>5. c = [s \in Session |-> Copies(h[s])]
      BY <2>1, <3>1, <3>3, <3>4 DEF IInv
    <3>6. QED  BY <3>2, <3>5
  <2>2. CASE ~ok
    BY <2>2 DEF IInv
  <2>3. QED  BY <2>1, <2>2
<1>7. flight \in Seq(Write)
  BY DEF IInv
<1>8. flight' \in Seq(Write) /\ pass' \in [Pass -> PassState]
  <2> HIDE DEF nw, c, h
  <2>1. QED  BY <1>4, <1>5, <1>6, <1>7, NextPullWrites
<1>9. held' \in [Session -> SUBSET Openable] /\ convo' = [s \in Session |-> Copies(held'[s])]
  BY <1>5, <1>6
<1>10. named' \in SUBSET Msg
  BY <1>3 DEF Opened, IInv
<1>11. QED
  BY <1>8, <1>9, <1>10 DEF Opened, IInv

(* The turns of a pass that accept nothing leave every conversation as it   *)
(* is and at most write the one they find.                                  *)
LEMMA TurnIInv ==
  ASSUME IInv, NEW p \in Pass, NEW w \in Work, named' \in SUBSET Msg, late' \in SUBSET Blob,
         NextPull(p, w, convo, held, flight) \/ EndPass(p, w, convo, held, flight),
         UNCHANGED <<content, hostile, live, cur, disk, convo, held, screen, box, posted>>
  PROVE  IInv'
<1>1. held \in [Session -> SUBSET Openable] /\ convo = [s \in Session |-> Copies(held[s])]
      /\ flight \in Seq(Write)
  BY DEF IInv
<1>2. flight' \in Seq(Write) /\ pass' \in [Pass -> PassState]
  BY <1>1, NextPullWrites, EndPassWrites
<1>3. QED  BY <1>2 DEF IInv

LEMMA PassStepIInv == ASSUME IInv, NEW p \in Pass, PassStep(p) PROVE IInv'
<1>1. pass[p] \in PassState /\ pass[p] \in Work
  BY DEF IInv, PassState
<1>2. [pass[p] EXCEPT !.pull = {}] \in Work /\ pass[p].pull \in SUBSET Blob
  BY <1>1 DEF Work
<1>3. named \in SUBSET Msg /\ late \in SUBSET Blob
      /\ named \cup Carried(pass[p].pull) \in SUBSET Msg
      /\ late \cup pass[p].pull \in SUBSET Blob
  BY <1>2, CarriedIsMsg DEF IInv
<1>4. CASE Receive(p)
  <2>1. [Idle EXCEPT !.at = "listing", !.session = cur] \in PassState
    BY DEF Idle, PassState, Work, IInv
  <2>2. QED  BY <1>4, <2>1 DEF Receive, IInv, store
<1>5. CASE Reopen(p)
  BY <1>5 DEF Reopen, IInv, store
<1>6. CASE Listed(p)
  <2>1. PICK ids \in SUBSET Blob :
          NextPull(p, [pass[p] EXCEPT !.ids = ids], convo, held, flight)
    BY <1>6 DEF Listed, IInv
  <2>2. [pass[p] EXCEPT !.ids = ids] \in Work
    BY <1>1 DEF Work
  <2>3. QED  BY <1>6, <2>1, <2>2, <1>3, TurnIInv DEF Listed
<1>7. CASE ListFails(p)
  BY <1>7, IdleIsState DEF ListFails, IInv, store
<1>8. CASE Opened(p)
  BY <1>8, OpenedIInv
<1>9. CASE Vanished(p)
  BY <1>9, <1>2, <1>3, TurnIInv DEF Vanished
<1>10. CASE Defective(p)
  BY <1>10, <1>2, <1>3, TurnIInv DEF Defective
<1>11. CASE Interrupted(p)
  BY <1>11, <1>2, <1>3, TurnIInv DEF Interrupted
<1>12. CASE Refused(p)
  BY <1>12, <1>2, <1>3, TurnIInv DEF Refused
<1>13. QED
  BY <1>4, <1>5, <1>6, <1>7, <1>8, <1>9, <1>10, <1>11, <1>12 DEF PassStep

LEMMA VaultIInv ==
  ASSUME IInv, StoreLands \/ StoreRefuses \/ Lock \/ Crash \/ Unlock
  PROVE  IInv'
<1>1. ASSUME flight # <<>>
      PROVE  Head(flight) \in Write /\ Tail(flight) \in Seq(Write)
  BY <1>1 DEF IInv
<1>2. \A x \in Sound : x.held \in SUBSET Msg
  BY OpenableIsMsg DEF Sound
<1>3. \A p \in Pass : pass[p].pull \in SUBSET Blob /\ pass[p].new \in SUBSET Msg
  BY DEF IInv, PassState, Work
<1>4. \A p \in Pass : AtStake(p) \in SUBSET Msg
  BY <1>3, CarriedIsMsg DEF AtStake
<1>5. CASE StoreLands
  BY <1>5, <1>1, IdleIsState DEF StoreLands, Write, IInv
<1>6. CASE StoreRefuses
  BY <1>6, <1>1, <1>2, IdleIsState DEF StoreRefuses, Write, IInv
<1>7. CASE Lock
  <2>1. UNION { AtStake(p) : p \in { q \in Pass : pass[q].at # "saving" /\ pass[q].session = cur } }
          \in SUBSET Msg
    BY <1>4
  <2>2. named' \in SUBSET Msg
    BY <1>7, <2>1 DEF Lock, IInv
  <2>3. cur + 1 \in Session
    BY <1>7, InboxAssumption DEF Lock, IInv, Session
  <2>4. QED  BY <1>7, <2>2, <2>3 DEF Lock, IInv
<1>8. CASE Crash
  <2>1. UNION { AtStake(p) : p \in Pass } \in SUBSET Msg
    BY <1>4
  <2>2. UNION { pass[p].pull : p \in { q \in Pass : pass[q].at = "pulling" } } \in SUBSET Blob
    BY <1>3
  <2>3. named' \in SUBSET Msg /\ late' \in SUBSET Blob
    BY <1>8, <2>1, <2>2 DEF Crash, IInv
  <2>4. pass' \in [Pass -> PassState] /\ flight' \in Seq(Write)
    BY <1>8, IdleIsState DEF Crash
  <2>5. cur + 1 \in Session
    BY <1>8, InboxAssumption DEF Crash, IInv, Session
  <2>6. QED  BY <1>8, <2>3, <2>4, <2>5 DEF Crash, IInv
<1>9. CASE Unlock
  <2>1. disk.held \in SUBSET Openable /\ disk.convo = Copies(disk.held)
    BY DEF IInv, Sound
  <2>2. \A i \in DOMAIN flight : flight[i].data.held \in SUBSET Msg
    <3>1. \A i \in DOMAIN flight : flight[i] \in Write
      BY DEF IInv
    <3>2. QED  BY <3>1, <1>2 DEF Write
  <2>3. named' \in SUBSET Msg
    BY <1>9, <2>2 DEF Unlock, IInv
  <2>4. held' \in [Session -> SUBSET Openable] /\ convo' = [s \in Session |-> Copies(held'[s])]
    BY <1>9, <2>1 DEF Unlock, IInv
  <2>5. QED  BY <1>9, <2>3, <2>4 DEF Unlock, IInv
<1>10. QED  BY <1>5, <1>6, <1>7, <1>8, <1>9

LEMMA NextIInv == IInv /\ [Next]_vars => IInv'
<1> SUFFICES ASSUME IInv, [Next]_vars PROVE IInv'
  OBVIOUS
<1>1. CASE Device
  BY <1>1, PassStepIInv, VaultIInv DEF Device
<1>2. CASE Relay
  <2>1. ASSUME NEW b \in Blob, Deposit(b) PROVE IInv'
    BY <2>1 DEF Deposit, IInv, store
  <2>2. ASSUME NEW b \in Blob, RelayServesLate(b) PROVE IInv'
    BY <2>2 DEF RelayServesLate, IInv, store
  <2>3. ASSUME NEW p \in Pass, RelayServes(p) PROVE IInv'
    <3>1. [pass[p] EXCEPT !.at = "pulled"] \in PassState
      BY <2>3 DEF RelayServes, IInv, PassState, Work
    <3>2. QED  BY <2>3, <3>1 DEF RelayServes, IInv, store
  <2>4. QED  BY <1>2, <2>1, <2>2, <2>3 DEF Relay
<1>3. CASE UNCHANGED vars
  BY <1>3 DEF vars, store, IInv
<1>4. QED  BY <1>1, <1>2, <1>3 DEF Next

LEMMA Invariance == Spec => []IInv
BY InitIInv, NextIInv, PTL DEF Spec

(* The state keeps its types through every pass, save and unlock.           *)
THEOREM InboxTypes == Spec => []TypeOK
<1>1. IInv => TypeOK
  <2> SUFFICES ASSUME IInv PROVE TypeOK
    OBVIOUS
  <2>1. \A h : Copies(h) \in [Msg -> Nat]
    BY DEF Copies
  <2>2. convo \in [Session -> [Msg -> Nat]] /\ held \in [Session -> SUBSET Msg]
    BY <2>1, OpenableIsMsg DEF IInv
  <2>3. flight \in Seq([by : Pass, data : Snapshots])
    <3>1. Write \subseteq [by : Pass, data : Snapshots]
      BY SoundIsSnapshot DEF Write
    <3>2. flight \in Seq(Write)
      BY DEF IInv
    <3>3. QED  BY <3>1, <3>2, SeqMonotonic
  <2>4. pass \in [Pass -> Work]
    BY DEF IInv, PassState
  <2>5. QED  BY <2>2, <2>3, <2>4, SoundIsSnapshot DEF IInv, TypeOK, Work
<1>2. QED  BY <1>1, Invariance, PTL

(* No message is in a conversation twice, for any number of retries, passes *)
(* at once, blobs handed out again, and sessions restored from what the     *)
(* disk had (messaging.ts receive, which asks the guard before the push and *)
(* saves both in one snapshot).                                             *)
THEOREM ShownOnce == Spec => []NoDuplicate
<1>1. \A h, m : m \in Msg => Copies(h)[m] <= 1
  BY DEF Copies
<1>2. IInv => NoDuplicate
  BY <1>1 DEF IInv, NoDuplicate, Sound
<1>3. QED  BY <1>2, Invariance, PTL

(* A message the guard refuses is one the reader can see (messaging.ts      *)
(* receive; vault.ts, whose snapshot has the guard beside the messages).    *)
THEOREM RefusedIsShown == Spec => []HeldIsShown
<1>1. \A h : h \subseteq Openable => \A m \in h : Copies(h)[m] >= 1
  BY OpenableIsMsg DEF Copies
<1>2. IInv => HeldIsShown
  BY <1>1 DEF IInv, HeldIsShown, Sound
<1>3. QED  BY <1>2, Invariance, PTL

\* What carries the peer's signature as its sender, and our name as its
\* reader, the peer did seal for us.
Unforgeable ==
  \A env \in Envelope :
    LET text == ComputeMsgId(env)
    IN  /\ text.inner.senderId = Peer.identityPub
        /\ text.inner.recipientId = Me.identityPub
        /\ text.sig = [by |-> Peer.identityPub, over |-> text.inner]
        => text \in Said

(* Nobody's words but the peer's are ever shown as the peer's, whatever the *)
(* relay puts into the mailbox, if signatures cannot be forged (seal.ts     *)
(* open, called by messaging.ts receive).                                   *)
THEOREM ShownIsSaid == Unforgeable => (Spec => []OnlySaid)
<1> SUFFICES ASSUME Unforgeable PROVE Spec => []OnlySaid
  OBVIOUS
<1>1. Openable \subseteq Said
  BY DEF Unforgeable, Openable, Opens, Addressed, CardOf, ComputeMsgId
<1>2. \A h : h \subseteq Openable => \A m \in Msg \ Said : Copies(h)[m] = 0
  BY <1>1 DEF Copies
<1>3. IInv => OnlySaid
  BY <1>2 DEF IInv, OnlySaid, Sound
<1>4. QED  BY <1>3, Invariance, PTL
-----------------------------------------------------------------------------
(* Where a message the relay handed out is until it is saved. What a lock,  *)
(* a crash or a failed save takes with it must be known at that moment, so  *)
(* the invariant says for every pass, guard and write which messages on it  *)
(* are nowhere else.                                                        *)

HeldIn(i) == flight[i].data.held

\* A message a pass accepted stays with it until that pass has ended.
Taken(m) == \E p \in Pass : m \in pass[p].new

Owned(m) == m \in disk.held \/ m \in named \/ Taken(m)

\* What a pass has accepted is in its session's guard; one whose session was
\* locked has nothing to lose any more.
Turns ==
  \A p \in Pass :
    /\ pass[p].session <= cur
    /\ pass[p].at \in {"idle", "listing"} => pass[p].new = {}
    /\ Usable(pass[p].session) => pass[p].new \subseteq held[cur]
    /\ ~Usable(pass[p].session) /\ pass[p].at # "saving" =>
         Carried(pass[p].pull) \subseteq named /\ pass[p].new \subseteq disk.held \cup named
    /\ pass[p].at = "saving" => \E i \in DOMAIN flight : flight[i].by = p

\* A pass that saves has one write on its way, with all it accepted.
Flown ==
  /\ \A i \in DOMAIN flight :
       pass[flight[i].by].at = "saving" /\ pass[flight[i].by].new \subseteq HeldIn(i)
  /\ \A i, j \in DOMAIN flight : flight[i].by = flight[j].by => i = j

\* Every write has what the disk has, and what the writes before it have,
\* but for what an unlock named.
Growing ==
  /\ \A i \in DOMAIN flight : disk.held \subseteq HeldIn(i) \cup named
  /\ \A i, j \in DOMAIN flight : i < j => HeldIn(i) \subseteq HeldIn(j) \cup named
  /\ live => disk.held \subseteq held[cur] \cup named
  /\ live => \A i \in DOMAIN flight : HeldIn(i) \subseteq held[cur] \cup named

Accounted ==
  /\ live => \A m \in held[cur] : Owned(m)
  /\ \A i \in DOMAIN flight : \A m \in HeldIn(i) : Owned(m)

LateNamed == Carried(late) \subseteq named

Kept(m) ==
  \/ \E p \in Pass : /\ Usable(pass[p].session)
                     /\ pass[p].at = "pulled"
                     /\ m \in Carried(pass[p].pull)
  \/ live /\ m \in held[cur]
  \/ \E i \in DOMAIN flight : m \in HeldIn(i)
  \/ m \in disk.held

\* Per blob: what has left the mailbox, though a copy may still be there.
Served == hostile \/ \A m \in Carried(posted \ box) : Kept(m) \/ m \in named

Losses == Turns /\ Flown /\ Growing /\ Accounted /\ LateNamed /\ Served

\* The pass goes on to its next pull, to its save or to rest.
LEMMA TurnEnds ==
  ASSUME IInv, NEW p \in Pass, NEW w \in Work, NEW c, NEW h,
         NextPull(p, w, c, h, flight) \/ EndPass(p, w, c, h, flight)
  PROVE  \E v \in PassState, x \in {Snapshot(w.session, c, h)} :
           /\ pass' = [pass EXCEPT ![p] = v]
           /\ v.at \in {"idle", "pulling", "saving"}
           /\ flight' = IF v.at = "saving" THEN Append(flight, [by |-> p, data |-> x]) ELSE flight
           /\ v.at = "idle" => v = Idle /\ (~Usable(w.session) \/ w.new = {})
           /\ v.at # "idle" => v.session = w.session /\ v.new = w.new /\ Usable(w.session)
<1> DEFINE s == [w EXCEPT !.at = "saving", !.ids = {}, !.pull = {}]
<1>1. CASE EndPass(p, w, c, h, flight) /\ Usable(w.session) /\ w.new # {}
  <2>1. s \in PassState /\ s.at = "saving" /\ s.session = w.session /\ s.new = w.new
    BY DEF Work, PassState
  <2>2. pass' = [pass EXCEPT ![p] = s]
        /\ flight' = Append(flight, [by |-> p, data |-> Snapshot(w.session, c, h)])
    BY <1>1 DEF EndPass
  <2>3. QED  BY <1>1, <2>1, <2>2
<1>2. CASE EndPass(p, w, c, h, flight) /\ ~(Usable(w.session) /\ w.new # {})
  <2>1. pass' = [pass EXCEPT ![p] = Idle] /\ flight' = flight
    BY <1>2 DEF EndPass
  <2>2. QED  BY <1>2, <2>1, IdleIsState DEF Idle
<1>3. CASE w.ids # {} /\ Usable(w.session) /\ Pull(p, w, flight)
  <2>1. PICK b \in w.ids :
          pass' = [pass EXCEPT ![p] =
                    [w EXCEPT !.at = "pulling", !.ids = @ \ {b}, !.pull = {b}]]
    BY <1>3 DEF Pull
  <2> DEFINE v == [w EXCEPT !.at = "pulling", !.ids = @ \ {b}, !.pull = {b}]
  <2>2. v \in PassState /\ v.at = "pulling" /\ v.session = w.session /\ v.new = w.new
    BY DEF Work, PassState
  <2>3. flight' = flight
    BY <1>3 DEF Pull
  <2>4. QED  BY <1>3, <2>1, <2>2, <2>3
<1>4. QED  BY <1>1, <1>2, <1>3 DEF NextPull

LEMMA CarriedOf == \A B, C : B \subseteq C => Carried(B) \subseteq Carried(C)
BY DEF Carried

(* A turn that ends as TurnEnds says loses nothing: what it took from the   *)
(* mailbox is in the guard or named, and what it accepted is still with it  *)
(* or goes into the write it starts.                                        *)
LEMMA TurnLosses ==
  ASSUME IInv, Losses, NEW p \in Pass, NEW w \in Work, NEW c,
         pass[p].at \in {"listing", "pulling", "pulled"},
         NextPull(p, w, c, held', flight) \/ EndPass(p, w, c, held', flight),
         UNCHANGED <<content, hostile, live, cur, disk, box, posted>>,
         held[cur] \subseteq held'[cur],
         named \subseteq named',
         Carried(late') \subseteq named',
         w.session = pass[p].session,
         pass[p].new \subseteq w.new,
         Usable(w.session) => w.new \subseteq held'[cur],
         live => held'[cur] \subseteq held[cur] \cup w.new,
         ~Usable(w.session) => w.new \subseteq disk.held \cup named,
         pass[p].at = "pulled" /\ Usable(w.session) =>
           Carried(pass[p].pull) \subseteq held'[cur] \cup named'
  PROVE  Losses'
<1>1. PICK v \in PassState, x \in {Snapshot(w.session, c, held')} :
        /\ pass' = [pass EXCEPT ![p] = v]
        /\ v.at \in {"idle", "pulling", "saving"}
        /\ flight' = IF v.at = "saving" THEN Append(flight, [by |-> p, data |-> x]) ELSE flight
        /\ v.at = "idle" => v = Idle /\ (~Usable(w.session) \/ w.new = {})
        /\ v.at # "idle" => v.session = w.session /\ v.new = w.new /\ Usable(w.session)
  BY TurnEnds
<1>2. /\ flight \in Seq(Write) /\ pass \in [Pass -> PassState] /\ cur \in Session
      /\ Usable(w.session) => live /\ w.session = cur
      /\ x.held = held'[w.session]
  BY DEF IInv, Usable, Snapshot
<1>3. pass'[p] = v /\ \A q \in Pass \ {p} : pass'[q] = pass[q]
  BY <1>1, <1>2
<1>4. \A s : Usable(s)' <=> Usable(s)
  BY DEF Usable
<1>5. \A B : Carried(B)' = Carried(B)
  BY DEF Carried
\* The writes after the turn: those before it, and this pass's.
<1>6. /\ \A i \in DOMAIN flight : i \in DOMAIN flight' /\ flight'[i] = flight[i]
      /\ \A i \in DOMAIN flight' : i \notin DOMAIN flight =>
           /\ v.at = "saving" /\ i = Len(flight) + 1
           /\ flight'[i].by = p /\ flight'[i].data = x
      /\ v.at = "saving" => Len(flight) + 1 \in DOMAIN flight'
                            /\ flight'[Len(flight) + 1].by = p
      /\ DOMAIN flight = 1..Len(flight) /\ Len(flight) \in Nat
      /\ DOMAIN flight' \subseteq 1..(Len(flight) + 1)
  <2>1. CASE v.at = "saving"
    BY <1>1, <1>2, <2>1
  <2>2. CASE v.at # "saving"
    BY <1>1, <1>2, <2>2
  <2>3. QED  BY <2>1, <2>2
<1>7. v.at = "saving" => x.held = held'[cur]
  BY <1>1, <1>2
<1>8. \A i \in DOMAIN flight : flight[i].by \in Pass /\ flight[i].by # p
  <2>1. \A i \in DOMAIN flight : flight[i] \in Write
    BY <1>2
  <2>2. \A i \in DOMAIN flight : pass[flight[i].by].at = "saving"
    BY DEF Losses, Flown
  <2>3. QED  BY <2>1, <2>2 DEF Write
<1>9. \A m : Owned(m) => Owned(m)'
  <2>1. \A m \in pass[p].new : Owned(m)'
    <3>1. CASE v.at = "idle"
      BY <3>1, <1>1 DEF Owned
    <3>2. CASE v.at # "idle"
      BY <3>2, <1>1, <1>3 DEF Owned, Taken
    <3>3. QED  BY <3>1, <3>2
  <2>2. \A q \in Pass \ {p} : \A m \in pass[q].new : Taken(m)'
    BY <1>3 DEF Taken
  <2>3. QED  BY <2>1, <2>2 DEF Owned, Taken
<1>10. \A m \in w.new : Owned(m)'
  <2>1. CASE v.at = "idle"
    BY <2>1, <1>1 DEF Owned
  <2>2. CASE v.at # "idle"
    BY <2>2, <1>1, <1>3 DEF Owned, Taken
  <2>3. QED  BY <2>1, <2>2
<1>11. Turns'
  <2> SUFFICES ASSUME NEW q \in Pass
               PROVE  /\ pass'[q].session <= cur
                      /\ pass'[q].at \in {"idle", "listing"} => pass'[q].new = {}
                      /\ Usable(pass'[q].session) => pass'[q].new \subseteq held'[cur]
                      /\ ~Usable(pass'[q].session) /\ pass'[q].at # "saving" =>
                           /\ Carried(pass'[q].pull) \subseteq named'
                           /\ pass'[q].new \subseteq disk.held \cup named'
                      /\ pass'[q].at = "saving" => \E i \in DOMAIN flight' : flight'[i].by = q
    BY <1>4, <1>5 DEF Turns
  <2>1. CASE q # p
    BY <2>1, <1>3, <1>6 DEF Losses, Turns
  <2>2. CASE q = p /\ v.at = "idle"
    <3>1. cur >= 0 /\ Carried({}) = {}
      BY <1>2 DEF Session, Carried
    <3>2. QED  BY <2>2, <3>1, <1>1, <1>3 DEF Idle
  <2>3. CASE q = p /\ v.at # "idle"
    BY <2>3, <1>1, <1>3, <1>6 DEF Losses, Turns
  <2>4. QED  BY <2>1, <2>2, <2>3
<1>12. Flown'
  <2>1. \A i \in DOMAIN flight' :
          pass'[flight'[i].by].at = "saving" /\ pass'[flight'[i].by].new \subseteq HeldIn(i)'
    <3> SUFFICES ASSUME NEW i \in DOMAIN flight'
                 PROVE  pass'[flight'[i].by].at = "saving"
                        /\ pass'[flight'[i].by].new \subseteq flight'[i].data.held
      BY DEF HeldIn
    <3>1. CASE i \in DOMAIN flight
      BY <3>1, <1>3, <1>6, <1>8 DEF Losses, Flown, HeldIn
    <3>2. CASE i \notin DOMAIN flight
      BY <3>2, <1>1, <1>3, <1>6, <1>7
    <3>3. QED  BY <3>1, <3>2
  <2>2. \A i, j \in DOMAIN flight' : flight'[i].by = flight'[j].by => i = j
    BY <1>6, <1>8 DEF Losses, Flown
  <2>3. QED  BY <2>1, <2>2 DEF Flown
<1>13. Growing'
  <2>1. live => disk.held \subseteq held'[cur] \cup named'
    BY DEF Losses, Growing
  <2>2. live => \A i \in DOMAIN flight' : flight'[i].data.held \subseteq held'[cur] \cup named'
    BY <1>6, <1>7 DEF Losses, Growing, HeldIn
  <2>3. \A i \in DOMAIN flight' : disk.held \subseteq flight'[i].data.held \cup named'
    <3> SUFFICES ASSUME NEW i \in DOMAIN flight'
                 PROVE  disk.held \subseteq flight'[i].data.held \cup named'
      OBVIOUS
    <3>1. CASE i \in DOMAIN flight
      BY <3>1, <1>6 DEF Losses, Growing, HeldIn
    <3>2. CASE i \notin DOMAIN flight
      BY <3>2, <2>1, <1>1, <1>2, <1>6, <1>7
    <3>3. QED  BY <3>1, <3>2
  <2>4. \A i, j \in DOMAIN flight' :
          i < j => flight'[i].data.held \subseteq flight'[j].data.held \cup named'
    <3> SUFFICES ASSUME NEW i \in DOMAIN flight', NEW j \in DOMAIN flight', i < j
                 PROVE  flight'[i].data.held \subseteq flight'[j].data.held \cup named'
      OBVIOUS
    <3>1. i \in DOMAIN flight
      BY <1>6
    <3>2. CASE j \in DOMAIN flight
      BY <3>1, <3>2, <1>6 DEF Losses, Growing, HeldIn
    <3>3. CASE j \notin DOMAIN flight
      <4>1. flight'[j].data.held = held'[cur] /\ live
        BY <3>3, <1>1, <1>2, <1>6, <1>7
      <4>2. QED  BY <3>1, <4>1, <2>2
    <3>4. QED  BY <3>2, <3>3
  <2>5. QED  BY <2>1, <2>2, <2>3, <2>4 DEF Growing, HeldIn
<1>14. Accounted'
  <2>1. live => \A m \in held'[cur] : Owned(m)'
    BY <1>9, <1>10 DEF Losses, Accounted
  <2>2. \A i \in DOMAIN flight' : \A m \in flight'[i].data.held : Owned(m)'
    <3> SUFFICES ASSUME NEW i \in DOMAIN flight', NEW m \in flight'[i].data.held
                 PROVE  Owned(m)'
      OBVIOUS
    <3>1. CASE i \in DOMAIN flight
      BY <3>1, <1>6, <1>9 DEF Losses, Accounted, HeldIn
    <3>2. CASE i \notin DOMAIN flight
      BY <3>2, <2>1, <1>1, <1>2, <1>6, <1>7
    <3>3. QED  BY <3>1, <3>2
  <2>3. QED  BY <2>1, <2>2 DEF Accounted, HeldIn
<1>15. LateNamed'
  BY <1>5 DEF LateNamed
<1>16. Served'
  <2> SUFFICES ASSUME ~hostile, NEW m \in Carried(posted \ box)
               PROVE  Kept(m)' \/ m \in named'
    BY <1>5 DEF Served
  <2>1. Kept(m) \/ m \in named
    BY DEF Losses, Served
  <2>2. CASE m \in named
    BY <2>2
  <2>3. CASE live /\ m \in held[cur]
    BY <2>3 DEF Kept
  <2>4. CASE \E i \in DOMAIN flight : m \in HeldIn(i)
    BY <2>4, <1>6 DEF Kept, HeldIn
  <2>5. CASE m \in disk.held
    BY <2>5 DEF Kept
  <2>6. ASSUME NEW q \in Pass, Usable(pass[q].session), pass[q].at = "pulled",
               m \in Carried(pass[q].pull)
        PROVE  Kept(m)' \/ m \in named'
    <3>1. CASE q = p
      BY <2>6, <3>1, <1>2 DEF Kept
    <3>2. CASE q # p
      <4>1. pass'[q] = pass[q]
        BY <3>2, <1>3
      <4>2. QED  BY <2>6, <4>1, <1>4, <1>5 DEF Kept
    <3>3. QED  BY <3>1, <3>2
  <2>7. QED  BY <2>1, <2>2, <2>3, <2>4, <2>5, <2>6 DEF Kept
<1>17. QED  BY <1>11, <1>12, <1>13, <1>14, <1>15, <1>16 DEF Losses

(* A pass that goes on without a write of its own: nothing it accepted is   *)
(* lost, and a blob taken from the mailbox is with it.                      *)
LEMMA PassMoves ==
  ASSUME IInv, Losses, NEW p \in Pass, NEW v \in PassState,
         pass' = [pass EXCEPT ![p] = v],
         UNCHANGED <<store, held, posted, late, named>>,
         pass[p].at \notin {"saving", "pulled"}, v.at # "saving",
         v.session <= cur, v.new = pass[p].new,
         v.at \in {"idle", "listing"} => v.new = {},
         Usable(v.session) => v.new \subseteq held[cur],
         ~Usable(v.session) =>
           Carried(v.pull) \subseteq named /\ v.new \subseteq disk.held \cup named,
         hostile \/ \A m \in Carried(posted \ box') :
           m \in Carried(posted \ box) \/ (v.at = "pulled" /\ m \in Carried(v.pull))
  PROVE  Losses'
<1>1. /\ pass'[p] = v /\ \A q \in Pass \ {p} : pass'[q] = pass[q]
      /\ flight \in Seq(Write)
  BY DEF IInv
<1>2. /\ \A s : Usable(s)' <=> Usable(s)
      /\ \A B : Carried(B)' = Carried(B)
  BY DEF Usable, Carried, store
<1>3. \A m : Owned(m)' <=> Owned(m)
  BY <1>1 DEF Owned, Taken, store
<1>4. \A i \in DOMAIN flight : flight[i].by \in Pass /\ flight[i].by # p
  <2>1. \A i \in DOMAIN flight : flight[i] \in Write
    BY <1>1
  <2>2. \A i \in DOMAIN flight : pass[flight[i].by].at = "saving"
    BY DEF Losses, Flown
  <2>3. QED  BY <2>1, <2>2 DEF Write
<1>5. Turns'
  BY <1>1, <1>2 DEF Losses, Turns, store
<1>6. Flown'
  BY <1>1, <1>4 DEF Losses, Flown, HeldIn, store
<1>7. Growing'
  BY DEF Losses, Growing, HeldIn, store
<1>8. Accounted'
  BY <1>3 DEF Losses, Accounted, HeldIn, store
<1>9. LateNamed'
  BY <1>2 DEF Losses, LateNamed
<1>10. Served'
  <2> SUFFICES ASSUME ~hostile, NEW m \in Carried(posted \ box')
               PROVE  Kept(m)' \/ m \in named
    BY <1>2 DEF Served, store
  <2>1. CASE v.at = "pulled" /\ m \in Carried(v.pull)
    BY <2>1, <1>1, <1>2 DEF Kept
  <2>2. CASE Kept(m)
    <3>1. ASSUME NEW q \in Pass, Usable(pass[q].session), pass[q].at = "pulled",
                 m \in Carried(pass[q].pull)
          PROVE  Kept(m)'
      <4>1. pass'[q] = pass[q]
        BY <3>1, <1>1
      <4>2. QED  BY <3>1, <4>1, <1>2 DEF Kept
    <3>2. QED  BY <2>2, <3>1 DEF Kept, HeldIn, store
  <2>3. QED  BY <2>1, <2>2 DEF Losses, Served
<1>11. QED  BY <1>5, <1>6, <1>7, <1>8, <1>9, <1>10 DEF Losses

LEMMA OpenedLosses == ASSUME IInv, Losses, NEW p \in Pass, Opened(p) PROVE Losses'
<1> DEFINE w  == pass[p]
           b  == CHOOSE x \in w.pull : TRUE
           m  == ComputeMsgId(content[b])
           opens == Opens(Me, CardOf(Peer), content[b], nowMs)
           ok == Usable(w.session) /\ opens /\ m \notin held[w.session]
           c  == IF ok THEN [convo EXCEPT ![w.session][m] = @ + 1] ELSE convo
           h  == IF ok THEN [held EXCEPT ![w.session] = @ \cup {m}] ELSE held
           nw == [w EXCEPT !.pull = {}, !.new = IF ok THEN @ \cup {m} ELSE @]
<1>1. /\ w \in PassState /\ w \in Work /\ w.at = "pulled"
      /\ cur \in Session /\ held \in [Session -> SUBSET Openable]
      /\ Usable(w.session) => live /\ w.session = cur
  BY DEF IInv, PassState, Opened, Usable
<1>2. b \in Blob /\ w.pull = {b}
  BY <1>1 DEF PassState
<1>3. m \in Msg /\ (opens => m \in Openable)
  BY <1>2, MsgOfBlob
<1>4. nw \in Work /\ nw.session = w.session /\ w.new \subseteq nw.new
      /\ nw.new = IF ok THEN w.new \cup {m} ELSE w.new
  BY <1>1, <1>3 DEF Work
<1>5. /\ held' = h /\ NextPull(p, nw, c, h, flight)
      /\ named' = IF opens THEN named ELSE named \cup ({m} \cap Said)
      /\ UNCHANGED <<content, hostile, live, cur, disk, box, posted, late>>
  BY DEF Opened
<1>6. Carried(w.pull) \subseteq {m} \cap Said
  BY <1>2 DEF Carried
<1>7. /\ Usable(w.session) => w.new \subseteq held[cur]
      /\ ~Usable(w.session) => w.new \subseteq disk.held \cup named
      /\ Carried(late) \subseteq named
  BY <1>1 DEF Losses, Turns, LateNamed
<1>8. h[cur] = IF ok THEN held[cur] \cup {m} ELSE held[cur]
  BY <1>1
<1>9. NextPull(p, nw, c, held', flight) /\ named \subseteq named'
  BY <1>5
<1>10. /\ held[cur] \subseteq held'[cur] /\ held'[cur] \subseteq held[cur] \cup nw.new
       /\ Usable(nw.session) => nw.new \subseteq held'[cur]
       /\ ~Usable(nw.session) => nw.new \subseteq disk.held \cup named
  <2> HIDE DEF nw, h, m, opens
  <2>1. held'[cur] = IF ok THEN held[cur] \cup {m} ELSE held[cur]
    BY <1>5, <1>8
  <2>2. ok => Usable(nw.session)
    BY <1>4
  <2> HIDE DEF ok
  <2>3. QED  BY <1>4, <1>7, <2>1, <2>2
<1>11. Usable(w.session) => Carried(w.pull) \subseteq held'[cur] \cup named'
  BY <1>1, <1>5, <1>6, <1>8
<1> HIDE DEF nw, c, h
<1>12. QED  BY <1>1, <1>4, <1>5, <1>7, <1>9, <1>10, <1>11, TurnLosses

(* A turn that accepts nothing and has named what it drops.                 *)
LEMMA DropLosses ==
  ASSUME IInv, Losses, NEW p \in Pass, NEW w \in Work,
         pass[p].at \in {"listing", "pulling", "pulled"},
         w.session = pass[p].session, w.new = pass[p].new,
         NextPull(p, w, convo, held, flight) \/ EndPass(p, w, convo, held, flight),
         UNCHANGED <<content, hostile, live, cur, disk, convo, held, screen, box, posted>>,
         named \subseteq named',
         Carried(late') \subseteq named',
         pass[p].at = "pulled" => Carried(pass[p].pull) \subseteq named'
  PROVE  Losses'
<1>1. /\ Usable(w.session) => w.new \subseteq held[cur]
      /\ ~Usable(w.session) => w.new \subseteq disk.held \cup named
  BY DEF Losses, Turns
<1>2. NextPull(p, w, convo, held', flight) \/ EndPass(p, w, convo, held', flight)
  OBVIOUS
<1>3. QED  BY <1>1, <1>2, TurnLosses

LEMMA PassStepLosses ==
  ASSUME IInv, Losses, NEW p \in Pass, PassStep(p) PROVE Losses'
<1> DEFINE w == [pass[p] EXCEPT !.pull = {}]
<1>1. /\ pass[p] \in PassState /\ pass[p] \in Work
      /\ w \in Work /\ w.session = pass[p].session /\ w.new = pass[p].new
      /\ cur \in Session /\ cur >= 0 /\ cur <= cur
  <2>1. pass[p] \in PassState /\ pass[p] \in Work
    BY DEF IInv, PassState
  <2>2. w \in Work /\ w.session = pass[p].session /\ w.new = pass[p].new
    BY <2>1 DEF Work
  <2>3. cur \in Session /\ cur >= 0 /\ cur <= cur
    BY DEF IInv, Session
  <2>4. QED  BY <2>1, <2>2, <2>3
<1>2. Carried(late) \subseteq named /\ Carried({}) = {}
  BY DEF Losses, LateNamed, Carried
<1>3. pass[p].at \in {"idle", "listing"} => pass[p].new = {}
  BY DEF Losses, Turns
<1>4. CASE Receive(p)
  <2> DEFINE v == [Idle EXCEPT !.at = "listing", !.session = cur]
  <2>1. v \in PassState /\ v.at = "listing" /\ v.session = cur /\ v.new = {} /\ v.pull = {}
    BY <1>1 DEF Idle, PassState, Work
  <2>2. /\ pass' = [pass EXCEPT ![p] = v] /\ pass[p].at = "idle"
        /\ UNCHANGED <<store, held, posted, late, named>> /\ box' = box
    BY <1>4 DEF Receive
  <2> HIDE DEF v
  <2>3. QED  BY <1>1, <1>2, <1>3, <2>1, <2>2, PassMoves
<1>5. CASE Reopen(p)
  <2>1. UNCHANGED <<store, held, pass, box, posted, late, named>>
    BY <1>5 DEF Reopen
  <2>2. UNCHANGED <<Turns, Flown, Growing, Accounted, LateNamed, Served>>
    BY <2>1 DEF Turns, Flown, Growing, Accounted, LateNamed, Served, Usable, Carried,
                HeldIn, Owned, Taken, Kept, store
  <2>3. QED  BY <2>2 DEF Losses
<1>6. CASE Listed(p)
  <2>1. PICK ids \in SUBSET Blob :
          NextPull(p, [pass[p] EXCEPT !.ids = ids], convo, held, flight)
    BY <1>6 DEF Listed, IInv
  <2> DEFINE u == [pass[p] EXCEPT !.ids = ids]
  <2>2. u \in Work /\ u.session = pass[p].session /\ u.new = pass[p].new
    BY <1>1 DEF Work
  <2> HIDE DEF u
  <2>3. QED  BY <1>6, <2>1, <2>2, <1>2, DropLosses DEF Listed, u
<1>7. CASE ListFails(p)
  <2>1. /\ pass' = [pass EXCEPT ![p] = Idle] /\ pass[p].at = "listing"
        /\ UNCHANGED <<store, held, posted, late, named>> /\ box' = box
    BY <1>7 DEF ListFails
  <2>2. Idle \in PassState /\ Idle.at = "idle" /\ Idle.session = 0
        /\ Idle.new = {} /\ Idle.pull = {}
    BY IdleIsState DEF Idle
  <2>3. QED  BY <1>1, <1>2, <1>3, <2>1, <2>2, PassMoves
<1>8. CASE Opened(p)
  BY <1>8, OpenedLosses
<1>9. CASE Vanished(p)
  <2> HIDE DEF w
  <2>1. QED  BY <1>9, <1>1, <1>2, DropLosses DEF Vanished, w
<1>10. CASE Defective(p)
  <2> HIDE DEF w
  <2>1. QED  BY <1>10, <1>1, <1>2, DropLosses DEF Defective, w
<1>11. CASE Interrupted(p)
  <2>1. Carried(late') \subseteq named'
    BY <1>11, <1>2 DEF Interrupted, Carried
  <2> HIDE DEF w
  <2>2. QED  BY <1>11, <1>1, <2>1, DropLosses DEF Interrupted, w
<1>12. CASE Refused(p)
  <2> HIDE DEF w
  <2>1. QED  BY <1>12, <1>1, <1>2, DropLosses DEF Refused, w
<1>13. QED
  BY <1>4, <1>5, <1>6, <1>7, <1>8, <1>9, <1>10, <1>11, <1>12 DEF PassStep

(* The store answers for the oldest write: what is on the disk grows to     *)
(* what it had, or what it had is named.                                    *)
LEMMA StoreLosses ==
  ASSUME IInv, Losses, StoreLands \/ StoreRefuses PROVE Losses'
<1> DEFINE first == flight[1]
<1>1. /\ flight \in Seq(Write) /\ pass \in [Pass -> PassState] /\ flight # <<>>
      /\ 1 \in DOMAIN flight /\ first.by \in Pass /\ Head(flight) = first
  <2>1. flight \in Seq(Write) /\ pass \in [Pass -> PassState] /\ flight # <<>>
    BY DEF IInv, StoreLands, StoreRefuses
  <2>2. 1 \in DOMAIN flight /\ Head(flight) = first /\ first \in Write
    BY <2>1
  <2>3. QED  BY <2>1, <2>2 DEF Write
<1>2. /\ \A i \in DOMAIN flight' : i + 1 \in DOMAIN flight /\ flight'[i] = flight[i + 1]
      /\ \A i \in DOMAIN flight : i = 1 \/ (i - 1 \in DOMAIN flight' /\ flight'[i - 1] = flight[i])
      /\ DOMAIN flight \subseteq Nat /\ DOMAIN flight' \subseteq Nat \ {0}
  <2>1. flight' = Tail(flight)
    BY DEF StoreLands, StoreRefuses
  <2>2. QED  BY <1>1, <2>1
<1>3. /\ pass' = [pass EXCEPT ![first.by] = Idle]
      /\ UNCHANGED <<content, hostile, live, cur, held, box, posted, late>>
      /\ StoreLands => disk'.held = first.data.held /\ named' = named
      /\ StoreRefuses => disk' = disk /\ named' = named \cup (first.data.held \ disk.held)
  BY <1>1 DEF StoreLands, StoreRefuses
<1>4. /\ pass'[first.by] = Idle
      /\ \A q \in Pass \ {first.by} : pass'[q] = pass[q]
      /\ pass[first.by].at = "saving" /\ pass[first.by].new \subseteq first.data.held
  BY <1>1, <1>3 DEF Losses, Flown, HeldIn
\* Nothing that is on the disk or in the write that left is forgotten.
<1>5. /\ disk.held \subseteq disk'.held \cup named'
      /\ first.data.held \subseteq disk'.held \cup named'
      /\ disk'.held \subseteq disk.held \cup first.data.held
      /\ named \subseteq named'
  BY <1>1, <1>3 DEF Losses, Growing, HeldIn, StoreLands, StoreRefuses
<1>6. \A m : Owned(m) => Owned(m)'
  BY <1>1, <1>4, <1>5 DEF Owned, Taken
<1>7. /\ \A s : Usable(s)' <=> Usable(s)
      /\ \A B : Carried(B)' = Carried(B)
  BY <1>3 DEF Usable, Carried
<1>8. \A i \in DOMAIN flight' : flight'[i].by \in Pass \ {first.by}
  <2>1. \A i \in DOMAIN flight : flight[i] \in Write
    BY <1>1
  <2>2. \A i \in DOMAIN flight' : flight[i + 1].by # first.by
    BY <1>1, <1>2 DEF Losses, Flown
  <2>3. QED  BY <1>2, <2>1, <2>2 DEF Write
<1>9. Turns'
  <2> SUFFICES ASSUME NEW q \in Pass
               PROVE  /\ pass'[q].session <= cur
                      /\ pass'[q].at \in {"idle", "listing"} => pass'[q].new = {}
                      /\ Usable(pass'[q].session) => pass'[q].new \subseteq held[cur]
                      /\ ~Usable(pass'[q].session) /\ pass'[q].at # "saving" =>
                           /\ Carried(pass'[q].pull) \subseteq named'
                           /\ pass'[q].new \subseteq disk'.held \cup named'
                      /\ pass'[q].at = "saving" => \E i \in DOMAIN flight' : flight'[i].by = q
    BY <1>3, <1>7 DEF Turns
  <2>1. CASE q = first.by
    <3>1. cur >= 0 /\ Carried({}) = {}
      BY DEF IInv, Session, Carried
    <3>2. QED  BY <2>1, <3>1, <1>4 DEF Idle
  <2>2. CASE q # first.by
    <3>1. pass'[q] = pass[q]
      BY <2>2, <1>4
    <3>2. pass[q].at = "saving" => \E i \in DOMAIN flight' : flight'[i].by = q
      BY <2>2, <1>2 DEF Losses, Turns
    <3>3. QED  BY <3>1, <3>2, <1>5 DEF Losses, Turns
  <2>3. QED  BY <2>1, <2>2
<1>10. Flown'
  <2>1. \A i \in DOMAIN flight' :
          pass'[flight'[i].by].at = "saving" /\ pass'[flight'[i].by].new \subseteq flight'[i].data.held
    <3> SUFFICES ASSUME NEW i \in DOMAIN flight'
                 PROVE  pass'[flight'[i].by].at = "saving"
                        /\ pass'[flight'[i].by].new \subseteq flight'[i].data.held
      OBVIOUS
    <3>1. pass'[flight'[i].by] = pass[flight[i + 1].by] /\ i + 1 \in DOMAIN flight
      BY <1>2, <1>4, <1>8
    <3>2. QED  BY <3>1, <1>2 DEF Losses, Flown, HeldIn
  <2>2. \A i, j \in DOMAIN flight' : flight'[i].by = flight'[j].by => i = j
    <3> SUFFICES ASSUME NEW i \in DOMAIN flight', NEW j \in DOMAIN flight',
                        flight'[i].by = flight'[j].by
                 PROVE  i = j
      OBVIOUS
    <3>1. i + 1 = j + 1
      BY <1>2 DEF Losses, Flown
    <3>2. i \in Nat /\ j \in Nat
      BY <1>2
    <3>3. QED  BY <3>1, <3>2
  <2>3. QED  BY <2>1, <2>2 DEF Flown, HeldIn
<1>11. Growing'
  <2>1. \A i \in DOMAIN flight' : disk'.held \subseteq flight'[i].data.held \cup named'
    <3> SUFFICES ASSUME NEW i \in DOMAIN flight'
                 PROVE  disk'.held \subseteq flight'[i].data.held \cup named'
      OBVIOUS
    <3>1. i + 1 \in DOMAIN flight /\ 1 < i + 1 /\ flight'[i] = flight[i + 1]
      BY <1>2
    <3>2. first.data.held \subseteq flight[i + 1].data.held \cup named
          /\ disk.held \subseteq flight[i + 1].data.held \cup named
      BY <3>1, <1>1 DEF Losses, Growing, HeldIn
    <3>3. QED  BY <3>1, <3>2, <1>5
  <2>2. \A i, j \in DOMAIN flight' :
          i < j => flight'[i].data.held \subseteq flight'[j].data.held \cup named'
    <3> SUFFICES ASSUME NEW i \in DOMAIN flight', NEW j \in DOMAIN flight', i < j
                 PROVE  flight'[i].data.held \subseteq flight'[j].data.held \cup named'
      OBVIOUS
    <3>1. i + 1 \in DOMAIN flight /\ j + 1 \in DOMAIN flight /\ i + 1 < j + 1
      BY <1>2
    <3>2. flight[i + 1].data.held \subseteq flight[j + 1].data.held \cup named
      BY <3>1 DEF Losses, Growing, HeldIn
    <3>3. QED  BY <3>2, <1>2, <1>5
  <2>3. live => disk'.held \subseteq held[cur] \cup named'
    BY <1>1, <1>5 DEF Losses, Growing, HeldIn
  <2>4. live => \A i \in DOMAIN flight' : flight'[i].data.held \subseteq held[cur] \cup named'
    BY <1>2, <1>5 DEF Losses, Growing, HeldIn
  <2>5. QED  BY <2>1, <2>2, <2>3, <2>4, <1>3 DEF Growing, HeldIn
<1>12. Accounted'
  BY <1>2, <1>3, <1>6 DEF Losses, Accounted, HeldIn
<1>13. LateNamed'
  BY <1>3, <1>5, <1>7 DEF Losses, LateNamed
<1>14. Served'
  <2> SUFFICES ASSUME ~hostile, NEW m \in Carried(posted \ box)
               PROVE  Kept(m)' \/ m \in named'
    BY <1>3, <1>7 DEF Served
  <2>1. Kept(m) \/ m \in named
    BY DEF Losses, Served
  <2>2. CASE live /\ m \in held[cur]
    BY <2>2, <1>3 DEF Kept
  <2>3. CASE m \in disk.held \/ m \in first.data.held \/ m \in named
    BY <2>3, <1>5 DEF Kept
  <2>4. ASSUME NEW i \in DOMAIN flight, m \in flight[i].data.held
        PROVE  Kept(m)' \/ m \in named'
    <3>1. CASE i = 1
      BY <2>3, <2>4, <3>1
    <3>2. CASE i # 1
      BY <2>4, <3>2, <1>2 DEF Kept, HeldIn
    <3>3. QED  BY <3>1, <3>2
  <2>5. ASSUME NEW q \in Pass, Usable(pass[q].session), pass[q].at = "pulled",
               m \in Carried(pass[q].pull)
        PROVE  Kept(m)'
    <3>1. pass'[q] = pass[q]
      BY <2>5, <1>4
    <3>2. QED  BY <2>5, <3>1, <1>7 DEF Kept
  <2>6. QED  BY <2>1, <2>2, <2>3, <2>4, <2>5 DEF Kept, HeldIn
<1>15. QED  BY <1>9, <1>10, <1>11, <1>12, <1>13, <1>14 DEF Losses

(* What a lock takes with it is named at that moment, or is in a write      *)
(* that a lock does not withdraw.                                           *)
LEMMA LockLosses == ASSUME IInv, Losses, Lock PROVE Losses'
<1>1. /\ live /\ ~live' /\ UNCHANGED <<content, hostile, cur, flight, disk, held, pass, box, posted, late>>
      /\ named \subseteq named'
      /\ \A q \in Pass : pass[q].at # "saving" /\ pass[q].session = cur =>
           Carried(pass[q].pull) \subseteq named'
           /\ pass[q].new \subseteq disk.held \cup named'
  BY DEF Lock, AtStake
<1>2. /\ \A s : Usable(s) <=> s = cur
      /\ \A s : ~Usable(s)'
      /\ \A B : Carried(B)' = Carried(B)
      /\ \A m : Owned(m) => Owned(m)'
  BY <1>1 DEF Usable, Carried, Owned, Taken
<1>3. Turns'
  BY <1>1, <1>2 DEF Losses, Turns
<1>4. Flown' /\ Growing' /\ Accounted' /\ LateNamed'
  BY <1>1, <1>2 DEF Losses, Flown, Growing, Accounted, LateNamed, HeldIn
<1>5. Served'
  <2> SUFFICES ASSUME ~hostile, NEW m \in Carried(posted \ box)
               PROVE  Kept(m)' \/ m \in named'
    BY <1>1, <1>2 DEF Served
  <2>1. Kept(m) \/ m \in named
    BY DEF Losses, Served
  <2>2. ASSUME NEW q \in Pass, m \in pass[q].new
        PROVE  Kept(m)' \/ m \in named'
    <3>1. CASE pass[q].at = "saving"
      <4>1. PICK i \in DOMAIN flight : flight[i].by = q
        BY <3>1 DEF Losses, Turns
      <4>2. m \in HeldIn(i)
        BY <2>2, <4>1 DEF Losses, Flown
      <4>3. QED  BY <4>2, <1>1 DEF Kept, HeldIn
    <3>2. CASE pass[q].at # "saving"
      BY <2>2, <3>2, <1>1, <1>2 DEF Losses, Turns, Kept
    <3>3. QED  BY <3>1, <3>2
  <2>3. CASE m \in held[cur]
    <3>1. Owned(m)
      BY <2>3, <1>1 DEF Losses, Accounted
    <3>2. QED  BY <3>1, <2>2, <1>1 DEF Owned, Taken, Kept
  <2>4. QED  BY <2>1, <2>3, <1>1, <1>2 DEF Kept, HeldIn
<1>6. QED  BY <1>3, <1>4, <1>5 DEF Losses

(* So is what a crash takes with it.                                        *)
LEMMA CrashLosses == ASSUME IInv, Losses, Crash PROVE Losses'
<1>1. /\ ~live' /\ flight' = <<>> /\ pass' = [p \in Pass |-> Idle]
      /\ UNCHANGED <<content, hostile, cur, disk, held, box, posted>>
      /\ late' = late \cup UNION { pass[p].pull : p \in { q \in Pass : pass[q].at = "pulling" } }
      /\ named \subseteq named'
      /\ \A q \in Pass : Carried(pass[q].pull) \subseteq named'
                         /\ pass[q].new \subseteq disk.held \cup named'
  BY DEF Crash, AtStake
<1>2. /\ \A s : ~Usable(s)'
      /\ \A B : Carried(B)' = Carried(B)
      /\ DOMAIN flight' = {} /\ Carried({}) = {}
      /\ cur >= 0
  BY <1>1 DEF Usable, Carried, IInv, Session
<1>3. Turns'
  BY <1>1, <1>2 DEF Turns, Idle
<1>4. Flown' /\ Growing' /\ Accounted'
  BY <1>1, <1>2 DEF Flown, Growing, Accounted
<1>5. LateNamed'
  BY <1>1, <1>2 DEF Losses, LateNamed, Carried
<1>6. \A m : Owned(m) => m \in disk.held \cup named'
  BY <1>1 DEF Owned, Taken
<1>7. \A m \in Carried(posted \ box) : hostile \/ m \in disk.held \/ m \in named'
  BY <1>1, <1>6 DEF Losses, Served, Kept, Accounted
<1>8. Served'
  BY <1>1, <1>2, <1>7 DEF Served, Kept
<1>9. QED  BY <1>3, <1>4, <1>5, <1>8 DEF Losses

(* The new session has what the disk had; the writes it overtakes are named. *)
LEMMA UnlockLosses == ASSUME IInv, Losses, Unlock PROVE Losses'
<1>1. /\ ~live /\ live' /\ cur' = cur + 1 /\ cur \in Nat
      /\ held'[cur'] = disk.held
      /\ UNCHANGED <<content, hostile, flight, disk, pass, box, posted, late>>
      /\ named \subseteq named'
      /\ \A i \in DOMAIN flight : HeldIn(i) \subseteq disk.held \cup named'
  BY DEF Unlock, IInv, Session, HeldIn
<1>2. /\ \A p \in Pass : pass[p].session <= cur /\ pass[p].session \in Nat
      /\ \A p \in Pass : ~Usable(pass[p].session) /\ ~Usable(pass[p].session)'
      /\ \A B : Carried(B)' = Carried(B)
      /\ \A m : Owned(m) => Owned(m)'
  <2>1. \A p \in Pass : pass[p].session <= cur /\ pass[p].session \in Nat
    BY DEF Losses, Turns, IInv, PassState, Work, Session
  <2>2. \A p \in Pass : pass[p].session # cur'
    BY <2>1, <1>1
  <2>3. QED  BY <1>1, <2>1, <2>2 DEF Usable, Carried, Owned, Taken
<1>3. Turns'
  <2>1. \A p \in Pass : pass[p].session <= cur'
    BY <1>1, <1>2
  <2>2. QED  BY <1>1, <1>2, <2>1 DEF Losses, Turns
<1>4. Flown'
  BY <1>1 DEF Losses, Flown, HeldIn
<1>5. Growing'
  BY <1>1 DEF Losses, Growing, HeldIn
<1>6. Accounted'
  BY <1>1, <1>2 DEF Losses, Accounted, HeldIn, Owned
<1>7. LateNamed'
  BY <1>1, <1>2 DEF Losses, LateNamed
<1>8. Served'
  BY <1>1, <1>2 DEF Losses, Served, Kept, HeldIn
<1>9. QED  BY <1>3, <1>4, <1>5, <1>6, <1>7, <1>8 DEF Losses

LEMMA RelayLosses == ASSUME IInv, Losses, Relay PROVE Losses'
<1>1. ASSUME NEW b, posted' \ box' \subseteq (posted \ box) \cup {b},
             Carried({b}) \subseteq named \/ posted' \ box' \subseteq posted \ box,
             late' \subseteq late, UNCHANGED <<store, held, pass, named>>
      PROVE  Losses'
  <2>1. /\ \A s : Usable(s)' <=> Usable(s)
        /\ \A B : Carried(B)' = Carried(B)
        /\ \A m : Owned(m)' <=> Owned(m)
        /\ \A m : Kept(m)' <=> Kept(m)
    BY <1>1 DEF Usable, Carried, Owned, Taken, Kept, HeldIn, store
  <2>2. Carried(late') \subseteq named
    BY <1>1, CarriedOf DEF Losses, LateNamed
  <2>3. \A m \in Carried(posted' \ box') : m \in Carried(posted \ box) \/ m \in named
    BY <1>1 DEF Carried
  <2>4. Turns' /\ Flown' /\ Growing'
    BY <1>1, <2>1 DEF Losses, Turns, Flown, Growing, HeldIn, store
  <2>5. Accounted' /\ LateNamed' /\ Served'
    BY <1>1, <2>1, <2>2, <2>3 DEF Losses, Accounted, LateNamed, Served, HeldIn, store
  <2>6. QED  BY <2>4, <2>5 DEF Losses
<1>2. ASSUME NEW b \in Blob, Deposit(b) PROVE Losses'
  <2>1. posted' \ box' \subseteq posted \ box
    BY <1>2 DEF Deposit
  <2>2. QED  BY <1>1, <1>2, <2>1 DEF Deposit
<1>3. ASSUME NEW b \in Blob, RelayServesLate(b) PROVE Losses'
  <2>1. Carried({b}) \subseteq named
    BY <1>3 DEF RelayServesLate, Losses, LateNamed, Carried
  <2>2. posted' \ box' \subseteq (posted \ box) \cup {b}
    BY <1>3 DEF RelayServesLate
  <2>3. QED  BY <1>1, <1>3, <2>1, <2>2 DEF RelayServesLate
<1>4. ASSUME NEW p \in Pass, RelayServes(p) PROVE Losses'
  <2> DEFINE v == [pass[p] EXCEPT !.at = "pulled"]
  <2>1. v \in PassState /\ v.at = "pulled" /\ v.session = pass[p].session
        /\ v.new = pass[p].new /\ v.pull = pass[p].pull
    BY <1>4 DEF RelayServes, IInv, PassState, Work
  <2>2. /\ pass' = [pass EXCEPT ![p] = v] /\ pass[p].at = "pulling"
        /\ UNCHANGED <<store, held, posted, late, named>> /\ box' = box \ pass[p].pull
    BY <1>4 DEF RelayServes
  <2> HIDE DEF v
  <2>3. \A m \in Carried(posted \ box') : m \in Carried(posted \ box) \/ m \in Carried(v.pull)
    BY <2>1, <2>2 DEF Carried
  <2>4. QED  BY <2>1, <2>2, <2>3, PassMoves DEF Losses, Turns
<1>5. QED  BY <1>2, <1>3, <1>4 DEF Relay

LEMMA LossesInvariance == Spec => []Losses
<1>1. Init => Losses
  <2> SUFFICES ASSUME Init PROVE Losses
    OBVIOUS
  <2>1. IInv
    BY InitIInv
  <2>2. /\ \A p \in Pass : pass[p] = Idle
        /\ DOMAIN flight = {} /\ held[cur] = {} /\ disk.held = {} /\ Carried({}) = {}
        /\ cur >= 0 /\ posted = {} /\ box = {} /\ late = {}
    BY <2>1 DEF Init, IInv, Nothing, Carried, Session
  <2>3. posted \ box = {}
    BY <2>2
  <2>4. Turns
    <3>1. /\ Idle.at = "idle" /\ Idle.session = 0
          /\ Idle.pull = {} /\ Idle.new = {}
      BY DEF Idle
    <3>2. QED  BY <3>1, <2>2 DEF Turns
  <2>5. Flown /\ Growing
    BY <2>2 DEF Flown, Growing
  <2>6. Accounted /\ LateNamed /\ Served
    BY <2>2, <2>3 DEF Accounted, LateNamed, Served
  <2>7. QED  BY <2>4, <2>5, <2>6 DEF Losses
<1>2. IInv /\ Losses /\ [Next]_vars => Losses'
  <2> SUFFICES ASSUME IInv, Losses, [Next]_vars PROVE Losses'
    OBVIOUS
  <2>1. CASE Device
    BY <2>1, PassStepLosses, StoreLosses, LockLosses, CrashLosses, UnlockLosses DEF Device
  <2>2. CASE Relay
    BY <2>2, RelayLosses
  <2>3. CASE UNCHANGED vars
    <3>1. UNCHANGED <<Turns, Flown, Growing, Accounted, LateNamed, Served>>
      BY <2>3 DEF Turns, Flown, Growing, Accounted, LateNamed, Served, Usable, Carried,
                  HeldIn, Owned, Taken, Kept, store, vars
    <3>2. QED  BY <3>1 DEF Losses
  <2>4. QED  BY <2>1, <2>2, <2>3 DEF Next
<1>3. QED  BY <1>1, <1>2, Invariance, PTL DEF Spec

(* With an honest relay a message is lost only in the windows messaging.ts  *)
(* and its docs name: whatever left the mailbox is with the open pass that  *)
(* pulled it, in the open session, on its way to the disk or on it, or was  *)
(* named when it was dropped (messaging.ts receive, vault.ts).              *)
THEOREM NothingElseIsLost == Spec => []LossesAreNamed
<1>1. IInv /\ Losses => LossesAreNamed
  <2> SUFFICES ASSUME IInv, Losses, ~hostile, NEW m \in Carried(posted)
               PROVE  Safe(m) \/ m \in named
    BY DEF LossesAreNamed
  <2>1. m \in Carried(box) \/ m \in Carried(posted \ box)
    BY DEF Carried
  <2>2. CASE m \in Carried(box)
    BY <2>2 DEF Safe
  <2>3. CASE m \in Carried(posted \ box)
    <3>1. Kept(m) \/ m \in named
      BY <2>3 DEF Losses, Served
    <3>2. QED  BY <3>1 DEF Kept, Safe, HeldIn
  <2>4. QED  BY <2>1, <2>2, <2>3
<1>2. QED  BY <1>1, Invariance, LossesInvariance, PTL

=============================================================================
