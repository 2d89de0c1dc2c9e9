---------------------------- MODULE MCVaultStore ----------------------------
(* A small instance of VaultStore: one contact that comes back with a new   *)
(* card, a message sent and one received, and what builds of format 1 and 2 *)
(* left behind.                                                             *)
EXTENDS VaultStore

CONSTANTS alice, k1, k2, s1, r1, box1, box2, tok, wire, id1, id2

MCRecordOf ==
  [f \in Send \cup Receive |->
     IF f = s1
     THEN [peerId |-> alice, direction |-> "out", timestampMs |-> 1, body |-> "hello",
           msgId |-> id1, delivery |-> "queued", wire |-> wire, receivedAtMs |-> Absent]
     ELSE [peerId |-> alice, direction |-> "in", timestampMs |-> 2, body |-> "hello",
           msgId |-> id2, delivery |-> Absent, wire |-> Absent, receivedAtMs |-> 0]]

MCCard(n) == [of |-> alice, serial |-> n]

MCMailbox(n) ==
  [peerId |-> alice, inboxId |-> IF n = 1 THEN box1 ELSE box2, inboxPullToken |-> tok,
   outboxId |-> IF n = 1 THEN box2 ELSE box1, outboxWriteCap |-> tok]

\* The relay was there at first; the second time it was gone, or was there
\* again: that ceremony is met by a vault without messages, in its first session.
MCPairing ==
  { [card |-> MCCard(n), mailboxes |-> {MCMailbox(n)}] : n \in 1..2 }
    \cup {[card |-> MCCard(2), mailboxes |-> {}]}

RelayAgain(p) == p.card.serial = 2 /\ p.mailboxes # {}

MCOlder ==
  { [format |-> n,
     data |-> [EmptyVault EXCEPT !.contacts = {MCCard(1)}, !.messages = {RecordOf[r1]}]] :
     n \in 1..2 }

MCFloor == [t |-> 2, m |-> 2, p |-> 1]
MCCeiling == [t |-> 10, m |-> 9, p |-> 4]
MCParams == [t |-> 3, m |-> 5, p |-> 1]

MCNext ==
  \/ CreateIdentity
  \/ \E f \in Send : SendMessage(f)
  \/ \E f \in Receive : ReceiveMessage(f)
  \/ \E p \in Pairing :
       /\ RelayAgain(p) => mem.messages = {} /\ session <= 1
       /\ CommitContact(p)
  \/ Lock
  \/ Unlock
  \/ Worker
  \/ Store
  \/ Crash

MCSpec == Init /\ [][MCNext]_vars
=============================================================================
