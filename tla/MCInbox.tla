------------------------------- MODULE MCInbox ------------------------------
(* A small instance of Inbox: two blobs that carry one message, as after a  *)
(* sender's retry, or one beside what does not open: our own message handed *)
(* back, the peer's stamped too far ahead.                                  *)
EXTENDS Inbox, TLC

CONSTANTS x1, x2, hello, b1, b2, p1, p2

MCPeer == [identityPub |-> 1, encryptionPub |-> x1]
MCMe == [identityPub |-> 2, encryptionPub |-> x2]

Genuine == Seal(MCPeer, CardOf(MCMe), hello, 1)
Ahead == Seal(MCPeer, CardOf(MCMe), hello, nowMs + CLOCK_SKEW_MS + 1)
Reflected == Seal(MCMe, CardOf(MCPeer), hello, 1)

Beside(other, lies) ==
  [content |-> [b \in Blob |-> IF b = b1 THEN Genuine ELSE other], hostile |-> lies]

MCSettings ==
  { Beside(Genuine, FALSE), Beside(Genuine, TRUE), Beside(Ahead, FALSE), Beside(Reflected, TRUE) }

MCSaid == { ComputeMsgId(Genuine), ComputeMsgId(Ahead) }
=============================================================================
