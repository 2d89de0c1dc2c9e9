---------------------------- MODULE MCRelayStore ----------------------------
(* Small instances of RelayStore: two threads, and b2 in the second mailbox.*)
EXTENDS RelayStore, TLC

CONSTANTS t1, t2, purge, m1, m2, b1, b2

MCHome == [b \in Blob |-> IF b = b2 THEN m2 ELSE m1]

\* Handlers are interchangeable.
MCSymmetry == Permutations(Thread)
=============================================================================
