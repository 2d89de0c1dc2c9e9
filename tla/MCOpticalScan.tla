---------------------------- MODULE MCOpticalScan ---------------------------
(* A small instance of OpticalScan: two codes whose frames agree in session *)
(* and geometry, each of three blocks in three frames.                      *)
EXTENDS OpticalScan
CONSTANTS card, nonce
MCLength == [p \in Payload |-> 3]
MCSession == [p \in Payload |-> 1]
MCChecksum == [p \in Payload |-> IF p = card THEN 7 ELSE 8]
MCIndices == [id \in {1} |-> [k \in {3} |-> [q \in Seq32 |-> <<{1, 2}, {2, 3}, {3}>>[q + 1]]]]
MCNoise == { [shape |-> [k |-> 4, blockLen |-> 1, totalLen |-> 4], session |-> 1, fnv |-> 7] }
=============================================================================
