---------------------------- MODULE MCReplayGuard ---------------------------
(* A small instance of ReplayGuard: two senders whose messages straddle the *)
(* window, caps of two entries, a prune every third admit.        *)
EXTENDS ReplayGuard

CONSTANTS alice, bob

MCSender == {alice, bob}
MCMessage == 1..5
MCFrom == [m \in MCMessage |-> IF m <= 4 THEN alice ELSE bob]
MCTimestamp == <<1, 2, 3, 5, 1>>
=============================================================================
