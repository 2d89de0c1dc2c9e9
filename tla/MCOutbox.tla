------------------------------ MODULE MCOutbox ------------------------------
(* Small instances of Outbox.                                               *)
EXTENDS Outbox

CONSTANTS p1, p2
=============================================================================
