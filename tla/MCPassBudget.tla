---------------------------- MODULE MCPassBudget ----------------------------
(* A small instance of PassBudget, its proportions those of the shipped     *)
(* constants: a floor under half the receive budget and under the ceiling.  *)
EXTENDS PassBudget
=============================================================================
