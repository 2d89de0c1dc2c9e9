----------------------------- MODULE MCAppShell -----------------------------
(* A small instance of AppShell: three unlocks, two waiting operations.     *)
EXTENDS AppShell

CONSTANTS a1, a2, a3, o1, o2
=============================================================================
