----------------------------- MODULE OnceFilter -----------------------------
(***************************************************************************)
(* What a replay filter promises, with none of its machinery: it takes     *)
(* every message at most once for as long as it holds the message, it      *)
(* forgets only when it holds more than its capacity, and a reopened       *)
(* filter holds exactly what the last save that landed held.               *)
(*                                                                         *)
(* ReplayGuard implements this; Inbox is written against it.               *)
(***************************************************************************)
EXTENDS Naturals, FiniteSets

CONSTANTS
  Message,   \* authenticated messages
  Capacity   \* messages the filter may hold before it may forget one

VARIABLES
  held,      \* messages the filter will refuse if they are offered again
  staged,    \* what the last export carried
  kept,      \* what the last export that became durable carried
  open       \* whether a live filter exists

vars == <<held, staged, kept, open>>

Init ==
  /\ held = {}
  /\ staged = {}
  /\ kept = {}
  /\ open = TRUE

\* The filter may forget some of S only when S does not fit.
AfterForgetting(S) == { R \in SUBSET S : R = S \/ Cardinality(S) > Capacity }

Accept(m) ==
  /\ open
  /\ m \notin held
  /\ held' \in AfterForgetting(held \cup {m})
  /\ UNCHANGED <<staged, kept, open>>

Save ==
  /\ open
  /\ held' \in AfterForgetting(held)
  /\ staged' = held'
  /\ UNCHANGED <<kept, open>>

Land ==
  /\ kept' = staged
  /\ UNCHANGED <<held, staged, open>>

Close ==
  /\ held' = {}
  /\ open' = FALSE
  /\ UNCHANGED <<staged, kept>>

Reopen ==
  /\ ~open
  /\ held' = kept
  /\ open' = TRUE
  /\ UNCHANGED <<staged, kept>>

Next ==
  \/ \E m \in Message : Accept(m)
  \/ Save
  \/ Land
  \/ Close
  \/ Reopen

Spec == Init /\ [][Next]_vars
=============================================================================
