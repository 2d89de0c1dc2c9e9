----------------------------- MODULE DurableCell ----------------------------
(***************************************************************************)
(* What the vault promises the rest of the client about durability, with   *)
(* the worker, the passphrase and the browser's database left out: a live  *)
(* value that exists while the vault is open, writes of it that reach the  *)
(* disk in the order they were asked for or not at all, and an open that   *)
(* starts from what the disk held when the opening began.                  *)
(*                                                                         *)
(* VaultStore implements this; Outbox and Inbox are written over it.       *)
(***************************************************************************)
EXTENDS Sequences

CONSTANTS
  Value,   \* what a vault can hold
  Empty    \* what a vault holds when it is created

VARIABLES
  mem,     \* the live value, Empty while the vault is closed
  open,
  flight,  \* values asked to be written, oldest first
  disk

vars == <<mem, open, flight, disk>>

Init ==
  /\ mem = Empty
  /\ open = FALSE
  /\ flight = <<>>
  /\ disk \in Value

\* Change the live value and ask for it to be written.
Put ==
  /\ open
  /\ mem' \in Value
  /\ flight' = Append(flight, mem')
  /\ UNCHANGED <<open, disk>>

\* The oldest write lands, or fails; a failure may take back what it carried.
Land ==
  /\ flight # <<>>
  /\ disk' = Head(flight)
  /\ flight' = Tail(flight)
  /\ UNCHANGED <<mem, open>>

Fail ==
  /\ flight # <<>>
  /\ flight' = Tail(flight)
  /\ \/ mem' = mem
     \/ open /\ mem' \in Value
  /\ UNCHANGED <<open, disk>>

\* Writes already asked for are not withdrawn by closing.
Close ==
  /\ open
  /\ open' = FALSE
  /\ mem' = Empty
  /\ UNCHANGED <<flight, disk>>

\* Nothing waits for the writes of the vault that was closed.
Open ==
  /\ ~open
  /\ open' = TRUE
  /\ mem' = disk
  /\ UNCHANGED <<flight, disk>>

Crash ==
  /\ open' = FALSE
  /\ mem' = Empty
  /\ flight' = <<>>
  /\ UNCHANGED disk

Next ==
  \/ Put
  \/ Land
  \/ Fail
  \/ Close
  \/ Open
  \/ Crash

Spec == Init /\ [][Next]_vars
=============================================================================
