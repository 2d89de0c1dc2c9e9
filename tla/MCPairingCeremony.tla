-------------------------- MODULE MCPairingCeremony --------------------------
(* A small instance of PairingCeremony.                                     *)
EXTENDS PairingCeremony

CONSTANTS a, b, x, y

\* One of the two has published before.
MCPast == [d \in Device |-> IF d = b THEN {y} ELSE {}]

\* With a screen held up: the two, who never met, play their own parts, and
\* go on.
MCInit ==
  /\ Init
  /\ heldUp => role[a] # role[b] /\ inbox[a] = x /\ \A d \in Device : pin[d] = "new"

MCNext ==
  \/ ~heldUp /\ Next
  \/ /\ heldUp
     /\ \E d \in Device :
          \/ HandOff(d)
          \/ \E q \in Screens \cup Around : Offer(d, q)
          \/ Prove(d) \/ Finalize(d)
          \/ ConfirmMatch(d) \/ CommitLands(d)

MCSpec == MCInit /\ [][MCNext]_vars
=============================================================================
