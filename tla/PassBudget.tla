----------------------------- MODULE PassBudget -----------------------------
(***************************************************************************)
(* The clocks of one sync in client/src/messaging.ts: flush under its own  *)
(* budget, then receive, which splits its budget between the list and the  *)
(* pulls. A pull destroys the blob it abandons, so none may be started     *)
(* with less than a floor; a list that could eat the floor would leave a   *)
(* mailbox nothing ever empties; and the screen is disabled for the whole  *)
(* sync, so the relay must not be able to stretch it.                      *)
(*                                                                         *)
(* Time is counted in milliseconds. A millisecond inside a request and     *)
(* inside its deadline is the relay's to spend; every other one, be it     *)
(* local work or a timer that fires late, is counted in slip.              *)
(***************************************************************************)
EXTENDS Integers

CONSTANTS
  Unset,           \* an option that is absent or not finite
  ReceiveOption,   \* receiveBudgetMs, minPullDeadlineMs, flushBudgetMs
  PullOption,
  FlushOption,
  ReceiveMs,       \* RECEIVE_BUDGET_MS, MIN_PULL_DEADLINE_MS, FLUSH_BUDGET_MS
  PullMs,
  FlushMs,
  Ceiling,         \* the relay client's timeoutMs
  Queue,           \* records waiting to be offered
  MaxIds,          \* MAX_PULLS_PER_RECEIVE
  MaxSlip          \* bound: milliseconds of slip in each half

ASSUME BudgetAssumption ==
  /\ Unset \notin Int
  /\ ReceiveOption \in Int \cup {Unset}
  /\ PullOption \in Int \cup {Unset}
  /\ FlushOption \in Int \cup {Unset}
  /\ ReceiveMs \in Nat \ {0}
  /\ PullMs \in Nat \ {0}
  /\ FlushMs \in Nat \ {0}
  /\ Ceiling \in Int
  /\ Queue \in Nat
  /\ MaxIds \in Nat
  /\ MaxSlip \in Nat

VARIABLES
  at,        \* the await or the loop the sync is in
  elapsed,   \* milliseconds since this half read its clock
  slip,      \* those of them that no request's deadline accounts for
  late,      \* slip since a deadline was last set
  flushed,   \* elapsed and slip of the flush half, once it is over
  queue,     \* records not offered yet
  offered,   \* records offered
  ids,       \* listed ids not asked for yet
  pulls,     \* pulls started
  limit,     \* deadline of the request in flight
  run        \* how much of it is spent

budgetVars == <<at, elapsed, slip, late, flushed, queue, offered, ids, pulls, limit, run>>

Larger(a, b) == IF a < b THEN b ELSE a
Smaller(a, b) == IF a < b THEN a ELSE b

-----------------------------------------------------------------------------
(* The constructor. *)

msOption(value, fallback) == IF value = Unset THEN fallback ELSE Larger(1, value)

ReceiveBudget == msOption(ReceiveOption, ReceiveMs)

Floor ==
  Smaller(msOption(PullOption, PullMs),
          Smaller(Larger(1, ReceiveBudget \div 2), msOption(Ceiling, ReceiveBudget)))

FlushBudget == msOption(FlushOption, FlushMs)

\* relay-client.ts limitMs: a caller can only shorten the deadline.
limitMs(within) == Larger(1, Smaller(Ceiling, within))

Ask(await, within) ==
  /\ at' = await
  /\ late' = 0
  /\ limit' = limitMs(within)
  /\ run' = 0

-----------------------------------------------------------------------------
BudgetInit ==
  /\ at = "flush"
  /\ elapsed = 0
  /\ slip = 0
  /\ late = 0
  /\ flushed = [elapsed |-> 0, slip |-> 0]
  /\ queue = Queue
  /\ offered = 0
  /\ ids = 0
  /\ pulls = 0
  /\ limit = 0
  /\ run = 0

InRequest == at \in {"offering", "listing", "pulling"}

Tick ==
  /\ at # "over"
  /\ elapsed' = elapsed + 1
  /\ \/ /\ InRequest /\ run < limit
        /\ run' = run + 1
        /\ slip' = slip
        /\ late' = late
     \/ /\ ~(InRequest /\ run < limit)
        /\ slip < MaxSlip
        /\ run' = run
        /\ slip' = slip + 1
        /\ late' = late + 1
  /\ UNCHANGED <<at, flushed, queue, offered, ids, pulls, limit>>

-----------------------------------------------------------------------------
(* flush *)

FlushLeft == FlushBudget - elapsed

\* Slip: only the first offer is held to the budget.
OfferUnbudgeted ==
  /\ at = "flush"
  /\ queue > 0
  /\ queue' = queue - 1
  /\ offered' = offered + 1
  /\ Ask("offering", Larger(1, FlushLeft))
  /\ UNCHANGED <<elapsed, slip, flushed, ids, pulls>>

\* The first record is offered whatever the clock says.
Offer ==
  /\ at = "flush"
  /\ queue > 0
  /\ offered = 0 \/ FlushLeft > 0
  /\ queue' = queue - 1
  /\ offered' = offered + 1
  /\ Ask("offering", Larger(1, FlushLeft))
  /\ UNCHANGED <<elapsed, slip, flushed, ids, pulls>>

\* The queue is empty, or the budget is.
FlushEnds ==
  /\ at = "flush"
  /\ queue = 0 \/ (offered > 0 /\ FlushLeft <= 0)
  /\ at' = "marking"
  /\ UNCHANGED <<elapsed, slip, late, flushed, queue, offered, ids, pulls, limit, run>>

Offered ==
  /\ at = "offering"
  /\ at' \in {"flush", "marking"}
  /\ UNCHANGED <<elapsed, slip, late, flushed, queue, offered, ids, pulls, limit, run>>

-----------------------------------------------------------------------------
(* receive *)

\* The save of what flush marked is over; receive reads its own clock.
Begin ==
  /\ at = "marking"
  /\ at' = "begun"
  /\ flushed' = [elapsed |-> elapsed, slip |-> slip]
  /\ elapsed' = 0
  /\ slip' = 0
  /\ late' = 0
  /\ UNCHANGED <<queue, offered, ids, pulls, limit, run>>

ReceiveLeft == ReceiveBudget - elapsed

\* Slip: the floor is checked and not reserved.
ListUnreserved ==
  /\ at = "begun"
  /\ Ask("listing", Larger(1, ReceiveLeft))
  /\ UNCHANGED <<elapsed, slip, flushed, queue, offered, ids, pulls>>

List ==
  /\ at = "begun"
  /\ Ask("listing", Larger(1, ReceiveLeft - Floor))
  /\ UNCHANGED <<elapsed, slip, flushed, queue, offered, ids, pulls>>

Listed ==
  /\ at = "listing"
  /\ \/ /\ at' = "loop"
        /\ ids' \in 0..MaxIds
     \/ /\ at' = "over"
        /\ ids' = ids
  /\ UNCHANGED <<elapsed, slip, late, flushed, queue, offered, pulls, limit, run>>

SpendReservation == pulls = 0 /\ ReceiveLeft * 2 >= Floor

Pull ==
  /\ at = "loop"
  /\ ids > 0
  /\ ReceiveLeft >= Floor \/ SpendReservation
  /\ ids' = ids - 1
  /\ pulls' = pulls + 1
  /\ Ask("pulling", IF SpendReservation THEN Larger(ReceiveLeft, Floor) ELSE ReceiveLeft)
  /\ UNCHANGED <<elapsed, slip, flushed, queue, offered>>

Pulled ==
  /\ at = "pulling"
  /\ at' \in {"loop", "over"}
  /\ UNCHANGED <<elapsed, slip, late, flushed, queue, offered, ids, pulls, limit, run>>

OutOfTime ==
  /\ at = "loop"
  /\ ids > 0
  /\ ReceiveLeft < Floor /\ ~SpendReservation
  /\ at' = "refused"
  /\ UNCHANGED <<elapsed, slip, late, flushed, queue, offered, ids, pulls, limit, run>>

AllAsked ==
  /\ at = "loop"
  /\ ids = 0
  /\ at' = "over"
  /\ UNCHANGED <<elapsed, slip, late, flushed, queue, offered, ids, pulls, limit, run>>

BudgetNext ==
  \/ Tick
  \/ Offer \/ FlushEnds \/ Offered
  \/ Begin \/ List \/ Listed
  \/ Pull \/ Pulled \/ OutOfTime \/ AllAsked

BudgetSpec == BudgetInit /\ [][BudgetNext]_budgetVars

-----------------------------------------------------------------------------
(* Properties. *)

BudgetTypeOK ==
  /\ at \in {"flush", "offering", "marking", "begun", "listing", "loop", "pulling",
             "refused", "over"}
  /\ elapsed \in Nat
  /\ slip \in 0..MaxSlip
  /\ late \in 0..slip
  /\ flushed \in [elapsed : Nat, slip : 0..MaxSlip]
  /\ queue \in 0..Queue
  /\ offered \in Nat
  /\ ids \in 0..MaxIds
  /\ pulls \in Nat
  /\ limit \in Nat
  /\ run \in 0..limit

(* Every pull that is started has at least the floor to finish in, by the   *)
(* deadline the transport really sets, on every branch that starts one.     *)
FloorKept == at = "pulling" => limit >= Floor

(* A pass that listed something and asked for none of it lost more than     *)
(* half the floor to something other than the relay: a relay that answers   *)
(* inside its deadlines can never make a mailbox impossible to empty.       *)
FirstPullPaid ==
  at = "refused" /\ pulls = 0 /\ Floor < ReceiveBudget => 2 * slip > Floor

(* The pass that spends the reservation on its first pull runs at most half *)
(* a floor past its budget, however late that pull was started.             *)
OverrunBounded ==
  pulls > 0 => 2 * elapsed <= 2 * (ReceiveBudget + late) + Floor

(* What a relay can make one sync cost, which is how long it can keep the   *)
(* composer disabled: the two budgets, and not a request's deadline more.   *)
CostBounded ==
  Floor < ReceiveBudget =>
    flushed.elapsed + elapsed <= FlushBudget + ReceiveBudget + flushed.slip + slip
=============================================================================
