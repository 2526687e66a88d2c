----------------------------- MODULE Simulation -----------------------------
(***************************************************************************)
(* src/simulation.rs, src/sim: execution on a copy of the state.           *)
(*                                                                         *)
(* simulate_tx clones a StateFork, moves the value, runs the frames of     *)
(* CallFrames and returns the dirty accounts of its copy (state_diff).     *)
(* eth_call and eth_estimateGas use it on the node's state and drop the    *)
(* diff.  simulate_route runs a sequence of simulations, its hops, and     *)
(* carries the state from one to the next by writing each diff into the    *)
(* dirty accounts of a fork of its own.                                    *)
(*                                                                         *)
(* Both borrow the state they start from, so no transaction runs between   *)
(* their steps.  What get_erc20_balance reads before the first and after   *)
(* the last hop changes nothing and is left out, and so are the amounts:   *)
(* a hop yields any amount, which may be too little.                       *)
(***************************************************************************)
EXTENDS CallFrames

CONSTANTS
    Caller,         \* accounts that simulations are sent from
    SimTarget,      \* addresses that simulations are sent to
    SimValue,       \* values that a simulation sends along
    NoRoute,        \* no route is being simulated
    NoResult        \* no SimulationResult is waiting to be used

ASSUME SimulationAssumption ==
    /\ Caller \subseteq Address
    /\ SimTarget \subseteq Address
    /\ SimValue \subseteq Nat

VARIABLES
    fork_state,     \* simulate_route's fork
    result          \* what simulate_tx returned, with, as history, the accounts at
                    \* the end of the run and those SELFDESTRUCT removed in it

sim_vars == <<fork_state, result>>

SimInit == Init /\ fork_state = NoRoute /\ result = NoResult

\* Neither a simulation nor a route is under way.
Free == frames = <<>> /\ fork_state = NoRoute /\ result = NoResult

-----------------------------------------------------------------------------
(* simulate_tx *)

\* The state that simulate_tx borrows.
Borrowed == IF fork_state = NoRoute THEN node ELSE fork_state

Failed(state_diff, logs) ==
    [success |-> FALSE, state_diff |-> state_diff, logs |-> logs,
     accounts |-> <<>>, removed |-> {}]

\* The target's balance is read after the caller's has been written: the two may
\* be one account.
Transfer(state, caller, target, value) ==
    LET debited == set_balance(state, caller, get_account(state, caller).balance - value)
    IN  set_balance(debited, target, get_account(debited, target).balance + value)

simulate_tx(caller, target, value) ==
    LET vm == Frame("simulation", target, caller, target, FALSE,
                    get_account(Borrowed, target).code,
                    Transfer(snapshot(Borrowed), caller, target, value))
    IN  /\ frames = <<>>
        /\ result = NoResult
        /\ ops < MaxOps
        /\ ops' = ops + 1
        /\ IF get_account(Borrowed, caller).balance < value
           THEN result' = Failed(NoMap, 0) /\ UNCHANGED frames
           ELSE frames' = <<sync_legacy_state_into_fork(vm)>> /\ UNCHANGED result
        /\ UNCHANGED <<node, fork_state>>

SimulationEnds ==
    /\ Len(frames) = 1
    /\ Top.kind = "simulation"
    /\ frames' = <<>>
    /\ UNCHANGED <<node, ops, fork_state>>

SimulationSucceeds ==
    /\ SimulationEnds
    /\ result' = [success |-> TRUE, state_diff |-> Top.state.dirty, logs |-> Top.logs,
                  accounts |-> World(Top.state).account, removed |-> Top.removed]

\* Variant: what the failed run wrote is reported.
SimulationFailsWithoutRevert ==
    /\ SimulationEnds
    /\ Top.code
    /\ result' = Failed(Top.state.dirty, Top.logs)

\* The id is the one that the snapshot of simulate_tx got.  The logs of a failed
\* run are reported with it.
SimulationFails ==
    /\ SimulationEnds
    /\ Top.code
    /\ LET reverted == revert_to_snapshot(Top.state, Len(Borrowed.snapshots))
       IN  result' = Failed(reverted.dirty, Top.logs)

\* eth_call and the estimator use the outcome and drop the diff.
DropDiff ==
    /\ result # NoResult
    /\ fork_state = NoRoute
    /\ result' = NoResult
    /\ UNCHANGED <<frames, node, ops, fork_state>>

-----------------------------------------------------------------------------
(* simulate_route *)

apply_diff(state, diff) == [state EXCEPT !.dirty = extend(@, diff)]

RouteStarts ==
    /\ Free
    /\ fork_state' = node
    /\ UNCHANGED <<frames, node, ops, result>>

\* The diff is written to the fork, and then the amount to the slot that holds
\* the sender's balance of token_out.
HopApplies(token_out, slot, current_amount) ==
    /\ fork_state # NoRoute
    /\ result # NoResult
    /\ result.success
    /\ fork_state' = set_storage(apply_diff(fork_state, result.state_diff),
                                 token_out, slot, current_amount)
    /\ result' = NoResult
    /\ UNCHANGED <<frames, node, ops>>

\* A failed hop, or one with less than min_amount_out, ends the route.
HopFails ==
    /\ fork_state # NoRoute
    /\ result # NoResult
    /\ fork_state' = NoRoute
    /\ result' = NoResult
    /\ UNCHANGED <<frames, node, ops>>

RouteEnds ==
    /\ fork_state # NoRoute
    /\ frames = <<>>
    /\ result = NoResult
    /\ fork_state' = NoRoute
    /\ UNCHANGED <<frames, node, ops, result>>

\* A hop is sent without value.
SimNext ==
    \/ /\ frames = <<>> => Free
       /\ Next
       /\ UNCHANGED sim_vars
    \/ \E caller \in Caller, target \in SimTarget, value \in SimValue :
         /\ fork_state # NoRoute => value = 0
         /\ simulate_tx(caller, target, value)
    \/ SimulationSucceeds
    \/ SimulationFails
    \/ DropDiff
    \/ RouteStarts
    \/ \E token_out \in SimTarget, slot \in Slot, amount \in Word :
         HopApplies(token_out, slot, amount)
    \/ HopFails
    \/ RouteEnds

SimSpec == SimInit /\ [][SimNext]_<<vars, sim_vars>>

-----------------------------------------------------------------------------
(* Property. *)

\* The diff of a simulation says what it did.  Written into the state that the
\* simulation started from, it yields every account as the simulated code left it,
\* except the ones SELFDESTRUCT removed, which no diff can mention; the diff of a
\* failed simulation changes nothing.  A hop of a route therefore runs on exactly
\* what the hops before it left behind (simulate_tx, simulate_route).
DiffIsTheChange ==
    result # NoResult =>
        LET after == World(apply_diff(Borrowed, result.state_diff)).account IN
        IF result.success
        THEN \A a \in Address \ result.removed : after[a] = result.accounts[a]
        ELSE after = World(Borrowed).account

=============================================================================
