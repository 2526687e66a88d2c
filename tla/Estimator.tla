------------------------------ MODULE Estimator ------------------------------
(***************************************************************************)
(* src/rpc/estimator.rs, src/simulation.rs: eth_estimateGas as a binary    *)
(* search over simulated executions.                                       *)
(*                                                                         *)
(* Whether an execution succeeds with a given amount of gas is a function  *)
(* that depends on the program, and it need not be monotone: a program can *)
(* read GAS, and a call hands out a share of what is left.                 *)
(***************************************************************************)
EXTENDS Integers

CONSTANTS
    BlockGasLimit,  \* block_gas_limit
    Intrinsic,      \* the values calculate_intrinsic_gas may return
    Explicit,       \* the values request.gas may have
    U64Max          \* 2^64 - 1

ASSUME EstimatorAssumption ==
    /\ BlockGasLimit \in Nat
    /\ Intrinsic \subseteq Nat
    /\ Explicit \subseteq Nat
    /\ U64Max \in Nat

VARIABLES
    succeeds,       \* for which total gas simulate_tx reports success
    to,             \* whether the request names a target
    intrinsic,
    low,
    high,
    outcome         \* "start", "search", "error", or "done" with the estimate in high

search_vars == <<succeeds, to, intrinsic, low, high, outcome>>

\* high is the gas of the request, and without one the limit of the block.
SearchInit ==
    /\ to \in BOOLEAN
    /\ intrinsic \in Intrinsic
    /\ high \in Explicit \cup {BlockGasLimit}
    /\ succeeds \in [0..high -> BOOLEAN]
    /\ low = 0
    /\ outcome = "start"

\* Variant: the search starts without trying the limit itself.
StartUntried ==
    /\ outcome = "start"
    /\ IF high > U64Max \/ high < intrinsic \/ ~to
       THEN outcome' = "error" /\ UNCHANGED low
       ELSE outcome' = "search" /\ low' = intrinsic
    /\ UNCHANGED <<succeeds, to, intrinsic, high>>

\* Gas beyond u64, gas below the intrinsic gas, no target, or failure with all of
\* the gas, is an error.
Start ==
    /\ outcome = "start"
    /\ IF high > U64Max \/ high < intrinsic \/ ~to \/ ~succeeds[high]
       THEN outcome' = "error" /\ UNCHANGED low
       ELSE outcome' = "search" /\ low' = intrinsic
    /\ UNCHANGED <<succeeds, to, intrinsic, high>>

mid == low + (high - low) \div 2

\* Variant: the lower half keeps its middle.
BisectKeepingMid ==
    /\ outcome = "search"
    /\ low < high
    /\ IF succeeds[mid] THEN high' = mid /\ UNCHANGED low
       ELSE low' = mid /\ UNCHANGED high
    /\ UNCHANGED <<succeeds, to, intrinsic, outcome>>

Bisect ==
    /\ outcome = "search"
    /\ low < high
    /\ IF succeeds[mid] THEN high' = mid /\ UNCHANGED low
       ELSE low' = mid + 1 /\ UNCHANGED high
    /\ UNCHANGED <<succeeds, to, intrinsic, outcome>>

\* Variant: the loop stops one candidate early.
AnswerEarly ==
    /\ outcome = "search"
    /\ low + 1 >= high
    /\ outcome' = "done"
    /\ UNCHANGED <<succeeds, to, intrinsic, low, high>>

Answer ==
    /\ outcome = "search"
    /\ low >= high
    /\ outcome' = "done"
    /\ UNCHANGED <<succeeds, to, intrinsic, low, high>>

SearchNext == Start \/ Bisect \/ Answer

SearchSpec == SearchInit /\ [][SearchNext]_search_vars /\ WF_search_vars(SearchNext)

-----------------------------------------------------------------------------
(* Properties. *)

\* The bounds of the search stay natural numbers for which an execution can be
\* simulated.
SearchTypeOK ==
    /\ to \in BOOLEAN
    /\ intrinsic \in Nat
    /\ low \in Nat
    /\ high \in Nat
    /\ 0..high \subseteq DOMAIN succeeds
    /\ outcome \in {"start", "search", "error", "done"}

\* The estimate is enough: the simulated execution succeeds with exactly that
\* much gas, and it is not less than the intrinsic gas, however success depends
\* on the gas (estimate_transaction_gas).
EstimateIsEnough ==
    outcome = "done" => succeeds[high] /\ intrinsic <= high

\* The estimate is tight: with one unit less the execution fails, unless the
\* estimate is the intrinsic gas.
EstimateIsTight ==
    outcome = "done" /\ high > intrinsic => ~succeeds[high - 1]

\* The search ends.
SearchEnds == <>(outcome \in {"error", "done"})

=============================================================================
