------------------------------ MODULE FrameGas ------------------------------
(***************************************************************************)
(* src/vm.rs, src/gas.rs, src/precompiles.rs: the gas of nested frames.    *)
(*                                                                         *)
(* A frame pays for its operations, hands a part of its gas to each child  *)
(* (calc_eip150_call_gas), and gets back what the child did not use,       *)
(* whether the child succeeded or not.  What an operation costs is a       *)
(* parameter; what a call and a creation cost, and who pays when, is       *)
(* translated.                                                             *)
(***************************************************************************)
EXTENDS Integers, Sequences

CONSTANTS
    GasLimit,       \* gas of the transaction
    OpCost,         \* what operations other than calls and creations may cost
    MemoryCost,     \* what expanding the memory for a call may cost
    Requested,      \* the gas operand of a call
    PrecompileCost, \* what precompiles may cost
    Deposit,        \* what storing runtime code may cost
    CreateGas,      \* the fixed price of a creation: 32 000
    HashCost        \* what hashing the creation code may cost (0 for CREATE)

ASSUME GasAssumption ==
    /\ GasLimit \in Nat
    /\ OpCost \subseteq Nat
    /\ MemoryCost \subseteq Nat
    /\ Requested \subseteq Nat
    /\ PrecompileCost \subseteq Nat
    /\ Deposit \subseteq Nat
    /\ CreateGas \in Nat
    /\ CreateGas >= 140
    /\ HashCost \subseteq Nat

VARIABLES
    frames,         \* the running frames, innermost last
    status          \* "running", or how the transaction's frame ended

vars == <<frames, status>>

\* gas_limit is what the frame was created with (new_with_gas); a failed frame
\* executes nothing more.
Frame ==
    [kind : {"top", "call", "create"}, gas_limit : Nat, gas_left : Nat,
     failed : BOOLEAN]

NewFrame(kind, gas) ==
    [kind |-> kind, gas_limit |-> gas, gas_left |-> gas, failed |-> FALSE]

Init ==
    /\ frames = <<NewFrame("top", GasLimit)>>
    /\ status = "running"

Top == frames[Len(frames)]

\* u64::saturating_add; the ceiling is never reached below 2^64 (GasNeverCreated).
saturating_add(x, y) == x + y

-----------------------------------------------------------------------------
(* Prices. *)

\* Variant: all of the available gas may go to the child.
calc_call_gas_all(available, requested) ==
    IF requested < available THEN requested ELSE available

\* At most all but one 64th of what is available.
calc_eip150_call_gas(available, requested) ==
    LET max_call_gas == available - (available \div 64) IN
    IF requested < max_call_gas THEN requested ELSE max_call_gas

access_cost(cold) == IF cold THEN 2600 ELSE 100

value_cost(has_value, has_code) ==
    IF has_value THEN (IF has_code THEN 9000 ELSE 34000) ELSE 0

calc_call_base_gas(cold, has_value, has_code, memory) ==
    700 + access_cost(cold) + value_cost(has_value, has_code) + memory

calc_static_call_base_gas(cold, memory) ==
    calc_call_base_gas(cold, FALSE, FALSE, memory) - 660

CallBaseGas ==
    {calc_call_base_gas(cold, has_value, has_code, memory) :
        cold \in BOOLEAN, has_value \in BOOLEAN, has_code \in BOOLEAN,
        memory \in MemoryCost}
    \cup {calc_static_call_base_gas(cold, memory) :
            cold \in BOOLEAN, memory \in MemoryCost}

CreateBaseGas == {CreateGas + memory + hash : memory \in MemoryCost, hash \in HashCost}

\* The cheapest call: a STATICCALL of a warm account.
MinChildCost == 140

-----------------------------------------------------------------------------
(* Operations of the innermost frame. *)

Executing == status = "running" /\ ~Top.failed

WithGas(frame, gas, failed) == [frame EXCEPT !.gas_left = gas, !.failed = failed]

\* What the innermost frame has left, and whether it fails.
SetTop(gas, failed) ==
    /\ frames' = [frames EXCEPT ![Len(frames)] = WithGas(Top, gas, failed)]
    /\ UNCHANGED status

\* Variant: subtracted without the check.
PayUnchecked(cost) ==
    /\ Executing
    /\ SetTop(Top.gas_left - cost, FALSE)

\* step, and every handler's own charge: subtracted when there is enough, and
\* otherwise OutOfGas with nothing subtracted.
Pay(cost) ==
    /\ Executing
    /\ IF Top.gas_left < cost THEN SetTop(Top.gas_left, TRUE)
       ELSE SetTop(Top.gas_left - cost, FALSE)

\* REVERT, a stack error, a static-call violation...: the gas left is kept.
Fail ==
    /\ Executing
    /\ SetTop(Top.gas_left, TRUE)

\* INVALID.
op_invalid_opcode ==
    /\ Executing
    /\ SetTop(0, TRUE)

\* Variant: the child's gas is not taken from the parent.
HandOverWithoutPaying(kind, available, gas) ==
    /\ frames' = Append([frames EXCEPT ![Len(frames)] = WithGas(Top, available, FALSE)],
                        NewFrame(kind, gas))
    /\ UNCHANGED status

\* The innermost frame is left with available - gas, its new child has gas.
HandOver(kind, available, gas) ==
    /\ frames' = Append([frames EXCEPT ![Len(frames)] =
                               WithGas(Top, available - gas, FALSE)],
                        NewFrame(kind, gas))
    /\ UNCHANGED status

\* Variant: the base cost is checked and not charged.
execute_call_free(base_gas, requested) ==
    /\ Executing
    /\ base_gas <= Top.gas_left
    /\ HandOver("call", Top.gas_left, calc_eip150_call_gas(Top.gas_left, requested))

execute_call(base_gas, requested) ==
    LET available == Top.gas_left - base_gas IN
    /\ Executing
    /\ base_gas <= Top.gas_left
    /\ HandOver("call", available, calc_eip150_call_gas(available, requested))

\* execute_precompile returns OutOfGas for more than its limit.
PrecompileSucceeds(gas_used, gas_limit) == gas_used <= gas_limit

\* A call of a precompile runs in place.  One that costs more than it was given
\* fails the caller, which has already given the gas away.
call_precompile(base_gas, requested, gas_used) ==
    LET available == Top.gas_left - base_gas
        call_gas == calc_eip150_call_gas(available, requested)
    IN  /\ Executing
        /\ base_gas <= Top.gas_left
        /\ IF PrecompileSucceeds(gas_used, call_gas)
           THEN SetTop(saturating_add(available - call_gas, call_gas - gas_used), FALSE)
           ELSE SetTop(available - call_gas, TRUE)

\* When the sender cannot afford the value no child runs, and the gas meant for it
\* is not given back.
execute_create(base_gas, affordable) ==
    LET available == Top.gas_left - base_gas
        child_gas == calc_eip150_call_gas(available, available)
    IN  /\ Executing
        /\ base_gas <= Top.gas_left
        /\ IF affordable THEN HandOver("create", available, child_gas)
           ELSE SetTop(available - child_gas, FALSE)

-----------------------------------------------------------------------------
(* The end of a frame. *)

\* What the parent has when the innermost frame has ended, well or badly: what it
\* kept and what the child did not use.
Refunded == saturating_add(frames[Len(frames) - 1].gas_left, Top.gas_left)

\* The innermost frame ends and its parent goes on with gas.
Pop(gas) ==
    LET n == Len(frames) - 1 IN
    /\ frames' = [SubSeq(frames, 1, n) EXCEPT ![n] = WithGas(frames[n], gas, FALSE)]
    /\ UNCHANGED status

CallReturns ==
    /\ status = "running"
    /\ Len(frames) > 1
    /\ Top.kind = "call"
    /\ Pop(Refunded)

\* The deposit for the runtime code is paid by the parent; when it cannot be paid
\* the creation fails and the parent keeps the gas.
DeployReturns(deposit) ==
    /\ status = "running"
    /\ Len(frames) > 1
    /\ Top.kind = "create"
    /\ Pop(IF Top.failed \/ Refunded < deposit THEN Refunded ELSE Refunded - deposit)

RunReturns ==
    /\ status = "running"
    /\ Len(frames) = 1
    /\ status' = IF Top.failed THEN "failed" ELSE "succeeded"
    /\ UNCHANGED frames

Next ==
    \/ \E cost \in OpCost : Pay(cost)
    \/ Fail
    \/ op_invalid_opcode
    \/ \E base_gas \in CallBaseGas, requested \in Requested :
         \/ execute_call(base_gas, requested)
         \/ \E gas_used \in PrecompileCost : call_precompile(base_gas, requested, gas_used)
    \/ \E base_gas \in CreateBaseGas, affordable \in BOOLEAN :
         execute_create(base_gas, affordable)
    \/ CallReturns
    \/ \E deposit \in Deposit : DeployReturns(deposit)
    \/ RunReturns

Spec == Init /\ [][Next]_vars

-----------------------------------------------------------------------------
(* Properties. *)

\* No charge takes gas below zero, in any frame.
TypeOK ==
    /\ frames \in Seq(Frame)
    /\ Len(frames) > 0
    /\ status \in {"running", "failed", "succeeded"}

\* What a frame has left and what its running child was given never exceed what
\* the frame itself was given, and the outermost was given the gas limit: however
\* calls, creations, refunds and failures nest, no gas appears, and gas_left
\* never reaches the ceiling of saturating_add.
GasNeverCreated ==
    /\ frames[1].gas_limit = GasLimit
    /\ \A i \in DOMAIN frames :
         IF i = Len(frames) THEN frames[i].gas_left <= frames[i].gas_limit
         ELSE frames[i].gas_left + frames[i + 1].gas_limit <= frames[i].gas_limit

\* A frame that waits for a child has kept at least one 64th of what it had
\* (EIP-150), also when the child was given all that was asked for.
ParentKeepsA64th ==
    \A i \in 1..Len(frames) - 1 :
        (frames[i].gas_left + frames[i + 1].gas_limit) \div 64 <= frames[i].gas_left

\* There is no limit on the call depth in the code; gas is what bounds it, since
\* each level costs its parent at least the price of the cheapest call.
DepthBoundedByGas == (Len(frames) - 1) * MinChildCost <= GasLimit

=============================================================================
