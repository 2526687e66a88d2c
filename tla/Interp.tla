------------------------------- MODULE Interp -------------------------------
(***************************************************************************)
(* src/vm.rs, src/stack.rs: one Evm executing bytecode, step by step.      *)
(*                                                                         *)
(* Bytes, stack, program counter, gas, the size of the memory and the sets *)
(* of touched accounts and slots are kept; what memory, storage, calldata  *)
(* and the environment hold is not.  A word read from there, and the       *)
(* result of a computation other than ADD (see Words), is any word of      *)
(* Opaque.  The instructions that change state outside the frame (SSTORE,  *)
(* TSTORE, the calls, the creations, SELFDESTRUCT) are in CallFrames: here *)
(* a run ends when it comes to one.                                        *)
(***************************************************************************)
EXTENDS Integers, Sequences, Metering

CONSTANTS
    Starts,         \* the frames to run: [code, gas_limit, is_static]
    Opaque,         \* the words a read or a computation can yield
    CAP             \* capacity of the stack: 1024

\* The bytes of bytes[from..from + n] as a number; those past the end read as zero.
from_be_bytes(bytes, from, n) ==
    LET word[k \in 0..n] ==
            IF k = 0 THEN 0
            ELSE 256 * word[k - 1]
                   + (IF from + k <= Len(bytes) THEN bytes[from + k] ELSE 0)
    IN  word[n]

\* A program and the gas are no larger than a usize and a u64 can say.
ASSUME InterpAssumption ==
    /\ \A start \in Starts :
          /\ start.code \in Seq(0..255)
          /\ Len(start.code) < LimbMod
          /\ start.gas_limit \in 0..LimbMod - 1
          /\ start.is_static \in BOOLEAN
    /\ LimbMod <= WordMod
    /\ 256 * 256 <= WordMod
    /\ Opaque \subseteq 0..WordMod - 1
    /\ CAP \in Nat \ {0}

\* The data of every push is a number.
ASSUME PushDataAssumption ==
    \A start \in Starts : \A i \in DOMAIN start.code :
        start.code[i] \in 98..127 =>
            from_be_bytes(start.code, i, start.code[i] - 95) \in Nat

VARIABLES
    code,
    is_static,
    pc,             \* counted from 0, as in the source
    stack,          \* top last
    meter,          \* gas_left, memory.len() / 32, accessed_addresses,
                    \* accessed_slots, the number of logs; see Metering
    gas_limit,      \* history: the gas at the start
    stopped         \* history: a STOP has been executed

vars == <<code, is_static, pc, stack, meter, gas_limit, stopped>>

STOP == 0
ADD == 1
KECCAK256 == 32
BALANCE == 49
CALLDATACOPY == 55
CODESIZE == 56
CODECOPY == 57
EXTCODESIZE == 59
EXTCODECOPY == 60
RETURNDATASIZE == 61
RETURNDATACOPY == 62
EXTCODEHASH == 63
MLOAD == 81
MSTORE == 82
MSTORE8 == 83
SLOAD == 84
JUMP == 86
JUMPI == 87
MSIZE == 89
GAS == 90
JUMPDEST == 91
TLOAD == 92
MCOPY == 94
PUSH1 == 96
PUSH2 == 97
PUSH3 == 98
DUP1 == 128
SWAP1 == 144
LOG0 == 160
RETURN == 243
REVERT == 253
INVALID == 254

(* The instructions whose result is opaque. *)

\* ADDRESS, CALLER, CALLVALUE.
CallContext == {48, 51, 52}

CALLDATALOAD == 53
CALLDATASIZE == 54

\* BLOCKHASH, whose argument is a number, and SELFBALANCE, which has none.
BLOCKHASH == 64
SELFBALANCE == 71

\* ORIGIN, GASPRICE, COINBASE to CHAINID, BASEFEE, BLOBBASEFEE; BLOBHASH has an
\* argument.
BlockContext == {50, 58} \cup 65..70 \cup {72, 74}
BLOBHASH == 73

\* ISZERO, NOT.
Unary == {21, 25}

\* MUL to SMOD, EXP, SIGNEXTEND, LT, GT, EQ, AND to XOR, BYTE to SAR.
Binary == 2..7 \cup {10, 11, 16, 17, 20} \cup 22..24 \cup 26..29

\* ADDMOD, MULMOD.
Ternary == {8, 9}

\* Those that pop 0, 1, 2 and 3 words.
Computation ==
    << CallContext \cup BlockContext \cup {CALLDATASIZE, SELFBALANCE},
       Unary \cup {CALLDATALOAD, BLOCKHASH, BLOBHASH, TLOAD},
       Binary,
       Ternary >>

\* code[i] of the source.
Byte(i) == code[i + 1]

\* Variant: an empty table.
gas_table_zero(op) == 0

\* build_gas_table; zero for the opcodes it does not set.
gas_table(op) ==
    CASE op \in CallContext \cup BlockContext
                \cup {CALLDATASIZE, CODESIZE, RETURNDATASIZE, MSIZE, GAS} -> 2
      [] op \in {ADD, 3, 16, 17} \cup 20..29
                \cup {CALLDATALOAD, CALLDATACOPY, CODECOPY, RETURNDATACOPY, BLOBHASH}
                \cup MLOAD..MSTORE8 \cup PUSH1..159 -> 3
      [] op \in {2, 11, SELFBALANCE} \cup 4..7 -> 5
      [] op \in Ternary \cup {JUMP} -> 8
      [] op \in {10, JUMPI} -> 10
      [] op = BLOCKHASH -> 20
      [] op = KECCAK256 -> 30
      [] op \in {TLOAD, 93} -> 100
      [] op = JUMPDEST -> 1
      [] OTHER -> 0

-----------------------------------------------------------------------------
(* Jump destinations. *)

\* Variant: immediate data is scanned like code.
analyze_jumpdests_flat(bytes) ==
    {i \in 0..Len(bytes) - 1 : bytes[i + 1] = JUMPDEST}

\* The scan: where it looks next, from position i; pushes skip their data.
NextScanned(bytes, i) ==
    IF bytes[i + 1] \in PUSH1..127 THEN i + (bytes[i + 1] - PUSH1 + 1) + 1 ELSE i + 1

\* The positions the scan looks at, from i on.
Scanned(bytes, i) ==
    LET scan[p \in 0..Len(bytes) + 33] ==
            IF p >= Len(bytes) THEN {} ELSE {p} \cup scan[NextScanned(bytes, p)]
    IN  scan[i]

analyze_jumpdests(bytes) ==
    {i \in Scanned(bytes, 0) : bytes[i + 1] = JUMPDEST}

-----------------------------------------------------------------------------
(* Steps. *)

Init ==
    \E start \in Starts :
        /\ code = start.code
        /\ is_static = start.is_static
        /\ gas_limit = start.gas_limit
        /\ pc = 0
        /\ stack = << >>
        /\ meter = [gas |-> start.gas_limit, words |-> 0, addresses |-> {},
                    slots |-> {}, logs |-> 0, out |-> "running",
                    other |-> 0, accesses |-> 0]
        /\ stopped = FALSE

\* The meter after the price of the gas table.
Started == Charge(meter, gas_table(Byte(pc)))

\* The outcome of a handler that only moves words and the program counter.
Becomes(next_pc, next_stack, outcome) ==
    /\ pc' = next_pc
    /\ stack' = next_stack
    /\ meter' = Ends(Started, outcome)

Depth == Len(stack)

\* The word the k-th pop returns.
Popped(k) == stack[Depth - k + 1]

Drop(k) == SubSeq(stack, 1, Depth - k)

\* Variant: one word too many.
FullOffByOne(s) == Len(s) > CAP

Full(s) == Len(s) >= CAP

\* A handler that ends in stack.push: stack s, then word w.
Push(next_pc, s, w) ==
    IF Full(s) THEN Becomes(next_pc, s, "Error")
    ELSE Becomes(next_pc, Append(s, w), "running")

\* Pops take what there is, even when there is not enough.
Underflow(k) == Becomes(pc + 1, Drop(IF Depth < k THEN Depth ELSE k), "Error")

\* An instruction that replaces k words by one that is not modelled.
Compute(k) ==
    IF Depth < k THEN Underflow(k)
    ELSE \E w \in Opaque : Push(pc + 1, Drop(k), w)

op_add ==
    IF Depth < 2 THEN Underflow(2)
    ELSE Push(pc + 1, Drop(2), (Popped(1) + Popped(2)) % WordMod)

op_push1 ==
    IF pc + 1 >= Len(code) THEN Becomes(pc + 1, stack, "Error")
    ELSE Push(pc + 2, stack, Byte(pc + 1))

op_push2 ==
    IF pc + 2 >= Len(code) THEN Becomes(pc + 1, stack, "Error")
    ELSE Push(pc + 3, stack, 256 * Byte(pc + 1) + Byte(pc + 2))

\* PUSH3 to PUSH32.
execute_push_n(n) ==
    Push(pc + 1 + n, stack, from_be_bytes(code, pc + 1, n) % WordMod)

op_dup(n) ==
    IF Depth < n THEN Becomes(pc + 1, stack, "Error")
    ELSE Push(pc + 1, stack, Popped(n))

op_swap(n) ==
    IF Depth <= n THEN Becomes(pc + 1, stack, "Error")
    ELSE Becomes(pc + 1, [stack EXCEPT ![Depth] = Popped(n + 1),
                                       ![Depth - n] = Popped(1)], "running")

op_codesize == Push(pc + 1, stack, Len(code))

\* return_data is empty in a frame that has made no call.
op_returndatasize == Push(pc + 1, stack, 0)

op_msize == Push(pc + 1, stack, 32 * meter.words)

op_gas == Push(pc + 1, stack, Started.gas)

\* Both return Halt, which the loop takes as leave to go on.
op_stop == Becomes(pc + 1, stack, "running")
op_jumpdest == Becomes(pc + 1, stack, "running")

\* The bytes without a handler, and the instructions that act outside the frame.
op_invalid == Becomes(pc + 1, stack, "Error")

op_jump ==
    IF Depth < 1 THEN Underflow(1)
    ELSE IF as_usize(Popped(1)) \in analyze_jumpdests(code)
         THEN Becomes(as_usize(Popped(1)), Drop(1), "running")
         ELSE Becomes(pc + 1, Drop(1), "Error")

op_jumpi ==
    IF Depth < 2 THEN Underflow(2)
    ELSE IF Popped(2) = 0 THEN Becomes(pc + 1, Drop(2), "running")
    ELSE IF as_usize(Popped(1)) \in analyze_jumpdests(code)
         THEN Becomes(as_usize(Popped(1)), Drop(2), "running")
         ELSE Becomes(pc + 1, Drop(2), "Error")

\* The handlers of the dispatch table that meter nothing beyond the gas table.
Handler ==
    LET op == Byte(pc) IN
    CASE op = ADD -> op_add
      [] \E k \in 0..3 : op \in Computation[k + 1] ->
            Compute(CHOOSE k \in 0..3 : op \in Computation[k + 1])
      [] op = CODESIZE -> op_codesize
      [] op = RETURNDATASIZE -> op_returndatasize
      [] op = MSIZE -> op_msize
      [] op = GAS -> op_gas
      [] op = PUSH1 -> op_push1
      [] op = PUSH2 -> op_push2
      [] op \in PUSH3..127 -> execute_push_n(op - PUSH1 + 1)
      [] op \in DUP1..143 -> op_dup(op - DUP1 + 1)
      [] op \in SWAP1..159 -> op_swap(op - SWAP1 + 1)
      [] op = JUMP -> op_jump
      [] op = JUMPI -> op_jumpi
      [] op = STOP -> op_stop
      [] op = JUMPDEST -> op_jumpdest
      [] OTHER -> op_invalid

\* The number of words a metered handler pops.
Arity ==
    [op \in {MLOAD, SLOAD, BALANCE, EXTCODESIZE, EXTCODEHASH, MSTORE, MSTORE8,
              KECCAK256, RETURN, REVERT, CALLDATACOPY, CODECOPY, RETURNDATACOPY,
              MCOPY, EXTCODECOPY} \cup LOG0..LOG0 + 4 |->
        CASE op \in {MLOAD, SLOAD, BALANCE, EXTCODESIZE, EXTCODEHASH} -> 1
          [] op \in {MSTORE, MSTORE8, KECCAK256, RETURN, REVERT} -> 2
          [] op \in {CALLDATACOPY, CODECOPY, RETURNDATACOPY, MCOPY} -> 3
          [] op = EXTCODECOPY -> 4
          [] OTHER -> 2 + op - LOG0]

MeteredHandler(m) ==
    LET op == Byte(pc) IN
    CASE op = MSTORE -> op_mstore(m, Popped(1))
      [] op = MSTORE8 -> op_mstore8(m, Popped(1))
      [] op = MLOAD -> op_mload(m, Popped(1))
      [] op = RETURN -> op_return(m, Popped(1), Popped(2))
      [] op = REVERT -> op_revert(m, Popped(1), Popped(2))
      [] op = KECCAK256 -> op_keccak256(m, Popped(1), Popped(2))
      [] op = CALLDATACOPY -> op_calldatacopy(m, Popped(1), Popped(3))
      [] op = CODECOPY -> op_codecopy(m, Popped(1), Popped(3))
      [] op = RETURNDATACOPY ->
            op_returndatacopy(m, Popped(1), Popped(2), Popped(3))
      [] op = MCOPY -> op_mcopy(m, Popped(1), Popped(2), Popped(3))
      [] op = EXTCODECOPY ->
            op_extcodecopy(m, Popped(1), Popped(2), Popped(3), Popped(4))
      [] op = SLOAD -> op_sload(m, Popped(1))
      [] op = BALANCE -> op_balance(m, Popped(1))
      [] op = EXTCODESIZE -> op_extcodesize(m, Popped(1))
      [] op = EXTCODEHASH -> op_extcodehash(m, Popped(1))
      [] OTHER -> op_log(m, Popped(1), Popped(2), op - LOG0)

\* The metered handlers that push a word when they succeed.
Pushing == {MLOAD, KECCAK256, SLOAD, BALANCE, EXTCODESIZE, EXTCODEHASH}

CanStep == meter.out = "running" /\ pc < Len(code)

step_out_of_gas ==
    /\ CanStep
    /\ meter.gas < gas_table(Byte(pc))
    /\ meter' = Ends(meter, "OutOfGas")
    /\ UNCHANGED <<code, is_static, pc, stack, gas_limit, stopped>>

op_invalid_opcode ==
    /\ CanStep
    /\ Byte(pc) = INVALID
    /\ pc' = pc + 1
    /\ meter' = [Ends(meter, "InvalidOpcode") EXCEPT !.gas = 0]
    /\ UNCHANGED <<code, is_static, stack, gas_limit, stopped>>

step_log_in_static_frame ==
    /\ CanStep
    /\ is_static
    /\ Byte(pc) \in LOG0..LOG0 + 4
    /\ Becomes(pc + 1, stack, "VmError")
    /\ UNCHANGED <<code, is_static, gas_limit, stopped>>

\* A metered handler runs, unless LOG is refused.
Metered ==
    /\ CanStep
    /\ Byte(pc) \in DOMAIN Arity
    /\ ~(is_static /\ Byte(pc) \in LOG0..LOG0 + 4)
    /\ meter.gas >= gas_table(Byte(pc))

step_underflow ==
    /\ Metered
    /\ Depth < Arity[Byte(pc)]
    /\ Becomes(pc + 1, << >>,
               IF Byte(pc) \in {RETURN, REVERT} THEN "StackUnderflow" ELSE "Error")
    /\ UNCHANGED <<code, is_static, gas_limit, stopped>>

step_metered ==
    /\ Metered
    /\ Depth >= Arity[Byte(pc)]
    /\ pc' = pc + 1
    /\ meter' = MeteredHandler(Started)
    /\ IF meter'.out = "running" /\ Byte(pc) \in Pushing
       THEN \E w \in Opaque : stack' = Append(Drop(Arity[Byte(pc)]), w)
       ELSE stack' = Drop(Arity[Byte(pc)])
    /\ UNCHANGED <<code, is_static, gas_limit, stopped>>

step ==
    /\ CanStep
    /\ Byte(pc) \notin DOMAIN Arity \cup {INVALID}
    /\ meter.gas >= gas_table(Byte(pc))
    /\ Handler
    /\ stopped' = (stopped \/ Byte(pc) = STOP)
    /\ UNCHANGED <<code, is_static, gas_limit>>

\* run_without_sync: the loop ends when the program counter leaves the code.
run_ends ==
    /\ meter.out = "running"
    /\ pc >= Len(code)
    /\ meter' = Ends(meter, "Halt")
    /\ UNCHANGED <<code, is_static, pc, stack, gas_limit, stopped>>

Next ==
    \/ step_out_of_gas
    \/ op_invalid_opcode
    \/ step_log_in_static_frame
    \/ step_underflow
    \/ step_metered
    \/ step
    \/ run_ends

Spec == Init /\ [][Next]_vars /\ WF_vars(Next)

-----------------------------------------------------------------------------
(* Properties. *)

\* The stack never holds more than CAP words, every word is below WordMod, and
\* no charge takes gas_left below zero.
TypeOK ==
    /\ pc \in Nat
    /\ Len(stack) <= CAP
    /\ \A i \in DOMAIN stack : stack[i] \in 0..WordMod - 1
    /\ meter.gas \in 0..gas_limit
    /\ meter.words \in Nat
    /\ meter.addresses \subseteq 0..AddressMod - 1
    /\ meter.slots \subseteq 0..WordMod - 1
    /\ meter.logs \in Nat
    /\ meter.out \in {"running", "Halt", "Return", "Revert", "Error", "OutOfGas",
                      "StackUnderflow", "InvalidOpcode", "VmError", "Panic"}

\* Where an instruction of the code starts: a position not covered by the data of
\* an instruction that starts before it.
InstructionStarts(bytes) ==
    LET size(i) == IF bytes[i + 1] \in PUSH1..127 THEN bytes[i + 1] - PUSH1 + 2 ELSE 1
        starts[p \in 0..Len(bytes) - 1] ==
            ~\E i \in 0..p - 1 : p < i + size(i) /\ starts[i]
    IN  {p \in 0..Len(bytes) - 1 : starts[p]}

\* Execution never reads push data as an opcode: whatever is pushed, added and
\* jumped to, the program counter is at the start of an instruction, so the
\* jump analysis and the way the push handlers advance agree.
PcAtInstruction == CanStep => pc \in InstructionStarts(code)

\* Whatever mixture of loads, stores, copies, hashes and logs grew the memory, by
\* touch_memory or by a price computed first and a resize afterwards, the frame
\* has paid exactly the price of the memory it has, and for every account and
\* slot the cold price once and the warm price every other time.
GasIsAccountedFor ==
    meter.out \notin {"InvalidOpcode", "OutOfGas", "VmError"} =>
        gas_limit - meter.gas =
            meter.other + memory_cost(meter.words) + 100 * meter.accesses
              + 2500 * Cardinality(meter.addresses)
              + 2000 * Cardinality(meter.slots)

\* The size of the range that the instruction at pc uses.
RangeSize ==
    CASE Byte(pc) \in {MSTORE, MLOAD} -> 32
      [] Byte(pc) = MSTORE8 -> 1
      [] OTHER -> as_usize(IF Arity[Byte(pc)] = 2 \/ Byte(pc) > LOG0 THEN Popped(2)
                           ELSE Popped(Arity[Byte(pc)]))

\* A handler grows the memory before it indexes it: no range of one byte or more
\* is ever out of bounds, whichever way the memory was grown and however the
\* operands were cut to 64 bits.  (An empty range beyond the memory is, in
\* KECCAK256, RETURNDATACOPY and LOG, and panics.)
RangesInMemory == [][meter'.out = "Panic" => RangeSize = 0]_vars

\* Every run ends: a loop has to jump, and a jump costs gas.
RunEnds == <>(meter.out # "running")

\* Once STOP has been executed no further instruction is.
NothingRunsAfterStop == [][stopped => UNCHANGED <<pc, stack, meter.gas, meter.words>>]_vars

=============================================================================
