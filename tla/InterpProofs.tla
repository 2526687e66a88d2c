---------------------------- MODULE InterpProofs ----------------------------
(***************************************************************************)
(* Proofs about Interp, for every program up to its first instruction that *)
(* acts outside the frame, every gas limit and every word size: the        *)
(* frame's types, the account of its gas and the bounds of its memory.     *)
(* What the metered handlers do to the meter is in MeteringProofs.         *)
(***************************************************************************)
EXTENDS Interp, MeteringProofs, SequenceTheorems

\* The time a prover has for a leaf.
USE SMTT(30)

Names ==
    {MLOAD, SLOAD, BALANCE, EXTCODESIZE, EXTCODEHASH, MSTORE, MSTORE8, KECCAK256,
     RETURN, REVERT, CALLDATACOPY, CODECOPY, RETURNDATACOPY, MCOPY, EXTCODECOPY}

\* The range that an instruction uses, by the number of words it pops.
LEMMA RangeSizes ==
    ASSUME Byte(pc) \in DOMAIN Arity
    PROVE  /\ Byte(pc) = KECCAK256 => RangeSize = as_usize(Popped(2))
           /\ Byte(pc) \in {CALLDATACOPY, CODECOPY, RETURNDATACOPY} =>
                  RangeSize = as_usize(Popped(3))
           /\ Byte(pc) \in LOG0..LOG0 + 4 => RangeSize = as_usize(Popped(2))
           /\ Byte(pc) \in Names \/ Byte(pc) \in LOG0..LOG0 + 4
  <1> USE DEF BALANCE, CALLDATACOPY, CODECOPY, EXTCODESIZE, EXTCODECOPY, RETURNDATACOPY,
              EXTCODEHASH, MLOAD, MSTORE, MSTORE8, SLOAD, MCOPY, KECCAK256, LOG0,
              RETURN, REVERT
  <1> QED
    BY DEF RangeSize, Arity, Names

\* Every metered handler keeps the account, and indexes the memory out of bounds
\* only with an empty range.
LEMMA MeteredSound ==
    ASSUME NEW limit \in 0..LimbMod - 1, NEW m, Sound(m, limit), m.out = "running",
           Byte(pc) \in DOMAIN Arity,
           \A k \in 1..Arity[Byte(pc)] : Popped(k) \in 0..WordMod - 1,
           NEW x, x = MeteredHandler(m)
    PROVE  Sound(x, limit) /\ (x.out = "Panic" => RangeSize = 0)
  <1> USE DEF BALANCE, CALLDATACOPY, CODECOPY, EXTCODESIZE, EXTCODECOPY, RETURNDATACOPY,
              EXTCODEHASH, MLOAD, MSTORE, MSTORE8, SLOAD, MCOPY, KECCAK256, LOG0,
              RETURN, REVERT
  <1>1. limit \in Nat
    BY MeteringAssumption
  <1>2. /\ Byte(pc) \in {MLOAD, SLOAD, BALANCE, EXTCODESIZE, EXTCODEHASH} =>
               Arity[Byte(pc)] = 1
        /\ Byte(pc) \in {MSTORE, MSTORE8, KECCAK256, RETURN, REVERT} =>
               Arity[Byte(pc)] = 2
        /\ Byte(pc) \in {CALLDATACOPY, CODECOPY, RETURNDATACOPY, MCOPY} =>
               Arity[Byte(pc)] = 3
        /\ Byte(pc) = EXTCODECOPY => Arity[Byte(pc)] = 4
        /\ Byte(pc) \in LOG0..LOG0 + 4 =>
               Arity[Byte(pc)] \in Nat /\ Arity[Byte(pc)] >= 2
    BY DEF Arity
  <1>3. CASE Byte(pc) \in {MLOAD, MSTORE, MSTORE8}
    <2>1. Popped(1) \in Nat
      BY <1>2, <1>3, MeteringAssumption
    <2>2. x \in {op_mload(m, Popped(1)), op_mstore(m, Popped(1)),
                  op_mstore8(m, Popped(1))}
      BY <1>3 DEF MeteredHandler
    <2>3. QED
      BY <2>1, <2>2, LoadStoreSound
  <1>4. CASE Byte(pc) \in {RETURN, REVERT}
    <2>1. Popped(1) \in Nat /\ Popped(2) \in Nat
      BY <1>2, <1>4, MeteringAssumption
    <2>2. x \in {op_return(m, Popped(1), Popped(2)),
                  op_revert(m, Popped(1), Popped(2))}
      BY <1>4 DEF MeteredHandler
    <2>3. QED
      BY <2>1, <2>2, ReturnSound
  <1>5. CASE Byte(pc) = KECCAK256
    <2>1. Popped(1) \in Nat /\ Popped(2) \in Nat
      BY <1>2, <1>5, MeteringAssumption
    <2>2. x = op_keccak256(m, Popped(1), Popped(2))
      BY <1>5 DEF MeteredHandler
    <2>3. QED
      BY <1>5, <2>1, <2>2, CopiesSound, RangeSizes
  <1>6. CASE Byte(pc) \in {CALLDATACOPY, CODECOPY, RETURNDATACOPY}
    <2>1. Popped(1) \in Nat /\ Popped(2) \in Nat /\ Popped(3) \in Nat
      BY <1>2, <1>6, MeteringAssumption
    <2>2. x \in {op_calldatacopy(m, Popped(1), Popped(3)),
                  op_codecopy(m, Popped(1), Popped(3)),
                  op_returndatacopy(m, Popped(1), Popped(2), Popped(3))}
      BY <1>6 DEF MeteredHandler
    <2>3. QED
      BY <1>6, <2>1, <2>2, CopiesSound, RangeSizes
  <1>7. CASE Byte(pc) = MCOPY
    <2>1. Popped(1) \in Nat /\ Popped(2) \in Nat /\ Popped(3) \in Nat
      BY <1>2, <1>7, MeteringAssumption
    <2>2. x = op_mcopy(m, Popped(1), Popped(2), Popped(3))
      BY <1>7 DEF MeteredHandler
    <2> DEFINE a == Popped(1)
               b == Popped(2)
               c == Popped(3)
    <2> HIDE DEF a, b, c
    <2>3. a \in Nat /\ b \in Nat /\ c \in Nat /\ x = op_mcopy(m, a, b, c)
      BY <2>1, <2>2 DEF a, b, c
    <2>4. Sound(x, limit) /\ x.out # "Panic"
      BY <1>1, <2>3, McopySound
    <2>5. QED
      BY <2>4
  <1>8. CASE Byte(pc) = EXTCODECOPY
    <2>1. Popped(1) \in Nat /\ Popped(2) \in Nat /\ Popped(3) \in Nat
            /\ Popped(4) \in Nat
      BY <1>2, <1>8, MeteringAssumption
    <2>2. x = op_extcodecopy(m, Popped(1), Popped(2), Popped(3), Popped(4))
      BY <1>8 DEF MeteredHandler
    <2> DEFINE a == Popped(1)
               b == Popped(2)
               c == Popped(3)
               d == Popped(4)
    <2> HIDE DEF a, b, c, d
    <2>3. a \in Nat /\ b \in Nat /\ c \in Nat /\ d \in Nat
            /\ x = op_extcodecopy(m, a, b, c, d)
      BY <2>1, <2>2 DEF a, b, c, d
    <2>4. Sound(x, limit) /\ x.out # "Panic"
      BY ZenonT(30), <1>1, <2>3, ExtcodecopySound
    <2>5. QED
      BY <2>4
  <1>9. CASE Byte(pc) = SLOAD
    <2>1. Popped(1) \in 0..WordMod - 1
      BY <1>2, <1>9
    <2>2. x = op_sload(m, Popped(1))
      BY <1>9 DEF MeteredHandler
    <2>3. QED
      BY <1>1, <2>1, <2>2, SloadSound
  <1>10. CASE Byte(pc) \in {BALANCE, EXTCODESIZE, EXTCODEHASH}
    <2>1. Popped(1) \in Nat
      BY <1>2, <1>10, MeteringAssumption
    <2>2. x = charge_account_access(m, account_address(Popped(1)))
      BY <1>10 DEF MeteredHandler, op_balance, op_extcodesize, op_extcodehash
    <2>3. account_address(Popped(1)) \in 0..AddressMod - 1
      BY <2>1, Operands
    <2>4. QED
      BY <1>1, <2>2, <2>3, AccountSound
  <1>11. CASE Byte(pc) \in LOG0..LOG0 + 4
    <2>1. Popped(1) \in Nat /\ Popped(2) \in Nat /\ Byte(pc) - LOG0 \in Nat
      BY <1>2, <1>11, MeteringAssumption
    <2>2. x = op_log(m, Popped(1), Popped(2), Byte(pc) - LOG0)
      BY <1>11 DEF MeteredHandler
    <2>3. QED
      BY <1>11, <2>1, <2>2, LogSound, RangeSizes
  <1>12. QED
    BY <1>3, <1>4, <1>5, <1>6, <1>7, <1>8, <1>9, <1>10, <1>11, RangeSizes
      DEF Names

-----------------------------------------------------------------------------
(* The frame. *)

\* A word of the stack.
Word == 0..WordMod - 1

\* The inductive invariant: the frame runs one of the programs, its stack holds
\* words, and its meter is sound for the gas it started with.
Inv ==
    /\ \E start \in Starts : code = start.code /\ gas_limit = start.gas_limit
    /\ pc \in Nat
    /\ stack \in Seq(Word)
    /\ Len(stack) <= CAP
    /\ Sound(meter, gas_limit)

\* A byte.
Octet == 0..255

\* What the assumptions say of the program that runs.
LEMMA Program ==
    ASSUME Inv
    PROVE  /\ code \in Seq(Octet)
           /\ Len(code) \in 0..LimbMod - 1
           /\ gas_limit \in 0..LimbMod - 1
           /\ \A i \in 1..Len(code) :
                 /\ code[i] \in Octet
                 /\ code[i] \in 98..127 => from_be_bytes(code, i, code[i] - 95) \in Nat
  <1>1. PICK start \in Starts : code = start.code /\ gas_limit = start.gas_limit
    BY DEF Inv
  <1>2. code \in Seq(Octet) /\ Len(code) < LimbMod /\ gas_limit \in 0..LimbMod - 1
    BY <1>1, InterpAssumption DEF Octet
  <1>3. Len(code) \in 0..LimbMod - 1
    BY <1>2, MeteringAssumption
  <1>4. DOMAIN code = 1..Len(code) /\ \A i \in 1..Len(code) : code[i] \in Octet
    BY <1>2, LenProperties, ElementOfSeq
  <1>5. \A i \in DOMAIN code :
           code[i] \in 98..127 => from_be_bytes(code, i, code[i] - 95) \in Nat
    BY <1>1, PushDataAssumption
  <1>6. QED
    BY <1>2, <1>3, <1>4, <1>5, Zenon

\* A byte of the program, and its price in the gas table.
LEMMA Instruction ==
    ASSUME Inv, CanStep
    PROVE  /\ Byte(pc) \in Octet
           /\ gas_table(Byte(pc)) \in Nat
  <1>1. pc + 1 \in 1..Len(code)
    BY Program DEF Inv, CanStep
  <1>2. Byte(pc) \in Octet
    BY Zenon, <1>1, Program DEF Byte
  <1>3. \A op \in Octet : gas_table(op) \in Nat
    BY DEF gas_table, Octet
  <1>4. QED
    BY <1>2, <1>3

\* The meter after the charge of the gas table.
LEMMA StartedSound ==
    ASSUME Inv, CanStep, meter.gas >= gas_table(Byte(pc))
    PROVE  /\ Sound(Started, gas_limit)
           /\ Started.out = "running"
           /\ Started.words = meter.words
           /\ Started.gas \in 0..LimbMod - 1
  <1>1. gas_limit \in Nat /\ gas_limit < LimbMod /\ LimbMod \in Nat
    BY Program, MeteringAssumption
  <1>2. Sound(Started, gas_limit)
    BY <1>1, Instruction, ChargeSound DEF Started, Inv, CanStep
  <1>3. ~(meter.gas < gas_table(Byte(pc)))
    BY Instruction DEF Inv, Sound, TypedMeter
  <1>4. Started.out = "running" /\ Started.words = meter.words
    BY <1>3 DEF Started, Charge, Inv, Sound, TypedMeter, CanStep
  <1>5. Started.gas \in Nat /\ Started.gas <= gas_limit
    BY <1>2 DEF Sound, TypedMeter
  <1>6. QED
    BY <1>1, <1>2, <1>4, <1>5

\* The words that are popped, and the stack that is left.
LEMMA Pops ==
    ASSUME Inv, NEW k \in 0..Depth
    PROVE  /\ Depth \in Nat
           /\ Drop(k) \in Seq(Word)
           /\ Len(Drop(k)) = Depth - k
           /\ \A i \in 1..Depth : Popped(i) \in Word
  <1>1. stack \in Seq(Word) /\ Depth \in Nat /\ Depth = Len(stack)
    BY DEF Inv, Depth
  <1>2. Depth - k \in 0..Len(stack)
    BY <1>1
  <1>3. Drop(k) \in Seq(Word) /\ Len(Drop(k)) = Depth - k
    BY <1>1, <1>2, SubSeqProperties DEF Drop
  <1>4. \A i \in 1..Depth : Popped(i) \in Word
    BY <1>1 DEF Popped
  <1>5. QED
    BY <1>1, <1>3, <1>4

\* A handler that only moves words keeps the invariant, and does not panic.
LEMMA BecomesInv ==
    ASSUME Inv, CanStep, meter.gas >= gas_table(Byte(pc)),
           UNCHANGED <<code, gas_limit>>,
           NEW p \in Nat, NEW s \in Seq(Word), Len(s) <= CAP,
           NEW outcome \in Outcomes, Becomes(p, s, outcome)
    PROVE  Inv' /\ meter'.out = outcome
  <1>1. gas_limit \in Nat
    BY Program, MeteringAssumption
  <1>2. Sound(Ends(Started, outcome), gas_limit)
          /\ Ends(Started, outcome).out = outcome
    BY <1>1, StartedSound, EndsSound
  <1>3. pc' = p /\ stack' = s /\ meter' = Ends(Started, outcome)
    BY DEF Becomes
  <1>4. \E start \in Starts : code' = start.code /\ gas_limit' = start.gas_limit
    BY DEF Inv
  <1>5. Sound(meter', gas_limit')
    BY <1>2, <1>3
  <1>6. QED
    BY <1>2, <1>3, <1>4, <1>5 DEF Inv

\* So does one that ends in a push of a word.
LEMMA PushInv ==
    ASSUME Inv, CanStep, meter.gas >= gas_table(Byte(pc)),
           UNCHANGED <<code, gas_limit>>,
           NEW p \in Nat, NEW s \in Seq(Word), Len(s) <= CAP, NEW w \in Word,
           Push(p, s, w)
    PROVE  Inv' /\ meter'.out # "Panic"
  <1>1. CASE Full(s)
    <2>1. Becomes(p, s, "Error")
      BY <1>1 DEF Push
    <2>2. QED
      BY <2>1, BecomesInv DEF Outcomes
  <1>2. CASE ~Full(s)
    <2>1. Becomes(p, Append(s, w), "running")
      BY <1>2 DEF Push
    <2>2. Append(s, w) \in Seq(Word) /\ Len(Append(s, w)) <= CAP
      BY <1>2, InterpAssumption DEF Full
    <2>3. QED
      BY <2>1, <2>2, BecomesInv, Zenon DEF Outcomes
  <1>3. QED
    BY <1>1, <1>2

\* And one that finds too few words.
LEMMA UnderflowInv ==
    ASSUME Inv, CanStep, meter.gas >= gas_table(Byte(pc)),
           UNCHANGED <<code, gas_limit>>, NEW k \in Nat, Underflow(k)
    PROVE  Inv' /\ meter'.out # "Panic"
  <1> DEFINE j == IF Depth < k THEN Depth ELSE k
  <1>1. Depth \in Nat /\ pc + 1 \in Nat /\ Depth <= CAP
    BY DEF Inv, Depth
  <1>2. j \in 0..Depth
    BY <1>1
  <1>3. Becomes(pc + 1, Drop(j), "Error")
    BY DEF Underflow
  <1> HIDE DEF j
  <1>4. Drop(j) \in Seq(Word) /\ Len(Drop(j)) <= CAP
    <2>1. Drop(j) \in Seq(Word) /\ Len(Drop(j)) = Depth - j
      BY <1>2, Pops
    <2>2. Depth - j <= CAP
      BY <1>1, <1>2, InterpAssumption
    <2>3. QED
      BY <2>1, <2>2
  <1>5. QED
    BY <1>1, <1>3, <1>4, BecomesInv DEF Outcomes

\* Every handler of the table keeps the invariant, and none of them panics.
LEMMA StepInv ==
    ASSUME Inv, CanStep, meter.gas >= gas_table(Byte(pc)),
           UNCHANGED <<code, gas_limit>>, Handler
    PROVE  Inv' /\ meter'.out # "Panic"
  <1> DEFINE op == Byte(pc)
  <1>1. /\ op \in Octet /\ pc \in Nat /\ stack \in Seq(Word) /\ Depth \in Nat
        /\ Depth = Len(stack) /\ Depth <= CAP /\ CAP \in Nat
        /\ WordMod \in Nat \ {0} /\ LimbMod \in Nat \ {0}
        /\ LimbMod <= WordMod /\ 256 * 256 <= WordMod
    BY Instruction, InterpAssumption, MeteringAssumption DEF Inv, Depth
  <1>2. ASSUME NEW k \in Nat, ~(Depth < k)
        PROVE  Drop(k) \in Seq(Word) /\ Len(Drop(k)) <= CAP
    <2>1. k \in 0..Depth /\ Depth - k <= CAP
      BY <1>1, <1>2
    <2>2. Drop(k) \in Seq(Word) /\ Len(Drop(k)) = Depth - k
      BY <2>1, Pops
    <2>3. QED
      BY <2>1, <2>2
  <1>3. \A k \in 1..Depth : Popped(k) \in Word
    BY <1>1, Pops
  <1>4. \A w \in Int : w % WordMod \in Word
    BY <1>1, Remainder, Zenon DEF Word
  <1>5. Len(code) \in Nat /\ \A i \in Nat : i < Len(code) => Byte(i) \in Octet
    <2>1. Len(code) \in Nat
      BY <1>1, Program
    <2>2. ASSUME NEW i \in Nat, i < Len(code) PROVE Byte(i) \in Octet
      <3>1. i + 1 \in 1..Len(code)
        BY <2>1, <2>2
      <3>2. QED
        BY <3>1, Program DEF Byte
    <2>3. QED
      BY <2>1, <2>2
  <1>5a. /\ \A w \in Word : w \in Nat
         /\ \A b \in Octet : b \in Word
         /\ \A b, c \in Octet : 256 * b + c \in Word
    <2>1. WordMod \in Nat /\ 65536 <= WordMod
      BY <1>1
    <2>2. \A w \in Word : w \in Nat
      BY <2>1 DEF Word
    <2>3. \A b \in Octet : b \in Word
      BY <2>1 DEF Word, Octet
    <2>4. \A b, c \in Octet : 256 * b + c \in Word
      BY <2>1 DEF Word, Octet
    <2>5. QED
      BY <2>2, <2>3, <2>4, Zenon
  <1>6. ASSUME op_add PROVE Inv' /\ meter'.out # "Panic"
    <2>1. CASE Depth < 2
      BY <1>6, <2>1, UnderflowInv DEF op_add
    <2>2. CASE ~(Depth < 2)
      <3> DEFINE w == (Popped(1) + Popped(2)) % WordMod
      <3>1. Push(pc + 1, Drop(2), w)
        BY <1>6, <2>2 DEF op_add
      <3>2. Popped(1) \in Word /\ Popped(2) \in Word
        BY <1>1, <1>3, <2>2
      <3>3. w \in Word
        <4>1. Popped(1) \in Nat /\ Popped(2) \in Nat
          BY <1>5a, <3>2, Zenon
        <4>2. Popped(1) + Popped(2) \in Int
          BY <4>1
        <4>3. QED
          BY <1>4, <4>2, Zenon
      <3> HIDE DEF w
      <3>4. Drop(2) \in Seq(Word) /\ Len(Drop(2)) <= CAP
        BY <1>2, <2>2
      <3>5. QED
        BY <1>1, <3>1, <3>3, <3>4, PushInv
    <2>3. QED
      BY <2>1, <2>2
  <1>7. ASSUME NEW k \in 0..3, Compute(k) PROVE Inv' /\ meter'.out # "Panic"
    <2>1. CASE Depth < k
      BY <1>7, <2>1, UnderflowInv DEF Compute
    <2>2. CASE ~(Depth < k)
      <3>1. PICK w \in Opaque : Push(pc + 1, Drop(k), w)
        BY <1>7, <2>2 DEF Compute
      <3>2. w \in Word
        BY InterpAssumption DEF Word
      <3>3. Drop(k) \in Seq(Word) /\ Len(Drop(k)) <= CAP
        BY <1>2, <2>2
      <3>4. QED
        BY <1>1, <3>1, <3>2, <3>3, PushInv
    <2>3. QED
      BY <2>1, <2>2
  <1>8. ASSUME NEW p \in Nat, NEW w \in Word, Push(p, stack, w)
        PROVE  Inv' /\ meter'.out # "Panic"
    BY <1>1, <1>8, PushInv
  <1>8a. ASSUME NEW p \in Nat, NEW s \in Seq(Word), Len(s) <= CAP,
                NEW outcome \in {"running", "Error"}, Becomes(p, s, outcome)
         PROVE  Inv' /\ meter'.out # "Panic"
    BY <1>8a, BecomesInv DEF Outcomes
  <1>9. ASSUME NEW p \in Nat, NEW outcome \in {"running", "Error"},
               Becomes(p, stack, outcome)
        PROVE  Inv' /\ meter'.out # "Panic"
    BY <1>1, <1>8a, <1>9
  <1>10. ASSUME \/ op_codesize \/ op_returndatasize \/ op_msize \/ op_gas
         PROVE  Inv' /\ meter'.out # "Panic"
    <2>1. Len(code) \in Word /\ 0 \in Word
      BY <1>1, Program DEF Word
    <2>2. 32 * meter.words \in Word
      BY <1>1 DEF Inv, Sound, TypedMeter, Word
    <2>3. Started.gas \in Word
      BY <1>1, StartedSound DEF Word
    <2>4. QED
      BY <1>1, <1>8, <1>10, <2>1, <2>2, <2>3
        DEF op_codesize, op_returndatasize, op_msize, op_gas
  <1>11. ASSUME op_push1 PROVE Inv' /\ meter'.out # "Panic"
    <2>1. CASE pc + 1 >= Len(code)
      BY <1>1, <1>9, <1>11, <2>1 DEF op_push1
    <2>2. CASE ~(pc + 1 >= Len(code))
      <3>1. Byte(pc + 1) \in Octet
        <4>1. pc + 1 \in Nat /\ pc + 1 < Len(code)
          BY <1>1, <1>5, <2>2
        <4>2. QED
          BY <1>5, <4>1, Zenon
      <3>2. Byte(pc + 1) \in Word
        BY <1>5a, <3>1, Zenon
      <3>3. QED
        BY <1>1, <1>8, <1>11, <2>2, <3>2 DEF op_push1
    <2>3. QED
      BY <2>1, <2>2
  <1>12. ASSUME op_push2 PROVE Inv' /\ meter'.out # "Panic"
    <2>1. CASE pc + 2 >= Len(code)
      BY <1>1, <1>9, <1>12, <2>1 DEF op_push2
    <2>2. CASE ~(pc + 2 >= Len(code))
      <3>1. Byte(pc + 1) \in Octet /\ Byte(pc + 2) \in Octet
        <4>1. /\ pc + 1 \in Nat /\ pc + 1 < Len(code)
              /\ pc + 2 \in Nat /\ pc + 2 < Len(code)
          BY <1>1, <1>5, <2>2
        <4>2. QED
          BY <1>5, <4>1, Zenon
      <3>2. 256 * Byte(pc + 1) + Byte(pc + 2) \in Word
        BY <1>5a, <3>1, Zenon
      <3>3. QED
        BY <1>1, <1>8, <1>12, <2>2, <3>2 DEF op_push2
    <2>3. QED
      BY <2>1, <2>2
  <1>13. ASSUME op \in PUSH3..127, execute_push_n(op - PUSH1 + 1)
         PROVE  Inv' /\ meter'.out # "Panic"
    <2> DEFINE n == op - PUSH1 + 1
               w == from_be_bytes(code, pc + 1, n) % WordMod
    <2>1. n \in Nat /\ pc + 1 \in 1..Len(code) /\ op = code[pc + 1]
            /\ n = code[pc + 1] - 95 /\ code[pc + 1] \in 98..127
      <3>1. op = code[pc + 1]
        BY DEF Byte
      <3>2. pc < Len(code)
        BY DEF CanStep
      <3>3. pc + 1 \in 1..Len(code)
        BY <1>1, <1>5, <3>2
      <3> HIDE DEF op
      <3>4. n \in Nat /\ n = op - 95 /\ op \in 98..127
        BY <1>1, <1>13 DEF PUSH1, PUSH3, Octet
      <3>5. QED
        BY <3>1, <3>3, <3>4
    <2>2. from_be_bytes(code, pc + 1, n) \in Nat
      BY <2>1, Program
    <2>3. w \in Word
      BY <1>4, <2>2
    <2>4. Push(pc + 1 + n, stack, w)
      BY <1>13 DEF execute_push_n
    <2> HIDE DEF n, w
    <2>5. QED
      BY <1>1, <1>8, <2>1, <2>3, <2>4
  <1>14. ASSUME NEW n \in Nat \ {0}, op_dup(n) PROVE Inv' /\ meter'.out # "Panic"
    <2>1. CASE Depth < n
      BY <1>1, <1>9, <1>14, <2>1 DEF op_dup
    <2>2. CASE ~(Depth < n)
      BY <1>1, <1>3, <1>8, <1>14, <2>2 DEF op_dup
    <2>3. QED
      BY <2>1, <2>2
  <1>15. ASSUME NEW n \in Nat \ {0}, op_swap(n) PROVE Inv' /\ meter'.out # "Panic"
    <2>1. CASE Depth <= n
      BY <1>1, <1>9, <1>15, <2>1 DEF op_swap
    <2>2. CASE ~(Depth <= n)
      <3> DEFINE s == [stack EXCEPT ![Depth] = Popped(n + 1), ![Depth - n] = Popped(1)]
      <3>1. Becomes(pc + 1, s, "running")
        BY <1>15, <2>2 DEF op_swap
      <3>2. Popped(n + 1) \in Word /\ Popped(1) \in Word
        BY <1>1, <1>3, <2>2
      <3>3. s \in Seq(Word) /\ Len(s) = Len(stack)
        <4> DEFINE r == [stack EXCEPT ![Depth] = Popped(n + 1)]
        <4>1. Depth \in 1..Len(stack) /\ Depth - n \in 1..Len(stack)
          BY <1>1, <2>2
        <4>2. r \in Seq(Word) /\ Len(r) = Len(stack)
          BY <1>1, <3>2, <4>1, ExceptSeq
        <4>3. s = [r EXCEPT ![Depth - n] = Popped(1)]
          OBVIOUS
        <4> HIDE DEF r, s
        <4>4. QED
          BY <3>2, <4>1, <4>2, <4>3, ExceptSeq
      <3> HIDE DEF s
      <3>4. QED
        BY <1>1, <3>1, <3>3, BecomesInv DEF Outcomes
    <2>3. QED
      BY <2>1, <2>2
  <1>16. ASSUME op_jump PROVE Inv' /\ meter'.out # "Panic"
    <2>1. CASE Depth < 1
      BY <1>16, <2>1, UnderflowInv DEF op_jump
    <2>2. CASE ~(Depth < 1)
      <3>1. Drop(1) \in Seq(Word) /\ Len(Drop(1)) <= CAP
        BY <1>2, <2>2
      <3>2. as_usize(Popped(1)) \in Nat
        <4>1. Popped(1) \in Word
          BY <1>1, <1>3, <2>2
        <4>2. QED
          BY <1>5a, <4>1, Operands, Zenon
      <3>3. \/ Becomes(as_usize(Popped(1)), Drop(1), "running")
            \/ Becomes(pc + 1, Drop(1), "Error")
        BY <1>16, <2>2 DEF op_jump
      <3>4. QED
        BY <1>1, <1>8a, <3>1, <3>2, <3>3
    <2>3. QED
      BY <2>1, <2>2
  <1>17. ASSUME op_jumpi PROVE Inv' /\ meter'.out # "Panic"
    <2>1. CASE Depth < 2
      BY <1>17, <2>1, UnderflowInv DEF op_jumpi
    <2>2. CASE ~(Depth < 2)
      <3>1. Drop(2) \in Seq(Word) /\ Len(Drop(2)) <= CAP
        BY <1>2, <2>2
      <3>2. as_usize(Popped(1)) \in Nat
        <4>1. Popped(1) \in Word
          BY <1>1, <1>3, <2>2
        <4>2. QED
          BY <1>5a, <4>1, Operands, Zenon
      <3>3. \/ Becomes(as_usize(Popped(1)), Drop(2), "running")
            \/ Becomes(pc + 1, Drop(2), "running")
            \/ Becomes(pc + 1, Drop(2), "Error")
        BY <1>17, <2>2 DEF op_jumpi
      <3>4. QED
        BY <1>1, <1>8a, <3>1, <3>2, <3>3
    <2>3. QED
      BY <2>1, <2>2
  <1>18. ASSUME op_stop \/ op_jumpdest \/ op_invalid
         PROVE  Inv' /\ meter'.out # "Panic"
    BY <1>1, <1>9, <1>18 DEF op_stop, op_jumpdest, op_invalid
  <1>19. \/ op_add \/ \E k \in 0..3 : Compute(k)
         \/ op_codesize \/ op_returndatasize \/ op_msize \/ op_gas
         \/ op_push1 \/ op_push2
         \/ op \in PUSH3..127 /\ execute_push_n(op - PUSH1 + 1)
         \/ \E n \in Nat \ {0} : op_dup(n)
         \/ \E n \in Nat \ {0} : op_swap(n)
         \/ op_jump \/ op_jumpi \/ op_stop \/ op_jumpdest \/ op_invalid
    <2> USE DEF ADD, CODESIZE, RETURNDATASIZE, MSIZE, GAS, PUSH1, PUSH2, PUSH3, DUP1,
                SWAP1, JUMP, JUMPI, STOP, JUMPDEST
    <2> DEFINE K == CHOOSE k \in 0..3 : op \in Computation[k + 1]
    <2>1. (\E k \in 0..3 : op \in Computation[k + 1]) => K \in 0..3
      OBVIOUS
    <2>2. Handler <=>
            CASE op = ADD -> op_add
              [] \E k \in 0..3 : op \in Computation[k + 1] -> Compute(K)
              [] op = CODESIZE -> op_codesize
              [] op = RETURNDATASIZE -> op_returndatasize
              [] op = MSIZE -> op_msize
              [] op = GAS -> op_gas
              [] op = PUSH1 -> op_push1
              [] op = PUSH2 -> op_push2
              [] op \in PUSH3..127 -> execute_push_n(op - PUSH1 + 1)
              [] op \in DUP1..143 -> op_dup(op - DUP1 + 1)
              [] op \in SWAP1..159 -> op_swap(op - SWAP1 + 1)
              [] op = JUMP -> op_jump
              [] op = JUMPI -> op_jumpi
              [] op = STOP -> op_stop
              [] op = JUMPDEST -> op_jumpdest
              [] OTHER -> op_invalid
      BY DEF Handler
    <2>2a. op \in 0..255
      BY <1>1 DEF Octet
    <2> HIDE DEF K, op
    <2>3. CASE op \in PUSH3..127 \/ op \in DUP1..143 \/ op \in SWAP1..159
      <3>1. op - DUP1 + 1 \in Int /\ op - SWAP1 + 1 \in Int
              /\ (op \in DUP1..143 => op - DUP1 + 1 \in Nat \ {0})
              /\ (op \in SWAP1..159 => op - SWAP1 + 1 \in Nat \ {0})
        BY <2>2a
      <3>2. ~\E k \in 0..3 : op \in Computation[k + 1]
        <4>1. \A k \in 0..3 : Computation[k + 1] \subseteq 0..95
          BY DEF Computation, CallContext, BlockContext, CALLDATASIZE, SELFBALANCE,
                 Unary, CALLDATALOAD, BLOCKHASH, BLOBHASH, TLOAD, Binary, Ternary
        <4>2. QED
          BY <2>2a, <2>3, <4>1
      <3>3. QED
        BY <2>2, <2>2a, <2>3, <3>1, <3>2
    <2>4. CASE ~(op \in PUSH3..127 \/ op \in DUP1..143 \/ op \in SWAP1..159)
      BY <2>1, <2>2, <2>2a, <2>4
    <2>5. QED
      BY <2>3, <2>4
  <1>20. QED
    BY <1>6, <1>7, <1>10, <1>11, <1>12, <1>13, <1>14, <1>15, <1>16, <1>17,
       <1>18,
       <1>19

\* A metered handler keeps the invariant, and indexes the memory out of bounds only
\* with an empty range.
LEMMA StepMeteredInv ==
    ASSUME Inv, step_metered
    PROVE  Inv' /\ (meter'.out = "Panic" => RangeSize = 0)
  <1> DEFINE arity == Arity[Byte(pc)]
             rest == Drop(arity)
  <1>1. /\ CanStep /\ meter.gas >= gas_table(Byte(pc)) /\ Byte(pc) \in DOMAIN Arity
        /\ Depth >= arity /\ pc' = pc + 1 /\ meter' = MeteredHandler(Started)
        /\ code' = code /\ gas_limit' = gas_limit
        /\ stack' = rest \/ \E w \in Opaque : stack' = Append(rest, w)
    BY DEF step_metered, Metered
  <1>2. arity \in Nat /\ arity >= 1
    <2>1. \A op \in DOMAIN Arity : Arity[op] \in Nat /\ Arity[op] >= 1
      BY DEF Arity, MLOAD, SLOAD, BALANCE, EXTCODESIZE, EXTCODEHASH, MSTORE, MSTORE8,
             KECCAK256, RETURN, REVERT, CALLDATACOPY, CODECOPY, RETURNDATACOPY, MCOPY,
             EXTCODECOPY, LOG0
    <2>2. QED
      BY <1>1, <2>1
  <1>3. Depth \in Nat /\ Depth <= CAP /\ pc \in Nat /\ CAP \in Nat
    BY InterpAssumption DEF Inv, Depth
  <1>4. /\ rest \in Seq(Word) /\ Len(rest) = Depth - arity
        /\ \A k \in 1..arity : Popped(k) \in 0..WordMod - 1
    <2> HIDE DEF arity
    <2>1. arity \in 0..Depth
      BY <1>1, <1>2, <1>3
    <2>2. rest \in Seq(Word) /\ Len(rest) = Depth - arity
      BY <2>1, Pops
    <2>3. \A k \in 1..Depth : Popped(k) \in 0..WordMod - 1
      BY <2>1, Pops DEF Word
    <2>4. QED
      BY <1>1, <1>2, <1>3, <2>2, <2>3
  <1>5. Sound(meter', gas_limit) /\ (meter'.out = "Panic" => RangeSize = 0)
    BY <1>1, <1>4, Program, StartedSound, MeteredSound
  <1> HIDE DEF arity, rest
  <1>6. stack' \in Seq(Word) /\ Len(stack') <= CAP
    <2>1. CASE stack' = rest
      BY <1>2, <1>3, <1>4, <2>1
    <2>2. CASE \E w \in Opaque : stack' = Append(rest, w)
      <3>1. PICK w \in Opaque : stack' = Append(rest, w)
        BY <2>2
      <3>2. w \in Word
        BY InterpAssumption DEF Word
      <3>3. Append(rest, w) \in Seq(Word) /\ Len(Append(rest, w)) = Len(rest) + 1
        BY <1>4, <3>2
      <3>4. QED
        BY <1>2, <1>3, <1>4, <3>1, <3>3
    <2>3. QED
      BY <1>1, <2>1, <2>2
  <1>7. \E start \in Starts : code' = start.code /\ gas_limit' = start.gas_limit
    BY <1>1 DEF Inv
  <1>8. pc' \in Nat /\ Sound(meter', gas_limit')
    BY <1>1, <1>3, <1>5
  <1>9. QED
    BY <1>5, <1>6, <1>7, <1>8 DEF Inv

\* Every step keeps the invariant, and panics only where a metered handler indexes
\* the memory with an empty range.
LEMMA NextInv ==
    ASSUME Inv, Next
    PROVE  Inv' /\ (meter'.out = "Panic" => RangeSize = 0)
  <1>1. gas_limit \in Nat
    BY Program, MeteringAssumption
  <1>2. ASSUME UNCHANGED <<code, gas_limit, stack>>, pc' \in Nat,
               Sound(meter', gas_limit)
        PROVE  Inv'
    <2>1. \E start \in Starts : code' = start.code /\ gas_limit' = start.gas_limit
      BY <1>2 DEF Inv
    <2>2. stack' \in Seq(Word) /\ Len(stack') <= CAP /\ Sound(meter', gas_limit')
      BY <1>2 DEF Inv
    <2>3. QED
      BY <1>2, <2>1, <2>2 DEF Inv
  <1>3. ASSUME NEW outcome \in {"OutOfGas", "Halt"}, meter.out = "running",
               meter' = Ends(meter, outcome),
               UNCHANGED <<code, gas_limit, stack, pc>>
        PROVE  Inv' /\ meter'.out # "Panic"
    <2>1. Sound(Ends(meter, outcome), gas_limit)
            /\ Ends(meter, outcome).out = outcome
      BY <1>1, <1>3, EndsSound DEF Inv, Outcomes
    <2>2. pc' \in Nat /\ Sound(meter', gas_limit)
      BY <1>3, <2>1 DEF Inv
    <2>3. QED
      BY <1>2, <1>3, <2>1, <2>2
  <1>4. CASE step_out_of_gas
    BY <1>3, <1>4 DEF step_out_of_gas, CanStep
  <1>5. CASE op_invalid_opcode
    <2> DEFINE m == [Ends(meter, "InvalidOpcode") EXCEPT !.gas = 0]
    <2>1. Sound(m, gas_limit) /\ m.out = "InvalidOpcode"
      <3>1. meter \in TypedMeter /\ IsFiniteSet(meter.addresses)
              /\ IsFiniteSet(meter.slots) /\ 32 * meter.words < LimbMod
        BY DEF Inv, Sound
      <3>2. /\ m \in TypedMeter /\ m.addresses = meter.addresses
            /\ m.slots = meter.slots /\ m.words = meter.words /\ m.gas = 0
            /\ m.out = "InvalidOpcode"
        BY <3>1, Zenon DEF Ends, TypedMeter, Outcomes
      <3> HIDE DEF m
      <3>3. QED
        BY <1>1, <3>1, <3>2 DEF Sound, Lost
    <2>2. meter' = m /\ pc' \in Nat /\ UNCHANGED <<code, gas_limit, stack>>
      BY <1>5 DEF op_invalid_opcode, Inv
    <2> HIDE DEF m
    <2>3. QED
      BY <1>2, <2>1, <2>2
  <1>6. CASE step_log_in_static_frame
    <2>1. gas_table(Byte(pc)) = 0 /\ meter.gas \in Nat
      <3>1. \A op \in LOG0..LOG0 + 4 : gas_table(op) = 0
        BY DEF gas_table, LOG0, CallContext, BlockContext, CALLDATASIZE, CODESIZE,
               RETURNDATASIZE, MSIZE, GAS, ADD, CALLDATALOAD, CALLDATACOPY, CODECOPY,
               RETURNDATACOPY, BLOBHASH, MLOAD, MSTORE8, PUSH1, SELFBALANCE, Ternary,
               JUMP, JUMPI, BLOCKHASH, KECCAK256, TLOAD, JUMPDEST
      <3>2. QED
        BY <1>6, <3>1 DEF step_log_in_static_frame, Inv, Sound, TypedMeter
    <2>2. CanStep /\ Becomes(pc + 1, stack, "VmError") /\ UNCHANGED <<code, gas_limit>>
      BY <1>6 DEF step_log_in_static_frame
    <2>3. pc + 1 \in Nat /\ stack \in Seq(Word) /\ Len(stack) <= CAP
      BY DEF Inv
    <2>4. QED
      BY <2>1, <2>2, <2>3, BecomesInv DEF Outcomes
  <1>7. CASE step_underflow
    <2> DEFINE outcome ==
                   IF Byte(pc) \in {RETURN, REVERT} THEN "StackUnderflow" ELSE "Error"
    <2>1. /\ CanStep /\ meter.gas >= gas_table(Byte(pc))
          /\ Becomes(pc + 1, << >>, outcome) /\ UNCHANGED <<code, gas_limit>>
      BY <1>7 DEF step_underflow, Metered
    <2>2. pc + 1 \in Nat /\ << >> \in Seq(Word) /\ Len(<< >>) <= CAP
      BY InterpAssumption DEF Inv
    <2>3. outcome \in Outcomes /\ outcome # "Panic"
      BY DEF Outcomes
    <2> HIDE DEF outcome
    <2>4. QED
      BY <2>1, <2>2, <2>3, BecomesInv, Zenon
  <1>8. CASE step_metered
    BY <1>8, StepMeteredInv
  <1>9. CASE step
    BY <1>9, StepInv DEF step
  <1>10. CASE run_ends
    BY <1>3, <1>10 DEF run_ends
  <1>11. QED
    BY <1>4, <1>5, <1>6, <1>7, <1>8, <1>9, <1>10 DEF Next

-----------------------------------------------------------------------------
(* The theorems. *)

\* A frame starts with an empty stack and memory, and owes nothing.
LEMMA InitInv ==
    ASSUME Init
    PROVE  Inv
  <1>1. PICK start \in Starts :
            /\ code = start.code /\ gas_limit = start.gas_limit
            /\ pc = 0 /\ stack = << >>
            /\ meter = [gas |-> start.gas_limit, words |-> 0, addresses |-> {},
                        slots |-> {}, logs |-> 0, out |-> "running",
                        other |-> 0, accesses |-> 0]
    BY Zenon DEF Init
  <1>2. gas_limit \in Nat /\ CAP \in Nat
    BY <1>1, InterpAssumption, MeteringAssumption
  <1>3. meter \in TypedMeter
    BY <1>1, <1>2 DEF TypedMeter, Outcomes
  <1>4. IsFiniteSet({}) /\ Cardinality({}) = 0
    BY FS_EmptySet
  <1>5. memory_cost(0) = 0
    BY MemoryCost
  <1>6. Owed(meter) = 0
    BY <1>1, <1>4, <1>5 DEF Owed
  <1>7. Sound(meter, gas_limit)
    BY <1>1, <1>2, <1>3, <1>4, <1>6, MeteringAssumption DEF Sound
  <1>8. stack \in Seq(Word) /\ Len(stack) <= CAP /\ pc \in Nat
    BY <1>1, <1>2
  <1>9. QED
    BY <1>1, <1>7, <1>8 DEF Inv

\* The invariant holds in every state of a frame that executes bytecode.
THEOREM Invariance == Spec => []Inv
  <1>1. Init => Inv
    BY InitInv
  <1>2. Inv /\ [Next]_vars => Inv'
    <2>1. SUFFICES ASSUME Inv, [Next]_vars
                   PROVE  Inv'
      OBVIOUS
    <2>2. CASE Next
      BY <2>1, <2>2, NextInv
    <2>3. CASE UNCHANGED vars
      BY <2>1, <2>3 DEF vars, Inv
    <2>4. QED
      BY <2>1, <2>2, <2>3
  <1>3. QED
    BY <1>1, <1>2, PTL DEF Spec

\* Stack, memory and gas keep their bounds whatever bytecode step executes, up to the
\* first instruction that acts outside the frame.
THEOREM TypeCorrect == Spec => []TypeOK
  <1>1. Inv => TypeOK
    <2>1. SUFFICES ASSUME Inv PROVE TypeOK
      OBVIOUS
    <2>2. \A i \in DOMAIN stack : stack[i] \in 0..WordMod - 1
      BY <2>1, LenProperties, ElementOfSeq, Zenon DEF Inv, Word
    <2>3. gas_limit \in Nat
      BY <2>1, Program, MeteringAssumption
    <2>4. QED
      BY <2>1, <2>2, <2>3 DEF Inv, Sound, TypedMeter, Outcomes, TypeOK
  <1>2. QED
    BY <1>1, Invariance, PTL

\* Whatever bytecode step executes, up to the first instruction that acts outside the
\* frame, what a frame has spent is the price of its memory, of the accounts and slots
\* it touched and of its instructions, although touch_memory computes modulo 2^64.
THEOREM GasAccounted == Spec => []GasIsAccountedFor
  <1>1. Inv => GasIsAccountedFor
    <2>1. SUFFICES ASSUME Inv, meter.out \notin Lost
                   PROVE  gas_limit - meter.gas = Owed(meter)
      BY DEF GasIsAccountedFor, Lost, Owed
    <2>2. Owed(meter) \in Nat /\ meter.gas \in Nat
            /\ gas_limit = meter.gas + Owed(meter)
      BY <2>1, OwedType DEF Inv, Sound, TypedMeter
    <2>3. QED
      BY <2>2
  <1>2. QED
    BY <1>1, Invariance, PTL

\* No handler of Interp indexes the memory out of bounds with a range that is not
\* empty, whatever words are on the stack.  The ranges of calls and creations are not
\* among them.
THEOREM MemoryInBounds == Spec => RangesInMemory
  <1>1. Inv /\ [Next]_vars => [meter'.out = "Panic" => RangeSize = 0]_vars
    BY NextInv
  <1>2. QED
    BY <1>1, Invariance, PTL DEF Spec, RangesInMemory

=============================================================================
