------------------------------ MODULE MCInterp ------------------------------
(***************************************************************************)
(* Three families of frames.  Control: all programs of up to five bytes    *)
(* over a small alphabet, in which the bytes 0 and 1 serve as operands as  *)
(* well, and a few longer ones.  Memory: one instruction that grows the    *)
(* memory, then any metered instruction with operands at, below and above  *)
(* the end of the memory, the range of usize and the square root of it.    *)
(* Access: up to three accesses to two accounts and two slots.             *)
(***************************************************************************)
EXTENDS Interp

Alphabet == {STOP, ADD, MSTORE, JUMP, JUMPDEST, PUSH1, PUSH2, DUP1}

ControlPrograms ==
    UNION {[1..n -> Alphabet] : n \in 0..5} \cup
    { <<JUMPDEST, PUSH2, 1, 0, JUMP>>,
      <<JUMPDEST, PUSH1, 40, DUP1, MSTORE8, PUSH1, 0, JUMP>>,
      <<PUSH1, 1, PUSH1, 5, JUMPI, JUMPDEST, PUSH1, 91, SWAP1>>,
      <<PUSH1, 0, PUSH1, 5, JUMPI, PUSH3, JUMPDEST>>,
      <<PUSH1, 1, PUSH1, 6, JUMPI, PUSH2, JUMPDEST, JUMPDEST>>,
      <<JUMPDEST, GAS, CODESIZE, 3, MSIZE, RETURNDATASIZE, 8, 21, JUMPI>>,
      <<PUSH1, 1, PUSH1, 0, SWAP1, DUP1 + 1, SWAP1 + 1, DUP1, DUP1>>,
      <<PUSH1, 30, MLOAD, MLOAD>>,
      <<PUSH1, 1, INVALID, ADD>>,
      <<21>>, <<SWAP1>>, <<RETURN>>, <<LOG0>>, <<12>> }

Pushed(w) == <<PUSH2, w \div 256, w % 256>>

\* 70 bytes are three words; 2900 bytes are 91, whose square is above LimbMod;
\* 8190 is the end of the range of usize, and the low limb of 8192 is zero.
Operand == {0, 1, 70, 2900, 8190, 8192}

Growth ==
    {<< >>} \cup
    {Pushed(0) \o Pushed(x) \o <<MSTORE>> : x \in {1, 800, 2860}} \cup
    {Pushed(40) \o Pushed(0) \o Pushed(1) \o <<MCOPY>>} \cup
    {Pushed(0) \o Pushed(0) \o Pushed(70) \o Pushed(5) \o <<EXTCODECOPY>>}

Uses ==
    {Pushed(size) \o Pushed(offset) \o <<op>> : size, offset \in Operand,
        op \in {MSTORE, KECCAK256, RETURN, REVERT, LOG0}} \cup
    {Pushed(0) \o Pushed(size) \o Pushed(offset) \o <<LOG0 + 1>> :
        size, offset \in Operand} \cup
    {Pushed(size) \o Pushed(0) \o Pushed(dest) \o <<op>> : size, dest \in Operand,
        op \in {CALLDATACOPY, CODECOPY}} \cup
    {Pushed(size) \o Pushed(source) \o Pushed(dest) \o <<op>> :
        size, source, dest \in Operand, op \in {RETURNDATACOPY, MCOPY}} \cup
    {Pushed(size) \o Pushed(0) \o Pushed(dest) \o Pushed(5) \o <<EXTCODECOPY>> :
        size, dest \in Operand}

MemoryPrograms == {grow \o use : grow \in Growth, use \in Uses}

Accesses ==
    {<<PUSH1, w, op>> : w \in {1, 2}, op \in {BALANCE, SLOAD}} \cup
    {Pushed(32769) \o <<EXTCODESIZE>>, <<PUSH1, 1, EXTCODEHASH>>,
     <<PUSH1, 1, PUSH1, 0, PUSH1, 33, PUSH1, 2, EXTCODECOPY>>}

AccessPrograms == {a \o b \o c : a, b, c \in Accesses \cup {<< >>}}

Frames(Programs, Limits, static) ==
    [code : Programs, gas_limit : Limits, is_static : {static}]

MCStarts ==
    Frames(ControlPrograms, {9, 40}, FALSE) \cup
    Frames(MemoryPrograms, {60, 3900}, FALSE) \cup
    Frames(AccessPrograms, {2700, 7900}, FALSE) \cup
    Frames({<<LOG0>>, <<PUSH1, 1, DUP1, LOG0>>}, {3900}, TRUE)

MCExample ==
    Frames({<<PUSH1, 5, PUSH1, 7, ADD, STOP>>, <<PUSH1, 5, STOP, PUSH1, 7, ADD>>},
           {40}, FALSE)

=============================================================================
