------------------------------- MODULE Words -------------------------------
(***************************************************************************)
(* src/vm.rs: the arithmetic, comparison, bitwise and shift handlers, as   *)
(* computations on words of a parametric size.  The operands are named in  *)
(* the order in which they are popped; the popping and pushing itself, and *)
(* its errors, are in Interp.  The operators + and - of the source wrap.   *)
(***************************************************************************)
EXTENDS Integers

CONSTANTS
    ByteBits,       \* bits of a byte: 8
    Bytes,          \* bytes of a word: 32
    LimbMod         \* 2^64

Bits == ByteBits * Bytes

\* The value of the highest bit: U256::ONE << 255.
sign == 2^(Bits - 1)

WordMod == 2 * sign

U256 == 0..WordMod - 1

MaxWord == WordMod - 1

ASSUME WordsAssumption ==
    /\ ByteBits \in Nat \ {0}
    /\ Bytes \in Nat \ {0}
    /\ LimbMod \in Nat
    /\ LimbMod > Bits
    /\ sign \in Nat \ {0}

VARIABLES
    op,             \* the opcode
    first,          \* the operands, as popped
    second,
    third,
    factor,         \* the locals of the two loops
    multiplier,     \* multiplier of MULMOD, exponent of EXP
    result,
    pc              \* "start", "loop", "done"

word_vars == <<op, first, second, third, factor, multiplier, result, pc>>

Unary == {"ISZERO", "NOT"}

Binary == {"ADD", "MUL", "SUB", "DIV", "SDIV", "MOD", "SMOD", "EXP", "SIGNEXTEND",
           "LT", "GT", "EQ", "AND", "OR", "XOR", "BYTE", "SHL", "SHR", "SAR"}

Ternary == {"ADDMOD", "MULMOD"}

as_usize(word) == word % LimbMod

wrapping_add(x, y) == (x + y) % WordMod

wrapping_sub(x, y) == (x - y) % WordMod

wrapping_mul(x, y) == (x * y) % WordMod

not(x) == MaxWord - x

shiftl(x, amount) == (x * 2^amount) % WordMod

shiftr(x, amount) == x \div 2^amount

\* Bit n of x, and so whether x & (1 << n) is other than zero.
bit(x, n) == shiftr(x, n) % 2

odd(x) == x % 2 # 0

\* The operators &, | and ^ of the source, bit by bit.
bitwise(combine(_, _), x, y) ==
    LET low[n \in 0..Bits] ==
            IF n = 0 THEN 0
            ELSE low[n - 1] + 2^(n - 1) * combine(bit(x, n - 1), bit(y, n - 1))
    IN  low[Bits]

bit_and(x, y) == bitwise(LAMBDA a, b : a * b, x, y)

bit_or(x, y) == bitwise(LAMBDA a, b : a + b - a * b, x, y)

bit_xor(x, y) == bitwise(LAMBDA a, b : (a + b) % 2, x, y)

negative(x) == bit(x, Bits - 1) # 0

negated(x) == wrapping_add(not(x), 1)

\* Variant: one's complement.
abs_complement(x) == IF negative(x) THEN not(x) ELSE x

abs(x) == IF negative(x) THEN negated(x) ELSE x

flag(b) == IF b THEN 1 ELSE 0

-----------------------------------------------------------------------------
(* The handlers without a loop. *)

op_div(divisor, dividend) == IF divisor = 0 THEN 0 ELSE dividend \div divisor

op_mod(modulus, value) == IF modulus = 0 THEN 0 ELSE value % modulus

op_sdiv(divisor, dividend) ==
    IF divisor = 0 THEN 0
    ELSE LET quotient == abs(dividend) \div abs(divisor) IN
         IF negative(dividend) <=> negative(divisor) THEN quotient ELSE negated(quotient)

op_smod(modulus, value) ==
    IF modulus = 0 THEN 0
    ELSE LET remainder == abs(value) % abs(modulus) IN
         IF negative(value) THEN negated(remainder) ELSE remainder

\* Variant: a sum that wraps before it is reduced.
AddReducedWrapping(x, y, modulus) == wrapping_add(x, y) % modulus

\* x + y, both below modulus, without passing the end of the word.
AddReduced(x, y, modulus) ==
    LET room == wrapping_sub(modulus, y) IN
    IF x >= room THEN wrapping_sub(x, room) ELSE wrapping_add(x, y)

op_addmod(modulus, b, a) ==
    IF modulus = 0 THEN 0 ELSE AddReduced(a % modulus, b % modulus, modulus)

op_signextend(byte, value) ==
    LET index == as_usize(byte)
        top == index * ByteBits + ByteBits - 1
        mask == wrapping_sub(2^(top + 1) % WordMod, 1)
    IN  IF index >= Bytes THEN value
        ELSE IF odd(shiftr(value, top)) THEN bit_or(value, not(mask)) ELSE bit_and(value, mask)

op_byte(index, value) ==
    IF index >= Bytes THEN 0
    ELSE bit_and(shiftr(value, (Bytes - 1 - as_usize(index)) * ByteBits), 2^ByteBits - 1)

op_shl(shift, value) == IF shift >= Bits THEN 0 ELSE shiftl(value, as_usize(shift))

op_shr(shift, value) == IF shift >= Bits THEN 0 ELSE shiftr(value, as_usize(shift))

\* Variant: long shifts lose the sign.
op_sar_unsigned(shift, value) ==
    IF shift >= Bits THEN 0
    ELSE IF shift = 0 THEN value
    ELSE LET shifted == shiftr(value, as_usize(shift)) IN
         IF negative(value)
         THEN bit_or(shifted, shiftl(MaxWord, Bits - as_usize(shift)))
         ELSE shifted

op_sar(shift, value) ==
    IF shift >= Bits THEN (IF negative(value) THEN MaxWord ELSE 0)
    ELSE IF shift = 0 THEN value
    ELSE LET shifted == shiftr(value, as_usize(shift)) IN
         IF negative(value)
         THEN bit_or(shifted, shiftl(MaxWord, Bits - as_usize(shift)))
         ELSE shifted

\* What the handlers without a loop push.
Computed ==
    CASE op = "ADD" -> wrapping_add(first, second)
      [] op = "MUL" -> wrapping_mul(first, second)
      [] op = "SUB" -> wrapping_sub(second, first)
      [] op = "DIV" -> op_div(first, second)
      [] op = "SDIV" -> op_sdiv(first, second)
      [] op = "MOD" -> op_mod(first, second)
      [] op = "SMOD" -> op_smod(first, second)
      [] op = "ADDMOD" -> op_addmod(first, second, third)
      [] op = "SIGNEXTEND" -> op_signextend(first, second)
      [] op = "LT" -> flag(second < first)
      [] op = "GT" -> flag(second > first)
      [] op = "EQ" -> flag(first = second)
      [] op = "ISZERO" -> flag(first = 0)
      [] op = "AND" -> bit_and(first, second)
      [] op = "OR" -> bit_or(first, second)
      [] op = "XOR" -> bit_xor(first, second)
      [] op = "NOT" -> not(first)
      [] op = "BYTE" -> op_byte(first, second)
      [] op = "SHL" -> op_shl(first, second)
      [] op = "SHR" -> op_shr(first, second)
      [] op = "SAR" -> op_sar(first, second)

-----------------------------------------------------------------------------
(* Steps. *)

WordInit ==
    /\ op \in Unary \cup Binary \cup Ternary
    /\ first \in U256
    /\ second \in IF op \in Unary THEN {0} ELSE U256
    /\ third \in IF op \in Ternary THEN U256 ELSE {0}
    /\ factor = 0
    /\ multiplier = 0
    /\ result = 0
    /\ pc = "start"

Compute ==
    /\ pc = "start"
    /\ op \notin {"MULMOD", "EXP"}
    /\ result' = Computed
    /\ pc' = "done"
    /\ UNCHANGED <<op, first, second, third, factor, multiplier>>

\* first is the modulus.
op_mulmod ==
    /\ pc = "start"
    /\ op = "MULMOD"
    /\ IF first = 0
       THEN pc' = "done" /\ UNCHANGED <<factor, multiplier, result>>
       ELSE /\ factor' = third % first
            /\ multiplier' = second
            /\ result' = 0
            /\ pc' = "loop"
    /\ UNCHANGED <<op, first, second, third>>

\* first is the exponent, second the base.
op_exp ==
    /\ pc = "start"
    /\ op = "EXP"
    /\ factor' = second
    /\ multiplier' = first
    /\ result' = 1
    /\ pc' = "loop"
    /\ UNCHANGED <<op, first, second, third>>

MulmodStep ==
    /\ pc = "loop"
    /\ op = "MULMOD"
    /\ multiplier # 0
    /\ result' = IF odd(multiplier) THEN AddReduced(result, factor, first) ELSE result
    /\ factor' = AddReduced(factor, factor, first)
    /\ multiplier' = shiftr(multiplier, 1)
    /\ UNCHANGED <<op, first, second, third, pc>>

\* Variant: the square is taken before it is used.
ExpStepSquareFirst ==
    /\ pc = "loop"
    /\ op = "EXP"
    /\ multiplier # 0
    /\ factor' = wrapping_mul(factor, factor)
    /\ result' = IF odd(multiplier) THEN wrapping_mul(result, factor') ELSE result
    /\ multiplier' = shiftr(multiplier, 1)
    /\ UNCHANGED <<op, first, second, third, pc>>

ExpStep ==
    /\ pc = "loop"
    /\ op = "EXP"
    /\ multiplier # 0
    /\ result' = IF odd(multiplier) THEN wrapping_mul(result, factor) ELSE result
    /\ factor' = wrapping_mul(factor, factor)
    /\ multiplier' = shiftr(multiplier, 1)
    /\ UNCHANGED <<op, first, second, third, pc>>

LoopEnds ==
    /\ pc = "loop"
    /\ multiplier = 0
    /\ pc' = "done"
    /\ UNCHANGED <<op, first, second, third, factor, multiplier, result>>

WordNext == Compute \/ op_mulmod \/ op_exp \/ MulmodStep \/ ExpStep \/ LoopEnds

WordSpec == WordInit /\ [][WordNext]_word_vars

-----------------------------------------------------------------------------
(* Properties.  Each compares what a handler pushes with a definition over    *)
(* the integers, in which nothing wraps.                                      *)

\* The integer a word stands for in two's complement.
Signed(x) == IF x >= sign THEN x - WordMod ELSE x

Magnitude(i) == IF i < 0 THEN -i ELSE i

\* ADDMOD and MULMOD compute with the full sum and the full product, although no
\* intermediate value is wider than a word, for every modulus up to the largest.
ModularExact ==
    pc = "done" =>
        /\ op = "ADDMOD" =>
             result = IF first = 0 THEN 0 ELSE (third + second) % first
        /\ op = "MULMOD" =>
             result = IF first = 0 THEN 0 ELSE (third * second) % first

\* EXP is exponentiation modulo the size of a word, with 0^0 = 1.
ExpExact ==
    pc = "done" /\ op = "EXP" =>
        LET power[n \in 0..first] ==
                IF n = 0 THEN 1 ELSE (second * power[n - 1]) % WordMod
        IN  result = power[first]

\* Quotient and remainder belong together: for a divisor other than zero the
\* dividend is quotient * divisor + remainder, the remainder is smaller than the
\* divisor and, for SDIV and SMOD, has the sign of the dividend.  The one signed
\* quotient that is not a word (the least integer by -1) wraps.
DivisionExact ==
    pc = "done" /\ first # 0 =>
        /\ op = "DIV" =>
             LET rest == op_mod(first, second) IN
             second = result * first + rest /\ rest < first
        /\ op = "SDIV" =>
             LET dividend == Signed(second)
                 divisor == Signed(first)
                 rest == Signed(op_smod(first, second))
             IN  /\ (Signed(result) * divisor + rest - dividend) % WordMod = 0
                 /\ ~(second = sign /\ divisor = -1) =>
                        Signed(result) * divisor + rest = dividend
                 /\ Magnitude(rest) < Magnitude(divisor)
                 /\ rest # 0 => (rest < 0) = (dividend < 0)

\* Shifts multiply and divide by powers of two, SAR the signed value, rounding
\* down, for every shift; SIGNEXTEND gives the signed value of the low bytes, for
\* every index that as_usize does not cut.
ShiftsExact ==
    pc = "done" =>
        /\ op = "SHL" => result = (second * 2^first) % WordMod
        /\ op = "SHR" => result = second \div 2^first
        /\ op = "SAR" => Signed(result) = Signed(second) \div 2^first
        /\ op = "SIGNEXTEND" /\ first < LimbMod =>
             LET span == 2^(ByteBits * (first + 1)) IN
             IF first >= Bytes THEN result = second
             ELSE /\ (Signed(result) - second) % span = 0
                  /\ 2 * Signed(result) \in -span..span - 1

=============================================================================
