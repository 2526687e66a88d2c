--------------------------- MODULE MeteringProofs ---------------------------
(***************************************************************************)
(* Lemmas about the handlers of Metering, for every operand and gas limit. *)
(*                                                                         *)
(* Sound(m, limit) is what every handler keeps: the gas left and what the  *)
(* meter owes make up the limit.  touch_memory computes its price modulo   *)
(* 2^64, and is right only because of this: a price that wraps is larger   *)
(* than any gas a frame that has paid for its memory can have.             *)
(***************************************************************************)
EXTENDS Metering, FiniteSetTheorems, TLAPS

\* The time a prover has for a leaf.
USE SMTT(30)

Outcomes ==
    {"running", "Halt", "Return", "Revert", "Error", "OutOfGas",
     "StackUnderflow", "InvalidOpcode", "VmError", "Panic"}

\* The outcomes after which the gas that is left does not matter.
Lost == {"InvalidOpcode", "OutOfGas", "VmError"}

TypedMeter ==
    [gas : Nat, words : Nat, addresses : SUBSET (0..AddressMod - 1),
     slots : SUBSET (0..WordMod - 1), logs : Nat, out : Outcomes,
     other : Nat, accesses : Nat]

\* What has been charged, by its purpose.
Owed(m) ==
    m.other + memory_cost(m.words) + 100 * m.accesses
      + 2500 * Cardinality(m.addresses) + 2000 * Cardinality(m.slots)

Sound(m, limit) ==
    /\ m \in TypedMeter
    /\ IsFiniteSet(m.addresses)
    /\ IsFiniteSet(m.slots)
    /\ m.gas <= limit
    /\ 32 * m.words < LimbMod
    /\ m.out \notin Lost => limit = m.gas + Owed(m)

\* A meter that is still to be charged debt.
Owing(m, limit, debt) ==
    /\ m \in TypedMeter
    /\ IsFiniteSet(m.addresses)
    /\ IsFiniteSet(m.slots)
    /\ m.gas <= limit
    /\ 32 * m.words < LimbMod
    /\ m.out = "running"
    /\ limit + debt = m.gas + Owed(m)

\* Two ranges of the same size, or one twice.
Pair(d, e, size) == {<<d, size>>, <<e, size>>}

-----------------------------------------------------------------------------
(* Arithmetic. *)

\* A remainder is below the modulus, and a number below it is its own remainder.
LEMMA Remainder ==
    ASSUME NEW x \in Int, NEW n \in Nat \ {0}
    PROVE  /\ x % n \in 0..n - 1
           /\ 0 <= x /\ x < n => x % n = x
  OBVIOUS

\* A negative number above -n is n below its remainder.
LEMMA NegativeRemainder ==
    ASSUME NEW n \in Nat \ {0}, NEW x \in Int, x < 0, -n < x
    PROVE  x % n = x + n
  OBVIOUS

\* Rounding up to words covers the bytes and adds less than a word.
LEMMA RoundUp ==
    ASSUME NEW e \in Nat
    PROVE  /\ (e + 31) \div 32 \in Nat
           /\ e <= 32 * ((e + 31) \div 32)
           /\ 32 * ((e + 31) \div 32) <= e + 31
  OBVIOUS

\* The square of a number of words.
LEMMA Square ==
    ASSUME NEW v \in Nat, NEW w \in Nat, v <= w
    PROVE  /\ v * v \in Nat
           /\ w * w \in Nat
           /\ v * v <= w * w
  OBVIOUS

\* Dividing keeps the order.
LEMMA DivideOrder ==
    ASSUME NEW x \in Nat, NEW y \in Nat, x <= y
    PROVE  /\ x \div 512 \in Nat
           /\ y \div 512 \in Nat
           /\ x \div 512 <= y \div 512
  OBVIOUS

\* memory_cost is a u64, and an empty memory costs nothing.
LEMMA MemoryCost ==
    ASSUME NEW w \in Nat
    PROVE  /\ memory_cost(w) \in 0..LimbMod - 1
           /\ w = 0 => memory_cost(w) = 0
  <1> DEFINE sq == (w * w) % LimbMod
             d == sq \div 512
             x == 3 * w + d
  <1>1. w * w \in Nat
    BY Square
  <1>2. sq \in Nat /\ (w = 0 => sq = 0)
    <2>1. w = 0 => w * w = 0
      OBVIOUS
    <2>2. QED
      BY <1>1, <2>1, Remainder, MeteringAssumption
  <1>3. d \in Nat /\ (sq = 0 => d = 0)
    BY <1>2, DivideOrder
  <1>4. x \in Nat /\ (w = 0 => x = 0)
    BY <1>2, <1>3
  <1>5. memory_cost(w) = x % LimbMod
    BY DEF memory_cost
  <1> HIDE DEF x
  <1>6. x % LimbMod \in 0..LimbMod - 1 /\ (x = 0 => x % LimbMod = 0)
    BY <1>4, Remainder, MeteringAssumption
  <1>7. QED
    BY <1>4, <1>5, <1>6

\* price grows with the memory.
LEMMA PriceOrder ==
    ASSUME NEW v \in Nat, NEW w \in Nat, v <= w
    PROVE  /\ price(v) \in Nat
           /\ price(w) \in Nat
           /\ price(v) <= price(w)
  <1> DEFINE a == v * v
             b == w * w
  <1>1. a \in Nat /\ b \in Nat /\ a <= b
    BY Square
  <1>2. price(v) = 3 * v + a \div 512 /\ price(w) = 3 * w + b \div 512
    BY DEF price
  <1> HIDE DEF a, b
  <1>3. QED
    BY <1>1, <1>2, DivideOrder

\* The checked price and the wrapping one agree where the checked one exists.
LEMMA PriceIsCost ==
    ASSUME NEW w \in Nat, ~PriceOverflows(w)
    PROVE  price(w) = memory_cost(w)
  <1>1. w * w \in Nat /\ w * w < LimbMod
    BY Square, MeteringAssumption DEF PriceOverflows
  <1>2. (w * w) % LimbMod = w * w
    <2> DEFINE sq == w * w
    <2>1. sq \in Nat /\ sq < LimbMod
      BY <1>1
    <2> HIDE DEF sq
    <2>2. sq % LimbMod = sq
      BY <2>1, Remainder, MeteringAssumption
    <2>3. QED
      BY <2>2 DEF sq
  <1>3. memory_cost(w) = price(w) % LimbMod
    BY <1>2 DEF memory_cost, price
  <1>4. price(w) \in Nat /\ price(w) < LimbMod
    BY PriceOrder, MeteringAssumption DEF PriceOverflows
  <1> DEFINE p == price(w)
  <1>5. p % LimbMod = p
    <2>1. p \in Nat /\ p < LimbMod
      BY <1>4
    <2> HIDE DEF p
    <2>2. QED
      BY <2>1, Remainder, MeteringAssumption
  <1>6. QED
    BY <1>3, <1>5

-----------------------------------------------------------------------------
(* Meters. *)

\* What a meter owes is a natural number, and covers the price of its memory.
LEMMA OwedType ==
    ASSUME NEW m \in TypedMeter, IsFiniteSet(m.addresses), IsFiniteSet(m.slots)
    PROVE  /\ Owed(m) \in Nat
           /\ memory_cost(m.words) <= Owed(m)
  <1>1. Cardinality(m.addresses) \in Nat /\ Cardinality(m.slots) \in Nat
    BY FS_CardinalityType
  <1>2. m.other \in Nat /\ m.accesses \in Nat /\ m.words \in Nat
    BY DEF TypedMeter
  <1>3. memory_cost(m.words) \in Nat
    BY <1>2, MemoryCost, MeteringAssumption
  <1>4. QED
    BY <1>1, <1>2, <1>3 DEF Owed

\* An outcome changes nothing else.
LEMMA EndsSound ==
    ASSUME NEW limit \in Nat, NEW m, Sound(m, limit), m.out = "running",
           NEW outcome \in Outcomes
    PROVE  /\ Sound(Ends(m, outcome), limit)
           /\ Ends(m, outcome).out = outcome
  BY DEF Sound, Ends, Owed, TypedMeter, Outcomes, Lost

\* A charge to the rest of the bill.
LEMMA ChargeSound ==
    ASSUME NEW limit \in Nat, NEW m, Sound(m, limit), m.out = "running",
           NEW cost \in Nat
    PROVE  /\ Sound(Charge(m, cost), limit)
           /\ Charge(m, cost).out \in {"running", "OutOfGas"}
  <1>1. CASE m.gas < cost
    BY <1>1, EndsSound DEF Charge, Outcomes
  <1>2. CASE ~(m.gas < cost)
    <2> DEFINE n == [m EXCEPT !.gas = @ - cost, !.other = @ + cost]
    <2>1. Charge(m, cost) = n
      BY <1>2 DEF Charge
    <2>2. n \in TypedMeter /\ n.gas = m.gas - cost /\ n.other = m.other + cost
            /\ n.words = m.words /\ n.addresses = m.addresses /\ n.slots = m.slots
            /\ n.out = m.out /\ n.accesses = m.accesses
      <3>1. m \in TypedMeter
        BY DEF Sound
      <3>2. m.gas - cost \in Nat /\ m.other + cost \in Nat
        BY <1>2, <3>1 DEF TypedMeter
      <3>3. QED
        BY <3>1, <3>2, Zenon DEF TypedMeter
    <2> HIDE DEF n
    <2>3. Owed(m) \in Nat /\ m.gas \in Nat /\ m.other \in Nat
      BY OwedType DEF Sound, TypedMeter
    <2>4. Owed(n) = Owed(m) + cost
      <3>1. Cardinality(m.addresses) \in Nat /\ Cardinality(m.slots) \in Nat
        BY FS_CardinalityType DEF Sound
      <3>2. m.accesses \in Nat /\ memory_cost(m.words) \in Nat
        BY MemoryCost, MeteringAssumption DEF Sound, TypedMeter
      <3>3. QED
        BY <2>2, <2>3, <3>1, <3>2 DEF Owed
    <2>5. Sound(n, limit)
      BY <2>2, <2>3, <2>4 DEF Sound, Lost
    <2>6. QED
      BY <2>1, <2>2, <2>5
  <1>3. QED
    BY <1>1, <1>2

Grown(m, gas, other, words) ==
    [m EXCEPT !.gas = gas, !.other = other, !.words = words]

\* A meter that pays a bill for more memory.
LEMMA GrownSound ==
    ASSUME NEW limit \in Nat, NEW m \in TypedMeter, m.out = "running",
           IsFiniteSet(m.addresses), IsFiniteSet(m.slots),
           NEW words \in Nat, 32 * words < LimbMod,
           NEW gas \in Nat, gas <= limit, NEW other \in Nat,
           limit = gas + (Owed(m) - m.other) + other
                     - memory_cost(m.words) + memory_cost(words)
    PROVE  /\ Sound(Grown(m, gas, other, words), limit)
           /\ Grown(m, gas, other, words).out = "running"
           /\ Grown(m, gas, other, words).words = words
  <1> DEFINE n == Grown(m, gas, other, words)
  <1>1. n \in TypedMeter /\ n.gas = gas /\ n.other = other
          /\ n.words = words /\ n.addresses = m.addresses /\ n.slots = m.slots
          /\ n.out = m.out /\ n.accesses = m.accesses
    BY Zenon DEF TypedMeter, Grown
  <1> HIDE DEF n
  <1>2. Cardinality(m.addresses) \in Nat /\ Cardinality(m.slots) \in Nat
    BY FS_CardinalityType
  <1>3. m.accesses \in Nat /\ memory_cost(m.words) \in Nat
          /\ memory_cost(words) \in Nat /\ m.other \in Nat
    BY MemoryCost, MeteringAssumption DEF TypedMeter
  <1>4. Owed(n) = Owed(m) - m.other + other
                    - memory_cost(m.words) + memory_cost(words)
    BY <1>1, <1>2, <1>3 DEF Owed
  <1>5. Owed(m) \in Nat
    BY OwedType
  <1>6. limit = n.gas + Owed(n)
    BY <1>1, <1>3, <1>4, <1>5
  <1>7. Sound(n, limit) /\ n.out = "running" /\ n.words = words
    BY <1>1, <1>6 DEF Sound
  <1>8. QED
    BY <1>7 DEF n

\* touch_memory charges what it says, although it computes modulo 2^64, and the
\* range is in the memory afterwards.
LEMMA TouchSound ==
    ASSUME NEW limit \in 0..LimbMod - 1, NEW m, Sound(m, limit), m.out = "running",
           NEW offset \in Nat, NEW size \in Nat,
           NEW t, t = touch_memory(m, offset, size)
    PROVE  /\ Sound(t, limit)
           /\ t.out \in {"running", "OutOfGas"}
           /\ t.out = "running" /\ size # 0 => offset + size <= 32 * t.words
  <1> DEFINE new == (offset + size + 31) \div 32
             old == m.words
             cost == expansion_cost(old, new)
  <1>1. limit \in Nat /\ limit < LimbMod /\ LimbMod \in Nat \ {0}
    BY MeteringAssumption
  <1>2. m \in TypedMeter /\ old \in Nat /\ m.gas \in Nat /\ m.other \in Nat
    BY DEF Sound, TypedMeter
  <1>3. new \in Nat /\ offset + size <= 32 * new /\ 32 * new <= offset + size + 31
    BY RoundUp
  <1> HIDE DEF new, old
  <1>4. CASE size = 0
    BY <1>4 DEF touch_memory
  <1>5. CASE size # 0 /\ offset + size + 31 >= LimbMod
    BY <1>1, <1>5, EndsSound DEF touch_memory, Outcomes
  <1>6. CASE size # 0 /\ ~(offset + size + 31 >= LimbMod)
    <2>1. t = IF new <= old THEN m
              ELSE IF m.gas < cost THEN Ends(m, "OutOfGas")
              ELSE [m EXCEPT !.gas = @ - cost, !.words = new]
      BY <1>6 DEF touch_memory, new, old
    <2>2. CASE new <= old
      BY <1>2, <1>3, <2>1, <2>2 DEF old
    <2>3. CASE ~(new <= old) /\ m.gas < cost
      BY <1>1, <2>1, <2>3, EndsSound DEF Outcomes
    <2>4. CASE ~(new <= old) /\ ~(m.gas < cost)
      <3>1. memory_cost(old) \in 0..LimbMod - 1 /\ memory_cost(new) \in 0..LimbMod - 1
        BY <1>2, <1>3, MemoryCost
      <3>2. Owed(m) \in Nat /\ memory_cost(old) <= Owed(m) /\ limit = m.gas + Owed(m)
        BY OwedType DEF Sound, Lost, old
      <3>3. memory_cost(new) >= memory_cost(old)
        <4>1. SUFFICES ASSUME memory_cost(new) < memory_cost(old)
                       PROVE  FALSE
          BY <1>1, <3>1
        <4>2. cost = memory_cost(new) - memory_cost(old) + LimbMod
          BY <1>1, <3>1, <4>1, NegativeRemainder DEF expansion_cost
        <4>3. m.gas <= limit - memory_cost(old)
          BY <1>1, <1>2, <3>1, <3>2
        <4> HIDE DEF cost
        <4>4. QED
          BY <1>1, <1>2, <2>4, <3>1, <4>2, <4>3
      <3>4. cost = memory_cost(new) - memory_cost(old)
        <4> DEFINE d == memory_cost(new) - memory_cost(old)
        <4>1. d \in Int /\ 0 <= d /\ d < LimbMod
          BY <1>1, <3>1, <3>3
        <4>2. cost = d % LimbMod
          BY DEF expansion_cost
        <4> HIDE DEF d, cost
        <4>3. cost = d
          BY <1>1, <4>1, <4>2, Remainder
        <4>4. QED
          BY <4>3 DEF d
      <3> HIDE DEF cost
      <3>5. m.gas - cost \in Nat /\ m.gas - cost <= limit
        BY <1>1, <1>2, <2>4, <3>1, <3>2, <3>3, <3>4
      <3>6. 32 * new < LimbMod
        BY <1>1, <1>3, <1>6
      <3>7. t = Grown(m, m.gas - cost, m.other, new)
        BY <1>2, <2>1, <2>4, Zenon DEF TypedMeter, Grown
      <3>8. limit = (m.gas - cost) + (Owed(m) - m.other) + m.other
                      - memory_cost(m.words) + memory_cost(new)
        BY <1>1, <1>2, <3>1, <3>2, <3>4 DEF old
      <3>9. IsFiniteSet(m.addresses) /\ IsFiniteSet(m.slots)
        BY DEF Sound
      <3>10. Sound(t, limit) /\ t.out = "running" /\ t.words = new
        <4> DEFINE gas == m.gas - cost
        <4> HIDE DEF gas
        <4>1. /\ gas \in Nat /\ gas <= limit
              /\ t = Grown(m, gas, m.other, new)
              /\ limit = gas + (Owed(m) - m.other) + m.other
                           - memory_cost(m.words) + memory_cost(new)
          BY <3>5, <3>7, <3>8 DEF gas
        <4>2. QED
          BY <1>1, <1>2, <1>3, <3>6, <3>9, <4>1, GrownSound
      <3>11. QED
        BY <1>3, <3>10
    <2>5. QED
      BY <2>2, <2>3, <2>4
  <1>7. QED
    BY <1>4, <1>5, <1>6

\* Indexing the memory panics, or changes nothing.
LEMMA SliceSound ==
    ASSUME NEW limit \in Nat, NEW m, Sound(m, limit), m.out = "running",
           NEW ranges
    PROVE  /\ Sound(Slice(m, ranges), limit)
           /\ Slice(m, ranges).out \in {"running", "Panic"}
           /\ (\A r \in ranges : r[1] + r[2] <= 32 * m.words) =>
                  Slice(m, ranges) = m
  BY EndsSound DEF Slice, Outcomes

\* A range of at least one byte that is touched is not out of bounds.
LEMMA UseSound ==
    ASSUME NEW limit \in 0..LimbMod - 1, NEW m, Sound(m, limit), m.out = "running",
           NEW offset \in Nat, NEW size \in Nat
    PROVE  /\ Sound(Use(m, offset, size), limit)
           /\ Use(m, offset, size).out \in {"running", "OutOfGas", "Panic"}
           /\ Use(m, offset, size).out = "Panic" => size = 0
  <1> DEFINE t == touch_memory(m, offset, size)
             range == {<<offset, size>>}
  <1>1. /\ Sound(t, limit)
        /\ t.out \in {"running", "OutOfGas"}
        /\ t.out = "running" /\ size # 0 => offset + size <= 32 * t.words
    BY TouchSound
  <1>2. Use(m, offset, size) = IF t.out = "running" THEN Slice(t, range) ELSE t
    BY DEF Use, Then
  <1>3. (\A r \in range : r[1] + r[2] <= 32 * t.words) <=>
            offset + size <= 32 * t.words
    OBVIOUS
  <1>4. limit \in Nat
    BY MeteringAssumption
  <1> HIDE DEF t, range
  <1>5. CASE t.out = "running"
    BY <1>1, <1>2, <1>3, <1>4, <1>5, SliceSound
  <1>6. QED
    BY <1>1, <1>2, <1>5

\* Operands cut to 64 bits, and the price of a copy.
LEMMA Operands ==
    ASSUME NEW w \in Nat
    PROVE  /\ as_usize(w) \in 0..LimbMod - 1
           /\ as_usize(w) \in Nat
           /\ w < LimbMod => as_usize(w) = w
           /\ account_address(w) \in 0..AddressMod - 1
           /\ calc_copy_gas(w) \in Nat
  <1>1. as_usize(w) \in 0..LimbMod - 1 /\ account_address(w) \in 0..AddressMod - 1
    BY Remainder, MeteringAssumption DEF as_usize, account_address
  <1>2. w < LimbMod => as_usize(w) = w
    BY Remainder, MeteringAssumption DEF as_usize
  <1>3. calc_copy_gas(w) \in Nat
    BY RoundUp DEF calc_copy_gas
  <1>4. QED
    BY <1>1, <1>2, <1>3, MeteringAssumption

\* The charge for the bytes and the use of the range, of KECCAK256 and the copies.
LEMMA CopyToSound ==
    ASSUME NEW limit \in 0..LimbMod - 1, NEW m, Sound(m, limit), m.out = "running",
           NEW offset \in Nat, NEW size_word \in Nat
    PROVE  /\ Sound(CopyTo(m, offset, size_word), limit)
           /\ CopyTo(m, offset, size_word).out = "Panic" => as_usize(size_word) = 0
  <1> DEFINE c == CopyCharge(m, size_word)
             size == as_usize(size_word)
  <1>1. limit \in Nat /\ size \in Nat /\ calc_copy_gas(size_word) \in Nat
    BY Operands, MeteringAssumption
  <1>2. Sound(c, limit) /\ c.out \in {"running", "OutOfGas"}
    BY <1>1, ChargeSound, EndsSound DEF CopyCharge, Outcomes
  <1>3. CopyTo(m, offset, size_word) =
            IF c.out = "running" THEN Use(c, offset, size) ELSE c
    BY DEF CopyTo, Then
  <1> HIDE DEF c, size
  <1>4. CASE c.out = "running"
    BY <1>1, <1>2, <1>3, <1>4, UseSound DEF size
  <1>5. QED
    BY <1>2, <1>3, <1>4

\* The largest of three numbers.
LEMMA MaxOfThree ==
    ASSUME NEW a \in Nat, NEW b \in Nat, NEW c \in Nat
    PROVE  /\ Max({a, b, c}) \in Nat
           /\ a <= Max({a, b, c})
           /\ b <= Max({a, b, c})
           /\ c <= Max({a, b, c})
  <1>1. \E x \in {a, b, c} : \A y \in {a, b, c} : x >= y
    <2>1. CASE a >= b /\ a >= c
      BY <2>1
    <2>2. CASE b >= a /\ b >= c
      BY <2>2
    <2>3. CASE c >= a /\ c >= b
      BY <2>3
    <2>4. QED
      BY <2>1, <2>2, <2>3
  <1>2. Max({a, b, c}) \in {a, b, c} /\ \A y \in {a, b, c} : Max({a, b, c}) >= y
    BY <1>1 DEF Max
  <1>3. QED
    BY <1>2

\* required_end is beyond the memory and beyond each of two ranges.
LEMMA RequiredEnd ==
    ASSUME NEW w \in Nat, NEW d \in Nat, NEW e \in Nat, NEW size \in Nat,
           NEW ranges, ranges = {<<d, size>>, <<e, size>>}
    PROVE  /\ required_end(w, ranges) \in Nat
           /\ 32 * w <= required_end(w, ranges)
           /\ \A r \in ranges : r[1] + r[2] <= required_end(w, ranges)
  <1>1. {32 * w} \cup {r[1] + r[2] : r \in ranges} = {32 * w, d + size, e + size}
    OBVIOUS
  <1>2. required_end(w, ranges) = Max({32 * w, d + size, e + size})
    BY <1>1, Zenon DEF required_end
  <1>3. QED
    BY <1>2, MaxOfThree

\* One charge for memory, copy and access, then the resize: a meter that owes the
\* access beforehand owes nothing afterwards, and the ranges are in the memory.
LEMMA ExpandSound ==
    ASSUME NEW limit \in Nat, NEW cost \in Nat, NEW access \in Nat,
           NEW m, Owing(m, limit, access),
           NEW d \in Nat, NEW e \in Nat, NEW size \in Nat,
           NEW used \in SUBSET Pair(d, e, size)
    PROVE  /\ Sound(Expand(m, cost, access, Pair(d, e, size), used), limit)
           /\ Expand(m, cost, access, Pair(d, e, size), used).out # "Panic"
  <1> SUFFICES ASSUME NEW ranges, ranges = {<<d, size>>, <<e, size>>},
                      ranges = Pair(d, e, size),
                      NEW x, x = Expand(m, cost, access, ranges, used)
               PROVE  Sound(x, limit) /\ x.out \in {"running", "OutOfGas", "VmError"}
    BY DEF Pair
  <1>0. /\ m \in TypedMeter /\ m.out = "running"
        /\ IsFiniteSet(m.addresses) /\ IsFiniteSet(m.slots) /\ m.gas <= limit
        /\ 32 * m.words < LimbMod /\ limit + access = m.gas + Owed(m)
    BY DEF Owing
  <1> USE <1>0
  <1> DEFINE end == required_end(m.words, ranges)
             new == (end + 31) \div 32
             memory == memory_expansion_cost(m.words, ranges)
             total == access + cost + memory
  <1>1. m.words \in Nat /\ m.gas \in Nat /\ m.other \in Nat
          /\ LimbMod \in Nat \ {0} /\ m.logs \in Nat /\ m.accesses \in Nat
    BY MeteringAssumption DEF TypedMeter
  <1>2. end \in Nat /\ 32 * m.words <= end /\ \A r \in ranges : r[1] + r[2] <= end
    BY <1>1, RequiredEnd, Zenon
  <1> HIDE DEF end
  <1>3. new \in Nat /\ end <= 32 * new /\ 32 * new <= end + 31
    BY <1>2, RoundUp
  <1>4. memory = price(new) - price(m.words)
    BY DEF memory_expansion_cost, end
  <1>5. new = expand_memory_without_charge(m.words, ranges)
    BY DEF expand_memory_without_charge, end
  <1>6. ASSUME NEW lost \in Lost, x = Ends(m, lost)
        PROVE  Sound(x, limit) /\ x.out = lost
    BY <1>6 DEF Ends, Sound, TypedMeter, Lost, Outcomes
  <1>7. CASE ExpansionOverflows(m.words, ranges)
    BY <1>6, <1>7 DEF Expand, Lost
  <1>8. CASE ~ExpansionOverflows(m.words, ranges) /\ m.gas < total
    BY <1>6, <1>8, Zenon DEF Expand, Lost
  <1>9. CASE ~ExpansionOverflows(m.words, ranges) /\ ~(m.gas < total)
    <2>1. m.words <= new
      BY <1>1, <1>2, <1>3
    <2>2. memory \in Nat
      <3>1. price(m.words) \in Nat /\ price(new) \in Nat /\ price(m.words) <= price(new)
        BY <1>1, <1>3, <2>1, PriceOrder
      <3> HIDE DEF memory, new
      <3>2. QED
        BY <1>4, <3>1
    <2>3. 32 * new < LimbMod
      BY <1>1, <1>2, <1>3, <1>9 DEF ExpansionOverflows, end
    <2>4. price(new) = memory_cost(new) /\ price(m.words) = memory_cost(m.words)
      <3>1. CASE end # 0
        BY <1>1, <1>3, <1>9, <3>1, PriceIsCost DEF ExpansionOverflows, end
      <3>2. CASE end = 0
        <4>1. m.words = 0 /\ new = 0
          BY <1>1, <1>2, <1>3, <3>2
        <4>2. price(0) = 0
          BY DEF price
        <4>3. memory_cost(0) = 0
          BY MemoryCost
        <4> HIDE DEF new
        <4>4. QED
          BY <4>1, <4>2, <4>3
      <3>3. QED
        BY <3>1, <3>2
    <2> DEFINE gas == m.gas - total
               other == m.other + cost
               g == Grown(m, gas, other, new)
    <2>5. x = Slice(g, used)
      <3>1. [m EXCEPT !.gas = @ - (access + cost + memory), !.other = @ + cost,
                      !.words = expand_memory_without_charge(@, ranges)] = g
        BY <1>5, Zenon DEF Grown, TypedMeter
      <3>2. QED
        BY <1>9, <3>1, Zenon DEF Expand
    <2> HIDE DEF memory, new
    <2>6. gas \in Nat /\ gas <= limit /\ other \in Nat
      BY <1>1, <1>9, <2>2
    <2>7. memory_cost(new) \in Nat /\ memory_cost(m.words) \in Nat /\ Owed(m) \in Nat
      BY <1>1, <1>3, MemoryCost, OwedType
    <2>8. limit = gas + (Owed(m) - m.other) + other
                    - memory_cost(m.words) + memory_cost(new)
      <3>1. memory = memory_cost(new) - memory_cost(m.words)
        BY <1>4, <2>4
      <3> DEFINE a == memory_cost(new)
                 b == memory_cost(m.words)
                 o == Owed(m)
      <3>2. a \in Nat /\ b \in Nat /\ o \in Nat /\ memory = a - b
              /\ limit + access = m.gas + o
        BY <2>7, <3>1
      <3> HIDE DEF a, b, o
      <3>3. limit = gas + (o - m.other) + other - b + a
        <4> DEFINE have == m.gas
                   spent == m.other
        <4>1. /\ have \in Nat /\ spent \in Nat
              /\ gas = have - (access + cost + (a - b))
              /\ other = spent + cost
              /\ limit + access = have + o
          BY <1>1, <3>2
        <4> HIDE DEF have, spent, gas, other
        <4>2. limit = gas + (o - spent) + other - b + a
          BY <3>2, <4>1
        <4>3. QED
          BY <4>2 DEF spent
      <3>4. QED
        BY <3>3 DEF a, b, o
    <2> HIDE DEF gas, other
    <2>9. Sound(g, limit) /\ g.out = "running" /\ g.words = new
      BY <1>3, <2>3, <2>6, <2>8, GrownSound
    <2> HIDE DEF g
    <2>10. \A r \in used : r[1] + r[2] <= 32 * g.words
      <3>1. SUFFICES ASSUME NEW r \in used
                     PROVE  r[1] + r[2] <= 32 * g.words
        OBVIOUS
      <3>2. r[1] \in Nat /\ r[2] \in Nat /\ r[1] + r[2] <= end
        BY <1>2
      <3>3. QED
        BY <1>2, <1>3, <2>9, <3>2
    <2>11. QED
      BY <2>5, <2>9, <2>10, SliceSound
  <1>10. QED
    BY <1>7, <1>8, <1>9

\* The meter with an account, or a slot, touched and the access counted.
Warm(m, address) == [m EXCEPT !.addresses = @ \cup {address}, !.accesses = @ + 1]
WarmSlot(m, key) == [m EXCEPT !.slots = @ \cup {key}, !.accesses = @ + 1]

\* Touching an account adds the price of the access to what is owed.
LEMMA WarmOwes ==
    ASSUME NEW m \in TypedMeter, IsFiniteSet(m.addresses), IsFiniteSet(m.slots),
           NEW address \in 0..AddressMod - 1,
           NEW n, n = Warm(m, address)
    PROVE  /\ n \in TypedMeter /\ IsFiniteSet(n.addresses) /\ IsFiniteSet(n.slots)
           /\ n.gas = m.gas /\ n.words = m.words /\ n.out = m.out
           /\ n.other = m.other
           /\ Owed(n) = Owed(m) + account_access_cost(m, address)
           /\ account_access_cost(m, address) \in Nat
  <1>1. n \in TypedMeter /\ n.addresses = m.addresses \cup {address}
          /\ n.slots = m.slots /\ n.accesses = m.accesses + 1 /\ n.gas = m.gas
          /\ n.words = m.words /\ n.out = m.out /\ n.other = m.other
    <2> DEFINE touched == m.addresses \cup {address}
               count == m.accesses + 1
    <2>1. touched \in SUBSET (0..AddressMod - 1) /\ count \in Nat
      BY DEF TypedMeter
    <2>2. n = [m EXCEPT !.addresses = touched, !.accesses = count]
      BY DEF Warm
    <2> HIDE DEF touched, count
    <2>3. n \in TypedMeter /\ n.addresses = touched /\ n.slots = m.slots
            /\ n.accesses = count /\ n.gas = m.gas
            /\ n.words = m.words /\ n.out = m.out /\ n.other = m.other
      BY <2>1, <2>2, Zenon DEF TypedMeter
    <2>4. QED
      BY <2>3 DEF touched, count
  <1> DEFINE c == Cardinality(m.addresses)
             d == Cardinality(n.addresses)
             k == Cardinality(m.slots)
             p == memory_cost(m.words)
  <1>2. IsFiniteSet(n.addresses) /\ c \in Nat /\ k \in Nat
          /\ d = IF address \in m.addresses THEN c ELSE c + 1
    <2>1. c \in Nat /\ k \in Nat
      BY FS_CardinalityType
    <2>2. /\ IsFiniteSet(m.addresses \cup {address})
          /\ Cardinality(m.addresses \cup {address}) =
                 IF address \in m.addresses THEN c ELSE c + 1
      BY FS_AddElement, Zenon
    <2>3. QED
      BY <1>1, <2>1, <2>2
  <1>3. p \in Nat /\ m.other \in Nat /\ m.accesses \in Nat
    BY MemoryCost, MeteringAssumption DEF TypedMeter
  <1>4. Owed(m) = m.other + p + 100 * m.accesses + 2500 * c + 2000 * k
    BY DEF Owed
  <1>5. Owed(n) = m.other + p + 100 * (m.accesses + 1) + 2500 * d + 2000 * k
    BY <1>1 DEF Owed
  <1> HIDE DEF c, d, k, p
  <1>6. Owed(n) = Owed(m) + account_access_cost(m, address)
    <2>1. CASE address \in m.addresses
      <3>1. account_access_cost(m, address) = 100 /\ d = c
        BY <1>2, <2>1 DEF account_access_cost
      <3>2. QED
        BY <1>2, <1>3, <1>4, <1>5, <3>1
    <2>2. CASE ~(address \in m.addresses)
      <3>1. account_access_cost(m, address) = 2600 /\ d = c + 1
        BY <1>2, <2>2 DEF account_access_cost
      <3>2. QED
        BY <1>2, <1>3, <1>4, <1>5, <3>1
    <2>3. QED
      BY <2>1, <2>2
  <1>7. QED
    BY <1>1, <1>2, <1>6 DEF account_access_cost

\* Touching a slot does the same.
LEMMA WarmSlotOwes ==
    ASSUME NEW m \in TypedMeter, IsFiniteSet(m.addresses), IsFiniteSet(m.slots),
           NEW key \in 0..WordMod - 1,
           NEW n, n = WarmSlot(m, key)
    PROVE  /\ n \in TypedMeter /\ IsFiniteSet(n.addresses) /\ IsFiniteSet(n.slots)
           /\ n.gas = m.gas /\ n.words = m.words /\ n.out = m.out
           /\ n.other = m.other
           /\ Owed(n) = Owed(m) + slot_access_cost(m, key)
           /\ slot_access_cost(m, key) \in Nat
  <1>1. n \in TypedMeter /\ n.slots = m.slots \cup {key}
          /\ n.addresses = m.addresses /\ n.accesses = m.accesses + 1
          /\ n.gas = m.gas /\ n.words = m.words /\ n.out = m.out /\ n.other = m.other
    <2> DEFINE touched == m.slots \cup {key}
               count == m.accesses + 1
    <2>1. touched \in SUBSET (0..WordMod - 1) /\ count \in Nat
      BY DEF TypedMeter
    <2>2. n = [m EXCEPT !.slots = touched, !.accesses = count]
      BY DEF WarmSlot
    <2> HIDE DEF touched, count
    <2>3. n \in TypedMeter /\ n.slots = touched /\ n.addresses = m.addresses
            /\ n.accesses = count /\ n.gas = m.gas
            /\ n.words = m.words /\ n.out = m.out /\ n.other = m.other
      BY <2>1, <2>2, Zenon DEF TypedMeter
    <2>4. QED
      BY <2>3 DEF touched, count
  <1> DEFINE c == Cardinality(m.slots)
             d == Cardinality(n.slots)
             k == Cardinality(m.addresses)
             p == memory_cost(m.words)
  <1>2. IsFiniteSet(n.slots) /\ c \in Nat /\ k \in Nat
          /\ d = IF key \in m.slots THEN c ELSE c + 1
    <2>1. c \in Nat /\ k \in Nat
      BY FS_CardinalityType
    <2>2. /\ IsFiniteSet(m.slots \cup {key})
          /\ Cardinality(m.slots \cup {key}) =
                 IF key \in m.slots THEN c ELSE c + 1
      BY FS_AddElement, Zenon
    <2>3. QED
      BY <1>1, <2>1, <2>2
  <1>3. p \in Nat /\ m.other \in Nat /\ m.accesses \in Nat
    BY MemoryCost, MeteringAssumption DEF TypedMeter
  <1>4. Owed(m) = m.other + p + 100 * m.accesses + 2500 * k + 2000 * c
    BY DEF Owed
  <1>5. Owed(n) = m.other + p + 100 * (m.accesses + 1) + 2500 * k + 2000 * d
    BY <1>1 DEF Owed
  <1> HIDE DEF c, d, k, p
  <1>6. Owed(n) = Owed(m) + slot_access_cost(m, key)
    <2>1. CASE key \in m.slots
      <3>1. slot_access_cost(m, key) = 100 /\ d = c
        BY <1>2, <2>1 DEF slot_access_cost
      <3>2. QED
        BY <1>2, <1>3, <1>4, <1>5, <3>1
    <2>2. CASE ~(key \in m.slots)
      <3>1. slot_access_cost(m, key) = 2100 /\ d = c + 1
        <4>1. slot_access_cost(m, key) = 2100
          BY <2>2 DEF slot_access_cost
        <4>2. d = c + 1
          BY <1>2, <2>2
        <4>3. QED
          BY <4>1, <4>2
      <3>2. QED
        BY <1>2, <1>3, <1>4, <1>5, <3>1
    <2>3. QED
      BY <2>1, <2>2
  <1>7. QED
    BY <1>1, <1>2, <1>6 DEF slot_access_cost

\* A meter that owes cost and has the gas for it is square once it is paid, and
\* one that has not is lost; the number of accesses is as charged.
LEMMA PaySound ==
    ASSUME NEW limit \in Nat, NEW n \in TypedMeter, n.out = "running",
           IsFiniteSet(n.addresses), IsFiniteSet(n.slots), n.gas <= limit,
           32 * n.words < LimbMod, NEW cost \in Nat,
           limit + cost = n.gas + Owed(n)
    PROVE  /\ ~(n.gas < cost) => Sound([n EXCEPT !.gas = @ - cost], limit)
           /\ \A a \in Nat : Sound([n EXCEPT !.accesses = a, !.out = "OutOfGas"], limit)
  <1>1. ASSUME ~(n.gas < cost)
        PROVE  Sound([n EXCEPT !.gas = @ - cost], limit)
    <2> DEFINE q == [n EXCEPT !.gas = @ - cost]
    <2>1. n.gas \in Nat /\ n.gas - cost \in Nat
      BY <1>1 DEF TypedMeter
    <2>2. q \in TypedMeter /\ q.gas = n.gas - cost /\ q.addresses = n.addresses
            /\ q.slots = n.slots /\ q.words = n.words /\ q.other = n.other
            /\ q.accesses = n.accesses /\ q.out = n.out
      BY <2>1 DEF TypedMeter
    <2> HIDE DEF q
    <2>3. Owed(q) = Owed(n) /\ Owed(n) \in Nat
      BY <2>2, OwedType DEF Owed
    <2>4. q.gas <= limit /\ limit = q.gas + Owed(q)
      BY <2>1, <2>2, <2>3
    <2>5. Sound(q, limit)
      BY <2>2, <2>4 DEF Sound
    <2>6. QED
      BY <2>5 DEF q
  <1>2. ASSUME NEW a \in Nat
        PROVE  Sound([n EXCEPT !.accesses = a, !.out = "OutOfGas"], limit)
    BY Zenon DEF Sound, TypedMeter, Outcomes, Lost
  <1>3. QED
    BY <1>1, <1>2, Zenon

\* An access to an account.
LEMMA AccountSound ==
    ASSUME NEW limit \in Nat, NEW m, Sound(m, limit), m.out = "running",
           NEW address \in 0..AddressMod - 1
    PROVE  /\ Sound(charge_account_access(m, address), limit)
           /\ charge_account_access(m, address).out \in {"running", "OutOfGas"}
  <1> DEFINE n == Warm(m, address)
             cost == account_access_cost(m, address)
  <1>1. m \in TypedMeter /\ IsFiniteSet(m.addresses) /\ IsFiniteSet(m.slots)
          /\ limit = m.gas + Owed(m) /\ m.gas <= limit /\ 32 * m.words < LimbMod
          /\ Owed(m) \in Nat /\ m.gas \in Nat /\ m.accesses \in Nat
    BY OwedType DEF Sound, Lost, TypedMeter
  <1>2. /\ n \in TypedMeter /\ IsFiniteSet(n.addresses) /\ IsFiniteSet(n.slots)
        /\ n.gas = m.gas /\ n.words = m.words /\ n.out = m.out
        /\ Owed(n) = Owed(m) + cost /\ cost \in Nat
    BY <1>1, WarmOwes
  <1>3. charge_account_access(m, address) =
            IF n.gas < cost THEN [n EXCEPT !.accesses = m.accesses, !.out = "OutOfGas"]
            ELSE [n EXCEPT !.gas = @ - cost]
    BY <1>1, Zenon DEF charge_account_access, Warm, TypedMeter
  <1> HIDE DEF n, cost
  <1>4. limit + cost = n.gas + Owed(n)
    BY <1>1, <1>2
  <1>5. /\ ~(n.gas < cost) => Sound([n EXCEPT !.gas = @ - cost], limit)
        /\ Sound([n EXCEPT !.accesses = m.accesses, !.out = "OutOfGas"], limit)
    BY <1>1, <1>2, <1>4, PaySound, Zenon
  <1>6. [n EXCEPT !.gas = @ - cost].out = "running"
          /\ [n EXCEPT !.accesses = m.accesses, !.out = "OutOfGas"].out = "OutOfGas"
    BY <1>2 DEF TypedMeter
  <1>7. QED
    BY <1>3, <1>5, <1>6

\* SLOAD.
LEMMA SloadSound ==
    ASSUME NEW limit \in Nat, NEW m, Sound(m, limit), m.out = "running",
           NEW key \in 0..WordMod - 1
    PROVE  /\ Sound(op_sload(m, key), limit)
           /\ op_sload(m, key).out \in {"running", "OutOfGas"}
  <1> DEFINE n == WarmSlot(m, key)
             cost == slot_access_cost(m, key)
  <1>1. m \in TypedMeter /\ IsFiniteSet(m.addresses) /\ IsFiniteSet(m.slots)
          /\ limit = m.gas + Owed(m) /\ m.gas <= limit /\ 32 * m.words < LimbMod
          /\ Owed(m) \in Nat /\ m.gas \in Nat /\ m.accesses \in Nat
    BY OwedType DEF Sound, Lost, TypedMeter
  <1>2. /\ n \in TypedMeter /\ IsFiniteSet(n.addresses) /\ IsFiniteSet(n.slots)
        /\ n.gas = m.gas /\ n.words = m.words /\ n.out = m.out
        /\ Owed(n) = Owed(m) + cost /\ cost \in Nat
    BY <1>1, WarmSlotOwes
  <1>3. op_sload(m, key) =
            IF n.gas < cost THEN [n EXCEPT !.accesses = m.accesses, !.out = "OutOfGas"]
            ELSE [n EXCEPT !.gas = @ - cost]
    BY <1>1, Zenon DEF op_sload, WarmSlot, TypedMeter
  <1> HIDE DEF n, cost
  <1>4. limit + cost = n.gas + Owed(n)
    BY <1>1, <1>2
  <1>5. /\ ~(n.gas < cost) => Sound([n EXCEPT !.gas = @ - cost], limit)
        /\ Sound([n EXCEPT !.accesses = m.accesses, !.out = "OutOfGas"], limit)
    BY <1>1, <1>2, <1>4, PaySound, Zenon
  <1>6. [n EXCEPT !.gas = @ - cost].out = "running"
          /\ [n EXCEPT !.accesses = m.accesses, !.out = "OutOfGas"].out = "OutOfGas"
    BY <1>2 DEF TypedMeter
  <1>7. QED
    BY <1>3, <1>5, <1>6

\* MCOPY never panics.
LEMMA McopySound ==
    ASSUME NEW limit \in Nat, NEW m, Sound(m, limit), m.out = "running",
           NEW dest \in Nat, NEW source \in Nat, NEW size \in Nat
    PROVE  /\ Sound(op_mcopy(m, dest, source, size), limit)
           /\ op_mcopy(m, dest, source, size).out # "Panic"
  <1> DEFINE ranges == Pair(dest, source, size)
             cost == 3 + calc_copy_gas(size)
             x == op_mcopy(m, dest, source, size)
             y == Expand(m, cost, 0, ranges, ranges)
  <1>1. Owing(m, limit, 0)
    BY DEF Sound, Lost, Owing
  <1>2. cost \in Nat /\ ranges \in SUBSET ranges
    BY Operands
  <1>3. Sound(y, limit) /\ y.out # "Panic"
    <2> HIDE DEF cost
    <2>1. QED
      BY <1>1, <1>2, ExpandSound
  <1>4. x \in {Ends(m, "VmError"), Charge(m, 3), y}
    BY DEF op_mcopy, Pair
  <1>5. Sound(Ends(m, "VmError"), limit) /\ Ends(m, "VmError").out = "VmError"
    BY EndsSound DEF Outcomes
  <1>6. Sound(Charge(m, 3), limit) /\ Charge(m, 3).out \in {"running", "OutOfGas"}
    BY ChargeSound
  <1> HIDE DEF x, y
  <1>7. Sound(x, limit) /\ x.out # "Panic"
    BY <1>3, <1>4, <1>5, <1>6
  <1>8. QED
    BY <1>7 DEF x

\* EXTCODECOPY, which owes the access until its one charge, never panics.
LEMMA ExtcodecopySound ==
    ASSUME NEW limit \in Nat, NEW m, Sound(m, limit), m.out = "running",
           NEW word \in Nat, NEW dest \in Nat, NEW offset \in Nat, NEW size \in Nat
    PROVE  /\ Sound(op_extcodecopy(m, word, dest, offset, size), limit)
           /\ op_extcodecopy(m, word, dest, offset, size).out # "Panic"
  <1> DEFINE address == account_address(word)
             n == Warm(m, address)
             access == account_access_cost(m, address)
             range == Pair(dest, dest, size)
             cost == calc_copy_gas(size)
             used == IF size = 0 THEN {} ELSE range
             x == op_extcodecopy(m, word, dest, offset, size)
             y == Expand(n, cost, access, range, used)
  <1>1. m \in TypedMeter /\ IsFiniteSet(m.addresses) /\ IsFiniteSet(m.slots)
          /\ limit = m.gas + Owed(m) /\ m.gas <= limit /\ 32 * m.words < LimbMod
          /\ Owed(m) \in Nat /\ m.gas \in Nat
    BY OwedType DEF Sound, Lost, TypedMeter
  <1>2. cost \in Nat /\ address \in 0..AddressMod - 1
    BY Operands
  <1>3. /\ n \in TypedMeter /\ IsFiniteSet(n.addresses) /\ IsFiniteSet(n.slots)
        /\ n.gas = m.gas /\ n.words = m.words /\ n.out = m.out
        /\ Owed(n) = Owed(m) + access /\ access \in Nat
    BY <1>1, <1>2, WarmOwes
  <1>4. x \in {Ends(m, "VmError"), Ends(m, "OutOfGas"), y}
    <2>1. range = {<<dest, size>>}
      BY DEF Pair
    <2>2. n = [m EXCEPT !.addresses = @ \cup {address}, !.accesses = @ + 1]
      BY DEF Warm
    <2> HIDE DEF range, n
    <2>3. QED
      BY <2>1, <2>2 DEF op_extcodecopy
  <1>5. used \in SUBSET range
    OBVIOUS
  <1> HIDE DEF address, n, access, used, x, cost
  <1>6. Owing(n, limit, access)
    BY <1>1, <1>3 DEF Owing
  <1>7. Sound(y, limit) /\ y.out # "Panic"
    BY <1>2, <1>3, <1>5, <1>6, ExpandSound
  <1>8. /\ Sound(Ends(m, "VmError"), limit) /\ Ends(m, "VmError").out = "VmError"
        /\ Sound(Ends(m, "OutOfGas"), limit) /\ Ends(m, "OutOfGas").out = "OutOfGas"
    BY EndsSound DEF Outcomes
  <1> HIDE DEF y
  <1>9. Sound(x, limit) /\ x.out # "Panic"
    BY <1>4, <1>7, <1>8
  <1>10. QED
    BY <1>9 DEF x

\* LOG0 to LOG4 panic for an empty range only.
LEMMA LogSound ==
    ASSUME NEW limit \in 0..LimbMod - 1, NEW m, Sound(m, limit), m.out = "running",
           NEW offset \in Nat, NEW size_word \in Nat, NEW topic_count \in Nat
    PROVE  /\ Sound(op_log(m, offset, size_word, topic_count), limit)
           /\ op_log(m, offset, size_word, topic_count).out = "Panic" =>
                  as_usize(size_word) = 0
  <1> DEFINE size == as_usize(size_word)
             from == as_usize(offset)
             cost == 375 + 375 * topic_count + 8 * size
             c == Charge(m, cost)
             u == IF c.out = "running" THEN Use(c, from, size) ELSE c
             y == IF u.out = "running" THEN [u EXCEPT !.logs = @ + 1] ELSE u
             x == op_log(m, offset, size_word, topic_count)
  <1>1. limit \in Nat /\ size \in Nat /\ from \in Nat /\ cost \in Nat
    BY Operands, MeteringAssumption
  <1>2. x = IF cost >= LimbMod THEN Ends(m, "OutOfGas") ELSE y
    BY DEF op_log, Then
  <1> HIDE DEF x, size, from, cost
  <1>3. Sound(c, limit) /\ c.out \in {"running", "OutOfGas"}
    BY <1>1, ChargeSound
  <1> HIDE DEF c
  <1>4. Sound(u, limit) /\ (u.out = "Panic" => size = 0)
    <2>1. CASE c.out = "running"
      BY <1>1, <1>3, <2>1, UseSound
    <2>2. QED
      BY <1>3, <2>1
  <1> HIDE DEF u
  <1>5. Sound(y, limit) /\ (y.out = "Panic" => size = 0)
    <2>1. CASE u.out = "running"
      BY <1>4, <2>1 DEF Sound, TypedMeter, Owed
    <2>2. QED
      BY <1>4, <2>1
  <1> HIDE DEF y
  <1>6. Sound(Ends(m, "OutOfGas"), limit) /\ Ends(m, "OutOfGas").out = "OutOfGas"
    BY <1>1, EndsSound DEF Outcomes
  <1>7. Sound(x, limit) /\ (x.out = "Panic" => size = 0)
    BY <1>2, <1>5, <1>6
  <1>8. QED
    BY <1>7 DEF x, size

-----------------------------------------------------------------------------
(* Handlers made of these. *)

\* MLOAD, MSTORE and MSTORE8 use a range that is not empty.
LEMMA LoadStoreSound ==
    ASSUME NEW limit \in 0..LimbMod - 1, NEW m, Sound(m, limit), m.out = "running",
           NEW offset \in Nat
    PROVE  /\ Sound(op_mload(m, offset), limit) /\ op_mload(m, offset).out # "Panic"
           /\ Sound(op_mstore(m, offset), limit) /\ op_mstore(m, offset).out # "Panic"
           /\ Sound(op_mstore8(m, offset), limit)
           /\ op_mstore8(m, offset).out # "Panic"
  <1>1. as_usize(offset) \in Nat
    BY Operands
  <1>2. QED
    BY <1>1, UseSound DEF op_mload, op_mstore, op_mstore8

\* RETURN and REVERT do not index the memory.
LEMMA ReturnSound ==
    ASSUME NEW limit \in 0..LimbMod - 1, NEW m, Sound(m, limit), m.out = "running",
           NEW offset \in Nat, NEW size \in Nat
    PROVE  /\ Sound(op_return(m, offset, size), limit)
           /\ op_return(m, offset, size).out # "Panic"
           /\ Sound(op_revert(m, offset, size), limit)
           /\ op_revert(m, offset, size).out # "Panic"
  <1> DEFINE t == touch_memory(m, as_usize(offset), as_usize(size))
  <1>1. limit \in Nat /\ as_usize(offset) \in Nat /\ as_usize(size) \in Nat
    BY Operands, MeteringAssumption
  <1>2. Sound(t, limit) /\ t.out \in {"running", "OutOfGas"}
    BY <1>1, TouchSound
  <1>3. /\ op_return(m, offset, size) =
               IF t.out = "running" THEN Ends(t, "Return") ELSE t
        /\ op_revert(m, offset, size) =
               IF t.out = "running" THEN Ends(t, "Revert") ELSE t
    BY DEF op_return, op_revert, Then
  <1> HIDE DEF t
  <1>4. CASE t.out = "running"
    <2>1. /\ Sound(Ends(t, "Return"), limit) /\ Ends(t, "Return").out = "Return"
          /\ Sound(Ends(t, "Revert"), limit) /\ Ends(t, "Revert").out = "Revert"
      BY <1>1, <1>2, <1>4, EndsSound DEF Outcomes
    <2>2. QED
      BY <1>3, <1>4, <2>1
  <1>5. QED
    BY <1>2, <1>3, <1>4

\* KECCAK256, CALLDATACOPY, CODECOPY and RETURNDATACOPY panic for an empty range
\* only.
LEMMA CopiesSound ==
    ASSUME NEW limit \in 0..LimbMod - 1, NEW m, Sound(m, limit), m.out = "running",
           NEW dest \in Nat, NEW offset \in Nat, NEW size \in Nat, NEW x,
           x \in {op_keccak256(m, dest, size), op_calldatacopy(m, dest, size),
                   op_codecopy(m, dest, size),
                   op_returndatacopy(m, dest, offset, size)}
    PROVE  Sound(x, limit) /\ (x.out = "Panic" => as_usize(size) = 0)
  <1> DEFINE y == CopyTo(m, as_usize(dest), size)
  <1>1. x \in {m, Ends(m, "VmError"), y}
    BY DEF op_keccak256, op_calldatacopy, op_codecopy, op_returndatacopy
  <1>2. limit \in Nat /\ as_usize(dest) \in Nat
    BY Operands, MeteringAssumption
  <1>3. Sound(y, limit) /\ (y.out = "Panic" => as_usize(size) = 0)
    BY <1>2, CopyToSound
  <1>4. Sound(Ends(m, "VmError"), limit) /\ Ends(m, "VmError").out = "VmError"
    BY <1>2, EndsSound DEF Outcomes
  <1> HIDE DEF y
  <1>5. QED
    BY <1>1, <1>3, <1>4

=============================================================================
