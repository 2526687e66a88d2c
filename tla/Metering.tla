------------------------------ MODULE Metering ------------------------------
(***************************************************************************)
(* src/vm.rs: the handlers that grow the memory or pay for an access, as   *)
(* functions on a meter: the gas and the number of memory words a frame    *)
(* has, the accounts and slots it has touched, the logs it has emitted and *)
(* the outcome so far.  An early return of the source is an outcome other  *)
(* than "running", which every later stage leaves alone.                   *)
(*                                                                         *)
(* There are two ways to grow the memory.  touch_memory charges and        *)
(* resizes; memory_expansion_cost computes a price that the caller adds to *)
(* others and charges, and expand_memory_without_charge resizes later.     *)
(***************************************************************************)
EXTENDS Integers, FiniteSetsExt

CONSTANTS
    WordMod,        \* 2^256
    AddressMod,     \* 2^160
    LimbMod         \* 2^64: usize and u64

ASSUME MeteringAssumption ==
    /\ LimbMod \in Nat \ {0}
    /\ AddressMod \in Nat \ {0}
    /\ WordMod \in Nat \ {0}

\* other and accesses are history: the gas charged for anything but memory and
\* access, and the number of accesses charged.
Meter ==
    [gas : Nat, words : Nat, addresses : SUBSET Nat, slots : SUBSET Nat,
     logs : Nat, out : STRING, other : Nat, accesses : Nat]

as_usize(word) == word % LimbMod

\* usize::try_from fails.
NotUsize(word) == word >= LimbMod

account_address(word) == word % AddressMod

Ends(m, outcome) == [m EXCEPT !.out = outcome]

\* The next stage, unless an earlier one has returned.
Then(m, Stage(_)) == IF m.out = "running" THEN Stage(m) ELSE m

Charge(m, cost) ==
    IF m.gas < cost THEN Ends(m, "OutOfGas")
    ELSE [m EXCEPT !.gas = @ - cost, !.other = @ + cost]

-----------------------------------------------------------------------------
(* Growing the memory. *)

\* In u64: sums and products wrap in a release build.
memory_cost(w) == (3 * w + ((w * w) % LimbMod) \div 512) % LimbMod

\* Variant: the whole memory is charged again.
expansion_cost_again(old, new) == memory_cost(new)

expansion_cost(old, new) == (memory_cost(new) - memory_cost(old)) % LimbMod

touch_memory(m, offset, size) ==
    LET new == (offset + size + 31) \div 32
        cost == expansion_cost(m.words, new)
    IN  CASE size = 0 -> m
          [] size # 0 /\ offset + size + 31 >= LimbMod -> Ends(m, "OutOfGas")
          [] OTHER ->
                IF new <= m.words THEN m
                ELSE IF m.gas < cost THEN Ends(m, "OutOfGas")
                ELSE [m EXCEPT !.gas = @ - cost, !.words = new]

\* The first byte after w words of memory and all the ranges <<offset, size>>; an
\* empty range counts.
required_end(w, ranges) == Max({32 * w} \cup {r[1] + r[2] : r \in ranges})

price(w) == 3 * w + (w * w) \div 512

\* The price computed with checked operations has no value.
PriceOverflows(w) == w * w >= LimbMod \/ price(w) >= LimbMod

\* The end of a range, the rounded end or a price is not a u64.
ExpansionOverflows(w, ranges) ==
    LET end == required_end(w, ranges)
    IN  \/ end + 31 >= LimbMod
        \/ end # 0 /\ (PriceOverflows((end + 31) \div 32) \/ PriceOverflows(w))

memory_expansion_cost(w, ranges) ==
    price((required_end(w, ranges) + 31) \div 32) - price(w)

\* Variant: the new length is not rounded up to a word.
expand_memory_rounding_down(w, ranges) == required_end(w, ranges) \div 32

\* The number of words afterwards.
expand_memory_without_charge(w, ranges) == (required_end(w, ranges) + 31) \div 32

\* memory[offset..offset + size] for every range: one that is not in the memory
\* panics, and so does an empty one that starts beyond its end.
Slice(m, ranges) ==
    IF \A r \in ranges : r[1] + r[2] <= 32 * m.words THEN m ELSE Ends(m, "Panic")

\* What op_mcopy and op_extcodecopy do: one charge for the memory, for cost and
\* for an access, then the resize, then the use of the ranges in used.
Expand(m, cost, access, ranges, used) ==
    LET memory == memory_expansion_cost(m.words, ranges)
    IN  IF ExpansionOverflows(m.words, ranges) THEN Ends(m, "VmError")
        ELSE IF m.gas < access + cost + memory THEN Ends(m, "OutOfGas")
        ELSE Slice([m EXCEPT !.gas = @ - (access + cost + memory),
                             !.other = @ + cost,
                             !.words = expand_memory_without_charge(@, ranges)],
                   used)

\* touch_memory, then the range itself.
Use(m, offset, size) ==
    Then(touch_memory(m, offset, size), LAMBDA x : Slice(x, {<<offset, size>>}))

op_mstore(m, offset) == Use(m, as_usize(offset), 32)

op_mstore8(m, offset) == Use(m, as_usize(offset), 1)

op_mload(m, offset) == Use(m, as_usize(offset), 32)

\* The data is the part of the range that is in the memory.
op_return(m, offset, size) ==
    Then(touch_memory(m, as_usize(offset), as_usize(size)),
         LAMBDA x : Ends(x, "Return"))

op_revert(m, offset, size) ==
    Then(touch_memory(m, as_usize(offset), as_usize(size)),
         LAMBDA x : Ends(x, "Revert"))

-----------------------------------------------------------------------------
(* Copying and hashing. *)

calc_copy_gas(size_word) == 3 * ((size_word + 31) \div 32)

CopyGasOverflows(size_word) ==
    size_word + 31 >= WordMod \/ calc_copy_gas(size_word) >= LimbMod

CopyCharge(m, size_word) ==
    IF CopyGasOverflows(size_word) THEN Ends(m, "OutOfGas")
    ELSE Charge(m, calc_copy_gas(size_word))

\* Charge for the bytes, touch the memory, and use it.
CopyTo(m, offset, size_word) ==
    LET size == as_usize(size_word)
    IN  Then(CopyCharge(m, size_word), LAMBDA x : Use(x, offset, size))

op_keccak256(m, offset, size_word) == CopyTo(m, as_usize(offset), size_word)

op_calldatacopy(m, dest, size_word) ==
    IF as_usize(size_word) = 0 THEN m ELSE CopyTo(m, as_usize(dest), size_word)

op_codecopy(m, dest, size_word) ==
    IF as_usize(size_word) = 0 THEN m ELSE CopyTo(m, as_usize(dest), size_word)

\* return_data is empty in a frame that has made no call.
op_returndatacopy(m, dest, offset, size_word) ==
    IF as_usize(offset) + as_usize(size_word) > 0 THEN Ends(m, "VmError")
    ELSE CopyTo(m, as_usize(dest), size_word)

op_mcopy(m, dest, source, size) ==
    LET ranges == {<<dest, size>>, <<source, size>>}
    IN  IF NotUsize(size) \/ CopyGasOverflows(size) THEN Ends(m, "VmError")
        ELSE IF size = 0 THEN Charge(m, 3)
        ELSE IF NotUsize(dest) \/ NotUsize(source) THEN Ends(m, "VmError")
        ELSE Expand(m, 3 + calc_copy_gas(size), 0, ranges, ranges)

-----------------------------------------------------------------------------
(* Accesses to accounts and slots, dearer the first time. *)

account_access_cost(m, address) == IF address \in m.addresses THEN 100 ELSE 2600

slot_access_cost(m, key) == IF key \in m.slots THEN 100 ELSE 2100

\* The account is warm afterwards, paid for or not.
charge_account_access(m, address) ==
    LET cost == account_access_cost(m, address)
    IN  IF m.gas < cost
        THEN [m EXCEPT !.addresses = @ \cup {address}, !.out = "OutOfGas"]
        ELSE [m EXCEPT !.addresses = @ \cup {address}, !.gas = @ - cost,
                       !.accesses = @ + 1]

op_balance(m, word) == charge_account_access(m, account_address(word))

op_extcodesize(m, word) == charge_account_access(m, account_address(word))

op_extcodehash(m, word) == charge_account_access(m, account_address(word))

op_sload(m, key) ==
    LET cost == slot_access_cost(m, key)
    IN  IF m.gas < cost
        THEN [m EXCEPT !.slots = @ \cup {key}, !.out = "OutOfGas"]
        ELSE [m EXCEPT !.slots = @ \cup {key}, !.gas = @ - cost, !.accesses = @ + 1]

op_extcodecopy(m, word, dest, offset, size) ==
    LET address == account_address(word)
        range == {<<dest, size>>}
    IN  IF NotUsize(dest) \/ NotUsize(offset) \/ NotUsize(size)
        THEN Ends(m, "VmError")
        ELSE IF CopyGasOverflows(size) THEN Ends(m, "OutOfGas")
        ELSE Expand([m EXCEPT !.addresses = @ \cup {address}, !.accesses = @ + 1],
                    calc_copy_gas(size), account_access_cost(m, address),
                    range, IF size = 0 THEN {} ELSE range)

-----------------------------------------------------------------------------
(* Logs. *)

op_log(m, offset, size_word, topic_count) ==
    LET size == as_usize(size_word)
        cost == 375 + 375 * topic_count + 8 * size
    IN  IF cost >= LimbMod THEN Ends(m, "OutOfGas")
        ELSE LET read == Then(Charge(m, cost),
                              LAMBDA x : Use(x, as_usize(offset), size))
             IN  Then(read, LAMBDA x : [x EXCEPT !.logs = @ + 1])

=============================================================================
