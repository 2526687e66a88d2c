-------------------------- MODULE StandaloneProofs --------------------------
(***************************************************************************)
(* Four components that stand by themselves.                               *)
(*                                                                         *)
(* For every set of addresses, slots, words, nonces, balances and codes    *)
(* and every base state: StateFork is type correct, snapshot ids are stack *)
(* positions, and the layered fork implements the stack of whole worlds.   *)
(* For every gas limit and every price: the properties of FrameGas.  For   *)
(* every limit and every dependence of success on gas: those of Estimator. *)
(* For every size of words: modular arithmetic and division in Words.      *)
(***************************************************************************)
EXTENDS StateFork, FrameGas, Estimator, Words, SequenceTheorems, TLAPS

\* The time a prover has for a leaf.
USE SMTT(30)

-----------------------------------------------------------------------------
(* StateFork. *)

\* Reading an account through the two layers always yields an account.
LEMMA AccountInType ==
    ASSUME NEW base \in AccountMap, NEW dirty \in AccountMap, NEW a \in Address
    PROVE  AccountIn(base, dirty, a) \in AccountState
  BY Zenon, ValueAssumption DEF AccountIn, AccountMap, AccountState, DefaultAccount

\* The entry a setter updates is the account a reader would have seen.
LEMMA WriteStartsFromRead ==
    ASSUME NEW a \in Address
    PROVE  account_for_write(a) = get_account(a)
  BY DEF account_for_write, get_account, AccountIn

\* The accounts one write may put where a reader sees get_account(a).
Successors(a) ==
    {account \in AccountState : Abstract!OneField(get_account(a), account)}

\* Each of the four setters makes, from the account a reader sees, one (of the
\* right type) that differs from it in one field.
LEMMA SettersChangeOneField ==
    ASSUME ForkTypeOK, NEW a \in Address
    PROVE  /\ \A slot \in Slot, value \in Word :
                [account_for_write(a) EXCEPT !.storage[slot] = value]
                    \in Successors(a)
           /\ \A b \in Balance :
                [account_for_write(a) EXCEPT !.balance = b] \in Successors(a)
           /\ \A c \in Code :
                [account_for_write(a) EXCEPT !.code = c] \in Successors(a)
           /\ \A n \in Nonce :
                [account_for_write(a) EXCEPT !.nonce = n] \in Successors(a)
  <1> DEFINE old == get_account(a)
  <1>1. account_for_write(a) = old /\ old \in AccountState
    BY WriteStartsFromRead, AccountInType DEF ForkTypeOK, get_account
  <1> HIDE DEF old
  <1>2. ASSUME NEW slot \in Slot, NEW value \in Word
        PROVE  [old EXCEPT !.storage[slot] = value] \in Successors(a)
    <2> DEFINE new == [old EXCEPT !.storage[slot] = value]
    <2>1. new \in AccountState /\ new.storage[slot] = value
      BY <1>1 DEF AccountState
    <2>2. Abstract!OneField(old, new)
      BY Zenon, <2>1 DEF Abstract!OneField
    <2>3. QED
      BY <2>1, <2>2 DEF Successors, old
  <1>3. ASSUME NEW b \in Balance
        PROVE  [old EXCEPT !.balance = b] \in Successors(a)
    <2> DEFINE new == [old EXCEPT !.balance = b]
    <2>1. new \in AccountState /\ new.balance = b
      BY <1>1 DEF AccountState
    <2>2. Abstract!OneField(old, new)
      BY <2>1 DEF Abstract!OneField
    <2>3. QED
      BY <2>1, <2>2 DEF Successors, old
  <1>4. ASSUME NEW c \in Code
        PROVE  [old EXCEPT !.code = c] \in Successors(a)
    <2> DEFINE new == [old EXCEPT !.code = c]
    <2>1. new \in AccountState /\ new.code = c
      BY <1>1 DEF AccountState
    <2>2. Abstract!OneField(old, new)
      BY <2>1 DEF Abstract!OneField
    <2>3. QED
      BY <2>1, <2>2 DEF Successors, old
  <1>5. ASSUME NEW n \in Nonce
        PROVE  [old EXCEPT !.nonce = n] \in Successors(a)
    <2> DEFINE new == [old EXCEPT !.nonce = n]
    <2>1. new \in AccountState /\ new.nonce = n
      BY <1>1 DEF AccountState
    <2>2. Abstract!OneField(old, new)
      BY <2>1 DEF Abstract!OneField
    <2>3. QED
      BY <2>1, <2>2 DEF Successors, old
  <1>6. QED
    BY <1>1, <1>2, <1>3, <1>4, <1>5

\* Setting one transient slot, or clearing them all.
TransientStep ==
    /\ transient_storage' \in TransientMap
    /\ \/ transient_storage' = NoTransient
       \/ \E k \in Address \X Slot :
            transient_storage' =
                [transient_storage EXCEPT ![k] = transient_storage'[k]]
    /\ UNCHANGED <<base_state, dirty_state, snapshots>>

\* Whatever step the fork takes, it is one of four kinds: a write of one field of
\* one account to the dirty layer, a change of transient storage, a snapshot or a
\* revert.
LEMMA StepKinds ==
    ASSUME ForkTypeOK, ForkNext
    PROVE  \/ \E a \in Address : \E account \in Successors(a) : Put(a, account)
           \/ TransientStep
           \/ snapshot
           \/ \E id \in 0..MaxSnapshots : revert_to_snapshot(id)
  <1>1. ASSUME NEW a \in Address, NEW slot \in Slot, NEW value \in Word,
               set_storage(a, slot, value)
        PROVE  \E account \in Successors(a) : Put(a, account)
    BY <1>1, SettersChangeOneField DEF set_storage
  <1>2. ASSUME NEW a \in Address, NEW slot \in Slot, NEW value \in Word,
               tstore(a, slot, value)
        PROVE  TransientStep
    <2>1. /\ transient_storage'
                = [transient_storage EXCEPT ![<<a, slot>>] = value]
          /\ transient_storage' \in TransientMap
          /\ transient_storage'[<<a, slot>>] = value
          /\ <<a, slot>> \in Address \X Slot
      BY <1>2 DEF tstore, ForkTypeOK, TransientMap
    <2>2. QED
      BY Zenon, <1>2, <2>1 DEF tstore, TransientStep
  <1>3. ASSUME NEW a \in Address, NEW b \in Balance, set_balance(a, b)
        PROVE  \E account \in Successors(a) : Put(a, account)
    BY <1>3, SettersChangeOneField DEF set_balance
  <1>4. ASSUME NEW a \in Address, NEW c \in Code, set_code(a, c)
        PROVE  \E account \in Successors(a) : Put(a, account)
    BY <1>4, SettersChangeOneField DEF set_code
  <1>5. ASSUME NEW a \in Address, NEW n \in NewNonce, set_nonce(a, n)
        PROVE  \E account \in Successors(a) : Put(a, account)
    <2>1. n \in Nonce
      BY ValueAssumption
    <2>2. QED
      BY <1>5, <2>1, SettersChangeOneField DEF set_nonce
  <1>6. ASSUME clear_transient_storage
        PROVE  TransientStep
    BY <1>6, ValueAssumption
    DEF clear_transient_storage, NoTransient, TransientMap, TransientStep
  <1>7. QED
    BY <1>1, <1>2, <1>3, <1>4, <1>5, <1>6, ValueAssumption DEF ForkNext

-----------------------------------------------------------------------------

\* Every map keeps its shape: ForkSpec implies []ForkTypeOK.
THEOREM ForkTypeCorrect == ForkSpec => []ForkTypeOK
  <1>1. ForkInit => ForkTypeOK
    BY ValueAssumption, BaseAssumption
    DEF ForkInit, ForkTypeOK, AccountMap, TransientMap, NoTransient, Snapshot
  <1>2. ForkTypeOK /\ [ForkNext]_fork_vars => ForkTypeOK'
    <2> SUFFICES ASSUME ForkTypeOK, [ForkNext]_fork_vars
                 PROVE  ForkTypeOK'
      OBVIOUS
    <2>1. ASSUME NEW a \in Address, NEW account \in Successors(a),
                 Put(a, account)
          PROVE  ForkTypeOK'
      BY <2>1 DEF Put, ForkTypeOK, AccountMap, Successors
    <2>2. CASE TransientStep
      BY <2>2 DEF ForkTypeOK, TransientStep
    <2>3. CASE snapshot
      BY <2>3 DEF snapshot, ForkTypeOK, Snapshot
    <2>4. ASSUME NEW id \in 0..MaxSnapshots, revert_to_snapshot(id)
          PROVE  ForkTypeOK'
      <3>1. PICK p \in 1..Len(snapshots) :
                /\ dirty_state' = snapshots[p].dirty_state
                /\ transient_storage' = snapshots[p].transient_storage
                /\ snapshots' = SubSeq(snapshots, 1, p - 1)
                /\ UNCHANGED base_state
        BY Zenon, <2>4 DEF revert_to_snapshot, Positions
      <3>2. snapshots[p] \in Snapshot /\ snapshots \in Seq(Snapshot)
        BY DEF ForkTypeOK
      <3>3. snapshots' \in Seq(Snapshot)
        BY <3>1, <3>2, SubSeqProperties
      <3>4. QED
        BY <3>1, <3>2, <3>3 DEF ForkTypeOK, Snapshot
    <2>5. CASE UNCHANGED fork_vars
      BY <2>5 DEF fork_vars, ForkTypeOK
    <2>6. QED
      BY <2>1, <2>2, <2>3, <2>4, <2>5, StepKinds
  <1>3. QED
    BY <1>1, <1>2, PTL DEF ForkSpec

\* Snapshot ids are stack positions, so a revert finds the snapshot whose id the
\* caller was given: ForkSpec implies []SnapshotIdsArePositions.
THEOREM SnapshotIds == ForkSpec => []SnapshotIdsArePositions
  <1>1. ForkInit => SnapshotIdsArePositions
    BY DEF ForkInit, SnapshotIdsArePositions
  <1>2. ForkTypeOK /\ SnapshotIdsArePositions /\ [ForkNext]_fork_vars
            => SnapshotIdsArePositions'
    <2> SUFFICES ASSUME ForkTypeOK, SnapshotIdsArePositions, [ForkNext]_fork_vars
                 PROVE  SnapshotIdsArePositions'
      OBVIOUS
    <2>1. CASE UNCHANGED snapshots
      BY <2>1 DEF SnapshotIdsArePositions
    <2>2. CASE snapshot
      BY <2>2 DEF snapshot, SnapshotIdsArePositions, ForkTypeOK, Snapshot
    <2>3. ASSUME NEW id \in 0..MaxSnapshots, revert_to_snapshot(id)
          PROVE  SnapshotIdsArePositions'
      <3>1. PICK position \in 1..Len(snapshots) :
                snapshots' = SubSeq(snapshots, 1, position - 1)
        BY <2>3 DEF revert_to_snapshot, Positions
      <3>2. snapshots \in Seq(Snapshot) /\ Len(snapshots) \in Nat
        BY DEF ForkTypeOK
      <3>3. Len(snapshots') = position - 1
        BY <3>1, <3>2
      <3>4. ASSUME NEW p \in 1..position - 1
            PROVE  snapshots'[p] = snapshots[p] /\ p \in 1..Len(snapshots)
        BY <3>1, <3>2
      <3>5. QED
        BY Zenon, <3>3, <3>4 DEF SnapshotIdsArePositions
    <2>4. QED
      BY <2>1, <2>2, <2>3, StepKinds DEF Put, TransientStep, fork_vars
  <1>3. QED
    BY <1>1, <1>2, ForkTypeCorrect, PTL DEF ForkSpec

-----------------------------------------------------------------------------

\* A write of one account to the dirty layer is a write of one account of the
\* world, and the saved worlds stay what they were.
LEMMA PutImplementsWrite ==
    ASSUME ForkTypeOK, NEW a \in Address, NEW account \in Successors(a),
           Put(a, account)
    PROVE  Abstract!Write(a, account)
  <1>1. [x \in Address |-> get_account(x)']
            = [[x \in Address |-> get_account(x)] EXCEPT ![a] = account]
    BY Zenon, BaseAssumption
    DEF Put, get_account, AccountIn, ForkTypeOK, AccountMap, Successors
  <1>2. SavedWorlds' = SavedWorlds
    BY DEF Put, SavedWorlds
  <1>3. UNCHANGED transient_storage
    BY DEF Put
  <1>4. QED
    BY <1>1, <1>2, <1>3 DEF Abstract!Write, Successors

\* Taking a snapshot of the dirty layer saves the whole world.
LEMMA SnapshotImplementsSave ==
    ASSUME ForkTypeOK, snapshot
    PROVE  Abstract!Save
  <1> DEFINE entry == [snapshot_id |-> Len(snapshots),
                       dirty_state |-> dirty_state,
                       transient_storage |-> transient_storage]
             here == [world |-> [x \in Address |-> get_account(x)],
                      transient |-> transient_storage]
  <1>1. /\ snapshots' = Append(snapshots, entry)
        /\ UNCHANGED <<base_state, dirty_state, transient_storage>>
    BY DEF snapshot
  <1>2. /\ Len(snapshots') = Len(snapshots) + 1
        /\ \A p \in 1..Len(snapshots) : snapshots'[p] = snapshots[p]
        /\ snapshots'[Len(snapshots) + 1] = entry
        /\ Len(snapshots) \in Nat
    BY <1>1 DEF ForkTypeOK
  <1>3. SavedWorlds' = Append(SavedWorlds, here)
    BY <1>1, <1>2 DEF SavedWorlds, get_account
  <1>4. QED
    BY <1>1, <1>3 DEF Abstract!Save, get_account

\* Reverting the dirty layer restores the whole saved world.
LEMMA RevertImplementsRestore ==
    ASSUME ForkTypeOK, NEW id \in 0..MaxSnapshots, revert_to_snapshot(id)
    PROVE  \E i \in 1..Len(SavedWorlds) : Abstract!Restore(i)
  <1>1. PICK p \in 1..Len(snapshots) :
            /\ dirty_state' = snapshots[p].dirty_state
            /\ transient_storage' = snapshots[p].transient_storage
            /\ snapshots' = SubSeq(snapshots, 1, p - 1)
            /\ UNCHANGED base_state
    BY DEF revert_to_snapshot, Positions
  <1>2. /\ Len(snapshots') = p - 1
        /\ \A q \in 1..(p - 1) : snapshots'[q] = snapshots[q]
        /\ Len(snapshots) \in Nat
    BY <1>1, SubSeqProperties DEF ForkTypeOK
  <1>3. Len(SavedWorlds) = Len(snapshots)
    BY <1>2 DEF SavedWorlds
  <1>4. SavedWorlds' = SubSeq(SavedWorlds, 1, p - 1)
    BY <1>1, <1>2, <1>3 DEF SavedWorlds
  <1>5. [x \in Address |-> get_account(x)'] = SavedWorlds[p].world
    BY <1>1 DEF SavedWorlds, get_account
  <1>6. transient_storage' = SavedWorlds[p].transient
    BY <1>1 DEF SavedWorlds
  <1>7. QED
    BY <1>3, <1>4, <1>5, <1>6 DEF Abstract!Restore

\* The layered fork of src/state.rs implements the stack of whole worlds:
\* ForkSpec implies RefinesWorldStack.
THEOREM ForkImplementsWorldStack == ForkSpec => RefinesWorldStack
  <1>1. ForkInit => Abstract!Init
    <2> SUFFICES ASSUME ForkInit
                 PROVE  Abstract!Init
      OBVIOUS
    <2>1. [x \in Address |-> get_account(x)]
              = [x \in Address |->
                    AccountIn(base_state, [y \in Address |-> Absent], x)]
      BY DEF ForkInit, get_account
    <2>2. SavedWorlds = << >>
      BY DEF ForkInit, SavedWorlds
    <2>3. QED
      BY <2>1, <2>2 DEF ForkInit, Abstract!Init
  <1>2. ForkTypeOK /\ [ForkNext]_fork_vars => [Abstract!Next]_(Abstract!vars)
    <2> SUFFICES ASSUME ForkTypeOK, [ForkNext]_fork_vars
                 PROVE  [Abstract!Next]_(Abstract!vars)
      OBVIOUS
    <2>1. ASSUME NEW a \in Address, NEW account \in Successors(a),
                 Put(a, account)
          PROVE  Abstract!Next
      BY <2>1, PutImplementsWrite DEF Abstract!Next, Successors
    <2>2. CASE TransientStep
      <3>1. /\ [x \in Address |-> get_account(x)]'
                 = [x \in Address |-> get_account(x)]
            /\ SavedWorlds' = SavedWorlds
        BY <2>2 DEF TransientStep, SavedWorlds, get_account
      <3>2. DOMAIN transient_storage = Address \X Slot
        BY DEF ForkTypeOK, TransientMap
      <3>3. Abstract!WriteTransient(transient_storage')
        BY Zenon, <2>2, <3>1, <3>2 DEF TransientStep, Abstract!WriteTransient
      <3>4. transient_storage' \in TransientMap
        BY <2>2 DEF TransientStep
      <3>5. QED
        BY <3>3, <3>4 DEF Abstract!Next
    <2>3. CASE snapshot
      BY <2>3, SnapshotImplementsSave DEF Abstract!Next
    <2>4. ASSUME NEW id \in 0..MaxSnapshots, revert_to_snapshot(id)
          PROVE  Abstract!Next
      BY <2>4, RevertImplementsRestore DEF Abstract!Next
    <2>5. CASE UNCHANGED fork_vars
      BY <2>5 DEF fork_vars, Abstract!vars, SavedWorlds, get_account
    <2>6. QED
      BY <2>1, <2>2, <2>3, <2>4, <2>5, StepKinds
  <1>3. QED
    BY <1>1, <1>2, ForkTypeCorrect, PTL DEF ForkSpec, RefinesWorldStack, Abstract!Spec

-----------------------------------------------------------------------------
(* FrameGas. *)

\* Every frame's gas limit is at least MinChildCost below that of the frame under
\* it.  Stated by level, so that no sum is needed.
LevelsCost ==
    \A i \in DOMAIN frames :
        frames[i].gas_limit + (i - 1) * MinChildCost <= GasLimit

IInv == TypeOK /\ GasNeverCreated /\ ParentKeepsA64th /\ LevelsCost

-----------------------------------------------------------------------------
(* Prices. *)

\* calc_eip150_call_gas never hands out more than all but one 64th.
LEMMA Eip150 ==
    ASSUME NEW available \in Nat, NEW requested \in Nat
    PROVE  /\ calc_eip150_call_gas(available, requested) \in Nat
           /\ calc_eip150_call_gas(available, requested)
                <= available - (available \div 64)
           /\ calc_eip150_call_gas(available, requested) <= available
<1>1. available \div 64 \in Nat /\ available \div 64 <= available
  OBVIOUS
<1>2. QED
  BY <1>1 DEF calc_eip150_call_gas

\* The base price of a call or a creation is at least MinChildCost.
LEMMA BaseGas ==
    /\ \A b \in CallBaseGas : b \in Nat /\ b >= MinChildCost
    /\ \A b \in CreateBaseGas : b \in Nat /\ b >= MinChildCost
<1>1. \A cold, has_value, has_code \in BOOLEAN, m \in Nat :
        /\ calc_call_base_gas(cold, has_value, has_code, m) \in Nat
        /\ calc_call_base_gas(cold, has_value, has_code, m) >= 800
  BY DEF calc_call_base_gas, access_cost, value_cost
<1>2. \A cold \in BOOLEAN, m \in Nat :
        /\ calc_static_call_base_gas(cold, m) \in Nat
        /\ calc_static_call_base_gas(cold, m) >= 140
  BY DEF calc_static_call_base_gas, calc_call_base_gas, access_cost, value_cost
<1>3. ASSUME NEW b \in CallBaseGas
      PROVE  b \in Nat /\ b >= 140
  <2>1. CASE \E cold, has_value, has_code \in BOOLEAN, m \in MemoryCost :
               b = calc_call_base_gas(cold, has_value, has_code, m)
    BY <1>1, <2>1, GasAssumption
  <2>2. CASE \E cold \in BOOLEAN, m \in MemoryCost :
               b = calc_static_call_base_gas(cold, m)
    BY <1>2, <2>2, GasAssumption
  <2>3. QED
    BY <1>3, <2>1, <2>2 DEF CallBaseGas
<1>4. ASSUME NEW b \in CreateBaseGas
      PROVE  b \in Nat /\ b >= 140
  BY GasAssumption DEF CreateBaseGas
<1>5. QED
  BY <1>3, <1>4 DEF MinChildCost

-----------------------------------------------------------------------------
(* What the three ways to change the stack of frames preserve. *)

\* The innermost frame of a state satisfying the invariant.
LEMMA TopFacts ==
    ASSUME IInv
    PROVE  /\ Len(frames) \in Nat \ {0}
           /\ frames[Len(frames)] \in Frame
           /\ frames[Len(frames)].gas_left <= frames[Len(frames)].gas_limit
<1>1. Len(frames) \in Nat \ {0} /\ DOMAIN frames = 1..Len(frames)
  BY DEF IInv, TypeOK
<1>2. frames[Len(frames)] \in Frame
  BY <1>1 DEF IInv, TypeOK
<1>3. frames[Len(frames)].gas_left <= frames[Len(frames)].gas_limit
  BY <1>1 DEF IInv, GasNeverCreated
<1>4. QED
  BY <1>1, <1>2, <1>3

\* Replacing one element of a sequence.
LEMMA Replace ==
    ASSUME NEW S, NEW s \in Seq(S), NEW n \in 1..Len(s), NEW f \in S,
           NEW t, t = [s EXCEPT ![n] = f]
    PROVE  /\ t \in Seq(S)
           /\ Len(t) = Len(s)
           /\ DOMAIN t = 1..Len(s)
           /\ t[n] = f
           /\ \A i \in 1..Len(s) : i # n => t[i] = s[i]
OBVIOUS

\* Changing what a frame has left.
LEMMA WithGasFacts ==
    ASSUME NEW f \in Frame, NEW gas \in Nat, NEW failed \in BOOLEAN
    PROVE  /\ WithGas(f, gas, failed) \in Frame
           /\ WithGas(f, gas, failed).gas_left = gas
           /\ WithGas(f, gas, failed).gas_limit = f.gas_limit
BY Zenon DEF WithGas, Frame

\* An operation that leaves the innermost frame with no more gas than it had.
LEMMA SetTopKeeps ==
    ASSUME IInv,
           NEW gas \in Nat, gas <= frames[Len(frames)].gas_left,
           NEW failed \in BOOLEAN,
           SetTop(gas, failed)
    PROVE  IInv'
<1> DEFINE n == Len(frames)
<1>1. /\ n = Len(frames)
      /\ n \in Nat \ {0}
      /\ n \in 1..n
      /\ frames \in Seq(Frame)
      /\ frames[n] \in Frame
      /\ frames[n].gas_left <= frames[n].gas_limit
  BY TopFacts DEF IInv, TypeOK
<1> HIDE DEF n
<1>2. /\ frames' \in Seq(Frame)
      /\ Len(frames') = n
      /\ DOMAIN frames' = 1..n
      /\ frames'[n] = WithGas(frames[n], gas, failed)
      /\ \A i \in 1..n : i # n => frames'[i] = frames[i]
  <2>1. WithGas(frames[n], gas, failed) \in Frame
    BY Zenon, <1>1, WithGasFacts
  <2>2. frames' = [frames EXCEPT ![n] = WithGas(frames[n], gas, failed)]
    BY <1>1 DEF SetTop, Top
  <2>3. QED
    BY <1>1, <2>1, <2>2, Replace
<1>3. /\ DOMAIN frames = 1..n
      /\ \A i \in 1..n : frames[i] \in Frame
  BY <1>1
<1>9. /\ frames'[n].gas_left = gas
      /\ \A i \in 1..n : frames'[i].gas_limit = frames[i].gas_limit
  <2>1. /\ WithGas(frames[n], gas, failed).gas_left = gas
        /\ WithGas(frames[n], gas, failed).gas_limit = frames[n].gas_limit
    BY <1>1, WithGasFacts
  <2>2. QED
    BY <2>1, <1>2
<1>4. TypeOK'
  BY <1>1, <1>2 DEF IInv, TypeOK, SetTop
<1>5. GasNeverCreated'
  <2>1. frames'[1].gas_limit = GasLimit
    BY <1>1, <1>9 DEF IInv, GasNeverCreated
  <2>2. ASSUME NEW i \in 1..n
        PROVE  IF i = n THEN frames'[i].gas_left <= frames'[i].gas_limit
               ELSE frames'[i].gas_left + frames'[i + 1].gas_limit
                      <= frames'[i].gas_limit
    <3>1. CASE i = n
      BY <3>1, <1>1, <1>9, <1>3 DEF Frame
    <3>2. CASE i # n
      <4>1. frames[i].gas_left + frames[i + 1].gas_limit <= frames[i].gas_limit
        BY <3>2, <1>1, <1>3 DEF IInv, GasNeverCreated
      <4>2. QED
        BY <3>2, <4>1, <1>1, <1>2, <1>9
    <3>3. QED
      BY <3>1, <3>2
  <2>3. QED
    BY <2>1, <2>2, <1>2, <1>3 DEF GasNeverCreated
<1>6. ParentKeepsA64th'
  <2>1. ASSUME NEW i \in 1..n - 1
        PROVE  (frames'[i].gas_left + frames'[i + 1].gas_limit) \div 64
                 <= frames'[i].gas_left
    <3>1. (frames[i].gas_left + frames[i + 1].gas_limit) \div 64 <= frames[i].gas_left
      BY <1>1 DEF IInv, ParentKeepsA64th
    <3>2. frames'[i] = frames[i] /\ frames'[i + 1].gas_limit = frames[i + 1].gas_limit
      BY <1>1, <1>2, <1>9
    <3>3. QED
      BY <3>1, <3>2
  <2>2. QED
    BY <2>1, <1>2 DEF ParentKeepsA64th
<1>7. LevelsCost'
  BY <1>2, <1>3, <1>9 DEF IInv, LevelsCost
<1>8. QED
  BY <1>4, <1>5, <1>6, <1>7 DEF IInv

\* A child is started: its parent had MinChildCost more than is available for
\* both, and the child gets at most all but one 64th of that.
LEMMA HandOverKeeps ==
    ASSUME IInv,
           NEW kind \in {"call", "create"},
           NEW available \in Nat, NEW gas \in Nat,
           available + MinChildCost <= frames[Len(frames)].gas_left,
           gas <= available - (available \div 64), gas <= available,
           HandOver(kind, available, gas)
    PROVE  IInv'
<1> DEFINE n == Len(frames)
           payer == WithGas(frames[n], available - gas, FALSE)
           parent == [frames EXCEPT ![n] = payer]
           child == NewFrame(kind, gas)
<1>1. /\ n = Len(frames)
      /\ n \in Nat \ {0}
      /\ n \in 1..n
      /\ frames \in Seq(Frame)
      /\ DOMAIN frames = 1..n
      /\ frames[n] \in Frame
      /\ frames[n].gas_left <= frames[n].gas_limit
  BY TopFacts DEF IInv, TypeOK
<1> HIDE DEF n
<1>2. available - gas \in Nat
  OBVIOUS
<1>3. child \in Frame
  BY DEF NewFrame, Frame
<1>4. /\ payer \in Frame
      /\ payer.gas_left = available - gas
      /\ payer.gas_limit = frames[n].gas_limit
      /\ parent \in Seq(Frame)
      /\ Len(parent) = n
      /\ parent[n] = payer
      /\ \A i \in 1..n : i # n => parent[i] = frames[i]
  <2>1. /\ payer \in Frame
        /\ payer.gas_left = available - gas
        /\ payer.gas_limit = frames[n].gas_limit
    BY Zenon, <1>1, <1>2, WithGasFacts
  <2> HIDE DEF payer
  <2>2. QED
    BY <2>1, <1>1
<1>5. /\ frames' \in Seq(Frame)
      /\ Len(frames') = n + 1
      /\ DOMAIN frames' = 1..(n + 1)
      /\ frames'[n + 1] = child
      /\ \A i \in 1..n : frames'[i] = parent[i]
  <2>1. frames' = Append(parent, child)
    BY Zenon, <1>1 DEF HandOver, Top
  <2> HIDE DEF payer, parent, child
  <2>2. QED
    BY <2>1, <1>1, <1>3, <1>4
<1>6. /\ frames'[n].gas_left = available - gas
      /\ frames'[n + 1].gas_left = gas
      /\ frames'[n + 1].gas_limit = gas
      /\ \A i \in 1..n : frames'[i].gas_limit = frames[i].gas_limit
      /\ \A i \in 1..n : i # n => frames'[i] = frames[i]
      /\ \A i \in 1..n : frames[i] \in Frame
  <2>1. \A i \in 1..n : frames[i] \in Frame
    BY <1>1
  <2>2. child.gas_left = gas /\ child.gas_limit = gas
    BY DEF NewFrame
  <2> HIDE DEF payer, parent, child
  <2>3. QED
    BY Zenon, <2>1, <2>2, <1>1, <1>4, <1>5
<1>7. /\ frames[n].gas_limit \in Nat
      /\ frames[n].gas_left \in Nat
      /\ available + MinChildCost <= frames[n].gas_limit
  BY <1>1 DEF Frame, MinChildCost
<1> HIDE DEF payer, parent, child
<1>8. TypeOK'
  <2>1. status' = status
    BY DEF HandOver
  <2>2. QED
    BY <2>1, <1>1, <1>5 DEF IInv, TypeOK
<1>9. GasNeverCreated'
  <2>1. frames'[1].gas_limit = GasLimit
    BY <1>1, <1>6 DEF IInv, GasNeverCreated
  <2>2. ASSUME NEW i \in 1..(n + 1)
        PROVE  IF i = n + 1 THEN frames'[i].gas_left <= frames'[i].gas_limit
               ELSE frames'[i].gas_left + frames'[i + 1].gas_limit
                      <= frames'[i].gas_limit
    <3>1. CASE i = n + 1
      BY <3>1, <1>6
    <3>2. CASE i = n
      BY <3>2, <1>1, <1>6, <1>7 DEF MinChildCost
    <3>3. CASE i < n
      <4>1. frames[i].gas_left + frames[i + 1].gas_limit <= frames[i].gas_limit
        BY <3>3, <1>1 DEF IInv, GasNeverCreated
      <4>2. QED
        BY <3>3, <4>1, <1>1, <1>6
    <3>4. QED
      BY <3>1, <3>2, <3>3, <1>1
  <2>3. QED
    BY Zenon, <2>1, <2>2, <1>5 DEF GasNeverCreated
<1>10. ParentKeepsA64th'
  <2>1. ASSUME NEW i \in 1..n
        PROVE  (frames'[i].gas_left + frames'[i + 1].gas_limit) \div 64
                 <= frames'[i].gas_left
    <3>1. CASE i = n
      <4>1. frames'[i].gas_left + frames'[i + 1].gas_limit = available
        BY <3>1, <1>6
      <4>2. available \div 64 <= available - gas
        OBVIOUS
      <4>3. QED
        BY Zenon, <3>1, <4>1, <4>2, <1>6
    <3>2. CASE i # n
      <4>1. (frames[i].gas_left + frames[i + 1].gas_limit) \div 64
              <= frames[i].gas_left
        BY <3>2, <1>1 DEF IInv, ParentKeepsA64th
      <4>2. frames'[i] = frames[i] /\ frames'[i + 1].gas_limit = frames[i + 1].gas_limit
        BY <3>2, <1>1, <1>6
      <4>3. QED
        BY Zenon, <4>1, <4>2
    <3>3. QED
      BY Zenon, <3>1, <3>2
  <2>2. QED
    BY <2>1, <1>1, <1>5 DEF ParentKeepsA64th
<1>11. LevelsCost'
  <2>1. ASSUME NEW i \in 1..(n + 1)
        PROVE  frames'[i].gas_limit + (i - 1) * MinChildCost <= GasLimit
    <3>1. CASE i = n + 1
      <4>1. frames[n].gas_limit + (n - 1) * MinChildCost <= GasLimit
        BY <1>1 DEF IInv, LevelsCost
      <4>2. QED
        BY <3>1, <4>1, <1>1, <1>6, <1>7, GasAssumption DEF MinChildCost
    <3>2. CASE i # n + 1
      <4>1. i \in 1..n /\ i \in DOMAIN frames
        BY <3>2, <1>1
      <4>2. frames'[i].gas_limit = frames[i].gas_limit
        BY <4>1, <1>6
      <4>3. frames[i].gas_limit + (i - 1) * MinChildCost <= GasLimit
        BY <4>1 DEF IInv, LevelsCost
      <4>4. QED
        BY <4>2, <4>3
    <3>3. QED
      BY Zenon, <3>1, <3>2
  <2>2. QED
    BY <2>1, <1>5 DEF LevelsCost
<1>12. QED
  BY <1>8, <1>9, <1>10, <1>11 DEF IInv

\* A child ends: its parent has at most what it kept and what the child left.
LEMMA PopKeeps ==
    ASSUME IInv, Len(frames) > 1,
           NEW gas \in Nat,
           gas <= frames[Len(frames) - 1].gas_left + frames[Len(frames)].gas_left,
           Pop(gas)
    PROVE  IInv'
<1> DEFINE n == Len(frames) - 1
           below == SubSeq(frames, 1, n)
           payee == WithGas(frames[n], gas, FALSE)
<1>0. n = Len(frames) - 1 /\ n + 1 = Len(frames)
  BY TopFacts
<1>1. /\ n \in Nat \ {0}
      /\ n \in 1..n
      /\ 1 \in 1..n
      /\ frames \in Seq(Frame)
      /\ DOMAIN frames = 1..(n + 1)
      /\ frames[n] \in Frame
      /\ frames[n + 1] \in Frame
      /\ frames[n + 1].gas_left <= frames[n + 1].gas_limit
  BY TopFacts DEF IInv, TypeOK
<1> HIDE DEF n
<1>2. /\ below \in Seq(Frame)
      /\ Len(below) = n
      /\ \A i \in 1..n : below[i] = frames[i]
  BY <1>0, <1>1
<1>3. /\ frames' \in Seq(Frame)
      /\ Len(frames') = n
      /\ DOMAIN frames' = 1..n
      /\ frames'[n].gas_left = gas
      /\ \A i \in 1..n : frames'[i].gas_limit = frames[i].gas_limit
      /\ \A i \in 1..n : i # n => frames'[i] = frames[i]
      /\ \A i \in 1..n : frames[i] \in Frame
      /\ frames[n + 1] \in Frame
  <2>1. frames' = [below EXCEPT ![n] = payee]
    BY <1>0, <1>1 DEF Pop
  <2>2. /\ payee \in Frame
        /\ payee.gas_left = gas
        /\ payee.gas_limit = frames[n].gas_limit
    BY Zenon, <1>1, WithGasFacts
  <2> HIDE DEF below, payee
  <2>3. /\ frames' \in Seq(Frame)
        /\ Len(frames') = n
        /\ DOMAIN frames' = 1..n
        /\ frames'[n] = payee
        /\ \A i \in 1..n : i # n => frames'[i] = below[i]
    BY <2>1, <2>2, <1>1, <1>2
  <2>4. \A i \in 1..n : i # n => frames'[i] = frames[i]
    BY Zenon, <2>3, <1>2
  <2>5. \A i \in 1..n : frames'[i].gas_limit = frames[i].gas_limit
    BY Zenon, <2>2, <2>3, <2>4
  <2>6. \A i \in 1..n : frames[i] \in Frame
    BY <1>1
  <2>7. QED
    BY Zenon, <2>2, <2>3, <2>4, <2>5, <2>6, <1>1
<1> HIDE DEF below, payee
<1>4. frames[n].gas_left + frames[n + 1].gas_limit <= frames[n].gas_limit
  BY <1>0, <1>1 DEF IInv, GasNeverCreated
<1>5. gas <= frames[n].gas_limit
  BY <1>0, <1>1, <1>4 DEF Frame
<1>6. TypeOK'
  <2>1. status' = status
    BY Zenon DEF Pop
  <2>2. QED
    BY <2>1, <1>1, <1>3 DEF IInv, TypeOK
<1>7. GasNeverCreated'
  <2>1. frames'[1].gas_limit = GasLimit
    BY Zenon, <1>1, <1>3 DEF IInv, GasNeverCreated
  <2>2. ASSUME NEW i \in 1..n
        PROVE  IF i = n THEN frames'[i].gas_left <= frames'[i].gas_limit
               ELSE frames'[i].gas_left + frames'[i + 1].gas_limit
                      <= frames'[i].gas_limit
    <3>1. CASE i = n
      BY Zenon, <3>1, <1>1, <1>3, <1>5
    <3>2. CASE i # n
      <4>1. frames[i].gas_left + frames[i + 1].gas_limit <= frames[i].gas_limit
        <5>1. i \in DOMAIN frames /\ i # Len(frames)
          BY <1>0, <1>1
        <5>2. QED
          BY <5>1 DEF IInv, GasNeverCreated
      <4>2. QED
        BY <3>2, <4>1, <1>1, <1>3
    <3>3. QED
      BY Zenon, <3>1, <3>2
  <2>3. QED
    BY Zenon, <2>1, <2>2, <1>3 DEF GasNeverCreated
<1>8. ParentKeepsA64th'
  <2>1. ASSUME NEW i \in 1..n - 1
        PROVE  (frames'[i].gas_left + frames'[i + 1].gas_limit) \div 64
                 <= frames'[i].gas_left
    <3>1. (frames[i].gas_left + frames[i + 1].gas_limit) \div 64 <= frames[i].gas_left
      BY <1>0, <1>1 DEF IInv, ParentKeepsA64th
    <3>2. frames'[i] = frames[i] /\ frames'[i + 1].gas_limit = frames[i + 1].gas_limit
      BY <1>1, <1>3
    <3>3. QED
      BY Zenon, <3>1, <3>2
  <2>2. QED
    BY Zenon, <2>1, <1>3 DEF ParentKeepsA64th
<1>9. LevelsCost'
  BY <1>1, <1>3 DEF IInv, LevelsCost
<1>10. QED
  BY <1>6, <1>7, <1>8, <1>9 DEF IInv

-----------------------------------------------------------------------------
(* The theorems. *)

\* IInv holds initially.
LEMMA InitIInv == Init => IInv
<1> SUFFICES ASSUME Init
             PROVE  IInv
  OBVIOUS
<1>1. NewFrame("top", GasLimit) \in Frame
  BY GasAssumption DEF NewFrame, Frame
<1>2. /\ frames \in Seq(Frame)
      /\ Len(frames) = 1
      /\ DOMAIN frames = 1..1
      /\ frames[1].gas_limit = GasLimit
      /\ frames[1].gas_left = GasLimit
  BY <1>1 DEF Init, NewFrame
<1>3. TypeOK
  BY <1>2 DEF Init, TypeOK
<1>4. GasNeverCreated /\ ParentKeepsA64th
  BY <1>2, GasAssumption DEF GasNeverCreated, ParentKeepsA64th
<1>5. LevelsCost
  BY <1>2, GasAssumption DEF LevelsCost, MinChildCost
<1>6. QED
  BY Zenon, <1>3, <1>4, <1>5 DEF IInv

\* Every step keeps IInv.
LEMMA StepIInv == IInv /\ [Next]_vars => IInv'
<1> SUFFICES ASSUME IInv, [Next]_vars
             PROVE  IInv'
  OBVIOUS
<1> DEFINE left == Top.gas_left
<1>1. /\ left \in Nat
      /\ left = Top.gas_left
      /\ left = frames[Len(frames)].gas_left
      /\ left <= left /\ 0 <= left
  BY TopFacts DEF Top, Frame
<1> HIDE DEF left
<1>2. ASSUME NEW cost \in OpCost, Pay(cost)
      PROVE  IInv'
  <2>1. cost \in Nat
    BY GasAssumption
  <2>2. CASE left < cost
    <3>1. SetTop(left, TRUE)
      BY Zenon, <1>1, <1>2, <2>2 DEF Pay
    <3>2. QED
      BY Zenon, <1>1, <3>1, SetTopKeeps
  <2>3. CASE ~(left < cost)
    <3>1. SetTop(left - cost, FALSE)
      BY Zenon, <1>1, <1>2, <2>3 DEF Pay
    <3>2. left - cost \in Nat /\ left - cost <= left
      BY <1>1, <2>1, <2>3
    <3>3. QED
      BY Zenon, <1>1, <3>1, <3>2, SetTopKeeps
  <2>4. QED
    BY <2>2, <2>3
<1>3. CASE Fail
  <2>1. SetTop(left, TRUE)
    BY Zenon, <1>1, <1>3 DEF Fail
  <2>2. QED
    BY Zenon, <1>1, <2>1, SetTopKeeps
<1>4. CASE op_invalid_opcode
  <2>1. SetTop(0, TRUE)
    BY Zenon, <1>4 DEF op_invalid_opcode
  <2>2. QED
    BY Zenon, <1>1, <2>1, SetTopKeeps
<1>5. ASSUME NEW base_gas \in CallBaseGas, NEW requested \in Requested,
             execute_call(base_gas, requested)
      PROVE  IInv'
  <2> DEFINE available == left - base_gas
             gas == calc_eip150_call_gas(available, requested)
  <2>1. /\ available \in Nat
        /\ available + MinChildCost <= left
        /\ requested \in Nat
    BY <1>1, <1>5, BaseGas, GasAssumption DEF execute_call, left, MinChildCost
  <2>2. HandOver("call", available, gas)
    BY <1>5 DEF execute_call, left
  <2> HIDE DEF available
  <2>3. gas \in Nat /\ gas <= available - (available \div 64) /\ gas <= available
    BY <2>1, Eip150
  <2> HIDE DEF gas
  <2>4. QED
    BY Zenon, <1>1, <2>1, <2>2, <2>3, HandOverKeeps DEF left
<1>6. ASSUME NEW base_gas \in CallBaseGas, NEW requested \in Requested,
             NEW gas_used \in PrecompileCost,
             call_precompile(base_gas, requested, gas_used)
      PROVE  IInv'
  <2> DEFINE available == left - base_gas
             call_gas == calc_eip150_call_gas(available, requested)
  <2>1. /\ available \in Nat
        /\ available <= left
        /\ requested \in Nat
        /\ gas_used \in Nat
    BY <1>1, <1>6, BaseGas, GasAssumption
      DEF call_precompile, PrecompileSucceeds, left, MinChildCost
  <2>2. IF gas_used <= call_gas
        THEN SetTop((available - call_gas) + (call_gas - gas_used), FALSE)
        ELSE SetTop(available - call_gas, TRUE)
    BY Zenon, <1>6 DEF call_precompile, PrecompileSucceeds, left, saturating_add
  <2> HIDE DEF available
  <2>3. call_gas \in Nat /\ call_gas <= available
    BY <2>1, Eip150
  <2> HIDE DEF call_gas
  <2>4. CASE gas_used <= call_gas
    <3> DEFINE rest == (available - call_gas) + (call_gas - gas_used)
    <3>1. rest \in Nat /\ rest <= left
      BY <2>1, <2>2, <2>3, <2>4, <1>1
    <3>2. SetTop(rest, FALSE)
      BY Zenon, <2>2, <2>4
    <3> HIDE DEF rest
    <3>3. QED
      BY Zenon, <3>1, <3>2, <1>1, SetTopKeeps
  <2>5. CASE ~(gas_used <= call_gas)
    <3> DEFINE rest == available - call_gas
    <3>1. rest \in Nat /\ rest <= left
      BY <2>1, <2>2, <2>3, <2>5, <1>1
    <3>2. SetTop(rest, TRUE)
      BY Zenon, <2>2, <2>5
    <3> HIDE DEF rest
    <3>3. QED
      BY Zenon, <3>1, <3>2, <1>1, SetTopKeeps
  <2>6. QED
    BY Zenon, <2>4, <2>5
<1>7. ASSUME NEW base_gas \in CreateBaseGas, NEW affordable \in BOOLEAN,
             execute_create(base_gas, affordable)
      PROVE  IInv'
  <2> DEFINE available == left - base_gas
             gas == calc_eip150_call_gas(available, available)
  <2>1. /\ available \in Nat
        /\ available + MinChildCost <= left
        /\ available <= left
    BY <1>1, <1>7, BaseGas DEF execute_create, left, MinChildCost
  <2>2. IF affordable THEN HandOver("create", available, gas)
        ELSE SetTop(available - gas, FALSE)
    BY Zenon, <1>7 DEF execute_create, left
  <2> HIDE DEF available
  <2>3. gas \in Nat /\ gas <= available - (available \div 64) /\ gas <= available
    BY Zenon, <2>1, Eip150
  <2> HIDE DEF gas
  <2>4. CASE affordable
    BY <1>1, <2>1, <2>2, <2>3, <2>4, HandOverKeeps DEF left
  <2>5. CASE ~affordable
    <3> DEFINE rest == available - gas
    <3>1. rest \in Nat /\ rest <= left
      BY <2>1, <2>2, <2>3, <2>5, <1>1
    <3>2. SetTop(rest, FALSE)
      BY Zenon, <2>2, <2>5
    <3> HIDE DEF rest
    <3>3. QED
      BY Zenon, <3>1, <3>2, <1>1, SetTopKeeps
  <2>6. QED
    BY Zenon, <2>4, <2>5
<1>8. ASSUME Len(frames) > 1
      PROVE  /\ Refunded \in Nat
             /\ Refunded = frames[Len(frames) - 1].gas_left + frames[Len(frames)].gas_left
  <2>1. frames[Len(frames) - 1] \in Frame /\ frames[Len(frames)] \in Frame
    BY <1>8 DEF IInv, TypeOK
  <2>2. QED
    BY <2>1, <1>1 DEF Refunded, saturating_add, Frame
<1>9. CASE CallReturns
  BY <1>8, <1>9, PopKeeps DEF CallReturns
<1>10. ASSUME NEW deposit \in Deposit, DeployReturns(deposit)
       PROVE  IInv'
  <2>1. deposit \in Nat /\ Len(frames) > 1
    BY Zenon, <1>10, GasAssumption DEF DeployReturns
  <2>2. CASE Top.failed \/ Refunded < deposit
    <3>1. Pop(Refunded)
      BY Zenon, <1>10, <2>2 DEF DeployReturns
    <3>2. QED
      BY <3>1, <2>1, <1>8, PopKeeps
  <2>3. CASE ~(Top.failed \/ Refunded < deposit)
    <3>1. /\ Pop(Refunded - deposit)
          /\ Refunded - deposit \in Nat
          /\ Refunded - deposit
               <= frames[Len(frames) - 1].gas_left + frames[Len(frames)].gas_left
      BY <1>10, <2>1, <2>3, <1>8 DEF DeployReturns
    <3>2. QED
      BY Zenon, <3>1, <2>1, PopKeeps
  <2>4. QED
    BY <2>2, <2>3
<1>11. CASE RunReturns
  <2>1. frames' = frames /\ status' \in {"running", "failed", "succeeded"}
    BY Zenon, <1>11 DEF RunReturns
  <2>2. QED
    BY <2>1 DEF IInv, TypeOK, GasNeverCreated, ParentKeepsA64th, LevelsCost
<1>12. CASE UNCHANGED vars
  BY <1>12 DEF vars, IInv, TypeOK, GasNeverCreated, ParentKeepsA64th, LevelsCost
<1>13. QED
  BY Zenon, <1>2, <1>3, <1>4, <1>5, <1>6, <1>7, <1>9, <1>10, <1>11, <1>12 DEF Next

\* IInv is an invariant.
LEMMA Invariant == Spec => []IInv
BY InitIInv, StepIInv, PTL DEF Spec

\* No frame's gas ever goes below zero, whatever the prices.
THEOREM TypeCorrect == Spec => []TypeOK
<1>1. IInv => TypeOK
  BY DEF IInv
<1>2. QED
  BY <1>1, Invariant, PTL

\* No sequence of calls, creations, refunds and failures creates gas.
THEOREM NoGasCreated == Spec => []GasNeverCreated
<1>1. IInv => GasNeverCreated
  BY DEF IInv
<1>2. QED
  BY <1>1, Invariant, PTL

\* A waiting frame has kept a 64th of what it had (calc_eip150_call_gas).
THEOREM KeepsA64th == Spec => []ParentKeepsA64th
<1>1. IInv => ParentKeepsA64th
  BY DEF IInv
<1>2. QED
  BY <1>1, Invariant, PTL

\* The number of nested frames is at most the gas limit over the price of the
\* cheapest call, plus one.
THEOREM DepthBounded == Spec => []DepthBoundedByGas
<1>1. IInv => DepthBoundedByGas
  <2> SUFFICES ASSUME IInv
               PROVE  DepthBoundedByGas
    OBVIOUS
  <2>1. /\ Len(frames) \in Nat \ {0}
        /\ frames[Len(frames)].gas_limit \in Nat
    BY TopFacts DEF Frame
  <2>2. frames[Len(frames)].gas_limit + (Len(frames) - 1) * MinChildCost <= GasLimit
    BY <2>1 DEF IInv, TypeOK, LevelsCost
  <2>3. QED
    BY <2>1, <2>2, GasAssumption DEF DepthBoundedByGas, MinChildCost
<1>2. QED
  BY <1>1, Invariant, PTL

-----------------------------------------------------------------------------
(* Estimator. *)

\* While the search runs, the upper bound has been tried and succeeds, and what is
\* just below the lower bound has been tried and fails.
SearchInv ==
    /\ SearchTypeOK
    /\ outcome \in {"search", "done"} =>
         /\ intrinsic <= low
         /\ low <= high
         /\ succeeds[high] = TRUE
         /\ low > intrinsic => succeeds[low - 1] = FALSE
    /\ \A g \in 0..high : succeeds[g] \in BOOLEAN
    /\ outcome = "done" => low = high

\* The middle is a candidate, and below the upper bound.
LEMMA Middle ==
    ASSUME NEW l \in Nat, NEW h \in Nat, l < h
    PROVE  /\ l + (h - l) \div 2 \in Nat
           /\ l <= l + (h - l) \div 2
           /\ l + (h - l) \div 2 < h
OBVIOUS

\* SearchInv holds initially.
LEMMA InitSearchInv == SearchInit => SearchInv
<1> SUFFICES ASSUME SearchInit
             PROVE  SearchInv
  OBVIOUS
<1>1. high \in Nat /\ intrinsic \in Nat
  BY EstimatorAssumption DEF SearchInit
<1>2. SearchTypeOK
  BY <1>1 DEF SearchInit, SearchTypeOK
<1>3. \A g \in 0..high : succeeds[g] \in BOOLEAN
  BY DEF SearchInit
<1>4. QED
  BY <1>2, <1>3 DEF SearchInit, SearchInv

\* Every step keeps SearchInv.
LEMMA StepSearchInv == SearchInv /\ [SearchNext]_search_vars => SearchInv'
<1> SUFFICES ASSUME SearchInv, [SearchNext]_search_vars
             PROVE  SearchInv'
  OBVIOUS
<1> USE DEF SearchInv, SearchTypeOK
<1>1. CASE Start
  <2>1. CASE high > U64Max \/ high < intrinsic \/ ~to \/ ~succeeds[high]
    BY Zenon, <1>1, <2>1 DEF Start
  <2>2. CASE ~(high > U64Max \/ high < intrinsic \/ ~to \/ ~succeeds[high])
    <3>1. succeeds[high] = TRUE /\ intrinsic <= high
      BY <2>2
    <3>2. QED
      BY <1>1, <2>2, <3>1 DEF Start
  <2>3. QED
    BY Zenon, <2>1, <2>2
<1>2. CASE Bisect
  <2>1. mid \in Nat /\ low <= mid /\ mid < high
    BY <1>2, Middle DEF Bisect, mid
  <2>2. succeeds[mid] \in BOOLEAN
    BY <2>1
  <2>3. CASE succeeds[mid] = TRUE
    BY <1>2, <2>1, <2>3 DEF Bisect
  <2>4. CASE succeeds[mid] = FALSE
    <3>1. low' = mid + 1 /\ UNCHANGED <<succeeds, to, intrinsic, high, outcome>>
      BY <1>2, <2>4 DEF Bisect
    <3>2. (mid + 1) - 1 = mid
      BY <2>1
    <3>3. outcome = "search"
      BY Zenon, <1>2 DEF Bisect
    <3>4. QED
      BY <2>1, <2>4, <3>1, <3>2, <3>3
  <2>5. QED
    BY Zenon, <2>2, <2>3, <2>4
<1>3. CASE Answer
  BY <1>3 DEF Answer
<1>4. CASE UNCHANGED search_vars
  BY <1>4 DEF search_vars
<1>5. QED
  BY Zenon, <1>1, <1>2, <1>3, <1>4 DEF SearchNext

\* SearchInv is an invariant.
LEMMA SearchInvariant == SearchSpec => []SearchInv
BY InitSearchInv, StepSearchInv, PTL DEF SearchSpec

\* The bounds of the search stay in range.
THEOREM SearchTypeCorrect == SearchSpec => []SearchTypeOK
<1>1. SearchInv => SearchTypeOK
  BY DEF SearchInv
<1>2. QED
  BY <1>1, SearchInvariant, PTL

\* An estimate is always enough gas, for any program.
THEOREM Enough == SearchSpec => []EstimateIsEnough
<1>1. SearchInv => EstimateIsEnough
  BY DEF SearchInv, SearchTypeOK, EstimateIsEnough
<1>2. QED
  BY <1>1, SearchInvariant, PTL

\* One unit of gas less than the estimate is not enough, for any program.
THEOREM Tight == SearchSpec => []EstimateIsTight
<1>1. SearchInv => EstimateIsTight
  BY DEF SearchInv, SearchTypeOK, EstimateIsTight
<1>2. QED
  BY <1>1, SearchInvariant, PTL

-----------------------------------------------------------------------------
(* Words. *)

\* Quotient and remainder make up the number.
LEMMA Quotient ==
    ASSUME NEW a \in Int, NEW m \in Int, m > 0
    PROVE  /\ a = (a \div m) * m + (a % m)
           /\ a \div m \in Int
           /\ a % m \in 0..m - 1
  <1>1. a = (a \div m) * m + (a % m)
    OBVIOUS
  <1>2. a \div m \in Int /\ a % m \in 0..m - 1
    OBVIOUS
  <1>3. QED
    BY <1>1, <1>2

\* A remainder is determined by the number and any quotient.
LEMMA RemainderIs ==
    ASSUME NEW a \in Int, NEW m \in Int, m > 0, NEW k \in Int, NEW r \in 0..m - 1,
           a = k * m + r
    PROVE  a % m = r
  OBVIOUS

\* Words do not change when they wrap.
LEMMA NoWrap ==
    ASSUME NEW x \in U256
    PROVE  x % WordMod = x
  BY WordsAssumption DEF U256, WordMod

\* The comparison that op_addmod and op_mulmod make before they add keeps the sum of
\* two reduced words from wrapping.
LEMMA AddReducedIs ==
    ASSUME NEW m \in U256, NEW x \in 0..m - 1, NEW y \in 0..m - 1
    PROVE  AddReduced(x, y, m) = IF x + y < m THEN x + y ELSE x + y - m
  <1>1. m - y \in U256 /\ WordMod \in Int /\ m \in Int /\ m < WordMod
    BY WordsAssumption DEF U256, WordMod
  <1>2. wrapping_sub(m, y) = m - y
    BY <1>1, NoWrap DEF wrapping_sub
  <1>3. CASE x + y < m
    <2>1. x + y \in U256
      BY <1>1, <1>3 DEF U256
    <2>2. wrapping_add(x, y) = x + y
      BY Zenon, <2>1, NoWrap DEF wrapping_add
    <2>3. QED
      BY <1>1, <1>2, <1>3, <2>2 DEF AddReduced, U256
  <1>4. CASE ~(x + y < m)
    <2>1. 0 <= x - (m - y) /\ x - (m - y) < WordMod
      BY <1>1, <1>4
    <2>a. x - (m - y) \in U256
      BY <1>1, <2>1 DEF U256
    <2>2. wrapping_sub(x, m - y) = x - (m - y)
      BY <2>a, NoWrap DEF wrapping_sub
    <2>3. QED
      BY <1>1, <1>2, <1>4, <2>2 DEF AddReduced, U256
  <1>5. QED
    BY <1>3, <1>4

\* op_addmod reduces the whole sum.
LEMMA AddmodExact ==
    ASSUME NEW m \in U256, m # 0, NEW b \in U256, NEW a \in U256
    PROVE  op_addmod(m, b, a) = (a + b) % m
  <1>1. m \in Int /\ m > 0 /\ a \in Int /\ b \in Int
    BY DEF U256
  <1> DEFINE x == a % m
             y == b % m
             j == a \div m
             k == b \div m
  <1>2. /\ a = j * m + x /\ j \in Int /\ x \in 0..m - 1
        /\ b = k * m + y /\ k \in Int /\ y \in 0..m - 1
    BY <1>1, Quotient
  <1>3. op_addmod(m, b, a) = AddReduced(x, y, m)
    BY DEF op_addmod
  <1> HIDE DEF x, y, j, k
  <1>4. AddReduced(x, y, m) = IF x + y < m THEN x + y ELSE x + y - m
    BY Zenon, <1>2, AddReducedIs
  <1> DEFINE s == a + b
             q == IF x + y < m THEN j + k ELSE j + k + 1
             r == IF x + y < m THEN x + y ELSE x + y - m
  <1>5. s = q * m + r /\ s \in Int /\ q \in Int /\ r \in 0..m - 1
    BY <1>1, <1>2
  <1>6. op_addmod(m, b, a) = r
    BY <1>3, <1>4
  <1> HIDE DEF s, q, r
  <1>7. s % m = r
    BY Zenon, <1>1, <1>5, RemainderIs
  <1>8. QED
    BY <1>6, <1>7 DEF s

\* The product, in the loop of MULMOD: what was added up so far and what the rest of
\* the multiplier still adds, but for multiples of the modulus.
Partial ==
    /\ first # 0
    /\ factor \in 0..first - 1 /\ result \in 0..first - 1
    /\ multiplier \in Nat
    /\ \E k \in Int : third * second = k * first + (result + factor * multiplier)

WordInv ==
    /\ first \in U256 /\ second \in U256 /\ third \in U256
    /\ pc = "start" => result = 0
    /\ pc = "loop" => op \in {"MULMOD", "EXP"}
    /\ pc = "loop" /\ op = "MULMOD" => Partial
    /\ pc = "done" =>
          /\ op = "MULMOD" => result = IF first = 0 THEN 0 ELSE (third * second) % first
          /\ op \notin {"MULMOD", "EXP"} => result = Computed

\* One turn of the loop, on integers: d and e are the multiples of the modulus that
\* the two sums lose.
LEMMA OneTurn ==
    ASSUME NEW r \in Int, NEW f \in Int, NEW n \in Int, NEW m \in Int, NEW k \in Int,
           NEW q \in Int, NEW b \in Int, NEW d \in Int, NEW e \in Int,
           n = 2 * q + b
    PROVE  k * m + (r + f * n) = (k + d * q + e) * m + ((r + b * f - e * m) + (2 * f - d * m) * q)
  <1>1. f * n = f * (2 * q + b)
    OBVIOUS
  <1>2. f * (2 * q + b) = 2 * (f * q) + b * f
    OBVIOUS
  <1>3. (2 * f - d * m) * q = 2 * (f * q) - (d * q) * m
    OBVIOUS
  <1>4. (k + d * q + e) * m = k * m + (d * q) * m + e * m
    OBVIOUS
  <1>5. QED
    BY <1>1, <1>2, <1>3, <1>4

\* A turn of the loop keeps Partial.
LEMMA MulmodStepKeeps ==
    ASSUME WordInv, MulmodStep
    PROVE  Partial'
  <1>1. /\ first \in U256 /\ first \in Int /\ first > 0 /\ first # 0
        /\ factor \in 0..first - 1 /\ result \in 0..first - 1
        /\ multiplier \in Nat
        /\ third * second \in Int
    BY DEF WordInv, MulmodStep, Partial, U256
  <1>2. PICK k \in Int : third * second = k * first + (result + factor * multiplier)
    BY DEF WordInv, MulmodStep, Partial
  <1> DEFINE q == multiplier \div 2
             b == multiplier % 2
             d == IF factor + factor < first THEN 0 ELSE 1
             e == IF b # 0 /\ ~(result + factor < first) THEN 1 ELSE 0
  <1>3. multiplier = 2 * q + b /\ q \in Nat /\ b \in {0, 1} /\ d \in Int /\ e \in Int
    BY <1>1
  <1>4. /\ multiplier' = q /\ UNCHANGED <<first, second, third>>
        /\ factor' = AddReduced(factor, factor, first)
        /\ result' = IF b # 0 THEN AddReduced(result, factor, first) ELSE result
    BY DEF MulmodStep, odd, shiftr
  <1>5. factor' = 2 * factor - d * first /\ factor' \in 0..first - 1
    <2>1. AddReduced(factor, factor, first) =
              IF factor + factor < first THEN factor + factor ELSE factor + factor - first
      BY Zenon, <1>1, AddReducedIs
    <2>2. QED
      BY <1>1, <1>4, <2>1
  <1>6. result' = result + b * factor - e * first /\ result' \in 0..first - 1
    <2>1. AddReduced(result, factor, first) =
              IF result + factor < first THEN result + factor ELSE result + factor - first
      BY Zenon, <1>1, AddReducedIs
    <2>2. CASE b = 0
      BY <1>1, <1>4, <2>2
    <2>3. CASE b = 1
      BY <1>1, <1>4, <2>1, <2>3
    <2>4. QED
      BY Zenon, <1>3, <2>2, <2>3
  <1> HIDE DEF q, b, d, e
  <1>7. k + d * q + e \in Int
    BY <1>3
  <1>8. third * second = (k + d * q + e) * first + (result' + factor' * q)
    BY <1>1, <1>2, <1>3, <1>5, <1>6, OneTurn
  <1>9. QED
    BY Zenon, <1>1, <1>3, <1>4, <1>5, <1>6, <1>7, <1>8 DEF Partial

\* The loop starts from the whole product.
LEMMA MulmodStarts ==
    ASSUME WordInv, op_mulmod, first # 0
    PROVE  Partial'
  <1>1. first \in Int /\ first > 0 /\ second \in Nat /\ third \in Int
    BY DEF WordInv, U256
  <1>2. /\ factor' = third % first /\ multiplier' = second /\ result' = 0
        /\ UNCHANGED <<first, second, third>>
    BY DEF op_mulmod
  <1> DEFINE j == third \div first
  <1>3. third = j * first + factor' /\ j \in Int /\ factor' \in 0..first - 1
    BY <1>1, <1>2, Quotient
  <1> HIDE DEF j
  <1>4. third * second = (j * second) * first + factor' * second
    BY <1>1, <1>3
  <1>5. j * second \in Int
    BY <1>1, <1>3
  <1>6. third * second = (j * second) * first + (0 + factor' * second)
    BY <1>1, <1>3, <1>4, <1>5
  <1>7. 0 \in 0..first - 1
    BY <1>1
  <1>8. QED
    BY Zenon, <1>1, <1>2, <1>3, <1>5, <1>6, <1>7 DEF Partial

\* When the multiplier is used up, what was added up is the remainder of the product.
LEMMA MulmodEnds ==
    ASSUME WordInv, Partial, multiplier = 0
    PROVE  result = (third * second) % first
  <1>1. first \in Int /\ first > 0 /\ third * second \in Int
    BY DEF WordInv, Partial, U256
  <1>2. PICK k \in Int : third * second = k * first + (result + factor * multiplier)
    BY DEF Partial
  <1> DEFINE p == third * second
  <1>3. p = k * first + result /\ result \in 0..first - 1 /\ p \in Int
    BY <1>1, <1>2 DEF Partial
  <1> HIDE DEF p
  <1>4. p % first = result
    BY <1>1, <1>3, RemainderIs
  <1>5. QED
    BY Zenon, <1>4 DEF p

\* Every handler keeps the invariant.
LEMMA WordStep ==
    ASSUME WordInv, [WordNext]_word_vars
    PROVE  WordInv'
  <1>1. CASE Compute
    <2>1. /\ UNCHANGED <<op, first, second, third>> /\ pc' = "done"
          /\ op \notin {"MULMOD", "EXP"} /\ result' = Computed
      BY <1>1 DEF Compute
    <2>2. Computed' = Computed
      BY Zenon, <2>1 DEF Computed
    <2>3. QED
      BY <2>1, <2>2 DEF WordInv
  <1>2. CASE op_mulmod
    <2>1. op = "MULMOD" /\ UNCHANGED <<op, first, second, third>>
      BY Zenon, <1>2 DEF op_mulmod
    <2>2. CASE first = 0
      BY Zenon, <1>2, <2>1, <2>2 DEF op_mulmod, WordInv
    <2>3. CASE first # 0
      <3>1. pc' = "loop" /\ Partial'
        BY Zenon, <1>2, <2>3, MulmodStarts DEF op_mulmod
      <3>2. QED
        BY Zenon, <2>1, <3>1 DEF WordInv
    <2>4. QED
      BY <2>2, <2>3
  <1>3. CASE op_exp
    BY Zenon, <1>3 DEF op_exp, WordInv
  <1>4. CASE MulmodStep
    BY Zenon, <1>4, MulmodStepKeeps DEF MulmodStep, WordInv
  <1>5. CASE ExpStep
    BY Zenon, <1>5 DEF ExpStep, WordInv
  <1>6. CASE LoopEnds
    <2>1. /\ UNCHANGED <<op, first, second, third, result>> /\ pc = "loop" /\ pc' = "done"
          /\ multiplier = 0
      BY <1>6 DEF LoopEnds
    <2>2. op \in {"MULMOD", "EXP"} /\ (op = "MULMOD" => Partial)
      BY Zenon, <2>1 DEF WordInv
    <2>3. op = "MULMOD" => first # 0 /\ result = (third * second) % first
      BY Zenon, <2>1, <2>2, MulmodEnds DEF Partial
    <2>4. QED
      BY <2>1, <2>2, <2>3 DEF WordInv
  <1>7. CASE UNCHANGED word_vars
    <2>1. UNCHANGED <<op, first, second, third, factor, multiplier, result, pc>>
      BY <1>7 DEF word_vars
    <2>2. Computed' = Computed /\ Partial' = Partial
      BY Zenon, <2>1 DEF Computed, Partial
    <2>3. QED
      BY <2>1, <2>2 DEF WordInv
  <1>8. QED
    BY Zenon, <1>1, <1>2, <1>3, <1>4, <1>5, <1>6, <1>7 DEF WordNext

\* The invariant holds in every reachable state.
LEMMA WordInvariant == WordSpec => []WordInv
  <1>1. WordInit => WordInv
    <2>1. 0 \in U256
      BY WordsAssumption DEF U256, WordMod
    <2>2. QED
      BY <2>1 DEF WordInit, WordInv
  <1>2. WordInv /\ [WordNext]_word_vars => WordInv'
    BY WordStep
  <1>3. QED
    BY <1>1, <1>2, PTL DEF WordSpec

\* ADDMOD and MULMOD are exact for every word size and every modulus: WordSpec
\* implies []ModularExact.
THEOREM ModularArithmetic == WordSpec => []ModularExact
  <1>1. WordInv => ModularExact
    <2> SUFFICES ASSUME WordInv, pc = "done", op = "ADDMOD"
                 PROVE  result = IF first = 0 THEN 0 ELSE (third + second) % first
      BY DEF ModularExact, WordInv
    <2>1. result = op_addmod(first, second, third)
      BY DEF WordInv, Computed
    <2>2. CASE first = 0
      BY Zenon, <2>1, <2>2 DEF op_addmod
    <2>3. CASE first # 0
      BY Zenon, <2>1, <2>3, AddmodExact DEF WordInv
    <2>4. QED
      BY Zenon, <2>2, <2>3
  <1>2. QED
    BY <1>1, WordInvariant, PTL


\* What negative, negated and abs are for words.
LEMMA SignBit ==
    ASSUME NEW x \in U256
    PROVE  /\ x \in Int /\ 0 <= x /\ x < WordMod
           /\ WordMod = 2 * sign /\ sign \in Int /\ sign > 0
           /\ negative(x) <=> x >= sign
           /\ negated(x) = IF x = 0 THEN 0 ELSE WordMod - x
           /\ abs(x) = Magnitude(Signed(x))
           /\ abs(x) \in 0..sign
           /\ x # 0 => abs(x) > 0
  <1>1. /\ x \in Int /\ 0 <= x /\ x < WordMod
        /\ WordMod = 2 * sign /\ sign \in Int /\ sign > 0
    BY WordsAssumption DEF U256, WordMod
  <1>2. negative(x) <=> x >= sign
    <2>1. negative(x) <=> (x \div sign) % 2 # 0
      BY DEF negative, bit, shiftr, sign
    <2>2. CASE x >= sign
      <3>1. x \div sign = 1
        BY <1>1, <2>2
      <3>2. QED
        BY <2>1, <2>2, <3>1
    <2>3. CASE x < sign
      <3>1. x \div sign = 0
        BY <1>1, <2>3
      <3>2. QED
        BY <1>1, <2>1, <2>3, <3>1
    <2>4. QED
      BY <1>1, <2>2, <2>3
  <1>3. negated(x) = IF x = 0 THEN 0 ELSE WordMod - x
    <2>1. negated(x) = (WordMod - x) % WordMod
      <3>1. (WordMod - 1 - x) + 1 = WordMod - x
        BY <1>1
      <3>2. QED
        BY <3>1 DEF negated, wrapping_add, not, MaxWord
    <2>2. CASE x = 0
      BY <1>1, <2>1, <2>2
    <2>3. CASE x # 0
      BY <1>1, <2>1, <2>3
    <2>4. QED
      BY <2>2, <2>3
  <1>4. abs(x) = IF x >= sign THEN WordMod - x ELSE x
    BY <1>1, <1>2, <1>3 DEF abs
  <1>5. /\ abs(x) = Magnitude(Signed(x)) /\ abs(x) \in 0..sign
        /\ x # 0 => abs(x) > 0
    BY <1>1, <1>4 DEF Magnitude, Signed
  <1>6. QED
    BY Zenon, <1>1, <1>2, <1>3, <1>5

\* The integer that a word and its negation stand for, up to the highest bit.
LEMMA SignedOf ==
    ASSUME NEW x \in 0..sign
    PROVE  /\ x \in U256
           /\ Signed(negated(x)) = -x
           /\ Signed(x) = IF x < sign THEN x ELSE -x
  <1>1. /\ sign \in Int /\ sign > 0 /\ WordMod = 2 * sign /\ x \in Int
        /\ 0 <= x /\ x <= sign /\ x < WordMod
    BY WordsAssumption DEF WordMod
  <1>2. x \in U256
    BY <1>1 DEF U256
  <1>3. negated(x) = IF x = 0 THEN 0 ELSE WordMod - x
    BY Zenon, <1>2, SignBit
  <1>4. QED
    BY <1>1, <1>2, <1>3 DEF Signed

\* Dividing natural numbers.
LEMMA DivideNat ==
    ASSUME NEW a \in Nat, NEW b \in Nat, b > 0
    PROVE  /\ a \div b \in Nat /\ a % b \in Nat /\ a % b < b
           /\ a = (a \div b) * b + (a % b)
           /\ a \div b <= a
           /\ a \div b = a /\ a > 0 => b = 1 /\ a % b = 0
  <1> DEFINE q == a \div b
             r == a % b
  <1>1. a = q * b + r /\ q \in Int /\ r \in 0..b - 1
    BY Quotient
  <1> HIDE DEF q, r
  <1>2. q >= 0
    <2>1. SUFFICES ASSUME q <= -1 PROVE FALSE
      BY <1>1
    <2>2. (-1 - q) * b >= 0
      BY <1>1, <2>1
    <2>3. (-1 - q) * b = -b - q * b
      BY <1>1
    <2>4. QED
      BY <1>1, <2>2, <2>3
  <1>3. q <= a
    <2>1. q * (b - 1) >= 0
      BY <1>1, <1>2
    <2>2. q * (b - 1) = q * b - q
      BY <1>1
    <2>3. QED
      BY <1>1, <2>1, <2>2
  <1>4. ASSUME q = a, a > 0
        PROVE  b = 1 /\ r = 0
    <2>1. a * (b - 1) + r = 0
      BY <1>1, <1>4
    <2>2. CASE b > 1
      <3>1. a * (b - 1) > 0
        BY <1>4, <2>2
      <3>2. QED
        BY <1>1, <2>1, <3>1
    <2>3. CASE b = 1
      BY <1>1, <2>1, <2>3
    <2>4. QED
      BY <2>2, <2>3
  <1>5. QED
    BY <1>1, <1>2, <1>3, <1>4 DEF q, r

\* Signed quotient and remainder belong together.
LEMMA SignedDivision ==
    ASSUME NEW divisor \in U256, divisor # 0, NEW dividend \in U256
    PROVE  LET d == Signed(dividend)
               v == Signed(divisor)
               quot == Signed(op_sdiv(divisor, dividend))
               rest == Signed(op_smod(divisor, dividend))
           IN  /\ (quot * v + rest - d) % WordMod = 0
               /\ ~(dividend = sign /\ v = -1) => quot * v + rest = d
               /\ Magnitude(rest) < Magnitude(v)
               /\ rest # 0 => (rest < 0) = (d < 0)
  <1> DEFINE d == Signed(dividend)
             v == Signed(divisor)
             quot == Signed(op_sdiv(divisor, dividend))
             rest == Signed(op_smod(divisor, dividend))
             a == abs(dividend)
             b == abs(divisor)
             q == a \div b
             r == a % b
  <1>1. /\ WordMod = 2 * sign /\ sign \in Int /\ sign > 0
        /\ negative(dividend) <=> dividend >= sign
        /\ negative(divisor) <=> divisor >= sign
        /\ a \in 0..sign /\ b \in 0..sign /\ b > 0
        /\ a = Magnitude(d) /\ b = Magnitude(v)
    BY Zenon, SignBit
  <1>2. /\ d = IF negative(dividend) THEN -a ELSE a
        /\ v = IF negative(divisor) THEN -b ELSE b
        /\ ~negative(dividend) => a < sign
        /\ negative(dividend) => a > 0
        /\ negative(dividend) /\ a = sign => dividend = sign
    BY <1>1, SignBit DEF Signed, Magnitude
  <1>3. /\ a = q * b + r /\ q \in Nat /\ r \in Nat /\ r < b /\ q <= a
        /\ q = a /\ a > 0 => b = 1 /\ r = 0
    BY <1>1, DivideNat
  <1>4. /\ op_sdiv(divisor, dividend) =
               IF negative(dividend) <=> negative(divisor) THEN q ELSE negated(q)
        /\ op_smod(divisor, dividend) = IF negative(dividend) THEN negated(r) ELSE r
    BY DEF op_sdiv, op_smod
  <1> HIDE DEF a, b, q, r
  <1>5. q \in 0..sign /\ r \in 0..sign /\ r < sign
    BY <1>1, <1>3
  <1>6. Signed(negated(q)) = -q /\ Signed(q) = IF q < sign THEN q ELSE -q
    BY <1>5, SignedOf
  <1>7. Signed(negated(r)) = -r /\ Signed(r) = r
    BY Zenon, <1>5, SignedOf
  <1>8. rest = IF negative(dividend) THEN -r ELSE r
    BY Zenon, <1>4, <1>7
  <1>9. quot = IF (negative(dividend) <=> negative(divisor)) /\ q < sign THEN q ELSE -q
    BY <1>4, <1>6
  <1> HIDE DEF d, v, quot, rest
  <1>10. \/ quot * v + rest = d
         \/ dividend = sign /\ v = -1 /\ rest = 0 /\ quot = -sign /\ d = -sign
    <2>1. CASE ~negative(dividend) /\ ~negative(divisor)
      <3>1. quot = q /\ v = b /\ rest = r /\ d = a
        BY <1>1, <1>2, <1>3, <1>8, <1>9, <2>1
      <3>2. QED
        BY Zenon, <1>3, <3>1
    <2>2. CASE ~negative(dividend) /\ negative(divisor)
      <3>1. quot = -q /\ v = -b /\ rest = r /\ d = a
        BY Zenon, <1>2, <1>8, <1>9, <2>2
      <3>2. (-q) * (-b) = q * b
        BY <1>1, <1>3
      <3>3. QED
        BY Zenon, <1>3, <3>1, <3>2
    <2>3. CASE negative(dividend) /\ ~negative(divisor)
      <3>1. quot = -q /\ v = b /\ rest = -r /\ d = -a
        BY Zenon, <1>2, <1>8, <1>9, <2>3
      <3>2. (-q) * b = -(q * b) /\ q * b \in Int
        BY <1>1, <1>3
      <3>3. QED
        BY <1>3, <3>1, <3>2
    <2>4. CASE negative(dividend) /\ negative(divisor) /\ q < sign
      <3>1. quot = q /\ v = -b /\ rest = -r /\ d = -a
        BY Zenon, <1>2, <1>8, <1>9, <2>4
      <3>2. q * (-b) = -(q * b) /\ q * b \in Int
        BY <1>1, <1>3
      <3>3. QED
        BY <1>3, <3>1, <3>2
    <2>5. CASE negative(dividend) /\ negative(divisor) /\ ~(q < sign)
      <3>1. quot = -q /\ v = -b /\ rest = -r /\ d = -a
        BY Zenon, <1>2, <1>8, <1>9, <2>5
      <3>2. q = a /\ a = sign /\ b = 1 /\ r = 0
        BY <1>1, <1>3, <2>5
      <3>3. dividend = sign
        BY Zenon, <1>2, <2>5, <3>2
      <3>4. rest = 0
        <4>1. r \in Int /\ r <= 0 /\ r >= 0
          BY <3>2
        <4>2. QED
          BY <3>1, <4>1
      <3>5. v = -1 /\ quot = -sign /\ d = -sign
        BY <3>1, <3>2, Zenon
      <3>6. QED
        BY <3>3, <3>4, <3>5, Zenon
    <2>6. QED
      BY Zenon, <2>1, <2>2, <2>3, <2>4, <2>5
  <1>11. quot \in Int /\ v \in Int /\ rest \in Int /\ d \in Int
    <2>1. v \in Int /\ rest \in Int /\ d \in Int
      BY <1>1, <1>2, <1>3, <1>8
    <2>2. quot = q \/ quot = -q
      BY <1>9
    <2>3. QED
      BY <1>3, <2>1, <2>2
  <1>12. (quot * v + rest - d) % WordMod = 0
    <2>1. CASE quot * v + rest = d
      <3>1. quot * v + rest - d = 0
        BY <1>11, <2>1
      <3>2. QED
        BY <1>1, <3>1
    <2>2. CASE v = -1 /\ rest = 0 /\ quot = -sign /\ d = -sign
      <3>1. quot * v + rest - d = WordMod
        BY <1>1, <2>2
      <3>2. QED
        BY <1>1, <3>1
    <2>3. QED
      BY Zenon, <1>10, <2>1, <2>2
  <1>13. Magnitude(rest) = r /\ Magnitude(rest) < Magnitude(v)
    BY <1>1, <1>3, <1>8 DEF Magnitude
  <1>14. rest # 0 => (rest < 0) = (d < 0)
    BY <1>1, <1>2, <1>3, <1>8
  <1>15. ~(dividend = sign /\ v = -1) => quot * v + rest = d
    BY Zenon, <1>10
  <1>16. QED
    BY Zenon, <1>12, <1>13, <1>14, <1>15 DEF d, v, quot, rest

\* DIV, SDIV, MOD and SMOD are exact for every word size: WordSpec implies
\* []DivisionExact.
THEOREM Division == WordSpec => []DivisionExact
  <1>1. WordInv => DivisionExact
    <2> SUFFICES ASSUME WordInv, pc = "done", first # 0
                 PROVE  DivisionExact
      BY DEF DivisionExact
    <2>1. first \in U256 /\ second \in U256
      BY DEF WordInv
    <2>2. ASSUME op = "DIV"
          PROVE  LET rest == op_mod(first, second) IN
                 second = result * first + rest /\ rest < first
      <3>1. result = second \div first
        BY <2>2 DEF WordInv, Computed, op_div
      <3>2. first \in Nat /\ first > 0 /\ second \in Nat
        BY <2>1 DEF U256
      <3>3. QED
        BY <3>1, <3>2, DivideNat DEF op_mod
    <2>3. ASSUME op = "SDIV"
          PROVE  result = op_sdiv(first, second)
      BY <2>3 DEF WordInv, Computed
    <2>4. QED
      BY <2>1, <2>2, <2>3, SignedDivision DEF DivisionExact
  <1>2. QED
    BY <1>1, WordInvariant, PTL

=============================================================================
