------------------------------ MODULE StateFork ------------------------------
(***************************************************************************)
(* src/state.rs: the journaled account state.  Reads fall through from     *)
(* dirty_state to base_state to the default account; writes copy the       *)
(* account into dirty_state first (account_for_write); snapshot() saves    *)
(* dirty_state and transient_storage, and never base_state.                *)
(*                                                                         *)
(* A HashMap is a total function here: an address without an entry maps to *)
(* Absent, a storage or transient slot without an entry maps to ZeroWord,  *)
(* which is what every reader of the map sees.                             *)
(***************************************************************************)
EXTENDS Integers, Sequences

CONSTANTS
    Address,        \* account addresses
    Written,        \* the addresses that callers write to
    Slot,           \* storage and transient storage keys
    Word,           \* values of a slot
    ZeroWord,       \* U256::ZERO, the value of an unset slot
    Nonce,          \* account nonces
    NewNonce,       \* the nonces that callers of set_nonce pass
    Balance,        \* account balances
    Code,           \* byte strings an account can hold as code
    EmptyCode,      \* the empty byte string
    Absent,         \* "the map has no entry for this address"
    InitialBase,    \* the base states a fork may be opened on
    MaxSnapshots    \* bound on the number of live snapshots

ASSUME ValueAssumption ==
    /\ Written \subseteq Address
    /\ ZeroWord \in Word
    /\ 0 \in Nonce
    /\ NewNonce \subseteq Nonce
    /\ 0 \in Balance
    /\ EmptyCode \in Code

AccountState ==
    [nonce : Nonce, balance : Balance, code : Code, storage : [Slot -> Word]]

DefaultAccount ==
    [nonce |-> 0, balance |-> 0, code |-> EmptyCode,
     storage |-> [s \in Slot |-> ZeroWord]]

AccountMap == [Address -> AccountState \cup {Absent}]

TransientMap == [Address \X Slot -> Word]

Snapshot ==
    [snapshot_id : Nat, dirty_state : AccountMap,
     transient_storage : TransientMap]

ASSUME BaseAssumption ==
    /\ Absent \notin AccountState
    /\ InitialBase \subseteq AccountMap
    /\ MaxSnapshots \in Nat

VARIABLES
    base_state,
    dirty_state,
    snapshots,
    transient_storage

fork_vars == <<base_state, dirty_state, snapshots, transient_storage>>

NoTransient == [k \in Address \X Slot |-> ZeroWord]

ForkInit ==
    /\ base_state \in InitialBase
    /\ dirty_state = [a \in Address |-> Absent]
    /\ snapshots = << >>
    /\ transient_storage = NoTransient

-----------------------------------------------------------------------------
(* Reads.  They change nothing; they define what a client of the fork sees. *)

\* The account a reader sees when the fork's maps are base and dirty.
AccountIn(base, dirty, a) ==
    IF dirty[a] # Absent THEN dirty[a]
    ELSE IF base[a] # Absent THEN base[a]
    ELSE DefaultAccount

get_account(a) == AccountIn(base_state, dirty_state, a)

\* Variant: a missing entry is made from the default, base_state forgotten.
account_for_write_fresh(a) ==
    IF dirty_state[a] # Absent THEN dirty_state[a] ELSE DefaultAccount

\* account_for_write: the entry of dirty_state a setter updates in place, made
\* from base_state (or the default) when dirty_state has none.
account_for_write(a) ==
    IF dirty_state[a] # Absent THEN dirty_state[a]
    ELSE IF base_state[a] # Absent THEN base_state[a]
    ELSE DefaultAccount

-----------------------------------------------------------------------------
(* Writes. *)

Put(a, account) ==
    /\ dirty_state' = [dirty_state EXCEPT ![a] = account]
    /\ UNCHANGED <<base_state, snapshots, transient_storage>>

set_storage(a, slot, value) ==
    Put(a, [account_for_write(a) EXCEPT !.storage[slot] = value])

set_balance(a, balance) ==
    Put(a, [account_for_write(a) EXCEPT !.balance = balance])

set_code(a, code) ==
    Put(a, [account_for_write(a) EXCEPT !.code = code])

set_nonce(a, nonce) ==
    Put(a, [account_for_write(a) EXCEPT !.nonce = nonce])

tstore(a, key, value) ==
    /\ transient_storage' = [transient_storage EXCEPT ![<<a, key>>] = value]
    /\ UNCHANGED <<base_state, dirty_state, snapshots>>

clear_transient_storage ==
    /\ transient_storage' = NoTransient
    /\ UNCHANGED <<base_state, dirty_state, snapshots>>

-----------------------------------------------------------------------------
(* Snapshots. *)

snapshot ==
    /\ Len(snapshots) < MaxSnapshots
    /\ snapshots' = Append(snapshots,
                           [snapshot_id |-> Len(snapshots),
                            dirty_state |-> dirty_state,
                            transient_storage |-> transient_storage])
    /\ UNCHANGED <<base_state, dirty_state, transient_storage>>

Positions(id) ==
    {p \in 1..Len(snapshots) : snapshots[p].snapshot_id = id}

\* Variant: only the snapshot itself is dropped, the later ones stay.
revert_remove_one(id) ==
    \E position \in Positions(id) :
        /\ \A p \in Positions(id) : position <= p
        /\ dirty_state' = snapshots[position].dirty_state
        /\ transient_storage' = snapshots[position].transient_storage
        /\ snapshots' = SubSeq(snapshots, 1, position - 1)
                          \o SubSeq(snapshots, position + 1, Len(snapshots))
        /\ UNCHANGED base_state

\* Restores the first snapshot whose id matches and drops it with all the later
\* ones; an id that is not on the stack changes nothing.
revert_to_snapshot(id) ==
    \E position \in Positions(id) :
        /\ \A p \in Positions(id) : position <= p
        /\ dirty_state' = snapshots[position].dirty_state
        /\ transient_storage' = snapshots[position].transient_storage
        /\ snapshots' = SubSeq(snapshots, 1, position - 1)
        /\ UNCHANGED base_state

-----------------------------------------------------------------------------
ForkNext ==
    \/ \E a \in Written, slot \in Slot, value \in Word :
           \/ set_storage(a, slot, value)
           \/ tstore(a, slot, value)
    \/ \E a \in Written :
           \/ \E balance \in Balance : set_balance(a, balance)
           \/ \E code \in Code : set_code(a, code)
           \/ \E nonce \in NewNonce : set_nonce(a, nonce)
    \/ clear_transient_storage
    \/ snapshot
    \/ \E id \in 0..MaxSnapshots : revert_to_snapshot(id)

ForkSpec == ForkInit /\ [][ForkNext]_fork_vars

-----------------------------------------------------------------------------
(* Properties. *)

\* Every map of the fork has the shape src/state.rs gives it, whatever sequence
\* of setters, snapshots and reverts ran.
ForkTypeOK ==
    /\ base_state \in AccountMap
    /\ dirty_state \in AccountMap
    /\ snapshots \in Seq(Snapshot)
    /\ transient_storage \in TransientMap

\* snapshot() hands out snapshots.len() as the id, and revert_to_snapshot()
\* looks the id up again after any number of later snapshots and reverts: the
\* id of a live snapshot is always its position, so no id is ever handed out
\* twice and a revert never finds somebody else's snapshot.
SnapshotIdsArePositions ==
    \A p \in 1..Len(snapshots) : snapshots[p].snapshot_id = p - 1

\* The worlds the live snapshots stand for: the saved dirty layer read over the
\* base layer of now, which is not saved.
SavedWorlds ==
    [p \in 1..Len(snapshots) |->
        [world |-> [a \in Address |->
                        AccountIn(base_state, snapshots[p].dirty_state, a)],
         transient |-> snapshots[p].transient_storage]]

Abstract ==
    INSTANCE WorldStack WITH
        Account <- AccountState,
        Worlds <- {[a \in Address |->
                        AccountIn(b, [x \in Address |-> Absent], a)] :
                   b \in InitialBase},
        EmptyTransient <- NoTransient,
        world <- [a \in Address |-> get_account(a)],
        transient <- transient_storage,
        saved <- SavedWorlds

\* The layered fork implements the stack of whole worlds: a setter changes one
\* account of the world a reader sees and nothing else, and a revert restores
\* every account and every transient slot as they were when its snapshot was
\* taken, although only the dirty layer was saved.
RefinesWorldStack == Abstract!Spec

=============================================================================
