----------------------------- MODULE WorldStack -----------------------------
(***************************************************************************)
(* What src/state.rs promises its clients: one world (every account, fully *)
(* resolved) and one transient map, with a stack of complete copies of     *)
(* both.  There is no base and no dirty layer: a snapshot is the whole     *)
(* world, and a revert brings exactly that world back.                     *)
(***************************************************************************)
EXTENDS Integers, Sequences

CONSTANTS
    Address,        \* account addresses
    Slot,           \* storage keys
    Account,        \* the values an account can take
    TransientMap,   \* the values transient storage can take
    Worlds,         \* the worlds a fork may be opened on
    EmptyTransient  \* transient storage when a transaction starts

VARIABLES
    world,          \* the account every address resolves to
    transient,      \* the transient storage
    saved           \* the saved worlds, oldest first

vars == <<world, transient, saved>>

Init ==
    /\ world \in Worlds
    /\ transient = EmptyTransient
    /\ saved = << >>

\* new differs from old in the nonce, the balance, the code or one storage slot,
\* and in nothing else.
OneField(old, new) ==
    \/ new = [old EXCEPT !.nonce = new.nonce]
    \/ new = [old EXCEPT !.balance = new.balance]
    \/ new = [old EXCEPT !.code = new.code]
    \/ \E s \in Slot : new = [old EXCEPT !.storage[s] = new.storage[s]]

Write(a, account) ==
    /\ world' = [world EXCEPT ![a] = account]
    /\ OneField(world[a], account)
    /\ UNCHANGED <<transient, saved>>

\* One transient slot is written, or all of them are cleared.
WriteTransient(t) ==
    /\ \/ t = EmptyTransient
       \/ \E k \in DOMAIN transient : t = [transient EXCEPT ![k] = t[k]]
    /\ transient' = t
    /\ UNCHANGED <<world, saved>>

Save ==
    /\ saved' = Append(saved, [world |-> world, transient |-> transient])
    /\ UNCHANGED <<world, transient>>

Restore(i) ==
    /\ world' = saved[i].world
    /\ transient' = saved[i].transient
    /\ saved' = SubSeq(saved, 1, i - 1)

Next ==
    \/ \E a \in Address, account \in Account : Write(a, account)
    \/ \E t \in TransientMap : WriteTransient(t)
    \/ Save
    \/ \E i \in 1..Len(saved) : Restore(i)

Spec == Init /\ [][Next]_vars

=============================================================================
