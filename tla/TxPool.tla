------------------------------- MODULE TxPool -------------------------------
(***************************************************************************)
(* src/mempool/mod.rs: the pending transactions, by sender and nonce.      *)
(*                                                                         *)
(* by_sender[s] is the set of pending transactions of s.  The code's map   *)
(* holds no empty inner map outside a call (an entry is created by the     *)
(* insert that fills it and removed by the pop that empties it), so an     *)
(* empty set stands for "s has no entry".                                  *)
(*                                                                         *)
(* The module defines the pool's operations as operators on the pool; the  *)
(* node (RpcNode) calls them under the pool's mutex.  pop_executable is    *)
(* given as its loop: which transaction an iteration takes (Best), what    *)
(* the iteration does, and when the loop ends (no Candidates).             *)
(***************************************************************************)
EXTENDS Integers, Sequences

CONSTANTS
    Sender,         \* addresses that sign transactions
    Tx,             \* signed, decoded transactions
    MinTip,         \* TxPool.min_tip
    BlockGasLimit   \* the 30_000_000 mine_block passes to pop_executable

SignedTransaction ==
    [hash : STRING, sender : Sender, nonce : Nat,
     max_priority_fee_per_gas : Nat, gas_limit : Nat,
     value : Nat, max_fee_per_gas : Nat]

ASSUME TxAssumption ==
    /\ Tx \subseteq SignedTransaction
    /\ \A t, u \in Tx : t.hash = u.hash => t = u

ASSUME PoolAssumption ==
    /\ MinTip \in Nat
    /\ BlockGasLimit \in Nat

Pool == [Sender -> SUBSET Tx]

EmptyPool == [s \in Sender |-> {}]

-----------------------------------------------------------------------------

\* insert() accepts t: the tip reaches the minimum and no pending transaction of
\* the sender has its nonce (replacement is refused).
Insertable(pool, t) ==
    /\ t.max_priority_fee_per_gas >= MinTip
    /\ \A u \in pool[t.sender] : u.nonce # t.nonce

Insert(pool, t) == [pool EXCEPT ![t.sender] = @ \cup {t}]

\* senders(): the keys of the map.
senders(pool) == {s \in Sender : pool[s] # {}}

\* The first entry of a sender's BTreeMap: the lowest nonce.
Lowest(pool, s) ==
    {t \in pool[s] : \A u \in pool[s] : t.nonce <= u.nonce}

\* Variant: a nonce above the expected one is taken too.
CandidatesWithGap(pool, active_nonces, gas_used) ==
    {t \in UNION {Lowest(pool, s) : s \in Sender} :
        /\ t.nonce >= active_nonces[t.sender]
        /\ gas_used + t.gas_limit <= BlockGasLimit}

\* What one pass of the loop over the pool considers: the lowest transaction of
\* each sender, if its nonce is the one expected next and it still fits.
Candidates(pool, active_nonces, gas_used) ==
    {t \in UNION {Lowest(pool, s) : s \in Sender} :
        /\ t.nonce = active_nonces[t.sender]
        /\ gas_used + t.gas_limit <= BlockGasLimit}

\* The pass keeps the first candidate with the highest tip in the iteration
\* order of a HashMap: any one of the candidates with the highest tip.
Best(pool, active_nonces, gas_used) ==
    {t \in Candidates(pool, active_nonces, gas_used) :
        \A u \in Candidates(pool, active_nonces, gas_used) :
            u.max_priority_fee_per_gas <= t.max_priority_fee_per_gas}

\* Variant: the sender's entry is removed whether or not it became empty.
RemoveSender(pool, t) == [pool EXCEPT ![t.sender] = {}]

Remove(pool, t) == [pool EXCEPT ![t.sender] = @ \ {t}]

\* pending(): everything in the pool.
pending(pool) == UNION {pool[s] : s \in Sender}

=============================================================================
