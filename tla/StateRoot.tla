----------------------------- MODULE StateRoot -----------------------------
(***************************************************************************)
(* src/state.rs, compute_state_root: the trie of the accounts of the fork, *)
(* each with the trie of its storage.  The addresses come out of a HashSet *)
(* and the slots out of a HashMap, in an order that differs from one       *)
(* process to the next, so the order is a parameter of every operator.     *)
(*                                                                         *)
(* Keccak is a black box that gives different keys different paths; the    *)
(* hash of a trie is stood for by the trie, the hash of a code by the code *)
(* and the encoding of an account by the account.                          *)
(*                                                                         *)
(* StateFork does not tell a slot without an entry from one that holds     *)
(* zero; the trie does.  zeros is the set of slots that hold a zero entry, *)
(* and the properties are stated for every such set.                       *)
(***************************************************************************)
EXTENDS StateFork, Trie

CONSTANTS
    KeyPaths,       \* the paths that hashing may give the addresses
    SlotPath        \* the path of every storage slot

ASSUME PathAssumption ==
    /\ \A path \in KeyPaths :
          /\ path \in [Address -> Seq(Nibble)]
          /\ \A a, b \in Address : a # b => path[a] # path[b]
    /\ \A s, t \in Slot : s # t => SlotPath[s] # SlotPath[t]

\* The big-endian bytes of a value without the leading zeros: none for zero.
Trimmed(value) == IF value = ZeroWord THEN << >> ELSE <<value>>

storage_trie(account, slots) ==
    InsertAll([i \in DOMAIN slots |->
                  <<SlotPath[slots[i]], Trimmed(account.storage[slots[i]])>>])

StateAccount(account, slots) ==
    [nonce |-> account.nonce,
     balance |-> account.balance,
     storage_root |-> storage_trie(account, slots),
     code_hash |-> account.code]

Known == {a \in Address : base_state[a] # Absent \/ dirty_state[a] # Absent}

\* The slots account a has an entry for.
Entries(a, zeros) ==
    {s \in Slot : get_account(a).storage[s] # ZeroWord \/ <<a, s>> \in zeros}

\* addresses and slots[a] are the iteration orders of the set of addresses and of
\* the storage map of a.
compute_state_root(path, addresses, slots) ==
    InsertAll([i \in DOMAIN addresses |->
                  LET a == addresses[i]
                  IN  <<path[a], StateAccount(get_account(a), slots[a])>>])

\* The orders in which the storage entries of every account may come out.
SlotOrders(zeros) ==
    LET all == [a \in Known |-> SetToSeqs(Entries(a, zeros))]
    IN  {f \in [Known -> UNION Range(all)] : \A a \in Known : f[a] \in all[a]}

-----------------------------------------------------------------------------
(* The root depends on the accounts and not on transient storage or on the   *)
(* snapshots, so the properties look at one state for every set of accounts. *)
AtRest == snapshots = << >> /\ transient_storage = NoTransient

Zeros ==
    SUBSET {k \in Known \X Slot : get_account(k[1]).storage[k[2]] = ZeroWord}

\* compute_state_root walks two hash maps: whatever order they come out in and
\* wherever the hashed keys meet and part in the trie, the trie is the one that
\* the accounts alone determine, so every process computes the same root for the
\* same accounts.
RootIgnoresOrder ==
    AtRest =>
      \A path \in KeyPaths, zeros \in Zeros :
        \A addresses \in SetToSeqs(Known), slots \in SlotOrders(zeros) :
            compute_state_root(path, addresses, slots) =
                TrieOf([p \in {path[a] : a \in Known} |->
                    LET a == CHOOSE a \in Known : path[a] = p
                    IN  [nonce |-> get_account(a).nonce,
                         balance |-> get_account(a).balance,
                         storage_root |->
                             TrieOf([q \in {SlotPath[s] : s \in Entries(a, zeros)} |->
                                 LET s == CHOOSE s \in Slot : SlotPath[s] = q
                                 IN  Trimmed(get_account(a).storage[s])]),
                         code_hash |-> get_account(a).code]])

\* The trie that compute_state_root builds by splitting leaves and extensions has
\* lost no account: get finds every account of the fork under its key, finds
\* nothing for an address the fork does not know, and no key path changes when it
\* is packed into bytes for the hash.
TrieHoldsAccounts ==
    AtRest =>
      \A path \in KeyPaths, addresses \in SetToSeqs(Known), slots \in SlotOrders({}) :
        LET trie == compute_state_root(path, addresses, slots)
        IN  /\ \A a \in Address :
                  get_node(trie, path[a]) =
                      IF a \in Known THEN StateAccount(get_account(a), slots[a])
                      ELSE None
            /\ PathsDecode(trie)

=============================================================================
