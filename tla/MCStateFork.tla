---------------------------- MODULE MCStateFork ----------------------------
(***************************************************************************)
(* Two accounts are written and two are not.  Of the first two, one exists *)
(* in the base state with values that differ from the default account, so  *)
(* that a write that forgets the base copy is visible, and one exists      *)
(* nowhere.  The other two give the trie three or four keys.  The paths of *)
(* the keys are any four of the eight paths of three binary nibbles.       *)
(***************************************************************************)
EXTENDS StateRoot, TLC

CONSTANTS alice, bob, carol, dave, s1

MCAddress == {alice, bob, carol, dave}

MCSlot == {s1}

Holding(nonce, word) ==
    [nonce |-> nonce, balance |-> 0, code |-> EmptyCode,
     storage |-> [s \in MCSlot |-> word]]

MCBase ==
    {(alice :> Holding(1, 1)) @@ (bob :> Absent) @@ (carol :> Holding(0, 1))
     @@ (dave :> Holding(1, 0))}

MCPath == [1..3 -> {0, 15}]

MCKeyPaths ==
    {CHOOSE f \in [MCAddress -> P] : \A p \in P : \E a \in MCAddress : f[a] = p :
        P \in kSubset(4, MCPath)}

MCSlotPath == [s \in MCSlot |-> <<0, 15, 0>>]

=============================================================================
