---------------------------- MODULE MCCallFrames ----------------------------
(***************************************************************************)
(* Two contracts, a and lib, and an address n that a can deploy to.        *)
(***************************************************************************)
EXTENDS CallFrames, TLC

CONSTANTS a, lib, n

MCContract(balance) == [nonce |-> 1, balance |-> balance, code |-> TRUE, storage |-> NoMap]

MCGenesis == (a :> MCContract(1)) @@ (lib :> MCContract(0))

MCTopBalances == {NoMap, a :> 1}

MCEmptyBalances == {NoMap}

MCNewAddresses(creator, nonce) == IF creator = a THEN {n} ELSE {}

=============================================================================
