----------------------------- MODULE MCRpcNode -----------------------------
(***************************************************************************)
(* Alice starts with nonce 0 and has two transactions, Bob starts with     *)
(* nonce 3 and has one, whose value and fee together wrap to zero.  Every  *)
(* transaction can use one unit of gas, at one unit of balance, and a      *)
(* block takes two of them.  Any request may send any transaction, mine,   *)
(* or ask for a block.                                                     *)
(***************************************************************************)
EXTENDS RpcNode, TLC

TxOf(h, s, n, tip, v) ==
    [hash |-> h, sender |-> s, nonce |-> n, max_priority_fee_per_gas |-> tip,
     gas_limit |-> 1, value |-> v, max_fee_per_gas |-> 1]

A0 == TxOf("a0", "alice", 0, 1, 0)
A1 == TxOf("a1", "alice", 1, 2, 0)
B3 == TxOf("b3", "bob", 3, 1, WordMod - 1)

MCSender == {"alice", "bob"}
MCInitNonce == [s \in MCSender |-> IF s = "bob" THEN 3 ELSE 0]
MCInitBalance == [s \in MCSender |-> 1]
MCAmpleBalance == [s \in MCSender |-> 2]

MCTx == {A0, A1, B3}
MCSends == [r \in Request |-> MCTx]
MCMiners == Request
MCReaders == Request
MCHangUps == Request
\* One request per transaction, as a well-behaved wallet sends them.
MCOnePerRequest ==
    [r \in Request |-> CASE r = "r1" -> {A0} [] r = "r2" -> {A1} [] OTHER -> {B3}]

Symmetry == Permutations(Request)

=============================================================================
