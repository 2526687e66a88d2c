---------------------------- MODULE EventStream ----------------------------
(***************************************************************************)
(* What the node promises about the messages it puts on its broadcast      *)
(* channel: pending transactions at any time; logs and heads that carry    *)
(* the number of the block being mined; no log of a block after its head;  *)
(* at most one head for a number, in increasing order.  A block that fails *)
(* leaves its logs without a head.                                         *)
(*                                                                         *)
(* RpcNode implements this specification; Subscriptions is composed with   *)
(* it instead of with the whole node.                                      *)
(***************************************************************************)
EXTENDS Integers

VARIABLES
    event,          \* the latest message
    block,          \* the block being mined, or the last one mined
    head            \* the latest block with a head

vars == <<event, block, head>>

NoEvent == [kind |-> "none", block |-> 0]

PendingTxEvent == [kind |-> "PendingTx", block |-> 0]

LogEvent(n) == [kind |-> "Log", block |-> n]

NewHeadEvent(n) == [kind |-> "NewHead", block |-> n]

Init == event = NoEvent /\ block = 0 /\ head = 0

Begin == block' = block + 1 /\ UNCHANGED <<event, head>>

PublishPending == event' = PendingTxEvent /\ UNCHANGED <<block, head>>

\* The block being mined has no head yet.
Mining == head < block

PublishLog ==
    /\ Mining
    /\ event' = LogEvent(block)
    /\ UNCHANGED <<block, head>>

PublishHead ==
    /\ Mining
    /\ event' = NewHeadEvent(block)
    /\ head' = block
    /\ UNCHANGED block

Next == Begin \/ PublishPending \/ PublishLog \/ PublishHead

Spec == Init /\ [][Next]_vars

=============================================================================
