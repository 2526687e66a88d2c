-------------------------- MODULE MCSubscriptions --------------------------
(***************************************************************************)
(* A channel of two messages, and two log subscriptions: to all logs, and  *)
(* with a filter that wants a second topic, which no log here has.         *)
(***************************************************************************)
EXTENDS Subscriptions

CONSTANTS token, transfer

MCContent == {[address |-> token, topics |-> <<transfer>>]}

MCFilter == {[address |-> {token}, topics |-> <<NotGiven, {transfer}>>]}

=============================================================================
