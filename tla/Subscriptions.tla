--------------------------- MODULE Subscriptions ---------------------------
(***************************************************************************)
(* src/rpc/server.rs (handle_ws) and src/rpc/types.rs: one task per        *)
(* WebSocket, with a receiver of the node's broadcast channel, a map of    *)
(* subscriptions, and a socket that may be slow.                           *)
(*                                                                         *)
(* The channel is the sequence of everything sent so far, of which the     *)
(* last Capacity messages are still there; a receiver is a position in it. *)
(* The task works on one message at a time: a request of the client, or    *)
(* an event, which it sends to every subscription it matches, awaiting the *)
(* socket after each.  A socket that is not ready delays the task, not the *)
(* node, which goes on publishing.                                         *)
(*                                                                         *)
(* The node's side is EventStream, with the contents of the logs added.    *)
(***************************************************************************)
EXTENDS Integers, Sequences, FiniteSets, Functions

CONSTANTS
    Connection,     \* the WebSockets that may be opened
    Capacity,       \* of the broadcast channel: 1024
    Content,        \* what a log can hold: an address and topics
    Filter,         \* the log filters clients give
    NotGiven,       \* None: no addresses, no topics, no topic at a position
    MaxPending,     \* bound on the number of pending transactions announced
    MaxEvents,      \* bound on the number of messages published
    MaxBlocks,      \* bound on the number of blocks
    MaxSubs         \* bound on the number of subscriptions

ASSUME SubscriptionsAssumption ==
    /\ Capacity \in Nat \ {0}
    /\ MaxPending \in Nat
    /\ MaxEvents \in Nat
    /\ MaxBlocks \in Nat
    /\ MaxSubs \in Nat

VARIABLES
    (* the node *)
    events,         \* everything sent on the channel
    block,
    head,
    SUB_COUNTER,
    (* the tasks *)
    status,         \* of a connection: "none", "open", "closed"
    next,           \* the position its receiver reads next
    subs,           \* its subscriptions: a function from ids to kinds
    todo,           \* the subscriptions still to be sent the event before next
    (* history, of open connections and subscriptions in place *)
    since,          \* position from which a subscription has been in place
    notified,       \* positions a subscription has been sent, in order
    missed          \* positions a connection's receiver has passed over

node_vars == <<events, block, head>>
history == <<since, notified, missed>>
vars == <<node_vars, SUB_COUNTER, status, next, subs, todo, history>>

Id == 1..MaxSubs

NoSubs == [i \in {} |-> 0]

\* LogFilter::default
DefaultFilter == [address |-> NotGiven, topics |-> NotGiven]

\* SubscriptionKind, as eth_subscribe builds it: the filter of a request for logs
\* that gives none, or one that does not deserialize, is the default.
Kind ==
    {[name |-> n, filter |-> DefaultFilter] : n \in {"newHeads", "pendingTransactions"}}
    \cup {[name |-> "logs", filter |-> f] : f \in Filter \cup {DefaultFilter}}

Init ==
    /\ events = <<>>
    /\ block = 0
    /\ head = 0
    /\ SUB_COUNTER = 1
    /\ status = [c \in Connection |-> "none"]
    /\ next = [c \in Connection |-> 1]
    /\ subs = [c \in Connection |-> NoSubs]
    /\ todo = [c \in Connection |-> {}]
    /\ since = [i \in Id |-> 0]
    /\ notified = [i \in Id |-> <<>>]
    /\ missed = [c \in Connection |-> {}]

-----------------------------------------------------------------------------
(* The node. *)

Send(message) ==
    /\ Len(events) < MaxEvents
    /\ events' = Append(events, message)
    /\ UNCHANGED <<SUB_COUNTER, status, next, subs, todo, history>>

BeginBlock ==
    /\ block < MaxBlocks
    /\ block' = block + 1
    /\ UNCHANGED <<events, head, SUB_COUNTER, status, next, subs, todo, history>>

PublishPending ==
    /\ Cardinality({p \in DOMAIN events : events[p].kind = "PendingTx"}) < MaxPending
    /\ Send([kind |-> "PendingTx", block |-> 0])
    /\ UNCHANGED <<block, head>>

\* Variant: a log may follow the head of its block.
PublishLogLate(content) ==
    /\ 0 < block
    /\ Send([kind |-> "Log", block |-> block, content |-> content])
    /\ UNCHANGED <<block, head>>

PublishLog(content) ==
    /\ head < block
    /\ Send([kind |-> "Log", block |-> block, content |-> content])
    /\ UNCHANGED <<block, head>>

PublishHead ==
    /\ head < block
    /\ Send([kind |-> "NewHead", block |-> block])
    /\ head' = block
    /\ UNCHANGED block

-----------------------------------------------------------------------------
(* Which events a subscription is for. *)

\* LogFilter::matches.  Addresses and topics are compared without regard to case:
\* spellings of the same bytes are one value here.
matches(filter, log) ==
    /\ filter.address # NotGiven => log.address \in filter.address
    /\ filter.topics # NotGiven =>
          \A i \in DOMAIN filter.topics :
              filter.topics[i] # NotGiven =>
                  i \in DOMAIN log.topics /\ log.topics[i] \in filter.topics[i]

\* The match of kind and event in handle_ws.
IsFor(kind, e) ==
    \/ kind.name = "newHeads" /\ e.kind = "NewHead"
    \/ kind.name = "pendingTransactions" /\ e.kind = "PendingTx"
    \/ kind.name = "logs" /\ e.kind = "Log" /\ matches(kind.filter, e.content)

-----------------------------------------------------------------------------
(* The task of a connection. *)

\* ws_upgrade: the receiver starts at the end of the channel.
Connect(c) ==
    /\ status[c] = "none"
    /\ status' = [status EXCEPT ![c] = "open"]
    /\ next' = [next EXCEPT ![c] = Len(events) + 1]
    /\ UNCHANGED <<node_vars, SUB_COUNTER, subs, todo, history>>

\* The task is at its select!, waiting for the client and for the channel.
Selecting(c) == status[c] = "open" /\ todo[c] = {}

\* eth_subscribe.  An unsupported kind changes nothing.
eth_subscribe(c, kind) ==
    /\ Selecting(c)
    /\ SUB_COUNTER <= MaxSubs
    /\ SUB_COUNTER' = SUB_COUNTER + 1
    /\ subs' = [subs EXCEPT ![c] =
          [i \in DOMAIN @ \cup {SUB_COUNTER} |->
              IF i = SUB_COUNTER THEN kind ELSE @[i]]]
    /\ since' = [since EXCEPT ![SUB_COUNTER] = next[c]]
    /\ UNCHANGED <<node_vars, status, next, todo, notified, missed>>

Forget(ids) ==
    /\ since' = [i \in Id |-> IF i \in ids THEN 0 ELSE since[i]]
    /\ notified' = [i \in Id |-> IF i \in ids THEN <<>> ELSE notified[i]]

\* eth_unsubscribe, for any id the client may name: another connection's is not
\* found.
eth_unsubscribe(c, id) ==
    /\ Selecting(c)
    /\ id \in DOMAIN subs[c]
    /\ subs' = [subs EXCEPT ![c] = [i \in DOMAIN @ \ {id} |-> @[i]]]
    /\ Forget({id})
    /\ UNCHANGED <<node_vars, SUB_COUNTER, status, next, todo, missed>>

\* The first position that is still in the channel.
Oldest == IF Len(events) > Capacity THEN Len(events) - Capacity + 1 ELSE 1

\* Variant: the next event is taken while the last one is still being sent.
ReceiveEarly(c) ==
    /\ status[c] = "open"
    /\ next[c] \in Oldest..Len(events)
    /\ next' = [next EXCEPT ![c] = @ + 1]
    /\ todo' = [todo EXCEPT ![c] =
          {i \in DOMAIN subs[c] : IsFor(subs[c][i], events[next[c]])}]
    /\ UNCHANGED <<node_vars, SUB_COUNTER, status, subs, history>>

\* recv() returns the next event.
Receive(c) ==
    /\ Selecting(c)
    /\ next[c] \in Oldest..Len(events)
    /\ next' = [next EXCEPT ![c] = @ + 1]
    /\ todo' = [todo EXCEPT ![c] =
          {i \in DOMAIN subs[c] : IsFor(subs[c][i], events[next[c]])}]
    /\ UNCHANGED <<node_vars, SUB_COUNTER, status, subs, history>>

\* Variant: the receiver stays where it is.
ReceiveLaggedInPlace(c) ==
    /\ Selecting(c)
    /\ next[c] < Oldest
    /\ missed' = [missed EXCEPT ![c] = @ \cup next[c]..Oldest - 1]
    /\ UNCHANGED <<node_vars, SUB_COUNTER, status, next, subs, todo, since, notified>>

\* recv() returns Lagged, and the receiver moves to the oldest message there is;
\* the task goes on without telling the client.
ReceiveLagged(c) ==
    /\ Selecting(c)
    /\ next[c] < Oldest
    /\ next' = [next EXCEPT ![c] = Oldest]
    /\ missed' = [missed EXCEPT ![c] = @ \cup next[c]..Oldest - 1]
    /\ UNCHANGED <<node_vars, SUB_COUNTER, status, subs, todo, since, notified>>

\* Variant: the notification is sent once more.
NotifyAgain(c, id) ==
    /\ status[c] = "open"
    /\ id \in todo[c]
    /\ todo' = [todo EXCEPT ![c] = @ \ {id}]
    /\ notified' = [notified EXCEPT ![id] = @ \o <<next[c] - 1, next[c] - 1>>]
    /\ UNCHANGED <<node_vars, SUB_COUNTER, status, next, subs, since, missed>>

\* One iteration of the loop over the subscriptions, in the iteration order of a
\* HashMap: the socket takes the notification.
Notify(c, id) ==
    /\ status[c] = "open"
    /\ id \in todo[c]
    /\ todo' = [todo EXCEPT ![c] = @ \ {id}]
    /\ notified' = [notified EXCEPT ![id] = Append(@, next[c] - 1)]
    /\ UNCHANGED <<node_vars, SUB_COUNTER, status, next, subs, since, missed>>

\* The client closes the socket or sends anything but text, or a send fails: the
\* task ends, whatever it had still to send, and its subscriptions with it.
Close(c) ==
    /\ status[c] = "open"
    /\ status' = [status EXCEPT ![c] = "closed"]
    /\ subs' = [subs EXCEPT ![c] = NoSubs]
    /\ todo' = [todo EXCEPT ![c] = {}]
    /\ next' = [next EXCEPT ![c] = 1]
    /\ missed' = [missed EXCEPT ![c] = {}]
    /\ Forget(DOMAIN subs[c])
    /\ UNCHANGED <<node_vars, SUB_COUNTER>>

-----------------------------------------------------------------------------

Publish ==
    \/ BeginBlock
    \/ PublishPending
    \/ \E content \in Content : PublishLog(content)
    \/ PublishHead

Deliver(c) == Receive(c) \/ ReceiveLagged(c) \/ \E id \in Id : Notify(c, id)

\* What a connection's task, or its client, does.
Task(c) ==
    \/ Connect(c)
    \/ \E kind \in Kind : eth_subscribe(c, kind)
    \/ \E id \in Id : eth_unsubscribe(c, id)
    \/ Deliver(c)
    \/ Close(c)

Next == Publish \/ \E c \in Connection : Task(c)

Spec == Init /\ [][Next]_vars

\* The runtime polls the task, select! prefers neither of its branches for ever,
\* and the client reads its socket.
FairSpec == Spec /\ \A c \in Connection : WF_vars(Deliver(c))

-----------------------------------------------------------------------------
(* Properties. *)

\* A subscription's notifications follow the order in which the node sent the
\* events, and none is repeated: the receiver passes every position once, and the
\* task is done with an event before it takes the next.
NotificationsInOrder ==
    \A id \in Id : \A i, j \in DOMAIN notified[id] :
        i < j => notified[id][i] < notified[id][j]

\* What a subscription in place has been sent is exactly what it asked for among the
\* events its connection has passed since eth_subscribe, less the one being sent and
\* those the connection missed; and it misses an event only when Capacity newer ones
\* were sent before it got there (Lagged).  Events that were waiting in the receiver
\* when the client subscribed are included.
DeliveredExactly ==
    \A c \in Connection :
        /\ \A id \in DOMAIN subs[c] :
              Range(notified[id]) =
                  {p \in since[id]..next[c] - 1 :
                      /\ IsFor(subs[c][id], events[p])
                      /\ p \notin missed[c]
                      /\ ~(p = next[c] - 1 /\ id \in todo[c])}
        /\ \A p \in missed[c] : p + Capacity <= Len(events)

\* For a client with both subscriptions, a head closes its block: once it has been
\* sent, no log of that block or an earlier one is still to come, except those its
\* connection missed.  This takes the order in which the node publishes (all of a
\* block's logs, then its head) and the order in which the task delivers.
HeadClosesItsBlock ==
    \A c \in Connection : \A h, l \in DOMAIN subs[c] :
        subs[c][h].name = "newHeads" /\ subs[c][l].name = "logs" =>
            \A p \in Range(notified[h]) : \A q \in since[l]..Len(events) :
                /\ IsFor(subs[c][l], events[q])
                /\ events[q].block <= events[p].block
                /\ q \notin missed[c]
                => q \in Range(notified[l])

\* Every event sent while a connection is open is dealt with in the end: sent to all
\* it is for, or overwritten; unless the connection closes first.
EveryEventHandled ==
    \A c \in Connection : \A p \in 1..MaxEvents :
        status[c] = "open" /\ p <= Len(events)
            ~> status[c] = "closed" \/ p < next[c] - 1 \/ (p = next[c] - 1 /\ todo[c] = {})

=============================================================================
