------------------------ MODULE SubscriptionsProofs ------------------------
(***************************************************************************)
(* What Subscriptions promises, for every number of connections, every     *)
(* capacity of the channel and every set of filters.  First the invariant  *)
(* and what the steps do; then delivery; then the parts of the invariant   *)
(* that are about one side only: the node's stream, ids, the receivers'    *)
(* positions.                                                              *)
(***************************************************************************)
EXTENDS Subscriptions, TLAPS

\* The time a prover has for a leaf.
USE SMTT(30)

Message ==
    [kind : {"PendingTx"}, block : {0}]
    \cup [kind : {"Log"}, block : Nat, content : Content]
    \cup [kind : {"NewHead"}, block : Nat]

\* Types, but for the subscriptions.
TypeInv ==
    /\ events \in Seq(Message)
    /\ block \in Nat
    /\ head \in Nat
    /\ SUB_COUNTER \in Nat \ {0}
    /\ status \in [Connection -> {"none", "open", "closed"}]
    /\ next \in [Connection -> Nat \ {0}]
    /\ DOMAIN subs = Connection
    /\ todo \in [Connection -> SUBSET Id]
    /\ since \in [Id -> Nat]
    /\ notified \in [Id -> Seq(Nat)]
    /\ missed \in [Connection -> SUBSET Nat]

\* An id belongs to one connection, and ids to come to none.
IdInv ==
    /\ \A c \in Connection :
          /\ DOMAIN subs[c] \subseteq {i \in Id : i < SUB_COUNTER}
          /\ todo[c] \subseteq DOMAIN subs[c]
          /\ status[c] # "open" => DOMAIN subs[c] = {}
    /\ \A c, d \in Connection : c # d => DOMAIN subs[c] \cap DOMAIN subs[d] = {}
    /\ \A i \in Id : (\A c \in Connection : i \notin DOMAIN subs[c]) => notified[i] = <<>>

\* A receiver is never ahead of the channel, and has passed what it missed.
CursorInv ==
    \A c \in Connection :
        /\ next[c] <= Len(events) + 1
        /\ \A p \in missed[c] : p < next[c] /\ p + Capacity <= Len(events)
        /\ todo[c] # {} => next[c] > 1
        /\ \A i \in DOMAIN subs[c] : since[i] \in 1..next[c]

\* The node's side of the module, as EventStream sees it.
Latest ==
    IF events = <<>> THEN [kind |-> "none", block |-> 0]
    ELSE [kind |-> events[Len(events)].kind, block |-> events[Len(events)].block]

Node == INSTANCE EventStream WITH event <- Latest

\* The stream of the node, on positions.
StreamInv ==
    /\ head <= block
    /\ \A p \in DOMAIN events :
          events[p].block <= (IF events[p].kind = "NewHead" THEN head ELSE block)
    /\ \A p, q \in DOMAIN events :
          /\ events[p].kind = "NewHead"
          /\ events[q].kind = "Log"
          /\ events[q].block <= events[p].block
          => q < p

\* What a task still has to send is for the subscription it is to be sent to.
TodoInv ==
    \A c \in Connection : \A id \in todo[c] :
        /\ next[c] - 1 \in since[id]..next[c] - 1
        /\ next[c] - 1 \notin missed[c]
        /\ IsFor(subs[c][id], events[next[c] - 1])

IInv ==
    /\ TypeInv
    /\ IdInv
    /\ CursorInv
    /\ StreamInv
    /\ TodoInv
    /\ NotificationsInOrder
    /\ DeliveredExactly

-----------------------------------------------------------------------------

\* The invariant holds when the node starts: nothing is sent and nobody connected.
LEMMA InitIInv == Init => IInv
  <1> SUFFICES ASSUME Init PROVE IInv
    OBVIOUS
  <1> USE SubscriptionsAssumption DEF Init, NoSubs
  <1>1. TypeInv
    BY DEF TypeInv
  <1>2. IdInv
    BY DEF IdInv
  <1>3. CursorInv
    BY DEF CursorInv
  <1>4. StreamInv
    BY DEF StreamInv
  <1>5. NotificationsInOrder /\ TodoInv
    BY DEF NotificationsInOrder, TodoInv
  <1>6. DeliveredExactly
    BY DEF DeliveredExactly
  <1>7. QED
    BY <1>1, <1>2, <1>3, <1>4, <1>5, <1>6 DEF IInv

\* A step of the node leaves the tasks alone.
NodeStep ==
    /\ BeginBlock \/ PublishPending \/ PublishHead \/ \E content \in Content : PublishLog(content)
    /\ UNCHANGED <<SUB_COUNTER, status, next, subs, todo, since, notified, missed>>
    /\ \/ UNCHANGED events
       \/ \E m \in Message : events' = Append(events, m)

\* What a step can be.
LEMMA StepCases ==
    ASSUME TypeInv, [Next]_vars
    PROVE  \/ NodeStep
           \/ \E c \in Connection :
                 \/ Connect(c)
                 \/ \E kind \in Kind : eth_subscribe(c, kind)
                 \/ \E id \in Id : eth_unsubscribe(c, id)
                 \/ Receive(c) \/ ReceiveLagged(c) \/ Close(c)
                 \/ \E id \in Id : Notify(c, id)
           \/ UNCHANGED vars
  <1>1. CASE BeginBlock
    BY <1>1 DEF BeginBlock, NodeStep, history
  <1>2. CASE PublishPending
    BY <1>2 DEF PublishPending, NodeStep, history, Send, Message
  <1>3. CASE PublishHead
    <2>1. /\ events' = Append(events, [kind |-> "NewHead", block |-> block])
          /\ UNCHANGED <<SUB_COUNTER, status, next, subs, todo, since, notified, missed>>
      BY <1>3 DEF PublishHead, Send, history
    <2>2. [kind |-> "NewHead", block |-> block] \in Message
      BY DEF Message, TypeInv
    <2>3. QED
      BY <1>3, <2>1, <2>2 DEF NodeStep
  <1>4. ASSUME NEW content \in Content, PublishLog(content)
        PROVE  NodeStep
    <2>1. /\ events' = Append(events, [kind |-> "Log", block |-> block, content |-> content])
          /\ UNCHANGED <<SUB_COUNTER, status, next, subs, todo, since, notified, missed>>
      BY <1>4 DEF PublishLog, Send, history
    <2>2. [kind |-> "Log", block |-> block, content |-> content] \in Message
      BY DEF Message, TypeInv
    <2>3. QED
      BY <1>4, <2>1, <2>2 DEF NodeStep
  <1>5. QED
    BY <1>1, <1>2, <1>3, <1>4 DEF Next, Publish, Task, Deliver

\* A step of a task leaves the node alone.
LEMMA TaskStep ==
    ASSUME NEW c \in Connection,
           \/ Connect(c) \/ Receive(c) \/ ReceiveLagged(c) \/ Close(c)
           \/ \E kind \in Kind : eth_subscribe(c, kind)
           \/ \E id \in Id : eth_unsubscribe(c, id)
           \/ \E id \in Id : Notify(c, id)
    PROVE  UNCHANGED <<events, block, head>>
  <1> USE DEF node_vars
  <1>1. ASSUME Connect(c) \/ Receive(c) \/ ReceiveLagged(c) \/ Close(c)
        PROVE  UNCHANGED <<events, block, head>>
    BY <1>1, Zenon DEF Connect, Receive, ReceiveLagged, Close
  <1>2. ASSUME NEW kind \in Kind, eth_subscribe(c, kind)
        PROVE  UNCHANGED <<events, block, head>>
    BY <1>2, Zenon DEF eth_subscribe
  <1>3. ASSUME NEW id \in Id, eth_unsubscribe(c, id) \/ Notify(c, id)
        PROVE  UNCHANGED <<events, block, head>>
    BY <1>3, Zenon DEF eth_unsubscribe, Notify
  <1>4. QED
    BY <1>1, <1>2, <1>3, Zenon

\* A new subscription has an id that no connection holds.
LEMMA SubscribeEffect ==
    ASSUME TypeInv, IdInv, NEW c \in Connection, NEW kind \in Kind,
           eth_subscribe(c, kind)
    PROVE  /\ SUB_COUNTER \in Id
           /\ \A d \in Connection : SUB_COUNTER \notin DOMAIN subs[d]
           /\ SUB_COUNTER' = SUB_COUNTER + 1
           /\ DOMAIN subs' = Connection
           /\ DOMAIN subs'[c] = DOMAIN subs[c] \cup {SUB_COUNTER}
           /\ subs'[c][SUB_COUNTER] = kind
           /\ \A i \in DOMAIN subs[c] : subs'[c][i] = subs[c][i]
           /\ \A d \in Connection \ {c} : subs'[d] = subs[d]
           /\ since' = [since EXCEPT ![SUB_COUNTER] = next[c]]
           /\ UNCHANGED <<events, block, head, status, next, todo, notified, missed>>
  <1>1. /\ SUB_COUNTER \in Nat \ {0}
        /\ SUB_COUNTER <= MaxSubs
        /\ SUB_COUNTER' = SUB_COUNTER + 1
        /\ since' = [since EXCEPT ![SUB_COUNTER] = next[c]]
        /\ UNCHANGED <<events, block, head, status, next, todo, notified, missed>>
    BY DEF eth_subscribe, node_vars, TypeInv
  <1>2. SUB_COUNTER \in Id
    BY <1>1, SubscriptionsAssumption DEF Id
  <1>3. \A d \in Connection : SUB_COUNTER \notin DOMAIN subs[d]
    BY <1>1 DEF IdInv
  <1> DEFINE new == [i \in DOMAIN subs[c] \cup {SUB_COUNTER} |->
                        IF i = SUB_COUNTER THEN kind ELSE subs[c][i]]
  <1>4. subs' = [subs EXCEPT ![c] = new] /\ DOMAIN subs = Connection
    BY DEF eth_subscribe, TypeInv
  <1>5. /\ DOMAIN new = DOMAIN subs[c] \cup {SUB_COUNTER}
        /\ new[SUB_COUNTER] = kind
        /\ \A i \in DOMAIN subs[c] : new[i] = subs[c][i]
    BY <1>3
  <1> HIDE DEF new
  <1>6. QED
    BY <1>1, <1>2, <1>3, <1>4, <1>5

\* What eth_unsubscribe and Close take away.
LEMMA RemoveEffect ==
    ASSUME TypeInv, NEW c \in Connection,
           (\E id \in Id : eth_unsubscribe(c, id)) \/ Close(c)
    PROVE  /\ DOMAIN subs' = Connection
           /\ DOMAIN subs'[c] \subseteq DOMAIN subs[c]
           /\ \A i \in DOMAIN subs'[c] : subs'[c][i] = subs[c][i]
           /\ \A d \in Connection \ {c} : subs'[d] = subs[d]
           /\ \A i \in Id :
                 IF i \in DOMAIN subs[c] \ DOMAIN subs'[c]
                   THEN since'[i] = 0 /\ notified'[i] = <<>>
                   ELSE since'[i] = since[i] /\ notified'[i] = notified[i]
           /\ since' \in [Id -> Nat] /\ notified' \in [Id -> Seq(Nat)]
           /\ todo' = [todo EXCEPT ![c] = {}]
           /\ UNCHANGED <<events, block, head, SUB_COUNTER>>
  <1>1. ASSUME NEW id \in Id, eth_unsubscribe(c, id)
        PROVE  /\ subs' = [subs EXCEPT ![c] = [i \in DOMAIN subs[c] \ {id} |-> subs[c][i]]]
               /\ id \in DOMAIN subs[c]
               /\ Forget({id})
               /\ todo' = [todo EXCEPT ![c] = {}]
               /\ UNCHANGED <<events, block, head, SUB_COUNTER>>
    BY <1>1 DEF eth_unsubscribe, Selecting, TypeInv, node_vars
  <1>2. CASE Close(c)
    <2>1. /\ subs' = [subs EXCEPT ![c] = NoSubs]
          /\ Forget(DOMAIN subs[c])
          /\ todo' = [todo EXCEPT ![c] = {}]
          /\ UNCHANGED <<events, block, head, SUB_COUNTER>>
      BY <1>2 DEF Close, node_vars
    <2>2. DOMAIN NoSubs = {}
      BY DEF NoSubs
    <2>3. DOMAIN subs' = Connection /\ DOMAIN subs'[c] = {}
      BY <2>1, <2>2 DEF TypeInv
    <2>4. QED
      BY <2>1, <2>3 DEF Forget, TypeInv
  <1>3. ASSUME NEW id \in Id, eth_unsubscribe(c, id)
        PROVE  /\ DOMAIN subs' = Connection
               /\ DOMAIN subs'[c] = DOMAIN subs[c] \ {id}
               /\ id \in DOMAIN subs[c]
               /\ \A i \in DOMAIN subs'[c] : subs'[c][i] = subs[c][i]
               /\ \A d \in Connection \ {c} : subs'[d] = subs[d]
    <2> DEFINE kept == [i \in DOMAIN subs[c] \ {id} |-> subs[c][i]]
    <2>1. subs' = [subs EXCEPT ![c] = kept] /\ DOMAIN subs = Connection /\ id \in DOMAIN subs[c]
      BY <1>1, <1>3, Zenon DEF TypeInv
    <2>2. DOMAIN kept = DOMAIN subs[c] \ {id} /\ \A i \in DOMAIN kept : kept[i] = subs[c][i]
      OBVIOUS
    <2> HIDE DEF kept
    <2>3. QED
      BY <2>1, <2>2
  <1>4. ASSUME NEW id \in Id, eth_unsubscribe(c, id)
        PROVE  /\ \A i \in Id :
                     IF i = id
                       THEN since'[i] = 0 /\ notified'[i] = <<>>
                       ELSE since'[i] = since[i] /\ notified'[i] = notified[i]
               /\ since' \in [Id -> Nat] /\ notified' \in [Id -> Seq(Nat)]
    <2>1. Forget({id})
      BY <1>1, <1>4, Zenon
    <2>2. \A i \in Id : since[i] \in Nat /\ notified[i] \in Seq(Nat)
      BY DEF TypeInv
    <2>3. since' \in [Id -> Nat] /\ notified' \in [Id -> Seq(Nat)]
      BY <2>1, <2>2 DEF Forget
    <2>4. \A i \in Id :
              IF i = id
                THEN since'[i] = 0 /\ notified'[i] = <<>>
                ELSE since'[i] = since[i] /\ notified'[i] = notified[i]
      BY <2>1 DEF Forget
    <2>5. QED
      BY <2>3, <2>4
  <1>5. ASSUME NEW id \in Id, eth_unsubscribe(c, id)
        PROVE  \A i : i \in DOMAIN subs[c] \ DOMAIN subs'[c] <=> i = id
    BY <1>3, <1>5
  <1>6. ASSUME NEW id \in Id, eth_unsubscribe(c, id)
        PROVE  \A i \in Id :
                 IF i \in DOMAIN subs[c] \ DOMAIN subs'[c]
                   THEN since'[i] = 0 /\ notified'[i] = <<>>
                   ELSE since'[i] = since[i] /\ notified'[i] = notified[i]
    <2>1. \A i \in Id :
             IF i = id
               THEN since'[i] = 0 /\ notified'[i] = <<>>
               ELSE since'[i] = since[i] /\ notified'[i] = notified[i]
      BY <1>4, <1>6
    <2>2. \A i : i \in DOMAIN subs[c] \ DOMAIN subs'[c] <=> i = id
      BY <1>5, <1>6, Zenon
    <2>3. QED
      BY <2>1, <2>2
  <1>7. ASSUME NEW id \in Id, eth_unsubscribe(c, id)
        PROVE  DOMAIN subs'[c] \subseteq DOMAIN subs[c]
    BY <1>3, <1>7, Zenon
  <1>8. QED
    BY <1>1, <1>2, <1>3, <1>4, <1>6, <1>7, Zenon

\* A subscription that stays keeps its kind, its first position and what it was sent.
LEMMA RemainingKept ==
    ASSUME TypeInv, IdInv, NEW c \in Connection,
           (\E id \in Id : eth_unsubscribe(c, id)) \/ Close(c)
    PROVE  \A d \in Connection : \A i \in DOMAIN subs'[d] :
               /\ i \in DOMAIN subs[d] /\ subs'[d][i] = subs[d][i]
               /\ since'[i] = since[i] /\ notified'[i] = notified[i]
  <1>1. /\ DOMAIN subs'[c] \subseteq DOMAIN subs[c]
        /\ \A i \in DOMAIN subs'[c] : subs'[c][i] = subs[c][i]
        /\ \A d \in Connection \ {c} : subs'[d] = subs[d]
    BY RemoveEffect
  <1>2. \A i \in Id : i \notin DOMAIN subs[c] \/ i \in DOMAIN subs'[c] =>
            since'[i] = since[i] /\ notified'[i] = notified[i]
    BY RemoveEffect
  <1>3. /\ \A d \in Connection : DOMAIN subs[d] \subseteq Id
        /\ \A d \in Connection \ {c} : DOMAIN subs[c] \cap DOMAIN subs[d] = {}
    BY DEF IdInv
  <1>4. QED
    BY <1>1, <1>2, <1>3

\* Delivery, for one subscription: what Notify appends is new and later than all
\* that was sent before.
LEMMA NotifyEffect ==
    ASSUME TypeInv, IdInv, CursorInv, DeliveredExactly,
           NEW c \in Connection, NEW id \in Id, Notify(c, id)
    PROVE  /\ id \in DOMAIN subs[c] /\ id \in todo[c]
           /\ next[c] - 1 \in Nat
           /\ \A i \in DOMAIN notified[id] : notified[id][i] < next[c] - 1
           /\ notified'[id] = Append(notified[id], next[c] - 1)
           /\ \A i \in Id \ {id} : notified'[i] = notified[i]
           /\ todo' = [todo EXCEPT ![c] = @ \ {id}]
           /\ UNCHANGED <<events, next, subs, since, missed>>
  <1>1. /\ id \in todo[c] /\ id \in DOMAIN subs[c]
        /\ notified'[id] = Append(notified[id], next[c] - 1)
        /\ \A i \in Id \ {id} : notified'[i] = notified[i]
        /\ todo' = [todo EXCEPT ![c] = @ \ {id}]
        /\ UNCHANGED <<events, next, subs, since, missed>>
    BY DEF Notify, IdInv, TypeInv, node_vars
  <1>2. next[c] \in Nat /\ next[c] - 1 \in Nat
    BY <1>1 DEF CursorInv, TypeInv
  <1>3. ASSUME NEW i \in DOMAIN notified[id]
        PROVE  notified[id][i] < next[c] - 1
    <2>1. notified[id][i] \in Range(notified[id])
      BY DEF Range
    <2>2. notified[id][i] \in since[id]..next[c] - 1 /\ notified[id][i] # next[c] - 1
      BY <1>1, <2>1 DEF DeliveredExactly
    <2>3. since[id] \in Nat
      BY DEF TypeInv
    <2>4. QED
      BY <1>2, <2>2, <2>3
  <1>4. QED
    BY <1>1, <1>2, <1>3

\* What subscription id of connection c has to have been sent so far.
Due(c, id) ==
    {p \in since[id]..next[c] - 1 :
        /\ IsFor(subs[c][id], events[p])
        /\ p \notin missed[c]
        /\ ~(p = next[c] - 1 /\ id \in todo[c])}

\* A step that changes nothing of a subscription, nor the events before its
\* connection's receiver, keeps what is due to it.
LEMMA SameDue ==
    ASSUME TypeInv, CursorInv, NEW c \in Connection, NEW id \in DOMAIN subs[c],
           subs'[c][id] = subs[c][id], since'[id] = since[id], next'[c] = next[c],
           missed'[c] = missed[c], id \in todo'[c] <=> id \in todo[c],
           \A p \in 1..next[c] - 1 : events'[p] = events[p]
    PROVE  Due(c, id)' = Due(c, id)
  <1>1. since[id] \in 1..next[c] /\ next[c] \in Nat
    BY DEF CursorInv, TypeInv
  <1>2. since[id]..next[c] - 1 \subseteq 1..next[c] - 1
    BY <1>1
  <1>3. QED
    BY <1>2 DEF Due

\* Every step keeps what a subscription was sent equal to what was due to it.
LEMMA DeliveryStep ==
    ASSUME TypeInv, IdInv, CursorInv, TodoInv, DeliveredExactly, [Next]_vars
    PROVE  \A c \in Connection : \A id \in DOMAIN subs'[c] :
               Range(notified'[id]) = Due(c, id)'
  <1> USE SubscriptionsAssumption DEF node_vars, history
  <1> DEFINE Delivered(c) == \A id \in DOMAIN subs[c] : Range(notified[id]) = Due(c, id)
  <1>0. \A c \in Connection : Delivered(c)
    BY DEF DeliveredExactly, Due
  <1>a. /\ Len(events) \in Nat
        /\ \A c \in Connection :
              /\ next[c] \in Nat \ {0} /\ next[c] <= Len(events) + 1
              /\ DOMAIN subs[c] \subseteq Id
    BY DEF TypeInv, CursorInv, IdInv
  \* A step that touches at most what connection c has.
  <1>b. ASSUME NEW d \in Connection,
               subs'[d] = subs[d], next'[d] = next[d], missed'[d] = missed[d],
               todo'[d] = todo[d], events' = events,
               \A id \in DOMAIN subs[d] : since'[id] = since[id] /\ notified'[id] = notified[id]
        PROVE  Delivered(d)'
    BY <1>0, <1>b, SameDue
  <1>1. CASE NodeStep
    <2>1. \A p \in 1..Len(events) : events'[p] = events[p]
      <3>1. ASSUME NEW m \in Message, events' = Append(events, m)
            PROVE  \A p \in 1..Len(events) : events'[p] = events[p]
        BY <3>1 DEF TypeInv
      <3>2. QED
        BY <1>1, <3>1 DEF NodeStep
    <2>2. UNCHANGED <<next, subs, todo, since, notified, missed>>
      BY <1>1 DEF NodeStep
    <2>3. \A c \in Connection : \A p \in 1..next[c] - 1 : events'[p] = events[p]
      BY <1>a, <2>1
    <2>4. QED
      BY <1>0, <2>2, <2>3, SameDue
  <1>2. ASSUME NEW c \in Connection, Connect(c)
        PROVE  \A d \in Connection : Delivered(d)'
    <2>1. DOMAIN subs[c] = {}
      BY <1>2 DEF Connect, IdInv
    <2>2. UNCHANGED <<events, subs, todo, since, notified, missed>>
      BY <1>2 DEF Connect
    <2>3. \A d \in Connection : d # c => next'[d] = next[d]
      BY <1>2 DEF Connect, TypeInv
    <2>4. ASSUME NEW d \in Connection, d # c
          PROVE  Delivered(d)'
      BY <1>b, <2>2, <2>3, <2>4
    <2>5. QED
      BY <2>1, <2>2, <2>4
  <1>3. ASSUME NEW c \in Connection, NEW kind \in Kind, eth_subscribe(c, kind)
        PROVE  \A d \in Connection : Delivered(d)'
    <2>0. PICK n \in Id : n = SUB_COUNTER
      BY <1>3, SubscribeEffect
    <2>1. /\ \A d \in Connection : n \notin DOMAIN subs[d]
          /\ DOMAIN subs'[c] = DOMAIN subs[c] \cup {n}
          /\ \A i \in DOMAIN subs[c] : subs'[c][i] = subs[c][i]
          /\ \A d \in Connection \ {c} : subs'[d] = subs[d]
          /\ UNCHANGED <<events, next, todo, notified, missed>>
      BY <1>3, <2>0, SubscribeEffect
    <2>2. since'[n] = next[c] /\ \A i \in Id : i # n => since'[i] = since[i]
      BY <1>3, <2>0, SubscribeEffect DEF TypeInv
    <2>3. \A d \in Connection : \A i \in DOMAIN subs[d] : since'[i] = since[i]
      BY <1>a, <2>1, <2>2
    <2>4. ASSUME NEW d \in Connection, d # c
          PROVE  Delivered(d)'
      BY Zenon, <1>b, <2>1, <2>3, <2>4
    <2>5. ASSUME NEW i \in DOMAIN subs[c]
          PROVE  Range(notified'[i]) = Due(c, i)'
      BY <1>0, <2>1, <2>3, SameDue
    <2>6. Range(notified'[n]) = Due(c, n)'
      <3>1. notified'[n] = <<>>
        BY <2>1 DEF IdInv
      <3>2. Range(<<>>) = {}
        BY DEF Range
      <3>3. Due(c, n)' = {}
        BY <1>a, <2>1, <2>2 DEF Due
      <3>4. QED
        BY <3>1, <3>2, <3>3
    <2>7. QED
      BY <2>1, <2>4, <2>5, <2>6
  <1>4. ASSUME NEW c \in Connection, NEW id \in Id, eth_unsubscribe(c, id)
        PROVE  \A d \in Connection : Delivered(d)'
    <2>1. UNCHANGED <<events, next, missed, todo>>
      BY Zenon, <1>4 DEF eth_unsubscribe
    <2>2. \A d \in Connection : \A i \in DOMAIN subs'[d] :
             /\ i \in DOMAIN subs[d] /\ subs'[d][i] = subs[d][i]
             /\ since'[i] = since[i] /\ notified'[i] = notified[i]
      BY <1>4, RemainingKept, Zenon
    <2>3. QED
      BY <1>0, <2>1, <2>2, SameDue
  <1>5. ASSUME NEW c \in Connection, Close(c)
        PROVE  \A d \in Connection : Delivered(d)'
    <2>1. DOMAIN subs'[c] = {}
      BY <1>5 DEF Close, NoSubs, TypeInv
    <2>2. ASSUME NEW d \in Connection, d # c
          PROVE  Delivered(d)'
      <3>1. /\ subs'[d] = subs[d] /\ next'[d] = next[d] /\ missed'[d] = missed[d]
            /\ todo'[d] = todo[d] /\ events' = events
        BY Zenon, <1>5, <2>2 DEF Close, TypeInv
      <3>2. \A i \in DOMAIN subs[d] : since'[i] = since[i] /\ notified'[i] = notified[i]
        BY <1>5, <2>2, <3>1, RemainingKept, Zenon
      <3>3. QED
        BY <1>b, <3>1, <3>2
    <2>3. QED
      BY <2>1, <2>2
  <1>6. ASSUME NEW c \in Connection, Receive(c)
        PROVE  \A d \in Connection : Delivered(d)'
    <2>1. /\ UNCHANGED <<events, subs, since, notified, missed>>
          /\ todo[c] = {} /\ next'[c] = next[c] + 1
          /\ todo'[c] = {i \in DOMAIN subs[c] : IsFor(subs[c][i], events[next[c]])}
          /\ \A d \in Connection : d # c => next'[d] = next[d] /\ todo'[d] = todo[d]
      BY Zenon, <1>6 DEF Receive, Selecting, TypeInv
    <2>2. ASSUME NEW d \in Connection, d # c
          PROVE  Delivered(d)'
      BY Zenon, <1>b, <2>1, <2>2
    <2>3. ASSUME NEW i \in DOMAIN subs[c]
          PROVE  Due(c, i)' = Due(c, i)
      <3>1. since[i] \in 1..next[c] /\ next[c] \notin missed[c]
        BY DEF CursorInv, TypeInv
      <3>2. Due(c, i) = {p \in since[i]..next[c] - 1 : IsFor(subs[c][i], events[p]) /\ p \notin missed[c]}
        BY <2>1 DEF Due
      <3>3. Due(c, i)' = {p \in since[i]..next[c] :
                            /\ IsFor(subs[c][i], events[p]) /\ p \notin missed[c]
                            /\ ~(p = next[c] /\ IsFor(subs[c][i], events[next[c]]))}
        BY <1>a, <2>1 DEF Due
      <3>4. QED
        BY <1>a, <3>1, <3>2, <3>3
    <2>4. QED
      BY <1>0, <2>1, <2>2, <2>3
  <1>7. ASSUME NEW c \in Connection, ReceiveLagged(c)
        PROVE  \A d \in Connection : Delivered(d)'
    <2>1. /\ UNCHANGED <<events, subs, since, notified, todo>>
          /\ todo[c] = {} /\ next'[c] = Oldest /\ next[c] < Oldest
          /\ missed'[c] = missed[c] \cup next[c]..Oldest - 1
          /\ \A d \in Connection : d # c => next'[d] = next[d] /\ missed'[d] = missed[d]
      BY <1>7 DEF ReceiveLagged, Selecting, TypeInv
    <2>2. ASSUME NEW d \in Connection, d # c
          PROVE  Delivered(d)'
      BY Zenon, <1>b, <2>1, <2>2
    <2>3. ASSUME NEW i \in DOMAIN subs[c]
          PROVE  Due(c, i)' = Due(c, i)
      <3>1. since[i] \in 1..next[c] /\ Oldest \in Nat
        BY <1>a DEF CursorInv, Oldest
      <3>2. Due(c, i) = {p \in since[i]..next[c] - 1 : IsFor(subs[c][i], events[p]) /\ p \notin missed[c]}
        BY <2>1 DEF Due
      <3>3. Due(c, i)' = {p \in since[i]..Oldest - 1 :
                            IsFor(subs[c][i], events[p]) /\ p \notin missed[c] \cup next[c]..Oldest - 1}
        BY <2>1 DEF Due
      <3>4. QED
        BY <1>a, <2>1, <3>1, <3>2, <3>3
    <2>4. QED
      BY <1>0, <2>1, <2>2, <2>3
  <1>8. ASSUME NEW c \in Connection, NEW id \in Id, Notify(c, id)
        PROVE  \A d \in Connection : Delivered(d)'
    <2>0. notified'[id] = Append(notified[id], next[c] - 1)
      BY <1>8, NotifyEffect
    <2>1. /\ id \in DOMAIN subs[c] /\ id \in todo[c]
          /\ \A i \in Id \ {id} : notified'[i] = notified[i]
          /\ UNCHANGED <<events, next, subs, since, missed>>
      BY Zenon, <1>8, NotifyEffect
    <2>2. todo'[c] = todo[c] \ {id} /\ \A d \in Connection : d # c => todo'[d] = todo[d]
      BY <1>8, NotifyEffect DEF TypeInv
    <2>3. ASSUME NEW d \in Connection, d # c
          PROVE  Delivered(d)'
      <3>1. id \notin DOMAIN subs[d]
        BY Zenon, <2>1, <2>3 DEF IdInv
      <3>2. QED
        BY Zenon, <1>a, <1>b, <2>1, <2>2, <2>3, <3>1
    <2>4. ASSUME NEW i \in DOMAIN subs[c], i # id
          PROVE  Range(notified'[i]) = Due(c, i)'
      BY <1>0, <1>a, <2>1, <2>2, <2>4, SameDue
    <2>5. Range(notified'[id]) = Due(c, id)'
      <3>1. Range(notified'[id]) = Range(notified[id]) \cup {next[c] - 1}
        <4>1. notified[id] \in Seq(Nat) /\ next[c] - 1 \in Nat
          BY Zenon, <1>8, NotifyEffect DEF TypeInv
        <4>2. /\ DOMAIN notified'[id] = DOMAIN notified[id] \cup {Len(notified[id]) + 1}
              /\ \A i \in DOMAIN notified[id] : notified'[id][i] = notified[id][i]
              /\ notified'[id][Len(notified[id]) + 1] = next[c] - 1
          BY <2>0, <4>1
        <4>3. QED
          BY <4>2 DEF Range
      <3>2. Due(c, id)' = Due(c, id) \cup {next[c] - 1}
        <4>1. /\ next[c] - 1 \in since[id]..next[c] - 1 /\ next[c] - 1 \notin missed[c]
              /\ IsFor(subs[c][id], events[next[c] - 1])
          BY Zenon, <2>1 DEF TodoInv
        <4>2. QED
          BY Zenon, <2>1, <2>2, <4>1 DEF Due
      <3>3. QED
        BY Zenon, <1>0, <2>1, <3>1, <3>2
    <2>6. Delivered(c)'
      BY <2>1, <2>4, <2>5, Zenon
    <2>7. QED
      BY <2>3, <2>6, Zenon
  <1>9. CASE UNCHANGED vars
    BY Zenon, <1>b, <1>9 DEF vars
  <1>10. QED
    BY Zenon, <1>1, <1>2, <1>3, <1>4, <1>5, <1>6, <1>7, <1>8, <1>9, StepCases

\* Every step keeps the subscriptions still to be notified among those that the
\* event before the receiver is for.
LEMMA TodoStep ==
    ASSUME TypeInv, IdInv, CursorInv, TodoInv, [Next]_vars
    PROVE  TodoInv'
  <1> USE DEF node_vars, history
  <1>a. /\ Len(events) \in Nat
        /\ \A c \in Connection :
              /\ next[c] \in Nat \ {0} /\ next[c] <= Len(events) + 1
              /\ todo[c] # {} => next[c] - 1 \in 1..Len(events)
              /\ todo[c] \subseteq DOMAIN subs[c]
              /\ todo[c] \subseteq Id
    <2>1. Len(events) \in Nat /\ \A c \in Connection : next[c] \in Nat \ {0} /\ todo[c] \subseteq Id
      BY DEF TypeInv
    <2>2. \A c \in Connection : next[c] <= Len(events) + 1 /\ (todo[c] # {} => next[c] > 1)
      BY DEF CursorInv
    <2>3. \A c \in Connection : todo[c] \subseteq DOMAIN subs[c]
      BY DEF IdInv
    <2>4. QED
      BY <2>1, <2>2, <2>3
  \* A step that leaves alone what a connection has to send.
  <1>b. ASSUME NEW d \in Connection,
               todo'[d] \subseteq todo[d], next'[d] = next[d], missed'[d] = missed[d],
               \A i \in todo'[d] :
                   /\ subs'[d][i] = subs[d][i] /\ since'[i] = since[i]
                   /\ events'[next[d] - 1] = events[next[d] - 1]
        PROVE  \A i \in todo'[d] :
                   /\ next'[d] - 1 \in since'[i]..next'[d] - 1
                   /\ next'[d] - 1 \notin missed'[d]
                   /\ IsFor(subs'[d][i], events'[next'[d] - 1])
    BY Zenon, <1>b DEF TodoInv
  <1>1. CASE NodeStep
    <2>1. \A p \in 1..Len(events) : events'[p] = events[p]
      <3>1. ASSUME NEW m \in Message, events' = Append(events, m)
            PROVE  \A p \in 1..Len(events) : events'[p] = events[p]
        BY <3>1 DEF TypeInv
      <3>2. QED
        BY <1>1, <3>1 DEF NodeStep
    <2>2. UNCHANGED <<next, subs, todo, since, missed>>
      BY <1>1 DEF NodeStep
    <2>3. \A d \in Connection : \A i \in todo[d] : events'[next[d] - 1] = events[next[d] - 1]
      BY <1>a, <2>1
    <2>4. QED
      BY <2>2, <2>3 DEF TodoInv
  <1>2. ASSUME NEW c \in Connection, Connect(c)
        PROVE  TodoInv'
    <2>1. todo[c] = {}
      BY <1>2 DEF Connect, IdInv
    <2>2. UNCHANGED <<events, subs, todo, since, missed>>
      BY <1>2 DEF Connect
    <2>3. \A d \in Connection : d # c => next'[d] = next[d]
      BY Zenon, <1>2 DEF Connect, TypeInv
    <2>4. QED
      BY <2>1, <2>2, <2>3 DEF TodoInv
  <1>3. ASSUME NEW c \in Connection, NEW kind \in Kind, eth_subscribe(c, kind)
        PROVE  TodoInv'
    <2>1. UNCHANGED <<events, next, todo, missed>>
      BY Zenon, <1>3, SubscribeEffect
    <2>2. \A i \in Id : i # SUB_COUNTER => since'[i] = since[i]
      <3>1. since' = [since EXCEPT ![SUB_COUNTER] = next[c]]
        BY Zenon, <1>3 DEF eth_subscribe
      <3>2. QED
        BY <3>1 DEF TypeInv
    <2>3. \A d \in Connection : \A i \in DOMAIN subs[d] :
              i # SUB_COUNTER /\ subs'[d][i] = subs[d][i]
      <3>1. /\ \A d \in Connection : SUB_COUNTER \notin DOMAIN subs[d]
            /\ \A i \in DOMAIN subs[c] : subs'[c][i] = subs[c][i]
            /\ \A d \in Connection \ {c} : subs'[d] = subs[d]
        BY <1>3, SubscribeEffect, Zenon
      <3>2. QED
        BY <3>1, Zenon
    <2>4. QED
      BY <1>a, <2>1, <2>2, <2>3 DEF TodoInv
  <1>4. ASSUME NEW c \in Connection, (\E id \in Id : eth_unsubscribe(c, id)) \/ Close(c)
        PROVE  TodoInv'
    <2>1. todo' = [todo EXCEPT ![c] = {}] /\ events' = events
      BY <1>4, RemoveEffect
    <2>2. todo'[c] = {} /\ \A d \in Connection : d # c => todo'[d] = todo[d]
      BY <2>1 DEF TypeInv
    <2>3. \A d \in Connection : d # c => next'[d] = next[d] /\ missed'[d] = missed[d]
      <3>1. CASE Close(c)
        BY <3>1 DEF Close, TypeInv
      <3>2. ASSUME NEW id \in Id, eth_unsubscribe(c, id)
            PROVE  UNCHANGED <<next, missed>>
        BY Zenon, <3>2 DEF eth_unsubscribe
      <3>3. QED
        BY <1>4, <3>1, <3>2
    <2>4. \A d \in Connection \ {c} : subs'[d] = subs[d]
      BY Zenon, <1>4, RemoveEffect
    <2>5. \A d \in Connection \ {c} : \A i \in todo[d] : since'[i] = since[i]
      <3>1. \A i \in Id : i \notin DOMAIN subs[c] => since'[i] = since[i]
        BY <1>4, RemoveEffect
      <3>2. \A d \in Connection \ {c} : DOMAIN subs[c] \cap DOMAIN subs[d] = {}
        BY DEF IdInv
      <3>3. QED
        BY Zenon, <1>a, <3>1, <3>2
    <2>6. QED
      BY <2>1, <2>2, <2>3, <2>4, <2>5 DEF TodoInv
  <1>5. ASSUME NEW c \in Connection, Receive(c)
        PROVE  TodoInv'
    <2>1. /\ UNCHANGED <<events, subs, since, missed>>
          /\ \A d \in Connection : d # c => next'[d] = next[d] /\ todo'[d] = todo[d]
      BY Zenon, <1>5 DEF Receive, TypeInv
    <2>2. next'[c] - 1 = next[c]
      BY <1>5 DEF Receive, TypeInv
    <2>3. todo'[c] = {i \in DOMAIN subs[c] : IsFor(subs[c][i], events[next[c]])}
      BY Zenon, <1>5 DEF Receive, TypeInv
    <2>4. next[c] \notin missed[c]
      BY <1>a DEF CursorInv
    <2>5. \A i \in DOMAIN subs[c] : next[c] \in since[i]..next[c]
      BY <1>a DEF CursorInv
    <2>6. QED
      BY Zenon, <2>1, <2>2, <2>3, <2>4, <2>5 DEF TodoInv
  <1>6. ASSUME NEW c \in Connection, ReceiveLagged(c)
        PROVE  TodoInv'
    <2>1. /\ UNCHANGED <<events, subs, since, todo>> /\ todo[c] = {}
          /\ \A d \in Connection : d # c => next'[d] = next[d] /\ missed'[d] = missed[d]
      BY Zenon, <1>6 DEF ReceiveLagged, Selecting, TypeInv
    <2>2. QED
      BY Zenon, <2>1 DEF TodoInv
  <1>7. ASSUME NEW c \in Connection, NEW id \in Id, Notify(c, id)
        PROVE  TodoInv'
    <2>1. UNCHANGED <<events, next, subs, since, missed>>
      BY <1>7 DEF Notify
    <2>2. \A d \in Connection : todo'[d] \subseteq todo[d]
      BY Zenon, <1>7 DEF Notify, TypeInv
    <2>3. QED
      BY <2>1, <2>2 DEF TodoInv
  <1>8. CASE UNCHANGED vars
    BY Zenon, <1>8 DEF vars, TodoInv
  <1>9. QED
    BY <1>1, <1>2, <1>3, <1>4, <1>5, <1>6, <1>7, <1>8, StepCases

\* In the channel a block's log precedes its head, so a receiver that has passed the
\* head has passed the log and the task is done with it.
LEMMA HeadAfterLogs ==
    ASSUME IInv
    PROVE  HeadClosesItsBlock
  <1>0. SUFFICES ASSUME NEW c \in Connection,
                      NEW h \in DOMAIN subs[c], NEW l \in DOMAIN subs[c],
                      subs[c][h].name = "newHeads", subs[c][l].name = "logs",
                      NEW p \in Range(notified[h]), NEW q \in since[l]..Len(events),
                      IsFor(subs[c][l], events[q]),
                      events[q].block <= events[p].block, q \notin missed[c]
               PROVE  q \in Range(notified[l])
    BY DEF HeadClosesItsBlock
  <1>1. p \in since[h]..next[c] - 1 /\ IsFor(subs[c][h], events[p])
    BY <1>0 DEF IInv, DeliveredExactly
  <1>2. /\ next[c] <= Len(events) + 1
        /\ since[h] \in 1..next[c] /\ since[l] \in 1..next[c]
    BY Zenon, <1>0 DEF IInv, CursorInv
  <1>a. next[c] \in Nat /\ Len(events) \in Nat /\ DOMAIN events = 1..Len(events)
    BY <1>0 DEF IInv, TypeInv
  <1>b. q \in since[l]..Len(events)
    BY Zenon, <1>0
  <1>3. p \in DOMAIN events /\ q \in DOMAIN events
    BY <1>1, <1>2, <1>a, <1>b
  <1>4. events[p].kind = "NewHead" /\ events[q].kind = "Log"
    BY Zenon, <1>0, <1>1 DEF IsFor
  <1>5. q < p
    BY <1>0, <1>3, <1>4 DEF IInv, StreamInv
  <1>6. q \in since[l]..next[c] - 1 /\ q # next[c] - 1
    BY <1>1, <1>2, <1>a, <1>b, <1>5
  <1>7. QED
    BY <1>0, <1>6 DEF IInv, DeliveredExactly

\* Every step keeps the notifications of each subscription in order: the only one
\* that adds to them, Notify, adds the position just received.
LEMMA OrderStep ==
    ASSUME TypeInv, IdInv, CursorInv, DeliveredExactly, NotificationsInOrder, [Next]_vars
    PROVE  NotificationsInOrder'
  <1>1. ASSUME \A i \in Id : notified'[i] \in {notified[i], <<>>}
        PROVE  NotificationsInOrder'
    BY <1>1 DEF NotificationsInOrder
  <1>2. CASE UNCHANGED notified
    BY Zenon, <1>2 DEF NotificationsInOrder
  <1>3. ASSUME NEW c \in Connection, (\E id \in Id : eth_unsubscribe(c, id)) \/ Close(c)
        PROVE  NotificationsInOrder'
    BY <1>1, <1>3, RemoveEffect
  <1>4. ASSUME NEW c \in Connection, NEW id \in Id, Notify(c, id)
        PROVE  NotificationsInOrder'
    <2>1. /\ \A i \in Id \ {id} : notified'[i] = notified[i]
          /\ notified'[id] = Append(notified[id], next[c] - 1)
          /\ next[c] - 1 \in Nat
          /\ \A i \in DOMAIN notified[id] : notified[id][i] < next[c] - 1
      BY <1>4, NotifyEffect
    <2>2. notified[id] \in Seq(Nat)
      BY Zenon DEF TypeInv
    <2>3. \A i, j \in DOMAIN notified[id] : i < j => notified[id][i] < notified[id][j]
      BY DEF NotificationsInOrder
    <2>4. \A i, j \in DOMAIN notified'[id] : i < j => notified'[id][i] < notified'[id][j]
      BY <2>1, <2>2, <2>3
    <2>5. QED
      BY Zenon, <2>1, <2>4 DEF NotificationsInOrder
  <1>5. CASE NodeStep \/ UNCHANGED vars
    BY <1>2, <1>5 DEF NodeStep, vars, history
  <1>6. ASSUME NEW c \in Connection,
               Connect(c) \/ Receive(c) \/ ReceiveLagged(c) \/ \E kind \in Kind : eth_subscribe(c, kind)
        PROVE  UNCHANGED notified
    BY Zenon, <1>6 DEF Connect, Receive, ReceiveLagged, eth_subscribe, history
  <1>7. QED
    BY <1>2, <1>3, <1>4, <1>5, <1>6, StepCases

-----------------------------------------------------------------------------

\* The node's side keeps the order of its stream.
LEMMA StreamStep ==
    ASSUME TypeInv, StreamInv, [Next]_vars
    PROVE  StreamInv'
  <1>0. /\ block \in Nat /\ head \in Nat /\ head <= block
        /\ Len(events) \in Nat /\ DOMAIN events = 1..Len(events)
        /\ \A p \in DOMAIN events : events[p] \in Message /\ events[p].block \in Nat
    BY DEF TypeInv, StreamInv, Message
  <1>1. CASE UNCHANGED <<events, block, head>>
    BY <1>1 DEF StreamInv
  <1>2. CASE BeginBlock
    <2>1. block' = block + 1 /\ events' = events /\ head' = head
      BY Zenon, <1>2 DEF BeginBlock
    <2>2. QED
      BY <1>0, <2>1 DEF StreamInv
  <1>3. ASSUME NEW m, m.block \in Nat, events' = Append(events, m),
               block' = block, head' \in Nat, head <= head', head' <= block,
               \/ m.kind = "PendingTx" /\ m.block = 0
               \/ m.kind = "Log" /\ m.block = block /\ head < block
               \/ m.kind = "NewHead" /\ m.block = block /\ head' = block
        PROVE  StreamInv'
    <2>1. /\ DOMAIN events' = 1..Len(events) + 1
          /\ events'[Len(events) + 1] = m
          /\ \A p \in DOMAIN events : events'[p] = events[p]
      BY <1>0, <1>3 DEF TypeInv
    <2>2. \A p \in DOMAIN events' :
              events'[p].block <= (IF events'[p].kind = "NewHead" THEN head' ELSE block')
      <3> SUFFICES ASSUME NEW p \in DOMAIN events'
                   PROVE  events'[p].block <= (IF events'[p].kind = "NewHead" THEN head' ELSE block')
        OBVIOUS
      <3>1. CASE p = Len(events) + 1
        BY <1>0, <1>3, <2>1, <3>1
      <3>2. CASE p \in DOMAIN events
        BY <1>0, <1>3, <2>1, <3>2 DEF StreamInv
      <3>3. QED
        BY <1>0, <2>1, <3>1, <3>2
    <2>3. ASSUME NEW p \in DOMAIN events', NEW q \in DOMAIN events',
                 events'[p].kind = "NewHead", events'[q].kind = "Log",
                 events'[q].block <= events'[p].block
          PROVE  q < p
      <3>1. CASE q \in DOMAIN events /\ p \in DOMAIN events
        BY <2>1, <2>3, <3>1 DEF StreamInv
      <3>2. CASE q \in DOMAIN events /\ p = Len(events) + 1
        BY <1>0, <3>2
      <3>3. CASE q = Len(events) + 1 /\ p \in DOMAIN events
        <4>1. m.kind = "Log" /\ m.block = block /\ head < block
          BY <1>3, <2>1, <2>3, <3>3
        <4>2. events[p].kind = "NewHead" /\ block <= events[p].block
          BY <2>1, <2>3, <3>3, <4>1
        <4>3. events[p].block <= head
          BY <3>3, <4>2 DEF StreamInv
        <4>4. QED
          BY <1>0, <3>3, <4>1, <4>2, <4>3
      <3>4. CASE q = Len(events) + 1 /\ p = Len(events) + 1
        BY Zenon, <2>1, <2>3, <3>4
      <3>5. QED
        BY <1>0, <2>1, <3>1, <3>2, <3>3, <3>4
    <2>4. QED
      BY Zenon, <1>3, <2>2, <2>3 DEF StreamInv
  <1>4. CASE PublishPending
    BY <1>0, <1>3, <1>4 DEF PublishPending, Send
  <1>5. ASSUME NEW content \in Content, PublishLog(content)
        PROVE  StreamInv'
    BY <1>0, <1>3, <1>5 DEF PublishLog, Send
  <1>6. CASE PublishHead
    BY <1>0, <1>3, <1>6 DEF PublishHead, Send
  <1>7. CASE UNCHANGED vars
    BY <1>1, <1>7 DEF vars, node_vars
  <1>8. QED
    BY <1>1, <1>2, <1>4, <1>5, <1>6, <1>7, StepCases, TaskStep DEF NodeStep

\* Every step keeps every variable of its type.
LEMMA TypeStep ==
    ASSUME TypeInv, IdInv, [Next]_vars
    PROVE  TypeInv'
  <1> USE SubscriptionsAssumption DEF TypeInv, node_vars, history
  <1>1. CASE NodeStep
    <2>1. events' \in Seq(Message)
      <3>1. CASE UNCHANGED events
        BY <3>1
      <3>2. ASSUME NEW m \in Message, events' = Append(events, m)
            PROVE  events' \in Seq(Message)
        BY <3>2
      <3>3. QED
        BY <1>1, <3>1, <3>2 DEF NodeStep
    <2>2. block' \in Nat /\ head' \in Nat
      <3>1. CASE BeginBlock
        BY <3>1 DEF BeginBlock
      <3>2. CASE PublishPending
        BY <3>2 DEF PublishPending
      <3>3. CASE PublishHead
        BY <3>3 DEF PublishHead
      <3>4. ASSUME NEW content \in Content, PublishLog(content)
            PROVE  block' \in Nat /\ head' \in Nat
        BY <3>4 DEF PublishLog
      <3>5. QED
        BY <1>1, <3>1, <3>2, <3>3, <3>4 DEF NodeStep
    <2>3. QED
      BY <1>1, <2>1, <2>2 DEF NodeStep
  <1>2. ASSUME NEW c \in Connection, Connect(c)
        PROVE  TypeInv'
    BY <1>2 DEF Connect
  <1>3. ASSUME NEW c \in Connection, NEW kind \in Kind, eth_subscribe(c, kind)
        PROVE  TypeInv'
    <2>1. /\ SUB_COUNTER' = SUB_COUNTER + 1 /\ DOMAIN subs' = Connection
          /\ since' = [since EXCEPT ![SUB_COUNTER] = next[c]]
          /\ UNCHANGED <<events, block, head, status, next, todo, notified, missed>>
      BY <1>3, SubscribeEffect, Zenon
    <2>2. SUB_COUNTER' \in Nat \ {0}
      BY <2>1
    <2>3. next[c] \in Nat /\ since \in [Id -> Nat]
      OBVIOUS
    <2>4. since' \in [Id -> Nat]
      BY Zenon, <2>1, <2>3
    <2>5. QED
      BY Zenon, <2>1, <2>2, <2>4
  <1>4. ASSUME NEW c \in Connection, NEW id \in Id, eth_unsubscribe(c, id)
        PROVE  TypeInv'
    <2>1. UNCHANGED <<status, next, missed, todo>>
      BY <1>4 DEF eth_unsubscribe
    <2>2. /\ DOMAIN subs' = Connection
          /\ since' \in [Id -> Nat] /\ notified' \in [Id -> Seq(Nat)]
          /\ UNCHANGED <<events, block, head, SUB_COUNTER>>
      BY <1>4, RemoveEffect, Zenon
    <2>3. QED
      BY Zenon, <2>1, <2>2
  <1>5. ASSUME NEW c \in Connection, Receive(c)
        PROVE  TypeInv'
    <2>1. {i \in DOMAIN subs[c] : IsFor(subs[c][i], events[next[c]])} \subseteq Id
      BY DEF IdInv
    <2>2. QED
      BY <1>5, <2>1 DEF Receive
  <1>6. ASSUME NEW c \in Connection, ReceiveLagged(c)
        PROVE  TypeInv'
    <2>1. Oldest \in Nat \ {0}
      BY DEF Oldest
    <2>2. QED
      BY <1>6, <2>1 DEF ReceiveLagged
  <1>7. ASSUME NEW c \in Connection, NEW id \in Id, Notify(c, id)
        PROVE  TypeInv'
    <2>1. id \in todo[c] /\ notified' = [notified EXCEPT ![id] = Append(@, next[c] - 1)]
      BY <1>7 DEF Notify
    <2>2. notified' \in [Id -> Seq(Nat)]
      BY <2>1
    <2>3. QED
      BY <1>7, <2>2 DEF Notify
  <1>8. ASSUME NEW c \in Connection, Close(c)
        PROVE  TypeInv'
    <2>1. next' \in [Connection -> Nat \ {0}] /\ missed' \in [Connection -> SUBSET Nat]
      BY <1>8 DEF Close
    <2>2. status' \in [Connection -> {"none", "open", "closed"}]
      BY <1>8 DEF Close
    <2>3. /\ DOMAIN subs' = Connection
          /\ since' \in [Id -> Nat] /\ notified' \in [Id -> Seq(Nat)]
          /\ todo' = [todo EXCEPT ![c] = {}]
          /\ UNCHANGED <<events, block, head, SUB_COUNTER>>
      BY <1>8, RemoveEffect, Zenon
    <2>4. todo' \in [Connection -> SUBSET Id]
      BY <2>3
    <2>5. QED
      BY <2>1, <2>2, <2>3, <2>4
  <1>9. CASE UNCHANGED vars
    BY <1>9 DEF vars
  <1>10. QED
    BY <1>1, <1>2, <1>3, <1>4, <1>5, <1>6, <1>7, <1>8, <1>9, StepCases, Zenon

\* Every step keeps the ids of subscriptions unique, below SUB_COUNTER and held by
\* one connection.
LEMMA IdStep ==
    ASSUME TypeInv, IdInv, [Next]_vars
    PROVE  IdInv'
  <1> USE DEF node_vars, history
  <1>1. CASE NodeStep
    BY Zenon, <1>1 DEF NodeStep, IdInv
  <1>2. ASSUME NEW c \in Connection, Connect(c)
        PROVE  IdInv'
    <2>1. UNCHANGED <<SUB_COUNTER, subs, todo, notified>>
      BY <1>2 DEF Connect
    <2>2. \A d \in Connection : status'[d] # "open" => status[d] # "open"
      BY Zenon, <1>2 DEF Connect, TypeInv
    <2>3. QED
      BY <2>1, <2>2 DEF IdInv
  <1>3. ASSUME NEW c \in Connection, NEW kind \in Kind, eth_subscribe(c, kind)
        PROVE  IdInv'
    <2>1. status[c] = "open" /\ status' = status /\ todo' = todo /\ notified' = notified
      BY <1>3 DEF eth_subscribe, Selecting
    <2>2. SUB_COUNTER \in Nat /\ Id \subseteq Nat
      BY DEF TypeInv, Id
    <2>3. \A d \in Connection :
             /\ DOMAIN subs'[d] \subseteq DOMAIN subs[d] \cup {SUB_COUNTER}
             /\ DOMAIN subs[d] \subseteq DOMAIN subs'[d]
             /\ d # c => subs'[d] = subs[d]
      BY Zenon, <1>3, SubscribeEffect
    <2>4. \A d \in Connection :
             /\ DOMAIN subs'[d] \subseteq {i \in Id : i < SUB_COUNTER'}
             /\ todo'[d] \subseteq DOMAIN subs'[d]
             /\ status'[d] # "open" => DOMAIN subs'[d] = {}
      <3> SUFFICES ASSUME NEW d \in Connection
                   PROVE  /\ DOMAIN subs'[d] \subseteq {i \in Id : i < SUB_COUNTER'}
                          /\ todo'[d] \subseteq DOMAIN subs'[d]
                          /\ status'[d] # "open" => DOMAIN subs'[d] = {}
        OBVIOUS
      <3>1. SUB_COUNTER \in Id /\ SUB_COUNTER' = SUB_COUNTER + 1
        BY <1>3, SubscribeEffect
      <3>2. \A i \in DOMAIN subs'[d] : i \in Id /\ i < SUB_COUNTER'
        <4>1. \A i \in DOMAIN subs[d] : i \in Id /\ i < SUB_COUNTER
          BY DEF IdInv
        <4>2. \A i \in DOMAIN subs'[d] : i \in DOMAIN subs[d] \/ i = SUB_COUNTER
          BY <2>3
        <4>3. \A i \in Id : i < SUB_COUNTER \/ i = SUB_COUNTER => i < SUB_COUNTER'
          BY <2>2, <3>1
        <4>4. QED
          BY <3>1, <4>1, <4>2, <4>3
      <3>3. QED
        BY <2>1, <2>3, <3>2 DEF IdInv
    <2>5. \A d, e \in Connection : d # e => DOMAIN subs'[d] \cap DOMAIN subs'[e] = {}
      BY <1>3, <2>3, SubscribeEffect DEF IdInv
    <2>6. \A i \in Id : (\A d \in Connection : i \notin DOMAIN subs'[d]) => notified'[i] = <<>>
      BY Zenon, <2>1, <2>3 DEF IdInv
    <2>7. QED
      BY <2>4, <2>5, <2>6 DEF IdInv
  <1>4. ASSUME NEW c \in Connection, (\E id \in Id : eth_unsubscribe(c, id)) \/ Close(c)
        PROVE  IdInv'
    <2>1. \A d \in Connection :
             /\ DOMAIN subs'[d] \subseteq DOMAIN subs[d]
             /\ d # c => subs'[d] = subs[d]
      BY <1>4, RemoveEffect
    <2>2. \A d \in Connection :
             /\ todo'[d] \subseteq DOMAIN subs'[d]
             /\ status'[d] # "open" => DOMAIN subs'[d] = {}
      <3>1. \A d \in Connection : todo'[d] = IF d = c THEN {} ELSE todo[d]
        <4>1. todo' = [todo EXCEPT ![c] = {}]
          BY <1>4, RemoveEffect
        <4>2. QED
          BY Zenon, <4>1 DEF TypeInv
      <3>2. ASSUME NEW id \in Id, eth_unsubscribe(c, id)
            PROVE  status' = status
        BY Zenon, <3>2 DEF eth_unsubscribe
      <3>3. CASE Close(c)
        <4>1. DOMAIN subs'[c] = {}
          BY <3>3 DEF Close, NoSubs, TypeInv
        <4>2. \A d \in Connection : d # c => status'[d] = status[d]
          BY <3>3 DEF Close, TypeInv
        <4>3. QED
          BY <2>1, <3>1, <4>1, <4>2 DEF IdInv
      <3>4. QED
        BY <1>4, <2>1, <3>1, <3>2, <3>3 DEF IdInv
    <2>3. \A i \in Id : (\A d \in Connection : i \notin DOMAIN subs'[d]) => notified'[i] = <<>>
      <3> SUFFICES ASSUME NEW i \in Id, \A d \in Connection : i \notin DOMAIN subs'[d]
                   PROVE  notified'[i] = <<>>
        OBVIOUS
      <3>1. CASE i \in DOMAIN subs[c]
        BY <1>4, <3>1, RemoveEffect
      <3>2. CASE i \notin DOMAIN subs[c]
        <4>1. \A d \in Connection : i \notin DOMAIN subs[d]
          BY Zenon, <2>1, <3>2
        <4>2. notified'[i] = notified[i]
          BY Zenon, <1>4, <3>2, RemoveEffect
        <4>3. QED
          BY Zenon, <4>1, <4>2 DEF IdInv
      <3>3. QED
        BY <3>1, <3>2
    <2>4. SUB_COUNTER' = SUB_COUNTER
      BY Zenon, <1>4, RemoveEffect
    <2>5. QED
      BY <2>1, <2>2, <2>3, <2>4 DEF IdInv
  <1>5. ASSUME NEW c \in Connection, Receive(c)
        PROVE  IdInv'
    <2>1. UNCHANGED <<SUB_COUNTER, subs, status, notified>>
      BY <1>5 DEF Receive
    <2>2. todo'[c] \subseteq DOMAIN subs[c] /\ \A d \in Connection : d # c => todo'[d] = todo[d]
      BY Zenon, <1>5 DEF Receive, TypeInv
    <2>3. QED
      BY <2>1, <2>2 DEF IdInv
  <1>6. ASSUME NEW c \in Connection, ReceiveLagged(c)
        PROVE  IdInv'
    BY Zenon, <1>6 DEF ReceiveLagged, IdInv
  <1>7. ASSUME NEW c \in Connection, NEW id \in Id, Notify(c, id)
        PROVE  IdInv'
    <2>1. UNCHANGED <<SUB_COUNTER, subs, status>>
      BY <1>7 DEF Notify
    <2>2. \A d \in Connection : todo'[d] \subseteq todo[d]
      BY <1>7 DEF Notify, TypeInv
    <2>3. id \in DOMAIN subs[c]
      BY <1>7, Zenon DEF Notify, IdInv
    <2>4. \A i \in Id : i # id => notified'[i] = notified[i]
      BY Zenon, <1>7 DEF Notify, TypeInv
    <2>5. QED
      BY <2>1, <2>2, <2>3, <2>4 DEF IdInv
  <1>8. CASE UNCHANGED vars
    BY <1>8 DEF vars, IdInv
  <1>9. QED
    BY Zenon, <1>1, <1>2, <1>3, <1>4, <1>5, <1>6, <1>7, <1>8, StepCases

\* Every step keeps the receivers at or before the end of the channel, and what they
\* passed over behind them.
LEMMA CursorStep ==
    ASSUME TypeInv, IdInv, CursorInv, [Next]_vars
    PROVE  CursorInv'
  <1> USE SubscriptionsAssumption DEF node_vars, history
  <1> DEFINE Cursor(d) ==
                /\ next[d] <= Len(events) + 1
                /\ \A p \in missed[d] : p < next[d] /\ p + Capacity <= Len(events)
                /\ todo[d] # {} => next[d] > 1
                /\ \A i \in DOMAIN subs[d] : since[i] \in 1..next[d]
  <1>0. /\ Len(events) \in Nat
        /\ \A c \in Connection : next[c] \in Nat \ {0} /\ missed[c] \subseteq Nat
    BY DEF TypeInv
  <1>1. CASE NodeStep
    <2>1. Len(events') \in Nat /\ Len(events') >= Len(events)
      <3>1. ASSUME NEW m \in Message, events' = Append(events, m)
            PROVE  Len(events') = Len(events) + 1
        BY <3>1 DEF TypeInv
      <3>2. QED
        BY <1>0, <1>1, <3>1 DEF NodeStep
    <2>2. UNCHANGED <<next, missed, todo, subs, since>>
      BY Zenon, <1>1 DEF NodeStep
    <2>3. QED
      BY <1>0, <2>1, <2>2 DEF CursorInv
  <1>2. ASSUME NEW c \in Connection, Connect(c)
        PROVE  CursorInv'
    <2>1. UNCHANGED <<events, subs, todo, since, missed>>
      BY <1>2 DEF Connect
    <2>2. /\ next'[c] = Len(events) + 1
          /\ \A d \in Connection : d # c => next'[d] = next[d]
      BY Zenon, <1>2 DEF Connect, TypeInv
    <2>3. DOMAIN subs[c] = {} /\ todo[c] = {}
      BY Zenon, <1>2 DEF Connect, IdInv
    <2>4. QED
      BY <1>0, <2>1, <2>2, <2>3 DEF CursorInv
  <1>3. ASSUME NEW c \in Connection, NEW kind \in Kind, eth_subscribe(c, kind)
        PROVE  CursorInv'
    <2>1. UNCHANGED <<events, next, todo, missed>>
      BY <1>3, SubscribeEffect, Zenon
    <2>2. \A d \in Connection : \A i \in DOMAIN subs'[d] : since'[i] \in 1..next[d]
      <3>1. SUB_COUNTER \in Id /\ since' = [since EXCEPT ![SUB_COUNTER] = next[c]]
        BY <1>3, SubscribeEffect, Zenon
      <3>2. \A i \in DOMAIN subs'[c] : i \in DOMAIN subs[c] \/ i = SUB_COUNTER
        BY <1>3, SubscribeEffect, Zenon
      <3>3. /\ \A d \in Connection \ {c} : subs'[d] = subs[d]
            /\ \A d \in Connection : SUB_COUNTER \notin DOMAIN subs[d]
        BY <1>3, SubscribeEffect, Zenon
      <3>4. /\ since'[SUB_COUNTER] = next[c]
            /\ \A i \in Id : i # SUB_COUNTER => since'[i] = since[i]
        BY <3>1 DEF TypeInv
      <3>5. \A d \in Connection : \A i \in DOMAIN subs[d] : since'[i] \in 1..next[d]
        BY <3>3, <3>4, Zenon DEF CursorInv, IdInv
      <3>6. next[c] \in 1..next[c]
        BY <1>0
      <3>7. \A i \in DOMAIN subs'[c] : since'[i] \in 1..next[c]
        BY <3>2, <3>4, <3>5, <3>6, Zenon
      <3>8. QED
        BY <3>3, <3>5, <3>7, Zenon
    <2>3. QED
      BY <2>1, <2>2 DEF CursorInv
  <1>4. ASSUME NEW c \in Connection, NEW id \in Id, eth_unsubscribe(c, id)
        PROVE  CursorInv'
    <2>1. UNCHANGED <<events, next, missed, todo>>
      BY Zenon, <1>4 DEF eth_unsubscribe
    <2>2. \A d \in Connection : \A i \in DOMAIN subs'[d] :
              i \in DOMAIN subs[d] /\ since'[i] = since[i]
      BY <1>4, RemainingKept, Zenon
    <2>3. QED
      BY <2>1, <2>2 DEF CursorInv
  <1>5. ASSUME NEW c \in Connection, Close(c)
        PROVE  CursorInv'
    <2>1. /\ next'[c] = 1 /\ missed'[c] = {} /\ todo'[c] = {}
          /\ \A d \in Connection : d # c =>
                next'[d] = next[d] /\ missed'[d] = missed[d] /\ todo'[d] = todo[d]
          /\ events' = events
      BY Zenon, <1>5 DEF Close, TypeInv
    <2>2. DOMAIN subs'[c] = {}
      BY Zenon, <1>5 DEF Close, NoSubs, TypeInv
    <2>3. \A d \in Connection : \A i \in DOMAIN subs'[d] :
              i \in DOMAIN subs[d] /\ since'[i] = since[i]
      BY <1>5, RemainingKept, Zenon
    <2>4. QED
      BY <1>0, <2>1, <2>2, <2>3 DEF CursorInv
  <1>6. ASSUME NEW c \in Connection, Receive(c)
        PROVE  CursorInv'
    <2>1. UNCHANGED <<events, subs, since, missed>>
      BY <1>6 DEF Receive
    <2>2. /\ next'[c] = next[c] + 1 /\ next[c] <= Len(events)
          /\ \A d \in Connection : d # c => next'[d] = next[d] /\ todo'[d] = todo[d]
      BY <1>0, <1>6 DEF Receive, TypeInv, Oldest
    <2>3. ASSUME NEW d \in Connection, d # c
          PROVE  Cursor(d)'
      BY Zenon, <2>1, <2>2, <2>3 DEF CursorInv
    <2>4. /\ next[c] + 1 <= Len(events) + 1 /\ next[c] + 1 > 1
          /\ \A p \in missed[c] : p < next[c] + 1 /\ p + Capacity <= Len(events)
          /\ \A i \in DOMAIN subs[c] : since[i] \in 1..next[c] + 1
      BY <1>0, <2>2 DEF CursorInv
    <2>5. Cursor(c)'
      BY Zenon, <2>1, <2>2, <2>4
    <2>6. QED
      BY Zenon, <2>3, <2>5 DEF CursorInv
  <1>7. ASSUME NEW c \in Connection, ReceiveLagged(c)
        PROVE  CursorInv'
    <2>1. UNCHANGED <<events, subs, since, todo>> /\ todo[c] = {} /\ next[c] < Oldest
      BY <1>7 DEF ReceiveLagged, Selecting
    <2>2. /\ next'[c] = Oldest /\ missed'[c] = missed[c] \cup next[c]..Oldest - 1
          /\ \A d \in Connection : d # c => next'[d] = next[d] /\ missed'[d] = missed[d]
      BY <1>7 DEF ReceiveLagged, TypeInv
    <2>3. Oldest = Len(events) - Capacity + 1 /\ Oldest \in Nat
      BY <1>0, <2>1 DEF Oldest
    <2>4. \A p \in missed'[c] : p < next'[c] /\ p + Capacity <= Len(events)
      <3>1. \A p \in missed[c] : p < next[c] /\ p + Capacity <= Len(events) /\ p \in Nat
        BY <1>0 DEF CursorInv
      <3>2. \A p \in next[c]..Oldest - 1 : p < Oldest /\ p + Capacity <= Len(events)
        BY <1>0, <2>3
      <3>3. \A p \in missed[c] : p < Oldest
        BY <1>0, <2>1, <2>3, <3>1
      <3>4. QED
        BY <2>2, <3>1, <3>2, <3>3
    <2>5. next'[c] <= Len(events) + 1
      BY <1>0, <2>2, <2>3
    <2>6. \A i \in DOMAIN subs[c] : since[i] \in 1..Oldest
      <3>1. \A i \in DOMAIN subs[c] : since[i] \in 1..next[c]
        BY Zenon DEF CursorInv
      <3>2. QED
        BY <1>0, <2>1, <2>3, <3>1
    <2>7. Cursor(c)'
      BY Zenon, <2>1, <2>2, <2>4, <2>5, <2>6
    <2>8. ASSUME NEW d \in Connection, d # c
          PROVE  Cursor(d)'
      BY Zenon, <2>1, <2>2, <2>8 DEF CursorInv
    <2>9. QED
      BY Zenon, <2>7, <2>8 DEF CursorInv
  <1>8. ASSUME NEW c \in Connection, NEW id \in Id, Notify(c, id)
        PROVE  CursorInv'
    <2>1. UNCHANGED <<events, next, subs, since, missed>>
      BY <1>8 DEF Notify
    <2>2. \A d \in Connection : todo'[d] \subseteq todo[d]
      BY Zenon, <1>8 DEF Notify, TypeInv
    <2>3. QED
      BY Zenon, <2>1, <2>2 DEF CursorInv
  <1>9. CASE UNCHANGED vars
    BY <1>9 DEF vars, CursorInv
  <1>10. QED
    BY Zenon, <1>1, <1>2, <1>3, <1>4, <1>5, <1>6, <1>7, <1>8, <1>9, StepCases

-----------------------------------------------------------------------------

\* Every step keeps the invariant.
LEMMA InvariantStep ==
    ASSUME IInv, [Next]_vars
    PROVE  IInv'
  <1>1. TypeInv' /\ IdInv'
    BY TypeStep, IdStep DEF IInv
  <1>2. CursorInv' /\ StreamInv'
    BY CursorStep, StreamStep DEF IInv
  <1>3. NotificationsInOrder' /\ TodoInv'
    BY OrderStep, TodoStep DEF IInv
  <1>4. DeliveredExactly'
    <2>1. \A c \in Connection : \A id \in DOMAIN subs'[c] :
              Range(notified'[id]) = Due(c, id)'
      BY DeliveryStep DEF IInv
    <2>2. \A c \in Connection : \A p \in missed'[c] : p + Capacity <= Len(events')
      BY <1>2 DEF CursorInv
    <2>3. QED
      BY Zenon, <2>1, <2>2 DEF DeliveredExactly, Due
  <1>5. QED
    BY <1>1, <1>2, <1>3, <1>4 DEF IInv

\* The invariant holds in every reachable state.
LEMMA Invariant == Spec => []IInv
  BY InitIInv, InvariantStep, PTL DEF Spec

\* A subscription's notifications follow the order of the channel, without
\* repetition: Spec implies []NotificationsInOrder.
THEOREM InOrder == Spec => []NotificationsInOrder
  <1>1. IInv => NotificationsInOrder
    BY DEF IInv
  <1>2. QED
    BY <1>1, Invariant, PTL

\* A subscription is sent all it asked for and nothing else, but for what the
\* channel overwrote: Spec implies []DeliveredExactly.
THEOREM Delivery == Spec => []DeliveredExactly
  <1>1. IInv => DeliveredExactly
    BY DEF IInv
  <1>2. QED
    BY <1>1, Invariant, PTL

\* A head that has been delivered closes its block: Spec implies
\* []HeadClosesItsBlock.
THEOREM HeadCloses == Spec => []HeadClosesItsBlock
  <1>1. IInv => HeadClosesItsBlock
    BY HeadAfterLogs
  <1>2. QED
    BY <1>1, Invariant, PTL

-----------------------------------------------------------------------------
(* The node's side is EventStream. *)

task_vars == <<SUB_COUNTER, status, next, subs, todo, history>>

\* The bounds of the module.
InBounds ==
    /\ block' # block => block < MaxBlocks
    /\ events' # events =>
          /\ Len(events) < MaxEvents
          /\ Latest'.kind = "PendingTx" =>
                Cardinality({p \in DOMAIN events : events[p].kind = "PendingTx"}) < MaxPending

\* A step of EventStream; a message it sends, the same as the one before it
\* included, is put at the end of the channel, a log with some contents.
EventStreamStep ==
    /\ \/ Node!Begin /\ UNCHANGED events
       \/ /\ Node!PublishPending \/ Node!PublishLog \/ Node!PublishHead
          /\ \E m \in Message : events' = Append(events, m)
    /\ InBounds
    /\ UNCHANGED task_vars

\* The tasks, with EventStream in the place of the node.
ComposedNext == EventStreamStep \/ \E c \in Connection : Task(c)

Composed == Node!Init /\ Init /\ [][ComposedNext]_vars

\* A message that is appended to the channel is the latest, and changes it.
LEMMA LatestIsAppended ==
    ASSUME TypeInv, NEW m, events' = Append(events, m)
    PROVE  /\ Latest' = [kind |-> m.kind, block |-> m.block]
           /\ events' # events
  <1>1. Len(events') = Len(events) + 1 /\ events'[Len(events) + 1] = m
    BY DEF TypeInv
  <1>2. Len(events) \in Nat
    BY DEF TypeInv
  <1>3. events' # events
    BY <1>1, <1>2
  <1>4. events' # <<>>
    BY <1>1, <1>2
  <1>5. QED
    BY <1>1, <1>3, <1>4 DEF Latest

\* Each step of EventStream, recorded on the channel, is a step of the node's side.
LEMMA EventStreamIsCovered ==
    ASSUME TypeInv, EventStreamStep
    PROVE  Publish
  <1>1. CASE Node!Begin /\ UNCHANGED events
    <2>1. block' = block + 1 /\ block' # block /\ UNCHANGED <<events, head>>
      BY <1>1 DEF Node!Begin, TypeInv
    <2>2. block < MaxBlocks /\ UNCHANGED <<SUB_COUNTER, status, next, subs, todo, history>>
      BY Zenon, <2>1 DEF EventStreamStep, InBounds, task_vars
    <2>3. QED
      BY Zenon, <2>1, <2>2 DEF Publish, BeginBlock
  <1>2. ASSUME NEW m \in Message, events' = Append(events, m),
               Node!PublishPending \/ Node!PublishLog \/ Node!PublishHead
        PROVE  Publish
    <2>1. Latest' = [kind |-> m.kind, block |-> m.block] /\ events' # events
      BY Zenon, <1>2, LatestIsAppended
    <2>2. /\ Len(events) < MaxEvents
          /\ Latest'.kind = "PendingTx" =>
                Cardinality({p \in DOMAIN events : events[p].kind = "PendingTx"}) < MaxPending
          /\ UNCHANGED <<SUB_COUNTER, status, next, subs, todo, history>>
      BY Zenon, <2>1 DEF EventStreamStep, InBounds, task_vars
    <2>3. Send(m)
      BY Zenon, <1>2, <2>2 DEF Send
    <2>4. CASE Node!PublishPending
      <3>1. m.kind = "PendingTx" /\ m.block = 0 /\ Latest'.kind = "PendingTx"
        BY <2>1, <2>4 DEF Node!PublishPending, Node!PendingTxEvent
      <3>2. m = [kind |-> "PendingTx", block |-> 0]
        BY <3>1 DEF Message
      <3>3. QED
        BY Zenon, <2>2, <2>3, <2>4, <3>1, <3>2
        DEF Publish, PublishPending, Node!PublishPending
    <2>5. CASE Node!PublishLog
      <3>1. m.kind = "Log" /\ m.block = block
        BY <2>1, <2>5 DEF Node!PublishLog, Node!LogEvent
      <3>2. PICK content \in Content :
                m = [kind |-> "Log", block |-> block, content |-> content]
        BY <3>1 DEF Message
      <3>3. PublishLog(content)
        BY Zenon, <2>3, <2>5, <3>2 DEF PublishLog, Node!PublishLog, Node!Mining
      <3>4. QED
        BY Zenon, <3>3 DEF Publish
    <2>6. CASE Node!PublishHead
      <3>1. m.kind = "NewHead" /\ m.block = block
        BY <2>1, <2>6 DEF Node!PublishHead, Node!NewHeadEvent
      <3>2. m = [kind |-> "NewHead", block |-> block]
        BY <3>1 DEF Message
      <3>3. QED
        BY Zenon, <2>3, <2>6, <3>2 DEF Publish, PublishHead, Node!PublishHead, Node!Mining
    <2>7. QED
      BY Zenon, <1>2, <2>4, <2>5, <2>6
  <1>3. QED
    BY Zenon, <1>1, <1>2 DEF EventStreamStep

\* Each step of the node's side is a step of EventStream, recorded on the channel.
LEMMA PublishIsEventStream ==
    ASSUME TypeInv, Publish
    PROVE  EventStreamStep
  <1>1. CASE BeginBlock
    <2>1. /\ block' = block + 1 /\ block < MaxBlocks
          /\ UNCHANGED <<events, head, SUB_COUNTER, status, next, subs, todo, history>>
      BY Zenon, <1>1 DEF BeginBlock
    <2>2. Node!Begin /\ InBounds
      BY Zenon, <2>1 DEF Node!Begin, Latest, InBounds
    <2>3. QED
      BY Zenon, <2>1, <2>2 DEF EventStreamStep, task_vars
  <1>2. ASSUME NEW m \in Message, Send(m), UNCHANGED block,
               Node!PublishPending \/ Node!PublishLog \/ Node!PublishHead,
               m.kind = "PendingTx" => PublishPending
        PROVE  EventStreamStep
    <2>1. events' = Append(events, m) /\ Len(events) < MaxEvents /\ UNCHANGED task_vars
      BY Zenon, <1>2 DEF Send, task_vars
    <2>2. Latest'.kind = m.kind
      BY <2>1, LatestIsAppended
    <2>3. InBounds
      BY Zenon, <1>2, <2>1, <2>2 DEF InBounds, PublishPending
    <2>4. QED
      BY Zenon, <1>2, <2>1, <2>3 DEF EventStreamStep
  <1>3. ASSUME NEW m, Send(m)
        PROVE  Latest' = [kind |-> m.kind, block |-> m.block]
    BY Zenon, <1>3, LatestIsAppended DEF Send
  <1>4. CASE PublishPending
    <2> DEFINE m == [kind |-> "PendingTx", block |-> 0]
    <2>1. m \in Message /\ m.kind = "PendingTx" /\ m.block = 0
      BY DEF Message
    <2>2. Send(m) /\ UNCHANGED <<block, head>>
      BY Zenon, <1>4 DEF PublishPending
    <2> HIDE DEF m
    <2>3. Node!PublishPending
      BY Zenon, <1>3, <2>1, <2>2 DEF Node!PublishPending, Node!PendingTxEvent
    <2>4. QED
      BY Zenon, <1>2, <1>4, <2>1, <2>2, <2>3
  <1>5. ASSUME NEW content \in Content, PublishLog(content)
        PROVE  EventStreamStep
    <2> DEFINE m == [kind |-> "Log", block |-> block, content |-> content]
    <2>1. m \in Message /\ m.kind = "Log" /\ m.block = block
      BY DEF Message, TypeInv
    <2>2. Send(m) /\ UNCHANGED <<block, head>> /\ head < block
      BY Zenon, <1>5 DEF PublishLog
    <2> HIDE DEF m
    <2>3. Node!PublishLog
      BY Zenon, <1>3, <2>1, <2>2 DEF Node!PublishLog, Node!LogEvent, Node!Mining
    <2>4. m.kind # "PendingTx"
      BY <2>1
    <2>5. QED
      BY Zenon, <1>2, <2>1, <2>2, <2>3, <2>4
  <1>6. CASE PublishHead
    <2> DEFINE m == [kind |-> "NewHead", block |-> block]
    <2>1. m \in Message /\ m.kind = "NewHead" /\ m.block = block
      BY DEF Message, TypeInv
    <2>2. Send(m) /\ head' = block /\ UNCHANGED block /\ head < block
      BY Zenon, <1>6 DEF PublishHead
    <2> HIDE DEF m
    <2>3. Node!PublishHead
      BY Zenon, <1>3, <2>1, <2>2 DEF Node!PublishHead, Node!NewHeadEvent, Node!Mining
    <2>4. m.kind # "PendingTx"
      BY <2>1
    <2>5. QED
      BY Zenon, <1>2, <2>1, <2>2, <2>3, <2>4
  <1>7. QED
    BY Zenon, <1>1, <1>4, <1>5, <1>6 DEF Publish

\* The node's side of Subscriptions publishes what EventStream does, no more and no
\* less: composing the tasks with EventStream itself, which RpcNode implements, gives
\* the same behaviours.  So the theorems above hold of tasks that receive any stream
\* of messages EventStream allows, in particular the node's.
THEOREM NodeIsEventStream == Composed <=> Spec
  <1>1. Init => Node!Init
    BY Zenon DEF Init, Node!Init, Latest, Node!NoEvent
  <1>2. IInv /\ [ComposedNext]_vars => [Next]_vars
    BY Zenon, EventStreamIsCovered DEF IInv, ComposedNext, Next
  <1>3. IInv /\ [Next]_vars => [ComposedNext]_vars
    BY Zenon, PublishIsEventStream DEF IInv, ComposedNext, Next
  <1>4. IInv /\ [Next]_vars => IInv'
    BY InvariantStep
  <1>5. QED
    BY <1>1, <1>2, <1>3, <1>4, InitIInv, PTL DEF Composed, Spec

=============================================================================
