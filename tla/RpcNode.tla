------------------------------- MODULE RpcNode -------------------------------
(***************************************************************************)
(* src/rpc: the node behind the HTTP endpoint.  Every request is a task of *)
(* its own; tasks share RpcState and interleave at every lock acquisition. *)
(* The module models the requests that change the node                     *)
(* (eth_sendRawTransaction, evm_mine, set_auto_mine) and the one that      *)
(* reads two fields under two locks (eth_getBlockByNumber).                *)
(*                                                                         *)
(* mine_block takes the write locks of state, block_number and receipts in *)
(* this order and keeps them to its end; every other task takes one lock   *)
(* at a time and releases it before its next await, so its whole critical  *)
(* section is one step here.  The state lock's holder is the only task     *)
(* that can be inside a block, so the locals of that task (active_nonces,  *)
(* gas_used, selected) are single variables.  A local that goes out of     *)
(* scope returns to its initial value.                                     *)
(*                                                                         *)
(* Accounts are what the runner (apply_signed_transaction) reads and       *)
(* writes of a sender: nonce and balance.  What contract code does to      *)
(* other accounts is not modelled here.                                    *)
(***************************************************************************)
EXTENDS TxPool

CONSTANTS
    Request,        \* the HTTP requests that may arrive
    Nobody,         \* "the lock is free"
    NoTx,           \* "no transaction"
    NoRoot,         \* the 32 zero bytes state_root starts with
    Sends,          \* Sends[r]: transactions request r may carry
    Miners,         \* requests that may be evm_mine
    Readers,        \* requests that may be eth_getBlockByNumber
    HangUps,        \* requests whose client may disconnect
    AutoMineValues, \* the values auto_mine takes
    InitNonce,      \* nonces of the senders in the genesis state
    InitBalance,    \* balances of the senders in the genesis state
    Credits,        \* what executed code may add to its sender's balance
    WordMod         \* 2^256: balances, values and fees are U256, which wraps

ASSUME RequestAssumption ==
    /\ Nobody \notin Request
    /\ NoTx \notin Tx
    /\ Sends \in [Request -> SUBSET Tx]
    /\ Miners \subseteq Request
    /\ Readers \subseteq Request
    /\ HangUps \subseteq Request
    /\ AutoMineValues \subseteq BOOLEAN
    /\ InitNonce \in [Sender -> Nat]
    /\ WordMod \in Nat \ {0}
    /\ InitBalance \in [Sender -> 0 .. (WordMod - 1)]
    /\ Credits \subseteq Nat

VARIABLES
    (* RpcState *)
    by_sender,      \* tx_pool
    nonce,          \* state: account nonces
    balance,        \* state: account balances
    receipts,       \* transactions with a receipt
    block_number,
    state_root,     \* what the stored root is the root of
    auto_mine,
    event,          \* the latest message on the broadcast channel
    (* locks *)
    state_lock,     \* holder of state's write lock
    number_lock,    \* holder of block_number's write lock
    receipts_lock,  \* holder of receipts' write lock
    pool_lock,      \* holder of the pool's mutex inside pop_executable
    (* tasks *)
    pc,             \* where each request is
    tx,             \* the transaction a request carries
    seen,           \* senders() as mine_block read it, before any lock
    active_nonces,  \* pop_executable's working copy of current_nonces
    gas_used,       \* gas limits of the transactions selected so far
    selected,       \* transactions popped and not executed yet
    number_read,    \* eth_getBlockByNumber's first read
    (* history *)
    root_block,     \* the block whose mining stored state_root
    failed_blocks,  \* block numbers whose mining returned an error
    root_read,      \* the root_block eth_getBlockByNumber answered with
    accepted,       \* transactions the pool accepted
    paid,           \* what each sender's transactions cost it, less the credits
    last_head       \* the block number of the latest NewHead message

pool_vars == <<by_sender, pool_lock>>
event_vars == <<event, last_head>>
account_vars == <<nonce, balance, paid>>
chain_vars == <<receipts, block_number, state_root, root_block, failed_blocks,
                accepted>>
lock_vars == <<state_lock, number_lock, receipts_lock>>
block_vars == <<active_nonces, gas_used, selected>>
read_vars == <<number_read, root_read>>

vars == <<pool_vars, account_vars, chain_vars, lock_vars, block_vars, read_vars,
          event_vars, auto_mine, pc, tx, seen>>

-----------------------------------------------------------------------------

Accounts == [nonce |-> nonce, balance |-> balance]

NoNonces == [s \in Sender |-> 0]

NoEvent == [kind |-> "none", block |-> 0]

PendingTxEvent == [kind |-> "PendingTx", block |-> 0]

\* Variant: the log carries the parent's number.
LogEventOfParent(n) == [kind |-> "Log", block |-> n - 1]

LogEvent(n) == [kind |-> "Log", block |-> n]

NewHeadEvent(n) == [kind |-> "NewHead", block |-> n]

\* RpcState::new
Init ==
    /\ by_sender = EmptyPool
    /\ nonce = InitNonce
    /\ balance = InitBalance
    /\ receipts = {}
    /\ block_number = 0
    /\ state_root = NoRoot
    /\ auto_mine = TRUE
    /\ event = NoEvent
    /\ state_lock = Nobody
    /\ number_lock = Nobody
    /\ receipts_lock = Nobody
    /\ pool_lock = Nobody
    /\ pc = [r \in Request |-> "idle"]
    /\ tx = [r \in Request |-> NoTx]
    /\ seen = [r \in Request |-> {}]
    /\ active_nonces = NoNonces
    /\ gas_used = 0
    /\ selected = <<>>
    /\ number_read = [r \in Request |-> 0]
    /\ root_block = 0
    /\ failed_blocks = {}
    /\ root_read = [r \in Request |-> 0]
    /\ accepted = {}
    /\ paid = [s \in Sender |-> 0]
    /\ last_head = 0

Goto(r, label) == pc' = [pc EXCEPT ![r] = label]

(***************************************************************************)
(* eth_sendRawTransaction                                                  *)
(***************************************************************************)

\* The account's nonce is read under a read lock that is released at once; a
\* transaction with a lower nonce is refused.
ReadNonce(r, t) ==
    /\ pc[r] = "idle"
    /\ t \in Sends[r]
    /\ state_lock = Nobody
    /\ tx' = [tx EXCEPT ![r] = t]
    /\ Goto(r, IF t.nonce < nonce[t.sender] THEN "rejected" ELSE "insert")
    /\ UNCHANGED <<pool_vars, account_vars, chain_vars, lock_vars, block_vars,
                   read_vars, event_vars, auto_mine, seen>>

InsertTx(r) ==
    /\ pc[r] = "insert"
    /\ pool_lock = Nobody
    /\ tx' = [tx EXCEPT ![r] = NoTx]
    /\ IF Insertable(by_sender, tx[r])
          THEN /\ by_sender' = Insert(by_sender, tx[r])
               /\ accepted' = accepted \cup {tx[r]}
               /\ Goto(r, "announce")
          ELSE /\ Goto(r, "rejected")
               /\ UNCHANGED <<by_sender, accepted>>
    /\ UNCHANGED <<pool_lock, account_vars, receipts, block_number, state_root,
                   root_block, failed_blocks, lock_vars, block_vars, read_vars,
                   event_vars, auto_mine, seen>>

AnnouncePending(r) ==
    /\ pc[r] = "announce"
    /\ event' = PendingTxEvent
    /\ Goto(r, "auto")
    /\ UNCHANGED <<pool_vars, account_vars, chain_vars, lock_vars, block_vars,
                   read_vars, last_head, auto_mine, tx, seen>>

CheckAutoMine(r) ==
    /\ pc[r] = "auto"
    /\ Goto(r, IF auto_mine THEN "senders" ELSE "done")
    /\ UNCHANGED <<pool_vars, account_vars, chain_vars, lock_vars, block_vars,
                   read_vars, event_vars, auto_mine, tx, seen>>

\* evm_mine
evm_mine(r) ==
    /\ pc[r] = "idle"
    /\ r \in Miners
    /\ Goto(r, "senders")
    /\ UNCHANGED <<pool_vars, account_vars, chain_vars, lock_vars, block_vars,
                   read_vars, event_vars, auto_mine, tx, seen>>

set_auto_mine(enabled) ==
    /\ auto_mine' = enabled
    /\ UNCHANGED <<pool_vars, account_vars, chain_vars, lock_vars, block_vars,
                   read_vars, event_vars, pc, tx, seen>>

(***************************************************************************)
(* mine_block                                                              *)
(***************************************************************************)

ReadSenders(r) ==
    /\ pc[r] = "senders"
    /\ pool_lock = Nobody
    /\ seen' = [seen EXCEPT ![r] = senders(by_sender)]
    /\ Goto(r, "state")
    /\ UNCHANGED <<pool_vars, account_vars, chain_vars, lock_vars, block_vars,
                   read_vars, event_vars, auto_mine, tx>>

\* Variant: mine_block shares the state lock.
LockStateShared(r) ==
    /\ pc[r] = "state"
    /\ state_lock' = r
    /\ Goto(r, "number")
    /\ UNCHANGED <<pool_vars, account_vars, chain_vars, number_lock,
                   receipts_lock, block_vars, read_vars, event_vars, auto_mine,
                   tx, seen>>

LockState(r) ==
    /\ pc[r] = "state"
    /\ state_lock = Nobody
    /\ state_lock' = r
    /\ Goto(r, "number")
    /\ UNCHANGED <<pool_vars, account_vars, chain_vars, number_lock,
                   receipts_lock, block_vars, read_vars, event_vars, auto_mine,
                   tx, seen>>

\* Variant: the nonces are not read.
StartBlockWithoutNonces(r) ==
    /\ pc[r] = "number"
    /\ number_lock = Nobody
    /\ number_lock' = r
    /\ block_number' = block_number + 1
    /\ active_nonces' = NoNonces
    /\ Goto(r, "pop")
    /\ UNCHANGED <<pool_vars, account_vars, receipts, state_root, root_block,
                   failed_blocks, accepted, state_lock, receipts_lock, gas_used,
                   selected, read_vars, event_vars, auto_mine, tx, seen>>

\* The block number is taken and the nonces of the senders seen earlier are read;
\* pop_executable expects nonce 0 of a sender that current_nonces lacks.
StartBlock(r) ==
    /\ pc[r] = "number"
    /\ number_lock = Nobody
    /\ number_lock' = r
    /\ block_number' = block_number + 1
    /\ active_nonces' =
          [s \in Sender |-> IF s \in seen[r] THEN nonce[s] ELSE 0]
    /\ Goto(r, "pop")
    /\ UNCHANGED <<pool_vars, account_vars, receipts, state_root, root_block,
                   failed_blocks, accepted, state_lock, receipts_lock, gas_used,
                   selected, read_vars, event_vars, auto_mine, tx, seen>>

\* One iteration of pop_executable's loop.  The pool's mutex is held from the
\* first iteration to the end of the loop.
PopNext(r) ==
    /\ pc[r] = "pop"
    /\ pool_lock \in {Nobody, r}
    /\ \E t \in Best(by_sender, active_nonces, gas_used) :
          /\ by_sender' = Remove(by_sender, t)
          /\ gas_used' = gas_used + t.gas_limit
          /\ active_nonces' = [active_nonces EXCEPT ![t.sender] = t.nonce + 1]
          /\ selected' = Append(selected, t)
    /\ pool_lock' = r
    /\ UNCHANGED <<account_vars, chain_vars, lock_vars, read_vars, event_vars,
                   auto_mine, pc, tx, seen>>

\* The iteration that finds no candidate ends the loop and frees the mutex.
PopDone(r) ==
    /\ pc[r] = "pop"
    /\ pool_lock \in {Nobody, r}
    /\ Best(by_sender, active_nonces, gas_used) = {}
    /\ pool_lock' = Nobody
    /\ active_nonces' = NoNonces
    /\ gas_used' = 0
    /\ Goto(r, "receipts")
    /\ UNCHANGED <<by_sender, account_vars, chain_vars, lock_vars, selected,
                   read_vars, event_vars, auto_mine, tx, seen>>

LockReceipts(r) ==
    /\ pc[r] = "receipts"
    /\ receipts_lock = Nobody
    /\ receipts_lock' = r
    /\ Goto(r, "apply")
    /\ UNCHANGED <<pool_vars, account_vars, chain_vars, state_lock, number_lock,
                   block_vars, read_vars, event_vars, auto_mine, tx, seen>>

\* apply_signed_transaction: what the sender must own, and what it pays first.
max_gas_cost(t) == (t.gas_limit * t.max_fee_per_gas) % WordMod

\* Variant: the fee is left out.
UpfrontValueOnly(t) == t.value % WordMod

total_upfront_cost(t) == (t.value + max_gas_cost(t)) % WordMod

refund_amount(t, used) == ((t.gas_limit - used) * t.max_fee_per_gas) % WordMod

\* Variant: the nonce is not compared.
ApplicableAnyNonce(t) == balance[t.sender] >= total_upfront_cost(t)

Applicable(t) ==
    /\ nonce[t.sender] = t.nonce
    /\ balance[t.sender] >= total_upfront_cost(t)

\* apply_signed_transaction and the rest of mine_block's loop body.  The virtual
\* machine's run uses some gas, may succeed, and if so may credit the sender and
\* emit logs.  The fee of the unused gas is paid back either way.
ApplyTx(r) ==
    /\ pc[r] = "apply"
    /\ selected # <<>>
    /\ LET t == Head(selected) IN
       /\ Applicable(t)
       /\ \E used \in 0 .. t.gas_limit, success \in BOOLEAN, logs \in BOOLEAN,
            credit \in Credits \cup {0} :
            /\ ~success => ~logs /\ credit = 0
            /\ nonce' = [nonce EXCEPT ![t.sender] = @ + 1]
            /\ balance' = [balance EXCEPT ![t.sender] =
                  (@ - max_gas_cost(t) + credit + refund_amount(t, used)) % WordMod]
            /\ paid' = [paid EXCEPT ![t.sender] =
                  @ + used * t.max_fee_per_gas - credit]
            /\ event' = IF logs THEN LogEvent(block_number) ELSE event
       /\ receipts' = receipts \cup {t}
    /\ selected' = Tail(selected)
    /\ UNCHANGED <<pool_vars, block_number, state_root, root_block,
                   failed_blocks, accepted, lock_vars, active_nonces, gas_used,
                   read_vars, last_head, auto_mine, pc, tx, seen>>

\* mine_block returns early: its guards are dropped, and with them the
\* transactions it had popped.
Abandon(r) ==
    /\ failed_blocks' = failed_blocks \cup {block_number}
    /\ selected' = <<>>
    /\ state_lock' = Nobody
    /\ number_lock' = Nobody
    /\ receipts_lock' = Nobody
    /\ seen' = [seen EXCEPT ![r] = {}]
    /\ UNCHANGED <<pool_vars, account_vars, receipts, block_number, state_root,
                   root_block, accepted, active_nonces, gas_used, read_vars,
                   event_vars, auto_mine, tx>>

\* The "?" after apply_signed_transaction.
ApplyFails(r) ==
    /\ pc[r] = "apply"
    /\ selected # <<>>
    /\ ~Applicable(Head(selected))
    /\ Goto(r, "failed")
    /\ Abandon(r)

\* Variant: the guards are dropped before the head is published.
StoreRootAndRelease(r) ==
    /\ pc[r] = "apply"
    /\ selected = <<>>
    /\ state_root' = Accounts
    /\ root_block' = block_number
    /\ state_lock' = Nobody
    /\ number_lock' = Nobody
    /\ receipts_lock' = Nobody
    /\ Goto(r, "head")
    /\ UNCHANGED <<pool_vars, account_vars, receipts, block_number,
                   failed_blocks, accepted, block_vars, read_vars, event_vars,
                   auto_mine, tx, seen>>

StoreRoot(r) ==
    /\ pc[r] = "apply"
    /\ selected = <<>>
    /\ state_root' = Accounts
    /\ root_block' = block_number
    /\ Goto(r, "head")
    /\ UNCHANGED <<pool_vars, account_vars, receipts, block_number,
                   failed_blocks, accepted, lock_vars, block_vars, read_vars,
                   event_vars, auto_mine, tx, seen>>

\* Variant: the guard of block_number outlives the call.
PublishHeadKeepingNumber(r) ==
    /\ pc[r] = "head"
    /\ event' = NewHeadEvent(block_number)
    /\ last_head' = block_number
    /\ state_lock' = Nobody
    /\ receipts_lock' = Nobody
    /\ seen' = [seen EXCEPT ![r] = {}]
    /\ Goto(r, "done")
    /\ UNCHANGED <<pool_vars, account_vars, chain_vars, number_lock, block_vars,
                   read_vars, auto_mine, tx>>

\* The NewHead message is sent and mine_block returns, dropping its guards.
PublishHead(r) ==
    /\ pc[r] = "head"
    /\ event' = NewHeadEvent(block_number)
    /\ last_head' = block_number
    /\ state_lock' = Nobody
    /\ number_lock' = Nobody
    /\ receipts_lock' = Nobody
    /\ seen' = [seen EXCEPT ![r] = {}]
    /\ Goto(r, "done")
    /\ UNCHANGED <<pool_vars, account_vars, chain_vars, block_vars, read_vars,
                   auto_mine, tx>>

\* The client disconnects and the server drops the task at an await: at
\* state.write(), block_number.write(), receipts.write() or state_root.write().
HangUp(r) ==
    /\ r \in HangUps
    /\ \/ /\ pc[r] \in {"state", "number"}
          /\ state_lock' = IF pc[r] = "number" THEN Nobody ELSE state_lock
          /\ seen' = [seen EXCEPT ![r] = {}]
          /\ UNCHANGED <<pool_vars, account_vars, chain_vars, number_lock,
                         receipts_lock, block_vars, read_vars, event_vars,
                         auto_mine, tx>>
       \/ /\ pc[r] = "receipts" \/ (pc[r] = "apply" /\ selected = <<>>)
          /\ Abandon(r)
    /\ Goto(r, "dropped")

(***************************************************************************)
(* eth_getBlockByNumber: two reads under two locks.                        *)
(***************************************************************************)

\* Variant: the number is read without its lock.
ReadNumberUnlocked(r) ==
    /\ pc[r] = "idle"
    /\ r \in Readers
    /\ number_read' = [number_read EXCEPT ![r] = block_number]
    /\ Goto(r, "root")
    /\ UNCHANGED <<pool_vars, account_vars, chain_vars, lock_vars, block_vars,
                   root_read, event_vars, auto_mine, tx, seen>>

ReadNumber(r) ==
    /\ pc[r] = "idle"
    /\ r \in Readers
    /\ number_lock = Nobody
    /\ number_read' = [number_read EXCEPT ![r] = block_number]
    /\ Goto(r, "root")
    /\ UNCHANGED <<pool_vars, account_vars, chain_vars, lock_vars, block_vars,
                   root_read, event_vars, auto_mine, tx, seen>>

ReadRoot(r) ==
    /\ pc[r] = "root"
    /\ root_read' = [root_read EXCEPT ![r] = root_block]
    /\ Goto(r, "answered")
    /\ UNCHANGED <<pool_vars, account_vars, chain_vars, lock_vars, block_vars,
                   number_read, event_vars, auto_mine, tx, seen>>

-----------------------------------------------------------------------------

\* What a task does once its request has arrived.
Step(r) ==
    \/ InsertTx(r) \/ AnnouncePending(r) \/ CheckAutoMine(r)
    \/ ReadSenders(r) \/ LockState(r) \/ StartBlock(r)
    \/ PopNext(r) \/ PopDone(r) \/ LockReceipts(r)
    \/ ApplyTx(r) \/ ApplyFails(r) \/ StoreRoot(r) \/ PublishHead(r)
    \/ ReadRoot(r)

Next ==
    \/ \E r \in Request :
          \/ \E t \in Tx : ReadNonce(r, t)
          \/ evm_mine(r)
          \/ ReadNumber(r)
          \/ Step(r)
          \/ HangUp(r)
    \/ \E enabled \in AutoMineValues : set_auto_mine(enabled)

Spec == Init /\ [][Next]_vars

\* The runtime polls every task that can proceed, and tokio's RwLock queues its
\* waiters, so a task that waits for the state lock gets it in the end even if
\* other tasks take it first.
Fairness ==
    \A r \in Request : WF_vars(Step(r)) /\ SF_vars(LockState(r))

FairSpec == Spec /\ Fairness

-----------------------------------------------------------------------------
(***************************************************************************)
(* Properties                                                              *)
(***************************************************************************)

Label ==
    {"idle", "insert", "announce", "auto", "senders", "state", "number", "pop",
     "receipts", "apply", "head", "root", "done", "rejected", "failed",
     "dropped", "answered"}

Event == [kind : {"none", "PendingTx", "Log", "NewHead"}, block : Nat]

Holder == Request \cup {Nobody}

\* Every field of RpcState and every local of a handler has its type.
TypeOK ==
    /\ by_sender \in Pool
    /\ nonce \in [Sender -> Nat]
    /\ balance \in [Sender -> 0 .. (WordMod - 1)]
    /\ paid \in [Sender -> Int]
    /\ receipts \subseteq Tx
    /\ block_number \in Nat
    /\ state_root \in [nonce : [Sender -> Nat],
                      balance : [Sender -> 0 .. (WordMod - 1)]] \cup {NoRoot}
    /\ auto_mine \in BOOLEAN
    /\ event \in Event
    /\ state_lock \in Holder
    /\ number_lock \in Holder
    /\ receipts_lock \in Holder
    /\ pool_lock \in Holder
    /\ pc \in [Request -> Label]
    /\ tx \in [Request -> Tx \cup {NoTx}]
    /\ \A r \in Request : pc[r] = "insert" => tx[r] \in Tx
    /\ seen \in [Request -> SUBSET Sender]
    /\ active_nonces \in [Sender -> Nat]
    /\ gas_used \in Nat
    /\ selected \in Seq(Tx)
    /\ number_read \in [Request -> Nat]
    /\ root_block \in Nat
    /\ failed_blocks \subseteq Nat
    /\ root_read \in [Request -> Nat]
    /\ accepted \subseteq Tx
    /\ last_head \in Nat

\* The transactions with a receipt are, for each sender, exactly one per nonce
\* from the genesis nonce up to the account's nonce: nothing is executed twice,
\* skipped, or executed without a receipt, however requests interleave and
\* whichever block fails or is dropped half way.
NonceCountsReceipts ==
    /\ \A s \in Sender :
          {t.nonce : t \in {u \in receipts : u.sender = s}}
            = InitNonce[s] .. (nonce[s] - 1)
    /\ \A t, u \in receipts :
          t.sender = u.sender /\ t.nonce = u.nonce => t = u

\* t's value and fee together are a word: total_upfront_cost does not wrap.
Fits(t) == t.value + t.gas_limit * t.max_fee_per_gas < WordMod

\* Over any sequence of blocks, failed ones included, a sender whose transactions
\* fit has paid for the gas they used and for nothing else, and never more than
\* it had: deducting the whole fee first and refunding the rest, each a wrapping
\* operation on words, adds up (apply_signed_transaction).
BalancesAccountedFor ==
    \A s \in Sender :
        (\A t \in receipts : t.sender = s => Fits(t)) =>
            /\ balance[s] = (InitBalance[s] - paid[s]) % WordMod
            /\ paid[s] + balance[s] <= InitBalance[s]

\* Every transaction the pool ever accepted (the client got no error from insert)
\* is pending, popped into the block being mined, or executed, as long as no
\* block failed or was dropped.
AcceptedAccountedFor ==
    failed_blocks = {} =>
        accepted \subseteq
            pending(by_sender) \cup {selected[i] : i \in DOMAIN selected}
                \cup receipts

\* Outside mine_block, if the latest block did not fail, the stored root is the
\* root of the current accounts.
RootIsCurrent ==
    /\ state_lock = Nobody
    /\ block_number > 0
    /\ block_number \notin failed_blocks
    => state_root = Accounts

\* What the node's tasks put on the broadcast channel is the stream EventStream
\* specifies, although the messages of a block and of the next are sent by
\* different tasks: each log carries the number of the block its sender is mining,
\* all logs of a block come before its head, and nothing of it comes after.
Stream == INSTANCE EventStream WITH block <- block_number, head <- last_head

PublishesEventStream == Stream!Spec

\* Heads are published in block order and none is left out, although each is sent
\* by another task: the only numbers passed over are those of failed blocks.
HeadsInOrder ==
    [][last_head' # last_head =>
          /\ last_head' > last_head
          /\ (last_head + 1) .. (last_head' - 1) \subseteq failed_blocks]_vars

\* eth_getBlockByNumber may answer with a root newer than the number it gives,
\* but never with an older one unless the block of that number failed: the order
\* of its two reads matters.
BlockAnswerNotStale ==
    \A r \in Request :
        pc[r] = "answered" =>
            \/ root_read[r] >= number_read[r]
            \/ number_read[r] \in failed_blocks

\* A block meets a nonce mismatch only for a sender that had no pending
\* transaction when mine_block listed the senders, and only for a transaction
\* whose nonce was used up in the meantime.
MismatchOnlyForUnseenSender ==
    \A r \in Request :
        pc[r] = "apply" /\ selected # <<>> =>
            LET t == Head(selected) IN
            t.nonce # nonce[t.sender] =>
                t.sender \notin seen[r] /\ t.nonce < nonce[t.sender]

\* Every mine_block call returns or is dropped: no order of lock acquisitions
\* leaves tasks waiting for each other.
Mining(r) ==
    pc[r] \in {"senders", "state", "number", "pop", "receipts", "apply", "head"}

MiningFinishes == \A r \in Request : Mining(r) ~> ~Mining(r)

\* A pending transaction that can run next, or that only waits for pending
\* transactions of its sender, is executed in the end.
Ready(t) ==
    /\ t \in by_sender[t.sender]
    /\ \A n \in nonce[t.sender] .. (t.nonce - 1) :
          \E u \in by_sender[t.sender] : u.nonce = n

ReadyIsMined == \A t \in Tx : Ready(t) ~> t \in receipts

=============================================================================
