# mini-evm in TLA+

A verification development kept beside the mini-evm sources: TLA+ models of its
components, TLC configurations that check them on small instances, and TLAPS
proofs of their main properties for every instance.  Paths below are relative to
the repository (`src/vm.rs` is the crate's `src/vm.rs`).

## 1. The system

mini-evm is an EVM interpreter with a journaled state, a transaction pool, a
single-node JSON-RPC server that mines blocks, and tools around them.

| Component | Source | State | Operations | Module |
|---|---|---|---|---|
| State fork | `src/state.rs` | base and dirty accounts, transient storage, snapshots | setters, `tstore`, `snapshot`, `revert_to_snapshot` | `StateFork`, abstractly `WorldStack` |
| State root, trie | `src/state.rs`, `src/mpt` | a tree of nodes | `compute_state_root`, `insert`, `get`, compact encoding | `StateRoot`, `Trie` |
| Transaction pool | `src/mempool/mod.rs` | pending transactions by sender and nonce | `insert`, `senders`, `pop_executable` | `TxPool` (operators), `RpcNode` (actions) |
| RPC node | `src/rpc/types.rs`, `src/rpc/handler.rs` | accounts, receipts, block number, root, locks, event channel | send, mine, read a block, disconnect | `RpcNode`; what it publishes, abstractly: `EventStream` |
| Subscriptions | `src/rpc/server.rs`, `src/rpc/types.rs` | per WebSocket: a position in the channel, subscriptions, notifications to send | connect, subscribe, unsubscribe, receive, lag, notify, close | `Subscriptions` |
| Transaction runner | `src/vm/runner.rs` | none of its own | `apply_signed_transaction` | in `RpcNode` (nonce, fee), `CallFrames` (run) |
| Call frames | `src/vm.rs` | nested `Evm`s, each with a fork and a second copy of the state in maps | calls, creations, self-destruction, writes, ends of frames | `CallFrames` |
| Simulation, routes | `src/simulation.rs`, `src/sim` | a fork of the state, the result of a simulation | `simulate_tx`, its ends, the hops of `simulate_route` | `Simulation` |
| Gas of frames | `src/vm.rs`, `src/gas.rs`, `src/precompiles.rs` | gas of each nested frame | charge, call, create, precompile, return | `FrameGas` |
| Interpreter | `src/vm.rs`, `src/stack.rs` | code, pc, stack, memory size, gas, touched accounts and slots | one step per instruction | `Interp`, with the metered handlers in `Metering` |
| Word arithmetic | `src/vm.rs` | operands and loop variables | the arithmetic handlers | `Words` |
| Gas estimation | `src/rpc/estimator.rs` | bounds of a binary search | start, narrow | `Estimator` |
| Fuzzer, decoding, CLI, disassembler, tracer | | | | not modelled (section 7) |

How they interact: a request runs as a task and shares `RpcState` with the other
tasks through tokio locks.  `mine_block` pops transactions from the pool and runs
each with `apply_signed_transaction`, which starts an `Evm` on the node's
`StateFork`.  An `Evm` starts child `Evm`s for calls and creations; each gets a
clone of the fork and of some maps and either hands its state back or is undone by
a snapshot.  `eth_estimateGas`, `eth_call` and the routes run an `Evm` on a copy.
After each block the node stores the root of the trie of its accounts; logs, heads
and pending transactions go out on a broadcast channel, from which one task per
WebSocket notifies its client.

What makes this hard to test: tasks interleave at every `await`, with values read
before a lock and used after it; a block can fail, or its client disconnect, half
way; a slow client falls behind a channel that overwrites; every frame has two copies of the state that are synchronised at calls; gas
crosses frames in both directions; and arithmetic meets the edges of its width.
The `hazards` of `PROJECT.json` list these by line.

## 2. Modules and code

**StateFork, WorldStack.**  A `HashMap` is a total function, with `Absent` for a
missing account and zero for a missing slot.  Every setter goes through
`account_for_write`, as in the code.  `WorldStack` is what a client may rely on:
one fully resolved world and a stack of complete copies.  The refinement mapping
reads each saved dirty layer over the base layer.

**TxPool, RpcNode.**  A request is a process whose `pc` names its next lock
acquisition or effect.  `mine_block` is `ReadSenders`, `LockState`, `StartBlock`,
`PopNext`*, `PopDone`, `LockReceipts`, `ApplyTx`* (or `ApplyFails`), `StoreRoot`,
`PublishHead`.  A handler that takes one lock and releases it before its next
await is one step.  `HangUp` is the server dropping a task at one of its awaits.
`root_block`, `failed_blocks`, `root_read`, `accepted` and `last_head` are history
variables.  What contract code does is abstracted to the gas it uses, whether it
succeeds, whether it logs and what it credits to the sender.  Costs, balances and
refunds are words modulo `WordMod` and wrap, as those of the code do modulo 2^256.

**EventStream, Subscriptions.**  `EventStream` is what a subscriber may assume of
the node: logs and heads carry the number of the block being mined, no log of a
block follows its head, heads increase.  `RpcNode` implements it.  `Subscriptions`
has its actions as the node's side, with the contents of logs added (that this is
all of `EventStream` and nothing else is proved, section 5), and one task per
connection: `Connect` is `ws_upgrade`; `Receive`, `ReceiveLagged` and the
client's requests are the branches of `select!`; `Notify` is one iteration of the
loop over the subscriptions, which ends in an await of the socket; `Close` can
happen at each of its awaits.  The channel is everything ever sent, of which a
receiver can still get the last `Capacity` messages (1024 in the code).

**Trie, StateRoot.**  The four kinds of nodes, `insert_node` and `get_node` with
their splits, and the bytes a path is packed into.  `compute_state_root` takes the
iteration orders of the two hash maps as arguments and the paths of the hashed
keys as a constant; a trie stands for its hash.  `TrieOf` defines the trie from its
contents alone and is what the insertions are compared with.

**CallFrames.**  `frames` is the stack of running `Evm`s.  Entering a frame
includes the snapshot, the clone and `sync_legacy_state_into_fork`; leaving it
includes `sync_fork_into_legacy_state` and the hand-over or revert.  Code is
abstracted to "any sequence of operations".  `sync_fork_into_legacy_state` assigns
`storage` once per dirty account in `HashMap` order, which is a choice in the
model.  `MaxNonce` is `u64::MAX`, at which the increment of a nonce saturates.  The
field `before` of a frame is history: what it saw when it started its child.

**Simulation.**  Extends `CallFrames` by a second kind of outermost frame.
`simulate_tx` takes its snapshot, moves the value and runs on a copy of the node's
state or of a route's fork; its ends return the dirty accounts, after the revert
when the run failed.  `HopApplies` writes them into the route's fork, with the
override of the token balance.  Transactions and simulations are steps of one
specification, so every property of the frames is checked for both.

**FrameGas.**  The same frames with gas only.  Prices of ordinary operations are
constants; the price of a call, the 63/64 rule, what a precompile, a creation and
the code deposit cost and who gets what back are translated.

**Interp, Metering.**  `Interp` has `step`, the stack with its capacity,
`analyze_jumpdests` and the dispatch; `Metering` has the handlers that grow memory
or pay for an access, as functions on a record of gas, memory words, touched
accounts and slots and an outcome.  Both routes to memory are there: `touch_memory`
(wrapping `u64` prices) and `memory_expansion_cost` with
`expand_memory_without_charge` (checked prices).  An index beyond the memory is the
outcome "Panic".  Words are modulo `WordMod` and `usize` is their low limb modulo
`LimbMod`.  What memory, call data, storage and the environment hold is opaque: a
word read from there is any word of `Opaque`.

**Words.**  Each arithmetic handler as an action on words of `Bytes` bytes of
`ByteBits` bits.  MULMOD and EXP take one step per loop iteration.  The operators `&`,
`|` and `^` of the source are defined bit by bit.

**Estimator.**  The search; success as a function of gas is arbitrary, because a
program can read its gas.

Definitions whose comment begins with "Variant" are altered copies of the
definition that follows them.  Nothing uses them in a run: they serve to check
that each property notices the change.

## 3. Runs

| Run | Question | Instance and why it is enough |
|---|---|---|
| `state_fork` | Does the layered fork implement the stack of worlds, and does its root depend on the accounts alone? | Two accounts are written, one in the base with a nonce and a storage word that differ from the default, one nowhere; two more are only in the base, so that the trie has three or four keys. Two nested snapshots, so that an inner and an outer one can be reverted in any order. The paths of the keys are any four of the eight paths of three binary nibbles: every shape with leaves, extensions and branches at each level occurs, and every order of insertion. Balances and codes have one value each here: their setters differ from `set_nonce` only in the field, and the theorem covers all values. |
| `rpc_node` | Do execution, balances, receipts, roots and announcements stay consistent? | Three symmetric requests, each free to send any of three transactions, mine, read or disconnect. Bob starts at nonce 3, so a missing nonce (taken as 0) shows, and his transaction's cost wraps to zero (words have two bits). A block has room for two, and Alice can pay for one, so blocks can fail. |
| `rpc_node_live` | Does every `mine_block` return, and is every ready transaction executed? | One request per transaction, automatic mining, enough balance and block gas, no disconnects: the circumstances under which the code can promise it. |
| `call_frames` | Does a failed frame leave no trace, does a static context stay read-only, does delegation keep its context, does existing code survive, is a simulation's diff what it changed? | Three frames deep; five operations in all, spread over transactions, simulations and hops, each of which counts as one; two contracts and one address to create. Each property is violated within these bounds by an altered definition of the step it is about. |
| `subscriptions` | Is a client sent what it asked for, in order, and is every event dealt with? | One connection (tasks share only the channel and the counter of ids), two subscriptions of any kinds, four messages over two blocks through a channel of two, so that the receiver can lag, catch up and lag again; a filter that matches and one that asks for a topic no log has. |
| `frame_gas` | Can gas be created, the 64th be lost, depth exceed what gas pays for? | 1000 gas, which is several levels; a creation costs 300 instead of 32 000 so that it fits. |
| `interp` | Stack and gas in range, no data executed, gas accounted for, memory grown before use, every run ends | Every program of up to five bytes over eight opcodes and some longer ones; every metered instruction after each way of growing the memory, with operands at and around the end of the memory, of `usize` (scaled to 2^13) and of the range where the quadratic price wraps; up to three accesses to two accounts and two slots, cold and warm. The stack has room for four. |
| `estimator` | Is the estimate enough and tight, does the search end? | Every dependence of success on gas, up to a limit of 6, and requests beyond the (scaled) `u64`. |
| `words` | Are the handlers exact? | All operands of four-bit words: two bytes of two bits, so that SIGNEXTEND and BYTE have both bytes, and a limb smaller than the word. |

Three more runs find what a document or a test states to be violated by the code;
`findings` in `PROJECT.json` quotes the lines.

* `static_call`: after an earlier call left another account's storage in the
  caller's `storage` map, a STATICCALL writes that map into the callee's account.
* `removed_account`: a contract destroyed in the transaction that created it gets
  its code back at its creator's next call, from the creator's `contracts` map.
* `stop`: instructions after STOP are executed, since `Halt` means "go on" to the
  loop.

Deadlock is not checked: requests, transactions, programs and searches end.  That
no task is left waiting for a lock is `MiningFinishes`.

Every bound is a constant: `MaxSnapshots`, `MaxDepth`, `MaxOps`, `MaxEvents`,
`MaxPending`, `MaxBlocks`, `MaxSubs`, and the sets of
requests, transactions, programs and values.

## 4. Fairness

`rpc_node_live` assumes weak fairness of each task's steps (the runtime polls every
task that is ready) and strong fairness of taking the state lock (tokio's `RwLock`
queues its waiters in order, so a waiter is not overtaken for ever).  Arrival of
requests and disconnects have no fairness.  `Interp` and `Estimator` are loops of
one thread: weak fairness of their next step.  `subscriptions` assumes weak fairness
of a task's deliveries: the runtime polls the task, `select!` chooses among its ready
branches at random, so the channel gets its turn, and a client that neither reads nor
closes for ever is not covered.  Publishing, the client's requests and closing have no
fairness.

## 5. Proofs

All proofs are for arbitrary constants under the named assumptions of the modules,
which only give the constants their types, with these exceptions: `CreateGas >= 140`
in `FrameGas` (the code's is 32 000); in `Interp`, that a word is at least as wide as
a `usize` and as two bytes and that the length of a program is a `usize`; in `Words`,
that the number of bits of a word is a `usize`; and two facts of arithmetic, that the
bytes after a push make a natural number (`PushDataAssumption` of `Interp`) and that
`sign`, a power of two, is a positive natural number (`WordsAssumption`).  These two
are true for all constants, but rest on a recursion, which the prover cannot follow;
TLC evaluates them for the constants of the runs.

* `StandaloneProofs`, four components that stand by themselves.  Of `StateFork`,
  `ForkTypeOK`, `SnapshotIdsArePositions`, and that it implements `WorldStack`.  Every
  step is a `Put` of an account that differs in one field, a transient write, a
  snapshot or a revert (`StepKinds`); each kind maps to one action of `WorldStack`.
  The revert needs that ids are positions.  Of `FrameGas`, `TypeOK`,
  `GasNeverCreated`, `ParentKeepsA64th`, `DepthBoundedByGas`.  The depth bound is
  strengthened to `LevelsCost`, which bounds the gas of every frame by its level, so
  that no sum over frames is needed.  Of `Estimator`, `SearchTypeOK`,
  `EstimateIsEnough`, `EstimateIsTight`, from the loop invariant: the upper bound
  succeeds, the value below the lower bound fails.  Of `Words`, `ModularExact` and
  `DivisionExact`, for words of every size.  The loop of MULMOD keeps `Partial`: the
  product is, up to multiples of the modulus, what has been added up so far plus the
  factor times the multiplier that is left.  Every addition in it is `AddReduced`, and
  `AddReducedIs` shows that neither of its branches wraps when both summands are below
  the modulus.  For the signed division, `SignedOf` relates `abs`, `negated` and the
  sign bit to the integer a word stands for, which leaves an identity about natural
  numbers (`DivideNat`) and four cases of signs (`SignedDivision`).
* `RpcNodeProofs`, `BlockProofs`: `TypeOK`, `NonceCountsReceipts`,
  `AcceptedAccountedFor`, `BalancesAccountedFor`, `RootIsCurrent`, `HeadsInOrder`,
  `BlockAnswerNotStale`, `MismatchOnlyForUnseenSender`, and that `RpcNode` implements
  `EventStream`.  The first three are inductive, the second and the third on top of
  `TypeOK`.  `BalancesAccountedFor` is too, once a few lemmas say what taking a
  remainder does to sums (`ReduceFirst`) and that the gas used costs no more than the
  gas bought (`UsedCost`, `FeeCovered`); the execution steps are isolated by
  `OnlyApplyExecutes`.  The others are in `BlockProofs`.  They need `LockInv` (who
  holds which lock at which point): without it a step of a second task inside
  somebody's block could not be excluded.  `MismatchOnlyForUnseenSender` needs besides
  it `SelectionInv`: what the block has selected and not yet executed of one sender
  has consecutive nonces, which for a sender that was listed begin at the account's.
  The rest need `ChainInv`: how block number, root, failed blocks and heads relate
  while a block is open and while none is.
* `SubscriptionsProofs`: `NotificationsInOrder`, `DeliveredExactly`,
  `HeadClosesItsBlock`, and that the node's side is `EventStream`: the tasks composed
  with `EventStream`, each message it sends being put on the channel, have exactly the
  behaviours of `Subscriptions` (`NodeIsEventStream`).  One direction makes the other
  theorems hold for every stream `EventStream` allows, as long as the bounds, which are
  arbitrary, permit; the other says that the node's side adds nothing to it.  `RpcNode`
  sends its messages by steps of `EventStream` (`MessagesOfStream` in `BlockProofs`,
  which also covers a message equal to the one before, a stuttering step of
  `EventStream`); the several logs of one transaction are as many such steps.  The
  invariant `IInv` adds to the first two: ids belong to one connection (`IdInv`, else
  a notification of one task could count for another's subscription); receivers are
  within the channel and behind them lies what they missed (`CursorInv`); what is
  still to be sent is for its subscription (`TodoInv`); and logs precede the heads of
  their blocks in the channel (`StreamInv`), which with exact delivery gives
  `HeadClosesItsBlock`.
* `FrameProofs`, `SimulationProofs`: `TypeOK`, `FailedFrameLeavesNoTrace`,
  `StaticContextIsReadOnly`, `DelegateKeepsContext`, `ExistingCodeSurvives` and
  `DiffIsTheChange`, for transactions, simulations and routes in any order, any base
  state, any depth and any number of operations.  The invariant is `SimInv`.  It says
  of every frame that its maps are well formed and hold nothing about the code of an
  existing contract (`Running`), and of its fork (`Sound`) that the id of a snapshot is
  its position (`IsFork`), that an account missing from the dirty layer is as it was
  when the run began (`Tells`), and, in a simulation, that the snapshot of
  `simulate_tx` is still where it was (`Rooted`).  Of a frame that waits for a child it
  says that its snapshot gives back exactly what it saw, and that the fork it would go
  back to is sound too (`Suspended`): this is what makes a failed frame leave no trace,
  and a revert lead to a state the invariant admits.  A static frame has only static
  frames above it.  None of this mentions the operation that put a frame on the stack,
  so three lemmas carry the stack through every step: the innermost frame changes
  (`Replaced`), a child is entered (`Pushed`), a child ends (`Popped`).  `FrameProofs`
  has these and one lemma for what each operation on maps, forks and frames keeps;
  `SimulationProofs` has the steps and the theorems.  `FrameAssumption` and
  `SimulationAssumption` only type the constants.
* `MeteringProofs`, `InterpProofs`: `TypeOK`, `GasIsAccountedFor`, `RangesInMemory`,
  for every gas limit, word size and stack capacity and every program, up to its
  first instruction that acts outside the frame (storage writes, calls, creations,
  self-destruction), where a run of `Interp` ends.  `MeteringProofs` shows
  handler by handler that a meter stays `Sound`: gas left plus what is owed is the
  limit.  The induction leans on the account itself, because `touch_memory` subtracts
  two prices modulo 2^64: `TouchSound` needs that the gas left and the price of the
  present memory are together less than 2^64, so that a difference that wraps is never
  affordable.  `ExpandSound` shows that the checked price of the other route is the
  same price (`PriceIsCost`); there the access is owed before it is paid (`Owing`).
  `InterpProofs` adds the stack, the program counter and one lemma per kind of
  handler.

## 6. Only model-checked

* Liveness (`MiningFinishes`, `ReadyIsMined`, `EveryEventHandled`, `RunEnds`,
  `SearchEnds`): fairness and ENABLED are outside the prover.
* `PcAtInstruction` in `Interp`: the scan for jump destinations is a recursion over
  the code.
* `RootIgnoresOrder` and `TrieHoldsAccounts` in `StateRoot`: what the recursive
  insertion of `Trie` builds needs induction over the trie.
* `ExpExact` and `ShiftsExact` in `Words`: they rest on laws of powers, and
  `ShiftsExact` on what the bitwise operators build; both need induction.

## 7. Not modelled, and limits

* Transaction decoding, signature recovery, hashing, RLP bytes: formats and
  cryptography.  The command line, disassembler, tracer, opcode table, environment
  records, the editor extension and vendored code: no state of their own.
* The fuzzer: parallel runs of one bytecode that share nothing; which of several
  failing iterations it reports is left to the thread pool.
* JSON parsing and the requests that read one field under one lock.
* Amounts, profits and the scan for the best input of a route: arithmetic on what the
  simulations return.
* Full blocks under liveness: a transaction left over by a full block runs only if
  somebody mines again.
* The memory ranges of calls and creations (their input, output and code): `Interp`
  ends at such an instruction, and `CallFrames` and `FrameGas` have no memory.
* The order in which the slots of one account come out of its storage map: an account
  of `state_fork` has at most one slot, so `RootIgnoresOrder` varies the order of
  accounts only.
* The contents of memory and of return data.  In `Interp` a frame has made no call, so
  its return data is empty.  Prices of storage writes, calls and creations are in
  `FrameGas`, as parameters.
* An empty range beyond the memory makes KECCAK256, RETURNDATACOPY and LOG panic, in
  the code and in the model; `RangesInMemory` is about ranges of a byte or more.
* No contract of `call_frames` is at the zero address.  There, zero also means that no
  storage address is set, and delegated code works on the library's storage.
* A diff has no entry for an account that SELFDESTRUCT removed, so the next hop of a
  route sees that account as it was; `DiffIsTheChange` excepts it.
* `Trie`: keys of one length, as the hashed keys of the code are.
* `CALL` moves no value in the code, and none in the model.
