----------------------------- MODULE CallFrames -----------------------------
(***************************************************************************)
(* src/vm.rs: nested call frames and what crosses from one to the other.   *)
(*                                                                         *)
(* A frame is an Evm.  A call or a creation makes a child Evm with a clone *)
(* of the parent's StateFork and of some of its "legacy" maps (storage,    *)
(* balances, nonces, contracts), writes those maps into the clone          *)
(* (sync_legacy_state_into_fork), runs it, copies the clone's dirty        *)
(* accounts back into the child's maps (sync_fork_into_legacy_state), and  *)
(* then either takes over the child's state or reverts its own to the      *)
(* snapshot it took.                                                       *)
(*                                                                         *)
(* A HashMap is a function on the set of its keys.  Code is abstracted to  *)
(* whether there is any: a frame with code may do any sequence of the      *)
(* operations below and end in success or failure at any point (every      *)
(* operation can run out of gas); a frame without code succeeds at once.   *)
(* Stack, memory and gas are in other modules.                             *)
(***************************************************************************)
EXTENDS Integers, Sequences

CONSTANTS
    Address,        \* account addresses
    ZeroAddress,    \* [0; 20]
    Origin,         \* the account that sends the transactions
    Slot,           \* storage and transient keys
    Word,           \* values of SSTORE and TSTORE
    Value,          \* values of CREATE
    Genesis,        \* the accounts of the base state: a function on addresses
    TxTarget,       \* addresses transactions are sent to
    TopBalances,    \* what vm.balances may hold when run() is called: empty in
                    \* apply_signed_transaction, filled in by some library users
    NewAddresses(_, _), \* where creator a at nonce n can deploy: the address derived
                    \* from both (CREATE), and from a and a salt (CREATE2)
    MaxNonce,       \* u64::MAX: CREATE's increment of a nonce saturates
    MaxDepth,       \* bound on the number of nested frames
    MaxOps          \* bound on the number of operations, the start of a
                    \* transaction included, over all transactions

VARIABLES
    frames,         \* the frames of the running transaction, innermost last
    node,           \* the StateFork the transaction runs on
    ops             \* operations executed so far

vars == <<frames, node, ops>>

NoMap == [k \in {} |-> 0]

Lookup(map, k, default) == IF k \in DOMAIN map THEN map[k] ELSE default

insert(map, k, v) ==
    [x \in DOMAIN map \cup {k} |-> IF x = k THEN v ELSE map[x]]

extend(map, other) ==
    [x \in DOMAIN map \cup DOMAIN other |->
        IF x \in DOMAIN other THEN other[x] ELSE map[x]]

remove(map, k) == [x \in DOMAIN map \ {k} |-> map[x]]

\* map has its keys in S and its values in T.
IsMap(map, S, T) == DOMAIN map \subseteq S /\ map \in [DOMAIN map -> T]

-----------------------------------------------------------------------------
(* The StateFork of a frame, as a value. *)

Nonce == 0 .. MaxNonce

Storage == UNION {[D -> Word] : D \in SUBSET Slot}

AccountState == [nonce : Nonce, balance : Nat, code : BOOLEAN, storage : Storage]

ASSUME FrameAssumption ==
    /\ MaxNonce \in Nat
    /\ MaxDepth \in Nat \ {0}
    /\ MaxOps \in Nat
    /\ Value \subseteq Nat
    /\ TxTarget \subseteq Address
    /\ IsMap(Genesis, Address, AccountState)
    /\ \A map \in TopBalances : IsMap(map, Address, Nat)
    /\ \A a \in Address, n \in Nonce : NewAddresses(a, n) \subseteq Address

DefaultAccount == [nonce |-> 0, balance |-> 0, code |-> FALSE, storage |-> NoMap]

get_account(state, a) ==
    Lookup(state.dirty, a, Lookup(state.base, a, DefaultAccount))

put(state, a, account) == [state EXCEPT !.dirty = insert(@, a, account)]

set_storage(state, a, slot, word) ==
    put(state, a, [get_account(state, a) EXCEPT !.storage = insert(@, slot, word)])

set_balance(state, a, b) == put(state, a, [get_account(state, a) EXCEPT !.balance = b])

set_code(state, a, c) == put(state, a, [get_account(state, a) EXCEPT !.code = c])

tstore(state, a, slot, word) ==
    [state EXCEPT !.transient = insert(@, <<a, slot>>, word)]

snapshot(state) ==
    [state EXCEPT !.snapshots =
        Append(@, [id |-> Len(@), dirty |-> state.dirty,
                   transient |-> state.transient])]

revert_to_snapshot(state, id) ==
    LET matches == {p \in DOMAIN state.snapshots : state.snapshots[p].id = id} IN
    IF matches = {} THEN state
    ELSE LET p == CHOOSE q \in matches : \A m \in matches : q <= m IN
         [state EXCEPT !.dirty = state.snapshots[p].dirty,
                       !.transient = state.snapshots[p].transient,
                       !.snapshots = SubSeq(@, 1, p - 1)]

\* What code can observe of a state: every account, every slot and every
\* transient slot, whether stored or defaulted.
World(state) ==
    [account |-> [a \in Address |->
        LET account == get_account(state, a) IN
        [nonce |-> account.nonce, balance |-> account.balance,
         code |-> account.code,
         storage |-> [s \in Slot |-> Lookup(account.storage, s, 0)]]],
     transient |-> [k \in Address \X Slot |-> Lookup(state.transient, k, 0)]]

-----------------------------------------------------------------------------
(* Frames. *)

\* Evm::new_with_gas with the fields every caller sets.  The last four fields are
\* the locals of a frame that waits for a child (the snapshot id, the legacy
\* balances a failed creation puts back), and history: the world the frame saw
\* when it started the child, and the accounts SELFDESTRUCT has removed.
Frame(kind, address, caller, storage_address, is_static, code, state) ==
    [kind |-> kind, address |-> address, caller |-> caller,
     storage_address |-> storage_address, is_static |-> is_static,
     code |-> code, state |-> state, logs |-> 0,
     storage |-> NoMap, balances |-> NoMap, nonces |-> NoMap,
     contracts |-> NoMap, created |-> {},
     snapshot |-> 0, undo |-> NoMap, before |-> <<>>, removed |-> {}]

Top == frames[Len(frames)]

Parent == frames[Len(frames) - 1]

\* The account whose storage a frame reads and writes.
StorageAddress(f) ==
    IF f.storage_address = ZeroAddress THEN f.address ELSE f.storage_address

\* Account a, with what the maps of f say of it.
Synced(f, a) ==
    LET account == get_account(f.state, a) IN
    [nonce |-> Lookup(f.nonces, a, account.nonce),
     balance |-> Lookup(f.balances, a, account.balance),
     code |-> Lookup(f.contracts, a, account.code),
     storage |-> IF a = StorageAddress(f) THEN extend(account.storage, f.storage)
                                          ELSE account.storage]

sync_legacy_state_into_fork(f) ==
    LET touched == DOMAIN f.balances \cup DOMAIN f.nonces \cup DOMAIN f.contracts
            \cup (IF DOMAIN f.storage = {} THEN {} ELSE {StorageAddress(f)})
    IN  [f EXCEPT !.state.dirty = extend(@, [a \in touched |-> Synced(f, a)])]

\* The storage map becomes that of the last dirty account with any storage, in the
\* iteration order of a HashMap: of any one of them.
sync_fork_into_legacy_state(f) ==
    LET dirty == f.state.dirty
        stored == {a \in DOMAIN dirty : DOMAIN dirty[a].storage # {}}
        coded == {a \in DOMAIN dirty : dirty[a].code}
    IN  {[f EXCEPT !.storage = m,
                   !.balances = extend(@, [a \in DOMAIN dirty |-> dirty[a].balance]),
                   !.nonces = extend(@, [a \in DOMAIN dirty |-> dirty[a].nonce]),
                   !.contracts = extend(@, [a \in coded |-> dirty[a].code])] :
         m \in IF stored = {} THEN {f.storage}
                              ELSE {dirty[a].storage : a \in stored}}

Init ==
    /\ frames = <<>>
    /\ node = [base |-> Genesis, dirty |-> NoMap, transient |-> NoMap,
               snapshots |-> <<>>]
    /\ ops = 0

-----------------------------------------------------------------------------
(* Operations of the running frame. *)

\* The next opcode of the innermost frame is one of the modelled ones.
Executing ==
    /\ frames # <<>>
    /\ Top.code
    /\ ops < MaxOps
    /\ ops' = ops + 1
    /\ UNCHANGED node

\* The stack fs, with f for its innermost frame.
WithTop(fs, f) == [fs EXCEPT ![Len(fs)] = f]

SetTop(f) == frames' = WithTop(frames, f)

op_sstore(slot, word) ==
    /\ Executing
    /\ ~Top.is_static
    /\ SetTop([Top EXCEPT !.state = set_storage(@, StorageAddress(Top), slot, word)])

\* transient_address: every child has Some(storage_address), the frame of a
\* transaction or a simulation falls back on the address its storage has.
TransientAddress(f) ==
    IF f.kind \in {"top", "simulation"} THEN StorageAddress(f) ELSE f.storage_address

op_tstore(slot, word) ==
    /\ Executing
    /\ ~Top.is_static
    /\ SetTop([Top EXCEPT !.state = tstore(@, TransientAddress(Top), slot, word)])

op_log ==
    /\ Executing
    /\ ~Top.is_static
    /\ SetTop([Top EXCEPT !.logs = @ + 1])

\* Variant: any account is removed.
MayRemoveAny(f, account) == TRUE

\* EIP-6780: only what the running transaction created.
MayRemove(f, account) == account \in f.created

\* The balance moves in the fork only.
PayOut(state, account, beneficiary) ==
    IF account = beneficiary THEN state
    ELSE set_balance(set_balance(state, beneficiary,
                         get_account(state, beneficiary).balance
                           + get_account(state, account).balance),
                     account, 0)

\* The account goes from both layers of the fork and from the frame's maps.
RemoveAccount(f, account) ==
    [f EXCEPT !.state = [f.state EXCEPT !.dirty = remove(@, account),
                                        !.base = remove(@, account)],
              !.contracts = remove(@, account),
              !.balances = remove(@, account),
              !.nonces = remove(@, account),
              !.storage = IF f.storage_address = account THEN NoMap ELSE @,
              !.removed = @ \cup {account}]

\* The frame goes on with the next opcode.
op_selfdestruct(beneficiary) ==
    LET account == StorageAddress(Top)
        paid == [Top EXCEPT !.state = PayOut(@, account, beneficiary)]
    IN  /\ Executing
        /\ ~Top.is_static
        /\ SetTop(IF MayRemove(Top, account) THEN RemoveAccount(paid, account)
                                             ELSE paid)

-----------------------------------------------------------------------------
(* Calls. *)

CallKind == {"call", "static", "delegate"}

\* Variant: only the call's own kind counts.
CalleeForcedStatic(f, kind) == kind = "static"

CalleeIsStatic(f, kind) == f.is_static \/ kind = "static"

\* Variant: the delegating frame's code address, not its storage address.
CalleeStorageOfCode(f, kind, target) ==
    IF kind = "delegate" THEN f.address ELSE target

CalleeStorage(f, kind, target) ==
    IF kind = "delegate" THEN StorageAddress(f) ELSE target

CalleeCaller(f, kind) == IF kind = "delegate" THEN f.caller ELSE f.address

\* f, with the snapshot it takes before it starts a child.
Waiting(f) ==
    [f EXCEPT !.snapshot = Len(f.state.snapshots),
              !.state = snapshot(@),
              !.before = [world |-> World(f.state), logs |-> f.logs]]

\* frames', when f becomes the parent of child.
Enter(f, child) ==
    frames' = Append(WithTop(frames, f), sync_legacy_state_into_fork(child))

\* The child has the parent's storage, contracts and created_in_transaction, and
\* empty balances and nonces.
Callee(f, kind, target) ==
    [Frame(kind, target, CalleeCaller(f, kind), CalleeStorage(f, kind, target),
           CalleeIsStatic(f, kind), get_account(f.state, target).code, f.state)
       EXCEPT !.storage = f.storage, !.contracts = f.contracts,
              !.created = f.created, !.removed = f.removed]

execute_call(kind, target) ==
    LET f == Waiting(Top) IN
    /\ Executing
    /\ Len(frames) < MaxDepth
    /\ Enter(f, Callee(f, kind, target))

\* Variant: no check.
CannotAffordNever(balance, value) == FALSE

CannotAfford(balance, value) == balance < value

SaturatingNext(nonce) == IF nonce < MaxNonce THEN nonce + 1 ELSE nonce

BumpNonce(f, sender, nonce) ==
    [f EXCEPT !.nonces = insert(@, sender, SaturatingNext(nonce))]

\* f, with its balance maps and its fork after value has moved to new_addr.  The
\* target's balance is read after the sender's has been written.
Endow(f, sender, new_addr, value) ==
    LET sender_balance == Lookup(f.balances, sender, 0)
        debited == insert(f.balances, sender, sender_balance - value)
        target_balance == Lookup(debited, new_addr, 0)
    IN  [f EXCEPT
            !.balances = insert(debited, new_addr, target_balance + value),
            !.undo = insert(insert(NoMap, sender, sender_balance),
                            new_addr, target_balance),
            !.state = set_balance(set_balance(@, sender, sender_balance - value),
                                  new_addr, target_balance + value)]

\* The child has all of the parent's maps.
Creation(f, new_addr) ==
    [Frame("create", new_addr, f.address, new_addr, FALSE, TRUE, f.state)
       EXCEPT !.storage = f.storage, !.balances = f.balances,
              !.nonces = f.nonces, !.contracts = f.contracts,
              !.created = f.created, !.removed = f.removed]

\* CREATE and CREATE2.  Balances and nonces are read from the frame's maps, with
\* zero where a map has no entry.
execute_create(value) ==
    LET sender == StorageAddress(Top)
        nonce == Lookup(Top.nonces, sender, 0)
        bumped == BumpNonce(Top, sender, nonce)
    IN  /\ Executing
        /\ ~Top.is_static
        /\ Len(frames) < MaxDepth
        /\ \E new_addr \in NewAddresses(sender, nonce) :
             IF CannotAfford(Lookup(Top.balances, sender, 0), value)
             THEN SetTop(bumped)
             ELSE LET f == Endow(Waiting(bumped), sender, new_addr, value)
                  IN  Enter(f, Creation(f, new_addr))

-----------------------------------------------------------------------------
(* The end of a child, with the rest of execute_call or execute_deploy. *)

\* frames', when the innermost frame ends and its parent becomes f.
Leave(f) == frames' = WithTop(SubSeq(frames, 1, Len(frames) - 1), f)

Ends(kinds) ==
    /\ Len(frames) > 1
    /\ Top.kind \in kinds
    /\ UNCHANGED <<node, ops>>

\* Forgets the locals of the wait for the child.
Resumed(f) == [f EXCEPT !.snapshot = 0, !.undo = NoMap, !.before = <<>>]

CallSucceeds ==
    /\ Ends(CallKind)
    /\ \E child \in sync_fork_into_legacy_state(Top) :
         Leave(Resumed([Parent EXCEPT !.state = child.state,
                                      !.storage = child.storage,
                                      !.created = child.created,
                                      !.logs = @ + child.logs,
                                      !.removed = child.removed]))

CallFails ==
    /\ Ends(CallKind)
    /\ Top.code
    /\ Leave(Resumed([Parent EXCEPT !.state = revert_to_snapshot(@, Parent.snapshot)]))

\* The creation code returned runtime code (or none), within the size limit, and
\* the deposit is paid.  The child's logs are not taken over.
DeploySucceeds(runtime_code) ==
    /\ Ends({"create"})
    /\ \E child \in sync_fork_into_legacy_state(Top) :
         LET new_addr == child.address IN
         Leave(Resumed([Parent EXCEPT
            !.contracts = insert(@, new_addr, runtime_code),
            !.created = @ \cup child.created \cup {new_addr},
            !.state = set_code(child.state, new_addr, runtime_code),
            !.storage = child.storage,
            !.balances = child.balances,
            !.nonces = child.nonces,
            !.removed = child.removed \ {new_addr}]))

\* Variant: the balances are put back, the fork is not reverted.
DeployFailsWithoutRevert ==
    /\ Ends({"create"})
    /\ Leave(Resumed([Parent EXCEPT
            !.created = @ \cup Top.created,
            !.balances = extend(@, Parent.undo)]))

\* The creation code failed, or returned too much code, or the deposit cannot be
\* paid: the state is reverted and the two balances put back, but what the
\* child recorded as created is kept.
DeployFails ==
    /\ Ends({"create"})
    /\ Leave(Resumed([Parent EXCEPT
            !.created = @ \cup Top.created,
            !.balances = extend(@, Parent.undo),
            !.state = revert_to_snapshot(@, Parent.snapshot)]))

-----------------------------------------------------------------------------
(* Transactions: apply_signed_transaction around Evm::run.  The sender's own  *)
(* nonce and balance are in RpcNode.                                          *)

BeginTx(target, balances) ==
    /\ frames = <<>>
    /\ ops < MaxOps
    /\ ops' = ops + 1
    /\ frames' = <<sync_legacy_state_into_fork(
                     [Frame("top", target, Origin, target, FALSE,
                            get_account(node, target).code, node)
                        EXCEPT !.balances = balances])>>
    /\ UNCHANGED node

TxSucceeds ==
    /\ Len(frames) = 1
    /\ Top.kind = "top"
    /\ frames' = <<>>
    /\ node' = [Top.state EXCEPT !.transient = NoMap]
    /\ UNCHANGED ops

TxFails ==
    /\ Len(frames) = 1
    /\ Top.kind = "top"
    /\ Top.code
    /\ frames' = <<>>
    /\ UNCHANGED <<node, ops>>

Next ==
    \/ \E target \in TxTarget, balances \in TopBalances : BeginTx(target, balances)
    \/ \E slot \in Slot, word \in Word : op_sstore(slot, word) \/ op_tstore(slot, word)
    \/ op_log
    \/ \E beneficiary \in Address : op_selfdestruct(beneficiary)
    \/ \E kind \in CallKind, target \in Address : execute_call(kind, target)
    \/ \E value \in Value : execute_create(value)
    \/ CallSucceeds
    \/ CallFails
    \/ \E runtime_code \in BOOLEAN : DeploySucceeds(runtime_code)
    \/ DeployFails
    \/ TxSucceeds
    \/ TxFails

Spec == Init /\ [][Next]_vars

-----------------------------------------------------------------------------
(* Properties. *)

IsState(state) ==
    /\ DOMAIN state = {"base", "dirty", "transient", "snapshots"}
    /\ IsMap(state.base, Address, AccountState)
    /\ IsMap(state.dirty, Address, AccountState)
    /\ IsMap(state.transient, Address \X Slot, Word)
    /\ \A p \in DOMAIN state.snapshots :
         /\ DOMAIN state.snapshots[p] = {"id", "dirty", "transient"}
         /\ IsMap(state.snapshots[p].dirty, Address, AccountState)
         /\ IsMap(state.snapshots[p].transient, Address \X Slot, Word)

\* Every fork, in the node and in the frames, is well formed, and no subtraction
\* of execute_deploy takes a balance below zero.
TypeOK ==
    /\ IsState(node)
    /\ \A i \in DOMAIN frames : IsState(frames[i].state)
    /\ Len(frames) <= MaxDepth
    /\ ops \in 0..MaxOps

\* When a call or a creation fails, its caller sees every account, every storage
\* slot, every transient slot and its own logs exactly as they were before it
\* started the child, whatever the child and the frames under it did, created or
\* destroyed, and whatever snapshots they left behind (execute_call,
\* execute_deploy).
FailedFrameLeavesNoTrace ==
    [][CallFails \/ DeployFails =>
        LET f == frames'[Len(frames')] IN
        [world |-> World(f.state), logs |-> f.logs] = Parent.before]_vars

\* While any enclosing frame is static, no operation of the innermost frame
\* changes what code can observe of the state, nor emits a log: the flag reaches
\* every frame below a STATICCALL, through calls and delegate calls alike.
StaticContextIsReadOnly ==
    [][(\E i \in DOMAIN frames : frames[i].is_static) /\ Len(frames') = Len(frames) =>
        /\ World(Top.state) = World(frames'[Len(frames)].state)
        /\ Top.logs = frames'[Len(frames)].logs]_vars

\* Delegated code works on the storage and the transient storage of the frame that
\* delegated to it, on behalf of that frame's caller, through any number of
\* nested delegate calls (unless that is the storage of the zero address, which
\* execute_call and transient_address take for "not set").
DelegateKeepsContext ==
    \A i \in 2..Len(frames) :
        frames[i].kind = "delegate" /\ frames[i - 1].storage_address # ZeroAddress =>
            /\ StorageAddress(frames[i]) = StorageAddress(frames[i - 1])
            /\ TransientAddress(frames[i]) = TransientAddress(frames[i - 1])
            /\ frames[i].caller = frames[i - 1].caller

\* The contracts of the base state whose address no creation yields.
Existing ==
    {a \in DOMAIN Genesis :
        /\ Genesis[a].code
        /\ \A creator \in Address, n \in Nonce : a \notin NewAddresses(creator, n)}

\* A contract that existed before the transaction keeps its code in every frame,
\* whatever SELFDESTRUCTs run: only accounts created in the transaction go.  (A
\* creation at its very address replaces it: execute_deploy does not look.)
ExistingCodeSurvives ==
    \A a \in Existing :
        /\ get_account(node, a).code
        /\ \A i \in DOMAIN frames : get_account(frames[i].state, a).code

\* A STATICCALL leaves every storage slot of every account as it was.
StaticCallChangesNothing ==
    [][CallSucceeds /\ Top.kind = "static" =>
        World(frames'[Len(frames')].state) = Parent.before.world]_vars

\* The code of an account that SELFDESTRUCT removed in the transaction that created
\* it does not come back in that transaction, unless it is created again.
RemovedStaysRemoved ==
    \A i \in DOMAIN frames : \A a \in frames[i].removed :
        ~get_account(frames[i].state, a).code

=============================================================================
