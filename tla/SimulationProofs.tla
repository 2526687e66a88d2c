-------------------------- MODULE SimulationProofs --------------------------
(***************************************************************************)
(* For any addresses, any base state, any depth of calls and any sequence  *)
(* of operations, transactions and simulations: the safety properties of   *)
(* CallFrames and Simulation.  Every step keeps SimInv, by the lemmas of   *)
(* FrameProofs.                                                            *)
(***************************************************************************)
EXTENDS FrameProofs

\* The time a prover has for a leaf.
USE SMTT(30)

-----------------------------------------------------------------------------
(* Steps of a run. *)

\* A step of the run that is under way.
LEMMA RunGoesOn ==
    ASSUME SimInv, frames # <<>>, frames' # <<>>, frames'[1].kind = frames[1].kind,
           Stack(Borrowed, Simulating, frames'), Len(frames') <= MaxDepth,
           ops' \in 0 .. MaxOps, UNCHANGED <<node, fork_state, result>>
    PROVE  SimInv'
  <1>1. Borrowed' = Borrowed
    BY DEF Borrowed
  <1>2. Simulating' = Simulating
    BY DEF Simulating
  <1>3. Stack(Borrowed, Simulating, frames)'
    BY <1>1, <1>2
  <1>4. result' = NoResult
    BY DEF SimInv
  <1>5. DiffIsTheChange'
    BY <1>4 DEF DiffIsTheChange
  <1>6. QED
    BY Zenon, <1>3, <1>4, <1>5 DEF SimInv

\* The innermost frame of a stack is a frame.
LEMMA TopRunning ==
    ASSUME SimInv, frames # <<>>
    PROVE  /\ Running(Borrowed, Simulating, Top)
           /\ IsSequence(frames)
           /\ Len(frames) \in Nat \ {0}
  <1>1. IsSequence(frames)
    BY DEF SimInv, Stack
  <1>2. Len(frames) \in Nat \ {0}
    BY <1>1, SequenceDomain
  <1>3. QED
    BY <1>1, <1>2 DEF SimInv, Stack, Top

\* The innermost frame does something of its own.
LEMMA TopChanges ==
    ASSUME SimInv, Executing, UNCHANGED sim_vars,
           NEW f, Running(Borrowed, Simulating, f), SameContext(f, Top),
           frames' = WithTop(frames, f)
    PROVE  SimInv'
  <1>1. frames # <<>> /\ ops' \in 0 .. MaxOps /\ UNCHANGED <<node, fork_state, result>>
    BY FrameAssumption DEF Executing, SimInv, sim_vars
  <1>2. Stack(Borrowed, Simulating, frames)
    BY DEF SimInv
  <1>3. /\ Stack(Borrowed, Simulating, frames')
        /\ Len(frames') = Len(frames)
        /\ frames'[1].kind = frames[1].kind
    BY <1>1, <1>2, Replaced DEF Top
  <1>4. Len(frames) \in Nat \ {0}
    BY <1>1, TopRunning
  <1>5. frames' # <<>>
    BY <1>3, <1>4, SequenceDomain DEF Stack
  <1>6. QED
    BY <1>1, <1>3, <1>5, RunGoesOn DEF SimInv

\* The innermost frame waits as f, and child is entered.
LEMMA ChildEntered ==
    ASSUME SimInv, Executing, UNCHANGED sim_vars, Len(frames) < MaxDepth,
           NEW f, Running(Borrowed, Simulating, f), Suspended(Borrowed, Simulating, f),
           SameContext(f, Top),
           NEW child, Running(Borrowed, Simulating, child),
           f.is_static => child.is_static, Delegates(f, child),
           Enter(f, child)
    PROVE  SimInv'
  <1> DEFINE c == sync_legacy_state_into_fork(child)
             fs == WithTop(frames, f)
  <1>1. frames # <<>> /\ ops' \in 0 .. MaxOps /\ UNCHANGED <<node, fork_state, result>>
    BY FrameAssumption DEF Executing, SimInv, sim_vars
  <1>2. Stack(Borrowed, Simulating, frames)
    BY DEF SimInv
  <1>3. /\ Stack(Borrowed, Simulating, fs)
        /\ Len(fs) = Len(frames)
        /\ fs[Len(fs)] = f
        /\ fs[1].kind = frames[1].kind
    BY <1>1, <1>2, Replaced DEF Top
  <1>4. Len(frames) \in Nat \ {0}
    BY <1>1, TopRunning
  <1>5. Running(Borrowed, Simulating, c) /\ SameContext(c, child)
    BY SyncRunning
  <1>6. (f.is_static => c.is_static) /\ Delegates(f, c)
    BY <1>5 DEF SameContext, Delegates, StorageAddress, TransientAddress
  <1>7. frames' = Entered(fs, c)
    BY DEF Enter, Entered
  <1> HIDE DEF c, fs
  <1>8. fs # <<>> /\ IsSequence(fs)
    BY <1>3, <1>4, SequenceDomain DEF Stack
  <1>9. /\ Stack(Borrowed, Simulating, frames')
        /\ Len(frames') = Len(fs) + 1
        /\ frames'[1].kind = fs[1].kind
    BY <1>3, <1>5, <1>6, <1>7, <1>8, Pushed
  <1>10. frames' # <<>>
    BY <1>3, <1>4, <1>9, SequenceDomain DEF Stack
  <1>11. Len(frames') <= MaxDepth
    <2>1. PICK n \in Nat : n = Len(frames)
      BY <1>4
    <2>2. PICK m \in Nat : m = MaxDepth
      BY FrameAssumption
    <2>3. n < m /\ Len(frames') = n + 1
      BY <1>3, <1>9, <2>1, <2>2
    <2>4. QED
      BY <2>2, <2>3
  <1>12. QED
    BY <1>1, <1>3, <1>9, <1>10, <1>11, RunGoesOn

\* The innermost frame ends, and the one under it goes on as f.
LEMMA ChildLeft ==
    ASSUME SimInv, NEW kinds, Ends(kinds),
           NEW f, Running(Borrowed, Simulating, f), SameContext(f, Parent), Leave(f)
    PROVE  /\ frames'[Len(frames')] = f
           /\ Len(frames') = Len(frames) - 1
           /\ UNCHANGED sim_vars => SimInv'
  <1> DEFINE fs == Left(frames)
  <1>1. Len(frames) > 1 /\ UNCHANGED <<node, ops>>
    BY DEF Ends
  <1>2. Stack(Borrowed, Simulating, frames)
    BY DEF SimInv
  <1>3. /\ Stack(Borrowed, Simulating, fs)
        /\ Len(fs) = Len(frames) - 1
        /\ fs # <<>>
        /\ fs[Len(fs)] = Parent
        /\ fs[1].kind = frames[1].kind
    BY <1>1, <1>2, Popped DEF Parent
  <1>4. frames' = WithTop(fs, f)
    BY DEF Leave, Left
  <1> HIDE DEF fs
  <1>5. /\ Stack(Borrowed, Simulating, frames')
        /\ Len(frames') = Len(fs)
        /\ frames'[Len(frames')] = f
        /\ frames'[1].kind = fs[1].kind
    BY <1>3, <1>4, Replaced
  <1>6. Len(frames) \in Nat /\ frames # <<>>
    BY <1>1, <1>2, SequenceDomain DEF Stack
  <1>7. frames' # <<>>
    BY <1>1, <1>3, <1>5, <1>6, SequenceDomain DEF Stack
  <1>8. Len(frames') <= MaxDepth
    BY <1>3, <1>5, <1>6, FrameAssumption DEF SimInv
  <1>9. ops' \in 0 .. MaxOps
    BY <1>1 DEF SimInv
  <1>10. ASSUME UNCHANGED sim_vars
         PROVE  SimInv'
    BY Zenon, <1>1, <1>3, <1>5, <1>6, <1>7, <1>8, <1>9, <1>10, RunGoesOn DEF sim_vars
  <1>11. QED
    BY <1>3, <1>5, <1>10

\* A frame with a child waits for it.
LEMMA ParentWaits ==
    ASSUME SimInv, Len(frames) > 1
    PROVE  /\ Running(Borrowed, Simulating, Top)
           /\ Running(Borrowed, Simulating, Parent)
           /\ Suspended(Borrowed, Simulating, Parent)
  <1>1. Stack(Borrowed, Simulating, frames) /\ IsSequence(frames)
    BY DEF SimInv, Stack
  <1>2. Len(frames) \in Nat
    BY <1>1, SequenceDomain
  <1>3. Len(frames) \in 1 .. Len(frames) /\ Len(frames) - 1 \in 1 .. Len(frames)
    BY <1>2
  <1>4. Len(frames) - 1 \in 1 .. (Len(frames) - 1)
    BY <1>2
  <1>5. QED
    BY <1>1, <1>3, <1>4 DEF Stack, Top, Parent

\* SSTORE and TSTORE.
LEMMA WriteKeeps ==
    ASSUME SimInv, UNCHANGED sim_vars, NEW slot \in Slot, NEW word \in Word,
           op_sstore(slot, word) \/ op_tstore(slot, word)
    PROVE  SimInv'
  <1>1. Executing /\ frames # <<>>
    BY DEF op_sstore, op_tstore, Executing
  <1>2. Running(Borrowed, Simulating, Top)
    BY <1>1, TopRunning
  <1>3. Sound(Borrowed, Simulating, Top.state, Top.removed)
    BY <1>2 DEF Running
  <1>4. CASE op_sstore(slot, word)
    <2>1. PICK state : state = set_storage(Top.state, StorageAddress(Top), slot, word)
      OBVIOUS
    <2>2. Sound(Borrowed, Simulating, state, Top.removed)
      BY <1>2, <1>3, <2>1, FrameAddresses, StorageSound
    <2>3. frames' = WithTop(frames, [Top EXCEPT !.state = state])
      BY <1>4, <2>1 DEF op_sstore, SetTop
    <2>4. QED
      BY <1>1, <1>2, <2>2, <2>3, NewState, TopChanges
  <1>5. CASE op_tstore(slot, word)
    <2>1. PICK state : state = tstore(Top.state, TransientAddress(Top), slot, word)
      OBVIOUS
    <2>2. Sound(Borrowed, Simulating, state, Top.removed)
      BY <1>2, <1>3, <2>1, FrameAddresses, TransientSound
    <2>3. frames' = WithTop(frames, [Top EXCEPT !.state = state])
      BY <1>5, <2>1 DEF op_tstore, SetTop
    <2>4. QED
      BY <1>1, <1>2, <2>2, <2>3, NewState, TopChanges
  <1>6. QED
    BY <1>4, <1>5

\* LOG.
LEMMA LogKeeps ==
    ASSUME SimInv, UNCHANGED sim_vars, op_log
    PROVE  SimInv'
  <1>1. Executing /\ frames # <<>>
    BY DEF op_log, Executing
  <1>2. Running(Borrowed, Simulating, Top)
    BY <1>1, TopRunning
  <1>3. PICK f : f = [Top EXCEPT !.logs = @ + 1]
    BY Zenon
  <1>4. Running(Borrowed, Simulating, f) /\ SameContext(f, Top)
    BY <1>2, <1>3 DEF Running, FrameFields, SameContext
  <1>5. frames' = WithTop(frames, f)
    BY <1>3 DEF op_log, SetTop
  <1>6. QED
    BY <1>1, <1>4, <1>5, TopChanges

\* SELFDESTRUCT.
LEMMA SelfdestructKeeps ==
    ASSUME SimInv, UNCHANGED sim_vars, NEW beneficiary \in Address,
           op_selfdestruct(beneficiary)
    PROVE  SimInv'
  <1>1. Executing /\ frames # <<>>
    BY DEF op_selfdestruct, Executing
  <1>2. Running(Borrowed, Simulating, Top)
    BY <1>1, TopRunning
  <1>3. PICK account \in Address : account = StorageAddress(Top)
    BY <1>2, FrameAddresses
  <1>4. PICK state : state = PayOut(Top.state, account, beneficiary)
    OBVIOUS
  <1>5. PICK paid : paid = [Top EXCEPT !.state = state]
    BY Zenon
  <1>6. Running(Borrowed, Simulating, paid) /\ SameContext(paid, Top)
    <2>1. Sound(Borrowed, Simulating, state, Top.removed)
      BY <1>2, <1>4, PaidOut DEF Running
    <2>2. QED
      BY Zenon, <1>2, <1>5, <2>1, NewState
  <1>7. paid.created = Top.created
    BY <1>2, <1>5 DEF Running, FrameFields
  <1>8. frames' = WithTop(frames, IF MayRemove(Top, account)
                                  THEN RemoveAccount(paid, account) ELSE paid)
    BY <1>3, <1>4, <1>5 DEF op_selfdestruct, SetTop
  <1>9. CASE MayRemove(Top, account)
    <2>1. PICK f : f = RemoveAccount(paid, account)
      OBVIOUS
    <2>2. account \in paid.created
      BY <1>7, <1>9 DEF MayRemove
    <2>3. Running(Borrowed, Simulating, f) /\ SameContext(f, paid)
      BY <1>6, <2>1, <2>2, RemovedFrame
    <2>4. SameContext(f, Top)
      BY <1>6, <2>3 DEF SameContext
    <2>5. frames' = WithTop(frames, f)
      BY <1>8, <1>9, <2>1
    <2>6. QED
      BY <1>1, <2>3, <2>4, <2>5, TopChanges
  <1>10. CASE ~MayRemove(Top, account)
    BY <1>1, <1>6, <1>8, <1>10, TopChanges
  <1>11. QED
    BY <1>9, <1>10

\* CALL, STATICCALL and DELEGATECALL.
LEMMA CallKeeps ==
    ASSUME SimInv, UNCHANGED sim_vars, NEW kind \in CallKind, NEW target \in Address,
           execute_call(kind, target)
    PROVE  SimInv'
  <1>1. Executing /\ frames # <<>> /\ Len(frames) < MaxDepth
    BY DEF execute_call, Executing
  <1>2. Running(Borrowed, Simulating, Top)
    BY <1>1, TopRunning
  <1>3. PICK f : f = Waiting(Top)
    OBVIOUS
  <1>4. PICK child : child = Callee(f, kind, target)
    OBVIOUS
  <1>5. Enter(f, child)
    BY <1>3, <1>4 DEF execute_call
  <1>6. /\ Running(Borrowed, Simulating, f) /\ Suspended(Borrowed, Simulating, f)
        /\ SameContext(f, Top)
    BY Zenon, <1>2, <1>3, WaitingFrame
  <1>7. /\ Running(Borrowed, Simulating, child)
        /\ f.is_static => child.is_static
        /\ Delegates(f, child)
    BY <1>4, <1>6, CallChild
  <1>8. QED
    BY <1>1, <1>5, <1>6, <1>7, ChildEntered

\* CREATE and CREATE2.
LEMMA CreateKeeps ==
    ASSUME SimInv, UNCHANGED sim_vars, NEW value \in Value, execute_create(value)
    PROVE  SimInv'
  <1>1. Executing /\ frames # <<>> /\ Len(frames) < MaxDepth /\ ~Top.is_static
    BY DEF execute_create, Executing
  <1>2. Running(Borrowed, Simulating, Top)
    BY <1>1, TopRunning
  <1>3. PICK sender \in Address : sender = StorageAddress(Top)
    BY <1>2, FrameAddresses
  <1>4. PICK nonce \in Nonce : nonce = Lookup(Top.nonces, sender, 0)
    <2>1. 0 \in Nonce
      BY FrameAssumption DEF Nonce
    <2>2. QED
      BY <1>2, <2>1, LookupType DEF Running
  <1>5. PICK nonces : nonces = insert(Top.nonces, sender, SaturatingNext(nonce))
    OBVIOUS
  <1>6. PICK bumped : bumped = BumpNonce(Top, sender, nonce)
    OBVIOUS
  <1>7. IsMap(nonces, Address, Nonce)
    <2>1. SaturatingNext(nonce) \in Nonce
      BY FrameAssumption DEF SaturatingNext, Nonce
    <2>2. QED
      BY Zenon, <1>2, <1>5, <2>1, InsertMap DEF Running
  <1>8. /\ Running(Borrowed, Simulating, bumped) /\ SameContext(bumped, Top)
        /\ bumped.balances = Top.balances
    BY Zenon, <1>2, <1>5, <1>6, <1>7 DEF Running, FrameFields, SameContext, BumpNonce
  <1>9. PICK new_addr \in NewAddresses(sender, nonce) :
            IF CannotAfford(Lookup(Top.balances, sender, 0), value)
            THEN frames' = WithTop(frames, bumped)
            ELSE LET f == Endow(Waiting(bumped), sender, new_addr, value)
                 IN  Enter(f, Creation(f, new_addr))
    BY <1>3, <1>4, <1>6 DEF execute_create, SetTop
  <1>10. new_addr \in Address \ Existing
    BY Zenon, FrameAssumption DEF Existing
  <1>11. CASE CannotAfford(Lookup(Top.balances, sender, 0), value)
    BY <1>1, <1>8, <1>9, <1>11, TopChanges
  <1>12. CASE ~CannotAfford(Lookup(Top.balances, sender, 0), value)
    <2>1. PICK w : w = Waiting(bumped)
      OBVIOUS
    <2>2. PICK f : f = Endow(w, sender, new_addr, value)
      OBVIOUS
    <2>3. Enter(f, Creation(f, new_addr))
      BY <1>9, <1>12, <2>1, <2>2
    <2>4. /\ Running(Borrowed, Simulating, w) /\ Suspended(Borrowed, Simulating, w)
          /\ SameContext(w, bumped)
      BY <1>8, <2>1, WaitingFrame
    <2>5. w.balances = Top.balances
      BY Zenon, <1>8, <2>1 DEF Waiting, Running, FrameFields
    <2>6. /\ Running(Borrowed, Simulating, f) /\ Suspended(Borrowed, Simulating, f)
          /\ SameContext(f, w)
      <3>1. value \in Nat /\ ~CannotAfford(Lookup(w.balances, sender, 0), value)
        BY Zenon, <1>12, <2>5, FrameAssumption
      <3>2. QED
        BY Zenon, <1>10, <2>2, <2>4, <3>1, EndowedFrame
    <2>7. SameContext(f, Top) /\ ~f.is_static
      BY <1>1, <1>8, <2>4, <2>6 DEF SameContext
    <2>8. PICK child : child = Creation(f, new_addr)
      OBVIOUS
    <2>9. /\ Running(Borrowed, Simulating, child)
          /\ f.is_static => child.is_static
          /\ Delegates(f, child)
      BY <1>10, <2>6, <2>7, <2>8, CreateChild
    <2>10. Enter(f, child)
      BY <2>3, <2>8
    <2>11. QED
      BY <1>1, <2>6, <2>7, <2>9, <2>10, ChildEntered
  <1>13. QED
    BY Zenon, <1>11, <1>12

\* A child that succeeds: its caller takes over what it hands over.
LEMMA SuccessKeeps ==
    ASSUME SimInv, UNCHANGED sim_vars, NEW runtime_code \in BOOLEAN,
           CallSucceeds \/ DeploySucceeds(runtime_code)
    PROVE  SimInv'
  <1>1. Len(frames) > 1
    BY Zenon DEF CallSucceeds, DeploySucceeds, Ends
  <1>2. Running(Borrowed, Simulating, Top) /\ Running(Borrowed, Simulating, Parent)
    BY <1>1, ParentWaits
  <1>3. CASE CallSucceeds
    <2>1. PICK child \in sync_fork_into_legacy_state(Top) :
              Leave(TakenOver(Parent, child))
      BY <1>3, Zenon DEF CallSucceeds, TakenOver
    <2>2. PICK f : f = TakenOver(Parent, child)
      OBVIOUS
    <2>3. Running(Borrowed, Simulating, f) /\ SameContext(f, Parent)
      BY <1>2, <2>2, AfterCall
    <2>4. Ends(CallKind) /\ Leave(f)
      BY <1>3, <2>1, <2>2, Zenon DEF CallSucceeds
    <2>5. QED
      BY <2>3, <2>4, ChildLeft
  <1>4. CASE DeploySucceeds(runtime_code)
    <2>1. PICK child \in sync_fork_into_legacy_state(Top) :
              Leave(Deployed(Parent, child, runtime_code))
      BY <1>4, Zenon DEF DeploySucceeds, Deployed
    <2>2. PICK f : f = Deployed(Parent, child, runtime_code)
      OBVIOUS
    <2>3. Ends({"create"}) /\ Leave(f) /\ Top.kind = "create"
      BY <1>4, <2>1, <2>2, Zenon DEF DeploySucceeds, Ends
    <2>4. Running(Borrowed, Simulating, f) /\ SameContext(f, Parent)
      BY Zenon, <1>2, <2>2, <2>3, AfterDeploy
    <2>5. QED
      BY <2>3, <2>4, ChildLeft
  <1>5. QED
    BY <1>3, <1>4

\* A child that fails: its caller is back where it started the child.
LEMMA FailureKeeps ==
    ASSUME SimInv, CallFails \/ DeployFails
    PROVE  /\ UNCHANGED sim_vars => SimInv'
           /\ Len(frames') = Len(frames) - 1
           /\ LET f == frames'[Len(frames')] IN
              [world |-> World(f.state), logs |-> f.logs] = Parent.before
  <1>1. Len(frames) > 1
    BY DEF CallFails, DeployFails, Ends
  <1>2. /\ Running(Borrowed, Simulating, Top) /\ Running(Borrowed, Simulating, Parent)
        /\ Suspended(Borrowed, Simulating, Parent)
    BY Zenon, <1>1, ParentWaits
  <1>3. PICK f, kinds :
            /\ Ends(kinds) /\ Leave(f)
            /\ Running(Borrowed, Simulating, f) /\ SameContext(f, Parent)
            /\ [world |-> World(f.state), logs |-> f.logs] = Parent.before
    <2>1. CASE CallFails
      <3>1. PICK f : f = CallReverted(Parent)
        OBVIOUS
      <3>2. Ends(CallKind) /\ Leave(f)
        BY Zenon, <2>1, <3>1 DEF CallFails, CallReverted
      <3>3. /\ Running(Borrowed, Simulating, f) /\ SameContext(f, Parent)
            /\ [world |-> World(f.state), logs |-> f.logs] = Parent.before
        BY Zenon, <1>2, <3>1, AfterFailedCall
      <3>4. QED
        BY <3>2, <3>3
    <2>2. CASE DeployFails
      <3>1. PICK f : f = DeployReverted(Parent, Top)
        OBVIOUS
      <3>2. Ends({"create"}) /\ Leave(f)
        BY Zenon, <2>2, <3>1 DEF DeployFails, DeployReverted
      <3>3. /\ Running(Borrowed, Simulating, f) /\ SameContext(f, Parent)
            /\ [world |-> World(f.state), logs |-> f.logs] = Parent.before
        BY <1>2, <3>1, AfterFailedDeploy
      <3>4. QED
        BY <3>2, <3>3
    <2>3. QED
      BY Zenon, <2>1, <2>2
  <1>4. /\ frames'[Len(frames')] = f
        /\ Len(frames') = Len(frames) - 1
        /\ UNCHANGED sim_vars => SimInv'
    BY <1>3, ChildLeft
  <1>5. QED
    BY <1>3, <1>4

-----------------------------------------------------------------------------
(* The start and the end of a run. *)

Alone(f) == <<f>>

\* A run starts with one frame, and between runs there is none.
LEMMA FirstFrame ==
    ASSUME NEW b, NEW sim, NEW f, Running(b, sim, f), NEW fs, fs = Alone(f)
    PROVE  /\ Stack(b, sim, fs)
           /\ fs # <<>> /\ Len(fs) = 1 /\ fs[1] = f
  <1>1. fs = <<f>>
    BY DEF Alone
  <1>2. fs \in Seq({f}) /\ Len(fs) = 1 /\ fs[1] = f /\ fs # <<>>
    BY <1>1
  <1>3. IsSequence(fs)
    BY <1>2 DEF IsSequence
  <1>4. /\ \A i \in 1 .. 1 : i = 1
        /\ \A i \in 1 .. (1 - 1) : FALSE
        /\ \A i \in 2 .. 1 : FALSE
    OBVIOUS
  <1>5. QED
    BY <1>2, <1>3, <1>4 DEF Stack

\* No frame is a stack.
LEMMA NoFrame ==
    ASSUME NEW b, NEW sim
    PROVE  Stack(b, sim, <<>>)
  <1>1. IsSequence(<<>>) /\ Len(<<>>) = 0
    BY DEF IsSequence
  <1>2. QED
    BY <1>1 DEF Stack

\* A fork tells what happened to itself: nothing.
LEMMA SelfSound ==
    ASSUME NEW state, IsFork(state), NEW sim, ~sim
    PROVE  Sound(state, sim, state, {})
  BY DEF Sound, Tells

Outermost(kind, target, caller, code, state, balances) ==
    [Frame(kind, target, caller, target, FALSE, code, state)
       EXCEPT !.balances = balances]

\* The outermost frame of a transaction or of a simulation.
LEMMA OuterFrame ==
    ASSUME NEW b, NEW sim, NEW kind, kind # "create", NEW target \in Address,
           NEW caller, NEW code \in BOOLEAN, NEW state, Sound(b, sim, state, {}),
           NEW balances, IsMap(balances, Address, Nat),
           NEW f, f = Outermost(kind, target, caller, code, state, balances)
    PROVE  /\ Running(b, sim, f) /\ f.kind = kind
  <1>1. /\ DOMAIN f = FrameFields
        /\ f.kind = kind /\ f.address = target
        /\ f.storage_address = target /\ f.is_static = FALSE
        /\ f.code = code /\ f.state = state
        /\ f.storage = NoMap /\ f.balances = balances
        /\ f.nonces = NoMap /\ f.contracts = NoMap
        /\ f.created = {} /\ f.undo = NoMap /\ f.removed = {}
    BY Zenon DEF Outermost, Frame, FrameFields
  <1>2. /\ IsMap(NoMap, Slot, Word) /\ IsMap(NoMap, Address, Nat)
        /\ IsMap(NoMap, Address, Nonce)
        /\ IsMap(NoMap, Address \ Existing, BOOLEAN)
    BY EmptyMap
  <1>3. QED
    BY <1>1, <1>2, Zenon DEF Running

\* A run begins on what Borrowed is, before and after.
LEMMA RunStarts ==
    ASSUME SimInv, frames = <<>>, result = NoResult, ops < MaxOps, ops' = ops + 1,
           UNCHANGED <<node, fork_state, result>>,
           NEW sim, NEW f, Running(Borrowed, sim, f), sim <=> f.kind = "simulation",
           sim \in BOOLEAN,
           frames' = <<sync_legacy_state_into_fork(f)>>
    PROVE  SimInv'
  <1>1. PICK g : g = sync_legacy_state_into_fork(f)
    OBVIOUS
  <1>2. Running(Borrowed, sim, g) /\ SameContext(g, f)
    BY Zenon, <1>1, SyncRunning
  <1>3. frames' = Alone(g)
    BY <1>1 DEF Alone
  <1>4. /\ Stack(Borrowed, sim, frames')
        /\ frames' # <<>> /\ Len(frames') = 1 /\ frames'[1] = g
    BY <1>2, <1>3, FirstFrame
  <1>5. Borrowed' = Borrowed
    BY DEF Borrowed
  <1>6. Simulating' = sim
    BY <1>2, <1>4 DEF Simulating, SameContext
  <1>7. Stack(Borrowed, Simulating, frames)'
    BY Zenon, <1>4, <1>5, <1>6
  <1>8. DiffIsTheChange'
    BY DEF DiffIsTheChange
  <1>9. ops' \in 0 .. MaxOps /\ Len(frames') <= MaxDepth
    BY <1>4, FrameAssumption DEF SimInv
  <1>10. QED
    BY <1>7, <1>8, <1>9 DEF SimInv

\* Nothing runs after the step.
LEMMA NothingRuns ==
    ASSUME frames' = <<>>, IsFork(node'), fork_state' # NoRoute => IsFork(fork_state'),
           ops' \in 0 .. MaxOps,
           result' # NoResult => IsAccountMap(result'.state_diff),
           DiffIsTheChange'
    PROVE  SimInv'
  <1>1. Stack(Borrowed, Simulating, frames)'
    BY NoFrame
  <1>2. Len(frames') <= MaxDepth
    BY FrameAssumption
  <1>3. QED
    BY <1>1, <1>2 DEF SimInv

\* apply_signed_transaction starts a transaction on the node's state.
LEMMA TransactionKeeps ==
    ASSUME SimInv, UNCHANGED sim_vars, frames = <<>> => Free,
           NEW target \in TxTarget, NEW balances \in TopBalances,
           BeginTx(target, balances)
    PROVE  SimInv'
  <1>1. IsFork(node) /\ UNCHANGED <<fork_state, result>>
    BY DEF SimInv, sim_vars
  <1>2. frames = <<>> /\ result = NoResult /\ Borrowed = node
    BY DEF BeginTx, Free, Borrowed
  <1>3. target \in Address /\ IsMap(balances, Address, Nat)
    BY FrameAssumption
  <1>4. PICK code \in BOOLEAN : code = get_account(node, target).code
    BY <1>1, <1>3, ReadAccount DEF IsAccount, AccountState
  <1>5. PICK f : f = Outermost("top", target, Origin, code, node, balances)
    OBVIOUS
  <1>6. PICK kind : kind = "top"
    OBVIOUS
  <1>7. PICK sim \in BOOLEAN : ~sim
    BY Zenon
  <1>8. PICK b : b = node
    OBVIOUS
  <1>9. Running(b, sim, f) /\ f.kind = kind
    <2>1. /\ kind # "create" /\ IsFork(b)
          /\ f = Outermost(kind, target, Origin, code, b, balances)
      BY <1>1, <1>5, <1>6, <1>8
    <2>2. Sound(b, sim, b, {})
      BY <1>7, <2>1, SelfSound
    <2>3. QED
      BY <1>3, <2>1, <2>2, OuterFrame
  <1>10. /\ ops < MaxOps /\ ops' = ops + 1 /\ UNCHANGED node
         /\ frames' = <<sync_legacy_state_into_fork(f)>>
    BY <1>4, <1>5 DEF BeginTx, Outermost
  <1>11. Running(Borrowed, sim, f) /\ (sim <=> f.kind = "simulation")
    BY <1>2, <1>6, <1>7, <1>8, <1>9
  <1>12. QED
    BY Zenon, <1>1, <1>2, <1>7, <1>10, <1>11, RunStarts

\* The transaction ends, and the node takes over its fork or does not.
LEMMA TransactionEndKeeps ==
    ASSUME SimInv, UNCHANGED sim_vars, TxSucceeds \/ TxFails
    PROVE  SimInv'
  <1>1. IsFork(node) /\ UNCHANGED <<fork_state, result>>
    BY DEF SimInv, sim_vars
  <1>2. CASE TxSucceeds
    <2>1. frames # <<>>
      BY <1>2 DEF TxSucceeds
    <2>2. Running(Borrowed, Simulating, Top) /\ result = NoResult
      BY <2>1, TopRunning DEF SimInv
    <2>3. IsTransient(NoMap)
      BY Zenon, EmptyMap DEF IsTransient
    <2>4. IsFork(node')
      BY Zenon, <1>2, <2>2, <2>3 DEF TxSucceeds, Running, Sound, IsFork
    <2>5. frames' = <<>> /\ UNCHANGED ops
      BY Zenon, <1>2 DEF TxSucceeds
    <2>6. DiffIsTheChange'
      BY Zenon, <1>1, <2>2 DEF DiffIsTheChange
    <2>7. QED
      BY <1>1, <2>2, <2>4, <2>5, <2>6, NothingRuns DEF SimInv
  <1>3. CASE TxFails
    <2>1. frames # <<>> /\ frames' = <<>> /\ UNCHANGED <<node, ops>>
      <3>1. Len(frames) = 1 /\ frames' = <<>> /\ UNCHANGED <<node, ops>>
        BY <1>3 DEF TxFails
      <3>2. QED
        BY <3>1
    <2>2. result = NoResult
      BY Zenon, <2>1 DEF SimInv
    <2>3. DiffIsTheChange'
      BY Zenon, <1>1, <2>2 DEF DiffIsTheChange
    <2>4. QED
      BY Zenon, <1>1, <2>1, <2>2, <2>3, NothingRuns DEF SimInv
  <1>4. QED
    BY <1>2, <1>3

\* simulate_tx moves the value.
LEMMA TransferSound ==
    ASSUME NEW b, NEW sim, NEW state, Sound(b, sim, state, {}),
           NEW caller \in Address, NEW target \in Address, NEW value \in Nat,
           ~(get_account(state, caller).balance < value)
    PROVE  Sound(b, sim, Transfer(state, caller, target, value), {})
  <1>1. IsFork(state)
    BY DEF Sound
  <1>2. get_account(state, caller).balance \in Nat
    BY <1>1, ReadAccount DEF IsAccount, AccountState
  <1>3. PICK left \in Nat : left = get_account(state, caller).balance - value
    BY <1>2
  <1>4. PICK debited : debited = set_balance(state, caller, left)
    OBVIOUS
  <1>5. Sound(b, sim, debited, {})
    BY <1>4, BalanceSound
  <1>6. PICK sum \in Nat : sum = get_account(debited, target).balance + value
    <2>1. get_account(debited, target).balance \in Nat
      BY Zenon, <1>5, ReadAccount DEF Sound, IsAccount, AccountState
    <2>2. QED
      BY <2>1
  <1>7. Sound(b, sim, set_balance(debited, target, sum), {})
    BY <1>5, BalanceSound
  <1>8. QED
    BY <1>3, <1>4, <1>6, <1>7 DEF Transfer

\* A diff is written into a fork.
LEMMA AppliedFork ==
    ASSUME NEW state, IsFork(state), NEW diff, IsAccountMap(diff)
    PROVE  /\ IsFork(apply_diff(state, diff))
           /\ apply_diff(state, diff).base = state.base
           /\ apply_diff(state, diff).dirty = extend(state.dirty, diff)
  <1> DEFINE dirty == extend(state.dirty, diff)
  <1>1. IsAccountMap(dirty)
    BY Zenon, ExtendAccounts DEF IsFork
  <1>2. DOMAIN state.dirty \subseteq DOMAIN dirty
    BY DEF extend
  <1> HIDE DEF dirty
  <1>3. apply_diff(state, diff) = [state EXCEPT !.dirty = dirty]
    BY DEF apply_diff, dirty
  <1>4. PICK sim \in BOOLEAN : ~sim
    BY Zenon
  <1>5. PICK removed : removed = {}
    BY Zenon
  <1>6. Sound(state, sim, state, removed)
    BY <1>4, <1>5, SelfSound
  <1>7. /\ Sound(state, sim, apply_diff(state, diff), removed)
        /\ apply_diff(state, diff).base = state.base
        /\ apply_diff(state, diff).dirty = dirty
    BY <1>1, <1>2, <1>3, <1>6, GrowDirty
  <1>8. QED
    BY Zenon, <1>7 DEF Sound, dirty

\* A diff that says nothing new.
LEMMA AppliedNothing ==
    ASSUME NEW state, IsFork(state), NEW diff, diff = NoMap \/ diff = state.dirty
    PROVE  /\ IsAccountMap(diff)
           /\ World(apply_diff(state, diff)).account = World(state).account
  <1>1. IsAccountMap(diff)
    <2>1. CASE diff = NoMap
      <3>1. IsMap(diff, Address, AccountState) /\ DOMAIN diff = {}
        BY Zenon, <2>1, EmptyMap
      <3>2. QED
        BY <3>1 DEF IsAccountMap
    <2>2. CASE diff = state.dirty
      BY <2>2 DEF IsFork
    <2>3. QED
      BY <2>1, <2>2
  <1>2. extend(state.dirty, diff) = state.dirty
    <2>1. state.dirty = [x \in DOMAIN state.dirty |-> state.dirty[x]]
      BY DEF IsFork, IsAccountMap, IsMap
    <2>2. CASE diff = NoMap
      <3>1. DOMAIN diff = {}
        BY <2>2, EmptyMap
      <3>2. QED
        BY <2>1, <3>1 DEF extend
    <2>3. CASE diff = state.dirty
      BY <2>1, <2>3 DEF extend
    <2>4. QED
      BY Zenon, <2>2, <2>3
  <1>3. /\ apply_diff(state, diff).base = state.base
        /\ apply_diff(state, diff).dirty = state.dirty
    BY <1>1, <1>2, AppliedFork, Zenon
  <1>4. QED
    BY Zenon, <1>1, <1>3 DEF World, get_account

\* A diff that tells what happened gives every account that was not removed.
LEMMA AppliedChange ==
    ASSUME NEW b, IsFork(b), NEW state, IsFork(state), NEW removed,
           Tells(b, state, removed)
    PROVE  \A a \in Address \ removed :
               World(apply_diff(b, state.dirty)).account[a] = World(state).account[a]
  <1> SUFFICES ASSUME NEW a \in Address \ removed
               PROVE  World(apply_diff(b, state.dirty)).account[a]
                        = World(state).account[a]
    BY Zenon
  <1> DEFINE new == apply_diff(b, state.dirty)
  <1>1. new.base = b.base /\ new.dirty = extend(b.dirty, state.dirty)
    BY AppliedFork, Zenon DEF IsFork
  <1> HIDE DEF new
  <1>2. get_account(new, a) = get_account(state, a)
    <2>1. CASE a \in DOMAIN state.dirty
      BY Zenon, <1>1, <2>1 DEF get_account, Lookup, extend
    <2>2. CASE a \notin DOMAIN state.dirty
      <3>1. /\ a \notin DOMAIN b.dirty
            /\ Lookup(state.base, a, DefaultAccount) = Lookup(b.base, a, DefaultAccount)
        BY Zenon, <2>2 DEF Tells
      <3>2. a \notin DOMAIN new.dirty
        BY Zenon, <1>1, <2>2, <3>1 DEF extend
      <3>3. QED
        BY Zenon, <1>1, <2>2, <3>1, <3>2 DEF get_account, Lookup
    <2>3. QED
      BY <2>1, <2>2
  <1>3. World(new).account[a] = World(state).account[a]
    BY <1>2 DEF World
  <1>4. QED
    BY <1>3 DEF new

\* What a simulation borrows is a fork.
LEMMA BorrowedFork ==
    ASSUME SimInv
    PROVE  IsFork(Borrowed)
  BY DEF SimInv, Borrowed

\* simulate_tx.
LEMMA SimulateKeeps ==
    ASSUME SimInv, NEW caller \in Caller, NEW target \in SimTarget, NEW value \in SimValue,
           simulate_tx(caller, target, value)
    PROVE  SimInv'
  <1>1. /\ frames = <<>> /\ result = NoResult /\ ops < MaxOps /\ ops' = ops + 1
        /\ UNCHANGED <<node, fork_state>>
    BY DEF simulate_tx
  <1>2. caller \in Address /\ target \in Address /\ value \in Nat
    BY SimulationAssumption
  <1>3. PICK b : b = Borrowed
    OBVIOUS
  <1>4. IsFork(b)
    BY <1>3, BorrowedFork
  <1>5. Borrowed' = b
    BY Zenon, <1>1, <1>3 DEF Borrowed
  <1>6. CASE get_account(b, caller).balance < value
    <2>1. result' = Failed(NoMap, 0) /\ frames' = <<>>
      BY Zenon, <1>1, <1>3, <1>6 DEF simulate_tx
    <2>2. result'.state_diff = NoMap /\ result'.success = FALSE
      BY <2>1 DEF Failed
    <2>3. /\ IsAccountMap(NoMap)
          /\ World(apply_diff(b, NoMap)).account = World(b).account
      BY Zenon, <1>4, AppliedNothing
    <2>4. DiffIsTheChange'
      BY Zenon, <1>5, <2>2, <2>3 DEF DiffIsTheChange
    <2>5. ops' \in 0 .. MaxOps
      BY <1>1, FrameAssumption DEF SimInv
    <2>6. QED
      BY Zenon, <1>1, <2>1, <2>2, <2>3, <2>4, <2>5, NothingRuns DEF SimInv
  <1>7. CASE ~(get_account(b, caller).balance < value)
    <2>1. PICK sim : sim = TRUE
      OBVIOUS
    <2>2. PICK s : s = snapshot(b)
      OBVIOUS
    <2>3. Sound(b, sim, s, {}) /\ s.base = b.base /\ s.dirty = b.dirty
      <3>1. PICK no \in BOOLEAN : ~no
        BY Zenon
      <3>2. Sound(b, no, b, {})
        BY <1>4, <3>1, SelfSound
      <3>3. /\ Sound(b, no, s, {})
            /\ Len(b.snapshots) + 1 \in DOMAIN s.snapshots
            /\ s.base = b.base /\ s.dirty = b.dirty
            /\ s.snapshots[Len(b.snapshots) + 1].dirty = b.dirty
        BY Zenon, <2>2, <3>2, SnapshotSound
      <3>4. QED
        BY <3>3 DEF Sound, Rooted
    <2>4. PICK state : state = Transfer(s, caller, target, value)
      OBVIOUS
    <2>5. Sound(b, sim, state, {})
      <3>1. get_account(s, caller) = get_account(b, caller)
        BY <2>3 DEF get_account
      <3>2. QED
        BY <1>2, <1>7, <2>3, <2>4, <3>1, TransferSound
    <2>6. PICK code \in BOOLEAN : code = get_account(b, target).code
      BY <1>2, <1>4, ReadAccount DEF IsAccount, AccountState
    <2>7. PICK kind : kind = "simulation"
      OBVIOUS
    <2>8. PICK f : f = Outermost(kind, target, caller, code, state, NoMap)
      OBVIOUS
    <2>9. Running(b, sim, f) /\ f.kind = kind
      <3>1. kind # "create" /\ IsMap(NoMap, Address, Nat)
        BY <2>7, EmptyMap
      <3>2. QED
        BY <1>2, <2>5, <2>8, <3>1, OuterFrame
    <2>10. f = Frame("simulation", target, caller, target, FALSE, code, state)
      BY <2>7, <2>8, Zenon DEF Outermost, Frame
    <2>11. frames' = <<sync_legacy_state_into_fork(f)>> /\ UNCHANGED result
      BY <1>3, <1>7, <2>2, <2>4, <2>6, <2>10, Zenon DEF simulate_tx
    <2>12. Running(Borrowed, sim, f) /\ (sim <=> f.kind = "simulation") /\ sim \in BOOLEAN
      BY <1>3, <2>1, <2>7, <2>9
    <2>13. QED
      BY <1>1, <2>11, <2>12, RunStarts
  <1>8. QED
    BY <1>6, <1>7

\* The run of a simulation ends.
LEMMA SimulationEndKeeps ==
    ASSUME SimInv, SimulationSucceeds \/ SimulationFails
    PROVE  SimInv'
  <1>1. /\ Len(frames) = 1 /\ Top.kind = "simulation" /\ frames' = <<>>
        /\ UNCHANGED <<node, ops, fork_state>>
    BY DEF SimulationSucceeds, SimulationFails, SimulationEnds
  <1>2. frames # <<>>
    BY <1>1
  <1>3. Simulating
    BY <1>1, <1>2 DEF Simulating, Top
  <1>4. PICK b : b = Borrowed
    OBVIOUS
  <1>5. IsFork(b) /\ Borrowed' = b
    BY <1>1, <1>4, BorrowedFork DEF Borrowed
  <1>6. PICK state : state = Top.state
    OBVIOUS
  <1>7. /\ IsFork(state) /\ Tells(b, state, Top.removed) /\ Rooted(b, state)
    BY Zenon, <1>2, <1>3, <1>4, <1>6, TopRunning DEF Running, Sound
  <1>8. CASE SimulationSucceeds
    <2>1. /\ result'.success = TRUE /\ result'.state_diff = state.dirty
          /\ result'.accounts = World(state).account
          /\ result'.removed = Top.removed
      BY <1>6, <1>8 DEF SimulationSucceeds
    <2>2. \A a \in Address \ Top.removed :
              World(apply_diff(b, state.dirty)).account[a] = World(state).account[a]
      <3>1. PICK removed : removed = Top.removed
        OBVIOUS
      <3>2. Tells(b, state, removed)
        BY Zenon, <1>7, <3>1
      <3>3. \A a \in Address \ removed :
                World(apply_diff(b, state.dirty)).account[a] = World(state).account[a]
        BY <1>5, <1>7, <3>2, AppliedChange
      <3>4. QED
        BY <3>1, <3>3, Zenon
    <2>3. DiffIsTheChange'
      BY Zenon, <1>5, <2>1, <2>2 DEF DiffIsTheChange
    <2>4. IsAccountMap(result'.state_diff)
      BY Zenon, <1>7, <2>1 DEF IsFork
    <2>5. QED
      BY Zenon, <1>1, <2>3, <2>4, NothingRuns DEF SimInv
  <1>9. CASE SimulationFails
    <2>1. PICK n \in Nat : n = Len(b.snapshots)
      BY Zenon, <1>5, SequenceDomain DEF IsFork
    <2>2. n + 1 \in DOMAIN state.snapshots /\ state.snapshots[n + 1].dirty = b.dirty
      BY Zenon, <1>7, <2>1 DEF Rooted
    <2>3. revert_to_snapshot(state, n).dirty = b.dirty
      <3>1. revert_to_snapshot(state, n) = Restored(state, n)
        BY Zenon, <1>7, <2>2, RevertRestores
      <3>2. QED
        BY Zenon, <2>2, <3>1, RestoredDirty
    <2>4. result'.success = FALSE /\ result'.state_diff = b.dirty
      BY Zenon, <1>4, <1>6, <1>9, <2>1, <2>3 DEF SimulationFails, Failed
    <2>5. /\ IsAccountMap(b.dirty)
          /\ World(apply_diff(b, b.dirty)).account = World(b).account
      BY Zenon, <1>5, AppliedNothing
    <2>6. DiffIsTheChange'
      BY Zenon, <1>5, <2>4, <2>5 DEF DiffIsTheChange
    <2>7. QED
      BY Zenon, <1>1, <2>4, <2>5, <2>6, NothingRuns DEF SimInv
  <1>10. QED
    BY Zenon, <1>8, <1>9

\* What the callers of simulate_tx do with a result, and the steps of a route.
LEMMA RouteKeeps ==
    ASSUME SimInv,
           \/ DropDiff
           \/ RouteStarts
           \/ \E token_out \in SimTarget, slot \in Slot, amount \in Word :
                HopApplies(token_out, slot, amount)
           \/ HopFails
           \/ RouteEnds
    PROVE  SimInv'
  <1>1. frames' = <<>> /\ UNCHANGED <<node, ops>> /\ result' = NoResult
    BY DEF SimInv, DropDiff, RouteStarts, Free, HopApplies, HopFails, RouteEnds
  <1>2. DiffIsTheChange'
    BY Zenon, <1>1 DEF DiffIsTheChange
  <1>3. fork_state' # NoRoute => IsFork(fork_state')
    <2>1. CASE \E token_out \in SimTarget, slot \in Slot, amount \in Word :
                 HopApplies(token_out, slot, amount)
      <3>1. PICK token_out \in SimTarget, slot \in Slot, amount \in Word :
                HopApplies(token_out, slot, amount)
        BY <2>1
      <3>2. PICK b : b = fork_state
        OBVIOUS
      <3>3. PICK diff : diff = result.state_diff
        OBVIOUS
      <3>4. IsFork(b) /\ IsAccountMap(diff) /\ token_out \in Address
        BY Zenon, <3>1, <3>2, <3>3, SimulationAssumption DEF HopApplies, SimInv
      <3>5. PICK applied : applied = apply_diff(b, diff)
        OBVIOUS
      <3>6. PICK sim \in BOOLEAN : ~sim
        BY Zenon
      <3>7. Sound(applied, sim, set_storage(applied, token_out, slot, amount), {})
        <4>1. IsFork(applied)
          BY <3>4, <3>5, AppliedFork
        <4>2. Sound(applied, sim, applied, {})
          BY Zenon, <3>6, <4>1, SelfSound
        <4>3. QED
          BY Zenon, <3>4, <4>2, StorageSound
      <3>8. fork_state' = set_storage(apply_diff(b, diff), token_out, slot, amount)
        BY Zenon, <3>1, <3>2, <3>3 DEF HopApplies
      <3>9. QED
        BY <3>5, <3>7, <3>8 DEF Sound
    <2>2. CASE DropDiff \/ RouteStarts \/ HopFails \/ RouteEnds
      BY Zenon, <2>2 DEF SimInv, DropDiff, RouteStarts, HopFails, RouteEnds
    <2>3. QED
      BY <2>1, <2>2
  <1>4. QED
    BY Zenon, <1>1, <1>2, <1>3, NothingRuns DEF SimInv

-----------------------------------------------------------------------------
(* The theorems. *)

\* The node starts with the base state, and no dirty account.
LEMMA StartSound == SimInit => SimInv
  <1> SUFFICES ASSUME SimInit
               PROVE  SimInv
    OBVIOUS
  <1>1. IsAccountMap(Genesis) /\ Existing \subseteq DOMAIN Genesis
    BY FrameAssumption DEF IsAccountMap, Existing
  <1>2. IsAccountMap(NoMap) /\ IsTransient(NoMap)
    BY EmptyMap DEF IsAccountMap, IsTransient
  <1>3. IsSequence(<<>>) /\ DOMAIN <<>> = {}
    BY DEF IsSequence
  <1>4. IsFork(node)
    BY Zenon, <1>1, <1>2, <1>3 DEF SimInit, Init, IsFork
  <1>5. Stack(Borrowed, Simulating, frames)
    BY NoFrame DEF SimInit, Init
  <1>6. Len(frames) <= MaxDepth /\ ops \in 0 .. MaxOps
    BY FrameAssumption DEF SimInit, Init
  <1>7. QED
    BY <1>4, <1>5, <1>6 DEF SimInit, SimInv, DiffIsTheChange

\* Every step keeps the invariant.
LEMMA StepSound == SimInv /\ [SimNext]_<<vars, sim_vars>> => SimInv'
  <1> SUFFICES ASSUME SimInv, [SimNext]_<<vars, sim_vars>>
               PROVE  SimInv'
    OBVIOUS
  <1>1. CASE UNCHANGED <<vars, sim_vars>>
    BY Zenon, <1>1 DEF vars, sim_vars, SimInv, Borrowed, Simulating, DiffIsTheChange
  <1>2. CASE (frames = <<>> => Free) /\ Next /\ UNCHANGED sim_vars
    <2>1. CASE \E target \in TxTarget, balances \in TopBalances :
                 BeginTx(target, balances)
      BY <1>2, <2>1, TransactionKeeps
    <2>2. CASE \E slot \in Slot, word \in Word :
                 op_sstore(slot, word) \/ op_tstore(slot, word)
      BY <1>2, <2>2, WriteKeeps
    <2>3. CASE op_log
      BY <1>2, <2>3, LogKeeps
    <2>4. CASE \E beneficiary \in Address : op_selfdestruct(beneficiary)
      BY Zenon, <1>2, <2>4, SelfdestructKeeps
    <2>5. CASE \E kind \in CallKind, target \in Address : execute_call(kind, target)
      BY Zenon, <1>2, <2>5, CallKeeps
    <2>6. CASE \E value \in Value : execute_create(value)
      BY <1>2, <2>6, CreateKeeps
    <2>7. CASE CallSucceeds \/ \E runtime_code \in BOOLEAN : DeploySucceeds(runtime_code)
      BY <1>2, <2>7, SuccessKeeps, Zenon
    <2>8. CASE CallFails \/ DeployFails
      BY <1>2, <2>8, FailureKeeps
    <2>9. CASE TxSucceeds \/ TxFails
      BY <1>2, <2>9, TransactionEndKeeps
    <2>10. QED
      BY Zenon, <1>2, <2>1, <2>2, <2>3, <2>4, <2>5, <2>6, <2>7, <2>8, <2>9 DEF Next
  <1>3. CASE \E caller \in Caller, target \in SimTarget, value \in SimValue :
               simulate_tx(caller, target, value)
    BY <1>3, SimulateKeeps
  <1>4. CASE SimulationSucceeds \/ SimulationFails
    BY <1>4, SimulationEndKeeps
  <1>5. CASE \/ DropDiff
             \/ RouteStarts
             \/ \E token_out \in SimTarget, slot \in Slot, amount \in Word :
                  HopApplies(token_out, slot, amount)
             \/ HopFails
             \/ RouteEnds
    BY <1>5, RouteKeeps
  <1>6. QED
    BY <1>1, <1>2, <1>3, <1>4, <1>5 DEF SimNext

\* SimInv is an invariant of transactions, simulations and routes alike.
LEMMA Invariant == SimSpec => []SimInv
  BY StartSound, StepSound, PTL DEF SimSpec

\* What the invariant says of the forks of the node and of the frames.
LEMMA InvariantForks ==
    ASSUME SimInv
    PROVE  /\ IsFork(node)
           /\ \A i \in DOMAIN frames : IsFork(frames[i].state)
           /\ DOMAIN frames = 1 .. Len(frames)
  <1>1. IsSequence(frames)
    BY DEF SimInv, Stack
  <1>2. DOMAIN frames = 1 .. Len(frames)
    BY <1>1, SequenceDomain
  <1>3. QED
    BY Zenon, <1>2 DEF SimInv, Stack, Running, Sound

\* Type correctness of CallFrames: every fork stays well formed, however calls,
\* creations, removals and reverts are nested; in particular execute_deploy never
\* subtracts more than a balance has, in the map or in the fork.
THEOREM TypeCorrect == SimSpec => []TypeOK
  <1>1. SimInv => TypeOK
    <2> SUFFICES ASSUME SimInv
                 PROVE  TypeOK
      OBVIOUS
    <2>1. ASSUME NEW state, IsFork(state)
          PROVE  IsState(state)
      BY <2>1, Zenon DEF IsFork, IsState, IsAccountMap, IsTransient
    <2>2. QED
      BY <2>1, InvariantForks DEF SimInv, TypeOK
  <1>2. QED
    BY <1>1, Invariant, PTL

\* Delegated code has the storage, the transient storage and the caller of the frame
\* that delegated to it, at any depth and through any chain of delegate calls
\* (execute_call's storage_address, caller and transient_address).
THEOREM DelegateContext == SimSpec => []DelegateKeepsContext
  <1>1. SimInv => DelegateKeepsContext
    BY Zenon DEF SimInv, Stack, Delegates, DelegateKeepsContext
  <1>2. QED
    BY <1>1, Invariant, PTL

\* No SELFDESTRUCT, creation or revert, in whatever frame, takes the code of a
\* contract of the base state (the created_in_transaction check of
\* op_selfdestruct).
THEOREM ExistingCode == SimSpec => []ExistingCodeSurvives
  <1>1. SimInv => ExistingCodeSurvives
    <2> SUFFICES ASSUME SimInv
                 PROVE  ExistingCodeSurvives
      OBVIOUS
    <2>1. Existing \subseteq Address
      BY FrameAssumption DEF Existing, IsMap
    <2>2. ASSUME NEW state, IsFork(state), NEW a \in Existing
          PROVE  get_account(state, a).code
      BY <2>1, <2>2, ReadAccount DEF IsAccount
    <2>3. QED
      BY <2>2, InvariantForks DEF ExistingCodeSurvives
  <1>2. QED
    BY <1>1, Invariant, PTL

\* The diff that simulate_tx returns, written into the state it started from, is the
\* change that the simulated code made; the diff of a failed run is no change.
THEOREM DiffTellsTheChange == SimSpec => []DiffIsTheChange
  <1>1. SimInv => DiffIsTheChange
    BY DEF SimInv
  <1>2. QED
    BY <1>1, Invariant, PTL

\* A call or a creation that fails leaves its caller with the state and the logs
\* that it had when it started the child (revert_to_snapshot in execute_call and
\* execute_deploy), at any depth.
THEOREM FailureLeavesNoTrace == SimSpec => FailedFrameLeavesNoTrace
  <1>1. SimInv /\ [SimNext]_<<vars, sim_vars>> =>
            [CallFails \/ DeployFails =>
                LET f == frames'[Len(frames')] IN
                [world |-> World(f.state), logs |-> f.logs] = Parent.before]_vars
    BY Zenon, FailureKeeps
  <1>2. QED
    BY <1>1, Invariant, PTL DEF SimSpec, FailedFrameLeavesNoTrace

\* In a static context the innermost frame is static.
LEMMA StaticTop ==
    ASSUME SimInv, NEW i \in DOMAIN frames, frames[i].is_static
    PROVE  Top.is_static /\ Len(frames) \in Nat \ {0}
  <1>1. DOMAIN frames = 1 .. Len(frames) /\ IsSequence(frames)
    BY InvariantForks DEF SimInv, Stack
  <1>2. Len(frames) \in Nat \ {0}
    BY <1>1, SequenceDomain
  <1>3. Len(frames) \in 1 .. Len(frames) /\ i <= Len(frames)
    BY <1>1, <1>2
  <1>4. QED
    BY Zenon, <1>1, <1>2, <1>3 DEF SimInv, Stack, Top

\* A call makes the stack deeper.
LEMMA CallDeepens ==
    ASSUME SimInv, frames # <<>>, NEW kind, NEW target, execute_call(kind, target)
    PROVE  Len(frames') = Len(frames) + 1
  <1>1. PICK f : f = Waiting(Top)
    OBVIOUS
  <1>2. PICK c : c = sync_legacy_state_into_fork(Callee(f, kind, target))
    OBVIOUS
  <1>3. frames' = Append(WithTop(frames, f), c)
    BY <1>1, <1>2 DEF execute_call, Enter
  <1>4. IsSequence(frames)
    BY TopRunning
  <1>5. IsSequence(WithTop(frames, f)) /\ Len(WithTop(frames, f)) = Len(frames)
    BY <1>4, ReplaceLast
  <1>6. QED
    BY <1>3, <1>5, AppendLast

\* The end of a child makes it less deep.
LEMMA ReturnShortens ==
    ASSUME SimInv,
           \/ CallSucceeds \/ CallFails \/ DeployFails
           \/ \E runtime_code \in BOOLEAN : DeploySucceeds(runtime_code)
    PROVE  Len(frames') # Len(frames)
  <1>1. Len(frames) > 1 /\ \E f : Leave(f)
    BY Zenon DEF CallSucceeds, CallFails, DeployFails, DeploySucceeds, Ends
  <1>2. PICK f : frames' = WithTop(Left(frames), f)
    BY Zenon, <1>1 DEF Leave, Left
  <1>3. Stack(Borrowed, Simulating, frames) /\ Len(frames) \in Nat
    BY SequenceDomain DEF SimInv, Stack
  <1>4. PICK fs : fs = Left(frames)
    OBVIOUS
  <1>5. IsSequence(fs) /\ fs # <<>> /\ Len(fs) = Len(frames) - 1
    <2>1. /\ Stack(Borrowed, Simulating, fs)
          /\ fs # <<>> /\ Len(fs) = Len(frames) - 1
      BY Zenon, <1>1, <1>3, <1>4, Popped
    <2>2. QED
      BY Zenon, <2>1 DEF Stack
  <1>6. Len(frames') = Len(fs)
    BY <1>2, <1>4, <1>5, ReplaceLast
  <1>7. QED
    BY <1>3, <1>5, <1>6

\* Under a STATICCALL, at any depth below it, no operation of the running frame
\* changes an account, a slot, a transient slot or the logs (the is_static checks
\* of the operations and the flag that execute_call hands down).
THEOREM StaticReadOnly == SimSpec => StaticContextIsReadOnly
  <1>1. ASSUME SimInv, [SimNext]_<<vars, sim_vars>>,
               NEW i \in DOMAIN frames, frames[i].is_static, Len(frames') = Len(frames)
        PROVE  /\ World(Top.state) = World(frames'[Len(frames)].state)
               /\ Top.logs = frames'[Len(frames)].logs
    <2>1. Top.is_static /\ Len(frames) \in Nat \ {0}
      BY <1>1, StaticTop
    <2>2. frames # <<>> /\ frames' # <<>>
      BY <1>1, <2>1
    <2>3. CASE UNCHANGED frames
      BY Zenon, <2>3 DEF Top
    <2>4. CASE Next
      <3>1. ~\E target \in TxTarget, balances \in TopBalances : BeginTx(target, balances)
        BY <2>2, Zenon DEF BeginTx
      <3>2. ~\E slot \in Slot, word \in Word :
                op_sstore(slot, word) \/ op_tstore(slot, word)
        BY <2>1 DEF op_sstore, op_tstore
      <3>3. ~op_log /\ ~\E beneficiary \in Address : op_selfdestruct(beneficiary)
        BY <2>1 DEF op_log, op_selfdestruct
      <3>4. ASSUME NEW kind \in CallKind, NEW target \in Address,
                   execute_call(kind, target)
            PROVE  FALSE
        BY <1>1, <2>1, <2>2, <3>4, CallDeepens
      <3>5. ~\E value \in Value : execute_create(value)
        BY Zenon, <2>1 DEF execute_create
      <3>6. ASSUME CallSucceeds \/ CallFails \/ DeployFails
                     \/ \E runtime_code \in BOOLEAN : DeploySucceeds(runtime_code)
            PROVE  FALSE
        BY <1>1, <2>1, <3>6, ReturnShortens
      <3>7. ~TxSucceeds /\ ~TxFails
        BY Zenon, <2>2 DEF TxSucceeds, TxFails
      <3>8. QED
        BY Zenon, <2>4, <3>1, <3>2, <3>3, <3>4, <3>5, <3>6, <3>7 DEF Next
    <2>5. CASE \E caller \in Caller, target \in SimTarget, value \in SimValue :
                 simulate_tx(caller, target, value)
      BY Zenon, <2>2, <2>5 DEF simulate_tx
    <2>6. CASE SimulationSucceeds \/ SimulationFails
      BY Zenon, <2>2, <2>6 DEF SimulationSucceeds, SimulationFails, SimulationEnds
    <2>7. CASE \/ DropDiff
               \/ RouteStarts
               \/ \E token_out \in SimTarget, slot \in Slot, amount \in Word :
                    HopApplies(token_out, slot, amount)
               \/ HopFails
               \/ RouteEnds
      <3>1. UNCHANGED frames
        BY Zenon, <2>7 DEF DropDiff, RouteStarts, HopApplies, HopFails, RouteEnds
      <3>2. QED
        BY Zenon, <2>3, <3>1
    <2>8. CASE UNCHANGED <<vars, sim_vars>>
      BY <2>3, <2>8 DEF vars
    <2>9. QED
      BY Zenon, <1>1, <2>4, <2>5, <2>6, <2>7, <2>8 DEF SimNext
  <1>2. SimInv /\ [SimNext]_<<vars, sim_vars>> =>
            [(\E i \in DOMAIN frames : frames[i].is_static) /\ Len(frames') = Len(frames) =>
                /\ World(Top.state) = World(frames'[Len(frames)].state)
                /\ Top.logs = frames'[Len(frames)].logs]_vars
    BY Zenon, <1>1
  <1>3. QED
    BY <1>2, Invariant, PTL DEF SimSpec, StaticContextIsReadOnly

=============================================================================
