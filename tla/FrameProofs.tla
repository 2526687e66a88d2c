---------------------------- MODULE FrameProofs -----------------------------
(***************************************************************************)
(* Lemmas about the forks and the frames of CallFrames and Simulation, for *)
(* any addresses and any depth of calls: what each operation of a fork and *)
(* of a frame keeps.                                                       *)
(*                                                                         *)
(* The invariant (SimInv) describes one frame at a time, whoever put it    *)
(* on the stack: its fork (Sound), its maps (Running), and, of a frame     *)
(* that waits for a child, the fork its snapshot would give back           *)
(* (Suspended).  Three lemmas lift that to the stack: the innermost frame  *)
(* changes (Replaced), a child is entered (Pushed), a child ends (Popped). *)
(***************************************************************************)
EXTENDS Simulation, TLAPS

\* The time a prover has for a leaf.
USE SMTT(30)

IsSequence(q) == \E S : q \in Seq(S)

\* account may stand at address a: a contract of the base state keeps its code.
IsAccount(a, account) ==
    /\ account \in AccountState
    /\ a \in Existing => account.code

IsAccountMap(map) ==
    /\ IsMap(map, Address, AccountState)
    /\ \A a \in DOMAIN map \cap Existing : map[a].code

IsTransient(map) == IsMap(map, Address \X Slot, Word)

\* Every fork: its layers are well formed, and the id of a snapshot is its place on
\* the stack of snapshots.
IsFork(state) ==
    /\ DOMAIN state = {"base", "dirty", "transient", "snapshots"}
    /\ IsAccountMap(state.base)
    /\ Existing \subseteq DOMAIN state.base
    /\ IsAccountMap(state.dirty)
    /\ IsTransient(state.transient)
    /\ IsSequence(state.snapshots)
    /\ \A p \in DOMAIN state.snapshots :
         /\ DOMAIN state.snapshots[p] = {"id", "dirty", "transient"}
         /\ state.snapshots[p].id = p - 1
         /\ IsAccountMap(state.snapshots[p].dirty)
         /\ IsTransient(state.snapshots[p].transient)

\* What revert_to_snapshot gives back, if there is a snapshot of that id.
Restored(state, id) ==
    [base |-> state.base,
     dirty |-> state.snapshots[id + 1].dirty,
     transient |-> state.snapshots[id + 1].transient,
     snapshots |-> SubSeq(state.snapshots, 1, id)]

\* The dirty layer of state tells what happened since the run began on borrowed:
\* an account it does not have is in both bases alike, or removed.
Tells(borrowed, state, removed) ==
    \A a \in Address \ removed :
        \/ a \in DOMAIN state.dirty
        \/ /\ a \notin DOMAIN borrowed.dirty
           /\ Lookup(state.base, a, DefaultAccount)
                = Lookup(borrowed.base, a, DefaultAccount)

\* The snapshot that simulate_tx took is still where it was.
Rooted(borrowed, state) ==
    /\ Len(borrowed.snapshots) + 1 \in DOMAIN state.snapshots
    /\ state.snapshots[Len(borrowed.snapshots) + 1].dirty = borrowed.dirty

\* The fork of a frame of a run on borrowed: a simulation, if simulated.
Sound(borrowed, simulated, state, removed) ==
    /\ IsFork(state)
    /\ Tells(borrowed, state, removed)
    /\ simulated => Rooted(borrowed, state)

FrameFields ==
    {"kind", "address", "caller", "storage_address", "is_static", "code", "state",
     "logs", "storage", "balances", "nonces", "contracts", "created", "snapshot",
     "undo", "before", "removed"}

\* Every frame: its maps are well formed, and neither the code they hold nor the
\* accounts created so far are at the address of an existing contract.
Running(borrowed, simulated, f) ==
    /\ DOMAIN f = FrameFields
    /\ f.address \in Address
    /\ f.storage_address \in Address
    /\ f.is_static \in BOOLEAN
    /\ f.code \in BOOLEAN
    /\ Sound(borrowed, simulated, f.state, f.removed)
    /\ IsMap(f.storage, Slot, Word)
    /\ IsMap(f.balances, Address, Nat)
    /\ IsMap(f.nonces, Address, Nonce)
    /\ IsMap(f.undo, Address, Nat)
    /\ IsMap(f.contracts, Address \ Existing, BOOLEAN)
    /\ f.created \subseteq Address \ Existing
    /\ f.kind = "create" => f.address \notin Existing

\* A frame that waits for a child: what it would go back to is what it saw.
Suspended(borrowed, simulated, f) ==
    /\ f.snapshot \in Nat
    /\ f.snapshot + 1 \in DOMAIN f.state.snapshots
    /\ Sound(borrowed, simulated, Restored(f.state, f.snapshot), f.removed)
    /\ f.before = [world |-> World(Restored(f.state, f.snapshot)), logs |-> f.logs]

\* A delegated child has the context of its parent.
Delegates(parent, child) ==
    child.kind = "delegate" /\ parent.storage_address # ZeroAddress =>
        /\ StorageAddress(child) = StorageAddress(parent)
        /\ TransientAddress(child) = TransientAddress(parent)
        /\ child.caller = parent.caller

Stack(borrowed, simulated, fs) ==
    /\ IsSequence(fs)
    /\ \A i \in 1 .. Len(fs) : Running(borrowed, simulated, fs[i])
    /\ \A i \in 1 .. (Len(fs) - 1) : Suspended(borrowed, simulated, fs[i])
    /\ \A i, j \in 1 .. Len(fs) : i <= j /\ fs[i].is_static => fs[j].is_static
    /\ \A i \in 2 .. Len(fs) : Delegates(fs[i - 1], fs[i])

Simulating == frames # <<>> /\ frames[1].kind = "simulation"

\* The diff and the accounts it is compared with are those of one run.
SimInv ==
    /\ IsFork(node)
    /\ fork_state # NoRoute => IsFork(fork_state)
    /\ Stack(Borrowed, Simulating, frames)
    /\ Len(frames) <= MaxDepth
    /\ ops \in 0 .. MaxOps
    /\ frames # <<>> => result = NoResult
    /\ result # NoResult => IsAccountMap(result.state_diff)
    /\ DiffIsTheChange

-----------------------------------------------------------------------------
(* Maps and sequences. *)

\* The two ways to say that storage is a map from slots to words.
LEMMA StorageIsMap ==
    ASSUME NEW map
    PROVE  map \in Storage <=> IsMap(map, Slot, Word)
  BY DEF Storage, IsMap

\* HashMap::new gives a map of any type.
LEMMA EmptyMap ==
    ASSUME NEW S, NEW T
    PROVE  IsMap(NoMap, S, T) /\ DOMAIN NoMap = {}
  BY DEF NoMap, IsMap

\* HashMap::insert keeps the type of a map.
LEMMA InsertMap ==
    ASSUME NEW S, NEW T, NEW map, IsMap(map, S, T), NEW k \in S, NEW v \in T
    PROVE  IsMap(insert(map, k, v), S, T)
  BY DEF insert, IsMap

\* HashMap::insert changes one key.
LEMMA InsertedValues ==
    ASSUME NEW map, NEW k, NEW v
    PROVE  /\ DOMAIN insert(map, k, v) = DOMAIN map \cup {k}
           /\ insert(map, k, v)[k] = v
           /\ \A x \in DOMAIN map \ {k} : insert(map, k, v)[x] = map[x]
  BY DEF insert

\* HashMap::extend keeps the type of a map.
LEMMA ExtendMap ==
    ASSUME NEW S, NEW T, NEW map, IsMap(map, S, T), NEW other, IsMap(other, S, T)
    PROVE  IsMap(extend(map, other), S, T)
  BY DEF extend, IsMap

\* HashMap::extend takes the values of the other map where it has any.
LEMMA ExtendedValues ==
    ASSUME NEW map, NEW other
    PROVE  /\ DOMAIN extend(map, other) = DOMAIN map \cup DOMAIN other
           /\ \A x \in DOMAIN other : extend(map, other)[x] = other[x]
           /\ \A x \in DOMAIN map \ DOMAIN other : extend(map, other)[x] = map[x]
  BY DEF extend

\* HashMap::remove keeps the type of a map.
LEMMA RemoveMap ==
    ASSUME NEW S, NEW T, NEW map, IsMap(map, S, T), NEW k
    PROVE  IsMap(remove(map, k), S, T)
  BY DEF remove, IsMap

\* HashMap::remove changes one key.
LEMMA RemovedValues ==
    ASSUME NEW map, NEW k
    PROVE  /\ DOMAIN remove(map, k) = DOMAIN map \ {k}
           /\ \A x \in DOMAIN map \ {k} : remove(map, k)[x] = map[x]
  BY DEF remove

\* Reading a map, with a default of the type of its values.
LEMMA LookupType ==
    ASSUME NEW S, NEW T, NEW map, IsMap(map, S, T), NEW k, NEW default \in T
    PROVE  Lookup(map, k, default) \in T
  BY DEF Lookup, IsMap

\* The last element of a sequence is replaced.
LEMMA ReplaceLast ==
    ASSUME NEW q, IsSequence(q), q # <<>>, NEW e
    PROVE  /\ IsSequence(WithTop(q, e))
           /\ Len(q) \in Nat \ {0}
           /\ Len(WithTop(q, e)) = Len(q)
           /\ WithTop(q, e)[Len(q)] = e
           /\ \A i \in 1 .. (Len(q) - 1) : WithTop(q, e)[i] = q[i]
  <1> DEFINE r == WithTop(q, e)
  <1>1. PICK S : q \in Seq(S)
    BY DEF IsSequence
  <1>2. q \in Seq(S \cup {e})
    BY <1>1
  <1>3. r \in Seq(S \cup {e})
    BY <1>2 DEF WithTop
  <1>4. QED
    BY <1>1, <1>3 DEF IsSequence, WithTop

\* An element is appended.
LEMMA AppendLast ==
    ASSUME NEW q, IsSequence(q), NEW e
    PROVE  /\ IsSequence(Append(q, e))
           /\ Len(q) \in Nat
           /\ Len(Append(q, e)) = Len(q) + 1
           /\ Append(q, e)[Len(q) + 1] = e
           /\ \A i \in 1 .. Len(q) : Append(q, e)[i] = q[i]
  <1> DEFINE r == Append(q, e)
  <1>1. PICK S : q \in Seq(S)
    BY DEF IsSequence
  <1>2. q \in Seq(S \cup {e})
    BY <1>1
  <1>3. r \in Seq(S \cup {e})
    BY <1>2
  <1>4. QED
    BY <1>1, <1>3 DEF IsSequence

Prefix(q, n) == SubSeq(q, 1, n)

\* A prefix is taken.
LEMMA TakePrefix ==
    ASSUME NEW q, IsSequence(q), NEW n \in 0 .. Len(q), NEW r, r = Prefix(q, n)
    PROVE  /\ IsSequence(r)
           /\ Len(r) = n
           /\ \A i \in 1 .. n : r[i] = q[i]
  <1>1. PICK S : q \in Seq(S)
    BY DEF IsSequence
  <1>2. Len(q) \in Nat
    BY <1>1
  <1>3. r = SubSeq(q, 1, n)
    BY DEF Prefix
  <1>4. r \in Seq(S)
    BY <1>1, <1>2, <1>3
  <1>5. QED
    BY <1>1, <1>2, <1>3, <1>4 DEF IsSequence

\* The indices of a sequence.
LEMMA SequenceDomain ==
    ASSUME NEW q, IsSequence(q)
    PROVE  Len(q) \in Nat /\ DOMAIN q = 1 .. Len(q) /\ (q # <<>> <=> Len(q) > 0)
  BY DEF IsSequence

-----------------------------------------------------------------------------
(* The stack of frames. *)

\* What an operation of a frame never changes.
SameContext(f, g) ==
    /\ f.kind = g.kind
    /\ f.address = g.address
    /\ f.caller = g.caller
    /\ f.storage_address = g.storage_address
    /\ f.is_static = g.is_static

\* The stack with a child, and without its innermost frame.
Entered(fs, child) == Append(fs, child)

Left(fs) == SubSeq(fs, 1, Len(fs) - 1)

\* The innermost frame changes, in its own context.
LEMMA Replaced ==
    ASSUME NEW b, NEW sim, NEW fs, Stack(b, sim, fs), fs # <<>>,
           NEW f, Running(b, sim, f), SameContext(f, fs[Len(fs)]),
           NEW gs, gs = WithTop(fs, f)
    PROVE  /\ Stack(b, sim, gs)
           /\ Len(gs) = Len(fs)
           /\ gs[Len(gs)] = f
           /\ gs[1].kind = fs[1].kind
  <1> DEFINE n == Len(fs)
  <1>1. /\ IsSequence(gs) /\ Len(gs) = n /\ n \in Nat \ {0} /\ gs[n] = f
        /\ \A i \in 1 .. (n - 1) : gs[i] = fs[i]
    <2>1. IsSequence(fs)
      BY DEF Stack
    <2>2. QED
      BY <2>1, ReplaceLast
  <1> HIDE DEF n
  <1>2. \A i \in 1 .. n : SameContext(gs[i], fs[i])
    <2>1. SameContext(gs[n], fs[n])
      BY <1>1 DEF n
    <2>2. \A i \in 1 .. (n - 1) : SameContext(gs[i], fs[i])
      BY <1>1 DEF SameContext
    <2>3. QED
      BY <1>1, <2>1, <2>2
  <1>3. \A i \in 1 .. n : Running(b, sim, gs[i])
    BY <1>1 DEF Stack, n
  <1>4. \A i \in 1 .. (n - 1) : Suspended(b, sim, gs[i])
    BY <1>1 DEF Stack, n
  <1>5. \A i, j \in 1 .. n : i <= j /\ gs[i].is_static => gs[j].is_static
    BY Zenon, <1>2 DEF Stack, n, SameContext
  <1>6. \A i \in 2 .. n : Delegates(gs[i - 1], gs[i])
    <2> SUFFICES ASSUME NEW i \in 2 .. n
                 PROVE  Delegates(gs[i - 1], gs[i])
      OBVIOUS
    <2>1. i \in 1 .. n /\ i - 1 \in 1 .. n
      BY <1>1
    <2>2. Delegates(fs[i - 1], fs[i])
      BY DEF Stack, n
    <2>3. SameContext(gs[i], fs[i]) /\ SameContext(gs[i - 1], fs[i - 1])
      BY <1>2, <2>1
    <2>4. QED
      BY <2>2, <2>3 DEF Delegates, SameContext, StorageAddress, TransientAddress
  <1>7. gs[1].kind = fs[1].kind
    BY <1>1, <1>2 DEF SameContext
  <1>8. QED
    BY <1>1, <1>3, <1>4, <1>5, <1>6, <1>7 DEF Stack, n

\* The innermost frame waits for a child, which becomes the innermost frame.
LEMMA Pushed ==
    ASSUME NEW b, NEW sim, NEW fs, Stack(b, sim, fs), fs # <<>>,
           Suspended(b, sim, fs[Len(fs)]),
           NEW c, Running(b, sim, c),
           fs[Len(fs)].is_static => c.is_static,
           Delegates(fs[Len(fs)], c),
           NEW gs, gs = Entered(fs, c)
    PROVE  /\ Stack(b, sim, gs)
           /\ Len(gs) = Len(fs) + 1
           /\ gs[1].kind = fs[1].kind
  <1> DEFINE n == Len(fs)
  <1>1. /\ IsSequence(gs) /\ Len(gs) = n + 1 /\ n \in Nat \ {0} /\ gs[n + 1] = c
        /\ \A i \in 1 .. n : gs[i] = fs[i]
    <2>1. IsSequence(fs)
      BY DEF Stack
    <2>2. QED
      BY <2>1, AppendLast, SequenceDomain DEF Entered
  <1> HIDE DEF n
  <1>2. \A i \in 1 .. (n + 1) : Running(b, sim, gs[i])
    BY <1>1 DEF Stack, n
  <1>3. \A i \in 1 .. n : Suspended(b, sim, gs[i])
    BY <1>1 DEF Stack, n
  <1>4. \A i, j \in 1 .. (n + 1) : i <= j /\ gs[i].is_static => gs[j].is_static
    <2> SUFFICES ASSUME NEW i \in 1 .. (n + 1), NEW j \in 1 .. (n + 1), i <= j,
                        gs[i].is_static
                 PROVE  gs[j].is_static
      OBVIOUS
    <2>1. CASE j \in 1 .. n
      <3>1. i \in 1 .. n /\ gs[i] = fs[i] /\ gs[j] = fs[j]
        BY <1>1, <2>1
      <3>2. QED
        BY <2>1, <3>1 DEF Stack, n
    <2>2. CASE j = n + 1 /\ i \in 1 .. n
      <3>1. n \in 1 .. n /\ i <= n /\ fs[i].is_static
        BY <1>1, <2>2
      <3>2. fs[n].is_static
        BY <1>1, <2>2, <3>1 DEF Stack, n
      <3>3. QED
        BY <1>1, <2>2, <3>2 DEF n
    <2>3. CASE i = n + 1 /\ j = n + 1
      BY <2>3
    <2>4. QED
      BY <1>1, <2>1, <2>2, <2>3
  <1>5. \A i \in 2 .. (n + 1) : Delegates(gs[i - 1], gs[i])
    <2> SUFFICES ASSUME NEW i \in 2 .. (n + 1)
                 PROVE  Delegates(gs[i - 1], gs[i])
      OBVIOUS
    <2>1. CASE i \in 2 .. n
      <3>1. gs[i] = fs[i] /\ gs[i - 1] = fs[i - 1]
        BY <1>1, <2>1
      <3>2. QED
        BY <2>1, <3>1 DEF Stack, n
    <2>2. CASE i = n + 1
      <3>1. gs[i] = c /\ gs[i - 1] = fs[n]
        BY <1>1, <2>2
      <3>2. QED
        BY <3>1 DEF n
    <2>3. QED
      BY <1>1, <2>1, <2>2
  <1>6. gs[1].kind = fs[1].kind
    BY <1>1
  <1>7. QED
    BY <1>1, <1>2, <1>3, <1>4, <1>5, <1>6 DEF Stack, n

\* The innermost frame ends, and the one that waited for it is innermost again.
LEMMA Popped ==
    ASSUME NEW b, NEW sim, NEW fs, Stack(b, sim, fs), Len(fs) > 1,
           NEW gs, gs = Left(fs)
    PROVE  /\ Stack(b, sim, gs)
           /\ Len(gs) = Len(fs) - 1
           /\ gs # <<>>
           /\ gs[Len(gs)] = fs[Len(fs) - 1]
           /\ gs[1].kind = fs[1].kind
  <1> DEFINE n == Len(fs) - 1
  <1>1. n \in Nat \ {0} /\ n \in 0 .. Len(fs) /\ Len(fs) = n + 1
    BY SequenceDomain DEF Stack
  <1>2. /\ IsSequence(gs) /\ Len(gs) = n
        /\ \A i \in 1 .. n : gs[i] = fs[i]
    <2>1. IsSequence(fs)
      BY DEF Stack
    <2>2. gs = Prefix(fs, n)
      BY DEF Left, Prefix
    <2> HIDE DEF n
    <2>3. QED
      BY <1>1, <2>1, <2>2, TakePrefix
  <1> HIDE DEF n
  <1>3. \A i \in 1 .. n : Running(b, sim, gs[i])
    BY <1>1, <1>2 DEF Stack
  <1>4. \A i \in 1 .. (n - 1) : Suspended(b, sim, gs[i])
    BY <1>1, <1>2 DEF Stack
  <1>5. \A i, j \in 1 .. n : i <= j /\ gs[i].is_static => gs[j].is_static
    BY <1>1, <1>2 DEF Stack
  <1>6. \A i \in 2 .. n : Delegates(gs[i - 1], gs[i])
    <2> SUFFICES ASSUME NEW i \in 2 .. n
                 PROVE  Delegates(gs[i - 1], gs[i])
      OBVIOUS
    <2>1. gs[i] = fs[i] /\ gs[i - 1] = fs[i - 1] /\ i \in 2 .. (n + 1)
      BY <1>1, <1>2
    <2>2. QED
      BY <1>1, <2>1 DEF Stack
  <1>7. gs # <<>>
    BY <1>1, <1>2, SequenceDomain
  <1>8. gs[1] = fs[1] /\ gs[n] = fs[n]
    BY <1>1, <1>2
  <1>9. QED
    BY <1>1, <1>2, <1>3, <1>4, <1>5, <1>6, <1>7, <1>8 DEF Stack, n

-----------------------------------------------------------------------------
(* Forks. *)

\* An account map holds accounts.
LEMMA AccountOfMap ==
    ASSUME NEW map, IsAccountMap(map), NEW a \in DOMAIN map
    PROVE  a \in Address /\ IsAccount(a, map[a])
  BY DEF IsAccountMap, IsMap, IsAccount

\* A map of accounts is an account map.
LEMMA AccountMapOf ==
    ASSUME NEW map, map = [a \in DOMAIN map |-> map[a]], DOMAIN map \subseteq Address,
           \A a \in DOMAIN map : IsAccount(a, map[a])
    PROVE  IsAccountMap(map)
  BY DEF IsAccountMap, IsMap, IsAccount

\* The account that a missing entry stands for is an account.
LEMMA DefaultIsAccount == DefaultAccount \in AccountState
  <1>1. NoMap \in Storage
    BY StorageIsMap, EmptyMap
  <1>2. 0 \in Nonce
    BY FrameAssumption DEF Nonce
  <1>3. QED
    BY <1>1, <1>2 DEF DefaultAccount, AccountState

\* Whatever the layers hold, a reader sees an account, and an existing contract
\* with its code.
LEMMA ReadAccount ==
    ASSUME NEW state, IsFork(state), NEW a \in Address
    PROVE  IsAccount(a, get_account(state, a))
  <1>1. CASE a \in DOMAIN state.dirty
    <2>1. get_account(state, a) = state.dirty[a]
      BY <1>1 DEF get_account, Lookup
    <2>2. QED
      BY <1>1, <2>1, AccountOfMap DEF IsFork
  <1>2. CASE a \notin DOMAIN state.dirty /\ a \in DOMAIN state.base
    <2>1. get_account(state, a) = state.base[a]
      BY <1>2 DEF get_account, Lookup
    <2>2. QED
      BY <1>2, <2>1, AccountOfMap DEF IsFork
  <1>3. CASE a \notin DOMAIN state.dirty /\ a \notin DOMAIN state.base
    <2>1. get_account(state, a) = DefaultAccount
      BY <1>3 DEF get_account, Lookup
    <2>2. a \notin Existing
      BY <1>3 DEF IsFork
    <2>3. QED
      BY <2>1, <2>2, DefaultIsAccount DEF IsAccount
  <1>4. QED
    BY <1>1, <1>2, <1>3

\* A fork whose dirty layer grows to dirty, an account map.
LEMMA GrowDirty ==
    ASSUME NEW b, NEW sim, NEW state, NEW removed, Sound(b, sim, state, removed),
           NEW dirty, IsAccountMap(dirty), DOMAIN state.dirty \subseteq DOMAIN dirty,
           NEW new, new = [state EXCEPT !.dirty = dirty]
    PROVE  /\ Sound(b, sim, new, removed)
           /\ new.dirty = dirty
           /\ new.base = state.base
           /\ new.transient = state.transient
           /\ new.snapshots = state.snapshots
  <1>1. /\ DOMAIN new = {"base", "dirty", "transient", "snapshots"}
        /\ new.dirty = dirty
        /\ new.base = state.base
        /\ new.transient = state.transient
        /\ new.snapshots = state.snapshots
    BY DEF Sound, IsFork
  <1>2. IsFork(new)
    BY <1>1 DEF Sound, IsFork
  <1>3. Tells(b, new, removed)
    BY <1>1, Zenon DEF Sound, Tells
  <1>4. sim => Rooted(b, new)
    BY <1>1 DEF Sound, Rooted
  <1>5. QED
    BY <1>1, <1>2, <1>3, <1>4 DEF Sound

\* Writing an account.
LEMMA PutSound ==
    ASSUME NEW b, NEW sim, NEW state, NEW removed, Sound(b, sim, state, removed),
           NEW a \in Address, NEW account, IsAccount(a, account)
    PROVE  /\ Sound(b, sim, put(state, a, account), removed)
           /\ put(state, a, account).base = state.base
           /\ put(state, a, account).transient = state.transient
           /\ put(state, a, account).snapshots = state.snapshots
           /\ a \in DOMAIN put(state, a, account).dirty
  <1> DEFINE dirty == insert(state.dirty, a, account)
  <1>1. IsAccountMap(state.dirty)
    BY DEF Sound, IsFork
  <1>2. /\ DOMAIN dirty = DOMAIN state.dirty \cup {a}
        /\ dirty[a] = account
        /\ \A x \in DOMAIN state.dirty \ {a} : dirty[x] = state.dirty[x]
    BY DEF insert
  <1>3. IsAccountMap(dirty)
    <2>1. IsMap(dirty, Address, AccountState)
      BY <1>1, InsertMap DEF IsAccountMap, IsAccount
    <2>2. \A x \in DOMAIN dirty \cap Existing : dirty[x].code
      <3> SUFFICES ASSUME NEW x \in DOMAIN dirty \cap Existing
                   PROVE  dirty[x].code
        OBVIOUS
      <3> HIDE DEF dirty
      <3>1. CASE x = a
        BY <1>2, <3>1 DEF IsAccount
      <3>2. CASE x # a
        <4>1. x \in DOMAIN state.dirty /\ dirty[x] = state.dirty[x]
          BY <1>2, <3>2
        <4>2. QED
          BY <1>1, <4>1 DEF IsAccountMap
      <3>3. QED
        BY <3>1, <3>2
    <2>3. QED
      BY <2>1, <2>2 DEF IsAccountMap
  <1> HIDE DEF dirty
  <1>4. put(state, a, account) = [state EXCEPT !.dirty = dirty]
    BY DEF put, dirty
  <1>5. QED
    BY <1>2, <1>3, <1>4, GrowDirty

\* set_storage keeps a fork sound.
LEMMA StorageSound ==
    ASSUME NEW b, NEW sim, NEW state, NEW removed, Sound(b, sim, state, removed),
           NEW a \in Address, NEW slot \in Slot, NEW word \in Word
    PROVE  Sound(b, sim, set_storage(state, a, slot, word), removed)
  <1> DEFINE old == get_account(state, a)
             map == insert(old.storage, slot, word)
             new == [old EXCEPT !.storage = map]
  <1>1. IsAccount(a, old)
    BY ReadAccount DEF Sound
  <1>2. map \in Storage
    BY <1>1, StorageIsMap, InsertMap DEF IsAccount, AccountState
  <1> HIDE DEF old, map
  <1>3. IsAccount(a, new)
    BY <1>1, <1>2 DEF IsAccount, AccountState
  <1>4. set_storage(state, a, slot, word) = put(state, a, new)
    BY DEF set_storage, old, map
  <1> HIDE DEF new
  <1>5. QED
    BY <1>3, <1>4, PutSound

\* set_balance keeps a fork sound, and its base and snapshots as they are.
LEMMA BalanceSound ==
    ASSUME NEW b, NEW sim, NEW state, NEW removed, Sound(b, sim, state, removed),
           NEW a \in Address, NEW balance \in Nat
    PROVE  /\ Sound(b, sim, set_balance(state, a, balance), removed)
           /\ set_balance(state, a, balance).base = state.base
           /\ set_balance(state, a, balance).snapshots = state.snapshots
  <1> DEFINE old == get_account(state, a)
             new == [old EXCEPT !.balance = balance]
  <1>1. IsAccount(a, old)
    BY ReadAccount DEF Sound
  <1> HIDE DEF old
  <1>2. IsAccount(a, new)
    BY <1>1 DEF IsAccount, AccountState
  <1>3. set_balance(state, a, balance) = put(state, a, new)
    BY DEF set_balance, old
  <1> HIDE DEF new
  <1>4. QED
    BY <1>2, <1>3, PutSound

\* The code of an account that is no existing contract.  The account is not a
\* removed one any more.
LEMMA CodeSound ==
    ASSUME NEW b, NEW sim, NEW state, NEW removed, Sound(b, sim, state, removed),
           NEW a \in Address \ Existing, NEW code \in BOOLEAN
    PROVE  Sound(b, sim, set_code(state, a, code), removed \ {a})
  <1> DEFINE old == get_account(state, a)
             new == [old EXCEPT !.code = code]
  <1>1. IsAccount(a, old)
    BY ReadAccount DEF Sound
  <1> HIDE DEF old
  <1>2. IsAccount(a, new)
    BY <1>1 DEF IsAccount, AccountState
  <1>3. set_code(state, a, code) = put(state, a, new)
    BY DEF set_code, old
  <1> HIDE DEF new
  <1>4. Sound(b, sim, put(state, a, new), removed) /\ a \in DOMAIN put(state, a, new).dirty
    BY <1>2, PutSound
  <1>5. QED
    BY <1>3, <1>4 DEF Sound, Tells

\* tstore keeps a fork sound.
LEMMA TransientSound ==
    ASSUME NEW b, NEW sim, NEW state, NEW removed, Sound(b, sim, state, removed),
           NEW a \in Address, NEW slot \in Slot, NEW word \in Word
    PROVE  Sound(b, sim, tstore(state, a, slot, word), removed)
  <1> DEFINE map == insert(state.transient, <<a, slot>>, word)
             new == [state EXCEPT !.transient = map]
  <1>1. IsTransient(map)
    BY InsertMap DEF Sound, IsFork, IsTransient
  <1> HIDE DEF map
  <1>2. /\ DOMAIN new = {"base", "dirty", "transient", "snapshots"}
        /\ new.transient = map
        /\ new.base = state.base
        /\ new.dirty = state.dirty
        /\ new.snapshots = state.snapshots
    BY DEF Sound, IsFork
  <1>3. tstore(state, a, slot, word) = new
    BY DEF tstore, map
  <1> HIDE DEF new
  <1>4. QED
    BY <1>1, <1>2, <1>3 DEF Sound, IsFork, Tells, Rooted

\* The accounts that reverting gives back.
LEMMA RestoredDirty ==
    ASSUME NEW state, NEW id
    PROVE  Restored(state, id).dirty = state.snapshots[id + 1].dirty
  BY DEF Restored

\* Reverting finds the snapshot with the id it is given.
LEMMA RevertRestores ==
    ASSUME NEW state, IsFork(state), NEW id \in Nat, id + 1 \in DOMAIN state.snapshots
    PROVE  /\ revert_to_snapshot(state, id) = Restored(state, id)
           /\ IsFork(Restored(state, id))
  <1> DEFINE q == state.snapshots
             matches == {p \in DOMAIN q : q[p].id = id}
             found == CHOOSE p \in matches : \A m \in matches : p <= m
  <1>1. IsSequence(q) /\ \A p \in DOMAIN q : q[p].id = p - 1
    BY DEF IsFork
  <1>2. Len(q) \in Nat /\ DOMAIN q = 1 .. Len(q)
    BY <1>1, SequenceDomain
  <1>3. matches = {id + 1}
    BY <1>1, <1>2
  <1>4. found = id + 1
    BY <1>3
  <1>5. revert_to_snapshot(state, id)
            = [state EXCEPT !.dirty = q[id + 1].dirty,
                            !.transient = q[id + 1].transient,
                            !.snapshots = SubSeq(@, 1, (id + 1) - 1)]
    BY <1>3, <1>4, Zenon DEF revert_to_snapshot
  <1>6. (id + 1) - 1 = id
    OBVIOUS
  <1>7. revert_to_snapshot(state, id) = Restored(state, id)
    BY <1>5, <1>6, Zenon DEF Restored, IsFork
  <1> HIDE DEF q
  <1>8. PICK r : r = Prefix(q, id)
    OBVIOUS
  <1>9. id \in 0 .. Len(q) /\ \A p \in 1 .. id : p \in DOMAIN q
    BY <1>2 DEF q
  <1>10. IsSequence(r) /\ Len(r) = id /\ \A p \in 1 .. id : r[p] = q[p]
    BY <1>1, <1>8, <1>9, TakePrefix
  <1>11. DOMAIN r = 1 .. id
    BY <1>10, SequenceDomain
  <1>12. IsFork(Restored(state, id))
    BY <1>8, <1>9, <1>10, <1>11 DEF IsFork, Restored, Prefix, q
  <1>13. QED
    BY <1>7, <1>12

\* Taking a snapshot changes nothing a reader sees, and going back to it gives the
\* fork that was.
LEMMA SnapshotSound ==
    ASSUME NEW b, NEW sim, NEW state, NEW removed, Sound(b, sim, state, removed)
    PROVE  /\ Sound(b, sim, snapshot(state), removed)
           /\ Len(state.snapshots) \in Nat
           /\ Len(state.snapshots) + 1 \in DOMAIN snapshot(state).snapshots
           /\ Sound(b, sim, Restored(snapshot(state), Len(state.snapshots)), removed)
           /\ World(Restored(snapshot(state), Len(state.snapshots))) = World(state)
           /\ snapshot(state).base = state.base
           /\ snapshot(state).dirty = state.dirty
           /\ snapshot(state).snapshots[Len(state.snapshots) + 1].dirty = state.dirty
  <1> DEFINE q == state.snapshots
             n == Len(q)
             entry == [id |-> n, dirty |-> state.dirty, transient |-> state.transient]
             new == snapshot(state)
             back == Restored(new, n)
  <1>1. IsFork(state) /\ IsSequence(q)
    BY DEF Sound, IsFork
  <1>2. /\ n \in Nat /\ DOMAIN q = 1 .. n
        /\ IsSequence(Append(q, entry)) /\ Len(Append(q, entry)) = n + 1
        /\ Append(q, entry)[n + 1] = entry
        /\ \A p \in 1 .. n : Append(q, entry)[p] = q[p]
    BY <1>1, AppendLast, SequenceDomain
  <1>3. DOMAIN Append(q, entry) = 1 .. (n + 1)
    BY <1>2, SequenceDomain
  <1>4. /\ DOMAIN new = {"base", "dirty", "transient", "snapshots"}
        /\ new.base = state.base /\ new.dirty = state.dirty
        /\ new.transient = state.transient
        /\ new.snapshots = Append(q, entry)
    BY <1>1 DEF snapshot, IsFork
  <1> HIDE DEF new
  <1>5. IsFork(new)
    <2>1. ASSUME NEW p \in DOMAIN new.snapshots
          PROVE  /\ DOMAIN new.snapshots[p] = {"id", "dirty", "transient"}
                 /\ new.snapshots[p].id = p - 1
                 /\ IsAccountMap(new.snapshots[p].dirty)
                 /\ IsTransient(new.snapshots[p].transient)
      <3>1. CASE p \in 1 .. n
        BY <1>1, <1>2, <1>4, <3>1 DEF IsFork
      <3>2. CASE p = n + 1
        BY <1>1, <1>2, <1>4, <3>2 DEF IsFork
      <3>3. QED
        BY <1>2, <1>3, <1>4, <2>1, <3>1, <3>2
    <2>2. QED
      BY <1>1, <1>2, <1>4, <2>1 DEF IsFork
  <1>6. n + 1 \in DOMAIN new.snapshots
    BY <1>2, <1>3, <1>4
  <1>7. IsFork(back)
    BY <1>2, <1>5, <1>6, RevertRestores
  <1>8. /\ back.base = state.base /\ back.dirty = state.dirty
        /\ back.transient = state.transient
        /\ back.snapshots = SubSeq(Append(q, entry), 1, n)
    BY <1>2, <1>4 DEF Restored
  <1>9. /\ IsSequence(back.snapshots) /\ Len(back.snapshots) = n
        /\ \A p \in 1 .. n : back.snapshots[p] = q[p]
    <2>1. PICK w : w = Append(q, entry)
      BY Zenon
    <2>2. PICK m : m = n
      BY Zenon
    <2>3. PICK r : r = back.snapshots
      OBVIOUS
    <2>4. IsSequence(w) /\ m \in 0 .. Len(w) /\ r = Prefix(w, m)
      BY <1>2, <1>8, <2>1, <2>2, <2>3 DEF Prefix
    <2>5. IsSequence(r) /\ Len(r) = m /\ \A p \in 1 .. m : r[p] = w[p]
      BY <2>4, TakePrefix
    <2>6. QED
      BY <1>2, <2>1, <2>2, <2>3, <2>5
  <1>10. DOMAIN back.snapshots = 1 .. n
    BY <1>9, SequenceDomain
  <1>11. sim => Rooted(b, new) /\ Rooted(b, back)
    BY <1>2, <1>3, <1>4, <1>9, <1>10 DEF Sound, Rooted
  <1>12. Tells(b, new, removed) /\ Tells(b, back, removed)
    BY <1>4, <1>8 DEF Sound, Tells
  <1>13. World(back) = World(state)
    BY <1>8 DEF World, get_account
  <1>14. QED
    BY <1>2, <1>4, <1>5, <1>6, <1>7, <1>11, <1>12, <1>13 DEF Sound, new

\* SELFDESTRUCT takes an account out of both layers.
LEMMA RemovalSound ==
    ASSUME NEW b, NEW sim, NEW state, NEW removed, Sound(b, sim, state, removed),
           NEW a \in Address \ Existing
    PROVE  Sound(b, sim, [state EXCEPT !.dirty = remove(@, a), !.base = remove(@, a)],
                 removed \cup {a})
  <1> DEFINE dirty == remove(state.dirty, a)
             base == remove(state.base, a)
             new == [state EXCEPT !.dirty = dirty, !.base = base]
  <1>1. /\ IsAccountMap(state.base) /\ IsAccountMap(state.dirty)
        /\ Existing \subseteq DOMAIN state.base
    BY DEF Sound, IsFork
  <1>2. /\ DOMAIN dirty = DOMAIN state.dirty \ {a}
        /\ \A x \in DOMAIN state.dirty \ {a} : dirty[x] = state.dirty[x]
        /\ DOMAIN base = DOMAIN state.base \ {a}
        /\ \A x \in DOMAIN state.base \ {a} : base[x] = state.base[x]
    BY RemovedValues, Zenon
  <1>3. IsMap(dirty, Address, AccountState) /\ IsMap(base, Address, AccountState)
    BY <1>1, RemoveMap DEF IsAccountMap
  <1> HIDE DEF dirty, base
  <1>4. IsAccountMap(dirty) /\ IsAccountMap(base)
    BY <1>1, <1>2, <1>3 DEF IsAccountMap
  <1>5. Existing \subseteq DOMAIN base
    BY <1>1, <1>2
  <1>6. \A x \in Address \ {a} :
            /\ x \in DOMAIN state.dirty => x \in DOMAIN dirty
            /\ Lookup(base, x, DefaultAccount) = Lookup(state.base, x, DefaultAccount)
    BY <1>2 DEF Lookup
  <1>7. /\ DOMAIN new = {"base", "dirty", "transient", "snapshots"}
        /\ new.dirty = dirty /\ new.base = base
        /\ new.transient = state.transient
        /\ new.snapshots = state.snapshots
    BY DEF Sound, IsFork
  <1> HIDE DEF new
  <1>8. IsFork(new)
    BY <1>4, <1>5, <1>7 DEF Sound, IsFork
  <1>9. Tells(b, new, removed \cup {a})
    BY <1>6, <1>7 DEF Sound, Tells
  <1>10. sim => Rooted(b, new)
    BY <1>7 DEF Sound, Rooted
  <1>11. QED
    BY <1>8, <1>9, <1>10 DEF Sound, new, dirty, base

-----------------------------------------------------------------------------
(* Operations on a frame. *)

\* A frame works on accounts.
LEMMA FrameAddresses ==
    ASSUME NEW b, NEW sim, NEW f, Running(b, sim, f)
    PROVE  StorageAddress(f) \in Address /\ TransientAddress(f) \in Address
  BY DEF Running, StorageAddress, TransientAddress

\* One account map is written into another.
LEMMA ExtendAccounts ==
    ASSUME NEW map, IsAccountMap(map), NEW other, IsAccountMap(other)
    PROVE  IsAccountMap(extend(map, other))
  <1> DEFINE new == extend(map, other)
  <1>1. /\ DOMAIN new = DOMAIN map \cup DOMAIN other
        /\ \A x \in DOMAIN other : new[x] = other[x]
        /\ \A x \in DOMAIN map \ DOMAIN other : new[x] = map[x]
    BY ExtendedValues, Zenon
  <1>2. IsMap(new, Address, AccountState)
    BY ExtendMap DEF IsAccountMap
  <1> HIDE DEF new
  <1>3. IsAccountMap(new)
    BY <1>1, <1>2 DEF IsAccountMap
  <1>4. QED
    BY <1>3 DEF new

\* What the maps of a frame say of an account is an account.
LEMMA SyncedIsAccount ==
    ASSUME NEW b, NEW sim, NEW f, Running(b, sim, f), NEW a \in Address
    PROVE  IsAccount(a, Synced(f, a))
  <1> DEFINE account == get_account(f.state, a)
             storage == IF a = StorageAddress(f) THEN extend(account.storage, f.storage)
                                                 ELSE account.storage
  <1>1. IsAccount(a, account)
    BY ReadAccount DEF Running, Sound
  <1> HIDE DEF account
  <1>2. Lookup(f.nonces, a, account.nonce) \in Nonce
    BY <1>1, LookupType DEF Running, IsAccount, AccountState
  <1>3. Lookup(f.balances, a, account.balance) \in Nat
    BY <1>1, LookupType DEF Running, IsAccount, AccountState
  <1>4. Lookup(f.contracts, a, account.code) \in BOOLEAN
    BY <1>1, LookupType DEF Running, IsAccount, AccountState
  <1>5. a \in Existing => Lookup(f.contracts, a, account.code)
    BY <1>1 DEF Running, IsAccount, IsMap, Lookup
  <1>6. storage \in Storage
    <2>1. account.storage \in Storage /\ IsMap(account.storage, Slot, Word)
      BY <1>1, StorageIsMap DEF IsAccount, AccountState
    <2>2. IsMap(f.storage, Slot, Word)
      BY DEF Running
    <2>3. IsMap(extend(account.storage, f.storage), Slot, Word)
      BY <2>1, <2>2, ExtendMap
    <2>4. QED
      BY <2>1, <2>3, StorageIsMap
  <1> HIDE DEF storage
  <1>7. Synced(f, a)
          = [nonce |-> Lookup(f.nonces, a, account.nonce),
             balance |-> Lookup(f.balances, a, account.balance),
             code |-> Lookup(f.contracts, a, account.code),
             storage |-> storage]
    BY DEF Synced, account, storage
  <1>8. Synced(f, a) \in AccountState
    BY <1>2, <1>3, <1>4, <1>6, <1>7 DEF AccountState
  <1>9. Synced(f, a).code = Lookup(f.contracts, a, account.code)
    BY <1>7
  <1>10. QED
    BY <1>5, <1>8, <1>9 DEF IsAccount

\* A frame's maps are written into its fork.
LEMMA SyncRunning ==
    ASSUME NEW b, NEW sim, NEW f, Running(b, sim, f)
    PROVE  /\ Running(b, sim, sync_legacy_state_into_fork(f))
           /\ SameContext(sync_legacy_state_into_fork(f), f)
  <1> DEFINE touched == DOMAIN f.balances \cup DOMAIN f.nonces \cup DOMAIN f.contracts
                 \cup (IF DOMAIN f.storage = {} THEN {} ELSE {StorageAddress(f)})
             synced == [a \in touched |-> Synced(f, a)]
             dirty == extend(f.state.dirty, synced)
             state == [f.state EXCEPT !.dirty = dirty]
             new == [f EXCEPT !.state = state]
  <1>1. touched \subseteq Address
    BY FrameAddresses DEF Running, IsMap
  <1>2. IsAccountMap(synced)
    <2>1. \A a \in touched : IsAccount(a, synced[a])
      BY <1>1, SyncedIsAccount
    <2>2. DOMAIN synced = touched /\ synced = [a \in DOMAIN synced |-> synced[a]]
      OBVIOUS
    <2> HIDE DEF touched, synced
    <2>3. QED
      BY <1>1, <2>1, <2>2, AccountMapOf
  <1>3. new = sync_legacy_state_into_fork(f)
    BY DEF sync_legacy_state_into_fork, Running, FrameFields, Sound, IsFork
  <1> HIDE DEF touched, synced
  <1>4. IsAccountMap(dirty)
    BY <1>2, ExtendAccounts DEF Running, Sound, IsFork
  <1>5. DOMAIN f.state.dirty \subseteq DOMAIN dirty
    BY DEF extend
  <1> HIDE DEF dirty
  <1>6. Sound(b, sim, state, f.removed)
    BY <1>4, <1>5, GrowDirty DEF Running
  <1> HIDE DEF state
  <1>7. Running(b, sim, new) /\ SameContext(new, f)
    BY <1>6 DEF Running, FrameFields, SameContext
  <1>8. QED
    BY <1>3, <1>7

\* A frame goes on with another fork.
LEMMA NewState ==
    ASSUME NEW b, NEW sim, NEW f, Running(b, sim, f),
           NEW state, Sound(b, sim, state, f.removed)
    PROVE  /\ Running(b, sim, [f EXCEPT !.state = state])
           /\ SameContext([f EXCEPT !.state = state], f)
  BY DEF Running, FrameFields, SameContext

\* A frame takes a snapshot and waits.
LEMMA WaitingFrame ==
    ASSUME NEW b, NEW sim, NEW f, Running(b, sim, f)
    PROVE  /\ Running(b, sim, Waiting(f))
           /\ Suspended(b, sim, Waiting(f))
           /\ SameContext(Waiting(f), f)
  <1> DEFINE n == Len(f.state.snapshots)
             state == snapshot(f.state)
             before == [world |-> World(f.state), logs |-> f.logs]
             new == Waiting(f)
  <1>1. Sound(b, sim, f.state, f.removed)
    BY DEF Running
  <1>2. /\ Sound(b, sim, state, f.removed)
        /\ n \in Nat
        /\ n + 1 \in DOMAIN state.snapshots
        /\ Sound(b, sim, Restored(state, n), f.removed)
        /\ World(Restored(state, n)) = World(f.state)
    BY <1>1, SnapshotSound
  <1> HIDE DEF n, state, before
  <1>3. new = [f EXCEPT !.snapshot = n, !.state = state, !.before = before]
    BY DEF Waiting, n, state, before
  <1> HIDE DEF new
  <1>4. Running(b, sim, new) /\ SameContext(new, f)
    BY <1>2, <1>3 DEF Running, FrameFields, SameContext
  <1>5. /\ new.snapshot = n /\ new.state = state /\ new.before = before
        /\ new.logs = f.logs /\ new.removed = f.removed
    BY <1>3 DEF Running, FrameFields
  <1>6. Suspended(b, sim, new)
    BY <1>2, <1>5 DEF Suspended, before
  <1>7. QED
    BY <1>4, <1>6 DEF new

\* A creation moves the value, in the maps and in the fork, after the snapshot.
LEMMA EndowedFrame ==
    ASSUME NEW b, NEW sim, NEW f, Running(b, sim, f), Suspended(b, sim, f),
           NEW sender \in Address, NEW new_addr \in Address, NEW value \in Nat,
           ~CannotAfford(Lookup(f.balances, sender, 0), value)
    PROVE  /\ Running(b, sim, Endow(f, sender, new_addr, value))
           /\ Suspended(b, sim, Endow(f, sender, new_addr, value))
           /\ SameContext(Endow(f, sender, new_addr, value), f)
  <1> DEFINE had == Lookup(f.balances, sender, 0)
             debited == insert(f.balances, sender, had - value)
             target == Lookup(debited, new_addr, 0)
             credited == insert(debited, new_addr, target + value)
             undo == insert(insert(NoMap, sender, had), new_addr, target)
             paid == set_balance(f.state, sender, had - value)
             state == set_balance(paid, new_addr, target + value)
             new == Endow(f, sender, new_addr, value)
  <1>1. had \in Nat /\ IsMap(f.balances, Address, Nat)
    BY LookupType DEF Running
  <1>2. had - value \in Nat
    BY <1>1 DEF CannotAfford
  <1>3. IsMap(debited, Address, Nat)
    BY <1>1, <1>2, InsertMap
  <1>4. target \in Nat
    BY <1>3, LookupType
  <1>5. target + value \in Nat
    BY <1>4
  <1>6. IsMap(credited, Address, Nat)
    BY <1>3, <1>5, InsertMap
  <1>7. IsMap(undo, Address, Nat)
    <2>1. IsMap(NoMap, Address, Nat)
      BY EmptyMap
    <2>2. IsMap(insert(NoMap, sender, had), Address, Nat)
      BY <1>1, <2>1, InsertMap
    <2>3. QED
      BY <1>4, <2>2, InsertMap
  <1> HIDE DEF had, debited, target
  <1>8. /\ Sound(b, sim, paid, f.removed)
        /\ paid.base = f.state.base /\ paid.snapshots = f.state.snapshots
    <2>1. PICK s : s = f.state
      OBVIOUS
    <2>2. PICK removed : removed = f.removed
      OBVIOUS
    <2>3. Sound(b, sim, s, removed)
      BY <2>1, <2>2 DEF Running
    <2>4. PICK left \in Nat : left = had - value
      BY <1>2
    <2>5. /\ Sound(b, sim, set_balance(s, sender, left), removed)
          /\ set_balance(s, sender, left).base = s.base
          /\ set_balance(s, sender, left).snapshots = s.snapshots
      BY <2>3, BalanceSound
    <2>6. QED
      BY <2>1, <2>2, <2>4, <2>5
  <1> HIDE DEF paid
  <1>9. /\ Sound(b, sim, state, f.removed)
        /\ state.base = f.state.base /\ state.snapshots = f.state.snapshots
    <2>1. PICK sum \in Nat : sum = target + value
      BY <1>5
    <2>2. PICK removed : removed = f.removed
      OBVIOUS
    <2>3. Sound(b, sim, paid, removed)
      BY <1>8, <2>2
    <2>4. /\ Sound(b, sim, set_balance(paid, new_addr, sum), removed)
          /\ set_balance(paid, new_addr, sum).base = paid.base
          /\ set_balance(paid, new_addr, sum).snapshots = paid.snapshots
      BY <2>3, BalanceSound
    <2>5. QED
      BY <1>8, <2>1, <2>2, <2>4
  <1>10. new = [f EXCEPT !.balances = credited, !.undo = undo, !.state = state]
    BY DEF Endow, paid, had, debited, target
  <1> HIDE DEF credited, undo, state, new
  <1>11. Running(b, sim, new) /\ SameContext(new, f)
    BY <1>6, <1>7, <1>9, <1>10 DEF Running, FrameFields, SameContext
  <1>12. /\ new.snapshot = f.snapshot /\ new.before = f.before /\ new.logs = f.logs
         /\ new.state = state /\ new.removed = f.removed
    BY <1>10 DEF Running, FrameFields
  <1>13. Restored(new.state, new.snapshot) = Restored(f.state, f.snapshot)
    BY <1>9, <1>12, Zenon DEF Restored
  <1>14. Suspended(b, sim, new)
    BY Zenon, <1>9, <1>12, <1>13 DEF Suspended
  <1>15. QED
    BY <1>11, <1>14 DEF new

\* The child of a call.
LEMMA CallChild ==
    ASSUME NEW b, NEW sim, NEW f, Running(b, sim, f), NEW kind \in CallKind,
           NEW target \in Address,
           NEW child, child = Callee(f, kind, target)
    PROVE  /\ Running(b, sim, child)
           /\ f.is_static => child.is_static
           /\ Delegates(f, child)
  <1> DEFINE code == get_account(f.state, target).code
             storage_address == CalleeStorage(f, kind, target)
             caller == CalleeCaller(f, kind)
             static == CalleeIsStatic(f, kind)
  <1>1. code \in BOOLEAN
    BY Zenon, ReadAccount DEF Running, Sound, IsAccount, AccountState
  <1>2. storage_address \in Address
    BY FrameAddresses DEF CalleeStorage
  <1>3. static \in BOOLEAN /\ (f.is_static => static)
    BY DEF CalleeIsStatic, Running
  <1>4. IsMap(NoMap, Address, Nat) /\ IsMap(NoMap, Address, Nonce)
    BY EmptyMap
  <1>5. kind # "create" /\ kind # "top" /\ kind # "simulation"
    BY DEF CallKind
  <1>6. kind = "delegate" => storage_address = StorageAddress(f) /\ caller = f.caller
    BY DEF CalleeStorage, CalleeCaller
  <1> HIDE DEF code, storage_address, caller, static
  <1>7. /\ DOMAIN child = FrameFields
        /\ child.kind = kind /\ child.address = target /\ child.caller = caller
        /\ child.storage_address = storage_address /\ child.is_static = static
        /\ child.code = code /\ child.state = f.state
        /\ child.storage = f.storage /\ child.balances = NoMap
        /\ child.nonces = NoMap /\ child.contracts = f.contracts
        /\ child.created = f.created /\ child.undo = NoMap
        /\ child.removed = f.removed
    BY DEF Callee, Frame, FrameFields, code, storage_address, caller, static
  <1>8. Running(b, sim, child)
    BY Zenon, <1>1, <1>2, <1>3, <1>4, <1>5, <1>7 DEF Running
  <1>9. Delegates(f, child)
    <2> SUFFICES ASSUME kind = "delegate", f.storage_address # ZeroAddress
                 PROVE  /\ StorageAddress(child) = StorageAddress(f)
                        /\ TransientAddress(child) = TransientAddress(f)
                        /\ child.caller = f.caller
      BY <1>7 DEF Delegates
    <2>1. StorageAddress(f) = f.storage_address
      BY DEF StorageAddress
    <2>2. TransientAddress(f) = f.storage_address
      BY <2>1 DEF TransientAddress
    <2>3. child.storage_address = f.storage_address /\ child.caller = f.caller
      BY <1>6, <1>7, <2>1
    <2>4. QED
      BY Zenon, <1>5, <1>7, <2>1, <2>2, <2>3 DEF StorageAddress, TransientAddress
  <1>10. QED
    BY <1>3, <1>7, <1>8, <1>9

\* The child of a creation.
LEMMA CreateChild ==
    ASSUME NEW b, NEW sim, NEW f, Running(b, sim, f), ~f.is_static,
           NEW new_addr \in Address \ Existing,
           NEW child, child = Creation(f, new_addr)
    PROVE  /\ Running(b, sim, child)
           /\ f.is_static => child.is_static
           /\ Delegates(f, child)
  <1>1. IsMap(NoMap, Address, Nat)
    BY EmptyMap
  <1>2. /\ DOMAIN child = FrameFields
        /\ child.kind = "create" /\ child.address = new_addr
        /\ child.storage_address = new_addr /\ child.is_static = FALSE
        /\ child.code = TRUE /\ child.state = f.state
        /\ child.storage = f.storage /\ child.balances = f.balances
        /\ child.nonces = f.nonces /\ child.contracts = f.contracts
        /\ child.created = f.created /\ child.undo = NoMap
        /\ child.removed = f.removed
    BY DEF Creation, Frame, FrameFields
  <1>3. Running(b, sim, child)
    BY <1>1, <1>2, Zenon DEF Running
  <1>4. Delegates(f, child)
    BY <1>2 DEF Delegates
  <1>5. QED
    BY <1>3, <1>4

\* What a child hands over when it ends well.
LEMMA HandedOver ==
    ASSUME NEW b, NEW sim, NEW f, Running(b, sim, f),
           NEW child \in sync_fork_into_legacy_state(f)
    PROVE  /\ child.state = f.state /\ child.created = f.created
           /\ child.logs = f.logs /\ child.removed = f.removed
           /\ child.address = f.address
           /\ IsMap(child.storage, Slot, Word)
           /\ IsMap(child.balances, Address, Nat)
           /\ IsMap(child.nonces, Address, Nonce)
  <1> DEFINE dirty == f.state.dirty
             stored == {a \in DOMAIN dirty : DOMAIN dirty[a].storage # {}}
             coded == {a \in DOMAIN dirty : dirty[a].code}
             balances == extend(f.balances, [a \in DOMAIN dirty |-> dirty[a].balance])
             nonces == extend(f.nonces, [a \in DOMAIN dirty |-> dirty[a].nonce])
             contracts == extend(f.contracts, [a \in coded |-> dirty[a].code])
             maps == IF stored = {} THEN {f.storage}
                                    ELSE {dirty[a].storage : a \in stored}
  <1>1. \A a \in DOMAIN dirty : a \in Address /\ dirty[a] \in AccountState
    BY Zenon, AccountOfMap DEF Running, Sound, IsFork, IsAccount
  <1>2. IsMap(balances, Address, Nat)
    <2>1. IsMap([a \in DOMAIN dirty |-> dirty[a].balance], Address, Nat)
      BY <1>1 DEF IsMap, AccountState
    <2>2. IsMap(f.balances, Address, Nat)
      BY DEF Running
    <2>3. QED
      BY <2>1, <2>2, ExtendMap
  <1>3. IsMap(nonces, Address, Nonce)
    <2>1. IsMap([a \in DOMAIN dirty |-> dirty[a].nonce], Address, Nonce)
      BY <1>1 DEF IsMap, AccountState
    <2>2. IsMap(f.nonces, Address, Nonce)
      BY DEF Running
    <2>3. QED
      BY <2>1, <2>2, ExtendMap
  <1>4. \A m \in maps : IsMap(m, Slot, Word)
    <2>1. \A a \in DOMAIN dirty : IsMap(dirty[a].storage, Slot, Word)
      BY <1>1, StorageIsMap DEF AccountState
    <2>2. IsMap(f.storage, Slot, Word)
      BY DEF Running
    <2>3. QED
      BY <2>1, <2>2
  <1>5. sync_fork_into_legacy_state(f)
          = {[f EXCEPT !.storage = m, !.balances = balances, !.nonces = nonces,
                       !.contracts = contracts] : m \in maps}
    BY Zenon DEF sync_fork_into_legacy_state
  <1> HIDE DEF balances, nonces, contracts, maps
  <1>6. PICK m \in maps :
            child = [f EXCEPT !.storage = m, !.balances = balances,
                              !.nonces = nonces, !.contracts = contracts]
    BY <1>5, Zenon
  <1>7. QED
    BY <1>2, <1>3, <1>4, <1>6 DEF Running, FrameFields

\* Forgetting the locals of a wait.
LEMMA ResumedFrame ==
    ASSUME NEW b, NEW sim, NEW f, Running(b, sim, f)
    PROVE  /\ Running(b, sim, Resumed(f))
           /\ SameContext(Resumed(f), f)
           /\ Resumed(f).state = f.state /\ Resumed(f).logs = f.logs
  <1>1. IsMap(NoMap, Address, Nat)
    BY EmptyMap
  <1>2. QED
    BY <1>1 DEF Running, FrameFields, SameContext, Resumed

TakenOver(p, child) ==
    Resumed([p EXCEPT !.state = child.state, !.storage = child.storage,
                      !.created = child.created, !.logs = @ + child.logs,
                      !.removed = child.removed])

\* The parent p after a call of child c that succeeded.
LEMMA AfterCall ==
    ASSUME NEW b, NEW sim, NEW p, Running(b, sim, p), NEW c, Running(b, sim, c),
           NEW child \in sync_fork_into_legacy_state(c),
           NEW f, f = TakenOver(p, child)
    PROVE  Running(b, sim, f) /\ SameContext(f, p)
  <1> DEFINE g == [p EXCEPT !.state = child.state, !.storage = child.storage,
                            !.created = child.created, !.logs = @ + child.logs,
                            !.removed = child.removed]
  <1>1. /\ child.state = c.state /\ child.created = c.created
        /\ child.removed = c.removed /\ IsMap(child.storage, Slot, Word)
    BY HandedOver
  <1>2. Running(b, sim, g) /\ SameContext(g, p)
    BY <1>1 DEF Running, FrameFields, SameContext
  <1> HIDE DEF g
  <1>3. f = Resumed(g)
    BY DEF g, TakenOver
  <1>4. QED
    BY <1>2, <1>3, ResumedFrame DEF SameContext

CallReverted(p) == Resumed([p EXCEPT !.state = revert_to_snapshot(@, p.snapshot)])

DeployReverted(p, c) ==
    Resumed([p EXCEPT !.created = @ \cup c.created,
                      !.balances = extend(@, p.undo),
                      !.state = revert_to_snapshot(@, p.snapshot)])

\* The fork of a frame that waited, reverted.
LEMMA RevertedFork ==
    ASSUME NEW b, NEW sim, NEW p, Running(b, sim, p), Suspended(b, sim, p),
           NEW state, state = revert_to_snapshot(p.state, p.snapshot)
    PROVE  /\ Sound(b, sim, state, p.removed)
           /\ p.before = [world |-> World(state), logs |-> p.logs]
  <1>1. revert_to_snapshot(p.state, p.snapshot) = Restored(p.state, p.snapshot)
    BY Zenon, RevertRestores DEF Running, Sound, Suspended
  <1>2. QED
    BY <1>1 DEF Suspended

\* The parent p after a call that failed.
LEMMA AfterFailedCall ==
    ASSUME NEW b, NEW sim, NEW p, Running(b, sim, p), Suspended(b, sim, p),
           NEW f, f = CallReverted(p)
    PROVE  /\ Running(b, sim, f) /\ SameContext(f, p)
           /\ [world |-> World(f.state), logs |-> f.logs] = p.before
  <1>1. PICK state : state = revert_to_snapshot(p.state, p.snapshot)
    OBVIOUS
  <1>2. PICK g : g = [p EXCEPT !.state = state]
    BY Zenon
  <1>3. /\ Sound(b, sim, state, p.removed)
        /\ p.before = [world |-> World(state), logs |-> p.logs]
    BY <1>1, RevertedFork
  <1>4. Running(b, sim, g) /\ SameContext(g, p)
    BY <1>2, <1>3, NewState
  <1>5. g.state = state /\ g.logs = p.logs
    BY <1>2 DEF Running, FrameFields
  <1>6. f = Resumed(g)
    BY <1>1, <1>2 DEF CallReverted
  <1>7. /\ Running(b, sim, f) /\ SameContext(f, g)
        /\ f.state = g.state /\ f.logs = g.logs
    BY <1>4, <1>6, ResumedFrame
  <1>8. SameContext(f, p)
    BY <1>4, <1>7 DEF SameContext
  <1>9. QED
    BY <1>3, <1>5, <1>7, <1>8

\* The parent p after a creation by child c that failed.
LEMMA AfterFailedDeploy ==
    ASSUME NEW b, NEW sim, NEW p, Running(b, sim, p), Suspended(b, sim, p),
           NEW c, Running(b, sim, c),
           NEW f, f = DeployReverted(p, c)
    PROVE  /\ Running(b, sim, f) /\ SameContext(f, p)
           /\ [world |-> World(f.state), logs |-> f.logs] = p.before
  <1>1. PICK state : state = revert_to_snapshot(p.state, p.snapshot)
    OBVIOUS
  <1>2. PICK created : created = p.created \cup c.created
    BY Zenon
  <1>3. PICK balances : balances = extend(p.balances, p.undo)
    OBVIOUS
  <1>4. PICK g : g = [p EXCEPT !.created = created, !.balances = balances,
                               !.state = state]
    OBVIOUS
  <1>5. /\ Sound(b, sim, state, p.removed)
        /\ p.before = [world |-> World(state), logs |-> p.logs]
    BY <1>1, RevertedFork
  <1>6. created \subseteq Address \ Existing
    BY <1>2 DEF Running
  <1>7. IsMap(balances, Address, Nat)
    BY Zenon, <1>3, ExtendMap DEF Running
  <1>8. Running(b, sim, g) /\ SameContext(g, p) /\ g.state = state /\ g.logs = p.logs
    BY <1>4, <1>5, <1>6, <1>7 DEF Running, FrameFields, SameContext
  <1>9. f = Resumed(g)
    BY <1>1, <1>2, <1>3, <1>4 DEF DeployReverted
  <1>10. /\ Running(b, sim, f) /\ SameContext(f, g)
         /\ f.state = g.state /\ f.logs = g.logs
    BY <1>8, <1>9, ResumedFrame
  <1>11. SameContext(f, p)
    BY <1>8, <1>10 DEF SameContext
  <1>12. QED
    BY <1>5, <1>8, <1>10, <1>11

Deployed(p, child, runtime_code) ==
    Resumed([p EXCEPT
        !.contracts = insert(@, child.address, runtime_code),
        !.created = @ \cup child.created \cup {child.address},
        !.state = set_code(child.state, child.address, runtime_code),
        !.storage = child.storage,
        !.balances = child.balances,
        !.nonces = child.nonces,
        !.removed = child.removed \ {child.address}])

\* The parent p after a creation by child c that succeeded.
LEMMA AfterDeploy ==
    ASSUME NEW b, NEW sim, NEW p, Running(b, sim, p), NEW c, Running(b, sim, c),
           c.kind = "create", NEW runtime_code \in BOOLEAN,
           NEW child \in sync_fork_into_legacy_state(c),
           NEW f, f = Deployed(p, child, runtime_code)
    PROVE  Running(b, sim, f) /\ SameContext(f, p)
  <1> DEFINE a == child.address
             contracts == insert(p.contracts, a, runtime_code)
             state == set_code(child.state, a, runtime_code)
             removed == child.removed \ {a}
             created == p.created \cup child.created \cup {a}
             g == [p EXCEPT !.contracts = contracts, !.created = created,
                            !.state = state, !.storage = child.storage,
                            !.balances = child.balances, !.nonces = child.nonces,
                            !.removed = removed]
  <1>1. /\ child.state = c.state /\ child.created = c.created
        /\ child.removed = c.removed /\ a = c.address
        /\ IsMap(child.storage, Slot, Word) /\ IsMap(child.balances, Address, Nat)
        /\ IsMap(child.nonces, Address, Nonce)
    BY Zenon, HandedOver
  <1>2. a \in Address \ Existing
    BY Zenon, <1>1 DEF Running
  <1>3. Sound(b, sim, child.state, child.removed)
    BY Zenon, <1>1 DEF Running
  <1> HIDE DEF a
  <1>4. Sound(b, sim, state, removed)
    BY <1>2, <1>3, CodeSound
  <1>5. IsMap(contracts, Address \ Existing, BOOLEAN)
    BY <1>2, InsertMap, Zenon DEF Running
  <1>6. created \subseteq Address \ Existing
    BY Zenon, <1>1, <1>2 DEF Running
  <1>7. f = Resumed(g)
    BY DEF a, Deployed
  <1> HIDE DEF contracts, state, removed, created
  <1>8. Running(b, sim, g) /\ SameContext(g, p)
    BY <1>1, <1>4, <1>5, <1>6 DEF Running, FrameFields, SameContext
  <1> HIDE DEF g
  <1>9. QED
    BY <1>7, <1>8, ResumedFrame DEF SameContext

\* SELFDESTRUCT moves the balance.
LEMMA PaidOut ==
    ASSUME NEW b, NEW sim, NEW state, NEW removed, Sound(b, sim, state, removed),
           NEW account \in Address, NEW beneficiary \in Address
    PROVE  Sound(b, sim, PayOut(state, account, beneficiary), removed)
  <1>1. CASE account = beneficiary
    BY <1>1 DEF PayOut
  <1>2. CASE account # beneficiary
    <2>1. PICK sum \in Nat : sum = get_account(state, beneficiary).balance
                                     + get_account(state, account).balance
      <3>1. /\ get_account(state, beneficiary).balance \in Nat
            /\ get_account(state, account).balance \in Nat
        BY ReadAccount DEF Sound, IsAccount, AccountState
      <3>2. QED
        BY <3>1
    <2>2. PICK paid : paid = set_balance(state, beneficiary, sum)
      OBVIOUS
    <2>3. Sound(b, sim, paid, removed)
      BY <2>2, BalanceSound
    <2>4. Sound(b, sim, set_balance(paid, account, 0), removed)
      BY <2>3, BalanceSound
    <2>5. QED
      BY <1>2, <2>1, <2>2, <2>4 DEF PayOut
  <1>3. QED
    BY <1>1, <1>2

\* SELFDESTRUCT removes an account that the transaction created.
LEMMA RemovedFrame ==
    ASSUME NEW b, NEW sim, NEW f, Running(b, sim, f), NEW a \in f.created
    PROVE  /\ Running(b, sim, RemoveAccount(f, a))
           /\ SameContext(RemoveAccount(f, a), f)
  <1> DEFINE state == [f.state EXCEPT !.dirty = remove(@, a), !.base = remove(@, a)]
             contracts == remove(f.contracts, a)
             balances == remove(f.balances, a)
             nonces == remove(f.nonces, a)
             storage == IF f.storage_address = a THEN NoMap ELSE f.storage
             new == [f EXCEPT !.state = state, !.contracts = contracts,
                              !.balances = balances, !.nonces = nonces,
                              !.storage = storage, !.removed = @ \cup {a}]
  <1>1. a \in Address \ Existing
    BY DEF Running
  <1>2. Sound(b, sim, state, f.removed \cup {a})
    BY <1>1, RemovalSound, Zenon DEF Running
  <1>3. /\ IsMap(contracts, Address \ Existing, BOOLEAN)
        /\ IsMap(balances, Address, Nat)
        /\ IsMap(nonces, Address, Nonce)
    BY RemoveMap DEF Running
  <1>4. IsMap(storage, Slot, Word)
    BY EmptyMap DEF Running
  <1>5. RemoveAccount(f, a) = new
    BY DEF RemoveAccount, Running, FrameFields
  <1> HIDE DEF state, contracts, balances, nonces, storage
  <1>6. Running(b, sim, new) /\ SameContext(new, f)
    BY <1>2, <1>3, <1>4 DEF Running, FrameFields, SameContext
  <1> HIDE DEF new
  <1>7. QED
    BY <1>5, <1>6

=============================================================================
