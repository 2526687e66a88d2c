----------------------------- MODULE BlockProofs -----------------------------
(***************************************************************************)
(* For any number of requests, senders and transactions: the properties of *)
(* RpcNode about blocks.  MismatchOnlyForUnseenSender needs LockInv and    *)
(* what pop_executable has selected and the block has not executed yet     *)
(* (SelectionInv).  RootIsCurrent, HeadsInOrder, PublishesEventStream and  *)
(* BlockAnswerNotStale need LockInv and what block_number, root_block,     *)
(* failed_blocks and last_head are while a block is open and while none is *)
(* (ChainInv).                                                             *)
(***************************************************************************)
EXTENDS RpcNodeProofs

\* The time a prover has for a leaf.
USE SMTT(30)

USE DEF pool_vars, event_vars, account_vars, chain_vars, lock_vars, block_vars,
        read_vars, Goto

\* The types of what a block works on.
LEMMA BlockTypes ==
    ASSUME TypeOK
    PROVE  /\ nonce \in [Sender -> Nat]
           /\ active_nonces \in [Sender -> Nat]
           /\ selected \in Seq(Tx)
  BY DEF TypeOK

\* The types of the block number and of what is kept beside it.
LEMMA ChainTypes ==
    ASSUME TypeOK
    PROVE  /\ block_number \in Nat /\ last_head \in Nat /\ root_block \in Nat
           /\ failed_blocks \subseteq Nat
  BY DEF TypeOK

\* The types of pc and of who holds the number lock.
LEMMA PcType ==
    ASSUME TypeOK
    PROVE  pc \in [Request -> Label] /\ number_lock \in Request \cup {Nobody}
  BY DEF TypeOK, Holder

\* When mine_block knows the nonces of the senders in known: the selected
\* transaction i is due now, or late and of an unknown sender, or follows an
\* earlier one.
InTurn(known, i) ==
    \/ selected[i].nonce = nonce[selected[i].sender]
    \/ /\ selected[i].sender \notin known
       /\ selected[i].nonce < nonce[selected[i].sender]
    \/ \E j \in 1 .. (i - 1) :
         /\ selected[j].sender = selected[i].sender
         /\ selected[i].nonce = selected[j].nonce + 1

\* No two of the selected transactions share sender and nonce.
NoneTwice ==
    \A i, j \in DOMAIN selected :
        selected[i].sender = selected[j].sender /\ selected[i].nonce = selected[j].nonce
            => i = j

\* What mine_block has selected and not executed yet.
Consecutive(known) == NoneTwice /\ \A i \in DOMAIN selected : InTurn(known, i)

\* The nonce pop_executable expects next of sender s is above those it selected,
\* and in turn like they are.
ExpectedOf(known, s) ==
    /\ \A i \in DOMAIN selected :
         selected[i].sender = s => selected[i].nonce < active_nonces[s]
    /\ \/ active_nonces[s] = nonce[s]
       \/ s \notin known /\ active_nonces[s] < nonce[s]
       \/ \E j \in DOMAIN selected :
            /\ selected[j].sender = s
            /\ active_nonces[s] = selected[j].nonce + 1

Expecting(known) == \A s \in Sender : ExpectedOf(known, s)

\* selected is empty unless a block is between its first pop and its root.
SelectionInv ==
    /\ state_lock = Nobody => selected = <<>>
    /\ \A r \in Request : state_lock = r =>
         /\ pc[r] \in {"number", "head"} => selected = <<>>
         /\ pc[r] = "pop" => Expecting(seen[r])
         /\ pc[r] \in {"pop", "receipts", "apply"} => Consecutive(seen[r])

\* A step of a task that does not hold the state lock, and does not take it.
Aside ==
    /\ UNCHANGED <<nonce, selected, active_nonces, state_lock>>
    /\ \A r \in Request : state_lock = r => pc'[r] = pc[r] /\ seen'[r] = seen[r]

\* Such a step keeps what is known of the selection.
LEMMA AsideKeepsSelection ==
    ASSUME SelectionInv, Aside
    PROVE  SelectionInv'
  <1>1. \A known : Consecutive(known) => Consecutive(known)'
    BY DEF Aside, Consecutive, NoneTwice, InTurn
  <1>2. \A known : Expecting(known) => Expecting(known)'
    BY DEF Aside, Expecting, ExpectedOf
  <1>3. QED
    BY <1>1, <1>2 DEF SelectionInv, Aside

\* The steps outside mine_block's critical section are such steps.
LEMMA StepsAside ==
    ASSUME TypeOK, LockInv, [Next]_vars,
           \A r \in Request :
               /\ ~LockState(r) /\ ~StartBlock(r) /\ ~PopNext(r) /\ ~PopDone(r)
               /\ ~LockReceipts(r) /\ ~ApplyTx(r) /\ ~ApplyFails(r)
               /\ ~StoreRoot(r) /\ ~PublishHead(r) /\ ~HangUp(r)
    PROVE  Aside
  <1>a. pc \in [Request -> Label]
    BY PcType
  <1>1. ASSUME NEW r \in Request, NEW t \in Tx, ReadNonce(r, t)
        PROVE  Aside
    BY Zenon, <1>a, <1>1 DEF ReadNonce, Aside, LockInv
  <1>2. ASSUME NEW r \in Request, Step(r)
        PROVE  Aside
    <2>1. CASE InsertTx(r)
      BY Zenon, <1>a, <2>1 DEF InsertTx, Aside, LockInv
    <2>2. CASE AnnouncePending(r)
      BY Zenon, <1>a, <2>2 DEF AnnouncePending, Aside, LockInv
    <2>3. CASE CheckAutoMine(r)
      BY Zenon, <1>a, <2>3 DEF CheckAutoMine, Aside, LockInv
    <2>4. CASE ReadSenders(r)
      BY Zenon, <2>4 DEF ReadSenders, Aside, LockInv, TypeOK
    <2>5. CASE ReadRoot(r)
      BY Zenon, <1>a, <2>5 DEF ReadRoot, Aside, LockInv
    <2>6. QED
      BY <1>2, <2>1, <2>2, <2>3, <2>4, <2>5 DEF Step
  <1>3. ASSUME NEW r \in Request, evm_mine(r)
        PROVE  Aside
    BY Zenon, <1>a, <1>3 DEF evm_mine, Aside, LockInv
  <1>4. ASSUME NEW r \in Request, ReadNumber(r)
        PROVE  Aside
    BY Zenon, <1>a, <1>4 DEF ReadNumber, Aside, LockInv
  <1>5. ASSUME NEW enabled \in AutoMineValues, set_auto_mine(enabled)
        PROVE  Aside
    BY <1>5 DEF set_auto_mine, Aside
  <1>6. CASE UNCHANGED vars
    BY <1>6 DEF vars, Aside
  <1>7. QED
    BY <1>1, <1>2, <1>3, <1>4, <1>5, <1>6 DEF Next

\* Popping the next expected transaction of some sender keeps the selection
\* consecutive.
LEMMA PopKeepsSelection ==
    ASSUME TypeOK, NEW known, Consecutive(known), Expecting(known), UNCHANGED nonce,
           NEW t \in Tx, t.nonce = active_nonces[t.sender],
           selected' = Append(selected, t),
           active_nonces' = [active_nonces EXCEPT ![t.sender] = t.nonce + 1]
    PROVE  Consecutive(known)' /\ Expecting(known)'
  <1> DEFINE n == Len(selected)
  <1>1. /\ n \in Nat /\ DOMAIN selected = 1 .. n /\ DOMAIN selected' = 1 .. (n + 1)
        /\ \A i \in 1 .. n : selected'[i] = selected[i] /\ selected[i] \in Tx
        /\ selected'[n + 1] = t
    BY BlockTypes
  <1>2. /\ \A i \in 1 .. n : selected[i].sender \in Sender /\ selected[i].nonce \in Nat
        /\ t.sender \in Sender /\ t.nonce \in Nat
    BY <1>1, TxFields
  <1>3. /\ active_nonces'[t.sender] = t.nonce + 1
        /\ \A s \in Sender \ {t.sender} : active_nonces'[s] = active_nonces[s]
    BY <1>2, BlockTypes
  <1> HIDE DEF n
  <1>a. ExpectedOf(known, t.sender)
    BY Zenon, <1>2 DEF Expecting
  <1>b. NoneTwice /\ \A i \in 1 .. n : InTurn(known, i)
    BY <1>1 DEF Consecutive
  <1>4. \A i \in 1 .. n : selected[i].sender = t.sender => selected[i].nonce < t.nonce
    BY <1>1, <1>a DEF ExpectedOf
  <1>5. NoneTwice'
    BY <1>1, <1>2, <1>4, <1>b DEF NoneTwice
  <1>6. ASSUME NEW i \in 1 .. (n + 1)
        PROVE  InTurn(known, i)'
    <2>1. CASE i \in 1 .. n
      BY <1>1, <1>b, <2>1 DEF InTurn
    <2>2. CASE i = n + 1
      <3>1. /\ selected'[i] = t /\ i - 1 = n
            /\ \A j \in DOMAIN selected : j \in 1 .. n /\ selected'[j] = selected[j]
        BY <1>1, <2>2
      <3>2. \/ t.nonce = nonce[t.sender]
            \/ t.sender \notin known /\ t.nonce < nonce[t.sender]
            \/ \E j \in DOMAIN selected :
                 /\ selected[j].sender = t.sender
                 /\ t.nonce = selected[j].nonce + 1
        BY <1>a DEF ExpectedOf
      <3>3. QED
        BY <3>1, <3>2 DEF InTurn
    <2>3. QED
      BY <1>1, <2>1, <2>2
  <1>7. ASSUME NEW s \in Sender
        PROVE  ExpectedOf(known, s)'
    <2>1. CASE s = t.sender
      <3>1. /\ n + 1 \in DOMAIN selected' /\ selected'[n + 1].sender = s
            /\ active_nonces'[s] = selected'[n + 1].nonce + 1
        BY <1>1, <1>3, <2>1
      <3>2. \A i \in DOMAIN selected' : selected'[i].sender = s
                => selected'[i].nonce < active_nonces'[s]
        BY <1>1, <1>2, <1>3, <1>4, <2>1
      <3>3. QED
        BY <3>1, <3>2 DEF ExpectedOf
    <2>2. CASE s # t.sender
      <3>1. active_nonces'[s] = active_nonces[s]
        BY <1>3, <2>2
      <3>2. \A i \in DOMAIN selected' : selected'[i].sender = s
                => i \in DOMAIN selected /\ selected'[i] = selected[i]
        BY <1>1, <2>2
      <3>3. \A i \in DOMAIN selected :
                i \in DOMAIN selected' /\ selected'[i] = selected[i]
        BY <1>1
      <3>4. ExpectedOf(known, s)
        BY Zenon DEF Expecting
      <3>5. QED
        BY <3>1, <3>2, <3>3, <3>4 DEF ExpectedOf
    <2>3. QED
      BY <2>1, <2>2
  <1>8. Consecutive(known)'
    BY <1>1, <1>5, <1>6 DEF Consecutive
  <1>9. QED
    BY Zenon, <1>7, <1>8 DEF Expecting

\* Executing the first of the selected transactions makes the one that follows it
\* due, and no other late.
LEMMA ApplyKeepsSelection ==
    ASSUME TypeOK, NEW known, Consecutive(known), selected # <<>>,
           nonce[Head(selected).sender] = Head(selected).nonce,
           nonce' = [nonce EXCEPT ![Head(selected).sender] = @ + 1],
           selected' = Tail(selected)
    PROVE  Consecutive(known)'
  <1> DEFINE n == Len(selected)
             t == Head(selected)
  <1>1. /\ n \in Nat \ {0} /\ DOMAIN selected = 1 .. n /\ DOMAIN selected' = 1 .. (n - 1)
        /\ \A i \in 1 .. (n - 1) : selected'[i] = selected[i + 1]
        /\ \A i \in 1 .. n : selected[i] \in Tx
        /\ selected[1] = t
    BY BlockTypes
  <1>2. \A i \in 1 .. n : selected[i].sender \in Sender /\ selected[i].nonce \in Nat
    BY <1>1, TxFields
  <1>3. /\ nonce'[t.sender] = t.nonce + 1
        /\ \A s \in Sender \ {t.sender} : nonce'[s] = nonce[s]
        /\ \A s \in Sender : nonce[s] \in Nat
        /\ t.sender \in Sender /\ t.nonce \in Nat
        /\ nonce[t.sender] = t.nonce
    BY <1>1, <1>2, BlockTypes
  <1> HIDE DEF n, t
  <1>a. NoneTwice /\ \A i \in 1 .. n : InTurn(known, i)
    BY <1>1 DEF Consecutive
  <1>4. NoneTwice'
    BY <1>1, <1>a DEF NoneTwice
  <1>5. ASSUME NEW i \in 1 .. (n - 1)
        PROVE  InTurn(known, i)'
    <2> DEFINE u == selected[i + 1]
    <2>1. /\ i + 1 \in 1 .. n /\ i + 1 # 1 /\ i \in Nat
          /\ selected'[i] = u
          /\ u.sender \in Sender /\ u.nonce \in Nat
      BY <1>1, <1>2
    <2>2. u.sender = t.sender => u.nonce # t.nonce
      BY <1>1, <1>a, <2>1 DEF NoneTwice
    <2>3. \/ u.nonce = nonce[u.sender]
          \/ u.sender \notin known /\ u.nonce < nonce[u.sender]
          \/ \E j \in 1 .. i : /\ selected[j].sender = u.sender
                               /\ u.nonce = selected[j].nonce + 1
      <3>1. InTurn(known, i + 1) /\ (i + 1) - 1 = i
        BY <1>a, <2>1
      <3>2. QED
        BY <3>1 DEF InTurn
    <2> HIDE DEF u
    <2>4. CASE u.nonce = nonce[u.sender]
      <3>1. nonce'[u.sender] = nonce[u.sender]
        BY <1>3, <2>1, <2>2, <2>4
      <3>2. QED
        BY Zenon, <2>1, <2>4, <3>1 DEF InTurn
    <2>5. CASE u.sender \notin known /\ u.nonce < nonce[u.sender]
      <3>1. u.nonce < nonce'[u.sender]
        BY <1>3, <2>1, <2>5
      <3>2. QED
        BY Zenon, <2>1, <2>5, <3>1 DEF InTurn
    <2>6. ASSUME NEW j \in 1 .. i, selected[j].sender = u.sender,
                 u.nonce = selected[j].nonce + 1
          PROVE  InTurn(known, i)'
      <3>1. CASE j = 1
        <4>1. u.nonce = nonce'[u.sender]
          BY <1>1, <1>3, <2>6, <3>1
        <4>2. QED
          BY Zenon, <2>1, <4>1 DEF InTurn
      <3>2. CASE j # 1
        <4>1. j - 1 \in 1 .. (i - 1) /\ selected'[j - 1] = selected[j]
          BY <1>1, <2>1, <3>2
        <4>2. QED
          BY Zenon, <2>1, <2>6, <4>1 DEF InTurn
      <3>3. QED
        BY <3>1, <3>2
    <2>7. QED
      BY Zenon, <2>3, <2>4, <2>5, <2>6
  <1>6. QED
    BY <1>1, <1>4, <1>5 DEF Consecutive

\* What a block has selected is consecutive: Spec implies []SelectionInv.
LEMMA Selection == Spec => []SelectionInv
  <1>1. Init => SelectionInv
    BY NobodyIsNoRequest DEF Init, SelectionInv
  <1>2. TypeOK /\ LockInv /\ SelectionInv /\ [Next]_vars => SelectionInv'
    <2> SUFFICES ASSUME TypeOK, LockInv, SelectionInv, [Next]_vars
                 PROVE  SelectionInv'
      OBVIOUS
    <2> USE NobodyIsNoRequest
    <2>1. ASSUME NEW r \in Request, LockState(r)
          PROVE  SelectionInv'
      BY <2>1, PcType DEF LockState, SelectionInv
    <2>2. ASSUME NEW r \in Request, StartBlock(r)
          PROVE  SelectionInv'
      <3>1. /\ state_lock = r /\ state_lock' = r /\ pc'[r] = "pop"
            /\ selected = <<>> /\ selected' = <<>>
            /\ nonce' = nonce /\ seen' = seen
            /\ active_nonces' = [s \in Sender |-> IF s \in seen[r] THEN nonce[s] ELSE 0]
        BY <2>2, PcType DEF StartBlock, SelectionInv, LockInv
      <3>2. \A s \in Sender : nonce[s] \in Nat
        BY BlockTypes
      <3>3. Expecting(seen[r])'
        BY <3>1, <3>2 DEF Expecting, ExpectedOf
      <3>4. Consecutive(seen[r])'
        BY <3>1 DEF Consecutive, NoneTwice
      <3>5. QED
        BY <3>1, <3>3, <3>4 DEF SelectionInv
    <2>3. ASSUME NEW r \in Request, PopNext(r)
          PROVE  SelectionInv'
      <3>1. PICK t \in Best(by_sender, active_nonces, gas_used) :
                /\ active_nonces' = [active_nonces EXCEPT ![t.sender] = t.nonce + 1]
                /\ selected' = Append(selected, t)
        BY Zenon, <2>3 DEF PopNext
      <3>2. t \in Tx /\ t.nonce = active_nonces[t.sender]
        <4>1. t \in Tx
          BY BestIsPending DEF TypeOK
        <4>2. t.nonce = active_nonces[t.sender]
          BY Zenon DEF Best, Candidates
        <4>3. QED
          BY <4>1, <4>2
      <3>3. /\ state_lock = r /\ state_lock' = r /\ pc[r] = "pop" /\ pc' = pc
            /\ seen' = seen /\ nonce' = nonce
        BY <2>3 DEF PopNext, LockInv
      <3> PICK known : known = seen[r]
        OBVIOUS
      <3>4. Consecutive(known) /\ Expecting(known)
        BY <3>3 DEF SelectionInv
      <3>5. Consecutive(known)' /\ Expecting(known)'
        BY Zenon, <3>1, <3>2, <3>3, <3>4, PopKeepsSelection
      <3>6. QED
        BY <3>3, <3>5 DEF SelectionInv
    <2>4. ASSUME NEW r \in Request, PopDone(r) \/ LockReceipts(r)
          PROVE  SelectionInv'
      <3>1. /\ state_lock = r /\ state_lock' = r
            /\ pc[r] \in {"pop", "receipts"} /\ pc'[r] \in {"receipts", "apply"}
            /\ UNCHANGED <<selected, nonce, seen>>
        BY <2>4, PcType DEF PopDone, LockReceipts, LockInv
      <3>2. Consecutive(seen[r])'
        BY <3>1 DEF SelectionInv, Consecutive, NoneTwice, InTurn
      <3>3. QED
        BY <3>1, <3>2 DEF SelectionInv
    <2>5. ASSUME NEW r \in Request, ApplyTx(r)
          PROVE  SelectionInv'
      <3>a. /\ selected # <<>> /\ selected' = Tail(selected)
            /\ nonce[Head(selected).sender] = Head(selected).nonce
            /\ nonce' = [nonce EXCEPT ![Head(selected).sender] = @ + 1]
        BY Zenon, <2>5 DEF ApplyTx, Applicable
      <3>1. pc[r] = "apply" /\ pc' = pc /\ seen' = seen /\ state_lock' = state_lock
        BY Zenon, <2>5 DEF ApplyTx
      <3>2. state_lock = r
        BY <3>1 DEF LockInv
      <3> PICK known : known = seen[r]
        OBVIOUS
      <3>3. Consecutive(known)
        BY <3>1, <3>2 DEF SelectionInv
      <3>4. Consecutive(known)'
        BY Zenon, <3>a, <3>3, ApplyKeepsSelection
      <3>5. QED
        BY <3>1, <3>2, <3>4 DEF SelectionInv
    <2>6. ASSUME NEW r \in Request, StoreRoot(r)
          PROVE  SelectionInv'
      BY <2>6, PcType DEF StoreRoot, SelectionInv, LockInv
    <2>7. ASSUME NEW r \in Request, ApplyFails(r) \/ PublishHead(r)
          PROVE  SelectionInv'
      BY <2>7 DEF ApplyFails, Abandon, PublishHead, SelectionInv, LockInv
    <2>8. ASSUME NEW r \in Request, HangUp(r)
          PROVE  SelectionInv'
      <3>1. CASE pc[r] \in {"number", "receipts", "apply"}
        BY <2>8, <3>1 DEF HangUp, Abandon, SelectionInv, LockInv
      <3>2. CASE pc[r] = "state"
        <4>1. Aside
          BY Zenon, <2>8, <3>2 DEF HangUp, Aside, LockInv, TypeOK
        <4>2. QED
          BY <4>1, AsideKeepsSelection
      <3>3. QED
        BY <2>8, <3>1, <3>2 DEF HangUp
    <2>9. QED
      BY <2>1, <2>2, <2>3, <2>4, <2>5, <2>6, <2>7, <2>8, StepsAside,
         AsideKeepsSelection
  <1>3. QED
    BY <1>1, <1>2, TypeCorrect, Locks, PTL DEF Spec

\* A block meets a nonce mismatch only for a sender mine_block did not see, and only
\* for a nonce used up since: Spec implies []MismatchOnlyForUnseenSender.
THEOREM MismatchUnseen == Spec => []MismatchOnlyForUnseenSender
  <1>1. TypeOK /\ LockInv /\ SelectionInv => MismatchOnlyForUnseenSender
    <2> SUFFICES ASSUME TypeOK, LockInv, SelectionInv,
                        NEW r \in Request, pc[r] = "apply", selected # <<>>,
                        Head(selected).nonce # nonce[Head(selected).sender]
                 PROVE  /\ Head(selected).sender \notin seen[r]
                        /\ Head(selected).nonce < nonce[Head(selected).sender]
      BY DEF MismatchOnlyForUnseenSender
    <2>1. Consecutive(seen[r])
      BY DEF LockInv, SelectionInv
    <2>2. 1 \in DOMAIN selected /\ selected[1] = Head(selected)
      BY BlockTypes
    <2>3. QED
      BY <2>1, <2>2 DEF Consecutive, InTurn
  <1>2. QED
    BY <1>1, TypeCorrect, Locks, Selection, PTL

-----------------------------------------------------------------------------

\* No block is open: the latest block failed, or its root is stored and its head
\* published.
Settled ==
    /\ (last_head + 1) .. block_number \subseteq failed_blocks
    /\ block_number \notin failed_blocks =>
         /\ root_block = block_number
         /\ block_number > 0 => state_root = Accounts

\* Block block_number is open: every earlier one is settled, and it is the next to
\* be announced.
Open ==
    /\ block_number \notin failed_blocks
    /\ last_head < block_number
    /\ (last_head + 1) .. (block_number - 1) \subseteq failed_blocks
    /\ pc[number_lock] = "head" =>
         root_block = block_number /\ state_root = Accounts

ChainInv ==
    /\ last_head <= block_number
    /\ root_block <= block_number
    /\ \A n \in failed_blocks : n <= block_number
    /\ IF number_lock = Nobody THEN Settled ELSE Open

\* A step that neither opens, fails, roots nor announces a block, nor executes a
\* transaction, keeps ChainInv.
QuietStep ==
    /\ UNCHANGED <<nonce, balance, block_number, state_root, root_block,
                   failed_blocks, last_head, number_lock>>
    /\ number_lock # Nobody /\ pc'[number_lock] = "head" => pc[number_lock] = "head"

\* The step with which mine_block gives up the block it has open.
Fails(r) == (ApplyFails(r) \/ HangUp(r)) /\ pc[r] \in {"receipts", "apply"}

\* Every step but those of a block from its start to its announcement is quiet.
LEMMA QuietSteps ==
    ASSUME TypeOK, LockInv, [Next]_vars,
           \A r \in Request :
               /\ ~StartBlock(r) /\ ~ApplyTx(r) /\ ~Fails(r)
               /\ ~StoreRoot(r) /\ ~PublishHead(r)
    PROVE  QuietStep
  <1>a. pc \in [Request -> Label] /\ number_lock \in Request \cup {Nobody}
    BY PcType
  <1>1. ASSUME NEW r \in Request, NEW t \in Tx, ReadNonce(r, t)
        PROVE  QuietStep
    BY Zenon, <1>a, <1>1 DEF QuietStep, ReadNonce
  <1>2. ASSUME NEW r \in Request, Step(r)
        PROVE  QuietStep
    <2>1. CASE InsertTx(r)
      BY <1>a, <2>1 DEF QuietStep, InsertTx
    <2>2. CASE AnnouncePending(r)
      BY <1>a, <2>2 DEF QuietStep, AnnouncePending
    <2>3. CASE CheckAutoMine(r)
      BY <1>a, <2>3 DEF QuietStep, CheckAutoMine
    <2>4. CASE ReadSenders(r)
      BY Zenon, <1>a, <2>4 DEF QuietStep, ReadSenders
    <2>5. CASE LockState(r)
      BY <1>a, <2>5 DEF QuietStep, LockState
    <2>6. CASE PopNext(r)
      BY <1>a, <2>6 DEF QuietStep, PopNext
    <2>7. CASE PopDone(r)
      BY Zenon, <1>a, <2>7 DEF QuietStep, PopDone
    <2>8. CASE LockReceipts(r)
      BY <1>a, <2>8 DEF QuietStep, LockReceipts
    <2>9. CASE ReadRoot(r)
      BY <1>a, <2>9 DEF QuietStep, ReadRoot
    <2>10. QED
      BY Zenon, <1>2, <2>1, <2>2, <2>3, <2>4, <2>5, <2>6, <2>7, <2>8, <2>9
      DEF Step, ApplyFails, Fails
  <1>3. ASSUME NEW r \in Request, evm_mine(r)
        PROVE  QuietStep
    BY <1>a, <1>3 DEF QuietStep, evm_mine
  <1>4. ASSUME NEW r \in Request, ReadNumber(r)
        PROVE  QuietStep
    BY <1>a, <1>4 DEF QuietStep, ReadNumber
  <1>5. ASSUME NEW r \in Request, HangUp(r)
        PROVE  QuietStep
    BY Zenon, <1>a, <1>5 DEF QuietStep, HangUp, Fails
  <1>6. ASSUME NEW enabled \in AutoMineValues, set_auto_mine(enabled)
        PROVE  QuietStep
    BY <1>a, <1>6 DEF QuietStep, set_auto_mine
  <1>7. CASE UNCHANGED vars
    BY <1>a, <1>7 DEF QuietStep, vars
  <1>8. QED
    BY <1>1, <1>2, <1>3, <1>4, <1>5, <1>6, <1>7 DEF Next

\* Blocks are opened, settled and announced one at a time.
LEMMA Chain == Spec => []ChainInv
  <1>1. Init => ChainInv
    BY DEF Init, ChainInv, Settled
  <1>2. TypeOK /\ LockInv /\ ChainInv /\ [Next]_vars => ChainInv'
    <2> SUFFICES ASSUME TypeOK, LockInv, ChainInv, [Next]_vars
                 PROVE  ChainInv'
      OBVIOUS
    <2> USE NobodyIsNoRequest DEF ChainInv
    <2>1. CASE QuietStep
      BY Zenon, <2>1 DEF QuietStep, Settled, Open, Accounts
    <2>2. ASSUME NEW r \in Request, StartBlock(r)
          PROVE  ChainInv'
      <3>1. /\ Settled
            /\ block_number' = block_number + 1
            /\ number_lock' = r
            /\ pc'[r] = "pop"
            /\ UNCHANGED <<last_head, root_block, failed_blocks>>
        BY <2>2, PcType DEF StartBlock
      <3>2. /\ r # Nobody
            /\ block_number \in Nat /\ last_head \in Nat /\ root_block \in Nat
            /\ failed_blocks \subseteq Nat
        BY ChainTypes
      <3>3. Open'
        <4>1. block_number' \notin failed_blocks'
          BY <3>1, <3>2
        <4>2. last_head' < block_number'
          BY <3>1, <3>2
        <4>3. (last_head' + 1) .. (block_number' - 1) \subseteq failed_blocks'
          <5>1. block_number' - 1 = block_number
            BY <3>1, <3>2
          <5>2. QED
            BY <3>1, <5>1 DEF Settled
        <4>4. pc'[number_lock'] # "head"
          BY <3>1
        <4>5. QED
          BY <4>1, <4>2, <4>3, <4>4 DEF Open
      <3>4. /\ last_head' <= block_number'
            /\ root_block' <= block_number'
            /\ \A n \in failed_blocks' : n <= block_number'
        BY <3>1, <3>2
      <3>5. number_lock' # Nobody
        BY <3>1, <3>2
      <3>6. QED
        BY <3>3, <3>4, <3>5
    <2>3. ASSUME NEW r \in Request, ApplyTx(r)
          PROVE  ChainInv'
      <3>1. number_lock = r /\ pc[r] = "apply" /\ r # Nobody
        BY Zenon, <2>3 DEF ApplyTx, LockInv
      <3>2. UNCHANGED <<block_number, root_block, failed_blocks, last_head,
                        number_lock, pc>>
        BY Zenon, <2>3 DEF ApplyTx
      <3>3. QED
        BY <3>1, <3>2 DEF Open
    <2>4. ASSUME NEW r \in Request, Fails(r)
          PROVE  ChainInv'
      <3>1. number_lock = r /\ r # Nobody
        BY <2>4 DEF Fails, LockInv
      <3>2. Abandon(r)
        BY Zenon, <2>4 DEF Fails, ApplyFails, HangUp
      <3>3. /\ failed_blocks' = failed_blocks \cup {block_number}
            /\ number_lock' = Nobody
            /\ UNCHANGED <<block_number, root_block, last_head>>
        BY <3>2 DEF Abandon
      <3>4. block_number \in Nat /\ last_head \in Nat
        BY ChainTypes
      <3>5. Settled'
        <4>1. (last_head + 1) .. (block_number - 1) \subseteq failed_blocks
          BY <3>1 DEF Open
        <4>2. (last_head + 1) .. block_number
                \subseteq ((last_head + 1) .. (block_number - 1)) \cup {block_number}
          BY <3>4
        <4>3. (last_head' + 1) .. block_number' \subseteq failed_blocks'
          BY <3>3, <4>1, <4>2
        <4>4. block_number' \in failed_blocks'
          BY <3>3
        <4>5. QED
          BY <4>3, <4>4 DEF Settled
      <3>6. /\ last_head' <= block_number'
            /\ root_block' <= block_number'
            /\ \A n \in failed_blocks' : n <= block_number'
        BY <3>3, <3>4
      <3>7. QED
        BY <3>3, <3>5, <3>6
    <2>5. ASSUME NEW r \in Request, StoreRoot(r)
          PROVE  ChainInv'
      <3>1. number_lock = r /\ r # Nobody
        BY <2>5 DEF StoreRoot, LockInv
      <3>2. /\ root_block' = block_number
            /\ state_root' = Accounts'
            /\ UNCHANGED <<block_number, failed_blocks, last_head, number_lock>>
        BY Zenon, <2>5 DEF StoreRoot, Accounts
      <3>3. Open'
        BY <3>1, <3>2 DEF Open
      <3>4. block_number \in Nat
        BY ChainTypes
      <3>5. /\ last_head' <= block_number'
            /\ root_block' <= block_number'
            /\ \A n \in failed_blocks' : n <= block_number'
        BY <3>2, <3>4
      <3>6. QED
        BY <3>1, <3>2, <3>3, <3>5
    <2>6. ASSUME NEW r \in Request, PublishHead(r)
          PROVE  ChainInv'
      <3>1. number_lock = r /\ pc[r] = "head" /\ r # Nobody
        BY <2>6 DEF PublishHead, LockInv
      <3>2. /\ last_head' = block_number
            /\ number_lock' = Nobody
            /\ UNCHANGED <<block_number, root_block, failed_blocks, state_root>>
            /\ Accounts' = Accounts
        BY Zenon, <2>6 DEF PublishHead, Accounts
      <3>3. block_number \in Nat
        BY ChainTypes
      <3>4. Settled'
        <4>1. (last_head' + 1) .. block_number' = {}
          BY <3>2, <3>3
        <4>2. root_block = block_number /\ state_root = Accounts
          BY <3>1 DEF Open
        <4>3. QED
          BY <3>2, <4>1, <4>2 DEF Settled
      <3>5. /\ last_head' <= block_number'
            /\ root_block' <= block_number'
            /\ \A n \in failed_blocks' : n <= block_number'
        BY <3>2, <3>3
      <3>6. QED
        BY <3>2, <3>4, <3>5
    <2>7. QED
      BY <2>1, <2>2, <2>3, <2>4, <2>5, <2>6, QuietSteps
  <1>3. QED
    BY <1>1, <1>2, TypeCorrect, Locks, PTL DEF Spec

\* While no block is open and the latest one did not fail, the stored root is the
\* root of the current accounts: Spec implies []RootIsCurrent.
THEOREM RootCurrent == Spec => []RootIsCurrent
  <1>1. TypeOK /\ LockInv /\ ChainInv => RootIsCurrent
    BY NobodyIsNoRequest
    DEF TypeOK, Holder, LockInv, ChainInv, Settled, RootIsCurrent
  <1>2. QED
    BY <1>1, TypeCorrect, Locks, Chain, PTL

\* Heads are announced in order and without gaps: Spec implies HeadsInOrder.
THEOREM HeadsOrdered == Spec => HeadsInOrder
  <1> DEFINE Ordered ==
        last_head' # last_head =>
          /\ last_head' > last_head
          /\ (last_head + 1) .. (last_head' - 1) \subseteq failed_blocks
  <1>1. TypeOK /\ LockInv /\ ChainInv /\ [Next]_vars => [Ordered]_vars
    <2> SUFFICES ASSUME TypeOK, LockInv, ChainInv, [Next]_vars
                 PROVE  Ordered
      OBVIOUS
    <2>1. ASSUME NEW r \in Request, PublishHead(r)
          PROVE  Ordered
      <3>1. number_lock = r /\ r # Nobody /\ last_head' = block_number
        BY <2>1, NobodyIsNoRequest DEF PublishHead, LockInv
      <3>2. QED
        BY <3>1 DEF ChainInv, Open
    <2>2. CASE UNCHANGED last_head
      BY <2>2
    <2>3. ASSUME NEW r \in Request, StartBlock(r) \/ ApplyTx(r) \/ Fails(r) \/ StoreRoot(r)
          PROVE  UNCHANGED last_head
      BY Zenon, <2>3
      DEF StartBlock, ApplyTx, Fails, ApplyFails, HangUp, Abandon, StoreRoot
    <2>4. QED
      BY Zenon, <2>1, <2>2, <2>3, QuietSteps DEF QuietStep
  <1>2. QED
    BY <1>1, TypeCorrect, Locks, Chain, PTL DEF Spec, HeadsInOrder

\* Every message the node sends, the same as the one before it included, is sent by
\* the corresponding step of EventStream.  A log and a head are sent only by the task
\* that holds the number lock, while its block is open, hence before its head.
LEMMA MessagesOfStream ==
    ASSUME TypeOK, LockInv, ChainInv, NEW r \in Request
    PROVE  /\ AnnouncePending(r) => Stream!PublishPending
           /\ ApplyTx(r) =>
                 \/ UNCHANGED <<event_vars, block_number>>
                 \/ event' = LogEvent(block_number)
           /\ ApplyTx(r) /\ event' = LogEvent(block_number) => Stream!PublishLog
           /\ PublishHead(r) => Stream!PublishHead
  <1>1. ASSUME AnnouncePending(r)
        PROVE  Stream!PublishPending
    BY <1>1
    DEF AnnouncePending, chain_vars, PendingTxEvent, Stream!PublishPending,
        Stream!PendingTxEvent
  <1>2. ASSUME ApplyTx(r), event' # LogEvent(block_number)
        PROVE  UNCHANGED <<event_vars, block_number>>
    BY Zenon, <1>2 DEF ApplyTx, event_vars
  <1>3. ASSUME ApplyTx(r), event' = LogEvent(block_number)
        PROVE  Stream!PublishLog
    <2>1. last_head < block_number
      BY Zenon, <1>3, NobodyIsNoRequest DEF ApplyTx, LockInv, ChainInv, Open
    <2>2. UNCHANGED <<last_head, block_number>>
      BY Zenon, <1>3 DEF ApplyTx
    <2>3. QED
      BY <1>3, <2>1, <2>2
      DEF LogEvent, Stream!LogEvent, Stream!Mining, Stream!PublishLog
  <1>4. ASSUME PublishHead(r)
        PROVE  Stream!PublishHead
    <2>1. last_head < block_number
      BY <1>4, NobodyIsNoRequest DEF PublishHead, LockInv, ChainInv, Open
    <2>2. /\ event' = NewHeadEvent(block_number)
          /\ last_head' = block_number
          /\ UNCHANGED block_number
      BY <1>4 DEF PublishHead, chain_vars
    <2>3. QED
      BY <2>1, <2>2
      DEF NewHeadEvent, Stream!NewHeadEvent, Stream!Mining, Stream!PublishHead
  <1>5. QED
    BY Zenon, <1>1, <1>2, <1>3, <1>4

\* The node publishes the stream that subscribers rely on: Spec implies
\* PublishesEventStream.
THEOREM ImplementsEventStream == Spec => PublishesEventStream
  <1>1. Init => Stream!Init
    BY DEF Init, Stream!Init, NoEvent, Stream!NoEvent
  <1>2. TypeOK /\ LockInv /\ ChainInv /\ [Next]_vars => [Stream!Next]_Stream!vars
    <2> SUFFICES ASSUME TypeOK, LockInv, ChainInv, [Next]_vars
                 PROVE  [Stream!Next]_Stream!vars
      OBVIOUS
    <2>1. CASE UNCHANGED <<event_vars, block_number>>
      BY <2>1 DEF event_vars, Stream!vars
    <2>2. ASSUME NEW r \in Request, AnnouncePending(r) \/ ApplyTx(r) \/ PublishHead(r)
          PROVE  Stream!Next \/ UNCHANGED <<event_vars, block_number>>
      <3>1. /\ AnnouncePending(r) => Stream!PublishPending
            /\ ApplyTx(r) => Stream!PublishLog \/ UNCHANGED <<event_vars, block_number>>
            /\ PublishHead(r) => Stream!PublishHead
        BY Zenon, MessagesOfStream
      <3>2. QED
        BY Zenon, <2>2, <3>1 DEF Stream!Next
    <2>3. ASSUME NEW r \in Request, StartBlock(r)
          PROVE  Stream!Begin
      BY Zenon, <2>3 DEF StartBlock, event_vars, Stream!Begin
    <2>4. ASSUME NEW r \in Request, Step(r), ~AnnouncePending(r), ~StartBlock(r),
                 ~ApplyTx(r), ~PublishHead(r)
          PROVE  UNCHANGED <<event_vars, block_number>>
      BY Zenon, <2>4
      DEF Step, InsertTx, CheckAutoMine, ReadSenders, LockState, PopNext, PopDone,
          LockReceipts, ApplyFails, Abandon, StoreRoot, ReadRoot, chain_vars
    <2>5. ASSUME NEW r \in Request,
                 \/ \E t \in Tx : ReadNonce(r, t)
                 \/ evm_mine(r) \/ ReadNumber(r) \/ HangUp(r)
          PROVE  UNCHANGED <<event_vars, block_number>>
      BY Zenon, <2>5 DEF ReadNonce, evm_mine, ReadNumber, HangUp, Abandon, chain_vars
    <2>6. ASSUME NEW enabled \in AutoMineValues, set_auto_mine(enabled)
          PROVE  UNCHANGED <<event_vars, block_number>>
      BY <2>6 DEF set_auto_mine, chain_vars
    <2>7. CASE UNCHANGED vars
      BY <2>1, <2>7 DEF vars, chain_vars
    <2>8. QED
      BY <2>1, <2>2, <2>3, <2>4, <2>5, <2>6, <2>7
      DEF Next, Stream!Next
  <1>3. QED
    BY <1>1, <1>2, TypeCorrect, Locks, Chain, PTL
    DEF Spec, PublishesEventStream, Stream!Spec

\* Between its two reads, eth_getBlockByNumber relies on this.
ReadInv ==
    \A r \in Request :
        pc[r] = "root" =>
            root_block >= number_read[r] \/ number_read[r] \in failed_blocks

\* The stored root only gets newer, and a failed block stays failed.
LEMMA RootsAdvance ==
    ASSUME TypeOK, ChainInv, LockInv, [Next]_vars
    PROVE  root_block' >= root_block /\ failed_blocks \subseteq failed_blocks'
  <1>1. ASSUME NEW r \in Request, StoreRoot(r)
        PROVE  root_block' >= root_block /\ failed_blocks \subseteq failed_blocks'
    BY <1>1 DEF StoreRoot, ChainInv
  <1>2. ASSUME NEW r \in Request,
               StartBlock(r) \/ ApplyTx(r) \/ Fails(r) \/ PublishHead(r)
        PROVE  root_block' = root_block /\ failed_blocks \subseteq failed_blocks'
    BY Zenon, <1>2
    DEF StartBlock, ApplyTx, Fails, ApplyFails, HangUp, Abandon, PublishHead
  <1>3. CASE QuietStep
    BY <1>3 DEF QuietStep, TypeOK
  <1>4. root_block \in Nat
    BY DEF TypeOK
  <1>5. QED
    BY <1>1, <1>2, <1>3, <1>4, QuietSteps

\* A block answer pairs a number with a root that is not older, unless that block
\* failed: Spec implies []BlockAnswerNotStale.
THEOREM AnswerNotStale == Spec => []BlockAnswerNotStale
  <1> DEFINE Inv == ReadInv /\ BlockAnswerNotStale
  <1>1. Init => Inv
    BY DEF Init, ReadInv, BlockAnswerNotStale
  <1>2. TypeOK /\ LockInv /\ ChainInv /\ Inv /\ [Next]_vars => Inv'
    <2> SUFFICES ASSUME TypeOK, LockInv, ChainInv, Inv, [Next]_vars
                 PROVE  Inv'
      OBVIOUS
    <2>1. root_block' >= root_block /\ failed_blocks \subseteq failed_blocks'
      BY RootsAdvance
    <2>2. root_block \in Nat /\ root_block' \in Nat
      <3>1. TypeOK'
        BY TypeStep
      <3>2. QED
        BY <3>1 DEF TypeOK
    <2>3. ASSUME NEW r \in Request, ReadNumber(r)
          PROVE  Inv'
      <3>1. root_block >= block_number \/ block_number \in failed_blocks
        BY Zenon, <2>3 DEF ReadNumber, ChainInv, Settled, TypeOK
      <3>2. QED
        BY Zenon, <2>3, <3>1 DEF ReadNumber, ReadInv, BlockAnswerNotStale, TypeOK
    <2>4. ASSUME NEW r \in Request, ReadRoot(r)
          PROVE  Inv'
      <3>1. /\ pc[r] = "root"
            /\ root_read' = [root_read EXCEPT ![r] = root_block]
            /\ pc' = [pc EXCEPT ![r] = "answered"]
            /\ UNCHANGED <<root_block, failed_blocks, number_read>>
        BY <2>4 DEF ReadRoot
      <3>2. /\ pc'[r] = "answered" /\ root_read'[r] = root_block
            /\ \A q \in Request \ {r} :
                 pc'[q] = pc[q] /\ root_read'[q] = root_read[q]
        BY Zenon, <3>1 DEF TypeOK
      <3>3. ReadInv'
        BY <3>1, <3>2 DEF ReadInv
      <3>4. BlockAnswerNotStale'
        BY <3>1, <3>2 DEF ReadInv, BlockAnswerNotStale
      <3>5. QED
        BY <3>3, <3>4
    <2>5. ASSUME UNCHANGED read_vars,
                 \A r \in Request : pc'[r] \in {"root", "answered"} => pc'[r] = pc[r]
          PROVE  Inv'
      <3>1. \A r \in Request : number_read[r] \in Nat
        BY DEF TypeOK
      <3>2. ReadInv'
        BY <2>1, <2>2, <2>5, <3>1 DEF ReadInv
      <3>3. BlockAnswerNotStale'
        BY <2>1, <2>5 DEF BlockAnswerNotStale
      <3>4. QED
        BY <3>2, <3>3
    <2>6. ASSUME NEW r \in Request, Step(r), ~ReadRoot(r)
          PROVE  /\ UNCHANGED read_vars
                 /\ \A q \in Request :
                      pc'[q] \in {"root", "answered"} => pc'[q] = pc[q]
      BY Zenon, <2>6
      DEF Step, InsertTx, AnnouncePending, CheckAutoMine, ReadSenders, LockState,
          StartBlock, PopNext, PopDone, LockReceipts, ApplyTx, ApplyFails,
          Abandon, StoreRoot, PublishHead, TypeOK
    <2>7. ASSUME NEW r \in Request,
                 \/ \E t \in Tx : ReadNonce(r, t)
                 \/ evm_mine(r) \/ HangUp(r)
          PROVE  /\ UNCHANGED read_vars
                 /\ \A q \in Request :
                      pc'[q] \in {"root", "answered"} => pc'[q] = pc[q]
      BY Zenon, <2>7 DEF ReadNonce, evm_mine, HangUp, Abandon, TypeOK
    <2>8. ASSUME NEW enabled \in AutoMineValues, set_auto_mine(enabled)
          PROVE  UNCHANGED <<read_vars, pc>>
      BY <2>8 DEF set_auto_mine
    <2>9. CASE UNCHANGED vars
      BY <2>5, <2>9 DEF vars
    <2>10. QED
      BY <2>3, <2>4, <2>5, <2>6, <2>7, <2>8, <2>9 DEF Next
  <1>3. Inv => BlockAnswerNotStale
    OBVIOUS
  <1>4. QED
    BY <1>1, <1>2, <1>3, TypeCorrect, Locks, Chain, PTL DEF Spec

=============================================================================
