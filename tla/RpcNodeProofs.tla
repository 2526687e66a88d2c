---------------------------- MODULE RpcNodeProofs ----------------------------
(***************************************************************************)
(* For any number of requests, senders and transactions: the node's        *)
(* safety properties.  TypeOK is inductive; so are NonceCountsReceipts,    *)
(* BalancesAccountedFor and AcceptedAccountedFor on top of it.             *)
(* Last, which task may be where (LockInv), for the proofs about blocks.   *)
(***************************************************************************)
EXTENDS RpcNode, TLAPS

\* The time a prover has for a leaf.
USE SMTT(30)

USE DEF pool_vars, event_vars, account_vars, chain_vars, lock_vars, block_vars,
        read_vars, Goto

\* The fields of a transaction.
LEMMA TxFields ==
    ASSUME NEW t \in Tx
    PROVE  /\ t.sender \in Sender
           /\ t.nonce \in Nat
           /\ t.gas_limit \in Nat
           /\ t.value \in Nat
           /\ t.max_fee_per_gas \in Nat
  BY TxAssumption DEF SignedTransaction

\* A free lock has no holder.
LEMMA NobodyIsNoRequest == Nobody \notin Request
  BY RequestAssumption

\* What a block selected are transactions, the next one and the rest.
LEMMA HeadAndTail ==
    ASSUME NEW q \in Seq(Tx), q # <<>>
    PROVE  Head(q) \in Tx /\ Tail(q) \in Seq(Tx)
  OBVIOUS

\* A transaction is pending when some sender's entry holds it.
LEMMA InPending ==
    ASSUME NEW pool, NEW t
    PROVE  t \in pending(pool) <=> \E s \in Sender : t \in pool[s]
  BY DEF pending

\* What pop_executable takes is a pending transaction of its sender.
LEMMA BestIsPending ==
    ASSUME NEW pool \in Pool, NEW active, NEW gas,
           NEW t \in Best(pool, active, gas)
    PROVE  \E s \in Sender : t \in pool[s] /\ t \in Tx
  BY DEF Best, Candidates, Lowest, Pool

\* The remainder by the word size is a word, and a number that is a word is its
\* own remainder.
LEMMA WordRemainder ==
    ASSUME NEW x \in Int
    PROVE  /\ x % WordMod \in 0 .. (WordMod - 1)
           /\ 0 <= x /\ x < WordMod => x % WordMod = x
  BY RequestAssumption

\* The quotient and the remainder by the word size make up the number.
LEMMA WordQuotient ==
    ASSUME NEW x \in Int
    PROVE  x = (x \div WordMod) * WordMod + (x % WordMod) /\ x \div WordMod \in Int
  BY RequestAssumption

\* A remainder is determined by the number and any quotient.
LEMMA RemainderUnique ==
    ASSUME NEW x \in Int, NEW q \in Int, NEW y \in 0 .. (WordMod - 1),
           x = q * WordMod + y
    PROVE  x % WordMod = y
  BY RequestAssumption

\* Reducing a summand first does not change the remainder of a sum.
LEMMA ReduceFirst ==
    ASSUME NEW x \in Int, NEW d \in Int
    PROVE  ((x % WordMod) + d) % WordMod = (x + d) % WordMod
  <1> DEFINE q == x \div WordMod
             b == x % WordMod
             y == (b + d) % WordMod
             p == (b + d) \div WordMod
  <1>1. x = q * WordMod + b /\ q \in Int /\ b \in Int
    BY WordQuotient, WordRemainder
  <1>2. b + d = p * WordMod + y /\ p \in Int /\ y \in 0 .. (WordMod - 1)
    BY <1>1, WordQuotient, WordRemainder
  <1> HIDE DEF q, b, y, p
  <1>3. x + d = (q + p) * WordMod + y /\ q + p \in Int
    BY <1>1, <1>2, RequestAssumption
  <1>4. (x + d) % WordMod = y
    BY <1>2, <1>3, RemainderUnique
  <1>5. QED
    BY <1>4 DEF b, y

\* The gas that was used costs no more than the whole limit.
LEMMA UsedCost ==
    ASSUME NEW g \in Nat, NEW f \in Nat, NEW used \in 0 .. g
    PROVE  /\ used * f \in Nat
           /\ g * f \in Nat
           /\ (g - used) * f \in Nat
           /\ g * f = used * f + (g - used) * f
  <1>1. g - used \in Nat
    OBVIOUS
  <1>2. QED
    BY <1>1

\* A transaction that fits and that its sender can pay for: deduction and refund
\* leave the balance lower by the cost of the gas used.
LEMMA FeeCovered ==
    ASSUME NEW t \in Tx, NEW b \in 0 .. (WordMod - 1),
           b >= total_upfront_cost(t), Fits(t),
           NEW used \in 0 .. t.gas_limit
    PROVE  /\ used * t.max_fee_per_gas \in 0 .. b
           /\ b - max_gas_cost(t) + refund_amount(t, used)
                = b - used * t.max_fee_per_gas
  <1> DEFINE whole == t.gas_limit * t.max_fee_per_gas
             spent == used * t.max_fee_per_gas
             rest == (t.gas_limit - used) * t.max_fee_per_gas
  <1>1. whole \in Nat /\ spent \in Nat /\ rest \in Nat /\ whole = spent + rest
    BY TxFields, UsedCost
  <1>2. t.value \in Nat /\ t.value + whole < WordMod
    BY TxFields DEF Fits
  <1>3. max_gas_cost(t) = whole % WordMod /\ refund_amount(t, used) = rest % WordMod
    BY DEF max_gas_cost, refund_amount
  <1>4. total_upfront_cost(t) = (t.value + max_gas_cost(t)) % WordMod
    BY DEF total_upfront_cost
  <1> HIDE DEF whole, spent, rest
  <1>5. WordMod \in Nat
    BY RequestAssumption
  <1>6. max_gas_cost(t) = whole /\ refund_amount(t, used) = rest
    <2>1. whole \in Int /\ 0 <= whole /\ whole < WordMod
      BY <1>1, <1>2, <1>5
    <2>2. rest \in Int /\ 0 <= rest /\ rest < WordMod
      BY <1>1, <1>2, <1>5
    <2>3. whole % WordMod = whole /\ rest % WordMod = rest
      BY <2>1, <2>2, WordRemainder
    <2>4. QED
      BY <1>3, <2>3
  <1>7. total_upfront_cost(t) = t.value + whole
    <2>1. t.value + whole \in Int /\ 0 <= t.value + whole
      BY <1>1, <1>2
    <2>2. (t.value + whole) % WordMod = t.value + whole
      BY <1>2, <2>1, WordRemainder
    <2>3. QED
      BY <1>4, <1>6, <2>2
  <1>8. QED
    BY <1>1, <1>2, <1>5, <1>6, <1>7 DEF spent

-----------------------------------------------------------------------------

\* Every step keeps every variable's type.
LEMMA TypeStep ==
    ASSUME TypeOK, [Next]_vars
    PROVE  TypeOK'
  <1>1. ASSUME NEW r \in Request, NEW t \in Tx, ReadNonce(r, t)
        PROVE  TypeOK'
    BY <1>1 DEF ReadNonce, TypeOK, Label
  <1>2. ASSUME NEW r \in Request, InsertTx(r)
        PROVE  TypeOK'
    <2>1. tx[r] \in Tx /\ tx[r].sender \in Sender
      BY <1>2, TxFields DEF InsertTx, TypeOK
    <2>2. Insert(by_sender, tx[r]) \in Pool
      BY <2>1 DEF TypeOK, Pool, Insert
    <2>3. by_sender' \in Pool /\ accepted' \subseteq Tx
      BY <1>2, <2>1, <2>2 DEF InsertTx, TypeOK
    <2>4. QED
      BY Zenon, <1>2, <2>3 DEF InsertTx, TypeOK, Label
  <1>3. ASSUME NEW r \in Request, AnnouncePending(r)
        PROVE  TypeOK'
    BY <1>3 DEF AnnouncePending, TypeOK, Label, PendingTxEvent, Event
  <1>4. ASSUME NEW r \in Request, CheckAutoMine(r)
        PROVE  TypeOK'
    BY <1>4 DEF CheckAutoMine, TypeOK, Label
  <1>5. ASSUME NEW r \in Request, ReadSenders(r)
        PROVE  TypeOK'
    <2>1. senders(by_sender) \subseteq Sender
      BY DEF senders
    <2>2. QED
      BY <1>5, <2>1 DEF ReadSenders, TypeOK, Label
  <1>6. ASSUME NEW r \in Request, LockState(r)
        PROVE  TypeOK'
    BY <1>6 DEF LockState, TypeOK, Label, Holder
  <1>7. ASSUME NEW r \in Request, StartBlock(r)
        PROVE  TypeOK'
    BY <1>7 DEF StartBlock, TypeOK, Label, Holder
  <1>8. ASSUME NEW r \in Request, PopNext(r)
        PROVE  TypeOK'
    <2>1. PICK t \in Best(by_sender, active_nonces, gas_used) :
            /\ by_sender' = Remove(by_sender, t)
            /\ gas_used' = gas_used + t.gas_limit
            /\ active_nonces' = [active_nonces EXCEPT ![t.sender] = t.nonce + 1]
            /\ selected' = Append(selected, t)
      BY Zenon, <1>8 DEF PopNext
    <2>2. t \in Tx
      BY BestIsPending DEF TypeOK
    <2>3. t.sender \in Sender /\ t.nonce \in Nat /\ t.gas_limit \in Nat
      BY <2>2, TxFields
    <2>4. by_sender' \in Pool
      <3>1. by_sender[t.sender] \ {t} \subseteq Tx
        BY <2>3 DEF TypeOK, Pool
      <3>2. QED
        BY Zenon, <2>1, <2>3, <3>1 DEF TypeOK, Remove, Pool
    <2>5. gas_used' \in Nat
      <3>1. gas_used \in Nat
        BY DEF TypeOK
      <3>2. QED
        BY <2>1, <2>3, <3>1
    <2>6. active_nonces' \in [Sender -> Nat]
      <3>1. t.nonce + 1 \in Nat /\ active_nonces \in [Sender -> Nat]
        BY <2>3 DEF TypeOK
      <3>2. QED
        BY <2>1, <2>3, <3>1
    <2>7. selected' \in Seq(Tx)
      <3>1. selected \in Seq(Tx)
        BY DEF TypeOK
      <3>2. QED
        BY <2>1, <2>2, <3>1
    <2>8. QED
      BY Zenon, <1>8, <2>4, <2>5, <2>6, <2>7 DEF PopNext, TypeOK, Holder
  <1>9. ASSUME NEW r \in Request, PopDone(r)
        PROVE  TypeOK'
    BY <1>9 DEF PopDone, TypeOK, Label, Holder, NoNonces
  <1>10. ASSUME NEW r \in Request, LockReceipts(r)
         PROVE  TypeOK'
    BY <1>10 DEF LockReceipts, TypeOK, Label, Holder
  <1>11. ASSUME NEW r \in Request, ApplyTx(r)
         PROVE  TypeOK'
    <2> DEFINE t == Head(selected)
    <2>1. t \in Tx /\ t.sender \in Sender /\ Tail(selected) \in Seq(Tx)
      <3>1. selected \in Seq(Tx) /\ selected # <<>>
        BY <1>11 DEF ApplyTx, TypeOK
      <3>2. t \in Tx /\ Tail(selected) \in Seq(Tx)
        BY <3>1, HeadAndTail
      <3>3. QED
        BY <3>2, TxFields
    <2>2. balance[t.sender] \in Int /\ paid[t.sender] \in Int
      BY <2>1, RequestAssumption DEF TypeOK
    <2>3. PICK used \in 0 .. t.gas_limit, credit \in Nat, logs \in BOOLEAN :
            /\ nonce' = [nonce EXCEPT ![t.sender] = @ + 1]
            /\ balance' = [balance EXCEPT ![t.sender] =
                  (@ - max_gas_cost(t) + credit + refund_amount(t, used)) % WordMod]
            /\ paid' = [paid EXCEPT ![t.sender] =
                  @ + used * t.max_fee_per_gas - credit]
            /\ event' = IF logs THEN LogEvent(block_number) ELSE event
      BY Zenon, <1>11, RequestAssumption DEF ApplyTx
    <2>4. /\ (balance[t.sender] - max_gas_cost(t) + credit
                + refund_amount(t, used)) % WordMod \in 0 .. (WordMod - 1)
          /\ paid[t.sender] + used * t.max_fee_per_gas - credit \in Int
      <3>1. max_gas_cost(t) \in Int /\ refund_amount(t, used) \in Int
        <4>1. /\ t.gas_limit * t.max_fee_per_gas \in Int
              /\ (t.gas_limit - used) * t.max_fee_per_gas \in Int
          BY <2>1, TxFields
        <4>2. QED
          BY <4>1, WordRemainder DEF max_gas_cost, refund_amount
      <3>2. used * t.max_fee_per_gas \in Int
        BY <2>1, TxFields
      <3>3. QED
        <4> DEFINE sum == balance[t.sender] - max_gas_cost(t) + credit
                            + refund_amount(t, used)
                   spent == used * t.max_fee_per_gas
        <4>1. sum \in Int
          BY <2>2, <3>1
        <4>2. sum % WordMod \in 0 .. (WordMod - 1)
          <5> HIDE DEF sum
          <5>1. QED
            BY <4>1, WordRemainder
        <4>3. paid[t.sender] + spent - credit \in Int
          <5>1. spent \in Int
            BY <3>2
          <5> HIDE DEF spent
          <5>2. QED
            BY <2>2, <5>1
        <4>4. QED
          BY <4>2, <4>3
    <2> HIDE DEF t
    <2>5. /\ nonce' \in [Sender -> Nat]
          /\ balance' \in [Sender -> 0 .. (WordMod - 1)]
          /\ paid' \in [Sender -> Int]
      <3> DEFINE left == (balance[t.sender] - max_gas_cost(t) + credit
                            + refund_amount(t, used)) % WordMod
                 cost == paid[t.sender] + used * t.max_fee_per_gas - credit
      <3>1. /\ balance \in [Sender -> 0 .. (WordMod - 1)]
            /\ paid \in [Sender -> Int]
            /\ nonce \in [Sender -> Nat]
        BY DEF TypeOK
      <3>2. /\ balance' = [balance EXCEPT ![t.sender] = left]
            /\ paid' = [paid EXCEPT ![t.sender] = cost]
        BY <2>3
      <3>3. left \in 0 .. (WordMod - 1) /\ cost \in Int
        BY <2>4
      <3> HIDE DEF left, cost
      <3>4. QED
        BY <2>1, <2>3, <3>1, <3>2, <3>3
    <2>6. event' \in Event
      BY <2>3 DEF TypeOK, LogEvent, Event
    <2>7. receipts' \subseteq Tx /\ selected' \in Seq(Tx)
      BY <1>11, <2>1 DEF ApplyTx, TypeOK, t
    <2>8. QED
      BY Zenon, <1>11, <2>5, <2>6, <2>7 DEF ApplyTx, TypeOK
  <1>12. ASSUME NEW r \in Request, Abandon(r),
                \/ pc' = [pc EXCEPT ![r] = "failed"]
                \/ pc' = [pc EXCEPT ![r] = "dropped"]
         PROVE  TypeOK'
    <2>1. pc' \in [Request -> Label] /\ (\A q \in Request :
            pc'[q] = "insert" => pc[q] = "insert")
      BY Zenon, <1>12 DEF TypeOK, Label
    <2>2. seen' \in [Request -> SUBSET Sender]
      BY <1>12 DEF Abandon, TypeOK
    <2>3. failed_blocks' \subseteq Nat /\ selected' \in Seq(Tx)
      BY <1>12 DEF Abandon, TypeOK
    <2>4. QED
      BY Zenon, <1>12, <2>1, <2>2, <2>3 DEF Abandon, TypeOK, Holder
  <1>13. ASSUME NEW r \in Request, StoreRoot(r)
         PROVE  TypeOK'
    BY <1>13 DEF StoreRoot, TypeOK, Label, Accounts
  <1>14. ASSUME NEW r \in Request, PublishHead(r)
         PROVE  TypeOK'
    BY <1>14 DEF PublishHead, TypeOK, Label, Holder, NewHeadEvent, Event
  <1>15. ASSUME NEW r \in Request, HangUp(r)
         PROVE  TypeOK'
    <2>1. CASE pc[r] \in {"state", "number"}
      BY Zenon, <1>15, <2>1 DEF HangUp, TypeOK, Label, Holder
    <2>2. CASE Abandon(r)
      BY Zenon, <1>12, <1>15, <2>2 DEF HangUp
    <2>3. QED
      BY <1>15, <2>1, <2>2 DEF HangUp
  <1>16. ASSUME NEW r \in Request, evm_mine(r)
         PROVE  TypeOK'
    BY <1>16 DEF evm_mine, TypeOK, Label
  <1>17. ASSUME NEW r \in Request, ReadNumber(r)
         PROVE  TypeOK'
    BY <1>17 DEF ReadNumber, TypeOK, Label
  <1>18. ASSUME NEW r \in Request, ReadRoot(r)
         PROVE  TypeOK'
    BY <1>18 DEF ReadRoot, TypeOK, Label
  <1>19. ASSUME NEW enabled \in AutoMineValues, set_auto_mine(enabled)
         PROVE  TypeOK'
    BY <1>19, RequestAssumption DEF set_auto_mine, TypeOK
  <1>20. CASE UNCHANGED vars
    BY <1>20 DEF vars, TypeOK
  <1>21. QED
    BY <1>1, <1>2, <1>3, <1>4, <1>5, <1>6, <1>7, <1>8, <1>9, <1>10, <1>11,
       <1>12, <1>13, <1>14, <1>15, <1>16, <1>17, <1>18, <1>19, <1>20
    DEF Next, Step, ApplyFails

\* Every variable keeps its type.
THEOREM TypeCorrect == Spec => []TypeOK
  <1>1. Init => TypeOK
    BY RequestAssumption
    DEF Init, TypeOK, EmptyPool, Pool, NoNonces, NoEvent, Event, Label, Holder
  <1>2. TypeOK /\ [Next]_vars => TypeOK'
    BY TypeStep
  <1>3. QED
    BY <1>1, <1>2, PTL DEF Spec

-----------------------------------------------------------------------------

\* What the execution of transaction t does to receipts and accounts.
Executes(t) ==
    /\ nonce[t.sender] = t.nonce
    /\ balance[t.sender] >= total_upfront_cost(t)
    /\ nonce' = [nonce EXCEPT ![t.sender] = @ + 1]
    /\ receipts' = receipts \cup {t}
    /\ \E used \in 0 .. t.gas_limit, credit \in Nat :
         /\ balance' = [balance EXCEPT ![t.sender] =
               (@ - max_gas_cost(t) + credit + refund_amount(t, used)) % WordMod]
         /\ paid' = [paid EXCEPT ![t.sender] =
               @ + used * t.max_fee_per_gas - credit]

\* Executing the next transaction of a block adds its receipt, counts its nonce
\* and charges its sender; every other step leaves receipts and accounts alone.
LEMMA OnlyApplyExecutes ==
    ASSUME TypeOK, [Next]_vars
    PROVE  \/ UNCHANGED <<nonce, receipts, balance, paid>>
           \/ \E t \in Tx : Executes(t)
  <1>1. ASSUME NEW r \in Request, ApplyTx(r)
        PROVE  \E t \in Tx : Executes(t)
    <2> DEFINE t == Head(selected)
    <2>1. t \in Tx
      <3>1. selected \in Seq(Tx) /\ selected # <<>>
        BY <1>1 DEF ApplyTx, TypeOK
      <3>2. QED
        BY <3>1, HeadAndTail
    <2>2. /\ nonce[t.sender] = t.nonce
          /\ balance[t.sender] >= total_upfront_cost(t)
          /\ nonce' = [nonce EXCEPT ![t.sender] = @ + 1]
          /\ receipts' = receipts \cup {t}
      BY Zenon, <1>1 DEF ApplyTx, Applicable
    <2>3. \E used \in 0 .. t.gas_limit, credit \in Nat :
            /\ balance' = [balance EXCEPT ![t.sender] =
                  (@ - max_gas_cost(t) + credit + refund_amount(t, used)) % WordMod]
            /\ paid' = [paid EXCEPT ![t.sender] =
                  @ + used * t.max_fee_per_gas - credit]
      BY Zenon, <1>1, RequestAssumption DEF ApplyTx
    <2>4. Executes(t)
      BY Zenon, <2>2, <2>3 DEF Executes
    <2>5. QED
      BY <2>1, <2>4
  <1>2. CASE UNCHANGED vars
    BY <1>2 DEF vars
  <1>3. ASSUME NEW r \in Request, Step(r), ~ApplyTx(r)
        PROVE  UNCHANGED <<nonce, receipts, balance, paid>>
    BY Zenon, <1>3
    DEF Step, InsertTx, AnnouncePending, CheckAutoMine, ReadSenders, LockState,
        StartBlock, PopNext, PopDone, LockReceipts, ApplyFails, Abandon,
        StoreRoot, PublishHead, ReadRoot
  <1>4. ASSUME NEW r \in Request,
               \/ \E t \in Tx : ReadNonce(r, t)
               \/ evm_mine(r) \/ ReadNumber(r) \/ HangUp(r)
        PROVE  UNCHANGED <<nonce, receipts, balance, paid>>
    BY Zenon, <1>4 DEF ReadNonce, evm_mine, ReadNumber, HangUp, Abandon
  <1>5. ASSUME NEW enabled \in AutoMineValues, set_auto_mine(enabled)
        PROVE  UNCHANGED <<nonce, receipts, balance, paid>>
    BY <1>5 DEF set_auto_mine
  <1>6. QED
    BY <1>1, <1>2, <1>3, <1>4, <1>5 DEF Next

\* Receipts and nonces stay in step: Spec implies []NonceCountsReceipts.  The
\* second conjunct is what makes the first one inductive: receipts never exceed
\* the nonce, so the transaction executed next is not among them.
THEOREM NonceCounts == Spec => []NonceCountsReceipts
  <1> DEFINE Counted(s) == {t.nonce : t \in {u \in receipts : u.sender = s}}
             Inv == NonceCountsReceipts /\ \A s \in Sender : InitNonce[s] <= nonce[s]
  <1>1. Init => Inv
    <2> SUFFICES ASSUME receipts = {}, nonce = InitNonce
                 PROVE  Inv
      BY DEF Init
    <2>1. ASSUME NEW s \in Sender
          PROVE  /\ Counted(s) = InitNonce[s] .. (nonce[s] - 1)
                 /\ InitNonce[s] <= nonce[s]
      <3>1. Counted(s) = {}
        OBVIOUS
      <3>2. InitNonce[s] \in Nat
        BY RequestAssumption
      <3>3. QED
        BY <3>1, <3>2
    <2>2. QED
      BY <2>1 DEF NonceCountsReceipts
  <1>2. TypeOK /\ Inv /\ [Next]_vars => Inv'
    <2> SUFFICES ASSUME TypeOK, Inv, [Next]_vars
                 PROVE  Inv'
      OBVIOUS
    <2>1. CASE UNCHANGED <<nonce, receipts, balance, paid>>
      BY <2>1 DEF NonceCountsReceipts
    <2>2. ASSUME NEW t \in Tx,
                 nonce[t.sender] = t.nonce,
                 nonce' = [nonce EXCEPT ![t.sender] = @ + 1],
                 receipts' = receipts \cup {t}
          PROVE  Inv'
      <3>1. /\ t.sender \in Sender
            /\ t.nonce \in Nat
            /\ nonce \in [Sender -> Nat]
            /\ InitNonce \in [Sender -> Nat]
        BY TxFields, RequestAssumption DEF TypeOK
      <3>2. ASSUME NEW s \in Sender
            PROVE  Counted(s)' = InitNonce[s] .. (nonce'[s] - 1)
        <4>1. Counted(s) = InitNonce[s] .. (nonce[s] - 1)
          BY DEF NonceCountsReceipts
        <4>2. CASE s = t.sender
          <5>1. Counted(s)' = Counted(s) \cup {t.nonce}
            BY <2>2, <4>2
          <5>2. nonce'[s] = nonce[s] + 1 /\ nonce[s] = t.nonce
            BY <2>2, <3>1, <4>2
          <5>3. InitNonce[s] <= nonce[s] /\ InitNonce[s] \in Nat /\ nonce[s] \in Nat
            BY <3>1
          <5>4. QED
            BY <4>1, <5>1, <5>2, <5>3
        <4>3. CASE s # t.sender
          <5>1. Counted(s)' = Counted(s)
            BY <2>2, <4>3
          <5>2. nonce'[s] = nonce[s]
            BY <2>2, <3>1, <4>3
          <5>3. QED
            BY <4>1, <5>1, <5>2
        <4>4. QED
          BY <4>2, <4>3
      <3>3. ASSUME NEW u \in receipts, u.sender = t.sender
            PROVE  u.nonce # t.nonce
        <4>1. u.nonce \in Counted(t.sender)
          BY <3>3
        <4>2. u.nonce \in InitNonce[t.sender] .. (nonce[t.sender] - 1)
          BY <3>1, <4>1 DEF NonceCountsReceipts
        <4>3. QED
          BY <2>2, <3>1, <4>2
      <3>4. \A u, v \in receipts' :
                u.sender = v.sender /\ u.nonce = v.nonce => u = v
        BY <2>2, <3>3 DEF NonceCountsReceipts
      <3>5. \A s \in Sender : InitNonce[s] <= nonce'[s]
        BY <2>2, <3>1
      <3>6. QED
        BY <3>2, <3>4, <3>5 DEF NonceCountsReceipts
    <2>3. QED
      BY <2>1, <2>2, OnlyApplyExecutes DEF Executes
  <1>3. Inv => NonceCountsReceipts
    OBVIOUS
  <1>4. QED
    BY <1>1, <1>2, <1>3, TypeCorrect, PTL DEF Spec

\* A sender whose transactions fit in a word has paid for the gas they used, and
\* never more than it had: Spec implies []BalancesAccountedFor, which is inductive.
THEOREM Balances == Spec => []BalancesAccountedFor
  <1>1. Init => BalancesAccountedFor
    <2> SUFFICES ASSUME balance = InitBalance, paid = [s \in Sender |-> 0],
                        NEW s \in Sender
                 PROVE  /\ balance[s] = (InitBalance[s] - paid[s]) % WordMod
                        /\ paid[s] + balance[s] <= InitBalance[s]
      BY DEF Init, BalancesAccountedFor
    <2>1. InitBalance[s] \in 0 .. (WordMod - 1)
      BY RequestAssumption
    <2>2. WordMod \in Nat
      BY RequestAssumption
    <2>3. InitBalance[s] \in Int /\ 0 <= InitBalance[s] /\ InitBalance[s] < WordMod
      BY <2>1, <2>2
    <2>4. InitBalance[s] % WordMod = InitBalance[s]
      BY <2>3, WordRemainder
    <2>5. InitBalance[s] - paid[s] = InitBalance[s] /\ paid[s] = 0
      BY <2>3
    <2>6. QED
      BY <2>3, <2>4, <2>5
  <1>2. TypeOK /\ BalancesAccountedFor /\ [Next]_vars => BalancesAccountedFor'
    <2> SUFFICES ASSUME TypeOK, BalancesAccountedFor, [Next]_vars
                 PROVE  BalancesAccountedFor'
      OBVIOUS
    <2>1. CASE UNCHANGED <<nonce, receipts, balance, paid>>
      BY <2>1 DEF BalancesAccountedFor
    <2>2. ASSUME NEW t \in Tx, Executes(t)
          PROVE  BalancesAccountedFor'
      <3> SUFFICES ASSUME NEW s \in Sender,
                          \A u \in receipts' : u.sender = s => Fits(u)
                   PROVE  /\ balance'[s] = (InitBalance[s] - paid'[s]) % WordMod
                          /\ paid'[s] + balance'[s] <= InitBalance[s]
        BY DEF BalancesAccountedFor
      <3>1. /\ balance[s] = (InitBalance[s] - paid[s]) % WordMod
            /\ paid[s] + balance[s] <= InitBalance[s]
        BY <2>2 DEF Executes, BalancesAccountedFor
      <3>2. t.sender \in Sender
        BY TxFields
      <3>3. PICK used \in 0 .. t.gas_limit, credit \in Nat :
              /\ balance' = [balance EXCEPT ![t.sender] =
                    (@ - max_gas_cost(t) + credit + refund_amount(t, used)) % WordMod]
              /\ paid' = [paid EXCEPT ![t.sender] =
                    @ + used * t.max_fee_per_gas - credit]
        BY Zenon, <2>2 DEF Executes
      <3>4. CASE s # t.sender
        <4>1. balance'[s] = balance[s] /\ paid'[s] = paid[s]
          BY <3>2, <3>3, <3>4 DEF TypeOK
        <4>2. QED
          BY <3>1, <4>1
      <3>5. CASE s = t.sender
        <4> DEFINE spent == used * t.max_fee_per_gas
        <4>1. balance[s] \in 0 .. (WordMod - 1) /\ paid[s] \in Int
          BY DEF TypeOK
        <4>2. Fits(t)
          BY <2>2, <3>5 DEF Executes
        <4>3. balance[s] >= total_upfront_cost(t)
          BY <2>2, <3>5 DEF Executes
        <4>4. /\ spent \in 0 .. balance[s]
              /\ balance[s] - max_gas_cost(t) + refund_amount(t, used)
                   = balance[s] - spent
          BY <4>1, <4>2, <4>3, FeeCovered
        <4>5. max_gas_cost(t) \in Int /\ refund_amount(t, used) \in Int
          <5>1. /\ t.gas_limit * t.max_fee_per_gas \in Int
                /\ (t.gas_limit - used) * t.max_fee_per_gas \in Int
            BY TxFields
          <5>2. QED
            BY <5>1, WordRemainder DEF max_gas_cost, refund_amount
        <4>6. paid'[s] = paid[s] + spent - credit
          BY <3>2, <3>3, <3>5 DEF TypeOK
        <4>7. balance'[s] = (balance[s] - max_gas_cost(t) + credit
                               + refund_amount(t, used)) % WordMod
          BY <3>2, <3>3, <3>5 DEF TypeOK
        <4> HIDE DEF spent
        <4>8. balance[s] \in Int /\ spent \in Int /\ InitBalance[s] \in Int
          BY <4>1, <4>4, RequestAssumption
        <4>9. balance[s] - max_gas_cost(t) + credit + refund_amount(t, used)
                = balance[s] + (credit - spent)
          BY <4>4, <4>5, <4>8
        <4>10. balance'[s] = (balance[s] + (credit - spent)) % WordMod
          BY <4>7, <4>9
        <4>11. balance'[s] = (InitBalance[s] - paid'[s]) % WordMod
          <5>1. InitBalance[s] - paid[s] \in Int /\ credit - spent \in Int
            BY <4>1, <4>8
          <5>2. (((InitBalance[s] - paid[s]) % WordMod) + (credit - spent)) % WordMod
                  = ((InitBalance[s] - paid[s]) + (credit - spent)) % WordMod
            BY <5>1, ReduceFirst
          <5>3. (InitBalance[s] - paid[s]) + (credit - spent) = InitBalance[s] - paid'[s]
            BY <4>1, <4>6, <4>8
          <5>4. QED
            BY Zenon, <3>1, <4>10, <5>2, <5>3
        <4>12. balance'[s] <= balance[s] + (credit - spent)
          <5>1. 0 <= balance[s] + (credit - spent)
            BY <4>1, <4>4, <4>8
          <5>2. ASSUME NEW x \in Nat PROVE x % WordMod <= x
            BY RequestAssumption
          <5>3. balance[s] + (credit - spent) \in Nat
            BY <4>8, <5>1
          <5>4. QED
            BY <4>10, <5>2, <5>3
        <4>13. balance'[s] \in Int
          <5>1. balance[s] + (credit - spent) \in Int
            BY <4>8
          <5>2. QED
            BY <4>10, <5>1, WordRemainder
        <4>14. paid'[s] + balance'[s] <= InitBalance[s]
          BY <3>1, <4>1, <4>6, <4>8, <4>12, <4>13
        <4>15. QED
          BY <4>11, <4>14
      <3>6. QED
        BY <3>4, <3>5
    <2>3. QED
      BY <2>1, <2>2, OnlyApplyExecutes
  <1>3. QED
    BY <1>1, <1>2, TypeCorrect, PTL DEF Spec

-----------------------------------------------------------------------------

InFlight == {selected[i] : i \in DOMAIN selected}

\* No accepted transaction disappears while no block fails: Spec implies
\* []AcceptedAccountedFor.
THEOREM Accepted == Spec => []AcceptedAccountedFor
  <1>1. Init => AcceptedAccountedFor
    BY DEF Init, AcceptedAccountedFor
  <1>2. TypeOK /\ AcceptedAccountedFor /\ [Next]_vars => AcceptedAccountedFor'
    <2> SUFFICES ASSUME TypeOK, AcceptedAccountedFor, [Next]_vars
                 PROVE  AcceptedAccountedFor'
      OBVIOUS
    <2>1. CASE UNCHANGED <<by_sender, selected, receipts, accepted, failed_blocks>>
      BY <2>1 DEF AcceptedAccountedFor, pending
    <2>2. ASSUME NEW r \in Request, InsertTx(r)
          PROVE  AcceptedAccountedFor'
      <3>1. CASE UNCHANGED <<by_sender, accepted>>
        BY <2>1, <2>2, <3>1 DEF InsertTx
      <3>2. CASE /\ by_sender' = Insert(by_sender, tx[r])
                 /\ accepted' = accepted \cup {tx[r]}
        <4>1. tx[r] \in Tx /\ tx[r].sender \in Sender
          BY <2>2, TxFields DEF InsertTx, TypeOK
        <4>2. pending(by_sender') = pending(by_sender) \cup {tx[r]}
          <5>1. by_sender \in [Sender -> SUBSET Tx]
            BY DEF TypeOK, Pool
          <5>2. \A s \in Sender : by_sender'[s] =
                    IF s = tx[r].sender THEN by_sender[s] \cup {tx[r]}
                                        ELSE by_sender[s]
            BY <3>2, <5>1 DEF Insert
          <5>3. ASSUME NEW u
                PROVE  u \in pending(by_sender') <=> u \in pending(by_sender) \cup {tx[r]}
            <6>1. (\E s \in Sender : u \in by_sender'[s])
                    <=> (\E s \in Sender : u \in by_sender[s]) \/ u = tx[r]
              BY Zenon, <4>1, <5>2
            <6>2. u \in pending(by_sender') <=> \E s \in Sender : u \in by_sender'[s]
              BY InPending
            <6>3. u \in pending(by_sender) <=> \E s \in Sender : u \in by_sender[s]
              BY InPending
            <6>4. QED
              BY <6>1, <6>2, <6>3
          <5>4. QED
            BY <5>3
        <4>3. UNCHANGED <<selected, receipts, failed_blocks>>
          BY <2>2 DEF InsertTx
        <4>4. QED
          BY <3>2, <4>2, <4>3 DEF AcceptedAccountedFor
      <3>3. QED
        BY <2>2, <3>1, <3>2 DEF InsertTx
    <2>3. ASSUME NEW r \in Request, PopNext(r)
          PROVE  AcceptedAccountedFor'
      <3>1. PICK t \in Best(by_sender, active_nonces, gas_used) :
              /\ by_sender' = Remove(by_sender, t)
              /\ selected' = Append(selected, t)
        BY <2>3 DEF PopNext
      <3>2. t \in Tx /\ t.sender \in Sender
        BY BestIsPending, TxFields DEF TypeOK
      <3>3. pending(by_sender) \subseteq pending(by_sender') \cup {t}
        <4>1. by_sender \in [Sender -> SUBSET Tx]
          BY DEF TypeOK, Pool
        <4>2. QED
          BY <3>1, <3>2, <4>1 DEF pending, Remove
      <3>4. InFlight \cup {t} \subseteq InFlight'
        <4>1. /\ DOMAIN selected \subseteq DOMAIN selected'
              /\ \A i \in DOMAIN selected : selected'[i] = selected[i]
              /\ Len(selected) + 1 \in DOMAIN selected'
              /\ selected'[Len(selected) + 1] = t
          <5>1. selected \in Seq(Tx)
            BY DEF TypeOK
          <5>2. QED
            BY <3>1, <3>2, <5>1
        <4>2. QED
          BY <4>1 DEF InFlight
      <3>5. QED
        BY <2>3, <3>3, <3>4 DEF PopNext, AcceptedAccountedFor, InFlight
    <2>4. ASSUME NEW r \in Request, ApplyTx(r)
          PROVE  AcceptedAccountedFor'
      <3>1. selected \in Seq(Tx) /\ selected # <<>> /\ selected' = Tail(selected)
        BY Zenon, <2>4 DEF ApplyTx, TypeOK
      <3>2. InFlight \subseteq InFlight' \cup {Head(selected)}
        <4>1. ASSUME NEW i \in DOMAIN selected
              PROVE  selected[i] \in InFlight' \cup {Head(selected)}
          <5>1. CASE i = 1
            BY <3>1, <5>1
          <5>2. CASE i # 1
            <6>1. i - 1 \in DOMAIN selected' /\ selected'[i - 1] = selected[i]
              BY <3>1, <5>2
            <6>2. QED
              BY <6>1 DEF InFlight
          <5>3. QED
            BY <5>1, <5>2
        <4>2. QED
          BY <4>1 DEF InFlight
      <3>3. /\ receipts' = receipts \cup {Head(selected)}
            /\ UNCHANGED <<by_sender, accepted, failed_blocks>>
        BY <2>4 DEF ApplyTx
      <3>4. pending(by_sender)' = pending(by_sender)
        BY <3>3 DEF pending
      <3>5. QED
        BY <3>2, <3>3, <3>4 DEF AcceptedAccountedFor, InFlight
    <2>5. ASSUME NEW r \in Request, Abandon(r)
          PROVE  AcceptedAccountedFor'
      BY <2>5 DEF Abandon, AcceptedAccountedFor
    <2>6. ASSUME NEW r \in Request, Step(r), ~InsertTx(r), ~PopNext(r),
                 ~ApplyTx(r), ~ApplyFails(r)
          PROVE  UNCHANGED <<by_sender, selected, receipts, accepted, failed_blocks>>
      BY Zenon, <2>6
      DEF Step, AnnouncePending, CheckAutoMine, ReadSenders, LockState,
          StartBlock, PopDone, LockReceipts, StoreRoot, PublishHead, ReadRoot
    <2>7. ASSUME NEW r \in Request,
                 \/ \E t \in Tx : ReadNonce(r, t)
                 \/ evm_mine(r) \/ ReadNumber(r)
          PROVE  UNCHANGED <<by_sender, selected, receipts, accepted, failed_blocks>>
      BY Zenon, <2>7 DEF ReadNonce, evm_mine, ReadNumber
    <2>8. ASSUME NEW r \in Request, HangUp(r)
          PROVE  \/ Abandon(r)
                 \/ UNCHANGED <<by_sender, selected, receipts, accepted,
                                failed_blocks>>
      BY <2>8 DEF HangUp
    <2>9. ASSUME NEW enabled \in AutoMineValues, set_auto_mine(enabled)
          PROVE  UNCHANGED <<by_sender, selected, receipts, accepted, failed_blocks>>
      BY <2>9 DEF set_auto_mine
    <2>10. CASE UNCHANGED vars
      BY <2>1, <2>10 DEF vars
    <2>11. QED
      BY <2>1, <2>2, <2>3, <2>4, <2>5, <2>6, <2>7, <2>8, <2>9, <2>10
      DEF Next, ApplyFails
  <1>3. QED
    BY <1>1, <1>2, TypeCorrect, PTL DEF Spec

-----------------------------------------------------------------------------

\* The task that holds the state lock, or block_number's, is the one inside
\* mine_block, and it is where the locks it holds say.
LockInv ==
    \A r \in Request :
        /\ state_lock = r <=> pc[r] \in {"number", "pop", "receipts", "apply", "head"}
        /\ number_lock = r <=> pc[r] \in {"pop", "receipts", "apply", "head"}

\* The locks are taken and released where LockInv says.
LEMMA Locks == Spec => []LockInv
  <1>1. Init => LockInv
    BY NobodyIsNoRequest DEF Init, LockInv
  <1>2. TypeOK /\ LockInv /\ [Next]_vars => LockInv'
    <2> SUFFICES ASSUME TypeOK, LockInv, [Next]_vars
                 PROVE  LockInv'
      OBVIOUS
    <2>a. pc \in [Request -> Label]
      BY DEF TypeOK
    <2> USE NobodyIsNoRequest, <2>a DEF LockInv
    <2>1. ASSUME NEW r \in Request, NEW t \in Tx, ReadNonce(r, t)
          PROVE  LockInv'
      BY Zenon, <2>1 DEF ReadNonce
    <2>2. ASSUME NEW r \in Request, InsertTx(r)
          PROVE  LockInv'
      BY Zenon, <2>2 DEF InsertTx
    <2>3. ASSUME NEW r \in Request, AnnouncePending(r)
          PROVE  LockInv'
      BY <2>3 DEF AnnouncePending
    <2>4. ASSUME NEW r \in Request, CheckAutoMine(r)
          PROVE  LockInv'
      BY <2>4 DEF CheckAutoMine
    <2>5. ASSUME NEW r \in Request, ReadSenders(r)
          PROVE  LockInv'
      BY <2>5 DEF ReadSenders
    <2>6. ASSUME NEW r \in Request, LockState(r)
          PROVE  LockInv'
      BY <2>6 DEF LockState
    <2>7. ASSUME NEW r \in Request, StartBlock(r)
          PROVE  LockInv'
      BY <2>7 DEF StartBlock
    <2>8. ASSUME NEW r \in Request, PopNext(r)
          PROVE  LockInv'
      BY <2>8 DEF PopNext
    <2>9. ASSUME NEW r \in Request, PopDone(r)
          PROVE  LockInv'
      BY <2>9 DEF PopDone
    <2>10. ASSUME NEW r \in Request, LockReceipts(r)
          PROVE  LockInv'
      BY <2>10 DEF LockReceipts
    <2>11. ASSUME NEW r \in Request, ApplyTx(r)
          PROVE  LockInv'
      BY Zenon, <2>11 DEF ApplyTx
    <2>12. ASSUME NEW r \in Request, ApplyFails(r)
          PROVE  LockInv'
      BY <2>12 DEF ApplyFails, Abandon
    <2>13. ASSUME NEW r \in Request, StoreRoot(r)
          PROVE  LockInv'
      BY <2>13 DEF StoreRoot
    <2>14. ASSUME NEW r \in Request, PublishHead(r)
          PROVE  LockInv'
      BY <2>14 DEF PublishHead
    <2>15. ASSUME NEW r \in Request, HangUp(r)
          PROVE  LockInv'
      <3>1. pc' = [pc EXCEPT ![r] = "dropped"]
        BY <2>15 DEF HangUp
      <3>2. CASE /\ pc[r] \in {"state", "number"}
                 /\ state_lock' = IF pc[r] = "number" THEN Nobody ELSE state_lock
                 /\ number_lock' = number_lock
        BY <3>1, <3>2
      <3>3. CASE /\ pc[r] \in {"receipts", "apply"}
                 /\ state_lock' = Nobody
                 /\ number_lock' = Nobody
        BY <3>1, <3>3
      <3>4. QED
        BY Zenon, <2>15, <3>2, <3>3 DEF HangUp, Abandon
    <2>16. ASSUME NEW r \in Request, evm_mine(r)
          PROVE  LockInv'
      BY <2>16 DEF evm_mine
    <2>17. ASSUME NEW r \in Request, ReadNumber(r)
          PROVE  LockInv'
      BY <2>17 DEF ReadNumber
    <2>18. ASSUME NEW r \in Request, ReadRoot(r)
          PROVE  LockInv'
      BY <2>18 DEF ReadRoot
    <2>19. ASSUME NEW enabled \in AutoMineValues, set_auto_mine(enabled)
          PROVE  LockInv'
      BY <2>19 DEF set_auto_mine
    <2>20. CASE UNCHANGED vars
      BY Zenon, <2>20 DEF vars
    <2>21. QED
      BY Zenon, <2>1, <2>2, <2>3, <2>4, <2>5, <2>6, <2>7, <2>8, <2>9, <2>10, <2>11,
         <2>12, <2>13, <2>14, <2>15, <2>16, <2>17, <2>18, <2>19, <2>20
      DEF Next, Step
  <1>3. QED
    BY <1>1, <1>2, TypeCorrect, PTL DEF Spec

=============================================================================
