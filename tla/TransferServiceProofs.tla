----------------------- MODULE TransferServiceProofs -----------------------
(***************************************************************************)
(* Theorems about TransferService, for every set of requests, accounts and *)
(* orders, every pool size and every number of crashes.                    *)
(***************************************************************************)
EXTENDS TransferService, FunctionSums, TLAPS

-----------------------------------------------------------------------------
(* The inductive invariant, in four parts.                                 *)

\* The arguments of a call and the account it pays.
Placed ==
    \A r \in Requests :
        /\ pc[r] = "idle" <=> order[r] = None
        /\ pc[r] # "idle" /\ order[r].op = "transfer" => dest[r] = order[r].to
        /\ pc[r] = "updateReceiver" => order[r].op = "transfer"
        /\ pc[r] \in {"insertAccount", "retryInsert"}
             => order[r].op = "fixedDeposit"
        /\ pc[r] \in {"insertDebit", "insertCredit", "commit"}
             => dest[r] \in Accounts

\* The states in which every row of LockSet is locked, and those in which the
\* first, and the second, balance is written.
LockedStates   == {"decide", "updateSender", "updateReceiver", "insertAccount",
                   "retryInsert", "insertDebit", "insertCredit", "commit"}
SenderWritten  == {"updateReceiver", "insertAccount", "retryInsert",
                   "insertDebit", "insertCredit", "commit"}
BothWritten    == {"insertDebit", "insertCredit", "commit"}

\* What was checked before the transaction stays true in it.
Checked ==
    \A r \in Requests : pc[r] \in TxStates \cup {"connect"} =>
        /\ owner[order[r].from] = order[r].user
        /\ order[r].op = "transfer" =>
             order[r].from # order[r].to /\ owner[order[r].to] # None

\* A row is locked from before it is read until its transaction ends, nobody
\* writes a row he has not locked, and so what was read stays current.
LockInv ==
    /\ Checked
    /\ clients = {r \in Requests : pc[r] \in TxStates \cup {"committed"}}
    /\ \A r \in Requests :
        /\ \A a \in Accounts : holder[a] = r => pc[r] \in TxStates \ {"begin"}
        /\ pc[r] \in LockedStates => \A a \in LockSet(r) : holder[a] = r
        /\ pc[r] \in BothWritten /\ order[r].op = "fixedDeposit" =>
             holder[dest[r]] = r /\ owner[dest[r]] = None
        /\ \A a \in Accounts : update[r][a] # None => holder[a] = r
        /\ \A a \in Accounts : insert[r][a] # None => holder[a] = r
        /\ \A a \in Accounts : holder[a] = r /\ owner[a] # None =>
             seen[r][a] = balance[a]

\* What a transaction has computed from what it read.
Computed(r) ==
    /\ IsFunded(r)
    /\ newSender[r] \in SenderBalances(r)
    /\ newReceiver[r] \in ReceiverBalances(r)

\* What it has written, statement by statement.
Written(r) ==
    \A a \in Accounts :
        /\ update[r][a] =
             IF pc[r] \in SenderWritten /\ a = order[r].from THEN newSender[r]
             ELSE IF pc[r] \in BothWritten /\ a = dest[r] THEN newReceiver[r]
             ELSE None
        /\ insert[r][a] =
             IF pc[r] \in {"insertCredit", "commit"} /\ a = order[r].from
               THEN Entry(r, "debit", dest[r], newSender[r])
             ELSE IF pc[r] = "commit" /\ a = dest[r]
               THEN Entry(r, "credit", order[r].from, newReceiver[r])
             ELSE None

WriteInv ==
    \A r \in Requests :
        /\ pc[r] \in SenderWritten \cup {"updateSender"} => Computed(r)
        /\ pc[r] # "rollback" => Written(r)

\* Whether the money has moved, told from where the request is.
PaidInv ==
    \A r \in Requests :
        /\ outcome[r] # "none" => pc[r] \in {"rollback", "done"}
        /\ pc[r] = "rollback" => outcome[r] # "none"
        /\ outcome[r] = "ok" => pc[r] = "done" /\ r \in Paid
        /\ outcome[r] = "rejected" => r \notin Paid
        /\ pc[r] \in {"committed", "evaluate"} => r \in Paid
        /\ r \in Paid => pc[r] \in {"committed", "evaluate", "done", "lost"}

IInv == TypeOK /\ Placed /\ LockInv /\ WriteInv /\ PaidInv

-----------------------------------------------------------------------------
(* Facts about the constants and the helpers.                              *)

LEMMA OrderFields ==
    ASSUME NEW o \in Orders
    PROVE  /\ o.op \in {"transfer", "fixedDeposit"}
           /\ o.user \in Users
           /\ o.from \in Accounts
           /\ o.amount \in Nat \ {0} /\ o.amount \in Amounts
           /\ o.op = "transfer" => o.to \in Accounts
           /\ o.op = "fixedDeposit" => o.to = None
           /\ o.to \in Accounts \cup {None}
           /\ o # None
  BY OrdersAssumption, AmountsAssumption, NoneAssumption DEF OrderType

LEMMA Roundings ==
    ASSUME NEW x \in Nat
    PROVE  /\ ToFixed(x) \subseteq Nat
           /\ Numeric(x) \in Nat
           /\ WholeCents(x) => ToFixed(x) = {x} /\ Numeric(x) = x
  BY DEF ToFixed, Numeric, WholeCents

\* Every action of a request, and the crash, by itself.
LEMMA Actions ==
    ASSUME Next
    PROVE  \/ \E r \in Requests :
                \/ \E o \in Orders : Submit(r, o)
                \/ Lookup(r) \/ NotConnected(r) \/ Connect(r) \/ Begin(r)
                \/ \E a \in Accounts : Lock(r, a)
                \/ Insufficient(r) \/ Decide(r) \/ UpdateSender(r)
                \/ UpdateReceiver(r)
                \/ \E a \in Accounts : InsertAccount(r, a)
                \/ NumberCollides(r) \/ RetryInsert(r) \/ InsertDebit(r)
                \/ InsertCredit(r) \/ Commit(r) \/ StatementFails(r)
                \/ Rollback(r) \/ Committed(r) \/ AnswerLost(r)
                \/ EvaluateTransfer(r)
           \/ Crash
  BY DEF Next, Proceed, Fail

-----------------------------------------------------------------------------
(* Type correctness.                                                       *)

LEMMA TypeInit == Init => TypeOK /\ Placed
  BY SeedAssumption, NoneAssumption
  DEF Init, TypeOK, Placed, States, TxStates, NoWrites, Nothing

\* The order of a request under way.
LEMMA PlacedOrder ==
    ASSUME TypeOK, Placed, NEW r \in Requests, pc[r] # "idle"
    PROVE  /\ order[r] \in Orders
           /\ order[r].op \in {"transfer", "fixedDeposit"}
           /\ order[r].user \in Users
           /\ order[r].from \in Accounts
           /\ order[r].amount \in Nat \ {0} /\ order[r].amount \in Amounts
           /\ order[r].op = "transfer" => order[r].to \in Accounts
  BY OrderFields DEF TypeOK, Placed

\* Funds checked under the lock leave no negative balance to write.
LEMMA BalancesAreNat ==
    ASSUME TypeOK, Placed, NEW r \in Requests, pc[r] # "idle", IsFunded(r)
    PROVE  SenderBalances(r) \subseteq Nat /\ ReceiverBalances(r) \subseteq Nat
  <1>0. /\ order[r].amount \in Nat
        /\ seen[r][order[r].from] \in Nat
        /\ order[r].op = "transfer" => seen[r][order[r].to] \in Nat
    <2>1. seen[r] \in [Accounts -> Nat]
      BY DEF TypeOK
    <2>. QED
      BY <2>1, PlacedOrder
  <1>1. seen[r][order[r].from] - order[r].amount \in Nat
    BY <1>0 DEF IsFunded
  <1>2. order[r].op = "transfer" => seen[r][order[r].to] + order[r].amount \in Nat
    BY <1>0
  <1>3. Numeric(order[r].amount) \in Nat
    BY PlacedOrder, Roundings
  <1>. QED
    BY <1>1, <1>2, <1>3, Roundings DEF SenderBalances, ReceiverBalances

\* The end of a transaction leaves its variables well typed.
LEMMA DiscardType ==
    ASSUME TypeOK, NEW r \in Requests, Discard(r)
    PROVE  /\ holder' \in [Accounts -> Requests \cup {None}]
           /\ update' \in [Requests -> [Accounts -> Nat \cup {None}]]
           /\ insert' \in [Requests -> [Accounts -> Row \cup {None}]]
           /\ seen' \in [Requests -> [Accounts -> Nat]]
           /\ newSender' \in [Requests -> Nat]
           /\ newReceiver' \in [Requests -> Nat]
  BY DEF TypeOK, Discard, NoWrites, Nothing

LEMMA TypeStep ==
    ASSUME TypeOK, Placed, [Next]_vars
    PROVE  TypeOK'
  <1> USE DEF TypeOK, States, TxStates
  <1>1. ASSUME NEW r \in Requests, NEW o \in Orders, Submit(r, o)
       PROVE  TypeOK'
    BY OrderFields, <1>1
    DEF Submit, Step, dbVars, txVars, localVars
  <1>2. ASSUME NEW r \in Requests, Lookup(r)
       PROVE  TypeOK'
    BY <1>2
    DEF Lookup, Finish, Step, dbVars, txVars, localVars
  <1>3. ASSUME NEW r \in Requests, NotConnected(r)
       PROVE  TypeOK'
    BY <1>3
    DEF NotConnected, Finish, Step, dbVars, txVars, localVars
  <1>4. ASSUME NEW r \in Requests, Connect(r)
       PROVE  TypeOK'
    BY <1>4
    DEF Connect, Step, dbVars, txVars, localVars
  <1>5. ASSUME NEW r \in Requests, Begin(r)
       PROVE  TypeOK'
    BY <1>5
    DEF Begin, Step, dbVars, txVars, localVars
  <1>6. ASSUME NEW r \in Requests, NEW a \in Accounts, Lock(r, a)
       PROVE  TypeOK'
    BY <1>6
    DEF Lock, IsNext, ToLock, LockSet, dbVars, txVars, localVars
  <1>7. ASSUME NEW r \in Requests, Insufficient(r)
       PROVE  TypeOK'
    BY <1>7
    DEF Insufficient, Step, dbVars, txVars, localVars
  <1>8. ASSUME NEW r \in Requests, Decide(r)
       PROVE  TypeOK'
    BY BalancesAreNat, <1>8 DEF Decide, Step, dbVars, txVars
  <1>9. ASSUME NEW r \in Requests, UpdateSender(r)
       PROVE  TypeOK'
    BY PlacedOrder, Roundings, <1>9
    DEF UpdateSender, Step, dbVars, txVars, localVars
  <1>10. ASSUME NEW r \in Requests, UpdateReceiver(r)
       PROVE  TypeOK'
    BY <1>10
    DEF UpdateReceiver, Step, dbVars, txVars, localVars
  <1>11. ASSUME NEW r \in Requests, NEW a \in Accounts, InsertAccount(r, a)
       PROVE  TypeOK'
    BY <1>11
    DEF InsertAccount, Step, dbVars, txVars, localVars
  <1>12. ASSUME NEW r \in Requests, NumberCollides(r)
       PROVE  TypeOK'
    BY <1>12
    DEF NumberCollides, Step, dbVars, txVars, localVars
  <1>13. ASSUME NEW r \in Requests, RetryInsert(r)
       PROVE  TypeOK'
    BY <1>13
    DEF RetryInsert, Step, dbVars, txVars, localVars
  <1>14. ASSUME NEW r \in Requests, InsertDebit(r)
       PROVE  TypeOK'
    BY PlacedOrder, Roundings, <1>14
    DEF InsertDebit, Step, Entry, dbVars, txVars, localVars, Placed, Row
  <1>15. ASSUME NEW r \in Requests, InsertCredit(r)
       PROVE  TypeOK'
    BY PlacedOrder, Roundings, <1>15
    DEF InsertCredit, Step, Entry, dbVars, txVars, localVars, Placed, Row
  <1>16. ASSUME NEW r \in Requests, Commit(r)
       PROVE  TypeOK'
    <2>1. balance' \in [Accounts -> Nat]
      BY <1>16 DEF Commit
    <2>2. rows' \in [Accounts -> Seq(Row)]
      BY <1>16 DEF Commit
    <2>3. /\ owner' \in [Accounts -> Users \cup {None}]
          /\ kind' \in [Accounts -> {"none", "savings", "fixedDeposit"}]
      BY PlacedOrder, <1>16 DEF Commit, Step
    <2>. QED
      BY <1>16, <2>1, <2>2, <2>3, DiscardType DEF Commit, Step
  <1>17. ASSUME NEW r \in Requests, StatementFails(r)
       PROVE  TypeOK'
    BY <1>17
    DEF StatementFails, Step, dbVars, txVars, localVars
  <1>18. ASSUME NEW r \in Requests, Rollback(r)
       PROVE  TypeOK'
    <2>1. /\ pc' \in [Requests -> States]
          /\ outcome' \in [Requests -> {"none", "ok", "rejected", "error"}]
      <3>1. PICK result \in {outcome[r], "error"} : Finish(r, "rollback", result)
        BY <1>18 DEF Rollback
      <3>2. result \in {"none", "ok", "rejected", "error"}
        OBVIOUS
      <3>. QED
        BY <3>1, <3>2 DEF Finish, Step
    <2>2. Discard(r)
      BY <1>18 DEF Rollback
    <2>3. UNCHANGED <<order, dbVars, at, dest, clock, crashes>>
      BY <1>18 DEF Rollback
    <2>4. clients' \subseteq Requests
      BY <1>18 DEF Rollback, Release
    <2>. QED
      BY <2>1, <2>2, <2>3, <2>4, DiscardType DEF dbVars
  <1>19. ASSUME NEW r \in Requests, Committed(r)
       PROVE  TypeOK'
    BY <1>19
    DEF Committed, Finish, Step, Release, dbVars, txVars, localVars
  <1>20. ASSUME NEW r \in Requests, AnswerLost(r)
       PROVE  TypeOK'
    BY <1>20
    DEF AnswerLost, Finish, Step, Release, dbVars, txVars, localVars
  <1>21. ASSUME NEW r \in Requests, EvaluateTransfer(r)
       PROVE  TypeOK'
    BY <1>21
    DEF EvaluateTransfer, Finish, Step, dbVars, txVars, localVars
  <1>22. ASSUME Crash PROVE TypeOK'
    BY <1>22 DEF Crash, dbVars, NoWrites, Nothing
  <1>23. CASE UNCHANGED vars
    BY <1>23 DEF vars, dbVars, txVars, localVars
  <1>. QED
    BY <1>1, <1>2, <1>3, <1>4, <1>5, <1>6, <1>7, <1>8, <1>9, <1>10, <1>11, <1>12, <1>13, <1>14, <1>15, <1>16, <1>17, <1>18, <1>19, <1>20, <1>21, <1>22, <1>23, Actions

LEMMA PlacedStep ==
    ASSUME TypeOK, Placed, [Next]_vars
    PROVE  Placed'
  <1> USE NoneAssumption DEF TypeOK, Placed
  <1>1. ASSUME NEW r \in Requests, NEW o \in Orders, Submit(r, o)
       PROVE  Placed'
    BY OrderFields, <1>1
    DEF Submit, Step
  <1>2. ASSUME NEW r \in Requests, Lookup(r)
       PROVE  Placed'
    BY <1>2
    DEF Lookup, Finish, Step
  <1>3. ASSUME NEW r \in Requests, NotConnected(r)
       PROVE  Placed'
    BY <1>3
    DEF NotConnected, Finish, Step
  <1>4. ASSUME NEW r \in Requests, Connect(r)
       PROVE  Placed'
    BY <1>4
    DEF Connect, Step
  <1>5. ASSUME NEW r \in Requests, Begin(r)
       PROVE  Placed'
    BY <1>5
    DEF Begin, Step
  <1>6. ASSUME NEW r \in Requests, NEW a \in Accounts, Lock(r, a)
       PROVE  Placed'
    BY <1>6
    DEF Lock, IsNext, ToLock, LockSet
  <1>7. ASSUME NEW r \in Requests, Insufficient(r)
       PROVE  Placed'
    BY <1>7
    DEF Insufficient, Step
  <1>8. ASSUME NEW r \in Requests, Decide(r)
       PROVE  Placed'
    BY <1>8
    DEF Decide, Step
  <1>9. ASSUME NEW r \in Requests, UpdateSender(r)
       PROVE  Placed'
    BY PlacedOrder, <1>9
    DEF UpdateSender, Step
  <1>10. ASSUME NEW r \in Requests, UpdateReceiver(r)
       PROVE  Placed'
    BY PlacedOrder, <1>10
    DEF UpdateReceiver, Step
  <1>11. ASSUME NEW r \in Requests, NEW a \in Accounts, InsertAccount(r, a)
       PROVE  Placed'
    BY <1>11
    DEF InsertAccount, Step
  <1>12. ASSUME NEW r \in Requests, NumberCollides(r)
       PROVE  Placed'
    BY <1>12
    DEF NumberCollides, Step
  <1>13. ASSUME NEW r \in Requests, RetryInsert(r)
       PROVE  Placed'
    BY <1>13
    DEF RetryInsert, Step
  <1>14. ASSUME NEW r \in Requests, InsertDebit(r)
       PROVE  Placed'
    BY <1>14
    DEF InsertDebit, Step, Entry
  <1>15. ASSUME NEW r \in Requests, InsertCredit(r)
       PROVE  Placed'
    BY <1>15
    DEF InsertCredit, Step, Entry
  <1>16. ASSUME NEW r \in Requests, Commit(r)
       PROVE  Placed'
    BY PlacedOrder, <1>16
    DEF Commit, Step, Discard
  <1>17. ASSUME NEW r \in Requests, StatementFails(r)
       PROVE  Placed'
    BY <1>17
    DEF StatementFails, Step
  <1>18. ASSUME NEW r \in Requests, Rollback(r)
       PROVE  Placed'
    BY <1>18
    DEF Rollback, Finish, Step, Discard, Release
  <1>19. ASSUME NEW r \in Requests, Committed(r)
       PROVE  Placed'
    BY <1>19
    DEF Committed, Finish, Step, Release
  <1>20. ASSUME NEW r \in Requests, AnswerLost(r)
       PROVE  Placed'
    BY <1>20
    DEF AnswerLost, Finish, Step, Release
  <1>21. ASSUME NEW r \in Requests, EvaluateTransfer(r)
       PROVE  Placed'
    BY <1>21
    DEF EvaluateTransfer, Finish, Step
  <1>22. ASSUME Crash PROVE Placed'
    BY <1>22 DEF Crash
  <1>23. CASE UNCHANGED vars
    BY <1>23 DEF vars
  <1>. QED
    BY <1>1, <1>2, <1>3, <1>4, <1>5, <1>6, <1>7, <1>8, <1>9, <1>10, <1>11, <1>12, <1>13, <1>14, <1>15, <1>16, <1>17, <1>18, <1>19, <1>20, <1>21, <1>22, <1>23, Actions

\* Type correctness: TypeOK holds in every reachable state.
THEOREM TypeCorrect == Spec => [](TypeOK /\ Placed)
  <1>1. TypeOK /\ Placed /\ [Next]_vars => (TypeOK /\ Placed)'
    BY TypeStep, PlacedStep
  <1>. QED
    BY TypeInit, <1>1, PTL DEF Spec

-----------------------------------------------------------------------------
(* Locks.                                                                  *)

LEMMA LockInit == Init => LockInv
  BY SeedAssumption, NoneAssumption
  DEF Init, LockInv, Checked, TxStates, LockedStates, BothWritten, NoWrites

\* The end of r's transaction frees r's rows and touches nobody else's.
LEMMA DiscardOthers ==
    ASSUME TypeOK, NEW r \in Requests, Discard(r)
    PROVE  /\ \A b \in Accounts :
                /\ holder'[b] # r
                /\ update'[r][b] = None
                /\ insert'[r][b] = None
           /\ \A q \in Requests \ {r} :
                /\ \A b \in Accounts : holder'[b] = q <=> holder[b] = q
                /\ update'[q] = update[q]
                /\ insert'[q] = insert[q]
                /\ seen'[q] = seen[q]
                /\ newSender'[q] = newSender[q]
                /\ newReceiver'[q] = newReceiver[q]
  BY NoneAssumption DEF TypeOK, Discard, NoWrites

\* At the second ledger row, and at COMMIT, both rows are r's.
LEMMA BothHeld ==
    ASSUME TypeOK, Placed, LockInv, NEW r \in Requests, pc[r] \in BothWritten
    PROVE  /\ dest[r] \in Accounts
           /\ order[r].from \in Accounts
           /\ holder[dest[r]] = r
           /\ holder[order[r].from] = r
           /\ dest[r] # order[r].from
           /\ owner[order[r].from] # None
  <1>1. /\ order[r].op \in {"transfer", "fixedDeposit"}
        /\ order[r].from \in Accounts
        /\ order[r].user \in Users
        /\ dest[r] \in Accounts
        /\ order[r].op = "transfer" => dest[r] = order[r].to
    BY PlacedOrder DEF Placed, BothWritten
  <1>. QED
    BY <1>1, NoneAssumption
    DEF LockInv, Checked, BothWritten, LockedStates, TxStates, LockSet

\* The rows a request locks are fixed with its order.
LEMMA LockSetKept ==
    ASSUME TypeOK, Placed, UNCHANGED order, NEW q \in Requests, pc[q] # "idle"
    PROVE  LockSet(q)' = LockSet(q) /\ LockSet(q) \subseteq Accounts
  <1>1. LockSet(q)' = LockSet(q)
    BY DEF LockSet
  <1>2. LockSet(q) \subseteq Accounts
    BY PlacedOrder DEF LockSet
  <1>. QED
    BY <1>1, <1>2

\* When r's transaction ends, every other request keeps its rows and its
\* writes, and r is left with none.
LEMMA EndOfTransaction ==
    ASSUME TypeOK, Placed, LockInv, NEW r \in Requests, Discard(r),
           NEW there \in {"committed", "done"},
           pc' = [pc EXCEPT ![r] = there], UNCHANGED order
    PROVE  \A q \in Requests :
             /\ \A a \in Accounts : holder'[a] = q => pc'[q] \in TxStates \ {"begin"}
             /\ pc'[q] \in LockedStates => \A a \in LockSet(q)' : holder'[a] = q
             /\ \A a \in Accounts : update'[q][a] # None => holder'[a] = q
             /\ \A a \in Accounts : insert'[q][a] # None => holder'[a] = q
  <1>. SUFFICES ASSUME NEW q \in Requests
                PROVE  /\ \A a \in Accounts : holder'[a] = q =>
                            pc'[q] \in TxStates \ {"begin"}
                       /\ pc'[q] \in LockedStates =>
                            \A a \in LockSet(q)' : holder'[a] = q
                       /\ \A a \in Accounts : update'[q][a] # None => holder'[a] = q
                       /\ \A a \in Accounts : insert'[q][a] # None => holder'[a] = q
    OBVIOUS
  <1>1. CASE q = r
    <2>1. pc'[q] = there
      BY <1>1 DEF TypeOK
    <2>2. there \notin LockedStates
      BY DEF LockedStates
    <2>. QED
      BY <1>1, <2>1, <2>2, DiscardOthers
  <1>2. CASE q # r
    <2>1. pc'[q] = pc[q]
      BY <1>2 DEF TypeOK
    <2>2. /\ \A a \in Accounts : holder'[a] = q <=> holder[a] = q
          /\ update'[q] = update[q] /\ insert'[q] = insert[q]
      BY <1>2, DiscardOthers
    <2>3. /\ \A a \in Accounts : holder[a] = q => pc[q] \in TxStates \ {"begin"}
          /\ pc[q] \in LockedStates => \A a \in LockSet(q) : holder[a] = q
          /\ \A a \in Accounts : update[q][a] # None => holder[a] = q
          /\ \A a \in Accounts : insert[q][a] # None => holder[a] = q
      BY DEF LockInv
    <2>4. pc[q] \in LockedStates =>
            LockSet(q)' = LockSet(q) /\ LockSet(q) \subseteq Accounts
      BY LockSetKept DEF LockedStates
    <2>. QED
      BY <1>2, <2>1, <2>2, <2>3, <2>4
  <1>. QED
    BY <1>1, <1>2

LEMMA LockStep ==
    ASSUME TypeOK, Placed, LockInv, [Next]_vars
    PROVE  LockInv'
  <1> USE NoneAssumption DEF TypeOK, LockInv, Checked, TxStates, LockedStates, BothWritten, LockSet
  <1>1. ASSUME NEW r \in Requests, NEW o \in Orders, Submit(r, o)
       PROVE  LockInv'
    BY <1>1
    DEF Submit, Step, dbVars, txVars, localVars
  <1>2. ASSUME NEW r \in Requests, Lookup(r)
       PROVE  LockInv'
    BY <1>2
    DEF Lookup, Refused, Finish, Step, dbVars, txVars, localVars
  <1>3. ASSUME NEW r \in Requests, NotConnected(r)
       PROVE  LockInv'
    BY <1>3
    DEF NotConnected, Finish, Step, dbVars, txVars, localVars
  <1>4. ASSUME NEW r \in Requests, Connect(r)
       PROVE  LockInv'
    BY <1>4
    DEF Connect, Step, dbVars, txVars, localVars
  <1>5. ASSUME NEW r \in Requests, Begin(r)
       PROVE  LockInv'
    BY <1>5
    DEF Begin, Step, dbVars, txVars, localVars
  <1>6. ASSUME NEW r \in Requests, NEW a \in Accounts, Lock(r, a)
       PROVE  LockInv'
    <2>1. /\ pc' = [pc EXCEPT ![r] = IF ToLock(r) = {a} THEN "decide" ELSE "lock"]
          /\ pc[r] = "lock"
          /\ a \in ToLock(r)
          /\ holder[a] = None
          /\ holder' = [holder EXCEPT ![a] = r]
          /\ seen' = [seen EXCEPT ![r][a] = balance[a]]
          /\ UNCHANGED <<order, outcome, dbVars, clients, update, insert, dest>>
      BY <1>6 DEF Lock, IsNext, IsFree, txVars
    <2> USE DEF dbVars
    <2>2. Checked' /\ clients' = {q \in Requests : pc'[q] \in TxStates \cup {"committed"}}
      BY <2>1
    <2>3. ASSUME NEW q \in Requests, NEW b \in Accounts
          PROVE  /\ holder'[b] = q => pc'[q] \in TxStates \ {"begin"}
                 /\ update'[q][b] # None => holder'[b] = q
                 /\ insert'[q][b] # None => holder'[b] = q
      BY <2>1
    <2>4. ASSUME NEW q \in Requests, pc'[q] \in LockedStates
          PROVE  \A b \in LockSet(q)' : holder'[b] = q
      <3>1. CASE q = r
        <4>1. ToLock(r) = {a} /\ LockSet(r)' = LockSet(r)
          BY <2>1, <2>4, <3>1
        <4>. QED
          BY <2>1, <3>1, <4>1, PlacedOrder DEF ToLock, Held
      <3>2. CASE q # r
        BY <2>1, <2>4, <3>2
      <3>. QED
        BY <3>1, <3>2
    <2>5. ASSUME NEW q \in Requests, pc'[q] \in BothWritten,
                 order'[q].op = "fixedDeposit"
          PROVE  holder'[dest'[q]] = q /\ owner'[dest'[q]] = None
      <3>1. q # r /\ pc[q] \in BothWritten
        BY <2>1, <2>5
      <3>2. dest[q] \in Accounts /\ holder[dest[q]] = q /\ owner[dest[q]] = None
        BY <2>1, <2>5, <3>1 DEF Placed
      <3>. QED
        BY <2>1, <3>1, <3>2
    <2>6. ASSUME NEW q \in Requests, NEW b \in Accounts, holder'[b] = q,
                 owner'[b] # None
          PROVE  seen'[q][b] = balance'[b]
      BY <2>1, <2>6
    <2>. QED
      BY <2>2, <2>3, <2>4, <2>5, <2>6
  <1>7. ASSUME NEW r \in Requests, Insufficient(r)
       PROVE  LockInv'
    BY <1>7
    DEF Insufficient, Step, dbVars, txVars, localVars
  <1>8. ASSUME NEW r \in Requests, Decide(r)
       PROVE  LockInv'
    BY <1>8
    DEF Decide, Step, dbVars, txVars, localVars
  <1>9. ASSUME NEW r \in Requests, UpdateSender(r)
       PROVE  LockInv'
    <2>1. order[r].from \in Accounts /\ holder[order[r].from] = r
      BY <1>9, PlacedOrder DEF UpdateSender, Step
    <2>. QED
      BY <1>9, <2>1 DEF UpdateSender, Step, dbVars, localVars
  <1>10. ASSUME NEW r \in Requests, UpdateReceiver(r)
       PROVE  LockInv'
    <2>1. dest[r] \in Accounts /\ holder[dest[r]] = r
      <3>1. pc[r] = "updateReceiver"
        BY <1>10 DEF UpdateReceiver, Step
      <3>2. order[r].op = "transfer" /\ dest[r] = order[r].to
        BY <3>1 DEF Placed
      <3>. QED
        BY <3>1, <3>2, PlacedOrder
    <2>2. /\ pc[r] = "updateReceiver" /\ pc' = [pc EXCEPT ![r] = "insertDebit"]
          /\ update' = [update EXCEPT ![r][dest[r]] = newReceiver[r]]
          /\ UNCHANGED <<order, balance, owner, clients, holder, insert, seen, dest>>
      BY <1>10 DEF UpdateReceiver, Step, dbVars, localVars
    <2>3. order[r].op # "fixedDeposit"
      BY <2>2 DEF Placed
    <2>. QED
      BY <2>1, <2>2, <2>3
  <1>11. ASSUME NEW r \in Requests, NEW a \in Accounts, InsertAccount(r, a)
       PROVE  LockInv'
    <2>1. /\ pc[r] = "insertAccount" /\ pc' = [pc EXCEPT ![r] = "insertDebit"]
          /\ owner[a] = None /\ holder[a] = None
          /\ holder' = [holder EXCEPT ![a] = r]
          /\ dest' = [dest EXCEPT ![r] = a]
          /\ update' = [update EXCEPT ![r][a] = newReceiver[r]]
          /\ UNCHANGED <<order, balance, owner, clients, insert, seen>>
      BY <1>11 DEF InsertAccount, Step, dbVars, localVars
    <2>2. Checked' /\ clients' = {q \in Requests : pc'[q] \in TxStates \cup {"committed"}}
      BY <2>1
    <2>3. \A q \in Requests : \A b \in Accounts : holder[b] = q => holder'[b] = q
      BY <2>1
    <2>4. ASSUME NEW q \in Requests, NEW b \in Accounts
          PROVE  /\ holder'[b] = q => pc'[q] \in TxStates \ {"begin"}
                 /\ update'[q][b] # None => holder'[b] = q
                 /\ insert'[q][b] # None => holder'[b] = q
                 /\ holder'[b] = q /\ owner'[b] # None => seen'[q][b] = balance'[b]
      BY <2>1
    <2>5. ASSUME NEW q \in Requests, pc'[q] \in LockedStates
          PROVE  \A b \in LockSet(q)' : holder'[b] = q
      <3>1. pc[q] \in LockedStates
        BY <2>1, <2>5
      <3>2. LockSet(q)' = LockSet(q) /\ LockSet(q) \subseteq Accounts
        <4>1. pc[q] # "idle" /\ order' = order
          BY <2>1, <3>1
        <4> HIDE DEF LockSet, LockInv, TypeOK, Checked
        <4>. QED
          BY <4>1, LockSetKept
      <3>3. \A b \in LockSet(q) : holder[b] = q
        BY <3>1
      <3> HIDE DEF LockSet
      <3>. QED
        BY <2>3, <3>2, <3>3
    <2>6. ASSUME NEW q \in Requests, pc'[q] \in BothWritten,
                 order'[q].op = "fixedDeposit"
          PROVE  holder'[dest'[q]] = q /\ owner'[dest'[q]] = None
      <3>1. CASE q = r
        BY <2>1, <3>1
      <3>2. CASE q # r
        <4>1. pc[q] \in BothWritten /\ dest'[q] = dest[q] /\ order[q].op = "fixedDeposit"
          BY <2>1, <2>6, <3>2
        <4>2. dest[q] \in Accounts /\ holder[dest[q]] = q /\ owner[dest[q]] = None
          BY <4>1, BothHeld
        <4>. QED
          BY <2>1, <2>3, <4>1, <4>2
      <3>. QED
        BY <3>1, <3>2
    <2>. QED
      BY <2>2, <2>4, <2>5, <2>6
  <1>12. ASSUME NEW r \in Requests, NumberCollides(r)
       PROVE  LockInv'
    BY <1>12
    DEF NumberCollides, Step, dbVars, txVars, localVars
  <1>13. ASSUME NEW r \in Requests, RetryInsert(r)
       PROVE  LockInv'
    BY <1>13
    DEF RetryInsert, Step, dbVars, txVars, localVars
  <1>14. ASSUME NEW r \in Requests, InsertDebit(r)
       PROVE  LockInv'
    <2>1. order[r].from \in Accounts /\ holder[order[r].from] = r
      BY <1>14, BothHeld DEF InsertDebit, Step
    <2>. QED
      BY <1>14, <2>1 DEF InsertDebit, Step, dbVars, localVars
  <1>15. ASSUME NEW r \in Requests, InsertCredit(r)
       PROVE  LockInv'
    <2>1. holder[dest[r]] = r /\ dest[r] \in Accounts
      BY <1>15, BothHeld DEF InsertCredit, Step
    <2>. QED
      BY <1>15, <2>1 DEF InsertCredit, Step, dbVars, localVars
  <1>16. ASSUME NEW r \in Requests, Commit(r)
       PROVE  LockInv'
    <2>1. /\ Discard(r)
          /\ pc[r] = "commit"
          /\ pc' = [pc EXCEPT ![r] = "committed"]
          /\ UNCHANGED <<order, outcome, clients, dest>>
          /\ \A a \in Accounts : update[r][a] = None => balance'[a] = balance[a]
          /\ IF order[r].op = "transfer"
               THEN owner' = owner
               ELSE owner' = [owner EXCEPT ![dest[r]] = order[r].user]
      BY <1>16 DEF Commit, Step
    <2>2. order[r].op = "fixedDeposit" =>
            dest[r] \in Accounts /\ owner[dest[r]] = None /\ holder[dest[r]] = r
      BY <2>1, BothHeld
    <2>3. \A a \in Accounts : owner[a] # None => owner'[a] = owner[a]
      BY <2>1, <2>2, PlacedOrder
    <2>4. \A a \in Accounts : owner'[a] # owner[a] => holder[a] = r
      BY <2>1, <2>2, PlacedOrder
    <2>5. Checked' /\ clients' = {q \in Requests : pc'[q] \in TxStates \cup {"committed"}}
      <3>1. ASSUME NEW q \in Requests, pc'[q] \in TxStates \cup {"connect"}
            PROVE  /\ owner'[order'[q].from] = order'[q].user
                   /\ order'[q].op = "transfer" =>
                        order'[q].from # order'[q].to /\ owner'[order'[q].to] # None
        <4>1. pc[q] \in TxStates \cup {"connect"} /\ order'[q] = order[q]
          BY <2>1, <3>1
        <4>2. /\ order[q].from \in Accounts
              /\ order[q].user \in Users
              /\ order[q].op = "transfer" => order[q].to \in Accounts
          BY <4>1, PlacedOrder
        <4>. QED
          BY <2>3, <4>1, <4>2
      <3>. QED
        BY <2>1, <3>1
    <2>6. \A q \in Requests :
            /\ \A a \in Accounts : holder'[a] = q => pc'[q] \in TxStates \ {"begin"}
            /\ \A a \in Accounts : update'[q][a] # None => holder'[a] = q
            /\ \A a \in Accounts : insert'[q][a] # None => holder'[a] = q
            /\ pc'[q] \in LockedStates => \A a \in LockSet(q)' : holder'[a] = q
      <3> HIDE DEF TypeOK, LockInv, Checked, TxStates, LockedStates, BothWritten, LockSet
      <3>. QED
        BY <2>1, EndOfTransaction
    <2>7. \A q \in Requests : \A a \in Accounts : holder'[a] = q =>
            q # r /\ holder[a] = q /\ seen'[q] = seen[q]
      <3> HIDE DEF TypeOK, LockInv, Checked, TxStates, LockedStates, BothWritten, LockSet
      <3>. QED
        BY <2>1, DiscardOthers
    <2>8. ASSUME NEW q \in Requests, pc'[q] \in BothWritten,
                 order'[q].op = "fixedDeposit"
          PROVE  holder'[dest'[q]] = q /\ owner'[dest'[q]] = None
      <3>1. /\ q # r /\ pc[q] \in BothWritten /\ dest'[q] = dest[q]
            /\ order[q].op = "fixedDeposit"
        BY <2>1, <2>8
      <3>2. /\ dest[q] \in Accounts
            /\ holder[dest[q]] = q
            /\ owner[dest[q]] = None
        BY <3>1, BothHeld
      <3>. QED
        BY <2>1, <2>4, <3>1, <3>2, DiscardOthers
    <2>9. ASSUME NEW q \in Requests, NEW a \in Accounts, holder'[a] = q,
                 owner'[a] # None
          PROVE  seen'[q][a] = balance'[a]
      <3>1. q # r /\ holder[a] = q /\ seen'[q] = seen[q]
        BY <2>7, <2>9
      <3>2. update[r][a] = None /\ owner'[a] = owner[a]
        BY <2>4, <3>1
      <3>. QED
        BY <2>1, <2>9, <3>1, <3>2
    <2>. QED
      BY <2>5, <2>6, <2>8, <2>9
  <1>17. ASSUME NEW r \in Requests, StatementFails(r)
       PROVE  LockInv'
    BY <1>17
    DEF StatementFails, Step, dbVars, txVars, localVars
  <1>18. ASSUME NEW r \in Requests, Rollback(r)
       PROVE  LockInv'
    <2>1. /\ Discard(r)
          /\ pc[r] = "rollback"
          /\ pc' = [pc EXCEPT ![r] = "done"]
          /\ clients' = clients \ {r}
          /\ UNCHANGED <<order, dbVars, dest>>
      BY <1>18 DEF Rollback, Finish, Step, Release
    <2>2. Checked' /\ clients' = {q \in Requests : pc'[q] \in TxStates \cup {"committed"}}
      BY <2>1 DEF dbVars
    <2>3. \A q \in Requests :
            /\ \A a \in Accounts : holder'[a] = q => pc'[q] \in TxStates \ {"begin"}
            /\ \A a \in Accounts : update'[q][a] # None => holder'[a] = q
            /\ \A a \in Accounts : insert'[q][a] # None => holder'[a] = q
            /\ pc'[q] \in LockedStates => \A a \in LockSet(q)' : holder'[a] = q
      <3> HIDE DEF TypeOK, LockInv, Checked, TxStates, LockedStates, BothWritten, LockSet
      <3>. QED
        BY <2>1, EndOfTransaction
    <2>4. \A q \in Requests : \A a \in Accounts : holder'[a] = q =>
            q # r /\ holder[a] = q /\ seen'[q] = seen[q]
      <3> HIDE DEF TypeOK, LockInv, Checked, TxStates, LockedStates, BothWritten, LockSet
      <3>. QED
        BY <2>1, DiscardOthers
    <2>5. ASSUME NEW q \in Requests, pc'[q] \in BothWritten,
                 order'[q].op = "fixedDeposit"
          PROVE  holder'[dest'[q]] = q /\ owner'[dest'[q]] = None
      <3>1. /\ q # r /\ pc[q] \in BothWritten /\ dest'[q] = dest[q]
            /\ order[q].op = "fixedDeposit"
        BY <2>1, <2>5
      <3>2. /\ dest[q] \in Accounts
            /\ holder[dest[q]] = q
            /\ owner[dest[q]] = None
        BY <3>1, BothHeld
      <3>. QED
        BY <2>1, <3>1, <3>2, DiscardOthers DEF dbVars
    <2>6. ASSUME NEW q \in Requests, NEW a \in Accounts, holder'[a] = q,
                 owner'[a] # None
          PROVE  seen'[q][a] = balance'[a]
      <3>1. q # r /\ holder[a] = q /\ seen'[q] = seen[q]
        BY <2>4, <2>6
      <3>. QED
        BY <2>1, <2>6, <3>1 DEF dbVars
    <2>. QED
      BY <2>2, <2>3, <2>5, <2>6
  <1>19. ASSUME NEW r \in Requests, Committed(r)
       PROVE  LockInv'
    BY <1>19
    DEF Committed, Finish, Step, Release, dbVars, txVars, localVars
  <1>20. ASSUME NEW r \in Requests, AnswerLost(r)
       PROVE  LockInv'
    BY <1>20
    DEF AnswerLost, Finish, Step, Release, dbVars, txVars, localVars
  <1>21. ASSUME NEW r \in Requests, EvaluateTransfer(r)
       PROVE  LockInv'
    BY <1>21
    DEF EvaluateTransfer, Finish, Step, dbVars, txVars, localVars
  <1>22. ASSUME Crash PROVE LockInv'
    BY <1>22 DEF Crash, dbVars, NoWrites
  <1>23. CASE UNCHANGED vars
    BY <1>23 DEF vars, dbVars, txVars, localVars
  <1>. QED
    BY <1>1, <1>2, <1>3, <1>4, <1>5, <1>6, <1>7, <1>8, <1>9, <1>10, <1>11, <1>12, <1>13, <1>14, <1>15, <1>16, <1>17, <1>18, <1>19, <1>20, <1>21, <1>22, <1>23, Actions

\* The locks do their work: nothing read under a lock goes stale, and whatever
\* way a call leaves withTransaction it keeps no row and no connection.
THEOREM LocksCorrect == Spec => [](NoLostUpdate /\ NothingLeaks)
  <1>1. Init => TypeOK /\ Placed /\ LockInv
    BY TypeInit, LockInit
  <1>2. TypeOK /\ Placed /\ LockInv /\ [Next]_vars => (TypeOK /\ Placed /\ LockInv)'
    BY TypeStep, PlacedStep, LockStep
  <1>3. TypeOK /\ LockInv => NoLostUpdate /\ NothingLeaks
    BY DEF LockInv, NoLostUpdate, NothingLeaks, Held, TypeOK
  <1>. QED
    BY <1>1, <1>2, <1>3, PTL DEF Spec

-----------------------------------------------------------------------------
(* What a transaction writes.                                              *)

\* The variables of one request.
Mine(q) ==
    <<pc[q], order[q], dest[q], at[q], seen[q], newSender[q], newReceiver[q],
      update[q], insert[q]>>

\* A request's step leaves the variables of every other alone.
LEMMA Others ==
    ASSUME TypeOK, NEW r \in Requests, NEW q \in Requests \ {r},
           \/ \E o \in Orders : Submit(r, o)
           \/ Lookup(r) \/ NotConnected(r) \/ Connect(r) \/ Begin(r)
           \/ \E a \in Accounts : Lock(r, a)
           \/ Insufficient(r) \/ Decide(r) \/ UpdateSender(r)
           \/ UpdateReceiver(r)
           \/ \E a \in Accounts : InsertAccount(r, a)
           \/ NumberCollides(r) \/ RetryInsert(r) \/ InsertDebit(r)
           \/ InsertCredit(r) \/ Commit(r) \/ StatementFails(r)
           \/ Rollback(r) \/ Committed(r) \/ AnswerLost(r)
           \/ EvaluateTransfer(r)
    PROVE  Mine(q)' = Mine(q)
  <1> USE DEF TypeOK, Mine, Step, Finish, txVars, localVars
  <1>1. ASSUME NEW o \in Orders, Submit(r, o) PROVE Mine(q)' = Mine(q)
    BY <1>1 DEF Submit
  <1>2. CASE Lookup(r)
    BY <1>2 DEF Lookup
  <1>3. CASE NotConnected(r)
    BY <1>3 DEF NotConnected
  <1>4. CASE Connect(r)
    BY <1>4 DEF Connect
  <1>5. CASE Begin(r)
    BY <1>5 DEF Begin
  <1>6. ASSUME NEW a \in Accounts, Lock(r, a) PROVE Mine(q)' = Mine(q)
    BY <1>6 DEF Lock
  <1>7. CASE Insufficient(r)
    BY <1>7 DEF Insufficient
  <1>8. CASE Decide(r)
    BY <1>8 DEF Decide
  <1>9. CASE UpdateSender(r)
    BY <1>9 DEF UpdateSender
  <1>10. CASE UpdateReceiver(r)
    BY <1>10 DEF UpdateReceiver
  <1>11. ASSUME NEW a \in Accounts, InsertAccount(r, a) PROVE Mine(q)' = Mine(q)
    BY <1>11 DEF InsertAccount
  <1>12. CASE NumberCollides(r)
    BY <1>12 DEF NumberCollides
  <1>13. CASE RetryInsert(r)
    BY <1>13 DEF RetryInsert
  <1>14. CASE InsertDebit(r)
    BY <1>14 DEF InsertDebit
  <1>15. CASE InsertCredit(r)
    BY <1>15 DEF InsertCredit
  <1>16. CASE Commit(r)
    <2>1. Discard(r) /\ Step(r, "commit", "committed") /\ UNCHANGED <<order, at, dest>>
      BY <1>16 DEF Commit
    <2>. QED
      BY <2>1, DiscardOthers
  <1>17. CASE StatementFails(r)
    BY <1>17 DEF StatementFails
  <1>18. CASE Rollback(r)
    BY <1>18, DiscardOthers DEF Rollback
  <1>19. CASE Committed(r)
    BY <1>19 DEF Committed
  <1>20. CASE AnswerLost(r)
    BY <1>20 DEF AnswerLost
  <1>21. CASE EvaluateTransfer(r)
    BY <1>21 DEF EvaluateTransfer
  <1>. QED
    BY <1>1, <1>2, <1>3, <1>4, <1>5, <1>6, <1>7, <1>8, <1>9, <1>10, <1>11, <1>12, <1>13, <1>14, <1>15, <1>16, <1>17, <1>18, <1>19, <1>20, <1>21

\* and so it leaves what the invariant says of it.
LEMMA WriteFrame ==
    ASSUME NEW q \in Requests, Mine(q)' = Mine(q)
    PROVE  /\ pc'[q] = pc[q]
           /\ Computed(q) => Computed(q)'
           /\ Written(q) => Written(q)'
  BY DEF Mine, Computed, Written, IsFunded, SenderBalances, ReceiverBalances,
         Entry

LEMMA WriteInit == Init => WriteInv
  BY DEF Init, WriteInv, Written, SenderWritten, BothWritten, NoWrites

\* A step that neither starts nor ends in the writing part.
LEMMA NothingWritten ==
    ASSUME WriteInv, NEW r \in Requests,
           pc[r] \notin SenderWritten \cup {"rollback"},
           pc'[r] \notin SenderWritten \cup {"updateSender"},
           UNCHANGED txVars
    PROVE  Written(r)'
  BY DEF WriteInv, Written, SenderWritten, BothWritten, txVars

LEMMA WriteStep ==
    ASSUME TypeOK, Placed, LockInv, WriteInv, [Next]_vars
    PROVE  WriteInv'
  <1> USE DEF SenderWritten, BothWritten
  <1>0. ASSUME NEW r \in Requests,
               \A q \in Requests \ {r} : Mine(q)' = Mine(q),
               pc'[r] \in SenderWritten \cup {"updateSender"} => Computed(r)',
               pc'[r] # "rollback" => Written(r)'
        PROVE  WriteInv'
    BY <1>0, WriteFrame DEF WriteInv
  <1>1. ASSUME NEW r \in Requests, NEW o \in Orders, Submit(r, o)
       PROVE  WriteInv'
    <2>1. \A q \in Requests \ {r} : Mine(q)' = Mine(q)
      BY <1>1, Others
    <2>2. /\ pc[r] \notin SenderWritten \cup {"rollback"}
          /\ pc'[r] \notin SenderWritten \cup {"updateSender"}
          /\ UNCHANGED txVars
      BY <1>1 DEF Submit, Step, TypeOK
    <2>. QED
      BY <1>0, <2>1, <2>2, NothingWritten
  <1>2. ASSUME NEW r \in Requests, Lookup(r)
       PROVE  WriteInv'
    <2>1. \A q \in Requests \ {r} : Mine(q)' = Mine(q)
      BY <1>2, Others
    <2>2. /\ pc[r] \notin SenderWritten \cup {"rollback"}
          /\ pc'[r] \notin SenderWritten \cup {"updateSender"}
          /\ UNCHANGED txVars
      BY <1>2 DEF Lookup, Step, Finish, TypeOK
    <2>. QED
      BY <1>0, <2>1, <2>2, NothingWritten
  <1>3. ASSUME NEW r \in Requests, NotConnected(r)
       PROVE  WriteInv'
    <2>1. \A q \in Requests \ {r} : Mine(q)' = Mine(q)
      BY <1>3, Others
    <2>2. /\ pc[r] \notin SenderWritten \cup {"rollback"}
          /\ pc'[r] \notin SenderWritten \cup {"updateSender"}
          /\ UNCHANGED txVars
      BY <1>3 DEF NotConnected, Step, Finish, TypeOK
    <2>. QED
      BY <1>0, <2>1, <2>2, NothingWritten
  <1>4. ASSUME NEW r \in Requests, Connect(r)
       PROVE  WriteInv'
    <2>1. \A q \in Requests \ {r} : Mine(q)' = Mine(q)
      BY <1>4, Others
    <2>2. /\ pc[r] \notin SenderWritten \cup {"rollback"}
          /\ pc'[r] \notin SenderWritten \cup {"updateSender"}
          /\ UNCHANGED txVars
      BY <1>4 DEF Connect, Step, TypeOK
    <2>. QED
      BY <1>0, <2>1, <2>2, NothingWritten
  <1>5. ASSUME NEW r \in Requests, Begin(r)
       PROVE  WriteInv'
    <2>1. \A q \in Requests \ {r} : Mine(q)' = Mine(q)
      BY <1>5, Others
    <2>2. /\ pc[r] \notin SenderWritten \cup {"rollback"}
          /\ pc'[r] \notin SenderWritten \cup {"updateSender"}
          /\ UNCHANGED txVars
      BY <1>5 DEF Begin, Step, TypeOK
    <2>. QED
      BY <1>0, <2>1, <2>2, NothingWritten
  <1>6. ASSUME NEW r \in Requests, NEW a \in Accounts, Lock(r, a)
       PROVE  WriteInv'
    <2>1. \A q \in Requests \ {r} : Mine(q)' = Mine(q)
      BY <1>6, Others
    <2>2. /\ pc[r] \notin SenderWritten \cup {"rollback"}
          /\ pc'[r] \notin SenderWritten \cup {"updateSender"}
          /\ UNCHANGED txVars
      BY <1>6 DEF Lock, TypeOK
    <2>. QED
      BY <1>0, <2>1, <2>2, NothingWritten
  <1>7. ASSUME NEW r \in Requests, Insufficient(r)
       PROVE  WriteInv'
    <2>1. \A q \in Requests \ {r} : Mine(q)' = Mine(q)
      BY <1>7, Others
    <2>2. pc'[r] = "rollback"
      BY <1>7 DEF Insufficient, Step, TypeOK
    <2>. QED
      BY <1>0, <2>1, <2>2
  <1>8. ASSUME NEW r \in Requests, Decide(r)
       PROVE  WriteInv'
    <2>1. \A q \in Requests \ {r} : Mine(q)' = Mine(q)
      BY <1>8, Others
    <2>2. /\ pc[r] = "decide" /\ pc'[r] = "updateSender"
          /\ UNCHANGED <<order, txVars, seen>>
          /\ IsFunded(r)
          /\ newSender'[r] \in SenderBalances(r)
          /\ newReceiver'[r] \in ReceiverBalances(r)
      BY <1>8 DEF Decide, Step, TypeOK
    <2>3. Computed(r)'
      BY <2>2 DEF Computed, IsFunded, SenderBalances, ReceiverBalances
    <2>4. Written(r)'
      BY <2>2 DEF Written, WriteInv, txVars
    <2>. QED
      BY <1>0, <2>1, <2>3, <2>4
  <1>9. ASSUME NEW r \in Requests, UpdateSender(r)
       PROVE  WriteInv'
    <2>1. \A q \in Requests \ {r} : Mine(q)' = Mine(q)
      BY <1>9, Others
    <2>2. Computed(r)'
      BY <1>9
      DEF UpdateSender, Step, TypeOK, localVars, WriteInv, Computed, IsFunded,
          SenderBalances, ReceiverBalances
    <2>3. Written(r)'
      <3>1. /\ pc[r] = "updateSender" /\ pc'[r] \in {"updateReceiver", "insertAccount"}
            /\ order' = order /\ at' = at
            /\ newSender' = newSender /\ newReceiver' = newReceiver
            /\ dest'[r] = dest[r]
            /\ update'[r] = [update[r] EXCEPT ![order[r].from] = newSender[r]]
            /\ insert'[r] = insert[r]
            /\ Written(r)
        BY <1>9 DEF UpdateSender, Step, TypeOK, localVars, txVars, WriteInv
      <3>2. /\ order[r].from \in Accounts
        BY <1>9, PlacedOrder, NoneAssumption DEF UpdateSender, Step, TypeOK
      <3>3. DOMAIN update[r] = Accounts /\ DOMAIN insert[r] = Accounts
        BY DEF TypeOK
      <3>. QED
        BY <3>1, <3>2, <3>3 DEF Written, Entry
    <2>. QED
      BY <1>0, <2>1, <2>2, <2>3
  <1>10. ASSUME NEW r \in Requests, UpdateReceiver(r)
       PROVE  WriteInv'
    <2>1. \A q \in Requests \ {r} : Mine(q)' = Mine(q)
      BY <1>10, Others
    <2>2. Computed(r)'
      BY <1>10
      DEF UpdateReceiver, Step, TypeOK, localVars, WriteInv, Computed, IsFunded,
          SenderBalances, ReceiverBalances
    <2>3. Written(r)'
      <3>1. /\ pc[r] = "updateReceiver" /\ pc'[r] = "insertDebit"
            /\ order' = order /\ at' = at
            /\ newSender' = newSender /\ newReceiver' = newReceiver
            /\ dest'[r] = dest[r]
            /\ update'[r] = [update[r] EXCEPT ![dest[r]] = newReceiver[r]]
            /\ insert'[r] = insert[r]
            /\ Written(r)
        BY <1>10 DEF UpdateReceiver, Step, TypeOK, localVars, txVars, WriteInv
      <3>2. /\ order[r].from \in Accounts
            /\ dest[r] \in Accounts /\ dest[r] # order[r].from
        BY <3>1, PlacedOrder DEF Placed, LockInv, Checked, TxStates
      <3>3. DOMAIN update[r] = Accounts /\ DOMAIN insert[r] = Accounts
        BY DEF TypeOK
      <3>. QED
        BY <3>1, <3>2, <3>3 DEF Written, Entry
    <2>. QED
      BY <1>0, <2>1, <2>2, <2>3
  <1>11. ASSUME NEW r \in Requests, NEW a \in Accounts, InsertAccount(r, a)
       PROVE  WriteInv'
    <2>1. \A q \in Requests \ {r} : Mine(q)' = Mine(q)
      BY <1>11, Others
    <2>2. Computed(r)'
      BY <1>11
      DEF InsertAccount, Step, TypeOK, localVars, WriteInv, Computed, IsFunded,
          SenderBalances, ReceiverBalances
    <2>3. Written(r)'
      <3>1. /\ pc[r] = "insertAccount" /\ pc'[r] = "insertDebit"
            /\ order' = order /\ at' = at
            /\ newSender' = newSender /\ newReceiver' = newReceiver
            /\ dest'[r] = a
            /\ update'[r] = [update[r] EXCEPT ![a] = newReceiver[r]]
            /\ insert'[r] = insert[r]
            /\ Written(r)
        BY <1>11 DEF InsertAccount, Step, TypeOK, localVars, txVars, WriteInv
      <3>2. /\ order[r].from \in Accounts
            /\ a # order[r].from
        BY <1>11, PlacedOrder, NoneAssumption DEF InsertAccount, Step, TypeOK, Placed, LockInv, Checked, TxStates
      <3>3. DOMAIN update[r] = Accounts /\ DOMAIN insert[r] = Accounts
        BY DEF TypeOK
      <3>. QED
        BY <3>1, <3>2, <3>3 DEF Written, Entry
    <2>. QED
      BY <1>0, <2>1, <2>2, <2>3
  <1>12. ASSUME NEW r \in Requests, NumberCollides(r)
       PROVE  WriteInv'
    <2>1. \A q \in Requests \ {r} : Mine(q)' = Mine(q)
      BY <1>12, Others
    <2>2. Computed(r)'
      BY <1>12
      DEF NumberCollides, Step, TypeOK, localVars, WriteInv, Computed, IsFunded,
          SenderBalances, ReceiverBalances
    <2>3. Written(r)'
      <3>1. /\ pc[r] = "insertAccount" /\ pc'[r] = "retryInsert"
            /\ order' = order /\ at' = at
            /\ newSender' = newSender /\ newReceiver' = newReceiver
            /\ dest'[r] = dest[r]
            /\ update'[r] = update[r]
            /\ insert'[r] = insert[r]
            /\ Written(r)
        BY <1>12 DEF NumberCollides, Step, TypeOK, localVars, txVars, WriteInv
      <3>2. /\ order[r].from \in Accounts
        BY <1>12, PlacedOrder, NoneAssumption DEF NumberCollides, Step, TypeOK
      <3>3. DOMAIN update[r] = Accounts /\ DOMAIN insert[r] = Accounts
        BY DEF TypeOK
      <3>. QED
        BY <3>1, <3>2, <3>3 DEF Written, Entry
    <2>. QED
      BY <1>0, <2>1, <2>2, <2>3
  <1>13. ASSUME NEW r \in Requests, RetryInsert(r)
       PROVE  WriteInv'
    <2>1. \A q \in Requests \ {r} : Mine(q)' = Mine(q)
      BY <1>13, Others
    <2>2. pc'[r] = "rollback"
      BY <1>13 DEF RetryInsert, Step, TypeOK
    <2>. QED
      BY <1>0, <2>1, <2>2
  <1>14. ASSUME NEW r \in Requests, InsertDebit(r)
       PROVE  WriteInv'
    <2>1. \A q \in Requests \ {r} : Mine(q)' = Mine(q)
      BY <1>14, Others
    <2>2. Computed(r)'
      BY <1>14
      DEF InsertDebit, Step, TypeOK, localVars, WriteInv, Computed, IsFunded,
          SenderBalances, ReceiverBalances
    <2>3. Written(r)'
      <3>1. /\ pc[r] = "insertDebit" /\ pc'[r] = "insertCredit"
            /\ order' = order /\ at' = at
            /\ newSender' = newSender /\ newReceiver' = newReceiver
            /\ dest'[r] = dest[r]
            /\ update'[r] = update[r]
            /\ insert'[r] = [insert[r] EXCEPT ![order[r].from] =
                            Entry(r, "debit", dest[r], newSender[r])]
            /\ Written(r)
        BY <1>14 DEF InsertDebit, Step, TypeOK, localVars, txVars, WriteInv
      <3>2. /\ order[r].from \in Accounts
        BY <1>14, PlacedOrder, NoneAssumption DEF InsertDebit, Step, TypeOK
      <3>3. DOMAIN update[r] = Accounts /\ DOMAIN insert[r] = Accounts
        BY DEF TypeOK
      <3>. QED
        BY <3>1, <3>2, <3>3 DEF Written, Entry
    <2>. QED
      BY <1>0, <2>1, <2>2, <2>3
  <1>15. ASSUME NEW r \in Requests, InsertCredit(r)
       PROVE  WriteInv'
    <2>1. \A q \in Requests \ {r} : Mine(q)' = Mine(q)
      BY <1>15, Others
    <2>2. Computed(r)'
      BY <1>15
      DEF InsertCredit, Step, TypeOK, localVars, WriteInv, Computed, IsFunded,
          SenderBalances, ReceiverBalances
    <2>3. Written(r)'
      <3>1. /\ pc[r] = "insertCredit" /\ pc'[r] = "commit"
            /\ order' = order /\ at' = at
            /\ newSender' = newSender /\ newReceiver' = newReceiver
            /\ dest'[r] = dest[r]
            /\ update'[r] = update[r]
            /\ insert'[r] = [insert[r] EXCEPT ![dest[r]] =
                            Entry(r, "credit", order[r].from, newReceiver[r])]
            /\ Written(r)
        BY <1>15 DEF InsertCredit, Step, TypeOK, localVars, txVars, WriteInv
      <3>2. /\ order[r].from \in Accounts
            /\ dest[r] \in Accounts /\ dest[r] # order[r].from
        BY <1>15, PlacedOrder, BothHeld, NoneAssumption DEF InsertCredit, Step, TypeOK
      <3>3. DOMAIN update[r] = Accounts /\ DOMAIN insert[r] = Accounts
        BY DEF TypeOK
      <3>. QED
        BY <3>1, <3>2, <3>3 DEF Written, Entry
    <2>. QED
      BY <1>0, <2>1, <2>2, <2>3
  <1>16. ASSUME NEW r \in Requests, Commit(r)
       PROVE  WriteInv'
    <2>1. \A q \in Requests \ {r} : Mine(q)' = Mine(q)
      BY <1>16, Others
    <2>2. pc'[r] = "committed" /\ Discard(r)
      BY <1>16 DEF Commit, Step, Finish, TypeOK
    <2>3. Written(r)'
      BY <2>2, DiscardOthers DEF Written
    <2>. QED
      BY <1>0, <2>1, <2>2, <2>3
  <1>17. ASSUME NEW r \in Requests, StatementFails(r)
       PROVE  WriteInv'
    <2>1. \A q \in Requests \ {r} : Mine(q)' = Mine(q)
      BY <1>17, Others
    <2>2. pc'[r] = "rollback"
      BY <1>17 DEF StatementFails, Step, TypeOK
    <2>. QED
      BY <1>0, <2>1, <2>2
  <1>18. ASSUME NEW r \in Requests, Rollback(r)
       PROVE  WriteInv'
    <2>1. \A q \in Requests \ {r} : Mine(q)' = Mine(q)
      BY <1>18, Others
    <2>2. pc'[r] = "done" /\ Discard(r)
      BY <1>18 DEF Rollback, Step, Finish, TypeOK
    <2>3. Written(r)'
      BY <2>2, DiscardOthers DEF Written
    <2>. QED
      BY <1>0, <2>1, <2>2, <2>3
  <1>19. ASSUME NEW r \in Requests, Committed(r)
       PROVE  WriteInv'
    <2>1. \A q \in Requests \ {r} : Mine(q)' = Mine(q)
      BY <1>19, Others
    <2>2. /\ pc[r] \notin SenderWritten \cup {"rollback"}
          /\ pc'[r] \notin SenderWritten \cup {"updateSender"}
          /\ UNCHANGED txVars
      BY <1>19 DEF Committed, Step, Finish, TypeOK
    <2>. QED
      BY <1>0, <2>1, <2>2, NothingWritten
  <1>20. ASSUME NEW r \in Requests, AnswerLost(r)
       PROVE  WriteInv'
    <2>1. \A q \in Requests \ {r} : Mine(q)' = Mine(q)
      BY <1>20, Others
    <2>2. /\ pc[r] \notin SenderWritten \cup {"rollback"}
          /\ pc'[r] \notin SenderWritten \cup {"updateSender"}
          /\ UNCHANGED txVars
      BY <1>20 DEF AnswerLost, Step, Finish, TypeOK
    <2>. QED
      BY <1>0, <2>1, <2>2, NothingWritten
  <1>21. ASSUME NEW r \in Requests, EvaluateTransfer(r)
       PROVE  WriteInv'
    <2>1. \A q \in Requests \ {r} : Mine(q)' = Mine(q)
      BY <1>21, Others
    <2>2. /\ pc[r] \notin SenderWritten \cup {"rollback"}
          /\ pc'[r] \notin SenderWritten \cup {"updateSender"}
          /\ UNCHANGED txVars
      BY <1>21 DEF EvaluateTransfer, Step, Finish, TypeOK
    <2>. QED
      BY <1>0, <2>1, <2>2, NothingWritten
  <1>22. ASSUME Crash PROVE WriteInv'
    BY <1>22 DEF Crash, NoWrites, WriteInv, Written, TypeOK, States, TxStates
  <1>23. CASE UNCHANGED vars
    <2>1. \A q \in Requests : Mine(q)' = Mine(q)
      BY <1>23 DEF vars, Mine, txVars, localVars
    <2>. QED
      BY <2>1, WriteFrame DEF WriteInv
  <1>. QED
    BY <1>1, <1>2, <1>3, <1>4, <1>5, <1>6, <1>7, <1>8, <1>9, <1>10, <1>11, <1>12, <1>13, <1>14, <1>15, <1>16, <1>17, <1>18, <1>19, <1>20, <1>21, <1>22, <1>23, Actions

-----------------------------------------------------------------------------
(* What a COMMIT does.                                                     *)

\* An account not opened yet holds nothing.
Unopened == \A a \in Accounts : owner[a] = None => balance[a] = 0

\* No amount has a fraction of a cent: transfer_half_cents shows what happens
\* otherwise.
WholeAmounts == \A x \in Amounts : WholeCents(x)
WholeBalances == \A a \in Accounts : WholeCents(balance[a])

\* A COMMIT writes both balances and appends both rows, and nothing else.
LEMMA CommitWrites ==
    ASSUME TypeOK, Placed, LockInv, WriteInv, NEW r \in Requests, Commit(r)
    PROVE  /\ balance' = [balance EXCEPT ![order[r].from] = newSender[r],
                                        ![dest[r]] = newReceiver[r]]
           /\ rows' = [rows EXCEPT
                ![order[r].from] =
                    Append(@, Entry(r, "debit", dest[r], newSender[r])),
                ![dest[r]] =
                    Append(@, Entry(r, "credit", order[r].from, newReceiver[r]))]
  <1>1. pc[r] = "commit"
    BY DEF Commit, Step
  <1>2. /\ dest[r] \in Accounts /\ order[r].from \in Accounts
        /\ dest[r] # order[r].from
    BY <1>1, BothHeld DEF BothWritten
  <1>3. newSender[r] # None /\ newReceiver[r] # None
    BY NoneAssumption DEF TypeOK
  <1>4. /\ Entry(r, "debit", dest[r], newSender[r]) \in Row
        /\ Entry(r, "credit", order[r].from, newReceiver[r]) \in Row
    <2>1. Numeric(order[r].amount) \in Nat
      BY <1>1, PlacedOrder, Roundings
    <2>. QED
      BY <1>2, <2>1 DEF Entry, Row, TypeOK
  <1>5. ASSUME NEW a \in Accounts
        PROVE  /\ update[r][a] = IF a = order[r].from THEN newSender[r]
                                 ELSE IF a = dest[r] THEN newReceiver[r]
                                 ELSE None
               /\ insert[r][a] =
                    IF a = order[r].from
                      THEN Entry(r, "debit", dest[r], newSender[r])
                    ELSE IF a = dest[r]
                      THEN Entry(r, "credit", order[r].from, newReceiver[r])
                    ELSE None
    BY <1>1 DEF WriteInv, Written, SenderWritten, BothWritten
  <1>6. balance' = [balance EXCEPT ![order[r].from] = newSender[r],
                                   ![dest[r]] = newReceiver[r]]
    <2>1. ASSUME NEW a \in Accounts
          PROVE  balance'[a] = IF a = order[r].from THEN newSender[r]
                               ELSE IF a = dest[r] THEN newReceiver[r]
                               ELSE balance[a]
      BY <1>2, <1>3, <1>5 DEF Commit
    <2>2. balance' = [a \in Accounts |-> balance'[a]]
      BY DEF Commit
    <2>. QED
      BY <1>2, <2>1, <2>2 DEF TypeOK
  <1>7. Entry(r, "debit", dest[r], newSender[r]) # None
        /\ Entry(r, "credit", order[r].from, newReceiver[r]) # None
    BY <1>4, NoRowAssumption
  <1>8. ASSUME NEW a \in Accounts
        PROVE  rows'[a] = IF a = order[r].from
                            THEN Append(rows[a], Entry(r, "debit", dest[r], newSender[r]))
                          ELSE IF a = dest[r]
                            THEN Append(rows[a], Entry(r, "credit", order[r].from, newReceiver[r]))
                          ELSE rows[a]
    BY <1>2, <1>5, <1>7 DEF Commit
  <1>9. rows' = [a \in Accounts |-> rows'[a]]
    BY DEF Commit
  <1>. QED
    BY <1>2, <1>6, <1>8, <1>9 DEF TypeOK

\* With whole cents, what a COMMIT writes is the arithmetic of the order: the
\* one account loses what the other gains.
LEMMA CommitMoves ==
    ASSUME TypeOK, Placed, LockInv, WriteInv, Unopened, WholeBalances,
           WholeAmounts, NEW r \in Requests, Commit(r)
    PROVE  /\ newSender[r] = balance[order[r].from] - order[r].amount
           /\ newReceiver[r] = balance[dest[r]] + order[r].amount
           /\ balance[order[r].from] >= order[r].amount
           /\ Numeric(order[r].amount) = order[r].amount
           /\ WholeCents(newSender[r]) /\ WholeCents(newReceiver[r])
  <1>1. pc[r] = "commit"
    BY DEF Commit, Step
  <1>2. /\ dest[r] \in Accounts /\ order[r].from \in Accounts
        /\ order[r].amount \in Nat
        /\ WholeCents(order[r].amount)
        /\ order[r].op \in {"transfer", "fixedDeposit"}
        /\ order[r].op = "transfer" => dest[r] = order[r].to
    BY <1>1, BothHeld, PlacedOrder DEF BothWritten, Placed, WholeAmounts
  <1>3. Computed(r)
    BY <1>1 DEF WriteInv, SenderWritten
  <1>4. seen[r][order[r].from] = balance[order[r].from]
    BY <1>1, BothHeld DEF BothWritten, LockInv
  <1>5. order[r].op = "transfer" => seen[r][order[r].to] = balance[dest[r]]
    BY <1>1, <1>2, BothHeld DEF BothWritten, LockInv, Checked, TxStates
  <1>6. order[r].op = "fixedDeposit" => balance[dest[r]] = 0
    BY <1>1, <1>2 DEF BothWritten, LockInv, Unopened
  <1>7. /\ balance[order[r].from] \in Nat /\ WholeCents(balance[order[r].from])
        /\ balance[dest[r]] \in Nat /\ WholeCents(balance[dest[r]])
    BY <1>2 DEF TypeOK, WholeBalances
  <1>8. balance[order[r].from] >= order[r].amount
    BY <1>3, <1>4 DEF Computed, IsFunded
  <1>9. Numeric(order[r].amount) = order[r].amount
    BY <1>2, Roundings
  <1>10. newSender[r] = balance[order[r].from] - order[r].amount /\ WholeCents(newSender[r])
    <2> DEFINE x == balance[order[r].from] - order[r].amount
    <2>1. x \in Nat /\ WholeCents(x)
      BY <1>2, <1>7, <1>8 DEF WholeCents
    <2>2. newSender[r] \in ToFixed(x)
      BY <1>3, <1>4 DEF Computed, SenderBalances
    <2> HIDE DEF x
    <2>3. newSender[r] = x /\ WholeCents(newSender[r])
      BY <2>1, <2>2, Roundings
    <2>. QED
      BY <2>3 DEF x
  <1>11. newReceiver[r] = balance[dest[r]] + order[r].amount /\ WholeCents(newReceiver[r])
    <2> DEFINE x == balance[dest[r]] + order[r].amount
    <2>1. x \in Nat /\ WholeCents(x)
      BY <1>2, <1>7 DEF WholeCents
    <2>2. newReceiver[r] \in ToFixed(x)
      <3>1. CASE order[r].op = "transfer"
        BY <1>3, <1>5, <3>1 DEF Computed, ReceiverBalances
      <3>2. CASE order[r].op = "fixedDeposit"
        <4>1. newReceiver[r] = Numeric(order[r].amount)
          BY <1>3, <3>2 DEF Computed, ReceiverBalances
        <4>2. newReceiver[r] = x
          BY <1>2, <1>6, <1>9, <3>2, <4>1
        <4>. QED
          BY <2>1, <4>2, Roundings
      <3>. QED
        BY <1>2, <3>1, <3>2
    <2> HIDE DEF x
    <2>3. newReceiver[r] = x /\ WholeCents(newReceiver[r])
      BY <2>1, <2>2, Roundings
    <2>. QED
      BY <2>3 DEF x
  <1>. QED
    BY <1>8, <1>9, <1>10, <1>11

-----------------------------------------------------------------------------
(* The ledger.                                                             *)

LedgerInv == Unopened /\ WholeBalances /\ LedgerExplainsBalance

LEMMA LedgerInit == Init => LedgerInv
  BY SeedAssumption
  DEF Init, LedgerInv, Unopened, WholeBalances, LedgerExplainsBalance, Before

\* Only a COMMIT touches the committed rows.
LEMMA CommittedRows ==
    ASSUME [Next]_vars
    PROVE  UNCHANGED dbVars \/ \E r \in Requests : Commit(r)
  BY DEF Next, Proceed, Fail, vars, Submit, Lookup, NotConnected, Connect,
         Begin, Lock, Insufficient, Decide, UpdateSender, UpdateReceiver,
         InsertAccount, NumberCollides, RetryInsert, InsertDebit, InsertCredit,
         StatementFails, Rollback, Committed, AnswerLost, EvaluateTransfer,
         Crash

\* A row appended with the right balance keeps an account's ledger right.
LEMMA AppendExplains ==
    ASSUME NEW l \in Seq(Row), NEW e \in Row, NEW seed \in Nat, NEW before \in Nat,
           before = (IF Len(l) = 0 THEN seed ELSE l[Len(l)].after),
           \A i \in 1 .. Len(l) : l[i].after =
              IF l[i].type = "debit"
                THEN (IF i = 1 THEN seed ELSE l[i - 1].after) - l[i].amount
                ELSE (IF i = 1 THEN seed ELSE l[i - 1].after) + l[i].amount,
           e.after = IF e.type = "debit" THEN before - e.amount
                                         ELSE before + e.amount,
           NEW m \in Seq(Row), m = Append(l, e)
    PROVE  /\ Len(m) # 0 /\ m[Len(m)].after = e.after
           /\ \A i \in 1 .. Len(m) : m[i].after =
                IF m[i].type = "debit"
                  THEN (IF i = 1 THEN seed ELSE m[i - 1].after) - m[i].amount
                  ELSE (IF i = 1 THEN seed ELSE m[i - 1].after) + m[i].amount
  <1>1. /\ Len(m) = Len(l) + 1 /\ Len(l) \in Nat
        /\ \A i \in 1 .. Len(l) : m[i] = l[i]
        /\ m[Len(l) + 1] = e
    OBVIOUS
  <1>2. ASSUME NEW i \in 1 .. Len(m)
        PROVE  m[i].after =
                 IF m[i].type = "debit"
                   THEN (IF i = 1 THEN seed ELSE m[i - 1].after) - m[i].amount
                   ELSE (IF i = 1 THEN seed ELSE m[i - 1].after) + m[i].amount
    <2>1. CASE i \in 1 .. Len(l)
      <3>1. m[i] = l[i] /\ (i # 1 => m[i - 1] = l[i - 1])
        BY <1>1, <2>1
      <3>. QED
        BY <2>1, <3>1
    <2>2. CASE i = Len(l) + 1
      <3>1. m[i] = e /\ (i # 1 => Len(l) # 0 /\ m[i - 1] = l[Len(l)])
        BY <1>1, <2>2
      <3>. QED
        BY <1>1, <2>2, <3>1
    <2>. QED
      BY <1>1, <2>1, <2>2
  <1>. QED
    BY <1>1, <1>2

LEMMA LedgerStep ==
    ASSUME WholeAmounts, TypeOK, Placed, LockInv, WriteInv, LedgerInv, [Next]_vars
    PROVE  LedgerInv'
  <1>1. CASE UNCHANGED dbVars
    BY <1>1 DEF dbVars, LedgerInv, Unopened, WholeBalances,
                LedgerExplainsBalance, Before
  <1>2. ASSUME NEW r \in Requests, Commit(r)
        PROVE  LedgerInv'
    <2> DEFINE f == order[r].from
               d == dest[r]
               n == order[r].amount
               debit  == Entry(r, "debit", d, newSender[r])
               credit == Entry(r, "credit", f, newReceiver[r])
    <2>1. pc[r] = "commit" /\ pc[r] \in BothWritten
      BY <1>2 DEF Commit, Step, BothWritten
    <2>2. /\ f \in Accounts /\ d \in Accounts /\ f # d /\ n \in Nat
          /\ owner[f] # None
      BY <2>1, BothHeld, PlacedOrder
    <2>3. /\ newSender[r] = balance[f] - n /\ newReceiver[r] = balance[d] + n
          /\ Numeric(n) = n
          /\ WholeCents(newSender[r]) /\ WholeCents(newReceiver[r])
      BY <1>2, CommitMoves DEF LedgerInv
    <2>4. /\ balance' = [balance EXCEPT ![f] = newSender[r], ![d] = newReceiver[r]]
          /\ rows' = [rows EXCEPT ![f] = Append(@, debit), ![d] = Append(@, credit)]
      BY <1>2, CommitWrites
    <2>5. debit \in Row /\ credit \in Row
      BY <2>2, <2>3 DEF Entry, Row, TypeOK
    <2>6. /\ debit.type = "debit" /\ debit.amount = n /\ debit.after = balance[f] - n
          /\ credit.type = "credit" /\ credit.amount = n /\ credit.after = balance[d] + n
      BY <2>3 DEF Entry
    <2>7. Unopened'
      <3>1. order[r].op \in {"transfer", "fixedDeposit"} /\ order[r].user \in Users
        BY <2>1, PlacedOrder DEF BothWritten
      <3>2. order[r].op = "transfer" => owner[d] # None
        BY <2>1, <3>1 DEF BothWritten, LockInv, Checked, TxStates, Placed
      <3>3. owner'[f] # None /\ owner'[d] # None
        BY <1>2, <2>2, <3>1, <3>2, NoneAssumption DEF Commit, TypeOK
      <3>4. \A a \in Accounts \ {f, d} : owner'[a] = owner[a]
        BY <1>2, <2>2, <3>1 DEF Commit, TypeOK
      <3>5. \A a \in Accounts \ {f, d} : balance'[a] = balance[a]
        BY <2>2, <2>4 DEF TypeOK
      <3>. QED
        BY <3>3, <3>4, <3>5 DEF LedgerInv, Unopened
    <2> HIDE DEF f, d, n, debit, credit
    <2>8. WholeBalances'
      BY <2>2, <2>3, <2>4 DEF TypeOK, LedgerInv, WholeBalances
    <2>9. ASSUME NEW a \in Accounts
          PROVE  /\ balance'[a] = Before(a, Len(rows[a]) + 1)'
                 /\ \A i \in 1 .. Len(rows'[a]) :
                      rows'[a][i].after =
                        IF rows'[a][i].type = "debit"
                          THEN Before(a, i)' - rows'[a][i].amount
                          ELSE Before(a, i)' + rows'[a][i].amount
      <3> DEFINE l == rows[a]
                 m == rows'[a]
                 s == SeedBalance[a]
      <3>1. l \in Seq(Row) /\ s \in Nat /\ balance[a] \in Nat
        BY SeedAssumption DEF TypeOK
      <3>2. balance[a] = IF Len(l) = 0 THEN s ELSE l[Len(l)].after
        BY <3>1 DEF LedgerInv, LedgerExplainsBalance, Before
      <3>3. \A i \in 1 .. Len(l) : l[i].after =
              IF l[i].type = "debit"
                THEN (IF i = 1 THEN s ELSE l[i - 1].after) - l[i].amount
                ELSE (IF i = 1 THEN s ELSE l[i - 1].after) + l[i].amount
        BY DEF LedgerInv, LedgerExplainsBalance, Before
      <3>4. ASSUME NEW e \in Row, m = Append(l, e), balance'[a] = e.after,
                   e.after = IF e.type = "debit" THEN balance[a] - e.amount
                                                 ELSE balance[a] + e.amount
            PROVE  /\ balance'[a] = IF Len(m) = 0 THEN s ELSE m[Len(m)].after
                   /\ \A i \in 1 .. Len(m) : m[i].after =
                        IF m[i].type = "debit"
                          THEN (IF i = 1 THEN s ELSE m[i - 1].after) - m[i].amount
                          ELSE (IF i = 1 THEN s ELSE m[i - 1].after) + m[i].amount
        <4>1. m \in Seq(Row)
          BY <3>1, <3>4
        <4> DEFINE b == balance[a]
        <4>2. b \in Nat /\ b = IF Len(l) = 0 THEN s ELSE l[Len(l)].after
          BY <3>1, <3>2
        <4>3. e.after = IF e.type = "debit" THEN b - e.amount ELSE b + e.amount
          BY <3>4
        <4>4. m = Append(l, e) /\ balance'[a] = e.after
          BY <3>4
        <4> HIDE DEF l, m, s, b
        <4>5. /\ Len(m) # 0 /\ m[Len(m)].after = e.after
              /\ \A i \in 1 .. Len(m) : m[i].after =
                   IF m[i].type = "debit"
                     THEN (IF i = 1 THEN s ELSE m[i - 1].after) - m[i].amount
                     ELSE (IF i = 1 THEN s ELSE m[i - 1].after) + m[i].amount
          BY <3>1, <3>3, <4>1, <4>2, <4>3, <4>4, AppendExplains
        <4>. QED
          BY <4>4, <4>5
      <3>5. /\ balance'[a] = IF Len(m) = 0 THEN s ELSE m[Len(m)].after
            /\ \A i \in 1 .. Len(m) : m[i].after =
                 IF m[i].type = "debit"
                   THEN (IF i = 1 THEN s ELSE m[i - 1].after) - m[i].amount
                   ELSE (IF i = 1 THEN s ELSE m[i - 1].after) + m[i].amount
        <4>1. CASE a = f
          <5>1. m = Append(l, debit) /\ balance'[a] = debit.after
            BY <2>2, <2>3, <2>4, <2>6, <4>1 DEF TypeOK
          <5>. QED
            BY <2>5, <2>6, <3>4, <4>1, <5>1
        <4>2. CASE a = d
          <5>1. m = Append(l, credit) /\ balance'[a] = credit.after
            BY <2>2, <2>3, <2>4, <2>6, <4>2 DEF TypeOK
          <5>. QED
            BY <2>5, <2>6, <3>4, <4>2, <5>1
        <4>3. CASE a \notin {f, d}
          <5>1. m = l /\ balance'[a] = balance[a]
            BY <2>2, <2>4, <4>3 DEF TypeOK
          <5>. QED
            BY <3>2, <3>3, <5>1
        <4>. QED
          BY <4>1, <4>2, <4>3
      <3>6. Len(m) \in Nat
        BY <2>2, <2>4, <2>5, <3>1 DEF TypeOK
      <3>. QED
        BY <3>5, <3>6 DEF Before
    <2>. QED
      BY <2>7, <2>8, <2>9 DEF LedgerInv, LedgerExplainsBalance
  <1>. QED
    BY <1>1, <1>2, CommittedRows

\* A statement printed from the ledger is right: with whole cents, every row of
\* an account carries the balance its amount leads to and the last one carries
\* the account's balance, whatever interleaves, fails or crashes.
THEOREM LedgerCorrect ==
    ASSUME WholeAmounts
    PROVE  Spec => []LedgerExplainsBalance
  <1> DEFINE I == TypeOK /\ Placed /\ LockInv /\ WriteInv /\ LedgerInv
  <1>1. Init => I
    BY TypeInit, LockInit, WriteInit, LedgerInit
  <1>2. I /\ [Next]_vars => I'
    BY TypeStep, PlacedStep, LockStep, WriteStep, LedgerStep
  <1>3. I => LedgerExplainsBalance
    BY DEF LedgerInv
  <1>. QED
    BY <1>1, <1>2, <1>3, PTL DEF Spec

LEMMA BalancesMoved ==
    ASSUME NEW g \in [Accounts -> Int], NEW h \in [Accounts -> Int],
           NEW f \in Accounts, NEW d \in Accounts, f # d,
           h[f] + h[d] = g[f] + g[d],
           \A a \in Accounts : a # f /\ a # d => h[a] = g[a]
    PROVE  SumFunction(h) = SumFunction(g)
  <1>1. IsFiniteSet(Accounts)
    BY AccountsAssumption
  <1>. QED
    BY <1>1, SumMoved

\* A COMMIT takes from one account what it gives to another.
LEMMA MoneyStep ==
    ASSUME WholeAmounts, TypeOK, Placed, LockInv, WriteInv, LedgerInv, [Next]_vars
    PROVE  SumFunction(balance') = SumFunction(balance)
  <1>1. CASE UNCHANGED dbVars
    BY <1>1 DEF dbVars
  <1>2. ASSUME NEW r \in Requests, Commit(r)
        PROVE  SumFunction(balance') = SumFunction(balance)
    <2> DEFINE f == order[r].from
               d == dest[r]
               n == order[r].amount
    <2>1. pc[r] = "commit" /\ pc[r] \in BothWritten
      BY <1>2 DEF Commit, Step, BothWritten
    <2>2. f \in Accounts /\ d \in Accounts /\ f # d /\ n \in Nat
      BY <2>1, BothHeld, PlacedOrder
    <2>3. newSender[r] = balance[f] - n /\ newReceiver[r] = balance[d] + n
      BY <1>2, CommitMoves DEF LedgerInv
    <2>4. balance' = [balance EXCEPT ![f] = newSender[r], ![d] = newReceiver[r]]
      BY <1>2, CommitWrites
    <2>5. balance \in [Accounts -> Nat] /\ balance' \in [Accounts -> Nat]
      BY TypeStep, PlacedStep DEF TypeOK
    <2>6. /\ balance'[f] = balance[f] - n /\ balance'[d] = balance[d] + n
          /\ \A a \in Accounts : a # f /\ a # d => balance'[a] = balance[a]
      BY <2>2, <2>3, <2>4, <2>5
    <2> HIDE DEF f, d, n
    <2>7. balance \in [Accounts -> Int] /\ balance' \in [Accounts -> Int]
      BY <2>5
    <2>8. balance'[f] + balance'[d] = balance[f] + balance[d]
      BY <2>2, <2>5, <2>6
    <2>9. IsFiniteSet(Accounts) /\ f \in Accounts /\ d \in Accounts /\ f # d
      BY <2>2, AccountsAssumption
    <2>. QED
      BY <2>6, <2>7, <2>8, <2>9, BalancesMoved
  <1>. QED
    BY <1>1, <1>2, CommittedRows

\* With whole cents no money is made or lost: whatever interleaves, fails or
\* crashes, the balances add up to what they did at the start
\* (transferService.js:85-105).
THEOREM MoneyConservedProved ==
    ASSUME WholeAmounts
    PROVE  Spec => []MoneyConserved
  <1> DEFINE I == /\ TypeOK /\ Placed /\ LockInv /\ WriteInv /\ LedgerInv
                  /\ MoneyConserved
  <1>1. Init => I
    BY TypeInit, LockInit, WriteInit, LedgerInit DEF Init, MoneyConserved
  <1>2. I /\ [Next]_vars => I'
    <2> SUFFICES ASSUME I, [Next]_vars PROVE I'
      OBVIOUS
    <2>1. TypeOK' /\ Placed' /\ LockInv' /\ WriteInv' /\ LedgerInv'
      BY TypeStep, PlacedStep, LockStep, WriteStep, LedgerStep
    <2>2. MoneyConserved'
      BY MoneyStep DEF MoneyConserved
    <2>. QED
      BY <2>1, <2>2
  <1>3. I => MoneyConserved
    OBVIOUS
  <1>. QED
    BY <1>1, <1>2, <1>3, PTL DEF Spec

-----------------------------------------------------------------------------
(* Who has paid.                                                           *)

LEMMA PaidCommit ==
    ASSUME TypeOK, Placed, LockInv, WriteInv, NEW r \in Requests, Commit(r)
    PROVE  Paid' = Paid \cup {r}
  <1> DEFINE f == order[r].from
             d == dest[r]
             debit  == Entry(r, "debit", d, newSender[r])
             credit == Entry(r, "credit", f, newReceiver[r])
  <1>1. f \in Accounts /\ d \in Accounts /\ f # d
    BY BothHeld DEF Commit, Step, BothWritten
  <1>2. rows' = [rows EXCEPT ![f] = Append(@, debit), ![d] = Append(@, credit)]
    BY CommitWrites
  <1>3. debit.transfer = r /\ debit.type = "debit" /\ credit.type = "credit"
    BY DEF Entry
  <1> HIDE DEF f, d, debit, credit
  <1>4. ASSUME NEW a \in Accounts
        PROVE  /\ DOMAIN rows[a] = 1 .. Len(rows[a]) /\ Len(rows[a]) \in Nat
               /\ \A i \in DOMAIN rows[a] :
                    i \in DOMAIN rows'[a] /\ rows'[a][i] = rows[a][i]
               /\ \A i \in DOMAIN rows'[a] : i \notin DOMAIN rows[a] =>
                    \/ a = f /\ rows'[a][i] = debit
                    \/ a = d /\ rows'[a][i] = credit
    <2>1. rows[a] \in Seq(Row)
      BY DEF TypeOK
    <2>2. CASE a = f
      <3>1. rows'[a] = Append(rows[a], debit)
        BY <1>1, <1>2, <2>2 DEF TypeOK
      <3>. QED
        BY <2>1, <2>2, <3>1
    <2>3. CASE a = d
      <3>1. rows'[a] = Append(rows[a], credit)
        BY <1>1, <1>2, <2>3 DEF TypeOK
      <3>. QED
        BY <2>1, <2>3, <3>1
    <2>4. CASE a \notin {f, d}
      <3>1. rows'[a] = rows[a]
        BY <1>1, <1>2, <2>4 DEF TypeOK
      <3>. QED
        BY <2>1, <3>1
    <2>. QED
      BY <2>2, <2>3, <2>4
  <1>5. r \in Paid'
    <2>1. rows[f] \in Seq(Row) /\ rows'[f] = Append(rows[f], debit)
      BY <1>1, <1>2 DEF TypeOK
    <2>2. /\ Len(rows[f]) + 1 \in DOMAIN rows'[f]
          /\ rows'[f][Len(rows[f]) + 1] = debit
      BY <2>1
    <2>. QED
      BY <1>1, <1>3, <2>2 DEF Paid
  <1>6. Paid \subseteq Paid'
    BY <1>4 DEF Paid
  <1>7. Paid' \subseteq Paid \cup {r}
    <2>1. ASSUME NEW q \in Paid'
          PROVE  q \in Paid \cup {r}
      <3>1. PICK a \in Accounts : \E i \in DOMAIN rows'[a] :
              rows'[a][i].transfer = q /\ rows'[a][i].type = "debit"
        BY <2>1 DEF Paid
      <3>2. PICK i \in DOMAIN rows'[a] :
              rows'[a][i].transfer = q /\ rows'[a][i].type = "debit"
        BY <3>1
      <3>3. q \in Requests
        BY <2>1 DEF Paid
      <3>. QED
        BY <1>3, <1>4, <3>2, <3>3 DEF Paid
    <2>. QED
      BY <2>1
  <1>. QED
    BY <1>5, <1>6, <1>7

LEMMA PaidSame ==
    ASSUME UNCHANGED dbVars
    PROVE  Paid' = Paid
  BY DEF Paid, dbVars

LEMMA PaidInit == Init => PaidInv
  BY DEF Init, PaidInv, Paid

LEMMA PaidStep ==
    ASSUME TypeOK, Placed, LockInv, WriteInv, PaidInv, [Next]_vars
    PROVE  PaidInv'
  <1> USE DEF TypeOK, PaidInv, Step, Finish
  <1>1. ASSUME NEW r \in Requests, NEW o \in Orders, Submit(r, o)
       PROVE  PaidInv'
    BY <1>1, PaidSame DEF Submit
  <1>2. ASSUME NEW r \in Requests, Lookup(r)
       PROVE  PaidInv'
    BY <1>2, PaidSame DEF Lookup
  <1>3. ASSUME NEW r \in Requests, NotConnected(r)
       PROVE  PaidInv'
    BY <1>3, PaidSame DEF NotConnected
  <1>4. ASSUME NEW r \in Requests, Connect(r)
       PROVE  PaidInv'
    BY <1>4, PaidSame DEF Connect
  <1>5. ASSUME NEW r \in Requests, Begin(r)
       PROVE  PaidInv'
    BY <1>5, PaidSame DEF Begin
  <1>6. ASSUME NEW r \in Requests, NEW a \in Accounts, Lock(r, a)
       PROVE  PaidInv'
    BY <1>6, PaidSame DEF Lock
  <1>7. ASSUME NEW r \in Requests, Insufficient(r)
       PROVE  PaidInv'
    BY <1>7, PaidSame DEF Insufficient
  <1>8. ASSUME NEW r \in Requests, Decide(r)
       PROVE  PaidInv'
    BY <1>8, PaidSame DEF Decide
  <1>9. ASSUME NEW r \in Requests, UpdateSender(r)
       PROVE  PaidInv'
    BY <1>9, PaidSame DEF UpdateSender
  <1>10. ASSUME NEW r \in Requests, UpdateReceiver(r)
       PROVE  PaidInv'
    BY <1>10, PaidSame DEF UpdateReceiver
  <1>11. ASSUME NEW r \in Requests, NEW a \in Accounts, InsertAccount(r, a)
       PROVE  PaidInv'
    BY <1>11, PaidSame DEF InsertAccount
  <1>12. ASSUME NEW r \in Requests, NumberCollides(r)
       PROVE  PaidInv'
    BY <1>12, PaidSame DEF NumberCollides
  <1>13. ASSUME NEW r \in Requests, RetryInsert(r)
       PROVE  PaidInv'
    BY <1>13, PaidSame DEF RetryInsert
  <1>14. ASSUME NEW r \in Requests, InsertDebit(r)
       PROVE  PaidInv'
    BY <1>14, PaidSame DEF InsertDebit
  <1>15. ASSUME NEW r \in Requests, InsertCredit(r)
       PROVE  PaidInv'
    BY <1>15, PaidSame DEF InsertCredit
  <1>16. ASSUME NEW r \in Requests, Commit(r)
       PROVE  PaidInv'
    <2>1. /\ pc[r] = "commit"
          /\ pc' = [pc EXCEPT ![r] = "committed"]
          /\ UNCHANGED outcome
      BY <1>16 DEF Commit
    <2>2. Paid' = Paid \cup {r}
      BY <1>16, PaidCommit
    <2>. QED
      BY <2>1, <2>2
  <1>17. ASSUME NEW r \in Requests, StatementFails(r)
       PROVE  PaidInv'
    BY <1>17, PaidSame DEF StatementFails
  <1>18. ASSUME NEW r \in Requests, Rollback(r)
       PROVE  PaidInv'
    BY <1>18, PaidSame DEF Rollback
  <1>19. ASSUME NEW r \in Requests, Committed(r)
       PROVE  PaidInv'
    BY <1>19, PaidSame DEF Committed
  <1>20. ASSUME NEW r \in Requests, AnswerLost(r)
       PROVE  PaidInv'
    BY <1>20, PaidSame DEF AnswerLost
  <1>21. ASSUME NEW r \in Requests, EvaluateTransfer(r)
       PROVE  PaidInv'
    BY <1>21, PaidSame DEF EvaluateTransfer
  <1>22. ASSUME Crash PROVE PaidInv'
    BY <1>22, PaidSame DEF Crash
  <1>23. CASE UNCHANGED vars
    BY <1>23, PaidSame DEF vars
  <1>. QED
    BY <1>1, <1>2, <1>3, <1>4, <1>5, <1>6, <1>7, <1>8, <1>9, <1>10, <1>11, <1>12, <1>13, <1>14, <1>15, <1>16, <1>17, <1>18, <1>19, <1>20, <1>21, <1>22, <1>23, Actions

-----------------------------------------------------------------------------
(* Both halves of a transfer.                                              *)

\* What the ledger of an account is after a COMMIT that adds a row or none.
Grown(l, m, t) ==
    /\ Len(l) \in Nat /\ Len(m) \in Nat /\ Len(l) <= Len(m)
    /\ \A i \in 1 .. Len(l) : m[i] = l[i]
    /\ \A i \in 1 .. Len(m) : i > Len(l) => i = Len(l) + 1 /\ m[i].transfer = t

Twins(l, t) == {j \in 1 .. Len(l) : l[j].transfer = t}

\* Rows of another transfer have the twins they had.
LEMMA TwinsKept ==
    ASSUME NEW l, NEW m, NEW t, NEW u, u # t, Grown(l, m, t)
    PROVE  Twins(m, u) = Twins(l, u)
  <1>1. /\ Len(l) \in Nat /\ Len(m) \in Nat /\ Len(l) <= Len(m)
        /\ \A i \in 1 .. Len(l) : m[i] = l[i]
        /\ \A i \in 1 .. Len(m) : i > Len(l) => m[i].transfer = t
    BY DEF Grown
  <1>2. ASSUME NEW i \in 1 .. Len(m), m[i].transfer = u
        PROVE  i \in 1 .. Len(l) /\ l[i].transfer = u
    BY <1>1, <1>2
  <1>3. ASSUME NEW i \in 1 .. Len(l), l[i].transfer = u
        PROVE  i \in 1 .. Len(m) /\ m[i].transfer = u
    BY <1>1, <1>3
  <1>. QED
    BY <1>2, <1>3 DEF Twins

\* The row of a transfer that had none is its only one.
LEMMA TwinIsNew ==
    ASSUME NEW l, NEW m, NEW t, Grown(l, m, t), Twins(l, t) = {},
           Len(m) = Len(l) + 1
    PROVE  Twins(m, t) = {Len(m)}
  <1>1. /\ Len(l) \in Nat /\ Len(m) \in Nat
        /\ \A i \in 1 .. Len(l) : m[i] = l[i] /\ l[i].transfer # t
        /\ \A i \in 1 .. Len(m) : i > Len(l) => i = Len(l) + 1 /\ m[i].transfer = t
    BY DEF Grown, Twins
  <1>2. Len(m) \in 1 .. Len(m) /\ m[Len(m)].transfer = t
    BY <1>1
  <1>3. ASSUME NEW i \in 1 .. Len(m), m[i].transfer = t
        PROVE  i = Len(m)
    BY <1>1, <1>3
  <1>. QED
    BY <1>2, <1>3 DEF Twins

\* What a row and its counterpart have in common, and what not.
Matched(a, row, twins, l) ==
    /\ row.peer # a
    /\ \E j \in 1 .. Len(l) :
          /\ twins = {j}
          /\ l[j].peer = a /\ l[j].amount = row.amount /\ l[j].type # row.type

\* A ledger grown by one row of transfer t.
LEMMA GrownByOne ==
    ASSUME NEW S, NEW l \in Seq(S), NEW x, NEW m, NEW t, m = Append(l, x),
           Len(m) = Len(l) + 1, m[Len(m)] = x, x.transfer = t
    PROVE  Grown(l, m, t)
  <1>1. Len(l) \in Nat /\ \A i \in 1 .. Len(l) : m[i] = l[i]
    OBVIOUS
  <1>. QED
    BY <1>1 DEF Grown

\* A row added by a transfer, the only one of its ledger, and its counterpart,
\* the last and only one of its own.
LEMMA CounterpartMatches ==
    ASSUME NEW a, NEW b, a # b, NEW row, NEW l, Len(l) \in 1 .. Len(l),
           row.peer = b, l[Len(l)].peer = a, l[Len(l)].amount = row.amount,
           l[Len(l)].type # row.type, NEW t, Twins(l, t) = {Len(l)}
    PROVE  Matched(a, row, Twins(l, t), l)
  BY DEF Matched

LEMMA DoubleEntryMatched ==
    DoubleEntry <=>
        \A a \in Accounts : \A i \in 1 .. Len(rows[a]) :
            Matched(a, rows[a][i],
                    Twins(rows[rows[a][i].peer], rows[a][i].transfer),
                    rows[rows[a][i].peer])
  BY DEF DoubleEntry, Matched, Twins

LEMMA DoubleEntryMatchedNext ==
    DoubleEntry' <=>
        \A a \in Accounts : \A i \in 1 .. Len(rows'[a]) :
            Matched(a, rows'[a][i],
                    Twins(rows'[rows'[a][i].peer], rows'[a][i].transfer),
                    rows'[rows'[a][i].peer])
  BY DEF DoubleEntry, Matched, Twins

\* A transfer with a row, of either kind, has paid.
LEMMA RowsArePaid ==
    ASSUME TypeOK, DoubleEntry, NEW a \in Accounts, NEW i \in 1 .. Len(rows[a])
    PROVE  rows[a][i].transfer \in Paid
  <1> DEFINE row == rows[a][i]
             l == rows[row.peer]
  <1>1. rows[a] \in Seq(Row) /\ row \in Row
    BY DEF TypeOK
  <1>2. row.peer \in Accounts /\ row.transfer \in Requests /\ row.type \in {"debit", "credit"}
    BY <1>1 DEF Row
  <1>3. CASE row.type = "debit"
    BY <1>1, <1>2, <1>3 DEF Paid
  <1>4. CASE row.type = "credit"
    <2>0. Matched(a, row, Twins(l, row.transfer), l)
      BY DoubleEntryMatched
    <2>t. l \in Seq(Row)
      BY <1>2 DEF TypeOK
    <2> HIDE DEF row, l
    <2>1. PICK j \in 1 .. Len(l) : Twins(l, row.transfer) = {j} /\ l[j].type # row.type
      BY <2>0 DEF Matched
    <2>2. l[j] \in Row /\ j \in DOMAIN l
      BY <2>t
    <2>3. l[j].type = "debit" /\ l[j].transfer = row.transfer /\ j \in DOMAIN l
      <3>1. l[j].type \in {"debit", "credit"}
        BY <2>2 DEF Row
      <3>2. j \in Twins(l, row.transfer)
        BY <2>1
      <3>. QED
        BY <1>4, <2>1, <2>2, <3>1, <3>2 DEF Twins
    <2> USE DEF row, l
    <2>. QED
      BY <1>2, <2>3 DEF Paid
  <1>. QED
    BY <1>2, <1>3, <1>4

LEMMA DoubleEntryStep ==
    ASSUME TypeOK, Placed, LockInv, WriteInv, PaidInv, DoubleEntry, [Next]_vars
    PROVE  DoubleEntry'
  <1>1. CASE UNCHANGED dbVars
    BY <1>1 DEF dbVars, DoubleEntry
  <1>2. ASSUME NEW r \in Requests, Commit(r)
        PROVE  DoubleEntry'
    <2> DEFINE f == order[r].from
               d == dest[r]
               debit  == Entry(r, "debit", d, newSender[r])
               credit == Entry(r, "credit", f, newReceiver[r])
    <2>1. pc[r] = "commit" /\ f \in Accounts /\ d \in Accounts /\ f # d
      BY <1>2, BothHeld DEF Commit, Step, BothWritten
    <2>2. rows' = [rows EXCEPT ![f] = Append(@, debit), ![d] = Append(@, credit)]
      BY <1>2, CommitWrites
    <2>3. /\ debit.transfer = r /\ debit.type = "debit" /\ debit.peer = d
          /\ credit.transfer = r /\ credit.type = "credit" /\ credit.peer = f
          /\ credit.amount = debit.amount
      BY DEF Entry
    <2>4. \A a \in Accounts : Twins(rows[a], r) = {}
      <3>1. r \notin Paid
        BY <2>1 DEF PaidInv
      <3>. QED
        BY <3>1, RowsArePaid DEF Twins
    <2> HIDE DEF f, d, debit, credit
    <2>5. /\ rows'[f] = Append(rows[f], debit) /\ rows'[d] = Append(rows[d], credit)
          /\ \A a \in Accounts : a # f /\ a # d => rows'[a] = rows[a]
          /\ \A a \in Accounts : rows[a] \in Seq(Row)
      BY <2>1, <2>2 DEF TypeOK
    <2>6. /\ Len(rows'[f]) = Len(rows[f]) + 1 /\ rows'[f][Len(rows'[f])] = debit
          /\ Len(rows'[d]) = Len(rows[d]) + 1 /\ rows'[d][Len(rows'[d])] = credit
      BY <2>1, <2>5
    <2>7. ASSUME NEW a \in Accounts PROVE Grown(rows[a], rows'[a], r)
      <3>1. CASE a = f
        BY <2>1, <2>3, <2>5, <2>6, <3>1, GrownByOne
      <3>2. CASE a = d
        BY <2>1, <2>3, <2>5, <2>6, <3>2, GrownByOne
      <3>3. CASE a # f /\ a # d
        BY <2>5, <3>3 DEF Grown
      <3>. QED
        BY <3>1, <3>2, <3>3
    <2>8. /\ Twins(rows'[f], r) = {Len(rows'[f])} /\ Len(rows'[f]) \in 1 .. Len(rows'[f])
          /\ Twins(rows'[d], r) = {Len(rows'[d])} /\ Len(rows'[d]) \in 1 .. Len(rows'[d])
      <3>1. Len(rows[f]) \in Nat /\ Len(rows[d]) \in Nat
        BY <2>1, <2>5
      <3>2. Grown(rows[f], rows'[f], r) /\ Grown(rows[d], rows'[d], r)
        BY <2>1, <2>7
      <3>3. Twins(rows[f], r) = {} /\ Twins(rows[d], r) = {}
        BY <2>1, <2>4
      <3>4. Twins(rows'[f], r) = {Len(rows'[f])}
        BY <2>6, <3>2, <3>3, TwinIsNew
      <3>5. Twins(rows'[d], r) = {Len(rows'[d])}
        BY <2>6, <3>2, <3>3, TwinIsNew
      <3>. QED
        BY <2>6, <3>1, <3>4, <3>5
    <2>9. ASSUME NEW a \in Accounts, NEW i \in 1 .. Len(rows'[a])
          PROVE  Matched(a, rows'[a][i],
                         Twins(rows'[rows'[a][i].peer], rows'[a][i].transfer),
                         rows'[rows'[a][i].peer])
      <3>1. CASE i \in 1 .. Len(rows[a])
        <4> DEFINE row == rows[a][i]
        <4>0. rows[a] \in Seq(Row) /\ Grown(rows[a], rows'[a], r)
          BY <2>5, <2>7
        <4>1. rows'[a][i] = row /\ row \in Row /\ row.peer \in Accounts
          <5>1. row \in Row
            BY <3>1, <4>0
          <5>2. row.peer \in Accounts
            BY <5>1 DEF Row
          <5>. QED
            BY <3>1, <4>0, <5>1, <5>2 DEF Grown
        <4>2. row.transfer # r
          BY <2>4, <3>1 DEF Twins
        <4> DEFINE l == rows[row.peer]
                   m == rows'[row.peer]
        <4>3. Matched(a, row, Twins(l, row.transfer), l)
          BY <3>1, DoubleEntryMatched
        <4>4. Grown(l, m, r)
          BY <2>7, <4>1
        <4>5. Twins(m, row.transfer) = Twins(l, row.transfer)
          BY <4>2, <4>4, TwinsKept
        <4> HIDE DEF row, l, m
        <4>6. \A j \in 1 .. Len(l) : j \in 1 .. Len(m) /\ m[j] = l[j]
          BY <4>4 DEF Grown
        <4>7. Matched(a, row, Twins(m, row.transfer), m)
          BY <4>3, <4>5, <4>6 DEF Matched
        <4>. QED
          BY <4>1, <4>7 DEF row, m
      <3>2. CASE i \notin 1 .. Len(rows[a])
        <4>1. i = Len(rows'[a]) /\ (a = f \/ a = d)
          BY <2>1, <2>5, <2>6, <2>7, <3>2 DEF Grown
        <4>2. CASE a = f
          <5>1. rows'[a][i] = debit
            BY <2>6, <4>1, <4>2
          <5>2. rows'[d][Len(rows'[d])].type # debit.type
            BY <2>3, <2>6
          <5>3. Matched(a, debit, Twins(rows'[d], r), rows'[d])
            BY <2>1, <2>3, <2>6, <2>8, <4>2, <5>2, CounterpartMatches
          <5>. QED
            BY <2>3, <5>1, <5>3
        <4>3. CASE a = d
          <5>1. rows'[a][i] = credit
            BY <2>6, <4>1, <4>3
          <5>2. rows'[f][Len(rows'[f])].type # credit.type
            BY <2>3, <2>6
          <5>3. Matched(a, credit, Twins(rows'[f], r), rows'[f])
            BY <2>1, <2>3, <2>6, <2>8, <4>3, <5>2, CounterpartMatches
          <5>. QED
            BY <2>3, <5>1, <5>3
        <4>. QED
          BY <4>1, <4>2, <4>3
      <3>. QED
        BY <3>1, <3>2
    <2>. QED
      BY <2>9, DoubleEntryMatchedNext
  <1>. QED
    BY <1>1, <1>2, CommittedRows

\* Every debit has its credit and every credit its debit, in the ledger of the
\* other account, of the same amount and for the same transfer, whatever crashes
\* between the two INSERTs (transferService.js:94-105).
THEOREM DoubleEntryProved == Spec => []DoubleEntry
  <1> DEFINE I == IInv /\ DoubleEntry
  <1>1. Init => I
    BY TypeInit, LockInit, WriteInit, PaidInit DEF IInv, Init, DoubleEntry
  <1>2. I /\ [Next]_vars => I'
    BY TypeStep, PlacedStep, LockStep, WriteStep, PaidStep, DoubleEntryStep
       DEF IInv
  <1>3. I => DoubleEntry
    OBVIOUS
  <1>. QED
    BY <1>1, <1>2, <1>3, PTL DEF Spec

\* Whatever way a call leaves withTransaction, it keeps no row locked and gives
\* its connection back (db.js:37-50).
THEOREM NothingLeaksProved == Spec => []NothingLeaks
  <1>1. NoLostUpdate /\ NothingLeaks => NothingLeaks
    OBVIOUS
  <1>. QED
    BY <1>1, LocksCorrect, PTL

-----------------------------------------------------------------------------
(* No set of requests waits for one another: rows are locked in the order  *)
(* of their ids, so whoever waits for the highest row waits for a request  *)
(* that can go on.                                                         *)

\* A request that is still locking holds only rows that come, in the order of
\* the ids, before every row it has still to lock.
OrderedInv ==
    \A q \in Requests : pc[q] = "lock" =>
        \A a, b \in Accounts :
            holder[a] = q /\ b \in LockSet(q) /\ holder[b] # q => a < b

LEMMA OrderedInit == Init => OrderedInv
  BY DEF Init, OrderedInv

LEMMA OrderedKept ==
    ASSUME OrderedInv,
           \A q \in Requests : pc'[q] = "lock" =>
               /\ pc[q] = "lock"
               /\ order'[q] = order[q]
               /\ \A a \in Accounts : holder'[a] = q <=> holder[a] = q
    PROVE  OrderedInv'
  BY DEF OrderedInv, LockSet

LEMMA OrderedStep ==
    ASSUME TypeOK, Placed, LockInv, OrderedInv, [Next]_vars
    PROVE  OrderedInv'
  <1> USE DEF TypeOK, Step, Finish
  <1>1. ASSUME NEW r \in Requests, NEW o \in Orders, Submit(r, o)
       PROVE  OrderedInv'
    BY <1>1, OrderedKept DEF Submit
  <1>2. ASSUME NEW r \in Requests, Lookup(r)
       PROVE  OrderedInv'
    BY <1>2, OrderedKept DEF Lookup
  <1>3. ASSUME NEW r \in Requests, NotConnected(r)
       PROVE  OrderedInv'
    BY <1>3, OrderedKept DEF NotConnected
  <1>4. ASSUME NEW r \in Requests, Connect(r)
       PROVE  OrderedInv'
    BY <1>4, OrderedKept DEF Connect
  <1>5. ASSUME NEW r \in Requests, Begin(r)
       PROVE  OrderedInv'
    <2>1. /\ pc' = [pc EXCEPT ![r] = "lock"]
          /\ UNCHANGED <<order, holder>>
      BY <1>5 DEF Begin
    <2>2. \A a \in Accounts : holder[a] # r
      BY <1>5 DEF Begin, LockInv
    <2>. QED
      BY <2>1, <2>2 DEF OrderedInv, LockSet
  <1>6. ASSUME NEW r \in Requests, NEW a \in Accounts, Lock(r, a)
       PROVE  OrderedInv'
    <2>1. /\ pc[r] = "lock"
          /\ a \in ToLock(r) /\ \A b \in ToLock(r) : a <= b
          /\ holder[a] = None
          /\ holder' = [holder EXCEPT ![a] = r]
          /\ pc' = [pc EXCEPT ![r] = IF ToLock(r) = {a} THEN "decide" ELSE "lock"]
          /\ order' = order
      BY <1>6 DEF Lock, IsNext, IsFree
    <2>2. ASSUME NEW b \in Accounts, NEW c \in Accounts,
                 holder'[b] = r, c \in LockSet(r), holder'[c] # r
          PROVE  b < c
      <3>1. c \in ToLock(r) /\ c # a
        BY <2>1, <2>2 DEF ToLock, Held
      <3>2. a < c
        BY <2>1, <3>1, AccountsAssumption
      <3>3. b = a \/ (holder[b] = r /\ holder[c] # r)
        BY <2>1, <2>2
      <3>. QED
        BY <2>1, <2>2, <3>2, <3>3 DEF OrderedInv
    <2>3. LockSet(r)' = LockSet(r)
      BY <2>1 DEF LockSet
    <2>4. ASSUME NEW q \in Requests, q # r, pc'[q] = "lock"
          PROVE  /\ pc[q] = "lock"
                 /\ LockSet(q)' = LockSet(q)
                 /\ \A b \in Accounts : holder'[b] = q <=> holder[b] = q
      BY <2>1, <2>4, NoneAssumption DEF LockSet
    <2>5. ASSUME NEW q \in Requests, pc'[q] = "lock",
                 NEW b \in Accounts, NEW c \in Accounts,
                 holder'[b] = q, c \in LockSet(q)', holder'[c] # q
          PROVE  b < c
      <3>1. CASE q = r
        BY <2>2, <2>3, <2>5, <3>1
      <3>2. CASE q # r
        <4>1. pc[q] = "lock" /\ c \in LockSet(q)
          BY <2>4, <2>5, <3>2
        <4>2. holder[b] = q /\ holder[c] # q
          BY <2>4, <2>5, <3>2
        <4>. QED
          BY <4>1, <4>2 DEF OrderedInv
      <3>. QED
        BY <3>1, <3>2
    <2>. QED
      BY <2>5 DEF OrderedInv
  <1>7. ASSUME NEW r \in Requests, Insufficient(r)
       PROVE  OrderedInv'
    BY <1>7, OrderedKept DEF Insufficient
  <1>8. ASSUME NEW r \in Requests, Decide(r)
       PROVE  OrderedInv'
    BY <1>8, OrderedKept DEF Decide
  <1>9. ASSUME NEW r \in Requests, UpdateSender(r)
       PROVE  OrderedInv'
    BY <1>9, OrderedKept DEF UpdateSender
  <1>10. ASSUME NEW r \in Requests, UpdateReceiver(r)
       PROVE  OrderedInv'
    BY <1>10, OrderedKept DEF UpdateReceiver
  <1>11. ASSUME NEW r \in Requests, NEW a \in Accounts, InsertAccount(r, a)
       PROVE  OrderedInv'
    <2>1. /\ pc[r] = "insertAccount" /\ pc' = [pc EXCEPT ![r] = "insertDebit"]
          /\ holder[a] = None /\ holder' = [holder EXCEPT ![a] = r]
          /\ order' = order
      BY <1>11 DEF InsertAccount
    <2>. QED
      BY <2>1, OrderedKept, NoneAssumption
  <1>12. ASSUME NEW r \in Requests, NumberCollides(r)
       PROVE  OrderedInv'
    BY <1>12, OrderedKept DEF NumberCollides
  <1>13. ASSUME NEW r \in Requests, RetryInsert(r)
       PROVE  OrderedInv'
    BY <1>13, OrderedKept DEF RetryInsert
  <1>14. ASSUME NEW r \in Requests, InsertDebit(r)
       PROVE  OrderedInv'
    BY <1>14, OrderedKept DEF InsertDebit
  <1>15. ASSUME NEW r \in Requests, InsertCredit(r)
       PROVE  OrderedInv'
    BY <1>15, OrderedKept DEF InsertCredit
  <1>16. ASSUME NEW r \in Requests, Commit(r)
       PROVE  OrderedInv'
    <2>1. /\ Discard(r)
          /\ pc' = [pc EXCEPT ![r] = "committed"]
          /\ order' = order
      BY <1>16 DEF Commit
    <2>2. \A q \in Requests \ {r} : \A a \in Accounts :
            holder'[a] = q <=> holder[a] = q
      BY <2>1, DiscardOthers
    <2>. QED
      BY <2>1, <2>2, OrderedKept
  <1>17. ASSUME NEW r \in Requests, StatementFails(r)
       PROVE  OrderedInv'
    BY <1>17, OrderedKept DEF StatementFails
  <1>18. ASSUME NEW r \in Requests, Rollback(r)
       PROVE  OrderedInv'
    <2>1. /\ Discard(r)
          /\ pc' = [pc EXCEPT ![r] = "done"]
          /\ order' = order
      BY <1>18 DEF Rollback
    <2>2. \A q \in Requests \ {r} : \A a \in Accounts :
            holder'[a] = q <=> holder[a] = q
      BY <2>1, DiscardOthers
    <2>. QED
      BY <2>1, <2>2, OrderedKept
  <1>19. ASSUME NEW r \in Requests, Committed(r)
       PROVE  OrderedInv'
    BY <1>19, OrderedKept DEF Committed
  <1>20. ASSUME NEW r \in Requests, AnswerLost(r)
       PROVE  OrderedInv'
    BY <1>20, OrderedKept DEF AnswerLost
  <1>21. ASSUME NEW r \in Requests, EvaluateTransfer(r)
       PROVE  OrderedInv'
    BY <1>21, OrderedKept DEF EvaluateTransfer
  <1>22. CASE Crash
    BY <1>22, OrderedKept DEF Crash
  <1>23. CASE UNCHANGED vars
    BY <1>23, OrderedKept DEF vars
  <1>. QED
    BY <1>1, <1>2, <1>3, <1>4, <1>5, <1>6, <1>7, <1>8, <1>9, <1>10, <1>11, <1>12, <1>13, <1>14, <1>15, <1>16, <1>17, <1>18, <1>19, <1>20, <1>21, <1>22, <1>23, Actions

-----------------------------------------------------------------------------
(* From the order to the absence of a cycle.                               *)

\* A nonempty finite set of account ids has a greatest element.
LEMMA Greatest ==
    ASSUME NEW W \in SUBSET Accounts, W # {}
    PROVE  \E m \in W : \A a \in W : a <= m
  <1> DEFINE HasGreatest(V) == \E m \in V : \A a \in V : a <= m
             Bad == {V \in SUBSET Accounts : V # {} /\ ~HasGreatest(V)}
  <1>1. SUFFICES ASSUME W \in Bad
                 PROVE  FALSE
    OBVIOUS
  <1>2. PICK V \in Bad : \A U \in SUBSET V : U # V => U \notin Bad
    <2>1. Bad \in SUBSET SUBSET Accounts /\ Bad # {} /\ IsFiniteSet(Accounts)
      BY <1>1, AccountsAssumption
    <2>. HIDE DEF Bad
    <2>. QED
      BY <2>1, SmallestSet
  <1>3. PICK x \in V : TRUE
    OBVIOUS
  <1>4. V \ {x} # {}
    <2>1. SUFFICES ASSUME V \ {x} = {}
                   PROVE  FALSE
      OBVIOUS
    <2>2. \A a \in V : a = x
      BY <2>1
    <2>3. x \in Nat
      BY AccountsAssumption
    <2>. QED
      BY <1>2, <1>3, <2>2, <2>3
  <1>5. HasGreatest(V \ {x})
    BY <1>2, <1>3, <1>4
  <1>6. PICK m \in V \ {x} : \A a \in V \ {x} : a <= m
    BY <1>5
  <1>7. V \subseteq Nat
    BY AccountsAssumption
  <1>8. CASE x <= m
    BY <1>2, <1>6, <1>7, <1>8
  <1>9. CASE ~(x <= m)
    <2>1. \A a \in V : a <= x
      BY <1>3, <1>6, <1>7, <1>9
    <2>. QED
      BY <1>2, <1>3, <2>1
  <1>. QED
    BY <1>8, <1>9

LEMMA OrderedNoDeadlock ==
    ASSUME TypeOK, OrderedInv
    PROVE  NoDeadlock
  <1>. SUFFICES ASSUME NEW S \in (SUBSET Requests) \ {{}}
                PROVE  \E r \in S : \A s \in S : ~WaitsFor(r, s)
    BY Zenon DEF NoDeadlock
  <1>1. SUFFICES ASSUME \A r \in S : \E s \in S : WaitsFor(r, s)
                 PROVE  FALSE
    OBVIOUS
  <1> DEFINE W == {a \in Accounts : \E r, s \in S :
                      pc[r] = "lock" /\ IsNext(r, a) /\ holder[a] = s}
  <1>2. ASSUME NEW r \in S
        PROVE  \E a \in W : pc[r] = "lock" /\ IsNext(r, a)
    BY <1>1 DEF WaitsFor
  <1>3. PICK m \in W : \A a \in W : a <= m
    <2>1. W # {}
      <3>0. S # {}
        BY Zenon
      <3>1. PICK r \in S : TRUE
        BY <3>0
      <3> HIDE DEF W
      <3>. QED
        BY <1>2, <3>1
    <2>2. W \in SUBSET Accounts
      OBVIOUS
    <2> HIDE DEF W
    <2>. QED
      BY <2>1, <2>2, Greatest
  <1>4. PICK s \in S : holder[m] = s
    OBVIOUS
  <1>5. PICK b \in W : pc[s] = "lock" /\ IsNext(s, b)
    BY <1>2
  <1>6. m < b
    BY <1>4, <1>5 DEF OrderedInv, IsNext, ToLock, Held
  <1>7. b <= m
    <2> HIDE DEF W
    <2>. QED
      BY <1>3
  <1>8. m \in Nat /\ b \in Nat
    BY AccountsAssumption
  <1>. QED
    BY <1>6, <1>7, <1>8

\* The lock order prevents deadlock (transferService.js:21-23): in every set of
\* requests somebody waits for nobody in it, for any finite set of accounts.
THEOREM DeadlockFree == Spec => []NoDeadlock
  <1> DEFINE I == TypeOK /\ Placed /\ LockInv /\ OrderedInv
  <1>1. Init => I
    BY TypeInit, LockInit, OrderedInit
  <1>2. I /\ [Next]_vars => I'
    BY TypeStep, PlacedStep, LockStep, OrderedStep
  <1>3. I => NoDeadlock
    BY OrderedNoDeadlock
  <1>. QED
    BY <1>1, <1>2, <1>3, PTL DEF Spec
=============================================================================
