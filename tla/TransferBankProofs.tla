------------------------- MODULE TransferBankProofs -------------------------
(***************************************************************************)
(* TransferService implements Bank: every step of it is a step of the      *)
(* abstract bank or changes nothing the bank knows of.                     *)
(***************************************************************************)
EXTENDS TransferServiceProofs

\* The same state of the bank.
Stutter == UNCHANGED <<order, dbVars, Told>>

LEMMA StutterUnchanged == Stutter => UNCHANGED B!bankVars
  <1>1. Stutter => Paid' = Paid
    BY PaidSame DEF Stutter
  <1>. QED
    BY <1>1 DEF Stutter, dbVars, B!bankVars

\* A step to a state other than "done" tells nobody anything.
LEMMA StepStutters ==
    ASSUME TypeOK, NEW r \in Requests, NEW here, NEW there,
           here # "done", there # "done", Step(r, here, there),
           \A q \in Requests \ {r} : outcome'[q] = outcome[q],
           UNCHANGED <<order, dbVars>>
    PROVE  Stutter
  <1>1. pc[r] # "done" /\ pc'[r] # "done"
    BY DEF TypeOK, Step
  <1>2. ASSUME NEW q \in Requests, q # r
        PROVE  pc'[q] = pc[q] /\ outcome'[q] = outcome[q]
    BY <1>2 DEF TypeOK, Step
  <1>3. Told' = Told
    BY <1>1, <1>2 DEF Told
  <1>. QED
    BY <1>3 DEF Stutter

\* A request that finishes tells its outcome.
LEMMA FinishTells ==
    ASSUME TypeOK, Placed, PaidInv', NEW r \in Requests, NEW here, NEW result,
           here \notin {"done", "idle"}, Finish(r, here, result),
           UNCHANGED <<order, dbVars>>
    PROVE  B!Tell(r, result)
  <1>1. /\ pc[r] = here /\ pc'[r] = "done"
        /\ outcome'[r] = result
    BY DEF TypeOK, Finish, Step
  <1>2. ASSUME NEW q \in Requests, q # r
        PROVE  pc'[q] = pc[q] /\ outcome'[q] = outcome[q]
    BY <1>2 DEF TypeOK, Finish, Step
  <1>3. Told' = [Told EXCEPT ![r] = result] /\ Told[r] = "none"
    BY <1>1, <1>2 DEF Told
  <1>4. Paid' = Paid
    BY PaidSame
  <1>5. /\ result = "ok" => r \in Paid
        /\ result = "rejected" => r \notin Paid
    BY <1>1, <1>4 DEF PaidInv
  <1>6. order[r] # None
    BY <1>1 DEF Placed
  <1>. QED
    BY <1>3, <1>4, <1>5, <1>6 DEF dbVars, B!Tell

LEMMA SubmitPlaces ==
    ASSUME TypeOK, Placed, NEW r \in Requests, NEW o \in Orders, Submit(r, o)
    PROVE  B!Place(r)
  <1>1. pc[r] = "idle" /\ pc'[r] = "lookup" /\ UNCHANGED outcome
    BY DEF Submit, Step, TypeOK
  <1>2. Told' = Told
    <2>1. ASSUME NEW q \in Requests, q # r
          PROVE  pc'[q] = pc[q]
      BY <2>1 DEF Submit, Step, TypeOK
    <2>. QED
      BY <1>1, <2>1 DEF Told
  <1>3. order[r] = None /\ order' = [order EXCEPT ![r] = o] /\ UNCHANGED dbVars
    BY DEF Submit, Step, Placed
  <1>4. Paid' = Paid
    BY <1>3, PaidSame
  <1>. QED
    BY <1>2, <1>3, <1>4 DEF B!Place, dbVars

LEMMA CommitPays ==
    ASSUME WholeAmounts, TypeOK, Placed, LockInv, WriteInv, PaidInv, LedgerInv,
           NEW r \in Requests, Commit(r)
    PROVE  B!Pay(r, order[r].from, dest[r]) \/ B!Open(r, order[r].from, dest[r])
  <1> DEFINE f == order[r].from
             d == dest[r]
  <1>1. pc[r] = "commit" /\ pc' = [pc EXCEPT ![r] = "committed"]
        /\ UNCHANGED <<order, outcome>>
    BY DEF Commit, Step
  <1>2. order[r] \in Orders /\ order[r] # None
    BY <1>1 DEF TypeOK, Placed
  <1>3. f \in Accounts /\ d \in Accounts /\ f # d
    BY <1>1, BothHeld DEF BothWritten
  <1>4. /\ newSender[r] = balance[f] - order[r].amount
        /\ newReceiver[r] = balance[d] + order[r].amount
        /\ balance[f] >= order[r].amount
    BY CommitMoves DEF LedgerInv
  <1>5. balance' = [balance EXCEPT ![f] = newSender[r], ![d] = newReceiver[r]]
    BY CommitWrites
  <1>6. balance' = [balance EXCEPT ![f] = @ - order[r].amount,
                                   ![d] = @ + order[r].amount]
    BY <1>3, <1>4, <1>5 DEF TypeOK
  <1>7. owner[f] = order[r].user
        /\ (order[r].op = "transfer" => owner[order[r].to] # None)
    BY <1>1 DEF LockInv, Checked, TxStates
  <1>8. UNCHANGED Told
    <2>1. ASSUME NEW q \in Requests
          PROVE  (pc'[q] = "done") <=> (pc[q] = "done")
      BY <1>1 DEF TypeOK
    <2>. QED
      BY <1>1, <2>1 DEF Told
  <1>9. Told[r] = "none" /\ r \notin Paid
    BY <1>1 DEF Told, PaidInv
  <1>10. Paid' = Paid \cup {r}
    BY PaidCommit
  <1>11. B!Move(r, f, d)
    BY <1>1, <1>2, <1>3, <1>4, <1>6, <1>7, <1>8, <1>9, <1>10 DEF B!Move
  <1>12. CASE order[r].op = "transfer"
    <2>1. d = order[r].to
      BY <1>1, <1>12 DEF Placed
    <2>2. UNCHANGED owner
      BY <1>12 DEF Commit
    <2>. QED
      BY <1>7, <1>11, <1>12, <2>1, <2>2 DEF B!Pay
  <1>13. CASE order[r].op = "fixedDeposit"
    <2>1. owner[d] = None
      BY <1>1, <1>13 DEF LockInv, BothWritten
    <2>2. owner' = [owner EXCEPT ![d] = order[r].user]
      BY <1>13 DEF Commit
    <2>. QED
      BY <1>11, <1>13, <2>1, <2>2 DEF B!Open
  <1>. QED
    BY <1>2, <1>12, <1>13, OrderFields

LEMMA CrashStutters ==
    ASSUME TypeOK, Crash
    PROVE  Stutter
  <1>1. ASSUME NEW q \in Requests
        PROVE  /\ pc[q] = "done" => pc'[q] = "done" /\ outcome'[q] = outcome[q]
               /\ pc[q] # "done" => pc'[q] # "done"
    BY DEF Crash
  <1>2. Told' = Told
    BY <1>1 DEF Told
  <1>. QED
    BY <1>2 DEF Crash, Stutter

LEMMA BankInit == Init => B!Init
  BY DEF Init, B!Init, Told, Paid

\* Every step of TransferService, seen from the bank.
LEMMA BankStep ==
    ASSUME WholeAmounts, TypeOK, Placed, LockInv, WriteInv, PaidInv, LedgerInv,
           PaidInv', [Next]_vars
    PROVE  B!Next \/ Stutter
  <1>1. ASSUME NEW r \in Requests, NEW o \in Orders, Submit(r, o)
       PROVE  B!Next \/ Stutter
    BY <1>1, SubmitPlaces DEF B!Next
  <1>2. ASSUME NEW r \in Requests, Lookup(r)
       PROVE  B!Next \/ Stutter
    <2>1. CASE Finish(r, "lookup", "rejected")
      BY <1>2, <2>1, FinishTells DEF Lookup, B!Next
    <2>2. CASE Step(r, "lookup", "connect") /\ UNCHANGED outcome
      BY <1>2, <2>2, StepStutters DEF Lookup
    <2>. QED
      BY <1>2, <2>1, <2>2 DEF Lookup
  <1>3. ASSUME NEW r \in Requests, NotConnected(r)
       PROVE  B!Next \/ Stutter
    <2>1. PICK here \in {"lookup", "connect"} : Finish(r, here, "error")
      BY <1>3 DEF NotConnected
    <2>2. B!Tell(r, "error")
      BY <1>3, <2>1, FinishTells DEF NotConnected
    <2>. QED
      BY <2>2 DEF B!Next
  <1>4. ASSUME NEW r \in Requests, Connect(r)
       PROVE  B!Next \/ Stutter
    BY <1>4, StepStutters DEF Connect, dbVars
  <1>5. ASSUME NEW r \in Requests, Begin(r)
       PROVE  B!Next \/ Stutter
    BY <1>5, StepStutters DEF Begin, dbVars
  <1>6. ASSUME NEW r \in Requests, NEW a \in Accounts, Lock(r, a)
       PROVE  B!Next \/ Stutter
    <2>1. CASE ToLock(r) = {a}
      BY <1>6, <2>1, StepStutters DEF Lock, Step, dbVars
    <2>2. CASE ToLock(r) # {a}
      BY <1>6, <2>2, StepStutters DEF Lock, Step, dbVars
    <2>. QED
      BY <2>1, <2>2
  <1>7. ASSUME NEW r \in Requests, Insufficient(r)
       PROVE  B!Next \/ Stutter
    BY <1>7, StepStutters DEF Insufficient, dbVars
  <1>8. ASSUME NEW r \in Requests, Decide(r)
       PROVE  B!Next \/ Stutter
    BY <1>8, StepStutters DEF Decide, dbVars
  <1>9. ASSUME NEW r \in Requests, UpdateSender(r)
       PROVE  B!Next \/ Stutter
    BY <1>9, StepStutters DEF UpdateSender, dbVars
  <1>10. ASSUME NEW r \in Requests, UpdateReceiver(r)
       PROVE  B!Next \/ Stutter
    BY <1>10, StepStutters DEF UpdateReceiver, dbVars
  <1>11. ASSUME NEW r \in Requests, NEW a \in Accounts, InsertAccount(r, a)
       PROVE  B!Next \/ Stutter
    BY <1>11, StepStutters DEF InsertAccount, dbVars
  <1>12. ASSUME NEW r \in Requests, NumberCollides(r)
       PROVE  B!Next \/ Stutter
    BY <1>12, StepStutters DEF NumberCollides, dbVars
  <1>13. ASSUME NEW r \in Requests, RetryInsert(r)
       PROVE  B!Next \/ Stutter
    BY <1>13, StepStutters DEF RetryInsert, dbVars
  <1>14. ASSUME NEW r \in Requests, InsertDebit(r)
       PROVE  B!Next \/ Stutter
    BY <1>14, StepStutters DEF InsertDebit, dbVars
  <1>15. ASSUME NEW r \in Requests, InsertCredit(r)
       PROVE  B!Next \/ Stutter
    BY <1>15, StepStutters DEF InsertCredit, dbVars
  <1>16. ASSUME NEW r \in Requests, Commit(r)
       PROVE  B!Next \/ Stutter
    <2>1. order[r].from \in Accounts /\ dest[r] \in Accounts
      BY <1>16, BothHeld DEF Commit, Step, BothWritten
    <2>. QED
      BY <1>16, <2>1, CommitPays DEF B!Next
  <1>17. ASSUME NEW r \in Requests, StatementFails(r)
       PROVE  B!Next \/ Stutter
    BY <1>17, StepStutters DEF StatementFails, dbVars
  <1>18. ASSUME NEW r \in Requests, Rollback(r)
       PROVE  B!Next \/ Stutter
    <2>1. PICK result \in {outcome[r], "error"} : Finish(r, "rollback", result)
      BY <1>18 DEF Rollback
    <2>2. B!Tell(r, result)
      BY <1>18, <2>1, FinishTells DEF Rollback
    <2>3. result \in {"ok", "rejected", "error"}
      BY <2>1 DEF Finish, Step, TypeOK, PaidInv
    <2>. QED
      BY <2>2, <2>3 DEF B!Next
  <1>19. ASSUME NEW r \in Requests, Committed(r)
       PROVE  B!Next \/ Stutter
    <2>1. CASE Finish(r, "committed", "ok")
      BY <1>19, <2>1, FinishTells DEF Committed, B!Next
    <2>2. CASE Step(r, "committed", "evaluate") /\ UNCHANGED outcome
      BY <1>19, <2>2, StepStutters DEF Committed
    <2>. QED
      BY <1>19, <2>1, <2>2 DEF Committed
  <1>20. ASSUME NEW r \in Requests, AnswerLost(r)
       PROVE  B!Next \/ Stutter
    <2>1. B!Tell(r, "error")
      BY <1>20, FinishTells DEF AnswerLost
    <2>. QED
      BY <2>1 DEF B!Next
  <1>21. ASSUME NEW r \in Requests, EvaluateTransfer(r)
       PROVE  B!Next \/ Stutter
    <2>1. PICK result \in {"ok", "error"} : Finish(r, "evaluate", result)
      BY <1>21 DEF EvaluateTransfer
    <2>2. B!Tell(r, result)
      BY <1>21, <2>1, FinishTells DEF EvaluateTransfer
    <2>. QED
      BY <2>2 DEF B!Next
  <1>22. CASE Crash
    BY <1>22, CrashStutters
  <1>23. CASE UNCHANGED vars
    BY <1>23 DEF vars, Stutter, Told
  <1>. QED
    BY <1>1, <1>2, <1>3, <1>4, <1>5, <1>6, <1>7, <1>8, <1>9, <1>10, <1>11, <1>12, <1>13, <1>14, <1>15, <1>16, <1>17, <1>18, <1>19, <1>20, <1>21, <1>22, <1>23, Actions

\* The transfer service implements the abstract bank when amounts are whole
\* cents: a request moves its whole amount at most once and in one step, a 2xx
\* is answered only to one that did and a 4xx only to one that did not.
THEOREM BankRefinement ==
    ASSUME WholeAmounts
    PROVE  Spec => ImplementsBank
  <1> DEFINE I == /\ TypeOK /\ Placed /\ LockInv /\ WriteInv /\ PaidInv
                  /\ LedgerInv
  <1>1. Init => I
    BY TypeInit, LockInit, WriteInit, PaidInit, LedgerInit
  <1>2. I /\ [Next]_vars => I'
    BY TypeStep, PlacedStep, LockStep, WriteStep, PaidStep, LedgerStep
  <1>3. I /\ I' /\ [Next]_vars => [B!Next]_(B!bankVars)
    BY BankStep, StutterUnchanged
  <1>. QED
    BY <1>1, <1>2, <1>3, BankInit, PTL DEF Spec, ImplementsBank, B!Spec
=============================================================================
