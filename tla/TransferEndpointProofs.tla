----------------------- MODULE TransferEndpointProofs -----------------------
(***************************************************************************)
(* Theorems about TransferEndpoint, for every set of clients and every     *)
(* number of faults.                                                       *)
(***************************************************************************)
EXTENDS TransferEndpoint, TLAPS

-----------------------------------------------------------------------------
(* The inductive invariant.                                                *)

\* Nothing is stored, about to be stored, or left with a client as answer a.
Nowhere(a) ==
    /\ updates[a] = 0
    /\ row # None => row.status # a
    /\ \A c \in Clients : answer[c] # a

\* At any time: a request past the commit has moved the money, and a 200 comes
\* from such a request.
MovedInv ==
    /\ \A c \in Clients : pc[c] = "moved" => transfers > 0
    /\ transfers = 0 => Nowhere("ok")

\* While no row is taken for abandoned: there is one row at most, it is never
\* deleted, and whoever found the key taken still sees it.
OneRow ==
    /\ row = None <=> ids = 0
    /\ row # None => ~row.old
    /\ \A c \in Clients :
        /\ pc[c] \notin {"delete", "reinsert"}
        /\ pc[c] \in {"select"} \cup Running => row # None

\* Then one request at most runs the handler: the one that inserted the row.
\* Until it answers, the row is in flight and nothing says otherwise.
OneRun ==
    \A c \in Clients : pc[c] \in Running =>
        /\ \A d \in Clients : pc[d] \in Running => d = c
        /\ \A a \in Answers : updates[a] = 0
        /\ row.status = None
        /\ Nowhere("rejected")
        /\ transfers = IF pc[c] = "execute" THEN 0 ELSE 1

\* What it answers is recorded once, and agrees with what it did.
OneAnswer ==
    /\ transfers <= 1
    /\ transfers = 1 => Nowhere("rejected")
    /\ \A a, b \in Answers : updates[a] > 0 =>
        /\ row # None /\ row.status = None
        /\ updates[a] = 1
        /\ updates[b] > 0 => b = a
    /\ row = None => transfers = 0 /\ Nowhere("rejected")

Fresh    == OneRow /\ OneRun /\ OneAnswer
FreshInv == ~aged => Fresh

IInv == TypeOK /\ MovedInv /\ FreshInv

-----------------------------------------------------------------------------
(* The steps, one by one.                                                  *)

\* What INSERT ... ON CONFLICT DO NOTHING leaves.
LEMMA InsertRowTypes ==
    ASSUME TypeOK, InsertRow
    PROVE  /\ row' \in Row /\ row' # None /\ ids' \in Nat /\ row'.id = ids'
           /\ row = None => row'.status = None /\ ~row'.old /\ ids' = ids + 1
           /\ row # None => row' = row /\ ids' = ids
<1> DEFINE new == [id |-> ids + 1, status |-> None, old |-> FALSE]
<1>1. new \in Row /\ new.id = ids + 1 /\ new.status = None /\ new.old = FALSE
  BY DEF TypeOK, Row
<1>2. new # None
  BY <1>1, NoneAssumption
<1>3. CASE row = None
  <2>1. row' = new /\ ids' = ids + 1
    BY <1>3 DEF InsertRow
  <2> HIDE DEF new
  <2>2. QED
    BY <1>1, <1>2, <1>3, <2>1 DEF TypeOK
<1>4. CASE row # None
  BY <1>4 DEF InsertRow, TypeOK
<1>5. QED
  BY <1>3, <1>4

LEMMA DeleteRowTypes ==
    ASSUME TypeOK, NEW c \in Clients, DeleteRow(c)
    PROVE  /\ row' \in Row \cup {None}
           /\ row' # None => row' = row
BY DEF TypeOK, DeleteRow

-----------------------------------------------------------------------------
(* Types.                                                                  *)

LEMMA InitTypes == Init => TypeOK
<1> SUFFICES ASSUME Init PROVE TypeOK
  OBVIOUS
<1>1. pc \in [Clients -> {"idle"}]
  BY DEF Init
<1>2. row = None /\ ids \in Nat /\ transfers \in Nat /\ faults \in Nat
  BY DEF Init
<1>3. found \in [Clients -> Nat] /\ wrapped \in [Clients -> BOOLEAN]
  BY DEF Init
<1>4. updates \in [Answers -> Nat] /\ answer \in [Clients -> {"none"}]
  BY DEF Init
<1>5. QED
  BY <1>1, <1>2, <1>3, <1>4 DEF Init, TypeOK

LEMMA NextTypes == TypeOK /\ [Next]_vars => TypeOK'
<1> SUFFICES ASSUME TypeOK, [Next]_vars PROVE TypeOK'
  OBVIOUS
<1> USE DEF TypeOK, Running, Goto
<1>1. ASSUME NEW c \in Clients, Send(c) PROVE TypeOK'
  BY <1>1 DEF Send
<1>2. ASSUME NEW c \in Clients, Insert(c) PROVE TypeOK'
  BY <1>2, InsertRowTypes DEF Insert
<1>3. ASSUME NEW c \in Clients, SelectAbsent(c) PROVE TypeOK'
  BY <1>3 DEF SelectAbsent
<1>4. ASSUME NEW c \in Clients, SelectInFlight(c) PROVE TypeOK'
  BY <1>4 DEF SelectInFlight
<1>5. ASSUME NEW c \in Clients, SelectStale(c) PROVE TypeOK'
  BY <1>5 DEF SelectStale
<1>6. ASSUME NEW c \in Clients, SelectCompleted(c) PROVE TypeOK'
  BY <1>6 DEF SelectCompleted, Reply, Row
<1>7. ASSUME NEW c \in Clients, Delete(c) PROVE TypeOK'
  BY <1>7, DeleteRowTypes DEF Delete
<1>8. ASSUME NEW c \in Clients, Reinsert(c) PROVE TypeOK'
  BY <1>8, InsertRowTypes DEF Reinsert
<1>9. ASSUME NEW c \in Clients, Transfer(c) PROVE TypeOK'
  BY <1>9 DEF Transfer
<1>10. ASSUME NEW c \in Clients, Respond(c) PROVE TypeOK'
  BY <1>10 DEF Respond, Reply, Record, Outcomes, Answers
<1>11. ASSUME NEW c \in Clients, QueryFails(c) PROVE TypeOK'
  BY <1>11, InsertRowTypes, DeleteRowTypes DEF QueryFails, Reply, Answers
<1>12. ASSUME NEW c \in Clients, ResponseLost(c) PROVE TypeOK'
  BY <1>12 DEF ResponseLost
<1>13. ASSUME NEW a \in Answers, Update(a) PROVE TypeOK'
  BY <1>13 DEF Update, requestVars, Row
<1>14. ASSUME NEW a \in Answers, UpdateFails(a) PROVE TypeOK'
  BY <1>14 DEF UpdateFails, requestVars
<1>15. ASSUME Age PROVE TypeOK'
  BY <1>15, NoneAssumption DEF Age, InFlight, requestVars, Row
<1>16. ASSUME Crash PROVE TypeOK'
  BY <1>16 DEF Crash
<1>17. ASSUME UNCHANGED vars PROVE TypeOK'
  BY <1>17 DEF vars, requestVars
<1>18. QED
  BY <1>1, <1>2, <1>3, <1>4, <1>5, <1>6, <1>7, <1>8, <1>9, <1>10, <1>11,
     <1>12, <1>13, <1>14, <1>15, <1>16, <1>17 DEF Next, Proceed

-----------------------------------------------------------------------------
(* OkMeansMoved.                                                           *)

LEMMA InitMoved == Init => MovedInv
BY DEF Init, MovedInv, Nowhere, Answers

LEMMA NextMoved == TypeOK /\ MovedInv /\ [Next]_vars => MovedInv'
<1> SUFFICES ASSUME TypeOK, MovedInv, [Next]_vars PROVE MovedInv'
  OBVIOUS
<1> USE DEF MovedInv, Nowhere, TypeOK, Goto
<1>1. ASSUME NEW c \in Clients, Send(c) PROVE MovedInv'
  BY <1>1 DEF Send
<1>2. ASSUME NEW c \in Clients, Insert(c) PROVE MovedInv'
  BY <1>2, InsertRowTypes, NoneAssumption DEF Insert, Answers
<1>3. ASSUME NEW c \in Clients, SelectAbsent(c) PROVE MovedInv'
  BY <1>3 DEF SelectAbsent
<1>4. ASSUME NEW c \in Clients, SelectInFlight(c) PROVE MovedInv'
  BY <1>4 DEF SelectInFlight
<1>5. ASSUME NEW c \in Clients, SelectStale(c) PROVE MovedInv'
  BY <1>5 DEF SelectStale
<1>6. ASSUME NEW c \in Clients, SelectCompleted(c) PROVE MovedInv'
  BY <1>6 DEF SelectCompleted, Reply
<1>7. ASSUME NEW c \in Clients, Delete(c) PROVE MovedInv'
  BY <1>7, DeleteRowTypes DEF Delete
<1>8. ASSUME NEW c \in Clients, Reinsert(c) PROVE MovedInv'
  BY <1>8, InsertRowTypes, NoneAssumption DEF Reinsert, Answers
<1>9. ASSUME NEW c \in Clients, Transfer(c) PROVE MovedInv'
  BY <1>9 DEF Transfer
<1>10. ASSUME NEW c \in Clients, Respond(c) PROVE MovedInv'
  <2>1. PICK here \in {"execute", "moved"} : \E a \in Outcomes(here) :
          Reply(c, here, a) /\ Record(c, a)
    BY <1>10 DEF Respond
  <2>2. PICK a \in Outcomes(here) : Reply(c, here, a) /\ Record(c, a)
    BY <2>1
  <2>3. a = "ok" => transfers > 0
    BY <2>2 DEF Outcomes, Reply
  <2>4. updates'["ok"] = updates["ok"] \/ a = "ok"
    BY <2>2 DEF Record, Answers, Outcomes
  <2>5. QED
    BY <1>10, <2>2, <2>3, <2>4 DEF Respond, Reply
<1>11. ASSUME NEW c \in Clients, QueryFails(c) PROVE MovedInv'
  BY <1>11, InsertRowTypes, DeleteRowTypes, NoneAssumption
     DEF QueryFails, Reply, Answers
<1>12. ASSUME NEW c \in Clients, ResponseLost(c) PROVE MovedInv'
  BY <1>12 DEF ResponseLost
<1>13. ASSUME NEW a \in Answers, Update(a) PROVE MovedInv'
  BY <1>13 DEF Update, requestVars, Row, Answers
<1>14. ASSUME NEW a \in Answers, UpdateFails(a) PROVE MovedInv'
  BY <1>14 DEF UpdateFails, requestVars, Answers
<1>15. ASSUME Age PROVE MovedInv'
  BY <1>15, NoneAssumption DEF Age, InFlight, requestVars, Row
<1>16. ASSUME Crash PROVE MovedInv'
  BY <1>16 DEF Crash, Answers
<1>17. ASSUME UNCHANGED vars PROVE MovedInv'
  BY <1>17 DEF vars, requestVars
<1>18. QED
  BY <1>1, <1>2, <1>3, <1>4, <1>5, <1>6, <1>7, <1>8, <1>9, <1>10, <1>11,
     <1>12, <1>13, <1>14, <1>15, <1>16, <1>17 DEF Next, Proceed

-----------------------------------------------------------------------------
(* While no row is taken for abandoned.                                    *)

LEMMA InitFresh == Init => FreshInv
BY NoneAssumption DEF Init, FreshInv, Fresh, OneRow, OneRun, OneAnswer,
                      Nowhere, Running, Answers

\* What a step leaves of the invariant when it touches neither the row nor
\* the money, and lets nobody in.
Quiet ==
    /\ row' = row /\ ids' = ids /\ transfers' = transfers
    /\ \A a \in Answers : updates'[a] = updates[a] \/ updates'[a] = 0
    /\ \A c \in Clients :
        /\ pc'[c] \in Running => pc'[c] = pc[c]
        /\ pc'[c] = "select" => row # None
        /\ pc'[c] \notin {"delete", "reinsert"}
        /\ answer'[c] \in {answer[c], "none", "error"}

LEMMA QuietFresh ==
    ASSUME TypeOK, Fresh, Quiet
    PROVE  Fresh'
<1> USE DEF Fresh
<1>1. OneRow'
  BY DEF OneRow, Quiet, Running
<1>2. Nowhere("rejected") => Nowhere("rejected")'
  BY DEF Nowhere, Quiet, Answers
<1>3. OneRun'
  BY <1>2 DEF OneRun, Quiet, TypeOK
<1>4. OneAnswer'
  BY <1>2 DEF OneAnswer, Quiet, TypeOK
<1>5. QED
  BY <1>1, <1>3, <1>4

LEMMA NextFresh == TypeOK /\ FreshInv /\ [Next]_vars => FreshInv'
<1> SUFFICES ASSUME TypeOK, FreshInv, [Next]_vars, ~aged'
             PROVE  Fresh'
  BY DEF FreshInv
<1> USE DEF Goto, Fresh
<1>1. ~aged
  BY DEF Next, Proceed, Send, Insert, SelectAbsent, SelectInFlight,
     SelectStale, SelectCompleted, Delete, Reinsert, Transfer, Respond,
     QueryFails, ResponseLost, Update, UpdateFails, Age, Crash, vars, Reply
<1>2. Fresh
  BY <1>1 DEF FreshInv
<1>3. ASSUME NEW c \in Clients, Send(c) PROVE Quiet
  BY <1>3, <1>2 DEF Send, Quiet, TypeOK, OneRow, Running
<1>4. ASSUME NEW c \in Clients, SelectAbsent(c) PROVE FALSE
  BY <1>4, <1>2 DEF SelectAbsent, OneRow
<1>5. ASSUME NEW c \in Clients, SelectInFlight(c) PROVE Quiet
  BY <1>5, <1>2 DEF SelectInFlight, Quiet, TypeOK, OneRow, Running
<1>6. ASSUME NEW c \in Clients, SelectStale(c) PROVE FALSE
  BY <1>6, <1>2 DEF SelectStale, IsStale, OneRow
<1>7. ASSUME NEW c \in Clients, Delete(c) PROVE FALSE
  BY <1>7, <1>2 DEF Delete, OneRow
<1>8. ASSUME NEW c \in Clients, Reinsert(c) PROVE FALSE
  BY <1>8, <1>2 DEF Reinsert, OneRow
<1>9. ASSUME NEW c \in Clients, ResponseLost(c) PROVE Quiet
  BY <1>9, <1>2 DEF ResponseLost, Quiet, TypeOK, OneRow, Running
<1>10. ASSUME NEW a \in Answers, UpdateFails(a) PROVE Fresh'
  BY <1>10, <1>2
     DEF UpdateFails, requestVars, OneRow, OneRun, OneAnswer, Nowhere, TypeOK,
         Answers
<1>11. ASSUME Age PROVE FALSE
  BY <1>11, <1>1 DEF Age
<1>12. ASSUME Crash PROVE Quiet
  BY <1>12, <1>2 DEF Crash, Quiet, TypeOK, OneRow, Running
<1>13. ASSUME UNCHANGED vars PROVE Quiet
  BY <1>13, <1>2 DEF vars, requestVars, Quiet, OneRow
<1>14. ASSUME NEW c \in Clients, Insert(c) PROVE Fresh'
  <2>1. CASE row # None
    <3>1. Quiet
      BY <1>14, <1>2, <2>1
         DEF Insert, Wins, InsertRow, Quiet, TypeOK, OneRow, Running
    <3>2. QED
      BY <3>1, <1>2, QuietFresh
  <2>2. CASE row = None
    <3>1. /\ row' # None /\ row'.status = None /\ ~row'.old /\ ids' = ids + 1
          /\ UNCHANGED <<updates, transfers, answer>>
          /\ pc' = [pc EXCEPT ![c] = "execute"]
      BY <1>14, <2>2, InsertRowTypes DEF Insert, Wins
    <3>2. /\ transfers = 0 /\ Nowhere("rejected")
          /\ \A a \in Answers : updates[a] = 0
      BY <1>2, <2>2 DEF OneAnswer, TypeOK
    <3>3. \A d \in Clients : pc'[d] \in Running => d = c /\ pc'[d] = "execute"
      BY <1>2, <2>2, <3>1 DEF OneRow, TypeOK
    <3>4. Nowhere("rejected")'
      BY <3>1, <3>2, NoneAssumption DEF Nowhere, Answers
    <3>5. OneRow'
      BY <3>1, <1>2, <2>2 DEF OneRow, TypeOK, Running
    <3>6. OneRun'
      BY <3>1, <3>2, <3>3, <3>4 DEF OneRun
    <3>7. OneAnswer'
      BY <3>1, <3>2, <3>4 DEF OneAnswer, TypeOK
    <3>8. QED
      BY <3>5, <3>6, <3>7
  <2>3. QED
    BY <2>1, <2>2
<1>15. ASSUME NEW c \in Clients, SelectCompleted(c) PROVE Fresh'
  <2>1. /\ row # None /\ row.status # None
        /\ UNCHANGED <<row, ids, updates, transfers>>
        /\ answer' = [answer EXCEPT ![c] = row.status]
        /\ pc' = [pc EXCEPT ![c] = "done"]
    BY <1>15 DEF SelectCompleted, Reply
  <2>2. Nowhere("rejected") => Nowhere("rejected")'
    BY <2>1 DEF Nowhere, TypeOK
  <2>3. OneRow'
    BY <2>1, <1>2 DEF OneRow, TypeOK, Running
  <2>4. OneRun'
    BY <2>1, <1>2 DEF OneRun, TypeOK, Running
  <2>5. OneAnswer'
    BY <2>1, <2>2, <1>2 DEF OneAnswer, TypeOK
  <2>6. QED
    BY <2>3, <2>4, <2>5
<1>16. ASSUME NEW c \in Clients, Transfer(c) PROVE Fresh'
  <2>1. /\ pc[c] = "execute" /\ pc' = [pc EXCEPT ![c] = "moved"]
        /\ transfers' = transfers + 1
        /\ UNCHANGED <<row, ids, updates, answer>>
    BY <1>16 DEF Transfer
  <2>2. /\ \A d \in Clients : pc[d] \in Running => d = c
        /\ Nowhere("rejected") /\ row # None /\ transfers = 0
        /\ row.status = None
        /\ \A a \in Answers : updates[a] = 0
    BY <2>1, <1>2 DEF OneRun, OneRow, Running
  <2>3. Nowhere("rejected")'
    BY <2>1, <2>2 DEF Nowhere
  <2>4. OneRow'
    BY <2>1, <2>2, <1>2 DEF OneRow, TypeOK, Running
  <2>5. OneRun'
    BY <2>1, <2>2, <2>3 DEF OneRun, TypeOK, Running
  <2>6. OneAnswer'
    BY <2>1, <2>2, <2>3 DEF OneAnswer
  <2>7. QED
    BY <2>4, <2>5, <2>6
<1>17. ASSUME NEW c \in Clients, Respond(c) PROVE Fresh'
  <2>1. PICK here \in {"execute", "moved"} : \E a \in Outcomes(here) :
          Reply(c, here, a) /\ Record(c, a)
    BY <1>17 DEF Respond
  <2>2. PICK a \in Outcomes(here) : Reply(c, here, a) /\ Record(c, a)
    BY <2>1
  <2>3. /\ pc[c] = here /\ pc' = [pc EXCEPT ![c] = "done"]
        /\ answer' = [answer EXCEPT ![c] = a]
        /\ UNCHANGED <<row, ids, transfers>>
        /\ a \in Answers
    BY <1>17, <2>2 DEF Respond, Reply, Outcomes, Answers
  <2>4. /\ \A d \in Clients : pc[d] \in Running => d = c
        /\ Nowhere("rejected") /\ row # None /\ row.status = None
        /\ \A b \in Answers : updates[b] = 0
        /\ transfers = IF here = "execute" THEN 0 ELSE 1
    BY <2>3, <1>2 DEF OneRun, OneRow, Running
  <2>5. \A b \in Answers : updates'[b] \in {0, 1} /\ (updates'[b] = 1 => b = a)
    BY <2>2, <2>3, <2>4 DEF Record, TypeOK
  <2>6. transfers = 1 => a # "rejected"
    BY <2>2, <2>4 DEF Outcomes
  <2>7. transfers = 1 => Nowhere("rejected")'
    BY <2>3, <2>4, <2>5, <2>6 DEF Nowhere, Answers, TypeOK
  <2>8. \A d \in Clients : pc'[d] \notin Running
    BY <2>3, <2>4 DEF TypeOK, Running
  <2>9. OneRow'
    BY <2>3, <2>8, <1>2 DEF OneRow, TypeOK
  <2>10. OneRun'
    BY <2>8 DEF OneRun
  <2>11. OneAnswer'
    BY <2>3, <2>4, <2>5, <2>7, <1>2 DEF OneAnswer
  <2>12. QED
    BY <2>9, <2>10, <2>11
<1>18. ASSUME NEW c \in Clients, QueryFails(c) PROVE Fresh'
  <2>1. PICK here \in {"insert", "select", "delete", "reinsert"} :
          /\ Reply(c, here, "error")
          /\ \/ UNCHANGED <<row, ids>>
             \/ here \in {"insert", "reinsert"} /\ InsertRow
             \/ here = "delete" /\ DeleteRow(c) /\ UNCHANGED ids
    BY <1>18 DEF QueryFails
  <2>2. /\ pc' = [pc EXCEPT ![c] = "done"]
        /\ answer' = [answer EXCEPT ![c] = "error"]
        /\ UNCHANGED <<updates, transfers>>
        /\ UNCHANGED <<row, ids>> \/ InsertRow
    BY <1>18, <2>1, <1>2 DEF QueryFails, Reply, OneRow
  <2>3. CASE row # None \/ UNCHANGED <<row, ids>>
    <3>1. UNCHANGED <<row, ids>>
      BY <2>2, <2>3 DEF InsertRow
    <3>2. Quiet
      BY <2>2, <3>1, <1>2 DEF Quiet, OneRow, Running, TypeOK
    <3>3. QED
      BY <3>2, <1>2, QuietFresh
  <2>4. CASE row = None /\ InsertRow
    <3>1. row' # None /\ row'.status = None /\ ~row'.old /\ ids' = ids + 1
      BY <2>4, InsertRowTypes
    <3>2. /\ transfers = 0 /\ Nowhere("rejected")
          /\ \A a \in Answers : updates[a] = 0
      BY <1>2, <2>4 DEF OneAnswer, TypeOK
    <3>3. \A d \in Clients : pc'[d] \notin Running
      BY <1>2, <2>4, <2>2 DEF OneRow, TypeOK, Running
    <3>4. OneRow'
      BY <3>1, <2>2, <3>3, <1>2, <2>4 DEF OneRow, TypeOK, Running
    <3>5. OneRun'
      BY <3>3 DEF OneRun
    <3>6. OneAnswer'
      BY <3>1, <3>2, <2>2 DEF OneAnswer, TypeOK
    <3>7. QED
      BY <3>4, <3>5, <3>6
  <2>5. QED
    BY <2>2, <2>3, <2>4
<1>19. ASSUME NEW a \in Answers, Update(a) PROVE Fresh'
  <2>1. /\ row # None /\ row.status = None /\ updates[a] = 1
        /\ \A b \in Answers : b # a => updates[b] = 0
    BY <1>19, <1>2 DEF Update, OneAnswer, TypeOK
  <2>2. /\ row' = [row EXCEPT !.status = a]
        /\ \A b \in Answers : updates'[b] = 0
        /\ UNCHANGED <<pc, answer, ids, transfers>>
    BY <1>19, <2>1 DEF Update, TypeOK, requestVars
  <2>3. row' # None /\ row'.old = row.old /\ row'.status = a
    BY <2>1, <2>2, NoneAssumption DEF TypeOK, Row
  <2>4. \A c \in Clients : pc[c] \notin Running
    BY <2>1, <1>2 DEF OneRun, TypeOK
  <2>5. transfers = 1 => Nowhere("rejected")'
    BY <2>1, <2>2, <2>3, <1>2 DEF OneAnswer, Nowhere, Answers, TypeOK
  <2>6. OneRow'
    BY <2>1, <2>2, <2>3, <1>2 DEF OneRow
  <2>7. OneRun'
    BY <2>2, <2>4 DEF OneRun
  <2>8. OneAnswer'
    BY <2>2, <2>3, <2>5, <1>2 DEF OneAnswer
  <2>9. QED
    BY <2>6, <2>7, <2>8
<1>20. QED
  BY QuietFresh, <1>2, <1>3, <1>4, <1>5, <1>6, <1>7, <1>8, <1>9, <1>10, <1>11,
     <1>12, <1>13, <1>14, <1>15, <1>16, <1>17, <1>18, <1>19
     DEF Next, Proceed

-----------------------------------------------------------------------------
(* The theorems.                                                           *)

LEMMA Inductive == Spec => []IInv
<1>1. Init => IInv
  BY InitTypes, InitMoved, InitFresh DEF IInv
<1>2. IInv /\ [Next]_vars => IInv'
  BY NextTypes, NextMoved, NextFresh DEF IInv
<1>3. QED
  BY <1>1, <1>2, PTL DEF Spec

\* Every variable keeps its type, and a row the id it was inserted with
\* (idempotency.js, all of the middleware).
THEOREM TypeCorrect == Spec => []TypeOK
<1>1. IInv => TypeOK
  BY DEF IInv
<1>2. QED
  BY <1>1, Inductive, PTL

\* While no row has been taken for abandoned, a key makes one transfer at
\* most, whoever sends it again, races, loses an answer or restarts
\* (idempotency.js:52-77).
THEOREM OneTransferProved == Spec => []OneTransferWhileFresh
<1>1. IInv => OneTransferWhileFresh
  BY DEF IInv, FreshInv, Fresh, OneAnswer, OneTransferWhileFresh
<1>2. QED
  BY <1>1, Inductive, PTL

\* Until then a key is never answered 200 to one client and 4xx to another
\* (idempotency.js:79-117).
THEOREM AnswersAgreeProved == Spec => []AnswersAgreeWhileFresh
<1>1. IInv => AnswersAgreeWhileFresh
  <2> SUFFICES ASSUME IInv, ~aged, NEW c \in Clients
               PROVE  /\ answer[c] = "ok" => transfers = 1
                      /\ answer[c] = "rejected" => transfers = 0
    BY DEF AnswersAgreeWhileFresh
  <2>1. transfers \in Nat /\ transfers <= 1
    BY DEF IInv, TypeOK, FreshInv, Fresh, OneAnswer
  <2>2. answer[c] = "ok" => transfers # 0
    BY DEF IInv, MovedInv, Nowhere
  <2>3. answer[c] = "rejected" => transfers # 1
    BY DEF IInv, FreshInv, Fresh, OneAnswer, Nowhere
  <2>4. QED
    BY <2>1, <2>2, <2>3
<1>2. QED
  BY <1>1, Inductive, PTL

\* Reclaimed or not, a 200 is answered, stored or sent to be stored only for
\* a key under which money has moved (transferController.js and the wrapped
\* res.json of idempotency.js).
THEOREM OkMeansMovedProved == Spec => []OkMeansMoved
<1>1. IInv => OkMeansMoved
  BY DEF IInv, MovedInv, Nowhere, OkMeansMoved
<1>2. QED
  BY <1>1, Inductive, PTL

\* While no row has been taken for abandoned, a stored response stays: no
\* second UPDATE, no DELETE and no later request touches its row.
THEOREM StoredIsFinalProved == Spec => StoredIsFinal
<1>1. IInv /\ [Next]_vars =>
        [~aged /\ row # None /\ row.status # None => row' = row]_vars
  <2> SUFFICES ASSUME IInv, Next, ~aged, row # None, row.status # None
               PROVE  row' = row
    BY DEF vars, requestVars
  <2>1. TypeOK /\ OneRow /\ OneAnswer
    BY DEF IInv, FreshInv, Fresh
  <2>2. \A a \in Answers : ~Update(a)
    BY <2>1 DEF Update, OneAnswer, TypeOK
  <2>3. ~Age
    BY DEF Age, InFlight
  <2>4. \A c \in Clients : Delete(c) => FALSE
    BY <2>1 DEF Delete, Goto, OneRow
  <2>5. InsertRow => row' = row
    BY DEF InsertRow
  <2>6. \A c \in Clients : QueryFails(c) => row' = row
    BY <2>1, <2>5 DEF QueryFails, Reply, Goto, OneRow
  <2>7. QED
    BY <2>2, <2>3, <2>4, <2>5, <2>6
       DEF Next, Proceed, Send, Insert, SelectAbsent, SelectInFlight,
           SelectStale, SelectCompleted, Reinsert, Transfer, Respond,
           ResponseLost, UpdateFails, Crash
<1>2. QED
  BY <1>1, Inductive, PTL DEF Spec, StoredIsFinal

=============================================================================
