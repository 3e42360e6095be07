-------------------------- MODULE TransferEndpoint --------------------------
(***************************************************************************)
(* POST /transfers with an Idempotency-Key: middleware/idempotency.js in   *)
(* front of transferController.transferFunds, and clients that send the    *)
(* same request with the same key until they have an answer.  Keys, users  *)
(* and endpoints do not affect one another, so the module is about one row *)
(* of idempotency_keys; a call of executeTransfer does what Bank says: it  *)
(* moves the money in one step, and returns or throws later.               *)
(*                                                                         *)
(* Every query of the middleware is a step.  The recording UPDATE is not   *)
(* awaited: it takes effect at any later time, or never.                   *)
(***************************************************************************)
EXTENDS Integers

CONSTANTS
    Clients,       \* senders of the request: tabs, devices, proxies
    MaxFaults,     \* bound on the crashes, failed queries and lost responses
    None

Answers  == {"ok", "rejected", "error"}      \* 200, 4xx, 500

ASSUME FaultsAssumption == MaxFaults \in Nat

VARIABLES
    pc,            \* where the latest request of each client is
    row,           \* the row of the key, None while there is none
    ids,           \* rows inserted so far; a row's id is its number
    found,         \* id of the stale row a request has SELECTed
    wrapped,       \* whether the request's res.json records the response
    updates,       \* UPDATEs sent and not yet performed, by their status
    transfers,     \* transfers committed
    answer,        \* the answer each client was left with
    aged,          \* an in-flight row has passed STALE_IN_FLIGHT_MS
    faults         \* faults so far

requestVars == <<pc, found, wrapped, answer>>
vars == <<requestVars, row, ids, updates, transfers, aged, faults>>

\* status is None (NULL) while in flight; old is ageMs >= STALE_IN_FLIGHT_MS.
Row == [id : Nat, status : Answers \cup {None}, old : BOOLEAN]

ASSUME NoneAssumption   == None \notin Answers \cup Nat \cup Row

Init ==
    /\ pc        = [c \in Clients |-> "idle"]
    /\ row       = None
    /\ ids       = 0
    /\ found     = [c \in Clients |-> 0]
    /\ wrapped   = [c \in Clients |-> FALSE]
    /\ updates   = [s \in Answers |-> 0]
    /\ transfers = 0
    /\ answer    = [c \in Clients |-> "none"]
    /\ aged      = FALSE
    /\ faults    = 0

Goto(c, here, there) == pc[c] = here /\ pc' = [pc EXCEPT ![c] = there]

\* The response goes out.
Reply(c, here, a) ==
    /\ Goto(c, here, "done")
    /\ answer' = [answer EXCEPT ![c] = a]

InFlight == row # None /\ row.status = None

-----------------------------------------------------------------------------
(* The middleware.                                                         *)

\* A client sends the request, for the first time or again: after a 409, or
\* because no answer came.
Send(c) ==
    /\ \E here \in {"idle", "conflict", "lost"} : Goto(c, here, "insert")
    /\ wrapped' = [wrapped EXCEPT ![c] = FALSE]
    /\ UNCHANGED <<row, ids, found, updates, transfers, answer, aged, faults>>

\* A bug: a new row has the id of the row deleted before it.
InsertRowSameId ==
    IF row = None
      THEN row' = [id |-> ids + 1, status |-> None, old |-> FALSE] /\ UNCHANGED ids
      ELSE UNCHANGED <<row, ids>>

\* INSERT ... ON CONFLICT DO NOTHING.
InsertRow ==
    IF row = None
      THEN /\ row' = [id |-> ids + 1, status |-> None, old |-> FALSE]
           /\ ids' = ids + 1
      ELSE UNCHANGED <<row, ids>>

\* A bug: the conflict is not noticed.
WinsAlways == TRUE

\* RETURNING id brought a row back.
Wins == row = None

Insert(c) ==
    /\ InsertRow
    /\ IF Wins THEN /\ Goto(c, "insert", "execute")
                    /\ wrapped' = [wrapped EXCEPT ![c] = TRUE]
               ELSE Goto(c, "insert", "select") /\ UNCHANGED wrapped
    /\ UNCHANGED <<found, updates, transfers, answer, aged, faults>>

\* A bug: an in-flight row is never taken for abandoned.
IsStaleNever == FALSE

IsStale == row.status = None /\ row.old

\* The SELECT finds no row: next(), with res.json as it was.
SelectAbsent(c) ==
    /\ Goto(c, "select", "execute")
    /\ row = None
    /\ UNCHANGED <<row, ids, found, wrapped, updates, transfers, answer, aged,
                   faults>>

\* 409.
SelectInFlight(c) ==
    /\ Goto(c, "select", "conflict")
    /\ row # None
    /\ row.status = None /\ ~IsStale
    /\ UNCHANGED <<row, ids, found, wrapped, updates, transfers, answer, aged,
                   faults>>

\* The row looks abandoned.  Its age is judged when the SELECT returns; a row
\* that ages, or completes, just after only makes the DELETE come late.
SelectStale(c) ==
    /\ Goto(c, "select", "delete")
    /\ row # None
    /\ IsStale
    /\ found' = [found EXCEPT ![c] = row.id]
    /\ UNCHANGED <<row, ids, wrapped, updates, transfers, answer, aged, faults>>

\* The stored response is replayed.
SelectCompleted(c) ==
    /\ row # None
    /\ row.status # None /\ ~IsStale
    /\ Reply(c, "select", row.status)
    /\ UNCHANGED <<row, ids, found, wrapped, updates, transfers, aged, faults>>

DeleteRow(c) ==
    row' = IF row # None /\ row.id = found[c] THEN None ELSE row

Delete(c) ==
    /\ Goto(c, "delete", "reinsert")
    /\ DeleteRow(c)
    /\ UNCHANGED <<ids, found, wrapped, updates, transfers, answer, aged,
                   faults>>

\* The second INSERT; whether it inserted anything is not looked at.
Reinsert(c) ==
    /\ Goto(c, "reinsert", "execute")
    /\ InsertRow
    /\ wrapped' = [wrapped EXCEPT ![c] = TRUE]
    /\ UNCHANGED <<found, updates, transfers, answer, aged, faults>>

\* A query of the middleware throws, whether or not the database performed it:
\* next(err), and a 500 that is not recorded.
QueryFails(c) ==
    /\ faults < MaxFaults
    /\ faults' = faults + 1
    /\ \E here \in {"insert", "select", "delete", "reinsert"} :
          /\ Reply(c, here, "error")
          /\ \/ UNCHANGED <<row, ids>>
             \/ here \in {"insert", "reinsert"} /\ InsertRow
             \/ here = "delete" /\ DeleteRow(c) /\ UNCHANGED ids
    /\ UNCHANGED <<found, wrapped, updates, transfers, aged>>

-----------------------------------------------------------------------------
(* The handler and the recording of its response.                          *)

\* executeTransfer commits.
Transfer(c) ==
    /\ Goto(c, "execute", "moved")
    /\ transfers' = transfers + 1
    /\ UNCHANGED <<row, ids, found, wrapped, updates, answer, aged, faults>>

\* The wrapped res.json sends the UPDATE.
Record(c, a) ==
    updates' = [updates EXCEPT ![a] = @ + IF wrapped[c] THEN 1 ELSE 0]

\* A bug: the answer is given without waiting for the COMMIT.
OutcomesTooEarly(here) == Answers

\* The answers of validate, transferFunds and errorHandler: a transfer that
\* has committed may still throw (Bank: "error" says nothing).
Outcomes(here) ==
    IF here = "moved" THEN {"ok", "error"} ELSE {"rejected", "error"}

Respond(c) ==
    /\ \E here \in {"execute", "moved"} : \E a \in Outcomes(here) :
          Reply(c, here, a) /\ Record(c, a)
    /\ UNCHANGED <<row, ids, found, wrapped, transfers, aged, faults>>

\* UPDATE idempotency_keys SET status_code ... WHERE key: whatever row is there.
Update(a) ==
    /\ updates[a] > 0
    /\ updates' = [updates EXCEPT ![a] = @ - 1]
    /\ row' = IF row = None THEN None ELSE [row EXCEPT !.status = a]
    /\ UNCHANGED <<requestVars, ids, transfers, aged, faults>>

\* It fails: logged, and nothing else.
UpdateFails(a) ==
    /\ faults < MaxFaults
    /\ faults' = faults + 1
    /\ updates[a] > 0
    /\ updates' = [updates EXCEPT ![a] = @ - 1]
    /\ UNCHANGED <<requestVars, row, ids, transfers, aged>>

-----------------------------------------------------------------------------
(* The environment.                                                        *)

\* The row of a request that has not been answered for STALE_IN_FLIGHT_MS.
Age ==
    /\ InFlight
    /\ ~row.old
    /\ row'  = [row EXCEPT !.old = TRUE]
    /\ aged' = TRUE
    /\ UNCHANGED <<requestVars, ids, updates, transfers, faults>>

\* The response does not reach the client.
ResponseLost(c) ==
    /\ faults < MaxFaults
    /\ faults' = faults + 1
    /\ Goto(c, "done", "lost")
    /\ answer' = [answer EXCEPT ![c] = "none"]
    /\ UNCHANGED <<row, ids, found, wrapped, updates, transfers, aged>>

\* The server dies with every request in it and every UPDATE not yet performed.
Crash ==
    /\ faults < MaxFaults
    /\ faults' = faults + 1
    /\ pc' = [c \in Clients |->
                IF pc[c] \in {"idle", "conflict", "done"} THEN pc[c] ELSE "lost"]
    /\ updates' = [s \in Answers |-> 0]
    /\ UNCHANGED <<row, ids, found, wrapped, transfers, answer, aged>>

Proceed(c) ==
    \/ Send(c) \/ Insert(c)
    \/ SelectAbsent(c) \/ SelectInFlight(c) \/ SelectStale(c)
    \/ SelectCompleted(c)
    \/ Delete(c) \/ Reinsert(c) \/ Transfer(c) \/ Respond(c)

Next ==
    \/ \E c \in Clients : Proceed(c) \/ QueryFails(c) \/ ResponseLost(c)
    \/ \E a \in Answers : Update(a) \/ UpdateFails(a)
    \/ Age
    \/ Crash

Spec == Init /\ [][Next]_vars

\* Clients keep trying, the server keeps serving, and time passes.
FairSpec ==
    /\ Spec
    /\ \A c \in Clients : WF_vars(Proceed(c))
    /\ \A a \in Answers : WF_vars(Update(a))
    /\ WF_vars(Age)

-----------------------------------------------------------------------------
(* Properties.                                                             *)

Running == {"execute", "moved"}

\* Every variable keeps its type, and a row the id it was inserted with.
TypeOK ==
    /\ pc \in [Clients -> {"idle", "insert", "select", "delete", "reinsert",
                           "conflict", "done", "lost"} \cup Running]
    /\ row \in Row \cup {None}
    /\ ids \in Nat
    /\ row # None => row.id = ids
    /\ found \in [Clients -> Nat]
    /\ wrapped \in [Clients -> BOOLEAN]
    /\ updates \in [Answers -> Nat]
    /\ transfers \in Nat
    /\ answer \in [Clients -> Answers \cup {"none"}]
    /\ aged \in BOOLEAN
    /\ faults \in Nat

\* As long as no request has been in flight for STALE_IN_FLIGHT_MS, one key
\* makes one transfer, whatever is retried, raced, lost or restarted.
OneTransferWhileFresh == ~aged => transfers <= 1

\* Until then too, a 200 and a 4xx are never both given for one key, and a 4xx
\* only if nothing moved: the answer replayed is the answer of the one run.
AnswersAgreeWhileFresh ==
    ~aged => \A c \in Clients :
        /\ answer[c] = "ok" => transfers = 1
        /\ answer[c] = "rejected" => transfers = 0

\* Even after a reclaim, a 200 is never answered, stored or about to be stored
\* for a key under which nothing moved.
OkMeansMoved ==
    transfers = 0 =>
        /\ \A c \in Clients : answer[c] # "ok"
        /\ row # None => row.status # "ok"
        /\ updates["ok"] = 0

\* A stored response is replaced only after a reclaim (idempotency.js:17-21,
\* "replays the original response").
StoredIsFinal ==
    [][~aged /\ row # None /\ row.status # None => row' = row]_vars

\* A client that keeps retrying gets an answer: a key is never bricked
\* (ARCHITECTURE.md:75-77).
EveryClientAnswered ==
    \A c \in Clients : pc[c] # "done" ~> pc[c] = "done"

\* What the repository says and the code does not do.  idempotency.js:17-21:
\* a duplicated request can never result in two transfers.
OneTransfer == transfers <= 1
=============================================================================
