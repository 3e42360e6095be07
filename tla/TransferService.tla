-------------------------- MODULE TransferService --------------------------
(***************************************************************************)
(* services/transferService.js, AccountModel.openFixedDeposit and          *)
(* config/db.js at the grain of an await: every SQL statement, and every   *)
(* wait for a connection or for a row lock, is a step, and the steps of    *)
(* all requests interleave.  A request is one call of executeTransfer (by  *)
(* the HTTP handler or by the scheduler) or of openFixedDeposit.           *)
(*                                                                         *)
(* PostgreSQL is modelled from how the code uses it: READ COMMITTED,       *)
(* FOR UPDATE waits and then returns the row as last committed, what a     *)
(* transaction writes is seen by others from its COMMIT on, a failed       *)
(* statement leaves the transaction good only for ROLLBACK, and a broken   *)
(* connection rolls it back.                                               *)
(***************************************************************************)
EXTENDS Integers, Sequences, FiniteSets, Functions, Money

CONSTANTS
    Requests,      \* the calls made
    Users,
    Accounts,      \* account ids; < is the order of ids.sort()
    Amounts,       \* in half cents
    Orders,        \* what a request may ask for
    SeedOwner,     \* owner of every account at the start, None if not opened
    SeedBalance,   \* balance of every account at the start
    Inactive,      \* accounts whose status an operator has set by hand
    PoolMax,       \* connections of the pool (db.js:17; 20 in production)
    MaxCrashes,    \* bound on the process crashes of a behaviour
    None

OrderType ==
    [op : {"transfer"}, user : Users, from : Accounts, to : Accounts,
     amount : Amounts]
    \cup
    [op : {"fixedDeposit"}, user : Users, from : Accounts, to : {None},
     amount : Amounts]

\* A row of the transactions table; "at" is its created_at.
Row == [transfer : Requests, type : {"debit", "credit"}, peer : Accounts,
        amount : Nat, after : Nat, at : Nat]

ASSUME AccountsAssumption == Accounts \subseteq Nat /\ IsFiniteSet(Accounts)
ASSUME AmountsAssumption  == Amounts \subseteq Nat \ {0}
ASSUME OrdersAssumption   == Orders \subseteq OrderType
ASSUME NoneAssumption     ==
    /\ None \notin Nat
    /\ None \notin Requests
    /\ None \notin Users
    /\ None \notin Orders
ASSUME NoRowAssumption == None \notin Row
\* Balances start as NUMERIC(18,2) values, 0 in an account not opened yet.
ASSUME SeedAssumption ==
    /\ SeedOwner \in [Accounts -> Users \cup {None}]
    /\ SeedBalance \in [Accounts -> Nat]
    /\ \A a \in Accounts : WholeCents(SeedBalance[a])
    /\ \A a \in Accounts : SeedOwner[a] = None => SeedBalance[a] = 0
ASSUME PoolAssumption == PoolMax \in Nat \ {0} /\ MaxCrashes \in Nat

VARIABLES
    pc,            \* the next step of each request
    order,         \* the arguments of the call
    outcome,       \* what the call returns or throws
    \* committed rows
    balance,       \* accounts.balance
    owner,         \* accounts.user_id, None while there is no such row
    kind,          \* accounts.account_type
    rows,          \* the transactions rows of an account, in commit order
    \* open transactions
    clients,       \* requests holding a connection of the pool
    holder,        \* the request whose transaction holds the row's lock
    at,            \* now() of the request's transaction
    update,        \* its uncommitted balances, None where it wrote none
    insert,        \* its uncommitted transactions rows, None where none
    \* variables of the request's callback
    seen,          \* the balances its locking SELECTs returned
    dest,          \* id of the receiving account, None while not known
    newSender, newReceiver,
    \* environment
    clock,         \* BEGINs so far: now() grows with it
    crashes        \* process crashes so far

dbVars    == <<balance, owner, kind, rows>>
txVars    == <<update, insert>>
localVars == <<seen, newSender, newReceiver>>
vars == <<pc, order, outcome, dbVars, clients, holder, at, txVars, localVars,
          dest, clock, crashes>>

NoWrites == [a \in Accounts |-> None]
Nothing  == [a \in Accounts |-> 0]

Init ==
    /\ pc      = [r \in Requests |-> "idle"]
    /\ order   = [r \in Requests |-> None]
    /\ outcome = [r \in Requests |-> "none"]
    /\ balance = SeedBalance
    /\ owner   = SeedOwner
    /\ kind    = [a \in Accounts |-> IF SeedOwner[a] = None THEN "none"
                                                           ELSE "savings"]
    /\ rows    = [a \in Accounts |-> <<>>]
    /\ clients = {}
    /\ holder  = [a \in Accounts |-> None]
    /\ at      = [r \in Requests |-> 0]
    /\ update  = [r \in Requests |-> NoWrites]
    /\ insert  = [r \in Requests |-> NoWrites]
    /\ seen    = [r \in Requests |-> Nothing]
    /\ dest    = [r \in Requests |-> None]
    /\ newSender   = [r \in Requests |-> 0]
    /\ newReceiver = [r \in Requests |-> 0]
    /\ clock   = 0
    /\ crashes = 0

Step(r, here, there) == pc[r] = here /\ pc' = [pc EXCEPT ![r] = there]

\* The request is over: what it returned or threw reaches its caller.
Finish(r, here, result) ==
    /\ Step(r, here, "done")
    /\ outcome' = [outcome EXCEPT ![r] = result]

PoolHasRoom == Cardinality(clients) < PoolMax

\* A bug: the connection is never given back.
ReleaseForgotten(r) == UNCHANGED clients

\* client.release()
Release(r) == clients' = clients \ {r}

-----------------------------------------------------------------------------
(* Before the transaction.                                                 *)

Submit(r, o) ==
    /\ Step(r, "idle", "lookup")
    /\ order' = [order EXCEPT ![r] = o]
    /\ dest'  = [dest EXCEPT ![r] = o.to]
    /\ UNCHANGED <<outcome, dbVars, clients, holder, at, txVars, localVars,
                   clock, crashes>>

\* A bug: the owner of the source account is not compared.
RefusedWithoutOwner(o) ==
    o.op = "transfer" /\ (o.from = o.to \/ owner[o.to] = None)

\* The checks that answer with a 400, 403 or 404 before any lock is taken.
\* They read columns no code ever changes, so one step stands for the two reads.
Refused(o) ==
    \/ owner[o.from] # o.user
    \/ /\ o.op = "transfer"
       /\ \/ o.from = o.to
          \/ owner[o.to] = None
          \/ {o.from, o.to} \cap Inactive # {}

Lookup(r) ==
    /\ pc[r] = "lookup"
    /\ PoolHasRoom
    /\ IF Refused(order[r])
         THEN Finish(r, "lookup", "rejected")
         ELSE Step(r, "lookup", "connect") /\ UNCHANGED outcome
    /\ UNCHANGED <<order, dbVars, clients, holder, at, txVars, localVars, dest,
                   clock, crashes>>

\* A SELECT fails, or pool.connect does or times out: thrown outside the try of
\* withTransaction.
NotConnected(r) ==
    /\ \E here \in {"lookup", "connect"} : Finish(r, here, "error")
    /\ UNCHANGED <<order, dbVars, clients, holder, at, txVars, localVars, dest,
                   clock, crashes>>

Connect(r) ==
    /\ PoolHasRoom
    /\ Step(r, "connect", "begin")
    /\ clients' = clients \cup {r}
    /\ UNCHANGED <<order, outcome, dbVars, holder, at, txVars, localVars, dest,
                   clock, crashes>>

-----------------------------------------------------------------------------
(* The transaction.                                                        *)

\* BEGIN fixes now(), the created_at of every row the transaction inserts.
Begin(r) ==
    /\ Step(r, "begin", "lock")
    /\ at' = [at EXCEPT ![r] = clock + 1]
    /\ clock' = clock + 1
    /\ UNCHANGED <<order, outcome, dbVars, clients, holder, txVars, localVars,
                   dest, crashes>>

\* A bug: the receiver's row is never locked, nor read.
LockSenderOnly(r) == {order[r].from}

\* A transfer locks both accounts, a fixed deposit its source only.
LockSet(r) ==
    IF order[r].op = "transfer" THEN {order[r].from, order[r].to}
                                ELSE {order[r].from}
Held(r)   == {a \in Accounts : holder[a] = r}
ToLock(r) == LockSet(r) \ Held(r)

\* A bug: the sender first, whatever its id.
IsNextUnsorted(r, a) ==
    a \in ToLock(r) /\ (order[r].from \in ToLock(r) => a = order[r].from)

\* The next id in sorted order.
IsNext(r, a) == a \in ToLock(r) /\ \A b \in ToLock(r) : a <= b

\* A bug: a plain SELECT, without FOR UPDATE.
IsFreeIgnored(a) == TRUE

IsFree(a) == holder[a] = None

\* SELECT ... FOR UPDATE returns: the lock is free and the row is read.
Lock(r, a) ==
    /\ pc[r] = "lock"
    /\ IsNext(r, a)
    /\ IsFree(a)
    /\ holder' = [holder EXCEPT ![a] = r]
    /\ seen'   = [seen EXCEPT ![r][a] = balance[a]]
    /\ pc'     = [pc EXCEPT ![r] = IF ToLock(r) = {a} THEN "decide" ELSE "lock"]
    /\ UNCHANGED <<order, outcome, dbVars, clients, at, txVars, newSender,
                   newReceiver, dest, clock, crashes>>

\* A bug: the check under the lock is missing.
IsFundedIgnored(r) == TRUE

IsFunded(r) == seen[r][order[r].from] >= order[r].amount

Insufficient(r) ==
    /\ Step(r, "decide", "rollback")
    /\ ~IsFunded(r)
    /\ outcome' = [outcome EXCEPT ![r] = "rejected"]
    /\ UNCHANGED <<order, dbVars, clients, holder, at, txVars, localVars, dest,
                   clock, crashes>>

SenderBalances(r) == ToFixed(seen[r][order[r].from] - order[r].amount)

ReceiverBalances(r) ==
    IF order[r].op = "transfer"
      THEN ToFixed(seen[r][order[r].to] + order[r].amount)
      ELSE {Numeric(order[r].amount)}

Decide(r) ==
    /\ Step(r, "decide", "updateSender")
    /\ IsFunded(r)
    /\ \E b \in SenderBalances(r) : newSender' = [newSender EXCEPT ![r] = b]
    /\ \E b \in ReceiverBalances(r) : newReceiver' = [newReceiver EXCEPT ![r] = b]
    /\ UNCHANGED <<order, outcome, dbVars, clients, holder, at, txVars, seen,
                   dest, clock, crashes>>

UpdateSender(r) ==
    /\ Step(r, "updateSender", IF order[r].op = "transfer" THEN "updateReceiver"
                                                           ELSE "insertAccount")
    /\ update' = [update EXCEPT ![r][order[r].from] = newSender[r]]
    /\ UNCHANGED <<order, outcome, dbVars, clients, holder, at, insert,
                   localVars, dest, clock, crashes>>

UpdateReceiver(r) ==
    /\ Step(r, "updateReceiver", "insertDebit")
    /\ update' = [update EXCEPT ![r][dest[r]] = newReceiver[r]]
    /\ UNCHANGED <<order, outcome, dbVars, clients, holder, at, insert,
                   localVars, dest, clock, crashes>>

\* The new row's id is a fresh uuid; the row is its transaction's alone.
InsertAccount(r, a) ==
    /\ Step(r, "insertAccount", "insertDebit")
    /\ owner[a] = None
    /\ holder[a] = None
    /\ holder' = [holder EXCEPT ![a] = r]
    /\ dest'   = [dest EXCEPT ![r] = a]
    /\ update' = [update EXCEPT ![r][a] = newReceiver[r]]
    /\ UNCHANGED <<order, outcome, dbVars, clients, at, insert, localVars,
                   clock, crashes>>

\* 23505, the number is taken.  The loop goes round again, but the transaction
\* is aborted and the next INSERT raises 25P02, which is thrown.
NumberCollides(r) ==
    /\ Step(r, "insertAccount", "retryInsert")
    /\ UNCHANGED <<order, outcome, dbVars, clients, holder, at, txVars,
                   localVars, dest, clock, crashes>>

RetryInsert(r) ==
    /\ Step(r, "retryInsert", "rollback")
    /\ outcome' = [outcome EXCEPT ![r] = "error"]
    /\ UNCHANGED <<order, dbVars, clients, holder, at, txVars, localVars, dest,
                   clock, crashes>>

\* A bug: both legs are debits.
EntryAlwaysDebit(r, type, peer, after) ==
    [transfer |-> r, type |-> "debit", peer |-> peer,
     amount |-> Numeric(order[r].amount), after |-> after, at |-> at[r]]

\* A bug: the credit row carries the sender's new balance.
EntryOfSender(r, type, peer, after) ==
    [transfer |-> r, type |-> type, peer |-> peer,
     amount |-> Numeric(order[r].amount), after |-> newSender[r], at |-> at[r]]

Entry(r, type, peer, after) ==
    [transfer |-> r, type |-> type, peer |-> peer,
     amount |-> Numeric(order[r].amount), after |-> after, at |-> at[r]]

InsertDebit(r) ==
    /\ Step(r, "insertDebit", "insertCredit")
    /\ insert' = [insert EXCEPT ![r][order[r].from] =
                    Entry(r, "debit", dest[r], newSender[r])]
    /\ UNCHANGED <<order, outcome, dbVars, clients, holder, at, update,
                   localVars, dest, clock, crashes>>

InsertCredit(r) ==
    /\ Step(r, "insertCredit", "commit")
    /\ insert' = [insert EXCEPT ![r][dest[r]] =
                    Entry(r, "credit", order[r].from, newReceiver[r])]
    /\ UNCHANGED <<order, outcome, dbVars, clients, holder, at, update,
                   localVars, dest, clock, crashes>>

\* The end of r's transaction: its locks go, and what it had not committed.
Discard(r) ==
    /\ holder' = [a \in Accounts |-> IF holder[a] = r THEN None ELSE holder[a]]
    /\ update' = [update EXCEPT ![r] = NoWrites]
    /\ insert' = [insert EXCEPT ![r] = NoWrites]
    /\ seen'   = [seen EXCEPT ![r] = Nothing]
    /\ newSender'   = [newSender EXCEPT ![r] = 0]
    /\ newReceiver' = [newReceiver EXCEPT ![r] = 0]

\* COMMIT takes effect in the database; r has not heard of it yet.
Commit(r) ==
    /\ Step(r, "commit", "committed")
    /\ balance' = [a \in Accounts |->
                     IF update[r][a] = None THEN balance[a] ELSE update[r][a]]
    /\ rows'    = [a \in Accounts |->
                     IF insert[r][a] = None THEN rows[a]
                                            ELSE Append(rows[a], insert[r][a])]
    /\ IF order[r].op = "transfer"
         THEN UNCHANGED <<owner, kind>>
         ELSE /\ owner' = [owner EXCEPT ![dest[r]] = order[r].user]
              /\ kind'  = [kind EXCEPT ![dest[r]] = "fixedDeposit"]
    /\ Discard(r)
    /\ UNCHANGED <<order, outcome, clients, at, dest, clock, crashes>>

\* A statement of the transaction fails.
StatementFails(r) ==
    /\ \E here \in {"begin", "lock", "updateSender", "updateReceiver",
                    "insertAccount", "insertDebit", "insertCredit", "commit"} :
          Step(r, here, "rollback")
    /\ outcome' = [outcome EXCEPT ![r] = "error"]
    /\ UNCHANGED <<order, dbVars, clients, holder, at, txVars, localVars, dest,
                   clock, crashes>>

\* ROLLBACK, or the loss of the connection it was sent on (then its own error
\* replaces the one being handled), and client.release() in the finally.
Rollback(r) ==
    /\ \E result \in {outcome[r], "error"} : Finish(r, "rollback", result)
    /\ Discard(r)
    /\ Release(r)
    /\ UNCHANGED <<order, dbVars, at, dest, clock, crashes>>

-----------------------------------------------------------------------------
(* After the transaction.                                                  *)

\* withTransaction returns.  A fixed deposit has nothing left to wait for.
Committed(r) ==
    /\ pc[r] = "committed"
    /\ IF order[r].op = "transfer"
         THEN Step(r, "committed", "evaluate") /\ UNCHANGED outcome
         ELSE Finish(r, "committed", "ok")
    /\ Release(r)
    /\ UNCHANGED <<order, dbVars, holder, at, txVars, localVars, dest, clock,
                   crashes>>

\* The connection breaks before the answer to COMMIT arrives: withTransaction
\* throws although the transaction is committed.
AnswerLost(r) ==
    /\ Finish(r, "committed", "error")
    /\ Release(r)
    /\ UNCHANGED <<order, dbVars, holder, at, txVars, localVars, dest, clock,
                   crashes>>

\* await evaluateTransfer: a query of the pool, whose failure is thrown.
EvaluateTransfer(r) ==
    /\ \/ PoolHasRoom /\ Finish(r, "evaluate", "ok")
       \/ Finish(r, "evaluate", "error")
    /\ UNCHANGED <<order, dbVars, clients, holder, at, txVars, localVars, dest,
                   clock, crashes>>

-----------------------------------------------------------------------------
\* The process dies and is started again.  The database rolls back what was
\* open; no caller gets an answer.
Crash ==
    /\ crashes < MaxCrashes
    /\ crashes' = crashes + 1
    /\ pc' = [r \in Requests |-> IF pc[r] \in {"idle", "done"} THEN pc[r]
                                                               ELSE "lost"]
    /\ outcome' = [r \in Requests |-> IF pc[r] = "done" THEN outcome[r]
                                                        ELSE "none"]
    /\ clients' = {}
    /\ holder'  = [a \in Accounts |-> None]
    /\ update'  = [r \in Requests |-> NoWrites]
    /\ insert'  = [r \in Requests |-> NoWrites]
    /\ seen'    = [r \in Requests |-> Nothing]
    /\ newSender'   = [r \in Requests |-> 0]
    /\ newReceiver' = [r \in Requests |-> 0]
    /\ UNCHANGED <<order, dbVars, at, dest, clock>>

\* What a request does of its own accord.
Proceed(r) ==
    \/ Lookup(r) \/ Connect(r) \/ Begin(r)
    \/ \E a \in Accounts : Lock(r, a)
    \/ Insufficient(r) \/ Decide(r)
    \/ UpdateSender(r) \/ UpdateReceiver(r)
    \/ \E a \in Accounts : InsertAccount(r, a)
    \/ RetryInsert(r) \/ InsertDebit(r) \/ InsertCredit(r)
    \/ Commit(r) \/ Rollback(r) \/ Committed(r) \/ EvaluateTransfer(r)

\* What goes wrong around it.
Fail(r) ==
    \/ NotConnected(r) \/ NumberCollides(r) \/ StatementFails(r)
    \/ AnswerLost(r)

Next ==
    \/ \E r \in Requests :
          \/ \E o \in Orders : Submit(r, o)
          \/ Proceed(r)
          \/ Fail(r)
    \/ Crash

Spec == Init /\ [][Next]_vars

\* The event loop and the database keep serving every request; nothing forces
\* a request to be made, a statement to fail or the process to crash.
FairSpec == Spec /\ \A r \in Requests : WF_vars(Proceed(r))

-----------------------------------------------------------------------------
(* Properties.                                                             *)

TxStates ==
    {"begin", "lock", "decide", "updateSender", "updateReceiver",
     "insertAccount", "retryInsert", "insertDebit", "insertCredit", "commit",
     "rollback"}
States ==
    TxStates \cup {"idle", "lookup", "connect", "committed", "evaluate", "done",
                   "lost"}

\* Every variable keeps its type; in particular no committed or uncommitted
\* balance is negative (the CHECKs of schema.sql never fire).
TypeOK ==
    /\ pc \in [Requests -> States]
    /\ order \in [Requests -> Orders \cup {None}]
    /\ outcome \in [Requests -> {"none", "ok", "rejected", "error"}]
    /\ balance \in [Accounts -> Nat]
    /\ owner \in [Accounts -> Users \cup {None}]
    /\ kind \in [Accounts -> {"none", "savings", "fixedDeposit"}]
    /\ rows \in [Accounts -> Seq(Row)]
    /\ clients \subseteq Requests
    /\ holder \in [Accounts -> Requests \cup {None}]
    /\ at \in [Requests -> Nat]
    /\ update \in [Requests -> [Accounts -> Nat \cup {None}]]
    /\ insert \in [Requests -> [Accounts -> Row \cup {None}]]
    /\ seen \in [Requests -> [Accounts -> Nat]]
    /\ dest \in [Requests -> Accounts \cup {None}]
    /\ newSender \in [Requests -> Nat]
    /\ newReceiver \in [Requests -> Nat]
    /\ clock \in Nat
    /\ crashes \in Nat

\* The requests whose money has moved: a debit of theirs is committed.
Paid == {r \in Requests : \E a \in Accounts : \E i \in DOMAIN rows[a] :
            rows[a][i].transfer = r /\ rows[a][i].type = "debit"}

\* Money is neither made nor lost, whatever interleaves, fails or crashes
\* (withTransaction's all-or-nothing, the row locks and the two UPDATEs).
MoneyConserved == SumFunction(balance) = SumFunction(SeedBalance)

\* Every ledger row of an account carries the balance its amount leads to from
\* the row before, and the last one carries the account's balance: a statement
\* printed from transactions is right although the balance is computed from a
\* value read before the UPDATE (transferService.js:85-105).
Before(a, i) == IF i = 1 THEN SeedBalance[a] ELSE rows[a][i - 1].after
LedgerExplainsBalance ==
    \A a \in Accounts :
        /\ balance[a] = Before(a, Len(rows[a]) + 1)
        /\ \A i \in 1 .. Len(rows[a]) :
              rows[a][i].after =
                IF rows[a][i].type = "debit" THEN Before(a, i) - rows[a][i].amount
                                             ELSE Before(a, i) + rows[a][i].amount

\* Double entry (schema.sql:80-82): every row is matched, in its counterparty's
\* ledger, by exactly one row of the same transfer, the other type, the same
\* amount and the reverse counterparty; and no account has two rows of one
\* transfer.
DoubleEntry ==
    \A a \in Accounts : \A i \in 1 .. Len(rows[a]) :
        LET row == rows[a][i]
            twins == {j \in 1 .. Len(rows[row.peer]) :
                        rows[row.peer][j].transfer = row.transfer}
        IN  /\ row.peer # a
            /\ \E j \in 1 .. Len(rows[row.peer]) :
                  /\ twins = {j}
                  /\ rows[row.peer][j].peer = a
                  /\ rows[row.peer][j].amount = row.amount
                  /\ rows[row.peer][j].type # row.type

\* While a request holds an account's row, what it read is what is committed: no
\* transfer overwrites another's (re-check after the lock,
\* transferService.js:24-25).
NoLostUpdate ==
    \A r \in Requests : \A a \in Held(r) :
        owner[a] # None => seen[r][a] = balance[a]

\* r cannot go on before s ends.
WaitsFor(r, s) ==
    /\ pc[r] = "lock"
    /\ \E a \in Accounts : IsNext(r, a) /\ holder[a] = s
    /\ r # s

\* No set of requests waits for one another (transferService.js:21-23): in any
\* such set somebody waits for nobody in it.
NoDeadlock ==
    \A S \in (SUBSET Requests) \ {{}} :
        \E r \in S : \A s \in S : ~WaitsFor(r, s)

\* A request that is over, or not yet connected, holds no connection and no
\* row: whatever path it left withTransaction by (db.js:44-49).
NothingLeaks ==
    /\ clients = {r \in Requests : pc[r] \in TxStates \cup {"committed"}}
    /\ \A r \in Requests : Held(r) # {} => pc[r] \in TxStates

\* The abstract bank: money moves as told, at most once, and the answers agree.
Told == [r \in Requests |-> IF pc[r] = "done" THEN outcome[r] ELSE "none"]
B == INSTANCE Bank WITH funds <- balance, ownerOf <- owner, paid <- Paid,
                        told <- Told
ImplementsBank == B!Spec

\* Every call that is made returns or throws, unless the process dies under it:
\* no lock or connection keeps it waiting for ever.
EveryCallEnds ==
    \A r \in Requests : pc[r] = "lookup" ~> pc[r] \in {"done", "lost"}

-----------------------------------------------------------------------------
(* What the repository says and the code does not do.                      *)

\* README.md:310: if any step fails nothing is persisted.  A caller told of an
\* internal error may then assume that nothing moved.
ErrorMeansNothingMoved ==
    \A r \in Paid : pc[r] = "done" => outcome[r] # "error"

\* transactionModel.js:5: history by created_at, most recent first.
HistoryNewestFirst ==
    \A a \in Accounts : \A i, j \in 1 .. Len(rows[a]) :
        i < j => rows[a][i].at < rows[a][j].at
=============================================================================
