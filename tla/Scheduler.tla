----------------------------- MODULE Scheduler -----------------------------
(***************************************************************************)
(* utils/scheduler.js over models/scheduledTransferModel.js: a worker in   *)
(* the API process that setInterval starts again and again, whether or not *)
(* the run before has ended, and users who create and cancel the jobs      *)
(* meanwhile.  A run (a tick) works on the rows as its SELECT found them.  *)
(*                                                                         *)
(* Time is counted in periods of the recurring jobs; the calendar          *)
(* (computeNextRun's weeks and months) is abstracted to "one period on".   *)
(* executeTransfer does what Bank says: the money moves in one step, or    *)
(* not at all, and a call whose money moved may still throw.               *)
(***************************************************************************)
EXTENDS Integers, Functions

CONSTANTS
    Jobs,
    Once,             \* jobs of frequency 'once'; the others are recurring
    FirstRun,         \* scheduledAt of every job
    Ticks,            \* runs of runDueTransfers alive at a time
    MaxFailures,      \* MAX_CONSECUTIVE_FAILURES
    MayAccept,        \* whether PostgreSQL accepts the UPDATE of recordRunResult:
                      \* {FALSE} as the statement is, {TRUE} once it is repaired
    MaxNow,           \* bound on time
    MaxDisturbances,  \* bound on what goes wrong
    MaxMoves,         \* bound on the payments of a job for one date
    None

ASSUME JobsAssumption ==
    /\ Once \subseteq Jobs
    /\ FirstRun \in [Jobs -> 1 .. MaxNow]
ASSUME BoundsAssumption ==
    /\ MaxFailures \in Nat \ {0}
    /\ MaxNow \in Nat \ {0}
    /\ MaxDisturbances \in Nat
    /\ MaxMoves \in Nat \ {0}
    /\ MayAccept \subseteq BOOLEAN

VARIABLES
    accepted,      \* the UPDATE of recordRunResult is accepted; never changes
    now,
    status, nextRun, failures,   \* the rows of scheduled_transfers
    moved,         \* how often each job's money moved, by date due
    pc,            \* where each tick is
    due,           \* the rows findDue returned that it has still to do
    job,           \* the row it is at
    unrecorded,    \* the payments of each job whose recording was rejected
    disturbances   \* what has gone wrong so far

rowVars  == <<status, nextRun, failures>>
tickVars == <<pc, due, job>>
vars == <<accepted, now, rowVars, moved, tickVars, unrecorded, disturbances>>

Dates == 1 .. MaxNow + 1

\* A row as a tick has read it.
Snapshot == [id : Jobs, failures : Nat, nextRun : Dates]

ASSUME NoneAssumption == None \notin Nat \cup Snapshot

Init ==
    /\ accepted \in MayAccept
    /\ now      = 0
    /\ status   = [j \in Jobs |-> "none"]
    /\ nextRun  = FirstRun
    /\ failures = [j \in Jobs |-> 0]
    /\ moved    = [j \in Jobs |-> [d \in Dates |-> 0]]
    /\ pc       = [t \in Ticks |-> "idle"]
    /\ due      = [t \in Ticks |-> {}]
    /\ job      = [t \in Ticks |-> None]
    /\ unrecorded   = [j \in Jobs |-> 0]
    /\ disturbances = 0

Goto(t, here, there) == pc[t] = here /\ pc' = [pc EXCEPT ![t] = there]

\* Something goes wrong.
Disturb ==
    /\ disturbances < MaxDisturbances
    /\ disturbances' = disturbances + 1

-----------------------------------------------------------------------------
(* Users, time and the interval timer.                                     *)

\* POST /scheduled-transfers: scheduledAt must lie in the future.
Create(j) ==
    /\ status[j] = "none"
    /\ now < nextRun[j]
    /\ status' = [status EXCEPT ![j] = "active"]
    /\ UNCHANGED <<accepted, now, nextRun, failures, moved, tickVars>>
    /\ UNCHANGED <<unrecorded, disturbances>>

\* DELETE /scheduled-transfers/:id, whatever the status is.
Cancel(j) ==
    /\ status[j] # "none"
    /\ status' = [status EXCEPT ![j] = "cancelled"]
    /\ UNCHANGED <<accepted, now, nextRun, failures, moved, tickVars>>
    /\ UNCHANGED <<unrecorded, disturbances>>

Pass ==
    /\ now < MaxNow
    /\ now' = now + 1
    /\ UNCHANGED <<accepted, unrecorded, rowVars, moved, tickVars, disturbances>>

\* The interval has elapsed.  That the run before is still going is one of the
\* things that can go wrong.
Tick(t) ==
    /\ Goto(t, "idle", "find")
    /\ IF \A u \in Ticks : pc[u] = "idle" THEN UNCHANGED disturbances ELSE Disturb
    /\ UNCHANGED <<accepted, unrecorded, now, rowVars, moved, due, job>>

-----------------------------------------------------------------------------
(* A run of runDueTransfers.                                               *)

\* A bug: a job whose last run failed is not found again.
IsDueUnlessFailed(j) ==
    status[j] = "active" /\ nextRun[j] <= now /\ failures[j] = 0

IsDue(j) == status[j] = "active" /\ nextRun[j] <= now

\* On to the next row, or to the end of the run.
Continue(t, here) ==
    /\ Goto(t, here, IF due[t] = {} THEN "idle" ELSE "take")
    /\ job' = [job EXCEPT ![t] = None]

FindDue(t) ==
    /\ due' = [due EXCEPT ![t] =
                 {[id |-> j, failures |-> failures[j], nextRun |-> nextRun[j]] :
                    j \in {i \in Jobs : IsDue(i)}}]
    /\ Goto(t, "find", IF due'[t] = {} THEN "idle" ELSE "take")
    /\ UNCHANGED <<accepted, unrecorded, now, rowVars, moved, job, disturbances>>

\* Logged; the run is over.
FindDueFails(t) ==
    /\ Disturb
    /\ Goto(t, "find", "idle")
    /\ UNCHANGED <<accepted, unrecorded, now, rowVars, moved, due, job>>

\* The SELECT has no ORDER BY.
Take(t) ==
    /\ Goto(t, "take", "execute")
    /\ \E row \in due[t] :
          /\ job' = [job EXCEPT ![t] = row]
          /\ due' = [due EXCEPT ![t] = @ \ {row}]
    /\ UNCHANGED <<accepted, unrecorded, now, rowVars, moved, disturbances>>

Move(t) ==
    /\ moved[job[t].id][job[t].nextRun] < MaxMoves
    /\ moved' = [moved EXCEPT ![job[t].id][job[t].nextRun] = @ + 1]

\* executeTransfer returns.
Execute(t) ==
    /\ Goto(t, "execute", "recordSuccess")
    /\ Move(t)
    /\ UNCHANGED <<accepted, unrecorded, now, rowVars, due, job, disturbances>>

\* findById or executeTransfer throws, with nothing moved; for a job that is
\* broken (a bad recipient) it does so every time.
ExecuteFails(t) ==
    /\ Goto(t, "execute", "recordFailure")
    /\ UNCHANGED <<accepted, unrecorded, now, rowVars, moved, due, job, disturbances>>

\* executeTransfer throws although it committed.
ExecuteThrowsLate(t) ==
    /\ Disturb
    /\ Goto(t, "execute", "recordFailure")
    /\ Move(t)
    /\ UNCHANGED <<accepted, unrecorded, now, rowVars, due, job>>

\* A bug: COALESCE is forgotten.
CoalesceForgotten(new, old) == new

Coalesce(new, old) == IF new = None THEN old ELSE new

\* A bug: a job that goes on is made active.
StatusAfterActive(old, completed, autoPause) ==
    IF completed THEN "completed" ELSE IF autoPause THEN "paused" ELSE "active"

StatusAfter(old, completed, autoPause) ==
    IF completed THEN "completed" ELSE IF autoPause THEN "paused" ELSE old

\* recordRunResult: one UPDATE by id, whatever has become of the row.
RecordRunResult(j, success, nextRunAt, completed, autoPause) ==
    /\ nextRun'  = [nextRun EXCEPT ![j] = Coalesce(nextRunAt, @)]
    /\ failures' = [failures EXCEPT ![j] = IF success THEN 0 ELSE @ + 1]
    /\ status'   = [status EXCEPT ![j] = StatusAfter(@, completed, autoPause)]

\* A bug: the date of the next run is not moved on.
NextRunAtSame(row) == IF row.id \in Once THEN None ELSE row.nextRun

\* computeNextRun of the date in the snapshot; null for a one-time job.
NextRunAt(row) == IF row.id \in Once THEN None ELSE row.nextRun + 1

\* A bug: the run that follows a failure is the one of the next date.
NextRunAfterFailureMovedOn(row) == NextRunAt(row)

\* A failed run leaves the date alone: it is due again in the next cycle.
NextRunAfterFailure(row) == None

RecordedSuccess(t) ==
    RecordRunResult(job[t].id, TRUE, NextRunAt(job[t]), job[t].id \in Once, FALSE)

\* Bugs: one attempt too many, and one too few.
WillHitLimitLate(row)  == row.failures >= MaxFailures
WillHitLimitEarly(row) == row.failures + 2 >= MaxFailures

\* Told from the snapshot.
WillHitLimit(row) == row.failures + 1 >= MaxFailures

RecordedFailure(t) ==
    RecordRunResult(job[t].id, FALSE, NextRunAfterFailure(job[t]), FALSE,
                    WillHitLimit(job[t]))

RecordSuccess(t) ==
    /\ accepted
    /\ Continue(t, "recordSuccess")
    /\ RecordedSuccess(t)
    /\ UNCHANGED <<accepted, unrecorded, now, moved, due, disturbances>>

\* An UPDATE that the database accepts throws only when something goes wrong,
\* and may have been performed then.
StatementThrows(recorded) ==
    /\ IF accepted THEN Disturb ELSE UNCHANGED disturbances
    /\ UNCHANGED rowVars \/ (accepted /\ recorded)

\* The catch records a failure.
RecordSuccessThrows(t) ==
    /\ Goto(t, "recordSuccess", "recordFailure")
    /\ StatementThrows(RecordedSuccess(t))
    /\ unrecorded' = IF accepted THEN unrecorded
                     ELSE [unrecorded EXCEPT ![job[t].id] = @ + 1]
    /\ UNCHANGED <<accepted, now, moved, due, job>>

RecordFailure(t) ==
    /\ accepted
    /\ Continue(t, "recordFailure")
    /\ RecordedFailure(t)
    /\ UNCHANGED <<accepted, unrecorded, now, moved, due, disturbances>>

\* Nothing catches what the catch throws: the rest of the run is dropped
\* ("Scheduler tick failed").
RecordFailureThrows(t) ==
    /\ Goto(t, "recordFailure", "idle")
    /\ StatementThrows(RecordedFailure(t))
    /\ due' = [due EXCEPT ![t] = {}]
    /\ job' = [job EXCEPT ![t] = None]
    /\ UNCHANGED <<accepted, unrecorded, now, moved>>

\* The process dies and starts again with its timer.  A transfer under way has
\* committed or has not.
Crash ==
    /\ Disturb
    /\ \E t \in Ticks : pc[t] # "idle"
    /\ pc'  = [t \in Ticks |-> "idle"]
    /\ due' = [t \in Ticks |-> {}]
    /\ job' = [t \in Ticks |-> None]
    /\ UNCHANGED <<accepted, unrecorded, now, rowVars, moved>>

Run(t) ==
    \/ FindDue(t) \/ Take(t) \/ Execute(t) \/ ExecuteFails(t)
    \/ RecordSuccess(t) \/ RecordFailure(t)
    \/ RecordSuccessThrows(t) \/ RecordFailureThrows(t)
    \/ FindDueFails(t) \/ ExecuteThrowsLate(t)

Next ==
    \/ \E j \in Jobs : Create(j) \/ Cancel(j)
    \/ Pass
    \/ \E t \in Ticks : Tick(t) \/ Run(t)
    \/ Crash

Spec == Init /\ [][Next]_vars

\* The timer keeps firing and a run keeps going; users need do nothing.
FairSpec ==
    /\ Spec
    /\ \A t \in Ticks : WF_vars(Tick(t)) /\ WF_vars(Run(t))

-----------------------------------------------------------------------------
(* Properties.                                                             *)

TypeOK ==
    /\ accepted \in BOOLEAN
    /\ now \in 0 .. MaxNow
    /\ status \in [Jobs -> {"none", "active", "paused", "cancelled", "completed"}]
    /\ nextRun \in [Jobs -> Dates]
    /\ failures \in [Jobs -> Nat]
    /\ moved \in [Jobs -> [Dates -> Nat]]
    /\ pc \in [Ticks -> {"idle", "find", "take", "execute", "recordSuccess",
                         "recordFailure"}]
    /\ due \in [Ticks -> SUBSET Snapshot]
    /\ job \in [Ticks -> Snapshot \cup {None}]
    /\ unrecorded \in [Jobs -> Nat]
    /\ disturbances \in Nat

\* Payments of a job made again for a date they had been made for.
Repeats(j) ==
    SumFunction([d \in Dates |-> IF moved[j][d] > 1 THEN moved[j][d] - 1 ELSE 0])

\* Nothing makes a job pay twice for one date but a crash, a failed statement, an
\* overlap of two runs, or a payment of its own whose recording the database
\* rejects, as it does every time at this commit (scheduledTransferModel.js:62);
\* and each of them at most once.
RepeatsExplained ==
    \A j \in Jobs : Repeats(j) <= disturbances + unrecorded[j]

\* Whatever goes wrong, no payment is skipped: a date is passed over, or a
\* one-time job completed, only when its money has moved.
NoPaymentSkipped ==
    \A j \in Jobs :
        /\ \A d \in FirstRun[j] .. nextRun[j] - 1 : moved[j][d] > 0
        /\ status[j] = "completed" => moved[j][FirstRun[j]] > 0

\* A job that is tried again has not failed MAX_CONSECUTIVE_FAILURES times in a
\* row (schema.sql:184-187), up to the runs that overlapped.
ActiveBelowLimit ==
    \A j \in Jobs :
        status[j] = "active" => failures[j] < MaxFailures + disturbances

\* A job is paused by that many failures and nothing less.
PausedForCause ==
    \A j \in Jobs : status[j] = "paused" /\ disturbances = 0 =>
        failures[j] >= MaxFailures

\* Both: overlapping runs that count on stale snapshots neither try a job for ever
\* nor pause a healthy one (scheduler.js:81).
PausedAtLimit == ActiveBelowLimit /\ PausedForCause

\* A job that was cancelled, paused or completed while a run had it in hand does
\* not come back to life when its result is recorded (scheduler.js:73,
\* scheduledTransferModel.js:65).
EndedStaysEnded ==
    [][\A j \in Jobs : status[j] \notin {"none", "active"} => status'[j] # "active"]_vars

\* A run is about to be dropped, with all the rows it has still to do, because
\* the row it is at cannot be recorded.
RunIsLost == ~accepted /\ \E t \in Ticks : pc[t] = "recordFailure"

\* A job that is due is paid, or given up, in the end: none stays at a date for
\* ever (scheduler.js:36-45).  That takes an UPDATE that the database accepts.
\* With the one of this commit all that is sure is that the worker dies over some
\* job: the one it is at never settles, and those behind it may never be tried.
EveryDueJobSettles ==
    \A j \in Jobs : \A d \in 1 .. MaxNow :
        status[j] = "active" /\ nextRun[j] = d /\ d <= now
            ~> status[j] # "active" \/ nextRun[j] # d \/ RunIsLost

\* What the repository says and the code does not do.  README.md:169: a job can
\* be set up to run once.
OnceRunsOnce == \A j \in Once : moved[j][FirstRun[j]] <= 1
=============================================================================
