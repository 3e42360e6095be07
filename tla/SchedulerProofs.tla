--------------------------- MODULE SchedulerProofs ---------------------------
(***************************************************************************)
(* Theorems about Scheduler, for every set of jobs, dates and ticks, every *)
(* MAX_CONSECUTIVE_FAILURES, whether or not the database accepts           *)
(* recordRunResult, and every number of disturbances.                      *)
(***************************************************************************)
EXTENDS Scheduler, FunctionSums, FiniteSets, FiniteSetTheorems, TLAPS

-----------------------------------------------------------------------------
(* The inductive invariant.                                                *)

AtRow == {"execute", "recordSuccess", "recordFailure"}

\* The snapshots a tick has still to deal with.
Held(t) == due[t] \cup {row \in {job[t]} : row # None}

\* A tick is at a row exactly while it executes or records it, and that row is
\* no longer among those it has still to take.
Placed(t) ==
    /\ job[t] # None <=> pc[t] \in AtRow
    /\ pc[t] \in {"idle", "find"} => due[t] = {}
    /\ job[t] \notin due[t]

\* It holds at most one snapshot of a job.
ShapeInv ==
    \A t \in Ticks : Placed(t) /\ \A r, s \in Held(t) : r.id = s.id => r = s

\* Every date of job j before date has been paid.
PaidBefore(j, date) == \A d \in FirstRun[j] .. date - 1 : moved[j][d] > 0

\* A date a job may stand at.
Reached(j, date) ==
    /\ FirstRun[j] <= date
    /\ PaidBefore(j, date)
    /\ j \in Once => date = FirstRun[j]

\* The rows stand at dates before which everything is paid, and so do the
\* snapshots, however stale: what a tick writes back is one period on from a
\* date that it has just paid.
DateInv ==
    /\ \A j \in Jobs :
        /\ Reached(j, nextRun[j])
        /\ status[j] = "completed" => moved[j][FirstRun[j]] > 0
    /\ \A t \in Ticks :
        /\ \A row \in Held(t) :
             row.nextRun <= MaxNow /\ Reached(row.id, row.nextRun)
        /\ pc[t] = "recordSuccess" => moved[job[t].id][job[t].nextRun] > 0

Alive == {t \in Ticks : pc[t] # "idle"}

\* The ticks whose next failure of job j will not pause it.
Sparing(j) ==
    {t \in Ticks : \E row \in Held(t) : row.id = j /\ ~WillHitLimit(row)}

\* Every tick but one that is under way has cost a disturbance, and so has
\* every failure that stale snapshots let a job survive.
LimitInv ==
    /\ IsFiniteSet(Alive)
    /\ Cardinality(Alive) <= 1 + disturbances
    /\ \A j \in Jobs : status[j] \in {"none", "active"} =>
         failures[j] + Cardinality(Sparing(j)) < MaxFailures + disturbances

\* While nothing has gone wrong no snapshot is stale.
CauseInv ==
    disturbances = 0 =>
        /\ \A t, u \in Alive : t = u
        /\ \A t \in Ticks : \A row \in Held(t) :
             /\ row.failures = failures[row.id]
             /\ status[row.id] # "paused"
        /\ PausedForCause

IInv == TypeOK /\ ShapeInv /\ DateInv /\ LimitInv /\ CauseInv

-----------------------------------------------------------------------------
(* What the steps do to the rows and the snapshots.                        *)

LEMMA Bounds ==
    /\ MaxFailures \in Nat /\ MaxFailures > 0
    /\ MaxNow \in Nat /\ MaxNow > 0
    /\ MaxDisturbances \in Nat
    /\ \A j \in Jobs : FirstRun[j] \in 1 .. MaxNow
    /\ None \notin Nat /\ None \notin Snapshot
BY BoundsAssumption, JobsAssumption, NoneAssumption

LEMMA SnapshotFields ==
    ASSUME NEW row \in Snapshot
    PROVE  row.id \in Jobs /\ row.failures \in Nat /\ row.nextRun \in Dates
BY DEF Snapshot

\* Snapshots are typed, and the row at hand is one.
LEMMA HeldTypes ==
    ASSUME TypeOK, NEW t \in Ticks
    PROVE  /\ Held(t) \subseteq Snapshot
           /\ job[t] # None => job[t] \in Held(t)
BY DEF TypeOK, Held

\* The UPDATE of a recorded success, and of a recorded failure.
LEMMA SuccessRecorded ==
    ASSUME NEW t \in Ticks, job[t] \in Snapshot, RecordedSuccess(t)
    PROVE  /\ nextRun' = [nextRun EXCEPT ![job[t].id] =
                IF job[t].id \in Once THEN nextRun[job[t].id]
                                      ELSE job[t].nextRun + 1]
           /\ failures' = [failures EXCEPT ![job[t].id] = 0]
           /\ status' = [status EXCEPT ![job[t].id] =
                IF job[t].id \in Once THEN "completed" ELSE status[job[t].id]]
<1>1. job[t].nextRun + 1 # None
  BY Bounds, SnapshotFields DEF Dates
<1>2. QED
  BY <1>1
     DEF RecordedSuccess, RecordRunResult, NextRunAt, Coalesce, StatusAfter

LEMMA FailureRecorded ==
    ASSUME NEW t \in Ticks, RecordedFailure(t)
    PROVE  /\ nextRun' = [nextRun EXCEPT ![job[t].id] = nextRun[job[t].id]]
           /\ failures' =
                [failures EXCEPT ![job[t].id] = failures[job[t].id] + 1]
           /\ status' = [status EXCEPT ![job[t].id] =
                IF WillHitLimit(job[t]) THEN "paused" ELSE status[job[t].id]]
BY DEF RecordedFailure, RecordRunResult, NextRunAfterFailure, Coalesce,
       StatusAfter

\* What findDue returns.
Current(row) ==
    /\ row \in Snapshot
    /\ IsDue(row.id)
    /\ row.failures = failures[row.id]
    /\ row.nextRun = nextRun[row.id]

LEMMA FoundDue ==
    ASSUME TypeOK, NEW t \in Ticks, FindDue(t)
    PROVE  /\ due' = [due EXCEPT ![t] = due'[t]]
           /\ \A row \in due'[t] : Current(row)
           /\ due'[t] \subseteq Snapshot
           /\ \A r, s \in due'[t] : r.id = s.id => r = s
<1> DEFINE Row(j) ==
             [id |-> j, failures |-> failures[j], nextRun |-> nextRun[j]]
<1>1. /\ due' = [due EXCEPT ![t] = due'[t]]
      /\ due'[t] = {Row(j) : j \in {i \in Jobs : IsDue(i)}}
  BY DEF FindDue, TypeOK
<1>2. ASSUME NEW j \in Jobs PROVE Row(j) \in Snapshot /\ Row(j).id = j
  BY DEF TypeOK, Snapshot
<1>3. ASSUME NEW row \in due'[t] PROVE Current(row) /\ row = Row(row.id)
  <2>1. PICK j \in Jobs : IsDue(j) /\ row = Row(j)
    BY <1>1
  <2>2. row \in Snapshot /\ row.id = j
    BY <2>1, <1>2
  <2>3. row.failures = failures[j] /\ row.nextRun = nextRun[j]
    BY <2>1
  <2>4. QED
    BY <2>1, <2>2, <2>3 DEF Current
<1>4. QED
  BY <1>1, <1>3 DEF Current

-----------------------------------------------------------------------------
(* Types.                                                                  *)

LEMMA InitTypes == Init => TypeOK
<1> SUFFICES ASSUME Init PROVE TypeOK
  OBVIOUS
<1>1. nextRun \in [Jobs -> Dates]
  BY JobsAssumption, BoundsAssumption DEF Init, Dates
<1>2. moved \in [Jobs -> [Dates -> Nat]]
  BY DEF Init
<1>3. /\ now \in 0 .. MaxNow /\ disturbances \in Nat
      /\ accepted \in BOOLEAN /\ unrecorded \in [Jobs -> Nat]
  BY Bounds, BoundsAssumption DEF Init
<1>4. /\ due \in [Ticks -> SUBSET Snapshot]
      /\ job \in [Ticks -> Snapshot \cup {None}]
  BY DEF Init
<1>5. QED
  BY <1>1, <1>2, <1>3, <1>4 DEF Init, TypeOK

\* The date that a tick writes back.
LEMMA NextDate ==
    ASSUME DateInv, TypeOK, NEW t \in Ticks, job[t] # None
    PROVE  /\ job[t] \in Snapshot /\ job[t] \in Held(t)
           /\ job[t].id \in Jobs /\ job[t].nextRun \in Dates
           /\ job[t].nextRun + 1 \in Dates
BY HeldTypes, SnapshotFields, Bounds DEF DateInv, TypeOK, Dates

LEMMA NextTypes ==
    ASSUME TypeOK, ShapeInv, DateInv, [Next]_vars
    PROVE  TypeOK'
<1> USE DEF TypeOK, Goto, rowVars, tickVars
<1> DEFINE Rows == /\ status \in [Jobs -> {"none", "active", "paused",
                                           "cancelled", "completed"}]
                   /\ nextRun \in [Jobs -> Dates]
                   /\ failures \in [Jobs -> Nat]
<1>a. ASSUME NEW t \in Ticks, pc[t] \in AtRow
      PROVE  /\ job[t] # None
             /\ RecordedSuccess(t) => Rows'
             /\ RecordedFailure(t) => Rows'
  <2>1. job[t] # None
    BY <1>a DEF ShapeInv, Placed
  <2>2. RecordedSuccess(t) => Rows'
    <3> SUFFICES ASSUME RecordedSuccess(t) PROVE Rows'
      OBVIOUS
    <3>1. /\ job[t].id \in Jobs /\ job[t].nextRun + 1 \in Dates
          /\ job[t] \in Snapshot
      BY <2>1, NextDate
    <3>2. nextRun' \in [Jobs -> Dates]
      <4>1. nextRun' = [nextRun EXCEPT ![job[t].id] =
                IF job[t].id \in Once THEN nextRun[job[t].id]
                                      ELSE job[t].nextRun + 1]
        BY <3>1, SuccessRecorded
      <4>2. nextRun \in [Jobs -> Dates] /\ nextRun[job[t].id] \in Dates
        BY <3>1
      <4>3. QED
        BY <3>1, <4>1, <4>2
    <3>3. failures' \in [Jobs -> Nat]
      <4>1. failures' = [failures EXCEPT ![job[t].id] = 0]
        BY <3>1, SuccessRecorded
      <4>2. QED
        BY <4>1
    <3>4. status' \in [Jobs -> {"none", "active", "paused", "cancelled",
                                "completed"}]
      BY <3>1, SuccessRecorded
    <3>5. QED
      BY <3>2, <3>3, <3>4
  <2>3. RecordedFailure(t) => Rows'
    <3> SUFFICES ASSUME RecordedFailure(t) PROVE Rows'
      OBVIOUS
    <3>1. job[t].id \in Jobs
      BY <2>1, NextDate
    <3>2. nextRun' \in [Jobs -> Dates]
      BY <3>1, FailureRecorded
    <3>3. failures' \in [Jobs -> Nat]
      BY <3>1, FailureRecorded
    <3>4. status' \in [Jobs -> {"none", "active", "paused", "cancelled",
                                "completed"}]
      BY <3>1, FailureRecorded
    <3>5. QED
      BY <3>2, <3>3, <3>4
  <2>4. QED
    BY <2>1, <2>2, <2>3
<1>b. ASSUME NEW t \in Ticks, pc[t] \in AtRow, Move(t)
      PROVE  moved' \in [Jobs -> [Dates -> Nat]]
  BY <1>b, <1>a, NextDate DEF Move
<1>1. ASSUME NEW j \in Jobs, Create(j) PROVE TypeOK'
  BY <1>1 DEF Create
<1>2. ASSUME NEW j \in Jobs, Cancel(j) PROVE TypeOK'
  BY <1>2 DEF Cancel
<1>3. ASSUME Pass PROVE TypeOK'
  BY <1>3, Bounds DEF Pass
<1>4. ASSUME NEW t \in Ticks, Tick(t) PROVE TypeOK'
  BY <1>4 DEF Tick, Disturb
<1>5. ASSUME NEW t \in Ticks, FindDue(t) PROVE TypeOK'
  <2>1. due' \in [Ticks -> SUBSET Snapshot]
    BY <1>5, FoundDue
  <2>2. QED
    BY <1>5, <2>1 DEF FindDue
<1>6. ASSUME NEW t \in Ticks, Take(t) PROVE TypeOK'
  BY <1>6 DEF Take
<1>7. ASSUME NEW t \in Ticks, Execute(t) PROVE TypeOK'
  BY <1>7, <1>b DEF Execute, AtRow
<1>8. ASSUME NEW t \in Ticks, ExecuteFails(t) PROVE TypeOK'
  BY <1>8 DEF ExecuteFails
<1>9. ASSUME NEW t \in Ticks, RecordSuccess(t) PROVE TypeOK'
  BY <1>9, <1>a DEF RecordSuccess, Continue, AtRow
<1>10. ASSUME NEW t \in Ticks, RecordFailure(t) PROVE TypeOK'
  BY <1>10, <1>a DEF RecordFailure, Continue, AtRow
<1>11. ASSUME NEW t \in Ticks, RecordSuccessThrows(t) PROVE TypeOK'
  <2>1. unrecorded' \in [Jobs -> Nat]
    <3>1. unrecorded' = unrecorded
            \/ unrecorded' = [unrecorded EXCEPT ![job[t].id] = @ + 1]
      BY <1>11 DEF RecordSuccessThrows
    <3>2. unrecorded \in [Jobs -> Nat]
      OBVIOUS
    <3>3. QED
      BY <3>1, <3>2
  <2>2. Rows' /\ disturbances' \in Nat
    BY <1>11, <1>a DEF RecordSuccessThrows, StatementThrows, Disturb, AtRow
  <2>3. QED
    BY <1>11, <2>1, <2>2 DEF RecordSuccessThrows
<1>12. ASSUME NEW t \in Ticks, RecordFailureThrows(t) PROVE TypeOK'
  BY <1>12, <1>a DEF RecordFailureThrows, StatementThrows, Disturb, AtRow
<1>13. ASSUME NEW t \in Ticks, FindDueFails(t) PROVE TypeOK'
  BY <1>13 DEF FindDueFails, Disturb
<1>14. ASSUME NEW t \in Ticks, ExecuteThrowsLate(t) PROVE TypeOK'
  BY <1>14, <1>b DEF ExecuteThrowsLate, Disturb, AtRow
<1>15. ASSUME Crash PROVE TypeOK'
  BY <1>15 DEF Crash, Disturb
<1>16. ASSUME UNCHANGED vars PROVE TypeOK'
  BY <1>16 DEF vars
<1>17. QED
  BY <1>1, <1>2, <1>3, <1>4, <1>5, <1>6, <1>7, <1>8, <1>9, <1>10, <1>11,
     <1>12, <1>13, <1>14, <1>15, <1>16 DEF Next, Run

-----------------------------------------------------------------------------
(* The snapshots.                                                          *)

LEMMA InitShape == Init => ShapeInv
BY DEF Init, ShapeInv, Placed, Held, AtRow

\* A tick gets new snapshots from its SELECT and from nowhere else.
LEMMA HeldNext ==
    ASSUME TypeOK, ShapeInv, [Next]_vars, NEW t \in Ticks, NEW row \in Held(t)'
    PROVE  row \in Held(t) \/ (FindDue(t) /\ Current(row))
<1> USE DEF TypeOK, Goto, Held
<1>1. ASSUME NEW u \in Ticks, FindDue(u)
      PROVE  row \in Held(t) \/ (FindDue(t) /\ Current(row))
  BY <1>1, FoundDue DEF FindDue, ShapeInv, Placed, AtRow
<1>2. ASSUME NEW u \in Ticks, Take(u) PROVE row \in Held(t)
  BY <1>2 DEF Take
<1>3. ASSUME NEW u \in Ticks, RecordSuccess(u) \/ RecordFailure(u)
      PROVE  row \in Held(t)
  BY <1>3 DEF RecordSuccess, RecordFailure, Continue
<1>4. ASSUME NEW u \in Ticks, RecordFailureThrows(u) PROVE row \in Held(t)
  BY <1>4 DEF RecordFailureThrows
<1>5. ASSUME Crash PROVE row \in Held(t)
  BY <1>5 DEF Crash
<1>6. ASSUME UNCHANGED <<due, job>> PROVE row \in Held(t)
  BY <1>6
<1>7. QED
  BY <1>1, <1>2, <1>3, <1>4, <1>5, <1>6
     DEF Next, Run, Create, Cancel, Pass, Tick, Execute, ExecuteFails,
         RecordSuccessThrows, FindDueFails, ExecuteThrowsLate, vars, tickVars

LEMMA NextShape ==
    ASSUME TypeOK, ShapeInv, [Next]_vars
    PROVE  ShapeInv'
<1> USE DEF TypeOK, Goto, AtRow, tickVars, Placed
<1> SUFFICES ASSUME NEW t \in Ticks
             PROVE  Placed(t)' /\ \A r, s \in Held(t)' : r.id = s.id => r = s
  BY DEF ShapeInv
<1>a. Placed(t) /\ \A r, s \in Held(t) : r.id = s.id => r = s
  BY DEF ShapeInv
<1>b. None \notin Snapshot
  BY Bounds
<1>1. \A r, s \in Held(t)' : r.id = s.id => r = s
  <2>1. CASE FindDue(t)
    <3>1. Held(t)' = due'[t]
      BY <1>a, <2>1 DEF FindDue, Held
    <3>2. QED
      BY <2>1, <3>1, FoundDue
  <2>2. CASE ~FindDue(t)
    BY <1>a, <2>2, HeldNext
  <2>3. QED
    BY <2>1, <2>2
<1>2. Placed(t)'
  <2> USE <1>a, <1>b
  <2>1. ASSUME NEW u \in Ticks, Tick(u) PROVE Placed(t)'
    BY <2>1 DEF Tick
  <2>2. ASSUME NEW u \in Ticks, FindDue(u) PROVE Placed(t)'
    <3>1. due'[u] \subseteq Snapshot /\ due' = [due EXCEPT ![u] = due'[u]]
      BY <2>2, FoundDue
    <3>2. QED
      BY <2>2, <3>1 DEF FindDue
  <2>3. ASSUME NEW u \in Ticks, Take(u) PROVE Placed(t)'
    BY <2>3 DEF Take
  <2>4. ASSUME NEW u \in Ticks, Execute(u) \/ ExecuteFails(u) PROVE Placed(t)'
    BY <2>4 DEF Execute, ExecuteFails
  <2>5. ASSUME NEW u \in Ticks, RecordSuccess(u) \/ RecordFailure(u)
        PROVE  Placed(t)'
    BY <2>5 DEF RecordSuccess, RecordFailure, Continue
  <2>6. ASSUME NEW u \in Ticks, RecordSuccessThrows(u) PROVE Placed(t)'
    BY <2>6 DEF RecordSuccessThrows
  <2>7. ASSUME NEW u \in Ticks, RecordFailureThrows(u) PROVE Placed(t)'
    BY <2>7 DEF RecordFailureThrows
  <2>8. ASSUME NEW u \in Ticks, FindDueFails(u) \/ ExecuteThrowsLate(u)
        PROVE  Placed(t)'
    BY <2>8 DEF FindDueFails, ExecuteThrowsLate
  <2>9. ASSUME Crash PROVE Placed(t)'
    BY <2>9 DEF Crash
  <2>10. ASSUME UNCHANGED tickVars PROVE Placed(t)'
    BY <2>10
  <2>11. QED
    BY <2>1, <2>2, <2>3, <2>4, <2>5, <2>6, <2>7, <2>8, <2>9, <2>10
       DEF Next, Run, Create, Cancel, Pass, vars
<1>3. QED
  BY <1>1, <1>2

-----------------------------------------------------------------------------
(* The rows.                                                               *)

\* The statement of a tick that records that the row it is at was executed,
\* and that it was not, for job j.
SuccessOf(t, j) ==
    /\ RecordSuccess(t) \/ (RecordSuccessThrows(t) /\ Disturb)
    /\ pc[t] = "recordSuccess" /\ job[t].id = j
    /\ nextRun'[j] = IF j \in Once THEN nextRun[j] ELSE job[t].nextRun + 1
    /\ failures'[j] = 0
    /\ status'[j] = IF j \in Once THEN "completed" ELSE status[j]

FailureOf(t, j) ==
    /\ RecordFailure(t) \/ (RecordFailureThrows(t) /\ Disturb)
    /\ pc[t] = "recordFailure" /\ job[t].id = j
    /\ nextRun'[j] = nextRun[j]
    /\ failures'[j] = failures[j] + 1
    /\ status'[j] = IF WillHitLimit(job[t]) THEN "paused" ELSE status[j]

\* All that a step can do to a row.
RowStep(j) ==
    \/ /\ status'[j] = status[j]
       /\ nextRun'[j] = nextRun[j] /\ failures'[j] = failures[j]
    \/ /\ nextRun'[j] = nextRun[j] /\ failures'[j] = failures[j]
       /\ \/ status[j] = "none" /\ status'[j] = "active"
          \/ status[j] # "none" /\ status'[j] = "cancelled"
    \/ \E t \in Ticks : SuccessOf(t, j) \/ FailureOf(t, j)

LEMMA RowSteps ==
    ASSUME TypeOK, ShapeInv, DateInv, [Next]_vars, NEW j \in Jobs
    PROVE  RowStep(j)
<1> USE DEF TypeOK, Goto, RowStep
<1>a. ASSUME NEW t \in Ticks, pc[t] = "recordSuccess", RecordedSuccess(t),
             RecordSuccess(t) \/ (RecordSuccessThrows(t) /\ Disturb)
      PROVE  RowStep(j)
  <2>1. job[t] # None
    BY <1>a DEF ShapeInv, Placed, AtRow
  <2>2. job[t] \in Snapshot /\ job[t].id \in Jobs
    BY <2>1, NextDate
  <2>3. CASE job[t].id = j
    BY <1>a, <2>2, <2>3, SuccessRecorded DEF SuccessOf
  <2>4. CASE job[t].id # j
    BY <1>a, <2>2, <2>4, SuccessRecorded
  <2>5. QED
    BY <2>3, <2>4
<1>b. ASSUME NEW t \in Ticks, pc[t] = "recordFailure", RecordedFailure(t),
             RecordFailure(t) \/ (RecordFailureThrows(t) /\ Disturb)
      PROVE  RowStep(j)
  <2>1. job[t] # None
    BY <1>b DEF ShapeInv, Placed, AtRow
  <2>2. job[t] \in Snapshot /\ job[t].id \in Jobs
    BY <2>1, NextDate
  <2>3. CASE job[t].id = j
    BY <1>b, <2>2, <2>3, FailureRecorded DEF FailureOf
  <2>4. CASE job[t].id # j
    BY <1>b, <2>2, <2>4, FailureRecorded
  <2>5. QED
    BY <2>3, <2>4
<1>1. ASSUME NEW i \in Jobs, Create(i) PROVE RowStep(j)
  BY <1>1 DEF Create
<1>2. ASSUME NEW i \in Jobs, Cancel(i) PROVE RowStep(j)
  BY <1>2 DEF Cancel
<1>3. ASSUME NEW t \in Ticks, RecordSuccess(t) \/ RecordSuccessThrows(t)
      PROVE  RowStep(j)
  BY <1>3, <1>a DEF RecordSuccess, RecordSuccessThrows, Continue,
                    StatementThrows, rowVars
<1>4. ASSUME NEW t \in Ticks, RecordFailure(t) \/ RecordFailureThrows(t)
      PROVE  RowStep(j)
  BY <1>4, <1>b DEF RecordFailure, RecordFailureThrows, Continue,
                    StatementThrows, rowVars
<1>5. ASSUME UNCHANGED rowVars PROVE RowStep(j)
  BY <1>5 DEF rowVars
<1>6. QED
  BY <1>1, <1>2, <1>3, <1>4, <1>5
     DEF Next, Run, Pass, Tick, FindDue, FindDueFails, Take, Execute,
         ExecuteFails, ExecuteThrowsLate, Crash, vars

-----------------------------------------------------------------------------
(* The dates.                                                              *)

LEMMA InitDates == Init => DateInv
<1> SUFFICES ASSUME Init PROVE DateInv
  OBVIOUS
<1>1. ASSUME NEW j \in Jobs
      PROVE  Reached(j, nextRun[j]) /\ status[j] # "completed"
  BY Bounds DEF Init, Reached, PaidBefore
<1>2. ASSUME NEW t \in Ticks PROVE Held(t) = {} /\ pc[t] = "idle"
  BY DEF Init, Held
<1>3. QED
  BY <1>1, <1>2 DEF DateInv

\* What has been paid stays paid.
LEMMA MovedGrows ==
    ASSUME TypeOK, ShapeInv, DateInv, [Next]_vars,
           NEW j \in Jobs, NEW d \in Dates
    PROVE  moved'[j][d] >= moved[j][d]
<1> USE DEF TypeOK, Goto
<1>1. ASSUME NEW t \in Ticks, pc[t] = "execute", Move(t)
      PROVE  moved'[j][d] >= moved[j][d]
  <2>1. job[t] # None
    BY <1>1 DEF ShapeInv, Placed, AtRow
  <2>2. job[t].id \in Jobs /\ job[t].nextRun \in Dates
    BY <2>1, NextDate
  <2>3. QED
    BY <1>1, <2>2 DEF Move
<1>2. QED
  BY <1>1 DEF Next, Run, Create, Cancel, Pass, Tick, FindDue, FindDueFails,
              Take, Execute, ExecuteFails, ExecuteThrowsLate, RecordSuccess,
              RecordFailure, RecordSuccessThrows, RecordFailureThrows, Crash,
              vars

LEMMA ReachedStays ==
    ASSUME TypeOK, ShapeInv, DateInv, [Next]_vars, NEW j \in Jobs,
           NEW date \in Dates, Reached(j, date)
    PROVE  Reached(j, date)'
<1>1. ASSUME NEW d \in FirstRun[j] .. date - 1 PROVE moved'[j][d] > 0
  <2>1. d \in Dates
    BY Bounds DEF Dates
  <2>2. moved[j][d] > 0
    BY DEF Reached, PaidBefore
  <2>3. moved[j][d] \in Nat /\ moved'[j][d] \in Nat
    BY <2>1, NextTypes DEF TypeOK
  <2>4. QED
    BY <2>1, <2>2, <2>3, MovedGrows
<1>2. QED
  BY <1>1 DEF Reached, PaidBefore

LEMMA NextDates ==
    ASSUME TypeOK, ShapeInv, DateInv, [Next]_vars
    PROVE  DateInv'
<1>a. TypeOK'
  BY NextTypes
<1>b. ASSUME NEW j \in Jobs, NEW d \in Dates, moved[j][d] > 0
      PROVE  moved'[j][d] > 0
  BY <1>a, <1>b, MovedGrows DEF TypeOK
\* The date after one that has just been paid.
<1>c. ASSUME NEW t \in Ticks, pc[t] = "recordSuccess"
      PROVE  /\ job[t] # None
             /\ moved[job[t].id][job[t].nextRun] > 0
             /\ Reached(job[t].id, job[t].nextRun)
  <2>1. job[t] # None
    BY <1>c DEF ShapeInv, Placed, AtRow
  <2>2. QED
    BY <1>c, <2>1, NextDate DEF DateInv
<1>1. ASSUME NEW j \in Jobs PROVE Reached(j, nextRun[j])'
  <2>1. CASE nextRun'[j] = nextRun[j]
    BY <2>1, ReachedStays DEF DateInv, TypeOK
  <2>2. CASE \E t \in Ticks : SuccessOf(t, j) /\ j \notin Once
    <3>1. PICK t \in Ticks : SuccessOf(t, j) /\ j \notin Once
      BY <2>2
    <3>2. PICK d \in Dates :
            /\ d = job[t].nextRun
            /\ d + 1 \in Dates /\ FirstRun[j] <= d
            /\ moved[j][d] > 0 /\ Reached(j, d) /\ nextRun'[j] = d + 1
      BY <3>1, <1>c, NextDate DEF SuccessOf, Reached
    <3>3. Reached(j, d)' /\ moved'[j][d] > 0
      BY <3>2, <1>b, ReachedStays
    <3>4. Reached(j, d + 1)'
      <4>1. d \in Int /\ FirstRun[j] \in Int
        BY <3>2, Bounds DEF Dates
      <4>2. ASSUME NEW e \in FirstRun[j] .. (d + 1) - 1 PROVE moved'[j][e] > 0
        <5>1. e = d \/ e \in FirstRun[j] .. d - 1
          BY <4>1
        <5>2. QED
          BY <5>1, <3>3 DEF Reached, PaidBefore
      <4>3. FirstRun[j] <= d + 1
        BY <4>1, <3>2
      <4>4. QED
        BY <4>2, <4>3, <3>1 DEF Reached, PaidBefore
    <3>5. QED
      BY <3>2, <3>4 DEF Reached, PaidBefore
  <2>3. QED
    BY <2>1, <2>2, RowSteps DEF RowStep, SuccessOf, FailureOf
<1>2. ASSUME NEW j \in Jobs, status'[j] = "completed"
      PROVE  moved'[j][FirstRun[j]] > 0
  <2>1. moved[j][FirstRun[j]] > 0
    <3>1. CASE status[j] = "completed"
      BY <3>1 DEF DateInv
    <3>2. CASE \E t \in Ticks : SuccessOf(t, j) /\ j \in Once
      <4>1. PICK t \in Ticks : SuccessOf(t, j) /\ j \in Once
        BY <3>2
      <4>2. QED
        BY <4>1, <1>c DEF SuccessOf, Reached
    <3>3. QED
      BY <1>2, <3>1, <3>2, RowSteps DEF RowStep, SuccessOf, FailureOf
  <2>2. FirstRun[j] \in Dates
    BY Bounds DEF Dates
  <2>3. QED
    BY <2>1, <2>2, <1>b
<1>3. ASSUME NEW t \in Ticks, NEW row \in Held(t)'
      PROVE  row.nextRun <= MaxNow /\ Reached(row.id, row.nextRun)'
  <2>1. row \in Snapshot
    BY <1>a, <1>3 DEF Held, TypeOK
  <2>2. row.nextRun <= MaxNow /\ Reached(row.id, row.nextRun)
    <3>1. CASE row \in Held(t)
      BY <3>1 DEF DateInv
    <3>2. CASE Current(row)
      <4>1. /\ row.id \in Jobs
            /\ row.nextRun <= now /\ row.nextRun = nextRun[row.id]
        BY <3>2, <2>1, SnapshotFields DEF Current, IsDue
      <4>2. row.nextRun <= MaxNow
        BY <4>1, <2>1, SnapshotFields, Bounds DEF TypeOK, Dates
      <4>3. QED
        BY <4>1, <4>2 DEF DateInv
    <3>3. QED
      BY <3>1, <3>2, HeldNext
  <2>3. QED
    BY <2>1, <2>2, SnapshotFields, ReachedStays DEF Reached, PaidBefore
<1>4. ASSUME NEW t \in Ticks, pc'[t] = "recordSuccess"
      PROVE  moved'[job'[t].id][job'[t].nextRun] > 0
  <2> USE DEF TypeOK, Goto
  <2>1. CASE Execute(t)
    <3>1. job[t] # None
      BY <2>1 DEF Execute, ShapeInv, Placed, AtRow
    <3>2. job[t].id \in Jobs /\ job[t].nextRun \in Dates
      BY <3>1, NextDate
    <3>3. QED
      BY <2>1, <3>2 DEF Execute, Move
  <2>2. CASE pc[t] = "recordSuccess" /\ job'[t] = job[t]
    <3>1. job[t].id \in Jobs /\ job[t].nextRun \in Dates
      BY <2>2, <1>c, NextDate
    <3>2. QED
      BY <2>2, <3>1, <1>b, <1>c
  <2>3. Execute(t) \/ (pc[t] = "recordSuccess" /\ job'[t] = job[t])
    BY <1>4 DEF Next, Run, Create, Cancel, Pass, Tick, FindDue, FindDueFails,
              Take, Execute, ExecuteFails, ExecuteThrowsLate, RecordSuccess,
              RecordFailure, RecordSuccessThrows, RecordFailureThrows, Crash,
              Continue, vars, tickVars
  <2>4. QED
    BY <2>1, <2>2, <2>3
<1>5. QED
  BY <1>1, <1>2, <1>3, <1>4 DEF DateInv

-----------------------------------------------------------------------------
(* The limit.                                                              *)

LEMMA InitLimit == Init => LimitInv /\ CauseInv
<1> SUFFICES ASSUME Init PROVE LimitInv /\ CauseInv
  OBVIOUS
<1>1. Alive = {} /\ \A t \in Ticks : Held(t) = {}
  BY DEF Init, Alive, Held
<1>2. \A j \in Jobs : Sparing(j) = {}
  BY <1>1 DEF Sparing
<1>3. IsFiniteSet({}) /\ Cardinality({}) = 0
  BY FS_EmptySet
<1>4. QED
  BY <1>1, <1>2, <1>3, Bounds DEF Init, LimitInv, CauseInv, PausedForCause

LEMMA SparingAlive ==
    ASSUME TypeOK, ShapeInv, NEW t \in Ticks, NEW row \in Held(t)
    PROVE  t \in Alive
BY DEF Held, ShapeInv, Placed, Alive, AtRow

\* A tick that was idle is one that the timer has just started.
LEMMA AliveNext ==
    ASSUME TypeOK, [Next]_vars
    PROVE  /\ disturbances' \in Nat /\ disturbances' >= disturbances
           /\ \/ Alive' \subseteq Alive
              \/ \E t \in Ticks :
                   /\ Alive' = Alive \cup {t}
                   /\ Alive = {} \/ disturbances' = disturbances + 1
<1> USE DEF TypeOK, Goto, Alive
<1>1. disturbances' = disturbances \/ disturbances' = disturbances + 1
  BY DEF Next, Run, Create, Cancel, Pass, Tick, FindDue, FindDueFails, Take,
         Execute, ExecuteFails, ExecuteThrowsLate, RecordSuccess,
         RecordFailure, RecordSuccessThrows, RecordFailureThrows,
         StatementThrows, Crash, Disturb, vars
<1>2. ASSUME NEW t \in Ticks, Tick(t)
      PROVE  /\ Alive' = Alive \cup {t}
             /\ Alive = {} \/ disturbances' = disturbances + 1
  BY <1>2 DEF Tick, Disturb
<1>3. CASE \E t \in Ticks : Tick(t)
  BY <1>2, <1>3, <1>1
<1>4. ASSUME ~ \E t \in Ticks : Tick(t) PROVE Alive' \subseteq Alive
  BY <1>4 DEF Next, Run, Create, Cancel, Pass, FindDue, FindDueFails, Take,
         Execute, ExecuteFails, ExecuteThrowsLate, RecordSuccess,
         RecordFailure, RecordSuccessThrows, RecordFailureThrows, Continue,
         Crash, vars, tickVars
<1>5. QED
  BY <1>1, <1>3, <1>4

LEMMA NextAlive ==
    ASSUME TypeOK, LimitInv, [Next]_vars
    PROVE  IsFiniteSet(Alive') /\ Cardinality(Alive') <= 1 + disturbances'
<1>1. /\ IsFiniteSet(Alive) /\ Cardinality(Alive) \in Nat
      /\ Cardinality(Alive) <= 1 + disturbances /\ disturbances \in Nat
  BY FS_CardinalityType DEF LimitInv, TypeOK
<1>2. CASE Alive' \subseteq Alive
  <2>1. IsFiniteSet(Alive') /\ Cardinality(Alive') <= Cardinality(Alive)
    BY <1>1, <1>2, FS_Subset
  <2>2. Cardinality(Alive') \in Nat
    BY <2>1, FS_CardinalityType
  <2>3. QED
    BY <1>1, <2>1, <2>2, AliveNext
<1>3. ASSUME NEW t \in Ticks, Alive' = Alive \cup {t},
             Alive = {} \/ disturbances' = disturbances + 1
      PROVE  IsFiniteSet(Alive') /\ Cardinality(Alive') <= 1 + disturbances'
  <2>1. /\ IsFiniteSet(Alive')
        /\ Cardinality(Alive') = IF t \in Alive THEN Cardinality(Alive)
                                                ELSE Cardinality(Alive) + 1
    BY <1>1, <1>3, FS_AddElement
  <2>2. Alive = {} => Cardinality(Alive) = 0
    BY FS_EmptySet
  <2>3. QED
    BY <1>1, <1>3, <2>1, <2>2, AliveNext
<1>4. QED
  BY <1>2, <1>3, AliveNext

\* A tick that has recorded a run has no other snapshot of that job.
LEMMA NoneLeft ==
    ASSUME TypeOK, ShapeInv, NEW t \in Ticks,
           RecordSuccess(t) \/ RecordFailure(t) \/ RecordFailureThrows(t),
           NEW row \in Held(t)'
    PROVE  row.id # job[t].id
<1>1. job[t] # None /\ job[t] \in Held(t) /\ job[t] \notin due[t]
  BY HeldTypes
     DEF RecordSuccess, RecordFailure, RecordFailureThrows, Continue, Goto,
         ShapeInv, Placed, AtRow
<1>2. row \in due[t]
  BY DEF RecordSuccess, RecordFailure, RecordFailureThrows, Continue, Held,
         TypeOK
<1>3. QED
  BY <1>1, <1>2 DEF ShapeInv, Held

LEMMA NextLimit ==
    ASSUME TypeOK, ShapeInv, DateInv, LimitInv, [Next]_vars
    PROVE  LimitInv'
<1>a. TypeOK' /\ ShapeInv'
  BY NextTypes, NextShape
<1>b. IsFiniteSet(Alive') /\ Cardinality(Alive') <= 1 + disturbances'
  BY NextAlive
<1>1. ASSUME NEW j \in Jobs, status'[j] \in {"none", "active"}
      PROVE  failures'[j] + Cardinality(Sparing(j)')
               < MaxFailures + disturbances'
  <2>1. /\ Sparing(j)' \subseteq Alive'
        /\ Sparing(j) \subseteq Alive
    <3>1. \A t \in Ticks : \A row \in Held(t)' : t \in Alive'
      BY <1>a DEF Held, ShapeInv, Placed, Alive, AtRow
    <3>2. QED
      BY <3>1, SparingAlive DEF Sparing
  <2>2. /\ IsFiniteSet(Sparing(j)) /\ Cardinality(Sparing(j)) \in Nat
        /\ IsFiniteSet(Sparing(j)') /\ Cardinality(Sparing(j)') \in Nat
        /\ Cardinality(Sparing(j)') <= 1 + disturbances'
    <3>1. /\ IsFiniteSet(Sparing(j)) /\ IsFiniteSet(Sparing(j)')
          /\ Cardinality(Sparing(j)') <= Cardinality(Alive')
      BY <1>b, <2>1, FS_Subset DEF LimitInv
    <3>2. /\ Cardinality(Alive') \in Nat
          /\ Cardinality(Sparing(j)) \in Nat
          /\ Cardinality(Sparing(j)') \in Nat
      BY <1>b, <3>1, FS_CardinalityType
    <3>3. QED
      BY <1>b, <3>1, <3>2, <1>a DEF TypeOK
  <2>3. /\ failures[j] \in Nat /\ failures'[j] \in Nat
        /\ disturbances \in Nat /\ disturbances' \in Nat
        /\ disturbances' >= disturbances
    BY <1>a, AliveNext DEF TypeOK
  <2>4. status[j] \in {"none", "active"}
    BY <1>1, RowSteps DEF RowStep, SuccessOf, FailureOf
  <2>5. failures[j] + Cardinality(Sparing(j)) < MaxFailures + disturbances
    BY <2>4 DEF LimitInv
  <2>6. CASE \E t \in Ticks : FindDue(t) /\ t \in Sparing(j)'
    <3>1. PICK t \in Ticks : FindDue(t) /\ t \in Sparing(j)'
      BY <2>6
    <3>2. PICK row \in Held(t)' : row.id = j /\ ~WillHitLimit(row)
      BY <3>1 DEF Sparing, WillHitLimit
    <3>3. Held(t)' = due'[t]
      BY <3>1 DEF FindDue, Held, ShapeInv, Placed, Goto, AtRow, TypeOK
    <3>4. Current(row)
      BY <3>1, <3>2, <3>3, FoundDue
    <3>5. row.failures = failures[j] /\ failures'[j] = failures[j]
      BY <3>1, <3>2, <3>4 DEF Current, FindDue, rowVars
    <3>6. QED
      BY <2>2, <2>3, <3>2, <3>5, Bounds DEF WillHitLimit
  <2>7. CASE ~ \E t \in Ticks : FindDue(t) /\ t \in Sparing(j)'
    <3>1. Sparing(j)' \subseteq Sparing(j)
      <4> SUFFICES ASSUME NEW t \in Sparing(j)' PROVE t \in Sparing(j)
        OBVIOUS
      <4>1. t \in Ticks /\ ~FindDue(t)
        BY <2>7 DEF Sparing
      <4>2. PICK row \in Held(t)' : row.id = j /\ ~WillHitLimit(row)
        BY DEF Sparing, WillHitLimit
      <4>3. row \in Held(t)
        BY <4>1, <4>2, HeldNext
      <4>4. QED
        BY <4>1, <4>2, <4>3 DEF Sparing
    <3>2. Cardinality(Sparing(j)') <= Cardinality(Sparing(j))
      BY <3>1, <2>2, FS_Subset
    <3>3. CASE failures'[j] <= failures[j]
      BY <3>2, <3>3, <2>2, <2>3, <2>5, Bounds
    <3>4. CASE \E t \in Ticks : FailureOf(t, j) /\ ~WillHitLimit(job[t])
      <4>1. PICK t \in Ticks : FailureOf(t, j) /\ ~WillHitLimit(job[t])
        BY <3>4
      <4>2. t \in Sparing(j)
        <5>1. job[t] # None
          BY <4>1 DEF FailureOf, ShapeInv, Placed, AtRow
        <5>2. QED
          BY <4>1, <5>1, HeldTypes DEF Sparing, FailureOf
      <4>3. t \notin Sparing(j)'
        BY <4>1, NoneLeft DEF Sparing, FailureOf
      <4>4. Sparing(j)' \subseteq Sparing(j) \ {t}
        BY <3>1, <4>3
      <4>5. /\ IsFiniteSet(Sparing(j) \ {t})
            /\ Cardinality(Sparing(j) \ {t}) = Cardinality(Sparing(j)) - 1
        BY <2>2, <4>2, FS_RemoveElement
      <4>6. Cardinality(Sparing(j)') <= Cardinality(Sparing(j)) - 1
        BY <4>4, <4>5, FS_Subset
      <4>7. failures'[j] = failures[j] + 1
        BY <4>1 DEF FailureOf
      <4>8. QED
        BY <4>6, <4>7, <2>2, <2>3, <2>5, Bounds
    <3>5. failures'[j] <= failures[j]
            \/ \E t \in Ticks : FailureOf(t, j) /\ ~WillHitLimit(job[t])
      BY <1>1, <2>3, RowSteps DEF RowStep, SuccessOf, FailureOf
    <3>6. QED
      BY <3>3, <3>4, <3>5
  <2>8. QED
    BY <2>6, <2>7
<1>2. QED
  BY <1>1, <1>b DEF LimitInv

LEMMA NextCause ==
    ASSUME TypeOK, ShapeInv, DateInv, CauseInv, [Next]_vars
    PROVE  CauseInv'
<1> SUFFICES ASSUME disturbances' = 0
             PROVE  /\ \A t, u \in Alive' : t = u
                    /\ \A t \in Ticks : \A row \in Held(t)' :
                         /\ row.failures = failures'[row.id]
                         /\ status'[row.id] # "paused"
                    /\ PausedForCause'
  BY DEF CauseInv
<1>a. disturbances = 0 /\ ~Disturb
  BY AliveNext DEF TypeOK, Disturb
<1>b. /\ \A t, u \in Alive : t = u
      /\ \A t \in Ticks : \A row \in Held(t) :
           row.failures = failures[row.id] /\ status[row.id] # "paused"
      /\ PausedForCause
  BY <1>a DEF CauseInv
<1>1. \A t, u \in Alive' : t = u
  BY <1>a, <1>b, AliveNext
<1>2. ASSUME NEW t \in Ticks, NEW row \in Held(t)'
      PROVE  row.failures = failures'[row.id] /\ status'[row.id] # "paused"
  <2>1. row \in Snapshot /\ row.id \in Jobs
    BY <1>2, NextTypes, SnapshotFields DEF Held, TypeOK
  <2>2. CASE FindDue(t) /\ Current(row)
    BY <2>2 DEF FindDue, Current, IsDue, rowVars
  <2>3. CASE row \in Held(t)
    <3>1. ASSUME NEW u \in Ticks, SuccessOf(u, row.id) \/ FailureOf(u, row.id)
          PROVE  FALSE
      <4>1. u = t
        BY <3>1, <2>3, <1>b, SparingAlive DEF SuccessOf, FailureOf, Alive
      <4>2. RecordSuccess(t) \/ RecordFailure(t)
        BY <3>1, <4>1, <1>a DEF SuccessOf, FailureOf
      <4>3. QED
        BY <3>1, <4>1, <4>2, <1>2, NoneLeft DEF SuccessOf, FailureOf
    <3>2. QED
      BY <2>1, <2>3, <3>1, <1>b, RowSteps DEF RowStep
  <2>4. QED
    BY <2>2, <2>3, <1>2, HeldNext
<1>3. ASSUME NEW j \in Jobs, status'[j] = "paused"
      PROVE  failures'[j] >= MaxFailures
  <2>1. ASSUME NEW t \in Ticks, SuccessOf(t, j) \/ FailureOf(t, j)
        PROVE  /\ job[t] \in Snapshot
               /\ job[t].failures = failures[j] /\ status[j] # "paused"
    <3>1. job[t] # None
      BY <2>1 DEF SuccessOf, FailureOf, ShapeInv, Placed, AtRow
    <3>2. QED
      BY <2>1, <3>1, <1>b, NextDate DEF SuccessOf, FailureOf
  <2>2. CASE status[j] = "paused" /\ failures'[j] = failures[j]
    BY <2>2, <1>a, <1>b DEF PausedForCause
  <2>3. CASE \E t \in Ticks : FailureOf(t, j) /\ WillHitLimit(job[t])
    BY <2>1, <2>3 DEF FailureOf, WillHitLimit
  <2>4. QED
    BY <1>3, <2>1, <2>2, <2>3, RowSteps DEF RowStep, SuccessOf, FailureOf
<1>4. QED
  BY <1>1, <1>2, <1>3 DEF PausedForCause

-----------------------------------------------------------------------------
(* The payments made again.                                                *)
(*                                                                         *)
(* A job is charged for every repeat, for every date that is to be paid    *)
(* again, and for every tick that may still pay; each disturbance is worth *)
(* one, and so is each payment of the job whose recording is rejected.     *)
(* Only the tick that starts while no other is alive is free.  It has its  *)
(* price back when it pays a date that counts no more afterwards, or when  *)
(* it is found not to pay.                                                 *)

\* The snapshots whose date may still be paid, or recorded as paid.
Live(t) ==
    due[t] \cup {row \in {job[t]} : pc[t] \in {"execute", "recordSuccess"}}

\* The ticks that may still pay job j.
Paying(j) ==
    {t \in Ticks : \/ pc[t] = "find"
                   \/ pc[t] = "execute" /\ job[t].id = j
                   \/ \E row \in due[t] : row.id = j}

Open(j) == status[j] \in {"none", "active"}

\* Paid, and due again now or once a live snapshot is recorded.
Ahead(j, d) ==
    \/ nextRun[j] <= d
    \/ \E t \in Ticks : \E row \in Live(t) : row.id = j /\ row.nextRun < d

Again(j) == {d \in Dates : moved[j][d] > 0 /\ Open(j) /\ Ahead(j, d)}

Charge(j) == Repeats(j) + Cardinality(Again(j)) + Cardinality(Paying(j))

\* The free tick has not got its price back.
Lent(j) ==
    /\ \A t \in Ticks : \A row \in Live(t) : row.id = j =>
          IF Open(j) THEN row.nextRun = nextRun[j]
                     ELSE moved[j][row.nextRun] = 0
    /\ \/ Paying(j) # {}
       \/ Open(j) /\ \E t \in Ticks : pc[t] = "recordSuccess" /\ job[t].id = j

Budget(j) == disturbances + unrecorded[j]

Covered(j) ==
    /\ Charge(j) <= Budget(j) + 1
    /\ ~Lent(j) => Charge(j) <= Budget(j)

RepeatInv == \A j \in Jobs : Covered(j)

\* The repeats of dates paid as often as m says.
Surplus(m) == [d \in Dates |-> IF m[d] > 1 THEN m[d] - 1 ELSE 0]

LEMMA RepeatsIs == \A j : Repeats(j) = SumFunction(Surplus(moved[j]))
BY DEF Repeats, Surplus

LEMMA FiniteDates == IsFiniteSet(Dates)
<1>1. 1 \in Int /\ MaxNow + 1 \in Int
  BY Bounds
<1>2. QED
  BY <1>1, FS_Interval DEF Dates

LEMMA SmallerSet ==
    ASSUME NEW S, IsFiniteSet(S), NEW T, T \subseteq S
    PROVE  /\ IsFiniteSet(T) /\ Cardinality(T) \in Nat /\ Cardinality(S) \in Nat
           /\ Cardinality(T) <= Cardinality(S)
           /\ T # S => Cardinality(T) < Cardinality(S)
<1>1. IsFiniteSet(T) /\ Cardinality(T) <= Cardinality(S)
      /\ (Cardinality(S) = Cardinality(T) => S = T)
  BY FS_Subset
<1>2. Cardinality(T) \in Nat /\ Cardinality(S) \in Nat
  BY <1>1, FS_CardinalityType
<1>3. QED
  BY <1>1, <1>2

LEMMA PayingAlive ==
    ASSUME TypeOK, ShapeInv, NEW j \in Jobs
    PROVE  Paying(j) \subseteq Alive
BY DEF Paying, ShapeInv, Placed, Alive

\* What is charged is a number.
LEMMA ChargeType ==
    ASSUME IInv, NEW j \in Jobs
    PROVE  /\ Repeats(j) \in Int
           /\ IsFiniteSet(Again(j)) /\ Cardinality(Again(j)) \in Nat
           /\ IsFiniteSet(Paying(j)) /\ Cardinality(Paying(j)) \in Nat
           /\ Charge(j) \in Int /\ disturbances \in Nat
           /\ unrecorded[j] \in Nat /\ Budget(j) \in Nat
<1>1. Surplus(moved[j]) \in [Dates -> Int]
  BY DEF Surplus, IInv, TypeOK
<1>2. Repeats(j) \in Int
  BY <1>1, FiniteDates, RepeatsIs, SumType
<1>3. Again(j) \subseteq Dates
  BY DEF Again
<1>4. Paying(j) \subseteq Alive /\ IsFiniteSet(Alive) /\ disturbances \in Nat
  BY PayingAlive DEF IInv, LimitInv, TypeOK
<1>5. /\ IsFiniteSet(Again(j)) /\ Cardinality(Again(j)) \in Nat
      /\ IsFiniteSet(Paying(j)) /\ Cardinality(Paying(j)) \in Nat
  BY <1>3, <1>4, FiniteDates, SmallerSet
<1>6. unrecorded[j] \in Nat
  BY DEF IInv, TypeOK
<1>7. QED
  BY <1>2, <1>4, <1>5, <1>6 DEF Charge, Budget

ChargesAreNumbers == \A j \in Jobs : Charge(j) \in Int /\ Budget(j) \in Nat

LEMMA ChargeIsNumber == IInv => ChargesAreNumbers
BY ChargeType DEF ChargesAreNumbers

LEMMA InitRepeat == Init => RepeatInv
<1> SUFFICES ASSUME Init, NEW j \in Jobs PROVE Covered(j)
  BY DEF RepeatInv
<1>1. Repeats(j) = 0
  <2>1. moved[j] = [d \in Dates |-> 0]
    BY DEF Init
  <2>2. Surplus(moved[j]) \in [Dates -> Int]
        /\ \A d \in Dates : Surplus(moved[j])[d] = 0
    BY <2>1 DEF Surplus
  <2>3. QED
    BY <2>2, FiniteDates, RepeatsIs, SumZero
<1>2. Again(j) = {} /\ Paying(j) = {}
  BY DEF Init, Again, Paying
<1>3. Budget(j) = 0 /\ Cardinality({}) = 0
  BY FS_EmptySet DEF Init, Budget
<1>4. QED
  BY <1>1, <1>2, <1>3 DEF Covered, Charge

-----------------------------------------------------------------------------
(* What the steps do to the charge.                                        *)

LEMMA NextInv == IInv /\ [Next]_vars => IInv'
BY NextTypes, NextShape, NextDates, NextLimit, NextCause DEF IInv

LEMMA ChargeNext ==
    ASSUME IInv, [Next]_vars, NEW j \in Jobs
    PROVE  Charge(j)' \in Int /\ disturbances' \in Nat /\ Budget(j)' \in Nat
<1>1. IInv'
  BY NextInv
<1>2. ChargesAreNumbers'
  BY <1>1, ChargeIsNumber, PTL
<1>3. QED
  BY <1>1, <1>2 DEF ChargesAreNumbers, IInv, TypeOK

\* The budget grows by disturbances and by the rejected recordings of the job.
LEMMA BudgetNext ==
    ASSUME IInv, [Next]_vars, NEW j \in Jobs
    PROVE  /\ Budget(j)' >= Budget(j) + (disturbances' - disturbances)
           /\ disturbances' >= disturbances
           /\ Budget(j)' = Budget(j)
                => disturbances' = disturbances /\ unrecorded'[j] = unrecorded[j]
<1>1. TypeOK /\ ShapeInv /\ DateInv /\ disturbances \in Nat /\ unrecorded[j] \in Nat
  BY DEF IInv, TypeOK
<1>2. disturbances' \in Nat /\ disturbances' >= disturbances
  BY <1>1, AliveNext
<1>3. unrecorded'[j] = unrecorded[j] \/ unrecorded'[j] = unrecorded[j] + 1
  <2>1. unrecorded \in [Jobs -> Nat]
    BY <1>1 DEF TypeOK
  <2>2. QED
    BY <2>1 DEF Next, Run, Create, Cancel, Pass, Tick, FindDue, FindDueFails, Take,
       Execute, ExecuteFails, ExecuteThrowsLate, RecordSuccess, RecordFailure,
       RecordSuccessThrows, RecordFailureThrows, Crash, vars
<1>4. QED
  BY <1>1, <1>2, <1>3 DEF Budget

LEMMA LiveHeld ==
    ASSUME TypeOK, ShapeInv, NEW t \in Ticks
    PROVE  /\ Live(t) \subseteq Held(t)
           /\ pc[t] \in {"execute", "recordSuccess"} =>
                job[t] \in Live(t) /\ job[t] # None
BY DEF Live, Held, ShapeInv, Placed, AtRow

\* A live snapshot was live before, or has just been read.
LEMMA LiveNext ==
    ASSUME TypeOK, ShapeInv, [Next]_vars, NEW t \in Ticks, NEW row \in Live(t)'
    PROVE  row \in Live(t) \/ (FindDue(t) /\ Current(row))
<1> USE DEF TypeOK, Goto, Live
<1>1. ASSUME NEW u \in Ticks, FindDue(u)
      PROVE  row \in Live(t) \/ (FindDue(t) /\ Current(row))
  <2>1. pc'[u] \in {"idle", "take"} /\ \A v \in Ticks : v # u => pc'[v] = pc[v]
    BY <1>1 DEF FindDue
  <2>2. job' = job /\ due' = [due EXCEPT ![u] = due'[u]]
        /\ \A r \in due'[u] : Current(r)
    BY <1>1, FoundDue DEF FindDue
  <2>3. QED
    BY <1>1, <2>1, <2>2
<1>2. ASSUME NEW u \in Ticks, Take(u) PROVE row \in Live(t)
  BY <1>2 DEF Take
<1>3. ASSUME NEW u \in Ticks, RecordSuccess(u) \/ RecordFailure(u)
      PROVE  row \in Live(t)
  BY <1>3 DEF RecordSuccess, RecordFailure, Continue
<1>4. ASSUME NEW u \in Ticks, RecordFailureThrows(u) PROVE row \in Live(t)
  BY <1>4 DEF RecordFailureThrows
<1>5. ASSUME Crash PROVE row \in Live(t)
  BY <1>5 DEF Crash
<1>6. ASSUME NEW u \in Ticks,
             \/ Tick(u) \/ FindDueFails(u) \/ Execute(u) \/ ExecuteFails(u)
             \/ ExecuteThrowsLate(u) \/ RecordSuccessThrows(u)
      PROVE  row \in Live(t)
  BY <1>6 DEF Tick, FindDueFails, Execute, ExecuteFails, ExecuteThrowsLate,
              RecordSuccessThrows
<1>7. ASSUME UNCHANGED tickVars PROVE row \in Live(t)
  BY <1>7 DEF tickVars
<1>8. QED
  BY <1>1, <1>2, <1>3, <1>4, <1>5, <1>6, <1>7
     DEF Next, Run, Create, Cancel, Pass, vars

\* Only the timer makes a tick that may pay.
LEMMA PayingNext ==
    ASSUME TypeOK, ShapeInv, [Next]_vars, NEW j \in Jobs, NEW t \in Paying(j)'
    PROVE  t \in Paying(j) \/ Tick(t)
<1> USE DEF TypeOK, Goto, Paying
<1>1. ASSUME NEW u \in Ticks, Tick(u) PROVE t \in Paying(j) \/ Tick(t)
  BY <1>1 DEF Tick
<1>2. ASSUME NEW u \in Ticks, FindDue(u) PROVE t \in Paying(j)
  <2>1. pc[u] = "find" /\ pc'[u] \in {"idle", "take"}
        /\ \A v \in Ticks : v # u => pc'[v] = pc[v] /\ due'[v] = due[v]
        /\ job' = job
    BY <1>2 DEF FindDue
  <2>2. QED
    BY <2>1
<1>3. ASSUME NEW u \in Ticks, Take(u) PROVE t \in Paying(j)
  BY <1>3 DEF Take
<1>4. ASSUME NEW u \in Ticks, RecordSuccess(u) \/ RecordFailure(u)
      PROVE  t \in Paying(j)
  BY <1>4 DEF RecordSuccess, RecordFailure, Continue
<1>5. ASSUME NEW u \in Ticks,
             \/ FindDueFails(u) \/ Execute(u) \/ ExecuteFails(u)
             \/ ExecuteThrowsLate(u) \/ RecordSuccessThrows(u)
             \/ RecordFailureThrows(u)
      PROVE  t \in Paying(j)
  BY <1>5 DEF FindDueFails, Execute, ExecuteFails, ExecuteThrowsLate,
              RecordSuccessThrows, RecordFailureThrows
<1>6. ASSUME Crash PROVE t \in Paying(j)
  BY <1>6 DEF Crash
<1>7. ASSUME UNCHANGED tickVars PROVE t \in Paying(j)
  BY <1>7 DEF tickVars
<1>8. QED
  BY <1>1, <1>2, <1>3, <1>4, <1>5, <1>6, <1>7
     DEF Next, Run, Create, Cancel, Pass, vars

\* A job that is over stays so.
LEMMA OpenBefore ==
    ASSUME IInv, [Next]_vars, NEW j \in Jobs, Open(j)'
    PROVE  Open(j)
BY RowSteps DEF IInv, RowStep, SuccessOf, FailureOf, Open

\* No date that is paid already is due again that was not before.
LEMMA AgainNext ==
    ASSUME IInv, [Next]_vars, NEW j \in Jobs, NEW d \in Again(j)', moved[j][d] > 0
    PROVE  d \in Again(j)
<1>a. TypeOK /\ ShapeInv /\ DateInv
  BY DEF IInv
<1>1. d \in Dates /\ Open(j) /\ Ahead(j, d)'
  BY OpenBefore DEF Again
<1>2. ASSUME nextRun'[j] <= d PROVE Ahead(j, d)
  <2>1. CASE nextRun'[j] = nextRun[j]
    BY <1>2, <2>1 DEF Ahead
  <2>2. CASE \E t \in Ticks : SuccessOf(t, j) /\ j \notin Once
    <3>1. PICK t \in Ticks : SuccessOf(t, j) /\ j \notin Once
      BY <2>2
    <3>2. job[t] \in Live(t) /\ job[t] # None /\ job[t].id = j
          /\ nextRun'[j] = job[t].nextRun + 1
      BY <1>a, <3>1, LiveHeld DEF SuccessOf
    <3>3. job[t].nextRun \in Int /\ d \in Int
      BY <1>a, <1>1, <3>2, NextDate DEF Dates
    <3>4. job[t].nextRun < d
      BY <1>2, <3>2, <3>3
    <3>5. QED
      BY <3>2, <3>4 DEF Ahead
  <2>3. QED
    BY <1>a, <2>1, <2>2, RowSteps DEF RowStep, SuccessOf, FailureOf
<1>3. ASSUME NEW t \in Ticks, NEW row \in Live(t)', row.id = j, row.nextRun < d
      PROVE  Ahead(j, d)
  <2>1. CASE row \in Live(t)
    BY <1>3, <2>1 DEF Ahead
  <2>2. CASE Current(row)
    <3>1. nextRun[j] < d /\ nextRun[j] \in Int /\ d \in Int
      BY <1>a, <1>1, <1>3, <2>2 DEF Current, TypeOK, Dates
    <3>2. QED
      BY <3>1 DEF Ahead
  <2>3. QED
    BY <1>a, <1>3, <2>1, <2>2, LiveNext
<1>4. QED
  BY <1>1, <1>2, <1>3 DEF Again, Ahead

\* The payments of job j a step makes.
Pays(t, j) == Execute(t) /\ job[t].id = j
PaysLate(t, j) == ExecuteThrowsLate(t) /\ job[t].id = j

LEMMA MovedSame ==
    ASSUME TypeOK, ShapeInv, DateInv, [Next]_vars, NEW j \in Jobs,
           ~ \E t \in Ticks : Pays(t, j) \/ PaysLate(t, j)
    PROVE  moved'[j] = moved[j]
<1> USE DEF TypeOK, Goto
<1>1. ASSUME NEW t \in Ticks, pc[t] = "execute", Move(t), job[t].id # j
      PROVE  moved'[j] = moved[j]
  BY <1>1 DEF Move
<1>2. QED
  BY <1>1 DEF Next, Run, Create, Cancel, Pass, Tick, FindDue, FindDueFails,
              Take, Execute, ExecuteFails, ExecuteThrowsLate, RecordSuccess,
              RecordFailure, RecordSuccessThrows, RecordFailureThrows, Crash,
              vars, Pays, PaysLate

\* A step that pays nothing for the job.
LEMMA ChargeOfOthers ==
    ASSUME IInv, [Next]_vars, NEW j \in Jobs,
           ~ \E t \in Ticks : Tick(t), moved'[j] = moved[j]
    PROVE  /\ Repeats(j)' = Repeats(j)
           /\ Again(j)' \subseteq Again(j) /\ Paying(j)' \subseteq Paying(j)
           /\ Charge(j)' <= Charge(j)
           /\ Again(j)' # Again(j) \/ Paying(j)' # Paying(j)
                => Charge(j)' <= Charge(j) - 1
<1>1. Repeats(j)' = Repeats(j)
  BY DEF Repeats
<1>2. Again(j)' \subseteq Again(j)
  BY AgainNext DEF Again
<1>3. Paying(j)' \subseteq Paying(j)
  <2>1. \A t \in Paying(j)' : t \in Ticks
    BY DEF Paying
  <2>2. QED
    BY <2>1, PayingNext DEF IInv
<1> DEFINE r == Repeats(j)
           a == Cardinality(Again(j))
           b == Cardinality(Again(j)')
           p == Cardinality(Paying(j))
           q == Cardinality(Paying(j)')
<1>4. /\ r \in Int /\ a \in Nat /\ b \in Nat /\ p \in Nat /\ q \in Nat
      /\ b <= a /\ q <= p
      /\ Again(j)' # Again(j) => b < a
      /\ Paying(j)' # Paying(j) => q < p
  BY <1>2, <1>3, ChargeType, SmallerSet
<1>5. Charge(j) = r + a + p /\ Charge(j)' = r + b + q
  BY <1>1 DEF Charge
<1> HIDE DEF r, a, b, p, q
<1>6. QED
  BY <1>1, <1>2, <1>3, <1>4, <1>5

\* A payment.
LEMMA ChargeOfPayment ==
    ASSUME IInv, [Next]_vars, NEW j \in Jobs, NEW t \in Ticks,
           Pays(t, j) \/ PaysLate(t, j)
    PROVE  /\ Charge(j)' <= Charge(j)
           /\ ~Open(j) /\ moved[j][job[t].nextRun] = 0
                => Charge(j)' <= Charge(j) - 1
<1> DEFINE s == job[t].nextRun
<1>a. TypeOK /\ ShapeInv /\ DateInv /\ TypeOK'
  BY NextTypes DEF IInv
<1>b. pc[t] = "execute" /\ job[t].id = j /\ Move(t)
      /\ pc'[t] \in {"recordSuccess", "recordFailure"}
      /\ due' = due /\ job' = job /\ UNCHANGED rowVars
      /\ \A u \in Ticks : u # t => pc'[u] = pc[u]
  BY <1>a DEF Pays, PaysLate, Execute, ExecuteThrowsLate, Goto, TypeOK
<1>c. job[t] # None /\ s \in Dates /\ job[t] \in Held(t) /\ job[t] \notin due[t]
  BY <1>a, <1>b, NextDate DEF ShapeInv, Placed, AtRow
<1>1. moved'[j] = [moved[j] EXCEPT ![s] = moved[j][s] + 1] /\ moved[j] \in [Dates -> Nat]
  BY <1>a, <1>b, <1>c DEF Move, TypeOK
<1>2. /\ t \in Paying(j) /\ t \notin Paying(j)'
      /\ Paying(j)' \subseteq Paying(j)
  <2>1. \A row \in due[t] : row.id # j
    BY <1>a, <1>b, <1>c DEF ShapeInv, Held
  <2>2. QED
    BY <1>b, <2>1 DEF Paying
<1>3. Again(j)' \subseteq Again(j) \cup {s}
      /\ (moved[j][s] > 0 => Again(j)' \subseteq Again(j))
      /\ (~Open(j) => Again(j)' = {})
  <2>1. ASSUME NEW d \in Again(j)', d # s \/ moved[j][s] > 0
        PROVE  d \in Again(j)
    <3>1. d \in Dates /\ moved'[j][d] > 0
      BY DEF Again
    <3>2. moved[j][d] > 0
      BY <1>1, <2>1, <3>1
    <3>3. QED
      BY <3>2, AgainNext
  <2>2. ~Open(j) => Again(j)' = {}
    BY OpenBefore DEF Again
  <2>3. QED
    BY <2>1, <2>2
<1> DEFINE r == Repeats(j)
           z == Repeats(j)'
           n == moved[j][s]
           a == Cardinality(Again(j))
           b == Cardinality(Again(j)')
           p == Cardinality(Paying(j))
           q == Cardinality(Paying(j)')
<1>4. r \in Int /\ n \in Nat /\ z = r + (IF n > 0 THEN 1 ELSE 0)
  <2> DEFINE f == Surplus(moved[j])
             h == Surplus(moved'[j])
  <2>1. n \in Nat /\ moved'[j][s] = n + 1
        /\ \A d \in Dates : d # s => moved'[j][d] = moved[j][d]
        /\ moved[j] \in [Dates -> Nat] /\ moved'[j] \in [Dates -> Nat]
    BY <1>1, <1>c
  <2>2. f \in [Dates -> Int] /\ h \in [Dates -> Int]
        /\ \A d \in Dates : d # s => h[d] = f[d]
    BY <2>1 DEF Surplus
  <2>3. f[s] = (IF n > 1 THEN n - 1 ELSE 0) /\ h[s] = (IF n > 0 THEN n ELSE 0)
    BY <1>c, <2>1 DEF Surplus
  <2>4. r = SumFunction(f) /\ z = SumFunction(h)
    BY DEF Repeats, Surplus
  <2> HIDE DEF f, h
  <2>5. SumFunction(h) = SumFunction(f) - f[s] + h[s] /\ SumFunction(f) \in Int
    BY <1>c, <2>2, FiniteDates, SumChanged, SumType
  <2> HIDE DEF n, r, z, s
  <2>6. QED
    BY <2>1, <2>3, <2>4, <2>5
<1>5. a \in Nat /\ p \in Nat /\ q \in Nat /\ q <= p - 1
  <2>1. IsFiniteSet(Paying(j)) /\ a \in Nat
    BY ChargeType
  <2>2. QED
    BY <1>2, <2>1, SmallerSet
<1>6. /\ b \in Nat /\ b <= a + 1
      /\ n > 0 => b <= a
      /\ ~Open(j) => b <= a
  <2>1. IsFiniteSet(Again(j)) /\ Cardinality({}) = 0
    BY ChargeType, FS_EmptySet
  <2>2. /\ IsFiniteSet(Again(j) \cup {s}) /\ Cardinality(Again(j) \cup {s}) \in Nat
        /\ Cardinality(Again(j) \cup {s}) <= a + 1
    <3>1. /\ IsFiniteSet(Again(j) \cup {s})
          /\ Cardinality(Again(j) \cup {s}) = IF s \in Again(j) THEN a ELSE a + 1
      <4> HIDE DEF s
      <4>1. QED
        BY <2>1, FS_AddElement
    <3> HIDE DEF a, s
    <3>2. QED
      BY <1>5, <3>1
  <2>3. b \in Nat /\ b <= Cardinality(Again(j) \cup {s})
    BY <1>3, <2>2, SmallerSet
  <2>4. n > 0 => b <= a
    BY <1>3, <2>1, SmallerSet
  <2>5. ~Open(j) => b = 0
    BY <1>3, <2>1
  <2> HIDE DEF a, b, n, s
  <2>6. QED
    BY <1>5, <2>2, <2>3, <2>4, <2>5
<1>7. Charge(j) = r + a + p /\ Charge(j)' = z + b + q
  BY DEF Charge
<1>8. moved[j][job[t].nextRun] = n
  OBVIOUS
<1> HIDE DEF r, z, n, a, b, p, q
<1>9. QED
  BY <1>4, <1>5, <1>6, <1>7, <1>8

LEMMA ChargeFalls ==
    ASSUME IInv, [Next]_vars, NEW j \in Jobs, ~ \E t \in Ticks : Tick(t)
    PROVE  Charge(j)' <= Charge(j)
<1>1. CASE \E t \in Ticks : Pays(t, j) \/ PaysLate(t, j)
  BY <1>1, ChargeOfPayment
<1>2. CASE ~ \E t \in Ticks : Pays(t, j) \/ PaysLate(t, j)
  <2>1. moved'[j] = moved[j]
    BY <1>2, MovedSame DEF IInv
  <2>2. QED
    BY <2>1, ChargeOfOthers
<1>3. QED
  BY <1>1, <1>2

-----------------------------------------------------------------------------
(* The free tick.                                                          *)

\* While it has not got its price back, what is live stands at one date.
LEMMA LentRows ==
    ASSUME IInv, [Next]_vars, NEW j \in Jobs, Lent(j),
           NEW t \in Ticks, NEW row \in Live(t)', row.id = j
    PROVE  /\ Open(j) => row.nextRun = nextRun[j]
           /\ ~Open(j) => moved[j][row.nextRun] = 0
<1>1. CASE row \in Live(t)
  BY <1>1 DEF Lent
<1>2. CASE Current(row)
  BY <1>2 DEF Current, IsDue, Open
<1>3. QED
  BY <1>1, <1>2, LiveNext DEF IInv

\* Who records a success of the job gives the price back: its date is due no
\* more.
LEMMA RecordedFalls ==
    ASSUME IInv, [Next]_vars, NEW j \in Jobs, Lent(j), Open(j),
           NEW t \in Ticks, SuccessOf(t, j)
    PROVE  Again(j)' # Again(j)
<1>a. TypeOK /\ ShapeInv /\ DateInv
  BY DEF IInv
<1>1. job[t] \in Live(t) /\ job[t] # None /\ job[t].id = j /\ pc[t] = "recordSuccess"
  BY <1>a, LiveHeld DEF SuccessOf
<1>2. job[t].nextRun = nextRun[j] /\ nextRun[j] \in Dates /\ nextRun[j] \in Int
  BY <1>a, <1>1 DEF Lent, TypeOK, Dates
<1>3. moved[j][nextRun[j]] > 0
  BY <1>a, <1>1, <1>2 DEF DateInv
<1>4. nextRun[j] \in Again(j)
  BY <1>2, <1>3 DEF Again, Ahead
<1>5. PICK d \in Dates : d = nextRun[j]
  BY <1>2
<1>6. d \notin Again(j)'
  <2> SUFFICES ASSUME Open(j)', Ahead(j, d)' PROVE FALSE
    BY DEF Again
  <2>1. \A u \in Ticks : \A row \in Live(u)' : row.id = j => row.nextRun = nextRun[j]
    BY LentRows
  <2>2. j \notin Once
    BY DEF SuccessOf, Open
  <2>3. nextRun'[j] = nextRun[j] + 1
    BY <1>2, <2>2 DEF SuccessOf
  <2>4. ~(nextRun'[j] <= d)
    BY <1>2, <1>5, <2>3
  <2>5. ~ \E u \in Ticks : \E row \in Live(u)' : row.id = j /\ row.nextRun < d
    BY <1>2, <1>5, <2>1
  <2>6. QED
    BY <2>4, <2>5 DEF Ahead
<1>7. QED
  BY <1>4, <1>5, <1>6

\* A step that pays nothing for the job and takes nothing off the charge leaves
\* the price lent.
LEMMA LentByOthers ==
    ASSUME IInv, [Next]_vars, NEW j \in Jobs, Lent(j),
           ~ \E t \in Ticks : Tick(t), moved'[j] = moved[j],
           disturbances' = disturbances, unrecorded'[j] = unrecorded[j],
           Again(j)' = Again(j), Paying(j)' = Paying(j)
    PROVE  Lent(j)'
<1>a. TypeOK /\ ShapeInv /\ DateInv /\ disturbances \in Nat
  BY DEF IInv, TypeOK
<1>1. CASE ~Open(j)
  <2>1. ~Open(j)'
    BY <1>1, OpenBefore
  <2>2. \A t \in Ticks : \A row \in Live(t)' :
          row.id = j => moved'[j][row.nextRun] = 0
    BY <1>1, LentRows
  <2>3. Paying(j)' # {}
    BY <1>1 DEF Lent
  <2>4. QED
    BY <2>1, <2>2, <2>3 DEF Lent
<1>2. CASE Open(j)
  <2>1. ~ \E t \in Ticks : SuccessOf(t, j)
    BY <1>2, RecordedFalls
  <2>2. nextRun'[j] = nextRun[j]
    BY <1>a, <2>1, RowSteps DEF RowStep, FailureOf
  <2>3. \A t \in Ticks : \A row \in Live(t)' :
          row.id = j => row.nextRun = nextRun[j]
    BY <1>2, LentRows
  <2>4. CASE Open(j)'
    <3>1. ASSUME NEW t \in Ticks, pc[t] = "recordSuccess", job[t].id = j
          PROVE  pc'[t] = "recordSuccess" /\ job'[t] = job[t]
      <4>1. ~RecordSuccess(t)
        <5> SUFFICES ASSUME RecordSuccess(t) PROVE FALSE
          OBVIOUS
        <5>1. job[t] # None
          BY <1>a, <3>1 DEF ShapeInv, Placed, AtRow
        <5>2. job[t] \in Snapshot
          BY <1>a, <5>1, NextDate
        <5>3. SuccessOf(t, j)
          BY <1>a, <3>1, <5>2, SuccessRecorded DEF RecordSuccess, SuccessOf, TypeOK
        <5>4. QED
          BY <2>1, <5>3
      <4>2. ~RecordSuccessThrows(t) /\ ~Crash
        <5>1. ~Disturb
          BY <1>a DEF Disturb
        <5>2. unrecorded \in [Jobs -> Nat] /\ unrecorded[j] \in Nat
          BY <1>a DEF TypeOK
        <5>3. ~RecordSuccessThrows(t)
          BY <3>1, <5>1, <5>2 DEF RecordSuccessThrows, StatementThrows
        <5>4. QED
          BY <5>1, <5>3 DEF Crash
      <4>3. QED
        BY <1>a, <3>1, <4>1, <4>2
           DEF Next, Run, Create, Cancel, Pass, Tick, FindDue, FindDueFails, Take,
               Execute, ExecuteFails, ExecuteThrowsLate, RecordSuccess,
               RecordFailure, RecordSuccessThrows, RecordFailureThrows, Continue,
               Goto, vars, tickVars, TypeOK
    <3>2. QED
      BY <1>2, <2>2, <2>3, <2>4, <3>1 DEF Lent
  <2>5. CASE ~Open(j)'
    <3>1. Again(j) = {}
      BY <2>5 DEF Again
    <3>2. moved[j][nextRun[j]] = 0
      <4>1. nextRun[j] \in Dates /\ nextRun[j] \in Int /\ moved[j][nextRun[j]] \in Nat
        <5>1. nextRun[j] \in Dates /\ moved[j] \in [Dates -> Nat]
          BY <1>a DEF TypeOK
        <5>2. moved[j][nextRun[j]] \in Nat
          BY <5>1
        <5>3. nextRun[j] \in Int
          BY <5>1 DEF Dates
        <5>4. QED
          BY <5>1, <5>2, <5>3
      <4>2. nextRun[j] \notin Again(j) /\ Ahead(j, nextRun[j])
        BY <3>1, <4>1 DEF Ahead
      <4>3. QED
        BY <1>2, <4>1, <4>2 DEF Again
    <3>3. ASSUME NEW t \in Ticks, pc[t] = "recordSuccess", job[t].id = j
          PROVE  FALSE
      <4>1. job[t] \in Live(t)
        BY <1>a, <3>3, LiveHeld
      <4>2. job[t].nextRun = nextRun[j]
        BY <1>2, <3>3, <4>1 DEF Lent
      <4>3. QED
        BY <1>a, <3>2, <3>3, <4>2 DEF DateInv
    <3>4. Paying(j)' # {}
      BY <3>3 DEF Lent
    <3>5. QED
      BY <2>3, <2>5, <3>2, <3>4 DEF Lent
  <2>6. QED
    BY <2>4, <2>5
<1>3. QED
  BY <1>1, <1>2

LEMMA LentByPayment ==
    ASSUME IInv, [Next]_vars, NEW j \in Jobs, NEW t \in Ticks, Pays(t, j), Lent(j)
    PROVE  Lent(j)' \/ Charge(j)' <= Charge(j) - 1
<1>a. TypeOK /\ ShapeInv /\ DateInv
  BY DEF IInv
<1>1. /\ pc[t] = "execute" /\ pc'[t] = "recordSuccess"
      /\ job[t].id = j /\ job' = job /\ UNCHANGED rowVars
  BY <1>a DEF Pays, Execute, Goto, TypeOK
<1>2. CASE Open(j)
  <2>1. \A u \in Ticks : \A row \in Live(u)' :
          row.id = j => row.nextRun = nextRun[j]
    BY <1>2, LentRows
  <2>2. QED
    BY <1>1, <1>2, <2>1 DEF Lent, Open, rowVars
<1>3. CASE ~Open(j)
  <2>1. job[t] \in Live(t)
    BY <1>a, <1>1, LiveHeld
  <2>2. moved[j][job[t].nextRun] = 0
    BY <1>1, <1>3, <2>1 DEF Lent
  <2>3. QED
    BY <1>3, <2>2, ChargeOfPayment
<1>4. QED
  BY <1>2, <1>3

\* The timer starts a tick: for nothing while no other is alive, or else for a
\* disturbance.
LEMMA CoveredByTick ==
    ASSUME IInv, [Next]_vars, NEW j \in Jobs, Covered(j),
           NEW t \in Ticks, Tick(t)
    PROVE  Covered(j)'
<1>a. TypeOK /\ ShapeInv
  BY DEF IInv
<1>1. /\ pc' = [pc EXCEPT ![t] = "find"] /\ pc[t] = "idle"
      /\ UNCHANGED <<rowVars, moved, due, job>>
  BY DEF Tick, Goto
<1>2. /\ \A u \in Ticks : Live(u)' = Live(u)
      /\ Open(j)' = Open(j) /\ Again(j)' = Again(j) /\ Repeats(j)' = Repeats(j)
  <2>1. \A u \in Ticks : Live(u)' = Live(u)
    BY <1>a, <1>1 DEF Live, TypeOK
  <2>2. Open(j)' = Open(j) /\ nextRun' = nextRun /\ moved' = moved
    BY <1>1 DEF Open, rowVars
  <2>3. \A d : Ahead(j, d)' <=> Ahead(j, d)
    BY <2>1, <2>2 DEF Ahead
  <2>4. QED
    BY <2>1, <2>2, <2>3 DEF Again, Repeats
<1>3. Paying(j)' = Paying(j) \cup {t}
  BY <1>a, <1>1 DEF Paying, TypeOK
<1>4. Charge(j)' <= Charge(j) + 1
  <2>1. /\ IsFiniteSet(Paying(j)) /\ Cardinality(Paying(j)) \in Nat
        /\ Cardinality(Again(j)) \in Nat /\ Repeats(j) \in Int
    BY ChargeType
  <2>2. /\ Cardinality(Paying(j)') \in Nat
        /\ Cardinality(Paying(j)') <= Cardinality(Paying(j)) + 1
    <3>1. Cardinality(Paying(j) \cup {t}) =
            IF t \in Paying(j) THEN Cardinality(Paying(j)) ELSE Cardinality(Paying(j)) + 1
      BY <2>1, FS_AddElement
    <3>2. QED
      BY <1>3, <2>1, <3>1
  <2>3. QED
    BY <1>2, <2>1, <2>2 DEF Charge
<1>5. /\ Charge(j) \in Int /\ Charge(j)' \in Int
      /\ Budget(j) \in Nat /\ disturbances \in Nat
      /\ Budget(j)' = Budget(j) + (disturbances' - disturbances)
  <2>1. unrecorded' = unrecorded
    BY DEF Tick
  <2>2. unrecorded[j] \in Nat /\ disturbances \in Nat /\ disturbances' \in Nat
    BY ChargeType, ChargeNext
  <2>3. QED
    BY <2>1, <2>2, ChargeType, ChargeNext DEF Budget
<1>6. CASE \A u \in Ticks : pc[u] = "idle"
  <2>1. \A u \in Ticks : Live(u) = {} /\ pc[u] # "recordSuccess"
    BY <1>a, <1>6 DEF ShapeInv, Placed, Live
  <2>2. Paying(j) = {}
    BY <1>a, <1>6 DEF ShapeInv, Placed, Paying
  <2>3. ~Lent(j)
    BY <2>1, <2>2 DEF Lent
  <2>4. Lent(j)'
    BY <1>2, <1>3, <2>1 DEF Lent
  <2>5. disturbances' = disturbances
    BY <1>6 DEF Tick
  <2>6. QED
    BY <1>4, <1>5, <2>3, <2>4, <2>5 DEF Covered
<1>7. CASE ~ \A u \in Ticks : pc[u] = "idle"
  <2>1. disturbances' = disturbances + 1
    BY <1>7 DEF Tick, Disturb
  <2>2. Lent(j) => Lent(j)'
    <3>1. UNCHANGED <<nextRun, moved>>
      BY <1>1 DEF rowVars
    <3>2. QED
      BY <1>2, <1>3, <3>1 DEF Lent
  <2>3. QED
    BY <1>4, <1>5, <2>1, <2>2 DEF Covered
<1>8. QED
  BY <1>6, <1>7

LEMMA NextRepeat ==
    ASSUME IInv, RepeatInv, [Next]_vars
    PROVE  RepeatInv'
<1> SUFFICES ASSUME NEW j \in Jobs PROVE Covered(j)'
  BY DEF RepeatInv
<1>a. Covered(j)
  BY DEF RepeatInv
<1>b. /\ Charge(j) \in Int /\ Charge(j)' \in Int
      /\ Budget(j) \in Nat /\ Budget(j)' \in Nat
      /\ disturbances \in Nat /\ disturbances' \in Nat
  BY ChargeType, ChargeNext
<1>c. Budget(j)' = Budget(j) \/ Budget(j)' >= Budget(j) + 1
  BY <1>b, BudgetNext
<1>1. CASE \E t \in Ticks : Tick(t)
  BY <1>1, <1>a, CoveredByTick
<1>2. CASE ~ \E t \in Ticks : Tick(t)
  <2>1. Charge(j)' <= Charge(j)
    BY <1>2, ChargeFalls
  <2>2. CASE Budget(j)' >= Budget(j) + 1
    BY <1>a, <1>b, <2>1, <2>2 DEF Covered
  <2>3. CASE Budget(j)' = Budget(j)
    <3>a. disturbances' = disturbances /\ unrecorded'[j] = unrecorded[j]
      BY <2>3, BudgetNext
    <3>1. Lent(j) => Lent(j)' \/ Charge(j)' <= Charge(j) - 1
      <4> SUFFICES ASSUME Lent(j)
                   PROVE  Lent(j)' \/ Charge(j)' <= Charge(j) - 1
        OBVIOUS
      <4>1. ASSUME NEW t \in Ticks PROVE ~PaysLate(t, j)
        BY <1>b, <3>a DEF PaysLate, ExecuteThrowsLate, Disturb
      <4>2. CASE \E t \in Ticks : Pays(t, j)
        BY <4>2, LentByPayment
      <4>3. CASE ~ \E t \in Ticks : Pays(t, j)
        <5>1. moved'[j] = moved[j]
          BY <4>1, <4>3, MovedSame DEF IInv
        <5>2. QED
          BY <1>2, <3>a, <5>1, ChargeOfOthers, LentByOthers
      <4>4. QED
        BY <4>2, <4>3
    <3>2. QED
      BY <1>a, <1>b, <2>1, <2>3, <3>1 DEF Covered
  <2>4. QED
    BY <1>c, <2>2, <2>3
<1>3. QED
  BY <1>1, <1>2

-----------------------------------------------------------------------------
(* The theorems.                                                           *)

LEMMA Inductive == Spec => []IInv
<1>1. Init => IInv
  BY InitTypes, InitShape, InitDates, InitLimit DEF IInv
<1>2. IInv /\ [Next]_vars => IInv'
  BY NextTypes, NextShape, NextDates, NextLimit, NextCause DEF IInv
<1>3. QED
  BY <1>1, <1>2, PTL DEF Spec

\* Every variable keeps its type; no tick writes a date back that lies more
\* than one period ahead (scheduler.js:54-66, scheduledTransferModel.js:61-73).
THEOREM TypeCorrect == Spec => []TypeOK
<1>1. IInv => TypeOK
  BY DEF IInv
<1>2. QED
  BY <1>1, Inductive, PTL

\* No payment is skipped: whatever overlaps, fails, is cancelled or dies, a
\* date is passed over, or a one-time job completed, only when its money has
\* moved (scheduler.js:48-66).
THEOREM NoPaymentSkippedProved == Spec => []NoPaymentSkipped
<1>1. IInv => NoPaymentSkipped
  BY DEF IInv, DateInv, Reached, PaidBefore, NoPaymentSkipped
<1>2. QED
  BY <1>1, Inductive, PTL

\* MAX_CONSECUTIVE_FAILURES holds up to the runs that overlapped: no job is
\* tried longer, and none is paused sooner (scheduler.js:67-90).
THEOREM PausedAtLimitProved == Spec => []PausedAtLimit
<1>1. IInv => PausedAtLimit
  <2> SUFFICES ASSUME IInv PROVE PausedAtLimit
    OBVIOUS
  <2>1. ASSUME NEW j \in Jobs, status[j] = "active"
        PROVE  failures[j] < MaxFailures + disturbances
    <3>1. failures[j] + Cardinality(Sparing(j)) < MaxFailures + disturbances
      BY <2>1 DEF IInv, LimitInv
    <3>2. Sparing(j) \subseteq Alive
      BY SparingAlive DEF IInv, Sparing
    <3>3. Cardinality(Sparing(j)) \in Nat
      BY <3>2, FS_Subset, FS_CardinalityType DEF IInv, LimitInv
    <3>4. QED
      BY <3>1, <3>3, Bounds DEF IInv, TypeOK
  <2>2. PausedForCause
    BY DEF IInv, CauseInv, PausedForCause
  <2>3. QED
    BY <2>1, <2>2 DEF PausedAtLimit, ActiveBelowLimit
<1>2. QED
  BY <1>1, Inductive, PTL

\* A job that was cancelled, paused or completed is not made active again by a
\* tick that had it in hand (scheduledTransferModel.js:61-73).
THEOREM EndedStaysEndedProved == Spec => EndedStaysEnded
<1>1. IInv /\ [Next]_vars =>
        [\A j \in Jobs : status[j] \notin {"none", "active"}
                           => status'[j] # "active"]_vars
  BY RowSteps DEF IInv, RowStep, SuccessOf, FailureOf
<1>2. QED
  BY <1>1, Inductive, PTL DEF Spec, EndedStaysEnded

\* A job pays no date again but once for every overlap, failed statement, late
\* error and crash, and, with the UPDATE of recordRunResult that PostgreSQL
\* rejects, once for every payment it could not record; however many ticks work on
\* however old snapshots (scheduler.js:44-90, scheduledTransferModel.js:62).
THEOREM RepeatsExplainedProved == Spec => []RepeatsExplained
<1>1. Init => IInv /\ RepeatInv
  BY InitTypes, InitShape, InitDates, InitLimit, InitRepeat DEF IInv
<1>2. IInv /\ RepeatInv /\ [Next]_vars => (IInv /\ RepeatInv)'
  BY NextInv, NextRepeat
<1>3. IInv /\ RepeatInv => RepeatsExplained
  <2> SUFFICES ASSUME IInv, RepeatInv, NEW j \in Jobs
               PROVE  Repeats(j) <= disturbances + unrecorded[j]
    BY DEF RepeatsExplained
  <2>1. /\ Repeats(j) \in Int /\ Budget(j) \in Nat
        /\ Cardinality(Again(j)) \in Nat
        /\ IsFiniteSet(Paying(j)) /\ Cardinality(Paying(j)) \in Nat
    BY ChargeType
  <2>2. /\ Charge(j) <= Budget(j) + 1
        /\ ~Lent(j) => Charge(j) <= Budget(j)
    BY DEF RepeatInv, Covered
  <2>3. Lent(j) => Cardinality(Again(j)) + Cardinality(Paying(j)) >= 1
    <3> SUFFICES ASSUME Lent(j)
                 PROVE  Cardinality(Again(j)) + Cardinality(Paying(j)) >= 1
      OBVIOUS
    <3>1. CASE Paying(j) # {}
      <4>1. Cardinality(Paying(j)) # 0
        BY <2>1, <3>1, FS_EmptySet
      <4>2. QED
        BY <2>1, <4>1
    <3>2. CASE Open(j) /\ \E t \in Ticks : pc[t] = "recordSuccess" /\ job[t].id = j
      <4>1. PICK t \in Ticks : pc[t] = "recordSuccess" /\ job[t].id = j
        BY <3>2
      <4>2. job[t] \in Live(t) /\ moved[j][job[t].nextRun] > 0
        BY <4>1, LiveHeld DEF IInv, DateInv
      <4>3. job[t].nextRun = nextRun[j] /\ nextRun[j] \in Dates /\ nextRun[j] \in Int
        BY <3>2, <4>1, <4>2 DEF Lent, IInv, TypeOK, Dates
      <4>4. nextRun[j] \in Again(j)
        BY <3>2, <4>2, <4>3 DEF Again, Ahead
      <4>5. Cardinality(Again(j)) # 0
        BY <4>4, ChargeType, FS_EmptySet
      <4>6. QED
        BY <2>1, <4>5
    <3>3. QED
      BY <3>1, <3>2 DEF Lent
  <2>4. Repeats(j) <= Budget(j)
    BY <2>1, <2>2, <2>3 DEF Charge
  <2>5. QED
    BY <2>4 DEF Budget
<1>4. QED
  BY <1>1, <1>2, <1>3, PTL DEF Spec

=============================================================================
