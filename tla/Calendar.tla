------------------------------ MODULE Calendar ------------------------------
(***************************************************************************)
(* The dates of the program: computeNextRun of utils/scheduler.js, along a *)
(* recurring transfer whose runs all succeed, and the date a fixed deposit *)
(* matures on (models/accountModel.js).  Both let JavaScript's Date add to *)
(* a month or a day, which rolls over what the month does not have.        *)
(***************************************************************************)
EXTENDS Integers

CONSTANTS
    Years,        \* years a transfer may start in
    Tenures,      \* months of a fixed deposit
    MaxRuns       \* bound on runs

CalendarAssumption ==
    Years \subseteq Nat /\ Tenures \subseteq Nat /\ MaxRuns \in Nat

VARIABLES
    first,        \* next_run_at as it was given
    frequency,
    current,      \* next_run_at
    runs,         \* runs recorded
    tenure,       \* of a deposit opened on the first date
    maturity

vars == <<first, frequency, current, runs, tenure, maturity>>

-----------------------------------------------------------------------------
(* Dates.                                                                  *)

IsLeap(y) == y % 4 = 0 /\ (y % 100 # 0 \/ y % 400 = 0)

DaysIn(y, m) ==
    IF m = 2 THEN (IF IsLeap(y) THEN 29 ELSE 28)
    ELSE IF m \in {4, 6, 9, 11} THEN 30 ELSE 31

Dates == UNION {[y : {y}, m : {m}, d : 1 .. DaysIn(y, m)] : y \in Years, m \in 1 .. 12}

\* Months since the year 0, and the date n months after the first of one.
Month(t) == 12 * t.y + t.m - 1

FirstOf(n) == [y |-> n \div 12, m |-> (n % 12) + 1, d |-> 1]

\* Days from the start of the year 2000.
DayNumber(t) ==
    LET y == t.y - 1
        leapDays == (y \div 4 - y \div 100 + y \div 400) - (1999 \div 4 - 1999 \div 100 + 1999 \div 400)
        before[m \in 1 .. 12] == IF m = 1 THEN 0 ELSE before[m - 1] + DaysIn(t.y, m - 1)
    IN  365 * (t.y - 2000) + leapDays + before[t.m] + t.d

\* A bug: the day stays what it is.
RollNever(n, d) == [FirstOf(n) EXCEPT !.d = d]

\* Day d of a month, where d may be beyond its last day.
Roll(n, d) ==
    LET t == FirstOf(n)
        days == DaysIn(t.y, t.m)
    IN  IF d <= days THEN [t EXCEPT !.d = d] ELSE [FirstOf(n + 1) EXCEPT !.d = d - days]

\* Two bugs: the last day of the month instead; a month of 31 days.
SetMonthClamped(t, n) ==
    LET start == FirstOf(Month(t) + n)
        days == DaysIn(start.y, start.m)
    IN  [start EXCEPT !.d = IF t.d <= days THEN t.d ELSE days]

SetMonthOf31Days(t, n) ==
    LET later == Roll(Month(t), t.d + 3) IN Roll(Month(later), later.d + 28)

\* t.setMonth(t.getMonth() + n)
SetMonth(t, n) == Roll(Month(t) + n, t.d)

\* A bug: the day becomes n.
SetDateTo(t, n) == Roll(Month(t), n)

\* t.setDate(t.getDate() + n), n at most 28
SetDate(t, n) == Roll(Month(t), t.d + n)

ComputeNextRun(t, f) ==
    CASE f = "weekly"  -> SetDate(t, 7)
      [] f = "monthly" -> SetMonth(t, 1)
      [] OTHER         -> t

MaturityDate(t, months) == SetMonth(t, months)

-----------------------------------------------------------------------------
Init ==
    /\ first \in Dates
    /\ frequency \in {"weekly", "monthly"}
    /\ current = first
    /\ runs = 0
    /\ tenure \in Tenures
    /\ maturity = MaturityDate(first, tenure)

RecordRun ==
    /\ runs < MaxRuns
    /\ runs' = runs + 1
    /\ current' = ComputeNextRun(current, frequency)
    /\ UNCHANGED <<first, frequency, tenure, maturity>>

Next == RecordRun

Spec == Init /\ [][Next]_vars

-----------------------------------------------------------------------------
(* Properties.                                                             *)

IsDate(t) == t.m \in 1 .. 12 /\ t.d \in 1 .. DaysIn(t.y, t.m)

TypeOK ==
    /\ first \in Dates /\ IsDate(current) /\ IsDate(maturity)
    /\ frequency \in {"weekly", "monthly"}
    /\ runs \in 0 .. MaxRuns /\ tenure \in Tenures

\* Against the count of days: a week is 7 days over every end of a month or a
\* year, and a month as many days as the month it starts in has, the 29th to
\* 31st included (scheduler.js:18).
StepIsRightInDays ==
    DayNumber(current') - DayNumber(current) =
        IF frequency = "weekly" THEN 7 ELSE DaysIn(current.y, current.m)

\* A monthly transfer skips one month at most in its life: once rolled over it
\* stays in the first days of a month (scheduler.js:19).
SkipsAtMostOneMonth ==
    frequency = "monthly" => Month(current) - Month(first) \in runs .. runs + 1

\* A deposit matures on the day of the month it was opened, or, where the month
\* does not have it, up to 3 days into the month after; never before
\* (accountModel.js:50).
MaturityIsNotEarly ==
    LET late == Month(maturity) - Month(first) - tenure
    IN  \/ late = 0 /\ maturity.d = first.d
        \/ late = 1 /\ maturity.d <= 3
=============================================================================
