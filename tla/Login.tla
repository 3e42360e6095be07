------------------------------- MODULE Login -------------------------------
(***************************************************************************)
(* exports.login of controllers/authController.js for one user: the        *)
(* password step of concurrent requests, query by query, with the failed-  *)
(* login counter, the lock and the brute-force alert it keeps.  A request  *)
(* for an unknown e-mail writes a row of its own and touches none of this; *)
(* what follows the right password is TwoFactor and Sessions.              *)
(*                                                                         *)
(* Time is counted in ticks.  locked_until is kept as the ticks left, and  *)
(* the rows of login_attempts as their number by age: counts stop at       *)
(* MAX_LOGIN_ATTEMPTS, all that the count query is compared with.          *)
(***************************************************************************)
EXTENDS Integers, FiniteSetsExt, Functions

CONSTANTS
    Callers,       \* requests at a time
    Owner,         \* the caller who gives the right password
    MaxAttempts,   \* MAX_LOGIN_ATTEMPTS
    Lockout,       \* LOGIN_LOCKOUT_MINUTES, in ticks
    MaxCount,      \* bound on failed_login_count: no wrong password is tried past it
    MaxFaults,     \* bound on failed queries and crashes
    None

LoginAssumption ==
    /\ IsFiniteSet(Callers) /\ Owner \in Callers
    /\ MaxAttempts \in Nat \ {0}
    /\ Lockout \in Nat \ {0}
    /\ MaxCount \in Nat /\ MaxFaults \in Nat
    /\ None \notin Nat

VARIABLES
    failedCount,   \* users.failed_login_count
    locked,        \* users.locked_until: None for NULL, 0 for a time past
    badRows,       \* login_attempts BAD_PASSWORD, by age
    otherRows,     \* login_attempts ACCOUNT_LOCKED and BAD_2FA_CODE, by age
    alertAge,      \* age of the newest LOGIN_BRUTE_FORCE alert, None if there is none
    pc,
    faults,        \* failed queries and crashes so far
    sinceLock      \* wrong passwords counted since a lock ran out or was cleared

userVars == <<failedCount, locked>>
logVars  == <<badRows, otherRows, alertAge>>
vars == <<userVars, logVars, pc, faults, sinceLock>>

Ages  == 0 .. Lockout

Init ==
    /\ failedCount = 0
    /\ locked = None
    /\ badRows    = [a \in Ages |-> 0]
    /\ otherRows = [a \in Ages |-> 0]
    /\ alertAge = None
    /\ pc = [c \in Callers |-> "idle"]
    /\ faults = 0
    /\ sinceLock = 0

Goto(c, here, there) == pc[c] = here /\ pc' = [pc EXCEPT ![c] = there]

LogRow(rows) == [rows EXCEPT ![0] = IF @ = MaxAttempts THEN @ ELSE @ + 1]

-----------------------------------------------------------------------------
(* Time.  A lock that runs out stays in the row as a time past.             *)

Tick ==
    /\ locked' = IF locked \in {None, 0} THEN locked ELSE locked - 1
    /\ sinceLock' = IF locked = 1 THEN 0 ELSE sinceLock
    /\ badRows'    = [a \in Ages |-> IF a = 0 THEN 0 ELSE badRows[a - 1]]
    /\ otherRows' = [a \in Ages |-> IF a = 0 THEN 0 ELSE otherRows[a - 1]]
    /\ alertAge' = IF alertAge \in {None, Lockout + 1} THEN alertAge ELSE alertAge + 1
    /\ UNCHANGED <<failedCount, pc, faults>>

-----------------------------------------------------------------------------
(* The handler.  A request that ends is "idle", one that got in is "in".    *)

\* A bug: a lock is taken for one as long as the column is not NULL.
IsLockedForEver(until) == until # None

IsLocked(until) == until # None /\ until > 0

\* A request: the row its SELECT returns is checked at once; then bcrypt.compare
\* takes its time.
FindByEmail(c) ==
    /\ pc[c] \in {"idle", "in"}
    /\ pc' = [pc EXCEPT ![c] = IF IsLocked(locked) THEN "logLocked" ELSE "compare"]
    /\ c = Owner \/ failedCount < MaxCount
    /\ UNCHANGED <<userVars, logVars, faults, sinceLock>>

LogOther ==
    /\ otherRows' = LogRow(otherRows)
    /\ UNCHANGED <<userVars, badRows, alertAge, sinceLock>>

RefuseLocked(c) ==
    /\ LogOther
    /\ Goto(c, "logLocked", "idle")
    /\ UNCHANGED faults

ComparePassword(c) ==
    /\ Goto(c, "compare", IF c = Owner THEN "reset" ELSE "increment")
    /\ UNCHANGED <<userVars, logVars, faults, sinceLock>>

\* A bug: a count past the limit does not lock.
LocksAtOnly(count) == count = MaxAttempts

\* From here on, the steps of a request that will lock are named apart.
LocksAt(count) == count >= MaxAttempts

Increment ==
    /\ failedCount' = failedCount + 1
    /\ sinceLock' = sinceLock + 1
    /\ UNCHANGED <<locked, logVars>>

IncrementFailedLogin(c) ==
    /\ Increment
    /\ Goto(c, "increment", IF LocksAt(failedCount') THEN "logLast" ELSE "logBad")
    /\ UNCHANGED faults

LogBad ==
    /\ badRows' = LogRow(badRows)
    /\ UNCHANGED <<userVars, otherRows, alertAge, sinceLock>>

LogBadPassword(c) ==
    /\ LogBad
    /\ Goto(c, "logBad", "evaluate") \/ Goto(c, "logLast", "evaluateLast")
    /\ UNCHANGED faults

\* A bug: an alert takes one failure more.
SuspiciousLate(count) == count > MaxAttempts

Suspicious(count) == count >= MaxAttempts

FailuresInWindow == SumFunction(badRows) + SumFunction(otherRows)

Evaluate(c, here, alert, there) ==
    /\ Goto(c, here, IF Suspicious(FailuresInWindow) THEN alert ELSE there)
    /\ UNCHANGED <<userVars, logVars, faults, sinceLock>>

EvaluateLoginAttempt(c) ==
    \/ Evaluate(c, "evaluate", "alert", "idle")
    \/ Evaluate(c, "evaluateLast", "alertLast", "lock")

Alert ==
    /\ alertAge' = 0
    /\ UNCHANGED <<userVars, badRows, otherRows, sinceLock>>

CreateAlert(c) ==
    /\ Alert
    /\ Goto(c, "alert", "idle") \/ Goto(c, "alertLast", "lock")
    /\ UNCHANGED faults

\* A bug: the minutes are taken twice.
LockTwiceAsLong ==
    /\ locked' = 2 * Lockout
    /\ UNCHANGED <<failedCount, logVars, sinceLock>>

Lock ==
    /\ locked' = Lockout
    /\ UNCHANGED <<failedCount, logVars, sinceLock>>

LockAccount(c) ==
    /\ Lock
    /\ Goto(c, "lock", "idle")
    /\ UNCHANGED faults

\* The right password.
Reset ==
    /\ failedCount' = 0
    /\ locked' = None
    /\ sinceLock' = 0
    /\ UNCHANGED logVars

ResetFailedLogin(c) ==
    /\ Reset
    /\ Goto(c, "reset", "logSuccess")
    /\ UNCHANGED faults

\* The success row, then the challenge or the tokens.
LogSuccess(c) ==
    /\ Goto(c, "logSuccess", "in")
    /\ UNCHANGED <<userVars, logVars, faults, sinceLock>>

\* verifyTwoFactorLogin, answered with a wrong code, once or again: it logs a row
\* and neither counts the failure nor evaluates it.
WrongCode(c) ==
    /\ LogOther
    /\ pc[c] = "in"
    /\ UNCHANGED <<pc, faults>>

\* What the statement a request is at does.
Effect(c) ==
    CASE pc[c] = "logLocked"             -> LogOther
      [] pc[c] = "increment"             -> Increment
      [] pc[c] \in {"logBad", "logLast"} -> LogBad
      [] pc[c] \in {"alert", "alertLast"} -> Alert
      [] pc[c] = "lock"                  -> Lock
      [] pc[c] = "reset"                 -> Reset
      [] OTHER -> UNCHANGED <<userVars, logVars, sinceLock>>

\* A query throws, performed or not: 500.
QueryFails(c) ==
    /\ faults < MaxFaults
    /\ faults' = faults + 1
    /\ pc[c] \notin {"idle", "in", "compare"}
    /\ pc' = [pc EXCEPT ![c] = "idle"]
    /\ Effect(c) \/ UNCHANGED <<userVars, logVars, sinceLock>>

Proceed(c) ==
    \/ RefuseLocked(c) \/ ComparePassword(c)
    \/ IncrementFailedLogin(c) \/ LogBadPassword(c) \/ EvaluateLoginAttempt(c)
    \/ CreateAlert(c) \/ LockAccount(c)
    \/ ResetFailedLogin(c) \/ LogSuccess(c) \/ QueryFails(c)

\* Every request in flight ends with the process; the rows stay.
Crash ==
    /\ faults < MaxFaults
    /\ faults' = faults + 1
    /\ \E c \in Callers : pc[c] # "idle"
    /\ pc' = [c \in Callers |-> "idle"]
    /\ UNCHANGED <<userVars, logVars, sinceLock>>

Next ==
    Tick \/ Crash \/ \E c \in Callers : FindByEmail(c) \/ Proceed(c) \/ WrongCode(c)

Spec == Init /\ [][Next]_vars

-----------------------------------------------------------------------------
(* Properties.                                                             *)

TypeOK ==
    /\ {failedCount, sinceLock} \subseteq 0 .. MaxCount + Cardinality(Callers)
    /\ locked \in Ages \cup {None}
    /\ alertAge \in (0 .. Lockout + 1) \cup {None}
    /\ {badRows, otherRows} \subseteq [Ages -> 0 .. MaxAttempts]
    /\ pc \in [Callers -> {"idle", "in", "logLocked", "compare",
                 "increment", "logBad", "logLast", "evaluate", "evaluateLast",
                 "alert", "alertLast", "lock", "reset", "logSuccess"}]
    /\ faults \in 0 .. MaxFaults

\* Between two locks the password is guessed at most MAX_LOGIN_ATTEMPTS times,
\* and once more by every other request that was past the check of locked_until
\* when the lock was set (authController.js:73-91).  A fault lets as many through
\* again as it ends requests.
GuessesBounded ==
    LET guessers == Cardinality(Callers \ {Owner})
    IN  sinceLock < MaxAttempts + guessers * (1 + faults)

\* Once nobody is at the login, as many wrong passwords as the limit, in the
\* window, have raised an alert no older than the last of them, however the rows
\* and the counts of the requests interleaved (fraudDetection.js:115-138).
BruteForceAlerted ==
    /\ \A c \in Callers : pc[c] \in {"idle", "in"}
    /\ faults = 0
    /\ SumFunction(badRows) >= MaxAttempts
    => alertAge # None /\ \A a \in Ages : badRows[a] > 0 => alertAge <= a
=============================================================================
