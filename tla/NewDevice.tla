----------------------------- MODULE NewDevice -----------------------------
(***************************************************************************)
(* The new-device check of one user: login and verifyTwoFactorLogin of     *)
(* controllers/authController.js up to evaluateNewDevice of                *)
(* utils/fraudDetection.js, which nobody awaits.  The row of a success is  *)
(* written when the password was right; the check counts the rows of the   *)
(* address the last request came from.                                     *)
(***************************************************************************)
EXTENDS FiniteSets, Integers, Sequences

CONSTANTS
    Logins,       \* logins with the right password
    Ips,          \* addresses of the user's browsers
    MaxFaults,    \* bound on failed queries and crashes
    None

NewDeviceAssumption == IsFiniteSet(Logins) /\ MaxFaults \in Nat /\ None \notin Ips

VARIABLES
    rows,         \* login_attempts with success = TRUE, in order
    pc,           \* the login itself
    check,        \* its evaluateNewDevice
    at,           \* the address that check is for
    seen,         \* the rows there were when the login was complete
    alerts,       \* NEW_DEVICE alerts
    disturbed,    \* checks a fault has hit
    faults

vars == <<rows, pc, check, at, seen, alerts, disturbed, faults>>

Init ==
    /\ rows   = <<>>
    /\ pc     = [l \in Logins |-> "password"]
    /\ check  = [l \in Logins |-> "none"]
    /\ at     = [l \in Logins |-> None]
    /\ seen   = [l \in Logins |-> 0]
    /\ alerts = {}
    /\ disturbed = {}
    /\ faults = 0

Goto(l, here, there) == pc[l] = here /\ pc' = [pc EXCEPT ![l] = there]

Row(l, ip) == [by |-> l, ip |-> ip]

\* login logs the success before it asks for a second factor.
LogSuccess(l, ip) ==
    /\ Goto(l, "password", "logged")
    /\ rows' = Append(rows, Row(l, ip))
    /\ at'   = [at EXCEPT ![l] = ip]
    /\ UNCHANGED <<check, seen, alerts, disturbed, faults>>

\* is_2fa_enabled: the code may come, from wherever the browser is by then, or
\* never.
AskForCode(l) ==
    /\ Goto(l, "logged", "challenge")
    /\ UNCHANGED <<rows, check, at, seen, alerts, disturbed, faults>>

StartCheck(l) ==
    /\ check' = [check EXCEPT ![l] = "count"]
    /\ seen'  = [seen EXCEPT ![l] = Len(rows)]

Complete(l) ==
    /\ Goto(l, "logged", "issue")
    /\ StartCheck(l)
    /\ UNCHANGED <<rows, at, alerts, disturbed, faults>>

\* A bug: the second step logs a success as well.
LoggedAgain(l, ip) == Append(rows, Row(l, ip))

LoggedByCode(l, ip) == rows

VerifyCode(l, ip) ==
    /\ Goto(l, "challenge", "issue")
    /\ at' = [at EXCEPT ![l] = ip]
    /\ rows' = LoggedByCode(l, ip)
    /\ StartCheck(l)
    /\ UNCHANGED <<alerts, disturbed, faults>>

\* issueTokens, while the check runs.
IssueTokens(l) ==
    /\ Goto(l, "issue", "in")
    /\ UNCHANGED <<rows, check, at, seen, alerts, disturbed, faults>>

\* The INSERT of the refresh token throws; the check goes on.
IssueFails(l) ==
    /\ Goto(l, "issue", "failed")
    /\ faults < MaxFaults
    /\ faults' = faults + 1
    /\ UNCHANGED <<rows, check, at, seen, alerts, disturbed>>

-----------------------------------------------------------------------------
(* evaluateNewDevice.                                                      *)

PriorSuccesses(ip) == Cardinality({i \in DOMAIN rows : rows[i].ip = ip})

\* A bug: two rows are new as well.
IsNewTwice(ip) == PriorSuccesses(ip) <= 2

IsNew(ip) == PriorSuccesses(ip) <= 1

EvaluateNewDevice(l) ==
    /\ check[l] = "count"
    /\ check' = [check EXCEPT ![l] = IF IsNew(at[l]) THEN "insert" ELSE "done"]
    /\ UNCHANGED <<rows, pc, at, seen, alerts, disturbed, faults>>

CreateAlert(l) ==
    /\ check[l] = "insert"
    /\ check' = [check EXCEPT ![l] = "done"]
    /\ alerts' = alerts \cup {Row(l, at[l])}
    /\ UNCHANGED <<rows, pc, at, seen, disturbed, faults>>

\* .catch(() => {}): a query of the check throws and nobody hears of it.
CheckFails(l) ==
    /\ check[l] \in {"count", "insert"}
    /\ faults < MaxFaults
    /\ faults' = faults + 1
    /\ check' = [check EXCEPT ![l] = "done"]
    /\ disturbed' = disturbed \cup {l}
    /\ UNCHANGED <<rows, pc, at, seen, alerts>>

\* Requests, checks and challenges are gone.
Crash ==
    /\ faults < MaxFaults
    /\ faults' = faults + 1
    /\ pc' = [l \in Logins |-> IF pc[l] \in {"password", "in"} THEN pc[l] ELSE "failed"]
    /\ check' = [l \in Logins |-> IF check[l] = "none" THEN "none" ELSE "done"]
    /\ disturbed' = disturbed \cup {l \in Logins : check[l] \in {"count", "insert"}}
    /\ UNCHANGED <<rows, at, seen, alerts>>

Next ==
    \/ \E l \in Logins :
          \/ \E ip \in Ips : LogSuccess(l, ip) \/ VerifyCode(l, ip)
          \/ AskForCode(l) \/ Complete(l) \/ IssueTokens(l) \/ IssueFails(l)
          \/ EvaluateNewDevice(l) \/ CreateAlert(l) \/ CheckFails(l)
    \/ Crash

Spec == Init /\ [][Next]_vars

-----------------------------------------------------------------------------
(* Properties.                                                             *)

TypeOK ==
    /\ Len(rows) <= Cardinality(Logins)
    /\ \A i \in DOMAIN rows : rows[i] \in [by : Logins, ip : Ips]
    /\ pc \in [Logins -> {"password", "logged", "challenge", "issue", "in", "failed"}]
    /\ check \in [Logins -> {"none", "count", "insert", "done"}]
    /\ at \in [Logins -> Ips \cup {None}]
    /\ seen \in [Logins -> 0 .. Len(rows)]
    /\ alerts \subseteq [by : Logins, ip : Ips]
    /\ disturbed \subseteq Logins
    /\ faults \in 0 .. MaxFaults

\* The logins from the address of an alert that came before that login was complete.
Before(a) ==
    {i \in 1 .. seen[a.by] : rows[i].ip = a.ip /\ rows[i].by # a.by}

\* What is called new is new: nobody had logged in from there before, whatever came
\* in between.  A login of which only the code came from there has no row of that
\* address itself, so that one other may have (fraudDetection.js:157-160,
\* authController.js:104,166): the false alarm that README.md:219 does not know of.
NewMeansFirst ==
    \A a \in alerts :
        /\ \A i, j \in Before(a) : i = j
        /\ (\E i \in DOMAIN rows : rows[i] = a) => Before(a) = {}
=============================================================================
