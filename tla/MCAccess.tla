------------------------------ MODULE MCAccess ------------------------------
(***************************************************************************)
(* Login, Sessions and NewDevice in one instance: who may act, and what is *)
(* noticed of those who should not.                                        *)
(*                                                                         *)
(* The three share no state, so the steps of one commute with those of the  *)
(* others, and a property of one holds of all together if it holds of that *)
(* one with the rest standing still.  Hence part: one of them runs, the    *)
(* variables of the others are Off.  A variable two of them have (pc,      *)
(* faults) belongs to the one that runs.                                   *)
(***************************************************************************)
EXTENDS Integers, TLC

CONSTANTS
    None, MaxFaults,
    Callers, Owner, MaxAttempts, Lockout, MaxCount,         \* Login
    Users, Admins, Sessions, UserOf, Requests, TTL,         \* Sessions
    Logins, Ips                                             \* NewDevice

VARIABLES
    part, pc, faults,
    failedCount, locked, badRows, otherRows, alertAge, sinceLock,  \* Login
    row, access, status, req, entitled, overtaken, aliased,         \* Sessions
    rows, check, at, seen, alerts, disturbed                        \* NewDevice

L == INSTANCE Login
S == INSTANCE Sessions
N == INSTANCE NewDevice

ASSUME AccessAssumption ==
    L!LoginAssumption /\ S!SessionsAssumption /\ N!NewDeviceAssumption

CONSTANTS ann, bob, s1, s2, i1, i2, p, q

MCUserOf == s1 :> ann @@ s2 :> bob

\* p and q are guessers, logins or requests, whichever part runs; they are alike.
\* So are the two admins, each with the session it has, and two addresses.
SwapSides ==
    ann :> bob @@ bob :> ann @@ s1 :> s2 @@ s2 :> s1 @@ i1 :> i2 @@ i2 :> i1
Alike == Permutations({p, q}) \cup {SwapSides}

loginVars    == <<failedCount, locked, badRows, otherRows, alertAge, sinceLock>>
sessionsVars == <<row, access, status, req, entitled, overtaken, aliased>>
deviceVars   == <<rows, check, at, seen, alerts, disturbed>>
vars == <<part, pc, faults, loginVars, sessionsVars, deviceVars>>

Off == "off"

LoginOff ==
    /\ failedCount = Off /\ locked = Off /\ badRows = Off /\ otherRows = Off
    /\ alertAge = Off /\ sinceLock = Off
SessionsOff ==
    /\ row = Off /\ access = Off /\ status = Off /\ req = Off /\ entitled = Off
    /\ overtaken = Off /\ aliased = Off
DeviceOff ==
    /\ rows = Off /\ check = Off /\ at = Off /\ seen = Off /\ alerts = Off
    /\ disturbed = Off

Init ==
    \/ part = "login" /\ L!Init /\ SessionsOff /\ DeviceOff
    \/ part = "sessions" /\ S!Init /\ faults = Off /\ LoginOff /\ DeviceOff
    \/ part = "device" /\ N!Init /\ LoginOff /\ SessionsOff

LoginNext ==
    part = "login" /\ L!Next /\ UNCHANGED <<part, sessionsVars, deviceVars>>

SessionsNext ==
    part = "sessions" /\ S!Next /\ UNCHANGED <<part, faults, loginVars, deviceVars>>

DeviceNext ==
    part = "device" /\ N!Next /\ UNCHANGED <<part, loginVars, sessionsVars>>

Next == LoginNext \/ SessionsNext \/ DeviceNext

Spec == Init /\ [][Next]_vars

-----------------------------------------------------------------------------
(* Properties: those of the parts, one here for what belongs together.     *)

\* The type of each part's state.
TypeOK ==
    /\ part = "login"    => L!TypeOK
    /\ part = "sessions" => S!TypeOK
    /\ part = "device"   => N!TypeOK

\* Between two locks the password is guessed as often as the limit, and once more
\* by each request that was past the check of locked_until when the lock was set
\* (authController.js:73-91).
GuessesBounded == part = "login" => L!GuessesBounded

\* Enough wrong passwords in the window have raised an alert no older than the
\* last of them, however the requests counted one another.  A login is called new
\* only at an address no other came from before it was complete; or, if only its
\* code came from there, one other at most (fraudDetection.js:115-160).
AlertsAreRight ==
    /\ part = "login"  => L!BruteForceAlerted
    /\ part = "device" => N!NewMeansFirst

\* However long a token lives, no handler runs for a user who was not active at
\* any moment since the request arrived (authMiddleware.js:24-34).
SuspendedCannotAct == part = "sessions" => S!SuspendedCannotAct

\* Some admin stays active, unless one was suspended between its own check and its
\* UPDATE, or changed its own status by another spelling of its id
\* (adminController.js:72).
SomeAdminIsLeft == part = "sessions" => S!SomeAdminIsLeft

\* A session that has ended, by logout or by age, gets no further access token but
\* from a refresh that had found its row before (authController.js:269-280).
EndedIsEnded == [][part = "sessions" => S!EndedIsEnded]_vars
=============================================================================
