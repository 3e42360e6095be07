------------------------------ MODULE Sessions ------------------------------
(***************************************************************************)
(* What a session may do, and until when: the refresh tokens of            *)
(* controllers/authController.js, the access tokens signed for them        *)
(* (utils/token.js), which no one can take back, requireAuth and           *)
(* requireRole, which every protected route runs first, and the admins'    *)
(* updateUserStatus, which takes the right to act away.  Requests run      *)
(* concurrently, query by query; any of them may end early (a query that   *)
(* throws, or the process dies): what it has not written is lost.          *)
(*                                                                         *)
(* An access token is the ticks it has left; of the tokens signed for a    *)
(* session the newest is kept, which outlives the others.                  *)
(***************************************************************************)
EXTENDS Integers

CONSTANTS
    Users, Admins,
    Sessions,     \* refresh tokens: one browser's login each
    UserOf,       \* refresh_tokens.user_id
    Requests,     \* requests at a time
    TTL,          \* JWT_EXPIRES_IN, in ticks
    None

SessionsAssumption ==
    /\ Admins \subseteq Users
    /\ UserOf \in [Sessions -> Users]
    /\ TTL \in Nat \ {0}

VARIABLES
    row,        \* a session's row of refresh_tokens
    access,     \* ticks its newest access token has left
    status,     \* users.status
    pc, req,    \* where a request is, and what it asks
    entitled,   \* its session was valid, its user active, at a moment since it came
    overtaken,  \* an admin was suspended between its check and its UPDATE
    aliased     \* an admin's own status was changed by another spelling of its id

vars == <<row, access, status, pc, req, entitled, overtaken, aliased>>

Statuses == {"active", "suspended", "closed"}

\* What a protected route is asked for: one's own data, or a user's status.  The
\* id of that user is what the URL says; exact, if it is written as the database
\* writes it.  PostgreSQL reads a UUID in capital letters as well, and no
\* validator of adminRoutes.js looks at it.
Me   == [of |-> None, exact |-> TRUE, set |-> None]
Asks == [of : Users, exact : BOOLEAN, set : Statuses] \cup {Me}

Init ==
    /\ row    = [s \in Sessions |-> "none"]
    /\ access = [s \in Sessions |-> 0]
    /\ status = [u \in Users |-> "active"]
    /\ pc  = [r \in Requests |-> "idle"]
    /\ req = [r \in Requests |-> None]
    /\ entitled = [r \in Requests |-> FALSE]
    /\ overtaken = FALSE
    /\ aliased = FALSE

Actor(r) == UserOf[req[r].session]

\* The request is over, answered or not.
End(r) ==
    /\ pc'  = [pc EXCEPT ![r] = "idle"]
    /\ req' = [req EXCEPT ![r] = None]
    /\ entitled' = [entitled EXCEPT ![r] = FALSE]

-----------------------------------------------------------------------------
(* Time.                                                                   *)

Tick ==
    /\ \E s \in Sessions : access[s] > 0
    /\ access' = [s \in Sessions |-> IF access[s] = 0 THEN 0 ELSE access[s] - 1]
    /\ UNCHANGED <<row, status, pc, req, entitled, overtaken, aliased>>

Expire(s) ==
    /\ row[s] = "valid"
    /\ row' = [row EXCEPT ![s] = "expired"]
    /\ UNCHANGED <<access, status, pc, req, entitled, overtaken, aliased>>

-----------------------------------------------------------------------------
(* Sessions.                                                               *)

\* A bug: the token lives longer than it may.
SignLonger(s) == access' = [access EXCEPT ![s] = TTL + 1]

Sign(s) == access' = [access EXCEPT ![s] = TTL]

\* issueTokens: both tokens, of a login that checked no status.
IssueTokens(s) ==
    /\ row[s] = "none"
    /\ row' = [row EXCEPT ![s] = "valid"]
    /\ Sign(s)
    /\ UNCHANGED <<status, pc, req, entitled, overtaken, aliased>>

\* A bug: the WHERE clause forgets is_revoked.
StoredThoughRevoked(s) == row[s] \in {"valid", "revoked"}

Stored(s) == row[s] = "valid"

\* POST /auth/refresh: the SELECT of the token, or a 401.
RefreshFind(r, s) ==
    /\ pc[r] = "idle"
    /\ Stored(s)
    /\ pc'  = [pc EXCEPT ![r] = "refresh"]
    /\ req' = [req EXCEPT ![r] = [session |-> s, ask |-> Me]]
    /\ entitled' = [entitled EXCEPT ![r] = row[s] = "valid"]
    /\ UNCHANGED <<row, access, status, overtaken, aliased>>

\* The user has been found: the token is signed, whatever the row now says.
RefreshSign(r) ==
    /\ pc[r] = "refresh"
    /\ Sign(req[r].session)
    /\ End(r)
    /\ UNCHANGED <<row, status, overtaken, aliased>>

Logout(s) ==
    /\ row[s] # "none"
    /\ row' = [row EXCEPT ![s] = "revoked"]
    /\ UNCHANGED <<access, status, pc, req, entitled, overtaken, aliased>>

-----------------------------------------------------------------------------
(* Protected routes.                                                       *)

\* requireAuth: the token is verified, and the user's row asked for.
Arrive(r, s) ==
    /\ pc[r] = "idle"
    /\ access[s] > 0
    /\ \E ask \in Asks : req' = [req EXCEPT ![r] = [session |-> s, ask |-> ask]]
    /\ pc' = [pc EXCEPT ![r] = "auth"]
    /\ entitled' = [entitled EXCEPT ![r] = status[UserOf[s]] = "active"]
    /\ UNCHANGED <<row, access, status, overtaken, aliased>>

\* A bug: requireAuth trusts the token and leaves users.status alone.
MayActByToken(u, ask) == ask = Me \/ u \in Admins

\* requireAuth on the row, requireRole('admin') on the admins' routes.
MayAct(u, ask) == status[u] = "active" /\ (ask = Me \/ u \in Admins)

RequireAuth(r) ==
    /\ pc[r] = "auth"
    /\ IF MayAct(Actor(r), req[r].ask)
       THEN pc' = [pc EXCEPT ![r] = "handle"] /\ UNCHANGED <<req, entitled>>
       ELSE End(r)
    /\ UNCHANGED <<row, access, status, overtaken, aliased>>

\* GET /auth/me: req.user as requireAuth read it.
GetMe(r) ==
    /\ pc[r] = "handle"
    /\ req[r].ask = Me
    /\ End(r)
    /\ UNCHANGED <<row, access, status, overtaken, aliased>>

\* A bug: an admin may change its own status.
IsAllowedOn(actor, ask) == TRUE

\* The two strings are compared, not the two users.
IsAllowed(actor, ask) == ~(ask.of = actor /\ ask.exact)

UpdateUserStatus(r) ==
    /\ pc[r] = "handle"
    /\ req[r].ask # Me
    /\ LET a == req[r].ask
       IN  IF IsAllowed(Actor(r), a)
           THEN /\ status' = [status EXCEPT ![a.of] = a.set]
                /\ overtaken' = (overtaken \/ status[Actor(r)] # "active")
                /\ aliased' = (aliased \/ (a.of = Actor(r) /\ ~a.exact))
                /\ pc'  = [pc EXCEPT ![r] = "idle"]
                /\ req' = [req EXCEPT ![r] = None]
                /\ entitled' = [q \in Requests |->
                     q # r /\ \/ entitled[q]
                              \/ pc[q] = "auth" /\ Actor(q) = a.of /\ a.set = "active"]
           ELSE End(r) /\ UNCHANGED <<status, overtaken, aliased>>
    /\ UNCHANGED <<row, access>>

\* A query throws, or the process dies.
Abort(r) ==
    /\ pc[r] # "idle"
    /\ End(r)
    /\ UNCHANGED <<row, access, status, overtaken, aliased>>

Next ==
    \/ Tick
    \/ \E s \in Sessions : Expire(s) \/ IssueTokens(s) \/ Logout(s)
    \/ \E r \in Requests :
          \/ \E s \in Sessions : RefreshFind(r, s) \/ Arrive(r, s)
          \/ RefreshSign(r) \/ RequireAuth(r) \/ GetMe(r) \/ UpdateUserStatus(r)
          \/ Abort(r)

Spec == Init /\ [][Next]_vars

-----------------------------------------------------------------------------
(* Properties.                                                             *)

TypeOK ==
    /\ row \in [Sessions -> {"none", "valid", "revoked", "expired"}]
    /\ access \in [Sessions -> 0 .. TTL]
    /\ status \in [Users -> Statuses]
    /\ pc \in [Requests -> {"idle", "refresh", "auth", "handle"}]
    /\ req \in [Requests -> [session : Sessions, ask : Asks] \cup {None}]
    /\ entitled \in [Requests -> BOOLEAN]
    /\ {overtaken, aliased} \subseteq BOOLEAN

\* A session that has ended, by logout or by age, is over within the life of one
\* access token: the only access token it can still get is that of a refresh
\* that had found its row before (authController.js:269-280).
EndedIsEnded ==
    \A s \in Sessions :
        /\ row[s] \in {"revoked", "expired"}
        /\ ~\E r \in Requests :
              pc[r] = "refresh" /\ req[r].session = s /\ entitled[r]
        => access'[s] <= access[s]

\* However long a token lives, no handler runs for a user who was not active at
\* any moment since the request arrived (authMiddleware.js:24-34).
SuspendedCannotAct ==
    \A r \in Requests : pc[r] = "handle" => entitled[r]

\* The last active admin is not suspended, though admins suspend each other at the
\* same time, but in two ways: by an admin that is itself suspended while it is
\* doing so, or by itself, through its own id spelt in another way than the check
\* compares with (adminController.js:72, against README.md:232).
SomeAdminIsLeft ==
    overtaken \/ aliased \/ \E a \in Admins : status[a] = "active"
=============================================================================
