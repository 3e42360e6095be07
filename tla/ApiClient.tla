----------------------------- MODULE ApiClient -----------------------------
(***************************************************************************)
(* The browser's side of a session: the axios interceptors of              *)
(* services/api.js, which answer a 401 with one refresh for all the        *)
(* requests that meet it and send them again, and context/AuthContext.js,  *)
(* which loads the user at the start and logs out.  A session here is one  *)
(* page, until it is unloaded; the refresh cookie is the server's side.    *)
(*                                                                         *)
(* Access tokens are numbered as they are signed; those up to "expired"    *)
(* have run out.  Some requests are answered 401 whatever token they carry *)
(* (a wrong current password, a wrong code).                               *)
(***************************************************************************)
EXTENDS FiniteSets, Integers

CONSTANTS
    Requests,      \* calls of the page, each made once
    Me,            \* loadUser's GET /auth/me, one of them
    Hopeless,      \* those answered 401 in any case
    MaxTokens      \* bound on tokens signed

ApiClientAssumption ==
    /\ IsFiniteSet(Requests)
    /\ Me \in Requests /\ Hopeless \subseteq Requests
    /\ MaxTokens \in Nat \ {0}

VARIABLES
    signed, expired,  \* the newest token, and the newest that has run out
    cookie,           \* the refresh token's row: "valid" or "revoked"
    stored,           \* localStorage.accessToken, 0 for none
    call,             \* where a request is
    with,             \* the token it was sent with
    retry,            \* its _retry mark
    sends,            \* how often it was sent
    isRefreshing, queue,
    refresh,          \* the refresh under way, as the server knows it
    user,             \* AuthContext: "loading", "in" or "none"
    out,              \* where logout is
    crossed,          \* an answered refresh was under way at the revocation
    page              \* "open", "leaving" or "gone"

tokenVars == <<signed, expired, cookie>>
callVars  == <<call, with, retry, sends>>
refreshVars == <<isRefreshing, queue, refresh>>
userVars  == <<user, out, crossed>>
vars == <<tokenVars, stored, callVars, refreshVars, userVars, page>>

\* A page opened with a token that may have run out.
Init ==
    /\ signed = 1 /\ expired \in {0, 1}
    /\ cookie = "valid"
    /\ stored = 1
    /\ call  = [r \in Requests |-> "idle"]
    /\ with  = [r \in Requests |-> 0]
    /\ retry = [r \in Requests |-> FALSE]
    /\ sends = [r \in Requests |-> 0]
    /\ isRefreshing = FALSE /\ queue = {} /\ refresh = "none"
    /\ user = "loading" /\ out = "no" /\ crossed = FALSE
    /\ page = "open"

Leader(r) == call[r] = "refreshing"

-----------------------------------------------------------------------------
(* The server and the network.                                             *)

Expire ==
    /\ expired < signed
    /\ expired' = signed
    /\ UNCHANGED <<signed, cookie, stored, callVars, refreshVars, userVars, page>>

\* A bug: the server refreshes a session that was logged out.
MayRefreshAlways == TRUE

MayRefresh == cookie = "valid"

\* POST /auth/refresh is answered, or never arrives.
ServeRefresh ==
    /\ refresh = "asked"
    /\ \/ /\ MayRefresh /\ signed < MaxTokens
          /\ signed' = signed + 1
          /\ refresh' = "granted"
       \/ refresh' = "denied" /\ UNCHANGED signed
    /\ UNCHANGED <<expired, cookie, stored, callVars, isRefreshing, queue, userVars, page>>

ServeLogout ==
    /\ out = "asked"
    /\ cookie' = "revoked"
    /\ crossed' = (refresh = "granted")
    /\ out' = "answered"
    /\ UNCHANGED <<signed, expired, stored, callVars, refreshVars, user, page>>

\* What the answer to a request is.
IsUnauthorised(r) == r \in Hopeless \/ with[r] <= expired

-----------------------------------------------------------------------------
(* Requests.                                                               *)

\* The request interceptor: the stored token, or else what was there.
Send(rs, header) ==
    /\ call'  = [r \in Requests |-> IF r \in rs THEN "sent" ELSE call[r]]
    /\ with'  = [r \in Requests |-> IF r \in rs THEN header ELSE with[r]]
    /\ sends' = [r \in Requests |-> IF r \in rs THEN sends[r] + 1 ELSE sends[r]]

\* loadUser needs a token, the pages behind ProtectedRoute a user.
Call(r) ==
    /\ page = "open" /\ call[r] = "idle"
    /\ IF r = Me THEN stored # 0 ELSE user = "in"
    /\ Send({r}, stored)
    /\ UNCHANGED <<tokenVars, stored, retry, refreshVars, userVars, page>>

\* A bug: the answer is taken for the user.
UserOfAnswer(result) == result

UserOf(result) == IF result = "ok" THEN "in" ELSE "none"

\* loadUser: whatever the error was, the token goes and the user stays out.
Settle(r, result) ==
    /\ call' = [call EXCEPT ![r] = result]
    /\ IF r = Me
       THEN /\ user' = UserOf(result)
            /\ stored' = IF result = "ok" THEN stored ELSE 0
       ELSE UNCHANGED <<user, stored>>

Answered(r) ==
    /\ page # "gone" /\ call[r] = "sent"
    /\ ~IsUnauthorised(r)
    /\ \E result \in {"ok", "failed"} : Settle(r, result)
    /\ UNCHANGED <<tokenVars, with, retry, sends, refreshVars, out, crossed, page>>

\* A bug: every request refreshes for itself.
MustWaitNever == FALSE

MustWait == isRefreshing

Queue(r) ==
    /\ MustWait
    /\ call' = [call EXCEPT ![r] = "queued"]
    /\ queue' = queue \cup {r}
    /\ UNCHANGED <<stored, retry, isRefreshing, refresh, user>>

\* A bug: the mark is forgotten.
MarkForgotten(r) == retry

Mark(r) == [retry EXCEPT ![r] = TRUE]

StartRefresh(r) ==
    /\ ~MustWait
    /\ call' = [call EXCEPT ![r] = "refreshing"]
    /\ retry' = Mark(r)
    /\ isRefreshing' = TRUE
    /\ refresh' = "asked"
    /\ UNCHANGED <<stored, queue, user>>

GiveUp(r) ==
    /\ Settle(r, "failed")
    /\ UNCHANGED <<retry, refreshVars>>

\* A 401.
Unauthorised(r) ==
    /\ page # "gone" /\ call[r] = "sent"
    /\ IsUnauthorised(r)
    /\ IF retry[r] THEN GiveUp(r) ELSE Queue(r) \/ StartRefresh(r)
    /\ UNCHANGED <<tokenVars, with, sends, out, crossed, page>>

\* A bug: the queue is emptied without sending anyone on.
ServedLeaderOnly(r) == {r}

Served(r) == queue \cup {r}

\* The refresh came back: the token is stored, the queue and the leader go on.
Refreshed(r) ==
    /\ page # "gone" /\ Leader(r)
    /\ refresh = "granted"
    /\ stored' = signed
    /\ Send(Served(r), signed)
    /\ queue' = {} /\ isRefreshing' = FALSE /\ refresh' = "none"
    /\ UNCHANGED <<tokenVars, retry, userVars, page>>

\* It did not: all of them fail, and the browser goes to the login page.
RefreshFailed(r) ==
    /\ page # "gone" /\ Leader(r)
    /\ refresh = "denied"
    /\ call' = [q \in Requests |-> IF q \in Served(r) THEN "failed" ELSE call[q]]
    /\ stored' = 0
    /\ user' = IF Me \in Served(r) THEN "none" ELSE user
    /\ queue' = {} /\ isRefreshing' = FALSE /\ refresh' = "none"
    /\ page' = "leaving"
    /\ UNCHANGED <<tokenVars, with, retry, sends, out, crossed>>

\* window.location.href takes effect: what still waits is never heard of again.
Unload ==
    /\ page = "leaving"
    /\ page' = "gone"
    /\ UNCHANGED <<tokenVars, stored, callVars, refreshVars, userVars>>

-----------------------------------------------------------------------------
(* Logging out.  The route needs no token, so that this call is never 401.  *)

Logout ==
    /\ page = "open" /\ user = "in" /\ out = "no"
    /\ out' = "asked"
    /\ UNCHANGED <<tokenVars, stored, callVars, refreshVars, user, crossed, page>>

\* A failure is ignored: the request may not have arrived.
LoggedOut ==
    /\ page # "gone" /\ out \in {"asked", "answered"}
    /\ out' = "done"
    /\ stored' = 0
    /\ user' = "none"
    /\ UNCHANGED <<tokenVars, callVars, refreshVars, crossed, page>>

Respond(r) == Answered(r) \/ Unauthorised(r) \/ Refreshed(r) \/ RefreshFailed(r)

Next ==
    \/ Expire \/ ServeRefresh \/ ServeLogout \/ Unload \/ Logout \/ LoggedOut
    \/ \E r \in Requests : Call(r) \/ Respond(r)

Spec == Init /\ [][Next]_vars

-----------------------------------------------------------------------------
(* Properties.                                                             *)

TypeOK ==
    /\ {signed, expired, stored} \subseteq 0 .. MaxTokens
    /\ cookie \in {"valid", "revoked"}
    /\ call \in [Requests -> {"idle", "sent", "queued", "refreshing", "ok", "failed"}]
    /\ with \in [Requests -> 0 .. MaxTokens]
    /\ retry \in [Requests -> BOOLEAN]
    /\ sends \in [Requests -> Nat]
    /\ isRefreshing \in BOOLEAN
    /\ queue \subseteq {r \in Requests : call[r] = "queued"}
    /\ refresh \in {"none", "asked", "granted", "denied"}
    /\ user \in {"loading", "in", "none"}
    /\ out \in {"no", "asked", "answered", "done"}
    /\ crossed \in BOOLEAN
    /\ page \in {"open", "leaving", "gone"}

\* Who waits, waits for a refresh that one request is waiting for in turn: no
\* request is left in a queue nobody empties (api.js:29-61).
WaitingIsServed ==
    /\ \A r \in Requests : call[r] = "queued" => r \in queue
    /\ isRefreshing <=> \E r \in Requests : Leader(r)
    /\ queue # {} => isRefreshing
    /\ \A q, r \in Requests : Leader(q) /\ Leader(r) => q = r

\* A request that is answered 401 for ever is not sent for ever: each sending
\* after the first follows a refresh led by another request, or by itself once.
SendsBounded == \A r \in Requests : sends[r] <= Cardinality(Requests) + 1

\* Who has logged out has no token left, unless a refresh the server had granted
\* came in after the logout (AuthContext.js:35-43, api.js:48).
LoggedOutIsOut ==
    out = "done" /\ cookie = "revoked" /\ ~crossed => stored = 0
=============================================================================
