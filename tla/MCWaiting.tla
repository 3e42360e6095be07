----------------------------- MODULE MCWaiting -----------------------------
(***************************************************************************)
(* TwoFactor, ApiClient, ListPages and Login in one instance with the      *)
(* fairness of each: whether all who wait are served.                      *)
(*                                                                         *)
(* They share no state, so that a property of one holds of all together if *)
(* it holds of that one with the rest standing still.  Hence part: one of  *)
(* them runs, the variables of the others are Off, and fairness is asked   *)
(* of the one that runs.  A variable two of them have (pc, faults, page)   *)
(* belongs to it.                                                          *)
(***************************************************************************)
EXTENDS Integers

CONSTANTS
    None, MaxFaults,
    Callers, Owner, MaxAttempts, Lockout, MaxCount,         \* Login
    Secrets, Tabs, Clicks, Logins, Verifiers, MaxTabFaults, \* TwoFactor
    Requests, Me, Hopeless, MaxTokens,                      \* ApiClient
    Rows, Searches, MaxRequests, MaxNow                     \* ListPages

VARIABLES
    part, pc, faults, page,
    failedCount, locked, badRows, otherRows, alertAge, sinceLock,  \* Login
    enabled, secret, generated, confirmed, app, view, qr, click, blind,
    challenge, accepted, of,                                        \* TwoFactor
    signed, expired, cookie, stored, call, with, retry, sends,
    isRefreshing, queue, refresh, user, out, crossed,               \* ApiClient
    table, now, requests, sent, shown, box, asked, loading, stuck,
    acked, failed, hurried                                          \* ListPages

L == INSTANCE Login
T == INSTANCE TwoFactor WITH MaxFaults <- MaxTabFaults
A == INSTANCE ApiClient
G == INSTANCE ListPages

ASSUME WaitingAssumption ==
    /\ L!LoginAssumption /\ T!TwoFactorAssumption
    /\ A!ApiClientAssumption /\ G!ListAssumption

loginVars  == <<failedCount, locked, badRows, otherRows, alertAge, sinceLock>>
factorVars == <<enabled, secret, generated, confirmed, app, view, qr, click, blind,
                challenge, accepted, of>>
clientVars == <<signed, expired, cookie, stored, call, with, retry, sends, isRefreshing,
                queue, refresh, user, out, crossed>>
listVars   == <<table, now, requests, sent, shown, box, asked, loading, stuck, acked,
                failed, hurried>>
vars == <<part, pc, faults, page, loginVars, factorVars, clientVars, listVars>>

Off == "off"

LoginOff ==
    /\ failedCount = Off /\ locked = Off /\ badRows = Off /\ otherRows = Off
    /\ alertAge = Off /\ sinceLock = Off
FactorOff ==
    /\ enabled = Off /\ secret = Off /\ generated = Off /\ confirmed = Off
    /\ app = Off /\ view = Off /\ qr = Off /\ click = Off /\ blind = Off
    /\ challenge = Off /\ accepted = Off /\ of = Off
ClientOff ==
    /\ signed = Off /\ expired = Off /\ cookie = Off /\ stored = Off /\ call = Off
    /\ with = Off /\ retry = Off /\ sends = Off /\ isRefreshing = Off
    /\ queue = Off /\ refresh = Off /\ user = Off /\ out = Off /\ crossed = Off
ListOff ==
    /\ table = Off /\ now = Off /\ requests = Off /\ sent = Off /\ shown = Off
    /\ box = Off /\ asked = Off /\ loading = Off /\ stuck = Off /\ acked = Off
    /\ failed = Off /\ hurried = Off

Init ==
    \/ part = "login" /\ L!Init /\ page = Off /\ FactorOff /\ ClientOff /\ ListOff
    \/ part = "factor" /\ T!Init /\ page = Off /\ LoginOff /\ ClientOff /\ ListOff
    \/ /\ part = "client" /\ A!Init /\ pc = Off /\ faults = Off
       /\ LoginOff /\ FactorOff /\ ListOff
    \/ /\ part = "list" /\ G!Init /\ pc = Off /\ faults = Off
       /\ LoginOff /\ FactorOff /\ ClientOff

LoginNext ==
    /\ part = "login" /\ L!Next
    /\ UNCHANGED <<part, page, factorVars, clientVars, listVars>>

FactorNext ==
    /\ part = "factor" /\ T!Next
    /\ UNCHANGED <<part, page, loginVars, clientVars, listVars>>

ClientNext ==
    /\ part = "client" /\ A!Next
    /\ UNCHANGED <<part, pc, faults, loginVars, factorVars, listVars>>

ListNext ==
    /\ part = "list" /\ G!Next
    /\ UNCHANGED <<part, pc, faults, loginVars, factorVars, clientVars>>

Next == LoginNext \/ FactorNext \/ ClientNext \/ ListNext

Spec == Init /\ [][Next]_vars

loginState  == <<pc, faults, loginVars>>
factorState == <<pc, faults, factorVars>>
clientState == <<page, clientVars>>
listState   == <<page, listVars>>

\* Time passes, the event loop serves every request, and the owner does not give
\* up.
LoginFairness ==
    /\ WF_loginState(part = "login" /\ L!Tick)
    /\ WF_loginState(part = "login" /\ L!FindByEmail(Owner))
    /\ \A c \in Callers : WF_loginState(part = "login" /\ L!Proceed(c))

\* The server answers, and a browser that has not got in goes on trying.
FactorFairness ==
    /\ \A l \in Logins :
          /\ WF_factorState(part = "factor" /\ T!Challenge(l))
          /\ WF_factorState(part = "factor" /\ challenge[l] = "open"
                       /\ \E v \in Verifiers : T!Verify(v, l))
    /\ \A v \in Verifiers : WF_factorState(part = "factor" /\ (T!Accept(v) \/ T!Reject(v)))

\* The network and the event loop: what was asked is answered in the end, and the
\* page loads its user.
ClientFairness ==
    /\ WF_clientState(part = "client" /\ A!ServeRefresh)
    /\ WF_clientState(part = "client" /\ A!LoggedOut)
    /\ WF_clientState(part = "client" /\ A!Call(Me))
    /\ \A r \in Requests : WF_clientState(part = "client" /\ A!Respond(r))

\* Every request is answered in the end, if only with an error.
ListFairness ==
    \A i \in 1 .. MaxRequests :
        WF_listState(part = "list" /\ \E q \in requests : q.id = i /\ G!Answer(q))

\* Each part under its own fairness; a part that is Off owes nothing.
FairSpec ==
    Spec /\ LoginFairness /\ FactorFairness /\ ClientFairness /\ ListFairness

-----------------------------------------------------------------------------
(* Properties: those of the parts, one here for what belongs together.     *)

\* The type of each part's state.
TypeOK ==
    /\ part = "login"  => L!TypeOK
    /\ part = "factor" => T!TypeOK
    /\ part = "client" => A!TypeOK
    /\ part = "list"   => G!TypeOK

\* The secret a login is held to is one a code was verified of, unless the user
\* pressed a button of the Security page with a request under way, or to set up what
\* the page did not know to be on; and a challenge lets in no more requests than had
\* looked it up together (authController.js:136-185).
SecondFactorHolds ==
    part = "factor" => T!EnabledIsConfirmed /\ T!AcceptedOncePerRequest

\* No request is left in a queue nobody empties, one that is answered 401 for ever
\* is not sent for ever, and who has logged out has no token left but for a refresh
\* that was granted before (api.js:29-61, AuthContext.js:35-43).
ClientHolds ==
    part = "client" => A!WaitingIsServed /\ A!SendsBounded /\ A!LoggedOutIsOut

\* A page whose user waited for each change shows, when all is answered, every
\* change it knows it has made, and "Loading..." only over a request under way, or
\* after an error on Alerts.js (ScheduledTransfers.js:69, AdminUsers.js:61,
\* Alerts.js:17).
ListIsFresh ==
    part = "list" => G!FreshUnlessHurried /\ G!LoadingMeansLoading

\* Once the wrong passwords end, the owner gets in; and a user with the second
\* factor on can log in, whatever expires or dies with the server, unless it pressed
\* a button of the Security page blindly and lost the secret the row holds
\* (authController.js:21, 74).
UserGetsIn ==
    /\ []<>(part = "login" => pc[Owner] = "in")
    /\ \A l \in Logins :
          part = "factor" /\ T!CanLogIn
              ~> (part = "factor" => challenge[l] = "in" \/ ~T!CanLogIn)

\* Every call of the page ends, or the page goes (api.js:19-61); and a page comes
\* back from loading, if only with an error (Alerts.js:11).
PageSettles ==
    /\ \A r \in Requests :
          part = "client" /\ call[r] \notin {"idle", "ok", "failed"}
              ~> (part = "client" => call[r] \in {"ok", "failed"} \/ page # "open")
    /\ part = "list" /\ loading ~> (part = "list" => ~loading \/ stuck)
=============================================================================
