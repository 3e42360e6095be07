----------------------------- MODULE ListPages -----------------------------
(***************************************************************************)
(* The pages that show a table and change its rows: Accounts.js,           *)
(* Beneficiaries.js, ScheduledTransfers.js, AdminAlerts.js, AdminUsers.js, *)
(* and Alerts.js, which only shows.  Each loads the table when it opens    *)
(* and after every change that was acknowledged; answers come in any order *)
(* or are lost, and others change the same rows.                           *)
(*                                                                         *)
(* A row is "on" (active, open, a nickname), "off" (cancelled, resolved,   *)
(* suspended, another nickname) or "absent".  "now" counts the changes of  *)
(* the table, so that an answer knows how old it is.                       *)
(***************************************************************************)
EXTENDS Integers

CONSTANTS
    Rows,          \* rows the table may have
    Searches,      \* what AdminUsers is asked for
    MaxRequests,   \* bound on requests of the page
    MaxNow         \* bound on changes of the table

ListAssumption ==
    "" \in Searches /\ MaxRequests \in Nat \ {0} /\ MaxNow \in Nat

VARIABLES
    page,          \* which of the pages is open
    table, now,    \* the rows as the server has them, and their age
    requests,      \* requests without an answer the page has seen
    sent,          \* requests sent so far
    shown,         \* the rows on display, their age and their search
    box,           \* AdminUsers: the text in the search form
    asked,         \* what the last load asked for
    loading,
    stuck,         \* a load threw where nobody caught it
    acked,         \* age of the newest change the page knows it has made
    failed,        \* the load answered last has failed
    hurried        \* the user did not wait for an answer

serverVars == <<table, now>>
viewVars   == <<shown, box, asked, loading, stuck, acked, failed>>
vars == <<page, serverVars, requests, sent, viewVars, hurried>>

PageNames == {"accounts", "beneficiaries", "scheduled", "alerts", "users", "mine"}

States == {"on", "off", "absent"}

\* "search" is what a list is asked for, or the text in the form when a change
\* was pressed: the handler goes on with the values of its render.
List(id, s) == [id |-> id, kind |-> "list", search |-> s, at |-> "sent",
                rows |-> [r \in Rows |-> "absent"], age |-> 0]

Change(id, op, r) == [id |-> id, kind |-> op, search |-> box, at |-> "sent",
                      row |-> r, age |-> 0]

IsList(q) == q.kind = "list"

Lists == {q \in requests : IsList(q)}

\* The first load of useEffect is on its way.
Init ==
    /\ page \in PageNames
    /\ table \in [Rows -> {"on", "absent"}] /\ now = 0
    /\ requests = {List(1, "")} /\ sent = 1
    /\ shown = [rows |-> [r \in Rows |-> "absent"], age |-> 0, search |-> ""]
    /\ box = "" /\ asked = ""
    /\ loading = TRUE /\ stuck = FALSE
    /\ acked = 0 /\ failed = FALSE
    /\ hurried = FALSE

-----------------------------------------------------------------------------
(* What the user can press.                                                *)

\* A bug: the page stays on display while it loads.
OffersTableAlways == TRUE

\* if (loading) return ...
OffersTable == ~loading

Send(op, r) ==
    /\ sent < MaxRequests
    /\ sent' = sent + 1
    /\ requests' = requests \cup {Change(sent', op, r)}
    /\ UNCHANGED <<page, serverVars, viewVars>>

SendChange(op, r) ==
    /\ OffersTable
    /\ hurried' = (hurried \/ requests # Lists)
    /\ Send(op, r)

IsShown(r, state) == shown.rows[r] = state

\* handleCreateAccount, handleOpenFd, handleSubmit: a new row.
Add(r) ==
    /\ page \in {"accounts", "scheduled"}
    /\ IsShown(r, "absent")
    /\ SendChange("add", r)

\* The form for a beneficiary stays on display while the table is loading.
HandleAdd(r) ==
    /\ page = "beneficiaries"
    /\ hurried' = (hurried \/ requests # {})
    /\ Send("add", r)

SaveNickname(r) ==
    /\ page = "accounts"
    /\ ~IsShown(r, "absent")
    /\ SendChange("toggle", r)

HandleRemove(r) ==
    /\ page = "beneficiaries"
    /\ ~IsShown(r, "absent")
    /\ SendChange("remove", r)

HandleCancel(r) ==
    /\ page = "scheduled"
    /\ IsShown(r, "on")
    /\ SendChange("off", r)

HandleResolve(r) ==
    /\ page = "alerts"
    /\ IsShown(r, "on")
    /\ SendChange("off", r)

HandleStatusChange(r) ==
    /\ page = "users"
    /\ \/ IsShown(r, "on")  /\ SendChange("off", r)
       \/ IsShown(r, "off") /\ SendChange("on", r)

\* The rest of "rest" stay in flight.
Load(rest, s) ==
    /\ sent < MaxRequests
    /\ sent' = sent + 1
    /\ requests' = rest \cup {List(sent', s)}
    /\ asked' = s
    /\ loading' = TRUE

Type(s) ==
    /\ page = "users"
    /\ box' = s
    /\ UNCHANGED <<page, serverVars, requests, sent, shown, asked, loading, stuck, acked, failed, hurried>>

\* The search form stays while the table is loading, the pagination does not.
HandleSearch ==
    /\ page = "users"
    /\ Load(requests, box)
    /\ hurried' = (hurried \/ requests # {})
    /\ UNCHANGED <<page, serverVars, shown, box, stuck, acked, failed>>

-----------------------------------------------------------------------------
(* The server.                                                             *)

Replace(q, p) == requests' = (requests \ {q}) \cup {p}

\* A bug: a removed row is kept, in a state of its own.
ResultSoft(op, state) == IF op = "remove" THEN "removed" ELSE op

\* The row a change makes of the one it finds; a second remove finds nothing.
Result(op, state) ==
    CASE op = "add"    -> "on"
      [] op = "remove" -> "absent"
      [] op = "toggle" -> IF state = "on" THEN "off" ELSE "on"
      [] OTHER         -> op

IsRefused(op, state) == <<op, state>> \in {<<"remove", "absent">>, <<"add", "on">>, <<"add", "off">>}

Apply(q) ==
    /\ ~IsList(q) /\ q.at = "sent"
    /\ ~IsRefused(q.kind, table[q.row])
    /\ now < MaxNow
    /\ now' = now + 1
    /\ table' = [table EXCEPT ![q.row] = Result(q.kind, @)]
    /\ Replace(q, [q EXCEPT !.at = "done", !.age = now'])
    /\ UNCHANGED <<page, sent, viewVars, hurried>>

Read(q) ==
    /\ IsList(q) /\ q.at = "sent"
    /\ Replace(q, [q EXCEPT !.at = "done", !.rows = table, !.age = now])
    /\ UNCHANGED <<page, serverVars, sent, viewVars, hurried>>

\* The worker, an alert, another administrator, another tab.
Others(r, state) ==
    /\ now < MaxNow
    /\ table[r] # state
    /\ now' = now + 1
    /\ table' = [table EXCEPT ![r] = state]
    /\ UNCHANGED <<page, requests, sent, viewVars, hurried>>

-----------------------------------------------------------------------------
(* The answers.                                                            *)

Show(q) ==
    /\ IsList(q) /\ q.at = "done"
    /\ requests' = requests \ {q}
    /\ shown' = [rows |-> q.rows, age |-> q.age, search |-> q.search]
    /\ loading' = FALSE
    /\ failed' = FALSE
    /\ UNCHANGED <<page, serverVars, sent, box, asked, stuck, acked, hurried>>

Newer(n) == IF n > acked THEN n ELSE acked

\* await api.patch, post or delete, then load: an older change may be answered last.
Acknowledge(q) ==
    /\ ~IsList(q) /\ q.at = "done"
    /\ Load(requests \ {q}, q.search)
    /\ acked' = Newer(q.age)
    /\ UNCHANGED <<page, serverVars, shown, box, stuck, failed, hurried>>

\* A refusal, an error, a lost answer: catch and setError.
ChangeFails(q) ==
    /\ ~IsList(q)
    /\ requests' = requests \ {q}
    /\ UNCHANGED <<page, serverVars, sent, viewVars, hurried>>

\* A bug: without finally.
EndsLoadingNever == FALSE

\* Alerts.js has no try: the page goes on loading.
EndsLoading == page # "mine"

LoadFails(q) ==
    /\ IsList(q)
    /\ requests' = requests \ {q}
    /\ loading' = (loading /\ ~EndsLoading)
    /\ stuck' = (stuck \/ page = "mine")
    /\ failed' = TRUE
    /\ UNCHANGED <<page, serverVars, sent, shown, box, asked, acked, hurried>>

Answer(q) == Show(q) \/ Acknowledge(q) \/ ChangeFails(q) \/ LoadFails(q)

Next ==
    \/ \E r \in Rows :
          \/ Add(r) \/ HandleAdd(r) \/ SaveNickname(r) \/ HandleRemove(r) \/ HandleCancel(r)
          \/ HandleResolve(r) \/ HandleStatusChange(r)
          \/ \E state \in States : Others(r, state)
    \/ HandleSearch \/ \E s \in Searches : Type(s)
    \/ \E q \in requests : Apply(q) \/ Read(q) \/ Answer(q)

Spec == Init /\ [][Next]_vars

-----------------------------------------------------------------------------
(* Properties.                                                             *)

TypeOK ==
    /\ page \in PageNames
    /\ table \in [Rows -> States] /\ now \in 0 .. MaxNow
    /\ shown \in [rows : [Rows -> States], age : 0 .. now, search : Searches]
    /\ {box, asked} \subseteq Searches
    /\ \A q \in requests : q.id \in 1 .. sent /\ q.age \in 0 .. now
    /\ acked \in 0 .. now
    /\ {loading, stuck, failed, hurried} \subseteq BOOLEAN

\* A page whose user waited for each change and did not search while a table
\* was coming shows, when all is answered, every change it knows it has made,
\* and what it asked for last, whoever else was writing: the table, hidden
\* while it loads, keeps loads from overtaking one another
\* (ScheduledTransfers.js:69, AdminUsers.js:61).
FreshUnlessHurried ==
    requests = {} /\ ~hurried /\ ~failed =>
        shown.age >= acked /\ shown.search = asked

\* "Loading..." is never left on display with nothing under way, but for
\* Alerts.js after an error (Alerts.js:17).
LoadingMeansLoading == loading => Lists # {} \/ stuck
=============================================================================
