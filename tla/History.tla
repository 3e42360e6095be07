------------------------------ MODULE History ------------------------------
(***************************************************************************)
(* Paging through rows that others insert: getTransactionHistory           *)
(* (accountController.js), listUsers and getAuditLogs (adminController.js),*)
(* each of which reads the rows of a page and the total by two queries at  *)
(* once, and the statement of an account, read by one query and downloaded *)
(* by Accounts.js with a fetch of its own.                                 *)
(*                                                                         *)
(* The rows are ordered by created_at, newest first; a row may become      *)
(* visible after younger ones, its created_at being that of its BEGIN.     *)
(***************************************************************************)
EXTENDS FiniteSets, FiniteSetsExt, Integers, Sequences, SequencesExt

CONSTANTS
    Initial,      \* rows at the start
    MaxInserts,   \* bound on rows inserted
    Lag,          \* how many younger rows may be visible before a row
    Limits,       \* limits asked for, None for none
    Default,      \* the default limit of an endpoint
    Highest,      \* its highest limit
    Cap,          \* rows of a statement
    None

HistoryAssumption ==
    /\ Initial \in Nat /\ MaxInserts \in Nat /\ Lag \in Nat
    /\ Limits \subseteq Int \cup {None}
    /\ Default \in 1 .. Highest /\ Highest \in Nat /\ Cap \in Nat

VARIABLES
    rows,         \* the rows, newest first, numbered as they come
    inserts,      \* rows inserted so far
    at,           \* where the reader is
    limit, page,  \* the page asked for
    got, total,   \* what the two queries have returned, None until then
    gap,          \* rows inserted between the two, the total being first
    base,         \* the rows when the reader opened page 1
    delivered,    \* the rows of all pages, as they were answered
    token, file   \* the access token, and the file downloaded last

pageVars == <<limit, page, got, total, gap, base, delivered>>
vars == <<rows, inserts, at, pageVars, token, file>>

Numbers == 1 .. Initial + MaxInserts

Init ==
    /\ rows = Reverse([i \in 1 .. Initial |-> i])
    /\ inserts = 0
    /\ at = "closed"
    /\ limit = Default /\ page = 1
    /\ got = None /\ total = None /\ gap = 0
    /\ base = {} /\ delivered = <<>>
    /\ token = "valid" /\ file = None

\* Somebody pays, registers, or does what is logged.
Insert(i) ==
    /\ inserts < MaxInserts
    /\ inserts' = inserts + 1
    /\ i <= Len(rows) + 1
    /\ rows' = InsertAt(rows, i, Initial + inserts')
    /\ gap' = gap + (IF total # None /\ got = None THEN 1 ELSE 0)
    /\ UNCHANGED <<at, limit, page, got, total, base, delivered, token, file>>

-----------------------------------------------------------------------------
(* The pages.                                                              *)

\* A bug: the limit has no bound.
LimitAsked(asked) == IF asked \in {None, 0} THEN Default ELSE asked

\* Math.min(parseInt(req.query.limit) || Default, Highest)
Limit(asked) ==
    LET n == IF asked \in {None, 0} THEN Default ELSE asked
    IN  IF n < Highest THEN n ELSE Highest

\* A bug: the offset is counted in pages.
OffsetInPages(p, l) == p - 1

Offset(p, l) == (p - 1) * l

\* ORDER BY created_at DESC LIMIT l OFFSET o
Select(l, o) == SubSeq(rows, o + 1, IF o + l < Len(rows) THEN o + l ELSE Len(rows))

\* A bug: the last page does not count when it is not full.
TotalPagesFull(t, l) == t \div l

TotalPages(t, l) == (t + l - 1) \div l

Ask(p) ==
    /\ at' = "asked"
    /\ page' = p
    /\ got' = None /\ total' = None /\ gap' = 0

Open(asked) ==
    /\ at = "closed"
    /\ Ask(1)
    /\ limit' = Limit(asked)
    /\ base' = ToSet(rows)
    /\ delivered' = <<>>
    /\ UNCHANGED <<rows, inserts, token, file>>

\* PostgreSQL takes no negative LIMIT: the request ends in an error.
QueryFails ==
    /\ at = "asked" /\ limit < 0
    /\ at' = "failed"
    /\ UNCHANGED <<rows, inserts, pageVars, token, file>>

ReadRows ==
    /\ at = "asked" /\ limit > 0 /\ got = None
    /\ got' = Select(limit, Offset(page, limit))
    /\ UNCHANGED <<rows, inserts, at, limit, page, total, gap, base, delivered, token, file>>

ReadTotal ==
    /\ at = "asked" /\ limit > 0 /\ total = None
    /\ total' = Len(rows)
    /\ UNCHANGED <<rows, inserts, at, limit, page, got, gap, base, delivered, token, file>>

\* Promise.all has both: the reader goes on to the next page, if there is one.
Answer ==
    /\ at = "asked" /\ got # None /\ total # None
    /\ delivered' = delivered \o got
    /\ IF page < TotalPages(total, limit)
       THEN Ask(page + 1)
       ELSE at' = "read" /\ UNCHANGED <<page, got, total, gap>>
    /\ UNCHANGED <<rows, inserts, limit, base, token, file>>

-----------------------------------------------------------------------------
(* The statement.                                                          *)

Expire ==
    /\ token' = "expired"
    /\ UNCHANGED <<rows, inserts, at, pageVars, file>>

\* fetch, without the interceptor of api.js: a 401 is a body like any other.
DownloadStatement ==
    /\ file' = IF token = "valid" THEN Select(Cap, 0) ELSE "Not authenticated"
    /\ UNCHANGED <<rows, inserts, at, pageVars, token>>

Next ==
    \/ \E i \in 1 .. Lag + 1 : Insert(i)
    \/ \E asked \in Limits : Open(asked)
    \/ QueryFails \/ ReadRows \/ ReadTotal \/ Answer
    \/ Expire \/ DownloadStatement

Spec == Init /\ [][Next]_vars

-----------------------------------------------------------------------------
(* Properties.                                                             *)

TypeOK ==
    /\ ToSet(rows) = 1 .. Initial + inserts
    /\ at \in {"closed", "asked", "read", "failed"}
    /\ limit \in Int /\ limit <= Highest /\ page \in Nat \ {0}
    /\ got # None => got \in Seq(Numbers) /\ Len(got) <= limit
    /\ total # None => total \in 0 .. Initial + inserts
    /\ delivered \in Seq(Numbers)
    /\ base \subseteq Numbers

\* Who reads on to the last page misses, of the rows there were at the start, at
\* most as many as were inserted between the total and the rows of the page
\* that said it was the last (accountController.js:66).
MissedExplained ==
    at = "read" => Cardinality(base \ ToSet(delivered)) <= gap

\* A row is delivered again only because a new one has pushed it down, once for
\* each that was inserted since the reader opened the first page.
RepeatsExplained ==
    Len(delivered) - Cardinality(ToSet(delivered)) <= Len(rows) - Cardinality(base)
=============================================================================
