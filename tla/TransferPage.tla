--------------------------- MODULE TransferPage ---------------------------
(***************************************************************************)
(* The transfer form (pages/Transfer.js) and the saved beneficiaries       *)
(* behind it (controllers/beneficiaryController.js).  The form stays open  *)
(* to the user while a transfer is under way: the handler goes on with the *)
(* form it was called with, the page with the one on display.  Requests    *)
(* are answered in any order, with an error, or not at all.                *)
(***************************************************************************)
EXTENDS FiniteSets, Integers

CONSTANTS
    Accounts,      \* account numbers a user may type
    Own,           \* the user's own accounts
    Unknown,       \* numbers no account has
    Nicks,         \* nicknames
    MaxSubmits,    \* bound on transfers
    MaxSaves,      \* bound on requests to save a beneficiary
    None

PageAssumption ==
    /\ Own \subseteq Accounts /\ Unknown \subseteq Accounts /\ Own \cap Unknown = {}
    /\ None \notin Accounts \cup Nicks
    /\ MaxSubmits \in Nat /\ MaxSaves \in Nat

VARIABLES
    form,          \* recipient, nickname and the checkbox, as displayed
    picks,         \* the quick picks, loaded once
    loading,
    request,       \* the transfer under way, with its form
    submits,       \* transfers sent
    paid,          \* the forms that were paid
    saves,         \* POST /beneficiaries under way
    saved,         \* how many were sent
    beneficiaries  \* the rows, with where they came from

pageVars == <<form, picks, loading>>
vars == <<pageVars, request, submits, paid, saves, saved, beneficiaries>>

Forms == [to : Accounts \cup {None}, nick : Nicks \cup {None}, save : BOOLEAN]

Empty == [to |-> None, nick |-> None, save |-> FALSE]

Init ==
    /\ form = Empty
    /\ picks = {}
    /\ loading = FALSE
    /\ request = [at |-> "none", form |-> Empty]
    /\ submits = 0
    /\ paid = {}
    /\ saves = {} /\ saved = 0
    /\ beneficiaries = {}

-----------------------------------------------------------------------------
(* The page.                                                               *)

\* useEffect: the list as it is now, once, whenever it comes.
LoadPicks ==
    /\ picks = {}
    /\ picks' = {b.to : b \in beneficiaries}
    /\ UNCHANGED <<form, loading, request, submits, paid, saves, saved, beneficiaries>>

Edit(f) ==
    /\ form' = f
    /\ UNCHANGED <<picks, loading, request, submits, paid, saves, saved, beneficiaries>>

HandleChange ==
    \/ \E to \in Accounts : Edit([form EXCEPT !.to = to])
    \/ \E nick \in Nicks : form.save /\ Edit([form EXCEPT !.nick = nick])
    \/ Edit([form EXCEPT !.save = ~@])

HandleSelectBeneficiary == \E to \in picks : Edit([form EXCEPT !.to = to])

\* The fields the browser requires, and the button that is not disabled.
MaySubmit ==
    /\ ~loading
    /\ form.to # None
    /\ form.save => form.nick # None

HandleSubmit ==
    /\ MaySubmit
    /\ submits < MaxSubmits
    /\ submits' = submits + 1
    /\ loading' = TRUE
    /\ request' = [at |-> "sent", form |-> form]
    /\ UNCHANGED <<form, picks, paid, saves, saved, beneficiaries>>

\* POST /transfers, which may refuse.
Execute ==
    /\ request.at = "sent"
    /\ request.form.to \notin Unknown
    /\ request' = [request EXCEPT !.at = "done"]
    /\ paid' = paid \cup {request.form}
    /\ UNCHANGED <<pageVars, submits, saves, saved, beneficiaries>>

\* A bug: the handler looks at the form on display.
ClosureOnDisplay == form

Closure == request.form

Save(f) == [to |-> f.to, nick |-> f.nick, at |-> "sent", by |-> "transfer"]

\* The transfer went through: the recipient is saved on the side, the form of
\* the call is emptied, and what was typed meanwhile is gone.
Succeed ==
    /\ request.at = "done"
    /\ IF Closure.save /\ Closure.nick # None
       THEN /\ saved < MaxSaves
            /\ saved' = saved + 1
            /\ saves' = saves \cup {Save(Closure)}
       ELSE UNCHANGED <<saves, saved>>
    /\ form' = Empty
    /\ loading' = FALSE
    /\ request' = [at |-> "none", form |-> Empty]
    /\ UNCHANGED <<picks, submits, paid, beneficiaries>>

\* A refusal, an error or a lost answer, whether paid or not.
Fail ==
    /\ request.at # "none"
    /\ loading' = FALSE
    /\ request' = [at |-> "none", form |-> Empty]
    /\ UNCHANGED <<form, picks, submits, paid, saves, saved, beneficiaries>>

-----------------------------------------------------------------------------
(* The beneficiaries.                                                      *)

\* Beneficiaries.js, in another tab.
HandleAdd(to, nick) ==
    /\ saved < MaxSaves
    /\ saved' = saved + 1
    /\ saves' = saves \cup {[to |-> to, nick |-> nick, at |-> "sent", by |-> "page"]}
    /\ UNCHANGED <<pageVars, request, submits, paid, beneficiaries>>

\* A bug: anybody's account will do.
MayBeSavedAny(to) == to \notin Unknown

MayBeSaved(to) == to \notin Unknown \cup Own

Refuse(q) ==
    /\ saves' = saves \ {q}
    /\ UNCHANGED <<pageVars, request, submits, paid, saved, beneficiaries>>

Lookup(q) ==
    /\ q.at = "sent"
    /\ MayBeSaved(q.to)
    /\ saves' = (saves \ {q}) \cup {[q EXCEPT !.at = "found"]}
    /\ UNCHANGED <<pageVars, request, submits, paid, saved, beneficiaries>>

\* A bug: the table has no UNIQUE.
IsNewAlways(to) == TRUE

\* UNIQUE (user_id, account_number): the later of two is answered 409.
IsNew(to) == \A b \in beneficiaries : b.to # to

Create(q) ==
    /\ q.at = "found"
    /\ IsNew(q.to)
    /\ saves' = saves \ {q}
    /\ beneficiaries' = beneficiaries \cup {[to |-> q.to, nick |-> q.nick, by |-> q.by]}
    /\ UNCHANGED <<pageVars, request, submits, paid, saved>>

Remove(b) ==
    /\ beneficiaries' = beneficiaries \ {b}
    /\ UNCHANGED <<pageVars, request, submits, paid, saves, saved>>

Next ==
    \/ LoadPicks \/ HandleChange \/ HandleSelectBeneficiary \/ HandleSubmit
    \/ Execute \/ Succeed \/ Fail
    \/ \E to \in Accounts, nick \in Nicks : HandleAdd(to, nick)
    \/ \E q \in saves : Refuse(q) \/ Lookup(q) \/ Create(q)
    \/ \E b \in beneficiaries : Remove(b)

Spec == Init /\ [][Next]_vars

-----------------------------------------------------------------------------
(* Properties.                                                             *)

TypeOK ==
    /\ form \in Forms
    /\ picks \subseteq Accounts \ (Own \cup Unknown)
    /\ loading \in BOOLEAN /\ (loading <=> request.at # "none")
    /\ request \in [at : {"none", "sent", "done"}, form : Forms]
    /\ paid \subseteq Forms /\ Cardinality(paid) <= submits
    /\ Cardinality(saves) <= saved

\* What the transfer form saves is a recipient that was paid, under the
\* nickname given with that payment, whatever was typed while it was under way
\* (Transfer.js:48).
SavedWasPaid ==
    \A b \in beneficiaries :
        b.by = "transfer" => [to |-> b.to, nick |-> b.nick, save |-> TRUE] \in paid

\* Of several requests that looked the account up together one saves it
\* (beneficiaryController.js:17, schema.sql:166).
SavedOnce ==
    \A b, c \in beneficiaries : b.to = c.to => b = c
=============================================================================
