----------------------------- MODULE Onboarding -----------------------------
(***************************************************************************)
(* How users come to exist: exports.register of authController.js, the     *)
(* seed script (config/seed.js) and exports.createAccount, all over        *)
(* AccountModel.createForUser.  A user and the user's first account are    *)
(* written by two statements and no transaction.                           *)
(*                                                                         *)
(* A worker is a request or a run of the script, with the e-mails it is    *)
(* for: one for a request, the demo users for the script.                  *)
(***************************************************************************)
EXTENDS FiniteSets, Integers

CONSTANTS
    Emails,
    Registrations, Seeds, Openings,  \* workers, by kind
    EmailsOf,        \* what each of them is for
    MaxAttempts,     \* attempts of createForUser to find a free number
    MaxDisturbances, \* bound on failed queries, collisions and deaths
    None

Workers == Registrations \cup Seeds \cup Openings

OnboardingAssumption ==
    /\ EmailsOf \in [Workers -> SUBSET Emails]
    /\ Registrations \cap (Seeds \cup Openings) = {} /\ Seeds \cap Openings = {}
    /\ \A w \in Registrations : \A d, e \in EmailsOf[w] : d = e
    /\ None \notin Workers \cup Emails \cup {"done", "taken", "error"}
    /\ MaxAttempts \in Nat \ {0} /\ MaxDisturbances \in Nat

VARIABLES
    users,      \* the worker that inserted the user of an e-mail
    accounts,   \* how many accounts a worker has inserted for an e-mail
    funded,     \* demo users with their opening balance
    pc, left,   \* where a worker is, and the e-mails it has still to do
    at,         \* the e-mail it is at
    attempts,   \* collisions of account numbers it has met for it
    result,     \* what it told in the end
    disturbances

vars == <<users, accounts, funded, pc, left, at, attempts, result, disturbances>>

Init ==
    /\ users    = [e \in Emails |-> None]
    /\ accounts = [e \in Emails |-> [w \in Workers |-> 0]]
    /\ funded   = {}
    /\ pc   = [w \in Workers |-> "start"]
    /\ left = EmailsOf
    /\ at   = [w \in Workers |-> None]
    /\ attempts = [w \in Workers |-> 0]
    /\ result = [w \in Workers |-> None]
    /\ disturbances = 0

Disturb ==
    /\ disturbances < MaxDisturbances
    /\ disturbances' = disturbances + 1

Goto(w, here, there) == pc[w] = here /\ pc' = [pc EXCEPT ![w] = there]

Tell(w, answer) == result' = [result EXCEPT ![w] = answer]

-----------------------------------------------------------------------------

\* The next e-mail.  An account is opened by a user there is already.
Start(w) ==
    /\ \E e \in left[w] :
          /\ w \in Openings => users[e] # None
          /\ at' = [at EXCEPT ![w] = e]
          /\ left' = [left EXCEPT ![w] = @ \ {e}]
    /\ Goto(w, "start", IF w \in Openings THEN "account" ELSE "find")
    /\ attempts' = [attempts EXCEPT ![w] = 0]
    /\ UNCHANGED <<users, accounts, funded, result, disturbances>>

\* A request is over, the script goes on with the next user.
Continue(w, here, answer) ==
    IF left[w] = {}
    THEN Goto(w, here, "end") /\ Tell(w, answer)
    ELSE Goto(w, here, "start") /\ UNCHANGED result

\* findByEmail: 409, or the script's "Skipping".
Taken(w) ==
    /\ pc[w] = "find" /\ users[at[w]] # None
    /\ Continue(w, "find", IF w \in Seeds THEN "done" ELSE "taken")
    /\ UNCHANGED <<users, accounts, funded, left, at, attempts, disturbances>>

Free(w) ==
    /\ Goto(w, "find", "insert")
    /\ users[at[w]] = None
    /\ UNCHANGED <<users, accounts, funded, left, at, attempts, result, disturbances>>

\* A bug: an insert that meets an e-mail taken meanwhile is taken for done.
IsInsertedAnyway(w) == TRUE

IsInserted(w) == users[at[w]] = None

\* A bug: the script funds an account nobody has made.
AfterUserFund(w) == IF w \in Seeds THEN "fund" ELSE "account"

AfterUser(w) == "account"

InsertUser(w) ==
    /\ Goto(w, "insert", AfterUser(w))
    /\ IsInserted(w)
    /\ users' = [users EXCEPT ![at[w]] = w]
    /\ UNCHANGED <<accounts, funded, left, at, attempts, result, disturbances>>

\* users_email_key: 500, and the end of the script.
InsertUserViolates(w) ==
    /\ Goto(w, "insert", "end")
    /\ ~IsInserted(w)
    /\ Tell(w, "error")
    /\ UNCHANGED <<users, accounts, funded, left, at, attempts, disturbances>>

\* A bug: the script forgets the opening balance.
IsFundedLaterNever(w) == FALSE

IsFundedLater(w) == w \in Seeds

AddAccount(w) == accounts' = [accounts EXCEPT ![at[w]][w] = @ + 1]

InsertAccount(w) ==
    /\ pc[w] = "account"
    /\ AddAccount(w)
    /\ IF IsFundedLater(w)
       THEN Goto(w, "account", "fund") /\ UNCHANGED result
       ELSE Continue(w, "account", "done")
    /\ UNCHANGED <<users, funded, left, at, attempts, disturbances>>

\* A bug: one attempt too many.
TriesAgainLate(n) == n <= MaxAttempts

TriesAgain(n) == n < MaxAttempts

\* accounts_account_number_key: again, with another number, five times.
NumberCollides(w) ==
    /\ Disturb
    /\ attempts' = [attempts EXCEPT ![w] = @ + 1]
    /\ IF TriesAgain(attempts'[w])
       THEN Goto(w, "account", "account") /\ UNCHANGED result
       ELSE Goto(w, "account", "end") /\ Tell(w, "error")
    /\ UNCHANGED <<users, accounts, funded, left, at>>

\* The script's opening balance.
Fund(w) ==
    /\ pc[w] = "fund"
    /\ funded' = funded \cup {at[w]}
    /\ Continue(w, "fund", "done")
    /\ UNCHANGED <<users, accounts, left, at, attempts, disturbances>>

\* A bug: the loop goes on after any error.
AfterErrorRetry(w) == IF pc[w] = "account" THEN "account" ELSE "end"

\* Only a collision is tried again; what else is thrown ends the worker.
AfterError(w) == "end"

\* A query throws, performed or not, or the process dies.
Fails(w) ==
    /\ Disturb
    /\ pc[w] \in {"find", "insert", "account", "fund"}
    /\ \/ UNCHANGED <<users, accounts>>
       \/ pc[w] = "insert" /\ IsInserted(w)
            /\ users' = [users EXCEPT ![at[w]] = w] /\ UNCHANGED accounts
       \/ pc[w] = "account" /\ UNCHANGED users
            /\ AddAccount(w)
    /\ Goto(w, pc[w], AfterError(w))
    /\ Tell(w, "error")
    /\ UNCHANGED <<funded, left, at, attempts>>

Next ==
    \E w \in Workers :
        \/ Start(w) \/ Taken(w) \/ Free(w)
        \/ InsertUser(w) \/ InsertUserViolates(w)
        \/ InsertAccount(w) \/ NumberCollides(w) \/ Fund(w) \/ Fails(w)

Spec == Init /\ [][Next]_vars

-----------------------------------------------------------------------------
(* Properties.                                                             *)

TypeOK ==
    /\ users \in [Emails -> Workers \cup {None}]
    /\ accounts \in [Emails -> [Workers -> Nat]]
    /\ funded \subseteq Emails
    /\ pc \in [Workers -> {"start", "find", "insert", "account", "fund", "end"}]
    /\ left \in [Workers -> SUBSET Emails]
    /\ at \in [Workers -> Emails \cup {None}]
    /\ attempts \in [Workers -> 0 .. MaxAttempts]
    /\ result \in [Workers -> {None, "done", "taken", "error"}]
    /\ disturbances \in 0 .. MaxDisturbances

HasAccount(e) == \E w \in Workers : accounts[e][w] > 0

\* Nobody is at work.
Over == \A w \in Workers : pc[w] = "end" \/ at[w] = None

\* What a request is told is so: "done" means its own user and account, 409 that
\* the e-mail is somebody else's, and nobody opens two accounts for one call
\* (authController.js:36-53, accountModel.js:22-37).
AnswersAreTrue ==
    /\ \A w \in Registrations : \A e \in EmailsOf[w] :
          /\ result[w] = "done"  => users[e] = w /\ accounts[e][w] = 1
          /\ result[w] = "taken" => users[e] \notin {None, w}
    /\ \A e \in Emails, w \in Workers : accounts[e][w] <= 1

\* A user left without an account is one whose making was disturbed: no race of
\* two registrations, or with the script, makes one.
OrphansExplained ==
    Over => Cardinality({e \in Emails : users[e] # None /\ ~HasAccount(e)})
              <= disturbances

\* Undisturbed, every demo user the script made has an opening balance, however
\* many runs of it there were at a time.
DemoUsersFunded ==
    Over /\ disturbances = 0 =>
        \A e \in Emails : users[e] \in Seeds => e \in funded
=============================================================================
