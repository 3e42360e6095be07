----------------------------- MODULE MCRecords -----------------------------
(***************************************************************************)
(* Onboarding, Deposits, FraudAlerts, TransferPage, History and Calendar   *)
(* in one instance: whether what is stored, alerted, shown and dated is    *)
(* what happened.                                                          *)
(*                                                                         *)
(* They share no state, so that a property of one holds of all together if *)
(* it holds of that one with the rest standing still.  Hence part: one of  *)
(* them runs, the variables of the others are Off.  A variable two of them *)
(* have (accounts, pc, at, clock) belongs to the one that runs.            *)
(***************************************************************************)
EXTENDS Integers, TLC

CONSTANTS
    None,
    Emails, Registrations, Seeds, Openings, EmailsOf, MaxAttempts, MaxDisturbances,
    MyAccounts, Tenure, MaxAmount, MaxDepositTime,          \* Deposits
    Transfers, Large, Window, MaxTxns, MaxTime, MaxFaults,  \* FraudAlerts
    Accounts, Own, Unknown, Nicks, MaxSubmits, MaxSaves,    \* TransferPage
    Initial, MaxInserts, Lag, Limits, Default, Highest, Cap, \* History
    Years, Tenures, MaxRuns                                 \* Calendar

VARIABLES
    part, accounts, pc, at, clock,
    users, funded, left, attempts, result, disturbances,    \* Onboarding
    opening, listed, from, named,                           \* Deposits
    born, debits, due, alerts, told, disturbed, faults,     \* FraudAlerts
    form, picks, loading, request, submits, paid, saves, saved, beneficiaries,
    rows, inserts, limit, page, got, total, gap, base, delivered, token, file,
    first, frequency, current, runs, tenure, maturity       \* Calendar

O == INSTANCE Onboarding
D == INSTANCE Deposits WITH Accounts <- MyAccounts, MaxTime <- MaxDepositTime
F == INSTANCE FraudAlerts
P == INSTANCE TransferPage
H == INSTANCE History
C == INSTANCE Calendar

ASSUME RecordsAssumption ==
    /\ O!OnboardingAssumption /\ D!DepositsAssumption
    /\ F!FraudAssumption /\ P!PageAssumption
    /\ H!HistoryAssumption /\ C!CalendarAssumption

CONSTANTS ann, alice, r1, r2, s1, s2, o1, n1, n2, bob, carl

\* Two registrations of one e-mail, another user's, two runs of the script, and
\* a further account.
MCEmailsOf == r1 :> {ann} @@ r2 :> {ann} @@ s1 :> {alice} @@ s2 :> {alice, ann}
                @@ o1 :> {ann}

\* Limits a query may ask for, one of them none a page can have.
MCLimits == {None, 0, 1, 5, -1}

\* Nicknames are alike, and so are the accounts of others.
Alike == Permutations({n1, n2}) \cup Permutations({bob, carl})

onboardingVars == <<users, funded, left, attempts, result, disturbances>>
depositsVars   == <<opening, listed, from, named>>
fraudVars      == <<born, debits, due, alerts, told, disturbed, faults>>
transferVars   == <<form, picks, loading, request, submits, paid, saves, saved, beneficiaries>>
historyVars    == <<rows, inserts, limit, page, got, total, gap, base, delivered, token, file>>
calendarVars   == <<first, frequency, current, runs, tenure, maturity>>
vars == <<part, accounts, pc, at, clock, onboardingVars, depositsVars, fraudVars,
          transferVars, historyVars, calendarVars>>

Off == "off"

OnboardingOff ==
    /\ users = Off /\ funded = Off /\ left = Off /\ attempts = Off /\ result = Off
    /\ disturbances = Off
DepositsOff == opening = Off /\ listed = Off /\ from = Off /\ named = Off
FraudOff ==
    /\ born = Off /\ debits = Off /\ due = Off /\ alerts = Off /\ told = Off
    /\ disturbed = Off /\ faults = Off
TransferOff ==
    /\ form = Off /\ picks = Off /\ loading = Off /\ request = Off /\ submits = Off
    /\ paid = Off /\ saves = Off /\ saved = Off /\ beneficiaries = Off
HistoryOff ==
    /\ rows = Off /\ inserts = Off /\ limit = Off /\ page = Off /\ got = Off
    /\ total = Off /\ gap = Off /\ base = Off /\ delivered = Off /\ token = Off
    /\ file = Off
CalendarOff ==
    /\ first = Off /\ frequency = Off /\ current = Off /\ runs = Off /\ tenure = Off
    /\ maturity = Off

Init ==
    \/ /\ part = "onboarding" /\ O!Init /\ clock = Off
       /\ DepositsOff /\ FraudOff /\ TransferOff /\ HistoryOff /\ CalendarOff
    \/ /\ part = "deposits" /\ D!Init /\ pc = Off /\ at = Off
       /\ OnboardingOff /\ FraudOff /\ TransferOff /\ HistoryOff /\ CalendarOff
    \/ /\ part = "fraud" /\ F!Init /\ accounts = Off /\ at = Off
       /\ OnboardingOff /\ DepositsOff /\ TransferOff /\ HistoryOff /\ CalendarOff
    \/ /\ part = "transfer" /\ P!Init
       /\ accounts = Off /\ pc = Off /\ at = Off /\ clock = Off
       /\ OnboardingOff /\ DepositsOff /\ FraudOff /\ HistoryOff /\ CalendarOff
    \/ /\ part = "history" /\ H!Init
       /\ accounts = Off /\ pc = Off /\ clock = Off
       /\ OnboardingOff /\ DepositsOff /\ FraudOff /\ TransferOff /\ CalendarOff
    \/ /\ part = "calendar" /\ C!Init
       /\ accounts = Off /\ pc = Off /\ at = Off /\ clock = Off
       /\ OnboardingOff /\ DepositsOff /\ FraudOff /\ TransferOff /\ HistoryOff

OnboardingNext ==
    /\ part = "onboarding" /\ O!Next
    /\ UNCHANGED <<part, clock, depositsVars, fraudVars, transferVars, historyVars,
                   calendarVars>>

DepositsNext ==
    /\ part = "deposits" /\ D!Next
    /\ UNCHANGED <<part, pc, at, onboardingVars, fraudVars, transferVars, historyVars,
                   calendarVars>>

FraudNext ==
    /\ part = "fraud" /\ F!Next
    /\ UNCHANGED <<part, accounts, at, onboardingVars, depositsVars, transferVars,
                   historyVars, calendarVars>>

TransferNext ==
    /\ part = "transfer" /\ P!Next
    /\ UNCHANGED <<part, accounts, pc, at, clock, onboardingVars, depositsVars,
                   fraudVars, historyVars, calendarVars>>

HistoryNext ==
    /\ part = "history" /\ H!Next
    /\ UNCHANGED <<part, accounts, pc, clock, onboardingVars, depositsVars, fraudVars,
                   transferVars, calendarVars>>

CalendarNext ==
    /\ part = "calendar" /\ C!Next
    /\ UNCHANGED <<part, accounts, pc, at, clock, onboardingVars, depositsVars,
                   fraudVars, transferVars, historyVars>>

Next ==
    \/ OnboardingNext \/ DepositsNext \/ FraudNext
    \/ TransferNext \/ HistoryNext \/ CalendarNext

Spec == Init /\ [][Next]_vars

-----------------------------------------------------------------------------
(* Properties: those of the parts, one here for what belongs together.     *)

\* The type of each part's state.
TypeOK ==
    /\ part = "onboarding" => O!TypeOK
    /\ part = "deposits"   => D!TypeOK
    /\ part = "fraud"      => F!TypeOK
    /\ part = "transfer"   => P!TypeOK
    /\ part = "history"    => H!TypeOK
    /\ part = "calendar"   => C!TypeOK

\* What a registration is told is so; no race of registrations or of the seed
\* script leaves a user without an account, for that takes a failure each; and
\* undisturbed, each demo user has an opening balance (authController.js:36-53,
\* accountModel.js:22-37, seed.js:31).
OnboardingIsTrue ==
    part = "onboarding" =>
        O!AnswersAreTrue /\ O!OrphansExplained /\ O!DemoUsersFunded

\* No page offers to pay from a deposit, and a deposit is whole until it matures
\* unless a request no page makes names it (Transfer.js:25, accountModel.js:114,
\* README.md:163).
DepositsHold ==
    part = "deposits" => D!PreselectsNoDeposit /\ D!LockedUntilMaturity

\* MaxTxns debits within the window have left an alert, in whatever order they
\* were committed and counted, and so has every large transfer no fault has hit
\* (fraudDetection.js:73-105, README.md:317-318).
TransfersNoticed ==
    part = "fraud" => F!VelocityFlagged /\ F!LargeFlaggedUnlessHit

\* The transfer form saves who was paid, under the name given with that payment,
\* whatever was typed meanwhile, and once (Transfer.js:48,
\* beneficiaryController.js:17, schema.sql:166).
SavedWasPaid == part = "transfer" => P!SavedWasPaid /\ P!SavedOnce

\* Who reads all pages of a history misses no more rows than came between a total
\* and its rows, and reads a row again only for a new one that pushed it down
\* (accountController.js:66).
PagesExplained == part = "history" => H!MissedExplained /\ H!RepeatsExplained

\* Against a count of days: a weekly step is 7 days, a monthly one as many as the
\* month it starts in has, so that one month at most is skipped in the life of a
\* transfer; and a deposit does not mature early (scheduler.js:18-19,
\* accountModel.js:50).
DatesAreRight ==
    /\ [](part = "calendar" => C!SkipsAtMostOneMonth /\ C!MaturityIsNotEarly)
    /\ [][part = "calendar" => C!StepIsRightInDays]_vars
=============================================================================
