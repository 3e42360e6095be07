# Digital banking system: TLA+ models and proofs

These modules describe the banking system, server and pages, at the grain of its
`await`s: every SQL statement, every wait for a connection or a row lock, and
every answer that reaches a page is a step, and the steps of all requests
interleave with failures, crashes and retries. TLC checks them on small
instances; TLAPS proves nearly every safety property of every module, and that
the transfer service implements an abstract bank, for every value of the
constants.

Paths without a prefix are below `src/backend/`.

## Inventory of the system

| Component | State | Operations | Talks to |
|---|---|---|---|
| Transfer service (`services/transferService.js`, `config/db.js`) | `accounts.balance`, `transactions`; per call: a pooled connection, row locks, the balances it read | `executeTransfer` | PostgreSQL, fraud detection, receipts |
| Accounts (`models/accountModel.js`, `controllers/accountController.js`) | `accounts` | `openFixedDeposit` (debits an account into a new one), `createForUser`, nickname, history, CSV statement | PostgreSQL |
| Idempotency (`middleware/idempotency.js`) | one `idempotency_keys` row per user, key and endpoint | claim the key, 409, replay, reclaim, record the response | wraps `POST /transfers` |
| Scheduled transfers (`utils/scheduler.js`, `models/scheduledTransferModel.js`) | `scheduled_transfers`; the snapshot a run works on | create, cancel, `runDueTransfers` every 60 s, `computeNextRun` | transfer service |
| Login (`controllers/authController.js`, `models/userModel.js`) | `users.failed_login_count`, `locked_until`, `login_attempts` | password step, lock, reset | fraud detection |
| Second factor (the same, `frontend/src/pages/Security.js`) | `users.two_fa_secret`, the in-memory `pendingTwoFA` | set up, confirm, disable; verify a code for a challenge | login |
| Sessions (the same, `middleware/authMiddleware.js`, `utils/token.js`) | `refresh_tokens`; access tokens, which the server does not keep | issue, refresh, log out, `requireAuth`, `requireRole` | every protected route |
| Administration (`controllers/adminController.js`) | `users.status`, the audit log | suspend and reactivate, lists | sessions, audit log |
| Fraud detection (`utils/fraudDetection.js`) | `fraud_alerts`; counts over `transactions` and `login_attempts` | after a transfer, after a failed or a completed login; resolve | notifications |
| Registration and seeding (`authController.register`, `config/seed.js`) | `users`, `accounts` | register, open an account, seed | accounts |
| Beneficiaries (`controllers/beneficiaryController.js`) | `beneficiaries` | add, remove | pages |
| API client and session context (`frontend/src/services/api.js`, `context/AuthContext.js`) | access token, `isRefreshing`, the queue of waiting requests, the user | attach the token, refresh once on 401, retry, log out | sessions |
| Pages (`frontend/src/pages/`) | the form, the rows on display, `loading` | load, change and reload a table, search, submit a transfer, download | API client |
| Audit log, notifications, rate limits, start-up | rows nothing reads back, or none | single statements, I/O | - |

Where the difficulty lies:

- **Interleaving.** The Node.js process runs one callback at a time, but every
  `await` lets others in, and up to 20 connections run transactions at once. A
  transfer writes *absolute* balances computed from what it read, so all rests
  on the row locks, and the locks on their order.
- **Failure.** Any statement may fail; a connection may break with a COMMIT
  under way; an error on an idle connection exits the process (`config/db.js:26`).
- **Ordering.** `created_at` is the time of BEGIN; the response of an
  idempotent request leaves before the UPDATE that records it is performed;
  `setInterval` starts a scheduler run whether or not the last one has ended.
- **Time.** A key in flight for 60 s is taken for abandoned; a connection is
  waited for 10 s; a failed job is tried again in the next cycle and paused
  after 5 failures; locks, challenges and tokens run out; months differ in length.
- **What is read before an await and used after it.** `locked_until` before
  `bcrypt.compare`, the refresh token before the user, the challenge before its
  code, the count of debits after the commit of one of them, the form of a page
  before the answer to its request.
- **What a page knows.** Answers come in any order or not at all; a page shows
  what was, and goes on from there.

What makes each component correct: the transfer service neither makes nor loses
money, keeps a ledger that explains every balance, deadlocks never and leaks
nothing; the endpoint makes one transfer per key and replays its true answer;
the scheduler pays every date it passes over, repeats a payment only when
something went wrong, and stops trying a broken job; the login bounds guessing
and keeps nobody out for ever; no one acts who may not; what is suspicious
leaves an alert; registration tells the truth; a page serves everybody who
waits and shows what it knows to have changed. `PROJECT.json` lists every hazard
with its line and the property that watches it.

## Modules

| Module | What it is |
|---|---|
| `Money` | the two roundings, `toFixed(2)` and NUMERIC(18,2), over amounts in half cents |
| `Bank` | abstract specification: a request moves its whole amount in one step, at most once, and is told the truth about it |
| `TransferService` | `executeTransfer` and `openFixedDeposit` over `withTransaction`, the pool and the row locks |
| `TransferEndpoint` | the idempotency middleware around one key, with clients that retry |
| `Scheduler` | the worker, its rows, and the users who create and cancel jobs |
| `MCTransferService`, `MCTransferEndpoint`, `MCScheduler` | instances for TLC |
| `TransferServiceProofs` | types, locks, ledger, conservation of money, double entry, freedom from deadlock |
| `TransferBankProofs` | TransferService implements Bank |
| `TransferEndpointProofs`, `SchedulerProofs` | theorems about the module of that name |
| `AccessProofs`, `RecordsProofs`, `WaitingProofs` | theorems about the parts of MCAccess, MCRecords and MCWaiting |
| `FunctionSums` | what a sum over a function is, and what it does when values change or move |
| `Login` | the password step of concurrent logins, with counter, lock and alert |
| `Sessions` | refresh and access tokens, `requireAuth`, logout, suspension |
| `NewDevice` | `evaluateNewDevice` after logins with and without a second factor |
| `TwoFactor` | the second factor: the Security page, challenges, codes |
| `ApiClient` | the interceptors of the page, `loadUser`, logout |
| `ListPages` | the pages that show a table and change it |
| `Onboarding` | registration, further accounts and the seed script |
| `Deposits` | a user's accounts, fixed deposits, and the pages that pay from them |
| `FraudAlerts` | `evaluateTransfer` of concurrent transfers |
| `TransferPage` | the transfer form and the beneficiaries it saves |
| `History` | paginated lists read while rows come in; the statement |
| `Calendar` | `computeNextRun` and the maturity date against a count of days |
| `MCAccess` | instance of Login, Sessions, NewDevice |
| `MCRecords` | instance of Onboarding, Deposits, FraudAlerts, TransferPage, History, Calendar |
| `MCWaiting` | instance of TwoFactor, ApiClient, ListPages, Login, with fairness |

The modules form a chain by contract rather than by one product of all state:
TransferService is shown to implement Bank, and TransferEndpoint and Scheduler
rely on nothing of a transfer but what Bank says: the money moves in one step or
not at all, "ok" and a 4xx are true, and an error says nothing.

**TransferService.** `balance`, `owner`, `kind` and `rows` are the committed
tables. `update` and `insert` hold what each open transaction wrote, `holder`
the row locks, `clients` the connections in use. `seen`, `newSender`,
`newReceiver` and `dest` are local variables of the callback. `pc[r]` is the
`await` a call is at: `lookup` (the checks before the transaction), `connect`,
`begin`, `lock` (`SELECT ... FOR UPDATE` in sorted order), `decide` (the funds
check and the two `toFixed(2)`), the two UPDATEs, the two INSERTs, `commit`;
then `committed` (COMMIT performed, answer not yet here) and `evaluate`
(`evaluateTransfer`), or `rollback`. `openFixedDeposit` takes the same steps
with an INSERT of the new account for the second UPDATE; its retry after a
collision of account numbers runs in an aborted transaction, so `RetryInsert`
always fails. What PostgreSQL does is modelled from how the code uses it: READ
COMMITTED, locks held to the end of the transaction, writes visible from COMMIT.
`Crash` is the process exit: all open transactions roll back.

**TransferEndpoint.** One row of `idempotency_keys` and the requests that carry
its key. Each query of the middleware is an action; `updates` counts the
recording UPDATEs sent and not yet performed, since nothing awaits them. `aged`
records that some row has ever counted as stale.

**Scheduler.** The columns `status`, `next_run_at` and `consecutive_failures`
of every job, the runs (`Ticks`) with the snapshot each works on, and a history
`moved`: how often the money of a job moved for each date. The branch for a
source account that no longer exists (`utils/scheduler.js:58-63`) is left out,
because no code deletes an account. `accepted`, chosen from `MayAccept` at the
start, says whether PostgreSQL accepts `recordRunResult`'s UPDATE. As the code
stands it does not (see the findings); the run `scheduler` and the theorems cover
both, the worker of today and the one with that statement repaired. `unrecorded`
counts the payments whose recording was rejected. Where it is rejected, every run
dies over the first job it tries, which never settles; `EveryDueJobSettles` then
holds only by its alternative `RunIsLost`, and says no more than that some run dies.

**Login.** Every query of `login` is a step of a request (`Callers`); one of
them is the owner's, the others guess. `locked` is `locked_until` as the ticks
left, `badRows` and `otherRows` the rows of `login_attempts` by age, counted up
to the limit: those of wrong passwords, and those of refusals while locked and of
wrong codes (`WrongCode`), which the alert counts as well. `sinceLock` is a history: wrong passwords since the last lock ran
out or was cleared. That the check of `locked_until` comes before
`bcrypt.compare` is why guesses overshoot.

**Sessions.** `row` is the refresh token of a browser, `access` what the newest
access token signed for it has left, `status` the users' column. A request is a
refresh (`RefreshFind`, `RefreshSign`) or a protected one (`RequireAuth` and then
its handler, `GetMe` or `UpdateUserStatus`). An admin names a user by its id in
the URL, which nothing validates: `ask.exact` says whether it is spelt as the row
has it (`users.id` is a UUID, and PostgreSQL takes either case), since the check for
one's own id compares strings. `entitled` and `overtaken` are histories of what was
true while the request was under way; `aliased` records that an admin has changed
its own status by another spelling.

**NewDevice.** The row of a success is written when the password was right, and
the check counts the rows of the address the *last* request came from, which the
second step of a login may have changed. `seen` is a history: the rows there were
when the login was complete.

**TwoFactor.** `enabled` and `secret` are the row, `challenge` is `pendingTwoFA`,
`view` what a tab's AuthContext knows, `qr` the page's own `qrCode`, `app` the secret
in the authenticator. A code is the secret it was computed from. The page disables
no button: `click` holds any number of its requests (`Clicks`), and the click, the
queries of its handler and its answer are steps of their own, so that a second
confirmation may enable after a Disable. `Leave` is going to another page and back,
which forgets `qr` and keeps `view`; `Reload` asks for the row. The answer of a
request still reaches AuthContext once the page was left, and nothing once the tab
was reloaded. An answer is lost when it would arrive (`Fails`): what the handler
does to the row is done. `blind` is a history: the user has pressed a button while a
request was under way at the server, or has set up what was on but shown as
"Disabled"; a setup of what is off, with nothing under way, ends it.

**ApiClient.** Where each call is, the `_retry` mark, `isRefreshing` and `queue`
as in the code; the server holds `signed`, `expired` and `cookie`. `crossed` is a
history: a refresh granted before the logout and answered after it.

**ListPages.** Beneficiaries, ScheduledTransfers, AdminUsers, AdminAlerts, Alerts
and Accounts have one shape: load, change, reload. A request carries the age of
the table it read; `acked` is the newest change the page knows it has made.
The pages of AdminUsers are not turned.

**Onboarding.** A worker is a registration, the opening of a further account or a
run of the seed script; each statement is a step, with collisions of account
numbers and failures. That phone numbers are unique too is left out: it is one
more refusal like that of the e-mail. An account an administrator opens with
another balance than zero is not told from one without.

**Deposits.** Accounts with their type, `created_at` and `maturity_date`; the
pages preselect the first of the list, some over an earlier choice (Transfer), some
only if there is none. `named` are the accounts paid from by a
request no page made.

**FraudAlerts, TransferPage, History.** The steps of `evaluateTransfer` per call,
with `born` the time of BEGIN that the window counts by; the form of the page at
the render of its handler (`request`) against the form on display; rows numbered
as they come, newest first, standing for transactions, users and log entries
alike, of which up to `Lag` younger ones may be visible before an older one.

**Calendar.** `setDate`, `setMonth` and their overflow on years, months and days;
`DayNumber` is the reference.

The last twelve modules share no state in the model. Their steps commute, so what
holds of one holds beside the others; `MCAccess`, `MCRecords` and `MCWaiting`
therefore let one of their parts run (`part`) with the variables of the others
`Off`, which explores the sum of the state spaces and not their product.

## Runs

| Run | Instance | Shows |
|---|---|---|
| `transfer_safety` | 3 calls out of 5 orders, 5 accounts (2 unopened), 3 connections, 1 crash | types, money conserved, ledger explains balances, double entry, no lost update, no deadlock, nothing leaks |
| `transfer_bank` | 2 calls, 1 connection, 1 inactive account, 1 crash, fairness | implements Bank; every call ends |
| `endpoint_retries` | 2 clients, 2 faults, fairness | one transfer per key while no row is stale, truthful and final answers, every client answered |
| `scheduler` | a one-time and a recurring job, 2 overlapping runs, 2 periods, limit 2, 2 disturbances, the recording UPDATE accepted and rejected, 3 payments of a job for one date at most (`MaxMoves`), fairness | repeats explained, nothing skipped, a job is paused exactly at the limit, no ended job comes back, every due job settles or, where the UPDATE is rejected, a run dies |
| `access` | Login: owner and 2 guessers, limit 2, a lock of 1 tick, 1 fault, 5 wrong passwords between locks. Sessions: 2 admins with a session each, 2 requests at a time. NewDevice: 3 logins, 2 addresses, 1 fault | guesses between two locks bounded; alerts raised, and what is called new is, up to one other login; no suspended user acts; some admin is left, up to two exceptions; an ended session is over |
| `records` | Onboarding: 2 registrations of one e-mail, 2 seed runs, 1 opening, 2 attempts, 2 disturbances. Deposits: 3 accounts, tenure 2, time 4. FraudAlerts: 3 transfers, 1 large, limit 2 in a window of 1, 1 fault. TransferPage: 4 account numbers (own, two others', unknown), 2 nicknames, 2 transfers, 2 saves. History: 4 rows and 3 inserted, limits below, above and beside the range. Calendar: starts on every day of 2023 and 2024, 64 runs, tenures 3 and 18 | answers and accounts of registrations are true; deposits hold; alerts are there; who is saved was paid; what a reader misses or reads twice is explained; dates are right |
| `waiting` | TwoFactor: 1 tab, 2 requests of the page at a time, 2 secrets, 1 login, 2 requests of the second step, 1 fault. ApiClient: `loadUser` and 2 calls refused whatever the token, 5 tokens. ListPages: each page with 1 row, 2 searches, 3 requests, 2 changes. Login: owner and 1 guesser. Fairness | the second factor holds; one refresh serves the queue; a page shows its own changes; the owner gets in, every call ends, no page loads for ever |
| `transfer_half_cents` | amounts of half a cent | violates MoneyConserved |
| `transfer_error_reply` | 2 calls | violates ErrorMeansNothingMoved |
| `transfer_history` | 2 calls, 2 connections | violates HistoryNewestFirst |
| `endpoint_duplicate` | 2 clients | violates OneTransfer |
| `scheduler_once` | 1 run at a time, nothing else going wrong | violates OnceRunsOnce |

Why the bounds are enough: a lost update and a deadlock need two calls, and a
third makes a chain of three waiting calls or a second conflict on one account;
five orders hold opposite transfers, one that only another can fund, a deposit
out of the same money and a request on somebody else's account. A pool of one
connection makes everybody wait; a pool of three lets all run. Two clients are
the original and the retry; two faults allow a lost response followed by a
crash. Two runs are the smallest overlap, two disturbances let an overlap meet
a failed statement, and two periods let a recurring job come round twice.

Two guessers beside the owner are enough for guesses past the check, for a
success between two failures and for a lock set twice, and five counted wrong
passwords let the account be locked, come free and be locked again. Two admins
suspend one another; two requests of one session cross at a logout. Two
registrations and two seed runs are the races of the UNIQUE constraints, two
attempts make the retry of an account number and its end. Three transfers with a
limit of two have one too many, in every order of BEGIN, COMMIT and count, with a
window that two ticks of the clock outlast. Three requests of a page are two loads
and the change between them. Two secrets are a second setup after a
confirmed one, two requests of the page a confirmation that outlasts a Disable. Three inserts outnumber a page; 64 months run over five years with
a leap day, and every start within a leap year and a common one is tried.

`transfer_safety`, `access` and `records` use the symmetry of values that are
alike; they check no liveness. In `access` the same two values are guessers, logins
or requests, whichever part runs, and the two admins change sides with their
sessions. Runs do not check for deadlock: when every call
has ended, the bounds on faults, tokens and time are spent, and the user does
nothing more, the system rests. `NoDeadlock` states the absence of a cycle of
waiting calls directly, and `waiting` that who waits is served.

**Fairness.** `FairSpec` of TransferService assumes that a request that can take
a step of its own does so in the end (`Proceed`): the event loop runs what is
ready, the database answers, and PostgreSQL grants a free lock. Failures, new
requests and crashes are never forced. Weak fairness is enough: a lock that is
free may be taken by another, but every holder ends and there are finitely many
requests. TransferEndpoint also assumes that clients go on retrying, that an
UPDATE sent is performed unless it fails, and that time passes (`Age`); Scheduler
that the timer fires and a run goes on. `FairSpec` of MCWaiting assumes for Login
that time passes, the event loop serves every request and the owner tries again
after a refusal (guessers may stop, and their wrong passwords are finitely many:
`MaxCount`); for TwoFactor that the server answers the second step and a browser that was not
let in asks for a challenge again and gives a code (expiries and crashes are finitely
many; of the requests of the Security page it assumes nothing); for ApiClient that what was asked is answered, which the time limit of the
browser's network makes an error if nothing else; for ListPages the same. All is
weak fairness: nothing in these parts competes for what only one can have for
ever.

### What the code does against its documentation

- `transfer_half_cents`: both balances are rounded on their own from an amount
  with any number of decimals; 0.005 from 0.02 to 0.01 loses a cent.
- `transfer_error_reply`: a failing fraud query, or the loss of the answer to
  COMMIT, gives a 500 for a transfer that has been made.
- `transfer_history`: `created_at` is the time of BEGIN, so a call that waited
  for a lock commits later with an older date, and history is out of order.
- `endpoint_duplicate`: a request that is slow but alive, or whose recording was
  lost, is reclaimed after 60 s, and its retry transfers again.
- `scheduler_once`: PostgreSQL rejects the UPDATE of `recordRunResult` (its `$1`
  is deduced as `varchar` and as `text`; `logs/error.log` holds the message), so
  nothing is ever recorded and a due job is paid in every cycle.

The following have no run of their own; the properties of the passing runs are
stated around them, and say how far the code keeps what the text promises.

- README.md:319 says failed logins lock the account and raise an alert together.
  The counter has no window and no lock resets it, while the alert counts rows
  of the last 15 minutes: guesses days apart lock without an alert.
  `AlertsAreRight` asks for the alert only within the window.
- README.md:219 promises an alert for the first login from an address. The row is
  written by the password alone, so one that never sent its code, or two logins
  at once, hide the first; and a login of which only the code came from an address
  has no row there, so that one other login from there passes unseen and the alert
  is false (fraudDetection.js:157-160, authController.js:166). `AlertsAreRight` says
  how false an alert may be: no other login came before from the address, or one
  at most if only the code did.
- README.md:232 says an admin cannot suspend itself. adminController.js:72 compares
  the id of the URL, as it is spelt, with the row's: the same UUID in capitals passes,
  and the UPDATE suspends that admin, be it the last one. `SomeAdminIsLeft` excepts
  it (`aliased`), and an admin suspended between its own check and its UPDATE.
- README.md:317 says any large transfer is flagged. The alert is inserted after the
  velocity query, and what throws or dies there takes it along.
  `TransfersNoticed` excepts the transfers a fault has hit.
- authController.js:185 says the second factor is confirmed with a code. One tab is
  enough to undo that: the confirmation is performed and its answer lost, the user
  leaves the page and comes back, the page still shows "Disabled" and offers the
  setup, which replaces the secret while the factor stays on (Security.js:53). Or the
  code is sent twice, and the second confirmation enables after a Disable has
  removed the secret (Security.js:65, authController.js:208). `SecondFactorHolds` and
  `UserGetsIn` except users who have pressed a button so (`blind`).
- scheduler.js:36-45 and README.md:169 let every due job have its turn. With the
  recording rejected, as at this commit, a run ends at the first job it tries; the
  same job is paid or tried again in every cycle, and the others are not reached.
  `EveryDueJobSettles` says so with its alternative `RunIsLost`.
- api.js:19 says the original request is retried once. What is sent again from the
  queue has no `_retry` mark and may be sent a third time; `ClientHolds` bounds
  the sendings by the number of requests.
- README.md:151 says an account comes with the registration. They are two INSERTs
  without a transaction; a failure between them leaves a user without an account,
  and seed.js passes over such a user when it is run again. `OnboardingIsTrue`
  counts one failure for each.
- README.md:163 says deposits stay locked until maturity. Only the pages see to it:
  `executeTransfer` does not look at the type of an account. `DepositsHold`
  excepts accounts a request without a page has named. README.md:18 says they
  mature automatically; no code reads `maturity_date`.
- README.md:169 offers monthly transfers. From the 29th to 31st, `setMonth` skips a
  month and shifts the day for good; `DatesAreRight` says it does so once.
- README.md:172 says the button exports transactions. The download runs outside the
  interceptor, so that with an expired token the error is what is saved
  (`DownloadStatement` of History).

## Proofs

All are checked by TLAPS, for every value of the constants: any number of requests,
users, accounts, jobs, rows and faults. What the theorems rest on are the ASSUMEs of
the modules, which TLC evaluates in the runs, and, where it is said, a hypothesis of
the theorem. Each follows the same argument: an invariant that types the state and
says enough about every place a process can be at to be preserved by every step;
a lemma for the initial states, one for the steps, with a step of the proof per
action; and the temporal conclusion.

### The transfer service (`TransferServiceProofs`, `TransferBankProofs`)

Assumed: account ids are numbers (only their order is used, as `ids.sort()` does)
and finitely many, amounts are positive, orders are well typed, `None` is no value of
another kind, balances start as whole cents. `WholeAmounts` (amounts of whole cents)
is a hypothesis where it is named; without it `transfer_half_cents` refutes conservation.

- `TypeCorrect`: `Spec => [](TypeOK /\ Placed)`. `TypeOK` says among other
  things that no balance is ever negative, and is not inductive by itself: that
  a call past `idle` has an order (`Placed`) is needed to type what it writes.
- `LocksCorrect`: `Spec => [](NoLostUpdate /\ NothingLeaks)`, and
  `NothingLeaksProved` of the second alone. The strengthening
  `LockInv` says where locks are held (only between `begin` and the end), which
  rows a call holds once it is past `lock` (all of its lock set, and the account
  it is opening), and that what it has seen there is what is committed. A commit
  changes only rows its call holds, so nobody else's `seen` goes stale.
- `LedgerCorrect`: `Spec => []LedgerExplainsBalance`, under `WholeAmounts`.
  `WriteInv` describes step by step
  what a transaction has written so far as a function of `pc`, `seen` and the
  order; `CommitWrites` and `CommitMoves` derive from it that COMMIT takes the
  amount from one account and adds it to the other; `AppendExplains` that a
  ledger stays explained when such a row is appended.
- `MoneyConservedProved`: `Spec => []MoneyConserved`, under `WholeAmounts`. By the
  same invariant a COMMIT changes two balances and not their sum; `SumMoved`
  of `FunctionSums` makes of it that the sum over all accounts stays.
- `DoubleEntryProved`: `Spec => []DoubleEntry`, whatever the amounts. That a request
  has one debit, one credit, and each the counterpart of the other, is kept by
  appending both at COMMIT, if a request that is about to commit has no row yet:
  `PaidInv` ties the rows of a request to its `pc` and `outcome`.
- `DeadlockFree`: `Spec => []NoDeadlock`. `OrderedInv` says that a call that is
  waiting holds only accounts below those it has still to lock; among the calls of
  a set the one waiting for the greatest account waits for a call that does not
  wait, or waits for a greater one, which is a contradiction. The greatest of
  finitely many exists by the smallest counterexample (see below).
- `BankRefinement`: `Spec => ImplementsBank`, under `WholeAmounts`, mapping
  `funds` to the committed balances, `paid` to the requests with a committed
  debit and `told` to the outcomes of finished calls. COMMIT is the step that
  pays, ending is the step that tells, all else stutters.

`FunctionSums` treats `SumFunction`, which is a fold and so defined by recursion
through a CHOOSE. Induction over data is out of reach of the provers as a rule with an
operator as its parameter; that a set of numbers without a smallest element is
empty is not, for it speaks of one set. The lemmas take the smallest set for which
the claim fails, and show that one without its chosen element fails too. The proofs
of the worker and of the login count with it as well.

### The endpoint (`TransferEndpointProofs`)

Assumed: the bound on faults is a number and `None` no answer, number or row.
`TypeCorrect`, `OneTransferProved`, `AnswersAgreeProved`, `OkMeansMovedProved` and
the action property `StoredIsFinalProved`, for any number of clients. The three
properties say something of the transfers and of the answers; what makes
them inductive is where the key is. `FreshInv`: as long as no row has counted as
stale, there is one row and it is never deleted (`OneRow`); one request at most runs
the handler, and while it does nothing is recorded or about to be (`OneRun`); at
most one recording UPDATE is under way, on a row in flight (`OneAnswer`). `MovedInv`
needs no freshness: nobody says "ok" before money has moved.

### The worker (`SchedulerProofs`)

Assumed: the dates of the jobs are within the horizon, the limit is positive, the
bounds are numbers, `None` is no number or snapshot. The theorems hold whether the
UPDATE of `recordRunResult` is accepted or not. Any number of ticks may overlap:

- `NoPaymentSkippedProved`. What a tick writes back is computed from its snapshot, which
  may be older than the row. `DateInv` therefore says of every snapshot still
  held, as of the row, that all dates before its own are paid.
- `PausedAtLimitProved`. `LimitInv` counts: the ticks alive are at most one more than the
  disturbances, and the failures of a job together with the ticks whose snapshot
  lets it survive one more stay below limit plus disturbances. `CauseInv` says that
  no snapshot is stale while nothing has gone wrong.
- `RepeatsExplainedProved`. A job is charged for the payments it has repeated, for the
  dates that are paid and due again (`Again`), and for the ticks that may still pay
  it (`Paying`). `RepeatInv` covers the charge of every job by the disturbances, each
  of which is worth one. A tick that starts while no other is alive brings its own
  price, which is `Lent` until it pays a date that counts no more afterwards, or is
  found not to pay. A payment whose recording is rejected pays for its own repeat
  (`unrecorded`).
- `EndedStaysEndedProved`, an action property, and `TypeCorrect`.

### Login, sessions, devices (`AccessProofs`)

Assumed: `Admins` are users, sessions have one, there are finitely many callers and
logins, limits and lifetimes are positive numbers. `SomeAdminIsLeftProved` has the
hypothesis that there is an administrator at all.

- `SuspendedCannotActProved`, `EndedIsEndedProved`, `SomeAdminIsLeftProved`. `Judged` says for
  each place a request can be at what is known of it: past `refresh` and
  `requireAuth` it has been `entitled` at a moment since it came, and only an
  administrator handles a change of status. The last active admin can then be
  suspended only by one that was active when it was checked and is not any more
  (`overtaken`), or by itself (`aliased`).
- `GuessesBoundedProved`. `CountInv` bounds the guesses since a lock together with
  the requests that may guess once more (`MayGuess`: those past the check while the
  account is locked, and before the lock all that are not on their way to set
  it), by the limit and what the faults may add: a guess adds one to the former and
  takes its request from the latter.
- `AlertsAreRightProved`. New devices: `CheckInv` says of who is about to insert an
  alert, and `AlertedOnce` of the alerts there are, that of the rows the login had
  `seen` one at most has its address (`SeenOnce`); if its own is one of them, no
  other is. Rows are only appended, so what was seen stays. Passwords:
  `AlertInv` says that, while nothing has failed, as many rows as the limit have an
  alert no older than the newest of them, or a request is still on its way to one:
  whoever adds a row counts all that are there. A tick ages rows and alert alike,
  and the rows that are left add up to no more than before (`SumShifted`).
- `TypeCorrect`.

### The second factor, the client, the lists (`WaitingProofs`)

Assumed: `None` is no secret, verifiers and requests are finitely many, "" is a search,
the bounds are numbers. The types of Login are proved in `AccessProofs`.

- `SecondFactorProved`, for any number of tabs and requests. `PageInv`: a user who has
  pressed nothing blindly is `Careful`, that is, has one request under way at most,
  no setup of what is on, and no confirmation of a secret the row has lost; a
  confirmed secret is then neither overwritten nor enabled after it has gone.
  `ChallengeInv`: logins let in by a challenge and the requests that
  still hold it are no more than the requests there are.
- `ClientProved`. `SendsInv` bounds the sendings of a request by one and the refreshes
  that are over, each of which was led by another request that is marked; `NoLateGrant`
  says that no refresh granted before the logout is still on its way, unless
  `crossed` records it.
- `ListIsFreshProved`. `Waited`: a user who waits for the answer has one request under
  way, and when that is a load, then once it has been performed it is no older than
  what was acknowledged, and brings what was asked for last.

### What is stored, alerted, shown and dated (`RecordsProofs`)

Assumed (`RecordsAssumption`, the conjunction of what the six modules assume):
registrations, openings and seed runs are not the same workers, a registration has
one e-mail, transfers are finitely many, default and highest limit are in order, the
bounds are numbers, `None` is no value of another kind.

- `OnboardingIsTrueProved`. `WorkerInv` says of every worker what it has written for
  each of its e-mails at each place it can be at; in particular a user without an
  account belongs to a worker that is about to open one or that has ended. The
  latter (`Broken`) are no more than the disturbances (`BrokenInv`), and the
  orphans inject into them.
- `DepositsHoldProved`. That the preselected account is none of the deposits follows
  from `SourceInv`: every deposit has an ordinary account born before it, and the
  list is in the order of birth. `WholeInv` is then kept by whatever a page pays.
- `TransfersNoticedProved`. `VelocityInv` speaks of every set of evaluated transfers in the
  window, not of their number at one moment: one of each set that is large enough
  has an alert or is about to insert one. The transfer that is counted last
  sees the others, since its own debit is committed before it counts.
- `SavedWasPaidProved`. `PaidInv` and `SavesInv` carry the form of the handler's render
  from the payment to the request that saves; each paid form has a submission of
  its own.
- `PagesExplainedProved`. `MissedInv`: what was there at the start and has not been shown
  is still after the place the reader has passed. `RepeatsInv`: the rows shown
  twice and those shown that were pushed behind that place again are together no
  more than the rows inserted. `GapInv` accounts for what the total does not
  know of.
- `DatesAreRightProved`, for dates of any year. `MonthInv`: a monthly transfer is on the
  day it began on until it rolls over once, and within the first three days of a
  month from then on. The count of days (`DayNumber`) is a recursive function; it
  is shown to agree with an explicit table of the twelve months, and the months to
  add up across the end of a year, leap or common.
- `TypeCorrect`.

`AccessInv`, `RecordsInv` and the invariants of the parts of MCWaiting hold of the part that runs;
`StandsStill` says that the steps of the others do not touch it.

### Only model-checked

All liveness (`EveryCallEnds`, `EveryClientAnswered`, `EveryDueJobSettles`, `UserGetsIn`,
`PageSettles`): fairness and ENABLED are beyond the prover. Every invariant and every
action property of the passing runs is a theorem. The five runs that expect a violation show
behaviours, and have nothing to prove.

## Not modelled

`changePassword` and `updateProfile` (single statements; changing the password
ends no session, which no document promises); the dashboards, the balance inquiry,
statistics and the profile page (they load once or send one form); receipts,
notifications and the audit log (best effort, caught and logged, never read back;
where a transfer awaits a notification, FraudAlerts has the wait); rate limits (a
library's counters); start-up, migration and environment checks (sequential, run
once). Account numbers, descriptions, currencies and interest are left out,
because no behaviour depends on them. The 10-second wait for a connection is the
choice `NotConnected` may make at any time. Balances set by hand or by
`config/seed.js` are initial states of TransferService.

Behaviour that is modelled without a property, because no document says what is
wanted: a job cancelled, or a user suspended, after a run has read the job is
still paid; a transfer page empties a form in use when the answer comes; a
negative `limit` ends in a 500.

## Plan

1. Done: Money, Bank, TransferService, TransferEndpoint, Scheduler and the proofs
   above; then Login, Sessions, NewDevice, TwoFactor, ApiClient, ListPages,
   Onboarding, Deposits, FraudAlerts, TransferPage, History and Calendar.
2. Done: a proof of every invariant and action property the passing runs check, and
   of the refinement of Bank.
3. Further refinements: TransferEndpoint against Bank with one request per key while
   no row is stale.
