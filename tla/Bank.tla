-------------------------------- MODULE Bank --------------------------------
(***************************************************************************)
(* What the money movement code promises, with none of its transactions,   *)
(* locks, connections or crashes: a request moves its whole amount from an *)
(* account of the user who asked to one other account, in one step and at  *)
(* most once, and what the caller is told agrees with what was done.       *)
(* TransferService is shown to implement this module.                      *)
(***************************************************************************)
EXTENDS Integers

CONSTANTS
    Requests,      \* calls of executeTransfer and openFixedDeposit
    Accounts,      \* accounts that exist or may be opened
    Orders,        \* what a request may ask for
    SeedOwner,     \* owner of every account at the start, None if not opened
    SeedBalance,   \* balance of every account at the start
    None

VARIABLES
    order,         \* what each request asked for, None before it is placed
    funds,         \* the money in each account
    ownerOf,       \* the owner of each account, None when it is not open
    paid,          \* the requests whose money has moved
    told           \* the answer given to each request, "none" before

bankVars == <<order, funds, ownerOf, paid, told>>

Init ==
    /\ order   = [r \in Requests |-> None]
    /\ funds   = SeedBalance
    /\ ownerOf = SeedOwner
    /\ paid    = {}
    /\ told    = [r \in Requests |-> "none"]

Place(r) ==
    /\ order[r] = None
    /\ \E o \in Orders : order' = [order EXCEPT ![r] = o]
    /\ UNCHANGED <<funds, ownerOf, paid, told>>

\* An open account pays an open account, or the account the request opens.
Move(r, from, to) ==
    /\ order[r] # None
    /\ r \notin paid
    /\ told[r] = "none"
    /\ from = order[r].from
    /\ from # to
    /\ ownerOf[from] = order[r].user
    /\ funds[from] >= order[r].amount
    /\ funds' = [funds EXCEPT ![from] = @ - order[r].amount,
                              ![to]   = @ + order[r].amount]
    /\ paid' = paid \cup {r}
    /\ UNCHANGED <<order, told>>

Pay(r, from, to) ==
    /\ Move(r, from, to)
    /\ order[r].op = "transfer"
    /\ to = order[r].to
    /\ ownerOf[to] # None
    /\ UNCHANGED ownerOf

Open(r, from, to) ==
    /\ Move(r, from, to)
    /\ order[r].op = "fixedDeposit"
    /\ ownerOf[to] = None
    /\ ownerOf' = [ownerOf EXCEPT ![to] = order[r].user]

\* "ok" is said only of a request that paid and "rejected" (a 4xx) only of one
\* that did not; "error" (a 500) says nothing.
Tell(r, answer) ==
    /\ order[r] # None
    /\ told[r] = "none"
    /\ answer = "ok" => r \in paid
    /\ answer = "rejected" => r \notin paid
    /\ told' = [told EXCEPT ![r] = answer]
    /\ UNCHANGED <<order, funds, ownerOf, paid>>

Next ==
    \E r \in Requests :
        \/ Place(r)
        \/ \E from, to \in Accounts : Pay(r, from, to) \/ Open(r, from, to)
        \/ \E answer \in {"ok", "rejected", "error"} : Tell(r, answer)

Spec == Init /\ [][Next]_bankVars
=============================================================================
