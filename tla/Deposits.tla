------------------------------ MODULE Deposits ------------------------------
(***************************************************************************)
(* The accounts of one user as the pages see them: Accounts.js opens       *)
(* accounts and fixed deposits, Transfer.js and ScheduledTransfers.js pay  *)
(* from the account that is first in the list unless another is chosen,    *)
(* and the server, which does not look at the type of an account, keeps    *)
(* what the user has.  The fixed deposit is opened in the two steps that   *)
(* others can see: the lookup of its source, and the commit.               *)
(***************************************************************************)
EXTENDS FiniteSets, Integers

CONSTANTS
    Accounts,     \* accounts the user may come to have
    Tenure,       \* time a deposit is locked for
    MaxTime,      \* bound on the clock
    MaxAmount,    \* bound on the money in an account
    None

DepositsAssumption ==
    /\ IsFiniteSet(Accounts) /\ None \notin Accounts
    /\ Tenure \in Nat /\ MaxTime \in Nat /\ MaxAmount \in Nat

VARIABLES
    clock,        \* time; every statement that needs a created_at takes a tick
    accounts,     \* the rows: type, created_at, balance, maturity_date
    opening,      \* deposits being opened: the source, and their created_at
    listed,       \* the first row of a list on its way to a page
    from,         \* form.fromAccountNumber
    named         \* accounts paid from by a request no page made

vars == <<clock, accounts, opening, listed, from, named>>

Amounts == 0 .. MaxAmount

Has(a) == accounts[a].type # "none"

NoAccount == [type |-> "none", born |-> 0, balance |-> 0, matures |-> 0]

Init ==
    /\ clock = 0
    /\ accounts = [a \in Accounts |-> NoAccount]
    /\ opening  = [a \in Accounts |-> None]
    /\ listed = None
    /\ from = None
    /\ named = {}

Tick ==
    /\ clock < MaxTime
    /\ clock' = clock + 1

IsUnused(a) == ~Has(a) /\ opening[a] = None

\* register and createAccount, one INSERT.
CreateForUser(a) ==
    /\ IsUnused(a)
    /\ Tick
    /\ \E type \in {"savings", "checking"} :
          accounts' = [accounts EXCEPT ![a] = [type |-> type, born |-> clock', balance |-> 0, matures |-> 0]]
    /\ UNCHANGED <<opening, listed, from, named>>

Wait ==
    /\ Tick
    /\ UNCHANGED <<accounts, opening, listed, from, named>>

\* Money from elsewhere.
Receive(a) ==
    /\ Has(a) /\ accounts[a].balance < MaxAmount
    /\ accounts' = [accounts EXCEPT ![a].balance = @ + 1]
    /\ UNCHANGED <<clock, opening, listed, from, named>>

\* findByAccountNumber, and BEGIN: any account of the user can be the source; the
\* page offers no deposit.
OpenFixedDeposit(a, source) ==
    /\ IsUnused(a)
    /\ Has(source)
    /\ Tick
    /\ opening' = [opening EXCEPT ![a] = [source |-> source, born |-> clock']]
    /\ UNCHANGED <<accounts, listed, from, named>>

CommitDeposit(a) ==
    /\ opening[a] # None
    /\ LET source == opening[a].source
       IN  /\ accounts[source].balance > 0
           /\ accounts' = [accounts EXCEPT
                 ![source].balance = @ - 1,
                 ![a] = [type |-> "fixed_deposit", born |-> opening[a].born, balance |-> 1,
                         matures |-> opening[a].born + Tenure]]
           /\ named' = IF accounts[source].type = "fixed_deposit" THEN named \cup {source} ELSE named
    /\ opening' = [opening EXCEPT ![a] = None]
    /\ UNCHANGED <<clock, listed, from>>

RefuseDeposit(a) ==
    /\ opening[a] # None
    /\ opening' = [opening EXCEPT ![a] = None]
    /\ UNCHANGED <<clock, accounts, listed, from, named>>

-----------------------------------------------------------------------------
(* A page with a transfer form.                                            *)

\* A bug: the newest first.
IsFirstNewest(a) == \A b \in Accounts : Has(b) => accounts[b].born <= accounts[a].born

\* The first row of ORDER BY created_at.
IsFirst(a) == \A b \in Accounts : Has(b) => accounts[a].born <= accounts[b].born

\* findByUserId: what matters of the list on its way is its first row.
ListAccounts ==
    /\ listed = None
    /\ \E a \in Accounts :
          /\ Has(a) /\ IsFirst(a)
          /\ listed' = a
    /\ UNCHANGED <<clock, accounts, opening, from, named>>

\* setForm(... fromAccountNumber: accounts[0].account_number ...): Transfer.js at every
\* load, ScheduledTransfers.js unless there is a choice.
Preselect ==
    /\ listed # None
    /\ from' \in {listed, from} \ {None}
    /\ listed' = None
    /\ UNCHANGED <<clock, accounts, opening, named>>

\* The options of the page leave the deposits out.
Choose(a) ==
    /\ from # None
    /\ Has(a) /\ accounts[a].type # "fixed_deposit"
    /\ from' = a
    /\ UNCHANGED <<clock, accounts, opening, listed, named>>

\* A bug: the balance is not asked for either.
IsPayableEmpty(a) == Has(a)

\* executeTransfer: the type of the source is not asked for.
IsPayable(a) == Has(a) /\ accounts[a].balance > 0

Pay(a) ==
    /\ IsPayable(a)
    /\ accounts' = [accounts EXCEPT ![a].balance = @ - 1]
    /\ UNCHANGED <<clock, opening, listed, from>>

ExecuteTransfer ==
    \/ from # None /\ Pay(from) /\ UNCHANGED named
    \/ \E a \in Accounts : Pay(a) /\ named' = named \cup {a}

Next ==
    \/ Wait \/ ListAccounts \/ Preselect \/ ExecuteTransfer
    \/ \E a \in Accounts :
          \/ CreateForUser(a) \/ Receive(a) \/ Choose(a)
          \/ CommitDeposit(a) \/ RefuseDeposit(a)
          \/ \E source \in Accounts : OpenFixedDeposit(a, source)

Spec == Init /\ [][Next]_vars

-----------------------------------------------------------------------------
(* Properties.                                                             *)

IsDeposit(a) == accounts[a].type = "fixed_deposit"

Types == {"none", "savings", "checking", "fixed_deposit"}

TypeOK ==
    /\ clock \in 0 .. MaxTime
    /\ accounts \in [Accounts -> [type : Types, born : 0 .. clock, balance : Amounts,
                                  matures : 0 .. clock + Tenure]]
    /\ \A a \in Accounts :
          opening[a] = None \/ opening[a] \in [source : Accounts, born : 0 .. clock]
    /\ {listed, from} \subseteq Accounts \cup {None}
    /\ named \subseteq Accounts

\* The pages take the first account of a list that holds deposits too, and it is
\* never one, however the accounts were opened: a deposit needs a source that
\* was there before (Transfer.js:25, accountModel.js:114).
PreselectsNoDeposit == from # None => ~IsDeposit(from)

\* "FD accounts can't be selected as a transfer source, since they're meant to
\* stay locked until maturity." (README.md:163).  True of what the pages pay: a
\* deposit is broken only by a request that names it itself, which nothing in
\* executeTransfer refuses.
LockedUntilMaturity ==
    \A a \in Accounts \ named :
        IsDeposit(a) /\ clock < accounts[a].matures => accounts[a].balance > 0
=============================================================================
