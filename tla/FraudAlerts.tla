---------------------------- MODULE FraudAlerts ----------------------------
(***************************************************************************)
(* What executeTransfer does after its commit: evaluateTransfer of         *)
(* utils/fraudDetection.js, with the alerts it inserts one after another,  *)
(* each followed by an attempt to reach the user.  All transfers leave one *)
(* account and belong to one user; other calls go on between any two       *)
(* awaits, and what is counted was written by them.                        *)
(***************************************************************************)
EXTENDS FiniteSets, Integers, Sequences

CONSTANTS
    Transfers,    \* calls of executeTransfer
    Large,        \* those at or above LARGE_TXN_THRESHOLD
    Window,       \* VELOCITY_WINDOW_MINUTES
    MaxTxns,      \* VELOCITY_MAX_TXNS
    MaxTime,      \* bound on the clock
    MaxFaults     \* bound on failed queries and crashes

FraudAssumption ==
    /\ IsFiniteSet(Transfers) /\ Large \subseteq Transfers
    /\ Window \in Nat /\ MaxTxns \in Nat \ {0}
    /\ MaxTime \in Nat /\ MaxFaults \in Nat

VARIABLES
    clock,
    pc,           \* where each call stands
    born,         \* its BEGIN: created_at of its rows
    debits,       \* committed debit rows
    due,          \* alerts the call has yet to insert
    alerts,       \* fraud_alerts
    told,         \* alerts the user was sent
    disturbed,    \* calls a fault has hit
    faults

vars == <<clock, pc, born, debits, due, alerts, told, disturbed, faults>>

Types == {"LARGE_AMOUNT", "VELOCITY"}

Alerts == [type : Types, by : Transfers]

Init ==
    /\ clock = 0
    /\ pc    = [t \in Transfers |-> "idle"]
    /\ born  = [t \in Transfers |-> 0]
    /\ debits = {}
    /\ due   = [t \in Transfers |-> <<>>]
    /\ alerts = {}
    /\ told   = {}
    /\ disturbed = {}
    /\ faults = 0

Goto(t, here, there) == pc[t] = here /\ pc' = [pc EXCEPT ![t] = there]

Tick ==
    /\ clock < MaxTime
    /\ clock' = clock + 1
    /\ UNCHANGED <<pc, born, debits, due, alerts, told, disturbed, faults>>

-----------------------------------------------------------------------------
(* The transaction.                                                        *)

Begin(t) ==
    /\ Goto(t, "idle", "open")
    /\ born' = [born EXCEPT ![t] = clock]
    /\ UNCHANGED <<clock, debits, due, alerts, told, disturbed, faults>>

Commit(t) ==
    /\ Goto(t, "open", "committed")
    /\ debits' = debits \cup {t}
    /\ UNCHANGED <<clock, born, due, alerts, told, disturbed, faults>>

\* A refused transfer is rolled back and never evaluated.
Rollback(t) ==
    /\ Goto(t, "open", "done")
    /\ UNCHANGED <<clock, born, debits, due, alerts, told, disturbed, faults>>

-----------------------------------------------------------------------------
(* evaluateTransfer.                                                       *)

Recent(t) == clock - born[t] <= Window

\* A bug: the call leaves its own row out.
CountedOthers(t) == {u \in debits \ {t} : Recent(u)}

\* The rows the velocity query of t counts.
Counted(t) == {u \in debits : Recent(u)}

\* Two bugs: one alert at most, the velocity first; and one for each debit.
FoundOne(t) ==
    IF Cardinality(Counted(t)) >= MaxTxns THEN <<"VELOCITY">>
    ELSE IF t \in Large THEN <<"LARGE_AMOUNT">> ELSE <<>>

FoundPerDebit(t) == [i \in 1 .. Cardinality(Counted(t)) |-> "VELOCITY"]

Found(t) ==
    (IF t \in Large THEN <<"LARGE_AMOUNT">> ELSE <<>>) \o
    (IF Cardinality(Counted(t)) >= MaxTxns THEN <<"VELOCITY">> ELSE <<>>)

EvaluateTransfer(t) ==
    /\ Goto(t, "committed", "alerts")
    /\ due' = [due EXCEPT ![t] = Found(t)]
    /\ UNCHANGED <<clock, born, debits, alerts, told, disturbed, faults>>

CreateAlert(t) ==
    /\ due[t] # <<>>
    /\ Goto(t, "alerts", "notify")
    /\ alerts' = alerts \cup {[type |-> Head(due[t]), by |-> t]}
    /\ UNCHANGED <<clock, born, debits, due, told, disturbed, faults>>

\* The contact is looked up and the message sent; both may fail unnoticed.
Notify(t) ==
    /\ Goto(t, "notify", "alerts")
    /\ due' = [due EXCEPT ![t] = Tail(@)]
    /\ told' \in {told, told \cup {[type |-> Head(due[t]), by |-> t]}}
    /\ UNCHANGED <<clock, born, debits, alerts, disturbed, faults>>

Answer(t) ==
    /\ due[t] = <<>>
    /\ Goto(t, "alerts", "done")
    /\ UNCHANGED <<clock, born, debits, due, alerts, told, disturbed, faults>>

-----------------------------------------------------------------------------
(* Faults.                                                                 *)

Hit(S) ==
    /\ faults < MaxFaults
    /\ faults' = faults + 1
    /\ disturbed' = disturbed \cup S
    /\ pc'  = [t \in Transfers |-> IF t \in S THEN "done" ELSE pc[t]]
    /\ due' = [t \in Transfers |-> IF t \in S THEN <<>> ELSE due[t]]
    /\ UNCHANGED <<clock, born, debits, alerts, told>>

\* The count or an insert throws: every alert still due goes with it.
QueryFails(t) ==
    /\ \/ pc[t] = "committed"
       \/ pc[t] = "alerts" /\ due[t] # <<>>
    /\ Hit({t})

Running == {t \in Transfers : pc[t] \notin {"idle", "done"}}

Crash == Running # {} /\ Hit(Running)

Proceed(t) ==
    \/ Begin(t) \/ Commit(t) \/ Rollback(t)
    \/ EvaluateTransfer(t) \/ CreateAlert(t) \/ Notify(t) \/ Answer(t)

Next ==
    \/ Tick \/ Crash
    \/ \E t \in Transfers : Proceed(t) \/ QueryFails(t)

Spec == Init /\ [][Next]_vars

-----------------------------------------------------------------------------
(* Properties.                                                             *)

TypeOK ==
    /\ clock \in 0 .. MaxTime
    /\ pc \in [Transfers -> {"idle", "open", "committed", "alerts", "notify", "done"}]
    /\ born \in [Transfers -> 0 .. MaxTime]
    /\ debits \subseteq Transfers /\ disturbed \subseteq Transfers
    /\ \A t \in Transfers : due[t] \in {<<>>} \cup [1 .. 1 -> Types] \cup [1 .. 2 -> Types]
    /\ told \subseteq alerts /\ alerts \subseteq Alerts
    /\ faults \in 0 .. MaxFaults

Flagged(type, t) == [type |-> type, by |-> t] \in alerts

\* Whatever the order of the commits and the counts, MaxTxns debits of the last
\* Window minutes have left a VELOCITY alert by one of them, once all of them
\* were evaluated (README.md:318): the last to count has seen all.
VelocityFlagged ==
    \A S \in SUBSET {t \in debits \ disturbed : pc[t] = "done" /\ Recent(t)} :
        Cardinality(S) >= MaxTxns => \E t \in S : Flagged("VELOCITY", t)

\* A large transfer that only the faults of other calls surround has its alert,
\* be it also one too many (fraudDetection.js:73).
LargeFlaggedUnlessHit ==
    \A t \in (debits \cap Large) \ disturbed :
        pc[t] = "done" => Flagged("LARGE_AMOUNT", t)
=============================================================================
