---------------------------- MODULE WaitingProofs ----------------------------
(***************************************************************************)
(* Theorems about MCWaiting, that is about ApiClient, TwoFactor and        *)
(* ListPages, for every value of their constants.  Each component has an   *)
(* invariant of its own, inductive for its own steps; the last part puts   *)
(* them together.  Login is the subject of AccessProofs.                   *)
(***************************************************************************)
EXTENDS MCWaiting, FiniteSets, FiniteSetTheorems, TLAPS

-----------------------------------------------------------------------------
(* ApiClient.                                                              *)

\* Requests that have refreshed once for themselves.
Marked == {r \in Requests : retry[r]}

\* Refreshes that are over: each was led by a request of its own.
Over == Cardinality(Marked) - (IF isRefreshing THEN 1 ELSE 0)

\* A request is sent once by the page, and again at the end of a refresh.
SendsInv ==
    /\ \A r \in Requests : A!Leader(r) => retry[r]
    /\ \A r \in Requests : call[r] = "idle" => sends[r] = 0
    /\ \A r \in Requests : sends[r] <= 1 + Over

\* A refresh is granted before the logout, or not at all.
NoLateGrant == cookie = "revoked" /\ ~crossed => refresh # "granted"

ClientInv ==
    /\ A!TypeOK
    /\ A!WaitingIsServed
    /\ SendsInv
    /\ NoLateGrant
    /\ A!LoggedOutIsOut

LEMMA SameSets ==
    /\ \A x : A!Cardinality(x) = Cardinality(x)
    /\ \A x : A!IsFiniteSet(x) = IsFiniteSet(x)
    /\ \A x : T!Cardinality(x) = Cardinality(x)
    /\ \A x : T!IsFiniteSet(x) = IsFiniteSet(x)
BY DEF A!Cardinality, T!Cardinality, Cardinality,
       A!IsFiniteSet, T!IsFiniteSet, IsFiniteSet

LEMMA ClientConstants ==
    /\ IsFiniteSet(Requests)
    /\ MaxTokens \in Nat /\ MaxTokens > 0
BY WaitingAssumption, SameSets DEF A!ApiClientAssumption

\* There are as many marks as requests at most, and a request that gets its mark
\* makes one more.
LEMMA MarkedFacts ==
    /\ IsFiniteSet(Marked) /\ Cardinality(Marked) \in Nat
    /\ Cardinality(Marked) <= Cardinality(Requests)
BY ClientConstants, FS_Subset, FS_CardinalityType DEF Marked

LEMMA OverFacts ==
    ASSUME ClientInv
    PROVE  Over \in Nat /\ Over <= Cardinality(Requests)
<1>1. CASE isRefreshing
  <2>1. PICK r \in Requests : r \in Marked
    BY <1>1 DEF ClientInv, A!WaitingIsServed, SendsInv, Marked
  <2>2. Cardinality(Marked) # 0
    BY <2>1, MarkedFacts, FS_EmptySet
  <2>3. QED
    BY <1>1, <2>2, MarkedFacts, FS_CardinalityType, ClientConstants DEF Over
<1>2. CASE ~isRefreshing
  BY <1>2, MarkedFacts, FS_CardinalityType, ClientConstants DEF Over
<1>3. QED
  BY <1>1, <1>2

LEMMA ClientInit == A!Init => ClientInv
<1> SUFFICES ASSUME A!Init PROVE ClientInv
  OBVIOUS
<1>1. A!TypeOK
  <2>1. {signed, expired, stored} \subseteq 0 .. MaxTokens /\ 0 \in 0 .. MaxTokens
    BY ClientConstants DEF A!Init
  <2>2. QED
    BY <2>1 DEF A!Init, A!TypeOK
<1>2. A!WaitingIsServed /\ A!LoggedOutIsOut /\ NoLateGrant
  BY DEF A!Init, A!WaitingIsServed, A!LoggedOutIsOut, A!Leader, NoLateGrant
<1>3. SendsInv
  <2>1. Marked = {}
    BY DEF A!Init, Marked
  <2>2. Over = 0
    BY <2>1, FS_EmptySet DEF A!Init, Over
  <2>3. QED
    BY <2>2 DEF A!Init, SendsInv, A!Leader
<1>4. QED
  BY <1>1, <1>2, <1>3 DEF ClientInv

\* The marks and the refresh stay as they are, and nobody is sent who was sent
\* before.
LEMMA SendsStill ==
    ASSUME ClientInv, UNCHANGED <<retry, isRefreshing>>,
           \A r \in Requests :
              /\ A!Leader(r)' => A!Leader(r)
              /\ \/ sends'[r] = sends[r] /\ (call'[r] = "idle" => call[r] = "idle")
                 \/ call[r] = "idle" /\ sends'[r] = sends[r] + 1 /\ call'[r] # "idle"
    PROVE  SendsInv'
<1>1. Over' = Over /\ Over \in Nat
  BY OverFacts DEF Over, Marked
<1>2. ASSUME NEW r \in Requests PROVE sends'[r] <= 1 + Over
  BY <1>1, OverFacts DEF ClientInv, SendsInv, A!TypeOK
<1>3. QED
  BY <1>1, <1>2 DEF ClientInv, SendsInv

\* The refresh under way is over.
LEMMA OverNext ==
    ASSUME ClientInv, isRefreshing, ~isRefreshing', retry' = retry
    PROVE  Over' = Over + 1
BY MarkedFacts DEF Over, Marked

\* One request is answered and done with.
LEMMA SettleStep ==
    ASSUME ClientInv, NEW r \in Requests, call[r] = "sent", ~A!Leader(r),
           NEW result \in {"ok", "failed"}, A!Settle(r, result),
           UNCHANGED <<signed, expired, cookie, with, retry, sends, isRefreshing, queue,
                       refresh, out, crossed, page>>
    PROVE  ClientInv'
<1>1. /\ call' = [call EXCEPT ![r] = result]
      /\ user' \in {"loading", "in", "none"}
      /\ stored' = stored \/ stored' = 0
  BY DEF A!Settle, A!UserOf, ClientInv, A!TypeOK
<1>2. A!TypeOK'
  BY <1>1, ClientConstants DEF ClientInv, A!TypeOK
<1>3. A!WaitingIsServed'
  BY <1>1 DEF ClientInv, A!TypeOK, A!WaitingIsServed, A!Leader
<1>4. SendsInv'
  BY <1>1, SendsStill DEF ClientInv, A!TypeOK, A!Leader
<1>5. NoLateGrant' /\ A!LoggedOutIsOut'
  BY <1>1 DEF ClientInv, NoLateGrant, A!LoggedOutIsOut
<1>6. QED
  BY <1>2, <1>3, <1>4, <1>5 DEF ClientInv

LEMMA QueueStep ==
    ASSUME ClientInv, NEW r \in Requests, call[r] = "sent", A!Queue(r),
           UNCHANGED <<signed, expired, cookie, with, sends, out, crossed, page>>
    PROVE  ClientInv'
<1>1. /\ isRefreshing /\ call' = [call EXCEPT ![r] = "queued"] /\ queue' = queue \cup {r}
      /\ UNCHANGED <<stored, retry, isRefreshing, refresh, user>>
  BY DEF A!Queue, A!MustWait
<1>2. A!TypeOK'
  BY <1>1 DEF ClientInv, A!TypeOK
<1>3. A!WaitingIsServed'
  BY <1>1 DEF ClientInv, A!TypeOK, A!WaitingIsServed, A!Leader
<1>4. SendsInv'
  BY <1>1, SendsStill DEF ClientInv, A!TypeOK, A!Leader
<1>5. NoLateGrant' /\ A!LoggedOutIsOut'
  BY <1>1 DEF ClientInv, NoLateGrant, A!LoggedOutIsOut
<1>6. QED
  BY <1>2, <1>3, <1>4, <1>5 DEF ClientInv

\* The mark that a request gets and the refresh it starts cancel out.
LEMMA StartRefreshStep ==
    ASSUME ClientInv, NEW r \in Requests, call[r] = "sent", ~retry[r], A!StartRefresh(r),
           UNCHANGED <<signed, expired, cookie, with, sends, out, crossed, page>>
    PROVE  ClientInv'
<1>1. /\ ~isRefreshing /\ call' = [call EXCEPT ![r] = "refreshing"] /\ isRefreshing'
      /\ retry' = [retry EXCEPT ![r] = TRUE] /\ refresh' = "asked"
      /\ isRefreshing' \in BOOLEAN
      /\ UNCHANGED <<stored, queue, user>>
  BY DEF A!StartRefresh, A!MustWait, A!Mark
<1>2. A!TypeOK'
  BY <1>1 DEF ClientInv, A!TypeOK
<1>3. A!WaitingIsServed'
  BY <1>1 DEF ClientInv, A!TypeOK, A!WaitingIsServed, A!Leader
<1>4. SendsInv'
  <2>1. Marked' = Marked \cup {r} /\ r \notin Marked
    BY <1>1 DEF Marked, ClientInv, A!TypeOK
  <2>2. Cardinality(Marked') = Cardinality(Marked) + 1
    BY <2>1, MarkedFacts, FS_AddElement
  <2>3. Over' = Over
    BY <1>1, <2>2, MarkedFacts DEF Over
  <2>4. \A q \in Requests : sends'[q] <= 1 + Over'
    BY <2>3 DEF ClientInv, SendsInv
  <2>5. \A q \in Requests : call'[q] = "idle" => sends'[q] = 0
    BY <1>1 DEF ClientInv, SendsInv, A!TypeOK
  <2>6. \A q \in Requests : A!Leader(q)' => retry'[q]
    BY <1>1 DEF ClientInv, SendsInv, A!TypeOK, A!Leader
  <2>7. QED
    BY <2>4, <2>5, <2>6 DEF SendsInv
<1>5. NoLateGrant' /\ A!LoggedOutIsOut'
  BY <1>1 DEF ClientInv, NoLateGrant, A!LoggedOutIsOut
<1>6. QED
  BY <1>2, <1>3, <1>4, <1>5 DEF ClientInv

\* The queue and its leader are sent again, and the refresh is over.
LEMMA RefreshedStep ==
    ASSUME ClientInv, NEW r \in Requests, A!Refreshed(r)
    PROVE  ClientInv'
<1> DEFINE served == queue \cup {r}
<1>1. /\ A!Leader(r) /\ refresh = "granted" /\ stored' = signed
      /\ call'  = [q \in Requests |-> IF q \in served THEN "sent" ELSE call[q]]
      /\ with'  = [q \in Requests |-> IF q \in served THEN signed ELSE with[q]]
      /\ sends' = [q \in Requests |-> IF q \in served THEN sends[q] + 1 ELSE sends[q]]
      /\ queue' = {} /\ isRefreshing' = FALSE /\ refresh' = "none"
      /\ UNCHANGED <<signed, expired, cookie, retry, user, out, crossed, page>>
  BY DEF A!Refreshed, A!Send, A!Served, A!tokenVars, A!userVars
<1>2. /\ \A q \in Requests : A!Leader(q) => q = r
      /\ isRefreshing
      /\ \A q \in Requests : call[q] = "queued" => q \in queue
  BY <1>1 DEF ClientInv, A!WaitingIsServed
<1> HIDE DEF served
<1>3. A!TypeOK'
  <2>1. \A q \in Requests : sends[q] \in Nat /\ sends[q] + 1 \in Nat
    BY DEF ClientInv, A!TypeOK
  <2>2. sends' \in [Requests -> Nat]
    BY <1>1, <2>1
  <2>3. signed \in 0 .. MaxTokens
    BY DEF ClientInv, A!TypeOK
  <2>4. QED
    BY <1>1, <2>2, <2>3 DEF ClientInv, A!TypeOK
<1>4. \A q \in Requests : ~A!Leader(q)' /\ call'[q] # "queued"
  BY <1>1, <1>2 DEF served, A!Leader
<1>5. A!WaitingIsServed'
  BY <1>1, <1>4 DEF A!WaitingIsServed
<1>6. SendsInv'
  <2>1. Over' = Over + 1 /\ Over \in Nat
    BY <1>1, <1>2, OverNext, OverFacts
  <2>2. ASSUME NEW q \in Requests
        PROVE  sends'[q] <= 1 + Over' /\ (call'[q] = "idle" => sends'[q] = 0)
    <3>1. sends[q] \in Nat /\ sends[q] <= 1 + Over /\ (call[q] = "idle" => sends[q] = 0)
      BY DEF ClientInv, SendsInv, A!TypeOK
    <3>2. QED
      BY <1>1, <2>1, <3>1
  <2>3. QED
    BY <1>4, <2>2 DEF SendsInv
<1>7. NoLateGrant' /\ A!LoggedOutIsOut'
  BY <1>1 DEF ClientInv, NoLateGrant, A!LoggedOutIsOut
<1>8. QED
  BY <1>3, <1>5, <1>6, <1>7 DEF ClientInv

LEMMA RefreshFailedStep ==
    ASSUME ClientInv, NEW r \in Requests, A!RefreshFailed(r)
    PROVE  ClientInv'
<1> DEFINE served == queue \cup {r}
<1>1. /\ A!Leader(r) /\ stored' = 0
      /\ call' = [q \in Requests |-> IF q \in served THEN "failed" ELSE call[q]]
      /\ user' \in {"none", user} /\ page' = "leaving"
      /\ queue' = {} /\ isRefreshing' = FALSE /\ refresh' = "none"
      /\ UNCHANGED <<signed, expired, cookie, with, retry, sends, out, crossed>>
  BY DEF A!RefreshFailed, A!Served, A!tokenVars
<1>2. /\ \A q \in Requests : A!Leader(q) => q = r
      /\ isRefreshing
      /\ \A q \in Requests : call[q] = "queued" => q \in queue
  BY <1>1 DEF ClientInv, A!WaitingIsServed
<1> HIDE DEF served
<1>3. A!TypeOK'
  <2>1. 0 \in 0 .. MaxTokens
    BY ClientConstants
  <2>2. QED
    BY <1>1, <2>1 DEF ClientInv, A!TypeOK
<1>4. \A q \in Requests : ~A!Leader(q)' /\ call'[q] # "queued"
  BY <1>1, <1>2 DEF served, A!Leader
<1>5. A!WaitingIsServed'
  BY <1>1, <1>4 DEF A!WaitingIsServed
<1>6. SendsInv'
  <2>1. Over' = Over + 1 /\ Over \in Nat
    BY <1>1, <1>2, OverNext, OverFacts
  <2>2. ASSUME NEW q \in Requests
        PROVE  sends'[q] <= 1 + Over' /\ (call'[q] = "idle" => sends'[q] = 0)
    <3>1. sends[q] \in Nat /\ sends[q] <= 1 + Over /\ (call[q] = "idle" => sends[q] = 0)
      BY DEF ClientInv, SendsInv, A!TypeOK
    <3>2. QED
      BY <1>1, <2>1, <3>1
  <2>3. QED
    BY <1>4, <2>2 DEF SendsInv
<1>7. NoLateGrant' /\ A!LoggedOutIsOut'
  BY <1>1 DEF ClientInv, NoLateGrant, A!LoggedOutIsOut
<1>8. QED
  BY <1>3, <1>5, <1>6, <1>7 DEF ClientInv

\* The steps that answer no request of the page.
LEMMA OutsideStep ==
    ASSUME ClientInv,
           \/ A!Expire \/ A!ServeRefresh \/ A!ServeLogout \/ A!Unload \/ A!Logout
           \/ A!LoggedOut \/ UNCHANGED A!vars
    PROVE  ClientInv'
<1> USE DEF A!tokenVars, A!callVars, A!refreshVars, A!userVars, A!vars
<1>1. /\ UNCHANGED <<call, with, retry, sends, isRefreshing, queue>>
      /\ UNCHANGED signed \/ (signed < MaxTokens /\ signed' = signed + 1)
      /\ expired' \in {expired, signed} /\ cookie' \in {cookie, "revoked"}
      /\ stored' \in {stored, 0} /\ refresh' \in {refresh, "granted", "denied"}
      /\ user' \in {user, "none"} /\ out' \in {out, "asked", "answered", "done"}
      /\ page' \in {page, "gone"}
  BY DEF A!Expire, A!ServeRefresh, A!ServeLogout, A!Unload, A!Logout, A!LoggedOut
<1>2. A!TypeOK'
  <2>1. signed' \in 0 .. MaxTokens /\ 0 \in 0 .. MaxTokens
    BY <1>1, ClientConstants DEF ClientInv, A!TypeOK
  <2>2. {signed', expired', stored'} \subseteq 0 .. MaxTokens
    BY <1>1, <2>1 DEF ClientInv, A!TypeOK
  <2>3. /\ cookie' \in {"valid", "revoked"} /\ user' \in {"loading", "in", "none"}
        /\ refresh' \in {"none", "asked", "granted", "denied"}
        /\ out' \in {"no", "asked", "answered", "done"}
        /\ page' \in {"open", "leaving", "gone"}
    BY <1>1 DEF ClientInv, A!TypeOK
  <2>4. crossed' \in BOOLEAN
    BY DEF ClientInv, A!TypeOK, A!Expire, A!ServeRefresh, A!ServeLogout, A!Unload,
           A!Logout, A!LoggedOut
  <2>5. QED
    BY <1>1, <2>2, <2>3, <2>4 DEF ClientInv, A!TypeOK
<1>3. A!WaitingIsServed'
  BY <1>1 DEF ClientInv, A!WaitingIsServed, A!Leader
<1>4. SendsInv'
  BY <1>1, SendsStill DEF A!Leader
<1>5. NoLateGrant'
  BY DEF ClientInv, NoLateGrant, A!TypeOK, A!Expire, A!ServeRefresh, A!ServeLogout,
         A!Unload, A!Logout, A!LoggedOut, A!MayRefresh
<1>6. A!LoggedOutIsOut'
  BY DEF ClientInv, A!LoggedOutIsOut, A!TypeOK, A!Expire, A!ServeRefresh, A!ServeLogout,
         A!Unload, A!Logout, A!LoggedOut
<1>7. QED
  BY <1>2, <1>3, <1>4, <1>5, <1>6 DEF ClientInv

LEMMA CallStep ==
    ASSUME ClientInv, NEW r \in Requests, A!Call(r)
    PROVE  ClientInv'
<1>1. /\ call[r] = "idle"
      /\ call'  = [q \in Requests |-> IF q \in {r} THEN "sent" ELSE call[q]]
      /\ with'  = [q \in Requests |-> IF q \in {r} THEN stored ELSE with[q]]
      /\ sends' = [q \in Requests |-> IF q \in {r} THEN sends[q] + 1 ELSE sends[q]]
      /\ UNCHANGED <<signed, expired, cookie, stored, retry, isRefreshing, queue, refresh,
                     user, out, crossed, page>>
  BY DEF A!Call, A!Send, A!tokenVars, A!refreshVars, A!userVars
<1>2. A!TypeOK'
  <2>1. \A q \in Requests : sends[q] \in Nat /\ sends[q] + 1 \in Nat
    BY DEF ClientInv, A!TypeOK
  <2>2. sends' \in [Requests -> Nat]
    BY <1>1, <2>1
  <2>3. stored \in 0 .. MaxTokens /\ \A q \in Requests : with[q] \in 0 .. MaxTokens
    BY DEF ClientInv, A!TypeOK
  <2>4. with' \in [Requests -> 0 .. MaxTokens]
    BY <1>1, <2>3
  <2>5. call' \in [Requests -> {"idle", "sent", "queued", "refreshing", "ok", "failed"}]
    BY <1>1 DEF ClientInv, A!TypeOK
  <2>6. queue' \subseteq {q \in Requests : call'[q] = "queued"}
    BY <1>1 DEF ClientInv, A!TypeOK
  <2>7. QED
    BY <1>1, <2>2, <2>4, <2>5, <2>6 DEF ClientInv, A!TypeOK
<1>3. A!WaitingIsServed'
  BY <1>1 DEF ClientInv, A!WaitingIsServed, A!Leader
<1>4. SendsInv'
  <2>1. ASSUME NEW q \in Requests
        PROVE  /\ A!Leader(q)' => A!Leader(q)
               /\ \/ sends'[q] = sends[q] /\ (call'[q] = "idle" => call[q] = "idle")
                  \/ call[q] = "idle" /\ sends'[q] = sends[q] + 1 /\ call'[q] # "idle"
    BY <1>1 DEF A!Leader
  <2>2. QED
    BY <1>1, <2>1, SendsStill
<1>5. NoLateGrant' /\ A!LoggedOutIsOut'
  BY <1>1 DEF ClientInv, NoLateGrant, A!LoggedOutIsOut
<1>6. QED
  BY <1>2, <1>3, <1>4, <1>5 DEF ClientInv

LEMMA ClientStep ==
    ASSUME ClientInv, A!Next \/ UNCHANGED A!vars
    PROVE  ClientInv'
<1>1. ASSUME NEW r \in Requests, A!Answered(r) PROVE ClientInv'
  BY <1>1, SettleStep DEF A!Answered, A!Leader, A!tokenVars, A!refreshVars
<1>2. ASSUME NEW r \in Requests, A!Unauthorised(r) PROVE ClientInv'
  <2>1. /\ call[r] = "sent" /\ ~A!Leader(r)
        /\ UNCHANGED <<signed, expired, cookie, with, sends, out, crossed, page>>
        /\ IF retry[r] THEN A!GiveUp(r) ELSE A!Queue(r) \/ A!StartRefresh(r)
    BY <1>2 DEF A!Unauthorised, A!tokenVars, A!Leader
  <2>2. CASE A!GiveUp(r)
    <3>1. A!Settle(r, "failed") /\ UNCHANGED <<retry, isRefreshing, queue, refresh>>
      BY <2>2 DEF A!GiveUp, A!refreshVars
    <3>2. QED
      BY <2>1, <3>1, SettleStep
  <2>3. CASE A!Queue(r)
    BY <2>1, <2>3, QueueStep
  <2>4. CASE ~retry[r] /\ A!StartRefresh(r)
    BY <2>1, <2>4, StartRefreshStep
  <2>5. QED
    BY <2>1, <2>2, <2>3, <2>4
<1>3. QED
  BY <1>1, <1>2, OutsideStep, CallStep, RefreshedStep, RefreshFailedStep
     DEF A!Next, A!Respond

LEMMA ClientCorrect ==
    ClientInv => A!TypeOK /\ A!WaitingIsServed /\ A!SendsBounded /\ A!LoggedOutIsOut
<1> SUFFICES ASSUME ClientInv PROVE A!SendsBounded
  BY DEF ClientInv
<1>1. Over \in Nat /\ Over <= Cardinality(Requests) /\ Cardinality(Requests) \in Nat
  BY OverFacts, ClientConstants, FS_CardinalityType
<1>2. \A r \in Requests : sends[r] \in Nat /\ sends[r] <= 1 + Over
  BY DEF ClientInv, SendsInv, A!TypeOK
<1>3. QED
  BY <1>1, <1>2, SameSets DEF A!SendsBounded

-----------------------------------------------------------------------------
(* TwoFactor.                                                              *)

\* Requests of the second step that have looked up the challenge of a login.
Asking(l) == {v \in Verifiers : pc[v] = "found" /\ of[v] = l}

FactorTypes ==
    /\ enabled \in BOOLEAN
    /\ secret \in generated \cup {None} /\ app \in Secrets \cup {None}
    /\ confirmed \subseteq generated /\ generated \subseteq Secrets
    /\ view \in [Tabs -> BOOLEAN]
    /\ qr \in [Tabs -> Secrets \cup {None}]
    /\ click \in [Clicks -> T!Request \cup {T!Idle}]
    /\ \A c \in Clicks : click[c].at = "setup" => click[c].code \in generated
    /\ blind \in BOOLEAN
    /\ challenge \in [Logins -> {"none", "open", "in"}]
    /\ accepted \in [Logins -> Nat]
    /\ pc \in [Verifiers -> {"idle", "found"}]
    /\ of \in [Verifiers -> Logins \cup {None}]
    /\ faults \in 0 .. MaxTabFaults

\* A user who presses no button blindly has one request under way at most: none to
\* set up what is on, and none that has verified a secret no longer in the row.
Careful ==
    /\ \A c, d \in Clicks : click[c].at # "idle" /\ click[d].at # "idle" => c = d
    /\ \A c \in Clicks :
          /\ click[c].at = "setup" => ~enabled
          /\ click[c].at = "enable" => secret \in confirmed
    /\ enabled => secret \in confirmed

PageInv == ~blind => Careful

\* Nobody was let in by an open challenge yet; who was, is no longer asking.
ChallengeInv ==
    /\ \A v \in Verifiers : pc[v] = "found" => of[v] \in Logins
    /\ \A l \in Logins :
          /\ challenge[l] = "open" => accepted[l] = 0
          /\ accepted[l] + Cardinality(Asking(l)) <= Cardinality(Verifiers)

FactorInv == FactorTypes /\ PageInv /\ ChallengeInv

LEMMA FactorConstants ==
    /\ None \notin Secrets
    /\ IsFiniteSet(Verifiers)
    /\ MaxTabFaults \in Nat
BY WaitingAssumption, SameSets DEF T!TwoFactorAssumption

LEMMA AskingFacts ==
    ASSUME NEW S \in SUBSET Verifiers
    PROVE  /\ IsFiniteSet(S) /\ Cardinality(S) \in Nat
           /\ Cardinality(S) <= Cardinality(Verifiers)
           /\ Cardinality(Verifiers) \in Nat
BY FactorConstants, FS_Subset, FS_CardinalityType

LEMMA FactorInit == T!Init => FactorInv
<1> SUFFICES ASSUME T!Init PROVE FactorInv
  OBVIOUS
<1>0. 0 \in 0 .. MaxTabFaults
  BY FactorConstants
<1>1. FactorTypes
  BY <1>0 DEF T!Init, T!Idle, FactorTypes
<1>p. PageInv
  BY DEF T!Init, T!Idle, PageInv, Careful
<1>2. \A l \in Logins : Asking(l) = {}
  BY DEF T!Init, Asking
<1>3. Cardinality({}) = 0 /\ Cardinality(Verifiers) \in Nat
  BY FS_EmptySet, AskingFacts
<1>4. ChallengeInv
  BY <1>2, <1>3, AskingFacts DEF T!Init, ChallengeInv
<1>5. QED
  BY <1>1, <1>p, <1>4 DEF FactorInv

\* Requests move on, or end, or are heard by fewer.
LEMMA ClickTypes ==
    ASSUME FactorTypes, NEW c \in Clicks
    PROVE  /\ click[c] = T!Idle \/ click[c] \in T!Request
           /\ click[c] = T!Idle <=> click[c].at = "idle"
           /\ click[c] # T!Idle => click[c].by \in Tabs
           /\ click[c].code \in Secrets \cup {None}
           /\ click[c].heard # "no" => click[c] # T!Idle
BY DEF FactorTypes, T!Request, T!Idle

LEMMA GotoFacts ==
    ASSUME FactorTypes, NEW c \in Clicks, NEW here, NEW there, T!Goto(c, here, there),
           here # "idle",
           there \in {"setupDone", "enable", "confirmDone", "disableDone"}
    PROVE  /\ click' \in [Clicks -> T!Request \cup {T!Idle}]
           /\ click[c].at = here /\ click'[c].at = there
           /\ \A d \in Clicks : d # c => click'[d] = click[d]
<1>1. click[c].at = here /\ click' = [click EXCEPT ![c].at = there]
  BY DEF T!Goto
<1>2. click[c] \in T!Request /\ click \in [Clicks -> T!Request \cup {T!Idle}]
  BY <1>1, ClickTypes DEF FactorTypes
<1>3. [click[c] EXCEPT !.at = there] \in T!Request
  BY <1>2 DEF T!Request
<1>4. click'[c] = [click[c] EXCEPT !.at = there] /\ click'[c].at = there
  BY <1>1, <1>2 DEF T!Request
<1>5. \A d \in Clicks : d # c => click'[d] = click[d]
  BY <1>1, <1>2
<1>6. click' \in [Clicks -> T!Request \cup {T!Idle}]
  BY <1>1, <1>2, <1>3
<1>7. QED
  BY <1>1, <1>4, <1>5, <1>6

LEMMA EndFacts ==
    ASSUME FactorTypes, NEW c \in Clicks, T!End(c)
    PROVE  /\ click' \in [Clicks -> T!Request \cup {T!Idle}]
           /\ click'[c].at = "idle"
           /\ \A d \in Clicks : d # c => click'[d] = click[d]
BY DEF FactorTypes, T!End, T!Idle

\* What a tab hears changes no request of it but in that.
LEMMA HeardFacts ==
    ASSUME FactorTypes, NEW t \in Tabs, T!Leave(t) \/ T!Reload(t)
    PROVE  /\ click' \in [Clicks -> T!Request \cup {T!Idle}]
           /\ \A d \in Clicks : click'[d].at = click[d].at /\ click'[d].code = click[d].code
<1> SUFFICES ASSUME NEW d \in Clicks
             PROVE  /\ click'[d] \in T!Request \cup {T!Idle}
                    /\ click'[d].at = click[d].at /\ click'[d].code = click[d].code
  <2>1. \E f : click' = [d \in Clicks |-> f[d]]
    <3>1. click' = [d \in Clicks |-> click'[d]]
      BY DEF T!Leave, T!Reload
    <3>2. QED
      BY <3>1
  <2>2. QED
    BY <2>1
<1>1. \/ click'[d] = click[d]
      \/ click'[d] = [click[d] EXCEPT !.heard = "context"] /\ click[d].heard = "page"
      \/ click'[d] = [click[d] EXCEPT !.heard = "no"]
  BY DEF T!Leave, T!Reload
<1>2. CASE click[d] = T!Idle
  BY <1>1, <1>2 DEF T!Idle
<1>3. CASE click[d] \in T!Request
  BY <1>1, <1>3 DEF T!Request
<1>4. QED
  BY <1>2, <1>3, ClickTypes

\* The steps of the user.
LEMMA ClickStep ==
    ASSUME FactorTypes, PageInv, NEW t \in Tabs, NEW c \in Clicks,
           NEW kind \in {"setup", "confirm", "disable"}, NEW code \in Secrets \cup {None},
           T!Press(c, t, kind, code), blind' \in BOOLEAN,
           generated \subseteq generated' /\ generated' \subseteq Secrets,
           kind = "setup" => code \in generated',
           ~blind' => /\ T!UnderWay = {}
                      /\ kind = "setup" => ~enabled
                      /\ ~blind \/ ~enabled
    PROVE  FactorTypes' /\ PageInv' /\ UNCHANGED T!loginVars
<1> USE DEF T!rowVars, T!tabVars, T!loginVars
<1> DEFINE new == [at |-> kind, by |-> t, code |-> code, heard |-> "page"]
<1>1. /\ click[c] = T!Idle /\ click' = [click EXCEPT ![c] = new]
      /\ UNCHANGED <<enabled, secret, confirmed, app, view, qr, challenge, accepted, pc, of,
                     faults>>
  BY DEF T!Press
<1>2. new \in T!Request /\ new.at = kind /\ new.code = code
  BY DEF T!Request
<1> HIDE DEF new
<1>3. /\ click'[c] = new /\ \A d \in Clicks : d # c => click'[d] = click[d]
      /\ click' \in [Clicks -> T!Request \cup {T!Idle}]
  BY <1>1, <1>2 DEF FactorTypes
<1>4. \A d \in Clicks : click'[d].at = "setup" => click'[d].code \in generated'
  BY <1>2, <1>3 DEF FactorTypes
<1>5. FactorTypes'
  BY <1>1, <1>3, <1>4 DEF FactorTypes
<1>6. ASSUME ~blind' PROVE Careful'
  <2>1. \A d \in Clicks : click[d].at = "idle"
    BY <1>6, ClickTypes DEF T!UnderWay
  <2>2. \A d \in Clicks : d # c => click'[d].at = "idle"
    BY <1>3, <2>1
  <2>3. enabled => secret \in confirmed
    BY <1>6 DEF PageInv, Careful
  <2>4. click'[c].at = kind
    BY <1>2, <1>3
  <2>5. QED
    BY <1>1, <1>6, <2>2, <2>3, <2>4 DEF Careful
<1>7. QED
  BY <1>1, <1>5, <1>6 DEF PageInv

LEMMA UserStep ==
    ASSUME FactorTypes, PageInv, NEW t \in Tabs,
           \/ \E c \in Clicks : \/ T!PressSetup(c, t) \/ T!PressConfirm(c, t)
                                \/ T!PressDisable(c, t)
           \/ T!Scan(t) \/ T!Leave(t) \/ T!Reload(t)
    PROVE  FactorTypes' /\ PageInv' /\ UNCHANGED T!loginVars
<1> USE DEF T!rowVars, T!userVars, T!tabVars, T!loginVars
<1>1. ASSUME NEW c \in Clicks, T!PressSetup(c, t)
      PROVE  FactorTypes' /\ PageInv' /\ UNCHANGED T!loginVars
  <2>1. PICK k \in Secrets \ generated :
          T!Press(c, t, "setup", k) /\ generated' = generated \cup {k}
    BY <1>1 DEF T!PressSetup
  <2>2. /\ ~view[t] /\ view[t] \in BOOLEAN
        /\ blind' = (T!UnderWay # {} \/ (enabled /\ (blind \/ ~view[t])))
    BY <1>1 DEF T!PressSetup, T!OffersSetup, FactorTypes
  <2>3. blind' \in BOOLEAN /\ (~blind' => T!UnderWay = {} /\ ~enabled)
    BY <2>2 DEF FactorTypes
  <2>4. generated' \subseteq Secrets
    BY <2>1 DEF FactorTypes
  <2>5. QED
    BY <2>1, <2>3, <2>4, ClickStep
<1>2. ASSUME NEW c \in Clicks, T!PressConfirm(c, t)
      PROVE  FactorTypes' /\ PageInv' /\ UNCHANGED T!loginVars
  <2>1. /\ T!Press(c, t, "confirm", app) /\ generated' = generated
        /\ blind' = (blind \/ T!UnderWay # {}) /\ app \in Secrets \cup {None}
        /\ generated \subseteq Secrets
    BY <1>2 DEF T!PressConfirm, T!Hasty, FactorTypes
  <2>2. blind' \in BOOLEAN /\ (~blind' => T!UnderWay = {} /\ ~blind)
    BY <2>1 DEF FactorTypes
  <2>3. QED
    BY <2>1, <2>2, ClickStep
<1>3. ASSUME NEW c \in Clicks, T!PressDisable(c, t)
      PROVE  FactorTypes' /\ PageInv' /\ UNCHANGED T!loginVars
  <2>1. /\ T!Press(c, t, "disable", None) /\ generated' = generated
        /\ blind' = (blind \/ T!UnderWay # {})
        /\ generated \subseteq Secrets
    BY <1>3 DEF T!PressDisable, T!Hasty, FactorTypes
  <2>2. blind' \in BOOLEAN /\ (~blind' => T!UnderWay = {} /\ ~blind)
    BY <2>1 DEF FactorTypes
  <2>3. QED
    BY <2>1, <2>2, ClickStep
<1>4. CASE T!Scan(t)
  BY <1>4 DEF T!Scan, FactorTypes, PageInv, Careful
<1>5. CASE T!Leave(t) \/ T!Reload(t)
  <2>1. /\ click' \in [Clicks -> T!Request \cup {T!Idle}]
        /\ \A d \in Clicks : click'[d].at = click[d].at /\ click'[d].code = click[d].code
    BY <1>5, HeardFacts
  <2>2. /\ UNCHANGED <<enabled, secret, generated, confirmed, app, blind, challenge,
                       accepted, pc, of, faults>>
        /\ view' \in [Tabs -> BOOLEAN] /\ qr' \in [Tabs -> Secrets \cup {None}]
    BY <1>5 DEF T!Leave, T!Reload, FactorTypes
  <2>3. FactorTypes'
    BY <2>1, <2>2 DEF FactorTypes
  <2>4. PageInv'
    BY <2>1, <2>2 DEF PageInv, Careful
  <2>5. QED
    BY <2>2, <2>3, <2>4
<1>6. QED
  BY <1>1, <1>2, <1>3, <1>4, <1>5

\* The steps of the handlers.
LEMMA HandlerStep ==
    ASSUME FactorTypes, PageInv, NEW c \in Clicks,
           \/ T!SetSecret(c) \/ T!VerifyCode(c) \/ T!Enable(c) \/ T!Disable(c)
    PROVE  FactorTypes' /\ PageInv' /\ UNCHANGED T!loginVars
<1> USE DEF T!rowVars, T!userVars, T!tabVars, T!loginVars
<1>1. CASE T!SetSecret(c)
  <2>1. /\ T!Goto(c, "setup", "setupDone") /\ secret' = click[c].code
        /\ UNCHANGED <<enabled, generated, confirmed, app, blind, view, qr, challenge,
                       accepted, pc, of, faults>>
    BY <1>1 DEF T!SetSecret
  <2>2. /\ click' \in [Clicks -> T!Request \cup {T!Idle}]
        /\ click[c].at = "setup" /\ click'[c].at = "setupDone"
        /\ \A d \in Clicks : d # c => click'[d] = click[d]
    BY <2>1, GotoFacts
  <2>3. FactorTypes'
    BY <2>1, <2>2 DEF FactorTypes
  <2>4. ASSUME ~blind PROVE Careful'
    BY <2>1, <2>2, <2>4 DEF PageInv, Careful
  <2>5. QED
    BY <2>1, <2>3, <2>4 DEF PageInv
<1>2. CASE T!VerifyCode(c)
  <2>1. /\ T!Goto(c, "confirm", "enable") /\ confirmed' = confirmed \cup {secret}
        /\ secret # None
        /\ UNCHANGED <<enabled, secret, generated, app, blind, view, qr, challenge,
                       accepted, pc, of, faults>>
    BY <1>2 DEF T!VerifyCode, T!Verifies
  <2>2. /\ click' \in [Clicks -> T!Request \cup {T!Idle}]
        /\ click[c].at = "confirm" /\ click'[c].at = "enable"
        /\ \A d \in Clicks : d # c => click'[d] = click[d]
    BY <2>1, GotoFacts
  <2>3. FactorTypes'
    BY <2>1, <2>2 DEF FactorTypes
  <2>4. ASSUME ~blind PROVE Careful'
    BY <2>1, <2>2, <2>4 DEF PageInv, Careful
  <2>5. QED
    BY <2>1, <2>3, <2>4 DEF PageInv
<1>3. CASE T!Enable(c)
  <2>1. /\ T!Goto(c, "enable", "confirmDone") /\ enabled' = TRUE
        /\ UNCHANGED <<secret, generated, confirmed, app, blind, view, qr, challenge,
                       accepted, pc, of, faults>>
    BY <1>3 DEF T!Enable
  <2>2. /\ click' \in [Clicks -> T!Request \cup {T!Idle}]
        /\ click[c].at = "enable" /\ click'[c].at = "confirmDone"
        /\ \A d \in Clicks : d # c => click'[d] = click[d]
    BY <2>1, GotoFacts
  <2>3. FactorTypes'
    BY <2>1, <2>2 DEF FactorTypes
  <2>4. ASSUME ~blind PROVE Careful'
    BY <2>1, <2>2, <2>4 DEF PageInv, Careful
  <2>5. QED
    BY <2>1, <2>3, <2>4 DEF PageInv
<1>4. CASE T!Disable(c)
  <2>1. /\ T!Goto(c, "disable", "disableDone") /\ enabled' = FALSE /\ secret' = None
        /\ UNCHANGED <<generated, confirmed, app, blind, view, qr, challenge,
                       accepted, pc, of, faults>>
    BY <1>4 DEF T!Disable, T!Clear
  <2>2. /\ click' \in [Clicks -> T!Request \cup {T!Idle}]
        /\ click[c].at = "disable" /\ click'[c].at = "disableDone"
        /\ \A d \in Clicks : d # c => click'[d] = click[d]
    BY <2>1, GotoFacts
  <2>3. FactorTypes'
    BY <2>1, <2>2 DEF FactorTypes
  <2>4. ASSUME ~blind PROVE Careful'
    BY <2>1, <2>2, <2>4 DEF PageInv, Careful
  <2>5. QED
    BY <2>1, <2>3, <2>4 DEF PageInv
<1>5. QED
  BY <1>1, <1>2, <1>3, <1>4

\* The steps that end a request.
LEMMA EndedStep ==
    ASSUME FactorTypes, PageInv, NEW c \in Clicks,
           \/ T!RefuseCode(c) \/ T!Fails(c) \/ T!SetupAnswered(c) \/ T!ConfirmAnswered(c)
           \/ T!DisableAnswered(c)
    PROVE  FactorTypes' /\ PageInv' /\ UNCHANGED T!loginVars
<1> USE DEF T!rowVars, T!userVars, T!tabVars, T!loginVars
<1>1. T!End(c)
  BY DEF T!RefuseCode, T!Fails, T!SetupAnswered, T!ConfirmAnswered, T!DisableAnswered
<1>2. /\ click' \in [Clicks -> T!Request \cup {T!Idle}]
      /\ click'[c].at = "idle" /\ \A d \in Clicks : d # c => click'[d] = click[d]
  BY <1>1, EndFacts
<1>3. UNCHANGED <<enabled, secret, generated, confirmed, app, blind, challenge, accepted,
                  pc, of>>
  BY DEF T!RefuseCode, T!Fails, T!SetupAnswered, T!ConfirmAnswered, T!DisableAnswered
<1>4. faults' \in 0 .. MaxTabFaults
  <2>1. faults' = faults \/ T!Fault
    BY DEF T!RefuseCode, T!Fails, T!SetupAnswered, T!ConfirmAnswered, T!DisableAnswered
  <2>2. faults \in 0 .. MaxTabFaults
    BY DEF FactorTypes
  <2>3. QED
    BY <2>1, <2>2, FactorConstants DEF T!Fault
<1>5. view' \in [Tabs -> BOOLEAN] /\ qr' \in [Tabs -> Secrets \cup {None}]
  <2>1. /\ view \in [Tabs -> BOOLEAN] /\ qr \in [Tabs -> Secrets \cup {None}]
        /\ click[c].code \in Secrets \cup {None}
    BY ClickTypes DEF FactorTypes
  <2>2. QED
    BY <2>1 DEF T!RefuseCode, T!Fails, T!SetupAnswered, T!ConfirmAnswered,
       T!DisableAnswered, T!Told
<1>6. FactorTypes'
  BY <1>2, <1>3, <1>4, <1>5 DEF FactorTypes
<1>7. PageInv'
  BY <1>2, <1>3 DEF PageInv, Careful
<1>8. QED
  BY <1>3, <1>6, <1>7

LEMMA ChallengeStep ==
    ASSUME FactorInv, NEW l \in Logins, T!Challenge(l) \/ T!Expire(l)
    PROVE  FactorInv'
<1> USE DEF T!rowVars, T!pageVars, T!userVars, T!tabVars, T!Fault
<1>a. FactorTypes /\ PageInv /\ ChallengeInv
  BY DEF FactorInv
<1>1. FactorTypes' /\ PageInv'
  BY <1>a, FactorConstants DEF T!Challenge, T!Expire, FactorTypes, PageInv, Careful
<1>2. CASE T!Challenge(l)
  <2>1. /\ \A m \in Logins : Asking(m)' = Asking(m)
        /\ Asking(l) = {} /\ Cardinality({}) = 0
    BY <1>2, FS_EmptySet DEF T!Challenge, Asking
  <2>2. Cardinality(Verifiers) \in Nat /\ accepted'[l] = 0
    BY <1>2, <1>a, AskingFacts DEF T!Challenge, FactorTypes
  <2>3. ASSUME NEW m \in Logins
        PROVE  /\ challenge'[m] = "open" => accepted'[m] = 0
               /\ accepted'[m] + Cardinality(Asking(m)) <= Cardinality(Verifiers)
    <3>1. CASE m = l
      BY <2>1, <2>2, <3>1
    <3>2. CASE m # l
      <4>1. challenge'[m] = challenge[m] /\ accepted'[m] = accepted[m]
        BY <1>a, <1>2, <3>2 DEF T!Challenge, FactorTypes
      <4>2. QED
        BY <1>a, <4>1 DEF ChallengeInv
    <3>3. QED
      BY <3>1, <3>2
  <2>4. \A v \in Verifiers : pc'[v] = "found" => of'[v] \in Logins
    BY <1>a, <1>2 DEF T!Challenge, ChallengeInv
  <2>5. ChallengeInv'
    BY <2>1, <2>3, <2>4 DEF ChallengeInv
  <2>6. QED
    BY <1>1, <2>5 DEF FactorInv
<1>3. CASE T!Expire(l)
  <2>1. \A m \in Logins : Asking(m)' = Asking(m)
    BY <1>3 DEF T!Expire, Asking
  <2>2. ChallengeInv'
    BY <1>a, <1>3, <2>1 DEF T!Expire, ChallengeInv, FactorTypes
  <2>3. QED
    BY <1>1, <2>2 DEF FactorInv
<1>4. QED
  BY <1>2, <1>3

LEMMA VerifyStep ==
    ASSUME FactorInv, NEW v \in Verifiers, NEW l \in Logins, T!Verify(v, l)
    PROVE  FactorInv'
<1> USE DEF T!rowVars, T!pageVars, T!userVars, T!tabVars
<1>a. FactorTypes /\ PageInv /\ ChallengeInv
  BY DEF FactorInv
<1>1. /\ pc[v] = "idle" /\ challenge[l] = "open"
      /\ pc' = [pc EXCEPT ![v] = "found"] /\ of' = [of EXCEPT ![v] = l]
      /\ UNCHANGED <<T!rowVars, T!pageVars, challenge, accepted, faults>>
  BY DEF T!Verify
<1>2. FactorTypes' /\ PageInv'
  BY <1>a, <1>1 DEF FactorTypes, PageInv, Careful
<1>3. ASSUME NEW m \in Logins
      PROVE  accepted[m] + Cardinality(Asking(m)') <= Cardinality(Verifiers)
  <2>1. CASE m = l
    <3>1. accepted[m] = 0 /\ Asking(m)' \in SUBSET Verifiers
      BY <1>a, <1>1, <2>1 DEF ChallengeInv, Asking
    <3>2. QED
      BY <3>1, AskingFacts
  <2>2. CASE m # l
    <3>1. Asking(m)' = Asking(m)
      BY <1>a, <1>1, <2>2 DEF Asking, FactorTypes
    <3>2. QED
      BY <1>a, <3>1 DEF ChallengeInv
  <2>3. QED
    BY <2>1, <2>2
<1>4. ChallengeInv'
  BY <1>a, <1>1, <1>3 DEF ChallengeInv, FactorTypes
<1>5. QED
  BY <1>2, <1>4 DEF FactorInv

\* Who is let in no longer asks.
LEMMA EndVerifyStep ==
    ASSUME FactorInv, NEW v \in Verifiers, T!Accept(v) \/ T!Reject(v)
    PROVE  FactorInv'
<1> USE DEF T!rowVars, T!pageVars, T!userVars, T!tabVars
<1>a. FactorTypes /\ PageInv /\ ChallengeInv
  BY DEF FactorInv
<1> DEFINE m == of[v]
<1>1. /\ pc[v] = "found" /\ m \in Logins
      /\ pc' = [pc EXCEPT ![v] = "idle"] /\ of' = [of EXCEPT ![v] = None]
      /\ UNCHANGED <<T!rowVars, T!pageVars, faults>>
      /\ \/ UNCHANGED <<challenge, accepted>>
         \/ /\ challenge' = [challenge EXCEPT ![m] = "in"]
            /\ accepted' = [accepted EXCEPT ![m] = @ + 1]
  BY <1>a DEF T!Accept, T!Reject, T!EndVerify, T!Spent, ChallengeInv
<1>2. FactorTypes' /\ PageInv'
  BY <1>a, <1>1 DEF FactorTypes, PageInv, Careful
<1>3. \A l \in Logins : Asking(l)' = Asking(l) \ {v}
  BY <1>a, <1>1 DEF Asking, FactorTypes
<1>4. v \in Asking(m)
  BY <1>1 DEF Asking
<1> HIDE DEF m
<1>5. ASSUME NEW l \in Logins
      PROVE  accepted'[l] + Cardinality(Asking(l)') <= Cardinality(Verifiers)
  <2>1. /\ Asking(l) \in SUBSET Verifiers /\ accepted[l] \in Nat
        /\ accepted[l] + Cardinality(Asking(l)) <= Cardinality(Verifiers)
    BY <1>a DEF Asking, ChallengeInv, FactorTypes
  <2>2. CASE l = m
    <3>1. Cardinality(Asking(l) \ {v}) = Cardinality(Asking(l)) - 1
      BY <1>4, <2>1, <2>2, AskingFacts, FS_RemoveElement
    <3>2. accepted'[l] <= accepted[l] + 1 /\ accepted'[l] \in Nat
      BY <1>1, <2>1, <2>2, <1>a DEF FactorTypes
    <3>3. Cardinality(Asking(l)) \in Nat /\ Cardinality(Verifiers) \in Nat
      BY <2>1, AskingFacts
    <3>4. Asking(l)' = Asking(l) \ {v}
      BY <1>3
    <3>5. QED
      BY <2>1, <3>1, <3>2, <3>3, <3>4
  <2>3. CASE l # m
    <3>1. Asking(l) \ {v} \in SUBSET Asking(l) /\ accepted'[l] = accepted[l]
      BY <1>1, <1>a, <2>3 DEF FactorTypes
    <3>2. Cardinality(Asking(l) \ {v}) <= Cardinality(Asking(l))
      BY <2>1, AskingFacts, FS_Subset
    <3>3. /\ Cardinality(Asking(l) \ {v}) \in Nat /\ Cardinality(Asking(l)) \in Nat
          /\ Cardinality(Verifiers) \in Nat
      <4>1. Asking(l) \ {v} \in SUBSET Verifiers
        BY <2>1
      <4>2. QED
        BY <2>1, <4>1, AskingFacts
    <3>4. Asking(l)' = Asking(l) \ {v} /\ accepted'[l] = accepted[l]
      BY <1>3, <3>1
    <3>5. QED
      BY <2>1, <3>2, <3>3, <3>4
  <2>4. QED
    BY <2>2, <2>3
<1>6. ChallengeInv'
  <2>1. \A l \in Logins : challenge'[l] = "open" => accepted'[l] = 0
    BY <1>a, <1>1 DEF ChallengeInv, FactorTypes
  <2>2. \A x \in Verifiers : pc'[x] = "found" => of'[x] \in Logins
    BY <1>a, <1>1 DEF ChallengeInv, FactorTypes
  <2>3. QED
    BY <1>5, <2>1, <2>2 DEF ChallengeInv
<1>7. QED
  BY <1>2, <1>6 DEF FactorInv

LEMMA FactorCrashStep ==
    ASSUME FactorInv, T!Crash
    PROVE  FactorInv'
<1>a. FactorTypes /\ PageInv /\ ChallengeInv
  BY DEF FactorInv
<1> USE DEF T!Crash, T!rowVars, T!userVars, T!tabVars, T!Fault
<1>0. /\ click' \in [Clicks -> T!Request \cup {T!Idle}]
      /\ \A c \in Clicks : click'[c].at = "idle"
  BY DEF T!Idle
<1>1. FactorTypes'
  BY <1>a, <1>0, FactorConstants DEF FactorTypes
<1>2. PageInv'
  BY <1>a, <1>0 DEF PageInv, Careful
<1>3. \A l \in Logins : Asking(l)' = {}
  BY DEF Asking
<1>4. \A l \in Logins : /\ accepted[l] \in Nat
                        /\ accepted[l] + Cardinality(Asking(l)) <= Cardinality(Verifiers)
                        /\ Cardinality(Asking(l)) \in Nat
  BY <1>a, AskingFacts DEF Asking, ChallengeInv, FactorTypes
<1>5. Cardinality(Verifiers) \in Nat /\ Cardinality({}) = 0
  BY AskingFacts, FS_EmptySet
<1>6. ASSUME NEW l \in Logins
      PROVE  accepted'[l] + Cardinality(Asking(l)') <= Cardinality(Verifiers)
  <2>1. accepted' = accepted /\ Asking(l)' = {}
    BY <1>3
  <2>2. QED
    BY <1>4, <1>5, <2>1
<1>8. \A l \in Logins : challenge'[l] # "open"
  BY <1>a DEF FactorTypes
<1>9. ChallengeInv'
  BY <1>6, <1>8 DEF ChallengeInv
<1>7. QED
  BY <1>1, <1>2, <1>9 DEF FactorInv

LEMMA FactorStep ==
    ASSUME FactorInv, T!Next \/ UNCHANGED T!vars
    PROVE  FactorInv'
<1>a. FactorTypes /\ PageInv
  BY DEF FactorInv
<1>1. ASSUME FactorTypes', PageInv', UNCHANGED T!loginVars PROVE FactorInv'
  BY <1>1 DEF FactorInv, ChallengeInv, Asking, T!loginVars
<1>2. CASE UNCHANGED T!vars
  <2>1. FactorTypes' /\ PageInv'
    BY <1>a, <1>2 DEF T!vars, T!rowVars, T!pageVars, T!userVars, T!tabVars, T!loginVars,
       FactorTypes, PageInv, Careful
  <2>2. QED
    BY <1>1, <1>2, <2>1 DEF T!vars
<1>3. CASE \E t \in Tabs :
              \/ \E c \in Clicks : \/ T!PressSetup(c, t) \/ T!PressConfirm(c, t)
                                   \/ T!PressDisable(c, t)
              \/ T!Scan(t) \/ T!Leave(t) \/ T!Reload(t)
  BY <1>a, <1>1, <1>3, UserStep
<1>4. CASE \E c \in Clicks :
              \/ T!SetSecret(c) \/ T!VerifyCode(c) \/ T!RefuseCode(c) \/ T!Enable(c)
              \/ T!Disable(c) \/ T!SetupAnswered(c) \/ T!ConfirmAnswered(c)
              \/ T!DisableAnswered(c) \/ T!Fails(c)
  BY <1>a, <1>1, <1>4, HandlerStep, EndedStep
<1>5. QED
  BY <1>2, <1>3, <1>4, ChallengeStep, VerifyStep, EndVerifyStep, FactorCrashStep DEF T!Next

LEMMA FactorCorrect ==
    FactorInv => T!TypeOK /\ T!EnabledIsConfirmed /\ T!AcceptedOncePerRequest
<1> SUFFICES ASSUME FactorInv
             PROVE  T!TypeOK /\ T!EnabledIsConfirmed /\ T!AcceptedOncePerRequest
  OBVIOUS
<1>1. T!EnabledIsConfirmed
  BY DEF FactorInv, PageInv, Careful, T!EnabledIsConfirmed
<1>2. T!TypeOK
  BY FactorConstants DEF FactorInv, FactorTypes, T!TypeOK
<1>3. ASSUME NEW l \in Logins PROVE accepted[l] <= Cardinality(Verifiers)
  <2>1. /\ Asking(l) \in SUBSET Verifiers /\ accepted[l] \in Nat
        /\ accepted[l] + Cardinality(Asking(l)) <= Cardinality(Verifiers)
    BY DEF FactorInv, FactorTypes, ChallengeInv, Asking
  <2>2. QED
    BY <2>1, AskingFacts
<1>4. QED
  BY <1>1, <1>2, <1>3, SameSets DEF T!AcceptedOncePerRequest

-----------------------------------------------------------------------------
(* ListPages.                                                              *)

Tables == [Rows -> G!States]

Asks == [id : Nat, kind : {"list"}, search : Searches, at : {"sent", "done"},
         rows : Tables, age : Nat]

Changes == [id : Nat, kind : {"add", "remove", "toggle", "on", "off"},
            search : Searches, at : {"sent", "done"}, row : Rows, age : Nat]

\* A request of the page: numbered when it was sent, no older than the table.
RequestTypes ==
    \A q \in requests :
        /\ q \in Asks \cup Changes
        /\ q.id \in 1 .. sent /\ q.age \in 0 .. now

ViewTypes ==
    /\ page \in G!PageNames
    /\ table \in Tables /\ now \in 0 .. MaxNow /\ sent \in Nat
    /\ shown \in [rows : Tables, age : 0 .. now, search : Searches]
    /\ box \in Searches /\ asked \in Searches
    /\ acked \in 0 .. now
    /\ loading \in BOOLEAN /\ stuck \in BOOLEAN /\ failed \in BOOLEAN
    /\ hurried \in BOOLEAN

\* A user who waits has one request under way at most.  If it is a load, it brings
\* what was asked for last and, once performed, whatever was acknowledged before.
Waited ==
    /\ \A p, q \in requests : p = q
    /\ G!Lists # {} => loading
    /\ \A q \in G!Lists :
          q.search = asked /\ (q.at = "done" => q.age >= acked)
    /\ G!Lists = {} /\ ~failed => shown.age >= acked /\ shown.search = asked

ListInv ==
    /\ ViewTypes /\ RequestTypes
    /\ G!LoadingMeansLoading
    /\ ~hurried => Waited

LEMMA EmptySearch == "" \in Searches
BY WaitingAssumption DEF G!ListAssumption

LEMMA ListConstants == MaxNow \in Nat
BY WaitingAssumption DEF G!ListAssumption

LEMMA KindsApart ==
    ASSUME NEW q \in Asks \cup Changes
    PROVE  /\ G!IsList(q) <=> q \in Asks
           /\ q.at \in {"sent", "done"} /\ q.search \in Searches
           /\ q.id \in Nat /\ q.age \in Nat
BY DEF Asks, Changes, G!IsList

LEMMA ListInit == G!Init => ListInv
<1> SUFFICES ASSUME G!Init PROVE ListInv
  OBVIOUS
<1> DEFINE first == G!List(1, "")
<1>1. /\ requests = {first} /\ sent = 1 /\ now = 0 /\ acked = 0 /\ loading = TRUE
      /\ asked \in Searches /\ asked = first.search /\ failed = FALSE
  BY EmptySearch DEF G!Init, G!List
<1>2. first \in Asks /\ first.id = 1 /\ first.age = 0 /\ first.at = "sent"
      /\ G!IsList(first)
  BY EmptySearch DEF G!List, Asks, Tables, G!States, G!IsList
<1> HIDE DEF first
<1>3. G!Lists = {first}
  BY <1>1, <1>2 DEF G!Lists
<1>4. ViewTypes
  <2>1. table \in Tables /\ [r \in Rows |-> "absent"] \in Tables
    BY DEF G!Init, Tables, G!States
  <2>2. 0 \in 0 .. MaxNow /\ 0 \in 0 .. now
    BY <1>1, ListConstants
  <2>3. QED
    <3>1. /\ page \in G!PageNames /\ table \in Tables /\ box = asked
          /\ shown = [rows |-> [r \in Rows |-> "absent"], age |-> 0, search |-> asked]
          /\ stuck = FALSE /\ hurried = FALSE
      BY <2>1 DEF G!Init
    <3>2. QED
      BY <1>1, <2>1, <2>2, <3>1 DEF ViewTypes
<1>5. RequestTypes
  BY <1>1, <1>2 DEF RequestTypes
<1>6. G!LoadingMeansLoading
  BY <1>3 DEF G!LoadingMeansLoading
<1>7. Waited
  BY <1>1, <1>2, <1>3 DEF Waited
<1>8. QED
  BY <1>4, <1>5, <1>6, <1>7 DEF ListInv

\* A change is sent.
LEMMA SendStep ==
    ASSUME ListInv, NEW op \in {"add", "remove", "toggle", "on", "off"},
           NEW r \in Rows, G!Send(op, r),
           hurried' \in BOOLEAN, ~hurried' => ~hurried /\ requests = {}
    PROVE  ListInv'
<1> DEFINE new == G!Change(sent', op, r)
<1>a. ViewTypes /\ RequestTypes /\ G!LoadingMeansLoading
  BY DEF ListInv
<1>1. /\ sent' = sent + 1 /\ requests' = requests \cup {new} /\ sent \in Nat
      /\ UNCHANGED <<page, table, now, shown, box, asked, loading, stuck, acked, failed>>
  BY <1>a DEF G!Send, G!serverVars, G!viewVars, ViewTypes
<1>2. new \in Changes /\ new.id = sent + 1 /\ new.age = 0
  BY <1>1, <1>a DEF G!Change, Changes, ViewTypes
<1> HIDE DEF new
<1>3. G!Lists' = G!Lists
  BY <1>1, <1>2, KindsApart DEF G!Lists, Changes, G!IsList
<1>4. ViewTypes'
  BY <1>1, <1>a DEF ViewTypes
<1>5. RequestTypes'
  BY <1>1, <1>2, <1>a DEF RequestTypes, ViewTypes
<1>6. G!LoadingMeansLoading'
  BY <1>1, <1>3, <1>a DEF G!LoadingMeansLoading
<1>7. ASSUME ~hurried' PROVE Waited'
  <2>1. requests' = {new} /\ G!Lists = {} /\ Waited
    BY <1>1, <1>7 DEF G!Lists, ListInv
  <2>2. QED
    BY <1>1, <1>3, <2>1 DEF Waited
<1>8. QED
  BY <1>4, <1>5, <1>6, <1>7 DEF ListInv

\* The buttons: behind the table, which is not displayed while it loads.
LEMMA PressStep ==
    ASSUME ListInv, NEW r \in Rows,
           \/ G!Add(r) \/ G!HandleAdd(r) \/ G!SaveNickname(r) \/ G!HandleRemove(r)
           \/ G!HandleCancel(r) \/ G!HandleResolve(r) \/ G!HandleStatusChange(r)
    PROVE  ListInv'
<1>1. ASSUME NEW op \in {"add", "remove", "toggle", "on", "off"}, G!SendChange(op, r)
      PROVE  ListInv'
  <2>1. /\ ~loading /\ hurried' = (hurried \/ requests # G!Lists) /\ G!Send(op, r)
    BY <1>1 DEF G!SendChange, G!OffersTable
  <2>2. ~hurried' => ~hurried /\ requests = {}
    BY <2>1 DEF ListInv, Waited
  <2>3. hurried' \in BOOLEAN
    BY <2>1 DEF ListInv, ViewTypes
  <2>4. QED
    BY <2>1, <2>2, <2>3, SendStep
<1>2. CASE G!HandleAdd(r)
  <2>1. hurried' = (hurried \/ requests # {}) /\ G!Send("add", r)
    BY <1>2 DEF G!HandleAdd
  <2>2. hurried' \in BOOLEAN
    BY <2>1 DEF ListInv, ViewTypes
  <2>3. QED
    BY <2>1, <2>2, SendStep
<1>3. QED
  BY <1>1, <1>2 DEF G!Add, G!SaveNickname, G!HandleRemove, G!HandleCancel,
     G!HandleResolve, G!HandleStatusChange

\* A load is sent, beside requests that stay in flight.
LEMMA LoadStep ==
    ASSUME ListInv, NEW rest \in SUBSET requests, NEW s \in Searches, G!Load(rest, s),
           UNCHANGED <<page, table, now, shown, box, stuck, failed>>,
           acked' \in 0 .. now, hurried' \in BOOLEAN,
           ~hurried' => ~hurried /\ rest = {}
    PROVE  ListInv'
<1> DEFINE new == G!List(sent', s)
<1>a. ViewTypes /\ RequestTypes /\ G!LoadingMeansLoading
  BY DEF ListInv
<1>1. /\ sent' = sent + 1 /\ requests' = rest \cup {new} /\ asked' = s /\ loading' = TRUE
      /\ sent \in Nat
  BY <1>a DEF G!Load, ViewTypes
<1>2. /\ new \in Asks /\ new.id = sent + 1 /\ new.age = 0 /\ new.at = "sent"
      /\ new.search = s /\ G!IsList(new)
  <2>1. [r \in Rows |-> "absent"] \in Tables
    BY DEF Tables, G!States
  <2>2. QED
    BY <1>1, <2>1 DEF G!List, Asks, G!IsList
<1> HIDE DEF new
<1>3. new \in G!Lists'
  BY <1>1, <1>2 DEF G!Lists
<1>4. ViewTypes'
  BY <1>1, <1>a DEF ViewTypes
<1>5. RequestTypes'
  BY <1>1, <1>2, <1>a DEF RequestTypes, ViewTypes
<1>6. G!LoadingMeansLoading'
  BY <1>3 DEF G!LoadingMeansLoading
<1>7. ASSUME ~hurried' PROVE Waited'
  <2>1. requests' = {new} /\ G!Lists' = {new}
    BY <1>1, <1>2, <1>7 DEF G!Lists
  <2>2. QED
    BY <1>1, <1>2, <2>1 DEF Waited
<1>8. QED
  BY <1>4, <1>5, <1>6, <1>7 DEF ListInv

LEMMA SearchStep ==
    ASSUME ListInv, G!HandleSearch
    PROVE  ListInv'
<1>1. /\ G!Load(requests, box) /\ hurried' = (hurried \/ requests # {})
      /\ UNCHANGED <<page, table, now, shown, box, stuck, failed, acked>>
  BY DEF G!HandleSearch, G!serverVars
<1>2. box \in Searches /\ acked' \in 0 .. now /\ hurried' \in BOOLEAN
  BY <1>1 DEF ListInv, ViewTypes
<1>3. QED
  BY <1>1, <1>2, LoadStep

LEMMA TypeStep ==
    ASSUME ListInv, NEW s \in Searches, G!Type(s)
    PROVE  ListInv'
<1>1. G!Lists' = G!Lists
  BY DEF G!Type, G!Lists
<1>2. QED
  BY <1>1 DEF ListInv, ViewTypes, RequestTypes, G!LoadingMeansLoading, Waited, G!Type,
     G!serverVars

\* The server performs a request: it keeps its kind.
LEMMA ServedStep ==
    ASSUME ListInv, NEW q \in requests, NEW p \in Asks \cup Changes, G!Replace(q, p),
           G!IsList(p) <=> G!IsList(q), p.id = q.id, p.search = q.search,
           p.age = now', now' \in {now, now + 1}, now' <= MaxNow, table' \in Tables,
           UNCHANGED <<page, sent, shown, box, asked, loading, stuck, acked, failed, hurried>>
    PROVE  ListInv'
<1>a. /\ ViewTypes /\ RequestTypes /\ G!LoadingMeansLoading
      /\ now \in Nat /\ acked \in Nat /\ acked <= now /\ MaxNow \in Nat
  BY ListConstants DEF ListInv, ViewTypes
<1>1. requests' = (requests \ {q}) \cup {p}
  BY DEF G!Replace
<1>2. 0 .. now \subseteq 0 .. now' /\ now' \in 0 .. MaxNow
  BY <1>a
<1>3. ViewTypes'
  BY <1>2, <1>a DEF ViewTypes
<1>4. RequestTypes'
  <2>1. q.id \in 1 .. sent /\ p.age \in 0 .. now'
    BY <1>2, <1>a DEF RequestTypes
  <2>2. QED
    BY <1>1, <1>2, <1>a, <2>1 DEF RequestTypes
<1>5. (G!Lists' = {}) <=> (G!Lists = {})
  BY <1>1 DEF G!Lists
<1>6. G!LoadingMeansLoading'
  BY <1>5, <1>a DEF G!LoadingMeansLoading
<1>7. ASSUME ~hurried' PROVE Waited'
  <2>1. Waited
    BY <1>7 DEF ListInv
  <2>2. requests' = {p}
    BY <1>1, <2>1 DEF Waited
  <2>3. G!IsList(p) => p.search = asked /\ p.age >= acked
    BY <2>1, <1>a DEF Waited, G!Lists
  <2>4. QED
    BY <1>5, <2>1, <2>2, <2>3 DEF Waited, G!Lists
<1>8. QED
  BY <1>3, <1>4, <1>6, <1>7 DEF ListInv

LEMMA ServerStep ==
    ASSUME ListInv, NEW q \in requests, G!Apply(q) \/ G!Read(q)
    PROVE  ListInv'
<1>a. ViewTypes /\ RequestTypes /\ q \in Asks \cup Changes
  BY DEF ListInv, RequestTypes
<1>b. now \in Nat /\ now <= MaxNow /\ MaxNow \in Nat /\ table \in Tables
  BY <1>a, ListConstants DEF ViewTypes
<1>1. CASE G!Apply(q)
  <2> DEFINE p == [q EXCEPT !.at = "done", !.age = now']
  <2>1. /\ ~G!IsList(q) /\ now < MaxNow /\ now' = now + 1
        /\ table' = [table EXCEPT ![q.row] = G!Result(q.kind, @)]
        /\ G!Replace(q, p)
        /\ UNCHANGED <<page, sent, shown, box, asked, loading, stuck, acked, failed, hurried>>
    BY <1>1 DEF G!Apply, G!viewVars
  <2>2. q \in Changes
    BY <1>a, <2>1, KindsApart
  <2>3. /\ p \in Changes /\ p.id = q.id /\ p.search = q.search /\ p.age = now'
        /\ ~G!IsList(p)
    <3>1. now' \in Nat
      BY <1>b, <2>1
    <3>2. ASSUME NEW n \in Nat
          PROVE  LET c == [q EXCEPT !.at = "done", !.age = n]
                 IN  /\ c \in Changes /\ c.id = q.id /\ c.search = q.search
                     /\ c.age = n /\ c.kind = q.kind
      BY <2>2 DEF Changes
    <3>3. QED
      BY <2>1, <3>1, <3>2 DEF G!IsList
  <2>4. table' \in Tables
    <3>1. \A state \in G!States : G!Result(q.kind, state) \in G!States
      BY <2>2 DEF G!Result, G!States, Changes
    <3>2. QED
      BY <1>b, <2>1, <3>1 DEF Tables
  <2> HIDE DEF p
  <2>5. now' <= MaxNow /\ now' \in {now, now + 1} /\ (G!IsList(p) <=> G!IsList(q))
    BY <1>b, <2>1, <2>3
  <2>6. QED
    BY <2>1, <2>3, <2>4, <2>5, ServedStep
<1>2. CASE G!Read(q)
  <2> DEFINE p == [q EXCEPT !.at = "done", !.rows = table, !.age = now]
  <2>1. /\ G!IsList(q) /\ G!Replace(q, p)
        /\ UNCHANGED <<page, table, now, sent, shown, box, asked, loading, stuck, acked,
                       failed, hurried>>
    BY <1>2 DEF G!Read, G!viewVars, G!serverVars
  <2>2. q \in Asks
    BY <1>a, <2>1, KindsApart
  <2>3. /\ p \in Asks /\ p.id = q.id /\ p.search = q.search /\ p.age = now
        /\ G!IsList(p)
    BY <1>b, <2>1, <2>2 DEF Asks, G!IsList
  <2>4. QED
    BY <1>b, <2>1, <2>3, ServedStep
<1>3. QED
  BY <1>1, <1>2

LEMMA OthersStep ==
    ASSUME ListInv, NEW r \in Rows, NEW state \in G!States, G!Others(r, state)
    PROVE  ListInv'
<1>1. /\ now' = now + 1 /\ now < MaxNow /\ now \in Nat /\ MaxNow \in Nat
      /\ table' \in Tables
      /\ UNCHANGED <<page, requests, sent, shown, box, asked, loading, stuck, acked, failed,
                     hurried>>
  BY ListConstants DEF G!Others, G!viewVars, ListInv, ViewTypes, Tables
<1>2. 0 .. now \subseteq 0 .. now' /\ now' \in 0 .. MaxNow
  BY <1>1
<1>3. G!Lists' = G!Lists
  BY <1>1 DEF G!Lists
<1>4. ViewTypes' /\ RequestTypes'
  BY <1>1, <1>2 DEF ListInv, ViewTypes, RequestTypes
<1>5. G!LoadingMeansLoading' /\ (~hurried' => Waited')
  BY <1>1, <1>3 DEF ListInv, G!LoadingMeansLoading, Waited
<1>6. QED
  BY <1>4, <1>5 DEF ListInv

LEMMA AnswerStep ==
    ASSUME ListInv, NEW q \in requests, G!Answer(q)
    PROVE  ListInv'
<1>a. /\ ViewTypes /\ RequestTypes /\ G!LoadingMeansLoading
      /\ q \in Asks \cup Changes /\ q.age \in 0 .. now
      /\ ~hurried => Waited
  BY DEF ListInv, RequestTypes
<1>1. CASE G!Show(q)
  <2>1. /\ G!IsList(q) /\ q.at = "done" /\ requests' = requests \ {q}
        /\ shown' = [rows |-> q.rows, age |-> q.age, search |-> q.search]
        /\ loading' = FALSE /\ failed' = FALSE
        /\ UNCHANGED <<page, table, now, sent, box, asked, stuck, acked, hurried>>
    BY <1>1 DEF G!Show, G!serverVars
  <2>2. q \in Asks
    BY <1>a, <2>1, KindsApart
  <2>3. shown' \in [rows : Tables, age : 0 .. now, search : Searches]
    BY <1>a, <2>1, <2>2 DEF Asks
  <2>4. ViewTypes' /\ RequestTypes' /\ G!LoadingMeansLoading'
    BY <1>a, <2>1, <2>3 DEF ViewTypes, RequestTypes, G!LoadingMeansLoading
  <2>5. ASSUME ~hurried' PROVE Waited'
    <3>1. Waited /\ q \in G!Lists
      BY <1>a, <2>1, <2>5 DEF G!Lists
    <3>2. requests' = {} /\ G!Lists' = {}
      BY <2>1, <3>1 DEF Waited, G!Lists
    <3>3. q.search = asked /\ q.age >= acked
      BY <2>1, <3>1 DEF Waited
    <3>4. QED
      BY <2>1, <3>2, <3>3 DEF Waited
  <2>6. QED
    BY <2>4, <2>5 DEF ListInv
<1>2. CASE G!Acknowledge(q)
  <2>1. /\ G!Load(requests \ {q}, q.search) /\ acked' = G!Newer(q.age)
        /\ UNCHANGED <<page, table, now, shown, box, stuck, failed, hurried>>
    BY <1>2 DEF G!Acknowledge, G!serverVars
  <2>2. acked' \in 0 .. now /\ q.search \in Searches /\ hurried' \in BOOLEAN
    BY <1>a, <2>1, KindsApart DEF G!Newer, ViewTypes
  <2>3. ~hurried' => ~hurried /\ requests \ {q} = {}
    BY <1>a, <2>1 DEF Waited
  <2>4. requests \ {q} \in SUBSET requests
    OBVIOUS
  <2>5. QED
    BY <2>1, <2>2, <2>3, <2>4, LoadStep
<1>3. CASE G!ChangeFails(q)
  <2>1. /\ ~G!IsList(q) /\ requests' = requests \ {q} /\ G!Lists' = G!Lists
        /\ UNCHANGED <<page, table, now, sent, shown, box, asked, loading, stuck, acked,
                       failed, hurried>>
    BY <1>3 DEF G!ChangeFails, G!serverVars, G!viewVars, G!Lists
  <2>2. ViewTypes' /\ RequestTypes' /\ G!LoadingMeansLoading'
    BY <1>a, <2>1 DEF ViewTypes, RequestTypes, G!LoadingMeansLoading
  <2>3. ~hurried' => Waited'
    BY <1>a, <2>1 DEF Waited
  <2>4. QED
    BY <2>2, <2>3 DEF ListInv
<1>4. CASE G!LoadFails(q)
  <2>1. /\ G!IsList(q) /\ requests' = requests \ {q} /\ failed' = TRUE
        /\ loading' = (loading /\ page = "mine") /\ stuck' = (stuck \/ page = "mine")
        /\ UNCHANGED <<page, table, now, sent, shown, box, asked, acked, hurried>>
    BY <1>4 DEF G!LoadFails, G!EndsLoading, G!serverVars
  <2>2. loading' \in BOOLEAN /\ stuck' \in BOOLEAN /\ failed' \in BOOLEAN
    BY <1>a, <2>1 DEF ViewTypes
  <2>3. ViewTypes' /\ RequestTypes'
    BY <1>a, <2>1, <2>2 DEF ViewTypes, RequestTypes
  <2>4. G!LoadingMeansLoading'
    BY <2>1 DEF G!LoadingMeansLoading
  <2>5. ASSUME ~hurried' PROVE Waited'
    <3>1. requests' = {} /\ G!Lists' = {}
      BY <1>a, <2>1, <2>5 DEF Waited, G!Lists
    <3>2. QED
      BY <2>1, <3>1 DEF Waited
  <2>6. QED
    BY <2>3, <2>4, <2>5 DEF ListInv
<1>5. QED
  BY <1>1, <1>2, <1>3, <1>4 DEF G!Answer

LEMMA ListStep ==
    ASSUME ListInv, G!Next \/ UNCHANGED G!vars
    PROVE  ListInv'
<1>1. CASE UNCHANGED G!vars
  <2>1. G!Lists' = G!Lists
    BY <1>1 DEF G!vars, G!Lists
  <2>2. QED
    BY <1>1, <2>1 DEF ListInv, ViewTypes, RequestTypes, G!LoadingMeansLoading, Waited,
       G!vars, G!serverVars, G!viewVars
<1>2. QED
  BY <1>1, PressStep, SearchStep, TypeStep, ServerStep, OthersStep, AnswerStep DEF G!Next

LEMMA ListCorrect ==
    ListInv => G!TypeOK /\ G!FreshUnlessHurried /\ G!LoadingMeansLoading
<1> SUFFICES ASSUME ListInv PROVE G!TypeOK /\ G!FreshUnlessHurried
  BY DEF ListInv
<1>1. G!TypeOK
  BY DEF ListInv, ViewTypes, RequestTypes, G!TypeOK, Tables
<1>2. G!FreshUnlessHurried
  BY DEF ListInv, Waited, G!Lists, G!FreshUnlessHurried
<1>3. QED
  BY <1>1, <1>2

-----------------------------------------------------------------------------
(* The instance.                                                           *)

StandsOrRuns ==
    /\ part' = part
    /\ part = "factor" => T!Next \/ UNCHANGED T!vars
    /\ part = "client" => A!Next \/ UNCHANGED A!vars
    /\ part = "list"   => G!Next \/ UNCHANGED G!vars

LEMMA StepOfPart == [Next]_vars => StandsOrRuns
<1>1. UNCHANGED vars => StandsOrRuns
  BY DEF StandsOrRuns, vars, loginVars, factorVars, clientVars, listVars,
         T!vars, T!rowVars, T!pageVars, T!userVars, T!tabVars, T!loginVars,
         A!vars, A!tokenVars, A!callVars, A!refreshVars, A!userVars,
         G!vars, G!serverVars, G!viewVars
<1>2. Next => StandsOrRuns
  BY DEF StandsOrRuns, Next, LoginNext, FactorNext, ClientNext, ListNext
<1>3. QED
  BY <1>1, <1>2

ClientPart == part = "client" => ClientInv
ListPart   == part = "list" => ListInv
FactorPart == part = "factor" => FactorInv

LEMMA ClientInvariant == Spec => []ClientPart
<1>1. Init => ClientPart
  BY ClientInit DEF Init, ClientPart
<1>2. ClientPart /\ [Next]_vars => ClientPart'
  BY StepOfPart, ClientStep DEF StandsOrRuns, ClientPart
<1>3. QED
  BY <1>1, <1>2, PTL DEF Spec

LEMMA ListInvariant == Spec => []ListPart
<1>1. Init => ListPart
  BY ListInit DEF Init, ListPart
<1>2. ListPart /\ [Next]_vars => ListPart'
  BY StepOfPart, ListStep DEF StandsOrRuns, ListPart
<1>3. QED
  BY <1>1, <1>2, PTL DEF Spec

LEMMA FactorInvariant == Spec => []FactorPart
<1>1. Init => FactorPart
  BY FactorInit DEF Init, FactorPart
<1>2. FactorPart /\ [Next]_vars => FactorPart'
  BY StepOfPart, FactorStep DEF StandsOrRuns, FactorPart
<1>3. QED
  BY <1>1, <1>2, PTL DEF Spec

\* The state of the part that runs has its type; of Login AccessProofs says so.
THEOREM TypeCorrect == Spec => [](part # "login" => TypeOK)
<1>1. FactorPart /\ ClientPart /\ ListPart => (part # "login" => TypeOK)
  BY FactorCorrect, ClientCorrect, ListCorrect
     DEF FactorPart, ClientPart, ListPart, TypeOK
<1>2. QED
  BY <1>1, FactorInvariant, ClientInvariant, ListInvariant, PTL

\* For any number of tabs, of requests of theirs under way and of faults: the secret a
\* login is held to is one a code was verified of, unless a button of the Security page
\* was pressed blindly; and a challenge lets in no more requests than there are, however
\* many look it up at a time (authController.js:136-185).
THEOREM SecondFactorProved == Spec => []SecondFactorHolds
<1>1. FactorPart => SecondFactorHolds
  BY FactorCorrect DEF FactorPart, SecondFactorHolds
<1>2. QED
  BY <1>1, FactorInvariant, PTL

\* For any number of requests, in whatever order their answers come: who waits
\* waits for a refresh under way, nobody is sent more often than there are requests
\* to lead a refresh, and after the logout no token is left but one granted before
\* (api.js:29-61, AuthContext.js:35-43).
THEOREM ClientProved == Spec => []ClientHolds
<1>1. ClientPart => ClientHolds
  BY ClientCorrect DEF ClientPart, ClientHolds
<1>2. QED
  BY <1>1, ClientInvariant, PTL

\* For any number of rows, searches and requests: a page whose user waited shows
\* every change it knows it has made, and none loads without a load under way but
\* Alerts.js after an error (ScheduledTransfers.js:69, AdminUsers.js:61,
\* Alerts.js:17).
THEOREM ListIsFreshProved == Spec => []ListIsFresh
<1>1. ListPart => ListIsFresh
  BY ListCorrect DEF ListPart, ListIsFresh
<1>2. QED
  BY <1>1, ListInvariant, PTL
==============================================================================
