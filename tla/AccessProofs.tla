---------------------------- MODULE AccessProofs ----------------------------
(***************************************************************************)
(* Theorems about MCAccess, that is about Login, Sessions and NewDevice,   *)
(* for every value of their constants.  Each component has an invariant of *)
(* its own, inductive for its own steps; the last part puts them together. *)
(***************************************************************************)
EXTENDS MCAccess, FunctionSums, Sequences

-----------------------------------------------------------------------------
(* Sessions.                                                               *)

\* What is known of a request from where it is: who may act has been told from
\* a state since it came.
Judged(r) ==
    /\ pc[r] # "idle" => req[r] \in [session : Sessions, ask : S!Asks]
    /\ pc[r] \in {"refresh", "handle"} => entitled[r]
    /\ pc[r] = "auth" /\ status[S!Actor(r)] = "active" => entitled[r]
    /\ pc[r] = "handle" /\ req[r].ask # S!Me => S!Actor(r) \in Admins

SessionsInv == S!TypeOK /\ \A r \in Requests : Judged(r)

LEMMA SessionsConstants ==
    /\ Admins \subseteq Users
    /\ UserOf \in [Sessions -> Users]
    /\ TTL \in Nat /\ TTL > 0
BY AccessAssumption DEF S!SessionsAssumption

LEMMA SessionsInit == S!Init => SessionsInv
<1> SUFFICES ASSUME S!Init PROVE SessionsInv
  OBVIOUS
<1>1. access \in [Sessions -> 0 .. TTL]
  BY SessionsConstants DEF S!Init
<1>2. status \in [Users -> S!Statuses]
  BY DEF S!Init, S!Statuses
<1>3. S!TypeOK
  BY <1>1, <1>2 DEF S!Init, S!TypeOK
<1>4. \A r \in Requests : Judged(r)
  BY DEF S!Init, Judged
<1>5. QED
  BY <1>3, <1>4 DEF SessionsInv

LEMMA ActorIsUser ==
    ASSUME SessionsInv, NEW r \in Requests, pc[r] # "idle"
    PROVE  /\ req[r].session \in Sessions /\ req[r].ask \in S!Asks
           /\ S!Actor(r) \in Users
BY SessionsConstants DEF SessionsInv, Judged, S!Actor

\* A request that ends is idle and keeps nothing; the others stand still.
LEMMA EndJudged ==
    ASSUME SessionsInv, NEW r \in Requests, S!End(r), status' = status
    PROVE  \A x \in Requests : Judged(x)'
BY DEF SessionsInv, S!TypeOK, Judged, S!End, S!Actor

LEMMA SignTypes ==
    ASSUME SessionsInv, NEW s \in Sessions, S!Sign(s)
    PROVE  access' \in [Sessions -> 0 .. TTL]
BY SessionsConstants DEF SessionsInv, S!TypeOK, S!Sign

LEMMA SessionsStep ==
    ASSUME SessionsInv, S!Next \/ UNCHANGED S!vars
    PROVE  SessionsInv'
<1> USE DEF SessionsInv, S!TypeOK
<1>1. CASE S!Tick
  <2>1. access' \in [Sessions -> 0 .. TTL]
    <3>1. \A s \in Sessions : access[s] \in 0 .. TTL
      OBVIOUS
    <3>2. \A n \in 0 .. TTL : (IF n = 0 THEN 0 ELSE n - 1) \in 0 .. TTL
      BY SessionsConstants
    <3>3. QED
      BY <1>1, <3>1, <3>2 DEF S!Tick
  <2>2. \A x \in Requests : Judged(x)'
    BY <1>1 DEF S!Tick, Judged, S!Actor
  <2>3. QED
    BY <1>1, <2>1, <2>2 DEF S!Tick
<1>2. ASSUME NEW s \in Sessions, S!Expire(s) \/ S!IssueTokens(s) \/ S!Logout(s)
      PROVE  SessionsInv'
  <2>1. access' \in [Sessions -> 0 .. TTL]
    BY <1>2, SignTypes DEF S!Expire, S!IssueTokens, S!Logout
  <2>2. \A x \in Requests : Judged(x)'
    BY <1>2 DEF S!Expire, S!IssueTokens, S!Logout, Judged, S!Actor
  <2>3. QED
    BY <1>2, <2>1, <2>2 DEF S!Expire, S!IssueTokens, S!Logout
<1>3. ASSUME NEW r \in Requests, NEW s \in Sessions, S!RefreshFind(r, s)
      PROVE  SessionsInv'
  <2>1. [session |-> s, ask |-> S!Me] \in [session : Sessions, ask : S!Asks]
    BY DEF S!Asks
  <2>2. req' \in [Requests -> [session : Sessions, ask : S!Asks] \cup {None}]
    BY <1>3, <2>1 DEF S!RefreshFind
  <2>3. \A x \in Requests : Judged(x)'
    BY <1>3, <2>1 DEF S!RefreshFind, S!Stored, Judged, S!Actor
  <2>4. QED
    BY <1>3, <2>2, <2>3 DEF S!RefreshFind
<1>4. ASSUME NEW r \in Requests, NEW s \in Sessions, S!Arrive(r, s)
      PROVE  SessionsInv'
  <2>1. PICK ask \in S!Asks :
          req' = [req EXCEPT ![r] = [session |-> s, ask |-> ask]]
    BY <1>4 DEF S!Arrive
  <2>2. [session |-> s, ask |-> ask] \in [session : Sessions, ask : S!Asks]
    OBVIOUS
  <2>3. req' \in [Requests -> [session : Sessions, ask : S!Asks] \cup {None}]
    BY <2>1, <2>2
  <2>4. \A x \in Requests : Judged(x)'
    BY <1>4, <2>1, <2>2 DEF S!Arrive, Judged, S!Actor
  <2>5. QED
    BY <1>4, <2>3, <2>4 DEF S!Arrive
<1>5. ASSUME NEW r \in Requests, S!RefreshSign(r) PROVE SessionsInv'
  <2>1. access' \in [Sessions -> 0 .. TTL]
    BY <1>5, ActorIsUser, SignTypes DEF S!RefreshSign
  <2>2. QED
    BY <1>5, <2>1, EndJudged DEF S!RefreshSign, S!End
<1>6. ASSUME NEW r \in Requests, S!RequireAuth(r) PROVE SessionsInv'
  <2>1. CASE S!MayAct(S!Actor(r), req[r].ask)
    <3>1. \A x \in Requests : Judged(x)'
      BY <1>6, <2>1 DEF S!RequireAuth, S!MayAct, Judged, S!Actor
    <3>2. QED
      BY <1>6, <2>1, <3>1 DEF S!RequireAuth
  <2>2. CASE S!End(r)
    BY <1>6, <2>2, EndJudged DEF S!RequireAuth, S!End
  <2>3. QED
    BY <1>6, <2>1, <2>2 DEF S!RequireAuth
<1>7. ASSUME NEW r \in Requests, S!GetMe(r) \/ S!Abort(r) PROVE SessionsInv'
  BY <1>7, EndJudged DEF S!GetMe, S!Abort, S!End
<1>8. ASSUME NEW r \in Requests, S!UpdateUserStatus(r) PROVE SessionsInv'
  <2>1. CASE S!IsAllowed(S!Actor(r), req[r].ask)
    <3>1. /\ req[r].ask.of \in Users /\ req[r].ask.set \in S!Statuses
      BY <1>8, ActorIsUser DEF S!UpdateUserStatus, S!Asks
    <3>2. /\ status' = [status EXCEPT ![req[r].ask.of] = req[r].ask.set]
          /\ overtaken' = (overtaken \/ status[S!Actor(r)] # "active")
          /\ aliased' = (aliased \/ (req[r].ask.of = S!Actor(r) /\ ~req[r].ask.exact))
          /\ pc'  = [pc EXCEPT ![r] = "idle"]
          /\ req' = [req EXCEPT ![r] = None]
          /\ entitled' = [x \in Requests |->
               x # r /\ \/ entitled[x]
                        \/ /\ pc[x] = "auth" /\ S!Actor(x) = req[r].ask.of
                           /\ req[r].ask.set = "active"]
          /\ UNCHANGED <<row, access>>
      BY <1>8, <2>1 DEF S!UpdateUserStatus
    <3>3. ASSUME NEW x \in Requests PROVE Judged(x)'
      <4>1. CASE x = r
        BY <3>2, <4>1 DEF Judged
      <4>2. CASE x # r
        <5>1. /\ pc'[x] = pc[x] /\ req'[x] = req[x]
              /\ S!Actor(x)' = S!Actor(x)
              /\ entitled[x] => entitled'[x]
          BY <3>2, <4>2 DEF S!Actor
        <5>2. pc[x] = "auth" /\ status'[S!Actor(x)] = "active" => entitled'[x]
          <6> SUFFICES ASSUME pc[x] = "auth", status'[S!Actor(x)] = "active"
                       PROVE  entitled'[x]
            OBVIOUS
          <6>1. S!Actor(x) \in Users
            BY ActorIsUser
          <6>2. CASE S!Actor(x) = req[r].ask.of
            BY <3>1, <3>2, <4>2, <6>1, <6>2
          <6>3. CASE S!Actor(x) # req[r].ask.of
            BY <3>2, <5>1, <6>1, <6>3 DEF Judged
          <6>4. QED
            BY <6>2, <6>3
        <5>3. QED
          BY <5>1, <5>2 DEF Judged
      <4>3. QED
        BY <4>1, <4>2
    <3>4. /\ status' \in [Users -> S!Statuses]
          /\ {overtaken', aliased'} \subseteq BOOLEAN
      BY <3>1, <3>2
    <3>5. QED
      BY <3>2, <3>3, <3>4
  <2>2. CASE S!End(r) /\ UNCHANGED <<status, overtaken, aliased>>
    BY <1>8, <2>2, EndJudged DEF S!UpdateUserStatus, S!End
  <2>3. QED
    BY <1>8, <2>1, <2>2 DEF S!UpdateUserStatus
<1>9. CASE UNCHANGED S!vars
  BY <1>9 DEF S!vars, Judged, S!Actor
<1>10. QED
  BY <1>1, <1>2, <1>3, <1>4, <1>5, <1>6, <1>7, <1>8, <1>9 DEF S!Next

\* An UPDATE by an admin who is active leaves that admin active, or is one by
\* another spelling of its own id.
LEMMA AdminStep ==
    ASSUME SessionsInv, S!SomeAdminIsLeft, S!Next \/ UNCHANGED S!vars
    PROVE  S!SomeAdminIsLeft'
<1> USE DEF S!SomeAdminIsLeft
<1>1. ASSUME NEW r \in Requests, S!UpdateUserStatus(r)
      PROVE  S!SomeAdminIsLeft'
  <2>1. /\ S!Actor(r) \in Admins /\ S!Actor(r) \in Users
        /\ status \in [Users -> S!Statuses]
    BY <1>1, ActorIsUser DEF S!UpdateUserStatus, SessionsInv, Judged, S!TypeOK
  <2>2. CASE S!IsAllowed(S!Actor(r), req[r].ask)
    BY <1>1, <2>1, <2>2 DEF S!UpdateUserStatus, S!IsAllowed
  <2>3. CASE ~S!IsAllowed(S!Actor(r), req[r].ask)
    BY <1>1, <2>3 DEF S!UpdateUserStatus
  <2>4. QED
    BY <2>2, <2>3
<1>2. ASSUME UNCHANGED <<status, overtaken, aliased>> PROVE S!SomeAdminIsLeft'
  BY <1>2
<1>3. QED
  BY <1>1, <1>2
     DEF S!Next, S!Tick, S!Expire, S!IssueTokens, S!Logout, S!RefreshFind,
         S!Arrive, S!RefreshSign, S!RequireAuth, S!GetMe, S!Abort, S!vars

LEMMA EndedStep ==
    ASSUME SessionsInv, S!Next
    PROVE  S!EndedIsEnded
<1> SUFFICES ASSUME NEW s \in Sessions, row[s] \in {"revoked", "expired"},
                    ~\E r \in Requests :
                       pc[r] = "refresh" /\ req[r].session = s /\ entitled[r]
             PROVE  access'[s] <= access[s]
  BY DEF S!EndedIsEnded
<1>1. access[s] \in Nat /\ access \in [Sessions -> 0 .. TTL]
  BY SessionsConstants DEF SessionsInv, S!TypeOK
<1>2. CASE S!Tick
  BY <1>1, <1>2 DEF S!Tick
<1>3. ASSUME NEW t \in Sessions, S!IssueTokens(t) PROVE access'[s] <= access[s]
  BY <1>1, <1>3 DEF S!IssueTokens, S!Sign
<1>4. ASSUME NEW r \in Requests, S!RefreshSign(r) PROVE access'[s] <= access[s]
  <2>1. req[r].session # s
    BY <1>4 DEF S!RefreshSign, SessionsInv, Judged
  <2>2. QED
    BY <1>1, <1>4, <2>1 DEF S!RefreshSign, S!Sign
<1>5. ASSUME UNCHANGED access PROVE access'[s] <= access[s]
  BY <1>1, <1>5
<1>6. QED
  BY <1>2, <1>3, <1>4, <1>5
     DEF S!Next, S!Expire, S!Logout, S!RefreshFind, S!Arrive, S!RequireAuth,
         S!GetMe, S!UpdateUserStatus, S!Abort

-----------------------------------------------------------------------------
(* NewDevice.                                                              *)

\* FiniteSets, as the components have it, is FiniteSets.
LEMMA SameSets ==
    /\ \A x : L!Cardinality(x) = Cardinality(x)
    /\ \A x : L!IsFiniteSet(x) = IsFiniteSet(x)
    /\ \A x : N!Cardinality(x) = Cardinality(x)
    /\ \A x : N!IsFiniteSet(x) = IsFiniteSet(x)
BY DEF L!Cardinality, N!Cardinality, Cardinality,
       L!IsFiniteSet, N!IsFiniteSet, IsFiniteSet

LEMMA DeviceConstants ==
    IsFiniteSet(Logins) /\ MaxFaults \in Nat /\ None \notin Ips
BY AccessAssumption, SameSets DEF N!NewDeviceAssumption

Rows == [by : Logins, ip : Ips]

\* The logins that have written their row.
Logged == {l \in Logins : pc[l] # "password"}

\* When login l was complete there was one row from address ip at most.
SeenOnce(l, ip) ==
    \A i, j \in 1 .. seen[l] : rows[i].ip = ip /\ rows[j].ip = ip => i = j

\* A check runs for an address that stays; its login has written its row before;
\* what it is about to call new has been seen once.
CheckInv ==
    \A l \in Logins :
        /\ pc[l] \in {"password", "logged", "challenge"} => check[l] = "none"
        /\ pc[l] # "password" => at[l] \in Ips
        /\ seen[l] \in 0 .. Len(rows)
        /\ check[l] # "none" =>
             \A i \in DOMAIN rows : rows[i].by = l => i <= seen[l]
        /\ check[l] = "insert" => SeenOnce(l, at[l])

\* So has what has been called new.
AlertedOnce ==
    \A a \in alerts : check[a.by] # "none" /\ SeenOnce(a.by, a.ip)

DeviceTypes ==
    /\ pc \in [Logins -> {"password", "logged", "challenge", "issue", "in", "failed"}]
    /\ check \in [Logins -> {"none", "count", "insert", "done"}]
    /\ at \in [Logins -> Ips \cup {None}]
    /\ alerts \subseteq Rows
    /\ seen \in [Logins -> Nat]
    /\ disturbed \subseteq Logins
    /\ faults \in Nat /\ faults <= MaxFaults

DeviceInv ==
    /\ DeviceTypes
    /\ rows \in Seq(Rows)
    /\ Len(rows) = Cardinality(Logged)
    /\ \A i \in DOMAIN rows : pc[rows[i].by] # "password"
    /\ \A a \in alerts : pc[a.by] # "password"
    /\ CheckInv
    /\ AlertedOnce

LEMMA LoggedFinite ==
    IsFiniteSet(Logged) /\ Cardinality(Logged) <= Cardinality(Logins)
BY DeviceConstants, FS_Subset DEF Logged

LEMMA DeviceInit == N!Init => DeviceInv
<1> SUFFICES ASSUME N!Init PROVE DeviceInv
  OBVIOUS
<1>1. Logged = {} /\ Cardinality({}) = 0
  BY FS_EmptySet DEF N!Init, Logged
<1>2. rows \in Seq(Rows) /\ Len(rows) = 0 /\ DOMAIN rows = {}
  BY DEF N!Init
<1>3. DeviceTypes
  BY DeviceConstants DEF N!Init, DeviceTypes
<1>4. CheckInv /\ AlertedOnce
  BY <1>2 DEF N!Init, CheckInv, AlertedOnce
<1>5. QED
  BY <1>1, <1>2, <1>3, <1>4 DEF DeviceInv, N!Init

\* Of the rows that were counted there is one at most.
LEMMA CountedOnce ==
    ASSUME DeviceInv, NEW ip, N!IsNew(ip),
           NEW i \in DOMAIN rows, NEW j \in DOMAIN rows,
           rows[i].ip = ip, rows[j].ip = ip
    PROVE  i = j
<1> SUFFICES ASSUME i # j PROVE FALSE
  OBVIOUS
<1> DEFINE Counted == {k \in DOMAIN rows : rows[k].ip = ip}
<1>1. DOMAIN rows = 1 .. Len(rows) /\ Len(rows) \in Nat
  BY DEF DeviceInv
<1>2. IsFiniteSet(Counted) /\ Cardinality(Counted) <= 1
  <2>1. IsFiniteSet(1 .. Len(rows))
    BY <1>1, FS_Interval
  <2>2. IsFiniteSet(Counted)
    BY <1>1, <2>1, FS_Subset
  <2>3. QED
    BY <2>2, SameSets DEF N!IsNew, N!PriorSuccesses
<1>3. IsFiniteSet({i} \cup {j}) /\ Cardinality({i} \cup {j}) = 2
  <2>1. IsFiniteSet({i}) /\ Cardinality({i}) = 1
    BY FS_Singleton
  <2>2. j \notin {i}
    OBVIOUS
  <2>3. QED
    BY <2>1, <2>2, FS_AddElement
<1>4. {i} \cup {j} \subseteq Counted
  OBVIOUS
<1>5. Cardinality({i} \cup {j}) <= Cardinality(Counted) /\ Cardinality(Counted) \in Nat
  BY <1>2, <1>4, FS_Subset, FS_CardinalityType
<1>6. QED
  BY <1>2, <1>3, <1>5

\* A step that writes no row and takes no login back to its password.
LEMMA DeviceQuiet ==
    ASSUME DeviceInv, DeviceTypes', rows' = rows, Logged' = Logged,
           \A a \in alerts' : a \in alerts \/ (a \in Rows /\ a.by \in Logged),
           CheckInv', AlertedOnce'
    PROVE  DeviceInv'
<1>1. \A l \in Logins : (pc'[l] # "password") = (pc[l] # "password")
  BY DEF Logged
<1>2. \A a \in Rows : a.by \in Logins
  BY DEF Rows
<1>3. \A i \in DOMAIN rows : rows[i] \in Rows
  BY DEF DeviceInv
<1>4. alerts \subseteq Rows
  BY DEF DeviceInv, DeviceTypes
<1>5. /\ \A i \in DOMAIN rows' : pc'[rows'[i].by] # "password"
      /\ \A a \in alerts' : pc'[a.by] # "password"
  BY <1>1, <1>2, <1>3, <1>4 DEF DeviceInv, Logged
<1>6. QED
  BY <1>5 DEF DeviceInv

LEMMA DeviceTyped == DeviceInv => N!TypeOK
<1> SUFFICES ASSUME DeviceInv PROVE N!TypeOK
  OBVIOUS
<1>1. Len(rows) <= N!Cardinality(Logins)
  BY LoggedFinite, SameSets DEF DeviceInv
<1>2. \A i \in DOMAIN rows : rows[i] \in Rows
  BY DEF DeviceInv
<1>3. faults \in 0 .. MaxFaults
  BY DeviceConstants DEF DeviceInv, DeviceTypes
<1>4. seen \in [Logins -> 0 .. Len(rows)]
  BY DEF DeviceInv, DeviceTypes, CheckInv
<1>5. QED
  BY <1>1, <1>2, <1>3, <1>4 DEF DeviceInv, DeviceTypes, N!TypeOK, Rows

\* The row of a login that was called new is the only one from there, if it is from
\* there.
LEMMA DeviceSound == DeviceInv => N!NewMeansFirst
<1> SUFFICES ASSUME DeviceInv, NEW a \in alerts
             PROVE  /\ \A i, j \in N!Before(a) : i = j
                    /\ (\E i \in DOMAIN rows : rows[i] = a) => N!Before(a) = {}
  BY DEF N!NewMeansFirst
<1>1. a.by \in Logins /\ check[a.by] # "none" /\ SeenOnce(a.by, a.ip)
  BY DEF DeviceInv, DeviceTypes, AlertedOnce, Rows
<1>2. \A i, j \in N!Before(a) : i = j
  BY <1>1 DEF N!Before, SeenOnce
<1>3. ASSUME NEW i \in DOMAIN rows, rows[i] = a, NEW j \in N!Before(a) PROVE FALSE
  <2>1. i \in 1 .. seen[a.by]
    <3>1. i \in 1 .. Len(rows) /\ Len(rows) \in Nat /\ seen[a.by] \in Nat
      BY <1>1 DEF DeviceInv, DeviceTypes
    <3>2. i <= seen[a.by]
      BY <1>1, <1>3 DEF DeviceInv, CheckInv
    <3>3. QED
      BY <3>1, <3>2
  <2>2. i = j
    BY <1>1, <1>3, <2>1 DEF N!Before, SeenOnce
  <2>3. QED
    BY <1>3, <2>2 DEF N!Before
<1>4. QED
  BY <1>2, <1>3

LEMMA DeviceStep ==
    ASSUME DeviceInv, N!Next \/ UNCHANGED N!vars
    PROVE  DeviceInv'
<1> USE DEF DeviceTypes, N!Goto
<1>a. DeviceTypes /\ rows \in Seq(Rows) /\ CheckInv /\ AlertedOnce
  BY DEF DeviceInv
<1>1. ASSUME NEW l \in Logins, NEW ip \in Ips, N!LogSuccess(l, ip)
      PROVE  DeviceInv'
  <2> DEFINE new == N!Row(l, ip)
             n == Len(rows)
  <2>1. /\ pc[l] = "password" /\ pc' = [pc EXCEPT ![l] = "logged"]
        /\ rows' = Append(rows, new) /\ at' = [at EXCEPT ![l] = ip]
        /\ UNCHANGED <<check, seen, alerts, disturbed, faults>>
    BY <1>1 DEF N!LogSuccess
  <2>2. new \in Rows /\ new.by = l
    BY DEF Rows, N!Row
  <2> HIDE DEF new
  <2>3. /\ rows' \in Seq(Rows) /\ Len(rows') = n + 1
        /\ DOMAIN rows = 1 .. n /\ DOMAIN rows' = 1 .. n + 1 /\ n \in Nat
        /\ \A i \in 1 .. n : rows'[i] = rows[i]
        /\ rows'[n + 1] = new
    BY <1>a, <2>1, <2>2
  <2> HIDE DEF n
  <2>4. Logged' = Logged \cup {l} /\ l \notin Logged
    BY <1>a, <2>1 DEF Logged
  <2>5. Len(rows') = Cardinality(Logged')
    <3>1. Cardinality(Logged') = Cardinality(Logged) + 1
      BY <2>4, LoggedFinite, FS_AddElement
    <3>2. QED
      BY <2>3, <3>1 DEF DeviceInv, n
  <2>7. DeviceTypes'
    BY <1>a, <2>1
  <2>8. \A i \in DOMAIN rows' : pc'[rows'[i].by] # "password"
    <3> SUFFICES ASSUME NEW i \in 1 .. n + 1
                 PROVE  pc'[rows'[i].by] # "password"
      BY <2>3
    <3>1. CASE i = n + 1
      BY <1>a, <2>1, <2>2, <2>3, <3>1
    <3>2. CASE i \in 1 .. n
      BY <2>1, <2>3, <3>2 DEF DeviceInv
    <3>3. QED
      BY <2>3, <3>1, <3>2
  <2>9. \A a \in alerts' : pc'[a.by] # "password"
    BY <2>1 DEF DeviceInv
  <2>10. \A k \in Logins : seen[k] \in 0 .. n
    BY DEF DeviceInv, CheckInv, n
  <2>11. ASSUME NEW k \in Logins, NEW x, SeenOnce(k, x) PROVE SeenOnce(k, x)'
    <3>1. \A i \in 1 .. seen[k] : i \in 1 .. n
      BY <2>3, <2>10
    <3>2. QED
      BY <2>1, <2>3, <2>11, <3>1 DEF SeenOnce
  <2>12. CheckInv'
    <3> SUFFICES ASSUME NEW k \in Logins
                 PROVE  /\ pc'[k] \in {"password", "logged", "challenge"}
                             => check'[k] = "none"
                        /\ pc'[k] # "password" => at'[k] \in Ips
                        /\ seen'[k] \in 0 .. Len(rows')
                        /\ check'[k] # "none" =>
                             \A i \in DOMAIN rows' : rows'[i].by = k => i <= seen'[k]
                        /\ check'[k] = "insert" => SeenOnce(k, at[k])'
      BY DEF CheckInv
    <3>1. seen'[k] \in 0 .. Len(rows')
      BY <2>1, <2>3, <2>10
    <3>2. CASE k = l
      BY <1>a, <2>1, <3>1, <3>2 DEF CheckInv
    <3>3. CASE k # l
      <4>1. pc'[k] = pc[k] /\ check'[k] = check[k] /\ at'[k] = at[k] /\ seen' = seen
        BY <2>1, <3>3
      <4>2. ASSUME check[k] # "none", NEW i \in 1 .. n + 1, rows'[i].by = k
            PROVE  i <= seen[k]
        <5>1. i \in 1 .. n
          BY <2>2, <2>3, <3>3, <4>2
        <5>2. QED
          BY <1>a, <2>3, <4>2, <5>1 DEF CheckInv
      <4>3. check[k] = "insert" => SeenOnce(k, at[k])'
        <5> SUFFICES ASSUME check[k] = "insert" PROVE SeenOnce(k, at[k])'
          OBVIOUS
        <5>1. SeenOnce(k, at[k])
          BY <1>a DEF CheckInv
        <5>2. QED
          BY <2>11, <4>1, <5>1 DEF SeenOnce
      <4>4. QED
        BY <1>a, <2>3, <3>1, <4>1, <4>2, <4>3 DEF CheckInv
    <3>4. QED
      BY <3>2, <3>3
  <2>13. AlertedOnce'
    <3> SUFFICES ASSUME NEW a \in alerts
                 PROVE  check[a.by] # "none" /\ SeenOnce(a.by, a.ip)'
      BY <2>1 DEF AlertedOnce
    <3>1. a.by \in Logins /\ check[a.by] # "none" /\ SeenOnce(a.by, a.ip)
      BY <1>a DEF AlertedOnce, Rows
    <3>2. QED
      BY <2>11, <3>1 DEF SeenOnce
  <2>14. QED
    BY <2>3, <2>5, <2>7, <2>8, <2>9, <2>12, <2>13 DEF DeviceInv
\* A login that is complete has its row among those it has seen.
<1>b. ASSUME NEW l \in Logins, check[l] = "none", N!StartCheck(l), rows' = rows,
             at'[l] \in Ips, \A k \in Logins : k # l => at'[k] = at[k] /\ pc'[k] = pc[k],
             pc'[l] = "issue", alerts' = alerts
      PROVE  CheckInv' /\ AlertedOnce' /\ check' \in [Logins ->
                 {"none", "count", "insert", "done"}] /\ seen' \in [Logins -> Nat]
  <2>1. /\ check' = [check EXCEPT ![l] = "count"]
        /\ seen' = [seen EXCEPT ![l] = Len(rows)]
        /\ Len(rows) \in Nat /\ DOMAIN rows = 1 .. Len(rows)
    BY <1>a, <1>b DEF N!StartCheck
  <2>2. ASSUME NEW k \in Logins, k # l
        PROVE  /\ check'[k] = check[k] /\ seen'[k] = seen[k]
               /\ \A x : SeenOnce(k, x) => SeenOnce(k, x)'
    BY <1>a, <1>b, <2>1, <2>2 DEF SeenOnce
  <2>3. ASSUME NEW k \in Logins
        PROVE  /\ pc'[k] \in {"password", "logged", "challenge"} => check'[k] = "none"
               /\ pc'[k] # "password" => at'[k] \in Ips
               /\ seen'[k] \in 0 .. Len(rows')
               /\ check'[k] # "none" =>
                    \A i \in DOMAIN rows' : rows'[i].by = k => i <= seen'[k]
               /\ check'[k] = "insert" => SeenOnce(k, at[k])'
    <3>1. CASE k = l
      BY <1>a, <1>b, <2>1, <3>1
    <3>2. CASE k # l
      <4>1. check'[k] = "insert" => SeenOnce(k, at[k])'
        <5> SUFFICES ASSUME check[k] = "insert" PROVE SeenOnce(k, at[k])'
          BY <2>2, <3>2
        <5>1. SeenOnce(k, at[k]) /\ at'[k] = at[k]
          BY <1>a, <1>b, <3>2 DEF CheckInv
        <5>2. QED
          BY <2>2, <3>2, <5>1 DEF SeenOnce
      <4>2. QED
        BY <1>a, <1>b, <2>2, <3>2, <4>1 DEF CheckInv
    <3>3. QED
      BY <3>1, <3>2
  <2>4. AlertedOnce'
    <3> SUFFICES ASSUME NEW a \in alerts
                 PROVE  check'[a.by] # "none" /\ SeenOnce(a.by, a.ip)'
      BY <1>b DEF AlertedOnce
    <3>1. a.by \in Logins /\ check[a.by] # "none" /\ SeenOnce(a.by, a.ip)
      BY <1>a DEF AlertedOnce, Rows
    <3>2. a.by # l
      BY <1>b, <3>1
    <3>3. QED
      BY <2>2, <3>1, <3>2 DEF SeenOnce
  <2>5. QED
    BY <1>a, <2>1, <2>3, <2>4 DEF CheckInv
<1>2. ASSUME NEW l \in Logins, NEW ip \in Ips, N!VerifyCode(l, ip)
      PROVE  DeviceInv'
  <2>1. /\ Logged' = Logged /\ rows' = rows /\ alerts' = alerts
        /\ pc[l] = "challenge" /\ pc' = [pc EXCEPT ![l] = "issue"]
        /\ at' = [at EXCEPT ![l] = ip] /\ N!StartCheck(l)
        /\ UNCHANGED <<disturbed, faults>>
    BY <1>2, <1>a DEF N!VerifyCode, N!LoggedByCode, Logged
  <2>2. check[l] = "none"
    BY <1>a, <2>1 DEF CheckInv
  <2>3. CheckInv' /\ AlertedOnce' /\ check' \in [Logins ->
                 {"none", "count", "insert", "done"}] /\ seen' \in [Logins -> Nat]
    BY <1>a, <1>b, <2>1, <2>2
  <2>4. DeviceTypes'
    BY <1>a, <2>1, <2>3
  <2>5. QED
    BY <2>1, <2>3, <2>4, DeviceQuiet
<1>10. ASSUME NEW l \in Logins, N!Complete(l) PROVE DeviceInv'
  <2>1. /\ Logged' = Logged /\ rows' = rows /\ alerts' = alerts
        /\ pc[l] = "logged" /\ pc' = [pc EXCEPT ![l] = "issue"]
        /\ at' = at /\ N!StartCheck(l)
        /\ UNCHANGED <<disturbed, faults>>
    BY <1>10, <1>a DEF N!Complete, Logged
  <2>2. check[l] = "none" /\ at'[l] \in Ips
    BY <1>a, <2>1 DEF CheckInv
  <2>3. CheckInv' /\ AlertedOnce' /\ check' \in [Logins ->
                 {"none", "count", "insert", "done"}] /\ seen' \in [Logins -> Nat]
    BY <1>a, <1>b, <2>1, <2>2
  <2>4. DeviceTypes'
    BY <1>a, <2>1, <2>3
  <2>5. QED
    BY <2>1, <2>3, <2>4, DeviceQuiet
\* A step that starts no check.
<1>c. ASSUME UNCHANGED <<rows, seen, at, alerts>>,
             \A k \in Logins :
               /\ pc'[k] \in {"password", "logged", "challenge"} => check[k] = "none"
               /\ pc'[k] # "password" => pc[k] # "password"
               /\ check'[k] = check[k] \/ (check'[k] = "done" /\ check[k] # "none")
      PROVE  CheckInv' /\ AlertedOnce'
  <2>1. \A k \in Logins : \A x : SeenOnce(k, x)' <=> SeenOnce(k, x)
    BY <1>c DEF SeenOnce
  <2>2. AlertedOnce'
    <3> SUFFICES ASSUME NEW a \in alerts
                 PROVE  check'[a.by] # "none" /\ SeenOnce(a.by, a.ip)'
      BY <1>c DEF AlertedOnce
    <3>1. a.by \in Logins /\ check[a.by] # "none" /\ SeenOnce(a.by, a.ip)
      BY <1>a DEF AlertedOnce, Rows
    <3>2. QED
      BY <1>c, <3>1 DEF SeenOnce
  <2>3. CheckInv'
    <3> SUFFICES ASSUME NEW k \in Logins
                 PROVE  /\ pc'[k] \in {"password", "logged", "challenge"}
                             => check'[k] = "none"
                        /\ pc'[k] # "password" => at'[k] \in Ips
                        /\ seen'[k] \in 0 .. Len(rows')
                        /\ check'[k] # "none" =>
                             \A i \in DOMAIN rows' : rows'[i].by = k => i <= seen'[k]
                        /\ check'[k] = "insert" => SeenOnce(k, at[k])'
      BY DEF CheckInv
    <3>1. check'[k] = "insert" => SeenOnce(k, at[k])'
      BY <1>a, <1>c DEF CheckInv, SeenOnce
    <3>2. pc'[k] \in {"password", "logged", "challenge"} => check'[k] = "none"
      BY <1>a, <1>c
    <3>3. QED
      BY <1>a, <1>c, <3>1, <3>2 DEF CheckInv
  <2>4. QED
    BY <2>2, <2>3
<1>3. ASSUME NEW l \in Logins,
             N!AskForCode(l) \/ N!IssueTokens(l) \/ N!IssueFails(l)
      PROVE  DeviceInv'
  <2>1. /\ Logged' = Logged /\ UNCHANGED <<rows, seen, check, at, alerts, disturbed>>
        /\ pc[l] \in {"logged", "issue"}
        /\ \E there \in {"challenge", "in", "failed"} :
              /\ pc' = [pc EXCEPT ![l] = there]
              /\ there = "challenge" => pc[l] = "logged"
    BY <1>3, <1>a DEF N!AskForCode, N!IssueTokens, N!IssueFails, Logged
  <2>2. DeviceTypes'
    BY <1>3, <1>a, <2>1, DeviceConstants
       DEF N!AskForCode, N!IssueTokens, N!IssueFails
  <2>3. \A k \in Logins :
          /\ pc'[k] \in {"password", "logged", "challenge"} => check[k] = "none"
          /\ pc'[k] # "password" => pc[k] # "password"
    BY <1>a, <2>1 DEF CheckInv
  <2>4. QED
    BY <1>c, <2>1, <2>2, <2>3, DeviceQuiet
<1>4. ASSUME NEW l \in Logins, N!EvaluateNewDevice(l) PROVE DeviceInv'
  <2>1. /\ Logged' = Logged /\ UNCHANGED <<rows, pc, at, seen, alerts, disturbed, faults>>
        /\ check[l] = "count"
        /\ check' = [check EXCEPT ![l] = IF N!IsNew(at[l]) THEN "insert" ELSE "done"]
    BY <1>4 DEF N!EvaluateNewDevice, Logged
  <2>2. DeviceTypes'
    BY <1>a, <2>1
  <2>3. N!IsNew(at[l]) => SeenOnce(l, at[l])
    <3> SUFFICES ASSUME N!IsNew(at[l]), NEW i \in 1 .. seen[l], NEW j \in 1 .. seen[l],
                        rows[i].ip = at[l], rows[j].ip = at[l]
                 PROVE  i = j
      BY DEF SeenOnce
    <3>1. i \in DOMAIN rows /\ j \in DOMAIN rows
      BY <1>a DEF CheckInv
    <3>2. QED
      BY <3>1, CountedOnce
  <2>4. CheckInv'
    <3>1. \A k \in Logins : \A x : SeenOnce(k, x) => SeenOnce(k, x)'
      BY <2>1 DEF SeenOnce
    <3>2. ASSUME NEW k \in Logins
          PROVE  /\ pc'[k] \in {"password", "logged", "challenge"} => check'[k] = "none"
                 /\ pc'[k] # "password" => at'[k] \in Ips
                 /\ seen'[k] \in 0 .. Len(rows')
                 /\ check'[k] # "none" =>
                      \A i \in DOMAIN rows' : rows'[i].by = k => i <= seen'[k]
                 /\ check'[k] = "insert" => SeenOnce(k, at[k])'
      <4>1. check'[k] = "insert" => SeenOnce(k, at[k])
        BY <1>a, <2>1, <2>3 DEF CheckInv
      <4>2. check'[k] = "insert" => SeenOnce(k, at[k])'
        BY <2>1, <4>1 DEF SeenOnce
      <4>3. QED
        BY <1>a, <2>1, <4>2 DEF CheckInv
    <3>3. QED
      BY <3>2 DEF CheckInv
  <2>5. AlertedOnce'
    <3> SUFFICES ASSUME NEW a \in alerts
                 PROVE  check'[a.by] # "none" /\ SeenOnce(a.by, a.ip)'
      BY <2>1 DEF AlertedOnce
    <3>1. a.by \in Logins /\ check[a.by] # "none" /\ SeenOnce(a.by, a.ip)
      BY <1>a DEF AlertedOnce, Rows
    <3>2. QED
      BY <1>a, <2>1, <3>1 DEF SeenOnce
  <2>6. QED
    BY <2>1, <2>2, <2>4, <2>5, DeviceQuiet
<1>5. ASSUME NEW l \in Logins, N!CreateAlert(l) PROVE DeviceInv'
  <2>1. /\ Logged' = Logged /\ UNCHANGED <<rows, pc, at, seen, disturbed, faults>>
        /\ check[l] = "insert" /\ check' = [check EXCEPT ![l] = "done"]
        /\ alerts' = alerts \cup {N!Row(l, at[l])}
    BY <1>5 DEF N!CreateAlert, Logged
  <2>2. /\ N!Row(l, at[l]) \in Rows /\ N!Row(l, at[l]).by = l /\ l \in Logged
        /\ N!Row(l, at[l]).ip = at[l]
    BY <1>a, <2>1 DEF CheckInv, N!Row, Rows, Logged
  <2>4. DeviceTypes'
    BY <1>a, <2>1, <2>2 DEF Rows
  <2>5. CheckInv'
    BY <1>a, <2>1 DEF CheckInv, SeenOnce
  <2>6. AlertedOnce'
    <3> SUFFICES ASSUME NEW a \in alerts'
                 PROVE  check'[a.by] # "none" /\ SeenOnce(a.by, a.ip)'
      BY DEF AlertedOnce
    <3>1. a.by \in Logins /\ check[a.by] # "none" /\ SeenOnce(a.by, a.ip)
      <4>1. CASE a \in alerts
        BY <1>a, <4>1 DEF AlertedOnce, Rows
      <4>2. CASE a = N!Row(l, at[l])
        BY <1>a, <2>1, <2>2, <4>2 DEF CheckInv
      <4>3. QED
        BY <2>1, <4>1, <4>2
    <3>2. QED
      BY <1>a, <2>1, <3>1 DEF SeenOnce
  <2>7. QED
    BY <2>1, <2>2, <2>4, <2>5, <2>6, DeviceQuiet
<1>6. ASSUME NEW l \in Logins, N!CheckFails(l) PROVE DeviceInv'
  <2>1. /\ Logged' = Logged /\ UNCHANGED <<rows, pc, at, seen, alerts>>
        /\ check[l] # "none" /\ check' = [check EXCEPT ![l] = "done"]
    BY <1>6 DEF N!CheckFails, Logged
  <2>2. DeviceTypes'
    BY <1>6, <1>a, <2>1, DeviceConstants DEF N!CheckFails
  <2>3. \A k \in Logins :
          /\ pc'[k] \in {"password", "logged", "challenge"} => check[k] = "none"
          /\ check'[k] = check[k] \/ (check'[k] = "done" /\ check[k] # "none")
    BY <1>a, <2>1 DEF CheckInv
  <2>4. QED
    BY <1>c, <2>1, <2>2, <2>3, DeviceQuiet
<1>7. CASE N!Crash
  <2>1. Logged' = Logged /\ UNCHANGED <<rows, at, seen, alerts>>
    BY <1>7, <1>a DEF N!Crash, Logged
  <2>2. DeviceTypes'
    BY <1>7, <1>a, <2>1, DeviceConstants DEF N!Crash
  <2>3. \A k \in Logins :
          /\ pc'[k] \in {"password", "logged", "challenge"} => check[k] = "none"
          /\ pc'[k] # "password" => pc[k] # "password"
          /\ check'[k] = check[k] \/ (check'[k] = "done" /\ check[k] # "none")
    BY <1>7, <1>a DEF N!Crash, CheckInv
  <2>4. QED
    BY <1>c, <2>1, <2>2, <2>3, DeviceQuiet
<1>8. CASE UNCHANGED N!vars
  <2>1. UNCHANGED <<rows, pc, check, at, seen, alerts, disturbed, faults>>
    BY <1>8 DEF N!vars
  <2>2. Logged' = Logged /\ DeviceTypes'
    BY <1>a, <2>1 DEF Logged
  <2>3. \A k \in Logins :
          pc'[k] \in {"password", "logged", "challenge"} => check[k] = "none"
    BY <1>a, <2>1 DEF CheckInv
  <2>4. QED
    BY <1>c, <2>1, <2>2, <2>3, DeviceQuiet
<1>9. QED
  BY <1>1, <1>2, <1>3, <1>4, <1>5, <1>6, <1>7, <1>8, <1>10 DEF N!Next

-----------------------------------------------------------------------------
(* Login: the passwords that are guessed between two locks.                *)

\* The requests that give a wrong password.
Guessers == Callers \ {Owner}

\* Past the check of locked_until, and not counted yet.
Past == {c \in Guessers : pc[c] \in {"compare", "increment"}}

\* On the way to the lock.
Locking == {"logLast", "evaluateLast", "alertLast", "lock"}

\* The requests that may guess once more before there is a lock, or in spite of it.
MayGuess ==
    IF L!IsLocked(locked) THEN Past ELSE {c \in Guessers : pc[c] \notin Locking}

\* What the requests and the faults so far may add to the limit.
Extra(f) == Cardinality(Guessers) * (1 + f)

LoginData ==
    /\ failedCount \in Nat /\ sinceLock \in Nat
    /\ locked \in L!Ages \cup {None}
    /\ alertAge \in (0 .. Lockout + 1) \cup {None}
    /\ badRows \in [L!Ages -> 0 .. MaxAttempts]
    /\ otherRows \in [L!Ages -> 0 .. MaxAttempts]

Places == {"idle", "in", "logLocked", "compare", "increment", "logBad", "logLast",
           "evaluate", "evaluateLast", "alert", "alertLast", "lock", "reset",
           "logSuccess"}

LoginTypes == LoginData /\ pc \in [Callers -> Places] /\ faults \in 0 .. MaxFaults

CountInv ==
    /\ sinceLock <= failedCount
    /\ failedCount + Cardinality(Past) <= MaxCount + Cardinality(Callers)
    /\ failedCount >= MaxAttempts
         => sinceLock + Cardinality(MayGuess) < MaxAttempts + Extra(faults)
    /\ pc[Owner] # "increment"

LoginInv == LoginTypes /\ CountInv

LEMMA LoginConstants ==
    /\ IsFiniteSet(Callers) /\ Owner \in Callers
    /\ MaxAttempts \in Nat /\ MaxAttempts > 0
    /\ Lockout \in Nat /\ Lockout > 0
    /\ MaxCount \in Nat /\ MaxFaults \in Nat /\ None \notin Nat
<1>1. L!LoginAssumption /\ IsFiniteSet(Callers)
  BY AccessAssumption, SameSets DEF L!LoginAssumption
<1>2. QED
  BY <1>1 DEF L!LoginAssumption

\* The sets that are counted are no larger than that of the guessers.
LEMMA GuesserSets ==
    ASSUME NEW A \in SUBSET Guessers, NEW B \in SUBSET A
    PROVE  /\ Cardinality(A) \in Nat /\ Cardinality(B) \in Nat
           /\ Cardinality(B) <= Cardinality(A)
           /\ Cardinality(A) <= Cardinality(Guessers)
           /\ Cardinality(Guessers) \in Nat
           /\ Cardinality(Guessers) <= Cardinality(Callers)
           /\ Cardinality(Callers) \in Nat
<1>1. IsFiniteSet(Callers) /\ Guessers \subseteq Callers
  BY LoginConstants DEF Guessers
<1>2. IsFiniteSet(Guessers) /\ Cardinality(Guessers) <= Cardinality(Callers)
  BY <1>1, FS_Subset
<1>3. IsFiniteSet(A) /\ Cardinality(A) <= Cardinality(Guessers)
  BY <1>2, FS_Subset
<1>4. IsFiniteSet(B) /\ Cardinality(B) <= Cardinality(A)
  BY <1>3, FS_Subset
<1>5. QED
  BY <1>1, <1>2, <1>3, <1>4, FS_CardinalityType

LEMMA GuesserRemoved ==
    ASSUME NEW A \in SUBSET Guessers, NEW c \in A
    PROVE  Cardinality(A \ {c}) = Cardinality(A) - 1
<1>1. IsFiniteSet(A)
  BY LoginConstants, FS_Subset DEF Guessers
<1>2. QED
  BY <1>1, FS_RemoveElement

\* A fault adds the number of the guessers.
LEMMA ExtraFacts ==
    ASSUME NEW f \in Nat
    PROVE  /\ Extra(f) \in Nat /\ Extra(f) >= Cardinality(Guessers)
           /\ Extra(f + 1) = Extra(f) + Cardinality(Guessers)
<1>1. Cardinality(Guessers) \in Nat
  BY GuesserSets
<1>2. \A g \in Nat : /\ g * (1 + f) \in Nat /\ g * (1 + f) >= g
                     /\ g * (1 + (f + 1)) = g * (1 + f) + g
  OBVIOUS
<1>3. QED
  BY <1>1, <1>2 DEF Extra

LEMMA CountedSets == /\ Past \in SUBSET Guessers /\ MayGuess \in SUBSET Guessers
                     /\ Past \subseteq MayGuess
BY DEF Past, MayGuess, Locking

LEMMA CountedSetsNext == /\ Past' \in SUBSET Guessers /\ MayGuess' \in SUBSET Guessers
                         /\ Past' \subseteq MayGuess'
BY DEF Past, MayGuess, Locking

LEMMA LoginInit == L!Init => LoginInv
<1> SUFFICES ASSUME L!Init PROVE LoginInv
  OBVIOUS
<1>1. 0 \in L!Ages
  BY LoginConstants DEF L!Ages
<1>2. LoginTypes
  BY <1>1, LoginConstants DEF L!Init, LoginTypes, LoginData, Places
<1>3. Past = {} /\ Cardinality({}) = 0
  BY FS_EmptySet DEF L!Init, Past, Guessers
<1>4. Cardinality(Callers) \in Nat
  BY GuesserSets
<1>5. CountInv
  BY <1>3, <1>4, LoginConstants DEF L!Init, CountInv
<1>6. QED
  BY <1>2, <1>5 DEF LoginInv

\* A step that counts nothing, and lets nobody guess who might not before.
LEMMA CountsStill ==
    ASSUME LoginInv, UNCHANGED <<failedCount, sinceLock, faults>>,
           Past' \subseteq Past, MayGuess' \subseteq MayGuess, pc'[Owner] # "increment"
    PROVE  CountInv'
<1>1. /\ Cardinality(Past') <= Cardinality(Past)
      /\ Cardinality(Past') \in Nat /\ Cardinality(Past) \in Nat
  BY GuesserSets, CountedSets, CountedSetsNext
<1>2. /\ Cardinality(MayGuess') <= Cardinality(MayGuess)
      /\ Cardinality(MayGuess') \in Nat /\ Cardinality(MayGuess) \in Nat
  BY GuesserSets, CountedSets, CountedSetsNext
<1>3. Cardinality(Callers) \in Nat /\ Extra(faults) \in Nat
  BY GuesserSets, ExtraFacts DEF LoginInv, LoginTypes, LoginData
<1>4. Extra(faults)' = Extra(faults)
  BY DEF Extra, Guessers
<1>5. failedCount \in Nat /\ sinceLock \in Nat
  BY DEF LoginInv, LoginTypes, LoginData
<1>6. QED
  BY <1>1, <1>2, <1>3, <1>4, <1>5, LoginConstants DEF LoginInv, CountInv

\* A fault may let all of them guess again.
LEMMA CountsFault ==
    ASSUME LoginInv, faults' = faults + 1, UNCHANGED <<failedCount, sinceLock>>,
           Past' \subseteq Past, pc'[Owner] # "increment"
    PROVE  CountInv'
<1>1. /\ Cardinality(Past') <= Cardinality(Past)
      /\ Cardinality(Past') \in Nat /\ Cardinality(Past) \in Nat
  BY GuesserSets, CountedSets, CountedSetsNext
<1>2. /\ Cardinality(MayGuess') <= Cardinality(Guessers)
      /\ Cardinality(MayGuess') \in Nat /\ Cardinality(MayGuess) \in Nat
  BY GuesserSets, CountedSets, CountedSetsNext
<1>3. /\ Cardinality(Callers) \in Nat /\ Cardinality(Guessers) \in Nat
      /\ Extra(faults) \in Nat
      /\ Extra(faults + 1) = Extra(faults) + Cardinality(Guessers)
  BY GuesserSets, ExtraFacts DEF LoginInv, LoginTypes, LoginData
<1>4. Extra(faults)' = Extra(faults + 1)
  BY DEF Extra, Guessers
<1>5. failedCount \in Nat /\ sinceLock \in Nat
  BY DEF LoginInv, LoginTypes, LoginData
<1>6. failedCount >= MaxAttempts
        => sinceLock + Cardinality(MayGuess') < MaxAttempts + Extra(faults)'
  BY <1>2, <1>3, <1>4, <1>5, LoginConstants DEF LoginInv, CountInv
<1>7. failedCount + Cardinality(Past') <= MaxCount + Cardinality(Callers)
  BY <1>1, <1>3, <1>5, LoginConstants DEF LoginInv, CountInv
<1>8. QED
  BY <1>6, <1>7 DEF LoginInv, CountInv

\* The wrong password of c is counted.  There is one guess less to come, but
\* for a fault that lets c try again.
LEMMA CountsIncrement ==
    ASSUME LoginInv, NEW c \in Callers, pc[c] = "increment", L!Increment,
           NEW there, pc' = [pc EXCEPT ![c] = there],
           \/ /\ UNCHANGED faults
              /\ there = IF L!LocksAt(failedCount') THEN "logLast" ELSE "logBad"
           \/ faults' = faults + 1 /\ there = "idle"
    PROVE  CountInv'
<1>1. /\ failedCount' = failedCount + 1 /\ sinceLock' = sinceLock + 1
      /\ locked' = locked /\ failedCount \in Nat /\ sinceLock \in Nat
      /\ \A x \in Callers : pc'[x] = IF x = c THEN there ELSE pc[x]
      /\ pc'[c] = there
  BY DEF L!Increment, LoginInv, LoginTypes, LoginData, Places
<1>2. c \in Past /\ c \in Guessers
  BY DEF LoginInv, CountInv, Past, Guessers
<1>3. Past' = Past \ {c}
  BY <1>1 DEF Past, L!LocksAt
<1>4. /\ Cardinality(Past') = Cardinality(Past) - 1
      /\ Cardinality(Past) \in Nat /\ Cardinality(Callers) \in Nat
  BY <1>2, <1>3, CountedSets, GuesserSets, GuesserRemoved
<1>5. failedCount' + Cardinality(Past') <= MaxCount + Cardinality(Callers)
  BY <1>1, <1>4, LoginConstants DEF LoginInv, CountInv
<1>6. ASSUME failedCount' >= MaxAttempts
      PROVE  sinceLock' + Cardinality(MayGuess') < MaxAttempts + Extra(faults)'
  <2>1. /\ Cardinality(Guessers) \in Nat /\ Extra(faults) \in Nat
        /\ Extra(faults) >= Cardinality(Guessers)
        /\ Extra(faults + 1) = Extra(faults) + Cardinality(Guessers)
    BY GuesserSets, ExtraFacts DEF LoginInv, LoginTypes, LoginData
  <2>2. /\ Cardinality(MayGuess) \in Nat /\ Cardinality(MayGuess') \in Nat
        /\ Cardinality(MayGuess') <= Cardinality(Guessers)
    BY CountedSets, CountedSetsNext, GuesserSets
  <2>3. Cardinality(MayGuess) > 0 /\ Cardinality(Guessers) > 0
    <3>1. Cardinality(MayGuess \ {c}) = Cardinality(MayGuess) - 1
      BY <1>2, CountedSets, GuesserRemoved
    <3>2. /\ Cardinality(MayGuess \ {c}) \in Nat
          /\ Cardinality(MayGuess) <= Cardinality(Guessers)
      BY CountedSets, GuesserSets
    <3>3. QED
      BY <2>1, <2>2, <3>1, <3>2
  <2>4. CASE faults' = faults
    <3>1. there = "logLast"
      BY <1>6, <2>4, LoginConstants DEF L!LocksAt, LoginInv, LoginTypes, LoginData
    <3>2. MayGuess' = MayGuess \ {c} /\ c \in MayGuess
      BY <1>1, <1>2, <3>1 DEF MayGuess, Past, Locking, L!IsLocked
    <3>3. /\ Cardinality(MayGuess') = Cardinality(MayGuess) - 1
          /\ Cardinality(MayGuess) <= Cardinality(Guessers)
      BY <3>2, CountedSets, GuesserSets, GuesserRemoved
    <3>4. Extra(faults)' = Extra(faults)
      BY <2>4 DEF Extra, Guessers
    <3>5. QED
      BY <1>1, <1>6, <2>1, <2>2, <3>3, <3>4, LoginConstants DEF LoginInv, CountInv
  <2>5. CASE faults' = faults + 1
    <3>1. Extra(faults)' = Extra(faults) + Cardinality(Guessers)
      BY <2>1, <2>5 DEF Extra, Guessers
    <3>2. QED
      BY <1>1, <1>6, <2>1, <2>2, <2>3, <3>1, LoginConstants DEF LoginInv, CountInv
  <2>6. QED
    BY <2>4, <2>5
<1>7. sinceLock' <= failedCount' /\ pc'[Owner] # "increment"
  BY <1>1, <1>2 DEF LoginInv, CountInv, Guessers
<1>8. QED
  BY <1>5, <1>6, <1>7 DEF CountInv

\* After the right password nothing counts.
LEMMA CountsReset ==
    ASSUME LoginInv, L!Reset, pc'[Owner] # "increment"
    PROVE  CountInv'
<1>1. failedCount' = 0 /\ sinceLock' = 0
  BY DEF L!Reset
<1>2. /\ Cardinality(Past') \in Nat /\ Cardinality(Callers) \in Nat
      /\ Cardinality(Past') <= Cardinality(Callers)
  BY GuesserSets, CountedSetsNext
<1>3. QED
  BY <1>1, <1>2, LoginConstants DEF CountInv

LEMMA LogRowType ==
    ASSUME NEW t \in [L!Ages -> 0 .. MaxAttempts]
    PROVE  L!LogRow(t) \in [L!Ages -> 0 .. MaxAttempts]
<1>1. 0 \in L!Ages
  BY LoginConstants DEF L!Ages
<1>2. \A n \in 0 .. MaxAttempts : n # MaxAttempts => n + 1 \in 0 .. MaxAttempts
  BY LoginConstants
<1>3. QED
  BY <1>1, <1>2 DEF L!LogRow

\* One request moves on and no password is counted.
LEMMA StillStep ==
    ASSUME LoginInv, NEW c \in Callers, NEW there, pc' = [pc EXCEPT ![c] = there],
           UNCHANGED <<failedCount, sinceLock, faults>>,
           locked' = locked \/ locked' = Lockout,
           there \in {"compare", "increment"} => c = Owner \/ pc[c] = "compare",
           c = Owner => there # "increment",
           pc[c] \in Locking => there \in Locking \/ locked' = Lockout
    PROVE  CountInv'
<1>1. \A x \in Callers : pc'[x] = IF x = c THEN there ELSE pc[x]
  BY DEF LoginInv, LoginTypes
<1>2. Past' \subseteq Past
  BY <1>1 DEF Past, Guessers
<1>3. MayGuess' \subseteq MayGuess
  <2>1. CASE locked' = Lockout
    <3>1. MayGuess' = Past'
      BY <2>1, LoginConstants DEF MayGuess, L!IsLocked, Past, Guessers
    <3>2. QED
      BY <1>2, <3>1, CountedSets
  <2>2. CASE locked' = locked /\ locked' # Lockout /\ L!IsLocked(locked)
    <3>1. MayGuess' = Past' /\ MayGuess = Past
      BY <2>2 DEF MayGuess, L!IsLocked, Past, Guessers
    <3>2. QED
      BY <1>2, <3>1
  <2>3. CASE locked' = locked /\ locked' # Lockout /\ ~ L!IsLocked(locked)
    BY <1>1, <2>3 DEF MayGuess, L!IsLocked, Guessers, Locking
  <2>4. QED
    BY <2>1, <2>2, <2>3
<1>4. pc'[Owner] # "increment"
  BY <1>1, LoginConstants DEF LoginInv, CountInv
<1>5. QED
  BY <1>2, <1>3, <1>4, CountsStill

\* One request ends by a fault and no password is counted.
LEMMA FaultStep ==
    ASSUME LoginInv, NEW c \in Callers, pc' = [pc EXCEPT ![c] = "idle"],
           UNCHANGED <<failedCount, sinceLock>>, faults' = faults + 1
    PROVE  CountInv'
<1>1. \A x \in Callers : pc'[x] = IF x = c THEN "idle" ELSE pc[x]
  BY DEF LoginInv, LoginTypes
<1>2. Past' \subseteq Past
  BY <1>1 DEF Past, Guessers
<1>3. pc'[Owner] # "increment"
  BY <1>1, LoginConstants DEF LoginInv, CountInv
<1>4. QED
  BY <1>2, <1>3, CountsFault

\* Whatever statement is performed, the rows keep their types.
LEMMA EffectTypes ==
    ASSUME LoginInv,
           \/ L!LogOther \/ L!Increment \/ L!LogBad \/ L!Alert \/ L!Lock \/ L!Reset
           \/ UNCHANGED <<L!userVars, L!logVars, sinceLock>>
    PROVE  LoginData'
<1> USE DEF LoginData, L!userVars, L!logVars
<1>1. LoginData
  BY DEF LoginInv, LoginTypes
<1>2. CASE L!LogOther
  BY <1>1, <1>2, LogRowType DEF L!LogOther
<1>3. CASE L!Increment
  BY <1>1, <1>3 DEF L!Increment
<1>4. CASE L!LogBad
  BY <1>1, <1>4, LogRowType DEF L!LogBad
<1>5. CASE L!Alert
  BY <1>1, <1>5, LoginConstants DEF L!Alert
<1>6. CASE L!Lock
  BY <1>1, <1>6, LoginConstants DEF L!Lock, L!Ages
<1>7. CASE L!Reset
  BY <1>1, <1>7 DEF L!Reset
<1>8. CASE UNCHANGED <<L!userVars, L!logVars, sinceLock>>
  BY <1>1, <1>8
<1>9. QED
  BY <1>2, <1>3, <1>4, <1>5, <1>6, <1>7, <1>8

LEMMA PlaceTypes ==
    ASSUME LoginInv, NEW c \in Callers, NEW here, NEW there \in Places,
           L!Goto(c, here, there), UNCHANGED faults, LoginData'
    PROVE  LoginTypes'
BY DEF LoginInv, LoginTypes, L!Goto

LEMMA TickStep == ASSUME LoginInv, L!Tick PROVE LoginInv'
<1>1. /\ UNCHANGED <<failedCount, pc, faults>>
      /\ locked' = IF locked \in {None, 0} THEN locked ELSE locked - 1
      /\ sinceLock' = IF locked = 1 THEN 0 ELSE sinceLock
      /\ failedCount \in Nat /\ sinceLock \in Nat /\ locked \in (0 .. Lockout) \cup {None}
  BY DEF L!Tick, LoginInv, LoginTypes, LoginData, L!Ages
<1>2. LoginData'
  <2>1. \A a \in L!Ages : a # 0 => a - 1 \in L!Ages
    BY LoginConstants DEF L!Ages
  <2>2. locked' \in L!Ages \cup {None}
    BY <1>1, LoginConstants DEF L!Ages
  <2>3. badRows' \in [L!Ages -> 0 .. MaxAttempts]
    BY <2>1, LoginConstants DEF L!Tick, LoginInv, LoginTypes, LoginData
  <2>4. otherRows' \in [L!Ages -> 0 .. MaxAttempts]
    BY <2>1, LoginConstants DEF L!Tick, LoginInv, LoginTypes, LoginData
  <2>5. alertAge' \in (0 .. Lockout + 1) \cup {None}
    BY LoginConstants DEF L!Tick, LoginInv, LoginTypes, LoginData
  <2>6. QED
    BY <1>1, <2>2, <2>3, <2>4, <2>5 DEF LoginData
<1>3. LoginTypes'
  BY <1>1, <1>2 DEF LoginInv, LoginTypes
<1>4. Past' = Past
  BY <1>1 DEF Past, Guessers
<1>5. CASE locked = 1
  <2>1. sinceLock' = 0
    BY <1>1, <1>5
  <2>2. /\ Cardinality(MayGuess') <= Cardinality(Guessers)
        /\ Cardinality(MayGuess') \in Nat /\ Cardinality(Guessers) \in Nat
        /\ Cardinality(Past') \in Nat /\ Cardinality(Callers) \in Nat
    BY CountedSetsNext, GuesserSets
  <2>3. Extra(faults) \in Nat /\ Extra(faults) >= Cardinality(Guessers)
    BY ExtraFacts DEF LoginInv, LoginTypes
  <2>4. Extra(faults)' = Extra(faults)
    BY <1>1 DEF Extra, Guessers
  <2>5. CountInv'
    BY <1>1, <1>4, <2>1, <2>2, <2>3, <2>4, LoginConstants DEF LoginInv, CountInv
  <2>6. QED
    BY <1>3, <2>5 DEF LoginInv
<1>6. CASE locked # 1
  <2>1. L!IsLocked(locked)' = L!IsLocked(locked)
    BY <1>1, <1>6, LoginConstants DEF L!IsLocked
  <2>2. MayGuess' = MayGuess
    BY <1>1, <1>4, <2>1 DEF MayGuess, Guessers
  <2>3. CountInv'
    BY <1>1, <1>4, <1>6, <2>2, CountsStill DEF LoginInv, CountInv
  <2>4. QED
    BY <1>3, <2>3 DEF LoginInv
<1>7. QED
  BY <1>5, <1>6

LEMMA FindStep ==
    ASSUME LoginInv, NEW c \in Callers, L!FindByEmail(c)
    PROVE  LoginInv'
<1> DEFINE there == IF L!IsLocked(locked) THEN "logLocked" ELSE "compare"
<1>1. /\ pc[c] \in {"idle", "in"} /\ pc' = [pc EXCEPT ![c] = there]
      /\ c = Owner \/ failedCount < MaxCount
      /\ UNCHANGED <<L!userVars, L!logVars, faults, sinceLock>>
  BY DEF L!FindByEmail
<1>2. UNCHANGED <<failedCount, locked, sinceLock, faults>>
  BY <1>1 DEF L!userVars
<1>3. LoginTypes'
  BY <1>1, EffectTypes DEF LoginInv, LoginTypes, Places
<1>4. CASE L!IsLocked(locked) \/ c = Owner
  BY <1>1, <1>2, <1>3, <1>4, StillStep DEF LoginInv, Locking
<1>5. CASE ~ L!IsLocked(locked) /\ c # Owner
  <2>1. \A x \in Callers : pc'[x] = IF x = c THEN "compare" ELSE pc[x]
    BY <1>1, <1>5 DEF LoginInv, LoginTypes
  <2>2. MayGuess' = MayGuess
    BY <1>1, <1>2, <1>5, <2>1 DEF MayGuess, Guessers, Locking, L!IsLocked
  <2>3. /\ Cardinality(Past') <= Cardinality(Callers)
        /\ Cardinality(Past') \in Nat /\ Cardinality(Callers) \in Nat
    BY CountedSetsNext, GuesserSets
  <2>4. failedCount \in Nat
    BY DEF LoginInv, LoginTypes, LoginData
  <2>5. failedCount' + Cardinality(Past') <= MaxCount + Cardinality(Callers)
    BY <1>1, <1>2, <1>5, <2>3, <2>4, LoginConstants
  <2>6. Extra(faults)' = Extra(faults)
    BY <1>2 DEF Extra, Guessers
  <2>7. pc'[Owner] # "increment"
    BY <1>5, <2>1, LoginConstants DEF LoginInv, CountInv
  <2>8. CountInv'
    BY <1>2, <2>2, <2>5, <2>6, <2>7 DEF LoginInv, CountInv
  <2>9. QED
    BY <1>3, <2>8 DEF LoginInv
<1>6. QED
  BY <1>4, <1>5

\* A statement that counts no password.
LEMMA QuietEffects ==
    ASSUME \/ L!LogOther \/ L!LogBad \/ L!Alert \/ L!Lock
           \/ UNCHANGED <<L!userVars, L!logVars, sinceLock>>
    PROVE  /\ UNCHANGED <<failedCount, sinceLock>>
           /\ locked' = locked \/ locked' = Lockout
BY DEF L!LogOther, L!LogBad, L!Alert, L!Lock, L!userVars, L!logVars

\* A step of the handler that is neither the count nor the reset.
LEMMA QuietStep ==
    ASSUME LoginInv, NEW c \in Callers, NEW here, NEW there \in Places,
           L!Goto(c, here, there), UNCHANGED faults,
           \/ L!LogOther \/ L!LogBad \/ L!Alert \/ L!Lock
           \/ UNCHANGED <<L!userVars, L!logVars, sinceLock>>,
           there \in {"compare", "increment"} => c # Owner /\ here = "compare",
           here \in Locking => there \in Locking \/ locked' = Lockout
    PROVE  LoginInv'
<1>1. LoginData'
  BY EffectTypes
<1>2. LoginTypes'
  BY <1>1, PlaceTypes
<1>3. pc[c] = here /\ pc' = [pc EXCEPT ![c] = there]
  BY DEF L!Goto
<1>4. UNCHANGED <<failedCount, sinceLock>> /\ (locked' = locked \/ locked' = Lockout)
  BY QuietEffects
<1>5. CountInv'
  BY <1>3, <1>4, StillStep
<1>6. QED
  BY <1>2, <1>5 DEF LoginInv

LEMMA QueryFailsStep ==
    ASSUME LoginInv, NEW c \in Callers, L!QueryFails(c)
    PROVE  LoginInv'
<1>1. /\ faults < MaxFaults /\ faults' = faults + 1
      /\ pc' = [pc EXCEPT ![c] = "idle"]
      /\ L!Effect(c) \/ UNCHANGED <<L!userVars, L!logVars, sinceLock>>
  BY DEF L!QueryFails
<1>2. \/ UNCHANGED <<L!userVars, L!logVars, sinceLock>>
      \/ L!LogOther \/ L!LogBad \/ L!Alert \/ L!Lock
      \/ pc[c] = "increment" /\ L!Increment
      \/ pc[c] = "reset" /\ L!Reset
  BY <1>1 DEF L!Effect
<1>3. LoginTypes'
  <2>1. LoginData'
    BY <1>2, EffectTypes
  <2>2. pc' \in [Callers -> Places] /\ faults' \in 0 .. MaxFaults
    BY <1>1, LoginConstants DEF LoginInv, LoginTypes, Places
  <2>3. QED
    BY <2>1, <2>2 DEF LoginTypes
<1>4. CASE L!LogOther \/ L!LogBad \/ L!Alert \/ L!Lock
             \/ UNCHANGED <<L!userVars, L!logVars, sinceLock>>
  <2>1. UNCHANGED <<failedCount, sinceLock>>
    BY <1>4, QuietEffects
  <2>2. QED
    BY <1>1, <1>3, <2>1, FaultStep DEF LoginInv
<1>5. CASE pc[c] = "increment" /\ L!Increment
  BY <1>1, <1>3, <1>5, CountsIncrement DEF LoginInv
<1>6. CASE pc[c] = "reset" /\ L!Reset
  <2>1. pc'[Owner] # "increment"
    BY <1>1, LoginConstants DEF LoginInv, LoginTypes, CountInv
  <2>2. QED
    BY <1>3, <1>6, <2>1, CountsReset DEF LoginInv
<1>7. QED
  BY <1>2, <1>4, <1>5, <1>6

LEMMA ProceedStep ==
    ASSUME LoginInv, NEW c \in Callers, L!Proceed(c)
    PROVE  LoginInv'
<1> USE DEF Places, Locking
<1>1. CASE L!RefuseLocked(c)
  BY <1>1, QuietStep DEF L!RefuseLocked
<1>2. CASE L!ComparePassword(c)
  <2>1. UNCHANGED <<L!userVars, L!logVars, sinceLock>> /\ UNCHANGED faults
    BY <1>2 DEF L!ComparePassword
  <2>2. CASE c = Owner
    <3>1. L!Goto(c, "compare", "reset")
      BY <1>2, <2>2 DEF L!ComparePassword
    <3>2. QED
      BY <2>1, <3>1, QuietStep
  <2>3. CASE c # Owner
    <3>1. L!Goto(c, "compare", "increment")
      BY <1>2, <2>3 DEF L!ComparePassword
    <3>2. QED
      BY <2>1, <2>3, <3>1, QuietStep
  <2>4. QED
    BY <2>2, <2>3
<1>3. CASE L!IncrementFailedLogin(c)
  <2> DEFINE there == IF L!LocksAt(failedCount') THEN "logLast" ELSE "logBad"
  <2>1. /\ L!Increment /\ UNCHANGED faults
        /\ L!Goto(c, "increment", there)
    BY <1>3 DEF L!IncrementFailedLogin
  <2>2. pc[c] = "increment" /\ pc' = [pc EXCEPT ![c] = there]
    BY <2>1 DEF L!Goto
  <2>3. LoginTypes'
    BY <2>1, EffectTypes, PlaceTypes
  <2>4. CountInv'
    BY <2>1, <2>2, CountsIncrement
  <2>5. QED
    BY <2>3, <2>4 DEF LoginInv
<1>4. CASE L!LogBadPassword(c)
  <2>1. L!LogBad /\ UNCHANGED faults
    BY <1>4 DEF L!LogBadPassword
  <2>2. CASE L!Goto(c, "logBad", "evaluate")
    BY <2>1, <2>2, QuietStep
  <2>3. CASE L!Goto(c, "logLast", "evaluateLast")
    BY <2>1, <2>3, QuietStep
  <2>4. QED
    BY <1>4, <2>2, <2>3 DEF L!LogBadPassword
<1>5. CASE L!EvaluateLoginAttempt(c)
  <2>1. /\ UNCHANGED <<L!userVars, L!logVars, sinceLock>> /\ UNCHANGED faults
        /\ \/ L!Goto(c, "evaluate", "alert") \/ L!Goto(c, "evaluate", "idle")
           \/ L!Goto(c, "evaluateLast", "alertLast") \/ L!Goto(c, "evaluateLast", "lock")
    BY <1>5 DEF L!EvaluateLoginAttempt, L!Evaluate
  <2>2. CASE L!Goto(c, "evaluate", "alert")
    BY <2>1, <2>2, QuietStep
  <2>3. CASE L!Goto(c, "evaluate", "idle")
    BY <2>1, <2>3, QuietStep
  <2>4. CASE L!Goto(c, "evaluateLast", "alertLast")
    BY <2>1, <2>4, QuietStep
  <2>5. CASE L!Goto(c, "evaluateLast", "lock")
    BY <2>1, <2>5, QuietStep
  <2>6. QED
    BY <2>1, <2>2, <2>3, <2>4, <2>5
<1>6. CASE L!CreateAlert(c)
  <2>1. L!Alert /\ UNCHANGED faults
    BY <1>6 DEF L!CreateAlert
  <2>2. CASE L!Goto(c, "alert", "idle")
    BY <2>1, <2>2, QuietStep
  <2>3. CASE L!Goto(c, "alertLast", "lock")
    BY <2>1, <2>3, QuietStep
  <2>4. QED
    BY <1>6, <2>2, <2>3 DEF L!CreateAlert
<1>7. CASE L!LockAccount(c)
  <2>1. L!Lock /\ UNCHANGED faults /\ L!Goto(c, "lock", "idle") /\ locked' = Lockout
    BY <1>7 DEF L!LockAccount, L!Lock
  <2>2. QED
    BY <2>1, QuietStep
<1>8. CASE L!ResetFailedLogin(c)
  <2>1. L!Reset /\ UNCHANGED faults /\ L!Goto(c, "reset", "logSuccess")
    BY <1>8 DEF L!ResetFailedLogin
  <2>2. LoginTypes'
    BY <2>1, EffectTypes, PlaceTypes
  <2>3. pc'[Owner] # "increment"
    BY <2>1, LoginConstants DEF L!Goto, LoginInv, LoginTypes, CountInv
  <2>4. QED
    BY <2>1, <2>2, <2>3, CountsReset DEF LoginInv
<1>9. CASE L!LogSuccess(c)
  BY <1>9, QuietStep DEF L!LogSuccess
<1>10. CASE L!QueryFails(c)
  BY <1>10, QueryFailsStep
<1>11. QED
  BY <1>1, <1>2, <1>3, <1>4, <1>5, <1>6, <1>7, <1>8, <1>9, <1>10 DEF L!Proceed

LEMMA LoginStep ==
    ASSUME LoginInv, L!Next \/ UNCHANGED L!vars
    PROVE  LoginInv'
<1>1. CASE L!Tick
  BY <1>1, TickStep
<1>2. CASE L!Crash
  <2>1. /\ faults < MaxFaults /\ faults' = faults + 1
        /\ pc' = [c \in Callers |-> "idle"]
        /\ UNCHANGED <<L!userVars, L!logVars, sinceLock>>
    BY <1>2 DEF L!Crash
  <2>2. LoginTypes'
    BY <2>1, EffectTypes, LoginConstants DEF LoginInv, LoginTypes, Places
  <2>3. Past' \subseteq Past /\ pc'[Owner] # "increment"
    BY <2>1, LoginConstants DEF Past, Guessers
  <2>4. CountInv'
    BY <2>1, <2>3, CountsFault DEF L!userVars
  <2>5. QED
    BY <2>2, <2>4 DEF LoginInv
<1>3. ASSUME NEW c \in Callers, L!FindByEmail(c) PROVE LoginInv'
  BY <1>3, FindStep
<1>4. ASSUME NEW c \in Callers, L!Proceed(c) PROVE LoginInv'
  BY <1>4, ProceedStep
<1>5. ASSUME NEW c \in Callers, L!WrongCode(c) PROVE LoginInv'
  <2>1. L!LogOther /\ UNCHANGED <<failedCount, locked, pc, faults, sinceLock>>
    BY <1>5 DEF L!WrongCode, L!LogOther, L!userVars
  <2>2. LoginTypes'
    BY <2>1, EffectTypes DEF LoginInv, LoginTypes
  <2>3. Past' = Past /\ MayGuess' = MayGuess /\ pc'[Owner] # "increment"
    BY <2>1 DEF Past, MayGuess, Guessers, L!IsLocked, LoginInv, CountInv
  <2>4. CountInv'
    BY <2>1, <2>3, CountsStill
  <2>5. QED
    BY <2>2, <2>4 DEF LoginInv
<1>6. CASE UNCHANGED L!vars
  BY <1>6 DEF L!vars, L!userVars, L!logVars, LoginInv, LoginTypes, LoginData,
              CountInv, Past, MayGuess, Guessers, Extra
<1>7. QED
  BY <1>1, <1>2, <1>3, <1>4, <1>5, <1>6 DEF L!Next

LEMMA LoginTyped == LoginInv => L!TypeOK /\ L!GuessesBounded
<1> SUFFICES ASSUME LoginInv PROVE L!TypeOK /\ L!GuessesBounded
  OBVIOUS
<1>1. LoginTypes /\ LoginData /\ CountInv
  BY DEF LoginInv, LoginTypes
<1>2. /\ Cardinality(Past) \in Nat /\ Cardinality(MayGuess) \in Nat
      /\ Cardinality(Callers) \in Nat
  BY CountedSets, GuesserSets
<1>3. L!Cardinality(Callers) = Cardinality(Callers)
      /\ L!Cardinality(Guessers) = Cardinality(Guessers)
  BY SameSets
<1>4. {failedCount, sinceLock} \subseteq 0 .. MaxCount + Cardinality(Callers)
  BY <1>1, <1>2, LoginConstants DEF LoginData, CountInv
<1>5. L!TypeOK
  BY <1>1, <1>3, <1>4 DEF LoginTypes, LoginData, Places, L!TypeOK
<1>6. Extra(faults) \in Nat
  BY <1>1, ExtraFacts DEF LoginTypes
<1>7. sinceLock < MaxAttempts + Extra(faults)
  BY <1>1, <1>2, <1>6, LoginConstants DEF LoginData, CountInv
<1>8. L!GuessesBounded
  BY <1>3, <1>7 DEF Extra, Guessers, L!GuessesBounded
<1>9. QED
  BY <1>5, <1>8

-----------------------------------------------------------------------------
(* Login: the alert about many wrong passwords.                            *)

\* A request that has written its row and has not raised an alert.
Alerting == {"evaluate", "evaluateLast", "alert", "alertLast"}

Alerted == alertAge # None /\ \A a \in L!Ages : badRows[a] > 0 => alertAge <= a

\* The rows that are in the table are seen by a request still to come to its alert.
AlertInv ==
    faults = 0 /\ SumFunction(badRows) >= MaxAttempts
    => Alerted \/ \E c \in Callers : pc[c] \in Alerting

\* Folds and Functions, as Login has them, are Folds and Functions.
LEMMA SameSums == \A f : L!SumFunction(f) = SumFunction(f)
BY DEF L!SumFunction, L!SumFunctionOnSet, L!FoldFunctionOnSet, L!MapThenFoldSet,
       SumFunction, SumFunctionOnSet, FoldFunctionOnSet, MapThenFoldSet

LEMMA RowSums ==
    ASSUME LoginInv
    PROVE  /\ SumFunction(badRows) \in Nat /\ SumFunction(otherRows) \in Nat
           /\ L!FailuresInWindow = SumFunction(badRows) + SumFunction(otherRows)
<1>1. IsFiniteSet(L!Ages)
  BY LoginConstants, FS_Interval DEF L!Ages
<1>2. badRows \in [L!Ages -> Nat] /\ otherRows \in [L!Ages -> Nat]
  BY LoginConstants DEF LoginInv, LoginTypes, LoginData
<1>3. QED
  BY <1>1, <1>2, SumNatural, SameSums DEF L!FailuresInWindow

\* Rows that no longer count leave no more than there were.
LEMMA TickSums ==
    ASSUME LoginInv, L!Tick
    PROVE  /\ SumFunction(badRows') \in Nat
           /\ SumFunction(badRows') <= SumFunction(badRows)
<1>1. badRows \in [0 .. Lockout -> Nat]
  BY LoginConstants DEF LoginInv, LoginTypes, LoginData, L!Ages
<1>2. badRows' = UpByOne(badRows, Lockout)
  BY DEF L!Tick, L!Ages, UpByOne
<1>3. Lockout \in Nat
  BY LoginConstants
<1>4. QED
  BY <1>1, <1>2, <1>3, SumShifted

LEMMA AlertTick == ASSUME LoginInv, AlertInv, L!Tick PROVE AlertInv'
<1> SUFFICES ASSUME faults' = 0, SumFunction(badRows') >= MaxAttempts,
                    ~\E c \in Callers : pc'[c] \in Alerting
             PROVE  Alerted'
  BY DEF AlertInv
<1>1. pc' = pc /\ faults' = faults
  BY DEF L!Tick
<1>2. SumFunction(badRows) >= MaxAttempts
  BY TickSums, RowSums, LoginConstants
<1>3. Alerted
  BY <1>1, <1>2 DEF AlertInv
<1>4. alertAge \in Nat /\ alertAge <= Lockout + 1
  BY <1>3, LoginConstants DEF Alerted, LoginInv, LoginTypes, LoginData
<1>5. alertAge' # None
  BY <1>3, <1>4, LoginConstants DEF L!Tick
<1>6. ASSUME NEW a \in L!Ages, badRows'[a] > 0 PROVE alertAge' <= a
  <2>1. a # 0 /\ badRows[a - 1] > 0 /\ a - 1 \in L!Ages /\ a \in 0 .. Lockout
    BY <1>6, LoginConstants DEF L!Tick, L!Ages
  <2>2. alertAge <= a - 1
    BY <1>3, <2>1 DEF Alerted
  <2>3. alertAge' = alertAge + 1
    BY <1>4, <2>1, <2>2, LoginConstants DEF L!Tick
  <2>4. QED
    BY <1>4, <2>1, <2>2, <2>3
<1>7. QED
  BY <1>5, <1>6 DEF Alerted

\* A step that writes no row of a wrong password and ends no request that is
\* still to come to its alert.
LEMMA AlertStill ==
    ASSUME AlertInv, UNCHANGED <<badRows, alertAge, faults>>,
           \A c \in Callers : pc[c] \in Alerting => pc'[c] \in Alerting
    PROVE  AlertInv'
BY DEF AlertInv, Alerted

LEMMA AlertPending ==
    ASSUME NEW c \in Callers, pc'[c] \in Alerting
    PROVE  AlertInv'
BY DEF AlertInv

\* A request that is not to raise an alert moves on.
LEMMA AlertPasses ==
    ASSUME LoginInv, AlertInv, UNCHANGED <<badRows, alertAge, faults>>,
           NEW c \in Callers, pc[c] \notin Alerting,
           NEW there, pc' = [pc EXCEPT ![c] = there]
    PROVE  AlertInv'
<1>1. \A x \in Callers : pc[x] \in Alerting => pc'[x] \in Alerting
  BY DEF LoginInv, LoginTypes
<1>2. QED
  BY <1>1, AlertStill

\* What is not counted as a fault: its rows and its alerts stay as they are, but
\* for the two steps that write them.
LEMMA AlertProceeds ==
    ASSUME LoginInv, AlertInv, NEW c \in Callers, L!Proceed(c)
    PROVE  AlertInv'
<1> USE DEF Alerting
<1>1. CASE L!RefuseLocked(c)
  BY <1>1, AlertPasses DEF L!RefuseLocked, L!LogOther, L!Goto
<1>2. CASE L!ComparePassword(c)
  BY <1>2, AlertPasses DEF L!ComparePassword, L!Goto, L!logVars
<1>3. CASE L!IncrementFailedLogin(c)
  BY <1>3, AlertPasses DEF L!IncrementFailedLogin, L!Increment, L!Goto, L!logVars
<1>4. CASE L!LogBadPassword(c)
  <2>1. pc'[c] \in Alerting
    BY <1>4 DEF L!LogBadPassword, L!Goto, LoginInv, LoginTypes
  <2>2. QED
    BY <2>1, AlertPending
<1>5. CASE L!EvaluateLoginAttempt(c)
  <2>1. CASE L!Suspicious(L!FailuresInWindow)
    <3>1. pc'[c] \in Alerting
      BY <1>5, <2>1 DEF L!EvaluateLoginAttempt, L!Evaluate, L!Goto, LoginInv, LoginTypes
    <3>2. QED
      BY <3>1, AlertPending
  <2>2. CASE ~ L!Suspicious(L!FailuresInWindow)
    <3>1. ~(SumFunction(badRows) >= MaxAttempts)
      BY <2>2, RowSums, LoginConstants DEF L!Suspicious
    <3>2. badRows' = badRows
      BY <1>5 DEF L!EvaluateLoginAttempt, L!Evaluate, L!logVars
    <3>3. QED
      BY <3>1, <3>2 DEF AlertInv
  <2>3. QED
    BY <2>1, <2>2
<1>6. CASE L!CreateAlert(c)
  <2>1. alertAge' = 0
    BY <1>6 DEF L!CreateAlert, L!Alert
  <2>2. Alerted'
    BY <2>1, LoginConstants DEF Alerted, L!Ages
  <2>3. QED
    BY <2>2 DEF AlertInv
<1>7. CASE L!LockAccount(c)
  BY <1>7, AlertPasses DEF L!LockAccount, L!Lock, L!Goto, L!logVars
<1>8. CASE L!ResetFailedLogin(c)
  BY <1>8, AlertPasses DEF L!ResetFailedLogin, L!Reset, L!Goto, L!logVars
<1>9. CASE L!LogSuccess(c)
  BY <1>9, AlertPasses DEF L!LogSuccess, L!Goto, L!logVars
<1>10. CASE L!QueryFails(c)
  BY <1>10, LoginConstants DEF L!QueryFails, AlertInv, LoginInv, LoginTypes
<1>11. QED
  BY <1>1, <1>2, <1>3, <1>4, <1>5, <1>6, <1>7, <1>8, <1>9, <1>10 DEF L!Proceed

LEMMA AlertStep ==
    ASSUME LoginInv, AlertInv, L!Next \/ UNCHANGED L!vars
    PROVE  AlertInv'
<1>1. CASE L!Tick
  BY <1>1, AlertTick
<1>2. CASE L!Crash
  BY <1>2, LoginConstants DEF L!Crash, AlertInv, LoginInv, LoginTypes
<1>3. ASSUME NEW c \in Callers, L!FindByEmail(c) PROVE AlertInv'
  BY <1>3, AlertPasses DEF L!FindByEmail, L!logVars, Alerting
<1>4. ASSUME NEW c \in Callers, L!Proceed(c) PROVE AlertInv'
  BY <1>4, AlertProceeds
<1>5. ASSUME NEW c \in Callers, L!WrongCode(c) PROVE AlertInv'
  BY <1>5, AlertStill DEF L!WrongCode, L!LogOther
<1>6. CASE UNCHANGED L!vars
  BY <1>6, AlertStill DEF L!vars, L!logVars
<1>7. QED
  BY <1>1, <1>2, <1>3, <1>4, <1>5, <1>6 DEF L!Next

LEMMA AlertInit == L!Init => AlertInv
<1> SUFFICES ASSUME L!Init PROVE AlertInv
  OBVIOUS
<1>1. IsFiniteSet(L!Ages)
  BY LoginConstants, FS_Interval DEF L!Ages
<1>2. badRows \in [L!Ages -> Int] /\ \A a \in L!Ages : badRows[a] = 0
  BY DEF L!Init
<1>3. SumFunction(badRows) = 0
  BY <1>1, <1>2, SumZero
<1>4. QED
  BY <1>3, LoginConstants DEF AlertInv

LEMMA AlertsRaised == AlertInv => L!BruteForceAlerted
<1>1. ASSUME \A c \in Callers : pc[c] \in {"idle", "in"}
      PROVE  ~\E c \in Callers : pc[c] \in Alerting
  BY <1>1 DEF Alerting
<1>2. QED
  BY <1>1, SameSums DEF AlertInv, Alerted, L!BruteForceAlerted

-----------------------------------------------------------------------------
(* All together: the one that runs keeps its invariant.                    *)

AccessInv ==
    /\ part = "login"    => LoginInv /\ AlertInv
    /\ part = "sessions" => SessionsInv
    /\ part = "device"   => DeviceInv

LEMMA StandsStill ==
    UNCHANGED vars => part' = part /\ UNCHANGED L!vars /\ UNCHANGED S!vars /\ UNCHANGED N!vars
BY DEF vars, loginVars, sessionsVars, deviceVars, L!vars, L!userVars, L!logVars,
       S!vars, N!vars

LEMMA AccessInit == Init => AccessInv
BY LoginInit, AlertInit, SessionsInit, DeviceInit DEF Init, AccessInv

LEMMA AccessStep == AccessInv /\ [Next]_vars => AccessInv'
<1> SUFFICES ASSUME AccessInv, [Next]_vars PROVE AccessInv'
  OBVIOUS
<1>1. part' = part
  BY StandsStill DEF Next, LoginNext, SessionsNext, DeviceNext
<1>2. part = "login" => L!Next \/ UNCHANGED L!vars
  BY StandsStill DEF Next, LoginNext, SessionsNext, DeviceNext
<1>3. part = "sessions" => S!Next \/ UNCHANGED S!vars
  BY StandsStill DEF Next, LoginNext, SessionsNext, DeviceNext
<1>4. part = "device" => N!Next \/ UNCHANGED N!vars
  BY StandsStill DEF Next, LoginNext, SessionsNext, DeviceNext
<1>5. part = "login" => LoginInv' /\ AlertInv'
  BY <1>2, LoginStep, AlertStep DEF AccessInv
<1>6. part = "sessions" => SessionsInv'
  BY <1>3, SessionsStep DEF AccessInv
<1>7. part = "device" => DeviceInv'
  BY <1>4, DeviceStep DEF AccessInv
<1>8. QED
  BY <1>1, <1>5, <1>6, <1>7 DEF AccessInv

LEMMA AccessInvariant == Spec => []AccessInv
BY AccessInit, AccessStep, PTL DEF Spec

\* The state of the part that runs has its type: the counter of failed logins
\* passes MaxCount by the requests in flight at most, and login_attempts gets one
\* row of success per login (authController.js:73-104).
THEOREM TypeCorrect == Spec => []TypeOK
<1>1. AccessInv => TypeOK
  BY LoginTyped, DeviceTyped DEF AccessInv, SessionsInv, TypeOK
<1>2. QED
  BY <1>1, AccessInvariant, PTL

\* Whatever the number of requests, their order and the faults: between two locks
\* the password is guessed MAX_LOGIN_ATTEMPTS times at most, and once more by each
\* request that was past the check of locked_until (authController.js:73-91).
THEOREM GuessesBoundedProved == Spec => []GuessesBounded
<1>1. AccessInv => GuessesBounded
  BY LoginTyped DEF AccessInv, GuessesBounded
<1>2. QED
  BY <1>1, AccessInvariant, PTL

\* Enough wrong passwords in the window have raised an alert no older than the last
\* of them, for any number of requests in any order.  A login is called new only at
\* an address that no other came from before it was complete, or one other at most
\* if only its code came from there (fraudDetection.js:115-160).
THEOREM AlertsAreRightProved == Spec => []AlertsAreRight
<1>1. AccessInv => AlertsAreRight
  BY AlertsRaised, DeviceSound DEF AccessInv, AlertsAreRight
<1>2. QED
  BY <1>1, AccessInvariant, PTL

\* No handler runs for a user who was not active at any moment since the request
\* arrived, whoever suspends whom meanwhile (authMiddleware.js:24-34).
THEOREM SuspendedCannotActProved == Spec => []SuspendedCannotAct
<1>1. AccessInv => SuspendedCannotAct
  BY DEF AccessInv, SessionsInv, Judged, SuspendedCannotAct, S!SuspendedCannotAct
<1>2. QED
  BY <1>1, AccessInvariant, PTL

\* Where there is an admin (seed.js:21), one stays active, unless one was suspended
\* between its own check and its UPDATE, or changed its own status by another
\* spelling of its id (adminController.js:72).
THEOREM SomeAdminIsLeftProved ==
    ASSUME Admins # {}
    PROVE  Spec => []SomeAdminIsLeft
<1>1. Init => SomeAdminIsLeft
  BY SessionsConstants DEF Init, S!Init, SomeAdminIsLeft, S!SomeAdminIsLeft
<1>2. AccessInv /\ SomeAdminIsLeft /\ [Next]_vars => SomeAdminIsLeft'
  <2> SUFFICES ASSUME AccessInv, SomeAdminIsLeft, [Next]_vars,
                      part' = "sessions"
               PROVE  S!SomeAdminIsLeft'
    BY DEF SomeAdminIsLeft
  <2>1. part = "sessions" /\ (S!Next \/ UNCHANGED S!vars)
    BY StandsStill DEF Next, LoginNext, SessionsNext, DeviceNext
  <2>2. QED
    BY <2>1, AdminStep DEF AccessInv, SomeAdminIsLeft
<1>3. QED
  BY <1>1, <1>2, AccessInvariant, PTL DEF Spec

\* A session that has ended gets no further access token but from a refresh that
\* had found its row before (authController.js:269-280).
THEOREM EndedIsEndedProved == Spec => EndedIsEnded
<1>1. AccessInv /\ [Next]_vars => [part = "sessions" => S!EndedIsEnded]_vars
  <2> SUFFICES ASSUME AccessInv, Next, part = "sessions" PROVE S!EndedIsEnded
    OBVIOUS
  <2>1. S!Next
    BY DEF Next, LoginNext, SessionsNext, DeviceNext
  <2>2. QED
    BY <2>1, EndedStep DEF AccessInv
<1>2. QED
  BY <1>1, AccessInvariant, PTL DEF Spec, EndedIsEnded
=============================================================================
