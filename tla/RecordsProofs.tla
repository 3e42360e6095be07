--------------------------- MODULE RecordsProofs ---------------------------
(***************************************************************************)
(* Theorems about MCRecords, that is about TransferPage, Deposits,         *)
(* FraudAlerts, Calendar, Onboarding and History, for every value of their *)
(* constants.  Each component has an invariant of its own, inductive for   *)
(* its own steps; the last part puts them together.                        *)
(***************************************************************************)
EXTENDS MCRecords, FiniteSets, Sequences, FiniteSetTheorems, SequenceTheorems, TLAPS

\* FiniteSets, as the components have it, is FiniteSets.
LEMMA SameSets ==
    /\ \A x : P!Cardinality(x) = Cardinality(x)
    /\ \A x : F!Cardinality(x) = Cardinality(x)
    /\ \A x : F!IsFiniteSet(x) = IsFiniteSet(x)
    /\ \A x : O!Cardinality(x) = Cardinality(x)
    /\ \A x : H!Cardinality(x) = Cardinality(x)
BY DEF P!Cardinality, F!Cardinality, O!Cardinality, H!Cardinality, Cardinality,
       P!IsFiniteSet, F!IsFiniteSet, O!IsFiniteSet, H!IsFiniteSet, IsFiniteSet

\* An element more makes a set larger by one at most.
LEMMA OneMore ==
    ASSUME NEW T, IsFiniteSet(T), NEW x
    PROVE  /\ IsFiniteSet(T \cup {x}) /\ Cardinality(T) \in Nat
           /\ Cardinality(T \cup {x}) \in Nat /\ Cardinality(T \cup {x}) <= Cardinality(T) + 1
<1>1. /\ IsFiniteSet(T \cup {x})
      /\ Cardinality(T \cup {x}) = IF x \in T THEN Cardinality(T) ELSE Cardinality(T) + 1
  BY FS_AddElement
<1>2. Cardinality(T) \in Nat /\ Cardinality(T \cup {x}) \in Nat
  BY <1>1, FS_CardinalityType
<1>3. QED
  BY <1>1, <1>2

-----------------------------------------------------------------------------
(* TransferPage.                                                           *)

\* The form a recipient was paid with.
PaidAs(x) == [to |-> x.to, nick |-> x.nick, save |-> TRUE]

PayTypes ==
    /\ form \in P!Forms
    /\ picks \subseteq Accounts \ (Own \cup Unknown)
    /\ loading \in BOOLEAN /\ (loading <=> request.at # "none")
    /\ request \in [at : {"none", "sent", "done"}, form : P!Forms]
    /\ request.at # "none" => request.form.to \in Accounts

\* Every form that was paid had a submission of its own, which is not the one
\* under way.
PaidInv ==
    /\ paid \subseteq P!Forms /\ IsFiniteSet(paid) /\ submits \in Nat
    /\ Cardinality(paid) <= submits
    /\ request.at = "sent" => Cardinality(paid) + 1 <= submits
    /\ request.at = "done" => request.form \in paid

SaveType(froms) ==
    [to : Accounts, nick : Nicks, at : froms, by : {"transfer", "page"}]

\* What is being saved from the form was paid, and what was looked up may be saved.
SavesInv ==
    /\ saves \subseteq SaveType({"sent", "found"}) /\ IsFiniteSet(saves)
    /\ saved \in Nat /\ Cardinality(saves) <= saved
    /\ \A q \in saves :
          /\ q.at = "found" => q.to \notin Own \cup Unknown
          /\ q.by = "transfer" => PaidAs(q) \in paid

SavedInv ==
    /\ beneficiaries \subseteq [to : Accounts \ (Own \cup Unknown), nick : Nicks,
                                by : {"transfer", "page"}]
    /\ P!SavedWasPaid /\ P!SavedOnce

PayInv == PayTypes /\ PaidInv /\ SavesInv /\ SavedInv

LEMMA PayConstants == None \notin Accounts \cup Nicks
BY RecordsAssumption DEF P!PageAssumption

LEMMA PayInit == P!Init => PayInv
<1> SUFFICES ASSUME P!Init PROVE PayInv
  OBVIOUS
<1>1. P!Empty \in P!Forms
  BY DEF P!Empty, P!Forms
<1>2. IsFiniteSet({}) /\ Cardinality({}) = 0
  BY FS_EmptySet
<1>3. request.at = "none" /\ request.form = P!Empty
  BY DEF P!Init
<1>4. request \in [at : {"none", "sent", "done"}, form : P!Forms]
  BY <1>1 DEF P!Init
<1>5. PayTypes
  BY <1>1, <1>3, <1>4 DEF P!Init, PayTypes
<1>x. PaidInv
  BY <1>2, <1>3 DEF P!Init, PaidInv
<1>6. SavesInv /\ SavedInv
  BY <1>2 DEF P!Init, SavesInv, SavedInv, P!SavedWasPaid, P!SavedOnce
<1>7. QED
  BY <1>5, <1>x, <1>6 DEF PayInv

\* What a step does to the form alone.
LEMMA FormStep ==
    ASSUME PayInv, form' \in P!Forms,
           UNCHANGED <<picks, loading, request, submits, paid, saves, saved, beneficiaries>>
    PROVE  PayInv'
BY DEF PayInv, PayTypes, PaidInv, SavesInv, SavedInv, P!SavedWasPaid, P!SavedOnce,
       PaidAs, P!Forms, SaveType

\* A request to save that is gone, or one step on.
LEMMA SavesStep ==
    ASSUME PayInv, NEW q \in saves, NEW more,
           more = {} \/ (more = {[q EXCEPT !.at = "found"]} /\ q.to \notin Own \cup Unknown),
           saves' = (saves \ {q}) \cup more,
           UNCHANGED <<paid, saved>>
    PROVE  SavesInv'
<1>1. q \in SaveType({"sent", "found"})
  BY DEF PayInv, SavesInv
<1>2. IsFiniteSet(saves \ {q}) /\ Cardinality(saves \ {q}) = Cardinality(saves) - 1
  BY FS_RemoveElement DEF PayInv, SavesInv
<1>3. Cardinality(saves) \in Nat /\ Cardinality(saves \ {q}) \in Nat /\ saved \in Nat
  BY <1>2, FS_CardinalityType DEF PayInv, SavesInv
<1>4. CASE more = {}
  <2>1. saves' = saves \ {q}
    BY <1>4
  <2>2. Cardinality(saves') <= saved'
    BY <1>2, <1>3, <2>1 DEF PayInv, SavesInv
  <2>3. QED
    BY <1>2, <1>3, <2>1, <2>2 DEF PayInv, SavesInv, PaidAs
<1>5. CASE more = {[q EXCEPT !.at = "found"]} /\ q.to \notin Own \cup Unknown
  <2> DEFINE qq == [q EXCEPT !.at = "found"]
  <2>1. /\ qq \in SaveType({"sent", "found"}) /\ qq.to = q.to /\ PaidAs(qq) = PaidAs(q)
        /\ qq.by = q.by
    BY <1>1 DEF SaveType, PaidAs
  <2> HIDE DEF qq
  <2>2. saves' = (saves \ {q}) \cup {qq}
    BY <1>5 DEF qq
  <2>3. IsFiniteSet(saves') /\ Cardinality(saves') <= Cardinality(saves)
    <3>1. \/ Cardinality(saves') = Cardinality(saves \ {q})
          \/ Cardinality(saves') = Cardinality(saves \ {q}) + 1
      BY <1>2, <2>2, FS_AddElement
    <3>2. IsFiniteSet(saves')
      BY <1>2, <2>2, FS_AddElement
    <3>3. QED
      BY <1>2, <1>3, <3>1, <3>2
  <2>4. Cardinality(saves') \in Nat
    BY <2>3, FS_CardinalityType
  <2>5. saves' \subseteq SaveType({"sent", "found"})
    BY <2>1, <2>2 DEF PayInv, SavesInv
  <2>6. ASSUME NEW r \in saves'
        PROVE  /\ r.at = "found" => r.to \notin Own \cup Unknown
               /\ r.by = "transfer" => PaidAs(r) \in paid'
    BY <1>5, <2>1, <2>2 DEF PayInv, SavesInv
  <2>7. QED
    BY <1>3, <2>3, <2>4, <2>5, <2>6 DEF PayInv, SavesInv
<1>6. QED
  BY <1>4, <1>5

\* One more request to save.
LEMMA SaveSent ==
    ASSUME PayInv, NEW q \in SaveType({"sent"}), q.by = "transfer" => PaidAs(q) \in paid,
           saves' = saves \cup {q}, saved' = saved + 1, paid' = paid
    PROVE  SavesInv'
<1>1. q.at = "sent" /\ q \in SaveType({"sent", "found"})
  BY DEF SaveType
<1>2. IsFiniteSet(saves') /\ Cardinality(saves') <= Cardinality(saves) + 1
  <2>1. Cardinality(saves) \in Nat /\ IsFiniteSet(saves)
    BY FS_CardinalityType DEF PayInv, SavesInv
  <2>2. QED
    BY <2>1, OneMore
<1>3. Cardinality(saves') \in Nat /\ Cardinality(saves) \in Nat
  BY <1>2, FS_CardinalityType DEF PayInv, SavesInv
<1>4. QED
  BY <1>1, <1>2, <1>3 DEF PayInv, SavesInv

LEMMA PayStep ==
    ASSUME PayInv, P!Next
    PROVE  PayInv'
<1>1. CASE P!LoadPicks
  BY <1>1 DEF P!LoadPicks, PayInv, PayTypes, PaidInv, SavesInv, SavedInv, P!SavedWasPaid,
              P!SavedOnce, PaidAs
<1>2. CASE P!HandleChange \/ P!HandleSelectBeneficiary
  <2>1. PICK f : P!Edit(f) /\ f \in P!Forms
    <3>1. CASE \E to \in Accounts : P!Edit([form EXCEPT !.to = to])
      BY <3>1 DEF PayInv, PayTypes, P!Forms
    <3>2. CASE \E nick \in Nicks : P!Edit([form EXCEPT !.nick = nick])
      BY <3>2 DEF PayInv, PayTypes, P!Forms
    <3>3. CASE P!Edit([form EXCEPT !.save = ~@])
      <4>1. form \in P!Forms /\ (~form.save) \in BOOLEAN
        BY DEF PayInv, PayTypes
      <4>2. [form EXCEPT !.save = ~@] \in P!Forms
        BY <4>1 DEF P!Forms
      <4>3. QED
        BY <3>3, <4>2
    <3>4. CASE P!HandleSelectBeneficiary
      BY <3>4 DEF P!HandleSelectBeneficiary, PayInv, PayTypes, P!Forms
    <3>5. QED
      BY <1>2, <3>1, <3>2, <3>3, <3>4 DEF P!HandleChange
  <2>2. QED
    BY <2>1, FormStep DEF P!Edit
<1>3. CASE P!HandleSubmit
  <2>1. /\ form \in P!Forms /\ form.to # None
        /\ request' = [at |-> "sent", form |-> form]
        /\ submits' = submits + 1 /\ loading' = TRUE
        /\ UNCHANGED <<form, picks, paid, saves, saved, beneficiaries>>
    BY <1>3 DEF P!HandleSubmit, P!MaySubmit, PayInv, PayTypes
  <2>2. form.to \in Accounts
    BY <2>1 DEF P!Forms
  <2>3. PayTypes'
    BY <2>1, <2>2 DEF PayInv, PayTypes
  <2>4. Cardinality(paid) \in Nat
    BY FS_CardinalityType DEF PayInv, PaidInv
  <2>5. PaidInv'
    BY <2>1, <2>4 DEF PayInv, PaidInv
  <2>6. QED
    BY <2>1, <2>3, <2>5 DEF PayInv, SavesInv, SavedInv, P!SavedWasPaid, P!SavedOnce, PaidAs
<1>4. CASE P!Execute
  <2>1. /\ request.at = "sent" /\ request \in [at : {"none", "sent", "done"}, form : P!Forms]
        /\ request' = [request EXCEPT !.at = "done"]
        /\ paid' = paid \cup {request.form}
        /\ UNCHANGED <<form, picks, loading, submits, saves, saved, beneficiaries>>
    BY <1>4 DEF P!Execute, P!pageVars, PayInv, PayTypes
  <2>2. /\ request'.at = "done" /\ request'.form = request.form
        /\ request' \in [at : {"none", "sent", "done"}, form : P!Forms]
    BY <2>1
  <2>3. PayTypes'
    BY <2>1, <2>2 DEF PayInv, PayTypes
  <2>4. IsFiniteSet(paid') /\ Cardinality(paid') <= Cardinality(paid) + 1
    <3>1. IsFiniteSet(paid)
      BY DEF PayInv, PaidInv
    <3>2. QED
      BY <2>1, <3>1, OneMore
  <2>5. Cardinality(paid') \in Nat /\ Cardinality(paid) \in Nat
    BY <2>4, FS_CardinalityType DEF PayInv, PaidInv
  <2>6. PaidInv'
    BY <2>1, <2>2, <2>4, <2>5 DEF PayInv, PaidInv
  <2>7. QED
    BY <2>1, <2>3, <2>6 DEF PayInv, SavesInv, SavedInv, P!SavedWasPaid, P!SavedOnce, PaidAs
<1>5. CASE P!Succeed \/ P!Fail
  <2>1. P!Empty \in P!Forms
    BY DEF P!Empty, P!Forms
  <2>2. /\ request' = [at |-> "none", form |-> P!Empty] /\ loading' = FALSE
        /\ form' \in P!Forms
        /\ UNCHANGED <<picks, submits, paid, beneficiaries>>
    BY <1>5, <2>1 DEF P!Succeed, P!Fail, PayInv, PayTypes
  <2>3. /\ request'.at = "none"
        /\ request' \in [at : {"none", "sent", "done"}, form : P!Forms]
    BY <2>1, <2>2
  <2>4. PayTypes'
    BY <2>2, <2>3 DEF PayInv, PayTypes
  <2>5. PaidInv'
    BY <2>2, <2>3 DEF PayInv, PaidInv
  <2>6. SavesInv'
    <3>1. CASE UNCHANGED <<saves, saved>>
      BY <2>2, <3>1 DEF PayInv, SavesInv, PaidAs
    <3>2. CASE ~UNCHANGED <<saves, saved>>
      <4>1. /\ request.at = "done" /\ request.form.save /\ request.form.nick # None
            /\ saves' = saves \cup {P!Save(request.form)} /\ saved' = saved + 1
        BY <1>5, <3>2 DEF P!Succeed, P!Fail, P!Closure
      <4>2. /\ request.form \in P!Forms /\ request.form.to \in Accounts
            /\ request.form \in paid
        BY <4>1 DEF PayInv, PayTypes, PaidInv
      <4>3. /\ P!Save(request.form) \in SaveType({"sent"})
            /\ PaidAs(P!Save(request.form)) = request.form
        BY <4>1, <4>2 DEF P!Save, SaveType, PaidAs, P!Forms
      <4>4. QED
        BY <2>2, <4>1, <4>2, <4>3, SaveSent
    <3>3. QED
      BY <3>1, <3>2
  <2>7. QED
    BY <2>2, <2>4, <2>5, <2>6 DEF PayInv, SavedInv, P!SavedWasPaid, P!SavedOnce, PaidAs
<1>6. ASSUME NEW to \in Accounts, NEW nick \in Nicks, P!HandleAdd(to, nick)
      PROVE  PayInv'
  <2> DEFINE q == [to |-> to, nick |-> nick, at |-> "sent", by |-> "page"]
  <2>1. q \in SaveType({"sent"}) /\ q.by # "transfer"
    BY DEF SaveType
  <2>2. saves' = saves \cup {q} /\ saved' = saved + 1 /\ paid' = paid
    BY <1>6 DEF P!HandleAdd
  <2> HIDE DEF q
  <2>3. SavesInv'
    BY <2>1, <2>2, SaveSent
  <2>4. QED
    BY <1>6, <2>3 DEF P!HandleAdd, P!pageVars, PayInv, PayTypes, PaidInv, SavedInv,
                      P!SavedWasPaid, P!SavedOnce, PaidAs
<1>7. ASSUME NEW q \in saves, P!Refuse(q) \/ P!Lookup(q)
      PROVE  PayInv'
  <2>1. SavesInv'
    <3>1. CASE P!Refuse(q)
      <4>1. saves' = (saves \ {q}) \cup {} /\ UNCHANGED <<paid, saved>>
        BY <3>1 DEF P!Refuse
      <4>2. QED
        BY <4>1, SavesStep
    <3>2. CASE P!Lookup(q)
      BY <3>2, SavesStep DEF P!Lookup, P!MayBeSaved
    <3>3. QED
      BY <1>7, <3>1, <3>2
  <2>2. QED
    BY <1>7, <2>1 DEF P!Refuse, P!Lookup, P!pageVars, PayInv, PayTypes, PaidInv, SavedInv,
                      P!SavedWasPaid, P!SavedOnce, PaidAs
<1>8. ASSUME NEW q \in saves, P!Create(q)
      PROVE  PayInv'
  <2> DEFINE b == [to |-> q.to, nick |-> q.nick, by |-> q.by]
  <2>1. /\ saves' = saves \ {q} /\ beneficiaries' = beneficiaries \cup {b}
        /\ q.at = "found" /\ P!IsNew(q.to)
        /\ UNCHANGED <<form, picks, loading, request, submits, paid, saved>>
    BY <1>8 DEF P!Create, P!pageVars
  <2>2. SavesInv'
    <3>1. saves' = (saves \ {q}) \cup {}
      BY <2>1
    <3>2. QED
      BY <2>1, <3>1, SavesStep
  <2>3. q \in SaveType({"sent", "found"}) /\ q.to \notin Own \cup Unknown
    BY <2>1 DEF PayInv, SavesInv
  <2>4. /\ b \in [to : Accounts \ (Own \cup Unknown), nick : Nicks, by : {"transfer", "page"}]
        /\ b.to = q.to /\ b.by = q.by /\ [to |-> b.to, nick |-> b.nick, save |-> TRUE] = PaidAs(q)
    BY <2>3 DEF SaveType, PaidAs
  <2> HIDE DEF b
  <2>5. P!SavedWasPaid'
    BY <2>1, <2>4 DEF PayInv, SavesInv, SavedInv, P!SavedWasPaid
  <2>6. P!SavedOnce'
    BY <2>1, <2>4 DEF PayInv, SavedInv, P!SavedOnce, P!IsNew
  <2>7. SavedInv'
    BY <2>1, <2>4, <2>5, <2>6 DEF PayInv, SavedInv
  <2>8. QED
    BY <2>1, <2>2, <2>7 DEF PayInv, PayTypes, PaidInv
<1>9. ASSUME NEW b \in beneficiaries, P!Remove(b)
      PROVE  PayInv'
  BY <1>9 DEF P!Remove, P!pageVars, PayInv, PayTypes, PaidInv, SavesInv, SavedInv,
              P!SavedWasPaid, P!SavedOnce, PaidAs
<1>10. QED
  BY <1>1, <1>2, <1>3, <1>4, <1>5, <1>6, <1>7, <1>8, <1>9 DEF P!Next

LEMMA PayStill ==
    ASSUME PayInv, UNCHANGED P!vars
    PROVE  PayInv'
BY DEF P!vars, P!pageVars, PayInv, PayTypes, PaidInv, SavesInv, SavedInv,
       P!SavedWasPaid, P!SavedOnce, PaidAs

LEMMA PayTyped == PayInv => P!TypeOK
<1>1. PayInv => PayTypes /\ Cardinality(paid) <= submits /\ paid \subseteq P!Forms
               /\ Cardinality(saves) <= saved
  BY DEF PayInv, PaidInv, SavesInv
<1>2. QED
  BY <1>1, SameSets DEF PayTypes, P!TypeOK

-----------------------------------------------------------------------------
(* Deposits.                                                               *)

Rows == [type : D!Types, born : 0 .. clock, balance : D!Amounts,
         matures : 0 .. clock + Tenure]

Openings0 == [source : MyAccounts, born : 0 .. clock]

\* An account that is not a deposit.
Ordinary(a) == D!Has(a) /\ ~D!IsDeposit(a)

AccountTypes ==
    /\ clock \in 0 .. MaxDepositTime
    /\ accounts \in [MyAccounts -> Rows]
    /\ opening \in [MyAccounts -> Openings0 \cup {None}]
    /\ listed \in MyAccounts \cup {None} /\ from \in MyAccounts \cup {None}
    /\ named \subseteq MyAccounts

\* What is being opened is not there yet; its source is, and older.
OpeningInv ==
    \A a \in MyAccounts : opening[a] # None =>
        /\ ~D!Has(a)
        /\ D!Has(opening[a].source)
        /\ accounts[opening[a].source].born < opening[a].born

\* Every deposit came after an account that is none, so that none is first.
SourceInv ==
    \A a \in MyAccounts : D!Has(a) /\ D!IsDeposit(a) =>
        \E b \in MyAccounts : Ordinary(b) /\ accounts[b].born < accounts[a].born

\* A page pays from an ordinary account.
PageInv ==
    /\ listed # None => Ordinary(listed)
    /\ from # None => Ordinary(from)

\* A deposit nobody has named is whole.
WholeInv == \A a \in MyAccounts \ named : D!IsDeposit(a) => accounts[a].balance > 0

DepositsInv == AccountTypes /\ OpeningInv /\ SourceInv /\ PageInv /\ WholeInv

LEMMA DepositsConstants ==
    /\ None \notin MyAccounts
    /\ Tenure \in Nat /\ MaxDepositTime \in Nat /\ MaxAmount \in Nat
BY RecordsAssumption DEF D!DepositsAssumption

LEMMA DepositsInit == D!Init => DepositsInv
<1> SUFFICES ASSUME D!Init PROVE DepositsInv
  OBVIOUS
<1>1. 0 \in 0 .. clock /\ 0 \in D!Amounts /\ 0 \in 0 .. clock + Tenure
      /\ 0 \in 0 .. MaxDepositTime
  BY DepositsConstants DEF D!Init, D!Amounts
<1>2. D!NoAccount \in Rows
  BY <1>1 DEF D!NoAccount, Rows, D!Types
<1>3. \A a \in MyAccounts : accounts[a].type = "none" /\ opening[a] = None
  BY DEF D!Init, D!NoAccount
<1>4. AccountTypes
  BY <1>1, <1>2 DEF D!Init, AccountTypes
<1>5. QED
  BY <1>3, <1>4 DEF D!Init, DepositsInv, OpeningInv, SourceInv, PageInv, WholeInv,
                    D!Has, D!IsDeposit, Ordinary

LEMMA LaterStill ==
    ASSUME NEW m \in Nat, NEW n \in Nat, NEW k \in Nat, m <= n
    PROVE  0 .. m + k \subseteq 0 .. n + k
<1>1. ASSUME NEW i \in 0 .. m + k
      PROVE  i \in 0 .. n + k
  OBVIOUS
<1>2. QED
  BY <1>1

\* Time only widens the types.
LEMMA TypesWiden ==
    ASSUME AccountTypes, clock' \in 0 .. MaxDepositTime, clock <= clock'
    PROVE  /\ Rows \subseteq Rows' /\ Openings0 \subseteq Openings0'
<1>1. clock \in Nat /\ clock' \in Nat /\ Tenure \in Nat
  BY DepositsConstants DEF AccountTypes
<1>2. ASSUME NEW i \in 0 .. clock
      PROVE  i \in 0 .. clock'
  BY <1>1
<1>3. ASSUME NEW i \in 0 .. clock + Tenure
      PROVE  i \in 0 .. clock' + Tenure
  BY <1>1, LaterStill
<1>4. QED
  BY <1>2, <1>3 DEF Rows, Openings0, D!Amounts

\* A step that leaves the rows as they are but for balances.
LEMMA RowsKept ==
    ASSUME DepositsInv,
           clock' \in 0 .. MaxDepositTime, clock <= clock',
           accounts' \in [MyAccounts -> Rows'],
           \A a \in MyAccounts :
               accounts'[a].type = accounts[a].type /\ accounts'[a].born = accounts[a].born,
           \A a \in MyAccounts : opening'[a] \in {opening[a], None},
           opening' \in [MyAccounts -> Openings0' \cup {None}],
           named \subseteq named' /\ named' \subseteq MyAccounts,
           listed' = None \/ (listed' \in MyAccounts /\ Ordinary(listed')),
           from' = None \/ (from' \in MyAccounts /\ Ordinary(from')),
           \A a \in MyAccounts \ named' : D!IsDeposit(a) =>
               accounts'[a].balance >= accounts[a].balance
    PROVE  DepositsInv'
<1>1. \A a \in MyAccounts : /\ D!Has(a)' <=> D!Has(a)
                            /\ D!IsDeposit(a)' <=> D!IsDeposit(a)
                            /\ Ordinary(a)' <=> Ordinary(a)
  BY DEF D!Has, D!IsDeposit, Ordinary
<1>2. AccountTypes'
  BY DEF AccountTypes
<1>3. OpeningInv'
  BY <1>1 DEF DepositsInv, AccountTypes, OpeningInv, Openings0
<1>4. SourceInv'
  BY <1>1 DEF DepositsInv, SourceInv
<1>5. PageInv'
  BY <1>1 DEF PageInv
<1>6. WholeInv'
  <2> SUFFICES ASSUME NEW a \in MyAccounts, a \notin named', D!IsDeposit(a)
               PROVE  accounts'[a].balance > 0
    BY <1>1 DEF WholeInv
  <2>1. accounts[a].balance > 0 /\ accounts'[a].balance >= accounts[a].balance
    BY DEF DepositsInv, WholeInv
  <2>2. accounts[a].balance \in Nat /\ accounts'[a].balance \in Nat
    BY DepositsConstants DEF DepositsInv, AccountTypes, Rows, D!Amounts
  <2>3. QED
    BY <2>1, <2>2
<1>7. QED
  BY <1>2, <1>3, <1>4, <1>5, <1>6 DEF DepositsInv

LEMMA DepositsStep ==
    ASSUME DepositsInv, D!Next
    PROVE  DepositsInv'
<1>0. /\ clock \in Nat /\ MaxDepositTime \in Nat /\ clock \in 0 .. MaxDepositTime
      /\ accounts \in [MyAccounts -> Rows]
      /\ opening \in [MyAccounts -> Openings0 \cup {None}]
      /\ None \notin MyAccounts
  BY DepositsConstants DEF DepositsInv, AccountTypes
\* What keeps the clock keeps the types.
<1>a. ASSUME clock' = clock
      PROVE  Rows' = Rows /\ Openings0' = Openings0
  BY <1>a DEF Rows, Openings0, D!Amounts
<1>b. ASSUME D!Tick
      PROVE  /\ clock' \in 0 .. MaxDepositTime /\ clock' = clock + 1 /\ clock <= clock'
             /\ clock' \in 0 .. clock'
             /\ Rows \subseteq Rows' /\ Openings0 \subseteq Openings0'
             /\ accounts \in [MyAccounts -> Rows']
             /\ opening \in [MyAccounts -> Openings0' \cup {None}]
  <2>1. clock' \in 0 .. MaxDepositTime /\ clock' = clock + 1 /\ clock <= clock'
    BY <1>0, <1>b DEF D!Tick
  <2>2. Rows \subseteq Rows' /\ Openings0 \subseteq Openings0'
    BY <2>1, TypesWiden DEF DepositsInv
  <2>3. QED
    BY <1>0, <2>1, <2>2
<1>1. CASE D!Wait
  <2>1. UNCHANGED <<accounts, opening, listed, from, named>> /\ D!Tick
    BY <1>1 DEF D!Wait
  <2>2. \A a \in MyAccounts : accounts[a].balance >= accounts[a].balance
    BY <1>0 DEF Rows, D!Amounts
  <2>3. QED
    BY <1>0, <1>b, <2>1, <2>2, RowsKept DEF DepositsInv, AccountTypes, PageInv
<1>2. CASE D!ListAccounts
  <2>1. PICK a \in MyAccounts : D!Has(a) /\ D!IsFirst(a) /\ listed' = a
    BY <1>2 DEF D!ListAccounts
  <2>2. Ordinary(a)
    <3>1. SUFFICES ASSUME D!IsDeposit(a) PROVE FALSE
      BY <2>1 DEF Ordinary
    <3>2. PICK b \in MyAccounts : Ordinary(b) /\ accounts[b].born < accounts[a].born
      BY <2>1, <3>1 DEF DepositsInv, SourceInv
    <3>3. accounts[a].born \in Int /\ accounts[b].born \in Int
      BY <1>0 DEF Rows
    <3>4. QED
      BY <2>1, <3>2, <3>3 DEF D!IsFirst, Ordinary
  <2>3. UNCHANGED <<clock, accounts, opening, from, named>>
    BY <1>2 DEF D!ListAccounts
  <2>4. \A b \in MyAccounts : accounts[b].balance >= accounts[b].balance
    BY <1>0 DEF Rows, D!Amounts
  <2>5. QED
    BY <1>0, <1>a, <2>1, <2>2, <2>3, <2>4, RowsKept DEF DepositsInv, AccountTypes, PageInv
<1>3. CASE D!Preselect
  <2>1. /\ UNCHANGED <<clock, accounts, opening, named>> /\ listed # None
        /\ listed' = None /\ from' \in {listed, from}
    BY <1>3 DEF D!Preselect
  <2>2. \A b \in MyAccounts : accounts[b].balance >= accounts[b].balance
    BY <1>0 DEF Rows, D!Amounts
  <2>3. from' = None \/ (from' \in MyAccounts /\ Ordinary(from'))
    BY <2>1 DEF DepositsInv, AccountTypes, PageInv
  <2>4. QED
    BY <1>0, <1>a, <2>1, <2>2, <2>3, RowsKept DEF DepositsInv, AccountTypes, PageInv
<1>4. CASE D!ExecuteTransfer
  <2>1. PICK a \in MyAccounts :
            /\ D!Pay(a)
            /\ named' = named \cup {a} \/ (named' = named /\ ~D!IsDeposit(a))
    <3>1. CASE from # None /\ D!Pay(from) /\ UNCHANGED named
      BY <3>1 DEF DepositsInv, AccountTypes, PageInv, Ordinary
    <3>2. CASE \E a \in MyAccounts : D!Pay(a) /\ named' = named \cup {a}
      BY <3>2
    <3>3. QED
      BY <1>4, <3>1, <3>2 DEF D!ExecuteTransfer
  <2>2. /\ D!Has(a) /\ accounts[a].balance > 0
        /\ accounts' = [accounts EXCEPT ![a].balance = @ - 1]
        /\ UNCHANGED <<clock, opening, listed, from>>
    BY <2>1 DEF D!Pay, D!IsPayable
  <2>3. accounts[a] \in Rows /\ accounts[a].balance - 1 \in D!Amounts
    BY <1>0, <2>2, DepositsConstants DEF Rows, D!Amounts
  <2>4. [accounts[a] EXCEPT !.balance = @ - 1] \in Rows
    BY <2>3 DEF Rows
  <2>5. accounts' \in [MyAccounts -> Rows]
    BY <1>0, <2>2, <2>4
  <2>6. \A b \in MyAccounts : accounts'[b].type = accounts[b].type
                           /\ accounts'[b].born = accounts[b].born
    BY <1>0, <2>2, <2>3 DEF Rows
  <2>7. ASSUME NEW b \in MyAccounts, b \notin named', D!IsDeposit(b)
        PROVE  accounts'[b].balance >= accounts[b].balance
    <3>1. b # a
      BY <2>1, <2>7
    <3>2. accounts'[b] = accounts[b] /\ accounts[b].balance \in Int
      BY <1>0, <2>2, <3>1 DEF Rows, D!Amounts
    <3>3. QED
      BY <3>2
  <2>8. named \subseteq named' /\ named' \subseteq MyAccounts
    BY <2>1 DEF DepositsInv, AccountTypes
  <2>9. QED
    BY <1>0, <1>a, <2>2, <2>5, <2>6, <2>7, <2>8, RowsKept DEF DepositsInv, AccountTypes, PageInv
<1>5. ASSUME NEW a \in MyAccounts, D!CreateForUser(a)
      PROVE  DepositsInv'
  <2>1. PICK type \in {"savings", "checking"} :
            accounts' = [accounts EXCEPT ![a] =
                            [type |-> type, born |-> clock', balance |-> 0, matures |-> 0]]
    BY <1>5 DEF D!CreateForUser
  <2>2. /\ D!Tick /\ ~D!Has(a) /\ opening[a] = None
        /\ UNCHANGED <<opening, listed, from, named>>
    BY <1>5 DEF D!CreateForUser, D!IsUnused
  <2>3. /\ accounts'[a].type = type /\ accounts'[a].born = clock'
        /\ \A b \in MyAccounts : b # a => accounts'[b] = accounts[b]
    BY <1>0, <2>1
  <2>4. [type |-> type, born |-> clock', balance |-> 0, matures |-> 0] \in Rows'
    <3>1. 0 \in 0 .. MaxAmount /\ 0 \in 0 .. clock' + Tenure
      BY <1>b, <2>2, <1>0, DepositsConstants
    <3>2. QED
      BY <1>b, <2>2, <3>1 DEF Rows, D!Types, D!Amounts
  <2>5. AccountTypes'
    BY <1>b, <2>1, <2>2, <2>4 DEF DepositsInv, AccountTypes
  <2>6. \A b \in MyAccounts : b # a => /\ D!Has(b)' <=> D!Has(b)
                                       /\ D!IsDeposit(b)' <=> D!IsDeposit(b)
                                       /\ Ordinary(b)' <=> Ordinary(b)
    BY <2>3 DEF D!Has, D!IsDeposit, Ordinary
  <2>7. ~D!IsDeposit(a)' /\ ~Ordinary(a)
    BY <2>2, <2>3 DEF D!IsDeposit, Ordinary
  <2>8. OpeningInv'
    <3> SUFFICES ASSUME NEW b \in MyAccounts, opening[b] # None
                 PROVE  /\ accounts'[b].type = "none"
                        /\ accounts'[opening[b].source].type # "none"
                        /\ accounts'[opening[b].source].born < opening[b].born
      BY <2>2 DEF OpeningInv, D!Has
    <3>1. opening[b].source \in MyAccounts /\ opening[b].source # a /\ b # a
      BY <1>0, <2>2 DEF DepositsInv, OpeningInv, Openings0
    <3>2. QED
      BY <2>3, <3>1 DEF DepositsInv, OpeningInv, D!Has
  <2>9. SourceInv'
    <3> SUFFICES ASSUME NEW b \in MyAccounts, D!Has(b)', D!IsDeposit(b)'
                 PROVE  \E c \in MyAccounts : Ordinary(c)' /\ accounts'[c].born < accounts'[b].born
      BY DEF SourceInv
    <3>1. b # a /\ D!Has(b) /\ D!IsDeposit(b)
      BY <2>6, <2>7
    <3>2. PICK c \in MyAccounts : Ordinary(c) /\ accounts[c].born < accounts[b].born
      BY <3>1 DEF DepositsInv, SourceInv
    <3>3. QED
      BY <2>3, <2>6, <2>7, <3>1, <3>2
  <2>10. PageInv'
    BY <2>2, <2>6, <2>7 DEF DepositsInv, AccountTypes, PageInv
  <2>11. WholeInv'
    BY <2>2, <2>3, <2>6, <2>7 DEF DepositsInv, WholeInv
  <2>12. QED
    BY <2>5, <2>8, <2>9, <2>10, <2>11 DEF DepositsInv
<1>6. ASSUME NEW a \in MyAccounts, D!Receive(a)
      PROVE  DepositsInv'
  <2>1. /\ accounts[a].balance < MaxAmount
        /\ accounts' = [accounts EXCEPT ![a].balance = @ + 1]
        /\ UNCHANGED <<clock, opening, listed, from, named>>
    BY <1>6 DEF D!Receive
  <2>2. accounts[a] \in Rows /\ accounts[a].balance + 1 \in D!Amounts
    BY <1>0, <2>1, DepositsConstants DEF Rows, D!Amounts
  <2>3. [accounts[a] EXCEPT !.balance = @ + 1] \in Rows
    BY <2>2 DEF Rows
  <2>4. accounts' \in [MyAccounts -> Rows]
    BY <1>0, <2>1, <2>3
  <2>5. ASSUME NEW b \in MyAccounts
        PROVE  /\ accounts'[b].type = accounts[b].type /\ accounts'[b].born = accounts[b].born
               /\ accounts'[b].balance >= accounts[b].balance
    BY <1>0, <2>1, <2>2 DEF Rows, D!Amounts
  <2>6. QED
    BY <1>0, <1>a, <2>1, <2>4, <2>5, RowsKept DEF DepositsInv, AccountTypes, PageInv
<1>7. ASSUME NEW a \in MyAccounts, D!Choose(a)
      PROVE  DepositsInv'
  <2>1. /\ Ordinary(a) /\ from' = a
        /\ UNCHANGED <<clock, accounts, opening, listed, named>>
    BY <1>7 DEF D!Choose, Ordinary, D!IsDeposit
  <2>2. \A b \in MyAccounts : accounts[b].balance >= accounts[b].balance
    BY <1>0 DEF Rows, D!Amounts
  <2>3. QED
    BY <1>0, <1>a, <2>1, <2>2, RowsKept DEF DepositsInv, AccountTypes, PageInv
<1>8. ASSUME NEW a \in MyAccounts, D!RefuseDeposit(a)
      PROVE  DepositsInv'
  <2>1. /\ opening' = [opening EXCEPT ![a] = None]
        /\ UNCHANGED <<clock, accounts, listed, from, named>>
    BY <1>8 DEF D!RefuseDeposit
  <2>2. /\ opening' \in [MyAccounts -> Openings0 \cup {None}]
        /\ \A b \in MyAccounts : opening'[b] \in {opening[b], None}
    BY <1>0, <2>1
  <2>3. \A b \in MyAccounts : accounts[b].balance >= accounts[b].balance
    BY <1>0 DEF Rows, D!Amounts
  <2>4. QED
    BY <1>0, <1>a, <2>1, <2>2, <2>3, RowsKept DEF DepositsInv, AccountTypes, PageInv
<1>9. ASSUME NEW a \in MyAccounts, NEW source \in MyAccounts, D!OpenFixedDeposit(a, source)
      PROVE  DepositsInv'
  <2>1. /\ D!Tick /\ ~D!Has(a) /\ opening[a] = None /\ D!Has(source)
        /\ opening' = [opening EXCEPT ![a] = [source |-> source, born |-> clock']]
        /\ UNCHANGED <<accounts, listed, from, named>>
    BY <1>9 DEF D!OpenFixedDeposit, D!IsUnused
  <2>2. [source |-> source, born |-> clock'] \in Openings0'
    BY <1>b, <2>1 DEF Openings0
  <2>3. AccountTypes'
    BY <1>b, <2>1, <2>2 DEF DepositsInv, AccountTypes
  <2>4. accounts[source].born < clock'
    <3>1. accounts[source].born \in 0 .. clock
      BY <1>0 DEF Rows
    <3>2. QED
      BY <1>0, <1>b, <2>1, <3>1
  <2>5. OpeningInv'
    <3> SUFFICES ASSUME NEW b \in MyAccounts, opening'[b] # None
                 PROVE  /\ ~D!Has(b)
                        /\ D!Has(opening'[b].source)
                        /\ accounts[opening'[b].source].born < opening'[b].born
      BY <2>1 DEF OpeningInv, D!Has
    <3>1. CASE b = a
      <4>1. opening'[b] = [source |-> source, born |-> clock']
        BY <1>0, <2>1, <3>1
      <4>2. QED
        BY <2>1, <2>4, <3>1, <4>1
    <3>2. CASE b # a
      <4>1. opening'[b] = opening[b]
        BY <1>0, <2>1, <3>2
      <4>2. QED
        BY <4>1 DEF DepositsInv, OpeningInv
    <3>3. QED
      BY <3>1, <3>2
  <2>6. QED
    BY <2>1, <2>3, <2>5 DEF DepositsInv, SourceInv, PageInv, WholeInv, Ordinary, D!Has,
                            D!IsDeposit
<1>10. ASSUME NEW a \in MyAccounts, D!CommitDeposit(a)
       PROVE  DepositsInv'
  <2> DEFINE source == opening[a].source
             new == [type |-> "fixed_deposit", born |-> opening[a].born, balance |-> 1,
                     matures |-> opening[a].born + Tenure]
  <2>1. /\ opening[a] # None /\ accounts[source].balance > 0
        /\ accounts' = [accounts EXCEPT ![source].balance = @ - 1, ![a] = new]
        /\ named' = IF accounts[source].type = "fixed_deposit" THEN named \cup {source} ELSE named
        /\ opening' = [opening EXCEPT ![a] = None]
        /\ UNCHANGED <<clock, listed, from>>
    BY <1>10 DEF D!CommitDeposit
  <2>2. /\ source \in MyAccounts /\ opening[a].born \in 0 .. clock
        /\ ~D!Has(a) /\ D!Has(source) /\ accounts[source].born < opening[a].born
        /\ source # a
    BY <1>0, <2>1 DEF DepositsInv, OpeningInv, Openings0
  <2>3. /\ accounts[source] \in Rows /\ accounts[source].balance - 1 \in D!Amounts
        /\ 1 \in D!Amounts
    BY <1>0, <2>1, <2>2, DepositsConstants DEF Rows, D!Amounts
  <2>4. opening[a].born + Tenure \in 0 .. clock + Tenure
    BY <1>0, <2>2, DepositsConstants
  <2>5. new \in Rows
    BY <2>2, <2>3, <2>4 DEF Rows, D!Types
  <2>6. [accounts[source] EXCEPT !.balance = @ - 1] \in Rows
    BY <2>3 DEF Rows
  <2> HIDE DEF new
  <2>7. /\ accounts' \in [MyAccounts -> Rows]
        /\ accounts'[a] = new
        /\ accounts'[source] = [accounts[source] EXCEPT !.balance = @ - 1]
        /\ \A b \in MyAccounts : b # a /\ b # source => accounts'[b] = accounts[b]
    BY <1>0, <2>1, <2>2, <2>5, <2>6
  <2>8. new.type = "fixed_deposit" /\ new.born = opening[a].born /\ new.balance = 1
    BY DEF new
  <2>9. \A b \in MyAccounts : b # a =>
            accounts'[b].type = accounts[b].type /\ accounts'[b].born = accounts[b].born
    BY <2>2, <2>3, <2>7 DEF Rows
  <2>10. \A b \in MyAccounts : b # a => /\ D!Has(b)' <=> D!Has(b)
                                        /\ D!IsDeposit(b)' <=> D!IsDeposit(b)
                                        /\ Ordinary(b)' <=> Ordinary(b)
    BY <2>9 DEF D!Has, D!IsDeposit, Ordinary
  <2>11. ~Ordinary(a) /\ ~Ordinary(a)'
    BY <2>2, <2>7, <2>8 DEF Ordinary, D!IsDeposit
  <2>12. /\ opening' \in [MyAccounts -> Openings0 \cup {None}]
         /\ opening'[a] = None
         /\ \A b \in MyAccounts : b # a => opening'[b] = opening[b]
    BY <1>0, <2>1
  <2> HIDE DEF source
  <2>13. AccountTypes'
    BY <1>a, <2>1, <2>2, <2>7, <2>12 DEF DepositsInv, AccountTypes
  <2>14. OpeningInv'
    <3> SUFFICES ASSUME NEW b \in MyAccounts, opening'[b] # None
                 PROVE  /\ accounts'[b].type = "none"
                        /\ accounts'[opening'[b].source].type # "none"
                        /\ accounts'[opening'[b].source].born < opening'[b].born
      BY DEF OpeningInv, D!Has
    <3>1. b # a /\ opening'[b] = opening[b]
      BY <2>12
    <3>2. /\ ~D!Has(b) /\ D!Has(opening[b].source) /\ opening[b].source \in MyAccounts
          /\ accounts[opening[b].source].born < opening[b].born
      BY <1>0, <3>1 DEF DepositsInv, OpeningInv, Openings0
    <3>3. opening[b].source # a
      BY <2>2, <3>2
    <3>4. QED
      BY <2>9, <3>1, <3>2, <3>3 DEF D!Has
  <2>15. SourceInv'
    <3> SUFFICES ASSUME NEW b \in MyAccounts, D!Has(b)', D!IsDeposit(b)'
                 PROVE  \E c \in MyAccounts : Ordinary(c)' /\ accounts'[c].born < accounts'[b].born
      BY DEF SourceInv
    <3>1. CASE b # a
      <4>1. PICK c \in MyAccounts : Ordinary(c) /\ accounts[c].born < accounts[b].born
        BY <2>10, <3>1 DEF DepositsInv, SourceInv
      <4>2. c # a
        BY <2>11, <4>1
      <4>3. QED
        BY <2>9, <2>10, <3>1, <4>1, <4>2
    <3>2. CASE b = a
      <4>1. accounts'[b].born = opening[a].born
        BY <2>7, <2>8, <3>2
      <4>2. CASE ~D!IsDeposit(source)
        <5>1. PICK c \in MyAccounts : c = source /\ c # a /\ Ordinary(c)
          BY <2>2, <4>2 DEF Ordinary
        <5>2. Ordinary(c)' /\ accounts'[c].born < accounts'[b].born
          BY <2>2, <2>9, <2>10, <4>1, <5>1
        <5>3. QED
          BY <5>1, <5>2
      <4>3. CASE D!IsDeposit(source)
        <5>1. PICK c \in MyAccounts : Ordinary(c) /\ accounts[c].born < accounts[source].born
          BY <2>2, <4>3 DEF DepositsInv, SourceInv
        <5>2. c # a
          BY <2>11, <5>1
        <5>3. /\ accounts[c].born \in Int /\ accounts[source].born \in Int
              /\ opening[a].born \in Int
          BY <1>0, <2>2 DEF Rows
        <5>4. accounts'[c].born < accounts'[b].born
          BY <2>2, <2>9, <4>1, <5>1, <5>2, <5>3
        <5>5. QED
          BY <2>10, <5>1, <5>2, <5>4
      <4>4. QED
        BY <4>2, <4>3
    <3>3. QED
      BY <3>1, <3>2
  <2>16. PageInv'
    BY <2>1, <2>10, <2>11 DEF DepositsInv, AccountTypes, PageInv
  <2>17. WholeInv'
    <3> SUFFICES ASSUME NEW b \in MyAccounts, b \notin named', D!IsDeposit(b)'
                 PROVE  accounts'[b].balance > 0
      BY DEF WholeInv
    <3>1. CASE b = a
      BY <2>7, <2>8, <3>1
    <3>2. CASE b # a
      <4>1. D!IsDeposit(b) /\ b # source /\ b \notin named
        BY <2>1, <2>10, <3>2 DEF D!IsDeposit
      <4>2. accounts'[b] = accounts[b]
        BY <2>7, <3>2, <4>1
      <4>3. QED
        BY <4>1, <4>2 DEF DepositsInv, WholeInv
    <3>3. QED
      BY <3>1, <3>2
  <2>18. QED
    BY <2>13, <2>14, <2>15, <2>16, <2>17 DEF DepositsInv
<1>11. QED
  BY <1>1, <1>2, <1>3, <1>4, <1>5, <1>6, <1>7, <1>8, <1>9, <1>10 DEF D!Next

LEMMA DepositsStill ==
    ASSUME DepositsInv, UNCHANGED D!vars
    PROVE  DepositsInv'
BY DEF D!vars, DepositsInv, AccountTypes, OpeningInv, SourceInv, PageInv, WholeInv, Rows,
       Openings0, D!Amounts, Ordinary, D!Has, D!IsDeposit

LEMMA DepositsTyped ==
    DepositsInv => D!TypeOK /\ D!PreselectsNoDeposit /\ D!LockedUntilMaturity
<1> SUFFICES ASSUME DepositsInv
             PROVE  D!TypeOK /\ D!PreselectsNoDeposit /\ D!LockedUntilMaturity
  OBVIOUS
<1>1. D!TypeOK
  BY DEF DepositsInv, AccountTypes, Rows, Openings0, D!TypeOK
<1>2. D!PreselectsNoDeposit
  BY DEF DepositsInv, PageInv, Ordinary, D!PreselectsNoDeposit
<1>3. D!LockedUntilMaturity
  BY DEF DepositsInv, WholeInv, D!LockedUntilMaturity
<1>4. QED
  BY <1>1, <1>2, <1>3

-----------------------------------------------------------------------------
(* FraudAlerts.                                                            *)

Places == {"idle", "open", "committed", "alerts", "notify", "done"}

\* What evaluateTransfer can find.
Dues == {<<>>, <<"LARGE_AMOUNT">>, <<"VELOCITY">>, <<"LARGE_AMOUNT", "VELOCITY">>}

IsDue(type, t) == due[t] \in {<<type>>, <<"LARGE_AMOUNT", "VELOCITY">>}

\* An alert there is, or will be unless a fault comes first.
Noticed(type, t) == F!Flagged(type, t) \/ IsDue(type, t)

\* Calls whose transfer was counted.
Evaluated == {t \in debits \ disturbed : pc[t] \in {"alerts", "notify", "done"}}

FraudTypes ==
    /\ clock \in 0 .. MaxTime
    /\ pc \in [Transfers -> Places]
    /\ born \in [Transfers -> 0 .. MaxTime]
    /\ debits \subseteq Transfers /\ disturbed \subseteq Transfers
    /\ due \in [Transfers -> Dues]
    /\ told \subseteq alerts /\ alerts \subseteq F!Alerts
    /\ faults \in 0 .. MaxFaults

\* What is due, and what was inserted, by where a call is.
DueInv ==
    \A t \in Transfers :
        /\ pc[t] \in {"idle", "open"} => t \notin debits
        /\ pc[t] \notin {"alerts", "notify"} => due[t] = <<>>
        /\ pc[t] = "notify" => due[t] # <<>> /\ F!Flagged(Head(due[t]), t)

\* Of MaxTxns debits within the window one has noticed, or is about to.
VelocityInv ==
    \A S \in SUBSET {t \in Evaluated : F!Recent(t)} :
        Cardinality(S) >= MaxTxns => \E t \in S : Noticed("VELOCITY", t)

LargeInv == \A t \in Evaluated \cap Large : Noticed("LARGE_AMOUNT", t)

FraudInv == FraudTypes /\ DueInv /\ VelocityInv /\ LargeInv

LEMMA FraudConstants ==
    /\ IsFiniteSet(Transfers) /\ Large \subseteq Transfers
    /\ Window \in Nat /\ MaxTxns \in Nat \ {0} /\ MaxTime \in Nat /\ MaxFaults \in Nat
BY RecordsAssumption, SameSets DEF F!FraudAssumption

LEMMA DueSequences ==
    /\ \A d \in Dues : d = <<>> \/ Head(d) \in F!Types
    /\ \A d \in Dues : d # <<>> => Tail(d) \in Dues
    /\ \A x : Tail(<<x>>) = <<>> /\ Head(<<x>>) = x
    /\ Head(<<"LARGE_AMOUNT", "VELOCITY">>) = "LARGE_AMOUNT"
    /\ Tail(<<"LARGE_AMOUNT", "VELOCITY">>) = <<"VELOCITY">>
    /\ \A x : <<x>> # <<>>
    /\ <<"LARGE_AMOUNT", "VELOCITY">> # <<>>
BY DEF Dues, F!Types

LEMMA DueSets ==
    Dues \subseteq {<<>>} \cup [1 .. 1 -> F!Types] \cup [1 .. 2 -> F!Types]
BY DEF Dues, F!Types

LEMMA Concatenations ==
    /\ <<>> \o <<>> = <<>>
    /\ \A x : <<x>> \o <<>> = <<x>>
    /\ \A x : <<>> \o <<x>> = <<x>>
    /\ \A x, y : <<x>> \o <<y>> = <<x, y>>
<1>1. <<>> \o <<>> = <<>>
  OBVIOUS
<1>2. ASSUME NEW x PROVE <<x>> \o <<>> = <<x>>
  <2>1. <<x>> \in Seq({x}) /\ <<>> \in Seq({x})
    OBVIOUS
  <2>2. QED
    BY <2>1
<1>3. ASSUME NEW x PROVE <<>> \o <<x>> = <<x>>
  <2>1. <<x>> \in Seq({x}) /\ <<>> \in Seq({x})
    OBVIOUS
  <2>2. QED
    BY <2>1
<1>4. ASSUME NEW x, NEW y PROVE <<x>> \o <<y>> = <<x, y>>
  <2>1. <<x>> \in Seq({x, y}) /\ <<y>> \in Seq({x, y})
    OBVIOUS
  <2>2. <<x>> \o <<y>> \in Seq({x, y}) /\ Len(<<x>> \o <<y>>) = 2
    BY <2>1, ConcatProperties
  <2>3. (<<x>> \o <<y>>)[1] = x /\ (<<x>> \o <<y>>)[2] = y
    <3>1. 1 \in 1 .. Len(<<x>>) + Len(<<y>>) /\ 2 \in 1 .. Len(<<x>>) + Len(<<y>>)
          /\ Len(<<x>>) = 1
      OBVIOUS
    <3>2. QED
      BY <2>1, <3>1, ConcatProperties
  <2>4. <<x, y>> \in Seq({x, y}) /\ Len(<<x, y>>) = 2 /\ <<x, y>>[1] = x /\ <<x, y>>[2] = y
    OBVIOUS
  <2>5. \A i \in 1 .. 2 : (<<x>> \o <<y>>)[i] = <<x, y>>[i]
    BY <2>3, <2>4
  <2>6. QED
    BY <2>2, <2>4, <2>5, SeqEqual
<1>5. QED
  BY <1>1, <1>2, <1>3, <1>4

LEMMA FoundFacts ==
    ASSUME NEW t \in Transfers
    PROVE  /\ F!Found(t) \in Dues
           /\ t \in Large => F!Found(t) \in {<<"LARGE_AMOUNT">>, <<"LARGE_AMOUNT", "VELOCITY">>}
           /\ Cardinality(F!Counted(t)) >= MaxTxns =>
                 F!Found(t) \in {<<"VELOCITY">>, <<"LARGE_AMOUNT", "VELOCITY">>}
BY Concatenations, SameSets DEF F!Found, Dues

LEMMA FraudInit == F!Init => FraudInv
<1> SUFFICES ASSUME F!Init PROVE FraudInv
  OBVIOUS
<1>1. 0 \in 0 .. MaxTime /\ 0 \in 0 .. MaxFaults /\ <<>> \in Dues
  BY FraudConstants DEF Dues
<1>2. FraudTypes
  BY <1>1 DEF F!Init, FraudTypes, Places
<1>3. DueInv
  BY DEF F!Init, DueInv
<1>4. Evaluated = {}
  BY DEF F!Init, Evaluated
<1>5. VelocityInv
  <2>1. SUFFICES ASSUME NEW S, S = {}, Cardinality(S) >= MaxTxns
                 PROVE  FALSE
    BY <1>4 DEF VelocityInv
  <2>2. Cardinality(S) = 0
    BY <2>1, FS_EmptySet
  <2>3. QED
    BY <2>1, <2>2, FraudConstants
<1>6. QED
  BY <1>2, <1>3, <1>4, <1>5 DEF FraudInv, LargeInv

\* A step that counts no further call, and takes no notice away.
LEMMA FraudQuiet ==
    ASSUME FraudInv, FraudTypes',
           clock <= clock',
           Evaluated' \subseteq Evaluated, \A t \in Evaluated' : born'[t] = born[t],
           \A t \in Evaluated', type \in F!Types :
               Noticed(type, t) => Noticed(type, t)'
    PROVE  VelocityInv' /\ LargeInv'
<1>0. "VELOCITY" \in F!Types /\ "LARGE_AMOUNT" \in F!Types
  BY DEF F!Types
<1>2. Evaluated \subseteq Transfers
  BY DEF FraudInv, FraudTypes, Evaluated
<1>1. \A t \in Evaluated' : F!Recent(t)' => F!Recent(t)
  <2> SUFFICES ASSUME NEW t \in Evaluated', clock' - born[t] <= Window
               PROVE  clock - born[t] <= Window
    BY DEF F!Recent
  <2>1. clock \in Int /\ clock' \in Int /\ born[t] \in Int /\ Window \in Int
    BY <1>2, FraudConstants DEF FraudInv, FraudTypes
  <2>2. QED
    BY <2>1
<1>3. VelocityInv'
  <2> SUFFICES ASSUME NEW S \in SUBSET {t \in Evaluated' : F!Recent(t)'},
                      Cardinality(S) >= MaxTxns
               PROVE  \E t \in S : Noticed("VELOCITY", t)'
    BY DEF VelocityInv
  <2>1. S \in SUBSET {t \in Evaluated : F!Recent(t)}
    BY <1>1, <1>2
  <2>2. PICK t \in S : Noticed("VELOCITY", t)
    BY <2>1 DEF FraudInv, VelocityInv
  <2>3. QED
    BY <1>0, <2>2
<1>4. LargeInv'
  BY <1>0 DEF FraudInv, LargeInv
<1>5. QED
  BY <1>3, <1>4

LEMMA NoticedKept ==
    ASSUME NEW t, NEW type, alerts \subseteq alerts', due'[t] = due[t], Noticed(type, t)
    PROVE  Noticed(type, t)'
BY DEF Noticed, F!Flagged, IsDue

LEMMA FraudHit ==
    ASSUME FraudInv, NEW S \in SUBSET Transfers, F!Hit(S)
    PROVE  FraudInv'
<1>1. /\ faults < MaxFaults /\ faults' = faults + 1 /\ disturbed' = disturbed \cup S
      /\ pc'  = [t \in Transfers |-> IF t \in S THEN "done" ELSE pc[t]]
      /\ due' = [t \in Transfers |-> IF t \in S THEN <<>> ELSE due[t]]
      /\ UNCHANGED <<clock, born, debits, alerts, told>>
  BY DEF F!Hit
<1>2. FraudTypes'
  <2>1. faults' \in 0 .. MaxFaults
    BY <1>1, FraudConstants DEF FraudInv, FraudTypes
  <2>2. pc' \in [Transfers -> Places] /\ due' \in [Transfers -> Dues]
    BY <1>1 DEF FraudInv, FraudTypes, Places, Dues
  <2>3. QED
    BY <1>1, <2>1, <2>2 DEF FraudInv, FraudTypes
<1>3. DueInv'
  <2> SUFFICES ASSUME NEW t \in Transfers
               PROVE  /\ pc'[t] \in {"idle", "open"} => t \notin debits
                      /\ pc'[t] \notin {"alerts", "notify"} => due'[t] = <<>>
                      /\ pc'[t] = "notify" => due'[t] # <<>> /\ F!Flagged(Head(due'[t]), t)
    BY <1>1 DEF DueInv, F!Flagged
  <2>1. CASE t \in S
    BY <1>1, <2>1
  <2>2. CASE t \notin S
    BY <1>1, <2>2 DEF FraudInv, DueInv
  <2>3. QED
    BY <2>1, <2>2
<1>4. Evaluated' \subseteq Evaluated /\ \A t \in Evaluated' : t \in Transfers /\ due'[t] = due[t]
  BY <1>1 DEF FraudInv, FraudTypes, Evaluated
<1>5. clock <= clock'
  BY <1>1 DEF FraudInv, FraudTypes
<1>6. VelocityInv' /\ LargeInv'
  BY <1>1, <1>2, <1>4, <1>5, NoticedKept, FraudQuiet
<1>7. QED
  BY <1>2, <1>3, <1>6 DEF FraudInv

\* A step of one call, by where it goes, what it has due then, and who is alerted.
LEMMA FraudMove ==
    ASSUME FraudInv, NEW t \in Transfers, NEW place \in Places,
           pc' = [pc EXCEPT ![t] = place], born' \in [Transfers -> 0 .. MaxTime],
           \A u \in Transfers \ {t} : due'[u] = due[u] /\ born'[u] = born[u],
           due' \in [Transfers -> Dues], alerts \subseteq alerts',
           alerts' \subseteq F!Alerts, told' \subseteq alerts',
           debits' \subseteq Transfers, debits' \subseteq debits \cup {t}, debits \subseteq debits',
           place \in {"idle", "open"} => t \notin debits',
           place \notin {"alerts", "notify"} => due'[t] = <<>>,
           place = "notify" => due'[t] # <<>> /\ [type |-> Head(due'[t]), by |-> t] \in alerts',
           UNCHANGED <<clock, disturbed, faults>>
    PROVE  FraudTypes' /\ DueInv' /\ Evaluated' \ {t} \subseteq Evaluated
<1>1. FraudTypes'
  BY DEF FraudInv, FraudTypes
<1>2. DueInv'
  <2> SUFFICES ASSUME NEW u \in Transfers
               PROVE  /\ pc'[u] \in {"idle", "open"} => u \notin debits'
                      /\ pc'[u] \notin {"alerts", "notify"} => due'[u] = <<>>
                      /\ pc'[u] = "notify" =>
                            due'[u] # <<>> /\ [type |-> Head(due'[u]), by |-> u] \in alerts'
    BY DEF DueInv, F!Flagged
  <2>1. CASE u = t
    BY <2>1 DEF FraudInv, FraudTypes
  <2>2. CASE u # t
    BY <2>2 DEF FraudInv, FraudTypes, DueInv, F!Flagged
  <2>3. QED
    BY <2>1, <2>2
<1>3. Evaluated' \ {t} \subseteq Evaluated
  BY DEF FraudInv, FraudTypes, Evaluated
<1>4. QED
  BY <1>1, <1>2, <1>3

LEMMA FraudStep ==
    ASSUME FraudInv, F!Next
    PROVE  FraudInv'
<1>0. /\ pc \in [Transfers -> Places] /\ due \in [Transfers -> Dues]
      /\ clock \in Nat /\ clock <= clock /\ born \in [Transfers -> 0 .. MaxTime]
      /\ told \subseteq alerts /\ alerts \subseteq F!Alerts /\ debits \subseteq Transfers
  BY DEF FraudInv, FraudTypes
<1>1. CASE F!Tick
  <2>1. clock' = clock + 1 /\ clock < MaxTime
        /\ UNCHANGED <<pc, born, debits, due, alerts, told, disturbed, faults>>
    BY <1>1 DEF F!Tick
  <2>2. clock <= clock' /\ clock' \in 0 .. MaxTime
    BY <1>0, <2>1, FraudConstants
  <2>3. FraudTypes' /\ DueInv'
    BY <2>1, <2>2 DEF FraudInv, FraudTypes, DueInv, F!Flagged
  <2>4. Evaluated' = Evaluated
    BY <2>1 DEF Evaluated
  <2>5. VelocityInv' /\ LargeInv'
    BY <2>1, <2>2, <2>3, <2>4, NoticedKept, FraudQuiet
  <2>6. QED
    BY <2>3, <2>5 DEF FraudInv
<1>2. CASE F!Crash
  BY <1>2, FraudHit DEF F!Crash, F!Running
<1>3. ASSUME NEW t \in Transfers, F!QueryFails(t)
      PROVE  FraudInv'
  BY <1>3, FraudHit DEF F!QueryFails
<1>4. ASSUME NEW t \in Transfers, F!Begin(t) \/ F!Commit(t) \/ F!Rollback(t)
      PROVE  FraudInv'
  <2>1. /\ pc[t] \in {"idle", "open"} /\ UNCHANGED <<clock, due, alerts, told, disturbed, faults>>
        /\ t \notin debits /\ due[t] = <<>>
    BY <1>4 DEF F!Begin, F!Commit, F!Rollback, F!Goto, FraudInv, DueInv
  <2>2. PICK place \in {"open", "committed", "done"} :
            /\ pc' = [pc EXCEPT ![t] = place]
            /\ debits' = IF place = "committed" THEN debits \cup {t} ELSE debits
    BY <1>4 DEF F!Begin, F!Commit, F!Rollback, F!Goto
  <2>3. /\ born' \in [Transfers -> 0 .. MaxTime]
        /\ \A u \in Transfers \ {t} : born'[u] = born[u]
    <3>1. clock \in 0 .. MaxTime
      BY DEF FraudInv, FraudTypes
    <3>2. QED
      BY <1>0, <1>4, <3>1 DEF F!Begin, F!Commit, F!Rollback
  <2>4. place \in Places
    BY <2>2 DEF Places
  <2>5. FraudTypes' /\ DueInv' /\ Evaluated' \ {t} \subseteq Evaluated
    BY <1>0, <2>1, <2>2, <2>3, <2>4, FraudMove
  <2>6. t \notin Evaluated'
    BY <1>0, <2>1, <2>2 DEF Evaluated
  <2>7. /\ Evaluated' \subseteq Evaluated
        /\ \A u \in Evaluated' : born'[u] = born[u]
    BY <1>0, <2>2, <2>3, <2>5, <2>6 DEF Evaluated
  <2>8. VelocityInv' /\ LargeInv'
    BY <1>0, <2>1, <2>5, <2>7, NoticedKept, FraudQuiet
  <2>9. QED
    BY <2>5, <2>8 DEF FraudInv
<1>5. ASSUME NEW t \in Transfers, F!EvaluateTransfer(t)
      PROVE  FraudInv'
  <2>1. /\ pc[t] = "committed" /\ pc' = [pc EXCEPT ![t] = "alerts"]
        /\ due' = [due EXCEPT ![t] = F!Found(t)]
        /\ UNCHANGED <<clock, born, debits, alerts, told, disturbed, faults>>
    BY <1>5 DEF F!EvaluateTransfer, F!Goto
  <2>2. /\ F!Found(t) \in Dues /\ "alerts" \in Places
        /\ due' \in [Transfers -> Dues] /\ due'[t] = F!Found(t)
        /\ \A u \in Transfers \ {t} : due'[u] = due[u]
    BY <1>0, <2>1, FoundFacts DEF Places
  <2>3. FraudTypes' /\ DueInv' /\ Evaluated' \ {t} \subseteq Evaluated
    BY <1>0, <2>1, <2>2, FraudMove
  <2>4. VelocityInv'
    <3> SUFFICES ASSUME NEW S \in SUBSET {u \in Evaluated' : F!Recent(u)'},
                        Cardinality(S) >= MaxTxns
                 PROVE  \E u \in S : Noticed("VELOCITY", u)'
      BY DEF VelocityInv
    <3>1. S \subseteq {u \in debits : F!Recent(u)}
      BY <2>1 DEF Evaluated, F!Recent
    <3>2. CASE t \in S
      <4>1. IsFiniteSet(F!Counted(t)) /\ S \subseteq F!Counted(t)
        <5>1. F!Counted(t) \subseteq Transfers
          BY <1>0 DEF F!Counted
        <5>2. QED
          BY <3>1, <5>1, FraudConstants, FS_Subset DEF F!Counted
      <4>2. Cardinality(F!Counted(t)) \in Nat /\ Cardinality(S) \in Nat
            /\ Cardinality(S) <= Cardinality(F!Counted(t))
        BY <4>1, FS_Subset, FS_CardinalityType
      <4>3. Cardinality(F!Counted(t)) >= MaxTxns
        BY <4>2, FraudConstants
      <4>4. due'[t] \in {<<"VELOCITY">>, <<"LARGE_AMOUNT", "VELOCITY">>}
        BY <2>2, <4>3, FoundFacts
      <4>5. Noticed("VELOCITY", t)'
        BY <4>4 DEF Noticed, IsDue
      <4>6. QED
        BY <3>2, <4>5
    <3>3. CASE t \notin S
      <4>1. S \in SUBSET {u \in Evaluated : F!Recent(u)}
        BY <2>1, <2>3, <3>3 DEF F!Recent
      <4>2. PICK u \in S : Noticed("VELOCITY", u)
        BY <4>1 DEF FraudInv, VelocityInv
      <4>3. u \in Transfers \ {t}
        BY <1>0, <3>1, <3>3
      <4>4. Noticed("VELOCITY", u)'
        BY <2>1, <2>2, <4>2, <4>3, NoticedKept
      <4>5. QED
        BY <4>4
    <3>4. QED
      BY <3>2, <3>3
  <2>5. LargeInv'
    <3> SUFFICES ASSUME NEW u \in Evaluated' \cap Large
                 PROVE  Noticed("LARGE_AMOUNT", u)'
      BY DEF LargeInv
    <3>1. CASE u = t
      <4>1. due'[t] \in {<<"LARGE_AMOUNT">>, <<"LARGE_AMOUNT", "VELOCITY">>}
        BY <2>2, <3>1, FoundFacts
      <4>2. QED
        BY <3>1, <4>1 DEF Noticed, IsDue
    <3>2. CASE u # t
      <4>1. u \in Evaluated \cap Large /\ u \in Transfers \ {t}
        BY <1>0, <2>1, <2>3, <3>2, FraudConstants
      <4>2. Noticed("LARGE_AMOUNT", u)
        BY <4>1 DEF FraudInv, LargeInv
      <4>3. QED
        BY <2>1, <2>2, <4>1, <4>2, NoticedKept
    <3>3. QED
      BY <3>1, <3>2
  <2>6. QED
    BY <2>3, <2>4, <2>5 DEF FraudInv
<1>6. ASSUME NEW t \in Transfers, F!CreateAlert(t)
      PROVE  FraudInv'
  <2> DEFINE alert == [type |-> Head(due[t]), by |-> t]
  <2>1. /\ due[t] # <<>> /\ pc[t] = "alerts" /\ pc' = [pc EXCEPT ![t] = "notify"]
        /\ alerts' = alerts \cup {alert}
        /\ UNCHANGED <<clock, born, debits, due, told, disturbed, faults>>
    BY <1>6 DEF F!CreateAlert, F!Goto
  <2>2. Head(due[t]) \in F!Types
    BY <1>0, <2>1, DueSequences
  <2>3. alert \in F!Alerts /\ "notify" \in Places
    BY <2>2 DEF F!Alerts, Places
  <2>4. FraudTypes' /\ DueInv' /\ Evaluated' \ {t} \subseteq Evaluated
    BY <1>0, <2>1, <2>3, FraudMove
  <2>5. Evaluated' \subseteq Evaluated
    BY <1>0, <2>1, <2>4 DEF Evaluated
  <2>6. VelocityInv' /\ LargeInv'
    BY <1>0, <2>1, <2>4, <2>5, NoticedKept, FraudQuiet
  <2>7. QED
    BY <2>4, <2>6 DEF FraudInv
<1>7. ASSUME NEW t \in Transfers, F!Notify(t)
      PROVE  FraudInv'
  <2> DEFINE alert == [type |-> Head(due[t]), by |-> t]
  <2>1. /\ pc[t] = "notify" /\ pc' = [pc EXCEPT ![t] = "alerts"]
        /\ due' = [due EXCEPT ![t] = Tail(@)]
        /\ told' \in {told, told \cup {alert}}
        /\ UNCHANGED <<clock, born, debits, alerts, disturbed, faults>>
    BY <1>7 DEF F!Notify, F!Goto
  <2>2. due[t] # <<>> /\ alert \in alerts
    BY <2>1 DEF FraudInv, DueInv, F!Flagged
  <2>3. /\ Tail(due[t]) \in Dues /\ "alerts" \in Places
        /\ due' \in [Transfers -> Dues] /\ due'[t] = Tail(due[t])
        /\ \A u \in Transfers \ {t} : due'[u] = due[u]
    BY <1>0, <2>1, <2>2, DueSequences DEF Places
  <2>4. FraudTypes' /\ DueInv' /\ Evaluated' \ {t} \subseteq Evaluated
    BY <1>0, <2>1, <2>2, <2>3, FraudMove
  <2>5. Evaluated' \subseteq Evaluated /\ Evaluated' \subseteq Transfers
    BY <1>0, <2>1, <2>4 DEF Evaluated
  <2>6. ASSUME NEW u \in Evaluated', NEW type \in F!Types, Noticed(type, u)
        PROVE  Noticed(type, u)'
    <3>1. CASE u # t
      BY <2>1, <2>3, <2>5, <2>6, <3>1, NoticedKept
    <3>2. CASE u = t /\ F!Flagged(type, t)
      BY <2>1, <3>2 DEF Noticed, F!Flagged
    <3>3. CASE u = t /\ IsDue(type, t)
      <4>1. type = Head(due[t]) \/ due'[t] = <<type>>
        BY <2>3, <3>3, DueSequences DEF IsDue, F!Types
      <4>2. CASE type = Head(due[t])
        BY <2>1, <2>2, <3>3, <4>2 DEF Noticed, F!Flagged
      <4>3. CASE due'[t] = <<type>>
        BY <3>3, <4>3 DEF Noticed, IsDue
      <4>4. QED
        BY <4>1, <4>2, <4>3
    <3>4. QED
      BY <2>6, <3>1, <3>2, <3>3 DEF Noticed
  <2>7. VelocityInv' /\ LargeInv'
    BY <1>0, <2>1, <2>4, <2>5, <2>6, FraudQuiet
  <2>8. QED
    BY <2>4, <2>7 DEF FraudInv
<1>8. ASSUME NEW t \in Transfers, F!Answer(t)
      PROVE  FraudInv'
  <2>1. /\ due[t] = <<>> /\ pc[t] = "alerts" /\ pc' = [pc EXCEPT ![t] = "done"]
        /\ UNCHANGED <<clock, born, debits, due, alerts, told, disturbed, faults>>
    BY <1>8 DEF F!Answer, F!Goto
  <2>2. "done" \in Places
    BY DEF Places
  <2>3. FraudTypes' /\ DueInv' /\ Evaluated' \ {t} \subseteq Evaluated
    BY <1>0, <2>1, <2>2, FraudMove
  <2>4. Evaluated' \subseteq Evaluated
    BY <1>0, <2>1, <2>3 DEF Evaluated
  <2>5. VelocityInv' /\ LargeInv'
    BY <1>0, <2>1, <2>3, <2>4, NoticedKept, FraudQuiet
  <2>6. QED
    BY <2>3, <2>5 DEF FraudInv
<1>9. QED
  BY <1>1, <1>2, <1>3, <1>4, <1>5, <1>6, <1>7, <1>8 DEF F!Next, F!Proceed

LEMMA FraudStill ==
    ASSUME FraudInv, UNCHANGED F!vars
    PROVE  FraudInv'
BY DEF F!vars, FraudInv, FraudTypes, DueInv, VelocityInv, LargeInv, Evaluated, Noticed,
       IsDue, F!Flagged, F!Recent

LEMMA FraudTyped ==
    FraudInv => F!TypeOK /\ F!VelocityFlagged /\ F!LargeFlaggedUnlessHit
<1> SUFFICES ASSUME FraudInv
             PROVE  F!TypeOK /\ F!VelocityFlagged /\ F!LargeFlaggedUnlessHit
  OBVIOUS
<1>1. F!TypeOK
  BY DueSets DEF FraudInv, FraudTypes, F!TypeOK, Places
<1>2. ASSUME NEW t \in debits \ disturbed, pc[t] = "done"
      PROVE  t \in Evaluated /\ ~IsDue("VELOCITY", t) /\ ~IsDue("LARGE_AMOUNT", t)
  <2>1. due[t] = <<>> /\ t \in Evaluated
    BY <1>2 DEF FraudInv, FraudTypes, DueInv, Evaluated
  <2>2. QED
    BY <2>1, DueSequences DEF IsDue
<1>3. F!VelocityFlagged
  <2> SUFFICES ASSUME NEW S \in SUBSET {t \in debits \ disturbed : pc[t] = "done" /\ F!Recent(t)},
                      Cardinality(S) >= MaxTxns
               PROVE  \E t \in S : F!Flagged("VELOCITY", t)
    BY SameSets DEF F!VelocityFlagged
  <2>1. S \in SUBSET {t \in Evaluated : F!Recent(t)}
    BY <1>2
  <2>2. PICK t \in S : Noticed("VELOCITY", t)
    BY <2>1 DEF FraudInv, VelocityInv
  <2>3. QED
    BY <1>2, <2>2 DEF Noticed
<1>4. F!LargeFlaggedUnlessHit
  BY <1>2 DEF FraudInv, LargeInv, Noticed, F!LargeFlaggedUnlessHit
<1>5. QED
  BY <1>1, <1>3, <1>4

-----------------------------------------------------------------------------
(* Calendar.                                                               *)

LEMMA CalendarConstants == Years \subseteq Nat /\ Tenures \subseteq Nat /\ MaxRuns \in Nat
BY RecordsAssumption DEF C!CalendarAssumption

\* A date of a year there may be.
AnyDate == [y : Nat, m : 1 .. 12, d : 1 .. 31]

IsDate(t) == t \in AnyDate /\ t.d <= C!DaysIn(t.y, t.m)

LEMMA DaysInRange == \A y, m : C!DaysIn(y, m) \in 28 .. 31
BY DEF C!DaysIn

LEMMA DatesAreDates == \A t \in C!Dates : IsDate(t)
<1> SUFFICES ASSUME NEW t \in C!Dates PROVE IsDate(t)
  OBVIOUS
<1>0. PICK y \in Years, m \in 1 .. 12 : t \in [y : {y}, m : {m}, d : 1 .. C!DaysIn(y, m)]
  <2>1. PICK Q \in {[y : {y}, m : {m}, d : 1 .. C!DaysIn(y, m)] : y \in Years, m \in 1 .. 12} : t \in Q
    BY DEF C!Dates
  <2>2. PICK y \in Years, m \in 1 .. 12 : Q = [y : {y}, m : {m}, d : 1 .. C!DaysIn(y, m)]
    OBVIOUS
  <2>3. QED
    BY <2>1, <2>2
<1>1. y \in Nat /\ C!DaysIn(y, m) \in 28 .. 31
  BY CalendarConstants, DaysInRange
<1>2. t.y = y /\ t.m = m /\ t.d \in 1 .. C!DaysIn(y, m) /\ t = [y |-> t.y, m |-> t.m, d |-> t.d]
  BY <1>0
<1>3. t.d \in 1 .. 31 /\ t.d <= C!DaysIn(y, m)
  BY <1>1, <1>2
<1>4. QED
  BY <1>1, <1>2, <1>3 DEF IsDate, AnyDate

\* The first of a month.
LEMMA FirstOfMonth ==
    ASSUME NEW n \in Nat
    PROVE  /\ C!FirstOf(n) \in AnyDate
           /\ C!Month(C!FirstOf(n)) = n
<1>1. /\ n \div 12 \in Nat /\ n % 12 \in 0 .. 11
      /\ (12 * (n \div 12)) + (n % 12) = n
  OBVIOUS
<1>2. QED
  BY <1>1 DEF C!FirstOf, C!Month, AnyDate

\* Where a day of a month, or beyond its end, comes to lie.
LEMMA RollsOver ==
    ASSUME NEW n \in Nat, NEW d \in 1 .. 38
    PROVE  LET u == C!Roll(n, d)
               days == C!DaysIn(C!FirstOf(n).y, C!FirstOf(n).m)
           IN  /\ IsDate(u)
               /\ d <= days => C!Month(u) = n /\ u.d = d
               /\ d > days => C!Month(u) = n + 1 /\ u.d = d - days
<1> DEFINE start == C!FirstOf(n)
           next == C!FirstOf(n + 1)
           days == C!DaysIn(start.y, start.m)
<1>1. start \in AnyDate /\ C!Month(start) = n /\ next \in AnyDate /\ C!Month(next) = n + 1
  BY FirstOfMonth
<1>2. days \in 28 .. 31 /\ C!DaysIn(next.y, next.m) \in 28 .. 31
  BY DaysInRange
<1>3. C!Roll(n, d) = IF d <= days THEN [start EXCEPT !.d = d] ELSE [next EXCEPT !.d = d - days]
  BY DEF C!Roll
<1> HIDE DEF start, next, days
<1>4. CASE d <= days
  <2>1. d \in 1 .. 31
    BY <1>2, <1>4
  <2>2. C!Roll(n, d) = [start EXCEPT !.d = d]
    BY <1>3, <1>4
  <2>3. /\ C!Roll(n, d) \in AnyDate /\ C!Roll(n, d).d = d
        /\ C!Roll(n, d).y = start.y /\ C!Roll(n, d).m = start.m
    BY <1>1, <2>1, <2>2 DEF AnyDate
  <2>4. QED
    BY <1>1, <1>2, <1>4, <2>3 DEF IsDate, C!Month, days, start
<1>5. CASE ~(d <= days)
  <2>1. d - days \in 1 .. 10 /\ d - days \in 1 .. 31 /\ d > days
    BY <1>2, <1>5
  <2>2. C!Roll(n, d) = [next EXCEPT !.d = d - days]
    BY <1>3, <1>5
  <2>3. /\ C!Roll(n, d) \in AnyDate /\ C!Roll(n, d).d = d - days
        /\ C!Roll(n, d).y = next.y /\ C!Roll(n, d).m = next.m
    BY <1>1, <2>1, <2>2 DEF AnyDate
  <2>4. d - days <= C!DaysIn(next.y, next.m)
    BY <1>2, <2>1
  <2>5. QED
    BY <1>1, <1>5, <2>1, <2>3, <2>4 DEF IsDate, C!Month, days, start
<1>6. QED
  BY <1>4, <1>5

\* Days of a year before each month, as DayNumber sums them up.
SumsUp(f, y) ==
    f = [m \in 1 .. 12 |-> IF m = 1 THEN 0 ELSE f[m - 1] + C!DaysIn(y, m - 1)]

Summed(y) ==
    CHOOSE f : f = [m \in 1 .. 12 |-> IF m = 1 THEN 0 ELSE f[m - 1] + C!DaysIn(y, m - 1)]

LeapDay(y) == IF C!IsLeap(y) THEN 1 ELSE 0

\* The table of a common year, and the leap day from March on.
DaysBefore(y) ==
    [m \in 1 .. 12 |-> <<0, 31, 59, 90, 120, 151, 181, 212, 243, 273, 304, 334>>[m]
                       + (IF m > 2 THEN LeapDay(y) ELSE 0)]

LEMMA TableSumsUp == \A y : SumsUp(DaysBefore(y), y)
<1> SUFFICES ASSUME NEW y PROVE SumsUp(DaysBefore(y), y)
  OBVIOUS
<1> DEFINE g == DaysBefore(y)
           T == <<0, 31, 59, 90, 120, 151, 181, 212, 243, 273, 304, 334>>
           leap == LeapDay(y)
<1>1. leap \in {0, 1} /\ (C!IsLeap(y) <=> leap = 1)
  BY DEF LeapDay
<1>2. /\ g[1] = 0 /\ g[2] = 31 /\ g[3] = 59 + leap /\ g[4] = 90 + leap
      /\ g[5] = 120 + leap /\ g[6] = 151 + leap /\ g[7] = 181 + leap
      /\ g[8] = 212 + leap /\ g[9] = 243 + leap /\ g[10] = 273 + leap
      /\ g[11] = 304 + leap /\ g[12] = 334 + leap
      /\ g = [m \in 1 .. 12 |-> g[m]]
  <2>1. \A m \in 1 .. 12 : g[m] = T[m] + (IF m > 2 THEN leap ELSE 0)
    BY DEF DaysBefore
  <2>2. /\ T[1] = 0 /\ T[2] = 31 /\ T[3] = 59 /\ T[4] = 90 /\ T[5] = 120 /\ T[6] = 151
        /\ T[7] = 181 /\ T[8] = 212 /\ T[9] = 243 /\ T[10] = 273 /\ T[11] = 304 /\ T[12] = 334
    OBVIOUS
  <2>3. g = [m \in 1 .. 12 |-> g[m]]
    BY DEF DaysBefore
  <2> HIDE DEF g, T, leap
  <2>4. QED
    BY <1>1, <2>1, <2>2, <2>3
<1> HIDE DEF g, leap
<1>3. /\ C!DaysIn(y, 1) = 31 /\ C!DaysIn(y, 2) = 28 + leap /\ C!DaysIn(y, 3) = 31
      /\ C!DaysIn(y, 4) = 30 /\ C!DaysIn(y, 5) = 31 /\ C!DaysIn(y, 6) = 30
      /\ C!DaysIn(y, 7) = 31 /\ C!DaysIn(y, 8) = 31 /\ C!DaysIn(y, 9) = 30
      /\ C!DaysIn(y, 10) = 31 /\ C!DaysIn(y, 11) = 30
  BY <1>1 DEF C!DaysIn
<1>4. \A m \in 1 .. 12 : g[m] = IF m = 1 THEN 0 ELSE g[m - 1] + C!DaysIn(y, m - 1)
  <2> SUFFICES ASSUME NEW m \in 1 .. 12
               PROVE  g[m] = IF m = 1 THEN 0 ELSE g[m - 1] + C!DaysIn(y, m - 1)
    OBVIOUS
  <2>1. m \in {1, 2, 3, 4, 5, 6, 7, 8, 9, 10, 11, 12}
    OBVIOUS
  <2>2. CASE m \in {1, 2, 3, 4}
    BY <1>1, <1>2, <1>3, <2>2
  <2>3. CASE m \in {5, 6, 7, 8}
    BY <1>1, <1>2, <1>3, <2>3
  <2>4. CASE m \in {9, 10, 11, 12}
    BY <1>1, <1>2, <1>3, <2>4
  <2>5. QED
    BY <2>1, <2>2, <2>3, <2>4
<1>5. SumsUp(g, y)
  BY <1>2, <1>4 DEF SumsUp
<1>6. QED
  BY <1>5 DEF g

\* What it sums up is the table.
LEMMA SummedRight ==
    ASSUME NEW y
    PROVE  /\ Summed(y) \in [1 .. 12 -> Nat]
           /\ Summed(y)[1] = 0
           /\ \A m \in 1 .. 11 : Summed(y)[m + 1] = Summed(y)[m] + C!DaysIn(y, m)
           /\ Summed(y)[12] + C!DaysIn(y, 12) = 365 + LeapDay(y)
<1> DEFINE f == Summed(y)
<1>1. f = [m \in 1 .. 12 |-> IF m = 1 THEN 0 ELSE f[m - 1] + C!DaysIn(y, m - 1)]
  BY TableSumsUp DEF SumsUp, Summed
<1> HIDE DEF f
<1>2. /\ f[1] = 0 /\ DOMAIN f = 1 .. 12
      /\ \A m \in 2 .. 12 : f[m] = f[m - 1] + C!DaysIn(y, m - 1)
  BY <1>1
<1>3. /\ f[2] = f[1] + C!DaysIn(y, 1) /\ f[3] = f[2] + C!DaysIn(y, 2)
      /\ f[4] = f[3] + C!DaysIn(y, 3) /\ f[5] = f[4] + C!DaysIn(y, 4)
      /\ f[6] = f[5] + C!DaysIn(y, 5) /\ f[7] = f[6] + C!DaysIn(y, 6)
      /\ f[8] = f[7] + C!DaysIn(y, 7) /\ f[9] = f[8] + C!DaysIn(y, 8)
      /\ f[10] = f[9] + C!DaysIn(y, 9) /\ f[11] = f[10] + C!DaysIn(y, 10)
      /\ f[12] = f[11] + C!DaysIn(y, 11)
  <2>1. \A m \in 1 .. 11 : f[m + 1] = f[m] + C!DaysIn(y, m)
    BY <1>2
  <2>2. QED
    BY <2>1
<1>4. LeapDay(y) \in {0, 1} /\ (C!IsLeap(y) <=> LeapDay(y) = 1)
  BY DEF LeapDay
<1>5. /\ C!DaysIn(y, 1) = 31 /\ C!DaysIn(y, 2) = 28 + LeapDay(y) /\ C!DaysIn(y, 3) = 31
      /\ C!DaysIn(y, 4) = 30 /\ C!DaysIn(y, 5) = 31 /\ C!DaysIn(y, 6) = 30
      /\ C!DaysIn(y, 7) = 31 /\ C!DaysIn(y, 8) = 31 /\ C!DaysIn(y, 9) = 30
      /\ C!DaysIn(y, 10) = 31 /\ C!DaysIn(y, 11) = 30 /\ C!DaysIn(y, 12) = 31
  BY <1>4 DEF C!DaysIn
<1>6. /\ f[1] = 0 /\ f[2] = 31 /\ f[3] = 59 + LeapDay(y) /\ f[4] = 90 + LeapDay(y)
      /\ f[5] = 120 + LeapDay(y) /\ f[6] = 151 + LeapDay(y) /\ f[7] = 181 + LeapDay(y)
      /\ f[8] = 212 + LeapDay(y) /\ f[9] = 243 + LeapDay(y) /\ f[10] = 273 + LeapDay(y)
      /\ f[11] = 304 + LeapDay(y) /\ f[12] = 334 + LeapDay(y)
  BY <1>2, <1>3, <1>4, <1>5
<1>7. \A m \in 1 .. 12 : f[m] \in Nat
  <2> SUFFICES ASSUME NEW m \in 1 .. 12 PROVE f[m] \in Nat
    OBVIOUS
  <2>1. m \in {1, 2, 3, 4, 5, 6, 7, 8, 9, 10, 11, 12}
    OBVIOUS
  <2>2. QED
    BY <1>4, <1>6, <2>1
<1>8. f \in [1 .. 12 -> Nat]
  BY <1>1, <1>7
<1>9. \A m \in 1 .. 11 : f[m + 1] = f[m] + C!DaysIn(y, m)
  BY <1>2
<1>10. QED
  BY <1>4, <1>5, <1>6, <1>8, <1>9 DEF f

\* Days from the start of the year 2000 to the last of the year before.
YearStart(y) ==
    LET z == y - 1
    IN  365 * (y - 2000)
          + ((z \div 4 - z \div 100 + z \div 400) - (1999 \div 4 - 1999 \div 100 + 1999 \div 400))

LEMMA DayNumberIs ==
    ASSUME NEW t \in AnyDate
    PROVE  C!DayNumber(t) = YearStart(t.y) + Summed(t.y)[t.m] + t.d
BY DEF C!DayNumber, YearStart, Summed

LEMMA Quotient ==
    ASSUME NEW k \in {4, 100, 400}, NEW y \in Nat
    PROVE  /\ (y - 1) \div k \in Int /\ y \div k \in Int
           /\ y \div k = ((y - 1) \div k) + (IF y % k = 0 THEN 1 ELSE 0)
<1>1. CASE k = 4
  BY <1>1
<1>2. CASE k = 100
  BY <1>2
<1>3. CASE k = 400
  BY <1>3
<1>4. QED
  BY <1>1, <1>2, <1>3

LEMMA YearsAddUp ==
    ASSUME NEW y \in Nat
    PROVE  /\ YearStart(y) \in Int /\ YearStart(y + 1) \in Int
           /\ YearStart(y + 1) = YearStart(y) + 365 + LeapDay(y)
<1> DEFINE z == y - 1
           a == z \div 4
           b == z \div 100
           c == z \div 400
           k == 1999 \div 4 - 1999 \div 100 + 1999 \div 400
<1>1. /\ a \in Int /\ b \in Int /\ c \in Int /\ k \in Int
      /\ y \div 4 = a + (IF y % 4 = 0 THEN 1 ELSE 0)
      /\ y \div 100 = b + (IF y % 100 = 0 THEN 1 ELSE 0)
      /\ y \div 400 = c + (IF y % 400 = 0 THEN 1 ELSE 0)
  BY Quotient
<1>2. /\ y % 100 = 0 => y % 4 = 0
      /\ y % 400 = 0 => y % 100 = 0
  OBVIOUS
<1>3. LeapDay(y) = (IF y % 4 = 0 THEN 1 ELSE 0) - (IF y % 100 = 0 THEN 1 ELSE 0)
                   + (IF y % 400 = 0 THEN 1 ELSE 0)
  BY <1>2 DEF LeapDay, C!IsLeap
<1>4. YearStart(y) = 365 * (y - 2000) + ((a - b + c) - k)
  BY DEF YearStart
<1>5. /\ y + 1 - 1 = y
      /\ YearStart(y + 1) =
            365 * (y + 1 - 2000) + ((y \div 4 - y \div 100 + y \div 400) - k)
  BY DEF YearStart
<1> HIDE DEF a, b, c, k, z
<1>6. 365 * (y + 1 - 2000) = 365 * (y - 2000) + 365 /\ 365 * (y - 2000) \in Int
  OBVIOUS
<1>7. QED
  BY <1>1, <1>3, <1>4, <1>5, <1>6

\* The days from the first of a month to the first of the next.
LEMMA MonthsAddUp ==
    ASSUME NEW t \in AnyDate, NEW u \in AnyDate, C!Month(u) = C!Month(t) + 1
    PROVE  /\ YearStart(u.y) + Summed(u.y)[u.m] =
                YearStart(t.y) + Summed(t.y)[t.m] + C!DaysIn(t.y, t.m)
           /\ YearStart(u.y) \in Int /\ YearStart(t.y) \in Int
<1>1. t.y \in Nat /\ u.y \in Nat /\ t.m \in 1 .. 12 /\ u.m \in 1 .. 12
  BY DEF AnyDate
<1>2. 12 * u.y + u.m = 12 * t.y + t.m + 1
  BY <1>1 DEF C!Month
<1>3. \/ u.y = t.y /\ t.m \in 1 .. 11 /\ u.m = t.m + 1
      \/ u.y = t.y + 1 /\ t.m = 12 /\ u.m = 1
  BY <1>1, <1>2
<1>4. /\ YearStart(t.y) \in Int /\ YearStart(t.y + 1) \in Int
      /\ YearStart(t.y + 1) = YearStart(t.y) + 365 + LeapDay(t.y)
  BY <1>1, YearsAddUp
<1>5. /\ Summed(t.y) \in [1 .. 12 -> Nat]
      /\ \A m \in 1 .. 11 : Summed(t.y)[m + 1] = Summed(t.y)[m] + C!DaysIn(t.y, m)
      /\ Summed(t.y)[12] + C!DaysIn(t.y, 12) = 365 + LeapDay(t.y)
      /\ Summed(t.y + 1)[1] = 0
  BY SummedRight
<1>6. C!DaysIn(t.y, t.m) \in 28 .. 31 /\ LeapDay(t.y) \in {0, 1}
  BY DaysInRange DEF LeapDay
<1>7. CASE u.y = t.y /\ t.m \in 1 .. 11 /\ u.m = t.m + 1
  <2>1. Summed(t.y)[t.m + 1] = Summed(t.y)[t.m] + C!DaysIn(t.y, t.m) /\ Summed(t.y)[t.m] \in Nat
    BY <1>1, <1>5, <1>7
  <2>2. QED
    BY <1>4, <1>6, <1>7, <2>1
<1>8. CASE u.y = t.y + 1 /\ t.m = 12 /\ u.m = 1
  <2>1. Summed(t.y)[t.m] \in Nat
    BY <1>1, <1>5
  <2>2. QED
    BY <1>4, <1>5, <1>6, <1>8, <2>1
<1>9. QED
  BY <1>3, <1>7, <1>8

LEMMA TwelveDigits ==
    ASSUME NEW a \in Nat, NEW b \in Nat, NEW m \in 1 .. 12, NEW k \in 1 .. 12,
           12 * a + m = 12 * b + k
    PROVE  a = b /\ m = k
<1>1. ~(a < b) /\ ~(b < a)
  OBVIOUS
<1>2. QED
  BY <1>1

\* A date is known by its month and its day.
LEMMA MonthDetermines ==
    ASSUME NEW t \in AnyDate, NEW u \in AnyDate, C!Month(u) = C!Month(t)
    PROVE  u.y = t.y /\ u.m = t.m
<1>1. t.y \in Nat /\ u.y \in Nat /\ t.m \in 1 .. 12 /\ u.m \in 1 .. 12
  BY DEF AnyDate
<1>2. 12 * u.y + u.m = 12 * t.y + t.m
  BY <1>1 DEF C!Month
<1>3. PICK a \in Nat, b \in Nat, m \in 1 .. 12, k \in 1 .. 12 :
         a = u.y /\ b = t.y /\ m = u.m /\ k = t.m
  BY <1>1
<1>4. 12 * a + m = 12 * b + k
  BY <1>2, <1>3
<1>5. a = b /\ m = k
  BY <1>4, TwelveDigits
<1>6. QED
  BY <1>3, <1>5

\* Two dates, by their months and days.
LEMMA DaysBetween ==
    ASSUME NEW t \in AnyDate, NEW u \in AnyDate
    PROVE  /\ C!Month(u) = C!Month(t) => C!DayNumber(u) - C!DayNumber(t) = u.d - t.d
           /\ C!Month(u) = C!Month(t) + 1 =>
                 C!DayNumber(u) - C!DayNumber(t) = u.d - t.d + C!DaysIn(t.y, t.m)
<1>1. /\ C!DayNumber(t) = YearStart(t.y) + Summed(t.y)[t.m] + t.d
      /\ C!DayNumber(u) = YearStart(u.y) + Summed(u.y)[u.m] + u.d
  BY DayNumberIs
<1>2. /\ YearStart(t.y) \in Int /\ YearStart(u.y) \in Int
      /\ Summed(t.y)[t.m] \in Int /\ Summed(u.y)[u.m] \in Int
      /\ t.d \in Int /\ u.d \in Int
  <2>1. /\ t.y \in Nat /\ t.m \in 1 .. 12 /\ t.d \in 1 .. 31
        /\ u.y \in Nat /\ u.m \in 1 .. 12 /\ u.d \in 1 .. 31
    BY DEF AnyDate
  <2>2. Summed(t.y) \in [1 .. 12 -> Nat] /\ Summed(u.y) \in [1 .. 12 -> Nat]
    BY <2>1, SummedRight
  <2>3. Summed(t.y)[t.m] \in Nat /\ Summed(u.y)[u.m] \in Nat
    BY <2>1, <2>2
  <2>4. YearStart(t.y) \in Int /\ YearStart(u.y) \in Int
    BY <2>1, YearsAddUp
  <2>5. QED
    BY <2>1, <2>3, <2>4
<1>3. C!DaysIn(t.y, t.m) \in Int
  BY DaysInRange
<1>4. CASE C!Month(u) = C!Month(t)
  <2>1. u.y = t.y /\ u.m = t.m
    BY <1>4, MonthDetermines
  <2>2. C!Month(t) \in Int
    BY DEF C!Month, AnyDate
  <2>3. QED
    BY <1>1, <1>2, <1>4, <2>1, <2>2
<1>5. CASE C!Month(u) = C!Month(t) + 1
  <2>1. YearStart(u.y) + Summed(u.y)[u.m] =
            YearStart(t.y) + Summed(t.y)[t.m] + C!DaysIn(t.y, t.m)
    BY <1>5, MonthsAddUp
  <2>2. C!Month(t) \in Int
    BY DEF C!Month, AnyDate
  <2>3. QED
    BY <1>1, <1>2, <1>3, <1>5, <2>1, <2>2
<1>6. QED
  BY <1>4, <1>5

LEMMA DayNumberIsInt == \A t \in AnyDate : C!DayNumber(t) \in Int
<1> SUFFICES ASSUME NEW t \in AnyDate PROVE C!DayNumber(t) \in Int
  OBVIOUS
<1>1. t.y \in Nat /\ t.m \in 1 .. 12 /\ t.d \in 1 .. 31
  BY DEF AnyDate
<1>2. YearStart(t.y) \in Int /\ Summed(t.y)[t.m] \in Int /\ t.d \in Int
  <2>1. Summed(t.y) \in [1 .. 12 -> Nat]
    BY <1>1, SummedRight
  <2>2. Summed(t.y)[t.m] \in Nat
    BY <1>1, <2>1
  <2>3. QED
    BY <1>1, <2>2, YearsAddUp
<1>3. QED
  BY <1>2, DayNumberIs

CalendarTypes ==
    /\ first \in C!Dates /\ IsDate(current) /\ IsDate(maturity)
    /\ frequency \in {"weekly", "monthly"}
    /\ runs \in 0 .. MaxRuns /\ tenure \in Tenures

\* A monthly transfer is on the day it began on until it rolls over, and early in
\* the month from then on.
MonthInv ==
    frequency = "monthly" =>
        LET months == C!Month(current) - C!Month(first)
        IN  \/ months = runs /\ current.d = first.d
            \/ months = runs + 1 /\ current.d <= 3

CalendarInv == CalendarTypes /\ MonthInv /\ C!MaturityIsNotEarly

LEMMA MonthIsNat == \A t \in AnyDate : C!Month(t) \in Nat /\ t.d \in 1 .. 31
BY DEF AnyDate, C!Month

LEMMA CalendarInit == C!Init => CalendarInv
<1> SUFFICES ASSUME C!Init PROVE CalendarInv
  OBVIOUS
<1>1. /\ first \in C!Dates /\ current = first /\ runs = 0 /\ tenure \in Tenures
      /\ frequency \in {"weekly", "monthly"} /\ maturity = C!Roll(C!Month(first) + tenure, first.d)
  BY DEF C!Init, C!MaturityDate, C!SetMonth
<1>2. IsDate(first) /\ C!Month(first) \in Nat /\ first.d \in 1 .. 31 /\ tenure \in Nat
  BY <1>1, DatesAreDates, MonthIsNat, CalendarConstants DEF IsDate
<1> DEFINE n == C!Month(first) + tenure
           days == C!DaysIn(C!FirstOf(n).y, C!FirstOf(n).m)
<1>3. n \in Nat /\ first.d \in 1 .. 38 /\ days \in 28 .. 31
  BY <1>2, DaysInRange
<1>4. /\ IsDate(maturity)
      /\ first.d <= days => C!Month(maturity) = n /\ maturity.d = first.d
      /\ first.d > days => C!Month(maturity) = n + 1 /\ maturity.d = first.d - days
  BY <1>1, <1>3, RollsOver
<1>5. C!MaturityIsNotEarly
  <2> HIDE DEF days
  <2>1. CASE first.d <= days
    BY <1>2, <1>4, <2>1 DEF C!MaturityIsNotEarly
  <2>2. CASE first.d > days
    BY <1>2, <1>3, <1>4, <2>2 DEF C!MaturityIsNotEarly
  <2>3. QED
    BY <1>2, <1>3, <2>1, <2>2
<1>6. MonthInv
  BY <1>1, <1>2 DEF MonthInv
<1>7. 0 \in 0 .. MaxRuns
  BY CalendarConstants
<1>8. QED
  BY <1>1, <1>2, <1>4, <1>5, <1>6, <1>7 DEF CalendarInv, CalendarTypes

\* One run on from a date.
LEMMA NextRunFacts ==
    ASSUME CalendarInv, C!Next
    PROVE  /\ IsDate(current')
           /\ frequency = "weekly" => C!DayNumber(current') - C!DayNumber(current) = 7
           /\ frequency = "monthly" =>
                 /\ C!DayNumber(current') - C!DayNumber(current)
                        = C!DaysIn(current.y, current.m)
                 /\ \/ /\ C!Month(current') = C!Month(current) + 1
                       /\ current'.d = current.d
                    \/ /\ C!Month(current') = C!Month(current) + 2
                       /\ current'.d <= 3 /\ current.d > 28
<1> DEFINE n == C!Month(current)
           days == C!DaysIn(current.y, current.m)
<1>1. /\ IsDate(current) /\ current \in AnyDate /\ n \in Nat /\ current.d \in 1 .. 31
      /\ current.d <= days
  BY MonthIsNat DEF CalendarInv, CalendarTypes, IsDate
<1>2. days \in 28 .. 31
  BY DaysInRange
<1>3. /\ C!FirstOf(n) \in AnyDate /\ C!FirstOf(n).y = current.y /\ C!FirstOf(n).m = current.m
  BY <1>1, FirstOfMonth, MonthDetermines
<1>4. frequency \in {"weekly", "monthly"}
  BY DEF CalendarInv, CalendarTypes
<1> HIDE DEF n, days
<1>5. CASE frequency = "weekly"
  <2>1. current' = C!Roll(n, current.d + 7)
    BY <1>5 DEF C!Next, C!RecordRun, C!ComputeNextRun, C!SetDate, n
  <2>2. current.d + 7 \in 1 .. 38 /\ current.d + 7 \in Int
    BY <1>1
  <2>3. /\ IsDate(current')
        /\ current.d + 7 <= days => C!Month(current') = n /\ current'.d = current.d + 7
        /\ current.d + 7 > days => C!Month(current') = n + 1 /\ current'.d = current.d + 7 - days
    <3>1. C!DaysIn(C!FirstOf(n).y, C!FirstOf(n).m) = days
      BY <1>3 DEF days
    <3>2. PICK d \in 1 .. 38 : d = current.d + 7
      BY <2>2
    <3>3. /\ IsDate(C!Roll(n, d))
          /\ d <= days => C!Month(C!Roll(n, d)) = n /\ C!Roll(n, d).d = d
          /\ d > days => C!Month(C!Roll(n, d)) = n + 1 /\ C!Roll(n, d).d = d - days
      BY <1>1, <3>1, RollsOver
    <3>4. current' = C!Roll(n, d)
      BY <2>1, <3>2
    <3>5. QED
      BY <1>1, <1>2, <2>2, <3>2, <3>3, <3>4
  <2>4. current' \in AnyDate
    BY <2>3 DEF IsDate
  <2>5. /\ C!Month(current') = n => C!DayNumber(current') - C!DayNumber(current) = current'.d - current.d
        /\ C!Month(current') = n + 1 =>
              C!DayNumber(current') - C!DayNumber(current) = current'.d - current.d + days
    BY <1>1, <2>4, DaysBetween DEF n, days
  <2>6. CASE current.d + 7 <= days
    BY <1>1, <1>2, <1>5, <2>3, <2>5, <2>6
  <2>7. CASE current.d + 7 > days
    BY <1>1, <1>2, <1>5, <2>3, <2>5, <2>7
  <2>8. QED
    BY <1>1, <1>2, <2>6, <2>7
<1>6. CASE frequency = "monthly"
  <2> DEFINE start == C!FirstOf(n + 1)
             later == C!DaysIn(start.y, start.m)
  <2>1. current' = C!Roll(n + 1, current.d)
    BY <1>6 DEF C!Next, C!RecordRun, C!ComputeNextRun, C!SetMonth, n
  <2>2. /\ n + 1 \in Nat /\ start \in AnyDate /\ C!Month(start) = n + 1
        /\ later \in 28 .. 31 /\ current.d \in 1 .. 38
    BY <1>1, FirstOfMonth, DaysInRange
  <2>3. /\ IsDate(current')
        /\ current.d <= later => C!Month(current') = n + 1 /\ current'.d = current.d
        /\ current.d > later => C!Month(current') = n + 2 /\ current'.d = current.d - later
    <3>1. n + 1 + 1 = n + 2
      BY <1>1
    <3>2. QED
      BY <2>1, <2>2, <3>1, RollsOver
  <2>4. current' \in AnyDate
    BY <2>3 DEF IsDate
  <2> HIDE DEF later, start
  <2>5. C!DayNumber(start) - C!DayNumber(current) = start.d - current.d + days
    BY <1>1, <2>2, DaysBetween DEF n, days
  <2>6. /\ C!Month(current') = n + 1 =>
              C!DayNumber(current') - C!DayNumber(start) = current'.d - start.d
        /\ C!Month(current') = n + 2 =>
              C!DayNumber(current') - C!DayNumber(start) = current'.d - start.d + later
    <3>1. n + 1 + 1 = n + 2
      BY <1>1
    <3>2. QED
      BY <2>2, <2>4, <3>1, DaysBetween DEF later
  <2>7. /\ C!DayNumber(current) \in Int /\ C!DayNumber(start) \in Int
        /\ C!DayNumber(current') \in Int /\ start.d \in Int /\ current'.d \in Int
    BY <1>1, <2>2, <2>4, DayNumberIsInt, MonthIsNat
  <2>8. CASE current.d <= later
    BY <1>1, <1>2, <1>6, <2>2, <2>3, <2>5, <2>6, <2>7, <2>8 DEF n, days
  <2>9. CASE current.d > later
    <3>1. current'.d <= 3 /\ current.d > 28
      BY <1>1, <2>2, <2>3, <2>9
    <3>2. QED
      BY <1>1, <1>2, <1>6, <2>2, <2>3, <2>5, <2>6, <2>7, <2>9, <3>1 DEF n, days
  <2>10. QED
    BY <1>1, <2>2, <2>8, <2>9
<1>7. QED
  BY <1>4, <1>5, <1>6

LEMMA CalendarStep ==
    ASSUME CalendarInv, C!Next
    PROVE  CalendarInv' /\ C!StepIsRightInDays
<1>1. /\ runs < MaxRuns /\ runs' = runs + 1
      /\ UNCHANGED <<first, frequency, tenure, maturity>>
  BY DEF C!Next, C!RecordRun
<1>2. frequency \in {"weekly", "monthly"} /\ runs \in 0 .. MaxRuns
  BY DEF CalendarInv, CalendarTypes
<1>3. C!StepIsRightInDays
  BY <1>2, NextRunFacts DEF C!StepIsRightInDays
<1>4. CalendarTypes'
  <2>1. runs' \in 0 .. MaxRuns
    BY <1>1, <1>2, CalendarConstants
  <2>2. IsDate(current')
    BY NextRunFacts
  <2>3. QED
    BY <1>1, <2>1, <2>2 DEF CalendarInv, CalendarTypes, IsDate
<1>5. MonthInv'
  <2> SUFFICES ASSUME frequency = "monthly"
               PROVE  \/ /\ C!Month(current') - C!Month(first) = runs + 1
                         /\ current'.d = first.d
                      \/ /\ C!Month(current') - C!Month(first) = runs + 1 + 1
                         /\ current'.d <= 3
    BY <1>1 DEF MonthInv
  <2>1. /\ C!Month(current) \in Int /\ C!Month(current') \in Int /\ C!Month(first) \in Int
        /\ current.d \in Int /\ current'.d \in Int /\ first.d \in Int
    BY NextRunFacts, DatesAreDates, MonthIsNat DEF CalendarInv, CalendarTypes, IsDate
  <2>2. \/ C!Month(current') = C!Month(current) + 1 /\ current'.d = current.d
        \/ C!Month(current') = C!Month(current) + 2 /\ current'.d <= 3 /\ current.d > 28
    BY NextRunFacts
  <2>3. \/ C!Month(current) - C!Month(first) = runs /\ current.d = first.d
        \/ C!Month(current) - C!Month(first) = runs + 1 /\ current.d <= 3
    BY DEF CalendarInv, MonthInv
  <2>4. QED
    BY <1>2, <2>1, <2>2, <2>3
<1>6. C!MaturityIsNotEarly'
  BY <1>1 DEF CalendarInv, C!MaturityIsNotEarly
<1>7. QED
  BY <1>3, <1>4, <1>5, <1>6 DEF CalendarInv

LEMMA CalendarStill ==
    ASSUME CalendarInv, UNCHANGED C!vars
    PROVE  CalendarInv'
BY DEF C!vars, CalendarInv, CalendarTypes, MonthInv, C!MaturityIsNotEarly, IsDate

LEMMA CalendarTyped ==
    CalendarInv => C!TypeOK /\ C!SkipsAtMostOneMonth /\ C!MaturityIsNotEarly
<1> SUFFICES ASSUME CalendarInv
             PROVE  C!TypeOK /\ C!SkipsAtMostOneMonth
  BY DEF CalendarInv
<1>1. \A t : IsDate(t) => C!IsDate(t)
  <2> SUFFICES ASSUME NEW t, IsDate(t) PROVE C!IsDate(t)
    OBVIOUS
  <2>1. t.m \in 1 .. 12 /\ t.d \in 1 .. 31 /\ t.d <= C!DaysIn(t.y, t.m)
        /\ C!DaysIn(t.y, t.m) \in 28 .. 31
    BY DaysInRange DEF IsDate, AnyDate
  <2>2. QED
    BY <2>1 DEF C!IsDate
<1>2. C!TypeOK
  BY <1>1 DEF CalendarInv, CalendarTypes, C!TypeOK
<1>3. C!SkipsAtMostOneMonth
  <2>1. runs \in Nat
    BY CalendarConstants DEF CalendarInv, CalendarTypes
  <2>2. QED
    BY <2>1 DEF CalendarInv, MonthInv, C!SkipsAtMostOneMonth
<1>4. QED
  BY <1>2, <1>3

-----------------------------------------------------------------------------
(* Onboarding.                                                             *)

\* Where a worker is, among the e-mails it is for.
PlaceInv(w) ==
    /\ pc[w] # "start" => at[w] \in EmailsOf[w]
    /\ left[w] \subseteq EmailsOf[w] /\ at[w] \notin left[w]
    /\ at[w] # None => at[w] \in EmailsOf[w]
    /\ pc[w] \in {"find", "insert"} => w \notin Openings
    /\ pc[w] \in {"find", "insert", "account"} => attempts[w] < MaxAttempts
    /\ pc[w] = "account" /\ w \notin Openings => users[at[w]] = w
    /\ pc[w] = "fund" => w \in Seeds /\ accounts[at[w]][w] = 1

\* What a worker has written for an e-mail.
WrittenInv(w, e) ==
    /\ accounts[e][w] \in {0, 1}
    /\ e \in left[w] => users[e] # w /\ accounts[e][w] = 0
    /\ at[w] = e /\ pc[w] \in {"find", "insert"} => users[e] # w
    /\ at[w] = e /\ pc[w] \in {"find", "insert", "account"} => accounts[e][w] = 0
    /\ users[e] = w /\ accounts[e][w] = 0 => at[w] = e /\ pc[w] \in {"account", "end"}
    /\ users[e] = w => w \notin Openings

\* A demo user without an opening balance is on the way to it, or was disturbed.
FundedInv(w, e) ==
    w \in Seeds /\ users[e] = w /\ e \notin funded =>
        disturbances > 0 \/ (at[w] = e /\ pc[w] \in {"account", "fund"})

\* What a request has told, when it is over.
ToldInv(w) ==
    /\ result[w] # None => pc[w] = "end"
    /\ w \in Registrations =>
          /\ result[w] = "done"  => users[at[w]] = w /\ accounts[at[w]][w] = 1
          /\ result[w] = "taken" => users[at[w]] \notin {None, w}

WorkerInv(w) ==
    /\ PlaceInv(w) /\ ToldInv(w)
    /\ \A e \in Emails : WrittenInv(w, e) /\ FundedInv(w, e)

\* The workers that ended between a user and its account.
Broken ==
    {w \in O!Workers : /\ pc[w] = "end" /\ at[w] # None
                       /\ users[at[w]] = w /\ accounts[at[w]][w] = 0}

BrokenInv == IsFiniteSet(Broken) /\ Cardinality(Broken) <= disturbances

OnboardingInv ==
    /\ O!TypeOK
    /\ \A w \in O!Workers : WorkerInv(w)
    /\ BrokenInv

LEMMA OnboardingConstants ==
    /\ EmailsOf \in [O!Workers -> SUBSET Emails]
    /\ Registrations \cap Seeds = {} /\ Registrations \cap Openings = {}
    /\ Seeds \cap Openings = {}
    /\ \A w \in O!Workers : w # None
    /\ \A e \in Emails : e # None
    /\ None \notin {"done", "taken", "error"}
    /\ \A w \in O!Workers : w \in Registrations \/ w \in Seeds \/ w \in Openings
    /\ MaxAttempts \in Nat \ {0} /\ MaxDisturbances \in Nat
    /\ \A w \in Registrations : w \in O!Workers /\ \A x, y \in EmailsOf[w] : x = y
BY RecordsAssumption DEF O!OnboardingAssumption, O!Workers

LEMMA OnboardingInit == O!Init => OnboardingInv
<1> SUFFICES ASSUME O!Init PROVE OnboardingInv
  OBVIOUS
<1> USE OnboardingConstants DEF O!Init
<1>1. O!TypeOK
  BY DEF O!TypeOK
<1>2. \A w \in O!Workers : WorkerInv(w)
  BY DEF WorkerInv, PlaceInv, ToldInv, WrittenInv, FundedInv
<1>3. Broken = {}
  BY DEF Broken
<1>4. QED
  BY <1>1, <1>2, <1>3, FS_EmptySet DEF OnboardingInv, BrokenInv

\* What a step of v leaves alone.
Frame(v) ==
    /\ v \in O!Workers
    /\ \A w \in O!Workers \ {v} :
          /\ pc'[w] = pc[w] /\ at'[w] = at[w] /\ left'[w] = left[w]
          /\ attempts'[w] = attempts[w] /\ result'[w] = result[w]
          /\ \A e \in Emails : accounts'[e][w] = accounts[e][w]
    /\ \A e \in Emails : users'[e] = users[e] \/ (users[e] = None /\ users'[e] = v)
    /\ funded \subseteq funded'
    /\ disturbances' \in Nat /\ disturbances <= disturbances'

Steps(v) ==
    \/ O!Start(v) \/ O!Taken(v) \/ O!Free(v)
    \/ O!InsertUser(v) \/ O!InsertUserViolates(v)
    \/ O!InsertAccount(v) \/ O!NumberCollides(v) \/ O!Fund(v) \/ O!Fails(v)

Stops == {"start", "find", "insert", "account", "fund", "end"}

Answers == {None, "done", "taken", "error"}

LEMMA GotoTyped ==
    ASSUME O!TypeOK, NEW v \in O!Workers, NEW here, NEW there \in Stops, O!Goto(v, here, there)
    PROVE  pc' \in [O!Workers -> Stops]
BY DEF O!TypeOK, O!Goto, Stops

LEMMA TellTyped ==
    ASSUME O!TypeOK, NEW v \in O!Workers, NEW answer \in Answers, O!Tell(v, answer)
    PROVE  result' \in [O!Workers -> Answers]
BY DEF O!TypeOK, O!Tell, Answers

LEMMA ContinueTyped ==
    ASSUME O!TypeOK, NEW v \in O!Workers, NEW here, NEW answer \in Answers,
           O!Continue(v, here, answer)
    PROVE  pc' \in [O!Workers -> Stops] /\ result' \in [O!Workers -> Answers]
<1>1. "start" \in Stops /\ "end" \in Stops /\ result \in [O!Workers -> Answers]
  BY DEF O!TypeOK, Stops, Answers
<1>2. CASE left[v] = {}
  BY <1>1, <1>2, GotoTyped, TellTyped DEF O!Continue
<1>3. CASE left[v] # {}
  BY <1>1, <1>3, GotoTyped DEF O!Continue
<1>4. QED
  BY <1>2, <1>3

LEMMA AccountAdded ==
    ASSUME O!TypeOK, NEW v \in O!Workers, O!AddAccount(v)
    PROVE  accounts' \in [Emails -> [O!Workers -> Nat]]
<1>1. accounts \in [Emails -> [O!Workers -> Nat]]
  BY DEF O!TypeOK
<1>2. accounts' = [e \in Emails |-> IF e = at[v] THEN [accounts[e] EXCEPT ![v] = @ + 1]
                                                ELSE accounts[e]]
  BY <1>1 DEF O!AddAccount
<1>3. ASSUME NEW e \in Emails
      PROVE  [accounts[e] EXCEPT ![v] = @ + 1] \in [O!Workers -> Nat]
  <2>1. accounts[e] \in [O!Workers -> Nat]
    BY <1>1
  <2>2. QED
    BY <2>1
<1>4. QED
  BY <1>1, <1>2, <1>3

LEMMA OnboardingFrame ==
    ASSUME OnboardingInv, NEW v \in O!Workers, Steps(v)
    PROVE  O!TypeOK' /\ Frame(v)
<1>1. PlaceInv(v) /\ O!TypeOK
  BY DEF OnboardingInv, WorkerInv
<1>2. O!TypeOK'
  <2> USE <1>1, OnboardingConstants DEF O!TypeOK
  <2>1. CASE O!Start(v)
    BY <2>1 DEF O!Start, O!Goto
  <2>a. /\ \A x \in {"start", "find", "insert", "account", "fund", "end"} : x \in Stops
        /\ \A x \in {"done", "taken", "error"} : x \in Answers
        /\ result \in [O!Workers -> Answers]
    BY DEF Stops, Answers
  <2>b. ASSUME users' \in [Emails -> O!Workers \cup {None}],
               accounts' \in [Emails -> [O!Workers -> Nat]],
               funded' \subseteq Emails,
               pc' \in [O!Workers -> Stops], result' \in [O!Workers -> Answers],
               left' \in [O!Workers -> SUBSET Emails],
               at' \in [O!Workers -> Emails \cup {None}],
               attempts' \in [O!Workers -> 0 .. MaxAttempts],
               disturbances' \in 0 .. MaxDisturbances
        PROVE  O!TypeOK'
    BY <2>b DEF Stops, Answers
  <2>2. CASE O!Taken(v)
    <3>1. pc' \in [O!Workers -> Stops] /\ result' \in [O!Workers -> Answers]
      <4>1. (IF v \in Seeds THEN "done" ELSE "taken") \in Answers
        BY <2>a
      <4>2. QED
        BY <2>2, <4>1, ContinueTyped DEF O!Taken
    <3>2. QED
      BY <2>2, <2>b, <3>1 DEF O!Taken
  <2>3. CASE O!Free(v)
    <3>1. pc' \in [O!Workers -> Stops]
      BY <2>3, <2>a, GotoTyped DEF O!Free
    <3>2. QED
      BY <2>3, <2>a, <2>b, <3>1 DEF O!Free
  <2>4. CASE O!InsertUser(v)
    <3>1. pc' \in [O!Workers -> Stops]
      BY <2>4, <2>a, GotoTyped DEF O!InsertUser, O!AfterUser
    <3>2. QED
      BY <2>4, <2>a, <2>b, <3>1 DEF O!InsertUser
  <2>5. CASE O!InsertUserViolates(v)
    <3>1. pc' \in [O!Workers -> Stops] /\ result' \in [O!Workers -> Answers]
      BY <2>5, <2>a, GotoTyped, TellTyped DEF O!InsertUserViolates
    <3>2. QED
      BY <2>5, <2>b, <3>1 DEF O!InsertUserViolates
  <2>6. CASE O!InsertAccount(v)
    <3>1. pc' \in [O!Workers -> Stops] /\ result' \in [O!Workers -> Answers]
      <4>1. CASE O!Goto(v, "account", "fund") /\ UNCHANGED result
        BY <2>a, <4>1, GotoTyped
      <4>2. CASE O!Continue(v, "account", "done")
        BY <2>a, <4>2, ContinueTyped
      <4>3. QED
        BY <2>6, <4>1, <4>2 DEF O!InsertAccount
    <3>2. accounts' \in [Emails -> [O!Workers -> Nat]]
      BY <2>6, AccountAdded DEF O!InsertAccount
    <3>3. QED
      BY <2>6, <2>b, <3>1, <3>2 DEF O!InsertAccount
  <2>7. CASE O!NumberCollides(v)
    <3>1. pc' \in [O!Workers -> Stops] /\ result' \in [O!Workers -> Answers]
      <4>1. CASE O!Goto(v, "account", "account") /\ UNCHANGED result
        BY <2>a, <4>1, GotoTyped
      <4>2. CASE O!Goto(v, "account", "end") /\ O!Tell(v, "error")
        BY <2>a, <4>2, GotoTyped, TellTyped
      <4>3. QED
        BY <2>7, <4>1, <4>2 DEF O!NumberCollides
    <3>2. pc[v] = "account"
      BY <2>7 DEF O!NumberCollides, O!Goto
    <3>3. attempts' \in [O!Workers -> 0 .. MaxAttempts]
      BY <2>7, <3>2 DEF O!NumberCollides, PlaceInv
    <3>4. QED
      BY <2>7, <2>b, <3>1, <3>3 DEF O!NumberCollides, O!Disturb
  <2>8. CASE O!Fund(v)
    <3>1. pc' \in [O!Workers -> Stops] /\ result' \in [O!Workers -> Answers]
      BY <2>8, <2>a, ContinueTyped DEF O!Fund
    <3>2. funded' \subseteq Emails
      BY <2>8 DEF O!Fund, PlaceInv
    <3>3. QED
      BY <2>8, <2>b, <3>1, <3>2 DEF O!Fund
  <2>9. CASE O!Fails(v)
    <3>1. pc' \in [O!Workers -> Stops] /\ result' \in [O!Workers -> Answers]
      BY <2>9, <2>a, GotoTyped, TellTyped DEF O!Fails, O!AfterError
    <3>2. accounts' \in [Emails -> [O!Workers -> Nat]] /\ users' \in [Emails -> O!Workers \cup {None}]
      <4>1. O!AddAccount(v) => accounts' \in [Emails -> [O!Workers -> Nat]]
        BY AccountAdded
      <4>2. QED
        BY <2>9, <4>1 DEF O!Fails
    <3>3. QED
      BY <2>9, <2>b, <3>1, <3>2 DEF O!Fails, O!Disturb
  <2>10. QED
    BY <2>1, <2>2, <2>3, <2>4, <2>5, <2>6, <2>7, <2>8, <2>9 DEF Steps
<1>3. \A w \in O!Workers \ {v} :
         /\ pc'[w] = pc[w] /\ at'[w] = at[w] /\ left'[w] = left[w]
         /\ attempts'[w] = attempts[w] /\ result'[w] = result[w]
  <2> USE <1>1 DEF O!TypeOK, O!Goto
  <2>1. CASE O!Start(v)
    BY <2>1 DEF O!Start
  <2>2. CASE O!Taken(v) \/ O!InsertAccount(v) \/ O!Fund(v)
    BY <2>2 DEF O!Taken, O!InsertAccount, O!Fund, O!Continue, O!Tell
  <2>3. CASE O!Free(v) \/ O!InsertUser(v) \/ O!InsertUserViolates(v)
    BY <2>3 DEF O!Free, O!InsertUser, O!InsertUserViolates, O!Tell
  <2>4. CASE O!NumberCollides(v) \/ O!Fails(v)
    BY <2>4 DEF O!NumberCollides, O!Fails, O!Tell
  <2>5. QED
    BY <2>1, <2>2, <2>3, <2>4 DEF Steps
<1>4. \A w \in O!Workers \ {v}, e \in Emails : accounts'[e][w] = accounts[e][w]
  <2> USE <1>1 DEF O!TypeOK
  <2>1. CASE O!InsertAccount(v)
    BY <2>1 DEF O!InsertAccount, O!AddAccount
  <2>2. CASE O!Fails(v)
    BY <2>2 DEF O!Fails, O!AddAccount
  <2>3. QED
    BY <2>1, <2>2 DEF Steps, O!Start, O!Taken, O!Free, O!InsertUser, O!InsertUserViolates,
                      O!NumberCollides, O!Fund
<1>5. \A e \in Emails : users'[e] = users[e] \/ (users[e] = None /\ users'[e] = v)
  <2> USE <1>1 DEF O!TypeOK
  <2>1. CASE O!InsertUser(v) \/ O!Fails(v)
    BY <2>1 DEF O!InsertUser, O!Fails, O!IsInserted
  <2>2. QED
    BY <2>1 DEF Steps, O!Start, O!Taken, O!Free, O!InsertAccount, O!InsertUserViolates,
                O!NumberCollides, O!Fund
<1>6. funded \subseteq funded' /\ disturbances' \in Nat /\ disturbances <= disturbances'
  BY <1>1 DEF O!TypeOK, Steps, O!Start, O!Taken, O!Free, O!InsertUser, O!InsertAccount,
              O!InsertUserViolates, O!NumberCollides, O!Fund, O!Fails, O!Disturb
<1>7. QED
  BY <1>2, <1>3, <1>4, <1>5, <1>6 DEF Frame

LEMMA OnboardingOthers ==
    ASSUME OnboardingInv, NEW v \in O!Workers, Frame(v), NEW w \in O!Workers \ {v}
    PROVE  WorkerInv(w)' /\ (w \in Broken' => w \in Broken)
<1> USE OnboardingConstants DEF OnboardingInv, Frame
<1>1. WorkerInv(w)
  OBVIOUS
<1>2. /\ at[w] \in Emails \cup {None} /\ left[w] \subseteq Emails
      /\ EmailsOf[w] \subseteq Emails /\ w # None /\ v # w
  BY DEF O!TypeOK
<1>3. PlaceInv(w)'
  BY <1>1, <1>2 DEF WorkerInv, PlaceInv
<1>4. ToldInv(w)'
  BY <1>1, <1>2 DEF WorkerInv, PlaceInv, ToldInv
<1>5. \A e \in Emails : WrittenInv(w, e)'
  BY <1>1, <1>2 DEF WorkerInv, WrittenInv
<1>6. \A e \in Emails : FundedInv(w, e)'
  <2>1. disturbances \in Nat
    BY DEF O!TypeOK
  <2>2. QED
    BY <1>1, <1>2, <2>1 DEF WorkerInv, FundedInv
<1>7. w \in Broken' => w \in Broken
  BY <1>1, <1>2 DEF Broken
<1>8. QED
  BY <1>3, <1>4, <1>5, <1>6, <1>7 DEF WorkerInv

LEMMA OnboardingOwn ==
    ASSUME OnboardingInv, NEW v \in O!Workers, Steps(v)
    PROVE  WorkerInv(v)' /\ (v \in Broken' => v \in Broken \/ disturbances' = disturbances + 1)
<1> DEFINE Own0 == /\ PlaceInv(v)' /\ ToldInv(v)'
                   /\ \A e \in Emails : WrittenInv(v, e)' /\ FundedInv(v, e)'
                   /\ v \in Broken' => v \in Broken \/ disturbances' = disturbances + 1
<1> SUFFICES Own0
  BY DEF WorkerInv
<1>1. /\ PlaceInv(v) /\ ToldInv(v) /\ \A e \in Emails : WrittenInv(v, e) /\ FundedInv(v, e)
  BY DEF OnboardingInv, WorkerInv
<1> USE OnboardingConstants, <1>1
    DEF OnboardingInv, O!TypeOK, PlaceInv, ToldInv, WrittenInv, FundedInv, Broken
<1>2. CASE O!Start(v)
  BY <1>2 DEF O!Start, O!Goto
<1>3. CASE O!Taken(v)
  BY <1>3 DEF O!Taken, O!Goto, O!Continue, O!Tell
<1>4. CASE O!Free(v)
  BY <1>4 DEF O!Free, O!Goto
<1>5. CASE O!InsertUser(v)
  BY <1>5 DEF O!InsertUser, O!Goto, O!AfterUser, O!IsInserted
<1>6. CASE O!InsertUserViolates(v)
  BY <1>6 DEF O!InsertUserViolates, O!Goto, O!Tell
<1>7. CASE O!InsertAccount(v)
  BY <1>7 DEF O!InsertAccount, O!Goto, O!Continue, O!Tell, O!AddAccount, O!IsFundedLater
<1>8. CASE O!NumberCollides(v)
  BY <1>8 DEF O!NumberCollides, O!Goto, O!Tell, O!Disturb, O!TriesAgain
<1>9. CASE O!Fund(v)
  BY <1>9 DEF O!Fund, O!Goto, O!Continue, O!Tell
<1>10. CASE O!Fails(v)
  BY <1>10 DEF O!Fails, O!Goto, O!Tell, O!Disturb, O!AddAccount, O!IsInserted, O!AfterError
<1>11. QED
  BY <1>2, <1>3, <1>4, <1>5, <1>6, <1>7, <1>8, <1>9, <1>10 DEF Steps

LEMMA OnboardingStep == OnboardingInv /\ O!Next => OnboardingInv'
<1> SUFFICES ASSUME OnboardingInv, NEW v \in O!Workers, Steps(v) PROVE OnboardingInv'
  BY DEF O!Next, Steps
<1>1. O!TypeOK' /\ Frame(v)
  BY OnboardingFrame
<1>2. \A w \in O!Workers : WorkerInv(w)'
  BY <1>1, OnboardingOthers, OnboardingOwn
<1>3. BrokenInv'
  <2>1. IsFiniteSet(Broken) /\ Cardinality(Broken) <= disturbances /\ disturbances \in Nat
    BY DEF OnboardingInv, BrokenInv, O!TypeOK
  <2>2. disturbances' \in Nat /\ disturbances <= disturbances'
    BY <1>1 DEF Frame
  <2>3. Broken' \subseteq O!Workers
    BY DEF Broken
  <2>4. CASE Broken' \subseteq Broken
    <3>1. IsFiniteSet(Broken') /\ Cardinality(Broken') <= Cardinality(Broken)
      BY <2>1, <2>4, FS_Subset
    <3>2. Cardinality(Broken) \in Nat /\ Cardinality(Broken') \in Nat
      BY <2>1, <3>1, FS_CardinalityType
    <3>3. QED
      BY <2>1, <2>2, <3>1, <3>2 DEF BrokenInv
  <2>5. CASE ~(Broken' \subseteq Broken)
    <3>1. Broken' \subseteq Broken \cup {v} /\ disturbances' = disturbances + 1
      BY <1>1, <2>3, <2>5, OnboardingOthers, OnboardingOwn
    <3>2. /\ IsFiniteSet(Broken \cup {v}) /\ Cardinality(Broken) \in Nat
          /\ Cardinality(Broken \cup {v}) <= Cardinality(Broken) + 1
      BY <2>1, OneMore
    <3>3. IsFiniteSet(Broken') /\ Cardinality(Broken') <= Cardinality(Broken \cup {v})
      BY <3>1, <3>2, FS_Subset
    <3>4. Cardinality(Broken \cup {v}) \in Nat /\ Cardinality(Broken') \in Nat
      BY <3>2, <3>3, FS_CardinalityType
    <3>5. QED
      BY <2>1, <3>1, <3>2, <3>3, <3>4 DEF BrokenInv
  <2>6. QED
    BY <2>4, <2>5
<1>4. QED
  BY <1>1, <1>2, <1>3 DEF OnboardingInv

LEMMA OnboardingStill ==
    ASSUME OnboardingInv, UNCHANGED O!vars
    PROVE  OnboardingInv'
<1> USE DEF O!vars
<1>1. O!TypeOK'
  BY DEF OnboardingInv, O!TypeOK
<1>2. \A w \in O!Workers : WorkerInv(w)'
  BY DEF OnboardingInv, WorkerInv, PlaceInv, ToldInv, WrittenInv, FundedInv
<1>3. BrokenInv'
  <2>1. Broken' = Broken
    BY DEF Broken
  <2>2. QED
    BY <2>1 DEF OnboardingInv, BrokenInv
<1>4. QED
  BY <1>1, <1>2, <1>3 DEF OnboardingInv

LEMMA OnboardingTyped ==
    OnboardingInv => O!TypeOK /\ O!AnswersAreTrue /\ O!OrphansExplained /\ O!DemoUsersFunded
<1> SUFFICES ASSUME OnboardingInv
             PROVE  O!AnswersAreTrue /\ O!OrphansExplained /\ O!DemoUsersFunded
  BY DEF OnboardingInv
<1>1. O!TypeOK /\ \A w \in O!Workers : WorkerInv(w)
  BY DEF OnboardingInv
<1>2. O!AnswersAreTrue
  <2>1. ASSUME NEW w \in Registrations, NEW e \in EmailsOf[w], result[w] # None
        PROVE  at[w] = e
    BY <1>1, <2>1, OnboardingConstants DEF WorkerInv, PlaceInv, ToldInv
  <2>2. ASSUME NEW w \in Registrations, NEW e \in EmailsOf[w]
        PROVE  /\ result[w] = "done"  => users[e] = w /\ accounts[e][w] = 1
               /\ result[w] = "taken" => users[e] \notin {None, w}
    <3>1. CASE result[w] = None
      BY <3>1, OnboardingConstants
    <3>2. CASE result[w] # None
      BY <1>1, <2>1, <3>2, OnboardingConstants DEF WorkerInv, ToldInv
    <3>3. QED
      BY <3>1, <3>2
  <2>3. \A e \in Emails, w \in O!Workers : accounts[e][w] <= 1
    BY <1>1 DEF WorkerInv, WrittenInv
  <2>4. QED
    BY <2>2, <2>3 DEF O!AnswersAreTrue
<1>3. O!OrphansExplained
  <2> SUFFICES ASSUME O!Over
               PROVE  Cardinality({e \in Emails : users[e] # None /\ ~O!HasAccount(e)}) <= disturbances
    BY SameSets DEF O!OrphansExplained
  <2> DEFINE Orphans == {e \in Emails : users[e] # None /\ ~O!HasAccount(e)}
             maker == [e \in Orphans |-> users[e]]
  <2>1. \A e \in Orphans : users[e] \in Broken /\ at[users[e]] = e
    <3> SUFFICES ASSUME NEW e \in Orphans PROVE users[e] \in Broken /\ at[users[e]] = e
      OBVIOUS
    <3>1. PICK w \in O!Workers : w = users[e]
      BY <1>1 DEF O!TypeOK
    <3>2. accounts[e][w] = 0 /\ at[w] = e /\ e # None /\ pc[w] \in {"account", "end"}
      <4>1. WrittenInv(w, e)
        BY <1>1 DEF WorkerInv
      <4>2. ~(accounts[e][w] > 0)
        BY DEF O!HasAccount
      <4>3. accounts[e][w] = 0
        BY <4>1, <4>2 DEF WrittenInv
      <4>4. QED
        BY <3>1, <4>1, <4>3, OnboardingConstants DEF WrittenInv
    <3>3. pc[w] = "end"
      BY <3>2 DEF O!Over
    <3>4. QED
      BY <3>1, <3>2, <3>3 DEF Broken
  <2>2. maker \in Injection(Orphans, Broken)
    BY <2>1 DEF Injection, IsInjective
  <2>3. IsFiniteSet(Broken) /\ Cardinality(Broken) <= disturbances /\ disturbances \in Nat
    BY DEF OnboardingInv, BrokenInv, O!TypeOK
  <2>4. IsFiniteSet(Orphans) /\ Cardinality(Orphans) <= Cardinality(Broken)
    BY <2>2, <2>3, FS_Injection
  <2>5. Cardinality(Orphans) \in Nat /\ Cardinality(Broken) \in Nat
    BY <2>3, <2>4, FS_CardinalityType
  <2>6. QED
    BY <2>3, <2>4, <2>5
<1>4. O!DemoUsersFunded
  BY <1>1, OnboardingConstants DEF O!DemoUsersFunded, O!Over, WorkerInv, FundedInv, O!Workers
<1>5. QED
  BY <1>2, <1>3, <1>4

-----------------------------------------------------------------------------
(* History: sequences of rows.                                             *)

\* The rows of a sequence that come after the first k.
After(s, k) == {s[j] : j \in {m \in DOMAIN s : m > k}}

\* The rows after the first o, up to the one in place e.
Between(s, o, e) == {s[j] : j \in {m \in DOMAIN s : m > o /\ m <= e}}

Distinct(s) == \A j, k \in DOMAIN s : s[j] = s[k] => j = k

\* The end of a page of l rows that starts after the first o.
PageEnd(s, o, l) == IF o + l < Len(s) THEN o + l ELSE Len(s)

\* With a row x, others come after a place that did before, and one more at most.
PushedDown(s, t, x) ==
    /\ \A k \in Int : After(s, k) \subseteq After(t, k)
    /\ \A k \in Int : \E y : After(t, k) \subseteq After(s, k) \cup {x, y}

\* What a new row in place i, which is not there yet, does to the rows.
LEMMA RowInserted ==
    ASSUME NEW S, NEW s \in Seq(S), Distinct(s), NEW x \in S, x \notin H!ToSet(s),
           NEW i \in 1 .. Len(s) + 1
    PROVE  LET t == H!InsertAt(s, i, x)
           IN  /\ t \in Seq(S) /\ Len(t) = Len(s) + 1 /\ Distinct(t)
               /\ H!ToSet(t) = H!ToSet(s) \cup {x}
               /\ PushedDown(s, t, x)
<1> DEFINE t == H!InsertAt(s, i, x)
           one == SubSeq(s, 1, i - 1)
           two == SubSeq(s, i, Len(s))
<1>1. Len(s) \in Nat /\ DOMAIN s = 1 .. Len(s) /\ \A j \in 1 .. Len(s) : s[j] \in S
  BY LenProperties, ElementOfSeq
<1>2. one \in Seq(S) /\ Len(one) = i - 1 /\ \A j \in 1 .. i - 1 : one[j] = s[j]
  <2>1. 1 \in Int /\ i - 1 \in Int /\ \A j \in 1 .. i - 1 : s[j] \in S
    BY <1>1
  <2>2. /\ one \in Seq(S) /\ Len(one) = IF 1 <= i - 1 THEN i - 1 - 1 + 1 ELSE 0
        /\ \A j \in 1 .. i - 1 - 1 + 1 : one[j] = s[1 + j - 1]
    BY <2>1, SubSeqProperties
  <2>3. i - 1 - 1 + 1 = i - 1 /\ \A j \in Int : 1 + j - 1 = j
    BY <1>1
  <2>4. QED
    BY <1>1, <2>2, <2>3
<1>3. /\ two \in Seq(S) /\ Len(two) = Len(s) - i + 1
      /\ \A j \in 1 .. Len(s) - i + 1 : two[j] = s[i + j - 1]
  <2>1. i \in Int /\ Len(s) \in Int /\ \A j \in i .. Len(s) : s[j] \in S
    BY <1>1
  <2>2. /\ two \in Seq(S) /\ Len(two) = IF i <= Len(s) THEN Len(s) - i + 1 ELSE 0
        /\ \A j \in 1 .. Len(s) - i + 1 : two[j] = s[i + j - 1]
    BY <2>1, SubSeqProperties
  <2>3. QED
    BY <1>1, <2>2
<1>4. <<x>> \in Seq(S) /\ Len(<<x>>) = 1 /\ <<x>>[1] = x
  OBVIOUS
<1> HIDE DEF one, two
<1>5. /\ one \o <<x>> \in Seq(S) /\ Len(one \o <<x>>) = i
      /\ \A j \in 1 .. i : (one \o <<x>>)[j] = IF j < i THEN s[j] ELSE x
  <2>1. /\ one \o <<x>> \in Seq(S) /\ Len(one \o <<x>>) = Len(one) + Len(<<x>>)
        /\ \A j \in 1 .. Len(one) + Len(<<x>>) : (one \o <<x>>)[j] =
                IF j <= Len(one) THEN one[j] ELSE <<x>>[j - Len(one)]
    BY <1>2, <1>4, ConcatProperties
  <2>2. QED
    BY <1>1, <1>2, <1>4, <2>1
<1>6. /\ t \in Seq(S) /\ Len(t) = Len(s) + 1
      /\ \A j \in 1 .. Len(s) + 1 :
            t[j] = IF j < i THEN s[j] ELSE IF j = i THEN x ELSE s[j - 1]
  <2>1. t = (one \o <<x>>) \o two
    BY DEF H!InsertAt, one, two
  <2> DEFINE three == one \o <<x>>
  <2>2. /\ three \o two \in Seq(S) /\ Len(three \o two) = Len(three) + Len(two)
        /\ \A j \in 1 .. Len(three) + Len(two) : (three \o two)[j] =
                IF j <= Len(three) THEN three[j] ELSE two[j - Len(three)]
    BY <1>3, <1>5, ConcatProperties
  <2>3. /\ three \in Seq(S) /\ Len(three) = i
        /\ \A j \in 1 .. i : three[j] = IF j < i THEN s[j] ELSE x
    BY <1>5
  <2> HIDE DEF three, t
  <2>4. Len(three) + Len(two) = Len(s) + 1
    BY <1>1, <1>3, <2>3
  <2>5. t = three \o two
    BY <2>1 DEF three
  <2>6. ASSUME NEW j \in 1 .. Len(s) + 1
        PROVE  t[j] = IF j < i THEN s[j] ELSE IF j = i THEN x ELSE s[j - 1]
    <3>1. CASE j <= i
      BY <1>1, <2>2, <2>3, <2>4, <2>5, <3>1
    <3>2. CASE j > i
      <4>1. t[j] = two[j - i]
        BY <1>1, <2>2, <2>3, <2>4, <2>5, <3>2
      <4>2. j - i \in 1 .. Len(s) - i + 1 /\ i + (j - i) - 1 = j - 1
        BY <1>1, <3>2
      <4>3. QED
        BY <1>1, <1>3, <3>2, <4>1, <4>2
    <3>3. QED
      BY <1>1, <3>1, <3>2
  <2>7. QED
    BY <2>2, <2>4, <2>5, <2>6
<1> HIDE DEF t
<1>7. DOMAIN t = 1 .. Len(s) + 1
  BY <1>6, LenProperties
<1>8. \A j \in DOMAIN s : s[j] # x
  BY DEF H!ToSet
<1>9. \A j \in 1 .. Len(s) : t[j] = s[j] \/ t[j + 1] = s[j]
  BY <1>1, <1>6
<1>10. Distinct(t)
  <2> SUFFICES ASSUME NEW j \in DOMAIN t, NEW k \in DOMAIN t, t[j] = t[k], j < k
               PROVE  FALSE
    BY <1>1, <1>7 DEF Distinct
  <2>1. j \in 1 .. Len(s) + 1 /\ k \in 1 .. Len(s) + 1 /\ i \in 1 .. Len(s) + 1
    BY <1>7
  <2>2. CASE k < i
    <3>1. t[j] = s[j] /\ t[k] = s[k] /\ j \in DOMAIN s /\ k \in DOMAIN s /\ j # k
      BY <1>1, <1>6, <2>1, <2>2
    <3>2. QED
      BY <3>1 DEF Distinct
  <2>3. CASE k = i
    <3>1. t[j] = s[j] /\ t[k] = x /\ j \in DOMAIN s
      BY <1>1, <1>6, <2>1, <2>3
    <3>2. QED
      BY <1>8, <3>1
  <2>4. CASE k > i
    <3>1. t[k] = s[k - 1] /\ k - 1 \in DOMAIN s
      BY <1>1, <1>6, <2>1, <2>4
    <3>2. CASE j < i
      <4>1. t[j] = s[j] /\ j \in DOMAIN s /\ j # k - 1
        BY <1>1, <1>6, <2>1, <2>4, <3>2
      <4>2. QED
        BY <3>1, <4>1 DEF Distinct
    <3>3. CASE j = i
      BY <1>6, <1>8, <2>1, <3>1, <3>3
    <3>4. CASE j > i
      <4>1. t[j] = s[j - 1] /\ j - 1 \in DOMAIN s /\ j - 1 # k - 1
        BY <1>1, <1>6, <2>1, <3>4
      <4>2. QED
        BY <3>1, <4>1 DEF Distinct
    <3>5. QED
      BY <2>1, <3>2, <3>3, <3>4
  <2>5. QED
    BY <2>1, <2>2, <2>3, <2>4
<1>11. \A j \in 1 .. Len(s) : s[j] \in H!ToSet(t)
  BY <1>1, <1>7, <1>9 DEF H!ToSet
<1>12. t[i] = x /\ i \in DOMAIN t
  BY <1>1, <1>6, <1>7
<1>13. \A j \in DOMAIN t : t[j] = x \/ \E k \in DOMAIN s : t[j] = s[k]
  <2> SUFFICES ASSUME NEW j \in DOMAIN t, j # i
               PROVE  \E k \in DOMAIN s : t[j] = s[k]
    BY <1>12
  <2>1. CASE j < i
    BY <1>1, <1>6, <1>7, <2>1
  <2>2. CASE j > i
    <3>1. j - 1 \in DOMAIN s /\ t[j] = s[j - 1]
      BY <1>1, <1>6, <1>7, <2>2
    <3>2. QED
      BY <3>1
  <2>3. QED
    BY <1>1, <1>7, <2>1, <2>2
<1>14. H!ToSet(t) = H!ToSet(s) \cup {x}
  BY <1>1, <1>11, <1>12, <1>13 DEF H!ToSet
<1>15. ASSUME NEW k \in Int PROVE After(s, k) \subseteq After(t, k)
  <2> SUFFICES ASSUME NEW j \in DOMAIN s, j > k PROVE s[j] \in After(t, k)
    BY DEF After
  <2>1. j \in DOMAIN t /\ j + 1 \in DOMAIN t /\ j + 1 > k
    BY <1>1, <1>7
  <2>2. QED
    BY <1>1, <1>9, <2>1 DEF After
<1>16. ASSUME NEW k \in Int PROVE \E y : After(t, k) \subseteq After(s, k) \cup {x, y}
  <2> SUFFICES ASSUME NEW j \in DOMAIN t, j > k
               PROVE  t[j] \in After(s, k) \cup {x, s[k]}
    BY DEF After
  <2>1. CASE j < i
    BY <1>1, <1>6, <1>7, <2>1 DEF After
  <2>2. CASE j = i
    BY <1>12, <2>2
  <2>3. CASE j > i
    <3>1. j - 1 \in DOMAIN s /\ t[j] = s[j - 1] /\ (j - 1 > k \/ j - 1 = k)
      BY <1>1, <1>6, <1>7, <2>3
    <3>2. QED
      BY <3>1 DEF After
  <2>4. QED
    BY <1>1, <1>7, <2>1, <2>2, <2>3
<1>17. QED
  BY <1>6, <1>10, <1>14, <1>15, <1>16 DEF t, PushedDown

\* A part of a sequence whose elements are all different.
LEMMA PartOf ==
    ASSUME NEW S, NEW s \in Seq(S), Distinct(s), NEW o \in Nat, NEW e \in Nat, e <= Len(s)
    PROVE  LET q == SubSeq(s, o + 1, e)
           IN  /\ q \in Seq(S) /\ Len(q) = IF o < e THEN e - o ELSE 0
               /\ IsFiniteSet(H!ToSet(q)) /\ Cardinality(H!ToSet(q)) = Len(q)
               /\ H!ToSet(q) = Between(s, o, e)
<1> DEFINE q == SubSeq(s, o + 1, e)
<1>1. PICK z \in Nat, n \in Nat : z = Len(s) /\ n = IF o < e THEN e - o ELSE 0
  <2>1. (IF o < e THEN e - o ELSE 0) \in Nat /\ Len(s) \in Nat
    BY LenProperties
  <2>2. QED
    BY <2>1
<1>2. DOMAIN s = 1 .. z /\ \A j \in 1 .. z : s[j] \in S
  BY <1>1, LenProperties, ElementOfSeq
<1>3. \A j \in 1 .. n : o + j \in 1 .. z /\ o + j <= e
  BY <1>1
<1>4. /\ q \in Seq(S) /\ Len(q) = n
      /\ \A j \in 1 .. n : q[j] = s[o + j]
  <2>1. o + 1 \in Int /\ e \in Int /\ \A j \in o + 1 .. e : s[j] \in S
    <3>1. \A j \in o + 1 .. e : j \in 1 .. z
      BY <1>1
    <3>2. QED
      BY <1>2, <3>1
  <2>2. /\ q \in Seq(S) /\ Len(q) = IF o + 1 <= e THEN e - (o + 1) + 1 ELSE 0
        /\ \A j \in 1 .. e - (o + 1) + 1 : q[j] = s[o + 1 + j - 1]
    BY <2>1, SubSeqProperties
  <2>3. \A j \in 1 .. n : j \in 1 .. e - (o + 1) + 1 /\ o + 1 + j - 1 = o + j
    BY <1>1
  <2>4. (IF o + 1 <= e THEN e - (o + 1) + 1 ELSE 0) = n
    BY <1>1
  <2>5. QED
    BY <2>2, <2>3, <2>4
<1> HIDE DEF q
<1>5. DOMAIN q = 1 .. n
  BY <1>4, LenProperties
<1>6. IsFiniteSet(H!ToSet(q)) /\ Cardinality(H!ToSet(q)) = n
  <2>1. q \in Bijection(1 .. n, H!ToSet(q))
    <3>1. q \in [1 .. n -> H!ToSet(q)]
      <4>1. q = [j \in DOMAIN q |-> q[j]]
        BY <1>4, <1>5, LenProperties
      <4>2. QED
        BY <1>5, <4>1 DEF H!ToSet
    <3>2. ASSUME NEW j \in 1 .. n, NEW k \in 1 .. n, q[j] = q[k] PROVE j = k
      <4>1. s[o + j] = s[o + k] /\ o + j \in DOMAIN s /\ o + k \in DOMAIN s
        BY <1>2, <1>3, <1>4, <3>2
      <4>2. o + j = o + k
        BY <4>1 DEF Distinct
      <4>3. QED
        BY <4>2
    <3>3. \A y \in H!ToSet(q) : \E j \in 1 .. n : q[j] = y
      BY <1>5 DEF H!ToSet
    <3>4. QED
      BY <3>1, <3>2, <3>3 DEF Bijection, Injection, IsInjective, Surjection
  <2>2. IsFiniteSet(1 .. n) /\ Cardinality(1 .. n) = n
    <3>1. IsFiniteSet(1 .. n) /\ Cardinality(1 .. n) = IF 1 > n THEN 0 ELSE n - 1 + 1
      BY FS_Interval
    <3>2. QED
      BY <3>1
  <2>3. ExistsBijection(1 .. n, H!ToSet(q))
    BY <2>1 DEF ExistsBijection
  <2>4. QED
    BY <2>2, <2>3, FS_Bijection
<1>7. H!ToSet(q) = Between(s, o, e)
  <2>1. ASSUME NEW m \in DOMAIN s, m > o, m <= e PROVE s[m] \in H!ToSet(q)
    <3>1. m - o \in 1 .. n /\ o + (m - o) = m
      BY <1>1, <1>2, <2>1
    <3>2. q[m - o] = s[m]
      BY <1>4, <3>1
    <3>3. QED
      BY <1>5, <3>1, <3>2 DEF H!ToSet
  <2>2. ASSUME NEW j \in 1 .. n
        PROVE  q[j] = s[o + j] /\ o + j \in DOMAIN s /\ o + j > o /\ o + j <= e
    BY <1>2, <1>3, <1>4
  <2>3. QED
    BY <1>5, <2>1, <2>2 DEF H!ToSet, Between
<1>8. QED
  BY <1>1, <1>4, <1>6, <1>7 DEF q

\* The rows of a page, of rows that are all different.
LEMMA RowsSelected ==
    ASSUME NEW S, NEW s \in Seq(S), Distinct(s), NEW o \in Nat, NEW l \in Nat, l > 0
    PROVE  LET q == SubSeq(s, o + 1, PageEnd(s, o, l))
           IN  /\ q \in Seq(S) /\ Len(q) <= l
               /\ IsFiniteSet(H!ToSet(q)) /\ Cardinality(H!ToSet(q)) = Len(q)
               /\ After(s, o) = H!ToSet(q) \cup After(s, o + l)
               /\ H!ToSet(q) \cap After(s, o + l) = {}
<1>1. PICK z \in Nat, e \in Nat, p \in Nat :
         /\ z = Len(s) /\ e = PageEnd(s, o, l) /\ p = o + l
         /\ e <= z /\ e <= p /\ (e = p \/ e = z)
  <2>1. PICK z \in Nat : z = Len(s)
    BY LenProperties
  <2>2. PageEnd(s, o, l) = IF o + l < z THEN o + l ELSE z
    BY <2>1 DEF PageEnd
  <2>3. o + l \in Nat /\ (IF o + l < z THEN o + l ELSE z) \in Nat
    OBVIOUS
  <2>4. PICK e \in Nat, p \in Nat : e = (IF o + l < z THEN o + l ELSE z) /\ p = o + l
    BY <2>3
  <2>5. e <= z /\ e <= p /\ (e = p \/ e = z)
    BY <2>4
  <2>6. QED
    BY <2>1, <2>2, <2>4, <2>5
<1> DEFINE q == SubSeq(s, o + 1, e)
<1>2. /\ q \in Seq(S) /\ Len(q) = IF o < e THEN e - o ELSE 0
      /\ IsFiniteSet(H!ToSet(q)) /\ Cardinality(H!ToSet(q)) = Len(q)
      /\ H!ToSet(q) = Between(s, o, e)
  <2>1. e <= Len(s)
    BY <1>1
  <2>2. QED
    BY <2>1, PartOf
<1>3. DOMAIN s = 1 .. z
  BY <1>1, LenProperties
<1> HIDE DEF q
<1>4. Len(q) <= l
  BY <1>1, <1>2
<1>5. \A m \in 1 .. z : /\ m > o <=> (m > o /\ m <= e) \/ m > p
                        /\ ~(m <= e /\ m > p)
  BY <1>1
<1>6. After(s, o) = H!ToSet(q) \cup After(s, p)
  BY <1>2, <1>3, <1>5 DEF After, Between
<1>7. H!ToSet(q) \cap After(s, p) = {}
  <2> SUFFICES ASSUME NEW j \in DOMAIN s, NEW m \in DOMAIN s, j <= e, m > p
               PROVE  s[j] # s[m]
    BY <1>2 DEF After, Between
  <2>1. j # m
    BY <1>3, <1>5
  <2>2. QED
    BY <2>1 DEF Distinct
<1>8. QED
  BY <1>1, <1>2, <1>4, <1>6, <1>7 DEF q

\* There are as many rows after the first k as there are, less k.
LEMMA RowsAfter ==
    ASSUME NEW S, NEW s \in Seq(S), NEW k \in Nat
    PROVE  /\ IsFiniteSet(After(s, k))
           /\ Cardinality(After(s, k)) <= (IF Len(s) > k THEN Len(s) - k ELSE 0)
<1> DEFINE f == [j \in k + 1 .. Len(s) |-> s[j]]
<1>1. Len(s) \in Nat /\ DOMAIN s = 1 .. Len(s)
  BY LenProperties
<1>2. {m \in DOMAIN s : m > k} = k + 1 .. Len(s)
  BY <1>1
<1>3. f \in Surjection(k + 1 .. Len(s), After(s, k))
  BY <1>2 DEF Surjection, After
<1>4. IsFiniteSet(k + 1 .. Len(s))
      /\ Cardinality(k + 1 .. Len(s)) = IF k + 1 > Len(s) THEN 0 ELSE Len(s) - (k + 1) + 1
  <2>1. k + 1 \in Int /\ Len(s) \in Int
    BY <1>1
  <2>2. QED
    BY <2>1, FS_Interval
<1>5. IsFiniteSet(After(s, k)) /\ Cardinality(After(s, k)) <= Cardinality(k + 1 .. Len(s))
  BY <1>3, <1>4, FS_Surjection
<1>6. Cardinality(After(s, k)) \in Nat
  BY <1>5, FS_CardinalityType
<1>7. QED
  BY <1>1, <1>4, <1>5, <1>6

LEMMA RowsTogether ==
    ASSUME NEW S, NEW s \in Seq(S), NEW t \in Seq(S)
    PROVE  /\ s \o t \in Seq(S) /\ Len(s \o t) = Len(s) + Len(t)
           /\ H!ToSet(s \o t) = H!ToSet(s) \cup H!ToSet(t)
<1>1. /\ s \o t \in Seq(S) /\ Len(s \o t) = Len(s) + Len(t)
      /\ \A i \in 1 .. Len(s) + Len(t) : (s \o t)[i] =
                IF i <= Len(s) THEN s[i] ELSE t[i - Len(s)]
  BY ConcatProperties
<1>2. /\ Len(s) \in Nat /\ DOMAIN s = 1 .. Len(s) /\ Len(t) \in Nat /\ DOMAIN t = 1 .. Len(t)
      /\ DOMAIN (s \o t) = 1 .. Len(s) + Len(t)
  BY <1>1, LenProperties
<1> DEFINE u == s \o t
<1>3. \A i \in DOMAIN u : u[i] \in H!ToSet(s) \cup H!ToSet(t)
  <2> SUFFICES ASSUME NEW i \in DOMAIN u PROVE u[i] \in H!ToSet(s) \cup H!ToSet(t)
    OBVIOUS
  <2>1. CASE i <= Len(s)
    BY <1>1, <1>2, <2>1 DEF H!ToSet
  <2>2. CASE i > Len(s)
    <3>1. u[i] = t[i - Len(s)] /\ i - Len(s) \in DOMAIN t
      BY <1>1, <1>2, <2>2
    <3>2. QED
      BY <3>1 DEF H!ToSet
  <2>3. QED
    BY <1>2, <2>1, <2>2
<1>4. \A i \in DOMAIN s : s[i] \in H!ToSet(u)
  <2> SUFFICES ASSUME NEW i \in DOMAIN s PROVE s[i] \in H!ToSet(u)
    OBVIOUS
  <2>1. u[i] = s[i] /\ i \in DOMAIN u
    BY <1>1, <1>2
  <2>2. QED
    BY <2>1 DEF H!ToSet
<1>5. \A i \in DOMAIN t : t[i] \in H!ToSet(u)
  <2> SUFFICES ASSUME NEW i \in DOMAIN t PROVE t[i] \in H!ToSet(u)
    OBVIOUS
  <2>1. i + Len(s) \in DOMAIN u /\ i + Len(s) - Len(s) = i /\ i + Len(s) > Len(s)
    BY <1>2
  <2>2. u[i + Len(s)] = t[i]
    BY <1>1, <1>2, <2>1
  <2>3. QED
    BY <2>1, <2>2 DEF H!ToSet
<1>6. H!ToSet(u) = H!ToSet(s) \cup H!ToSet(t)
  BY <1>3, <1>4, <1>5 DEF H!ToSet
<1>7. QED
  BY <1>1, <1>6

LEMMA SetOfSequence ==
    ASSUME NEW S, NEW s \in Seq(S)
    PROVE  /\ IsFiniteSet(H!ToSet(s)) /\ H!ToSet(s) \subseteq S
           /\ Distinct(s) => Cardinality(H!ToSet(s)) = Len(s)
<1>1. Len(s) \in Nat /\ DOMAIN s = 1 .. Len(s) /\ s \in [1 .. Len(s) -> S]
  BY LenProperties
<1>2. s \in Surjection(1 .. Len(s), H!ToSet(s))
  BY <1>1 DEF H!ToSet, Surjection
<1>3. IsFiniteSet(1 .. Len(s)) /\ Cardinality(1 .. Len(s)) = Len(s)
  <2>1. IsFiniteSet(1 .. Len(s))
        /\ Cardinality(1 .. Len(s)) = IF 1 > Len(s) THEN 0 ELSE Len(s) - 1 + 1
    BY <1>1, FS_Interval
  <2>2. QED
    BY <1>1, <2>1
<1>4. /\ IsFiniteSet(H!ToSet(s))
      /\ s \in Injection(1 .. Len(s), H!ToSet(s)) =>
            Cardinality(H!ToSet(s)) = Cardinality(1 .. Len(s))
  BY <1>2, <1>3, FS_Surjection
<1>5. Distinct(s) => s \in Injection(1 .. Len(s), H!ToSet(s))
  BY <1>1, <1>2 DEF Distinct, Injection, IsInjective, Surjection
<1>6. H!ToSet(s) \subseteq S
  BY <1>1 DEF H!ToSet
<1>7. QED
  BY <1>3, <1>4, <1>5, <1>6

-----------------------------------------------------------------------------
(* History: the reader.                                                    *)

\* What the reader has been shown, with the page that has been read already.
Shown == IF at = "asked" /\ got # None THEN delivered \o got ELSE delivered

\* How many rows it has gone past.
Passed == IF got = None THEN (page - 1) * limit ELSE page * limit

RowsInv ==
    /\ inserts \in 0 .. MaxInserts
    /\ rows \in Seq(H!Numbers) /\ Distinct(rows) /\ Len(rows) = Initial + inserts
    /\ H!ToSet(rows) = 1 .. Initial + inserts

PageTypes ==
    /\ at \in {"closed", "asked", "read", "failed"}
    /\ limit \in Int /\ limit <= Highest /\ page \in Nat \ {0} /\ gap \in Nat
    /\ got # None =>
          got \in Seq(H!Numbers) /\ Len(got) <= limit /\ H!ToSet(got) \subseteq H!ToSet(rows)
    /\ total # None => total \in 0 .. Len(rows)
    /\ delivered \in Seq(H!Numbers) /\ H!ToSet(delivered) \subseteq H!ToSet(rows)
    /\ base \subseteq H!ToSet(rows)
    /\ got # None \/ total # None \/ page > 1 => limit > 0

\* What was there at the start and has not been shown is still to come: a new row
\* only pushes it down.
MissedInv == base \subseteq H!ToSet(Shown) \cup After(rows, Passed)

\* So is what will be shown again: each new row pushes down one at most.
RepeatsInv ==
    Len(Shown) - Cardinality(H!ToSet(Shown)) + Cardinality(H!ToSet(Shown) \cap After(rows, Passed))
        <= Len(rows) - Cardinality(base)

\* The rows the total does not know of.
GapInv ==
    /\ got = None => IF total = None THEN gap = 0 ELSE Len(rows) = total + gap
    /\ got # None /\ total # None /\ page * limit >= total =>
          Cardinality(base \ H!ToSet(Shown)) <= gap

ReadInv == at = "asked" => MissedInv /\ RepeatsInv /\ GapInv

EndInv ==
    /\ at = "read" => Cardinality(base \ H!ToSet(delivered)) <= gap
    /\ Len(delivered) - Cardinality(H!ToSet(delivered)) <= Len(rows) - Cardinality(base)

HistoryInv == RowsInv /\ PageTypes /\ ReadInv /\ EndInv

LEMMA HistoryConstants ==
    /\ Initial \in Nat /\ MaxInserts \in Nat /\ Lag \in Nat
    /\ Limits \subseteq Int \cup {None}
    /\ Default \in 1 .. Highest /\ Highest \in Nat /\ Cap \in Nat
BY RecordsAssumption DEF H!HistoryAssumption

LEMMA NoRows ==
    /\ \A S : <<>> \in Seq(S)
    /\ Len(<<>>) = 0 /\ H!ToSet(<<>>) = {} /\ Cardinality({}) = 0
    /\ \A k : After(<<>>, k) = {}
BY FS_EmptySet DEF H!ToSet, After

LEMMA HistoryInit == H!Init => HistoryInv
<1> SUFFICES ASSUME H!Init PROVE HistoryInv
  OBVIOUS
<1> USE HistoryConstants
<1> DEFINE up == [i \in 1 .. Initial |-> i]
<1>1. up \in Seq(Nat) /\ Len(up) = Initial
  OBVIOUS
<1>2. rows = [i \in 1 .. Initial |-> Initial - i + 1]
  <2>1. rows = [i \in 1 .. Len(up) |-> up[Len(up) - i + 1]]
    BY DEF H!Init, H!Reverse
  <2>2. \A i \in 1 .. Initial : up[Initial - i + 1] = Initial - i + 1
    OBVIOUS
  <2> HIDE DEF up
  <2>3. QED
    BY <1>1, <2>1, <2>2
<1>3. /\ rows \in Seq(H!Numbers) /\ Len(rows) = Initial /\ DOMAIN rows = 1 .. Initial
  <2>1. \A i \in 1 .. Initial : Initial - i + 1 \in H!Numbers
    BY DEF H!Numbers
  <2>2. rows \in [1 .. Initial -> H!Numbers]
    BY <1>2, <2>1
  <2>3. QED
    BY <2>2
<1>4. Distinct(rows)
  BY <1>2, <1>3 DEF Distinct
<1>5. H!ToSet(rows) = 1 .. Initial
  <2>1. \A x \in 1 .. Initial : Initial - x + 1 \in 1 .. Initial /\ Initial - (Initial - x + 1) + 1 = x
    OBVIOUS
  <2>2. \A x \in 1 .. Initial : x = rows[Initial - x + 1]
    BY <1>2, <2>1
  <2>3. \A x \in 1 .. Initial : rows[x] \in 1 .. Initial
    BY <1>2, <2>1
  <2>4. QED
    BY <1>3, <2>1, <2>2, <2>3 DEF H!ToSet
<1>6. RowsInv
  BY <1>3, <1>4, <1>5 DEF RowsInv, H!Init
<1>7. PageTypes
  BY NoRows DEF PageTypes, H!Init
<1>8. ReadInv
  BY DEF ReadInv, H!Init
<1>9. EndInv
  <2>1. at = "closed" /\ delivered = <<>> /\ base = {}
    BY DEF H!Init
  <2>2. Len(delivered) - Cardinality(H!ToSet(delivered)) = 0 /\ Cardinality(base) = 0
    BY <2>1, NoRows
  <2>3. QED
    BY <1>3, <2>1, <2>2 DEF EndInv
<1>10. QED
  BY <1>6, <1>7, <1>8, <1>9 DEF HistoryInv

\* One more row pushes at most one of those shown past a place.
LEMMA OneMoreAfter ==
    ASSUME NEW A, IsFiniteSet(A), NEW B, NEW Z, NEW x, NEW y, x \notin A,
           Z \subseteq B \cup {x, y}
    PROVE  /\ Cardinality(A \cap Z) <= Cardinality(A \cap B) + 1
           /\ Cardinality(A \cap Z) \in Nat /\ Cardinality(A \cap B) \in Nat
<1>1. IsFiniteSet(A \cap B) /\ IsFiniteSet(A \cap Z)
  BY FS_Intersection
<1>2. Cardinality(A \cap B) \in Nat /\ Cardinality(A \cap Z) \in Nat
  BY <1>1, FS_CardinalityType
<1>3. /\ IsFiniteSet((A \cap B) \cup {y}) /\ Cardinality((A \cap B) \cup {y}) \in Nat
      /\ Cardinality((A \cap B) \cup {y}) <= Cardinality(A \cap B) + 1
  BY <1>1, OneMore
<1>4. A \cap Z \in SUBSET ((A \cap B) \cup {y})
  OBVIOUS
<1>5. Cardinality(A \cap Z) <= Cardinality((A \cap B) \cup {y})
  BY <1>3, <1>4, FS_Subset
<1>6. QED
  BY <1>2, <1>3, <1>5

\* A page of rows G shows again those shown already, and leaves the rest for later.
LEMMA PageCounted ==
    ASSUME NEW A, IsFiniteSet(A), NEW G, IsFiniteSet(G), NEW B, G \cap B = {}
    PROVE  /\ Cardinality(G) - Cardinality(A \cup G) + Cardinality((A \cup G) \cap B)
                = Cardinality(A \cap (G \cup B)) - Cardinality(A)
           /\ Cardinality(A) \in Nat /\ Cardinality(G) \in Nat
           /\ Cardinality(A \cup G) \in Nat /\ Cardinality((A \cup G) \cap B) \in Nat
           /\ Cardinality(A \cap (G \cup B)) \in Nat
<1> DEFINE v == A \cap G
           w == A \cap B
<1>1. IsFiniteSet(A \cup G) /\ Cardinality(A \cup G) = Cardinality(A) + Cardinality(G) - Cardinality(v)
  BY FS_Union
<1>2. IsFiniteSet(v) /\ IsFiniteSet(w)
  BY FS_Intersection
<1>3. v \cap w = {} /\ v \cup w = A \cap (G \cup B) /\ (A \cup G) \cap B = w
  OBVIOUS
<1> HIDE DEF v, w
<1>4. Cardinality(v \cup w) = Cardinality(v) + Cardinality(w) - Cardinality(v \cap w)
  BY <1>2, FS_Union
<1>5. Cardinality(v \cap w) = 0
  BY <1>3, FS_EmptySet
<1>6. /\ Cardinality(A) \in Nat /\ Cardinality(G) \in Nat /\ Cardinality(A \cup G) \in Nat
      /\ Cardinality(v) \in Nat /\ Cardinality(w) \in Nat
  BY <1>1, <1>2, FS_CardinalityType
<1>7. Cardinality(v \cup w) = Cardinality(v) + Cardinality(w) /\ Cardinality(v \cup w) \in Nat
  BY <1>4, <1>5, <1>6
<1>8. /\ Cardinality(G) - Cardinality(A \cup G) + Cardinality(w) = Cardinality(v \cup w) - Cardinality(A)
  BY <1>1, <1>6, <1>7
<1>9. QED
  BY <1>3, <1>6, <1>7, <1>8

\* The last page of a total is the one after which it is reached.
LEMMA LastPage ==
    ASSUME NEW t \in Nat, NEW l \in Nat, l > 0, NEW p \in Nat,
           ~(p < H!TotalPages(t, l))
    PROVE  p * l >= t
<1> DEFINE q == (t + l - 1) \div l
<1>1. q \in Nat /\ q * l > t + l - 1 - l
  OBVIOUS
<1>2. q <= p
  BY <1>1 DEF H!TotalPages
<1> HIDE DEF q
<1>3. q * l <= p * l /\ q * l \in Nat /\ p * l \in Nat
  BY <1>1, <1>2
<1>4. QED
  BY <1>1, <1>3

LEMMA PagesPassed ==
    ASSUME NEW p \in Nat \ {0}, NEW l \in Int, l > 0 \/ p = 1
    PROVE  /\ (p - 1) * l \in Nat /\ (p - 1) * l + l = p * l
           /\ (p + 1 - 1) * l = p * l
           /\ l > 0 => p * l \in Nat
<1>1. CASE p = 1
  BY <1>1
<1>2. CASE l > 0
  BY <1>2
<1>3. QED
  BY <1>1, <1>2

LEMMA ShownTyped ==
    ASSUME RowsInv, PageTypes
    PROVE  /\ Shown \in Seq(H!Numbers) /\ Len(Shown) \in Nat
           /\ H!ToSet(Shown) \subseteq H!ToSet(rows)
           /\ IsFiniteSet(H!ToSet(Shown)) /\ Cardinality(H!ToSet(Shown)) \in Nat
           /\ IsFiniteSet(base) /\ Cardinality(base) \in Nat
           /\ Len(rows) \in Nat /\ IsFiniteSet(H!ToSet(rows))
           /\ Passed \in Nat
<1>1. Shown \in Seq(H!Numbers) /\ H!ToSet(Shown) \subseteq H!ToSet(rows)
  <2>1. CASE at = "asked" /\ got # None
    <3>1. /\ Shown = delivered \o got
          /\ delivered \in Seq(H!Numbers) /\ got \in Seq(H!Numbers)
          /\ H!ToSet(got) \subseteq H!ToSet(rows) /\ H!ToSet(delivered) \subseteq H!ToSet(rows)
      BY <2>1 DEF Shown, PageTypes
    <3>2. QED
      BY <3>1, RowsTogether
  <2>2. CASE ~(at = "asked" /\ got # None)
    BY <2>2 DEF Shown, PageTypes
  <2>3. QED
    BY <2>1, <2>2
<1>2. IsFiniteSet(H!ToSet(rows)) /\ Len(rows) \in Nat
  BY SetOfSequence, LenProperties DEF RowsInv
<1>3. IsFiniteSet(H!ToSet(Shown)) /\ IsFiniteSet(base)
  BY <1>1, <1>2, FS_Subset DEF PageTypes
<1>4. Passed \in Nat
  <2>1. CASE got = None
    BY <2>1, PagesPassed DEF PageTypes, Passed
  <2>2. CASE got # None
    BY <2>2, PagesPassed DEF PageTypes, Passed
  <2>3. QED
    BY <2>1, <2>2
<1>5. QED
  BY <1>1, <1>2, <1>3, <1>4, FS_CardinalityType, LenProperties

LEMMA RowsStep == HistoryInv /\ H!Next => RowsInv' /\ H!ToSet(rows) \subseteq H!ToSet(rows')
<1> SUFFICES ASSUME HistoryInv, H!Next
             PROVE  RowsInv' /\ H!ToSet(rows) \subseteq H!ToSet(rows')
  OBVIOUS
<1>1. CASE \E i \in 1 .. Lag + 1 : H!Insert(i)
  <2> PICK i \in 1 .. Lag + 1 : H!Insert(i)
    BY <1>1
  <2> DEFINE x == Initial + inserts + 1
  <2>1. /\ inserts \in 0 .. MaxInserts /\ inserts < MaxInserts /\ inserts' = inserts + 1
        /\ i <= Len(rows) + 1 /\ rows' = H!InsertAt(rows, i, x)
    <3>1. Initial + inserts' = x /\ inserts \in 0 .. MaxInserts
      BY HistoryConstants DEF HistoryInv, RowsInv, H!Insert
    <3>2. QED
      BY <3>1 DEF H!Insert
  <2>2. /\ rows \in Seq(H!Numbers) /\ Distinct(rows) /\ Len(rows) = Initial + inserts
        /\ H!ToSet(rows) = 1 .. Initial + inserts
    BY DEF HistoryInv, RowsInv
  <2>3. x \in H!Numbers /\ x \notin H!ToSet(rows) /\ i \in 1 .. Len(rows) + 1
    BY <2>1, <2>2, HistoryConstants DEF H!Numbers
  <2> HIDE DEF x
  <2>4. /\ rows' \in Seq(H!Numbers) /\ Len(rows') = Len(rows) + 1 /\ Distinct(rows')
        /\ H!ToSet(rows') = H!ToSet(rows) \cup {x}
    BY <2>1, <2>2, <2>3, RowInserted
  <2>5. (1 .. Initial + inserts) \cup {x} = 1 .. Initial + (inserts + 1)
    BY <2>1, HistoryConstants DEF x
  <2>6. Len(rows) + 1 = Initial + (inserts + 1)
    BY <2>1, <2>2, HistoryConstants
  <2>7. RowsInv'
    BY <2>1, <2>2, <2>4, <2>5, <2>6, HistoryConstants DEF RowsInv, Distinct
  <2>8. QED
    BY <2>4, <2>7
<1>2. CASE ~(\E i \in 1 .. Lag + 1 : H!Insert(i))
  <2>1. UNCHANGED <<rows, inserts>>
    BY <1>2 DEF H!Next, H!Open, H!QueryFails, H!ReadRows, H!ReadTotal, H!Answer, H!Expire,
                H!DownloadStatement
  <2>2. QED
    BY <2>1 DEF HistoryInv, RowsInv, Distinct
<1>3. QED
  BY <1>1, <1>2

\* Somebody pays while the reader reads.
LEMMA InsertStep ==
    ASSUME HistoryInv, NEW i \in 1 .. Lag + 1, H!Insert(i)
    PROVE  HistoryInv'
<1>1. RowsInv /\ PageTypes /\ RowsInv' /\ H!ToSet(rows) \subseteq H!ToSet(rows')
  BY RowsStep DEF HistoryInv, H!Next
<1>2. UNCHANGED <<at, limit, page, got, total, base, delivered>>
  BY DEF H!Insert
<1>3. gap' = gap + (IF total # None /\ got = None THEN 1 ELSE 0) /\ gap \in Nat
  BY <1>1 DEF H!Insert, PageTypes
<1>4. Len(rows') = Len(rows) + 1 /\ Len(rows) \in Nat
  BY <1>1, HistoryConstants DEF H!Insert, RowsInv
<1>5. PageTypes'
  <2>1. gap' \in Nat
    BY <1>3
  <2>2. total # None => total \in 0 .. Len(rows')
    BY <1>1, <1>4 DEF PageTypes
  <2>3. QED
    BY <1>1, <1>2, <2>1, <2>2 DEF PageTypes
<1>6. Shown' = Shown /\ Passed' = Passed
  BY <1>2 DEF Shown, Passed
<1>7. /\ \A k \in Int : After(rows, k) \subseteq After(rows', k)
      /\ \A k \in Int : \E x, y : /\ After(rows', k) \subseteq After(rows, k) \cup {x, y}
                                  /\ x \notin H!ToSet(rows)
  <2> DEFINE x == Initial + inserts'
  <2>1. /\ rows \in Seq(H!Numbers) /\ Distinct(rows) /\ H!ToSet(rows) = 1 .. Initial + inserts
        /\ inserts \in Nat /\ inserts' = inserts + 1 /\ Len(rows) = Initial + inserts
    BY <1>1 DEF RowsInv, H!Insert
  <2>2. x \in H!Numbers /\ x \notin H!ToSet(rows)
    <3>1. inserts < MaxInserts
      BY DEF H!Insert
    <3>2. QED
      BY <2>1, <3>1, HistoryConstants DEF H!Numbers
  <2>3. i \in 1 .. Len(rows) + 1 /\ rows' = H!InsertAt(rows, i, x)
    BY <1>4, HistoryConstants DEF H!Insert
  <2> HIDE DEF x
  <2>4. PushedDown(rows, rows', x)
    BY <2>1, <2>2, <2>3, RowInserted
  <2>5. QED
    BY <2>2, <2>4 DEF PushedDown
<1>8. ReadInv'
  <2> SUFFICES ASSUME at = "asked" PROVE MissedInv' /\ RepeatsInv' /\ GapInv'
    BY <1>2 DEF ReadInv
  <2>1. MissedInv /\ RepeatsInv /\ GapInv
    BY DEF HistoryInv, ReadInv
  <2>2. /\ Passed \in Int /\ IsFiniteSet(H!ToSet(Shown)) /\ Cardinality(H!ToSet(Shown)) \in Nat
        /\ H!ToSet(Shown) \subseteq H!ToSet(rows) /\ Cardinality(base) \in Nat /\ Len(Shown) \in Nat
    BY <1>1, ShownTyped
  <2>3. MissedInv'
    BY <1>2, <1>6, <1>7, <2>1, <2>2 DEF MissedInv
  <2>4. RepeatsInv'
    <3> DEFINE shown == H!ToSet(Shown)
    <3>1. /\ Cardinality(shown \cap After(rows', Passed)) <= Cardinality(shown \cap After(rows, Passed)) + 1
          /\ Cardinality(shown \cap After(rows', Passed)) \in Nat
          /\ Cardinality(shown \cap After(rows, Passed)) \in Nat
      <4>1. PICK x, y : /\ After(rows', Passed) \subseteq After(rows, Passed) \cup {x, y}
                        /\ x \notin H!ToSet(rows)
        BY <1>7, <2>2
      <4>2. x \notin shown
        BY <2>2, <4>1
      <4> HIDE DEF shown
      <4>3. QED
        BY <2>2, <4>1, <4>2, OneMoreAfter DEF shown
    <3>2. Len(Shown) - Cardinality(shown) + Cardinality(shown \cap After(rows, Passed))
            <= Len(rows) - Cardinality(base)
      BY <2>1 DEF RepeatsInv
    <3> HIDE DEF shown
    <3>3. Cardinality(shown) \in Nat
      BY <2>2 DEF shown
    <3>4. Len(Shown) - Cardinality(shown) + Cardinality(shown \cap After(rows', Passed))
            <= Len(rows') - Cardinality(base)
      BY <1>4, <2>2, <3>1, <3>2, <3>3
    <3>5. QED
      BY <1>2, <1>6, <3>4 DEF RepeatsInv, shown
  <2>5. GapInv'
    <3>1. got = None => IF total = None THEN gap' = 0 ELSE Len(rows') = total + gap'
      <4>1. total # None => total \in Int
        BY <1>1 DEF PageTypes
      <4>2. QED
        BY <1>3, <1>4, <2>1, <4>1 DEF GapInv
    <3>2. got # None => gap' = gap
      BY <1>3
    <3>3. QED
      BY <1>2, <1>6, <2>1, <3>1, <3>2 DEF GapInv
  <2>6. QED
    BY <2>3, <2>4, <2>5
<1>9. EndInv'
  <2>1. EndInv
    BY DEF HistoryInv
  <2>2. at = "read" => Cardinality(base \ H!ToSet(delivered)) <= gap'
    <3>1. IsFiniteSet(base)
      BY <1>1, ShownTyped
    <3>2. IsFiniteSet(base \ H!ToSet(delivered))
      BY <3>1, FS_Difference
    <3>3. Cardinality(base \ H!ToSet(delivered)) \in Nat
      BY <3>2, FS_CardinalityType
    <3>4. QED
      BY <1>3, <2>1, <3>3 DEF EndInv
  <2>3. /\ Len(delivered) \in Nat /\ Cardinality(H!ToSet(delivered)) \in Nat /\ Cardinality(base) \in Nat
    <3>1. delivered \in Seq(H!Numbers)
      BY <1>1 DEF PageTypes
    <3>2. QED
      BY <1>1, <3>1, ShownTyped, SetOfSequence, FS_CardinalityType, LenProperties
  <2>4. Len(delivered) - Cardinality(H!ToSet(delivered)) <= Len(rows') - Cardinality(base)
    BY <1>4, <2>1, <2>3 DEF EndInv
  <2>5. QED
    BY <1>2, <2>2, <2>4 DEF EndInv
<1>10. QED
  BY <1>1, <1>5, <1>8, <1>9 DEF HistoryInv

LEMMA OpenStep ==
    ASSUME HistoryInv, NEW asked \in Limits, H!Open(asked)
    PROVE  HistoryInv'
<1>1. RowsInv /\ PageTypes /\ RowsInv' /\ rows' = rows
  BY RowsStep DEF HistoryInv, H!Next, H!Open
<1>2. /\ at' = "asked" /\ page' = 1 /\ got' = None /\ total' = None /\ gap' = 0
      /\ limit' = H!Limit(asked) /\ base' = H!ToSet(rows) /\ delivered' = <<>>
  BY DEF H!Open, H!Ask
<1>3. limit' \in Int /\ limit' <= Highest
  BY <1>2, HistoryConstants DEF H!Limit
<1>4. PageTypes'
  BY <1>1, <1>2, <1>3, NoRows DEF PageTypes
<1>5. Shown' = <<>> /\ Passed' = 0
  BY <1>2, <1>3 DEF Shown, Passed
<1>6. /\ rows \in Seq(H!Numbers) /\ Cardinality(H!ToSet(rows)) = Len(rows) /\ Len(rows) \in Nat
  BY <1>1, SetOfSequence, LenProperties DEF RowsInv
<1>7. MissedInv'
  <2>1. DOMAIN rows = 1 .. Len(rows)
    BY <1>6, LenProperties
  <2>2. H!ToSet(rows) = After(rows, 0)
    <3>1. \A j \in DOMAIN rows : j > 0
      BY <1>6, <2>1
    <3>2. QED
      BY <3>1 DEF After, H!ToSet
  <2>3. QED
    BY <1>1, <1>2, <1>5, <2>2 DEF MissedInv
<1>8. RepeatsInv'
  <2>1. Len(<<>>) - Cardinality({}) + Cardinality({} \cap After(rows, 0)) = 0
    <3>1. {} \cap After(rows, 0) = {}
      OBVIOUS
    <3>2. QED
      BY <3>1, NoRows
  <2>2. Len(rows) - Cardinality(H!ToSet(rows)) = 0
    BY <1>6
  <2>3. /\ Shown' = <<>> /\ H!ToSet(Shown') = {} /\ Passed' = 0 /\ rows' = rows
        /\ base' = H!ToSet(rows)
    BY <1>1, <1>2, <1>5, NoRows
  <2>4. /\ Len(Shown') - Cardinality(H!ToSet(Shown'))
               + Cardinality(H!ToSet(Shown') \cap After(rows', Passed')) = 0
        /\ Len(rows') - Cardinality(base') = 0
    BY <2>1, <2>2, <2>3
  <2>5. QED
    BY <2>4 DEF RepeatsInv
<1>9. GapInv'
  BY <1>2 DEF GapInv
<1>10. EndInv'
  <2>1. Len(<<>>) - Cardinality({}) = 0 /\ Len(rows) - Cardinality(H!ToSet(rows)) = 0
    BY <1>6, NoRows
  <2>2. QED
    BY <1>1, <1>2, <2>1, NoRows DEF EndInv
<1>11. QED
  BY <1>1, <1>4, <1>7, <1>8, <1>9, <1>10 DEF HistoryInv, ReadInv

\* The rows of a page come from the query, the total not known or known.
LEMMA ReadRowsStep ==
    ASSUME HistoryInv, H!ReadRows
    PROVE  HistoryInv'
<1>1. RowsInv /\ PageTypes /\ RowsInv' /\ rows' = rows
  BY RowsStep DEF HistoryInv, H!Next, H!ReadRows
<1>2. /\ at = "asked" /\ limit > 0 /\ got = None
      /\ UNCHANGED <<at, limit, page, total, gap, base, delivered>>
  BY DEF H!ReadRows
<1> DEFINE o == (page - 1) * limit
<1>3. /\ o \in Nat /\ o + limit = page * limit /\ page * limit \in Nat
      /\ limit \in Nat /\ page \in Nat \ {0}
  BY <1>1, <1>2, PagesPassed DEF PageTypes
<1>4. got' = SubSeq(rows, o + 1, PageEnd(rows, o, limit))
  BY DEF H!ReadRows, H!Select, H!Offset, PageEnd
<1>5. /\ MissedInv /\ RepeatsInv /\ GapInv /\ EndInv
  BY <1>2 DEF HistoryInv, ReadInv
<1>6. Shown = delivered /\ Passed = o
  BY <1>2 DEF Shown, Passed
<1>7. rows \in Seq(H!Numbers) /\ Distinct(rows)
  BY <1>1 DEF RowsInv
<1> HIDE DEF o
<1>8. /\ got' \in Seq(H!Numbers) /\ Len(got') <= limit
      /\ IsFiniteSet(H!ToSet(got')) /\ Cardinality(H!ToSet(got')) = Len(got')
      /\ After(rows, o) = H!ToSet(got') \cup After(rows, o + limit)
      /\ H!ToSet(got') \cap After(rows, o + limit) = {}
  <2> DEFINE q == SubSeq(rows, o + 1, PageEnd(rows, o, limit))
  <2>1. /\ q \in Seq(H!Numbers) /\ Len(q) <= limit
        /\ IsFiniteSet(H!ToSet(q)) /\ Cardinality(H!ToSet(q)) = Len(q)
        /\ After(rows, o) = H!ToSet(q) \cup After(rows, o + limit)
        /\ H!ToSet(q) \cap After(rows, o + limit) = {}
    BY <1>2, <1>3, <1>7, RowsSelected
  <2>2. got' = q
    BY <1>4
  <2> HIDE DEF q
  <2>3. QED
    BY <2>1, <2>2
<1>9. H!ToSet(got') \subseteq H!ToSet(rows)
  BY <1>8 DEF After, H!ToSet
<1>10. PageTypes'
  BY <1>1, <1>2, <1>8, <1>9 DEF PageTypes
<1>11. EndInv'
  BY <1>1, <1>2, <1>5 DEF EndInv
<1>12. CASE got' = None
  <2>1. Shown' = Shown /\ Passed' = Passed
    BY <1>2, <1>12 DEF Shown, Passed
  <2>2. MissedInv' /\ RepeatsInv' /\ GapInv'
    BY <1>1, <1>2, <1>5, <1>12, <2>1 DEF MissedInv, RepeatsInv, GapInv
  <2>3. QED
    BY <1>1, <1>10, <1>11, <2>2 DEF HistoryInv, ReadInv
<1>13. CASE got' # None
  <2>1. Shown' = delivered \o got' /\ Passed' = page * limit
    BY <1>2, <1>13 DEF Shown, Passed
  <2>2. delivered \in Seq(H!Numbers)
    BY <1>1 DEF PageTypes
  <2>3. /\ Len(Shown') = Len(delivered) + Len(got')
        /\ H!ToSet(Shown') = H!ToSet(delivered) \cup H!ToSet(got')
    BY <1>8, <2>1, <2>2, RowsTogether
  <2>4. After(rows', Passed') = After(rows, o + limit)
    BY <1>1, <1>3, <2>1
  <2>5. MissedInv'
    BY <1>2, <1>5, <1>6, <1>8, <2>3, <2>4 DEF MissedInv
  <2>6. RepeatsInv'
    <3> DEFINE A == H!ToSet(delivered)
               G == H!ToSet(got')
               B == After(rows, o + limit)
    <3>1. IsFiniteSet(A) /\ IsFiniteSet(G) /\ G \cap B = {}
      BY <1>8, <2>2, SetOfSequence
    <3>2. Len(delivered) - Cardinality(A) + Cardinality(A \cap (G \cup B)) <= Len(rows) - Cardinality(base)
      BY <1>5, <1>6, <1>8 DEF RepeatsInv
    <3>3. Cardinality(G) = Len(got')
      BY <1>8
    <3>4. Len(delivered) \in Nat /\ Len(rows) \in Nat /\ Cardinality(base) \in Nat
      BY <1>1, <2>2, ShownTyped, LenProperties
    <3> HIDE DEF A, G, B
    <3>5. /\ Cardinality(G) - Cardinality(A \cup G) + Cardinality((A \cup G) \cap B)
                = Cardinality(A \cap (G \cup B)) - Cardinality(A)
          /\ Cardinality(A) \in Nat /\ Cardinality(G) \in Nat
          /\ Cardinality(A \cup G) \in Nat /\ Cardinality((A \cup G) \cap B) \in Nat
          /\ Cardinality(A \cap (G \cup B)) \in Nat
      BY <3>1, PageCounted
    <3>6. Len(delivered) + Cardinality(G) - Cardinality(A \cup G) + Cardinality((A \cup G) \cap B)
            <= Len(rows) - Cardinality(base)
      BY <3>2, <3>4, <3>5
    <3>7. /\ Len(Shown') = Len(delivered) + Cardinality(G) /\ H!ToSet(Shown') = A \cup G
          /\ After(rows', Passed') = B /\ rows' = rows /\ base' = base
      BY <1>1, <1>2, <2>3, <2>4, <3>3 DEF A, G, B
    <3>8. Len(Shown') - Cardinality(H!ToSet(Shown'))
                + Cardinality(H!ToSet(Shown') \cap After(rows', Passed'))
            <= Len(rows') - Cardinality(base')
      BY <3>4, <3>5, <3>6, <3>7
    <3>9. QED
      BY <3>8 DEF RepeatsInv
  <2>7. GapInv'
    <3> SUFFICES ASSUME total # None, page * limit >= total
                 PROVE  Cardinality(base \ H!ToSet(Shown')) <= gap
      BY <1>2, <1>13 DEF GapInv
    <3>1. Len(rows) = total + gap /\ total \in Int /\ gap \in Nat /\ Len(rows) \in Nat
      <4>1. Len(rows) \in Nat
        BY <1>7, LenProperties
      <4>2. QED
        BY <1>1, <1>2, <1>5, <4>1 DEF GapInv, PageTypes
    <3>2. /\ IsFiniteSet(After(rows, page * limit))
          /\ Cardinality(After(rows, page * limit))
                <= (IF Len(rows) > page * limit THEN Len(rows) - page * limit ELSE 0)
      BY <1>3, <1>7, RowsAfter
    <3>3. base \ H!ToSet(Shown') \in SUBSET After(rows, page * limit)
      BY <1>1, <1>2, <2>1, <2>5 DEF MissedInv
    <3>4. /\ IsFiniteSet(base \ H!ToSet(Shown'))
          /\ Cardinality(base \ H!ToSet(Shown')) <= Cardinality(After(rows, page * limit))
      BY <3>2, <3>3, FS_Subset
    <3>5. Cardinality(base \ H!ToSet(Shown')) \in Nat /\ Cardinality(After(rows, page * limit)) \in Nat
      BY <3>2, <3>4, FS_CardinalityType
    <3>6. (IF Len(rows) > page * limit THEN Len(rows) - page * limit ELSE 0) <= gap
      BY <1>3, <3>1
    <3>7. (IF Len(rows) > page * limit THEN Len(rows) - page * limit ELSE 0) \in Nat
      BY <1>3, <3>1
    <3>8. QED
      BY <3>1, <3>2, <3>4, <3>5, <3>6, <3>7
  <2>8. QED
    BY <1>1, <1>10, <1>11, <2>5, <2>6, <2>7 DEF HistoryInv, ReadInv
<1>14. QED
  BY <1>12, <1>13

LEMMA ReadTotalStep ==
    ASSUME HistoryInv, H!ReadTotal
    PROVE  HistoryInv'
<1>1. RowsInv /\ PageTypes /\ RowsInv' /\ rows' = rows
  BY RowsStep DEF HistoryInv, H!Next, H!ReadTotal
<1>2. /\ at = "asked" /\ limit > 0 /\ total = None /\ total' = Len(rows)
      /\ UNCHANGED <<at, limit, page, got, gap, base, delivered>>
  BY DEF H!ReadTotal
<1>3. MissedInv /\ RepeatsInv /\ GapInv /\ EndInv
  BY <1>2 DEF HistoryInv, ReadInv
<1>4. Len(rows) \in Nat
  BY <1>1, ShownTyped
<1>5. PageTypes'
  BY <1>1, <1>2, <1>4 DEF PageTypes
<1>6. Shown' = Shown /\ Passed' = Passed
  BY <1>2 DEF Shown, Passed
<1>7. MissedInv' /\ RepeatsInv'
  BY <1>1, <1>2, <1>3, <1>6 DEF MissedInv, RepeatsInv
<1>8. GapInv'
  <2>1. CASE got = None
    BY <1>1, <1>2, <1>3, <1>4, <2>1 DEF GapInv
  <2>2. CASE got # None
    <3> SUFFICES ASSUME page * limit >= Len(rows)
                 PROVE  Cardinality(base \ H!ToSet(Shown)) <= gap
      BY <1>2, <1>6, <2>2 DEF GapInv
    <3>1. page * limit \in Nat /\ gap \in Nat
      BY <1>1, <1>2, PagesPassed DEF PageTypes
    <3>2. rows \in Seq(H!Numbers) /\ DOMAIN rows = 1 .. Len(rows)
      BY <1>1, LenProperties DEF RowsInv
    <3>3. After(rows, page * limit) = {}
      <4>1. \A j \in DOMAIN rows : ~(j > page * limit)
        BY <1>4, <3>1, <3>2
      <4>2. QED
        BY <4>1 DEF After
    <3>4. base \ H!ToSet(Shown) = {}
      BY <1>3, <2>2, <3>3 DEF MissedInv, Passed
    <3>5. QED
      BY <3>1, <3>4, FS_EmptySet
  <2>3. QED
    BY <2>1, <2>2
<1>9. EndInv'
  BY <1>1, <1>2, <1>3 DEF EndInv
<1>10. QED
  BY <1>1, <1>5, <1>7, <1>8, <1>9 DEF HistoryInv, ReadInv

LEMMA AnswerStep ==
    ASSUME HistoryInv, H!Answer
    PROVE  HistoryInv'
<1>1. RowsInv /\ PageTypes /\ RowsInv' /\ rows' = rows
  BY RowsStep DEF HistoryInv, H!Next, H!Answer
<1>2. /\ at = "asked" /\ got # None /\ total # None
      /\ delivered' = delivered \o got /\ UNCHANGED <<limit, base>>
  BY DEF H!Answer
<1>3. MissedInv /\ RepeatsInv /\ GapInv /\ EndInv
  BY <1>2 DEF HistoryInv, ReadInv
<1>4. Shown = delivered' /\ Passed = page * limit
  BY <1>2 DEF Shown, Passed
<1>5. /\ Shown \in Seq(H!Numbers) /\ Len(Shown) \in Nat
      /\ H!ToSet(Shown) \subseteq H!ToSet(rows)
      /\ IsFiniteSet(H!ToSet(Shown)) /\ Cardinality(H!ToSet(Shown)) \in Nat
      /\ Cardinality(base) \in Nat /\ Len(rows) \in Nat
  BY <1>1, ShownTyped
<1>6. limit > 0 /\ limit \in Nat /\ page \in Nat \ {0} /\ total \in Nat
  BY <1>1, <1>2, <1>5 DEF PageTypes
<1>7. Len(Shown) - Cardinality(H!ToSet(Shown)) <= Len(rows) - Cardinality(base)
  <2>1. IsFiniteSet(H!ToSet(Shown) \cap After(rows, Passed))
    BY <1>5, FS_Intersection
  <2>2. Cardinality(H!ToSet(Shown) \cap After(rows, Passed)) \in Nat
    BY <2>1, FS_CardinalityType
  <2>3. QED
    BY <1>3, <1>5, <2>2 DEF RepeatsInv
<1>8. CASE page < H!TotalPages(total, limit)
  <2>1. /\ at' = "asked" /\ page' = page + 1 /\ got' = None /\ total' = None /\ gap' = 0
    BY <1>8 DEF H!Answer, H!Ask
  <2>2. PageTypes'
    BY <1>1, <1>2, <1>4, <1>5, <1>6, <2>1 DEF PageTypes
  <2>3. Shown' = Shown /\ Passed' = Passed
    <3>1. (page + 1 - 1) * limit = page * limit
      BY <1>6, PagesPassed
    <3>2. QED
      <4>1. Shown' = Shown
        BY <1>2, <2>1 DEF Shown
      <4>2. Passed' = (page' - 1) * limit'
        BY <2>1 DEF Passed
      <4>3. Passed' = (page + 1 - 1) * limit
        <5>1. page' - 1 = page + 1 - 1 /\ limit' = limit
          BY <1>2, <1>6, <2>1
        <5>2. QED
          BY <4>2, <5>1
      <4>4. QED
        BY <1>4, <3>1, <4>1, <4>3
  <2>4. MissedInv' /\ RepeatsInv'
    BY <1>1, <1>2, <1>3, <2>3 DEF MissedInv, RepeatsInv
  <2>5. GapInv'
    BY <2>1 DEF GapInv
  <2>6. EndInv'
    BY <1>1, <1>2, <1>4, <1>7, <2>1 DEF EndInv
  <2>7. QED
    BY <1>1, <2>2, <2>4, <2>5, <2>6 DEF HistoryInv, ReadInv
<1>9. CASE ~(page < H!TotalPages(total, limit))
  <2>1. at' = "read" /\ UNCHANGED <<page, got, total, gap>>
    BY <1>9 DEF H!Answer
  <2>2. PageTypes'
    BY <1>1, <1>2, <1>4, <1>5, <2>1 DEF PageTypes
  <2>3. page * limit >= total
    BY <1>6, <1>9, LastPage
  <2>4. Cardinality(base \ H!ToSet(Shown)) <= gap
    BY <1>2, <1>3, <2>3 DEF GapInv
  <2>5. EndInv'
    BY <1>1, <1>2, <1>4, <1>7, <2>1, <2>4 DEF EndInv
  <2>6. QED
    BY <1>1, <2>1, <2>2, <2>5 DEF HistoryInv, ReadInv
<1>10. QED
  BY <1>8, <1>9

LEMMA HistoryStep == HistoryInv /\ H!Next => HistoryInv'
<1> SUFFICES ASSUME HistoryInv, H!Next PROVE HistoryInv'
  OBVIOUS
<1>1. CASE H!QueryFails
  <2>1. /\ at' = "failed" /\ UNCHANGED <<rows, inserts, limit, page, got, total, gap, base, delivered>>
    BY <1>1 DEF H!QueryFails, H!pageVars
  <2>2. RowsInv'
    BY RowsStep
  <2>3. PageTypes' /\ EndInv'
    BY <2>1 DEF HistoryInv, PageTypes, EndInv
  <2>4. QED
    BY <2>1, <2>2, <2>3 DEF HistoryInv, ReadInv
<1>2. CASE H!Expire \/ H!DownloadStatement
  <2>1. UNCHANGED <<rows, inserts, at, limit, page, got, total, gap, base, delivered>>
    BY <1>2 DEF H!Expire, H!DownloadStatement, H!pageVars
  <2>2. Shown' = Shown /\ Passed' = Passed
    BY <2>1 DEF Shown, Passed
  <2>3. RowsInv' /\ PageTypes' /\ EndInv'
    BY <2>1, RowsStep DEF HistoryInv, PageTypes, EndInv
  <2>4. ReadInv'
    BY <2>1, <2>2 DEF HistoryInv, ReadInv, MissedInv, RepeatsInv, GapInv
  <2>5. QED
    BY <2>3, <2>4 DEF HistoryInv
<1>3. QED
  BY <1>1, <1>2, InsertStep, OpenStep, ReadRowsStep, ReadTotalStep, AnswerStep DEF H!Next

LEMMA HistoryStill ==
    ASSUME HistoryInv, UNCHANGED H!vars
    PROVE  HistoryInv'
<1>1. UNCHANGED <<rows, inserts, at, limit, page, got, total, gap, base, delivered>>
  BY DEF H!vars, H!pageVars
<1>2. Shown' = Shown /\ Passed' = Passed
  BY <1>1 DEF Shown, Passed
<1>3. RowsInv' /\ PageTypes' /\ EndInv'
  BY <1>1 DEF HistoryInv, RowsInv, Distinct, PageTypes, EndInv
<1>4. ReadInv'
  BY <1>1, <1>2 DEF HistoryInv, ReadInv, MissedInv, RepeatsInv, GapInv
<1>5. QED
  BY <1>3, <1>4 DEF HistoryInv

LEMMA HistoryTyped ==
    HistoryInv => H!TypeOK /\ H!MissedExplained /\ H!RepeatsExplained
<1> SUFFICES ASSUME HistoryInv PROVE H!TypeOK /\ H!MissedExplained /\ H!RepeatsExplained
  OBVIOUS
<1>1. H!TypeOK
  <2>1. H!ToSet(rows) \subseteq H!Numbers /\ Len(rows) = Initial + inserts
    BY HistoryConstants DEF HistoryInv, RowsInv, H!Numbers
  <2>2. QED
    BY <2>1 DEF HistoryInv, RowsInv, PageTypes, H!TypeOK
<1>2. H!MissedExplained /\ H!RepeatsExplained
  BY SameSets DEF HistoryInv, EndInv, H!MissedExplained, H!RepeatsExplained
<1>3. QED
  BY <1>1, <1>2

-----------------------------------------------------------------------------
(* All together: the one that runs keeps its invariant.                    *)

RecordsInv ==
    /\ part = "onboarding" => OnboardingInv
    /\ part = "deposits"   => DepositsInv
    /\ part = "fraud"      => FraudInv
    /\ part = "transfer"   => PayInv
    /\ part = "history"    => HistoryInv
    /\ part = "calendar"   => CalendarInv

LEMMA StandsStill ==
    UNCHANGED vars =>
        /\ part' = part
        /\ UNCHANGED O!vars /\ UNCHANGED D!vars /\ UNCHANGED F!vars
        /\ UNCHANGED P!vars /\ UNCHANGED H!vars /\ UNCHANGED C!vars
BY DEF vars, onboardingVars, depositsVars, fraudVars, transferVars, historyVars, calendarVars,
       O!vars, D!vars, F!vars, P!vars, P!pageVars, H!vars, H!pageVars, C!vars

LEMMA RecordsInit == Init => RecordsInv
BY OnboardingInit, DepositsInit, FraudInit, PayInit, HistoryInit, CalendarInit
   DEF Init, RecordsInv

LEMMA RecordsStep == RecordsInv /\ [Next]_vars => RecordsInv'
<1> SUFFICES ASSUME RecordsInv, [Next]_vars PROVE RecordsInv'
  OBVIOUS
<1> USE StandsStill DEF Next, OnboardingNext, DepositsNext, FraudNext, TransferNext,
                        HistoryNext, CalendarNext
<1>1. part' = part
  OBVIOUS
<1>2. part = "onboarding" => OnboardingInv'
  BY OnboardingStep, OnboardingStill DEF RecordsInv
<1>3. part = "deposits" => DepositsInv'
  BY DepositsStep, DepositsStill DEF RecordsInv
<1>4. part = "fraud" => FraudInv'
  BY FraudStep, FraudStill DEF RecordsInv
<1>5. part = "transfer" => PayInv'
  BY PayStep, PayStill DEF RecordsInv
<1>6. part = "history" => HistoryInv'
  BY HistoryStep, HistoryStill DEF RecordsInv
<1>7. part = "calendar" => CalendarInv'
  BY CalendarStep, CalendarStill DEF RecordsInv
<1>8. QED
  BY <1>1, <1>2, <1>3, <1>4, <1>5, <1>6, <1>7 DEF RecordsInv

LEMMA RecordsInvariant == Spec => []RecordsInv
BY RecordsInit, RecordsStep, PTL DEF Spec

\* The state of the part that runs has its type: no worker tries more than
\* MaxAttempts numbers (accountModel.js:22-37), no page is read beyond the highest
\* limit (accountController.js:66), every next run is a date (scheduler.js:11-20).
THEOREM TypeCorrect == Spec => []TypeOK
<1>1. RecordsInv => TypeOK
  BY OnboardingTyped, DepositsTyped, FraudTyped, PayTyped, HistoryTyped, CalendarTyped
     DEF RecordsInv, TypeOK
<1>2. QED
  BY <1>1, RecordsInvariant, PTL

\* Whatever the number of registrations, of runs of the seed script and of failures:
\* what a registration is told is so, a user without an account is one whose making
\* was disturbed, and undisturbed each demo user has an opening balance
\* (authController.js:36-53, accountModel.js:22-37, seed.js:31).
THEOREM OnboardingIsTrueProved == Spec => []OnboardingIsTrue
<1>1. RecordsInv => OnboardingIsTrue
  BY OnboardingTyped DEF RecordsInv, OnboardingIsTrue
<1>2. QED
  BY <1>1, RecordsInvariant, PTL

\* The page preselects no deposit to pay from, and a deposit no request has named
\* is whole until it matures (Transfer.js:25, accountModel.js:114).
THEOREM DepositsHoldProved == Spec => []DepositsHold
<1>1. RecordsInv => DepositsHold
  BY DepositsTyped DEF RecordsInv, DepositsHold
<1>2. QED
  BY <1>1, RecordsInvariant, PTL

\* MaxTxns debits within the window have left an alert, in whatever order they
\* committed and were counted, and so has every large transfer no fault has hit
\* (fraudDetection.js:73-105).
THEOREM TransfersNoticedProved == Spec => []TransfersNoticed
<1>1. RecordsInv => TransfersNoticed
  BY FraudTyped DEF RecordsInv, TransfersNoticed
<1>2. QED
  BY <1>1, RecordsInvariant, PTL

\* Who is saved as a beneficiary has been paid, under the name of that payment, and
\* no more often than paid (Transfer.js:48, beneficiaryController.js:17).
THEOREM SavedWasPaidProved == Spec => []SavedWasPaid
<1>1. RecordsInv => SavedWasPaid
  BY DEF RecordsInv, PayInv, SavedInv, SavedWasPaid
<1>2. QED
  BY <1>1, RecordsInvariant, PTL

\* Whatever the limit and however many rows come while they are read: a reader of
\* all pages misses no more rows than came between the last total and its rows, and
\* reads again no more than came since the first page (accountController.js:66).
THEOREM PagesExplainedProved == Spec => []PagesExplained
<1>1. RecordsInv => PagesExplained
  BY HistoryTyped DEF RecordsInv, PagesExplained
<1>2. QED
  BY <1>1, RecordsInvariant, PTL

\* From any date of any year, over any number of runs: a weekly step is 7 days by
\* the count of days, a monthly one the length of its month, one month at most is
\* skipped, and no deposit matures early (scheduler.js:18-19, accountModel.js:50).
THEOREM DatesAreRightProved == Spec => DatesAreRight
<1>1. RecordsInv => (part = "calendar" => C!SkipsAtMostOneMonth /\ C!MaturityIsNotEarly)
  BY CalendarTyped DEF RecordsInv
<1>2. RecordsInv /\ [Next]_vars => [part = "calendar" => C!StepIsRightInDays]_vars
  <2> SUFFICES ASSUME RecordsInv, Next, part = "calendar" PROVE C!StepIsRightInDays
    OBVIOUS
  <2>1. C!Next
    BY DEF Next, OnboardingNext, DepositsNext, FraudNext, TransferNext, HistoryNext, CalendarNext
  <2>2. QED
    BY <2>1, CalendarStep DEF RecordsInv
<1>3. QED
  BY <1>1, <1>2, RecordsInvariant, PTL DEF Spec, DatesAreRight
==============================================================================
