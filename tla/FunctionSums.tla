---------------------------- MODULE FunctionSums ----------------------------
(***************************************************************************)
(* Facts about SumFunction of module Functions, a fold over a finite set,  *)
(* for the invariants that count.  Induction is by the smallest            *)
(* counterexample.                                                         *)
(***************************************************************************)
EXTENDS Functions, Integers, FiniteSets, FiniteSetTheorems, WellFoundedInduction, TLAPS

LessThan == {p \in Nat \X Nat : p[1] < p[2]}

LEMMA SmallestNumber ==
    ASSUME NEW T \in SUBSET Nat, T # {}
    PROVE  \E n \in T : \A m \in T : n <= m
<1>1. IsWellFoundedOn(LessThan, Nat)
  BY NatLessThanWellFounded DEF OpToRel, LessThan
<1>2. PICK n \in T : \A m \in T : ~ (<<m, n>> \in LessThan)
  BY <1>1, WFMin
<1>3. ASSUME NEW m \in T PROVE n <= m
  <2>1. <<m, n>> \notin LessThan /\ m \in Nat /\ n \in Nat
    BY <1>2
  <2>2. QED
    BY <2>1 DEF LessThan
<1>4. QED
  BY <1>3

LEMMA SmallestSet ==
    ASSUME NEW S, IsFiniteSet(S), NEW Bad \in SUBSET SUBSET S, Bad # {}
    PROVE  \E s \in Bad : \A t \in SUBSET s : t # s => t \notin Bad
<1>1. IsWellFoundedOn(StrictSubsetOrdering(S), SUBSET S)
  BY FS_StrictSubsetOrderingWellFounded, FS_FiniteSubsetsOfFinite
<1>2. PICK s \in Bad : \A t \in Bad : ~ (<<t, s>> \in StrictSubsetOrdering(S))
  BY <1>1, WFMin
<1>3. ASSUME NEW t \in SUBSET s, t # s, t \in Bad PROVE FALSE
  BY <1>2, <1>3 DEF StrictSubsetOrdering
<1>4. QED
  BY <1>3

-----------------------------------------------------------------------------
(* The fold.                                                               *)

Chosen(s) == CHOOSE x \in s : TRUE

\* The sum of the first element of s and of what g gives for the others.
FirstPlus(f, g, s) == IF s = {} THEN 0 ELSE f[Chosen(s)] + g[s \ {Chosen(s)}]

\* g sums f over every subset of S.
IsRun(g, f, S) == g = [s \in SUBSET S |-> FirstPlus(f, g, s)]

LEMMA ChosenIn == \A s : s # {} => Chosen(s) \in s
BY DEF Chosen

LEMMA RunExists ==
    ASSUME NEW S, IsFiniteSet(S), NEW f
    PROVE  \E g : IsRun(g, f, S)
<1> DEFINE Small(n) == {s \in SUBSET S : Cardinality(s) <= n}
           HasRun(n) == \E g : g = [s \in Small(n) |-> FirstPlus(f, g, s)]
           T == {n \in Nat : ~HasRun(n)}
<1>1. T = {}
  <2> SUFFICES ASSUME T # {} PROVE FALSE
    OBVIOUS
  <2>1. PICK n \in T : \A m \in T : n <= m
    BY SmallestNumber
  <2>2. n \in Nat /\ ~HasRun(n)
    BY <2>1
  <2>3. CASE n = 0
    <3>1. \A s \in Small(0) : s = {}
      BY FS_Subset, FS_CardinalityType, FS_EmptySet
    <3> DEFINE g == [s \in Small(0) |-> 0]
    <3>2. g = [s \in Small(0) |-> FirstPlus(f, g, s)]
      BY <3>1 DEF FirstPlus
    <3>3. HasRun(0)
      BY <3>2
    <3>4. QED
      BY <2>2, <2>3, <3>3
  <2>4. CASE n # 0
    <3>1. n - 1 \in Nat /\ ~(n <= n - 1)
      BY <2>2, <2>4
    <3>2. HasRun(n - 1)
      BY <2>1, <3>1
    <3>3. PICK g : g = [s \in Small(n - 1) |-> FirstPlus(f, g, s)]
      BY <3>2
    <3> DEFINE h == [s \in Small(n) |-> FirstPlus(f, g, s)]
    <3>4. ASSUME NEW s \in Small(n) PROVE FirstPlus(f, g, s) = FirstPlus(f, h, s)
      <4>1. CASE s = {}
        BY <4>1 DEF FirstPlus
      <4>2. CASE s # {}
        <5> DEFINE t == s \ {Chosen(s)}
        <5>1. IsFiniteSet(s) /\ Cardinality(s) \in Nat /\ Cardinality(s) <= n
          BY FS_Subset, FS_CardinalityType
        <5>2. Cardinality(t) = Cardinality(s) - 1
          BY <4>2, <5>1, ChosenIn, FS_RemoveElement
        <5>3. t \in Small(n - 1) /\ t \in Small(n)
          BY <2>2, <5>1, <5>2
        <5>4. g[t] = FirstPlus(f, g, t)
          BY <3>3, <5>3
        <5>5. h[t] = FirstPlus(f, g, t)
          BY <5>3
        <5>6. QED
          BY <4>2, <5>4, <5>5 DEF FirstPlus
      <4>3. QED
        BY <4>1, <4>2
    <3>5. h = [s \in Small(n) |-> FirstPlus(f, h, s)]
      BY <3>4
    <3>6. HasRun(n)
      BY <3>5
    <3>7. QED
      BY <2>2, <3>6
  <2>5. QED
    BY <2>3, <2>4
<1>2. Cardinality(S) \in Nat /\ HasRun(Cardinality(S))
  BY <1>1, FS_CardinalityType
<1>3. Small(Cardinality(S)) = SUBSET S
  BY FS_Subset
<1>4. QED
  BY <1>2, <1>3 DEF IsRun

\* SumFunction is what one run gives for the whole domain.
LEMMA SumRun ==
    ASSUME NEW f, IsFiniteSet(DOMAIN f)
    PROVE  \E g : IsRun(g, f, DOMAIN f) /\ SumFunction(f) = g[DOMAIN f]
<1>1. SumFunction(f) = (CHOOSE g : IsRun(g, f, DOMAIN f))[DOMAIN f]
  BY DEF SumFunction, SumFunctionOnSet, FoldFunctionOnSet, MapThenFoldSet,
         IsRun, FirstPlus, Chosen
<1>2. QED
  BY <1>1, RunExists

LEMMA RunFacts ==
    ASSUME NEW S, NEW f, NEW g, IsRun(g, f, S), NEW s \in SUBSET S
    PROVE  /\ s = {} => g[s] = 0
           /\ s # {} => /\ Chosen(s) \in s /\ s \ {Chosen(s)} \in SUBSET S
                        /\ g[s] = f[Chosen(s)] + g[s \ {Chosen(s)}]
<1>1. g[s] = FirstPlus(f, g, s)
  BY DEF IsRun
<1>2. QED
  BY <1>1, ChosenIn DEF FirstPlus

LEMMA EmptyRun ==
    ASSUME NEW S, NEW f, NEW g, IsRun(g, f, S)
    PROVE  g[{}] = 0
<1>1. {} \in SUBSET S
  OBVIOUS
<1>2. QED
  BY <1>1, RunFacts

LEMMA RunType ==
    ASSUME NEW S, IsFiniteSet(S), NEW f \in [S -> Int], NEW g, IsRun(g, f, S)
    PROVE  \A s \in SUBSET S : g[s] \in Int
<1> DEFINE Bad == {s \in SUBSET S : g[s] \notin Int}
<1> SUFFICES ASSUME Bad # {} PROVE FALSE
  OBVIOUS
<1>1. Bad \in SUBSET SUBSET S
  OBVIOUS
<1>2. PICK s \in Bad : \A t \in SUBSET s : t # s => t \notin Bad
  <2> HIDE DEF Bad
  <2>1. QED
    BY <1>1, SmallestSet
<1>3. s \in SUBSET S /\ g[s] \notin Int
  BY <1>2
<1>4. s = {} => g[s] = 0
  BY <1>3, RunFacts
<1>5. s # {} => /\ Chosen(s) \in s /\ s \ {Chosen(s)} \in SUBSET S
                /\ g[s] = f[Chosen(s)] + g[s \ {Chosen(s)}]
  BY <1>3, RunFacts
<1>6. s # {} => g[s \ {Chosen(s)}] \in Int
  BY <1>2, <1>5
<1>7. QED
  BY <1>3, <1>4, <1>5, <1>6

\* A sum of integers is one.
LEMMA SumType ==
    ASSUME NEW S, IsFiniteSet(S), NEW f \in [S -> Int]
    PROVE  SumFunction(f) \in Int
<1>1. DOMAIN f = S
  OBVIOUS
<1>2. QED
  BY <1>1, SumRun, RunType

\* A sum of zeros is zero.
LEMMA SumZero ==
    ASSUME NEW S, IsFiniteSet(S), NEW f \in [S -> Int], \A x \in S : f[x] = 0
    PROVE  SumFunction(f) = 0
<1>1. DOMAIN f = S
  OBVIOUS
<1>2. PICK g : IsRun(g, f, S) /\ SumFunction(f) = g[S]
  BY <1>1, SumRun
<1> DEFINE Bad == {s \in SUBSET S : g[s] # 0}
<1>3. Bad = {}
  <2> SUFFICES ASSUME Bad # {} PROVE FALSE
    OBVIOUS
  <2>1. Bad \in SUBSET SUBSET S
    OBVIOUS
  <2>2. PICK s \in Bad : \A t \in SUBSET s : t # s => t \notin Bad
    <3> HIDE DEF Bad
    <3>1. QED
      BY <2>1, SmallestSet
  <2>3. s \in SUBSET S /\ g[s] # 0
    BY <2>2
  <2>4. s = {} => g[s] = 0
    BY <1>2, <2>3, RunFacts
  <2>5. s # {} => /\ Chosen(s) \in s /\ s \ {Chosen(s)} \in SUBSET S
                  /\ g[s] = f[Chosen(s)] + g[s \ {Chosen(s)}]
    BY <1>2, <2>3, RunFacts
  <2>6. s # {} => g[s \ {Chosen(s)}] = 0 /\ f[Chosen(s)] = 0
    BY <2>2, <2>3, <2>5
  <2>7. QED
    BY <2>3, <2>4, <2>5, <2>6
<1>4. QED
  BY <1>2, <1>3

\* A sum of numbers is one.
LEMMA SumNatural ==
    ASSUME NEW S, IsFiniteSet(S), NEW f \in [S -> Nat]
    PROVE  SumFunction(f) \in Nat
<1>1. DOMAIN f = S
  OBVIOUS
<1>2. PICK g : IsRun(g, f, S) /\ SumFunction(f) = g[S]
  BY <1>1, SumRun
<1> DEFINE Bad == {s \in SUBSET S : g[s] \notin Nat}
<1>3. Bad = {}
  <2> SUFFICES ASSUME Bad # {} PROVE FALSE
    OBVIOUS
  <2>1. Bad \in SUBSET SUBSET S
    OBVIOUS
  <2>2. PICK s \in Bad : \A t \in SUBSET s : t # s => t \notin Bad
    <3> HIDE DEF Bad
    <3>1. QED
      BY <2>1, SmallestSet
  <2>3. s \in SUBSET S /\ g[s] \notin Nat
    BY <2>2
  <2>4. s = {} => g[s] = 0
    BY <1>2, EmptyRun
  <2>5. s # {} => /\ Chosen(s) \in s /\ s \ {Chosen(s)} \in SUBSET S
                  /\ g[s] = f[Chosen(s)] + g[s \ {Chosen(s)}]
    BY <1>2, <2>3, RunFacts
  <2>6. s # {} => g[s \ {Chosen(s)}] \in Nat /\ f[Chosen(s)] \in Nat
    BY <2>2, <2>3, <2>5
  <2>7. QED
    BY <2>3, <2>4, <2>5, <2>6
<1>4. QED
  BY <1>2, <1>3

\* One value changes, and the sum by as much.
LEMMA SumChanged ==
    ASSUME NEW S, IsFiniteSet(S), NEW f \in [S -> Int], NEW h \in [S -> Int],
           NEW a \in S, \A x \in S : x # a => h[x] = f[x]
    PROVE  SumFunction(h) = SumFunction(f) - f[a] + h[a]
<1> DEFINE v == h[a]
<1>1. DOMAIN f = S /\ DOMAIN h = S /\ f[a] \in Int /\ v \in Int
  OBVIOUS
<1>2. h[a] = v /\ \A x \in S : x # a => h[x] = f[x]
  OBVIOUS
<1> HIDE DEF v
<1>3. PICK g : IsRun(g, f, S) /\ SumFunction(f) = g[S]
  BY <1>1, SumRun
<1>4. PICK k : IsRun(k, h, S) /\ SumFunction(h) = k[S]
  BY <1>1, SumRun
<1>5. \A s \in SUBSET S : g[s] \in Int /\ k[s] \in Int
  BY <1>1, <1>3, <1>4, RunType
<1> DEFINE Right(s) == k[s] = IF a \in s THEN g[s] - f[a] + v ELSE g[s]
           Bad == {s \in SUBSET S : ~Right(s)}
<1>6. Bad = {}
  <2> SUFFICES ASSUME Bad # {} PROVE FALSE
    OBVIOUS
  <2>1. PICK s \in Bad : \A t \in SUBSET s : t # s => t \notin Bad
    <3>1. Bad \in SUBSET SUBSET S
      OBVIOUS
    <3> HIDE DEF Bad
    <3>2. QED
      BY <3>1, SmallestSet
  <2>2. s \in SUBSET S /\ s # {}
    <3>1. s \in SUBSET S /\ ~Right(s)
      BY <2>1
    <3>2. g[{}] = 0 /\ k[{}] = 0
      BY <1>3, <1>4, EmptyRun
    <3>3. QED
      BY <3>1, <3>2
  <2> DEFINE c == Chosen(s)
             t == s \ {c}
  <2>3. /\ c \in s /\ t \in SUBSET S /\ s \in SUBSET S
        /\ g[s] = f[c] + g[t] /\ k[s] = h[c] + k[t]
    <3>1. IsRun(g, f, S) /\ IsRun(k, h, S)
      BY <1>3, <1>4
    <3>2. g[s] = f[c] + g[t] /\ c \in s /\ t \in SUBSET S
      BY <2>2, <3>1, RunFacts
    <3>3. k[s] = h[c] + k[t]
      BY <2>2, <3>1, RunFacts
    <3>4. QED
      BY <2>2, <3>2, <3>3
  <2>4. Right(t)
    BY <2>1, <2>3
  <2>5. f[c] \in Int /\ h[c] \in Int /\ g[t] \in Int /\ k[t] \in Int
    BY <1>1, <1>5, <2>3
  <2>6. (a \in t <=> a \in s /\ a # c) /\ (c = a => h[c] = v /\ f[c] = f[a])
        /\ (c # a => h[c] = f[c])
    BY <1>2, <2>3
  <2> HIDE DEF c, t
  <2>7. Right(s)
    BY <1>1, <2>3, <2>4, <2>5, <2>6
  <2>8. QED
    BY <2>7
<1>7. Right(S)
  BY <1>6
<1>8. QED
  BY <1>3, <1>4, <1>7 DEF v

\* What one value loses another gains.
LEMMA SumMoved ==
    ASSUME NEW S, IsFiniteSet(S), NEW f \in [S -> Int], NEW h \in [S -> Int],
           NEW a \in S, NEW b \in S, a # b, h[a] + h[b] = f[a] + f[b],
           \A x \in S : x # a /\ x # b => h[x] = f[x]
    PROVE  SumFunction(h) = SumFunction(f)
<1> DEFINE k == [f EXCEPT ![a] = h[a]]
<1>1. k \in [S -> Int] /\ k[a] = h[a] /\ \A x \in S : x # a => k[x] = f[x]
  OBVIOUS
<1>2. \A x \in S : x # b => h[x] = k[x]
  OBVIOUS
<1> HIDE DEF k
<1>3. SumFunction(k) = SumFunction(f) - f[a] + k[a]
  BY <1>1, SumChanged
<1>4. SumFunction(h) = SumFunction(k) - k[b] + h[b]
  BY <1>1, <1>2, SumChanged
<1>5. SumFunction(f) \in Int
  BY SumType
<1>6. f[a] \in Int /\ f[b] \in Int /\ h[a] \in Int /\ h[b] \in Int
  OBVIOUS
<1>7. QED
  BY <1>1, <1>3, <1>4, <1>5, <1>6

UpByOne(f, n) == [a \in 0 .. n |-> IF a = 0 THEN 0 ELSE f[a - 1]]

\* Numbers that move up by one place, the last of them out: no more is left.
LEMMA SumShifted ==
    ASSUME NEW n \in Nat, NEW f \in [0 .. n -> Nat]
    PROVE  /\ SumFunction(UpByOne(f, n)) \in Nat /\ SumFunction(f) \in Nat
           /\ SumFunction(UpByOne(f, n)) <= SumFunction(f)
<1> DEFINE S == 0 .. n
           h == UpByOne(f, n)
           Below(k) == [a \in S |-> IF a < k THEN f[a] ELSE 0]
           Moved(k) == [a \in S |-> IF 0 < a /\ a <= k THEN f[a - 1] ELSE 0]
           Right(k) == SumFunction(Moved(k)) = SumFunction(Below(k))
           Bad == {k \in 0 .. n : ~Right(k)}
<1>1. IsFiniteSet(S)
  BY FS_Interval
<1>2. \A a \in S : f[a] \in Nat /\ (a # 0 => a - 1 \in S)
  OBVIOUS
<1>3. h \in [S -> Nat]
  BY <1>2 DEF UpByOne
<1>4. \A k \in Nat : Below(k) \in [S -> Int] /\ Moved(k) \in [S -> Int]
  BY <1>2
<1>5. Right(0)
  <2>1. (\A a \in S : Below(0)[a] = 0) /\ (\A a \in S : Moved(0)[a] = 0)
    OBVIOUS
  <2>2. Below(0) \in [S -> Int] /\ Moved(0) \in [S -> Int]
    BY <1>4
  <2> HIDE DEF S, Below, Moved
  <2>3. SumFunction(Below(0)) = 0 /\ SumFunction(Moved(0)) = 0
    BY <1>1, <2>1, <2>2, SumZero
  <2>4. QED
    BY <2>3
<1>6. ASSUME NEW k \in 1 .. n, Right(k - 1) PROVE Right(k)
  <2>1. k \in S /\ k - 1 \in S /\ k \in Nat /\ k - 1 \in Nat
    OBVIOUS
  <2>2. /\ \A a \in S : a # k - 1 => Below(k)[a] = Below(k - 1)[a]
        /\ Below(k - 1)[k - 1] = 0 /\ Below(k)[k - 1] = f[k - 1]
    BY <2>1
  <2>3. /\ \A a \in S : a # k => Moved(k)[a] = Moved(k - 1)[a]
        /\ Moved(k - 1)[k] = 0 /\ Moved(k)[k] = f[k - 1]
    BY <2>1
  <2>4. f[k - 1] \in Int
    BY <1>2, <2>1
  <2>5. /\ Below(k) \in [S -> Int] /\ Below(k - 1) \in [S -> Int]
        /\ Moved(k) \in [S -> Int] /\ Moved(k - 1) \in [S -> Int]
    BY <1>4, <2>1
  <2> HIDE DEF S, Below, Moved
  <2>6. SumFunction(Below(k))
          = SumFunction(Below(k - 1)) - Below(k - 1)[k - 1] + Below(k)[k - 1]
    <3> DEFINE x == k - 1
               b == Below(k - 1)
               c == Below(k)
    <3>1. x \in S /\ b \in [S -> Int] /\ c \in [S -> Int]
      BY <2>1, <2>5
    <3>2. \A a \in S : a # x => c[a] = b[a]
      BY <2>2
    <3> HIDE DEF x, b, c
    <3>3. SumFunction(c) = SumFunction(b) - b[x] + c[x]
      BY <1>1, <3>1, <3>2, SumChanged
    <3>4. QED
      BY <3>3 DEF x, b, c
  <2>7. SumFunction(Moved(k))
          = SumFunction(Moved(k - 1)) - Moved(k - 1)[k] + Moved(k)[k]
    <3> DEFINE x == k
               b == Moved(k - 1)
               c == Moved(k)
    <3>1. x \in S /\ b \in [S -> Int] /\ c \in [S -> Int]
      BY <2>1, <2>5
    <3>2. \A a \in S : a # x => c[a] = b[a]
      BY <2>3
    <3> HIDE DEF x, b, c
    <3>3. SumFunction(c) = SumFunction(b) - b[x] + c[x]
      BY <1>1, <3>1, <3>2, SumChanged
    <3>4. QED
      BY <3>3 DEF x, b, c
  <2>8. QED
    BY <1>6, <2>2, <2>3, <2>6, <2>7
<1>7. Bad = {}
  <2> SUFFICES ASSUME Bad # {} PROVE FALSE
    OBVIOUS
  <2>1. Bad \in SUBSET Nat
    OBVIOUS
  <2>2. PICK k \in Bad : \A m \in Bad : k <= m
    <3> HIDE DEF Bad
    <3>1. QED
      BY <2>1, SmallestNumber
  <2>3. k \in 0 .. n /\ ~Right(k)
    BY <2>2
  <2> HIDE DEF Right
  <2>4. k # 0
    BY <1>5, <2>3
  <2>5. k \in 1 .. n /\ k - 1 \in 0 .. n /\ ~(k <= k - 1)
    BY <2>3, <2>4
  <2>6. Right(k - 1)
    BY <2>2, <2>5
  <2>7. QED
    BY <1>6, <2>3, <2>5, <2>6
<1>8. Right(n)
  <2>1. n \in 0 .. n
    OBVIOUS
  <2> HIDE DEF Right
  <2>2. QED
    BY <1>7, <2>1
<1>9. Moved(n) = h
  BY DEF UpByOne
<1>10. SumFunction(f) = SumFunction(Below(n)) - Below(n)[n] + f[n]
  <2>1. /\ \A a \in S : a # n => f[a] = Below(n)[a]
        /\ Below(n)[n] = 0 /\ n \in S
    OBVIOUS
  <2>2. f \in [S -> Int] /\ Below(n) \in [S -> Int]
    BY <1>4
  <2> HIDE DEF S, Below
  <2>3. QED
    <3>1. IsFiniteSet(S) /\ n \in S
      BY <1>1, <2>1
    <3>2. \A a \in S : a # n => f[a] = Below(n)[a]
      BY <2>1
    <3>3. QED
      BY <2>2, <3>1, <3>2, SumChanged
<1>11. f[n] \in Nat /\ Below(n)[n] = 0
  OBVIOUS
<1>12. SumFunction(h) \in Nat /\ SumFunction(f) \in Nat
  BY <1>1, <1>3, SumNatural
<1> HIDE DEF Below, Moved
<1>13. SumFunction(h) = SumFunction(Below(n))
  BY <1>8, <1>9
<1>14. QED
  BY <1>10, <1>11, <1>12, <1>13
=============================================================================
