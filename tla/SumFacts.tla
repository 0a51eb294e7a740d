------------------------------- MODULE SumFacts -------------------------------
(***************************************************************************)
(* Facts about the sums the models are built from, and about recursive     *)
(* functions.  The community modules define SumFunctionOnSet by recursion  *)
(* over the subsets of a set; what it computes is proved here once: that   *)
(* the recursion has a solution, that the order in which elements are      *)
(* taken does not matter, and the bounds.                                  *)
(***************************************************************************)
EXTENDS Integers, FiniteSets, Functions, FiniteSetTheorems, WellFoundedInduction, TLAPS

Pick(s) == CHOOSE x \in s : TRUE

\* g gives the sum of f over every subset of S, one picked element at a time.
Totals(g, f, S) ==
  g = [s \in SUBSET S |-> IF s = {} THEN 0 ELSE f[Pick(s)] + g[s \ {Pick(s)}]]

SumOf(f, S) == (CHOOSE g : Totals(g, f, S))[S]

\* The operator of the community modules is that sum.
LEMMA SumIsSumOf ==
  ASSUME NEW S, NEW f
  PROVE  SumFunctionOnSet(f, S) = SumOf(f, S)
BY DEF SumFunctionOnSet, FoldFunctionOnSet, MapThenFoldSet, SumOf, Totals, Pick

LEMMA Picked == ASSUME NEW s, s # {} PROVE Pick(s) \in s
BY DEF Pick

\* Among subsets of a finite set there is one that contains no other.
LEMMA SmallestExists ==
  ASSUME NEW S, IsFiniteSet(S), NEW B \in SUBSET SUBSET S, B # {}
  PROVE  \E s \in B : \A t \in B : t \subseteq s => t = s
<1>1. IsWellFoundedOn(StrictSubsetOrdering(S), FiniteSubsetsOf(S)) /\ FiniteSubsetsOf(S) = SUBSET S
  BY FS_StrictSubsetOrderingWellFounded, FS_FiniteSubsetsOfFinite
<1>2. PICK s \in B : \A t \in B : ~(<<t, s>> \in StrictSubsetOrdering(S))
  BY <1>1, WFMin
<1>3. ASSUME NEW t \in B, t \subseteq s PROVE t = s
  <2>1. ~(<<t, s>> \in StrictSubsetOrdering(S)) /\ t \in SUBSET S /\ s \in SUBSET S
    BY <1>2
  <2>2. QED
    BY <1>3, <2>1 DEF StrictSubsetOrdering
<1>4. QED
  BY <1>3

-----------------------------------------------------------------------------
(* The recursion has a solution: one over the subsets of n elements at     *)
(* most extends to those of n + 1.                                         *)

UpTo(S, n) == {s \in SUBSET S : Cardinality(s) <= n}
Partial(g, f, S, n) ==
  \A s \in UpTo(S, n) : g[s] = IF s = {} THEN 0 ELSE f[Pick(s)] + g[s \ {Pick(s)}]

LEMMA SubsetFacts ==
  ASSUME NEW S, IsFiniteSet(S), NEW s \in SUBSET S
  PROVE  /\ IsFiniteSet(s) /\ Cardinality(s) \in Nat /\ Cardinality(s) <= Cardinality(S)
         /\ Cardinality(s) = 0 <=> s = {}
         /\ s # {} => Cardinality(s \ {Pick(s)}) = Cardinality(s) - 1
<1>1. IsFiniteSet(s) /\ Cardinality(s) <= Cardinality(S)
  BY FS_Subset
<1>2. Cardinality(s) \in Nat /\ (Cardinality(s) = 0 <=> s = {})
  BY <1>1, FS_CardinalityType, FS_EmptySet
<1>3. s # {} => Cardinality(s \ {Pick(s)}) = Cardinality(s) - 1
  BY <1>1, Picked, FS_RemoveElement
<1>4. QED
  BY <1>1, <1>2, <1>3

LEMMA PartialExtends ==
  ASSUME NEW S, IsFiniteSet(S), NEW f, NEW n \in Nat, NEW g, Partial(g, f, S, n)
  PROVE  \E h : Partial(h, f, S, n + 1)
<1>1. DEFINE Later(s) == f[Pick(s)] + g[s \ {Pick(s)}]
             h == [s \in UpTo(S, n + 1) |-> IF Cardinality(s) <= n THEN g[s] ELSE Later(s)]
<1>2. ASSUME NEW s \in UpTo(S, n + 1)
      PROVE  h[s] = IF s = {} THEN 0 ELSE f[Pick(s)] + h[s \ {Pick(s)}]
  <2>1. s \in SUBSET S /\ Cardinality(s) \in Nat /\ Cardinality(s) <= n + 1
    BY SubsetFacts DEF UpTo
  <2>2. CASE s = {}
    <3>1. s \in UpTo(S, n) /\ Cardinality(s) <= n
      <4>1. Cardinality(s) = 0
        BY <2>1, <2>2, SubsetFacts
      <4>2. QED
        BY <2>1, <4>1 DEF UpTo
    <3>2. g[s] = 0
      BY <2>2, <3>1 DEF Partial
    <3>3. QED
      BY <2>2, <3>1, <3>2
  <2>3. CASE s # {}
    <3>1. DEFINE t == s \ {Pick(s)}
    <3>2. t \in SUBSET S /\ Cardinality(t) = Cardinality(s) - 1
      BY <2>1, <2>3, SubsetFacts
    <3>3. Cardinality(t) \in Nat /\ Cardinality(t) <= n
      BY <2>1, <3>2, SubsetFacts
    <3>4. h[t] = g[t]
      <4>1. t \in UpTo(S, n + 1)
        BY <3>2, <3>3 DEF UpTo
      <4>2. HIDE DEF t, Later
      <4>3. QED
        BY <3>3, <4>1
    <3>5. h[s] = f[Pick(s)] + g[t]
      <4>1. CASE Cardinality(s) <= n
        <5>1. s \in UpTo(S, n)
          BY <2>1, <4>1 DEF UpTo
        <5>2. g[s] = f[Pick(s)] + g[t]
          BY <2>3, <5>1 DEF Partial
        <5>3. HIDE DEF t, Later
        <5>4. QED
          BY <4>1, <5>2
      <4>2. CASE ~(Cardinality(s) <= n)
        <5>1. Later(s) = f[Pick(s)] + g[t]
          OBVIOUS
        <5>2. HIDE DEF t, Later
        <5>3. QED
          BY <4>2, <5>1
      <4>3. QED
        BY <4>1, <4>2
    <3>6. QED
      BY <2>3, <3>4, <3>5
  <2>4. QED
    BY <2>2, <2>3
<1>3. Partial(h, f, S, n + 1)
  BY <1>2 DEF Partial
<1>4. QED
  BY <1>3

LEMMA PartialExists ==
  ASSUME NEW S, IsFiniteSet(S), NEW f, NEW n \in Nat
  PROVE  \E g : Partial(g, f, S, n)
<1>1. DEFINE Bad == {m \in Nat : ~\E g : Partial(g, f, S, m)}
<1>2. ASSUME Bad # {} PROVE FALSE
  <2>1. DEFINE R == {ss \in Nat \X Nat : ss[1] < ss[2]}
  <2>2. IsWellFoundedOn(R, Nat)
    BY NatLessThanWellFounded DEF OpToRel
  <2>3. PICK m \in Bad : \A k \in Bad : ~(<<k, m>> \in R)
    <3>1. Bad \subseteq Nat
      OBVIOUS
    <3>2. HIDE DEF R, Bad
    <3>3. QED
      BY <1>2, <2>2, <3>1, WFMin
  <2>4. m \in Nat /\ ~\E g : Partial(g, f, S, m)
    BY <2>3
  <2>5. CASE m = 0
    <3>1. \A s \in UpTo(S, 0) : s = {}
      <4>1. ASSUME NEW s \in UpTo(S, 0) PROVE s = {}
        <5>1. s \in SUBSET S /\ Cardinality(s) <= 0
          BY <4>1 DEF UpTo
        <5>2. Cardinality(s) \in Nat /\ (Cardinality(s) = 0 <=> s = {})
          BY <5>1, SubsetFacts
        <5>3. QED
          BY <5>1, <5>2
      <4>2. QED
        BY <4>1
    <3>2. Partial([s \in {{}} |-> 0], f, S, 0)
      BY <3>1 DEF Partial
    <3>3. QED
      BY <2>4, <2>5, <3>2
  <2>6. CASE m # 0
    <3>1. m - 1 \in Nat /\ (m - 1) + 1 = m /\ m - 1 < m
      BY <2>4, <2>6
    <3>2. m - 1 \notin Bad
      BY <2>3, <2>4, <3>1
    <3>3. PICK g : Partial(g, f, S, m - 1)
      BY <3>1, <3>2
    <3>4. QED
      BY <2>4, <3>1, <3>3, PartialExtends
  <2>7. QED
    BY <2>5, <2>6
<1>3. QED
  BY <1>2

LEMMA TotalsExist ==
  ASSUME NEW S, IsFiniteSet(S), NEW f
  PROVE  \E g : Totals(g, f, S)
<1>1. Cardinality(S) \in Nat
  BY FS_CardinalityType
<1>2. PICK h : Partial(h, f, S, Cardinality(S))
  BY <1>1, PartialExists
<1>3. UpTo(S, Cardinality(S)) = SUBSET S
  BY SubsetFacts DEF UpTo
<1>4. DEFINE g == [s \in SUBSET S |-> h[s]]
<1>5. ASSUME NEW s \in SUBSET S
      PROVE  g[s] = IF s = {} THEN 0 ELSE f[Pick(s)] + g[s \ {Pick(s)}]
  <2>1. h[s] = IF s = {} THEN 0 ELSE f[Pick(s)] + h[s \ {Pick(s)}]
    BY <1>2, <1>3 DEF Partial
  <2>2. s \ {Pick(s)} \in SUBSET S
    OBVIOUS
  <2>3. g[s] = h[s] /\ g[s \ {Pick(s)}] = h[s \ {Pick(s)}]
    BY <2>2
  <2>4. QED
    BY <2>1, <2>3
<1>6. g = [s \in SUBSET S |-> g[s]]
  OBVIOUS
<1>7. HIDE DEF g
<1>8. Totals(g, f, S)
  BY <1>5, <1>6 DEF Totals
<1>9. QED
  BY <1>8

-----------------------------------------------------------------------------
(* What the solution is. *)

LEMMA TotalsUnfold ==
  ASSUME NEW S, NEW f, NEW g, Totals(g, f, S), NEW s \in SUBSET S
  PROVE  g[s] = IF s = {} THEN 0 ELSE f[Pick(s)] + g[s \ {Pick(s)}]
<1>1. g = [t \in SUBSET S |-> IF t = {} THEN 0 ELSE f[Pick(t)] + g[t \ {Pick(t)}]]
  BY DEF Totals
<1>2. DEFINE h == [t \in SUBSET S |-> IF t = {} THEN 0 ELSE f[Pick(t)] + g[t \ {Pick(t)}]]
<1>3. h[s] = IF s = {} THEN 0 ELSE f[Pick(s)] + g[s \ {Pick(s)}]
  OBVIOUS
<1>4. g = h
  BY <1>1
<1>5. HIDE DEF h
<1>6. QED
  BY <1>3, <1>4

LEMMA SumOfTotals ==
  ASSUME NEW S, IsFiniteSet(S), NEW f
  PROVE  \E g : Totals(g, f, S) /\ SumOf(f, S) = g[S]
BY TotalsExist DEF SumOf

\* Two solutions agree on what both are about.
LEMMA TotalsAgree ==
  ASSUME NEW S, IsFiniteSet(S), NEW T, NEW f, NEW g, NEW f2, NEW g2,
         Totals(g, f, S), Totals(g2, f2, T), S \subseteq T, \A x \in S : f[x] = f2[x]
  PROVE  \A s \in SUBSET S : g[s] = g2[s]
<1>1. DEFINE Bad == {s \in SUBSET S : g[s] # g2[s]}
<1>2. ASSUME Bad # {} PROVE FALSE
  <2>1. PICK s \in Bad : \A t \in Bad : t \subseteq s => t = s
    <3>1. Bad \in SUBSET SUBSET S
      OBVIOUS
    <3>2. HIDE DEF Bad
    <3>3. QED
      BY <1>2, <3>1, SmallestExists
  <2>2. s \in SUBSET S /\ s \in SUBSET T
    OBVIOUS
  <2>3. /\ g[s] = IF s = {} THEN 0 ELSE f[Pick(s)] + g[s \ {Pick(s)}]
        /\ g2[s] = IF s = {} THEN 0 ELSE f2[Pick(s)] + g2[s \ {Pick(s)}]
    BY <2>2, TotalsUnfold
  <2>4. s # {}
    BY <2>1, <2>3
  <2>5. Pick(s) \in s
    BY <2>4, Picked
  <2>6. g[s \ {Pick(s)}] = g2[s \ {Pick(s)}]
    <3>1. DEFINE t == s \ {Pick(s)}
    <3>2. t \in SUBSET S /\ t \subseteq s /\ t # s
      BY <2>2, <2>5
    <3>3. HIDE DEF t
    <3>4. t \notin Bad
      BY <2>1, <3>2
    <3>5. g[t] = g2[t]
      BY <3>2, <3>4
    <3>6. QED
      BY <3>5 DEF t
  <2>7. f[Pick(s)] = f2[Pick(s)]
    BY <2>2, <2>5
  <2>8. g[s] = g2[s]
    BY <2>3, <2>4, <2>6, <2>7
  <2>9. QED
    BY <2>1, <2>8
<1>3. QED
  BY <1>2

\* Sums of the same numbers are the same.
LEMMA SumCongruence ==
  ASSUME NEW S, IsFiniteSet(S), NEW f, NEW f2, \A x \in S : f[x] = f2[x]
  PROVE  SumOf(f, S) = SumOf(f2, S)
<1>1. PICK g : Totals(g, f, S) /\ SumOf(f, S) = g[S]
  BY SumOfTotals
<1>2. PICK g2 : Totals(g2, f2, S) /\ SumOf(f2, S) = g2[S]
  BY SumOfTotals
<1>3. S \in SUBSET S /\ S \subseteq S
  OBVIOUS
<1>4. g[S] = g2[S]
  BY <1>1, <1>2, <1>3, TotalsAgree
<1>5. QED
  BY <1>1, <1>2, <1>4

LEMMA SumEmpty ==
  ASSUME NEW f
  PROVE  SumOf(f, {}) = 0
<1>1. IsFiniteSet({}) /\ {} \in SUBSET {}
  BY FS_EmptySet
<1>2. PICK g : Totals(g, f, {}) /\ SumOf(f, {}) = g[{}]
  BY <1>1, SumOfTotals
<1>3. QED
  BY <1>1, <1>2, TotalsUnfold

\* The sum over a set, with the picked element first.
LEMMA SumPicked ==
  ASSUME NEW S, IsFiniteSet(S), S # {}, NEW f
  PROVE  SumOf(f, S) = f[Pick(S)] + SumOf(f, S \ {Pick(S)})
<1>1. PICK g : Totals(g, f, S) /\ SumOf(f, S) = g[S]
  BY SumOfTotals
<1>2. DEFINE T == S \ {Pick(S)}
<1>3. IsFiniteSet(T) /\ T \subseteq S /\ T \in SUBSET T
  BY FS_Subset
<1>4. HIDE DEF T
<1>5. PICK g2 : Totals(g2, f, T) /\ SumOf(f, T) = g2[T]
  BY <1>3, SumOfTotals
<1>6. g2[T] = g[T]
  BY <1>1, <1>3, <1>5, TotalsAgree
<1>7. g[S] = f[Pick(S)] + g[T]
  <2>1. S \in SUBSET S
    OBVIOUS
  <2>2. g[S] = IF S = {} THEN 0 ELSE f[Pick(S)] + g[S \ {Pick(S)}]
    BY <1>1, <2>1, TotalsUnfold
  <2>3. QED
    BY <2>2 DEF T
<1>8. QED
  BY <1>1, <1>5, <1>6, <1>7 DEF T

-----------------------------------------------------------------------------
(* Sums of integers. *)

\* A sum of integers is one, and any element may be taken first.
LEMMA SumRemove ==
  ASSUME NEW S, IsFiniteSet(S), NEW f, \A x \in S : f[x] \in Int
  PROVE  /\ SumOf(f, S) \in Int
         /\ \A x \in S : SumOf(f, S) = f[x] + SumOf(f, S \ {x})
<1>1. DEFINE Good(s) == /\ SumOf(f, s) \in Int
                        /\ \A x \in s : SumOf(f, s) = f[x] + SumOf(f, s \ {x})
             Bad == {s \in SUBSET S : ~Good(s)}
<1>2. ASSUME Bad # {} PROVE FALSE
  <2>1. PICK s \in Bad : \A t \in Bad : t \subseteq s => t = s
    <3>1. Bad \in SUBSET SUBSET S
      OBVIOUS
    <3>2. HIDE DEF Bad
    <3>3. QED
      BY <1>2, <3>1, SmallestExists
  <2>2. s \in SUBSET S /\ IsFiniteSet(s)
    BY FS_Subset
  <2>3. \A t \in SUBSET s : t # s => Good(t)
    BY <2>1, <2>2
  <2>4. s # {}
    <3>1. Good({})
      BY SumEmpty
    <3>2. ~Good(s)
      BY <2>1
    <3>3. HIDE DEF Good
    <3>4. QED
      BY <3>1, <3>2
  <2>5. DEFINE c == Pick(s)
               t == s \ {c}
  <2>6. c \in s /\ t \in SUBSET s /\ t # s /\ f[c] \in Int
    BY <2>2, <2>4, Picked
  <2>7. SumOf(f, s) = f[c] + SumOf(f, t)
    BY <2>2, <2>4, SumPicked
  <2>8. SumOf(f, t) \in Int /\ \A x \in t : SumOf(f, t) = f[x] + SumOf(f, t \ {x})
    BY <2>3, <2>6
  <2>9. ASSUME NEW x \in s PROVE SumOf(f, s) = f[x] + SumOf(f, s \ {x})
    <3>1. CASE x = c
      BY <2>7, <3>1
    <3>2. CASE x # c
      <4>1. DEFINE u == s \ {x}
                   v == t \ {x}
      <4>2. /\ u \in SUBSET s /\ u # s /\ c \in u /\ x \in t
            /\ u \ {c} = v /\ v \in SUBSET s /\ v # s /\ f[x] \in Int
        BY <2>2, <2>6, <3>2
      <4>3. SumOf(f, u) = f[c] + SumOf(f, u \ {c})
        BY <2>3, <4>2
      <4>4. SumOf(f, t) = f[x] + SumOf(f, v)
        BY <2>8, <4>2
      <4>5. SumOf(f, v) \in Int
        BY <2>3, <4>2
      <4>6. HIDE DEF u, v, t, c
      <4>7. SumOf(f, u) = f[c] + SumOf(f, v)
        BY <4>2, <4>3
      <4>8. SumOf(f, s) = f[x] + SumOf(f, u)
        BY <2>6, <2>7, <4>2, <4>4, <4>5, <4>7
      <4>9. QED
        BY <4>8 DEF u
    <3>3. QED
      BY <3>1, <3>2
  <2>10. SumOf(f, s) \in Int
    BY <2>6, <2>7, <2>8
  <2>11. Good(s)
    BY <2>9, <2>10
  <2>12. HIDE DEF Good
  <2>13. QED
    BY <2>1, <2>11
<1>3. S \notin Bad
  BY <1>2
<1>4. QED
  BY <1>3

\* One more element adds its number.
LEMMA SumAdd ==
  ASSUME NEW S, IsFiniteSet(S), NEW x, x \notin S, NEW f, \A y \in S \union {x} : f[y] \in Int
  PROVE  SumOf(f, S \union {x}) = SumOf(f, S) + f[x]
<1>1. DEFINE T == S \union {x}
<1>2. IsFiniteSet(T) /\ x \in T /\ T \ {x} = S
  BY FS_AddElement
<1>3. \A y \in T : f[y] \in Int
  OBVIOUS
<1>4. HIDE DEF T
<1>5. SumOf(f, T) = f[x] + SumOf(f, T \ {x}) /\ SumOf(f, S) \in Int /\ f[x] \in Int
  <2>1. \A y \in S : f[y] \in Int
    BY <1>2, <1>3
  <2>2. QED
    BY <1>2, <1>3, <2>1, SumRemove
<1>6. SumOf(f, T) = SumOf(f, S) + f[x]
  <2>1. SumOf(f, T) = f[x] + SumOf(f, S)
    BY <1>2, <1>5
  <2>2. \A p, q \in Int : p + q = q + p
    OBVIOUS
  <2>3. QED
    BY <1>5, <2>1, <2>2
<1>7. QED
  BY <1>6 DEF T

\* Numbers up to b make a sum up to b times how many they are.
LEMMA SumBound ==
  ASSUME NEW S, IsFiniteSet(S), NEW f, NEW b \in Nat, \A x \in S : f[x] \in 0..b
  PROVE  SumOf(f, S) \in Nat /\ SumOf(f, S) <= b * Cardinality(S)
<1>1. DEFINE Good(s) == SumOf(f, s) \in Nat /\ SumOf(f, s) <= b * Cardinality(s)
             Bad == {s \in SUBSET S : ~Good(s)}
<1>2. ASSUME Bad # {} PROVE FALSE
  <2>1. PICK s \in Bad : \A t \in Bad : t \subseteq s => t = s
    <3>1. Bad \in SUBSET SUBSET S
      OBVIOUS
    <3>2. HIDE DEF Bad
    <3>3. QED
      BY <1>2, <3>1, SmallestExists
  <2>2. s \in SUBSET S /\ IsFiniteSet(s) /\ Cardinality(s) \in Nat
    BY FS_Subset, FS_CardinalityType
  <2>3. s # {}
    <3>1. Good({})
      BY SumEmpty, FS_EmptySet
    <3>2. ~Good(s)
      BY <2>1
    <3>3. HIDE DEF Good
    <3>4. QED
      BY <3>1, <3>2
  <2>4. DEFINE c == Pick(s)
               t == s \ {c}
  <2>5. c \in s /\ t \in SUBSET S /\ t \subseteq s /\ t # s /\ f[c] \in 0..b
    BY <2>2, <2>3, Picked
  <2>6. SumOf(f, s) = f[c] + SumOf(f, t)
    BY <2>2, <2>3, SumPicked
  <2>7. SumOf(f, t) \in Nat /\ SumOf(f, t) <= b * Cardinality(t)
    BY <2>1, <2>5
  <2>8. Cardinality(t) = Cardinality(s) - 1
    BY <2>2, <2>3, SubsetFacts
  <2>9. HIDE DEF t, c
  <2>10. SumOf(f, s) \in Nat
    BY <2>5, <2>6, <2>7
  <2>11. b * Cardinality(s) = b * Cardinality(t) + b
    <3>1. \A n \in Int : b * n = b * (n - 1) + b
      OBVIOUS
    <3>2. QED
      BY <2>2, <2>8, <3>1
  <2>12. SumOf(f, s) <= b * Cardinality(s)
    <3>1. b * Cardinality(t) \in Int
      BY <2>2, <2>8
    <3>2. \A p, q, r, m \in Int : p <= m /\ q <= b => q + p <= m + b
      OBVIOUS
    <3>3. QED
      BY <2>5, <2>6, <2>7, <2>11, <3>1, <3>2
  <2>13. QED
    BY <2>1, <2>10, <2>12
<1>3. S \notin Bad
  BY <1>2
<1>4. QED
  BY <1>3

\* A number counts once in a sum of one.
LEMMA SumSingle ==
  ASSUME NEW f, NEW x, f[x] \in Int
  PROVE  SumOf(f, {x}) = f[x]
<1>1. IsFiniteSet({x}) /\ x \in {x} /\ {x} \ {x} = {} /\ \A y \in {x} : f[y] \in Int
  BY FS_Singleton
<1>2. SumOf(f, {x}) = f[x] + SumOf(f, {x} \ {x})
  BY <1>1, SumRemove
<1>3. SumOf(f, {x} \ {x}) = 0
  BY <1>1, SumEmpty
<1>4. QED
  BY <1>2, <1>3

\* A sum of natural numbers is one, and none of them exceeds it.
LEMMA SumNat ==
  ASSUME NEW S, IsFiniteSet(S), NEW f, \A x \in S : f[x] \in Nat
  PROVE  SumOf(f, S) \in Nat /\ \A x \in S : f[x] <= SumOf(f, S)
<1>1. DEFINE Bad == {s \in SUBSET S : SumOf(f, s) \notin Nat}
<1>2. ASSUME Bad # {} PROVE FALSE
  <2>1. PICK s \in Bad : \A t \in Bad : t \subseteq s => t = s
    <3>1. Bad \in SUBSET SUBSET S
      OBVIOUS
    <3>2. HIDE DEF Bad
    <3>3. QED
      BY <1>2, <3>1, SmallestExists
  <2>2. s \in SUBSET S /\ IsFiniteSet(s) /\ SumOf(f, s) \notin Nat
    BY <2>1, FS_Subset
  <2>3. s # {}
    BY <2>2, SumEmpty
  <2>4. DEFINE t == s \ {Pick(s)}
  <2>5. Pick(s) \in s /\ t \in SUBSET S /\ t \subseteq s /\ t # s /\ f[Pick(s)] \in Nat
    BY <2>2, <2>3, Picked
  <2>6. SumOf(f, s) = f[Pick(s)] + SumOf(f, t)
    BY <2>2, <2>3, SumPicked
  <2>7. SumOf(f, t) \in Nat
    BY <2>1, <2>5
  <2>8. HIDE DEF t
  <2>9. QED
    BY <2>2, <2>5, <2>6, <2>7
<1>3. \A s \in SUBSET S : SumOf(f, s) \in Nat
  BY <1>2
<1>4. ASSUME NEW x \in S PROVE f[x] <= SumOf(f, S)
  <2>1. SumOf(f, S) = f[x] + SumOf(f, S \ {x})
    BY SumRemove
  <2>2. SumOf(f, S \ {x}) \in Nat /\ f[x] \in Nat
    BY <1>3
  <2>3. QED
    BY <2>1, <2>2
<1>5. S \in SUBSET S
  OBVIOUS
<1>6. QED
  BY <1>3, <1>4, <1>5

\* More and larger natural numbers make no smaller sum.
LEMMA SumMonotone ==
  ASSUME NEW S, IsFiniteSet(S), NEW f, NEW f2, NEW T \in SUBSET S,
         \A x \in S : f2[x] \in Nat, \A x \in T : f[x] \in Nat /\ f[x] <= f2[x]
  PROVE  SumOf(f, T) <= SumOf(f2, S)
<1>1. DEFINE Bad == {s \in SUBSET S : ~(SumOf(f, s \intersect T) <= SumOf(f2, s))}
<1>2. ASSUME Bad # {} PROVE FALSE
  <2>1. PICK s \in Bad : \A t \in Bad : t \subseteq s => t = s
    <3>1. Bad \in SUBSET SUBSET S
      OBVIOUS
    <3>2. HIDE DEF Bad
    <3>3. QED
      BY <1>2, <3>1, SmallestExists
  <2>2. s \in SUBSET S /\ IsFiniteSet(s) /\ ~(SumOf(f, s \intersect T) <= SumOf(f2, s))
    BY <2>1, FS_Subset
  <2>3. s # {}
    <3>1. SumOf(f, {}) = 0 /\ SumOf(f2, {}) = 0 /\ {} \intersect T = {}
      BY SumEmpty
    <3>2. SumOf(f, {} \intersect T) <= SumOf(f2, {})
      BY <3>1
    <3>3. QED
      BY <2>2, <3>2
  <2>4. PICK x \in s : TRUE
    BY <2>3
  <2>5. DEFINE t == s \ {x}
               u == s \intersect T
               v == t \intersect T
  <2>6. /\ t \in SUBSET S /\ t \subseteq s /\ t # s /\ f2[x] \in Nat
        /\ IsFiniteSet(t) /\ IsFiniteSet(u) /\ IsFiniteSet(v)
    BY <2>2, <2>4, FS_Subset
  <2>7. /\ SumOf(f2, s) = f2[x] + SumOf(f2, t) /\ SumOf(f2, t) \in Nat
    <3>1. \A y \in s : f2[y] \in Int
      BY <2>2
    <3>2. \A y \in t : f2[y] \in Nat
      BY <2>2
    <3>3. SumOf(f2, t) \in Nat
      BY <2>6, <3>2, SumNat
    <3>4. QED
      BY <2>2, <2>4, <3>1, <3>3, SumRemove
  <2>8. SumOf(f, v) <= SumOf(f2, t)
    BY <2>1, <2>6
  <2>9. SumOf(f, v) \in Nat
    <3>1. \A y \in v : f[y] \in Nat
      OBVIOUS
    <3>2. QED
      BY <2>6, <3>1, SumNat
  <2>10. CASE x \in T
    <3>1. x \in u /\ u \ {x} = v /\ f[x] \in Nat /\ f[x] <= f2[x] /\ \A y \in u : f[y] \in Int
      BY <2>4, <2>10
    <3>2. SumOf(f, u) = f[x] + SumOf(f, v)
      BY <2>6, <3>1, SumRemove
    <3>3. HIDE DEF t, u, v
    <3>4. SumOf(f, u) <= SumOf(f2, s)
      BY <2>6, <2>7, <2>8, <2>9, <3>1, <3>2
    <3>5. QED
      BY <2>2, <3>4 DEF u
  <2>11. CASE x \notin T
    <3>1. u = v
      BY <2>11
    <3>2. HIDE DEF t, u, v
    <3>3. SumOf(f, u) <= SumOf(f2, s)
      BY <2>6, <2>7, <2>8, <2>9, <3>1
    <3>4. QED
      BY <2>2, <3>3 DEF u
  <2>12. QED
    BY <2>10, <2>11
<1>3. S \notin Bad /\ S \intersect T = T
  BY <1>2
<1>4. QED
  BY <1>3

\* One number changes, and the sum changes as much.
LEMMA SumUpdate ==
  ASSUME NEW S, IsFiniteSet(S), NEW f, NEW f2, NEW x \in S, f2[x] \in Int,
         \A y \in S : f[y] \in Int, \A y \in S \ {x} : f2[y] = f[y]
  PROVE  SumOf(f2, S) = SumOf(f, S) + (f2[x] - f[x])
<1>1. DEFINE T == S \ {x}
<1>2. IsFiniteSet(T) /\ \A y \in T : f2[y] = f[y]
  BY FS_Subset
<1>3. SumOf(f2, T) = SumOf(f, T)
  BY <1>2, SumCongruence
<1>4. \A y \in S : f[y] \in Int /\ f2[y] \in Int
  OBVIOUS
<1>5. SumOf(f, S) = f[x] + SumOf(f, T) /\ SumOf(f2, S) = f2[x] + SumOf(f2, T)
  BY <1>4, SumRemove
<1>6. SumOf(f, T) \in Int
  BY <1>2, <1>4, SumRemove
<1>7. HIDE DEF T
<1>8. QED
  BY <1>3, <1>4, <1>5, <1>6

-----------------------------------------------------------------------------
\* Every set of numbers has a least one.
LEMMA LeastExists ==
  ASSUME NEW B \in SUBSET Nat, B # {}
  PROVE  \E m \in B : \A k \in B : m <= k
<1>1. DEFINE R == {ss \in Nat \X Nat : ss[1] < ss[2]}
<1>2. IsWellFoundedOn(R, Nat)
  BY NatLessThanWellFounded DEF OpToRel
<1>3. PICK m \in B : \A k \in B : ~(<<k, m>> \in R)
  <2>1. HIDE DEF R
  <2>2. QED
    BY <1>2, WFMin
<1>4. ASSUME NEW k \in B PROVE m <= k
  <2>1. m \in Nat /\ k \in Nat
    OBVIOUS
  <2>2. k < m => <<k, m>> \in R
    BY <2>1
  <2>3. QED
    BY <1>3, <2>1, <2>2
<1>5. QED
  BY <1>4

(***************************************************************************)
(* A function that is defined in terms of what it gives for arguments of   *)
(* lower rank exists: at x it needs its values on K[x], and F[x] makes its *)
(* own of them.                                                            *)
(***************************************************************************)
Descends(D, N, rank, K) ==
  /\ N \in Nat /\ rank \in [D -> 0..N] /\ K \in [D -> SUBSET D]
  /\ \A x \in D : \A y \in K[x] : rank[y] < rank[x]

Makes(D, V, K, F) == V # {} /\ \A x \in D : \A h \in [K[x] -> V] : F[x][h] \in V

Solvable(D, V, K, F) == \E g \in [D -> V] : \A x \in D : g[x] = F[x][[y \in K[x] |-> g[y]]]

LEMMA RecursionExists ==
  ASSUME NEW D, NEW N, NEW rank, NEW K, Descends(D, N, rank, K),
         NEW V, NEW F, Makes(D, V, K, F)
  PROVE  Solvable(D, V, K, F)
<1>0. /\ N \in Nat /\ rank \in [D -> 0..N] /\ K \in [D -> SUBSET D]
      /\ \A x \in D : \A y \in K[x] : rank[y] < rank[x]
      /\ V # {} /\ \A x \in D : \A h \in [K[x] -> V] : F[x][h] \in V
  BY DEF Descends, Makes
<1> USE <1>0
<1> DEFINE Solves(g, n) == \A x \in D : rank[x] < n => g[x] = F[x][[y \in K[x] |-> g[y]]]
           Bad == {n \in Nat : ~\E g \in [D -> V] : Solves(g, n)}
<1>1. ASSUME Bad # {} PROVE FALSE
  <2>1. PICK n \in Bad : \A m \in Bad : n <= m
    <3>1. Bad \in SUBSET Nat
      OBVIOUS
    <3>2. HIDE DEF Bad
    <3>3. QED
      BY <1>1, <3>1, LeastExists
  <2>2. n \in Nat /\ ~\E g \in [D -> V] : Solves(g, n)
    BY <2>1
  <2>3. CASE n = 0
    <3>1. PICK v \in V : TRUE
      OBVIOUS
    <3>2. [x \in D |-> v] \in [D -> V]
      OBVIOUS
    <3>3. Solves([x \in D |-> v], 0)
      <4>1. \A x \in D : ~(rank[x] < 0)
        OBVIOUS
      <4>2. QED
        BY <4>1
    <3>4. HIDE DEF Solves
    <3>5. QED
      BY <2>2, <2>3, <3>2, <3>3
  <2>4. CASE n # 0
    <3>1. PICK m \in Nat : m + 1 = n
      BY <2>2, <2>4
    <3>2. PICK g \in [D -> V] : Solves(g, m)
      <4>1. m \notin Bad
        BY <2>1, <3>1
      <4>2. HIDE DEF Solves
      <4>3. QED
        BY <4>1
    <3>3. DEFINE Next(x) == F[x][[y \in K[x] |-> g[y]]]
                 h == [x \in D |-> IF rank[x] < m THEN g[x] ELSE Next(x)]
    <3>4. h \in [D -> V]
      <4>1. \A x \in D : Next(x) \in V
        <5>1. TAKE x \in D
        <5>2. [y \in K[x] |-> g[y]] \in [K[x] -> V]
          OBVIOUS
        <5>3. QED
          BY <5>2
      <4>2. HIDE DEF Next
      <4>3. QED
        BY <4>1
    <3>5. ASSUME NEW x \in D, rank[x] < n PROVE h[x] = F[x][[y \in K[x] |-> h[y]]]
      <4>1. \A y \in K[x] : y \in D /\ rank[y] < m
        BY <3>1, <3>5
      <4>2. \A y \in K[x] : h[y] = g[y]
        <5>1. HIDE DEF Next
        <5>2. QED
          BY <4>1
      <4>3. [y \in K[x] |-> h[y]] = [y \in K[x] |-> g[y]]
        <5>1. HIDE DEF h
        <5>2. QED
          BY <4>2
      <4>4. h[x] = Next(x)
        <5>1. CASE rank[x] < m
          <6>1. g[x] = Next(x)
            BY <3>2, <5>1
          <6>2. HIDE DEF Next
          <6>3. QED
            BY <5>1, <6>1
        <5>2. CASE ~(rank[x] < m)
          <6>1. HIDE DEF Next
          <6>2. QED
            BY <5>2
        <5>3. QED
          BY <5>1, <5>2
      <4>5. QED
        <5>1. HIDE DEF h
        <5>2. QED
          BY <4>3, <4>4
    <3>6. Solves(h, n)
      <4>1. HIDE DEF h
      <4>2. QED
        BY <3>5
    <3>7. HIDE DEF Solves, h
    <3>8. QED
      BY <2>2, <3>4, <3>6
  <2>5. QED
    BY <2>3, <2>4
<1>2. PICK g \in [D -> V] : Solves(g, N + 1)
  <2>1. N + 1 \in Nat
    OBVIOUS
  <2>2. HIDE DEF Solves
  <2>3. QED
    BY <1>1, <2>1
<1>3. \A x \in D : g[x] = F[x][[y \in K[x] |-> g[y]]]
  <2>1. \A x \in D : rank[x] < N + 1
    OBVIOUS
  <2>2. QED
    BY <1>2, <2>1
<1>4. QED
  BY <1>3 DEF Solvable
=============================================================================
