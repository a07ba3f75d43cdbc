---------------------------- MODULE SumTheorems ----------------------------
(***************************************************************************)
(* Facts about SumFunction, the sum of a function's values over a finite   *)
(* domain, which the community modules define by recursion over the        *)
(* subsets of the domain.  Induction is by the least counterexample: a     *)
(* set of numbers that is not empty has a least element.                   *)
(***************************************************************************)
EXTENDS Integers, Functions, FiniteSetTheorems, WellFoundedInduction, TLAPS

-----------------------------------------------------------------------------
(* Induction. *)

\* A set that holds 0 and, with a number, the next one, holds all numbers.
LEMMA Induction ==
  ASSUME NEW T, 0 \in T, \A n \in Nat : n \in T => n + 1 \in T
  PROVE  Nat \subseteq T
<1> SUFFICES ASSUME ~(Nat \subseteq T) PROVE FALSE
  OBVIOUS
<1> DEFINE less == OpToRel(<, Nat)
           bad == Nat \ T
<1>1. \A i, j \in Nat : <<i, j>> \in less <=> i < j
  BY DEF OpToRel
<1>2. bad \in SUBSET Nat /\ bad # {}
  OBVIOUS
<1>3. PICK n \in bad : \A j \in bad : ~(<<j, n>> \in less)
  BY <1>2, NatLessThanWellFounded, WFMin
<1> HIDE DEF less
<1>4. n \in Nat /\ n # 0 /\ n \notin T
  OBVIOUS
<1>5. n - 1 \in Nat /\ n - 1 < n /\ (n - 1) + 1 = n
  BY <1>4
<1>6. n - 1 \in T
  <2>1. n - 1 \in bad => ~(<<n - 1, n>> \in less)
    BY <1>3
  <2> QED
    BY <1>1, <1>4, <1>5, <2>1
<1> QED
  BY <1>4, <1>5, <1>6

\* The element of a set that the recursion takes first.
Pick(s) == CHOOSE x \in s : TRUE

\* It is an element of the set.
LEMMA PickIn == ASSUME NEW s, s # {} PROVE Pick(s) \in s
  BY DEF Pick

\* The subsets of S with at most n elements.
UpTo(S, n) == {s \in SUBSET S : Cardinality(s) <= n}

\* A statement that holds of the empty set, and of a set once it holds of the
\* set without an element, holds of every subset of a finite set: here good is
\* the set of those it holds of.
LEMMA SubsetInduction ==
  ASSUME NEW S, IsFiniteSet(S), NEW good, {} \in good,
         \A s \in SUBSET S : s # {} /\ s \ {Pick(s)} \in good => s \in good
  PROVE  SUBSET S \subseteq good
<1> DEFINE T == {n \in Nat : UpTo(S, n) \subseteq good}
<1>1. \A s \in SUBSET S : IsFiniteSet(s) /\ Cardinality(s) \in Nat
  BY FS_Subset, FS_CardinalityType
<1>2. 0 \in T
  <2>1. ASSUME NEW s \in UpTo(S, 0)
        PROVE  s = {}
    BY <1>1, FS_EmptySet DEF UpTo
  <2> QED
    BY <2>1
<1>3. ASSUME NEW n \in Nat, n \in T
      PROVE  n + 1 \in T
  <2>1. ASSUME NEW s \in UpTo(S, n + 1), s # {}
        PROVE  s \in good
    <3>1. s \in SUBSET S /\ IsFiniteSet(s) /\ Cardinality(s) \in Nat /\ Cardinality(s) <= n + 1
      BY <1>1 DEF UpTo
    <3>2. Cardinality(s \ {Pick(s)}) = Cardinality(s) - 1
      BY <2>1, <3>1, PickIn, FS_RemoveElement
    <3>3. s \ {Pick(s)} \in UpTo(S, n)
      BY <3>1, <3>2 DEF UpTo
    <3> QED
      BY <1>3, <2>1, <3>1, <3>3
  <2>2. UpTo(S, n + 1) \subseteq good
    BY <2>1
  <2> QED
    BY <2>2
<1>4. Nat \subseteq T
  <2> HIDE DEF T
  <2> QED
    BY <1>2, <1>3, Induction
<1>5. Cardinality(S) \in T /\ SUBSET S \subseteq UpTo(S, Cardinality(S))
  <2>1. Cardinality(S) \in Nat
    BY FS_CardinalityType
  <2>2. \A s \in SUBSET S : Cardinality(s) <= Cardinality(S)
    BY FS_Subset
  <2> QED
    BY <1>4, <2>1, <2>2 DEF UpTo
<1> QED
  BY <1>5

-----------------------------------------------------------------------------
(* The sum. *)

\* One step of the recursion: the sums of the sets in D from those in iter.
SumStep(f, D, iter) ==
  [s \in D |-> IF s = {} THEN 0 ELSE f[Pick(s)] + iter[s \ {Pick(s)}]]

\* The sums of all subsets of S.
Sums(f, S) == CHOOSE iter : iter = SumStep(f, SUBSET S, iter)

\* The sum is the recursion's value at the whole domain.
LEMMA SumIsFold ==
  ASSUME NEW S, NEW f, S = DOMAIN f
  PROVE  SumFunction(f) = Sums(f, S)[S]
  BY DEF SumFunction, SumFunctionOnSet, FoldFunctionOnSet, MapThenFoldSet, Pick, Sums, SumStep

\* The recursion has a solution: first on the sets of at most n elements.
LEMMA SumsExist ==
  ASSUME NEW S, IsFiniteSet(S), NEW f
  PROVE  Sums(f, S) = SumStep(f, SUBSET S, Sums(f, S))
<1> DEFINE T == {n \in Nat : \E g : g = SumStep(f, UpTo(S, n), g)}
<1>1. \A s \in SUBSET S : IsFiniteSet(s) /\ Cardinality(s) \in Nat
  BY FS_Subset, FS_CardinalityType
<1>2. 0 \in T
  <2> DEFINE g == [s \in UpTo(S, 0) |-> 0]
  <2>1. \A s \in UpTo(S, 0) : s = {}
    BY <1>1, FS_EmptySet DEF UpTo
  <2>2. g = SumStep(f, UpTo(S, 0), g)
    BY <2>1 DEF SumStep
  <2> QED
    BY <2>2
<1>3. ASSUME NEW n \in Nat, n \in T
      PROVE  n + 1 \in T
  <2>1. PICK g : g = SumStep(f, UpTo(S, n), g)
    BY <1>3
  <2> DEFINE h == SumStep(f, UpTo(S, n + 1), g)
  <2>2. ASSUME NEW t \in UpTo(S, n)
        PROVE  h[t] = g[t]
    <3>1. t \in UpTo(S, n + 1)
      BY <1>1 DEF UpTo
    <3>2. h[t] = IF t = {} THEN 0 ELSE f[Pick(t)] + g[t \ {Pick(t)}]
      BY <3>1 DEF SumStep
    <3>3. SumStep(f, UpTo(S, n), g)[t] = IF t = {} THEN 0 ELSE f[Pick(t)] + g[t \ {Pick(t)}]
      BY DEF SumStep
    <3> QED
      BY <2>1, <3>2, <3>3
  <2>3. ASSUME NEW s \in UpTo(S, n + 1), s # {}
        PROVE  s \ {Pick(s)} \in UpTo(S, n)
    <3>1. s \in SUBSET S /\ IsFiniteSet(s) /\ Cardinality(s) \in Nat /\ Cardinality(s) <= n + 1
      BY <1>1 DEF UpTo
    <3>2. Cardinality(s \ {Pick(s)}) = Cardinality(s) - 1
      BY <2>3, <3>1, PickIn, FS_RemoveElement
    <3> QED
      BY <3>1, <3>2 DEF UpTo
  <2>4. h = SumStep(f, UpTo(S, n + 1), h)
    <3> HIDE DEF h
    <3>1. \A s \in UpTo(S, n + 1) : s # {} => h[s \ {Pick(s)}] = g[s \ {Pick(s)}]
      BY <2>2, <2>3
    <3>2. h = [s \in UpTo(S, n + 1) |-> IF s = {} THEN 0 ELSE f[Pick(s)] + g[s \ {Pick(s)}]]
      BY DEF h, SumStep
    <3>3. h = [s \in UpTo(S, n + 1) |-> IF s = {} THEN 0 ELSE f[Pick(s)] + h[s \ {Pick(s)}]]
      BY <3>1, <3>2
    <3> QED
      BY <3>3 DEF SumStep
  <2> QED
    BY <2>4
<1>4. Nat \subseteq T
  <2> HIDE DEF T
  <2> QED
    BY <1>2, <1>3, Induction
<1>5. Cardinality(S) \in Nat /\ UpTo(S, Cardinality(S)) = SUBSET S
  <2>1. \A s \in SUBSET S : Cardinality(s) <= Cardinality(S)
    BY FS_Subset
  <2> QED
    BY <2>1, FS_CardinalityType DEF UpTo
<1>6. \E g : g = SumStep(f, SUBSET S, g)
  <2>1. Cardinality(S) \in T
    BY <1>4, <1>5
  <2> QED
    BY <1>5, <2>1
<1> QED
  BY <1>6 DEF Sums

\* The solution, set by set: how the lemmas below use the recursion.
LEMMA SumsRecursion ==
  ASSUME NEW S, IsFiniteSet(S), NEW f
  PROVE  /\ Sums(f, S)[{}] = 0
         /\ \A s \in SUBSET S :
              s # {} => Sums(f, S)[s] = f[Pick(s)] + Sums(f, S)[s \ {Pick(s)}]
<1> DEFINE iter == Sums(f, S)
<1>1. iter = [s \in SUBSET S |-> IF s = {} THEN 0 ELSE f[Pick(s)] + iter[s \ {Pick(s)}]]
  BY SumsExist DEF SumStep
<1> HIDE DEF iter
<1>2. \A s \in SUBSET S : iter[s] = IF s = {} THEN 0 ELSE f[Pick(s)] + iter[s \ {Pick(s)}]
  BY <1>1
<1> QED
  BY <1>2 DEF iter

-----------------------------------------------------------------------------
(* What the sum is of functions with values in the integers.               *)

\* Integers add up to an integer.
LEMMA SumType ==
  ASSUME NEW S, IsFiniteSet(S), NEW f \in [S -> Int]
  PROVE  SumFunction(f) \in Int
<1> DEFINE sum == Sums(f, S)
           good == {s \in SUBSET S : sum[s] \in Int}
<1>1. /\ sum[{}] = 0
      /\ \A s \in SUBSET S : s # {} => sum[s] = f[Pick(s)] + sum[s \ {Pick(s)}]
  BY SumsRecursion
<1> HIDE DEF sum
<1>2. {} \in good
  BY <1>1
<1>3. ASSUME NEW s \in SUBSET S, s # {}, s \ {Pick(s)} \in good
      PROVE  s \in good
  BY <1>1, <1>3, PickIn
<1> HIDE DEF good
<1>4. SUBSET S \subseteq good
  BY <1>2, <1>3, SubsetInduction
<1>5. sum[S] \in Int
  BY <1>4 DEF good
<1> QED
  BY <1>5, SumIsFold DEF sum

\* A greater function has a greater sum.
LEMMA SumMonotone ==
  ASSUME NEW S, IsFiniteSet(S), NEW f \in [S -> Int], NEW g \in [S -> Int],
         \A x \in S : f[x] <= g[x]
  PROVE  SumFunction(f) <= SumFunction(g)
<1> DEFINE sf == Sums(f, S)
           sg == Sums(g, S)
           good == {s \in SUBSET S : sf[s] \in Int /\ sg[s] \in Int /\ sf[s] <= sg[s]}
<1>1. /\ sf[{}] = 0 /\ sg[{}] = 0
      /\ \A s \in SUBSET S : s # {} => /\ sf[s] = f[Pick(s)] + sf[s \ {Pick(s)}]
                                       /\ sg[s] = g[Pick(s)] + sg[s \ {Pick(s)}]
  <2>1. sf[{}] = 0 /\ \A s \in SUBSET S : s # {} => sf[s] = f[Pick(s)] + sf[s \ {Pick(s)}]
    BY SumsRecursion
  <2>2. sg[{}] = 0 /\ \A s \in SUBSET S : s # {} => sg[s] = g[Pick(s)] + sg[s \ {Pick(s)}]
    BY SumsRecursion
  <2> HIDE DEF sf, sg
  <2> QED
    BY <2>1, <2>2
<1> HIDE DEF sf, sg
<1>2. {} \in good
  BY <1>1
<1>3. ASSUME NEW s \in SUBSET S, s # {}, s \ {Pick(s)} \in good
      PROVE  s \in good
  <2>1. Pick(s) \in S
    BY <1>3, PickIn
  <2>2. f[Pick(s)] \in Int /\ g[Pick(s)] \in Int /\ f[Pick(s)] <= g[Pick(s)]
    BY <2>1
  <2>3. /\ sf[s \ {Pick(s)}] \in Int /\ sg[s \ {Pick(s)}] \in Int
        /\ sf[s \ {Pick(s)}] <= sg[s \ {Pick(s)}]
    BY <1>3
  <2>4. sf[s] = f[Pick(s)] + sf[s \ {Pick(s)}] /\ sg[s] = g[Pick(s)] + sg[s \ {Pick(s)}]
    BY <1>1, <1>3
  <2> QED
    BY <2>2, <2>3, <2>4
<1> HIDE DEF good
<1>4. SUBSET S \subseteq good
  BY <1>2, <1>3, SubsetInduction
<1>5. sf[S] <= sg[S]
  BY <1>4 DEF good
<1> QED
  BY <1>5, SumIsFold DEF sf, sg

\* Nothing adds up to nothing.
LEMMA SumZero ==
  ASSUME NEW S, IsFiniteSet(S), NEW f, f = [x \in S |-> 0]
  PROVE  SumFunction(f) = 0
<1> DEFINE sum == Sums(f, S)
           good == {s \in SUBSET S : sum[s] = 0}
<1>1. /\ sum[{}] = 0
      /\ \A s \in SUBSET S : s # {} => sum[s] = f[Pick(s)] + sum[s \ {Pick(s)}]
  BY SumsRecursion
<1> HIDE DEF sum
<1>2. {} \in good
  BY <1>1
<1>3. ASSUME NEW s \in SUBSET S, s # {}, s \ {Pick(s)} \in good
      PROVE  s \in good
  <2>1. f[Pick(s)] = 0
    BY <1>3, PickIn
  <2> QED
    BY <1>1, <1>3, <2>1, SMTT(30)
<1> HIDE DEF good
<1>4. SUBSET S \subseteq good
  BY <1>2, <1>3, SubsetInduction
<1>5. sum[S] = 0
  BY <1>4 DEF good
<1>6. DOMAIN f = S
  OBVIOUS
<1> QED
  BY <1>5, <1>6, SumIsFold DEF sum

\* Naturals add up to a natural.
LEMMA SumNat ==
  ASSUME NEW S, IsFiniteSet(S), NEW f \in [S -> Nat]
  PROVE  SumFunction(f) \in Nat
<1> DEFINE zero == [x \in S |-> 0]
<1>1. zero \in [S -> Int] /\ f \in [S -> Int] /\ \A x \in S : zero[x] <= f[x]
  OBVIOUS
<1>2. SumFunction(zero) <= SumFunction(f) /\ SumFunction(f) \in Int /\ SumFunction(zero) = 0
  BY <1>1, SumMonotone, SumType, SumZero
<1> QED
  BY <1>2

\* One value more by d makes the sum more by d.
LEMMA SumChange ==
  ASSUME NEW S, IsFiniteSet(S), NEW f \in [S -> Int], NEW m \in S, NEW d \in Int
  PROVE  SumFunction([f EXCEPT ![m] = @ + d]) = SumFunction(f) + d
<1> DEFINE g == [f EXCEPT ![m] = @ + d]
           sf == Sums(f, S)
           sg == Sums(g, S)
           good == {s \in SUBSET S : /\ sf[s] \in Int
                                     /\ sg[s] = sf[s] + (IF m \in s THEN d ELSE 0)}
<1>1. /\ g[m] = f[m] + d
      /\ \A x \in S : f[x] \in Int /\ (x # m => g[x] = f[x])
      /\ DOMAIN g = S
  OBVIOUS
<1>2. /\ sf[{}] = 0 /\ sg[{}] = 0
      /\ \A s \in SUBSET S : s # {} => /\ sf[s] = f[Pick(s)] + sf[s \ {Pick(s)}]
                                       /\ sg[s] = g[Pick(s)] + sg[s \ {Pick(s)}]
  <2> HIDE DEF g
  <2>1. sf[{}] = 0 /\ \A s \in SUBSET S : s # {} => sf[s] = f[Pick(s)] + sf[s \ {Pick(s)}]
    BY SumsRecursion
  <2>2. sg[{}] = 0 /\ \A s \in SUBSET S : s # {} => sg[s] = g[Pick(s)] + sg[s \ {Pick(s)}]
    BY SumsRecursion
  <2> HIDE DEF sf, sg
  <2> QED
    BY <2>1, <2>2
<1> HIDE DEF sf, sg, g
<1>3. {} \in good
  BY <1>2
<1>4. ASSUME NEW s \in SUBSET S, s # {}, s \ {Pick(s)} \in good
      PROVE  s \in good
  <2>1. Pick(s) \in S /\ Pick(s) \in s
    BY <1>4, PickIn
  <2>2. CASE Pick(s) = m
    <3>1. m \in s /\ m \notin s \ {Pick(s)}
      BY <2>1, <2>2
    <3>2. sf[s \ {Pick(s)}] \in Int /\ sg[s \ {Pick(s)}] = sf[s \ {Pick(s)}]
      BY <1>4, <3>1
    <3>3. sf[s] = f[m] + sf[s \ {Pick(s)}] /\ sg[s] = f[m] + d + sg[s \ {Pick(s)}]
      BY <1>1, <1>2, <1>4, <2>2
    <3> QED
      BY <1>1, <3>1, <3>2, <3>3
  <2>3. CASE Pick(s) # m
    <3>1. m \in s <=> m \in s \ {Pick(s)}
      BY <2>3
    <3>2. /\ sf[s \ {Pick(s)}] \in Int
          /\ sg[s \ {Pick(s)}] = sf[s \ {Pick(s)}] + (IF m \in s THEN d ELSE 0)
      BY <1>4, <3>1
    <3>3. sf[s] = f[Pick(s)] + sf[s \ {Pick(s)}] /\ sg[s] = f[Pick(s)] + sg[s \ {Pick(s)}]
      BY <1>1, <1>2, <1>4, <2>1, <2>3
    <3> QED
      BY <1>1, <2>1, <3>2, <3>3
  <2> QED
    BY <2>2, <2>3
<1> HIDE DEF good
<1>5. SUBSET S \subseteq good
  BY <1>3, <1>4, SubsetInduction
<1>6. sg[S] = sf[S] + d
  BY <1>5 DEF good
<1>7. SumFunction(g) = sg[S] /\ SumFunction(f) = sf[S]
  BY <1>1, SumIsFold DEF sf, sg
<1> QED
  BY <1>6, <1>7 DEF g

\* One value can be increased by one, and then the sum is.
LEMMA SumGrows ==
  ASSUME NEW S, IsFiniteSet(S), NEW f \in [S -> Int], NEW m \in S
  PROVE  \E h \in [S -> Int] : /\ h[m] = f[m] + 1 /\ \A x \in S \ {m} : h[x] = f[x]
                              /\ SumFunction(h) = SumFunction(f) + 1
<1>1. PICK d \in Int : d = 1
  OBVIOUS
<1>2. PICK h : h = [f EXCEPT ![m] = @ + d]
  OBVIOUS
<1>3. SumFunction(h) = SumFunction(f) + d
  BY ONLY <1>2, IsFiniteSet(S), f \in [S -> Int], m \in S, d \in Int, SumChange, ZenonT(60)
<1>4. h \in [S -> Int] /\ h[m] = f[m] + d /\ \A x \in S \ {m} : h[x] = f[x]
  BY <1>2
<1> QED
  BY <1>1, <1>3, <1>4

\* If no value decreases and the sum does not grow, nothing changed.
LEMMA SumUnchanged ==
  ASSUME NEW S, IsFiniteSet(S), NEW f \in [S -> Int], NEW g \in [S -> Int],
         \A x \in S : f[x] <= g[x], SumFunction(g) <= SumFunction(f), NEW m \in S
  PROVE  f[m] = g[m]
<1> SUFFICES ASSUME f[m] # g[m] PROVE FALSE
  OBVIOUS
<1>1. PICK h \in [S -> Int] : /\ h[m] = f[m] + 1 /\ \A x \in S \ {m} : h[x] = f[x]
                             /\ SumFunction(h) = SumFunction(f) + 1
  BY SumGrows
<1>2. \A x \in S : h[x] <= g[x]
  BY <1>1
<1>3. SumFunction(h) <= SumFunction(g)
  BY <1>2, SumMonotone
<1>4. SumFunction(f) \in Int /\ SumFunction(g) \in Int
  BY SumType
<1> QED
  BY <1>1, <1>3, <1>4
=============================================================================
