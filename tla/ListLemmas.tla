----------------------------- MODULE ListLemmas -----------------------------
(***************************************************************************)
(* Facts about sums over finite sets and about lists, for the proofs about *)
(* the caches and the health monitor.  The library's induction theorems    *)
(* take an operator, which no prover here can instantiate; its theorem on  *)
(* minimal elements of a well-founded relation takes a set, and induction  *)
(* over a set follows from it.                                             *)
(***************************************************************************)
EXTENDS Lists, FiniteSetsExt, FiniteSetTheorems, WellFoundedInduction, SequenceTheorems, TLAPS

-----------------------------------------------------------------------------
(* Induction. *)

\* Every nonempty set of natural numbers has a least element.
LEMMA LeastNat ==
    ASSUME NEW T, T \subseteq Nat, T # {}
    PROVE  \E x \in T : \A y \in T : x <= y
<1>1. PICK x \in T : \A y \in T : ~ (<<y, x>> \in OpToRel(<, Nat))
  BY NatLessThanWellFounded, WFMin
<1>2. \A y \in T : ~ (y < x)
  BY <1>1 DEF OpToRel
<1> QED BY <1>2

\* A set that has 0, and n + 1 with every n, has every natural number.
LEMMA NatSetInduction ==
    ASSUME NEW S, 0 \in S, \A n \in Nat : n \in S => n + 1 \in S
    PROVE  Nat \subseteq S
<1> SUFFICES ASSUME NEW m \in Nat \ S
             PROVE  FALSE
  OBVIOUS
<1>1. PICK x \in Nat \ S : \A y \in Nat \ S : x <= y
  BY LeastNat
<1>2. x - 1 \in Nat /\ x - 1 \in S
  BY <1>1
<1> QED BY <1>2

-----------------------------------------------------------------------------
(* Sums. *)

\* What SumFunctionOnSet(f, S) is by definition.
SumEquation(g, f, S) ==
    g = [s \in SUBSET S |-> IF s = {} THEN 0
                            ELSE f[CHOOSE x \in s : TRUE] + g[s \ {CHOOSE x \in s : TRUE}]]

LEMMA SumUnfold ==
    ASSUME NEW f, NEW S
    PROVE  SumFunctionOnSet(f, S) = (CHOOSE g : SumEquation(g, f, S))[S]
  BY DEF SumFunctionOnSet, FoldFunctionOnSet, MapThenFoldSet, SumEquation

LEMMA SumExists ==
    ASSUME NEW f, NEW S, IsFiniteSet(S)
    PROVE  \E g : SumEquation(g, f, S)
<1> DEFINE Upto(n) == {s \in SUBSET S : Cardinality(s) <= n}
           Rest(s) == s \ {CHOOSE x \in s : TRUE}
           Body(g, s) == IF s = {} THEN 0 ELSE f[CHOOSE x \in s : TRUE] + g[Rest(s)]
           Good == {n \in Nat : \E g : g = [s \in Upto(n) |-> Body(g, s)]}
<1>1. \A s \in SUBSET S : /\ IsFiniteSet(s) /\ Cardinality(s) \in Nat
                          /\ Cardinality(s) <= Cardinality(S)
                          /\ Cardinality(s) = 0 <=> s = {}
  BY FS_Subset, FS_CardinalityType, FS_EmptySet
<1>2. \A s \in SUBSET S : s # {} =>
        Rest(s) \in SUBSET S /\ Cardinality(Rest(s)) = Cardinality(s) - 1
  BY <1>1, FS_RemoveElement
<1>3. 0 \in Good
  <2> DEFINE g == [s \in Upto(0) |-> 0]
  <2>1. \A s \in Upto(0) : s = {}
    BY <1>1
  <2>2. g = [s \in Upto(0) |-> Body(g, s)]
    BY <2>1
  <2> HIDE DEF g, Body, Upto
  <2> QED BY <2>2
<1>4. ASSUME NEW n \in Nat, n \in Good
      PROVE  n + 1 \in Good
  <2>1. PICK g : g = [s \in Upto(n) |-> Body(g, s)]
    BY <1>4
  <2> DEFINE h == [s \in Upto(n + 1) |-> Body(g, s)]
  <2>2. ASSUME NEW s \in Upto(n + 1), s # {}
        PROVE  h[Rest(s)] = g[Rest(s)]
    <3>1. Rest(s) \in Upto(n) /\ Rest(s) \in Upto(n + 1)
      BY <1>1, <1>2, <2>2
    <3>2. h[Rest(s)] = Body(g, Rest(s))
      BY <3>1
    <3>3. g[Rest(s)] = Body(g, Rest(s))
      <4> HIDE DEF Body, Upto, Rest
      <4> QED BY <2>1, <3>1
    <3> QED BY <3>2, <3>3
  <2>3. \A s \in Upto(n + 1) : Body(g, s) = Body(h, s)
    <3> SUFFICES ASSUME NEW s \in Upto(n + 1)
                 PROVE  Body(g, s) = Body(h, s)
      OBVIOUS
    <3>1. CASE s = {}
      BY <3>1
    <3>2. CASE s # {}
      <4>1. h[Rest(s)] = g[Rest(s)]
        BY <2>2, <3>2
      <4> HIDE DEF h, Rest
      <4> QED BY <3>2, <4>1
    <3> QED BY <3>1, <3>2
  <2>4. h = [s \in Upto(n + 1) |-> Body(h, s)]
    <3>1. h = [s \in Upto(n + 1) |-> Body(g, s)]
      OBVIOUS
    <3> HIDE DEF h, Body, Upto
    <3> QED BY <2>3, <3>1
  <2> HIDE DEF h, Body, Upto
  <2> QED BY <2>4
<1>5. Cardinality(S) \in Good
  <2> HIDE DEF Good
  <2>1. Nat \subseteq Good
    BY <1>3, <1>4, NatSetInduction
  <2> QED BY <1>1, <2>1
<1>6. Upto(Cardinality(S)) = SUBSET S
  BY <1>1
<1>7. PICK g : g = [s \in Upto(Cardinality(S)) |-> Body(g, s)]
  BY <1>5
<1>8. SumEquation(g, f, S)
  BY <1>6, <1>7 DEF SumEquation
<1> QED BY <1>8

\* The sum over a set by its own function, whatever larger set that is taken of.
LEMMA SumChosen ==
    ASSUME NEW f, NEW S, IsFiniteSet(S)
    PROVE  \E g : SumEquation(g, f, S) /\ g[S] = SumFunctionOnSet(f, S)
  BY SumExists, SumUnfold

LEMMA SumUnique ==
    ASSUME NEW f, NEW S, IsFiniteSet(S), NEW T \in SUBSET S,
           NEW g, SumEquation(g, f, S), NEW h, SumEquation(h, f, T)
    PROVE  \A s \in SUBSET T : g[s] = h[s]
<1> DEFINE Rest(s) == s \ {CHOOSE x \in s : TRUE}
           Same == {n \in Nat : \A s \in SUBSET T : Cardinality(s) = n => g[s] = h[s]}
<1>1. \A s \in SUBSET T : IsFiniteSet(s) /\ Cardinality(s) \in Nat
                          /\ (Cardinality(s) = 0 <=> s = {})
  BY FS_Subset, FS_CardinalityType, FS_EmptySet
<1>2. \A s \in SUBSET T : s # {} =>
        Rest(s) \in SUBSET T /\ Cardinality(Rest(s)) = Cardinality(s) - 1
  BY <1>1, FS_RemoveElement
<1>3. \A s \in SUBSET T :
        /\ s = {} => g[s] = 0 /\ h[s] = 0
        /\ s # {} => /\ g[s] = f[CHOOSE x \in s : TRUE] + g[Rest(s)]
                     /\ h[s] = f[CHOOSE x \in s : TRUE] + h[Rest(s)]
  BY DEF SumEquation
<1> HIDE DEF Rest
<1>4. 0 \in Same
  BY <1>1, <1>3
<1>5. ASSUME NEW n \in Nat, n \in Same
      PROVE  n + 1 \in Same
  <2> SUFFICES ASSUME NEW s \in SUBSET T, Cardinality(s) = n + 1
               PROVE  g[s] = h[s]
    OBVIOUS
  <2>1. s # {} /\ Rest(s) \in SUBSET T /\ Cardinality(Rest(s)) = n
    BY <1>1, <1>2
  <2>2. g[Rest(s)] = h[Rest(s)]
    BY <1>5, <2>1
  <2> QED BY <1>3, <2>1, <2>2
<1>6. Nat \subseteq Same
  <2> HIDE DEF Same
  <2> QED BY <1>4, <1>5, NatSetInduction
<1> QED BY <1>1, <1>6

LEMMA SumEmpty == \A f : SumFunctionOnSet(f, {}) = 0
<1> SUFFICES ASSUME NEW f PROVE SumFunctionOnSet(f, {}) = 0
  OBVIOUS
<1>1. PICK g : SumEquation(g, f, {}) /\ g[{}] = SumFunctionOnSet(f, {})
  BY SumChosen, FS_EmptySet
<1> QED BY <1>1 DEF SumEquation

\* A sum takes the element CHOOSE gives first.
LEMMA SumFirst ==
    ASSUME NEW f, NEW S, IsFiniteSet(S), S # {}
    PROVE  SumFunctionOnSet(f, S) =
             f[CHOOSE x \in S : TRUE] + SumFunctionOnSet(f, S \ {CHOOSE x \in S : TRUE})
<1> DEFINE T == S \ {CHOOSE x \in S : TRUE}
<1>1. IsFiniteSet(T) /\ T \in SUBSET S
  BY FS_RemoveElement
<1>2. PICK g : SumEquation(g, f, S) /\ g[S] = SumFunctionOnSet(f, S)
  BY SumChosen
<1>3. PICK h : SumEquation(h, f, T) /\ h[T] = SumFunctionOnSet(f, T)
  BY <1>1, SumChosen
<1>4. g[T] = h[T]
  <2> HIDE DEF T
  <2> QED BY <1>1, <1>2, <1>3, SumUnique
<1>5. g[S] = f[CHOOSE x \in S : TRUE] + g[T]
  BY <1>2 DEF SumEquation
<1> QED BY <1>2, <1>3, <1>4, <1>5

\* A set of subsets of a finite set that has each one whose smaller ones it has, has
\* them all.
LEMMA SubsetInduction ==
    ASSUME NEW U, IsFiniteSet(U), NEW P,
           \A T \in SUBSET U : (\A x \in T : T \ {x} \in P) => T \in P
    PROVE  SUBSET U \subseteq P
<1> DEFINE Done == {n \in Nat : \A T \in SUBSET U : Cardinality(T) = n => T \in P}
<1>1. \A T \in SUBSET U : IsFiniteSet(T) /\ Cardinality(T) \in Nat
                          /\ (Cardinality(T) = 0 <=> T = {})
  BY FS_Subset, FS_CardinalityType, FS_EmptySet
<1>2. \A T \in SUBSET U : \A x \in T : Cardinality(T \ {x}) = Cardinality(T) - 1
  BY <1>1, FS_RemoveElement
<1>3. 0 \in Done
  BY <1>1
<1>4. ASSUME NEW n \in Nat, n \in Done
      PROVE  n + 1 \in Done
  <2> SUFFICES ASSUME NEW T \in SUBSET U, Cardinality(T) = n + 1
               PROVE  T \in P
    OBVIOUS
  <2>1. \A x \in T : T \ {x} \in SUBSET U /\ Cardinality(T \ {x}) = n
    BY <1>2
  <2> QED BY <1>4, <2>1
<1>5. Nat \subseteq Done
  <2> HIDE DEF Done
  <2> QED BY <1>3, <1>4, NatSetInduction
<1> QED BY <1>1, <1>5

LEMMA SumType ==
    ASSUME NEW f, NEW S, IsFiniteSet(S), \A x \in S : f[x] \in Nat
    PROVE  \A T \in SUBSET S : SumFunctionOnSet(f, T) \in Nat
<1> DEFINE P == {T \in SUBSET S : SumFunctionOnSet(f, T) \in Nat}
<1>1. ASSUME NEW T \in SUBSET S, \A x \in T : T \ {x} \in P
      PROVE  T \in P
  <2>1. CASE T = {}
    BY <2>1, SumEmpty
  <2>2. CASE T # {}
    <3> DEFINE x == CHOOSE x \in T : TRUE
    <3>1. x \in T /\ IsFiniteSet(T)
      BY <2>2, FS_Subset
    <3>2. SumFunctionOnSet(f, T) = f[x] + SumFunctionOnSet(f, T \ {x})
      BY <2>2, <3>1, SumFirst
    <3> HIDE DEF x
    <3> QED BY <1>1, <3>1, <3>2
  <2> QED BY <2>1, <2>2
<1>2. SUBSET S \subseteq P
  <2> HIDE DEF P
  <2> QED BY <1>1, SubsetInduction
<1> QED BY <1>2

\* Any element may be taken first.
LEMMA SumRemove ==
    ASSUME NEW f, NEW S, IsFiniteSet(S), \A x \in S : f[x] \in Nat
    PROVE  \A y \in S : SumFunctionOnSet(f, S) = f[y] + SumFunctionOnSet(f, S \ {y})
<1> DEFINE Sum(T) == SumFunctionOnSet(f, T)
           P == {T \in SUBSET S : \A y \in T : Sum(T) = f[y] + Sum(T \ {y})}
<1>1. ASSUME NEW T \in SUBSET S, \A x \in T : T \ {x} \in P, NEW y \in T
      PROVE  Sum(T) = f[y] + Sum(T \ {y})
  <2> DEFINE x == CHOOSE x \in T : TRUE
  <2>1. x \in T /\ IsFiniteSet(T)
    BY FS_Subset
  <2>2. Sum(T) = f[x] + Sum(T \ {x})
    BY <2>1, SumFirst
  <2>3. CASE x = y
    BY <2>2, <2>3
  <2>4. CASE x # y
    <3>1. Sum(T \ {x}) = f[y] + Sum((T \ {x}) \ {y})
      BY <1>1, <2>1, <2>4
    <3>2. Sum(T \ {y}) = f[x] + Sum((T \ {y}) \ {x})
      BY <1>1, <2>1, <2>4
    <3>3. (T \ {x}) \ {y} = (T \ {y}) \ {x}
      OBVIOUS
    <3>4. Sum((T \ {x}) \ {y}) \in Nat /\ f[x] \in Nat /\ f[y] \in Nat
      BY <2>1, SumType
    <3> HIDE DEF Sum, x
    <3> QED BY <2>2, <3>1, <3>2, <3>3, <3>4
  <2> QED BY <2>3, <2>4
<1>2. SUBSET S \subseteq P
  <2>1. \A T \in SUBSET S : (\A x \in T : T \ {x} \in P) => T \in P
    BY <1>1
  <2> HIDE DEF P
  <2> QED BY <2>1, SubsetInduction
<1> QED BY <1>2

LEMMA SumAdd ==
    ASSUME NEW f, NEW S, IsFiniteSet(S), NEW y, y \notin S,
           f[y] \in Nat, \A x \in S : f[x] \in Nat
    PROVE  SumFunctionOnSet(f, S \cup {y}) = SumFunctionOnSet(f, S) + f[y]
<1>1. IsFiniteSet(S \cup {y}) /\ (S \cup {y}) \ {y} = S
  BY FS_AddElement
<1>2. SumFunctionOnSet(f, S \cup {y}) = f[y] + SumFunctionOnSet(f, (S \cup {y}) \ {y})
  BY <1>1, SumRemove
<1>3. SumFunctionOnSet(f, (S \cup {y}) \ {y}) = SumFunctionOnSet(f, S)
  BY <1>1
<1>4. SumFunctionOnSet(f, S) \in Nat
  BY SumType
<1> QED BY <1>2, <1>3, <1>4

\* A sum depends on its terms only.
LEMMA SumSame ==
    ASSUME NEW f, NEW g, NEW S, IsFiniteSet(S), \A x \in S : f[x] = g[x]
    PROVE  SumFunctionOnSet(f, S) = SumFunctionOnSet(g, S)
<1> DEFINE P == {T \in SUBSET S : SumFunctionOnSet(f, T) = SumFunctionOnSet(g, T)}
<1>1. ASSUME NEW T \in SUBSET S, \A x \in T : T \ {x} \in P
      PROVE  T \in P
  <2>1. CASE T = {}
    BY <2>1, SumEmpty
  <2>2. CASE T # {}
    <3> DEFINE x == CHOOSE x \in T : TRUE
    <3>1. x \in T /\ IsFiniteSet(T)
      BY <2>2, FS_Subset
    <3>2. /\ SumFunctionOnSet(f, T) = f[x] + SumFunctionOnSet(f, T \ {x})
          /\ SumFunctionOnSet(g, T) = g[x] + SumFunctionOnSet(g, T \ {x})
      BY <2>2, <3>1, SumFirst
    <3> HIDE DEF x
    <3> QED BY <1>1, <3>1, <3>2
  <2> QED BY <2>1, <2>2
<1>2. SUBSET S \subseteq P
  <2> HIDE DEF P
  <2> QED BY <1>1, SubsetInduction
<1> QED BY <1>2

\* The sum over the part of S in K and the sum over the rest.
LEMMA SumSplit ==
    ASSUME NEW f, NEW S, IsFiniteSet(S), \A x \in S : f[x] \in Nat, NEW K
    PROVE  /\ SumFunctionOnSet(f, S) = SumFunctionOnSet(f, S \cap K) + SumFunctionOnSet(f, S \ K)
           /\ SumFunctionOnSet(f, S \cap K) \in Nat
           /\ SumFunctionOnSet(f, S \ K) \in Nat
<1> DEFINE Sum(T) == SumFunctionOnSet(f, T)
           P == {T \in SUBSET S : Sum(T) = Sum(T \cap K) + Sum(T \ K)}
<1>1. ASSUME NEW T \in SUBSET S, \A x \in T : T \ {x} \in P
      PROVE  T \in P
  <2>1. CASE T = {}
    <3>1. T \cap K = {} /\ T \ K = {}
      BY <2>1
    <3> QED BY <2>1, <3>1, SumEmpty
  <2>2. CASE T # {}
    <3>1. PICK x \in T : TRUE
      BY <2>2
    <3>2. /\ IsFiniteSet(T) /\ IsFiniteSet(T \cap K) /\ IsFiniteSet(T \ K)
          /\ T \cap K \in SUBSET S /\ T \ K \in SUBSET S
          /\ (T \ {x}) \cap K \in SUBSET S /\ (T \ {x}) \ K \in SUBSET S
      BY FS_Subset
    <3>3. Sum(T) = f[x] + Sum(T \ {x}) /\ Sum(T \ {x}) = Sum((T \ {x}) \cap K) + Sum((T \ {x}) \ K)
      BY <1>1, <3>2, SumRemove
    <3>4. f[x] \in Nat /\ Sum((T \ {x}) \cap K) \in Nat /\ Sum((T \ {x}) \ K) \in Nat
      BY <3>2, SumType
    <3>5. CASE x \in K
      <4>1. (T \cap K) \ {x} = (T \ {x}) \cap K /\ T \ K = (T \ {x}) \ K /\ x \in T \cap K
        BY <3>5
      <4>2. Sum(T \cap K) = f[x] + Sum((T \cap K) \ {x})
        BY <3>2, <4>1, SumRemove
      <4>3. Sum((T \cap K) \ {x}) = Sum((T \ {x}) \cap K) /\ Sum(T \ K) = Sum((T \ {x}) \ K)
        BY <4>1
      <4> HIDE DEF Sum
      <4>4. Sum(T) = Sum(T \cap K) + Sum(T \ K)
        BY <3>3, <3>4, <4>2, <4>3
      <4> QED BY <4>4
    <3>6. CASE x \notin K
      <4>1. (T \ K) \ {x} = (T \ {x}) \ K /\ T \cap K = (T \ {x}) \cap K /\ x \in T \ K
        BY <3>6
      <4>2. Sum(T \ K) = f[x] + Sum((T \ K) \ {x})
        BY <3>2, <4>1, SumRemove
      <4>3. Sum((T \ K) \ {x}) = Sum((T \ {x}) \ K) /\ Sum(T \cap K) = Sum((T \ {x}) \cap K)
        BY <4>1
      <4> HIDE DEF Sum
      <4>4. Sum(T) = Sum(T \cap K) + Sum(T \ K)
        BY <3>3, <3>4, <4>2, <4>3
      <4> QED BY <4>4
    <3> QED BY <3>5, <3>6
  <2> QED BY <2>1, <2>2
<1>2. SUBSET S \subseteq P
  <2> HIDE DEF P
  <2> QED BY <1>1, SubsetInduction
<1>3. S \in P
  BY <1>2
<1>4. Sum(S \cap K) \in Nat /\ Sum(S \ K) \in Nat
  BY SumType
<1> QED BY <1>3, <1>4

\* No term is larger than the sum.
LEMMA SumBounds ==
    ASSUME NEW f, NEW S, IsFiniteSet(S), \A x \in S : f[x] \in Nat
    PROVE  \A x \in S : f[x] <= SumFunctionOnSet(f, S)
<1> SUFFICES ASSUME NEW x \in S
             PROVE  f[x] <= SumFunctionOnSet(f, S)
  OBVIOUS
<1>1. SumFunctionOnSet(f, S) = f[x] + SumFunctionOnSet(f, S \ {x})
  BY SumRemove
<1>2. SumFunctionOnSet(f, S \ {x}) \in Nat
  BY SumType
<1> QED BY <1>1, <1>2

\* Two functions that differ at one place.
LEMMA SumChange ==
    ASSUME NEW f, NEW g, NEW S, IsFiniteSet(S), NEW y \in S,
           \A x \in S : f[x] \in Nat /\ g[x] \in Nat, \A x \in S \ {y} : f[x] = g[x]
    PROVE  SumFunctionOnSet(g, S) + f[y] = SumFunctionOnSet(f, S) + g[y]
<1>1. SumFunctionOnSet(f, S) = f[y] + SumFunctionOnSet(f, S \ {y})
  BY SumRemove
<1>2. SumFunctionOnSet(g, S) = g[y] + SumFunctionOnSet(g, S \ {y})
  BY SumRemove
<1>3. IsFiniteSet(S \ {y}) /\ SumFunctionOnSet(f, S \ {y}) \in Nat
  BY SumType, FS_RemoveElement
<1>4. SumFunctionOnSet(f, S \ {y}) = SumFunctionOnSet(g, S \ {y})
  BY <1>3, SumSame
<1> QED BY <1>1, <1>2, <1>3, <1>4

LEMMA SumZero ==
    ASSUME NEW f, NEW S, IsFiniteSet(S), \A x \in S : f[x] = 0
    PROVE  SumFunctionOnSet(f, S) = 0
<1> DEFINE P == {T \in SUBSET S : SumFunctionOnSet(f, T) = 0}
<1>1. ASSUME NEW T \in SUBSET S, \A x \in T : T \ {x} \in P
      PROVE  T \in P
  <2>1. CASE T = {}
    BY <2>1, SumEmpty
  <2>2. CASE T # {}
    <3>1. PICK x \in T : IsFiniteSet(T)
      BY <2>2, FS_Subset
    <3>2. \A z \in T : f[z] \in Nat
      OBVIOUS
    <3>3. SumFunctionOnSet(f, T) = f[x] + SumFunctionOnSet(f, T \ {x})
      BY <3>1, <3>2, SumRemove
    <3> QED BY <1>1, <3>1, <3>3
  <2> QED BY <2>1, <2>2
<1>2. SUBSET S \subseteq P
  <2> HIDE DEF P
  <2> QED BY <1>1, SubsetInduction
<1> QED BY <1>2

\* Terms that all move up one place.
LEMMA SumShift ==
    ASSUME NEW f, NEW g, NEW m \in Nat, \A a \in 0..m : f[a] \in Nat,
           \A a \in 1..m : g[a] = f[a - 1]
    PROVE  SumFunctionOnSet(g, 1..m) = SumFunctionOnSet(f, 0..m - 1)
<1> DEFINE Good == {n \in Nat : n <= m =>
                      SumFunctionOnSet(g, 1..n) = SumFunctionOnSet(f, 0..n - 1)}
<1>1. 0 \in Good
  <2>1. 1..0 = {} /\ 0..0 - 1 = {}
    OBVIOUS
  <2> QED BY <2>1, SumEmpty
<1>2. ASSUME NEW n \in Nat, n \in Good
      PROVE  n + 1 \in Good
  <2> SUFFICES ASSUME n + 1 <= m
               PROVE  SumFunctionOnSet(g, 1..n + 1) = SumFunctionOnSet(f, 0..n + 1 - 1)
    OBVIOUS
  <2>1. /\ 1..n + 1 = (1..n) \cup {n + 1} /\ n + 1 \notin 1..n
        /\ 0..n + 1 - 1 = (0..n - 1) \cup {n} /\ n \notin 0..n - 1
    OBVIOUS
  <2>2. IsFiniteSet(1..n) /\ IsFiniteSet(0..n - 1)
    BY FS_Interval
  <2>3. /\ g[n + 1] = f[n] /\ g[n + 1] \in Nat /\ f[n] \in Nat
        /\ \A a \in 1..n : g[a] \in Nat
        /\ \A a \in 0..n - 1 : f[a] \in Nat
    OBVIOUS
  <2> DEFINE A == 1..n
             B == 0..n - 1
  <2>a. IsFiniteSet(A) /\ n + 1 \notin A /\ \A a \in A : g[a] \in Nat
    BY <2>1, <2>2, <2>3
  <2>b. IsFiniteSet(B) /\ n \notin B /\ \A a \in B : f[a] \in Nat
    BY <2>1, <2>2, <2>3
  <2> HIDE DEF A, B
  <2>4. SumFunctionOnSet(g, A \cup {n + 1}) = SumFunctionOnSet(g, A) + g[n + 1]
    BY <2>a, <2>3, SumAdd
  <2>5. SumFunctionOnSet(f, B \cup {n}) = SumFunctionOnSet(f, B) + f[n]
    BY <2>b, <2>3, SumAdd
  <2>6. SumFunctionOnSet(g, 1..n) = SumFunctionOnSet(f, 0..n - 1)
    BY <1>2
  <2> QED BY <2>1, <2>3, <2>4, <2>5, <2>6 DEF A, B
<1>3. m \in Good
  <2> HIDE DEF Good
  <2>1. Nat \subseteq Good
    BY <1>1, <1>2, NatSetInduction
  <2> QED BY <2>1
<1> QED BY <1>3

-----------------------------------------------------------------------------
(* Lists. *)

\* A list that names each of its elements once.
Distinct(s) == \A i, j \in 1..Len(s) : s[i] = s[j] => i = j

LEMMA AppendFacts ==
    ASSUME NEW S, NEW q \in Seq(S), NEW x \in S
    PROVE  /\ Append(q, x) \in Seq(S)
           /\ Range(Append(q, x)) = Range(q) \cup {x}
           /\ Distinct(q) /\ x \notin Range(q) => Distinct(Append(q, x))
<1>1. /\ Append(q, x) \in Seq(S) /\ Len(Append(q, x)) = Len(q) + 1 /\ Len(q) \in Nat
      /\ \A i \in 1..Len(q) : Append(q, x)[i] = q[i]
      /\ Append(q, x)[Len(q) + 1] = x
      /\ DOMAIN q = 1..Len(q) /\ DOMAIN Append(q, x) = 1..Len(q) + 1
  OBVIOUS
<1>2. Range(Append(q, x)) = Range(q) \cup {x}
  BY <1>1 DEF Range
<1>3. ASSUME Distinct(q), x \notin Range(q),
             NEW i \in 1..Len(q) + 1, NEW j \in 1..Len(q) + 1, Append(q, x)[i] = Append(q, x)[j]
      PROVE  i = j
  BY <1>1, <1>3 DEF Distinct, Range
<1> QED BY <1>1, <1>2, <1>3 DEF Distinct

LEMMA ConsFacts ==
    ASSUME NEW S, NEW q \in Seq(S), NEW x \in S
    PROVE  /\ <<x>> \o q \in Seq(S)
           /\ Range(<<x>> \o q) = {x} \cup Range(q)
           /\ Distinct(q) /\ x \notin Range(q) => Distinct(<<x>> \o q)
<1> DEFINE c == <<x>> \o q
<1>1. /\ c \in Seq(S) /\ Len(c) = Len(q) + 1 /\ Len(q) \in Nat
      /\ c[1] = x
      /\ \A i \in 1..Len(q) + 1 : i # 1 => c[i] = q[i - 1] /\ i - 1 \in 1..Len(q)
      /\ DOMAIN q = 1..Len(q) /\ DOMAIN c = 1..Len(q) + 1
  OBVIOUS
<1>2. \A i \in 1..Len(q) : c[i + 1] = q[i] /\ i + 1 \in 1..Len(q) + 1
  BY <1>1
<1> HIDE DEF c
<1>3. Range(c) = {x} \cup Range(q)
  <2>1. ASSUME NEW i \in DOMAIN c
        PROVE  c[i] \in {x} \cup Range(q)
    BY <1>1 DEF Range
  <2>2. ASSUME NEW i \in DOMAIN q
        PROVE  q[i] \in Range(c)
    BY <1>1, <1>2 DEF Range
  <2>3. x \in Range(c)
    BY <1>1 DEF Range
  <2> QED BY <2>1, <2>2, <2>3 DEF Range
<1>4. ASSUME Distinct(q), x \notin Range(q),
             NEW i \in 1..Len(q) + 1, NEW j \in 1..Len(q) + 1, c[i] = c[j]
      PROVE  i = j
  <2>1. CASE i = 1 \/ j = 1
    BY <1>1, <1>4, <2>1 DEF Range
  <2>2. CASE i # 1 /\ j # 1
    BY <1>1, <1>4, <2>2 DEF Distinct
  <2> QED BY <2>1, <2>2
<1> QED BY <1>1, <1>3, <1>4 DEF Distinct, c

\* The function that Deleted is made of.
DeletedUpTo(g, s, K) ==
    g = [i \in 0..Len(s) |-> IF i = 0 THEN <<>>
                             ELSE IF s[i] \in K THEN g[i - 1] ELSE Append(g[i - 1], s[i])]

LEMMA DeletedUnfold ==
    ASSUME NEW s, NEW K
    PROVE  Deleted(s, K) = (CHOOSE g : DeletedUpTo(g, s, K))[Len(s)]
  BY DEF Deleted, DeletedUpTo

LEMMA DeletedExists ==
    ASSUME NEW S, NEW s \in Seq(S), NEW K
    PROVE  \E g : DeletedUpTo(g, s, K)
<1> DEFINE Body(g, i) == IF i = 0 THEN <<>>
                         ELSE IF s[i] \in K THEN g[i - 1] ELSE Append(g[i - 1], s[i])
           Good == {n \in Nat : \E g : g = [i \in 0..n |-> Body(g, i)]}
<1>1. 0 \in Good
  <2> DEFINE g == [i \in 0..0 |-> <<>>]
  <2>1. g = [i \in 0..0 |-> Body(g, i)]
    OBVIOUS
  <2> HIDE DEF g, Body
  <2> QED BY <2>1
<1>2. ASSUME NEW n \in Nat, n \in Good
      PROVE  n + 1 \in Good
  <2>1. PICK g : g = [i \in 0..n |-> Body(g, i)]
    BY <1>2
  <2> DEFINE h == [i \in 0..n + 1 |-> Body(g, i)]
  <2>2. ASSUME NEW i \in 0..n + 1, i # 0
        PROVE  h[i - 1] = g[i - 1]
    <3>1. i - 1 \in 0..n /\ i - 1 \in 0..n + 1
      BY <2>2
    <3> HIDE DEF Body
    <3> QED BY <2>1, <3>1
  <2>3. \A i \in 0..n + 1 : Body(g, i) = Body(h, i)
    <3> SUFFICES ASSUME NEW i \in 0..n + 1
                 PROVE  Body(g, i) = Body(h, i)
      OBVIOUS
    <3>1. CASE i = 0
      BY <3>1
    <3>2. CASE i # 0
      <4>1. h[i - 1] = g[i - 1]
        BY <2>2, <3>2
      <4> HIDE DEF h
      <4> QED BY <3>2, <4>1
    <3> QED BY <3>1, <3>2
  <2>4. h = [i \in 0..n + 1 |-> Body(g, i)]
    OBVIOUS
  <2> HIDE DEF h, Body
  <2>5. h = [i \in 0..n + 1 |-> Body(h, i)]
    BY <2>3, <2>4
  <2> QED BY <2>5
<1>3. Len(s) \in Good
  <2> HIDE DEF Good
  <2>1. Nat \subseteq Good
    BY <1>1, <1>2, NatSetInduction
  <2> QED BY <2>1
<1> QED BY <1>3 DEF DeletedUpTo

\* What a deletion leaves: the other elements, and no element twice that was there
\* once.
LEMMA DeletedFacts ==
    ASSUME NEW S, NEW s \in Seq(S), NEW K
    PROVE  /\ Deleted(s, K) \in Seq(S)
           /\ Range(Deleted(s, K)) = Range(s) \ K
           /\ Distinct(s) => Distinct(Deleted(s, K))
<1>1. PICK g : DeletedUpTo(g, s, K) /\ Deleted(s, K) = g[Len(s)]
  BY DeletedExists, DeletedUnfold
<1> DEFINE First(i) == {s[j] : j \in 1..i}
           Fine(i) == /\ g[i] \in Seq(S)
                      /\ Range(g[i]) = First(i) \ K
                      /\ Distinct(s) => Distinct(g[i])
           Good == {i \in Nat : i <= Len(s) => Fine(i)}
<1>2. /\ g[0] = <<>>
      /\ \A i \in 1..Len(s) : g[i] = IF s[i] \in K THEN g[i - 1] ELSE Append(g[i - 1], s[i])
  <2>1. \A i \in 0..Len(s) : g[i] = IF i = 0 THEN <<>>
                                 ELSE IF s[i] \in K THEN g[i - 1] ELSE Append(g[i - 1], s[i])
    BY <1>1, Zenon DEF DeletedUpTo
  <2>2. Len(s) \in Nat /\ 0 \in 0..Len(s)
    OBVIOUS
  <2>3. \A i \in 1..Len(s) : i \in 0..Len(s) /\ i # 0
    OBVIOUS
  <2> QED BY <2>1, <2>2, <2>3, Zenon
<1>3. 0 \in Good
  <2>1. g[0] \in Seq(S) /\ Range(g[0]) = {} /\ First(0) = {} /\ Distinct(g[0])
    BY <1>2 DEF Range, Distinct
  <2> QED BY <2>1
<1>4. ASSUME NEW i \in Nat, i \in Good
      PROVE  i + 1 \in Good
  <2> SUFFICES ASSUME i + 1 <= Len(s)
               PROVE  Fine(i + 1)
    OBVIOUS
  <2>1. Fine(i) /\ i + 1 \in 1..Len(s) /\ s[i + 1] \in S
    BY <1>4
  <2>2. g[i + 1] = IF s[i + 1] \in K THEN g[i] ELSE Append(g[i], s[i + 1])
    BY <1>2, <2>1
  <2>3. First(i + 1) = First(i) \cup {s[i + 1]}
    OBVIOUS
  <2>4. CASE s[i + 1] \in K
    BY <2>1, <2>2, <2>3, <2>4
  <2>5. CASE s[i + 1] \notin K
    <3>1. g[i + 1] = Append(g[i], s[i + 1])
      BY <2>2, <2>5
    <3>2. g[i + 1] \in Seq(S) /\ Range(g[i + 1]) = Range(g[i]) \cup {s[i + 1]}
      BY <2>1, <3>1, AppendFacts
    <3>3. ASSUME Distinct(s)
          PROVE  s[i + 1] \notin Range(g[i])
      BY <2>1, <3>3 DEF Distinct
    <3>4. Distinct(s) => Distinct(g[i + 1])
      BY <2>1, <3>1, <3>3, AppendFacts
    <3>5. Range(g[i + 1]) = First(i + 1) \ K
      BY <2>1, <2>3, <2>5, <3>2
    <3> QED BY <3>2, <3>4, <3>5
  <2> QED BY <2>4, <2>5
<1>5. Len(s) \in Good
  <2> HIDE DEF Good
  <2>1. Nat \subseteq Good
    BY <1>3, <1>4, NatSetInduction
  <2> QED BY <2>1
<1>6. First(Len(s)) = Range(s)
  BY DEF Range
<1>7. Fine(Len(s))
  BY <1>5
<1> QED BY <1>1, <1>6, <1>7

\* A list without repetitions is as long as the set of its elements is large.
LEMMA DistinctLength ==
    ASSUME NEW S, NEW s \in Seq(S)
    PROVE  /\ IsFiniteSet(Range(s))
           /\ Distinct(s) => Cardinality(Range(s)) = Len(s)
<1>1. IsFiniteSet(1..Len(s)) /\ Cardinality(1..Len(s)) = Len(s)
  <2>1. Len(s) \in Nat
    OBVIOUS
  <2> QED BY <2>1, FS_Interval
<1>2. s \in Surjection(1..Len(s), Range(s))
  BY DEF Surjection, Range
<1>3. IsFiniteSet(Range(s))
  BY <1>1, <1>2, FS_Surjection
<1>4. ASSUME Distinct(s)
      PROVE  ExistsBijection(1..Len(s), Range(s))
  <2>1. s \in Injection(1..Len(s), Range(s))
    BY <1>2, <1>4 DEF Injection, IsInjective, Distinct, Surjection
  <2> QED BY <1>2, <2>1 DEF ExistsBijection, Bijection
<1> QED BY <1>1, <1>3, <1>4, FS_Bijection
=============================================================================
