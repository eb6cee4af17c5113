-------------------------- MODULE DataFrameTheorems --------------------------
(***************************************************************************)
(* Lemmas about the operators the models are built from.  The library's    *)
(* induction theorems take an operator as a parameter, which no installed  *)
(* prover can instantiate; the induction here is over sets, and rests on   *)
(* WFMin, which says that every set of naturals has a least element.       *)
(***************************************************************************)
EXTENDS DataFrame, SequencesExt, Functions, FiniteSetTheorems, WellFoundedInduction, TLAPS

-----------------------------------------------------------------------------
(***************************************************************************)
(* Induction.                                                              *)
(***************************************************************************)
\* A set that holds 0 and the successor of each of its naturals holds them
\* all.  This is induction with the predicate given as a set.
LEMMA NatSetInduction ==
  ASSUME NEW S, 0 \in S, \A n \in Nat : n \in S => n + 1 \in S
  PROVE  Nat \subseteq S
<1> DEFINE T == Nat \ S
<1> SUFFICES ASSUME T # {} PROVE FALSE
  OBVIOUS
<1>1. PICK x \in T : \A y \in T : ~ (<<y, x>> \in OpToRel(<, Nat))
  <2>1. T \subseteq Nat
    OBVIOUS
  <2> HIDE DEF T
  <2> QED
  BY <2>1, NatLessThanWellFounded, WFMin, Zenon
<1>2. x \in Nat /\ x # 0 /\ x - 1 \in Nat
  OBVIOUS
<1>3. <<x - 1, x>> \in OpToRel(<, Nat)
  BY <1>2 DEF OpToRel
<1>4. x - 1 \in S
  BY <1>1, <1>2, <1>3
<1> QED
  BY <1>2, <1>4

\* A family of subsets that holds the empty set, and with a set every set of
\* one element more, holds the whole finite set.
LEMMA FiniteSetInduction ==
  ASSUME NEW S, IsFiniteSet(S), NEW F, {} \in F,
         \A T \in SUBSET S : \A x \in S \ T : T \in F => T \cup {x} \in F
  PROVE  S \in F
<1> DEFINE N == {n \in Nat : \A T \in SUBSET S : Cardinality(T) = n => T \in F}
<1>1. 0 \in N
  BY FS_EmptySet, FS_Subset
<1>2. ASSUME NEW n \in Nat, n \in N  PROVE n + 1 \in N
  <2> SUFFICES ASSUME NEW T \in SUBSET S, Cardinality(T) = n + 1  PROVE T \in F
    OBVIOUS
  <2>1. IsFiniteSet(T) /\ T # {}
    BY FS_EmptySet, FS_Subset
  <2>2. PICK x \in T : TRUE
    BY <2>1
  <2>3. Cardinality(T \ {x}) = n
    <3>1. Cardinality(T \ {x}) = Cardinality(T) - 1
      BY <2>1, FS_RemoveElement
    <3> QED
      BY <3>1
  <2>4. T \ {x} \in F
    BY <1>2, <2>3
  <2> DEFINE R == T \ {x}
  <2>5. R \in SUBSET S /\ R \cup {x} = T /\ x \in S \ R
    OBVIOUS
  <2>6. R \in F
    BY <2>4
  <2> HIDE DEF R
  <2>7. R \cup {x} \in F
    BY <2>5, <2>6
  <2> QED
    BY <2>5, <2>7
<1>3. Nat \subseteq N
  <2> HIDE DEF N
  <2> QED
    BY <1>1, <1>2, NatSetInduction
<1> QED
  BY <1>3, FS_CardinalityType

-----------------------------------------------------------------------------
(***************************************************************************)
(* SumFunctionOnSet is defined by a recursive function.  That function exists *)
(* for every finite set, by induction, and so the sum satisfies its recursion. *)
(***************************************************************************)
\* One step of the recursion that FoldFunctionOnSet unfolds to.
SumStep(f, g, s) == IF s = {} THEN 0 ELSE f[CHOOSE x \in s : TRUE] + g[s \ {CHOOSE x \in s : TRUE}]

\* The recursive definition behind a sum has a solution on a finite set.
LEMMA SumExists ==
  ASSUME NEW f, NEW S, IsFiniteSet(S)
  PROVE  \E g : g = [s \in SUBSET S |-> SumStep(f, g, s)]
<1> DEFINE upto(n) == {s \in SUBSET S : Cardinality(s) <= n}
           N == {n \in Nat : \E g : g = [s \in upto(n) |-> SumStep(f, g, s)]}
<1>1. 0 \in N
  <2> DEFINE g == [s \in upto(0) |-> 0]
  <2>1. \A s \in upto(0) : s = {}
    <3> TAKE s \in upto(0)
    <3>1. IsFiniteSet(s) /\ Cardinality(s) \in Nat /\ Cardinality(s) <= 0
      BY FS_Subset, FS_CardinalityType
    <3> QED
      BY <3>1, FS_EmptySet
  <2>2. g = [s \in upto(0) |-> SumStep(f, g, s)]
    BY <2>1 DEF SumStep
  <2> QED
    BY <2>2
<1>2. ASSUME NEW n \in Nat, n \in N  PROVE n + 1 \in N
  <2>1. PICK g : g = [s \in upto(n) |-> SumStep(f, g, s)]
    BY <1>2
  <2> DEFINE h == [s \in upto(n + 1) |-> SumStep(f, g, s)]
  <2>2. ASSUME NEW s \in upto(n + 1)  PROVE SumStep(f, h, s) = SumStep(f, g, s)
    <3>1. CASE s = {}
      BY <3>1 DEF SumStep
    <3>2. CASE s # {}
      <4> DEFINE x == CHOOSE x \in s : TRUE
                 r == s \ {x}
      <4>1. x \in s
        BY <3>2
      <4>2. IsFiniteSet(s) /\ Cardinality(s) <= n + 1 /\ Cardinality(s) \in Nat
        BY FS_Subset, FS_CardinalityType
      <4>3. r \in SUBSET S /\ Cardinality(r) = Cardinality(s) - 1
        BY <4>1, <4>2, FS_RemoveElement
      <4>4. r \in upto(n) /\ r \in upto(n + 1)
        BY <4>2, <4>3
      <4>5. h[r] = g[r]
        <5>1. h[r] = SumStep(f, g, r)
          BY <4>4
        <5>2. g[r] = SumStep(f, g, r)
          <6> HIDE DEF upto, r
          <6> QED
          BY <2>1, <4>4
        <5> QED
          BY <5>1, <5>2
      <4> QED
        BY <3>2, <4>5 DEF SumStep
    <3> QED
      BY <3>1, <3>2
  <2>3. h = [s \in upto(n + 1) |-> SumStep(f, h, s)]
    BY <2>2
  <2>4. \E k : k = [s \in upto(n + 1) |-> SumStep(f, k, s)]
    <3> HIDE DEF h
    <3> QED
      BY <2>3
  <2> HIDE DEF upto, h
  <2> QED
    BY <2>4
<1>3. Cardinality(S) \in N
  <2> HIDE DEF N
  <2> QED
    BY <1>1, <1>2, NatSetInduction, FS_CardinalityType
<1>4. upto(Cardinality(S)) = SUBSET S
  BY FS_Subset
<1> QED
  BY <1>3, <1>4

\* A function on the subsets of S that satisfies the recursion.
Solution(f, S) == CHOOSE g : g = [s \in SUBSET S |-> SumStep(f, g, s)]

\* A sum over S is the solution's value at S.
LEMMA SumIs ==
  ASSUME NEW f, NEW S
  PROVE  SumFunctionOnSet(f, S) = Solution(f, S)[S]
BY DEF SumFunctionOnSet, FoldFunctionOnSet, MapThenFoldSet, Solution, SumStep

\* The solution satisfies the recursion at every subset of a finite set.
LEMMA SolutionStep ==
  ASSUME NEW f, NEW S, IsFiniteSet(S), NEW s \in SUBSET S
  PROVE  Solution(f, S)[s] = SumStep(f, Solution(f, S), s)
<1>1. Solution(f, S) = [r \in SUBSET S |-> SumStep(f, Solution(f, S), r)]
  BY SumExists DEF Solution
<1> HIDE DEF Solution
<1> QED
  BY <1>1

\* The solutions for a set and for a subset of it agree below the subset.
LEMMA SolutionsAgree ==
  ASSUME NEW f, NEW S, IsFiniteSet(S), NEW T \in SUBSET S
  PROVE  Solution(f, S)[T] = Solution(f, T)[T]
<1> DEFINE N == {n \in Nat : \A s \in SUBSET T : Cardinality(s) = n =>
                                Solution(f, S)[s] = Solution(f, T)[s]}
<1>0. IsFiniteSet(T) /\ Cardinality(T) \in Nat
  BY FS_Subset, FS_CardinalityType
<1>1. 0 \in N
  <2> SUFFICES ASSUME NEW s \in SUBSET T, Cardinality(s) = 0
               PROVE  Solution(f, S)[s] = Solution(f, T)[s]
    OBVIOUS
  <2>1. s = {}
    BY <1>0, FS_EmptySet, FS_Subset
  <2>2. Solution(f, S)[s] = 0 /\ Solution(f, T)[s] = 0
    BY <1>0, <2>1, SolutionStep DEF SumStep
  <2> QED
    BY <2>2
<1>2. ASSUME NEW n \in Nat, n \in N  PROVE n + 1 \in N
  <2> SUFFICES ASSUME NEW s \in SUBSET T, Cardinality(s) = n + 1
               PROVE  Solution(f, S)[s] = Solution(f, T)[s]
    OBVIOUS
  <2> DEFINE x == CHOOSE y \in s : TRUE
             r == s \ {x}
  <2>1. IsFiniteSet(s) /\ s # {}
    BY <1>0, FS_EmptySet, FS_Subset
  <2>2. x \in s
    BY <2>1
  <2>3. Cardinality(r) = n
    <3>1. Cardinality(r) = Cardinality(s) - 1
      BY <2>1, <2>2, FS_RemoveElement
    <3> QED
      BY <3>1
  <2>4. Solution(f, S)[r] = Solution(f, T)[r]
    BY <1>2, <2>3
  <2>5. SumStep(f, Solution(f, S), s) = SumStep(f, Solution(f, T), s)
    BY <2>1, <2>4 DEF SumStep
  <2> QED
    BY <1>0, <2>5, SolutionStep
<1>3. Cardinality(T) \in N
  <2> HIDE DEF N
  <2> QED
    BY <1>0, <1>1, <1>2, NatSetInduction
<1> QED
  BY <1>3

\* The sum over no index is zero.
LEMMA SumOfNothing ==
  ASSUME NEW f
  PROVE  SumFunctionOnSet(f, {}) = 0
BY SumIs, SolutionStep, FS_EmptySet DEF SumStep

\* A sum starts with some index, followed by the sum over the others.
LEMMA SumFirst ==
  ASSUME NEW f, NEW S, IsFiniteSet(S), S # {}
  PROVE  \E x \in S : SumFunctionOnSet(f, S) = f[x] + SumFunctionOnSet(f, S \ {x})
<1> DEFINE x == CHOOSE y \in S : TRUE
<1>1. x \in S
  OBVIOUS
<1>2. Solution(f, S)[S] = f[x] + Solution(f, S)[S \ {x}]
  <2>1. Solution(f, S)[S] = SumStep(f, Solution(f, S), S)
    BY SolutionStep
  <2> QED
    BY <2>1 DEF SumStep
<1>3. Solution(f, S)[S \ {x}] = Solution(f, S \ {x})[S \ {x}]
  BY SolutionsAgree
<1> QED
  BY <1>1, <1>2, <1>3, SumIs

\* The sum is an integer, and any element can come first.
LEMMA SumRemove ==
  ASSUME NEW f, NEW S, IsFiniteSet(S), \A x \in S : f[x] \in Int
  PROVE  /\ SumFunctionOnSet(f, S) \in Int
         /\ \A x \in S : SumFunctionOnSet(f, S) = f[x] + SumFunctionOnSet(f, S \ {x})
<1> DEFINE Sum(s) == SumFunctionOnSet(f, s)
           Good(s) == Sum(s) \in Int /\ \A x \in s : Sum(s) = f[x] + Sum(s \ {x})
           N == {n \in Nat : \A s \in SUBSET S : Cardinality(s) <= n => Good(s)}
<1>1. 0 \in N
  <2> SUFFICES ASSUME NEW s \in SUBSET S, Cardinality(s) <= 0  PROVE Good(s)
    OBVIOUS
  <2>1. s = {}
    <3>1. IsFiniteSet(s) /\ Cardinality(s) \in Nat
      BY FS_Subset, FS_CardinalityType
    <3> QED
      BY <3>1, FS_EmptySet
  <2> QED
    BY <2>1, SumOfNothing
<1>2. ASSUME NEW n \in Nat, n \in N  PROVE n + 1 \in N
  <2> SUFFICES ASSUME NEW s \in SUBSET S, Cardinality(s) <= n + 1, s # {}  PROVE Good(s)
    BY SumOfNothing
  <2>1. IsFiniteSet(s) /\ Cardinality(s) \in Nat
    BY FS_Subset, FS_CardinalityType
  <2>2. ASSUME NEW r \in SUBSET s, NEW y \in s, y \notin r
        PROVE  Good(r)
    <3>1. Cardinality(s \ {y}) = Cardinality(s) - 1 /\ IsFiniteSet(s \ {y})
      BY <2>1, FS_RemoveElement
    <3>2. r \in SUBSET (s \ {y})
      BY <2>2
    <3>3. Cardinality(r) <= Cardinality(s \ {y}) /\ Cardinality(r) \in Nat
      BY <3>1, <3>2, FS_Subset, FS_CardinalityType
    <3>4. Cardinality(r) <= n
      BY <2>1, <3>1, <3>3
    <3> HIDE DEF Good
    <3> QED
      BY <1>2, <3>4
  <2>3. PICK c \in s : Sum(s) = f[c] + Sum(s \ {c})
    BY <2>1, SumFirst
  <2> HIDE DEF Sum
  <2>4. \A y \in s : Sum(s \ {y}) \in Int /\ f[y] \in Int
    BY <2>2
  <2>5. ASSUME NEW x \in s, x # c  PROVE Sum(s) = f[x] + Sum(s \ {x})
    <3> DEFINE r == s \ {c, x}
    <3>0. /\ r = (s \ {c}) \ {x} /\ r = (s \ {x}) \ {c}
          /\ x \in s \ {c} /\ c \in s \ {x} /\ r \in SUBSET s /\ c \notin r
      BY <2>5
    <3> HIDE DEF r
    <3>1. Sum(s \ {c}) = f[x] + Sum(r) /\ Sum(s \ {x}) = f[c] + Sum(r)
      BY <2>2, <3>0
    <3>2. Sum(r) \in Int /\ f[x] \in Int /\ f[c] \in Int
      BY <2>2, <2>4, <3>0
    <3> QED
      BY <2>3, <3>1, <3>2
  <2>6. Sum(s) \in Int
    <3>1. Sum(s \ {c}) \in Int /\ f[c] \in Int
      BY <2>4
    <3> QED
      BY <2>3, <3>1
  <2> QED
    BY <2>3, <2>5, <2>6
<1>3. Cardinality(S) \in N
  <2> HIDE DEF N
  <2> QED
    BY <1>1, <1>2, NatSetInduction, FS_CardinalityType
<1>4. Good(S)
  <2>1. Cardinality(S) <= Cardinality(S)
    BY FS_CardinalityType
  <2> HIDE DEF Good
  <2> QED
    BY <1>3, <2>1
<1> QED
  BY <1>4
\* A sum only depends on the values at its indices.
LEMMA SumAgrees ==
  ASSUME NEW f, NEW g, NEW S, IsFiniteSet(S),
         \A x \in S : f[x] \in Int /\ f[x] = g[x]
  PROVE  SumFunctionOnSet(f, S) = SumFunctionOnSet(g, S)
<1> DEFINE F == {T \in SUBSET S : SumFunctionOnSet(f, T) = SumFunctionOnSet(g, T)}
<1>1. {} \in F
  BY SumOfNothing
<1>2. ASSUME NEW T \in SUBSET S, NEW x \in S \ T, T \in F  PROVE T \cup {x} \in F
  <2>1. IsFiniteSet(T \cup {x}) /\ (T \cup {x}) \ {x} = T
    BY FS_Subset
  <2>2. /\ SumFunctionOnSet(f, T \cup {x}) = f[x] + SumFunctionOnSet(f, T)
        /\ SumFunctionOnSet(g, T \cup {x}) = g[x] + SumFunctionOnSet(g, T)
    BY <2>1, SumRemove
  <2> QED
    BY <1>2, <2>2
<1>3. S \in F
  <2> HIDE DEF F
  <2> QED
    BY <1>1, <1>2, FiniteSetInduction
<1> QED
  BY <1>3

\* The sum of two functions' sums is the sum of their values' sums.
LEMMA SumAdds ==
  ASSUME NEW f, NEW g, NEW h, NEW S, IsFiniteSet(S),
         \A x \in S : f[x] \in Int /\ g[x] \in Int /\ h[x] = f[x] + g[x]
  PROVE  /\ SumFunctionOnSet(h, S) = SumFunctionOnSet(f, S) + SumFunctionOnSet(g, S)
         /\ SumFunctionOnSet(f, S) \in Int /\ SumFunctionOnSet(g, S) \in Int
<1> DEFINE Sum(k, T) == SumFunctionOnSet(k, T)
           F == {T \in SUBSET S : Sum(h, T) = Sum(f, T) + Sum(g, T)}
<1>0. \A y \in S : h[y] \in Int
  OBVIOUS
<1>1. {} \in F
  <2>1. Sum(h, {}) = 0 /\ Sum(f, {}) = 0 /\ Sum(g, {}) = 0
    BY SumOfNothing
  <2> HIDE DEF Sum
  <2> QED
    BY <2>1
<1>2. ASSUME NEW T \in SUBSET S, NEW x \in S \ T, T \in F  PROVE T \cup {x} \in F
  <2>1. IsFiniteSet(T \cup {x}) /\ IsFiniteSet(T) /\ (T \cup {x}) \ {x} = T
    BY FS_Subset
  <2>2. /\ Sum(f, T \cup {x}) = f[x] + Sum(f, T)
        /\ Sum(g, T \cup {x}) = g[x] + Sum(g, T)
        /\ Sum(h, T \cup {x}) = h[x] + Sum(h, T)
    BY <1>0, <2>1, SumRemove
  <2>3. Sum(f, T) \in Int /\ Sum(g, T) \in Int
    BY <2>1, SumRemove
  <2>4. h[x] = f[x] + g[x] /\ f[x] \in Int /\ g[x] \in Int
    OBVIOUS
  <2> HIDE DEF Sum
  <2> QED
    BY <1>2, <2>2, <2>3, <2>4
<1>3. S \in F
  <2> HIDE DEF F
  <2> QED
    BY <1>1, <1>2, FiniteSetInduction
<1> QED
  BY <1>3, SumRemove

\* A common factor may be taken out of a sum.
LEMMA SumTimes ==
  ASSUME NEW f, NEW h, NEW S, IsFiniteSet(S), NEW a \in Int,
         \A x \in S : f[x] \in Int /\ h[x] = f[x] * a
  PROVE  SumFunctionOnSet(h, S) = SumFunctionOnSet(f, S) * a
<1> DEFINE Sum(k, T) == SumFunctionOnSet(k, T)
           F == {T \in SUBSET S : Sum(h, T) = Sum(f, T) * a}
<1>0. \A y \in S : h[y] \in Int
  OBVIOUS
<1>1. {} \in F
  <2>1. Sum(h, {}) = 0 /\ Sum(f, {}) = 0
    BY SumOfNothing
  <2> HIDE DEF Sum
  <2> QED
    BY <2>1
<1>2. ASSUME NEW T \in SUBSET S, NEW x \in S \ T, T \in F  PROVE T \cup {x} \in F
  <2>1. IsFiniteSet(T \cup {x}) /\ IsFiniteSet(T) /\ (T \cup {x}) \ {x} = T
    BY FS_Subset
  <2>2. /\ Sum(f, T \cup {x}) = f[x] + Sum(f, T)
        /\ Sum(h, T \cup {x}) = h[x] + Sum(h, T)
    BY <1>0, <2>1, SumRemove
  <2>3. Sum(f, T) \in Int
    BY <2>1, SumRemove
  <2>4. h[x] = f[x] * a /\ f[x] \in Int
    OBVIOUS
  <2> HIDE DEF Sum
  <2>5. (f[x] + Sum(f, T)) * a = f[x] * a + Sum(f, T) * a
    BY <2>3, <2>4
  <2> QED
    BY <1>2, <2>2, <2>4, <2>5
<1>3. S \in F
  <2> HIDE DEF F
  <2> QED
    BY <1>1, <1>2, FiniteSetInduction
<1> QED
  BY <1>3

\* Groups that share no element are counted by adding up their sizes.
LEMMA CountByGroup ==
  ASSUME NEW G, NEW T, IsFiniteSet(T),
         \A t \in T : IsFiniteSet(G[t]),
         \A t, u \in T : t # u => G[t] \cap G[u] = {}
  PROVE  /\ IsFiniteSet(UNION {G[t] : t \in T})
         /\ Cardinality(UNION {G[t] : t \in T}) = SumFunctionOnSet([t \in T |-> Cardinality(G[t])], T)
<1> DEFINE c == [t \in T |-> Cardinality(G[t])]
           All(R) == UNION {G[t] : t \in R}
           F == {R \in SUBSET T : /\ IsFiniteSet(All(R))
                                  /\ Cardinality(All(R)) = SumFunctionOnSet(c, R)}
<1>0. \A t \in T : c[t] \in Nat
  BY FS_CardinalityType
<1>1. {} \in F
  <2>1. All({}) = {}
    OBVIOUS
  <2> QED
    BY <2>1, SumOfNothing, FS_EmptySet
<1>2. ASSUME NEW R \in SUBSET T, NEW x \in T \ R, R \in F  PROVE R \cup {x} \in F
  <2>1. All(R \cup {x}) = All(R) \cup G[x]
    OBVIOUS
  <2>2. All(R) \cap G[x] = {}
    OBVIOUS
  <2>3. IsFiniteSet(All(R)) /\ IsFiniteSet(G[x]) /\ Cardinality(All(R)) = SumFunctionOnSet(c, R)
    BY <1>2
  <2>4. c[x] = Cardinality(G[x])
    OBVIOUS
  <2>5. IsFiniteSet(R \cup {x}) /\ IsFiniteSet(R) /\ (R \cup {x}) \ {x} = R
    BY FS_Subset
  <2> HIDE DEF c, All
  <2>6. SumFunctionOnSet(c, R \cup {x}) = c[x] + SumFunctionOnSet(c, R)
    BY <1>0, <2>5, SumRemove
  <2>7. /\ IsFiniteSet(All(R) \cup G[x])
        /\ Cardinality(All(R) \cup G[x])
             = Cardinality(All(R)) + Cardinality(G[x]) - Cardinality(All(R) \cap G[x])
    BY <2>3, FS_Union
  <2>8. Cardinality(All(R)) \in Nat /\ Cardinality(G[x]) \in Nat /\ Cardinality({}) = 0
    BY <2>3, FS_CardinalityType, FS_EmptySet
  <2>9. Cardinality(All(R) \cup G[x]) = Cardinality(All(R)) + Cardinality(G[x]) - 0
    BY <2>2, <2>7, <2>8, Zenon
  <2>10. Cardinality(All(R) \cup G[x]) = Cardinality(G[x]) + Cardinality(All(R))
    BY <2>8, <2>9
  <2>11. Cardinality(All(R \cup {x})) = SumFunctionOnSet(c, R \cup {x})
    BY <2>1, <2>3, <2>4, <2>6, <2>10, Zenon
  <2>12. IsFiniteSet(All(R \cup {x}))
    BY <2>1, <2>7, Zenon
  <2> QED
    BY <2>11, <2>12
<1>3. T \in F
  <2> HIDE DEF F
  <2> QED
    BY <1>1, <1>2, FiniteSetInduction
<1> QED
  BY <1>3

-----------------------------------------------------------------------------
(***************************************************************************)
(* Series.sum(): the operator Total of DataFrame.                          *)
(***************************************************************************)
\* The units that Total(f, S) counts.
Units(f, S) == UNION {{i} \X (1 .. f[i]) : i \in S}

\* A row contributes as many units as its value.
LEMMA UnitsOfRow ==
  ASSUME NEW f, NEW i, f[i] \in Nat
  PROVE  IsFiniteSet({i} \X (1 .. f[i])) /\ Cardinality({i} \X (1 .. f[i])) = f[i]
<1> DEFINE n == f[i]
<1>1. n \in Nat
  OBVIOUS
<1> HIDE DEF n
<1>2. IsFiniteSet(1 .. n) /\ Cardinality(1 .. n) = n
  <2>1. 1 \in Int /\ n \in Int /\ (1 > n => n = 0)
    BY <1>1
  <2>2. /\ IsFiniteSet(1 .. n)
        /\ Cardinality(1 .. n) = IF 1 > n THEN 0 ELSE n - 1 + 1
    BY <2>1, FS_Interval
  <2> QED
    BY <2>1, <2>2
<1>3. IsFiniteSet({i}) /\ Cardinality({i}) = 1
  BY FS_Singleton
<1>4. Cardinality({i} \X (1 .. n)) = 1 * n /\ IsFiniteSet({i} \X (1 .. n))
  BY <1>2, <1>3, FS_Product
<1> QED
  BY <1>1, <1>4 DEF n

\* A sum over rows is a sum.
LEMMA TotalIsSum ==
  ASSUME NEW f, NEW S, IsFiniteSet(S), \A i \in S : f[i] \in Nat
  PROVE  /\ Total(f, S) = SumFunctionOnSet(f, S)
         /\ Total(f, S) \in Nat
         /\ IsFiniteSet(Units(f, S))
<1> DEFINE G == [i \in S |-> {i} \X (1 .. f[i])]
           c == [i \in S |-> Cardinality(G[i])]
<1>1. \A i \in S : IsFiniteSet(G[i]) /\ Cardinality(G[i]) = f[i]
  BY UnitsOfRow
<1>2. \A i, j \in S : i # j => G[i] \cap G[j] = {}
  OBVIOUS
<1>3. UNION {G[i] : i \in S} = Units(f, S)
  BY DEF Units
<1>4. \A i \in S : c[i] \in Int /\ c[i] = f[i]
  BY <1>1
<1>5. SumFunctionOnSet(c, S) = SumFunctionOnSet(f, S)
  <2> HIDE DEF c
  <2> QED
    BY <1>4, SumAgrees
<1> HIDE DEF G
<1>6. /\ IsFiniteSet(UNION {G[i] : i \in S})
      /\ Cardinality(UNION {G[i] : i \in S}) = SumFunctionOnSet(c, S)
  BY <1>1, <1>2, CountByGroup
<1>7. IsFiniteSet(Units(f, S)) /\ Cardinality(Units(f, S)) = SumFunctionOnSet(f, S)
  BY <1>3, <1>5, <1>6, Zenon
<1> QED
  BY <1>7, FS_CardinalityType DEF Total, Units

\* A sum over groups of rows that share no row is the sum of the groups' sums.
LEMMA TotalByGroup ==
  ASSUME NEW f, NEW G, NEW T, IsFiniteSet(T),
         \A t \in T : IsFiniteSet(G[t]) /\ \A i \in G[t] : f[i] \in Nat,
         \A t, u \in T : t # u => G[t] \cap G[u] = {}
  PROVE  Total(f, UNION {G[t] : t \in T}) = SumFunctionOnSet([t \in T |-> Total(f, G[t])], T)
<1> DEFINE U == [t \in T |-> Units(f, G[t])]
<1>1. \A t \in T : IsFiniteSet(U[t])
  BY TotalIsSum
<1>2. \A t, u \in T : t # u => U[t] \cap U[u] = {}
  BY DEF Units
<1>3. UNION {U[t] : t \in T} = Units(f, UNION {G[t] : t \in T})
  <2>1. ASSUME NEW x \in UNION {U[t] : t \in T}  PROVE x \in Units(f, UNION {G[t] : t \in T})
    BY <2>1 DEF Units
  <2>2. ASSUME NEW x \in Units(f, UNION {G[t] : t \in T})  PROVE x \in UNION {U[t] : t \in T}
    <3>1. PICK i \in UNION {G[t] : t \in T} : x \in {i} \X (1 .. f[i])
      BY <2>2 DEF Units
    <3>2. PICK t \in T : i \in G[t]
      BY <3>1
    <3>3. x \in U[t]
      BY <3>1, <3>2 DEF Units
    <3> QED
      BY <3>2, <3>3
  <2> QED
    BY <2>1, <2>2
<1>4. [t \in T |-> Cardinality(U[t])] = [t \in T |-> Total(f, G[t])]
  BY DEF Total, Units
<1> HIDE DEF U
<1>5. Cardinality(UNION {U[t] : t \in T}) = SumFunctionOnSet([t \in T |-> Cardinality(U[t])], T)
  BY <1>1, <1>2, CountByGroup
<1> QED
  BY <1>3, <1>4, <1>5, Zenon DEF Total, Units

\* A column that is nowhere larger has no larger sum.
LEMMA TotalMonotone ==
  ASSUME NEW f, NEW g, NEW S, IsFiniteSet(S),
         \A i \in S : f[i] \in Nat /\ g[i] \in Nat /\ f[i] <= g[i]
  PROVE  Total(f, S) <= Total(g, S)
<1>1. Units(f, S) \in SUBSET Units(g, S)
  <2>1. \A i \in S : 1 .. f[i] \subseteq 1 .. g[i]
    OBVIOUS
  <2> QED
    BY <2>1 DEF Units
<1>2. IsFiniteSet(Units(g, S))
  BY TotalIsSum
<1> QED
  BY <1>1, <1>2, FS_Subset DEF Total, Units

\* A sum is no less than the column's lower bound per row.
LEMMA TotalAtLeast ==
  ASSUME NEW f, NEW S, IsFiniteSet(S), NEW c \in Nat,
         \A i \in S : f[i] \in Nat /\ c <= f[i]
  PROVE  Cardinality(S) * c <= Total(f, S)
<1> DEFINE box == S \X (1 .. c)
<1>1. IsFiniteSet(1 .. c) /\ Cardinality(1 .. c) = c
  BY FS_Interval
<1>2. Cardinality(box) = Cardinality(S) * c
  BY <1>1, FS_Product
<1>3. box \in SUBSET Units(f, S)
  <2>1. \A i \in S : 1 .. c \subseteq 1 .. f[i]
    OBVIOUS
  <2> QED
    BY <2>1 DEF Units
<1>4. IsFiniteSet(Units(f, S))
  BY TotalIsSum
<1>5. Cardinality(box) <= Cardinality(Units(f, S))
  BY <1>3, <1>4, FS_Subset
<1> QED
  BY <1>2, <1>5 DEF Total, Units

\* The sum of two columns is the column of their sums, added up.
LEMMA TotalOfSums ==
  ASSUME NEW f, NEW g, NEW h, NEW S, IsFiniteSet(S),
         \A i \in S : f[i] \in Nat /\ g[i] \in Nat /\ h[i] = f[i] + g[i]
  PROVE  Total(h, S) = Total(f, S) + Total(g, S)
<1>1. \A i \in S : /\ f[i] \in Int /\ g[i] \in Int
                   /\ h[i] = f[i] + g[i] /\ h[i] \in Nat
  OBVIOUS
<1>2. SumFunctionOnSet(h, S) = SumFunctionOnSet(f, S) + SumFunctionOnSet(g, S)
  BY <1>1, SumAdds
<1>3. /\ Total(f, S) = SumFunctionOnSet(f, S) /\ Total(f, S) \in Nat
      /\ Total(g, S) = SumFunctionOnSet(g, S) /\ Total(g, S) \in Nat
      /\ Total(h, S) = SumFunctionOnSet(h, S)
  BY <1>1, TotalIsSum
<1> QED
  BY <1>2, <1>3

\* Rows counted under other names add up to the same.
LEMMA TotalReindexed ==
  ASSUME NEW f, NEW g, NEW S, NEW T, IsFiniteSet(S), NEW b \in Bijection(S, T),
         \A i \in S : f[i] \in Nat /\ f[i] = g[b[i]]
  PROVE  Total(f, S) = Total(g, T)
<1> DEFINE m == [u \in Units(f, S) |-> <<b[u[1]], u[2]>>]
<1>1. \A i \in S : b[i] \in T
  BY DEF Bijection, Injection, Surjection
<1>2. \A i, j \in S : b[i] = b[j] => i = j
  BY DEF Bijection, Injection, IsInjective
<1>3. \A t \in T : \E i \in S : b[i] = t
  BY DEF Bijection, Surjection
<1>4. ASSUME NEW u \in Units(f, S)
      PROVE  u[1] \in S /\ u[2] \in 1 .. f[u[1]] /\ u = <<u[1], u[2]>>
  BY DEF Units
<1>5. \A u \in Units(f, S) : m[u] \in Units(g, T)
  BY <1>1, <1>4 DEF Units
<1>6. \A u, v \in Units(f, S) : m[u] = m[v] => u = v
  BY <1>2, <1>4
<1>7. ASSUME NEW w \in Units(g, T)  PROVE \E u \in Units(f, S) : m[u] = w
  <2>1. PICK t \in T : w \in {t} \X (1 .. g[t])
    BY DEF Units
  <2>2. PICK i \in S : b[i] = t
    BY <1>3
  <2>3. <<i, w[2]>> \in Units(f, S)
    BY <2>1, <2>2 DEF Units
  <2>4. m[<<i, w[2]>>] = w
    BY <2>1, <2>2, <2>3
  <2> QED
    BY <2>3, <2>4
<1>8. m \in Bijection(Units(f, S), Units(g, T))
  BY <1>5, <1>6, <1>7 DEF Bijection, Injection, Surjection, IsInjective
<1>9. IsFiniteSet(Units(f, S))
  BY TotalIsSum
<1> HIDE DEF m
<1>10. ExistsBijection(Units(f, S), Units(g, T))
  BY <1>8 DEF ExistsBijection
<1>11. Cardinality(Units(f, S)) = Cardinality(Units(g, T))
  BY <1>9, <1>10, FS_Bijection
<1> QED
  BY <1>11 DEF Total, Units

\* A finite non-empty set of integers has a largest and a smallest element.
LEMMA ExtremesExist ==
  ASSUME NEW S, IsFiniteSet(S), S # {}, S \subseteq Int
  PROVE  /\ \E x \in S : \A y \in S : x >= y
         /\ \E x \in S : \A y \in S : x <= y
<1> DEFINE F == {T \in SUBSET S : T = {} \/ /\ \E x \in T : \A y \in T : x >= y
                                            /\ \E x \in T : \A y \in T : x <= y}
<1>1. {} \in F
  OBVIOUS
<1>2. ASSUME NEW T \in SUBSET S, NEW z \in S \ T, T \in F  PROVE T \cup {z} \in F
  <2>1. CASE T = {}
    <3>1. T \cup {z} = {z} /\ z >= z /\ z <= z
      BY <2>1
    <3> QED
      BY <3>1
  <2>2. CASE T # {}
    <3>1. PICK a \in T : \A y \in T : a >= y
      BY <1>2, <2>2
    <3>2. PICK c \in T : \A y \in T : c <= y
      BY <1>2, <2>2
    <3>3. \A y \in T \cup {z} : (IF a >= z THEN a ELSE z) >= y
      BY <3>1
    <3>4. \A y \in T \cup {z} : (IF c <= z THEN c ELSE z) <= y
      BY <3>2
    <3> QED
      BY <3>3, <3>4
  <2> QED
    BY <2>1, <2>2
<1>3. S \in F
  <2> HIDE DEF F
  <2> QED
    BY <1>1, <1>2, FiniteSetInduction
<1> QED
  BY <1>3

\* they are finitely many and at most one per row and unit.
LEMMA UnitsBounded ==
  ASSUME NEW f, NEW S, IsFiniteSet(S), NEW b \in Nat,
         \A i \in S : f[i] \in Nat /\ f[i] <= b
  PROVE  /\ IsFiniteSet(Units(f, S))
         /\ Cardinality(Units(f, S)) <= Cardinality(S) * b
<1> DEFINE box == S \X (1 .. b)
<1>1. IsFiniteSet(1 .. b) /\ Cardinality(1 .. b) = b
  BY FS_Interval
<1>2. IsFiniteSet(box) /\ Cardinality(box) = Cardinality(S) * b
  BY <1>1, FS_Product
<1>3. Units(f, S) \in SUBSET box
  <2>1. ASSUME NEW i \in S  PROVE {i} \X (1 .. f[i]) \subseteq box
    <3>1. f[i] \in Nat /\ f[i] <= b
      OBVIOUS
    <3>2. 1 .. f[i] \subseteq 1 .. b
      BY <3>1
    <3> QED
      BY <3>2
  <2> QED
    BY <2>1 DEF Units
<1> HIDE DEF box
<1> QED
  BY <1>2, <1>3, FS_Subset

\* Each unit of a row belongs to that row, so different rows share none.
LEMMA UnitsDisjoint ==
  ASSUME NEW f, NEW S, NEW T, S \cap T = {}
  PROVE  Units(f, S) \cap Units(f, T) = {}
<1> SUFFICES ASSUME NEW u \in Units(f, S), u \in Units(f, T)  PROVE FALSE
  OBVIOUS
<1>1. PICK i \in S : u \in {i} \X (1 .. f[i])
  BY DEF Units
<1>2. PICK j \in T : u \in {j} \X (1 .. f[j])
  BY DEF Units
<1>3. u[1] = i /\ u[1] = j
  BY <1>1, <1>2
<1> QED
  BY <1>3

\* A sum of naturals is a natural, and no more than the column's bound per row.
LEMMA TotalBounded ==
  ASSUME NEW f, NEW S, IsFiniteSet(S), NEW b \in Nat,
         \A i \in S : f[i] \in Nat /\ f[i] <= b
  PROVE  /\ Total(f, S) \in Nat
         /\ Total(f, S) <= Cardinality(S) * b
<1>1. Total(f, S) = Cardinality(Units(f, S))
  BY DEF Total, Units
<1> QED
  BY <1>1, UnitsBounded, FS_CardinalityType

\* The sum only depends on the column's values at the selected rows.
LEMMA TotalAgrees ==
  ASSUME NEW f, NEW g, NEW S, \A i \in S : f[i] = g[i]
  PROVE  Total(f, S) = Total(g, S)
<1>1. {{i} \X (1 .. f[i]) : i \in S} = {{i} \X (1 .. g[i]) : i \in S}
  OBVIOUS
<1> QED
  BY <1>1 DEF Total

\* Selecting no row sums to nothing.
LEMMA TotalOfNone ==
  ASSUME NEW f  PROVE Total(f, {}) = 0
<1>1. UNION {{i} \X (1 .. f[i]) : i \in {}} = {}
  OBVIOUS
<1> QED
  BY <1>1, FS_EmptySet DEF Total

\* Selecting one row more adds that row's value.
LEMMA TotalAddRow ==
  ASSUME NEW f, NEW S, IsFiniteSet(S), NEW b \in Nat, NEW n, n \notin S,
         \A i \in S \cup {n} : f[i] \in Nat /\ f[i] <= b
  PROVE  Total(f, S \cup {n}) = Total(f, S) + f[n]
<1> DEFINE own == {n} \X (1 .. f[n])
<1>1. Units(f, {n}) = own
  BY DEF Units
<1>2. Units(f, S \cup {n}) = Units(f, S) \cup own
  BY DEF Units
<1>3. Units(f, S) \cap own = {}
  BY <1>1, UnitsDisjoint
<1>4. IsFiniteSet(own) /\ Cardinality(own) = f[n]
  BY UnitsOfRow
<1>5. IsFiniteSet(Units(f, S))
  BY UnitsBounded
<1> HIDE DEF own
<1>6. Cardinality(Units(f, S) \cup own)
        = Cardinality(Units(f, S)) + f[n] - Cardinality({})
  BY <1>3, <1>4, <1>5, FS_Union
<1>7. Cardinality({}) = 0 /\ Cardinality(Units(f, S)) \in Nat
  BY <1>5, FS_EmptySet, FS_CardinalityType
<1> QED
  BY <1>2, <1>6, <1>7 DEF Total, Units

-----------------------------------------------------------------------------
(***************************************************************************)
(* Masked is defined by a recursive function as well: it exists, and what  *)
(* it selects is found row by row.                                         *)
(***************************************************************************)
MaskStep(df, mask, f, n) ==
  IF n = 0 THEN << >> ELSE IF mask[n] THEN Append(f[n - 1], df[n]) ELSE f[n - 1]

\* The selection so far, after each row.
LEMMA MaskExists ==
  ASSUME NEW df, NEW mask
  PROVE  \A m \in Nat : \E f : f = [n \in 0 .. m |-> MaskStep(df, mask, f, n)]
<1> DEFINE N == {m \in Nat : \E f : f = [n \in 0 .. m |-> MaskStep(df, mask, f, n)]}
<1>1. 0 \in N
  <2> DEFINE f == [n \in 0 .. 0 |-> << >>]
  <2>1. f = [n \in 0 .. 0 |-> MaskStep(df, mask, f, n)]
    BY DEF MaskStep
  <2> QED
    BY <2>1
<1>2. ASSUME NEW m \in Nat, m \in N  PROVE m + 1 \in N
  <2>1. PICK f : f = [n \in 0 .. m |-> MaskStep(df, mask, f, n)]
    BY <1>2
  <2> DEFINE g == [n \in 0 .. m + 1 |-> IF n = m + 1 THEN MaskStep(df, mask, f, n) ELSE f[n]]
  <2>2. ASSUME NEW n \in 0 .. m + 1  PROVE g[n] = MaskStep(df, mask, g, n)
    <3>1. n # 0 => n - 1 \in 0 .. m /\ g[n - 1] = f[n - 1]
      OBVIOUS
    <3>2. MaskStep(df, mask, f, n) = MaskStep(df, mask, g, n)
      BY <3>1 DEF MaskStep
    <3>3. n # m + 1 => n \in 0 .. m /\ f[n] = MaskStep(df, mask, f, n)
      BY <2>1
    <3>4. g[n] = IF n = m + 1 THEN MaskStep(df, mask, f, n) ELSE f[n]
      OBVIOUS
    <3> HIDE DEF g
    <3> QED
      BY <3>2, <3>3, <3>4
  <2>3. g = [n \in 0 .. m + 1 |-> g[n]]
    OBVIOUS
  <2> HIDE DEF g
  <2>4. g = [n \in 0 .. m + 1 |-> MaskStep(df, mask, g, n)]
    BY <2>2, <2>3
  <2> QED
    BY <2>4
<1>3. Nat \subseteq N
  <2> HIDE DEF N
  <2> QED
    BY <1>1, <1>2, NatSetInduction
<1> QED
  BY <1>3

\* What the mask selects, row by row.
LEMMA MaskedByRow ==
  ASSUME NEW D, NEW df \in Seq(D), NEW mask
  PROVE  \E f : /\ Masked(df, mask) = f[Len(df)] /\ f[0] = << >>
                /\ \A n \in 1 .. Len(df) :
                     f[n] = IF mask[n] THEN Append(f[n - 1], df[n]) ELSE f[n - 1]
<1> DEFINE upTo == CHOOSE f : f = [n \in 0 .. Len(df) |-> MaskStep(df, mask, f, n)]
<1>1. upTo = [n \in 0 .. Len(df) |-> MaskStep(df, mask, upTo, n)]
  BY MaskExists
<1>2. Masked(df, mask) = upTo[Len(df)]
  BY DEF Masked, MaskStep
<1> HIDE DEF upTo
<1>3. upTo[0] = << >>
  BY <1>1 DEF MaskStep
<1>4. \A n \in 1 .. Len(df) :
        upTo[n] = IF mask[n] THEN Append(upTo[n - 1], df[n]) ELSE upTo[n - 1]
  <2> SUFFICES ASSUME NEW n \in 1 .. Len(df)
               PROVE  upTo[n] = IF mask[n] THEN Append(upTo[n - 1], df[n]) ELSE upTo[n - 1]
    OBVIOUS
  <2>1. upTo[n] = MaskStep(df, mask, upTo, n) /\ n # 0
    BY <1>1
  <2> QED
    BY <2>1 DEF MaskStep
<1> QED
  BY <1>2, <1>3, <1>4

\* The rows that are selected are at positions p.
MaskedAt(df, mask, p) ==
  /\ p \in [1 .. Len(Masked(df, mask)) -> 1 .. Len(df)]
  /\ \A k \in DOMAIN p : mask[p[k]] /\ Masked(df, mask)[k] = df[p[k]]
  /\ \A k, l \in DOMAIN p : k < l => p[k] < p[l]
  /\ \A i \in 1 .. Len(df) : mask[i] => \E k \in DOMAIN p : p[k] = i

\* A mask selects rows in their order, each that it is true at.
LEMMA MaskedPositions ==
  ASSUME NEW D, NEW df \in Seq(D), NEW mask
  PROVE  Masked(df, mask) \in Seq(D) /\ \E p : MaskedAt(df, mask, p)
<1>1. PICK f : /\ Masked(df, mask) = f[Len(df)] /\ f[0] = << >>
               /\ \A n \in 1 .. Len(df) :
                    f[n] = IF mask[n] THEN Append(f[n - 1], df[n]) ELSE f[n - 1]
  BY MaskedByRow
<1> DEFINE Sel(n, p) == /\ f[n] \in Seq(D) /\ p \in Seq(1 .. n) /\ Len(p) = Len(f[n])
                        /\ \A k \in 1 .. Len(p) : mask[p[k]] /\ f[n][k] = df[p[k]]
                        /\ \A k, l \in 1 .. Len(p) : k < l => p[k] < p[l]
                        /\ \A i \in 1 .. n : mask[i] => \E k \in 1 .. Len(p) : p[k] = i
           N == {n \in Nat : n <= Len(df) => \E p : Sel(n, p)}
<1>2. 0 \in N
  <2>1. Sel(0, << >>)
    BY <1>1
  <2> QED
    BY <2>1
<1>3. ASSUME NEW n \in Nat, n \in N  PROVE n + 1 \in N
  <2> HIDE DEF Sel
  <2> SUFFICES ASSUME n + 1 <= Len(df)  PROVE \E p : Sel(n + 1, p)
    OBVIOUS
  <2>0. n <= Len(df)
    OBVIOUS
  <2>1. PICK p : Sel(n, p)
    BY <1>3, <2>0
  <2> USE DEF Sel
  <2>2. f[n + 1] = IF mask[n + 1] THEN Append(f[n], df[n + 1]) ELSE f[n]
    BY <1>1
  <2>3. df[n + 1] \in D
    OBVIOUS
  <2>4. CASE mask[n + 1]
    <3> DEFINE q == Append(p, n + 1)
    <3>1. q \in Seq(1 .. n + 1) /\ Len(q) = Len(p) + 1 /\ q[Len(p) + 1] = n + 1
          /\ \A k \in 1 .. Len(p) : q[k] = p[k] /\ p[k] \in 1 .. n
      BY <2>1
    <3>2. /\ f[n + 1] \in Seq(D) /\ Len(f[n + 1]) = Len(f[n]) + 1
          /\ f[n + 1][Len(p) + 1] = df[n + 1]
          /\ \A k \in 1 .. Len(p) : f[n + 1][k] = f[n][k]
      BY <2>1, <2>2, <2>3, <2>4
    <3> HIDE DEF q
    <3>3. /\ Len(p) = Len(f[n]) /\ Len(p) \in Nat
          /\ \A k \in 1 .. Len(p) : mask[p[k]] /\ f[n][k] = df[p[k]]
          /\ \A k, l \in 1 .. Len(p) : k < l => p[k] < p[l]
          /\ \A i \in 1 .. n : mask[i] => \E k \in 1 .. Len(p) : p[k] = i
      BY <2>1
    <3>4. \A k \in 1 .. Len(q) : k \in 1 .. Len(p) \/ k = Len(p) + 1
      BY <3>1, <3>3
    <3>5. \A k \in 1 .. Len(q) : mask[q[k]] /\ f[n + 1][k] = df[q[k]]
      BY <2>4, <3>1, <3>2, <3>3, <3>4
    <3>6. \A k, l \in 1 .. Len(q) : k < l => q[k] < q[l]
      <4> SUFFICES ASSUME NEW k \in 1 .. Len(q), NEW l \in 1 .. Len(q), k < l  PROVE q[k] < q[l]
        OBVIOUS
      <4>1. k \in 1 .. Len(p) /\ q[k] = p[k] /\ p[k] \in 1 .. n
        BY <3>1, <3>3, <3>4
      <4>2. CASE l \in 1 .. Len(p)
        BY <3>1, <3>3, <4>1, <4>2
      <4>3. CASE l = Len(p) + 1
        BY <3>1, <4>1, <4>3
      <4> QED
        BY <3>4, <4>2, <4>3
    <3>7. \A i \in 1 .. n + 1 : mask[i] => \E k \in 1 .. Len(q) : q[k] = i
      <4> SUFFICES ASSUME NEW i \in 1 .. n + 1, mask[i]  PROVE \E k \in 1 .. Len(q) : q[k] = i
        OBVIOUS
      <4>1. CASE i = n + 1
        <5>1. Len(p) + 1 \in 1 .. Len(q) /\ q[Len(p) + 1] = i
          BY <3>1, <3>3, <4>1
        <5> QED
          BY <5>1
      <4>2. CASE i # n + 1
        <5>1. i \in 1 .. n
          BY <4>2
        <5>2. PICK k \in 1 .. Len(p) : p[k] = i
          BY <3>3, <5>1
        <5>3. k \in 1 .. Len(q) /\ q[k] = i
          BY <3>1, <3>3, <5>2
        <5> QED
          BY <5>3
      <4> QED
        BY <4>1, <4>2
    <3>8. Sel(n + 1, q)
      BY <3>1, <3>2, <3>3, <3>5, <3>6, <3>7
    <3> QED
      BY <3>8
  <2>5. CASE ~mask[n + 1]
    <3>1. p \in Seq(1 .. n + 1)
      BY <2>1
    <3>2. \A i \in 1 .. n + 1 : mask[i] => \E k \in 1 .. Len(p) : p[k] = i
      BY <2>1, <2>5
    <3>3. Sel(n + 1, p)
      BY <2>1, <2>2, <2>5, <3>1, <3>2
    <3> QED
      BY <3>3
  <2> QED
    BY <2>4, <2>5
<1>4. Nat \subseteq N
  <2> HIDE DEF N
  <2> QED
    BY <1>2, <1>3, NatSetInduction
<1>5. PICK p : Sel(Len(df), p)
  <2> HIDE DEF N
  <2>1. Len(df) \in N
    BY <1>4
  <2> USE DEF N
  <2> HIDE DEF Sel
  <2> QED
    BY <2>1
<1> DEFINE M == Masked(df, mask)
<1>6. /\ M \in Seq(D) /\ p \in Seq(1 .. Len(df)) /\ Len(p) = Len(M)
      /\ \A k \in 1 .. Len(p) : mask[p[k]] /\ M[k] = df[p[k]]
      /\ \A k, l \in 1 .. Len(p) : k < l => p[k] < p[l]
      /\ \A i \in 1 .. Len(df) : mask[i] => \E k \in 1 .. Len(p) : p[k] = i
  BY <1>1, <1>5
<1> HIDE DEF Sel, M, N
<1>7. p \in [1 .. Len(M) -> 1 .. Len(df)] /\ DOMAIN p = 1 .. Len(p)
  BY <1>6
<1>8. /\ \A k \in DOMAIN p : mask[p[k]] /\ M[k] = df[p[k]]
      /\ \A k, l \in DOMAIN p : k < l => p[k] < p[l]
      /\ \A i \in 1 .. Len(df) : mask[i] => \E k \in DOMAIN p : p[k] = i
  <2> HIDE DEF M
  <2> QED
    BY <1>6, <1>7, Zenon
<1>9. MaskedAt(df, mask, p)
  BY <1>7, <1>8, Zenon DEF M, MaskedAt
<1> QED
  BY <1>6, <1>9, Zenon DEF M

\* A sequence with the length and the elements of another is the other.
LEMMA SameRows ==
  ASSUME NEW D, NEW s \in Seq(D), NEW t \in Seq(D), Len(s) = Len(t),
         \A k \in 1 .. Len(t) : s[k] = t[k]
  PROVE  s = t
OBVIOUS

\* The rows from a + 1 to b.
Block(df, a, b) == SubSeq(df, a + 1, b)

\* It has b - a of them, in their order.
LEMMA BlockRows ==
  ASSUME NEW D, NEW df \in Seq(D), NEW a \in Nat, NEW b \in Nat, a <= b, b <= Len(df)
  PROVE  /\ Block(df, a, b) \in Seq(D) /\ Len(Block(df, a, b)) = b - a
         /\ \A k \in 1 .. b - a : Block(df, a, b)[k] = df[a + k]
BY DEF Block

\* A mask that is true on a block of rows selects that block.
LEMMA MaskedBlock ==
  ASSUME NEW D, NEW df \in Seq(D), NEW mask, NEW a \in Nat, NEW b \in Nat,
         a <= b, b <= Len(df),
         \A i \in 1 .. Len(df) : mask[i] <=> (a < i /\ i <= b)
  PROVE  Masked(df, mask) = Block(df, a, b)
<1>1. PICK f : /\ Masked(df, mask) = f[Len(df)] /\ f[0] = << >>
               /\ \A n \in 1 .. Len(df) :
                    f[n] = IF mask[n] THEN Append(f[n - 1], df[n]) ELSE f[n - 1]
  BY MaskedByRow
<1> DEFINE c(n) == IF n <= a THEN 0 ELSE IF n <= b THEN n - a ELSE b - a
           Sel(n) == /\ f[n] \in Seq(D) /\ Len(f[n]) = c(n)
                     /\ \A k \in 1 .. c(n) : f[n][k] = df[a + k]
           N == {n \in Nat : n <= Len(df) => Sel(n)}
<1>2. 0 \in N
  <2>1. c(0) = 0
    OBVIOUS
  <2>2. Sel(0)
    <3> HIDE DEF c
    <3> QED
      BY <1>1, <2>1
  <2> QED
    BY <2>2
<1>3. ASSUME NEW n \in Nat, n \in N  PROVE n + 1 \in N
  <2> SUFFICES ASSUME n + 1 <= Len(df)  PROVE Sel(n + 1)
    OBVIOUS
  <2>1. Sel(n)
    BY <1>3
  <2>2. f[n + 1] = IF mask[n + 1] THEN Append(f[n], df[n + 1]) ELSE f[n]
    BY <1>1
  <2>3. df[n + 1] \in D
    OBVIOUS
  <2>4. CASE a < n + 1 /\ n + 1 <= b
    <3>1. mask[n + 1] /\ c(n) = n - a /\ c(n + 1) = n + 1 - a
      BY <2>4
    <3>2. f[n + 1] = Append(f[n], df[n + 1])
      BY <2>2, <3>1
    <3>3. /\ f[n + 1] \in Seq(D) /\ Len(f[n + 1]) = n + 1 - a
          /\ f[n + 1][n + 1 - a] = df[n + 1]
          /\ \A k \in 1 .. n - a : f[n + 1][k] = df[a + k]
      BY <2>1, <2>3, <3>1, <3>2
    <3> QED
      BY <3>1, <3>3
  <2>5. CASE ~(a < n + 1 /\ n + 1 <= b)
    <3>1. ~mask[n + 1] /\ c(n + 1) = c(n)
      BY <2>5
    <3> QED
      BY <2>1, <2>2, <3>1
  <2> QED
    BY <2>4, <2>5
<1>4. Nat \subseteq N
  <2> HIDE DEF N
  <2> QED
    BY <1>2, <1>3, NatSetInduction
<1>5. Sel(Len(df)) /\ c(Len(df)) = b - a
  BY <1>4
<1> DEFINE M == Masked(df, mask)
<1>6. M \in Seq(D) /\ Len(M) = b - a /\ \A k \in 1 .. b - a : M[k] = df[a + k]
  BY <1>1, <1>5
<1> DEFINE B == Block(df, a, b)
<1>7. B \in Seq(D) /\ Len(B) = b - a /\ \A k \in 1 .. b - a : B[k] = df[a + k]
  BY BlockRows
<1> HIDE DEF M, B, N, Sel, c
<1>8. B \in Seq(D) /\ Len(M) = Len(B) /\ \A k \in 1 .. Len(B) : M[k] = B[k]
  BY <1>6, <1>7
<1>9. M = B
  BY <1>6, <1>8, SameRows
<1> QED
  BY <1>9 DEF M, B

-----------------------------------------------------------------------------
(***************************************************************************)
(* So is a concatenation; its frames are consecutive blocks of rows.       *)
(***************************************************************************)
FlattenStep(seqs, f, i) == IF i = 1 THEN seqs[i] ELSE f[i - 1] \o seqs[i]

\* The concatenation of the first frames.
LEMMA FlattenExists ==
  ASSUME NEW seqs
  PROVE  \A m \in Nat : \E f : f = [i \in 1 .. m |-> FlattenStep(seqs, f, i)]
<1> DEFINE N == {m \in Nat : \E f : f = [i \in 1 .. m |-> FlattenStep(seqs, f, i)]}
<1>1. 0 \in N
  <2> DEFINE f == [i \in {} |-> {}]
  <2>1. 1 .. 0 = {}
    OBVIOUS
  <2>2. f = [i \in 1 .. 0 |-> FlattenStep(seqs, f, i)]
    BY <2>1
  <2> QED
    BY <2>2
<1>2. ASSUME NEW m \in Nat, m \in N  PROVE m + 1 \in N
  <2>1. PICK f : f = [i \in 1 .. m |-> FlattenStep(seqs, f, i)]
    BY <1>2
  <2> DEFINE g == [i \in 1 .. m + 1 |-> IF i = m + 1 THEN FlattenStep(seqs, f, i) ELSE f[i]]
  <2>2. ASSUME NEW i \in 1 .. m + 1  PROVE g[i] = FlattenStep(seqs, g, i)
    <3>1. i # 1 => i - 1 \in 1 .. m /\ g[i - 1] = f[i - 1]
      OBVIOUS
    <3>2. FlattenStep(seqs, f, i) = FlattenStep(seqs, g, i)
      BY <3>1 DEF FlattenStep
    <3>3. i # m + 1 => i \in 1 .. m /\ f[i] = FlattenStep(seqs, f, i)
      BY <2>1
    <3>4. g[i] = IF i = m + 1 THEN FlattenStep(seqs, f, i) ELSE f[i]
      OBVIOUS
    <3> HIDE DEF g
    <3> QED
      BY <3>2, <3>3, <3>4
  <2>3. g = [i \in 1 .. m + 1 |-> g[i]]
    OBVIOUS
  <2> HIDE DEF g
  <2>4. g = [i \in 1 .. m + 1 |-> FlattenStep(seqs, g, i)]
    BY <2>2, <2>3
  <2> QED
    BY <2>4
<1>3. Nat \subseteq N
  <2> HIDE DEF N
  <2> QED
    BY <1>1, <1>2, NatSetInduction
<1> QED
  BY <1>3

\* The concatenation, frame by frame.
LEMMA FlattenByFrame ==
  ASSUME NEW D, NEW seqs \in Seq(Seq(D))
  PROVE  \E f : /\ FlattenSeq(seqs) = f[Len(seqs)] /\ f[0] = << >>
                /\ \A i \in 1 .. Len(seqs) : f[i] = f[i - 1] \o seqs[i]
<1> DEFINE flatten == CHOOSE f : f = [i \in 1 .. Len(seqs) |-> FlattenStep(seqs, f, i)]
           g == [i \in 0 .. Len(seqs) |-> IF i = 0 THEN << >> ELSE flatten[i]]
<1>1. flatten = [i \in 1 .. Len(seqs) |-> FlattenStep(seqs, flatten, i)]
  <2>1. Len(seqs) \in Nat
    OBVIOUS
  <2>2. \E f : f = [i \in 1 .. Len(seqs) |-> FlattenStep(seqs, f, i)]
    BY <2>1, FlattenExists
  <2> QED
    BY <2>2
<1>2. FlattenSeq(seqs) = IF Len(seqs) = 0 THEN seqs ELSE flatten[Len(seqs)]
  BY DEF FlattenSeq, FlattenStep
<1>3. Len(seqs) = 0 => seqs = << >>
  OBVIOUS
<1> HIDE DEF flatten
<1>4. g[0] = << >> /\ \A i \in 1 .. Len(seqs) : g[i] = flatten[i]
  OBVIOUS
<1>5. FlattenSeq(seqs) = g[Len(seqs)]
  BY <1>2, <1>3, <1>4
<1>6. ASSUME NEW i \in 1 .. Len(seqs)  PROVE g[i] = g[i - 1] \o seqs[i]
  <2>1. flatten[i] = FlattenStep(seqs, flatten, i)
    BY <1>1
  <2>2. seqs[i] \in Seq(D)
    OBVIOUS
  <2>3. CASE i = 1
    <3>1. g[i] = seqs[i] /\ g[i - 1] = << >>
      BY <2>1, <2>3, <1>4 DEF FlattenStep
    <3>2. << >> \o seqs[i] = seqs[i]
      BY <2>2
    <3> HIDE DEF g
    <3> QED
      BY <3>1, <3>2
  <2>4. CASE i # 1
    <3>1. i - 1 \in 1 .. Len(seqs)
      BY <2>4
    <3> HIDE DEF g
    <3>2. g[i] = flatten[i] /\ g[i - 1] = flatten[i - 1]
      BY <1>4, <3>1
    <3> QED
      BY <2>1, <2>4, <3>2 DEF FlattenStep
  <2> QED
    BY <2>3, <2>4
<1> HIDE DEF g
<1> QED
  BY <1>4, <1>5, <1>6

\* For leaves in which sequences of sequences disturb the prover.
LEMMA LenIsNat ==
  ASSUME NEW D, NEW s \in Seq(D)  PROVE Len(s) \in Nat
OBVIOUS

\* Two sequences, one after the other.
LEMMA ConcatRows ==
  ASSUME NEW D, NEW s \in Seq(D), NEW t \in Seq(D)
  PROVE  /\ s \o t \in Seq(D) /\ Len(s \o t) = Len(s) + Len(t)
         /\ Len(s) \in Nat /\ Len(t) \in Nat
         /\ \A k \in 1 .. Len(s) : (s \o t)[k] = s[k]
         /\ \A k \in 1 .. Len(t) : (s \o t)[Len(s) + k] = t[k]
OBVIOUS

\* Frame i has the rows from ends[i - 1] + 1 to ends[i].
LEMMA FlattenBlocks ==
  ASSUME NEW D, NEW seqs \in Seq(Seq(D))
  PROVE  /\ FlattenSeq(seqs) \in Seq(D)
         /\ \E ends \in [0 .. Len(seqs) -> Nat] :
              /\ ends[0] = 0 /\ ends[Len(seqs)] = Len(FlattenSeq(seqs))
              /\ \A i \in 1 .. Len(seqs) :
                   /\ ends[i] = ends[i - 1] + Len(seqs[i])
                   /\ \A k \in 1 .. Len(seqs[i]) : FlattenSeq(seqs)[ends[i - 1] + k] = seqs[i][k]
              /\ \A i, j \in 0 .. Len(seqs) : i <= j => ends[i] <= ends[j]
              /\ \A r \in 1 .. Len(FlattenSeq(seqs)) :
                   \E i \in 1 .. Len(seqs) : ends[i - 1] < r /\ r <= ends[i]
<1>1. PICK f : /\ FlattenSeq(seqs) = f[Len(seqs)] /\ f[0] = << >>
               /\ \A i \in 1 .. Len(seqs) : f[i] = f[i - 1] \o seqs[i]
  BY FlattenByFrame
<1> DEFINE ends == [i \in 0 .. Len(seqs) |-> Len(f[i])]
           Blocks(m) ==
             /\ f[m] \in Seq(D)
             /\ \A i \in 1 .. m : \A k \in 1 .. Len(seqs[i]) : f[m][Len(f[i - 1]) + k] = seqs[i][k]
             /\ \A i \in 1 .. m : Len(f[i]) = Len(f[i - 1]) + Len(seqs[i])
             /\ \A i \in 0 .. m : Len(f[i]) \in Nat /\ Len(f[i]) <= Len(f[m])
             /\ \A i, j \in 0 .. m : i <= j => Len(f[i]) <= Len(f[j])
             /\ \A r \in 1 .. Len(f[m]) : \E i \in 1 .. m : Len(f[i - 1]) < r /\ r <= Len(f[i])
           N == {m \in Nat : m <= Len(seqs) => Blocks(m)}
<1>2. 0 \in N
  <2>1. Blocks(0)
    BY <1>1
  <2> HIDE DEF Blocks
  <2> QED
    BY <2>1
<1>3. ASSUME NEW m \in Nat, m \in N  PROVE m + 1 \in N
  <2> HIDE DEF Blocks
  <2> SUFFICES ASSUME m + 1 <= Len(seqs)  PROVE Blocks(m + 1)
    OBVIOUS
  <2>0. Blocks(m)
    <3>1. m <= Len(seqs)
      OBVIOUS
    <3> QED
      BY <1>3, <3>1
  <2>a. f[m] \in Seq(D) => Len(f[m]) \in Nat
    OBVIOUS
  <2>1. /\ f[m] \in Seq(D) /\ Len(f[m]) \in Nat
        /\ \A i \in 1 .. m : \A k \in 1 .. Len(seqs[i]) : f[m][Len(f[i - 1]) + k] = seqs[i][k]
        /\ \A i \in 1 .. m : Len(f[i]) = Len(f[i - 1]) + Len(seqs[i])
        /\ \A i \in 0 .. m : Len(f[i]) \in Nat /\ Len(f[i]) <= Len(f[m])
        /\ \A i, j \in 0 .. m : i <= j => Len(f[i]) <= Len(f[j])
        /\ \A r \in 1 .. Len(f[m]) : \E i \in 1 .. m : Len(f[i - 1]) < r /\ r <= Len(f[i])
    BY <2>0, <2>a, Zenon DEF Blocks
  <2> HIDE DEF N
  <2>2. f[m + 1] = f[m] \o seqs[m + 1] /\ seqs[m + 1] \in Seq(D)
    <3>1. m + 1 \in 1 .. Len(seqs) /\ (m + 1) - 1 = m
      OBVIOUS
    <3>2. seqs[m + 1] \in Seq(D)
      BY <3>1
    <3>3. f[m + 1] = f[(m + 1) - 1] \o seqs[m + 1]
      BY <1>1, <3>1, Zenon
    <3> QED
      BY <3>1, <3>2, <3>3, Zenon
  <2>3. /\ f[m + 1] \in Seq(D) /\ Len(f[m + 1]) = Len(f[m]) + Len(seqs[m + 1])
        /\ Len(seqs[m + 1]) \in Nat
        /\ \A k \in 1 .. Len(f[m]) : f[m + 1][k] = f[m][k]
        /\ \A k \in 1 .. Len(seqs[m + 1]) : f[m + 1][Len(f[m]) + k] = seqs[m + 1][k]
    <3> DEFINE s == f[m]
               t == seqs[m + 1]
    <3>1. s \in Seq(D) /\ t \in Seq(D) /\ f[m + 1] = s \o t
      BY <2>1, <2>2, Zenon
    <3> HIDE DEF s, t
    <3>a. /\ s \o t \in Seq(D) /\ Len(s \o t) = Len(s) + Len(t)
          /\ Len(t) \in Nat
          /\ \A k \in 1 .. Len(s) : (s \o t)[k] = s[k]
          /\ \A k \in 1 .. Len(t) : (s \o t)[Len(s) + k] = t[k]
      BY <3>1, ConcatRows
    <3>2. /\ f[m + 1] \in Seq(D) /\ Len(f[m + 1]) = Len(s) + Len(t)
          /\ Len(t) \in Nat
          /\ \A k \in 1 .. Len(s) : f[m + 1][k] = s[k]
          /\ \A k \in 1 .. Len(t) : f[m + 1][Len(s) + k] = t[k]
      BY <3>1, <3>a, Zenon
    <3> QED
      BY <3>2 DEF s, t
  <2>4. \A i \in 1 .. m + 1 : i \in 1 .. m \/ i = m + 1
    OBVIOUS
  <2>5. ASSUME NEW i \in 1 .. m + 1, NEW k \in 1 .. Len(seqs[i])
        PROVE  f[m + 1][Len(f[i - 1]) + k] = seqs[i][k]
    <3>1. CASE i \in 1 .. m
      <4>1. /\ Len(f[i]) = Len(f[i - 1]) + Len(seqs[i]) /\ Len(f[i]) <= Len(f[m])
            /\ Len(f[i - 1]) \in Nat /\ Len(seqs[i]) \in Nat
        <5>1. i \in 0 .. m /\ i - 1 \in 0 .. m
          BY <3>1
        <5>2. seqs[i] \in Seq(D)
          OBVIOUS
        <5> QED
          BY <2>1, <3>1, <5>1, <5>2, LenIsNat, Zenon
      <4>2. Len(f[i - 1]) + k \in 1 .. Len(f[m])
        <5> DEFINE x == Len(f[i])
                   y == Len(f[i - 1])
                   z == Len(seqs[i])
                   l == Len(f[m])
        <5>1. x = y + z /\ x <= l /\ y \in Nat /\ z \in Nat /\ l \in Nat /\ k \in 1 .. z
          BY <2>1, <4>1
        <5> HIDE DEF x, y, z, l
        <5>2. y + k \in 1 .. l
          BY <5>1
        <5> QED
          BY <5>2 DEF y, l
      <4> QED
        BY <2>1, <2>3, <3>1, <4>2
    <3>2. CASE i = m + 1
      BY <2>3, <3>2
    <3> QED
      BY <2>4, <3>1, <3>2
  <2>6. \A i \in 1 .. m + 1 : Len(f[i]) = Len(f[i - 1]) + Len(seqs[i])
    <3> SUFFICES ASSUME NEW i \in 1 .. m + 1  PROVE Len(f[i]) = Len(f[i - 1]) + Len(seqs[i])
      OBVIOUS
    <3>1. CASE i = m + 1
      <4>1. i - 1 = m
        BY <3>1
      <4> QED
        BY <2>3, <3>1, <4>1, Zenon
    <3> QED
      BY <2>1, <2>4, <3>1, Zenon
  <2>7. \A i \in 0 .. m + 1 : Len(f[i]) \in Nat /\ Len(f[i]) <= Len(f[m + 1])
    <3> DEFINE l == Len(f[m])
               z == Len(seqs[m + 1])
               x == Len(f[m + 1])
    <3>1. x = l + z /\ l \in Nat /\ z \in Nat
      BY <2>1, <2>3, Zenon
    <3> SUFFICES ASSUME NEW i \in 0 .. m + 1  PROVE Len(f[i]) \in Nat /\ Len(f[i]) <= x
      OBVIOUS
    <3>2. CASE i = m + 1
      <4>1. Len(f[i]) = x
        BY <3>2
      <4> HIDE DEF x, l, z
      <4> QED
        BY <3>1, <4>1
    <3>3. CASE i # m + 1
      <4>1. i \in 0 .. m
        BY <3>3
      <4>2. Len(f[i]) \in Nat /\ Len(f[i]) <= l
        BY <2>1, <4>1, Zenon
      <4> HIDE DEF x, l, z
      <4> QED
        BY <3>1, <4>2
    <3> QED
      BY <3>2, <3>3
  <2>8. \A i, j \in 0 .. m + 1 : i <= j => Len(f[i]) <= Len(f[j])
    <3> SUFFICES ASSUME NEW i \in 0 .. m + 1, NEW j \in 0 .. m + 1, i <= j  PROVE Len(f[i]) <= Len(f[j])
      OBVIOUS
    <3>1. CASE j = m + 1
      BY <2>7, <3>1
    <3>2. CASE j # m + 1
      BY <2>1, <3>2
    <3> QED
      BY <3>1, <3>2
  <2>9. ASSUME NEW r \in 1 .. Len(f[m + 1])
        PROVE  \E i \in 1 .. m + 1 : Len(f[i - 1]) < r /\ r <= Len(f[i])
    <3>1. CASE r <= Len(f[m])
      <4>1. PICK i \in 1 .. m : Len(f[i - 1]) < r /\ r <= Len(f[i])
        BY <2>1, <2>3, <3>1
      <4>2. i \in 1 .. m + 1
        OBVIOUS
      <4> QED
        BY <4>1, <4>2
    <3>2. CASE r > Len(f[m])
      <4>1. m + 1 \in 1 .. m + 1 /\ (m + 1) - 1 = m
        OBVIOUS
      <4>2. Len(f[m]) < r
        BY <2>1, <2>3, <3>2
      <4>3. r <= Len(f[m + 1])
        <5> DEFINE x == Len(f[m + 1])
        <5>1. x \in Nat /\ r \in 1 .. x
          BY <2>3, LenIsNat, Zenon
        <5> HIDE DEF x
        <5>2. r <= x
          BY <5>1
        <5> QED
          BY <5>2 DEF x
      <4> QED
        BY <4>1, <4>2, <4>3, Zenon
    <3> QED
      BY <2>1, <2>3, <3>1, <3>2
  <2> QED
    BY <2>3, <2>5, <2>6, <2>7, <2>8, <2>9 DEF Blocks
<1>4. Nat \subseteq N
  <2> HIDE DEF N
  <2> QED
    BY <1>2, <1>3, NatSetInduction
<1>5. Blocks(Len(seqs))
  <2> HIDE DEF N, Blocks
  <2>1. Len(seqs) \in N
    BY <1>4
  <2> QED
    BY <2>1 DEF N
<1> DEFINE F == FlattenSeq(seqs)
<1> HIDE DEF N
<1>6. /\ F \in Seq(D) /\ ends \in [0 .. Len(seqs) -> Nat]
      /\ ends[0] = 0 /\ ends[Len(seqs)] = Len(F)
  BY <1>1, <1>5
<1>7. \A i \in 0 .. Len(seqs) : ends[i] = Len(f[i])
  OBVIOUS
<1>8. /\ \A i \in 1 .. Len(seqs) : \A k \in 1 .. Len(seqs[i]) : F[Len(f[i - 1]) + k] = seqs[i][k]
      /\ \A i \in 1 .. Len(seqs) : Len(f[i]) = Len(f[i - 1]) + Len(seqs[i])
      /\ \A i, j \in 0 .. Len(seqs) : i <= j => Len(f[i]) <= Len(f[j])
      /\ \A r \in 1 .. Len(F) : \E i \in 1 .. Len(seqs) : Len(f[i - 1]) < r /\ r <= Len(f[i])
  BY <1>1, <1>5
<1> HIDE DEF Blocks, ends, F
<1>9. \A i \in 1 .. Len(seqs) : i \in 0 .. Len(seqs) /\ i - 1 \in 0 .. Len(seqs)
  OBVIOUS
<1>10. /\ \A i \in 1 .. Len(seqs) :
            /\ ends[i] = ends[i - 1] + Len(seqs[i])
            /\ \A k \in 1 .. Len(seqs[i]) : F[ends[i - 1] + k] = seqs[i][k]
       /\ \A i, j \in 0 .. Len(seqs) : i <= j => ends[i] <= ends[j]
  BY <1>7, <1>8, <1>9
<1>11. \A r \in 1 .. Len(F) : \E i \in 1 .. Len(seqs) : ends[i - 1] < r /\ r <= ends[i]
  <2> SUFFICES ASSUME NEW r \in 1 .. Len(F)
               PROVE  \E i \in 1 .. Len(seqs) : ends[i - 1] < r /\ r <= ends[i]
    OBVIOUS
  <2>1. PICK i \in 1 .. Len(seqs) : Len(f[i - 1]) < r /\ r <= Len(f[i])
    BY <1>8
  <2> QED
    BY <1>7, <1>9, <2>1
<1> QED
  BY <1>6, <1>10, <1>11, Zenon DEF F

\* Frame f has the rows from ends[f - 1] + 1 to ends[f], which are those of
\* its season.
SeasonBlocks(seqs, key, rows, ends) ==
  /\ ends \in [0 .. Len(seqs) -> Nat]
  /\ ends[0] = 0 /\ ends[Len(seqs)] = Len(rows)
  /\ \A f \in 1 .. Len(seqs) :
       /\ ends[f] = ends[f - 1] + Len(seqs[f])
       /\ \A k \in 1 .. Len(seqs[f]) : rows[ends[f - 1] + k] = seqs[f][k]
  /\ \A f, g \in 0 .. Len(seqs) : f <= g => ends[f] <= ends[g]
  /\ \A r \in 1 .. Len(rows) :
       \E f \in 1 .. Len(seqs) : ends[f - 1] < r /\ r <= ends[f] /\ rows[r].season = key[f]
  /\ \A r \in 1 .. Len(rows) : \A f \in 1 .. Len(seqs) :
       rows[r].season = key[f] <=> ends[f - 1] < r /\ r <= ends[f]

(***************************************************************************)
(* Frames that have one season each, no two the same, are found again in   *)
(* their concatenation by their season.                                    *)
(***************************************************************************)
LEMMA SeasonsOfConcat ==
  ASSUME NEW D, NEW seqs \in Seq(Seq(D)), NEW key,
         \A f \in 1 .. Len(seqs) : \A k \in 1 .. Len(seqs[f]) : seqs[f][k].season = key[f],
         \A f, g \in 1 .. Len(seqs) : key[f] = key[g] => f = g
  PROVE  /\ FlattenSeq(seqs) \in Seq(D)
         /\ \E ends : SeasonBlocks(seqs, key, FlattenSeq(seqs), ends)
<1> DEFINE F == FlattenSeq(seqs)
           n == Len(seqs)
<1>1. /\ F \in Seq(D)
      /\ \E ends \in [0 .. n -> Nat] :
           /\ ends[0] = 0 /\ ends[n] = Len(F)
           /\ \A i \in 1 .. n :
                /\ ends[i] = ends[i - 1] + Len(seqs[i])
                /\ \A k \in 1 .. Len(seqs[i]) : F[ends[i - 1] + k] = seqs[i][k]
           /\ \A i, j \in 0 .. n : i <= j => ends[i] <= ends[j]
           /\ \A r \in 1 .. Len(F) : \E i \in 1 .. n : ends[i - 1] < r /\ r <= ends[i]
  BY FlattenBlocks
<1>2. n \in Nat /\ \A f \in 1 .. n : seqs[f] \in Seq(D) /\ Len(seqs[f]) \in Nat
  OBVIOUS
<1> HIDE DEF F, n
<1>3. Len(F) \in Nat
  BY <1>1
<1>4. PICK ends \in [0 .. n -> Nat] :
           /\ ends[0] = 0 /\ ends[n] = Len(F)
           /\ \A i \in 1 .. n :
                /\ ends[i] = ends[i - 1] + Len(seqs[i])
                /\ \A k \in 1 .. Len(seqs[i]) : F[ends[i - 1] + k] = seqs[i][k]
           /\ \A i, j \in 0 .. n : i <= j => ends[i] <= ends[j]
           /\ \A r \in 1 .. Len(F) : \E i \in 1 .. n : ends[i - 1] < r /\ r <= ends[i]
  BY <1>1
<1>5. \A f \in 1 .. n : f \in 0 .. n /\ f - 1 \in 0 .. n /\ ends[f] \in Nat /\ ends[f - 1] \in Nat
  BY <1>2
<1>6. ASSUME NEW f \in 1 .. n, NEW r \in 1 .. Len(F), ends[f - 1] < r, r <= ends[f]
      PROVE  F[r].season = key[f]
  <2>1. ends[f - 1] \in Nat /\ ends[f] = ends[f - 1] + Len(seqs[f]) /\ Len(seqs[f]) \in Nat
    BY <1>2, <1>4, <1>5
  <2> DEFINE k == r - ends[f - 1]
  <2>2. k \in 1 .. Len(seqs[f]) /\ ends[f - 1] + k = r
    BY <1>6, <2>1
  <2> HIDE DEF k
  <2>3. F[ends[f - 1] + k] = seqs[f][k]
    BY <1>4, <2>2
  <2>4. F[r] = seqs[f][k] /\ seqs[f][k].season = key[f]
    BY <2>2, <2>3 DEF n
  <2> QED
    BY <2>4
<1>7. \A f, g \in 1 .. n : key[f] = key[g] => f = g
  BY DEF n
<1>8. ASSUME NEW r \in 1 .. Len(F)
      PROVE  \E f \in 1 .. n : ends[f - 1] < r /\ r <= ends[f] /\ F[r].season = key[f]
  BY <1>4, <1>6
<1>9. ASSUME NEW r \in 1 .. Len(F), NEW f \in 1 .. n, F[r].season = key[f]
      PROVE  ends[f - 1] < r /\ r <= ends[f]
  <2>1. PICK g \in 1 .. n : ends[g - 1] < r /\ r <= ends[g] /\ F[r].season = key[g]
    BY <1>8
  <2>2. g = f
    BY <1>7, <1>9, <2>1
  <2> QED
    BY <2>1, <2>2
<1>10. \A r \in 1 .. Len(F) : \A f \in 1 .. n :
         F[r].season = key[f] <=> ends[f - 1] < r /\ r <= ends[f]
  BY <1>6, <1>9
<1>11. SeasonBlocks(seqs, key, F, ends)
  BY <1>4, <1>8, <1>10, Zenon DEF n, SeasonBlocks
<1> QED
  BY <1>1, <1>11, Zenon DEF F

\* The rows of a frame, from a + 1 to b, are the only ones of its season; csv is
\* cut after row n or in the next one, which has lost its season.
CutSeason(rows, frame, a, b, season, csv, n, mask) ==
  /\ b = a + Len(frame) /\ b <= Len(rows) /\ n <= Len(rows)
  /\ \A k \in 1 .. Len(frame) : rows[a + k] = frame[k]
  /\ \A r \in 1 .. Len(rows) : rows[r].season = season <=> a < r /\ r <= b
  /\ \A i \in 1 .. n : csv[i] = rows[i]
  /\ Len(csv) = n \/ (Len(csv) = n + 1 /\ csv[n + 1].season # season)
  /\ \A i \in 1 .. Len(csv) : mask[i] <=> csv[i].season = season

(***************************************************************************)
(* When a concatenation is cut after n rows, and the row after them lost   *)
(* its season, a frame that ends before the cut is found again, and one    *)
(* that begins after it has no rows.                                       *)
(***************************************************************************)
LEMMA SeasonsOfCut ==
  ASSUME NEW D, NEW rows \in Seq(D), NEW csv \in Seq(D), NEW frame \in Seq(D),
         NEW a \in Nat, NEW b \in Nat, NEW n \in Nat, NEW season, NEW mask,
         CutSeason(rows, frame, a, b, season, csv, n, mask)
  PROVE  /\ b <= n => Masked(csv, mask) = frame
         /\ n <= a => Masked(csv, mask) = << >>
<1>0. /\ b = a + Len(frame) /\ b <= Len(rows) /\ n <= Len(rows)
      /\ \A k \in 1 .. Len(frame) : rows[a + k] = frame[k]
      /\ \A r \in 1 .. Len(rows) : rows[r].season = season <=> a < r /\ r <= b
      /\ \A i \in 1 .. n : csv[i] = rows[i]
      /\ Len(csv) = n \/ (Len(csv) = n + 1 /\ csv[n + 1].season # season)
      /\ \A i \in 1 .. Len(csv) : mask[i] <=> csv[i].season = season
  BY DEF CutSeason
<1>1. /\ Len(frame) \in Nat /\ Len(rows) \in Nat /\ Len(csv) \in Nat
  BY LenIsNat, Zenon
<1>2. ASSUME NEW i \in 1 .. Len(csv)
      PROVE  mask[i] <=> a < i /\ i <= b /\ i <= n
  <2>1. CASE i <= n
    <3>1. i \in 1 .. n /\ i \in 1 .. Len(rows)
      BY <1>0, <1>1, <2>1
    <3>2. csv[i].season = season <=> a < i /\ i <= b
      BY <1>0, <3>1
    <3> QED
      BY <1>0, <2>1, <3>2
  <2>2. CASE i > n
    <3>1. i = n + 1 /\ Len(csv) = n + 1
      BY <1>0, <1>1, <2>2
    <3>2. ~mask[i]
      BY <1>0, <3>1
    <3> QED
      BY <2>2, <3>2
  <2> QED
    BY <2>1, <2>2
<1>3. ASSUME b <= n  PROVE Masked(csv, mask) = frame
  <2>1. \A i \in 1 .. Len(csv) : mask[i] <=> (a < i /\ i <= b)
    BY <1>1, <1>2, <1>3
  <2>2. a <= b /\ b <= Len(csv) /\ b - a = Len(frame)
    BY <1>0, <1>1, <1>3
  <2>3. Masked(csv, mask) = Block(csv, a, b)
    BY <2>1, <2>2, MaskedBlock
  <2> DEFINE M == Block(csv, a, b)
  <2>4. M \in Seq(D) /\ Len(M) = b - a /\ \A k \in 1 .. b - a : M[k] = csv[a + k]
    BY <2>2, BlockRows
  <2> HIDE DEF M
  <2>5. ASSUME NEW k \in 1 .. Len(frame)  PROVE M[k] = frame[k]
    <3>1. a + k \in 1 .. n /\ k \in 1 .. b - a
      BY <1>1, <1>3, <2>2
    <3>2. csv[a + k] = rows[a + k] /\ rows[a + k] = frame[k]
      BY <1>0, <3>1
    <3>3. M[k] = csv[a + k]
      BY <2>4, <3>1
    <3> QED
      BY <3>2, <3>3
  <2>6. M = frame
    <3>1. Len(M) = Len(frame)
      BY <2>2, <2>4, Zenon
    <3> QED
      BY <2>4, <2>5, <3>1, SameRows, Zenon
  <2> QED
    BY <2>3, <2>6 DEF M
<1>4. ASSUME n <= a  PROVE Masked(csv, mask) = << >>
  <2>1. \A i \in 1 .. Len(csv) : mask[i] <=> (0 < i /\ i <= 0)
    BY <1>1, <1>2, <1>4
  <2>2. 0 \in Nat /\ 0 <= 0 /\ 0 <= Len(csv)
    BY <1>1
  <2>3. Masked(csv, mask) = Block(csv, 0, 0)
    BY <2>1, <2>2, MaskedBlock
  <2>4. Block(csv, 0, 0) = << >>
    BY DEF Block
  <2> QED
    BY <2>3, <2>4
<1> QED
  BY <1>3, <1>4
=============================================================================
