---------------------------- MODULE EngineProofs ----------------------------
(* Proofs about the engine, in five parts:                                    *)
(*   facts about finite sets and their sums                                   *)
(*   the scan: what fails has failed at the first combination, and the points *)
(*     evaluated are the grid                                                 *)
(*   the report: the two sorts, the cut at top_n, the sensitivity             *)
(*   the server: it runs searches and nothing but searches, and answers lines *)
(*     in their order                                                         *)
(*   the transports: two readings of the same parameters                      *)
(* The invariants of the search are invariants of SearchSpec; EngineSearches  *)
(* makes them invariants of the engine.                                       *)
EXTENDS EngineServer, FiniteSetTheorems, WellFoundedInduction, TLAPS

(* Finite sets.  Induction over their subsets takes the form of a smallest   *)
(* subset of which something fails.                                          *)

(* A non-empty set of subsets of a finite set has a member of which it holds *)
(* no strict subset.                                                         *)
LEMMA SmallestSubset ==
    ASSUME NEW S, IsFiniteSet(S), NEW T, T \subseteq SUBSET S, T # {}
    PROVE  \E t \in T : \A u \in T : ~(u \subseteq t /\ u # t)
<1>1. IsWellFoundedOn(StrictSubsetOrdering(S), SUBSET S)
  BY FS_StrictSubsetOrderingWellFounded, FS_FiniteSubsetsOfFinite
<1>2. \E t \in T : \A u \in T : ~(<<u, t>> \in StrictSubsetOrdering(S))
  BY <1>1, WFMin
<1> QED
  BY <1>2 DEF StrictSubsetOrdering

(* The sum of a function over a finite set, as one recursive function: its   *)
(* equation at a subset.                                                     *)
Pick(s) == CHOOSE x \in s : TRUE

Term(f, it, s) == IF s = {} THEN 0 ELSE f[Pick(s)] + it[s \ {Pick(s)}]

Sums(f, it, S) == it = [s \in SUBSET S |-> Term(f, it, s)]

(* SumFunctionOnSet is the value of that recursive function at the whole set. *)
LEMMA SumIs ==
    ASSUME NEW f, NEW S
    PROVE  SumFunctionOnSet(f, S) = (CHOOSE it : Sums(f, it, S))[S]
  BY DEF SumFunctionOnSet, FoldFunctionOnSet, MapThenFoldSet, Sums, Term, Pick

(* What is picked is a member, and without it the set is smaller.             *)
LEMMA Picked ==
    ASSUME NEW s, s # {}
    PROVE  Pick(s) \in s /\ s \ {Pick(s)} \subseteq s /\ s \ {Pick(s)} # s
<1>1. Pick(s) \in s
  BY DEF Pick
<1> QED
  BY <1>1

(* Two functions that satisfy the equation agree where both are defined.      *)
LEMMA SumsAgree ==
    ASSUME NEW f, NEW S, IsFiniteSet(S), NEW t \in SUBSET S, NEW u \in SUBSET S,
           NEW g, Sums(f, g, t), NEW h, Sums(f, h, u),
           NEW v, v \subseteq t, v \subseteq u
    PROVE  g[v] = h[v]
<1> DEFINE T == {s \in SUBSET S : s \subseteq t /\ s \subseteq u /\ g[s] # h[s]}
<1>1. SUFFICES ASSUME T # {} PROVE FALSE
  OBVIOUS
<1>2. PICK s \in T : \A r \in T : ~(r \subseteq s /\ r # s)
  <2>1. T \subseteq SUBSET S
    OBVIOUS
  <2> HIDE DEF T
  <2> QED
    BY <1>1, <2>1, SmallestSubset
<1>3. g[s] = Term(f, g, s) /\ h[s] = Term(f, h, s)
  BY DEF Sums
<1>4. CASE s = {}
  BY <1>2, <1>3, <1>4 DEF Term
<1>5. CASE s # {}
  <2> DEFINE r == s \ {Pick(s)}
  <2>1. r \subseteq s /\ r # s
    BY <1>5, Picked
  <2>2. g[r] = h[r]
    BY <1>2, <2>1
  <2> QED
    BY <1>2, <1>3, <1>5, <2>2 DEF Term
<1> QED
  BY <1>4, <1>5

(* There is a function that satisfies the equation.                           *)
LEMMA SumsExist ==
    ASSUME NEW f, NEW S, IsFiniteSet(S)
    PROVE  \E it : Sums(f, it, S)
<1> DEFINE T == {t \in SUBSET S : ~ \E it : Sums(f, it, t)}
<1>1. SUFFICES ASSUME T # {} PROVE FALSE
  OBVIOUS
<1>2. PICK t \in T : \A u \in T : ~(u \subseteq t /\ u # t)
  <2>1. T \subseteq SUBSET S
    OBVIOUS
  <2> HIDE DEF T
  <2> QED
    BY <1>1, <2>1, SmallestSubset
<1> DEFINE Of(u) == CHOOSE it : Sums(f, it, u)
           h == [s \in SUBSET t |-> IF s = {} THEN 0
                                    ELSE f[Pick(s)] + Of(s \ {Pick(s)})[s \ {Pick(s)}]]
<1>3. ASSUME NEW u, u \subseteq t, u # t
      PROVE  Sums(f, Of(u), u)
  BY <1>2, <1>3
<1> HIDE DEF Of
<1>4. ASSUME NEW u, u \subseteq t, u # t
      PROVE  h[u] = Of(u)[u]
  <2>1. Sums(f, Of(u), u)
    BY <1>3, <1>4
  <2>2. Of(u)[u] = Term(f, Of(u), u)
    BY <2>1 DEF Sums
  <2>3. CASE u = {}
    BY <2>2, <2>3 DEF Term
  <2>4. CASE u # {}
    <3> DEFINE r == u \ {Pick(u)}
    <3>1. r \subseteq u /\ r # u
      BY <2>4, Picked
    <3>2. r \subseteq t /\ r # t
      BY <1>4, <3>1
    <3>3. Sums(f, Of(r), r)
      BY <1>3, <3>2
    <3>4. r \in SUBSET S /\ u \in SUBSET S /\ r \subseteq r
      BY <1>2, <1>4, <3>2
    <3>5. Of(r)[r] = Of(u)[r]
      <4> HIDE DEF r, h
      <4>1. \A g, k : Sums(f, g, r) /\ Sums(f, k, u) => g[r] = k[r]
        BY <3>1, <3>4, SumsAgree
      <4> QED
        BY <2>1, <3>3, <4>1
    <3>6. Of(u)[u] = f[Pick(u)] + Of(u)[r]
      BY <2>2, <2>4 DEF Term
    <3>7. h[u] = f[Pick(u)] + Of(r)[r]
      BY <1>4, <2>4
    <3> QED
      BY <3>5, <3>6, <3>7
  <2> QED
    BY <2>3, <2>4
<1>5. ASSUME NEW s \in SUBSET t
      PROVE  h[s] = Term(f, h, s)
  <2>1. CASE s = {}
    BY <2>1 DEF Term
  <2>2. CASE s # {}
    <3> DEFINE r == s \ {Pick(s)}
    <3>1. r \subseteq t /\ r # t
      BY <2>2, Picked
    <3>2. h[r] = Of(r)[r]
      BY <1>4, <3>1
    <3>3. h[s] = f[Pick(s)] + Of(r)[r]
      BY <2>2
    <3> HIDE DEF h
    <3> QED
      BY <2>2, <3>2, <3>3 DEF Term
  <2> QED
    BY <2>1, <2>2
<1>6. h = [s \in SUBSET t |-> h[s]]
  OBVIOUS
<1>7. Sums(f, h, t)
  <2> HIDE DEF h
  <2> QED
    BY <1>5, <1>6 DEF Sums
<1> QED
  BY <1>2, <1>7

(* A sum of naturals is one, and a sum of at most n terms up to k is at most *)
(* k * n.                                                                    *)
LEMMA SumNat ==
    ASSUME NEW f, NEW S, IsFiniteSet(S), \A x \in S : f[x] \in Nat
    PROVE  SumFunctionOnSet(f, S) \in Nat
<1> DEFINE it == CHOOSE g : Sums(f, g, S)
           T == {s \in SUBSET S : it[s] \notin Nat}
<1>1. Sums(f, it, S)
  BY SumsExist
<1>2. SumFunctionOnSet(f, S) = it[S]
  BY SumIs
<1> HIDE DEF it
<1>3. SUFFICES ASSUME T # {} PROVE FALSE
  BY <1>2
<1>4. PICK s \in T : \A r \in T : ~(r \subseteq s /\ r # s)
  <2>1. T \subseteq SUBSET S
    OBVIOUS
  <2> HIDE DEF T
  <2> QED
    BY <1>3, <2>1, SmallestSubset
<1>5. it[s] = Term(f, it, s)
  BY <1>1 DEF Sums
<1>6. s # {}
  BY <1>4, <1>5 DEF Term
<1> DEFINE r == s \ {Pick(s)}
<1>7. r \subseteq s /\ r # s /\ Pick(s) \in s
  BY <1>6, Picked
<1>8. it[r] \in Nat
  BY <1>4, <1>7
<1>9. f[Pick(s)] \in Nat
  BY <1>4, <1>7
<1> QED
  BY <1>4, <1>5, <1>6, <1>8, <1>9 DEF Term

(* A sum of levels is at most the highest level times their number.           *)
LEMMA SumAtMost ==
    ASSUME NEW f, NEW S, IsFiniteSet(S), NEW k \in Nat, \A x \in S : f[x] \in 0..k
    PROVE  SumFunctionOnSet(f, S) \in 0..(k * Cardinality(S))
<1> DEFINE it == CHOOSE g : Sums(f, g, S)
           T == {s \in SUBSET S : it[s] \notin 0..(k * Cardinality(s))}
<1>1. Sums(f, it, S)
  BY SumsExist
<1>2. SumFunctionOnSet(f, S) = it[S]
  BY SumIs
<1> HIDE DEF it
<1>3. SUFFICES ASSUME T # {} PROVE FALSE
  BY <1>2
<1>4. PICK s \in T : \A r \in T : ~(r \subseteq s /\ r # s)
  <2>1. T \subseteq SUBSET S
    OBVIOUS
  <2> HIDE DEF T
  <2> QED
    BY <1>3, <2>1, SmallestSubset
<1>5. it[s] = Term(f, it, s)
  BY <1>1 DEF Sums
<1>6. s # {}
  <2>1. SUFFICES ASSUME s = {} PROVE FALSE
    OBVIOUS
  <2>2. it[s] = 0 /\ Cardinality(s) = 0
    BY <1>5, <2>1, FS_EmptySet DEF Term
  <2> QED
    BY <1>4, <2>2
<1> DEFINE r == s \ {Pick(s)}
           c == Cardinality(r)
<1>7. r \subseteq s /\ r # s /\ Pick(s) \in s
  BY <1>6, Picked
<1>8. c \in Nat /\ Cardinality(s) = c + 1
  <2>1. IsFiniteSet(s)
    BY <1>4, FS_Subset
  <2>2. IsFiniteSet(r) /\ c = Cardinality(s) - 1
    BY <1>7, <2>1, FS_RemoveElement
  <2>3. c \in Nat /\ Cardinality(s) \in Nat
    BY <2>1, <2>2, FS_CardinalityType
  <2> QED
    BY <2>2, <2>3
<1>9. it[r] \in 0..(k * c)
  BY <1>4, <1>7
<1>10. f[Pick(s)] \in 0..k
  BY <1>4, <1>7
<1>11. it[s] = f[Pick(s)] + it[r]
  BY <1>5, <1>6 DEF Term
<1> HIDE DEF r, c
<1>12. k * (c + 1) = k * c + k /\ k * c \in Nat
  BY <1>8
<1>13. it[s] \in 0..(k * (c + 1))
  BY <1>9, <1>10, <1>11, <1>12
<1> QED
  BY <1>4, <1>8, <1>13
(* A non-empty finite set of integers has a least element, and Min is it.    *)
LEMMA LeastIs ==
    ASSUME NEW S, S \subseteq Int, NEW x \in S, \A y \in S : x <= y
    PROVE  Min(S) = x
<1>1. \A z \in S : (\A y \in S : z <= y) => z = x
  OBVIOUS
<1> QED
  BY <1>1 DEF Min

(* A finite non-empty set of integers has its Min.                            *)
LEMMA Least ==
    ASSUME NEW S, IsFiniteSet(S), S \subseteq Int, S # {}
    PROVE  /\ Min(S) \in S
           /\ Min(S) \in Int
           /\ \A y \in S : Min(S) <= y
<1> DEFINE T == {t \in SUBSET S : t # {} /\ ~ \E x \in t : \A y \in t : x <= y}
<1>1. T = {}
  <2>1. SUFFICES ASSUME T # {} PROVE FALSE
    OBVIOUS
  <2>2. PICK t \in T : \A u \in T : ~(u \subseteq t /\ u # t)
    <3>1. T \subseteq SUBSET S
      OBVIOUS
    <3>2. IsFiniteSet(S)
      OBVIOUS
    <3> HIDE DEF T
    <3> QED
      BY ONLY <2>1, <3>1, <3>2, SmallestSubset
  <2> DEFINE x == Pick(t)
             r == t \ {x}
  <2>3. r \subseteq t /\ r # t /\ x \in t
    BY <2>2, Picked
  <2>4. r # {}
    <3>1. \A y \in t : y \in Int
      BY <2>2
    <3>2. ASSUME r = {} PROVE \A y \in t : y = x
      BY <3>2
    <3>3. r = {} => \A y \in t : x <= y
      BY <2>3, <3>1, <3>2
    <3> QED
      BY <2>2, <2>3, <3>3
  <2>5. PICK y \in r : \A z \in r : y <= z
    BY <2>2, <2>3, <2>4
  <2>6. x \in Int /\ y \in Int /\ t \subseteq Int
    BY <2>2, <2>3
  <2>7. CASE x <= y
    <3>1. \A z \in t : x <= z
      BY <2>3, <2>5, <2>6, <2>7
    <3> QED
      BY <2>2, <2>3, <3>1
  <2>8. CASE y <= x
    <3>1. \A z \in t : y <= z
      BY <2>3, <2>5, <2>6, <2>8
    <3> QED
      BY <2>2, <2>3, <3>1
  <2> QED
    BY <2>6, <2>7, <2>8
<1>2. PICK x \in S : \A y \in S : x <= y
  BY <1>1
<1>3. Min(S) = x
  BY <1>2, LeastIs
<1> QED
  BY <1>2, <1>3

(* In a finite set with a strict total order, the number of elements that    *)
(* come before one is its rank: every rank is some element's, and ranks are  *)
(* ordered as the elements are.                                              *)
Preceding(R, S, m) == {x \in S : <<x, m>> \in R}

IsStrictOrder(R, S) ==
    /\ \A x \in S : <<x, x>> \notin R
    /\ \A x, y, z \in S : <<x, y>> \in R /\ <<y, z>> \in R => <<x, z>> \in R
    /\ \A x, y \in S : x # y => <<x, y>> \in R \/ <<y, x>> \in R

(* Ranks are ordered as the elements are.                                     *)
LEMMA RanksAreOrdered ==
    ASSUME NEW S, IsFiniteSet(S), NEW R, IsStrictOrder(R, S),
           NEW m \in S, NEW n \in S
    PROVE  /\ Cardinality(Preceding(R, S, m)) \in 0..(Cardinality(S) - 1)
           /\ <<m, n>> \in R <=> Cardinality(Preceding(R, S, m)) < Cardinality(Preceding(R, S, n))
<1> DEFINE P(x) == Preceding(R, S, x)
           c(x) == Cardinality(P(x))
<1>1. ASSUME NEW x \in S
      PROVE  P(x) \in SUBSET S /\ x \notin P(x)
  BY DEF Preceding, IsStrictOrder
<1>2. ASSUME NEW x \in S
      PROVE  IsFiniteSet(P(x)) /\ c(x) \in 0..(Cardinality(S) - 1)
  <2> HIDE DEF P
  <2>1. /\ IsFiniteSet(P(x)) /\ c(x) <= Cardinality(S) /\ c(x) # Cardinality(S)
    BY <1>1, FS_Subset
  <2>2. c(x) \in Nat /\ Cardinality(S) \in Nat
    BY <2>1, FS_CardinalityType
  <2> QED
    BY <2>1, <2>2
<1>3. ASSUME NEW x \in S, NEW y \in S, <<x, y>> \in R
      PROVE  c(x) < c(y)
  <2>1. P(x) \in SUBSET P(y) /\ x \in P(y) /\ x \notin P(x)
    BY <1>3 DEF Preceding, IsStrictOrder
  <2> HIDE DEF P
  <2>2. IsFiniteSet(P(y)) /\ IsFiniteSet(P(x))
    BY <1>2
  <2>3. c(x) <= c(y) /\ c(x) # c(y)
    BY <2>1, <2>2, FS_Subset
  <2>4. c(x) \in Nat /\ c(y) \in Nat
    BY <2>2, FS_CardinalityType
  <2> QED
    BY <2>3, <2>4
<1>4. c(m) < c(n) => <<m, n>> \in R
  <2>1. SUFFICES ASSUME c(m) < c(n), <<m, n>> \notin R PROVE FALSE
    OBVIOUS
  <2>2. c(m) \in Int /\ c(n) \in Int
    BY <1>2
  <2> HIDE DEF P
  <2>3. m = n \/ <<n, m>> \in R
    BY <2>1 DEF IsStrictOrder
  <2>4. m = n \/ c(n) < c(m)
    BY <1>3, <2>3
  <2> QED
    BY <2>1, <2>2, <2>4
<1> QED
  BY <1>2, <1>3, <1>4

(* Every rank is some element's.                                              *)
LEMMA RanksAreAll ==
    ASSUME NEW S, IsFiniteSet(S), NEW R, IsStrictOrder(R, S),
           NEW k \in 0..(Cardinality(S) - 1)
    PROVE  \E m \in S : Cardinality(Preceding(R, S, m)) = k
<1> DEFINE N == Cardinality(S)
           I == 0..(N - 1)
           f == [m \in S |-> Cardinality(Preceding(R, S, m))]
<1>1. N \in Nat
  BY FS_CardinalityType
<1>2. IsFiniteSet(I) /\ Cardinality(I) = N
  BY <1>1, FS_Interval
<1>3. f \in [S -> I]
  BY RanksAreOrdered
<1>4. ASSUME NEW m \in S, NEW n \in S, f[m] = f[n]
      PROVE  m = n
  <2>1. SUFFICES ASSUME m # n PROVE FALSE
    OBVIOUS
  <2>2. <<m, n>> \in R \/ <<n, m>> \in R
    BY <2>1 DEF IsStrictOrder
  <2>3. f[m] < f[n] \/ f[n] < f[m]
    BY <2>2, RanksAreOrdered
  <2>4. f[m] \in Int /\ f[n] \in Int
    BY <1>1, <1>3
  <2> QED
    BY <1>4, <2>3, <2>4
<1>5. f \in Injection(S, I)
  BY <1>3, <1>4 DEF Injection, IsInjective
<1>6. f \in Surjection(S, I)
  <2> HIDE DEF f, I, N
  <2> QED
    BY <1>2, <1>5, FS_Injection DEF N
<1>7. \E m \in S : f[m] = k
  BY <1>6 DEF Surjection
<1> QED
  BY <1>7

-----------------------------------------------------------------------------
(* Division of integers, by the bounds of its quotient. *)
LEMMA Quotients ==
    ASSUME NEW x \in Int, NEW d \in Int, d > 0
    PROVE  /\ x \div d \in Int
           /\ d * (x \div d) <= x
           /\ x < d * (x \div d) + d
           /\ x % d \in 0..(d - 1)
           /\ x = d * (x \div d) + (x % d)
  OBVIOUS

(* A quotient is at least what fits into the dividend.                        *)
LEMMA QuotientAtLeast ==
    ASSUME NEW x \in Int, NEW d \in Int, d > 0, NEW q \in Int, d * q <= x
    PROVE  q <= x \div d
<1> DEFINE r == x \div d
<1>1. r \in Int /\ x < d * r + d
  BY Quotients
<1>2. d * q < d * (r + 1)
  BY <1>1
<1>3. ~(q >= r + 1)
  <2> SUFFICES ASSUME q >= r + 1 PROVE FALSE
    OBVIOUS
  <2>1. d * (q - (r + 1)) >= 0
    BY <1>1
  <2> QED
    BY <2>1, <1>1, <1>2
<1> QED
  BY <1>1, <1>3

(* A product of positive integers is one.                                     *)
LEMMA Products ==
    ASSUME NEW a \in Int, NEW b \in Int, a >= 1, b >= 1
    PROVE  a * b \in Int /\ a * b >= 1
  BY SMT

-----------------------------------------------------------------------------
(* The numbers of a space that SpaceFails lets through. *)

(* A grid with ordered bounds and a positive step has a point.                *)
LEMMA GridNotEmpty ==
    ASSUME NEW bounds \in Int \X Int, NEW step \in Int,
           bounds[1] < bounds[2], step > 0
    PROVE  GridSize(bounds, step) \in Int /\ GridSize(bounds, step) >= 1
<1> DEFINE x == 2 * (bounds[2] - bounds[1]) + step + 2 * step - 1
           d == 2 * step
<1>1. x \in Int /\ d \in Int /\ d > 0 /\ d * 1 <= x
  OBVIOUS
<1>2. x \div d \in Int
  BY <1>1, Quotients
<1>3. 1 <= x \div d
  BY <1>1, QuotientAtLeast
<1>4. GridSize(bounds, step) = x \div d
  BY DEF GridSize
<1> QED
  BY <1>2, <1>3, <1>4

(* A space that __post_init__ lets through has points on both axes.           *)
LEMMA Sizes ==
    ASSUME NEW s \in Spaces, ~SpaceFails(s)
    PROVE  /\ s.outer_step > 0 /\ s.metal_step > 0
           /\ OuterSize(s) \in Int /\ OuterSize(s) >= 1
           /\ MetalSize(s) \in Int /\ MetalSize(s) >= 1
<1>1. /\ s.outer_bounds \in Int \X Int /\ s.outer_step \in Int
      /\ s.metal_bounds \in Int \X Int /\ s.metal_step \in Int
  BY DEF Spaces
<1>2. /\ s.outer_bounds[1] < s.outer_bounds[2] /\ s.outer_step > 0
      /\ s.metal_bounds[1] < s.metal_bounds[2] /\ s.metal_step > 0
  BY <1>1 DEF SpaceFails, RangesFail
<1> QED
  BY <1>1, <1>2, GridNotEmpty DEF OuterSize, MetalSize

(* The three positions of the n-th combination on their axes. *)
LEMMA Positions ==
    ASSUME NEW o \in Int, o >= 1, NEW m \in Int, m >= 1, NEW n \in Nat
    PROVE  /\ n \div (m * o) \in Nat
           /\ (n \div o) % m \in 0..(m - 1)
           /\ n % o \in 0..(o - 1)
<1>1. m * o \in Int /\ m * o >= 1
  BY Products
<1>2. n \div (m * o) \in Int /\ 0 <= n \div (m * o)
  BY <1>1, Quotients, QuotientAtLeast
<1>3. n \div o \in Int
  BY Quotients
<1>4. (n \div o) % m \in 0..(m - 1)
  BY <1>3, Quotients
<1>5. n % o \in 0..(o - 1)
  BY Quotients
<1> QED
  BY <1>2, <1>4, <1>5

(* No point of a grid is below its first.                                     *)
LEMMA PointsRise ==
    ASSUME NEW bounds \in Int \X Int, NEW step \in Int, step > 0, NEW k \in Nat
    PROVE  /\ GridPoint(bounds, step, k) \in Int
           /\ GridPoint(bounds, step, 0) \in Int
           /\ GridPoint(bounds, step, 0) <= GridPoint(bounds, step, k)
<1>1. k * step \in Nat /\ 0 * step = 0
  OBVIOUS
<1> QED
  BY <1>1 DEF GridPoint

(* A tuple of three is a function on 1..3.                                    *)
LEMMA Triples ==
    ASSUME NEW S, NEW a \in S, NEW b \in S, NEW c \in S
    PROVE  /\ <<a, b, c>> \in [1..3 -> S]
           /\ <<a, b, c>>[1] = a /\ <<a, b, c>>[2] = b /\ <<a, b, c>>[3] = c
  OBVIOUS

(* No combination has a thinner layer than the first. *)
LEMMA FirstIsThinnest ==
    ASSUME NEW s \in Spaces, ~SpaceFails(s), NEW n \in Nat
    PROVE  /\ Combination(s, n) \in [1..3 -> Int]
           /\ Combination(s, 0) \in [1..3 -> Int]
           /\ \A i \in 1..3 : Combination(s, 0)[i] <= Combination(s, n)[i]
<1> DEFINE o == OuterSize(s)
           m == MetalSize(s)
<1>1. /\ o \in Int /\ o >= 1 /\ m \in Int /\ m >= 1
      /\ s.outer_step > 0 /\ s.metal_step > 0
  BY Sizes
<1>2. /\ s.outer_bounds \in Int \X Int /\ s.outer_step \in Int
      /\ s.metal_bounds \in Int \X Int /\ s.metal_step \in Int
  BY DEF Spaces
<1> HIDE DEF o, m
<1> DEFINE a(k) == k \div (m * o)
           b(k) == (k \div o) % m
           c(k) == k % o
<1>3. a(n) \in Nat /\ b(n) \in Nat /\ c(n) \in Nat
  <2>1. /\ n \div (m * o) \in Nat
        /\ (n \div o) % m \in 0..(m - 1)
        /\ n % o \in 0..(o - 1)
    BY <1>1, Positions
  <2> QED
    BY <2>1
<1>4. a(0) = 0 /\ b(0) = 0 /\ c(0) = 0
  <2>1. m * o \in Int /\ m * o >= 1
    BY <1>1, Products
  <2>2. 0 \div (m * o) = 0
    BY <2>1
  <2>3. 0 \div o = 0 /\ 0 % m = 0 /\ 0 % o = 0
    BY <1>1
  <2> QED
    BY <2>2, <2>3
<1>5. /\ Combination(s, n) = <<GridPoint(s.outer_bounds, s.outer_step, a(n)),
                               GridPoint(s.metal_bounds, s.metal_step, b(n)),
                               GridPoint(s.outer_bounds, s.outer_step, c(n))>>
      /\ Combination(s, 0) = <<GridPoint(s.outer_bounds, s.outer_step, 0),
                               GridPoint(s.metal_bounds, s.metal_step, 0),
                               GridPoint(s.outer_bounds, s.outer_step, 0)>>
  BY <1>4 DEF Combination, o, m
<1> HIDE DEF a, b, c
<1>6. \A k \in {0, a(n), c(n)} :
         /\ GridPoint(s.outer_bounds, s.outer_step, k) \in Int
         /\ GridPoint(s.outer_bounds, s.outer_step, 0)
              <= GridPoint(s.outer_bounds, s.outer_step, k)
  BY <1>1, <1>2, <1>3, PointsRise
<1>7. \A k \in {0, b(n)} :
         /\ GridPoint(s.metal_bounds, s.metal_step, k) \in Int
         /\ GridPoint(s.metal_bounds, s.metal_step, 0)
              <= GridPoint(s.metal_bounds, s.metal_step, k)
  BY <1>1, <1>2, <1>3, PointsRise
<1> DEFINE p(k) == GridPoint(s.outer_bounds, s.outer_step, k)
           q(k) == GridPoint(s.metal_bounds, s.metal_step, k)
<1>8. /\ p(0) \in Int /\ p(a(n)) \in Int /\ p(c(n)) \in Int
      /\ q(0) \in Int /\ q(b(n)) \in Int
      /\ p(0) <= p(a(n)) /\ q(0) <= q(b(n)) /\ p(0) <= p(c(n))
  BY <1>6, <1>7
<1>9. /\ Combination(s, n) = <<p(a(n)), q(b(n)), p(c(n))>>
      /\ Combination(s, 0) = <<p(0), q(0), p(0)>>
  BY <1>5
<1> HIDE DEF p, q
<1>10. /\ Combination(s, n) \in [1..3 -> Int]
       /\ Combination(s, 0) \in [1..3 -> Int]
  BY <1>8, <1>9, Triples
<1>11. ASSUME NEW i \in 1..3
       PROVE  Combination(s, 0)[i] <= Combination(s, n)[i]
  <2>1. i = 1 \/ i = 2 \/ i = 3
    OBVIOUS
  <2> QED
    BY <2>1, <1>8, <1>9
<1> QED
  BY <1>10, <1>11

-----------------------------------------------------------------------------
(* What evaluate_candidate refuses. *)

(* A stack it accepts is accepted with thicker layers, too. *)
LEMMA ThickerIsAccepted ==
    ASSUME NEW ts \in [1..3 -> Int], NEW us \in [1..3 -> Int],
           \A i \in 1..3 : ts[i] <= us[i],
           NEW ms, NEW substrate, NEW band,
           ~EvaluateFails(ts, ms, substrate, band)
    PROVE  ~EvaluateFails(us, ms, substrate, band)
<1> DEFINE p == Stack(ts, ms)
           q == Stack(us, ms)
<1>1. /\ DOMAIN p = 1..3 /\ DOMAIN q = 1..3
      /\ \A i \in 1..3 : /\ p[i].material = ms[i] /\ q[i].material = ms[i]
                        /\ p[i].thickness = ts[i] /\ q[i].thickness = us[i]
  BY DEF Stack, Film
<1> HIDE DEF p, q
<1>2. Conductive(q) = Conductive(p) /\ Conductive(p) \subseteq 1..3
  BY <1>1 DEF Conductive
<1>3. Conducts(p) => Conducts(q)
  BY <1>1, <1>2 DEF Conducts
<1>4. SizeEffectDefined(p) => SizeEffectDefined(q)
  BY <1>1, <1>2 DEF SizeEffectDefined
<1>5. \A i \in 1..3 : ts[i] >= 0 /\ ms[i] \in Known
  BY DEF EvaluateFails
<1>6. \A i \in 1..3 : ~(us[i] < 0 \/ ms[i] \notin Known)
  BY <1>5
<1> QED
  BY <1>2, <1>3, <1>4, <1>6 DEF EvaluateFails, p, q

-----------------------------------------------------------------------------
(* The scan. *)

(* Everything a scan of this space for this target may append. *)
Points(s, t) ==
    {Evaluate(Combination(s, n), Materials(s), s.substrate, BandOf(t)) : n \in Nat}

(* Nothing is scanned before the scan; while it runs the request is one that *)
(* the checks let through, and once anything has been scanned the first      *)
(* combination is known to be accepted.                                      *)
ScanInv ==
    /\ phase \in {"idle", "refused", "exhausted"} => scanned = << >>
    /\ phase = "scanning" =>
          /\ config \in Spaces
          /\ ~SpaceFails(config)
          /\ scanned \in Seq(Points(config, target))
          /\ scanned # << >> => ~FailsAt(Combination(config, 0))

(* No scan, nothing scanned.                                                  *)
LEMMA ScanInit == SearchInit => ScanInv
  BY DEF SearchInit, ScanInv

(* Every step keeps ScanInv.                                                  *)
LEMMA ScanStep == ScanInv /\ [SearchNext]_searchVars => ScanInv'
<1> SUFFICES ASSUME ScanInv, [SearchNext]_searchVars PROVE ScanInv'
  OBVIOUS
<1>1. ASSUME NEW j \in Jobs, Ask(j) PROVE ScanInv'
  <2>1. scanned = << >> /\ scanned' = << >>
    BY <1>1 DEF Ask, ScanInv
  <2>2. config' \in Spaces
    BY <1>1, JobsAssumption DEF Ask
  <2>3. phase' = "scanning" => ~SpaceFails(config')
    BY <1>1 DEF Ask
  <2>4. scanned' \in Seq(Points(config', target'))
    BY <2>1
  <2> QED
    BY <2>1, <2>2, <2>3, <2>4 DEF ScanInv
<1>2. ASSUME EvaluateNext PROVE ScanInv'
  <2> DEFINE n == Len(scanned)
             ts == Combination(config, n)
  <2>1. /\ phase = "scanning" /\ config \in Spaces /\ ~SpaceFails(config)
        /\ scanned \in Seq(Points(config, target))
        /\ scanned # << >> => ~FailsAt(Combination(config, 0))
        /\ config' = config /\ target' = target
    BY <1>2 DEF EvaluateNext, ScanInv
  <2>2. n \in Nat /\ (scanned = << >> => n = 0)
    BY <2>1
  <2>3. CASE FailsAt(ts) /\ phase' = "refused" /\ scanned' = scanned
    <3>1. SUFFICES ASSUME scanned # << >> PROVE FALSE
      BY <2>3 DEF ScanInv
    <3>2. ~EvaluateFails(Combination(config, 0), Materials(config),
                         config.substrate, BandOf(target))
      BY <2>1, <3>1 DEF FailsAt
    <3>3. ~EvaluateFails(ts, Materials(config), config.substrate, BandOf(target))
      BY <2>1, <2>2, <3>2, FirstIsThinnest, ThickerIsAccepted
    <3> QED
      BY <2>3, <3>3 DEF FailsAt
  <2>4. CASE /\ ~FailsAt(ts) /\ phase' = phase
             /\ scanned' = Append(scanned, EvaluateAt(ts))
    <3>1. EvaluateAt(ts) \in Points(config, target)
      BY <2>2 DEF EvaluateAt, Points
    <3>2. scanned' \in Seq(Points(config, target))
      BY <2>1, <2>4, <3>1
    <3>3. ~FailsAt(Combination(config, 0))
      BY <2>1, <2>2, <2>4
    <3>4. ~FailsAt(Combination(config, 0))'
      BY <2>1, <3>3 DEF FailsAt
    <3> QED
      BY <2>1, <2>4, <3>2, <3>4 DEF ScanInv
  <2> QED
    BY <1>2, <2>3, <2>4 DEF EvaluateNext
<1>3. ASSUME Rank PROVE ScanInv'
  BY <1>3 DEF Rank, ScanInv
<1>4. ASSUME AnalyseLayer PROVE ScanInv'
  BY <1>4 DEF AnalyseLayer, ScanInv
<1>5. ASSUME Return PROVE ScanInv'
  BY <1>5 DEF Return, ScanInv
<1>6. ASSUME UNCHANGED searchVars PROVE ScanInv'
  BY <1>6 DEF searchVars, ScanInv, FailsAt
<1> QED
  BY <1>1, <1>2, <1>3, <1>4, <1>5, <1>6 DEF SearchNext, SearchStep

(* No scan is lost half-way: whatever the space and the target, a            *)
(* combination that raises is the first one (search_designs).                *)
THEOREM FailsBeforeItStarts == SearchSpec => []ScanFailsAtOnce
<1>1. ScanInv => ScanFailsAtOnce
  BY DEF ScanInv, ScanFailsAtOnce
<1> QED
  BY <1>1, ScanInit, ScanStep, PTL DEF SearchSpec
-----------------------------------------------------------------------------
(* The grid.  Positions on an axis and combinations of positions are numbers *)
(* in two mixed-radix notations; both can be read back.                      *)

(* A number between two multiples has the lower one's quotient.               *)
LEMMA QuotientIs ==
    ASSUME NEW x \in Int, NEW d \in Int, d > 0, NEW q \in Int,
           d * q <= x, x < d * q + d
    PROVE  x \div d = q /\ x % d = x - d * q
<1> DEFINE r == x \div d
<1>1. r \in Int /\ d * r <= x /\ x = d * r + (x % d) /\ x % d \in Int
  BY Quotients
<1>2. q <= r
  BY QuotientAtLeast
<1>3. d * r < d * (q + 1)
  BY <1>1
<1> HIDE DEF r
<1>4. ~(r >= q + 1)
  <2> SUFFICES ASSUME r >= q + 1 PROVE FALSE
    OBVIOUS
  <2>1. d * (r - (q + 1)) >= 0
    BY <1>1
  <2> QED
    BY <2>1, <1>1, <1>3
<1>5. r = q
  BY <1>1, <1>2, <1>4
<1> QED
  BY <1>1, <1>5 DEF r

(* The digits of a number below o * m * o, and the number of three digits.   *)
LEMMA RadixDigits ==
    ASSUME NEW o \in Int, o >= 1, NEW m \in Int, m >= 1,
           NEW n \in 0..(o * m * o - 1)
    PROVE  /\ n \div (m * o) \in 0..(o - 1)
           /\ (n \div o) % m \in 0..(m - 1)
           /\ n % o \in 0..(o - 1)
           /\ n = (n \div (m * o)) * (m * o) + ((n \div o) % m) * o + (n % o)
<1> DEFINE q == n \div o
           c == n % o
           r == q \div m
           b == q % m
<1>1. n \in Int /\ n >= 0 /\ n < o * m * o /\ m * o \in Int /\ m * o >= 1
  <2>1. o * m \in Int /\ o * m * o \in Int
    OBVIOUS
  <2> QED
    BY <2>1, Products
<1>2. q \in Int /\ c \in 0..(o - 1) /\ n = o * q + c
  BY <1>1, Quotients
<1>3. r \in Int /\ b \in 0..(m - 1) /\ q = m * r + b
  BY <1>2, Quotients
<1> HIDE DEF q, c, r, b
<1>4. n = (m * o) * r + (b * o + c)
  <2>1. o * (m * r + b) = (m * o) * r + b * o
    BY <1>3
  <2> QED
    BY <1>2, <1>3, <2>1
<1>5. 0 <= b * o + c /\ b * o + c < m * o
  <2>1. b * o >= 0 /\ (m - 1 - b) * o >= 0
    BY <1>3
  <2>2. (m - 1 - b) * o = m * o - o - b * o
    BY <1>3
  <2> QED
    BY <1>2, <1>3, <2>1, <2>2
<1>6. n \div (m * o) = r
  <2>1. (m * o) * r \in Int /\ b * o \in Int
    BY <1>1, <1>3
  <2>2. (m * o) * r <= n /\ n < (m * o) * r + m * o
    BY <1>1, <1>2, <1>4, <1>5, <2>1
  <2> QED
    BY <1>1, <1>3, <2>2, QuotientIs
<1>7. 0 <= r
  BY <1>1, <1>6, QuotientAtLeast
<1>8. r < o
  <2>1. (m * o) * r < (m * o) * o
    <3>1. (m * o) * r <= n
      BY <1>1, <1>6, Quotients
    <3>2. o * m * o = (m * o) * o
      OBVIOUS
    <3>3. (m * o) * r \in Int
      BY <1>1, <1>3
    <3> QED
      BY <1>1, <3>1, <3>2, <3>3
  <2> SUFFICES ASSUME r >= o PROVE FALSE
    BY <1>3
  <2> DEFINE d == m * o
  <2>2. d \in Int /\ d >= 1 /\ d * r < d * o
    BY <1>1, <2>1
  <2> HIDE DEF d
  <2>3. d * (r - o) >= 0
    BY <2>2, <1>3
  <2> QED
    BY <2>2, <2>3, <1>3
<1>9. n = r * (m * o) + b * o + c
  <2>1. (m * o) * r = r * (m * o) /\ r * (m * o) \in Int /\ b * o \in Int
    BY <1>1, <1>3
  <2> QED
    BY <1>2, <1>4, <2>1
<1>10. n = (n \div (m * o)) * (m * o) + b * o + c
  BY <1>6, <1>9
<1>11. n \div (m * o) \in 0..(o - 1)
  BY <1>3, <1>6, <1>7, <1>8
<1> QED
  BY <1>2, <1>3, <1>10, <1>11 DEF q, b, c

HasNumber(o, m, a, b, c) ==
    \E n \in 0..(o * m * o - 1) :
        n \div (m * o) = a /\ (n \div o) % m = b /\ n % o = c

(* Every triple of digits is the triple of one number.                        *)
LEMMA DigitsOf ==
    ASSUME NEW o \in Int, o >= 1, NEW m \in Int, m >= 1,
           NEW a \in 0..(o - 1), NEW b \in 0..(m - 1), NEW c \in 0..(o - 1)
    PROVE  HasNumber(o, m, a, b, c)
<1> DEFINE n == a * (m * o) + b * o + c
<1>1. /\ m * o \in Int /\ m * o >= 1 /\ a * (m * o) \in Int /\ b * o \in Int
      /\ a * m \in Int /\ n \in Int
  <2>1. m * o \in Int /\ m * o >= 1
    BY Products
  <2> QED
    BY <2>1
<1>2. 0 <= b * o + c /\ b * o + c < m * o
  <2>1. b * o >= 0 /\ (m - 1 - b) * o >= 0
    OBVIOUS
  <2>2. (m - 1 - b) * o = m * o - o - b * o
    OBVIOUS
  <2> QED
    BY <1>1, <2>1, <2>2
<1> DEFINE d == m * o
<1>3. d \in Int /\ d >= 1 /\ n = d * a + (b * o + c) /\ d * a \in Int
  BY <1>1
<1>4. n \div d = a
  BY <1>1, <1>2, <1>3, QuotientIs
<1>5. n \in 0..(o * m * o - 1)
  <2>1. d * a >= 0
    BY <1>3
  <2>2. d * (o - 1 - a) >= 0 /\ d * (o - 1 - a) = d * o - d - d * a /\ d * o \in Int
    BY <1>3
  <2>3. d * o = o * m * o
    OBVIOUS
  <2> HIDE DEF d
  <2>4. 0 <= n /\ n <= d * o - 1
    BY <1>1, <1>2, <1>3, <2>1, <2>2 DEF d
  <2> QED
    BY <1>1, <2>3, <2>4
<1>6. n = o * (a * m + b) + c
  <2>1. o * (a * m + b) = a * (m * o) + b * o
    OBVIOUS
  <2> QED
    BY <1>1, <2>1
<1>7. n \div o = a * m + b /\ n % o = c
  <2> DEFINE q == a * m + b
  <2>1. q \in Int /\ o * q \in Int /\ n = o * q + c
    BY <1>1, <1>6
  <2> HIDE DEF q
  <2>2. n \div o = q /\ n % o = n - o * q
    BY <1>1, <2>1, QuotientIs
  <2> QED
    BY <2>1, <2>2 DEF q
<1>8. (a * m + b) % m = b
  <2> DEFINE x == a * m + b
  <2>1. x \in Int /\ m * a \in Int /\ x = m * a + b
    BY <1>1
  <2> HIDE DEF x
  <2>2. x % m = x - m * a
    BY <2>1, QuotientIs
  <2> QED
    BY <2>1, <2>2 DEF x
<1> QED
  BY <1>4, <1>5, <1>7, <1>8 DEF HasNumber

(* Different positions on a grid are different points.                        *)
LEMMA PointsDiffer ==
    ASSUME NEW bounds \in Int \X Int, NEW step \in Int, step > 0,
           NEW k \in Int, NEW l \in Int,
           GridPoint(bounds, step, k) = GridPoint(bounds, step, l)
    PROVE  k = l
<1>1. k * step \in Int /\ l * step \in Int /\ k * step = l * step
  BY DEF GridPoint
<1>2. (k - l) * step = 0
  BY <1>1
<1> QED
  BY <1>2

(* The points of the code's grid are those the property asks for. *)
LEMMA GridIsAxis ==
    ASSUME NEW bounds \in Int \X Int, NEW step \in Int,
           bounds[1] < bounds[2], step > 0
    PROVE  Axis(bounds, step) =
             {GridPoint(bounds, step, k) : k \in 0..(GridSize(bounds, step) - 1)}
<1> DEFINE lo == bounds[1]
           hi == bounds[2]
           y  == 2 * (hi - lo) + step + 2 * step - 1
           d  == 2 * step
           g  == GridSize(bounds, step)
<1>1. lo \in Int /\ hi \in Int /\ y \in Int /\ d \in Int /\ d > 0
  OBVIOUS
<1>2. g = y \div d
  BY DEF GridSize
<1>3. g \in Int /\ d * g <= y /\ y < d * g + d
  BY <1>1, <1>2, Quotients
<1> HIDE DEF g
<1>4. ASSUME NEW k \in 0..(g - 1)
      PROVE  GridPoint(bounds, step, k) \in Axis(bounds, step)
  <2> DEFINE x == GridPoint(bounds, step, k)
  <2>1. x = lo + k * step /\ k * step \in Int /\ k * step >= 0
    BY DEF GridPoint
  <2> HIDE DEF x
  <2>2. d * (g - 1 - k) >= 0 /\ d * (g - 1 - k) = d * g - d - d * k /\ d * g \in Int
    BY <1>1, <1>3
  <2>3. d * k = 2 * (k * step)
    OBVIOUS
  <2>4. 2 * (k * step) <= y - d
    BY <1>1, <1>3, <2>1, <2>2, <2>3
  <2>5. 2 * (x - hi) < step
    BY <1>1, <2>1, <2>4
  <2>6. x \in Int /\ lo <= x /\ x <= hi + step
    BY <1>1, <2>1, <2>5
  <2>7. (x - lo) % step = 0
    <3>1. x - lo = step * k /\ x - lo \in Int
      BY <1>1, <2>1
    <3> DEFINE z == x - lo
    <3>2. k \in Int /\ z \in Int /\ step * k \in Int /\ z = step * k
      BY <2>1, <3>1
    <3> HIDE DEF z
    <3>3. step * k <= z /\ z < step * k + step /\ z - step * k = 0
      BY <3>2
    <3>4. z % step = 0
      BY <3>2, <3>3, QuotientIs
    <3> QED
      BY <3>4 DEF z
  <2> QED
    BY <2>5, <2>6, <2>7 DEF Axis, x
<1>5. ASSUME NEW x \in Axis(bounds, step)
      PROVE  \E k \in 0..(g - 1) : x = GridPoint(bounds, step, k)
  <2> DEFINE k == (x - lo) \div step
  <2>1. x \in Int /\ lo <= x /\ (x - lo) % step = 0 /\ 2 * (x - hi) < step
    BY <1>1 DEF Axis
  <2>2. k \in Int /\ x - lo = step * k
    BY <1>1, <2>1, Quotients
  <2>3. k >= 0
    <3>1. step * 0 <= x - lo /\ x - lo \in Int
      BY <1>1, <2>1
    <3> QED
      BY <3>1, QuotientAtLeast
  <2> HIDE DEF k
  <2>4. k < g
    <3> SUFFICES ASSUME k >= g PROVE FALSE
      BY <1>3, <2>2
    <3>1. d * (k - g) >= 0 /\ d * (k - g) = d * k - d * g /\ d * k \in Int /\ d * g \in Int
      BY <1>1, <1>3, <2>2
    <3>2. d * k = 2 * (step * k) /\ step * k \in Int
      <4>1. (2 * step) * k = 2 * (step * k) /\ step * k \in Int
        BY <2>2
      <4> QED
        BY <4>1
    <3>3. 2 * (step * k) < 2 * (hi - lo) + step
      BY <1>1, <2>1, <2>2
    <3> QED
      BY <1>1, <1>3, <3>1, <3>2, <3>3
  <2>5. x = GridPoint(bounds, step, k)
    BY <1>1, <2>1, <2>2 DEF GridPoint
  <2> QED
    BY <1>3, <2>2, <2>3, <2>4, <2>5
<1> QED
  BY <1>4, <1>5 DEF g

(* The combinations are the triples of the axes, each once.                   *)
LEMMA CombinationsAreTheGrid ==
    ASSUME NEW s \in Spaces, ~SpaceFails(s)
    PROVE  LET outer == Axis(s.outer_bounds, s.outer_step)
               metal == Axis(s.metal_bounds, s.metal_step)
           IN /\ Combinations(s) \in Nat
              /\ {Combination(s, n) : n \in 0..(Combinations(s) - 1)}
                   = {<<a, b, c>> : a \in outer, b \in metal, c \in outer}
              /\ \A k, l \in 0..(Combinations(s) - 1) :
                    Combination(s, k) = Combination(s, l) => k = l
<1> DEFINE o == OuterSize(s)
           m == MetalSize(s)
           p(k) == GridPoint(s.outer_bounds, s.outer_step, k)
           q(k) == GridPoint(s.metal_bounds, s.metal_step, k)
           outer == Axis(s.outer_bounds, s.outer_step)
           metal == Axis(s.metal_bounds, s.metal_step)
<1>1. /\ o \in Int /\ o >= 1 /\ m \in Int /\ m >= 1
      /\ s.outer_step > 0 /\ s.metal_step > 0
  BY Sizes
<1>2. /\ s.outer_bounds \in Int \X Int /\ s.outer_step \in Int
      /\ s.metal_bounds \in Int \X Int /\ s.metal_step \in Int
      /\ s.outer_bounds[1] < s.outer_bounds[2]
      /\ s.metal_bounds[1] < s.metal_bounds[2]
  BY DEF Spaces, SpaceFails, RangesFail
<1>3. outer = {p(k) : k \in 0..(o - 1)} /\ metal = {q(k) : k \in 0..(m - 1)}
  BY <1>1, <1>2, GridIsAxis DEF OuterSize, MetalSize
<1>4. ASSUME NEW k \in Int, NEW l \in Int
      PROVE  (p(k) = p(l) => k = l) /\ (q(k) = q(l) => k = l)
  BY <1>1, <1>2, PointsDiffer
<1>5. Combinations(s) = o * m * o
  BY DEF Combinations
<1>6. ASSUME NEW n
      PROVE  Combination(s, n) = <<p(n \div (m * o)), q((n \div o) % m), p(n % o)>>
  BY DEF Combination
<1> HIDE DEF o, m, p, q, outer, metal
<1>7. o * m * o \in Nat
  <2>1. o * m \in Int /\ o * m >= 1
    BY <1>1, Products
  <2> QED
    BY <1>1, <2>1, Products
<1>8. ASSUME NEW n \in 0..(o * m * o - 1)
      PROVE  \E a \in outer, b \in metal, c \in outer : Combination(s, n) = <<a, b, c>>
  <2>1. /\ n \div (m * o) \in 0..(o - 1)
        /\ (n \div o) % m \in 0..(m - 1)
        /\ n % o \in 0..(o - 1)
    BY <1>1, RadixDigits
  <2> QED
    BY <2>1, <1>3, <1>6
<1>9. ASSUME NEW a \in outer, NEW b \in metal, NEW c \in outer
      PROVE  \E n \in 0..(o * m * o - 1) : <<a, b, c>> = Combination(s, n)
  <2>1. PICK i \in 0..(o - 1) : a = p(i)
    BY <1>3
  <2>2. PICK j \in 0..(m - 1) : b = q(j)
    BY <1>3
  <2>3. PICK k \in 0..(o - 1) : c = p(k)
    BY <1>3
  <2>4. PICK n \in 0..(o * m * o - 1) :
           n \div (m * o) = i /\ (n \div o) % m = j /\ n % o = k
    <3>1. HasNumber(o, m, i, j, k)
      BY <1>1, DigitsOf
    <3> QED
      BY <3>1 DEF HasNumber
  <2> QED
    BY <2>1, <2>2, <2>3, <2>4, <1>6
<1>10. ASSUME NEW k \in 0..(o * m * o - 1), NEW l \in 0..(o * m * o - 1),
              Combination(s, k) = Combination(s, l)
       PROVE  k = l
  <2>1. /\ k \div (m * o) \in 0..(o - 1) /\ l \div (m * o) \in 0..(o - 1)
        /\ (k \div o) % m \in 0..(m - 1) /\ (l \div o) % m \in 0..(m - 1)
        /\ k % o \in 0..(o - 1) /\ l % o \in 0..(o - 1)
        /\ k = (k \div (m * o)) * (m * o) + ((k \div o) % m) * o + (k % o)
        /\ l = (l \div (m * o)) * (m * o) + ((l \div o) % m) * o + (l % o)
    BY <1>1, RadixDigits
  <2>2. /\ p(k \div (m * o)) = p(l \div (m * o))
        /\ q((k \div o) % m) = q((l \div o) % m)
        /\ p(k % o) = p(l % o)
    BY <1>6, <1>10
  <2>3. /\ k \div (m * o) = l \div (m * o)
        /\ (k \div o) % m = (l \div o) % m
        /\ k % o = l % o
    BY <2>1, <2>2, <1>4
  <2> QED
    BY <2>1, <2>3
<1>11. {Combination(s, n) : n \in 0..(o * m * o - 1)}
         = {<<a, b, c>> : a \in outer, b \in metal, c \in outer}
  BY <1>8, <1>9
<1>12. Combinations(s) \in Nat
  BY <1>5, <1>7
<1>13. \A k, l \in 0..(Combinations(s) - 1) :
          Combination(s, k) = Combination(s, l) => k = l
  BY <1>5, <1>10
<1>14. {Combination(s, n) : n \in 0..(Combinations(s) - 1)}
         = {<<a, b, c>> : a \in outer, b \in metal, c \in outer}
  BY <1>5, <1>11
<1> QED
  BY <1>12, <1>13, <1>14 DEF outer, metal

(* The scan goes through the combinations in their order, and the report is  *)
(* made when it has been through all of them.                                *)
InOrder ==
    /\ config \in Spaces
    /\ ~SpaceFails(config)
    /\ scanned \in Seq(Points(config, target))
    /\ Len(scanned) <= Combinations(config)
    /\ \A n \in 1..Len(scanned) :
          scanned[n].thicknesses = Combination(config, n - 1)

OrderInv ==
    /\ phase \in {"idle", "scanning", "refused", "exhausted"} => report = None
    /\ phase \in {"scanning", "analysing", "done", "lost"} => InOrder
    /\ report # None => /\ phase \in {"analysing", "done", "lost"}
                        /\ Len(scanned) = Combinations(config)
                        /\ report.n_scanned = Combinations(config)

(* Nothing is scanned at the start.                                           *)
LEMMA OrderInit == SearchInit => OrderInv
  BY DEF SearchInit, OrderInv

(* Every step keeps OrderInv.                                                 *)
LEMMA OrderStep ==
    ScanInv /\ OrderInv /\ [SearchNext]_searchVars => OrderInv'
<1> SUFFICES ASSUME ScanInv, OrderInv, [SearchNext]_searchVars PROVE OrderInv'
  OBVIOUS
<1>1. ASSUME NEW j \in Jobs, Ask(j) PROVE OrderInv'
  <2>1. scanned' = << >> /\ report = None /\ report' = None
    BY <1>1 DEF Ask, ScanInv, OrderInv
  <2>2. phase' \in {"refused", "exhausted", "scanning"} /\ config' \in Spaces
        /\ (phase' = "scanning" => ~SpaceFails(config'))
    BY <1>1, JobsAssumption DEF Ask
  <2>3. phase' = "scanning" => Combinations(config') \in Nat
    BY <2>2, CombinationsAreTheGrid
  <2>4. scanned' \in Seq(Points(config', target')) /\ Len(scanned') = 0
    BY <2>1
  <2>5. phase' = "scanning" => InOrder'
    BY <2>2, <2>3, <2>4 DEF InOrder
  <2> QED
    BY <2>1, <2>2, <2>5 DEF OrderInv
<1>2. ASSUME EvaluateNext PROVE OrderInv'
  <2> DEFINE n == Len(scanned)
             ts == Combination(config, n)
  <2>1. /\ phase = "scanning" /\ report = None /\ report' = None
        /\ config' = config /\ target' = target
        /\ n < Combinations(config) /\ InOrder
    BY <1>2 DEF EvaluateNext, OrderInv
  <2>2. CASE phase' = "refused"
    BY <2>1, <2>2 DEF OrderInv
  <2>3. CASE phase' = phase /\ scanned' = Append(scanned, EvaluateAt(ts))
    <3>1. scanned \in Seq(Points(config, target)) /\ n \in Nat
      BY <2>1 DEF InOrder
    <3>2. EvaluateAt(ts) \in Points(config, target) /\ EvaluateAt(ts).thicknesses = ts
      BY <3>1 DEF EvaluateAt, Points, Evaluate
    <3>3. /\ scanned' \in Seq(Points(config, target)) /\ Len(scanned') = n + 1
          /\ \A k \in 1..n : scanned'[k] = scanned[k]
          /\ scanned'[n + 1] = EvaluateAt(ts)
      BY <2>3, <3>1, <3>2
    <3>4. Combinations(config) \in Nat
      BY <2>1, CombinationsAreTheGrid DEF InOrder
    <3>5. ASSUME NEW k \in 1..Len(scanned')
          PROVE  scanned'[k].thicknesses = Combination(config, k - 1)
      <4>1. CASE k \in 1..n
        BY <2>1, <3>3, <4>1 DEF InOrder
      <4>2. CASE k = n + 1
        <5>1. k - 1 = n
          BY <3>1, <4>2
        <5> QED
          BY <3>2, <3>3, <4>2, <5>1
      <4> QED
        BY <3>1, <3>3, <4>1, <4>2
    <3>6. InOrder'
      BY <2>1, <3>1, <3>3, <3>4, <3>5 DEF InOrder
    <3> QED
      BY <2>1, <2>3, <3>6 DEF OrderInv
  <2> QED
    BY <1>2, <2>2, <2>3 DEF EvaluateNext
<1>3. ASSUME Rank PROVE OrderInv'
  <2>1. /\ phase = "scanning" /\ phase' \in {"analysing", "done"} /\ InOrder
        /\ Len(scanned) = Combinations(config)
        /\ report'.n_scanned = Combinations(config)
        /\ UNCHANGED <<config, target, scanned>>
    BY <1>3 DEF Rank, OrderInv
  <2>2. InOrder'
    BY <2>1 DEF InOrder
  <2> QED
    BY <2>1, <2>2 DEF OrderInv
<1>4. ASSUME AnalyseLayer PROVE OrderInv'
  <2>1. /\ phase = "analysing" /\ phase' \in {"analysing", "done", "lost"} /\ InOrder
        /\ UNCHANGED <<config, target, scanned, report>>
    BY <1>4 DEF AnalyseLayer, OrderInv
  <2>2. InOrder'
    BY <2>1 DEF InOrder
  <2> QED
    BY <2>1, <2>2 DEF OrderInv
<1>5. ASSUME Return PROVE OrderInv'
  BY <1>5 DEF Return, OrderInv
<1>6. ASSUME UNCHANGED searchVars PROVE OrderInv'
  BY <1>6 DEF searchVars, OrderInv, InOrder
<1> QED
  BY <1>1, <1>2, <1>3, <1>4, <1>5, <1>6 DEF SearchNext, SearchStep

(* A scan in order that has ended has visited the grid.                       *)
LEMMA OrderIsTheGrid == OrderInv => ScanIsTheGrid
<1> SUFFICES ASSUME OrderInv, report # None PROVE ScanIsTheGrid
  BY DEF ScanIsTheGrid
<1> DEFINE outer == Axis(config.outer_bounds, config.outer_step)
           metal == Axis(config.metal_bounds, config.metal_step)
           N == Combinations(config)
<1>1. InOrder /\ Len(scanned) = N /\ report.n_scanned = N
  BY DEF OrderInv
<1>2. /\ N \in Nat
      /\ {Combination(config, n) : n \in 0..(N - 1)}
           = {<<a, b, c>> : a \in outer, b \in metal, c \in outer}
      /\ \A k, l \in 0..(N - 1) :
            Combination(config, k) = Combination(config, l) => k = l
  BY <1>1, CombinationsAreTheGrid DEF InOrder
<1>3. DOMAIN scanned = 1..N
  BY <1>1 DEF InOrder
<1> HIDE DEF outer, metal, N
<1>4. \A n \in 1..N : scanned[n].thicknesses = Combination(config, n - 1)
  BY <1>1 DEF InOrder
<1>5. {scanned[n].thicknesses : n \in 1..N} = {Combination(config, n) : n \in 0..(N - 1)}
  <2>1. \A n \in 1..N : n - 1 \in 0..(N - 1)
    BY <1>2
  <2>2. \A n \in 0..(N - 1) : n + 1 \in 1..N /\ (n + 1) - 1 = n
    BY <1>2
  <2>3. ASSUME NEW n \in 0..(N - 1)
        PROVE  scanned[n + 1].thicknesses = Combination(config, n)
    BY <2>2, <1>4
  <2> QED
    BY <1>4, <2>1, <2>2, <2>3
<1>6. ASSUME NEW k \in 1..N, NEW l \in 1..N,
             scanned[k].thicknesses = scanned[l].thicknesses
      PROVE  k = l
  <2>1. k - 1 \in 0..(N - 1) /\ l - 1 \in 0..(N - 1)
    BY <1>2
  <2>2. k - 1 = l - 1
    BY <1>2, <1>4, <1>6, <2>1
  <2> QED
    BY <1>2, <2>2
<1>7. {scanned[n].thicknesses : n \in DOMAIN scanned}
        = {<<a, b, c>> : a \in outer, b \in metal, c \in outer}
  BY <1>2, <1>3, <1>5
<1>8. \A k, l \in DOMAIN scanned :
         k # l => scanned[k].thicknesses # scanned[l].thicknesses
  BY <1>3, <1>6
<1> QED
  BY <1>1, <1>7, <1>8 DEF ScanIsTheGrid, outer, metal

(* A report speaks of the whole grid: the scan has evaluated every           *)
(* combination of the points between the bounds, and none twice              *)
(* (search_designs), for every space that __post_init__ lets through.        *)
THEOREM ScansTheGrid == SearchSpec => []ScanIsTheGrid
<1> QED
  BY ScanInit, ScanStep, OrderInit, OrderStep, OrderIsTheGrid, PTL DEF SearchSpec
-----------------------------------------------------------------------------
(* What the search has found is what its request makes it find: the metrics  *)
(* of a combination depend on its number, the report on the metrics, and the *)
(* analysis of a layer on the report.                                        *)

Past == {"analysing", "done", "lost"}

Good == {scanned[n] : n \in feasible}

FromScan ==
    [n_scanned   |-> Combinations(config),
     n_feasible  |-> Cardinality(feasible),
     candidates  |-> Best(Good, config.top_n),
     best_effort |-> LET best == Best(Range(scanned), 1)[1]
                     IN IF Fom(best) = -1 THEN None ELSE best]

ScanResults ==
    /\ config \in {ConfigOf(j) : j \in Jobs}
    /\ \A n \in 1..Len(scanned) :
          /\ scanned[n] = EvaluateAt(Combination(config, n - 1))
          /\ ~FailsAt(Combination(config, n - 1))
    /\ feasible = {n \in 1..Len(scanned) : Satisfies(scanned[n], target)}

LayerResults ==
    /\ layers \in Seq({Sensitivity(i) : i \in 1..3})
    /\ \A k \in 1..Len(layers) : layers[k] = Sensitivity(k) /\ ~LayerFails(k)
    /\ phase \in {"analysing", "lost"} => Len(layers) < 3
    /\ phase = "lost" => LayerFails(Len(layers) + 1)
    /\ layers # << >> \/ phase \in {"analysing", "lost"}
          => sensitivity /\ report.candidates # << >>

ResultInv ==
    /\ phase \in {"idle", "scanning", "refused", "exhausted"} \cup Past
    /\ phase \in {"idle", "refused", "exhausted"} => feasible = {}
    /\ phase \in {"idle", "refused", "exhausted", "scanning"} => layers = << >>
    /\ phase \in {"scanning"} \cup Past => ScanResults
    /\ phase \in Past => /\ report = FromScan /\ LayerResults
                         /\ Len(scanned) = Combinations(config)

(* There are no results at the start.                                         *)
LEMMA ResultInit == SearchInit => ResultInv
  BY DEF SearchInit, ResultInv, Past

(* Nothing that is computed from the request and the report changes while    *)
(* these do not.                                                             *)
LEMMA SameEvaluation ==
    ASSUME UNCHANGED <<config, target>>
    PROVE  \A ts : EvaluateAt(ts)' = EvaluateAt(ts) /\ FailsAt(ts)' = FailsAt(ts)
  BY DEF EvaluateAt, FailsAt

(* The probes of the tolerances among them.                                   *)
LEMMA SameProbes ==
    ASSUME UNCHANGED <<config, target, report>>
    PROVE  \A i, d : /\ Stops(i, d)' = Stops(i, d)
                     /\ Reach(i, d)' = Reach(i, d)
                     /\ ReachFails(i, d)' = ReachFails(i, d)
<1> TAKE i, d
<1>1. Nominal' = Nominal
  BY DEF Nominal
<1>2. \A o : Probe(i, d, o)' = Probe(i, d, o)
  BY <1>1, SameEvaluation DEF Probe
<1>3. Stops(i, d)' = Stops(i, d)
  BY <1>2 DEF Stops
<1>4. Reach(i, d)' = Reach(i, d)
  BY <1>3 DEF Reach
<1>5. ReachFails(i, d)' = ReachFails(i, d)
  BY <1>2, <1>3 DEF ReachFails
<1> QED
  BY <1>3, <1>4, <1>5

(* The analysis of a layer among them.                                        *)
LEMMA SameAnalysis ==
    ASSUME UNCHANGED <<config, target, report>>
    PROVE  \A i : Sensitivity(i)' = Sensitivity(i) /\ LayerFails(i)' = LayerFails(i)
<1> TAKE i
<1>1. Nominal' = Nominal
  BY DEF Nominal
<1>2. Plus(i)' = Plus(i) /\ Minus(i)' = Minus(i) /\ HasMinus(i)' = HasMinus(i)
  BY <1>1 DEF Plus, Minus, HasMinus
<1>3. LayerFails(i)' = LayerFails(i)
  BY <1>2, SameEvaluation, SameProbes DEF LayerFails
<1>4. \A p, m : Quotient(p, m, i)' = Quotient(p, m, i)
  BY <1>2 DEF Quotient
<1>5. Sensitivity(i)' = Sensitivity(i)
  BY <1>1, <1>2, <1>4, SameEvaluation, SameProbes DEF Sensitivity
<1> QED
  BY <1>3, <1>5

(* What was scanned stays what its combinations evaluate to.                  *)
LEMMA SameResults ==
    ASSUME UNCHANGED <<config, target, scanned, feasible>>, ScanResults
    PROVE  ScanResults'
<1>1. \A ts : EvaluateAt(ts)' = EvaluateAt(ts) /\ FailsAt(ts)' = FailsAt(ts)
  BY SameEvaluation
<1>2. \A n \in 1..Len(scanned)' :
          /\ scanned'[n] = EvaluateAt(Combination(config, n - 1))'
          /\ ~FailsAt(Combination(config, n - 1))'
  BY <1>1 DEF ScanResults
<1> QED
  BY <1>2 DEF ScanResults

(* Every step keeps ResultInv.                                                *)
LEMMA ResultStep ==
    ScanInv /\ OrderInv /\ ResultInv /\ [SearchNext]_searchVars => ResultInv'
<1> SUFFICES ASSUME ScanInv, OrderInv, ResultInv, [SearchNext]_searchVars
             PROVE  ResultInv'
  OBVIOUS
<1>1. ASSUME NEW j \in Jobs, Ask(j) PROVE ResultInv'
  <2>1. /\ phase = "idle" /\ phase' \in {"refused", "exhausted", "scanning"}
        /\ scanned' = << >> /\ feasible' = {} /\ layers' = << >>
        /\ config' = ConfigOf(j)
    BY <1>1 DEF Ask, ScanInv, ResultInv
  <2>2. 1..Len(scanned') = {}
    BY <2>1
  <2>3. ScanResults'
    BY <2>1, <2>2 DEF ScanResults
  <2> QED
    BY <2>1, <2>3 DEF ResultInv, Past
<1>2. ASSUME EvaluateNext PROVE ResultInv'
  <2> DEFINE N == Len(scanned)
             ts == Combination(config, N)
  <2>1. /\ phase = "scanning" /\ ScanResults /\ layers = << >> /\ InOrder
        /\ UNCHANGED <<target, config, sensitivity, report, layers>>
    BY <1>2 DEF EvaluateNext, ResultInv, OrderInv
  <2>2. N \in Nat /\ scanned \in Seq(Points(config, target))
    BY <2>1 DEF InOrder
  <2>3. CASE FailsAt(ts) /\ phase' = "refused" /\ UNCHANGED <<scanned, feasible>>
    <3>1. scanned = << >>
      BY <1>2, <2>3, ScanStep DEF ScanInv, SearchNext, SearchStep
    <3>2. feasible' = {}
      BY <2>1, <2>3, <3>1 DEF ScanResults
    <3> QED
      BY <2>1, <2>3, <3>2 DEF ResultInv, Past
  <2>4. CASE /\ ~FailsAt(ts) /\ phase' = phase
             /\ scanned' = Append(scanned, EvaluateAt(ts))
             /\ feasible' = IF Satisfies(EvaluateAt(ts), target)
                            THEN feasible \cup {N + 1} ELSE feasible
    <3>1. EvaluateAt(ts) \in Points(config, target)
      BY <2>2 DEF EvaluateAt, Points
    <3>2. /\ Len(scanned') = N + 1 /\ scanned'[N + 1] = EvaluateAt(ts)
          /\ \A k \in 1..N : scanned'[k] = scanned[k]
      BY <2>2, <2>4, <3>1
    <3>3. ASSUME NEW n \in 1..Len(scanned')
          PROVE  /\ scanned'[n] = EvaluateAt(Combination(config, n - 1))
                 /\ ~FailsAt(Combination(config, n - 1))
      <4>1. CASE n \in 1..N
        BY <2>1, <3>2, <4>1 DEF ScanResults
      <4>2. CASE n = N + 1
        <5>1. n - 1 = N
          BY <2>2, <4>2
        <5> QED
          BY <2>4, <3>2, <4>2, <5>1
      <4> QED
        BY <2>2, <3>2, <4>1, <4>2
    <3>4. feasible' = {n \in 1..Len(scanned') : Satisfies(scanned'[n], target)}
      <4>1. feasible = {n \in 1..N : Satisfies(scanned[n], target)}
        BY <2>1 DEF ScanResults
      <4>2. 1..(N + 1) = 1..N \cup {N + 1} /\ N + 1 \notin 1..N
        BY <2>2
      <4> HIDE DEF N, ts
      <4> QED
        BY <2>4, <3>2, <4>1, <4>2
    <3>5. \A t : EvaluateAt(t)' = EvaluateAt(t) /\ FailsAt(t)' = FailsAt(t)
      BY <2>1, SameEvaluation
    <3>6. ScanResults'
      <4>1. config' \in {ConfigOf(j) : j \in Jobs}
        BY <2>1 DEF ScanResults
      <4>2. \A n \in 1..Len(scanned') :
               /\ scanned'[n] = EvaluateAt(Combination(config, n - 1))'
               /\ ~FailsAt(Combination(config, n - 1))'
        BY <2>1, <3>3, <3>5
      <4> QED
        BY <2>1, <3>4, <4>1, <4>2 DEF ScanResults
    <3> QED
      BY <2>1, <2>4, <3>6 DEF ResultInv, Past
  <2> QED
    BY <1>2, <2>3, <2>4 DEF EvaluateNext
<1>3. ASSUME Rank PROVE ResultInv'
  <2>1. /\ phase = "scanning" /\ phase' \in {"analysing", "done"} /\ ScanResults
        /\ layers = << >>
        /\ UNCHANGED <<target, config, sensitivity, scanned, feasible, layers>>
        /\ report' = FromScan /\ Len(scanned) = Combinations(config)
        /\ phase' = "analysing" => sensitivity /\ report'.candidates # << >>
    BY <1>3 DEF Rank, ResultInv, FromScan, Good
  <2>2. report' = FromScan'
    BY <2>1 DEF FromScan, Good
  <2>3. ScanResults'
    BY <2>1, SameResults
  <2>4. LayerResults'
    <3>1. layers' = << >> /\ Len(layers') = 0
      BY <2>1
    <3> QED
      BY <2>1, <3>1 DEF LayerResults
  <2> QED
    BY <2>1, <2>2, <2>3, <2>4 DEF ResultInv, Past
<1>4. ASSUME AnalyseLayer PROVE ResultInv'
  <2> DEFINE i == Len(layers) + 1
  <2>1. /\ phase = "analysing" /\ phase' \in Past
        /\ ScanResults /\ report = FromScan /\ LayerResults
        /\ Len(scanned) = Combinations(config)
        /\ UNCHANGED <<target, config, sensitivity, scanned, feasible, report>>
    BY <1>4 DEF AnalyseLayer, ResultInv, Past
  <2>2. ScanResults'
    BY <2>1, SameResults
  <2>3. report' = FromScan'
    BY <2>1 DEF FromScan, Good
  <2>4. \A k : Sensitivity(k)' = Sensitivity(k) /\ LayerFails(k)' = LayerFails(k)
    BY <2>1, SameAnalysis
  <2>5. /\ layers \in Seq({Sensitivity(k) : k \in 1..3}) /\ Len(layers) \in Nat
        /\ Len(layers) < 3 /\ i \in 1..3
        /\ sensitivity' /\ report'.candidates # << >>
        /\ {Sensitivity(k) : k \in 1..3}' = {Sensitivity(k) : k \in 1..3}
    BY <2>1, <2>4 DEF LayerResults
  <2>6. CASE LayerFails(i) /\ phase' = "lost" /\ UNCHANGED layers
    <3>1. \A k \in 1..Len(layers') : layers'[k] = Sensitivity(k)' /\ ~LayerFails(k)'
      BY <2>1, <2>4, <2>6 DEF LayerResults
    <3>2. \A k : k = Len(layers') + 1 => LayerFails(k)'
      BY <2>4, <2>6
    <3>3. LayerFails(Len(layers) + 1)'
      BY <3>2
    <3>4. LayerResults'
      BY <2>5, <2>6, <3>1, <3>3 DEF LayerResults
    <3> QED
      BY <2>1, <2>2, <2>3, <2>6, <3>4 DEF ResultInv, Past
  <2>7. CASE /\ ~LayerFails(i) /\ layers' = Append(layers, Sensitivity(i))
             /\ phase' = IF i = 3 THEN "done" ELSE "analysing"
    <3>1. /\ layers' \in Seq({Sensitivity(k) : k \in 1..3})
          /\ Len(layers') = i /\ layers'[i] = Sensitivity(i)
          /\ \A k \in 1..Len(layers) : layers'[k] = layers[k]
      <4>1. Sensitivity(i) \in {Sensitivity(k) : k \in 1..3}
        BY <2>5
      <4> QED
        BY <2>5, <2>7, <4>1
    <3>2. ASSUME NEW k \in 1..Len(layers')
          PROVE  layers'[k] = Sensitivity(k)' /\ ~LayerFails(k)'
      <4>1. k \in 1..Len(layers) \/ k = i
        BY <2>5, <3>1
      <4> QED
        BY <2>1, <2>4, <2>7, <3>1, <4>1 DEF LayerResults
    <3>3. phase' = "analysing" => Len(layers') < 3
      BY <2>5, <2>7, <3>1
    <3>4. LayerResults'
      BY <2>5, <2>7, <3>1, <3>2, <3>3 DEF LayerResults
    <3> QED
      BY <2>1, <2>2, <2>3, <2>7, <3>4 DEF ResultInv, Past
  <2> QED
    BY <1>4, <2>6, <2>7 DEF AnalyseLayer
<1>5. ASSUME Return PROVE ResultInv'
  BY <1>5 DEF Return, ResultInv, Past
<1>6. ASSUME UNCHANGED searchVars PROVE ResultInv'
  <2>1. UNCHANGED <<phase, target, config, sensitivity, scanned, feasible, report, layers>>
    BY <1>6 DEF searchVars
  <2>2. ScanResults => ScanResults'
    BY <2>1, SameResults
  <2>3. \A k : Sensitivity(k)' = Sensitivity(k) /\ LayerFails(k)' = LayerFails(k)
    BY <2>1, SameAnalysis
  <2>4. LayerResults => LayerResults'
    <3>1. {Sensitivity(k) : k \in 1..3}' = {Sensitivity(k) : k \in 1..3}
      BY <2>3
    <3> QED
      BY <2>1, <2>3, <3>1 DEF LayerResults
  <2>5. FromScan' = FromScan
    BY <2>1 DEF FromScan, Good
  <2> QED
    BY <2>1, <2>2, <2>4, <2>5 DEF ResultInv
<1> QED
  BY <1>1, <1>2, <1>3, <1>4, <1>5, <1>6 DEF SearchNext, SearchStep
-----------------------------------------------------------------------------
(* The numbers of the physics. *)

(* The image of a finite set is finite.                                       *)
LEMMA ImageIsFinite ==
    ASSUME NEW S, IsFiniteSet(S), NEW f
    PROVE  IsFiniteSet({f[x] : x \in S})
<1> DEFINE T == {f[x] : x \in S}
           g == [x \in S |-> f[x]]
<1>1. g \in Surjection(S, T)
  BY DEF Surjection
<1> HIDE DEF T, g
<1>2. IsFiniteSet(T)
  BY <1>1, FS_Surjection
<1> QED
  BY <1>2 DEF T

(* So is an interval.                                                         *)
LEMMA IntervalIsFinite ==
    \A a, b \in Int : IsFiniteSet(a..b)
  BY FS_Interval

(* The frequencies are finitely many.                                         *)
LEMMA FrequenciesAreFinite ==
    /\ IsFiniteSet(Frequencies)
    /\ \A x \in Frequencies : x > 0
<1> DEFINE f == [k \in 1..18 |-> 10 * k]
<1>1. Frequencies = {f[k] : k \in 1..18}
  BY DEF Frequencies
<1>2. IsFiniteSet(1..18)
  <2> DEFINE lo == 1
             hi == 18
  <2>1. lo \in Int /\ hi \in Int
    OBVIOUS
  <2> HIDE DEF lo, hi
  <2>2. IsFiniteSet(lo..hi)
    BY <2>1, IntervalIsFinite
  <2> QED
    BY <2>2 DEF lo, hi
<1>3. IsFiniteSet({f[k] : k \in 1..18})
  <2> HIDE DEF f
  <2> QED
    BY <1>2, ImageIsFinite
<1>4. \A x \in Frequencies : x > 0
  BY DEF Frequencies
<1> QED
  BY <1>1, <1>3, <1>4

(* The visible wavelengths are finitely many, and there is one.               *)
LEMMA VisibleIsFinite ==
    /\ IsFiniteSet(Visible)
    /\ Cardinality(Visible) \in Nat
    /\ Cardinality(Visible) > 0
<1>1. IsFiniteSet(VisibleRange)
  <2> DEFINE lo == 400
             hi == 800
  <2>1. lo \in Int /\ hi \in Int /\ VisibleRange = lo..hi
    BY DEF VisibleRange
  <2> HIDE DEF lo, hi
  <2> QED
    BY <2>1, IntervalIsFinite
<1>2. Visible \in SUBSET VisibleRange /\ Visible # {}
  BY VisibleAssumption DEF Visible
<1>3. IsFiniteSet(Visible)
  BY <1>1, <1>2, FS_Subset
<1>4. Cardinality(Visible) \in Nat /\ Cardinality(Visible) # 0
  BY <1>2, <1>3, FS_CardinalityType, FS_EmptySet
<1> QED
  BY <1>3, <1>4

(* A sum of conductances is a number.                                         *)
LEMMA ConductanceIsNat ==
    ASSUME NEW stack, IsFiniteSet(DOMAIN stack), NEW substrate,
           GivesNumbers(stack, substrate)
    PROVE  SheetConductance(stack) \in Nat
<1> DEFINE S == {k \in Conductive(stack) : stack[k].thickness > 0}
           f == [i \in S |-> FilmConductance(stack[i].material, stack[i].thickness)]
<1>1. S \in SUBSET DOMAIN stack
  BY DEF Conductive
<1>2. IsFiniteSet(S)
  <2> HIDE DEF S
  <2> QED
    BY <1>1, FS_Subset
<1>3. \A i \in S : f[i] \in Nat
  BY DEF GivesNumbers
<1>4. DOMAIN f = S
  OBVIOUS
<1>5. SheetConductance(stack) = SumFunctionOnSet(f, S)
  BY <1>4 DEF SheetConductance, SumFunction
<1> HIDE DEF S, f
<1> QED
  BY <1>2, <1>3, <1>5, SumNat

(* An average of levels is a level.                                           *)
LEMMA AverageIsALevel ==
    ASSUME NEW stack, NEW substrate, GivesNumbers(stack, substrate)
    PROVE  VisibleAverage(stack, substrate) \in 0..5
<1> DEFINE f == Spectrum(stack, substrate, Visible)
           c == Cardinality(Visible)
           x == SumFunctionOnSet(f, Visible)
<1>1. DOMAIN f = Visible /\ \A w \in Visible : f[w] \in 0..5
  BY DEF Spectrum, GivesNumbers
<1>2. VisibleAverage(stack, substrate) = x \div c
  BY <1>1 DEF VisibleAverage, SumFunction
<1>3. c \in Nat /\ c > 0
  BY VisibleIsFinite
<1>4. x \in 0..(5 * c)
  <2> HIDE DEF f
  <2> QED
    BY <1>1, VisibleIsFinite, SumAtMost
<1> HIDE DEF x, c
<1>5. x \in Int /\ 0 <= x /\ x <= c * 5 /\ c * 0 <= x
  BY <1>3, <1>4
<1>6. x \div c \in Int /\ 0 <= x \div c
  BY <1>3, <1>5, Quotients, QuotientAtLeast
<1>7. x \div c <= 5
  <2> DEFINE q == x \div c
  <2>1. q \in Int /\ c * q <= x
    BY <1>3, <1>5, Quotients
  <2> HIDE DEF q
  <2>2. SUFFICES ASSUME q >= 6 PROVE FALSE
    BY <2>1 DEF q
  <2>3. c * (q - 6) >= 0
    BY <1>3, <2>1, <2>2
  <2>4. c * q >= c * 6
    BY <1>3, <2>1, <2>3
  <2> QED
    BY <1>3, <1>5, <2>1, <2>4
<1> QED
  BY <1>2, <1>6, <1>7

(* The least shielding of a band is attained in it.                           *)
LEMMA LeastShielding ==
    ASSUME NEW stack, NEW substrate, GivesNumbers(stack, substrate),
           NEW freqs \in SUBSET Frequencies, freqs # {}
    PROVE  LET se == ShieldingSpectrum(stack, freqs)
               least == Min({se[f] : f \in DOMAIN se})
           IN /\ least \in Int
              /\ \E f \in freqs : Shielding(ConductiveFilms(stack), f) = least
              /\ \A f \in freqs : Shielding(ConductiveFilms(stack), f) >= least
<1> DEFINE se == ShieldingSpectrum(stack, freqs)
           V == {se[f] : f \in freqs}
<1>1. DOMAIN se = freqs /\ \A f \in freqs : se[f] = Shielding(ConductiveFilms(stack), f)
  BY DEF ShieldingSpectrum
<1>2. IsFiniteSet(freqs)
  BY FrequenciesAreFinite, FS_Subset
<1>3. IsFiniteSet(V)
  <2> HIDE DEF se
  <2> QED
    BY <1>2, ImageIsFinite
<1>4. V \subseteq Int /\ V # {}
  BY <1>1 DEF GivesNumbers
<1>5. Min(V) \in V /\ Min(V) \in Int /\ \A y \in V : Min(V) <= y
  <2> HIDE DEF V
  <2> QED
    BY <1>3, <1>4, Least
<1>6. {se[f] : f \in DOMAIN se} = V
  BY <1>1
<1>7. \A f \in freqs : se[f] >= Min(V)
  <2>1. \A f \in freqs : se[f] \in V /\ se[f] \in Int
    BY <1>4
  <2> HIDE DEF V
  <2> QED
    BY <1>5, <2>1
<1>8. \E f \in freqs : se[f] = Min(V)
  BY <1>5
<1> HIDE DEF se, V
<1> QED
  BY <1>1, <1>5, <1>6, <1>7, <1>8 DEF se
-----------------------------------------------------------------------------
(* The metrics of a scan. *)

(* The stack of a combination, layer by layer.                                *)
LEMMA StackIs ==
    ASSUME NEW ts, NEW ms
    PROVE  /\ DOMAIN Stack(ts, ms) = 1..3
           /\ IsFiniteSet(DOMAIN Stack(ts, ms))
           /\ \A i \in 1..3 : /\ Stack(ts, ms)[i].material = ms[i]
                              /\ Stack(ts, ms)[i].thickness = ts[i]
<1>1. IsFiniteSet(1..3)
  <2> DEFINE hi == 3
  <2>1. hi \in Int
    OBVIOUS
  <2> HIDE DEF hi
  <2>2. IsFiniteSet(1..hi)
    BY <2>1, IntervalIsFinite
  <2> QED
    BY <2>2 DEF hi
<1> QED
  BY <1>1 DEF Stack, Film

(* What evaluate_candidate does not refuse, it gives metrics. *)
LEMMA EvaluatedIsMetrics ==
    ASSUME NEW ts \in [1..3 -> Nat], NEW ms, NEW substrate, NEW band,
           ~EvaluateFails(ts, ms, substrate, band),
           GivesNumbers(Stack(ts, ms), substrate)
    PROVE  Evaluate(ts, ms, substrate, band) \in Metrics
<1> DEFINE stack == Stack(ts, ms)
           freqs == InBand(band, Frequencies)
           se    == ShieldingSpectrum(stack, freqs)
           least == IF band = None \/ Conductive(stack) = {} THEN None
                    ELSE Min({se[f] : f \in DOMAIN se})
<1>1. VisibleAverage(stack, substrate) \in 0..5
  BY AverageIsALevel
<1>2. SheetConductanceOrNone(stack) \in Nat \cup {None}
  BY StackIs, ConductanceIsNat DEF SheetConductanceOrNone
<1>3. least \in Int \cup {None}
  <2>1. SUFFICES ASSUME band # None, Conductive(stack) # {} PROVE least \in Int
    OBVIOUS
  <2>2. freqs # {}
    BY <2>1 DEF EvaluateFails
  <2>3. freqs \in SUBSET Frequencies
    BY DEF InBand
  <2> HIDE DEF freqs, stack
  <2>4. Min({se[f] : f \in DOMAIN se}) \in Int
    BY <2>2, <2>3, LeastShielding DEF stack
  <2> HIDE DEF se
  <2> QED
    BY <2>1, <2>4
<1>4. Evaluate(ts, ms, substrate, band)
        = [thicknesses |-> ts, t_vis |-> VisibleAverage(stack, substrate),
           conductance |-> SheetConductanceOrNone(stack), se_min |-> least]
  BY DEF Evaluate
<1> HIDE DEF stack, least
<1> QED
  BY <1>1, <1>2, <1>3, <1>4 DEF Metrics

(* Each of the scanned metrics belongs to its combination.                    *)
LEMMA ScannedIs ==
    ASSUME InOrder, ScanResults, NEW n \in 1..Len(scanned)
    PROVE  LET ts    == Combination(config, n - 1)
               stack == Stack(ts, Materials(config))
           IN /\ scanned[n] = EvaluateAt(ts)
              /\ ~FailsAt(ts)
              /\ ts \in [1..3 -> Nat]
              /\ GivesNumbers(stack, config.substrate)
              /\ scanned[n] \in Metrics
              /\ scanned[n].thicknesses = ts
<1> DEFINE ts == Combination(config, n - 1)
           stack == Stack(ts, Materials(config))
<1>1. scanned[n] = EvaluateAt(ts) /\ ~FailsAt(ts)
  BY DEF ScanResults
<1>2. /\ config \in Spaces /\ ~SpaceFails(config) /\ Len(scanned) <= Combinations(config)
      /\ Len(scanned) \in Nat
  BY DEF InOrder
<1>3. Combinations(config) \in Nat
  BY <1>2, CombinationsAreTheGrid
<1>4. n - 1 \in Nat /\ n - 1 \in 0..(Combinations(config) - 1)
  BY <1>2, <1>3
<1>5. ts \in [1..3 -> Int]
  BY <1>2, <1>4, FirstIsThinnest
<1>6. \A i \in 1..3 : ts[i] >= 0
  <2>1. \A i \in 1..3 : ~(ts[i] < 0) /\ ts[i] \in Int
    BY <1>1, <1>5 DEF FailsAt, EvaluateFails
  <2> HIDE DEF ts
  <2> QED
    BY <2>1
<1>7. ts \in [1..3 -> Nat]
  <2> HIDE DEF ts
  <2> QED
    BY <1>5, <1>6
<1>8. config \in Searched
  BY <1>2 DEF ScanResults, Searched
<1>9. GivesNumbers(stack, config.substrate)
  BY <1>4, <1>6, <1>8, PhysicsAssumption
<1>10. scanned[n] \in Metrics
  <2> HIDE DEF ts
  <2> QED
    BY <1>1, <1>7, <1>9, EvaluatedIsMetrics DEF EvaluateAt, FailsAt
<1>11. scanned[n].thicknesses = ts
  BY <1>1 DEF EvaluateAt, Evaluate
<1> QED
  BY <1>1, <1>7, <1>9, <1>10, <1>11
-----------------------------------------------------------------------------
(* The ranking. *)

(* The figure of merit is a number, -1 only for what does not conduct.        *)
LEMMA FomIs ==
    ASSUME NEW m \in Metrics
    PROVE  /\ Fom(m) \in Int
           /\ Fom(m) >= -1
           /\ Fom(m) = -1 <=> m.conductance = None
<1>1. m.t_vis \in 0..5 /\ m.conductance \in Nat \cup {None}
  BY DEF Metrics
<1>2. Pow10(m.t_vis) \in Nat
  <2> DEFINE t == m.t_vis
  <2>1. t = 0 \/ t = 1 \/ t = 2 \/ t = 3 \/ t = 4 \/ t = 5
    BY <1>1
  <2> HIDE DEF t
  <2>2. Pow10(t) \in Nat
    BY <2>1 DEF Pow10
  <2> QED
    BY <2>2 DEF t
<1>3. CASE m.conductance = None
  BY <1>3 DEF Fom
<1>4. CASE m.conductance # None
  <2> DEFINE p == Pow10(m.t_vis)
             g == m.conductance
  <2>1. p \in Nat /\ g \in Nat /\ Fom(m) = p * g
    BY <1>1, <1>2, <1>4 DEF Fom
  <2> HIDE DEF p, g
  <2>2. p * g \in Nat
    BY <2>1
  <2> QED
    BY <1>4, <2>1, <2>2
<1> QED
  BY <1>3, <1>4

(* The order of the ranking, on a set of metrics no two of which have the    *)
(* same thicknesses.                                                         *)
Ranking(S) == {p \in S \X S : Before(p[1], p[2])}

Distinct(S) ==
    /\ S \subseteq Metrics
    /\ \A m, n \in S : m.thicknesses = n.thicknesses => m = n

(* Tuples of thicknesses are totally ordered, first difference first.         *)
LEMMA ThinnerIsAnOrder ==
    ASSUME NEW a \in [1..3 -> Nat], NEW b \in [1..3 -> Nat], NEW c \in [1..3 -> Nat]
    PROVE  /\ ~Thinner(a, a)
           /\ Thinner(a, b) /\ Thinner(b, c) => Thinner(a, c)
           /\ a = b \/ Thinner(a, b) \/ Thinner(b, a)
<1>1. \A i \in 1..3 : a[i] \in Nat /\ b[i] \in Nat /\ c[i] \in Nat
  OBVIOUS
<1>2. /\ a[1] \in Nat /\ a[2] \in Nat /\ a[3] \in Nat
      /\ b[1] \in Nat /\ b[2] \in Nat /\ b[3] \in Nat
      /\ c[1] \in Nat /\ c[2] \in Nat /\ c[3] \in Nat
  BY <1>1
<1>3. a[1] = b[1] /\ a[2] = b[2] /\ a[3] = b[3] => a = b
  <2>1. SUFFICES ASSUME a[1] = b[1], a[2] = b[2], a[3] = b[3] PROVE a = b
    OBVIOUS
  <2>2. \A i \in 1..3 : i = 1 \/ i = 2 \/ i = 3
    OBVIOUS
  <2>3. \A i \in 1..3 : a[i] = b[i]
    BY <2>1, <2>2
  <2> QED
    BY <2>3
<1> QED
  BY <1>2, <1>3 DEF Thinner

(* The ranking is a strict total order of metrics that differ in thicknesses. *)
LEMMA RankingIsAnOrder ==
    ASSUME NEW S, Distinct(S)
    PROVE  IsStrictOrder(Ranking(S), S)
<1>1. \A m \in S : Fom(m) \in Int /\ m.thicknesses \in [1..3 -> Nat]
  BY FomIs DEF Distinct, Metrics
<1>2. \A m, n \in S : <<m, n>> \in Ranking(S) <=> Before(m, n)
  BY DEF Ranking
<1>3. ASSUME NEW x \in S
      PROVE  ~Before(x, x)
  BY <1>1, ThinnerIsAnOrder DEF Before
<1>4. ASSUME NEW x \in S, NEW y \in S, NEW z \in S, Before(x, y), Before(y, z)
      PROVE  Before(x, z)
  <2>1. Fom(x) \in Int /\ Fom(y) \in Int /\ Fom(z) \in Int
    BY <1>1
  <2>2. Thinner(x.thicknesses, y.thicknesses) /\ Thinner(y.thicknesses, z.thicknesses)
          => Thinner(x.thicknesses, z.thicknesses)
    BY <1>1, ThinnerIsAnOrder
  <2> QED
    BY <1>4, <2>1, <2>2 DEF Before
<1>5. ASSUME NEW x \in S, NEW y \in S, x # y
      PROVE  Before(x, y) \/ Before(y, x)
  <2>1. Fom(x) \in Int /\ Fom(y) \in Int
    BY <1>1
  <2>2. Thinner(x.thicknesses, y.thicknesses) \/ Thinner(y.thicknesses, x.thicknesses)
    BY <1>1, <1>5, ThinnerIsAnOrder DEF Distinct
  <2> QED
    BY <2>1, <2>2 DEF Before
<1> QED
  BY <1>2, <1>3, <1>4, <1>5 DEF IsStrictOrder

(* Who comes before m in the ranking of S. *)
Rankers(S, m) == {x \in S : Before(x, m)}

(* The number of metrics before one is its rank.                              *)
LEMMA RankIs ==
    ASSUME NEW S, IsFiniteSet(S), Distinct(S), NEW m \in S, NEW n \in S
    PROVE  /\ Cardinality(Rankers(S, m)) \in 0..(Cardinality(S) - 1)
           /\ Before(m, n) <=> Cardinality(Rankers(S, m)) < Cardinality(Rankers(S, n))
           /\ Cardinality(Rankers(S, m)) = Cardinality(Rankers(S, n)) => m = n
<1>1. IsStrictOrder(Ranking(S), S)
  BY RankingIsAnOrder
<1>2. \A x \in S : Preceding(Ranking(S), S, x) = Rankers(S, x)
  BY DEF Preceding, Ranking, Rankers
<1>3. <<m, n>> \in Ranking(S) <=> Before(m, n)
  BY DEF Ranking
<1>4. \A x, y \in S :
         /\ Cardinality(Rankers(S, x)) \in 0..(Cardinality(S) - 1)
         /\ <<x, y>> \in Ranking(S) <=> Cardinality(Rankers(S, x)) < Cardinality(Rankers(S, y))
  BY <1>1, <1>2, RanksAreOrdered
<1>5. ASSUME Cardinality(Rankers(S, m)) = Cardinality(Rankers(S, n)), m # n
      PROVE  FALSE
  <2>1. <<m, n>> \in Ranking(S) \/ <<n, m>> \in Ranking(S)
    BY <1>1, <1>5 DEF IsStrictOrder
  <2>2. /\ Cardinality(Rankers(S, m)) < Cardinality(Rankers(S, n))
           \/ Cardinality(Rankers(S, n)) < Cardinality(Rankers(S, m))
        /\ Cardinality(Rankers(S, m)) \in Int /\ Cardinality(Rankers(S, n)) \in Int
    <3>1. Cardinality(S) \in Int
      BY FS_CardinalityType
    <3> QED
      BY <1>4, <2>1, <3>1
  <2> QED
    BY <1>5, <2>2
<1> QED
  BY <1>3, <1>4, <1>5

(* Best has the metrics of the first ranks, in the order of their ranks.      *)
LEMMA BestIs ==
    ASSUME NEW S, IsFiniteSet(S), Distinct(S), NEW n \in Nat
    PROVE  LET k == IF n <= Cardinality(S) THEN n ELSE Cardinality(S)
           IN /\ k \in Nat
              /\ k = Min({n, Cardinality(S)})
              /\ Best(S, n) \in [1..k -> S]
              /\ Len(Best(S, n)) = k
              /\ \A i \in 1..k : Cardinality(Rankers(S, Best(S, n)[i])) = i - 1
<1> DEFINE N == Cardinality(S)
           k == IF n <= N THEN n ELSE N
           b == Best(S, n)
<1>1. N \in Nat /\ k \in Nat /\ k <= N
  BY FS_CardinalityType
<1>2. k = Min({n, N})
  <2> HIDE DEF N
  <2>1. {n, N} \subseteq Int /\ k \in {n, N} /\ \A y \in {n, N} : k <= y
    BY <1>1
  <2> HIDE DEF k
  <2> QED
    BY <2>1, LeastIs
<1>3. b = [i \in 1..k |-> CHOOSE m \in S : Cardinality(Rankers(S, m)) = i - 1]
  BY <1>2 DEF Best, Rankers
<1>4. ASSUME NEW i \in 1..k
      PROVE  \E m \in S : Cardinality(Rankers(S, m)) = i - 1
  <2>1. IsStrictOrder(Ranking(S), S)
    BY RankingIsAnOrder
  <2>2. i - 1 \in 0..(N - 1)
    <3> HIDE DEF N, k
    <3> QED
      BY <1>1
  <2>3. \E m \in S : Cardinality(Preceding(Ranking(S), S, m)) = i - 1
    BY <2>1, <2>2, RanksAreAll
  <2>4. \A m \in S : Preceding(Ranking(S), S, m) = Rankers(S, m)
    BY DEF Preceding, Ranking, Rankers
  <2> QED
    BY <2>3, <2>4
<1> HIDE DEF k, b
<1>5. \A i \in 1..k : b[i] \in S /\ Cardinality(Rankers(S, b[i])) = i - 1
  BY <1>3, <1>4
<1>6. b \in [1..k -> S]
  <2>1. b = [i \in 1..k |-> b[i]]
    BY <1>3
  <2> QED
    BY <1>5, <2>1
<1>7. Len(b) = k
  BY <1>1, <1>6
<1> QED
  BY <1>1, <1>2, <1>5, <1>6, <1>7 DEF k, b
-----------------------------------------------------------------------------
(* What a finished scan ranks. *)

Complete == InOrder /\ ScanResults /\ Len(scanned) = Combinations(config)

(* No two combinations of a scan have the same thicknesses.                   *)
LEMMA ScanIsDistinct ==
    ASSUME Complete
    PROVE  /\ IsFiniteSet(Range(scanned)) /\ Distinct(Range(scanned)) /\ Range(scanned) # {}
           /\ \A k, l \in 1..Len(scanned) : scanned[k] = scanned[l] => k = l
<1> DEFINE N == Len(scanned)
<1>1. /\ config \in Spaces /\ ~SpaceFails(config)
      /\ scanned \in Seq(Points(config, target)) /\ N = Combinations(config)
  BY DEF Complete, InOrder
<1>2. /\ N \in Nat /\ N >= 1
      /\ \A k, l \in 0..(N - 1) :
            Combination(config, k) = Combination(config, l) => k = l
  <2>1. N >= 1
    <3>1. OuterSize(config) \in Int /\ OuterSize(config) >= 1
          /\ MetalSize(config) \in Int /\ MetalSize(config) >= 1
      BY <1>1, Sizes
    <3>2. /\ OuterSize(config) * MetalSize(config) \in Int
          /\ OuterSize(config) * MetalSize(config) >= 1
      BY <3>1, Products
    <3> QED
      BY <1>1, <3>1, <3>2, Products DEF Combinations
  <2> QED
    BY <1>1, <2>1, CombinationsAreTheGrid
<1>3. DOMAIN scanned = 1..N /\ Range(scanned) = {scanned[k] : k \in 1..N}
  BY <1>1 DEF Range
<1>4. ASSUME NEW k \in 1..N
      PROVE  scanned[k] \in Metrics /\ scanned[k].thicknesses = Combination(config, k - 1)
  <2>1. InOrder /\ ScanResults
    BY DEF Complete
  <2> QED
    BY <2>1, ScannedIs
<1> HIDE DEF N
<1>5. IsFiniteSet(1..N)
  BY <1>2, IntervalIsFinite
<1>6. IsFiniteSet(Range(scanned))
  <2>1. IsFiniteSet({scanned[k] : k \in 1..N})
    BY <1>5, ImageIsFinite
  <2> QED
    BY <1>3, <2>1
<1>7. ASSUME NEW k \in 1..N, NEW l \in 1..N,
             scanned[k].thicknesses = scanned[l].thicknesses
      PROVE  k = l
  <2>1. k - 1 \in 0..(N - 1) /\ l - 1 \in 0..(N - 1)
    BY <1>2
  <2>2. k - 1 = l - 1
    BY <1>2, <1>4, <1>7, <2>1
  <2> QED
    BY <1>2, <2>2
<1>8. Distinct(Range(scanned))
  <2>1. Range(scanned) \subseteq Metrics
    BY <1>3, <1>4
  <2>2. ASSUME NEW m \in Range(scanned), NEW n \in Range(scanned),
               m.thicknesses = n.thicknesses
        PROVE  m = n
    <3>1. PICK k \in 1..N : m = scanned[k]
      BY <1>3
    <3>2. PICK l \in 1..N : n = scanned[l]
      BY <1>3
    <3> QED
      BY <1>7, <2>2, <3>1, <3>2
  <2> QED
    BY <2>1, <2>2 DEF Distinct
<1>9. Range(scanned) # {}
  <2>1. 1 \in 1..N
    BY <1>2
  <2> QED
    BY <1>3, <2>1
<1> QED
  BY <1>6, <1>7, <1>8, <1>9 DEF N

(* The feasible positions are those of the feasible metrics.                  *)
LEMMA GoodIs ==
    ASSUME Complete
    PROVE  /\ Good = {m \in Range(scanned) : Satisfies(m, target)}
           /\ IsFiniteSet(Good) /\ Distinct(Good)
           /\ Cardinality(feasible) = Cardinality(Good)
           /\ Cardinality(Good) \in Nat
<1> DEFINE N == Len(scanned)
<1>1. DOMAIN scanned = 1..N /\ N \in Nat
  BY DEF Complete, InOrder
<1>2. feasible = {n \in 1..N : Satisfies(scanned[n], target)}
  BY DEF Complete, ScanResults
<1>3. Range(scanned) = {scanned[n] : n \in 1..N}
  BY <1>1 DEF Range
<1> HIDE DEF N
<1>4. Good = {m \in Range(scanned) : Satisfies(m, target)}
  BY <1>2, <1>3 DEF Good
<1>5. Good \in SUBSET Range(scanned)
  BY <1>4
<1>6. IsFiniteSet(Good)
  BY <1>5, ScanIsDistinct, FS_Subset
<1>7. Distinct(Good)
  BY <1>5, ScanIsDistinct DEF Distinct
<1>8. Cardinality(feasible) = Cardinality(Good)
  <2> DEFINE f == [n \in feasible |-> scanned[n]]
  <2>1. f \in Surjection(feasible, Good)
    BY DEF Surjection, Good
  <2>2. \A k, l \in feasible : f[k] = f[l] => k = l
    BY <1>2, ScanIsDistinct DEF N
  <2>3. f \in Injection(feasible, Good)
    BY <2>1, <2>2 DEF Surjection, Injection, IsInjective
  <2> HIDE DEF f
  <2>4. IsFiniteSet(feasible)
    <3>1. IsFiniteSet(1..N) /\ feasible \in SUBSET (1..N)
      BY <1>1, <1>2, IntervalIsFinite
    <3> QED
      BY <3>1, FS_Subset
  <2> QED
    BY <2>1, <2>3, <2>4, FS_Surjection
<1>9. Cardinality(Good) \in Nat
  BY <1>6, FS_CardinalityType
<1> QED
  BY <1>4, <1>6, <1>7, <1>8, <1>9

(* The report of a finished scan. *)
LEMMA ReportIs ==
    ASSUME Complete, NEW n \in Nat, n >= 1, config.top_n = n
    PROVE  LET best == Best(Range(scanned), 1)[1]
           IN /\ FromScan \in Reports
              /\ best \in Range(scanned) /\ Rankers(Range(scanned), best) = {}
              /\ Range(FromScan.candidates) \subseteq Good
              /\ FromScan.candidates # << >> <=> Good # {}
<1> DEFINE all == Range(scanned)
           best == Best(all, 1)[1]
           cs == Best(Good, n)
           k == IF n <= Cardinality(Good) THEN n ELSE Cardinality(Good)
<1>1. /\ IsFiniteSet(all) /\ Distinct(all) /\ all # {}
      /\ Cardinality(all) \in Nat /\ 1 <= Cardinality(all)
  <2>1. IsFiniteSet(all) /\ Distinct(all) /\ all # {}
    BY ScanIsDistinct
  <2> HIDE DEF all
  <2>2. Cardinality(all) \in Nat /\ Cardinality(all) # 0
    BY <2>1, FS_CardinalityType, FS_EmptySet
  <2> QED
    BY <2>1, <2>2
<1>2. best \in all /\ Rankers(all, best) = {}
  <2> HIDE DEF all
  <2>1. 1 \in Nat /\ (IF 1 <= Cardinality(all) THEN 1 ELSE Cardinality(all)) = 1
    BY <1>1
  <2>2. Best(all, 1) \in [1..1 -> all] /\ \A i \in 1..1 : Cardinality(Rankers(all, Best(all, 1)[i])) = i - 1
    BY <1>1, <2>1, BestIs
  <2>3. best \in all /\ Cardinality(Rankers(all, best)) = 0
    BY <2>2
  <2>4. IsFiniteSet(Rankers(all, best))
    <3>1. Rankers(all, best) \in SUBSET all
      BY DEF Rankers
    <3> QED
      BY <1>1, <3>1, FS_Subset
  <2> QED
    BY <2>3, <2>4, FS_EmptySet
<1>3. k \in Nat /\ cs \in [1..k -> Good] /\ Len(cs) = k
  BY GoodIs, BestIs
<1>4. FromScan = [n_scanned |-> Combinations(config), n_feasible |-> Cardinality(feasible),
                  candidates |-> cs, best_effort |-> IF Fom(best) = -1 THEN None ELSE best]
  BY DEF FromScan
<1>5. Good \subseteq Metrics /\ all \subseteq Metrics
  BY <1>1, GoodIs DEF Distinct
<1>6. Combinations(config) \in Nat /\ Cardinality(feasible) \in Nat
  <2>1. Combinations(config) \in Nat
    BY CombinationsAreTheGrid DEF Complete, InOrder
  <2> QED
    BY <2>1, GoodIs
<1>7. cs = << >> <=> k = 0
  <2> HIDE DEF cs, k
  <2> QED
    BY <1>3
<1>8. k = 0 <=> Good = {}
  BY GoodIs, FS_EmptySet
<1> HIDE DEF all, best, cs, k
<1>9. cs \in Seq(Metrics) /\ Range(cs) \subseteq Good
  <2>1. cs \in [1..k -> Metrics]
    BY <1>3, <1>5
  <2>2. cs \in Seq(Metrics)
    BY <1>3, <2>1
  <2>3. Range(cs) \subseteq Good
    BY <1>3 DEF Range
  <2> QED
    BY <2>2, <2>3
<1>10. FromScan \in Reports
  BY <1>2, <1>4, <1>5, <1>6, <1>9 DEF Reports
<1> QED
  BY <1>2, <1>4, <1>7, <1>8, <1>9, <1>10 DEF all, best
-----------------------------------------------------------------------------
(* The invariant of a search, and what it says of a search past its scan.    *)
SearchInv == ScanInv /\ OrderInv /\ ResultInv

(* Every search keeps the invariant.                                          *)
LEMMA SearchInvHolds == SearchSpec => []SearchInv
<1>1. SearchInit => SearchInv
  BY ScanInit, OrderInit, ResultInit DEF SearchInv
<1>2. SearchInv /\ [SearchNext]_searchVars => SearchInv'
  BY ScanStep, OrderStep, ResultStep DEF SearchInv
<1> QED
  BY <1>1, <1>2, PTL DEF SearchSpec

(* A search that has begun asks for at least one candidate.                   *)
LEMMA AsksForSome ==
    ASSUME InOrder
    PROVE  config.top_n \in Nat /\ config.top_n >= 1
  BY DEF InOrder, Spaces, SpaceFails, RangesFail

(* A report comes from a complete scan.                                       *)
LEMMA Reported ==
    ASSUME SearchInv, phase \in Past \/ report # None
    PROVE  /\ phase \in Past /\ Complete /\ LayerResults
           /\ report = FromScan /\ report \in Reports /\ report # None
<1>1. phase \in Past
  BY DEF SearchInv, OrderInv, Past
<1>2. Complete /\ LayerResults /\ report = FromScan
  BY <1>1 DEF SearchInv, OrderInv, ResultInv, Past, Complete
<1>3. InOrder
  BY <1>2 DEF Complete
<1>4. report \in Reports
  BY <1>2, <1>3, AsksForSome, ReportIs
<1> QED
  BY <1>1, <1>2, <1>4, NoneAssumption

(* Nothing but metrics has been scanned.                                      *)
LEMMA ScannedAreMetrics ==
    ASSUME InOrder, ScanResults
    PROVE  /\ Range(scanned) \subseteq Metrics
           /\ DOMAIN scanned = 1..Len(scanned) /\ Len(scanned) \in Nat
           /\ Len(scanned) <= MaxCombinations
<1>1. scanned \in Seq(Points(config, target)) /\ Len(scanned) <= Combinations(config)
      /\ config \in Spaces /\ ~SpaceFails(config)
  BY DEF InOrder
<1>2. DOMAIN scanned = 1..Len(scanned) /\ Len(scanned) \in Nat
  BY <1>1
<1>3. Combinations(config) \in Nat /\ Combinations(config) <= MaxCombinations
  BY <1>1, CombinationsAreTheGrid DEF SpaceFails, MaxCombinations
<1>4. \A n \in DOMAIN scanned : scanned[n] \in Metrics
  BY <1>2, ScannedIs
<1>5. Range(scanned) \subseteq Metrics
  BY <1>4 DEF Range
<1> QED
  BY <1>1, <1>2, <1>3, <1>5 DEF MaxCombinations

(* The invariant has the types.                                               *)
LEMMA SearchIsTyped == SearchInv => SearchTypeOK
<1> SUFFICES ASSUME SearchInv PROVE SearchTypeOK
  OBVIOUS
<1>1. phase \in {"idle", "scanning", "refused", "exhausted"} \cup Past
  BY DEF SearchInv, ResultInv
<1>2. CASE phase \in {"idle", "refused", "exhausted"}
  <2>1. scanned = << >> /\ feasible = {} /\ layers = << >> /\ report = None
    BY <1>2 DEF SearchInv, ScanInv, OrderInv, ResultInv
  <2>2. Range(scanned) = {} /\ Len(scanned) = 0
    BY <2>1 DEF Range
  <2> QED
    BY <1>2, <2>1, <2>2 DEF SearchTypeOK, MaxCombinations
<1>3. CASE phase = "scanning"
  <2>1. InOrder /\ ScanResults /\ layers = << >> /\ report = None
    BY <1>3 DEF SearchInv, OrderInv, ResultInv
  <2>2. feasible \subseteq DOMAIN scanned
    BY <2>1, ScannedAreMetrics DEF ScanResults
  <2> QED
    BY <1>3, <2>1, <2>2, ScannedAreMetrics DEF SearchTypeOK
<1>4. CASE phase \in Past
  <2>1. Complete /\ LayerResults /\ report # None
    BY <1>4, Reported
  <2>2. InOrder /\ ScanResults
    BY <2>1 DEF Complete
  <2>3. feasible \subseteq DOMAIN scanned
    BY <2>2, ScannedAreMetrics DEF ScanResults
  <2>4. phase = "analysing" => Len(layers) < 3
    BY <2>1 DEF LayerResults
  <2>5. layers # << >> => sensitivity
    BY <2>1 DEF LayerResults
  <2> QED
    BY <1>4, <2>1, <2>2, <2>3, <2>4, <2>5, ScannedAreMetrics DEF SearchTypeOK, Past
<1> QED
  BY <1>1, <1>2, <1>3, <1>4

(* The metrics of a search are numbers of the right kind, its report is one,  *)
(* and no grid larger than MAX_COMBINATIONS is ever scanned (search_designs). *)
THEOREM SearchIsTypeCorrect == SearchSpec => []SearchTypeOK
  BY SearchInvHolds, SearchIsTyped, PTL
-----------------------------------------------------------------------------
(* The ranks of the candidates and of what was left out. *)
LEMMA BestAreFirst ==
    ASSUME NEW S, IsFiniteSet(S), Distinct(S), NEW n \in Nat
    PROVE  LET cs == Best(S, n)
           IN /\ Len(cs) = Min({n, Cardinality(S)})
              /\ DOMAIN cs = 1..Len(cs) /\ Len(cs) \in Nat
              /\ \A i, k \in DOMAIN cs : i < k => Before(cs[i], cs[k])
              /\ \A m \in S \ Range(cs), i \in DOMAIN cs : Before(cs[i], m)
              /\ \A i \in DOMAIN cs : cs[i] \in S /\ Cardinality(Rankers(S, cs[i])) = i - 1
<1> DEFINE cs == Best(S, n)
           k == Len(cs)
           rank(m) == Cardinality(Rankers(S, m))
<1>1. /\ k \in Nat /\ k = Min({n, Cardinality(S)}) /\ cs \in [1..k -> S]
      /\ \A i \in 1..k : rank(cs[i]) = i - 1
  BY BestIs
<1>2. DOMAIN cs = 1..k
  BY <1>1
<1>3. ASSUME NEW x \in S, NEW y \in S
      PROVE  /\ rank(x) \in 0..(Cardinality(S) - 1)
             /\ Before(x, y) <=> rank(x) < rank(y)
             /\ rank(x) = rank(y) => x = y
  BY RankIs
<1>4. Cardinality(S) \in Nat
  BY FS_CardinalityType
<1> HIDE DEF cs, k, rank
<1>5. ASSUME NEW i \in 1..k, NEW j \in 1..k, i < j
      PROVE  Before(cs[i], cs[j])
  <2>1. cs[i] \in S /\ cs[j] \in S /\ rank(cs[i]) = i - 1 /\ rank(cs[j]) = j - 1
    BY <1>1
  <2>2. i - 1 < j - 1
    BY <1>1, <1>5
  <2> QED
    BY <1>3, <2>1, <2>2
<1>6. ASSUME NEW m \in S \ Range(cs), NEW i \in 1..k
      PROVE  Before(cs[i], m)
  <2>1. cs[i] \in S /\ rank(cs[i]) = i - 1
    BY <1>1
  <2>2. rank(m) \in 0..(Cardinality(S) - 1)
    BY <1>3
  <2>3. ~(rank(m) < k)
    <3>1. SUFFICES ASSUME rank(m) < k PROVE FALSE
      OBVIOUS
    <3> DEFINE j == rank(m) + 1
    <3>2. j \in 1..k /\ j - 1 = rank(m)
      BY <1>1, <1>4, <2>2, <3>1
    <3> HIDE DEF j
    <3>3. cs[j] \in S /\ rank(cs[j]) = rank(m) /\ cs[j] \in Range(cs)
      BY <1>1, <1>2, <3>2 DEF Range
    <3>4. cs[j] = m
      BY <1>3, <3>3
    <3> QED
      BY <3>3, <3>4
  <2>4. i - 1 < rank(m)
    BY <1>1, <1>4, <2>2, <2>3
  <2> QED
    BY <1>3, <2>1, <2>4
<1>7. \A i \in 1..k : cs[i] \in S
  BY <1>1
<1> QED
  BY <1>1, <1>2, <1>5, <1>6, <1>7 DEF cs, k, rank

(* The report of the invariant has the candidates in their order.             *)
LEMMA SearchRanks == SearchInv => CandidatesAreBest
<1> SUFFICES ASSUME SearchInv, report # None PROVE CandidatesAreBest
  BY DEF CandidatesAreBest
<1> DEFINE cs    == report.candidates
           all   == Range(scanned)
           first == Best(all, 1)[1]
           best  == report.best_effort
<1>1. Complete /\ report = FromScan
  BY Reported
<1>2. config.top_n \in Nat /\ config.top_n >= 1
  BY <1>1, AsksForSome DEF Complete
<1>3. /\ first \in all /\ Rankers(all, first) = {}
      /\ Range(FromScan.candidates) \subseteq Good
  BY <1>1, <1>2, ReportIs
<1>4. /\ cs = Best(Good, config.top_n) /\ report.n_feasible = Cardinality(feasible)
      /\ best = IF Fom(first) = -1 THEN None ELSE first
  BY <1>1 DEF FromScan
<1>5. /\ IsFiniteSet(all) /\ Distinct(all) /\ IsFiniteSet(Good) /\ Distinct(Good)
      /\ Good = {m \in all : Satisfies(m, target)}
      /\ Cardinality(feasible) = Cardinality(Good)
      /\ all \subseteq Metrics /\ Good \subseteq Metrics
      /\ Cardinality(Good) \in Nat
  BY <1>1, ScanIsDistinct, GoodIs DEF Distinct
<1>6. /\ Len(cs) = Min({config.top_n, Cardinality(Good)})
      /\ DOMAIN cs = 1..Len(cs) /\ Len(cs) \in Nat
      /\ \A i, k \in DOMAIN cs : i < k => Before(cs[i], cs[k])
      /\ \A m \in Good \ Range(cs), i \in DOMAIN cs : Before(cs[i], m)
      /\ \A i \in DOMAIN cs : cs[i] \in Good /\ Cardinality(Rankers(Good, cs[i])) = i - 1
  <2> DEFINE b == Best(Good, config.top_n)
  <2>1. /\ Len(b) = Min({config.top_n, Cardinality(Good)})
        /\ DOMAIN b = 1..Len(b) /\ Len(b) \in Nat
        /\ \A i, k \in DOMAIN b : i < k => Before(b[i], b[k])
        /\ \A m \in Good \ Range(b), i \in DOMAIN b : Before(b[i], m)
        /\ \A i \in DOMAIN b : b[i] \in Good /\ Cardinality(Rankers(Good, b[i])) = i - 1
    BY <1>2, <1>5, BestAreFirst
  <2>2. cs = b
    BY <1>4
  <2> HIDE DEF cs, b
  <2> QED
    BY <2>1, <2>2
<1>7. Range(cs) \subseteq Good
  BY <1>1, <1>3
<1>8. ASSUME NEW m \in all
      PROVE  /\ ~Before(m, first)
             /\ Fom(m) \in Int /\ Fom(m) >= -1
             /\ Fom(m) = -1 <=> m.conductance = None
  <2> HIDE DEF all, first
  <2>1. ~Before(m, first)
    BY <1>3 DEF Rankers
  <2>2. m \in Metrics
    BY <1>5
  <2> QED
    BY <2>1, <2>2, FomIs
<1>9. best = None <=> \A m \in all : m.conductance = None
  <2>1. best = None <=> Fom(first) = -1
    BY <1>3, <1>4, <1>5, NoneAssumption
  <2>2. ASSUME Fom(first) = -1, NEW m \in all PROVE m.conductance = None
    <3>1. ~(Fom(m) > Fom(first))
      BY <1>8 DEF Before
    <3> QED
      BY <1>8, <2>2, <3>1
  <2>3. (\A m \in all : m.conductance = None) => Fom(first) = -1
    BY <1>3, <1>8
  <2> QED
    BY <2>1, <2>2, <2>3
<1>10. ASSUME best # None
       PROVE  \A m \in all \ {best} : Before(best, m)
  <2>1. best = first
    BY <1>4, <1>10
  <2> SUFFICES ASSUME NEW m \in all \ {first} PROVE Before(first, m)
    BY <2>1
  <2>2. Before(first, m) \/ Before(m, first)
    <3>1. IsStrictOrder(Ranking(all), all)
      BY <1>5, RankingIsAnOrder
    <3> HIDE DEF all, first
    <3>2. <<first, m>> \in Ranking(all) \/ <<m, first>> \in Ranking(all)
      BY <1>3, <3>1 DEF IsStrictOrder
    <3> QED
      BY <3>2 DEF Ranking
  <2> QED
    BY <1>8, <2>2
<1>11. ASSUME best \in Good PROVE cs[1] = best
  <2>1. best = first /\ Good # {}
    BY <1>4, <1>5, <1>11, NoneAssumption
  <2>2. Cardinality(Good) >= 1
    BY <1>5, <2>1, FS_EmptySet
  <2>3. Len(cs) # 0
    <3>1. Min({config.top_n, Cardinality(Good)})
             = IF config.top_n <= Cardinality(Good) THEN config.top_n ELSE Cardinality(Good)
      BY <1>2, <1>5, BestIs
    <3> QED
      BY <1>2, <1>5, <1>6, <2>2, <3>1
  <2>4. 1 \in DOMAIN cs
    BY <1>6, <2>3
  <2>5. cs[1] \in Good /\ Cardinality(Rankers(Good, cs[1])) = 0
    <3>1. cs[1] \in Good /\ Cardinality(Rankers(Good, cs[1])) = 1 - 1
      BY <1>6, <2>4
    <3> QED
      BY <3>1
  <2>6. Rankers(Good, first) = {}
    BY <1>3, <1>5 DEF Rankers
  <2>7. Cardinality(Rankers(Good, first)) = 0
    BY <2>6, FS_EmptySet
  <2>8. \A x, y \in Good :
           Cardinality(Rankers(Good, x)) = Cardinality(Rankers(Good, y)) => x = y
    BY <1>5, RankIs
  <2> QED
    BY <1>11, <2>1, <2>5, <2>7, <2>8
<1> HIDE DEF cs, all, first, best
<1> QED
  BY <1>4, <1>5, <1>6, <1>7, <1>9, <1>10, <1>11 DEF CandidatesAreBest, cs, all, best

(* The candidates of a report are the best feasible combinations of the whole *)
(* grid, best first, and best_effort is the best of all of them: the two      *)
(* sorts and the cut at top_n of search_designs, for every grid and target.   *)
THEOREM RanksTheBest == SearchSpec => []CandidatesAreBest
  BY SearchInvHolds, SearchRanks, PTL
-----------------------------------------------------------------------------
(* The sensitivity of the best candidate. *)

(* It is a combination of the scan, which evaluated to what it is. *)
LEMMA NominalIs ==
    ASSUME SearchInv, phase \in Past, report.candidates # << >>
    PROVE  /\ Nominal.thicknesses \in [1..3 -> Nat]
           /\ ~FailsAt(Nominal.thicknesses)
           /\ EvaluateAt(Nominal.thicknesses) = Nominal
           /\ Satisfies(Nominal, target)
           /\ Nominal \in Range(scanned)
<1>1. Complete /\ report = FromScan
  BY Reported
<1>2. config.top_n \in Nat /\ config.top_n >= 1
  BY <1>1, AsksForSome DEF Complete
<1>3. Range(report.candidates) \subseteq Good
  BY <1>1, <1>2, ReportIs
<1>4. report.candidates \in Seq(Metrics)
  BY <1>1, <1>2, ReportIs DEF Reports
<1>5. Nominal \in Good
  <2> DEFINE cs == report.candidates
  <2>1. 1 \in DOMAIN cs
    <3> HIDE DEF cs
    <3>1. cs \in Seq(Metrics) /\ cs # << >>
      BY <1>4 DEF cs
    <3> QED
      BY <3>1
  <2>2. cs[1] \in Range(cs)
    BY <2>1 DEF Range
  <2> QED
    BY <1>3, <2>2 DEF Nominal
<1>6. PICK k \in 1..Len(scanned) : Nominal = scanned[k] /\ Satisfies(scanned[k], target)
  BY <1>1, <1>5 DEF Complete, ScanResults, Good
<1>7. LET ts == Combination(config, k - 1)
      IN /\ scanned[k] = EvaluateAt(ts) /\ ~FailsAt(ts)
         /\ ts \in [1..3 -> Nat] /\ scanned[k].thicknesses = ts
  BY <1>1, ScannedIs DEF Complete
<1>8. Nominal \in Range(scanned)
  BY <1>1, <1>5, GoodIs
<1> QED
  BY <1>6, <1>7, <1>8

(* The perturbed stack exists, can be evaluated and satisfies the target. *)
Inside(i, x) ==
    LET ts == Perturbed(Nominal.thicknesses, i, x)
    IN x >= 0 /\ ~FailsAt(ts) /\ Satisfies(EvaluateAt(ts), target)

(* The offsets probed, in half nanometres.                                    *)
LEMMA OffsetsAre == Offsets = 1..MaxTolNm /\ ProbeNm = 1 /\ MaxTolNm = 10
<1>1. (MaxTolNm + ProbeNm - 1) \div ProbeNm = 10 /\ MaxTolNm = 10 /\ ProbeNm = 1
  BY DEF MaxTolNm, ProbeNm
<1>2. \A k \in 1..10 : ProbeNm * k = k
  BY <1>1
<1>3. Offsets = {ProbeNm * k : k \in 1..10}
  BY <1>1 DEF Offsets
<1> QED
  BY <1>1, <1>2, <1>3

(* A perturbed combination differs in one layer.                              *)
LEMMA PerturbedIs ==
    ASSUME NEW ts \in [1..3 -> Nat], NEW i \in 1..3, NEW x \in Int
    PROVE  /\ Perturbed(ts, i, x) \in [1..3 -> Int]
           /\ Perturbed(ts, i, x)[i] = x
           /\ \A k \in 1..3 : k # i => Perturbed(ts, i, x)[k] = ts[k]
           /\ Perturbed(ts, i, ts[i]) = ts
  BY DEF Perturbed

(* A probe holds inside the window and raises where the evaluation fails.     *)
LEMMA ProbeIs ==
    ASSUME Nominal.thicknesses \in [1..3 -> Nat],
           NEW i \in 1..3, NEW d \in {-1, 1}, NEW o \in Nat
    PROVE  LET x == Nominal.thicknesses[i] + d * o
           IN /\ Probe(i, d, o) = "holds" <=> Inside(i, x)
              /\ Probe(i, d, o) = "raises"
                   <=> x >= 0 /\ FailsAt(Perturbed(Nominal.thicknesses, i, x))
<1> DEFINE x == Nominal.thicknesses[i] + d * o
           ts == Perturbed(Nominal.thicknesses, i, x)
<1>1. x \in Int
  OBVIOUS
<1>2. ts[i] = x
  BY <1>1, PerturbedIs
<1>3. Probe(i, d, o) = CASE ts[i] < 0                 -> "edge"
                         [] ts[i] >= 0 /\ FailsAt(ts) -> "raises"
                         [] OTHER -> IF Satisfies(EvaluateAt(ts), target)
                                     THEN "holds" ELSE "misses"
  BY DEF Probe
<1>4. Inside(i, x) <=> x >= 0 /\ ~FailsAt(ts) /\ Satisfies(EvaluateAt(ts), target)
  BY DEF Inside
<1> HIDE DEF x, ts
<1> DEFINE P == Probe(i, d, o)
<1>5. /\ x < 0 => P = "edge"
      /\ x >= 0 /\ FailsAt(ts) => P = "raises"
      /\ x >= 0 /\ ~FailsAt(ts)
           => P = IF Satisfies(EvaluateAt(ts), target) THEN "holds" ELSE "misses"
  <2>1. ~(ts[i] < 0 /\ ts[i] >= 0 /\ FailsAt(ts)) /\ (ts[i] < 0 \/ ts[i] >= 0)
    BY <1>1, <1>2
  <2> HIDE DEF P
  <2>2. CASE x < 0
    <3>1. ~(x >= 0)
      BY <1>1, <2>2
    <3> QED
      BY <1>2, <1>3, <2>1, <2>2, <3>1, Zenon DEF P
  <2>3. CASE x >= 0 /\ FailsAt(ts)
    BY <1>2, <1>3, <2>1, <2>3, Zenon DEF P
  <2>4. CASE x >= 0 /\ ~FailsAt(ts)
    <3>1. ~(x < 0)
      BY <1>1, <2>4
    <3> QED
      BY <1>2, <1>3, <2>1, <2>4, <3>1, Zenon DEF P
  <2> QED
    BY <1>1, <2>2, <2>3, <2>4
<1> QED
  BY <1>1, <1>4, <1>5 DEF x, ts, P

(* A reach is the last offset before the first stop. *)
LEMMA ReachIs ==
    ASSUME NEW i, NEW d
    PROVE  LET r == Reach(i, d)
           IN /\ r \in 0..10
              /\ \A o \in 1..r : Probe(i, d, o) = "holds"
              /\ r = 10 \/ (r < 10 /\ Probe(i, d, r + 1) # "holds")
              /\ ReachFails(i, d) => r < 10 /\ Probe(i, d, r + 1) = "raises"
<1> DEFINE S == Stops(i, d)
<1>1. S = {o \in 1..10 : Probe(i, d, o) # "holds"}
  BY OffsetsAre DEF Stops
<1>2. /\ Reach(i, d) = IF S = {} THEN 10 ELSE Min(S) - 1
      /\ ReachFails(i, d) <=> S # {} /\ Probe(i, d, Min(S)) = "raises"
  BY DEF Reach, ReachFails, MaxTolNm, ProbeNm
<1> HIDE DEF S
<1>3. CASE S = {}
  BY <1>1, <1>2, <1>3
<1>4. CASE S # {}
  <2> DEFINE m == Min(S)
  <2>1. m \in S /\ \A o \in S : m <= o
    <3> DEFINE hi == 10
    <3> HIDE DEF hi
    <3>1. hi \in Int /\ 10 = hi
      BY DEF hi
    <3>2. IsFiniteSet(1..hi) /\ S \in SUBSET (1..hi)
      BY <1>1, <3>1, IntervalIsFinite
    <3>3. IsFiniteSet(S)
      BY <3>2, FS_Subset
    <3>4. S \subseteq Int
      BY <1>1
    <3> QED
      BY <1>4, <3>3, <3>4, Least
  <2> HIDE DEF m
  <2>2. m \in 1..10 /\ Probe(i, d, m) # "holds"
    BY <1>1, <2>1
  <2>3. Reach(i, d) = m - 1 /\ (ReachFails(i, d) => Probe(i, d, m) = "raises")
    BY <1>2, <1>4 DEF m
  <2>4. \A o \in 1..(m - 1) : Probe(i, d, o) = "holds"
    BY <1>1, <2>1, <2>2
  <2>5. (m - 1) + 1 = m
    BY <2>2
  <2> QED
    BY <2>2, <2>3, <2>4, <2>5
<1> QED
  BY <1>3, <1>4
-----------------------------------------------------------------------------
(* The layers analysed are those of the best candidate.                       *)
LEMMA LayersAnalysed ==
    ASSUME SearchInv, NEW n \in DOMAIN layers
    PROVE  /\ phase \in Past /\ report.candidates # << >>
           /\ n \in 1..3 /\ layers[n] = Sensitivity(n)
           /\ layers[n].layer = n
           /\ layers[n].tolerance = Min({Reach(n, -1), Reach(n, 1)})
<1>1. layers # << >>
  OBVIOUS
<1>2. phase \in Past
  BY <1>1 DEF SearchInv, ResultInv
<1>3. LayerResults
  BY <1>2, Reported
<1>4. n \in 1..Len(layers) /\ layers[n] \in {Sensitivity(i) : i \in 1..3}
  BY <1>3 DEF LayerResults
<1>5. layers[n] = Sensitivity(n) /\ report.candidates # << >>
  BY <1>1, <1>3, <1>4 DEF LayerResults
<1>6. \A i : /\ Sensitivity(i).layer = i
             /\ Sensitivity(i).tolerance = Min({Reach(i, -1), Reach(i, 1)})
  BY DEF Sensitivity
<1>7. n \in 1..3
  BY <1>4, <1>5, <1>6
<1> QED
  BY <1>2, <1>5, <1>6, <1>7

(* The tolerance is the smaller of the two reaches.                           *)
LEMMA TolerancesAreWindows == SearchInv => TolerancesHold
<1> SUFFICES ASSUME SearchInv, NEW i \in DOMAIN layers
             PROVE  LET t   == Nominal.thicknesses[i]
                        tol == layers[i].tolerance
                    IN /\ \A x \in (t - tol)..(t + tol) : Inside(i, x)
                       /\ \/ tol = MaxTolNm
                          \/ /\ tol < MaxTolNm
                             /\ \E x \in {t - tol - ProbeNm, t + tol + ProbeNm} : ~Inside(i, x)
  BY LayersAnalysed DEF TolerancesHold, Inside
<1> DEFINE ts  == Nominal.thicknesses
           t   == ts[i]
           tol == layers[i].tolerance
           lo  == Reach(i, -1)
           hi  == Reach(i, 1)
<1>1. /\ i \in 1..3 /\ tol = Min({lo, hi})
      /\ phase \in Past /\ report.candidates # << >>
  BY LayersAnalysed
<1>2. /\ ts \in [1..3 -> Nat] /\ ~FailsAt(ts)
      /\ EvaluateAt(ts) = Nominal /\ Satisfies(Nominal, target)
  BY <1>1, NominalIs
<1>3. t \in Nat
  BY <1>1, <1>2
<1>4. Inside(i, t)
  <2>1. Perturbed(ts, i, t) = ts
    <3> HIDE DEF ts
    <3> QED
      BY <1>1, <1>2 DEF Perturbed
  <2> HIDE DEF t
  <2>2. Inside(i, t) <=> t >= 0 /\ ~FailsAt(ts) /\ Satisfies(EvaluateAt(ts), target)
    BY <2>1 DEF Inside
  <2> QED
    BY <1>2, <1>3, <2>2
<1>5. ASSUME NEW d \in {-1, 1}, NEW o \in Nat
      PROVE  Probe(i, d, o) = "holds" <=> Inside(i, t + d * o)
  BY <1>1, <1>2, ProbeIs
<1>6. /\ lo \in 0..10 /\ \A o \in 1..lo : Probe(i, -1, o) = "holds"
      /\ lo = 10 \/ (lo < 10 /\ Probe(i, -1, lo + 1) # "holds")
  BY ReachIs
<1>7. /\ hi \in 0..10 /\ \A o \in 1..hi : Probe(i, 1, o) = "holds"
      /\ hi = 10 \/ (hi < 10 /\ Probe(i, 1, hi + 1) # "holds")
  BY ReachIs
<1> HIDE DEF ts, t, lo, hi, tol
<1>8. tol = (IF lo <= hi THEN lo ELSE hi)
  <2>1. lo \in Int /\ hi \in Int
    BY <1>6, <1>7
  <2> DEFINE s == IF lo <= hi THEN lo ELSE hi
  <2>2. {lo, hi} \subseteq Int /\ s \in {lo, hi} /\ \A y \in {lo, hi} : s <= y
    BY <2>1
  <2> HIDE DEF s
  <2>3. Min({lo, hi}) = s
    BY <2>2, LeastIs
  <2> QED
    BY <1>1, <2>3 DEF s
<1>9. \A o \in 0..10 : /\ 1 * o = o /\ (-1) * o = -o
  OBVIOUS
<1>10. ASSUME NEW x \in (t - tol)..(t + tol)
       PROVE  Inside(i, x)
  <2>1. tol \in 0..10 /\ tol <= lo /\ tol <= hi
    BY <1>6, <1>7, <1>8
  <2>2. CASE x = t
    BY <1>4, <2>2
  <2>3. CASE x > t
    <3> DEFINE o == x - t
    <3>1. o \in 1..hi /\ o \in Nat /\ t + 1 * o = x
      BY <1>3, <1>7, <2>1, <2>3
    <3>2. Probe(i, 1, o) = "holds"
      BY <1>7, <3>1
    <3> HIDE DEF o
    <3>3. Inside(i, t + 1 * o)
      BY <1>5, <3>1, <3>2
    <3> QED
      BY <3>1, <3>3
  <2>4. CASE x < t
    <3> DEFINE o == t - x
    <3>1. o \in 1..lo /\ o \in Nat /\ t + (-1) * o = x
      BY <1>3, <1>6, <2>1, <2>4
    <3>2. Probe(i, -1, o) = "holds"
      BY <1>6, <3>1
    <3> HIDE DEF o
    <3>3. Inside(i, t + (-1) * o)
      BY <1>5, <3>1, <3>2
    <3> QED
      BY <3>1, <3>3
  <2> QED
    BY <1>3, <2>1, <2>2, <2>3, <2>4
<1>11. ASSUME tol # 10
       PROVE  /\ tol < 10
              /\ \E x \in {t - tol - 1, t + tol + 1} : ~Inside(i, x)
  <2>1. CASE lo <= hi
    <3>1. tol = lo /\ lo < 10 /\ lo + 1 \in Nat /\ Probe(i, -1, lo + 1) # "holds"
      BY <1>6, <1>8, <1>11, <2>1
    <3>2. ~Inside(i, t + (-1) * (lo + 1))
      BY <1>5, <3>1
    <3>3. t + (-1) * (lo + 1) = t - tol - 1
      BY <1>3, <1>6, <3>1
    <3> QED
      BY <3>1, <3>2, <3>3
  <2>2. CASE ~(lo <= hi)
    <3>1. tol = hi /\ hi < 10 /\ hi + 1 \in Nat /\ Probe(i, 1, hi + 1) # "holds"
      BY <1>6, <1>7, <1>8, <1>11, <2>2
    <3>2. ~Inside(i, t + 1 * (hi + 1))
      BY <1>5, <3>1
    <3>3. t + 1 * (hi + 1) = t + tol + 1
      BY <1>3, <1>7, <3>1
    <3> QED
      BY <3>1, <3>2, <3>3
  <2> QED
    BY <2>1, <2>2
<1> QED
  BY <1>10, <1>11 DEF tol, t, ts, MaxTolNm, ProbeNm

(* A reported tolerance is a window in which every probed thickness of the    *)
(* layer exists, evaluates and satisfies the target, and it is the widest:    *)
(* the two reaches of analyze_sensitivity, whatever the candidate.            *)
THEOREM TolerancesAreTrue == SearchSpec => []TolerancesHold
  BY SearchInvHolds, TolerancesAreWindows, PTL

-----------------------------------------------------------------------------
(* A stack that was accepted and is refused with one layer thinner has lost   *)
(* its conductance or the effective resistivity of that layer.                *)
LEMMA RefusedWhenThinner ==
    ASSUME SearchInv, phase \in Past, report.candidates # << >>,
           NEW i \in 1..3, NEW x \in Nat, FailsAt(Perturbed(Nominal.thicknesses, i, x))
    PROVE  /\ x = 0
           /\ Materials(config)[i] \in Conductors
           /\ Nominal.thicknesses[i] > 0
<1> DEFINE ts == Nominal.thicknesses
           us == Perturbed(ts, i, x)
           ms == Materials(config)
           p  == Stack(ts, ms)
           q  == Stack(us, ms)
<1>1. ts \in [1..3 -> Nat] /\ ~FailsAt(ts)
  BY NominalIs
<1>2. /\ us[i] = x /\ \A k \in 1..3 : k # i => us[k] = ts[k]
      /\ us \in [1..3 -> Nat]
  BY <1>1 DEF Perturbed
<1>3. /\ DOMAIN p = 1..3 /\ DOMAIN q = 1..3
      /\ \A k \in 1..3 : /\ p[k].material = ms[k] /\ q[k].material = ms[k]
                        /\ p[k].thickness = ts[k] /\ q[k].thickness = us[k]
  BY StackIs
<1>4. /\ EvaluateFails(us, ms, config.substrate, BandOf(target))
      /\ ~EvaluateFails(ts, ms, config.substrate, BandOf(target))
  BY <1>1 DEF FailsAt
<1> HIDE DEF p, q, us, ts, ms
<1>5. Conductive(q) = Conductive(p) /\ Conductive(p) = {k \in 1..3 : ms[k] \in Conductors}
  BY <1>3 DEF Conductive
<1>6. ~ \E k \in 1..3 : us[k] < 0 \/ ms[k] \notin Known
  <2>1. \A k \in 1..3 : ms[k] \in Known
    BY <1>4 DEF EvaluateFails
  <2> QED
    BY <1>2, <2>1
<1>7. \/ Conducts(p) /\ ~Conducts(q)
      \/ SizeEffectDefined(p) /\ ~SizeEffectDefined(q)
  BY <1>4, <1>5, <1>6 DEF EvaluateFails, p, q
<1>8. CASE Conducts(p) /\ ~Conducts(q)
  <2>1. PICK k \in 1..3 : ms[k] \in Conductors /\ ts[k] > 0
    BY <1>3, <1>5, <1>8 DEF Conducts
  <2>2. ~(us[k] > 0)
    BY <1>3, <1>5, <1>8, <2>1 DEF Conducts
  <2>3. k = i
    BY <1>2, <2>1, <2>2
  <2> QED
    BY <1>2, <2>1, <2>2, <2>3 DEF ts, ms
<1>9. CASE SizeEffectDefined(p) /\ ~SizeEffectDefined(q)
  <2>1. PICK k \in 1..3 : ms[k] \in Conductors /\ ms[k] \in SizeEffect /\ ~(us[k] > 0)
    BY <1>3, <1>5, <1>9 DEF SizeEffectDefined
  <2>2. ts[k] > 0
    BY <1>3, <1>5, <1>9, <2>1 DEF SizeEffectDefined
  <2>3. k = i
    BY <1>2, <2>1, <2>2
  <2> QED
    BY <1>2, <2>1, <2>2, <2>3 DEF ts, ms
<1> QED
  BY <1>7, <1>8, <1>9
-----------------------------------------------------------------------------
(* What makes a sensitivity fail is a layer that is nearly gone.              *)
LEMMA LostNearZero == SearchInv => ReportLostOnlyNearZero
<1> SUFFICES ASSUME SearchInv, phase = "lost"
             PROVE  \E i \in 1..3 :
                       /\ Materials(config)[i] \in Conductors
                       /\ Nominal.thicknesses[i] \in 1..MaxTolNm
                       /\ FailsAt(Perturbed(Nominal.thicknesses, i, 0))
  BY DEF ReportLostOnlyNearZero
<1> DEFINE i  == Len(layers) + 1
           ts == Nominal.thicknesses
<1>1. phase \in Past
  BY DEF Past
<1>2. LayerResults
  BY <1>1, Reported
<1>3. i \in 1..3 /\ LayerFails(i) /\ report.candidates # << >>
  <2>1. Len(layers) \in Nat /\ Len(layers) < 3
    BY <1>2 DEF LayerResults
  <2> QED
    BY <1>2, <2>1 DEF LayerResults
<1> HIDE DEF i
<1>4. ts \in [1..3 -> Nat] /\ ts[i] \in Nat
  BY <1>1, <1>3, NominalIs
<1>5. ASSUME NEW x \in Nat, FailsAt(Perturbed(ts, i, x))
      PROVE  x = 0 /\ Materials(config)[i] \in Conductors /\ ts[i] > 0
  BY <1>1, <1>3, <1>5, RefusedWhenThinner
<1>6. SUFFICES \E x \in Nat : /\ FailsAt(Perturbed(ts, i, x))
                              /\ x < ts[i] /\ ts[i] - x <= 10
  <2>1. PICK x \in Nat : FailsAt(Perturbed(ts, i, x)) /\ x < ts[i] /\ ts[i] - x <= 10
    BY <1>6
  <2>2. x = 0 /\ Materials(config)[i] \in Conductors
    BY <1>5, <2>1
  <2>3. ts[i] \in 1..MaxTolNm
    BY <1>4, <2>1, <2>2 DEF MaxTolNm
  <2> QED
    BY <1>3, <2>1, <2>2, <2>3
<1>7. ASSUME NEW x \in Nat, FailsAt(Perturbed(ts, i, x))
      PROVE  ~(x >= ts[i])
  BY <1>4, <1>5, <1>7
<1>8. CASE FailsAt(Plus(i))
  <2>1. ts[i] + 2 \in Nat /\ FailsAt(Perturbed(ts, i, ts[i] + 2))
    BY <1>4, <1>8 DEF Plus, StepNm
  <2> QED
    BY <1>4, <1>7, <2>1
<1>9. CASE HasMinus(i) /\ FailsAt(Minus(i))
  <2>1. ts[i] - 2 \in Nat /\ FailsAt(Perturbed(ts, i, ts[i] - 2))
    BY <1>4, <1>9 DEF HasMinus, Minus, StepNm
  <2> QED
    BY <1>4, <2>1
<1>10. ASSUME NEW d \in {-1, 1}, ReachFails(i, d)
       PROVE  LET r == Reach(i, d)
                  x == ts[i] + d * (r + 1)
              IN /\ r \in 0..9 /\ x \in Nat /\ FailsAt(Perturbed(ts, i, x))
  <2> DEFINE r == Reach(i, d)
             x == ts[i] + d * (r + 1)
  <2>1. r \in 0..10 /\ r < 10 /\ Probe(i, d, r + 1) = "raises"
    BY <1>10, ReachIs
  <2> HIDE DEF r
  <2>2. r + 1 \in Nat /\ x \in Int
    BY <1>4, <2>1
  <2>3. x >= 0 /\ FailsAt(Perturbed(ts, i, x))
    BY <1>3, <1>4, <2>1, <2>2, ProbeIs
  <2> QED
    BY <2>1, <2>2, <2>3 DEF r
<1>11. CASE ReachFails(i, -1)
  <2> DEFINE r == Reach(i, -1)
             x == ts[i] + (-1) * (r + 1)
  <2>1. r \in 0..9 /\ x \in Nat /\ FailsAt(Perturbed(ts, i, x))
    BY <1>10, <1>11
  <2> HIDE DEF r
  <2>2. x < ts[i] /\ ts[i] - x <= 10
    BY <1>4, <2>1
  <2> QED
    BY <2>1, <2>2
<1>12. CASE ReachFails(i, 1)
  <2> DEFINE r == Reach(i, 1)
             x == ts[i] + 1 * (r + 1)
  <2>1. r \in 0..9 /\ x \in Nat /\ FailsAt(Perturbed(ts, i, x))
    BY <1>10, <1>12
  <2> HIDE DEF r
  <2>2. x >= ts[i]
    BY <1>4, <2>1
  <2> QED
    BY <1>7, <2>1, <2>2
<1> QED
  BY <1>3, <1>8, <1>9, <1>11, <1>12 DEF LayerFails

(* A search that has its report loses it to its sensitivity only when a       *)
(* conductive layer of the best candidate is within reach of thickness zero   *)
(* and cannot be taken away (analyze_sensitivity).                            *)
THEOREM LostOnlyNearZero == SearchSpec => []ReportLostOnlyNearZero
  BY SearchInvHolds, LostNearZero, PTL

-----------------------------------------------------------------------------
(* The forward simulation of what was evaluated. *)

(* What a report offers has been scanned.                                     *)
LEMMA OfferedIsScanned ==
    ASSUME SearchInv, NEW m \in Offered
    PROVE  /\ Complete /\ config \in Spaces /\ ~SpaceFails(config)
           /\ m.thicknesses \in [1..3 -> Nat]
           /\ ~FailsAt(m.thicknesses)
           /\ m = EvaluateAt(m.thicknesses)
           /\ GivesNumbers(Stack(m.thicknesses, Materials(config)), config.substrate)
<1>1. report # None /\ m \in Range(report.candidates) \cup ({report.best_effort} \ {None})
  BY DEF Offered
<1>2. Complete /\ report = FromScan
  BY <1>1, Reported
<1>3. config.top_n \in Nat /\ config.top_n >= 1 /\ config \in Spaces /\ ~SpaceFails(config)
  BY <1>2, AsksForSome DEF Complete, InOrder
<1>4. /\ Range(report.candidates) \subseteq Range(scanned)
      /\ Best(Range(scanned), 1)[1] \in Range(scanned)
  BY <1>2, <1>3, ReportIs, GoodIs
<1>5. report.best_effort \in {None, Best(Range(scanned), 1)[1]}
  BY <1>2 DEF FromScan
<1>6. m \in Range(scanned)
  BY <1>1, <1>4, <1>5
<1>7. DOMAIN scanned = 1..Len(scanned)
  BY <1>2 DEF Complete, InOrder
<1>8. PICK k \in 1..Len(scanned) : m = scanned[k]
  BY <1>6, <1>7 DEF Range
<1>9. LET ts == Combination(config, k - 1)
      IN /\ scanned[k] = EvaluateAt(ts) /\ ~FailsAt(ts)
         /\ ts \in [1..3 -> Nat] /\ scanned[k].thicknesses = ts
         /\ GivesNumbers(Stack(ts, Materials(config)), config.substrate)
  BY <1>2, ScannedIs DEF Complete
<1> QED
  BY <1>2, <1>3, <1>8, <1>9

(* The simulation of a candidate has the same films, hence the same sums.     *)
LEMMA SimulatesWhatItOffers == SearchInv => ForwardAgrees
<1> SUFFICES ASSUME SearchInv, NEW m \in Offered
             PROVE  LET spec   == ForwardSpec(m)
                        result == Simulate(spec)
                    IN IF SimulateFails(spec)
                       THEN /\ m.se_min = None
                            /\ \E i \in 1..3 : /\ m.thicknesses[i] = 0
                                               /\ spec.layers[i].material \in SizeEffect
                       ELSE /\ result.conductance = m.conductance
                            /\ m.t_vis = SumFunction(Restrict(result.transmittance, Visible))
                                             \div Cardinality(Visible)
                            /\ m.se_min # None =>
                                  LET band == InBand(target.band, DOMAIN result.se)
                                  IN /\ \E f \in band : result.se[f] = m.se_min
                                     /\ \A f \in band : result.se[f] >= m.se_min
  BY DEF ForwardAgrees
<1> DEFINE ts     == m.thicknesses
           ms     == Materials(config)
           stack  == Stack(ts, ms)
           sub    == config.substrate
           band   == BandOf(target)
           spec   == ForwardSpec(m)
           result == Simulate(spec)
<1>1. /\ config \in Spaces /\ ~SpaceFails(config)
      /\ ts \in [1..3 -> Nat] /\ ~FailsAt(ts) /\ m = EvaluateAt(ts)
      /\ GivesNumbers(stack, sub)
  BY OfferedIsScanned
<1>2. /\ DOMAIN stack = 1..3
      /\ \A i \in 1..3 : stack[i].material = ms[i] /\ stack[i].thickness = ts[i]
  BY StackIs
<1>3. spec = [layers |-> stack, substrate |-> sub, wavelengths |-> None, freqs |-> None]
  BY DEF ForwardSpec
<1>4. m = Evaluate(ts, ms, sub, band) /\ ~EvaluateFails(ts, ms, sub, band)
  BY <1>1 DEF EvaluateAt, FailsAt
<1>5. sub \in Int /\ sub > 0
  BY <1>1 DEF Spaces, SpaceFails, RangesFail
<1> HIDE DEF ts, ms, stack, sub, band, spec
<1>6. /\ \A i \in 1..3 : ms[i] \in Known
      /\ Conductive(stack) # {} => Conducts(stack)
      /\ Conductive(stack) # {} /\ band # None
            => SizeEffectDefined(stack) /\ InBand(band, Frequencies) # {}
  BY <1>4 DEF EvaluateFails, stack
<1>7. SimulateFails(spec) <=> Conductive(stack) # {} /\ ~SizeEffectDefined(stack)
  <2>1. /\ spec.layers = stack /\ spec.substrate = sub
        /\ GridOr(spec.wavelengths, Wavelengths) = Wavelengths
        /\ GridOr(spec.freqs, Frequencies) = Frequencies
    BY <1>3 DEF GridOr
  <2>2. stack # << >> /\ ~(sub <= 0)
    <3>1. DOMAIN << >> = {} /\ DOMAIN stack # {}
      BY <1>2
    <3> QED
      BY <1>5, <3>1
  <2>3. ~ \E i \in DOMAIN stack : stack[i].thickness < 0 \/ stack[i].material \notin Known
    BY <1>1, <1>2, <1>6
  <2>4. ~ \E x \in Wavelengths \cup Frequencies : x <= 0
    BY VisibleAssumption, FrequenciesAreFinite DEF Frequencies
  <2> QED
    BY <1>6, <2>1, <2>2, <2>3, <2>4 DEF SimulateFails, OpticsFails
<1>8. /\ m.conductance = SheetConductanceOrNone(stack)
      /\ m.t_vis = VisibleAverage(stack, sub)
      /\ band = None \/ Conductive(stack) = {} => m.se_min = None
  BY <1>4 DEF Evaluate, stack
<1>9. CASE SimulateFails(spec)
  <2>1. m.se_min = None
    BY <1>6, <1>7, <1>8, <1>9
  <2>2. PICK i \in Conductive(stack) : stack[i].material \in SizeEffect /\ ~(stack[i].thickness > 0)
    BY <1>7, <1>9 DEF SizeEffectDefined
  <2>3. i \in 1..3
    BY <1>2, <2>2 DEF Conductive
  <2>4. ts[i] = 0 /\ spec.layers[i].material \in SizeEffect
    BY <1>1, <1>2, <1>3, <2>2, <2>3
  <2> QED
    BY <1>9, <2>1, <2>3, <2>4 DEF ts, spec
<1>10. CASE ~SimulateFails(spec)
  <2>1. result = [transmittance |-> Spectrum(stack, sub, Wavelengths),
                  conductance   |-> SheetConductanceOrNone(stack),
                  se |-> IF Conductive(stack) = {} THEN << >>
                         ELSE ShieldingSpectrum(stack, Frequencies)]
    BY <1>3 DEF Simulate, GridOr
  <2> HIDE DEF result
  <2>2. result.conductance = m.conductance
    BY <1>8, <2>1
  <2>3. Restrict(result.transmittance, Visible) = Spectrum(stack, sub, Visible)
    <3>1. Visible \subseteq Wavelengths
      BY DEF Visible
    <3>2. result.transmittance = Spectrum(stack, sub, Wavelengths)
      BY <2>1
    <3> HIDE DEF result
    <3> QED
      BY <3>1, <3>2 DEF Restrict, Spectrum
  <2>4. m.t_vis = SumFunction(Restrict(result.transmittance, Visible))
                      \div Cardinality(Visible)
    BY <1>8, <2>3 DEF VisibleAverage
  <2>5. ASSUME m.se_min # None
        PROVE  LET in == InBand(target.band, DOMAIN result.se)
               IN /\ \E f \in in : result.se[f] = m.se_min
                  /\ \A f \in in : result.se[f] >= m.se_min
    <3> DEFINE in == InBand(band, Frequencies)
               se == ShieldingSpectrum(stack, in)
    <3>1. band # None /\ Conductive(stack) # {}
      BY <1>8, <2>5
    <3>2. band = target.band
      BY <3>1 DEF BandOf, band
    <3>3. /\ result.se = ShieldingSpectrum(stack, Frequencies)
          /\ DOMAIN result.se = Frequencies
      BY <2>1, <3>1 DEF ShieldingSpectrum
    <3>4. in \in SUBSET Frequencies /\ in # {}
      BY <1>6, <3>1 DEF InBand
    <3>5. m.se_min = Min({se[f] : f \in DOMAIN se})
      BY <1>4, <3>1 DEF Evaluate, stack
    <3>6. \A f \in in : result.se[f] = Shielding(ConductiveFilms(stack), f)
      BY <3>3, <3>4 DEF ShieldingSpectrum
    <3> HIDE DEF in
    <3>7. /\ \E f \in in : Shielding(ConductiveFilms(stack), f) = m.se_min
          /\ \A f \in in : Shielding(ConductiveFilms(stack), f) >= m.se_min
      BY <1>1, <3>4, <3>5, LeastShielding
    <3>8. in = InBand(target.band, DOMAIN result.se)
      BY <3>2, <3>3 DEF in
    <3> QED
      BY <3>6, <3>7, <3>8
  <2> QED
    BY <1>10, <2>2, <2>4, <2>5 DEF spec, result
<1> QED
  BY <1>9, <1>10

(* What a search offers, the forward simulation gives the same numbers for,   *)
(* or refuses for a silver film of thickness zero found without shielding:    *)
(* evaluate_candidate and simulate agree, whatever the formulas of the        *)
(* physics.                                                                   *)
THEOREM OffersWhatItSimulates == SearchSpec => []ForwardAgrees
  BY SearchInvHolds, SimulatesWhatItOffers, PTL
-----------------------------------------------------------------------------
(* The engine around the search.  Whatever it is given, its searches are      *)
(* searches that some job asks for.                                           *)

ServerInv ==
    /\ script \in Scripts
    /\ pos \in 0..Len(script)
    /\ busy \in BOOLEAN
    /\ busy <=> phase # "idle"
    /\ engine \in {"up", "ended", "dead"}
    /\ busy => /\ engine = "up" /\ pos >= 1
               /\ script[pos].front = "rpc" => script[pos].form = "request"

(* The script is a sequence of items whose searches are Jobs.                 *)
LEMMA ScriptIs ==
    ASSUME script \in Scripts
    PROVE  /\ script \in Seq(Range(script)) /\ Len(script) \in Nat
           /\ \A n \in 1..Len(script) :
                 /\ script[n] \in Items
                 /\ JobsOf(script[n]) \subseteq Jobs
<1>1. script \in Seq(Range(script))
  BY ScriptsAssumption
<1>2. Len(script) \in Nat /\ DOMAIN script = 1..Len(script)
  BY <1>1
<1>3. ASSUME NEW n \in 1..Len(script)
      PROVE  script[n] \in Items
  BY <1>2 DEF Items, Range
<1>4. \A item \in Items : JobsOf(item) \subseteq Jobs
  BY ScriptsAssumption
<1> QED
  BY <1>1, <1>2, <1>3, <1>4

(* A simulation ends the server where it breaks, and is answered otherwise.   *)
LEMMA SimulateAnswers ==
    ASSUME RpcSimulate
    PROVE  /\ Item.front = "rpc" /\ Item.form = "request" /\ Item.method = "simulate"
           /\ ParamsOk(Item)
           /\ \/ Die /\ BreaksSimulate(Fields(Item.params))
              \/ \E code, result : Respond(Item, code, result)
<1> DEFINE p    == Fields(Item.params)
           spec == RpcSimulateSpec(p)
<1>1. /\ Item.front = "rpc" /\ Item.form = "request" /\ Item.method = "simulate"
      /\ ParamsOk(Item)
  BY DEF RpcSimulate, Take
<1>2. IF RpcSimulateOverflows(p) THEN Die
      ELSE IF RpcSimulateFails(p) THEN Respond(Item, InvalidParams, None)
      ELSE IF Breaks(p, spec) THEN Die
      ELSE IF SimulateFails(spec) THEN Respond(Item, Unprocessable, None)
      ELSE Respond(Item, Success, Simulate(spec))
  BY Zenon DEF RpcSimulate
<1> HIDE DEF p, spec
<1>3. \/ Die /\ RpcSimulateOverflows(p)
      \/ Die /\ ~RpcSimulateFails(p) /\ Breaks(p, spec)
      \/ Respond(Item, InvalidParams, None)
      \/ Respond(Item, Unprocessable, None)
      \/ Respond(Item, Success, Simulate(spec))
  BY <1>2, Zenon
<1> QED
  BY <1>1, <1>3, Zenon DEF BreaksSimulate, p, spec

(* What an item does to the search: nothing, or it asks for one of its jobs. *)
LEMMA TakenIs ==
    ASSUME ServerInv,
           RpcMalformed \/ RpcRefuse \/ RpcPing \/ RpcSimulate \/ RpcOptimize
             \/ HttpPost \/ CliOptimize
    PROVE  /\ pos < Len(script) /\ pos' = pos + 1 /\ script' = script
           /\ engine = "up" /\ busy = FALSE /\ engine' \in {"up", "dead"}
           /\ pos + 1 \in 1..Len(script) /\ pos \in Nat
           /\ Item \in Items /\ JobsOf(Item) \subseteq Jobs
           /\ \/ UNCHANGED searchVars /\ busy' = FALSE
              \/ /\ \E j \in JobsOf(Item) : Ask(j)
                 /\ busy' = TRUE /\ UNCHANGED <<engine, outbox>>
                 /\ Item.front = "rpc" => Item.form = "request"
<1>1. PICK front : Take(front)
  BY Zenon DEF RpcMalformed, RpcRefuse, RpcPing, RpcSimulate, RpcOptimize, HttpPost, CliOptimize
<1>2. /\ pos < Len(script) /\ pos' = pos + 1 /\ script' = script
      /\ engine = "up" /\ busy = FALSE
  BY <1>1 DEF Take, ServerInv
<1>3. pos \in Nat /\ pos + 1 \in 1..Len(script)
  BY <1>2, ScriptIs DEF ServerInv
<1>4. Item \in Items /\ JobsOf(Item) \subseteq Jobs
  BY <1>3, ScriptIs DEF ServerInv, Item
<1>5. ASSUME (\E written : AnswerNow(written)) \/ Die
               \/ \E code, result : Respond(Item, code, result)
      PROVE  UNCHANGED searchVars /\ busy' = FALSE /\ engine' \in {"up", "dead"}
  <2>1. ASSUME NEW written, AnswerNow(written)
        PROVE  UNCHANGED searchVars /\ busy' = FALSE /\ engine' \in {"up", "dead"}
    BY <1>2, <2>1 DEF AnswerNow
  <2>2. ASSUME Die
        PROVE  UNCHANGED searchVars /\ busy' = FALSE /\ engine' \in {"up", "dead"}
    BY <1>2, <2>2 DEF Die
  <2>3. ASSUME NEW code, NEW result, Respond(Item, code, result)
        PROVE  Die \/ \E written : AnswerNow(written)
    BY <2>3, Zenon DEF Respond
  <2> QED
    BY <1>5, <2>1, <2>2, <2>3
<1>6. ASSUME NEW j \in JobsOf(Item), StartSearch(j)
      PROVE  /\ \E k \in JobsOf(Item) : Ask(k)
             /\ busy' = TRUE /\ UNCHANGED <<engine, outbox>> /\ engine' \in {"up", "dead"}
  BY <1>2, <1>6 DEF StartSearch
<1>7. CASE RpcMalformed \/ RpcRefuse \/ RpcPing \/ RpcSimulate
  <2>1. (\E written : AnswerNow(written)) \/ Die
        \/ \E code, result : Respond(Item, code, result)
    <3>1. CASE RpcMalformed
      BY <3>1, Zenon DEF RpcMalformed
    <3>2. CASE RpcRefuse \/ RpcPing
      BY <3>2, Zenon DEF RpcRefuse, RpcPing
    <3>3. CASE RpcSimulate
      BY <3>3, SimulateAnswers
    <3> QED
      BY <1>7, <3>1, <3>2, <3>3
  <2> QED
    BY <1>2, <1>3, <1>4, <1>5, <2>1
<1>8. CASE RpcOptimize
  <2> DEFINE p == Fields(Item.params)
  <2>1. CASE RpcOptimizeOverflows(p) \/ RpcOptimizeFails(p)
    <3>1. Die \/ Respond(Item, InvalidParams, None)
      BY <1>8, <2>1 DEF RpcOptimize
    <3> QED
      BY <1>2, <1>3, <1>4, <1>5, <3>1
  <2>2. CASE ~RpcOptimizeOverflows(p) /\ ~RpcOptimizeFails(p)
    <3>1. /\ StartSearch(RpcJob(p)) /\ Item.front = "rpc" /\ Item.form = "request"
          /\ Item.method = "optimize" /\ ParamsOk(Item)
      BY <1>8, <2>2 DEF RpcOptimize, Take
    <3>2. RpcJob(p) \in JobsOf(Item)
      BY <2>2, <3>1 DEF JobsOf
    <3> QED
      BY <1>2, <1>3, <1>4, <1>6, <3>1, <3>2
  <2> QED
    BY <2>1, <2>2
<1>9. CASE HttpPost
  <2>1. Item.front = "http"
    BY <1>9 DEF HttpPost, Take
  <2>2. CASE \E written : AnswerNow(written)
    BY <1>2, <1>3, <1>4, <1>5, <2>2
  <2>3. CASE ~ \E written : AnswerNow(written)
    <3>1. /\ Item.route = "/optimize" /\ ~HttpOptimizeFails(Item.body)
          /\ StartSearch(HttpJob(Item.body))
      BY <1>9, <2>3 DEF HttpPost
    <3>2. HttpJob(Item.body) \in JobsOf(Item)
      BY <2>1, <3>1 DEF JobsOf
    <3> QED
      BY <1>2, <1>3, <1>4, <1>6, <2>1, <3>1, <3>2
  <2> QED
    BY <2>2, <2>3
<1>10. CASE CliOptimize
  <2>1. Item.front = "cli" /\ StartSearch(CliJob(Item.args))
    BY <1>10 DEF CliOptimize, Take
  <2>2. CliJob(Item.args) \in JobsOf(Item)
    BY <2>1 DEF JobsOf
  <2> QED
    BY <1>2, <1>3, <1>4, <1>6, <2>1, <2>2
<1> QED
  BY <1>7, <1>8, <1>9, <1>10
-----------------------------------------------------------------------------
Takes == RpcMalformed \/ RpcRefuse \/ RpcPing \/ RpcSimulate \/ RpcOptimize
         \/ HttpPost \/ CliOptimize

(* A request starts a search.                                                 *)
LEMMA AskStarts ==
    ASSUME NEW j, Ask(j) PROVE phase = "idle" /\ phase' # "idle"
<1>1. phase' \in {"refused", "exhausted", "scanning"} /\ phase = "idle"
  BY DEF Ask
<1> QED
  BY <1>1

(* A step of a search neither starts nor returns it.                          *)
LEMMA SearchGoesOn ==
    SearchStep => phase # "idle" /\ phase' \notin {"idle", "exhausted"}
<1>1. ASSUME EvaluateNext PROVE phase = "scanning" /\ phase' \in {"refused", "scanning"}
  BY <1>1 DEF EvaluateNext
<1>2. ASSUME Rank PROVE phase = "scanning" /\ phase' \in {"analysing", "done"}
  BY <1>2 DEF Rank
<1>3. ASSUME AnalyseLayer PROVE phase = "analysing" /\ phase' \in {"lost", "done", "analysing"}
  BY <1>3 DEF AnalyseLayer
<1> QED
  BY <1>1, <1>2, <1>3 DEF SearchStep

(* Every step keeps ServerInv and is a step of the search or leaves it alone. *)
LEMMA ServerStep ==
    ServerInv /\ [Next]_vars => ServerInv' /\ [SearchNext]_searchVars
<1> SUFFICES ASSUME ServerInv, [Next]_vars
             PROVE  ServerInv' /\ [SearchNext]_searchVars
  OBVIOUS
<1>1. CASE Takes
  <2>1. /\ pos' = pos + 1 /\ script' = script /\ engine = "up" /\ busy = FALSE
        /\ engine' \in {"up", "dead"} /\ pos + 1 \in 1..Len(script) /\ pos \in Nat
        /\ JobsOf(Item) \subseteq Jobs
        /\ \/ UNCHANGED searchVars /\ busy' = FALSE
           \/ /\ \E j \in JobsOf(Item) : Ask(j)
              /\ busy' = TRUE /\ UNCHANGED <<engine, outbox>>
              /\ Item.front = "rpc" => Item.form = "request"
    BY <1>1, TakenIs DEF Takes
  <2>2. pos' \in 0..Len(script') /\ pos' >= 1 /\ script' \in Scripts
    BY <2>1 DEF ServerInv
  <2>3. CASE UNCHANGED searchVars /\ busy' = FALSE
    <3>1. phase' = phase /\ phase = "idle"
      BY <2>1, <2>3 DEF ServerInv, searchVars
    <3> QED
      BY <2>1, <2>2, <2>3, <3>1 DEF ServerInv
  <2>4. CASE /\ \E j \in JobsOf(Item) : Ask(j)
             /\ busy' = TRUE /\ UNCHANGED <<engine, outbox>>
             /\ Item.front = "rpc" => Item.form = "request"
    <3>1. phase' # "idle"
      BY <2>4, AskStarts
    <3>2. script'[pos'] = Item
      BY <2>1 DEF Item
    <3>3. SearchNext
      BY <2>1, <2>4 DEF SearchNext
    <3> QED
      BY <2>1, <2>2, <2>4, <3>1, <3>2, <3>3 DEF ServerInv
  <2> QED
    BY <2>1, <2>3, <2>4
<1>2. CASE AnswerSearch
  <2>1. /\ busy /\ Return /\ busy' = FALSE /\ UNCHANGED <<script, pos>>
        /\ engine' \in {"up", "dead"} \/ engine' = engine
    BY <1>2, Zenon DEF AnswerSearch
  <2>2. phase' = "idle"
    BY <2>1 DEF Return
  <2> QED
    BY <2>1, <2>2 DEF ServerInv, SearchNext
<1>3. CASE Eof
  <2>1. ~busy /\ UNCHANGED <<script, pos, busy, searchVars>> /\ engine' = "ended"
    BY <1>3 DEF Eof
  <2> QED
    BY <2>1 DEF ServerInv, searchVars
<1>4. CASE Search
  <2>1. busy /\ SearchStep /\ UNCHANGED <<script, pos, busy, outbox, engine>>
    BY <1>4 DEF Search, serverVars
  <2> QED
    BY <2>1, SearchGoesOn DEF ServerInv, SearchNext
<1>5. CASE UNCHANGED vars
  BY <1>5 DEF ServerInv, vars, serverVars, searchVars
<1> QED
  BY <1>1, <1>2, <1>3, <1>4, <1>5 DEF Next, Serve, Over, Takes

(* The engine starts idle.                                                    *)
LEMMA ServerInit == Init => ServerInv /\ SearchInit
<1> SUFFICES ASSUME Init PROVE ServerInv /\ SearchInit
  OBVIOUS
<1>1. script \in Scripts /\ pos = 0 /\ busy = FALSE /\ engine = "up" /\ SearchInit
  BY DEF Init
<1>2. 0 \in 0..Len(script)
  BY <1>1, ScriptIs
<1>3. phase = "idle"
  BY <1>1 DEF SearchInit
<1> QED
  BY <1>1, <1>2, <1>3 DEF ServerInv

(* ServerInv holds always.                                                    *)
LEMMA ServerInvHolds == Spec => []ServerInv
  BY ServerInit, ServerStep, PTL DEF Spec

(* The searches of an engine are searches, one after another, of the jobs it  *)
(* may be asked for: whatever lines, bodies or options it is given, the       *)
(* front ends change nothing about a search but its request.  What the        *)
(* theorems above say of SearchSpec holds of the engine.                      *)
THEOREM EngineSearches == Spec => SearchSpec
<1>1. Init => SearchInit
  BY ServerInit
<1>2. ServerInv /\ [Next]_vars => [SearchNext]_searchVars
  BY ServerStep
<1> QED
  BY <1>1, <1>2, ServerInvHolds, PTL DEF Spec, SearchSpec

(* So every report an engine gives is right: it speaks of the whole grid, has  *)
(* the best candidates in their order, with the numbers a simulation of them  *)
(* gives and tolerances that hold, and is lost only near thickness zero.       *)
THEOREM EngineReportsAreRight ==
    Spec => [](/\ ScanIsTheGrid /\ CandidatesAreBest /\ ForwardAgrees
               /\ TolerancesHold /\ ReportLostOnlyNearZero)
<1> QED
  BY EngineSearches, ScansTheGrid, RanksTheBest, OffersWhatItSimulates,
     TolerancesAreTrue, LostOnlyNearZero, PTL

(* The two invariants have the types.                                         *)
LEMMA ServerIsTyped == ServerInv /\ SearchInv => TypeOK
  BY SearchIsTyped DEF ServerInv, TypeOK

(* The engine searches exactly while an item waits for its answer, and takes  *)
(* items only up to the end of its input (serve).                             *)
THEOREM EngineIsTypeCorrect == Spec => []TypeOK
  BY EngineSearches, SearchInvHolds, ServerInvHolds, ServerIsTyped, PTL
-----------------------------------------------------------------------------
(* FlattenSeq, one sequence more at a time. *)
Flat(s, n, f) == f = [i \in 1..n |-> IF i = 1 THEN s[i] ELSE f[i - 1] \o s[i]]

(* FlattenSeq is the last value of that function.                             *)
LEMMA FlattenIs ==
    ASSUME NEW s, Len(s) # 0
    PROVE  FlattenSeq(s) = (CHOOSE f : Flat(s, Len(s), f))[Len(s)]
  BY DEF FlattenSeq, Flat

(* A non-empty set of the first n numbers has a least one. *)
LEMMA FirstOf ==
    ASSUME NEW n \in Nat, NEW T, T \subseteq 1..n, T # {}
    PROVE  \E i \in T : \A k \in 1..(i - 1) : k \notin T
<1>1. IsFiniteSet(T) /\ T \subseteq Int
  <2>1. IsFiniteSet(1..n) /\ T \in SUBSET (1..n)
    BY IntervalIsFinite
  <2>2. IsFiniteSet(T)
    BY <2>1, FS_Subset
  <2> QED
    BY <2>2
<1>2. Min(T) \in T /\ \A k \in T : Min(T) <= k
  BY <1>1, Least
<1>3. \A k \in 1..(Min(T) - 1) : k \notin T
  <2> DEFINE m == Min(T)
  <2> HIDE DEF m
  <2>1. m \in Int /\ \A k \in T : m <= k
    BY <1>1, <1>2 DEF m
  <2> QED
    BY <2>1 DEF m
<1> QED
  BY <1>2, <1>3

(* There is such a function.                                                  *)
LEMMA FlatExists ==
    ASSUME NEW s, NEW n \in Nat
    PROVE  \E f : Flat(s, n, f)
<1> DEFINE T == {m \in 1..n : ~ \E f : Flat(s, m, f)}
<1>1. CASE n = 0
  <2>1. Flat(s, n, [i \in 1..n |-> 0])
    BY <1>1 DEF Flat
  <2> QED
    BY <2>1
<1>2. CASE n # 0 /\ T = {}
  <2>1. n \in 1..n
    BY <1>2
  <2> QED
    BY <1>2, <2>1
<1>3. CASE T # {}
  <2>1. PICK m \in T : \A k \in 1..(m - 1) : k \notin T
    <3>1. T \subseteq 1..n
      OBVIOUS
    <3> HIDE DEF T
    <3> QED
      BY <1>3, <3>1, FirstOf
  <2>2. m \in 1..n /\ ~ \E f : Flat(s, m, f)
    OBVIOUS
  <2>3. CASE m = 1
    <3> DEFINE f == [i \in 1..m |-> s[i]]
    <3>1. Flat(s, m, f)
      BY <2>3 DEF Flat
    <3> QED
      BY <2>2, <3>1
  <2>4. CASE m # 1
    <3>1. m - 1 \in 1..n /\ m - 1 \in 1..(m - 1)
      BY <2>2, <2>4
    <3>2. PICK g : Flat(s, m - 1, g)
      BY <2>1, <3>1
    <3> DEFINE h == [i \in 1..m |-> IF i = m THEN g[m - 1] \o s[m] ELSE g[i]]
    <3>3. ASSUME NEW i \in 1..m
          PROVE  h[i] = IF i = 1 THEN s[i] ELSE h[i - 1] \o s[i]
      <4>1. CASE i = m
        <5>1. i - 1 \in 1..m /\ i - 1 # m /\ i # 1
          BY <2>2, <2>4, <4>1
        <5> QED
          BY <4>1, <5>1
      <4>2. CASE i # m
        <5>1. i \in 1..(m - 1) /\ h[i] = g[i]
          BY <2>2, <4>2
        <5>2. g[i] = IF i = 1 THEN s[i] ELSE g[i - 1] \o s[i]
          BY <3>2, <5>1 DEF Flat
        <5>3. i # 1 => i - 1 \in 1..m /\ i - 1 # m
          BY <2>2, <5>1
        <5> QED
          BY <5>1, <5>2, <5>3
      <4> QED
        BY <4>1, <4>2
    <3>4. h = [i \in 1..m |-> h[i]]
      OBVIOUS
    <3>5. Flat(s, m, h)
      <4> HIDE DEF h
      <4> QED
        BY <3>3, <3>4 DEF Flat
    <3> QED
      BY <2>2, <3>5
  <2> QED
    BY <2>3, <2>4
<1> QED
  BY <1>1, <1>2, <1>3

SameTo(f, g, m) == \A i \in 1..m : f[i] = g[i]

(* It depends on no more of the sequences than it has seen.                   *)
LEMMA FlatAgrees ==
    ASSUME NEW n \in Nat, NEW m \in 0..n, NEW s, NEW t, SameTo(s, t, m),
           NEW f, Flat(s, m, f), NEW g, Flat(t, n, g)
    PROVE  SameTo(f, g, m)
<1> DEFINE T == {i \in 1..m : f[i] # g[i]}
<1> SUFFICES ASSUME T # {} PROVE FALSE
  BY DEF SameTo
<1>1. PICK i \in T : \A k \in 1..(i - 1) : k \notin T
  <2>1. T \subseteq 1..m /\ m \in Nat
    OBVIOUS
  <2> HIDE DEF T
  <2> QED
    BY <2>1, FirstOf
<1>2. i \in 1..m /\ i \in 1..n /\ f[i] # g[i]
  OBVIOUS
<1>3. /\ f[i] = IF i = 1 THEN s[i] ELSE f[i - 1] \o s[i]
      /\ g[i] = IF i = 1 THEN t[i] ELSE g[i - 1] \o t[i]
  BY <1>2 DEF Flat
<1>4. i # 1 => f[i - 1] = g[i - 1]
  <2>1. i # 1 => i - 1 \in 1..(i - 1) /\ i - 1 \in 1..m
    BY <1>2
  <2> QED
    BY <1>1, <2>1
<1> QED
  BY <1>2, <1>3, <1>4 DEF SameTo

(* A sequence of sequences with one more is flattened to what it was and that *)
(* one.                                                                       *)
LEMMA FlattenOneMore ==
    ASSUME NEW n \in Nat, NEW s, NEW t, Len(t) = n, Len(s) = n + 1,
           \A i \in 1..n : t[i] = s[i]
    PROVE  FlattenSeq(s) = IF n = 0 THEN s[1] ELSE FlattenSeq(t) \o s[n + 1]
<1> DEFINE F == CHOOSE f : Flat(s, n + 1, f)
           G == CHOOSE g : Flat(t, n, g)
<1>1. Flat(s, n + 1, F) /\ Flat(t, n, G)
  <2>1. \E g : Flat(t, n, g)
    BY FlatExists
  <2>2. n + 1 \in Nat
    OBVIOUS
  <2>3. \E f : Flat(s, n + 1, f)
    BY <2>2, FlatExists
  <2> QED
    BY <2>1, <2>3
<1>2. FlattenSeq(s) = F[n + 1]
  BY FlattenIs
<1>3. n # 0 => FlattenSeq(t) = G[n]
  BY FlattenIs
<1> HIDE DEF F, G
<1>4. F[n + 1] = IF n + 1 = 1 THEN s[n + 1] ELSE F[(n + 1) - 1] \o s[n + 1]
  <2>1. n + 1 \in 1..(n + 1)
    OBVIOUS
  <2> QED
    BY <1>1, <2>1 DEF Flat
<1>5. n # 0 => F[n] = G[n]
  <2> DEFINE k == n + 1
  <2>1. k \in Nat /\ n \in 0..k
    OBVIOUS
  <2>2. Flat(s, k, F) /\ Flat(t, n, G)
    BY <1>1
  <2> HIDE DEF k
  <2>3. SameTo(t, s, n)
    BY DEF SameTo
  <2>4. SameTo(G, F, n)
    BY ONLY <2>1, <2>2, <2>3, FlatAgrees
  <2> QED
    BY <2>4 DEF SameTo
<1> QED
  BY <1>2, <1>3, <1>4, <1>5
-----------------------------------------------------------------------------
(* The answers. *)

IsSequence(s) == \E S : s \in Seq(S)

Ids(s) == [i \in DOMAIN s |-> s[i].id]

(* The ids of an outbox with one answer more.                                 *)
LEMMA Appended ==
    ASSUME NEW s, IsSequence(s), NEW x
    PROVE  /\ IsSequence(Append(s, x))
           /\ Ids(Append(s, x)) = Ids(s) \o <<x.id>>
           /\ Ids(s) \o << >> = Ids(s)
<1>1. PICK S : s \in Seq(S)
  BY DEF IsSequence
<1> DEFINE T == S \cup {x}
           t == Append(s, x)
           n == Len(s)
           p == Ids(s)
           q == Ids(t)
<1>2. s \in Seq(T)
  BY <1>1
<1>3. n \in Nat /\ DOMAIN s = 1..n
  BY <1>1
<1>4. /\ t \in Seq(T) /\ DOMAIN t = 1..(n + 1)
      /\ t[n + 1] = x /\ \A i \in 1..n : t[i] = s[i]
  BY <1>2
<1> HIDE DEF t, n
<1> DEFINE U == {y.id : y \in T}
<1>5. p = [i \in 1..n |-> s[i].id] /\ q = [i \in 1..(n + 1) |-> t[i].id]
  BY <1>3, <1>4 DEF Ids
<1>6. \A i \in 1..n : s[i] \in T
  BY <1>2, <1>3
<1>7. p \in [1..n -> U]
  BY <1>5, <1>6
<1>8. p \in Seq(U) /\ Len(p) = n
  BY <1>3, <1>7
<1>9. x.id \in U
  OBVIOUS
<1> HIDE DEF U, p, q
<1>10. /\ p \o <<x.id>> \in Seq(U) /\ DOMAIN (p \o <<x.id>>) = 1..(n + 1)
       /\ (p \o <<x.id>>)[n + 1] = x.id
       /\ \A i \in 1..n : (p \o <<x.id>>)[i] = p[i]
  BY <1>3, <1>8, <1>9
<1>11. q = p \o <<x.id>>
  <2>1. \A i \in 1..(n + 1) : q[i] = (p \o <<x.id>>)[i]
    BY <1>3, <1>4, <1>5, <1>10
  <2>2. DOMAIN q = 1..(n + 1) /\ q = [i \in 1..(n + 1) |-> q[i]]
    BY <1>5
  <2>3. p \o <<x.id>> = [i \in 1..(n + 1) |-> (p \o <<x.id>>)[i]]
    <3> DEFINE c == p \o <<x.id>>
    <3>1. c \in Seq(U) /\ DOMAIN c = 1..(n + 1)
      BY <1>10
    <3> HIDE DEF c
    <3>2. c = [i \in DOMAIN c |-> c[i]]
      BY <3>1
    <3> QED
      BY <3>1, <3>2 DEF c
  <2> QED
    BY <2>1, <2>2, <2>3
<1>12. p \o << >> = p
  BY <1>8
<1> QED
  BY <1>4, <1>11, <1>12 DEF IsSequence, t, p, q

(* An item asks for one answer at most.                                       *)
LEMMA ExpectsIs ==
    ASSUME NEW item \in Items
    PROVE  Expects(item) \in {<< >>, <<0>>, <<item.id>>}
<1>1. item.front \in {"rpc", "http", "cli"} /\ (item.front = "rpc" => item.form \in Forms)
  BY ScriptsAssumption
<1> QED
  BY <1>1 DEF Expects, Forms

(* One item more asks for its own answer more. *)
LEMMA ExpectedIs ==
    ASSUME script \in Scripts
    PROVE  /\ Expected(0) = << >>
           /\ \A n \in 0..Len(script) : IsSequence(Expected(n))
           /\ \A n \in 0..(Len(script) - 1) :
                 Expected(n + 1) = Expected(n) \o Expects(script[n + 1])
<1> DEFINE L == Len(script)
           Of(n) == [i \in 1..n |-> Expects(script[i])]
           S == {<< >>, <<0>>}
<1>1. L \in Nat /\ \A n \in 1..L : script[n] \in Items
  BY ScriptIs
<1>2. Expected(0) = << >>
  <2>1. Of(0) = << >> /\ Len(Of(0)) = 0
    OBVIOUS
  <2> QED
    BY <2>1 DEF Expected, FlattenSeq
<1>3. ASSUME NEW n \in 0..(L - 1)
      PROVE  Expected(n + 1) = IF n = 0 THEN Expects(script[n + 1])
                               ELSE Expected(n) \o Expects(script[n + 1])
  <2> DEFINE s == Of(n + 1)
             t == Of(n)
  <2>1. n \in Nat /\ n + 1 \in Nat /\ n + 1 \in 1..(n + 1)
    BY <1>1
  <2>2. Len(t) = n /\ Len(s) = n + 1 /\ (\A i \in 1..n : t[i] = s[i])
        /\ s[n + 1] = Expects(script[n + 1])
    BY <2>1
  <2>3. Expected(n + 1) = FlattenSeq(s) /\ Expected(n) = FlattenSeq(t)
    BY DEF Expected
  <2> HIDE DEF s, t
  <2>4. FlattenSeq(s) = IF n = 0 THEN s[1] ELSE FlattenSeq(t) \o s[n + 1]
    BY <2>1, <2>2, FlattenOneMore
  <2>5. CASE n = 0
    BY <2>2, <2>3, <2>4, <2>5
  <2>6. CASE n # 0
    BY <2>2, <2>3, <2>4, <2>6
  <2> QED
    BY <2>5, <2>6
<1>4. ASSUME NEW n \in 0..(L - 1)
      PROVE  Expects(script[n + 1]) \in Seq({0, script[n + 1].id})
  <2>1. script[n + 1] \in Items
    <3>1. n + 1 \in 1..L
      BY <1>1
    <3> QED
      BY <1>1, <3>1
  <2>2. Expects(script[n + 1]) \in {<< >>, <<0>>, <<script[n + 1].id>>}
    BY <2>1, ExpectsIs
  <2> DEFINE x == script[n + 1].id
  <2>3. << >> \in Seq({0, x}) /\ <<0>> \in Seq({0, x}) /\ <<x>> \in Seq({0, x})
    OBVIOUS
  <2> QED
    BY <2>2, <2>3
<1>5. ASSUME NEW n \in 0..(L - 1)
      PROVE  Expected(n + 1) = Expected(n) \o Expects(script[n + 1])
  <2>1. CASE n = 0
    <3> DEFINE e == Expects(script[n + 1])
    <3>1. PICK U : e \in Seq(U)
      BY <1>4
    <3> HIDE DEF e
    <3>2. << >> \o e = e
      BY <3>1
    <3>3. Expected(n + 1) = e /\ Expected(n) = << >>
      BY <1>2, <1>3, <2>1 DEF e
    <3> QED
      BY <3>2, <3>3 DEF e
  <2>2. CASE n # 0
    BY <1>3, <2>2
  <2> QED
    BY <2>1, <2>2
<1>6. \A n \in 0..L : IsSequence(Expected(n))
  <2> DEFINE T == {n \in 1..L : ~IsSequence(Expected(n))}
  <2>1. IsSequence(Expected(0))
    <3>1. << >> \in Seq({})
      OBVIOUS
    <3> QED
      BY <1>2, <3>1 DEF IsSequence
  <2>2. SUFFICES ASSUME T # {} PROVE FALSE
    BY <1>1, <2>1
  <2>3. PICK n \in T : \A k \in 1..(n - 1) : k \notin T
    <3>1. T \subseteq 1..L
      OBVIOUS
    <3> HIDE DEF T
    <3> QED
      BY <1>1, <2>2, <3>1, FirstOf
  <2> DEFINE m == n - 1
  <2>4. m \in 0..(L - 1) /\ n = m + 1 /\ n \in 1..L
    BY <1>1
  <2>5. IsSequence(Expected(m))
    <3>1. CASE m = 0
      BY <2>1, <3>1
    <3>2. CASE m # 0
      <4>1. m \in 1..(n - 1) /\ m \in 1..L
        BY <1>1, <2>4, <3>2
      <4> QED
        BY <2>3, <4>1
    <3> QED
      BY <3>1, <3>2
  <2> HIDE DEF m
  <2>6. PICK U : Expected(m) \in Seq(U)
    BY <2>5 DEF IsSequence
  <2>7. PICK V : Expects(script[m + 1]) \in Seq(V)
    BY <1>4, <2>4
  <2>8. Expected(m) \in Seq(U \cup V) /\ Expects(script[m + 1]) \in Seq(U \cup V)
    BY <2>6, <2>7
  <2>9. Expected(m) \o Expects(script[m + 1]) \in Seq(U \cup V)
    BY <2>8
  <2> QED
    BY <1>5, <2>4, <2>9 DEF IsSequence
<1> QED
  BY <1>2, <1>5, <1>6
-----------------------------------------------------------------------------
(* What a request is answered with, when it is answered. *)
Asked(item) == IF item.id = 0 THEN << >> ELSE <<item.id>>

(* What is written, under which id.                                           *)
LEMMA Written ==
    ASSUME IsSequence(outbox), NEW item, NEW code, NEW result
    PROVE  LET r == Reply(item, code, result)
               p == Protest(code)
               a == Append(outbox, Answer(item.id, code, result))
           IN /\ IsSequence(r) /\ Ids(r) = Ids(outbox) \o Asked(item)
              /\ IsSequence(p) /\ Ids(p) = Ids(outbox) \o <<0>>
              /\ IsSequence(a) /\ Ids(a) = Ids(outbox) \o <<item.id>>
              /\ Ids(outbox) \o << >> = Ids(outbox)
<1> DEFINE x == Answer(item.id, code, result)
           y == Answer(0, code, None)
<1>1. x.id = item.id /\ y.id = 0
  BY DEF Answer
<1> HIDE DEF x, y
<1>2. /\ IsSequence(Append(outbox, x)) /\ Ids(Append(outbox, x)) = Ids(outbox) \o <<x.id>>
      /\ IsSequence(Append(outbox, y)) /\ Ids(Append(outbox, y)) = Ids(outbox) \o <<y.id>>
      /\ Ids(outbox) \o << >> = Ids(outbox)
  BY Appended
<1>3. /\ Reply(item, code, result) = IF item.id = 0 THEN outbox ELSE Append(outbox, x)
      /\ Protest(code) = Append(outbox, y)
  BY DEF Reply, Protest, x, y
<1>4. Append(outbox, Answer(item.id, code, result)) = Append(outbox, x)
  BY DEF x
<1>5. CASE item.id = 0
  BY <1>1, <1>2, <1>3, <1>4, <1>5 DEF Asked
<1>6. CASE item.id # 0
  BY <1>1, <1>2, <1>3, <1>4, <1>6 DEF Asked
<1> QED
  BY <1>5, <1>6

(* A line that is no request is answered as it asks.                          *)
LEMMA MalformedAnswer ==
    ASSUME ServerInv, IsSequence(outbox), RpcMalformed
    PROVE  \/ /\ engine' = "up" /\ busy' = FALSE
              /\ IsSequence(outbox') /\ Ids(outbox') = Ids(outbox) \o Expects(Item)
           \/ engine' = "dead" /\ busy' = FALSE /\ outbox' = outbox /\ EndsTheEngine(Item)
<1>1. /\ Item.front = "rpc" /\ Item \in Items /\ engine = "up" /\ busy = FALSE
  BY TakenIs DEF RpcMalformed, Take
<1> DEFINE e == Expects(Item)
<1>2. /\ Item.form = "blank" => e = << >>
      /\ Item.form \in {"oversized", "unparsable", "not_object"} => e = <<0>>
      /\ Item.form = "no_method" => e = <<Item.id>>
  <2>1. e = CASE Item.form = "blank" -> << >>
              [] Item.form \in {"oversized", "unparsable", "unloadable", "not_object"} -> <<0>>
              [] Item.form = "no_method" -> <<Item.id>>
              [] OTHER -> IF Item.id = 0 THEN << >> ELSE <<Item.id>>
    BY <1>1 DEF Expects
  <2> HIDE DEF e
  <2> QED
    BY <2>1
<1>3. ASSUME NEW written, AnswerNow(written)
      PROVE  outbox' = written /\ engine' = "up" /\ busy' = FALSE
  BY <1>1, <1>3 DEF AnswerNow
<1>4. Die => engine' = "dead" /\ busy' = FALSE /\ outbox' = outbox
  BY <1>1 DEF Die
<1> DEFINE a == Append(outbox, Answer(Item.id, InvalidRequest, None))
<1>5. \/ Item.form = "blank" /\ AnswerNow(outbox)
      \/ Item.form \in {"oversized", "not_object"} /\ AnswerNow(Protest(InvalidRequest))
      \/ Item.form = "unparsable" /\ AnswerNow(Protest(ParseError))
      \/ Item.form = "unloadable" /\ Die
      \/ Item.form = "no_method" /\ (IF Unwritable(Item) THEN Die ELSE AnswerNow(a))
  BY DEF RpcMalformed
<1> HIDE DEF e, a
<1>6. CASE Item.form = "blank" /\ AnswerNow(outbox)
  BY <1>2, <1>3, <1>6, Written DEF e
<1>7. CASE Item.form \in {"oversized", "not_object"} /\ AnswerNow(Protest(InvalidRequest))
  <2>1. outbox' = Protest(InvalidRequest) /\ engine' = "up" /\ busy' = FALSE
    BY <1>3, <1>7
  <2>2. Expects(Item) = <<0>>
    BY <1>2, <1>7 DEF e
  <2> QED
    BY <2>1, <2>2, Written
<1>8. CASE Item.form = "unparsable" /\ AnswerNow(Protest(ParseError))
  <2>1. outbox' = Protest(ParseError) /\ engine' = "up" /\ busy' = FALSE
    BY <1>3, <1>8
  <2>2. Expects(Item) = <<0>>
    BY <1>2, <1>8 DEF e
  <2> QED
    BY <2>1, <2>2, Written
<1>9. CASE Item.form = "unloadable" /\ Die
  BY <1>1, <1>4, <1>9 DEF EndsTheEngine
<1>10. CASE Item.form = "no_method" /\ (IF Unwritable(Item) THEN Die ELSE AnswerNow(a))
  <2>1. CASE Unwritable(Item)
    BY <1>1, <1>4, <1>10, <2>1 DEF EndsTheEngine
  <2>2. CASE ~Unwritable(Item)
    <3>1. outbox' = a /\ engine' = "up" /\ busy' = FALSE
      BY <1>3, <1>10, <2>2
    <3> QED
      BY <1>2, <1>10, <3>1, Written DEF e, a
  <2> QED
    BY <2>1, <2>2
<1> QED
  BY <1>5, <1>6, <1>7, <1>8, <1>9, <1>10

(* A request asks for an answer under its id, unless it has none.             *)
LEMMA RequestExpects ==
    ASSUME NEW item \in Items, item.front \in {"rpc", "http"},
           item.front = "rpc" => item.form = "request"
    PROVE  Expects(item) = Asked(item)
<1>1. CASE item.front = "rpc"
  BY <1>1 DEF Expects, Asked
<1>2. CASE item.front = "http"
  <2>1. item.id # 0
    BY <1>2, ScriptsAssumption
  <2> QED
    BY <1>2, <2>1 DEF Expects, Asked
<1> QED
  BY <1>1, <1>2

(* An item taken is answered as it asks, or starts a search, or ends the      *)
(* engine.                                                                    *)
LEMMA TakesAnswer ==
    ASSUME ServerInv, IsSequence(outbox), Takes
    PROVE  \/ /\ engine' = "up" /\ busy' = FALSE
              /\ IsSequence(outbox') /\ Ids(outbox') = Ids(outbox) \o Expects(Item)
           \/ engine' = "up" /\ busy' = TRUE /\ outbox' = outbox
           \/ engine' = "dead" /\ busy' = FALSE /\ outbox' = outbox /\ EndsTheEngine(Item)
<1>1. /\ Item \in Items /\ engine = "up" /\ busy = FALSE
  BY TakenIs DEF Takes
<1>2. ASSUME NEW written, AnswerNow(written)
      PROVE  outbox' = written /\ engine' = "up" /\ busy' = FALSE
  BY <1>1, <1>2 DEF AnswerNow
<1>3. ASSUME NEW code, NEW result, AnswerNow(Reply(Item, code, result)),
             Item.front \in {"rpc", "http"}, Item.front = "rpc" => Item.form = "request"
      PROVE  /\ engine' = "up" /\ busy' = FALSE
             /\ IsSequence(outbox') /\ Ids(outbox') = Ids(outbox) \o Expects(Item)
  <2>1. outbox' = Reply(Item, code, result) /\ engine' = "up" /\ busy' = FALSE
    BY <1>2, <1>3
  <2>2. Expects(Item) = Asked(Item)
    BY <1>1, <1>3, RequestExpects
  <2> QED
    BY <2>1, <2>2, Written
<1>4. ASSUME NEW j, StartSearch(j)
      PROVE  engine' = "up" /\ busy' = TRUE /\ outbox' = outbox
  BY <1>1, <1>4 DEF StartSearch
<1>5. CASE RpcMalformed
  BY <1>5, MalformedAnswer
<1> DEFINE Answered == /\ engine' = "up" /\ busy' = FALSE
                       /\ IsSequence(outbox') /\ Ids(outbox') = Ids(outbox) \o Expects(Item)
           Ended == engine' = "dead" /\ busy' = FALSE /\ outbox' = outbox
<1>10. Die => Ended
  BY <1>1 DEF Die
<1>11. ASSUME NEW code, NEW result, Respond(Item, code, result),
              Item.front = "rpc", Item.form = "request"
       PROVE  Answered \/ (Ended /\ EndsTheEngine(Item))
  <2>1. CASE Unwritable(Item)
    BY <1>10, <1>11, <2>1 DEF Respond, EndsTheEngine
  <2>2. CASE ~Unwritable(Item)
    <3>1. AnswerNow(Reply(Item, code, result))
      BY <1>11, <2>2 DEF Respond
    <3> QED
      BY <1>3, <1>11, <3>1
  <2> QED
    BY <2>1, <2>2
<1> HIDE DEF Answered, Ended
<1>6. CASE RpcRefuse \/ RpcPing \/ RpcSimulate
  <2>1. Item.front = "rpc" /\ Item.form = "request"
    BY <1>6 DEF RpcRefuse, RpcPing, RpcSimulate, Take
  <2>2. CASE \E code, result : Respond(Item, code, result)
    BY <1>11, <2>1, <2>2 DEF Answered, Ended
  <2>3. CASE ~ \E code, result : Respond(Item, code, result)
    <3>1. RpcSimulate
      BY <1>6, <2>3, Zenon DEF RpcRefuse, RpcPing
    <3>2. /\ Die /\ BreaksSimulate(Fields(Item.params))
          /\ Item.method = "simulate" /\ ParamsOk(Item)
      BY <2>3, <3>1, SimulateAnswers
    <3> QED
      BY <1>10, <2>1, <3>2 DEF EndsTheEngine, Ended
  <2> QED
    BY <2>2, <2>3
<1>7. CASE RpcOptimize
  <2> DEFINE p == Fields(Item.params)
  <2>1. /\ Item.front = "rpc" /\ Item.form = "request" /\ Item.method = "optimize"
        /\ ParamsOk(Item)
    BY <1>7 DEF RpcOptimize, Take
  <2>2. CASE RpcOptimizeOverflows(p)
    <3>1. Die
      BY <1>7, <2>2 DEF RpcOptimize
    <3> QED
      BY <1>10, <2>1, <2>2, <3>1 DEF EndsTheEngine, BreaksOptimize, Ended
  <2>3. CASE ~RpcOptimizeOverflows(p) /\ RpcOptimizeFails(p)
    <3>1. Respond(Item, InvalidParams, None)
      BY <1>7, <2>3 DEF RpcOptimize
    <3> QED
      BY <1>11, <2>1, <3>1 DEF Answered, Ended
  <2>4. CASE ~RpcOptimizeOverflows(p) /\ ~RpcOptimizeFails(p)
    <3>1. StartSearch(RpcJob(p))
      BY <1>7, <2>4 DEF RpcOptimize
    <3> QED
      BY <1>4, <3>1
  <2> QED
    BY <2>2, <2>3, <2>4
<1>8. CASE HttpPost
  <2>1. Item.front = "http"
    BY <1>8 DEF HttpPost, Take
  <2>2. \/ \E code, result : AnswerNow(Reply(Item, code, result))
        \/ \E j : StartSearch(j)
    <3> DEFINE body == Item.body
               spec == HttpSimulateSpec(body)
    <3>1. \/ AnswerNow(IF HttpSimulateFails(body) THEN Reply(Item, Unprocessable, None)
                       ELSE IF Breaks(body, spec) THEN Reply(Item, InternalError, None)
                       ELSE IF SimulateFails(spec) THEN Reply(Item, Unprocessable, None)
                       ELSE Reply(Item, Success, Simulate(spec)))
          \/ IF HttpOptimizeFails(body) THEN AnswerNow(Reply(Item, Unprocessable, None))
             ELSE StartSearch(HttpJob(body))
      BY <1>8, Zenon DEF HttpPost
    <3> HIDE DEF body, spec
    <3>2. \/ AnswerNow(Reply(Item, Unprocessable, None))
          \/ AnswerNow(Reply(Item, InternalError, None))
          \/ AnswerNow(Reply(Item, Success, Simulate(spec)))
          \/ StartSearch(HttpJob(body))
      BY <3>1
    <3> QED
      BY <3>2, Zenon
  <2> QED
    BY <1>3, <1>4, <2>1, <2>2
<1>9. CASE CliOptimize
  BY <1>4, <1>9 DEF CliOptimize
<1> QED
  BY <1>5, <1>6, <1>7, <1>8, <1>9 DEF Takes
-----------------------------------------------------------------------------
(* The search that runs is the one its item asks for, and it exhausts the     *)
(* memory only where that one does.                                           *)
AskedInv ==
    busy => \E j \in JobsOf(script[pos]) :
               /\ target = TargetOf(j) /\ config = ConfigOf(j)
               /\ phase = "exhausted" => ~TargetFails(TargetOf(j)) /\ Exhausts(ConfigOf(j))

(* No search runs at the start.                                               *)
LEMMA AskedInit == Init => AskedInv
  BY DEF Init, AskedInv

(* Every step keeps AskedInv.                                                 *)
LEMMA AskedStep == ServerInv /\ AskedInv /\ [Next]_vars => AskedInv'
<1> SUFFICES ASSUME ServerInv, AskedInv, [Next]_vars PROVE AskedInv'
  OBVIOUS
<1>1. CASE Takes
  <2>1. /\ pos' = pos + 1 /\ script' = script
        /\ busy' = FALSE \/ \E j \in JobsOf(Item) : Ask(j)
    BY <1>1, TakenIs DEF Takes
  <2>2. script'[pos'] = Item
    BY <2>1 DEF Item
  <2>3. ASSUME NEW j \in JobsOf(Item), Ask(j)
        PROVE  /\ target' = TargetOf(j) /\ config' = ConfigOf(j)
               /\ phase' = "exhausted" => ~TargetFails(TargetOf(j)) /\ Exhausts(ConfigOf(j))
    <3>1. /\ target' = TargetOf(j) /\ config' = ConfigOf(j)
          /\ phase' = IF ~TargetFails(TargetOf(j)) /\ Exhausts(ConfigOf(j)) THEN "exhausted"
                      ELSE IF TargetFails(TargetOf(j)) \/ SpaceFails(ConfigOf(j)) THEN "refused"
                      ELSE "scanning"
      BY <2>3 DEF Ask
    <3> QED
      BY <3>1
  <2> QED
    BY <2>1, <2>2, <2>3 DEF AskedInv
<1>2. CASE AnswerSearch
  <2>1. busy' = FALSE
    BY <1>2, Zenon DEF AnswerSearch
  <2> QED
    BY <2>1 DEF AskedInv
<1>3. CASE Eof
  BY <1>3 DEF Eof, AskedInv
<1>4. CASE Search
  <2>1. busy /\ SearchStep /\ UNCHANGED <<script, pos, busy>>
    BY <1>4 DEF Search, serverVars
  <2>2. UNCHANGED <<target, config>>
    BY <2>1 DEF SearchStep, EvaluateNext, Rank, AnalyseLayer
  <2>3. phase' # "exhausted"
    BY <2>1, SearchGoesOn
  <2> QED
    BY <2>1, <2>2, <2>3 DEF AskedInv
<1>5. CASE UNCHANGED vars
  BY <1>5 DEF vars, serverVars, searchVars, AskedInv
<1> QED
  BY <1>1, <1>2, <1>3, <1>4, <1>5 DEF Next, Serve, Over, Takes

(* A line whose search exhausts the memory is one that ends the engine.       *)
LEMMA ExhaustedEnds ==
    ASSUME AskedInv, busy, phase = "exhausted", script[pos].front = "rpc"
    PROVE  EndsTheEngine(script[pos])
<1> DEFINE item == script[pos]
           p    == Fields(item.params)
<1>1. PICK j \in JobsOf(item) : ~TargetFails(TargetOf(j)) /\ Exhausts(ConfigOf(j))
  BY DEF AskedInv
<1>2. /\ item.form = "request" /\ item.method = "optimize" /\ ParamsOk(item)
      /\ ~RpcOptimizeFails(p) /\ j = RpcJob(p)
  BY <1>1 DEF JobsOf
<1> HIDE DEF p
<1>3. BreaksOptimize(p)
  BY <1>1, <1>2 DEF BreaksOptimize
<1> QED
  BY <1>2, <1>3 DEF EndsTheEngine, p

(* What is written is what the items answered so far ask for; the last of     *)
(* them waits while a search runs.                                            *)
RepliesInv == IsSequence(outbox) /\ RepliesMatch

(* RepliesMatch, in terms of Ids.                                             *)
LEMMA MatchIs ==
    RepliesMatch <=>
        IF engine = "dead"
        THEN \/ script[pos].front = "cli" /\ Ids(outbox) = Expected(pos)
             \/ EndsTheEngine(script[pos]) /\ Ids(outbox) = Expected(pos - 1)
        ELSE Ids(outbox) = Expected(IF busy THEN pos - 1 ELSE pos)
  BY DEF RepliesMatch, Ids

(* Every step keeps RepliesInv.                                               *)
LEMMA RepliesStep ==
    ServerInv /\ AskedInv /\ RepliesInv /\ [Next]_vars => RepliesInv'
<1> SUFFICES ASSUME ServerInv, AskedInv, RepliesInv, [Next]_vars
             PROVE  RepliesInv'
  OBVIOUS
<1>1. IsSequence(outbox) /\ RepliesMatch
  BY DEF RepliesInv
<1> DEFINE Matches(e, b, n, o, s) ==
             IF e = "dead"
             THEN \/ s.front = "cli" /\ Ids(o) = Expected(n)
                  \/ EndsTheEngine(s) /\ Ids(o) = Expected(n - 1)
             ELSE Ids(o) = Expected(IF b THEN n - 1 ELSE n)
<1>3. SUFFICES ASSUME script' = script
               PROVE  IsSequence(outbox') /\ Matches(engine', busy', pos', outbox', script[pos'])
  <2>1. script' = script
    <3>1. CASE Takes
      BY <3>1, TakenIs DEF Takes
    <3>2. CASE AnswerSearch \/ Eof \/ Search \/ UNCHANGED vars
      BY <3>2, Zenon DEF AnswerSearch, Eof, Search, vars, serverVars
    <3> QED
      BY <3>1, <3>2 DEF Next, Serve, Over, Takes
  <2>2. IsSequence(outbox') /\ Matches(engine', busy', pos', outbox', script[pos'])
    BY <1>3, <2>1
  <2>3. /\ Expected(pos)' = Expected(pos') /\ Expected(pos - 1)' = Expected(pos' - 1)
        /\ Ids(outbox)' = Ids(outbox') /\ script'[pos'] = script[pos']
        /\ EndsTheEngine(script[pos])' = EndsTheEngine(script[pos'])
    BY <2>1 DEF Expected, Ids, EndsTheEngine
  <2>4. RepliesMatch' <=>
           IF engine' = "dead"
           THEN \/ script'[pos'].front = "cli" /\ Ids(outbox)' = Expected(pos)'
                \/ EndsTheEngine(script[pos])' /\ Ids(outbox)' = Expected(pos - 1)'
           ELSE Ids(outbox)' = IF busy' THEN Expected(pos - 1)' ELSE Expected(pos)'
    BY DEF RepliesMatch, Ids
  <2> QED
    BY <2>2, <2>3, <2>4 DEF RepliesInv, IsSequence
<1>4. /\ script \in Scripts /\ pos \in 0..Len(script) /\ Len(script) \in Nat
  BY ScriptIs DEF ServerInv
<1>5. CASE Takes
  <2>1. /\ pos < Len(script) /\ pos' = pos + 1 /\ engine = "up" /\ busy = FALSE
        /\ Item \in Items /\ pos \in Nat
    BY <1>5, TakenIs DEF Takes
  <2>2. Ids(outbox) = Expected(pos)
    BY <1>1, <2>1, MatchIs
  <2>3. pos \in 0..(Len(script) - 1) /\ script[pos'] = Item /\ pos' - 1 = pos
    BY <1>4, <2>1 DEF Item
  <2>4. Expected(pos + 1) = Expected(pos) \o Expects(script[pos + 1])
    BY <1>4, <2>3, ExpectedIs
  <2>5. Expected(pos') = Expected(pos) \o Expects(Item)
    BY <2>1, <2>4 DEF Item
  <2>6. CASE /\ engine' = "up" /\ busy' = FALSE
             /\ IsSequence(outbox') /\ Ids(outbox') = Ids(outbox) \o Expects(Item)
    BY <2>2, <2>5, <2>6
  <2>7. CASE engine' = "up" /\ busy' = TRUE /\ outbox' = outbox
    BY <1>1, <2>2, <2>3, <2>7
  <2>8. CASE engine' = "dead" /\ busy' = FALSE /\ outbox' = outbox /\ EndsTheEngine(Item)
    BY <1>1, <2>2, <2>3, <2>8
  <2> QED
    BY <1>1, <1>5, <2>6, <2>7, <2>8, TakesAnswer
<1>6. CASE AnswerSearch
  <2> DEFINE item == script[pos]
  <2>1. /\ busy /\ busy' = FALSE /\ pos' = pos
        /\ \/ /\ item.front = "cli"
              /\ outbox' = Append(outbox, Answer(1, IF phase = "done" THEN Success ELSE 1,
                                                 CliResult(item)))
              /\ engine' = IF phase = "done" THEN "up" ELSE "dead"
           \/ /\ Unanswerable(item)
              /\ engine' = "dead" /\ outbox' = outbox
           \/ /\ item.front # "cli" /\ ~Unanswerable(item)
              /\ outbox' = IF phase = "done"
                           THEN Reply(item, Success, [report |-> report, layers |-> layers])
                           ELSE Reply(item, IF phase = "exhausted" THEN InternalError
                                            ELSE Unprocessable, None)
              /\ engine' = engine
    BY <1>6 DEF AnswerSearch
  <2>2. /\ engine = "up" /\ pos >= 1
        /\ item.front = "rpc" => item.form = "request"
    BY <2>1 DEF ServerInv
  <2>3. pos \in 1..Len(script) /\ pos - 1 \in 0..(Len(script) - 1) /\ (pos - 1) + 1 = pos
    BY <1>4, <2>2
  <2>4. item \in Items /\ item.front \in {"rpc", "http", "cli"}
        /\ (item.front = "cli" => item.id = 1)
    BY <1>4, <2>3, ScriptIs, ScriptsAssumption
  <2>5. Ids(outbox) = Expected(pos - 1)
    BY <1>1, <2>1, <2>2, MatchIs
  <2>6. Expected(pos) = Expected(pos - 1) \o Expects(item)
    <3>1. Expected((pos - 1) + 1) = Expected(pos - 1) \o Expects(script[(pos - 1) + 1])
      BY <1>4, <2>3, ExpectedIs
    <3> QED
      BY <2>3, <3>1
  <2>9. Unanswerable(item) => item.front # "cli" /\ EndsTheEngine(item)
    <3>1. CASE phase = "exhausted"
      BY <2>1, <3>1, ExhaustedEnds DEF Unanswerable
    <3>2. CASE phase # "exhausted"
      BY <2>2, <3>2 DEF Unanswerable, EndsTheEngine
    <3> QED
      BY <3>1, <3>2
  <2> HIDE DEF item
  <2>7. CASE item.front = "cli"
    <3>0. ~Unanswerable(item)
      BY <2>7, <2>9
    <3>1. PICK code, result : outbox' = Append(outbox, Answer(1, code, result))
      BY <2>1, <2>7, <3>0
    <3> DEFINE x == Answer(1, code, result)
    <3>2. x.id = 1
      BY DEF Answer
    <3> HIDE DEF x
    <3>3. outbox' = Append(outbox, x)
      BY <3>1 DEF x
    <3>4. IsSequence(outbox') /\ Ids(outbox') = Ids(outbox) \o <<1>>
      BY <1>1, <3>2, <3>3, Appended
    <3>5. Expects(item) = <<1>>
      BY <2>4, <2>7 DEF Expects
    <3>6. Ids(outbox') = Expected(pos)
      BY <2>5, <2>6, <3>4, <3>5
    <3>7. engine' \in {"up", "dead"}
      BY <2>1, <2>7, <3>0
    <3> QED
      BY <2>1, <2>7, <3>4, <3>6, <3>7 DEF item
  <2>10. CASE Unanswerable(item)
    <3>1. engine' = "dead" /\ outbox' = outbox /\ EndsTheEngine(item)
      BY <2>1, <2>9, <2>10
    <3> QED
      BY <1>1, <2>1, <2>5, <3>1 DEF item
  <2>8. CASE item.front # "cli" /\ ~Unanswerable(item)
    <3>1. PICK code, result : outbox' = Reply(item, code, result)
      BY <2>1, <2>8
    <3>2. Expects(item) = Asked(item)
      BY <2>2, <2>4, <2>8, RequestExpects
    <3>3. IsSequence(outbox') /\ Ids(outbox') = Ids(outbox) \o Asked(item)
      BY <1>1, <3>1, Written
    <3>4. Ids(outbox') = Expected(pos)
      BY <2>5, <2>6, <3>2, <3>3
    <3> QED
      BY <2>1, <2>2, <2>8, <3>3, <3>4
  <2> QED
    BY <2>7, <2>8, <2>10
<1>7. CASE Eof
  <2>1. engine = "up" /\ ~busy /\ engine' = "ended" /\ UNCHANGED <<pos, busy, outbox>>
    BY <1>7 DEF Eof
  <2>2. Ids(outbox) = Expected(pos)
    BY <1>1, <2>1, MatchIs
  <2> QED
    BY <1>1, <2>1, <2>2
<1>8. CASE Search \/ UNCHANGED vars
  <2>1. UNCHANGED <<pos, busy, outbox, engine>>
    BY <1>8, Zenon DEF Search, vars, serverVars
  <2>2. Matches(engine, busy, pos, outbox, script[pos])
    BY <1>1, MatchIs
  <2> HIDE DEF Matches
  <2> QED
    BY <1>1, <2>1, <2>2
<1> QED
  BY <1>5, <1>6, <1>7, <1>8 DEF Next, Serve, Over, Takes

(* Nothing is asked and nothing is written at the start.                      *)
LEMMA RepliesInit == Init => RepliesInv
<1> SUFFICES ASSUME Init PROVE RepliesInv
  OBVIOUS
<1>1. outbox = << >> /\ pos = 0 /\ engine = "up" /\ busy = FALSE /\ script \in Scripts
  BY DEF Init
<1>2. Ids(outbox) = << >>
  BY <1>1 DEF Ids
<1>3. Expected(pos) = << >>
  BY <1>1, ExpectedIs
<1>4. RepliesMatch
  BY <1>1, <1>2, <1>3, MatchIs
<1>5. << >> \in Seq({})
  OBVIOUS
<1> QED
  BY <1>1, <1>4, <1>5 DEF RepliesInv, IsSequence

(* Whatever the engine is given, it writes one answer for each item that asks *)
(* for one, in their order and under their ids, and nothing else, up to the   *)
(* first line that ends it (EndsTheEngine): serve's pairing of lines with     *)
(* responses, the silence of notifications included.                          *)
THEOREM AnswersInOrder == Spec => []RepliesMatch
<1>1. RepliesInv => RepliesMatch
  BY DEF RepliesInv
<1> QED
  BY <1>1, RepliesInit, RepliesStep, AskedInit, AskedStep, ServerInvHolds, PTL DEF Spec
-----------------------------------------------------------------------------
(* The transports. *)

Params(p) ==
    \A f \in DOMAIN p : IsRaw(p[f]) /\ \A g \in DOMAIN Fields(p[f]) : IsRaw(Fields(p[f])[g])

(* Get has the value of a field, or null.                                     *)
LEMMA GetIs ==
    ASSUME NEW p, NEW f
    PROVE  /\ f \in DOMAIN p => Get(p, f) = p[f]
           /\ f \notin DOMAIN p => Get(p, f) = Null
           /\ Null.is = "null" /\ Fields(Null) = << >>
           /\ f \in Given(p) <=> f \in DOMAIN p /\ Get(p, f).is # "null"
           /\ Get(p, f).is # "null" => f \in DOMAIN p
<1>1. Null.is = "null" /\ Fields(Null) = << >>
  BY DEF Null, Fields
<1> HIDE DEF Null
<1> QED
  BY <1>1 DEF Get, Given

(* A number passes both transports; what only HTTP takes it coerces.          *)
LEMMA Numbers ==
    /\ \A x : IsNumber(x) => Coerced(x) /\ x.is # "list" /\ x.is # "null" /\ x.is # "bool"
    /\ \A x : Coerced(x) /\ ~IsNumber(x) => Coerces(x)
    /\ \A x : Coerced(x) => x.is # "null" /\ x.is # "list"
  BY DEF IsNumber, NotWhole, Coerced, Coerces

(* The two specifications of a simulation differ by the names of materials    *)
(* alone.                                                                     *)
NameAt(p, i) == p["layers"].datum[i].datum["material"].datum

LEMMA SpecsDiffer ==
    ASSUME NEW p
    PROVE  LET r == RpcSimulateSpec(p)
               h == HttpSimulateSpec(p)
           IN /\ DOMAIN h.layers = DOMAIN p["layers"].datum
              /\ \A i \in DOMAIN h.layers :
                    /\ h.layers[i].material = NameAt(p, i)
                    /\ h.layers[i].thickness
                          = Value(p["layers"].datum[i].datum["thickness_nm"])
              /\ h.substrate = IF "substrate" \in Given(p) THEN Value(p["substrate"]) ELSE 150
              /\ (\A i \in DOMAIN h.layers : Strip(NameAt(p, i)) = NameAt(p, i)) => r = h
<1> DEFINE L == p["layers"].datum
           r == RpcSimulateSpec(p)
           h == HttpSimulateSpec(p)
<1>1. h.layers = [i \in DOMAIN L |-> Film(NameAt(p, i), Value(L[i].datum["thickness_nm"]))]
  BY DEF HttpSimulateSpec, SimulateSpec, NameOf, NameAt
<1>2. r.layers = [i \in DOMAIN L |-> Film(Strip(NameAt(p, i)), Value(L[i].datum["thickness_nm"]))]
  BY DEF RpcSimulateSpec, SimulateSpec, NameOf, NameAt
<1>3. h.substrate = IF "substrate" \in Given(p) THEN Value(p["substrate"]) ELSE 150
  BY DEF HttpSimulateSpec, SimulateSpec
<1>4. ASSUME \A i \in DOMAIN L : Strip(NameAt(p, i)) = NameAt(p, i)
      PROVE  r = h
  <2>1. r.layers = h.layers
    BY <1>1, <1>2, <1>4
  <2>2. /\ r = [layers |-> r.layers, substrate |-> h.substrate,
                wavelengths |-> h.wavelengths, freqs |-> h.freqs]
        /\ h = [layers |-> h.layers, substrate |-> h.substrate,
                wavelengths |-> h.wavelengths, freqs |-> h.freqs]
    BY DEF RpcSimulateSpec, HttpSimulateSpec, SimulateSpec
  <2> HIDE DEF r, h
  <2> QED
    BY <2>1, <2>2
<1> HIDE DEF r, h, L
<1>5. DOMAIN h.layers = DOMAIN L
  BY <1>1
<1>6. \A i \in DOMAIN L : /\ h.layers[i].material = NameAt(p, i)
                         /\ h.layers[i].thickness = Value(L[i].datum["thickness_nm"])
  BY <1>1 DEF Film
<1> QED
  BY <1>3, <1>4, <1>5, <1>6 DEF r, h, L

(* No known material has blanks around its name.                              *)
LEMMA KnownNames ==
    \A name \in Known : Strip(name) = name /\ ~Blank(name)
  BY DEF Known, Strip, Blank

(* The two transports agree on every simulation.                              *)
LEMMA SimulationsAgree ==
    ASSUME NEW p, Params(p)
    PROVE  SimulateAgrees(p)
<1> DEFINE L    == p["layers"].datum
           r    == RpcSimulateSpec(p)
           h    == HttpSimulateSpec(p)
           rpc  == ~RpcSimulateFails(p) /\ ~SimulateFails(r)
           http == ~HttpSimulateFails(p) /\ ~SimulateFails(h)
<1> HIDE DEF r, h
<1>1. /\ DOMAIN h.layers = DOMAIN L
      /\ \A i \in DOMAIN L : /\ h.layers[i].material = NameAt(p, i)
                            /\ h.layers[i].thickness = Value(L[i].datum["thickness_nm"])
      /\ h.substrate = IF "substrate" \in Given(p) THEN Value(p["substrate"]) ELSE 150
      /\ (\A i \in DOMAIN L : Strip(NameAt(p, i)) = NameAt(p, i)) => r = h
  BY SpecsDiffer DEF r, h
<1>2. ASSUME http
      PROVE  r = h /\ \A i \in DOMAIN L : ~Blank(NameAt(p, i))
  <2>1. \A i \in DOMAIN L : NameAt(p, i) \in Known
    BY <1>1, <1>2 DEF SimulateFails, OpticsFails
  <2> QED
    BY <1>1, <2>1, KnownNames
<1>3. ASSUME rpc, ~http PROVE SimulateLaxRpc(p)
  <2>1. SUFFICES ASSUME ~SimulateLaxRpc(p) PROVE FALSE
    OBVIOUS
  <2>2. r = h /\ "substrate" \notin DOMAIN p \ Given(p)
    BY <1>1, <2>1 DEF SimulateLaxRpc, NameAt
  <2>3. HttpSimulateFails(p)
    BY <1>3, <2>2
  <2>4. ~RpcSimulateFails(p) /\ ~SimulateFails(h)
    BY <1>3, <2>2
  <2> USE DEF RpcLayerFails, UnnamedLayer
  <2>5. ~RpcLayersFail(Get(p, "layers")) /\ "layers" \in DOMAIN p /\ Get(p, "layers") = p["layers"]
    <3>1. ~RpcLayersFail(Get(p, "layers"))
      BY <2>4 DEF RpcSimulateFails
    <3>2. Get(p, "layers").is = "list"
      BY <3>1 DEF RpcLayersFail
    <3> QED
      BY <3>1, <3>2, GetIs
  <2>6. CASE HttpLayersFail(Get(p, "layers"))
    <3>1. L # << >>
      <4>1. h.layers # << >>
        BY <2>4 DEF SimulateFails, OpticsFails
      <4>2. SUFFICES ASSUME L = << >> PROVE FALSE
        OBVIOUS
      <4>3. DOMAIN h.layers = {}
        BY <1>1, <4>2
      <4>4. h.layers = [i \in {} |-> Film(NameAt(p, i), Value(L[i].datum["thickness_nm"]))]
        BY <4>2 DEF h, HttpSimulateSpec, SimulateSpec, NameOf, NameAt
      <4> QED
        BY <4>1, <4>4
    <3>2. PICK i \in DOMAIN L :
             LET layer == L[i]
             IN \/ layer.is # "object"
                \/ Get(layer.datum, "material").is # "text"
                \/ layer.datum["material"].datum = ""
                \/ ~Coerced(Get(layer.datum, "thickness_nm"))
                \/ Value(layer.datum["thickness_nm"]) < 0
      BY <2>5, <2>6, <3>1 DEF HttpLayersFail, RpcLayersFail
    <3>3. /\ L[i].is = "object" /\ Get(L[i].datum, "material").is = "text"
          /\ ~Blank(L[i].datum["material"].datum)
          /\ IsNumber(Get(L[i].datum, "thickness_nm"))
      BY <2>5 DEF RpcLayersFail
    <3>4. L[i].datum["material"].datum # "" /\ Coerced(Get(L[i].datum, "thickness_nm"))
      BY <3>3, Numbers DEF Blank
    <3>5. ~(h.layers[i].thickness < 0)
      BY <1>1, <2>4 DEF SimulateFails, OpticsFails
    <3> QED
      BY <1>1, <3>2, <3>3, <3>4, <3>5
  <2>7. CASE "substrate" \in DOMAIN p /\ (~Coerced(p["substrate"]) \/ Whole(p["substrate"]) <= 0)
    <3>1. "substrate" \in Given(p) /\ Get(p, "substrate") = p["substrate"] /\ p["substrate"].is # "null"
      BY <2>2, <2>7, GetIs
    <3>2. IsNumber(p["substrate"])
      BY <2>4, <3>1 DEF RpcSimulateFails, NumberFails
    <3>3. Value(p["substrate"]) = Whole(p["substrate"])
      BY <3>2, Numbers DEF Value
    <3>4. ~(h.substrate <= 0)
      BY <2>4 DEF SimulateFails, OpticsFails
    <3> QED
      BY <1>1, <2>7, <3>1, <3>2, <3>3, <3>4, Numbers
  <2>8. \A f \in {"wavelengths", "freqs"} : ~HttpGridFails(Get(p, f))
    <3>1. \A f \in {"wavelengths", "freqs"} : ~ListFails(Get(p, f))
      BY <2>4 DEF RpcSimulateFails
    <3> QED
      BY <3>1, Numbers DEF ListFails, HttpGridFails
  <2> QED
    BY <2>3, <2>6, <2>7, <2>8 DEF HttpSimulateFails
<1>4. ASSUME http, ~rpc PROVE SimulateLaxHttp(p)
  <2>1. SUFFICES ASSUME ~SimulateLaxHttp(p) PROVE FALSE
    OBVIOUS
  <2>2. r = h /\ ~HttpSimulateFails(p) /\ RpcSimulateFails(p)
    BY <1>2, <1>4
  <2>3. /\ DOMAIN p \subseteq SimulateFields /\ ~LayerCoerced(p)
        /\ \A f \in DOMAIN p : ~Coerces(p[f]) /\ ~(f \in {"wavelengths", "freqs"} /\ p[f] = List(<< >>))
        /\ \A i \in DOMAIN L : DOMAIN L[i].datum \subseteq {"material", "thickness_nm"}
    BY <2>1 DEF SimulateLaxHttp
  <2>4. /\ ~HttpLayersFail(Get(p, "layers")) /\ "layers" \in DOMAIN p
        /\ Get(p, "layers") = p["layers"]
    <3>1. ~HttpLayersFail(Get(p, "layers"))
      BY <2>2 DEF HttpSimulateFails
    <3>2. Get(p, "layers").is = "list"
      BY <3>1 DEF HttpLayersFail
    <3> QED
      BY <3>1, <3>2, GetIs
  <2>5. ~NumberFails(Get(p, "substrate"))
    <3>1. SUFFICES ASSUME NumberFails(Get(p, "substrate")) PROVE FALSE
      OBVIOUS
    <3>2. "substrate" \in DOMAIN p /\ Get(p, "substrate") = p["substrate"]
          /\ ~IsNumber(p["substrate"])
      BY <3>1, GetIs DEF NumberFails
    <3>3. Coerced(p["substrate"])
      BY <2>2, <3>2 DEF HttpSimulateFails
    <3> QED
      BY <2>3, <3>2, <3>3, Numbers
  <2>6. ~RpcLayersFail(Get(p, "layers"))
    <3>1. SUFFICES ASSUME NEW i \in DOMAIN L
                   PROVE  /\ L[i].is = "object"
                          /\ Get(L[i].datum, "material").is = "text"
                          /\ IsNumber(Get(L[i].datum, "thickness_nm"))
      BY <1>2, <1>4, <2>3, <2>4
         DEF RpcLayersFail, RpcLayerFails, UnnamedLayer, HttpLayersFail, NameAt
    <3>2. /\ L[i].is = "object" /\ Get(L[i].datum, "material").is = "text"
          /\ Coerced(Get(L[i].datum, "thickness_nm"))
      BY <2>4 DEF HttpLayersFail
    <3>3. "thickness_nm" \in DOMAIN L[i].datum
          /\ Get(L[i].datum, "thickness_nm") = L[i].datum["thickness_nm"]
      BY <3>2, Numbers, GetIs
    <3>4. ~Coerces(L[i].datum["thickness_nm"])
      BY <2>3, <3>2, <3>3 DEF LayerCoerced, CoercedFields, Fields
    <3> QED
      BY <3>2, <3>3, <3>4, Numbers
  <2>7. ASSUME NEW f \in {"wavelengths", "freqs"} PROVE ~ListFails(Get(p, f))
    <3>1. SUFFICES ASSUME ListFails(Get(p, f)) PROVE FALSE
      OBVIOUS
    <3>2. f \in DOMAIN p /\ Get(p, f) = p[f] /\ p[f].is # "null"
      BY <3>1, GetIs DEF ListFails
    <3>3. p[f].is = "list" /\ \A i \in DOMAIN p[f].datum : Coerced(p[f].datum[i])
      <4>1. ~HttpGridFails(Get(p, f))
        BY <2>2 DEF HttpSimulateFails
      <4> QED
        BY <3>2, <4>1 DEF HttpGridFails
    <3>4. p[f].datum # << >>
      <4>1. p[f] = [is |-> p[f].is, datum |-> p[f].datum]
        BY <3>2 DEF Params, IsRaw
      <4> QED
        BY <2>3, <3>2, <3>3, <4>1 DEF List
    <3>5. PICK i \in DOMAIN p[f].datum : ~IsNumber(p[f].datum[i])
      BY <3>1, <3>2, <3>3, <3>4 DEF ListFails
    <3>6. p[f].datum[i].is \in {"digits", "bool"}
      BY <3>3, <3>5 DEF Coerced, IsNumber
    <3>7. Coerces(p[f])
      BY <3>3, <3>6 DEF Coerces
    <3> QED
      BY <2>3, <3>2, <3>7
  <2> QED
    BY <2>2, <2>3, <2>5, <2>6, <2>7 DEF RpcSimulateFails
<1> QED
  BY <1>2, <1>3, <1>4 DEF SimulateAgrees, r, h
-----------------------------------------------------------------------------
(* The fields of the two schemas.                                             *)
LEMMA FieldsAre ==
    /\ TargetFields = {"min_t", "max_rs", "min_se", "band"}
    /\ SpaceFields = {"outer_bounds", "outer_step", "metal_bounds", "metal_step",
                      "outer_material", "metal_material", "substrate", "top_n"}
  BY DEF TargetFields, SpaceFields, DefaultTarget, DefaultSpace

(* One field, as the two transports read it. *)
LEMMA FieldFails ==
    ASSUME NEW f, NEW x
    PROVE  /\ f \in Pairs =>
                /\ RpcFieldFails(f, x) <=> PairFails(x)
                /\ HttpFieldFails(f, x) <=>
                      x.is # "list" \/ Len(x.datum) # 2 \/ \E i \in {1, 2} : ~Coerced(x.datum[i])
           /\ f \in Names =>
                /\ RpcFieldFails(f, x) <=> x.is \notin {"null", "text"}
                /\ HttpFieldFails(f, x) <=> x.is # "text" \/ x.datum = ""
           /\ f \in Integral =>
                /\ RpcFieldFails(f, x) <=> IntegerFails(x)
                /\ HttpFieldFails(f, x) <=>
                      \/ ~(Coerced(x) \/ x.is = "huge") \/ x.is \in NotWhole
                      \/ Whole(x) <= 0
           /\ f \notin Pairs \cup Names \cup Integral =>
                /\ RpcFieldFails(f, x) <=> NumberFails(x)
                /\ HttpFieldFails(f, x) <=>
                      ~Coerced(x) \/ Whole(x) <= 0 \/ (f = "min_t" /\ Whole(x) > 5)
<1>1. /\ f \in Pairs => f \notin Names /\ f \notin Integral
      /\ f \in Names => f \notin Pairs /\ f \notin Integral
      /\ f \in Integral => f \notin Pairs /\ f \notin Names
  BY DEF Pairs, Names, Integral
<1>2. CASE f \in Pairs
  BY <1>1, <1>2, Zenon DEF RpcFieldFails, HttpFieldFails
<1>3. CASE f \in Names
  BY <1>1, <1>3, Zenon DEF RpcFieldFails, HttpFieldFails
<1>4. CASE f \in Integral
  BY <1>1, <1>4, Zenon DEF RpcFieldFails, HttpFieldFails
<1>5. CASE f \notin Pairs \cup Names \cup Integral
  BY <1>5, Zenon DEF RpcFieldFails, HttpFieldFails
<1> QED
  BY <1>2, <1>3, <1>4, <1>5

(* What JSON-RPC takes and HTTP refuses.                                      *)
LEMMA OnlyRpcTakes ==
    ASSUME NEW f, NEW x, IsRaw(x), x.is # "null",
           ~RpcFieldFails(f, x), HttpFieldFails(f, x)
    PROVE  \/ f \in Names /\ x = Text("")
           \/ /\ f \notin Pairs \cup Names /\ Value(x) \in Int
              /\ Value(x) <= 0 \/ (f = "min_t" /\ Value(x) > 5)
<1>1. CASE f \in Pairs
  <2>1. ~PairFails(x) /\ (x.is # "list" \/ Len(x.datum) # 2 \/ \E i \in {1, 2} : ~Coerced(x.datum[i]))
    BY <1>1, FieldFails
  <2>2. /\ x.is = "list" /\ Len(x.datum) = 2 /\ x.datum \in Seq(Range(x.datum))
        /\ \A i \in DOMAIN x.datum : IsNumber(x.datum[i])
    BY <2>1 DEF PairFails, ListFails, IsRaw
  <2>3. 1 \in DOMAIN x.datum /\ 2 \in DOMAIN x.datum
    BY <2>2
  <2> QED
    BY <2>1, <2>2, <2>3, Numbers
<1>2. CASE f \in Names
  <2>1. f \notin Pairs
    BY <1>2 DEF Names, Pairs
  <2>2. x.is = "text" /\ x.datum = ""
    BY <1>2, FieldFails
  <2> QED
    BY <1>2, <2>2 DEF IsRaw, Text
<1>3. CASE f \notin Pairs \cup Names
  <2>1. /\ x.is \in {"number", "fraction", "vanishing", "infinity", "huge"}
        /\ IF f \in Integral THEN x.is \in {"number", "huge"} ELSE IsNumber(x)
    <3>1. CASE f \in Integral
      BY <1>3, <3>1, FieldFails DEF IntegerFails
    <3>2. CASE f \notin Integral
      BY <1>3, <3>2, FieldFails DEF NumberFails, IsNumber, NotWhole
    <3> QED
      BY <3>1, <3>2
  <2>2. Value(x) = Whole(x) /\ Whole(x) = x.datum /\ x.datum \in Int
    BY <2>1 DEF Value, Whole, IsRaw
  <2>3. CASE f \in Integral
    <3>1. (Coerced(x) \/ x.is = "huge") /\ x.is \notin NotWhole
      BY <2>1, <2>3 DEF Coerced, IsNumber, NotWhole
    <3>2. Whole(x) <= 0
      BY <1>3, <2>3, <3>1, FieldFails
    <3> QED
      BY <1>3, <2>2, <3>2
  <2>4. CASE f \notin Integral
    <3>1. Whole(x) <= 0 \/ (f = "min_t" /\ Whole(x) > 5)
      BY <1>3, <2>1, <2>4, FieldFails, Numbers
    <3> QED
      BY <1>3, <2>2, <3>1
  <2> QED
    BY <2>3, <2>4
<1> QED
  BY <1>1, <1>2, <1>3

(* What HTTP takes and JSON-RPC refuses is coerced.                           *)
LEMMA OnlyHttpTakes ==
    ASSUME NEW f, NEW x, IsRaw(x), x.is # "null" => ~HttpFieldFails(f, x)
    PROVE  RpcFieldFails(f, x) => Coerces(x)
<1>1. CASE x.is = "null"
  BY <1>1, FieldFails DEF PairFails, ListFails, IntegerFails, NumberFails
<1>2. CASE x.is # "null" /\ f \in Pairs
  <2>1. /\ x.is = "list" /\ Len(x.datum) = 2 /\ \A i \in {1, 2} : Coerced(x.datum[i])
        /\ x.datum \in Seq(Range(x.datum))
    BY <1>2, FieldFails DEF IsRaw
  <2>2. x.datum # << >> /\ DOMAIN x.datum = {1, 2}
    <3>1. DOMAIN x.datum = 1..2
      BY <2>1
    <3> QED
      BY <3>1
  <2>3. ASSUME RpcFieldFails(f, x) PROVE Coerces(x)
    <3>1. PICK i \in DOMAIN x.datum : ~IsNumber(x.datum[i])
      BY <1>2, <2>1, <2>2, <2>3, FieldFails DEF PairFails, ListFails
    <3>2. x.datum[i].is \in {"digits", "bool"}
      BY <2>1, <2>2, <3>1 DEF Coerced, IsNumber
    <3> QED
      BY <2>1, <3>1, <3>2 DEF Coerces
  <2>4. f \notin Integral
    BY <1>2 DEF Pairs, Integral
  <2> QED
    BY <2>3, <2>4
<1>3. CASE x.is # "null" /\ f \in Names
  <2>1. f \notin Pairs /\ f \notin Integral
    BY <1>3 DEF Names, Pairs, Integral
  <2>2. x.is = "text"
    BY <1>3, <2>1, FieldFails
  <2> QED
    BY <1>3, <2>1, <2>2, FieldFails
<1>4. CASE x.is # "null" /\ f \notin Pairs \cup Names
  <2>1. CASE f \in Integral
    <3>1. (Coerced(x) \/ x.is = "huge") /\ x.is \notin NotWhole
      BY <1>4, <2>1, FieldFails
    <3>2. RpcFieldFails(f, x) => x.is \notin {"huge", "number"}
      BY <1>4, <2>1, FieldFails DEF IntegerFails
    <3>3. RpcFieldFails(f, x) => Coerced(x) /\ ~IsNumber(x)
      BY <3>1, <3>2 DEF IsNumber
    <3> QED
      BY <3>3, Numbers
  <2>2. CASE f \notin Integral
    <3>1. Coerced(x)
      BY <1>4, <2>2, FieldFails
    <3>2. RpcFieldFails(f, x) => ~IsNumber(x)
      BY <1>4, <2>2, FieldFails DEF NumberFails
    <3> QED
      BY <2>2, <3>1, <3>2, Numbers
  <2> QED
    BY <2>1, <2>2
<1> QED
  BY <1>1, <1>2, <1>3, <1>4

(* One object. *)
ObjectOf(x) == \A f \in DOMAIN Fields(x) : IsRaw(Fields(x)[f])

(* The same of an object: one of its fields makes the difference.             *)
LEMMA OnlyRpcTakesObject ==
    ASSUME NEW x, ObjectOf(x), NEW known,
           ~RpcObjectFails(x, known), HttpObjectFails(x, known)
    PROVE  \E f \in Given(Fields(x)) \cap known :
              LET y == Fields(x)[f]
              IN \/ f \in Names /\ y = Text("")
                 \/ /\ f \notin Pairs \cup Names /\ Value(y) \in Int
                    /\ Value(y) <= 0 \/ (f = "min_t" /\ Value(y) > 5)
<1>1. x.is = "object" /\ Fields(x) = x.datum
  BY DEF RpcObjectFails, HttpObjectFails, Fields
<1>2. PICK f \in Given(x.datum) \cap known : HttpFieldFails(f, x.datum[f])
  BY <1>1 DEF HttpObjectFails
<1>3. f \in DOMAIN x.datum /\ x.datum[f].is # "null"
  BY <1>2 DEF Given
<1>4. IsRaw(x.datum[f]) /\ ~RpcFieldFails(f, x.datum[f])
  BY <1>1, <1>3 DEF ObjectOf, RpcObjectFails
<1> QED
  BY <1>1, <1>2, <1>3, <1>4, OnlyRpcTakes

(* And the other way round.                                                   *)
LEMMA OnlyHttpTakesObject ==
    ASSUME NEW x, ObjectOf(x), NEW known, ~HttpObjectFails(x, known),
           DOMAIN Fields(x) \subseteq known
    PROVE  RpcObjectFails(x, known) => CoercedFields(x)
<1>1. CASE x.is = "null"
  BY <1>1 DEF RpcObjectFails, Fields
<1>2. CASE x.is # "null"
  <2>1. x.is = "object" /\ Fields(x) = x.datum
    BY <1>2 DEF HttpObjectFails, Fields
  <2>2. ASSUME NEW f \in DOMAIN x.datum
        PROVE  RpcFieldFails(f, x.datum[f]) => Coerces(x.datum[f])
    <3>1. IsRaw(x.datum[f])
      BY <2>1 DEF ObjectOf
    <3>2. x.datum[f].is # "null" => ~HttpFieldFails(f, x.datum[f])
      BY <1>2, <2>1 DEF HttpObjectFails, Given
    <3> QED
      BY <3>1, <3>2, OnlyHttpTakes
  <2>3. ASSUME RpcObjectFails(x, known) PROVE CoercedFields(x)
    <3>1. PICK f \in DOMAIN x.datum : RpcFieldFails(f, x.datum[f])
      BY <1>2, <2>1, <2>3 DEF RpcObjectFails
    <3> QED
      BY <2>1, <2>2, <3>1 DEF CoercedFields
  <2> QED
    BY <2>1, <2>2, <2>3
<1> QED
  BY <1>1, <1>2
-----------------------------------------------------------------------------
(* A search that both transports read is the same search. *)
LEMMA SameValues ==
    ASSUME NEW x, NEW known, DOMAIN Fields(x) \subseteq known
    PROVE  Restricted(Values(x), known) = Values(x)
<1> DEFINE given == Given(Fields(x))
           v == Values(x)
<1>1. v = [f \in given |-> Value(Fields(x)[f])] /\ given \subseteq known
  BY DEF Values, Given
<1>2. Restricted(v, known) = [f \in DOMAIN v \cap known |-> v[f]]
  BY DEF Restricted
<1> HIDE DEF given, v
<1>3. DOMAIN v \cap known = DOMAIN v /\ v = [f \in DOMAIN v |-> v[f]]
  BY <1>1
<1>4. Restricted(v, known) = v
  BY <1>2, <1>3
<1> QED
  BY <1>4 DEF v

(* The same values are the same target and configuration.                     *)
LEMMA SameJobs ==
    ASSUME NEW p,
           DOMAIN Fields(Get(p, "target")) \subseteq TargetFields,
           DOMAIN Fields(Get(p, "space")) \subseteq SpaceFields
    PROVE  /\ TargetOf(RpcJob(p)) = TargetOf(HttpJob(p))
           /\ ConfigOf(RpcJob(p)) = ConfigOf(HttpJob(p))
           /\ Accepted(RpcJob(p)) <=> Accepted(HttpJob(p))
<1>1. RpcJob(p).target = HttpJob(p).target /\ RpcJob(p).space = HttpJob(p).space
  <2>1. /\ Restricted(Values(Get(p, "target")), TargetFields) = Values(Get(p, "target"))
        /\ Restricted(Values(Get(p, "space")), SpaceFields) = Values(Get(p, "space"))
    BY SameValues
  <2> QED
    BY <2>1 DEF RpcJob, HttpJob
<1>2. /\ TargetOf(RpcJob(p)) = TargetOf(HttpJob(p))
      /\ ConfigOf(RpcJob(p)) = ConfigOf(HttpJob(p))
  BY <1>1 DEF TargetOf, ConfigOf
<1> QED
  BY <1>2 DEF Accepted

(* A field that is given is taken over.                                       *)
LEMMA RpcFieldIsTaken ==
    ASSUME NEW p, NEW f
    PROVE  /\ f \in Given(Fields(Get(p, "target"))) \cap TargetFields =>
                TargetOf(RpcJob(p))[f] = Value(Fields(Get(p, "target"))[f])
           /\ f \in (Given(Fields(Get(p, "space"))) \cap SpaceFields) \ Names =>
                ConfigOf(RpcJob(p))[f] = Value(Fields(Get(p, "space"))[f])
<1>1. RpcJob(p).target = Values(Get(p, "target")) /\ RpcJob(p).space = Values(Get(p, "space"))
  BY DEF RpcJob
<1>2. ASSUME f \in Given(Fields(Get(p, "target"))) \cap TargetFields
      PROVE  TargetOf(RpcJob(p))[f] = Value(Fields(Get(p, "target"))[f])
  BY <1>1, <1>2 DEF TargetOf, Values
<1>3. ASSUME f \in (Given(Fields(Get(p, "space"))) \cap SpaceFields) \ Names
      PROVE  ConfigOf(RpcJob(p))[f] = Value(Fields(Get(p, "space"))[f])
  <2>1. f \in DOMAIN GivenSpace(RpcJob(p).space)
        /\ GivenSpace(RpcJob(p).space)[f] = Value(Fields(Get(p, "space"))[f])
    BY <1>1, <1>3 DEF GivenSpace, Values
  <2> QED
    BY <1>3, <2>1 DEF ConfigOf
<1> QED
  BY <1>2, <1>3

(* A number that only HTTP's schema refuses is refused by the search. *)
LEMMA TooSmallIsRefused ==
    ASSUME NEW p, Accepted(RpcJob(p))
    PROVE  /\ \A f \in (Given(Fields(Get(p, "target"))) \cap TargetFields) \ Pairs :
                LET v == Value(Fields(Get(p, "target"))[f])
                IN v \in Int => v > 0 /\ (f = "min_t" => v <= 5)
           /\ \A f \in (Given(Fields(Get(p, "space"))) \cap SpaceFields) \ (Pairs \cup Names) :
                LET v == Value(Fields(Get(p, "space"))[f])
                IN v \in Int => v > 0
<1>1. ASSUME NEW f \in (Given(Fields(Get(p, "target"))) \cap TargetFields) \ Pairs,
             NEW v \in Int, v = Value(Fields(Get(p, "target"))[f])
      PROVE  v > 0 /\ (f = "min_t" => v <= 5)
  <2>1. TargetOf(RpcJob(p))[f] = v /\ f \in {"min_t", "max_rs", "min_se"}
    BY <1>1, RpcFieldIsTaken, FieldsAre DEF Pairs
  <2>2. v # None
    BY NoneAssumption
  <2>3. ~TargetFails(TargetOf(RpcJob(p)))
    BY DEF Accepted
  <2> HIDE DEF Accepted
  <2>4. CASE f = "min_t"
    BY <2>1, <2>2, <2>3, <2>4 DEF TargetFails
  <2>5. CASE f = "max_rs"
    BY <2>1, <2>2, <2>3, <2>5 DEF TargetFails
  <2>6. CASE f = "min_se"
    BY <2>1, <2>2, <2>3, <2>6 DEF TargetFails
  <2> QED
    BY <2>1, <2>4, <2>5, <2>6
<1>2. ASSUME NEW f \in (Given(Fields(Get(p, "space"))) \cap SpaceFields) \ (Pairs \cup Names),
             NEW v \in Int, v = Value(Fields(Get(p, "space"))[f])
      PROVE  v > 0
  <2>1. /\ ConfigOf(RpcJob(p))[f] = v
        /\ f \in {"outer_step", "metal_step", "substrate", "top_n"}
    BY <1>2, RpcFieldIsTaken, FieldsAre DEF Pairs, Names
  <2>2. ~SpaceFails(ConfigOf(RpcJob(p)))
    BY DEF Accepted
  <2>3. CASE f = "outer_step"
    BY <2>1, <2>2, <2>3 DEF SpaceFails, RangesFail
  <2>4. CASE f = "metal_step"
    BY <2>1, <2>2, <2>4 DEF SpaceFails, RangesFail
  <2>5. CASE f = "substrate"
    BY <2>1, <2>2, <2>5 DEF SpaceFails, RangesFail
  <2>6. CASE f = "top_n"
    BY <2>1, <2>2, <2>6 DEF SpaceFails, RangesFail
  <2> QED
    BY <2>1, <2>3, <2>4, <2>5, <2>6
<1> QED
  BY <1>1, <1>2

(* The two transports agree on every search.                                  *)
LEMMA OptimizationsAgree ==
    ASSUME NEW p, Params(p)
    PROVE  OptimizeAgrees(p)
<1> DEFINE T    == Get(p, "target")
           S    == Get(p, "space")
           C    == Get(p, "compute_sensitivity")
           rpc  == ~RpcOptimizeFails(p) /\ Accepted(RpcJob(p))
           http == ~HttpOptimizeFails(p) /\ Accepted(HttpJob(p))
<1>0. /\ ObjectOf(T) /\ ObjectOf(S)
      /\ DOMAIN << >> = {}
      /\ "compute_sensitivity" \in DOMAIN p => C = p["compute_sensitivity"] /\ IsRaw(C)
      /\ "compute_sensitivity" \notin DOMAIN p => C.is = "null"
      /\ "compute_sensitivity" \in Given(p) <=>
            "compute_sensitivity" \in DOMAIN p /\ C.is # "null"
  <2>1. ASSUME NEW f PROVE ObjectOf(Get(p, f))
    <3>1. CASE f \in DOMAIN p
      BY <3>1, GetIs DEF Params, ObjectOf
    <3>2. CASE f \notin DOMAIN p
      BY <3>2, GetIs DEF ObjectOf
    <3> QED
      BY <3>1, <3>2
  <2>2. DOMAIN << >> = {}
    OBVIOUS
  <2> QED
    BY <2>1, <2>2, GetIs DEF Params
<1> HIDE DEF T, S, C
<1>1. ASSUME ~RpcOptimizeFails(p)
      PROVE  /\ DOMAIN Fields(T) \subseteq TargetFields /\ DOMAIN Fields(S) \subseteq SpaceFields
             /\ ~RpcObjectFails(T, TargetFields) /\ ~RpcObjectFails(S, SpaceFields)
             /\ C.is \in {"null", "bool"} /\ DOMAIN p \subseteq OptimizeFields
  <2>1. /\ ~RpcObjectFails(T, TargetFields) /\ ~RpcObjectFails(S, SpaceFields)
        /\ C.is \in {"null", "bool"} /\ DOMAIN p \subseteq OptimizeFields
    BY <1>1 DEF RpcOptimizeFails, T, S, C
  <2> QED
    BY <1>0, <2>1 DEF RpcObjectFails, Fields
<1>2. ASSUME rpc, http
      PROVE  /\ TargetOf(RpcJob(p)) = TargetOf(HttpJob(p))
             /\ ConfigOf(RpcJob(p)) = ConfigOf(HttpJob(p))
             /\ RpcJob(p).sensitivity = HttpJob(p).sensitivity
  <2>1. /\ TargetOf(RpcJob(p)) = TargetOf(HttpJob(p))
        /\ ConfigOf(RpcJob(p)) = ConfigOf(HttpJob(p))
    BY <1>1, <1>2, SameJobs DEF T, S
  <2>2. CASE "compute_sensitivity" \in DOMAIN p
    <3>1. ~HttpBoolFails(C)
      BY <1>0, <1>2, <2>2 DEF HttpOptimizeFails
    <3>2. C.is = "bool" /\ C.datum \in BOOLEAN
      BY <1>0, <1>1, <1>2, <2>2, <3>1 DEF HttpBoolFails, IsRaw
    <3>3. RpcJob(p).sensitivity = C.datum
      BY <1>0, <2>2, <3>2 DEF RpcJob
    <3>4. HttpJob(p).sensitivity = (Whole(C) = 1)
      BY <1>0, <2>2, <3>2 DEF HttpJob, Truth
    <3>5. CASE C.datum = TRUE
      <4>1. Whole(C) = 1
        BY <3>2, <3>5 DEF Whole
      <4> QED
        BY <2>1, <3>3, <3>4, <3>5, <4>1
    <3>6. CASE C.datum = FALSE
      <4>1. Whole(C) = 0
        BY <3>2, <3>6 DEF Whole
      <4>2. (Whole(C) = 1) = FALSE
        BY <4>1
      <4> QED
        BY <2>1, <3>3, <3>4, <3>6, <4>2
    <3> QED
      BY <3>2, <3>5, <3>6
  <2>3. CASE "compute_sensitivity" \notin DOMAIN p
    <3>1. RpcJob(p).sensitivity = TRUE /\ HttpJob(p).sensitivity = TRUE
      BY <1>0, <2>3 DEF RpcJob, HttpJob
    <3> QED
      BY <2>1, <3>1
  <2> QED
    BY <2>2, <2>3
<1>3. ASSUME rpc, ~http PROVE OptimizeLaxRpc(p)
  <2>1. SUFFICES ASSUME ~OptimizeLaxRpc(p) PROVE FALSE
    OBVIOUS
  <2>2. /\ "compute_sensitivity" \in DOMAIN p => "compute_sensitivity" \in Given(p)
        /\ \A f \in Names : Get(Fields(S), f) # Text("")
    BY <2>1 DEF OptimizeLaxRpc, S
  <2>3. HttpOptimizeFails(p)
    BY <1>1, <1>3, SameJobs DEF T, S
  <2>4. ~("compute_sensitivity" \in DOMAIN p /\ HttpBoolFails(p["compute_sensitivity"]))
    BY <1>0, <1>1, <1>3, <2>2 DEF HttpBoolFails
  <2>5. CASE HttpObjectFails(T, TargetFields)
    <3>1. PICK f \in Given(Fields(T)) \cap TargetFields :
             LET y == Fields(T)[f]
             IN \/ f \in Names /\ y = Text("")
                \/ /\ f \notin Pairs \cup Names /\ Value(y) \in Int
                   /\ Value(y) <= 0 \/ (f = "min_t" /\ Value(y) > 5)
      BY <1>0, <1>1, <1>3, <2>5, OnlyRpcTakesObject
    <3>2. f \notin Names /\ f \notin Integral
      BY FieldsAre DEF Names, Integral
    <3> DEFINE v == Value(Fields(T)[f])
    <3>3. /\ f \notin Pairs /\ v \in Int
          /\ v <= 0 \/ (f = "min_t" /\ v > 5)
      BY <3>1, <3>2
    <3>4. v > 0 /\ (f = "min_t" => v <= 5)
      BY <1>3, <3>1, <3>3, TooSmallIsRefused DEF T
    <3> HIDE DEF v
    <3> QED
      BY <3>3, <3>4
  <2>6. CASE HttpObjectFails(S, SpaceFields)
    <3>1. PICK f \in Given(Fields(S)) \cap SpaceFields :
             LET y == Fields(S)[f]
             IN \/ f \in Names /\ y = Text("")
                \/ /\ f \notin Pairs \cup Names /\ Value(y) \in Int
                   /\ Value(y) <= 0 \/ (f = "min_t" /\ Value(y) > 5)
      BY <1>0, <1>1, <1>3, <2>6, OnlyRpcTakesObject
    <3>2. f \in DOMAIN Fields(S) /\ Get(Fields(S), f) = Fields(S)[f]
      BY <3>1, GetIs DEF Given
    <3> DEFINE v == Value(Fields(S)[f])
    <3>4. f \notin Pairs \cup Names /\ v \in Int /\ (v <= 0 \/ f = "min_t")
      BY <2>2, <3>1, <3>2
    <3>5. f # "min_t"
      BY <3>1, FieldsAre
    <3>6. v > 0
      BY <1>3, <3>1, <3>4, TooSmallIsRefused DEF S
    <3> HIDE DEF v
    <3> QED
      BY <3>4, <3>5, <3>6
  <2> QED
    BY <2>3, <2>4, <2>5, <2>6 DEF HttpOptimizeFails, T, S
<1>4. ASSUME http, ~rpc PROVE OptimizeLaxHttp(p)
  <2>1. SUFFICES ASSUME ~OptimizeLaxHttp(p) PROVE FALSE
    OBVIOUS
  <2>2. /\ DOMAIN p \subseteq OptimizeFields
        /\ DOMAIN Fields(T) \subseteq TargetFields /\ DOMAIN Fields(S) \subseteq SpaceFields
        /\ ~CoercedFields(T) /\ ~CoercedFields(S) /\ C.is \notin {"number", "digits", "text"}
    BY <2>1 DEF OptimizeLaxHttp, T, S, C
  <2>3. ~HttpObjectFails(T, TargetFields) /\ ~HttpObjectFails(S, SpaceFields)
    BY <1>4 DEF HttpOptimizeFails, T, S
  <2>4. ~RpcObjectFails(T, TargetFields) /\ ~RpcObjectFails(S, SpaceFields)
    BY <1>0, <2>2, <2>3, OnlyHttpTakesObject
  <2>5. C.is \in {"null", "bool"}
    <3>1. CASE "compute_sensitivity" \in DOMAIN p
      BY <1>0, <1>4, <2>2, <3>1 DEF HttpOptimizeFails, HttpBoolFails
    <3> QED
      BY <1>0, <3>1
  <2>6. ~RpcOptimizeFails(p)
    BY <2>2, <2>4, <2>5 DEF RpcOptimizeFails, T, S, C
  <2>8. Accepted(RpcJob(p))
    BY <1>4, <2>2, SameJobs DEF T, S
  <2> QED
    BY <1>4, <2>6, <2>8
<1> QED
  BY <1>2, <1>3, <1>4 DEF OptimizeAgrees
-----------------------------------------------------------------------------
(* The search of a command line has the values that were given. *)
LEMMA CliSpaceIs ==
    ASSUME NEW args
    PROVE  LET n == args.numbers
               s == ConfigOf(CliJob(args))
           IN /\ \A f \in {"outer_step", "metal_step", "substrate", "top_n"} :
                    s[f] = OrDefault(n, f, DefaultSpace[f])
              /\ s.outer_bounds = CliBounds(n, "outer_min", "outer_max", DefaultSpace.outer_bounds)
              /\ s.metal_bounds = CliBounds(n, "metal_min", "metal_max", DefaultSpace.metal_bounds)
<1> DEFINE n == args.numbers
           space == CliJob(args).space
<1>1. space =
        [f \in SpaceFields |->
             CASE f = "outer_bounds" ->
                    CliBounds(n, "outer_min", "outer_max", DefaultSpace.outer_bounds)
               [] f = "metal_bounds" ->
                    CliBounds(n, "metal_min", "metal_max", DefaultSpace.metal_bounds)
               [] f \in Names ->
                    IF f \in DOMAIN GivenSpace(args.materials)
                    THEN args.materials[f] ELSE DefaultSpace[f]
               [] OTHER -> OrDefault(n, f, DefaultSpace[f])]
  BY DEF CliJob
<1> HIDE DEF space, n
<1>2. ASSUME NEW f \in SpaceFields \ Names
      PROVE  ConfigOf(CliJob(args))[f] = space[f]
  <2>1. f \in DOMAIN GivenSpace(space) /\ GivenSpace(space)[f] = space[f]
    BY <1>1, <1>2 DEF GivenSpace
  <2> QED
    BY <1>2, <2>1 DEF ConfigOf, space
<1>3. ASSUME NEW f \in {"outer_step", "metal_step", "substrate", "top_n"}
      PROVE  ConfigOf(CliJob(args))[f] = OrDefault(n, f, DefaultSpace[f])
  <2>1. f \in SpaceFields \ Names /\ f # "outer_bounds" /\ f # "metal_bounds"
    BY FieldsAre DEF Names
  <2>2. space[f] = OrDefault(n, f, DefaultSpace[f])
    BY <1>1, <2>1
  <2> QED
    BY <1>2, <2>1, <2>2
<1>4. /\ "outer_bounds" \in SpaceFields \ Names /\ "metal_bounds" \in SpaceFields \ Names
  BY FieldsAre DEF Names
<1>5. space["outer_bounds"] = CliBounds(n, "outer_min", "outer_max", DefaultSpace.outer_bounds)
  BY <1>1, <1>4
<1>6. space["metal_bounds"] = CliBounds(n, "metal_min", "metal_max", DefaultSpace.metal_bounds)
  BY <1>1, <1>4 DEF Names
<1> QED
  BY <1>2, <1>3, <1>4, <1>5, <1>6 DEF n

(* The target of a command line has the values that were given.               *)
LEMMA CliTargetIs ==
    ASSUME NEW args
    PROVE  \A f \in {"min_t", "max_rs", "min_se"} \cap DOMAIN args.numbers :
              TargetOf(CliJob(args))[f] = args.numbers[f]
<1> TAKE f \in {"min_t", "max_rs", "min_se"} \cap DOMAIN args.numbers
<1>1. f \in TargetFields /\ f # "band"
  BY FieldsAre
<1>2. f \in DOMAIN CliJob(args).target /\ CliJob(args).target[f] = args.numbers[f]
  BY <1>1 DEF CliJob
<1> QED
  BY <1>1, <1>2 DEF TargetOf

(* The options given are those searched.                                      *)
LEMMA CliIsTaken == ServerInv /\ AskedInv => CliTakesWhatIsGiven
<1> SUFFICES ASSUME ServerInv, AskedInv, busy, script[pos].front = "cli"
             PROVE  LET n == script[pos].args.numbers
                        Taken(option, value, default) ==
                            option \in DOMAIN n
                               => value = (IF n[option] = 0 THEN default ELSE n[option])
                    IN /\ \A f \in SpaceFields \cap DOMAIN n : Taken(f, config[f], DefaultSpace[f])
                       /\ Taken("outer_min", config.outer_bounds[1], DefaultSpace.outer_bounds[1])
                       /\ Taken("outer_max", config.outer_bounds[2], DefaultSpace.outer_bounds[2])
                       /\ Taken("metal_min", config.metal_bounds[1], DefaultSpace.metal_bounds[1])
                       /\ Taken("metal_max", config.metal_bounds[2], DefaultSpace.metal_bounds[2])
                       /\ \A f \in TargetFields \cap DOMAIN n : target[f] = n[f]
  BY DEF CliTakesWhatIsGiven
<1> DEFINE args == script[pos].args
           n    == args.numbers
<1>1. DOMAIN n \subseteq Options
  <2>1. pos \in 1..Len(script) /\ script \in Scripts
    BY ScriptIs DEF ServerInv
  <2>2. script[pos] \in Items
    BY <2>1, ScriptIs
  <2> QED
    BY <2>2, ScriptsAssumption
<1>2. target = TargetOf(CliJob(args)) /\ config = ConfigOf(CliJob(args))
  <2>1. JobsOf(script[pos]) = {CliJob(args)}
    BY DEF JobsOf
  <2> QED
    BY <2>1 DEF AskedInv
<1> HIDE DEF args
<1>3. SpaceFields \cap DOMAIN n \subseteq {"outer_step", "metal_step", "substrate", "top_n"}
  BY <1>1, FieldsAre DEF Options
<1>4. TargetFields \cap DOMAIN n \subseteq {"min_t", "max_rs", "min_se"}
  BY <1>1, FieldsAre DEF Options
<1>5. \A f \in SpaceFields \cap DOMAIN n :
         config[f] = IF n[f] = 0 THEN DefaultSpace[f] ELSE n[f]
  BY <1>2, <1>3, CliSpaceIs DEF OrDefault
<1>6. /\ config.outer_bounds = CliBounds(n, "outer_min", "outer_max", DefaultSpace.outer_bounds)
      /\ config.metal_bounds = CliBounds(n, "metal_min", "metal_max", DefaultSpace.metal_bounds)
  BY <1>2, CliSpaceIs
<1>7. \A f \in TargetFields \cap DOMAIN n : target[f] = n[f]
  BY <1>2, <1>4, CliTargetIs
<1> QED
  BY <1>5, <1>6, <1>7 DEF CliBounds, OrDefault, args

(* TransportsAgree: JSON-RPC and HTTP take the same parameters to the same     *)
(* specification but for the named differences, and the command line searches  *)
(* what it was asked to search (omo.rpc.server, omo.api.schemas, omo.cli).     *)
THEOREM TransportsTakeTheSame == Spec => []TransportsAgree
<1>1. ServerInv => \A n \in Nat : n < Len(script) =>
         LET item == script[n + 1]
         IN item.front = "rpc" => Params(Fields(item.params))
  <2> SUFFICES ASSUME ServerInv, NEW n \in Nat, n < Len(script), script[n + 1].front = "rpc"
               PROVE  Params(Fields(script[n + 1].params))
    OBVIOUS
  <2> DEFINE p == Fields(script[n + 1].params)
  <2>1. script \in Scripts
    BY DEF ServerInv
  <2>2. n + 1 \in 1..Len(script)
    BY <2>1, ScriptIs
  <2>3. script[n + 1] \in Items
    BY <2>1, <2>2, ScriptIs
  <2>4. \A x \in Range(p) : IsRaw(x) /\ \A y \in Range(Fields(x)) : IsRaw(y)
    BY <2>3, ScriptsAssumption
  <2> HIDE DEF p
  <2>5. Params(p)
    BY <2>4 DEF Params, Range
  <2> QED
    BY <2>5 DEF p
<1>2. ServerInv /\ AskedInv => TransportsAgree
  <2> SUFFICES ASSUME ServerInv, AskedInv PROVE TransportsAgree
    OBVIOUS
  <2>1. CliTakesWhatIsGiven
    BY CliIsTaken
  <2>2. ASSUME pos < Len(script), Item.front = "rpc", Item.form = "request",
               Item.params.is = "object"
        PROVE  LET p == Item.params.datum
               IN /\ Item.method = "simulate" => SimulateAgrees(p)
                  /\ Item.method = "optimize" => OptimizeAgrees(p)
    <3>1. pos \in Nat
      BY ScriptIs DEF ServerInv
    <3>2. Fields(Item.params) = Item.params.datum
      BY <2>2 DEF Fields
    <3>3. Params(Item.params.datum)
      BY <1>1, <2>2, <3>1, <3>2 DEF Item
    <3> QED
      BY <3>3, SimulationsAgree, OptimizationsAgree
  <2> QED
    BY <2>1, <2>2 DEF TransportsAgree
<1> QED
  BY <1>2, AskedInit, AskedStep, ServerInvHolds, PTL DEF Spec
=============================================================================
