--------------------------- MODULE ReportsProofs ---------------------------
(***************************************************************************)
(* Theorems of Reports, for every price file, every table and every report: *)
(* a restart does not change prices; a report bills each request once; the  *)
(* parts make the whole; no gap is masked; the reports of one moment agree. *)
(*                                                                          *)
(* All of them are about sums.  A bucket holds the totals of its rows, what *)
(* it costs is linear in them, and the buckets of a group share out the rows *)
(* of the group: so what a report says of a group is the total of what there *)
(* is to say of each of its rows.  A total is complete when nothing is      *)
(* missing of any row (RowComplete).                                        *)
(***************************************************************************)
EXTENDS Reports, FiniteSetTheorems, WellFoundedInduction, TLAPS

-----------------------------------------------------------------------------
(* Sums over finite sets.  The library defines a sum by a recursion that    *)
(* takes out an arbitrary element; it does not matter which.                *)

\* Induction over the subsets of a finite set, with the set of the good ones in
\* place of a predicate.
LEMMA SetInduction ==
  ASSUME NEW S, IsFiniteSet(S), NEW good \in SUBSET (SUBSET S), {} \in good,
         \A T \in SUBSET S : (\A U \in SUBSET T : U # T => U \in good) => T \in good
  PROVE  \A T \in SUBSET S : T \in good
<1> DEFINE bad == (SUBSET S) \ good
<1>1. SUFFICES ASSUME bad # {} PROVE FALSE
  OBVIOUS
<1>2. FiniteSubsetsOf(S) = SUBSET S
  BY FS_FiniteSubsetsOfFinite
<1>3. PICK T \in bad : \A U \in bad : ~(<<U, T>> \in StrictSubsetOrdering(S))
  <2>1. bad \subseteq FiniteSubsetsOf(S)
    BY <1>2
  <2>2. IsWellFoundedOn(StrictSubsetOrdering(S), FiniteSubsetsOf(S))
    BY FS_StrictSubsetOrderingWellFounded
  <2> HIDE DEF bad
  <2> QED BY ONLY <1>1, <2>1, <2>2, WFMin
<1>4. \A U \in SUBSET T : U # T => U \in good
  <2> SUFFICES ASSUME NEW U \in SUBSET T, U # T, U \notin good PROVE FALSE
    OBVIOUS
  <2>1. U \in bad
    OBVIOUS
  <2>2. <<U, T>> \in StrictSubsetOrdering(S)
    BY DEF StrictSubsetOrdering
  <2> QED BY <1>3, <2>1, <2>2
<1> QED BY <1>4

\* Induction over the natural numbers in the same form.
LEMMA NatInductionOnSet ==
  ASSUME NEW good \in SUBSET Nat, 0 \in good, \A n \in good : n + 1 \in good
  PROVE  good = Nat
<1>1. SUFFICES ASSUME Nat \ good # {} PROVE FALSE
  OBVIOUS
<1>2. PICK n \in Nat \ good : \A m \in Nat \ good : ~(<<m, n>> \in OpToRel(<, Nat))
  <2> HIDE DEF OpToRel
  <2>1. Nat \ good \subseteq Nat
    OBVIOUS
  <2> QED BY ONLY <1>1, <2>1, NatLessThanWellFounded, WFMin
<1>3. n # 0 /\ n - 1 \in Nat /\ n - 1 < n
  OBVIOUS
<1>4. <<n - 1, n>> \in OpToRel(<, Nat)
  BY <1>3 DEF OpToRel
<1>5. n - 1 \in good
  BY <1>2, <1>3, <1>4
<1>6. (n - 1) + 1 = n
  OBVIOUS
<1> QED BY <1>5, <1>6

\* The element that the recursion of a sum takes out, and the recursion.
Some(T) == CHOOSE x \in T : TRUE
IsSum(f, S, g) == g = [T \in SUBSET S |-> IF T = {} THEN 0 ELSE f[Some(T)] + g[T \ {Some(T)}]]

\* The library's sum over a set is the function its recursion chooses.
LEMMA SumIsChosen ==
  ASSUME NEW f, NEW S
  PROVE  SumFunctionOnSet(f, S) = (CHOOSE g : IsSum(f, S, g))[S]
BY Zenon DEF SumFunctionOnSet, FoldFunctionOnSet, MapThenFoldSet, IsSum, Some

\* The element the recursion takes out is one of the set.
LEMMA SomeIs ==
  ASSUME NEW T, T # {}
  PROVE  Some(T) \in T
BY DEF Some

\* There is a function that satisfies the recursion of a sum.
LEMMA SumExists ==
  ASSUME NEW S, IsFiniteSet(S), NEW f \in [S -> Int]
  PROVE  \E g \in [SUBSET S -> Int] : IsSum(f, S, g)
<1> DEFINE Small(n) == {T \in SUBSET S : Cardinality(T) <= n}
           Step(g, T) == IF T = {} THEN 0 ELSE f[Some(T)] + g[T \ {Some(T)}]
           good == {n \in Nat : \E g \in [Small(n) -> Int] : \A T \in Small(n) : g[T] = Step(g, T)}
<1>1. \A T \in SUBSET S : IsFiniteSet(T) /\ Cardinality(T) \in Nat
  BY FS_Subset, FS_CardinalityType
<1>2. ASSUME NEW T \in SUBSET S, T # {}
      PROVE  /\ Some(T) \in T /\ T \ {Some(T)} \in SUBSET S
             /\ Cardinality(T \ {Some(T)}) = Cardinality(T) - 1 /\ f[Some(T)] \in Int
  BY <1>1, <1>2, SomeIs, FS_RemoveElement
<1>3. \A T \in SUBSET S : Cardinality(T) <= 0 <=> T = {}
  BY <1>1, FS_EmptySet
<1>4. 0 \in good
  <2> DEFINE g == [T \in Small(0) |-> 0]
  <2>1. g \in [Small(0) -> Int] /\ \A T \in Small(0) : T = {} /\ g[T] = 0
    BY <1>3
  <2>2. \A T \in Small(0) : g[T] = Step(g, T)
    BY <2>1
  <2> HIDE DEF g, Small, Step
  <2> QED BY <2>1, <2>2
<1>5. ASSUME NEW n \in good PROVE n + 1 \in good
  <2>1. PICK g \in [Small(n) -> Int] : \A T \in Small(n) : g[T] = Step(g, T)
    BY <1>5
  <2> DEFINE h == [T \in Small(n + 1) |-> IF T \in Small(n) THEN g[T] ELSE Step(g, T)]
  <2>2. n \in Nat /\ n + 1 \in Nat
    OBVIOUS
  <2>3. ASSUME NEW T \in Small(n + 1), T # {}
        PROVE  T \ {Some(T)} \in Small(n) /\ T \ {Some(T)} \in Small(n + 1)
    <3>1. Cardinality(T) <= n + 1 /\ T \in SUBSET S
      OBVIOUS
    <3>2. Cardinality(T \ {Some(T)}) = Cardinality(T) - 1 /\ T \ {Some(T)} \in SUBSET S
      BY <1>2, <2>3
    <3>3. Cardinality(T) \in Nat
      BY <1>1
    <3>4. Cardinality(T) - 1 <= n /\ Cardinality(T) - 1 <= n + 1
      BY <2>2, <3>1, <3>3
    <3> QED BY <3>2, <3>4
  <2>4. ASSUME NEW T \in Small(n + 1) PROVE Step(g, T) \in Int /\ Step(h, T) = Step(g, T)
    <3>1. CASE T = {}
      BY <3>1
    <3>2. CASE T # {}
      <4>1. T \ {Some(T)} \in Small(n) /\ T \ {Some(T)} \in Small(n + 1)
        BY <2>3, <3>2
      <4>2. h[T \ {Some(T)}] = g[T \ {Some(T)}] /\ g[T \ {Some(T)}] \in Int
        BY <4>1
      <4>3. f[Some(T)] \in Int
        BY <1>2, <3>2
      <4> HIDE DEF h, Small
      <4> QED BY <3>2, <4>2, <4>3
    <3> QED BY <3>1, <3>2
  <2>5. ASSUME NEW T \in Small(n + 1) PROVE h[T] = Step(h, T) /\ h[T] \in Int
    <3>1. h[T] = IF T \in Small(n) THEN g[T] ELSE Step(g, T)
      OBVIOUS
    <3>2. Step(g, T) \in Int /\ Step(h, T) = Step(g, T)
      BY <2>4
    <3> HIDE DEF h, Step, Small
    <3> QED BY <2>1, <3>1, <3>2
  <2>6. h \in [Small(n + 1) -> Int]
    <3>1. \A T \in Small(n + 1) : h[T] \in Int
      BY <2>5
    <3> HIDE DEF Small, Step
    <3> QED BY <3>1
  <2> HIDE DEF h, Small, Step
  <2> QED BY <2>2, <2>5, <2>6
<1>6. Cardinality(S) \in good
  <2>1. good \in SUBSET Nat
    OBVIOUS
  <2> HIDE DEF good
  <2>2. good = Nat
    BY <1>4, <1>5, <2>1, NatInductionOnSet
  <2> QED BY <1>1, <2>2
<1>7. Small(Cardinality(S)) = SUBSET S
  BY <1>1, FS_Subset
<1>8. PICK g \in [SUBSET S -> Int] : \A T \in SUBSET S : g[T] = Step(g, T)
  <2> HIDE DEF Small, Step
  <2> QED BY <1>6, <1>7
<1>9. g = [T \in SUBSET S |-> Step(g, T)]
  <2> HIDE DEF Step
  <2> QED BY <1>8
<1> QED BY <1>9 DEF IsSum

\* Two functions that satisfy it agree wherever both are defined.
LEMMA SumUnique ==
  ASSUME NEW S, IsFiniteSet(S), NEW T \in SUBSET S, NEW f, NEW g, NEW h,
         IsSum(f, S, g), IsSum(f, T, h)
  PROVE  \A U \in SUBSET T : g[U] = h[U]
<1> DEFINE good == {U \in SUBSET T : g[U] = h[U]}
<1>1. \A U \in SUBSET T : /\ g[U] = IF U = {} THEN 0 ELSE f[Some(U)] + g[U \ {Some(U)}]
                          /\ h[U] = IF U = {} THEN 0 ELSE f[Some(U)] + h[U \ {Some(U)}]
  BY DEF IsSum
<1>2. {} \in good /\ good \in SUBSET SUBSET T /\ IsFiniteSet(T)
  BY <1>1, FS_Subset
<1>3. ASSUME NEW U \in SUBSET T, \A V \in SUBSET U : V # U => V \in good PROVE U \in good
  <2>1. CASE U = {}
    BY <1>2, <2>1
  <2>2. CASE U # {}
    <3>1. U \ {Some(U)} \in good
      BY <1>3, <2>2, SomeIs
    <3> QED BY <1>1, <2>2, <3>1
  <2> QED BY <2>1, <2>2
<1>4. \A U \in SUBSET T : U \in good
  <2> HIDE DEF good
  <2> QED BY <1>2, <1>3, SetInduction
<1> QED BY <1>4

\* The sum over a set, by one of its elements.
SumOn(f, S) == SumFunctionOnSet(f, S)

\* The sum over a set, by the element the recursion takes out.
LEMMA SumSome ==
  ASSUME NEW S, IsFiniteSet(S), NEW f \in [S -> Int], NEW T \in SUBSET S
  PROVE  /\ SumOn(f, T) \in Int
         /\ SumOn(f, T) = IF T = {} THEN 0 ELSE f[Some(T)] + SumOn(f, T \ {Some(T)})
<1> DEFINE G(U) == CHOOSE g : IsSum(f, U, g)
<1>1. PICK g \in [SUBSET S -> Int] : IsSum(f, S, g)
  BY SumExists
<1>2. ASSUME NEW U \in SUBSET S PROVE SumOn(f, U) = g[U]
  <2> DEFINE e == [x \in U |-> f[x]]
  <2>1. IsFiniteSet(U) /\ e \in [U -> Int]
    BY FS_Subset
  <2> HIDE DEF e
  <2>2. PICK h \in [SUBSET U -> Int] : IsSum(e, U, h)
    BY <2>1, SumExists
  <2>3. IsSum(f, U, h)
    <3>1. \A V \in SUBSET U : V # {} => f[Some(V)] = e[Some(V)]
      BY SomeIs DEF e
    <3> QED BY <2>2, <3>1 DEF IsSum
  <2>4. IsSum(f, U, G(U))
    BY <2>3
  <2>5. G(U)[U] = g[U]
    <3> HIDE DEF G
    <3> QED BY <1>1, <2>4, SumUnique
  <2> QED BY <2>5, SumIsChosen DEF SumOn
<1>3. g[T] \in Int /\ g[T] = IF T = {} THEN 0 ELSE f[Some(T)] + g[T \ {Some(T)}]
  BY <1>1 DEF IsSum
<1> QED BY <1>2, <1>3

\* The sum over no element is zero.
LEMMA SumOfNone == ASSUME NEW f PROVE SumOn(f, {}) = 0
<1> DEFINE e == [x \in {} |-> 0]
<1>1. PICK g : IsSum(e, {}, g)
  <2>1. e \in [{} -> Int] /\ IsFiniteSet({})
    BY FS_EmptySet
  <2> HIDE DEF e
  <2> QED BY <2>1, SumExists
<1>2. IsSum(f, {}, g)
  <2>1. \A T \in SUBSET {} : T = {}
    OBVIOUS
  <2> QED BY <1>1, <2>1 DEF IsSum
<1>3. IsSum(f, {}, CHOOSE h : IsSum(f, {}, h))
  BY <1>2
<1> QED BY <1>3, SumIsChosen DEF SumOn, IsSum

\* The sum over a set, by any of its elements: the order does not matter.
LEMMA SumOneMore ==
  ASSUME NEW S, IsFiniteSet(S), NEW f \in [S -> Int]
  PROVE  \A T \in SUBSET S : \A x \in T : SumOn(f, T) = f[x] + SumOn(f, T \ {x})
<1> DEFINE good == {T \in SUBSET S : \A x \in T : SumOn(f, T) = f[x] + SumOn(f, T \ {x})}
<1>1. {} \in good /\ good \in SUBSET SUBSET S
  OBVIOUS
<1>2. \A T \in SUBSET S : SumOn(f, T) \in Int
  BY SumSome
<1>3. \A x \in S : f[x] \in Int
  OBVIOUS
<1>4. ASSUME NEW T \in SUBSET S, \A U \in SUBSET T : U # T => U \in good PROVE T \in good
  <2> SUFFICES ASSUME NEW x \in T PROVE SumOn(f, T) = f[x] + SumOn(f, T \ {x})
    OBVIOUS
  <2>1. Some(T) \in T /\ SumOn(f, T) = f[Some(T)] + SumOn(f, T \ {Some(T)})
    BY SomeIs, SumSome
  <2>2. CASE x = Some(T)
    BY <2>1, <2>2
  <2>3. CASE x # Some(T)
    <3> DEFINE y == Some(T)
               R == (T \ {x}) \ {y}
    <3>1. /\ T \ {x} \in good /\ T \ {y} \in good /\ y \in T \ {x} /\ x \in T \ {y}
          /\ R = (T \ {y}) \ {x} /\ R \in SUBSET S
      BY <1>4, <2>1, <2>3
    <3>2. SumOn(f, T \ {x}) = f[y] + SumOn(f, R)
      BY <3>1
    <3>3. SumOn(f, T \ {y}) = f[x] + SumOn(f, R)
      BY <3>1
    <3>4. SumOn(f, R) \in Int /\ f[x] \in Int /\ f[y] \in Int
      BY <1>2, <1>3, <2>1, <3>1
    <3> HIDE DEF y, R, good
    <3> QED BY <2>1, <3>2, <3>3, <3>4 DEF y
  <2> QED BY <2>2, <2>3
<1>5. \A T \in SUBSET S : T \in good
  <2> HIDE DEF good
  <2> QED BY <1>1, <1>4, SetInduction
<1> QED BY <1>5

\* The same for one set and one element.
LEMMA SumOne ==
  ASSUME NEW S, IsFiniteSet(S), NEW f \in [S -> Int], NEW T \in SUBSET S, NEW x \in T
  PROVE  SumOn(f, T) = f[x] + SumOn(f, T \ {x})
BY SumOneMore

\* F adds up f over the subsets of S.
Adds(F, f, S) ==
  F[{}] = 0 /\ \A T \in SUBSET S : \A x \in T : F[T] = f[x] + F[T \ {x}]

\* What adds up element by element is the sum.
LEMMA SumIs ==
  ASSUME NEW S, IsFiniteSet(S), NEW f \in [S -> Int], NEW F, Adds(F, f, S)
  PROVE  \A T \in SUBSET S : F[T] = SumOn(f, T)
<1> DEFINE good == {T \in SUBSET S : F[T] = SumOn(f, T)}
<1>1. {} \in good /\ good \in SUBSET SUBSET S
  BY SumOfNone DEF Adds
<1>2. ASSUME NEW T \in SUBSET S, \A U \in SUBSET T : U # T => U \in good PROVE T \in good
  <2>1. CASE T = {}
    BY <1>1, <2>1
  <2>2. CASE T # {}
    <3>1. PICK x \in T : F[T] = f[x] + F[T \ {x}]
      BY <2>2 DEF Adds
    <3>2. T \ {x} \in SUBSET T /\ T \ {x} # T
      OBVIOUS
    <3>3. F[T \ {x}] = SumOn(f, T \ {x})
      BY <1>2, <3>2
    <3>4. SumOn(f, T) = f[x] + SumOn(f, T \ {x})
      BY SumOneMore
    <3> QED BY <3>1, <3>3, <3>4
  <2> QED BY <2>1, <2>2
<1>3. \A T \in SUBSET S : T \in good
  <2> HIDE DEF good
  <2> QED BY <1>1, <1>2, SetInduction
<1> QED BY <1>3

\* Add is the sum over the domain, and a number.
LEMMA AddIs ==
  ASSUME NEW S, IsFiniteSet(S), NEW f \in [S -> Int]
  PROVE  Add(f) = SumOn(f, S) /\ Add(f) \in Int
<1>1. DOMAIN f = S
  OBVIOUS
<1>2. SumOn(f, S) \in Int
  BY SumSome
<1> QED BY <1>1, <1>2, Zenon DEF Add, SumOn

\* Functions that agree on a set have the same sum over it.
LEMMA SumSame ==
  ASSUME NEW S, IsFiniteSet(S), NEW T \in SUBSET S, NEW f \in [S -> Int], NEW g \in [T -> Int],
         \A x \in T : f[x] = g[x]
  PROVE  SumOn(f, T) = Add(g)
<1> DEFINE F == [U \in SUBSET T |-> SumOn(f, U)]
<1>1. IsFiniteSet(T)
  BY FS_Subset
<1>2. F[{}] = 0
  BY SumOfNone
<1>3. \A U \in SUBSET T : \A x \in U : F[U] = g[x] + F[U \ {x}]
  <2> SUFFICES ASSUME NEW U \in SUBSET T, NEW x \in U PROVE F[U] = g[x] + F[U \ {x}]
    OBVIOUS
  <2>1. SumOn(f, U) = f[x] + SumOn(f, U \ {x})
    BY SumOneMore
  <2> QED BY <2>1
<1>4. F[T] = SumOn(g, T)
  <2> HIDE DEF F
  <2>1. Adds(F, g, T)
    BY <1>2, <1>3 DEF Adds
  <2> QED BY <1>1, <2>1, SumIs
<1> QED BY <1>1, <1>4, AddIs

\* Disjoint sets.
Apart(A, B) == A \cap B = {}

\* The sum over two disjoint sets is the sum of the two sums.
LEMMA SumSplit ==
  ASSUME NEW S, IsFiniteSet(S), NEW f \in [S -> Int], NEW A \in SUBSET S, NEW B \in SUBSET S,
         Apart(A, B)
  PROVE  SumOn(f, A \cup B) = SumOn(f, A) + SumOn(f, B)
<1> DEFINE R == A \cup B
           e == [x \in R |-> f[x]]
           F == [T \in SUBSET R |-> SumOn(f, T \cap A) + SumOn(f, T \cap B)]
<1>1. F[{}] = 0
  BY SumOfNone
<1>2. \A T \in SUBSET S : SumOn(f, T) \in Int
  BY SumSome
<1>3. \A T \in SUBSET R : \A x \in T : F[T] = e[x] + F[T \ {x}]
  <2> SUFFICES ASSUME NEW T \in SUBSET R, NEW x \in T PROVE F[T] = e[x] + F[T \ {x}]
    OBVIOUS
  <2>1. /\ F[T] = SumOn(f, T \cap A) + SumOn(f, T \cap B)
        /\ F[T \ {x}] = SumOn(f, (T \ {x}) \cap A) + SumOn(f, (T \ {x}) \cap B)
        /\ e[x] = f[x] /\ f[x] \in Int
    OBVIOUS
  <2>2. /\ SumOn(f, T \cap A) \in Int /\ SumOn(f, T \cap B) \in Int
        /\ SumOn(f, (T \ {x}) \cap A) \in Int /\ SumOn(f, (T \ {x}) \cap B) \in Int
    BY <1>2
  <2>3. CASE x \in A
    <3>1. (T \ {x}) \cap A = (T \cap A) \ {x} /\ (T \ {x}) \cap B = T \cap B /\ x \in T \cap A
      BY <2>3 DEF Apart
    <3>2. SumOn(f, T \cap A) = f[x] + SumOn(f, (T \cap A) \ {x})
      BY <3>1, SumOneMore
    <3> HIDE DEF F, e, R
    <3>3. F[T \ {x}] = SumOn(f, (T \cap A) \ {x}) + SumOn(f, T \cap B)
      BY <2>1, <3>1, Zenon
    <3>4. SumOn(f, (T \cap A) \ {x}) \in Int
      BY <2>2, <3>1, Zenon
    <3> QED BY ONLY <2>1, <2>2, <3>2, <3>3, <3>4
  <2>4. CASE x \in B
    <3>1. (T \ {x}) \cap B = (T \cap B) \ {x} /\ (T \ {x}) \cap A = T \cap A /\ x \in T \cap B
      BY <2>4 DEF Apart
    <3>2. SumOn(f, T \cap B) = f[x] + SumOn(f, (T \cap B) \ {x})
      BY <3>1, SumOneMore
    <3> HIDE DEF F, e, R
    <3>3. F[T \ {x}] = SumOn(f, T \cap A) + SumOn(f, (T \cap B) \ {x})
      BY <2>1, <3>1, Zenon
    <3>4. SumOn(f, (T \cap B) \ {x}) \in Int
      BY <2>2, <3>1, Zenon
    <3> QED BY ONLY <2>1, <2>2, <3>2, <3>3, <3>4
  <2> QED BY <2>3, <2>4
<1>4. IsFiniteSet(R) /\ e \in [R -> Int]
  BY FS_Subset
<1>5. F[R] = SumOn(e, R)
  <2> HIDE DEF F, e, R
  <2>1. Adds(F, e, R)
    BY <1>1, <1>3 DEF Adds
  <2> QED BY <1>4, <2>1, SumIs
<1>6. F[R] = SumOn(f, A) + SumOn(f, B)
  <2>1. R \cap A = A /\ R \cap B = B
    OBVIOUS
  <2> QED BY <2>1
<1>7. SumOn(f, R) = Add(e) /\ Add(e) = SumOn(e, R)
  <2>1. \A x \in R : f[x] = e[x]
    OBVIOUS
  <2> HIDE DEF e
  <2> QED BY <1>4, <2>1, SumSame, AddIs
<1> QED BY <1>5, <1>6, <1>7

\* g is, for every label of L, the sum over the elements of R that have it.
IsFiberSum(g, f, R, h, L) == \A k \in L : g[k] = SumOn(f, {x \in R : h[x] = k})

\* The sums over the elements with one label each add up to the sum over the
\* elements with one of the labels.
LEMMA SumFibers ==
  ASSUME NEW S, IsFiniteSet(S), NEW f \in [S -> Int], NEW R \in SUBSET S, NEW h, NEW L, IsFiniteSet(L),
         NEW g \in [L -> Int], IsFiberSum(g, f, R, h, L)
  PROVE  Add(g) = SumOn(f, {x \in R : h[x] \in L})
<1> DEFINE B(T) == {x \in R : h[x] \in T}
           F == [T \in SUBSET L |-> SumOn(f, B(T))]
<1>1. F[{}] = 0
  BY SumOfNone
<1>2. \A T \in SUBSET L : \A k \in T : F[T] = g[k] + F[T \ {k}]
  <2> SUFFICES ASSUME NEW T \in SUBSET L, NEW k \in T PROVE F[T] = g[k] + F[T \ {k}]
    OBVIOUS
  <2> DEFINE A == {x \in R : h[x] = k}
  <2>1. /\ B(T) = A \cup B(T \ {k}) /\ A \cap B(T \ {k}) = {}
        /\ A \in SUBSET S /\ B(T \ {k}) \in SUBSET S
    OBVIOUS
  <2>2. F[T] = SumOn(f, B(T)) /\ F[T \ {k}] = SumOn(f, B(T \ {k})) /\ g[k] = SumOn(f, A)
    BY DEF IsFiberSum
  <2> HIDE DEF A, B, F
  <2>3. PICK P \in SUBSET S, Q \in SUBSET S : P = A /\ Q = B(T \ {k}) /\ Apart(P, Q)
    BY <2>1 DEF Apart
  <2>4. SumOn(f, P \cup Q) = SumOn(f, P) + SumOn(f, Q)
    <3>1. Apart(P, Q)
      BY <2>3
    <3> QED BY ONLY <3>1, P \in SUBSET S, Q \in SUBSET S, IsFiniteSet(S), f \in [S -> Int], SumSplit
  <2> QED BY <2>1, <2>2, <2>3, <2>4, Zenon
<1>3. F[L] = SumOn(g, L)
  <2> HIDE DEF F
  <2>1. Adds(F, g, L)
    BY <1>1, <1>2 DEF Adds
  <2> QED BY <2>1, SumIs
<1> QED BY <1>3, AddIs

\* A sum of numbers that are not negative is above zero when one of them is.
LEMMA SumSign ==
  ASSUME NEW S, IsFiniteSet(S), NEW f \in [S -> Int], \A x \in S : f[x] >= 0
  PROVE  \A T \in SUBSET S : SumOn(f, T) >= 0 /\ (SumOn(f, T) > 0 <=> \E x \in T : f[x] > 0)
<1> DEFINE good == {T \in SUBSET S :
             SumOn(f, T) >= 0 /\ (SumOn(f, T) > 0 <=> \E x \in T : f[x] > 0)}
<1>1. {} \in good /\ good \in SUBSET SUBSET S
  BY SumOfNone
<1>2. ASSUME NEW T \in SUBSET S, \A U \in SUBSET T : U # T => U \in good PROVE T \in good
  <2>1. CASE T = {}
    BY <1>1, <2>1
  <2>2. CASE T # {}
    <3>1. PICK x \in T : TRUE
      BY <2>2
    <3>2. T \ {x} \in good
      BY <1>2
    <3>3. SumOn(f, T) = f[x] + SumOn(f, T \ {x})
      BY SumOneMore
    <3>4. SumOn(f, T \ {x}) \in Int /\ f[x] \in Int /\ f[x] >= 0
      BY SumSome
    <3>5. (\E y \in T : f[y] > 0) <=> (f[x] > 0 \/ \E y \in T \ {x} : f[y] > 0)
      OBVIOUS
    <3> DEFINE positive == \E y \in T : f[y] > 0
               rest == \E y \in T \ {x} : f[y] > 0
    <3>6. SumOn(f, T \ {x}) >= 0 /\ (SumOn(f, T \ {x}) > 0 <=> rest)
      BY <3>2
    <3>7. positive <=> f[x] > 0 \/ rest
      BY <3>5
    <3>8. SumOn(f, T) >= 0 /\ (SumOn(f, T) > 0 <=> positive)
      <4> HIDE DEF positive, rest
      <4> QED BY <3>3, <3>4, <3>6, <3>7
    <3> QED BY <3>8
  <2> QED BY <2>1, <2>2
<1>3. \A T \in SUBSET S : T \in good
  <2> HIDE DEF good
  <2> QED BY <1>1, <1>2, SetInduction
<1> QED BY <1>3

-----------------------------------------------------------------------------
(* The invariant: the tables are tables of rows, and once a query of the reader *)
(* has run, it has run on the table of the transaction.                     *)

\* A row that can be in the table, and a table of such rows.
Row(r) == r \in Requests /\ \A i, j \in r.image : i = j

Table(t) == IsFiniteSet(DOMAIN t) /\ \A r \in DOMAIN t : Row(r) /\ t[r] \in Nat /\ t[r] > 0

\* A query that has run has run on the table of the transaction.
ReaderInv ==
  /\ reader = [pc |-> reader.pc, tx |-> reader.tx, seen |-> reader.seen]
  /\ DOMAIN reader.seen = Tables
  /\ Table(reader.tx)
  /\ reader.pc \in {"text", "image", "done"} => reader.seen["rows"] = reader.tx
  /\ reader.pc \in {"image", "done"} => reader.seen["text"] = reader.tx
  /\ reader.pc = "done" => reader.seen["image"] = reader.tx

ReportsInv ==
  /\ file \in Files /\ prices \in Parse(file)
  /\ Table(table)
  /\ ReaderInv

\* A table without rows is a table.
LEMMA EmptyTable == Table(EmptyBag)
BY FS_EmptySet DEF Table, EmptyBag, SetToBag

\* So is a table with one row.
LEMMA OneRow == ASSUME NEW r, Row(r) PROVE Table(SetToBag({r})) /\ DOMAIN SetToBag({r}) = {r}
                                           /\ SetToBag({r})[r] = 1
<1>1. IsFiniteSet({r})
  BY FS_Singleton
<1> QED BY <1>1 DEF Table, SetToBag

\* An insert leaves a table.
LEMMA PlusTable ==
  ASSUME NEW t, NEW u, Table(t), Table(u)
  PROVE  Table(t (+) u)
<1>1. DOMAIN (t (+) u) = DOMAIN t \cup DOMAIN u
  BY DEF (+)
<1>2. IsFiniteSet(DOMAIN t \cup DOMAIN u)
  BY FS_Union DEF Table
<1>3. ASSUME NEW r \in DOMAIN t \cup DOMAIN u PROVE Row(r) /\ (t (+) u)[r] \in Nat /\ (t (+) u)[r] > 0
  BY DEF Table, (+)
<1> QED BY <1>1, <1>2, <1>3, Zenon DEF Table

\* A delete leaves a table.
LEMMA MinusTable ==
  ASSUME NEW t, NEW u, Table(t), Table(u)
  PROVE  Table(t (-) u)
<1>1. DOMAIN (t (-) u) \subseteq DOMAIN t
  BY DEF (-)
<1>2. IsFiniteSet(DOMAIN (t (-) u))
  BY <1>1, FS_Subset DEF Table
<1>3. ASSUME NEW r \in DOMAIN (t (-) u) PROVE Row(r) /\ (t (-) u)[r] \in Nat /\ (t (-) u)[r] > 0
  BY <1>1 DEF Table, (-)
<1> QED BY <1>2, <1>3, Zenon DEF Table

\* An update of one row leaves a table.
LEMMA UpdatedRow ==
  ASSUME NEW t, Table(t), NEW r, BagIn(r, t), NEW s, Row(s)
  PROVE  Table((t (-) SetToBag({r})) (+) SetToBag({s}))
<1>1. Row(r)
  BY DEF BagIn, BagToSet, Table
<1>2. Table(t (-) SetToBag({r}))
  BY <1>1, OneRow, MinusTable
<1> QED BY <1>2, OneRow, PlusTable

\* The invariant holds when the process has started.
LEMMA ReportsInit == Init => ReportsInv
<1> SUFFICES ASSUME Init PROVE ReportsInv
  OBVIOUS
<1>1. ReaderInv
  BY EmptyTable DEF Init, Idle, Nothing, Tables, ReaderInv
<1> QED BY <1>1, EmptyTable DEF Init, ReportsInv

\* Every step keeps the invariant: the writers keep rows rows, and the queries of
\* the reader run on the table of its transaction.
LEMMA ReportsStep == ReportsInv /\ [Next]_vars => ReportsInv'
<1> SUFFICES ASSUME ReportsInv, [Next]_vars PROVE ReportsInv'
  OBVIOUS
<1> USE DEF ReportsInv
<1>a. ASSUME UNCHANGED <<file, prices>>, Table(table'), UNCHANGED reader PROVE ReportsInv'
  BY <1>a DEF ReaderInv
<1>b. ASSUME UNCHANGED <<file, prices, table>>, ReaderInv' PROVE ReportsInv'
  BY <1>b
<1>c. reader' = Idle => ReaderInv'
  BY EmptyTable DEF Idle, Nothing, Tables, ReaderInv
<1>1. ASSUME NEW r \in Samples, InsertBatch(r) PROVE ReportsInv'
  <2>1. Row(r)
    BY SamplesAssumption DEF Row
  <2> QED BY <1>1, <1>a, <2>1, OneRow, PlusTable DEF InsertBatch
<1>2. ASSUME NEW r \in BagToSet(table), NEW u \in SideUsages, MergeSideUsage(r, u) PROVE ReportsInv'
  <2> DEFINE s == [r EXCEPT !.source = "side_channel", !.input = u.input, !.output = u.output,
                 !.reasoning = u.reasoning, !.cached = u.cached, !.creation = u.creation,
                 !.returned = IF @ = <<>> THEN u.model ELSE @]
  <2>1. Row(r) /\ u \in Usages
    BY UsagesAssumption DEF Table, BagToSet
  <2>2. s \in Requests
    <3>1. r \in Requests
      BY <2>1 DEF Row
    <3> DEFINE n == IF r.returned = <<>> THEN u.model ELSE r.returned
    <3>2. n \in Seq(STRING)
      BY <2>1, <3>1 DEF Requests, Usages
    <3>3. s = [r EXCEPT !.source = "side_channel", !.input = u.input, !.output = u.output,
                 !.reasoning = u.reasoning, !.cached = u.cached, !.creation = u.creation, !.returned = n]
      BY <3>1 DEF Requests
    <3>4. u.input \in Nat /\ u.output \in Nat /\ u.reasoning \in Nat /\ u.cached \in Nat /\ u.creation \in Nat
      BY <2>1 DEF Usages
    <3> HIDE DEF n, s
    <3> QED BY <3>1, <3>2, <3>3, <3>4 DEF Requests, Sources
  <2>3. s.image = r.image
    BY <2>1 DEF Row, Requests
  <2>4. Row(s)
    BY <2>1, <2>2, <2>3 DEF Row
  <2>5. table' = (table (-) SetToBag({r})) (+) SetToBag({s}) /\ BagIn(r, table)
        /\ UNCHANGED <<file, prices, reader>>
    BY <1>2 DEF MergeSideUsage
  <2> HIDE DEF s
  <2>6. Table((table (-) SetToBag({r})) (+) SetToBag({s}))
    BY <2>4, <2>5, UpdatedRow
  <2> QED BY <1>a, <2>5, <2>6
<1>3. ASSUME NEW r \in BagToSet(table), MarkConflict(r) PROVE ReportsInv'
  <2> DEFINE s == [r EXCEPT !.conflict = TRUE]
  <2>1. Row(r)
    BY DEF Table, BagToSet
  <2>2. s \in Requests /\ s.image = r.image
    BY <2>1 DEF Row, Requests
  <2>4. Row(s)
    BY <2>1, <2>2 DEF Row
  <2>5. table' = (table (-) SetToBag({r})) (+) SetToBag({s}) /\ BagIn(r, table)
        /\ UNCHANGED <<file, prices, reader>>
    BY <1>3 DEF MarkConflict
  <2> HIDE DEF s
  <2>6. Table((table (-) SetToBag({r})) (+) SetToBag({s}))
    BY <2>4, <2>5, UpdatedRow
  <2> QED BY <1>a, <2>5, <2>6
<1>4. CASE BeginTx
  BY <1>4, <1>b DEF BeginTx, ReaderInv
<1>5. CASE FirstQuery
  BY <1>5, <1>b DEF FirstQuery, ReaderInv, Tables
<1>6. CASE QueryTextCostBuckets
  BY <1>6, <1>b DEF QueryTextCostBuckets, ReaderInv, Tables
<1>7. CASE QueryImageCostBuckets
  BY <1>7, <1>b DEF QueryImageCostBuckets, ReaderInv, Tables
<1>8. CASE Finish
  BY <1>8, <1>b, <1>c DEF Finish
<1>9. ASSUME NEW f \in Files, Restart(f) PROVE ReportsInv'
  BY <1>9, <1>c DEF Restart
<1>10. CASE UNCHANGED vars
  BY <1>10, <1>a DEF vars
<1> QED BY <1>1, <1>2, <1>3, <1>4, <1>5, <1>6, <1>7, <1>8, <1>9, <1>10 DEF Next

\* The invariant holds in every reachable state.
LEMMA ReportsInvariant == Spec => []ReportsInv
BY ReportsInit, ReportsStep, PTL DEF Spec

\* A valid namespace has one alias index, in whatever order it is filled.
LEMMA OneAliasIndex ==
  ASSUME NEW names, ValidNamespace(names), NEW x \in AliasIndexes(names), NEW y \in AliasIndexes(names)
  PROVE  x = y
<1> DEFINE claimed == UNION {Range(Aliases(names[n])) : n \in DOMAIN names}
<1>1. /\ x \in [claimed -> DOMAIN names] /\ y \in [claimed -> DOMAIN names]
      /\ \A a \in claimed : a \in Range(Aliases(names[x[a]])) /\ a \in Range(Aliases(names[y[a]]))
  BY DEF AliasIndexes
<1>2. \A m, n \in DOMAIN names : m # n => Range(Aliases(names[m])) \cap Range(Aliases(names[n])) = {}
  BY DEF ValidNamespace
<1> HIDE DEF claimed
<1>3. ASSUME NEW a \in claimed PROVE x[a] = y[a]
  BY <1>1, <1>2
<1> QED BY <1>1, <1>3

\* A price file is parsed into one price index.
LEMMA OnePriceIndex == ASSUME NEW f, NEW p \in Parse(f), NEW q \in Parse(f) PROVE p = q
<1>1. ValidNamespace(f.pricing) /\ ValidNamespace(f.multimodal_pricing)
  BY DEF Parse, Valid
<1>2. PICK t \in AliasIndexes(f.pricing), m \in AliasIndexes(f.multimodal_pricing) :
        p = [text |-> f.pricing, media |-> f.multimodal_pricing, textAlias |-> t, mediaAlias |-> m]
  <2>1. p \in {[text |-> f.pricing, media |-> f.multimodal_pricing, textAlias |-> i, mediaAlias |-> j] :
              i \in AliasIndexes(f.pricing), j \in AliasIndexes(f.multimodal_pricing)}
    <3>1. Valid(f)
      BY DEF Parse
    <3> QED BY <3>1 DEF Parse
  <2> QED BY <2>1
<1>3. PICK u \in AliasIndexes(f.pricing), n \in AliasIndexes(f.multimodal_pricing) :
        q = [text |-> f.pricing, media |-> f.multimodal_pricing, textAlias |-> u, mediaAlias |-> n]
  <2>1. q \in {[text |-> f.pricing, media |-> f.multimodal_pricing, textAlias |-> i, mediaAlias |-> j] :
              i \in AliasIndexes(f.pricing), j \in AliasIndexes(f.multimodal_pricing)}
    <3>1. Valid(f)
      BY DEF Parse
    <3> QED BY <3>1 DEF Parse
  <2> QED BY <2>1
<1>4. t = u /\ m = n
  BY <1>1, OneAliasIndex
<1> QED BY <1>2, <1>3, <1>4

\* A restart on the same price file prices everything as before, although Go
\* visits the entries of the file in any order.
THEOREM SameFileSamePrices == Spec => PricesSurviveRestart
<1>1. ReportsInv /\ ReportsInv' => (file' = file => prices' = prices)
  BY OnePriceIndex DEF ReportsInv
<1> QED BY <1>1, ReportsInvariant, PTL DEF PricesSurviveRestart

-----------------------------------------------------------------------------
(* Rows                                                                     *)

\* The counts of a row are natural numbers.
LEMMA RowCounts ==
  ASSUME NEW r, Row(r)
  PROVE  /\ r.at \in Int /\ r.status \in Int
         /\ r.input \in Nat /\ r.output \in Nat /\ r.reasoning \in Nat /\ r.cached \in Nat /\ r.creation \in Nat
         /\ r.image \subseteq ImageUsages
BY DEF Row, Requests

\* The cache tokens of a row, cut to its input, are a part of what it is billed,
\* and cutting them again (computeCost does) changes nothing.
LEMMA RowInput ==
  ASSUME NEW r, Row(r)
  PROVE  /\ Billable(r) \in Nat /\ Cached(r) \in Nat /\ Creation(r) \in Nat
         /\ Cached(r) + Creation(r) <= Billable(r)
         /\ InputBreakdown(r.input, r.cached, r.creation)
              = [regular |-> Billable(r) - Creation(r) - Cached(r), cached |-> Cached(r), creation |-> Creation(r)]
<1>1. PICK i \in Nat, h \in Nat, c \in Nat : i = r.input /\ h = r.cached /\ c = r.creation
  BY RowCounts
<1>2. /\ Creation(r) = IF i > 0 THEN Least(c, i) ELSE c
      /\ Cached(r) = IF i > 0 THEN Least(h, i - Creation(r)) ELSE h
      /\ Billable(r) = IF i > 0 THEN i ELSE Cached(r) + Creation(r)
  BY <1>1, Zenon DEF Creation, Cached, Billable
<1>3. Creation(r) \in Nat /\ (i > 0 => Creation(r) <= i)
  BY <1>2 DEF Least
<1>4. Cached(r) \in Nat /\ (i > 0 => Cached(r) <= i - Creation(r))
  BY <1>2, <1>3 DEF Least
<1>5. Billable(r) \in Nat /\ Cached(r) + Creation(r) <= Billable(r)
  BY <1>2, <1>3, <1>4
<1>6. InputBreakdown(i, h, c)
        = [regular |-> Billable(r) - Creation(r) - Cached(r), cached |-> Cached(r), creation |-> Creation(r)]
  <2>1. CASE i > 0
    BY <1>2, <2>1 DEF InputBreakdown
  <2>2. CASE i = 0
    <3>1. Billable(r) - Creation(r) - Cached(r) = 0 /\ Cached(r) = h /\ Creation(r) = c
      BY <1>2, <1>3, <1>4, <2>2
    <3>2. InputBreakdown(i, h, c) = [regular |-> 0, cached |-> h, creation |-> c]
      BY <2>2 DEF InputBreakdown
    <3> QED BY <3>1, <3>2
  <2> QED BY <2>1, <2>2
<1> QED BY <1>1, <1>3, <1>4, <1>5, <1>6

\* An image request has one image row.
LEMMA ImageIs ==
  ASSUME NEW r, Row(r), IsImage(r)
  PROVE  /\ ImageOf(r) \in ImageUsages /\ r.image = {ImageOf(r)}
         /\ ImageOf(r).inputs \in Nat /\ ImageOf(r).outputs \in Nat
<1>1. r.image \subseteq ImageUsages /\ \A i, j \in r.image : i = j
  BY RowCounts DEF Row
<1>2. ImageOf(r) \in r.image
  BY DEF ImageOf, IsImage
<1>3. ImageOf(r) \in ImageUsages
  BY <1>1, <1>2
<1> QED BY <1>1, <1>2, <1>3 DEF ImageUsages

\* The token dimensions of a row are natural numbers.
LEMMA TokenCounts ==
  ASSUME NEW r, Row(r), NEW c \in Channels, NEW d \in Directions
  PROVE  Tokens(r, c, d) \in Nat
<1>1. CASE ~IsImage(r)
  BY <1>1 DEF Tokens
<1>2. CASE IsImage(r)
  <2>1. ImageOf(r).tokens \in [Dimensions -> Nat]
    BY <1>2, ImageIs DEF ImageUsages
  <2>2. <<c, d>> \in Dimensions
    BY DEF Dimensions
  <2> QED BY <1>2, <2>1, <2>2 DEF Tokens
<1> QED BY <1>1, <1>2

\* They still are once the cached tokens are taken out of the input.
LEMMA DimensionCounts ==
  ASSUME NEW r, Row(r), NEW d \in Dimensions
  PROVE  Dimension(r, d) \in Nat
<1>1. PICK in \in Nat, hit \in Nat, out \in Nat :
        in = Tokens(r, d[1], "input") /\ hit = Tokens(r, d[1], "cached_input") /\ out = Tokens(r, d[1], "output")
  <2>1. d[1] \in Channels
    BY DEF Dimensions
  <2> QED BY <2>1, TokenCounts DEF Directions
<1>2. d[2] \in Directions
  BY DEF Dimensions
<1>3. Dimension(r, d) = CASE d[2] = "input"        -> in - Least(hit, in)
                          [] d[2] = "cached_input" -> IF in > 0 THEN Least(hit, in) ELSE hit
                          [] d[2] = "output"       -> out
  BY <1>1, Zenon DEF Dimension
<1>4. in - Least(hit, in) \in Nat /\ Least(hit, in) \in Nat
  BY DEF Least
<1> QED BY <1>2, <1>3, <1>4 DEF Directions

\* The same with some tokens: what has tokens has a dimension with tokens.
LEMMA DimensionsShow ==
  ASSUME NEW r, Row(r)
  PROVE  (\E d \in Dimensions : Tokens(r, d[1], d[2]) > 0) <=> (\E d \in Dimensions : Dimension(r, d) > 0)
<1>1. ASSUME NEW c \in Channels
      PROVE  (\E x \in Directions : Tokens(r, c, x) > 0) <=> (\E x \in Directions : Dimension(r, <<c, x>>) > 0)
  <2>1. PICK in \in Nat, hit \in Nat, out \in Nat :
          in = Tokens(r, c, "input") /\ hit = Tokens(r, c, "cached_input") /\ out = Tokens(r, c, "output")
    BY TokenCounts DEF Directions
  <2>2. /\ Dimension(r, <<c, "input">>) = in - Least(hit, in)
        /\ Dimension(r, <<c, "cached_input">>) = IF in > 0 THEN Least(hit, in) ELSE hit
        /\ Dimension(r, <<c, "output">>) = out
    BY <2>1 DEF Dimension
  <2>3. (in > 0 \/ hit > 0 \/ out > 0)
          <=> (in - Least(hit, in) > 0 \/ (IF in > 0 THEN Least(hit, in) ELSE hit) > 0 \/ out > 0)
    BY DEF Least
  <2>4. (\E x \in Directions : Tokens(r, c, x) > 0) <=> (in > 0 \/ hit > 0 \/ out > 0)
    BY <2>1 DEF Directions
  <2>5. (\E x \in Directions : Dimension(r, <<c, x>>) > 0)
          <=> (in - Least(hit, in) > 0 \/ (IF in > 0 THEN Least(hit, in) ELSE hit) > 0 \/ out > 0)
    BY <2>2, Zenon DEF Directions
  <2> QED BY <2>3, <2>4, <2>5
<1>2. ASSUME NEW d \in Dimensions
      PROVE  d[1] \in Channels /\ d[2] \in Directions /\ d = <<d[1], d[2]>>
  BY DEF Dimensions
<1>3. \A c \in Channels, x \in Directions : <<c, x>> \in Dimensions /\ <<c, x>>[1] = c /\ <<c, x>>[2] = x
  BY DEF Dimensions
<1>4. ASSUME NEW d \in Dimensions, Tokens(r, d[1], d[2]) > 0 PROVE \E k \in Dimensions : Dimension(r, k) > 0
  <2>1. PICK x \in Directions : Dimension(r, <<d[1], x>>) > 0
    BY <1>1, <1>2, <1>4
  <2> QED BY <1>2, <1>3, <2>1
<1>5. ASSUME NEW d \in Dimensions, Dimension(r, d) > 0 PROVE \E k \in Dimensions : Tokens(r, k[1], k[2]) > 0
  <2>1. Dimension(r, <<d[1], d[2]>>) > 0
    BY <1>2, <1>5, Zenon
  <2>2. PICK x \in Directions : Tokens(r, d[1], x) > 0
    BY <1>1, <1>2, <2>1
  <2>3. <<d[1], x>> \in Dimensions /\ Tokens(r, <<d[1], x>>[1], <<d[1], x>>[2]) > 0
    BY <1>2, <1>3, <2>2
  <2> QED BY <2>3
<1> QED BY <1>4, <1>5

-----------------------------------------------------------------------------
(* Prices                                                                   *)

\* Rates that are not negative: of a text entry whatever the tier, of a
\* multimodal entry, and of all the entries of a price index.
RatedText(e)  == \A ri \in Nat : \A f \in TextRates : Field(ResolveTextTier(e, ri), f) \in Nat
RatedMedia(e) ==
  /\ \A m \in Modalities : \A f \in MediaRates : Field(Modality(e, m), f) \in Nat
  /\ "per_image_output" \in DOMAIN Modality(e, "image") =>
       \A k \in DOMAIN Modality(e, "image").per_image_output : Modality(e, "image").per_image_output[k] \in Nat

Rated(p) ==
  /\ \A model : \A e \in Lookup(p, model) : RatedText(e)
  /\ \A model : \A e \in LookupMultimodal(p, model) : RatedMedia(e)

\* A price index holds the entries of a valid file.
LEMMA ParsedPrices ==
  ASSUME NEW f, NEW p \in Parse(f)
  PROVE  /\ Valid(f) /\ p.text = f.pricing /\ p.media = f.multimodal_pricing
         /\ p.textAlias \in AliasIndexes(f.pricing) /\ p.mediaAlias \in AliasIndexes(f.multimodal_pricing)
<1>1. Valid(f)
  BY DEF Parse
<1>2. p \in {[text |-> f.pricing, media |-> f.multimodal_pricing, textAlias |-> i, mediaAlias |-> j] :
              i \in AliasIndexes(f.pricing), j \in AliasIndexes(f.multimodal_pricing)}
  BY <1>1 DEF Parse
<1> QED BY <1>1, <1>2

\* A name is resolved to an entry of the file.
LEMMA ResolvedEntry ==
  ASSUME NEW names, NEW index \in AliasIndexes(names), NEW model, NEW n \in Resolve(names, index, model)
  PROVE  n \in DOMAIN names
<1> DEFINE claimed == UNION {Range(Aliases(names[m])) : m \in DOMAIN names}
<1>1. index \in [claimed -> DOMAIN names]
  BY DEF AliasIndexes
<1> HIDE DEF claimed
<1> QED BY <1>1 DEF Resolve

\* A price that is in the file is taken as it is.
LEMMA PresentField == ASSUME NEW e, NEW f \in DOMAIN e PROVE Field(e, f) = e[f]
BY DEF Field

\* A price that is left out is zero.
LEMMA AbsentField == ASSUME NEW e, NEW f, f \notin DOMAIN e PROVE Field(e, f) = 0
BY DEF Field

\* No rate of a text entry of a valid file is negative, in either tier.
LEMMA TextIsRated ==
  ASSUME NEW f \in Files, Valid(f), NEW n \in DOMAIN f.pricing
  PROVE  RatedText(f.pricing[n])
<1> DEFINE e == f.pricing[n]
<1>1. \A rate \in TextRates : /\ Field(e, rate) \in Int
                              /\ "long_context" \in DOMAIN e => Field(e.long_context, rate) \in Int
  BY FilesAssumption
<1>2. ValidRates(e, TextRates) /\ ("long_context" \in DOMAIN e => ValidRates(e.long_context, TextRates))
  BY DEF Valid, ValidText
<1> HIDE DEF e
<1>3. ASSUME NEW rate \in TextRates PROVE Field(e, rate) \in Nat
  <2>1. CASE rate \in DOMAIN e
    BY <1>1, <1>2, <2>1, PresentField DEF ValidRates
  <2>2. CASE rate \notin DOMAIN e
    BY <2>2, AbsentField
  <2> QED BY <2>1, <2>2
<1>4. ASSUME NEW rate \in TextRates, "long_context" \in DOMAIN e PROVE Field(e.long_context, rate) \in Nat
  <2>1. CASE rate \in DOMAIN e.long_context
    BY <1>1, <1>2, <1>4, <2>1, PresentField DEF ValidRates
  <2>2. CASE rate \notin DOMAIN e.long_context
    BY <2>2, AbsentField
  <2> QED BY <2>1, <2>2
<1>5. \A ri \in Nat : ResolveTextTier(e, ri) = e \/ ("long_context" \in DOMAIN e /\ ResolveTextTier(e, ri) = e.long_context)
  BY DEF ResolveTextTier
<1>6. RatedText(e)
  BY <1>3, <1>4, <1>5 DEF RatedText
<1> QED BY <1>6 DEF e

\* No rate of a multimodal entry of a valid file is negative.
LEMMA MediaIsRated ==
  ASSUME NEW f \in Files, Valid(f), NEW n \in DOMAIN f.multimodal_pricing
  PROVE  RatedMedia(f.multimodal_pricing[n])
<1> DEFINE e == f.multimodal_pricing[n]
           M(m) == Modality(e, m)
<1>1. \A m \in Modalities : \A rate \in MediaRates : Field(M(m), rate) \in Int
  BY FilesAssumption
<1>2. \A m \in Modalities : "per_image_output" \in DOMAIN M(m) =>
        \A k \in DOMAIN M(m).per_image_output : M(m).per_image_output[k] \in Int
  BY FilesAssumption
<1>3. \A m \in Modalities \cap DOMAIN e : ValidModality(e[m])
  BY DEF Valid
<1> HIDE DEF e
<1>4. \A m \in Modalities : m \in DOMAIN e => M(m) = e[m]
  BY DEF Modality
<1>5. \A m : m \notin DOMAIN e => M(m) = <<>>
  BY DEF Modality
<1> HIDE DEF M
<1>6. ASSUME NEW m \in Modalities, NEW rate \in MediaRates PROVE Field(M(m), rate) \in Nat
  <2>1. CASE rate \in DOMAIN M(m) /\ m \in DOMAIN e
    <3>1. ValidRates(M(m), MediaRates)
      BY <1>3, <1>4, <2>1 DEF ValidModality
    <3>2. M(m)[rate] >= 0
      BY <2>1, <3>1 DEF ValidRates
    <3> QED BY <1>1, <2>1, <3>2, PresentField
  <2>2. CASE rate \notin DOMAIN M(m)
    BY <2>2, AbsentField
  <2>3. CASE m \notin DOMAIN e
    <3>1. M(m) = <<>>
      BY <1>5, <2>3
    <3>2. \A s : s \notin DOMAIN << >>
      OBVIOUS
    <3> QED BY <3>1, <3>2, AbsentField
  <2> QED BY <2>1, <2>2, <2>3
<1>7. ASSUME "per_image_output" \in DOMAIN M("image") , NEW k \in DOMAIN M("image").per_image_output
      PROVE  M("image").per_image_output[k] \in Nat
  <2>0. "image" \in Modalities
    BY DEF Modalities
  <2>1. CASE "image" \in DOMAIN e
    <3>1. ValidModality(M("image"))
      BY <1>3, <1>4, <2>0, <2>1
    <3>2. M("image").per_image_output[k] >= 0
      BY <1>7, <3>1 DEF ValidModality, ValidRates
    <3> QED BY <1>2, <1>7, <2>0, <3>2
  <2>2. CASE "image" \notin DOMAIN e
    <3>1. M("image") = <<>>
      BY <1>5, <2>2
    <3>2. \A s : s \notin DOMAIN << >>
      OBVIOUS
    <3> QED BY <1>7, <3>1, <3>2
  <2> QED BY <2>1, <2>2
<1>8. RatedMedia(e)
  BY <1>6, <1>7, Zenon DEF RatedMedia, M
<1> QED BY <1>8 DEF e

\* No rate of a price index is negative.
LEMMA PricesAreRated == ASSUME NEW f \in Files, NEW p \in Parse(f) PROVE Rated(p)
<1>1. /\ Valid(f) /\ p.text = f.pricing /\ p.media = f.multimodal_pricing
      /\ p.textAlias \in AliasIndexes(p.text) /\ p.mediaAlias \in AliasIndexes(p.media)
  BY ParsedPrices
<1>2. ASSUME NEW model, NEW e \in Lookup(p, model) PROVE RatedText(e)
  <2>1. PICK n \in Resolve(p.text, p.textAlias, model) : e = p.text[n]
    BY DEF Lookup
  <2>2. n \in DOMAIN f.pricing
    BY <1>1, <2>1, ResolvedEntry
  <2> QED BY <1>1, <2>1, <2>2, TextIsRated
<1>3. ASSUME NEW model, NEW e \in LookupMultimodal(p, model) PROVE RatedMedia(e)
  <2>1. PICK n \in Resolve(p.media, p.mediaAlias, model) : e = p.media[n]
    BY DEF LookupMultimodal
  <2>2. n \in DOMAIN f.multimodal_pricing
    BY <1>1, <2>1, ResolvedEntry
  <2> QED BY <1>1, <2>1, <2>2, MediaIsRated
<1> QED BY <1>2, <1>3 DEF Rated

-----------------------------------------------------------------------------
(* The cost of tokens is linear in them                                     *)

\* The rates that fall back to another one when they are left out.
CreationRate(e)  == IF Field(e, "cache_creation") > 0 THEN Field(e, "cache_creation") ELSE Field(e, "input")
ReasoningRate(e) == IF Field(e, "reasoning") > 0 THEN Field(e, "reasoning") ELSE Field(e, "output")

\* What input, cached, creation, output and reasoning tokens cost, one by one:
\* each kind is a part of another and costs what its own rate is above or
\* below the rate of the whole.
TextSum(e, i, h, c, o, w) ==
  Field(e, "input") * i + (Field(e, "cached_input") - Field(e, "input")) * h
    + (CreationRate(e) - Field(e, "input")) * c
    + Field(e, "output") * o + (ReasoningRate(e) - Field(e, "output")) * w

\* A tier without a negative rate.
RatedTier(e) == \A f \in TextRates : Field(e, f) \in Nat

\* The rates of a tier are natural numbers, the ones that fall back included.
LEMMA TierRates ==
  ASSUME NEW e, RatedTier(e)
  PROVE  /\ Field(e, "input") \in Nat /\ Field(e, "cached_input") \in Nat /\ Field(e, "output") \in Nat
         /\ Field(e, "reasoning") \in Nat /\ CreationRate(e) \in Nat /\ ReasoningRate(e) \in Nat
BY DEF RatedTier, TextRates, CreationRate, ReasoningRate

\* The arithmetic of ComputeCostIs.
LEMMA Expand ==
  ASSUME NEW a \in Int, NEW b \in Int, NEW x \in Int, NEW y \in Int, NEW z \in Int,
         NEW i \in Int, NEW h \in Int, NEW c \in Int, NEW o \in Int, NEW w \in Int
  PROVE  h * b + (i - c - h) * a + c * x + (o - w) * y + w * z
           = a * i + (b - a) * h + (x - a) * c + y * o + (z - y) * w
OBVIOUS

\* computeCost is linear in the counts when they fit together: cache in input and
\* reasoning in output.
LEMMA ComputeCostIs ==
  ASSUME NEW e, RatedTier(e), NEW u, NEW i \in Nat, NEW h \in Nat, NEW c \in Nat, NEW o \in Nat, NEW w \in Nat,
         InputBreakdown(u.input, u.cached, u.creation) = [regular |-> i - c - h, cached |-> h, creation |-> c],
         u.output = o, u.reasoning = w, w <= o, h + c <= i
  PROVE  ComputeCost(e, u) = TextSum(e, i, h, c, o, w) /\ ComputeCost(e, u) \in Nat
<1>1. PICK a \in Nat, b \in Nat, x \in Nat, y \in Nat, z \in Nat, rr \in Nat :
        /\ a = Field(e, "input") /\ b = Field(e, "cached_input") /\ x = CreationRate(e)
        /\ y = Field(e, "output") /\ z = ReasoningRate(e) /\ rr = Field(e, "reasoning")
  BY TierRates
<1> DEFINE k == IF Field(e, "cache_creation") > 0 THEN e.cache_creation ELSE Field(e, "input")
           apart == w > 0 /\ rr > 0
           regular == IF apart THEN o - w ELSE o
           in == InputBreakdown(u.input, u.cached, u.creation)
<1>2. k = x
  <2>1. CASE Field(e, "cache_creation") > 0
    <3>1. "cache_creation" \in DOMAIN e
      BY <2>1 DEF Field
    <3> QED BY <1>1, <2>1, <3>1, PresentField DEF CreationRate
  <2>2. CASE ~(Field(e, "cache_creation") > 0)
    BY <1>1, <2>2 DEF CreationRate
  <2> QED BY <2>1, <2>2
<1>3. rr > 0 => e.reasoning = z /\ z = rr
  <2>1. ASSUME rr > 0 PROVE "reasoning" \in DOMAIN e
    BY <1>1, <2>1 DEF Field
  <2>2. rr > 0 => e.reasoning = rr
    BY <1>1, <2>1, PresentField
  <2> QED BY <1>1, <2>2 DEF ReasoningRate
<1>4. ~(rr > 0) => z = y
  BY <1>1 DEF ReasoningRate
<1>5. ComputeCost(e, u) = in.cached * b + in.regular * a + in.creation * k
         + (IF regular > 0 THEN regular * y ELSE 0) + (IF apart THEN w * e.reasoning ELSE 0)
  BY <1>1, Zenon DEF ComputeCost
<1>6. in.cached = h /\ in.regular = i - c - h /\ in.creation = c
  OBVIOUS
<1>7. (IF regular > 0 THEN regular * y ELSE 0) + (IF apart THEN w * e.reasoning ELSE 0) = (o - w) * y + w * z
  <2>1. CASE apart
    <3>1. regular = o - w /\ e.reasoning = z
      BY <1>3, <2>1
    <3>2. (IF o - w > 0 THEN (o - w) * y ELSE 0) = (o - w) * y
      <4>1. CASE o - w > 0
        BY <4>1
      <4>2. CASE o - w = 0
        BY <4>2
      <4> QED BY <4>1, <4>2
    <3> HIDE DEF regular, apart
    <3> QED BY <2>1, <3>1, <3>2
  <2>2. CASE ~apart
    <3>1. regular = o /\ (w = 0 \/ z = y)
      BY <1>4, <2>2
    <3>2. (IF o > 0 THEN o * y ELSE 0) = o * y
      <4>1. CASE o > 0
        BY <4>1
      <4>2. CASE o = 0
        BY <4>2
      <4> QED BY <4>1, <4>2
    <3>3. (o - w) * y + w * z = o * y
      <4>1. CASE w = 0
        BY <4>1
      <4>2. CASE z = y
        <5>1. (o - w) * y + w * y = o * y
          OBVIOUS
        <5> QED BY <4>2, <5>1
      <4> QED BY <3>1, <4>1, <4>2
    <3>4. o * y \in Int
      OBVIOUS
    <3> HIDE DEF regular, apart
    <3> QED BY <2>2, <3>1, <3>2, <3>3, <3>4
  <2> QED BY <2>1, <2>2
<1>8. ComputeCost(e, u) = h * b + (i - c - h) * a + c * x + (o - w) * y + w * z
  <2>1. PICK p \in Int, q \in Int : /\ p = (IF regular > 0 THEN regular * y ELSE 0)
                                    /\ q = (IF apart THEN w * e.reasoning ELSE 0)
    <3>1. regular \in Int
      OBVIOUS
    <3>2. (IF apart THEN w * e.reasoning ELSE 0) \in Int
      BY <1>3
    <3> HIDE DEF regular, apart
    <3> QED BY <3>1, <3>2
  <2>2. p + q = (o - w) * y + w * z
    BY <1>7, <2>1, Zenon
  <2>3. ComputeCost(e, u) = h * b + (i - c - h) * a + c * x + p + q
    BY <1>2, <1>5, <1>6, <2>1, Zenon
  <2> HIDE DEF regular, apart, in, k
  <2> QED BY ONLY <2>2, <2>3, i \in Nat, h \in Nat, c \in Nat, o \in Nat, w \in Nat, a \in Nat, b \in Nat,
                  x \in Nat, y \in Nat, z \in Nat, p \in Int, q \in Int
<1>9. TextSum(e, i, h, c, o, w) = a * i + (b - a) * h + (x - a) * c + y * o + (z - y) * w
  BY <1>1, Zenon DEF TextSum
<1>10. ComputeCost(e, u) = TextSum(e, i, h, c, o, w)
  <2> HIDE DEF regular, apart, in, k
  <2>1. h * b + (i - c - h) * a + c * x + (o - w) * y + w * z
           = a * i + (b - a) * h + (x - a) * c + y * o + (z - y) * w
    BY Expand
  <2> QED BY <1>8, <1>9, <2>1, Zenon
<1>11. h * b + (i - c - h) * a + c * x + (o - w) * y + w * z \in Nat
  <2> HIDE DEF regular, apart, in, k
  <2>1. PICK m \in Nat, n \in Nat : m = i - c - h /\ n = o - w
    BY ONLY i \in Nat, h \in Nat, c \in Nat, o \in Nat, w \in Nat, w <= o, h + c <= i
  <2>2. h * b + m * a + c * x + n * y + w * z \in Nat
    <3>1. h * b \in Nat /\ m * a \in Nat /\ c * x \in Nat /\ n * y \in Nat /\ w * z \in Nat
      BY ONLY m \in Nat, n \in Nat, h \in Nat, c \in Nat, w \in Nat, a \in Nat, b \in Nat, x \in Nat, y \in Nat, z \in Nat
    <3> QED BY ONLY <3>1
  <2> QED BY <2>1, <2>2
<1> QED BY <1>8, <1>10, <1>11, Zenon

\* What computeCost makes of a single row.
LEMMA RowTextCost ==
  ASSUME NEW e, RatedTier(e), NEW r, Row(r), r.reasoning <= r.output
  PROVE  /\ ComputeCost(e, r) = TextSum(e, Billable(r), Cached(r), Creation(r), r.output, r.reasoning)
         /\ ComputeCost(e, r) \in Nat
<1>1. PICK i \in Nat, h \in Nat, c \in Nat, o \in Nat, w \in Nat :
        i = Billable(r) /\ h = Cached(r) /\ c = Creation(r) /\ o = r.output /\ w = r.reasoning
  BY RowInput, RowCounts
<1>2. /\ InputBreakdown(r.input, r.cached, r.creation) = [regular |-> i - c - h, cached |-> h, creation |-> c]
      /\ w <= o /\ h + c <= i
  BY <1>1, RowInput
<1> QED BY <1>1, <1>2, ComputeCostIs, Zenon

\* The same for the sums of a bucket.
LEMMA BucketTextCost ==
  ASSUME NEW e, RatedTier(e), NEW u, u.input \in Nat, u.cached \in Nat, u.creation \in Nat, u.output \in Nat,
         u.reasoning \in Nat, u.cached + u.creation <= u.input, u.reasoning <= u.output
  PROVE  ComputeCost(e, u) = TextSum(e, u.input, u.cached, u.creation, u.output, u.reasoning)
<1>1. PICK i \in Nat, h \in Nat, c \in Nat, o \in Nat, w \in Nat :
        i = u.input /\ h = u.cached /\ c = u.creation /\ o = u.output /\ w = u.reasoning
  OBVIOUS
<1>2. h + c <= i /\ w <= o
  BY <1>1
<1>3. InputBreakdown(i, h, c) = [regular |-> i - c - h, cached |-> h, creation |-> c]
  <2>1. CASE i > 0
    <3>1. Least(c, i) = c /\ Least(h, i - c) = h
      BY <1>2 DEF Least
    <3> QED BY <2>1, <3>1 DEF InputBreakdown
  <2>2. CASE i = 0
    <3>1. i - c - h = 0
      BY <1>2, <2>2
    <3>2. InputBreakdown(i, h, c) = [regular |-> 0, cached |-> h, creation |-> c]
      BY <2>2 DEF InputBreakdown
    <3> QED BY <3>1, <3>2
  <2> QED BY <2>1, <2>2
<1>4. InputBreakdown(u.input, u.cached, u.creation) = [regular |-> i - c - h, cached |-> h, creation |-> c]
  BY <1>1, <1>3, Zenon
<1>5. u.output = o /\ u.reasoning = w
  BY <1>1
<1>6. ComputeCost(e, u) = TextSum(e, i, h, c, o, w)
  BY <1>2, <1>4, <1>5, ComputeCostIs
<1> QED BY <1>1, <1>6, Zenon

\* The entries a model is priced by.
MediaEntry(p, model) == CHOOSE x \in LookupMultimodal(p, model) : TRUE
TextEntry(p, model)  == CHOOSE x \in Lookup(p, model) : TRUE
ImageModality(p, model) == Modality(MediaEntry(p, model), "image")

\* The rates of the token dimensions and of the images.
DimensionRate(p, model, d) ==
  IF HasMultimodal(p, model)
  THEN Field(Modality(MediaEntry(p, model), IF d[1] \in {"text", "image", "audio"} THEN d[1] ELSE "image"), d[2])
  ELSE 0
InRates(p, model) ==
  LET m == ImageModality(p, model) IN IF "per_image_input" \in DOMAIN m THEN {m.per_image_input} ELSE {}
OutRates(p, model, size) ==
  LET m == ImageModality(p, model) IN
  IF "per_image_output" \notin DOMAIN m THEN {}
  ELSE {m.per_image_output[k] : k \in {NormalizeImageSize(size).key} \cap DOMAIN m.per_image_output}
RateOf(rates) == IF rates = {} THEN 0 ELSE CHOOSE x \in rates : TRUE

\* The multimodal entry of a model has rates that are not negative.
LEMMA MediaEntryIs ==
  ASSUME NEW p, Rated(p), NEW model, HasMultimodal(p, model)
  PROVE  RatedMedia(MediaEntry(p, model))
<1>1. MediaEntry(p, model) \in LookupMultimodal(p, model)
  BY DEF HasMultimodal, MediaEntry
<1> QED BY <1>1 DEF Rated

\* The text entry of a model has rates that are not negative.
LEMMA TextEntryIs ==
  ASSUME NEW p, Rated(p), NEW model, HasTextPricing(p, model)
  PROVE  RatedText(TextEntry(p, model))
<1>1. TextEntry(p, model) \in Lookup(p, model)
  BY DEF HasTextPricing, TextEntry
<1> QED BY <1>1 DEF Rated

\* The rate of a token dimension is a natural number.
LEMMA DimensionRateIs ==
  ASSUME NEW p, Rated(p), NEW model, NEW d \in Dimensions
  PROVE  DimensionRate(p, model, d) \in Nat
<1>1. CASE ~HasMultimodal(p, model)
  BY <1>1 DEF DimensionRate
<1>2. CASE HasMultimodal(p, model)
  <2>1. RatedMedia(MediaEntry(p, model))
    BY <1>2, MediaEntryIs
  <2>2. d[1] \in Channels /\ d[2] \in MediaRates
    BY DEF Dimensions, Channels, Directions, MediaRates
  <2>3. (IF d[1] \in {"text", "image", "audio"} THEN d[1] ELSE "image") \in Modalities
    BY <2>2 DEF Channels, Modalities
  <2> QED BY <1>2, <2>1, <2>2, <2>3 DEF DimensionRate, RatedMedia
<1> QED BY <1>1, <1>2

\* A token dimension costs its rate per token, and is unknown when there are
\* tokens and no rate.
LEMMA CostDimensionIs ==
  ASSUME NEW p, Rated(p), NEW model, NEW d \in Dimensions, NEW n \in Nat
  PROVE  /\ CostDimension(p, model, "image", d[1], d[2], n).amount = DimensionRate(p, model, d) * n
         /\ CostDimension(p, model, "image", d[1], d[2], n).known <=> (n = 0 \/ DimensionRate(p, model, d) > 0)
<1> DEFINE rate == Field(Modality(MediaEntry(p, model), IF d[1] \in {"text", "image", "audio"} THEN d[1] ELSE "image"), d[2])
           C == CostDimension(p, model, "image", d[1], d[2], n)
<1>1. C = IF n <= 0 THEN Known(0) ELSE IF ~HasMultimodal(p, model) THEN Unknown
          ELSE IF rate <= 0 THEN Unknown ELSE Known(n * rate)
  BY Zenon DEF CostDimension, MediaEntry
<1>2. DimensionRate(p, model, d) = (IF HasMultimodal(p, model) THEN rate ELSE 0) /\ DimensionRate(p, model, d) \in Nat
  BY DimensionRateIs, Zenon DEF DimensionRate
<1> HIDE DEF C, rate
<1>3. PICK q \in Nat : q = DimensionRate(p, model, d)
  BY <1>2
<1>4. CASE n = 0
  <2>1. C = Known(0)
    BY <1>1, <1>4
  <2>2. q * n = 0
    BY <1>4
  <2> QED BY <1>3, <1>4, <2>1, <2>2 DEF Known, C
<1>5. CASE n > 0 /\ q = 0
  <2>1. C = Unknown
    BY <1>1, <1>2, <1>3, <1>5
  <2>2. q * n = 0
    BY <1>5
  <2> QED BY <1>3, <1>5, <2>1, <2>2 DEF Unknown, C
<1>6. CASE n > 0 /\ q > 0
  <2>1. HasMultimodal(p, model) /\ rate = q
    BY <1>2, <1>3, <1>6
  <2>2. C = Known(n * q)
    BY <1>1, <1>6, <2>1
  <2>3. q * n = n * q
    OBVIOUS
  <2> QED BY <1>3, <1>6, <2>2, <2>3 DEF Known, C
<1> QED BY <1>4, <1>5, <1>6

\* The rates per image are natural numbers.
LEMMA ImageRates ==
  ASSUME NEW p, Rated(p), NEW model, HasMultimodal(p, model), NEW size
  PROVE  RateOf(InRates(p, model)) \in Nat /\ RateOf(OutRates(p, model, size)) \in Nat
<1> DEFINE m == ImageModality(p, model)
<1>1. /\ Field(m, "per_image_input") \in Nat
      /\ "per_image_output" \in DOMAIN m => \A k \in DOMAIN m.per_image_output : m.per_image_output[k] \in Nat
  BY MediaEntryIs DEF RatedMedia, ImageModality, Modalities, MediaRates
<1>2. InRates(p, model) = (IF "per_image_input" \in DOMAIN m THEN {m.per_image_input} ELSE {})
  BY DEF InRates
<1>3. OutRates(p, model, size) = IF "per_image_output" \notin DOMAIN m THEN {}
        ELSE {m.per_image_output[k] : k \in {NormalizeImageSize(size).key} \cap DOMAIN m.per_image_output}
  BY Zenon DEF OutRates
<1> HIDE DEF m
<1>4. \A x \in InRates(p, model) : x \in Nat
  <2>1. "per_image_input" \in DOMAIN m => m.per_image_input \in Nat
    BY <1>1, PresentField
  <2> QED BY <1>2, <2>1
<1>5. \A x \in OutRates(p, model, size) : x \in Nat
  BY <1>1, <1>3
<1> QED BY <1>4, <1>5 DEF RateOf

\* Images cost their rates, and are unknown when there are images and no rate.
LEMMA CostImagesIs ==
  ASSUME NEW p, Rated(p), NEW model, HasMultimodal(p, model), NEW size, NEW i \in Nat, NEW o \in Nat
  PROVE  /\ CostImages(p, model, i, o, size).amount
              = RateOf(InRates(p, model)) * i + RateOf(OutRates(p, model, size)) * o
         /\ CostImages(p, model, i, o, size).known
              <=> /\ i = 0 \/ InRates(p, model) # {}
                  /\ o = 0 \/ OutRates(p, model, size) # {}
<1> DEFINE Side(n, rate) == IF n <= 0 THEN Known(0)
                            ELSE IF rate = {} THEN Unknown
                            ELSE Known(n * (CHOOSE x \in rate : TRUE))
           a == Side(i, InRates(p, model))
           b == Side(o, OutRates(p, model, size))
           C == CostImages(p, model, i, o, size)
<1>1. C = IF i <= 0 /\ o <= 0 THEN Known(0)
          ELSE IF ~HasMultimodal(p, model) THEN Unknown
          ELSE [amount |-> a.amount + b.amount, known |-> a.known /\ b.known]
  BY Zenon DEF CostImages, InRates, OutRates, ImageModality, MediaEntry
<1>2. ASSUME NEW n \in Nat, NEW rate, RateOf(rate) \in Nat
      PROVE  /\ Side(n, rate).amount = RateOf(rate) * n /\ Side(n, rate).amount \in Nat
             /\ Side(n, rate).known <=> (n = 0 \/ rate # {})
             /\ Side(n, rate).known \in BOOLEAN
  <2>1. CASE n = 0
    <3>1. Side(n, rate) = Known(0) /\ RateOf(rate) * n = 0
      BY <1>2, <2>1
    <3> QED BY <2>1, <3>1 DEF Known
  <2>2. CASE n > 0 /\ rate = {}
    <3>1. Side(n, rate) = Unknown /\ RateOf(rate) = 0
      BY <2>2 DEF RateOf
    <3>2. RateOf(rate) * n = 0
      BY <3>1
    <3>3. Side(n, rate).amount = 0 /\ Side(n, rate).known = FALSE
      <4> HIDE DEF Side
      <4> QED BY <3>1 DEF Unknown
    <3>4. Side(n, rate).amount = RateOf(rate) * n /\ Side(n, rate).amount \in Nat
      <4> HIDE DEF Side
      <4> QED BY <3>2, <3>3
    <3>5. (Side(n, rate).known <=> (n = 0 \/ rate # {})) /\ Side(n, rate).known \in BOOLEAN
      <4> HIDE DEF Side
      <4>1. n # 0
        BY <2>2
      <4> QED BY <2>2, <3>3, <4>1, Zenon
    <3> QED BY <3>4, <3>5, Zenon
  <2>3. CASE n > 0 /\ rate # {}
    <3>1. Side(n, rate) = Known(n * RateOf(rate))
      BY <2>3 DEF RateOf
    <3>2. RateOf(rate) * n = n * RateOf(rate) /\ n * RateOf(rate) \in Nat
      BY <1>2
    <3> QED BY <2>3, <3>1, <3>2 DEF Known
  <2> QED BY <2>1, <2>2, <2>3
<1>3. PICK x \in Nat, y \in Nat : x = RateOf(InRates(p, model)) /\ y = RateOf(OutRates(p, model, size))
  BY ImageRates
<1>4. /\ a.amount = x * i /\ a.amount \in Nat /\ (a.known <=> (i = 0 \/ InRates(p, model) # {}))
      /\ b.amount = y * o /\ b.amount \in Nat /\ (b.known <=> (o = 0 \/ OutRates(p, model, size) # {}))
  <2>1. /\ a.amount = RateOf(InRates(p, model)) * i /\ a.amount \in Nat
        /\ a.known <=> (i = 0 \/ InRates(p, model) # {})
    <3> HIDE DEF Side
    <3> QED BY <1>2, <1>3
  <2>2. /\ b.amount = RateOf(OutRates(p, model, size)) * o /\ b.amount \in Nat
        /\ b.known <=> (o = 0 \/ OutRates(p, model, size) # {})
    <3> HIDE DEF Side
    <3> QED BY <1>2, <1>3
  <2> HIDE DEF a, b
  <2> QED BY <1>3, <2>1, <2>2
<1> HIDE DEF Side, a, b, C
<1>5. CASE i = 0 /\ o = 0
  <2>1. C = Known(0) /\ x * i + y * o = 0
    BY <1>1, <1>5
  <2> QED BY <1>3, <1>5, <2>1 DEF Known, C
<1>6. CASE ~(i = 0 /\ o = 0)
  <2>1. C = [amount |-> a.amount + b.amount, known |-> a.known /\ b.known]
    BY <1>1, <1>6
  <2>2. C.amount = x * i + y * o
    BY <1>4, <2>1
  <2>3. C.known <=> a.known /\ b.known
    BY <2>1
  <2> QED BY <1>3, <1>4, <2>2, <2>3 DEF C
<1> QED BY <1>5, <1>6

-----------------------------------------------------------------------------
(* Totals: sums over the rows of a table, each taken as often as it is there *)

\* The sum of a linear combination over a part of the set.
LEMMA SumLinear ==
  ASSUME NEW S, IsFiniteSet(S), NEW f \in [S -> Int], NEW g \in [S -> Int], NEW h \in [S -> Int],
         NEW c \in Int, NEW B \in SUBSET S, \A x \in B : h[x] = f[x] + c * g[x]
  PROVE  SumOn(h, B) = SumOn(f, B) + c * SumOn(g, B)
<1> DEFINE e == [x \in B |-> h[x]]
           F == [T \in SUBSET B |-> SumOn(f, T) + c * SumOn(g, T)]
<1>1. F[{}] = 0
  BY SumOfNone
<1>2. \A T \in SUBSET B : \A x \in T : F[T] = e[x] + F[T \ {x}]
  <2> SUFFICES ASSUME NEW T \in SUBSET B, NEW x \in T PROVE F[T] = e[x] + F[T \ {x}]
    OBVIOUS
  <2>1. /\ SumOn(f, T) = f[x] + SumOn(f, T \ {x}) /\ SumOn(g, T) = g[x] + SumOn(g, T \ {x})
        /\ T \ {x} \in SUBSET S
    BY SumOneMore
  <2>2. PICK a \in Int, b \in Int, u \in Int, v \in Int :
          a = SumOn(f, T \ {x}) /\ b = SumOn(g, T \ {x}) /\ u = f[x] /\ v = g[x]
    BY <2>1, SumSome
  <2>3. /\ e[x] = u + c * v /\ F[T] = (u + a) + c * (v + b) /\ F[T \ {x}] = a + c * b
    BY <2>1, <2>2
  <2>4. (u + a) + c * (v + b) = (u + c * v) + (a + c * b)
    OBVIOUS
  <2> HIDE DEF F, e
  <2> QED BY <2>3, <2>4, Zenon
<1>3. IsFiniteSet(B) /\ e \in [B -> Int]
  BY FS_Subset
<1>4. \A x \in B : h[x] = e[x]
  OBVIOUS
<1>5. F[B] = SumOn(f, B) + c * SumOn(g, B)
  OBVIOUS
<1>6. F[B] = SumOn(e, B)
  <2> HIDE DEF F, e
  <2>1. Adds(F, e, B)
    BY <1>1, <1>2 DEF Adds
  <2> QED BY <1>3, <2>1, SumIs
<1>7. SumOn(h, B) = SumOn(e, B)
  <2> HIDE DEF F, e
  <2>1. SumOn(h, B) = Add(e)
    BY <1>3, <1>4, SumSame
  <2> QED BY <1>3, <2>1, AddIs
<1> QED BY <1>5, <1>6, <1>7, Zenon

\* A function of the rows, taken as often as the row is in the table.
Weigh(t, e) == [r \in DOMAIN t |-> t[r] * e[r]]
Column(t)   == [DOMAIN t -> Int]
Total(t, e, B) == SumOn(Weigh(t, e), B)

\* The types of a weighed column.
LEMMA WeighIs ==
  ASSUME NEW t, Table(t), NEW e \in Column(t)
  PROVE  /\ IsFiniteSet(DOMAIN t) /\ Weigh(t, e) \in [DOMAIN t -> Int] /\ e \in [DOMAIN t -> Int]
         /\ \A r \in DOMAIN t : Weigh(t, e)[r] = t[r] * e[r] /\ t[r] \in Nat /\ t[r] > 0 /\ e[r] \in Int
BY DEF Table, Weigh, Column

\* A total is a number.
LEMMA TotalType ==
  ASSUME NEW t, Table(t), NEW e \in Column(t), NEW B \in SUBSET DOMAIN t
  PROVE  Total(t, e, B) \in Int
BY WeighIs, SumSome DEF Total

\* The SUM of a query is a total over the rows it ranges over.
LEMMA SumIsTotal ==
  ASSUME NEW t, Table(t), NEW e \in Column(t), NEW B \in SUBSET DOMAIN t, NEW f, DOMAIN f = B,
         \A r \in B : f[r] = e[r]
  PROVE  Sum(t, f) = Total(t, e, B)
<1> DEFINE w == Weigh(t, e)
           v == [r \in DOMAIN f |-> t[r] * f[r]]
<1>1. \A r \in B : w[r] = v[r]
  BY WeighIs
<1>2. w \in [DOMAIN t -> Int] /\ IsFiniteSet(DOMAIN t)
  BY WeighIs
<1>3. v \in [B -> Int]
  BY WeighIs
<1>4. Sum(t, f) = Add(v)
  BY DEF Sum
<1> HIDE DEF w, v
<1>5. SumOn(w, B) = Add(v)
  BY <1>1, <1>2, <1>3, SumSame
<1> QED BY <1>4, <1>5 DEF Total, w

\* Totals are linear in the column.
LEMMA TotalLinear ==
  ASSUME NEW t, Table(t), NEW f \in Column(t), NEW g \in Column(t), NEW h \in Column(t), NEW c \in Int,
         NEW B \in SUBSET DOMAIN t, \A r \in B : h[r] = f[r] + c * g[r]
  PROVE  Total(t, h, B) = Total(t, f, B) + c * Total(t, g, B)
<1> DEFINE u == Weigh(t, f)
           v == Weigh(t, g)
           w == Weigh(t, h)
<1>1. /\ IsFiniteSet(DOMAIN t) /\ u \in [DOMAIN t -> Int] /\ v \in [DOMAIN t -> Int] /\ w \in [DOMAIN t -> Int]
  BY WeighIs
<1>2. \A r \in B : w[r] = u[r] + c * v[r]
  <2> SUFFICES ASSUME NEW r \in B PROVE w[r] = u[r] + c * v[r]
    OBVIOUS
  <2>1. PICK n \in Nat, a \in Int, b \in Int : n = t[r] /\ a = f[r] /\ b = g[r]
    BY WeighIs
  <2>2. w[r] = n * (a + c * b) /\ u[r] = n * a /\ v[r] = n * b
    BY <2>1, WeighIs
  <2>3. n * (a + c * b) = n * a + c * (n * b)
    OBVIOUS
  <2> HIDE DEF u, v, w
  <2> QED BY <2>2, <2>3, Zenon
<1> HIDE DEF u, v, w
<1>3. SumOn(w, B) = SumOn(u, B) + c * SumOn(v, B)
  BY <1>1, <1>2, SumLinear
<1> QED BY <1>3 DEF Total, u, v, w

\* Columns that agree on the rows have the same total.
LEMMA TotalSame ==
  ASSUME NEW t, Table(t), NEW f \in Column(t), NEW g \in Column(t), NEW B \in SUBSET DOMAIN t,
         \A r \in B : f[r] = g[r]
  PROVE  Total(t, f, B) = Total(t, g, B)
<1>1. \A r \in B : f[r] = g[r] + 0 * g[r]
  BY WeighIs
<1>2. Total(t, f, B) = Total(t, g, B) + 0 * Total(t, g, B)
  BY <1>1, TotalLinear
<1>3. Total(t, g, B) \in Int
  BY TotalType
<1> QED BY <1>2, <1>3

\* A column of zeros has the total zero.
LEMMA TotalZero ==
  ASSUME NEW t, Table(t), NEW e \in Column(t), NEW B \in SUBSET DOMAIN t, \A r \in B : e[r] = 0
  PROVE  Total(t, e, B) = 0
<1>1. \A r \in B : e[r] = e[r] + (-1) * e[r]
  OBVIOUS
<1>2. Total(t, e, B) = Total(t, e, B) + (-1) * Total(t, e, B)
  BY <1>1, TotalLinear
<1>3. Total(t, e, B) \in Int
  BY TotalType
<1> QED BY <1>2, <1>3

\* The total over two disjoint sets of rows is the sum of the two totals.
LEMMA TotalSplit ==
  ASSUME NEW t, Table(t), NEW e \in Column(t), NEW A \in SUBSET DOMAIN t, NEW B \in SUBSET DOMAIN t, Apart(A, B)
  PROVE  Total(t, e, A \cup B) = Total(t, e, A) + Total(t, e, B)
BY WeighIs, SumSplit DEF Total

\* A total of counts is above zero when the count of one of the rows is.
LEMMA TotalSign ==
  ASSUME NEW t, Table(t), NEW e \in Column(t), NEW B \in SUBSET DOMAIN t, \A r \in B : e[r] >= 0
  PROVE  Total(t, e, B) \in Nat /\ (Total(t, e, B) > 0 <=> \E r \in B : e[r] > 0)
<1> DEFINE w == [r \in B |-> t[r] * e[r]]
<1>1. /\ IsFiniteSet(B) /\ w \in [B -> Int] /\ IsFiniteSet(DOMAIN t) /\ Weigh(t, e) \in [DOMAIN t -> Int]
      /\ \A r \in B : Weigh(t, e)[r] = w[r]
  BY WeighIs, FS_Subset
<1>2. \A r \in B : w[r] >= 0 /\ (w[r] > 0 <=> e[r] > 0)
  <2> SUFFICES ASSUME NEW r \in B PROVE w[r] >= 0 /\ (w[r] > 0 <=> e[r] > 0)
    OBVIOUS
  <2>1. PICK n \in Nat, x \in Nat : n = t[r] /\ x = e[r] /\ n > 0
    BY WeighIs
  <2>2. n * x >= 0 /\ (n * x > 0 <=> x > 0)
    BY <2>1
  <2> QED BY <2>1, <2>2
<1> HIDE DEF w
<1>3. SumOn(Weigh(t, e), B) = Add(w) /\ Add(w) = SumOn(w, B)
  BY <1>1, SumSame, AddIs
<1>4. SumOn(w, B) >= 0 /\ (SumOn(w, B) > 0 <=> \E r \in B : w[r] > 0)
  BY <1>1, <1>2, SumSign
<1>5. (\E r \in B : w[r] > 0) <=> (\E r \in B : e[r] > 0)
  BY <1>2
<1>6. Total(t, e, B) = SumOn(w, B) /\ Total(t, e, B) \in Int
  BY <1>3, TotalType DEF Total
<1> QED BY <1>4, <1>5, <1>6

\* What is at most something else row by row is so in total, and equal in total
\* only when it is equal row by row.
LEMMA TotalAtMost ==
  ASSUME NEW t, Table(t), NEW f \in Column(t), NEW g \in Column(t), NEW B \in SUBSET DOMAIN t,
         \A r \in B : f[r] <= g[r]
  PROVE  Total(t, f, B) <= Total(t, g, B) /\ (Total(t, f, B) = Total(t, g, B) => \A r \in B : f[r] = g[r])
<1> DEFINE d == [r \in DOMAIN t |-> g[r] - f[r]]
<1>1. d \in Column(t) /\ \A r \in DOMAIN t : d[r] = g[r] + (-1) * f[r] /\ f[r] \in Int /\ g[r] \in Int
  BY WeighIs DEF Column
<1> HIDE DEF d
<1>2. Total(t, d, B) = Total(t, g, B) + (-1) * Total(t, f, B)
  BY <1>1, TotalLinear
<1>3. Total(t, d, B) \in Nat /\ (Total(t, d, B) > 0 <=> \E r \in B : d[r] > 0)
  <2>1. \A r \in B : d[r] >= 0
    BY <1>1
  <2> QED BY <1>1, <2>1, TotalSign
<1>4. Total(t, f, B) \in Int /\ Total(t, g, B) \in Int
  BY TotalType
<1>5. Total(t, f, B) <= Total(t, g, B) /\ (Total(t, f, B) = Total(t, g, B) => Total(t, d, B) = 0)
  BY <1>2, <1>3, <1>4
<1>6. Total(t, d, B) = 0 => \A r \in B : f[r] = g[r]
  BY <1>1, <1>3
<1> QED BY <1>5, <1>6

\* g is, for every label of L, the total over the rows of R that have it.
IsTotals(g, t, e, R, h, L) ==
  g = [k \in L |-> g[k]] /\ \A k \in L : g[k] = Total(t, e, {r \in R : h[r] = k})

\* The totals of the rows with one label each add up to the total of all of them.
LEMMA TotalFibers ==
  ASSUME NEW t, Table(t), NEW e \in Column(t), NEW R \in SUBSET DOMAIN t, NEW h, NEW L, IsFiniteSet(L),
         NEW g, IsTotals(g, t, e, R, h, L)
  PROVE  Add(g) = Total(t, e, {r \in R : h[r] \in L})
<1>1. ASSUME NEW k \in L PROVE g[k] \in Int
  <2>1. {r \in R : h[r] = k} \in SUBSET DOMAIN t
    OBVIOUS
  <2>2. Total(t, e, {r \in R : h[r] = k}) \in Int
    BY <2>1, TotalType
  <2> QED BY <2>2 DEF IsTotals
<1>2. g \in [L -> Int]
  BY <1>1 DEF IsTotals
<1>3. \A k \in L : g[k] = SumOn(Weigh(t, e), {r \in R : h[r] = k})
  BY DEF Total, IsTotals
<1>4. IsFiniteSet(DOMAIN t) /\ Weigh(t, e) \in [DOMAIN t -> Int]
  BY WeighIs
<1>5. PICK w \in [DOMAIN t -> Int] : w = Weigh(t, e)
  BY <1>4
<1>6. IsFiberSum(g, w, R, h, L)
  BY <1>3, <1>5 DEF IsFiberSum
<1>7. Add(g) = SumOn(w, {r \in R : h[r] \in L})
  BY <1>2, <1>4, <1>6, SumFibers
<1> QED BY <1>5, <1>7 DEF Total

-----------------------------------------------------------------------------
(* The cost of a bucket is the total of the costs of its rows               *)

\* The columns of the text buckets and the cost of a row.
ColInput(t)     == [r \in DOMAIN t |-> Billable(r)]
ColCached(t)    == [r \in DOMAIN t |-> Cached(r)]
ColCreation(t)  == [r \in DOMAIN t |-> Creation(r)]
ColOutput(t)    == [r \in DOMAIN t |-> r.output]
ColReasoning(t) == [r \in DOMAIN t |-> r.reasoning]
ColCost(p, t)   == [r \in DOMAIN t |-> RequestCost(p, r)]
Inside(t)       == \A r \in DOMAIN t : r.reasoning <= r.output

BilledText(p, r) == ~IsImage(r) \/ ~HasMultimodal(p, EffectiveModel(r))
Tier(p, model, ri) == ResolveTextTier(TextEntry(p, model), ri)

\* The text counts of the rows are columns.
LEMMA TextColumns ==
  ASSUME NEW t, Table(t)
  PROVE  /\ ColInput(t) \in Column(t) /\ ColCached(t) \in Column(t) /\ ColCreation(t) \in Column(t)
         /\ ColOutput(t) \in Column(t) /\ ColReasoning(t) \in Column(t)
<1>1. \A r \in DOMAIN t : Row(r)
  BY DEF Table
<1>2. ASSUME NEW r \in DOMAIN t PROVE Billable(r) \in Int /\ Cached(r) \in Int /\ Creation(r) \in Int
  <2>1. Billable(r) \in Nat /\ Cached(r) \in Nat /\ Creation(r) \in Nat
    BY <1>1, RowInput
  <2> QED BY <2>1
<1>3. \A r \in DOMAIN t : r.output \in Int /\ r.reasoning \in Int
  BY <1>1, RowCounts
<1> QED BY <1>2, <1>3 DEF Column, ColInput, ColCached, ColCreation, ColOutput, ColReasoning

\* The tier a request falls into has rates that are not negative.
LEMMA TierIsRated ==
  ASSUME NEW p, Rated(p), NEW model, HasTextPricing(p, model), NEW ri \in Nat
  PROVE  RatedTier(Tier(p, model, ri))
BY TextEntryIs DEF Tier, RatedTier, RatedText

\* A model without a text price costs nothing, one with a price what computeCost
\* says of its tier.
LEMMA CostTextIs ==
  ASSUME NEW p, NEW model, NEW u, NEW ri
  PROVE  CostText(p, model, u, ri).amount
           = IF HasTextPricing(p, model) THEN ComputeCost(Tier(p, model, ri), u) ELSE 0
<1>1. CASE HasTextPricing(p, model)
  <2>1. CostText(p, model, u, ri) = Known(ComputeCost(Tier(p, model, ri), u))
    BY <1>1, Zenon DEF CostText, Tier, TextEntry
  <2> QED BY <1>1, <2>1 DEF Known
<1>2. CASE ~HasTextPricing(p, model)
  BY <1>2 DEF CostText, Unknown
<1> QED BY <1>1, <1>2

\* What a request that is billed as text costs.
LEMMA TextRequestCost ==
  ASSUME NEW p, Rated(p), NEW r, Row(r), r.reasoning <= r.output, BilledText(p, r)
  PROVE  /\ RequestCost(p, r)
              = IF HasTextPricing(p, EffectiveModel(r))
                THEN TextSum(Tier(p, EffectiveModel(r), r.input),
                             Billable(r), Cached(r), Creation(r), r.output, r.reasoning) ELSE 0
         /\ RequestCost(p, r) \in Nat
<1> DEFINE m == EffectiveModel(r)
<1>1. RequestCost(p, r) = CostText(p, m, r, r.input).amount
  BY Zenon DEF RequestCost, BilledText
<1>2. r.input \in Nat
  BY RowCounts
<1> HIDE DEF m
<1>3. CASE HasTextPricing(p, m)
  <2>1. RatedTier(Tier(p, m, r.input))
    BY <1>2, <1>3, TierIsRated
  <2>2. RequestCost(p, r) = ComputeCost(Tier(p, m, r.input), r)
    BY <1>1, <1>3, CostTextIs
  <2>3. /\ ComputeCost(Tier(p, m, r.input), r)
             = TextSum(Tier(p, m, r.input), Billable(r), Cached(r), Creation(r), r.output, r.reasoning)
        /\ ComputeCost(Tier(p, m, r.input), r) \in Nat
    BY <2>1, RowTextCost
  <2> QED BY <1>3, <2>2, <2>3, Zenon DEF m
<1>4. CASE ~HasTextPricing(p, m)
  <2>1. RequestCost(p, r) = 0
    BY <1>1, <1>4, CostTextIs
  <2> QED BY <1>4, <2>1 DEF m
<1> QED BY <1>3, <1>4

\* h is a linear combination of five columns.
IsFive(h, f1, f2, f3, f4, f5, c1, c2, c3, c4, c5, B) ==
  \A r \in B : h[r] = c1 * f1[r] + c2 * f2[r] + c3 * f3[r] + c4 * f4[r] + c5 * f5[r]

\* The total of a linear combination of five columns.
LEMMA TotalOfFive ==
  ASSUME NEW t, Table(t), NEW B \in SUBSET DOMAIN t, NEW h \in Column(t),
         NEW f1 \in Column(t), NEW f2 \in Column(t), NEW f3 \in Column(t), NEW f4 \in Column(t), NEW f5 \in Column(t),
         NEW c1 \in Int, NEW c2 \in Int, NEW c3 \in Int, NEW c4 \in Int, NEW c5 \in Int,
         IsFive(h, f1, f2, f3, f4, f5, c1, c2, c3, c4, c5, B)
  PROVE  Total(t, h, B) = c1 * Total(t, f1, B) + c2 * Total(t, f2, B) + c3 * Total(t, f3, B)
                            + c4 * Total(t, f4, B) + c5 * Total(t, f5, B)
<1> DEFINE e0 == [r \in DOMAIN t |-> 0]
           e1 == [r \in DOMAIN t |-> c1 * f1[r]]
           e2 == [r \in DOMAIN t |-> c1 * f1[r] + c2 * f2[r]]
           e3 == [r \in DOMAIN t |-> c1 * f1[r] + c2 * f2[r] + c3 * f3[r]]
           e4 == [r \in DOMAIN t |-> c1 * f1[r] + c2 * f2[r] + c3 * f3[r] + c4 * f4[r]]
<1>1. \A r \in DOMAIN t : f1[r] \in Int /\ f2[r] \in Int /\ f3[r] \in Int /\ f4[r] \in Int /\ f5[r] \in Int
  BY DEF Column
<1>2. e0 \in Column(t) /\ \A r \in B : e0[r] = 0
  BY DEF Column
<1>3. e1 \in Column(t) /\ \A r \in B : e1[r] = e0[r] + c1 * f1[r]
  BY <1>1 DEF Column
<1>4. e2 \in Column(t) /\ \A r \in B : e2[r] = e1[r] + c2 * f2[r]
  BY <1>1 DEF Column
<1>5. e3 \in Column(t) /\ \A r \in B : e3[r] = e2[r] + c3 * f3[r]
  BY <1>1 DEF Column
<1>6. e4 \in Column(t) /\ \A r \in B : e4[r] = e3[r] + c4 * f4[r]
  BY <1>1 DEF Column
<1>7. \A r \in B : h[r] = e4[r] + c5 * f5[r]
  BY <1>1 DEF Column, IsFive
<1> HIDE DEF e0, e1, e2, e3, e4
<1>8. Total(t, e0, B) = 0
  BY <1>2, TotalZero
<1>9. Total(t, e1, B) = Total(t, e0, B) + c1 * Total(t, f1, B)
  BY <1>2, <1>3, TotalLinear
<1>10. Total(t, e2, B) = Total(t, e1, B) + c2 * Total(t, f2, B)
  BY <1>3, <1>4, TotalLinear
<1>11. Total(t, e3, B) = Total(t, e2, B) + c3 * Total(t, f3, B)
  BY <1>4, <1>5, TotalLinear
<1>12. Total(t, e4, B) = Total(t, e3, B) + c4 * Total(t, f4, B)
  BY <1>5, <1>6, TotalLinear
<1>13. Total(t, h, B) = Total(t, e4, B) + c5 * Total(t, f5, B)
  BY <1>6, <1>7, TotalLinear
<1>14. c1 * Total(t, f1, B) \in Int
  BY TotalType
<1>15. 0 + c1 * Total(t, f1, B) = c1 * Total(t, f1, B)
  BY <1>14
<1> QED BY <1>8, <1>9, <1>10, <1>11, <1>12, <1>13, <1>15, Zenon

\* The total of a sum of two columns.
LEMMA TotalOfTwo ==
  ASSUME NEW t, Table(t), NEW B \in SUBSET DOMAIN t, NEW h \in Column(t), NEW f \in Column(t), NEW g \in Column(t),
         \A r \in B : h[r] = f[r] + g[r]
  PROVE  Total(t, h, B) = Total(t, f, B) + Total(t, g, B)
<1>1. PICK c \in Int : c = 1
  OBVIOUS
<1>2. \A r \in B : h[r] = f[r] + c * g[r]
  <2> SUFFICES ASSUME NEW r \in B PROVE h[r] = f[r] + c * g[r]
    OBVIOUS
  <2>1. PICK y \in Int : y = g[r]
    BY DEF Column
  <2>2. c * y = y
    BY <1>1
  <2> QED BY <2>1, <2>2
<1>3. Total(t, h, B) = Total(t, f, B) + c * Total(t, g, B)
  BY <1>2, TotalLinear
<1>4. PICK y \in Int : y = Total(t, g, B)
  BY TotalType
<1>5. c * y = y
  BY <1>1
<1> QED BY <1>3, <1>4, <1>5

\* The totals of a bucket fit together as the counts of a row do.
LEMMA BucketCounts ==
  ASSUME NEW t, Table(t), Inside(t), NEW B \in SUBSET DOMAIN t
  PROVE  /\ Total(t, ColInput(t), B) \in Nat /\ Total(t, ColCached(t), B) \in Nat
         /\ Total(t, ColCreation(t), B) \in Nat /\ Total(t, ColOutput(t), B) \in Nat
         /\ Total(t, ColReasoning(t), B) \in Nat
         /\ Total(t, ColCached(t), B) + Total(t, ColCreation(t), B) <= Total(t, ColInput(t), B)
         /\ Total(t, ColReasoning(t), B) <= Total(t, ColOutput(t), B)
<1> USE TextColumns
<1>1. ASSUME NEW r \in DOMAIN t
      PROVE  /\ ColInput(t)[r] \in Nat /\ ColCached(t)[r] \in Nat /\ ColCreation(t)[r] \in Nat
             /\ ColOutput(t)[r] \in Nat /\ ColReasoning(t)[r] \in Nat
             /\ ColCached(t)[r] + ColCreation(t)[r] <= ColInput(t)[r] /\ ColReasoning(t)[r] <= ColOutput(t)[r]
  <2>1. Row(r)
    BY DEF Table
  <2> QED BY <2>1, RowInput, RowCounts DEF ColInput, ColCached, ColCreation, ColOutput, ColReasoning, Inside
<1>2. /\ Total(t, ColInput(t), B) \in Nat /\ Total(t, ColCached(t), B) \in Nat
      /\ Total(t, ColCreation(t), B) \in Nat /\ Total(t, ColOutput(t), B) \in Nat
      /\ Total(t, ColReasoning(t), B) \in Nat
  BY <1>1, TotalSign
<1>3. Total(t, ColReasoning(t), B) <= Total(t, ColOutput(t), B)
  BY <1>1, TotalAtMost
<1> DEFINE e == [r \in DOMAIN t |-> ColCached(t)[r] + ColCreation(t)[r]]
<1>4. e \in Column(t) /\ \A r \in B : e[r] = ColCached(t)[r] + ColCreation(t)[r] /\ e[r] <= ColInput(t)[r]
  BY <1>1 DEF Column
<1> HIDE DEF e
<1>5. Total(t, e, B) = Total(t, ColCached(t), B) + Total(t, ColCreation(t), B)
  BY <1>4, TotalOfTwo
<1>6. Total(t, e, B) <= Total(t, ColInput(t), B)
  BY <1>4, TotalAtMost
<1> QED BY <1>2, <1>3, <1>5, <1>6

\* The rows of a text bucket have one tier, so pricing their totals is the same
\* as pricing each of them.
LEMMA TextBucketAmount ==
  ASSUME NEW p, Rated(p), NEW t, Table(t), Inside(t), ColCost(p, t) \in Column(t),
         NEW B \in SUBSET DOMAIN t, NEW model, NEW ri \in Nat,
         \A r \in B : EffectiveModel(r) = model /\ r.input = ri /\ BilledText(p, r),
         NEW u, u.input = Total(t, ColInput(t), B), u.cached = Total(t, ColCached(t), B),
         u.creation = Total(t, ColCreation(t), B), u.output = Total(t, ColOutput(t), B),
         u.reasoning = Total(t, ColReasoning(t), B)
  PROVE  CostText(p, model, u, ri).amount = Total(t, ColCost(p, t), B)
<1>1. ASSUME NEW r \in B
      PROVE  ColCost(p, t)[r] = IF HasTextPricing(p, model)
               THEN TextSum(Tier(p, model, ri), ColInput(t)[r], ColCached(t)[r], ColCreation(t)[r],
                            ColOutput(t)[r], ColReasoning(t)[r]) ELSE 0
  <2>1. Row(r) /\ r.reasoning <= r.output /\ r \in DOMAIN t
    BY DEF Table, Inside
  <2>2. /\ ColCost(p, t)[r] = RequestCost(p, r) /\ ColInput(t)[r] = Billable(r) /\ ColCached(t)[r] = Cached(r)
        /\ ColCreation(t)[r] = Creation(r) /\ ColOutput(t)[r] = r.output /\ ColReasoning(t)[r] = r.reasoning
    BY <2>1 DEF ColCost, ColInput, ColCached, ColCreation, ColOutput, ColReasoning
  <2>3. EffectiveModel(r) = model /\ r.input = ri /\ BilledText(p, r)
    OBVIOUS
  <2>4. RequestCost(p, r)
              = IF HasTextPricing(p, EffectiveModel(r))
                THEN TextSum(Tier(p, EffectiveModel(r), r.input),
                             Billable(r), Cached(r), Creation(r), r.output, r.reasoning) ELSE 0
    BY <2>1, <2>3, TextRequestCost
  <2> QED BY <2>2, <2>3, <2>4, Zenon
<1>2. CASE ~HasTextPricing(p, model)
  <2>1. \A r \in B : ColCost(p, t)[r] = 0
    BY <1>1, <1>2
  <2> QED BY <1>2, <2>1, TotalZero, CostTextIs
<1>3. CASE HasTextPricing(p, model)
  <2> DEFINE e == Tier(p, model, ri)
  <2>1. RatedTier(e)
    BY <1>3, TierIsRated
  <2> HIDE DEF e
  <2>2. PICK c1 \in Int, c2 \in Int, c3 \in Int, c4 \in Int, c5 \in Int :
          /\ c1 = Field(e, "input") /\ c2 = Field(e, "cached_input") - Field(e, "input")
          /\ c3 = CreationRate(e) - Field(e, "input") /\ c4 = Field(e, "output")
          /\ c5 = ReasoningRate(e) - Field(e, "output")
    BY <2>1, TierRates
  <2>4. IsFive(ColCost(p, t), ColInput(t), ColCached(t), ColCreation(t), ColOutput(t), ColReasoning(t),
               c1, c2, c3, c4, c5, B)
    <3>1. ASSUME NEW r \in B
          PROVE  ColCost(p, t)[r] = c1 * ColInput(t)[r] + c2 * ColCached(t)[r] + c3 * ColCreation(t)[r]
                                      + c4 * ColOutput(t)[r] + c5 * ColReasoning(t)[r]
      <4>1. ColCost(p, t)[r] = TextSum(e, ColInput(t)[r], ColCached(t)[r], ColCreation(t)[r],
                            ColOutput(t)[r], ColReasoning(t)[r])
        BY <1>1, <1>3, Zenon DEF e
      <4> QED BY <2>2, <4>1, Zenon DEF TextSum
    <3> QED BY <3>1, Zenon DEF IsFive
  <2>5. Total(t, ColCost(p, t), B)
          = c1 * Total(t, ColInput(t), B) + c2 * Total(t, ColCached(t), B) + c3 * Total(t, ColCreation(t), B)
              + c4 * Total(t, ColOutput(t), B) + c5 * Total(t, ColReasoning(t), B)
    BY <2>4, TextColumns, TotalOfFive
  <2>6. ComputeCost(e, u) = TextSum(e, u.input, u.cached, u.creation, u.output, u.reasoning)
    <3>1. /\ u.input \in Nat /\ u.cached \in Nat /\ u.creation \in Nat /\ u.output \in Nat
          /\ u.reasoning \in Nat /\ u.cached + u.creation <= u.input /\ u.reasoning <= u.output
      BY BucketCounts
    <3> QED BY <2>1, <3>1, BucketTextCost
  <2>7. CostText(p, model, u, ri).amount = ComputeCost(e, u)
    BY <1>3, CostTextIs DEF e
  <2>8. TextSum(e, u.input, u.cached, u.creation, u.output, u.reasoning)
          = c1 * u.input + c2 * u.cached + c3 * u.creation + c4 * u.output + c5 * u.reasoning
    BY <2>2, Zenon DEF TextSum
  <2>9. c1 * u.input + c2 * u.cached + c3 * u.creation + c4 * u.output + c5 * u.reasoning
          = Total(t, ColCost(p, t), B)
    BY <2>5, Zenon
  <2> QED BY <2>6, <2>7, <2>8, <2>9, Zenon
<1> QED BY <1>2, <1>3

\* e is a linear combination of the columns col.
IsMany(e, q, col, D, B) == \A r \in B : e[r] = Add([d \in D |-> q[d] * col[d][r]])

\* The total of a linear combination of finitely many columns.
LEMMA TotalOfMany ==
  ASSUME NEW t, Table(t), NEW B \in SUBSET DOMAIN t, NEW D, IsFiniteSet(D), NEW q \in [D -> Int],
         NEW col \in [D -> Column(t)], NEW e \in Column(t), IsMany(e, q, col, D, B)
  PROVE  Total(t, e, B) = Add([d \in D |-> q[d] * Total(t, col[d], B)])
<1> DEFINE g(r) == [d \in D |-> q[d] * col[d][r]]
           row(T) == [r \in DOMAIN t |-> SumOn(g(r), T)]
           F == [T \in SUBSET D |-> Total(t, row(T), B)]
           s == [d \in D |-> q[d] * Total(t, col[d], B)]
<1>1. ASSUME NEW d \in D PROVE col[d] \in Column(t) /\ q[d] \in Int /\ \A r \in DOMAIN t : col[d][r] \in Int
  BY DEF Column
<1>2. ASSUME NEW r \in DOMAIN t PROVE g(r) \in [D -> Int]
  BY <1>1
<1>3. ASSUME NEW T \in SUBSET D PROVE row(T) \in Column(t)
  <2>1. ASSUME NEW r \in DOMAIN t PROVE SumOn(g(r), T) \in Int
    <3>1. g(r) \in [D -> Int]
      BY <1>2
    <3> HIDE DEF g
    <3> QED BY <3>1, SumSome
  <2> HIDE DEF g
  <2> QED BY <2>1 DEF Column
<1>4. F[{}] = 0
  <2>1. \A r \in B : row({})[r] = 0
    BY SumOfNone
  <2>2. row({}) \in Column(t) /\ F[{}] = Total(t, row({}), B)
    BY <1>3
  <2> HIDE DEF row, F
  <2> QED BY <2>1, <2>2, TotalZero
<1>5. ASSUME NEW d \in D PROVE s[d] = q[d] * Total(t, col[d], B) /\ Total(t, col[d], B) \in Int
  BY <1>1, TotalType
<1>6. s \in [D -> Int]
  BY <1>1, <1>5
<1>7. \A T \in SUBSET D : \A d \in T : F[T] = s[d] + F[T \ {d}]
  <2> SUFFICES ASSUME NEW T \in SUBSET D, NEW d \in T PROVE F[T] = s[d] + F[T \ {d}]
    OBVIOUS
  <2>1. ASSUME NEW r \in B PROVE row(T)[r] = row(T \ {d})[r] + q[d] * col[d][r]
    <3>1. PICK c \in [D -> Int] : c = g(r)
      BY <1>2
    <3>2. SumOn(c, T) = c[d] + SumOn(c, T \ {d})
      BY ONLY IsFiniteSet(D), c \in [D -> Int], T \in SUBSET D, d \in T, SumOne
    <3>3. c[d] = q[d] * col[d][r] /\ row(T)[r] = SumOn(c, T) /\ row(T \ {d})[r] = SumOn(c, T \ {d})
      BY <3>1
    <3>4. c[d] \in Int /\ SumOn(c, T \ {d}) \in Int
      BY SumSome
    <3> HIDE DEF row
    <3> QED BY <3>2, <3>3, <3>4
  <2>2. /\ row(T) \in Column(t) /\ row(T \ {d}) \in Column(t) /\ col[d] \in Column(t) /\ q[d] \in Int
        /\ F[T] = Total(t, row(T), B) /\ F[T \ {d}] = Total(t, row(T \ {d}), B)
        /\ s[d] = q[d] * Total(t, col[d], B)
    BY <1>1, <1>3
  <2> HIDE DEF row, F, s
  <2>3. PICK u \in Column(t), v \in Column(t), w \in Column(t), k \in Int :
          u = row(T) /\ v = row(T \ {d}) /\ w = col[d] /\ k = q[d]
    BY <2>2
  <2>4. \A r \in B : u[r] = v[r] + k * w[r]
    BY <2>1, <2>3
  <2>5. Total(t, u, B) = Total(t, v, B) + k * Total(t, w, B)
    BY ONLY <2>4, Table(t), u \in Column(t), v \in Column(t), w \in Column(t), k \in Int,
            B \in SUBSET DOMAIN t, TotalLinear
  <2>6. Total(t, v, B) \in Int /\ Total(t, w, B) \in Int
    BY TotalType
  <2>7. Total(t, u, B) = k * Total(t, w, B) + Total(t, v, B)
    BY <2>5, <2>6
  <2> QED BY <2>2, <2>3, <2>7, Zenon
<1>8. F[D] = Add(s)
  <2> HIDE DEF F, s
  <2>1. Adds(F, s, D)
    BY <1>4, <1>7 DEF Adds
  <2> QED BY <1>6, <2>1, SumIs, AddIs
<1>9. F[D] = Total(t, row(D), B)
  OBVIOUS
<1>10. Total(t, row(D), B) = Total(t, e, B)
  <2>1. ASSUME NEW r \in B PROVE row(D)[r] = e[r]
    <3>1. g(r) \in [D -> Int] /\ e[r] = Add(g(r)) /\ row(D)[r] = SumOn(g(r), D)
      BY <1>2 DEF IsMany
    <3> HIDE DEF g, row
    <3> QED BY <3>1, AddIs
  <2>2. row(D) \in Column(t)
    BY <1>3
  <2> HIDE DEF row
  <2> QED BY <2>1, <2>2, TotalSame
<1> QED BY <1>8, <1>9, <1>10, Zenon

\* There are finitely many token dimensions.
LEMMA FiniteDimensions == IsFiniteSet(Dimensions)
<1>1. IsFiniteSet({"text"}) /\ IsFiniteSet({"image"}) /\ IsFiniteSet({"mixed"})
      /\ IsFiniteSet({"input"}) /\ IsFiniteSet({"cached_input"}) /\ IsFiniteSet({"output"})
  BY FS_Singleton
<1>2. IsFiniteSet({"text"} \cup {"image"}) /\ IsFiniteSet({"input"} \cup {"cached_input"})
  BY <1>1, FS_Union
<1>3. IsFiniteSet(({"text"} \cup {"image"}) \cup {"mixed"}) /\ IsFiniteSet(({"input"} \cup {"cached_input"}) \cup {"output"})
  BY <1>1, <1>2, FS_Union
<1>4. Channels = ({"text"} \cup {"image"}) \cup {"mixed"} /\ Directions = ({"input"} \cup {"cached_input"}) \cup {"output"}
  BY DEF Channels, Directions
<1> QED BY <1>3, <1>4, FS_Product DEF Dimensions

\* The dimensions that are priced, and the rates per image.
PricedDimensions(p, model) == IF HasImageTokenPricing(p, model) THEN Dimensions ELSE {}

\* So there are of those that are priced.
LEMMA FinitePriced ==
  ASSUME NEW p, NEW model
  PROVE  IsFiniteSet(PricedDimensions(p, model)) /\ PricedDimensions(p, model) \subseteq Dimensions
BY FiniteDimensions, FS_EmptySet DEF PricedDimensions

InRate(p, model)        == IF HasPerImagePricing(p, model) THEN RateOf(InRates(p, model)) ELSE 0
OutRate(p, model, size) == IF HasPerImagePricing(p, model) THEN RateOf(OutRates(p, model, size)) ELSE 0

\* The rates per image are natural numbers, zero where the model has none.
LEMMA PerImageRates ==
  ASSUME NEW p, Rated(p), NEW model, HasMultimodal(p, model), NEW size
  PROVE  InRate(p, model) \in Nat /\ OutRate(p, model, size) \in Nat
BY ImageRates DEF InRate, OutRate

\* What a set of images costs: each dimension and each side by itself.
ImageSum(p, model, size, tokens, i, o) ==
  Add([d \in PricedDimensions(p, model) |-> DimensionRate(p, model, d) * tokens[d]])
    + (InRate(p, model) * i + OutRate(p, model, size) * o)

\* What the dimensions and the images cost together.
LEMMA ImageAmount ==
  ASSUME NEW p, Rated(p), NEW model, HasMultimodal(p, model), NEW size, NEW tokens \in [Dimensions -> Nat],
         NEW i \in Nat, NEW o \in Nat
  PROVE  /\ Add([d \in PricedDimensions(p, model) |-> CostDimension(p, model, "image", d[1], d[2], tokens[d]).amount])
              + (IF HasPerImagePricing(p, model) THEN CostImages(p, model, i, o, size).amount ELSE 0)
              = ImageSum(p, model, size, tokens, i, o)
         /\ ImageSum(p, model, size, tokens, i, o) \in Nat
<1> DEFINE D == PricedDimensions(p, model)
           a == [d \in D |-> CostDimension(p, model, "image", d[1], d[2], tokens[d]).amount]
           b == [d \in D |-> DimensionRate(p, model, d) * tokens[d]]
<1>1. D \subseteq Dimensions /\ IsFiniteSet(D)
  BY FinitePriced
<1> HIDE DEF D
<1>2. ASSUME NEW d \in D PROVE a[d] = b[d] /\ b[d] \in Nat
  <2>1. d \in Dimensions /\ tokens[d] \in Nat
    BY <1>1
  <2>2. /\ CostDimension(p, model, "image", d[1], d[2], tokens[d]).amount = DimensionRate(p, model, d) * tokens[d]
        /\ DimensionRate(p, model, d) \in Nat
    BY <2>1, CostDimensionIs, DimensionRateIs
  <2>3. DimensionRate(p, model, d) * tokens[d] \in Nat
    BY <2>1, <2>2
  <2> QED BY <2>2, <2>3
<1>3. a = b
  BY <1>2
<1>4. (IF HasPerImagePricing(p, model) THEN CostImages(p, model, i, o, size).amount ELSE 0)
        = InRate(p, model) * i + OutRate(p, model, size) * o
  <2>1. CASE HasPerImagePricing(p, model)
    BY <2>1, CostImagesIs DEF InRate, OutRate
  <2>2. CASE ~HasPerImagePricing(p, model)
    BY <2>2 DEF InRate, OutRate
  <2> QED BY <2>1, <2>2
<1>5. InRate(p, model) * i + OutRate(p, model, size) * o \in Nat
  <2>1. PICK x \in Nat, y \in Nat : x = InRate(p, model) /\ y = OutRate(p, model, size)
    BY PerImageRates
  <2>2. x * i + y * o \in Nat
    OBVIOUS
  <2> QED BY <2>1, <2>2
<1>6. Add(b) \in Nat
  <2>1. b \in [D -> Int] /\ \A d \in D : b[d] >= 0
    BY <1>2
  <2> HIDE DEF b
  <2>2. SumOn(b, D) >= 0 /\ Add(b) = SumOn(b, D) /\ Add(b) \in Int
    BY <1>1, <2>1, SumSign, AddIs
  <2> QED BY <2>2
<1>7. ImageSum(p, model, size, tokens, i, o) = Add(b) + (InRate(p, model) * i + OutRate(p, model, size) * o)
  BY DEF ImageSum, D
<1> HIDE DEF a, b
<1>8. Add(a) = Add(b)
  BY <1>3
<1>9. ImageSum(p, model, size, tokens, i, o) \in Nat
  BY <1>5, <1>6, <1>7
<1>10. Add(a) + (IF HasPerImagePricing(p, model) THEN CostImages(p, model, i, o, size).amount ELSE 0)
         = ImageSum(p, model, size, tokens, i, o)
  BY <1>4, <1>7, <1>8, Zenon
<1> QED BY <1>9, <1>10, Zenon DEF a, D

\* The columns of the image buckets.
ColDimension(t, d) == [r \in DOMAIN t |-> Dimension(r, d)]
ColInputs(t)  == [r \in DOMAIN t |-> IF IsImage(r) THEN ImageOf(r).inputs ELSE 0]
ColOutputs(t) == [r \in DOMAIN t |-> IF IsImage(r) THEN ImageOf(r).outputs ELSE 0]

\* The image counts of the rows are columns of natural numbers.
LEMMA ImageColumns ==
  ASSUME NEW t, Table(t)
  PROVE  /\ \A d \in Dimensions : ColDimension(t, d) \in Column(t) /\ \A r \in DOMAIN t : ColDimension(t, d)[r] \in Nat
         /\ ColInputs(t) \in Column(t) /\ \A r \in DOMAIN t : ColInputs(t)[r] \in Nat
         /\ ColOutputs(t) \in Column(t) /\ \A r \in DOMAIN t : ColOutputs(t)[r] \in Nat
<1>1. \A r \in DOMAIN t : Row(r)
  BY DEF Table
<1>2. ASSUME NEW d \in Dimensions
      PROVE  ColDimension(t, d) \in Column(t) /\ \A r \in DOMAIN t : ColDimension(t, d)[r] \in Nat
  <2>1. \A r \in DOMAIN t : Dimension(r, d) \in Nat
    BY <1>1, DimensionCounts
  <2>2. \A r \in DOMAIN t : Dimension(r, d) \in Int
    BY <2>1
  <2> QED BY <2>1, <2>2 DEF Column, ColDimension
<1>3. \A r \in DOMAIN t : IsImage(r) => ImageOf(r).inputs \in Nat /\ ImageOf(r).outputs \in Nat
  BY <1>1, ImageIs
<1> QED BY <1>2, <1>3 DEF Column, ColInputs, ColOutputs

\* What a request that is billed by its image dimensions costs.
LEMMA MediaRequestCost ==
  ASSUME NEW p, Rated(p), NEW r, Row(r), ~BilledText(p, r)
  PROVE  /\ RequestCost(p, r) = ImageSum(p, EffectiveModel(r), ImageOf(r).size,
                                         [d \in Dimensions |-> Dimension(r, d)], ImageOf(r).inputs, ImageOf(r).outputs)
         /\ RequestCost(p, r) \in Nat
<1> DEFINE m == EffectiveModel(r)
           tokens == [d \in Dimensions |-> Dimension(r, d)]
           D == PricedDimensions(p, m)
<1>1. IsImage(r) /\ HasMultimodal(p, m)
  BY DEF BilledText
<1>2. RequestCost(p, r)
        = Add([d \in D |-> CostDimension(p, m, "image", d[1], d[2], Dimension(r, d)).amount])
           + (IF HasPerImagePricing(p, m)
              THEN CostImages(p, m, ImageOf(r).inputs, ImageOf(r).outputs, ImageOf(r).size).amount ELSE 0)
  BY <1>1, Zenon DEF RequestCost, PricedDimensions
<1>3. tokens \in [Dimensions -> Nat]
  BY DimensionCounts
<1>4. \A d \in D : tokens[d] = Dimension(r, d)
  BY FinitePriced
<1>5. ImageOf(r).inputs \in Nat /\ ImageOf(r).outputs \in Nat
  BY <1>1, ImageIs
<1> HIDE DEF tokens, m, D
<1>6. [d \in D |-> CostDimension(p, m, "image", d[1], d[2], Dimension(r, d)).amount]
        = [d \in D |-> CostDimension(p, m, "image", d[1], d[2], tokens[d]).amount]
  BY <1>4
<1>7. /\ Add([d \in D |-> CostDimension(p, m, "image", d[1], d[2], tokens[d]).amount])
           + (IF HasPerImagePricing(p, m)
              THEN CostImages(p, m, ImageOf(r).inputs, ImageOf(r).outputs, ImageOf(r).size).amount ELSE 0)
           = ImageSum(p, m, ImageOf(r).size, tokens, ImageOf(r).inputs, ImageOf(r).outputs)
      /\ ImageSum(p, m, ImageOf(r).size, tokens, ImageOf(r).inputs, ImageOf(r).outputs) \in Nat
  BY <1>1, <1>3, <1>5, ImageAmount DEF D
<1>8. RequestCost(p, r) = ImageSum(p, m, ImageOf(r).size, tokens, ImageOf(r).inputs, ImageOf(r).outputs)
  BY <1>2, <1>6, <1>7, Zenon
<1> QED BY <1>7, <1>8, Zenon DEF tokens, m

\* What the requests cost is a column of natural numbers.
LEMMA CostColumn ==
  ASSUME NEW p, Rated(p), NEW t, Table(t), Inside(t)
  PROVE  ColCost(p, t) \in Column(t) /\ \A r \in DOMAIN t : ColCost(p, t)[r] \in Nat
<1>1. ASSUME NEW r \in DOMAIN t PROVE RequestCost(p, r) \in Nat
  <2>1. Row(r) /\ r.reasoning <= r.output
    BY DEF Table, Inside
  <2> QED BY <2>1, TextRequestCost, MediaRequestCost
<1>2. \A r \in DOMAIN t : RequestCost(p, r) \in Int
  BY <1>1
<1> QED BY <1>1, <1>2 DEF Column, ColCost

\* The rows of an image bucket have one size, so pricing their totals is the same
\* as pricing each of them.
LEMMA ImageBucketAmount ==
  ASSUME NEW p, Rated(p), NEW t, Table(t), ColCost(p, t) \in Column(t),
         NEW B \in SUBSET DOMAIN t, NEW model, HasMultimodal(p, model), NEW size,
         \A r \in B : EffectiveModel(r) = model /\ IsImage(r) /\ ImageOf(r).size = size,
         NEW tokens \in [Dimensions -> Nat], \A d \in Dimensions : tokens[d] = Total(t, ColDimension(t, d), B)
  PROVE  ImageSum(p, model, size, tokens, Total(t, ColInputs(t), B), Total(t, ColOutputs(t), B))
           = Total(t, ColCost(p, t), B)
<1> DEFINE D == PricedDimensions(p, model)
           q == [d \in D |-> DimensionRate(p, model, d)]
           col == [d \in D |-> ColDimension(t, d)]
           e == [r \in DOMAIN t |-> Add([d \in D |-> q[d] * col[d][r]])]
           x == InRate(p, model)
           y == OutRate(p, model, size)
           f == [r \in DOMAIN t |-> e[r] + x * ColInputs(t)[r]]
<1>1. IsFiniteSet(D) /\ D \subseteq Dimensions
  BY FinitePriced
<1> HIDE DEF D
<1>2. q \in [D -> Int] /\ col \in [D -> Column(t)]
  <2>1. \A d \in D : DimensionRate(p, model, d) \in Int
    <3>1. \A d \in D : DimensionRate(p, model, d) \in Nat
      BY <1>1, DimensionRateIs
    <3> QED BY <3>1
  <2>2. \A d \in D : ColDimension(t, d) \in Column(t)
    BY <1>1, ImageColumns
  <2> QED BY <2>1, <2>2
<1>3. x \in Int /\ y \in Int
  <2>1. x \in Nat /\ y \in Nat
    BY PerImageRates
  <2> QED BY <2>1
<1>4. ASSUME NEW r \in DOMAIN t PROVE Add([d \in D |-> q[d] * col[d][r]]) \in Int
  <2> DEFINE k == [d \in D |-> q[d] * col[d][r]]
  <2>1. \A d \in D : q[d] \in Int /\ col[d][r] \in Int
    BY <1>2 DEF Column
  <2>2. k \in [D -> Int]
    BY <2>1
  <2> HIDE DEF k
  <2>3. Add(k) \in Int
    BY <1>1, <2>2, AddIs
  <2> QED BY <2>3 DEF k
<1>5. e \in Column(t)
  <2> HIDE DEF q, col
  <2> QED BY <1>4 DEF Column
<1>6. IsMany(e, q, col, D, B)
  <2> HIDE DEF q, col
  <2> QED BY DEF IsMany
<1>7. ASSUME NEW r \in B PROVE ColCost(p, t)[r] = e[r] + (x * ColInputs(t)[r] + y * ColOutputs(t)[r])
  <2>1. /\ Row(r) /\ r \in DOMAIN t /\ ~BilledText(p, r)
        /\ EffectiveModel(r) = model /\ IsImage(r) /\ ImageOf(r).size = size
    BY DEF Table, BilledText
  <2>2. RequestCost(p, r) = ImageSum(p, model, size, [d \in Dimensions |-> Dimension(r, d)],
                                     ImageOf(r).inputs, ImageOf(r).outputs)
    BY <2>1, MediaRequestCost
  <2>3. ColCost(p, t)[r] = RequestCost(p, r) /\ ColInputs(t)[r] = ImageOf(r).inputs /\ ColOutputs(t)[r] = ImageOf(r).outputs
    BY <2>1 DEF ColCost, ColInputs, ColOutputs
  <2> DEFINE tk == [d \in Dimensions |-> Dimension(r, d)]
  <2>4. [d \in D |-> DimensionRate(p, model, d) * tk[d]] = [d \in D |-> q[d] * col[d][r]]
    <3>1. ASSUME NEW d \in D PROVE q[d] = DimensionRate(p, model, d) /\ col[d][r] = tk[d]
      BY <1>1, <2>1 DEF ColDimension
    <3> HIDE DEF q, col, tk
    <3> QED BY <3>1
  <2>5. e[r] = Add([d \in D |-> q[d] * col[d][r]])
    BY <2>1
  <2>6. ImageSum(p, model, size, tk, ImageOf(r).inputs, ImageOf(r).outputs)
          = Add([d \in D |-> DimensionRate(p, model, d) * tk[d]]) + (x * ImageOf(r).inputs + y * ImageOf(r).outputs)
    BY Zenon DEF ImageSum, D
  <2>7. RequestCost(p, r) = ImageSum(p, model, size, tk, ImageOf(r).inputs, ImageOf(r).outputs)
    BY <2>2
  <2> HIDE DEF tk, q, col, e, x, y
  <2> QED BY <2>3, <2>4, <2>5, <2>6, <2>7, Zenon
<1>8. Total(t, e, B) = Add([d \in D |-> q[d] * Total(t, col[d], B)])
  <2> HIDE DEF e, q, col
  <2> QED BY <1>1, <1>2, <1>5, <1>6, TotalOfMany
<1>9. [d \in D |-> q[d] * Total(t, col[d], B)] = [d \in D |-> DimensionRate(p, model, d) * tokens[d]]
  <2>1. ASSUME NEW d \in D PROVE q[d] = DimensionRate(p, model, d) /\ Total(t, col[d], B) = tokens[d]
    BY <1>1
  <2> HIDE DEF q, col
  <2> QED BY <2>1
<1>10. /\ f \in Column(t) /\ (\A r \in B : f[r] = e[r] + x * ColInputs(t)[r])
       /\ \A r \in B : ColCost(p, t)[r] = f[r] + y * ColOutputs(t)[r]
  <2>1. \A r \in DOMAIN t : e[r] \in Int /\ ColInputs(t)[r] \in Int /\ ColOutputs(t)[r] \in Int
    <3>1. \A r \in DOMAIN t : ColInputs(t)[r] \in Nat /\ ColOutputs(t)[r] \in Nat
      BY ImageColumns
    <3> HIDE DEF e
    <3> QED BY <1>5, <3>1 DEF Column
  <2> HIDE DEF e, x, y
  <2>2. f \in Column(t) /\ (\A r \in B : f[r] = e[r] + x * ColInputs(t)[r])
    BY <1>3, <2>1 DEF Column
  <2>3. ASSUME NEW r \in B PROVE ColCost(p, t)[r] = f[r] + y * ColOutputs(t)[r]
    <3>1. PICK a \in Int, b \in Int, c \in Int : a = e[r] /\ b = ColInputs(t)[r] /\ c = ColOutputs(t)[r]
      BY <2>1
    <3>2. ColCost(p, t)[r] = a + (x * b + y * c) /\ f[r] = a + x * b
      BY <1>7, <2>2, <3>1
    <3>3. a + (x * b + y * c) = (a + x * b) + y * c
      BY <1>3
    <3> HIDE DEF f
    <3> QED BY <3>1, <3>2, <3>3, Zenon
  <2> QED BY <2>2, <2>3
<1> HIDE DEF e, f, x, y
<1>11. Total(t, f, B) = Total(t, e, B) + x * Total(t, ColInputs(t), B)
  BY <1>3, <1>5, <1>10, ImageColumns, TotalLinear
<1>12. Total(t, ColCost(p, t), B) = Total(t, f, B) + y * Total(t, ColOutputs(t), B)
  BY <1>3, <1>10, ImageColumns, TotalLinear
<1>13. ImageSum(p, model, size, tokens, Total(t, ColInputs(t), B), Total(t, ColOutputs(t), B))
         = Add([d \in D |-> DimensionRate(p, model, d) * tokens[d]])
             + (x * Total(t, ColInputs(t), B) + y * Total(t, ColOutputs(t), B))
  BY Zenon DEF ImageSum, D, x, y
<1>14. PICK a \in Int, b \in Int, c \in Int :
         a = Total(t, e, B) /\ b = Total(t, ColInputs(t), B) /\ c = Total(t, ColOutputs(t), B)
  BY <1>5, ImageColumns, TotalType
<1>15. a + (x * b + y * c) = (a + x * b) + y * c
  BY <1>3
<1> HIDE DEF q, col
<1>16. Add([d \in D |-> DimensionRate(p, model, d) * tokens[d]]) = a
  BY <1>8, <1>9, <1>14, Zenon
<1> QED BY <1>11, <1>12, <1>13, <1>14, <1>15, <1>16, Zenon

-----------------------------------------------------------------------------
(* The buckets hold totals                                                  *)

\* What the queries count.
ColOne(t)         == [r \in DOMAIN t |-> 1]
ColFailed(t)      == [r \in DOMAIN t |-> Flag(r.status >= 400)]
ColRawInput(t)    == [r \in DOMAIN t |-> r.input]
ColText(t, c)     == [r \in DOMAIN t |-> Flag(TextConfidence(r) = c)]
ColTextUsed(t)    == [r \in DOMAIN t |-> Flag(Billable(r) + r.output + r.reasoning > 0)]
ColImage(t, c)    == [r \in DOMAIN t |-> Flag(ImageConfidence(r) = c)]
ColImageUsed(t)   == [r \in DOMAIN t |-> Flag(\E d \in Dimensions : Dimension(r, d) > 0)]
ColNoOutput(t)    == [r \in DOMAIN t |-> Flag(/\ r.status \in 200..399
                                              /\ r.mode # "request_only"
                                              /\ ImageOf(r).outputs <= 0)]

\* The flags that the queries count are columns.
LEMMA FlagColumns ==
  ASSUME NEW t, Table(t)
  PROVE  /\ ColOne(t) \in Column(t) /\ ColFailed(t) \in Column(t) /\ ColRawInput(t) \in Column(t)
         /\ ColTextUsed(t) \in Column(t) /\ ColImageUsed(t) \in Column(t) /\ ColNoOutput(t) \in Column(t)
         /\ \A c \in Confidences : ColText(t, c) \in Column(t) /\ ColImage(t, c) \in Column(t)
<1>1. \A b : Flag(b) \in Int
  BY DEF Flag
<1>2. ColOne(t) \in Column(t)
  BY DEF ColOne, Column
<1>3. ColFailed(t) \in Column(t)
  BY <1>1 DEF ColFailed, Column
<1>4. ColRawInput(t) \in Column(t)
  <2>1. \A r \in DOMAIN t : r.input \in Int
    BY RowCounts DEF Table
  <2> QED BY <2>1 DEF ColRawInput, Column
<1>5. ColTextUsed(t) \in Column(t)
  BY <1>1 DEF ColTextUsed, Column
<1>6. ColImageUsed(t) \in Column(t)
  BY <1>1 DEF ColImageUsed, Column
<1>7. ColNoOutput(t) \in Column(t)
  BY <1>1 DEF ColNoOutput, Column
<1>8. \A c \in Confidences : ColText(t, c) \in Column(t) /\ ColImage(t, c) \in Column(t)
  BY <1>1 DEF ColText, ColImage, Column
<1> QED BY <1>2, <1>3, <1>4, <1>5, <1>6, <1>7, <1>8

\* The rows of a bucket.
TextFiber(t, f, b)  == {r \in InScope(t, f) : TextCell(r, f) = b}
ImagesInScope(t, f) == {r \in InScope(t, f) : IsImage(r)}
ImageFiber(t, f, b) == {r \in ImagesInScope(t, f) : ImageCell(r, f) = b}

\* The rows in scope are finitely many rows of the table.
LEMMA ScopeIs ==
  ASSUME NEW t, Table(t), NEW f
  PROVE  /\ InScope(t, f) \subseteq DOMAIN t /\ IsFiniteSet(InScope(t, f))
         /\ ImagesInScope(t, f) \subseteq DOMAIN t /\ IsFiniteSet(ImagesInScope(t, f))
<1>1. InScope(t, f) \subseteq DOMAIN t /\ ImagesInScope(t, f) \subseteq DOMAIN t
  BY DEF InScope, ImagesInScope, BagToSet
<1> QED BY <1>1, FS_Subset DEF Table

\* A function has finitely many values on a finite set.
LEMMA FiniteImage ==
  ASSUME NEW S, IsFiniteSet(S), NEW h
  PROVE  IsFiniteSet({h[x] : x \in S})
<1> DEFINE k == [x \in S |-> h[x]]
           T == {h[x] : x \in S}
<1>1. k \in [S -> T] /\ \A y \in T : \E x \in S : k[x] = y
  OBVIOUS
<1> HIDE DEF k, T
<1>2. k \in Surjection(S, T)
  BY <1>1 DEF Surjection
<1>3. IsFiniteSet(T)
  BY <1>2, FS_Surjection
<1> QED BY <1>3 DEF T

\* A text bucket u holds the totals of the rows of B.
IsTextBucket(t, u, B) ==
  /\ u.requests = Total(t, ColOne(t), B)
  /\ u.withUsage = Total(t, ColTextUsed(t), B)
  /\ u.input = Total(t, ColInput(t), B)
  /\ u.output = Total(t, ColOutput(t), B)
  /\ u.reasoning = Total(t, ColReasoning(t), B)
  /\ u.cached = Total(t, ColCached(t), B)
  /\ u.creation = Total(t, ColCreation(t), B)
  /\ \A c \in Confidences : u.counts[c] = Total(t, ColText(t, c), B)

\* There is a text bucket for every cell of a row, and it holds the totals of the
\* rows of the cell.
LEMMA TextBucketsAre ==
  ASSUME NEW t, Table(t), NEW f
  PROVE  /\ DOMAIN TextBuckets(t, f) = {TextCell(r, f) : r \in InScope(t, f)}
         /\ IsFiniteSet(DOMAIN TextBuckets(t, f))
         /\ \A b \in DOMAIN TextBuckets(t, f) : IsTextBucket(t, TextBuckets(t, f)[b], TextFiber(t, f, b))
<1> DEFINE S == InScope(t, f)
           D == {TextCell(r, f) : r \in S}
           Bucket(B) ==
     [requests  |-> Sum(t, [r \in B |-> 1]),
      withUsage |-> Sum(t, [r \in B |-> Flag(Billable(r) + r.output + r.reasoning > 0)]),
      input     |-> Sum(t, [r \in B |-> Billable(r)]),
      output    |-> Sum(t, [r \in B |-> r.output]),
      reasoning |-> Sum(t, [r \in B |-> r.reasoning]),
      cached    |-> Sum(t, [r \in B |-> Cached(r)]),
      creation  |-> Sum(t, [r \in B |-> Creation(r)]),
      counts    |-> [c \in Confidences |-> Sum(t, [r \in B |-> Flag(TextConfidence(r) = c)])]]
<1>1. TextBuckets(t, f) = [b \in D |-> Bucket({r \in S : TextCell(r, f) = b})]
  BY Zenon DEF TextBuckets
<1>2. DOMAIN TextBuckets(t, f) = D /\ \A b \in D : TextBuckets(t, f)[b] = Bucket(TextFiber(t, f, b))
  <2> HIDE DEF Bucket
  <2> QED BY <1>1 DEF TextFiber
<1>3. IsFiniteSet(D)
  <2> DEFINE h == [r \in S |-> TextCell(r, f)]
  <2>1. IsFiniteSet(S) /\ D = {h[r] : r \in S}
    BY ScopeIs
  <2> HIDE DEF h, D
  <2> QED BY <2>1, FiniteImage
<1>4. ASSUME NEW B \in SUBSET DOMAIN t
      PROVE  /\ Sum(t, [r \in B |-> 1]) = Total(t, ColOne(t), B)
             /\ Sum(t, [r \in B |-> Flag(Billable(r) + r.output + r.reasoning > 0)]) = Total(t, ColTextUsed(t), B)
             /\ Sum(t, [r \in B |-> Billable(r)]) = Total(t, ColInput(t), B)
             /\ Sum(t, [r \in B |-> r.output]) = Total(t, ColOutput(t), B)
             /\ Sum(t, [r \in B |-> r.reasoning]) = Total(t, ColReasoning(t), B)
             /\ Sum(t, [r \in B |-> Cached(r)]) = Total(t, ColCached(t), B)
             /\ Sum(t, [r \in B |-> Creation(r)]) = Total(t, ColCreation(t), B)
             /\ \A c \in Confidences : Sum(t, [r \in B |-> Flag(TextConfidence(r) = c)]) = Total(t, ColText(t, c), B)
  <2>1. Sum(t, [r \in B |-> 1]) = Total(t, ColOne(t), B)
    <3> DEFINE h == [r \in B |-> 1]
    <3>1. DOMAIN h = B /\ \A r \in B : h[r] = ColOne(t)[r]
      BY DEF ColOne
    <3> HIDE DEF h
    <3>2. Sum(t, h) = Total(t, ColOne(t), B)
      BY <3>1, FlagColumns, SumIsTotal
    <3> QED BY <3>2 DEF h
  <2>2. Sum(t, [r \in B |-> Flag(Billable(r) + r.output + r.reasoning > 0)]) = Total(t, ColTextUsed(t), B)
    <3> DEFINE h == [r \in B |-> Flag(Billable(r) + r.output + r.reasoning > 0)]
    <3>1. DOMAIN h = B /\ \A r \in B : h[r] = ColTextUsed(t)[r]
      BY DEF ColTextUsed
    <3> HIDE DEF h
    <3>2. Sum(t, h) = Total(t, ColTextUsed(t), B)
      BY <3>1, FlagColumns, SumIsTotal
    <3> QED BY <3>2 DEF h
  <2>3. Sum(t, [r \in B |-> Billable(r)]) = Total(t, ColInput(t), B)
    <3> DEFINE h == [r \in B |-> Billable(r)]
    <3>1. DOMAIN h = B /\ \A r \in B : h[r] = ColInput(t)[r]
      BY DEF ColInput
    <3> HIDE DEF h
    <3>2. Sum(t, h) = Total(t, ColInput(t), B)
      BY <3>1, TextColumns, SumIsTotal
    <3> QED BY <3>2 DEF h
  <2>4. Sum(t, [r \in B |-> r.output]) = Total(t, ColOutput(t), B)
    <3> DEFINE h == [r \in B |-> r.output]
    <3>1. DOMAIN h = B /\ \A r \in B : h[r] = ColOutput(t)[r]
      BY DEF ColOutput
    <3> HIDE DEF h
    <3>2. Sum(t, h) = Total(t, ColOutput(t), B)
      BY <3>1, TextColumns, SumIsTotal
    <3> QED BY <3>2 DEF h
  <2>5. Sum(t, [r \in B |-> r.reasoning]) = Total(t, ColReasoning(t), B)
    <3> DEFINE h == [r \in B |-> r.reasoning]
    <3>1. DOMAIN h = B /\ \A r \in B : h[r] = ColReasoning(t)[r]
      BY DEF ColReasoning
    <3> HIDE DEF h
    <3>2. Sum(t, h) = Total(t, ColReasoning(t), B)
      BY <3>1, TextColumns, SumIsTotal
    <3> QED BY <3>2 DEF h
  <2>6. Sum(t, [r \in B |-> Cached(r)]) = Total(t, ColCached(t), B)
    <3> DEFINE h == [r \in B |-> Cached(r)]
    <3>1. DOMAIN h = B /\ \A r \in B : h[r] = ColCached(t)[r]
      BY DEF ColCached
    <3> HIDE DEF h
    <3>2. Sum(t, h) = Total(t, ColCached(t), B)
      BY <3>1, TextColumns, SumIsTotal
    <3> QED BY <3>2 DEF h
  <2>7. Sum(t, [r \in B |-> Creation(r)]) = Total(t, ColCreation(t), B)
    <3> DEFINE h == [r \in B |-> Creation(r)]
    <3>1. DOMAIN h = B /\ \A r \in B : h[r] = ColCreation(t)[r]
      BY DEF ColCreation
    <3> HIDE DEF h
    <3>2. Sum(t, h) = Total(t, ColCreation(t), B)
      BY <3>1, TextColumns, SumIsTotal
    <3> QED BY <3>2 DEF h
  <2>8. ASSUME NEW c \in Confidences
        PROVE  Sum(t, [r \in B |-> Flag(TextConfidence(r) = c)]) = Total(t, ColText(t, c), B)
    <3> DEFINE h == [r \in B |-> Flag(TextConfidence(r) = c)]
    <3>1. DOMAIN h = B /\ \A r \in B : h[r] = ColText(t, c)[r]
      BY DEF ColText
    <3> HIDE DEF h
    <3>2. Sum(t, h) = Total(t, ColText(t, c), B)
      BY <3>1, FlagColumns, SumIsTotal
    <3> QED BY <3>2 DEF h
  <2> QED BY <2>1, <2>2, <2>3, <2>4, <2>5, <2>6, <2>7, <2>8
<1>5. ASSUME NEW b \in D PROVE IsTextBucket(t, TextBuckets(t, f)[b], TextFiber(t, f, b))
  <2> DEFINE B == TextFiber(t, f, b)
  <2>1. TextBuckets(t, f)[b] = Bucket(B)
    BY <1>2, Zenon
  <2>2. B \in SUBSET DOMAIN t
    BY ScopeIs DEF TextFiber
  <2> HIDE DEF B
  <2>3. /\ Bucket(B).requests = Sum(t, [r \in B |-> 1])
        /\ Bucket(B).withUsage = Sum(t, [r \in B |-> Flag(Billable(r) + r.output + r.reasoning > 0)])
        /\ Bucket(B).input = Sum(t, [r \in B |-> Billable(r)])
        /\ Bucket(B).output = Sum(t, [r \in B |-> r.output])
        /\ Bucket(B).reasoning = Sum(t, [r \in B |-> r.reasoning])
        /\ Bucket(B).cached = Sum(t, [r \in B |-> Cached(r)])
        /\ Bucket(B).creation = Sum(t, [r \in B |-> Creation(r)])
        /\ \A c \in Confidences : Bucket(B).counts[c] = Sum(t, [r \in B |-> Flag(TextConfidence(r) = c)])
    OBVIOUS
  <2> HIDE DEF Bucket
  <2>4. IsTextBucket(t, Bucket(B), B)
    BY <1>4, <2>2, <2>3, Zenon DEF IsTextBucket
  <2> QED BY <2>1, <2>4, Zenon DEF B
<1> HIDE DEF Bucket, D
<1> QED BY <1>2, <1>3, <1>5, Zenon DEF D

\* An image bucket u holds the totals of the rows of B.
IsImageBucket(t, u, B) ==
  /\ u.requests = Total(t, ColOne(t), B)
  /\ u.inputs = Total(t, ColInputs(t), B)
  /\ u.outputs = Total(t, ColOutputs(t), B)
  /\ u.noOutput = Total(t, ColNoOutput(t), B)
  /\ u.withUsage = Total(t, ColImageUsed(t), B)
  /\ u.tokens = [d \in Dimensions |-> Total(t, ColDimension(t, d), B)]
  /\ \A c \in Confidences : u.counts[c] = Total(t, ColImage(t, c), B)

\* There is an image bucket for every cell of an image request, and it holds the
\* totals of the requests of the cell.
LEMMA ImageBucketsAre ==
  ASSUME NEW t, Table(t), NEW f
  PROVE  /\ DOMAIN ImageBuckets(t, f) = {ImageCell(r, f) : r \in ImagesInScope(t, f)}
         /\ IsFiniteSet(DOMAIN ImageBuckets(t, f))
         /\ \A b \in DOMAIN ImageBuckets(t, f) : IsImageBucket(t, ImageBuckets(t, f)[b], ImageFiber(t, f, b))
<1> DEFINE S == ImagesInScope(t, f)
           D == {ImageCell(r, f) : r \in S}
           Bucket(B) ==
     [requests |-> Sum(t, [r \in B |-> 1]),
      inputs |-> Sum(t, [r \in B |-> ImageOf(r).inputs]),
      outputs |-> Sum(t, [r \in B |-> ImageOf(r).outputs]),
      noOutput |-> Sum(t, [r \in B |->
        Flag(/\ r.status \in 200..399 /\ r.mode # "request_only" /\ ImageOf(r).outputs <= 0)]),
      withUsage |-> Sum(t, [r \in B |-> Flag(\E d \in Dimensions : Dimension(r, d) > 0)]),
      tokens |-> [d \in Dimensions |-> Sum(t, [r \in B |-> Dimension(r, d)])],
      counts |-> [c \in Confidences |-> Sum(t, [r \in B |-> Flag(ImageConfidence(r) = c)])]]
<1>1. ImageBuckets(t, f) = [b \in D |-> Bucket({r \in S : ImageCell(r, f) = b})]
  BY Zenon DEF ImageBuckets, ImagesInScope
<1>2. DOMAIN ImageBuckets(t, f) = D /\ \A b \in D : ImageBuckets(t, f)[b] = Bucket(ImageFiber(t, f, b))
  <2> HIDE DEF Bucket
  <2> QED BY <1>1 DEF ImageFiber
<1>3. IsFiniteSet(D)
  <2> DEFINE h == [r \in S |-> ImageCell(r, f)]
  <2>1. IsFiniteSet(S) /\ D = {h[r] : r \in S}
    BY ScopeIs
  <2> HIDE DEF h, D
  <2> QED BY <2>1, FiniteImage
<1>4. ASSUME NEW B \in SUBSET S
      PROVE  /\ Sum(t, [r \in B |-> 1]) = Total(t, ColOne(t), B)
             /\ Sum(t, [r \in B |-> ImageOf(r).inputs]) = Total(t, ColInputs(t), B)
             /\ Sum(t, [r \in B |-> ImageOf(r).outputs]) = Total(t, ColOutputs(t), B)
             /\ Sum(t, [r \in B |-> Flag(/\ r.status \in 200..399 /\ r.mode # "request_only" /\ ImageOf(r).outputs <= 0)])
                  = Total(t, ColNoOutput(t), B)
             /\ Sum(t, [r \in B |-> Flag(\E d \in Dimensions : Dimension(r, d) > 0)]) = Total(t, ColImageUsed(t), B)
             /\ \A d \in Dimensions : Sum(t, [r \in B |-> Dimension(r, d)]) = Total(t, ColDimension(t, d), B)
             /\ \A c \in Confidences : Sum(t, [r \in B |-> Flag(ImageConfidence(r) = c)]) = Total(t, ColImage(t, c), B)
  <2> B \in SUBSET DOMAIN t
    BY ScopeIs
  <2>1. Sum(t, [r \in B |-> 1]) = Total(t, ColOne(t), B)
    <3> DEFINE h == [r \in B |-> 1]
    <3>1. DOMAIN h = B /\ \A r \in B : h[r] = ColOne(t)[r]
      BY DEF ColOne
    <3> HIDE DEF h
    <3>2. Sum(t, h) = Total(t, ColOne(t), B)
      BY <3>1, FlagColumns, SumIsTotal
    <3> QED BY <3>2 DEF h
  <2>2. Sum(t, [r \in B |-> ImageOf(r).inputs]) = Total(t, ColInputs(t), B)
    <3> DEFINE h == [r \in B |-> ImageOf(r).inputs]
    <3>1. DOMAIN h = B /\ \A r \in B : h[r] = ColInputs(t)[r]
      BY DEF ColInputs, ImagesInScope
    <3> HIDE DEF h
    <3>2. Sum(t, h) = Total(t, ColInputs(t), B)
      BY <3>1, ImageColumns, SumIsTotal
    <3> QED BY <3>2 DEF h
  <2>3. Sum(t, [r \in B |-> ImageOf(r).outputs]) = Total(t, ColOutputs(t), B)
    <3> DEFINE h == [r \in B |-> ImageOf(r).outputs]
    <3>1. DOMAIN h = B /\ \A r \in B : h[r] = ColOutputs(t)[r]
      BY DEF ColOutputs, ImagesInScope
    <3> HIDE DEF h
    <3>2. Sum(t, h) = Total(t, ColOutputs(t), B)
      BY <3>1, ImageColumns, SumIsTotal
    <3> QED BY <3>2 DEF h
  <2>4. Sum(t, [r \in B |-> Flag(/\ r.status \in 200..399 /\ r.mode # "request_only" /\ ImageOf(r).outputs <= 0)])
          = Total(t, ColNoOutput(t), B)
    <3> DEFINE h == [r \in B |-> Flag(/\ r.status \in 200..399 /\ r.mode # "request_only" /\ ImageOf(r).outputs <= 0)]
    <3>1. DOMAIN h = B /\ \A r \in B : h[r] = ColNoOutput(t)[r]
      BY DEF ColNoOutput
    <3> HIDE DEF h
    <3>2. Sum(t, h) = Total(t, ColNoOutput(t), B)
      BY <3>1, FlagColumns, SumIsTotal
    <3> QED BY <3>2 DEF h
  <2>5. Sum(t, [r \in B |-> Flag(\E d \in Dimensions : Dimension(r, d) > 0)]) = Total(t, ColImageUsed(t), B)
    <3> DEFINE h == [r \in B |-> Flag(\E d \in Dimensions : Dimension(r, d) > 0)]
    <3>1. DOMAIN h = B /\ \A r \in B : h[r] = ColImageUsed(t)[r]
      BY DEF ColImageUsed
    <3> HIDE DEF h
    <3>2. Sum(t, h) = Total(t, ColImageUsed(t), B)
      BY <3>1, FlagColumns, SumIsTotal
    <3> QED BY <3>2 DEF h
  <2>6. ASSUME NEW d \in Dimensions
        PROVE  Sum(t, [r \in B |-> Dimension(r, d)]) = Total(t, ColDimension(t, d), B)
    <3> DEFINE h == [r \in B |-> Dimension(r, d)]
    <3>1. DOMAIN h = B /\ \A r \in B : h[r] = ColDimension(t, d)[r]
      BY DEF ColDimension
    <3> HIDE DEF h
    <3>2. Sum(t, h) = Total(t, ColDimension(t, d), B)
      BY <3>1, ImageColumns, SumIsTotal
    <3> QED BY <3>2 DEF h
  <2>7. ASSUME NEW c \in Confidences
        PROVE  Sum(t, [r \in B |-> Flag(ImageConfidence(r) = c)]) = Total(t, ColImage(t, c), B)
    <3> DEFINE h == [r \in B |-> Flag(ImageConfidence(r) = c)]
    <3>1. DOMAIN h = B /\ \A r \in B : h[r] = ColImage(t, c)[r]
      BY DEF ColImage
    <3> HIDE DEF h
    <3>2. Sum(t, h) = Total(t, ColImage(t, c), B)
      BY <3>1, FlagColumns, SumIsTotal
    <3> QED BY <3>2 DEF h
  <2> QED BY <2>1, <2>2, <2>3, <2>4, <2>5, <2>6, <2>7
<1>5. ASSUME NEW b \in D PROVE IsImageBucket(t, ImageBuckets(t, f)[b], ImageFiber(t, f, b))
  <2> DEFINE B == ImageFiber(t, f, b)
  <2>1. ImageBuckets(t, f)[b] = Bucket(B)
    BY <1>2, Zenon
  <2>2. B \in SUBSET S
    BY DEF ImageFiber
  <2> HIDE DEF B
  <2>3. /\ Bucket(B).requests = Sum(t, [r \in B |-> 1])
        /\ Bucket(B).inputs = Sum(t, [r \in B |-> ImageOf(r).inputs])
        /\ Bucket(B).outputs = Sum(t, [r \in B |-> ImageOf(r).outputs])
        /\ Bucket(B).noOutput
             = Sum(t, [r \in B |-> Flag(/\ r.status \in 200..399 /\ r.mode # "request_only" /\ ImageOf(r).outputs <= 0)])
        /\ Bucket(B).withUsage = Sum(t, [r \in B |-> Flag(\E d \in Dimensions : Dimension(r, d) > 0)])
        /\ Bucket(B).tokens = [d \in Dimensions |-> Sum(t, [r \in B |-> Dimension(r, d)])]
        /\ \A c \in Confidences : Bucket(B).counts[c] = Sum(t, [r \in B |-> Flag(ImageConfidence(r) = c)])
    OBVIOUS
  <2> HIDE DEF Bucket
  <2>4. [d \in Dimensions |-> Sum(t, [r \in B |-> Dimension(r, d)])]
          = [d \in Dimensions |-> Total(t, ColDimension(t, d), B)]
    BY <1>4, <2>2
  <2>5. IsImageBucket(t, Bucket(B), B)
    BY <1>4, <2>2, <2>3, <2>4, Zenon DEF IsImageBucket
  <2> QED BY <2>1, <2>5, Zenon DEF B
<1> HIDE DEF Bucket, D
<1> QED BY <1>2, <1>3, <1>5, Zenon DEF D

-----------------------------------------------------------------------------
(* Groups of buckets are groups of rows                                     *)

\* The group of a row, and the rows of a group.
GroupOf(r, grouping) ==
  [bucket    |-> IF "bucket" \in grouping THEN r.at ELSE -1,
   key       |-> IF "key" \in grouping THEN KeyName(r) ELSE Blank,
   model     |-> IF "model" \in grouping THEN EffectiveModel(r) ELSE <<>>,
   operation |-> IF "operation" \notin grouping THEN Blank
                 ELSE IF IsImage(r) THEN ImageOf(r).operation ELSE "unknown"]
Groups(t, f, grouping) == {GroupOf(r, grouping) : r \in InScope(t, f)}
Members(t, f, grouping, g) == {r \in InScope(t, f) : GroupOf(r, grouping) = g}

\* A report groups by what its buckets keep apart.
Fits(f, grouping) == \A x \in {"bucket", "key", "operation"} : x \in grouping => x \in f.by

\* What the bucket of a row says of the row.
LEMMA CellIs ==
  ASSUME NEW r, NEW f
  PROVE  /\ TextCell(r, f).cell = Cell(r, f) /\ TextCell(r, f).requestInput = r.input /\ TextCell(r, f).image = IsImage(r)
         /\ TextCell(r, f).cell.model = EffectiveModel(r)
         /\ ImageCell(r, f).cell.model = EffectiveModel(r) /\ ImageCell(r, f).size = ImageOf(r).size
BY DEF TextCell, ImageCell, Cell

\* The bucket of a row is grouped where the row belongs.
LEMMA CellGroup ==
  ASSUME NEW r, NEW f, NEW grouping, Fits(f, grouping)
  PROVE  /\ CostGroup(TextCell(r, f).cell, grouping) = GroupOf(r, grouping)
         /\ IsImage(r) => CostGroup(ImageCell(r, f).cell, grouping) = GroupOf(r, grouping)
<1> DEFINE c == Cell(r, f)
           o == IF "operation" \notin grouping THEN Blank
                ELSE IF IsImage(r) THEN ImageOf(r).operation ELSE "unknown"
           k == IF "key" \in grouping THEN KeyName(r) ELSE Blank
           b == IF "bucket" \in grouping THEN r.at ELSE -1
           m == IF "model" \in grouping THEN EffectiveModel(r) ELSE <<>>
<1>1. /\ c.bucket = (IF "bucket" \in f.by THEN r.at ELSE -1)
      /\ c.key = (IF "key" \in f.by THEN KeyName(r) ELSE Blank)
      /\ c.model = EffectiveModel(r)
      /\ c.operation = (IF "operation" \notin f.by THEN Blank ELSE IF IsImage(r) THEN ImageOf(r).operation ELSE "unknown")
      /\ [c EXCEPT !.operation = ImageOf(r).operation].bucket = c.bucket
      /\ [c EXCEPT !.operation = ImageOf(r).operation].key = c.key
      /\ [c EXCEPT !.operation = ImageOf(r).operation].model = c.model
      /\ [c EXCEPT !.operation = ImageOf(r).operation].operation = ImageOf(r).operation
  BY DEF Cell
<1>2. /\ (IF "bucket" \in grouping THEN c.bucket ELSE -1) = b
      /\ (IF "key" \in grouping THEN c.key ELSE Blank) = k
      /\ (IF "model" \in grouping THEN c.model ELSE <<>>) = m
      /\ (IF "operation" \in grouping THEN c.operation ELSE Blank) = o
      /\ IsImage(r) => (IF "operation" \in grouping THEN ImageOf(r).operation ELSE Blank) = o
  BY <1>1, Zenon DEF Fits
<1>3. GroupOf(r, grouping) = [bucket |-> b, key |-> k, model |-> m, operation |-> o]
  BY Zenon DEF GroupOf
<1>4. TextCell(r, f).cell = c /\ ImageCell(r, f).cell = [c EXCEPT !.operation = ImageOf(r).operation]
  BY DEF TextCell, ImageCell
<1> HIDE DEF c, b, k, m, o
<1>5. CostGroup(c, grouping) = [bucket |-> b, key |-> k, model |-> m, operation |-> o]
  BY <1>2, Zenon DEF CostGroup
<1>6. IsImage(r) => CostGroup([c EXCEPT !.operation = ImageOf(r).operation], grouping)
                      = [bucket |-> b, key |-> k, model |-> m, operation |-> o]
  BY <1>1, <1>2, Zenon DEF CostGroup
<1> QED BY <1>3, <1>4, <1>5, <1>6, Zenon

\* The buckets of a group, its result, and the results of all groups.
TextOf(t, f, grouping, g)   == {b \in DOMAIN TextBuckets(t, f) : CostGroup(b.cell, grouping) = g}
ImagesOf(t, f, grouping, g) == {b \in DOMAIN ImageBuckets(t, f) : CostGroup(b.cell, grouping) = g}
Result(p, t, f, grouping, g) == CostResult(p, TextBuckets(t, f), ImageBuckets(t, f),
                                           TextOf(t, f, grouping, g), ImagesOf(t, f, grouping, g))
Costs(p, t, f, grouping) == EvaluateCostBuckets(p, TextBuckets(t, f), ImageBuckets(t, f), grouping)

\* There is a result for every group of a row, and for no other.
LEMMA GroupsAre ==
  ASSUME NEW p, NEW t, Table(t), NEW f, NEW grouping, Fits(f, grouping)
  PROVE  /\ DOMAIN Costs(p, t, f, grouping) = Groups(t, f, grouping)
         /\ \A g \in DOMAIN Costs(p, t, f, grouping) : Costs(p, t, f, grouping)[g] = Result(p, t, f, grouping, g)
<1> DEFINE T == DOMAIN TextBuckets(t, f)
           I == DOMAIN ImageBuckets(t, f)
           G == {CostGroup(b.cell, grouping) : b \in T \cup I}
<1>1. /\ DOMAIN Costs(p, t, f, grouping) = G
      /\ \A g \in G : Costs(p, t, f, grouping)[g] = Result(p, t, f, grouping, g)
  BY DEF Costs, EvaluateCostBuckets, Result, TextOf, ImagesOf
<1>2. T = {TextCell(r, f) : r \in InScope(t, f)} /\ I = {ImageCell(r, f) : r \in ImagesInScope(t, f)}
  <2>1. T = {TextCell(r, f) : r \in InScope(t, f)}
    BY TextBucketsAre, Zenon
  <2>2. I = {ImageCell(r, f) : r \in ImagesInScope(t, f)}
    BY ImageBucketsAre, Zenon
  <2> QED BY <2>1, <2>2
<1>3. ASSUME NEW r \in InScope(t, f) PROVE GroupOf(r, grouping) \in G
  <2> HIDE DEF T, I
  <2> QED BY <1>2, CellGroup
<1>4. ASSUME NEW b \in T \cup I PROVE \E r \in InScope(t, f) : CostGroup(b.cell, grouping) = GroupOf(r, grouping)
  <2> HIDE DEF T, I
  <2>1. CASE b \in T
    <3>1. PICK r \in InScope(t, f) : b = TextCell(r, f)
      BY <1>2, <2>1
    <3> QED BY <3>1, CellGroup
  <2>2. CASE b \in I
    <3>1. PICK r \in ImagesInScope(t, f) : b = ImageCell(r, f)
      BY <1>2, <2>2
    <3>2. r \in InScope(t, f) /\ IsImage(r)
      BY DEF ImagesInScope
    <3> QED BY <3>1, <3>2, CellGroup
  <2> QED BY <2>1, <2>2
<1>5. G = Groups(t, f, grouping)
  <2> HIDE DEF T, I
  <2> QED BY <1>3, <1>4 DEF Groups
<1> HIDE DEF G
<1> QED BY <1>1, <1>5, Zenon

\* The sum over the text buckets of a group is a total over rows of the group.
LEMMA TextFibers ==
  ASSUME NEW t, Table(t), NEW f, NEW e \in Column(t), NEW L \in SUBSET DOMAIN TextBuckets(t, f),
         NEW g, g = [b \in L |-> g[b]], \A b \in L : g[b] = Total(t, e, TextFiber(t, f, b))
  PROVE  Add(g) = Total(t, e, {r \in InScope(t, f) : TextCell(r, f) \in L})
<1> DEFINE h == [r \in DOMAIN t |-> TextCell(r, f)]
<1>1. InScope(t, f) \in SUBSET DOMAIN t
  BY ScopeIs
<1>2. \A r \in InScope(t, f) : h[r] = TextCell(r, f)
  BY <1>1
<1> HIDE DEF h
<1>3. \A b \in L : TextFiber(t, f, b) = {r \in InScope(t, f) : h[r] = b}
  BY <1>2 DEF TextFiber
<1>4. {r \in InScope(t, f) : TextCell(r, f) \in L} = {r \in InScope(t, f) : h[r] \in L}
  BY <1>2
<1>5. IsFiniteSet(L)
  BY TextBucketsAre, FS_Subset
<1>6. IsTotals(g, t, e, InScope(t, f), h, L)
  BY <1>3 DEF IsTotals
<1>7. Add(g) = Total(t, e, {r \in InScope(t, f) : h[r] \in L})
  BY <1>1, <1>5, <1>6, TotalFibers
<1> QED BY <1>4, <1>7, Zenon

\* The same of the image buckets.
LEMMA ImageFibers ==
  ASSUME NEW t, Table(t), NEW f, NEW e \in Column(t), NEW L \in SUBSET DOMAIN ImageBuckets(t, f),
         NEW g, g = [b \in L |-> g[b]], \A b \in L : g[b] = Total(t, e, ImageFiber(t, f, b))
  PROVE  Add(g) = Total(t, e, {r \in ImagesInScope(t, f) : ImageCell(r, f) \in L})
<1> DEFINE h == [r \in DOMAIN t |-> ImageCell(r, f)]
<1>1. ImagesInScope(t, f) \in SUBSET DOMAIN t
  BY ScopeIs
<1>2. \A r \in ImagesInScope(t, f) : h[r] = ImageCell(r, f)
  BY <1>1
<1> HIDE DEF h
<1>3. \A b \in L : ImageFiber(t, f, b) = {r \in ImagesInScope(t, f) : h[r] = b}
  BY <1>2 DEF ImageFiber
<1>4. {r \in ImagesInScope(t, f) : ImageCell(r, f) \in L} = {r \in ImagesInScope(t, f) : h[r] \in L}
  BY <1>2
<1>5. IsFiniteSet(L)
  BY ImageBucketsAre, FS_Subset
<1>6. IsTotals(g, t, e, ImagesInScope(t, f), h, L)
  BY <1>3 DEF IsTotals
<1>7. Add(g) = Total(t, e, {r \in ImagesInScope(t, f) : h[r] \in L})
  BY <1>1, <1>5, <1>6, TotalFibers
<1> QED BY <1>4, <1>7, Zenon

\* The requests of a group are counted by their confidence, each once.
LEMMA GroupCounts ==
  ASSUME NEW p, NEW t, Table(t), NEW f, NEW grouping, Fits(f, grouping), NEW g, NEW c \in Confidences
  PROVE  Result(p, t, f, grouping, g).counts[c] = Total(t, ColText(t, c), Members(t, f, grouping, g))
<1> DEFINE L == TextOf(t, f, grouping, g)
           text == TextBuckets(t, f)
           n == [b \in L |-> text[b].counts[c]]
<1>1. Result(p, t, f, grouping, g).counts[c] = Add(n)
  <2> DEFINE images == ImageBuckets(t, f)
             I == ImagesOf(t, f, grouping, g)
  <2>0. Result(p, t, f, grouping, g) = CostResult(p, text, images, L, I)
    BY DEF Result
  <2> HIDE DEF L, text, images, I
  <2>1. CostResult(p, text, images, L, I).counts = [k \in Confidences |-> Add([b \in L |-> text[b].counts[k]])]
    BY DEF CostResult
  <2>2. CostResult(p, text, images, L, I).counts[c] = Add([b \in L |-> text[b].counts[c]])
    BY <2>1
  <2> QED BY <2>0, <2>2, Zenon
<1>2. L \in SUBSET DOMAIN text
  BY DEF TextOf
<1>3. n = [b \in L |-> n[b]] /\ \A b \in L : n[b] = text[b].counts[c]
  OBVIOUS
<1> HIDE DEF n, L
<1>4. \A b \in L : n[b] = Total(t, ColText(t, c), TextFiber(t, f, b))
  <2> SUFFICES ASSUME NEW b \in L PROVE n[b] = Total(t, ColText(t, c), TextFiber(t, f, b))
    OBVIOUS
  <2>1. IsTextBucket(t, text[b], TextFiber(t, f, b))
    BY <1>2, TextBucketsAre
  <2> QED BY <1>3, <2>1, Zenon DEF IsTextBucket
<1>5. ColText(t, c) \in Column(t)
  BY FlagColumns
<1>6. Add(n) = Total(t, ColText(t, c), {r \in InScope(t, f) : TextCell(r, f) \in L})
  BY <1>2, <1>3, <1>4, <1>5, TextFibers
<1>7. {r \in InScope(t, f) : TextCell(r, f) \in L} = Members(t, f, grouping, g)
  <2>1. ASSUME NEW r \in InScope(t, f) PROVE TextCell(r, f) \in L <=> GroupOf(r, grouping) = g
    BY TextBucketsAre, CellGroup DEF L, TextOf
  <2> QED BY <2>1 DEF Members
<1> QED BY <1>1, <1>6, <1>7, Zenon

\* What a text bucket costs is what its requests cost.
LEMMA TextBucketCost ==
  ASSUME NEW p, Rated(p), NEW t, Table(t), Inside(t), NEW f, NEW b \in DOMAIN TextBuckets(t, f), BilledAsText(p, b)
  PROVE  TextCost(p, b, TextBuckets(t, f)[b]).amount = Total(t, ColCost(p, t), TextFiber(t, f, b))
<1> DEFINE B == TextFiber(t, f, b)
           u == TextBuckets(t, f)[b]
<1>0. b \in {TextCell(r, f) : r \in InScope(t, f)}
  BY TextBucketsAre, Zenon
<1>1. PICK s \in InScope(t, f) : b = TextCell(s, f)
  BY <1>0
<1>2. /\ B \in SUBSET DOMAIN t /\ s \in DOMAIN t /\ \A r \in B : TextCell(r, f) = b
  BY ScopeIs DEF TextFiber
<1>3. b.cell.model = EffectiveModel(s) /\ b.requestInput = s.input /\ b.image = IsImage(s)
  BY <1>1, CellIs
<1>4. PICK ri, model : ri \in Nat /\ ri = b.requestInput /\ model = b.cell.model
  BY <1>2, <1>3, RowCounts DEF Table
<1>5. ASSUME NEW r \in B PROVE EffectiveModel(r) = model /\ r.input = ri /\ BilledText(p, r)
  <2>1. b.cell.model = EffectiveModel(r) /\ b.requestInput = r.input /\ b.image = IsImage(r)
    BY <1>2, CellIs
  <2> QED BY <1>4, <2>1 DEF BilledAsText, BilledText
<1>6. IsTextBucket(t, u, B)
  BY TextBucketsAre
<1>7. ColCost(p, t) \in Column(t)
  BY CostColumn
<1> HIDE DEF B, u
<1>8. /\ u.input = Total(t, ColInput(t), B) /\ u.cached = Total(t, ColCached(t), B)
      /\ u.creation = Total(t, ColCreation(t), B) /\ u.output = Total(t, ColOutput(t), B)
      /\ u.reasoning = Total(t, ColReasoning(t), B)
  BY <1>6, Zenon DEF IsTextBucket
<1>9. CostText(p, model, u, ri).amount = Total(t, ColCost(p, t), B)
  BY <1>2, <1>4, <1>5, <1>7, <1>8, TextBucketAmount
<1>10. TextCost(p, b, u) = CostText(p, model, u, ri)
  BY <1>4, Zenon DEF TextCost
<1> QED BY <1>9, <1>10, Zenon DEF B, u

\* What an image bucket costs is what its requests cost.
LEMMA ImageBucketCost ==
  ASSUME NEW p, Rated(p), NEW t, Table(t), Inside(t), NEW f, NEW b \in DOMAIN ImageBuckets(t, f),
         HasMultimodal(p, b.cell.model)
  PROVE  ImageCosts(p, b, ImageBuckets(t, f)[b]).amount = Total(t, ColCost(p, t), ImageFiber(t, f, b))
<1> DEFINE B == ImageFiber(t, f, b)
           u == ImageBuckets(t, f)[b]
           tokens == [d \in Dimensions |-> Total(t, ColDimension(t, d), B)]
<1>1. /\ B \in SUBSET DOMAIN t /\ \A r \in B : ImageCell(r, f) = b /\ IsImage(r)
  BY ScopeIs DEF ImageFiber, ImagesInScope
<1>2. PICK model, size : size = b.size /\ model = b.cell.model
  OBVIOUS
<1>3. \A r \in B : EffectiveModel(r) = model /\ IsImage(r) /\ ImageOf(r).size = size
  BY <1>1, <1>2, CellIs
<1>4. IsImageBucket(t, u, B)
  BY ImageBucketsAre
<1>5. ColCost(p, t) \in Column(t)
  BY CostColumn
<1> HIDE DEF B, u
<1>6. tokens \in [Dimensions -> Nat] /\ \A d \in Dimensions : tokens[d] = Total(t, ColDimension(t, d), B)
  <2>1. \A d \in Dimensions : Total(t, ColDimension(t, d), B) \in Nat
    <3> SUFFICES ASSUME NEW d \in Dimensions PROVE Total(t, ColDimension(t, d), B) \in Nat
      OBVIOUS
    <3>1. ColDimension(t, d) \in Column(t) /\ \A r \in B : ColDimension(t, d)[r] >= 0
      BY <1>1, ImageColumns
    <3> QED BY <1>1, <3>1, TotalSign
  <2> QED BY <2>1
<1>7. PICK i \in Nat, o \in Nat : i = Total(t, ColInputs(t), B) /\ o = Total(t, ColOutputs(t), B)
  <2>1. /\ ColInputs(t) \in Column(t) /\ \A r \in B : ColInputs(t)[r] >= 0
        /\ ColOutputs(t) \in Column(t) /\ \A r \in B : ColOutputs(t)[r] >= 0
    BY <1>1, ImageColumns
  <2>2. Total(t, ColInputs(t), B) \in Nat /\ Total(t, ColOutputs(t), B) \in Nat
    BY <1>1, <2>1, TotalSign
  <2> QED BY <2>2
<1>8. u.tokens = tokens /\ u.inputs = i /\ u.outputs = o
  BY <1>4, <1>7, Zenon DEF IsImageBucket
<1> HIDE DEF tokens
<1>9. ImageSum(p, model, size, tokens, i, o) = Total(t, ColCost(p, t), B)
  BY <1>1, <1>2, <1>3, <1>5, <1>6, <1>7, ImageBucketAmount
<1>10. ImageCosts(p, b, u).amount
         = Add([d \in PricedDimensions(p, model) |-> CostDimension(p, model, "image", d[1], d[2], tokens[d]).amount])
           + (IF HasPerImagePricing(p, model) THEN CostImages(p, model, i, o, size).amount ELSE 0)
  <2>1. ImageCosts(p, b, u).amount
         = Add([d \in PricedDimensions(p, model) |-> CostDimension(p, model, "image", d[1], d[2], u.tokens[d]).amount])
           + (IF HasPerImagePricing(p, model) THEN CostImages(p, model, u.inputs, u.outputs, size) ELSE Known(0)).amount
    BY <1>2 DEF ImageCosts, PricedDimensions
  <2>2. Known(0).amount = 0
    BY DEF Known
  <2> QED BY <1>8, <2>1, <2>2, Zenon
<1>11. ImageCosts(p, b, u).amount = ImageSum(p, model, size, tokens, i, o)
  BY <1>2, <1>6, <1>10, ImageAmount
<1> QED BY <1>9, <1>11, Zenon DEF B, u

\* What a group costs is what its requests cost, each by itself.
LEMMA GroupAmount ==
  ASSUME NEW p, Rated(p), NEW t, Table(t), Inside(t), NEW f, NEW grouping, Fits(f, grouping), NEW g
  PROVE  Result(p, t, f, grouping, g).amount = Total(t, ColCost(p, t), Members(t, f, grouping, g))
<1> DEFINE text == TextBuckets(t, f)
           images == ImageBuckets(t, f)
           T == TextOf(t, f, grouping, g)
           I == ImagesOf(t, f, grouping, g)
           K == {b \in T : BilledAsText(p, b)}
           M == {b \in I : HasMultimodal(p, b.cell.model)}
           k == [b \in K |-> TextCost(p, b, text[b]).amount]
           m == [b \in M |-> ImageCosts(p, b, images[b]).amount]
           A == {r \in InScope(t, f) : TextCell(r, f) \in K}
           C == {r \in ImagesInScope(t, f) : ImageCell(r, f) \in M}
<1>1. Result(p, t, f, grouping, g).amount = Add(k) + Add(m)
  <2>1. Result(p, t, f, grouping, g) = CostResult(p, text, images, T, I)
    BY DEF Result
  <2> HIDE DEF T, I, text, images
  <2>2. CostResult(p, text, images, T, I).amount = Add(k) + Add(m)
    BY DEF CostResult
  <2> QED BY <2>1, <2>2, Zenon
<1>2. T \in SUBSET DOMAIN text /\ I \in SUBSET DOMAIN images /\ K \in SUBSET DOMAIN text /\ M \in SUBSET DOMAIN images
  BY DEF TextOf, ImagesOf
<1>3. ColCost(p, t) \in Column(t)
  BY CostColumn
<1>4. ASSUME NEW b \in K PROVE k[b] = Total(t, ColCost(p, t), TextFiber(t, f, b))
  <2>1. b \in DOMAIN text /\ BilledAsText(p, b) /\ k[b] = TextCost(p, b, text[b]).amount
    BY <1>2
  <2> HIDE DEF k, K
  <2> QED BY <2>1, TextBucketCost
<1>5. ASSUME NEW b \in M PROVE m[b] = Total(t, ColCost(p, t), ImageFiber(t, f, b))
  <2>1. b \in DOMAIN images /\ HasMultimodal(p, b.cell.model) /\ m[b] = ImageCosts(p, b, images[b]).amount
    BY <1>2
  <2> HIDE DEF m, M
  <2> QED BY <2>1, ImageBucketCost
<1>6. k = [b \in K |-> k[b]] /\ m = [b \in M |-> m[b]]
  OBVIOUS
<1>7. Add(k) = Total(t, ColCost(p, t), A)
  <2> HIDE DEF k, K
  <2> QED BY <1>2, <1>3, <1>4, <1>6, TextFibers
<1>8. Add(m) = Total(t, ColCost(p, t), C)
  <2> HIDE DEF m, M
  <2> QED BY <1>2, <1>3, <1>5, <1>6, ImageFibers
<1>9. ASSUME NEW r \in InScope(t, f)
      PROVE  /\ r \in A <=> GroupOf(r, grouping) = g /\ BilledText(p, r)
             /\ r \in C <=> GroupOf(r, grouping) = g /\ ~BilledText(p, r)
  <2>1. TextCell(r, f) \in DOMAIN text /\ CostGroup(TextCell(r, f).cell, grouping) = GroupOf(r, grouping)
    BY TextBucketsAre, CellGroup
  <2>2. TextCell(r, f) \in T <=> GroupOf(r, grouping) = g
    BY <2>1 DEF TextOf
  <2>3. BilledAsText(p, TextCell(r, f)) <=> BilledText(p, r)
    BY CellIs DEF BilledAsText, BilledText
  <2>4. r \in A <=> GroupOf(r, grouping) = g /\ BilledText(p, r)
    <3> HIDE DEF T
    <3> QED BY <2>2, <2>3
  <2>5. r \in C <=> IsImage(r) /\ ImageCell(r, f) \in M
    BY DEF ImagesInScope
  <2>6. IsImage(r) => (ImageCell(r, f) \in I <=> GroupOf(r, grouping) = g)
    <3>1. IsImage(r) => ImageCell(r, f) \in DOMAIN images
      BY ImageBucketsAre DEF ImagesInScope
    <3>2. IsImage(r) => CostGroup(ImageCell(r, f).cell, grouping) = GroupOf(r, grouping)
      BY CellGroup
    <3> QED BY <3>1, <3>2 DEF ImagesOf
  <2>7. HasMultimodal(p, ImageCell(r, f).cell.model) <=> HasMultimodal(p, EffectiveModel(r))
    BY CellIs
  <2>8. r \in C <=> GroupOf(r, grouping) = g /\ ~BilledText(p, r)
    <3> HIDE DEF I
    <3> QED BY <2>5, <2>6, <2>7 DEF BilledText
  <2> QED BY <2>4, <2>8
<1>10. A \in SUBSET DOMAIN t /\ C \in SUBSET DOMAIN t /\ A \subseteq InScope(t, f) /\ C \subseteq InScope(t, f)
  <2> HIDE DEF K, M
  <2> QED BY ScopeIs DEF ImagesInScope
<1> HIDE DEF A, C
<1>11. Apart(A, C) /\ A \cup C = Members(t, f, grouping, g)
  BY <1>9, <1>10 DEF Apart, Members
<1>12. Total(t, ColCost(p, t), A \cup C) = Total(t, ColCost(p, t), A) + Total(t, ColCost(p, t), C)
  BY <1>3, <1>10, <1>11, TotalSplit
<1> HIDE DEF k, m
<1> QED BY <1>1, <1>7, <1>8, <1>11, <1>12, Zenon

-----------------------------------------------------------------------------
(* The rows of the reports                                                  *)

\* The usage of a report row.
UsageFields == {"requests", "failed", "input", "output"}
ColUsage(t, x) == IF x = "requests" THEN ColOne(t) ELSE IF x = "failed" THEN ColFailed(t)
                  ELSE IF x = "input" THEN ColRawInput(t) ELSE ColOutput(t)

\* The usage of the rows is a column for each of its fields.
LEMMA UsageColumns == ASSUME NEW t, Table(t), NEW x \in UsageFields PROVE ColUsage(t, x) \in Column(t)
BY FlagColumns, TextColumns DEF ColUsage

\* A filter says what its buckets keep apart.
IsFilter(f) == "by" \in DOMAIN f

\* The rows of a report hold the totals of their groups.
LEMMA UsageRowsAre ==
  ASSUME NEW t, Table(t), NEW f, IsFilter(f), NEW grouping
  PROVE  /\ DOMAIN UsageRows(t, f, grouping) = Groups(t, f, grouping)
         /\ \A g \in DOMAIN UsageRows(t, f, grouping) : \A x \in UsageFields :
              UsageRows(t, f, grouping)[g][x] = Total(t, ColUsage(t, x), Members(t, f, grouping, g))
<1> DEFINE S == InScope(t, f)
           e == [f EXCEPT !.by = grouping]
           Group(r) == CostGroup(Cell(r, e), grouping)
           Row4(B) == [requests |-> Sum(t, [r \in B |-> 1]),
                       failed   |-> Sum(t, [r \in B |-> Flag(r.status >= 400)]),
                       input    |-> Sum(t, [r \in B |-> r.input]),
                       output   |-> Sum(t, [r \in B |-> r.output])]
<1>1. UsageRows(t, f, grouping) = [g \in {Group(r) : r \in S} |-> Row4({r \in S : Group(r) = g})]
  BY Zenon DEF UsageRows
<1>2. \A r : Group(r) = GroupOf(r, grouping)
  <2>1. e.by = grouping
    BY DEF IsFilter
  <2>2. Fits(e, grouping)
    BY <2>1 DEF Fits
  <2> HIDE DEF e
  <2>3. SUFFICES ASSUME NEW r PROVE Group(r) = GroupOf(r, grouping)
    OBVIOUS
  <2>4. TextCell(r, e).cell = Cell(r, e)
    BY CellIs
  <2>5. CostGroup(TextCell(r, e).cell, grouping) = GroupOf(r, grouping)
    BY <2>2, CellGroup
  <2> QED BY <2>4, <2>5, Zenon
<1> HIDE DEF Group, Row4
<1>3. {Group(r) : r \in S} = Groups(t, f, grouping)
  BY <1>2 DEF Groups
<1>4. \A g : {r \in S : Group(r) = g} = Members(t, f, grouping, g)
  BY <1>2 DEF Members
<1>5. /\ DOMAIN UsageRows(t, f, grouping) = Groups(t, f, grouping)
      /\ \A g \in DOMAIN UsageRows(t, f, grouping) :
           UsageRows(t, f, grouping)[g] = Row4(Members(t, f, grouping, g))
  BY <1>1, <1>3, <1>4
<1>6. ASSUME NEW B \in SUBSET DOMAIN t, NEW x \in UsageFields PROVE Row4(B)[x] = Total(t, ColUsage(t, x), B)
  <2>1. Sum(t, [r \in B |-> 1]) = Total(t, ColOne(t), B)
    <3> DEFINE h == [r \in B |-> 1]
    <3>1. DOMAIN h = B /\ \A r \in B : h[r] = ColOne(t)[r]
      BY DEF ColOne
    <3> HIDE DEF h
    <3>2. Sum(t, h) = Total(t, ColOne(t), B)
      BY <3>1, FlagColumns, SumIsTotal
    <3> QED BY <3>2 DEF h
  <2>2. Sum(t, [r \in B |-> Flag(r.status >= 400)]) = Total(t, ColFailed(t), B)
    <3> DEFINE h == [r \in B |-> Flag(r.status >= 400)]
    <3>1. DOMAIN h = B /\ \A r \in B : h[r] = ColFailed(t)[r]
      BY DEF ColFailed
    <3> HIDE DEF h
    <3>2. Sum(t, h) = Total(t, ColFailed(t), B)
      BY <3>1, FlagColumns, SumIsTotal
    <3> QED BY <3>2 DEF h
  <2>3. Sum(t, [r \in B |-> r.input]) = Total(t, ColRawInput(t), B)
    <3> DEFINE h == [r \in B |-> r.input]
    <3>1. DOMAIN h = B /\ \A r \in B : h[r] = ColRawInput(t)[r]
      BY DEF ColRawInput
    <3> HIDE DEF h
    <3>2. Sum(t, h) = Total(t, ColRawInput(t), B)
      BY <3>1, FlagColumns, SumIsTotal
    <3> QED BY <3>2 DEF h
  <2>4. Sum(t, [r \in B |-> r.output]) = Total(t, ColOutput(t), B)
    <3> DEFINE h == [r \in B |-> r.output]
    <3>1. DOMAIN h = B /\ \A r \in B : h[r] = ColOutput(t)[r]
      BY DEF ColOutput
    <3> HIDE DEF h
    <3>2. Sum(t, h) = Total(t, ColOutput(t), B)
      BY <3>1, TextColumns, SumIsTotal
    <3> QED BY <3>2 DEF h
  <2>5. /\ Row4(B)["requests"] = Total(t, ColOne(t), B) /\ Row4(B)["failed"] = Total(t, ColFailed(t), B)
        /\ Row4(B)["input"] = Total(t, ColRawInput(t), B) /\ Row4(B)["output"] = Total(t, ColOutput(t), B)
    BY <2>1, <2>2, <2>3, <2>4 DEF Row4
  <2>6. /\ ColUsage(t, "requests") = ColOne(t) /\ ColUsage(t, "failed") = ColFailed(t)
        /\ ColUsage(t, "input") = ColRawInput(t) /\ ColUsage(t, "output") = ColOutput(t)
    BY DEF ColUsage
  <2> QED BY <2>5, <2>6, Zenon DEF UsageFields
<1>7. ASSUME NEW g PROVE Members(t, f, grouping, g) \in SUBSET DOMAIN t
  BY ScopeIs DEF Members
<1> QED BY <1>5, <1>6, <1>7, Zenon

\* The row of a report holds the totals of the requests of B.
IsRowOf(p, t, row, B) ==
  /\ \A x \in UsageFields : row.usage[x] = Total(t, ColUsage(t, x), B)
  /\ \A c \in Confidences : row.cost.counts[c] = Total(t, ColText(t, c), B)
  /\ Inside(t) => row.cost.amount = Total(t, ColCost(p, t), B)

\* A report has a row for each group of its scope, with the totals of the group.
IsReport(p, t, f, grouping, report) ==
  /\ DOMAIN report = Groups(t, f, grouping)
  /\ \A g \in DOMAIN report : IsRowOf(p, t, report[g], Members(t, f, grouping, g))

\* The three queries of the report have run on the table t.
Seen(s, t) == s["rows"] = t /\ s["text"] = t /\ s["image"] = t

\* The row of a group: what UsageRows has for it, and the result of its buckets.
LEMMA PricedRows ==
  ASSUME NEW p, NEW t, Table(t), NEW s, Seen(s, t), NEW f, IsFilter(f), NEW grouping, Fits(f, grouping),
         NEW report, report = Priced(p, Snapshot(s, f, grouping), grouping)
  PROVE  /\ DOMAIN report = Groups(t, f, grouping)
         /\ \A g \in Groups(t, f, grouping) :
              report[g].usage = UsageRows(t, f, grouping)[g] /\ report[g].cost = Result(p, t, f, grouping, g)
<1> DEFINE rows == UsageRows(t, f, grouping)
           costs == Costs(p, t, f, grouping)
           G == Groups(t, f, grouping)
<1>1. report = [g \in DOMAIN rows |-> [usage |-> rows[g], cost |-> OrElse(costs, g, CompleteZeroCost)]]
  <2> DEFINE snap == Snapshot(s, f, grouping)
  <2>1. snap.rows = rows /\ snap.text = TextBuckets(t, f) /\ snap.image = ImageBuckets(t, f)
    BY DEF Snapshot, Seen
  <2>2. EvaluateCostBuckets(p, snap.text, snap.image, grouping) = costs
    BY <2>1, Zenon DEF Costs
  <2>3. Priced(p, snap, grouping)
          = [g \in DOMAIN snap.rows |-> [usage |-> snap.rows[g],
                cost |-> OrElse(EvaluateCostBuckets(p, snap.text, snap.image, grouping), g, CompleteZeroCost)]]
    BY Zenon DEF Priced
  <2> HIDE DEF snap, rows, costs
  <2> QED BY <2>1, <2>2, <2>3 DEF snap
<1>2. DOMAIN rows = G /\ DOMAIN costs = G /\ \A g \in G : costs[g] = Result(p, t, f, grouping, g)
  <2>1. DOMAIN rows = G
    BY UsageRowsAre
  <2>2. DOMAIN costs = G /\ \A g \in DOMAIN costs : costs[g] = Result(p, t, f, grouping, g)
    BY GroupsAre, Zenon
  <2> QED BY <2>1, <2>2, Zenon
<1>3. ASSUME NEW g \in G PROVE report[g].usage = rows[g] /\ report[g].cost = Result(p, t, f, grouping, g)
  <2> HIDE DEF rows, costs, G
  <2>1. report[g].usage = rows[g] /\ report[g].cost = OrElse(costs, g, CompleteZeroCost)
    BY <1>1, <1>2
  <2>2. OrElse(costs, g, CompleteZeroCost) = Result(p, t, f, grouping, g)
    BY <1>2 DEF OrElse
  <2> QED BY <2>1, <2>2
<1>4. DOMAIN report = G
  <2> HIDE DEF rows, costs, G
  <2> QED BY <1>1, <1>2
<1> QED BY <1>3, <1>4

\* A report with groups has a row for every group, which holds its totals.
LEMMA PricedIs ==
  ASSUME NEW p, Rated(p), NEW t, Table(t), NEW s, Seen(s, t), NEW f, IsFilter(f),
         NEW grouping, Fits(f, grouping)
  PROVE  IsReport(p, t, f, grouping, Priced(p, Snapshot(s, f, grouping), grouping))
<1> DEFINE rows == UsageRows(t, f, grouping)
           report == Priced(p, Snapshot(s, f, grouping), grouping)
           G == Groups(t, f, grouping)
<1>1. DOMAIN report = G
  BY PricedRows
<1>2. ASSUME NEW g \in G PROVE report[g].usage = rows[g] /\ report[g].cost = Result(p, t, f, grouping, g)
  BY PricedRows
<1>3. ASSUME NEW g \in G PROVE IsRowOf(p, t, report[g], Members(t, f, grouping, g))
  <2> DEFINE B == Members(t, f, grouping, g)
  <2>1. \A x \in UsageFields : rows[g][x] = Total(t, ColUsage(t, x), B)
    BY UsageRowsAre
  <2>2. \A c \in Confidences : Result(p, t, f, grouping, g).counts[c] = Total(t, ColText(t, c), B)
    BY GroupCounts
  <2>3. Inside(t) => Result(p, t, f, grouping, g).amount = Total(t, ColCost(p, t), B)
    BY GroupAmount
  <2> HIDE DEF report, rows, B
  <2> QED BY <1>2, <2>1, <2>2, <2>3, Zenon DEF IsRowOf, B
<1> HIDE DEF report
<1>4. IsReport(p, t, f, grouping, report)
  <2> HIDE DEF G
  <2> QED BY <1>1, <1>3, Zenon DEF IsReport, G
<1> QED BY <1>4, Zenon DEF report

\* The total over no row is zero.
LEMMA TotalNone == ASSUME NEW t, NEW e PROVE Total(t, e, {}) = 0
BY SumOfNone DEF Total

\* The one row of a report without groups holds the totals of the scope.
LEMMA WholeIs ==
  ASSUME NEW p, Rated(p), NEW t, Table(t), NEW s, Seen(s, t), NEW f, IsFilter(f)
  PROVE  IsRowOf(p, t, Whole(p, Snapshot(s, f, {})), InScope(t, f))
<1> DEFINE rows == UsageRows(t, f, {})
           costs == Costs(p, t, f, {})
           whole == [usage |-> OrElse(rows, Everything, NoUsage), cost |-> OrElse(costs, Everything, CompleteZeroCost)]
           G == Groups(t, f, {})
<1>0. Fits(f, {})
  BY DEF Fits
<1>1. Whole(p, Snapshot(s, f, {})) = whole
  <2> DEFINE snap == Snapshot(s, f, {})
  <2>1. snap.rows = rows /\ snap.text = TextBuckets(t, f) /\ snap.image = ImageBuckets(t, f)
    BY DEF Snapshot, Seen
  <2>2. EvaluateCostBuckets(p, snap.text, snap.image, {}) = costs
    BY <2>1, Zenon DEF Costs
  <2>3. Whole(p, snap)
          = [usage |-> OrElse(snap.rows, Everything, NoUsage),
             cost  |-> OrElse(EvaluateCostBuckets(p, snap.text, snap.image, {}), Everything, CompleteZeroCost)]
    BY Zenon DEF Whole
  <2> HIDE DEF snap, rows, costs
  <2> QED BY <2>1, <2>2, <2>3 DEF snap
<1>2. \A r : GroupOf(r, {}) = Everything
  BY DEF GroupOf, Everything, CostGroup
<1>3. Members(t, f, {}, Everything) = InScope(t, f)
  BY <1>2 DEF Members
<1>4. DOMAIN rows = G /\ DOMAIN costs = G /\ \A g \in G : costs[g] = Result(p, t, f, {}, g)
  <2>1. DOMAIN rows = G
    BY UsageRowsAre
  <2>2. DOMAIN costs = G /\ \A g \in DOMAIN costs : costs[g] = Result(p, t, f, {}, g)
    BY <1>0, GroupsAre, Zenon
  <2> QED BY <2>1, <2>2, Zenon
<1>5. CASE InScope(t, f) = {}
  <2>1. Everything \notin G
    BY <1>5 DEF Groups
  <2>2. whole.usage = NoUsage /\ whole.cost = CompleteZeroCost
    <3> HIDE DEF rows, costs, G
    <3> QED BY <1>4, <2>1 DEF OrElse
  <2>3. /\ \A x \in UsageFields : NoUsage[x] = 0
        /\ \A c \in Confidences : CompleteZeroCost.counts[c] = 0
        /\ CompleteZeroCost.amount = 0
    BY DEF NoUsage, CompleteZeroCost, UsageFields
  <2> HIDE DEF whole
  <2> QED BY <1>1, <1>5, <2>2, <2>3, TotalNone, Zenon DEF IsRowOf
<1>6. CASE InScope(t, f) # {}
  <2>1. Everything \in G
    BY <1>2, <1>6 DEF Groups
  <2>2. whole.usage = rows[Everything] /\ whole.cost = Result(p, t, f, {}, Everything)
    <3> HIDE DEF rows, costs, G
    <3>1. whole.usage = rows[Everything] /\ whole.cost = costs[Everything]
      BY <1>4, <2>1 DEF OrElse
    <3> QED BY <1>4, <2>1, <3>1
  <2>3. \A x \in UsageFields : rows[Everything][x] = Total(t, ColUsage(t, x), InScope(t, f))
    <3>1. \A x \in UsageFields : rows[Everything][x] = Total(t, ColUsage(t, x), Members(t, f, {}, Everything))
      BY <1>4, <2>1, UsageRowsAre
    <3> QED BY <1>3, <3>1, Zenon
  <2>4. \A c \in Confidences : Result(p, t, f, {}, Everything).counts[c] = Total(t, ColText(t, c), InScope(t, f))
    BY <1>0, <1>3, GroupCounts
  <2>5. Inside(t) => Result(p, t, f, {}, Everything).amount = Total(t, ColCost(p, t), InScope(t, f))
    BY <1>0, <1>3, GroupAmount
  <2> HIDE DEF whole, rows
  <2> QED BY <1>1, <2>2, <2>3, <2>4, <2>5, Zenon DEF IsRowOf
<1> QED BY <1>5, <1>6

-----------------------------------------------------------------------------
(* Each request is billed once, and the parts make the whole                *)

\* What holds when a report has been answered.
LEMMA AnsweredMeans ==
  ReportsInv /\ Answered =>
    /\ Rated(prices) /\ Table(reader.tx) /\ Seen(reader.seen, reader.tx)
    /\ ReasoningIsInside <=> Inside(reader.tx)
<1> SUFFICES ASSUME ReportsInv, Answered
             PROVE  /\ Rated(prices) /\ Table(reader.tx) /\ Seen(reader.seen, reader.tx)
                    /\ ReasoningIsInside <=> Inside(reader.tx)
  OBVIOUS
<1>1. Rated(prices)
  BY PricesAreRated DEF ReportsInv
<1>2. Table(reader.tx) /\ Seen(reader.seen, reader.tx)
  BY DEF ReportsInv, ReaderInv, Answered, Seen
<1>3. ReasoningIsInside <=> Inside(reader.tx)
  BY DEF ReasoningIsInside, Inside, BagToSet
<1> QED BY <1>1, <1>2, <1>3

\* The rows that the filter of a report lets through.
LEMMA ScopeFilter ==
  ASSUME NEW since, NEW key, NEW by
  PROVE  /\ IsFilter(Scope(since, key, by)) /\ Scope(since, key, by).by = by
         /\ \A t : InScope(t, Scope(since, key, by))
                     = {r \in DOMAIN t : r.at >= since /\ key \in {Blank, KeyName(r)}}
BY DEF Scope, IsFilter, InScope, BagToSet

\* The summary of a table costs what its requests in scope cost.
LEMMA BilledOnce ==
  ASSUME NEW p, Rated(p), NEW t, Table(t), Inside(t), NEW s, Seen(s, t), NEW since
  PROVE  Summary(p, s, since).cost.amount
           = Sum(t, [r \in {x \in BagToSet(t) : x.at >= since} |-> RequestCost(p, r)])
<1> DEFINE f == Scope(since, Blank, {})
           B == {x \in BagToSet(t) : x.at >= since}
           h == [r \in B |-> RequestCost(p, r)]
<1>1. IsFilter(f) /\ InScope(t, f) = B
  BY ScopeFilter DEF BagToSet
<1>2. Summary(p, s, since) = Whole(p, Snapshot(s, f, {}))
  BY DEF Summary, SummaryReportSnapshot
<1>3. B \in SUBSET DOMAIN t /\ DOMAIN h = B /\ \A r \in B : h[r] = ColCost(p, t)[r]
  BY DEF BagToSet, ColCost
<1>4. ColCost(p, t) \in Column(t)
  BY CostColumn
<1> HIDE DEF f, B, h
<1>5. IsRowOf(p, t, Whole(p, Snapshot(s, f, {})), InScope(t, f))
  BY <1>1, WholeIs
<1>6. Summary(p, s, since).cost.amount = Total(t, ColCost(p, t), B)
  BY <1>1, <1>2, <1>5, Zenon DEF IsRowOf
<1>7. Sum(t, h) = Total(t, ColCost(p, t), B)
  BY <1>3, <1>4, SumIsTotal
<1> QED BY <1>6, <1>7 DEF h, B

\* A report bills every request of its scope once, at the price of the request by itself.
THEOREM BillsEachRequestOnce == Spec => []EachRequestIsBilledOnce
<1>1. ReportsInv => EachRequestIsBilledOnce
  <2> SUFFICES ASSUME ReportsInv, Answered, ReasoningIsInside, NEW since \in Sinces
               PROVE  Summary(prices, reader.seen, since).cost.amount
    = Sum(reader.tx, [r \in {x \in BagToSet(reader.tx) : x.at >= since} |-> RequestCost(prices, r)])
    BY DEF EachRequestIsBilledOnce
  <2>1. Rated(prices) /\ Table(reader.tx) /\ Seen(reader.seen, reader.tx) /\ Inside(reader.tx)
    BY AnsweredMeans
  <2>2. PICK p, t, s : p = prices /\ t = reader.tx /\ s = reader.seen
    OBVIOUS
  <2>3. Summary(p, s, since).cost.amount
           = Sum(t, [r \in {x \in BagToSet(t) : x.at >= since} |-> RequestCost(p, r)])
    BY <2>1, <2>2, BilledOnce
  <2> QED BY <2>2, <2>3, Zenon
<1> QED BY <1>1, ReportsInvariant, PTL

\* The groups of a report share out its scope.
LEMMA GroupFibers ==
  ASSUME NEW t, Table(t), NEW f, NEW grouping, NEW e \in Column(t),
         NEW g, g = [k \in Groups(t, f, grouping) |-> g[k]],
         \A k \in Groups(t, f, grouping) : g[k] = Total(t, e, Members(t, f, grouping, k))
  PROVE  Add(g) = Total(t, e, InScope(t, f))
<1> DEFINE h == [r \in DOMAIN t |-> GroupOf(r, grouping)]
           S == InScope(t, f)
           L == Groups(t, f, grouping)
<1>1. S \in SUBSET DOMAIN t /\ IsFiniteSet(S)
  BY ScopeIs
<1>2. \A r \in S : h[r] = GroupOf(r, grouping)
  BY <1>1
<1> HIDE DEF h
<1>3. L = {h[r] : r \in S} /\ \A k : Members(t, f, grouping, k) = {r \in S : h[r] = k}
  BY <1>2 DEF Groups, Members
<1>4. IsFiniteSet(L)
  BY <1>1, <1>3, FiniteImage
<1>5. {r \in S : h[r] \in L} = S
  BY <1>3
<1> HIDE DEF L, S
<1>6. IsTotals(g, t, e, S, h, L)
  BY <1>3, Zenon DEF IsTotals, L
<1>7. Add(g) = Total(t, e, {r \in S : h[r] \in L})
  BY <1>1, <1>4, <1>6, TotalFibers
<1> QED BY <1>5, <1>7, Zenon DEF S

\* What PartsMakeTheWhole asks of a report and the row it is compared with.
Agree(inside, report, row) ==
  /\ \A x \in {"requests", "failed", "input", "output"} : Totals(report, x) = row.usage[x]
  /\ \A c \in Confidences : CountOf(report, c) = row.cost.counts[c]
  /\ inside => AmountOf(report) = row.cost.amount

\* The rows of a report add up to the row of the whole scope.
LEMMA ReportAgrees ==
  ASSUME NEW p, Rated(p), NEW t, Table(t), NEW f, NEW grouping, NEW report, IsReport(p, t, f, grouping, report),
         NEW row, IsRowOf(p, t, row, InScope(t, f))
  PROVE  Agree(Inside(t), report, row)
<1> DEFINE L == Groups(t, f, grouping)
<1>1. DOMAIN report = L /\ \A k \in L : IsRowOf(p, t, report[k], Members(t, f, grouping, k))
  BY Zenon DEF IsReport
<1> HIDE DEF L
<1>2. ASSUME NEW x \in UsageFields PROVE Totals(report, x) = row.usage[x]
  <2> DEFINE g == [k \in L |-> report[k].usage[x]]
  <2>1. Totals(report, x) = Add(g)
    BY <1>1 DEF Totals
  <2>2. g = [k \in L |-> g[k]] /\ \A k \in L : g[k] = report[k].usage[x]
    OBVIOUS
  <2> HIDE DEF g
  <2>3. \A k \in L : g[k] = Total(t, ColUsage(t, x), Members(t, f, grouping, k))
    BY <1>1, <2>2, Zenon DEF IsRowOf
  <2>4. ColUsage(t, x) \in Column(t)
    BY UsageColumns
  <2>5. Add(g) = Total(t, ColUsage(t, x), InScope(t, f))
    BY <2>2, <2>3, <2>4, GroupFibers DEF L
  <2> QED BY <2>1, <2>5, Zenon DEF IsRowOf
<1>3. ASSUME NEW c \in Confidences PROVE CountOf(report, c) = row.cost.counts[c]
  <2> DEFINE g == [k \in L |-> report[k].cost.counts[c]]
  <2>1. CountOf(report, c) = Add(g)
    BY <1>1 DEF CountOf
  <2>2. g = [k \in L |-> g[k]] /\ \A k \in L : g[k] = report[k].cost.counts[c]
    OBVIOUS
  <2> HIDE DEF g
  <2>3. \A k \in L : g[k] = Total(t, ColText(t, c), Members(t, f, grouping, k))
    BY <1>1, <2>2, Zenon DEF IsRowOf
  <2>4. ColText(t, c) \in Column(t)
    BY FlagColumns
  <2>5. Add(g) = Total(t, ColText(t, c), InScope(t, f))
    BY <2>2, <2>3, <2>4, GroupFibers DEF L
  <2> QED BY <2>1, <2>5, Zenon DEF IsRowOf
<1>4. ASSUME Inside(t) PROVE AmountOf(report) = row.cost.amount
  <2> DEFINE g == [k \in L |-> report[k].cost.amount]
  <2>1. AmountOf(report) = Add(g)
    BY <1>1 DEF AmountOf
  <2>2. g = [k \in L |-> g[k]] /\ \A k \in L : g[k] = report[k].cost.amount
    OBVIOUS
  <2> HIDE DEF g
  <2>3. \A k \in L : g[k] = Total(t, ColCost(p, t), Members(t, f, grouping, k))
    BY <1>1, <1>4, <2>2, Zenon DEF IsRowOf
  <2>4. ColCost(p, t) \in Column(t)
    BY <1>4, CostColumn
  <2>5. Add(g) = Total(t, ColCost(p, t), InScope(t, f))
    BY <2>2, <2>3, <2>4, GroupFibers DEF L
  <2> QED BY <1>4, <2>1, <2>5, Zenon DEF IsRowOf
<1> QED BY <1>2, <1>3, <1>4, Zenon DEF Agree, UsageFields

\* Every request has one of the confidences.
LEMMA ConfidenceIs == ASSUME NEW r PROVE TextConfidence(r) \in Confidences /\ ImageConfidence(r) \in Confidences
BY DEF TextConfidence, ImageConfidence, Confidence, Confidences

\* There are finitely many confidences.
LEMMA FiniteConfidences == IsFiniteSet(Confidences)
<1>1. /\ IsFiniteSet({"observed"}) /\ IsFiniteSet({"side_channel"}) /\ IsFiniteSet({"request_only"})
      /\ IsFiniteSet({"missing_usage"}) /\ IsFiniteSet({"unsupported"}) /\ IsFiniteSet({"conflict"})
  BY FS_Singleton
<1>2. IsFiniteSet({"observed"} \cup {"side_channel"}) /\ IsFiniteSet({"request_only"} \cup {"missing_usage"})
      /\ IsFiniteSet({"unsupported"} \cup {"conflict"})
  BY <1>1, FS_Union
<1>3. IsFiniteSet(({"observed"} \cup {"side_channel"}) \cup ({"request_only"} \cup {"missing_usage"}))
  BY <1>2, FS_Union
<1>4. IsFiniteSet((({"observed"} \cup {"side_channel"}) \cup ({"request_only"} \cup {"missing_usage"}))
                  \cup ({"unsupported"} \cup {"conflict"}))
  BY <1>2, <1>3, FS_Union
<1>5. Confidences = (({"observed"} \cup {"side_channel"}) \cup ({"request_only"} \cup {"missing_usage"}))
                      \cup ({"unsupported"} \cup {"conflict"})
  BY DEF Confidences
<1> QED BY <1>4, <1>5

\* The counts by confidence add up to the number of requests.
LEMMA CountsAddUp ==
  ASSUME NEW t, Table(t), NEW S \in SUBSET DOMAIN t, NEW n, n = [c \in Confidences |-> n[c]],
         \A c \in Confidences : n[c] = Total(t, ColText(t, c), S)
  PROVE  Add(n) = Total(t, ColOne(t), S)
<1> DEFINE h == [r \in DOMAIN t |-> TextConfidence(r)]
<1>1. \A r \in S : h[r] = TextConfidence(r) /\ h[r] \in Confidences
  BY ConfidenceIs
<1> HIDE DEF h
<1>2. ASSUME NEW c \in Confidences PROVE n[c] = Total(t, ColOne(t), {r \in S : h[r] = c})
  <2> DEFINE A == {r \in S : h[r] = c}
             C == S \ A
  <2>1. A \in SUBSET DOMAIN t /\ C \in SUBSET DOMAIN t /\ Apart(A, C) /\ A \cup C = S
    BY DEF Apart
  <2>2. /\ \A r \in A : ColText(t, c)[r] = ColOne(t)[r]
        /\ \A r \in C : ColText(t, c)[r] = 0
    BY <1>1 DEF ColText, ColOne, Flag
  <2>3. ColText(t, c) \in Column(t) /\ ColOne(t) \in Column(t)
    BY FlagColumns
  <2> HIDE DEF A, C
  <2>4. Total(t, ColText(t, c), A \cup C) = Total(t, ColText(t, c), A) + Total(t, ColText(t, c), C)
    BY <2>1, <2>3, TotalSplit
  <2>5. Total(t, ColText(t, c), A) = Total(t, ColOne(t), A)
    BY <2>1, <2>2, <2>3, TotalSame
  <2>6. Total(t, ColText(t, c), C) = 0
    BY <2>1, <2>2, <2>3, TotalZero
  <2>7. Total(t, ColOne(t), A) \in Int
    BY <2>1, <2>3, TotalType
  <2>8. n[c] = Total(t, ColText(t, c), A \cup C)
    BY <2>1, Zenon
  <2>9. n[c] = Total(t, ColOne(t), A)
    BY <2>4, <2>5, <2>6, <2>7, <2>8
  <2> QED BY <2>9 DEF A
<1>3. IsTotals(n, t, ColOne(t), S, h, Confidences)
  BY <1>2, Zenon DEF IsTotals
<1>4. Add(n) = Total(t, ColOne(t), {r \in S : h[r] \in Confidences})
  BY <1>3, FiniteConfidences, FlagColumns, TotalFibers
<1>5. {r \in S : h[r] \in Confidences} = S
  BY <1>1
<1> QED BY <1>4, <1>5, Zenon

\* The row of the whole scope has a count for every confidence.
LEMMA WholeCounts ==
  ASSUME NEW p, NEW snap
  PROVE  Whole(p, snap).cost.counts = [c \in Confidences |-> Whole(p, snap).cost.counts[c]]
<1> DEFINE costs == EvaluateCostBuckets(p, snap.text, snap.image, {})
           G == {CostGroup(b.cell, {}) : b \in DOMAIN snap.text \cup DOMAIN snap.image}
<1>1. Whole(p, snap).cost = OrElse(costs, Everything, CompleteZeroCost)
  BY DEF Whole
<1>2. \A g \in DOMAIN costs : \E T, I : costs[g] = CostResult(p, snap.text, snap.image, T, I)
  BY DEF EvaluateCostBuckets
<1> HIDE DEF costs
<1>3. CASE Everything \notin DOMAIN costs
  BY <1>1, <1>3 DEF OrElse, CompleteZeroCost
<1>4. CASE Everything \in DOMAIN costs
  <2>1. PICK T, I : costs[Everything] = CostResult(p, snap.text, snap.image, T, I)
    BY <1>2, <1>4
  <2> DEFINE n == [c \in Confidences |-> Add([b \in T |-> snap.text[b].counts[c]])]
  <2>2. CostResult(p, snap.text, snap.image, T, I).counts = n
    BY DEF CostResult
  <2>3. n = [c \in Confidences |-> n[c]]
    OBVIOUS
  <2> HIDE DEF n
  <2>4. Whole(p, snap).cost.counts = n
    BY <1>1, <1>4, <2>1, <2>2, Zenon DEF OrElse
  <2> QED BY <2>3, <2>4
<1> QED BY <1>3, <1>4

\* The rows of the Keys report and what a report narrowed to the key sees.
LEMMA KeyScope ==
  ASSUME NEW t, NEW since, NEW by, NEW g \in Groups(t, Scope(since, Blank, {"key"}), {"key"})
  PROVE  Members(t, Scope(since, Blank, {"key"}), {"key"}, g) = InScope(t, Scope(since, g.key, by))
<1> DEFINE f == Scope(since, Blank, {"key"})
<1>1. PICK s : g = GroupOf(s, {"key"})
  BY DEF Groups
<1>2. ASSUME NEW r
      PROVE  /\ GroupOf(r, {"key"}) = [bucket |-> -1, key |-> KeyName(r), model |-> <<>>, operation |-> Blank]
             /\ GroupOf(r, {"key"}).key = KeyName(r)
             /\ KeyName(r) # Blank
  BY DEF GroupOf, KeyName, Blank
<1>3. ASSUME NEW r PROVE GroupOf(r, {"key"}) = g <=> KeyName(r) = g.key
  <2>1. /\ GroupOf(r, {"key"}) = [bucket |-> -1, key |-> KeyName(r), model |-> <<>>, operation |-> Blank]
        /\ g = [bucket |-> -1, key |-> KeyName(s), model |-> <<>>, operation |-> Blank]
        /\ g.key = KeyName(s) /\ GroupOf(r, {"key"}).key = KeyName(r)
    BY <1>1, <1>2, Zenon
  <2> QED BY <2>1, Zenon
<1>4. g.key # Blank
  BY <1>1, <1>2, Zenon
<1>5. \A r \in InScope(t, f) : GroupOf(r, {"key"}) = g <=> KeyName(r) = g.key
  BY <1>3
<1>6. Members(t, f, {"key"}, g) = {r \in InScope(t, f) : KeyName(r) = g.key}
  BY <1>5 DEF Members
<1>7. InScope(t, f) = {r \in DOMAIN t : r.at >= since}
  BY ScopeFilter
<1>8. InScope(t, Scope(since, g.key, by)) = {r \in DOMAIN t : r.at >= since /\ KeyName(r) = g.key}
  BY <1>4, ScopeFilter
<1> QED BY <1>6, <1>7, <1>8

\* Each report of the console holds the totals of its groups.
LEMMA Parts ==
  ASSUME NEW p, Rated(p), NEW t, Table(t), NEW s, Seen(s, t), NEW since
  PROVE  /\ IsRowOf(p, t, Summary(p, s, since), InScope(t, Scope(since, Blank, {})))
         /\ \A key : IsReport(p, t, Scope(since, key, {}), {"model"}, Models(p, s, since, key))
         /\ \A key : IsReport(p, t, Scope(since, key, {"bucket"}), {"bucket"}, Timeseries(p, s, since, key))
         /\ IsReport(p, t, Scope(since, Blank, {"key"}), {"key"}, KeysReport(p, s, since))
<1>1. IsRowOf(p, t, Summary(p, s, since), InScope(t, Scope(since, Blank, {})))
  <2>1. Summary(p, s, since) = Whole(p, Snapshot(s, Scope(since, Blank, {}), {}))
    BY DEF Summary, SummaryReportSnapshot
  <2>2. IsRowOf(p, t, Whole(p, Snapshot(s, Scope(since, Blank, {}), {})), InScope(t, Scope(since, Blank, {})))
    BY ScopeFilter, WholeIs
  <2> QED BY <2>1, <2>2, Zenon
<1>2. ASSUME NEW key PROVE IsReport(p, t, Scope(since, key, {}), {"model"}, Models(p, s, since, key))
  <2> DEFINE f == Scope(since, key, {})
             grouping == {"model"}
  <2>1. IsFilter(f) /\ Fits(f, grouping)
    BY ScopeFilter DEF Fits
  <2>2. Models(p, s, since, key) = Priced(p, Snapshot(s, f, grouping), grouping)
    BY DEF Models, ModelsReportSnapshot
  <2> HIDE DEF f, grouping
  <2>3. IsReport(p, t, f, grouping, Priced(p, Snapshot(s, f, grouping), grouping))
    BY <2>1, PricedIs
  <2> QED BY <2>2, <2>3, Zenon DEF f, grouping
<1>3. ASSUME NEW key PROVE IsReport(p, t, Scope(since, key, {"bucket"}), {"bucket"}, Timeseries(p, s, since, key))
  <2> DEFINE f == Scope(since, key, {"bucket"})
             grouping == {"bucket"}
  <2>1. IsFilter(f) /\ Fits(f, grouping)
    BY ScopeFilter DEF Fits
  <2>2. Timeseries(p, s, since, key) = Priced(p, Snapshot(s, f, grouping), grouping)
    BY DEF Timeseries, TimeseriesReportSnapshot
  <2> HIDE DEF f, grouping
  <2>3. IsReport(p, t, f, grouping, Priced(p, Snapshot(s, f, grouping), grouping))
    BY <2>1, PricedIs
  <2> QED BY <2>2, <2>3, Zenon DEF f, grouping
<1>4. IsReport(p, t, Scope(since, Blank, {"key"}), {"key"}, KeysReport(p, s, since))
  <2> DEFINE f == Scope(since, Blank, {"key"})
             grouping == {"key"}
  <2>1. IsFilter(f) /\ Fits(f, grouping)
    BY ScopeFilter DEF Fits
  <2>2. KeysReport(p, s, since) = Priced(p, Snapshot(s, f, grouping), grouping)
    BY DEF KeysReport, KeysReportSnapshot
  <2> HIDE DEF f, grouping
  <2>3. IsReport(p, t, f, grouping, Priced(p, Snapshot(s, f, grouping), grouping))
    BY <2>1, PricedIs
  <2> QED BY <2>2, <2>3, Zenon DEF f, grouping
<1> QED BY <1>1, <1>2, <1>3, <1>4

\* The scope of a report does not depend on what its buckets keep apart.
LEMMA SameScope ==
  ASSUME NEW t, NEW since, NEW key, NEW a, NEW b
  PROVE  InScope(t, Scope(since, key, a)) = InScope(t, Scope(since, key, b))
<1>1. /\ InScope(t, Scope(since, key, a)) = {r \in DOMAIN t : r.at >= since /\ key \in {Blank, KeyName(r)}}
      /\ InScope(t, Scope(since, key, b)) = {r \in DOMAIN t : r.at >= since /\ key \in {Blank, KeyName(r)}}
  BY ScopeFilter
<1> QED BY <1>1, Zenon

\* Each report of the console adds up to the summary, and each report of a key to
\* the row of the key.
LEMMA PartsAgree ==
  ASSUME NEW p, Rated(p), NEW t, Table(t), NEW s, Seen(s, t), NEW since
  PROVE  /\ Agree(Inside(t), Models(p, s, since, Blank), Summary(p, s, since))
         /\ Agree(Inside(t), KeysReport(p, s, since), Summary(p, s, since))
         /\ Agree(Inside(t), Timeseries(p, s, since, Blank), Summary(p, s, since))
         /\ Overview(p, s, since).whole.usage.requests = Add(Summary(p, s, since).cost.counts)
         /\ \A g \in DOMAIN KeysReport(p, s, since) :
              /\ Agree(Inside(t), Models(p, s, since, g.key), KeysReport(p, s, since)[g])
              /\ Agree(Inside(t), Timeseries(p, s, since, g.key), KeysReport(p, s, since)[g])
<1> DEFINE sum == Summary(p, s, since)
           keys == KeysReport(p, s, since)
           S == InScope(t, Scope(since, Blank, {}))
<1>1. IsRowOf(p, t, sum, S)
  BY Parts
<1>2. InScope(t, Scope(since, Blank, {"key"})) = S /\ InScope(t, Scope(since, Blank, {"bucket"})) = S
  BY SameScope
<1>3. /\ IsReport(p, t, Scope(since, Blank, {}), {"model"}, Models(p, s, since, Blank))
      /\ IsReport(p, t, Scope(since, Blank, {"bucket"}), {"bucket"}, Timeseries(p, s, since, Blank))
      /\ IsReport(p, t, Scope(since, Blank, {"key"}), {"key"}, keys)
  BY Parts
<1> HIDE DEF sum, keys
<1>4. Agree(Inside(t), Models(p, s, since, Blank), sum)
  BY <1>1, <1>3, ReportAgrees
<1>5. Agree(Inside(t), keys, sum)
  <2>1. IsRowOf(p, t, sum, InScope(t, Scope(since, Blank, {"key"})))
    BY <1>1, <1>2, Zenon
  <2> QED BY <1>3, <2>1, ReportAgrees
<1>6. Agree(Inside(t), Timeseries(p, s, since, Blank), sum)
  <2>1. IsRowOf(p, t, sum, InScope(t, Scope(since, Blank, {"bucket"})))
    BY <1>1, <1>2, Zenon
  <2> QED BY <1>3, <2>1, ReportAgrees
<1>7. Overview(p, s, since).whole.usage.requests = Add(sum.cost.counts)
  <2>1. Overview(p, s, since).whole = sum
    BY DEF Overview, OverviewReportSnapshot, sum, Summary, SummaryReportSnapshot
  <2>2. sum.cost.counts = [c \in Confidences |-> sum.cost.counts[c]]
    BY WholeCounts, Zenon DEF sum, Summary
  <2>3. S \in SUBSET DOMAIN t
    BY ScopeIs
  <2>4. PICK n : n = sum.cost.counts
    OBVIOUS
  <2>5. \A c \in Confidences : n[c] = Total(t, ColText(t, c), S)
    BY <1>1, <2>4, Zenon DEF IsRowOf
  <2>6. n = [c \in Confidences |-> n[c]]
    BY <2>2, <2>4
  <2> HIDE DEF S
  <2>7. Add(n) = Total(t, ColOne(t), S)
    BY <2>3, <2>5, <2>6, CountsAddUp
  <2>8. sum.usage.requests = Total(t, ColOne(t), S)
    <3>1. "requests" \in UsageFields /\ ColUsage(t, "requests") = ColOne(t) /\ sum.usage.requests = sum.usage["requests"]
      BY DEF UsageFields, ColUsage
    <3> QED BY <1>1, <3>1, Zenon DEF IsRowOf
  <2> QED BY <2>1, <2>4, <2>7, <2>8, Zenon
<1>8. ASSUME NEW g \in DOMAIN keys
      PROVE  /\ Agree(Inside(t), Models(p, s, since, g.key), keys[g])
             /\ Agree(Inside(t), Timeseries(p, s, since, g.key), keys[g])
  <2> DEFINE f == Scope(since, Blank, {"key"})
  <2>1. g \in Groups(t, f, {"key"}) /\ IsRowOf(p, t, keys[g], Members(t, f, {"key"}, g))
    BY <1>3, Zenon DEF IsReport
  <2>2. /\ Members(t, f, {"key"}, g) = InScope(t, Scope(since, g.key, {}))
        /\ Members(t, f, {"key"}, g) = InScope(t, Scope(since, g.key, {"bucket"}))
    BY <2>1, KeyScope
  <2>3. /\ IsRowOf(p, t, keys[g], InScope(t, Scope(since, g.key, {})))
        /\ IsRowOf(p, t, keys[g], InScope(t, Scope(since, g.key, {"bucket"})))
    BY <2>1, <2>2, Zenon
  <2>4. /\ IsReport(p, t, Scope(since, g.key, {}), {"model"}, Models(p, s, since, g.key))
        /\ IsReport(p, t, Scope(since, g.key, {"bucket"}), {"bucket"}, Timeseries(p, s, since, g.key))
    BY Parts
  <2> QED BY <2>3, <2>4, ReportAgrees
<1> QED BY <1>4, <1>5, <1>6, <1>7, <1>8, Zenon DEF sum, keys

\* Whatever a report groups by, its rows add up to the summary: requests, usage,
\* confidences and, with ReasoningIsInside, amounts.
THEOREM PartsAddUp == Spec => []PartsMakeTheWhole
<1>1. ReportsInv => PartsMakeTheWhole
  <2> SUFFICES ASSUME ReportsInv, Answered, NEW since \in Sinces
      PROVE LET s == reader.seen
                sum == Summary(prices, s, since)
                keys == KeysReport(prices, s, since)
                Same(report, row) ==
                  /\ \A f \in {"requests", "failed", "input", "output"} : Totals(report, f) = row.usage[f]
                  /\ \A c \in Confidences : CountOf(report, c) = row.cost.counts[c]
                  /\ ReasoningIsInside => AmountOf(report) = row.cost.amount
            IN  /\ \A report \in {Models(prices, s, since, Blank), keys, Timeseries(prices, s, since, Blank)} :
                     Same(report, sum)
                /\ Overview(prices, s, since).whole.usage.requests = Add(sum.cost.counts)
                /\ \A g \in DOMAIN keys :
                     /\ Same(Models(prices, s, since, g.key), keys[g])
                     /\ Same(Timeseries(prices, s, since, g.key), keys[g])
    BY Zenon DEF PartsMakeTheWhole
  <2>1. Rated(prices) /\ Table(reader.tx) /\ Seen(reader.seen, reader.tx) /\ (ReasoningIsInside <=> Inside(reader.tx))
    BY AnsweredMeans
  <2> DEFINE s == reader.seen
             sum == Summary(prices, s, since)
             keys == KeysReport(prices, s, since)
             Same(report, row) ==
               /\ \A f \in {"requests", "failed", "input", "output"} : Totals(report, f) = row.usage[f]
               /\ \A c \in Confidences : CountOf(report, c) = row.cost.counts[c]
               /\ ReasoningIsInside => AmountOf(report) = row.cost.amount
  <2>2. /\ Agree(Inside(reader.tx), Models(prices, s, since, Blank), sum)
        /\ Agree(Inside(reader.tx), keys, sum)
        /\ Agree(Inside(reader.tx), Timeseries(prices, s, since, Blank), sum)
        /\ Overview(prices, s, since).whole.usage.requests = Add(sum.cost.counts)
        /\ \A g \in DOMAIN keys :
              /\ Agree(Inside(reader.tx), Models(prices, s, since, g.key), keys[g])
              /\ Agree(Inside(reader.tx), Timeseries(prices, s, since, g.key), keys[g])
    BY <2>1, PartsAgree
  <2>3. ASSUME NEW report, NEW row, Agree(Inside(reader.tx), report, row) PROVE Same(report, row)
    BY <2>1, <2>3, Zenon DEF Agree
  <2> HIDE DEF s, sum, keys, Same
  <2>4. Same(Models(prices, s, since, Blank), sum) /\ Same(keys, sum) /\ Same(Timeseries(prices, s, since, Blank), sum)
    BY <2>2, <2>3
  <2>5. \A report \in {Models(prices, s, since, Blank), keys, Timeseries(prices, s, since, Blank)} : Same(report, sum)
    BY <2>4
  <2>6. \A g \in DOMAIN keys :
           /\ Same(Models(prices, s, since, g.key), keys[g])
           /\ Same(Timeseries(prices, s, since, g.key), keys[g])
    BY <2>2, <2>3
  <2> QED BY <2>2, <2>5, <2>6, Zenon DEF s, sum, keys, Same
<1> QED BY <1>1, ReportsInvariant, PTL

-----------------------------------------------------------------------------
(* A total is complete when each of its requests is                         *)

(* What CostResult looks at, piece by piece. *)
Gaps        == {"request_only", "missing_usage", "unsupported", "conflict"}
Media(p, I) == {b \in I : HasMultimodal(p, b.cell.model)}
Billed(p, T) == {b \in T : BilledAsText(p, b)}
Fallback(p, I)  == {b.cell.model : b \in I \ Media(p, I)}
Tokenised(p, I) == {b.cell.model : b \in {c \in Media(p, I) : HasImageTokenPricing(p, c.cell.model)}}
ImageText(T, m) == {b \in T : b.image /\ b.cell.model = m}
ImageImage(I, m) == {b \in I : b.cell.model = m}
TextShort(text, T, m) == Shortfall(Add([b \in ImageText(T, m) |-> Reported(text[b])]),
                                   Add([b \in ImageText(T, m) |-> text[b].withUsage]))
ImageShort(images, I, m) == Shortfall(Add([b \in ImageImage(I, m) |-> Reported(images[b])]),
                                      Add([b \in ImageImage(I, m) |-> images[b].withUsage]))
Missing(p, text, images, T, I) == Add([m \in Fallback(p, I) |-> TextShort(text, T, m)])
                                  + Add([m \in Tokenised(p, I) |-> ImageShort(images, I, m)])
TextPriced(p, T) == {b.cell.model : b \in {c \in Billed(p, T) : HasTextPricing(p, c.cell.model)}}
Unpriced(p, text, images, T, I) ==
  \/ \E c \in Billed(p, T) : ~HasTextPricing(p, c.cell.model) /\ TextUsed(text[c])
  \/ \E c \in I \ Media(p, I) : ImageUsed(images[c]) /\ c.cell.model \notin TextPriced(p, T)
  \/ \E c \in Media(p, I) : ImageCosts(p, c, images[c]).unpriced
Defaulted(p, images, I) == \E b \in Media(p, I) :
  HasPerImagePricing(p, b.cell.model) /\ images[b].outputs > 0 /\ NormalizeImageSize(b.size).defaulted

\* A result is complete when none of the reasons for a partial one applies.
LEMMA StateIs ==
  ASSUME NEW p, NEW text, NEW images, NEW T, NEW I
  PROVE  /\ CostResult(p, text, images, T, I).state \in {"complete", "partial"}
         /\ CostResult(p, text, images, T, I).state = "complete" <=>
              /\ \A c \in Gaps : ~(CostResult(p, text, images, T, I).counts[c] > 0)
              /\ ~(Missing(p, text, images, T, I) > 0)
              /\ ~Unpriced(p, text, images, T, I)
              /\ ~\E b \in I : images[b].noOutput > 0
              /\ ~Defaulted(p, images, I)
<1> DEFINE res == CostResult(p, text, images, T, I)
           counts == [c \in Confidences |-> Add([b \in T |-> text[b].counts[c]])]
           models == {b.cell.model : b \in {c \in Billed(p, T) : ~HasTextPricing(p, c.cell.model) /\ TextUsed(text[c])}}
                  \cup {b.cell.model : b \in {c \in I \ Media(p, I) : ImageUsed(images[c]) /\ c.cell.model \notin TextPriced(p, T)}}
                  \cup {b.cell.model : b \in {c \in Media(p, I) : ImageCosts(p, c, images[c]).unpriced}}
           reasons == {c \in Gaps : counts[c] > 0}
             \cup {c \in {"missing_usage"} : Missing(p, text, images, T, I) > 0}
             \cup {c \in {"unpriced_model"} : models # {}}
             \cup {c \in {"image_count_missing"} : \E b \in I : images[b].noOutput > 0}
             \cup {c \in {"image_size_defaulted"} : Defaulted(p, images, I)}
<1>1. res.counts = counts
  BY DEF CostResult
<1>2. res.state = IF reasons = {} THEN "complete" ELSE "partial"
  <2>1. res.state = IF res.reasons = {} THEN "complete" ELSE "partial"
    BY DEF CostResult
  <2>2. res.reasons = reasons
    BY DEF CostResult, Gaps, Missing, Fallback, Tokenised, TextShort, ImageShort, ImageText, ImageImage,
           Media, Billed, TextPriced, Defaulted
  <2> QED BY <2>1, <2>2, Zenon
<1>3. models # {} <=> Unpriced(p, text, images, T, I)
  BY DEF Unpriced
<1> HIDE DEF models, counts, res
<1>4. reasons = {} <=>
              /\ \A c \in Gaps : ~(counts[c] > 0)
              /\ ~(Missing(p, text, images, T, I) > 0)
              /\ ~Unpriced(p, text, images, T, I)
              /\ ~\E b \in I : images[b].noOutput > 0
              /\ ~Defaulted(p, images, I)
  BY <1>3
<1> HIDE DEF reasons
<1>5. res.state \in {"complete", "partial"} /\ (res.state = "complete" <=> reasons = {})
  BY <1>2
<1> QED BY <1>1, <1>4, <1>5, Zenon DEF res

(* What is missing of a single request. *)
TextHas(r)  == Billable(r) + r.output + r.reasoning > 0
ImageHas(r) == \E d \in Dimensions : Dimension(r, d) > 0
ImageHasAny(r) == ImageOf(r).inputs > 0 \/ ImageOf(r).outputs > 0 \/ ImageHas(r)
Counted(c)  == c \in {"observed", "side_channel"}

ImageUnpriced(p, r) ==
  LET m == EffectiveModel(r) i == ImageOf(r) IN
  \/ \E d \in PricedDimensions(p, m) : Dimension(r, d) > 0 /\ ~(DimensionRate(p, m, d) > 0)
  \/ HasPerImagePricing(p, m) /\ i.inputs > 0 /\ InRates(p, m) = {}
  \/ HasPerImagePricing(p, m) /\ i.outputs > 0 /\ OutRates(p, m, i.size) = {}
  \/ ImageHasAny(r) /\ ~HasImageTokenPricing(p, m) /\ ~HasPerImagePricing(p, m)

GapText(p, r)   == IsImage(r) /\ ~HasMultimodal(p, EffectiveModel(r)) /\ ~TextHas(r)
GapTokens(p, r) == /\ IsImage(r) /\ HasMultimodal(p, EffectiveModel(r)) /\ HasImageTokenPricing(p, EffectiveModel(r))
                   /\ Counted(ImageConfidence(r)) /\ ~ImageHas(r)
GapPrice(p, r)  ==
  \/ BilledText(p, r) /\ ~HasTextPricing(p, EffectiveModel(r)) /\ TextHas(r)
  \/ IsImage(r) /\ BilledText(p, r) /\ ~HasTextPricing(p, EffectiveModel(r)) /\ ImageHasAny(r)
  \/ ~BilledText(p, r) /\ ImageUnpriced(p, r)
GapOutput(r)    == /\ IsImage(r) /\ r.status \in 200..399 /\ r.mode # "request_only"
                   /\ ImageOf(r).outputs <= 0
GapSize(p, r)   == /\ ~BilledText(p, r) /\ HasPerImagePricing(p, EffectiveModel(r)) /\ ImageOf(r).outputs > 0
                   /\ NormalizeImageSize(ImageOf(r).size).defaulted
RowComplete(p, r) ==
  /\ Counted(TextConfidence(r)) /\ ~GapText(p, r) /\ ~GapTokens(p, r)
  /\ ~GapPrice(p, r) /\ ~GapOutput(r) /\ ~GapSize(p, r)

\* The rows behind the text buckets of a group are the rows of the group.
LEMMA TextMembers ==
  ASSUME NEW t, Table(t), NEW f, NEW grouping, Fits(f, grouping), NEW g
  PROVE  /\ \A b \in TextOf(t, f, grouping, g) :
              /\ IsTextBucket(t, TextBuckets(t, f)[b], TextFiber(t, f, b))
              /\ TextFiber(t, f, b) \subseteq Members(t, f, grouping, g) /\ TextFiber(t, f, b) # {}
         /\ \A r \in Members(t, f, grouping, g) :
              TextCell(r, f) \in TextOf(t, f, grouping, g) /\ r \in TextFiber(t, f, TextCell(r, f))
<1>1. ASSUME NEW b \in TextOf(t, f, grouping, g)
      PROVE  /\ IsTextBucket(t, TextBuckets(t, f)[b], TextFiber(t, f, b))
             /\ TextFiber(t, f, b) \subseteq Members(t, f, grouping, g) /\ TextFiber(t, f, b) # {}
  <2>1. b \in DOMAIN TextBuckets(t, f) /\ CostGroup(b.cell, grouping) = g
    BY DEF TextOf
  <2>2. IsTextBucket(t, TextBuckets(t, f)[b], TextFiber(t, f, b))
    BY <2>1, TextBucketsAre
  <2>3. b \in {TextCell(r, f) : r \in InScope(t, f)}
    BY <2>1, TextBucketsAre, Zenon
  <2>4. TextFiber(t, f, b) # {}
    BY <2>3 DEF TextFiber
  <2>5. TextFiber(t, f, b) \subseteq Members(t, f, grouping, g)
    BY <2>1, CellGroup DEF TextFiber, Members
  <2> QED BY <2>2, <2>4, <2>5
<1>2. ASSUME NEW r \in Members(t, f, grouping, g)
      PROVE  TextCell(r, f) \in TextOf(t, f, grouping, g) /\ r \in TextFiber(t, f, TextCell(r, f))
  <2>1. r \in InScope(t, f) /\ GroupOf(r, grouping) = g
    BY DEF Members
  <2>2. TextCell(r, f) \in {TextCell(x, f) : x \in InScope(t, f)}
    BY <2>1
  <2>3. TextCell(r, f) \in DOMAIN TextBuckets(t, f)
    BY <2>2, TextBucketsAre, Zenon
  <2> QED BY <2>1, <2>3, CellGroup DEF TextOf, TextFiber
<1> QED BY <1>1, <1>2

\* The rows behind the image buckets of a group are its image requests.
LEMMA ImageMembers ==
  ASSUME NEW t, Table(t), NEW f, NEW grouping, Fits(f, grouping), NEW g
  PROVE  /\ \A b \in ImagesOf(t, f, grouping, g) :
              /\ IsImageBucket(t, ImageBuckets(t, f)[b], ImageFiber(t, f, b))
              /\ ImageFiber(t, f, b) \subseteq Members(t, f, grouping, g) /\ ImageFiber(t, f, b) # {}
         /\ \A r \in Members(t, f, grouping, g) : IsImage(r) =>
              ImageCell(r, f) \in ImagesOf(t, f, grouping, g) /\ r \in ImageFiber(t, f, ImageCell(r, f))
<1>1. ASSUME NEW b \in ImagesOf(t, f, grouping, g)
      PROVE  /\ IsImageBucket(t, ImageBuckets(t, f)[b], ImageFiber(t, f, b))
             /\ ImageFiber(t, f, b) \subseteq Members(t, f, grouping, g) /\ ImageFiber(t, f, b) # {}
  <2>1. b \in DOMAIN ImageBuckets(t, f) /\ CostGroup(b.cell, grouping) = g
    BY DEF ImagesOf
  <2>2. IsImageBucket(t, ImageBuckets(t, f)[b], ImageFiber(t, f, b))
    BY <2>1, ImageBucketsAre
  <2>3. b \in {ImageCell(r, f) : r \in ImagesInScope(t, f)}
    BY <2>1, ImageBucketsAre, Zenon
  <2>4. ImageFiber(t, f, b) # {}
    BY <2>3 DEF ImageFiber
  <2>5. ImageFiber(t, f, b) \subseteq Members(t, f, grouping, g)
    BY <2>1, CellGroup DEF ImageFiber, ImagesInScope, Members
  <2> QED BY <2>2, <2>4, <2>5
<1>2. ASSUME NEW r \in Members(t, f, grouping, g), IsImage(r)
      PROVE  ImageCell(r, f) \in ImagesOf(t, f, grouping, g) /\ r \in ImageFiber(t, f, ImageCell(r, f))
  <2>1. r \in ImagesInScope(t, f) /\ GroupOf(r, grouping) = g
    BY <1>2 DEF Members, ImagesInScope
  <2>2. ImageCell(r, f) \in {ImageCell(x, f) : x \in ImagesInScope(t, f)}
    BY <2>1
  <2>3. ImageCell(r, f) \in DOMAIN ImageBuckets(t, f)
    BY <2>2, ImageBucketsAre, Zenon
  <2> QED BY <1>2, <2>1, <2>3, CellGroup DEF ImagesOf, ImageFiber
<1> QED BY <1>1, <1>2

\* The rows of a bucket have its model, kind and size.
LEMMA FiberRows ==
  ASSUME NEW t, Table(t), NEW f, NEW b
  PROVE  /\ TextFiber(t, f, b) \in SUBSET DOMAIN t /\ ImageFiber(t, f, b) \in SUBSET DOMAIN t
         /\ \A r \in TextFiber(t, f, b) : /\ b.cell.model = EffectiveModel(r) /\ b.image = IsImage(r)
                                          /\ \A p : BilledAsText(p, b) <=> BilledText(p, r)
         /\ \A r \in ImageFiber(t, f, b) : IsImage(r) /\ b.cell.model = EffectiveModel(r) /\ b.size = ImageOf(r).size
<1>1. TextFiber(t, f, b) \in SUBSET DOMAIN t /\ ImageFiber(t, f, b) \in SUBSET DOMAIN t
  BY ScopeIs DEF TextFiber, ImageFiber
<1>2. ASSUME NEW r \in TextFiber(t, f, b)
      PROVE  b.cell.model = EffectiveModel(r) /\ b.image = IsImage(r) /\ \A p : BilledAsText(p, b) <=> BilledText(p, r)
  <2>1. b.cell.model = EffectiveModel(r) /\ b.image = IsImage(r)
    BY CellIs DEF TextFiber
  <2> QED BY <2>1, Zenon DEF BilledAsText, BilledText
<1>3. ASSUME NEW r \in ImageFiber(t, f, b)
      PROVE  IsImage(r) /\ b.cell.model = EffectiveModel(r) /\ b.size = ImageOf(r).size
  BY CellIs DEF ImageFiber, ImagesInScope
<1> QED BY <1>1, <1>2, <1>3

\* A total of flags is above zero when one of them is set.
LEMMA SomeTotal ==
  ASSUME NEW t, Table(t), NEW e \in Column(t), NEW B \in SUBSET DOMAIN t, \A r \in DOMAIN t : e[r] \in Nat
  PROVE  Total(t, e, B) \in Nat /\ (Total(t, e, B) > 0 <=> \E r \in B : e[r] > 0)
<1>1. \A r \in B : e[r] >= 0
  OBVIOUS
<1> QED BY <1>1, TotalSign

\* What the flags of the rows say.
LEMMA FlagNat ==
  ASSUME NEW t, Table(t)
  PROVE  /\ \A r \in DOMAIN t : ColOne(t)[r] \in Nat /\ ColTextUsed(t)[r] \in Nat /\ ColImageUsed(t)[r] \in Nat
                                /\ ColNoOutput(t)[r] \in Nat
         /\ \A c \in Confidences : \A r \in DOMAIN t : ColText(t, c)[r] \in Nat /\ ColImage(t, c)[r] \in Nat
         /\ \A r \in DOMAIN t : /\ ColTextUsed(t)[r] > 0 <=> TextHas(r)
                                /\ ColImageUsed(t)[r] > 0 <=> ImageHas(r)
                                /\ IsImage(r) => (ColNoOutput(t)[r] > 0 <=> GapOutput(r))
         /\ \A c \in Confidences : \A r \in DOMAIN t : ColText(t, c)[r] > 0 <=> TextConfidence(r) = c
<1>1. \A x \in BOOLEAN : Flag(x) \in Nat /\ (Flag(x) > 0 <=> x)
  BY DEF Flag
<1>2. \A r \in DOMAIN t : /\ ColOne(t)[r] = 1 /\ ColTextUsed(t)[r] = Flag(TextHas(r)) /\ ColImageUsed(t)[r] = Flag(ImageHas(r))
                          /\ TextHas(r) \in BOOLEAN /\ ImageHas(r) \in BOOLEAN
  BY DEF ColOne, ColTextUsed, ColImageUsed, TextHas, ImageHas
<1>3. ASSUME NEW r \in DOMAIN t
      PROVE  ColNoOutput(t)[r] \in Nat /\ (IsImage(r) => (ColNoOutput(t)[r] > 0 <=> GapOutput(r)))
  <2> DEFINE x == r.status \in 200..399 /\ r.mode # "request_only" /\ ImageOf(r).outputs <= 0
  <2>1. ColNoOutput(t)[r] = Flag(x) /\ x \in BOOLEAN /\ (IsImage(r) => (x <=> GapOutput(r)))
    <3>1. ColNoOutput(t)[r] = Flag(x)
      BY Zenon DEF ColNoOutput
    <3>2. IsImage(r) => (x <=> GapOutput(r))
      BY Zenon DEF GapOutput
    <3>3. x \in BOOLEAN
      BY Zenon
    <3> QED BY <3>1, <3>2, <3>3, Zenon
  <2> HIDE DEF x
  <2> QED BY <1>1, <2>1
<1>4. \A c \in Confidences : \A r \in DOMAIN t : /\ ColText(t, c)[r] = Flag(TextConfidence(r) = c)
                                                 /\ ColImage(t, c)[r] = Flag(ImageConfidence(r) = c)
                                                 /\ (TextConfidence(r) = c) \in BOOLEAN /\ (ImageConfidence(r) = c) \in BOOLEAN
  BY DEF ColText, ColImage
<1>5. \A r \in DOMAIN t : /\ ColOne(t)[r] \in Nat /\ ColTextUsed(t)[r] \in Nat /\ ColImageUsed(t)[r] \in Nat
                          /\ ColTextUsed(t)[r] > 0 <=> TextHas(r)
                          /\ ColImageUsed(t)[r] > 0 <=> ImageHas(r)
  BY <1>1, <1>2
<1>6. \A c \in Confidences : \A r \in DOMAIN t : /\ ColText(t, c)[r] \in Nat /\ ColImage(t, c)[r] \in Nat
                                                 /\ ColText(t, c)[r] > 0 <=> TextConfidence(r) = c
  BY <1>1, <1>4
<1> QED BY <1>3, <1>5, <1>6

\* No confidence of a gap is counted when no request of the group has one.
LEMMA CountGap ==
  ASSUME NEW p, NEW t, Table(t), NEW f, NEW grouping, Fits(f, grouping), NEW g
  PROVE  (\A c \in Gaps : ~(Result(p, t, f, grouping, g).counts[c] > 0))
           <=> \A r \in Members(t, f, grouping, g) : Counted(TextConfidence(r))
<1> DEFINE M == Members(t, f, grouping, g)
<1>1. M \in SUBSET DOMAIN t
  BY ScopeIs DEF Members
<1>2. Gaps \subseteq Confidences /\ \A r : ~Counted(TextConfidence(r)) <=> TextConfidence(r) \in Gaps
  <2>1. \A r : TextConfidence(r) \in Confidences
    BY ConfidenceIs
  <2> QED BY <2>1 DEF Gaps, Counted, Confidences
<1>3. ASSUME NEW c \in Gaps
      PROVE  Result(p, t, f, grouping, g).counts[c] > 0 <=> \E r \in M : TextConfidence(r) = c
  <2>1. c \in Confidences
    BY <1>2
  <2>2. Result(p, t, f, grouping, g).counts[c] = Total(t, ColText(t, c), M)
    BY <2>1, GroupCounts
  <2>3. ColText(t, c) \in Column(t) /\ \A r \in DOMAIN t : ColText(t, c)[r] \in Nat /\ (ColText(t, c)[r] > 0 <=> TextConfidence(r) = c)
    BY <2>1, FlagColumns, FlagNat
  <2>4. Total(t, ColText(t, c), M) > 0 <=> \E r \in M : ColText(t, c)[r] > 0
    BY <1>1, <2>3, SomeTotal
  <2> QED BY <1>1, <2>2, <2>3, <2>4
<1> QED BY <1>2, <1>3

\* What an image bucket has is what one of its requests has.
LEMMA ImageBucketHas ==
  ASSUME NEW t, Table(t), NEW B \in SUBSET DOMAIN t, NEW u, IsImageBucket(t, u, B), \A r \in B : IsImage(r)
  PROVE  /\ u.inputs \in Nat /\ u.outputs \in Nat /\ u.tokens \in [Dimensions -> Nat]
         /\ u.inputs > 0 <=> \E r \in B : ImageOf(r).inputs > 0
         /\ u.outputs > 0 <=> \E r \in B : ImageOf(r).outputs > 0
         /\ \A d \in Dimensions : u.tokens[d] > 0 <=> \E r \in B : Dimension(r, d) > 0
         /\ u.noOutput > 0 <=> \E r \in B : GapOutput(r)
         /\ ImageUsed(u) <=> \E r \in B : ImageHasAny(r)
<1>1. /\ u.inputs = Total(t, ColInputs(t), B) /\ u.outputs = Total(t, ColOutputs(t), B)
      /\ u.tokens = [d \in Dimensions |-> Total(t, ColDimension(t, d), B)]
      /\ u.noOutput = Total(t, ColNoOutput(t), B)
  BY Zenon DEF IsImageBucket
<1>2. u.inputs \in Nat /\ (u.inputs > 0 <=> \E r \in B : ImageOf(r).inputs > 0)
  <2>1. ColInputs(t) \in Column(t) /\ \A r \in DOMAIN t : ColInputs(t)[r] \in Nat
    BY ImageColumns
  <2>2. \A r \in B : ColInputs(t)[r] = ImageOf(r).inputs
    BY DEF ColInputs
  <2>3. Total(t, ColInputs(t), B) \in Nat /\ (Total(t, ColInputs(t), B) > 0 <=> \E r \in B : ColInputs(t)[r] > 0)
    BY <2>1, SomeTotal
  <2> QED BY <1>1, <2>2, <2>3
<1>3. u.outputs \in Nat /\ (u.outputs > 0 <=> \E r \in B : ImageOf(r).outputs > 0)
  <2>1. ColOutputs(t) \in Column(t) /\ \A r \in DOMAIN t : ColOutputs(t)[r] \in Nat
    BY ImageColumns
  <2>2. \A r \in B : ColOutputs(t)[r] = ImageOf(r).outputs
    BY DEF ColOutputs
  <2>3. Total(t, ColOutputs(t), B) \in Nat /\ (Total(t, ColOutputs(t), B) > 0 <=> \E r \in B : ColOutputs(t)[r] > 0)
    BY <2>1, SomeTotal
  <2> QED BY <1>1, <2>2, <2>3
<1>4. ASSUME NEW d \in Dimensions
      PROVE  u.tokens[d] \in Nat /\ (u.tokens[d] > 0 <=> \E r \in B : Dimension(r, d) > 0)
  <2>1. ColDimension(t, d) \in Column(t) /\ \A r \in DOMAIN t : ColDimension(t, d)[r] \in Nat
    BY ImageColumns
  <2>2. \A r \in B : ColDimension(t, d)[r] = Dimension(r, d)
    BY DEF ColDimension
  <2>3. Total(t, ColDimension(t, d), B) \in Nat /\ (Total(t, ColDimension(t, d), B) > 0 <=> \E r \in B : ColDimension(t, d)[r] > 0)
    BY <2>1, SomeTotal
  <2>4. u.tokens[d] = Total(t, ColDimension(t, d), B)
    BY <1>1
  <2> QED BY <2>2, <2>3, <2>4
<1>5. u.tokens \in [Dimensions -> Nat]
  <2>1. \A d \in Dimensions : Total(t, ColDimension(t, d), B) \in Nat
    BY <1>1, <1>4
  <2> QED BY <1>1, <2>1
<1>6. u.noOutput > 0 <=> \E r \in B : GapOutput(r)
  <2>1. ColNoOutput(t) \in Column(t) /\ \A r \in DOMAIN t : ColNoOutput(t)[r] \in Nat
    BY FlagColumns, FlagNat
  <2>2. \A r \in B : ColNoOutput(t)[r] > 0 <=> GapOutput(r)
    BY FlagNat
  <2>3. Total(t, ColNoOutput(t), B) > 0 <=> \E r \in B : ColNoOutput(t)[r] > 0
    BY <2>1, SomeTotal
  <2> QED BY <1>1, <2>2, <2>3
<1>7. ImageUsed(u) <=> \E r \in B : ImageHasAny(r)
  <2>1. ImageUsed(u) <=> u.inputs > 0 \/ u.outputs > 0 \/ \E d \in Dimensions : u.tokens[d] > 0
    <3>1. PICK i \in Nat, o \in Nat : i = u.inputs /\ o = u.outputs
      BY <1>2, <1>3
    <3>2. i + o > 0 <=> i > 0 \/ o > 0
      OBVIOUS
    <3> QED BY <3>1, <3>2, Zenon DEF ImageUsed
  <2>2. (\E d \in Dimensions : u.tokens[d] > 0) <=> \E r \in B : ImageHas(r)
    BY <1>4 DEF ImageHas
  <2> QED BY <1>2, <1>3, <2>1, <2>2, Zenon DEF ImageHasAny
<1> QED BY <1>2, <1>3, <1>4, <1>5, <1>6, <1>7

\* An image bucket has something without a price when one of its requests has.
LEMMA ImageBucketUnpriced ==
  ASSUME NEW p, Rated(p), NEW t, Table(t), NEW B \in SUBSET DOMAIN t, NEW u, IsImageBucket(t, u, B),
         NEW b, HasMultimodal(p, b.cell.model),
         \A r \in B : IsImage(r) /\ b.cell.model = EffectiveModel(r) /\ b.size = ImageOf(r).size
  PROVE  ImageCosts(p, b, u).unpriced <=> \E r \in B : ImageUnpriced(p, r)
<1>1. PICK m, size : m = b.cell.model /\ size = b.size
  OBVIOUS
<1>2. PICK i \in Nat, o \in Nat, tokens \in [Dimensions -> Nat] : i = u.inputs /\ o = u.outputs /\ tokens = u.tokens
  BY ImageBucketHas
<1> DEFINE D == PricedDimensions(p, m)
           price(d) == CostDimension(p, m, "image", d[1], d[2], tokens[d])
           images == IF HasPerImagePricing(p, m) THEN CostImages(p, m, i, o, size) ELSE Known(0)
<1>3. ImageCosts(p, b, u).unpriced <=>
        \/ \E d \in D : ~price(d).known
        \/ ~images.known
        \/ ImageUsed(u) /\ ~HasImageTokenPricing(p, m) /\ ~HasPerImagePricing(p, m)
  <2>1. ImageCosts(p, b, u).unpriced =
        \/ \E d \in PricedDimensions(p, b.cell.model) : ~CostDimension(p, b.cell.model, "image", d[1], d[2], u.tokens[d]).known
        \/ ~(IF HasPerImagePricing(p, b.cell.model)
             THEN CostImages(p, b.cell.model, u.inputs, u.outputs, b.size) ELSE Known(0)).known
        \/ ImageUsed(u) /\ ~HasImageTokenPricing(p, b.cell.model) /\ ~HasPerImagePricing(p, b.cell.model)
    BY DEF ImageCosts, PricedDimensions
  <2> QED BY <1>1, <1>2, <2>1, Zenon
<1>4. D \subseteq Dimensions
  BY FinitePriced
<1> HIDE DEF D
<1>5. ASSUME NEW d \in D
      PROVE  ~price(d).known <=> \E r \in B : Dimension(r, d) > 0 /\ ~(DimensionRate(p, m, d) > 0)
  <2>1. d \in Dimensions /\ tokens[d] \in Nat
    BY <1>4
  <2>2. price(d).known <=> (tokens[d] = 0 \/ DimensionRate(p, m, d) > 0)
    BY <2>1, CostDimensionIs
  <2>3. tokens[d] > 0 <=> \E r \in B : Dimension(r, d) > 0
    BY <1>2, <2>1, ImageBucketHas
  <2> HIDE DEF price
  <2> QED BY <2>1, <2>2, <2>3
<1>6. ~images.known <=> HasPerImagePricing(p, m) /\ \E r \in B :
        \/ ImageOf(r).inputs > 0 /\ InRates(p, m) = {}
        \/ ImageOf(r).outputs > 0 /\ OutRates(p, m, size) = {}
  <2>1. CASE ~HasPerImagePricing(p, m)
    BY <2>1 DEF Known
  <2>2. CASE HasPerImagePricing(p, m)
    <3>0. HasMultimodal(p, m)
      BY <1>1, Zenon
    <3>1. CostImages(p, m, i, o, size).known
            <=> (i = 0 \/ InRates(p, m) # {}) /\ (o = 0 \/ OutRates(p, m, size) # {})
      BY ONLY <3>0, Rated(p), i \in Nat, o \in Nat, CostImagesIs
    <3>2. (i > 0 <=> \E r \in B : ImageOf(r).inputs > 0) /\ (o > 0 <=> \E r \in B : ImageOf(r).outputs > 0)
      BY <1>2, ImageBucketHas
    <3>3. images = CostImages(p, m, i, o, size)
      BY <2>2
    <3>4. (i = 0 <=> ~(i > 0)) /\ (o = 0 <=> ~(o > 0))
      OBVIOUS
    <3> HIDE DEF images
    <3> QED BY <2>2, <3>1, <3>2, <3>3, <3>4, Zenon
  <2> QED BY <2>1, <2>2
<1>7. ImageUsed(u) <=> \E r \in B : ImageHasAny(r)
  BY ImageBucketHas
<1>8. ASSUME NEW r \in B
      PROVE  ImageUnpriced(p, r) <=>
               \/ \E d \in D : Dimension(r, d) > 0 /\ ~(DimensionRate(p, m, d) > 0)
               \/ HasPerImagePricing(p, m) /\ (\/ ImageOf(r).inputs > 0 /\ InRates(p, m) = {}
                                               \/ ImageOf(r).outputs > 0 /\ OutRates(p, m, size) = {})
               \/ ImageHasAny(r) /\ ~HasImageTokenPricing(p, m) /\ ~HasPerImagePricing(p, m)
  <2>1. EffectiveModel(r) = m /\ ImageOf(r).size = size
    BY <1>1
  <2> QED BY <2>1, Zenon DEF ImageUnpriced, D
<1> HIDE DEF price, images
<1> QED BY <1>3, <1>5, <1>6, <1>7, <1>8, Zenon

\* What a text bucket has is what one of its requests has.
LEMMA TextBucketHas ==
  ASSUME NEW t, Table(t), NEW B \in SUBSET DOMAIN t, NEW u, IsTextBucket(t, u, B)
  PROVE  TextUsed(u) <=> \E r \in B : TextHas(r)
<1>1. /\ u.input = Total(t, ColInput(t), B) /\ u.output = Total(t, ColOutput(t), B)
      /\ u.reasoning = Total(t, ColReasoning(t), B) /\ u.cached = Total(t, ColCached(t), B)
      /\ u.creation = Total(t, ColCreation(t), B)
  BY Zenon DEF IsTextBucket
<1>2. ASSUME NEW r \in DOMAIN t
      PROVE  /\ ColInput(t)[r] \in Nat /\ ColOutput(t)[r] \in Nat /\ ColReasoning(t)[r] \in Nat
             /\ ColCached(t)[r] \in Nat /\ ColCreation(t)[r] \in Nat
             /\ TextHas(r) <=> ColInput(t)[r] > 0 \/ ColOutput(t)[r] > 0 \/ ColReasoning(t)[r] > 0
             /\ ColCached(t)[r] > 0 \/ ColCreation(t)[r] > 0 => ColInput(t)[r] > 0
  <2>1. Row(r)
    BY DEF Table
  <2>2. PICK i \in Nat, o \in Nat, x \in Nat, h \in Nat, c \in Nat :
          /\ i = Billable(r) /\ o = r.output /\ x = r.reasoning /\ h = Cached(r) /\ c = Creation(r) /\ h + c <= i
    BY <2>1, RowInput, RowCounts
  <2>3. /\ ColInput(t)[r] = i /\ ColOutput(t)[r] = o /\ ColReasoning(t)[r] = x /\ ColCached(t)[r] = h /\ ColCreation(t)[r] = c
    BY <2>2 DEF ColInput, ColOutput, ColReasoning, ColCached, ColCreation
  <2>4. TextHas(r) <=> i + o + x > 0
    BY <2>2, Zenon DEF TextHas
  <2>5. (i + o + x > 0 <=> i > 0 \/ o > 0 \/ x > 0) /\ (h > 0 \/ c > 0 => i > 0)
    BY <2>2
  <2> QED BY <2>3, <2>4, <2>5
<1>3. /\ u.input \in Nat /\ (u.input > 0 <=> \E r \in B : ColInput(t)[r] > 0)
      /\ u.output \in Nat /\ (u.output > 0 <=> \E r \in B : ColOutput(t)[r] > 0)
      /\ u.reasoning \in Nat /\ (u.reasoning > 0 <=> \E r \in B : ColReasoning(t)[r] > 0)
      /\ u.cached \in Nat /\ (u.cached > 0 <=> \E r \in B : ColCached(t)[r] > 0)
      /\ u.creation \in Nat /\ (u.creation > 0 <=> \E r \in B : ColCreation(t)[r] > 0)
  BY <1>1, <1>2, TextColumns, SomeTotal
<1>4. PICK i \in Nat, o \in Nat, x \in Nat, h \in Nat, c \in Nat :
        i = u.input /\ o = u.output /\ x = u.reasoning /\ h = u.cached /\ c = u.creation
  BY <1>3
<1>5. TextUsed(u) <=> i + o + x + h + c > 0
  BY <1>4, Zenon DEF TextUsed
<1>6. i + o + x + h + c > 0 <=> i > 0 \/ o > 0 \/ x > 0 \/ h > 0 \/ c > 0
  OBVIOUS
<1>7. (i > 0 \/ o > 0 \/ x > 0 \/ h > 0 \/ c > 0) <=> \E r \in B : TextHas(r)
  <2>1. \A r \in B : r \in DOMAIN t
    OBVIOUS
  <2> QED BY <1>2, <1>3, <1>4, <2>1, Zenon
<1> QED BY <1>5, <1>6, <1>7, Zenon

\* A count of delivered images is missing when it is of one of the requests.
LEMMA OutputGap ==
  ASSUME NEW t, Table(t), NEW f, NEW grouping, Fits(f, grouping), NEW g
  PROVE  (\E b \in ImagesOf(t, f, grouping, g) : ImageBuckets(t, f)[b].noOutput > 0)
           <=> \E r \in Members(t, f, grouping, g) : GapOutput(r)
<1> DEFINE I == ImagesOf(t, f, grouping, g)
           M == Members(t, f, grouping, g)
<1>1. ASSUME NEW b \in I
      PROVE  /\ ImageBuckets(t, f)[b].noOutput > 0 <=> \E r \in ImageFiber(t, f, b) : GapOutput(r)
             /\ ImageFiber(t, f, b) \subseteq M
  <2>1. IsImageBucket(t, ImageBuckets(t, f)[b], ImageFiber(t, f, b)) /\ ImageFiber(t, f, b) \subseteq M
    BY ImageMembers
  <2>2. ImageFiber(t, f, b) \in SUBSET DOMAIN t /\ \A r \in ImageFiber(t, f, b) : IsImage(r)
    BY FiberRows
  <2> QED BY <2>1, <2>2, ImageBucketHas
<1>2. \A r \in M : IsImage(r) => ImageCell(r, f) \in I /\ r \in ImageFiber(t, f, ImageCell(r, f))
  BY ImageMembers
<1>3. \A r : GapOutput(r) => IsImage(r)
  BY DEF GapOutput
<1> HIDE DEF I, M
<1>4. (\E b \in I : ImageBuckets(t, f)[b].noOutput > 0) <=> \E r \in M : GapOutput(r)
  BY <1>1, <1>2, <1>3
<1> QED BY <1>4 DEF I, M

\* A size is defaulted when that of one of the requests is.
LEMMA SizeGap ==
  ASSUME NEW p, NEW t, Table(t), NEW f, NEW grouping, Fits(f, grouping), NEW g
  PROVE  Defaulted(p, ImageBuckets(t, f), ImagesOf(t, f, grouping, g))
           <=> \E r \in Members(t, f, grouping, g) : GapSize(p, r)
<1> DEFINE I == ImagesOf(t, f, grouping, g)
           M == Members(t, f, grouping, g)
           images == ImageBuckets(t, f)
           Bad(b) == /\ HasMultimodal(p, b.cell.model) /\ HasPerImagePricing(p, b.cell.model) /\ images[b].outputs > 0
                     /\ NormalizeImageSize(b.size).defaulted
<1>1. ASSUME NEW b \in I
      PROVE  (Bad(b) <=> \E r \in ImageFiber(t, f, b) : GapSize(p, r)) /\ ImageFiber(t, f, b) \subseteq M
  <2> DEFINE B == ImageFiber(t, f, b)
  <2>1. IsImageBucket(t, images[b], B) /\ B \subseteq M /\ B # {}
    BY ImageMembers
  <2>2. B \in SUBSET DOMAIN t /\ \A r \in B : IsImage(r) /\ b.cell.model = EffectiveModel(r) /\ b.size = ImageOf(r).size
    BY FiberRows
  <2> HIDE DEF B, images
  <2>3. images[b].outputs > 0 <=> \E r \in B : ImageOf(r).outputs > 0
    BY <2>1, <2>2, ImageBucketHas
  <2>4. \A r \in B : GapSize(p, r) <=> /\ HasMultimodal(p, b.cell.model) /\ HasPerImagePricing(p, b.cell.model)
                                       /\ ImageOf(r).outputs > 0 /\ NormalizeImageSize(b.size).defaulted
    BY <2>2, Zenon DEF GapSize, BilledText
  <2>5. Bad(b) <=> \E r \in B : GapSize(p, r)
    BY <2>3, <2>4, Zenon
  <2> QED BY <2>1, <2>5 DEF B
<1>2. \A r \in M : IsImage(r) => ImageCell(r, f) \in I /\ r \in ImageFiber(t, f, ImageCell(r, f))
  BY ImageMembers
<1>3. \A r : GapSize(p, r) => IsImage(r)
  BY DEF GapSize, BilledText
<1>4. Defaulted(p, images, I) <=> \E b \in I : Bad(b)
  BY DEF Defaulted, Media
<1> HIDE DEF I, M, Bad, images
<1>5. (\E b \in I : Bad(b)) <=> \E r \in M : GapSize(p, r)
  BY <1>1, <1>2, <1>3
<1> QED BY <1>4, <1>5 DEF I, M, images

\* A price is missing when it is for one of the requests.
LEMMA PriceGap ==
  ASSUME NEW p, Rated(p), NEW t, Table(t), NEW f, NEW grouping, Fits(f, grouping), NEW g
  PROVE  Unpriced(p, TextBuckets(t, f), ImageBuckets(t, f), TextOf(t, f, grouping, g), ImagesOf(t, f, grouping, g))
           <=> \E r \in Members(t, f, grouping, g) : GapPrice(p, r)
<1> DEFINE text == TextBuckets(t, f)
           images == ImageBuckets(t, f)
           T == TextOf(t, f, grouping, g)
           I == ImagesOf(t, f, grouping, g)
           M == Members(t, f, grouping, g)
           One(b) == BilledAsText(p, b) /\ ~HasTextPricing(p, b.cell.model) /\ TextUsed(text[b])
           Two(b) == ~HasMultimodal(p, b.cell.model) /\ ImageUsed(images[b]) /\ ~HasTextPricing(p, b.cell.model)
           Three(b) == HasMultimodal(p, b.cell.model) /\ ImageCosts(p, b, images[b]).unpriced
           GapOne(r) == BilledText(p, r) /\ ~HasTextPricing(p, EffectiveModel(r)) /\ TextHas(r)
           GapTwo(r) == IsImage(r) /\ BilledText(p, r) /\ ~HasTextPricing(p, EffectiveModel(r)) /\ ImageHasAny(r)
           GapThree(r) == ~BilledText(p, r) /\ ImageUnpriced(p, r)
<1>1. ASSUME NEW b \in T
      PROVE  (One(b) <=> \E r \in TextFiber(t, f, b) : GapOne(r)) /\ TextFiber(t, f, b) \subseteq M
  <2> DEFINE B == TextFiber(t, f, b)
  <2>1. IsTextBucket(t, text[b], B) /\ B \subseteq M
    BY TextMembers
  <2>2. B \in SUBSET DOMAIN t /\ \A r \in B : b.cell.model = EffectiveModel(r) /\ (BilledAsText(p, b) <=> BilledText(p, r))
    BY FiberRows
  <2> HIDE DEF B, text
  <2>3. TextUsed(text[b]) <=> \E r \in B : TextHas(r)
    BY <2>1, <2>2, TextBucketHas
  <2>4. One(b) <=> \E r \in B : GapOne(r)
    BY <2>2, <2>3, Zenon
  <2> QED BY <2>1, <2>4 DEF B
<1>2. ASSUME NEW b \in I
      PROVE  /\ Two(b) <=> \E r \in ImageFiber(t, f, b) : GapTwo(r)
             /\ Three(b) <=> \E r \in ImageFiber(t, f, b) : GapThree(r)
             /\ ImageFiber(t, f, b) \subseteq M
  <2> DEFINE B == ImageFiber(t, f, b)
  <2>1. IsImageBucket(t, images[b], B) /\ B \subseteq M /\ B # {}
    BY ImageMembers
  <2>2. B \in SUBSET DOMAIN t /\ \A r \in B : IsImage(r) /\ b.cell.model = EffectiveModel(r) /\ b.size = ImageOf(r).size
    BY FiberRows
  <2> HIDE DEF B, images
  <2>3. ImageUsed(images[b]) <=> \E r \in B : ImageHasAny(r)
    BY <2>1, <2>2, ImageBucketHas
  <2>4. \A r \in B : BilledText(p, r) <=> ~HasMultimodal(p, b.cell.model)
    BY <2>2, Zenon DEF BilledText
  <2>5. Two(b) <=> \E r \in B : GapTwo(r)
    BY <2>2, <2>3, <2>4, Zenon
  <2>6. HasMultimodal(p, b.cell.model) => (ImageCosts(p, b, images[b]).unpriced <=> \E r \in B : ImageUnpriced(p, r))
    BY <2>1, <2>2, ImageBucketUnpriced
  <2>7. Three(b) <=> \E r \in B : GapThree(r)
    BY <2>4, <2>6, Zenon
  <2> QED BY <2>1, <2>5, <2>7 DEF B
<1>3. /\ \A r \in M : TextCell(r, f) \in T /\ r \in TextFiber(t, f, TextCell(r, f))
      /\ \A r \in M : IsImage(r) => ImageCell(r, f) \in I /\ r \in ImageFiber(t, f, ImageCell(r, f))
  BY TextMembers, ImageMembers
<1>4. ASSUME NEW b \in I, ~HasMultimodal(p, b.cell.model)
      PROVE  b.cell.model \notin TextPriced(p, T) <=> ~HasTextPricing(p, b.cell.model)
  <2>1. b.cell.model \in TextPriced(p, T) => HasTextPricing(p, b.cell.model)
    BY DEF TextPriced
  <2>2. ASSUME HasTextPricing(p, b.cell.model) PROVE b.cell.model \in TextPriced(p, T)
    <3>1. PICK r \in ImageFiber(t, f, b) : TRUE
      BY ImageMembers
    <3>2. r \in M /\ IsImage(r) /\ b.cell.model = EffectiveModel(r)
      BY <1>2, FiberRows
    <3>3. TextCell(r, f) \in T /\ r \in TextFiber(t, f, TextCell(r, f))
      BY <1>3, <3>2
    <3>4. TextCell(r, f).cell.model = EffectiveModel(r) /\ (BilledAsText(p, TextCell(r, f)) <=> BilledText(p, r))
      BY <3>3, FiberRows
    <3>5. BilledText(p, r)
      BY <1>4, <3>2 DEF BilledText
    <3> HIDE DEF T
    <3> QED BY <2>2, <3>2, <3>3, <3>4, <3>5 DEF TextPriced, Billed
  <2> QED BY <2>1, <2>2
<1>5. Unpriced(p, text, images, T, I) <=> (\E b \in T : One(b)) \/ (\E b \in I : Two(b)) \/ (\E b \in I : Three(b))
  <2>1. (\E c \in Billed(p, T) : ~HasTextPricing(p, c.cell.model) /\ TextUsed(text[c])) <=> \E b \in T : One(b)
    BY DEF Billed
  <2>2. (\E c \in I \ Media(p, I) : ImageUsed(images[c]) /\ c.cell.model \notin TextPriced(p, T)) <=> \E b \in I : Two(b)
    <3> HIDE DEF T, I, images
    <3> QED BY <1>4 DEF Media
  <2>3. (\E c \in Media(p, I) : ImageCosts(p, c, images[c]).unpriced) <=> \E b \in I : Three(b)
    BY DEF Media
  <2> HIDE DEF T, I, One, Two, Three, text, images
  <2> QED BY <2>1, <2>2, <2>3 DEF Unpriced
<1>6. \A r : /\ GapPrice(p, r) <=> GapOne(r) \/ GapTwo(r) \/ GapThree(r)
             /\ GapTwo(r) => IsImage(r)
             /\ GapThree(r) => IsImage(r)
  BY Zenon DEF GapPrice, BilledText
<1> HIDE DEF T, I, M, One, Two, Three, GapOne, GapTwo, GapThree, text, images
<1>7. (\E b \in T : One(b)) <=> \E r \in M : GapOne(r)
  BY <1>1, <1>3
<1>8. (\E b \in I : Two(b)) <=> \E r \in M : GapTwo(r)
  BY <1>2, <1>3, <1>6
<1>9. (\E b \in I : Three(b)) <=> \E r \in M : GapThree(r)
  BY <1>2, <1>3, <1>6
<1>10. Unpriced(p, text, images, T, I) <=> \E r \in M : GapPrice(p, r)
  BY <1>5, <1>6, <1>7, <1>8, <1>9, Zenon
<1> QED BY <1>10 DEF T, I, M, text, images

\* Whether a row counts as one that reported usage.
ColReported(t)      == [r \in DOMAIN t |-> Flag(Counted(TextConfidence(r)))]
ColImageReported(t) == [r \in DOMAIN t |-> Flag(Counted(ImageConfidence(r)))]

\* Whether usage was reported is a column, made of two confidences.
LEMMA ReportedColumns ==
  ASSUME NEW t, Table(t)
  PROVE  /\ ColReported(t) \in Column(t) /\ ColImageReported(t) \in Column(t)
         /\ \A r \in DOMAIN t : /\ ColReported(t)[r] = ColText(t, "observed")[r] + 1 * ColText(t, "side_channel")[r]
                                /\ ColImageReported(t)[r] = ColImage(t, "observed")[r] + 1 * ColImage(t, "side_channel")[r]
<1>1. \A x : Flag(x) \in Int
  BY DEF Flag
<1>2. ColReported(t) \in Column(t) /\ ColImageReported(t) \in Column(t)
  BY <1>1 DEF ColReported, ColImageReported, Column
<1>3. \A c : Flag(Counted(c)) = Flag(c = "observed") + 1 * Flag(c = "side_channel")
  BY DEF Flag, Counted
<1>4. ASSUME NEW r \in DOMAIN t
      PROVE  /\ ColReported(t)[r] = ColText(t, "observed")[r] + 1 * ColText(t, "side_channel")[r]
             /\ ColImageReported(t)[r] = ColImage(t, "observed")[r] + 1 * ColImage(t, "side_channel")[r]
  <2>1. /\ ColReported(t)[r] = Flag(Counted(TextConfidence(r))) /\ ColImageReported(t)[r] = Flag(Counted(ImageConfidence(r)))
        /\ ColText(t, "observed")[r] = Flag(TextConfidence(r) = "observed")
        /\ ColText(t, "side_channel")[r] = Flag(TextConfidence(r) = "side_channel")
        /\ ColImage(t, "observed")[r] = Flag(ImageConfidence(r) = "observed")
        /\ ColImage(t, "side_channel")[r] = Flag(ImageConfidence(r) = "side_channel")
    BY DEF ColReported, ColImageReported, ColText, ColImage
  <2>2. /\ Flag(Counted(TextConfidence(r)))
             = Flag(TextConfidence(r) = "observed") + 1 * Flag(TextConfidence(r) = "side_channel")
        /\ Flag(Counted(ImageConfidence(r)))
             = Flag(ImageConfidence(r) = "observed") + 1 * Flag(ImageConfidence(r) = "side_channel")
    BY <1>3
  <2> QED BY <2>1, <2>2, Zenon
<1> QED BY <1>2, <1>4

\* What a bucket counts as reported is a total of its rows.
LEMMA BucketReported ==
  ASSUME NEW t, Table(t), NEW B \in SUBSET DOMAIN t, NEW u
  PROVE  /\ IsTextBucket(t, u, B) => Reported(u) = Total(t, ColReported(t), B)
         /\ IsImageBucket(t, u, B) => Reported(u) = Total(t, ColImageReported(t), B)
<1>1. "observed" \in Confidences /\ "side_channel" \in Confidences
  BY DEF Confidences
<1>2. ASSUME IsTextBucket(t, u, B) PROVE Reported(u) = Total(t, ColReported(t), B)
  <2>1. PICK e \in Column(t), h \in Column(t) : e = ColText(t, "observed") /\ h = ColText(t, "side_channel")
    BY <1>1, FlagColumns
  <2>2. u.counts["observed"] = Total(t, e, B) /\ u.counts["side_channel"] = Total(t, h, B)
    BY <1>1, <1>2, <2>1, Zenon DEF IsTextBucket
  <2>3. ColReported(t) \in Column(t) /\ \A r \in B : ColReported(t)[r] = e[r] + 1 * h[r]
    BY <2>1, ReportedColumns
  <2>4. Total(t, ColReported(t), B) = Total(t, e, B) + 1 * Total(t, h, B)
    BY <2>3, TotalLinear
  <2>5. Total(t, e, B) \in Int /\ Total(t, h, B) \in Int
    BY TotalType
  <2>6. Total(t, ColReported(t), B) = Total(t, e, B) + Total(t, h, B)
    BY <2>4, <2>5
  <2> QED BY <2>2, <2>6, Zenon DEF Reported
<1>3. ASSUME IsImageBucket(t, u, B) PROVE Reported(u) = Total(t, ColImageReported(t), B)
  <2>1. PICK e \in Column(t), h \in Column(t) : e = ColImage(t, "observed") /\ h = ColImage(t, "side_channel")
    BY <1>1, FlagColumns
  <2>2. u.counts["observed"] = Total(t, e, B) /\ u.counts["side_channel"] = Total(t, h, B)
    BY <1>1, <1>3, <2>1, Zenon DEF IsImageBucket
  <2>3. ColImageReported(t) \in Column(t) /\ \A r \in B : ColImageReported(t)[r] = e[r] + 1 * h[r]
    BY <2>1, ReportedColumns
  <2>4. Total(t, ColImageReported(t), B) = Total(t, e, B) + 1 * Total(t, h, B)
    BY <2>3, TotalLinear
  <2>5. Total(t, e, B) \in Int /\ Total(t, h, B) \in Int
    BY TotalType
  <2>6. Total(t, ColImageReported(t), B) = Total(t, e, B) + Total(t, h, B)
    BY <2>4, <2>5
  <2> QED BY <2>2, <2>6, Zenon DEF Reported
<1> QED BY <1>2, <1>3

\* What is used never exceeds what is expected, so that a shortfall is that of a request.
LEMMA ShortOfOne ==
  ASSUME NEW t, Table(t), NEW e \in Column(t), NEW a \in Column(t), NEW B \in SUBSET DOMAIN t,
         \A r \in B : a[r] <= e[r]
  PROVE  /\ Shortfall(Total(t, e, B), Total(t, a, B)) \in Nat
         /\ Shortfall(Total(t, e, B), Total(t, a, B)) > 0 <=> \E r \in B : a[r] # e[r]
<1>1. Total(t, a, B) <= Total(t, e, B) /\ (Total(t, a, B) = Total(t, e, B) => \A r \in B : a[r] = e[r])
  BY TotalAtMost
<1>2. (\A r \in B : a[r] = e[r]) => Total(t, a, B) = Total(t, e, B)
  BY TotalSame
<1>3. PICK x \in Int, y \in Int : x = Total(t, e, B) /\ y = Total(t, a, B)
  BY TotalType
<1>4. Shortfall(x, y) \in Nat /\ (Shortfall(x, y) > 0 <=> y < x)
  BY DEF Shortfall
<1>5. y < x <=> ~(y = x)
  BY <1>1, <1>3
<1>6. y = x <=> \A r \in B : a[r] = e[r]
  BY <1>1, <1>2, <1>3
<1> QED BY <1>3, <1>4, <1>5, <1>6

\* The sum of counts is above zero when one of them is.
LEMMA SomeAdd ==
  ASSUME NEW S, IsFiniteSet(S), NEW h \in [S -> Nat]
  PROVE  Add(h) \in Nat /\ (Add(h) > 0 <=> \E x \in S : h[x] > 0)
<1>1. h \in [S -> Int] /\ \A x \in S : h[x] >= 0
  OBVIOUS
<1>2. Add(h) = SumOn(h, S) /\ Add(h) \in Int
  BY <1>1, AddIs
<1>3. SumOn(h, S) >= 0 /\ (SumOn(h, S) > 0 <=> \E x \in S : h[x] > 0)
  BY <1>1, SumSign
<1> QED BY <1>2, <1>3

\* The token summaries of a model fall short when that of one of its image
\* requests is empty.
LEMMA TextShortIs ==
  ASSUME NEW t, Table(t), NEW f, NEW grouping, Fits(f, grouping), NEW g, NEW m,
         \A r \in Members(t, f, grouping, g) : Counted(TextConfidence(r))
  PROVE  /\ TextShort(TextBuckets(t, f), TextOf(t, f, grouping, g), m) \in Nat
         /\ TextShort(TextBuckets(t, f), TextOf(t, f, grouping, g), m) > 0
              <=> \E r \in Members(t, f, grouping, g) : IsImage(r) /\ EffectiveModel(r) = m /\ ~TextHas(r)
<1> DEFINE text == TextBuckets(t, f)
           T == TextOf(t, f, grouping, g)
           M == Members(t, f, grouping, g)
           L == ImageText(T, m)
           x == [b \in L |-> Reported(text[b])]
           y == [b \in L |-> text[b].withUsage]
           B == {r \in InScope(t, f) : TextCell(r, f) \in L}
<1>1. L \in SUBSET DOMAIN text /\ L \subseteq T
  BY DEF ImageText, TextOf
<1>2. /\ x = [b \in L |-> x[b]] /\ y = [b \in L |-> y[b]]
      /\ \A b \in L : x[b] = Reported(text[b]) /\ y[b] = text[b].withUsage
  OBVIOUS
<1>3. ASSUME NEW b \in L
      PROVE  x[b] = Total(t, ColReported(t), TextFiber(t, f, b)) /\ y[b] = Total(t, ColTextUsed(t), TextFiber(t, f, b))
  <2>1. IsTextBucket(t, text[b], TextFiber(t, f, b)) /\ TextFiber(t, f, b) \in SUBSET DOMAIN t
    BY <1>1, TextMembers, FiberRows
  <2>2. Reported(text[b]) = Total(t, ColReported(t), TextFiber(t, f, b))
    BY <2>1, BucketReported
  <2>3. text[b].withUsage = Total(t, ColTextUsed(t), TextFiber(t, f, b))
    BY <2>1, Zenon DEF IsTextBucket
  <2> HIDE DEF x, y, L
  <2> QED BY <1>2, <2>2, <2>3
<1>4. ColReported(t) \in Column(t) /\ ColTextUsed(t) \in Column(t)
  BY ReportedColumns, FlagColumns
<1>5. Add(x) = Total(t, ColReported(t), B) /\ Add(y) = Total(t, ColTextUsed(t), B)
  <2> HIDE DEF x, y, L
  <2> QED BY <1>1, <1>2, <1>3, <1>4, TextFibers
<1>6. B \in SUBSET DOMAIN t
  BY ScopeIs
<1>7. \A r : r \in B <=> r \in M /\ IsImage(r) /\ EffectiveModel(r) = m
  <2>1. ASSUME NEW r \in B PROVE r \in M /\ IsImage(r) /\ EffectiveModel(r) = m
    <3>1. r \in InScope(t, f) /\ TextCell(r, f) \in T /\ TextCell(r, f).image /\ TextCell(r, f).cell.model = m
      BY DEF ImageText
    <3>2. CostGroup(TextCell(r, f).cell, grouping) = g
      BY <3>1 DEF TextOf
    <3>3. r \in M
      BY <3>1, <3>2, CellGroup DEF Members
    <3>4. IsImage(r) /\ EffectiveModel(r) = m
      BY <3>1, CellIs
    <3> QED BY <3>3, <3>4
  <2>2. ASSUME NEW r \in M, IsImage(r), EffectiveModel(r) = m PROVE r \in B
    <3>1. TextCell(r, f) \in T /\ r \in InScope(t, f)
      BY TextMembers DEF Members
    <3>2. TextCell(r, f).image /\ TextCell(r, f).cell.model = m
      BY <2>2, CellIs
    <3> QED BY <3>1, <3>2 DEF ImageText
  <2> HIDE DEF B, M
  <2> QED BY <2>1, <2>2
<1> HIDE DEF B, x, y, L, T, M, text
<1>8. ASSUME NEW r \in B
      PROVE  ColTextUsed(t)[r] <= ColReported(t)[r] /\ (ColTextUsed(t)[r] # ColReported(t)[r] <=> ~TextHas(r))
  <2>1. ColReported(t)[r] = 1 /\ ColTextUsed(t)[r] = Flag(TextHas(r))
    <3>1. r \in DOMAIN t /\ Counted(TextConfidence(r))
      BY <1>6, <1>7 DEF M
    <3> QED BY <3>1 DEF ColReported, ColTextUsed, Flag, TextHas
  <2> QED BY <2>1 DEF Flag
<1>9. /\ Shortfall(Total(t, ColReported(t), B), Total(t, ColTextUsed(t), B)) \in Nat
      /\ Shortfall(Total(t, ColReported(t), B), Total(t, ColTextUsed(t), B)) > 0
           <=> \E r \in B : ColTextUsed(t)[r] # ColReported(t)[r]
  BY <1>4, <1>6, <1>8, ShortOfOne
<1>10. TextShort(text, T, m) = Shortfall(Total(t, ColReported(t), B), Total(t, ColTextUsed(t), B))
  <2>1. TextShort(text, T, m) = Shortfall(Add(x), Add(y))
    BY DEF TextShort, x, y, L
  <2> QED BY <1>5, <2>1, Zenon
<1>11. TextShort(text, T, m) \in Nat
       /\ (TextShort(text, T, m) > 0 <=> \E r \in M : IsImage(r) /\ EffectiveModel(r) = m /\ ~TextHas(r))
  BY <1>7, <1>8, <1>9, <1>10, Zenon
<1> QED BY <1>11 DEF text, T, M

\* A request that is not counted as a gap and has image tokens is counted as reported.
LEMMA ImageUsedIsReported ==
  ASSUME NEW r, Row(r), Counted(TextConfidence(r)), ImageHas(r)
  PROVE  Counted(ImageConfidence(r))
<1>1. \E d \in Dimensions : Tokens(r, d[1], d[2]) > 0
  BY DimensionsShow DEF ImageHas
<1>2. /\ ~r.conflict
      /\ \/ r.source = "side_channel"
         \/ r.mode \notin {"request_only", "passthrough"} /\ r.outcome \in {"captured", Blank}
  BY DEF Counted, TextConfidence, Confidence
<1> QED BY <1>1, <1>2 DEF Counted, ImageConfidence, Confidence

\* The dimensions of a model fall short when those of one of its image requests
\* are empty.
LEMMA ImageShortIs ==
  ASSUME NEW t, Table(t), NEW f, NEW grouping, Fits(f, grouping), NEW g, NEW m,
         \A r \in Members(t, f, grouping, g) : Counted(TextConfidence(r))
  PROVE  /\ ImageShort(ImageBuckets(t, f), ImagesOf(t, f, grouping, g), m) \in Nat
         /\ ImageShort(ImageBuckets(t, f), ImagesOf(t, f, grouping, g), m) > 0
              <=> \E r \in Members(t, f, grouping, g) :
                    IsImage(r) /\ EffectiveModel(r) = m /\ Counted(ImageConfidence(r)) /\ ~ImageHas(r)
<1> DEFINE images == ImageBuckets(t, f)
           I == ImagesOf(t, f, grouping, g)
           M == Members(t, f, grouping, g)
           L == ImageImage(I, m)
           x == [b \in L |-> Reported(images[b])]
           y == [b \in L |-> images[b].withUsage]
           B == {r \in ImagesInScope(t, f) : ImageCell(r, f) \in L}
<1>1. L \in SUBSET DOMAIN images /\ L \subseteq I
  BY DEF ImageImage, ImagesOf
<1>2. /\ x = [b \in L |-> x[b]] /\ y = [b \in L |-> y[b]]
      /\ \A b \in L : x[b] = Reported(images[b]) /\ y[b] = images[b].withUsage
  OBVIOUS
<1>3. ASSUME NEW b \in L
      PROVE  /\ x[b] = Total(t, ColImageReported(t), ImageFiber(t, f, b))
             /\ y[b] = Total(t, ColImageUsed(t), ImageFiber(t, f, b))
  <2>1. IsImageBucket(t, images[b], ImageFiber(t, f, b)) /\ ImageFiber(t, f, b) \in SUBSET DOMAIN t
    BY <1>1, ImageMembers, FiberRows
  <2>2. Reported(images[b]) = Total(t, ColImageReported(t), ImageFiber(t, f, b))
    BY <2>1, BucketReported
  <2>3. images[b].withUsage = Total(t, ColImageUsed(t), ImageFiber(t, f, b))
    BY <2>1, Zenon DEF IsImageBucket
  <2> HIDE DEF x, y, L
  <2> QED BY <1>2, <2>2, <2>3
<1>4. ColImageReported(t) \in Column(t) /\ ColImageUsed(t) \in Column(t)
  BY ReportedColumns, FlagColumns
<1>5. Add(x) = Total(t, ColImageReported(t), B) /\ Add(y) = Total(t, ColImageUsed(t), B)
  <2> HIDE DEF x, y, L
  <2> QED BY <1>1, <1>2, <1>3, <1>4, ImageFibers
<1>6. B \in SUBSET DOMAIN t
  BY ScopeIs
<1>7. \A r : r \in B <=> r \in M /\ IsImage(r) /\ EffectiveModel(r) = m
  <2>1. ASSUME NEW r \in B PROVE r \in M /\ IsImage(r) /\ EffectiveModel(r) = m
    <3>1. r \in InScope(t, f) /\ IsImage(r) /\ ImageCell(r, f) \in I /\ ImageCell(r, f).cell.model = m
      BY DEF ImageImage, ImagesInScope
    <3>2. CostGroup(ImageCell(r, f).cell, grouping) = g
      BY <3>1 DEF ImagesOf
    <3>3. r \in M
      BY <3>1, <3>2, CellGroup DEF Members
    <3>4. EffectiveModel(r) = m
      BY <3>1, CellIs
    <3> QED BY <3>1, <3>3, <3>4
  <2>2. ASSUME NEW r \in M, IsImage(r), EffectiveModel(r) = m PROVE r \in B
    <3>1. ImageCell(r, f) \in I /\ r \in ImagesInScope(t, f)
      BY <2>2, ImageMembers DEF Members, ImagesInScope
    <3>2. ImageCell(r, f).cell.model = m
      BY <2>2, CellIs
    <3> QED BY <3>1, <3>2 DEF ImageImage
  <2> HIDE DEF B, M
  <2> QED BY <2>1, <2>2
<1> HIDE DEF B, x, y, L, I, M, images
<1>8. ASSUME NEW r \in B
      PROVE  /\ ColImageUsed(t)[r] <= ColImageReported(t)[r]
             /\ ColImageUsed(t)[r] # ColImageReported(t)[r] <=> Counted(ImageConfidence(r)) /\ ~ImageHas(r)
  <2>1. ImageHas(r) => Counted(ImageConfidence(r))
    BY <1>6, <1>7, ImageUsedIsReported DEF M, Table
  <2>2. ColImageReported(t)[r] = Flag(Counted(ImageConfidence(r))) /\ ColImageUsed(t)[r] = Flag(ImageHas(r))
    BY <1>6 DEF ColImageReported, ColImageUsed, ImageHas
  <2> QED BY <2>1, <2>2 DEF Flag
<1>9. /\ Shortfall(Total(t, ColImageReported(t), B), Total(t, ColImageUsed(t), B)) \in Nat
      /\ Shortfall(Total(t, ColImageReported(t), B), Total(t, ColImageUsed(t), B)) > 0
           <=> \E r \in B : ColImageUsed(t)[r] # ColImageReported(t)[r]
  BY <1>4, <1>6, <1>8, ShortOfOne
<1>10. ImageShort(images, I, m) = Shortfall(Total(t, ColImageReported(t), B), Total(t, ColImageUsed(t), B))
  <2>1. ImageShort(images, I, m) = Shortfall(Add(x), Add(y))
    BY DEF ImageShort, x, y, L
  <2> QED BY <1>5, <2>1, Zenon
<1>11. /\ ImageShort(images, I, m) \in Nat
       /\ ImageShort(images, I, m) > 0
            <=> \E r \in M : IsImage(r) /\ EffectiveModel(r) = m /\ Counted(ImageConfidence(r)) /\ ~ImageHas(r)
  BY <1>7, <1>8, <1>9, <1>10, Zenon
<1> QED BY <1>11 DEF images, I, M

\* Usage is missing when it is of one of the requests: the buckets of a model
\* have at most as many requests with usage as requests that reported it.
LEMMA MissingGap ==
  ASSUME NEW p, NEW t, Table(t), NEW f, NEW grouping, Fits(f, grouping), NEW g,
         \A r \in Members(t, f, grouping, g) : Counted(TextConfidence(r))
  PROVE  Missing(p, TextBuckets(t, f), ImageBuckets(t, f), TextOf(t, f, grouping, g), ImagesOf(t, f, grouping, g)) > 0
           <=> \E r \in Members(t, f, grouping, g) : GapText(p, r) \/ GapTokens(p, r)
<1> DEFINE text == TextBuckets(t, f)
           images == ImageBuckets(t, f)
           T == TextOf(t, f, grouping, g)
           I == ImagesOf(t, f, grouping, g)
           M == Members(t, f, grouping, g)
           F == Fallback(p, I)
           K == Tokenised(p, I)
           x == [m \in F |-> TextShort(text, T, m)]
           y == [m \in K |-> ImageShort(images, I, m)]
<1>1. ASSUME NEW b \in I
      PROVE  \E r \in M : IsImage(r) /\ EffectiveModel(r) = b.cell.model
  <2>1. PICK r \in ImageFiber(t, f, b) : TRUE
    BY ImageMembers
  <2>2. r \in M /\ IsImage(r) /\ b.cell.model = EffectiveModel(r)
    BY ImageMembers, FiberRows
  <2> QED BY <2>2
<1>2. ASSUME NEW r \in M, IsImage(r) PROVE ImageCell(r, f) \in I /\ ImageCell(r, f).cell.model = EffectiveModel(r)
  BY <1>2, ImageMembers, CellIs
<1>3. IsFiniteSet(F) /\ IsFiniteSet(K)
  <2> DEFINE h == [b \in I |-> b.cell.model]
             A == I \ Media(p, I)
             C == {c \in Media(p, I) : HasImageTokenPricing(p, c.cell.model)}
  <2>1. IsFiniteSet(I)
    BY ImageBucketsAre, FS_Subset DEF ImagesOf
  <2>2. A \subseteq I /\ C \subseteq I
    BY DEF Media
  <2>3. IsFiniteSet(A) /\ IsFiniteSet(C)
    BY <2>1, <2>2, FS_Subset
  <2>4. F = {h[b] : b \in A} /\ K = {h[b] : b \in C}
    <3>1. F = {b.cell.model : b \in A} /\ K = {b.cell.model : b \in C}
      BY DEF Fallback, Tokenised
    <3> HIDE DEF A, C, I
    <3>2. (\A b \in A : h[b] = b.cell.model) /\ \A b \in C : h[b] = b.cell.model
      BY <2>2
    <3> HIDE DEF h
    <3> QED BY <3>1, <3>2
  <2> HIDE DEF h, A, C
  <2> QED BY <2>3, <2>4, FiniteImage
<1>4. ASSUME NEW m
      PROVE  /\ m \in F <=> ~HasMultimodal(p, m) /\ \E r \in M : IsImage(r) /\ EffectiveModel(r) = m
             /\ m \in K <=> HasMultimodal(p, m) /\ HasImageTokenPricing(p, m) /\ \E r \in M : IsImage(r) /\ EffectiveModel(r) = m
  <2>1. m \in F <=> \E b \in I : b.cell.model = m /\ ~HasMultimodal(p, m)
    BY DEF Fallback, Media
  <2>2. m \in K <=> \E b \in I : b.cell.model = m /\ HasMultimodal(p, m) /\ HasImageTokenPricing(p, m)
    BY DEF Tokenised, Media
  <2>3. (\E b \in I : b.cell.model = m) <=> \E r \in M : IsImage(r) /\ EffectiveModel(r) = m
    <3> HIDE DEF I, M
    <3> QED BY <1>1, <1>2
  <2> HIDE DEF I, M, F, K
  <2> QED BY <2>1, <2>2, <2>3
<1>5. ASSUME NEW m
      PROVE  /\ TextShort(text, T, m) \in Nat
             /\ TextShort(text, T, m) > 0 <=> \E r \in M : IsImage(r) /\ EffectiveModel(r) = m /\ ~TextHas(r)
  BY TextShortIs
<1>6. ASSUME NEW m
      PROVE  /\ ImageShort(images, I, m) \in Nat
             /\ ImageShort(images, I, m) > 0 <=>
                  \E r \in M : IsImage(r) /\ EffectiveModel(r) = m /\ Counted(ImageConfidence(r)) /\ ~ImageHas(r)
  BY ImageShortIs
<1>7. Missing(p, text, images, T, I) = Add(x) + Add(y)
  BY DEF Missing
<1> HIDE DEF text, images, T, I, M, F, K
<1>8. x \in [F -> Nat] /\ y \in [K -> Nat]
  BY <1>5, <1>6
<1>9. (\A m \in F : x[m] = TextShort(text, T, m)) /\ \A m \in K : y[m] = ImageShort(images, I, m)
  OBVIOUS
<1> HIDE DEF x, y
<1>10. Add(x) \in Nat /\ (Add(x) > 0 <=> \E m \in F : x[m] > 0) /\ Add(y) \in Nat /\ (Add(y) > 0 <=> \E m \in K : y[m] > 0)
  BY <1>3, <1>8, SomeAdd
<1>11. (\E m \in F : x[m] > 0) <=> \E r \in M : GapText(p, r)
  <2>1. (\E m \in F : x[m] > 0) <=> \E m \in F : \E r \in M : IsImage(r) /\ EffectiveModel(r) = m /\ ~TextHas(r)
    BY <1>5, <1>9, Zenon
  <2>2. (\E m \in F : \E r \in M : IsImage(r) /\ EffectiveModel(r) = m /\ ~TextHas(r)) <=> \E r \in M : GapText(p, r)
    BY <1>4, Zenon DEF GapText
  <2> QED BY <2>1, <2>2, Zenon
<1>12. (\E m \in K : y[m] > 0) <=> \E r \in M : GapTokens(p, r)
  <2>1. (\E m \in K : y[m] > 0)
          <=> \E m \in K : \E r \in M : IsImage(r) /\ EffectiveModel(r) = m /\ Counted(ImageConfidence(r)) /\ ~ImageHas(r)
    BY <1>6, <1>9, Zenon
  <2>2. (\E m \in K : \E r \in M : IsImage(r) /\ EffectiveModel(r) = m /\ Counted(ImageConfidence(r)) /\ ~ImageHas(r))
          <=> \E r \in M : GapTokens(p, r)
    BY <1>4, Zenon DEF GapTokens
  <2> QED BY <2>1, <2>2, Zenon
<1>13. PICK i \in Nat, j \in Nat : i = Add(x) /\ j = Add(y)
  BY <1>10
<1>14. i + j > 0 <=> i > 0 \/ j > 0
  OBVIOUS
<1>15. Missing(p, text, images, T, I) > 0 <=> \E r \in M : GapText(p, r) \/ GapTokens(p, r)
  BY <1>7, <1>10, <1>11, <1>12, <1>13, <1>14, Zenon
<1> QED BY <1>15 DEF text, images, T, I, M

\* A total is called complete when nothing is missing of any of its requests.
LEMMA CompleteRows ==
  ASSUME NEW p, Rated(p), NEW t, Table(t), NEW f, NEW grouping, Fits(f, grouping), NEW g
  PROVE  /\ Result(p, t, f, grouping, g).state \in {"complete", "partial"}
         /\ Result(p, t, f, grouping, g).state = "complete" <=> \A r \in Members(t, f, grouping, g) : RowComplete(p, r)
<1> DEFINE text == TextBuckets(t, f)
           images == ImageBuckets(t, f)
           T == TextOf(t, f, grouping, g)
           I == ImagesOf(t, f, grouping, g)
           M == Members(t, f, grouping, g)
           res == CostResult(p, text, images, T, I)
<1>1. Result(p, t, f, grouping, g) = res
  BY DEF Result
<1>2. /\ res.state \in {"complete", "partial"}
      /\ res.state = "complete" <=>
              /\ \A c \in Gaps : ~(res.counts[c] > 0)
              /\ ~(Missing(p, text, images, T, I) > 0)
              /\ ~Unpriced(p, text, images, T, I)
              /\ ~\E b \in I : images[b].noOutput > 0
              /\ ~Defaulted(p, images, I)
  <2> HIDE DEF text, images, T, I
  <2> QED BY StateIs
<1>3. (\A c \in Gaps : ~(res.counts[c] > 0)) <=> \A r \in M : Counted(TextConfidence(r))
  <2>1. (\A c \in Gaps : ~(Result(p, t, f, grouping, g).counts[c] > 0)) <=> \A r \in M : Counted(TextConfidence(r))
    BY CountGap
  <2> HIDE DEF res
  <2> QED BY <1>1, <2>1, Zenon
<1>4. (\A r \in M : Counted(TextConfidence(r))) =>
        (Missing(p, text, images, T, I) > 0 <=> \E r \in M : GapText(p, r) \/ GapTokens(p, r))
  BY MissingGap
<1>5. Unpriced(p, text, images, T, I) <=> \E r \in M : GapPrice(p, r)
  BY PriceGap
<1>6. (\E b \in I : images[b].noOutput > 0) <=> \E r \in M : GapOutput(r)
  BY OutputGap
<1>7. Defaulted(p, images, I) <=> \E r \in M : GapSize(p, r)
  BY SizeGap
<1> HIDE DEF text, images, T, I, M, res
<1>8. res.state = "complete" <=> \A r \in M : RowComplete(p, r)
  BY <1>2, <1>3, <1>4, <1>5, <1>6, <1>7, Zenon DEF RowComplete
<1> QED BY <1>1, <1>2, <1>8, Zenon DEF M

\* The same of the row that stands for the whole scope.
LEMMA WholeComplete ==
  ASSUME NEW p, Rated(p), NEW t, Table(t), NEW s, Seen(s, t), NEW f
  PROVE  /\ Whole(p, Snapshot(s, f, {})).cost.state \in {"complete", "partial"}
         /\ Whole(p, Snapshot(s, f, {})).cost.state = "complete" <=> \A r \in InScope(t, f) : RowComplete(p, r)
<1> DEFINE costs == Costs(p, t, f, {})
           cost == Whole(p, Snapshot(s, f, {})).cost
<1>0. Fits(f, {})
  BY DEF Fits
<1>1. cost = OrElse(costs, Everything, CompleteZeroCost)
  <2> DEFINE snap == Snapshot(s, f, {})
  <2>1. snap.text = TextBuckets(t, f) /\ snap.image = ImageBuckets(t, f)
    BY DEF Snapshot, Seen
  <2>2. EvaluateCostBuckets(p, snap.text, snap.image, {}) = costs
    BY <2>1, Zenon DEF Costs
  <2>3. Whole(p, snap).cost = OrElse(EvaluateCostBuckets(p, snap.text, snap.image, {}), Everything, CompleteZeroCost)
    BY DEF Whole
  <2> HIDE DEF snap, costs
  <2> QED BY <2>2, <2>3 DEF snap
<1>2. \A r : GroupOf(r, {}) = Everything
  BY DEF GroupOf, Everything, CostGroup
<1>3. Members(t, f, {}, Everything) = InScope(t, f)
  BY <1>2 DEF Members
<1>4. DOMAIN costs = Groups(t, f, {}) /\ \A g \in DOMAIN costs : costs[g] = Result(p, t, f, {}, g)
  BY <1>0, GroupsAre, Zenon
<1> HIDE DEF costs, cost
<1>5. CASE InScope(t, f) = {}
  <2>1. Everything \notin DOMAIN costs
    BY <1>4, <1>5 DEF Groups
  <2>2. cost = CompleteZeroCost /\ CompleteZeroCost.state = "complete"
    BY <1>1, <2>1 DEF OrElse, CompleteZeroCost
  <2>3. cost.state = "complete"
    BY <2>2, Zenon
  <2> QED BY <1>5, <2>3 DEF cost
<1>6. CASE InScope(t, f) # {}
  <2>1. Everything \in DOMAIN costs
    BY <1>2, <1>4, <1>6 DEF Groups
  <2>2. cost = Result(p, t, f, {}, Everything)
    BY <1>1, <1>4, <2>1, Zenon DEF OrElse
  <2>3. /\ Result(p, t, f, {}, Everything).state \in {"complete", "partial"}
        /\ Result(p, t, f, {}, Everything).state = "complete"
             <=> \A r \in Members(t, f, {}, Everything) : RowComplete(p, r)
    BY <1>0, CompleteRows
  <2> QED BY <1>3, <2>2, <2>3, Zenon DEF cost
<1> QED BY <1>5, <1>6

\* The summary of a table is complete when the summary of each request is.
LEMMA NotMasked ==
  ASSUME NEW p, Rated(p), NEW t, Table(t), NEW s, Seen(s, t), NEW since
  PROVE  (Summary(p, s, since).cost.state = "complete")
    <=> \A r \in BagToSet(t) : r.at >= since =>
          Summary(p, [q \in Tables |-> SetToBag({r})], since).cost.state = "complete"
<1> DEFINE f == Scope(since, Blank, {})
<1>1. \A x : InScope(x, f) = {r \in DOMAIN x : r.at >= since}
  BY ScopeFilter
<1>2. \A z : Summary(p, z, since) = Whole(p, Snapshot(z, f, {}))
  BY DEF Summary, SummaryReportSnapshot
<1> HIDE DEF f
<1>3. Summary(p, s, since).cost.state = "complete" <=> \A r \in InScope(t, f) : RowComplete(p, r)
  <2>1. Whole(p, Snapshot(s, f, {})).cost.state = "complete" <=> \A r \in InScope(t, f) : RowComplete(p, r)
    BY WholeComplete
  <2> QED BY <1>2, <2>1, Zenon
<1>4. ASSUME NEW r \in BagToSet(t), r.at >= since
      PROVE  Summary(p, [q \in Tables |-> SetToBag({r})], since).cost.state = "complete" <=> RowComplete(p, r)
  <2> DEFINE x == SetToBag({r})
             z == [q \in Tables |-> x]
  <2>1. Row(r)
    BY DEF BagToSet, Table
  <2>2. Table(x) /\ DOMAIN x = {r}
    BY <2>1, OneRow
  <2> HIDE DEF x
  <2>3. Seen(z, x)
    BY DEF Seen, Tables
  <2>4. InScope(x, f) = {r}
    BY <1>1, <1>4, <2>2
  <2> HIDE DEF z
  <2>5. Whole(p, Snapshot(z, f, {})).cost.state = "complete" <=> \A y \in InScope(x, f) : RowComplete(p, y)
    BY <2>2, <2>3, WholeComplete
  <2>6. Summary(p, z, since).cost.state = "complete" <=> RowComplete(p, r)
    BY <1>2, <2>4, <2>5
  <2> QED BY <2>6 DEF z, x
<1>5. \A r : r \in InScope(t, f) <=> r \in BagToSet(t) /\ r.at >= since
  BY <1>1 DEF BagToSet
<1> QED BY <1>3, <1>4, <1>5, Zenon

\* A total is called complete when it would be for each of its requests, and only
\* then: no surplus of one hides the gap of another.
THEOREM NoGapIsMasked == Spec => []GapsAreNotMasked
<1>1. ReportsInv => GapsAreNotMasked
  <2> SUFFICES ASSUME ReportsInv, Answered, NEW since \in Sinces
               PROVE  (Summary(prices, reader.seen, since).cost.state = "complete")
    <=> \A r \in BagToSet(reader.tx) : r.at >= since =>
          Summary(prices, [q \in Tables |-> SetToBag({r})], since).cost.state = "complete"
    BY DEF GapsAreNotMasked
  <2>1. Rated(prices) /\ Table(reader.tx) /\ Seen(reader.seen, reader.tx)
    BY AnsweredMeans
  <2>2. PICK p, t, s : p = prices /\ t = reader.tx /\ s = reader.seen
    OBVIOUS
  <2>3. (Summary(p, s, since).cost.state = "complete")
    <=> \A r \in BagToSet(t) : r.at >= since =>
          Summary(p, [q \in Tables |-> SetToBag({r})], since).cost.state = "complete"
    BY <2>1, <2>2, NotMasked
  <2> QED BY <2>2, <2>3, Zenon
<1> QED BY <1>1, ReportsInvariant, PTL

-----------------------------------------------------------------------------
(* What is complete has been charged                                        *)

\* A model that has a text price has rates for input and output that charge, in
\* either tier: the file has to write them down.
LEMMA ChargingTier ==
  ASSUME NEW f, NEW p \in Parse(f), WrittenRatesCharge(p), NEW model, HasTextPricing(p, model), NEW ri
  PROVE  Field(Tier(p, model, ri), "input") > 0 /\ Field(Tier(p, model, ri), "output") > 0
<1> DEFINE e == TextEntry(p, model)
           tier == Tier(p, model, ri)
<1>1. Valid(f) /\ p.text = f.pricing /\ p.textAlias \in AliasIndexes(p.text)
  BY ParsedPrices
<1>2. PICK n \in DOMAIN p.text : e = p.text[n]
  <2>1. e \in Lookup(p, model)
    BY DEF HasTextPricing, TextEntry
  <2>2. PICK n \in Resolve(p.text, p.textAlias, model) : e = p.text[n]
    BY <2>1 DEF Lookup
  <2> HIDE DEF e
  <2> QED BY <1>1, <2>2, ResolvedEntry
<1>3. tier = ResolveTextTier(e, ri)
  BY DEF Tier
<1> HIDE DEF e, tier
<1>4. tier = e \/ ("long_context" \in DOMAIN e /\ tier = e.long_context)
  BY <1>3 DEF ResolveTextTier
<1>5. "input" \in DOMAIN tier /\ "output" \in DOMAIN tier
  <2>1. /\ {"input", "output"} \subseteq DOMAIN e
        /\ "long_context" \in DOMAIN e => {"input", "output"} \subseteq DOMAIN e.long_context
    BY <1>1, <1>2 DEF Valid, RequiredFields
  <2> QED BY <1>4, <2>1
<1>6. tier \in {e} \cup LongContext(e)
  BY <1>4 DEF LongContext
<1>7. tier["input"] > 0 /\ tier["output"] > 0
  BY <1>2, <1>5, <1>6 DEF WrittenRatesCharge
<1> QED BY <1>5, <1>7, PresentField DEF tier

\* A rate for images that come out charges.
LEMMA ChargingImages ==
  ASSUME NEW f, NEW p \in Parse(f), WrittenRatesCharge(p), NEW model, HasMultimodal(p, model), NEW size
  PROVE  \A x \in OutRates(p, model, size) : x > 0
<1> DEFINE e == MediaEntry(p, model)
           m == ImageModality(p, model)
<1>1. p.mediaAlias \in AliasIndexes(p.media)
  BY ParsedPrices
<1>2. PICK n \in DOMAIN p.media : e = p.media[n]
  <2>1. e \in LookupMultimodal(p, model)
    BY DEF HasMultimodal, MediaEntry
  <2>2. PICK n \in Resolve(p.media, p.mediaAlias, model) : e = p.media[n]
    BY <2>1 DEF LookupMultimodal
  <2> HIDE DEF e
  <2> QED BY <1>1, <2>2, ResolvedEntry
<1>3. m = Modality(e, "image")
  BY DEF ImageModality
<1>4. OutRates(p, model, size) = IF "per_image_output" \notin DOMAIN m THEN {}
        ELSE {m.per_image_output[k] : k \in {NormalizeImageSize(size).key} \cap DOMAIN m.per_image_output}
  BY Zenon DEF OutRates
<1> HIDE DEF e, m
<1>5. "per_image_output" \in DOMAIN m => \A k \in DOMAIN m.per_image_output : m.per_image_output[k] > 0
  BY <1>2, <1>3 DEF WrittenRatesCharge
<1> QED BY <1>4, <1>5

\* A product of two positive numbers is one.
LEMMA PositiveProduct == ASSUME NEW a \in Nat, NEW b \in Nat PROVE a * b \in Nat /\ (a > 0 /\ b > 0 => a * b > 0)
OBVIOUS

\* Tokens that did not come from a cache cost something where input and output do,
\* also if the reasoning of a request is more than its output.
LEMMA FreshTokensCost ==
  ASSUME NEW e, RatedTier(e), Field(e, "input") > 0, Field(e, "output") > 0,
         NEW r, Row(r), Billable(r) - Cached(r) + r.output > 0
  PROVE  ComputeCost(e, r) > 0
<1>1. PICK i \in Nat, h \in Nat, c \in Nat, o \in Nat, w \in Nat :
        i = Billable(r) /\ h = Cached(r) /\ c = Creation(r) /\ o = r.output /\ w = r.reasoning
  BY RowInput, RowCounts
<1>2. /\ InputBreakdown(r.input, r.cached, r.creation) = [regular |-> i - c - h, cached |-> h, creation |-> c]
      /\ h + c <= i /\ i - h + o > 0
  BY <1>1, RowInput
<1>3. PICK a \in Nat, b \in Nat, y \in Nat, rr \in Nat :
        a = Field(e, "input") /\ b = Field(e, "cached_input") /\ y = Field(e, "output") /\ rr = Field(e, "reasoning")
  BY TierRates
<1> DEFINE k == IF Field(e, "cache_creation") > 0 THEN e.cache_creation ELSE Field(e, "input")
           apart == w > 0 /\ rr > 0
           regular == IF apart THEN o - w ELSE o
           in == InputBreakdown(r.input, r.cached, r.creation)
           Out == IF regular > 0 THEN regular * y ELSE 0
           Thought == IF apart THEN w * e.reasoning ELSE 0
<1>4. ComputeCost(e, r) = in.cached * b + in.regular * a + in.creation * k + Out + Thought
  BY <1>1, <1>3, Zenon DEF ComputeCost
<1>5. PICK n \in Nat : n = i - c - h /\ in.regular = n /\ in.cached = h /\ in.creation = c
  BY <1>2
<1>6. PICK q \in Nat : q = k /\ q > 0
  <2>1. CASE Field(e, "cache_creation") > 0
    <3>1. "cache_creation" \in DOMAIN e
      BY <2>1 DEF Field
    <3>2. e.cache_creation = Field(e, "cache_creation") /\ Field(e, "cache_creation") \in Nat
      BY <3>1, PresentField DEF RatedTier, TextRates
    <3> QED BY <2>1, <3>2
  <2>2. CASE ~(Field(e, "cache_creation") > 0)
    BY <1>3, <2>2
  <2> QED BY <2>1, <2>2
<1>7. PICK z \in Nat : (rr > 0 => e.reasoning = z /\ z > 0)
  <2>1. ASSUME rr > 0 PROVE e.reasoning = rr
    <3>1. "reasoning" \in DOMAIN e
      BY <1>3, <2>1 DEF Field
    <3> QED BY <1>3, <3>1, PresentField
  <2> QED BY <2>1
<1> HIDE DEF k, in
<1>8. PICK out \in Nat : out = Out /\ (regular > 0 => out > 0)
  <2>1. CASE regular > 0
    <3>1. PICK m \in Nat : m = regular /\ m > 0
      BY <2>1
    <3> QED BY <1>3, <2>1, <3>1, PositiveProduct
  <2> QED BY <2>1
<1>9. PICK thought \in Nat : thought = Thought /\ (apart => thought > 0)
  <2>1. CASE apart
    BY <1>7, <2>1, PositiveProduct
  <2> QED BY <2>1
<1>10. regular > 0 \/ apart \/ o = 0
  OBVIOUS
<1> HIDE DEF apart, regular, Out, Thought
<1>11. PICK x1 \in Nat, x2 \in Nat, x3 \in Nat : x1 = h * b /\ x2 = n * a /\ x3 = c * q
  BY PositiveProduct
<1>12. (n > 0 => x2 > 0) /\ (c > 0 => x3 > 0)
  BY <1>3, <1>6, <1>11, PositiveProduct
<1>13. ComputeCost(e, r) = x1 + x2 + x3 + out + thought
  BY <1>4, <1>5, <1>6, <1>8, <1>9, <1>11, Zenon
<1>14. x2 > 0 \/ x3 > 0 \/ out > 0 \/ thought > 0
  <2>1. CASE o > 0
    BY <1>8, <1>9, <1>10, <2>1
  <2>2. CASE o = 0
    <3>1. n > 0 \/ c > 0
      BY <1>2, <1>5, <2>2
    <3> QED BY <1>12, <3>1
  <2> QED BY <2>1, <2>2
<1> QED BY <1>13, <1>14

\* A complete row that has to pay does.
LEMMA CompleteRowPays ==
  ASSUME NEW f, NEW p \in Parse(f), Rated(p), WrittenRatesCharge(p), NEW r, Row(r), RowComplete(p, r), MustPay(p, r)
  PROVE  RequestCost(p, r) > 0
<1> DEFINE m == EffectiveModel(r)
<1>1. CASE BilledText(p, r)
  <2>1. Billable(r) - Cached(r) + r.output > 0
    BY <1>1, Zenon DEF MustPay, BilledText
  <2>2. TextHas(r)
    <3>1. Billable(r) \in Nat /\ Cached(r) \in Nat /\ r.output \in Nat /\ r.reasoning \in Nat
      BY RowInput, RowCounts
    <3> QED BY <2>1, <3>1 DEF TextHas
  <2>3. HasTextPricing(p, m)
    BY <1>1, <2>2, Zenon DEF RowComplete, GapPrice
  <2>4. Field(Tier(p, m, r.input), "input") > 0 /\ Field(Tier(p, m, r.input), "output") > 0
    BY <2>3, ChargingTier
  <2>5. RatedTier(Tier(p, m, r.input))
    BY <2>3, RowCounts, TierIsRated
  <2>6. ComputeCost(Tier(p, m, r.input), r) > 0
    BY <2>1, <2>4, <2>5, FreshTokensCost
  <2>7. RequestCost(p, r) = ComputeCost(Tier(p, m, r.input), r)
    <3>1. RequestCost(p, r) = CostText(p, m, r, r.input).amount
      BY <1>1, Zenon DEF RequestCost, BilledText
    <3> QED BY <2>3, <3>1, CostTextIs
  <2> QED BY <2>6, <2>7
<1>2. CASE ~BilledText(p, r)
  <2> DEFINE tokens == [d \in Dimensions |-> Dimension(r, d)]
             D == PricedDimensions(p, m)
             b == [d \in D |-> DimensionRate(p, m, d) * tokens[d]]
  <2>1. IsImage(r) /\ HasMultimodal(p, m)
    BY <1>2 DEF BilledText
  <2>2. PICK i \in Nat, o \in Nat : i = ImageOf(r).inputs /\ o = ImageOf(r).outputs
    BY <2>1, ImageIs
  <2>3. PICK x \in Nat, y \in Nat : x = InRate(p, m) /\ y = OutRate(p, m, ImageOf(r).size)
    BY <2>1, PerImageRates
  <2>4. RequestCost(p, r) = Add(b) + (x * i + y * o)
    <3>1. RequestCost(p, r) = ImageSum(p, m, ImageOf(r).size, tokens, ImageOf(r).inputs, ImageOf(r).outputs)
      BY <1>2, MediaRequestCost
    <3> QED BY <2>2, <2>3, <3>1, Zenon DEF ImageSum
  <2>5. IsFiniteSet(D) /\ D \subseteq Dimensions
    BY FinitePriced
  <2>6. \A d \in Dimensions : Dimension(r, d) \in Nat /\ DimensionRate(p, m, d) \in Nat
    BY DimensionCounts, DimensionRateIs
  <2>7. b \in [D -> Nat] /\ \A d \in D : DimensionRate(p, m, d) > 0 /\ Dimension(r, d) > 0 => b[d] > 0
    <3> HIDE DEF D
    <3>1. ASSUME NEW d \in D
          PROVE  b[d] \in Nat /\ (DimensionRate(p, m, d) > 0 /\ Dimension(r, d) > 0 => b[d] > 0)
      <4>1. b[d] = DimensionRate(p, m, d) * Dimension(r, d)
        BY <2>5
      <4>2. PICK u \in Nat, v \in Nat : u = DimensionRate(p, m, d) /\ v = Dimension(r, d)
        BY <2>5, <2>6
      <4> HIDE DEF b
      <4> QED BY <4>1, <4>2, PositiveProduct
    <3> QED BY <3>1
  <2>8. ~ImageUnpriced(p, r)
    BY <1>2, Zenon DEF RowComplete, GapPrice
  <2>9. x * i \in Nat /\ y * o \in Nat /\ (y > 0 /\ o > 0 => y * o > 0)
    BY PositiveProduct
  <2>10. Add(b) \in Nat /\ (Add(b) > 0 <=> \E d \in D : b[d] > 0)
    <3> HIDE DEF b, D
    <3> QED BY <2>5, <2>7, SomeAdd
  <2>11. CASE HasImageTokenPricing(p, m) /\ Counted(ImageConfidence(r))
    <3>1. PICK d \in Dimensions : Dimension(r, d) > 0
      BY <2>1, <2>11, Zenon DEF RowComplete, GapTokens, ImageHas
    <3>2. d \in D
      BY <2>11 DEF PricedDimensions
    <3>3. DimensionRate(p, m, d) > 0
      BY <2>8, <3>1, <3>2, Zenon DEF ImageUnpriced
    <3>4. Add(b) > 0
      <4> HIDE DEF b, D
      <4> QED BY <2>7, <2>10, <3>1, <3>2, <3>3
    <3> HIDE DEF b
    <3> QED BY <2>4, <2>9, <2>10, <3>4
  <2>12. CASE HasPerImagePricing(p, m) /\ ImageOf(r).outputs > 0
    <3>1. OutRates(p, m, ImageOf(r).size) # {}
      BY <2>8, <2>12, Zenon DEF ImageUnpriced
    <3>2. y > 0
      <4>1. \A z \in OutRates(p, m, ImageOf(r).size) : z > 0
        BY <2>1, ChargingImages
      <4> QED BY <2>3, <2>12, <3>1, <4>1 DEF OutRate, RateOf
    <3>3. y * o > 0
      BY <2>2, <2>9, <2>12, <3>2
    <3> HIDE DEF b
    <3> QED BY <2>4, <2>9, <2>10, <3>3
  <2>13. \/ HasImageTokenPricing(p, m) /\ Counted(ImageConfidence(r))
         \/ HasPerImagePricing(p, m) /\ ImageOf(r).outputs > 0
    BY <2>1, Zenon DEF MustPay, Counted
  <2> QED BY <2>11, <2>12, <2>13
<1> QED BY <1>1, <1>2

\* A total is complete when its rows are.
LEMMA SummaryComplete ==
  ASSUME NEW p, Rated(p), NEW t, Table(t), NEW s, Seen(s, t), NEW since,
         Summary(p, s, since).cost.state = "complete"
  PROVE  \A r \in BagToSet(t) : r.at >= since => RowComplete(p, r)
<1> DEFINE f == Scope(since, Blank, {})
<1>1. InScope(t, f) = {r \in DOMAIN t : r.at >= since}
  BY ScopeFilter
<1>2. Summary(p, s, since) = Whole(p, Snapshot(s, f, {}))
  BY DEF Summary, SummaryReportSnapshot
<1> HIDE DEF f
<1>3. Whole(p, Snapshot(s, f, {})).cost.state = "complete" <=> \A r \in InScope(t, f) : RowComplete(p, r)
  BY WholeComplete
<1>4. \A r \in InScope(t, f) : RowComplete(p, r)
  BY <1>2, <1>3, Zenon
<1> QED BY <1>1, <1>4 DEF BagToSet

\* What a total that is called complete includes of each request is not nothing.
THEOREM CompleteIsCharged == Spec => []CompleteMeansCharged
<1>1. ReportsInv => CompleteMeansCharged
  <2> SUFFICES ASSUME ReportsInv, Answered, WrittenRatesCharge(prices), NEW since \in Sinces,
                      Summary(prices, reader.seen, since).cost.state = "complete",
                      NEW r \in BagToSet(reader.tx), r.at >= since, MustPay(prices, r)
               PROVE  RequestCost(prices, r) > 0
    BY DEF CompleteMeansCharged
  <2>1. Rated(prices) /\ Table(reader.tx) /\ Seen(reader.seen, reader.tx)
    BY AnsweredMeans
  <2>2. RowComplete(prices, r)
    BY <2>1, SummaryComplete
  <2>3. Row(r)
    BY <2>1 DEF BagToSet, Table
  <2>4. prices \in Parse(file)
    BY DEF ReportsInv
  <2> QED BY <2>1, <2>2, <2>3, <2>4, CompleteRowPays
<1> QED BY <1>1, ReportsInvariant, PTL

-----------------------------------------------------------------------------
(* The reports of one moment agree                                          *)

\* The requests of a function of buckets, as ReportIsOneMoment adds them up.
RequestsOf(S, f) == Add([b \in S |-> f[b].requests])

\* The image requests are counted alike by the text and by the image buckets.
LEMMA ImagesCounted ==
  ASSUME NEW t, Table(t), NEW f
  PROVE  /\ RequestsOf({b \in DOMAIN TextBuckets(t, f) : b.image}, TextBuckets(t, f))
              = Total(t, ColOne(t), ImagesInScope(t, f))
         /\ RequestsOf(DOMAIN ImageBuckets(t, f), ImageBuckets(t, f)) = Total(t, ColOne(t), ImagesInScope(t, f))
<1> DEFINE text == TextBuckets(t, f)
           images == ImageBuckets(t, f)
           T == {b \in DOMAIN text : b.image}
           I == DOMAIN images
           k == [b \in T |-> text[b].requests]
           m == [b \in I |-> images[b].requests]
<1>1. ColOne(t) \in Column(t)
  BY FlagColumns
<1>2. T \in SUBSET DOMAIN text /\ I \in SUBSET DOMAIN images
  OBVIOUS
<1>3. ASSUME NEW b \in T PROVE k[b] = Total(t, ColOne(t), TextFiber(t, f, b))
  <2>1. b \in DOMAIN text /\ k[b] = text[b].requests
    OBVIOUS
  <2> HIDE DEF k, T
  <2> QED BY <2>1, TextBucketsAre DEF IsTextBucket
<1>4. ASSUME NEW b \in I PROVE m[b] = Total(t, ColOne(t), ImageFiber(t, f, b))
  <2>1. b \in DOMAIN images /\ m[b] = images[b].requests
    OBVIOUS
  <2> HIDE DEF m, I
  <2>2. IsImageBucket(t, images[b], ImageFiber(t, f, b))
    BY <2>1, ImageBucketsAre
  <2>3. images[b].requests = Total(t, ColOne(t), ImageFiber(t, f, b))
    BY <2>2, Zenon DEF IsImageBucket
  <2> QED BY <2>1, <2>3, Zenon
<1>5. k = [b \in T |-> k[b]] /\ m = [b \in I |-> m[b]]
  OBVIOUS
<1>6. Add(k) = Total(t, ColOne(t), {r \in InScope(t, f) : TextCell(r, f) \in T})
  <2> HIDE DEF k, T
  <2> QED BY <1>1, <1>2, <1>3, <1>5, TextFibers
<1>7. Add(m) = Total(t, ColOne(t), {r \in ImagesInScope(t, f) : ImageCell(r, f) \in I})
  <2> HIDE DEF m, I
  <2> QED BY <1>1, <1>2, <1>4, <1>5, ImageFibers
<1>8. {r \in InScope(t, f) : TextCell(r, f) \in T} = ImagesInScope(t, f)
  <2>1. ASSUME NEW r \in InScope(t, f) PROVE TextCell(r, f) \in T <=> IsImage(r)
    BY TextBucketsAre, CellIs
  <2> HIDE DEF T
  <2> QED BY <2>1 DEF ImagesInScope
<1>9. {r \in ImagesInScope(t, f) : ImageCell(r, f) \in I} = ImagesInScope(t, f)
  BY ImageBucketsAre
<1> HIDE DEF text, images, k, m, T, I
<1>10. RequestsOf(T, text) = Add(k) /\ RequestsOf(I, images) = Add(m)
  BY DEF RequestsOf, k, m
<1> QED BY <1>6, <1>7, <1>8, <1>9, <1>10, Zenon DEF text, images, T, I

\* The models of the rows are the models of the text buckets.
LEMMA SameModels ==
  ASSUME NEW t, Table(t), NEW f, IsFilter(f)
  PROVE  {g.model : g \in DOMAIN UsageRows(t, f, {"model"})} = {b.cell.model : b \in DOMAIN TextBuckets(t, f)}
<1> DEFINE S == InScope(t, f)
           M == {EffectiveModel(r) : r \in S}
<1>1. \A r : GroupOf(r, {"model"}).model = EffectiveModel(r)
  BY DEF GroupOf
<1>2. \A r : TextCell(r, f).cell.model = EffectiveModel(r)
  BY CellIs
<1>3. DOMAIN UsageRows(t, f, {"model"}) = {GroupOf(r, {"model"}) : r \in S}
  <2>1. DOMAIN UsageRows(t, f, {"model"}) = Groups(t, f, {"model"})
    BY UsageRowsAre
  <2> QED BY <2>1, Zenon DEF Groups
<1>4. DOMAIN TextBuckets(t, f) = {TextCell(r, f) : r \in S}
  BY TextBucketsAre
<1> HIDE DEF S
<1>5. {g.model : g \in DOMAIN UsageRows(t, f, {"model"})} = M
  BY <1>1, <1>3
<1>6. {b.cell.model : b \in DOMAIN TextBuckets(t, f)} = M
  BY <1>2, <1>4
<1> QED BY <1>5, <1>6, Zenon

\* The image report looks at the image requests of the scope.
LEMMA ImageFilter ==
  ASSUME NEW since
  PROVE  /\ IsFilter(Images(since)) /\ Images(since).by = {"operation"}
         /\ \A t : InScope(t, Images(since)) = ImagesInScope(t, Scope(since, Blank, {}))
<1>1. /\ IsFilter(Images(since)) /\ Images(since).by = {"operation"} /\ Images(since).since = since
      /\ Images(since).key = Blank /\ Images(since).imageOnly = TRUE
  BY DEF Images, IsFilter
<1>2. ASSUME NEW t PROVE InScope(t, Images(since)) = ImagesInScope(t, Scope(since, Blank, {}))
  <2>1. InScope(t, Images(since)) = {r \in DOMAIN t : r.at >= since /\ IsImage(r)}
    BY <1>1 DEF InScope, BagToSet
  <2>2. InScope(t, Scope(since, Blank, {})) = {r \in DOMAIN t : r.at >= since}
    BY ScopeFilter
  <2> QED BY <2>1, <2>2 DEF ImagesInScope
<1> QED BY <1>1, <1>2

\* What the image requests cost is a part of what the scope costs.
LEMMA ImagesCostLess ==
  ASSUME NEW p, Rated(p), NEW t, Table(t), Inside(t), NEW s, Seen(s, t), NEW since
  PROVE  ImageSummary(p, s, since).amount <= Summary(p, s, since).cost.amount
<1> DEFINE f == Scope(since, Blank, {})
           S == InScope(t, f)
           A == ImagesInScope(t, f)
           c == ColCost(p, t)
<1>1. Summary(p, s, since).cost.amount = Total(t, c, S)
  BY Parts DEF IsRowOf
<1>2. ImageSummary(p, s, since).amount = Total(t, c, A)
  <2> DEFINE i == Images(since)
  <2>1. IsFilter(i) /\ InScope(t, i) = A
    BY ImageFilter
  <2>2. Snapshot(s, i, {}).text = ImageReportSnapshot(s, since).text
        /\ Snapshot(s, i, {}).image = ImageReportSnapshot(s, since).image
    BY DEF Snapshot, ImageReportSnapshot
  <2>3. Whole(p, Snapshot(s, i, {})).cost
          = OrElse(EvaluateCostBuckets(p, Snapshot(s, i, {}).text, Snapshot(s, i, {}).image, {}),
                   Everything, CompleteZeroCost)
    BY DEF Whole
  <2>4. ImageSummary(p, s, since) = Whole(p, Snapshot(s, i, {})).cost
    BY <2>2, <2>3, Zenon DEF ImageSummary
  <2> HIDE DEF i, A
  <2>5. IsRowOf(p, t, Whole(p, Snapshot(s, i, {})), InScope(t, i))
    BY <2>1, WholeIs
  <2> QED BY <2>1, <2>4, <2>5, Zenon DEF IsRowOf
<1>3. c \in Column(t) /\ \A r \in DOMAIN t : c[r] \in Nat
  BY CostColumn
<1>4. S \in SUBSET DOMAIN t /\ A \in SUBSET DOMAIN t /\ A \subseteq S
  BY ScopeIs DEF ImagesInScope
<1> HIDE DEF f, S, A, c
<1>5. Apart(A, S \ A) /\ A \cup (S \ A) = S /\ S \ A \in SUBSET DOMAIN t
  BY <1>4 DEF Apart
<1>6. Total(t, c, S) = Total(t, c, A) + Total(t, c, S \ A)
  <2>1. Total(t, c, A \cup (S \ A)) = Total(t, c, A) + Total(t, c, S \ A)
    BY <1>3, <1>4, <1>5, TotalSplit
  <2> QED BY <1>5, <2>1, Zenon
<1>7. Total(t, c, S \ A) \in Nat
  <2>1. \A r \in S \ A : c[r] >= 0
    BY <1>3, <1>4
  <2> QED BY <1>3, <1>5, <2>1, TotalSign
<1>8. Total(t, c, A) \in Int
  BY <1>3, <1>4, TotalType
<1>9. Total(t, c, A) <= Total(t, c, S)
  BY <1>6, <1>7, <1>8
<1> QED BY <1>1, <1>2, <1>9, Zenon

\* The rows of the image report count every image request once.
LEMMA ImageRowsCount ==
  ASSUME NEW p, Rated(p), NEW t, Table(t), NEW s, Seen(s, t), NEW since
  PROVE  Totals(ImageModels(p, s, since), "requests") = Total(t, ColOne(t), ImagesInScope(t, Scope(since, Blank, {})))
<1> DEFINE i == Images(since)
           grouping == {"model", "operation"}
           report == ImageModels(p, s, since)
           row == Whole(p, Snapshot(s, i, {}))
<1>1. IsFilter(i) /\ Fits(i, grouping)
  BY ImageFilter DEF Fits
<1>2. report = Priced(p, Snapshot(s, i, grouping), grouping)
  BY DEF ImageModels, ImageReportSnapshot
<1>3. InScope(t, i) = ImagesInScope(t, Scope(since, Blank, {}))
  BY ImageFilter
<1> HIDE DEF i, grouping, report
<1>4. IsReport(p, t, i, grouping, report)
  BY <1>1, <1>2, PricedIs
<1>5. IsRowOf(p, t, row, InScope(t, i))
  BY <1>1, WholeIs
<1> HIDE DEF row
<1>6. Agree(Inside(t), report, row)
  BY <1>4, <1>5, ReportAgrees
<1>7. "requests" \in UsageFields /\ ColUsage(t, "requests") = ColOne(t)
  BY DEF UsageFields, ColUsage
<1>8. row.usage["requests"] = Total(t, ColOne(t), InScope(t, i))
  BY <1>5, <1>7, Zenon DEF IsRowOf
<1>9. Totals(report, "requests") = row.usage["requests"]
  BY <1>6 DEF Agree
<1> QED BY <1>3, <1>8, <1>9, Zenon DEF report

\* When the overview is partial so are the assets: one of the models has the gap.
LEMMA PartialAlike ==
  ASSUME NEW p, Rated(p), NEW t, Table(t), NEW s, Seen(s, t), NEW since, Overview(p, s, since).status = "partial"
  PROVE  ModelAssets(p, s, since).costPartial
<1> DEFINE f == Scope(since, Blank, {})
           whole == Whole(p, Snapshot(s, f, {}))
           items == Priced(p, Snapshot(s, f, {"model"}), {"model"})
<1>1. whole.cost.state = "partial"
  BY DEF Overview, OverviewReportSnapshot
<1>2. IsFilter(f) /\ Fits(f, {"model"})
  BY ScopeFilter DEF Fits
<1>3. ModelAssets(p, s, since).costPartial <=>
        \E g \in DOMAIN items : items[g].cost.state # "complete" \/ ~(HasTextPricing(p, g.model) \/ HasMultimodal(p, g.model))
  BY DEF ModelAssets, ModelAssetsReportSnapshot
<1> HIDE DEF f
<1>4. PICK r \in InScope(t, f) : ~RowComplete(p, r)
  <2>1. whole.cost.state = "complete" <=> \A r \in InScope(t, f) : RowComplete(p, r)
    BY WholeComplete
  <2> HIDE DEF whole
  <2> QED BY <1>1, <2>1
<1> DEFINE g == GroupOf(r, {"model"})
<1>5. g \in Groups(t, f, {"model"}) /\ r \in Members(t, f, {"model"}, g)
  BY DEF Groups, Members
<1> HIDE DEF g, items
<1>6. Result(p, t, f, {"model"}, g).state # "complete"
  BY <1>2, <1>4, <1>5, CompleteRows
<1>7. g \in DOMAIN items /\ items[g].cost = Result(p, t, f, {"model"}, g)
  BY <1>2, <1>5, PricedRows DEF items
<1>8. items[g].cost.state # "complete"
  BY <1>6, <1>7, Zenon
<1> QED BY <1>3, <1>7, <1>8, Zenon

\* The queries of a report have seen one table, and what the reports of the
\* console say of it agrees.
THEOREM ReportsSeeOneMoment == Spec => []ReportIsOneMoment
<1>1. ReportsInv => ReportIsOneMoment
  <2> SUFFICES ASSUME ReportsInv, Answered, NEW since \in Sinces
      PROVE LET s == reader.seen
                snap == ModelsReportSnapshot(s, since, Blank)
                n(S, f) == Add([b \in S |-> f[b].requests])
            IN  /\ n({b \in DOMAIN snap.text : b.image}, snap.text) = n(DOMAIN snap.image, snap.image)
                /\ {g.model : g \in DOMAIN snap.rows} = {b.cell.model : b \in DOMAIN snap.text}
                /\ ReasoningIsInside => ImageSummary(prices, s, since).amount <= Summary(prices, s, since).cost.amount
                /\ Totals(ImageModels(prices, s, since), "requests") = n(DOMAIN snap.image, snap.image)
                /\ Overview(prices, s, since).status = "partial" => ModelAssets(prices, s, since).costPartial
    BY Zenon DEF ReportIsOneMoment
  <2>1. Rated(prices) /\ Table(reader.tx) /\ Seen(reader.seen, reader.tx) /\ (ReasoningIsInside <=> Inside(reader.tx))
    BY AnsweredMeans
  <2> DEFINE f == Scope(since, Blank, {})
             snap == ModelsReportSnapshot(reader.seen, since, Blank)
  <2>2. PICK p, t, s : p = prices /\ t = reader.tx /\ s = reader.seen
    OBVIOUS
  <2>3. Rated(p) /\ Table(t) /\ Seen(s, t) /\ (ReasoningIsInside <=> Inside(t)) /\ IsFilter(f)
    BY <2>1, <2>2, ScopeFilter
  <2>4. snap.rows = UsageRows(t, f, {"model"}) /\ snap.text = TextBuckets(t, f) /\ snap.image = ImageBuckets(t, f)
    BY <2>2, <2>3 DEF ModelsReportSnapshot, Snapshot, Seen
  <2>5. Totals(ImageModels(p, s, since), "requests") = Total(t, ColOne(t), ImagesInScope(t, f))
    BY <2>3, ImageRowsCount
  <2>6. ReasoningIsInside => ImageSummary(p, s, since).amount <= Summary(p, s, since).cost.amount
    BY <2>3, ImagesCostLess
  <2>7. Overview(p, s, since).status = "partial" => ModelAssets(p, s, since).costPartial
    BY <2>3, PartialAlike
  <2> HIDE DEF f
  <2>8. /\ RequestsOf({b \in DOMAIN TextBuckets(t, f) : b.image}, TextBuckets(t, f))
              = Total(t, ColOne(t), ImagesInScope(t, f))
        /\ RequestsOf(DOMAIN ImageBuckets(t, f), ImageBuckets(t, f)) = Total(t, ColOne(t), ImagesInScope(t, f))
    BY <2>3, ImagesCounted
  <2>9. {g.model : g \in DOMAIN UsageRows(t, f, {"model"})} = {b.cell.model : b \in DOMAIN TextBuckets(t, f)}
    BY <2>3, SameModels
  <2> HIDE DEF snap
  <2>10. /\ RequestsOf({b \in DOMAIN snap.text : b.image}, snap.text) = RequestsOf(DOMAIN snap.image, snap.image)
         /\ Totals(ImageModels(p, s, since), "requests") = RequestsOf(DOMAIN snap.image, snap.image)
         /\ {g.model : g \in DOMAIN snap.rows} = {b.cell.model : b \in DOMAIN snap.text}
    BY <2>4, <2>5, <2>8, <2>9
  <2> QED BY <2>2, <2>6, <2>7, <2>10, Zenon DEF RequestsOf, snap
<1> QED BY <1>1, ReportsInvariant, PTL
=============================================================================
