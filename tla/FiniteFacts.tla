----------------------------- MODULE FiniteFacts -----------------------------
(* Facts about finite sets that the proofs of the components rest on: that   *)
(* bounded sets of numbers have a greatest element, that a sum of natural    *)
(* numbers is one, and that sorting by distinct keys gives each element its  *)
(* place.  The first two are inductions; the library's theorem that the      *)
(* finite subsets of a set are well-founded gives them without an induction  *)
(* rule: a counterexample would have a least one.                            *)
EXTENDS FiniteSetsExt, FiniteSetTheorems, TLAPS

-----------------------------------------------------------------------------
(* Least elements *)

\* Of sets of subsets of a finite set, one is least.
LEMMA MinimalSubset ==
    ASSUME NEW S, IsFiniteSet(S), NEW A \in SUBSET SUBSET S, A # {}
    PROVE  \E T \in A : \A U \in A : U \subseteq T => U = T
<1>1. IsWellFoundedOn(StrictSubsetOrdering(S), SUBSET S)
  BY FS_StrictSubsetOrderingWellFounded, FS_FiniteSubsetsOfFinite
<1>2. PICK T \in A : \A U \in A : ~(<<U, T>> \in StrictSubsetOrdering(S))
  BY <1>1, WFMin
<1> QED  BY <1>2 DEF StrictSubsetOrdering

LEMMA LeastNatural ==
    ASSUME NEW A \in SUBSET Nat, A # {}
    PROVE  \E m \in A : \A n \in A : m <= n
<1>1. PICK b \in A : TRUE
  OBVIOUS
<1> DEFINE Upto == 0..b
           Below == {0..n : n \in {a \in A : a <= b}}
<1>2. IsFiniteSet(Upto)
  BY FS_Interval
<1>3. Below \in SUBSET SUBSET Upto /\ Upto \in Below
  BY <1>1
<1>4. PICK T \in Below : \A U \in Below : U \subseteq T => U = T
  <2>1. Below # {}
    BY <1>3
  <2> HIDE DEF Upto, Below
  <2> QED  BY <1>2, <1>3, <2>1, MinimalSubset
<1>5. PICK m \in A : m <= b /\ T = 0..m
  BY <1>4
<1>6. ASSUME NEW n \in A, n < m PROVE FALSE
  <2>1. 0..n \in Below
    BY <1>5, <1>6
  <2>2. 0..n \subseteq T /\ m \in T /\ m \notin 0..n
    BY <1>5, <1>6
  <2> QED  BY <1>4, <2>1, <2>2
<1> QED  BY <1>5, <1>6

\* Max picks a greatest element whenever the set has a bound.
LEMMA MaxIsGreatest ==
    ASSUME NEW A \in SUBSET Nat, A # {}, NEW b \in Nat, \A n \in A : n <= b
    PROVE  Max(A) \in A /\ \A n \in A : n <= Max(A)
<1> DEFINE Bounds == {u \in Nat : \A n \in A : n <= u}
<1>1. PICK m \in Bounds : \A u \in Bounds : m <= u
  <2>1. b \in Bounds
    OBVIOUS
  <2> QED  BY <2>1, LeastNatural
<1>2. m \in A
  <2> SUFFICES ASSUME m \notin A PROVE FALSE
    OBVIOUS
  <2>1. \A n \in A : n <= m - 1
    BY <1>1
  <2>2. m - 1 \in Nat
    <3>1. PICK n \in A : n <= m - 1
      BY <2>1
    <3>2. n \in Nat /\ m \in Nat
      OBVIOUS
    <3> QED  BY <3>1, <3>2
  <2>3. m - 1 \in Bounds
    BY <2>1, <2>2
  <2> QED  BY <1>1, <2>3
<1>3. \A n \in A : m >= n
  BY <1>1
<1>4. \E x \in A : \A y \in A : x >= y
  BY <1>2, <1>3
<1>5. Max(A) \in A /\ \A y \in A : Max(A) >= y
  BY <1>4 DEF Max
<1> QED  BY <1>5

-----------------------------------------------------------------------------
(* Sums *)

Pick(s) == CHOOSE x \in s : TRUE

\* What SumFunctionOnSet computes from smaller sums.
Added(v, g, s) == IF s = {} THEN 0 ELSE v[Pick(s)] + g[s \ {Pick(s)}]

\* g is the sum of v over every subset of S.
Sums(g, v, S) == g = [s \in SUBSET S |-> Added(v, g, s)]

LEMMA SumsAgree ==
    ASSUME NEW S, IsFiniteSet(S), NEW v, NEW T \in SUBSET S, NEW U \in SUBSET S,
           NEW g, NEW h, Sums(g, v, T), Sums(h, v, U),
           NEW s, s \subseteq T, s \subseteq U
    PROVE  g[s] = h[s]
<1> DEFINE Differ == {x \in SUBSET s : g[x] # h[x]}
<1> SUFFICES ASSUME Differ # {} PROVE FALSE
  OBVIOUS
<1>1. PICK x \in Differ : \A y \in Differ : y \subseteq x => y = x
  <2>1. Differ \in SUBSET SUBSET S
    OBVIOUS
  <2> HIDE DEF Differ
  <2> QED  BY <2>1, MinimalSubset
<1>2. g[x] = Added(v, g, x) /\ h[x] = Added(v, h, x)
  <2>1. x \in SUBSET T /\ x \in SUBSET U
    BY <1>1
  <2> QED  BY <2>1 DEF Sums
<1>3. x # {} /\ Pick(x) \in x
  BY <1>1, <1>2 DEF Added, Pick
<1>4. x \ {Pick(x)} \notin Differ
  BY <1>1, <1>3
<1>5. g[x \ {Pick(x)}] = h[x \ {Pick(x)}]
  BY <1>1, <1>4
<1> QED  BY <1>1, <1>2, <1>3, <1>5 DEF Added

LEMMA SumsExist ==
    ASSUME NEW S, IsFiniteSet(S), NEW v
    PROVE  \E g : Sums(g, v, S)
<1> DEFINE Without == {T \in SUBSET S : ~ \E g : Sums(g, v, T)}
<1> SUFFICES ASSUME Without # {} PROVE FALSE
  OBVIOUS
<1>1. PICK T \in Without : \A U \in Without : U \subseteq T => U = T
  <2>1. Without \in SUBSET SUBSET S
    OBVIOUS
  <2> HIDE DEF Without
  <2> QED  BY <2>1, MinimalSubset
<1> DEFINE G(U) == CHOOSE g : Sums(g, v, U)
<1>2. ASSUME NEW U \in SUBSET T, U # T PROVE Sums(G(U), v, U)
  <2>1. U \notin Without
    BY <1>1, <1>2
  <2>2. \E g : Sums(g, v, U)
    BY <2>1
  <2> QED  BY <2>2
<1> HIDE DEF G
<1> DEFINE h == [s \in SUBSET T |->
                    IF s = {} THEN 0 ELSE v[Pick(s)] + G(s \ {Pick(s)})[s \ {Pick(s)}]]
<1>3. ASSUME NEW u \in SUBSET T, u # T PROVE h[u] = G(u)[u]
  <2>1. G(u)[u] = Added(v, G(u), u)
    BY <1>2, <1>3 DEF Sums
  <2>2. CASE u = {}
    BY <2>1, <2>2 DEF Added
  <2>3. CASE u # {}
    <3> DEFINE y == u \ {Pick(u)}
    <3>1. y \in SUBSET T /\ y # T /\ y \subseteq u
      BY <1>3, <2>3 DEF Pick
    <3>2. G(u)[y] = G(y)[y]
      <4>1. Sums(G(u), v, u) /\ Sums(G(y), v, y)
        BY <1>2, <1>3, <3>1
      <4>2. u \in SUBSET S /\ y \in SUBSET S
        BY <3>1
      <4> HIDE DEF y
      <4> QED  BY <3>1, <4>1, <4>2, SumsAgree
    <3> QED  BY <2>1, <2>3, <3>2 DEF Added
  <2> QED  BY <2>2, <2>3
<1>4. ASSUME NEW s \in SUBSET T PROVE h[s] = Added(v, h, s)
  <2>1. CASE s = {}
    BY <2>1 DEF Added
  <2>2. CASE s # {}
    <3>1. s \ {Pick(s)} \in SUBSET T /\ s \ {Pick(s)} # T
      BY <2>2 DEF Pick
    <3>2. h[s \ {Pick(s)}] = G(s \ {Pick(s)})[s \ {Pick(s)}]
      BY <1>3, <3>1
    <3> QED  BY <2>2, <3>2 DEF Added
  <2> QED  BY <2>1, <2>2
<1>5. Sums(h, v, T)
  <2>1. h = [s \in SUBSET T |-> h[s]]
    OBVIOUS
  <2> HIDE DEF h
  <2> QED  BY <1>4, <2>1 DEF Sums
<1> QED  BY <1>1, <1>5

\* A sum of natural numbers over a finite set is a natural number.
LEMMA SumIsNatural ==
    ASSUME NEW S, IsFiniteSet(S), NEW v, \A x \in S : v[x] \in Nat
    PROVE  SumFunctionOnSet(v, S) \in Nat
<1> DEFINE g == CHOOSE f : Sums(f, v, S)
<1>1. SumFunctionOnSet(v, S) = g[S]
  BY DEF SumFunctionOnSet, FoldFunctionOnSet, MapThenFoldSet, Sums, Added, Pick
<1>2. Sums(g, v, S)
  BY SumsExist
<1> HIDE DEF g
<1> DEFINE Other == {s \in SUBSET S : g[s] \notin Nat}
<1>3. Other = {}
  <2> SUFFICES ASSUME Other # {} PROVE FALSE
    OBVIOUS
  <2>1. PICK s \in Other : \A u \in Other : u \subseteq s => u = s
    <3>1. Other \in SUBSET SUBSET S
      OBVIOUS
    <3> HIDE DEF Other
    <3> QED  BY <3>1, MinimalSubset
  <2>2. g[s] = Added(v, g, s)
    BY <1>2, <2>1 DEF Sums
  <2>3. s # {} /\ Pick(s) \in s
    BY <2>1, <2>2 DEF Added, Pick
  <2>4. g[s \ {Pick(s)}] \in Nat /\ v[Pick(s)] \in Nat
    BY <2>1, <2>3
  <2> QED  BY <2>1, <2>2, <2>3, <2>4 DEF Added
<1> QED  BY <1>1, <1>3

-----------------------------------------------------------------------------
(* Ranks *)

\* How many elements of S come before x in the order of their keys.
Rank(S, key, x) == Cardinality({y \in S : key[y] < key[x]})

LEMMA RanksGrow ==
    ASSUME NEW S, IsFiniteSet(S), NEW key \in [S -> Int], NEW x \in S, NEW z \in S,
           key[x] < key[z]
    PROVE  Rank(S, key, x) < Rank(S, key, z)
<1> DEFINE Before(a) == {y \in S : key[y] < key[a]}
<1>1. IsFiniteSet(Before(x)) /\ IsFiniteSet(Before(z))
  BY FS_Subset
<1>2. Before(x) \in SUBSET Before(z)
  <2>1. \A y \in S : key[y] < key[x] => key[y] < key[z]
    OBVIOUS
  <2> QED  BY <2>1
<1>3. x \in Before(z) /\ x \notin Before(x)
  OBVIOUS
<1> HIDE DEF Before
<1>4. /\ Cardinality(Before(x)) <= Cardinality(Before(z))
      /\ Cardinality(Before(z)) # Cardinality(Before(x))
  BY <1>1, <1>2, <1>3, FS_Subset
<1>5. Cardinality(Before(x)) \in Nat /\ Cardinality(Before(z)) \in Nat
  BY <1>1, FS_CardinalityType
<1>6. Cardinality(Before(x)) < Cardinality(Before(z))
  BY <1>4, <1>5
<1> QED  BY <1>6 DEF Before, Rank

LEMMA RankRange ==
    ASSUME NEW S, IsFiniteSet(S), NEW key \in [S -> Int], NEW x \in S
    PROVE  Rank(S, key, x) \in 0..Cardinality(S) - 1
<1> DEFINE Before == {y \in S : key[y] < key[x]}
<1>1. Before \in SUBSET (S \ {x})
  OBVIOUS
<1>2. /\ IsFiniteSet(S \ {x}) /\ Cardinality(S \ {x}) = Cardinality(S) - 1
      /\ Cardinality(S) \in Nat
  BY FS_RemoveElement, FS_CardinalityType
<1> HIDE DEF Before
<1>3. Cardinality(Before) \in Nat /\ Cardinality(Before) <= Cardinality(S) - 1
  BY <1>1, <1>2, FS_Subset, FS_CardinalityType
<1>4. Cardinality(Before) \in 0..Cardinality(S) - 1
  BY <1>2, <1>3
<1> QED  BY <1>4 DEF Before, Rank

\* If no two elements have the same key, every place is taken, and once.
LEMMA RankedOnce ==
    ASSUME NEW S, IsFiniteSet(S), NEW key \in [S -> Int],
           \A x, y \in S : key[x] = key[y] => x = y
    PROVE  /\ \A i \in 1..Cardinality(S) : \E x \in S : Rank(S, key, x) = i - 1
           /\ \A x, y \in S : Rank(S, key, x) = Rank(S, key, y) => x = y
<1> DEFINE n == Cardinality(S)
           rank == [x \in S |-> Rank(S, key, x)]
<1>1. n \in Nat
  BY FS_CardinalityType
<1>2. rank \in [S -> 0..n - 1]
  BY RankRange
<1>3. ASSUME NEW x \in S, NEW y \in S, Rank(S, key, x) = Rank(S, key, y) PROVE x = y
  <2>1. /\ Rank(S, key, x) \in 0..Cardinality(S) - 1
        /\ Rank(S, key, y) \in 0..Cardinality(S) - 1
    BY RankRange
  <2>2. ~(key[x] < key[y]) /\ ~(key[y] < key[x])
    BY <1>3, <2>1, RanksGrow
  <2>3. key[x] = key[y]
    BY <2>2
  <2> QED  BY <2>3
<1>4. IsFiniteSet(0..n - 1) /\ Cardinality(0..n - 1) = n
  BY <1>1, FS_Interval
<1>5. rank \in Injection(S, 0..n - 1)
  BY <1>2, <1>3 DEF Injection, IsInjective
<1>6. rank \in Surjection(S, 0..n - 1)
  <2> HIDE DEF rank
  <2> QED  BY <1>4, <1>5, FS_Injection
<1>7. ASSUME NEW i \in 1..Cardinality(S) PROVE \E x \in S : Rank(S, key, x) = i - 1
  <2>1. i - 1 \in 0..n - 1
    BY <1>1
  <2>2. PICK x \in S : rank[x] = i - 1
    <3> HIDE DEF rank
    <3> QED  BY <1>6, <2>1 DEF Surjection
  <2> QED  BY <2>2
<1> QED  BY <1>3, <1>7

\* A sequence in which each element stands at its rank is in the order of the
\* keys and leaves none out.
LEMMA PlacesInOrder ==
    ASSUME NEW S, IsFiniteSet(S), NEW key \in [S -> Int],
           \A x, y \in S : key[x] = key[y] => x = y,
           NEW place,
           \A i \in 1..Cardinality(S) : place[i] \in S /\ Rank(S, key, place[i]) = i - 1
    PROVE  /\ \A i, j \in 1..Cardinality(S) : i < j => key[place[i]] < key[place[j]]
           /\ \A x \in S : \E i \in 1..Cardinality(S) : place[i] = x
<1> DEFINE n == Cardinality(S)
<1>1. n \in Nat
  BY FS_CardinalityType
<1>2. ASSUME NEW i \in 1..n, NEW j \in 1..n, i < j
      PROVE  key[place[i]] < key[place[j]]
  <2>1. /\ place[i] \in S /\ place[j] \in S
        /\ Rank(S, key, place[i]) = i - 1 /\ Rank(S, key, place[j]) = j - 1
    OBVIOUS
  <2>2. key[place[i]] \in Int /\ key[place[j]] \in Int
    BY <2>1
  <2>3. key[place[i]] # key[place[j]]
    BY <1>2, <2>1
  <2>4. ~(key[place[j]] < key[place[i]])
    <3>1. key[place[j]] < key[place[i]] => j - 1 < i - 1
      BY <2>1, RanksGrow
    <3> QED  BY <1>1, <1>2, <3>1
  <2> QED  BY <2>2, <2>3, <2>4
<1>3. ASSUME NEW x \in S PROVE \E i \in 1..n : place[i] = x
  <2> DEFINE i == Rank(S, key, x) + 1
  <2>1. Rank(S, key, x) \in 0..n - 1
    BY RankRange
  <2>2. i \in 1..n /\ i - 1 = Rank(S, key, x)
    BY <1>1, <2>1
  <2> HIDE DEF i
  <2>3. place[i] \in S /\ Rank(S, key, place[i]) = Rank(S, key, x)
    BY <2>2
  <2>4. place[i] = x
    BY <2>3, RankedOnce
  <2> QED  BY <2>2, <2>4
<1> QED  BY <1>2, <1>3

\* And the other way: in a sequence of all elements in the order of their keys,
\* each stands at its rank.
LEMMA SortedRank ==
    ASSUME NEW S, IsFiniteSet(S), NEW key \in [S -> Int],
           NEW s \in [1..Cardinality(S) -> S],
           \A i, j \in 1..Cardinality(S) : i < j => key[s[i]] < key[s[j]]
    PROVE  /\ \A i \in 1..Cardinality(S) : Rank(S, key, s[i]) = i - 1
           /\ \A x \in S : \E i \in 1..Cardinality(S) : s[i] = x
<1> DEFINE n == Cardinality(S)
<1>1. n \in Nat /\ IsFiniteSet(1..n) /\ Cardinality(1..n) = n
  BY FS_CardinalityType, FS_Interval
<1>2. ASSUME NEW i \in 1..n, NEW j \in 1..n, s[i] = s[j] PROVE i = j
  <2>1. key[s[i]] \in Int
    OBVIOUS
  <2>2. ~(i < j) /\ ~(j < i)
    BY <1>2, <2>1
  <2> QED  BY <1>1, <2>2
<1>3. s \in Injection(1..n, S)
  BY <1>2 DEF Injection, IsInjective
<1>4. s \in Surjection(1..n, S)
  BY <1>1, <1>3, FS_Injection
<1>5. \A x \in S : \E i \in 1..n : s[i] = x
  BY <1>4 DEF Surjection
<1>6. ASSUME NEW i \in 1..n PROVE Rank(S, key, s[i]) = i - 1
  <2> DEFINE Before == {y \in S : key[y] < key[s[i]]}
             some == [j \in 1..i - 1 |-> s[j]]
  <2>1. IsFiniteSet(1..i - 1) /\ Cardinality(1..i - 1) = i - 1
    <3>1. i \in Nat /\ 1 <= i /\ i - 1 \in Int
      BY <1>1
    <3>2. /\ IsFiniteSet(1..i - 1)
          /\ Cardinality(1..i - 1) = IF 1 > i - 1 THEN 0 ELSE i - 1 - 1 + 1
      BY <3>1, FS_Interval
    <3> QED  BY <3>1, <3>2
  <2>2. \A j \in 1..i - 1 : j \in 1..n /\ j < i
    BY <1>1
  <2>3. some \in [1..i - 1 -> Before]
    BY <2>2
  <2>4. ASSUME NEW y \in Before PROVE \E j \in 1..i - 1 : some[j] = y
    <3>1. PICK j \in 1..n : s[j] = y
      BY <1>5
    <3>2. key[s[j]] < key[s[i]] /\ key[s[j]] \in Int /\ key[s[i]] \in Int
      BY <3>1
    <3>3. ~(i < j) /\ i # j
      BY <3>2
    <3>4. j \in 1..i - 1
      BY <1>1, <3>3
    <3> QED  BY <3>1, <3>4
  <2>5. \A j, k \in 1..i - 1 : some[j] = some[k] => j = k
    BY <1>2, <2>2
  <2> HIDE DEF some, Before
  <2>6. some \in Injection(1..i - 1, Before) /\ some \in Surjection(1..i - 1, Before)
    BY <2>3, <2>4, <2>5 DEF Injection, IsInjective, Surjection
  <2>7. Cardinality(Before) = i - 1
    BY <2>1, <2>6, FS_Surjection
  <2> QED  BY <2>7 DEF Before, Rank
<1> QED  BY <1>5, <1>6
=============================================================================
