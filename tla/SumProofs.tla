------------------------------ MODULE SumProofs ------------------------------
(***************************************************************************)
(* Sums over finite sets.  MapThenSumSet and SumFunction are recursive     *)
(* functions on the subsets of a set; the lemmas here say that such a      *)
(* function exists and what it returns, by induction on a set of good      *)
(* subsets that takes the place of a predicate.                            *)
(***************************************************************************)
EXTENDS Integers, FiniteSets, FiniteSetTheorems, WellFoundedInduction, TLAPS

Picked(s) == CHOOSE x \in s : TRUE

\* g is the recursive function that sums f over the subsets of S.
Sums(g, f, S) ==
    g = [s \in SUBSET S |-> IF s = {} THEN 0 ELSE f[Picked(s)] + g[s \ {Picked(s)}]]

\* Induction over the subsets of a finite set.
LEMMA SubsetInduction ==
    ASSUME NEW S, IsFiniteSet(S), NEW Good,
           \A T \in SUBSET S : (\A x \in T : T \ {x} \in Good) => T \in Good
    PROVE  \A T \in SUBSET S : T \in Good
<1> DEFINE Bad == (SUBSET S) \ Good
<1>1. SUFFICES ASSUME Bad # {} PROVE FALSE
  OBVIOUS
<1>2. IsWellFoundedOn(StrictSubsetOrdering(S), SUBSET S)
  BY FS_StrictSubsetOrderingWellFounded, FS_FiniteSubsetsOfFinite
<1>3. PICK T \in Bad : \A U \in Bad : <<U, T>> \notin StrictSubsetOrdering(S)
  BY <1>1, <1>2, WFMin, Bad \subseteq SUBSET S
<1>4. ASSUME NEW x \in T PROVE T \ {x} \in Good
  <2>1. T \ {x} \in SUBSET S /\ T \in SUBSET S /\ T \ {x} \subseteq T /\ T \ {x} # T
    BY <1>4
  <2>2. <<T \ {x}, T>> \in StrictSubsetOrdering(S)
    BY <2>1 DEF StrictSubsetOrdering
  <2> QED
    BY <1>3, <2>1, <2>2
<1> QED
  BY <1>3, <1>4

\* Induction over the numbers.
LEMMA NumberInduction ==
    ASSUME NEW Good, 0 \in Good, \A n \in Nat : n \in Good => n + 1 \in Good
    PROVE  \A n \in Nat : n \in Good
<1> DEFINE Bad == Nat \ Good
<1>1. SUFFICES ASSUME Bad # {} PROVE FALSE
  OBVIOUS
<1> DEFINE Less == {pair \in Nat \X Nat : pair[1] < pair[2]}
<1>0. IsWellFoundedOn(Less, Nat)
  BY NatLessThanWellFounded, Zenon DEF OpToRel
<1>2. PICK n \in Bad : \A m \in Bad : <<m, n>> \notin Less
  <2> HIDE DEF Less
  <2> QED
    BY <1>0, <1>1, WFMin, Bad \subseteq Nat
<1>3. n \in Nat \ {0} /\ n - 1 \in Nat /\ n - 1 < n
  BY <1>2
<1>4. <<n - 1, n>> \in Less
  BY <1>3
<1>5. n - 1 \in Good
  BY <1>2, <1>3, <1>4
<1> QED
  BY <1>2, <1>3, <1>5

\* The recursion is well founded.
LEMMA SumsExist ==
    ASSUME NEW S, IsFiniteSet(S), NEW f
    PROVE  \E g : Sums(g, f, S)
<1> DEFINE Value(g, s) == IF s = {} THEN 0 ELSE f[Picked(s)] + g[s \ {Picked(s)}]
           UpTo(g, n) == /\ g = [s \in SUBSET S |-> g[s]]
                         /\ \A s \in SUBSET S : Cardinality(s) <= n => g[s] = Value(g, s)
           Good == {n \in Nat : \E g : UpTo(g, n)}
<1>0. ASSUME NEW s \in SUBSET S
      PROVE  /\ IsFiniteSet(s) /\ Cardinality(s) \in Nat
             /\ s # {} => /\ Picked(s) \in s
                          /\ s \ {Picked(s)} \in SUBSET S
                          /\ Cardinality(s \ {Picked(s)}) = Cardinality(s) - 1
             /\ Cardinality(s) = 0 => s = {}
  <2>1. IsFiniteSet(s) /\ Cardinality(s) \in Nat
    BY FS_Subset, FS_CardinalityType
  <2>2. s # {} => Picked(s) \in s
    BY DEF Picked
  <2> QED
    BY <2>1, <2>2, FS_RemoveElement, FS_EmptySet
<1>1. 0 \in Good
  <2> DEFINE g == [s \in SUBSET S |-> 0]
  <2>1. ASSUME NEW s \in SUBSET S, Cardinality(s) <= 0 PROVE s = {}
    <3>1. PICK k \in Nat : k = Cardinality(s)
      BY <1>0
    <3>2. k = 0
      BY <2>1, <3>1
    <3> QED
      BY <1>0, <3>1, <3>2
  <2>2. UpTo(g, 0)
    BY <2>1
  <2> HIDE DEF g, UpTo
  <2> QED
    BY <2>2
<1>2. ASSUME NEW n \in Nat, n \in Good PROVE n + 1 \in Good
  <2>1. PICK g : UpTo(g, n)
    BY <1>2
  <2> DEFINE h == [s \in SUBSET S |-> Value(g, s)]
  <2>2. ASSUME NEW s \in SUBSET S, Cardinality(s) <= n + 1 PROVE h[s] = Value(h, s)
    <3>1. CASE s = {}
      BY <3>1
    <3>2. CASE s # {}
      <4> DEFINE r == s \ {Picked(s)}
      <4>1. r \in SUBSET S /\ Cardinality(r) <= n
        BY <1>0, <2>2, <3>2
      <4>2. h[r] = g[r]
        BY <2>1, <4>1
      <4> QED
        BY <3>2, <4>2
    <3> QED
      BY <3>1, <3>2
  <2>3. UpTo(h, n + 1)
    BY <2>2
  <2> HIDE DEF h, UpTo
  <2> QED
    BY <2>3
<1>3. Cardinality(S) \in Good
  <2> HIDE DEF Good
  <2> QED
    BY <1>1, <1>2, <1>0, NumberInduction
<1>4. PICK g : UpTo(g, Cardinality(S))
  BY <1>3
<1>5. \A s \in SUBSET S : g[s] = Value(g, s)
  BY <1>4, FS_Subset
<1> QED
  BY <1>4, <1>5 DEF Sums

-----------------------------------------------------------------------------
(***************************************************************************)
(* What such a function returns.                                           *)
(***************************************************************************)

\* One step of the recursion.
LEMMA SumUnfolds ==
    ASSUME NEW S, NEW f, NEW g, Sums(g, f, S), NEW T \in SUBSET S
    PROVE  /\ T = {} => g[T] = 0
           /\ T # {} => /\ Picked(T) \in T
                        /\ g[T] = f[Picked(T)] + g[T \ {Picked(T)}]
<1>1. T # {} => Picked(T) \in T
  BY DEF Picked
<1> QED
  BY <1>1 DEF Sums

\* Sums of integers are integers, and those of naturals naturals.
LEMMA SumType ==
    ASSUME NEW S, IsFiniteSet(S), NEW f, NEW g, Sums(g, f, S),
           NEW Kind, Kind = Int \/ Kind = Nat, \A x \in S : f[x] \in Kind
    PROVE  \A T \in SUBSET S : g[T] \in Kind
<1> DEFINE Good == {T \in SUBSET S : g[T] \in Kind}
<1>1. ASSUME NEW T \in SUBSET S, \A x \in T : T \ {x} \in Good
      PROVE  T \in Good
  <2>1. CASE T = {}
    BY <2>1, SumUnfolds
  <2>2. CASE T # {}
    <3>1. Picked(T) \in T /\ g[T] = f[Picked(T)] + g[T \ {Picked(T)}]
      BY <2>2, SumUnfolds
    <3>2. PICK a \in Kind, b \in Kind : a = f[Picked(T)] /\ b = g[T \ {Picked(T)}]
      BY <1>1, <3>1
    <3>3. a + b \in Kind
      OBVIOUS
    <3> QED
      BY <3>1, <3>2, <3>3
  <2> QED
    BY <2>1, <2>2
<1> HIDE DEF Good
<1>2. \A T \in SUBSET S : T \in Good
  BY <1>1, SubsetInduction
<1> QED
  BY <1>2 DEF Good

\* The order in which the elements are taken does not matter.
LEMMA SumTakesAny ==
    ASSUME NEW S, IsFiniteSet(S), NEW f, NEW g, Sums(g, f, S), \A x \in S : f[x] \in Int
    PROVE  \A T \in SUBSET S : \A x \in T : g[T] = f[x] + g[T \ {x}]
<1> DEFINE Good == {T \in SUBSET S : \A x \in T : g[T] = f[x] + g[T \ {x}]}
<1>0. \A T \in SUBSET S : g[T] \in Int
  BY SumType
<1>1. ASSUME NEW T \in SUBSET S, \A x \in T : T \ {x} \in Good
      PROVE  T \in Good
  <2>1. SUFFICES ASSUME NEW x \in T PROVE g[T] = f[x] + g[T \ {x}]
    OBVIOUS
  <2> DEFINE p == Picked(T)
  <2>2. p \in T /\ g[T] = f[p] + g[T \ {p}]
    BY SumUnfolds
  <2>3. CASE p # x
    <3>1. g[T \ {p}] = f[x] + g[(T \ {p}) \ {x}]
      BY <1>1, <2>2, <2>3
    <3>2. g[T \ {x}] = f[p] + g[(T \ {x}) \ {p}]
      BY <1>1, <2>2, <2>3
    <3>3. (T \ {p}) \ {x} = (T \ {x}) \ {p}
      OBVIOUS
    <3> HIDE DEF p
    <3>4. PICK a \in Int, b \in Int, c \in Int :
               a = f[x] /\ b = f[p] /\ c = g[(T \ {x}) \ {p}]
      BY <1>0, <2>2
    <3>5. g[T] = b + (a + c) /\ g[T \ {x}] = b + c
      BY <2>2, <3>1, <3>2, <3>3, <3>4
    <3>6. b + (a + c) = a + (b + c)
      OBVIOUS
    <3> QED
      BY <3>4, <3>5, <3>6
  <2> QED
    BY <2>2, <2>3
<1> HIDE DEF Good
<1>2. \A T \in SUBSET S : T \in Good
  BY <1>1, SubsetInduction
<1> QED
  BY <1>2 DEF Good

\* If no value is below c, neither is the mean; if all are, it is.
LEMMA MeanBounds ==
    ASSUME NEW S, IsFiniteSet(S), NEW f, NEW g, Sums(g, f, S), \A x \in S : f[x] \in Int,
           NEW c \in Int
    PROVE  /\ (\A x \in S : f[x] >= c) => g[S] >= c * Cardinality(S)
           /\ (\A x \in S : f[x] < c) /\ S # {} => g[S] < c * Cardinality(S)
<1> DEFINE Low == {T \in SUBSET S : g[T] >= c * Cardinality(T)}
           High == {T \in SUBSET S : T # {} => g[T] < c * Cardinality(T)}
<1>0. ASSUME NEW T \in SUBSET S, T # {}
      PROVE  \E p \in T, v \in Int, r \in Int, n \in Nat :
                /\ v = f[p] /\ r = g[T \ {p}] /\ n = Cardinality(T \ {p})
                /\ g[T] = v + r /\ Cardinality(T) = n + 1
                /\ T \ {p} = {} => r = 0 /\ n = 0
  <2>0. Picked(T) \in T /\ g[T] = f[Picked(T)] + g[T \ {Picked(T)}]
    BY <1>0, SumUnfolds
  <2>1. PICK p \in T : g[T] = f[p] + g[T \ {p}]
    BY <2>0
  <2>2. T \ {p} \in SUBSET S /\ IsFiniteSet(T)
    BY FS_Subset
  <2>3. f[p] \in Int /\ g[T \ {p}] \in Int
    BY <2>2, SumType
  <2>4. /\ Cardinality(T \ {p}) \in Nat
        /\ Cardinality(T) \in Nat
        /\ Cardinality(T \ {p}) = Cardinality(T) - 1
    BY <2>2, FS_CardinalityType, FS_RemoveElement
  <2>5. T \ {p} = {} => g[T \ {p}] = 0 /\ Cardinality(T \ {p}) = 0
    <3>1. g[{}] = 0 /\ Cardinality({}) = 0
      BY SumUnfolds, FS_EmptySet
    <3> QED
      BY <3>1
  <2>6. \A m, n \in Nat : n = m - 1 => m = n + 1
    OBVIOUS
  <2>7. Cardinality(T) = Cardinality(T \ {p}) + 1
    BY <2>4, <2>6
  <2> QED
    BY <2>1, <2>3, <2>4, <2>5, <2>7, Zenon
<1>1. ASSUME \A x \in S : f[x] >= c PROVE S \in Low
  <2>1. ASSUME NEW T \in SUBSET S, \A x \in T : T \ {x} \in Low
        PROVE  T \in Low
    <3>1. CASE T = {}
      <4>1. g[T] = 0 /\ Cardinality(T) = 0
        BY <3>1, SumUnfolds, FS_EmptySet
      <4>2. 0 >= c * 0
        OBVIOUS
      <4> QED
        BY <4>1, <4>2
    <3>2. CASE T # {}
      <4>1. PICK p \in T, v \in Int, r \in Int, n \in Nat :
                /\ v = f[p] /\ r = g[T \ {p}] /\ n = Cardinality(T \ {p})
                /\ g[T] = v + r /\ Cardinality(T) = n + 1
                /\ T \ {p} = {} => r = 0 /\ n = 0
        BY <1>0, <3>2
      <4>2. T \ {p} \in Low
        BY <2>1
      <4>4. v >= c /\ r >= c * n
        BY <1>1, <4>1, <4>2
      <4>3. v + r >= c * (n + 1)
        BY <4>4
      <4> QED
        BY <4>1, <4>3
    <3> QED
      BY <3>1, <3>2
  <2> HIDE DEF Low
  <2>2. \A T \in SUBSET S : T \in Low
    BY <2>1, SubsetInduction
  <2> QED
    BY <2>2
<1>2. ASSUME \A x \in S : f[x] < c PROVE S \in High
  <2>1. ASSUME NEW T \in SUBSET S, \A x \in T : T \ {x} \in High
        PROVE  T \in High
    <3>1. CASE T = {}
      BY <3>1
    <3>2. CASE T # {}
      <4>1. PICK p \in T, v \in Int, r \in Int, n \in Nat :
                /\ v = f[p] /\ r = g[T \ {p}] /\ n = Cardinality(T \ {p})
                /\ g[T] = v + r /\ Cardinality(T) = n + 1
                /\ T \ {p} = {} => r = 0 /\ n = 0
        BY <1>0, <3>2
      <4>2. v < c /\ (r < c * n \/ (r = 0 /\ n = 0))
        BY <1>2, <2>1, <4>1
      <4>3. v + r < c * (n + 1)
        BY <4>2
      <4> QED
        BY <4>1, <4>3
    <3> QED
      BY <3>1, <3>2
  <2> HIDE DEF High
  <2>2. \A T \in SUBSET S : T \in High
    BY <2>1, SubsetInduction
  <2> QED
    BY <2>2
<1> QED
  BY <1>1, <1>2

\* A sum depends on the summands of its own set only.
LEMMA SumsAgree ==
    ASSUME NEW S, NEW f, NEW g, Sums(g, f, S),
           NEW T, NEW e, NEW h, Sums(h, e, T),
           NEW U, U \subseteq S, U \subseteq T, IsFiniteSet(U), \A x \in U : f[x] = e[x]
    PROVE  g[U] = h[U]
<1> DEFINE Good == {V \in SUBSET U : g[V] = h[V]}
<1>1. ASSUME NEW V \in SUBSET U, \A x \in V : V \ {x} \in Good
      PROVE  V \in Good
  <2>1. V \in SUBSET S /\ V \in SUBSET T
    OBVIOUS
  <2>2. CASE V = {}
    <3>1. g[V] = 0 /\ h[V] = 0
      BY <2>1, <2>2, SumUnfolds
    <3> QED
      BY <3>1
  <2>3. CASE V # {}
    <3>1. /\ Picked(V) \in V
          /\ g[V] = f[Picked(V)] + g[V \ {Picked(V)}]
          /\ h[V] = e[Picked(V)] + h[V \ {Picked(V)}]
      BY <2>1, <2>3, SumUnfolds
    <3> QED
      BY <1>1, <3>1
  <2> QED
    BY <2>2, <2>3
<1> HIDE DEF Good
<1>2. \A V \in SUBSET U : V \in Good
  BY <1>1, SubsetInduction
<1> QED
  BY <1>2 DEF Good

\* Zeros do not count.
LEMMA ZerosIgnored ==
    ASSUME NEW S, IsFiniteSet(S), NEW f, NEW g, Sums(g, f, S), \A x \in S : f[x] \in Int,
           NEW T \in SUBSET S, NEW U \in SUBSET T, \A x \in T \ U : f[x] = 0
    PROVE  g[T] = g[U]
<1> DEFINE Good == {V \in SUBSET T : g[V] = g[V \cap U]}
<1>1. ASSUME NEW V \in SUBSET T, \A x \in V : V \ {x} \in Good
      PROVE  V \in Good
  <2>1. CASE V \subseteq U
    <3>1. V \cap U = V
      BY <2>1
    <3> QED
      BY <3>1
  <2>2. ASSUME NEW x \in V, x \notin U PROVE V \in Good
    <3>1. g[V] = f[x] + g[V \ {x}]
      BY <2>2, SumTakesAny, V \in SUBSET S
    <3>2. f[x] = 0 /\ g[V \ {x}] \in Int
      BY <2>2, SumType, V \ {x} \in SUBSET S
    <3>3. g[V \ {x}] = g[(V \ {x}) \cap U] /\ (V \ {x}) \cap U = V \cap U
      BY <1>1, <2>2
    <3>4. g[V] = g[V \ {x}]
      BY <3>1, <3>2
    <3> QED
      BY <3>3, <3>4
  <2> QED
    BY <2>1, <2>2
<1> HIDE DEF Good
<1>2. IsFiniteSet(T)
  BY FS_Subset
<1>3. T \in Good
  BY <1>1, <1>2, SubsetInduction
<1>4. T \cap U = U
  OBVIOUS
<1> QED
  BY <1>3, <1>4 DEF Good

\* No sum exceeds its number of values times their bound.
LEMMA SumAtMost ==
    ASSUME NEW S, IsFiniteSet(S), NEW f, NEW g, Sums(g, f, S),
           NEW c \in Int, \A x \in S : f[x] \in Int /\ f[x] <= c
    PROVE  g[S] <= c * Cardinality(S)
<1> DEFINE Good == {T \in SUBSET S : g[T] <= c * Cardinality(T)}
<1>1. ASSUME NEW T \in SUBSET S, \A x \in T : T \ {x} \in Good
      PROVE  T \in Good
  <2>1. CASE T = {}
    <3>1. g[T] = 0 /\ Cardinality(T) = 0
      BY <2>1, SumUnfolds, FS_EmptySet
    <3>2. 0 <= c * 0
      OBVIOUS
    <3> QED
      BY <3>1, <3>2
  <2>2. CASE T # {}
    <3> DEFINE p == Picked(T)
    <3>1. p \in T /\ g[T] = f[p] + g[T \ {p}]
      BY <2>2, SumUnfolds
    <3> HIDE DEF p
    <3>2. T \ {p} \in SUBSET S /\ IsFiniteSet(T)
      BY FS_Subset
    <3>3. f[p] \in Int /\ f[p] <= c /\ g[T \ {p}] \in Int
      BY <3>1, <3>2, SumType
    <3>4. /\ Cardinality(T \ {p}) \in Nat /\ Cardinality(T) \in Nat
          /\ Cardinality(T \ {p}) = Cardinality(T) - 1
      BY <3>1, <3>2, FS_CardinalityType, FS_RemoveElement
    <3>5. g[T \ {p}] <= c * Cardinality(T \ {p})
      BY <1>1, <3>1
    <3>6. \A v, r \in Int, m, n \in Nat :
             v <= c /\ r <= c * n /\ n = m - 1 => v + r <= c * m
      <4>1. SUFFICES ASSUME NEW v \in Int, NEW r \in Int, NEW n \in Nat,
                            v <= c, r <= c * n
                     PROVE  v + r <= c * (n + 1)
        <5>1. \A m, n \in Nat : n = m - 1 => m = n + 1
          OBVIOUS
        <5> QED
          BY <5>1
      <4>2. c * (n + 1) = c * n + c /\ c * n \in Int
        OBVIOUS
      <4> QED
        BY <4>1, <4>2
    <3> QED
      BY <3>1, <3>3, <3>4, <3>5, <3>6
  <2> QED
    BY <2>1, <2>2
<1> HIDE DEF Good
<1>2. \A T \in SUBSET S : T \in Good
  BY <1>1, SubsetInduction
<1> QED
  BY <1>2 DEF Good

\* A set of numbers that is not empty has a least one.
LEMMA LeastExists ==
    ASSUME NEW V, V \subseteq Nat, V # {}
    PROVE  \E v \in V : \A u \in V : v <= u
<1> DEFINE Less == {pair \in Nat \X Nat : pair[1] < pair[2]}
<1>1. IsWellFoundedOn(Less, Nat)
  BY NatLessThanWellFounded, Zenon DEF OpToRel
<1>2. PICK v \in V : \A u \in V : <<u, v>> \notin Less
  <2> HIDE DEF Less
  <2> QED
    BY <1>1, WFMin
<1>3. ASSUME NEW u \in V PROVE v <= u
  <2>1. ~(u < v)
    BY <1>2
  <2> QED
    BY <2>1
<1> QED
  BY <1>3

\* More numbers have no smaller sum.
LEMMA SumGrows ==
    ASSUME NEW S, IsFiniteSet(S), NEW f, NEW g, Sums(g, f, S), \A x \in S : f[x] \in Nat,
           NEW U \in SUBSET S
    PROVE  g[U] <= g[S]
<1> DEFINE Good == {T \in SUBSET S : g[T \cap U] <= g[T]}
<1>0. \A T \in SUBSET S : g[T] \in Int
  BY SumType
<1>1. ASSUME NEW T \in SUBSET S, \A x \in T : T \ {x} \in Good
      PROVE  T \in Good
  <2>1. CASE T \subseteq U
    <3>1. T \cap U = T
      BY <2>1
    <3>2. g[T] \in Int
      BY <1>0
    <3>3. g[T] <= g[T]
      BY <3>2
    <3> QED
      BY <3>1, <3>3
  <2>2. ASSUME NEW x \in T, x \notin U PROVE T \in Good
    <3>1. T \cap U = (T \ {x}) \cap U
      BY <2>2
    <3>2. g[T] = f[x] + g[T \ {x}]
      <4>1. \A y \in S : f[y] \in Int
        OBVIOUS
      <4> QED
        BY <2>2, <4>1, SumTakesAny
    <3>3. g[(T \ {x}) \cap U] <= g[T \ {x}]
      BY <1>1, <2>2
    <3>4. f[x] \in Nat /\ g[T \ {x}] \in Int /\ g[(T \ {x}) \cap U] \in Int
      BY <1>0, <2>2
    <3>5. g[(T \ {x}) \cap U] <= g[T]
      BY <3>2, <3>3, <3>4
    <3> QED
      BY <3>1, <3>5
  <2> QED
    BY <2>1, <2>2
<1> HIDE DEF Good
<1>2. \A T \in SUBSET S : T \in Good
  BY <1>1, SubsetInduction
<1>3. S \cap U = U
  OBVIOUS
<1> QED
  BY <1>2, <1>3 DEF Good

\* Truncated shares of some of the values make no more than those values: of each value
\* at most once, in hundredths of the whole.
LEMMA TruncatedShares ==
    ASSUME NEW R, IsFiniteSet(R), NEW c, NEW g, Sums(g, c, R), \A w \in R : c[w] \in Nat,
           NEW S, IsFiniteSet(S), NEW share, NEW h, Sums(h, share, S),
           NEW r, \A i \in S : r[i] \in R, \A i, j \in S : i # j => r[i] # r[j],
           NEW whole \in Nat \ {0},
           \A i \in S : share[i] = (100 * c[r[i]]) \div whole
    PROVE  whole * h[S] <= 100 * g[R]
<1> DEFINE Of(T) == {r[i] : i \in T}
           Good == {T \in SUBSET S : whole * h[T] <= 100 * g[Of(T)]}
<1>1. \A i \in S : c[r[i]] \in Nat
  OBVIOUS
<1>2. \A k \in Nat : /\ (100 * k) \div whole \in Nat
                     /\ whole * ((100 * k) \div whole) <= 100 * k
  OBVIOUS
<1>3. \A i \in S : /\ share[i] \in Nat
                   /\ whole * share[i] <= 100 * c[r[i]]
  BY <1>1, <1>2
<1>4. \A T \in SUBSET S : h[T] \in Int /\ Of(T) \in SUBSET R
  <2>1. \A i \in S : share[i] \in Int
    BY <1>3
  <2> QED
    BY <2>1, SumType
<1>5. \A T \in SUBSET R : g[T] \in Int
  BY SumType
<1>6. ASSUME NEW T \in SUBSET S, \A i \in T : T \ {i} \in Good
      PROVE  T \in Good
  <2>1. CASE T = {}
    <3>1. Of(T) = {}
      BY <2>1
    <3>2. h[{}] = 0 /\ g[{}] = 0
      <4>1. {} \in SUBSET S /\ {} \in SUBSET R
        OBVIOUS
      <4> HIDE DEF Of, Good
      <4> QED
        BY <4>1 DEF Sums
    <3>3. h[T] = 0 /\ g[Of(T)] = 0
      <4> HIDE DEF Of
      <4> QED
        BY <2>1, <3>1, <3>2
    <3>4. whole * h[T] <= 100 * g[Of(T)]
      <4> HIDE DEF Of
      <4>1. whole * h[T] = 0 /\ 100 * g[Of(T)] = 0
        BY <3>3
      <4> QED
        BY <4>1
    <3> QED
      BY <3>4
  <2>2. CASE T # {}
    <3>1. PICK i \in T : TRUE
      BY <2>2
    <3>2. Of(T) \ {r[i]} = Of(T \ {i}) /\ r[i] \in Of(T)
      <4>1. \A j \in T : j # i => r[j] # r[i]
        OBVIOUS
      <4>2. ASSUME NEW w \in Of(T) \ {r[i]} PROVE w \in Of(T \ {i})
        <5>1. PICK j \in T : w = r[j]
          BY <4>2
        <5>2. j \in T \ {i}
          BY <4>2, <5>1
        <5> QED
          BY <5>1, <5>2
      <4>3. ASSUME NEW w \in Of(T \ {i}) PROVE w \in Of(T) \ {r[i]}
        <5>1. PICK j \in T \ {i} : w = r[j]
          BY <4>3
        <5>2. w # r[i]
          BY <4>1, <5>1
        <5> QED
          BY <5>1, <5>2
      <4>4. r[i] \in Of(T)
        OBVIOUS
      <4> HIDE DEF Of
      <4> QED
        BY <4>2, <4>3, <4>4
    <3> DEFINE a == share[i]
               b == h[T \ {i}]
               d == c[r[i]]
               e == g[Of(T \ {i})]
    <3>3. a \in Nat /\ b \in Int /\ d \in Nat /\ e \in Int
      BY <1>1, <1>3, <1>4, <1>5
    <3>4. h[T] = a + b
      <4>1. \A j \in S : share[j] \in Int
        BY <1>3
      <4> QED
        BY <4>1, SumTakesAny
    <3>5. g[Of(T)] = d + e
      <4>1. \A w \in R : c[w] \in Int
        OBVIOUS
      <4>2. g[Of(T)] = c[r[i]] + g[Of(T) \ {r[i]}]
        <5>1. Of(T) \in SUBSET R
          BY <1>4
        <5> HIDE DEF Of, Good
        <5> QED
          BY <3>2, <4>1, <5>1, SumTakesAny
      <4> QED
        BY <3>2, <4>2
    <3>6. whole * a <= 100 * d /\ whole * b <= 100 * e
      BY <1>3, <1>6
    <3> HIDE DEF a, b, d, e, Of
    <3>7. whole * (a + b) <= 100 * (d + e)
      <4>1. whole * (a + b) = whole * a + whole * b
        BY <3>3
      <4>2. whole * a \in Int /\ whole * b \in Int
        BY <3>3
      <4> QED
        BY <3>3, <3>6, <4>1, <4>2, 100 * (d + e) = 100 * d + 100 * e
    <3> QED
      BY <3>4, <3>5, <3>7
  <2> QED
    BY <2>1, <2>2
<1>7. \A T \in SUBSET S : T \in Good
  <2> HIDE DEF Good
  <2> QED
    BY <1>6, SubsetInduction
<1>8. g[Of(S)] <= g[R]
  BY <1>4, SumGrows
<1>9. g[Of(S)] \in Int /\ g[R] \in Int /\ h[S] \in Int
  BY <1>4, <1>5
<1>10. whole * h[S] <= 100 * g[Of(S)]
  BY <1>7
<1> HIDE DEF Of
<1>11. \A x, y, z \in Int : x <= 100 * y /\ y <= z => x <= 100 * z
  OBVIOUS
<1>12. whole * h[S] \in Int
  BY <1>9
<1> QED
  BY <1>8, <1>9, <1>10, <1>11, <1>12
=============================================================================
