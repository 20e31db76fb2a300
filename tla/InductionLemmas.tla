--------------------------- MODULE InductionLemmas --------------------------
(***************************************************************************)
(* What the proofs need of numbers, finite sets and sums.  An induction is *)
(* over a set, not over a predicate: a set of naturals has a least         *)
(* element, so a set of finite sets has one of least cardinality, and what *)
(* would be the smallest counterexample is none.                           *)
(***************************************************************************)
EXTENDS Integers, FiniteSetTheorems, WellFoundedInduction, Functions, TLAPS

(* A set of natural numbers has a least element.                           *)
LEMMA LeastElement ==
  ASSUME NEW T, T \subseteq Nat, T # {}
  PROVE  \E k \in T : \A j \in T : k <= j
<1> DEFINE R == {pair \in Nat \X Nat : pair[1] < pair[2]}
<1>1. IsWellFoundedOn(R, Nat)
  BY NatLessThanWellFounded DEF OpToRel
<1>2. PICK k \in T : \A j \in T : ~(<<j, k>> \in R)
  BY <1>1, WFMin
<1>3. \A j \in T : ~(j < k)
  BY <1>2
<1> QED
  BY <1>3

(* What holds of the empty set, and of a set whenever it holds of the set  *)
(* without one of its elements, holds of every subset of a finite set.     *)
LEMMA SubsetInduction ==
  ASSUME NEW S, IsFiniteSet(S), NEW G, {} \in G,
         \A T \in SUBSET S : (T # {} /\ \A x \in T : T \ {x} \in G) => T \in G
  PROVE  \A T \in SUBSET S : T \in G
<1> DEFINE Bad == {T \in SUBSET S : T \notin G}
           Sizes == {Cardinality(T) : T \in Bad}
<1> SUFFICES ASSUME Bad # {} PROVE FALSE
  OBVIOUS
<1>1. \A T \in SUBSET S : IsFiniteSet(T) /\ Cardinality(T) \in Nat
  BY FS_Subset, FS_CardinalityType
<1>2. Sizes \subseteq Nat /\ Sizes # {}
  BY <1>1
<1>3. PICK k \in Sizes : \A j \in Sizes : k <= j
  <2> HIDE DEF Sizes
  <2> QED
    BY <1>2, LeastElement
<1>4. PICK T \in Bad : Cardinality(T) = k
  BY <1>3
<1>5. T # {}
  BY <1>4
<1>6. ASSUME NEW x \in T PROVE T \ {x} \in G
  <2>1. T \ {x} \in SUBSET S /\ Cardinality(T \ {x}) = Cardinality(T) - 1
    BY <1>1, <1>4, FS_RemoveElement
  <2>2. Cardinality(T) \in Nat /\ Cardinality(T \ {x}) \in Nat
    BY <1>1, <1>4, <2>1
  <2>3. ~(k <= Cardinality(T \ {x}))
    BY <1>4, <2>1, <2>2
  <2> QED
    BY <1>3, <2>1, <2>3
<1> QED
  BY <1>4, <1>5, <1>6

(* What holds of 0, and of n + 1 whenever it holds of n, holds of every    *)
(* natural number.                                                         *)
LEMMA NumberInduction ==
  ASSUME NEW G, 0 \in G, \A n \in Nat : n \in G => n + 1 \in G
  PROVE  \A n \in Nat : n \in G
<1> DEFINE Bad == {n \in Nat : n \notin G}
<1> SUFFICES ASSUME Bad # {} PROVE FALSE
  OBVIOUS
<1>1. PICK k \in Bad : \A j \in Bad : k <= j
  <2>1. Bad \subseteq Nat
    OBVIOUS
  <2> HIDE DEF Bad
  <2> QED
    BY <2>1, LeastElement
<1>2. k # 0 /\ k \in Nat
  BY <1>1
<1>3. k - 1 \in Nat /\ ~(k <= k - 1) /\ (k - 1) + 1 = k
  BY <1>2
<1>4. k - 1 \in G
  BY <1>1, <1>3
<1>5. k \in G
  BY <1>3, <1>4
<1> QED
  BY <1>1, <1>5

-----------------------------------------------------------------------------
(***************************************************************************)
(* Sums over finite sets, as the community modules compute them: by taking *)
(* one chosen element after another.                                       *)
(***************************************************************************)
First(t) == CHOOSE x \in t : TRUE

(* The function that computes the sums of f over the subsets of S.         *)
Sums(g, f, S) ==
  g = [t \in SUBSET S |-> IF t = {} THEN 0 ELSE f[First(t)] + g[t \ {First(t)}]]

LEMMA FirstIsIn == \A t : t # {} => First(t) \in t
BY DEF First

(* It exists: for sets of at most n elements, for every n.                 *)
LEMMA SumsExist ==
  ASSUME NEW S, IsFiniteSet(S), NEW f
  PROVE  \E g : Sums(g, f, S)
<1> DEFINE Upto(g, n) ==
             \A t \in SUBSET S : Cardinality(t) <= n =>
               g[t] = IF t = {} THEN 0 ELSE f[First(t)] + g[t \ {First(t)}]
           Has(n) == \E g : g = [t \in SUBSET S |-> g[t]] /\ Upto(g, n)
           G == {n \in Nat : Has(n)}
<1>1. \A t \in SUBSET S : IsFiniteSet(t) /\ Cardinality(t) \in Nat
  BY FS_Subset, FS_CardinalityType
<1>2. 0 \in G
  <2> DEFINE zero == [t \in SUBSET S |-> 0]
  <2>1. \A t \in SUBSET S : Cardinality(t) <= 0 => t = {}
    BY <1>1, FS_EmptySet
  <2>2. zero = [t \in SUBSET S |-> zero[t]] /\ Upto(zero, 0)
    BY <2>1
  <2> QED
    BY <2>2
<1>3. ASSUME NEW n \in Nat, n \in G PROVE n + 1 \in G
  <2>1. PICK g : g = [t \in SUBSET S |-> g[t]] /\ Upto(g, n)
    BY <1>3
  <2> DEFINE h == [t \in SUBSET S |-> IF t = {} THEN 0 ELSE f[First(t)] + g[t \ {First(t)}]]
  <2>2. ASSUME NEW t \in SUBSET S, Cardinality(t) <= n + 1
        PROVE  h[t] = IF t = {} THEN 0 ELSE f[First(t)] + h[t \ {First(t)}]
    <3>1. CASE t = {}
      BY <3>1
    <3>2. CASE t # {}
      <4> DEFINE u == t \ {First(t)}
      <4>1. First(t) \in t
        BY <3>2, FirstIsIn
      <4>2. u \in SUBSET S /\ Cardinality(u) = Cardinality(t) - 1
        BY <1>1, <4>1, FS_RemoveElement
      <4>3. Cardinality(u) <= n
        BY <1>1, <2>2, <4>2
      <4>4. g[u] = h[u]
        BY <2>1, <4>2, <4>3
      <4>5. h[t] = f[First(t)] + g[u]
        BY <3>2
      <4> QED
        BY <3>2, <4>4, <4>5
    <3> QED
      BY <3>1, <3>2
  <2>3. h = [t \in SUBSET S |-> h[t]]
    OBVIOUS
  <2>4. Upto(h, n + 1)
    BY <2>2
  <2>5. Has(n + 1)
    <3> HIDE DEF h, Upto
    <3> QED
      BY <2>3, <2>4
  <2> HIDE DEF Has
  <2> QED
    BY <2>5
<1>4. Cardinality(S) \in G
  <2> HIDE DEF G
  <2>1. Cardinality(S) \in Nat
    BY <1>1
  <2> QED
    BY <1>2, <1>3, <2>1, NumberInduction
<1>5. PICK g : g = [t \in SUBSET S |-> g[t]] /\ Upto(g, Cardinality(S))
  BY <1>4
<1>6. \A t \in SUBSET S : Cardinality(t) <= Cardinality(S)
  BY FS_Subset
<1>7. \A t \in SUBSET S : g[t] = IF t = {} THEN 0 ELSE f[First(t)] + g[t \ {First(t)}]
  BY <1>5, <1>6
<1>8. Sums(g, f, S)
  BY <1>5, <1>7 DEF Sums
<1> QED
  BY <1>8

LEMMA SumIsOneOfSums ==
  ASSUME NEW S, IsFiniteSet(S), NEW f
  PROVE  \E g : Sums(g, f, S) /\ SumFunctionOnSet(f, S) = g[S]
<1> DEFINE c == CHOOSE g : Sums(g, f, S)
<1>1. Sums(c, f, S)
  BY SumsExist
<1>2. SumFunctionOnSet(f, S) = c[S]
  BY DEF SumFunctionOnSet, FoldFunctionOnSet, MapThenFoldSet, Sums, First
<1> QED
  BY <1>1, <1>2
(* A chosen element is as good as another.                                 *)
TakesAny(g, f, S) ==
  /\ g[{}] = 0
  /\ \A t \in SUBSET S : g[t] \in Nat
  /\ \A t \in SUBSET S : \A x \in t : g[t] = f[x] + g[t \ {x}]

LEMMA SumsTakeAny ==
  ASSUME NEW S, IsFiniteSet(S), NEW f, \A x \in S : f[x] \in Nat, NEW g, Sums(g, f, S)
  PROVE  TakesAny(g, f, S)
<1>1. \A t \in SUBSET S : g[t] = IF t = {} THEN 0 ELSE f[First(t)] + g[t \ {First(t)}]
  BY DEF Sums
<1>2. g[{}] = 0
  BY <1>1
<1>n. \A t \in SUBSET S : g[t] \in Nat
  <2> DEFINE N == {t \in SUBSET S : g[t] \in Nat}
  <2>1. {} \in N
    BY <1>2
  <2>2. ASSUME NEW t \in SUBSET S, t # {}, \A x \in t : t \ {x} \in N
        PROVE  t \in N
    <3>1. First(t) \in t /\ g[t \ {First(t)}] \in Nat /\ f[First(t)] \in Nat
      BY <2>2, FirstIsIn
    <3>2. g[t] = f[First(t)] + g[t \ {First(t)}]
      BY <1>1, <2>2
    <3>3. g[t] \in Nat
      BY <3>1, <3>2
    <3> QED
      BY <3>3
  <2> HIDE DEF N
  <2>3. \A t \in SUBSET S : t \in N
    BY <2>1, <2>2, SubsetInduction
  <2> QED
    BY <2>3 DEF N
<1> DEFINE Good(t) == \A x \in t : g[t] = f[x] + g[t \ {x}]
           G == {t \in SUBSET S : Good(t)}
<1>3. {} \in G
  OBVIOUS
<1>4. ASSUME NEW t \in SUBSET S, t # {}, \A x \in t : t \ {x} \in G
      PROVE  t \in G
  <2> DEFINE c == First(t)
             u == t \ {c}
  <2>1. c \in t /\ u \in SUBSET S
    BY <1>4, FirstIsIn
  <2>2. g[t] = f[c] + g[u] /\ u \in G
    BY <1>1, <1>4, <2>1
  <2>3. f[c] \in Nat /\ g[u] \in Nat
    BY <1>n, <2>1
  <2> HIDE DEF c
  <2>4. ASSUME NEW x \in t PROVE g[t] = f[x] + g[t \ {x}]
    <3>1. CASE x = c
      BY <2>2, <3>1
    <3>2. CASE x # c
      <4> DEFINE w == t \ {x}
                 v == u \ {x}
      <4>1. x \in u /\ c \in w /\ w \in G /\ v = w \ {c}
        BY <1>4, <2>1, <2>4, <3>2
      <4>2. g[u] = f[x] + g[v]
        BY <2>2, <4>1
      <4>3. g[w] = f[c] + g[v]
        BY <4>1
      <4>4. f[x] \in Nat /\ v \in SUBSET S
        BY <2>1, <2>4
      <4>5. g[v] \in Nat
        BY <1>n, <4>4
      <4> QED
        BY <2>2, <2>3, <4>2, <4>3, <4>4, <4>5
    <3> QED
      BY <3>1, <3>2
  <2> QED
    BY <2>4
<1>5. \A t \in SUBSET S : t \in G
  <2> HIDE DEF G
  <2> QED
    BY <1>3, <1>4, SubsetInduction
<1> QED
  BY <1>2, <1>n, <1>5 DEF TakesAny

(* Two that sum the same values agree where both are defined.              *)
LEMMA SumsAgree ==
  ASSUME NEW S, IsFiniteSet(S), NEW f, \A x \in S : f[x] \in Nat, NEW g, Sums(g, f, S),
         NEW R, IsFiniteSet(R), NEW e, \A x \in R : e[x] \in Nat, NEW h, Sums(h, e, R),
         R \subseteq S, \A x \in R : e[x] = f[x]
  PROVE  \A t \in SUBSET R : h[t] = g[t]
<1>c. TakesAny(g, f, S) /\ TakesAny(h, e, R)
  BY SumsTakeAny
<1>a. g[{}] = 0 /\ \A u \in SUBSET S : \A y \in u : g[u] = f[y] + g[u \ {y}]
  BY <1>c DEF TakesAny
<1>b. h[{}] = 0 /\ \A u \in SUBSET R : \A y \in u : h[u] = e[y] + h[u \ {y}]
  BY <1>c DEF TakesAny
<1> DEFINE G == {t \in SUBSET R : h[t] = g[t]}
<1>1. {} \in G
  BY <1>a, <1>b
<1>2. ASSUME NEW t \in SUBSET R, t # {}, \A x \in t : t \ {x} \in G
      PROVE  t \in G
  <2>1. PICK x \in t : TRUE
    BY <1>2
  <2>2. g[t] = f[x] + g[t \ {x}] /\ h[t] = e[x] + h[t \ {x}]
    BY <1>a, <1>b, <2>1
  <2> QED
    BY <1>2, <2>1, <2>2
<1> HIDE DEF G
<1>3. \A t \in SUBSET R : t \in G
  BY <1>1, <1>2, SubsetInduction
<1> QED
  BY <1>3 DEF G

(***************************************************************************)
(* What a proof about sums needs: the empty sum, one element of a sum, and *)
(* that equal values have equal sums.                                      *)
(***************************************************************************)
LEMMA EmptySum == ASSUME NEW f PROVE SumFunctionOnSet(f, {}) = 0
<1>1. PICK g : Sums(g, f, {}) /\ SumFunctionOnSet(f, {}) = g[{}]
  BY FS_EmptySet, SumIsOneOfSums
<1> QED
  BY <1>1, FS_EmptySet, SumsTakeAny DEF TakesAny

LEMMA SumIsNatural ==
  ASSUME NEW S, IsFiniteSet(S), NEW f, \A x \in S : f[x] \in Nat
  PROVE  SumFunctionOnSet(f, S) \in Nat
<1>1. PICK g : Sums(g, f, S) /\ SumFunctionOnSet(f, S) = g[S]
  BY SumIsOneOfSums
<1> QED
  BY <1>1, SumsTakeAny DEF TakesAny

LEMMA SameSum ==
  ASSUME NEW S, IsFiniteSet(S), NEW f, \A x \in S : f[x] \in Nat,
         NEW e, \A x \in S : e[x] = f[x]
  PROVE  SumFunctionOnSet(e, S) = SumFunctionOnSet(f, S)
<1>1. PICK g : Sums(g, f, S) /\ SumFunctionOnSet(f, S) = g[S]
  BY SumIsOneOfSums
<1>2. PICK h : Sums(h, e, S) /\ SumFunctionOnSet(e, S) = h[S]
  BY SumIsOneOfSums
<1>3. h[S] = g[S]
  BY <1>1, <1>2, SumsAgree
<1> QED
  BY <1>1, <1>2, <1>3

LEMMA SumTakesOne ==
  ASSUME NEW S, IsFiniteSet(S), NEW f, \A x \in S : f[x] \in Nat, NEW x \in S
  PROVE  SumFunctionOnSet(f, S) = f[x] + SumFunctionOnSet(f, S \ {x})
<1> DEFINE R == S \ {x}
<1>1. IsFiniteSet(R) /\ R \in SUBSET S
  BY FS_RemoveElement
<1>2. PICK g : Sums(g, f, S) /\ SumFunctionOnSet(f, S) = g[S]
  BY SumIsOneOfSums
<1> HIDE DEF R
<1>3. PICK h : Sums(h, f, R) /\ SumFunctionOnSet(f, R) = h[R]
  BY <1>1, SumIsOneOfSums
<1>4. \A y \in R : f[y] \in Nat
  BY <1>1
<1>5. h[R] = g[R]
  BY <1>1, <1>2, <1>3, <1>4, SumsAgree
<1>6. g[S] = f[x] + g[R]
  BY <1>2, SumsTakeAny DEF R, TakesAny
<1> QED
  BY <1>2, <1>3, <1>5, <1>6 DEF R

(* Larger values have a larger sum.                                        *)
LEMMA SumIsMonotone ==
  ASSUME NEW S, IsFiniteSet(S), NEW f, \A x \in S : f[x] \in Nat,
         NEW e, \A x \in S : e[x] \in Nat, \A x \in S : e[x] <= f[x]
  PROVE  SumFunctionOnSet(e, S) <= SumFunctionOnSet(f, S)
<1> DEFINE G == {t \in SUBSET S : SumFunctionOnSet(e, t) <= SumFunctionOnSet(f, t)}
<1>1. {} \in G
  BY EmptySum
<1>2. ASSUME NEW t \in SUBSET S, t # {}, \A x \in t : t \ {x} \in G
      PROVE  t \in G
  <2>1. PICK x \in t : TRUE
    BY <1>2
  <2>2. IsFiniteSet(t) /\ IsFiniteSet(t \ {x})
    BY FS_Subset
  <2>3. /\ SumFunctionOnSet(f, t) = f[x] + SumFunctionOnSet(f, t \ {x})
        /\ SumFunctionOnSet(e, t) = e[x] + SumFunctionOnSet(e, t \ {x})
    BY <2>1, <2>2, SumTakesOne
  <2>4. /\ SumFunctionOnSet(f, t \ {x}) \in Nat /\ SumFunctionOnSet(e, t \ {x}) \in Nat
        /\ f[x] \in Nat /\ e[x] \in Nat /\ e[x] <= f[x]
    BY <2>1, <2>2, SumIsNatural
  <2>5. SumFunctionOnSet(e, t \ {x}) <= SumFunctionOnSet(f, t \ {x})
    BY <1>2, <2>1
  <2>6. SumFunctionOnSet(e, t) <= SumFunctionOnSet(f, t)
    BY <2>3, <2>4, <2>5
  <2> QED
    BY <2>6
<1> HIDE DEF G
<1>3. S \in G
  BY <1>1, <1>2, SubsetInduction
<1> QED
  BY <1>3 DEF G

(* The sum over two disjoint sets is the sum of their sums.                *)
LEMMA SumOfUnion ==
  ASSUME NEW S, IsFiniteSet(S), NEW R, IsFiniteSet(R), S \intersect R = {},
         NEW f, \A x \in S \union R : f[x] \in Nat
  PROVE  SumFunctionOnSet(f, S \union R) = SumFunctionOnSet(f, S) + SumFunctionOnSet(f, R)
<1> DEFINE Sum(t) == SumFunctionOnSet(f, t)
           G == {t \in SUBSET S : Sum(t \union R) = Sum(t) + Sum(R)}
<1>1. {} \in G
  <2>1. Sum({}) = 0 /\ Sum(R) \in Nat
    BY EmptySum, SumIsNatural
  <2>2. {} \union R = R
    OBVIOUS
  <2> HIDE DEF Sum
  <2> QED
    BY <2>1, <2>2
<1>2. ASSUME NEW t \in SUBSET S, t # {}, \A x \in t : t \ {x} \in G
      PROVE  t \in G
  <2>1. PICK x \in t : TRUE
    BY <1>2
  <2>2. IsFiniteSet(t) /\ IsFiniteSet(t \ {x}) /\ IsFiniteSet(t \union R)
    BY FS_Subset, FS_Union
  <2>3. (t \union R) \ {x} = (t \ {x}) \union R
    BY <2>1
  <2>4. Sum(t) = f[x] + Sum(t \ {x})
    BY <2>1, <2>2, SumTakesOne
  <2>5. Sum(t \union R) = f[x] + Sum((t \ {x}) \union R)
    <3>1. x \in t \union R /\ \A y \in t \union R : f[y] \in Nat
      BY <2>1
    <3> QED
      BY <2>2, <2>3, <3>1, SumTakesOne
  <2>6. f[x] \in Nat /\ Sum(R) \in Nat /\ Sum(t \ {x}) \in Nat
    BY <2>1, <2>2, SumIsNatural
  <2>7. Sum((t \ {x}) \union R) = Sum(t \ {x}) + Sum(R)
    BY <1>2, <2>1
  <2> HIDE DEF Sum
  <2>8. Sum(t \union R) = Sum(t) + Sum(R)
    BY <2>4, <2>5, <2>6, <2>7
  <2> QED
    BY <2>8
<1> HIDE DEF G
<1>3. S \in G
  BY <1>1, <1>2, SubsetInduction
<1> QED
  BY <1>3 DEF G
(***************************************************************************)
(* The same of the sum of a function's values.                             *)
(***************************************************************************)
LEMMA FunctionSumIsNatural ==
  ASSUME NEW S, IsFiniteSet(S), NEW f \in [S -> Nat]
  PROVE  SumFunction(f) \in Nat
<1>1. DOMAIN f = S /\ \A x \in S : f[x] \in Nat
  OBVIOUS
<1> QED
  BY <1>1, SumIsNatural DEF SumFunction

LEMMA FunctionSumIsMonotone ==
  ASSUME NEW S, IsFiniteSet(S), NEW f \in [S -> Nat], NEW e \in [S -> Nat],
         \A x \in S : e[x] <= f[x]
  PROVE  SumFunction(e) <= SumFunction(f)
<1>1. DOMAIN f = S /\ DOMAIN e = S /\ \A x \in S : f[x] \in Nat /\ e[x] \in Nat
  OBVIOUS
<1> QED
  BY <1>1, SumIsMonotone DEF SumFunction

(* A function that grows at one point: its sum grows by as much.           *)
LEMMA FunctionSumGrows ==
  ASSUME NEW S, IsFiniteSet(S), NEW f \in [S -> Nat], NEW e \in [S -> Nat],
         NEW x \in S, NEW d \in Nat, e[x] = f[x] + d, \A y \in S \ {x} : e[y] = f[y]
  PROVE  SumFunction(e) = SumFunction(f) + d
<1> DEFINE R == S \ {x}
<1>1. DOMAIN f = S /\ DOMAIN e = S /\ \A y \in S : f[y] \in Nat /\ e[y] \in Nat
  OBVIOUS
<1>2. IsFiniteSet(R) /\ \A y \in R : f[y] \in Nat /\ e[y] = f[y]
  BY <1>1, FS_RemoveElement
<1>3. SumFunctionOnSet(f, S) = f[x] + SumFunctionOnSet(f, S \ {x})
  BY <1>1, SumTakesOne
<1>4. SumFunctionOnSet(e, S) = e[x] + SumFunctionOnSet(e, S \ {x})
  BY <1>1, SumTakesOne
<1>5. SumFunctionOnSet(e, R) = SumFunctionOnSet(f, R) /\ SumFunctionOnSet(f, R) \in Nat
  <2> HIDE DEF R
  <2> QED
    BY <1>2, SameSum, SumIsNatural
<1> QED
  BY <1>1, <1>3, <1>4, <1>5 DEF SumFunction

(* The image of a finite set is finite and no larger.                      *)
LEMMA ImageIsSmaller ==
  ASSUME NEW S, IsFiniteSet(S), NEW f
  PROVE  IsFiniteSet({f[x] : x \in S}) /\ Cardinality({f[x] : x \in S}) <= Cardinality(S)
<1> DEFINE T == {f[x] : x \in S}
           g == [x \in S |-> f[x]]
<1>1. g \in Surjection(S, T)
  BY DEF Surjection
<1> QED
  BY <1>1, FS_Surjection

(* A sum over a set with one element, and over a set cut in two.           *)
LEMMA FunctionSumOfOne ==
  ASSUME NEW x, NEW f \in [{x} -> Nat]
  PROVE  SumFunction(f) = f[x]
<1>1. DOMAIN f = {x} /\ IsFiniteSet({x}) /\ \A y \in {x} : f[y] \in Nat
  BY FS_Singleton
<1>2. SumFunctionOnSet(f, {x}) = f[x] + SumFunctionOnSet(f, {x} \ {x})
  BY <1>1, SumTakesOne
<1>3. SumFunctionOnSet(f, {x} \ {x}) = 0
  BY EmptySum
<1> QED
  BY <1>1, <1>2, <1>3 DEF SumFunction

CutInTwo(f, e, d, R, Q) ==
  /\ f \in [R \union Q -> Nat] /\ e \in [R -> Nat] /\ d \in [Q -> Nat] /\ R \intersect Q = {}
  /\ \A x \in R : e[x] = f[x]
  /\ \A x \in Q : d[x] = f[x]

LEMMA FunctionSumSplits ==
  ASSUME NEW R, IsFiniteSet(R), NEW Q, IsFiniteSet(Q), NEW f, NEW e, NEW d, CutInTwo(f, e, d, R, Q)
  PROVE  SumFunction(f) = SumFunction(e) + SumFunction(d)
<1>1. /\ DOMAIN f = R \union Q /\ DOMAIN e = R /\ DOMAIN d = Q /\ R \intersect Q = {}
      /\ \A x \in R \union Q : f[x] \in Nat
      /\ \A x \in R : e[x] = f[x]
      /\ \A x \in Q : d[x] = f[x]
  BY DEF CutInTwo
<1>3. SumFunctionOnSet(f, R \union Q) = SumFunctionOnSet(f, R) + SumFunctionOnSet(f, Q)
  BY <1>1, SumOfUnion
<1>4. SumFunctionOnSet(e, R) = SumFunctionOnSet(f, R) /\ SumFunctionOnSet(d, Q) = SumFunctionOnSet(f, Q)
  <2>1. (\A x \in R : f[x] \in Nat) /\ (\A x \in Q : f[x] \in Nat)
    BY <1>1
  <2> QED
    BY <1>1, <2>1, SameSum
<1> QED
  BY <1>1, <1>3, <1>4 DEF SumFunction
=============================================================================
