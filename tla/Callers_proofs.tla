--------------------------- MODULE Callers_proofs ---------------------------
(***************************************************************************)
(* What the proofs about components whose calls are made one after the     *)
(* other share.                                                            *)
(***************************************************************************)
EXTENDS Callers, FiniteSetTheorems, TLAPS

LEMMA LeastNatural ==
  ASSUME NEW S \in SUBSET Nat, S # {}
  PROVE  \E n \in S: \A k \in S: n <= k
  <1> DEFINE Less == {p \in Nat \X Nat: p[1] < p[2]}
  <1>1. IsWellFoundedOn(Less, Nat)
    BY NatLessThanWellFounded DEF OpToRel
  <1>2. \A k, n \in Nat: k < n => <<k, n>> \in Less
    OBVIOUS
  <1> HIDE DEF Less
  <1>3. \E n \in S: \A k \in S: <<k, n>> \notin Less
    BY <1>1, WFMin
  <1>4. \A k, n \in Nat: <<k, n>> \notin Less => n <= k
    BY <1>2
  <1> QED
    BY <1>3, <1>4

LEMMA OneToOne ==
  ASSUME NEW S, NEW T, IsFiniteSet(T), NEW f \in [S -> T],
         \A x, y \in S: f[x] = f[y] => x = y
  PROVE  Cardinality(S) <= Cardinality(T)
  <1>1. f \in Injection(S, T)
    BY DEF Injection, IsInjective
  <1> QED
    BY <1>1, FS_Injection

-----------------------------------------------------------------------------
(* Calls made one after the other *)

OneCall ==
  /\ call = [c \in Clients |-> call[c]]
  /\ \A c, d \in Clients: call[c] # Idle /\ call[d] # Idle => c = d

\* A call that starts when no other is in flight is alone, and one that goes on or returns
\* leaves no other.
LEMMA AloneOrNone ==
  ASSUME OneCall, NEW c \in Clients, NEW next, Goto(c, next), Quiet \/ call[c] # Idle
  PROVE  /\ OneCall'
         /\ call'[c] = next
         /\ \A d \in Clients \ {c}: call'[d] = Idle
  <1>1. call' = [call EXCEPT ![c] = next]
    BY DEF Goto
  <1>2. \A d \in Clients \ {c}: call[d] = Idle
    BY DEF OneCall, Quiet
  <1> QED
    BY <1>1, <1>2 DEF OneCall
-----------------------------------------------------------------------------
(* Sums over finite sets *)

Picked(S) == CHOOSE x \in S: TRUE

\* What holds of the empty set, and of a set as soon as it holds of the set without the
\* element that is picked from it, holds of every finite set.
LEMMA OneByOne ==
  ASSUME NEW D, IsFiniteSet(D), NEW Good, {} \in Good,
         \A S \in SUBSET D: S # {} /\ S \ {Picked(S)} \in Good => S \in Good
  PROVE  \A S \in SUBSET D: S \in Good
  <1> DEFINE Sizes == {Cardinality(S): S \in (SUBSET D) \ Good}
  <1>1. SUFFICES ASSUME Sizes # {}
                 PROVE  FALSE
    OBVIOUS
  <1>2. \A S \in SUBSET D: IsFiniteSet(S) /\ Cardinality(S) \in Nat
    BY FS_Subset, FS_CardinalityType
  <1>3. PICK n \in Sizes: \A k \in Sizes: n <= k
    <2>1. Sizes \in SUBSET Nat
      BY <1>2
    <2> HIDE DEF Sizes
    <2> QED
      BY <1>1, <2>1, LeastNatural
  <1>4. PICK S \in (SUBSET D) \ Good: n = Cardinality(S)
    BY <1>3
  <1>5. Picked(S) \in S
    BY <1>4 DEF Picked
  <1>6. Cardinality(S \ {Picked(S)}) = n - 1 /\ n \in Nat
    BY <1>2, <1>4, <1>5, FS_RemoveElement
  <1>7. S \ {Picked(S)} \notin Good
    BY <1>4, <1>5
  <1>8. S \ {Picked(S)} \in (SUBSET D) \ Good
    BY <1>4, <1>7
  <1> QED
    BY <1>3, <1>6, <1>8

\* sums of the values of f over the sets of Over, each built on the one without an element
SumsAre(f, Over, sums) ==
  sums = [S \in Over |-> IF S = {} THEN 0 ELSE f[Picked(S)] + sums[S \ {Picked(S)}]]

LEMMA SumsExist ==
  ASSUME NEW f, IsFiniteSet(DOMAIN f)
  PROVE  \E sums: SumsAre(f, SUBSET DOMAIN f, sums)
  <1> DEFINE D == DOMAIN f
             UpTo(n) == {S \in SUBSET D: Cardinality(S) <= n}
             Undefined == {n \in Nat: ~ \E sums: SumsAre(f, UpTo(n), sums)}
  <1>1. \A S \in SUBSET D: IsFiniteSet(S) /\ Cardinality(S) \in Nat
                           /\ (S # {} => /\ Picked(S) \in S
                                         /\ Cardinality(S \ {Picked(S)}) = Cardinality(S) - 1)
    BY FS_Subset, FS_CardinalityType, FS_RemoveElement DEF Picked
  <1>2. \A S \in SUBSET D: Cardinality(S) = 0 => S = {}
    BY <1>1, FS_EmptySet
  <1>3. Undefined = {}
    <2>1. SUFFICES ASSUME Undefined # {}
                   PROVE  FALSE
      OBVIOUS
    <2>2. PICK n \in Undefined: \A k \in Undefined: n <= k
      BY <2>1, LeastNatural
    <2>3. n # 0
      <3>1. \A S \in UpTo(0): S = {}
        <4> SUFFICES ASSUME NEW S \in SUBSET D, Cardinality(S) <= 0
                     PROVE  S = {}
          OBVIOUS
        <4>1. Cardinality(S) \in Nat
          BY <1>1
        <4>2. Cardinality(S) = 0
          BY <4>1
        <4> QED
          BY <1>2, <4>2
      <3>2. SumsAre(f, UpTo(0), [S \in UpTo(0) |-> 0])
        BY <3>1 DEF SumsAre
      <3> QED
        BY <2>2, <3>2
    <2>4. PICK below: SumsAre(f, UpTo(n - 1), below)
      <3>1. n - 1 \in Nat /\ ~(n <= n - 1)
        BY <2>3
      <3> QED
        BY <2>2, <3>1
    <2> DEFINE sums == [S \in UpTo(n) |->
                          IF S = {} THEN 0 ELSE f[Picked(S)] + below[S \ {Picked(S)}]]
    <2>5. ASSUME NEW S \in UpTo(n), S # {}
          PROVE  sums[S \ {Picked(S)}] = below[S \ {Picked(S)}]
      <3>1. S \ {Picked(S)} \in UpTo(n - 1) /\ S \ {Picked(S)} \in UpTo(n)
        BY <1>1, <2>5
      <3> HIDE DEF UpTo
      <3> QED
        BY <3>1, <2>4 DEF SumsAre
    <2> HIDE DEF UpTo
    <2>6. sums = [S \in UpTo(n) |-> IF S = {} THEN 0 ELSE f[Picked(S)] + sums[S \ {Picked(S)}]]
      BY <2>5
    <2> HIDE DEF sums
    <2>7. SumsAre(f, UpTo(n), sums)
      BY <2>6 DEF SumsAre
    <2> QED
      BY <2>2, <2>7
  <1>4. UpTo(Cardinality(D)) = SUBSET D
    BY FS_Subset
  <1>5. Cardinality(D) \in Nat
    BY FS_CardinalityType
  <1> QED
    BY <1>3, <1>4, <1>5

\* what the fold of the library computes
LEMMA SumIsBuilt ==
  ASSUME NEW f, IsFiniteSet(DOMAIN f)
  PROVE  \E sums: SumsAre(f, SUBSET DOMAIN f, sums) /\ SumFunction(f) = sums[DOMAIN f]
  <1> DEFINE sums == CHOOSE s: s = [S \in SUBSET DOMAIN f |->
                                      IF S = {} THEN 0
                                      ELSE LET x == CHOOSE y \in S: TRUE IN f[x] + s[S \ {x}]]
  <1>1. SumsAre(f, SUBSET DOMAIN f, sums)
    BY SumsExist, Zenon DEF SumsAre, Picked
  <1>2. SumFunction(f) = sums[DOMAIN f]
    BY Zenon DEF SumFunction, SumFunctionOnSet, FoldFunctionOnSet, MapThenFoldSet
  <1> QED
    BY <1>1, <1>2
\* sums leads to the sum of f, one term after the other
Builds(D, f, sums) ==
  /\ sums \in [SUBSET D -> Int]
  /\ sums[{}] = 0
  /\ \A S \in SUBSET D:
       S # {} => /\ Picked(S) \in S
                 /\ f[Picked(S)] \in Int
                 /\ S \ {Picked(S)} \in SUBSET D
                 /\ sums[S] = f[Picked(S)] + sums[S \ {Picked(S)}]
  /\ SumFunction(f) = sums[D]

LEMMA SumOfIntegers ==
  ASSUME NEW D, IsFiniteSet(D), NEW f \in [D -> Int]
  PROVE  \E sums: Builds(D, f, sums)
  <1>1. PICK sums: SumsAre(f, SUBSET D, sums) /\ SumFunction(f) = sums[D]
    BY SumIsBuilt
  <1>2. \A S \in SUBSET D: S # {} => Picked(S) \in S
    BY DEF Picked
  <1>3. sums[{}] = 0
    BY <1>1 DEF SumsAre
  <1>4. \A S \in SUBSET D: S # {} => sums[S] = f[Picked(S)] + sums[S \ {Picked(S)}]
    BY <1>1 DEF SumsAre
  <1>5. \A S \in SUBSET D: sums[S] \in Int
    <2> DEFINE Good == {S \in SUBSET D: sums[S] \in Int}
    <2>1. {} \in Good
      BY <1>3
    <2>2. ASSUME NEW S \in SUBSET D, S # {}, S \ {Picked(S)} \in Good
          PROVE  S \in Good
      <3>1. f[Picked(S)] \in Int /\ sums[S \ {Picked(S)}] \in Int
        BY <1>2, <2>2
      <3>2. f[Picked(S)] + sums[S \ {Picked(S)}] \in Int
        BY <3>1
      <3> QED
        BY <1>4, <2>2, <3>2
    <2>3. \A S \in SUBSET D: S \in Good
      <3> HIDE DEF Good
      <3> QED
        BY <2>1, <2>2, OneByOne
    <2> QED
      BY <2>3
  <1>6. sums \in [SUBSET D -> Int]
    BY <1>1, <1>5 DEF SumsAre
  <1> QED
    BY <1>1, <1>2, <1>3, <1>4, <1>6 DEF Builds

LEMMA SumIsInteger ==
  ASSUME NEW D, IsFiniteSet(D), NEW f \in [D -> Int]
  PROVE  SumFunction(f) \in Int
  <1>1. PICK F: Builds(D, f, F)
    BY SumOfIntegers
  <1> QED
    BY <1>1 DEF Builds

LEMMA SumsAddUp ==
  ASSUME NEW D, IsFiniteSet(D), NEW f \in [D -> Int], NEW g \in [D -> Int], NEW h \in [D -> Int],
         \A d \in D: h[d] = f[d] + g[d]
  PROVE  SumFunction(h) = SumFunction(f) + SumFunction(g)
  <1>1. PICK F: Builds(D, f, F)
    BY SumOfIntegers
  <1>2. PICK G: Builds(D, g, G)
    BY SumOfIntegers
  <1>3. PICK H: Builds(D, h, H)
    BY SumOfIntegers
  <1> DEFINE Good == {S \in SUBSET D: H[S] = F[S] + G[S]}
  <1>4. {} \in Good
    BY <1>1, <1>2, <1>3 DEF Builds
  <1>5. ASSUME NEW S \in SUBSET D, S # {}, S \ {Picked(S)} \in Good
        PROVE  S \in Good
    <2> DEFINE rest == S \ {Picked(S)}
    <2>1. H[rest] = F[rest] + G[rest] /\ F[rest] \in Int /\ G[rest] \in Int
      BY <1>1, <1>2, <1>5 DEF Builds
    <2>2. h[Picked(S)] = f[Picked(S)] + g[Picked(S)]
          /\ f[Picked(S)] \in Int /\ g[Picked(S)] \in Int
      BY <1>1, <1>2, <1>5 DEF Builds
    <2>3. H[S] = h[Picked(S)] + H[rest] /\ F[S] = f[Picked(S)] + F[rest]
          /\ G[S] = g[Picked(S)] + G[rest]
      BY <1>1, <1>2, <1>3, <1>5 DEF Builds
    <2> HIDE DEF rest
    <2>4. H[S] = F[S] + G[S]
      BY <2>1, <2>2, <2>3
    <2> QED
      BY <2>4
  <1>6. \A S \in SUBSET D: S \in Good
    <2> HIDE DEF Good
    <2> QED
      BY <1>4, <1>5, OneByOne
  <1> QED
    BY <1>1, <1>2, <1>3, <1>6 DEF Builds

LEMMA SumsCompare ==
  ASSUME NEW D, IsFiniteSet(D), NEW f \in [D -> Int], NEW g \in [D -> Int],
         \A d \in D: f[d] <= g[d]
  PROVE  SumFunction(f) <= SumFunction(g)
  <1>1. PICK F: Builds(D, f, F)
    BY SumOfIntegers
  <1>2. PICK G: Builds(D, g, G)
    BY SumOfIntegers
  <1> DEFINE Good == {S \in SUBSET D: F[S] <= G[S]}
  <1>3. {} \in Good
    BY <1>1, <1>2 DEF Builds
  <1>4. ASSUME NEW S \in SUBSET D, S # {}, S \ {Picked(S)} \in Good
        PROVE  S \in Good
    <2> DEFINE rest == S \ {Picked(S)}
    <2>1. F[rest] <= G[rest] /\ F[rest] \in Int /\ G[rest] \in Int
      BY <1>1, <1>2, <1>4 DEF Builds
    <2>2. f[Picked(S)] <= g[Picked(S)] /\ f[Picked(S)] \in Int /\ g[Picked(S)] \in Int
      BY <1>1, <1>2, <1>4 DEF Builds
    <2>3. F[S] = f[Picked(S)] + F[rest] /\ G[S] = g[Picked(S)] + G[rest]
      BY <1>1, <1>2, <1>4 DEF Builds
    <2> HIDE DEF rest
    <2>4. F[S] <= G[S]
      BY <2>1, <2>2, <2>3
    <2> QED
      BY <2>4
  <1>5. \A S \in SUBSET D: S \in Good
    <2> HIDE DEF Good
    <2> QED
      BY <1>3, <1>4, OneByOne
  <1> QED
    BY <1>1, <1>2, <1>5 DEF Builds

LEMMA SumIsScaled ==
  ASSUME NEW D, IsFiniteSet(D), NEW f \in [D -> Int], NEW g \in [D -> Int], NEW k \in Int,
         \A d \in D: g[d] = k * f[d]
  PROVE  SumFunction(g) = k * SumFunction(f)
  <1>1. PICK F: Builds(D, f, F)
    BY SumOfIntegers
  <1>2. PICK G: Builds(D, g, G)
    BY SumOfIntegers
  <1>3. \A a, b \in Int: k * (a + b) = k * a + k * b /\ k * 0 = 0
    OBVIOUS
  <1> DEFINE Good == {S \in SUBSET D: G[S] = k * F[S]}
  <1>4. {} \in Good
    BY <1>1, <1>2, <1>3 DEF Builds
  <1>5. ASSUME NEW S \in SUBSET D, S # {}, S \ {Picked(S)} \in Good
        PROVE  S \in Good
    <2> DEFINE rest == S \ {Picked(S)}
    <2>1. G[rest] = k * F[rest] /\ F[rest] \in Int
      BY <1>1, <1>2, <1>5 DEF Builds
    <2>2. g[Picked(S)] = k * f[Picked(S)] /\ f[Picked(S)] \in Int
      BY <1>1, <1>2, <1>5 DEF Builds
    <2>3. F[S] = f[Picked(S)] + F[rest] /\ G[S] = g[Picked(S)] + G[rest]
      BY <1>1, <1>2, <1>5 DEF Builds
    <2> HIDE DEF rest
    <2>4. G[S] = k * F[S]
      BY <1>3, <2>1, <2>2, <2>3
    <2> QED
      BY <2>4
  <1>6. \A S \in SUBSET D: S \in Good
    <2> HIDE DEF Good
    <2> QED
      BY <1>4, <1>5, OneByOne
  <1> QED
    BY <1>1, <1>2, <1>6 DEF Builds

\* A sum of natural numbers is at least each of them.
LEMMA SumOfNaturals ==
  ASSUME NEW D, IsFiniteSet(D), NEW f \in [D -> Nat]
  PROVE  SumFunction(f) \in Nat /\ \A d \in D: f[d] <= SumFunction(f)
  <1>1. PICK F: Builds(D, f, F)
    BY SumOfIntegers
  <1> DEFINE Good == {S \in SUBSET D: F[S] \in Nat /\ \A d \in S: f[d] <= F[S]}
  <1>2. {} \in Good
    BY <1>1 DEF Builds
  <1>3. ASSUME NEW S \in SUBSET D, S # {}, S \ {Picked(S)} \in Good
        PROVE  S \in Good
    <2> DEFINE rest == S \ {Picked(S)}
    <2>1. F[rest] \in Nat /\ \A d \in rest: f[d] <= F[rest] /\ f[d] \in Nat
      BY <1>3
    <2>2. f[Picked(S)] \in Nat /\ F[S] = f[Picked(S)] + F[rest]
      BY <1>1, <1>3 DEF Builds
    <2>3. \A d \in S: d \in rest \/ d = Picked(S)
      OBVIOUS
    <2> HIDE DEF rest
    <2>4. F[S] \in Nat /\ \A d \in S: f[d] <= F[S]
      BY <2>1, <2>2, <2>3
    <2> QED
      BY <2>4
  <1>4. \A S \in SUBSET D: S \in Good
    <2> HIDE DEF Good
    <2> QED
      BY <1>2, <1>3, OneByOne
  <1> QED
    BY <1>1, <1>4 DEF Builds
LEMMA SumOfNone ==
  ASSUME NEW f, DOMAIN f = {}
  PROVE  SumFunction(f) = 0
  <1>1. PICK sums: SumsAre(f, SUBSET DOMAIN f, sums) /\ SumFunction(f) = sums[DOMAIN f]
    BY SumIsBuilt, FS_EmptySet
  <1> QED
    BY <1>1 DEF SumsAre

-----------------------------------------------------------------------------
(* Averages *)

LEMMA HasLowest ==
  ASSUME NEW D, IsFiniteSet(D), D # {}, NEW f \in [D -> Int]
  PROVE  \E d \in D: \A e \in D: f[d] <= f[e]
  <1> DEFINE Good == {S \in SUBSET D: S # {} => \E d \in S: \A e \in S: f[d] <= f[e]}
  <1>1. {} \in Good
    OBVIOUS
  <1>2. ASSUME NEW S \in SUBSET D, S # {}, S \ {Picked(S)} \in Good
        PROVE  S \in Good
    <2> DEFINE x == Picked(S)
               T == S \ {x}
    <2>1. x \in S
      BY <1>2 DEF Picked
    <2> HIDE DEF x
    <2>2. CASE T = {}
      <3>1. \A e \in S: e = x
        BY <2>2
      <3>2. f[x] \in Int
        BY <2>1
      <3> QED
        BY <2>1, <3>1, <3>2
    <2>3. CASE T # {}
      <3>1. PICK d \in T: \A e \in T: f[d] <= f[e]
        BY <1>2, <2>3 DEF x
      <3>2. f[d] \in Int /\ f[x] \in Int /\ \A e \in S: f[e] \in Int
        BY <2>1
      <3>3. CASE f[d] <= f[x]
        <4>1. \A e \in S: f[d] <= f[e]
          BY <3>1, <3>3
        <4> QED
          BY <4>1
      <3>4. CASE ~(f[d] <= f[x])
        <4>1. \A e \in S: f[x] <= f[e]
          BY <3>1, <3>2, <3>4
        <4> QED
          BY <2>1, <4>1
      <3> QED
        BY <3>3, <3>4
    <2> QED
      BY <2>2, <2>3
  <1> HIDE DEF Good
  <1>3. \A S \in SUBSET D: S \in Good
    BY <1>1, <1>2, OneByOne
  <1> QED
    BY <1>3 DEF Good

LEMMA HasHighest ==
  ASSUME NEW D, IsFiniteSet(D), D # {}, NEW f \in [D -> Int]
  PROVE  \E d \in D: \A e \in D: f[e] <= f[d]
  <1> DEFINE opposite == [d \in D |-> - f[d]]
  <1>1. opposite \in [D -> Int]
    OBVIOUS
  <1>2. PICK d \in D: \A e \in D: opposite[d] <= opposite[e]
    <2> HIDE DEF opposite
    <2> QED
      BY <1>1, HasLowest
  <1>3. \A e \in D: f[e] \in Int /\ - f[d] <= - f[e]
    BY <1>2
  <1> QED
    BY <1>3

LEMMA QuotientIs ==
  ASSUME NEW a \in Int, NEW b \in Nat \ {0}
  PROVE  a \div b \in Int /\ b * (a \div b) <= a /\ a < b * (a \div b) + b
  OBVIOUS

\* A quotient that is rounded stays between the integers it lay between.
LEMMA RoundedLies ==
  ASSUME NEW a \in Int, NEW b \in Nat \ {0}, NEW low \in Int, NEW high \in Int,
         low * b <= a, a <= high * b
  PROVE  (2 * a + b) \div (2 * b) \in low..high
  <1>1. PICK q \in Int: /\ q = (2 * a + b) \div (2 * b)
                        /\ (2 * b) * q <= 2 * a + b
                        /\ 2 * a + b < (2 * b) * q + 2 * b
    BY QuotientIs
  <1>2. low <= q
    <2>1. SUFFICES ASSUME q + 1 <= low
                   PROVE  FALSE
      BY <1>1
    <2>2. (q + 1) * b <= low * b
      BY <2>1
    <2> QED
      BY <1>1, <2>2
  <1>3. q <= high
    <2>1. SUFFICES ASSUME high + 1 <= q
                   PROVE  FALSE
      BY <1>1
    <2>2. (high + 1) * b <= q * b
      BY <2>1
    <2> QED
      BY <1>1, <2>2
  <1> QED
    BY <1>1, <1>2, <1>3

\* A weighted sum lies between the weights taken as often as the lowest and the highest
\* value.
LEMMA WeightedSumLies ==
  ASSUME NEW D, IsFiniteSet(D), NEW value \in [D -> Int], NEW factor \in [D -> Nat],
         NEW low \in Int, NEW high \in Int, \A d \in D: low <= value[d] /\ value[d] <= high
  PROVE  /\ SumFunction([d \in D |-> value[d] * factor[d]]) \in Int
         /\ SumFunction(factor) \in Nat
         /\ low * SumFunction(factor) <= SumFunction([d \in D |-> value[d] * factor[d]])
         /\ SumFunction([d \in D |-> value[d] * factor[d]]) <= high * SumFunction(factor)
  <1> DEFINE product == [d \in D |-> value[d] * factor[d]]
             lowest  == [d \in D |-> low * factor[d]]
             highest == [d \in D |-> high * factor[d]]
  <1>1. /\ factor \in [D -> Int]
        /\ product \in [D -> Int]
        /\ lowest \in [D -> Int] /\ highest \in [D -> Int]
    OBVIOUS
  <1>2. \A d \in D: lowest[d] <= product[d] /\ product[d] <= highest[d]
    <2> SUFFICES ASSUME NEW d \in D
                 PROVE  low * factor[d] <= value[d] * factor[d]
                        /\ value[d] * factor[d] <= high * factor[d]
      OBVIOUS
    <2>1. PICK v \in Int, w \in Nat: v = value[d] /\ w = factor[d] /\ low <= v /\ v <= high
      OBVIOUS
    <2> QED
      BY <2>1
  <1>3. \A d \in D: lowest[d] = low * factor[d] /\ highest[d] = high * factor[d]
    OBVIOUS
  <1>4. low \in Int /\ high \in Int
    OBVIOUS
  <1> HIDE DEF product, lowest, highest
  <1>5. SumFunction(lowest) <= SumFunction(product)
        /\ SumFunction(product) <= SumFunction(highest)
    BY <1>1, <1>2, SumsCompare
  <1>6. SumFunction(lowest) = low * SumFunction(factor)
        /\ SumFunction(highest) = high * SumFunction(factor)
    BY <1>1, <1>3, <1>4, SumIsScaled
  <1>7. SumFunction(product) \in Int /\ SumFunction(factor) \in Nat
    BY <1>1, SumIsInteger, SumOfNaturals
  <1> QED
    BY <1>5, <1>6, <1>7 DEF product
-----------------------------------------------------------------------------
(* The order of the terms *)

\* A sum does not depend on the term that is set apart first.
LEMMA AnyTermFirst ==
  ASSUME NEW D, IsFiniteSet(D), NEW f \in [D -> Int]
  PROVE  \E F: Builds(D, f, F) /\ \A S \in SUBSET D: \A x \in S: F[S] = f[x] + F[S \ {x}]
  <1>0. PICK F: Builds(D, f, F)
    BY SumOfIntegers
  <1> DEFINE Holds(S) == \A x \in S: F[S] = f[x] + F[S \ {x}]
             Bad == {S \in SUBSET D: ~Holds(S)}
             Sizes == {Cardinality(S): S \in Bad}
  <1>1. SUFFICES ASSUME Bad # {}
                 PROVE  FALSE
    BY <1>0, Zenon
  <1>2. \A S \in SUBSET D: IsFiniteSet(S) /\ Cardinality(S) \in Nat
    BY FS_Subset, FS_CardinalityType
  <1>3. PICK n \in Sizes: \A k \in Sizes: n <= k
    <2>1. Sizes \in SUBSET Nat /\ Sizes # {}
      BY <1>1, <1>2
    <2> HIDE DEF Sizes
    <2> QED
      BY <2>1, LeastNatural
  <1>4. PICK S \in Bad: n = Cardinality(S)
    BY <1>3
  <1>5. PICK x \in S: F[S] # f[x] + F[S \ {x}]
    BY <1>4
  <1> DEFINE p == Picked(S)
             rest == (S \ {p}) \ {x}
  <1>6. p \in S /\ F[S] = f[p] + F[S \ {p}]
    BY <1>0, <1>4, <1>5 DEF Builds
  <1>7. x # p
    BY <1>5, <1>6
  <1>8. ASSUME NEW y \in S, NEW z \in S \ {y}
        PROVE  F[S \ {y}] = f[z] + F[(S \ {y}) \ {z}]
    <2>1. Cardinality(S \ {y}) = n - 1 /\ n \in Nat
      BY <1>2, <1>4, FS_RemoveElement
    <2>2. S \ {y} \notin Bad
      <3>1. S \ {y} \in Bad => n - 1 \in Sizes
        BY <2>1
      <3> QED
        BY <1>3, <2>1, <3>1
    <2>3. S \ {y} \in SUBSET D
      BY <1>4
    <2> QED
      BY <2>2, <2>3
  <1>9. F[S \ {p}] = f[x] + F[rest] /\ F[S \ {x}] = f[p] + F[rest]
    <2>1. (S \ {x}) \ {p} = rest
      OBVIOUS
    <2> QED
      BY <1>6, <1>7, <1>8, <2>1
  <1>10. f[x] \in Int /\ f[p] \in Int /\ F[rest] \in Int
    <2>1. rest \in SUBSET D /\ x \in D /\ p \in D
      BY <1>4, <1>6
    <2> QED
      BY <1>0, <2>1 DEF Builds
  <1> HIDE DEF p, rest
  <1> QED
    BY <1>5, <1>6, <1>9, <1>10

LEMMA SumWithout ==
  ASSUME NEW D, IsFiniteSet(D), NEW f \in [D -> Int], NEW x \in D
  PROVE  SumFunction(f) = SumFunction([d \in D \ {x} |-> f[d]]) + f[x]
  <1> DEFINE E == D \ {x}
             g == [d \in E |-> f[d]]
  <1>0. IsFiniteSet(E) /\ g \in [E -> Int] /\ E \in SUBSET D
    BY FS_Subset
  <1>1. PICK F: /\ Builds(D, f, F)
                /\ \A S \in SUBSET D: \A y \in S: F[S] = f[y] + F[S \ {y}]
    BY AnyTermFirst
  <1>2. PICK G: Builds(E, g, G)
    BY <1>0, SumOfIntegers
  <1>3. F[E] = G[E]
    <2> DEFINE Good == {S \in SUBSET E: F[S] = G[S]}
    <2>1. {} \in Good
      BY <1>1, <1>2 DEF Builds
    <2>2. ASSUME NEW S \in SUBSET E, S # {}, S \ {Picked(S)} \in Good
          PROVE  S \in Good
      <3>1. F[S \ {Picked(S)}] = G[S \ {Picked(S)}]
        BY <2>2
      <3>2. S \in SUBSET D /\ Picked(S) \in E
        BY <1>0, <1>2, <2>2 DEF Builds
      <3>3. f[Picked(S)] = g[Picked(S)]
        BY <3>2
      <3> HIDE DEF E, g
      <3>4. F[S] = f[Picked(S)] + F[S \ {Picked(S)}]
        BY <1>1, <2>2, <3>2 DEF Builds
      <3>5. G[S] = g[Picked(S)] + G[S \ {Picked(S)}]
        BY <1>2, <2>2 DEF Builds
      <3> QED
        BY <3>1, <3>3, <3>4, <3>5
    <2> HIDE DEF Good, E, g
    <2>3. \A S \in SUBSET E: S \in Good
      BY <1>0, <2>1, <2>2, OneByOne
    <2> QED
      BY <2>3 DEF Good
  <1>4. F[D] = f[x] + F[E] /\ f[x] \in Int /\ F[E] \in Int
    <2>1. F[E] \in Int
      BY <1>0, <1>1 DEF Builds
    <2> QED
      BY <1>1, <2>1
  <1>5. SumFunction(f) = F[D] /\ SumFunction(g) = G[E]
    BY <1>1, <1>2 DEF Builds
  <1> HIDE DEF E, g
  <1>6. SumFunction(f) = SumFunction(g) + f[x]
    BY <1>3, <1>4, <1>5
  <1> QED
    BY <1>6 DEF E, g
=============================================================================
