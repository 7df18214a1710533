------------------------ MODULE TradeFeatures_proofs ------------------------
(***************************************************************************)
(* Theorems about what the detectors compute, for any trades, payments and *)
(* wallets: what a combined score says of its two parts, that the score of *)
(* a ring tells loops from flow, that the features are fractions, and that *)
(* the two loops over a pool's trades, and the two over bursts, agree.     *)
(***************************************************************************)
EXTENDS TradeFeatures, FiniteSetTheorems, WellFoundedInduction, TLAPS

-----------------------------------------------------------------------------
(* RiskScore.combine.                                                        *)

\* Rounding stays next to the quotient and keeps the order.
LEMMA RoundedBounds ==
    ASSUME NEW num \in Nat
    PROVE  /\ Rounded(num, 100) \in Nat
           /\ 100 * Rounded(num, 100) <= num + 50
           /\ num - 50 <= 100 * Rounded(num, 100)
  <1>1. /\ 100 * (num \div 100) <= num /\ num < 100 * (num \div 100) + 100
        /\ num \div 100 \in Nat
    OBVIOUS
  <1> QED BY <1>1 DEF Rounded

LEMMA RoundedMonotone ==
    ASSUME NEW m \in Nat, NEW n \in Nat, m <= n
    PROVE  Rounded(m, 100) <= Rounded(n, 100)
  <1>1. /\ 100 * (m \div 100) <= m /\ m < 100 * (m \div 100) + 100 /\ m \div 100 \in Nat
        /\ 100 * (n \div 100) <= n /\ n < 100 * (n \div 100) + 100 /\ n \div 100 \in Nat
    OBVIOUS
  <1>2. m \div 100 <= n \div 100
    BY <1>1
  <1>3. CASE m \div 100 = n \div 100
    BY <1>1, <1>3 DEF Rounded
  <1>4. CASE m \div 100 + 1 <= n \div 100
    BY <1>1, <1>4 DEF Rounded
  <1> QED BY <1>1, <1>2, <1>3, <1>4

LEMMA BenfordShareIsShare ==
    ASSUME NEW mad \in Nat, NEW threshold \in Nat
    PROVE  BenfordShare(mad, threshold) \in Share
  <1>1. CASE threshold = 0 \/ mad >= threshold
    BY <1>1 DEF BenfordShare, Share
  <1>2. CASE threshold # 0 /\ mad < threshold
    <2> DEFINE q == (1000 * mad) \div threshold
    <2>1. threshold \in Int /\ threshold > 0 /\ 1000 * mad \in Nat
      BY <1>2
    <2>2. q \in Nat /\ threshold * q <= 1000 * mad
      BY <2>1
    <2>3. q <= 1000
      BY <1>2, <2>2
    <2> QED BY <1>2, <2>2, <2>3 DEF BenfordShare, Share
  <1> QED BY <1>1, <1>2

\* A score lies within the schema's bounds, ge=0 and le=100.
LEMMA ScoreInRange ==
    ASSUME NEW mad \in Nat, NEW threshold \in Nat, NEW probability \in Share
    PROVE  Combined(mad, threshold, probability) \in 0..100
  <1> DEFINE sum == 3 * BenfordShare(mad, threshold) + 7 * probability
  <1>0. BenfordShare(mad, threshold) \in Share
    BY BenfordShareIsShare
  <1>1. sum \in Nat
    BY <1>0 DEF Share
  <1>2. Rounded(sum, 100) \in Nat
    BY <1>1, RoundedBounds
  <1> QED BY <1>2 DEF Combined, Least

\* combine: a higher probability never lowers a wallet's score, and a set
\* benford_flag never leaves it below one that is not set (with a threshold;
\* at threshold 0 the flag is set and adds nothing).
THEOREM ScoreMonotone ==
    ASSUME NEW m1 \in Nat, NEW m2 \in Nat, NEW threshold \in Nat \ {0},
           NEW p1 \in Share, NEW p2 \in Share, p1 <= p2,
           m1 = m2 \/ BenfordFlag(m2, threshold)
    PROVE  Combined(m1, threshold, p1) <= Combined(m2, threshold, p2)
  <1> DEFINE b1 == BenfordShare(m1, threshold)
             b2 == BenfordShare(m2, threshold)
             s1 == 3 * b1 + 7 * p1
             s2 == 3 * b2 + 7 * p2
  <1>1. b1 \in Share /\ b2 \in Share
    BY BenfordShareIsShare
  <1>2. b1 <= b2
    <2>1. CASE m1 = m2
      BY <1>1, <2>1 DEF Share
    <2>2. CASE BenfordFlag(m2, threshold)
      <3>1. b2 = 1000
        BY <2>2 DEF BenfordFlag, BenfordShare
      <3> QED BY <1>1, <3>1 DEF Share
    <2> QED BY <2>1, <2>2
  <1>3. s1 \in Nat /\ s2 \in Nat /\ s1 <= s2
    <2> HIDE DEF b1, b2
    <2> QED BY <1>1, <1>2 DEF Share
  <1>4. /\ Rounded(s1, 100) <= Rounded(s2, 100)
        /\ Rounded(s1, 100) \in Nat /\ Rounded(s2, 100) \in Nat
    BY <1>3, RoundedMonotone, RoundedBounds
  <1> QED BY <1>4 DEF Combined, Least

\* The flags and the score agree: no score of 66 or more, so none at the
\* default alert threshold of 70, comes without ml_flag, whatever the Benford
\* deviation and its threshold.
THEOREM AlertsHaveMlFlag ==
    ASSUME NEW mad \in Nat, NEW threshold \in Nat, NEW probability \in Share,
           Combined(mad, threshold, probability) >= 66
    PROVE  MlFlag(probability)
  <1> DEFINE sum == 3 * BenfordShare(mad, threshold) + 7 * probability
  <1>1. SUFFICES ASSUME ~MlFlag(probability)
                 PROVE  Combined(mad, threshold, probability) <= 65
    <2>1. Combined(mad, threshold, probability) \in 0..100
      BY ScoreInRange
    <2> QED BY <2>1
  <1>0. BenfordShare(mad, threshold) \in Share
    BY BenfordShareIsShare
  <1>2. sum \in Nat /\ sum <= 6493
    <2>1. probability <= 499
      BY <1>1 DEF Share, MlFlag
    <2>2. \A b \in Share : 3 * b + 7 * probability \in Nat /\ 3 * b + 7 * probability <= 6493
      BY <2>1 DEF Share
    <2> QED BY <1>0, <2>2
  <1>3. Rounded(sum, 100) \in Nat /\ 100 * Rounded(sum, 100) <= 6543
    BY <1>2, RoundedBounds
  <1> QED BY <1>3 DEF Combined, Least

-----------------------------------------------------------------------------
(* Finite sets and sums over them.                                           *)

\* A family of subsets of a finite set has a minimal member.
LEMMA MinimalSubset ==
    ASSUME NEW S, IsFiniteSet(S), NEW F \in SUBSET SUBSET S, F # {}
    PROVE  \E m \in F : \A x \in F : x \subseteq m => x = m
<1> DEFINE R == StrictSubsetOrdering(S)
<1>1. F \subseteq FiniteSubsetsOf(S)
  <2>1. \A x \in F : IsFiniteSet(x)
    BY FS_Subset
  <2> QED BY <2>1 DEF FiniteSubsetsOf
<1>2. IsWellFoundedOn(R, FiniteSubsetsOf(S))
  BY FS_StrictSubsetOrderingWellFounded
<1>3. PICK m \in F : \A x \in F : ~(<<x, m>> \in R)
  <2> HIDE DEF R
  <2> QED BY <1>1, <1>2, WFMin
<1>4. ASSUME NEW x \in F, x \subseteq m, x # m PROVE FALSE
  BY <1>3, <1>4 DEF StrictSubsetOrdering
<1> QED BY <1>4


\* A function has a greatest value on a finite set.
LEMMA GreatestValue ==
    ASSUME NEW S, IsFiniteSet(S), S # {}, NEW fun, \A x \in S : fun[x] \in Nat
    PROVE  \E x \in S : \A y \in S : fun[y] <= fun[x]
<1> DEFINE above(x) == {y \in S : fun[y] > fun[x]}
           F == {above(x) : x \in S}
<1>1. PICK m \in F : \A x \in F : x \subseteq m => x = m
  <2>1. \A x \in S : above(x) \in SUBSET S
    OBVIOUS
  <2>2. F # {} /\ F \in SUBSET SUBSET S
    <3> HIDE DEF above
    <3> QED BY <2>1
  <2> HIDE DEF F
  <2> QED BY <2>2, MinimalSubset
<1>2. PICK x \in S : m = above(x)
  OBVIOUS
<1>3. ASSUME NEW y \in S, ~(fun[y] <= fun[x]) PROVE FALSE
  <2>1. y \in above(x) /\ y \notin above(y) /\ above(y) \in F
    BY <1>3
  <2>2. above(y) \subseteq above(x)
    BY <1>3
  <2> QED BY <1>1, <1>2, <2>1, <2>2
<1> QED BY <1>3

Some(s) == CHOOSE x \in s : TRUE

\* What the sum over S is computed with: the sums over its subsets.
Unfolds(fun, S, g) ==
    g = [s \in SUBSET S |-> IF s = {} THEN 0 ELSE fun[Some(s)] + g[s \ {Some(s)}]]

LEMMA SomeIsIn == \A s : s # {} => Some(s) \in s
  BY DEF Some

\* They do not depend on S.
LEMMA UnfoldsAgree ==
    ASSUME NEW fun, NEW S, NEW T, IsFiniteSet(S), NEW g, NEW h,
           Unfolds(fun, S, g), Unfolds(fun, T, h),
           NEW s \in SUBSET S, s \in SUBSET T
    PROVE  g[s] = h[s]
<1> DEFINE F == {x \in SUBSET S : x \in SUBSET T /\ g[x] # h[x]}
<1>1. SUFFICES ASSUME F # {} PROVE FALSE
  OBVIOUS
<1>2. PICK x \in F : \A y \in F : y \subseteq x => y = x
  <2>1. F \in SUBSET SUBSET S
    OBVIOUS
  <2> HIDE DEF F
  <2> QED BY <1>1, <2>1, MinimalSubset
<1> DEFINE y == x \ {Some(x)}
<1>3. /\ g[x] = IF x = {} THEN 0 ELSE fun[Some(x)] + g[y]
      /\ h[x] = IF x = {} THEN 0 ELSE fun[Some(x)] + h[y]
  BY DEF Unfolds
<1>4. x # {} /\ y # x
  BY <1>3, SomeIsIn
<1>5. y \in SUBSET S /\ y \in SUBSET T /\ y \subseteq x
  OBVIOUS
<1>6. g[y] = h[y]
  BY <1>2, <1>4, <1>5
<1> QED BY <1>3, <1>4, <1>6

\* They exist.
LEMMA UnfoldsExists ==
    ASSUME NEW fun, NEW S, IsFiniteSet(S)
    PROVE  \E g : Unfolds(fun, S, g)
<1> DEFINE H(T) == CHOOSE g : Unfolds(fun, T, g)
           F == {T \in SUBSET S : ~\E g : Unfolds(fun, T, g)}
<1>1. SUFFICES ASSUME F # {} PROVE FALSE
  OBVIOUS
<1>2. PICK T \in F : \A x \in F : x \subseteq T => x = T
  <2>1. F \in SUBSET SUBSET S
    OBVIOUS
  <2> HIDE DEF F
  <2> QED BY <1>1, <2>1, MinimalSubset
<1>3. \A x \in SUBSET T : x # T => Unfolds(fun, x, H(x))
  <2>1. ASSUME NEW x \in SUBSET T, x # T PROVE \E g : Unfolds(fun, x, g)
    BY <1>2, <2>1
  <2> QED BY <2>1
<1> HIDE DEF H
<1> DEFINE next(x) == x \ {Some(x)}
           g == [x \in SUBSET T |->
                   IF x = {} THEN 0 ELSE fun[Some(x)] + H(next(x))[next(x)]]
<1>4. ASSUME NEW x \in SUBSET T, x # {} PROVE g[next(x)] = H(next(x))[next(x)]
  <2> DEFINE y == next(x)
  <2>1. y \in SUBSET T /\ y # T
    BY <1>4, SomeIsIn
  <2>2. Unfolds(fun, y, H(y))
    BY <1>3, <2>1
  <2>3. CASE y = {}
    <3>1. H(y)[y] = 0
      BY <2>2, <2>3 DEF Unfolds
    <3>2. g[y] = 0
      BY <2>1, <2>3
    <3> QED BY <3>1, <3>2
  <2>4. CASE y # {}
    <3> DEFINE z == next(y)
    <3>1. z \in SUBSET y /\ z # y /\ z # T /\ z \in SUBSET T
      BY <2>1, <2>4, SomeIsIn
    <3>2. H(y)[y] = fun[Some(y)] + H(y)[z]
      <4> HIDE DEF y
      <4> QED BY <2>2, <2>4 DEF Unfolds
    <3>3. g[y] = fun[Some(y)] + H(z)[z]
      <4> HIDE DEF y
      <4> QED BY <2>1, <2>4
    <3>4. H(y)[z] = H(z)[z]
      <4>1. Unfolds(fun, z, H(z))
        BY <1>3, <3>1
      <4>2. IsFiniteSet(y)
        BY <2>1, FS_Subset
      <4>3. z \in SUBSET z
        OBVIOUS
      <4> HIDE DEF y, z
      <4> QED BY <2>2, <3>1, <4>1, <4>2, <4>3, UnfoldsAgree
    <3> QED BY <3>2, <3>3, <3>4
  <2> QED BY <2>3, <2>4
<1>5. Unfolds(fun, T, g)
  <2> DEFINE f == [x \in SUBSET T |-> IF x = {} THEN 0 ELSE fun[Some(x)] + g[next(x)]]
  <2>1. \A x \in SUBSET T : g[x] = f[x]
    <3>1. ASSUME NEW x \in SUBSET T, x = {} PROVE g[x] = f[x]
      BY <3>1
    <3>2. ASSUME NEW x \in SUBSET T, x # {} PROVE g[x] = f[x]
      <4>1. g[x] = fun[Some(x)] + H(next(x))[next(x)]
        BY <3>2
      <4>2. f[x] = fun[Some(x)] + g[next(x)]
        <5> HIDE DEF g
        <5> QED BY <3>2
      <4> HIDE DEF g, f, next
      <4> QED BY <1>4, <3>2, <4>1, <4>2
    <3> HIDE DEF g, f
    <3> QED BY <3>1, <3>2
  <2>2. g = f
    <3>1. DOMAIN g = SUBSET T /\ DOMAIN f = SUBSET T /\ g = [x \in DOMAIN g |-> g[x]]
      BY Zenon
    <3>2. f = [x \in DOMAIN f |-> f[x]]
      <4> HIDE DEF g
      <4> QED BY Zenon
    <3> HIDE DEF g, f
    <3> QED BY <2>1, <3>1, <3>2
  <2> HIDE DEF g
  <2> QED BY <2>2 DEF Unfolds
<1> QED BY <1>2, <1>5

\* A sum over a finite set is one of its terms and the sum of the others.
LEMMA SumUnfolds ==
    ASSUME NEW fun, NEW S, IsFiniteSet(S)
    PROVE  /\ SumFunctionOnSet(fun, {}) = 0
           /\ S # {} => SumFunctionOnSet(fun, S)
                          = fun[Some(S)] + SumFunctionOnSet(fun, S \ {Some(S)})
<1> DEFINE H(T) == CHOOSE g : Unfolds(fun, T, g)
<1>1. \A T : SumFunctionOnSet(fun, T) = H(T)[T]
  BY DEF SumFunctionOnSet, FoldFunctionOnSet, MapThenFoldSet, Unfolds, Some
<1>2. \A T \in SUBSET S : IsFiniteSet(T) /\ Unfolds(fun, T, H(T))
  BY FS_Subset, UnfoldsExists
<1> HIDE DEF H
<1>3. SumFunctionOnSet(fun, {}) = 0
  BY <1>1, <1>2 DEF Unfolds
<1>4. ASSUME S # {}
      PROVE  SumFunctionOnSet(fun, S) = fun[Some(S)] + SumFunctionOnSet(fun, S \ {Some(S)})
  <2> DEFINE T == S \ {Some(S)}
  <2>1. H(S)[S] = fun[Some(S)] + H(S)[T]
    BY <1>2, <1>4 DEF Unfolds
  <2>2. H(S)[T] = H(T)[T]
    BY <1>2, UnfoldsAgree
  <2> QED BY <1>1, <2>1, <2>2
<1> QED BY <1>3, <1>4

LEMMA SumType ==
    ASSUME NEW fun, NEW S, IsFiniteSet(S), \A x \in S : fun[x] \in Nat
    PROVE  SumFunctionOnSet(fun, S) \in Nat
<1> DEFINE F == {T \in SUBSET S : SumFunctionOnSet(fun, T) \notin Nat}
<1>1. SUFFICES ASSUME F # {} PROVE FALSE
  OBVIOUS
<1>2. PICK T \in F : \A x \in F : x \subseteq T => x = T
  <2>1. F \in SUBSET SUBSET S
    OBVIOUS
  <2> HIDE DEF F
  <2> QED BY <1>1, <2>1, MinimalSubset
<1>3. IsFiniteSet(T)
  BY FS_Subset
<1>4. T # {}
  <2>1. SumFunctionOnSet(fun, {}) = 0
    BY FS_EmptySet, SumUnfolds
  <2> QED BY <2>1
<1>5. Some(T) \in T /\ T \ {Some(T)} # T
  BY <1>4, SomeIsIn
<1>6. SumFunctionOnSet(fun, T \ {Some(T)}) \in Nat
  BY <1>2, <1>5
<1>7. SumFunctionOnSet(fun, T) = fun[Some(T)] + SumFunctionOnSet(fun, T \ {Some(T)})
  BY <1>3, <1>4, SumUnfolds
<1> QED BY <1>5, <1>6, <1>7

\* The order does not matter.
LEMMA SumRemoves ==
    ASSUME NEW fun, NEW S, IsFiniteSet(S), \A x \in S : fun[x] \in Nat, NEW x \in S
    PROVE  SumFunctionOnSet(fun, S) = fun[x] + SumFunctionOnSet(fun, S \ {x})
<1> DEFINE F == {T \in SUBSET S : \E y \in T :
                   SumFunctionOnSet(fun, T) # fun[y] + SumFunctionOnSet(fun, T \ {y})}
<1>1. SUFFICES ASSUME F # {} PROVE FALSE
  OBVIOUS
<1>2. PICK T \in F : \A U \in F : U \subseteq T => U = T
  <2>1. F \in SUBSET SUBSET S
    OBVIOUS
  <2> HIDE DEF F
  <2> QED BY <1>1, <2>1, MinimalSubset
<1>3. PICK y \in T : SumFunctionOnSet(fun, T) # fun[y] + SumFunctionOnSet(fun, T \ {y})
  OBVIOUS
<1> DEFINE c == Some(T)
<1>4. c \in T /\ c # y /\ SumFunctionOnSet(fun, T) = fun[c] + SumFunctionOnSet(fun, T \ {c})
  <2>1. IsFiniteSet(T)
    BY FS_Subset
  <2>2. c \in T /\ SumFunctionOnSet(fun, T) = fun[c] + SumFunctionOnSet(fun, T \ {c})
    BY <1>3, <2>1, SumUnfolds, SomeIsIn
  <2> QED BY <1>3, <2>2
<1>5. /\ T \in SUBSET S
      /\ \A U \in SUBSET T : U # T => \A z \in U :
           SumFunctionOnSet(fun, U) = fun[z] + SumFunctionOnSet(fun, U \ {z})
  BY <1>2
<1> HIDE DEF F, c
<1>6. SumFunctionOnSet(fun, T \ {c}) = fun[y] + SumFunctionOnSet(fun, (T \ {c}) \ {y})
  BY <1>3, <1>4, <1>5
<1>7. SumFunctionOnSet(fun, T \ {y}) = fun[c] + SumFunctionOnSet(fun, (T \ {y}) \ {c})
  BY <1>3, <1>4, <1>5
<1>8. (T \ {c}) \ {y} = (T \ {y}) \ {c}
  OBVIOUS
<1>9. SumFunctionOnSet(fun, (T \ {y}) \ {c}) \in Nat /\ fun[c] \in Nat /\ fun[y] \in Nat
  <2>1. (T \ {y}) \ {c} \in SUBSET S
    BY <1>5
  <2>2. IsFiniteSet((T \ {y}) \ {c})
    BY <2>1, FS_Subset
  <2>3. SumFunctionOnSet(fun, (T \ {y}) \ {c}) \in Nat
    BY <1>5, <2>2, SumType
  <2> QED BY <1>3, <1>4, <1>5, <2>3
<1> QED BY <1>3, <1>4, <1>6, <1>7, <1>8, <1>9

\* Smaller terms over a smaller set give a smaller sum.
LEMMA SumMonotone ==
    ASSUME NEW fun, NEW gun, NEW S, NEW T \in SUBSET S, IsFiniteSet(S),
           \A x \in S : fun[x] \in Nat,
           \A x \in T : gun[x] \in Nat /\ gun[x] <= fun[x]
    PROVE  SumFunctionOnSet(gun, T) <= SumFunctionOnSet(fun, S)
<1> DEFINE F == {U \in SUBSET S : ~(SumFunctionOnSet(gun, T \cap U) <= SumFunctionOnSet(fun, U))}
<1>1. SUFFICES ASSUME F # {} PROVE FALSE
  <2>1. T \cap S = T
    OBVIOUS
  <2> QED BY <2>1
<1>2. PICK U \in F : \A x \in F : x \subseteq U => x = U
  <2>1. F \in SUBSET SUBSET S
    OBVIOUS
  <2> HIDE DEF F
  <2> QED BY <1>1, <2>1, MinimalSubset
<1>3. \A x \in SUBSET S :
        /\ IsFiniteSet(x) /\ IsFiniteSet(T \cap x)
        /\ SumFunctionOnSet(fun, x) \in Nat /\ SumFunctionOnSet(gun, T \cap x) \in Nat
  <2> SUFFICES ASSUME NEW x \in SUBSET S
               PROVE  /\ IsFiniteSet(x) /\ IsFiniteSet(T \cap x)
                      /\ SumFunctionOnSet(fun, x) \in Nat /\ SumFunctionOnSet(gun, T \cap x) \in Nat
    OBVIOUS
  <2>1. T \cap x \in SUBSET S
    OBVIOUS
  <2>2. IsFiniteSet(x) /\ IsFiniteSet(T \cap x)
    BY <2>1, FS_Subset
  <2> QED BY <2>1, <2>2, SumType
<1>4. U # {}
  <2>1. ASSUME U = {} PROVE FALSE
    <3>1. T \cap U = {}
      BY <2>1
    <3>2. SumFunctionOnSet(gun, {}) = 0 /\ SumFunctionOnSet(fun, {}) = 0
      BY FS_EmptySet, SumUnfolds
    <3> QED BY <2>1, <3>1, <3>2
  <2> QED BY <2>1
<1>5. PICK c \in U : TRUE
  BY <1>4
<1> DEFINE V == U \ {c}
<1>6. SumFunctionOnSet(gun, T \cap V) <= SumFunctionOnSet(fun, V)
  BY <1>2
<1>7. SumFunctionOnSet(fun, U) = fun[c] + SumFunctionOnSet(fun, V)
  <2>1. IsFiniteSet(U) /\ \A x \in U : fun[x] \in Nat
    BY <1>3
  <2> QED BY <2>1, SumRemoves
<1>8. V \in SUBSET S /\ c \in S /\ fun[c] \in Nat /\ (c \in T => gun[c] \in Nat)
  OBVIOUS
<1>9. ~(SumFunctionOnSet(gun, T \cap U) <= SumFunctionOnSet(fun, U))
  OBVIOUS
<1> HIDE DEF F
<1>10. CASE c \in T
  <2>1. (T \cap U) \ {c} = T \cap V /\ c \in T \cap U
    BY <1>10
  <2>2. SumFunctionOnSet(gun, T \cap U) = gun[c] + SumFunctionOnSet(gun, T \cap V)
    <3>1. \A x \in T \cap U : gun[x] \in Nat
      OBVIOUS
    <3>2. IsFiniteSet(T \cap U)
      BY <1>3
    <3> HIDE DEF V
    <3> QED BY <2>1, <3>1, <3>2, SumRemoves
  <2>3. /\ gun[c] <= fun[c] /\ gun[c] \in Nat /\ fun[c] \in Nat
        /\ SumFunctionOnSet(fun, V) \in Nat /\ SumFunctionOnSet(gun, T \cap V) \in Nat
    BY <1>3, <1>8, <1>10
  <2> HIDE DEF V
  <2>4. SumFunctionOnSet(gun, T \cap U) <= SumFunctionOnSet(fun, U)
    BY <1>6, <1>7, <2>2, <2>3
  <2> QED BY <1>9, <2>4
<1>11. CASE c \notin T
  <2>1. T \cap U = T \cap V
    BY <1>11
  <2>2. /\ SumFunctionOnSet(fun, V) \in Nat /\ SumFunctionOnSet(gun, T \cap V) \in Nat
        /\ fun[c] \in Nat
    BY <1>3, <1>8
  <2> HIDE DEF V
  <2>3. SumFunctionOnSet(gun, T \cap V) <= SumFunctionOnSet(fun, U)
    BY <1>6, <1>7, <2>2
  <2> QED BY <1>9, <2>1, <2>3
<1> QED BY <1>10, <1>11

\* The sum of one value.
LEMMA SumConstant ==
    ASSUME NEW fun, NEW S, IsFiniteSet(S), NEW k \in Nat, \A x \in S : fun[x] = k
    PROVE  SumFunctionOnSet(fun, S) = k * Cardinality(S)
<1> DEFINE F == {U \in SUBSET S : SumFunctionOnSet(fun, U) # k * Cardinality(U)}
<1>1. SUFFICES ASSUME F # {} PROVE FALSE
  OBVIOUS
<1>2. PICK U \in F : \A x \in F : x \subseteq U => x = U
  <2>1. F \in SUBSET SUBSET S
    OBVIOUS
  <2> HIDE DEF F
  <2> QED BY <1>1, <2>1, MinimalSubset
<1>3. IsFiniteSet(U) /\ Cardinality(U) \in Nat
  BY FS_Subset, FS_CardinalityType
<1>4. U # {}
  <2>1. SumFunctionOnSet(fun, {}) = 0 /\ Cardinality({}) = 0
    BY FS_EmptySet, SumUnfolds
  <2>2. k * 0 = 0
    OBVIOUS
  <2> QED BY <2>1, <2>2
<1>5. PICK c \in U : TRUE
  BY <1>4
<1> DEFINE V == U \ {c}
<1>6. SumFunctionOnSet(fun, V) = k * Cardinality(V)
  BY <1>2
<1>7. SumFunctionOnSet(fun, U) = k + SumFunctionOnSet(fun, V)
  <2>1. \A x \in U : fun[x] \in Nat
    OBVIOUS
  <2> QED BY <1>3, <2>1, SumRemoves
<1>8. Cardinality(V) = Cardinality(U) - 1
  BY <1>3, FS_RemoveElement
<1>9. k * (Cardinality(U) - 1) = k * Cardinality(U) - k /\ k * Cardinality(U) \in Nat
  BY <1>3
<1>10. SumFunctionOnSet(fun, U) # k * Cardinality(U)
  OBVIOUS
<1> HIDE DEF V, F
<1> QED BY <1>6, <1>7, <1>8, <1>9, <1>10

\* The elements of disjoint sets, counted set by set.
LEMMA SumOfParts ==
    ASSUME NEW part, NEW size, NEW S, IsFiniteSet(S),
           \A x \in S : IsFiniteSet(part[x]) /\ size[x] = Cardinality(part[x]),
           \A x, y \in S : x # y => part[x] \cap part[y] = {},
           NEW whole, whole = UNION {part[x] : x \in S}
    PROVE  IsFiniteSet(whole) /\ Cardinality(whole) = SumFunctionOnSet(size, S)
<1> DEFINE All(U) == UNION {part[x] : x \in U}
           F == {U \in SUBSET S : ~(/\ IsFiniteSet(All(U))
                                    /\ Cardinality(All(U)) = SumFunctionOnSet(size, U))}
<1>1. SUFFICES ASSUME F # {} PROVE FALSE
  OBVIOUS
<1>2. PICK U \in F : \A x \in F : x \subseteq U => x = U
  <2>1. F \in SUBSET SUBSET S
    BY Zenon
  <2> HIDE DEF F
  <2> QED BY <1>1, <2>1, MinimalSubset
<1>3. IsFiniteSet(U)
  BY FS_Subset
<1>4. U # {}
  <2>1. ASSUME U = {} PROVE FALSE
    <3>1. All(U) = {}
      BY <2>1
    <3>2. IsFiniteSet({}) /\ Cardinality({}) = 0 /\ SumFunctionOnSet(size, {}) = 0
      BY FS_EmptySet, SumUnfolds
    <3> HIDE DEF All
    <3> QED BY <2>1, <3>1, <3>2
  <2> QED BY <2>1
<1>5. PICK c \in U : TRUE
  BY <1>4
<1> DEFINE V == U \ {c}
<1>6. IsFiniteSet(All(V)) /\ Cardinality(All(V)) = SumFunctionOnSet(size, V)
  <2> HIDE DEF All
  <2> QED BY <1>2
<1>7. SumFunctionOnSet(size, U) = size[c] + SumFunctionOnSet(size, V)
  <2>1. \A x \in U : size[x] \in Nat
    BY FS_CardinalityType
  <2> QED BY <1>3, <2>1, SumRemoves
<1>8. All(U) = All(V) \cup part[c]
  BY SMT
<1>9. All(V) \cap part[c] = {}
  <2>1. ASSUME NEW e \in All(V), e \in part[c] PROVE FALSE
    <3>1. PICK x \in V : e \in part[x]
      OBVIOUS
    <3> QED BY <2>1, <3>1
  <2> HIDE DEF All
  <2> QED BY <2>1
<1>10. IsFiniteSet(part[c]) /\ size[c] = Cardinality(part[c]) /\ size[c] \in Nat
  BY FS_CardinalityType
<1>11. ~(IsFiniteSet(All(U)) /\ Cardinality(All(U)) = SumFunctionOnSet(size, U))
  <2> HIDE DEF All
  <2> QED OBVIOUS
<1> HIDE DEF All, V, F
<1>12. /\ IsFiniteSet(All(V) \cup part[c])
       /\ Cardinality(All(V) \cup part[c]) = Cardinality(All(V)) + Cardinality(part[c])
  <2>1. Cardinality(All(V) \cap part[c]) = 0
    BY <1>9, FS_EmptySet
  <2>2. Cardinality(All(V)) \in Nat /\ Cardinality(part[c]) \in Nat
    BY <1>6, <1>10, FS_CardinalityType
  <2>3. /\ IsFiniteSet(All(V) \cup part[c])
        /\ Cardinality(All(V) \cup part[c])
             = Cardinality(All(V)) + Cardinality(part[c]) - Cardinality(All(V) \cap part[c])
    BY <1>6, <1>10, FS_Union
  <2> QED BY <2>1, <2>2, <2>3
<1>13. Cardinality(All(V)) \in Nat
  BY <1>6, FS_CardinalityType
<1> QED BY <1>6, <1>7, <1>8, <1>10, <1>11, <1>12, <1>13

-----------------------------------------------------------------------------
(* Cycles and ranks.  The edges are a set of pairs; a part of the wallets is *)
(* without a sink if each has an edge to another one of it.                  *)

NoSink(E, D) == D # {} /\ \A v \in D : \E w \in D : <<v, w>> \in E
Rises(E, rank) == \A e \in E : rank[e[1]] < rank[e[2]]

\* Without such a part the wallets can be ranked: one that has no edge into
\* the rest comes last.
LEMMA RankExists ==
    ASSUME NEW S, IsFiniteSet(S), NEW E, \A D \in SUBSET S : ~NoSink(E, D)
    PROVE  \E rank \in [S -> 1..Cardinality(S)] :
             \A v, w \in S : <<v, w>> \in E => rank[v] < rank[w]
<1> DEFINE Ranked(T) == \E rank \in [T -> 1..Cardinality(T)] :
                           \A v, w \in T : <<v, w>> \in E => rank[v] < rank[w]
           F == {T \in SUBSET S : ~Ranked(T)}
<1>1. SUFFICES ASSUME F # {} PROVE FALSE
  BY <1>1
<1>2. PICK T \in F : \A x \in F : x \subseteq T => x = T
  <2>1. F \in SUBSET SUBSET S
    BY Zenon
  <2> HIDE DEF F
  <2> QED BY <1>1, <2>1, MinimalSubset
<1>3. IsFiniteSet(T) /\ Cardinality(T) \in Nat
  BY FS_Subset, FS_CardinalityType
<1>4. T # {}
  <2>1. ASSUME T = {} PROVE Ranked(T)
    <3> DEFINE r == [v \in {} |-> 0]
    <3>1. r \in [T -> 1..Cardinality(T)]
      BY <2>1
    <3> QED BY <3>1, <2>1
  <2> QED BY <2>1
<1>5. PICK v \in T : \A w \in T : <<v, w>> \notin E
  BY <1>4 DEF NoSink
<1>6. /\ IsFiniteSet(T \ {v}) /\ Cardinality(T \ {v}) \in Nat
      /\ Cardinality(T \ {v}) = Cardinality(T) - 1
  BY <1>3, FS_RemoveElement, FS_CardinalityType
<1>7. Ranked(T \ {v})
  <2> HIDE DEF Ranked
  <2> QED BY <1>2
<1>8. PICK r \in [T \ {v} -> 1..Cardinality(T \ {v})] :
         \A x, y \in T \ {v} : <<x, y>> \in E => r[x] < r[y]
  BY <1>7
<1> DEFINE s == [x \in T |-> IF x = v THEN Cardinality(T) ELSE r[x]]
<1>9. s \in [T -> 1..Cardinality(T)]
  BY <1>3, <1>6, <1>8
<1>10. ASSUME NEW x \in T, NEW y \in T, <<x, y>> \in E PROVE s[x] < s[y]
  <2>1. x # v /\ r[x] \in 1..(Cardinality(T) - 1) /\ s[x] = r[x]
    BY <1>5, <1>6, <1>8, <1>10
  <2>2. CASE y = v
    BY <1>3, <2>1, <2>2
  <2>3. CASE y # v
    BY <1>8, <1>10, <2>1, <2>3
  <2> QED BY <2>2, <2>3
<1>11. Ranked(T)
  <2> HIDE DEF s
  <2> QED BY <1>9, <1>10
<1> QED BY <1>11

\* With one, a smallest such part is a cycle.
LEMMA CycleExists ==
    ASSUME NEW S, IsFiniteSet(S), NEW E, NEW D \in SUBSET S, NoSink(E, D)
    PROVE  \E A \in SUBSET S : A # {} /\ \E next \in [A -> A] : IsCycle(next, E)
<1> DEFINE F == {T \in SUBSET S : NoSink(E, T)}
<1>1. PICK A \in F : \A x \in F : x \subseteq A => x = A
  <2>1. F # {} /\ F \in SUBSET SUBSET S
    OBVIOUS
  <2> HIDE DEF F
  <2> QED BY <2>1, MinimalSubset
<1> DEFINE next == [v \in A |-> CHOOSE w \in A : <<v, w>> \in E]
<1>2. \A v \in A : next[v] \in A /\ <<v, next[v]>> \in E
  BY DEF NoSink
<1>3. next \in [A -> A] /\ DOMAIN next = A
  BY <1>2
<1>4. ASSUME NEW part \in SUBSET A, part # {}, \A v \in part : next[v] \in part
      PROVE  part = A
  <2> HIDE DEF next
  <2>1. NoSink(E, part)
    BY <1>2, <1>4 DEF NoSink
  <2> QED BY <1>1, <2>1
<1>5. A # {}
  BY DEF NoSink
<1>6. IsCycle(next, E)
  <2> HIDE DEF next
  <2> QED BY <1>2, <1>3, <1>4 DEF IsCycle
<1> QED
  <2> HIDE DEF next
  <2> QED BY <1>3, <1>5, <1>6

\* What can be ranked has no cycle: the wallet of highest rank in it would
\* have an edge to a higher one.
LEMMA RankedHasNoCycle ==
    ASSUME NEW S, IsFiniteSet(S), NEW E, NEW rank \in [S -> Int],
           \A v, w \in S : <<v, w>> \in E => rank[v] < rank[w],
           NEW A \in SUBSET S, A # {}, NEW next \in [A -> A]
    PROVE  ~IsCycle(next, E)
<1> DEFINE above(v) == {u \in A : rank[u] > rank[v]}
           F == {above(v) : v \in A}
<1>1. PICK m \in F : \A x \in F : x \subseteq m => x = m
  <2>1. \A v \in A : above(v) \in SUBSET S
    OBVIOUS
  <2>2. F # {} /\ F \in SUBSET SUBSET S
    <3> HIDE DEF above
    <3> QED BY <2>1
  <2> HIDE DEF F
  <2> QED BY <2>2, MinimalSubset
<1>2. PICK v \in A : m = above(v)
  OBVIOUS
<1>3. ASSUME <<v, next[v]>> \in E PROVE FALSE
  <2>1. next[v] \in above(v) /\ next[v] \notin above(next[v])
    BY <1>3
  <2>2. above(next[v]) \subseteq above(v)
    BY <1>3
  <2>3. above(next[v]) \in F
    OBVIOUS
  <2> QED BY <1>1, <1>2, <2>1, <2>2, <2>3
<1> QED BY <1>3 DEF IsCycle

-----------------------------------------------------------------------------
(* The edges of a community.                                                 *)

\* round(num / den) of at most 12.5, and of at least 13.
LEMMA RoundedAround12 ==
    ASSUME NEW num \in Nat, NEW den \in Nat \ {0}
    PROVE  /\ Rounded(num, den) \in Nat
           /\ 2 * num <= 25 * den => Rounded(num, den) <= 12
           /\ num >= 13 * den => Rounded(num, den) >= 13
<1> DEFINE q == num \div den
<1>1. q \in Nat /\ den * q <= num /\ num < den * q + den
  OBVIOUS
<1>2. Rounded(num, den) = IF \/ 2 * (num - den * q) < den
                             \/ 2 * (num - den * q) = den /\ q % 2 = 0
                          THEN q ELSE q + 1
  BY DEF Rounded
<1> HIDE DEF q
<1>3. ASSUME 2 * num <= 25 * den PROVE Rounded(num, den) <= 12
  <2>1. q <= 12
    <3>1. ASSUME q >= 13 PROVE FALSE
      <4>1. den * q >= den * 13
        BY <1>1, <3>1
      <4>2. den * q \in Nat
        BY <1>1
      <4> HIDE DEF q
      <4> QED BY <1>1, <1>3, <4>1, <4>2
    <3> QED BY <1>1, <3>1
  <2>2. CASE q = 12
    BY <1>2, <1>3, <2>2
  <2>3. CASE q < 12
    BY <1>1, <1>2, <2>3
  <2> QED BY <1>1, <2>1, <2>2, <2>3
<1>4. ASSUME num >= 13 * den PROVE Rounded(num, den) >= 13
  <2>1. q >= 13
    <3>1. ASSUME q <= 12 PROVE FALSE
      <4>1. den * q <= den * 12
        BY <1>1, <3>1
      <4>2. den * q \in Nat
        BY <1>1
      <4> QED BY <1>1, <1>4, <4>1, <4>2
    <3> QED BY <1>1, <3>1
  <2> QED BY <1>1, <1>2, <2>1
<1>5. Rounded(num, den) \in Nat
  BY <1>1, <1>2
<1> QED BY <1>3, <1>4, <1>5

\* Edges between different members.
Simple(E, M) == E \subseteq M \X M /\ \A e \in E : e[1] # e[2]

LEMMA EdgesAreSimple ==
    ASSUME NEW table, NEW pair, NEW members
    PROVE  Simple(Edges(table, pair, members), members)
  BY DEF Simple, Edges, BetweenWallets

\* A cycle is known by its edges, so that there are finitely many.
LEMMA GraphIsFinite ==
    ASSUME NEW M, IsFiniteSet(M), NEW E, Simple(E, M)
    PROVE  /\ IsFiniteSet(E) /\ Cardinality(E) \in Nat
           /\ IsFiniteSet(Mutual(E)) /\ Cardinality(Mutual(E)) \in Nat
           /\ IsFiniteSet(Cycles(E, M)) /\ Cardinality(Cycles(E, M)) \in Nat
<1>1. IsFiniteSet(M \X M)
  BY FS_Product
<1>2. IsFiniteSet(E)
  BY <1>1, FS_Subset DEF Simple
<1>3. Mutual(E) \subseteq E
  BY DEF Mutual
<1>4. IsFiniteSet(Mutual(E))
  BY <1>2, <1>3, FS_Subset
<1> DEFINE graph(next) == {<<v, next[v]>> : v \in DOMAIN next}
           g == [next \in Cycles(E, M) |-> graph(next)]
<1>5. \A next \in Cycles(E, M) : \E c \in SUBSET M : next \in [c -> c]
  BY DEF Cycles
<1>6. g \in [Cycles(E, M) -> SUBSET (M \X M)]
  <2>1. ASSUME NEW next \in Cycles(E, M) PROVE graph(next) \in SUBSET (M \X M)
    <3>1. PICK c \in SUBSET M : next \in [c -> c]
      BY <1>5
    <3> QED BY <3>1
  <2> HIDE DEF graph
  <2> QED BY <2>1
<1>7. ASSUME NEW m \in Cycles(E, M), NEW n \in Cycles(E, M), graph(m) = graph(n)
      PROVE  m = n
  <2>1. PICK c, d \in SUBSET M : m \in [c -> c] /\ n \in [d -> d]
    BY <1>5
  <2>2. \A v \in c : v \in d /\ n[v] = m[v]
    <3>1. ASSUME NEW v \in c PROVE v \in d /\ n[v] = m[v]
      <4>1. <<v, m[v]>> \in graph(n)
        BY <1>7, <2>1
      <4>2. PICK u \in DOMAIN n : <<v, m[v]>> = <<u, n[u]>>
        BY <4>1
      <4> QED BY <2>1, <4>2
    <3> QED BY <3>1
  <2>3. \A v \in d : v \in c
    <3>1. ASSUME NEW v \in d PROVE v \in c
      <4>1. <<v, n[v]>> \in graph(m)
        BY <1>7, <2>1
      <4>2. PICK u \in DOMAIN m : <<v, n[v]>> = <<u, m[u]>>
        BY <4>1
      <4> QED BY <2>1, <4>2
    <3> QED BY <3>1
  <2>4. c = d
    BY <2>2, <2>3
  <2> QED BY <2>1, <2>2, <2>4
<1>8. g \in Injection(Cycles(E, M), SUBSET (M \X M))
  <2>1. \A m, n \in Cycles(E, M) : g[m] = g[n] => m = n
    <3> HIDE DEF graph
    <3> QED BY <1>7
  <2> HIDE DEF g
  <2> QED BY <1>6, <2>1 DEF Injection, IsInjective
<1>9. IsFiniteSet(Cycles(E, M))
  <2>1. IsFiniteSet(SUBSET (M \X M))
    BY <1>1, FS_SUBSET
  <2> HIDE DEF g
  <2> QED BY <1>8, <2>1, FS_Injection
<1> QED BY <1>2, <1>4, <1>9, FS_CardinalityType

\* As many edges as there are directions between two members fill half of the
\* possible ones, if none is mutual.
LEMMA OneWayEdges ==
    ASSUME NEW M, IsFiniteSet(M), NEW E, Simple(E, M), Mutual(E) = {}
    PROVE  2 * Cardinality(E) <= PossibleEdges(Cardinality(M))
<1> DEFINE Back == {<<e[2], e[1]>> : e \in E}
           Diag == {<<v, v>> : v \in M}
<1>0. /\ IsFiniteSet(M \X M) /\ Cardinality(M) \in Nat
      /\ Cardinality(M \X M) = Cardinality(M) * Cardinality(M)
  BY FS_Product, FS_CardinalityType
<1>1. E \subseteq M \X M /\ Back \subseteq M \X M /\ Diag \subseteq M \X M
  BY DEF Simple
<1>2. /\ IsFiniteSet(E) /\ Cardinality(E) \in Nat
      /\ IsFiniteSet(Back) /\ Cardinality(Back) \in Nat
      /\ IsFiniteSet(Diag) /\ Cardinality(Diag) \in Nat
  <2> HIDE DEF Back, Diag
  <2> QED BY <1>0, <1>1, FS_Subset, FS_CardinalityType
<1>3. Cardinality(E) <= Cardinality(Back)
  <2> DEFINE f == [e \in E |-> <<e[2], e[1]>>]
  <2>1. f \in [E -> Back]
    OBVIOUS
  <2>2. ASSUME NEW d \in E, NEW e \in E, f[d] = f[e] PROVE d = e
    BY <1>1, <2>2
  <2>3. f \in Injection(E, Back)
    <3> HIDE DEF f, Back
    <3> QED BY <2>1, <2>2 DEF Injection, IsInjective
  <2> HIDE DEF f, Back
  <2> QED BY <1>2, <2>3, FS_Injection
<1>4. Cardinality(M) <= Cardinality(Diag)
  <2> DEFINE f == [v \in M |-> <<v, v>>]
  <2>1. f \in [M -> Diag]
    OBVIOUS
  <2>2. ASSUME NEW v \in M, NEW w \in M, f[v] = f[w] PROVE v = w
    BY <2>2
  <2>3. f \in Injection(M, Diag)
    <3> HIDE DEF f, Diag
    <3> QED BY <2>1, <2>2 DEF Injection, IsInjective
  <2> HIDE DEF f, Diag
  <2> QED BY <1>2, <2>3, FS_Injection
<1>5. E \cap Back = {}
  <2>1. ASSUME NEW e \in E, NEW d \in E, e = <<d[2], d[1]>> PROVE FALSE
    <3>1. d = <<d[1], d[2]>> /\ <<e[2], e[1]>> = d
      BY <1>1, <2>1
    <3> QED BY <3>1 DEF Mutual
  <2> QED BY <2>1
<1>6. (E \cup Back) \cap Diag = {}
  BY DEF Simple
<1>7. /\ Cardinality(E \cup Back) = Cardinality(E) + Cardinality(Back)
      /\ IsFiniteSet(E \cup Back)
  <2>1. Cardinality(E \cap Back) = 0
    BY <1>5, FS_EmptySet
  <2> HIDE DEF Back
  <2> QED BY <1>2, <2>1, FS_Union
<1>8. /\ Cardinality((E \cup Back) \cup Diag) = Cardinality(E \cup Back) + Cardinality(Diag)
  <2>1. Cardinality((E \cup Back) \cap Diag) = 0
    BY <1>6, FS_EmptySet
  <2>2. Cardinality(E \cup Back) \in Nat
    BY <1>7, FS_CardinalityType
  <2> HIDE DEF Back, Diag
  <2> QED BY <1>2, <1>7, <2>1, <2>2, FS_Union
<1>9. Cardinality((E \cup Back) \cup Diag) <= Cardinality(M) * Cardinality(M)
  <2>1. ((E \cup Back) \cup Diag) \subseteq M \X M
    BY <1>1
  <2> HIDE DEF Back, Diag
  <2> QED BY <1>0, <2>1, FS_Subset
<1> HIDE DEF Back, Diag
<1>10. Cardinality(M) * (Cardinality(M) - 1) = Cardinality(M) * Cardinality(M) - Cardinality(M)
  BY <1>0
<1> QED BY <1>0, <1>2, <1>3, <1>4, <1>7, <1>8, <1>9, <1>10 DEF PossibleEdges

-----------------------------------------------------------------------------
(* The score of a community.                                                 *)

\* A rank that all the trades follow is one that all the edges follow.
LEMMA EdgesRise ==
    ASSUME NEW table, NEW pair, NEW members, NEW rank
    PROVE  (\A t \in table :
              t.pair = pair /\ ~IsPool(t) /\ {t.base, t.counter} \subseteq members
                => t.base = t.counter \/ rank[Seller(t)] < rank[Buyer(t)])
           <=> \A v, w \in members :
                 <<v, w>> \in Edges(table, pair, members) => rank[v] < rank[w]
<1>1. ASSUME NEW t \in table
      PROVE  /\ {Seller(t), Buyer(t)} = {t.base, t.counter}
             /\ Seller(t) = Buyer(t) <=> t.base = t.counter
  BY DEF Seller, Buyer
<1>2. \A v, w \in members :
        <<v, w>> \in Edges(table, pair, members)
          <=> \E t \in table : /\ t.pair = pair /\ ~IsPool(t) /\ t.base # t.counter
                               /\ v = Seller(t) /\ w = Buyer(t)
  BY <1>1 DEF Edges, BetweenWallets
<1>3. ASSUME \A v, w \in members :
               <<v, w>> \in Edges(table, pair, members) => rank[v] < rank[w],
             NEW t \in table, t.pair = pair, ~IsPool(t),
             {t.base, t.counter} \subseteq members, t.base # t.counter
      PROVE  rank[Seller(t)] < rank[Buyer(t)]
  <2>1. Seller(t) \in members /\ Buyer(t) \in members
    BY <1>1, <1>3
  <2> QED BY <1>2, <1>3, <2>1
<1>4. ASSUME \A t \in table :
               t.pair = pair /\ ~IsPool(t) /\ {t.base, t.counter} \subseteq members
                 => t.base = t.counter \/ rank[Seller(t)] < rank[Buyer(t)],
             NEW v \in members, NEW w \in members, <<v, w>> \in Edges(table, pair, members)
      PROVE  rank[v] < rank[w]
  <2>1. PICK t \in table : /\ t.pair = pair /\ ~IsPool(t) /\ t.base # t.counter
                           /\ v = Seller(t) /\ w = Buyer(t)
    BY <1>2, <1>4
  <2>2. {t.base, t.counter} \subseteq members
    BY <1>1, <2>1
  <2> QED BY <1>4, <2>1, <2>2
<1> QED BY <1>3, <1>4

\* No mutual edges and no cycles: the density alone counts, at most 25 / 2.
LEMMA OneWayScore ==
    ASSUME NEW table, NEW pair, NEW members, IsFiniteSet(members),
           OneWay(table, pair, members)
    PROVE  RingScore(table, pair, members) <= 12
<1> DEFINE E == Edges(table, pair, members)
           n == Cardinality(E)
           P == PossibleEdges(Cardinality(members))
<1>1. PICK rank \in [members -> 1..Cardinality(members)] :
        \A v, w \in members : <<v, w>> \in E => rank[v] < rank[w]
  <2> HIDE DEF E
  <2>1. PICK rank \in [members -> 1..Cardinality(members)] :
          \A t \in table :
              t.pair = pair /\ ~IsPool(t) /\ {t.base, t.counter} \subseteq members
                => t.base = t.counter \/ rank[Seller(t)] < rank[Buyer(t)]
    BY DEF OneWay
  <2>2. \A v, w \in members : <<v, w>> \in Edges(table, pair, members) => rank[v] < rank[w]
    BY <2>1, EdgesRise
  <2> QED BY <2>2 DEF E
<1>2. Simple(E, members)
  BY EdgesAreSimple
<1>3. Cardinality(members) \in Nat
  BY FS_CardinalityType
<1> HIDE DEF E
<1>4. Mutual(E) = {}
  <2>1. ASSUME NEW e \in E, <<e[2], e[1]>> \in E PROVE FALSE
    <3>1. e = <<e[1], e[2]>> /\ e[1] \in members /\ e[2] \in members
      BY <1>2 DEF Simple
    <3>2. rank[e[1]] \in Int /\ rank[e[2]] \in Int
      BY <3>1
    <3> QED BY <1>1, <2>1, <3>1, <3>2
  <2> QED BY <2>1 DEF Mutual
<1>5. Cycles(E, members) = {}
  <2>1. ASSUME NEW next \in Cycles(E, members) PROVE FALSE
    <3>1. PICK A \in SUBSET members : /\ Cardinality(A) \in 2..MaxCycleLength
                                      /\ next \in [A -> A] /\ IsCycle(next, E)
      BY <2>1 DEF Cycles
    <3>2. A # {}
      BY <3>1, FS_EmptySet
    <3>3. rank \in [members -> Int]
      OBVIOUS
    <3> QED BY <1>1, <3>1, <3>2, <3>3, RankedHasNoCycle
  <2> QED BY <2>1
<1>6. Cardinality(Mutual(E)) = 0 /\ Cardinality(Cycles(E, members)) = 0
  BY <1>4, <1>5, FS_EmptySet
<1>7. n \in Nat /\ 2 * n <= P /\ P \in Int
  <2>1. P \in Int
    BY <1>3 DEF PossibleEdges
  <2>2. n \in Nat
    BY <1>2, GraphIsFinite
  <2>3. 2 * n <= P
    BY <1>2, <1>4, OneWayEdges
  <2> QED BY <2>1, <2>2, <2>3
<1>8. RingScore(table, pair, members)
        = IF n = 0 THEN 0
          ELSE Least(100, Rounded(40 * 0 * P + 7 * Least(0, CycleSaturation) * (n * P)
                                    + 25 * n * n, n * P))
  BY <1>6 DEF RingScore, E
<1>9. CASE n = 0
  BY <1>8, <1>9
<1>10. CASE n # 0
  <2> HIDE DEF n, P
  <2>1. n * P \in Nat \ {0} /\ 25 * n * n \in Nat
    BY <1>7, <1>10
  <2>2. 40 * 0 * P + 7 * Least(0, CycleSaturation) * (n * P) + 25 * n * n = 25 * n * n
    <3>1. Least(0, CycleSaturation) = 0
      BY DEF Least, CycleSaturation
    <3> QED BY <1>7, <2>1, <3>1
  <2>3. 2 * (25 * n * n) <= 25 * (n * P)
    <3>1. n * (2 * n) <= n * P
      BY <1>7
    <3>2. n * (2 * n) = 2 * (n * n) /\ n * n \in Int /\ 25 * n * n = 25 * (n * n)
      BY <1>7
    <3> QED BY <1>7, <2>1, <3>1, <3>2
  <2>4. Rounded(25 * n * n, n * P) <= 12 /\ Rounded(25 * n * n, n * P) \in Nat
    BY <2>1, <2>3, RoundedAround12
  <2> QED BY <1>8, <1>10, <2>2, <2>4 DEF Least
<1> QED BY <1>9, <1>10

LEMMA TwoElements ==
    ASSUME NEW S, IsFiniteSet(S), NEW v \in S, NEW w \in S, v # w
    PROVE  Cardinality(S) >= 2 /\ (Cardinality(S) = 2 => S = {v, w})
<1>1. IsFiniteSet({v}) /\ Cardinality({v}) = 1
  BY FS_Singleton
<1>2. Cardinality({v} \cup {w}) = 2
  BY <1>1, FS_AddElement
<1>3. {v} \cup {w} = {v, w} /\ {v, w} \in SUBSET S
  OBVIOUS
<1> QED BY <1>2, <1>3, FS_Subset

\* In a community of at most four, two mutual edges, or three edges and a
\* cycle, outweigh the density: 13 at least.
LEMMA LoopWeight ==
    ASSUME NEW P \in {2, 6, 12}, NEW n \in Nat, NEW m \in Nat, NEW x \in Nat, x >= 1,
           m >= 2 \/ (n >= 3 /\ P # 2)
    PROVE  40 * m * P + 7 * x * (n * P) + 25 * n * n >= 13 * (n * P)
<1>1. x * n >= n /\ x * n \in Nat /\ n * n \in Nat
  BY SMT
<1>2. 7 * x * (n * P) = 7 * P * (x * n)
  BY SMT
<1>3. 40 * m * P + 7 * P * (x * n) + 25 * (n * n) >= 13 * (n * P)
  <2>1. CASE m >= 2
    <3>1. CASE n <= 13
      BY <1>1, <2>1, <3>1
    <3>2. CASE n >= 13
      <4>1. n * n >= 13 * n
        BY <3>2
      <4> QED BY <1>1, <2>1, <4>1
    <3> QED BY <3>1, <3>2
  <2>2. CASE n >= 3 /\ P # 2
    <3>1. n * n >= 3 * n
      BY <2>2
    <3> QED BY <1>1, <2>2, <3>1
  <2> QED BY <2>1, <2>2
<1>4. 25 * n * n = 25 * (n * n)
  BY <1>1
<1> QED BY <1>2, <1>3, <1>4

\* A community of at most four that cannot be ranked has a cycle.
LEMMA LoopScore ==
    ASSUME NEW table, NEW pair, NEW members, IsFiniteSet(members),
           Cardinality(members) <= Least(4, MaxCycleLength),
           ~OneWay(table, pair, members)
    PROVE  RingScore(table, pair, members) > 12
<1> DEFINE E == Edges(table, pair, members)
           k == Cardinality(members)
           n == Cardinality(E)
           m == Cardinality(Mutual(E))
           x == Cardinality(Cycles(E, members))
           P == PossibleEdges(k)
<1>1. Simple(E, members)
  BY EdgesAreSimple
<1>2. MaxCycleLength \in Nat /\ k \in Nat /\ k <= 4 /\ k <= MaxCycleLength
  BY FS_CardinalityType, GraphAssumption DEF GraphAssumption, Least
<1>3. PICK D \in SUBSET members : NoSink(E, D)
  <2>1. ASSUME \A D \in SUBSET members : ~NoSink(E, D) PROVE FALSE
    <3> HIDE DEF E
    <3>1. PICK rank \in [members -> 1..Cardinality(members)] :
            \A v, w \in members : <<v, w>> \in E => rank[v] < rank[w]
      BY <2>1, RankExists
    <3>2. \A v, w \in members : <<v, w>> \in Edges(table, pair, members) => rank[v] < rank[w]
      BY <3>1 DEF E
    <3> QED BY <3>2, EdgesRise DEF OneWay
  <2> QED BY <2>1
<1> HIDE DEF E
<1>4. PICK A \in SUBSET members : A # {} /\ \E next \in [A -> A] : IsCycle(next, E)
  BY <1>3, CycleExists
<1>5. PICK next \in [A -> A] : IsCycle(next, E)
  BY <1>4
<1>6. \A v \in A : next[v] \in A /\ <<v, next[v]>> \in E /\ next[v] # v
  BY <1>1, <1>5 DEF IsCycle, Simple
<1>7. PICK v \in A : TRUE
  BY <1>4
<1>8. /\ IsFiniteSet(A) /\ Cardinality(A) \in Nat
      /\ Cardinality(A) >= 2 /\ Cardinality(A) <= k
      /\ Cardinality(A) = 2 => A = {v, next[v]}
  <2>1. IsFiniteSet(A) /\ Cardinality(A) <= k /\ Cardinality(A) \in Nat
    BY FS_Subset, FS_CardinalityType
  <2>2. Cardinality(A) >= 2 /\ (Cardinality(A) = 2 => A = {v, next[v]})
    BY <1>6, <2>1, TwoElements
  <2> QED BY <2>1, <2>2
<1>9. /\ IsFiniteSet(E) /\ n \in Nat
      /\ IsFiniteSet(Mutual(E)) /\ m \in Nat
      /\ IsFiniteSet(Cycles(E, members)) /\ x \in Nat
  BY <1>1, GraphIsFinite
<1>10. x >= 1
  <2>1. Cardinality(A) \in 2..MaxCycleLength
    BY <1>2, <1>8
  <2>2. next \in Cycles(E, members)
    BY <1>5, <2>1 DEF Cycles
  <2>3. x # 0
    BY <1>9, <2>2, FS_EmptySet
  <2> QED BY <1>9, <2>3
<1>11. Cardinality(A) <= n
  <2> DEFINE f == [u \in A |-> <<u, next[u]>>]
  <2>1. f \in [A -> E]
    BY <1>6
  <2>2. ASSUME NEW u \in A, NEW w \in A, f[u] = f[w] PROVE u = w
    BY <2>2
  <2>3. f \in Injection(A, E)
    <3> HIDE DEF f
    <3> QED BY <2>1, <2>2 DEF Injection, IsInjective
  <2> HIDE DEF f
  <2> QED BY <1>9, <2>3, FS_Injection
<1>12. Cardinality(A) = 2 => m >= 2
  <2>1. ASSUME Cardinality(A) = 2 PROVE m >= 2
    <3> DEFINE d == <<v, next[v]>>
               e == <<next[v], v>>
    <3>1. next[next[v]] = v
      BY <1>6, <1>8, <2>1
    <3>2. d \in E /\ e \in E /\ d # e
      BY <1>6, <3>1
    <3>3. d \in Mutual(E) /\ e \in Mutual(E)
      BY <3>2 DEF Mutual
    <3> HIDE DEF d, e
    <3> QED BY <1>9, <3>2, <3>3, TwoElements
  <2> QED BY <2>1
<1> HIDE DEF k, n, m, x
<1>13. P \in {2, 6, 12} /\ (k # 2 => P # 2)
  <2>1. k = 2 \/ k = 3 \/ k = 4
    BY <1>2, <1>8
  <2> QED BY <2>1 DEF PossibleEdges
<1> HIDE DEF P
<1>14. RingScore(table, pair, members)
        = IF n = 0 THEN 0
          ELSE Least(100, Rounded(40 * m * P + 7 * Least(x, CycleSaturation) * (n * P)
                                    + 25 * n * n, n * P))
  BY DEF RingScore, E, k, n, m, x, P
<1>15. Least(x, CycleSaturation) \in Nat /\ Least(x, CycleSaturation) >= 1
  BY <1>9, <1>10 DEF Least, CycleSaturation
<1>16. n # 0 /\ (m >= 2 \/ (n >= 3 /\ P # 2))
  <2> DEFINE a == Cardinality(A)
  <2>1. a \in Nat /\ a >= 2 /\ a <= k /\ a <= n
    BY <1>8, <1>11
  <2>2. CASE a = 2
    <3>1. m >= 2
      BY <1>12, <2>2
    <3>2. n # 0
      <4> HIDE DEF a
      <4> QED BY <1>9, <2>1
    <3> QED BY <3>1, <3>2
  <2>3. CASE a >= 3
    <3> HIDE DEF a
    <3>1. k # 2 /\ n >= 3
      BY <1>2, <1>9, <2>1, <2>3
    <3> QED BY <1>9, <1>13, <3>1
  <2> QED BY <2>1, <2>2, <2>3
<1> DEFINE raw == 40 * m * P + 7 * Least(x, CycleSaturation) * (n * P) + 25 * n * n
<1>17. raw >= 13 * (n * P)
  BY <1>9, <1>13, <1>15, <1>16, LoopWeight
<1>18. raw \in Nat /\ n * P \in Nat \ {0}
  <2>1. P \in Nat \ {0}
    BY <1>13
  <2> HIDE DEF raw
  <2>2. n * P \in Nat \ {0}
    BY <1>9, <1>16, <2>1
  <2>3. raw \in Int
    BY <1>9, <1>15, <2>1 DEF raw
  <2> QED BY <1>17, <2>2, <2>3
<1> HIDE DEF raw
<1>19. Rounded(raw, n * P) >= 13 /\ Rounded(raw, n * P) \in Nat
  BY <1>17, <1>18, RoundedAround12
<1>20. RingScore(table, pair, members) = Least(100, Rounded(raw, n * P))
  BY <1>14, <1>16 DEF raw
<1> QED BY <1>19, <1>20 DEF Least

-----------------------------------------------------------------------------
(* The tables are finite; a run stores only pool trades that it has loaded.  *)

TablesInv ==
    /\ trades \subseteq Offered /\ IsFiniteSet(trades)
    /\ payments \subseteq Payable /\ IsFiniteSet(payments)
    /\ IsFiniteSet(events)
    /\ stored \in [{t \in Offered : IsPool(t)} -> Nat]
    /\ \A t \in DOMAIN stored : stored[t] > 0 => t \in trades

LEMMA TablesInvariant == Spec => []TablesInv
<1>1. Init => TablesInv
  BY FS_EmptySet DEF Init, TablesInv
<1>2. TablesInv /\ [Next]_vars => TablesInv'
  <2> SUFFICES ASSUME TablesInv, [Next]_vars PROVE TablesInv'
    OBVIOUS
  <2>1. ASSUME NEW t \in Offered, Trades(t) PROVE TablesInv'
    <3>1. IsFiniteSet(trades')
      BY <2>1, FS_AddElement DEF TablesInv, Trades, Arrives
    <3> QED BY <2>1, <3>1 DEF TablesInv, Trades, Arrives
  <2>2. ASSUME NEW p \in Payable, Pays(p) PROVE TablesInv'
    <3>1. IsFiniteSet(payments')
      BY <2>2, FS_AddElement DEF TablesInv, Pays
    <3> QED BY <2>2, <3>1 DEF TablesInv, Pays
  <2>3. ASSUME NEW pair \in Pairs, Run(pair) PROVE TablesInv'
    <3>1. stored' \in [{t \in Offered : IsPool(t)} -> Nat]
      BY <2>3 DEF TablesInv, Run
    <3>2. ASSUME NEW t \in DOMAIN stored', stored'[t] > 0 PROVE t \in trades'
      BY <2>3, <3>2 DEF TablesInv, Run
    <3> QED BY <2>3, <3>1, <3>2 DEF TablesInv, Run
  <2>4. ASSUME NEW e \in Placed, Places(e) PROVE TablesInv'
    <3>1. IsFiniteSet(events')
      BY <2>4, FS_AddElement DEF TablesInv, Places
    <3> QED BY <2>4, <3>1 DEF TablesInv, Places
  <2>5. ASSUME UNCHANGED vars PROVE TablesInv'
    BY <2>5 DEF TablesInv, vars
  <2> QED BY <2>1, <2>2, <2>3, <2>4, <2>5 DEF Next
<1> QED
  BY <1>1, <1>2, PTL DEF Spec

\* graph_engine.py: the score tells circular trading from genuine flow
\* (CyclesTellRings), for any number of wallets, trades and pairs and whatever
\* communities detect_communities returns.
THEOREM RingsCorrect == Spec => []CyclesTellRings
<1>1. TablesInv => CyclesTellRings
  <2> SUFFICES ASSUME TablesInv, NEW p \in Pairs, NEW c \in Communities(trades, p)
               PROVE  IF OneWay(trades, p, c)
                      THEN RingScore(trades, p, c) <= 12
                      ELSE Cardinality(c) <= Least(4, MaxCycleLength)
                             => RingScore(trades, p, c) > 12
    BY DEF CyclesTellRings
  <2>1. \A t \in trades : BetweenWallets(t) => t.base \in Accounts /\ t.counter \in Accounts
    BY GraphAssumption DEF GraphAssumption, TablesInv, Trade, BetweenWallets, IsPool
  <2>2. c \subseteq Accounts
    BY <2>1 DEF Communities, Wallets
  <2>3. IsFiniteSet(c)
    BY <2>2, FS_Subset, GraphAssumption DEF GraphAssumption
  <2> QED BY <2>3, OneWayScore, LoopScore
<1> QED
  BY <1>1, TablesInvariant, PTL

-----------------------------------------------------------------------------
(* Features that are fractions.                                              *)

LEMMA RatioIsFraction ==
    ASSUME NEW num \in Nat, NEW den \in Nat, num <= den
    PROVE  IsFraction(Ratio(num, den))
  BY DEF IsFraction, Ratio

LEMMA RatioOfSubset ==
    ASSUME NEW S, IsFiniteSet(S), NEW T \in SUBSET S
    PROVE  IsFraction(Ratio(Cardinality(T), Cardinality(S)))
<1>1. /\ Cardinality(T) \in Nat /\ Cardinality(S) \in Nat
      /\ Cardinality(T) <= Cardinality(S)
  BY FS_Subset, FS_CardinalityType
<1> QED BY <1>1, RatioIsFraction

\* Some of the trades have no more volume than all.
LEMMA VolumeOfSubset ==
    ASSUME NEW S, IsFiniteSet(S), S \subseteq Trade, NEW T \in SUBSET S
    PROVE  /\ Volume(T) \in Nat /\ Volume(S) \in Nat
           /\ Volume(T) <= Volume(S)
<1> DEFINE f == [t \in S |-> t.amount]
           g == [t \in T |-> t.amount]
<1>1. \A t \in S : f[t] \in Nat
  BY DEF Trade
<1>2. \A t \in T : g[t] \in Nat /\ g[t] <= f[t]
  BY DEF Trade
<1>3. DOMAIN f = S /\ DOMAIN g = T /\ IsFiniteSet(T)
  BY FS_Subset
<1>4. Volume(S) = SumFunctionOnSet(f, S) /\ Volume(T) = SumFunctionOnSet(g, T)
  BY <1>3 DEF Volume, SumFunction
<1> HIDE DEF f, g
<1>5. SumFunctionOnSet(f, S) \in Nat /\ SumFunctionOnSet(g, T) \in Nat
  BY <1>1, <1>2, <1>3, SumType
<1>6. SumFunctionOnSet(g, T) <= SumFunctionOnSet(f, S)
  BY <1>1, <1>2, SumMonotone
<1> QED BY <1>4, <1>5, <1>6

\* Without the pools, the greatest share is one of a counterparty's.
LEMMA ConcentrationIsFraction ==
    ASSUME NEW table, IsFiniteSet(table), table \subseteq Trade, NEW a \in Accounts
    PROVE  IsFraction(counterparty_concentration_ratio(table, a))
<1> DEFINE own == AccountTrades(table, a)
           of(c) == {t \in own : Counterparty(t, a) = c}
           all == Counterparties(table, a)
           total == Volume({t \in own : Counterparty(t, a) # NoAccount})
<1>1. IsFiniteSet(own) /\ own \subseteq Trade
  BY FS_Subset DEF AccountTrades
<1>2. IsFiniteSet(all)
  <2>1. all \subseteq Accounts
    BY DEF Counterparties, Counterparty, AccountTrades, Trade
  <2> QED BY <2>1, FS_Subset, GraphAssumption DEF GraphAssumption
<1>3. total \in Nat /\ \A c \in all : Volume(of(c)) \in Nat /\ Volume(of(c)) <= total
  <2> DEFINE rest == {t \in own : Counterparty(t, a) # NoAccount}
  <2>1. IsFiniteSet(rest) /\ rest \subseteq Trade
    BY <1>1, FS_Subset
  <2>2. Volume(rest) \in Nat
    BY <2>1, VolumeOfSubset
  <2>3. ASSUME NEW c \in all PROVE Volume(of(c)) \in Nat /\ Volume(of(c)) <= Volume(rest)
    <3>1. of(c) \in SUBSET rest
      BY DEF Counterparties
    <3> HIDE DEF of, rest
    <3> QED BY <2>1, <3>1, VolumeOfSubset
  <2> QED BY <2>2, <2>3
<1> HIDE DEF own, of, all, total
<1> DEFINE shares == {Volume(of(c)) : c \in all}
           most == CHOOSE v \in shares : \A c \in all : Volume(of(c)) <= v
<1>4. counterparty_concentration_ratio(table, a)
        = IF all = {} THEN <<0, 1>> ELSE Ratio(most, total)
  BY DEF counterparty_concentration_ratio, own, of, all, total
<1>5. CASE all = {}
  BY <1>4, <1>5 DEF IsFraction
<1>6. CASE all # {}
  <2> DEFINE volume == [c \in all |-> Volume(of(c))]
  <2>1. \E c \in all : \A d \in all : volume[d] <= volume[c]
    <3>1. \A c \in all : volume[c] \in Nat
      BY <1>3
    <3> HIDE DEF volume
    <3> QED BY <1>2, <1>6, <3>1, GreatestValue
  <2>2. \E v \in shares : \A c \in all : Volume(of(c)) <= v
    BY <2>1
  <2>3. most \in shares
    BY <2>2
  <2>4. most \in Nat /\ most <= total
    <3> HIDE DEF most
    <3> QED BY <1>3, <2>3
  <2> HIDE DEF most
  <2> QED BY <1>3, <1>4, <1>6, <2>4, RatioIsFraction
<1> QED BY <1>5, <1>6

\* A wallet's counterparties are among the others, if it is none of them.
LEMMA CentralityIsFraction ==
    ASSUME NEW table, table \subseteq Trade, NEW a \in Accounts,
           a \notin Counterparties(table, a)
    PROVE  IsFraction(network_centrality(table, a))
<1> DEFINE everyone == (UNION {{t.base, t.counter} : t \in table}) \ {NoAccount}
           met == Counterparties(table, a)
<1>1. /\ \A t \in table : t.base \in Accounts /\ t.counter \in Accounts \cup {NoAccount}
      /\ NoAccount \notin Accounts
  BY GraphAssumption DEF GraphAssumption, Trade
<1>2. \A x : x \in everyone <=> x # NoAccount /\ \E t \in table : x = t.base \/ x = t.counter
  <2> DEFINE folk == UNION {{t.base, t.counter} : t \in table}
  <2>1. \A x : x \in folk <=> \E t \in table : x \in {t.base, t.counter}
    BY Zenon
  <2>2. everyone = folk \ {NoAccount}
    OBVIOUS
  <2> HIDE DEF everyone, folk
  <2> QED BY <2>1, <2>2
<1>3. IsFiniteSet(everyone) /\ Cardinality(everyone) \in Nat
  <2>1. everyone \subseteq Accounts
    <3> HIDE DEF everyone
    <3> QED BY <1>1, <1>2
  <2> HIDE DEF everyone
  <2> QED BY <2>1, FS_Subset, FS_CardinalityType, GraphAssumption DEF GraphAssumption
<1>4. met \subseteq everyone \ {a}
  <2>1. ASSUME NEW c \in met PROVE c \in everyone \ {a}
    <3>1. PICK t \in table : c = Counterparty(t, a)
      BY DEF Counterparties, AccountTrades
    <3>2. c \in {t.base, t.counter} /\ c # NoAccount
      BY <3>1 DEF Counterparties, Counterparty
    <3>3. c # a
      OBVIOUS
    <3> HIDE DEF everyone, met
    <3> QED BY <1>2, <3>2, <3>3
  <2> QED BY <2>1
<1>5. a \in everyone \/ met = {}
  <2>1. ASSUME NEW c \in met PROVE a \in everyone
    <3>1. PICK t \in table : a \in {t.base, t.counter}
      BY DEF Counterparties, AccountTrades
    <3> HIDE DEF everyone, met
    <3> QED BY <1>1, <1>2, <3>1
  <2> QED BY <2>1
<1>6. network_centrality(table, a)
        = IF Cardinality(everyone) <= 1 THEN <<0, 1>>
          ELSE <<Cardinality(met), Cardinality(everyone) - 1>>
  BY DEF network_centrality
<1> HIDE DEF everyone, met
<1>7. CASE Cardinality(everyone) <= 1
  BY <1>6, <1>7 DEF IsFraction
<1>8. CASE ~(Cardinality(everyone) <= 1)
  <2>1. Cardinality(met) \in Nat /\ Cardinality(met) <= Cardinality(everyone) - 1
    <3>1. CASE met = {}
      BY <1>3, <1>8, <3>1, FS_EmptySet
    <3>2. CASE a \in everyone
      <4>1. /\ IsFiniteSet(everyone \ {a})
            /\ Cardinality(everyone \ {a}) = Cardinality(everyone) - 1
        BY <1>3, <3>2, FS_RemoveElement
      <4>2. IsFiniteSet(met) /\ Cardinality(met) <= Cardinality(everyone \ {a})
        BY <1>4, <4>1, FS_Subset
      <4> QED BY <4>1, <4>2, FS_CardinalityType
    <3> QED BY <1>5, <3>1, <3>2
  <2> QED BY <1>3, <1>6, <1>8, <2>1 DEF IsFraction
<1> QED BY <1>7, <1>8

\* What stays in a circle is at most what was sent.
LEMMA CycleVolumeIsFraction ==
    ASSUME NEW own, IsFiniteSet(own), own \subseteq Payment
    PROVE  IsFraction(path_cycle_volume_ratio(own))
<1> DEFINE cycles == {p \in CircularRoutes(own) : ~IsSelfPayment(p)}
           f == [p \in own |-> p.sent]
           g == [p \in cycles |-> CycleVolume(p)]
<1>1. cycles \in SUBSET own /\ IsFiniteSet(cycles)
  <2>1. cycles \in SUBSET own
    BY DEF CircularRoutes
  <2> QED BY <2>1, FS_Subset
<1>2. \A p \in own : f[p] \in Nat
  BY DEF Payment
<1>3. \A p \in cycles : g[p] \in Nat /\ g[p] <= f[p]
  BY <1>1 DEF Payment, CycleVolume, Least
<1>4. path_cycle_volume_ratio(own)
        = Ratio(SumFunctionOnSet(g, cycles), SumFunctionOnSet(f, own))
  <2>1. DOMAIN f = own /\ DOMAIN g = cycles
    OBVIOUS
  <2> QED BY <2>1 DEF path_cycle_volume_ratio, SumFunction
<1> HIDE DEF cycles, f, g
<1>5. SumFunctionOnSet(g, cycles) \in Nat /\ SumFunctionOnSet(f, own) \in Nat
  BY <1>1, <1>2, <1>3, SumType
<1>6. SumFunctionOnSet(g, cycles) <= SumFunctionOnSet(f, own)
  BY <1>1, <1>2, <1>3, SumMonotone
<1> QED BY <1>4, <1>5, <1>6, RatioIsFraction

\* Of finitely many trades, those that have some later one are not all.
LEMMA LastHasNoLater ==
    ASSUME NEW own, IsFiniteSet(own), Cardinality(own) >= 2,
           NEW rank, \A t \in own : rank[t] \in Nat,
           NEW some \in SUBSET own, \A i \in some : \E j \in own : rank[j] > rank[i]
    PROVE  Below1(<<Cardinality(some), Cardinality(own)>>)
<1>1. /\ Cardinality(some) \in Nat /\ Cardinality(own) \in Nat
      /\ Cardinality(some) <= Cardinality(own)
      /\ Cardinality(some) = Cardinality(own) => some = own
  BY FS_Subset, FS_CardinalityType
<1>2. own # {}
  BY FS_EmptySet
<1>3. PICK last \in own : \A t \in own : rank[t] <= rank[last]
  BY <1>2, GreatestValue
<1>4. last \notin some
  <2>1. ASSUME NEW j \in own, rank[j] > rank[last] PROVE FALSE
    BY <1>3, <2>1
  <2> QED BY <2>1
<1>5. some # own
  BY <1>3, <1>4
<1>6. Cardinality(some) < Cardinality(own)
  BY <1>1, <1>5
<1> QED BY <1>1, <1>6 DEF Below1, IsFraction

\* The trades of a table are ranked by numbers.
LEMMA RanksAreNumbers ==
    ASSUME NEW table, IsFiniteSet(table), NEW rank \in Sorted(table)
    PROVE  \A t \in table : rank[t] \in Nat
<1>1. Cardinality(table) \in Nat
  BY FS_CardinalityType
<1>2. rank \in [table -> 1..Cardinality(table)]
  BY DEF Sorted
<1>3. \A t \in table : rank[t] \in 1..Cardinality(table)
  BY <1>2
<1> QED BY <1>1, <1>3

LEMMA RoundTripsAreFraction ==
    ASSUME NEW table, IsFiniteSet(table), NEW a
    PROVE  /\ \A rank \in Sorted(AccountTrades(table, a)) :
                Below1(round_trip_trade_frequency(table, a, rank))
           /\ \A rank \in Sorted(PoolTrades(table, a)) :
                Below1(pool_round_trip_ratio(table, a, rank))
<1>0. Below1(<<0, 1>>)
  BY DEF Below1, IsFraction
<1>1. ASSUME NEW rank \in Sorted(AccountTrades(table, a))
      PROVE  Below1(round_trip_trade_frequency(table, a, rank))
  <2> DEFINE own == AccountTrades(table, a)
             some == Reversed(own, a, rank)
  <2>1. IsFiniteSet(own) /\ Cardinality(own) \in Nat
    BY FS_Subset, FS_CardinalityType DEF AccountTrades
  <2>2. some \in SUBSET own /\ \A i \in some : \E j \in own : rank[j] > rank[i]
    BY DEF Reversed
  <2>3. round_trip_trade_frequency(table, a, rank)
          = IF Cardinality(own) < 2 THEN <<0, 1>> ELSE <<Cardinality(some), Cardinality(own)>>
    BY DEF round_trip_trade_frequency
  <2>4. \A t \in own : rank[t] \in Nat
    BY <2>1, RanksAreNumbers
  <2> HIDE DEF own, some
  <2>5. Cardinality(own) >= 2 => Below1(<<Cardinality(some), Cardinality(own)>>)
    BY <2>1, <2>2, <2>4, LastHasNoLater
  <2> QED BY <1>0, <2>1, <2>3, <2>5
<1>2. ASSUME NEW rank \in Sorted(PoolTrades(table, a))
      PROVE  Below1(pool_round_trip_ratio(table, a, rank))
  <2> DEFINE own == PoolTrades(table, a)
             some == RoundTrips(own, rank)
  <2>1. IsFiniteSet(own) /\ Cardinality(own) \in Nat
    BY FS_Subset, FS_CardinalityType DEF PoolTrades
  <2>2. some \in SUBSET own /\ \A i \in some : \E j \in own : rank[j] > rank[i]
    BY DEF RoundTrips
  <2>3. pool_round_trip_ratio(table, a, rank)
          = IF Cardinality(own) < 2 THEN <<0, 1>> ELSE <<Cardinality(some), Cardinality(own)>>
    BY DEF pool_round_trip_ratio
  <2>4. \A t \in own : rank[t] \in Nat
    BY <2>1, RanksAreNumbers
  <2> HIDE DEF own, some
  <2>5. Cardinality(own) >= 2 => Below1(<<Cardinality(some), Cardinality(own)>>)
    BY <2>1, <2>2, <2>4, LastHasNoLater
  <2> QED BY <1>0, <2>1, <2>3, <2>5
<1> QED BY <1>1, <1>2

\* The spikes are some of the buckets.
LEMMA SpikesAreFraction ==
    ASSUME NEW table, NEW asOf \in Nat
    PROVE  IsFraction(volume_spike_frequency(table, asOf))
<1> DEFINE recent == {t \in table : t.at > asOf - Baseline /\ t.at <= asOf}
           buckets == {m \in 0..asOf : \E t, u \in recent : t.at <= m /\ m <= u.at}
           volume == [m \in buckets |-> Volume({t \in recent : t.at = m})]
           n == Cardinality(buckets)
           total == SumFunction(volume)
           spread == n * SumFunction([m \in buckets |-> Square(volume[m])]) - Square(total)
           spikes == {m \in buckets : /\ n * volume[m] > total
                                      /\ (n - 1) * Square(n * volume[m] - total) > 4 * n * spread}
<1>1. IsFiniteSet(buckets)
  <2>1. IsFiniteSet(0..asOf) /\ buckets \subseteq 0..asOf
    BY FS_Interval
  <2> HIDE DEF buckets
  <2> QED BY <2>1, FS_Subset
<1>2. spikes \in SUBSET buckets
  <2> HIDE DEF buckets, volume, total, spread, n
  <2> QED OBVIOUS
<1>3. volume_spike_frequency(table, asOf)
        = IF n < 2 \/ spread = 0 THEN <<0, 1>> ELSE <<Cardinality(spikes), n>>
  BY DEF volume_spike_frequency
<1> HIDE DEF spikes, spread, buckets
<1>4. n \in Nat /\ Cardinality(spikes) \in Nat /\ Cardinality(spikes) <= n
  BY <1>1, <1>2, FS_Subset, FS_CardinalityType
<1> HIDE DEF n
<1>5. CASE n < 2 \/ spread = 0
  BY <1>3, <1>5 DEF IsFraction
<1>6. CASE ~(n < 2 \/ spread = 0)
  BY <1>3, <1>4, <1>6 DEF IsFraction
<1> QED BY <1>5, <1>6

LEMMA SimilarityIsFraction ==
    ASSUME NEW table, IsFiniteSet(table), NEW a, NEW funding
    PROVE  IsFraction(funding_source_similarity_score(table, a, funding))
<1> DEFINE own == AccountTrades(table, a)
           same == {t \in own : /\ Counterparty(t, a) # NoAccount
                                /\ funding[Counterparty(t, a)] = funding[a]}
<1>1. IsFiniteSet(own)
  BY FS_Subset DEF AccountTrades
<1>2. same \in SUBSET own
  <2> HIDE DEF own
  <2> QED OBVIOUS
<1>3. funding_source_similarity_score(table, a, funding)
        = IF funding[a] = NoSource THEN <<0, 1>> ELSE Ratio(Cardinality(same), Cardinality(own))
  BY DEF funding_source_similarity_score
<1> HIDE DEF own, same
<1>4. IsFraction(Ratio(Cardinality(same), Cardinality(own)))
  BY <1>1, <1>2, RatioOfSubset
<1>5. IsFraction(<<0, 1>>)
  BY DEF IsFraction
<1> QED BY <1>3, <1>4, <1>5

\* What feature_engineering.py and amm_engine.py call a "fraction of" lies
\* between 0 and 1, and round trips below 1 (FractionsInRange), for any tables
\* of trades, payments and events and any funding accounts.
THEOREM FractionsCorrect == Spec => []FractionsInRange
<1>1. TablesInv => FractionsInRange
  <2> SUFFICES ASSUME TablesInv PROVE FractionsInRange
    OBVIOUS
  <2>1. trades \subseteq Trade /\ payments \subseteq Payment
    BY GraphAssumption, FeatureAssumption DEF TablesInv, GraphAssumption, FeatureAssumption
  <2>2. ASSUME NEW p \in Pairs
        PROVE  LET table == Of(trades, p) IN
                 /\ IsFraction(self_matching_rate(table))
                 /\ IsFraction(intra_minute_clustering_coefficient(table))
                 /\ IsFraction(off_hours_activity_ratio(table))
                 /\ \A now \in {t.at : t \in table} :
                      IsFraction(volume_spike_frequency(table, now))
                 /\ \A a \in Accounts :
                      /\ IsFraction(counterparty_concentration_ratio(table, a))
                      /\ \A rank \in Sorted(AccountTrades(table, a)) :
                           Below1(round_trip_trade_frequency(table, a, rank))
                      /\ \A rank \in Sorted(PoolTrades(table, a)) :
                           Below1(pool_round_trip_ratio(table, a, rank))
                      /\ IsFraction(pool_trade_ratio(table, a))
                      /\ \A funding \in [Accounts -> Sources \cup {NoSource}] :
                           IsFraction(funding_source_similarity_score(table, a, funding))
                      /\ a \notin Counterparties(table, a)
                           => IsFraction(network_centrality(table, a))
    <3> DEFINE table == Of(trades, p)
    <3>1. IsFiniteSet(table) /\ table \subseteq Trade
      BY <2>1, FS_Subset DEF TablesInv, Of
    <3> HIDE DEF table
    <3>2. IsFraction(self_matching_rate(table))
      BY <3>1, RatioOfSubset DEF self_matching_rate
    <3>3. IsFraction(intra_minute_clustering_coefficient(table))
      BY <3>1, RatioOfSubset DEF intra_minute_clustering_coefficient
    <3>4. IsFraction(off_hours_activity_ratio(table))
      BY <3>1, RatioOfSubset DEF off_hours_activity_ratio
    <3>6. ASSUME NEW now \in {t.at : t \in table}
          PROVE  IsFraction(volume_spike_frequency(table, now))
      <4>1. now \in Nat
        BY <3>1 DEF Trade
      <4> QED BY <4>1, SpikesAreFraction
    <3>5. ASSUME NEW a \in Accounts PROVE IsFraction(pool_trade_ratio(table, a))
      <4>1. AccountTrades(table, a) \subseteq Trade /\ IsFiniteSet(AccountTrades(table, a))
        BY <3>1, FS_Subset DEF AccountTrades
      <4>2. PoolTrades(table, a) \in SUBSET AccountTrades(table, a)
        BY DEF PoolTrades, AccountTrades
      <4> QED BY <4>1, <4>2, VolumeOfSubset, RatioIsFraction DEF pool_trade_ratio
    <3> QED
      BY <3>1, <3>2, <3>3, <3>4, <3>5, <3>6, ConcentrationIsFraction, CentralityIsFraction,
         RoundTripsAreFraction, SimilarityIsFraction DEF table
  <2>3. ASSUME NEW a \in Accounts
        PROVE  LET own == {p \in payments : p.source = a} IN
                 /\ IsFraction(atomic_self_payment_ratio(own))
                 /\ IsFraction(path_cycle_volume_ratio(own))
    <3> DEFINE own == {p \in payments : p.source = a}
    <3>1. IsFiniteSet(own) /\ own \subseteq Payment
      BY <2>1, FS_Subset DEF TablesInv
    <3> HIDE DEF own
    <3>2. {p \in CircularRoutes(own) : IsSelfPayment(p)} \in SUBSET own
      BY DEF CircularRoutes
    <3>3. IsFraction(atomic_self_payment_ratio(own))
      BY <3>1, <3>2, RatioOfSubset DEF atomic_self_payment_ratio
    <3>4. IsFraction(path_cycle_volume_ratio(own))
      BY <3>1, CycleVolumeIsFraction
    <3> QED BY <3>3, <3>4 DEF own
  <2>4. ASSUME NEW a \in Accounts
        PROVE  IsFraction(order_cancellation_rate({e \in events : e.account = a}))
    <3> DEFINE own == {e \in events : e.account = a}
    <3>1. IsFiniteSet(own)
      BY FS_Subset DEF TablesInv
    <3> HIDE DEF own
    <3>2. IsFraction(order_cancellation_rate(own))
      BY <3>1, RatioOfSubset DEF order_cancellation_rate
    <3> QED BY <3>2 DEF own
  <2> QED BY <2>2, <2>3, <2>4 DEF FractionsInRange
<1> QED
  BY <1>1, TablesInvariant, PTL

-----------------------------------------------------------------------------
(* Bursts.  Each pair of a couple in which the wallet trades together has a  *)
(* trade close to one of the other pair.                                     *)

\* The couples of pairs that BurstTrades counts.
Bursts(active, a) ==
    {c \in active \X active :
        /\ c[1] # c[2]
        /\ \E t \in AccountTrades(Of(trades, c[1]), a), u \in Of(trades, c[2]) : Close(t, u)}

LEMMA CloseIsSymmetric ==
    ASSUME NEW t \in Trade, NEW u \in Trade, Close(t, u)
    PROVE  Close(u, t)
<1>1. t.at \in Nat /\ u.at \in Nat /\ Window \in Nat
  BY FeatureAssumption DEF Trade, FeatureAssumption
<1> QED BY <1>1 DEF Close

LEMMA ActiveHasBurst ==
    ASSUME trades \subseteq Trade, NEW correlated \in SUBSET Correlated, NEW a,
           NEW p \in cross_pair_wallets(correlated, a)
    PROVE  /\ \E q \in cross_pair_wallets(correlated, a) :
                <<p, q>> \in Bursts(cross_pair_wallets(correlated, a), a)
           /\ \E t \in trades : p = t.pair
<1> DEFINE active == cross_pair_wallets(correlated, a)
<1>1. PICK couple \in correlated : p \in couple /\ TradesTogether(couple, a)
  BY DEF cross_pair_wallets
<1>2. PICK t, u \in AccountTrades(trades, a) : {t.pair, u.pair} = couple /\ Close(t, u)
  BY <1>1 DEF TradesTogether
<1>3. t.pair # u.pair
  <2>1. ASSUME t.pair = u.pair PROVE FALSE
    <3>1. couple = {p} /\ Cardinality(couple) = 2
      BY <1>1, <1>2, <2>1, FeatureAssumption DEF FeatureAssumption
    <3> QED BY <3>1, FS_Singleton
  <2> QED BY <2>1
<1>4. t \in trades /\ u \in trades /\ Close(u, t)
  BY <1>2, CloseIsSymmetric DEF AccountTrades
<1>5. couple \subseteq active
  BY <1>1 DEF cross_pair_wallets
<1>6. CASE p = t.pair
  <2>1. u.pair \in active /\ p \in active
    BY <1>1, <1>2, <1>5
  <2>2. t \in AccountTrades(Of(trades, p), a) /\ u \in Of(trades, u.pair)
    BY <1>2, <1>4, <1>6 DEF AccountTrades, Of
  <2> HIDE DEF active
  <2>3. <<p, u.pair>> \in Bursts(active, a)
    BY <1>2, <1>3, <1>6, <2>1, <2>2 DEF Bursts
  <2> QED BY <1>4, <1>6, <2>1, <2>3 DEF active
<1>7. CASE p = u.pair
  <2>1. t.pair \in active /\ p \in active
    BY <1>1, <1>2, <1>5
  <2>2. u \in AccountTrades(Of(trades, p), a) /\ t \in Of(trades, t.pair)
    BY <1>2, <1>4, <1>7 DEF AccountTrades, Of
  <2> HIDE DEF active
  <2>3. <<p, t.pair>> \in Bursts(active, a)
    BY <1>3, <1>4, <1>7, <2>1, <2>2 DEF Bursts
  <2> QED BY <1>4, <1>7, <2>1, <2>3 DEF active
<1> QED BY <1>1, <1>2, <1>6, <1>7

\* find_cross_pair_wallets and cross_pair_features agree (CrossPairAgrees), for
\* any number of pairs, couples and trades.
THEOREM CrossPairCorrect == Spec => []CrossPairAgrees
<1>1. TablesInv => CrossPairAgrees
  <2> SUFFICES ASSUME TablesInv, NEW correlated \in SUBSET Correlated, NEW a \in Accounts
               PROVE  LET active == cross_pair_wallets(correlated, a) IN
                      active # {} =>
                        /\ BurstTrades(active, a) >= Cardinality(active)
                        /\ IsFraction(cross_pair_volume_concentration(active, a))
                        /\ Cardinality(active) = 2
                             => IsFraction(cross_pair_burst_overlap_ratio(active, a))
    BY DEF CrossPairAgrees
  <2> DEFINE active == cross_pair_wallets(correlated, a)
             bursts == Bursts(active, a)
             own == AccountTrades(ActiveTrades(active), a)
  <2>1. trades \subseteq Trade /\ IsFiniteSet(trades)
    BY GraphAssumption DEF TablesInv, GraphAssumption
  <2>2. \A p \in active : (\E q \in active : <<p, q>> \in bursts) /\ \E t \in trades : p = t.pair
    BY <2>1, ActiveHasBurst
  <2> HIDE DEF active
  <2>3. IsFiniteSet(active) /\ Cardinality(active) \in Nat
    <3> DEFINE f == [p \in active |-> CHOOSE t \in trades : p = t.pair]
    <3>1. \A p \in active : f[p] \in trades /\ p = f[p].pair
      BY <2>2
    <3>2. f \in [active -> trades]
      BY <3>1
    <3>3. f \in Injection(active, trades)
      <4> HIDE DEF f
      <4> QED BY <3>1, <3>2 DEF Injection, IsInjective
    <3> HIDE DEF f
    <3> QED BY <2>1, <3>3, FS_Injection, FS_CardinalityType
  <2>4. bursts \subseteq active \X active /\ IsFiniteSet(bursts) /\ Cardinality(bursts) \in Nat
    <3>1. bursts \subseteq active \X active
      BY DEF Bursts
    <3>2. IsFiniteSet(active \X active)
      BY <2>3, FS_Product
    <3> HIDE DEF bursts
    <3> QED BY <3>1, <3>2, FS_Subset, FS_CardinalityType
  <2>5. BurstTrades(active, a) = Cardinality(bursts)
    BY DEF BurstTrades, Bursts
  <2>6. Cardinality(active) <= Cardinality(bursts)
    <3> HIDE DEF bursts
    <3> DEFINE f == [p \in active |-> <<p, CHOOSE q \in active : <<p, q>> \in bursts>>]
    <3>1. \A p \in active : f[p] \in bursts /\ p = f[p][1]
      BY <2>2
    <3>2. f \in [active -> bursts]
      BY <3>1
    <3>3. f \in Injection(active, bursts)
      <4> HIDE DEF f
      <4> QED BY <3>1, <3>2 DEF Injection, IsInjective
    <3> HIDE DEF f
    <3> QED BY <2>4, <3>3, FS_Injection
  <2>7. IsFiniteSet(ActiveTrades(active)) /\ ActiveTrades(active) \subseteq Trade
    BY <2>1, FS_Subset DEF ActiveTrades
  <2>8. own \in SUBSET ActiveTrades(active) /\ IsFiniteSet(own) /\ Cardinality(own) \in Nat
    <3>1. own \in SUBSET ActiveTrades(active)
      BY DEF AccountTrades
    <3> HIDE DEF own
    <3> QED BY <2>7, <3>1, FS_Subset, FS_CardinalityType
  <2>9. IsFraction(cross_pair_volume_concentration(active, a))
    <3>1. cross_pair_volume_concentration(active, a)
            = Ratio(Volume(own), Volume(ActiveTrades(active)))
      BY DEF cross_pair_volume_concentration
    <3> HIDE DEF own
    <3> QED BY <2>7, <2>8, <3>1, VolumeOfSubset, RatioIsFraction
  <2>10. ASSUME Cardinality(active) = 2
         PROVE  IsFraction(cross_pair_burst_overlap_ratio(active, a))
    <3>1. ASSUME NEW c \in bursts PROVE \E t \in own : t.pair = c[1]
      BY DEF Bursts, AccountTrades, ActiveTrades, Of
    <3>2. \A c, d \in bursts : c[1] = d[1] => c = d
      <4>1. ASSUME NEW c \in bursts, NEW d \in bursts, c[1] = d[1] PROVE c = d
        <5>1. /\ c = <<c[1], c[2]>> /\ d = <<d[1], d[2]>>
              /\ {c[1], c[2], d[1], d[2]} \subseteq active
          BY <2>4
        <5>2. c[1] # c[2] /\ d[1] # d[2]
          BY DEF Bursts
        <5>3. active = {c[1], c[2]}
          BY <2>3, <2>10, <5>1, <5>2, TwoElements
        <5> QED BY <4>1, <5>1, <5>2, <5>3
      <4> QED BY <4>1
    <3> HIDE DEF bursts, own
    <3> DEFINE f == [c \in bursts |-> CHOOSE t \in own : t.pair = c[1]]
    <3>3. \A c \in bursts : f[c] \in own /\ f[c].pair = c[1]
      BY <3>1
    <3>4. f \in [bursts -> own]
      BY <3>3
    <3>5. f \in Injection(bursts, own)
      <4>1. \A c, d \in bursts : f[c] = f[d] => c = d
        <5> HIDE DEF f
        <5> QED BY <3>2, <3>3
      <4> HIDE DEF f
      <4> QED BY <3>4, <4>1 DEF Injection, IsInjective
    <3>6. Cardinality(bursts) <= Cardinality(own)
      <4> HIDE DEF f
      <4> QED BY <2>8, <3>5, FS_Injection
    <3>7. cross_pair_burst_overlap_ratio(active, a)
            = Ratio(Cardinality(bursts), Cardinality(own))
      BY <2>5 DEF cross_pair_burst_overlap_ratio, own
    <3> QED BY <2>4, <2>8, <3>6, <3>7, RatioIsFraction
  <2>11. BurstTrades(active, a) >= Cardinality(active)
    <3> HIDE DEF bursts
    <3> QED BY <2>3, <2>4, <2>5, <2>6
  <2> QED BY <2>9, <2>10, <2>11 DEF active
<1> QED
  BY <1>1, TablesInvariant, PTL

-----------------------------------------------------------------------------
(* The risk of a pool.  The round trips of the stored rows are those of the  *)
(* wallets, each in one wallet's part.                                       *)

\* pool_risk_from_trade_rows and pool_round_trip_ratio agree (PoolRiskAgrees),
\* for any pools, wallets, trades and runs.
THEOREM PoolRiskCorrect == Spec => []PoolRiskAgrees
<1>1. TablesInv => PoolRiskAgrees
  <2> SUFFICES ASSUME TablesInv, NEW p \in Pairs, NEW rank \in Sorted(Stored(p)),
                      Stored(p) # {}, Even(Stored(p))
               PROVE  LET trips == [a \in Accounts |-> pool_round_trip_ratio(Stored(p), a, rank)[1]]
                          risk == PoolRisk(p, rank)
                      IN  risk[1] * Cardinality(Stored(p)) = risk[2] * SumFunction(trips)
    BY DEF PoolRiskAgrees
  <2> DEFINE rows == Stored(p)
             trips == [a \in Accounts |-> pool_round_trip_ratio(rows, a, rank)[1]]
             own(a) == {t \in rows : t.base = a}
             part == [a \in Accounts |-> MatchedOfOne(rows, a, rank)]
             all == UNION {part[a] : a \in Accounts}
  <2>1. PICK k \in 1..MaxRuns : \A t \in rows : stored[t] = k
    BY DEF Even
  <2>2. k \in Nat /\ k # 0
    BY <2>1, FeatureAssumption DEF FeatureAssumption
  <2>3. /\ rows \subseteq trades /\ IsFiniteSet(rows) /\ Cardinality(rows) \in Nat
        /\ Cardinality(rows) # 0
        /\ \A t \in rows : t \in Trade /\ IsPool(t)
    <3>1. rows \subseteq trades /\ \A t \in rows : IsPool(t)
      BY DEF TablesInv, Stored
    <3>2. \A t \in rows : t \in Trade
      BY <3>1, GraphAssumption DEF TablesInv, GraphAssumption
    <3> HIDE DEF rows
    <3>3. IsFiniteSet(rows) /\ Cardinality(rows) \in Nat
      BY <3>1, FS_Subset, FS_CardinalityType DEF TablesInv
    <3>4. Cardinality(rows) # 0
      BY <3>3, FS_EmptySet DEF rows
    <3> QED BY <3>1, <3>2, <3>3, <3>4
  <2>4. PoolRisk(p, rank) = Ratio(Copies(all), Copies(rows))
    <3>1. all = UNION {MatchedOfOne(Stored(p), a, rank) : a \in Accounts}
      BY SMT
    <3> HIDE DEF all
    <3> QED BY <3>1 DEF PoolRisk
  <2> HIDE DEF rows
  <2>5. ASSUME NEW a \in Accounts
        PROVE  /\ part[a] = RoundTrips(own(a), rank) /\ part[a] \subseteq own(a)
               /\ IsFiniteSet(own(a)) /\ IsFiniteSet(part[a])
               /\ trips[a] = Cardinality(part[a])
    <3>1. part[a] = RoundTrips(own(a), rank) /\ part[a] \subseteq own(a)
      BY DEF MatchedOfOne, Matched, RoundTrips
    <3>2. IsFiniteSet(own(a))
      BY <2>3, FS_Subset
    <3>3. PoolTrades(rows, a) = own(a)
      BY <2>3 DEF PoolTrades
    <3>4. trips[a] = (IF Cardinality(own(a)) < 2 THEN <<0, 1>>
                      ELSE <<Cardinality(part[a]), Cardinality(own(a))>>)[1]
      BY <3>1, <3>3 DEF pool_round_trip_ratio
    <3> HIDE DEF own, part, trips
    <3>5. IsFiniteSet(part[a])
      BY <3>1, <3>2, FS_Subset
    <3>6. ASSUME Cardinality(own(a)) < 2 PROVE Cardinality(part[a]) = 0
      <4>1. part[a] = {}
        <5>1. ASSUME NEW i \in part[a] PROVE FALSE
          <6>1. PICK j \in own(a) : rank[j] > rank[i] /\ i \in own(a)
            BY <3>1 DEF RoundTrips
          <6>2. i # j
            <7>1. own(a) \subseteq Stored(p)
              BY DEF own, rows
            <7>2. rank[i] \in Int
              BY <6>1, <7>1 DEF Sorted
            <7> QED BY <6>1, <7>2
          <6>3. Cardinality(own(a)) >= 2 /\ Cardinality(own(a)) \in Nat
            BY <3>2, <6>1, <6>2, TwoElements, FS_CardinalityType
          <6> QED BY <3>6, <6>3
        <5> QED BY <5>1
      <4> QED BY <4>1, FS_EmptySet
    <3>7. trips[a] = Cardinality(part[a])
      BY <3>4, <3>6
    <3> QED BY <3>1, <3>2, <3>5, <3>7
  <2>6. \A a, b \in Accounts : a # b => part[a] \cap part[b] = {}
    <3>1. ASSUME NEW a \in Accounts, NEW t \in part[a] PROVE t.base = a
      BY <2>5
    <3> HIDE DEF part
    <3> QED BY <3>1
  <2>7. DOMAIN trips = Accounts /\ IsFiniteSet(Accounts)
    BY GraphAssumption DEF GraphAssumption
  <2> HIDE DEF part, trips
  <2>8. IsFiniteSet(all) /\ Cardinality(all) = SumFunction(trips)
    <3>1. \A a \in Accounts : IsFiniteSet(part[a]) /\ trips[a] = Cardinality(part[a])
      BY <2>5
    <3>2. IsFiniteSet(all) /\ Cardinality(all) = SumFunctionOnSet(trips, Accounts)
      <4>1. all = UNION {part[a] : a \in Accounts}
        OBVIOUS
      <4> HIDE DEF all
      <4> QED BY <2>6, <2>7, <3>1, <4>1, SumOfParts
    <3>3. SumFunction(trips) = SumFunctionOnSet(trips, Accounts)
      BY <2>7 DEF SumFunction
    <3> QED BY <3>2, <3>3
  <2>9. all \subseteq rows
    <3>1. ASSUME NEW t \in all PROVE t \in rows
      <4>1. PICK a \in Accounts : t \in part[a]
        OBVIOUS
      <4> QED BY <2>5, <4>1
    <3> QED BY <3>1
  <2> HIDE DEF all, own
  <2>10. Copies(rows) = k * Cardinality(rows) /\ Copies(all) = k * Cardinality(all)
    BY <2>1, <2>2, <2>3, <2>8, <2>9, SumConstant DEF Copies
  <2>11. Cardinality(all) \in Nat
    BY <2>8, FS_CardinalityType
  <2>12. k * Cardinality(rows) \in Nat /\ k * Cardinality(rows) > 0
    BY <2>2, <2>3
  <2>13. PoolRisk(p, rank) = <<k * Cardinality(all), k * Cardinality(rows)>>
    BY <2>4, <2>10, <2>12 DEF Ratio
  <2>14. (k * Cardinality(all)) * Cardinality(rows) = (k * Cardinality(rows)) * Cardinality(all)
    BY <2>2, <2>3, <2>11
  <2> QED BY <2>8, <2>13, <2>14 DEF trips, rows
<1> QED
  BY <1>1, TablesInvariant, PTL
=============================================================================
