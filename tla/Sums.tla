-------------------------------- MODULE Sums --------------------------------
(***************************************************************************)
(* Sums over finite sets.  The figures of a budget and the points of a     *)
(* score are sums by MapThenSumSet, a fold that takes one element after    *)
(* another as CHOOSE picks them; what is proved of them needs a sum that   *)
(* may be taken in any order.  The theorems of the library that do         *)
(* induction take an operator.  Here the induction is by a smallest        *)
(* counterexample: of subsets of a finite set there is one (WFMin).        *)
(***************************************************************************)
EXTENDS Integers, FiniteSetsExt, FiniteSetTheorems, WellFoundedInduction, TLAPS

Some(s) == CHOOSE x \in s : TRUE

(* The fold of f over the subsets of S, by the element it picks of each.    *)
SumStep(f, iter, s) == IF s = {} THEN 0 ELSE f[Some(s)] + iter[s \ {Some(s)}]
IsFold(f, iter, S) == iter = [s \in SUBSET S |-> SumStep(f, iter, s)]
FoldOf(f, S) == CHOOSE iter : IsFold(f, iter, S)

SumOver(f, S) == FoldOf(f, S)[S]

LEMMA SumIsFold ==
  ASSUME NEW f, NEW S
  PROVE  MapThenSumSet(LAMBDA x : f[x], S) = SumOver(f, S)
BY DEF MapThenSumSet, MapThenFoldSet, SumOver, FoldOf, IsFold, SumStep, Some

LEMMA PicksOne == ASSUME NEW s, s # {} PROVE Some(s) \in s
BY DEF Some

LEMMA SmallestSubset ==
  ASSUME NEW S, IsFiniteSet(S), NEW T, T \subseteq SUBSET S, T # {}
  PROVE  \E s \in T : \A t \in T : ~(t \subseteq s /\ t # s)
<1>1. IsWellFoundedOn(StrictSubsetOrdering(S), SUBSET S)
  BY FS_StrictSubsetOrderingWellFounded, FS_FiniteSubsetsOfFinite
<1>2. PICK s \in T : \A t \in T : ~(<<t, s>> \in StrictSubsetOrdering(S))
  BY <1>1, WFMin
<1>3. \A t \in T : (t \subseteq s /\ t # s) => <<t, s>> \in StrictSubsetOrdering(S)
  BY DEF StrictSubsetOrdering
<1>4. \A t \in T : ~(t \subseteq s /\ t # s)
  BY <1>2, <1>3
<1>5. QED
  BY <1>4, Zenon

(* Two folds of f agree wherever both are defined, and of a finite set      *)
(* there is one: put together from those of its proper subsets.             *)
LEMMA SumsAgree ==
  ASSUME NEW f, NEW S, NEW R, IsFiniteSet(S), NEW g, NEW h, IsFold(f, g, S), IsFold(f, h, R)
  PROVE  \A s \in SUBSET (S \cap R) : g[s] = h[s]
<1> DEFINE Bad == {s \in SUBSET S : s \subseteq R /\ g[s] # h[s]}
<1> SUFFICES ASSUME Bad # {} PROVE FALSE
  OBVIOUS
<1>1. PICK s \in Bad : \A t \in Bad : ~(t \subseteq s /\ t # s)
  <2> HIDE DEF Bad
  <2>1. Bad \subseteq SUBSET S
    BY DEF Bad
  <2>2. QED
    BY <2>1, SmallestSubset
<1>2. g[s] = SumStep(f, g, s) /\ h[s] = SumStep(f, h, s)
  BY DEF IsFold
<1>3. CASE s = {}
  BY <1>1, <1>2, <1>3 DEF SumStep
<1>4. CASE s # {}
  <2>1. Some(s) \in s
    BY <1>4, PicksOne
  <2>2. s \ {Some(s)} \notin Bad
    BY <1>1, <2>1
  <2>3. g[s \ {Some(s)}] = h[s \ {Some(s)}]
    BY <1>1, <2>2
  <2>4. QED
    BY <1>1, <1>2, <1>4, <2>3 DEF SumStep
<1>5. QED
  BY <1>3, <1>4

Grown(f, S) == [s \in SUBSET S |->
                  IF s = {} THEN 0 ELSE f[Some(s)] + FoldOf(f, s \ {Some(s)})[s \ {Some(s)}]]

LEMMA SumExists ==
  ASSUME NEW f, NEW S, IsFiniteSet(S)
  PROVE  IsFold(f, FoldOf(f, S), S)
<1> DEFINE Bad == {s \in SUBSET S : ~IsFold(f, FoldOf(f, s), s)}
<1>1. SUFFICES ASSUME Bad # {} PROVE FALSE
  OBVIOUS
<1>2. PICK s \in Bad : \A t \in Bad : ~(t \subseteq s /\ t # s)
  <2>1. Bad \subseteq SUBSET S
    OBVIOUS
  <2> HIDE DEF Bad
  <2>2. QED
    BY <1>1, <2>1, SmallestSubset
<1>3. \A t \in SUBSET s : t # s => IsFold(f, FoldOf(f, t), t)
  BY <1>2
<1> DEFINE g == Grown(f, s)
<1>4. \A t \in SUBSET s : g[t] = SumStep(f, g, t)
  <2> SUFFICES ASSUME NEW t \in SUBSET s PROVE g[t] = SumStep(f, g, t)
    OBVIOUS
  <2>1. CASE t = {}
    BY <2>1 DEF Grown, SumStep
  <2>2. CASE t # {}
    <3> DEFINE u == t \ {Some(t)}
    <3>1. Some(t) \in t /\ u \in SUBSET s /\ u # s
      BY <2>2, PicksOne
    <3>2. g[t] = f[Some(t)] + FoldOf(f, u)[u]
      BY <2>2 DEF Grown
    <3>3. IsFold(f, FoldOf(f, u), u)
      BY <1>3, <3>1
    <3>4. FoldOf(f, u)[u] = SumStep(f, FoldOf(f, u), u)
      BY <3>3 DEF IsFold
    <3>5. CASE u = {}
      BY <2>2, <3>1, <3>2, <3>4, <3>5 DEF Grown, SumStep
    <3>6. CASE u # {}
      <4> DEFINE v == u \ {Some(u)}
      <4>1. Some(u) \in u /\ v \in SUBSET u /\ v \in SUBSET s /\ v # s
        BY <3>1, <3>6, PicksOne
      <4>2. IsFold(f, FoldOf(f, v), v)
        BY <1>3, <4>1
      <4>3. IsFiniteSet(u)
        BY <3>1, FS_Subset
      <4>4. FoldOf(f, u)[v] = FoldOf(f, v)[v]
        <5>1. v \in SUBSET (u \cap v)
          BY <4>1
        <5> HIDE DEF u, v
        <5>2. \A x \in SUBSET (u \cap v) : FoldOf(f, u)[x] = FoldOf(f, v)[x]
          BY <3>3, <4>2, <4>3, SumsAgree
        <5>3. QED
          BY <5>1, <5>2
      <4>5. FoldOf(f, u)[u] = f[Some(u)] + FoldOf(f, v)[v]
        BY <3>4, <3>6, <4>4 DEF SumStep
      <4>6. g[u] = f[Some(u)] + FoldOf(f, v)[v]
        BY <3>1, <3>6 DEF Grown
      <4>7. QED
        BY <2>2, <3>2, <4>5, <4>6 DEF SumStep
    <3>7. QED
      BY <3>5, <3>6
  <2>3. QED
    BY <2>1, <2>2
<1>5. IsFold(f, g, s)
  BY <1>4 DEF IsFold, Grown
<1>6. IsFold(f, FoldOf(f, s), s)
  BY <1>5 DEF FoldOf
<1>7. QED
  BY <1>2, <1>6


(* Whatever folds f sums it.                                                *)
LEMMA FoldSums ==
  ASSUME NEW f, NEW S, IsFiniteSet(S), NEW iter, IsFold(f, iter, S)
  PROVE  iter[S] = SumOver(f, S)
<1> DEFINE whole == FoldOf(f, S)
<1>1. IsFold(f, whole, S)
  BY SumExists
<1> HIDE DEF whole
<1>2. \A R : R = S => \A s \in SUBSET (S \cap R) : iter[s] = whole[s]
  <2> SUFFICES ASSUME NEW R, R = S PROVE \A s \in SUBSET (S \cap R) : iter[s] = whole[s]
    OBVIOUS
  <2>1. IsFold(f, whole, R)
    BY <1>1
  <2>2. QED
    BY <2>1, SumsAgree
<1>3. S \in SUBSET (S \cap S)
  OBVIOUS
<1>4. iter[S] = whole[S]
  BY <1>2, <1>3
<1>5. QED
  BY <1>4 DEF whole, SumOver

LEMMA SumUnfolds ==
  ASSUME NEW f, NEW S, IsFiniteSet(S)
  PROVE  /\ S = {} => SumOver(f, S) = 0
         /\ S # {} => SumOver(f, S) = f[Some(S)] + SumOver(f, S \ {Some(S)})
<1> DEFINE u == S \ {Some(S)}
<1>1. IsFold(f, FoldOf(f, S), S) /\ IsFold(f, FoldOf(f, u), u)
  BY SumExists, FS_Subset
<1>2. FoldOf(f, S)[S] = SumStep(f, FoldOf(f, S), S)
  BY <1>1 DEF IsFold
<1>3. u \in SUBSET (S \cap u)
  OBVIOUS
<1> HIDE DEF u
<1>4. \A x \in SUBSET (S \cap u) : FoldOf(f, S)[x] = FoldOf(f, u)[x]
  BY <1>1, SumsAgree
<1>5. FoldOf(f, S)[u] = FoldOf(f, u)[u]
  BY <1>3, <1>4
<1>6. QED
  BY <1>2, <1>5 DEF u, SumStep, SumOver

LEMMA SumIsInt ==
  ASSUME NEW f, NEW S, IsFiniteSet(S), \A x \in S : f[x] \in Int
  PROVE  SumOver(f, S) \in Int
<1> DEFINE Bad == {s \in SUBSET S : SumOver(f, s) \notin Int}
<1>1. SUFFICES ASSUME Bad # {} PROVE FALSE
  OBVIOUS
<1>2. PICK s \in Bad : \A t \in Bad : ~(t \subseteq s /\ t # s)
  <2>1. Bad \subseteq SUBSET S
    OBVIOUS
  <2> HIDE DEF Bad
  <2>2. QED
    BY <1>1, <2>1, SmallestSubset
<1>3. IsFiniteSet(s)
  BY FS_Subset
<1>4. CASE s = {}
  <2>1. SumOver(f, s) = 0
    BY <1>3, <1>4, SumUnfolds
  <2>2. QED
    BY <1>2, <2>1
<1>5. CASE s # {}
  <2>1. Some(s) \in s
    BY <1>5, PicksOne
  <2>2. s \ {Some(s)} \notin Bad
    BY <1>2, <2>1
  <2>3. SumOver(f, s \ {Some(s)}) \in Int /\ f[Some(s)] \in Int
    BY <2>1, <2>2
  <2>4. SumOver(f, s) = f[Some(s)] + SumOver(f, s \ {Some(s)})
    BY <1>3, <1>5, SumUnfolds
  <2>5. QED
    BY <2>3, <2>4
<1>6. QED
  BY <1>4, <1>5

(* Whichever element is taken first. *)
LEMMA SumTakes ==
  ASSUME NEW f, NEW S, IsFiniteSet(S), \A x \in S : f[x] \in Int, NEW y \in S
  PROVE  SumOver(f, S) = f[y] + SumOver(f, S \ {y})
<1> DEFINE Bad == {s \in SUBSET S : \E z \in s : SumOver(f, s) # f[z] + SumOver(f, s \ {z})}
<1>1. SUFFICES ASSUME Bad # {} PROVE FALSE
  OBVIOUS
<1>2. PICK s \in Bad : \A t \in Bad : ~(t \subseteq s /\ t # s)
  <2>1. Bad \subseteq SUBSET S
    OBVIOUS
  <2> HIDE DEF Bad
  <2>2. QED
    BY <1>1, <2>1, SmallestSubset
<1>3. PICK z \in s : SumOver(f, s) # f[z] + SumOver(f, s \ {z})
  OBVIOUS
<1> DEFINE x == Some(s)
           a == s \ {x}
           b == s \ {z}
           d == (s \ {x}) \ {z}
<1>4. /\ IsFiniteSet(s) /\ IsFiniteSet(a) /\ IsFiniteSet(b) /\ IsFiniteSet(d)
      /\ x \in s
  BY <1>3, FS_Subset, PicksOne
<1>5. SumOver(f, s) = f[x] + SumOver(f, a)
  BY <1>3, <1>4, SumUnfolds
<1>6. x # z
  BY <1>3, <1>5
<1>7. a \notin Bad /\ b \notin Bad
  BY <1>2, <1>3, <1>4
<1>8. z \in a /\ x \in b /\ b \ {x} = d /\ a \in SUBSET S /\ b \in SUBSET S
  BY <1>3, <1>4, <1>6
<1>9. SumOver(f, a) = f[z] + SumOver(f, d)
  BY <1>7, <1>8
<1>10. SumOver(f, b) = f[x] + SumOver(f, d)
  BY <1>7, <1>8
<1>11. f[x] \in Int /\ f[z] \in Int /\ SumOver(f, d) \in Int
  BY <1>3, <1>4, SumIsInt
<1>12. QED
  BY <1>3, <1>5, <1>9, <1>10, <1>11

(* Of two functions that agree. *)
LEMMA SumsEqual ==
  ASSUME NEW f, NEW g, NEW S, IsFiniteSet(S), \A x \in S : f[x] = g[x]
  PROVE  SumOver(f, S) = SumOver(g, S)
<1>1. IsFold(f, FoldOf(f, S), S) /\ IsFold(g, FoldOf(g, S), S)
  BY SumExists
<1>2. ASSUME NEW s \in SUBSET S
      PROVE  SumStep(g, FoldOf(g, S), s) = SumStep(f, FoldOf(g, S), s)
  BY PicksOne DEF SumStep
<1>3. IsFold(f, FoldOf(g, S), S)
  BY <1>1, <1>2 DEF IsFold
<1>4. QED
  BY <1>1, <1>3, SumsAgree DEF SumOver

(* One of the summands changes. *)
LEMMA SumChanges ==
  ASSUME NEW f, NEW g, NEW S, IsFiniteSet(S), NEW y \in S,
         \A x \in S : f[x] \in Int /\ g[x] \in Int, \A x \in S \ {y} : f[x] = g[x]
  PROVE  SumOver(g, S) - SumOver(f, S) = g[y] - f[y]
<1>1. IsFiniteSet(S \ {y})
  BY FS_Subset
<1>2. SumOver(f, S \ {y}) = SumOver(g, S \ {y}) /\ SumOver(f, S \ {y}) \in Int
  BY <1>1, SumsEqual, SumIsInt
<1>3. SumOver(f, S) = f[y] + SumOver(f, S \ {y}) /\ SumOver(g, S) = g[y] + SumOver(g, S \ {y})
  BY SumTakes
<1>4. QED
  BY <1>2, <1>3

LEMMA SumOfZeroes ==
  ASSUME NEW f, NEW S, IsFiniteSet(S), \A x \in S : f[x] = 0
  PROVE  SumOver(f, S) = 0
<1> DEFINE Bad == {s \in SUBSET S : SumOver(f, s) # 0}
<1>1. SUFFICES ASSUME Bad # {} PROVE FALSE
  OBVIOUS
<1>2. PICK s \in Bad : \A t \in Bad : ~(t \subseteq s /\ t # s)
  <2>1. Bad \subseteq SUBSET S
    OBVIOUS
  <2> HIDE DEF Bad
  <2>2. QED
    BY <1>1, <2>1, SmallestSubset
<1>3. IsFiniteSet(s)
  BY FS_Subset
<1>4. s # {}
  BY <1>2, <1>3, SumUnfolds
<1>5. Some(s) \in s
  BY <1>4, PicksOne
<1>6. SumOver(f, s \ {Some(s)}) = 0
  BY <1>2, <1>5
<1>7. SumOver(f, s) = f[Some(s)] + SumOver(f, s \ {Some(s)})
  BY <1>3, <1>4, SumUnfolds
<1>8. QED
  BY <1>2, <1>5, <1>6, <1>7

(* A sum of parts none of which is below its bound is not below theirs.     *)
LEMMA SumIsMonotone ==
  ASSUME NEW f, NEW g, NEW S, IsFiniteSet(S),
         \A x \in S : f[x] \in Int /\ g[x] \in Int /\ f[x] <= g[x]
  PROVE  SumOver(f, S) <= SumOver(g, S)
<1> DEFINE Bad == {s \in SUBSET S : ~(SumOver(f, s) <= SumOver(g, s))}
<1>1. SUFFICES ASSUME Bad # {} PROVE FALSE
  OBVIOUS
<1>2. PICK s \in Bad : \A t \in Bad : ~(t \subseteq s /\ t # s)
  <2>1. Bad \subseteq SUBSET S
    OBVIOUS
  <2> HIDE DEF Bad
  <2>2. QED
    BY <1>1, <2>1, SmallestSubset
<1>3. IsFiniteSet(s)
  BY FS_Subset
<1>4. s # {}
  <2>1. s = {} => SumOver(f, s) = 0
    BY <1>3, SumUnfolds
  <2>2. s = {} => SumOver(g, s) = 0
    BY <1>3, SumUnfolds
  <2>3. QED
    BY <1>2, <2>1, <2>2
<1>5. Some(s) \in s
  BY <1>4, PicksOne
<1> DEFINE rest == s \ {Some(s)}
<1>6. rest \in SUBSET S /\ rest \notin Bad /\ IsFiniteSet(rest)
  BY <1>2, <1>3, <1>5, FS_Subset
<1>7. SumOver(f, rest) <= SumOver(g, rest)
  BY <1>6
<1>8. /\ SumOver(f, s) = f[Some(s)] + SumOver(f, rest)
      /\ SumOver(g, s) = g[Some(s)] + SumOver(g, rest)
  BY <1>3, <1>4, SumUnfolds
<1>9. f[Some(s)] \in Int /\ g[Some(s)] \in Int /\ f[Some(s)] <= g[Some(s)]
  BY <1>2, <1>5
<1>10. SumOver(f, rest) \in Int /\ SumOver(g, rest) \in Int
  BY <1>6, SumIsInt
<1>11. SumOver(f, s) <= SumOver(g, s)
  BY <1>7, <1>8, <1>9, <1>10
<1>12. QED
  BY <1>2, <1>11

LEMMA SumIsNat ==
  ASSUME NEW f, NEW S, IsFiniteSet(S), \A x \in S : f[x] \in Nat
  PROVE  SumOver(f, S) \in Nat
<1> DEFINE zero == [x \in S |-> 0]
<1>1. \A x \in S : zero[x] = 0 /\ zero[x] \in Int /\ f[x] \in Int /\ zero[x] <= f[x]
  OBVIOUS
<1> HIDE DEF zero
<1>2. SumOver(zero, S) = 0 /\ SumOver(zero, S) <= SumOver(f, S) /\ SumOver(f, S) \in Int
  BY <1>1, SumOfZeroes, SumIsMonotone, SumIsInt
<1>3. QED
  BY <1>2

(* No part is more than the whole. *)
LEMMA SumHasPart ==
  ASSUME NEW f, NEW S, IsFiniteSet(S), \A x \in S : f[x] \in Nat, NEW y \in S
  PROVE  f[y] <= SumOver(f, S)
<1>1. IsFiniteSet(S \ {y})
  BY FS_Subset
<1>2. SumOver(f, S) = f[y] + SumOver(f, S \ {y})
  BY SumTakes
<1>3. SumOver(f, S \ {y}) \in Nat
  BY <1>1, SumIsNat
<1>4. f[y] \in Nat
  OBVIOUS
<1>5. QED
  BY <1>2, <1>3, <1>4

LEMMA SumOfOne ==
  ASSUME NEW f, NEW y, f[y] \in Int
  PROVE  SumOver(f, {y}) = f[y]
<1> DEFINE S == {y}
<1>1. IsFiniteSet(S) /\ y \in S /\ \A x \in S : f[x] \in Int
  BY FS_Singleton
<1>2. S \ {y} = {}
  OBVIOUS
<1> HIDE DEF S
<1>3. SumOver(f, S) = f[y] + SumOver(f, S \ {y})
  BY <1>1, SumTakes
<1>4. SumOver(f, {}) = 0
  BY FS_EmptySet, SumUnfolds
<1>5. SumOver(f, S) = f[y]
  BY <1>2, <1>3, <1>4
<1>6. QED
  BY <1>5 DEF S

(* What counts nothing may be left out. *)
LEMMA SumSkips ==
  ASSUME NEW f, NEW T, IsFiniteSet(T), NEW S \in SUBSET T, \A x \in T : f[x] \in Int,
         \A x \in T \ S : f[x] = 0
  PROVE  SumOver(f, T) = SumOver(f, S)
<1> DEFINE Bad == {t \in SUBSET T : S \subseteq t /\ SumOver(f, t) # SumOver(f, S)}
<1>1. SUFFICES ASSUME Bad # {} PROVE FALSE
  OBVIOUS
<1>2. PICK t \in Bad : \A u \in Bad : ~(u \subseteq t /\ u # t)
  <2>1. Bad \subseteq SUBSET T
    OBVIOUS
  <2> HIDE DEF Bad
  <2>2. QED
    BY <1>1, <2>1, SmallestSubset
<1>3. PICK y \in t : y \notin S
  BY <1>2
<1> DEFINE rest == t \ {y}
<1>4. rest \in SUBSET T /\ S \subseteq rest /\ rest \notin Bad
  BY <1>2, <1>3
<1>5. SumOver(f, rest) = SumOver(f, S)
  BY <1>4
<1>6. IsFiniteSet(t) /\ IsFiniteSet(rest) /\ \A x \in t : f[x] \in Int
  BY <1>2, FS_Subset
<1>7. SumOver(f, t) = f[y] + SumOver(f, rest) /\ f[y] = 0
  BY <1>2, <1>3, <1>6, SumTakes
<1>8. SumOver(f, rest) \in Int
  BY <1>6, SumIsInt
<1>9. SumOver(f, t) = SumOver(f, S)
  BY <1>5, <1>7, <1>8
<1>10. QED
  BY <1>2, <1>9
=============================================================================
