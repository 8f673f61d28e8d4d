----------------------------- MODULE SumLemmas -----------------------------
(***************************************************************************)
(* What SumFunctionOnSet of the community module Functions computes.       *)
(*                                                                         *)
(* It is a fold, a function defined by recursion over the subsets of its   *)
(* argument.  That there is such a function, and that it does not depend   *)
(* on the order in which the elements are taken, is shown by induction     *)
(* over finite sets, in the form of a minimal counterexample: a set of     *)
(* subsets that has every set all of whose strict subsets it has is the    *)
(* set of all subsets.                                                     *)
(***************************************************************************)
EXTENDS Integers, Functions, FiniteSetTheorems, TLAPS

\* The element the fold takes first.
Pick(s) == CHOOSE x \in s : TRUE

\* g is a partial sum of f for every subset of T.
Summed(f, T, g) ==
    g = [s \in SUBSET T |-> IF s = {} THEN 0 ELSE f[Pick(s)] + g[s \ {Pick(s)}]]

LEMMA PickInside ==
    ASSUME NEW s, s # {}
    PROVE  Pick(s) \in s /\ s \ {Pick(s)} \subseteq s /\ s \ {Pick(s)} # s
<1>1. \E x : x \in s
  OBVIOUS
<1>2. Pick(s) \in s
  BY <1>1 DEF Pick
<1> QED
  BY <1>2

\* Induction over the subsets of a finite set.
LEMMA SubsetInduction ==
    ASSUME NEW S, IsFiniteSet(S), NEW P, P \subseteq SUBSET S,
           \A s \in SUBSET S :
              (\A t \in SUBSET s : t # s => t \in P) => s \in P
    PROVE  P = SUBSET S
<1> SUFFICES ASSUME P # SUBSET S PROVE FALSE
  OBVIOUS
<1> DEFINE T == (SUBSET S) \ P
<1>1. IsWellFoundedOn(StrictSubsetOrdering(S), SUBSET S)
  <2>1. IsWellFoundedOn(StrictSubsetOrdering(S), FiniteSubsetsOf(S))
    BY FS_StrictSubsetOrderingWellFounded
  <2>2. FiniteSubsetsOf(S) = SUBSET S
    BY FS_FiniteSubsetsOfFinite
  <2> QED
    BY <2>1, <2>2, Zenon
<1>2. T \subseteq SUBSET S /\ T # {}
  OBVIOUS
<1>3. PICK s \in T : \A t \in T : <<t, s>> \notin StrictSubsetOrdering(S)
  <2> HIDE DEF T
  <2> QED
    BY <1>1, <1>2, WFMin
<1>4. \A t \in SUBSET s : t # s => t \in P
  <2> SUFFICES ASSUME NEW t \in SUBSET s, t # s, t \notin P PROVE FALSE
    OBVIOUS
  <2>1. t \in T /\ s \in SUBSET S /\ t \in SUBSET S
    OBVIOUS
  <2>2. <<t, s>> \in StrictSubsetOrdering(S)
    BY <2>1 DEF StrictSubsetOrdering
  <2> QED
    BY <1>3, <2>1, <2>2
<1> QED
  BY <1>3, <1>4

LEMMA SummedAt ==
    ASSUME NEW f, NEW T, NEW g, Summed(f, T, g), NEW s \in SUBSET T
    PROVE  g[s] = IF s = {} THEN 0 ELSE f[Pick(s)] + g[s \ {Pick(s)}]
<1> DEFINE h == [r \in SUBSET T |-> IF r = {} THEN 0 ELSE f[Pick(r)] + g[r \ {Pick(r)}]]
<1>1. h[s] = IF s = {} THEN 0 ELSE f[Pick(s)] + g[s \ {Pick(s)}]
  OBVIOUS
<1>2. g = h
  BY DEF Summed
<1> HIDE DEF h
<1> QED
  BY <1>1, <1>2

LEMMA SummedUnique ==
    ASSUME NEW f, NEW T, IsFiniteSet(T), NEW g, NEW h, Summed(f, T, g), Summed(f, T, h)
    PROVE  g = h
<1> DEFINE P == {s \in SUBSET T : g[s] = h[s]}
<1>1. ASSUME NEW s \in SUBSET T, \A t \in SUBSET s : t # s => t \in P
      PROVE  s \in P
  <2>1. CASE s = {}
    BY <2>1, SummedAt
  <2>2. CASE s # {}
    <3>1. g[s \ {Pick(s)}] = h[s \ {Pick(s)}]
      BY <1>1, <2>2, PickInside
    <3> QED
      BY <2>2, <3>1, SummedAt
  <2> QED
    BY <2>1, <2>2
<1>2. P = SUBSET T
  <2> HIDE DEF P
  <2>1. P \subseteq SUBSET T
    BY DEF P
  <2> QED
    BY <1>1, <2>1, SubsetInduction
<1>3. \A s \in SUBSET T : g[s] = h[s]
  BY <1>2
<1>4. g = [s \in SUBSET T |-> g[s]] /\ h = [s \in SUBSET T |-> h[s]]
  BY DEF Summed
<1> QED
  BY <1>3, <1>4

\* A partial sum restricted to fewer sets is one.
LEMMA SummedRestricts ==
    ASSUME NEW f, NEW T, NEW g, Summed(f, T, g), NEW U \in SUBSET T
    PROVE  Summed(f, U, [s \in SUBSET U |-> g[s]])
<1> DEFINE h == [s \in SUBSET U |-> g[s]]
<1>1. ASSUME NEW s \in SUBSET U
      PROVE  h[s] = IF s = {} THEN 0 ELSE f[Pick(s)] + h[s \ {Pick(s)}]
  <2>1. s \in SUBSET T /\ s \ {Pick(s)} \in SUBSET U
    OBVIOUS
  <2> QED
    BY <2>1, SummedAt
<1>2. h = [s \in SUBSET U |-> IF s = {} THEN 0 ELSE f[Pick(s)] + h[s \ {Pick(s)}]]
  BY <1>1
<1> QED
  BY <1>2 DEF Summed

\* Every finite set has its partial sums.
LEMMA SummedExists ==
    ASSUME NEW f, NEW T, IsFiniteSet(T)
    PROVE  \E g : Summed(f, T, g)
<1> DEFINE P == {s \in SUBSET T : \E g : Summed(f, s, g)}
           sol(t) == CHOOSE g : Summed(f, t, g)
<1>1. ASSUME NEW s \in SUBSET T, \A t \in SUBSET s : t # s => t \in P
      PROVE  s \in P
  <2> DEFINE rest(t) == t \ {Pick(t)}
             G == [t \in SUBSET s |-> IF t = {} THEN 0 ELSE f[Pick(t)] + sol(rest(t))[rest(t)]]
  <2>1. \A t \in SUBSET s : t # s => Summed(f, t, sol(t))
    BY <1>1
  <2>2. \A t \in SUBSET s : IsFiniteSet(t)
    BY FS_Subset
  <2>3. ASSUME NEW u \in SUBSET s, u # s
        PROVE  G[u] = sol(u)[u]
    <3>1. Summed(f, u, sol(u))
      BY <2>1, <2>3
    <3>2. CASE u = {}
      BY <3>1, <3>2, SummedAt
    <3>3. CASE u # {}
      <4> DEFINE q == rest(u)
                 k == [r \in SUBSET q |-> sol(u)[r]]
      <4>1. q \in SUBSET u /\ q \in SUBSET s /\ q # s
        BY <2>3, <3>3, PickInside
      <4>2. Summed(f, q, k)
        BY <3>1, <4>1, SummedRestricts
      <4>3. Summed(f, q, sol(q)) /\ IsFiniteSet(q)
        BY <2>1, <2>2, <4>1
      <4>4. k = sol(q)
        BY <4>2, <4>3, SummedUnique
      <4>5. k[q] = sol(u)[q]
        OBVIOUS
      <4>6. sol(u)[u] = f[Pick(u)] + sol(u)[q]
        BY <3>1, <3>3, SummedAt
      <4>7. G[u] = f[Pick(u)] + sol(q)[q]
        BY <3>3
      <4> QED
        BY <4>4, <4>5, <4>6, <4>7
    <3> QED
      BY <3>2, <3>3
  <2>4. ASSUME NEW t \in SUBSET s
        PROVE  G[t] = IF t = {} THEN 0 ELSE f[Pick(t)] + G[rest(t)]
    <3>1. CASE t = {}
      BY <3>1
    <3>2. CASE t # {}
      <4>1. rest(t) \in SUBSET s /\ rest(t) # s
        BY <3>2, PickInside
      <4>2. G[rest(t)] = sol(rest(t))[rest(t)]
        BY <2>3, <4>1
      <4> QED
        BY <3>2, <4>2
    <3> QED
      BY <3>1, <3>2
  <2>5. G = [t \in SUBSET s |-> IF t = {} THEN 0 ELSE f[Pick(t)] + G[rest(t)]]
    <3>1. G = [t \in SUBSET s |-> G[t]]
      OBVIOUS
    <3> HIDE DEF G, rest
    <3> QED
      BY <2>4, <3>1
  <2>6. Summed(f, s, G)
    BY <2>5 DEF Summed
  <2> QED
    BY <2>6
<1>2. P = SUBSET T
  <2> HIDE DEF P
  <2>1. P \subseteq SUBSET T
    BY DEF P
  <2> QED
    BY <1>1, <2>1, SubsetInduction
<1> QED
  BY <1>2

\* The fold is the value of the partial sums at the whole set.
LEMMA SumIsSummed ==
    ASSUME NEW f, NEW S
    PROVE  SumFunctionOnSet(f, S) = (CHOOSE g : Summed(f, S, g))[S]
BY DEF SumFunctionOnSet, FoldFunctionOnSet, MapThenFoldSet, Summed, Pick

LEMMA SumOfSummed ==
    ASSUME NEW f, NEW S, IsFiniteSet(S), NEW g, Summed(f, S, g)
    PROVE  SumFunctionOnSet(f, S) = g[S]
<1>1. Summed(f, S, CHOOSE h : Summed(f, S, h))
  OBVIOUS
<1>2. (CHOOSE h : Summed(f, S, h)) = g
  BY <1>1, SummedUnique
<1> QED
  BY <1>2, SumIsSummed

\* The recursion of the fold.
LEMMA SumUnfolds ==
    ASSUME NEW f, NEW S, IsFiniteSet(S)
    PROVE  SumFunctionOnSet(f, S) =
              IF S = {} THEN 0 ELSE f[Pick(S)] + SumFunctionOnSet(f, S \ {Pick(S)})
<1>1. PICK g : Summed(f, S, g)
  BY SummedExists
<1>2. SumFunctionOnSet(f, S) = g[S]
  BY <1>1, SumOfSummed
<1>3. CASE S = {}
  BY <1>1, <1>2, <1>3, SummedAt
<1>4. CASE S # {}
  <2> DEFINE U == S \ {Pick(S)}
             h == [s \in SUBSET U |-> g[s]]
  <2>1. U \in SUBSET S /\ IsFiniteSet(U)
    BY FS_Subset
  <2>2. Summed(f, U, h)
    BY <1>1, <2>1, SummedRestricts
  <2>3. SumFunctionOnSet(f, U) = h[U]
    BY <2>1, <2>2, SumOfSummed
  <2>4. h[U] = g[U]
    OBVIOUS
  <2>5. g[S] = f[Pick(S)] + g[U]
    BY <1>1, <1>4, SummedAt
  <2> QED
    BY <1>2, <1>4, <2>3, <2>4, <2>5
<1> QED
  BY <1>3, <1>4

-----------------------------------------------------------------------------
(* The sum of integers *)

LEMMA SumType ==
    ASSUME NEW D, NEW f \in [D -> Int], NEW S \in SUBSET D, IsFiniteSet(S)
    PROVE  SumFunctionOnSet(f, S) \in Int
<1> DEFINE P == {s \in SUBSET S : SumFunctionOnSet(f, s) \in Int}
<1>1. ASSUME NEW s \in SUBSET S, \A t \in SUBSET s : t # s => t \in P
      PROVE  s \in P
  <2>0. IsFiniteSet(s)
    BY FS_Subset
  <2>1. CASE s = {}
    BY <2>0, <2>1, SumUnfolds
  <2>2. CASE s # {}
    <3>1. Pick(s) \in D /\ s \ {Pick(s)} \in P
      BY <1>1, <2>2, PickInside
    <3>2. f[Pick(s)] \in Int /\ SumFunctionOnSet(f, s \ {Pick(s)}) \in Int
      BY <3>1
    <3> QED
      BY <2>0, <2>2, <3>2, SumUnfolds
  <2> QED
    BY <2>1, <2>2
<1>2. P = SUBSET S
  <2> HIDE DEF P
  <2>1. P \subseteq SUBSET S
    BY DEF P
  <2> QED
    BY <1>1, <2>1, SubsetInduction
<1> QED
  BY <1>2

\* Functions that agree on a set have the same sum over it.
LEMMA SumSame ==
    ASSUME NEW f, NEW g, NEW S, IsFiniteSet(S), \A x \in S : f[x] = g[x]
    PROVE  SumFunctionOnSet(f, S) = SumFunctionOnSet(g, S)
<1> DEFINE P == {s \in SUBSET S : SumFunctionOnSet(f, s) = SumFunctionOnSet(g, s)}
<1>1. ASSUME NEW s \in SUBSET S, \A t \in SUBSET s : t # s => t \in P
      PROVE  s \in P
  <2>0. IsFiniteSet(s)
    BY FS_Subset
  <2>1. CASE s = {}
    BY <2>0, <2>1, SumUnfolds
  <2>2. CASE s # {}
    <3>1. Pick(s) \in S /\ s \ {Pick(s)} \in P
      BY <1>1, <2>2, PickInside
    <3> QED
      BY <2>0, <2>2, <3>1, SumUnfolds
  <2> QED
    BY <2>1, <2>2
<1>2. P = SUBSET S
  <2> HIDE DEF P
  <2>1. P \subseteq SUBSET S
    BY DEF P
  <2> QED
    BY <1>1, <2>1, SubsetInduction
<1> QED
  BY <1>2

\* The order of the terms does not matter: any element may come first.
LEMMA SumTakesAny ==
    ASSUME NEW D, NEW f \in [D -> Int], NEW S \in SUBSET D, IsFiniteSet(S), NEW x \in S
    PROVE  SumFunctionOnSet(f, S) = f[x] + SumFunctionOnSet(f, S \ {x})
<1> DEFINE P == {s \in SUBSET S :
                   \A y \in s : SumFunctionOnSet(f, s) = f[y] + SumFunctionOnSet(f, s \ {y})}
<1>1. ASSUME NEW s \in SUBSET S, \A t \in SUBSET s : t # s => t \in P
      PROVE  s \in P
  <2> SUFFICES ASSUME NEW y \in s
               PROVE  SumFunctionOnSet(f, s) = f[y] + SumFunctionOnSet(f, s \ {y})
    OBVIOUS
  <2> DEFINE p == Pick(s)
             r == (s \ {p}) \ {y}
  <2>0. IsFiniteSet(s) /\ p \in s
    BY FS_Subset, PickInside
  <2>1. SumFunctionOnSet(f, s) = f[p] + SumFunctionOnSet(f, s \ {p})
    BY <2>0, SumUnfolds
  <2>2. CASE y = p
    BY <2>1, <2>2
  <2>3. CASE y # p
    <3>1. s \ {p} \in P /\ y \in s \ {p} /\ s \ {y} \in P /\ p \in s \ {y}
      BY <1>1, <2>0, <2>3
    <3>2. SumFunctionOnSet(f, s \ {p}) = f[y] + SumFunctionOnSet(f, r)
      BY <3>1
    <3>3. (s \ {y}) \ {p} = r
      OBVIOUS
    <3>4. SumFunctionOnSet(f, s \ {y}) = f[p] + SumFunctionOnSet(f, r)
      BY <3>1, <3>3
    <3>5. IsFiniteSet(r) /\ r \in SUBSET D
      BY <2>0, FS_Subset
    <3>6. SumFunctionOnSet(f, r) \in Int /\ f[p] \in Int /\ f[y] \in Int
      BY <2>0, <3>5, SumType
    <3> HIDE DEF p, r, P
    <3> QED
      BY <2>1, <3>2, <3>4, <3>6
  <2> QED
    BY <2>2, <2>3
<1>2. P = SUBSET S
  <2> HIDE DEF P
  <2>1. P \subseteq SUBSET S
    BY DEF P
  <2> QED
    BY <1>1, <2>1, SubsetInduction
<1> QED
  BY <1>2

\* A sum of zeros.
LEMMA SumOfZeros ==
    ASSUME NEW f, NEW S, IsFiniteSet(S), \A x \in S : f[x] = 0
    PROVE  SumFunctionOnSet(f, S) = 0
<1> DEFINE P == {s \in SUBSET S : SumFunctionOnSet(f, s) = 0}
<1>1. ASSUME NEW s \in SUBSET S, \A t \in SUBSET s : t # s => t \in P
      PROVE  s \in P
  <2>0. IsFiniteSet(s)
    BY FS_Subset
  <2>1. CASE s = {}
    BY <2>0, <2>1, SumUnfolds
  <2>2. CASE s # {}
    <3>1. Pick(s) \in S /\ s \ {Pick(s)} \in P
      BY <1>1, <2>2, PickInside
    <3> QED
      BY <2>0, <2>2, <3>1, SumUnfolds
  <2> QED
    BY <2>1, <2>2
<1>2. P = SUBSET S
  <2> HIDE DEF P
  <2>1. P \subseteq SUBSET S
    BY DEF P
  <2> QED
    BY <1>1, <2>1, SubsetInduction
<1> QED
  BY <1>2

\* A sum changes by what one of its terms changes.
LEMMA SumChange ==
    ASSUME NEW S, IsFiniteSet(S), NEW f \in [S -> Int], NEW g \in [S -> Int], NEW x \in S,
           \A y \in S \ {x} : g[y] = f[y]
    PROVE  SumFunctionOnSet(g, S) = SumFunctionOnSet(f, S) + (g[x] - f[x])
<1> DEFINE T == S \ {x}
<1>1. /\ SumFunctionOnSet(f, S) = f[x] + SumFunctionOnSet(f, T)
      /\ SumFunctionOnSet(g, S) = g[x] + SumFunctionOnSet(g, T)
  BY SumTakesAny
<1>2. IsFiniteSet(T)
  BY FS_Subset
<1>3. SumFunctionOnSet(f, T) = SumFunctionOnSet(g, T)
  BY <1>2, SumSame
<1>4. SumFunctionOnSet(f, T) \in Int /\ f[x] \in Int /\ g[x] \in Int
  BY <1>2, SumType
<1> HIDE DEF T
<1> QED
  BY <1>1, <1>3, <1>4

=============================================================================
