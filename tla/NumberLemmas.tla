---------------------------- MODULE NumberLemmas ----------------------------
(***************************************************************************)
(* Sums of a function over a finite set, which the library folds by taking *)
(* elements away one by one, and quotients: what the proofs about refunds, *)
(* scores and ranges of addresses need of numbers.                         *)
(***************************************************************************)
EXTENDS Functions, FiniteSetTheorems, WellFoundedInduction, TLAPS

SumOver(f, S) == SumFunctionOnSet(f, S)

\* The element taken first.
Pick(s) == CHOOSE x \in s : TRUE
\* g is the sum of f over every subset of S, and Adder(f, S) such a function.
Adds(f, S, g) == g = [s \in SUBSET S |-> IF s = {} THEN 0 ELSE f[Pick(s)] + g[s \ {Pick(s)}]]
Adder(f, S) == CHOOSE g : Adds(f, S, g)

LEMMA Unfold == ASSUME NEW f, NEW S PROVE SumOver(f, S) = Adder(f, S)[S]
BY DEF SumOver, SumFunctionOnSet, FoldFunctionOnSet, MapThenFoldSet, Adder, Adds, Pick

LEMMA PickIn == ASSUME NEW s, s # {} PROVE Pick(s) \in s
BY DEF Pick

(* Among sets of subsets of a finite set there is always one that has     *)
(* none of the others within it.                                           *)
LEMMA LeastSet ==
  ASSUME NEW S, IsFiniteSet(S), NEW T, T \subseteq SUBSET S, T # {}
  PROVE  \E x \in T : \A y \in T : y \subseteq x => y = x
<1>1. FiniteSubsetsOf(S) = SUBSET S
  BY FS_FiniteSubsetsOfFinite
<1>2. IsWellFoundedOn(StrictSubsetOrdering(S), SUBSET S)
  BY <1>1, FS_StrictSubsetOrderingWellFounded
<1>3. PICK x \in T : \A y \in T : ~(<<y, x>> \in StrictSubsetOrdering(S))
  BY <1>2, WFMin
<1>4. ASSUME NEW y \in T, y \subseteq x, y # x
      PROVE  FALSE
  <2>1. <<y, x>> \in (SUBSET S) \X (SUBSET S) /\ <<y, x>>[1] = y /\ <<y, x>>[2] = x
    OBVIOUS
  <2>2. <<y, x>> \in StrictSubsetOrdering(S)
    BY <1>4, <2>1 DEF StrictSubsetOrdering
  <2>3. QED
    BY <1>3, <2>2
<1>5. QED
  BY <1>4

LEMMA AddsAt ==
  ASSUME NEW f, NEW S, NEW g, Adds(f, S, g)
  PROVE  /\ g[{}] = 0
         /\ \A s \in SUBSET S : s # {} =>
               g[s] = f[Pick(s)] + g[s \ {Pick(s)}] /\ Pick(s) \in s
<1>1. g = [s \in SUBSET S |-> IF s = {} THEN 0 ELSE f[Pick(s)] + g[s \ {Pick(s)}]]
  BY DEF Adds
<1>2. {} \in SUBSET S
  OBVIOUS
<1>3. QED
  BY <1>1, <1>2, PickIn

\* On what both add up they agree.
LEMMA Agree ==
  ASSUME NEW f, NEW S, IsFiniteSet(S), NEW U, U \subseteq S, NEW g, Adds(f, S, g), NEW h, Adds(f, U, h)
  PROVE  \A s \in SUBSET U : g[s] = h[s]
<1> DEFINE T == {s \in SUBSET U : g[s] # h[s]}
<1>1. SUFFICES ASSUME T # {} PROVE FALSE
  OBVIOUS
<1>2. PICK s \in T : \A y \in T : y \subseteq s => y = s
  <2>1. T \subseteq SUBSET S
    OBVIOUS
  <2> HIDE DEF T
  <2>2. QED
    BY <1>1, <2>1, LeastSet
<1>3. s \in SUBSET U /\ s \in SUBSET S /\ g[s] # h[s]
  OBVIOUS
<1>4. s # {}
  BY <1>3, AddsAt
<1>5. Pick(s) \in s
  BY <1>4, PickIn
<1> DEFINE t == s \ {Pick(s)}
<1>6. t \in SUBSET U /\ t \subseteq s /\ t # s
  BY <1>3, <1>5
<1>7. g[t] = h[t]
  BY <1>2, <1>6
<1>8. g[s] = f[Pick(s)] + g[t] /\ h[s] = f[Pick(s)] + h[t]
  BY <1>3, <1>4, AddsAt
<1>9. QED
  BY <1>3, <1>7, <1>8

LEMMA AddersExist ==
  ASSUME NEW f, NEW S, IsFiniteSet(S)
  PROVE  Adds(f, S, Adder(f, S))
<1> DEFINE T == {U \in SUBSET S : ~\E g : Adds(f, U, g)}
<1>1. ASSUME T # {} PROVE FALSE
  <2>1. PICK U \in T : \A y \in T : y \subseteq U => y = U
    <3>1. T \subseteq SUBSET S
      OBVIOUS
    <3> HIDE DEF T
    <3>2. QED
      BY <1>1, <3>1, LeastSet
  <2>2. U \subseteq S /\ IsFiniteSet(U) /\ ~\E g : Adds(f, U, g)
    BY FS_Subset
  <2>3. ASSUME NEW V, V \subseteq U, V # U
        PROVE  Adds(f, V, Adder(f, V)) /\ IsFiniteSet(V)
    <3>1. \E g : Adds(f, V, g)
      BY <2>1, <2>2, <2>3
    <3>2. QED
      BY <2>2, <2>3, <3>1, FS_Subset DEF Adder
  <2> DEFINE rest(s) == s \ {Pick(s)}
             g == [s \in SUBSET U |-> IF s = {} THEN 0
                                      ELSE f[Pick(s)] + Adder(f, rest(s))[rest(s)]]
  <2>4. ASSUME NEW s \in SUBSET U, s # {}
        PROVE  g[rest(s)] = Adder(f, rest(s))[rest(s)]
    <3> DEFINE t == rest(s)
    <3>1. t \subseteq U /\ t # U
      BY <2>4, PickIn
    <3>2. Adds(f, t, Adder(f, t)) /\ IsFiniteSet(t)
      BY <2>3, <3>1
    <3>3. CASE t = {}
      <4>1. g[t] = 0
        BY <3>1, <3>3
      <4>2. Adder(f, t)[t] = 0
        BY <3>2, <3>3, AddsAt
      <4>3. QED
        BY <4>1, <4>2
    <3>4. CASE t # {}
      <4> DEFINE v == rest(t)
      <4>1. v \subseteq t /\ v \subseteq U /\ v # U
        BY <3>1, <3>4, PickIn
      <4>2. Adds(f, v, Adder(f, v))
        BY <2>3, <4>1
      <4>3. Adder(f, t)[v] = Adder(f, v)[v]
        <5>1. v \in SUBSET v
          OBVIOUS
        <5> HIDE DEF t, v
        <5>2. QED
          BY <3>2, <4>1, <4>2, <5>1, Agree
      <4>4. Adder(f, t)[t] = f[Pick(t)] + Adder(f, t)[v]
        <5>1. t \in SUBSET t
          OBVIOUS
        <5> HIDE DEF t
        <5>2. QED
          BY <3>2, <3>4, <5>1, AddsAt
      <4>5. g[t] = f[Pick(t)] + Adder(f, v)[v]
        BY <3>1, <3>4
      <4>6. QED
        BY <4>3, <4>4, <4>5
    <3>5. QED
      BY <3>3, <3>4
  <2>5. g = [s \in SUBSET U |-> IF s = {} THEN 0 ELSE f[Pick(s)] + g[rest(s)]]
    <3>1. \A s \in SUBSET U : s # {} => g[rest(s)] = Adder(f, rest(s))[rest(s)]
      BY <2>4
    <3>2. \A s \in SUBSET U : (IF s = {} THEN 0 ELSE f[Pick(s)] + Adder(f, rest(s))[rest(s)])
                               = (IF s = {} THEN 0 ELSE f[Pick(s)] + g[rest(s)])
      BY <3>1
    <3>3. QED
      BY <3>2
  <2>6. Adds(f, U, g)
    BY <2>5 DEF Adds
  <2>7. QED
    BY <2>2, <2>6
<1>2. S \notin T
  BY <1>1
<1>3. QED
  BY <1>2 DEF Adder

\* A sum is one of its terms and the sum of the others.
LEMMA SumIs ==
  ASSUME NEW f, NEW S, IsFiniteSet(S)
  PROVE  /\ S = {} => SumOver(f, S) = 0
         /\ S # {} => /\ Pick(S) \in S
                      /\ SumOver(f, S) = f[Pick(S)] + SumOver(f, S \ {Pick(S)})
<1>1. Adds(f, S, Adder(f, S)) /\ SumOver(f, S) = Adder(f, S)[S]
  BY AddersExist, Unfold
<1>2. ASSUME S # {}
      PROVE  Pick(S) \in S /\ SumOver(f, S) = f[Pick(S)] + SumOver(f, S \ {Pick(S)})
  <2> DEFINE t == S \ {Pick(S)}
  <2>1. t \subseteq S /\ IsFiniteSet(t)
    BY FS_Subset
  <2>2. Adds(f, t, Adder(f, t)) /\ SumOver(f, t) = Adder(f, t)[t]
    BY <2>1, AddersExist, Unfold
  <2>3. Adder(f, S)[t] = Adder(f, t)[t]
    BY <1>1, <2>1, <2>2, Agree
  <2>4. Adder(f, S)[S] = f[Pick(S)] + Adder(f, S)[t] /\ Pick(S) \in S
    BY <1>1, <1>2, AddsAt
  <2>5. QED
    BY <1>1, <2>2, <2>3, <2>4
<1>3. QED
  BY <1>1, <1>2, AddsAt

(* Numbers that can be added up have a sum of their kind.                 *)
LEMMA SumIsIn ==
  ASSUME NEW f, NEW S, IsFiniteSet(S),
         NEW N, 0 \in N, \A m, n \in N : m + n \in N, \A x \in S : f[x] \in N
  PROVE  SumOver(f, S) \in N
<1> DEFINE T == {U \in SUBSET S : SumOver(f, U) \notin N}
<1>1. ASSUME T # {} PROVE FALSE
  <2>1. PICK U \in T : \A y \in T : y \subseteq U => y = U
    <3>1. T \subseteq SUBSET S
      OBVIOUS
    <3> HIDE DEF T
    <3>2. QED
      BY <1>1, <3>1, LeastSet
  <2>2. U \subseteq S /\ IsFiniteSet(U) /\ SumOver(f, U) \notin N
    BY FS_Subset
  <2>3. ASSUME U = {} PROVE FALSE
    <3>1. SumOver(f, U) = 0
      BY <2>2, <2>3, SumIs
    <3>2. QED
      BY <2>2, <3>1
  <2>4. Pick(U) \in U /\ SumOver(f, U) = f[Pick(U)] + SumOver(f, U \ {Pick(U)})
    BY <2>2, <2>3, SumIs
  <2>5. SumOver(f, U \ {Pick(U)}) \in N
    BY <2>1, <2>2, <2>4
  <2>6. f[Pick(U)] \in N
    BY <2>2, <2>4
  <2>7. QED
    BY <2>2, <2>4, <2>5, <2>6
<1>2. QED
  BY <1>1

LEMMA SumIsNatural ==
  ASSUME NEW f, NEW S, IsFiniteSet(S), \A x \in S : f[x] \in Nat
  PROVE  SumOver(f, S) \in Nat
<1>1. 0 \in Nat /\ \A m, n \in Nat : m + n \in Nat
  OBVIOUS
<1>2. QED
  BY <1>1, SumIsIn

LEMMA SumIsInteger ==
  ASSUME NEW f, NEW S, IsFiniteSet(S), \A x \in S : f[x] \in Int
  PROVE  SumOver(f, S) \in Int
<1>1. 0 \in Int /\ \A m, n \in Int : m + n \in Int
  OBVIOUS
<1>2. QED
  BY <1>1, SumIsIn

(* The order does not matter: any term may be taken out first.             *)
LEMMA SumWithout ==
  ASSUME NEW f, NEW S, IsFiniteSet(S), \A x \in S : f[x] \in Int, NEW x \in S
  PROVE  SumOver(f, S) = f[x] + SumOver(f, S \ {x})
<1> DEFINE Bad(U) == \E y \in U : SumOver(f, U) # f[y] + SumOver(f, U \ {y})
           T == {U \in SUBSET S : Bad(U)}
<1>1. ASSUME T # {} PROVE FALSE
  <2>1. PICK U \in T : \A y \in T : y \subseteq U => y = U
    <3>1. T \subseteq SUBSET S
      OBVIOUS
    <3> HIDE DEF T
    <3>2. QED
      BY <1>1, <3>1, LeastSet
  <2>2. U \subseteq S /\ IsFiniteSet(U)
    BY FS_Subset
  <2>3. PICK y \in U : SumOver(f, U) # f[y] + SumOver(f, U \ {y})
    OBVIOUS
  <2> DEFINE p == Pick(U)
  <2>4. p \in U /\ SumOver(f, U) = f[p] + SumOver(f, U \ {p})
    BY <2>2, SumIs
  <2>5. y # p
    BY <2>3, <2>4
  <2> HIDE DEF p
  <2> DEFINE both == U \ {y, p}
  <2>6. ~Bad(U \ {p}) /\ ~Bad(U \ {y})
    <3>1. \A V \in SUBSET U : V # U => ~Bad(V)
      BY <2>1, <2>2
    <3>2. U \ {p} # U /\ U \ {y} # U
      BY <2>4
    <3> HIDE DEF Bad
    <3>3. QED
      BY <3>1, <3>2
  <2>7. y \in U \ {p} /\ p \in U \ {y} /\ (U \ {p}) \ {y} = both /\ (U \ {y}) \ {p} = both
    BY <2>4, <2>5
  <2>8. SumOver(f, U \ {p}) = f[y] + SumOver(f, both) /\ SumOver(f, U \ {y}) = f[p] + SumOver(f, both)
    BY <2>6, <2>7
  <2>9. /\ f[y] \in Int /\ f[p] \in Int /\ SumOver(f, both) \in Int
    <3>1. both \subseteq S /\ IsFiniteSet(both)
      BY <2>2, FS_Subset
    <3>2. QED
      BY <2>2, <2>4, <3>1, SumIsInteger
  <2> HIDE DEF both
  <2>10. QED
    BY <2>3, <2>4, <2>8, <2>9
<1>2. ~Bad(S)
  BY <1>1
<1>3. QED
  BY <1>2
(* Smaller terms, no larger a sum.                                        *)
LEMMA SumMonotone ==
  ASSUME NEW f, NEW g, NEW S, IsFiniteSet(S),
         \A x \in S : f[x] \in Int /\ g[x] \in Int /\ f[x] <= g[x]
  PROVE  SumOver(f, S) <= SumOver(g, S)
<1> DEFINE T == {U \in SUBSET S : ~(SumOver(f, U) <= SumOver(g, U))}
<1>1. ASSUME T # {} PROVE FALSE
  <2>1. PICK U \in T : \A y \in T : y \subseteq U => y = U
    <3>1. T \subseteq SUBSET S
      OBVIOUS
    <3> HIDE DEF T
    <3>2. QED
      BY <1>1, <3>1, LeastSet
  <2>2. U \subseteq S /\ IsFiniteSet(U) /\ ~(SumOver(f, U) <= SumOver(g, U))
    BY FS_Subset
  <2>3. ASSUME U = {} PROVE FALSE
    <3>1. SumOver(f, U) = 0 /\ SumOver(g, U) = 0
      BY <2>2, <2>3, SumIs
    <3>2. QED
      BY <2>2, <3>1
  <2> DEFINE p == Pick(U)
             V == U \ {p}
  <2>4. p \in U /\ SumOver(f, U) = f[p] + SumOver(f, V) /\ SumOver(g, U) = g[p] + SumOver(g, V)
    BY <2>2, <2>3, SumIs
  <2>5. V \subseteq U /\ V # U /\ IsFiniteSet(V)
    BY <2>2, <2>4, FS_Subset
  <2> HIDE DEF p, V
  <2>6. SumOver(f, V) <= SumOver(g, V)
    BY <2>1, <2>2, <2>5
  <2>7. SumOver(f, V) \in Int /\ SumOver(g, V) \in Int
    BY <2>2, <2>5, SumIsInteger
  <2>8. QED
    BY <2>2, <2>4, <2>6, <2>7
<1>2. QED
  BY <1>1

\* Equal terms, equal sums.
LEMMA SumOfEqual ==
  ASSUME NEW f, NEW g, NEW S, IsFiniteSet(S), \A x \in S : f[x] \in Int /\ f[x] = g[x]
  PROVE  SumOver(f, S) = SumOver(g, S)
<1>1. SumOver(f, S) <= SumOver(g, S) /\ SumOver(g, S) <= SumOver(f, S)
  BY SumMonotone
<1>2. SumOver(f, S) \in Int /\ SumOver(g, S) \in Int
  BY SumIsInteger
<1>3. QED
  BY <1>1, <1>2

(* Fewer terms, none of those left out below zero, no larger a sum.        *)
LEMMA SumGrows ==
  ASSUME NEW f, NEW B, IsFiniteSet(B), NEW A, A \subseteq B, \A x \in B : f[x] \in Int,
         \A x \in B \ A : f[x] >= 0
  PROVE  SumOver(f, A) <= SumOver(f, B)
<1> DEFINE T == {U \in SUBSET B : A \subseteq U /\ ~(SumOver(f, A) <= SumOver(f, U))}
<1>0. IsFiniteSet(A) /\ SumOver(f, A) \in Int
  BY FS_Subset, SumIsInteger
<1>1. ASSUME T # {} PROVE FALSE
  <2>1. PICK U \in T : \A y \in T : y \subseteq U => y = U
    <3>1. T \subseteq SUBSET B
      OBVIOUS
    <3> HIDE DEF T
    <3>2. QED
      BY <1>1, <3>1, LeastSet
  <2>2. U \subseteq B /\ A \subseteq U /\ IsFiniteSet(U) /\ ~(SumOver(f, A) <= SumOver(f, U))
    BY FS_Subset
  <2>3. PICK x \in U : x \notin A
    BY <1>0, <2>2
  <2>4. U \ {x} \in SUBSET B /\ A \subseteq U \ {x} /\ U \ {x} # U
    BY <2>2, <2>3
  <2>5. SumOver(f, A) <= SumOver(f, U \ {x})
    BY <2>1, <2>4
  <2>6. SumOver(f, U) = f[x] + SumOver(f, U \ {x}) /\ f[x] \in Int /\ f[x] >= 0
    BY <2>2, <2>3, SumWithout
  <2>7. SumOver(f, U \ {x}) \in Int
    <3>1. IsFiniteSet(U \ {x}) /\ \A y \in U \ {x} : f[y] \in Int
      BY <2>2, FS_Subset
    <3>2. QED
      BY <3>1, SumIsInteger
  <2>8. QED
    BY <1>0, <2>2, <2>5, <2>6, <2>7
<1>2. B \notin T
  BY <1>1
<1>3. QED
  BY <1>2

(* Terms that are zero make no difference.                                 *)
LEMMA SumOfSupport ==
  ASSUME NEW f, NEW B, IsFiniteSet(B), NEW A, A \subseteq B, \A x \in B : f[x] \in Int,
         \A x \in B \ A : f[x] = 0
  PROVE  SumOver(f, A) = SumOver(f, B)
<1> DEFINE T == {U \in SUBSET B : A \subseteq U /\ SumOver(f, A) # SumOver(f, U)}
<1>1. ASSUME T # {} PROVE FALSE
  <2>1. PICK U \in T : \A y \in T : y \subseteq U => y = U
    <3>1. T \subseteq SUBSET B
      OBVIOUS
    <3> HIDE DEF T
    <3>2. QED
      BY <1>1, <3>1, LeastSet
  <2>2. U \subseteq B /\ A \subseteq U /\ IsFiniteSet(U) /\ SumOver(f, A) # SumOver(f, U)
    BY FS_Subset
  <2>3. PICK x \in U : x \notin A
    BY <2>2
  <2>4. U \ {x} \in SUBSET B /\ A \subseteq U \ {x} /\ U \ {x} # U
    BY <2>2, <2>3
  <2>5. SumOver(f, A) = SumOver(f, U \ {x})
    BY <2>1, <2>4
  <2>6. SumOver(f, U) = f[x] + SumOver(f, U \ {x}) /\ f[x] = 0
    BY <2>2, <2>3, SumWithout
  <2>7. SumOver(f, U \ {x}) \in Int
    <3>1. IsFiniteSet(U \ {x}) /\ \A y \in U \ {x} : f[y] \in Int
      BY <2>2, FS_Subset
    <3>2. QED
      BY <3>1, SumIsInteger
  <2>8. QED
    BY <2>2, <2>5, <2>6, <2>7
<1>2. B \notin T
  BY <1>1
<1>3. QED
  BY <1>2

(* One term may shrink if another grows by as much.                        *)
LEMMA SumOfSwap ==
  ASSUME NEW f, NEW g, NEW S, IsFiniteSet(S), NEW x \in S, NEW y \in S, x # y,
         \A z \in S : f[z] \in Int /\ g[z] \in Int,
         \A z \in S \ {x, y} : f[z] <= g[z],
         f[x] + f[y] <= g[x] + g[y]
  PROVE  SumOver(f, S) <= SumOver(g, S)
<1> DEFINE U == S \ {x}
           V == U \ {y}
<1>1. IsFiniteSet(U) /\ IsFiniteSet(V) /\ y \in U /\ U \subseteq S /\ V = S \ {x, y}
  BY FS_Subset
<1> HIDE DEF U
<1>2. SumOver(f, S) = f[x] + SumOver(f, U) /\ SumOver(g, S) = g[x] + SumOver(g, U)
  BY SumWithout DEF U
<1>3. SumOver(f, U) = f[y] + SumOver(f, V) /\ SumOver(g, U) = g[y] + SumOver(g, V)
  BY <1>1, SumWithout
<1> HIDE DEF V
<1>4. SumOver(f, V) <= SumOver(g, V)
  BY <1>1, SumMonotone
<1>5. SumOver(f, V) \in Int /\ SumOver(g, V) \in Int
  BY <1>1, SumIsInteger
<1>6. QED
  BY <1>2, <1>3, <1>4, <1>5

(* Two terms, when none of the others is below zero.                       *)
LEMMA SumAtLeast ==
  ASSUME NEW f, NEW S, IsFiniteSet(S), NEW x \in S, NEW y \in S, x # y,
         \A z \in S : f[z] \in Int, \A z \in S \ {x, y} : f[z] >= 0
  PROVE  f[x] + f[y] <= SumOver(f, S)
<1>1. IsFiniteSet({x, y}) /\ {x, y} \subseteq S /\ IsFiniteSet({y}) /\ IsFiniteSet({})
  BY FS_Subset
<1>2. SumOver(f, {x, y}) = f[x] + SumOver(f, {y})
  <2>1. {x, y} \ {x} = {y} /\ x \in {x, y} /\ \A z \in {x, y} : f[z] \in Int
    OBVIOUS
  <2>2. QED
    BY <1>1, <2>1, SumWithout
<1>3. SumOver(f, {y}) = f[y] + SumOver(f, {})
  <2>1. {y} \ {y} = {} /\ y \in {y} /\ \A z \in {y} : f[z] \in Int
    OBVIOUS
  <2>2. QED
    BY <1>1, <2>1, SumWithout
<1>4. SumOver(f, {}) = 0
  BY <1>1, SumIs
<1>5. SumOver(f, {x, y}) <= SumOver(f, S)
  BY <1>1, SumGrows
<1>6. QED
  BY <1>2, <1>3, <1>4, <1>5

-----------------------------------------------------------------------------
(* Quotients.                                                              *)

\* A set of natural numbers has a least one.
LEMMA Smallest ==
  ASSUME NEW T, T \subseteq Nat, T # {}
  PROVE  \E n \in T : \A m \in T : n <= m
<1>1. IsWellFoundedOn(OpToRel(<, Nat), Nat)
  BY NatLessThanWellFounded
<1>2. PICK n \in T : \A m \in T : ~(<<m, n>> \in OpToRel(<, Nat))
  BY <1>1, WFMin
<1>3. ASSUME NEW m \in T, m < n PROVE FALSE
  <2>1. <<m, n>> \in OpToRel(<, Nat)
    BY <1>3 DEF OpToRel
  <2>2. QED
    BY <1>2, <2>1
<1>4. QED
  BY <1>3

\* Remainders, quotients and blocks of m numbers.
LEMMA Remainder ==
  ASSUME NEW x \in Nat, NEW m \in Nat, m >= 1
  PROVE  /\ x \div m \in Nat /\ x % m \in 0..(m - 1)
         /\ x = m * (x \div m) + (x % m)
<1>1. x \div m \in Nat
  OBVIOUS
<1>2. x % m \in 0..(m - 1)
  OBVIOUS
<1>3. x = m * (x \div m) + (x % m)
  OBVIOUS
<1>4. QED
  BY <1>1, <1>2, <1>3

\* The quotient is the one number whose block has x.
LEMMA Quotient ==
  ASSUME NEW x \in Nat, NEW m \in Nat, m >= 1, NEW q \in Nat,
         q * m <= x, x < q * m + m
  PROVE  x \div m = q
<1> DEFINE p == x \div m
           r == x % m
<1>1. p \in Nat /\ r \in 0..(m - 1) /\ x = m * p + r
  BY Remainder
<1> HIDE DEF p, r
<1>2. ASSUME p >= q + 1 PROVE FALSE
  <2>1. m * p >= m * (q + 1)
    BY <1>1, <1>2
  <2>2. m * (q + 1) = q * m + m
    OBVIOUS
  <2>3. q * m \in Nat /\ m * p \in Nat
    BY <1>1
  <2>4. QED
    BY <1>1, <2>1, <2>2, <2>3
<1>3. ASSUME q >= p + 1 PROVE FALSE
  <2>1. q * m >= (p + 1) * m
    BY <1>1, <1>3
  <2>2. (p + 1) * m = m * p + m
    BY <1>1
  <2>3. q * m \in Nat /\ m * p \in Nat
    BY <1>1
  <2>4. QED
    BY <1>1, <2>1, <2>2, <2>3
<1>4. p = q
  BY <1>1, <1>2, <1>3
<1>5. QED
  BY <1>4 DEF p

LEMMA InBlock ==
  ASSUME NEW x \in Nat, NEW b \in Nat, NEW m \in Nat, m >= 1
  PROVE  x \in ((b \div m) * m)..((b \div m) * m + m - 1) <=> x \div m = b \div m
<1> DEFINE q == b \div m
<1>1. q \in Nat
  BY Remainder
<1> HIDE DEF q
<1>2. q * m \in Nat
  BY <1>1
<1>3. ASSUME x \in (q * m)..(q * m + m - 1) PROVE x \div m = q
  <2>1. q * m <= x /\ x < q * m + m
    BY <1>2, <1>3
  <2>2. QED
    BY <1>1, <2>1, Quotient
<1>4. ASSUME x \div m = q PROVE x \in (q * m)..(q * m + m - 1)
  <2> DEFINE r == x % m
  <2>1. r \in 0..(m - 1) /\ x = m * q + r
    BY <1>4, Remainder
  <2>2. m * q = q * m
    BY <1>1
  <2> HIDE DEF r
  <2>3. QED
    BY <1>2, <2>1, <2>2
<1>5. QED
  BY <1>3, <1>4 DEF q

\* Clearing the last bits tells what dividing by them tells.
LEMMA Cleared ==
  ASSUME NEW x \in Nat, NEW y \in Nat, NEW m \in Nat, m >= 1
  PROVE  (x - (x % m) = y - (y % m)) <=> (x \div m = y \div m)
<1> DEFINE p == x \div m
           q == y \div m
           r == x % m
           s == y % m
<1>1. p \in Nat /\ q \in Nat /\ r \in 0..(m - 1) /\ s \in 0..(m - 1) /\ x = m * p + r /\ y = m * q + s
  BY Remainder
<1> HIDE DEF p, q, r, s
<1>2. m * p \in Nat /\ m * q \in Nat
  BY <1>1
<1>3. x - r = m * p /\ y - s = m * q
  BY <1>1, <1>2
<1>4. m * p = m * q <=> p = q
  BY <1>1
<1>5. (x - r = y - s) <=> p = q
  BY <1>3, <1>4
<1>6. QED
  BY <1>5 DEF p, q, r, s

\* Whole blocks in front stay in front.
LEMMA Shifted ==
  ASSUME NEW a \in Nat, NEW x \in Nat, NEW m \in Nat, m >= 1
  PROVE  (a * m + x) \div m = a + x \div m
<1> DEFINE p == x \div m
           r == x % m
<1>1. p \in Nat /\ r \in 0..(m - 1) /\ x = m * p + r
  BY Remainder
<1> HIDE DEF p, r
<1>2. (a + p) * m = a * m + m * p /\ a * m \in Nat /\ m * p \in Nat /\ a + p \in Nat
  BY <1>1
<1>3. (a + p) * m <= a * m + x /\ a * m + x < (a + p) * m + m /\ a * m + x \in Nat
  BY <1>1, <1>2
<1>4. (a * m + x) \div m = a + p
  BY <1>2, <1>3, Quotient
<1>5. QED
  BY <1>4 DEF p

\* Numbers of one block are in one block of blocks.
LEMMA Coarser ==
  ASSUME NEW x \in Nat, NEW y \in Nat, NEW m \in Nat, NEW k \in Nat, m >= 1, k >= 1,
         x \div m = y \div m
  PROVE  x \div (m * k) = y \div (m * k)
<1> DEFINE q == x \div m
           t == q \div k
           d == q % k
<1>1. q \in Nat
  BY Remainder
<1> HIDE DEF q
<1>2. t \in Nat /\ d \in 0..(k - 1) /\ q = k * t + d
  BY <1>1, Remainder
<1> HIDE DEF t, d
<1>3. m * k \in Nat /\ m * k >= 1
  BY SMTT(30)
<1>4. ASSUME NEW z \in Nat, z \div m = q PROVE z \div (m * k) = t
  <2> DEFINE r == z % m
  <2>1. r \in 0..(m - 1) /\ z = m * q + r
    BY <1>4, Remainder
  <2> HIDE DEF r
  <2>2. m * q = t * (m * k) + m * d
    BY <1>2
  <2>3. m * d \in Nat /\ m * d + m <= m * k
    <3>1. d + 1 <= k
      BY <1>2
    <3>2. m * (d + 1) <= m * k
      BY <1>2, <3>1
    <3>3. m * (d + 1) = m * d + m /\ m * d \in Nat
      BY <1>2
    <3>4. QED
      BY <3>2, <3>3
  <2>4. t * (m * k) \in Nat
    BY <1>2, <1>3
  <2>5. t * (m * k) <= z /\ z < t * (m * k) + m * k
    BY <1>3, <2>1, <2>2, <2>3, <2>4
  <2>6. QED
    BY <1>2, <1>3, <2>5, Quotient
<1>5. QED
  BY <1>4 DEF q

=============================================================================
