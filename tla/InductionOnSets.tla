-------------------------- MODULE InductionOnSets ---------------------------
(***************************************************************************)
(* Induction over the natural numbers and definition by recursion, stated  *)
(* of sets and functions rather than of operators, so that a proof can     *)
(* cite them with the set or the function it is about.                     *)
(***************************************************************************)
EXTENDS Integers, Sequences, WellFoundedInduction, TLAPS

\* A set of naturals that holds 0 and the successor of all it holds is Nat.
LEMMA SetInduction ==
    ASSUME NEW S \in SUBSET Nat, 0 \in S, \A n \in S : n + 1 \in S
    PROVE  S = Nat
<1> DEFINE T == Nat \ S
<1> DEFINE R == {ss \in Nat \X Nat : ss[1] < ss[2]}
<1>1. SUFFICES ASSUME T # {} PROVE FALSE
  OBVIOUS
<1>2. IsWellFoundedOn(R, Nat)
  BY NatLessThanWellFounded DEF OpToRel
<1>3. T \subseteq Nat
  OBVIOUS
<1> HIDE DEF T, R
<1>4. PICK x \in T : \A y \in T : ~ (<<y, x>> \in R)
  BY <1>1, <1>2, <1>3, WFMin
<1>5. \A y \in T : ~(y < x)
  BY <1>3, <1>4 DEF R
<1>6. x \in Nat /\ x # 0
  BY <1>3 DEF T
<1>7. x - 1 \in S
  BY <1>5, <1>6 DEF T
<1>8. QED
  BY <1>6, <1>7 DEF T

\* The values of a function that is defined by recursion over low .. high.
\* "step" gives, for an index, the next value as a function of the one before.
Recurs(g, low, high, first, step) ==
    g = [k \in low .. high |-> IF k = low THEN first ELSE step[k][g[k - 1]]]

\* Such a function exists.
LEMMA RecursionExists ==
    ASSUME NEW V, NEW low \in Nat, NEW high \in Nat, NEW first \in V,
           NEW step \in [Nat -> [V -> V]]
    PROVE  \E g \in [low .. high -> V] : Recurs(g, low, high, first, step)
<1> DEFINE S == {n \in Nat : \E g \in [low .. low + n -> V] : Recurs(g, low, low + n, first, step)}
<1>1. 0 \in S
  <2> DEFINE g == [k \in low .. low + 0 |-> first]
  <2>1. g \in [low .. low + 0 -> V] /\ Recurs(g, low, low + 0, first, step)
    BY DEF Recurs
  <2>2. QED
    BY <2>1
<1>2. ASSUME NEW n \in S PROVE n + 1 \in S
  <2>1. n \in Nat
    OBVIOUS
  <2>2. PICK g \in [low .. low + n -> V] : Recurs(g, low, low + n, first, step)
    OBVIOUS
  <2> DEFINE h == [k \in low .. low + (n + 1) |->
                      IF k = low + (n + 1) THEN step[low + (n + 1)][g[low + n]] ELSE g[k]]
  <2>3. h \in [low .. low + (n + 1) -> V]
    BY <2>1
  <2>4. ASSUME NEW k \in low .. low + (n + 1)
        PROVE  h[k] = IF k = low THEN first ELSE step[k][h[k - 1]]
    <3>1. CASE k = low + (n + 1)
      <4>1. k # low /\ k - 1 = low + n /\ k - 1 # low + (n + 1)
        BY <2>1, <3>1
      <4>2. h[k - 1] = g[low + n]
        BY <2>1, <4>1
      <4>3. h[k] = step[k][g[low + n]]
        BY <3>1
      <4>4. QED
        BY <4>1, <4>2, <4>3
    <3>2. CASE k # low + (n + 1)
      <4>1. k \in low .. low + n
        BY <2>1, <3>2
      <4>2. g[k] = IF k = low THEN first ELSE step[k][g[k - 1]]
        BY <2>2, <4>1 DEF Recurs
      <4>3. k # low => h[k - 1] = g[k - 1]
        BY <2>1, <4>1
      <4>4. h[k] = g[k]
        BY <3>2
      <4>5. QED
        BY <4>2, <4>3, <4>4
    <3>3. QED
      BY <3>1, <3>2
  <2>5. Recurs(h, low, low + (n + 1), first, step)
    BY <2>3, <2>4 DEF Recurs
  <2>6. QED
    BY <2>1, <2>3, <2>5
<1>3. S = Nat
  <2> HIDE DEF S
  <2>1. S \in SUBSET Nat
    BY DEF S
  <2>2. QED
    BY <1>1, <1>2, <2>1, SetInduction
<1>4. CASE low <= high
  <2>1. high - low \in S /\ low + (high - low) = high
    <3> HIDE DEF S
    <3>1. QED
      BY <1>3, <1>4
  <2>2. QED
    BY <2>1
<1>5. CASE high < low
  <2> DEFINE g == [k \in low .. high |-> first]
  <2>1. g \in [low .. high -> V] /\ Recurs(g, low, high, first, step)
    BY <1>5 DEF Recurs
  <2>2. QED
    BY <2>1
<1>6. QED
  BY <1>4, <1>5
=============================================================================
