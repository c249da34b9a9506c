-------------------------- MODULE InductionLemmas --------------------------
(***************************************************************************)
(* Induction over the naturals in a form the provers can use: the facts to *)
(* prove are a set of numbers, not an operator.  A recursive definition is *)
(* reasoned about with the set of the numbers it is right for.             *)
(***************************************************************************)
EXTENDS Integers, FiniteSetTheorems, TLAPS

\* A set that has 0, and with every number the next, has all of them.  Were one
\* missing, the shortest of the intervals that end in a missing one could be cut.
LEMMA SetInduction ==
  ASSUME NEW S, 0 \in S, \A k \in Nat : k \in S => k + 1 \in S
  PROVE  Nat \subseteq S
<1>1. SUFFICES ASSUME NEW bad \in Nat, bad \notin S PROVE FALSE
  OBVIOUS
<1> DEFINE R == StrictSubsetOrdering(Nat)
           T == {0..k : k \in {k \in Nat : k \notin S}}
<1>2. IsWellFoundedOn(R, FiniteSubsetsOf(Nat))
  BY FS_StrictSubsetOrderingWellFounded
<1>3. T \subseteq FiniteSubsetsOf(Nat)
  <2>1. \A k \in Nat : IsFiniteSet(0..k) /\ 0..k \subseteq Nat
    BY FS_Interval
  <2> QED BY <2>1 DEF FiniteSubsetsOf
<1>4. T # {}
  BY <1>1
<1>5. PICK x \in T : \A y \in T : ~ (<<y, x>> \in R)
  <2> HIDE DEF T, R
  <2> QED BY <1>2, <1>3, <1>4, WFMin
<1>6. PICK m \in Nat : m \notin S /\ x = 0..m
  OBVIOUS
<1>7. m - 1 \in Nat /\ m - 1 \notin S
  BY <1>6
<1>8. 0..(m-1) \in T /\ <<0..(m-1), x>> \in R
  <2>1. 0..(m-1) \in T
    BY <1>7
  <2>2. 0..(m-1) \subseteq x /\ 0..(m-1) # x /\ x \subseteq Nat
    BY <1>6, <1>7
  <2> QED BY <2>1, <2>2 DEF StrictSubsetOrdering
<1> QED
  BY <1>5, <1>8

\* The same up to a number.
LEMMA Climb ==
  ASSUME NEW n \in Nat, NEW S, 0 \in S, \A k \in 0..n-1 : k \in S => k + 1 \in S
  PROVE  0..n \subseteq S
<1> DEFINE Has == {k \in Nat : k <= n => k \in S}
<1>1. 0 \in Has
  OBVIOUS
<1>2. \A k \in Nat : k \in Has => k + 1 \in Has
  <2> SUFFICES ASSUME NEW k \in Nat, k \in Has, k + 1 <= n PROVE k + 1 \in S
    OBVIOUS
  <2>1. k \in 0..n-1
    OBVIOUS
  <2> QED BY <2>1
<1>3. Nat \subseteq Has
  <2> HIDE DEF Has
  <2> QED BY <1>1, <1>2, SetInduction
<1> QED BY <1>3

\* A set of naturals that has a member has a least one.
LEMMA LeastExists ==
  ASSUME NEW S \in SUBSET Nat, S # {}
  PROVE  \E m \in S : \A x \in S : m <= x
<1> DEFINE Free == {k \in Nat : \A x \in S : k < x}
<1>1. SUFFICES ASSUME \A m \in S : \E x \in S : x < m PROVE FALSE
  OBVIOUS
<1>2. 0 \in Free
  <2>1. 0 \notin S
    BY <1>1
  <2> QED BY <2>1
<1>3. ASSUME NEW k \in Nat, k \in Free PROVE k + 1 \in Free
  <2>1. k + 1 \notin S
    BY <1>1, <1>3
  <2> QED BY <1>3, <2>1
<1>4. Nat \subseteq Free
  <2> HIDE DEF Free
  <2> QED BY <1>2, <1>3, SetInduction
<1>5. PICK x \in S : TRUE
  OBVIOUS
<1> QED BY <1>4, <1>5

\* g goes through the values of a step applied n times from a base.
Iterates(g, X, base, n, step) ==
  g \in [0..n -> X] /\ g[0] = base /\ \A k \in 1..n : g[k] = step[<<k, g[k-1]>>]

\* There is such a function, so that a recursive definition by a step defines
\* one.
LEMMA IterationExists ==
  ASSUME NEW X, NEW base \in X, NEW n \in Nat, NEW step \in [(1..n) \X X -> X]
  PROVE  \E g : Iterates(g, X, base, n, step)
<1> DEFINE Right(g, m) == g[0] = base /\ \A k \in 1..m : g[k] = step[<<k, g[k-1]>>]
           Has == {m \in Nat : m <= n => \E g \in [0..m -> X] : Right(g, m)}
<1>1. 0 \in Has
  <2>1. [k \in 0..0 |-> base] \in [0..0 -> X] /\ Right([k \in 0..0 |-> base], 0)
    OBVIOUS
  <2> QED BY <2>1
<1>2. ASSUME NEW m \in Nat, m \in Has PROVE m + 1 \in Has
  <2> SUFFICES ASSUME m + 1 <= n PROVE \E g \in [0..m+1 -> X] : Right(g, m + 1)
    OBVIOUS
  <2>1. PICK g \in [0..m -> X] : Right(g, m)
    BY <1>2
  <2> DEFINE h == [k \in 0..m+1 |-> IF k = m + 1 THEN step[<<k, g[m]>>] ELSE g[k]]
  <2>2. \A k \in 1..m : g[k] = step[<<k, g[k-1]>>]
    BY <2>1
  <2>3. step[<<m + 1, g[m]>>] \in X
    <3>1. m + 1 \in 1..n /\ m \in 0..m
      OBVIOUS
    <3> QED BY <2>1, <3>1
  <2>4. h \in [0..m+1 -> X] /\ h[0] = base
    BY <2>1, <2>3
  <2>5. ASSUME NEW k \in 1..m+1 PROVE h[k] = step[<<k, h[k-1]>>]
    <3>1. CASE k = m + 1
      BY <3>1
    <3>2. CASE k # m + 1
      <4>1. k \in 1..m /\ h[k] = g[k] /\ h[k-1] = g[k-1]
        BY <3>2
      <4> QED BY <2>2, <4>1
    <3> QED BY <3>1, <3>2
  <2> QED BY <2>4, <2>5
<1>3. Nat \subseteq Has
  <2> HIDE DEF Has
  <2> QED BY <1>1, <1>2, SetInduction
<1> QED BY <1>3 DEF Iterates
=============================================================================
