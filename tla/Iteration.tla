----------------------------- MODULE Iteration -----------------------------
(***************************************************************************)
(* Loops as the modules write them, by functions that are defined          *)
(* recursively and by folds: that such a function exists, and what holds   *)
(* of it by induction.  The properties are given as sets, because the      *)
(* provers cannot instantiate an operator.                                 *)
(***************************************************************************)
EXTENDS Integers, FiniteSetsExt, TLAPS, WellFoundedInduction

\* Min of a nonempty set of naturals is its least element.
LEMMA LeastNatural ==
  ASSUME NEW S \in SUBSET Nat, S # {}
  PROVE  Min(S) \in S /\ \A y \in S : Min(S) <= y
<1>1. PICK x \in S : \A y \in S : ~ (<<y, x>> \in OpToRel(<, Nat))
  BY NatLessThanWellFounded, WFMin
<1>2. \A y \in S : x <= y
  <2>1. SUFFICES ASSUME NEW y \in S, y < x PROVE FALSE
    BY SMT
  <2>2. <<y, x>> \in OpToRel(<, Nat)
    BY <2>1 DEF OpToRel
  <2> QED
    BY <1>1, <2>2
<1> QED
  BY <1>2 DEF Min

\* Max of a nonempty set of integers up to n is its greatest element.
LEMMA GreatestInteger ==
  ASSUME NEW p \in Int, NEW n \in Int, NEW S \in SUBSET (p .. n), S # {}
  PROVE  Max(S) \in S /\ \A y \in S : Max(S) >= y
<1> DEFINE below == {n - x : x \in S}
<1>1. below \in SUBSET Nat /\ below # {}
  <2>1. \A x \in S : n - x \in Nat
    OBVIOUS
  <2>2. PICK x \in S : TRUE
    OBVIOUS
  <2>3. n - x \in below
    OBVIOUS
  <2> QED
    BY <2>1, <2>3
<1>2. Min(below) \in below /\ \A y \in below : Min(below) <= y
  BY <1>1, LeastNatural
<1>3. PICK x \in S : Min(below) = n - x
  BY <1>2
<1>4. \A y \in S : x >= y
  <2> SUFFICES ASSUME NEW y \in S PROVE x >= y
    OBVIOUS
  <2>1. n - y \in below
    OBVIOUS
  <2>2. n - x <= n - y
    BY <1>2, <1>3, <2>1
  <2> QED
    BY <2>2
<1> QED
  BY <1>4 DEF Max

\* A set that is never left on the way from one integer to another
LEMMA Upwards ==
  ASSUME NEW p \in Int, NEW n \in Int, NEW Q,
         p \in Q, \A q \in p .. (n - 1) : q \in Q => q + 1 \in Q
  PROVE  \A q \in p .. n : q \in Q
<1> DEFINE missed == {k \in Nat : p + k <= n /\ p + k \notin Q}
<1> SUFFICES ASSUME NEW q \in p .. n, q \notin Q PROVE FALSE
  OBVIOUS
<1>1. missed # {}
  <2>1. q - p \in missed
    OBVIOUS
  <2> QED
    BY <2>1
<1>2. missed \in SUBSET Nat
  OBVIOUS
<1> DEFINE k == Min(missed)
<1>3. k \in missed /\ \A y \in missed : k <= y
  BY <1>1, <1>2, LeastNatural
<1>4. k # 0
  BY <1>3
<1>5. k - 1 \in Nat /\ k - 1 \notin missed
  BY <1>3, <1>4
<1>6. p + (k - 1) \in p .. (n - 1) /\ p + (k - 1) \in Q
  BY <1>3, <1>5
<1>7. p + (k - 1) + 1 \in Q
  BY <1>6
<1> QED
  BY <1>3, <1>7

\* g holds what a loop from p to n has made of base before each of its turns.
Turns(g, p, n, base, turn) ==
  g[p] = base /\ \A q \in p .. (n - 1) : g[q + 1] = turn[<<g[q], q>>]

\* There is such a function for any turns that are given by a function.
LEMMA Iterates ==
  ASSUME NEW p \in Int, NEW n \in Int, p <= n,
         NEW S, NEW base \in S, NEW turn \in [S \X (p .. n) -> S]
  PROVE  \E g \in [p .. n -> S] : Turns(g, p, n, base, turn)
<1> DEFINE Run(m) == \E g \in [p .. m -> S] : Turns(g, p, m, base, turn)
           Q == {m \in p .. n : Run(m)}
<1>1. p \in Q
  <2> DEFINE g == [q \in p .. p |-> base]
  <2>1. g \in [p .. p -> S] /\ g[p] = base /\ p .. (p - 1) = {}
    OBVIOUS
  <2>2. Run(p)
    BY <2>1 DEF Turns
  <2> QED
    BY <2>2
<1>2. ASSUME NEW m \in p .. (n - 1), m \in Q PROVE m + 1 \in Q
  <2>1. PICK g \in [p .. m -> S] : Turns(g, p, m, base, turn)
    BY <1>2
  <2> DEFINE h == [q \in p .. (m + 1) |-> IF q = m + 1 THEN turn[<<g[m], m>>] ELSE g[q]]
  <2>2. turn[<<g[m], m>>] \in S
    OBVIOUS
  <2>3. h \in [p .. (m + 1) -> S]
    BY <2>2
  <2>4. h[p] = base
    BY <2>1 DEF Turns
  <2>5. ASSUME NEW q \in p .. m PROVE h[q + 1] = turn[<<h[q], q>>]
    <3>1. h[q] = g[q]
      OBVIOUS
    <3>2. CASE q = m
      <4>1. h[q + 1] = turn[<<g[q], q>>]
        BY <3>2
      <4> HIDE DEF h
      <4> QED
        BY <3>1, <4>1
    <3>3. CASE q # m
      <4>1. h[q + 1] = g[q + 1] /\ q \in p .. (m - 1)
        BY <3>3
      <4> HIDE DEF h
      <4> QED
        BY <2>1, <3>1, <4>1 DEF Turns
    <3> QED
      BY <3>2, <3>3
  <2>6. Run(m + 1)
    <3>1. (m + 1) - 1 = m
      OBVIOUS
    <3> HIDE DEF h
    <3> QED
      BY <2>3, <2>4, <2>5, <3>1 DEF Turns
  <2> QED
    BY <2>6
<1>3. n \in Q
  <2> HIDE DEF Q
  <2>1. \A q \in p .. n : q \in Q
    BY <1>1, <1>2, Upwards
  <2> QED
    BY <2>1
<1> QED
  BY <1>3
=============================================================================
