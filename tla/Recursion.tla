------------------------------ MODULE Recursion ------------------------------
(***************************************************************************)
(* Recursive functions on an interval of the naturals: that they exist,    *)
(* and what all of their values have in common.  A step of the recursion   *)
(* is a function here, and a property a set, so that the lemmas can be     *)
(* cited for any.                                                          *)
(***************************************************************************)
EXTENDS WellFoundedInduction, TLAPS

(* Every set of naturals has a least one, if any. *)
LEMMA Minimum ==
    ASSUME NEW S \in SUBSET Nat, S # {}
    PROVE  \E m \in S : \A x \in S : m <= x
<1> DEFINE R == OpToRel(<, Nat)
<1>1. IsWellFoundedOn(R, Nat)
  BY NatLessThanWellFounded
<1>2. \A x \in Nat, y \in Nat : y < x => <<y, x>> \in R
  BY DEF OpToRel
<1> HIDE DEF R
<1>3. \E m \in S : \A x \in S : <<x, m>> \notin R
  BY <1>1, WFMin
<1>4. PICK m \in S : \A x \in S : <<x, m>> \notin R
  BY <1>3
<1>5. ASSUME NEW x \in S PROVE m <= x
  <2>1. x \in Nat /\ m \in Nat
    OBVIOUS
  <2>2. ~(x < m)
    BY <1>2, <1>4, <2>1
  <2> QED
    BY <2>1, <2>2
<1> QED
  BY <1>5

LEMMA Induction ==
    ASSUME NEW S \in SUBSET Nat, 0 \in S, \A n \in S : n + 1 \in S
    PROVE  \A n \in Nat : n \in S
<1> DEFINE R == OpToRel(<, Nat)
           N == Nat \ S
<1>1. IsWellFoundedOn(R, Nat)
  BY NatLessThanWellFounded
<1>2. \A x \in Nat, y \in Nat : y < x => <<y, x>> \in R
  BY DEF OpToRel
<1>3. SUFFICES ASSUME N # {} PROVE FALSE
  OBVIOUS
<1>4. N \in SUBSET Nat
  OBVIOUS
<1> HIDE DEF R, N
<1>5. PICK x \in N : \A y \in N : <<y, x>> \notin R
  <2>1. \E x \in N : \A y \in N : <<y, x>> \notin R
    BY <1>1, <1>3, <1>4, WFMin
  <2> QED
    BY <2>1
<1>6. x \in Nat /\ x # 0 /\ x \notin S
  BY <1>5 DEF N
<1>7. x - 1 \in Nat /\ x - 1 < x /\ x - 1 \notin S
  BY <1>6
<1>8. x - 1 \in N
  BY <1>7 DEF N
<1> QED
  BY <1>2, <1>5, <1>6, <1>7, <1>8

(* What holds of the first value, and of every value if of the one before. *)
LEMMA AllValues ==
    ASSUME NEW V, NEW c, NEW lo \in Nat, NEW hi \in Nat,
           c[lo] \in V, \A n \in lo + 1 .. hi : c[n - 1] \in V => c[n] \in V
    PROVE  \A n \in lo .. hi : c[n] \in V
<1> DEFINE S == {n \in Nat : n \in lo .. hi => c[n] \in V}
<1>1. S \in SUBSET Nat /\ 0 \in S
  OBVIOUS
<1>2. \A n \in S : n + 1 \in S
  <2> TAKE n \in S
  <2>1. CASE n + 1 \in lo + 1 .. hi
    <3>1. n \in lo .. hi /\ (n + 1) - 1 = n
      BY <2>1
    <3> QED
      BY <2>1, <3>1
  <2>2. CASE n + 1 \notin lo + 1 .. hi
    BY <2>2
  <2> QED
    BY <2>1, <2>2
<1> HIDE DEF S
<1>3. \A n \in Nat : n \in S
  BY <1>1, <1>2, Induction
<1> QED
  BY <1>3 DEF S

(* A value at lo, and what the steps F make of it up to hi. *)
Iterates(base, F, V, lo, hi) ==
    \E g \in [lo .. hi -> V] :
        \A n \in lo .. hi : g[n] = IF n = lo THEN base ELSE F[n][g[n - 1]]

LEMMA Iteration ==
    ASSUME NEW V, NEW base \in V, NEW F \in [Nat -> [V -> V]], NEW lo \in Nat
    PROVE  \A hi \in Nat : hi >= lo => Iterates(base, F, V, lo, hi)
<1> DEFINE S == {m \in Nat : Iterates(base, F, V, lo, lo + m)}
<1>1. 0 \in S
  <2> DEFINE g == [n \in lo .. lo + 0 |-> base]
  <2>1. g \in [lo .. lo + 0 -> V] /\ \A n \in lo .. lo + 0 : n = lo /\ g[n] = base
    OBVIOUS
  <2> HIDE DEF g
  <2> QED
    BY <2>1 DEF Iterates
<1>2. ASSUME NEW m \in S PROVE m + 1 \in S
  <2> DEFINE hi == lo + m
  <2>1. PICK g \in [lo .. hi -> V] :
            \A n \in lo .. hi : g[n] = IF n = lo THEN base ELSE F[n][g[n - 1]]
    BY DEF Iterates
  <2>2. hi \in Nat /\ hi >= lo /\ lo + (m + 1) = hi + 1 /\ m + 1 \in Nat
    OBVIOUS
  <2> HIDE DEF hi
  <2> DEFINE h == [n \in lo .. hi + 1 |-> IF n <= hi THEN g[n] ELSE F[n][g[hi]]]
  <2>3. h \in [lo .. hi + 1 -> V]
    BY <2>1, <2>2
  <2>4. ASSUME NEW n \in lo .. hi + 1
        PROVE  h[n] = IF n = lo THEN base ELSE F[n][h[n - 1]]
    <3>1. n # lo => h[n - 1] = g[n - 1]
      BY <2>2
    <3>2. CASE n <= hi
      BY <2>1, <2>2, <3>1, <3>2
    <3>3. CASE n = hi + 1
      BY <2>2, <3>1, <3>3
    <3> QED
      BY <2>2, <3>2, <3>3
  <2> HIDE DEF h
  <2>5. Iterates(base, F, V, lo, hi + 1)
    BY <2>3, <2>4 DEF Iterates
  <2> QED
    BY <2>2, <2>5
<1>3. S \in SUBSET Nat
  OBVIOUS
<1> HIDE DEF S
<1>4. \A m \in Nat : m \in S
  BY <1>1, <1>2, <1>3, Induction
<1>5. ASSUME NEW hi \in Nat, hi >= lo PROVE Iterates(base, F, V, lo, hi)
  <2>1. hi - lo \in Nat /\ lo + (hi - lo) = hi
    BY <1>5
  <2>2. hi - lo \in S
    BY <1>4, <2>1
  <2> QED
    BY <2>1, <2>2 DEF S
<1> QED
  BY <1>5
=============================================================================
