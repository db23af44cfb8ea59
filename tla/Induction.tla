------------------------------- MODULE Induction -------------------------------
(***************************************************************************)
(* Induction over the natural numbers without an operator for the formula: *)
(* of the numbers for which it fails there would be a smallest one.        *)
(***************************************************************************)
EXTENDS Naturals, TLAPS, WellFoundedInduction

LEMMA Smallest ==
    ASSUME NEW S \in SUBSET Nat, S # {}
    PROVE  \E n \in S : \A m \in S : n <= m
<1>1. PICK n \in S : \A m \in S : ~ (<<m, n>> \in OpToRel(<, Nat))
  BY NatLessThanWellFounded, WFMin, Zenon
<1>2. \A m \in S : ~ (m < n)
  BY <1>1 DEF OpToRel
<1>3. QED
  BY <1>2

\* What holds of 0 and, with a number, of the next holds of all up to a bound.
LEMMA UpToBound ==
    ASSUME NEW N \in Nat, NEW S,
           0 \in S, \A n \in 0 .. N : n \in S /\ n < N => n + 1 \in S
    PROVE  0 .. N \subseteq S
<1> DEFINE Missing == (0 .. N) \ S
<1>1. SUFFICES ASSUME Missing # {} PROVE FALSE
  OBVIOUS
<1>2. PICK n \in Missing : \A m \in Missing : n <= m
  <2>1. Missing \in SUBSET Nat
    OBVIOUS
  <2> HIDE DEF Missing
  <2>2. QED
    BY <1>1, <2>1, Smallest
<1>3. n - 1 \in 0 .. N /\ n - 1 \in S /\ n - 1 < N
  BY <1>2
<1>4. QED
  BY <1>2, <1>3
===============================================================================
