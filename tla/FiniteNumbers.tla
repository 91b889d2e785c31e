--------------------------- MODULE FiniteNumbers ---------------------------
(***************************************************************************)
(* What the proofs need of the greatest element of a set of numbers, which *)
(* read_max_slot, executemany and max() take.                              *)
(***************************************************************************)
EXTENDS Integers, FiniteSets, FiniteSetTheorems, TLAPS

(* A finite set of numbers that is not empty has a greatest element.       *)
LEMMA GreatestExists ==
  ASSUME NEW D \in SUBSET Nat, IsFiniteSet(D), D # {}
  PROVE  \E m \in D : \A e \in D : e <= m
<1> DEFINE above(d) == {e \in D : d < e}
           T == {above(d) : d \in D}
<1>1. IsWellFoundedOn(StrictSubsetOrdering(D), SUBSET D)
  BY FS_StrictSubsetOrderingWellFounded, FS_FiniteSubsetsOfFinite
<1>2. PICK U \in T : \A V \in T : <<V, U>> \notin StrictSubsetOrdering(D)
  <2>1. T \subseteq SUBSET D /\ T # {}
    OBVIOUS
  <2>2. QED
    BY <1>1, <2>1, WFMin
<1>3. PICK m \in D : U = above(m)
  BY <1>2
<1>4. ASSUME NEW e \in D, ~ (e <= m)
      PROVE  FALSE
  <2>1. e \in Nat /\ m \in Nat /\ m < e
    BY <1>4
  <2>2. e \in above(m) /\ e \notin above(e)
    BY <2>1
  <2>3. ASSUME NEW x \in above(e)
        PROVE  x \in above(m)
    <3>1. x \in Nat /\ x \in D /\ e < x
      OBVIOUS
    <3>2. m < x
      BY <2>1, <3>1
    <3>3. QED
      BY <3>1, <3>2
  <2>4. <<above(e), U>> \in StrictSubsetOrdering(D)
    BY <2>2, <2>3, <1>3 DEF StrictSubsetOrdering
  <2>5. QED
    BY <2>4, <1>2
<1>5. QED
  BY <1>4
=============================================================================
