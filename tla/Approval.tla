------------------------------ MODULE Approval ------------------------------
(***************************************************************************)
(* What the verification index of the Portal promises to those who stake:  *)
(* it only moves on, for a quorum each of whose members has itself checked *)
(* every proposal the index passes, and none of these is faulty.           *)
(* Oracle implements it with a Safe that collects signatures, and Owner    *)
(* with an account whose transactions wait in a queue.                     *)
(***************************************************************************)
EXTENDS Integers

CONSTANTS
  Member,      \* those who check proposals
  Quorum,      \* the sets of them it takes
  Validators,  \* the proposals, numbered from 1
  Bad          \* the faulty ones

VARIABLES
  index,    \* the last proposal approved
  checked   \* what each member has checked

vars == <<index, checked>>

Init == index = 0 /\ checked = [m \in Member |-> {}]

(* A member checks some proposals.                                         *)
Check ==
  /\ \E m \in Member, P \in SUBSET (1 .. Validators) :
       checked' = [checked EXCEPT ![m] = @ \cup P]
  /\ UNCHANGED index

(* A quorum approves the proposals up to i.                                *)
Approve ==
  \E Q \in Quorum, i \in index + 1 .. Validators :
    /\ Bad \cap (index + 1 .. i) = {}
    /\ \A m \in Q : index + 1 .. i \subseteq checked[m]
    /\ index' = i
    /\ UNCHANGED checked

Next == Check \/ Approve

Spec == Init /\ [][Next]_vars
=============================================================================
