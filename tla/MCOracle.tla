------------------------------ MODULE MCOracle ------------------------------
(***************************************************************************)
(* Small instances of Oracle.                                              *)
(***************************************************************************)
EXTENDS Oracle, TLC

CONSTANTS m1, m2, m3

(* The members are interchangeable.                                        *)
Symmetry == Permutations(Member)
=============================================================================
