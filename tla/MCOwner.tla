------------------------------ MODULE MCOwner ------------------------------
(***************************************************************************)
(* A small instance of Owner: one account, reports that share a tree.      *)
(***************************************************************************)
EXTENDS Owner

CONSTANT m1

TwoReports == {[price |-> "p1", balance |-> "b1"], [price |-> "p1", balance |-> "b2"]}
=============================================================================
