----------------------------- MODULE MCDaemons -----------------------------
(***************************************************************************)
(* The two daemons of geoscope.                                            *)
(***************************************************************************)
EXTENDS Daemons, TLC

TwoDaemons == <<"slot", "database">>
=============================================================================
