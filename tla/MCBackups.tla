----------------------------- MODULE MCBackups -----------------------------
(***************************************************************************)
(* The database daemon beside one command after another, some of them a    *)
(* backup and some a reset.                                                *)
(***************************************************************************)
EXTENDS Backups

CONSTANTS daemon, cli
=============================================================================
