-------------------------- MODULE MCIndexerBackups --------------------------
(***************************************************************************)
(* The small instances of Indexer, with backups.                           *)
(***************************************************************************)
EXTENDS MCIndexer, IndexerBackups
=============================================================================
