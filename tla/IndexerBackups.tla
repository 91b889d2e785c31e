--------------------------- MODULE IndexerBackups ---------------------------
(***************************************************************************)
(* The indexer and its backups: the database daemon, or geoscope backup,   *)
(* copies the whole database at any moment, between any two transactions   *)
(* of a batch, and geoscope restore puts a copy back while geoscope is not *)
(* running.  That a copy is the database of one commit, and which copies   *)
(* there are, is module Backups.                                           *)
(***************************************************************************)
EXTENDS Indexer

CONSTANT MaxBackups   \* bound on the copies

ASSUME BackupAssumption == MaxBackups \in Nat

VARIABLE saved   \* the copies

backupVars == <<vars, saved>>

(* A copy of the tables.                                                   *)
Copy ==
  [ poolRows |-> poolRows, valRows |-> valRows, psig |-> psig, ssig |-> ssig,
    withdrawn |-> withdrawn, fees |-> fees, depRows |-> depRows, wdRows |-> wdRows,
    slotRows |-> slotRows, blockRows |-> blockRows ]

BackupInit == Init /\ saved = {}

Backup ==
  /\ Cardinality(saved \cup {Copy}) <= MaxBackups
  /\ saved' = saved \cup {Copy}
  /\ UNCHANGED vars

(* The file is replaced, whatever its tables have become since.            *)
Restore ==
  /\ pc = "stopped" /\ resets < MaxResets
  /\ resets' = resets + 1
  /\ \E s \in saved :
       /\ poolRows' = s.poolRows
       /\ valRows' = s.valRows /\ psig' = s.psig /\ ssig' = s.ssig
       /\ withdrawn' = s.withdrawn /\ fees' = s.fees
       /\ depRows' = s.depRows /\ wdRows' = s.wdRows
       /\ slotRows' = s.slotRows /\ blockRows' = s.blockRows
  /\ UNCHANGED <<pc, daemon, batches, batch, thefts, chain, reported, crashes, saved>>

BackupNext == (Next /\ UNCHANGED saved) \/ Backup \/ Restore

BackupSpec == BackupInit /\ [][BackupNext]_backupVars
-----------------------------------------------------------------------------
(* The Slots table and its copies are the log SlotLog describes: an append *)
(* always follows the last row, and going back is only ever going back to  *)
(* a log that was.                                                         *)
SavedLog == INSTANCE SlotLog WITH
  rows <- slotRows, blocks <- blockRows,
  saved <- {[rows |-> s.slotRows, blocks |-> s.blockRows] : s \in saved}
ImplementsSavedLog == SavedLog!Spec
=============================================================================
