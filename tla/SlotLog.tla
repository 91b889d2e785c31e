------------------------------ MODULE SlotLog ------------------------------
(***************************************************************************)
(* What the Slots table promises to the rest of geoscope: a log of the     *)
(* beacon chain that starts right after the configured start slot, only    *)
(* ever grows at its end, by whole batches, and keeps every row it wrote,  *)
(* until an operator wipes it or puts back a copy made before.             *)
(* read_max_slot can be used as a cursor only because of this.             *)
(* IndexerBackups implements it.                                           *)
(***************************************************************************)
EXTENDS Integers

CONSTANTS Start,      \* the configured start slot
          MaxSlot,    \* the last slot considered
          BatchSize   \* the most slots one append may add

VARIABLES rows,       \* the slots saved
          blocks,     \* those of them saved with a block
          saved       \* the copies

vars == <<rows, blocks, saved>>

Slot == Start + 1 .. MaxSlot

Init == rows = {} /\ blocks = {} /\ saved = {}

(* One batch is saved: the slots that follow the log, of which one at      *)
(* least has a block.                                                      *)
Append ==
  /\ \E top \in Start .. MaxSlot, n \in 1 .. BatchSize :
       /\ rows = Start + 1 .. top
       /\ top + n <= MaxSlot
       /\ rows' = Start + 1 .. top + n
       /\ \E new \in SUBSET (top + 1 .. top + n) :
            new # {} /\ blocks' = blocks \cup new
  /\ UNCHANGED saved

Wipe == rows' = {} /\ blocks' = {} /\ UNCHANGED saved

Save ==
  /\ saved' = saved \cup {[rows |-> rows, blocks |-> blocks]}
  /\ UNCHANGED <<rows, blocks>>

Restore ==
  /\ \E s \in saved : rows' = s.rows /\ blocks' = s.blocks
  /\ UNCHANGED saved

Next == Append \/ Wipe \/ Save \/ Restore

Spec == Init /\ [][Next]_vars
=============================================================================
