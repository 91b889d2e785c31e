----------------------------- MODULE MCIndexer -----------------------------
(***************************************************************************)
(* Small instances of Indexer.  A history is described by what matters to  *)
(* a run and completed here; Pk are a and b, the last deposits are the     *)
(* ones a run may leave out (an event at Start is not seen).               *)
(***************************************************************************)
EXTENDS Indexer, TLC

CONSTANTS a, b

Dep(pk, slot) == [pk |-> pk, slot |-> slot, valid |-> TRUE]

(* A history with one pool, created with the first proposal.               *)
History(block, pa, pb, db, da, wd, own, theft) ==
  [ block |-> block,
    pool |-> [p \in Pool |-> IF pb < pa THEN pb ELSE pa],
    poolOf |-> [pk \in Pk |-> 0],
    proposed |-> (a :> pa) @@ (b :> pb),
    deposit |-> (1 :> Dep(a, pa)) @@ (2 :> Dep(b, db)) @@ (3 :> Dep(a, da)),
    withdrawal |-> (1 :> [pk |-> a, slot |-> wd]),
    proposer |-> [s \in Slot |-> IF s \in own THEN a ELSE None],
    theft |-> theft ]

(* One slot at most is missed.                                             *)
Blocks == {Slot \ {m} : m \in Slot} \cup {Slot}

(* Blocks of a, and those whose fee it steals.                             *)
NoBlocks == <<{}, {}>>
OneHonest == <<{MaxSlot - 1}, {}>>
OneStolen == <<{MaxSlot - 1}, {MaxSlot - 1}>>
StolenAndHonest == <<{MaxSlot - 1, MaxSlot}, {MaxSlot - 1}>>

(* a is proposed and deposits, makes its second deposit and withdraws; b   *)
(* is proposed at any time and deposits later.                             *)
TwoValidators ==
  {c \in
     {History(block, pa, pb, db, da, IF own[2] # {} THEN Start ELSE da, own[1], own[2]) :
        block \in Blocks, pa \in {Start + 1, Start + 2}, pb \in Start .. MaxSlot - 1,
        db \in Start + 2 .. MaxSlot, da \in Start + 3 .. MaxSlot,
        own \in {NoBlocks, OneHonest, OneStolen, StolenAndHonest}} :
   LegalChain(c)}

(* The same without withdrawals, and with no block proposed by a validator *)
(* of ours: nothing ever reads a balance while indexing.                   *)
Quiet ==
  {c \in
     {History(block, pa, pb, db, da, Start, {}, {}) :
        block \in {Slot, Slot \ {Start + 2}}, pa \in {Start, Start + 1},
        pb \in Start + 1 .. MaxSlot - 1, db \in Start + 2 .. MaxSlot,
        da \in Start + 2 .. MaxSlot} :
   LegalChain(c)}

(* geoscope reset --database Slots, and --database all.                    *)
WipeSlotsOrAll == {{"Slots"}, Table}
=============================================================================
