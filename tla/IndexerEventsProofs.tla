------------------------ MODULE IndexerEventsProofs ------------------------
(***************************************************************************)
(* What is saved has been processed: the theorems about the events of the  *)
(* saved slots, and about the slots a trigger leaves behind.               *)
(***************************************************************************)
EXTENDS IndexerBackupsProofs

(* A trigger has enough batches left for the slots up to its head.         *)
CoversInv ==
  /\ pc \notin {"idle", "stopped"} => recent = head
  /\ pc \in Open => head - last <= batches * BatchSize
  /\ pc \in {"loop", "fees", "detect"} => head - MaxRow <= batches * BatchSize
  /\ TriggerCoversAll

LEMMA ProductIsNat ==
  ASSUME NEW n \in Nat, NEW size \in Nat
  PROVE  n * size \in Nat
OBVIOUS

LEMMA OneMore ==
  ASSUME NEW n \in Nat, NEW size \in Nat
  PROVE  (n + 1) * size = n * size + size
OBVIOUS

LEMMA Quotient ==
  ASSUME NEW n \in Nat, NEW size \in Nat \ {0}
  PROVE  n \div size \in Nat /\ n < (n \div size) * size + size
OBVIOUS

(* -(n // -size) batches are enough for n - 1 slots.                       *)
LEMMA EnoughBatches ==
  ASSUME NEW n \in Nat, NEW size \in Nat \ {0}
  PROVE  n <= ((n + size) \div size) * size
<1> DEFINE sum == n + size
           count == sum \div size
           product == count * size
<1>1. sum \in Nat
  OBVIOUS
<1>2. count \in Nat /\ sum < product + size
  BY <1>1, Quotient
<1>3. product \in Nat
  BY <1>2, ProductIsNat
<1> HIDE DEF product
<1>4. n <= product
  BY <1>2, <1>3
<1>5. QED
  BY <1>4 DEF product

(* The cursor is behind the head, and moves with the rows alone.           *)
LEMMA CursorTyped ==
  ASSUME IInv
  PROVE  MaxRow \in Nat /\ MaxRow <= head /\ slotRows = Start + 1 .. MaxRow
<1>1. PICK top \in Start .. MaxSlot : slotRows = Start + 1 .. top
  BY DEF IInv, LogInv, SlotsContiguous
<1>2. MaxRow = top /\ top \in Nat /\ head \in Nat /\ Start <= head
  BY <1>1, MaxRowIsTop, SlotAssumption DEF IInv, TypeOK
<1>3. top <= head
  <2>1. CASE top = Start
    BY <2>1, <1>2
  <2>2. CASE top # Start
    <3>1. top \in slotRows
      BY <1>1, <2>2, SlotAssumption
    <3>2. QED
      BY <3>1 DEF IInv, LogInv, RowsBehindHead
  <2>3. QED
    BY <2>1, <2>2
<1>4. QED
  BY <1>1, <1>2, <1>3

Greatest(rows) ==
  IF rows = {} THEN Start ELSE CHOOSE s \in rows : \A t \in rows : t <= s

(* Rows saved up to a slot have that slot as their greatest.               *)
LEMMA TopOf ==
  ASSUME NEW top \in Start .. MaxSlot, NEW rows, rows = Start + 1 .. top
  PROVE  Greatest(rows) = top
<1>1. CASE top = Start
  BY <1>1, SlotAssumption DEF Greatest
<1>2. CASE top # Start
  <2>1. top \in rows /\ \A t \in rows : t <= top
    BY <1>2, SlotAssumption
  <2>2. \A s \in rows : (\A t \in rows : t <= s) => s = top
    BY <2>1, SlotAssumption
  <2>3. QED
    BY <2>1, <2>2 DEF Greatest
<1>3. QED
  BY <1>1, <1>2

LEMMA CoversInvStep ==
  ASSUME IInv, IInv', [Next]_vars, CoversInv
  PROVE  CoversInv'
<1> USE DEF CoversInv, TriggerCoversAll, Open, Stages, Goto, outside, tables, validators, daemon, batch
<1>1. /\ MaxRow \in Nat /\ head \in Nat /\ MaxRow <= head
      /\ batches \in Nat /\ BatchSize \in Nat \ {0} /\ last \in Nat
      /\ batches * BatchSize \in Nat
  <2>1. MaxRow \in Nat /\ MaxRow <= head
    BY CursorTyped
  <2>2. batches \in Nat /\ last \in Nat /\ head \in Nat /\ BatchSize \in Nat \ {0}
    BY SlotAssumption DEF IInv, TypeOK
  <2>3. QED
    BY <2>1, <2>2, ProductIsNat
<1>2. slotRows' = slotRows => MaxRow' = MaxRow
  BY DEF MaxRow
<1>3. CASE UNCHANGED vars
  BY <1>2, <1>3 DEF vars
<1>4. CASE Raise \/ Crash \/ Reset
  BY <1>4 DEF Raise, Crash, Reset, Stop
<1>5. CASE Restart
  BY <1>2, <1>5 DEF Restart
<1>6. CASE Trigger
  <2>1. PICK c \in chain.block : /\ c >= head /\ head' = c /\ recent' = c
                                /\ batches' = BatchCount(c)
    BY <1>6 DEF Trigger
  <2>2. c \in Nat
    BY SlotAssumption, <2>1 DEF IInv, TypeOK, Chain, Slot
  <2>3. c - MaxRow \in Nat
    BY <1>1, <2>1, <2>2
  <2>4. BatchCount(c) = (c - MaxRow + BatchSize) \div BatchSize
    <3>1. (c - MaxRow + 1) + (BatchSize - 1) = c - MaxRow + BatchSize
      BY <1>1, <2>2
    <3>2. QED
      BY <3>1 DEF BatchCount
  <2>5. c - MaxRow <= BatchCount(c) * BatchSize
    BY <2>3, <2>4, <1>1, EnoughBatches
  <2>6. pc' = "loop" /\ MaxRow' = MaxRow
    BY <1>6, <1>2 DEF Trigger
  <2>7. QED
    BY <2>1, <2>5, <2>6
<1>7. CASE NextBatch
  <2>1. /\ pc = "loop" /\ batches # 0 /\ batches' = batches - 1 /\ pc' = "fetch"
        /\ last' = BatchEnd /\ UNCHANGED <<recent, head>>
    BY <1>1, <1>7 DEF NextBatch
  <2>2. batches' * BatchSize = batches * BatchSize - BatchSize /\ batches' * BatchSize \in Nat
    <3>1. batches' \in Nat
      BY <1>1, <2>1
    <3>2. (batches' + 1) * BatchSize = batches' * BatchSize + BatchSize
      BY <3>1, <1>1, OneMore
    <3>3. batches' * BatchSize \in Nat
      BY <3>1, <1>1, ProductIsNat
    <3>4. batches = batches' + 1
      BY <2>1, <1>1
    <3>5. QED
      BY <3>2, <3>3, <3>4, <1>1
  <2>3. head - BatchEnd <= batches' * BatchSize
    BY <1>1, <2>1, <2>2 DEF BatchEnd
  <2>4. QED
    BY <2>1, <2>3
<1>8. CASE LoopEnd
  <2>1. MaxRow = head
    BY <1>1, <1>8 DEF LoopEnd
  <2>2. QED
    BY <1>2, <1>8, <2>1 DEF LoopEnd
<1>9. CASE InsertSlots /\ ~ Raise
  <2>1. /\ pc = "slots" /\ pc' = "fees" /\ slotRows' = slotRows \cup SlotBatch
        /\ UNCHANGED <<recent, head, batches, last>>
    BY <1>9 DEF InsertSlots
  <2>2. last \in Start .. MaxSlot /\ slotRows' = Start + 1 .. last
    <3>1. /\ last \in first .. MaxSlot /\ first - 1 \in Start .. MaxSlot /\ first \in Nat
          /\ slotRows \cup SlotBatch = Start + 1 .. last
      BY <2>1, SlotsAppended DEF IInv, TypeOK
    <3>2. QED
      BY <2>1, <3>1, SlotAssumption
  <2>3. MaxRow' = last
    <3>1. MaxRow' = Greatest(slotRows')
      BY DEF MaxRow, Greatest
    <3>2. QED
      BY <3>1, <2>2, TopOf
  <2>4. head - last <= batches * BatchSize /\ recent = head
    BY <2>1
  <2>5. head' - MaxRow' <= batches' * BatchSize
    BY <2>1, <2>3, <2>4
  <2>6. QED
    BY <2>1, <2>4, <2>5
<1>10. CASE (ProcessFees \/ DetectThefts) /\ ~ Raise
  BY <1>2, <1>10 DEF ProcessFees, DetectThefts, EndBatch
<1>11. CASE (Regulate \/ Report \/ Verify) /\ ~ Raise
  BY <1>2, <1>11 DEF Regulate, Report, Verify
<1>12. CASE (FetchSlots \/ UpdatePools \/ InsertValidators) /\ ~ Raise
  BY <1>12 DEF FetchSlots, UpdatePools, InsertValidators
<1>13. CASE (ProcessDeposits \/ InsertDeposits) /\ ~ Raise
  BY <1>13 DEF ProcessDeposits, InsertDeposits
<1>14. CASE (ProcessWithdrawals \/ InsertWithdrawals) /\ ~ Raise
  BY <1>14 DEF ProcessWithdrawals, InsertWithdrawals
<1>15. QED
  BY <1>3, <1>4, <1>5, <1>6, <1>7, <1>8, <1>9, <1>10, <1>11, <1>12, <1>13, <1>14 DEF Next, Step, Index

(* Whenever the daemon waits for the next slot, and whenever geoscope      *)
(* reports, every slot up to the one the trigger was fired for is saved.   *)
THEOREM TriggersCoverAll == BackupSpec => []TriggerCoversAll
<1>1. BackupInit => CoversInv
  BY SlotAssumption DEF BackupInit, Init, CoversInv, TriggerCoversAll, Open, MaxRow
<1>2. CoversInv /\ (BackupInv /\ BackupInv' /\ [BackupNext]_backupVars) => CoversInv'
  <2> SUFFICES ASSUME CoversInv, BackupInv, BackupInv', [BackupNext]_backupVars
               PROVE  CoversInv'
    OBVIOUS
  <2>1. CASE [Next]_vars
    BY <2>1, CoversInvStep DEF BackupInv
  <2>2. CASE Restore
    BY <2>2 DEF Restore, CoversInv, TriggerCoversAll, Open
  <2>3. QED
    BY <2>1, <2>2 DEF BackupNext, backupVars, Backup
<1>3. CoversInv => TriggerCoversAll
  BY DEF CoversInv
<1>4. QED
  BY <1>1, <1>2, <1>3, BackupSpecInv, PTL DEF BackupSpec
-----------------------------------------------------------------------------
(* The tables geoscope fills together are wiped together, and Slots with   *)
(* the tables it is the cursor of.                                         *)
ResetsTogether ==
  \A T \in ResetChoices :
    /\ "Validators" \in T => {"Slots", "Deposits", "Withdrawals"} \subseteq T
    /\ "Deposits" \in T => "Slots" \in T

(* A block counts as saved once its slot is; a batch has all its blocks.   *)
BlocksInv ==
  /\ blockRows = slotRows \cap chain.block
  /\ pc \in Fetched => got = chain.block \cap (first .. last)

AfterValidators == {"deposits", "insertDeposits", "withdrawals", "insertWithdrawals", "slots"}
AfterDeposits == {"withdrawals", "insertWithdrawals", "slots"}
AfterWithdrawals == {"insertWithdrawals", "slots"}

(* The validators proposed in the slots saved, or in the batch once they   *)
(* are inserted, are known; so are those proposed before a saved deposit.  *)
ProposedInv ==
  /\ \A pk \in valRows : Start < chain.proposed[pk]
  /\ \A pk \in Pk : chain.proposed[pk] \in slotRows => Known(pk)
  /\ pc \in AfterValidators => \A pk \in Pk : chain.proposed[pk] \in got => Known(pk)
  /\ \A e \in depRows, pk \in Pk :
       Start < chain.proposed[pk] /\ chain.proposed[pk] <= DepSlot(e) => Known(pk)

(* A deposit of a validator known, made after its proposal.                *)
Ours(d) == Known(DepPk(d)) /\ chain.proposed[DepPk(d)] <= DepSlot(d)

RecordedInv ==
  /\ \A d \in depRows : Known(DepPk(d))
  /\ \A e \in depRows, d \in Deposit : DepSlot(d) = DepSlot(e) /\ Ours(d) => d \in depRows
  /\ pc \in AfterDeposits => \A d \in Deposit : DepSlot(d) \in got /\ Ours(d) => d \in depRows
  /\ SavedDepositsRecorded

(* A withdrawal that must be in the balance of its validator.              *)
Credited(w) ==
  \A d \in Deposit :
    /\ DepPk(d) = WdPk(w) /\ DepSlot(d) <= WdSlot(w)
    /\ Start < chain.proposed[DepPk(d)] /\ chain.proposed[DepPk(d)] <= DepSlot(d)
    => withdrawn[w] > 0

CreditedInv ==
  /\ \A v \in wdRows, w \in Withdrawal : WdSlot(w) = WdSlot(v) => Credited(w)
  /\ pc \in AfterWithdrawals => \A w \in Withdrawal : WdSlot(w) \in got => Credited(w)
  /\ SavedWithdrawalsCredited

(* The stages are entered one after the other.                             *)
Entered ==
  /\ pc' \in Fetched => FetchSlots \/ (pc \in Fetched /\ UNCHANGED batch)
  /\ pc' \in AfterValidators => InsertValidators \/ pc \in AfterValidators
  /\ pc' \in AfterDeposits => ProcessDeposits \/ InsertDeposits \/ pc \in AfterDeposits
  /\ pc' \in AfterWithdrawals => ProcessWithdrawals \/ pc \in AfterWithdrawals

LEMMA Entries == [Next]_vars => Entered
<1> SUFFICES ASSUME [Next]_vars PROVE Entered
  OBVIOUS
<1> USE DEF Entered, Fetched, Stages, AfterValidators, AfterDeposits, AfterWithdrawals, Goto
<1>1. CASE UNCHANGED vars
  BY <1>1 DEF vars
<1>2. CASE Raise \/ Crash \/ Restart \/ Reset
  BY <1>2 DEF Raise, Crash, Restart, Reset, Stop
<1>3. CASE Trigger \/ NextBatch \/ LoopEnd \/ Regulate
  BY <1>3 DEF Trigger, NextBatch, LoopEnd, Regulate
<1>4. CASE (Report \/ Verify) /\ ~ Raise
  BY <1>4 DEF Report, Verify
<1>5. CASE (UpdatePools \/ InsertValidators) /\ ~ Raise
  BY <1>5 DEF UpdatePools, InsertValidators
<1>6. CASE (ProcessDeposits \/ InsertDeposits) /\ ~ Raise
  BY <1>6 DEF ProcessDeposits, InsertDeposits
<1>7. CASE (ProcessWithdrawals \/ InsertWithdrawals) /\ ~ Raise
  BY <1>7 DEF ProcessWithdrawals, InsertWithdrawals
<1>8. CASE (InsertSlots \/ ProcessFees \/ DetectThefts) /\ ~ Raise
  BY <1>8 DEF InsertSlots, ProcessFees, DetectThefts, EndBatch
<1>9. CASE FetchSlots /\ ~ Raise
  BY <1>9 DEF FetchSlots
<1>10. QED
  BY <1>1, <1>2, <1>3, <1>4, <1>5, <1>6, <1>7, <1>8, <1>9 DEF Next, Step, Index

(* The events of the history do not change.                                *)
LEMMA EventsKept ==
  ASSUME UNCHANGED chain
  PROVE  /\ \A d : DepPk(d)' = DepPk(d) /\ DepSlot(d)' = DepSlot(d)
         /\ \A w : WdPk(w)' = WdPk(w) /\ WdSlot(w)' = WdSlot(w)
BY DEF DepPk, DepSlot, WdPk, WdSlot

LEMMA BlocksInvStep ==
  ASSUME Lossy = {}, IInv, IInv', [Next]_vars, BlocksInv
  PROVE  BlocksInv'
<1> USE DEF BlocksInv
<1>1. Frame /\ Entered
  BY Writers, Entries
<1>2. UNCHANGED chain
  BY <1>1 DEF Frame
<1>3. blockRows' = slotRows' \cap chain.block
  <2>1. CASE Reset
    BY <2>1 DEF Reset, ResetSlots
  <2>2. CASE InsertSlots /\ ~ Raise
    <3>1. /\ pc = "slots" /\ slotRows' = slotRows \cup (first .. last)
          /\ blockRows' = blockRows \cup got
      BY <2>2 DEF InsertSlots, SlotBatch
    <3>2. got = chain.block \cap (first .. last)
      BY <3>1 DEF Fetched, Stages
    <3>3. QED
      BY <3>1, <3>2
  <2>3. CASE UNCHANGED <<slotRows, blockRows>>
    BY <2>3
  <2>4. QED
    BY <1>1, <2>1, <2>2, <2>3 DEF Frame, Raise, tables
<1>4. ASSUME pc' \in Fetched
      PROVE  got' = chain.block \cap (first' .. last')
  <2>1. CASE FetchSlots
    <3>1. PICK lost \in SUBSET Lossy :
            LET found == ((first .. last) \cap chain.block) \ lost IN
            \/ /\ found # {} /\ got' = found
               /\ Goto("pools")
               /\ UNCHANGED <<tables, daemon, batches, first, last, thefts, outside>>
            \/ found = {} /\ Raise
      BY <2>1 DEF FetchSlots
    <3>2. lost = {} /\ ~ Raise
      BY <1>4 DEF Raise, Stop, Fetched, Stages
    <3>3. QED
      BY <3>1, <3>2
  <2>2. CASE pc \in Fetched /\ UNCHANGED batch
    BY <2>2 DEF batch
  <2>3. QED
    BY <1>1, <1>4, <2>1, <2>2 DEF Entered
<1>5. QED
  BY <1>2, <1>3, <1>4

(* An event of a batch is in a block of it; what is not after the batch    *)
(* is in it or in a slot saved.                                            *)
LEMMA EventsPlaced ==
  ASSUME IInv, BlocksInv, pc \in Open, pc \in Fetched,
         NEW s \in chain.block \cup {Start}, Start < s
  PROVE  /\ s \in got \/ s \in slotRows \/ s > last
         /\ s \in slotRows => s \in blockRows /\ \A t \in got : s < t
<1>1. /\ s \in chain.block /\ s \in Nat /\ first \in Nat /\ last \in Nat
      /\ slotRows = Start + 1 .. first - 1
  BY SlotAssumption DEF IInv, TypeOK, Chain, Slot, LogInv, BatchFollowsLog
<1>2. got = chain.block \cap (first .. last) /\ blockRows = slotRows \cap chain.block
  BY DEF BlocksInv
<1>3. s \in first .. last \/ s \in Start + 1 .. first - 1 \/ s > last
  BY <1>1, SlotAssumption
<1>4. \A t \in got : t >= first /\ t \in Nat
  BY <1>2, <1>1
<1>5. s \in slotRows => s < first
  BY <1>1, SlotAssumption
<1>6. QED
  BY <1>1, <1>2, <1>3, <1>4, <1>5

(* The events of a history have slots, and are in its blocks if geoscope   *)
(* may see them at all.                                                    *)
LEMMA EventsDated ==
  ASSUME IInv
  PROVE  /\ Start \in Nat /\ got \subseteq Nat
         /\ \A pk \in Pk : /\ chain.proposed[pk] \in chain.block \cup {Start}
                          /\ chain.proposed[pk] \in Nat /\ Start <= chain.proposed[pk]
         /\ \A d \in Deposit : /\ DepSlot(d) \in chain.block \cup {Start}
                               /\ DepSlot(d) \in Nat /\ DepPk(d) \in Pk
         /\ \A w \in Withdrawal : /\ WdSlot(w) \in chain.block \cup {Start}
                                  /\ WdSlot(w) \in Nat /\ WdPk(w) \in Pk
<1>1. Start \in Nat /\ got \subseteq Nat
  BY SlotAssumption DEF IInv, TypeOK, Slot
<1>2. \A pk \in Pk : chain.proposed[pk] \in chain.block \cup {Start}
                    /\ chain.proposed[pk] \in Nat /\ Start <= chain.proposed[pk]
  BY SlotAssumption DEF IInv, TypeOK, Chain, LegalChain
<1>3. \A d \in Deposit : DepSlot(d) \in chain.block \cup {Start}
                        /\ DepSlot(d) \in Nat /\ DepPk(d) \in Pk
  BY SlotAssumption DEF IInv, TypeOK, Chain, LegalChain, DepSlot, DepPk
<1>4. \A w \in Withdrawal : WdSlot(w) \in chain.block \cup {Start}
                           /\ WdSlot(w) \in Nat /\ WdPk(w) \in Pk
  BY SlotAssumption DEF IInv, TypeOK, Chain, LegalChain, WdSlot, WdPk
<1>5. QED
  BY <1>1, <1>2, <1>3, <1>4
(* What InsertValidators, the other steps and a reset do to the rows.      *)
LEMMA ValidatorsWritten ==
  ASSUME IInv, InsertValidators, ~ Raise
  PROVE  /\ valRows' = valRows \cup Proposed /\ \A pk \in Proposed : ~ Known(pk)
         /\ UNCHANGED <<slotRows, blockRows, depRows, wdRows, withdrawn, batch, chain>>
         /\ pc = "validators" /\ pc' = "deposits"
BY DEF InsertValidators, InsertRows, Goto, balances, outside

LEMMA ValidatorsReset ==
  ASSUME ResetsTogether, Reset
  PROVE  /\ pc = "stopped" /\ pc' = "stopped" /\ UNCHANGED chain
         /\ \/ UNCHANGED <<valRows, psig, ssig, withdrawn>>
            \/ /\ slotRows' = {} /\ blockRows' = {} /\ depRows' = {}
               /\ wdRows' = {} /\ valRows' = {}
         /\ \/ UNCHANGED depRows
            \/ slotRows' = {} /\ blockRows' = {} /\ depRows' = {}
         /\ wdRows' = wdRows \/ wdRows' = {}
         /\ \/ UNCHANGED <<slotRows, blockRows>>
            \/ slotRows' = {} /\ blockRows' = {}
BY DEF ResetsTogether, Reset, ResetValidators, ResetDeposits, ResetWithdrawals, ResetSlots,
       validators, balances

LEMMA DepositsWritten ==
  ASSUME InsertDeposits
  PROVE  /\ depRows' = depRows \cup NewDeposits
         /\ UNCHANGED <<valRows, psig, withdrawn, wdRows, slotRows, blockRows, batch, chain>>
         /\ pc = "insertDeposits" /\ pc' = "withdrawals"
BY DEF InsertDeposits, Goto, validators, balances, outside

LEMMA SlotsWritten ==
  ASSUME IInv, BlocksInv, InsertSlots, ~ Raise
  PROVE  /\ \A s \in slotRows' : s \in slotRows \/ s \in first .. last
         /\ blockRows' = blockRows \cup got /\ got = chain.block \cap (first .. last)
         /\ UNCHANGED <<valRows, psig, withdrawn, depRows, wdRows, batch, chain>>
         /\ pc = "slots" /\ pc' = "fees"
BY DEF InsertSlots, SlotBatch, BlocksInv, Fetched, Stages, Goto, validators, balances, outside

LEMMA ProposedInvStep ==
  ASSUME ResetsTogether, IInv, IInv', [Next]_vars, BlocksInv, ProposedInv
  PROVE  ProposedInv'
<1> USE DEF ProposedInv
<1>1. Frame /\ Entered
  BY Writers, Entries
<1>2. UNCHANGED chain /\ \A d : DepPk(d)' = DepPk(d) /\ DepSlot(d)' = DepSlot(d)
  BY <1>1, EventsKept DEF Frame
<1> USE DEF Known, Fetched, Stages, AfterValidators
<1>3. CASE Reset
  BY <1>2, <1>3, ValidatorsReset
<1>4. CASE InsertValidators /\ ~ Raise
  <2>1. \A pk \in Proposed : Start < chain.proposed[pk]
    <3> SUFFICES ASSUME NEW pk \in Proposed PROVE Start < chain.proposed[pk]
      OBVIOUS
    <3>1. PICK s \in got : s <= chain.proposed[pk]
      BY DEF Proposed, InEventRange
    <3>2. s \in Slot /\ pk \in Pk
      BY DEF IInv, TypeOK, Proposed
    <3>3. QED
      BY <3>1, <3>2, EventsDated DEF Slot
  <2>2. \A pk \in Pk : chain.proposed[pk] \in got => pk \in Proposed
    BY EventsDated DEF Proposed, InEventRange
  <2>3. QED
    BY <1>2, <1>4, <2>1, <2>2, ValidatorsWritten DEF batch
<1>5. CASE InsertDeposits
  <2>1. ASSUME NEW e \in NewDeposits, NEW pk \in Pk,
               Start < chain.proposed[pk], chain.proposed[pk] <= DepSlot(e)
        PROVE  Known(pk)
    <3>1. chain.proposed[pk] \in chain.block \cup {Start} /\ chain.proposed[pk] \in Nat
      BY EventsDated
    <3>2. DepSlot(e) \in got /\ DepSlot(e) \in Nat /\ pc = "insertDeposits"
      BY <1>5, EventsDated DEF NewDeposits, InsertDeposits
    <3>3. DepSlot(e) <= last /\ last \in Nat
      BY <3>2 DEF IInv, LogInv, BatchHasBlock, TypeOK
    <3>4. chain.proposed[pk] \in got \/ chain.proposed[pk] \in slotRows
      BY <3>1, <3>2, <3>3, <2>1, EventsPlaced DEF Open
    <3>5. QED
      BY <3>4, <3>2
  <2>2. QED
    BY <1>2, <1>5, <2>1, DepositsWritten DEF batch
<1>6. CASE InsertSlots /\ ~ Raise
  <2>1. ASSUME NEW pk \in Pk, chain.proposed[pk] \in first .. last
        PROVE  Known(pk)
    <3>1. pc = "slots" /\ Start < first /\ first \in Nat
      BY <1>6 DEF InsertSlots, IInv, LogInv, BatchFollowsLog, TypeOK, Open
    <3>2. chain.proposed[pk] \in got
      BY <3>1, <2>1, <1>6, EventsDated, SlotsWritten
    <3>3. QED
      BY <3>1, <3>2
  <2>2. QED
    BY <1>2, <1>6, <2>1, SlotsWritten
<1>7. CASE UNCHANGED <<valRows, depRows, slotRows>> /\ ~ InsertValidators
  BY <1>1, <1>2, <1>7 DEF Entered, batch, FetchSlots, Goto, Raise, Stop
<1>8. CASE Raise
  BY <1>2, <1>8 DEF Raise, Stop, tables, validators
<1>9. QED
  BY <1>1, <1>3, <1>4, <1>5, <1>6, <1>7, <1>8 DEF Frame
LEMMA RecordedInvStep ==
  ASSUME ResetsTogether, IInv, IInv', [Next]_vars, BlocksInv, ProposedInv, RecordedInv
  PROVE  RecordedInv'
<1> USE DEF RecordedInv, SavedDepositsRecorded, Ours, Known
<1>1. Frame /\ Entered
  BY Writers, Entries
<1>2. UNCHANGED chain /\ \A d : DepPk(d)' = DepPk(d) /\ DepSlot(d)' = DepSlot(d)
  BY <1>1, EventsKept DEF Frame
<1> USE DEF Fetched, Stages, AfterDeposits
<1>3. CASE Reset
  BY <1>2, <1>3, ValidatorsReset
<1>4. CASE InsertValidators /\ ~ Raise
  <2>1. ASSUME NEW d \in Deposit, DepPk(d) \in valRows', DepPk(d) \notin valRows,
               chain.proposed[DepPk(d)] <= DepSlot(d)
        PROVE  /\ DepSlot(d) \notin blockRows
               /\ \A e \in depRows : DepSlot(e) # DepSlot(d)
    <3>1. DepPk(d) \in Proposed /\ pc = "validators"
      BY <1>4, <2>1, ValidatorsWritten
    <3>2. PICK s \in got : s <= chain.proposed[DepPk(d)]
      BY <3>1 DEF Proposed, InEventRange
    <3>3. s >= first /\ s \in Nat /\ first \in Nat /\ s > Start
      <4>1. got \subseteq Slot /\ first \in Nat /\ last \in Nat
        BY DEF IInv, TypeOK
      <4>2. got \subseteq first .. last
        BY <3>1 DEF IInv, LogInv, BatchHasBlock
      <4>3. s \in first .. last /\ s \in Slot
        BY <4>1, <4>2
      <4>4. QED
        BY <4>1, <4>3, SlotAssumption DEF Slot
    <3>4. DepSlot(d) \in Nat /\ chain.proposed[DepPk(d)] \in Nat
      BY EventsDated
    <3>5. slotRows = Start + 1 .. first - 1 /\ blockRows \subseteq slotRows
      BY <3>1 DEF IInv, LogInv, BatchFollowsLog, TypeOK, Open
    <3>6. DepSlot(d) \notin blockRows
      BY <3>2, <3>3, <3>4, <3>5, <2>1, SlotAssumption
    <3>7. ASSUME NEW e \in depRows, DepSlot(e) = DepSlot(d) PROVE FALSE
      <4>1. DepPk(d) \in Pk /\ Start < chain.proposed[DepPk(d)]
        BY <3>2, <3>3, <3>4, EventsDated
      <4>2. QED
        BY <4>1, <3>7, <2>1 DEF ProposedInv
    <3>8. QED
      BY <3>6, <3>7
  <2>2. depRows \subseteq Deposit
    BY DEF IInv, TypeOK
  <2>3. QED
    BY <1>2, <1>4, <2>1, <2>2, ValidatorsWritten
<1>5. CASE InsertDeposits
  <2>1. \A d \in Deposit : DepSlot(d) \in got /\ Ours(d) => d \in depRows \cup NewDeposits
    BY DEF NewDeposits, SavedDeposits
  <2>2. \A e \in NewDeposits : DepSlot(e) \in got /\ Known(DepPk(e))
    BY DEF NewDeposits
  <2>3. QED
    BY <1>2, <1>5, <2>1, <2>2, DepositsWritten DEF batch
<1>6. CASE ProcessDeposits /\ ~ Raise /\ pc' \in AfterDeposits
  <2>1. NewDeposits = {} /\ UNCHANGED <<valRows, depRows, blockRows, got>>
    BY <1>6 DEF ProcessDeposits, Goto, tables, validators, batch
  <2>2. \A d \in Deposit : DepSlot(d) \in got /\ Ours(d) => d \in depRows
    BY <2>1 DEF NewDeposits, SavedDeposits
  <2>3. QED
    BY <1>2, <2>1, <2>2
<1>7. CASE InsertSlots /\ ~ Raise
  BY <1>2, <1>7, SlotsWritten
<1>8. CASE /\ UNCHANGED <<valRows, depRows, blockRows>> /\ ~ InsertDeposits
           /\ ~ (ProcessDeposits /\ ~ Raise /\ pc' \in AfterDeposits)
  BY <1>1, <1>2, <1>8 DEF Entered, batch, FetchSlots, Goto, Raise, Stop
<1>9. CASE Raise
  BY <1>2, <1>9 DEF Raise, Stop, tables, validators
<1>10. QED
  BY <1>1, <1>3, <1>4, <1>5, <1>6, <1>7, <1>8, <1>9 DEF Frame

LEMMA WithdrawalsWritten ==
  ASSUME InsertWithdrawals
  PROVE  /\ wdRows' = wdRows \cup NewWithdrawals
         /\ UNCHANGED <<valRows, psig, withdrawn, depRows, slotRows, blockRows, batch, chain>>
         /\ pc = "insertWithdrawals" /\ pc' = "slots"
BY DEF InsertWithdrawals, Goto, validators, balances, outside

(* When a batch comes to its withdrawals, those it must add are new.       *)
LEMMA OwedAreNew ==
  ASSUME IInv, BlocksInv, ProposedInv, RecordedInv, DepositsProcessed, CreditedInv,
         pc = "withdrawals",
         NEW w \in Withdrawal, WdSlot(w) \in got, ~ Credited(w)
  PROVE  w \in NewWithdrawals
<1>1. PICK d \in Deposit :
        /\ DepPk(d) = WdPk(w) /\ DepSlot(d) <= WdSlot(w)
        /\ Start < chain.proposed[DepPk(d)] /\ chain.proposed[DepPk(d)] <= DepSlot(d)
  BY DEF Credited
<1> DEFINE pk == DepPk(d)
<1>2. /\ Start \in Nat /\ pk \in Pk /\ WdSlot(w) \in Nat /\ DepSlot(d) \in Nat
      /\ chain.proposed[pk] \in Nat /\ chain.proposed[pk] \in chain.block \cup {Start}
      /\ DepSlot(d) \in chain.block \cup {Start}
  BY EventsDated
<1>3. WdSlot(w) <= last /\ last \in Nat
  BY <1>2 DEF IInv, LogInv, BatchHasBlock, Fetched, Stages, TypeOK
<1>4. chain.proposed[pk] \in got \/ chain.proposed[pk] \in slotRows
  <2>1. Start < chain.proposed[pk] /\ ~ (chain.proposed[pk] > last)
    BY <1>1, <1>2, <1>3
  <2>2. QED
    BY <1>2, <2>1, EventsPlaced DEF Open, Fetched, Stages
<1>5. Known(pk)
  BY <1>2, <1>4 DEF ProposedInv, AfterValidators
<1>6. DepSlot(d) \in got \/ DepSlot(d) \in blockRows
  <2>1. Start < DepSlot(d) /\ ~ (DepSlot(d) > last)
    BY <1>1, <1>2, <1>3
  <2>2. QED
    BY <1>2, <2>1, EventsPlaced DEF Open, Fetched, Stages
<1>7. d \in depRows
  BY <1>1, <1>5, <1>6 DEF RecordedInv, SavedDepositsRecorded, Ours, AfterDeposits
<1>8. KnownIndex(WdPk(w))
  BY <1>1, <1>5, <1>7 DEF DepositsProcessed, KnownIndex
<1>9. ~ SavedWithdrawals(WdSlot(w))
  BY DEF SavedWithdrawals, CreditedInv
<1>10. QED
  BY <1>8, <1>9 DEF NewWithdrawals
LEMMA CreditedInvStep ==
  ASSUME ResetsTogether, IInv, IInv', [Next]_vars, BlocksInv, ProposedInv, RecordedInv,
         DepositsProcessed, CreditedInv
  PROVE  CreditedInv'
<1> USE DEF CreditedInv, SavedWithdrawalsCredited, Credited
<1>1. Frame /\ Entered
  BY Writers, Entries
<1>2. /\ UNCHANGED chain /\ \A d : DepPk(d)' = DepPk(d) /\ DepSlot(d)' = DepSlot(d)
      /\ \A w : WdPk(w)' = WdPk(w) /\ WdSlot(w)' = WdSlot(w)
  BY <1>1, EventsKept DEF Frame
<1> USE DEF Fetched, Stages, AfterWithdrawals
<1>3. CASE Reset
  BY <1>2, <1>3, ValidatorsReset
<1>4. CASE InsertDeposits
  <2>1. ASSUME NEW d \in NewDeposits, NEW w \in Withdrawal,
               WdSlot(w) \in blockRows, DepSlot(d) <= WdSlot(w)
        PROVE  FALSE
    <3>1. /\ slotRows = Start + 1 .. first - 1 /\ blockRows \subseteq slotRows
          /\ got \subseteq first .. last /\ first \in Nat /\ last \in Nat
      <4>1. pc = "insertDeposits"
        BY <1>4 DEF InsertDeposits
      <4>2. slotRows = Start + 1 .. first - 1 /\ got \subseteq first .. last
        BY <4>1 DEF IInv, LogInv, BatchFollowsLog, BatchHasBlock, Open
      <4>3. blockRows \subseteq slotRows /\ first \in Nat /\ last \in Nat
        BY DEF IInv, TypeOK
      <4>4. QED
        BY <4>2, <4>3
    <3>2. DepSlot(d) \in got
      BY DEF NewDeposits
    <3>3. DepSlot(d) \in first .. last /\ WdSlot(w) \in Start + 1 .. first - 1
      BY <2>1, <3>1, <3>2
    <3>4. QED
      BY <2>1, <3>1, <3>3, SlotAssumption
  <2>2. QED
    BY <1>2, <1>4, <2>1, DepositsWritten DEF batch
<1>5. CASE ProcessWithdrawals /\ ~ Raise
  <2>1. /\ pc = "withdrawals" /\ UNCHANGED <<got, depRows, wdRows, blockRows>>
        /\ \/ NewWithdrawals = {} /\ UNCHANGED withdrawn
           \/ withdrawn' = [w \in Withdrawal |->
                              withdrawn[w] + IF w \in NewWithdrawals THEN 1 ELSE 0]
    BY <1>5 DEF ProcessWithdrawals, IncreaseWithdrawn, tables, validators, balances, batch
  <2>2. withdrawn \in [Withdrawal -> Nat]
    BY DEF IInv, TypeOK
  <2>3. \A w \in Withdrawal : withdrawn[w] > 0 => withdrawn'[w] > 0
    BY <2>1, <2>2
  <2>4. \A w \in NewWithdrawals : withdrawn'[w] > 0
    BY <2>1, <2>2 DEF NewWithdrawals
  <2>5. \A w \in Withdrawal : WdSlot(w) \in got => Credited(w) \/ w \in NewWithdrawals
    BY <2>1, OwedAreNew
  <2>6. \A w \in Withdrawal : Credited(w) => Credited(w)'
    BY <1>2, <2>3
  <2>7. \A w \in NewWithdrawals : Credited(w)'
    BY <2>4
  <2>8. \A v \in wdRows, w \in Withdrawal : WdSlot(w) = WdSlot(v) => Credited(w)'
    BY <2>6
  <2>9. \A w \in Withdrawal : WdSlot(w) \in got => Credited(w)'
    BY <2>5, <2>6, <2>7
  <2>10. SavedWithdrawalsCredited'
    BY <1>2, <2>1, <2>3
  <2>11. QED
    BY <1>2, <2>1, <2>8, <2>9, <2>10
<1>6. CASE InsertWithdrawals
  <2>1. \A v \in NewWithdrawals : WdSlot(v) \in got
    BY DEF NewWithdrawals
  <2>2. QED
    BY <1>2, <1>6, <2>1, WithdrawalsWritten DEF batch
<1>7. CASE InsertSlots /\ ~ Raise
  <2>1. ASSUME NEW w \in Withdrawal, NEW d \in depRows,
               WdSlot(w) \in got, DepPk(d) = WdPk(w),
               chain.proposed[DepPk(d)] <= DepSlot(d), DepSlot(d) <= WdSlot(w)
        PROVE  withdrawn[w] > 0
    <3>1. d \in Deposit /\ Start < chain.proposed[DepPk(d)]
      BY DEF IInv, TypeOK, RecordedInv, ProposedInv, Known
    <3>2. pc = "slots"
      BY <1>7 DEF InsertSlots
    <3>3. Credited(w)
      BY <2>1, <3>2
    <3>4. QED
      BY <2>1, <3>1, <3>3
  <2>2. QED
    BY <1>2, <1>7, <2>1, SlotsWritten
<1>8. CASE /\ UNCHANGED <<depRows, wdRows, blockRows, withdrawn>>
           /\ ~ (ProcessWithdrawals /\ ~ Raise)
  BY <1>1, <1>2, <1>8 DEF Entered, batch, FetchSlots, Goto, Raise, Stop
<1>9. CASE Raise
  BY <1>2, <1>9 DEF Raise, Stop, tables, validators, balances
<1>10. QED
  BY <1>1, <1>3, <1>4, <1>5, <1>6, <1>7, <1>8, <1>9 DEF Frame
-----------------------------------------------------------------------------
EventsInv == DepositsInv /\ BlocksInv /\ ProposedInv /\ RecordedInv /\ CreditedInv

LEMMA InitEventsInv == Init => EventsInv
<1> SUFFICES ASSUME Init PROVE EventsInv
  OBVIOUS
<1> USE DEF Init
<1>1. DepositsInv
  BY DEF DepositsInv, DepositsProcessed
<1>2. BlocksInv
  BY DEF BlocksInv, Fetched, Stages
<1>3. ProposedInv
  BY DEF ProposedInv, AfterValidators
<1>4. RecordedInv
  BY DEF RecordedInv, SavedDepositsRecorded, AfterDeposits
<1>5. CreditedInv
  BY DEF CreditedInv, SavedWithdrawalsCredited, AfterWithdrawals
<1>6. QED
  BY <1>1, <1>2, <1>3, <1>4, <1>5 DEF EventsInv

LEMMA EventsInvStep ==
  ASSUME Lossy = {}, ResetsTogether, IInv, IInv', [Next]_vars, EventsInv
  PROVE  EventsInv'
<1>1. ResetsDepositsToo
  BY DEF ResetsTogether, ResetsDepositsToo
<1>2. DepositsInv' /\ BlocksInv' /\ ProposedInv' /\ RecordedInv'
  BY <1>1, DepositsInvStep, BlocksInvStep, ProposedInvStep, RecordedInvStep DEF EventsInv
<1>3. CreditedInv'
  BY CreditedInvStep DEF EventsInv, DepositsInv
<1>4. QED
  BY <1>2, <1>3 DEF EventsInv

(* What the events of the history are to the tables, they are to a copy.   *)
CopyEvents(s) ==
  /\ \A d \in s.depRows : s.psig[DepPk(d)] # None
  /\ s.blockRows = s.slotRows \cap chain.block
  /\ \A pk \in s.valRows : Start < chain.proposed[pk]
  /\ \A pk \in Pk : chain.proposed[pk] \in s.slotRows => pk \in s.valRows
  /\ \A e \in s.depRows, pk \in Pk :
       Start < chain.proposed[pk] /\ chain.proposed[pk] <= DepSlot(e) => pk \in s.valRows
  /\ \A d \in s.depRows : DepPk(d) \in s.valRows
  /\ \A d \in Deposit :
       /\ DepSlot(d) \in s.blockRows \/ \E e \in s.depRows : DepSlot(d) = DepSlot(e)
       /\ DepPk(d) \in s.valRows /\ chain.proposed[DepPk(d)] <= DepSlot(d)
       => d \in s.depRows
  /\ \A v \in s.wdRows, w \in Withdrawal, d \in Deposit :
       /\ WdSlot(w) = WdSlot(v) /\ DepPk(d) = WdPk(w) /\ DepSlot(d) <= WdSlot(w)
       /\ Start < chain.proposed[DepPk(d)] /\ chain.proposed[DepPk(d)] <= DepSlot(d)
       => s.withdrawn[w] > 0
  /\ \A w \in Withdrawal, d \in s.depRows :
       /\ WdSlot(w) \in s.blockRows /\ DepPk(d) = WdPk(w)
       /\ chain.proposed[DepPk(d)] <= DepSlot(d) /\ DepSlot(d) <= WdSlot(w)
       => s.withdrawn[w] > 0

CopiesEventsInv == EventsInv /\ \A s \in saved : CopyEvents(s)

LEMMA CopyEventsKept ==
  ASSUME NEW s, CopyEvents(s), UNCHANGED chain
  PROVE  CopyEvents(s)'
BY DEF CopyEvents, DepPk, DepSlot, WdPk, WdSlot

LEMMA CopyHasEvents ==
  ASSUME EventsInv
  PROVE  CopyEvents(Copy)
BY DEF EventsInv, DepositsInv, DepositsProcessed, BlocksInv, ProposedInv, RecordedInv,
   SavedDepositsRecorded, Ours, CreditedInv, Credited, SavedWithdrawalsCredited, Known, Copy, CopyEvents

LEMMA RestoreHasEvents ==
  ASSUME Restore, \A s \in saved : CopyEvents(s)
  PROVE  EventsInv'
<1>1. PICK s \in saved :
        /\ valRows' = s.valRows /\ psig' = s.psig /\ withdrawn' = s.withdrawn
        /\ depRows' = s.depRows /\ wdRows' = s.wdRows
        /\ slotRows' = s.slotRows /\ blockRows' = s.blockRows
  BY DEF Restore
<1>2. pc' = "stopped" /\ UNCHANGED chain
  BY DEF Restore
<1>3. CopyEvents(s)'
  BY <1>2, CopyEventsKept
<1>4. DepositsInv' /\ BlocksInv' /\ ProposedInv'
  BY <1>1, <1>2, <1>3 DEF CopyEvents, DepositsInv, DepositsProcessed, BlocksInv, ProposedInv,
     Known, AfterValidators, Fetched, Stages
<1>5. RecordedInv'
  BY <1>1, <1>2, <1>3 DEF CopyEvents, RecordedInv, SavedDepositsRecorded, Ours, Known, AfterDeposits
<1>6. CreditedInv'
  BY <1>1, <1>2, <1>3 DEF CopyEvents, CreditedInv, Credited, SavedWithdrawalsCredited, AfterWithdrawals
<1>7. QED
  BY <1>4, <1>5, <1>6 DEF EventsInv

LEMMA CopiesEventsStep ==
  ASSUME Lossy = {}, ResetsTogether, BackupInv, BackupInv', [BackupNext]_backupVars,
         CopiesEventsInv
  PROVE  CopiesEventsInv'
<1> USE DEF CopiesEventsInv
<1>1. CASE [Next]_vars /\ UNCHANGED saved
  BY <1>1, EventsInvStep, HeadGrows, CopyEventsKept DEF BackupInv
<1>2. CASE Backup
  <2>1. [Next]_vars /\ saved' = saved \cup {Copy} /\ UNCHANGED chain
    BY <1>2 DEF Backup, vars, outside
  <2>2. EventsInv'
    BY <2>1, EventsInvStep DEF BackupInv
  <2>3. QED
    BY <2>1, <2>2, CopyHasEvents, CopyEventsKept
<1>3. CASE Restore
  <2>1. UNCHANGED <<chain, saved>>
    BY <1>3 DEF Restore
  <2>2. QED
    BY <1>3, <2>1, RestoreHasEvents, CopyEventsKept
<1>4. QED
  BY <1>1, <1>2, <1>3 DEF BackupNext, backupVars

LEMMA CopiesEventsSpec ==
  ASSUME Lossy = {}, ResetsTogether
  PROVE  BackupSpec => []CopiesEventsInv
<1>1. BackupInit => CopiesEventsInv
  BY InitEventsInv DEF BackupInit, CopiesEventsInv
<1>2. CopiesEventsInv /\ (BackupInv /\ BackupInv' /\ [BackupNext]_backupVars) => CopiesEventsInv'
  BY CopiesEventsStep
<1>3. QED
  BY <1>1, <1>2, BackupSpecInv, PTL DEF BackupSpec

(* Saved means processed: a slot is saved after its deposits, whatever     *)
(* crashes and replays there were, and whatever backup was put back.       *)
THEOREM SavedMeansDepositsRecorded ==
  ASSUME Lossy = {}, ResetsTogether
  PROVE  BackupSpec => []SavedDepositsRecorded
<1>1. CopiesEventsInv => SavedDepositsRecorded
  BY DEF CopiesEventsInv, EventsInv, RecordedInv
<1>2. QED
  BY <1>1, CopiesEventsSpec, PTL

(* ... and after its withdrawals.                                          *)
THEOREM SavedMeansWithdrawalsCredited ==
  ASSUME Lossy = {}, ResetsTogether
  PROVE  BackupSpec => []SavedWithdrawalsCredited
<1>1. CopiesEventsInv => SavedWithdrawalsCredited
  BY DEF CopiesEventsInv, EventsInv, CreditedInv
<1>2. QED
  BY <1>1, CopiesEventsSpec, PTL
-----------------------------------------------------------------------------
(* The batch whose fees are processed is saved.                            *)
SavedBatchInv == pc \in {"fees", "detect"} => got \subseteq blockRows

LEMMA SavedBatchStep ==
  ASSUME IInv, [Next]_vars, SavedBatchInv
  PROVE  SavedBatchInv'
<1> USE DEF SavedBatchInv
<1>1. Frame /\ Entered
  BY Writers, Entries
<1>2. CASE InsertSlots
  BY <1>2 DEF InsertSlots, batch, Raise, Stop
<1>3. CASE Reset
  BY <1>3 DEF Reset
<1>4. CASE ~ InsertSlots /\ ~ Reset
  <2>1. UNCHANGED blockRows
    BY <1>1, <1>4 DEF Frame
  <2>2. ASSUME pc' \in {"fees", "detect"} PROVE pc \in {"fees", "detect"} /\ UNCHANGED got
    <3>1. CASE pc' = "fees"
      BY <1>1, <1>4, <3>1 DEF Frame, batch
    <3>2. CASE pc' = "detect"
      BY <1>1, <3>2 DEF Frame, ProcessFees, EndBatch, Goto, batch, Raise, Stop
    <3>3. QED
      BY <2>2, <3>1, <3>2
  <2>3. QED
    BY <2>1, <2>2
<1>5. QED
  BY <1>2, <1>3, <1>4

FoundThefts ==
  pc \in {"fees", "detect"} /\ pc' = "loop" => KnownThefts \cup thefts \subseteq thefts'

LEMMA TheftsFoundStep ==
  ASSUME IInv, [Next]_vars, NoOrphanValidators, SavedBatchInv
  PROVE  FoundThefts
<1> SUFFICES ASSUME pc \in {"fees", "detect"}, pc' = "loop"
             PROVE  KnownThefts \cup thefts \subseteq thefts'
  BY DEF FoundThefts
<1>1. KnownThefts \subseteq OurBlocks \cap chain.theft
  <2> SUFFICES ASSUME NEW s \in KnownThefts PROVE s \in OurBlocks /\ s \in chain.theft
    OBVIOUS
  <2>1. /\ s \in first + 1 .. last /\ s \in got /\ s \in chain.theft
        /\ KnownIndex(chain.proposer[s])
    BY DEF KnownThefts
  <2>2. first \in Nat /\ last \in Nat
    BY DEF IInv, TypeOK
  <2>3. s > first
    BY <2>1, <2>2
  <2>4. s \in blockRows
    BY <2>1 DEF SavedBatchInv
  <2>5. chain.poolOf[chain.proposer[s]] < poolRows
    BY <2>1 DEF KnownIndex, Known, NoOrphanValidators
  <2>6. QED
    BY <2>1, <2>3, <2>4, <2>5 DEF OurBlocks
<1>2. CASE ProcessFees
  <2>1. OurBlocks = {} /\ UNCHANGED thefts
    BY <1>2 DEF ProcessFees, Goto, Raise, Stop
  <2>2. QED
    BY <1>1, <2>1
<1>3. CASE DetectThefts
  BY <1>1, <1>3 DEF DetectThefts
<1>4. ASSUME ~ ProcessFees, ~ DetectThefts PROVE FALSE
  <2>1. CASE UNCHANGED vars
    BY <2>1 DEF vars
  <2>2. CASE Raise \/ Crash \/ Restart \/ Reset
    BY <2>2 DEF Raise, Crash, Stop, Restart, Reset, Goto
  <2>3. CASE Trigger \/ NextBatch \/ LoopEnd \/ Regulate
    BY <2>3 DEF Trigger, NextBatch, LoopEnd, Regulate
  <2>4. CASE (Report \/ Verify) /\ ~ Raise
    BY <2>4 DEF Report, Verify
  <2>5. CASE (FetchSlots \/ UpdatePools \/ InsertValidators) /\ ~ Raise
    BY <2>5 DEF FetchSlots, UpdatePools, InsertValidators
  <2>6. CASE (ProcessDeposits \/ InsertDeposits) /\ ~ Raise
    BY <2>6 DEF ProcessDeposits, InsertDeposits
  <2>7. CASE (ProcessWithdrawals \/ InsertWithdrawals \/ InsertSlots) /\ ~ Raise
    BY <2>7 DEF ProcessWithdrawals, InsertWithdrawals, InsertSlots
  <2>8. QED
    BY <1>4, <2>1, <2>2, <2>3, <2>4, <2>5, <2>6, <2>7 DEF Next, Step, Index
<1>5. QED
  BY <1>2, <1>3, <1>4

(* The theft of a block after the first of its batch is found, and no      *)
(* theft found before is lost on the way to the report.                    *)
THEOREM TheftsAreFound ==
  ASSUME ResetsDepositsToo, ResetsValidatorsToo
  PROVE  BackupSpec => TheftsFound
<1>1. BackupInit => SavedBatchInv
  BY DEF BackupInit, Init, SavedBatchInv
<1>2. SavedBatchInv /\ (BackupInv /\ [BackupNext]_backupVars) => SavedBatchInv'
  BY SavedBatchStep DEF BackupInv, BackupNext, backupVars, Backup, Restore, SavedBatchInv
<1>3. RowsInv /\ SavedBatchInv /\ BackupInv /\ [BackupNext]_backupVars => [FoundThefts]_vars
  BY TheftsFoundStep DEF BackupInv, BackupNext, backupVars, Backup, Restore, RowsInv, PoolsInv,
     FoundThefts
<1>4. QED
  BY <1>1, <1>2, <1>3, BackupSpecInv, RowsSpecInv, PTL DEF BackupSpec, TheftsFound, FoundThefts
-----------------------------------------------------------------------------
(* A reset that makes geoscope read slots again, or forget which deposits  *)
(* it has, makes it forget the validators.                                 *)
ResetsReadAgain ==
  \A T \in ResetChoices : T \cap {"Slots", "Deposits"} # {} => "Validators" \in T

(* No batch raises between its two transactions on deposits and its slots, *)
(* or it has recorded all the deposits of its slots when it does.          *)
ReadsKeepDeposits == Lossy = {} \/ "raise" \notin BalanceReads

(* The stages between the deposits of a batch and its slots.               *)
Window == {"insertDeposits"} \cup AfterDeposits

(* A deposit that filter_deposits_batch will never let through again.      *)
Behind(d) ==
  \/ SavedDeposits(DepSlot(d))
  \/ DepSlot(d) \in slotRows
  \/ pc \in Window /\ DepSlot(d) \in first .. last

(* The deposits up to a validator's proposal_signature are behind.         *)
OrderInv ==
  \A d \in Deposit :
    /\ psig[DepPk(d)] # None /\ d <= psig[DepPk(d)] /\ DepSlot(d) \in chain.block
    => Behind(d)

StakeInv ==
  /\ \A pk \in Pk : psig[pk] # None => Known(pk)
  /\ \A pk \in Pk : ssig[pk] # None => psig[pk] # None /\ psig[pk] < ssig[pk]
  /\ OrderInv
  /\ pc \in AfterDeposits =>
       \A d \in Deposit : DepSlot(d) \in got /\ Known(DepPk(d)) => SavedDeposits(DepSlot(d))

(* A step that writes none of it, within the window or outside of it.      *)
LEMMA StakeKept ==
  ASSUME StakeInv, UNCHANGED <<chain, valRows, psig, ssig, depRows, slotRows>>,
         pc \in Window => pc' \in Window /\ UNCHANGED batch,
         pc' \in AfterDeposits => pc \in AfterDeposits
  PROVE  StakeInv'
<1>1. \A d : DepPk(d)' = DepPk(d) /\ DepSlot(d)' = DepSlot(d)
  BY EventsKept
<1>2. \A slot : SavedDeposits(slot)' = SavedDeposits(slot)
  BY DEF SavedDeposits, DepSlot
<1>3. \A d \in Deposit : Behind(d) => Behind(d)'
  BY <1>1, <1>2 DEF Behind, batch
<1>4. OrderInv'
  BY <1>1, <1>3 DEF StakeInv, OrderInv
<1>5. pc' \in AfterDeposits => UNCHANGED got
  BY DEF Window, batch
<1>6. QED
  BY <1>1, <1>2, <1>4, <1>5 DEF StakeInv, Known

(* A deposit that is let through comes after every one that is behind.     *)
LEMMA NewAreLater ==
  ASSUME IInv, StakeInv, pc = "deposits", NEW d \in NewDeposits, psig[DepPk(d)] # None
  PROVE  psig[DepPk(d)] < d
<1>1. d \in Deposit /\ DepSlot(d) \in got /\ ~ SavedDeposits(DepSlot(d))
  BY DEF NewDeposits
<1>2. DepSlot(d) \in first .. last /\ slotRows = Start + 1 .. first - 1
      /\ first \in Nat /\ last \in Nat /\ DepPk(d) \in Pk
  BY <1>1, EventsDated DEF IInv, TypeOK, LogInv, BatchFollowsLog, BatchHasBlock, Open, Fetched, Stages
<1>3. DepSlot(d) \in chain.block
  <2>1. DepSlot(d) \in Slot
    BY <1>1 DEF IInv, TypeOK
  <2>2. DepSlot(d) # Start
    BY <2>1, SlotAssumption DEF Slot
  <2>3. QED
    BY <1>1, <2>2, EventsDated
<1>4. ~ Behind(d)
  BY <1>1, <1>2, SlotAssumption DEF Behind, Window, AfterDeposits
<1>5. ~ (d <= psig[DepPk(d)])
  BY <1>1, <1>3, <1>4 DEF StakeInv, OrderInv
<1>6. psig[DepPk(d)] \in Nat /\ d \in Nat
  BY <1>1, <1>2, DepositAssumption DEF IInv, TypeOK
<1>7. QED
  BY <1>5, <1>6

LEMMA ProcessDepositsStake ==
  ASSUME IInv, StakeInv, ProcessDeposits, ~ Raise
  PROVE  StakeInv'
<1>1. CASE NewDeposits = {} /\ pc' = "withdrawals"
  <2>1. /\ pc = "deposits" /\ UNCHANGED <<tables, batch, chain>>
    BY <1>1 DEF ProcessDeposits, Raise, Stop, Touched, outside
  <2>2. \A d : DepPk(d)' = DepPk(d) /\ DepSlot(d)' = DepSlot(d)
    BY <2>1, EventsKept
  <2>3. \A slot : SavedDeposits(slot)' = SavedDeposits(slot)
    BY <2>1 DEF SavedDeposits, DepSlot, tables
  <2>4. \A d \in Deposit : Behind(d) => Behind(d)'
    BY <2>1, <2>2, <2>3 DEF Behind, Window, AfterDeposits, tables
  <2>5. OrderInv'
    BY <2>1, <2>2, <2>4 DEF StakeInv, OrderInv, tables, validators
  <2>6. \A d \in Deposit : DepSlot(d) \in got /\ Known(DepPk(d)) => SavedDeposits(DepSlot(d))
    BY <1>1 DEF NewDeposits
  <2>7. QED
    BY <2>1, <2>2, <2>3, <2>5, <2>6 DEF StakeInv, Known, tables, validators, batch
<1>2. CASE NewDeposits # {} /\ pc' = "insertDeposits"
  <2> DEFINE D == NewDeposits
  <2>1. /\ pc = "deposits"
        /\ psig' = [pk \in Pk |-> IF pk \in Touched(D) /\ FillsProposal(pk)
                                  THEN LatestOf(D, pk) ELSE psig[pk]]
        /\ ssig' = [pk \in Pk |-> IF pk \in Touched(D) /\ FillsStake(pk)
                                  THEN LatestOf(D, pk) ELSE ssig[pk]]
        /\ \A pk \in Touched(D) : ssig[pk] = None
        /\ UNCHANGED <<chain, valRows, depRows, slotRows, batch>>
    BY <1>2 DEF ProcessDeposits, Goto, outside
  <2>2. /\ \A d : DepPk(d)' = DepPk(d) /\ DepSlot(d)' = DepSlot(d)
        /\ \A slot : SavedDeposits(slot)' = SavedDeposits(slot)
    BY <2>1, EventsKept DEF SavedDeposits, DepSlot
  <2>3. \A pk \in Touched(D) : LatestOf(D, pk) \in D /\ DepPk(LatestOf(D, pk)) = pk
    BY LatestOfIsOne DEF NewDeposits
  <2>4. ASSUME NEW pk \in Pk, psig'[pk] # None PROVE Known(pk)'
    <3>1. CASE pk \in Touched(D)
      BY <2>1, <3>1 DEF Touched, NewDeposits, Known
    <3>2. CASE pk \notin Touched(D)
      BY <2>1, <2>4, <3>2 DEF StakeInv, Known
    <3>3. QED
      BY <3>1, <3>2
  <2>5. ASSUME NEW pk \in Pk, ssig'[pk] # None
        PROVE  psig'[pk] # None /\ psig'[pk] < ssig'[pk]
    <3>1. CASE pk \in Touched(D) /\ FillsStake(pk)
      <4>1. psig'[pk] = psig[pk] /\ ssig'[pk] = LatestOf(D, pk) /\ psig[pk] # None
        BY <2>1, <3>1 DEF FillsStake, FillsProposal
      <4>2. psig[pk] < LatestOf(D, pk)
        BY <2>1, <2>3, <3>1, <4>1, NewAreLater
      <4>3. QED
        BY <4>1, <4>2
    <3>2. CASE pk \in Touched(D) /\ ~ FillsStake(pk)
      BY <2>1, <2>5, <3>2
    <3>3. CASE pk \notin Touched(D)
      BY <2>1, <2>5, <3>3 DEF StakeInv
    <3>4. QED
      BY <3>1, <3>2, <3>3
  <2>6. ASSUME NEW d \in Deposit, psig'[DepPk(d)] # None, d <= psig'[DepPk(d)],
               DepSlot(d) \in chain.block
        PROVE  Behind(d)'
    <3> DEFINE pk == DepPk(d)
    <3>1. pk \in Pk
      BY EventsDated
    <3>2. CASE pk \in Touched(D) /\ FillsProposal(pk)
      <4> DEFINE e == LatestOf(D, pk)
      <4>1. e \in D /\ psig'[pk] = e
        BY <2>1, <2>3, <3>1, <3>2
      <4>2. e \in Deposit /\ DepSlot(e) \in got
        BY <4>1 DEF NewDeposits
      <4>3. DepSlot(d) <= DepSlot(e)
        <5> HIDE DEF e
        <5>1. d = e \/ d < e
          BY <2>6, <4>1, <4>2, DepositAssumption
        <5>2. d < e => DepSlot(d) <= DepSlot(e)
          BY <4>2 DEF IInv, TypeOK, LegalChain, DepSlot
        <5>3. QED
          BY <4>2, <5>1, <5>2, EventsDated
      <4>4. DepSlot(e) <= last /\ slotRows = Start + 1 .. first - 1
            /\ first \in Nat /\ last \in Nat
        BY <2>1, <4>2 DEF IInv, TypeOK, LogInv, BatchFollowsLog, BatchHasBlock, Open, Fetched, Stages
      <4>5. DepSlot(d) \in Slot /\ DepSlot(d) \in Nat /\ DepSlot(e) \in Nat
        BY <2>6, <4>2, EventsDated, ChainTyped DEF IInv
      <4>6. DepSlot(d) \in slotRows \/ DepSlot(d) \in first .. last
        BY <4>3, <4>4, <4>5, SlotAssumption DEF Slot
      <4>7. QED
        BY <1>2, <2>1, <2>2, <4>6 DEF Behind, Window, batch
    <3>3. CASE ~ (pk \in Touched(D) /\ FillsProposal(pk))
      <4>1. psig'[pk] = psig[pk]
        BY <2>1, <3>1, <3>3
      <4>2. Behind(d)
        BY <2>6, <4>1 DEF StakeInv, OrderInv
      <4>3. QED
        BY <2>1, <2>2, <4>2 DEF Behind, Window, AfterDeposits
    <3>4. QED
      BY <3>2, <3>3
  <2>7. OrderInv'
    BY <2>1, <2>2, <2>6 DEF OrderInv
  <2>8. pc' \notin AfterDeposits
    BY <1>2 DEF AfterDeposits
  <2>9. QED
    BY <2>4, <2>5, <2>7, <2>8 DEF StakeInv
<1>3. QED
  BY <1>1, <1>2 DEF ProcessDeposits, Goto

LEMMA InsertDepositsStake ==
  ASSUME IInv, StakeInv, InsertDeposits
  PROVE  StakeInv'
<1>1. /\ pc = "insertDeposits" /\ pc' = "withdrawals" /\ depRows' = depRows \cup NewDeposits
      /\ UNCHANGED <<chain, valRows, psig, ssig, slotRows, batch>>
  BY DEF InsertDeposits, Goto, validators, outside
<1>2. /\ \A d : DepPk(d)' = DepPk(d) /\ DepSlot(d)' = DepSlot(d)
      /\ \A slot : SavedDeposits(slot) => SavedDeposits(slot)'
  BY <1>1, EventsKept DEF SavedDeposits
<1>3. \A d \in Deposit : Behind(d) => Behind(d)'
  BY <1>1, <1>2 DEF Behind, Window, AfterDeposits, batch
<1>4. OrderInv'
  BY <1>1, <1>2, <1>3 DEF StakeInv, OrderInv
<1>5. ASSUME NEW d \in Deposit, DepSlot(d) \in got, Known(DepPk(d))
      PROVE  SavedDeposits(DepSlot(d))'
  <2>1. CASE SavedDeposits(DepSlot(d))
    BY <1>2, <2>1
  <2>2. CASE d \in NewDeposits
    BY <1>1, <1>2, <2>2 DEF SavedDeposits
  <2>3. QED
    BY <1>5, <2>1, <2>2 DEF NewDeposits
<1>6. QED
  BY <1>1, <1>2, <1>4, <1>5 DEF StakeInv, Known, batch

(* A batch whose withdrawals raise has recorded the deposits of its slots. *)
LEMMA WithdrawalsStake ==
  ASSUME ReadsKeepDeposits, Lossy = {} => BlocksInv, IInv, StakeInv, ProcessWithdrawals
  PROVE  StakeInv'
<1>1. /\ pc = "withdrawals" /\ pc' \in {"slots", "insertWithdrawals", "stopped"}
      /\ UNCHANGED <<chain, valRows, psig, ssig, depRows, slotRows>>
  BY DEF ProcessWithdrawals, Raise, Stop, Goto, tables, validators, outside
<1>2. CASE ~ Raise
  <2>1. pc' \in AfterDeposits /\ UNCHANGED batch
    BY <1>2 DEF ProcessWithdrawals, AfterDeposits, Goto
  <2>2. QED
    BY <1>1, <2>1, StakeKept DEF Window, AfterDeposits
<1>3. CASE Raise
  <2>1. pc' = "stopped"
    BY <1>3 DEF Raise, Stop
  <2>2. CASE "raise" \notin BalanceReads
    BY <1>3, <2>1, <2>2 DEF ProcessWithdrawals, Goto
  <2>3. CASE Lossy = {}
    <3>1. /\ \A d : DepPk(d)' = DepPk(d) /\ DepSlot(d)' = DepSlot(d)
          /\ \A slot : SavedDeposits(slot)' = SavedDeposits(slot)
      BY <1>1, EventsKept DEF SavedDeposits, DepSlot
    <3>2. ASSUME NEW d \in Deposit, psig[DepPk(d)] # None, DepSlot(d) \in chain.block, Behind(d)
          PROVE  SavedDeposits(DepSlot(d)) \/ DepSlot(d) \in slotRows
      <4>1. CASE DepSlot(d) \in first .. last
        <5>1. DepSlot(d) \in got
          BY <1>1, <2>3, <3>2, <4>1 DEF BlocksInv, Fetched, Stages
        <5>2. Known(DepPk(d))
          BY <3>2, EventsDated DEF StakeInv
        <5>3. QED
          BY <1>1, <5>1, <5>2 DEF StakeInv, AfterDeposits
      <4>2. CASE DepSlot(d) \notin first .. last
        BY <3>2, <4>2 DEF Behind
      <4>3. QED
        BY <4>1, <4>2
    <3>3. OrderInv'
      BY <1>1, <3>1, <3>2 DEF StakeInv, OrderInv, Behind
    <3>4. QED
      BY <1>1, <2>1, <3>3 DEF StakeInv, Known, AfterDeposits
  <2>4. QED
    BY <2>2, <2>3 DEF ReadsKeepDeposits
<1>4. QED
  BY <1>2, <1>3

(* insert_slots_batch meets no row of its batch, and closes the window.    *)
LEMMA InsertSlotsStake ==
  ASSUME IInv, StakeInv, InsertSlots
  PROVE  StakeInv'
<1>1. pc = "slots" /\ slotRows \cap SlotBatch = {}
  <2>1. pc = "slots"
    BY DEF InsertSlots
  <2>2. slotRows = Start + 1 .. first - 1 /\ first \in Nat
    BY <2>1, SlotsAppended DEF IInv, TypeOK
  <2>3. QED
    BY <2>1, <2>2, SlotAssumption DEF SlotBatch
<1>2. /\ pc' = "fees" /\ slotRows' = slotRows \cup (first .. last)
      /\ UNCHANGED <<chain, valRows, psig, ssig, depRows>>
  BY <1>1 DEF InsertSlots, SlotBatch, Goto, validators, outside
<1>3. /\ \A d : DepPk(d)' = DepPk(d) /\ DepSlot(d)' = DepSlot(d)
      /\ \A slot : SavedDeposits(slot)' = SavedDeposits(slot)
  BY <1>2, EventsKept DEF SavedDeposits, DepSlot
<1>4. \A d \in Deposit : Behind(d) => Behind(d)'
  BY <1>2, <1>3 DEF Behind
<1>5. OrderInv'
  BY <1>2, <1>3, <1>4 DEF StakeInv, OrderInv
<1>6. QED
  BY <1>2, <1>5 DEF StakeInv, Known, AfterDeposits

(* A reset that leaves the validators keeps what is behind them behind.    *)
ResetKeepsOrder ==
  \/ psig' = [pk \in Pk |-> None] /\ ssig' = [pk \in Pk |-> None]
  \/ /\ UNCHANGED <<valRows, psig, ssig, depRows>>
     /\ \A d \in Deposit :
          DepSlot(d) \in chain.block \cap slotRows /\ Known(DepPk(d)) =>
            DepSlot(d) \in slotRows' \/ SavedDeposits(DepSlot(d))

LEMMA ResetStake ==
  ASSUME IInv, StakeInv, Reset, ResetKeepsOrder
  PROVE  StakeInv'
<1>1. pc = "stopped" /\ pc' = "stopped" /\ UNCHANGED chain
  BY DEF Reset
<1>2. \A d : DepPk(d)' = DepPk(d) /\ DepSlot(d)' = DepSlot(d)
  BY <1>1, EventsKept
<1>3. CASE psig' = [pk \in Pk |-> None] /\ ssig' = [pk \in Pk |-> None]
  <2>1. OrderInv'
    BY <1>2, <1>3, EventsDated DEF OrderInv
  <2>2. QED
    BY <1>1, <1>3, <2>1 DEF StakeInv, AfterDeposits
<1>4. CASE /\ UNCHANGED <<valRows, psig, ssig, depRows>>
           /\ \A d \in Deposit :
                DepSlot(d) \in chain.block \cap slotRows /\ Known(DepPk(d)) =>
                  DepSlot(d) \in slotRows' \/ SavedDeposits(DepSlot(d))
  <2>1. \A slot : SavedDeposits(slot)' = SavedDeposits(slot)
    BY <1>1, <1>4 DEF SavedDeposits, DepSlot
  <2>2. ASSUME NEW d \in Deposit, psig[DepPk(d)] # None, DepSlot(d) \in chain.block, Behind(d)
        PROVE  Behind(d)'
    <3>1. Known(DepPk(d))
      BY <2>2, EventsDated DEF StakeInv
    <3>2. SavedDeposits(DepSlot(d)) \/ DepSlot(d) \in slotRows
      BY <1>1, <2>2 DEF Behind, Window, AfterDeposits
    <3>3. QED
      BY <1>2, <1>4, <2>1, <2>2, <3>1, <3>2 DEF Behind
  <2>3. OrderInv'
    BY <1>1, <1>2, <1>4, <2>2 DEF StakeInv, OrderInv
  <2>4. QED
    BY <1>1, <1>4, <2>3 DEF StakeInv, Known, AfterDeposits
<1>5. QED
  BY <1>3, <1>4 DEF ResetKeepsOrder

LEMMA StakeInvStep ==
  ASSUME ReadsKeepDeposits, Lossy = {} => BlocksInv, IInv, [Next]_vars, StakeInv,
         Reset => ResetKeepsOrder, ~ Crash
  PROVE  StakeInv'
<1> USE DEF Window, AfterDeposits, Goto
<1>1. Frame /\ Entered
  BY Writers, Entries
<1>2. CASE Reset
  BY <1>2, ResetStake
<1>3. CASE ProcessDeposits /\ ~ Raise
  BY <1>3, ProcessDepositsStake
<1>4. CASE InsertDeposits \/ ProcessWithdrawals \/ InsertSlots
  BY <1>4, InsertDepositsStake, WithdrawalsStake, InsertSlotsStake
<1>5. CASE InsertValidators /\ ~ Raise
  <2>1. /\ pc = "validators" /\ pc' = "deposits" /\ valRows \subseteq valRows'
        /\ UNCHANGED <<chain, psig, ssig, depRows, slotRows>>
    BY <1>5 DEF InsertValidators, InsertRows, outside
  <2>2. /\ \A d : DepPk(d)' = DepPk(d) /\ DepSlot(d)' = DepSlot(d)
        /\ \A slot : SavedDeposits(slot)' = SavedDeposits(slot)
    BY <2>1, EventsKept DEF SavedDeposits, DepSlot
  <2>3. OrderInv'
    BY <2>1, <2>2 DEF StakeInv, OrderInv, Behind
  <2>4. QED
    BY <2>1, <2>3 DEF StakeInv, Known
<1>6. CASE /\ ~ Reset /\ ~ InsertDeposits /\ ~ ProcessWithdrawals /\ ~ InsertSlots
           /\ (Raise \/ ~ ProcessDeposits) /\ (Raise \/ ~ InsertValidators)
  <2>1. UNCHANGED <<chain, valRows, psig, ssig, depRows, slotRows>>
    BY <1>1, <1>6 DEF Frame, Raise, tables, validators
  <2>2. pc \in Window => pc' \in Window /\ UNCHANGED batch
    <3>1. CASE UNCHANGED vars
      BY <3>1 DEF vars
    <3>2. CASE Restart \/ Trigger \/ NextBatch \/ LoopEnd \/ Regulate \/ Report \/ Verify
      BY <3>2 DEF Restart, Trigger, NextBatch, LoopEnd, Regulate, Report, Verify
    <3>3. CASE FetchSlots \/ UpdatePools \/ InsertValidators \/ ProcessDeposits
      BY <3>3 DEF FetchSlots, UpdatePools, InsertValidators, ProcessDeposits
    <3>4. CASE InsertWithdrawals
      BY <3>4 DEF InsertWithdrawals
    <3>5. CASE ProcessFees \/ DetectThefts
      BY <3>5 DEF ProcessFees, DetectThefts
    <3>6. QED
      BY <1>6, <3>1, <3>2, <3>3, <3>4, <3>5 DEF Next, Step, Index
  <2>3. pc' \in AfterDeposits => pc \in AfterDeposits
    BY <1>1, <1>6 DEF Entered, Raise, Stop
  <2>4. QED
    BY <2>1, <2>2, <2>3, StakeKept
<1>7. QED
  BY <1>2, <1>3, <1>4, <1>5, <1>6

(* Only a crash counts as one.                                             *)
LEMMA CrashesCounted == [Next]_vars => Crash \/ UNCHANGED crashes
<1> SUFFICES ASSUME [Next]_vars, ~ Crash PROVE UNCHANGED crashes
  OBVIOUS
<1> USE DEF outside
<1>1. CASE UNCHANGED vars \/ Raise
  BY <1>1 DEF vars, Raise
<1>2. CASE Trigger \/ NextBatch \/ LoopEnd \/ Regulate \/ Restart \/ Reset
  BY <1>2 DEF Trigger, NextBatch, LoopEnd, Regulate, Restart, Reset
<1>3. CASE (Report \/ Verify \/ FetchSlots \/ UpdatePools) /\ ~ Raise
  BY <1>3 DEF Report, Verify, FetchSlots, UpdatePools
<1>4. CASE (InsertValidators \/ ProcessDeposits \/ InsertDeposits) /\ ~ Raise
  BY <1>4 DEF InsertValidators, ProcessDeposits, InsertDeposits
<1>5. CASE (ProcessWithdrawals \/ InsertWithdrawals \/ InsertSlots) /\ ~ Raise
  BY <1>5 DEF ProcessWithdrawals, InsertWithdrawals, InsertSlots
<1>6. CASE (ProcessFees \/ DetectThefts) /\ ~ Raise
  BY <1>6 DEF ProcessFees, DetectThefts
<1>7. QED
  BY <1>1, <1>2, <1>3, <1>4, <1>5, <1>6 DEF Next, Step, Index

StakeUntilCrash == crashes = 0 => StakeInv

LEMMA InitStake == Init => StakeUntilCrash
<1> SUFFICES ASSUME Init PROVE StakeInv
  BY DEF StakeUntilCrash
<1>1. TypeOK
  BY InitIInv DEF IInv
<1>2. \A d \in Deposit : DepPk(d) \in Pk
  BY <1>1, ChainTyped
<1>3. QED
  BY <1>2 DEF Init, StakeInv, OrderInv, AfterDeposits

LEMMA StakeUntilCrashStep ==
  ASSUME ReadsKeepDeposits, Lossy = {} => BlocksInv, IInv, IInv', [Next]_vars,
         StakeUntilCrash, Reset => ResetKeepsOrder
  PROVE  StakeUntilCrash'
<1> SUFFICES ASSUME crashes' = 0 PROVE StakeInv'
  BY DEF StakeUntilCrash
<1>1. crashes = 0 /\ ~ Crash
  <2>1. crashes \in Nat
    BY DEF IInv, TypeOK
  <2>2. ~ Crash
    BY <2>1 DEF Crash
  <2>3. UNCHANGED crashes
    BY <2>2, CrashesCounted
  <2>4. QED
    BY <2>2, <2>3
<1>2. QED
  BY <1>1, StakeInvStep DEF StakeUntilCrash

LEMMA StakeIsSecond == StakeUntilCrash => StakeIsSecondUntilCrash
BY DEF StakeUntilCrash, StakeInv, StakeIsSecondUntilCrash, StakeSignatureIsSecond

(* Without a crash no deposit is ever applied again: a stake_signature is  *)
(* that of a later deposit, through raised batches, restarts and resets.   *)
THEOREM StakeSignaturesAreSecond ==
  ASSUME ReadsKeepDeposits, ResetsReadAgain
  PROVE  Spec => []StakeIsSecondUntilCrash
<1> DEFINE WholeBlocks == Lossy = {} => BlocksInv
<1>1. Init => WholeBlocks /\ StakeUntilCrash
  BY InitEventsInv, InitStake DEF EventsInv
<1>2. WholeBlocks /\ (IInv /\ IInv' /\ [Next]_vars) => WholeBlocks'
  BY BlocksInvStep
<1>3. Reset => ResetKeepsOrder
  <2> SUFFICES ASSUME Reset PROVE ResetKeepsOrder
    OBVIOUS
  <2>1. PICK T \in ResetChoices :
          /\ ResetValidators(T) /\ ResetDeposits(T) /\ ResetSlots(T)
    BY DEF Reset
  <2>2. CASE "Validators" \in T
    BY <2>1, <2>2 DEF ResetValidators, ResetKeepsOrder
  <2>3. CASE "Validators" \notin T
    <3>1. "Slots" \notin T /\ "Deposits" \notin T
      BY <2>3 DEF ResetsReadAgain
    <3>2. UNCHANGED <<valRows, psig, ssig, depRows, slotRows>>
      BY <2>1, <2>3, <3>1 DEF ResetValidators, ResetDeposits, ResetSlots, validators
    <3>3. QED
      BY <3>2 DEF ResetKeepsOrder
  <2>4. QED
    BY <2>2, <2>3
<1>4. StakeUntilCrash /\ (WholeBlocks /\ IInv /\ IInv' /\ [Next]_vars) => StakeUntilCrash'
  BY <1>3, StakeUntilCrashStep
<1>5. QED
  <2> HIDE DEF WholeBlocks
  <2>1. QED
    BY <1>1, <1>2, <1>4, SpecIInv, StakeIsSecond, PTL DEF Spec

(* Every deposit comes after the proposal of its validator, as the Portal  *)
(* makes them: no one else has deposited for the validator before.         *)
DepositsFollow ==
  \A c \in Chains, d \in Deposit : c.proposed[c.deposit[d].pk] <= c.deposit[d].slot

(* Deposits is not reset without the validators they have been applied to. *)
ResetsRecords == \A T \in ResetChoices : "Deposits" \in T => "Validators" \in T

(* The same when Slots is reset alone, which makes geoscope read the slots *)
(* of known validators again: check_deposit_by_slot lets nothing through,  *)
(* if no block was lost and no deposit came before its proposal.           *)
THEOREM StakeSignaturesOutliveReset ==
  ASSUME Lossy = {}, ResetsTogether, ResetsRecords, DepositsFollow
  PROVE  Spec => []StakeIsSecondUntilCrash
<1> DEFINE Real == chain \in Chains
<1>1. Init => Real /\ EventsInv /\ StakeUntilCrash
  BY InitEventsInv, InitStake DEF Init
<1>2. Real /\ [Next]_vars => Real'
  BY Writers DEF Frame
<1>3. EventsInv /\ (IInv /\ IInv' /\ [Next]_vars) => EventsInv'
  BY EventsInvStep
<1>4. ASSUME Real, IInv, EventsInv, Reset PROVE ResetKeepsOrder
  <2>1. PICK T \in ResetChoices :
          /\ ResetValidators(T) /\ ResetDeposits(T) /\ ResetSlots(T)
    BY <1>4 DEF Reset
  <2>2. CASE "Validators" \in T
    BY <2>1, <2>2 DEF ResetValidators, ResetKeepsOrder
  <2>3. CASE "Validators" \notin T
    <3>1. UNCHANGED <<valRows, psig, ssig, depRows>>
      BY <2>1, <2>3 DEF ResetsRecords, ResetValidators, ResetDeposits, validators
    <3>2. ASSUME NEW d \in Deposit, DepSlot(d) \in chain.block \cap slotRows, Known(DepPk(d))
          PROVE  SavedDeposits(DepSlot(d))
      <4>1. chain.proposed[DepPk(d)] <= DepSlot(d)
        BY <1>4 DEF DepositsFollow, DepPk, DepSlot
      <4>2. DepSlot(d) \in blockRows
        BY <1>4, <3>2 DEF EventsInv, BlocksInv
      <4>3. d \in depRows
        BY <1>4, <3>2, <4>1, <4>2 DEF EventsInv, RecordedInv, SavedDepositsRecorded
      <4>4. QED
        BY <4>3 DEF SavedDeposits
    <3>3. QED
      BY <3>1, <3>2 DEF ResetKeepsOrder
  <2>4. QED
    BY <2>2, <2>3
<1>5. StakeUntilCrash /\ (Real /\ EventsInv /\ IInv /\ IInv' /\ [Next]_vars) => StakeUntilCrash'
  BY <1>4, StakeUntilCrashStep DEF EventsInv, ReadsKeepDeposits
<1>6. QED
  <2> HIDE DEF Real
  <2>1. QED
    BY <1>1, <1>2, <1>3, <1>5, SpecIInv, StakeIsSecond, PTL DEF Spec
-----------------------------------------------------------------------------
(* A request for events spans a whole batch.                               *)
RangeSpansBatch == BatchSize <= EventRange + 1

(* The deposits update_beacon_constants takes: valid ones, two to a        *)
(* validator.                                                              *)
OrdinaryDeposits ==
  \A c \in Chains :
    /\ \A d \in Deposit : c.deposit[d].valid
    /\ \A d, e, f \in Deposit :
         c.deposit[d].pk = c.deposit[e].pk /\ c.deposit[e].pk = c.deposit[f].pk =>
           d = e \/ e = f \/ d = f

(* A signature is that of a deposit of its validator, and the proposal's   *)
(* comes first.                                                            *)
SignedInv ==
  \A pk \in Pk :
    /\ psig[pk] # None => DepPk(psig[pk]) = pk
    /\ ssig[pk] # None => DepPk(ssig[pk]) = pk /\ psig[pk] # None

(* The deposits recorded, or about to be.                                  *)
Written == IF pc = "insertDeposits" THEN depRows \cup NewDeposits ELSE depRows

(* A withdrawal of a known validator is ahead that may not be added.       *)
WithdrawalAhead ==
  /\ "raise" \in BalanceReads
  /\ \E w \in Withdrawal :
       KnownIndex(WdPk(w)) /\ MaxRow < WdSlot(w) /\ WdSlot(w) <= MaxRow + BatchSize

(* No validator is beyond the next batch, and none is beyond the cursor    *)
(* but those of the batch in progress, or those a batch left that raised   *)
(* on such a withdrawal.                                                   *)
RowsClean ==
  /\ pc \in Open => last = BatchEnd
  /\ \A pk \in valRows : chain.proposed[pk] <= BatchEnd
  /\ \/ pc \in AfterValidators
     \/ WithdrawalAhead
     \/ \A pk \in valRows : chain.proposed[pk] <= MaxRow

(* No deposit has been applied that is not recorded, or twice.             *)
DepositsClean ==
  \A pk \in Pk :
    /\ {psig[pk], ssig[pk]} \subseteq Written \cup {None}
    /\ ssig[pk] # None => psig[pk] # ssig[pk]

CleanUntilStopped == crashes + resets = 0 => RowsClean /\ DepositsClean

(* No request of a batch ends in a block between its first and its last.   *)
LEMMA NoRequestsMeet ==
  ASSUME RangeSpansBatch, IInv, pc \in Open, pc \in Fetched
  PROVE  RequestsMeet = {}
<1> SUFFICES ASSUME NEW s \in Slot, StartsRange(s), NEW t \in got, s < t
             PROVE  FALSE
  BY DEF RequestsMeet
<1>1. /\ first \in Nat /\ last \in Nat /\ last < first + BatchSize
      /\ got \subseteq first .. last /\ s \in Nat /\ t \in Nat
  BY SlotAssumption DEF IInv, TypeOK, LogInv, BatchFollowsLog, BatchHasBlock, Slot
<1> DEFINE B == BlocksBefore(s)
           n == Cardinality(B)
<1>2. B \subseteq first .. s - 1
  <2> SUFFICES ASSUME NEW b \in B PROVE b \in first .. s - 1
    OBVIOUS
  <2>1. PICK u \in got : u <= b
    BY DEF BlocksBefore
  <2>2. b \in Slot /\ b < s
    BY ChainTyped DEF IInv, BlocksBefore
  <2>3. QED
    BY <1>1, <2>1, <2>2, SlotAssumption DEF Slot
<1>3. B # {} /\ n % EventRange = 0
  BY DEF StartsRange
<1>4. first < s /\ s < last
  BY <1>1, <1>2, <1>3
<1>5. IsFiniteSet(first .. s - 1) /\ Cardinality(first .. s - 1) = s - first
  <2>1. first \in Int /\ s - 1 \in Int /\ ~ (first > s - 1) /\ (s - 1) - first + 1 = s - first
    BY <1>1, <1>4
  <2> HIDE <1>1, <1>4
  <2>2. QED
    BY <2>1, FS_Interval
<1>6. IsFiniteSet(B) /\ n <= s - first
  BY <1>2, <1>5, FS_Subset
<1>7. n \in Nat /\ n # 0
  BY <1>3, <1>6, FS_CardinalityType, FS_EmptySet
<1>8. n < EventRange
  BY <1>1, <1>4, <1>6, <1>7, SlotAssumption DEF RangeSpansBatch
<1>9. n % EventRange = n
  BY <1>7, <1>8, SlotAssumption
<1>10. QED
  BY <1>3, <1>7, <1>9

(* The proposals a batch fetches are within its slots.                     *)
LEMMA ProposedInBatch ==
  ASSUME IInv, pc \in Fetched
  PROVE  \A pk \in Proposed : pk \in Pk /\ chain.proposed[pk] \in first .. last
<1> SUFFICES ASSUME NEW pk \in Proposed
             PROVE  pk \in Pk /\ chain.proposed[pk] \in first .. last
  OBVIOUS
<1>1. pk \in Pk /\ InEventRange(chain.proposed[pk])
  BY DEF Proposed
<1>2. PICK s, t \in got : s <= chain.proposed[pk] /\ chain.proposed[pk] <= t
  BY <1>1 DEF InEventRange
<1>3. got \subseteq first .. last /\ first \in Nat /\ last \in Nat
  BY DEF IInv, TypeOK, LogInv, BatchHasBlock
<1>4. QED
  BY <1>1, <1>2, <1>3, EventsDated

(* What makes a batch raise that has a block, while nothing was torn by a  *)
(* crash or a reset: such a withdrawal, met before or now.                 *)
LEMMA AheadIsUnread ==
  ASSUME WithdrawalAhead, pc' = "stopped",
         UNCHANGED <<chain, slotRows, valRows, psig>>
  PROVE  Unread'
BY DEF WithdrawalAhead, Unread, MaxRow, KnownIndex, Known, WdPk, WdSlot

LEMMA InsertValidatorsRaises ==
  ASSUME RangeSpansBatch, IInv, CleanUntilStopped, InsertValidators, Raise
  PROVE  Torn' \/ Unread'
<1>1. pc = "validators" /\ pc' = "stopped"
      /\ UNCHANGED <<valRows, slotRows, chain, crashes, resets>>
  BY DEF InsertValidators, Raise, Stop, tables, validators, outside
<1>2. PICK pk \in Proposed : Known(pk)
  <2>1. RequestsMeet = {}
    BY <1>1, NoRequestsMeet DEF Open, Fetched, Stages
  <2>2. QED
    BY <1>1, <2>1 DEF InsertValidators, FetchedTwice, Goto
<1>3. chain.proposed[pk] \in first .. last /\ first \in Nat /\ last \in Nat
  BY <1>1, ProposedInBatch DEF Fetched, Stages, IInv, TypeOK
<1>4. slotRows = Start + 1 .. first - 1 /\ MaxRow = first - 1 /\ Start < first
  <2>1. /\ Start < first /\ slotRows = Start + 1 .. first - 1 /\ last <= head /\ head <= MaxSlot
    BY <1>1, SlotAssumption DEF IInv, TypeOK, LogInv, BatchFollowsLog, Open
  <2>2. first - 1 \in Start .. MaxSlot
    BY <1>3, <2>1, SlotAssumption DEF IInv, TypeOK
  <2>3. QED
    BY <2>1, <2>2, MaxRowIsTop
<1>5. pk \in valRows /\ chain.proposed[pk] > MaxRow
  BY <1>2, <1>3, <1>4, SlotAssumption DEF Known
<1>6. CASE crashes + resets = 0
  <2>1. WithdrawalAhead
    <3>1. ~ (chain.proposed[pk] <= MaxRow)
      BY <1>3, <1>4, <1>5, SlotAssumption
    <3>2. QED
      BY <1>1, <1>5, <1>6, <3>1 DEF CleanUntilStopped, RowsClean, AfterValidators
  <2>2. UNCHANGED psig
    BY DEF Raise, tables, validators
  <2>3. QED
    BY <1>1, <2>1, <2>2, AheadIsUnread
<1>7. CASE crashes + resets # 0
  <2>1. (crashes + resets)' > 0
    BY <1>1, <1>7, BoundAssumption DEF IInv, TypeOK
  <2>2. MaxRow' = MaxRow
    BY <1>1 DEF MaxRow
  <2>3. pk \in valRows' /\ chain'.proposed[pk] > MaxRow'
    BY <1>1, <1>5, <2>2
  <2>4. QED
    BY <1>1, <2>1, <2>3 DEF Torn
<1>8. QED
  BY <1>6, <1>7

LEMMA ProcessDepositsRaises ==
  ASSUME OrdinaryDeposits, chain \in Chains, IInv, SignedInv, CleanUntilStopped,
         ProcessDeposits, Raise
  PROVE  Torn'
<1>1. pc = "deposits" /\ pc' = "stopped"
      /\ UNCHANGED <<valRows, psig, ssig, depRows, crashes, resets>>
  BY DEF ProcessDeposits, Raise, Stop, tables, validators, outside
<1>2. PICK d \in NewDeposits : ~ OnBeacon(DepPk(d), last) \/ ssig[DepPk(d)] # None
  BY <1>1 DEF ProcessDeposits, Touched, Goto
<1> DEFINE pk == DepPk(d)
<1>3. /\ d \in Deposit /\ pk \in Pk /\ pk \in valRows /\ d \notin depRows
      /\ DepSlot(d) \in first .. last
  BY <1>1, <1>2, EventsDated
  DEF NewDeposits, SavedDeposits, Known, IInv, LogInv, BatchHasBlock, Fetched, Stages
<1>4. ssig[pk] # None
  <2>1. chain.deposit[d].valid /\ DepSlot(d) <= last
    BY <1>3 DEF OrdinaryDeposits, IInv, TypeOK
  <2>2. QED
    BY <1>2, <1>3, <2>1 DEF OnBeacon
<1>5. /\ psig[pk] # None /\ psig[pk] \in Deposit /\ ssig[pk] \in Deposit
      /\ DepPk(psig[pk]) = pk /\ DepPk(ssig[pk]) = pk
  BY <1>3, <1>4 DEF SignedInv, IInv, TypeOK
<1>6. psig[pk] = ssig[pk] \/ psig[pk] = d \/ ssig[pk] = d
  BY <1>3, <1>5 DEF OrdinaryDeposits, DepPk
<1>7. psig[pk] = ssig[pk] \/ ~ {psig[pk], ssig[pk]} \subseteq depRows \cup {None}
  BY <1>3, <1>5, <1>6, NoneAssumption
<1>8. crashes + resets # 0
  BY <1>1, <1>3, <1>4, <1>7 DEF CleanUntilStopped, DepositsClean, Written
<1>9. (crashes + resets)' > 0
  BY <1>1, <1>8, BoundAssumption DEF IInv, TypeOK
<1>10. QED
  BY <1>1, <1>3, <1>5, <1>7, <1>9 DEF Torn

(* The withdrawals of a batch are ahead of the cursor.                     *)
LEMMA ProcessWithdrawalsRaises ==
  ASSUME IInv, ProcessWithdrawals, Raise
  PROVE  Unread'
<1>1. pc = "withdrawals" /\ pc' = "stopped" /\ UNCHANGED <<chain, slotRows, valRows, psig>>
  BY DEF ProcessWithdrawals, Raise, Stop, tables, validators, outside
<1>2. PICK w \in NewWithdrawals : "raise" \in BalanceReads
  BY <1>1 DEF ProcessWithdrawals, Goto
<1>3. w \in Withdrawal /\ WdSlot(w) \in got /\ KnownIndex(WdPk(w))
  BY DEF NewWithdrawals
<1>4. /\ Start < first /\ slotRows = Start + 1 .. first - 1 /\ last < first + BatchSize
      /\ last <= head /\ got \subseteq first .. last /\ first \in Nat /\ last \in Nat
      /\ head \in Nat /\ head <= MaxSlot
  BY <1>1, SlotAssumption
  DEF IInv, TypeOK, LogInv, BatchFollowsLog, BatchHasBlock, Open, Fetched, Stages
<1>5. WdSlot(w) \in first .. last
  BY <1>3, <1>4
<1>6. first - 1 \in Start .. MaxSlot
  BY <1>4, <1>5, SlotAssumption
<1>7. MaxRow = first - 1
  BY <1>4, <1>6, MaxRowIsTop
<1>8. MaxRow < WdSlot(w) /\ WdSlot(w) <= MaxRow + BatchSize
  BY <1>4, <1>5, <1>7, SlotAssumption
<1>9. WithdrawalAhead
  BY <1>2, <1>3, <1>8 DEF WithdrawalAhead
<1>10. QED
  BY <1>1, <1>9, AheadIsUnread

(* What leaves a batch that has a block by an exception.                   *)
Reason == Torn' \/ Unread' \/ UnreadFee

LEMMA BatchRaises ==
  ASSUME RangeSpansBatch, OrdinaryDeposits, chain \in Chains,
         IInv, SignedInv, CleanUntilStopped, [Next]_vars,
         pc \in Fetched, pc' = "stopped", crashes' = crashes
  PROVE  Reason
<1> USE DEF Reason, Goto, Fetched, Stages
<1>1. CASE InsertValidators
  BY <1>1, InsertValidatorsRaises DEF InsertValidators
<1>2. CASE ProcessDeposits
  BY <1>2, ProcessDepositsRaises DEF ProcessDeposits
<1>3. CASE ProcessWithdrawals
  BY <1>3, ProcessWithdrawalsRaises DEF ProcessWithdrawals
<1>4. CASE ProcessFees
  BY <1>4 DEF ProcessFees, EndBatch, UnreadFee
<1>5. ~ InsertSlots
  <2> SUFFICES ASSUME InsertSlots PROVE FALSE
    OBVIOUS
  <2>1. pc = "slots" /\ slotRows \cap SlotBatch # {}
    BY DEF InsertSlots
  <2>2. slotRows = Start + 1 .. first - 1 /\ first \in Nat
    BY <2>1, SlotsAppended DEF IInv, TypeOK
  <2>3. QED
    BY <2>1, <2>2, SlotAssumption DEF SlotBatch
<1>6. ~ Crash
  BY BoundAssumption DEF Crash, IInv, TypeOK
<1>7. /\ ~ UpdatePools /\ ~ InsertDeposits /\ ~ InsertWithdrawals /\ ~ DetectThefts
      /\ ~ FetchSlots /\ ~ UNCHANGED vars
  BY DEF UpdatePools, InsertDeposits, InsertWithdrawals, DetectThefts, EndBatch, FetchSlots, vars
<1>8. ~ Trigger /\ ~ NextBatch /\ ~ LoopEnd /\ ~ Regulate /\ ~ Report /\ ~ Verify
      /\ ~ Restart /\ ~ Reset
  BY DEF Trigger, NextBatch, LoopEnd, Regulate, Report, Verify, Restart, Reset
<1>9. QED
  BY <1>1, <1>2, <1>3, <1>4, <1>5, <1>6, <1>7, <1>8 DEF Next, Step, Index

LEMMA SignedInvStep ==
  ASSUME IInv, [Next]_vars, SignedInv
  PROVE  SignedInv'
<1>1. Frame
  BY Writers
<1>2. UNCHANGED chain /\ \A d : DepPk(d)' = DepPk(d)
  BY <1>1, EventsKept DEF Frame
<1>3. CASE Reset
  <2>1. \/ UNCHANGED <<psig, ssig>>
        \/ psig' = [pk \in Pk |-> None] /\ ssig' = [pk \in Pk |-> None]
    BY <1>3 DEF Reset, ResetValidators, validators
  <2>2. QED
    BY <1>2, <2>1 DEF SignedInv
<1>4. CASE ProcessDeposits /\ ~ UNCHANGED <<psig, ssig>>
  <2> DEFINE D == NewDeposits
  <2>1. /\ psig' = [pk \in Pk |-> IF pk \in Touched(D) /\ FillsProposal(pk)
                                  THEN LatestOf(D, pk) ELSE psig[pk]]
        /\ ssig' = [pk \in Pk |-> IF pk \in Touched(D) /\ FillsStake(pk)
                                  THEN LatestOf(D, pk) ELSE ssig[pk]]
    BY <1>4 DEF ProcessDeposits, Raise, tables, validators
  <2>2. \A pk \in Touched(D) : LatestOf(D, pk) \in Deposit /\ DepPk(LatestOf(D, pk)) = pk
    BY LatestOfIsOne DEF NewDeposits
  <2> HIDE DEF D
  <2>3. ASSUME NEW pk \in Pk
        PROVE  /\ psig'[pk] # None => DepPk(psig'[pk]) = pk
               /\ ssig'[pk] # None => DepPk(ssig'[pk]) = pk /\ psig'[pk] # None
    BY <2>1, <2>2, NoneAssumption DEF SignedInv, FillsProposal, FillsStake
  <2>4. QED
    BY <1>2, <2>3 DEF SignedInv
<1>5. CASE UNCHANGED <<psig, ssig>>
  BY <1>2, <1>5 DEF SignedInv
<1>6. QED
  BY <1>1, <1>3, <1>4, <1>5 DEF Frame

(* A deposit that is let through is not recorded.                          *)
LEMMA NewAreUnrecorded == NewDeposits \cap depRows = {}
BY DEF NewDeposits, SavedDeposits

LEMMA ProcessDepositsClean ==
  ASSUME IInv, SignedInv, DepositsClean, ProcessDeposits, ~ Raise
  PROVE  DepositsClean'
<1>1. pc = "deposits" /\ UNCHANGED <<chain, valRows, depRows, slotRows, batch>>
  BY DEF ProcessDeposits, tables, validators, outside
<1>2. CASE NewDeposits = {} /\ pc' = "withdrawals"
  <2>1. UNCHANGED <<psig, ssig>>
    BY <1>2 DEF ProcessDeposits, tables, validators, Touched
  <2>2. QED
    BY <1>1, <1>2, <2>1 DEF DepositsClean, Written
<1>3. CASE NewDeposits # {} /\ pc' = "insertDeposits"
  <2> DEFINE D == NewDeposits
  <2>1. /\ psig' = [pk \in Pk |-> IF pk \in Touched(D) /\ FillsProposal(pk)
                                  THEN LatestOf(D, pk) ELSE psig[pk]]
        /\ ssig' = [pk \in Pk |-> IF pk \in Touched(D) /\ FillsStake(pk)
                                  THEN LatestOf(D, pk) ELSE ssig[pk]]
        /\ \A pk \in Touched(D) : ssig[pk] = None
    BY <1>3 DEF ProcessDeposits, Goto
  <2>2. NewDeposits' = D
    BY <1>1 DEF NewDeposits, Known, SavedDeposits, DepPk, DepSlot, batch
  <2>3. \A pk \in Touched(D) : LatestOf(D, pk) \in D
    BY LatestOfIsOne DEF NewDeposits
  <2>4. D \cap depRows = {} /\ Written = depRows /\ Written' = depRows \cup D
    BY <1>1, <1>3, <2>2, NewAreUnrecorded DEF Written
  <2> HIDE DEF D
  <2>5. ASSUME NEW pk \in Pk
        PROVE  /\ {psig'[pk], ssig'[pk]} \subseteq Written' \cup {None}
               /\ ssig'[pk] # None => psig'[pk] # ssig'[pk]
    <3>1. /\ psig[pk] \in depRows \cup {None} /\ ssig[pk] \in depRows \cup {None}
          /\ ssig[pk] # None => psig[pk] # ssig[pk]
      BY <2>4 DEF DepositsClean
    <3>2. CASE pk \notin Touched(D)
      BY <2>1, <2>4, <3>1, <3>2
    <3>3. CASE pk \in Touched(D) /\ psig[pk] = None
      BY <2>1, <2>3, <2>4, <3>1, <3>3 DEF FillsProposal, FillsStake
    <3>4. CASE pk \in Touched(D) /\ psig[pk] # None
      BY <2>1, <2>3, <2>4, <3>1, <3>4 DEF FillsProposal, FillsStake
    <3>5. QED
      BY <3>2, <3>3, <3>4
  <2>6. QED
    BY <1>1, <1>3, <2>5 DEF DepositsClean
<1>4. QED
  BY <1>2, <1>3 DEF ProcessDeposits, Goto

LEMMA SumIsZero ==
  ASSUME NEW m \in Nat, NEW n \in Nat, m + n = 0
  PROVE  m = 0 /\ n = 0
OBVIOUS

(* A batch ends where the head of the loop said.                           *)
LEMMA OpenKept ==
  ASSUME [Next]_vars, pc' \in Open
  PROVE  \/ NextBatch
         \/ pc \in Open /\ UNCHANGED <<last, head, slotRows>>
<1> USE DEF Open, Goto, tables, daemon, batch
<1>1. CASE UNCHANGED vars
  BY <1>1 DEF vars
<1>2. CASE Crash \/ Restart \/ Reset \/ Trigger
  BY <1>2 DEF Crash, Restart, Reset, Trigger, Stop
<1>3. CASE LoopEnd \/ Regulate \/ Report \/ Verify
  BY <1>3 DEF LoopEnd, Regulate, Report, Verify, Raise, Stop
<1>4. CASE FetchSlots \/ UpdatePools \/ InsertValidators
  BY <1>4 DEF FetchSlots, UpdatePools, InsertValidators, Raise, Stop
<1>5. CASE ProcessDeposits \/ InsertDeposits
  BY <1>5 DEF ProcessDeposits, InsertDeposits, Raise, Stop
<1>6. CASE ProcessWithdrawals \/ InsertWithdrawals
  BY <1>6 DEF ProcessWithdrawals, InsertWithdrawals, Raise, Stop
<1>7. CASE InsertSlots \/ ProcessFees \/ DetectThefts
  BY <1>7 DEF InsertSlots, ProcessFees, DetectThefts, EndBatch, Raise, Stop
<1>8. QED
  BY <1>1, <1>2, <1>3, <1>4, <1>5, <1>6, <1>7 DEF Next, Step, Index

(* Saving the batch moves the cursor to its end.                           *)
LEMMA CursorMoves ==
  ASSUME IInv, InsertSlots, ~ Raise
  PROVE  MaxRow' = last /\ pc = "slots" /\ UNCHANGED <<head, valRows, psig, ssig, depRows>>
<1>1. pc = "slots" /\ slotRows' = slotRows \cup SlotBatch
      /\ UNCHANGED <<head, valRows, psig, ssig, depRows>>
  BY DEF InsertSlots, daemon, validators
<1>2. last \in Start .. MaxSlot /\ slotRows' = Start + 1 .. last
  <2>1. /\ last \in first .. MaxSlot /\ first - 1 \in Start .. MaxSlot /\ first \in Nat
        /\ slotRows \cup SlotBatch = Start + 1 .. last
    BY <1>1, SlotsAppended DEF IInv, TypeOK
  <2>2. QED
    BY <1>1, <2>1, SlotAssumption
<1>3. MaxRow' = Greatest(slotRows')
  BY DEF MaxRow, Greatest
<1>4. QED
  BY <1>1, <1>2, <1>3, TopOf

LEMMA RowsCleanStep ==
  ASSUME IInv, IInv', [Next]_vars, ~ Reset, ~ Crash, RowsClean,
         pc \in Fetched /\ pc' = "stopped" => Unread' \/ UnreadFee
  PROVE  RowsClean'
<1>1. Frame /\ UNCHANGED chain /\ head <= head'
  BY Writers, HeadGrows DEF Frame
<1>2. /\ MaxRow \in Nat /\ MaxRow' \in Nat /\ head \in Nat /\ head' \in Nat
      /\ MaxRow <= head /\ BatchSize \in Nat
      /\ \A pk \in valRows' : chain.proposed[pk] \in Nat
  <2>1. valRows' \subseteq Pk
    BY DEF IInv, TypeOK
  <2>2. MaxRow' \in Nat
    <3>1. PICK top \in Start .. MaxSlot : slotRows' = Start + 1 .. top
      BY DEF IInv, LogInv, SlotsContiguous
    <3>2. Greatest(slotRows') = top
      BY <3>1, TopOf
    <3>3. MaxRow' = Greatest(slotRows')
      BY DEF MaxRow, Greatest
    <3>4. QED
      BY <3>2, <3>3, SlotAssumption
  <2>3. \A pk \in Pk : chain.proposed[pk] \in Nat
    BY EventsDated
  <2>4. QED
    <3>1. MaxRow \in Nat /\ MaxRow <= head
      BY CursorTyped
    <3>2. head \in Nat /\ head' \in Nat /\ BatchSize \in Nat
      BY SlotAssumption DEF IInv, TypeOK
    <3>3. QED
      BY <2>1, <2>2, <2>3, <3>1, <3>2
<1>3. slotRows' = slotRows => MaxRow' = MaxRow
  BY DEF MaxRow
<1>4. pc' \in Open => last' = BatchEnd'
  <2> SUFFICES ASSUME pc' \in Open PROVE last' = BatchEnd'
    OBVIOUS
  <2>1. CASE NextBatch
    BY <1>3, <2>1 DEF NextBatch, BatchEnd, tables, daemon
  <2>2. CASE pc \in Open /\ UNCHANGED <<last, head, slotRows>>
    BY <1>3, <2>2 DEF RowsClean, BatchEnd
  <2>3. QED
    BY <2>1, <2>2, OpenKept
<1>5. CASE InsertSlots /\ ~ Raise
  <2>1. MaxRow' = last /\ last = BatchEnd /\ UNCHANGED <<head, valRows>>
    BY <1>5, CursorMoves DEF RowsClean, Open
  <2>2. \A pk \in valRows' : chain.proposed[pk] <= MaxRow'
    BY <2>1 DEF RowsClean
  <2>3. MaxRow' <= BatchEnd' /\ BatchEnd' \in Nat
    BY <1>2, <2>1 DEF BatchEnd
  <2>4. \A pk \in valRows' : chain.proposed[pk] <= BatchEnd'
    BY <1>2, <2>2, <2>3
  <2>5. QED
    BY <1>1, <1>4, <2>2, <2>4 DEF RowsClean
<1>6. CASE ~ InsertSlots \/ Raise
  <2>1. UNCHANGED slotRows
    BY <1>1, <1>6 DEF Frame, Raise, tables
  <2>2. BatchEnd <= BatchEnd' /\ BatchEnd \in Nat /\ BatchEnd' \in Nat
    BY <1>1, <1>2, <1>3, <2>1 DEF BatchEnd
  <2>3. \A pk \in valRows' \ valRows : pc = "validators" /\ pc' = "deposits"
                                        /\ chain.proposed[pk] <= BatchEnd
    <3> SUFFICES ASSUME NEW pk \in valRows' \ valRows
                 PROVE  pc = "validators" /\ pc' = "deposits" /\ chain.proposed[pk] <= BatchEnd
      OBVIOUS
    <3>1. InsertValidators /\ ~ Raise
      BY <1>1 DEF Frame, Raise, tables, validators
    <3>2. pc = "validators" /\ pc' = "deposits" /\ pk \in Proposed
      BY <3>1 DEF InsertValidators, InsertRows, Goto
    <3>3. chain.proposed[pk] \in first .. last /\ last = BatchEnd /\ first \in Nat /\ last \in Nat
      BY <3>2, ProposedInBatch DEF RowsClean, Open, Fetched, Stages, IInv, TypeOK
    <3>4. QED
      BY <3>2, <3>3
  <2>4. \A pk \in valRows' : chain.proposed[pk] <= BatchEnd'
    <3> SUFFICES ASSUME NEW pk \in valRows' PROVE chain.proposed[pk] <= BatchEnd'
      OBVIOUS
    <3>1. chain.proposed[pk] <= BatchEnd
      BY <2>3 DEF RowsClean
    <3>2. QED
      BY <1>2, <2>2, <3>1
  <2>5. \/ pc' \in AfterValidators
        \/ WithdrawalAhead'
        \/ \A pk \in valRows' : chain.proposed[pk] <= MaxRow'
    <3>1. CASE pc \in AfterValidators
      <4>1. CASE pc' = "stopped"
        <5>1. Unread'
          BY <3>1, <4>1 DEF AfterValidators, Fetched, Stages, UnreadFee
        <5>2. QED
          BY <5>1 DEF Unread, WithdrawalAhead
      <4>2. CASE pc' # "stopped"
        <5>1. pc' \in AfterValidators
          <6> USE DEF AfterValidators, Goto
          <6>1. CASE UNCHANGED vars
            BY <3>1, <6>1 DEF vars
          <6>2. CASE Restart \/ Trigger \/ NextBatch \/ LoopEnd \/ Regulate \/ Report \/ Verify
            BY <3>1, <6>2 DEF Restart, Trigger, NextBatch, LoopEnd, Regulate, Report, Verify
          <6>3. CASE FetchSlots \/ UpdatePools \/ InsertValidators \/ ProcessFees \/ DetectThefts
            BY <3>1, <6>3 DEF FetchSlots, UpdatePools, InsertValidators, ProcessFees, DetectThefts
          <6>4. CASE ProcessDeposits \/ InsertDeposits
            BY <4>2, <6>4 DEF ProcessDeposits, InsertDeposits, Raise, Stop
          <6>5. CASE ProcessWithdrawals \/ InsertWithdrawals
            BY <4>2, <6>5 DEF ProcessWithdrawals, InsertWithdrawals, Raise, Stop
          <6>6. CASE InsertSlots
            BY <1>6, <4>2, <6>6 DEF InsertSlots, Raise, Stop
          <6>7. QED
            BY <6>1, <6>2, <6>3, <6>4, <6>5, <6>6 DEF Next, Step, Index
        <5>2. QED
          BY <5>1
      <4>3. QED
        BY <4>1, <4>2
    <3>2. CASE pc \notin AfterValidators /\ WithdrawalAhead
      <4>1. UNCHANGED psig
        <5>1. ~ ProcessDeposits
          BY <3>2 DEF ProcessDeposits, AfterValidators
        <5>2. QED
          BY <1>1, <5>1 DEF Frame
      <4>2. valRows \subseteq valRows'
        BY <1>1 DEF Frame, InsertValidators, InsertRows, Raise, tables, validators
      <4>3. QED
        BY <1>1, <1>3, <2>1, <3>2, <4>1, <4>2
        DEF WithdrawalAhead, KnownIndex, Known, WdPk, WdSlot
    <3>3. CASE pc \notin AfterValidators /\ \A pk \in valRows : chain.proposed[pk] <= MaxRow
      BY <1>3, <2>1, <2>3, <3>3 DEF AfterValidators
    <3>4. QED
      BY <3>1, <3>2, <3>3 DEF RowsClean
  <2>6. QED
    BY <1>1, <1>4, <2>4, <2>5 DEF RowsClean
<1>7. QED
  BY <1>5, <1>6

LEMMA DepositsCleanStep ==
  ASSUME IInv, IInv', [Next]_vars, ~ Reset, ~ Crash, SignedInv, DepositsClean
  PROVE  DepositsClean'
<1> USE DEF Goto
<1>1. Frame
  BY Writers
<1>2. CASE ProcessDeposits /\ ~ Raise
  BY <1>2, ProcessDepositsClean
<1>3. CASE InsertDeposits
  <2>1. UNCHANGED <<psig, ssig>>
    BY <1>3 DEF InsertDeposits, validators
  <2>2. Written' = Written
    BY <1>3, DepositsWritten DEF Written
  <2>3. QED
    BY <2>1, <2>2 DEF DepositsClean
<1>4. CASE ~ InsertDeposits /\ (~ ProcessDeposits \/ Raise)
  <2>1. UNCHANGED <<psig, ssig, depRows>>
    BY <1>1, <1>4 DEF Frame, Raise, tables, validators
  <2>2. CASE pc # "insertDeposits"
    BY <2>1, <2>2 DEF DepositsClean, Written
  <2>3. CASE pc = "insertDeposits" /\ UNCHANGED vars
    <3>1. NewDeposits' = NewDeposits /\ pc' = pc
      BY <2>3 DEF vars, tables, validators, batch, outside, NewDeposits, Known, SavedDeposits,
                  DepPk, DepSlot
    <3>2. QED
      BY <2>1, <3>1 DEF DepositsClean, Written
  <2>4. CASE pc = "insertDeposits" /\ ~ UNCHANGED vars
    BY <1>4, <2>4
      DEF Next, Step, Index, Restart, Reset, Trigger, NextBatch, LoopEnd, Regulate, Report, Verify,
          FetchSlots, UpdatePools, ProcessWithdrawals, InsertWithdrawals, ProcessFees,
          DetectThefts, InsertValidators, ProcessDeposits, InsertSlots
  <2>5. QED
    BY <2>2, <2>3, <2>4
<1>5. QED
  BY <1>2, <1>3, <1>4

LEMMA CleanStep ==
  ASSUME IInv, IInv', [Next]_vars, SignedInv, CleanUntilStopped,
         pc \in Fetched /\ pc' = "stopped" /\ crashes' = crashes => Reason
  PROVE  CleanUntilStopped'
<1> SUFFICES ASSUME crashes' + resets' = 0 PROVE RowsClean' /\ DepositsClean'
  BY DEF CleanUntilStopped
<1>1. /\ crashes \in Nat /\ resets \in Nat /\ crashes' \in Nat /\ resets' \in Nat
  BY DEF IInv, TypeOK
<1>2. crashes' = 0 /\ resets' = 0
  BY <1>1, SumIsZero
<1>3. ~ Reset /\ ~ Crash
  <2>1. ASSUME Reset PROVE FALSE
    BY <1>1, <1>2, <2>1 DEF Reset
  <2>2. ASSUME Crash PROVE FALSE
    BY <1>1, <1>2, <2>2 DEF Crash
  <2>3. QED
    BY <2>1, <2>2
<1>4. crashes' = crashes /\ resets' = resets
  BY <1>3, Writers, CrashesCounted DEF Frame
<1>5. RowsClean /\ DepositsClean
  BY <1>2, <1>4 DEF CleanUntilStopped
<1>6. pc \in Fetched /\ pc' = "stopped" => Unread' \/ UnreadFee
  BY <1>2, <1>4 DEF Reason, Torn
<1>7. QED
  BY <1>3, <1>5, <1>6, RowsCleanStep, DepositsCleanStep

(* What raises leaves the reason behind, and nothing else disturbs what    *)
(* the signatures and the rows say.                                        *)
LEMMA SignedAndCleanStep ==
  ASSUME RangeSpansBatch, OrdinaryDeposits,
         IInv, IInv', [Next]_vars, chain \in Chains, SignedInv, CleanUntilStopped
  PROVE  /\ chain' \in Chains /\ SignedInv' /\ CleanUntilStopped'
         /\ pc \in Stages \ {"fetch"} /\ pc' = "stopped" /\ crashes' = crashes => Reason
<1>1. pc \in Stages \ {"fetch"} /\ pc' = "stopped" /\ crashes' = crashes => Reason
  BY BatchRaises DEF Fetched
<1>2. SignedInv' /\ CleanUntilStopped'
  BY <1>1, SignedInvStep, CleanStep DEF Fetched
<1>3. chain' \in Chains
  BY Writers DEF Frame
<1>4. QED
  BY <1>1, <1>2, <1>3

(* A batch that has a block goes through, be it a first pass or a replay,  *)
(* unless a crash or a reset has left rows that its inserts and updates    *)
(* are refused for, or a balance it has to add to cannot be read: what a   *)
(* batch left that was stopped by such a balance is no other obstacle.     *)
THEOREM BatchesGoThrough ==
  ASSUME RangeSpansBatch, OrdinaryDeposits
  PROVE  Spec => GoesThroughUnlessTorn
<1> DEFINE Real == chain \in Chains
           Inv == Real /\ SignedInv /\ CleanUntilStopped
           Raises == /\ pc \in Stages \ {"fetch"} /\ pc' = "stopped"
                     /\ crashes' = crashes
<1>1. Init => Inv
  BY DEF Init, SignedInv, CleanUntilStopped, RowsClean, DepositsClean, Open
<1>2. IInv /\ IInv' /\ Inv /\ [Next]_vars => Inv' /\ (Raises => Reason)
  BY SignedAndCleanStep
<1>3. QED
  <2> HIDE DEF Inv, Raises
  <2>1. Spec => [][Raises => Reason]_vars
    BY <1>1, <1>2, SpecIInv, PTL DEF Spec
  <2>2. QED
    BY <2>1 DEF GoesThroughUnlessTorn, Raises, Reason

(* The same of a copy.                                                     *)
CopySigned(s) ==
  \A pk \in Pk :
    /\ s.psig[pk] # None => DepPk(s.psig[pk]) = pk
    /\ s.ssig[pk] # None => DepPk(s.ssig[pk]) = pk /\ s.psig[pk] # None

CopiesSignedInv ==
  /\ chain \in Chains
  /\ SignedInv /\ CleanUntilStopped
  /\ \A s \in saved : CopySigned(s)

LEMMA CopySignedKept ==
  ASSUME NEW s, CopySigned(s), UNCHANGED chain
  PROVE  CopySigned(s)'
BY DEF CopySigned, DepPk

LEMMA CopiesSignedStep ==
  ASSUME RangeSpansBatch, OrdinaryDeposits,
         BackupInv, BackupInv', [BackupNext]_backupVars, CopiesSignedInv
  PROVE  /\ CopiesSignedInv'
         /\ pc \in Stages \ {"fetch"} /\ pc' = "stopped" /\ crashes' = crashes => Reason
<1>1. IInv /\ IInv'
  BY DEF BackupInv
<1>2. chain \in Chains /\ SignedInv /\ CleanUntilStopped /\ \A s \in saved : CopySigned(s)
  BY DEF CopiesSignedInv
<1>3. CASE [Next]_vars /\ UNCHANGED saved
  <2>1. \A s \in saved' : CopySigned(s)'
    BY <1>1, <1>2, <1>3, HeadGrows, CopySignedKept
  <2>2. QED
    BY <1>1, <1>2, <1>3, <2>1, SignedAndCleanStep DEF CopiesSignedInv
<1>4. CASE Backup
  <2>1. [Next]_vars /\ saved' = saved \cup {Copy} /\ UNCHANGED chain
    BY <1>4 DEF Backup, vars, outside
  <2>2. CopySigned(Copy)
    BY <1>2 DEF SignedInv, CopySigned, Copy
  <2>3. \A s \in saved' : CopySigned(s)'
    BY <1>2, <2>1, <2>2, CopySignedKept
  <2>4. QED
    BY <1>1, <1>2, <2>1, <2>3, SignedAndCleanStep DEF CopiesSignedInv
<1>5. CASE Restore
  <2>1. /\ pc = "stopped" /\ resets' = resets + 1
        /\ UNCHANGED <<pc, chain, crashes, saved>>
    BY <1>5 DEF Restore
  <2>2. PICK s \in saved : psig' = s.psig /\ ssig' = s.ssig
    BY <1>5 DEF Restore
  <2>3. SignedInv'
    BY <1>2, <2>1, <2>2 DEF SignedInv, CopySigned, DepPk
  <2>4. crashes' + resets' # 0
    BY <1>1, <2>1 DEF IInv, TypeOK
  <2>5. \A t \in saved' : CopySigned(t)'
    BY <1>2, <2>1, CopySignedKept
  <2>6. QED
    BY <1>2, <2>1, <2>3, <2>4, <2>5 DEF CopiesSignedInv, CleanUntilStopped, Stages
<1>6. QED
  BY <1>3, <1>4, <1>5 DEF BackupNext, backupVars

(* A backup put back changes nothing of that: whatever a copy was taken in *)
(* the middle of, what the batches after it are refused for is in the      *)
(* tables, and is what a crash or a reset can leave.                       *)
THEOREM BatchesGoThroughAfterRestore ==
  ASSUME RangeSpansBatch, OrdinaryDeposits
  PROVE  BackupSpec => GoesThroughUnlessTorn
<1> DEFINE Raises == /\ pc \in Stages \ {"fetch"} /\ pc' = "stopped"
                     /\ crashes' = crashes
<1>1. BackupInit => CopiesSignedInv
  BY DEF BackupInit, Init, CopiesSignedInv, SignedInv, CleanUntilStopped, RowsClean, DepositsClean, Open
<1>2. BackupInv /\ BackupInv' /\ [BackupNext]_backupVars /\ CopiesSignedInv
      => CopiesSignedInv' /\ (Raises => Reason)
  BY CopiesSignedStep
<1>3. UNCHANGED backupVars => UNCHANGED vars
  BY DEF backupVars
<1>4. QED
  <2> HIDE DEF Raises
  <2>1. BackupSpec => [][Raises => Reason]_vars
    BY <1>1, <1>2, <1>3, BackupSpecInv, PTL DEF BackupSpec
  <2>2. QED
    BY <2>1 DEF GoesThroughUnlessTorn, Raises, Reason
=============================================================================
