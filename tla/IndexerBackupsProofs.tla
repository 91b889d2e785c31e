------------------------ MODULE IndexerBackupsProofs ------------------------
(***************************************************************************)
(* The theorems of Indexer hold with backups as well: a copy made between  *)
(* any two transactions has what the tables have, and putting it back      *)
(* gives the tables a state from which everything goes on.                 *)
(***************************************************************************)
EXTENDS IndexerBackups, IndexerProofs

(* What is always true of the tables is true of every copy.                *)
CopyTyped(s) ==
  /\ s.poolRows \in 0 .. Pools /\ s.valRows \subseteq Pk
  /\ s.psig \in [Pk -> Deposit \cup {None}] /\ s.ssig \in [Pk -> Deposit \cup {None}]
  /\ s.withdrawn \in [Withdrawal -> Nat] /\ s.fees \in [Slot -> Nat]
  /\ s.depRows \subseteq Deposit /\ s.wdRows \subseteq Withdrawal
  /\ s.slotRows \subseteq Slot /\ s.blockRows \subseteq s.slotRows

CopyIsLog(s) ==
  /\ \E top \in Start .. MaxSlot : s.slotRows = Start + 1 .. top
  /\ \A t \in s.slotRows : t <= head

CopyFees(s) ==
  /\ \A t \in Slot : s.fees[t] <= 1 + resets
  /\ \A t \in Slot \ s.slotRows : s.fees[t] <= resets

CopyRows(s) ==
  /\ \A d \in s.depRows : s.psig[DepPk(d)] # None
  /\ \A pk \in s.valRows : chain.poolOf[pk] < s.poolRows

CopiesInv == \A s \in saved : CopyTyped(s) /\ CopyIsLog(s) /\ CopyFees(s)

(* The invariants of the indexer, and those of the copies.                 *)
BackupInv == IInv /\ FeesInv /\ TheftInv /\ CopiesInv
RowsInv == DepositsInv /\ PoolsInv /\ \A s \in saved : CopyRows(s)
-----------------------------------------------------------------------------
(* The slot the last trigger was fired for, and the count of resets, never *)
(* go back; the history never changes.                                     *)
LEMMA HeadGrows ==
  ASSUME IInv, [Next]_vars
  PROVE  head <= head' /\ resets <= resets' /\ UNCHANGED chain
<1>1. head \in Nat /\ resets \in Nat
  BY SlotAssumption DEF IInv, TypeOK
<1>2. Frame
  BY Writers
<1>3. resets <= resets' /\ UNCHANGED chain
  BY <1>1, <1>2 DEF Frame, Reset
<1>4. head <= head'
  <2>1. CASE Trigger
    <3>1. PICK c \in chain.block : c >= head /\ head' = c
      BY <2>1 DEF Trigger
    <3>2. c \in Nat
      BY SlotAssumption DEF IInv, TypeOK, Chain, Slot
    <3>3. QED
      BY <1>1, <3>1, <3>2
  <2>2. CASE ~ Trigger
    <3>1. CASE UNCHANGED vars \/ Crash \/ Restart \/ Reset
      BY <1>1, <3>1 DEF vars, daemon, Crash, Restart, Reset
    <3>2. CASE Raise
      BY <1>1, <3>2 DEF Raise
    <3>3. CASE (NextBatch \/ LoopEnd \/ Regulate \/ Report \/ Verify) /\ ~ Raise
      BY <1>1, <3>3 DEF daemon, NextBatch, LoopEnd, Regulate, Report, Verify
    <3>4. CASE (FetchSlots \/ UpdatePools \/ InsertValidators \/ InsertSlots) /\ ~ Raise
      BY <1>1, <3>4 DEF daemon, FetchSlots, UpdatePools, InsertValidators, InsertSlots
    <3>5. CASE (ProcessDeposits \/ InsertDeposits) /\ ~ Raise
      BY <1>1, <3>5 DEF daemon, ProcessDeposits, InsertDeposits
    <3>6. CASE (ProcessWithdrawals \/ InsertWithdrawals) /\ ~ Raise
      BY <1>1, <3>6 DEF daemon, ProcessWithdrawals, InsertWithdrawals
    <3>7. CASE (ProcessFees \/ DetectThefts) /\ ~ Raise
      BY <1>1, <3>7 DEF daemon, ProcessFees, DetectThefts
    <3>8. QED
      BY <2>2, <3>1, <3>2, <3>3, <3>4, <3>5, <3>6, <3>7 DEF Next, Step, Index
  <2>3. QED
    BY <2>1, <2>2
<1>5. QED
  BY <1>3, <1>4

(* A step of the indexer leaves the copies what they are.                  *)
LEMMA CopiesKept ==
  ASSUME IInv, IInv', CopiesInv, head <= head', resets <= resets', saved' = saved
  PROVE  CopiesInv'
<1> SUFFICES ASSUME NEW s \in saved PROVE (CopyTyped(s) /\ CopyIsLog(s) /\ CopyFees(s))'
  BY DEF CopiesInv
<1>1. CopyTyped(s) /\ CopyIsLog(s) /\ CopyFees(s)
  BY DEF CopiesInv
<1>2. /\ head \in Nat /\ head' \in Nat /\ resets \in Nat /\ resets' \in Nat
      /\ s.fees \in [Slot -> Nat] /\ s.slotRows \subseteq Nat
  <2>1. head \in Nat /\ resets \in Nat
    BY SlotAssumption DEF IInv, TypeOK
  <2>2. head' \in Nat /\ resets' \in Nat
    BY SlotAssumption DEF IInv, TypeOK
  <2>3. Slot \subseteq Nat
    BY SlotAssumption DEF Slot
  <2>4. QED
    BY <1>1, <2>1, <2>2, <2>3 DEF CopyTyped
<1>3. CopyTyped(s)'
  BY <1>1 DEF CopyTyped
<1>4. CopyIsLog(s)'
  BY <1>1, <1>2 DEF CopyIsLog
<1>5. CopyFees(s)'
  BY <1>1, <1>2 DEF CopyFees
<1>6. QED
  BY <1>3, <1>4, <1>5

(* The copy that is made has what the tables have.                         *)
LEMMA BackupCopies ==
  ASSUME BackupInv, Backup
  PROVE  CopiesInv'
<1>1. IInv' /\ UNCHANGED <<head, resets>>
  BY NextIInv DEF BackupInv, Backup, vars, daemon, outside
<1>2. CopyTyped(Copy) /\ CopyIsLog(Copy) /\ CopyFees(Copy)
  BY DEF BackupInv, IInv, TypeOK, LogInv, SlotsContiguous, RowsBehindHead, FeesInv, Copy,
     CopyTyped, CopyIsLog, CopyFees
<1>3. saved' = saved \cup {Copy}
  BY DEF Backup
<1>4. ASSUME NEW s \in saved'
      PROVE  (CopyTyped(s) /\ CopyIsLog(s) /\ CopyFees(s))'
  <2>1. CopyTyped(s) /\ CopyIsLog(s) /\ CopyFees(s)
    BY <1>2, <1>3, <1>4 DEF BackupInv, CopiesInv
  <2>2. QED
    BY <1>1, <2>1 DEF CopyTyped, CopyIsLog, CopyFees
<1>5. QED
  BY <1>4 DEF CopiesInv

(* Putting a copy back gives the tables all that the copy has.             *)
LEMMA RestoreInv ==
  ASSUME BackupInv, Restore
  PROVE  IInv' /\ FeesInv' /\ TheftInv'
<1> USE DEF BackupInv
<1>1. PICK s \in saved :
        /\ poolRows' = s.poolRows
        /\ valRows' = s.valRows /\ psig' = s.psig /\ ssig' = s.ssig
        /\ withdrawn' = s.withdrawn /\ fees' = s.fees
        /\ depRows' = s.depRows /\ wdRows' = s.wdRows
        /\ slotRows' = s.slotRows /\ blockRows' = s.blockRows
  BY DEF Restore
<1>2. CopyTyped(s) /\ CopyIsLog(s) /\ CopyFees(s)
  BY DEF CopiesInv
<1>3. /\ pc = "stopped" /\ resets < MaxResets /\ resets' = resets + 1
      /\ UNCHANGED <<pc, daemon, batches, batch, thefts, chain, reported, crashes, saved>>
  BY DEF Restore
<1>4. resets \in Nat /\ resets' \in 1 .. MaxResets
  BY <1>3, BoundAssumption DEF IInv, TypeOK
<1>5. TypeOK'
  BY <1>1, <1>2, <1>3, <1>4 DEF IInv, TypeOK, CopyTyped, LegalChain, daemon, batch
<1>6. SlotsContiguous' /\ RowsBehindHead'
  BY <1>1, <1>2, <1>3 DEF SlotsContiguous, RowsBehindHead, CopyIsLog, daemon
<1>7. BatchFollowsLog' /\ BatchHasBlock'
  BY <1>3 DEF BatchFollowsLog, BatchHasBlock, Open, Fetched, Stages
<1>8. FeesInv'
  <2>1. s.fees \in [Slot -> Nat]
    BY <1>2 DEF CopyTyped
  <2>2. QED
    BY <1>1, <1>2, <1>3, <1>4, <2>1 DEF FeesInv, CopyFees
<1>9. TheftInv'
  BY <1>4 DEF TheftInv
<1>10. QED
  BY <1>5, <1>6, <1>7, <1>8, <1>9 DEF IInv, LogInv

LEMMA BackupNextInv == BackupInv /\ [BackupNext]_backupVars => BackupInv'
<1> SUFFICES ASSUME BackupInv, [BackupNext]_backupVars PROVE BackupInv'
  OBVIOUS
<1>1. CASE [Next]_vars /\ UNCHANGED saved
  <2>1. IInv'
    BY <1>1, NextIInv DEF BackupInv
  <2>2. FeesInv' /\ TheftInv'
    BY <1>1, <2>1, FeesInvStep, TheftInvStep DEF BackupInv
  <2>3. CopiesInv'
    BY <1>1, <2>1, HeadGrows, CopiesKept DEF BackupInv
  <2>4. QED
    BY <2>1, <2>2, <2>3 DEF BackupInv
<1>2. CASE Backup
  <2>1. [Next]_vars
    BY <1>2 DEF Backup
  <2>2. IInv'
    BY <2>1, NextIInv DEF BackupInv
  <2>3. FeesInv' /\ TheftInv'
    BY <2>1, <2>2, FeesInvStep, TheftInvStep DEF BackupInv
  <2>4. QED
    BY <1>2, <2>2, <2>3, BackupCopies DEF BackupInv
<1>3. CASE Restore
  <2>1. IInv' /\ FeesInv' /\ TheftInv'
    BY <1>3, RestoreInv
  <2>2. saved' = saved /\ head' = head /\ resets' = resets + 1
    BY <1>3 DEF Restore, daemon
  <2>3. head <= head' /\ resets <= resets'
    BY <2>2, SlotAssumption DEF BackupInv, IInv, TypeOK
  <2>4. CopiesInv'
    BY <2>1, <2>2, <2>3, CopiesKept DEF BackupInv
  <2>5. QED
    BY <2>1, <2>4 DEF BackupInv
<1>4. QED
  BY <1>1, <1>2, <1>3 DEF BackupNext, backupVars

LEMMA BackupSpecInv == BackupSpec => []BackupInv
<1>1. BackupInit => BackupInv
  <2> SUFFICES ASSUME BackupInit PROVE BackupInv
    OBVIOUS
  <2>1. IInv
    BY InitIInv DEF BackupInit
  <2>2. FeesInv /\ TheftInv /\ CopiesInv
    BY DEF BackupInit, Init, FeesInv, TheftInv, CopiesInv
  <2>3. QED
    BY <2>1, <2>2 DEF BackupInv
<1>2. QED
  BY <1>1, BackupNextInv, PTL DEF BackupSpec

(* Every variable keeps its type, with backups made and put back.          *)
THEOREM TypeCorrectWithBackups == BackupSpec => []TypeOK
<1>1. BackupInv => TypeOK
  BY DEF BackupInv, IInv
<1>2. QED
  BY <1>1, BackupSpecInv, PTL

(* The Slots table never has a hole, whatever backup is put back: the      *)
(* cursor of process_slots is safe.                                        *)
THEOREM LogHasNoHoleWithBackups == BackupSpec => []SlotsContiguous
<1>1. BackupInv => SlotsContiguous
  BY DEF BackupInv, IInv, LogInv
<1>2. QED
  BY <1>1, BackupSpecInv, PTL

(* A block's fee is counted again only as many times as tables were wiped  *)
(* or put back.                                                            *)
THEOREM FeesCountedOnceWithBackups == BackupSpec => []FeesOnce
<1>1. BackupInv => FeesOnce
  BY DEF BackupInv, FeesInv, FeesOnce
<1>2. QED
  BY <1>1, BackupSpecInv, PTL

(* No theft is reported twice, as long as nothing is wiped or put back.    *)
THEOREM TheftsReportedOnceWithBackups == BackupSpec => []ThievesReportedOnce
<1>1. BackupInv => ThievesReportedOnce
  BY DEF BackupInv, TheftInv, ThievesReportedOnce
<1>2. QED
  BY <1>1, BackupSpecInv, PTL

(* A running geoscope replaces no signature, whatever was put back before. *)
THEOREM SignaturesNeverReplacedWithBackups == BackupSpec => SignaturesWrittenOnce
<1>1. BackupInv /\ [BackupNext]_backupVars => [pc # "stopped" => SignaturesKept]_vars
  BY SignaturesStep DEF BackupInv, BackupNext, Backup, Restore, backupVars
<1>2. QED
  BY <1>1, BackupSpecInv, PTL DEF BackupSpec, SignaturesWrittenOnce, SignaturesKept
-----------------------------------------------------------------------------
LEMMA RowsStep ==
  ASSUME ResetsDepositsToo, ResetsValidatorsToo,
         BackupInv, BackupInv', [BackupNext]_backupVars, RowsInv
  PROVE  RowsInv'
<1>1. CASE [Next]_vars /\ UNCHANGED saved
  <2>1. DepositsInv' /\ PoolsInv'
    BY <1>1, DepositsInvStep, PoolsInvStep DEF BackupInv, RowsInv
  <2>2. UNCHANGED <<chain, saved>>
    BY <1>1, HeadGrows DEF BackupInv
  <2>3. \A s \in saved' : CopyRows(s)'
    BY <2>2 DEF RowsInv, CopyRows, DepPk
  <2>4. QED
    BY <2>1, <2>3 DEF RowsInv
<1>2. CASE Backup
  <2>1. [Next]_vars /\ UNCHANGED vars /\ saved' = saved \cup {Copy}
    BY <1>2 DEF Backup
  <2>2. DepositsInv' /\ PoolsInv'
    BY <2>1, DepositsInvStep, PoolsInvStep DEF BackupInv, RowsInv
  <2>3. CopyRows(Copy)
    BY DEF RowsInv, DepositsInv, DepositsProcessed, PoolsInv, NoOrphanValidators, CopyRows, Copy
  <2>4. UNCHANGED chain
    BY <2>1 DEF vars, outside
  <2>5. \A s \in saved' : CopyRows(s)'
    BY <2>1, <2>3, <2>4 DEF RowsInv, CopyRows, DepPk
  <2>6. QED
    BY <2>2, <2>5 DEF RowsInv
<1>3. CASE Restore
  <2>1. PICK s \in saved :
          /\ poolRows' = s.poolRows /\ valRows' = s.valRows
          /\ psig' = s.psig /\ depRows' = s.depRows
    BY <1>3 DEF Restore
  <2>2. pc' = "stopped" /\ UNCHANGED <<chain, saved>>
    BY <1>3 DEF Restore
  <2>3. DepositsInv' /\ PoolsInv'
    BY <2>1, <2>2 DEF RowsInv, CopyRows, DepositsInv, DepositsProcessed, PoolsInv,
       NoOrphanValidators, DepPk
  <2>4. \A t \in saved' : CopyRows(t)'
    BY <2>2 DEF RowsInv, CopyRows, DepPk
  <2>5. QED
    BY <2>3, <2>4 DEF RowsInv
<1>4. QED
  BY <1>1, <1>2, <1>3 DEF BackupNext, backupVars

LEMMA RowsSpecInv ==
  ASSUME ResetsDepositsToo, ResetsValidatorsToo
  PROVE  BackupSpec => []RowsInv
<1>1. BackupInit => RowsInv
  BY DEF BackupInit, Init, RowsInv, DepositsInv, DepositsProcessed, PoolsInv, NoOrphanValidators
<1>2. RowsInv /\ (BackupInv /\ BackupInv' /\ [BackupNext]_backupVars) => RowsInv'
  BY RowsStep
<1>3. QED
  BY <1>1, <1>2, BackupSpecInv, PTL DEF BackupSpec

(* A backup made between the two transactions of a deposit, and put back,  *)
(* leaves no deposit that its validator's row does not account for.        *)
THEOREM DepositsAreProcessedWithBackups ==
  ASSUME ResetsDepositsToo, ResetsValidatorsToo
  PROVE  BackupSpec => []DepositsProcessed
<1>1. RowsInv => DepositsProcessed
  BY DEF RowsInv, DepositsInv
<1>2. QED
  BY <1>1, RowsSpecInv, PTL

(* ... and no validator row whose pool is missing.                         *)
THEOREM PoolsBeforeValidatorsWithBackups ==
  ASSUME ResetsDepositsToo, ResetsValidatorsToo
  PROVE  BackupSpec => []NoOrphanValidators
<1>1. RowsInv => NoOrphanValidators
  BY DEF RowsInv, PoolsInv
<1>2. QED
  BY <1>1, RowsSpecInv, PTL
-----------------------------------------------------------------------------
LEMMA InsertSlotsAppends ==
  ASSUME IInv, InsertSlots, ~ Raise, UNCHANGED saved
  PROVE  SavedLog!Append
<1> DEFINE top == first - 1
           n == last - first + 1
<1>1. pc = "slots" /\ slotRows' = slotRows \cup SlotBatch /\ blockRows' = blockRows \cup got
  BY DEF InsertSlots
<1>2. first \in Nat /\ last \in Nat
  BY DEF IInv, TypeOK
<1>3. /\ top \in Start .. MaxSlot /\ n \in 1 .. BatchSize /\ top + n = last
      /\ top + 1 = first /\ last <= MaxSlot
  BY <1>1, <1>2, SlotsAppended, SlotAssumption
<1>4. slotRows = Start + 1 .. top /\ slotRows' = Start + 1 .. top + n
  BY <1>1, <1>3, SlotsAppended
<1>5. got \in SUBSET (top + 1 .. top + n) /\ got # {}
  BY <1>1, <1>3, SlotsAppended
<1> HIDE DEF top, n
<1>6. QED
  BY <1>1, <1>3, <1>4, <1>5 DEF SavedLog!Append

(* The tables geoscope keeps of the beacon chain are the log SlotLog       *)
(* describes: index_slots only ever appends whole batches to it, and       *)
(* whatever is put back was such a log.                                    *)
THEOREM SlotsAreALog == BackupSpec => ImplementsSavedLog
<1> DEFINE copies == {[rows |-> s.slotRows, blocks |-> s.blockRows] : s \in saved}
<1>1. BackupInit => SavedLog!Init
  BY DEF BackupInit, Init, SavedLog!Init
<1>2. BackupInv /\ [BackupNext]_backupVars => [SavedLog!Next]_(SavedLog!vars)
  <2> SUFFICES ASSUME BackupInv, [BackupNext]_backupVars
               PROVE  [SavedLog!Next]_<<slotRows, blockRows, copies>>
    BY DEF SavedLog!vars
  <2>1. CASE InsertSlots /\ ~ Raise /\ UNCHANGED saved
    BY <2>1, InsertSlotsAppends DEF BackupInv, SavedLog!Next
  <2>2. CASE Reset /\ UNCHANGED saved
    BY <2>2 DEF Reset, ResetSlots, SavedLog!Next, SavedLog!Wipe
  <2>3. CASE [Next]_vars /\ ~ (InsertSlots /\ ~ Raise) /\ ~ Reset /\ UNCHANGED saved
    <3>1. UNCHANGED <<slotRows, blockRows>>
      BY <2>3, Writers DEF Frame, Raise, tables
    <3>2. QED
      BY <2>3, <3>1
  <2>4. CASE Backup
    <3>1. UNCHANGED <<slotRows, blockRows>> /\ saved' = saved \cup {Copy}
      BY <2>4 DEF Backup, vars, tables
    <3>2. Copy.slotRows = slotRows /\ Copy.blockRows = blockRows
      BY DEF Copy
    <3> DEFINE new == [rows |-> slotRows, blocks |-> blockRows]
    <3>3. copies' = copies \cup {new}
      <4>1. ASSUME NEW c \in copies'
            PROVE  c \in copies \cup {new}
        <5>1. PICK s \in saved \cup {Copy} : c = [rows |-> s.slotRows, blocks |-> s.blockRows]
          BY <3>1
        <5>2. CASE s = Copy
          BY <5>1, <5>2, <3>2
        <5>3. CASE s \in saved
          BY <5>1, <5>3
        <5>4. QED
          BY <5>1, <5>2, <5>3
      <4>2. copies \subseteq copies'
        BY <3>1
      <4>3. Copy \in saved'
        BY <3>1
      <4>4. new \in copies'
        BY <4>3, <3>2
      <4>5. QED
        BY <4>1, <4>2, <4>4
    <3>4. QED
      BY <3>1, <3>3 DEF SavedLog!Next, SavedLog!Save
  <2>5. CASE Restore
    <3>1. PICK s \in saved : slotRows' = s.slotRows /\ blockRows' = s.blockRows
      BY <2>5 DEF Restore
    <3>2. UNCHANGED saved
      BY <2>5 DEF Restore
    <3> DEFINE c == [rows |-> s.slotRows, blocks |-> s.blockRows]
    <3>3. c \in copies /\ slotRows' = c.rows /\ blockRows' = c.blocks
      BY <3>1
    <3>4. QED
      BY <3>2, <3>3 DEF SavedLog!Next, SavedLog!Restore
  <2>6. QED
    BY <2>1, <2>2, <2>3, <2>4, <2>5 DEF BackupNext, backupVars
<1>3. QED
  BY <1>1, <1>2, BackupSpecInv, PTL DEF BackupSpec, ImplementsSavedLog, SavedLog!Spec
=============================================================================
