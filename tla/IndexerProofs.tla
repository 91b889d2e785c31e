--------------------------- MODULE IndexerProofs ---------------------------
(***************************************************************************)
(* Theorems of Indexer, for every chain, batch size, period and bound:     *)
(* the log of slots; then what the tables say of each other, and what a    *)
(* replayed batch may never do to them.                                    *)
(***************************************************************************)
EXTENDS Indexer, FiniteNumbers

(* The stages of a batch before its slots are saved, and those in which    *)
(* its fetched slots are known.                                            *)
Open == {"fetch", "pools", "validators", "deposits", "insertDeposits",
         "withdrawals", "insertWithdrawals", "slots"}
Fetched == Stages \ {"fetch"}

(* A batch in progress is the one that follows the log, and stays within   *)
(* the slot the trigger was fired for.                                     *)
BatchFollowsLog ==
  pc \in Open => /\ Start < first /\ slotRows = Start + 1 .. first - 1
                 /\ last <= head /\ last < first + BatchSize

(* A batch that got past its fetch has a block, within its slots.          *)
BatchHasBlock == pc \in Fetched => got # {} /\ got \subseteq first .. last

(* Nothing is saved beyond the slots triggers were fired for.              *)
RowsBehindHead == \A s \in slotRows : s <= head

LogInv == SlotsContiguous /\ BatchFollowsLog /\ BatchHasBlock /\ RowsBehindHead

IInv == TypeOK /\ LogInv
-----------------------------------------------------------------------------
(* read_max_slot returns the last slot of the log, the start slot when it  *)
(* is empty.                                                               *)
LEMMA MaxRowIsTop ==
  ASSUME NEW top \in Start .. MaxSlot, slotRows = Start + 1 .. top
  PROVE  MaxRow = top
<1>1. CASE top = Start
  BY <1>1, SlotAssumption DEF MaxRow
<1>2. CASE top # Start
  <2>1. top \in slotRows /\ \A t \in slotRows : t <= top
    BY <1>2, SlotAssumption
  <2>2. \A s \in slotRows : (\A t \in slotRows : t <= s) => s = top
    BY <2>1, SlotAssumption
  <2>3. QED
    BY <2>1, <2>2 DEF MaxRow
<1>3. QED
  BY <1>1, <1>2

(* The last of a validator's deposits is one of them.                      *)
LEMMA LatestOfIsOne ==
  ASSUME NEW D \in SUBSET Deposit, NEW pk \in Touched(D)
  PROVE  LatestOf(D, pk) \in D /\ DepPk(LatestOf(D, pk)) = pk
<1> DEFINE E == {d \in D : DepPk(d) = pk}
<1>1. E \in SUBSET Nat /\ E # {}
  BY DepositAssumption DEF Touched
<1>2. IsFiniteSet(E)
  BY DepositAssumption, FS_Subset
<1>3. PICK m \in E : \A e \in E : e <= m
  BY <1>1, <1>2, GreatestExists
<1>4. QED
  BY <1>3 DEF LatestOf
-----------------------------------------------------------------------------
LEMMA InitIInv == Init => IInv
<1> SUFFICES ASSUME Init PROVE IInv
  OBVIOUS
<1> USE DEF Init
<1>1. TypeOK
  BY ChainAssumption, SlotAssumption, BoundAssumption, PoolAssumption DEF TypeOK, Labels, Slot
<1>2. SlotsContiguous
  BY SlotAssumption DEF SlotsContiguous
<1>3. BatchFollowsLog /\ BatchHasBlock /\ RowsBehindHead
  BY DEF BatchFollowsLog, BatchHasBlock, RowsBehindHead, Open, Fetched, Stages
<1>4. QED
  BY <1>1, <1>2, <1>3 DEF IInv, LogInv

(* What the type invariant says of the history.                            *)
LEMMA ChainTyped ==
  ASSUME TypeOK
  PROVE  /\ chain.block \subseteq Slot
         /\ \A d \in Deposit : DepPk(d) \in Pk /\ DepSlot(d) \in Start .. MaxSlot
         /\ \A w \in Withdrawal : WdSlot(w) \in Start .. MaxSlot
BY DEF TypeOK, Chain, DepPk, DepSlot, WdSlot

(* An exception leaves the tables and the types as they are.               *)
LEMMA StopIInv ==
  ASSUME IInv, Stop, UNCHANGED <<tables, head, chain>>,
         crashes' \in 0 .. MaxCrashes, resets' = resets, reported' = reported
  PROVE  IInv'
<1> USE DEF Stop, tables, validators, balances
<1>1. TypeOK'
  BY SlotAssumption DEF IInv, TypeOK, LegalChain, Labels
<1>2. SlotsContiguous' /\ RowsBehindHead'
  BY DEF IInv, LogInv, SlotsContiguous, RowsBehindHead
<1>3. BatchFollowsLog' /\ BatchHasBlock'
  BY DEF BatchFollowsLog, BatchHasBlock, Open, Fetched, Stages
<1>4. QED
  BY <1>1, <1>2, <1>3 DEF IInv, LogInv

LEMMA RaiseIInv == IInv /\ Raise => IInv'
<1> SUFFICES ASSUME IInv, Raise PROVE IInv'
  OBVIOUS
<1>1. Stop /\ UNCHANGED <<tables, head, chain>> /\ resets' = resets
      /\ reported' = reported /\ crashes' = crashes
  BY DEF Raise, outside
<1>2. crashes' \in 0 .. MaxCrashes
  BY <1>1 DEF IInv, TypeOK
<1>3. QED
  BY <1>1, <1>2, StopIInv

LEMMA TriggerIInv == IInv /\ Trigger => IInv'
<1> SUFFICES ASSUME IInv, Trigger PROVE IInv'
  OBVIOUS
<1> USE DEF IInv, outside, tables, validators, balances, batch, Goto
<1>1. PICK c \in chain.block : /\ c >= head /\ head' = c /\ recent' = c
                              /\ batches' = BatchCount(c)
  BY DEF Trigger
<1>2. c \in Slot /\ c \in Nat /\ head \in Nat
  BY ChainTyped, <1>1, SlotAssumption DEF Slot, TypeOK
<1>3. batches' \in Nat
  <2>1. PICK top \in Start .. MaxSlot : slotRows = Start + 1 .. top
    BY DEF LogInv, SlotsContiguous
  <2>2. MaxRow = top /\ top \in Nat
    BY <2>1, MaxRowIsTop, SlotAssumption
  <2>3. top <= c \/ top = Start
    BY <2>1, <2>2, <1>1, <1>2, SlotAssumption DEF LogInv, RowsBehindHead
  <2>4. top <= c
    BY <2>3, <1>2, SlotAssumption DEF Slot
  <2> DEFINE n == (c - top + 1) + (BatchSize - 1)
  <2>5. n \in Nat
    BY <2>2, <2>4, <1>2, SlotAssumption
  <2>6. n \div BatchSize \in Nat
    BY <2>5, SlotAssumption
  <2>7. QED
    BY <2>2, <2>6, <1>1 DEF BatchCount
<1>4. TypeOK'
  BY <1>1, <1>2, <1>3, SlotAssumption DEF Trigger, TypeOK, LegalChain, Labels, Slot
<1>5. SlotsContiguous' /\ BatchFollowsLog' /\ BatchHasBlock'
  BY DEF Trigger, LogInv, SlotsContiguous, BatchFollowsLog, BatchHasBlock, Open, Fetched, Stages
<1>6. RowsBehindHead'
  BY <1>1, <1>2, SlotAssumption DEF Trigger, LogInv, RowsBehindHead, TypeOK, Slot
<1>7. QED
  BY <1>4, <1>5, <1>6 DEF LogInv

LEMMA NextBatchIInv == IInv /\ NextBatch => IInv'
<1> SUFFICES ASSUME IInv, NextBatch PROVE IInv'
  OBVIOUS
<1> USE DEF IInv, outside, tables, validators, balances, daemon, Goto
<1>1. PICK top \in Start .. MaxSlot : slotRows = Start + 1 .. top
  BY DEF LogInv, SlotsContiguous
<1>2. MaxRow = top /\ top \in Nat
  BY <1>1, MaxRowIsTop, SlotAssumption
<1>3. /\ first' = top + 1 /\ last' <= head /\ last' < first' + BatchSize
      /\ last' \in Nat
  BY <1>2, SlotAssumption DEF NextBatch, BatchEnd, TypeOK
<1>4. TypeOK'
  BY <1>2, <1>3 DEF NextBatch, TypeOK, LegalChain, Labels, Stages
<1>5. BatchFollowsLog'
  BY <1>1, <1>2, <1>3, SlotAssumption DEF NextBatch, BatchFollowsLog
<1>6. SlotsContiguous' /\ RowsBehindHead' /\ BatchHasBlock'
  BY DEF NextBatch, LogInv, SlotsContiguous, RowsBehindHead, BatchHasBlock, Fetched, Stages
<1>7. QED
  BY <1>4, <1>5, <1>6 DEF LogInv

(* A step of the pipeline that writes no slot keeps the log and its batch. *)
LEMMA KeepsLog ==
  ASSUME LogInv, UNCHANGED <<slotRows, head, batch>>,
         pc' \in Open => pc \in Open, pc' \in Fetched => pc \in Fetched
  PROVE  LogInv'
BY DEF LogInv, SlotsContiguous, BatchFollowsLog, BatchHasBlock, RowsBehindHead, batch

LEMMA FetchSlotsIInv == IInv /\ FetchSlots => IInv'
<1> SUFFICES ASSUME IInv, FetchSlots PROVE IInv'
  OBVIOUS
<1> USE DEF IInv, outside, tables, validators, balances, daemon, Goto
<1>1. PICK lost \in SUBSET Lossy :
        LET found == ((first .. last) \cap chain.block) \ lost IN
        \/ /\ found # {} /\ got' = found
           /\ pc' = "pools"
           /\ UNCHANGED <<tables, daemon, batches, first, last, thefts, outside>>
        \/ found = {} /\ Raise
  BY DEF FetchSlots
<1> DEFINE found == ((first .. last) \cap chain.block) \ lost
<1>2. CASE found = {} /\ Raise
  BY <1>2, RaiseIInv
<1>3. CASE /\ found # {} /\ got' = found /\ pc' = "pools"
           /\ UNCHANGED <<tables, daemon, batches, first, last, thefts, outside>>
  <2>1. found \subseteq Slot
    BY ChainTyped
  <2>2. TypeOK'
    BY <1>3, <2>1 DEF TypeOK, LegalChain, Labels, Stages
  <2>3. LogInv'
    BY <1>3 DEF FetchSlots, LogInv, SlotsContiguous, BatchFollowsLog, BatchHasBlock,
               RowsBehindHead, Open, Fetched
  <2>4. QED
    BY <2>2, <2>3
<1>4. QED
  BY <1>1, <1>2, <1>3

LEMMA UpdatePoolsIInv == IInv /\ UpdatePools => IInv'
<1> SUFFICES ASSUME IInv, UpdatePools PROVE IInv'
  OBVIOUS
<1> USE DEF IInv, outside, tables, validators, balances, daemon, batch, Goto
<1>1. Cardinality(PortalPools) \in 0 .. Pools
  <2>1. IsFiniteSet(Pool) /\ Cardinality(Pool) = Pools
    BY FS_Interval, PoolAssumption DEF Pool
  <2>2. PortalPools \in SUBSET Pool
    BY DEF PortalPools
  <2>3. IsFiniteSet(PortalPools) /\ Cardinality(PortalPools) <= Pools
    BY <2>1, <2>2, FS_Subset
  <2>4. QED
    BY <2>3, FS_CardinalityType, PoolAssumption
<1>2. poolRows' \in 0 .. Pools
  BY <1>1 DEF UpdatePools, TypeOK
<1>3. TypeOK'
  BY <1>2 DEF UpdatePools, TypeOK, LegalChain, Labels, Stages
<1>4. LogInv'
  BY KeepsLog DEF UpdatePools, Open, Fetched, Stages
<1>5. QED
  BY <1>3, <1>4

LEMMA InsertValidatorsIInv == IInv /\ InsertValidators => IInv'
<1> SUFFICES ASSUME IInv, InsertValidators PROVE IInv'
  OBVIOUS
<1> USE DEF IInv, outside, tables, validators, balances, daemon, batch, Goto
<1>1. CASE Raise
  BY <1>1, RaiseIInv
<1>2. CASE ~ Raise
  <2>1. TypeOK'
    BY <1>2 DEF InsertValidators, InsertRows, Proposed, TypeOK, LegalChain, Labels, Stages
  <2>2. LogInv'
    BY <1>2, KeepsLog DEF InsertValidators, Open, Fetched, Stages
  <2>3. QED
    BY <2>1, <2>2
<1>3. QED
  BY <1>1, <1>2

LEMMA ProcessDepositsIInv == IInv /\ ProcessDeposits => IInv'
<1> SUFFICES ASSUME IInv, ProcessDeposits PROVE IInv'
  OBVIOUS
<1> USE DEF IInv, outside, tables, validators, balances, daemon, batch, Goto
<1>1. CASE Raise
  BY <1>1, RaiseIInv
<1>2. CASE ~ Raise
  <2>1. \A pk \in Touched(NewDeposits) : LatestOf(NewDeposits, pk) \in Deposit
    BY LatestOfIsOne DEF NewDeposits
  <2>2. psig' \in [Pk -> Deposit \cup {None}] /\ ssig' \in [Pk -> Deposit \cup {None}]
    BY <1>2, <2>1 DEF ProcessDeposits, TypeOK
  <2>3. TypeOK'
    BY <1>2, <2>2 DEF ProcessDeposits, TypeOK, LegalChain, Labels, Stages
  <2>4. LogInv'
    BY <1>2, KeepsLog DEF ProcessDeposits, Open, Fetched, Stages
  <2>5. QED
    BY <2>3, <2>4
<1>3. QED
  BY <1>1, <1>2

LEMMA InsertDepositsIInv == IInv /\ InsertDeposits => IInv'
<1> SUFFICES ASSUME IInv, InsertDeposits PROVE IInv'
  OBVIOUS
<1> USE DEF IInv, outside, tables, validators, balances, daemon, batch, Goto
<1>1. TypeOK'
  BY DEF InsertDeposits, NewDeposits, TypeOK, LegalChain, Labels, Stages
<1>2. LogInv'
  BY KeepsLog DEF InsertDeposits, Open, Fetched, Stages
<1>3. QED
  BY <1>1, <1>2

LEMMA ProcessWithdrawalsIInv == IInv /\ ProcessWithdrawals => IInv'
<1> SUFFICES ASSUME IInv, ProcessWithdrawals PROVE IInv'
  OBVIOUS
<1> USE DEF IInv, outside, tables, validators, balances, daemon, batch, Goto
<1>1. CASE Raise
  BY <1>1, RaiseIInv
<1>2. CASE ~ Raise
  <2>1. withdrawn' \in [Withdrawal -> Nat]
    BY <1>2 DEF ProcessWithdrawals, IncreaseWithdrawn, TypeOK
  <2>2. TypeOK'
    BY <1>2, <2>1 DEF ProcessWithdrawals, TypeOK, LegalChain, Labels, Stages
  <2>3. LogInv'
    BY <1>2, KeepsLog DEF ProcessWithdrawals, Open, Fetched, Stages
  <2>4. QED
    BY <2>2, <2>3
<1>3. QED
  BY <1>1, <1>2

LEMMA InsertWithdrawalsIInv == IInv /\ InsertWithdrawals => IInv'
<1> SUFFICES ASSUME IInv, InsertWithdrawals PROVE IInv'
  OBVIOUS
<1> USE DEF IInv, outside, tables, validators, balances, daemon, batch, Goto
<1>1. TypeOK'
  BY DEF InsertWithdrawals, NewWithdrawals, TypeOK, LegalChain, Labels, Stages
<1>2. LogInv'
  BY KeepsLog DEF InsertWithdrawals, Open, Fetched, Stages
<1>3. QED
  BY <1>1, <1>2

(* The batch that is saved extends the log by at least one slot.           *)
LEMMA SlotsAppended ==
  ASSUME IInv, pc = "slots"
  PROVE  /\ first - 1 \in Start .. MaxSlot /\ last \in first .. MaxSlot
         /\ last - first < BatchSize
         /\ slotRows = Start + 1 .. first - 1
         /\ slotRows \cup SlotBatch = Start + 1 .. last
         /\ got # {} /\ got \subseteq first .. last
<1> USE DEF IInv, LogInv
<1>1. /\ Start < first /\ slotRows = Start + 1 .. first - 1
      /\ last <= head /\ last < first + BatchSize
      /\ got # {} /\ got \subseteq first .. last
  BY DEF BatchFollowsLog, BatchHasBlock, Open, Fetched, Stages
<1>2. first \in Nat /\ last \in Nat /\ head \in Nat /\ head <= MaxSlot
  BY SlotAssumption DEF TypeOK
<1>3. first <= last
  <2>1. PICK s \in got : s \in first .. last
    BY <1>1
  <2>2. QED
    BY <2>1, <1>2
<1>4. slotRows \cup SlotBatch = Start + 1 .. last
  BY <1>1, <1>2, <1>3, SlotAssumption DEF SlotBatch
<1>5. QED
  BY <1>1, <1>2, <1>3, <1>4, SlotAssumption

LEMMA InsertSlotsIInv == IInv /\ InsertSlots => IInv'
<1> SUFFICES ASSUME IInv, InsertSlots PROVE IInv'
  OBVIOUS
<1> USE DEF IInv, outside, tables, validators, balances, daemon, batch, Goto
<1>1. CASE Raise
  BY <1>1, RaiseIInv
<1>2. CASE ~ Raise
  <2>1. pc = "slots" /\ last <= head
    BY <1>2 DEF InsertSlots, LogInv, BatchFollowsLog, Open
  <2>2. last \in first .. MaxSlot /\ Start < first
    BY <2>1, SlotsAppended, SlotAssumption DEF LogInv, BatchFollowsLog, Open
  <2>3. /\ slotRows' = Start + 1 .. last /\ last \in Start .. MaxSlot
        /\ blockRows' = blockRows \cup got /\ got \subseteq first .. last
        /\ UNCHANGED <<head, first, last, got>> /\ got # {}
    <3>1. last \in Start .. MaxSlot
      BY <2>2, SlotAssumption DEF TypeOK
    <3>2. QED
      BY <1>2, <2>1, <3>1, SlotsAppended DEF InsertSlots
  <2>4. slotRows' \subseteq Slot /\ blockRows' \subseteq slotRows'
    <3>1. slotRows' \subseteq Slot
      BY <2>3, <2>2, SlotAssumption DEF Slot
    <3>2. slotRows \subseteq slotRows' /\ got \subseteq slotRows'
      <4>1. slotRows' = slotRows \cup SlotBatch
        BY <1>2 DEF InsertSlots
      <4>2. QED
        BY <4>1, <2>3 DEF SlotBatch
    <3>3. QED
      BY <3>1, <3>2, <2>3 DEF TypeOK
  <2>5. TypeOK'
    BY <1>2, <2>4 DEF InsertSlots, TypeOK, LegalChain, Labels, Stages
  <2>6. SlotsContiguous'
    BY <2>3 DEF SlotsContiguous
  <2>7. RowsBehindHead'
    BY <2>3, <2>1, SlotAssumption DEF RowsBehindHead, TypeOK
  <2>8. BatchFollowsLog' /\ BatchHasBlock'
    BY <1>2, <2>3 DEF InsertSlots, BatchFollowsLog, BatchHasBlock, Open
  <2>9. QED
    BY <2>5, <2>6, <2>7, <2>8 DEF LogInv
<1>3. QED
  BY <1>1, <1>2

LEMMA ProcessFeesIInv == IInv /\ ProcessFees => IInv'
<1> SUFFICES ASSUME IInv, ProcessFees PROVE IInv'
  OBVIOUS
<1> USE DEF IInv, outside, tables, validators, balances, daemon, batch, Goto
<1>1. CASE Raise
  BY <1>1, RaiseIInv
<1>2. CASE pc = "fees" /\ OurBlocks = {} /\ EndBatch
           /\ UNCHANGED <<tables, daemon, batches, thefts, outside>>
  <2>1. TypeOK'
    BY <1>2 DEF EndBatch, TypeOK, LegalChain, Labels, Stages
  <2>2. LogInv'
    BY <1>2 DEF EndBatch, LogInv, SlotsContiguous, BatchFollowsLog, BatchHasBlock,
               RowsBehindHead, Open, Fetched, Stages
  <2>3. QED
    BY <2>1, <2>2
<1>3. CASE pc = "fees" /\ pc' = "detect"
  <2>1. /\ fees' = [s \in Slot |-> fees[s] + IF s \in OurBlocks THEN Fee(s) ELSE 0]
        /\ UNCHANGED <<poolRows, valRows, psig, ssig, withdrawn, depRows, wdRows, slotRows,
                       blockRows, daemon, batches, batch, thefts, outside>>
    BY <1>3 DEF ProcessFees, IncreaseFees, EndBatch, Raise, Stop
  <2>2. TypeOK'
    BY <1>3, <2>1 DEF Fee, TypeOK, LegalChain, Labels, Stages
  <2>3. LogInv'
    BY <1>3, <2>1, KeepsLog DEF Open, Fetched, Stages
  <2>4. QED
    BY <2>2, <2>3
<1>4. QED
  BY <1>1, <1>2, <1>3 DEF ProcessFees

LEMMA DetectTheftsIInv == IInv /\ DetectThefts => IInv'
<1> SUFFICES ASSUME IInv, DetectThefts PROVE IInv'
  OBVIOUS
<1> USE DEF IInv, outside, tables, validators, balances, daemon, batch, Goto
<1>1. OurBlocks \subseteq Slot
  BY DEF OurBlocks, TypeOK
<1>2. TypeOK'
  BY <1>1 DEF DetectThefts, EndBatch, TypeOK, LegalChain, Labels, Stages
<1>3. LogInv'
  BY DEF DetectThefts, EndBatch, LogInv, SlotsContiguous, BatchFollowsLog, BatchHasBlock,
         RowsBehindHead, Open, Fetched, Stages
<1>4. QED
  BY <1>2, <1>3

(* The steps between two batches and after the last one.                   *)
LEMMA AfterLoopIInv == IInv /\ (LoopEnd \/ Regulate \/ Report \/ Verify) => IInv'
<1> SUFFICES ASSUME IInv, LoopEnd \/ Regulate \/ Report \/ Verify PROVE IInv'
  OBVIOUS
<1> USE DEF IInv, outside, tables, validators, balances, daemon, batch, Goto
<1>1. CASE LoopEnd
  <2>1. TypeOK'
    BY <1>1 DEF LoopEnd, TypeOK, LegalChain, Labels
  <2>2. LogInv'
    BY <1>1, KeepsLog DEF LoopEnd, Open, Fetched, Stages
  <2>3. QED
    BY <2>1, <2>2
<1>2. CASE Regulate
  <2>1. TypeOK'
    BY <1>2 DEF Regulate, ThievesLeft, TypeOK, LegalChain, Labels
  <2>2. LogInv'
    BY <1>2, KeepsLog DEF Regulate, Open, Fetched, Stages
  <2>3. QED
    BY <2>1, <2>2
<1>3. CASE Raise
  BY <1>3, RaiseIInv
<1>4. CASE Report /\ ~ Raise
  <2>1. TypeOK'
    BY <1>4 DEF Report, TypeOK, LegalChain, Labels
  <2>2. LogInv'
    BY <1>4, KeepsLog DEF Report, Open, Fetched, Stages
  <2>3. QED
    BY <2>1, <2>2
<1>5. CASE Verify /\ ~ Raise
  <2>1. TypeOK'
    BY <1>5 DEF Verify, TypeOK, LegalChain, Labels
  <2>2. LogInv'
    BY <1>5, KeepsLog DEF Verify, Open, Fetched, Stages
  <2>3. QED
    BY <2>1, <2>2
<1>6. QED
  BY <1>1, <1>2, <1>3, <1>4, <1>5

LEMMA CrashIInv == IInv /\ Crash => IInv'
<1> SUFFICES ASSUME IInv, Crash PROVE IInv'
  OBVIOUS
<1>1. crashes' \in 0 .. MaxCrashes
  BY BoundAssumption DEF Crash, IInv, TypeOK
<1>2. QED
  BY <1>1, StopIInv DEF Crash

LEMMA RestartIInv == IInv /\ Restart => IInv'
<1> SUFFICES ASSUME IInv, Restart PROVE IInv'
  OBVIOUS
<1> USE DEF IInv, outside, tables, validators, balances, batch, Goto
<1>1. MaxRow \in Start .. MaxSlot
  BY MaxRowIsTop DEF LogInv, SlotsContiguous
<1>2. TypeOK'
  BY <1>1 DEF Restart, TypeOK, LegalChain, Labels
<1>3. LogInv'
  BY KeepsLog DEF Restart, Open, Fetched, Stages
<1>4. QED
  BY <1>2, <1>3

LEMMA ResetIInv == IInv /\ Reset => IInv'
<1> SUFFICES ASSUME IInv, Reset PROVE IInv'
  OBVIOUS
<1> USE DEF IInv, validators, balances, daemon, batch
<1>1. \/ UNCHANGED <<slotRows, blockRows>>
      \/ slotRows' = {} /\ blockRows' = {}
  BY DEF Reset, ResetSlots
<1>2. TypeOK'
  <2>1. \/ UNCHANGED validators
        \/ /\ valRows' = {}
           /\ psig' = [pk \in Pk |-> None] /\ ssig' = [pk \in Pk |-> None]
           /\ withdrawn' = [w \in Withdrawal |-> 0] /\ fees' = [s \in Slot |-> 0]
    BY DEF Reset, ResetValidators
  <2>2. /\ valRows' \subseteq Pk
        /\ psig' \in [Pk -> Deposit \cup {None}] /\ ssig' \in [Pk -> Deposit \cup {None}]
        /\ withdrawn' \in [Withdrawal -> Nat] /\ fees' \in [Slot -> Nat]
    BY <2>1 DEF TypeOK
  <2>3. resets' \in 0 .. MaxResets
    BY BoundAssumption DEF Reset, TypeOK
  <2>4. poolRows' \in 0 .. Pools /\ depRows' \subseteq Deposit /\ wdRows' \subseteq Withdrawal
    BY PoolAssumption DEF Reset, ResetPools, ResetDeposits, ResetWithdrawals, TypeOK
  <2>5. QED
    BY <1>1, <2>2, <2>3, <2>4 DEF Reset, TypeOK, LegalChain
<1>3. SlotsContiguous' /\ RowsBehindHead'
  BY <1>1, SlotAssumption DEF Reset, ResetSlots, LogInv, SlotsContiguous, RowsBehindHead
<1>4. BatchFollowsLog' /\ BatchHasBlock'
  BY DEF Reset, BatchFollowsLog, BatchHasBlock, Open, Fetched, Stages
<1>5. QED
  BY <1>2, <1>3, <1>4 DEF LogInv

LEMMA NextIInv == IInv /\ [Next]_vars => IInv'
<1> SUFFICES ASSUME IInv, [Next]_vars PROVE IInv'
  OBVIOUS
<1>1. CASE UNCHANGED vars
  <2>1. TypeOK'
    BY <1>1 DEF IInv, TypeOK, LegalChain, vars, tables, validators, balances, daemon, batch, outside
  <2>2. LogInv'
    BY <1>1, KeepsLog DEF IInv, vars, tables, validators, balances, daemon, batch, outside
  <2>3. QED
    BY <2>1, <2>2 DEF IInv
<1>2. CASE Index
  BY <1>2, FetchSlotsIInv, UpdatePoolsIInv, InsertValidatorsIInv, ProcessDepositsIInv,
     InsertDepositsIInv, ProcessWithdrawalsIInv, InsertWithdrawalsIInv, InsertSlotsIInv,
     ProcessFeesIInv, DetectTheftsIInv DEF Index
<1>3. CASE Step
  BY <1>2, <1>3, NextBatchIInv, AfterLoopIInv DEF Step
<1>4. CASE Trigger \/ Crash \/ Restart \/ Reset
  BY <1>4, TriggerIInv, CrashIInv, RestartIInv, ResetIInv
<1>5. QED
  BY <1>1, <1>3, <1>4 DEF Next

LEMMA SpecIInv == Spec => []IInv
BY InitIInv, NextIInv, PTL DEF Spec

(* Every variable keeps its type, whatever the histories and the bounds.   *)
THEOREM TypeCorrect == Spec => []TypeOK
<1>1. IInv => TypeOK
  BY DEF IInv
<1>2. QED
  BY <1>1, SpecIInv, PTL

(* The Slots table never has a hole, through crashes, restarts, replays    *)
(* and resets of any set of tables: the cursor of process_slots is safe.   *)
THEOREM LogHasNoHole == Spec => []SlotsContiguous
<1>1. IInv => SlotsContiguous
  BY DEF IInv, LogInv
<1>2. QED
  BY <1>1, SpecIInv, PTL
-----------------------------------------------------------------------------
(* Who writes what: every variable has one writer besides a reset, and the *)
(* stages that rely on the one before them are entered by it alone.        *)
Frame ==
  /\ UNCHANGED chain
  /\ UpdatePools \/ Reset \/ UNCHANGED poolRows
  /\ InsertValidators \/ Reset \/ UNCHANGED valRows
  /\ ProcessDeposits \/ Reset \/ UNCHANGED <<psig, ssig>>
  /\ ProcessWithdrawals \/ Reset \/ UNCHANGED withdrawn
  /\ ProcessFees \/ Reset \/ UNCHANGED fees
  /\ InsertDeposits \/ Reset \/ UNCHANGED depRows
  /\ InsertWithdrawals \/ Reset \/ UNCHANGED wdRows
  /\ InsertSlots \/ Reset \/ UNCHANGED <<slotRows, blockRows>>
  /\ Regulate \/ UNCHANGED reported
  /\ Reset \/ UNCHANGED resets
  /\ pc' = "validators" => UpdatePools \/ UNCHANGED <<pc, batch, poolRows>>
  /\ pc' = "insertDeposits" => ProcessDeposits \/ UNCHANGED <<pc, batch, valRows, psig, depRows>>
  /\ pc' = "fees" => InsertSlots \/ UNCHANGED <<pc, batch, fees, resets>>
  /\ pc' = "detect" => ProcessFees \/ UNCHANGED <<pc, batch>>

LEMMA Writers == [Next]_vars => Frame
<1> SUFFICES ASSUME [Next]_vars PROVE Frame
  OBVIOUS
<1> USE DEF Frame, tables, validators, balances, daemon, batch, outside, Goto
<1>1. CASE UNCHANGED vars
  BY <1>1 DEF vars
<1>2. CASE Raise
  BY <1>2 DEF Raise, Stop
<1>3. CASE Trigger
  BY <1>3 DEF Trigger
<1>4. CASE Crash
  BY <1>4 DEF Crash, Stop
<1>5. CASE Restart
  BY <1>5 DEF Restart
<1>6. CASE Reset
  BY <1>6 DEF Reset
<1>7. CASE NextBatch
  BY <1>7 DEF NextBatch
<1>8. CASE LoopEnd
  BY <1>8 DEF LoopEnd
<1>9. CASE Regulate
  BY <1>9 DEF Regulate
<1>10. CASE Report
  BY <1>10, <1>2 DEF Report
<1>11. CASE Verify
  BY <1>11, <1>2 DEF Verify
<1>12. CASE FetchSlots
  BY <1>12, <1>2 DEF FetchSlots
<1>13. CASE UpdatePools
  BY <1>13 DEF UpdatePools
<1>14. CASE InsertValidators
  BY <1>14, <1>2 DEF InsertValidators
<1>15. CASE ProcessDeposits
  BY <1>15, <1>2 DEF ProcessDeposits
<1>16. CASE InsertDeposits
  BY <1>16 DEF InsertDeposits
<1>17. CASE ProcessWithdrawals
  BY <1>17, <1>2 DEF ProcessWithdrawals
<1>18. CASE InsertWithdrawals
  BY <1>18 DEF InsertWithdrawals
<1>19. CASE InsertSlots
  BY <1>19, <1>2 DEF InsertSlots
<1>20. CASE ProcessFees
  BY <1>20, <1>2 DEF ProcessFees, EndBatch
<1>21. CASE DetectThefts
  BY <1>21 DEF DetectThefts, EndBatch
<1>22. QED
  BY <1>1, <1>3, <1>4, <1>5, <1>6, <1>7, <1>8, <1>9, <1>10, <1>11, <1>12, <1>13, <1>14,
     <1>15, <1>16, <1>17, <1>18, <1>19, <1>20, <1>21 DEF Next, Step, Index
-----------------------------------------------------------------------------
(* The operator resets Deposits whenever Validators is reset: the tables   *)
(* geoscope fills together are wiped together.                             *)
ResetsDepositsToo == \A T \in ResetChoices : "Validators" \in T => "Deposits" \in T

(* What insert_deposits_batch is about to write has been processed.        *)
DepositsInv ==
  /\ DepositsProcessed
  /\ pc = "insertDeposits" => \A d \in NewDeposits : psig[DepPk(d)] # None

LEMMA DepositsInvStep ==
  ASSUME ResetsDepositsToo, IInv, IInv', [Next]_vars, DepositsInv
  PROVE  DepositsInv'
<1> USE DEF DepositsInv, DepositsProcessed
<1>1. Frame
  BY Writers
<1>2. CASE Reset
  <2>1. \/ depRows' = {}
        \/ UNCHANGED <<psig, depRows, chain>>
    BY <1>1, <1>2 DEF Reset, ResetValidators, ResetDeposits, ResetsDepositsToo, Frame, validators
  <2>2. pc' # "insertDeposits"
    BY <1>2 DEF Reset
  <2>3. QED
    BY <2>1, <2>2 DEF DepPk
<1>3. CASE ProcessDeposits /\ pc' = "insertDeposits"
  <2> DEFINE D == NewDeposits
  <2>1. /\ psig' = [pk \in Pk |-> IF pk \in Touched(D) /\ FillsProposal(pk)
                                  THEN LatestOf(D, pk) ELSE psig[pk]]
        /\ UNCHANGED <<valRows, depRows, got, chain>>
    BY <1>3 DEF ProcessDeposits, Raise, Stop, Goto, tables, validators, outside, batch
  <2>2. D' = D /\ \A d \in Deposit : DepPk(d)' = DepPk(d)
    BY <2>1 DEF NewDeposits, Known, SavedDeposits, DepPk, DepSlot
  <2>3. \A pk \in Touched(D) : pk \in Pk /\ psig'[pk] # None
    <3>1. SUFFICES ASSUME NEW pk \in Touched(D) PROVE pk \in Pk /\ psig'[pk] # None
      OBVIOUS
    <3>2. pk \in Pk /\ LatestOf(D, pk) \in Deposit
      BY LatestOfIsOne, ChainTyped DEF IInv, NewDeposits, Touched
    <3>3. QED
      BY <3>2, <2>1, NoneAssumption DEF FillsProposal
  <2>4. \A pk \in Pk : psig[pk] # None => psig'[pk] # None
    BY <2>1 DEF FillsProposal
  <2>5. \A d \in depRows' : psig'[DepPk(d)'] # None
    BY <2>1, <2>2, <2>4, ChainTyped DEF IInv, TypeOK
  <2>6. \A d \in D' : psig'[DepPk(d)'] # None
    BY <2>2, <2>3 DEF Touched, NewDeposits
  <2>7. QED
    BY <2>5, <2>6
<1>4. CASE ProcessDeposits /\ pc' # "insertDeposits"
  <2>1. UNCHANGED <<psig, depRows, chain>>
    BY <1>4 DEF ProcessDeposits, Raise, Stop, Goto, tables, validators, outside
  <2>2. QED
    BY <1>4, <2>1 DEF DepPk
<1>5. CASE InsertDeposits
  <2>1. /\ pc = "insertDeposits" /\ pc' # "insertDeposits"
        /\ depRows' = depRows \cup NewDeposits /\ UNCHANGED <<psig, chain>>
    BY <1>5 DEF InsertDeposits, validators, outside, Goto
  <2>2. QED
    BY <2>1 DEF DepPk
<1>6. CASE ~ Reset /\ ~ ProcessDeposits /\ ~ InsertDeposits
  <2>1. UNCHANGED <<psig, depRows, chain>>
    BY <1>1, <1>6 DEF Frame
  <2>2. pc' = "insertDeposits" => UNCHANGED <<pc, got, valRows>>
    BY <1>1, <1>6 DEF Frame, batch
  <2>3. QED
    BY <2>1, <2>2 DEF NewDeposits, Known, SavedDeposits, DepPk, DepSlot
<1>7. QED
  BY <1>2, <1>3, <1>4, <1>5, <1>6

(* No deposit is recorded without its validator's row accounting for it,   *)
(* wherever a crash falls between the two transactions.                    *)
THEOREM DepositsAreProcessed ==
  ASSUME ResetsDepositsToo
  PROVE  Spec => []DepositsProcessed
<1>1. Init => DepositsInv
  BY DEF Init, DepositsInv, DepositsProcessed
<1>2. DepositsInv /\ (IInv /\ IInv' /\ [Next]_vars) => DepositsInv'
  BY DepositsInvStep
<1>3. DepositsInv => DepositsProcessed
  BY DEF DepositsInv
<1>4. QED
  BY <1>1, <1>2, <1>3, SpecIInv, PTL DEF Spec
-----------------------------------------------------------------------------
(* Fees of slots that are not saved have been counted by earlier, wiped    *)
(* tables only; so have those of the batch whose fees come next.           *)
FeesInv ==
  /\ \A s \in Slot : fees[s] <= 1 + resets
  /\ \A s \in Slot \ slotRows : fees[s] <= resets
  /\ pc = "fees" => \A s \in Slot : s >= first => fees[s] <= resets

LEMMA FeesInvStep ==
  ASSUME IInv, IInv', [Next]_vars, FeesInv
  PROVE  FeesInv'
<1> USE DEF FeesInv
<1>1. Frame
  BY Writers
<1>2. resets \in Nat /\ resets' \in Nat /\ fees \in [Slot -> Nat] /\ fees' \in [Slot -> Nat]
  BY DEF IInv, TypeOK
<1>3. CASE Reset
  <2>1. \/ UNCHANGED fees
        \/ fees' = [s \in Slot |-> 0]
    BY <1>3 DEF Reset, ResetValidators, validators, balances
  <2>2. resets' = resets + 1 /\ pc' # "fees"
    BY <1>3 DEF Reset
  <2>3. \A s \in Slot : fees'[s] <= resets'
    BY <2>1, <2>2, <1>2
  <2>4. QED
    BY <2>2, <2>3, <1>2
<1>4. CASE InsertSlots /\ pc' = "fees"
  <2>1. /\ pc = "slots" /\ slotRows' = slotRows \cup SlotBatch
        /\ UNCHANGED <<fees, first, last, resets>>
    BY <1>4 DEF InsertSlots, Raise, Stop, validators, balances, batch, outside
  <2>2. \A s \in Slot : s >= first => s \notin slotRows
    <3>1. slotRows = Start + 1 .. first - 1 /\ first \in Nat
      BY <2>1, SlotsAppended DEF IInv, TypeOK
    <3>2. QED
      BY <3>1, SlotAssumption DEF Slot
  <2>3. QED
    BY <2>1, <2>2, <1>2
<1>5. CASE InsertSlots /\ pc' # "fees"
  <2>1. UNCHANGED <<fees, resets, slotRows>>
    BY <1>5 DEF InsertSlots, Raise, Goto, tables, validators, balances, outside
  <2>2. QED
    BY <1>5, <2>1, <1>2
<1>6. CASE ProcessFees
  <2>1. pc = "fees" /\ pc' # "fees" /\ UNCHANGED <<slotRows, resets>>
    BY <1>6 DEF ProcessFees, EndBatch, Raise, Stop, Goto, tables, outside
  <2>2. \/ UNCHANGED fees
        \/ fees' = [s \in Slot |-> fees[s] + IF s \in OurBlocks THEN Fee(s) ELSE 0]
    BY <1>6 DEF ProcessFees, IncreaseFees, Raise, tables, validators, balances
  <2>3. \A s \in OurBlocks : s \in slotRows /\ s \in Slot /\ s >= first
    BY SlotAssumption DEF OurBlocks, IInv, TypeOK, Slot
  <2>4. QED
    BY <2>1, <2>2, <2>3, <1>2 DEF Fee
<1>7. CASE ~ Reset /\ ~ InsertSlots /\ ~ ProcessFees
  <2>1. UNCHANGED <<fees, resets, slotRows>>
    BY <1>1, <1>7 DEF Frame
  <2>2. pc' = "fees" => UNCHANGED <<pc, first>>
    BY <1>1, <1>7 DEF Frame, batch
  <2>3. QED
    BY <2>1, <2>2
<1>8. QED
  BY <1>3, <1>4, <1>5, <1>6, <1>7

(* A restart never counts the fee of a block twice: only as many times as  *)
(* the operator wiped tables can it be counted again.                      *)
THEOREM FeesCountedOnce == Spec => []FeesOnce
<1>1. Init => FeesInv
  BY DEF Init, FeesInv
<1>2. FeesInv /\ (IInv /\ IInv' /\ [Next]_vars) => FeesInv'
  BY FeesInvStep
<1>3. FeesInv => FeesOnce
  BY DEF FeesInv, FeesOnce
<1>4. QED
  BY <1>1, <1>2, <1>3, SpecIInv, PTL DEF Spec
-----------------------------------------------------------------------------
(* The operator resets Validators whenever Pools is reset.                 *)
ResetsValidatorsToo == \A T \in ResetChoices : "Pools" \in T => "Validators" \in T

(* The pools that exist are numbered without a hole.                       *)
LEMMA PoolsCounted ==
  ASSUME TypeOK, NEW p \in PortalPools
  PROVE  p < Cardinality(PortalPools)
<1>1. p \in Nat /\ p \in Pool
  BY PoolAssumption DEF PortalPools, Pool
<1>2. 0 .. p \subseteq PortalPools
  <2> SUFFICES ASSUME NEW q \in 0 .. p PROVE q \in PortalPools
    OBVIOUS
  <2>1. q \in Pool /\ q <= p
    BY <1>1, PoolAssumption DEF Pool
  <2>2. PICK s \in got : chain.pool[p] <= s
    BY DEF PortalPools
  <2>3. /\ chain.pool[q] \in Start .. MaxSlot /\ chain.pool[p] \in Start .. MaxSlot
        /\ s \in Slot
    BY <1>1, <2>1 DEF TypeOK, Chain
  <2>4. chain.pool[q] <= chain.pool[p]
    <3>1. CASE q = p
      BY <3>1, <2>3, SlotAssumption
    <3>2. CASE q # p
      <4>1. q < p
        BY <3>2, <1>1
      <4>2. QED
        BY <4>1, <1>1, <2>1 DEF TypeOK, LegalChain
    <3>3. QED
      BY <3>1, <3>2
  <2>5. chain.pool[q] <= s
    BY <2>2, <2>3, <2>4, SlotAssumption DEF Slot
  <2>6. QED
    BY <2>1, <2>5 DEF PortalPools
<1>3. Cardinality(0 .. p) = p + 1
  BY <1>1, FS_Interval
<1>4. IsFiniteSet(PortalPools)
  <2>1. IsFiniteSet(Pool)
    BY FS_Interval, PoolAssumption DEF Pool
  <2>2. QED
    BY <2>1, FS_Subset DEF PortalPools
<1>5. Cardinality(0 .. p) <= Cardinality(PortalPools)
  BY <1>2, <1>4, FS_Subset
<1>6. Cardinality(PortalPools) \in Nat
  BY <1>4, FS_CardinalityType
<1>7. QED
  BY <1>1, <1>3, <1>5, <1>6

(* update_portal_validators runs with every pool of the batch in Pools.    *)
PoolsInv ==
  /\ NoOrphanValidators
  /\ pc = "validators" => \A p \in PortalPools : p < poolRows

LEMMA PoolsInvStep ==
  ASSUME ResetsValidatorsToo, IInv, IInv', [Next]_vars, PoolsInv
  PROVE  PoolsInv'
<1> USE DEF PoolsInv, NoOrphanValidators
<1>1. Frame
  BY Writers
<1>2. /\ UNCHANGED chain /\ poolRows \in Nat
      /\ \A pk \in Pk : chain.poolOf[pk] \in Pool /\ chain.poolOf[pk] \in Nat
  BY <1>1, PoolAssumption DEF Frame, IInv, TypeOK, Chain, Pool
<1>3. CASE Reset
  <2>1. valRows' = {} \/ UNCHANGED <<poolRows, valRows>>
    BY <1>3 DEF Reset, ResetPools, ResetValidators, ResetsValidatorsToo, validators
  <2>2. pc' # "validators"
    BY <1>3 DEF Reset
  <2>3. QED
    BY <1>2, <2>1, <2>2
<1>4. CASE UpdatePools
  <2>1. UNCHANGED <<valRows, got>>
    BY <1>4 DEF UpdatePools, validators, batch
  <2>2. PortalPools' = PortalPools
    BY <1>2, <2>1 DEF PortalPools
  <2>3. poolRows' = IF Cardinality(PortalPools) > poolRows
                    THEN Cardinality(PortalPools) ELSE poolRows
    BY <1>4 DEF UpdatePools
  <2>4. Cardinality(PortalPools) \in Nat
    <3>1. IsFiniteSet(Pool)
      BY FS_Interval, PoolAssumption DEF Pool
    <3>2. IsFiniteSet(PortalPools)
      BY <3>1, FS_Subset DEF PortalPools
    <3>3. QED
      BY <3>2, FS_CardinalityType
  <2>5. \A p \in PortalPools : p < poolRows'
    <3> SUFFICES ASSUME NEW p \in PortalPools PROVE p < poolRows'
      OBVIOUS
    <3>1. p < Cardinality(PortalPools) /\ p \in Nat
      BY PoolsCounted, PoolAssumption DEF IInv, PortalPools, Pool
    <3>2. QED
      BY <3>1, <2>3, <2>4, <1>2
  <2>6. \A pk \in valRows : chain.poolOf[pk] < poolRows'
    BY <2>3, <2>4, <1>2 DEF IInv, TypeOK
  <2>7. QED
    BY <1>2, <2>1, <2>2, <2>5, <2>6
<1>5. CASE InsertValidators /\ ~ Raise
  <2>1. /\ pc = "validators" /\ pc' # "validators"
        /\ valRows' = valRows \cup Proposed /\ UNCHANGED poolRows
    BY <1>5 DEF InsertValidators, InsertRows, Goto
  <2>2. \A pk \in Proposed : chain.poolOf[pk] \in PortalPools
    <3> SUFFICES ASSUME NEW pk \in Proposed PROVE chain.poolOf[pk] \in PortalPools
      OBVIOUS
    <3>1. PICK t \in got : chain.proposed[pk] <= t
      BY DEF Proposed, InEventRange
    <3>2. pk \in Pk /\ chain.pool[chain.poolOf[pk]] <= chain.proposed[pk]
      BY DEF Proposed, IInv, TypeOK, LegalChain
    <3>3. /\ chain.pool[chain.poolOf[pk]] \in Start .. MaxSlot /\ t \in Slot
          /\ chain.proposed[pk] \in Start .. MaxSlot
      BY <3>2, <1>2 DEF IInv, TypeOK, Chain
    <3>4. chain.pool[chain.poolOf[pk]] <= t
      BY <3>1, <3>2, <3>3, SlotAssumption DEF Slot
    <3>5. QED
      BY <3>2, <3>4, <1>2 DEF PortalPools
  <2>3. QED
    BY <1>2, <2>1, <2>2
<1>6. CASE InsertValidators /\ Raise
  <2>1. UNCHANGED <<poolRows, valRows>> /\ pc' # "validators"
    BY <1>6 DEF Raise, Stop, tables, validators
  <2>2. QED
    BY <1>2, <2>1
<1>7. CASE ~ Reset /\ ~ UpdatePools /\ ~ InsertValidators
  <2>1. UNCHANGED <<poolRows, valRows>>
    BY <1>1, <1>7 DEF Frame
  <2>2. pc' = "validators" => UNCHANGED <<pc, got>>
    BY <1>1, <1>7 DEF Frame, batch
  <2>3. QED
    BY <1>2, <2>1, <2>2 DEF PortalPools
<1>8. QED
  BY <1>3, <1>4, <1>5, <1>6, <1>7

(* The pool of a validator row is in Pools, whatever a crash left undone.  *)
THEOREM PoolsBeforeValidators ==
  ASSUME ResetsValidatorsToo
  PROVE  Spec => []NoOrphanValidators
<1>1. Init => PoolsInv
  BY DEF Init, PoolsInv, NoOrphanValidators
<1>2. PoolsInv /\ (IInv /\ IInv' /\ [Next]_vars) => PoolsInv'
  BY PoolsInvStep
<1>3. PoolsInv => NoOrphanValidators
  BY DEF PoolsInv
<1>4. QED
  BY <1>1, <1>2, <1>3, SpecIInv, PTL DEF Spec
-----------------------------------------------------------------------------
(* What was given to the Portal is older than the batch whose thefts are   *)
(* looked for; thefts found are in the log.                                *)
TheftInv ==
  resets = 0 =>
    /\ thefts \cap reported = {}
    /\ thefts \subseteq slotRows /\ reported \subseteq slotRows
    /\ pc \in {"fees", "detect"} => \A s \in reported : s < first

LEMMA TheftInvStep ==
  ASSUME IInv, IInv', [Next]_vars, TheftInv
  PROVE  TheftInv'
<1> USE DEF TheftInv
<1>1. Frame
  BY Writers
<1>2. CASE Reset
  <2>1. resets' # 0
    BY <1>2 DEF Reset, IInv, TypeOK
  <2>2. QED
    BY <2>1
<1>3. CASE UNCHANGED vars
  BY <1>3 DEF vars, tables, outside, batch
<1>4. CASE Raise \/ Crash
  BY <1>4 DEF Raise, Crash, Stop, tables, outside
<1>5. CASE InsertSlots /\ ~ Raise
  <2>1. /\ pc = "slots" /\ slotRows' = slotRows \cup SlotBatch
        /\ UNCHANGED <<first, thefts, reported, resets>>
    BY <1>5 DEF InsertSlots, batch, outside
  <2>2. slotRows = Start + 1 .. first - 1 /\ first \in Nat
    BY <2>1, SlotsAppended DEF IInv, TypeOK
  <2>3. \A s \in slotRows : s < first
    BY <2>2, SlotAssumption
  <2>4. QED
    BY <2>1, <2>3
<1>6. CASE ProcessFees /\ ~ Raise
  <2>1. /\ pc = "fees" /\ UNCHANGED <<slotRows, thefts, reported, resets>>
        /\ pc' \in {"loop", "detect"}
        /\ pc' = "detect" => UNCHANGED first
    BY <1>6 DEF ProcessFees, EndBatch, Goto, tables, batch, outside
  <2>2. QED
    BY <2>1
<1>7. CASE DetectThefts
  <2>1. /\ pc = "detect" /\ pc' = "loop"
        /\ thefts' = thefts \cup (OurBlocks \cap chain.theft)
        /\ UNCHANGED <<slotRows, reported, resets>>
    BY <1>7 DEF DetectThefts, EndBatch, Goto, tables, outside
  <2>2. \A s \in OurBlocks : s \in slotRows /\ s \in Nat /\ s > first
    <3>1. \A s \in OurBlocks : s \in blockRows /\ s > first
      BY DEF OurBlocks
    <3>2. \A s \in blockRows : s \in slotRows /\ s \in Nat
      BY SlotAssumption DEF IInv, TypeOK, Slot
    <3>3. QED
      BY <3>1, <3>2
  <2>3. first \in Nat
    BY DEF IInv, TypeOK
  <2>4. resets = 0 => OurBlocks \cap reported = {}
    BY <2>1, <2>2, <2>3
  <2>5. QED
    BY <2>1, <2>2, <2>4
<1>8. CASE Regulate
  <2>1. /\ pc' = "report" /\ thefts' = {}
        /\ reported' \in {reported, reported \cup thefts}
        /\ UNCHANGED <<slotRows, resets>>
    BY <1>8 DEF Regulate, ThievesLeft, Goto, tables
  <2>2. QED
    BY <2>1
<1>9. CASE /\ pc' \notin {"fees", "detect"}
           /\ UNCHANGED <<slotRows, thefts, reported, resets>>
  BY <1>9
<1>10. ASSUME ~ Raise,
              Trigger \/ Restart \/ NextBatch \/ LoopEnd \/ Report \/ Verify
       PROVE  pc' \notin {"fees", "detect"} /\ UNCHANGED <<slotRows, thefts, reported, resets>>
  BY <1>10 DEF Trigger, Restart, NextBatch, LoopEnd, Report, Verify, Goto, tables, outside
<1>11. ASSUME ~ Raise, FetchSlots \/ UpdatePools \/ InsertValidators \/ ProcessDeposits
       PROVE  pc' \notin {"fees", "detect"} /\ UNCHANGED <<slotRows, thefts, reported, resets>>
  BY <1>11 DEF FetchSlots, UpdatePools, InsertValidators, ProcessDeposits, Goto, tables, outside
<1>12. ASSUME ~ Raise, InsertDeposits \/ ProcessWithdrawals \/ InsertWithdrawals
       PROVE  pc' \notin {"fees", "detect"} /\ UNCHANGED <<slotRows, thefts, reported, resets>>
  BY <1>12 DEF InsertDeposits, ProcessWithdrawals, InsertWithdrawals, Goto, tables, outside
<1>13. QED
  BY <1>2, <1>3, <1>4, <1>5, <1>6, <1>7, <1>8, <1>9, <1>10, <1>11, <1>12 DEF Next, Step, Index

(* No block is given to the Portal twice as proof of theft: the oracle     *)
(* does not fine an operator twice, as long as Slots is not wiped.         *)
THEOREM TheftsReportedOnce == Spec => []ThievesReportedOnce
<1>1. Init => TheftInv
  BY DEF Init, TheftInv
<1>2. TheftInv /\ (IInv /\ IInv' /\ [Next]_vars) => TheftInv'
  BY TheftInvStep
<1>3. TheftInv => ThievesReportedOnce
  BY DEF TheftInv, ThievesReportedOnce
<1>4. QED
  BY <1>1, <1>2, <1>3, SpecIInv, PTL DEF Spec
-----------------------------------------------------------------------------
SignaturesKept ==
  \A pk \in valRows \cap valRows' :
    /\ psig[pk] # None => psig'[pk] = psig[pk]
    /\ ssig[pk] # None => ssig'[pk] = ssig[pk]

LEMMA SignaturesStep ==
  ASSUME IInv, [Next]_vars
  PROVE  SignaturesKept
<1> USE DEF SignaturesKept
<1>1. CASE Reset
  BY <1>1 DEF Reset, ResetValidators, validators
<1>2. CASE ProcessDeposits
  BY <1>2 DEF ProcessDeposits, FillsProposal, Raise, tables, validators, IInv, TypeOK
<1>3. CASE ~ Reset /\ ~ ProcessDeposits
  BY <1>3, Writers DEF Frame
<1>4. QED
  BY <1>1, <1>2, <1>3

(* No signature of a validator is ever overwritten.                        *)
THEOREM SignaturesNeverReplaced == Spec => SignaturesWrittenOnce
<1>1. IInv /\ [Next]_vars => [pc # "stopped" => SignaturesKept]_vars
  BY SignaturesStep
<1>2. QED
  BY <1>1, SpecIInv, PTL DEF Spec, SignaturesWrittenOnce, SignaturesKept

-----------------------------------------------------------------------------
(* A step writes no balance of a withdrawal but process_withdrawals_batch, *)
(* and what it added is inserted next unless the process dies.             *)
LEMMA WithdrawalsInserted ==
  ASSUME [Next]_vars
  PROVE  /\ Crash \/ UNCHANGED crashes
         /\ pc = "insertWithdrawals" => InsertWithdrawals \/ Crash \/ UNCHANGED vars
         /\ pc' = "insertWithdrawals" => ProcessWithdrawals \/ UNCHANGED vars
<1> USE DEF outside, Goto
<1>1. CASE UNCHANGED vars
  BY <1>1 DEF vars
<1>2. CASE Crash \/ Restart \/ Reset \/ Trigger
  BY <1>2 DEF Crash, Restart, Reset, Trigger, Stop
<1>3. CASE NextBatch \/ LoopEnd \/ Regulate \/ Report \/ Verify
  BY <1>3 DEF NextBatch, LoopEnd, Regulate, Report, Verify, Raise, Stop
<1>4. CASE FetchSlots \/ UpdatePools \/ InsertValidators
  BY <1>4 DEF FetchSlots, UpdatePools, InsertValidators, Raise, Stop
<1>5. CASE ProcessDeposits \/ InsertDeposits
  BY <1>5 DEF ProcessDeposits, InsertDeposits, Raise, Stop
<1>6. CASE ProcessWithdrawals \/ InsertWithdrawals
  BY <1>6 DEF ProcessWithdrawals, InsertWithdrawals, Raise, Stop
<1>7. CASE InsertSlots \/ ProcessFees \/ DetectThefts
  BY <1>7 DEF InsertSlots, ProcessFees, DetectThefts, EndBatch, Raise, Stop
<1>8. QED
  BY <1>1, <1>2, <1>3, <1>4, <1>5, <1>6, <1>7 DEF Next, Step, Index

(* The operator resets Validators whenever Withdrawals is reset: what is   *)
(* to be added again starts from nothing.                                  *)
ResetsBalancesToo == \A T \in ResetChoices : "Withdrawals" \in T => "Validators" \in T

(* A withdrawal that is neither recorded nor about to be was added as many *)
(* times as the process died between the two transactions.                 *)
WithdrawnInv ==
  /\ WithdrawnOnce
  /\ \A w \in Withdrawal :
       \/ w \in wdRows
       \/ pc = "insertWithdrawals" /\ w \in NewWithdrawals
       \/ withdrawn[w] <= crashes

LEMMA WithdrawnInvStep ==
  ASSUME ResetsBalancesToo, IInv, IInv', [Next]_vars, WithdrawnInv
  PROVE  WithdrawnInv'
<1> USE DEF WithdrawnInv, WithdrawnOnce
<1>1. Frame /\ (Crash \/ UNCHANGED crashes)
  BY Writers, WithdrawalsInserted
<1>2. /\ crashes \in Nat /\ crashes' \in Nat
      /\ withdrawn \in [Withdrawal -> Nat] /\ withdrawn' \in [Withdrawal -> Nat]
  BY DEF IInv, TypeOK
<1>3. CASE UNCHANGED vars
  BY <1>3 DEF vars, tables, validators, balances, batch, outside,
              NewWithdrawals, SavedWithdrawals, KnownIndex, Known, WdPk, WdSlot
<1>4. CASE Crash
  <2>1. crashes' = crashes + 1 /\ UNCHANGED withdrawn
    BY <1>4 DEF Crash, tables, validators, balances
  <2>2. QED
    BY <1>2, <2>1
<1>5. CASE Reset
  <2>1. \/ withdrawn' = [w \in Withdrawal |-> 0]
        \/ UNCHANGED <<withdrawn, wdRows>>
    BY <1>5 DEF Reset, ResetValidators, ResetWithdrawals, ResetsBalancesToo,
                validators, balances
  <2>2. pc # "insertWithdrawals" /\ UNCHANGED crashes
    BY <1>5 DEF Reset
  <2>3. QED
    BY <1>2, <2>1, <2>2
<1>6. CASE ProcessWithdrawals
  <2>1. pc = "withdrawals" /\ UNCHANGED <<wdRows, crashes>>
    BY <1>6 DEF ProcessWithdrawals, Raise, tables, outside
  <2>2. CASE UNCHANGED withdrawn
    BY <1>2, <2>1, <2>2
  <2>3. CASE ~ UNCHANGED withdrawn
    <3>1. /\ pc' = "insertWithdrawals"
          /\ withdrawn' = [w \in Withdrawal |->
                             withdrawn[w] + IF w \in NewWithdrawals THEN 1 ELSE 0]
          /\ UNCHANGED <<chain, valRows, psig, wdRows, got>>
      BY <1>6, <2>3 DEF ProcessWithdrawals, IncreaseWithdrawn, Raise, Goto, tables,
                        validators, balances, batch, outside
    <3>2. NewWithdrawals' = NewWithdrawals
      BY <3>1 DEF NewWithdrawals, SavedWithdrawals, KnownIndex, Known, WdPk, WdSlot
    <3>3. \A w \in NewWithdrawals : w \notin wdRows
      BY DEF NewWithdrawals, SavedWithdrawals
    <3>4. QED
      BY <1>2, <2>1, <3>1, <3>2, <3>3
  <2>4. QED
    BY <2>2, <2>3
<1>7. CASE InsertWithdrawals
  <2>1. wdRows' = wdRows \cup NewWithdrawals /\ UNCHANGED <<withdrawn, crashes>>
    BY <1>7 DEF InsertWithdrawals, validators, balances, outside
  <2>2. QED
    BY <2>1
<1>8. CASE ~ UNCHANGED vars /\ ~ Crash /\ ~ Reset /\ ~ ProcessWithdrawals /\ ~ InsertWithdrawals
  <2>1. UNCHANGED <<withdrawn, wdRows, crashes>> /\ pc # "insertWithdrawals"
    BY <1>1, <1>8, WithdrawalsInserted DEF Frame
  <2>2. QED
    BY <2>1
<1>9. QED
  BY <1>3, <1>4, <1>5, <1>6, <1>7, <1>8

(* Every crash adds a withdrawal once more at most: no read that raises,   *)
(* no batch indexed again and no reset does, unless Withdrawals is reset   *)
(* and the balances are not.                                               *)
THEOREM WithdrawalsAddedOnce ==
  ASSUME ResetsBalancesToo
  PROVE  Spec => []WithdrawnOnce
<1>1. Init => WithdrawnInv
  BY BoundAssumption DEF Init, WithdrawnInv, WithdrawnOnce
<1>2. WithdrawnInv /\ (IInv /\ IInv' /\ [Next]_vars) => WithdrawnInv'
  BY WithdrawnInvStep
<1>3. WithdrawnInv => WithdrawnOnce
  BY DEF WithdrawnInv
<1>4. QED
  BY <1>1, <1>2, <1>3, SpecIInv, PTL DEF Spec
=============================================================================
