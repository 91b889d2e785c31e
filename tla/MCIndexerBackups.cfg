\* A crash anywhere, a reset or a restore of a backup made anywhere, balances readable or not.
SPECIFICATION BackupSpec
CONSTANTS
  a = a
  b = b
  Start = 0
  MaxSlot = 4
  BatchSize = 3
  Period = 2
  EventRange = 2
  Pools = 1
  Pk = {a, b}
  Deposit = {1, 2, 3}
  Withdrawal = {1}
  None = None
  Chains <- TwoValidators
  Lossy = {}
  BalanceReads = {"value", "raise"}
  ResetChoices <- WipeSlotsOrAll
  MaxCrashes = 1
  MaxResets = 1
  MaxBackups = 1
\* The chain is finite: after its last slot there is nothing left to do.
CHECK_DEADLOCK FALSE
INVARIANTS
  TypeOK
  SlotsContiguous
  TriggerCoversAll
  SavedDepositsRecorded
  SavedWithdrawalsCredited
  DepositsProcessed
  NoOrphanValidators
  FeesOnce
  ThievesReportedOnce
PROPERTIES
  SignaturesWrittenOnce
  TheftsFound
  ImplementsSavedLog
