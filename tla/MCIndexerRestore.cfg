\* The database as shipped, one crash.
SPECIFICATION FairSpec
CONSTANTS
  a = a
  b = b
  Start = 0
  MaxSlot = 4
  BatchSize = 3
  Period = 2
  EventRange = 2
  Pools = 1
  Pk = {a, b}
  Deposit = {1, 2, 3}
  Withdrawal = {1}
  None = None
  Chains <- Quiet
  Lossy = {}
  BalanceReads = {"raise"}
  ResetChoices = {}
  MaxCrashes = 1
  MaxResets = 0
\* The chain is finite: after its last slot there is nothing left to do.
CHECK_DEADLOCK FALSE
PROPERTIES
  CatchesUp
