\* The database as shipped, no crash; a thief may propose the first block of a batch.
SPECIFICATION Spec
CONSTANTS
  a = a
  b = b
  Start = 0
  MaxSlot = 4
  BatchSize = 3
  Period = 2
  EventRange = 2
  Pools = 1
  Pk = {a, b}
  Deposit = {1, 2, 3}
  Withdrawal = {1}
  None = None
  Chains <- TwoValidators
  Lossy = {}
  BalanceReads = {"raise"}
  ResetChoices = {}
  MaxCrashes = 0
  MaxResets = 0
\* The chain is finite: after its last slot there is nothing left to do.
CHECK_DEADLOCK FALSE
PROPERTIES
  EveryTheftFound
