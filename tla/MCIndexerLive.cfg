\* A crash and a reset anywhere; slot 3 may be taken for a missed one, a balance may be unreadable.
SPECIFICATION FairSpec
CONSTANTS
  a = a
  b = b
  Start = 0
  MaxSlot = 4
  BatchSize = 3
  Period = 2
  EventRange = 2
  Pools = 1
  Pk = {a, b}
  Deposit = {1, 2, 3}
  Withdrawal = {1}
  None = None
  Chains <- TwoValidators
  Lossy = {3}
  BalanceReads = {"value", "raise"}
  ResetChoices <- WipeSlotsOrAll
  MaxCrashes = 1
  MaxResets = 1
\* The chain is finite: after its last slot there is nothing left to do.
CHECK_DEADLOCK FALSE
INVARIANTS
  WithdrawnOnce
  StakeIsSecondUntilCrash
PROPERTIES
  CatchesUpUnlessTorn
  GoesThroughUnlessTorn
