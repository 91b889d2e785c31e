\* One account; a gas API; a verification delay; one failure and two waits that are too long.
SPECIFICATION OwnerSpec
CONSTANTS
  m1 = m1
  Member = {m1}
  Threshold = 1
  Watchers = 0
  Lag = 0
  Validators = 3
  Bad = {3}
  Missable = {}
  MaxPending = 1
  Delayed = TRUE
  MaxFaults = 1
  Data <- TwoReports
  Gas = {"zero", "high", "error"}
  MaxTimeouts = 2
INVARIANTS
  OwnerTypeOK
  SavedWereReported
PROPERTIES
  NeverBack
  ImplementsApproval
