\* Two members, both of them a quorum, two watchers, a verification delay, and
\* a block that is seen a trigger late; a crash or a failed submission.
SPECIFICATION Spec
CONSTANTS
  m1 = m1
  m2 = m2
  m3 = m3
  Member = {m1, m2}
  Threshold = 2
  Watchers = 2
  Lag = 1
  Validators = 3
  Bad = {3}
  Missable = {}
  MaxPending = 1
  Delayed = TRUE
  MaxFaults = 1
SYMMETRY Symmetry
INVARIANTS
  
  ApprovedWereVerified
  NoFaultyApproved
PROPERTIES
  IndexNeverBack
  ImplementsApproval
