\* Three members, any two of them a quorum; the last of three proposals is faulty.
SPECIFICATION Spec
CONSTANTS
  m1 = m1
  m2 = m2
  m3 = m3
  Member = {m1, m2, m3}
  Threshold = 2
  Watchers = 1
  Lag = 0
  Validators = 3
  Bad = {3}
  Missable = {}
  MaxPending = 1
  Delayed = FALSE
  MaxFaults = 0
SYMMETRY Symmetry
INVARIANTS
  TypeOK
  ApprovedWereVerified
  NoFaultyApproved
PROPERTIES
  IndexNeverBack
  ImplementsApproval
