\* The slot daemon, whose trigger uses pools, and the backups.
SPECIFICATION FairSpec
CONSTANTS
  Daemon <- TwoDaemons
  Delayed = {"database"}
  Pooled = {"slot"}
  Sections = 2
\* The process may end.
CHECK_DEADLOCK FALSE
INVARIANTS
  TypeOK
  NoLoneDeath
PROPERTIES
  ShutdownEnds
  FailureStopsAll
