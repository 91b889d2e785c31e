\* The daemon beside geoscope backup, with --keep 2 or without, and reset --backups.
SPECIFICATION Spec
CONSTANTS
  daemon = daemon
  cli = cli
  Daemon = daemon
  Command = {cli}
  DaemonKeep = 2
  KeepOptions = {0, 2}
  MinKeep = 2
  Pages = 2
  None = None
  Torn = Torn
  MaxTime = 3
  MaxSetBacks = 1
  MaxCommits = 1
  MaxFaults = 2
  MaxRestores = 1
CHECK_DEADLOCK FALSE
INVARIANTS
  TypeOK
  Recoverable
PROPERTIES
  FinishedIsCurrent
  NewestStay
