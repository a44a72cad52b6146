SPECIFICATION FairSpec
CONSTANTS
  Kinds <- AllKinds
  Handles <- HandleKinds
  FalseAlarm = TRUE
  HasTimeout = TRUE
  MaxCommands = 2
  MaxStatements = 2
  MaxSessions = 2
  MaxWorkers = 2
CHECK_DEADLOCK FALSE
INVARIANTS TypeOK
PROPERTIES FiresInItsRun StopIsForOne StopFrees
