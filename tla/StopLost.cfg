SPECIFICATION Spec
CONSTANTS
  Kinds <- OneRun
  Handles <- Erring
  FalseAlarm = FALSE
  HasTimeout = FALSE
  MaxCommands = 2
  MaxStatements = 2
  MaxSessions = 2
  MaxWorkers = 2
CHECK_DEADLOCK FALSE
INVARIANTS LostIsNotSaved
