SPECIFICATION FairSpec
CONSTANTS
  Sessions <- TwoSessions
  Workloads <- Mixes
  ReconnectSame = FALSE
  English = TRUE
  MaxFaults = 1
CHECK_DEADLOCK FALSE
INVARIANTS TypeOK OneState
PROPERTIES FailsOnce MarksGoOut
