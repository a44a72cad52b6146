SPECIFICATION FairSpec
CONSTANTS
  Ops <- CountedOps
  Faults <- CountedFaults
  DrainAtomic = FALSE
  MaxPending = 3
  MaxEvents = 1
CHECK_DEADLOCK FALSE
INVARIANTS AuxExact SkipsTheWake BlockedHasCause
PROPERTY BlockedEnds
