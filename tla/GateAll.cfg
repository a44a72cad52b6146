SPECIFICATION Spec
CONSTANTS
  Ops <- AllOps
  Faults <- AllFaults
  DrainAtomic = FALSE
  MaxPending = 3
  MaxEvents = 1
CHECK_DEADLOCK FALSE
INVARIANTS TypeOK SkipAtMostOne
