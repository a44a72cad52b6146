SPECIFICATION Spec
CONSTANTS
  Ops <- SteadyOps
  Faults <- NoFaults
  DrainAtomic = TRUE
  MaxPending = 4
  MaxEvents = 1
CHECK_DEADLOCK FALSE
INVARIANTS OneInFlight
PROPERTY GatePromise
