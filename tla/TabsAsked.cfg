SPECIFICATION Spec
CONSTANTS
  Tabs = {t, u}
  Servers <- DevAndProd
  Production <- OnlyProd
  Workloads <- Elsewhere
  MaxSessions = 3
CHECK_DEADLOCK FALSE
INVARIANT GoesWhereAsked
