SPECIFICATION Spec
CONSTANTS
  Tabs = {t, u}
  Servers <- DevAndProd
  Production <- OnlyProd
  Workloads <- Unguarded
  MaxSessions = 3
CHECK_DEADLOCK FALSE
INVARIANT ProdGuarded
