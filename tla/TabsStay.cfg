SPECIFICATION Spec
CONSTANTS
  Tabs = {t, u}
  Servers <- DevAndProd
  Production <- OnlyProd
  Workloads <- Steady
  MaxSessions = 3
SYMMETRY SameTabs
CHECK_DEADLOCK FALSE
INVARIANTS TypeOK GoesWhereAsked RunsWhereMeant ProdGuarded
PROPERTY TabsStay
