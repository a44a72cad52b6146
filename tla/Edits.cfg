SPECIFICATION FairSpec
CONSTANTS
  d1 = d1
  u1 = u1
  u2 = u2
  Edits <- TwoEdits
  Deletes <- OneDelete
  Sites <- AllSites
  Modes <- BothModes
  Refreshes <- InPlace
  Workloads <- Quiet
CHECK_DEADLOCK FALSE
INVARIANTS TypeOK AllOrNothing ReportIsTrue OpenIsListed
PROPERTIES OwnWorkStays GridFollowsServer AppliesEnd
