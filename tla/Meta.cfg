SPECIFICATION FairSpec
CONSTANTS
  Folders <- OneFolder
  Budgets <- Mixes
CHECK_DEADLOCK FALSE
INVARIANTS TypeOK AskedIsAnswered ToldIsShown LastUnitIsShown
PROPERTIES OpenedStays CatchesUp
