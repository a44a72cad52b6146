SPECIFICATION Spec
CONSTANTS
  x1 = x1
  x2 = x2
  x3 = x3
  Changes <- ThreeChanges
  Sites <- MixedSites
  Modes <- BothModes
  DdlGuard = FALSE
  EndsReads = TRUE
  MaxDepth = 2
CHECK_DEADLOCK FALSE
INVARIANTS TypeOK ListIsTrue FlagsTrackServer QuietEndIsReadOnly
PROPERTIES UnitPromise HeldNeedsConsent
