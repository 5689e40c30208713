SPECIFICATION InstallsSpec
CONSTANTS
  MaxVersion = 2
  SelfUpdates = TRUE
CHECK_DEADLOCK FALSE
INVARIANTS
  OneCopyIsActive
