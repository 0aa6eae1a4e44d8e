SPECIFICATION FairSpec
CONSTANTS
  Faults = 4
  Counts = 4
INVARIANTS
  FailsOnlyIfSpoiled
  NumbersAgree
  SetupInForce
PROPERTIES
  RangesAgain
CHECK_DEADLOCK FALSE
