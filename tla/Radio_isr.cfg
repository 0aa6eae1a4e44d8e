SPECIFICATION FairSpec
CONSTANTS
  FRAMES = 3
INVARIANTS
  TypeOK
  ReportsOldestFrame
  NothingLeftArmed
PROPERTIES
  EverythingReported
