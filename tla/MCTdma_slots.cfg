SPECIFICATION FairSpec
CONSTANTS
  SLOT = 5
  CYCLE = 15
  BOOT = 10
  DELAY = 1
  SETUP = 1
  PRESS = 1
  RANGE = 1
  Horizon = 15
INVARIANTS
  TypeOK
  ChannelExclusive
PROPERTIES
  RangesInSlot
  ImplementsRounds
  SyncLeadsToRanging
  HubKeepsCycling
