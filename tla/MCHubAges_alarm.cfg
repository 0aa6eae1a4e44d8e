SPECIFICATION AgedSpec
CONSTANTS
  HUB_SLOT = 2
  CYCLE = 3
  FRESH = 4
  BUTTON = 1
  BUZZ_DEBOUNCE = 3
  NUM_ROOMS = 3
  Dist <- MCDist
  Inside <- MCInside
  MaxDrift = 1
  MaxAge = 5
  MaxCount = 3
INVARIANTS
  TypeOK
  AlarmOnlyAfterDebounce
  RoomSavedAndAnnounced
  FlashFollowsAnnouncement
PROPERTIES
  ImplementsAlarm
  
