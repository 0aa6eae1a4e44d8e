SPECIFICATION FairSpec
CONSTANTS
  HUB_SLOT = 2
  CYCLE = 3
  FRESH = 4
  BUTTON = 1
  BUZZ_DEBOUNCE = 2
  NUM_ROOMS = 1
  Dist <- MCDist
  Inside <- MCInside
  MaxDrift = 1
  MaxAge = 5
  MaxCount = 3
PROPERTIES
  OutsideRaisesAlarm
  SilentAnchorStopsAlarm
