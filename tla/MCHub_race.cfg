SPECIFICATION Spec
CONSTANTS
  HUB_SLOT = 2
  CYCLE = 3
  FRESH = 4
  BUTTON = 2
  BUZZ_DEBOUNCE = 1
  NUM_ROOMS = 1
  Dist <- OneDist
  Inside <- AllInside
  MaxDrift = 1
  MaxAge = 5
  MaxCount = 1
PROPERTIES
  WaitsOnlyWhenNotFresh
