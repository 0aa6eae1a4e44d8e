SPECIFICATION FairSpec
CONSTANTS
  Client = {c1, c2}
  ROOMS = 2
  QUEUE = 2
  MaxGen = 1
INVARIANTS
  TypeOK
  PositionNotAheadOfRoom
PROPERTIES
  RoomConverges
  AlertConverges
