SPECIFICATION FairSpec
CONSTANTS
  Conn = {k1, k2}
  NoConn = none
  SLOTS = 1
  PING = 2
  PONG = 1
  MISSES = 2
  WRAP = 3
  MaxFaults = 2
INVARIANTS
  ToldOfEveryChange
  OneHolder
PROPERTIES
  DeadLinkNoticed
  ConnectsAgain
