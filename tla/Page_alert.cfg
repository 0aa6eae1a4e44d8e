SPECIFICATION PageSpec
CONSTANTS
  Sock = {s1, s2, s3}
  Room = {r1, r2}
  File = {song, other, broken}
  Playable = {song, other}
  None = none
INVARIANTS
  OneConnection
PROPERTIES
  AlarmFollowsAlert
