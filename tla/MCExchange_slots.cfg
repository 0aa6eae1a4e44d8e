SPECIFICATION FairSpec
CONSTANTS
  Initiator <- TwoNodes
  SEQ = 3
  RXON = 1
  ANSWER = 2
  TIMEOUT = 4
  TAG_LAG = 3
  SLOT = 4
  Stray <- OtherFrames
  MaxAge = 5
INVARIANTS
  TypeOK
PROPERTIES
  AcceptsOwnAnswer
  FailsOnlyIfSpoiled
  ExchangeEnds
  TagListensAgain
