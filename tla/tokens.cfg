SPECIFICATION FairSpec
CONSTANTS
  Sources <- MCSources
INVARIANTS
  StreamIsPosition
  TokensTileText
  LongestMatch
  FailsOnlyOnBadText
PROPERTIES
  Termination
