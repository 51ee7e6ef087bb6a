SPECIFICATION ConnFairSpec
CONSTANTS
  MaxMsg = 3
PROPERTIES
  ClosedGetsShut
CHECK_DEADLOCK FALSE
