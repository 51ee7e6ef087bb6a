SPECIFICATION ConnFairSpec
CONSTANTS
  MaxMsg = 3
INVARIANTS
  WriteOutstanding
  NothingSkipped
  ReleaseOnce
PROPERTIES
  GracefulDrains
  DeadPeerDropped
CHECK_DEADLOCK FALSE
