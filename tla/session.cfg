\* Three clients of one character: one that plays, two that replace it.
SPECIFICATION SessionSpec
CONSTANTS
    Client = {c1, c2, c3}
    CanLogoutAnytime = FALSE
    None = None
SYMMETRY ClientSymmetry
INVARIANTS
    RefsExact
    OneInCharge
    PoolIsLive
    PoolIsServed
    ReleasedOnce
CHECK_DEADLOCK FALSE
