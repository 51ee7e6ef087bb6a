\* A client closes its connection while it waits to replace another one.
SPECIFICATION SessionSpec
CONSTANTS
    Client = {c1, c2}
    CanLogoutAnytime = FALSE
    None = None
INVARIANT ReleasedHoldsNothing
CHECK_DEADLOCK FALSE
