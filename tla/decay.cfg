\* Two things at a time, four addresses, the code's four buckets.
SPECIFICATION DecaySpec
CONSTANTS
    Object = {o1, o2, o3, o4}
    Kind <- MCKind
    World = World
    None = None
    Buckets = 4
    Links = 3
    Entries = 2
    DecayTime <- MCDecayTime
    DecayTo <- MCDecayTo
    StopTime <- MCStopTime
    Holder <- MCHolder
    InPlace <- MCInPlace
    Made <- MCMade
    Turns <- MCTurns
INVARIANTS
    HeldExactly
    MarkedIsListed
PROPERTIES
    WearsOut
CHECK_DEADLOCK FALSE
