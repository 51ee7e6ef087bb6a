\* A player, three monsters, the spawn's place and another.
SPECIFICATION CreaturesSpec
CONSTANTS
    Player = {p}
    Monster = {m1, m2, m3}
    Place = {lair, town}
    Lair = lair
    SpawnSize = 1
    Summons = 1
    None = None
CONSTRAINT MostlyAtRest
SYMMETRY CreaturesSymmetry
INVARIANTS
    CountedExactly
    PointersLive
    Vigilant
    GoneIsReplaced
    DeadAwaitsItsEnd
CHECK_DEADLOCK FALSE
