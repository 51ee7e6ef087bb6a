\* Three players, two parties, a guild, two private channels and a public one.
SPECIFICATION SocietySpec
CONSTANTS
    Player = {p1, p2, p3}
    PartyId = {X, Y}
    None = None
    Guild = {g}
    PrivateId = {c1, c2}
    Public = {rvr}
    Rvr = rvr
    Crowd = 3
SYMMETRY SocietySymmetry
CONSTRAINT AtMostACrowd
INVARIANTS
    PartiesAgree
    SharingIsEarned
    GoneLeavesNothing
    PrivateStaysPrivate
CHECK_DEADLOCK FALSE
