\* Three players, two bags and two plain things.
SPECIFICATION TradeSpec
CONSTANTS
    Player = {p1, p2, p3}
    Item = {bag, pouch, gem, sword}
    Bag = {bag, pouch}
    Ground = Ground
    Gone = Gone
    None = None
SYMMETRY TradeSymmetry
INVARIANTS
    PartnersAgree
    RegistryExact
    OffersDisjoint
    OfferAtHand
PROPERTIES
    OfferUntouched
    HandedOverByConsent
CHECK_DEADLOCK FALSE
