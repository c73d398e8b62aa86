SPECIFICATION TablesSpec
CONSTANTS
    ana = ana
    bo = bo
    cy = cy
    None = None
    Players = {ana, bo, cy}
    Cards <- MCCards
    Colors <- MCColors
    MaxSeats = 3
    RoomTypes = {"ad_hoc", "tournament"}
    Deals <- BothDeals
    TableDeals <- MCTableDeals
    MaxSequence = 10
SYMMETRY PlayerSymmetry
INVARIANTS
    SessionSound
    TableSound
PROPERTIES
    StepsAreNamed
    TurnsPassOn
CHECK_DEADLOCK FALSE
