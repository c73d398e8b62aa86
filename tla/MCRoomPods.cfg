SPECIFICATION PodsSpec
CONSTANTS
    c1 = c1
    c2 = c2
    q1 = q1
    q2 = q2
    g1 = g1
    g2 = g2
    ra = ra
    rb = rb
    op1 = op1
    op2 = op2
    e1 = e1
    e2 = e2
    Nobody = Nobody
    Nothing = Nothing
    r1 = r1
    Controllers <- MCControllers
    Requests <- MCRequests
    Routers = {r1}
    Capacity = 0
    MaxGen = 3
    MaxFaults = 2
    Replicas <- MCReplicas
    Rooms <- MCRooms
    Ops <- MCOps
    Events <- MCEvents
    Counts = {1, 2}
    DeckSize = 2
    Kinds = {"init", "append", "reserve", "confirm", "cancel"}
    MaxCalls = 3
    MaxTroubles = 2
INVARIANTS
    PlacementSound
    StoreSound
    AnswersAreKept
PROPERTY RoomIsPlacedAtLast
CHECK_DEADLOCK FALSE
