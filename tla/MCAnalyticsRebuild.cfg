SPECIFICATION RebuildSpec
CONSTANTS
    a = a
    x = x
    j1 = j1
    w1 = w1
    w2 = w2
    Origin = Origin
    Live = {a}
    Backfilled = {x}
    Jobs = {j1}
    LastCursor = 1
    Worlds <- MCWorlds
    Rebuilders = {w1, w2}
    Tokens = {1, 2, 3}
    FirstWorker = w1
    FirstTokens <- MCFirstTokens
    MaxAttempts = 2
    MaxQueue = 4
    MaxTroubles = 2
INVARIANTS
    RebuildSound
PROPERTIES
    RebuildsSettle
CHECK_DEADLOCK FALSE
