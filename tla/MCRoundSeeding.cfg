SPECIFICATION FairSeedingSpec
CONSTANTS
    Players = {1, 2, 3}
    Handlers = {h1, h2}
    Commands <- MCCommands
    Capacity = 3
    ShardCount = 3
    StartShard <- MCStartShard
    FinalThreshold = 1
    PlayersPerRoom = 2
    Nobody = Nobody
    Workers = {w1, w2}
    SlotsPerChunk = 1
    BatchSize = 1
    MaxLapses = 1
    MaxCrashes = 1
INVARIANTS
    RegistrationSound
    SeedingSound
PROPERTIES
    RowsStand
    SeedingEnds
CHECK_DEADLOCK FALSE
