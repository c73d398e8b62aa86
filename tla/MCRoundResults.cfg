SPECIFICATION FairSpec
CONSTANTS
    LastRound = 2
    SlotIndexes = {0, 1}
    FirstSlots = {0, 1}
    Shards = 1
    AdvancersPerMatch = 1
    FinalThreshold = 2
    PlayersPerRoom = 2
    Log <- MCLog
    Commands <- MCCommands
    Requests = {h1}
    Worker = worker
    MaxAttempts = 2
    MaxFaults = 1
    MaxManual = 2
    Nothing = Nothing
INVARIANTS
    BracketSound
PROPERTIES
    ResultsStand
    EndedStands
    RoundsGoOn
CHECK_DEADLOCK FALSE
