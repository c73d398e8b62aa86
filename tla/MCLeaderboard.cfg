CONSTANTS
    Player = {1, 2}
    InitialRows = {1}
    Commits <- MCCommits
    Rebuild = {r1, r2}
    BatchSize = 1
    MaxFaults = 1
SPECIFICATION BoardSpec

    
PROPERTIES
    BoardMovesOn
    
CHECK_DEADLOCK FALSE
