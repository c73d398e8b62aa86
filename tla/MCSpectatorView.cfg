CONSTANTS
    Feeds <- MCFeeds
    LastSeq = 3
    Requests <- MCRequests
    MaxFaults = 1
    MaxLeaves = 1
SPECIFICATION ViewSpec

    
PROPERTIES
    ViewMovesOn
    ViewSettles
CHECK_DEADLOCK FALSE
