SPECIFICATION FairSpec
CONSTANTS
    Players = {ana}
    Workers = {w1, w2}
    MaxVersion = 2
    MaxSequence = 3
    MaxRollouts = 1
    Losses = {"write", "index", "request"}
    MaxLosses = 2
INVARIANTS
    IndexSound
PROPERTIES
    AbsencesAnswered
CHECK_DEADLOCK FALSE
