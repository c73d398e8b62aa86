SPECIFICATION WorkersSpec
CONSTANTS
    Workers = {w1, w2}
    MaxGames = 4
    create = create
    draw1 = draw1
    report = report
    handler = handler
    repairer = repairer
    None = None
INVARIANTS
    AwaitedIsQueued
PROPERTIES
    NextGameBegins
    DecidedIsPublished
CHECK_DEADLOCK FALSE
