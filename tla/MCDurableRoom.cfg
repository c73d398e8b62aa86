SPECIFICATION Spec
CONSTANTS
    create = create
    draw1 = draw1
    play = play
    report = report
    h1 = h1
    h2 = h2
    w1 = w1
    w2 = w2
    None = None
    Commands = {create, draw1, report, play}
    CreateCommands = {create}
    DrawCommands = {draw1, report}
    NoopCommands = {}
    SystemCommands = {}
    Illegal = {play}
    Timed = {report}
    Replayed = {play}
    MaxLate = 1
    Token <- RaceTokens
    DeckSize = 1
    Handlers = {h1, h2}
    Workers = {w1}
SYMMETRY BothSymmetries
CONSTRAINT StrayAlone
INVARIANTS
    IInv
    DecisionsFit
    AcceptedOnce
    PathSound
    TailIsRepairable
PROPERTIES
    RefinesLedger
CHECK_DEADLOCK FALSE
