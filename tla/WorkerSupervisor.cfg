SPECIFICATION Spec
CONSTANTS
    r1 = r1
    r2 = r2
    Ids <- MCIds
    None = None
    KeepsGoing = TRUE
    MaxStarts = 3
    MaxCalls = 4
INVARIANTS
    TypeOK
    StreamsInStep
    NoWorkerLeftBehind
PROPERTIES
    AnswersItsRequest
CHECK_DEADLOCK FALSE
