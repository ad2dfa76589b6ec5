SPECIFICATION MCSpec
CONSTANTS
    Run = {r1, r2}
    NoRun = NoRun
    Fenced = TRUE
    Action = {a}
    NoProposal = NoProposal
    NoCursor = NoCursor
    TurnKind = {"message", "confirm", "cancel", "close"}
    Msg = {m1, m2}
    Orphan = {m2}
    Dispatcher = {d1, d2}
    BatchSize = 1
    MaxRetry = 2
    Streamed = {s1, s2}
    Capacity = 1
    Limit = 4
    MaxProgress = 1
INVARIANT OutcomesAreTrue
PROPERTIES
    TurnsEnd
    LeaseComesFree
    EveryMessageSettles
    StreamsEnd
CHECK_DEADLOCK FALSE
