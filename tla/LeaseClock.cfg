SPECIFICATION Spec
CONSTANTS
    Run = {r1, r2, r3}
    NoRun = NoRun
    Fenced = TRUE
    TTL = 3
    Interval = 1
    Lag = 1
    Prompt = {r1}
    MaxTime = 7
INVARIANTS
    PromptKeepsLease
PROPERTIES
    ImplementsRunLease
CHECK_DEADLOCK FALSE
