SPECIFICATION Spec
CONSTANTS
    Run = {r1, r2}
    NoRun = NoRun
    Fenced = FALSE
INVARIANTS
    CommitsInFenceOrder
CHECK_DEADLOCK FALSE
