SPECIFICATION MCSpec
CONSTANTS
    Task = {k1, k2}
    Event = {e1, e2}
    Manager = {m}
    Staff = {m, s}
    Resident = {r}
    Nobody = nobody
    Point <- MCPoint
    p1 = p1
    p2 = p2
    MaxTime = 2
    Plan <- MCPlan
    EventType = {"FIRE", "OTHER"}
    Thread = {t1, t2}
    Key = {key1}
    MaxAdded = 2
    MaxEventVersion = 6
SYMMETRY Symmetry
INVARIANTS
    PlansClashOnlyUnseen
    TimelineAgrees
    HighRiskReachesSomeone
    ClosedAsReviewed
    OffersAgreeInBoth
CHECK_DEADLOCK FALSE
