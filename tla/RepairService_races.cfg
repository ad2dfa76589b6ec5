SPECIFICATION Spec
CONSTANTS
    Order = {o1, o2}
    Manager = {System}
    Clerk = {}
    Worker = {w1, w2}
    Resident = {ten}
    Tenant = {ten}
    System = System
    NoWorker = NoWorker
    Key = {k1}
    NoOrigin = NoOrigin
    Thread = {t1, t2}
    NoOrder = NoOrder
    MaxVersion = 5
SYMMETRY Symmetry
INVARIANTS
    AnswersAreTrue
    OneOrderPerRequest
PROPERTIES
    ImplementsWorkOrder
CHECK_DEADLOCK FALSE
