SPECIFICATION TurnSpec
CONSTANTS
    Run = {r1, r2, r3}
    NoRun = NoRun
    Fenced = TRUE
    Action = {a}
    NoProposal = NoProposal
    NoCursor = NoCursor
    Kinds <- MCKinds
    TurnKind = {"message", "confirm", "cancel", "close"}
SYMMETRY Symmetry
INVARIANTS
    LeaseInv
    OneObjectPerProposal
    ConsumedWithTheWrite
PROPERTIES
    ImplementsFencedLog
    HeadsInFenceOrder
CHECK_DEADLOCK FALSE
