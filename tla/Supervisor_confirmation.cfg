SPECIFICATION Spec
CONSTANTS
    Capability <- MCCapability
    DomainOf <- MCDomainOf
    Posture <- MCPosture
    Adapted <- MCAdapted
    ByIdentifier <- MCByIdentifier
    ListOf <- MCListOf
    Full = full
    Missing = missing
    ListArgs = list
    Domain = {"repair", "billing", "announcement", "inspection"}
    StepId = {"a", "b", "c", "guided"}
    Name <- MCName
    Argument = {full, missing, list}
    Request <- MCRequest
    Evidence = {"duplicate", "issue", "plain"}
    FromPending <- MCFromPending
    MaxCalls = 3
    MaxSteps = 3
    MaxVisits = 6
    MaxDelegations = 4
    MaxReplans = 1
    MaxCross = 1
    MaxClarifications = 2
    Duration = 2
    Remembers = TRUE
    MaxTime = 3
    MaxCrashes = 1
INVARIANT TokenCoversTheWrite
CHECK_DEADLOCK FALSE
