SPECIFICATION FairSpec
CONSTANTS
    Ann = {a1, a2}
    Resident = {r1, r2}
    Thread = {t1}
    Limit = 1
    MaxTime = 2
    MaxDraft = 4
    MaxVersion = 5
INVARIANTS
    ReadersWereTold
    PublishedWasAuthorized
PROPERTIES
    ScheduledGoesOut
CHECK_DEADLOCK FALSE
