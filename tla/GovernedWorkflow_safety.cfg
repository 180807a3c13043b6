SPECIFICATION FairSpec
CONSTANTS
    Processes = {p1}
    Actors = {ann, bob, cas}
    NoActor = NoActor
    MaxRetries = 2
    MaxFaults = 1
INVARIANTS
    TypeOK
    WithinBudget
    ClosedIsEvidenced
PROPERTIES
    TransitionsAllowed
    RetriesEnd
CHECK_DEADLOCK FALSE
