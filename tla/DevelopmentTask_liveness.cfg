SPECIFICATION FairSpec
CONSTANTS
    Actors = {ann, bob, cas, dee}
    NoActor = NoActor
    Changes = {fix}
    Pristine = Pristine
    Secrets = {}
    OverBudget = {}
    MaxRepairAttempts = 1
    EditPhases = {}
    MaxFaults = 1
    MaxMoves = 1
    MaxPackages = 0
PROPERTIES
    OperationEnds
    ApprovedIsPublished
CHECK_DEADLOCK FALSE
