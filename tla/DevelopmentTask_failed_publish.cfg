SPECIFICATION Spec
CONSTANTS
    Actors = {ann, bob, cas, dee}
    NoActor = NoActor
    Changes = {fix}
    Pristine = Pristine
    Secrets = {}
    OverBudget = {}
    MaxRepairAttempts = 2
    EditPhases = {}
    MaxFaults = 1
    MaxMoves = 0
    MaxPackages = 0
SYMMETRY People
INVARIANTS
    ApprovedKeepsReviewedChange
CHECK_DEADLOCK FALSE
