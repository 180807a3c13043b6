SPECIFICATION Spec
CONSTANTS
    Actors = {ann, bob, cas, dee}
    NoActor = NoActor
    Changes = {fix, leak, huge}
    Pristine = Pristine
    Secrets = {leak}
    OverBudget = {huge}
    MaxRepairAttempts = 2
    EditPhases = {"idle"}
    MaxFaults = 1
    MaxMoves = 1
    MaxPackages = 1
SYMMETRY People
INVARIANTS
    TypeOK
    SeparationOfDuties
    PublishedWasReviewed
    MergedWasPublished
    RepairBudget
    LoggedGatesHold
    EvidenceAgrees
PROPERTIES
    ApprovalIsBinding
    TaskIsRelease
CHECK_DEADLOCK FALSE
