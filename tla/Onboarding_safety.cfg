SPECIFICATION Spec
CONSTANTS
    Repos = {control}
    Base = {control}
    Branches = {main}
    BaseBranch = main
    Contracts = {unit}
    NoContract = NoContract
    Actors = {ann, bob}
    NoActor = NoActor
    Processes = {p1, p2}
    MaxMoves = 0
    MaxFaults = 1
    MaxEvents = 7
INVARIANTS
    TypeOK
    RegistryAgrees
    ResumptionIsFresh
SYMMETRY Interchangeable
CHECK_DEADLOCK FALSE
