SPECIFICATION Spec
CONSTANTS
    Repos = {control, tool}
    Base = {control}
    Branches = {main}
    BaseBranch = main
    Contracts = {unit}
    NoContract = NoContract
    Actors = {ann, bob}
    NoActor = NoActor
    Processes = {p1, p2}
    MaxMoves = 0
    MaxFaults = 0
    MaxEvents = 5
INVARIANTS
    RegistryAgrees
SYMMETRY Interchangeable
CHECK_DEADLOCK FALSE
