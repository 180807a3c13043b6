SPECIFICATION Spec
CONSTANTS
    Repos = {tool}
    Base = {}
    Branches = {main, trunk}
    BaseBranch = main
    Contracts = {unit, lint}
    NoContract = NoContract
    Actors = {ann, bob}
    NoActor = NoActor
    Processes = {p1, p2}
    MaxMoves = 1
    MaxFaults = 1
    MaxEvents = 5
INVARIANTS
    ActiveWasApproved
    EntryIsApproved
    TaskWasActivated
SYMMETRY Interchangeable
CHECK_DEADLOCK FALSE
