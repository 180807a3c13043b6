SPECIFICATION Spec
CONSTANTS
    Processes = {p1, p2}
    Actors = {ann, bob, cas}
    NoActor = NoActor
    MaxRetries = 1
    MaxFaults = 0
SYMMETRY Interchangeable
PROPERTIES
    TransitionsAllowed
CHECK_DEADLOCK FALSE
