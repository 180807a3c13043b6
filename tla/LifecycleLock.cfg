SPECIFICATION FairSpec
CONSTANTS
    Processes = {p1, p2, p3}
    Nobody = Nobody
    MaxSaves = 2
    MaxFaults = 1
INVARIANTS
    TypeOK
    NothingIsStale
    ReadersSeeWholeState
PROPERTIES
    Serialized
    LockMovesOn
