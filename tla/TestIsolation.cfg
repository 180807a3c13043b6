SPECIFICATION FairSpec
CONSTANTS
    Commands = 2
    MaxTests = 3
    MaxFaults = 3
INVARIANTS
    TypeOK
    PassedWasRun
    NothingIsLeftRunning
PROPERTIES
    TestEnds
CHECK_DEADLOCK FALSE
