SPECIFICATION FairSpec
CONSTANTS
    open = open
    secret = secret
    local = local
    Audits = {a1, a2}
    Repos = {open, secret, local}
    Inventory <- MCInventory
    Private = {secret}
    LocalRepos = {local}
    HasToken = FALSE
    Files = {f1, f2}
    OneAtATime = TRUE
    MaxMoves = 1
    MaxFaults = 2
INVARIANTS
    TypeOK
    MarkedIsWhole
    ItemsAreReal
    ManifestIsTrue
PROPERTIES
    SnapshotsStay
    AuditEnds
CHECK_DEADLOCK FALSE
