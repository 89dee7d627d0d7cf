SPECIFICATION FairSpec
CONSTANTS
    None = None
    Inodes = {i1, i2}
    AnchorCells = 2
    ChunkCells = 3
    LineLimit = 1
    MaxCells = 4
    MaxChanges = 2
    MaxFailures = 1
INVARIANTS
    CollectorTypeOK
    ReceivedOnce
    AppendedIsCollected
PROPERTIES
    KeepsPromise
    PollingCatchesUp
CHECK_DEADLOCK FALSE
