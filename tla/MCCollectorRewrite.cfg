SPECIFICATION Spec
CONSTANTS
    None = None
    Inodes = {i1}
    AnchorCells = 2
    ChunkCells = 3
    LineLimit = 2
    MaxCells = 4
    MaxChanges = 1
    MaxFailures = 0
INVARIANTS
    GenerationIsOneFile
CHECK_DEADLOCK FALSE
