SPECIFICATION Spec
CONSTANTS
    None = None
    Unknown = Unknown
    Agent = Agent
    Threads = {t1, t2}
    Adapters = {a1, a2}
    x = x
    y = y
    v = v
    w = w
    Paths = {x, y}
    Values = {v, w}
    Documents <- MCDocuments
    Definitions <- MCDefinitions
    People = {p1}
    MaxEvents = 1
    MaxVersion = 2
    MaxFaults = 1
SYMMETRY Symmetry
INVARIANTS
    ObservationTypeOK
    RevokedIsNotUsed
    ApprovalIsSound
PROPERTIES
    AckedIsProcessed
CHECK_DEADLOCK FALSE
