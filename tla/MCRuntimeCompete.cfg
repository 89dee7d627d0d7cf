SPECIFICATION Spec
CONSTANTS
    s1 = s1
    c1 = c1
    p1 = p1
    p2 = p2
    owner = owner
    reviewer = reviewer
    None = None
    Services = {s1}
    Cases = {c1}
    Plans = {p1, p2}
    Actors = {owner, reviewer}
    CheckConfigs = {k1}
    ServiceOf <- MCServiceOf
    CaseOf <- MCCaseOf
    Role <- MCRole
    OperationFailures = {c1}
    EvidenceLimit = 1
    MaxVersion = 1
    MaxGeneration = 1
    MaxEvidence = 1
    Threads = {t1, t2}
    MaxFaults = 1
SYMMETRY MCSymmetry
INVARIANTS
    RuntimeTypeOK
    AtMostOnce
    UnresolvedIsClaimed
    LedgerIsHonest
    RejectedWasNeverSent
PROPERTIES
    KeepsPromise
CHECK_DEADLOCK FALSE
