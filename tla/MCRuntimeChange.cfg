SPECIFICATION Spec
CONSTANTS
    s1 = s1
    c1 = c1
    p1 = p1
    p2 = p2
    owner = owner
    reviewer = reviewer
    None = None
    Services = {s1}
    Cases = {c1}
    Plans = {p1}
    Actors = {owner, reviewer}
    CheckConfigs = {k1, k2}
    ServiceOf <- MCServiceOf
    CaseOf <- MCCaseOf
    Role <- MCRole
    OperationFailures = {c1}
    EvidenceLimit = 1
    MaxVersion = 2
    MaxGeneration = 2
    MaxEvidence = 3
    Threads = {t1, t2}
    MaxFaults = 1
SYMMETRY MCSymmetry
PROPERTIES
    ResolvedWasVerified
    SentAsReviewed
    RevokedIsNotSent
    ReopenedByEvidence
CHECK_DEADLOCK FALSE
