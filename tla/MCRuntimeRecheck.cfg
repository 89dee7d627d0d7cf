SPECIFICATION Spec
CONSTANTS
    s1 = s1
    c1 = c1
    p1 = p1
    p2 = p2
    owner = owner
    reviewer = reviewer
    None = None
    Services = {s1}
    Cases = {c1}
    Plans = {p1}
    Actors = {owner, reviewer}
    CheckConfigs = {k1, k2}
    ServiceOf <- MCServiceOf
    CaseOf <- MCCaseOf
    Role <- MCRole
    OperationFailures = {c1}
    EvidenceLimit = 1
    MaxVersion = 2
    MaxGeneration = 1
    MaxEvidence = 1
    Threads = {t1}
    MaxFaults = 0
PROPERTIES
    VerifiedByPlannedCheck
CHECK_DEADLOCK FALSE
