SPECIFICATION Spec
CONSTANTS
    None = None
    Formats = {f1}
    DailyLimit = 1
    MaxAttempts = 2
    Coalesce = 0
    RetryDelay = 2
    DayLength = 2
    MaxTime = 2
    MaxTasks = 3
    MaxInvestigations = 1
    MaxEvents = 2
    MaxFaults = 1
    MaxChanges = 1
INVARIANTS
    TasksTypeOK
    NoDuplicateRequest
    CallsAreBounded
    RetryIsEarned
CHECK_DEADLOCK FALSE
