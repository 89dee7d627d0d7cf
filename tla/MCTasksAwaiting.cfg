SPECIFICATION Spec
CONSTANTS
    None = None
    Formats = {f1}
    DailyLimit = 3
    MaxAttempts = 3
    Coalesce = 0
    RetryDelay = 1
    DayLength = 2
    MaxTime = 1
    MaxTasks = 3
    MaxInvestigations = 0
    MaxEvents = 2
    MaxFaults = 0
    MaxChanges = 0
INVARIANTS
    QuietWhileAwaiting
CHECK_DEADLOCK FALSE
