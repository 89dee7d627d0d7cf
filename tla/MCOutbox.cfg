SPECIFICATION FairSpec
CONSTANTS
    e1 = e1
    e2 = e2
    e3 = e3
    None = None
    Events = {e1, e2, e3}
    Registered = {e1, e2}
    Senders = {w1, w2}
    Delays = {1}
    MaxTime = 2
    MaxStops = 1
INVARIANTS
    OutboxTypeOK
    ShownAtMostOnce
    StateIsTrue
PROPERTIES
    RateLimitStopsAll
    KeepsPromise
    EveryNotificationSettles
CHECK_DEADLOCK FALSE
