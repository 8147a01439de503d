SPECIFICATION MCSpec
CONSTANTS
    Collector = {c1, c2}
    Timeout = 2
    Refresh = 1
    MaxDate = 1
    MaxPages = 1
    MaxFaults = 1
    Retry = 1
INVARIANTS ExclusiveWhileFresh FreshTickIsVisible
PROPERTIES SupersededNeverWrites AbandonedIsRecovered
CHECK_DEADLOCK FALSE
