SPECIFICATION Spec
CONSTANTS
    Path = {"p", "q"}
    Service = {"s1", "s2"}
    Content <- MCContent
    NoContent = "none"
    Name = {"b"}
    Destination = {"d1", "d2"}
    Defines <- MCDefines
    Uses <- MCUses
    Tags <- MCTags
    w1 = w1
    w2 = w2
    Writer = {w1, w2}
    MaxRequests = 3
    MaxFaults = 1
SYMMETRY Writers
INVARIANTS HighestIsLatest IntegrityButRaces
PROPERTIES HistoryIsKept ReportedBackupStays
CHECK_DEADLOCK FALSE
