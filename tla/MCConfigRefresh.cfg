SPECIFICATION RefreshSpec
CONSTANTS
    Path = {"p", "q"}
    Service = {"s1", "s2"}
    Content <- MCContent
    NoContent = "none"
    Watched = {"s1"}
    Unloadable = {"bad"}
    Name = {"b"}
    Destination = {"d1"}
    Defines <- MCDefines
    Uses <- MCUses
    Tags <- MCTags
    Writer = {w1}
    MaxRequests = 3
    MaxFaults = 1
INVARIANT ReadIsCurrent
PROPERTY EventuallyApplied
CHECK_DEADLOCK FALSE
