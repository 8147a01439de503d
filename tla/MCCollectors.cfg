SPECIFICATION MCSpec
CONSTANTS
    f1 = f1
    f2 = f2
    d1 = d1
    d2 = d2
    d3 = d3
    File = {f1, f2}
    Directory = {d1, d2, d3}
    Parent <- MCParent
    Kind = {"ftp", "rosftp", "webdav"}
    Bad <- MCBad
    None = none
    MaxTime = 3
    MaxFaults = 1
    Buckets = 2
    Keys = 2
    MaxKeys = 1
    Broken <- MCBroken
    MaxClock = 2
    Product = {"p", "q", "r"}
    Page <- MCPage
    Validity = 2
    MaxFailures = 2
    Api = {"loki", "mpip", "jira"}
    Item = {1, 2}
    Window = 2
    Limit = 1
    PageSize = 1
    Minute = 2
    LastDate = 4

PROPERTIES FoundEventuallyTried EventuallyIngested EventuallyAllIngested
INVARIANT GapsAreKnown
\* A pass that finds nothing new is followed by another: what is left is bounded by the clock.
CHECK_DEADLOCK FALSE
