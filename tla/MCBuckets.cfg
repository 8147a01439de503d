SPECIFICATION MCSpec
CONSTANTS
    f1 = f1
    f2 = f2
    d1 = d1
    d2 = d2
    d3 = d3
    File = {f1}
    Directory = {d1}
    Parent <- MCParent
    Kind = {"ftp"}
    Bad <- MCBad
    None = none
    MaxTime = 1
    MaxFaults = 1
    Buckets = 2
    Keys = 2
    MaxKeys = 1
    Broken <- MCBroken
    MaxClock = 2
    Product = {"p", "q", "r"}
    Page <- MCPage
    Validity = 2
    MaxFailures = 2
    Api = {"loki", "mpip", "jira"}
    Item = {1, 2}
    Window = 2
    Limit = 1
    PageSize = 1
    Minute = 2
    LastDate = 4
PROPERTY EveryBucketIsWatched
CHECK_DEADLOCK FALSE
