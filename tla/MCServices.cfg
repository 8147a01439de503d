SPECIFICATION MCSpec
CONSTANTS
    File = {f1, f2}
    Sidecars = {f1}
    Destinations = 2
    NoFile = none
    MaxErrors = 2
    Interface = {i1, i2}
    Http = {i2}
    Retries = 2
    MaxThreads = 2
    MaxFlips = 2
    MaxFaults = 1
    Configs = 2
    Entry = {"common", "first", "store"}
    NoEntry = none
    Uses <- MCUses
    Secret = {"key"}
    Contents <- MCContents
    Absent = none
    MaxRotations = 2
    MaxLoadErrors = 1
    Access = 3
    Refresh = 5
    Announces = TRUE
    Day = 8
    None = none
    MaxDelay = 2
    MaxRevocations = 1
    Path = {"p", "q", "manifest"}
    Reserved = {"manifest"}
    Content = {1, 2}
    Torn = torn
    MaxChanges = 3
    MaxEdits = 1
    MaxMishaps = 1
INVARIANTS BackupsAreThere OneProbeEach SentInTime 
PROPERTIES ProbesEventuallySettled EventuallyCurrent 
\* A process that has ended, or backed everything up, stops.
CHECK_DEADLOCK FALSE
