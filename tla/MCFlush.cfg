SPECIFICATION MCSpec
CONSTANTS
    File = {f1, f2}
    Collector = {c1, c2}
    Configs <- MCConfigs
    None = None
    MaxTakeovers = 1
    Scenario <- MCScenario
    Document <- MCDocument
    NoDocument = NoDocument
    Destination <- MCDestination
    Index = {"i1", "i2"}
    DestinationOf <- MCDestinationOf
    IndexOf <- MCIndexOf
    Chunk <- MCChunk
    MaxFailures = 3
    MaxSignals = 1
    f1 = f1
    f2 = f2
    k1 = k1
    k2 = k2
    c1 = c1
    c2 = c2
INVARIANTS OnlyCaughtIsDropped  OneAtATime  
 
\* A collector that has ended, or found nothing more, stops.
CHECK_DEADLOCK FALSE
