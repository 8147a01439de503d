SPECIFICATION MCSpec
CONSTANTS
    Document <- MCDocument
    Product = {"p"}
    Bytes = {"v1", "v2"}
    ProductOf <- MCProductOf
    BytesOf <- MCBytesOf
    Announced = {"old", "new"}
    Batch <- MCBatch
    Destination = {"d1", "d2"}
    Stage = {s1, s2}
    Operation = {"o1"}
    Live = "live"
    MaxPending = 1
    StateSize = 10
    MaxRequests = 2
    MaxFaults = 1
SYMMETRY Replicas
INVARIANTS MirrorsAgree NothingIsForgotten
PROPERTIES ArchivedIsKept ResolvedIsComplete ImplementsMirrors
CHECK_DEADLOCK FALSE
