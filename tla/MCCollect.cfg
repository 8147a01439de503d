SPECIFICATION MCSpec
CONSTANTS
    Product = {1, 2}
    ProductPage = 1
    Window = 2
    StartOffset = 1
    EndOffset = 1
    Refresh = 1
    Lag = 2
    MaxTime = 4
    MaxFaults = 1
INVARIANTS NoGap PassCoversWindow
PROPERTY EventuallyCollected
CHECK_DEADLOCK FALSE
