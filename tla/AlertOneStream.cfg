SPECIFICATION RecoverySpec
CONSTANTS
    Handlers = {h1}
    Requests <- SomeRequests
    Samples <- AllSamples
    GoodSamples <- Recovered
    Thresholds <- SomeThresholds
    MaxBad = 5
    MaxEdits = 2
    MaxRestarts = 1
    RunCap = 2
    None = None
INVARIANTS ActsOnFullStreak OneFiringAlert
PROPERTIES ImplementsLifecycle EventuallyResolved
CHECK_DEADLOCK FALSE
