SPECIFICATION Spec
CONSTANTS
    Handlers = {h1, h2}
    Requests <- HysteresisRequests
    Samples <- AllSamples
    GoodSamples <- Recovered
    Thresholds <- SomeThresholds
    MaxBad = 2
    MaxEdits = 0
    MaxRestarts = 0
    RunCap = 2
    None = None
INVARIANT OneFiringAlert
CHECK_DEADLOCK FALSE
