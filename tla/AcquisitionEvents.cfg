CONSTANTS
    MaxMeasurements = 2
    N = 3
    Kind <- EventKind
    Config <- EventConfig
    Brokers = {b1, b2}
    MaxReadFailures = 2
    StartTime = 11
    MaxTime = 14
SYMMETRY BrokersAlike
SPECIFICATION Spec
INVARIANTS RetentionComplete NewestRetained PublishedIsLatest
