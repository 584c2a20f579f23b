CONSTANTS
    MaxMeasurements = 20
    N = 2
    Kind <- PolledKind
    Config <- PolledConfig
    Brokers = {}
    MaxReadFailures = 2
    StartTime = 8
    MaxTime = 15
SPECIFICATION Spec
INVARIANTS TypeOK SlotOnce ReadingIsTaken FailuresCounted RetryInTime
