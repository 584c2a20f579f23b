CONSTANTS
    MaxMeasurements = 20
    Columns <- PolledColumns
    CycleTime = 4
    Rest = 2
    Retry = 1
    Feeder = "callback"
    StartTime = 11
    MaxTime = 17
    MaxRegistrations = 1
SPECIFICATION Spec
INVARIANTS NeverOvercounted CountsItsOwn
