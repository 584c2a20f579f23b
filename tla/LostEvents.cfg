CONSTANTS
    MaxMeasurements = 20
    Columns <- CountColumn
    CycleTime = 4
    Rest = 2
    Retry = 1
    Feeder = "callback"
    StartTime = 7
    MaxTime = 14
    MaxRegistrations = 0
SPECIFICATION Spec
INVARIANT EventsCountedOnce
