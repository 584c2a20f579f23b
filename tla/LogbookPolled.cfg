CONSTANTS
    MaxMeasurements = 20
    Columns <- PolledColumns
    CycleTime = 4
    Rest = 2
    Retry = 1
    Feeder = "main"
    StartTime = 11
    MaxTime = 20
    MaxRegistrations = 0
SPECIFICATION Spec
INVARIANTS TypeOK EventsCountedOnce MovingCountIsSum ShortestGap OneEntryPerCycle WindowExact
PROPERTY KeepsLedger
