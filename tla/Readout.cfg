CONSTANTS
    MaxMeasurements = 20
    N = 4
    Files = {"url", "file"}
    Remote = {"url"}
    Source <- SensorSource
    Keys <- SensorKeys
    Config <- SensorConfigs
    Documents <- Docs
    Text <- DocTexts
    Says <- DocValues
    Contents <- DocContents
    BufferTime = 1
    StartTime = 5
    MaxTime = 7
SPECIFICATION Spec
INVARIANTS TypeOK SameContentInPass FreshContent ReadsTheDocument TornGivesNothing
PROPERTIES AsksOnce
CHECK_DEADLOCK FALSE
