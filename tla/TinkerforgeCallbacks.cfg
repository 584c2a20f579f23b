SPECIFICATION Spec
CONSTANTS
    N = 3
    UID <- IO4UID
    TriggerEvent <- IO4Trigger
    Channel <- IO4Channel
    DeviceType <- IO4Type
    Masks <- OnePin
    Threads = {"t1", "t2"}
    MaxQueue = 1
INVARIANTS TypeOK RegistrationStands EdgesAreCounted
PROPERTIES Registers
