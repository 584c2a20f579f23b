CONSTANTS
    N = 5
    Type <- HouseTypes
    Channel <- HouseChannels
    MaxReadFailures = 2
    MaxRestartAttempts = 2
    RestartCommand = TRUE
    SystemCommand = TRUE
SPECIFICATION Spec
INVARIANT TypeOK
PROPERTIES CommandsAreJustified RebootAfterRestarts PersistentFailureEscalates
CHECK_DEADLOCK FALSE
