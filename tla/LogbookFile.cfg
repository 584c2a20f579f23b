SPECIFICATION Spec
CONSTANTS
    Limits = {0, 2, 3}
    MaxEntry = 5
INVARIANTS TypeOK FileIsTail IsTable
PROPERTIES KeepsTheLog
