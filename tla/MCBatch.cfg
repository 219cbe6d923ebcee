SPECIFICATION FairSpec
CONSTANTS
    N = 2
    Policy = "restore"
    MaxStarts = 2
    MaxFaults = 2
    MaxForeign = 1
CHECK_DEADLOCK FALSE
INVARIANTS
    TypeOK
    WrittenFirst
    Rolling
    SucceededEverywhere
PROPERTIES
    ForeignKept
    Ends
