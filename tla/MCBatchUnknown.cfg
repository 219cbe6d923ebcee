SPECIFICATION Spec
CONSTANTS
    N = 2
    Policy = "restore"
    MaxStarts = 2
    MaxFaults = 1
    MaxForeign = 0
CHECK_DEADLOCK FALSE
INVARIANTS
    UnresolvedFirst
