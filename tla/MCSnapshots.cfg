SPECIFICATION Spec
CONSTANTS
    Commits = {A, B, C, D}
    NoCommit = NoCommit
    KeepReleases = 2
    MaxReleases = 4
    MaxCrashes = 2
    MaxDrifts = 2
SYMMETRY Symmetry
CHECK_DEADLOCK FALSE
INVARIANTS
    TypeOK
    LiveIsWhole
PROPERTIES
    SwitchChecked
    RetainedKept
