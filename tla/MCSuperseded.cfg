SPECIFICATION Spec
CONSTANTS
    Commits = {A, B}
    NoCommit = NoCommit
    Releases = {r1, r2}
    NoRelease = NoRelease
    Ops = {"apply"}
    Faults = {"save"}
    MaxFaults = 3
    MaxCrashes = 1
SYMMETRY Symmetry
PROPERTIES
    AnswersStand
