SPECIFICATION Spec
CONSTANTS
    Commits = {A, B}
    NoCommit = NoCommit
    Releases = {r1, r2, r3}
    NoRelease = NoRelease
    Ops = {"stage", "test", "reload", "abort"}
    Faults = {}
    MaxFaults = 0
    MaxCrashes = 0
SYMMETRY Symmetry
INVARIANTS
    AbortOnlyUnreloaded
