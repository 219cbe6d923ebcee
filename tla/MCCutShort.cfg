SPECIFICATION Spec
CONSTANTS
    Commits = {A, B}
    NoCommit = NoCommit
    Releases = {r1, r2, r3}
    NoRelease = NoRelease
    Ops = {"stage", "abort"}
    Faults = {}
    MaxFaults = 0
    MaxCrashes = 1
SYMMETRY Symmetry
INVARIANTS
    LatestMatchesRecord
