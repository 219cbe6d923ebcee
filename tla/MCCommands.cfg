SPECIFICATION Spec
CONSTANTS
    Commits = {A, B}
    NoCommit = NoCommit
    Releases = {r1, r2, r3}
    NoRelease = NoRelease
    Ops = {"stage", "test", "reload", "abort", "rollback", "restore"}
    Faults = {"save", "target", "nginx", "recovery"}
    MaxFaults = 1
    MaxCrashes = 1
SYMMETRY Symmetry
INVARIANTS
    LatestSettled
    RollbackToPrevious
    CompletedIsServed
    RollbackIsFresh
PROPERTIES
    RevisionNamesPair
    ReloadTestedOnly
