SPECIFICATION FairSpec
CONSTANTS
    Commits = {A, B}
    NoCommit = NoCommit
    Releases = {r1, r2}
    NoRelease = NoRelease
    Ops = {"apply"}
    Faults = {"save", "load", "target", "prepare", "switch", "nginx", "recovery"}
    MaxFaults = 2
    MaxCrashes = 2
INVARIANTS
    TypeOK
    LinkMatchesRecord
    UnfinishedIsActive
    AnsweredIsDurable
    SkippedIsServed
    ViewIsDurable
PROPERTIES
    RevisionNamesPair
    WriteAhead
    RunningIsResolved
    ImplementsRegister
