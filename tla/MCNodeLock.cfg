SPECIFICATION FairSpec
CONSTANTS
    Procs = {p1, p2}
    Handlers = {h1, h2}
    NoProc = NoProc
    NoHandler = NoHandler
INVARIANTS
    TypeOK
    OneWriter
    WriterHoldsLock
    NothingLeaks
    Discipline
PROPERTIES
    ShutdownEnds
