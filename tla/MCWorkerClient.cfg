SPECIFICATION FairSpec
CONSTANTS
    Calls = {c1, c2}
    Kinds = {"test", "capture"}
    PipeLines = 1
    NoCall = NoCall
INVARIANTS
    ResultIsTheWorkers
    OneFreeWorker
    WorkersAreOwned
PROPERTIES
    ImplementsExclusiveCalls
    CancelledCallEnds
CHECK_DEADLOCK FALSE
