SPECIFICATION Spec
CONSTANTS
    Calls = {c1, c2}
    Kinds = {"query"}
    PipeLines = 1
    NoCall = NoCall
INVARIANTS
    OneWorker
CHECK_DEADLOCK FALSE
