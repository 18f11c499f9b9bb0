SPECIFICATION Spec
CONSTANTS
    Shapes = {"mono", "stereo"}
    Rates = {"44100", "48000", "96000"}
    SourceRate = "44100"
    Chunks = 2
    MaxEdits = 2
INVARIANTS
    MadeFromOneSource
    NothingLeftBehind
    RateIsRestored
PROPERTIES
    ImplementsTransaction
CHECK_DEADLOCK FALSE
