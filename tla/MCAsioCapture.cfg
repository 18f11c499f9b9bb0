SPECIFICATION FairSpec
CONSTANTS
    PadFrames = 0
    PlaybackFrames = 3
    BufferFrames = 2
    RingFrames = 2
    PrebufferFrames = 2
    ChunkFrames = 2
    Callbacks = {t1}
    Hazards = {"cancel", "threads", "source", "file", "create", "conversion", "start", "index", "event", "latencies", "cleanup", "control"}
    MaxFaults = 1
INVARIANTS
    SuccessIsComplete
    StreamsInStep
    VerdictHasACause
PROPERTIES
    ImplementsLifecycle
    Ends
CHECK_DEADLOCK FALSE
