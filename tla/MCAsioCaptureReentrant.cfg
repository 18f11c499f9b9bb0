SPECIFICATION Spec
CONSTANTS
    PadFrames = 1
    PlaybackFrames = 3
    BufferFrames = 2
    RingFrames = 2
    PrebufferFrames = 2
    ChunkFrames = 2
    Callbacks = {t1, t2}
    Hazards = {"file"}
    MaxFaults = 1
INVARIANTS
    SuccessIsComplete
    OneProcessor
PROPERTIES
    QuietAfterBarrier
CHECK_DEADLOCK FALSE
