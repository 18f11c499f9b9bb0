SPECIFICATION Spec
CONSTANTS
    PadFrames = 0
    PlaybackFrames = 2
    BufferFrames = 1
    RingFrames = 4
    PrebufferFrames = 2
    ChunkFrames = 2
    Callbacks = {t1}
    Hazards = {"cancel"}
    MaxFaults = 1
INVARIANTS
    PrebufferIsPatient
CHECK_DEADLOCK FALSE
