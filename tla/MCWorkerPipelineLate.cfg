SPECIFICATION Spec
CONSTANTS
    Rate <- MCRate
    Recordings <- MCLateRecordings
    Loopbacks = {}
    Pairings = {}
    Checks = {}
    Conversions = {}
    Requests = {}
    Files = {}
    CommandLines = {}
    MaxSize = 255
    MaxAlign = 15
    MinSourceRate = 40
    MaxSourceRate = 100
    ChunkFrames = 25
    Latencies = {0, 40, 99, 100, 350, 600}
    SourceFrames = {20}
INVARIANTS
    AlignedToSource
