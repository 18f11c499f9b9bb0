SPECIFICATION Spec
CONSTANTS
    Rate <- MCRate
    Recordings <- MCRecordings
    Loopbacks <- MCLoopbacks
    Pairings <- MCPairings
    Checks <- MCChecks
    Conversions <- MCConversions
    Requests <- MCRequests
    Files <- MCFiles
    CommandLines <- MCCommandLines
    MaxSize = 255
    MaxAlign = 15
    MinSourceRate = 40
    MaxSourceRate = 100
    ChunkFrames = 25
    Latencies = {0, 1, 40, 99}
    SourceFrames = {1, 60}
INVARIANTS
    MatchIsOptimal
    DirectTrainWins
    PayloadIsTheSource
    LoopbackIsTheSource
    RightChannelCounts
    RouteKeepsItsSamples
    WrittenIsReadable
    PanelAgreesWithWorker
    StructuredOutput
