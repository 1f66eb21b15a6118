CONSTANTS
    Absent = Absent
    Files = {f1}
    Jsonl = {f1}
    Large <- LargeTexts
    Texts <- SmallTexts
    Workers = {w1}
    BatchSize = 2
    RetryLimit = 1
    MaxChunk = 2
    MaxClock = 3
    MaxFaults = 1
    MaxTokens = 2
    Overlap = 1
    DefaultTokens = 3
    DefaultOverlap = 1
    MinGap = 1
    TargetSize = 6
    MinSize = 3
    MaxChunks = 4
    Documents <- MCDocuments
    Nodes <- MCNodes
    Sizes <- MCSizes
    MaxNodes = 3
    MaxLines = 5
SPECIFICATION MCSpec
INVARIANTS
    IndexTypeOK
    PointsHaveRows
    VectorsAreAccounted
    LinesAreIndexed
    TextIsCovered
    ChunksKeepTheirPlace
    ConversationsAreTiled
    GeminiIsKeptWhole
CHECK_DEADLOCK FALSE
