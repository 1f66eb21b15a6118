CONSTANTS
    Absent = Absent
    Files = {f1}
    Jsonl = {}
    Texts <- OneText
    Large = {}
    Workers = {w1}
    BatchSize = 2
    RetryLimit = 3
    MaxChunk = 1
    MaxClock = 2
    MaxFaults = 1
SPECIFICATION FairSpec
PROPERTIES
    CommitMeansSync
CHECK_DEADLOCK FALSE
