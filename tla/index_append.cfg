CONSTANTS
    Absent = Absent
    Files = {f1}
    Jsonl = {f1}
    Texts <- GrownTexts
    Large <- GrownTexts
    Workers = {w1}
    BatchSize = 1
    RetryLimit = 1
    MaxChunk = 2
    MaxClock = 2
    MaxFaults = 0
SPECIFICATION Spec
PROPERTIES
    AppendsContinue
CHECK_DEADLOCK FALSE
