SPECIFICATION StreamSpec
CONSTANTS
    LineCap = 2
    StderrCap = 3
    MaxChunk = 3
    MaxInput = 7
INVARIANTS
    StreamTypeOK
    ChunksDoNotMatter
    StderrIsHonest
CHECK_DEADLOCK FALSE
