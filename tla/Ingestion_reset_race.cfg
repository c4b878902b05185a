\* A reset while a run is reading the table.
SPECIFICATION Spec
CONSTANTS
    Tables = {1}
    Watermarked = {1}
    Rows = {1, 2}
    MaxVersion = 1
    MaxStamp = 1
    MaxChunks = 1
    ChunkCount <- OneChunk
    BatchSize = 1
    Runs = {r1}
    Resets = {k1}
    FirstRows <- SomeRows
    MaxEdits = 0
    MaxFaults = 0
INVARIANT NothingSkipped
CHECK_DEADLOCK FALSE
