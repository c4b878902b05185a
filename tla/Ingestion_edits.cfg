\* One table read in pages and batches of different sizes, rows with two, one
\* or no chunks, by two runs that may overlap, fail and crash, with a reset and
\* an edit of the source at any moment.
SPECIFICATION Spec
CONSTANTS
    Tables = {1}
    Watermarked = {1}
    Rows = {1, 2, 3}
    MaxVersion = 2
    MaxStamp = 2
    MaxChunks = 2
    ChunkCount <- MixedChunks
    BatchSize = 2
    Runs = {r1, r2}
    Resets = {k1}
    FirstRows <- SomeRows
    MaxEdits = 1
    MaxFaults = 1
SYMMETRY Symmetry
INVARIANTS
    TypeOK
    WatermarkSound
    ScanProgress
    NoDuplicateBatch
    RecordsWhole
PROPERTIES
    CursorAdvances
CHECK_DEADLOCK FALSE
