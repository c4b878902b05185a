\* Three tables, the first and the last with a watermark column and the earlier
\* with the later stamps, ingested together or one by one by two runs, with an
\* edit and a death or a failing mark_failed.
SPECIFICATION FairSpec
CONSTANTS
    Tables = {1, 2, 3}
    Watermarked = {1, 3}
    Rows = {1}
    MaxVersion = 1
    MaxStamp = 2
    MaxChunks = 1
    ChunkCount <- OneChunk
    BatchSize = 1
    Runs = {r1, r2}
    Resets = {}
    FirstRows <- TableRows
    MaxEdits = 1
    MaxFaults = 1
PROPERTIES
    EveryJobFinishes
    CursorAdvances
    JobLifecycleHolds
CHECK_DEADLOCK FALSE
