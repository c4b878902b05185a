\* Every text of up to three sentences, with each overlap and every row of a
\* table that may have a column named like a metadata key.
SPECIFICATION Spec
CONSTANTS
    Columns = {"source_table", "price"}
    Structural = {"source_table", "primary_key", "access_tags"}
    Texts <- SmallTexts
    Sizes = {5}
    Overlaps <- SomeOverlaps
INVARIANTS
    SentencesKept
    PackedTight
    NamesTheirRecord
CHECK_DEADLOCK FALSE
