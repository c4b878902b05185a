SPECIFICATION FairPanelSpec
CONSTANTS
    Jobs = {j1, j2, j3}
    Tables = {t1}
INVARIANTS
    PanelTypeOK
    ShownFollows
    LatestOnly
PROPERTIES
    VerdictShown
    PollEnds
CHECK_DEADLOCK FALSE
