SPECIFICATION FairSpec
CONSTANTS
    Sessions = {s1}
    Turns = {q1, q2, q3}
    Workers = {w1}
    MaxLength = 2
    MaxMessages = 3
    MaxChars = 3
    Rewriting = TRUE
    MaxFaults = 1
INVARIANTS
    HistoryIsChronological
PROPERTIES EveryTurnEnds
    HistoryIsWindow
    ConversationHolds
CHECK_DEADLOCK FALSE
