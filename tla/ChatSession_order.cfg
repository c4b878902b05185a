SPECIFICATION Spec
CONSTANTS
    Sessions = {s1}
    Turns = {q1, q2, q3}
    Workers = {w1, w2}
    MaxLength = 1
    MaxMessages = 4
    MaxChars = 4
    Rewriting = FALSE
    MaxFaults = 0
SYMMETRY Symmetry
INVARIANTS
    HistoryIsChronological
CHECK_DEADLOCK FALSE
