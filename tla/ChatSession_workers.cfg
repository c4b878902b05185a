SPECIFICATION Spec
CONSTANTS
    Sessions = {s1, s2}
    Turns = {q1, q2, q3}
    Workers = {w1, w2}
    MaxLength = 1
    MaxMessages = 2
    MaxChars = 2
    Rewriting = TRUE
    MaxFaults = 1
SYMMETRY Symmetry
INVARIANTS
    TypeOK
    SeqGapless
    QuestionFirst
    TurnsInOrder
    LoggedWhole
CHECK_DEADLOCK FALSE
