SPECIFICATION Spec
CONSTANTS
    Chunks = {c1, c2, c3}
    Roles = {r1}
    MaxScore = 2
    Scores = {0, 1, 2}
    MaxKeyword = 1
    TopK = 1
    Multiplier = 2
    Threshold = 1
    MaxWeight = 2
SYMMETRY Symmetry
INVARIANTS
    NotStarved
CHECK_DEADLOCK FALSE
