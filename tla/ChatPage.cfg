SPECIFICATION FairSpec
CONSTANTS
    Questions = {q1, q2, q3}
INVARIANTS
    TypeOK
    OneAwaited
    AnswerUnderItsQuestion
    ThreadIsSession
PROPERTIES
    AnswerShown
