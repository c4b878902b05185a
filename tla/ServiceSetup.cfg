\* An API of two workers and the tools over an empty database: every order of
\* the statements of two requests, a failure or a restart anywhere, and a new
\* embedding model.
SPECIFICATION FairSpec
CONSTANTS
    Workers = {"w1", "w2"}
    NoWorker = "no worker"
    Requests = {"question", "other"}
    Home <- SomeHomes
    Kinds <- SomeKinds
    Dims = {3, 4}
    FirstDim = 3
    MaxTables = 2
    MaxFaults = 1
    MaxChanges = 1
INVARIANTS
    TypeOK
    OwnTablesThere
    DimensionsAgree
PROPERTIES
    QuestionsServed
