SPECIFICATION FairSpec
CONSTANTS
    Ids = {i1, i2, i3}
    Callers = {c1}
    Limit = 2
    MaxStarts = 4
    Empty = {1}
INVARIANTS
    ExecutingIsListed
    CleanShutdownDrains
    AwaitAnswersItsEntry
    OnlyOwnersCancel
    SessionEndIsReported
PROPERTIES
    WaitsEnd
