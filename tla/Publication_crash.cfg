SPECIFICATION FairSpec
CONSTANTS
    live = live
    composite = composite
    Runs <- MCRuns
    Composites <- MCComposites
    Callers = {c1}
    NoCaller = NoCaller
    ActionLimit = 6
    MaxFaults = 2
    MaxLosses = 1
INVARIANTS
    TypeOK
    PublishedIsDurable
    InterruptedIsPublished
    PublishedIsUnique
PROPERTIES
    TransactionsEnd
