SPECIFICATION FairSpec
CONSTANTS
    strict1 = strict1
    strict2 = strict2
    loose = loose
    Runs <- MCRuns
    Limit <- MCLimit
    JobsPerRun = 1
INVARIANTS
    NoLostWakeup
    SlotsConserved
    GrantsBounded
PROPERTIES
    RunsEnd
