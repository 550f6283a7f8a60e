SPECIFICATION FairSpec
CONSTANTS
    Profile <- Profiles
    Row = {1, 2, 3, 4, 5, 6, 7, 8}
    MaxWorkers = 2
INVARIANTS
    RegisteredGoesOn
    EarlyOutliveTheirWork
    OneScheduled
PROPERTY
    RunsAgain
CHECK_DEADLOCK FALSE
