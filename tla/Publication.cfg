SPECIFICATION FairSpec
CONSTANTS
    Release = {1, 2}
    Shared = {1, 2}
    Removal = {1, 2}
    Profile = {{"die", "defer", "remove", "replay"}, {"defer", "refuse", "replay"},
               {"fail", "timeout", "early", "again"},
               {"die", "refuse", "timeout", "live", "skip", "unread"}}
    MaxCommits = 4
    MaxFaults = 2
INVARIANTS
    TypeOK
    OwnCommit
    
    NoneForgotten
PROPERTIES
    OnlyPlannedRemoved
    ArchiveSettles
CHECK_DEADLOCK FALSE
