SPECIFICATION Spec
CONSTANTS
    Release = {a, b}
    Worker = {w1, w2}
    Content = {good, bad}
    Bad = {bad}
    LocalKey = {own}
    Profile = {{"die", "fail", "delete"}, {"hasty"}}
    NoWorker = NoWorker
    NoRelease = NoRelease
    MaxRevision = 2
    MaxFaults = 2
INVARIANTS
    TypeOK
    CompletedReported
PROPERTIES
    BlockedStaysDraft
    UncheckedOnlyIfShared
SYMMETRY Symmetry
CHECK_DEADLOCK FALSE
