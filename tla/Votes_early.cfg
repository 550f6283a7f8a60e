SPECIFICATION Spec
CONSTANTS
    Voter = {ppmc, both}
    Committee = {ppmc, both}
    Incubator = {both}
    Mode = {"trusted"}
    Choice = {"yes", "no"}
    Needed = 1
    Request = {alice}
    Overrider = {}
    MaxVote = 2
    MaxRevision = 1
    MaxTries = 1
INVARIANT
    PassedOnceAnnounced
CHECK_DEADLOCK FALSE
