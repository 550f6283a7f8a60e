SPECIFICATION Spec
CONSTANTS
    Voter = {ppmc, both}
    Committee = {ppmc}
    Incubator = {both}
    Mode = {"trusted", "email"}
    Choice = {"yes", "no"}
    Needed = 1
    Request = {alice, security}
    Overrider = {security}
    MaxVote = 2
    MaxRevision = 2
    MaxTries = 2
    NoBallot = NoBallot
INVARIANTS
    ApprovedOnBallots
    CountedOnce
    CountedForVoted
    ApprovedTwice
    PassedOnCarried
PROPERTIES
    ImplementsBallotBox
    IntendedVote
    RepliesToFirstRound
    OutcomesStand
CHECK_DEADLOCK FALSE
