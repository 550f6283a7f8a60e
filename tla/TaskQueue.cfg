SPECIFICATION FairSpec
CONSTANTS
    Task = {1, 2}
    Pid = {1, 2}
    Stamp = {s1, s2, s3}
    NoStamp = NoStamp
    MinWorkers = 1
    Budget = 2
    Fault = {"defer", "die", "lost", "memory", "server", "machine", "reuse"}
    MaxFaults = 2
INVARIANTS
    SoleExecution
    ReturnedWhenDead
PROPERTIES
    VerdictsStand
    ImplementsJobs
    EveryTaskConcludes
CHECK_DEADLOCK FALSE
