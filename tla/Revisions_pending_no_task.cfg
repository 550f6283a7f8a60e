SPECIFICATION Spec
CONSTANTS
    Request = {starter, alice}
    Starter = starter
    Kind <- Edits
    Voter = {}
    Path = {x}
    Content = {zip}
    Archive = {zip}
    Absent = Absent
    NoDir = NoDir
    MaxRevision = 1
INVARIANT
    PendingHasTask
CHECK_DEADLOCK FALSE
