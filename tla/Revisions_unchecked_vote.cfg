SPECIFICATION Spec
CONSTANTS
    Request = {starter, alice}
    Starter = starter
    Kind <- Edits
    Voter = {voter}
    Path = {x}
    Content = {text}
    Archive = {}
    Absent = Absent
    NoDir = NoDir
    MaxRevision = 2
INVARIANT
    ChecksCompleteBeforeVote
CHECK_DEADLOCK FALSE
