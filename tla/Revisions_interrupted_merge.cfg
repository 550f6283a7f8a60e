SPECIFICATION StartedSpec
CONSTANTS
    Request = {starter, alice}
    Starter = starter
    Kind <- Edits
    Voter = {}
    Path = {x, y}
    Content = {text, other, zip}
    Archive = {zip}
    Absent = Absent
    NoDir = NoDir
    MaxRevision = 4
PROPERTY
    InterveningUpdateKept
CHECK_DEADLOCK FALSE
