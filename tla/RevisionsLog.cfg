SPECIFICATION Spec
CONSTANTS
    Request = {starter, alice}
    Starter = starter
    Kind <- Mixed
    Voter = {voter}
    Path = {x}
    Content = {zip}
    Archive = {zip}
    Absent = Absent
    NoDir = NoDir
    MaxRevision = 3
    Keep = Keep
    Nothing = Nothing
INVARIANTS
    VotedIsLatest
    QuarantineInDraft
    DirectoriesMatchRows
    ArchivesExtracted
PROPERTIES
    ImplementsLog
    VotedFilesFrozen
CHECK_DEADLOCK FALSE
