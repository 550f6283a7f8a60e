SPECIFICATION Spec
CONSTANTS
    Path <- MCPath
    Above <- MCAbove
    Inode <- MCInode
    Hash <- MCHash
    Absent = Absent
INVARIANTS
    TempIsATree
    RecordDescribesTemp
    MergedIsThreeWay
    LostForNothing
CHECK_DEADLOCK FALSE
