SPECIFICATION Spec
CONSTANTS
    Path <- MCPath
    Above <- MCAbove
    Inode <- MCInode
    Hash <- MCHash
    Absent = Absent
INVARIANT
    InterveningChangeKept
CHECK_DEADLOCK FALSE
