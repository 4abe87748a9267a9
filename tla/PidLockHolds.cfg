CONSTANTS
    p1 = p1  p2 = p2
    Pid = {p1, p2}
    i1 = i1  i2 = i2  i3 = i3  i4 = i4
    Inode = {i1, i2, i3, i4}
    MaxStarts = 1
    Sleepers = {p1}
    PidOnlyRelease = TRUE
    NoInode = NoInode
    Absent = Absent
    Unreadable = Unreadable
SPECIFICATION FairSpec
INVARIANT TypeOK
PROPERTY DeadLockIsReclaimed
CHECK_DEADLOCK FALSE
