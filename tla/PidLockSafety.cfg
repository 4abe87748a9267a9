CONSTANTS
    p1 = p1  p2 = p2
    Pid = {p1, p2}
    i1 = i1  i2 = i2  i3 = i3  i4 = i4
    Inode = {i1, i2, i3, i4}
    MaxStarts = 2
    Sleepers = {}
    PidOnlyRelease = FALSE
    NoInode = NoInode
    Absent = Absent
    Unreadable = Unreadable
SPECIFICATION Spec
SYMMETRY PidAndInodeSymmetry
INVARIANT MutualExclusion
INVARIANT LockNamesItsHolder
PROPERTY ClaimPinsTheDeadLock
PROPERTY RemovesOnlyWhatItRead
PROPERTY DeadLocksAreReplacedInPlace
PROPERTY ImplementsRegister
CHECK_DEADLOCK FALSE
