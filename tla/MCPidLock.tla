------------------------------ MODULE MCPidLock ------------------------------
(* PidLock on a few pids and inodes.  The processes that are no sleepers are *)
(* interchangeable, and so are the inodes: the safety runs use both          *)
(* symmetries.                                                               *)
EXTENDS PidLock, TLC

PidAndInodeSymmetry == Permutations(Pid) \cup Permutations(Inode)

ToolAndInodeSymmetry == Permutations(Pid \ Sleepers) \cup Permutations(Inode)
=============================================================================
