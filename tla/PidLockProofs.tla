---------------------------- MODULE PidLockProofs ----------------------------
(***************************************************************************)
(* What TLAPS proves of the pid lock for any number of processes, inodes   *)
(* and restarts.                                                           *)
(***************************************************************************)
EXTENDS PidLock, TLAPS

(* A process past the stat of the lock knows the inode it found there. *)
InodeKnown ==
    \A p \in Pid : pc[p] \in {"claim", "unclaim"} \cup Claimed => ino[p] \in Inode

Typed == TypeOK /\ InodeKnown

(* A directory without processes is well shaped. *)
LEMMA TypedInit == Init => Typed
BY PidLockAssumption DEF Init, Typed, TypeOK, InodeKnown, Holder, Location,
   Outcome, Attempting, Claimed

(* No call, kill or error spoils a type, nor the inode a reclaim works on. *)
LEMMA TypedStep == Typed /\ [Next]_vars => Typed'
<1> SUFFICES ASSUME Typed, [Next]_vars PROVE Typed'
  OBVIOUS
<1> USE PidLockAssumption DEF Typed, TypeOK, InodeKnown, Holder, Location,
      Outcome, Attempting, Claimed, Self
<1> USE DEF vars, fs, os, local, Goto, Return, HolderAt
<1>1. CASE UNCHANGED vars
  BY <1>1
<1>2. ASSUME NEW p \in Pid, Spawn(p) PROVE Typed'
  BY <1>2 DEF Spawn
<1>3. ASSUME NEW p \in Pid, Kill(p) PROVE Typed'
  BY <1>3 DEF Kill, Dies
<1>4. ASSUME NEW p \in Pid, Stage(p) PROVE Typed'
  BY <1>4 DEF Stage
<1>5. ASSUME NEW p \in Pid, LinkFree(p) PROVE Typed'
  BY <1>5 DEF LinkFree
<1>6. ASSUME NEW p \in Pid, LinkTaken(p) PROVE Typed'
  BY <1>6 DEF LinkTaken
<1>7. ASSUME NEW p \in Pid, Read(p) PROVE Typed'
  BY <1>7 DEF Read
<1>8. ASSUME NEW p \in Pid, Probe(p) PROVE Typed'
  BY <1>8 DEF Probe
<1>9. ASSUME NEW p \in Pid, Stat(p) PROVE Typed'
  BY <1>9 DEF Stat
<1>10. ASSUME NEW p \in Pid, Claim(p) PROVE Typed'
  BY <1>10 DEF Claim
<1>11. ASSUME NEW p \in Pid, ClaimRefused(p) PROVE Typed'
  BY <1>11 DEF ClaimRefused
<1>12. ASSUME NEW p \in Pid, CheckClaim(p) PROVE Typed'
  BY <1>12 DEF CheckClaim
<1>13. ASSUME NEW p \in Pid, Judge(p) PROVE Typed'
  BY <1>13 DEF Judge
<1>14. ASSUME NEW p \in Pid, Reprobe(p) PROVE Typed'
  BY <1>14 DEF Reprobe
<1>15. ASSUME NEW p \in Pid, Confirm(p) PROVE Typed'
  BY <1>15 DEF Confirm
<1>16. ASSUME NEW p \in Pid, Rename(p) PROVE Typed'
  BY <1>16 DEF Rename
<1>17. ASSUME NEW p \in Pid, Unclaim(p) PROVE Typed'
  BY <1>17 DEF Unclaim
<1>18. ASSUME NEW p \in Pid, Unstage(p) PROVE Typed'
  BY <1>18 DEF Unstage
<1>19. ASSUME NEW p \in Pid, GiveUp(p) PROVE Typed'
  BY <1>19 DEF GiveUp
<1>20. ASSUME NEW p \in Pid, FsError(p) PROVE Typed'
  BY <1>20 DEF FsError
<1>21. ASSUME NEW p \in Pid, Release(p) PROVE Typed'
  BY <1>21 DEF Release
<1>22. ASSUME NEW p \in Pid, CrashRelease(p) PROVE Typed'
  BY <1>22 DEF CrashRelease
<1>23. ASSUME NEW p \in Pid, ReadHold(p) PROVE Typed'
  BY <1>23 DEF ReadHold
<1>24. ASSUME NEW p \in Pid, StopSleeper(p) PROVE Typed'
  BY <1>24 DEF StopSleeper, Dies, Alive
<1>25. ASSUME NEW p \in Pid, Reread(p) PROVE Typed'
  BY <1>25 DEF Reread
<1>26. ASSUME NEW p \in Pid, Unlink(p) PROVE Typed'
  BY <1>26 DEF Unlink
<1>27. ASSUME NEW i \in Inode, DeleteStrandedClaim(i) PROVE Typed'
  BY <1>27 DEF DeleteStrandedClaim
<1> QED
  BY <1>1, <1>2, <1>3, <1>4, <1>5, <1>6, <1>7, <1>8, <1>9, <1>10, <1>11,
     <1>12, <1>13, <1>14, <1>15, <1>16, <1>17, <1>18, <1>19, <1>20, <1>21,
     <1>22, <1>23, <1>24, <1>25, <1>26, <1>27 DEF Next, Step

(* Types: every variable keeps its shape through every call, kill and error. *)
THEOREM TypeCorrect == Spec => []TypeOK
<1>1. Typed => TypeOK
  BY DEF Typed
<1> QED
  BY <1>1, TypedInit, TypedStep, PTL DEF Spec

-----------------------------------------------------------------------------
(* The locks nobody but their holder releases: the drain lock and the suite   *)
(* lock, as long as no crash handler releases by pid alone.                   *)
OwnReleasesOnly == Sleepers = {} /\ ~PidOnlyRelease

(* No live process is the holder h. *)
Dead(h) == \A q \in running : h # Self(q)

(* The state of each process and its staged file. *)
ProcessOK(p) ==
    /\ pc[p] = "off" <=> p \notin running
    /\ pc[p] \notin {"stopSleeper", "reread"}
    /\ pc[p] \in {"probe"} \cup Attempting => staged[p] \in Inode
    /\ staged[p] \in Inode => pc[p] # "off" /\ payload[staged[p]] = Self(p)

ProcessInv == \A p \in Pid : ProcessOK(p)

(* No payload is from the future: a process that starts is no old holder. *)
PayloadInv ==
    \A i \in Inode :
      payload[i] \in Holder => payload[i].startedAt <= startedAt[payload[i].pid]

(* A claim has one maker, and pins the inode it was checked against. *)
ClaimInv ==
    \A p \in Pid :
      /\ pc[p] \in {"unclaim"} \cup Claimed =>
           /\ claim[ino[p]] # NoInode
           /\ \A q \in Pid : OwnsClaim(q, ino[p]) => q = p
      /\ pc[p] \in {"judge", "reprobe", "confirm", "rename"} => claim[ino[p]] = ino[p]

(* What the second probe concludes stays true up to the rename. *)
JudgedInv ==
    \A p \in Pid :
      /\ pc[p] = "reprobe" => seen[p] = payload[ino[p]]
      /\ pc[p] \in {"confirm", "rename"} => Dead(payload[ino[p]])
      /\ pc[p] = "rename" => lock = ino[p]

(* The lock path names the process that has it, and the one that releases it. *)
LockInv ==
    \A p \in Pid :
      /\ Holds(p) => HolderAt(lock) = Self(p)
      /\ pc[p] = "unlink" => HolderAt(lock) = Self(p) /\ seen[p] = Self(p)

(* Claims hold by themselves, whoever releases which lock and however: a claim is *)
(* made where none is, and taken away by its maker or when that is gone.          *)
PinInv == Typed /\ ClaimInv

LEMMA PinStep == PinInv /\ [Next]_vars => PinInv'
<1> SUFFICES ASSUME PinInv, [Next]_vars PROVE ClaimInv'
  BY TypedStep DEF PinInv
<1> USE DEF PinInv, ClaimInv, OwnsClaim, Typed, TypeOK, InodeKnown, Goto, Return, Claimed,
      Attempting, vars, fs, os, local
<1>1. ASSUME NEW p \in Pid, Spawn(p) \/ Stage(p) \/ LinkFree(p) \/ LinkTaken(p) PROVE ClaimInv'
  BY <1>1 DEF Spawn, Stage, LinkFree, LinkTaken
<1>2. ASSUME NEW p \in Pid, Kill(p) PROVE ClaimInv'
  BY <1>2 DEF Kill, Dies
<1>3. ASSUME NEW p \in Pid, Read(p) PROVE ClaimInv'
  BY <1>3 DEF Read
<1>4. ASSUME NEW p \in Pid, Probe(p) \/ Stat(p) PROVE ClaimInv'
  BY <1>4 DEF Probe, Stat
<1>5. ASSUME NEW p \in Pid, Claim(p) PROVE ClaimInv'
  BY <1>5, PidLockAssumption DEF Claim
<1>6. ASSUME NEW p \in Pid, ClaimRefused(p) \/ CheckClaim(p) PROVE ClaimInv'
  BY <1>6 DEF ClaimRefused, CheckClaim
<1>7. ASSUME NEW p \in Pid, Judge(p) \/ Reprobe(p) \/ Confirm(p) PROVE ClaimInv'
  BY <1>7 DEF Judge, Reprobe, Confirm
<1>8. ASSUME NEW p \in Pid, Rename(p) PROVE ClaimInv'
  BY <1>8 DEF Rename
<1>9. ASSUME NEW p \in Pid, Unclaim(p) PROVE ClaimInv'
  BY <1>9 DEF Unclaim
<1>10. ASSUME NEW p \in Pid, Unstage(p) \/ GiveUp(p) PROVE ClaimInv'
  BY <1>10 DEF Unstage, GiveUp
<1>11. ASSUME NEW p \in Pid, FsError(p) PROVE ClaimInv'
  BY <1>11 DEF FsError
<1>12. ASSUME NEW p \in Pid, Release(p) \/ CrashRelease(p) \/ ReadHold(p) PROVE ClaimInv'
  BY <1>12 DEF Release, CrashRelease, ReadHold
<1>13. ASSUME NEW p \in Pid, StopSleeper(p) PROVE ClaimInv'
  <2>1. CASE Alive(seen[p]) /\ pc[p] = "stopSleeper" /\ Dies(seen[p].pid, [pc EXCEPT ![p] = "reread"])
    <3> DEFINE d == seen[p].pid
    <3>1. d \in Pid
      BY <2>1 DEF Alive, Holder
    <3>2. \A q \in Pid : pc'[q] \in {"unclaim"} \cup Claimed => pc[q] = pc'[q] /\ ino'[q] = ino[q] /\ q # d
      BY <2>1, <3>1 DEF Dies
    <3>3. claim' = claim
      BY <2>1 DEF Dies
    <3> QED
      BY <3>2, <3>3
  <2> QED
    BY <1>13, <2>1 DEF StopSleeper
<1>14. ASSUME NEW p \in Pid, Reread(p) \/ Unlink(p) PROVE ClaimInv'
  BY <1>14 DEF Reread, Unlink
<1>15. ASSUME NEW i \in Inode, DeleteStrandedClaim(i) PROVE ClaimInv'
  BY <1>15 DEF DeleteStrandedClaim, Stranded
<1>16. CASE UNCHANGED vars
  BY <1>16
<1> QED
  BY <1>1, <1>2, <1>3, <1>4, <1>5, <1>6, <1>7, <1>8, <1>9, <1>10, <1>11, <1>12, <1>13,
     <1>14, <1>15, <1>16 DEF Next, Step

(* From the check of its claim to the rename, the payload a reclaim judges stays as *)
(* it is: its claim is a link, and no file is staged in an inode that has a link    *)
(* (the claim of replaceDead).                                                      *)
THEOREM ClaimsPin == Spec => ClaimPinsTheDeadLock
<1> DEFINE Pins == \A p \in Pid :
             /\ pc[p] \in {"judge", "reprobe", "confirm", "rename"}
             /\ pc'[p] # "off"
             => payload'[ino[p]] = payload[ino[p]]
<1>1. Init => PinInv
  BY TypedInit DEF Init, PinInv, ClaimInv, Claimed
<1>2. PinInv /\ [Next]_vars => [Pins]_vars
  <2> SUFFICES ASSUME PinInv, [Next]_vars, NEW p \in Pid,
                      pc[p] \in {"judge", "reprobe", "confirm", "rename"}
               PROVE  payload'[ino[p]] = payload[ino[p]]
    OBVIOUS
  <2>1. ino[p] \in Inode /\ Linked(ino[p])
    BY DEF PinInv, Typed, InodeKnown, ClaimInv, Claimed, Linked
  <2>2. CASE \E q \in Pid : Stage(q)
    BY <2>1, <2>2 DEF Stage, PinInv, Typed, TypeOK
  <2>3. CASE UNCHANGED payload
    BY <2>3
  <2> QED
    BY <2>2, <2>3 DEF Next, Step, Spawn, Kill, Dies, LinkFree, LinkTaken, Read, Probe, Stat,
       Claim, ClaimRefused, CheckClaim, Judge, Reprobe, Confirm, Rename, Unclaim, Unstage, GiveUp,
       FsError, Release, CrashRelease, ReadHold, StopSleeper, Reread, Unlink,
       DeleteStrandedClaim, vars, fs
<1> QED
  BY <1>1, <1>2, PinStep, PTL DEF Spec, ClaimPinsTheDeadLock

SafeInv ==
    /\ Typed
    /\ ProcessInv
    /\ PayloadInv
    /\ ClaimInv
    /\ JudgedInv
    /\ LockInv

(* The safety of the lock rests on one induction: judged dead, pinned, still  *)
(* in place, hence replaced by the only process that may.                     *)
LEMMA SafeInvariant == OwnReleasesOnly => (Spec => []SafeInv)
<1> SUFFICES ASSUME OwnReleasesOnly PROVE Spec => []SafeInv
  OBVIOUS
<1> USE PidLockAssumption DEF OwnReleasesOnly
<1>1. Init => SafeInv
  <2> SUFFICES ASSUME Init PROVE SafeInv
    OBVIOUS
  <2>1. Typed
    BY TypedInit
  <2>2. ProcessInv /\ PayloadInv
    BY DEF Init, ProcessInv, ProcessOK, PayloadInv, Attempting, Claimed, Holder
  <2>3. ClaimInv /\ JudgedInv /\ LockInv
    BY DEF Init, ClaimInv, JudgedInv, LockInv, Claimed, Holds
  <2> QED
    BY <2>1, <2>2, <2>3 DEF SafeInv
<1>2. SafeInv /\ [Next]_vars => SafeInv'
  <2> SUFFICES ASSUME SafeInv, [Next]_vars PROVE SafeInv'
    OBVIOUS
  <2>0. Typed'
    BY TypedStep DEF SafeInv
  <2> USE <2>0 DEF SafeInv, Typed, TypeOK, InodeKnown, ProcessInv, ProcessOK,
        PayloadInv, ClaimInv, JudgedInv, LockInv, Dead, Holds, OwnsClaim, Holder, Self,
        HolderAt, Alive, Goto, Return, Attempting, Claimed, Location, Outcome,
        Linked, vars, fs, os, local
  <2>1. ASSUME NEW p \in Pid, Spawn(p) PROVE SafeInv'
    <3>1. ProcessInv'
      <4> SUFFICES ASSUME NEW q \in Pid PROVE ProcessOK(q)'
        BY DEF ProcessOK
      <4>1. CASE q = p
        <5>1. pc[p] = "off" /\ staged[p] \notin Inode
          BY <2>1 DEF Spawn
        <5>2. pc'[p] = "start" /\ p \in running' /\ staged' = staged
          BY <2>1 DEF Spawn
        <5> QED
          BY <4>1, <5>1, <5>2
      <4>2. CASE q # p
        BY <2>1, <4>2 DEF Spawn, ProcessOK
      <4> QED
        BY <4>1, <4>2
    <3>2. PayloadInv'
      BY <2>1 DEF Spawn
    <3>3. ClaimInv'
      BY <2>1 DEF Spawn
    <3>4. JudgedInv'
      BY <2>1 DEF Spawn
    <3>5. LockInv'
      BY <2>1 DEF Spawn
    <3> QED
      BY <3>1, <3>2, <3>3, <3>4, <3>5
  <2>2. ASSUME NEW p \in Pid, Kill(p) PROVE SafeInv'
    BY <2>2 DEF Kill, Dies
  <2>3. ASSUME NEW p \in Pid, Stage(p) PROVE SafeInv'
    BY <2>3 DEF Stage
  <2>4. ASSUME NEW p \in Pid, LinkFree(p) PROVE SafeInv'
    BY <2>4 DEF LinkFree
  <2>5. ASSUME NEW p \in Pid, LinkTaken(p) PROVE SafeInv'
    BY <2>5 DEF LinkTaken
  <2>6. ASSUME NEW p \in Pid, Read(p) PROVE SafeInv'
    BY <2>6 DEF Read
  <2>7. ASSUME NEW p \in Pid, Probe(p) PROVE SafeInv'
    BY <2>7 DEF Probe
  <2>8. ASSUME NEW p \in Pid, Stat(p) PROVE SafeInv'
    BY <2>8 DEF Stat
  <2>9. ASSUME NEW p \in Pid, Claim(p) PROVE SafeInv'
    BY <2>9 DEF Claim
  <2>10. ASSUME NEW p \in Pid, ClaimRefused(p) PROVE SafeInv'
    BY <2>10 DEF ClaimRefused
  <2>11. ASSUME NEW p \in Pid, CheckClaim(p) PROVE SafeInv'
    BY <2>11 DEF CheckClaim
  <2>12. ASSUME NEW p \in Pid, Judge(p) PROVE SafeInv'
    BY <2>12 DEF Judge
  <2>13. ASSUME NEW p \in Pid, Reprobe(p) PROVE SafeInv'
    BY <2>13 DEF Reprobe
  <2>14. ASSUME NEW p \in Pid, Confirm(p) PROVE SafeInv'
    BY <2>14 DEF Confirm
  <2>15. ASSUME NEW p \in Pid, Rename(p) PROVE SafeInv'
    BY <2>15 DEF Rename
  <2>16. ASSUME NEW p \in Pid, Unclaim(p) PROVE SafeInv'
    BY <2>16 DEF Unclaim
  <2>17. ASSUME NEW p \in Pid, Unstage(p) PROVE SafeInv'
    BY <2>17 DEF Unstage
  <2>18. ASSUME NEW p \in Pid, GiveUp(p) PROVE SafeInv'
    BY <2>18 DEF GiveUp
  <2>19. ASSUME NEW p \in Pid, FsError(p) PROVE SafeInv'
    BY <2>19 DEF FsError
  <2>20. ASSUME NEW p \in Pid, Release(p) PROVE SafeInv'
    BY <2>20 DEF Release
  <2>21. ASSUME NEW p \in Pid, CrashRelease(p) PROVE SafeInv'
    BY <2>21 DEF CrashRelease
  <2>22. ASSUME NEW p \in Pid, ReadHold(p) PROVE SafeInv'
    BY <2>22 DEF ReadHold
  <2>23. ASSUME NEW p \in Pid, StopSleeper(p) PROVE SafeInv'
    BY <2>23 DEF StopSleeper, Dies
  <2>24. ASSUME NEW p \in Pid, Reread(p) PROVE SafeInv'
    BY <2>24 DEF Reread
  <2>25. ASSUME NEW p \in Pid, Unlink(p) PROVE SafeInv'
    <3>1. ProcessInv'
      BY <2>25 DEF Unlink
    <3>2. PayloadInv'
      BY <2>25 DEF Unlink
    <3>3. ClaimInv'
      BY <2>25 DEF Unlink
    <3>4. HolderAt(lock) = Self(p) /\ p \in running /\ lock \in Inode
      BY <2>25 DEF Unlink
    <3>5. JudgedInv'
      <4>1. \A q \in Pid : pc[q] # "rename"
        BY <3>4
      <4> QED
        BY <2>25, <4>1 DEF Unlink
    <3>6. LockInv'
      <4>1. ASSUME NEW q \in Pid, Holds(q) \/ pc[q] = "unlink" PROVE q = p
        <5>1. Self(q) = Self(p)
          BY <3>4, <4>1
        <5> QED
          BY <5>1
      <4> QED
        BY <2>25, <4>1 DEF Unlink
    <3> QED
      BY <3>1, <3>2, <3>3, <3>5, <3>6
  <2>26. ASSUME NEW i \in Inode, DeleteStrandedClaim(i) PROVE SafeInv'
    BY <2>26 DEF DeleteStrandedClaim, Stranded
  <2>27. CASE UNCHANGED vars
    BY <2>27
  <2> QED
    BY <2>1, <2>2, <2>3, <2>4, <2>5, <2>6, <2>7, <2>8, <2>9, <2>10, <2>11,
       <2>12, <2>13, <2>14, <2>15, <2>16, <2>17, <2>18, <2>19, <2>20, <2>21,
       <2>22, <2>23, <2>24, <2>25, <2>26, <2>27 DEF Next, Step
<1> QED
  BY <1>1, <1>2, PTL DEF Spec

(* Mutual exclusion of the drain lock, for any number of supervisors. *)
THEOREM LockIsExclusive == OwnReleasesOnly => (Spec => []MutualExclusion)
<1>1. SafeInv => MutualExclusion
  <2> SUFFICES ASSUME SafeInv, NEW p \in Pid, NEW q \in Pid, Holds(p), Holds(q)
               PROVE  p = q
    BY DEF MutualExclusion
  <2>1. Self(p) = Self(q)
    BY DEF SafeInv, LockInv
  <2> QED
    BY <2>1 DEF Self
<1> QED
  BY <1>1, SafeInvariant, PTL

(* The lock path names the process that was told it has the lock. *)
THEOREM LockPathIsTruthful == OwnReleasesOnly => (Spec => []LockNamesItsHolder)
<1>1. SafeInv => LockNamesItsHolder
  BY DEF SafeInv, LockInv, LockNamesItsHolder
<1> QED
  BY <1>1, SafeInvariant, PTL

(* The check and the unlink of a release see the same lock. *)
THEOREM ReleaseIsOwnerChecked == OwnReleasesOnly => (Spec => RemovesOnlyWhatItRead)
<1>1. SafeInv /\ [Next]_vars =>
        [\A p \in Pid : Unlink(p) /\ lock # NoInode => HolderAt(lock) = seen[p]]_vars
  <2> SUFFICES ASSUME SafeInv, NEW p \in Pid, Unlink(p)
               PROVE  HolderAt(lock) = seen[p]
    OBVIOUS
  <2> QED
    BY DEF SafeInv, LockInv, Unlink, Goto
<1> QED
  BY <1>1, SafeInvariant, PTL DEF Spec, RemovesOnlyWhatItRead

-----------------------------------------------------------------------------
(* Which steps touch the lock path, and what they know when they do. *)
LEMMA LockPathSteps ==
    ASSUME OwnReleasesOnly, SafeInv, [Next]_vars, lock' # lock
    PROVE  \/ \E p \in Pid : LinkFree(p)
           \/ \E p \in Pid : Rename(p) /\ lock # NoInode /\ Dead(HolderAt(lock))
           \/ \E p \in Pid : Unlink(p) /\ HolderAt(lock) = Self(p) /\ p \in running
<1>1. \/ \E p \in Pid : LinkFree(p) \/ Rename(p) \/ Unlink(p)
  BY DEF Next, Step, Spawn, Kill, Dies, Stage, LinkTaken, Read, Probe, Stat, Claim,
     ClaimRefused, CheckClaim, Judge, Reprobe, Confirm, Unclaim, Unstage, GiveUp,
     FsError, Release, CrashRelease, ReadHold, StopSleeper, Reread,
     DeleteStrandedClaim, vars, fs, os, local
<1>2. ASSUME NEW p \in Pid, Rename(p) PROVE lock # NoInode /\ Dead(HolderAt(lock))
  BY <1>2, PidLockAssumption DEF SafeInv, JudgedInv, Typed, InodeKnown, TypeOK, Rename,
     Return, Goto, HolderAt, Claimed
<1>3. ASSUME NEW p \in Pid, Unlink(p) PROVE HolderAt(lock) = Self(p) /\ p \in running
  BY <1>3 DEF SafeInv, LockInv, ProcessInv, ProcessOK, Unlink, Goto
<1> QED
  BY <1>1, <1>2, <1>3

(* While a dead holder's lock is replaced the lock path is never free, and a  *)
(* live holder's lock is never replaced.                                      *)
THEOREM ReclaimIsInPlace == OwnReleasesOnly => (Spec => DeadLocksAreReplacedInPlace)
<1> SUFFICES ASSUME OwnReleasesOnly PROVE Spec => DeadLocksAreReplacedInPlace
  OBVIOUS
<1>1. SafeInv /\ SafeInv' /\ [Next]_vars =>
        [lock' # lock /\ lock # NoInode =>
           IF lock' = NoInode THEN Alive(HolderAt(lock))
           ELSE \A p \in running : HolderAt(lock) # Self(p)]_vars
  <2> SUFFICES ASSUME SafeInv, [Next]_vars, lock' # lock, lock # NoInode
               PROVE  IF lock' = NoInode THEN Alive(HolderAt(lock))
                      ELSE \A p \in running : HolderAt(lock) # Self(p)
    OBVIOUS
  <2>1. ASSUME NEW p \in Pid, LinkFree(p) PROVE FALSE
    BY <2>1 DEF LinkFree
  <2>2. ASSUME NEW p \in Pid, Rename(p), Dead(HolderAt(lock))
        PROVE  lock' # NoInode /\ \A q \in running : HolderAt(lock) # Self(q)
    BY <2>2, PidLockAssumption DEF Rename, Return, Goto, Dead, SafeInv, ProcessInv,
       ProcessOK, Attempting, Claimed
  <2>3. ASSUME NEW p \in Pid, Unlink(p), HolderAt(lock) = Self(p), p \in running
        PROVE  lock' = NoInode /\ Alive(HolderAt(lock))
    <3>1. Self(p) \in Holder /\ Self(p).pid = p
      BY DEF Self, Holder, SafeInv, Typed, TypeOK
    <3> QED
      BY <2>3, <3>1 DEF Unlink, Alive
  <2> QED
    BY <2>1, <2>2, <2>3, LockPathSteps
<1> QED
  BY <1>1, SafeInvariant, PTL DEF Spec, DeadLocksAreReplacedInPlace

-----------------------------------------------------------------------------
(* Refinement: the file system implements the register. *)

(* What the register sees depends on the lock path, the payload at it, the    *)
(* live processes and who was told `acquired'.                                *)
LEMMA SameRegister ==
    ASSUME lock' = lock, HolderAt(lock)' = HolderAt(lock), UNCHANGED os,
           \A p \in Pid : (pc[p] = "held") <=> (pc[p] = "held")'
    PROVE  UNCHANGED Register!registerVars
<1>1. LockOwner' = LockOwner
  BY DEF LockOwner, NoOwner
<1>2. LiveProcesses' = LiveProcesses
  BY DEF LiveProcesses, Self, os
<1>3. ToldAcquired' = ToldAcquired
  BY DEF ToldAcquired, Self, os
<1> QED
  BY <1>1, <1>2, <1>3 DEF Register!registerVars

(* Callers may reason with a register that changes hands in one step. *)
THEOREM LockRefinesRegister == OwnReleasesOnly => (Spec => ImplementsRegister)
<1> SUFFICES ASSUME OwnReleasesOnly PROVE Spec => ImplementsRegister
  OBVIOUS
<1>1. Init => Register!RegisterInit
  BY PidLockAssumption DEF Init, Register!RegisterInit, LockOwner, NoOwner, HolderAt,
     LiveProcesses, ToldAcquired
<1>2. SafeInv /\ [Next]_vars => [Register!RegisterNext]_(Register!registerVars)
  <2> SUFFICES ASSUME SafeInv, [Next]_vars
               PROVE  [Register!RegisterNext]_(Register!registerVars)
    OBVIOUS
  <2>0. /\ TypeOK
        /\ \A p \in Pid : Self(p) \in Holder
        /\ \A p, q \in Pid : Self(p) = Self(q) => p = q
    BY DEF SafeInv, Typed, TypeOK, Holder, Self
  <2>1. ASSUME NEW p \in Pid, Spawn(p) PROVE Register!RegisterNext
    <3> DEFINE x == [pid |-> p, startedAt |-> startedAt[p] + 1]
    <3>1. /\ Self(p)' = x /\ p \notin running /\ running' = running \cup {p}
          /\ \A q \in Pid \ {p} : Self(q)' = Self(q)
          /\ x \in Holder /\ \A q \in Pid \ {p} : x # Self(q)
          /\ pc' = [pc EXCEPT ![p] = "start"] /\ pc[p] = "off"
          /\ HolderAt(lock)' = HolderAt(lock)
      BY <2>0, <2>1, PidLockAssumption DEF Spawn, Goto, Self, TypeOK, Holder, fs, HolderAt
    <3>2. LiveProcesses' = LiveProcesses \cup {x} /\ x \notin LiveProcesses
      BY <2>0, <3>1 DEF LiveProcesses, TypeOK
    <3>3. ToldAcquired' = ToldAcquired
      BY <2>0, <3>1 DEF ToldAcquired, TypeOK
    <3>4. LockOwner' = LockOwner
      BY <3>1 DEF LockOwner, NoOwner
    <3> QED
      BY <3>1, <3>2, <3>3, <3>4 DEF Register!RegisterNext, Register!Start
  <2>2. ASSUME NEW p \in Pid, Kill(p) PROVE Register!RegisterNext
    <3>1. /\ p \in running /\ running' = running \ {p} /\ startedAt' = startedAt
          /\ pc' = [pc EXCEPT ![p] = "off"] /\ HolderAt(lock)' = HolderAt(lock)
      BY <2>2 DEF Kill, Dies, HolderAt
    <3>2. /\ LiveProcesses' = LiveProcesses \ {Self(p)} /\ Self(p) \in LiveProcesses
          /\ ToldAcquired' = ToldAcquired \ {Self(p)}
      BY <2>0, <3>1 DEF LiveProcesses, ToldAcquired, TypeOK, Self
    <3>3. LockOwner' = LockOwner
      BY <3>1 DEF LockOwner, NoOwner
    <3> QED
      BY <2>0, <3>2, <3>3 DEF Register!RegisterNext, Register!Die
  <2>3. ASSUME NEW p \in Pid, Stage(p) PROVE UNCHANGED Register!registerVars
    <3>1. HolderAt(lock)' = HolderAt(lock) /\ lock' = lock /\ UNCHANGED os
      BY <2>0, <2>3 DEF Stage, Linked, HolderAt, TypeOK
    <3>2. \A q \in Pid : (pc[q] = "held") <=> (pc[q] = "held")'
      BY <2>0, <2>3 DEF Stage, Goto, TypeOK
    <3> QED
      BY <3>1, <3>2, SameRegister
  <2>4. ASSUME NEW p \in Pid, LinkFree(p) \/ Rename(p) PROVE Register!RegisterNext
    <3>1. /\ lock' = staged[p] /\ staged[p] \in Inode /\ p \in running
          /\ payload' = payload /\ payload[staged[p]] = Self(p) /\ UNCHANGED os
      BY <2>4 DEF LinkFree, Rename, Return, Goto, SafeInv, ProcessInv, ProcessOK,
         Attempting, Claimed
    <3>2. LockOwner' = Self(p)
      BY <2>0, <3>1, PidLockAssumption DEF LockOwner, HolderAt
    <3>3. LockOwner \notin LiveProcesses
      <4>1. LockOwner \in Holder => LockOwner = HolderAt(lock)
        BY PidLockAssumption DEF LockOwner, NoOwner
      <4>2. HolderAt(lock) \in Holder => Dead(HolderAt(lock))
        <5>1. CASE LinkFree(p)
          BY <5>1, PidLockAssumption DEF LinkFree, HolderAt
        <5>2. CASE Rename(p)
          BY <5>2, PidLockAssumption DEF Rename, Return, Goto, SafeInv, JudgedInv,
             Typed, InodeKnown, Claimed, HolderAt
        <5> QED
          BY <2>4, <5>1, <5>2
      <4> QED
        BY <2>0, <4>1, <4>2 DEF LiveProcesses, Dead, TypeOK
    <3>4. Self(p) \in LiveProcesses /\ LiveProcesses' = LiveProcesses
      BY <3>1 DEF LiveProcesses, Self, os
    <3>5. \A q \in Pid : (pc[q] = "held") <=> (pc[q] = "held")'
      BY <2>0, <2>4 DEF LinkFree, Rename, Return, Goto, TypeOK
    <3>6. ToldAcquired' = ToldAcquired
      BY <3>1, <3>5 DEF ToldAcquired, Self, os
    <3> QED
      BY <2>0, <3>2, <3>3, <3>4, <3>6 DEF Register!RegisterNext, Register!Take
  <2>5. ASSUME NEW p \in Pid, Unstage(p), outcome[p] = "acquired"
        PROVE  Register!RegisterNext
    <3>1. /\ HolderAt(lock) = Self(p) /\ p \in running
          /\ UNCHANGED <<fs, os>> /\ pc' = [pc EXCEPT ![p] = "held"]
      BY <2>5 DEF Unstage, Goto, SafeInv, LockInv, Holds, ProcessInv, ProcessOK
    <3>2. LockOwner = Self(p) /\ LockOwner' = LockOwner
      BY <2>0, <3>1 DEF LockOwner, NoOwner, HolderAt, fs
    <3>3. Self(p) \in LiveProcesses /\ LiveProcesses' = LiveProcesses
      BY <3>1 DEF LiveProcesses, Self, os
    <3>4. ToldAcquired' = ToldAcquired \cup {Self(p)}
      BY <2>0, <3>1 DEF ToldAcquired, Self, os, TypeOK
    <3> QED
      BY <2>0, <3>2, <3>3, <3>4 DEF Register!RegisterNext, Register!Enter
  <2>6. ASSUME NEW p \in Pid, Unstage(p), outcome[p] # "acquired"
        PROVE  UNCHANGED Register!registerVars
    <3>1. \A q \in Pid : (pc[q] = "held") <=> (pc[q] = "held")'
      BY <2>0, <2>6 DEF Unstage, Goto, TypeOK
    <3> QED
      BY <2>6, <3>1, SameRegister DEF Unstage, HolderAt, fs
  <2>7. ASSUME NEW p \in Pid, Release(p) PROVE Register!RegisterNext
    <3>1. /\ pc[p] = "held" /\ pc'[p] # "held" /\ UNCHANGED <<fs, os>>
          /\ \A q \in Pid \ {p} : pc'[q] = pc[q]
      BY <2>0, <2>7 DEF Release, Goto, TypeOK
    <3>2. LockOwner' = LockOwner /\ LiveProcesses' = LiveProcesses
      BY <3>1 DEF LockOwner, NoOwner, HolderAt, LiveProcesses, Self, fs, os
    <3>3. ToldAcquired' = ToldAcquired \ {Self(p)} /\ Self(p) \in ToldAcquired
      BY <2>0, <3>1 DEF ToldAcquired, Self, os
    <3> QED
      BY <2>0, <3>2, <3>3 DEF Register!RegisterNext, Register!Leave
  <2>8. ASSUME NEW p \in Pid, Unlink(p) PROVE Register!RegisterNext
    <3>1. /\ HolderAt(lock) = Self(p) /\ p \in running /\ pc[p] = "unlink"
          /\ lock' = NoInode /\ UNCHANGED os
          /\ \A q \in Pid : (pc[q] = "held") <=> (pc[q] = "held")'
      BY <2>0, <2>8 DEF Unlink, Goto, SafeInv, LockInv, ProcessInv, ProcessOK, TypeOK
    <3>2. LockOwner = Self(p) /\ LockOwner' = NoOwner
      BY <2>0, <3>1, PidLockAssumption DEF LockOwner, NoOwner, HolderAt
    <3>3. Self(p) \in LiveProcesses /\ LiveProcesses' = LiveProcesses
      BY <3>1 DEF LiveProcesses, Self, os
    <3>4. Self(p) \notin ToldAcquired /\ ToldAcquired' = ToldAcquired
      BY <2>0, <3>1 DEF ToldAcquired, Self, os
    <3> QED
      BY <2>0, <3>2, <3>3, <3>4 DEF Register!RegisterNext, Register!GiveBack
  <2>9. ASSUME NEW p \in Pid,
               \/ LinkTaken(p) \/ Read(p) \/ Probe(p) \/ Stat(p) \/ Claim(p)
               \/ ClaimRefused(p) \/ CheckClaim(p) \/ Judge(p) \/ Reprobe(p)
               \/ Confirm(p) \/ Unclaim(p) \/ GiveUp(p) \/ FsError(p)
        PROVE  UNCHANGED Register!registerVars
    <3>1. UNCHANGED <<lock, payload, os>>
      BY <2>9 DEF LinkTaken, Read, Probe, Stat, Claim, ClaimRefused, CheckClaim, Judge,
         Reprobe, Confirm, Unclaim, GiveUp, FsError, fs, os, local
    <3>2. \A q \in Pid : (pc[q] = "held") <=> (pc[q] = "held")'
      BY <2>0, <2>9 DEF LinkTaken, Read, Probe, Stat, Claim, ClaimRefused, CheckClaim,
         Judge, Reprobe, Confirm, Unclaim, GiveUp, FsError, Goto, Return, TypeOK,
         Attempting, Claimed
    <3> QED
      BY <3>1, <3>2, SameRegister DEF HolderAt
  <2>10. ASSUME NEW p \in Pid,
                CrashRelease(p) \/ ReadHold(p) \/ StopSleeper(p) \/ Reread(p)
         PROVE  FALSE
    BY <2>10 DEF OwnReleasesOnly, CrashRelease, ReadHold, StopSleeper, Reread, Goto,
       SafeInv, ProcessInv, ProcessOK
  <2>11. CASE UNCHANGED vars \/ \E i \in Inode : DeleteStrandedClaim(i)
    BY <2>11, SameRegister DEF DeleteStrandedClaim, HolderAt, vars, fs, os
  <2> QED
    BY <2>1, <2>2, <2>3, <2>4, <2>5, <2>6, <2>7, <2>8, <2>9, <2>10, <2>11
       DEF Next, Step
<1> QED
  BY <1>1, <1>2, SafeInvariant, PTL DEF Spec, ImplementsRegister, Register!RegisterSpec
=============================================================================
