------------------------------- MODULE PidLock -------------------------------
(***************************************************************************)
(* The pid lock every lock of the repository shares (core/pid-lock.ts) and *)
(* the owner-checked release of the drain lock (autonomous/drain-lock.ts). *)
(*                                                                         *)
(* One action is one file-system call or one liveness probe, so that every *)
(* interleaving of two processes, and a kill between any two calls, is a   *)
(* behaviour.  A file is an inode: the lock path, the claim paths and the  *)
(* staged files are hard links, and an inode is reused once no path links  *)
(* it.  A pid is reused too: its next process differs in `startedAt' only. *)
(***************************************************************************)
EXTENDS Naturals

CONSTANTS
    Pid,             \* the pids of the processes that use the lock
    Inode,           \* the inodes of the lock's directory
    MaxStarts,       \* bound: how many processes may get the same pid
    Sleepers,        \* the pids `ideas-lock acquire' names as holders (holdUntil)
    PidOnlyRelease,  \* may a crash handler call releaseLock(cwd) with no token?
    NoInode,         \* no file at a path
    Absent,          \* readHolder: no lock file
    Unreadable       \* readHolder: a file that is no holder payload

(* The payload of a lock file: `startedAt' tells two processes of a pid apart. *)
Holder == [pid : Pid, startedAt : 0..MaxStarts]

ASSUME PidLockAssumption ==
    /\ MaxStarts \in Nat
    /\ Sleepers \subseteq Pid
    /\ PidOnlyRelease \in BOOLEAN
    /\ NoInode \notin Inode
    /\ Absent \notin Holder /\ Unreadable \notin Holder /\ Absent # Unreadable

VARIABLES
    lock,      \* the inode at the lock path
    claim,     \* claim[i]: the inode at the path `<lock>.reclaim.<i>'
    payload,   \* payload[i]: the content of inode i
    leaked,    \* the inodes of staged files nobody will remove any more
    running,   \* the pids of live processes
    startedAt, \* startedAt[p]: the number of processes pid p has had
    pc,        \* pc[p]: the next call of process p
    staged,    \* staged[p]: the inode of p's staged file
    ino,       \* ino[p]: the inode statSync(lockPath) gave replaceDead
    seen,      \* seen[p]: the holder p read last
    outcome    \* outcome[p]: the result tryAcquire is about to return

fs == <<lock, claim, payload, leaked>>
os == <<running, startedAt>>
local == <<staged, ino, seen, outcome>>
vars == <<fs, os, pc, local>>

(* Where an attempt may be: before, while and after it owns a claim. *)
Claimed == {"checkClaim", "judge", "reprobe", "confirm", "rename"}
Attempting == {"link", "read", "relink", "stat", "claim"} \cup Claimed
Location ==
    {"off", "start", "wait", "probe", "unclaim", "unstage", "held", "done",
     "unlink", "stopSleeper", "reread"} \cup Attempting
Outcome == {"none", "acquired", "own", "held", "failed"}

Self(p) == [pid |-> p, startedAt |-> startedAt[p]]

(* The liveness probe (isAlive): a reused pid looks alive. *)
Alive(h) == h \in Holder /\ h.pid \in running

HolderAt(i) == IF i = NoInode THEN Absent ELSE payload[i]

Linked(i) ==
    \/ i = lock \/ i \in leaked
    \/ \E j \in Inode : claim[j] = i
    \/ \E p \in Pid : staged[p] = i

TypeOK ==
    /\ lock \in Inode \cup {NoInode}
    /\ claim \in [Inode -> Inode \cup {NoInode}]
    /\ payload \in [Inode -> Holder \cup {Unreadable}]
    /\ leaked \subseteq Inode
    /\ running \subseteq Pid
    /\ startedAt \in [Pid -> 0..MaxStarts]
    /\ pc \in [Pid -> Location]
    /\ staged \in [Pid -> Inode \cup {NoInode}]
    /\ ino \in [Pid -> Inode \cup {NoInode}]
    /\ seen \in [Pid -> Holder \cup {Absent, Unreadable}]
    /\ outcome \in [Pid -> Outcome]

(* No process yet; the lock path is free or holds a file that is no payload. *)
Init ==
    /\ lock \in Inode \cup {NoInode}
    /\ claim = [i \in Inode |-> NoInode]
    /\ payload = [i \in Inode |-> Unreadable]
    /\ leaked = {}
    /\ running = {}
    /\ startedAt = [p \in Pid |-> 0]
    /\ pc = [p \in Pid |-> "off"]
    /\ staged = [p \in Pid |-> NoInode]
    /\ ino = [p \in Pid |-> NoInode]
    /\ seen = [p \in Pid |-> Absent]
    /\ outcome = [p \in Pid |-> "none"]

Goto(p, from, to) == pc[p] = from /\ pc' = [pc EXCEPT ![p] = to]

(* tryAcquire is about to return r: its `using' declarations are disposed of *)
(* first, the claim when replaceDead holds one, then the staged file.        *)
Return(p, from, r) ==
    /\ Goto(p, from, IF from \in Claimed THEN "unclaim" ELSE "unstage")
    /\ outcome' = [outcome EXCEPT ![p] = r]

-----------------------------------------------------------------------------
(* Processes come and go.  A kill runs no handler: the staged file stays, and *)
(* so does a claim.                                                           *)

Spawn(p) ==
    /\ p \notin running /\ startedAt[p] < MaxStarts
    /\ Goto(p, "off", "start")
    /\ running' = running \cup {p}
    /\ startedAt' = [startedAt EXCEPT ![p] = @ + 1]
    /\ UNCHANGED <<fs, local>>

(* What the death of p leaves; `next' is pc after it. *)
Dies(p, next) ==
    /\ running' = running \ {p}
    /\ leaked' = leaked \cup ({staged[p]} \ {NoInode})
    /\ staged' = [staged EXCEPT ![p] = NoInode]
    /\ ino' = [ino EXCEPT ![p] = NoInode]
    /\ seen' = [seen EXCEPT ![p] = Absent]
    /\ outcome' = [outcome EXCEPT ![p] = "none"]
    /\ pc' = [next EXCEPT ![p] = "off"]
    /\ UNCHANGED <<lock, claim, payload, startedAt>>

Kill(p) == p \in running /\ Dies(p, pc)

-----------------------------------------------------------------------------
(* tryAcquire and publish. *)

Stage(p) ==
    /\ \/ Goto(p, "start", "link")
       \/ Goto(p, "wait", "link")
    /\ \E i \in Inode :
         /\ ~Linked(i)
         /\ staged' = [staged EXCEPT ![p] = i]
         /\ payload' = [payload EXCEPT ![i] = Self(p)]
    /\ outcome' = [outcome EXCEPT ![p] = "none"]
    /\ UNCHANGED <<lock, claim, leaked, os, ino, seen>>

(* linkIfAbsent(staged, lockPath) succeeds. *)
LinkFree(p) ==
    /\ lock = NoInode
    /\ \/ Return(p, "link", "acquired")
       \/ Return(p, "relink", "acquired")
    /\ lock' = staged[p]
    /\ UNCHANGED <<claim, payload, leaked, os, staged, ino, seen>>

(* EEXIST: the first link goes on to read the holder, the second gives up. *)
LinkTaken(p) ==
    /\ lock # NoInode
    /\ \/ Goto(p, "link", "read") /\ UNCHANGED outcome
       \/ Return(p, "relink", "held")
    /\ UNCHANGED <<fs, os, staged, ino, seen>>

Read(p) ==
    /\ LET h == HolderAt(lock) IN
         /\ seen' = [seen EXCEPT ![p] = h]
         /\ \/ h = Absent /\ Goto(p, "read", "relink") /\ UNCHANGED outcome
            \/ h = Unreadable /\ Goto(p, "read", "stat") /\ UNCHANGED outcome
            \/ h \in Holder /\ h.pid = p /\ Return(p, "read", "own")
            \/ h \in Holder /\ h.pid # p /\ Goto(p, "read", "probe") /\ UNCHANGED outcome
    /\ UNCHANGED <<fs, os, staged, ino>>

(* Mutant: a lock that exists is a lock that is held. *)
NeverProbe(p) ==
    /\ Return(p, "probe", "held")
    /\ UNCHANGED <<fs, os, staged, ino, seen>>

Probe(p) ==
    /\ \/ Alive(seen[p]) /\ Return(p, "probe", "held")
       \/ ~Alive(seen[p]) /\ Goto(p, "probe", "stat") /\ UNCHANGED outcome
    /\ UNCHANGED <<fs, os, staged, ino, seen>>

-----------------------------------------------------------------------------
(* replaceDead: claim the dead holder's inode, judge it again through the    *)
(* claim, confirm the lock is still that inode, rename the staged file over. *)

Stat(p) ==
    /\ ino' = [ino EXCEPT ![p] = lock]
    /\ \/ lock = NoInode /\ Return(p, "stat", "held")
       \/ lock # NoInode /\ Goto(p, "stat", "claim") /\ UNCHANGED outcome
    /\ UNCHANGED <<fs, os, staged, seen>>

(* Mutant: the claim does not exclude another claim. *)
SharedClaim(p) ==
    /\ Goto(p, "claim", "checkClaim")
    /\ lock # NoInode
    /\ claim' = [claim EXCEPT ![ino[p]] = lock]
    /\ UNCHANGED <<lock, payload, leaked, os, local>>

Claim(p) ==
    /\ Goto(p, "claim", "checkClaim")
    /\ lock # NoInode /\ claim[ino[p]] = NoInode
    /\ claim' = [claim EXCEPT ![ino[p]] = lock]
    /\ UNCHANGED <<lock, payload, leaked, os, local>>

(* EEXIST (another process's claim) or ENOENT (the lock is gone). *)
ClaimRefused(p) ==
    /\ Return(p, "claim", "held")
    /\ lock = NoInode \/ claim[ino[p]] # NoInode
    /\ UNCHANGED <<fs, os, staged, ino, seen>>

(* Mutant: the claim is not compared with the inode it is named after. *)
TrustClaim(p) ==
    /\ Goto(p, "checkClaim", "judge")
    /\ UNCHANGED <<fs, os, local>>

CheckClaim(p) ==
    /\ \/ Return(p, "checkClaim", "held") /\ claim[ino[p]] # ino[p]
       \/ Goto(p, "checkClaim", "judge") /\ claim[ino[p]] = ino[p] /\ UNCHANGED outcome
    /\ UNCHANGED <<fs, os, staged, ino, seen>>

Judge(p) ==
    /\ Goto(p, "judge", "reprobe")
    /\ seen' = [seen EXCEPT ![p] = HolderAt(claim[ino[p]])]
    /\ UNCHANGED <<fs, os, staged, ino, outcome>>

(* Mutant: the first probe is believed, the holder is not judged again. *)
BelieveFirstProbe(p) ==
    /\ Goto(p, "reprobe", "confirm")
    /\ UNCHANGED <<fs, os, local>>

Reprobe(p) ==
    /\ \/ Alive(seen[p]) /\ Return(p, "reprobe", "held")
       \/ ~Alive(seen[p]) /\ Goto(p, "reprobe", "confirm") /\ UNCHANGED outcome
    /\ UNCHANGED <<fs, os, staged, ino, seen>>

Confirm(p) ==
    /\ \/ lock # ino[p] /\ Return(p, "confirm", "held")
       \/ lock = ino[p] /\ Goto(p, "confirm", "rename") /\ UNCHANGED outcome
    /\ UNCHANGED <<fs, os, staged, ino, seen>>

(* Mutant: the dead lock is moved aside first and the path taken by a link. *)
MoveAside(p) ==
    /\ Goto(p, "rename", "relink")
    /\ lock' = NoInode
    /\ UNCHANGED <<claim, payload, leaked, os, local>>

Rename(p) ==
    /\ Return(p, "rename", "acquired")
    /\ lock' = staged[p]
    /\ staged' = [staged EXCEPT ![p] = NoInode]
    /\ UNCHANGED <<claim, payload, leaked, os, ino, seen>>

Unclaim(p) ==
    /\ Goto(p, "unclaim", "unstage")
    /\ claim' = [claim EXCEPT ![ino[p]] = NoInode]
    /\ UNCHANGED <<lock, payload, leaked, os, local>>

(* tryAcquire returns.  acquirePidLock polls on `held'; everything else ends *)
(* the wait.                                                                 *)
Unstage(p) ==
    /\ Goto(p, "unstage", IF outcome[p] = "acquired" THEN "held"
                          ELSE IF outcome[p] = "held" THEN "wait" ELSE "done")
    /\ staged' = [staged EXCEPT ![p] = NoInode]
    /\ ino' = [ino EXCEPT ![p] = NoInode]
    /\ seen' = [seen EXCEPT ![p] = Absent]
    /\ UNCHANGED <<fs, os, outcome>>

(* The deadline passes or the signal aborts while acquirePidLock sleeps;     *)
(* acquireLock, which asks once, refuses.                                    *)
GiveUp(p) ==
    /\ Goto(p, "wait", "done")
    /\ UNCHANGED <<fs, os, local>>

(* Mutant: a removal that fails is recorded even when there was no file. *)
LeakAbsentFile(p) ==
    /\ Goto(p, "unstage", "done")
    /\ outcome' = [outcome EXCEPT ![p] = "failed"]
    /\ leaked' = leaked \cup {staged[p]}
    /\ staged' = [staged EXCEPT ![p] = NoInode]
    /\ UNCHANGED <<lock, claim, payload, os, ino, seen>>

(* Any other file-system error ends the attempt as `failed', after the same  *)
(* disposals; a disposal that fails itself leaves its file behind, and turns *)
(* even an acquired lock into `failed'.                                      *)
FsError(p) ==
    /\ \/ /\ pc[p] \in Attempting \ {"reprobe"}
          /\ Return(p, pc[p], "failed")
          /\ UNCHANGED <<leaked, staged>>
       \/ /\ Goto(p, "unclaim", "unstage")
          /\ outcome' = [outcome EXCEPT ![p] = "failed"]
          /\ UNCHANGED <<leaked, staged>>
       \/ /\ Goto(p, "unstage", "done")
          /\ outcome' = [outcome EXCEPT ![p] = "failed"]
          /\ leaked' = leaked \cup ({staged[p]} \ {NoInode})
          /\ staged' = [staged EXCEPT ![p] = NoInode]
    /\ UNCHANGED <<lock, claim, payload, os, ino, seen>>

-----------------------------------------------------------------------------
(* Release: read the lock, compare the holder, remove the path. *)

(* releasePidLock, and releaseLock with a token: pid and startedAt match. *)
Release(p) ==
    /\ p \notin Sleepers
    /\ LET h == HolderAt(lock) IN
         /\ Goto(p, "held", IF h = Self(p) THEN "unlink" ELSE "done")
         /\ seen' = [seen EXCEPT ![p] = h]
    /\ UNCHANGED <<fs, os, staged, ino, outcome>>

(* The crash handler of the watcher, when main() threw before acquireLock. *)
CrashRelease(p) ==
    /\ PidOnlyRelease
    /\ LET h == HolderAt(lock) IN
         /\ Goto(p, "start", IF h \in Holder /\ h.pid = p THEN "unlink" ELSE "done")
         /\ seen' = [seen EXCEPT ![p] = h]
    /\ UNCHANGED <<fs, os, staged, ino, outcome>>

(* `ideas-lock release': read a hold, stop its sleeper, release in its name. *)
ReadHold(p) ==
    /\ Sleepers # {} /\ p \notin Sleepers
    /\ LET h == HolderAt(lock) IN
         /\ Goto(p, "start",
                 IF h \in Holder /\ h.pid \in Sleepers THEN "stopSleeper" ELSE "done")
         /\ seen' = [seen EXCEPT ![p] = h]
    /\ UNCHANGED <<fs, os, staged, ino, outcome>>

StopSleeper(p) ==
    \/ /\ Alive(seen[p])
       /\ pc[p] = "stopSleeper"
       /\ Dies(seen[p].pid, [pc EXCEPT ![p] = "reread"])
    \/ /\ ~Alive(seen[p])
       /\ Goto(p, "stopSleeper", "reread")
       /\ UNCHANGED <<fs, os, local>>

Reread(p) ==
    /\ Goto(p, "reread", IF HolderAt(lock) = seen[p] THEN "unlink" ELSE "done")
    /\ UNCHANGED <<fs, os, local>>

Unlink(p) ==
    /\ Goto(p, "unlink", "done")
    /\ lock' = NoInode
    /\ UNCHANGED <<claim, payload, leaked, os, local>>

-----------------------------------------------------------------------------
(* The operator deletes a claim that is still there a minute later, as the   *)
(* refusal says: the process that made it is dead, or failed to remove it.   *)
OwnsClaim(p, i) == pc[p] \in Claimed \cup {"unclaim"} /\ ino[p] = i

Stranded(i) == claim[i] # NoInode /\ \A p \in Pid : ~OwnsClaim(p, i)

DeleteStrandedClaim(i) ==
    /\ Stranded(i)
    /\ claim' = [claim EXCEPT ![i] = NoInode]
    /\ UNCHANGED <<lock, payload, leaked, os, pc, local>>

-----------------------------------------------------------------------------
(* The calls of a process that is in tryAcquire or in a release. *)
Step(p) ==
    \/ LinkFree(p) \/ LinkTaken(p) \/ Read(p) \/ Probe(p)
    \/ Stat(p) \/ Claim(p) \/ ClaimRefused(p) \/ CheckClaim(p) \/ Judge(p)
    \/ Reprobe(p) \/ Confirm(p) \/ Rename(p) \/ Unclaim(p) \/ Unstage(p)
    \/ StopSleeper(p) \/ Reread(p) \/ Unlink(p)

Next ==
    \/ \E p \in Pid :
         \/ Spawn(p) \/ Kill(p) \/ Stage(p) \/ Step(p) \/ GiveUp(p) \/ FsError(p)
         \/ Release(p) \/ CrashRelease(p) \/ ReadHold(p)
    \/ \E i \in Inode : DeleteStrandedClaim(i)

Spec == Init /\ [][Next]_vars

(* A process that is not killed keeps making its calls, and the poll timer   *)
(* of acquirePidLock fires: a waiting process asks again.                    *)
FairSpec == Spec /\ \A p \in Pid : WF_vars(Step(p)) /\ WF_vars(Stage(p))

-----------------------------------------------------------------------------
(* The lock works. *)

(* tryAcquire told p that the lock is p's, or is about to. *)
Holds(p) == pc[p] = "held" \/ (pc[p] \in {"unclaim", "unstage"} /\ outcome[p] = "acquired")

(* At most one process at a time has the lock (`one autonomous supervisor per *)
(* repo'): two starts, a start and a reclaim, or two reclaims never both win. *)
MutualExclusion == \A p, q \in Pid : Holds(p) /\ Holds(q) => p = q

(* What a process was told stays true on disk: while it has the lock, the     *)
(* lock path names it, so that every other start and the reconciliation pass  *)
(* see a live holder.                                                         *)
LockNamesItsHolder == \A p \in Pid : Holds(p) => HolderAt(lock) = Self(p)

(* A release removes the lock it read and no other: between the check and the *)
(* unlink of releasePidLock / releaseLock the path cannot change hands.       *)
RemovesOnlyWhatItRead ==
    [][\A p \in Pid : Unlink(p) /\ lock # NoInode => HolderAt(lock) = seen[p]]_vars

(* replaceDead's promise: `the path is never free' while a dead holder's lock *)
(* is replaced.  A lock disappears only by the hand of a live process it      *)
(* names, and gives way to another lock only when its holder is dead.         *)
DeadLocksAreReplacedInPlace ==
    [][lock' # lock /\ lock # NoInode =>
         IF lock' = NoInode THEN Alive(HolderAt(lock))
         ELSE \A p \in running : HolderAt(lock) # Self(p)]_vars

(* A claim keeps the inode it judges from being reused: from the check of the *)
(* claim to the rename, the payload judged dead stays that dead payload, even *)
(* when the lock path moves on and inodes are recycled.                       *)
ClaimPinsTheDeadLock ==
    [][\A p \in Pid :
         /\ pc[p] \in {"judge", "reprobe", "confirm", "rename"}
         /\ pc'[p] # "off"
         => payload'[ino[p]] = payload[ino[p]]]_vars

(* The lock of a dead holder does not outlast a waiter: a process that polls  *)
(* for ever finds, again and again, a lock that is free or live, or one whose *)
(* claim a dead process left behind (the noldor:cut of replaceDead).          *)
DeadLockIsReclaimed ==
    \A p \in Pid :
      []<>(pc[p] = "wait") =>
        []<>(\/ lock = NoInode
             \/ Alive(HolderAt(lock))
             \/ \E i \in Inode : i = lock /\ Stranded(i))
-----------------------------------------------------------------------------
(* The file system implements one register: the lock path names its owner,   *)
(* and garbage at the path counts as free.                                   *)
NoOwner == Unreadable

LockOwner == IF HolderAt(lock) \in Holder THEN HolderAt(lock) ELSE NoOwner

LiveProcesses == {Self(p) : p \in running}

ToldAcquired == {Self(p) : p \in {q \in Pid : pc[q] = "held"}}

Register ==
    INSTANCE LockRegister
        WITH Process <- Holder, Free <- NoOwner, owner <- LockOwner,
             live <- LiveProcesses, inside <- ToldAcquired

(* Every step of the file system is a step of the register or leaves it alone, *)
(* so its users may reason with a register that changes hands atomically.      *)
ImplementsRegister == Register!RegisterSpec
=============================================================================
