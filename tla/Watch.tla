-------------------------------- MODULE Watch --------------------------------
(***************************************************************************)
(* `noldor autonomous watch': cycle after cycle of the drain under the     *)
(* rails of watch-state.json (a daily cap, a limit of consecutive failed   *)
(* cycles), the sentinels .noldor/drain.pause and .noldor/drain-stop and   *)
(* SIGINT.  One process at a time holds the drain lock (module PidLock);   *)
(* the watcher may be killed and started again.                            *)
(*                                                                         *)
(* runDrain (module DrainLoop) is seen through its result: what it ships   *)
(* and how it exits; mapCycle and the escalation inbox (module Inbox)      *)
(* through whether the cycle escalated anything new.                       *)
(***************************************************************************)
EXTENDS Naturals

CONSTANTS
    MaxPerDay,         \* maxFeaturesPerDay
    MaxFeatures,       \* --max-features: ships of one cycle
    MaxFailures,       \* maxConsecutiveFailures
    MaxStarts,         \* bound: watchers started
    MaxKills,          \* bound: watchers killed
    MaxLost            \* bound: saves of watch-state.json that fail

ASSUME WatchAssumption ==
    /\ MaxPerDay \in Nat \ {0} /\ MaxFeatures \in Nat \ {0} /\ MaxFailures \in Nat \ {0}
    /\ MaxStarts \in Nat /\ MaxKills \in Nat /\ MaxLost \in Nat

VARIABLES
    pauseFile, stopFile,   \* .noldor/drain.pause, .noldor/drain-stop
    disk,       \* watch-state.json
    sigint,     \* SIGINT was received by this watcher
    once,       \* --once: a single cycle
    pc,
    state,      \* the watch state in memory, loaded at the top of each cycle
    cycle,      \* the DrainResult, and whether mapCycle escalated anything
    starts, kills,
    lost,       \* saves of watch-state.json that failed
    dayShips,   \* history: ships of the cycles that began today
    streak      \* history: failed cycles of this watcher since its last good one

files == <<pauseFile, stopFile, disk>>
process == <<sigint, once, starts, kills>>
vars == <<files, process, lost, pc, state, cycle, dayShips, streak>>

WatchState == [day : {"today", "past"}, shipped : Nat, failures : Nat]

NoState == [day |-> "past", shipped |-> 0, failures |-> 0]

NoCycle == [exit |-> "none", shipped |-> 0, escalated |-> FALSE]

TypeOK ==
    /\ pauseFile \in BOOLEAN /\ stopFile \in BOOLEAN /\ sigint \in BOOLEAN /\ once \in BOOLEAN
    /\ disk \in WatchState /\ state \in WatchState
    /\ pc \in {"off", "top", "drain", "map", "judge", "reconcile"}
    /\ cycle \in [exit : {"none", "0", "1", "130"}, shipped : 0..MaxFeatures,
                  escalated : BOOLEAN]
    /\ starts \in 0..MaxStarts /\ kills \in 0..MaxKills /\ lost \in 0..MaxLost
    /\ dayShips \in Nat /\ streak \in Nat

Init ==
    /\ pauseFile = FALSE /\ stopFile = FALSE /\ sigint = FALSE /\ once = FALSE
    /\ disk = [day |-> "today", shipped |-> 0, failures |-> 0]
    /\ pc = "off" /\ state = NoState /\ cycle = NoCycle
    /\ starts = 0 /\ kills = 0 /\ lost = 0
    /\ dayShips = 0 /\ streak = 0

Goto(from, to) == pc = from /\ pc' = to

(* The process is gone, and what it had in memory. *)
Exits(from) ==
    /\ Goto(from, "off")
    /\ state' = NoState /\ cycle' = NoCycle /\ streak' = 0

(* The daemon sleeps and begins another cycle. *)
Sleeps(from) == Goto(from, "top") /\ state' = NoState /\ cycle' = NoCycle

-----------------------------------------------------------------------------
(* acquireLock, and the startup-only clear of a stale stop sentinel. *)
Start ==
    /\ Goto("off", "top")
    /\ starts < MaxStarts /\ starts' = starts + 1
    /\ stopFile' = FALSE /\ sigint' = FALSE /\ once' \in BOOLEAN
    /\ UNCHANGED <<pauseFile, disk, kills, lost, state, cycle, dayShips, streak>>

(* SIGKILL, SIGTERM or a crash, anywhere. *)
Kill ==
    /\ pc # "off" /\ Exits(pc)
    /\ kills < MaxKills /\ kills' = kills + 1
    /\ UNCHANGED <<files, sigint, once, starts, lost, dayShips>>

(* Mutant: the counter is the process's own and starts at zero. *)
CountsThisProcessOnly == [disk EXCEPT !.day = "today", !.shipped = 0]

(* loadWatchState: a new day rolls the counter. *)
Loaded == IF disk.day = "today" THEN disk ELSE [disk EXCEPT !.day = "today", !.shipped = 0]

Capped == Loaded.shipped >= MaxPerDay

(* Mutant: the pause is looked at before the interrupt. *)
PauseFirst ==
    /\ Exits("top")
    /\ (sigint /\ ~pauseFile) \/ (once /\ (pauseFile \/ Capped))
    /\ UNCHANGED <<files, process, lost, dayShips>>

(* SIGINT, or a single cycle that finds the pause or a spent day; the daemon *)
(* sleeps and looks again.                                                   *)
LeavesAtTop ==
    /\ Exits("top")
    /\ sigint \/ (once /\ (pauseFile \/ Capped))
    /\ UNCHANGED <<files, process, lost, dayShips>>

(* The cycle-start reconciliation of the prior run, which may throw. *)
BeginCycle(reconciles) ==
    /\ Goto("top", IF reconciles THEN "drain" ELSE "reconcile")
    /\ ~sigint /\ ~pauseFile /\ ~Capped
    /\ state' = Loaded
    /\ UNCHANGED <<files, process, lost, cycle, dayShips, streak>>

-----------------------------------------------------------------------------
(* The drain. *)

Stopping == sigint \/ stopFile \/ pauseFile

Ship ==
    /\ pc = "drain" /\ ~Stopping /\ cycle.shipped < MaxFeatures
    /\ cycle' = [cycle EXCEPT !.shipped = @ + 1]
    /\ dayShips' = IF state.day = "today" THEN dayShips + 1 ELSE dayShips
    /\ UNCHANGED <<files, process, lost, pc, state, streak>>

(* An abort (1) may come at any time; a stop (130) wins over 0. *)
DrainEnds(exit) ==
    /\ Goto("drain", "map")
    /\ exit = "0" => ~Stopping
    /\ exit = "130" => Stopping
    /\ cycle' = [cycle EXCEPT !.exit = exit]
    /\ UNCHANGED <<files, process, lost, state, dayShips, streak>>

-----------------------------------------------------------------------------
(* The rails. *)

Neutral(c) == c.exit = "130"

Failed(c) == c.exit = "1" \/ (c.exit = "0" /\ c.shipped = 0 /\ c.escalated)

(* Mutant: a cycle without ships is no failure. *)
OnlyAbortsCount(s, c) ==
    CASE Neutral(c)    -> IF c.shipped > 0 THEN 0 ELSE s.failures
      [] c.exit = "1"  -> s.failures + 1
      [] OTHER         -> 0

(* applyCycleToState. *)
NextFailures(s, c) ==
    CASE Neutral(c)  -> IF c.shipped > 0 THEN 0 ELSE s.failures
      [] Failed(c)   -> s.failures + 1
      [] OTHER       -> 0

(* saveWatchState is best-effort: a write that fails is logged and forgotten, *)
(* and the next cycle loads what the file held before.                        *)
Saves(next) ==
    \/ disk' = next /\ UNCHANGED lost
    \/ lost < MaxLost /\ lost' = lost + 1 /\ UNCHANGED disk

(* The cycle is mapped and its state saved, before the watcher looks at what *)
(* it means in the state it has in memory.                                   *)
Rails(news) ==
    LET c == [cycle EXCEPT !.escalated = news]
        next == [state EXCEPT !.failures = NextFailures(state, c), !.shipped = @ + c.shipped]
    IN  /\ Goto("map", "judge")
        /\ cycle' = c /\ state' = next /\ Saves(next)
        /\ streak' = IF Failed(c) THEN streak + 1
                     ELSE IF Neutral(c) /\ c.shipped = 0 THEN streak ELSE 0
        /\ UNCHANGED <<pauseFile, stopFile, process, dayShips>>

(* Mutant: a stop is taken for a pause. *)
StopsLikeAPause == Neutral(cycle) /\ sigint

(* resolve130: SIGINT, then the pause (which holds), else the stop sentinel. *)
StopsHere == Neutral(cycle) /\ (sigint \/ ~pauseFile)

Tripped == state.failures >= MaxFailures

(* A trip: the pause file, whose write is best-effort too, a row of the inbox, *)
(* exit 1.                                                                     *)
Trips ==
    /\ Exits("judge")
    /\ ~StopsHere /\ Tripped
    /\ pauseFile' \in {TRUE, pauseFile}
    /\ UNCHANGED <<stopFile, disk, process, lost, dayShips>>

EndCycle ==
    /\ StopsHere \/ ~Tripped
    /\ IF StopsHere \/ once THEN Exits("judge") ELSE Sleeps("judge") /\ UNCHANGED streak
    /\ UNCHANGED <<files, process, lost, dayShips>>

(* A divergence trips at once, any other failure as the last of its streak; *)
(* neither saves the count.                                                 *)
ReconcileTrips ==
    /\ Exits("reconcile")
    /\ pauseFile' \in {TRUE, pauseFile}
    /\ UNCHANGED <<stopFile, disk, process, lost, dayShips>>

(* It rides the failure rail like a failed cycle. *)
ReconcileRetries ==
    /\ state.failures + 1 < MaxFailures
    /\ Saves([state EXCEPT !.failures = @ + 1])
    /\ IF once THEN Exits("reconcile") ELSE Sleeps("reconcile") /\ streak' = streak + 1
    /\ UNCHANGED <<pauseFile, stopFile, process, dayShips>>

-----------------------------------------------------------------------------
(* The operator and the calendar. *)

(* touch or rm of .noldor/drain.pause, touch of .noldor/drain-stop, SIGINT. *)
Operator ==
    /\ \/ pauseFile' = ~pauseFile /\ UNCHANGED <<stopFile, sigint>>
       \/ stopFile' = TRUE /\ UNCHANGED <<pauseFile, sigint>>
       \/ pc # "off" /\ sigint' = TRUE /\ UNCHANGED <<pauseFile, stopFile>>
    /\ UNCHANGED <<disk, once, starts, kills, lost, pc, state, cycle, dayShips, streak>>

NewDay ==
    /\ disk.day = "today" \/ state.day = "today"
    /\ disk' = [disk EXCEPT !.day = "past"]
    /\ state' = [state EXCEPT !.day = "past"]
    /\ dayShips' = 0
    /\ UNCHANGED <<pauseFile, stopFile, process, lost, pc, cycle, streak>>

-----------------------------------------------------------------------------
WatcherStep ==
    \/ LeavesAtTop
    \/ \E reconciles \in BOOLEAN : BeginCycle(reconciles)
    \/ Ship
    \/ \E exit \in {"0", "1", "130"} : DrainEnds(exit)
    \/ \E news \in BOOLEAN : Rails(news)
    \/ Trips \/ EndCycle
    \/ ReconcileTrips \/ ReconcileRetries

Next == Start \/ Kill \/ WatcherStep \/ Operator \/ NewDay

Spec == Init /\ [][Next]_vars

(* The watcher goes on, and days pass. *)
FairSpec == Spec /\ WF_vars(WatcherStep) /\ WF_vars(NewDay)

-----------------------------------------------------------------------------
(* The daily cap holds over restarts of the watcher, since the counter is kept *)
(* in watch-state.json: the ships of a day exceed it by less than one cycle's  *)
(* --max-features, and by one more cycle for each one that was not recorded,   *)
(* because its watcher was killed before or because the save failed            *)
(* (loadWatchState, saveWatchState).                                           *)
CapSurvivesRestarts == dayShips < MaxPerDay + MaxFeatures * (1 + kills + lost)

(* A watcher that saw MaxFailures failed cycles in a row begins no other one;  *)
(* failed reconciliations count, and neutral cycles do not end the row. Each   *)
(* save that failed costs at most one more failed cycle, and nothing else does *)
(* (applyCycleToState, saveWatchState and the reconcile rail of watch.ts).     *)
StreakTrips == pc = "drain" => streak < MaxFailures + lost

(* A stop sentinel ends the running watcher, at the latest when the day's cap  *)
(* is lifted, unless the operator pauses it (resolve130).                      *)
StopIsHonoured == stopFile /\ pc # "off" ~> pc = "off" \/ pauseFile

(* SIGINT ends the watcher wherever it is, paused included.                    *)
SigintEndsTheWatch == sigint /\ pc # "off" ~> pc = "off"
==============================================================================
