----------------------------- MODULE WatchProofs -----------------------------
(***************************************************************************)
(* What TLAPS proves of the watcher's rails for any cap, any limit of      *)
(* failures and any number of watchers started, killed and unable to save. *)
(***************************************************************************)
EXTENDS Watch, TLAPS

(* Every step of the watcher and its surroundings keeps the types. *)
THEOREM TypeCorrect == Spec => []TypeOK
<1>1. Init => TypeOK
  <2> SUFFICES ASSUME Init PROVE TypeOK
    OBVIOUS
  <2> USE WatchAssumption DEF Init
  <2>1. pauseFile \in BOOLEAN /\ stopFile \in BOOLEAN /\ sigint \in BOOLEAN /\ once \in BOOLEAN
    OBVIOUS
  <2>2. disk \in WatchState /\ state \in WatchState
    BY DEF WatchState, NoState
  <2>3. cycle \in [exit : {"none", "0", "1", "130"}, shipped : 0..MaxFeatures,
                  escalated : BOOLEAN]
    BY DEF NoCycle
  <2> QED
    BY <2>1, <2>2, <2>3 DEF TypeOK
<1>2. TypeOK /\ [Next]_vars => TypeOK'
  <2> SUFFICES ASSUME TypeOK, [Next]_vars PROVE TypeOK'
    OBVIOUS
  <2> USE WatchAssumption DEF TypeOK, WatchState, files, process
  <2>1. CASE Start
    <3>1. stopFile' \in BOOLEAN /\ sigint' \in BOOLEAN /\ once' \in BOOLEAN
      BY <2>1 DEF Start
    <3> QED
      BY <2>1, <3>1 DEF Start, Goto
  <2>2. CASE Kill
    BY <2>2 DEF Kill, Exits, Goto, NoState, NoCycle
  <2>3. CASE LeavesAtTop
    BY <2>3 DEF LeavesAtTop, Exits, Goto, NoState, NoCycle
  <2>4. ASSUME NEW reconciles \in BOOLEAN, BeginCycle(reconciles) PROVE TypeOK'
    BY <2>4 DEF BeginCycle, Goto, Loaded
  <2>5. CASE Ship
    BY <2>5 DEF Ship
  <2>6. ASSUME NEW exit \in {"0", "1", "130"}, DrainEnds(exit) PROVE TypeOK'
    BY <2>6 DEF DrainEnds, Goto
  <2>7. ASSUME NEW news \in BOOLEAN, Rails(news) PROVE TypeOK'
    <3> DEFINE c == [cycle EXCEPT !.escalated = news]
    <3>1. c \in [exit : {"none", "0", "1", "130"}, shipped : 0..MaxFeatures, escalated : BOOLEAN]
      OBVIOUS
    <3>2. NextFailures(state, c) \in Nat /\ c.shipped \in Nat
      <4>1. NextFailures(state, c) \in {0, state.failures, state.failures + 1}
        BY Zenon DEF NextFailures
      <4> QED
        BY <3>1, <4>1
    <3>3. [state EXCEPT !.failures = NextFailures(state, c), !.shipped = @ + c.shipped] \in WatchState
      <4>1. \A n, m \in Nat : [state EXCEPT !.failures = n, !.shipped = m] \in WatchState
        OBVIOUS
      <4>2. state.shipped + c.shipped \in Nat
        BY <3>2
      <4> QED
        BY <3>2, <4>1, <4>2
    <3> HIDE DEF c
    <3>4. disk' \in WatchState /\ state' \in WatchState /\ lost' \in 0..MaxLost
      <4>1. state' \in WatchState /\ Saves(state')
        BY <2>7, <3>3, Zenon DEF Rails, c
      <4> QED
        BY <4>1 DEF Saves
    <3> QED
      BY <2>7, <3>1, <3>4 DEF Rails, Goto, c
  <2>8. CASE Trips
    <3>1. pauseFile' \in BOOLEAN
      BY <2>8 DEF Trips
    <3> QED
      BY <2>8, <3>1 DEF Trips, Exits, Goto, NoState, NoCycle
  <2>9. CASE EndCycle
    <3>1. pc' \in {"off", "top"} /\ state' = NoState /\ cycle' = NoCycle /\ streak' \in Nat
      BY <2>9 DEF EndCycle, Exits, Sleeps, Goto
    <3> QED
      BY <2>9, <3>1 DEF EndCycle, NoState, NoCycle
  <2>10. CASE ReconcileTrips
    <3>1. pauseFile' \in BOOLEAN
      BY <2>10 DEF ReconcileTrips
    <3> QED
      BY <2>10, <3>1 DEF ReconcileTrips, Exits, Goto, NoState, NoCycle
  <2>11. CASE ReconcileRetries
    <3>2. disk' \in WatchState /\ lost' \in 0..MaxLost
      BY <2>11 DEF ReconcileRetries, Saves
    <3>1. pc' \in {"off", "top"} /\ state' = NoState /\ cycle' = NoCycle /\ streak' \in Nat
      BY <2>11 DEF ReconcileRetries, Exits, Sleeps, Goto
    <3> QED
      BY <2>11, <3>1, <3>2 DEF ReconcileRetries, NoState, NoCycle
  <2>12. CASE Operator
    <3>1. pauseFile' \in BOOLEAN /\ stopFile' \in BOOLEAN /\ sigint' \in BOOLEAN
      BY <2>12 DEF Operator
    <3> QED
      BY <2>12, <3>1 DEF Operator
  <2>13. CASE NewDay
    BY <2>13 DEF NewDay
  <2>14. CASE UNCHANGED vars
    BY <2>14 DEF vars
  <2> QED
    BY <2>1, <2>2, <2>3, <2>4, <2>5, <2>6, <2>7, <2>8, <2>9, <2>10, <2>11, <2>12, <2>13,
       <2>14 DEF Next, WatcherStep
<1> QED
  BY <1>1, <1>2, PTL DEF Spec

-----------------------------------------------------------------------------
(* The daily cap. *)

Draining == pc \in {"drain", "map"}

(* What the day's ships are made of: those on disk, and those of the cycle that is *)
(* under way and will be recorded for today.                                       *)
Recorded == IF disk.day = "today" THEN disk.shipped ELSE 0
UnderWay == IF Draining /\ state.day = "today" THEN cycle.shipped ELSE 0

(* A cycle works on what it loaded: while its day lasts the file does not change, and *)
(* a day that passed for the cycle has passed for the file.                           *)
LoadedInv ==
    /\ pc \in {"off", "top"} => cycle = NoCycle
    /\ Draining \/ pc = "reconcile" =>
         /\ state.shipped < MaxPerDay
         /\ disk.day = "today" => state.day = "today" /\ disk.shipped = state.shipped

CapInv ==
    /\ LoadedInv
    /\ disk.shipped < MaxPerDay + MaxFeatures
    /\ dayShips <= Recorded + UnderWay + MaxFeatures * (kills + lost)

LEMMA CapInit == Init => CapInv
  BY WatchAssumption DEF Init, CapInv, LoadedInv, Draining, Recorded, UnderWay

LEMMA CapStep == TypeOK /\ CapInv /\ [Next]_vars => CapInv'
<1> SUFFICES ASSUME TypeOK, CapInv, [Next]_vars PROVE CapInv'
  OBVIOUS
<1> DEFINE over == MaxFeatures * (kills + lost)
<1>0. over \in Nat
  BY WatchAssumption DEF TypeOK
<1>1. UNCHANGED <<kills, lost>> => MaxFeatures * (kills' + lost') = over
  OBVIOUS
<1> USE WatchAssumption DEF TypeOK, WatchState, CapInv, LoadedInv, Draining, Recorded,
        UnderWay, files, process
<1>2. CASE Start
  BY <1>0, <1>1, <1>2 DEF Start, Goto
<1>3. CASE Kill
  <2>1. MaxFeatures * (kills' + lost') = over + MaxFeatures
    BY <1>3 DEF Kill
  <2>2. UnderWay \in 0..MaxFeatures
    OBVIOUS
  <2> QED
    BY <1>0, <1>3, <2>1, <2>2 DEF Kill, Exits, Goto, NoCycle
<1>4. CASE LeavesAtTop
  BY <1>0, <1>1, <1>4 DEF LeavesAtTop, Exits, Goto, NoCycle
<1>5. ASSUME NEW reconciles \in BOOLEAN, BeginCycle(reconciles) PROVE CapInv'
  BY <1>0, <1>1, <1>5 DEF BeginCycle, Goto, Loaded, Capped, NoCycle
<1>6. CASE Ship
  BY <1>0, <1>1, <1>6 DEF Ship
<1>7. ASSUME NEW exit \in {"0", "1", "130"}, DrainEnds(exit) PROVE CapInv'
  BY <1>0, <1>1, <1>7 DEF DrainEnds, Goto
<1>8. ASSUME NEW news \in BOOLEAN, Rails(news) PROVE CapInv'
  <2>1. CASE UNCHANGED lost
    <3>1. /\ disk'.day = state.day /\ disk'.shipped = state.shipped + cycle.shipped
          /\ pc = "map" /\ pc' = "judge" /\ UNCHANGED <<kills, dayShips>>
      <4>1. disk' = [state EXCEPT !.failures = NextFailures(state, [cycle EXCEPT !.escalated = news]),
                             !.shipped = @ + [cycle EXCEPT !.escalated = news].shipped]
        BY <1>8, <2>1 DEF Rails, Saves
      <4>2. [cycle EXCEPT !.escalated = news].shipped = cycle.shipped
        OBVIOUS
      <4> QED
        BY <1>8, <4>1, <4>2 DEF Rails, Goto
    <3> QED
      BY <1>0, <1>1, <2>1, <3>1
  <2>2. CASE lost' = lost + 1 /\ UNCHANGED disk
    <3>1. MaxFeatures * (kills' + lost') = over + MaxFeatures
      BY <1>8, <2>2 DEF Rails
    <3>2. UnderWay \in 0..MaxFeatures
      OBVIOUS
    <3> QED
      BY <1>0, <1>8, <2>2, <3>1, <3>2 DEF Rails, Goto
  <2> QED
    BY <1>8, <2>1, <2>2 DEF Rails, Saves
<1>9. CASE Trips
  BY <1>0, <1>1, <1>9 DEF Trips, Exits, Goto, NoCycle
<1>10. CASE EndCycle
  BY <1>0, <1>1, <1>10 DEF EndCycle, Exits, Sleeps, Goto, NoCycle
<1>11. CASE ReconcileTrips
  BY <1>0, <1>1, <1>11 DEF ReconcileTrips, Exits, Goto, NoCycle
<1>12. CASE ReconcileRetries
  <2>1. CASE UNCHANGED lost
    BY <1>0, <1>1, <1>12, <2>1 DEF ReconcileRetries, Exits, Sleeps, Goto, NoCycle, Saves
  <2>2. CASE lost' = lost + 1 /\ UNCHANGED disk
    <3>1. MaxFeatures * (kills' + lost') = over + MaxFeatures
      BY <1>12, <2>2 DEF ReconcileRetries
    <3> QED
      BY <1>0, <1>12, <2>2, <3>1 DEF ReconcileRetries, Exits, Sleeps, Goto, NoCycle
  <2> QED
    BY <1>12, <2>1, <2>2 DEF ReconcileRetries, Saves
<1>13. CASE Operator
  BY <1>0, <1>1, <1>13 DEF Operator
<1>14. CASE NewDay
  BY <1>0, <1>1, <1>14 DEF NewDay
<1>15. CASE UNCHANGED vars
  BY <1>0, <1>1, <1>15 DEF vars
<1> QED
  BY <1>2, <1>3, <1>4, <1>5, <1>6, <1>7, <1>8, <1>9, <1>10, <1>11, <1>12, <1>13, <1>14,
     <1>15 DEF Next, WatcherStep

(* What is on disk and under way never reaches the cap plus a cycle, so that what *)
(* exceeds it comes of killed watchers and of failed saves.                       *)
LEMMA CapFollows == TypeOK /\ CapInv => CapSurvivesRestarts
<1> SUFFICES ASSUME TypeOK, CapInv PROVE CapSurvivesRestarts
  OBVIOUS
<1> USE WatchAssumption DEF TypeOK, WatchState, CapInv
<1>1. /\ MaxFeatures * (1 + kills + lost) = MaxFeatures + MaxFeatures * (kills + lost)
      /\ MaxFeatures * (kills + lost) \in Nat
  OBVIOUS
<1>2. Recorded + UnderWay < MaxPerDay + MaxFeatures
  BY DEF LoadedInv, Draining, Recorded, UnderWay
<1>3. Recorded \in Nat /\ UnderWay \in Nat
  BY DEF Recorded, UnderWay
<1> QED
  BY <1>1, <1>2, <1>3 DEF CapSurvivesRestarts

(* The daily cap holds over any number of restarts: a day's ships exceed it by less *)
(* than one cycle, and by one more cycle for each watcher that was killed and each  *)
(* save that failed (loadWatchState, applyCycleToState, saveWatchState).            *)
THEOREM DailyCapHolds == Spec => []CapSurvivesRestarts
<1> QED
  BY CapInit, CapStep, CapFollows, TypeCorrect, PTL DEF Spec

-----------------------------------------------------------------------------
(* The failure rail. *)

(* But for the saves that failed, the streak of this watcher is part of what the state *)
(* counts and of what the file holds, and it has not tripped where the watcher begins  *)
(* again. A cycle's count is the file's until it is saved.                             *)
StreakInv ==
    /\ pc = "off" => streak = 0
    /\ pc = "top" => streak < MaxFailures + lost
    /\ pc \in {"drain", "map", "reconcile"} =>
         streak < MaxFailures + lost /\ disk.failures = state.failures
    /\ pc \in {"top", "judge"} => streak <= disk.failures + lost
    /\ pc \notin {"off", "top"} => streak <= state.failures + lost

LEMMA StreakInit == Init => StreakInv
  BY WatchAssumption DEF Init, StreakInv

LEMMA StreakStep == TypeOK /\ StreakInv /\ [Next]_vars => StreakInv'
<1> SUFFICES ASSUME TypeOK, StreakInv, [Next]_vars PROVE StreakInv'
  OBVIOUS
<1> USE WatchAssumption DEF TypeOK, WatchState, StreakInv, files, process
<1>1. CASE Start
  BY <1>1 DEF Start, Goto
<1>2. CASE Kill
  BY <1>2 DEF Kill, Exits, Goto
<1>3. CASE LeavesAtTop
  BY <1>3 DEF LeavesAtTop, Exits, Goto
<1>4. ASSUME NEW reconciles \in BOOLEAN, BeginCycle(reconciles) PROVE StreakInv'
  BY <1>4 DEF BeginCycle, Goto, Loaded
<1>5. CASE Ship
  BY <1>5 DEF Ship
<1>6. ASSUME NEW exit \in {"0", "1", "130"}, DrainEnds(exit) PROVE StreakInv'
  BY <1>6 DEF DrainEnds, Goto
<1>7. ASSUME NEW news \in BOOLEAN, Rails(news) PROVE StreakInv'
  <2> DEFINE c == [cycle EXCEPT !.escalated = news]
  <2>1. /\ pc = "map" /\ pc' = "judge" /\ state'.failures = NextFailures(state, c)
        /\ streak' = IF Failed(c) THEN streak + 1
                     ELSE IF Neutral(c) /\ c.shipped = 0 THEN streak ELSE 0
    BY <1>7 DEF Rails, Goto
  <2>2. \/ disk' = state' /\ lost' = lost
        \/ disk' = disk /\ lost' = lost + 1
    BY <1>7 DEF Rails, Saves
  <2>3. streak' <= state'.failures + lost /\ streak' <= streak + 1 /\ streak' \in Nat
    <3>1. CASE Failed(c)
      <4>1. ~Neutral(c)
        BY <3>1 DEF Failed, Neutral
      <4>2. state'.failures = state.failures + 1 /\ streak' = streak + 1
        BY <2>1, <3>1, <4>1 DEF NextFailures
      <4> QED
        BY <2>1, <4>2
    <3>2. CASE ~Failed(c) /\ Neutral(c) /\ c.shipped = 0
      <4>1. state'.failures = state.failures /\ streak' = streak
        BY <2>1, <3>2 DEF NextFailures
      <4> QED
        BY <2>1, <4>1
    <3>3. CASE ~Failed(c) /\ ~(Neutral(c) /\ c.shipped = 0)
      <4>1. state'.failures = 0 /\ streak' = 0
        BY <2>1, <3>3 DEF NextFailures
      <4> QED
        BY <4>1
    <3> QED
      BY <3>1, <3>2, <3>3
  <2>4. streak <= disk.failures + lost /\ pc' = "judge"
    BY <2>1
  <2> HIDE DEF c
  <2>5. CASE disk' = state' /\ lost' = lost
    BY <2>3, <2>4, <2>5
  <2>6. CASE disk' = disk /\ lost' = lost + 1
    <3>1. state'.failures \in Nat
      <4>1. state'.failures = state.failures + 1 \/ state'.failures = state.failures \/ state'.failures = 0
        BY <2>1 DEF NextFailures
      <4> QED
        BY <4>1
    <3> QED
      BY <2>3, <2>4, <2>6, <3>1
  <2> QED
    BY <2>2, <2>5, <2>6
<1>8. CASE Trips
  BY <1>8 DEF Trips, Exits, Goto
<1>9. CASE EndCycle
  BY <1>9 DEF EndCycle, Exits, Sleeps, Goto, Tripped
<1>10. CASE ReconcileTrips
  BY <1>10 DEF ReconcileTrips, Exits, Goto
<1>11. CASE ReconcileRetries
  BY <1>11 DEF ReconcileRetries, Exits, Sleeps, Goto, Saves
<1>12. CASE Operator
  BY <1>12 DEF Operator
<1>13. CASE NewDay
  BY <1>13 DEF NewDay
<1>14. CASE UNCHANGED vars
  BY <1>14 DEF vars
<1> QED
  BY <1>1, <1>2, <1>3, <1>4, <1>5, <1>6, <1>7, <1>8, <1>9, <1>10, <1>11, <1>12, <1>13, <1>14
  DEF Next, WatcherStep

(* No watcher begins a drain after MaxFailures failed cycles or reconciliations in a *)
(* row and one more for each save that failed, whatever count it started from        *)
(* (applyCycleToState, saveWatchState, the reconcile rail).                          *)
THEOREM StreaksTrip == Spec => []StreakTrips
<1>1. StreakInv => StreakTrips
  BY DEF StreakInv, StreakTrips
<1> QED
  BY <1>1, StreakInit, StreakStep, TypeCorrect, PTL DEF Spec
==============================================================================
