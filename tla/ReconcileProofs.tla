---------------------------- MODULE ReconcileProofs ----------------------------
(***************************************************************************)
(* What TLAPS proves of startup reconciliation for any documents, runs and *)
(* faults.                                                                 *)
(***************************************************************************)
EXTENDS Reconcile, TLAPS

(* A supervisor that lives has begun a run. *)
Begun == phase # "off" => since =< run

(* Dispatched, landed, healed or pruned: a slug's tree and pull request keep their shape. *)
LEMMA SetIsTyped ==
    ASSUME NEW T, NEW f \in [Slug -> T], NEW s \in Slug, NEW x \in T
    PROVE  Set(f, s, x) \in [Slug -> T]
  BY DEF Set

LEMMA TypeInit == Init => TypeOK
<1> SUFFICES ASSUME Init PROVE TypeOK
  OBVIOUS
<1>1. origin \in [roadmap : SUBSET Slug, backlog : SUBSET Slug]
  BY DEF Init, Slug
<1>2. recycled \in BOOLEAN /\ late \in BOOLEAN
  BY DEF Init
<1>3. since \in 1..MaxRuns /\ run \in 0..MaxRuns /\ faults \in 0..MaxFaults
      /\ beat \in [run : 0..MaxRuns, agents : SUBSET Slug]
  BY ReconcileAssumption DEF Init, NoBeat
<1> QED
  BY <1>1, <1>2, <1>3 DEF Init, TypeOK, NoView

(* A process that stops, or a pass that begins again, leaves its scan and nothing else. *)
LEMMA LeavesTypes ==
    ASSUME TypeOK, NEW p \in {"off", "reap"}, Leaves(p),
           agents' \subseteq (1..MaxRuns) \X Slug, lost' \subseteq (1..MaxRuns) \X Slug,
           beat' \in [run : 0..MaxRuns, agents : SUBSET Slug],
           recycled' \in BOOLEAN, faults' \in 0..MaxFaults
    PROVE  TypeOK'
<1>1. late' \in BOOLEAN
  BY DEF Leaves
<1>2. /\ phase' \in {"off", "reap"} /\ run' \in 0..MaxRuns /\ since' \in 1..MaxRuns
      /\ doomed' \in Slug \cup {None} /\ todo' \subseteq Slug /\ DOMAIN view' = Slug
  BY DEF Leaves, TypeOK, NoView
<1>3. /\ origin' \in [roadmap : SUBSET Slug, backlog : SUBSET Slug]
      /\ local' \in [roadmap : SUBSET Slug, backlog : SUBSET Slug]
      /\ pr' \in [Slug -> {"none", "open", "conflict", "closed", "merged"}]
      /\ tree' \in [Slug -> {"none", "clean", "dirty"}] /\ sessions' \subseteq Slug
  BY DEF Leaves, hub, TypeOK
<1> QED
  BY <1>1, <1>2, <1>3 DEF TypeOK

LEMMA SupervisorTypes ==
    ASSUME TypeOK, Start \/ Killed \/ Terminated \/ PidRecycled \/ PidFreed \/ Throws
                   \/ Cycle \/ Aborts \/ Exit
    PROVE  TypeOK'
<1> USE ReconcileAssumption DEF Faulty, hub, scan, super
<1>1. CASE Start
  BY <1>1 DEF Start, TypeOK
<1>2. CASE Killed
  <2>1. lost' \subseteq (1..MaxRuns) \X Slug
    BY <1>2 DEF Killed, TypeOK, Mine
  <2>2. beat' \in [run : 0..MaxRuns, agents : SUBSET Slug]
    BY <1>2 DEF Killed, TypeOK, NoBeat
  <2>3. recycled' \in BOOLEAN
    BY <1>2 DEF Killed, TypeOK
  <2>4. faults' \in 0..MaxFaults /\ agents' \subseteq (1..MaxRuns) \X Slug /\ Leaves("off")
    BY <1>2 DEF Killed, TypeOK
  <2> QED
    BY <2>1, <2>2, <2>3, <2>4, LeavesTypes
<1>3. CASE Terminated
  <2>1. recycled' \in BOOLEAN
    BY <1>3 DEF Terminated, TypeOK
  <2>2. /\ faults' \in 0..MaxFaults /\ Leaves("off")
        /\ agents' \subseteq (1..MaxRuns) \X Slug /\ lost' \subseteq (1..MaxRuns) \X Slug
        /\ beat' \in [run : 0..MaxRuns, agents : SUBSET Slug]
    BY <1>3 DEF Terminated, TypeOK
  <2> QED
    BY <2>1, <2>2, LeavesTypes
<1>4. CASE PidRecycled
  BY <1>4 DEF PidRecycled, TypeOK
<1>5. CASE PidFreed
  BY <1>5 DEF PidFreed, TypeOK
<1>6. CASE Throws
  <2>1. recycled' \in BOOLEAN
    BY <1>6 DEF Throws, TypeOK
  <2>2. /\ faults' \in 0..MaxFaults /\ \E p \in {"off", "reap"} : Leaves(p)
        /\ agents' \subseteq (1..MaxRuns) \X Slug /\ lost' \subseteq (1..MaxRuns) \X Slug
        /\ beat' \in [run : 0..MaxRuns, agents : SUBSET Slug]
    BY <1>6 DEF Throws, TypeOK
  <2> QED
    BY <2>1, <2>2, LeavesTypes
<1>7. CASE Cycle
  BY <1>7 DEF Cycle, TypeOK
<1>8. CASE Aborts
  <2>1. lost' \subseteq (1..MaxRuns) \X Slug
    BY <1>8 DEF Aborts, TypeOK, Mine
  <2> QED
    BY <1>8, <2>1 DEF Aborts, TypeOK
<1>9. CASE Exit
  <2>1. recycled' \in BOOLEAN
    BY <1>9 DEF Exit, TypeOK
  <2>2. /\ faults' \in 0..MaxFaults /\ Leaves("off")
        /\ agents' \subseteq (1..MaxRuns) \X Slug /\ lost' \subseteq (1..MaxRuns) \X Slug
        /\ beat' \in [run : 0..MaxRuns, agents : SUBSET Slug]
    BY <1>9 DEF Exit, TypeOK
  <2> QED
    BY <2>1, <2>2, LeavesTypes
<1> QED
  BY <1>1, <1>2, <1>3, <1>4, <1>5, <1>6, <1>7, <1>8, <1>9

LEMMA LandsTypes ==
    ASSUME TypeOK, NEW s \in Slug, Lands(s)
    PROVE  /\ pr' \in [Slug -> {"none", "open", "conflict", "closed", "merged"}]
           /\ origin' \in [roadmap : SUBSET Slug, backlog : SUBSET Slug]
  BY SetIsTyped DEF Lands, TypeOK

LEMMA PassTypes ==
    ASSUME TypeOK, Pass
    PROVE  TypeOK'
<1> USE ReconcileAssumption DEF hub, scan, super
<1>1. CASE Reap
  BY <1>1 DEF Reap, TypeOK
<1>2. CASE Sync
  BY <1>2 DEF Sync, TypeOK
<1>3. CASE ListTrees
  BY <1>3 DEF ListTrees, TypeOK, NoView
<1>4. CASE Remove
  <2>1. tree' \in [Slug -> {"none", "clean", "dirty"}]
    BY <1>4, SetIsTyped DEF Remove, TypeOK
  <2> QED
    BY <1>4, <2>1 DEF Remove, TypeOK
<1>5. CASE Reconciled
  BY <1>5 DEF Reconciled, TypeOK
<1>6. CASE Record
  <2>1. Own \subseteq Slug
    BY DEF Own, Mine, TypeOK
  <2> QED
    BY <1>6, <2>1 DEF Record, TypeOK
<1>7. ASSUME NEW s \in Slug, Close(s) PROVE TypeOK'
  <2>1. pr' \in [Slug -> {"none", "open", "conflict", "closed", "merged"}]
    BY <1>7, SetIsTyped DEF Close, TypeOK
  <2> QED
    BY <1>7, <2>1 DEF Close, TypeOK
<1>8. ASSUME NEW s \in Slug, Merge(s) PROVE TypeOK'
  <2>1. /\ pr' \in [Slug -> {"none", "open", "conflict", "closed", "merged"}]
        /\ origin' \in [roadmap : SUBSET Slug, backlog : SUBSET Slug]
    BY <1>8, LandsTypes DEF Merge, TypeOK
  <2> QED
    BY <1>8, <2>1 DEF Merge, TypeOK
<1>9. ASSUME NEW s \in Slug, Probe(s) PROVE TypeOK'
  BY <1>9 DEF Probe, TypeOK
<1> QED
  BY <1>1, <1>2, <1>3, <1>4, <1>5, <1>6, <1>7, <1>8, <1>9 DEF Pass

LEMMA OthersTypes ==
    ASSUME TypeOK, Begun, NEW s \in Slug,
           Dispatch(s) \/ SessionOpens(s) \/ SessionEnds(s) \/ Shifts(s) \/ Gate(s)
    PROVE  TypeOK'
<1> USE ReconcileAssumption DEF hub, scan, super
<1>1. CASE Dispatch(s)
  <2>1. Own \subseteq Slug
    BY DEF Own, Mine, TypeOK
  <2>2. tree' \in [Slug -> {"none", "clean", "dirty"}]
    BY <1>1, SetIsTyped DEF Dispatch, TypeOK
  <2> QED
    <3>1. recycled' \in BOOLEAN
      BY <1>1 DEF Dispatch
    <3>2. late' \in BOOLEAN
      BY <1>1 DEF Dispatch, TypeOK
    <3>3. agents' \subseteq (1..MaxRuns) \X Slug
      <4>1. run \in 1..MaxRuns
        BY <1>1 DEF Dispatch, Begun, TypeOK
      <4> QED
        BY <1>1, <4>1 DEF Dispatch, TypeOK
    <3> QED
      BY <1>1, <2>1, <2>2, <3>1, <3>2, <3>3 DEF Dispatch, TypeOK
<1>2. CASE SessionOpens(s)
  <2>1. tree' \in [Slug -> {"none", "clean", "dirty"}]
    BY <1>2, SetIsTyped DEF SessionOpens, TypeOK
  <2> QED
    BY <1>2, <2>1 DEF SessionOpens, TypeOK
<1>3. CASE SessionEnds(s)
  BY <1>3 DEF SessionEnds, TypeOK
<1>4. CASE Shifts(s)
  <2>1. pr' \in [Slug -> {"none", "open", "conflict", "closed", "merged"}]
    BY <1>4, SetIsTyped DEF Shifts, TypeOK
  <2> QED
    BY <1>4, <2>1 DEF Shifts, TypeOK
<1>5. CASE Works(s)
  <2>1. tree' \in [Slug -> {"none", "clean", "dirty"}]
    <3>1. PICK t \in {"clean", "dirty"} : tree' = Set(tree, s, t)
      BY <1>5 DEF Works
    <3> QED
      BY <3>1, SetIsTyped DEF TypeOK
  <2>2. late' \in BOOLEAN
    BY <1>5 DEF Works, TypeOK
  <2> QED
    BY <1>5, <2>1, <2>2 DEF Works, TypeOK
<1>6. CASE Opens(s)
  <2>1. pr' \in [Slug -> {"none", "open", "conflict", "closed", "merged"}]
    BY <1>6, SetIsTyped DEF Opens, TypeOK
  <2> QED
    BY <1>6, <2>1 DEF Opens, TypeOK
<1>7. CASE LandsIt(s)
  BY <1>7, LandsTypes DEF LandsIt, TypeOK
<1> QED
  BY <1>1, <1>2, <1>3, <1>4, <1>5, <1>6, <1>7 DEF Gate

LEMMA TypeStep == TypeOK /\ Begun /\ [Next]_vars => TypeOK'
<1> SUFFICES ASSUME TypeOK, Begun, [Next]_vars PROVE TypeOK'
  OBVIOUS
<1>1. ASSUME NEW a \in agents, AgentEnds(a) PROVE TypeOK'
  <2>1. PICK t \in {"none", tree[a[2]]} : tree' = Set(tree, a[2], t)
    BY <1>1 DEF AgentEnds
  <2>2. a[2] \in Slug /\ t \in {"none", "clean", "dirty"}
    BY <1>1 DEF TypeOK
  <2>3. tree' \in [Slug -> {"none", "clean", "dirty"}]
    BY <2>1, <2>2, SetIsTyped DEF TypeOK
  <2> QED
    BY <1>1, <2>3 DEF AgentEnds, TypeOK, super, scan, hub
<1>2. BusyTrees \subseteq Slug
  BY DEF BusyTrees, TypeOK
<1>3. CASE UNCHANGED vars
  BY <1>3 DEF vars, super, scan, hub, TypeOK
<1> QED
  BY <1>1, <1>2, <1>3, SupervisorTypes, PassTypes, OthersTypes DEF Next

LEMMA BegunStep == TypeOK /\ Begun /\ [Next]_vars => Begun'
<1> SUFFICES ASSUME TypeOK, Begun, [Next]_vars PROVE Begun'
  OBVIOUS
<1> USE DEF Begun, hub, scan, super
<1>1. CASE Start
  BY <1>1 DEF Start, TypeOK
<1>2. CASE Killed \/ Terminated \/ Throws \/ Exit
  BY <1>2 DEF Killed, Terminated, Throws, Exit, Leaves
<1>3. CASE PidRecycled \/ PidFreed
  BY <1>3 DEF PidRecycled, PidFreed
<1>4. CASE Cycle \/ Aborts
  BY <1>4 DEF Cycle, Aborts, TypeOK
<1>5. CASE Pass
  BY <1>5 DEF Pass, Reap, Sync, ListTrees, Remove, Reconciled, Record, Close, Merge, Probe
<1>6. ASSUME NEW a \in agents, AgentEnds(a) PROVE Begun'
  BY <1>6 DEF AgentEnds
<1>7. ASSUME NEW s \in Slug, Dispatch(s) \/ SessionOpens(s) \/ SessionEnds(s) \/ Shifts(s)
      PROVE  Begun'
  BY <1>7 DEF Dispatch, SessionOpens, SessionEnds, Shifts
<1>8. ASSUME NEW s, Gate(s) PROVE Begun'
  BY <1>8 DEF Gate, Works, Opens, LandsIt
<1>9. CASE UNCHANGED vars
  BY <1>9 DEF vars
<1> QED
  BY <1>1, <1>2, <1>3, <1>4, <1>5, <1>6, <1>7, <1>8, <1>9 DEF Next

(* The state is well typed in every reachable state, whatever runs and faults there are *)
(* (the heartbeat that reconcileDeadRun reads, the worktrees and pull requests it acts  *)
(* on).                                                                                 *)
THEOREM TypeCorrect == Spec => []TypeOK
<1>1. Init => Begun
  BY DEF Init, Begun
<1> QED
  BY <1>1, TypeInit, TypeStep, BegunStep, PTL DEF Spec

-----------------------------------------------------------------------------
(* The agents of a dead run. *)

Live == agents \ lost

(* Where no drain run is on its way, whoever lives and can still be found is named by  *)
(* the heartbeat of a process that is dead and known to be; the others live in the run *)
(* of their supervisor, which starts them only after it has reaped.                    *)
Found ==
    /\ \A a \in agents : a[1] =< run
    /\ beat.run =< run
    /\ phase \in {"off", "reap"} =>
           \A a \in Live : /\ a[1] = beat.run /\ a[2] \in beat.agents /\ ~recycled
                           /\ phase = "reap" => beat.run < since
    /\ phase \notin {"off", "reap"} => \A a \in Live : a[1] = run
    /\ phase \in {"reap", "sync", "heal", "prune"} => \A a \in agents : a[1] # run

(* What the heartbeat says while a run is on its way (emitState before the first child, *)
(* onSpawn and the settlement after it).                                                *)
Named ==
    /\ phase = "spawned" => beat.run = run /\ ~recycled
    /\ phase = "work" => \A a \in agents :
           a[1] = run => beat.run = run /\ a[2] \in beat.agents /\ ~recycled

ReapInv == TypeOK /\ Begun /\ Found /\ Named

(* The agents of a run that is being healed or pruned are none at all. *)
LEMMA NobodyLeft ==
    ASSUME ReapInv, phase \in {"sync", "heal", "prune"}
    PROVE  Live = {}
  BY DEF ReapInv, Found, Live

LEMMA FoundInit == Init => Found /\ Named
  BY DEF Init, Found, Named, Live, NoBeat

(* What changes neither the supervisor nor the agents keeps the invariant. *)
LEMMA FoundElsewhere ==
    ASSUME Found, Named, UNCHANGED <<phase, run, since, beat, recycled, agents, lost>>
    PROVE  Found' /\ Named'
  BY DEF Found, Named, Live

LEMMA FoundStep == ReapInv /\ [Next]_vars => Found' /\ Named'
<1> SUFFICES ASSUME ReapInv, [Next]_vars PROVE Found' /\ Named'
  OBVIOUS
<1> USE DEF ReapInv, hub, scan, super
<1>0. /\ run \in Nat /\ since \in Nat /\ beat.run \in Nat /\ beat.agents \subseteq Slug
      /\ agents \subseteq (Nat \ {0}) \X Slug
  BY DEF TypeOK
<1>1. ASSUME Start PROVE Found' /\ Named'
  BY <1>0, <1>1 DEF Start, Found, Named, Live
<1>2. ASSUME Killed PROVE Found' /\ Named'
  <2>1. PICK torn \in BOOLEAN :
           /\ torn => phase = "spawned"
           /\ beat' = IF torn THEN NoBeat ELSE beat
           /\ lost' = lost \cup {a \in Mine : torn \/ a[2] \notin beat.agents}
    BY <1>2 DEF Killed
  <2>2. phase' = "off" /\ run' = run /\ agents' = agents /\ recycled' = recycled
    BY <1>2 DEF Killed, Leaves
  <2>3. Live' = {a \in Live : a[1] = run => ~torn /\ a[2] \in beat.agents}
    BY <2>1, <2>2 DEF Live, Mine
  <2>4. \A a \in Live' : /\ a[1] = beat.run /\ a[2] \in beat.agents /\ ~recycled
                         /\ beat' = beat
    <3> SUFFICES ASSUME NEW a \in Live'
                 PROVE  /\ a[1] = beat.run /\ a[2] \in beat.agents /\ ~recycled
                        /\ beat' = beat
      OBVIOUS
    <3>1. a \in Live /\ a \in agents
      BY <2>3 DEF Live
    <3>2. CASE phase = "reap"
      BY <2>1, <3>1, <3>2 DEF Found
    <3>3. CASE phase \in {"sync", "heal", "prune"}
      BY <3>1, <3>3, NobodyLeft
    <3>4. CASE phase \in {"work", "spawned"}
      BY <2>1, <2>3, <3>1, <3>4 DEF Found, Named
    <3> QED
      BY <1>2, <3>2, <3>3, <3>4 DEF Killed, TypeOK
  <2>5. beat'.run =< run
    BY <1>0, <2>1 DEF NoBeat, Found
  <2> QED
    BY <2>2, <2>4, <2>5 DEF Found, Named
<1>3. ASSUME Terminated PROVE Found' /\ Named'
  <2>1. Live' = {}
    <3> SUFFICES ASSUME NEW a \in Live' PROVE FALSE
      OBVIOUS
    <3>1. a \in Live /\ a \in agents /\ a \notin {<<beat.run, s>> : s \in beat.agents}
      BY <1>3 DEF Terminated, Live
    <3>2. a = <<a[1], a[2]>>
      BY <1>0, <3>1
    <3>3. phase \in {"sync", "heal", "prune"} \/ (a[1] = beat.run /\ a[2] \in beat.agents)
      BY <1>3, <3>1 DEF Terminated, Found, Named, TypeOK
    <3> QED
      BY <3>1, <3>2, <3>3, NobodyLeft
  <2> QED
    BY <1>3, <2>1 DEF Terminated, Leaves, Found, Named
<1>4. ASSUME PidRecycled PROVE Found' /\ Named'
  <2>1. Live' = {}
    BY <1>4 DEF PidRecycled, Live, Found
  <2> QED
    BY <1>4, <2>1 DEF PidRecycled, Found, Named
<1>5. ASSUME PidFreed PROVE Found' /\ Named'
  BY <1>5 DEF PidFreed, Found, Named, Live
<1>6. ASSUME Throws PROVE Found' /\ Named'
  <2>1. Live' = {}
    BY <1>6, NobodyLeft DEF Throws, Live
  <2>2. \A a \in agents : a[1] # run
    BY <1>6 DEF Throws, Found
  <2> QED
    BY <1>6, <2>1, <2>2 DEF Throws, Leaves, Found, Named
<1>7. ASSUME Reap PROVE Found' /\ Named'
  <2>1. Live' = {}
    <3> SUFFICES ASSUME NEW a \in Live' PROVE FALSE
      OBVIOUS
    <3>1. a \in Live /\ a \in agents /\ a \notin Reaped
      BY <1>7 DEF Reap, Live
    <3>2. a[1] = beat.run /\ a[2] \in beat.agents /\ ~recycled /\ beat.run < since
      BY <1>7, <3>1 DEF Reap, Found
    <3>3. a = <<beat.run, a[2]>> /\ beat.run # 0
      BY <1>0, <3>1, <3>2
    <3>4. ~IsAlive(beat.run)
      BY <1>0, <3>2 DEF IsAlive
    <3> QED
      BY <3>1, <3>2, <3>3, <3>4 DEF Reaped
  <2> QED
    BY <1>7, <2>1 DEF Reap, Found, Named
<1>8. ASSUME Sync \/ ListTrees PROVE Found' /\ Named'
  BY <1>8 DEF Sync, ListTrees, Found, Named, Live
<1>9. ASSUME Reconciled PROVE Found' /\ Named'
  BY <1>9 DEF Reconciled, Found, Named, Live
<1>10. ASSUME Record PROVE Found' /\ Named'
  <2>1. \A a \in agents : a[1] = run => a[2] \in Own
    BY DEF Own, Mine
  <2> QED
    BY <1>0, <1>10, <2>1 DEF Record, Found, Named, Live
<1>11. ASSUME Cycle PROVE Found' /\ Named'
  <2>1. \A a \in agents : a[1] # run
    BY <1>11 DEF Cycle, Own, Mine
  <2> QED
    BY <1>11, <2>1 DEF Cycle, Found, Named, Live
<1>12. ASSUME Aborts PROVE Found' /\ Named'
  <2>1. CASE phase' = "off" /\ UNCHANGED <<run, lost>>
    BY <1>12, <2>1 DEF Aborts, Found, Named, Live
  <2>2. CASE run' = run + 1 /\ phase' = "reap" /\ lost' = lost \cup Mine
    <3>1. Live' = {}
      BY <1>12, <2>2 DEF Aborts, Found, Live, Mine
    <3> QED
      BY <1>0, <1>12, <2>2, <3>1 DEF Aborts, Found, Named
  <2> QED
    BY <1>12, <2>1, <2>2 DEF Aborts
<1>13. ASSUME Exit PROVE Found' /\ Named'
  <2>1. Live' = {}
    BY <1>13 DEF Exit, Leaves, Own, Mine, Found, Live
  <2> QED
    BY <1>13, <2>1 DEF Exit, Leaves, Found, Named
<1>14. ASSUME NEW a \in agents, AgentEnds(a) PROVE Found' /\ Named'
  <2>1. agents' \subseteq agents /\ Live' \subseteq Live
    BY <1>14 DEF AgentEnds, Live
  <2> QED
    BY <1>14, <2>1 DEF AgentEnds, Found, Named
<1>15. ASSUME NEW s \in Slug, Dispatch(s) PROVE Found' /\ Named'
  <2>1. beat'.run = run /\ ~recycled' /\ phase' = "spawned" /\ run' = run
    BY <1>15 DEF Dispatch
  <2>2. \A a \in agents' : a \in agents \/ a[1] = run
    BY <1>15 DEF Dispatch
  <2>3. \A a \in Live' : a \in Live \/ a[1] = run
    BY <1>15 DEF Dispatch, Live
  <2> QED
    BY <1>0, <1>15, <2>1, <2>2, <2>3 DEF Dispatch, Found, Named
<1>16. ASSUME NEW s, Close(s) \/ Merge(s) \/ Probe(s) \/ SessionOpens(s) \/ SessionEnds(s)
                      \/ Shifts(s) \/ Gate(s)
       PROVE  Found' /\ Named'
  BY <1>16, FoundElsewhere
  DEF Close, Merge, Probe, SessionOpens, SessionEnds, Shifts, Gate, Works, Opens, LandsIt
<1>17. ASSUME Remove \/ UNCHANGED vars PROVE Found' /\ Named'
  BY <1>17, FoundElsewhere DEF Remove, vars
<1> QED
  BY <1>1, <1>2, <1>3, <1>4, <1>5, <1>6, <1>7, <1>8, <1>9, <1>10, <1>11, <1>12, <1>13, <1>14,
     <1>15, <1>16, <1>17 DEF Next, Pass

(* However supervisors are killed, terminated and restarted, none of them starts a child  *)
(* for an entry, heals its pull request or prunes its worktree beside an agent that an    *)
(* earlier run left on it and that some heartbeat still names (reapOrphanAgents before    *)
(* reconcileOpenPrs and pruneShippedWorktrees, emitState before and after every spawn).   *)
THEOREM ReapsFirst == Spec => LeftoversAreDeadFirst
<1>1. ReapInv /\ [Next]_vars =>
        [\A s \in Slug : Touches(s) => \A a \in agents \ lost : a[2] = s => a[1] = run]_vars
  <2> SUFFICES ASSUME ReapInv, NEW s \in Slug, Touches(s), NEW a \in agents \ lost
               PROVE  a[1] = run
    OBVIOUS
  <2>1. phase \notin {"off", "reap"}
    BY DEF Touches, Dispatch, Close, Merge, Remove
  <2> QED
    BY <2>1 DEF ReapInv, Found, Live
<1>2. Init => ReapInv
  BY TypeInit, FoundInit DEF ReapInv, Init, Begun
<1>3. ReapInv /\ [Next]_vars => ReapInv'
  BY TypeStep, BegunStep, FoundStep DEF ReapInv
<1> QED
  BY <1>1, <1>2, <1>3, PTL DEF Spec, LeftoversAreDeadFirst

-----------------------------------------------------------------------------
(* The worktrees of what has shipped. *)

(* An entry leaves a document when its pull request merges, and a merge is for good. *)
Shipped ==
    \A s \in Slug : /\ s \in origin.roadmap \cup origin.backlog \/ pr[s] = "merged"
                    /\ s \in local.roadmap \cup local.backlog \/ pr[s] = "merged"

Orphan == doomed # None => pr[doomed] = "merged" /\ (tree[doomed] = "dirty" => late)

PruneInv == TypeOK /\ Begun /\ Shipped /\ Orphan

LEMMA PruneInit == AdHoc = {} /\ Init => Shipped /\ Orphan
  BY DEF Init, Shipped, Orphan, Slug

(* No step takes a merge back, and a document loses an entry to a merge only. *)
LEMMA MergedForGood ==
    ASSUME PruneInv, [Next]_vars
    PROVE  \A s \in Slug : /\ pr[s] = "merged" => pr'[s] = "merged"
                           /\ s \in origin.roadmap \cup origin.backlog =>
                                  \/ s \in origin'.roadmap \cup origin'.backlog
                                  \/ pr'[s] = "merged"
<1> USE DEF PruneInv, hub, scan, super
<1> DEFINE Kept == \A s \in Slug : /\ pr[s] = "merged" => pr'[s] = "merged"
                                   /\ s \in origin.roadmap \cup origin.backlog =>
                                          \/ s \in origin'.roadmap \cup origin'.backlog
                                          \/ pr'[s] = "merged"
<1>1. ASSUME UNCHANGED hub PROVE Kept
  BY <1>1
<1>2. ASSUME NEW s \in Slug, Lands(s) PROVE Kept
  BY <1>2 DEF Lands, Set, TypeOK
<1>3. ASSUME NEW s \in Slug, Close(s) PROVE Kept
  BY <1>3 DEF Close, Set, TypeOK
<1>4. ASSUME NEW s \in Slug, Merge(s) PROVE Kept
  BY <1>1, <1>2, <1>4 DEF Merge
<1>5. ASSUME NEW s \in Slug, Shifts(s) PROVE Kept
  BY <1>5 DEF Shifts, Set, TypeOK
<1>6. ASSUME NEW s \in Slug, Opens(s) PROVE Kept
  BY <1>6 DEF Opens, Set, TypeOK
<1>7. ASSUME NEW s \in Slug, Gate(s) PROVE Kept
  BY <1>1, <1>2, <1>6, <1>7 DEF Gate, Works, LandsIt
<1>8. ASSUME Start \/ Killed \/ Terminated \/ PidRecycled \/ PidFreed \/ Throws \/ Cycle \/ Aborts
             \/ Exit PROVE Kept
  BY <1>1, <1>8
  DEF Start, Killed, Terminated, PidRecycled, PidFreed, Throws, Cycle, Aborts, Exit, Leaves
<1>9. ASSUME Reap \/ Sync \/ ListTrees \/ Remove \/ Reconciled \/ Record PROVE Kept
  BY <1>1, <1>9 DEF Reap, Sync, ListTrees, Remove, Reconciled, Record
<1>10. ASSUME NEW s, Probe(s) \/ Dispatch(s) \/ SessionOpens(s) \/ SessionEnds(s) PROVE Kept
  BY <1>1, <1>10 DEF Probe, Dispatch, SessionOpens, SessionEnds
<1>11. ASSUME NEW a, AgentEnds(a) PROVE Kept
  BY <1>1, <1>11 DEF AgentEnds
<1>12. ASSUME UNCHANGED vars PROVE Kept
  BY <1>1, <1>12 DEF vars
<1>13. BusyTrees \subseteq Slug
  BY DEF BusyTrees, TypeOK
<1> HIDE DEF Kept
<1>14. Kept
  BY <1>3, <1>4, <1>5, <1>7, <1>8, <1>9, <1>10, <1>11, <1>12, <1>13 DEF Next, Pass
<1> QED
  BY <1>14 DEF Kept

LEMMA ShippedStep == PruneInv /\ [Next]_vars => Shipped'
<1> SUFFICES ASSUME PruneInv, [Next]_vars PROVE Shipped'
  OBVIOUS
<1>1. local' = local \/ local' = origin
  BY DEF Next, Pass, Gate, super, scan, hub, vars, Start, Killed, Terminated, PidRecycled, PidFreed,
         Throws, Leaves, Reap, Sync, ListTrees, Remove, Reconciled, Record, Close, Merge, Probe,
         Cycle, Aborts, Exit, AgentEnds, Dispatch, SessionOpens, SessionEnds, Shifts, Works, Opens,
         LandsIt
<1> QED
  BY <1>1, MergedForGood DEF PruneInv, Shipped

LEMMA OrphanStep == PruneInv /\ [Next]_vars => Orphan'
<1> SUFFICES ASSUME PruneInv, [Next]_vars, doomed' # None
             PROVE  pr'[doomed'] = "merged" /\ (tree'[doomed'] = "dirty" => late')
  BY DEF Orphan
<1> USE DEF PruneInv, hub, scan, super
<1> DEFINE Holds == pr'[doomed'] = "merged" /\ (tree'[doomed'] = "dirty" => late')
<1>0. doomed \in Slug \cup {None} /\ tree \in [Slug -> {"none", "clean", "dirty"}]
  BY DEF TypeOK
(* The pull request of a worktree that is doomed has merged; its checkout is the question. *)
<1>1. ASSUME doomed' = doomed, tree' = tree, late' = late PROVE Holds
  BY <1>0, <1>1, MergedForGood DEF Orphan
<1>2. ASSUME doomed' = doomed, late' = late, NEW s \in Slug, NEW t \in {"none", "clean", tree[s]},
             tree' = Set(tree, s, t) PROVE Holds
  BY <1>0, <1>2, MergedForGood DEF Orphan, Set
<1>3. ASSUME NEW s \in Slug, Works(s) PROVE Holds
  <2>1. PICK t \in {"clean", "dirty"} : tree' = Set(tree, s, t)
    BY <1>3 DEF Works
  <2> QED
    BY <1>0, <1>3, <2>1, MergedForGood DEF Works, Orphan, Set
<1>4. ASSUME NEW s \in Slug, Probe(s) PROVE Holds
  <2>1. doomed' = s /\ s \notin local.roadmap \cup local.backlog /\ tree[s] # "dirty"
    BY <1>4 DEF Probe, Spared
  <2>2. tree' = tree
    BY <1>4 DEF Probe
  <2> QED
    BY <2>1, <2>2, MergedForGood DEF Shipped
<1>5. ASSUME Killed \/ Terminated \/ Throws \/ Exit \/ Remove PROVE Holds
  BY <1>5 DEF Killed, Terminated, Throws, Exit, Leaves, Remove
<1>6. ASSUME Start \/ PidRecycled \/ PidFreed \/ Cycle \/ Aborts PROVE Holds
  BY <1>1, <1>6 DEF Start, PidRecycled, PidFreed, Cycle, Aborts
<1>7. ASSUME Reap \/ Sync \/ ListTrees \/ Reconciled \/ Record PROVE Holds
  BY <1>1, <1>7 DEF Reap, Sync, ListTrees, Reconciled, Record
<1>8. ASSUME NEW s \in Slug, Close(s) \/ Merge(s) \/ SessionEnds(s) \/ Shifts(s) \/ Opens(s) \/ LandsIt(s)
      PROVE  Holds
  BY <1>1, <1>8 DEF Close, Merge, SessionEnds, Shifts, Opens, LandsIt
<1>9. ASSUME NEW s \in Slug, Dispatch(s) \/ SessionOpens(s) PROVE Holds
  BY <1>2, <1>9 DEF Dispatch, SessionOpens
<1>10. ASSUME NEW a \in agents, AgentEnds(a) PROVE Holds
  <2>1. PICK t \in {"none", tree[a[2]]} : tree' = Set(tree, a[2], t)
    BY <1>10 DEF AgentEnds
  <2>2. a[2] \in Slug
    BY DEF TypeOK
  <2> QED
    BY <1>2, <1>10, <2>1, <2>2 DEF AgentEnds
<1>11. ASSUME UNCHANGED vars PROVE Holds
  BY <1>1, <1>11 DEF vars
<1>12. BusyTrees \subseteq Slug
  BY DEF BusyTrees, TypeOK
<1> HIDE DEF Holds
<1>13. Holds
  BY <1>3, <1>4, <1>5, <1>6, <1>7, <1>8, <1>9, <1>10, <1>11, <1>12 DEF Next, Pass, Gate
<1> QED
  BY <1>13 DEF Holds

(* Where no work is fast-tracked that neither document lists, a worktree is removed only   *)
(* after its pull request merged, and never with work that lay uncommitted in it when it   *)
(* was probed, whoever edits, lands and restarts meanwhile (pruneShippedWorktrees: the     *)
(* universe over both documents, the dirt probe).                                          *)
THEOREM PrunesWhatShipped == AdHoc = {} => (Spec => PrunesOnlyOrphans)
<1> SUFFICES ASSUME AdHoc = {} PROVE Spec => PrunesOnlyOrphans
  OBVIOUS
<1>1. PruneInv /\ [Next]_vars =>
        [\A s \in Slug : Remove /\ doomed = s =>
             pr[s] = "merged" /\ (tree[s] = "dirty" => late)]_vars
  BY DEF PruneInv, Orphan, Remove
<1>2. Init => PruneInv
  BY TypeInit, PruneInit DEF PruneInv, Init, Begun
<1>3. PruneInv /\ [Next]_vars => PruneInv'
  BY TypeStep, BegunStep, ShippedStep, OrphanStep DEF PruneInv
<1> QED
  BY <1>1, <1>2, <1>3, PTL DEF Spec, PrunesOnlyOrphans
===============================================================================
