------------------------------- MODULE Reconcile -------------------------------
(***************************************************************************)
(* Startup reconciliation: what a supervisor does with the agents, pull    *)
(* requests and worktrees that a dead one left, before it starts a child.  *)
(*                                                                         *)
(* A supervisor is a process with its lock held (module PidLock: one at a  *)
(* time); it reaps by the heartbeat of the last drain run, syncs main,     *)
(* heals pull requests, prunes worktrees, and drains; the watcher goes     *)
(* round, the one-shot run exits.  It may be killed between any two steps. *)
(* Agents, people at the gate and GitHub go on meanwhile.                  *)
(***************************************************************************)
EXTENDS Naturals, FiniteSets

CONSTANTS Roadmap,    \* entries of docs/roadmap.md at the start
          Backlog,    \* entries of docs/backlog.md, which a person fast-tracks
          AdHoc,      \* work that a person fast-tracks and no document lists
          MaxRuns,    \* bound: drain runs
          MaxFaults   \* bound: kills, recycled pids, calls that throw

Slug == Roadmap \cup Backlog \cup AdHoc

ASSUME ReconcileAssumption == /\ Roadmap \cap Backlog = {}
                              /\ AdHoc \cap (Roadmap \cup Backlog) = {}
                              /\ MaxRuns \in Nat \ {0} /\ MaxFaults \in Nat

VARIABLES phase,     \* the supervisor's next step, "off" without one
          run,       \* drain runs so far: the current one's number
          since,     \* the first drain run of the current process
          beat,      \* drain-state.json: a run and the agents it says are live
          recycled,  \* a stranger has the pid that the heartbeat names
          agents,    \* the agents that live, by run and slug
          lost,      \* history: agents no later heartbeat reader can find
          origin,    \* the two documents on origin/main
          local,     \* the same in the supervisor's checkout
          pr, tree,  \* of every slug: its pull request and its .worktrees/<slug>
          todo,      \* what the pass has still to look at
          view,      \* the pull requests as the pass listed them
          doomed,    \* the worktree found to be an orphan
          late,      \* history: that worktree was edited since
          sessions,  \* slugs a person works on in a gate session
          faults     \* faults so far

super == <<phase, run, since, beat>>
scan == <<todo, view, doomed>>
hub == <<origin, pr>>
vars == <<super, scan, hub, recycled, agents, lost, local, tree, late, sessions, faults>>

NoView == [s \in Slug |-> "none"]
NoBeat == [run |-> 0, agents |-> {}]
None == "none"

Mine == {a \in agents : a[1] = run}
Own == {a[2] : a \in Mine}
BusyTrees == {a[2] : a \in agents} \cup sessions

Init ==
    /\ phase = "off" /\ run = 0 /\ since = 1 /\ beat = NoBeat /\ recycled = FALSE
    /\ agents = {} /\ lost = {} /\ late = FALSE /\ sessions = {} /\ faults = 0
    /\ origin = [roadmap |-> Roadmap, backlog |-> Backlog] /\ local = origin
    /\ pr = [s \in Slug |-> "none"] /\ tree = [s \in Slug |-> "none"]
    /\ todo = {} /\ view = NoView /\ doomed = None

Set(f, s, x) == [f EXCEPT ![s] = x]
Faulty == faults < MaxFaults /\ faults' = faults + 1

\* The squash of s lands: the block it retires leaves its document on main.
Lands(s) == /\ pr' = Set(pr, s, "merged")
            /\ origin' = [roadmap |-> origin.roadmap \ {s}, backlog |-> origin.backlog \ {s}]

-----------------------------------------------------------------------------
(* A supervisor's life: it has the lock from Start until it is off. *)

Start ==
    /\ phase = "off" /\ run < MaxRuns
    /\ phase' = "reap" /\ run' = run + 1 /\ since' = run + 1
    /\ UNCHANGED <<beat, scan, hub, recycled, agents, lost, local, tree, late, sessions, faults>>

Leaves(p) ==
    /\ phase' = p /\ doomed' = None /\ todo' = {} /\ view' = NoView /\ late' = FALSE
    /\ UNCHANGED <<run, since, hub, local, tree, sessions>>

\* SIGKILL runs no handler.  An agent that the heartbeat does not name, because
\* it was just started or because the write was cut short, is out of reach.
Killed ==
    /\ phase # "off" /\ Faulty /\ Leaves("off")
    /\ \E torn \in BOOLEAN :
           /\ torn => phase = "spawned"
           /\ beat' = IF torn THEN NoBeat ELSE beat
           /\ lost' = lost \cup {a \in Mine : torn \/ a[2] \notin beat.agents}
    /\ UNCHANGED <<recycled, agents>>

\* groupKillState: the SIGTERM handler kills what the heartbeat names.
Terminated ==
    /\ phase \notin {"off", "spawned"} /\ Faulty /\ Leaves("off")
    /\ agents' = agents \ {<<beat.run, s>> : s \in beat.agents}
    /\ UNCHANGED <<beat, recycled, lost>>

\* Another process gets the dead supervisor's pid: its agents look owned.
PidRecycled ==
    /\ phase = "off" /\ beat.run > 0 /\ ~recycled /\ Faulty
    /\ recycled' = TRUE
    /\ lost' = lost \cup {a \in agents : a[1] = beat.run}
    /\ UNCHANGED <<super, scan, hub, agents, local, tree, late, sessions>>
PidFreed ==
    /\ recycled /\ recycled' = FALSE
    /\ UNCHANGED <<super, scan, hub, agents, lost, local, tree, late, sessions, faults>>

-----------------------------------------------------------------------------
(* reconcileDeadRun: reap, sync, heal, prune. *)

IsAlive(r) == since <= r \/ recycled

\* Mutant: a heartbeat without agentPgids, as the watcher once wrote it.
ReapsBlind == {}

\* The agents that reapOrphanAgents kills.
Reaped == IF beat.run = 0 \/ IsAlive(beat.run) THEN {}
          ELSE {<<beat.run, s>> : s \in beat.agents}

Reap ==
    /\ phase = "reap"
    /\ agents' = agents \ Reaped /\ lost' = lost \ Reaped /\ phase' = "sync"
    /\ UNCHANGED <<run, since, beat, scan, hub, recycled, local, tree, late, sessions, faults>>

\* Mutant: the documents are read as the checkout has them, without the sync.
SyncsNothing ==
    /\ phase = "sync"
    /\ view' = pr
    /\ todo' = {s \in local.roadmap : pr[s] \in {"open", "conflict"}}
    /\ phase' = "heal"
    /\ UNCHANGED <<run, since, beat, doomed, hub, recycled, agents, lost, local, tree, late, sessions,
                   faults>>

\* syncMain, assertSynced, then parseAll and the list of open pull requests.
Sync ==
    /\ phase = "sync"
    /\ local' = origin /\ view' = pr
    /\ todo' = {s \in origin.roadmap : pr[s] \in {"open", "conflict"}}
    /\ phase' = "heal"
    /\ UNCHANGED <<run, since, beat, doomed, hub, recycled, agents, lost, tree, late, sessions, faults>>

\* A sync or a gh call throws: the one-shot run exits 1, the watcher tries again.
Throws ==
    /\ phase \in {"sync", "heal"} /\ Faulty
    /\ \E p \in {"off", "reap"} : Leaves(p)
    /\ UNCHANGED <<beat, recycled, agents, lost>>

\* A conflict, as it was listed, is closed: the branch is left to salvage.
Close(s) ==
    /\ phase = "heal" /\ s \in todo /\ view[s] = "conflict"
    /\ pr' = IF pr[s] \in {"open", "conflict"} THEN Set(pr, s, "closed") ELSE pr
    /\ todo' = todo \ {s}
    /\ UNCHANGED <<super, view, doomed, origin, recycled, agents, lost, local, tree, late,
                   sessions, faults>>

\* mergePr with its 90 seconds: merged, or left open at a conflict or the deadline.
Merge(s) ==
    /\ phase = "heal" /\ s \in todo /\ view[s] = "open"
    /\ \/ pr[s] = "open" /\ Lands(s)
       \/ UNCHANGED hub
    /\ todo' = todo \ {s}
    /\ UNCHANGED <<super, view, doomed, recycled, agents, lost, local, tree, late, sessions, faults>>

\* The worktrees of the drain's namespace, at the drain's own paths.
ListTrees ==
    /\ phase = "heal" /\ todo = {}
    /\ todo' = {s \in Slug : tree[s] # "none"} /\ view' = NoView /\ phase' = "prune"
    /\ UNCHANGED <<run, since, beat, doomed, hub, recycled, agents, lost, local, tree, late,
                   sessions, faults>>

\* Mutant: the universe before fastTrackableElsewhere.
SparesRoadmapOnly(s) == s \in local.roadmap \/ tree[s] = "dirty"

\* What pruneShippedWorktrees spares: an entry that a document lists, or dirt.
Spared(s) == s \in local.roadmap \cup local.backlog \/ tree[s] = "dirty"

Probe(s) ==
    /\ phase = "prune" /\ doomed = None /\ s \in todo
    /\ todo' = todo \ {s}
    /\ doomed' = IF Spared(s) THEN None ELSE s
    /\ UNCHANGED <<super, view, hub, recycled, agents, lost, local, tree, late, sessions, faults>>

\* git worktree remove --force, git branch -D.
Remove ==
    /\ phase = "prune" /\ doomed # None
    /\ tree' = Set(tree, doomed, "none") /\ doomed' = None /\ late' = FALSE
    /\ UNCHANGED <<super, todo, view, hub, recycled, agents, lost, local, sessions, faults>>

Reconciled ==
    /\ phase = "prune" /\ doomed = None /\ todo = {}
    /\ phase' = "work"
    /\ UNCHANGED <<run, since, beat, scan, hub, recycled, agents, lost, local, tree, late, sessions,
                   faults>>

-----------------------------------------------------------------------------
(* The drain run, as far as its heartbeat: DrainLoop has the rest. *)

\* A child of s is due: listed at a fresh main, no open pull request, not in flight.
Dispatchable(s) == /\ s \in origin.roadmap \ Own
                   /\ pr[s] \notin {"open", "conflict"}

\* emitState, salvage and the child's fresh worktree, the spawn.
Dispatch(s) ==
    /\ phase = "work" /\ Dispatchable(s)
    /\ beat' = [run |-> run, agents |-> Own] /\ recycled' = FALSE
    /\ agents' = agents \cup {<<run, s>>}
    /\ tree' = Set(tree, s, "clean") /\ local' = origin /\ phase' = "spawned"
    /\ UNCHANGED <<run, since, scan, hub, lost, late, sessions, faults>>

\* onSpawn and the settlement of a child: the heartbeat names the live groups.
Record ==
    /\ \/ phase = "spawned"
       \/ phase = "work" /\ beat.run = run /\ beat.agents # Own
    /\ beat' = [run |-> run, agents |-> Own] /\ phase' = "work"
    /\ UNCHANGED <<run, since, scan, hub, recycled, agents, lost, local, tree, late, sessions, faults>>

\* A run ends when its children have; the watcher begins its next cycle.
Cycle ==
    /\ phase = "work" /\ Own = {} /\ phase' = "reap"
    /\ UNCHANGED <<run, since, beat, scan, hub, recycled, agents, lost, local, tree, late, sessions,
                   faults>>

\* A run that ends under its children: the process exits and the next one reaps
\* them, or it is the watcher and the next run's heartbeat forgets them.
Aborts ==
    /\ phase = "work" /\ Own # {} /\ Faulty
    /\ \/ phase' = "off" /\ UNCHANGED <<run, lost>>
       \/ run < MaxRuns /\ run' = run + 1 /\ phase' = "reap" /\ lost' = lost \cup Mine
    /\ UNCHANGED <<since, beat, scan, hub, recycled, agents, local, tree, late, sessions>>

Exit ==
    /\ phase = "work" /\ Own = {} /\ Leaves("off")
    /\ UNCHANGED <<beat, recycled, agents, lost, faults>>

-----------------------------------------------------------------------------
(* Agents and people at the gate do the same things to a slug. *)

Works(s) ==
    /\ tree[s] # "none"
    /\ \E t \in {"clean", "dirty"} : tree' = Set(tree, s, t)
    /\ late' = (late \/ s = doomed)
    /\ UNCHANGED <<super, scan, hub, recycled, agents, lost, local, sessions, faults>>
Opens(s) ==
    /\ tree[s] = "clean" /\ pr[s] \in {"none", "closed"}
    /\ s \in origin.roadmap \cup origin.backlog \cup AdHoc
    /\ pr' = Set(pr, s, "open")
    /\ UNCHANGED <<super, scan, origin, recycled, agents, lost, local, tree, late, sessions, faults>>
LandsIt(s) ==
    /\ pr[s] = "open" /\ Lands(s)
    /\ UNCHANGED <<super, scan, recycled, agents, lost, local, tree, late, sessions, faults>>

Gate(s) == Works(s) \/ Opens(s) \/ LandsIt(s)

AgentEnds(a) ==
    /\ a \in agents /\ agents' = agents \ {a} /\ lost' = lost \ {a}
    /\ \E t \in {"none", tree[a[2]]} : tree' = Set(tree, a[2], t)
    /\ UNCHANGED <<super, scan, hub, recycled, local, late, sessions, faults>>

\* A person fast-tracks what no child of the drain can be working on.
SessionOpens(s) ==
    /\ s \notin Roadmap \cup sessions /\ tree[s] = "none" /\ pr[s] # "merged"
    /\ sessions' = sessions \cup {s} /\ tree' = Set(tree, s, "clean")
    /\ UNCHANGED <<super, scan, hub, recycled, agents, lost, local, late, faults>>
SessionEnds(s) ==
    /\ s \in sessions /\ sessions' = sessions \ {s}
    /\ UNCHANGED <<super, scan, hub, recycled, agents, lost, local, tree, late, faults>>

\* Main moves under an open pull request, or someone resolves its conflict.
Shifts(s) ==
    /\ pr[s] \in {"open", "conflict"}
    /\ pr' = Set(pr, s, IF pr[s] = "open" THEN "conflict" ELSE "open")
    /\ UNCHANGED <<super, scan, origin, recycled, agents, lost, local, tree, late, sessions, faults>>

-----------------------------------------------------------------------------
Pass == \/ Reap \/ Sync \/ ListTrees \/ Remove \/ Reconciled \/ Record
        \/ \E s \in Slug : Close(s) \/ Merge(s) \/ Probe(s)

Next ==
    \/ Start \/ Killed \/ Terminated \/ PidRecycled \/ PidFreed \/ Throws
    \/ Pass \/ Cycle \/ Aborts \/ Exit
    \/ \E a \in agents : AgentEnds(a)
    \/ \E s \in Slug : Dispatch(s) \/ SessionOpens(s) \/ SessionEnds(s) \/ Shifts(s)
    \/ \E s \in BusyTrees : Gate(s)

(* A supervisor is started again and goes on; agents have a timeout; a run's *)
(* retries are bounded, so that its cycle ends (DrainLoop, Terminates).      *)
Fairness == /\ WF_vars(Start) /\ WF_vars(Pass) /\ SF_vars(Cycle)
            /\ \A r \in 1..MaxRuns, s \in Slug : WF_vars(AgentEnds(<<r, s>>))

Spec == Init /\ [][Next]_vars /\ Fairness

-----------------------------------------------------------------------------
TypeOK ==
    /\ phase \in {"off", "reap", "sync", "heal", "prune", "work", "spawned"}
    /\ run \in 0..MaxRuns /\ since \in 1..MaxRuns
    /\ beat \in [run : 0..MaxRuns, agents : SUBSET Slug] /\ recycled \in BOOLEAN
    /\ agents \subseteq (1..MaxRuns) \X Slug /\ lost \subseteq (1..MaxRuns) \X Slug
    /\ origin \in [roadmap : SUBSET Slug, backlog : SUBSET Slug]
    /\ local \in [roadmap : SUBSET Slug, backlog : SUBSET Slug]
    /\ pr \in [Slug -> {"none", "open", "conflict", "closed", "merged"}]
    /\ tree \in [Slug -> {"none", "clean", "dirty"}]
    /\ todo \subseteq Slug /\ sessions \subseteq Slug /\ late \in BOOLEAN
    /\ DOMAIN view = Slug /\ doomed \in Slug \cup {None} /\ faults \in 0..MaxFaults

\* What this step does to s for the supervisor: it starts a child, heals, prunes.
Touches(s) == \/ Dispatch(s) \/ Close(s) \/ Merge(s)
              \/ Remove /\ doomed = s

(* A supervisor starts a child for an entry, heals its pull request or prunes its  *)
(* worktree only when every agent that an earlier run left on it is dead: all but  *)
(* those that no heartbeat names any more (the order of reconcileDeadRun, and what *)
(* emitState records).                                                             *)
LeftoversAreDeadFirst ==
    [][\A s \in Slug : Touches(s) => \A a \in agents \ lost : a[2] = s => a[1] = run]_vars

(* A worktree is pruned only when its work has landed, and work that was there     *)
(* uncommitted when it was probed is never removed with it (pruneShippedWorktrees: *)
(* the universe over both documents, and the probe that fails closed).             *)
PrunesOnlyOrphans ==
    [][\A s \in Slug : Remove /\ doomed = s =>
           pr[s] = "merged" /\ (tree[s] = "dirty" => late)]_vars

Over == phase = "off" /\ run = MaxRuns

(* As long as supervisors are started, what a dead run left is cleared: a pull     *)
(* request in conflict does not stay so, and the clean worktree of an entry that   *)
(* has shipped goes (reconcileOpenPrs, pruneShippedWorktrees).                     *)
LeftoversAreCleared ==
    \A s \in Slug :
        /\ (pr[s] = "conflict" /\ s \in origin.roadmap) ~> (pr[s] # "conflict" \/ Over)
        /\ (pr[s] = "merged" /\ tree[s] = "clean" /\ s \notin BusyTrees)
               ~> (tree[s] # "clean" \/ Over)
=============================================================================
