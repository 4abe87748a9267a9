-------------------------------- MODULE Inbox --------------------------------
(***************************************************************************)
(* The escalation inbox of the drain: the append-only log                  *)
(* .noldor/escalations.jsonl and the park map .noldor/drain-park.json, as  *)
(* the cycles of `autonomous watch', the one-shot `autonomous run' and the *)
(* operator's `unpark' keep them.  The park map excludes an entry from     *)
(* selection; every writer reads it, changes its copy and writes it back,  *)
(* and no lock covers that: the drain lock is held by the watcher, was     *)
(* given back by the one-shot run, and is not asked for by `unpark'.       *)
(*                                                                         *)
(* One action is what a process does between two accesses to a file.       *)
(* runDrain (module DrainLoop) is seen through the reasons it settles the  *)
(* entries with, the rails of the watcher are module Watch.                *)
(***************************************************************************)
EXTENDS Naturals

CONSTANTS
    Slug,
    Watcher, OneShot,  \* the process of `watch' and that of `run'
    NoOne,
    MaxCycles,         \* bound: cycles and reports begun
    MaxKills           \* bound: processes killed

ASSUME InboxAssumption ==
    /\ Watcher # OneShot /\ NoOne \notin {Watcher, OneShot} \cup Slug
    /\ MaxCycles \in Nat /\ MaxKills \in Nat

Supervisor == {Watcher, OneShot}

VARIABLES
    queue,      \* the entries parseAll() lists
    prOpen,     \* the entries whose branch has an open PR
    park,       \* drain-park.json
    rows,       \* rows[s]: escalation rows of s after its last resolution (2: several)
    pending,    \* pendingPr of watch-state.json
    holder,     \* who holds the drain lock
    pc,
    reason,     \* reason[p][s]: how p's cycle settled s
    verdict,    \* verdict[p]: what mapCycle decided
    copy,       \* copy[p]: the park map p is about to write
    unparker,   \* the `unpark' under way
    begun, kills,
    seenOpen,   \* history: the entries the last recorded cycle left to an open PR
    raced       \* history: two writers were between reading and writing the park map

world == <<queue, prOpen>>
cycles == <<pc, reason, verdict, copy, holder>>
history == <<seenOpen, raced>>
bounds == <<begun, kills>>
vars == <<world, park, rows, pending, cycles, unparker, bounds, history>>

Unsettled == [s \in Slug |-> "none"]

(* cycle: does the verdict come of a cycle, or is it a report without a slug? *)
NoVerdict == [escalated |-> {}, unpark |-> {}, pending |-> {}, cycle |-> FALSE]

NoUnpark == [pc |-> "idle", slug |-> NoOne, copy |-> {}]

TypeOK ==
    /\ queue \subseteq Slug /\ prOpen \subseteq Slug /\ park \subseteq Slug
    /\ pending \subseteq Slug /\ rows \in [Slug -> 0..2]
    /\ holder \in Supervisor \cup {NoOne}
    /\ pc \in [Supervisor -> {"idle", "drain", "map", "append", "load", "save", "record"}]
    /\ reason \in [Supervisor -> [Slug -> {"none", "failed", "open", "other"}]]
    /\ verdict \in [Supervisor -> [escalated : SUBSET Slug, unpark : SUBSET Slug,
                                   pending : SUBSET Slug, cycle : BOOLEAN]]
    /\ copy \in [Supervisor -> SUBSET Slug]
    /\ unparker \in [pc : {"idle", "save", "resolve"}, slug : Slug \cup {NoOne},
                     copy : SUBSET Slug]
    /\ begun \in 0..MaxCycles /\ kills \in 0..MaxKills
    /\ seenOpen \subseteq Slug /\ raced \in BOOLEAN

Init ==
    /\ queue = Slug /\ prOpen = {}
    /\ park = {} /\ rows = [s \in Slug |-> 0] /\ pending = {}
    /\ holder = NoOne
    /\ pc = [p \in Supervisor |-> "idle"]
    /\ reason = [p \in Supervisor |-> Unsettled]
    /\ verdict = [p \in Supervisor |-> NoVerdict]
    /\ copy = [p \in Supervisor |-> {}]
    /\ unparker = NoUnpark
    /\ begun = 0 /\ kills = 0 /\ seenOpen = {} /\ raced = FALSE

Goto(p, from, to) == pc[p] = from /\ pc' = [pc EXCEPT ![p] = to]

(* The owner-checked releaseLock. *)
GivesBack(p) == holder' = IF holder = p THEN NoOne ELSE holder

(* The cycle of p is over, or p is gone. *)
Ends(p) ==
    /\ pc' = [pc EXCEPT ![p] = "idle"]
    /\ reason' = [reason EXCEPT ![p] = Unsettled]
    /\ verdict' = [verdict EXCEPT ![p] = NoVerdict]
    /\ copy' = [copy EXCEPT ![p] = {}]
    /\ GivesBack(p)

-----------------------------------------------------------------------------
(* The drain. *)

BeginCycle(p) ==
    /\ Goto(p, "idle", "drain")
    /\ holder = NoOne /\ holder' = p
    /\ begun < MaxCycles /\ begun' = begun + 1
    /\ UNCHANGED <<world, park, rows, pending, reason, verdict, copy, unparker, kills, history>>

(* parkAwareSource: the park map is read again at every pick. *)
Offered(p) == {s \in queue \ park : reason[p][s] = "none"}

(* An entry that ships leaves the queue, or stays listed with a skip reason    *)
(* (`already-merged').  One that does not keeps its place: its PR is open, it  *)
(* is ineligible, its retries are exhausted or (`run', K > 1) the coordinator  *)
(* failed to merge its PR.                                                     *)
Settle(p, s) ==
    /\ pc[p] = "drain" /\ s \in Offered(p)
    /\ \/ /\ s \notin prOpen                                      \* ships
          /\ queue' = queue \ {s} /\ UNCHANGED <<prOpen, reason>>
       \/ /\ s \notin prOpen                                      \* ineligible, merged
          /\ reason' = [reason EXCEPT ![p][s] = "other"] /\ UNCHANGED world
       \/ /\ reason' = [reason EXCEPT ![p][s] = "open"]
          /\ prOpen' = prOpen \cup {s} /\ UNCHANGED queue
       \/ /\ s \notin prOpen
          /\ reason' = [reason EXCEPT ![p][s] = "failed"]
          /\ prOpen' \in {prOpen} \cup IF p = OneShot THEN {prOpen \cup {s}} ELSE {}
          /\ UNCHANGED queue
    /\ UNCHANGED <<park, rows, pending, pc, verdict, copy, holder, unparker, bounds, history>>

(* The one-shot run gives the lock back before it maps its result. *)
DrainEnds(p) ==
    /\ Goto(p, "drain", "map")
    /\ IF p = OneShot THEN GivesBack(p) ELSE UNCHANGED holder
    /\ UNCHANGED <<world, park, rows, pending, reason, verdict, copy, unparker, bounds, history>>

-----------------------------------------------------------------------------
(* mapCycle and applyCycleVerdict. *)

AtTheInbox(p) == pc[p] \in {"append", "load", "save"}

(* p comes to the inbox files; the history notes whom it meets there. *)
EntersInbox(p) ==
    raced' = (raced \/ unparker.pc # "idle" \/ \E q \in Supervisor \ {p} : AtTheInbox(q))

(* Mutant: an entry that is parked already is escalated again. *)
EscalatesParked(p) ==
    {s \in Slug :
        \/ reason[p][s] = "failed"
        \/ p = Watcher /\ reason[p][s] = "open" /\ s \in pending}

(* One row per open incident; an open PR on its second observation in a row, *)
(* and never by a one-shot run.                                              *)
Escalated(p) ==
    {s \in Slug \ park :
        \/ reason[p][s] = "failed"
        \/ p = Watcher /\ reason[p][s] = "open" /\ s \in pending}

(* Mutant: what was pending once stays pending. *)
PendingAccumulates ==
    pending \cup {s \in Slug \ park : reason[Watcher][s] = "open"}

(* The first observation of an open PR: grace. *)
NextPending == {s \in Slug \ park : reason[Watcher][s] = "open" /\ s \notin pending}

MapCycle(p) ==
    /\ Goto(p, "map", "append") /\ EntersInbox(p)
    /\ verdict' = [verdict EXCEPT ![p] =
                     [escalated |-> Escalated(p), unpark |-> park \ queue,
                      pending |-> IF p = Watcher THEN NextPending ELSE {},
                      cycle |-> TRUE]]
    /\ UNCHANGED <<world, park, rows, pending, reason, copy, holder, unparker, bounds, seenOpen>>

(* reconcile-failed, watcher-tripped: a row without a slug, and the park map is *)
(* written back as it was read.                                                 *)
Report ==
    /\ Goto(Watcher, "idle", "append") /\ EntersInbox(Watcher)
    /\ holder = NoOne /\ holder' = Watcher
    /\ begun < MaxCycles /\ begun' = begun + 1
    /\ UNCHANGED <<world, park, rows, pending, reason, verdict, copy, unparker, kills, seenOpen>>

AppendRows(p) ==
    /\ Goto(p, "append", "load")
    /\ rows' = [s \in Slug |->
                  IF s \in verdict[p].escalated /\ rows[s] < 2 THEN rows[s] + 1 ELSE rows[s]]
    /\ UNCHANGED <<world, park, pending, reason, verdict, copy, holder, unparker, bounds, history>>

Parked(p) == (park \ verdict[p].unpark) \cup verdict[p].escalated

(* Mutant: the resolution of one park closes the incidents of all of them. *)
ResolvesEveryPark(p) ==
    /\ Goto(p, "load", "save")
    /\ copy' = [copy EXCEPT ![p] = Parked(p)]
    /\ rows' = [s \in Slug |-> IF s \in park /\ verdict[p].unpark # {} THEN 0 ELSE rows[s]]
    /\ UNCHANGED <<world, park, pending, reason, verdict, holder, unparker, bounds, history>>

(* The park map is read, and the resolutions are appended. *)
LoadPark(p) ==
    /\ Goto(p, "load", "save")
    /\ copy' = [copy EXCEPT ![p] = Parked(p)]
    /\ rows' = [s \in Slug |-> IF s \in verdict[p].unpark THEN 0 ELSE rows[s]]
    /\ UNCHANGED <<world, park, pending, reason, verdict, holder, unparker, bounds, history>>

SavePark(p) ==
    /\ pc[p] = "save"
    /\ park' = copy[p]
    /\ IF p = Watcher /\ verdict[p].cycle
         THEN /\ Goto(p, "save", "record")
              /\ copy' = [copy EXCEPT ![p] = {}]
              /\ UNCHANGED <<reason, verdict, holder>>
         ELSE Ends(p)
    /\ UNCHANGED <<world, rows, pending, unparker, bounds, history>>

(* saveWatchState.  Between two cycles the watcher keeps the lock; nothing *)
(* that happens here depends on that.                                      *)
Record ==
    /\ pc[Watcher] = "record" /\ Ends(Watcher)
    /\ pending' = verdict[Watcher].pending
    /\ seenOpen' = {s \in Slug : reason[Watcher][s] = "open"}
    /\ UNCHANGED <<world, park, rows, unparker, bounds, raced>>

-----------------------------------------------------------------------------
(* The operator and the repository. *)

(* `noldor autonomous unpark': the park map is read, written back without the *)
(* slug, and the resolution is appended.                                      *)
UnparkLoads(s) ==
    /\ unparker.pc = "idle" /\ s \in park
    /\ unparker' = [pc |-> "save", slug |-> s, copy |-> park \ {s}]
    /\ raced' = (raced \/ \E q \in Supervisor : AtTheInbox(q))
    /\ UNCHANGED <<world, park, rows, pending, cycles, bounds, seenOpen>>

UnparkSaves ==
    /\ unparker.pc = "save"
    /\ unparker' = [unparker EXCEPT !.pc = "resolve", !.copy = {}]
    /\ park' = unparker.copy
    /\ UNCHANGED <<world, rows, pending, cycles, bounds, history>>

UnparkResolves ==
    /\ unparker.pc = "resolve"
    /\ unparker' = NoUnpark
    /\ rows' = [rows EXCEPT ![unparker.slug] = 0]
    /\ UNCHANGED <<world, park, pending, cycles, bounds, history>>

(* A PR is merged or closed by somebody else, an entry is taken off the queue. *)
Resolved(s) ==
    /\ prOpen' = prOpen \ {s}
    /\ queue' \in {queue, queue \ {s}}
    /\ UNCHANGED <<park, rows, pending, cycles, unparker, bounds, history>>

(* A process is killed; its lock is free again (module PidLock). *)
Kill(p) ==
    /\ pc[p] # "idle" /\ kills < MaxKills
    /\ kills' = kills + 1 /\ Ends(p)
    /\ UNCHANGED <<world, park, rows, pending, unparker, begun, history>>

-----------------------------------------------------------------------------
Next ==
    \/ \E p \in Supervisor :
         \/ BeginCycle(p) \/ DrainEnds(p) \/ MapCycle(p)
         \/ AppendRows(p) \/ LoadPark(p) \/ SavePark(p) \/ Kill(p)
         \/ \E s \in Slug : Settle(p, s)
    \/ Report \/ Record
    \/ \E s \in Slug : UnparkLoads(s) \/ Resolved(s)
    \/ UnparkSaves \/ UnparkResolves

Spec == Init /\ [][Next]_vars

-----------------------------------------------------------------------------
(* An open PR is parked on its second observation in a row only: the last      *)
(* recorded cycle has seen it open too, whatever cycles were killed and parks  *)
(* lifted in between (mapCycle, pendingPr).                                    *)
GraceHolds ==
    [][\A s \in verdict'[Watcher].escalated \ verdict[Watcher].escalated :
          reason[Watcher][s] = "open" => s \in seenOpen]_vars

NobodyWrites == unparker.pc = "idle" /\ \A p \in Supervisor : ~AtTheInbox(p)

(* As long as nobody is killed and no two writers meet, the log and the park   *)
(* map tell one story: an entry is parked exactly when it has one unresolved   *)
(* row, so that no incident is reported twice and none is parked unreported    *)
(* (mapCycle, applyCycleVerdict, unparkSlug).                                  *)
OneRowPerIncident ==
    NobodyWrites /\ ~raced /\ kills = 0 =>
        \A s \in Slug : rows[s] = IF s \in park THEN 1 ELSE 0

(* Kills included, a listed entry that is parked has an unresolved row: the    *)
(* rows are appended before the park map is written, so that a kill at worst   *)
(* reports an incident again and never excludes an entry without a trace.      *)
NothingParkedSilently ==
    NobodyWrites /\ ~raced => \A s \in park \cap queue : rows[s] > 0
==============================================================================
