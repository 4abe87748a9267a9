------------------------------ MODULE DrainLoop ------------------------------
(***************************************************************************)
(* runDrain (autonomous/drain-loop.ts): K workers select queue entries and *)
(* build each with a gate child, one coordinator merges the PRs they open. *)
(*                                                                         *)
(* The code between two awaits is one action.  A gate child, a merge and   *)
(* the human on the other side of a PR are the environment: what they may  *)
(* do to the branch, the PRs and the queue is chosen when the loop looks.  *)
(***************************************************************************)
EXTENDS Naturals, Sequences, FiniteSets

CONSTANTS
    Slug,             \* the queue entries
    Eligible,         \* those the source judges drain-eligible
    BlockedBy,        \* <<s, d>>: s has a `blocked-by' that names d
    ById,             \* those of them that name d by its Q-NNNN id
    Disturbed,        \* bound: those an earlier run left a branch or a PR of, whose PRs
                      \* a human closes or merges, or whose work somebody lands by hand
    Worker,           \* the workers there may be
    MaxFeatures, MaxRetries, MaxSpawns,
    HasFinishPrompt,  \* does the source offer a delivery-only prompt?  The roadmap
                      \* source does, the plans source does not
    SalvageReaches,   \* does `repair' delete the branch the source builds on?
    MayFail,          \* the deps that may throw ("select", "probe", "settle", "merge")
                      \* or fail silently ("repair")
    NoSlug

ASSUME DrainAssumption ==
    /\ IsFiniteSet(Slug) /\ Eligible \subseteq Slug /\ Disturbed \subseteq Slug /\ NoSlug \notin Slug
    /\ BlockedBy \subseteq Slug \X Slug /\ ById \subseteq BlockedBy
    /\ IsFiniteSet(Worker) /\ Worker # {}
    /\ MaxFeatures \in Nat /\ MaxRetries \in Nat /\ MaxSpawns \in Nat
    /\ HasFinishPrompt \in BOOLEAN /\ SalvageReaches \in BOOLEAN
    /\ MayFail \subseteq {"select", "probe", "repair", "settle", "merge"}

VARIABLES
    origin,        \* the entries listed on origin/main
    local,         \* the entries parseAll() lists: local main as last synced
    pr,            \* pr[s]: the states of the PRs of s's branch, and whether somebody
                   \* landed s's work "byHand"
    branch,        \* branch[s]: the commits the branch has beyond main
    stop,          \* stopRequested()
    crew,          \* the workers of this run: opts.concurrency of them
    skip, retries, dispatched, shippedSlugs, spawns, readyToMerge, merging,
    lastExitClean, \* the slugs whose last spawn this run exited 0
    abortRef, buildersDone,
    wpc,           \* wpc[w]: where worker w is
    job,           \* job[w]: the slug worker w builds
    delivers,      \* delivers[w]: does its child deliver the branch as it finds it,
                   \* as it was "told" to or as it "judged" by branch-state?
    cpc,           \* where the coordinator is
    result,        \* what runDrain resolved with
    attempts       \* history: how many children each slug had

world == <<origin, pr, branch>>
book == <<skip, retries, shippedSlugs, lastExitClean>>
workers == <<wpc, job, delivers>>
coord == <<readyToMerge, merging, cpc>>
vars == <<world, local, crew, stop, book, dispatched, spawns, coord, abortRef,
          buildersDone, workers, result, attempts>>

Pool == Cardinality(crew) > 1

Elements(seq) == {seq[i] : i \in DOMAIN seq}

Shipped == Elements(shippedSlugs)

TypeOK ==
    /\ origin \subseteq Slug /\ local \subseteq Slug
    /\ pr \in [Slug -> SUBSET {"open", "closed", "merged", "byHand"}]
    /\ branch \in [Slug -> {"none", "partial", "built"}]
    /\ crew \subseteq Worker
    /\ stop \in BOOLEAN /\ abortRef \in BOOLEAN /\ buildersDone \in BOOLEAN
    /\ skip \subseteq Slug /\ dispatched \subseteq Slug /\ lastExitClean \subseteq Slug
    /\ retries \in [Slug -> Nat] /\ attempts \in [Slug -> Nat] /\ spawns \in Nat
    /\ shippedSlugs \in Seq(Slug) /\ readyToMerge \in Seq(Slug)
    /\ merging \in Slug \cup {NoSlug}
    /\ wpc \in [Worker -> {"select", "building", "returned", "threw"}]
    /\ job \in [Worker -> Slug \cup {NoSlug}]
    /\ delivers \in [Worker -> {"no", "told", "judged"}]
    /\ cpc \in {"take", "parked", "merging", "returned"}
    /\ result \in {"running", "0", "1", "130"}

(* After the first syncMainCleanState.  An earlier run or a human may have left *)
(* an open PR, a rejected one, or commits nobody finished.                      *)
Init ==
    /\ origin = Slug /\ local = Slug
    /\ \E found \in [Disturbed -> {{}, {"open"}, {"closed"}} \X {"none", "partial"}] :
         /\ pr = [s \in Slug |-> IF s \in Disturbed THEN found[s][1] ELSE {}]
         /\ branch = [s \in Slug |-> IF s \in Disturbed THEN found[s][2] ELSE "none"]
    /\ stop = FALSE /\ abortRef = FALSE /\ buildersDone = FALSE
    /\ skip = {} /\ dispatched = {} /\ lastExitClean = {}
    /\ retries = [s \in Slug |-> 0] /\ attempts = [s \in Slug |-> 0] /\ spawns = 0
    /\ shippedSlugs = <<>> /\ readyToMerge = <<>> /\ merging = NoSlug
    /\ crew \in (SUBSET Worker) \ {{}}
    /\ wpc = [w \in Worker |-> IF w \in crew THEN "select" ELSE "returned"]
    /\ job = [w \in Worker |-> NoSlug]
    /\ delivers = [w \in Worker |-> "no"]
    /\ cpc = IF Pool THEN "take" ELSE "returned"
    /\ result = "running"

-----------------------------------------------------------------------------
(* Selection: the synchronous head of a worker's loop.  The source is asked for   *)
(* an entry that is neither skipped nor in flight.                                *)

(* Mutant: entries in flight do not count against the cap. *)
CapCountsShipsOnly == Len(shippedSlugs) >= MaxFeatures

CapReached == Len(shippedSlugs) + Cardinality(dispatched) >= MaxFeatures

(* Worker w may ask the source for an entry outside skip and dispatched. *)
Selecting(w) == wpc[w] = "select" /\ ~abortRef /\ ~stop /\ ~CapReached

(* Mutant: a slug in flight is offered again. *)
OffersInFlight == local \ skip

(* Mutant: a slug that failed once is not offered again. *)
OffersFirstTriesOnly == {s \in local \ (skip \cup dispatched) : retries[s] = 0}

Candidates == local \ (skip \cup dispatched)

(* Mutant: a blocker that is skipped or in flight blocks nothing. *)
UnmetByCandidates(s) == {d \in Candidates \ {s} : <<s, d>> \in BlockedBy}

(* The blockers of s that are still listed, those in skip or in flight too. *)
Unmet(s) == {d \in local \ {s} : <<s, d>> \in BlockedBy}

Open == {s \in Candidates : Unmet(s) = {}}

(* No candidate is open, and each waits for another: they hold a cycle. *)
Cyclic == \A s \in Candidates : Unmet(s) \cap Candidates # {}

(* roadmapSource holds back what is blocked, unless that is a cycle; plansSource *)
(* offers a blocked entry when it has no eligible one.                           *)
Selectable ==
    IF HasFinishPrompt
    THEN IF Cyclic THEN Candidates ELSE Open
    ELSE IF Open \cap Eligible # {} THEN Open \cap Eligible ELSE Candidates

(* An entry of a cycle that it offers is ineligible to roadmapSource by the       *)
(* blockers it names by slug only; plansSource resolves ids as well.              *)
Drainable(s) ==
    /\ s \in Eligible
    /\ HasFinishPrompt => \A d \in Unmet(s) : <<s, d>> \in ById
    /\ ~HasFinishPrompt => Unmet(s) = {}

WorkerReturns(w) ==
    /\ wpc[w] = "select"
    /\ abortRef \/ stop \/ CapReached \/ Selectable = {} \/ spawns >= MaxSpawns
    /\ wpc' = [wpc EXCEPT ![w] = "returned"]
    /\ UNCHANGED <<world, local, stop, book, dispatched, spawns, coord, abortRef,
                   buildersDone, job, delivers, result, attempts, crew>>

(* An ineligible entry, or one whose PR an earlier run left open. *)
SkipCandidate(w, s) ==
    /\ Selecting(w) /\ spawns < MaxSpawns /\ s \in Selectable
    /\ ~Drainable(s) \/ "open" \in pr[s]
    /\ skip' = skip \cup {s}
    /\ UNCHANGED <<world, local, stop, retries, shippedSlugs, lastExitClean, dispatched,
                   spawns, coord, abortRef, buildersDone, workers, result, attempts, crew>>

(* nextItem or openPrExistsFor throws outside the worker's try: Promise.all      *)
(* rejects and runDrain resolves with 1 while the other workers go on.           *)
SelectionThrows(w) ==
    /\ "select" \in MayFail /\ Selecting(w)
    /\ wpc' = [wpc EXCEPT ![w] = "threw"]
    /\ result' = IF result = "running" THEN "1" ELSE result
    /\ UNCHANGED <<world, local, stop, book, dispatched, spawns, coord, abortRef,
                   buildersDone, job, delivers, attempts, crew>>

(* Mutant: a rejected PR does not exclude the finish. *)
FinishesRejected(s) == HasFinishPrompt /\ s \in lastExitClean /\ branch[s] # "none"

(* Mutant: finished work is rebuilt. *)
NeverFinishes(s) == ~HasFinishPrompt /\ s \in lastExitClean

(* resolveFinishPrompt: a clean last exit, commits on the branch, no rejected PR. *)
Finishable(s) ==
    /\ HasFinishPrompt /\ s \in lastExitClean
    /\ branch[s] # "none" /\ "closed" \notin pr[s]

(* Mutant: a rejected PR is no reason to repair. *)
SalvagesLeftoversOnly(s) ==
    IF branch[s] = "none" THEN {branch} ELSE {branch, [branch EXCEPT ![s] = "none"]}

(* salvageStaleBase: a rejected PR is always a stale base; a leftover branch is   *)
(* one when it was pushed or main moved on.  The deletes of `repair' are best     *)
(* effort: one that fails is not noticed.                                         *)
Salvaged(s) ==
    LET repaired == IF SalvageReaches THEN [branch EXCEPT ![s] = "none"] ELSE branch
    IN  IF branch[s] = "none" THEN {branch}
        ELSE IF "closed" \in pr[s] /\ "repair" \notin MayFail THEN {repaired}
        ELSE {branch, repaired}

(* classifyDrainBranch, which a child that was told to build consults: commits, no *)
(* rejected PR and a clean checkout mean deliver, a dirty checkout means rebuild.  *)
Judged(s, left) ==
    IF left[s] # "none" /\ "closed" \notin pr[s] THEN {"judged", "no"} ELSE {"no"}

(* A probe that throws answers `rebuild'. *)
Dispatch(w, s) ==
    /\ Selecting(w) /\ spawns < MaxSpawns /\ s \in Selectable
    /\ Drainable(s) /\ "open" \notin pr[s]
    /\ spawns' = spawns + 1
    /\ dispatched' = dispatched \cup {s}
    /\ attempts' = [attempts EXCEPT ![s] = @ + 1]
    /\ job' = [job EXCEPT ![w] = s]
    /\ wpc' = [wpc EXCEPT ![w] = "building"]
    /\ \E finish \in {Finishable(s)} \cup (IF "probe" \in MayFail THEN {FALSE} ELSE {}) :
         /\ branch' \in IF finish THEN {branch} ELSE Salvaged(s)
         /\ \E mode \in IF finish THEN {"told"} ELSE Judged(s, branch') :
              delivers' = [delivers EXCEPT ![w] = mode]
    /\ UNCHANGED <<origin, pr, local, stop, book, coord, abortRef, buildersDone, result, crew>>

-----------------------------------------------------------------------------
(* Settlement: what the worker does when the gate child is over. *)

Frees(w) ==
    /\ job' = [job EXCEPT ![w] = NoSlug]
    /\ delivers' = [delivers EXCEPT ![w] = "no"]
    /\ wpc' = [wpc EXCEPT ![w] = "select"]

RecordRetryOrSkip(s) ==
    /\ retries' = [retries EXCEPT ![s] = @ + 1]
    /\ skip' = IF retries[s] + 1 > MaxRetries THEN skip \cup {s} ELSE skip
    /\ UNCHANGED shippedSlugs

(* Mutant: an entry that shipped but is still listed is not skipped. *)
ShipKeepsOffering(s, also) ==
    /\ shippedSlugs' = Append(shippedSlugs, s)
    /\ retries' = [retries EXCEPT ![s] = 0]
    /\ UNCHANGED skip

(* Counted as shipped and settled; `also' is what joins skip. *)
Ship(s, also) ==
    /\ shippedSlugs' = Append(shippedSlugs, s)
    /\ retries' = [retries EXCEPT ![s] = 0]
    /\ skip' = skip \cup also

(* What a child may do to the world before it is over.  It commits, opens a PR,  *)
(* or (K = 1, or a fast-track ship) merges one; a merge usually removes the      *)
(* entry from the queue.  A failed or killed child may have done any of it; one  *)
(* that exits 0 leaves nothing half-done.                                        *)
ChildActs(s, clean) ==
    \/ /\ clean => branch[s] \in {"none", "built"}
       /\ UNCHANGED world
    \/ /\ branch' = [branch EXCEPT ![s] = IF clean THEN "built" ELSE "partial"]
       /\ UNCHANGED <<origin, pr>>
    \/ /\ branch' = [branch EXCEPT ![s] = "built"]
       /\ pr' = [pr EXCEPT ![s] = @ \cup {"open"}]
       /\ UNCHANGED origin
    \/ /\ branch' = [branch EXCEPT ![s] = "built"]
       /\ pr' = [pr EXCEPT ![s] = (@ \ {"open"}) \cup {"merged"}]
       /\ origin' \in {origin, origin \ {s}}

ExitRecord(s, clean) == (lastExitClean \ {s}) \cup {x \in {s} : clean}

(* K = 1: sync, then the absence oracle, then the merged and the open PR.        *)
SettleAlone(s, exitClean) ==
    /\ local' = origin'
    /\ \/ /\ s \notin local'
          /\ Ship(s, {}) /\ lastExitClean' = exitClean \ {s}
       \/ /\ s \in local' /\ "merged" \in pr'[s]
          /\ Ship(s, {s}) /\ lastExitClean' = exitClean \ {s}
       \/ /\ s \in local' /\ "merged" \notin pr'[s] /\ "open" \in pr'[s]
          /\ skip' = skip \cup {s} /\ lastExitClean' = exitClean
          /\ UNCHANGED <<retries, shippedSlugs>>
       \/ /\ s \in local' /\ pr'[s] \cap {"merged", "open"} = {}
          /\ RecordRetryOrSkip(s) /\ lastExitClean' = exitClean
    /\ dispatched' = dispatched \ {s}
    /\ UNCHANGED coord

(* Mutant: the exit code of the child is not asked. *)
HandsOffAnyPr(s, clean) == "open" \in pr'[s]

HandsOff(s, clean) == clean /\ "open" \in pr'[s]

(* K > 1: a merged PR ships; a clean exit with an open PR goes to the            *)
(* coordinator, which frees the slug; anything else is a retry.                  *)
SettleInPool(s, clean, exitClean) ==
    /\ \/ /\ "merged" \in pr'[s]
          /\ Ship(s, {s}) /\ lastExitClean' = exitClean \ {s}
          /\ dispatched' = dispatched \ {s} /\ UNCHANGED coord
       \/ /\ "merged" \notin pr'[s] /\ HandsOff(s, clean)
          /\ readyToMerge' = Append(readyToMerge, s)
          /\ cpc' = IF cpc = "parked" THEN "take" ELSE cpc
          /\ lastExitClean' = exitClean
          /\ UNCHANGED <<skip, retries, shippedSlugs, dispatched, merging>>
       \/ /\ "merged" \notin pr'[s] /\ ~HandsOff(s, clean)
          /\ RecordRetryOrSkip(s) /\ lastExitClean' = exitClean
          /\ dispatched' = dispatched \ {s} /\ UNCHANGED coord
    /\ UNCHANGED local

ChildExits(w, clean) ==
    LET s == job[w]
        exitClean == ExitRecord(s, clean)
    IN  /\ wpc[w] = "building"
        /\ ChildActs(s, clean)
        /\ IF Pool THEN SettleInPool(s, clean, exitClean) ELSE SettleAlone(s, exitClean)
        /\ Frees(w)
        /\ UNCHANGED <<stop, spawns, abortRef, buildersDone, result, attempts, crew>>

(* iteration-timeout: the child is killed; a retry, and never a finish. *)
ChildTimesOut(w) ==
    LET s == job[w]
    IN  /\ wpc[w] = "building"
        /\ ChildActs(s, FALSE)
        /\ lastExitClean' = ExitRecord(s, FALSE)
        /\ RecordRetryOrSkip(s)
        /\ dispatched' = dispatched \ {s}
        /\ Frees(w)
        /\ UNCHANGED <<local, stop, spawns, coord, abortRef, buildersDone, result,
                       attempts, crew>>

(* A systemic failure inside the try: salvage, the spawn itself, the sync or a    *)
(* probe of the settlement.                                                       *)
WorkerAborts(w) ==
    LET s == job[w]
    IN  /\ "settle" \in MayFail /\ wpc[w] = "building"
        /\ abortRef' = TRUE
        /\ \E clean \in BOOLEAN :
             /\ ChildActs(s, clean)
             /\ lastExitClean' \in {lastExitClean, ExitRecord(s, clean)}
        /\ dispatched' = dispatched \ {s}
        /\ local' \in IF Pool THEN {local} ELSE {local, origin'}
        /\ Frees(w)
        /\ UNCHANGED <<stop, skip, retries, shippedSlugs, spawns, coord,
                       buildersDone, result, attempts, crew>>

-----------------------------------------------------------------------------
(* The coordinator: one merge at a time. *)

CoordinatorTakes ==
    /\ cpc = "take" /\ ~abortRef /\ readyToMerge # <<>>
    /\ merging' = Head(readyToMerge)
    /\ readyToMerge' = Tail(readyToMerge)
    /\ cpc' = "merging"
    /\ UNCHANGED <<world, local, stop, book, dispatched, spawns, abortRef,
                   buildersDone, workers, result, attempts, crew>>

(* Mutant: the coordinator looks at buildersDone before its queue. *)
ChecksDoneFirst ==
    /\ cpc = "take" /\ ~abortRef /\ (buildersDone \/ readyToMerge = <<>>)
    /\ cpc' = IF buildersDone THEN "returned" ELSE "parked"
    /\ UNCHANGED <<world, local, stop, book, dispatched, spawns, readyToMerge, merging,
                   abortRef, buildersDone, workers, result, attempts, crew>>

CoordinatorWaits ==
    /\ cpc = "take" /\ ~abortRef /\ readyToMerge = <<>>
    /\ cpc' = IF buildersDone THEN "returned" ELSE "parked"
    /\ UNCHANGED <<world, local, stop, book, dispatched, spawns, readyToMerge, merging,
                   abortRef, buildersDone, workers, result, attempts, crew>>

CoordinatorReturns ==
    /\ cpc = "take" /\ abortRef
    /\ cpc' = "returned"
    /\ UNCHANGED <<world, local, stop, book, dispatched, spawns, readyToMerge, merging,
                   abortRef, buildersDone, workers, result, attempts, crew>>

(* mergePr resolved: merged (by us or by a human), or left open. *)
MergeSettles ==
    LET s == merging
    IN  /\ cpc = "merging"
        /\ \/ /\ pr[s] \cap {"open", "merged"} # {}
              /\ pr' = [pr EXCEPT ![s] = (@ \ {"open"}) \cup {"merged"}]
              /\ origin' \in {origin} \cup IF "open" \in pr[s] THEN {origin \ {s}} ELSE {}
              /\ local' = origin'
              /\ lastExitClean' = lastExitClean \ {s}
              /\ IF s \notin local' THEN Ship(s, {}) ELSE RecordRetryOrSkip(s)
           \/ /\ "open" \in pr[s] \/ "merged" \notin pr[s]
              /\ skip' = skip \cup {s}
              /\ UNCHANGED <<origin, local, pr, retries, shippedSlugs, lastExitClean>>
        /\ merging' = NoSlug
        /\ dispatched' = dispatched \ {s}
        /\ cpc' = "take"
        /\ UNCHANGED <<branch, stop, spawns, readyToMerge, abortRef, buildersDone,
                       workers, result, attempts, crew>>

(* gh or the sync fails; the squash may have landed before. *)
MergeAborts ==
    /\ "merge" \in MayFail /\ cpc = "merging"
    /\ \/ UNCHANGED <<pr, origin>>
       \/ /\ "open" \in pr[merging]
          /\ pr' = [pr EXCEPT ![merging] = (@ \ {"open"}) \cup {"merged"}]
          /\ origin' \in {origin, origin \ {merging}}
    /\ abortRef' = TRUE
    /\ merging' = NoSlug
    /\ dispatched' = dispatched \ {merging}
    /\ cpc' = "returned"
    /\ UNCHANGED <<branch, local, stop, book, spawns, readyToMerge, buildersDone,
                   workers, result, attempts, crew>>

-----------------------------------------------------------------------------
(* runDrain: wait for the workers, release the coordinator, wait for it. *)

(* Mutant: the first worker that returns ends the build phase. *)
AnyBuilderDone ==
    /\ ~buildersDone /\ \E w \in crew : wpc[w] = "returned"
    /\ buildersDone' = TRUE
    /\ cpc' = IF cpc = "parked" THEN "take" ELSE cpc
    /\ UNCHANGED <<world, local, stop, book, dispatched, spawns, readyToMerge, merging,
                   abortRef, workers, result, attempts, crew>>

(* Mutant: the parked coordinator is not woken when the workers are done. *)
NoWakeAtTheEnd ==
    /\ ~buildersDone /\ \A w \in Worker : wpc[w] = "returned"
    /\ buildersDone' = TRUE
    /\ UNCHANGED <<world, local, stop, book, dispatched, spawns, coord,
                   abortRef, workers, result, attempts, crew>>

BuildersDone ==
    /\ ~buildersDone /\ \A w \in Worker : wpc[w] = "returned"
    /\ buildersDone' = TRUE
    /\ cpc' = IF cpc = "parked" THEN "take" ELSE cpc
    /\ UNCHANGED <<world, local, stop, book, dispatched, spawns, readyToMerge, merging,
                   abortRef, workers, result, attempts, crew>>

Resolve ==
    /\ buildersDone /\ cpc = "returned" /\ result = "running"
    /\ result' = IF abortRef THEN "1" ELSE IF stop THEN "130" ELSE "0"
    /\ UNCHANGED <<world, local, stop, book, dispatched, spawns, coord, abortRef,
                   buildersDone, workers, attempts, crew>>

(* The operator stops the drain, closes a PR or merges it. *)
Stop ==
    /\ ~stop /\ stop' = TRUE
    /\ UNCHANGED <<world, local, book, dispatched, spawns, coord, abortRef,
                   buildersDone, workers, result, attempts, crew>>

HumanDecides(s) ==
    /\ s \in Disturbed /\ "open" \in pr[s]
    /\ \/ /\ pr' = [pr EXCEPT ![s] = (@ \ {"open"}) \cup {"closed"}]
          /\ UNCHANGED origin
       \/ /\ pr' = [pr EXCEPT ![s] = (@ \ {"open"}) \cup {"merged"}]
          /\ origin' \in {origin, origin \ {s}}
    /\ UNCHANGED <<branch, local, stop, book, dispatched, spawns, coord, abortRef,
                   buildersDone, workers, result, attempts, crew>>

(* A concurrent actor lands what is on the branch, other than through the PR the  *)
(* drain knows of: another branch, or a PR that opened and merged between two     *)
(* looks.  The branch stays ahead of main, so that its work reads as unshipped.   *)
LandsByHand(s) ==
    /\ s \in Disturbed /\ branch[s] # "none" /\ "byHand" \notin pr[s]
    /\ \E seen \in {{}} \cup (IF "open" \in pr[s] THEN {} ELSE {{"merged"}}) :
         pr' = [pr EXCEPT ![s] = @ \cup {"byHand"} \cup seen]
    /\ origin' \in {origin, origin \ {s}}
    /\ UNCHANGED <<branch, local, stop, book, dispatched, spawns, coord, abortRef,
                   buildersDone, workers, result, attempts, crew>>

-----------------------------------------------------------------------------
WorkerStep(w) ==
    \/ WorkerReturns(w) \/ SelectionThrows(w)
    \/ \E s \in Slug : SkipCandidate(w, s) \/ Dispatch(w, s)
    \/ \E clean \in BOOLEAN : ChildExits(w, clean)
    \/ ChildTimesOut(w) \/ WorkerAborts(w)

CoordinatorStep ==
    CoordinatorTakes \/ CoordinatorWaits \/ CoordinatorReturns \/ MergeSettles \/ MergeAborts

MainStep == BuildersDone \/ Resolve

Next ==
    \/ \E w \in Worker : WorkerStep(w)
    \/ CoordinatorStep \/ MainStep \/ Stop
    \/ \E s \in Slug : HumanDecides(s) \/ LandsByHand(s)

Spec == Init /\ [][Next]_vars

(* A child ends (its iteration timeout sees to it), mergePr polls with a        *)
(* deadline, and the event loop runs every callback.                            *)
FairSpec ==
    Spec /\ WF_vars(CoordinatorStep) /\ WF_vars(MainStep)
         /\ \A w \in Worker : WF_vars(WorkerStep(w))
-----------------------------------------------------------------------------
(* What must hold however workers, coordinator, children and humans interleave. *)

Building == {w \in Worker : wpc[w] = "building"}

Queued == Elements(readyToMerge)

(* `dispatched' is exactly the slugs somebody owns, each owned once: a worker   *)
(* builds it, it waits for the coordinator, or the coordinator merges it.  A    *)
(* leak would eat the cap for ever, a double owner would build one branch twice.*)
OneOwnerPerSlug ==
    /\ dispatched = {job[w] : w \in Building} \cup Queued \cup ({merging} \ {NoSlug})
    /\ \A v, w \in Building : job[v] = job[w] => v = w
    /\ \A i, j \in DOMAIN readyToMerge : readyToMerge[i] = readyToMerge[j] => i = j
    /\ \A w \in Building : job[w] \notin Queued \cup {merging}
    /\ merging \notin Queued

(* What the run reports as shipped is on main, each entry once; an entry it     *)
(* ships or skips is never in flight again.                                     *)
ShipsAreReal ==
    /\ \A i, j \in DOMAIN shippedSlugs : shippedSlugs[i] = shippedSlugs[j] => i = j
    /\ \A s \in Shipped : "merged" \in pr[s] \/ s \notin origin
    /\ (Shipped \cup skip) \cap dispatched = {}

(* The coordinator only ever merges the PR of a child that exited cleanly: a    *)
(* build that failed after opening its PR is left to a human.                   *)
OnlyCleanBuildsAreMerged ==
    /\ Queued \subseteq lastExitClean
    /\ merging # NoSlug => merging \in lastExitClean

(* A child is told `do not re-implement, deliver' only over a finished build    *)
(* that no human rejected, that waits for no merge, and that neither the run    *)
(* nor a human at its PR merged.  Work that somebody landed by hand meanwhile   *)
(* may read as finishable: the residual that branchHasUnshippedWorkAt states.   *)
FinishesOnlyUndelivered ==
    [][\A w \in Worker : delivers'[w] = "told" /\ delivers[w] = "no" =>
         LET s == job'[w]
         IN  /\ branch[s] = "built" /\ pr[s] \cap {"closed", "open"} = {}
             /\ "merged" \in pr[s] => "byHand" \in pr[s]]_vars

(* Finished work that was not delivered survives the next spawn of its slug:    *)
(* the clean room never deletes the branch it should deliver.                   *)
FinishedWorkSurvives ==
    [][\A s \in Slug :
         /\ HasFinishPrompt /\ s \in lastExitClean /\ branch[s] = "built"
         /\ pr[s] = {} /\ s \notin dispatched /\ s \in dispatched'
         => branch'[s] = "built"]_vars

(* Once runDrain has resolved, nothing of it goes on: no child is dispatched    *)
(* and no PR handed over or merged behind the caller's back.                    *)
NothingOutlivesTheRun ==
    [][result # "running" => dispatched' = dispatched /\ merging' = merging]_vars

(* To the supervisor a drain is a queue: whatever crew, merges and timeouts do  *)
(* between its steps, each changes the books as one step of DrainQueue does,    *)
(* takes an entry only below every cap, and the run resolves only when nothing  *)
(* is under way or it has aborted, which its exit code says.                    *)
Queue ==
    INSTANCE DrainQueue
    WITH Entry <- Slug, Cap <- MaxFeatures, MaxTries <- MaxRetries + 1, MaxTaken <- MaxSpawns,
         taken <- dispatched, shipped <- Shipped, passed <- skip \ Shipped,
         tries <- attempts, total <- spawns, broken <- abortRef, outcome <- result
ImplementsQueue == Queue!QueueSpec

(* A drain that resolved with 0 below its caps has shipped or skipped every     *)
(* entry, but for those it holds back for a blocker that is still listed: a     *)
(* failure is retried up to maxRetries, then skipped, and what a merge unblocks *)
(* is offered.                                                                  *)
DrainsTheQueue ==
    result = "0" /\ ~CapReached /\ spawns < MaxSpawns =>
        \A s \in local \ (skip \cup Shipped) : Unmet(s) # {}

(* So it is in the default mode, one worker that settles what it builds.        *)
SequentialDrainsTheQueue == ~Pool => DrainsTheQueue

Landed(d) == pr[d] \cap {"merged", "byHand"} # {}

(* A child is started on an entry only after what blocks it has landed: not     *)
(* while a blocker is under way, waits for its merge, failed, was skipped, or   *)
(* is blocked in its turn (holdBack over the whole queue, the unmet deps).      *)
BlockersLandFirst ==
    [][\A s \in Slug : attempts'[s] # attempts[s] =>
         \A d \in Slug \ {s} : <<s, d>> \in BlockedBy => d \notin origin /\ Landed(d)]_vars

(* A rebuild of rejected work starts from fresh main.                           *)
RebuildsStartFresh ==
    [][\A s \in Slug :
         "closed" \in pr[s] /\ s \notin dispatched /\ s \in dispatched'
         => branch'[s] = "none"]_vars

(* The drain ends: no worker, coordinator or waiting main is left behind.       *)
Terminates == <>(result # "running")

(* What a worker hands over is settled: merged or skipped, unless the drain     *)
(* aborts.                                                                      *)
HandoffsAreSettled ==
    \A s \in Slug : s \in Queued ~> (s \notin dispatched \/ abortRef)
=============================================================================
