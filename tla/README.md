# Noldor, verified: models and proofs of what runs unattended

Noldor is a TypeScript command line that disciplines work on a repository: a
queue of roadmap entries, design and review gates, receipts that a push must
carry, and an *autonomous* mode that drains the queue by starting agent CLIs
one after the other, merging what they open. Nearly all of it is sequential
text processing. What an error costs most in and a test reaches least is the
rest: locks made of files, a pool of workers with a merge coordinator, a daemon
whose rails live in a JSON file, an inbox that three processes write, a pass
that cleans up after the dead, and three sequences that must survive being
interrupted anywhere: the review of a branch, its delivery, and a release.
This directory models these in TLA+, checks them with TLC and proves the central
facts with TLAPS.

Paths below are relative to the repository's own root (its code is in `src/`,
its documents in `docs/noldor/`).

## 1. Inventory

### The autonomous mode

| Part | State | Operations | Meets |
|---|---|---|---|
| **Pid lock** `src/core/pid-lock.ts` | a lock file, staged files, claim files `<lock>.reclaim.<inode>` | `tryAcquire` (stage, link, read, probe, `replaceDead`), `acquirePidLock` (poll with a deadline), `releasePidLock` | every other process of the repository, through the file system |
| **Drain lock, ideas lock, suite lock** `autonomous/drain-lock.ts`, `triage/ideas-lock-cli.ts`, `testing/suite-lock.ts` | clients of the pid lock | acquire once / hold by a sleeper / poll; release by token, by pid, or in another's name | pid lock |
| **Drain loop** `autonomous/drain-loop.ts` | `skip`, `retries`, `dispatched`, `shippedSlugs`, `readyToMerge`, `lastExitClean`, `abortRef`, `buildersDone` | K workers: select, dispatch, settle; a coordinator: take, merge, settle; start and end | source, salvage, gate children, `gh`, the supervisor's stop |
| **Drain source, salvage, branch state** `autonomous/drain-source.ts`, `salvage.ts`, `drain-branch-state.ts` | branches, worktrees, PRs (in git and GitHub) | list and judge entries, `detectStale`, `repair`, finish-or-rebuild verdict | drain loop, gate children |
| **Supervisors** `autonomous/watch.ts`, `queue-drain.ts` | `watch-state.json`, `drain.pause`, `drain-stop` | a cycle under a daily cap and a failure rail; a one-shot run | drain lock, drain loop, inbox, operator |
| **Escalation inbox** `autonomous/escalations.ts`, `unpark-cli.ts` | `escalations.jsonl`, `drain-park.json`, `pendingPr` | `mapCycle`, `applyCycleVerdict`, `unparkSlug` | both supervisors, operator |
| **Reconciliation** `autonomous/drain-reconcile.ts`, `drain-state.ts` | the heartbeat of a run | reap a dead run's agents, heal open PRs, prune worktrees | supervisors, humans |
| **Merging** `autonomous/drain-io.ts` | none of its own | `mergePr`: enable auto-merge, poll, resolve one conflict, give up; spawn with a timeout | GitHub |

What makes it hard: several processes on one file, kills between any two system
calls, pids and inodes that are used again, workers and a coordinator between
awaits, children that fail after half of their work, humans who merge and close
the same PRs, midnight in the middle of a cycle, and files that are read, edited
in memory and written back without a lock. What makes it right: one supervisor
at a time, one owner per entry, caps that count what is in flight, ships that
are real, finished work that is never thrown away and unfinished work that is
never delivered, a daily cap that survives restarts, no incident lost or told
twice, and that everything which starts ends.

### Review, push and release

| Part | State | Operations | Meets |
|---|---|---|---|
| **Review rounds** `cr/orchestrate.ts`, `re-round.ts`, `aggregate.ts`, `arbitration.ts` | sinks, expected-lanes record, round ledger, arbitration record | dispatch, one answer per lane, receipt, ledger append; cap, closing round, rulings, dispositions | lanes, operator, push gates |
| **Review receipt, push gate** `cr/amend-receipt.ts`, `hooks/noldor-enforce-review-receipt.ts` | trailers in commits | amend a receipt; check a pushed range for receipt, override and record | review rounds, git |
| **PR flow** `core/pr-flow.ts` | branch, PR, local main | guard, push, find or create, merge by one of two legs, delete | GitHub, the drain's `mergePr`, other branches |
| **Release** `release/index.ts`, `release-state.ts`, `release-publish.ts` | release state file, tag, GitHub Release, registry | the fresh run, the ladder of `--resume`, discard | others' pushes, gate sessions, publish workflow |
| **Session marker, gate hooks** `core/session.ts`, `hooks/*` | the marker file | as the release meets them | release, gate |
| **Roadmap ids** `triage/entry-id.ts`, `retired-ids.ts` | `Q-NNNN` ids over several files | not modelled | |

What makes it hard: every step of each sequence may fail or die and is then
repeated by somebody who sees only what was left behind. GitHub merges by itself
after a run gave up, checks register late, heads and main move in between, a
lane errors or never writes, a session ends between a round and its ledger
entry. What makes it right: nothing lands that was not checked, nothing lands
twice, no blocking finding is dropped without a fix or a decision, no version is
released twice or out of order, and no interruption leaves a state without a
way on.

### The rest (not modelled)

Dashboard, design records, garden and audits, checks and invariants, clone,
indirection and graph analysis, docs and sync, CLI, init and upgrade, prep,
research, metrics, milestones, rules, verify, worktrees and the agent runner
read files and write files, one process at a time, or wrap a call of an outside
tool. What could be wrong in them is text processing, which their unit tests
cover better than a model would. They are more than four fifths of the source,
so that the models stand for a small share of its lines and for most of its
protocols. Two protocols are left: the counter behind `Q-NNNN` ids, which
parallel branches mint from, and the dashboard's block edits, whose `If-Match` is
compared before an awaited write. `PROJECT.json` lists each part with its reason.

## 2. Modules

| Module | Models | How it corresponds to the code |
|---|---|---|
| `PidLock` | `pid-lock.ts`, the release of `drain-lock.ts`, `ideas-lock release` | One action is one file-system call or one liveness probe. `pc[p]` is the call that process `p` makes next. A file is an inode; paths are hard links to inodes (`lock`, `claim[i]`, `staged[p]`), so that an inode number can be used again as on a real disk. `Return` runs the `using` disposals in their order. |
| `LockRegister` | what the lock promises | One register that names its owner, taken when it is free or names the dead. `PidLock` implements it (`Register == INSTANCE ... WITH`). |
| `DrainQueue` | what `runDrain` promises | Entries are taken below every cap, at most `maxRetries + 1` times, and settled one at a time; the run ends with nothing under way or says that it aborted. `DrainLoop` implements it (`Queue == INSTANCE ... WITH`). |
| `DrainLoop` | `drain-loop.ts` with the verdicts of `salvage.ts`, `drain-branch-state.ts` and `drain-io.ts`, and what `drain-source.ts` and `next-priority.ts` hold back | The code between two awaits is one action. Variables have the names of the code; `wpc`, `cpc` say at which await a worker or the coordinator is. `SettleAlone` is K = 1, `SettleInPool` K > 1; `crew` is the pool the run was started with. Children, merges and humans choose what they did to branch, PR and queue when the loop looks at it; `LandsByHand` is a concurrent actor who lands a branch's work past the PR the loop knows (`drain-io.ts:246`). |
| `Watch` | `watch.ts`, `watch-state.ts` | One action per stage of a cycle: begin (sentinels, cap, reconciliation), drain, `Rails` (apply and save), the verdict (stop, trip, sleep). `Saves` is `saveWatchState`, whose write may fail and is then forgotten (`lost`). Kill, restart, the operator's files and midnight interleave with all of them. |
| `Inbox` | `escalations.ts`, `unpark-cli.ts` and their callers in `watch.ts` and `queue-drain.ts` | One action is what a process does between two accesses to a file: `MapCycle` reads, `AppendRows` appends, `LoadPark` reads the map, `SavePark` writes it, `Record` saves `pendingPr`. |
| `Reconcile` | `drain-reconcile.ts`, `drain-state.ts` and the supervisor's exits in `watch.ts` and `queue-drain.ts` | `phase` is the supervisor's next step, one action per agent killed, PR healed and worktree probed or removed. `view` is the PR list as the pass read it, `doomed` the worktree between its probe and its removal; agents, people and GitHub move between. |
| `Delivery` | `openAndAutoMerge` of `pr-flow.ts` and `mergePr` of `drain-io.ts`, with GitHub as both see it | One action is one `git` or `gh` command of a run (`run[b].at`) or one look of the coordinator (`sup`); checks, auto-merge and other landings happen in between. `EnqueueFails` is the direct leg in a protected repository, after `gh pr merge --auto` failed. |
| `Review` | one code-stage series of `orchestrate.ts` and the two gates of a push | One action is one write: dispatch, one lane's sink, the receipt amend, the ledger append, the record. What a reviewer finds is the set `flaws` of a tree. |
| `Release` | `release/index.ts` with its state, publish and preflight files | `pc` is the run's next command; a file is the version of its latest entry, and `entries` counts those of the changelog, which gets a second one when a version is released again. `Rungs` are the ladder's answers to what it finds. `Discard` throws a release away, `ResetMain` brings main back to origin's, and a fresh run may follow; `Refire` is the documented move of a released tag to a fix on main (`gotchas.md:656`). |
| `MCPidLock`, `MCDrainLoop`, `MCInbox` | nothing | symmetry sets for TLC |
| `PidLockProofs`, `DrainLoopProofs`, `WatchProofs`, `InboxProofs`, `ReconcileProofs`, `DeliveryProofs`, `ReviewProofs`, `ReleaseProofs` | nothing | theorems and proofs about the module each extends |

Composition is by contract. `PidLock` shows that the lock is a register which
changes hands atomically; `Watch` and `Inbox` use it as one variable (`pc`,
`holder`). `DrainLoop` shows that a run is a queue to its caller, and how it ends; `Watch` sees its exit code and
count, `Inbox` the reason it left each entry with. `Reconcile` has the lock as
`phase` (one supervisor until it is off) and a cycle that ends by
`DrainLoop!Terminates`. `Delivery` runs beside its own copy of the coordinator's
`mergePr`, whose outcomes are those that `MergeSettles` of `DrainLoop` chooses from.

## 3. Runs

| Run | Question | Instance |
|---|---|---|
| `PidLockSafety` | May two processes hold the lock, may a release or a reclaim hit another's lock, does it implement the register? | 2 pids with 2 processes each, 4 inodes, kills and file-system errors everywhere |
| `PidLockHolds` | With ideas-lock holds and releases by pid: types, and does a waiter get past a dead holder? | 2 pids, one of them a sleeper, 4 inodes, no symmetry (liveness) |
| `DrainSafety` | Does a run implement the queue its caller sees? Ownership, truthful counts, clean merges, finish and salvage, blockers first, nothing after the result | 3 entries, one blocked by the one that had a past and whose work others may land, crews of 1 and of 2, 1 retry, 3 children, cap 2 |
| `DrainLiveness` | Does a run end, is every handed-over PR settled, when anything may throw? | 4 entries, two of which block each other and one behind them, crews of 1 and of 2, no retry |
| `WatchRails` | Cap over restarts, streak, stop, SIGINT | 3 watchers, 1 kill, 1 lost save, 3 ships a day, 2 a cycle, 2 failures |
| `InboxSafety` | Grace, one row per parked entry, no silent park | 2 entries, 3 cycles or reports, 1 kill, watcher, run and unpark interleaved |
| `ReconcileLeftovers` | Are a dead run's agents gone before their entries are touched, is only finished work pruned, is what was left cleared? | 1 roadmap and 1 backlog entry, 2 drain runs, 2 kills, recycled pids or failing calls |
| `Delivery` | Do only green heads land, does nothing land twice, does all work land? | 2 branches, of which one fails its checks and conflicts, protected and not, 1 failure |
| `ReviewRounds` | Is every blocker answered when a receipt or a push says so, and does a session close? | 2 lanes, 1 finding, 2 trees, cap 1, 2 faults |
| `ReleaseLadder` | Is every begun release covered by its token, do versions grow, are releases on main, does a resume finish? | 3 versions, 2 foreign pushes, 2 failures, 1 discard, a version released at most twice more, 1 gate session |

Two further runs are expected to find a violation: disagreements between the
code and what the repository says of it.

| Run | What the repository says | What the run shows |
|---|---|---|
| `DrainPoolLeftover` | `drain-loop.ts:138`: a failure is retried up to `maxRetries`, then skipped | With K > 1 the coordinator books a retry after the workers, who found nothing to select, have returned. The run ends 0 and the entry is neither shipped nor skipped. |
| `ReleaseUnwhole` | `release/index.ts:132`: `--resume` finishes an interrupted release from wherever it died | A run that dies after the package bump and before the changelog is resumed into a commit without its changelog entry, and the GitHub Release gets the notes of the version before. |

Further disagreements are listed as findings without a run. The models have
them, and constants choose whether a run meets them.

| Where | What the repository says | What the code does |
|---|---|---|
| `triage/ideas-lock-cli.ts:85` | `pid-lock.ts:64`: a release never removes another process's lock | `ideas-lock release` stops the sleeper and only then releases in its name; a retro may reclaim the dead lock between the release's read and its unlink. In `PidLock` with `Sleepers = {p1}`, `RemovesOnlyWhatItRead` is violated. |
| `drain-loop.ts:363` | `drain-loop.ts:140`: any thrown dep aborts the whole drain | A throw during selection is outside the worker's `try`: `runDrain` resolves with 1 while the other workers go on, under a lock the supervisor gives back. In `DrainLoop` with `"select"` in `MayFail` and a crew of 2, `NothingOutlivesTheRun` is violated. |
| `drain-branch-state.ts:134` | `drain-mode.md:311`: a child killed by its timeout is rebuilt, not finished | The rebuild's child consults branch-state, which calls any branch with commits and a clean checkout finished. `Judged` of `DrainLoop` has it so. |
| `salvage.ts:110` | `autonomy.md:121`: on any hit, the stale branch is removed | For the plans source staleness is found on `feat/<slug>` and `repair` deletes `fast/<slug>`. In `DrainLoop` with `SalvageReaches = FALSE`, `RebuildsStartFresh` is violated. |
| `drain-source.ts:282` | `triage.md:106`: `blocked-by` takes ids and slugs interchangeably | `roadmapSource` compares its references with slugs only. Where every entry left is blocked, so that none is held back, one that names its blockers by id is dispatched. In `DrainLoop` with `ById = BlockedBy`, `BlockersLandFirst` is violated. |
| `watch.ts:419` | `autonomy.md:78`: cycles that exit 130 are neutral | A trip leaves its count on disk, and the next watcher trips when a pause ends its first cycle. `Rails` of `Watch` has it so. |
| `watch-state.ts:65` | `autonomy.md:42`: a cycle may overshoot the daily cap by `--max-features` less one | `saveWatchState` swallows a failed write: its cycle is not counted, and the day exceeds the cap by a further cycle, for each such save. In `Watch` with `MaxLost = 1`, `CapSurvivesRestarts` is violated without `lost` in its bound. |
| `release/index.ts:213` | `release/index.ts:135`: safe to re-run, every rung skips when its outcome exists | A push is refused for main while the tag arrives; the release is discarded and main reset. The version is derived again, its fresh run fails on the tag, its resume takes the tag by name, and the GitHub Release stands on a commit that is not on main. In `Release`, `ReleasesComeFromMain` is violated when it is asked of discarded versions too. |
| `noldor-validate-trailer.ts:49` | `release-markers.ts:40`: pages and template twins are stamped together | The commit hook refuses the twins, on every resume. In `Release` with `NewPages = TRUE`, `ResumeFinishes` is violated. |
| `pr-flow.ts:707` | `drain-io.ts:46`, `pr-flow.ts:1265`: code never lands before CI | Without branch protection a head whose checks have not registered reads as one without checks. In `Delivery` with `LateChecks = TRUE`, `OnlyGreenLands` is violated. |
| `orchestrate.ts:1040` | `aggregate.ts:194`: a lane killed before its first write must not read as a pass | The expected-lanes record gets the new head before any lane starts, and the old green sink stands: `cr aggregate` reads the unreviewed head as ok. The receipt is not minted from it, which `BlockersAreAnswered` shows. |
| `drain-reconcile.ts:219` | `drain-reconcile.ts:201`: only a merged slug's worktree is pruned | Fast-tracked work that no document lists is pruned while its checkout is clean. In `Reconcile` with `AdHoc = {"c"}`, `PrunesOnlyOrphans` is violated. |
| `drain-reconcile.ts:247` | `drain-reconcile.ts:229`: heal, then prune the freed worktrees | Main is synced before the heal only, so that a worktree the heal freed goes in the next pass. |

### Properties worth a word

* `LockNamesItsHolder` and `MutualExclusion` are about what a process was
  *told*, from the moment `tryAcquire` has decided, not about the file.
* `DeadLocksAreReplacedInPlace` is the reason `replaceDead` renames: while a
  dead lock is replaced the path is never free.
* `ClaimPinsTheDeadLock` is the reason the claim is a hard link: the inode judged
  dead cannot be recycled while it is judged.
* `OneOwnerPerSlug` says that `dispatched` *is* the set of owned slugs: a slug
  that leaks out of it is built twice, one that stays in it eats the cap.
* `ImplementsQueue` has the caps and the retries as guards of every taking, whoever
  takes, and says that a run which resolves without an abort has settled all it took.
* `FinishesOnlyUndelivered`, `FinishedWorkSurvives`, `RebuildsStartFresh` relate a
  dispatch to what earlier children and humans left. The first excepts work that a
  concurrent actor landed past the PR of its branch: `drain-io.ts:246-252` says that such
  a slug may read as finishable, and the models have it (`LandsByHand`). What that
  comment says in mitigation, that the attempt counts against the retries, is `CapsHold`.
* `SequentialDrainsTheQueue` is `DrainsTheQueue` for K = 1, where it holds. Entries
  that are held back by a blocker which neither shipped nor was skipped are excepted.
* `BlockersLandFirst` relates a dispatch to what happened to other entries, under
  other workers and in the coordinator: built is not landed.
* `CapSurvivesRestarts` gives the exact slack: the cap is looked at when a cycle
  begins, so that a day exceeds it by less than one cycle, and a kill before the
  state is saved, or a save that fails, loses one cycle from the count. The number of
  failed saves is in the bound and not assumed away: a file that can never be
  written leaves no cap at all, which is a finding.
* `StreakTrips` counts failures in a history variable of its own, by the meaning
  of a failed cycle, and so checks `applyCycleToState` and the reconciliation
  rail against it. A failed save costs one more failure at most. It does not say that
  a pause must not trip, which the code does not keep (a finding).
* `GraceHolds` compares `pendingPr` with what the last recorded cycle saw.
* `OneRowPerIncident` and `NothingParkedSilently` hold up to the first overlap of
  two writers (`raced`). After one, they do not: the park map is read and written
  back without a lock. Two overlapping writers may lose a park (the entry is
  offered again and reported again) or an unpark (the entry stays excluded with
  its row resolved). Nothing in the repository promises otherwise, so that this
  is recorded here and under the hazards and not as a finding.

* `LeftoversAreDeadFirst` is about the agents that a heartbeat can name. `lost`
  keeps those it cannot: spawned and not yet recorded, under a heartbeat torn by
  a kill, behind a recycled pid, or left by a cycle that aborted in a watcher
  that lives on.
* `PrunesOnlyOrphans` lets a worktree go in which somebody started to edit between
  the probe and the removal (`late`): `git worktree remove --force` does not look
  again. It is the window the code has, and a hazard.
* `LandsOnce` is about branches of one commit, which is what `git cherry` can
  compare with a squash.
* `WorkLands` and `SessionCloses` are the properties that a wedge violates: a closed
  PR, a stale head, a conflict, a spent cap, a record without its ruling.
* `BlockersAreAnswered` keeps `owed` as a history: whatever any lane ever filed and
  nobody has fixed or ruled on since. It checks that priors survive failing
  lanes, killed rounds and sessions that end.
* `TokenCoversTheRelease` is the claim `--resume` rests on, and `ResumeFinishes` has
  the exception that the repository documents (`gotchas.md`): main has moved on. A
  release begun after a discard of the same version is excepted too: its tag may be a
  stale one, which it would push in vain.
* `VersionsGrow` is about main: after a discard the version may be released again
  over its first commit, never one below it.
* `ReleasesComeFromMain` is about the GitHub Releases of versions that were never discarded. A tag
  is on the release commit, or where `Refire` moved it, on a later commit with the
  same package version; `gotchas.md:656` documents that move. For discarded
  versions it is false (a finding), and it says nothing of the registry: a tag
  that arrived while main was refused is published.
* `LandsOnce` starts at the guard's comparison: what lands between that and the merge is
  outside it, and does land again.

### Bounds, and why they are enough

* `MaxStarts` (`PidLock`): a pid is used twice, once by the process that dies with
  the lock and once by its successor, which differs in `startedAt` alone. Staged
  files of killed processes keep their inodes for ever, hence four inodes: a
  dead lock, two leaked or staged files and a free one, so that reuse happens.
* Two pids are enough for every pair of acquire, reclaim and release;
  three are used where a third role (the releaser of a hold) takes part.
* `Disturbed` (`DrainLoop`): only these entries may have a past or a human; one is
  enough since the properties relate a slug to itself, and the others supply the
  company in queue, cap and coordinator.
* `MaxFeatures` 2 below three entries, `MaxRetries` 1, `MaxSpawns` 3: the
  caps bind, and a retry meets a full cap.
* `MaxKills`, `MaxLost`, `MaxStarts` (`Watch`): `CapSurvivesRestarts` counts kills and
  lost saves, one of each shows the slack; three watchers put a killed one between two
  others.
* `MaxCycles` 3 (`Inbox`): grace needs two cycles in a row and a third to lift or
  break it. `rows` counts to 2, which stands for several.
* `Reconcile`: two drain runs are a dead one and its successor; the roadmap entry
  is the drain's, the backlog entry a person's. Three runs give about 15 million
  states and show nothing else.
* `Delivery`: two branches are enough for one to move main under the other; the
  first fails its checks and conflicts, the second is the plain one.
* `Review`: two trees are before and after a fix. `RoundCap` is 1 where the code has
  2, so that cap, closing round and record are reached in few steps; nothing in
  the code depends on the number.
* `Release`: the first failure interrupts a run, the second its resumption; two
  pushes by others are one before and one after the release commit. `MaxRepeats` bounds
  how often a version that was discarded is released again over its own commit, and
  `MaxDiscards` how many releases are discarded: one, after which a run
  starts over, meets its own leftovers, and may die and be resumed.
* Deadlock is not checked where the system really may stop: processes are done,
  the drain has resolved, the bounds on starts and cycles are used up.

### Fairness, and why

* `PidLock`: a live process makes its next call, and the poll timer fires. Nothing
  is assumed of kills, errors, releases, or of the operator who deletes a
  stranded claim; `DeadLockIsReclaimed` therefore excepts stranded claims, as
  the comment at `replaceDead` does.
* `DrainLoop`: a child ends because it has an iteration timeout, a merge because it
  polls with a deadline, and the event loop runs every callback. Nothing is
  assumed of the operator or of humans.
* `Watch`: the watcher takes its next step, and days pass. `StopIsHonoured` has the
  exception the code has: a paused watcher holds.

* `Reconcile`: supervisors are started again, a pass makes its next step, agents end.
  `SF(Cycle)` stands for `DrainLoop!Terminates`: a cycle that begins again and again
  is not killed each time.
* `Delivery`: commands return, checks end, GitHub merges what it may. The operator
  starts a delivery again, and fixes or rebases in the end (strong fairness, since
  a failing head comes and goes).
* `Review`: a round goes on, lanes answer, and the attended operator disposes of
  blockers, rewords and pushes. Commits are not assumed: a session closes even
  for an operator who never fixes anything.
* `Release`: the run makes its next step, the workflow publishes, gate sessions
  end, and the operator resumes. Nothing is assumed of fresh runs,
  discards, resets of main or moved tags.

## 4. Proofs

Every safety property that a passing run checks, invariant or action property, is
proved for every value of the constants: any number of processes, entries,
workers, branches, lanes, versions, kills and restarts, and any caps. Eight
modules hold the theorems, one per component. A hypothesis is a
condition under which the code keeps its promise; without it TLC refutes the
property, and that refutation is a finding or a hazard, never a convenience of the
proof. The theorems without a hypothesis hold of the models as they are.

| Theorem | Property | Hypothesis |
|---|---|---|
| `PidLockProofs!TypeCorrect` | `TypeOK` | |
| `ClaimsPin` | `ClaimPinsTheDeadLock` | |
| `LockIsExclusive` | `MutualExclusion` | `OwnReleasesOnly` |
| `LockPathIsTruthful` | `LockNamesItsHolder` | `OwnReleasesOnly` |
| `ReleaseIsOwnerChecked` | `RemovesOnlyWhatItRead` | `OwnReleasesOnly` |
| `ReclaimIsInPlace` | `DeadLocksAreReplacedInPlace` | `OwnReleasesOnly` |
| `LockRefinesRegister` | `ImplementsRegister` | `OwnReleasesOnly` |
| `DrainLoopProofs!TypeCorrect` | `TypeOK` (no run) | |
| `EverySlugHasOneOwner` | `OneOwnerPerSlug` | |
| `FailedBuildsAreNotMerged` | `OnlyCleanBuildsAreMerged` | |
| `BlockersHaveLanded` | `BlockersLandFirst` | `ById = {}` |
| `CapsHold` | `WithinCaps`, the lasting part of the refinement | |
| `DrainRefinesQueue` | `ImplementsQueue` | `"select" \notin MayFail` |
| `ShipsAreOnMain` | `ShipsAreReal` | |
| `SoloDrains` | `SequentialDrainsTheQueue` | |
| `DeliveriesAreDue` | `FinishesOnlyUndelivered` | |
| `RejectedWorkIsRebuilt` | `RebuildsStartFresh` | `SalvageReaches`, `"repair" \notin MayFail` |
| `FinishedWorkIsKept` | `FinishedWorkSurvives` | `"probe" \notin MayFail` |
| `TheRunIsOver` | `NothingOutlivesTheRun` | `"select" \notin MayFail` |
| `WatchProofs!TypeCorrect` | `TypeOK` (no run) | |
| `DailyCapHolds` | `CapSurvivesRestarts` | |
| `StreaksTrip` | `StreakTrips` | |
| `InboxProofs!TypeCorrect` | `TypeOK` (no run) | |
| `GraceIsKept` | `GraceHolds` | |
| `IncidentsAreToldOnce` | `OneRowPerIncident` | |
| `ParksAreTraced` | `NothingParkedSilently` | |
| `ReconcileProofs!TypeCorrect` | `TypeOK` (no run) | |
| `ReapsFirst` | `LeftoversAreDeadFirst` | |
| `PrunesWhatShipped` | `PrunesOnlyOrphans` | `AdHoc = {}` |
| `DeliveryProofs!TypeCorrect` | `TypeOK` (no run) | |
| `LandingsAreGreen` | `OnlyGreenLands` | `~LateChecks` |
| `NothingLandsTwice` | `LandsOnce` | |
| `ReceiptsVouch` | `BlockersAreAnswered` | |
| `PushesAnswer` | `PushesAreAnswered` | `~Reopens` |
| `ReleaseProofs!TypeCorrect` | `TypeOK` (no run) | |
| `ReleasesAreInOrder` | `VersionsGrow` | |
| `ReleasesAreOnMain` | `ReleasesComeFromMain` | |
| `TokensCover` | `TokenCoversTheRelease` | |

### The hypotheses

* `OwnReleasesOnly == Sleepers = {} /\ ~PidOnlyRelease`: locks that only their
  holder releases, by its token, which are the drain lock and the suite lock. With a
  hold (`Sleepers = {p1}`) TLC refutes `RemovesOnlyWhatItRead`, and with a release
  by pid alone a reused pid breaks exclusion as well.
* `ById = {}`: no reference that `roadmapSource` would fail to resolve.
* `SalvageReaches`, `"repair" \notin MayFail`: `repair` deletes the branch that the
  source builds on, and its best-effort deletes work.
* `"probe" \notin MayFail`: branch-state is heard. When the probe of the branch
  throws, the work counts as not there and salvage decides alone.
* `"select" \notin MayFail`: no selection throws, the one throw that `worker` does
  not catch.
* `AdHoc = {}`: no fast-tracked work that neither document lists.
* `~LateChecks`: checks register before anybody looks at them.
* `~Reopens`: the tree under arbitration is not reviewed again. Otherwise, with two
  findings, a round that is killed after a lane filed a new blocker and before the
  ledger has it leaves a record that stands, is disposed, and does not list it
  (`priorRecordStands`).

### The arguments

*Pid lock.* `MutualExclusion` is not inductive: why a rename cannot hit a live lock
depends on the claim. The parts of `SafeInv` are what each
process may rely on: its staged file holds its own payload (`ProcessInv`); no
payload is from the future, so a process that starts is no old holder
(`PayloadInv`); a claim has one owner (`ClaimInv`); what was judged through a
matching claim is dead and stays so (`JudgedInv`); and a process that was told
`acquired` is named by the lock (`LockInv`), from which exclusion follows at once.
The action properties and the refinement are read off the steps under that invariant: a
step of the file system is one step of `LockRegister` or leaves it alone. Claims
hold by themselves, whoever releases what: `ClaimsPin` needs `ClaimInv` only and so
no hypothesis.

*Drain loop.* Type correctness needs that a building worker has a job and a merging
coordinator a slug (`Typed`). `DrainInv` adds `OneOwnerPerSlug` and
`OnlyCleanBuildsAreMerged` with `MergingIsMarked`; two lemmas on queues
(`PushQueue`, `ShiftQueue`) say what a push and a shift do to a duplicate-free
sequence, and one lemma per kind of change of ownership is cited by the actions that
make it. A worker judges blockers by the local copy of main, which lags behind;
`LandInv` says that it only lags in one direction: what left a copy of main was
merged. Together they are `RunInv`, on which the rest stands. `StepsBook` sums up
what any step does to the accounts: nothing, pass an entry over, start one, or settle
one; `CapsHold`, `ShipsAreOnMain` and `SoloDrains` split on these four and not on the
actions. What each adds to `RunInv`:

* `CapInv`: until an abort, every entry still in the running was tried as
  often as it has retries booked, and once more while it is under way. Without it the
  limit of spawns per entry does not follow from the retries.
* `ShipInv`: what shipped and is still listed is skipped, so that it is not taken again.
* `SoloInv`: with one worker, when it has returned and nothing aborted or stopped the
  run, a cap is reached or nothing is selectable, and this stays so.
* `ExitInv` (`CleanExits`): a slug in `lastExitClean` has no half-done branch, and
  while it can still be selected no open or merged PR, which is
  the difference between *told to deliver* and *finished, undelivered and wanted*.
* `EndInv`: a result means that workers and coordinator have returned.
* `QueueInv`, all of these with `LastTries` (the try under way is one that its retries
  leave, abort or not) and `Rests` (a coordinator that returned without an abort left
  nothing to merge): under it each step of the loop is a step of `DrainQueue` or does not show.
  `Cardinality` reaches `DrainQueue` by way of INSTANCE, and is shown to be the same.

*Watch.* `CapInv` adds up the day: what is recorded for today, what the cycle under way
will record, and a full cycle per kill and per lost save bound what shipped; `LoadedInv`
is why a cycle may trust what it loaded while its day lasts. `StreakInv` keeps the failures
one watcher saw in a row within the count on disk, which earlier watchers may have begun,
and the lost saves.

*Inbox.* `GraceInv` carries the observation from the cycle that saw the PR to the
verdict. `StoryInv` gives, while nobody overlaps (`Alone`), the rows at each stage
of a writer: what is parked and what its verdict will park (`Told`, `Traced`).

*Reconcile.* `Found`: while no drain run is on its way, an agent that lives and can be
found is named by the heartbeat of a dead process; after the reap there is none
but this run's own. `Named`: an agent of this run is in the heartbeat before the next
one is spawned. For the prune, `Shipped` says that an entry absent from either copy of
the documents has a merged PR, and `Orphan` what the probe saw of the worktree it dooms.

*Delivery.* `Green`: auto-merge is queued in a protected repository only, and whoever is
about to squash directly saw this head green, which nobody replaces until then,
since the coordinator takes a branch whose run has ended. `LandsOnce` follows the
verdict of `git cherry`: what a run knew when it compared (`Known`, `Tells`)
goes with its PR, and is still so for the head that is squashed.

*Review.* `Carried` says that a blocker which is owed is in the sink of some lane, which
will file it again, so that no failing lane, killed round or new session loses it;
`Minted` that a receipt was minted when nothing was owed. `Arbitrates` adds that a record
which stands for the tree lists what is owed.

*Release.* `Ladder` is the order of the rungs as facts. `Lines` says of both mains that
the version in force, package.json's, never falls from one commit to the next,
that a release commit repeats it only if it was discarded, and that a version is begun only
over one whose tag is on that main. From this follows (`NearestTag`, by descent to
the nearest tagged commit) that the version a fresh run derives lies above what is in force, or
repeats a discarded one. `Tags` says which commits tags may name: those of their
version, or of the fix they were moved to. `Token` relates the token to what is
committed, `Rung` is what each rung may rely on. `Shipped` and `Covered` add
what is public and what is unfinished; `PastGrows`, that what was discarded or moved
stays so, carries both over the steps. `Derive` counts no further than the bound
`Version` allows.

### Only model-checked

The liveness properties (`Terminates`, `HandoffsAreSettled`, `DeadLockIsReclaimed`,
`StopIsHonoured`, `SigintEndsTheWatch`, `ResumeFinishes`, `WorkLands`, `SessionCloses`,
`LeftoversAreCleared`): liveness under fairness and `ENABLED` are beyond the prover. The
two properties of the violation runs are false. What cannot be proved of a recursive
definition for every input does not arise: the models have none.

## 5. Abstractions to know of

* A child that exits 0 leaves no half-done commit. One that fails or is killed
  may have done any part of its work.
* `repair` deletes what it should unless `"repair"` is in `MayFail`. Its deletes are
  best effort in the code and a failure goes unnoticed; no run asserts fresh
  branches with `"repair"` in it.
* Best-effort writes of the inbox (`escalations.jsonl`, `drain-park.json`) succeed; those
  of `watch-state.json` and of the pause file may fail, in `Watch`. In `Inbox` a
  save of `pendingPr` that fails is a cycle killed before `Record`. A refusal of a corrupt state file ends
  the process, like a kill.
* A ship counts for the day its cycle began, as in `applyCycleToState`.
* `--dry-run`, output, notifications, and heartbeat writes change nothing the
  properties read, and are left out.
* Order inside the queue, parsing and frontmatter are left out: a worker takes any
  selectable entry. The reasons other than a
  blocker for an entry to be ineligible are constant during a run, and an entry
  behind an open feature document, which a run cannot land, is not in the queue.
* The rows of the inbox without a slug are told apart from those with one, not
  from each other.
* `Reconcile`: `roadmap.md` and `backlog.md` are read as one step, and group ids are
  not used again (pids are). A worktree whose directory is missing is not there.
  A salvage that removes a human's worktree of the same slug is a documented
  collision and left out.
* `Delivery`: checks take longer than the commands from push to PR; where
  `LateChecks` is `FALSE` they are registered before the first look. Auto-merge is
  available exactly where main is protected, and its enqueue may fail there. The coordinator takes each PR it was
  handed once, and two runs for one branch do not overlap. A run that gives up
  leaves auto-merge queued, and a direct squash merges the head there is.
* `Review`: one orchestrate at a time, with fixed lanes. Lanes that answer answer
  their priors honestly, and a lane that fails writes its failure sink unless its
  round is killed. Nothing is committed during a round. The judge, the autofix
  loop and the plan stage are left out, as are corrupt sinks and integrity
  blockers. Failures of lanes are bounded: a lane that fails for ever after the
  cap is spent has no way to a verdict. `Reopens` would let a tree be reviewed again
  while it is arbitrated.
* `Release`: publishing is enabled and versions are numbers, each release the next one
  and 0 the one before the first modelled; one commit stands
  for what others push at once. After a discard that had committed, main is ahead of
  origin. Preflight then names `git push origin main`, which the pre-push hook
  refuses without `NOLDOR_RELEASE_PUSH=1`, or a reconciliation by hand; `ResetMain` models
  the reset to origin's main, and merges or rebases of the leftover commit are left out. `NewPages` is off in `ReleaseLadder`, because a new
  page with a template twin stops every resume (see the findings).

## 6. Plan

Done: locks, drain loop, watcher's rails, inbox, reconciliation, delivery, review
rounds and push gate, release, as models; and every safety property of their runs as
a theorem.

Left, in this order:

1. Abstract specifications to be refined and proved: a release as one step per
   version, an inbox as a set of open incidents.
2. `Reopens` in the runs: rounds of a tree under arbitration, with the weaker promise
   that holds then (a receipt still vouches, by `ReceiptsVouch`).
3. To model: the minting of `Q-NNNN` ids over parallel branches, the session marker
   between two gate sessions, the dashboard's block edits.
