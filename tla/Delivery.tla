------------------------------- MODULE Delivery -------------------------------
(***************************************************************************)
(* How a branch reaches main: `pnpm noldor pr-flow' (core/pr-flow.ts), run *)
(* once per branch and run again by the operator after a failure, and      *)
(* mergePr (autonomous/drain-io.ts), with which the drain's coordinator    *)
(* merges the PRs its children only opened.  Both talk to one repository   *)
(* on GitHub, which checks heads, merges by itself where auto-merge was    *)
(* queued, and sees other branches land in between.                        *)
(*                                                                         *)
(* Every branch starts with the same commit, "work": the local commit that *)
(* two processes deliver.  The operator may add a fix, named after the     *)
(* branch, and may rebase.                                                 *)
(***************************************************************************)
EXTENDS Naturals, Sequences, FiniteSets

CONSTANTS
    Branch,
    LateChecks,    \* a look at a pushed head may come before its checks register
    Red,           \* bound: the branches whose checks may fail
    Adjacent,      \* bound: the branches that a landing may make conflict
    MaxFailures    \* bound: failed commands, deaths and polls given up early

ASSUME DeliveryAssumption ==
    /\ LateChecks \in BOOLEAN /\ MaxFailures \in Nat
    /\ Red \subseteq Branch /\ Adjacent \subseteq Branch

VARIABLES
    protected,   \* main is protected: GitHub asks for green checks and an up-to-date
                 \* head, and takes auto-merge
    work,        \* work[b]: the commits of the local branch
    base,        \* base[b]: the length of main it is based on
    head,        \* head[b]: the branch on origin
    lease,       \* lease[b]: origin's branch as this clone last saw it
    checks,      \* checks[b]: the check runs of origin's head
    dirty,       \* the branches that conflict with main
    pr,          \* pr[b]: the latest pull request of the branch
    main,        \* main of origin: the squashed commits in order
    run,         \* run[b]: the pr-flow of the branch: where it is, whether it
                 \* only opens the PR, and the length of main its guard saw
    done,        \* the branches reported as delivered
    sup,         \* the coordinator's mergePr: its branch, its step and its flags
    failures

hub == <<head, checks, dirty, pr, main>>
vars == <<protected, work, base, hub, lease, run, done, sup, failures>>

Commits == {"work"} \cup Branch
Heads == [work : SUBSET Commits, base : Nat]
NoHead == [work |-> {}, base |-> 0]
Idle == [b |-> "none", at |-> "idle", auto |-> FALSE, tried |-> FALSE]

NoRun == [at |-> "idle", opens |-> FALSE, seen |-> 0]
NoPr == [st |-> "none", auto |-> FALSE, handed |-> FALSE, seen |-> 0]

Init ==
    /\ protected \in BOOLEAN
    /\ work = [b \in Branch |-> {"work"}] /\ base = [b \in Branch |-> 0]
    /\ head = [b \in Branch |-> NoHead] /\ lease = head
    /\ checks = [b \in Branch |-> "none"] /\ dirty = {}
    /\ pr = [b \in Branch |-> NoPr] /\ main = <<>>
    /\ run = [b \in Branch |-> NoRun] /\ done = {}
    /\ sup = Idle /\ failures = 0

Set(f, b, v) == [f EXCEPT ![b] = v]
Goto(b, from, to) ==
    /\ run[b].at = from
    /\ run' = Set(run, b, IF to = "idle" THEN NoRun ELSE [run[b] EXCEPT !.at = to])
Fails == failures < MaxFailures /\ failures' = failures + 1

-----------------------------------------------------------------------------
(* What GitHub says of a pull request. *)

Open(b) == pr[b].st = "open"
Behind(b) == protected /\ head[b].base < Len(main)
Clean(b) == b \notin dirty /\ ~Behind(b) /\ checks[b] \in {"green", "none"}
Mergeable(b) ==
    Open(b) /\ b \notin dirty /\ (protected => ~Behind(b) /\ checks[b] = "green")

OnMain(b) == \A c \in work[b] : \E i \in 1..Len(main) : c \in main[i].work

Looks(b) == LateChecks \/ checks[b] # "none"

(* The i-th commit of main is this one commit. *)
Single(commits, i) == main[i].work = commits /\ Cardinality(commits) = 1

(* The head squashed onto main; the others may conflict with it from then on. *)
Lands(b) ==
    /\ main' = Append(main, [work |-> head[b].work, checks |-> checks[b],
                             again |-> \E i \in 1..pr[b].seen : Single(head[b].work, i)])
    /\ pr' = Set(pr, b, [NoPr EXCEPT !.st = "merged"])
    /\ \E S \in SUBSET (Adjacent \ {b}) : dirty' = dirty \cup S

(* A head arrives on origin: its checks start over. *)
Arrives(b, h) ==
    /\ head' = Set(head, b, h)
    /\ checks' = IF h = head[b] THEN checks ELSE Set(checks, b, "none")

-----------------------------------------------------------------------------
(* The operator. *)

Fix(b) ==
    /\ run[b].at = "idle" /\ b \notin done /\ sup.b # b
    /\ checks[b] = "red" /\ b \notin work[b]
    /\ work' = Set(work, b, work[b] \cup {b})
    /\ UNCHANGED <<protected, base, hub, lease, run, done, sup, failures>>

Rebase(b) ==
    /\ run[b].at = "idle" /\ b \notin done /\ sup.b # b
    /\ base[b] < Len(main) \/ b \in dirty \/ lease[b] # head[b]
    /\ base' = Set(base, b, Len(main)) /\ dirty' = dirty \ {b}
    /\ lease' = Set(lease, b, head[b])
    /\ UNCHANGED <<protected, work, head, checks, pr, main, run, done, sup, failures>>

-----------------------------------------------------------------------------
(* pr-flow. *)

(* The operator, or the supervisor, starts pr-flow until it reports the work   *)
(* as delivered.  A pool's child only opens the PR; the operator ships what is *)
(* left open.                                                                  *)
Starts(b, compared) ==
    /\ run[b].at = "idle"
    /\ \E opens \in BOOLEAN :
          /\ opens => ~Open(b)
          /\ run' = Set(run, b, [at |-> "push", opens |-> opens, seen |-> compared])
    /\ UNCHANGED done

(* `git cherry' after a fetch: each commit has its equivalent on main.  A squash *)
(* of several commits is the equivalent of none of them.                        *)
Redundant(b) == \A c \in work[b] : \E i \in 1..Len(main) : Single({c}, i)

(* Mutant: the delivery does not ask. *)
GoesAhead(b) ==
    /\ b \notin done /\ sup.b # b /\ Starts(b, Len(main))
    /\ UNCHANGED <<protected, work, base, hub, lease, sup, failures>>

Start(b) ==
    /\ b \notin done /\ sup.b # b /\ run[b].at = "idle"
    /\ IF Redundant(b)
         THEN done' = done \cup {b} /\ UNCHANGED run
         ELSE Starts(b, Len(main))
    /\ UNCHANGED <<protected, work, base, hub, lease, sup, failures>>

(* The fetch or the comparison fails: the guard lets the delivery through. *)
StartUnguarded(b) ==
    /\ b \notin done /\ sup.b # b /\ Starts(b, 0) /\ Fails
    /\ UNCHANGED <<protected, work, base, hub, lease, sup>>

(* --force-with-lease: refused when origin's branch is not the one last seen. *)
Push(b) ==
    /\ IF lease[b] = head[b]
         THEN LET h == [work |-> work[b], base |-> base[b]] IN
              Goto(b, "push", "find") /\ Arrives(b, h) /\ lease' = Set(lease, b, h)
         ELSE Goto(b, "push", "idle") /\ UNCHANGED <<head, checks, lease>>
    /\ UNCHANGED <<protected, work, base, dirty, pr, main, done, sup, failures>>

Opened(b) == IF run[b].opens THEN "idle" ELSE "merge"

(* Mutant: an open PR is not looked for. *)
NeverFinds(b) ==
    /\ Goto(b, "find", "create")
    /\ UNCHANGED <<protected, work, base, hub, lease, done, sup, failures>>

(* An open PR is refreshed and taken; the PR now offers what was just pushed. *)
Find(b) ==
    /\ IF Open(b)
         THEN /\ Goto(b, "find", Opened(b))
              /\ pr' = Set(pr, b, [pr[b] EXCEPT !.seen = run[b].seen,
                                                !.handed = @ \/ run[b].opens])
         ELSE Goto(b, "find", "create") /\ UNCHANGED pr
    /\ UNCHANGED <<protected, work, base, head, checks, dirty, main, lease, done, sup, failures>>

FindFailsOpen(b) ==
    /\ Goto(b, "find", "create") /\ Fails
    /\ UNCHANGED <<protected, work, base, hub, lease, done, sup>>

(* `gh pr create' refuses a head that has an open PR, and one that is gone. *)
Create(b) ==
    /\ IF Open(b) \/ head[b] = NoHead
         THEN Goto(b, "create", "idle") /\ UNCHANGED pr
         ELSE /\ Goto(b, "create", Opened(b))
              /\ pr' = Set(pr, b, [st |-> "open", auto |-> FALSE, handed |-> run[b].opens,
                                seen |-> run[b].seen])
    /\ UNCHANGED <<protected, work, base, head, checks, dirty, main, lease, done, sup, failures>>

(* The probe and `gh pr merge --auto', or the direct leg where that is refused: *)
(* the probe finds no protection, or the PR is closed.                          *)
Enqueue(b) ==
    /\ IF protected /\ pr[b].st # "closed"
         THEN /\ Goto(b, "merge", "auto")
              /\ pr' = Set(pr, b, [pr[b] EXCEPT !.auto = Open(b)])
         ELSE Goto(b, "merge", "checks") /\ UNCHANGED pr
    /\ UNCHANGED <<protected, work, base, head, checks, dirty, main, lease, done, sup, failures>>

(* It fails for another reason: the direct leg of a protected repository. *)
EnqueueFails(b) ==
    /\ protected /\ Goto(b, "merge", "checks") /\ Fails
    /\ UNCHANGED <<protected, work, base, hub, lease, done, sup>>

PollAuto(b) ==
    /\ ~Open(b)
    /\ Goto(b, "auto", IF pr[b].st = "merged" THEN "delete" ELSE "idle")
    /\ UNCHANGED <<protected, work, base, hub, lease, done, sup, failures>>

(* Mutant: the direct leg waits for no check. *)
ChecksNothing(b) ==
    /\ Goto(b, "checks", "squash")
    /\ UNCHANGED <<protected, work, base, hub, lease, done, sup, failures>>

PollChecks(b) ==
    /\ checks[b] # "pending" /\ Looks(b)
    /\ Goto(b, "checks", IF checks[b] = "red" THEN "idle" ELSE "squash")
    /\ UNCHANGED <<protected, work, base, hub, lease, done, sup, failures>>

(* `gh pr merge --squash' merges whatever head the PR has by then; the verdict *)
(* is the PR's state, not gh's exit code.                                      *)
Squash(b) ==
    /\ IF Mergeable(b) THEN Lands(b) ELSE UNCHANGED <<main, pr, dirty>>
    /\ Goto(b, "squash", IF pr'[b].st = "merged" THEN "delete" ELSE "idle")
    /\ UNCHANGED <<protected, work, base, head, checks, lease, done, sup, failures>>

(* The delete is best effort: a branch may stay. *)
Delete(b) ==
    /\ Goto(b, "delete", "idle") /\ done' = done \cup {b}
    /\ \/ head' = Set(head, b, NoHead) /\ lease' = Set(lease, b, NoHead)
       \/ UNCHANGED <<head, lease>>
    /\ UNCHANGED <<protected, work, base, checks, dirty, pr, main, sup, failures>>

(* The PR cannot merge as it is, however long the poll. *)
Stuck(b) == Open(b) /\ (b \in dirty \/ Behind(b) \/ checks[b] = "red")

(* A poll's deadline: an auto-merge that was queued stays queued. *)
GiveUp(b) ==
    /\ run[b].at \in {"auto", "checks"} /\ run' = Set(run, b, NoRun)
    /\ IF Stuck(b) THEN UNCHANGED failures ELSE Fails
    /\ UNCHANGED <<protected, work, base, hub, lease, done, sup>>

(* Any command fails, or the session is killed. *)
Dies(b) ==
    /\ run[b].at # "idle" /\ run' = Set(run, b, NoRun) /\ Fails
    /\ UNCHANGED <<protected, work, base, hub, lease, done, sup>>

-----------------------------------------------------------------------------
(* The coordinator's mergePr, one PR at a time, after the child that opened it. *)

SupTake(b) ==
    /\ sup = Idle /\ run[b].at = "idle" /\ b \notin done /\ Open(b) /\ pr[b].handed
    /\ sup' = [b |-> b, at |-> "view", auto |-> protected, tried |-> FALSE]
    /\ pr' = Set(pr, b, [pr[b] EXCEPT !.auto = @ \/ protected, !.handed = FALSE])
    /\ UNCHANGED <<protected, work, base, head, checks, dirty, main, lease, run, done, failures>>

(* The slug has shipped; a fix that was never pushed is still to be delivered. *)
SupMerged(b) ==
    /\ sup.b = b /\ sup.at = "view" /\ pr[b].st = "merged"
    /\ sup' = Idle /\ done' = IF OnMain(b) THEN done \cup {b} ELSE done
    /\ UNCHANGED <<protected, work, base, hub, lease, run, failures>>

(* The first conflict is resolved by a rebase of origin's branch in a scratch  *)
(* checkout of the same clone, if it is one of the roadmap; auto-merge is      *)
(* queued again.  The second is left to the operator.                          *)
SupConflict(b) ==
    /\ sup.b = b /\ sup.at = "view" /\ Open(b) /\ b \in dirty
    /\ \/ /\ sup' = Idle
          /\ UNCHANGED <<hub, lease>>
       \/ /\ ~sup.tried /\ sup' = [sup EXCEPT !.tried = TRUE]
          /\ Arrives(b, [head[b] EXCEPT !.base = Len(main)])
          /\ lease' = head'
          /\ dirty' = dirty \ {b}
          /\ pr' = Set(pr, b, [pr[b] EXCEPT !.auto = @ \/ protected])
          /\ UNCHANGED main
    /\ UNCHANGED <<protected, work, base, run, done, failures>>

(* `gh pr update-branch' moves the branch on origin only. *)
SupUpdate(b) ==
    /\ sup.b = b /\ sup.at = "view" /\ Open(b) /\ b \notin dirty /\ Behind(b)
    /\ Arrives(b, [head[b] EXCEPT !.base = Len(main)])
    /\ UNCHANGED <<protected, work, base, dirty, pr, main, lease, run, done, sup, failures>>

SupSeesClean(b) ==
    /\ sup.b = b /\ sup.at = "view" /\ Open(b) /\ Clean(b) /\ Looks(b) /\ ~sup.auto
    /\ sup' = [sup EXCEPT !.at = "squash"]
    /\ UNCHANGED <<protected, work, base, hub, lease, run, done, failures>>

SupSquash(b) ==
    /\ sup.b = b /\ sup.at = "squash" /\ sup' = [sup EXCEPT !.at = "view"]
    /\ IF Mergeable(b) THEN Lands(b) ELSE UNCHANGED <<main, pr, dirty>>
    /\ UNCHANGED <<protected, work, base, head, checks, lease, run, done, failures>>

(* merge-timeout: the PR is reported as left open, its auto-merge as queued.   *)
SupGivesUp(b) ==
    /\ sup.b = b /\ sup.at = "view" /\ sup' = Idle
    /\ pr[b].st # "merged" /\ ~(Open(b) /\ b \in dirty)
    /\ IF Stuck(b) \/ ~Open(b) THEN UNCHANGED failures ELSE Fails
    /\ UNCHANGED <<protected, work, base, hub, lease, run, done>>

-----------------------------------------------------------------------------
(* GitHub. *)

ChecksRegister(b) ==
    /\ head[b] # NoHead /\ checks[b] = "none"
    /\ checks' = Set(checks, b, "pending")
    /\ UNCHANGED <<protected, work, base, head, dirty, pr, main, lease, run, done, sup, failures>>

(* The checks take longer than the commands from a push to its PR, and pass for *)
(* what has the fix.                                                            *)
ChecksEnd(b) ==
    /\ checks[b] = "pending" /\ run[b].at \notin {"find", "create"}
    /\ \E verdict \in {"green", "red"} :
          /\ b \in head[b].work \/ b \notin Red => verdict = "green"
          /\ checks' = Set(checks, b, verdict)
    /\ UNCHANGED <<protected, work, base, head, dirty, pr, main, lease, run, done, sup, failures>>

(* Auto-merge waits for what the branch protection asks for; the repository may *)
(* delete the head of what it merged.                                           *)
AutoMerges(b) ==
    /\ pr[b].auto /\ Mergeable(b) /\ Lands(b)
    /\ head' = Set(head, b, NoHead) \/ UNCHANGED head
    /\ UNCHANGED <<protected, work, base, checks, lease, run, done, sup, failures>>

HumanCloses(b) ==
    /\ Open(b) /\ Fails
    /\ pr' = Set(pr, b, [NoPr EXCEPT !.st = "closed"])
    /\ UNCHANGED <<protected, work, base, head, checks, dirty, main, lease, run, done, sup>>

-----------------------------------------------------------------------------
Flow(b) ==
    \/ Push(b) \/ Find(b) \/ Create(b) \/ Enqueue(b)
    \/ PollAuto(b) \/ PollChecks(b) \/ Squash(b) \/ Delete(b)
FlowFails(b) == StartUnguarded(b) \/ FindFailsOpen(b) \/ EnqueueFails(b) \/ Dies(b)
Sup(b) ==
    \/ SupMerged(b) \/ SupConflict(b) \/ SupUpdate(b)
    \/ SupSeesClean(b) \/ SupSquash(b)
Hub(b) == ChecksRegister(b) \/ ChecksEnd(b) \/ AutoMerges(b)

Next == \E b \in Branch :
    \/ Start(b) \/ Fix(b) \/ Rebase(b)
    \/ Flow(b) \/ FlowFails(b) \/ GiveUp(b)
    \/ SupTake(b) \/ Sup(b) \/ SupGivesUp(b)
    \/ Hub(b) \/ HumanCloses(b)

(* A process goes on and a poll ends; GitHub checks and merges; the operator runs *)
(* pr-flow until the work is delivered and repairs what it came back with.        *)
Fairness == \A b \in Branch :
    /\ WF_vars(Start(b)) /\ SF_vars(Fix(b) \/ Rebase(b))
    /\ WF_vars(Flow(b) \/ GiveUp(b)) /\ WF_vars(Sup(b) \/ SupGivesUp(b))
    /\ WF_vars(ChecksRegister(b) \/ ChecksEnd(b)) /\ WF_vars(AutoMerges(b))

Spec == Init /\ [][Next]_vars /\ Fairness

-----------------------------------------------------------------------------
TypeOK ==
    /\ protected \in BOOLEAN
    /\ work \in [Branch -> SUBSET Commits] /\ base \in [Branch -> Nat]
    /\ head \in [Branch -> Heads] /\ lease \in [Branch -> Heads]
    /\ checks \in [Branch -> {"none", "pending", "green", "red"}]
    /\ dirty \subseteq Branch /\ done \subseteq Branch
    /\ pr \in [Branch -> [st : {"none", "open", "merged", "closed"},
                          auto : BOOLEAN, handed : BOOLEAN, seen : Nat]]
    /\ run \in [Branch -> [at : {"idle", "push", "find", "create", "merge", "auto", "checks",
                                "squash", "delete"}, opens : BOOLEAN, seen : Nat]]
    /\ main \in Seq([work : SUBSET Commits, checks : {"none", "pending", "green", "red"},
                     again : BOOLEAN])
    /\ sup \in [b : Branch \cup {"none"}, at : {"idle", "view", "squash"},
                auto : BOOLEAN, tried : BOOLEAN]
    /\ failures \in 0..MaxFailures

(* Whichever leg merges, in a repository with protection or without, what lands  *)
(* had all its checks registered and passed (pollChecksBeforeMerge and the CLEAN *)
(* of mergePr).                                                                  *)
OnlyGreenLands == \A i \in 1..Len(main) : main[i].checks = "green"

(* No delivery lands a single commit that was on main when its guard compared:   *)
(* over retries, PRs that merge after their run gave up, and another branch with *)
(* that commit (checkRedundantDelivery).                                         *)
LandsOnce == \A i \in 1..Len(main) : ~main[i].again

(* Work that is delivered again after every failure lands: no open PR, red head, *)
(* conflict, closed PR or moved branch strands it (findOpenPrForBranch, mergePr).*)
WorkLands ==
    \A b \in Branch : <>[]OnMain(b)
=============================================================================
