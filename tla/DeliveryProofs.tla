----------------------------- MODULE DeliveryProofs -----------------------------
(***************************************************************************)
(* What TLAPS proves of the ways to main for any branches, failing checks, *)
(* conflicts and number of failures.                                       *)
(***************************************************************************)
EXTENDS Delivery, FiniteSetTheorems, TLAPS

Verdict == {"none", "pending", "green", "red"}
Pr == [st : {"none", "open", "merged", "closed"}, auto : BOOLEAN, handed : BOOLEAN, seen : Nat]
Step == {"idle", "push", "find", "create", "merge", "auto", "checks", "squash", "delete"}
Run == [at : Step, opens : BOOLEAN, seen : Nat]
Landing == [work : SUBSET Commits, checks : Verdict, again : BOOLEAN]
Merge == [b : Branch \cup {"none"}, at : {"idle", "view", "squash"},
          auto : BOOLEAN, tried : BOOLEAN]

-----------------------------------------------------------------------------
(* The shapes of what the steps write. *)

(* Initial and reset records. *)
LEMMA Resets ==
    /\ NoHead \in Heads /\ NoRun \in Run /\ NoPr \in Pr /\ Idle \in Merge
    /\ \A st \in {"merged", "closed"} :
          LET p == [NoPr EXCEPT !.st = st]
          IN  p \in Pr /\ p.st = st /\ p.auto = FALSE /\ p.seen = 0
<1>1. NoHead \in Heads
  BY DEF NoHead, Heads
<1>2. NoRun \in Run
  BY DEF NoRun, Run, Step
<1>3. NoPr \in Pr
  BY DEF NoPr, Pr
<1>4. Idle \in Merge
  BY DEF Idle, Merge
<1>5. ASSUME NEW st \in {"merged", "closed"}, NEW p, p = [NoPr EXCEPT !.st = st]
      PROVE  p \in Pr /\ p.st = st /\ p.auto = FALSE /\ p.seen = 0
  <2>1. NoPr.auto = FALSE /\ NoPr.seen = 0
    BY DEF NoPr
  <2> QED
    BY <1>3, <1>5, <2>1 DEF Pr
<1> QED
  BY <1>1, <1>2, <1>3, <1>4, <1>5

LEMMA PrEdits ==
    ASSUME NEW p \in Pr, NEW auto \in BOOLEAN, NEW handed \in BOOLEAN, NEW seen \in Nat
    PROVE  /\ [p EXCEPT !.auto = auto] \in Pr
           /\ [p EXCEPT !.auto = auto].auto = auto /\ [p EXCEPT !.auto = auto].seen = p.seen
           /\ [p EXCEPT !.auto = auto].st = p.st
           /\ [p EXCEPT !.auto = auto, !.handed = handed] \in Pr
           /\ [p EXCEPT !.auto = auto, !.handed = handed].auto = auto
           /\ [p EXCEPT !.auto = auto, !.handed = handed].seen = p.seen
           /\ [p EXCEPT !.auto = auto, !.handed = handed].st = p.st
           /\ [p EXCEPT !.seen = seen, !.handed = handed] \in Pr
           /\ [p EXCEPT !.seen = seen, !.handed = handed].auto = p.auto
           /\ [p EXCEPT !.seen = seen, !.handed = handed].seen = seen
           /\ [p EXCEPT !.seen = seen, !.handed = handed].st = p.st
  BY DEF Pr

LEMMA Rebased ==
    ASSUME NEW h \in Heads, NEW n \in Nat
    PROVE  /\ [h EXCEPT !.base = n] \in Heads
           /\ [h EXCEPT !.base = n].work = h.work
  BY DEF Heads

(* What a step of pr-flow leaves in its run. *)
LEMMA GotoIsTyped ==
    ASSUME run \in [Branch -> Run], NEW b \in Branch, NEW from, NEW to \in Step, Goto(b, from, to)
    PROVE  /\ run' \in [Branch -> Run] /\ run[b].at = from /\ run'[b].at = to
           /\ run'[b].seen \in {0, run[b].seen}
           /\ to # "idle" => run'[b].seen = run[b].seen
           /\ \A c \in Branch \ {b} : run'[c] = run[c]
<1> DEFINE r == IF to = "idle" THEN NoRun ELSE [run[b] EXCEPT !.at = to]
<1>1. r \in Run /\ r.at = to /\ (IF to = "idle" THEN r.seen = 0 ELSE r.seen = run[b].seen)
  <2>1. CASE to = "idle"
    BY <2>1 DEF NoRun, Run, Step
  <2>2. CASE to # "idle"
    <3>1. run[b] \in Run
      OBVIOUS
    <3>2. [run[b] EXCEPT !.at = to] \in Run
      BY <3>1 DEF Run
    <3>3. [run[b] EXCEPT !.at = to].at = to /\ [run[b] EXCEPT !.at = to].seen = run[b].seen
      BY <3>1 DEF Run
    <3> QED
      BY <2>2, <3>2, <3>3
  <2> QED
    BY <2>1, <2>2
<1>2. run' = Set(run, b, r) /\ run[b].at = from
  BY DEF Goto
<1> HIDE DEF r
<1> QED
  BY <1>1, <1>2 DEF Set

(* A squash appends one landing, ends its pull request and breaks others. *)
LEMMA LandsIsTyped ==
    ASSUME TypeOK, NEW b \in Branch, Lands(b)
    PROVE  /\ \E l \in Landing : /\ main' = Append(main, l)
                                 /\ l.checks = checks[b] /\ l.work = head[b].work
                                 /\ l.again <=> \E i \in 1..pr[b].seen : Single(head[b].work, i)
           /\ main' \in Seq(Landing)
           /\ pr' \in [Branch -> Pr] /\ pr'[b].st = "merged" /\ pr'[b].auto = FALSE
           /\ pr'[b].seen = 0 /\ \A c \in Branch \ {b} : pr'[c] = pr[c]
           /\ dirty' \subseteq Branch
<1> DEFINE again == \E i \in 1..pr[b].seen : Single(head[b].work, i)
           l == [work |-> head[b].work, checks |-> checks[b], again |-> again]
<1>1. again \in BOOLEAN
  OBVIOUS
<1>2. main' = Append(main, l) /\ l.again = again
  BY DEF Lands
<1> HIDE DEF again
<1>3. l \in Landing
  BY <1>1 DEF TypeOK, Landing, Heads, Verdict
<1>4. main \in Seq(Landing)
  BY DEF TypeOK, Landing, Verdict
<1>5. main' \in Seq(Landing)
  BY <1>2, <1>3, <1>4
<1>6. /\ pr' \in [Branch -> Pr] /\ pr'[b].st = "merged" /\ pr'[b].auto = FALSE
      /\ pr'[b].seen = 0 /\ \A c \in Branch \ {b} : pr'[c] = pr[c]
  <2> DEFINE m == [NoPr EXCEPT !.st = "merged"]
  <2>1. pr' = Set(pr, b, m)
    BY DEF Lands
  <2>2. m \in Pr /\ m.st = "merged" /\ m.auto = FALSE /\ m.seen = 0
    BY Resets
  <2>3. pr \in [Branch -> Pr]
    BY DEF TypeOK, Pr
  <2> HIDE DEF m
  <2> QED
    BY <2>1, <2>2, <2>3 DEF Set
<1>7. dirty' \subseteq Branch
  BY DeliveryAssumption DEF Lands, TypeOK
<1>8. l.checks = checks[b] /\ l.work = head[b].work
  OBVIOUS
<1> HIDE DEF l
<1> QED
  BY <1>2, <1>3, <1>5, <1>6, <1>7, <1>8 DEF again

LEMMA ArrivesIsTyped ==
    ASSUME TypeOK, NEW b \in Branch, NEW h \in Heads, Arrives(b, h)
    PROVE  /\ head' \in [Branch -> Heads] /\ head'[b] = h
           /\ \A c \in Branch \ {b} : head'[c] = head[c] /\ checks'[c] = checks[c]
           /\ checks' \in [Branch -> Verdict] /\ checks'[b] \in {"none", checks[b]}
<1>1. head \in [Branch -> Heads] /\ checks \in [Branch -> Verdict]
  BY DEF TypeOK, Verdict
<1>2. head' = Set(head, b, h)
  BY DEF Arrives
<1>3. CASE h = head[b]
  BY <1>1, <1>2, <1>3 DEF Arrives, Set
<1>4. CASE h # head[b]
  <2>1. checks' = Set(checks, b, "none") /\ "none" \in Verdict
    BY <1>4 DEF Arrives, Verdict
  <2> QED
    BY <1>1, <1>2, <2>1 DEF Set
<1> QED
  BY <1>3, <1>4

-----------------------------------------------------------------------------
(* The type invariant, with the sets above for its records. *)

Shaped ==
    /\ protected \in BOOLEAN
    /\ work \in [Branch -> SUBSET Commits] /\ base \in [Branch -> Nat]
    /\ head \in [Branch -> Heads] /\ lease \in [Branch -> Heads]
    /\ checks \in [Branch -> Verdict] /\ dirty \subseteq Branch /\ done \subseteq Branch
    /\ pr \in [Branch -> Pr] /\ run \in [Branch -> Run]
    /\ main \in Seq(Landing) /\ sup \in Merge /\ failures \in 0..MaxFailures

LEMMA Shapes == (TypeOK <=> Shaped) /\ (TypeOK' <=> Shaped')
  BY DEF TypeOK, Shaped, Verdict, Pr, Step, Run, Landing, Merge

LEMMA TypeInit == Init => Shaped
<1> SUFFICES ASSUME Init PROVE Shaped
  OBVIOUS
<1>1. protected \in BOOLEAN
  BY DEF Init
<1>2. work \in [Branch -> SUBSET Commits] /\ base \in [Branch -> Nat]
      /\ checks \in [Branch -> Verdict] /\ dirty \subseteq Branch /\ done \subseteq Branch
      /\ failures \in 0..MaxFailures /\ main \in Seq(Landing)
  BY DeliveryAssumption DEF Init, Commits, Verdict
<1>3. /\ head \in [Branch -> Heads] /\ lease \in [Branch -> Heads]
      /\ pr \in [Branch -> Pr] /\ run \in [Branch -> Run] /\ sup \in Merge
  BY Resets DEF Init
<1> QED
  BY <1>1, <1>2, <1>3 DEF Shaped

LEMMA FaultIsTyped == Shaped /\ Fails => failures' \in 0..MaxFailures
  BY DeliveryAssumption DEF Shaped, Fails

(* What pr-flow writes. *)
LEMMA FlowTypes ==
    ASSUME Shaped, NEW b \in Branch, Flow(b)
    PROVE  Shaped'
<1> USE DEF hub
<1>0. TypeOK
  BY Shapes
<1>1. CASE Push(b)
  <2> DEFINE h == [work |-> work[b], base |-> base[b]]
  <2>1. h \in Heads
    BY DEF Shaped, Heads
  <2>2. run' \in [Branch -> Run]
    <3>1. \E to \in {"find", "idle"} : Goto(b, "push", to)
      BY <1>1 DEF Push
    <3> QED
      BY <3>1, GotoIsTyped DEF Step, Shaped
  <2>3. head' \in [Branch -> Heads] /\ lease' \in [Branch -> Heads] /\ checks' \in [Branch -> Verdict]
    <3>1. CASE lease[b] = head[b]
      <4>1. Arrives(b, h) /\ lease' = Set(lease, b, h)
        BY <1>1, <3>1 DEF Push
      <4> HIDE DEF h
      <4> QED
        BY <1>0, <2>1, <4>1, ArrivesIsTyped DEF Shaped, Set
    <3>2. CASE lease[b] # head[b]
      BY <1>1, <3>2 DEF Push, Shaped
    <3> QED
      BY <3>1, <3>2
  <2> QED
    BY <1>1, <2>2, <2>3 DEF Push, Shaped
<1>2. CASE Find(b)
  <2>1. run' \in [Branch -> Run]
    <3>1. \E to \in Step : Goto(b, "find", to)
      BY <1>2 DEF Find, Opened, Step
    <3> QED
      BY <3>1, GotoIsTyped DEF Shaped
  <2>2. pr' \in [Branch -> Pr]
    <3>1. CASE Open(b)
      <4> DEFINE handed == pr[b].handed \/ run[b].opens
                 p == [pr[b] EXCEPT !.seen = run[b].seen, !.handed = handed]
      <4>1. run[b].seen \in Nat /\ handed \in BOOLEAN /\ pr[b] \in Pr
        BY DEF Shaped, Run
      <4>2. pr' = Set(pr, b, p)
        BY <1>2, <3>1 DEF Find
      <4> HIDE DEF handed
      <4>3. p \in Pr
        BY <4>1, PrEdits
      <4> QED
        BY <4>2, <4>3 DEF Shaped, Set
    <3> QED
      BY <1>2, <3>1 DEF Find, Shaped
  <2> QED
    BY <1>2, <2>1, <2>2 DEF Find, Shaped
<1>3. CASE Create(b)
  <2>1. run' \in [Branch -> Run]
    <3>1. \E to \in Step : Goto(b, "create", to)
      BY <1>3 DEF Create, Opened, Step
    <3> QED
      BY <3>1, GotoIsTyped DEF Shaped
  <2>2. pr' \in [Branch -> Pr]
    <3>1. CASE ~(Open(b) \/ head[b] = NoHead)
      <4> DEFINE p == [st |-> "open", auto |-> FALSE, handed |-> run[b].opens, seen |-> run[b].seen]
      <4>1. p \in Pr
        BY DEF Shaped, Run, Pr
      <4>2. pr' = Set(pr, b, p)
        BY <1>3, <3>1 DEF Create
      <4> HIDE DEF p
      <4> QED
        BY <4>1, <4>2 DEF Shaped, Set
    <3> QED
      BY <1>3, <3>1 DEF Create, Shaped
  <2> QED
    BY <1>3, <2>1, <2>2 DEF Create, Shaped
<1>4. CASE Enqueue(b)
  <2>1. run' \in [Branch -> Run]
    <3>1. \E to \in Step : Goto(b, "merge", to)
      BY <1>4 DEF Enqueue, Step
    <3> QED
      BY <3>1, GotoIsTyped DEF Shaped
  <2>2. pr' \in [Branch -> Pr]
    <3>1. [pr[b] EXCEPT !.auto = Open(b)] \in Pr
      <4>1. Open(b) \in BOOLEAN /\ pr[b] \in Pr
        BY DEF Open, Shaped
      <4> QED
        BY <4>1, PrEdits
    <3> QED
      BY <1>4, <3>1 DEF Enqueue, Shaped, Set
  <2> QED
    BY <1>4, <2>1, <2>2 DEF Enqueue, Shaped
<1>5. CASE PollAuto(b) \/ PollChecks(b)
  <2>1. \E from, to \in Step : Goto(b, from, to)
    BY <1>5 DEF PollAuto, PollChecks, Step
  <2>2. run' \in [Branch -> Run]
    BY <2>1, GotoIsTyped DEF Shaped
  <2> QED
    BY <1>5, <2>2 DEF PollAuto, PollChecks, Shaped
<1>6. CASE Squash(b)
  <2>1. \E to \in Step : Goto(b, "squash", to)
    BY <1>6 DEF Squash, Step
  <2>2. run' \in [Branch -> Run]
    BY <2>1, GotoIsTyped DEF Shaped
  <2>3. main' \in Seq(Landing) /\ pr' \in [Branch -> Pr] /\ dirty' \subseteq Branch
    BY <1>0, <1>6, LandsIsTyped DEF Squash, Shaped
  <2> QED
    BY <1>6, <2>2, <2>3 DEF Squash, Shaped
<1>7. CASE Delete(b)
  <2>1. run' \in [Branch -> Run]
    BY <1>7, GotoIsTyped DEF Delete, Shaped, Step
  <2>2. head' \in [Branch -> Heads] /\ lease' \in [Branch -> Heads]
    BY <1>7, Resets DEF Delete, Shaped, Set
  <2> QED
    BY <1>7, <2>1, <2>2 DEF Delete, Shaped
<1> QED
  BY <1>1, <1>2, <1>3, <1>4, <1>5, <1>6, <1>7 DEF Flow

(* What the coordinator writes. *)
LEMMA SupTypes ==
    ASSUME Shaped, NEW b \in Branch, SupTake(b) \/ Sup(b) \/ SupGivesUp(b)
    PROVE  Shaped'
<1> USE DEF hub
<1>0. TypeOK
  BY Shapes
<1> DEFINE auto == pr[b].auto \/ protected
<1>a. auto \in BOOLEAN /\ pr[b] \in Pr
  BY DEF Shaped
<1>1. CASE SupTake(b)
  <2>1. sup' \in Merge
    BY <1>1 DEF SupTake, Shaped, Merge
  <2>2. pr' = Set(pr, b, [pr[b] EXCEPT !.auto = auto, !.handed = FALSE])
    BY <1>1 DEF SupTake
  <2> HIDE DEF auto
  <2>3. pr' \in [Branch -> Pr]
    BY <1>a, <2>2, PrEdits DEF Shaped, Set
  <2> QED
    BY <1>1, <2>1, <2>3 DEF SupTake, Shaped
<1>2. CASE SupMerged(b)
  BY <1>2, Resets DEF SupMerged, Shaped
<1>3. CASE SupConflict(b)
  <2>1. CASE sup' = Idle /\ UNCHANGED <<hub, lease>>
    BY <1>3, <2>1, Resets DEF SupConflict, Shaped
  <2>2. CASE ~(sup' = Idle /\ UNCHANGED <<hub, lease>>)
    <3> DEFINE h == [head[b] EXCEPT !.base = Len(main)]
    <3>1. h \in Heads
      BY Rebased DEF Shaped
    <3>2. /\ sup' = [sup EXCEPT !.tried = TRUE] /\ Arrives(b, h) /\ lease' = head'
          /\ dirty' = dirty \ {b} /\ main' = main
          /\ pr' = Set(pr, b, [pr[b] EXCEPT !.auto = auto])
      BY <1>3, <2>2 DEF SupConflict
    <3> HIDE DEF auto, h
    <3>3. pr' \in [Branch -> Pr]
      BY <1>a, <3>2, PrEdits DEF Shaped, Set
    <3>4. sup' \in Merge
      BY <3>2 DEF Shaped, Merge
    <3>5. head' \in [Branch -> Heads] /\ checks' \in [Branch -> Verdict]
      BY <1>0, <3>1, <3>2, ArrivesIsTyped
    <3> QED
      BY <1>3, <3>2, <3>3, <3>4, <3>5 DEF SupConflict, Shaped
  <2> QED
    BY <2>1, <2>2
<1>4. CASE SupUpdate(b)
  <2> DEFINE h == [head[b] EXCEPT !.base = Len(main)]
  <2>1. h \in Heads /\ Arrives(b, h)
    BY <1>4, Rebased DEF SupUpdate, Shaped
  <2> HIDE DEF h
  <2>2. head' \in [Branch -> Heads] /\ checks' \in [Branch -> Verdict]
    BY <1>0, <2>1, ArrivesIsTyped
  <2> QED
    BY <1>4, <2>2 DEF SupUpdate, Shaped
<1>5. CASE SupSeesClean(b)
  <2>1. sup' \in Merge
    BY <1>5 DEF SupSeesClean, Shaped, Merge
  <2> QED
    BY <1>5, <2>1 DEF SupSeesClean, Shaped
<1>6. CASE SupSquash(b)
  <2>1. sup' \in Merge
    BY <1>6 DEF SupSquash, Shaped, Merge
  <2>2. main' \in Seq(Landing) /\ pr' \in [Branch -> Pr] /\ dirty' \subseteq Branch
    BY <1>0, <1>6, LandsIsTyped DEF SupSquash, Shaped
  <2> QED
    BY <1>6, <2>1, <2>2 DEF SupSquash, Shaped
<1>7. CASE SupGivesUp(b)
  <2>1. failures' \in 0..MaxFailures
    BY <1>7, FaultIsTyped DEF SupGivesUp, Shaped
  <2> QED
    BY <1>7, <2>1, Resets DEF SupGivesUp, Shaped
<1> QED
  BY <1>1, <1>2, <1>3, <1>4, <1>5, <1>6, <1>7 DEF Sup

(* What the operator, the failures and GitHub write. *)
LEMMA OthersTypes ==
    ASSUME Shaped, NEW b \in Branch,
           \/ Start(b) \/ Fix(b) \/ Rebase(b) \/ FlowFails(b) \/ GiveUp(b)
           \/ Hub(b) \/ HumanCloses(b)
    PROVE  Shaped'
<1> USE DEF hub
<1>0. TypeOK
  BY Shapes
<1>1. ASSUME NEW n \in Nat, Starts(b, n) PROVE run' \in [Branch -> Run]
  <2>1. PICK opens \in BOOLEAN : run' = Set(run, b, [at |-> "push", opens |-> opens, seen |-> n])
    BY <1>1 DEF Starts
  <2>2. [at |-> "push", opens |-> opens, seen |-> n] \in Run
    BY DEF Run, Step
  <2> QED
    BY <2>1, <2>2 DEF Shaped, Set
<1>2. CASE Start(b)
  <2>1. Len(main) \in Nat
    BY DEF Shaped
  <2>2. run' \in [Branch -> Run] /\ done' \subseteq Branch
    BY <1>1, <1>2, <2>1 DEF Start, Starts, Shaped
  <2> QED
    BY <1>2, <2>2 DEF Start, Shaped
<1>3. CASE Fix(b)
  BY <1>3 DEF Fix, Shaped, Set, Commits
<1>4. CASE Rebase(b)
  <2>1. base' \in [Branch -> Nat] /\ lease' \in [Branch -> Heads]
    BY <1>4 DEF Rebase, Shaped, Set
  <2> QED
    BY <1>4, <2>1 DEF Rebase, Shaped
<1>5. CASE StartUnguarded(b)
  <2>1. failures' \in 0..MaxFailures
    BY <1>5, FaultIsTyped DEF StartUnguarded
  <2> QED
    BY <1>1, <1>5, <2>1 DEF StartUnguarded, Starts, Shaped
<1>6. CASE FindFailsOpen(b) \/ EnqueueFails(b)
  <2>1. run' \in [Branch -> Run]
    BY <1>6, GotoIsTyped DEF FindFailsOpen, EnqueueFails, Shaped, Step
  <2> QED
    BY <1>6, <2>1, FaultIsTyped DEF FindFailsOpen, EnqueueFails, Shaped
<1>7. CASE Dies(b) \/ GiveUp(b)
  <2>1. run' \in [Branch -> Run]
    BY <1>7, Resets DEF Dies, GiveUp, Shaped, Set
  <2> QED
    BY <1>7, <2>1, FaultIsTyped DEF Dies, GiveUp, Shaped
<1>8. CASE ChecksRegister(b) \/ ChecksEnd(b)
  <2>1. checks' \in [Branch -> Verdict]
    BY <1>8 DEF ChecksRegister, ChecksEnd, Shaped, Set, Verdict
  <2> QED
    BY <1>8, <2>1 DEF ChecksRegister, ChecksEnd, Shaped
<1>9. CASE AutoMerges(b)
  <2>1. main' \in Seq(Landing) /\ pr' \in [Branch -> Pr] /\ dirty' \subseteq Branch
    BY <1>0, <1>9, LandsIsTyped DEF AutoMerges
  <2>2. head' \in [Branch -> Heads]
    BY <1>9, Resets DEF AutoMerges, Shaped, Set
  <2> QED
    BY <1>9, <2>1, <2>2 DEF AutoMerges, Shaped
<1>10. CASE HumanCloses(b)
  <2>1. pr' \in [Branch -> Pr]
    BY <1>10, Resets DEF HumanCloses, Shaped, Set
  <2> QED
    BY <1>10, <2>1, FaultIsTyped DEF HumanCloses, Shaped
<1> QED
  BY <1>2, <1>3, <1>4, <1>5, <1>6, <1>7, <1>8, <1>9, <1>10 DEF FlowFails, Hub

LEMMA TypeStep == Shaped /\ [Next]_vars => Shaped'
<1>1. ASSUME Shaped, UNCHANGED vars PROVE Shaped'
  BY <1>1 DEF vars, hub, Shaped
<1> QED
  BY <1>1, FlowTypes, SupTypes, OthersTypes DEF Next

(* Branches, pull requests, runs, the coordinator and main keep their shapes, over *)
(* any number of branches and failures (pr-flow.ts, drain-io.ts).                  *)
THEOREM TypeCorrect == Spec => []TypeOK
<1>1. Shaped => TypeOK
  BY Shapes
<1> QED
  BY <1>1, TypeInit, TypeStep, PTL DEF Spec

-----------------------------------------------------------------------------
(* Only what is green lands. *)

(* Auto-merge is queued in a protected repository only; the coordinator takes a branch *)
(* whose run has ended; and whoever is about to squash directly saw the head green,    *)
(* which nobody replaces until then.                                                   *)
Green ==
    /\ \A b \in Branch : pr[b].auto => protected
    /\ \A b \in Branch : sup.at # "idle" /\ sup.b = b => run[b].at = "idle"
    /\ \A b \in Branch : run[b].at = "squash" => checks[b] = "green"
    /\ \A b \in Branch : sup.at = "squash" /\ sup.b = b => checks[b] = "green"
    /\ OnlyGreenLands

LEMMA GreenInit == Init => Green
  BY DEF Init, Green, NoPr, NoRun, Idle, OnlyGreenLands

(* Green as a property of what it reads. *)
LEMMA GreenElsewhere ==
    ASSUME Green, UNCHANGED <<protected, pr, sup, run, checks, main>>
    PROVE  Green'
  BY DEF Green, OnlyGreenLands

(* A squash of a green head. *)
LEMMA GreenLands ==
    ASSUME Shaped, OnlyGreenLands, NEW b \in Branch, checks[b] = "green", Lands(b)
    PROVE  OnlyGreenLands'
<1>1. PICK l \in Landing : main' = Append(main, l) /\ l.checks = checks[b]
  BY Shapes, LandsIsTyped
<1> QED
  BY <1>1 DEF OnlyGreenLands, Shaped

LEMMA GreenFlow ==
    ASSUME ~LateChecks, Shaped, Green, NEW b \in Branch, Flow(b)
    PROVE  Green'
<1> USE DEF hub
<1>0. TypeOK /\ run \in [Branch -> Run] /\ pr \in [Branch -> Pr]
  BY Shapes DEF Shaped
<1>1. CASE Push(b)
  <2>1. \E to \in {"find", "idle"} : Goto(b, "push", to)
    BY <1>1 DEF Push
  <2>2. run[b].at = "push" /\ run'[b].at \in {"find", "idle"}
        /\ \A c \in Branch \ {b} : run'[c] = run[c]
    BY <1>0, <2>1, GotoIsTyped DEF Step
  <2>3. \A c \in Branch \ {b} : checks'[c] = checks[c]
    <3>1. CASE lease[b] = head[b]
      <4>1. [work |-> work[b], base |-> base[b]] \in Heads
        BY DEF Shaped, Heads
      <4> QED
        BY <1>0, <1>1, <3>1, <4>1, ArrivesIsTyped DEF Push
    <3> QED
      BY <1>1, <3>1 DEF Push
  <2> QED
    BY <1>1, <2>2, <2>3 DEF Push, Green, OnlyGreenLands
<1>2. CASE Find(b)
  <2>1. \E to \in {"idle", "merge", "create"} : Goto(b, "find", to)
    BY <1>2 DEF Find, Opened
  <2>2. run[b].at = "find" /\ run'[b].at \in {"idle", "merge", "create"}
        /\ \A c \in Branch \ {b} : run'[c] = run[c]
    BY <1>0, <2>1, GotoIsTyped DEF Step
  <2>3. \A c \in Branch : pr'[c].auto = pr[c].auto
    <3>1. CASE Open(b)
      <4> DEFINE handed == pr[b].handed \/ run[b].opens
      <4>1. run[b].seen \in Nat /\ handed \in BOOLEAN /\ pr[b] \in Pr
        BY <1>0 DEF Run
      <4>2. pr' = Set(pr, b, [pr[b] EXCEPT !.seen = run[b].seen, !.handed = handed])
        BY <1>2, <3>1 DEF Find
      <4> HIDE DEF handed
      <4>3. [pr[b] EXCEPT !.seen = run[b].seen, !.handed = handed].auto = pr[b].auto
        BY <4>1 DEF Pr
      <4> QED
        BY <1>0, <4>2, <4>3 DEF Set
    <3> QED
      BY <1>2, <3>1 DEF Find
  <2> QED
    BY <1>2, <2>2, <2>3 DEF Find, Green, OnlyGreenLands
<1>3. CASE Create(b)
  <2>1. \E to \in {"idle", "merge"} : Goto(b, "create", to)
    BY <1>3 DEF Create, Opened
  <2>2. run[b].at = "create" /\ run'[b].at \in {"idle", "merge"}
        /\ \A c \in Branch \ {b} : run'[c] = run[c]
    BY <1>0, <2>1, GotoIsTyped DEF Step
  <2>3. \A c \in Branch : pr'[c].auto => pr[c].auto
    BY <1>0, <1>3 DEF Create, Set
  <2> QED
    BY <1>3, <2>2, <2>3 DEF Create, Green, OnlyGreenLands
<1>4. CASE Enqueue(b)
  <2>1. \E to \in {"auto", "checks"} : Goto(b, "merge", to)
    BY <1>4 DEF Enqueue
  <2>2. run[b].at = "merge" /\ run'[b].at \in {"auto", "checks"}
        /\ \A c \in Branch \ {b} : run'[c] = run[c]
    BY <1>0, <2>1, GotoIsTyped DEF Step
  <2>3. \A c \in Branch : pr'[c].auto => pr[c].auto \/ protected
    BY <1>0, <1>4 DEF Enqueue, Set
  <2> QED
    BY <1>4, <2>2, <2>3 DEF Enqueue, Green, OnlyGreenLands
<1>5. CASE PollAuto(b)
  <2>1. \E to \in {"delete", "idle"} : Goto(b, "auto", to)
    BY <1>5 DEF PollAuto
  <2>2. run[b].at = "auto" /\ run'[b].at \in {"delete", "idle"}
        /\ \A c \in Branch \ {b} : run'[c] = run[c]
    BY <1>0, <2>1, GotoIsTyped DEF Step
  <2> QED
    BY <1>5, <2>2 DEF PollAuto, Green, OnlyGreenLands
<1>6. CASE PollChecks(b)
  <2>1. checks[b] \in {"red", "green"}
    BY <1>6 DEF PollChecks, Looks, Shaped, Verdict
  <2>2. Goto(b, "checks", IF checks[b] = "red" THEN "idle" ELSE "squash")
    BY <1>6 DEF PollChecks
  <2>3. run[b].at = "checks" /\ run'[b].at = (IF checks[b] = "red" THEN "idle" ELSE "squash")
        /\ \A c \in Branch \ {b} : run'[c] = run[c]
    BY <1>0, <2>2, GotoIsTyped DEF Step
  <2> QED
    BY <1>6, <2>1, <2>3 DEF PollChecks, Green, OnlyGreenLands
<1>7. CASE Squash(b)
  <2>1. \E to \in {"delete", "idle"} : Goto(b, "squash", to)
    BY <1>7 DEF Squash
  <2>2. run[b].at = "squash" /\ run'[b].at \in {"delete", "idle"}
        /\ \A c \in Branch \ {b} : run'[c] = run[c]
    BY <1>0, <2>1, GotoIsTyped DEF Step
  <2>3. CASE Mergeable(b)
    <3>1. Lands(b)
      BY <1>7, <2>3 DEF Squash
    <3>2. OnlyGreenLands'
      BY <2>2, <3>1, GreenLands DEF Green
    <3>3. \A c \in Branch : pr'[c].auto => pr[c].auto
      BY <1>0, <3>1, LandsIsTyped
    <3> QED
      BY <1>7, <2>2, <3>2, <3>3 DEF Squash, Green
  <2>4. CASE ~Mergeable(b)
    BY <1>7, <2>2, <2>4 DEF Squash, Green, OnlyGreenLands
  <2> QED
    BY <2>3, <2>4
<1>8. CASE Delete(b)
  <2>1. run[b].at = "delete" /\ run'[b].at = "idle" /\ \A c \in Branch \ {b} : run'[c] = run[c]
    BY <1>0, <1>8, GotoIsTyped DEF Delete, Step
  <2> QED
    BY <1>8, <2>1 DEF Delete, Green, OnlyGreenLands
<1> QED
  BY <1>1, <1>2, <1>3, <1>4, <1>5, <1>6, <1>7, <1>8 DEF Flow

LEMMA GreenSup ==
    ASSUME ~LateChecks, Shaped, Green, NEW b \in Branch, SupTake(b) \/ Sup(b) \/ SupGivesUp(b)
    PROVE  Green'
<1> USE DEF hub
<1>0. TypeOK /\ pr \in [Branch -> Pr] /\ sup \in Merge
  BY Shapes DEF Shaped
<1>1. CASE SupTake(b)
  <2>1. \A c \in Branch : pr'[c].auto => pr[c].auto \/ protected
    BY <1>0, <1>1 DEF SupTake, Set, Pr
  <2>2. sup'.b = b /\ sup'.at = "view" /\ run[b].at = "idle"
    BY <1>1 DEF SupTake
  <2> QED
    BY <1>1, <2>1, <2>2 DEF SupTake, Green, OnlyGreenLands
<1>2. CASE SupMerged(b) \/ SupGivesUp(b)
  BY <1>2 DEF SupMerged, SupGivesUp, Idle, Green, OnlyGreenLands
<1>3. ASSUME NEW n \in Nat, sup.b = b, sup.at = "view", sup'.b = b, sup'.at = "view",
             Arrives(b, [head[b] EXCEPT !.base = n]), run' = run, main' = main,
             protected' = protected, \A c \in Branch : pr'[c].auto => pr[c].auto \/ protected
      PROVE  Green'
  <2> DEFINE h == [head[b] EXCEPT !.base = n]
  <2>1. h \in Heads /\ Arrives(b, h)
    BY <1>3, Rebased DEF Shaped
  <2> HIDE DEF h
  <2>2. \A c \in Branch \ {b} : checks'[c] = checks[c]
    BY <1>0, <2>1, ArrivesIsTyped
  <2> QED
    BY <1>3, <2>2 DEF Green, OnlyGreenLands
<1>4. CASE SupConflict(b)
  <2>1. CASE sup' = Idle /\ UNCHANGED <<hub, lease>>
    BY <1>4, <2>1 DEF SupConflict, Idle, Green, OnlyGreenLands
  <2>2. CASE ~(sup' = Idle /\ UNCHANGED <<hub, lease>>)
    <3>1. /\ sup' = [sup EXCEPT !.tried = TRUE] /\ main' = main
          /\ Arrives(b, [head[b] EXCEPT !.base = Len(main)])
          /\ pr' = Set(pr, b, [pr[b] EXCEPT !.auto = @ \/ protected])
      BY <1>4, <2>2 DEF SupConflict
    <3>2. \A c \in Branch : pr'[c].auto => pr[c].auto \/ protected
      BY <1>0, <3>1 DEF Set, Pr
    <3>3. sup.b = b /\ sup.at = "view" /\ sup'.b = b /\ sup'.at = "view"
      BY <1>0, <1>4, <3>1 DEF SupConflict, Merge
    <3>4. Len(main) \in Nat
      BY DEF Shaped
    <3> QED
      BY <1>3, <1>4, <3>1, <3>2, <3>3, <3>4 DEF SupConflict
  <2> QED
    BY <2>1, <2>2
<1>5. CASE SupUpdate(b)
  <2>1. Len(main) \in Nat
    BY DEF Shaped
  <2> QED
    BY <1>3, <1>5, <2>1 DEF SupUpdate
<1>6. CASE SupSeesClean(b)
  <2>1. checks[b] = "green"
    BY <1>6 DEF SupSeesClean, Clean, Looks
  <2>2. sup'.b = b /\ sup.b = b
    BY <1>0, <1>6 DEF SupSeesClean, Merge
  <2> QED
    BY <1>6, <2>1, <2>2 DEF SupSeesClean, Green, OnlyGreenLands
<1>7. CASE SupSquash(b)
  <2>1. sup.b = b /\ sup.at = "squash" /\ sup'.b = b /\ sup'.at = "view" /\ checks[b] = "green"
    BY <1>0, <1>7 DEF SupSquash, Merge, Green
  <2>2. CASE Mergeable(b)
    <3>1. Lands(b)
      BY <1>7, <2>2 DEF SupSquash
    <3>2. OnlyGreenLands'
      BY <2>1, <3>1, GreenLands DEF Green
    <3>3. \A c \in Branch : pr'[c].auto => pr[c].auto
      BY <1>0, <3>1, LandsIsTyped
    <3> QED
      BY <1>7, <2>1, <3>2, <3>3 DEF SupSquash, Green
  <2>3. CASE ~Mergeable(b)
    BY <1>7, <2>1, <2>3 DEF SupSquash, Green, OnlyGreenLands
  <2> QED
    BY <2>2, <2>3
<1> QED
  BY <1>1, <1>2, <1>4, <1>5, <1>6, <1>7 DEF Sup

LEMMA GreenOthers ==
    ASSUME ~LateChecks, Shaped, Green, NEW b \in Branch,
           \/ Start(b) \/ Fix(b) \/ Rebase(b) \/ FlowFails(b) \/ GiveUp(b)
           \/ Hub(b) \/ HumanCloses(b)
    PROVE  Green'
<1> USE DEF hub
<1>0. TypeOK /\ run \in [Branch -> Run] /\ pr \in [Branch -> Pr]
  BY Shapes DEF Shaped
(* A run that starts is of no branch that the coordinator has. *)
<1>1. ASSUME NEW n, Starts(b, n), sup.b # b, UNCHANGED <<protected, pr, sup, checks, main>>
      PROVE  Green'
  <2>1. run'[b].at = "push" /\ \A c \in Branch \ {b} : run'[c] = run[c]
    BY <1>0, <1>1 DEF Starts, Set
  <2> QED
    BY <1>1, <2>1 DEF Green, OnlyGreenLands
<1>2. CASE Start(b)
  <2>1. CASE run' = run
    BY <1>2, <2>1, GreenElsewhere DEF Start
  <2>2. CASE Starts(b, Len(main))
    BY <1>1, <1>2, <2>2 DEF Start
  <2> QED
    BY <1>2, <2>1, <2>2 DEF Start
<1>3. CASE Fix(b)
  BY <1>3, GreenElsewhere DEF Fix
<1>4. CASE Rebase(b)
  BY <1>4, GreenElsewhere DEF Rebase
<1>5. CASE StartUnguarded(b)
  BY <1>1, <1>5 DEF StartUnguarded
<1>6. CASE FindFailsOpen(b) \/ EnqueueFails(b)
  <2>1. /\ run[b].at \in {"find", "merge"} /\ run'[b].at \in {"create", "checks"}
        /\ \A c \in Branch \ {b} : run'[c] = run[c]
    BY <1>0, <1>6, GotoIsTyped DEF FindFailsOpen, EnqueueFails, Step
  <2> QED
    BY <1>6, <2>1 DEF FindFailsOpen, EnqueueFails, Green, OnlyGreenLands
<1>7. CASE Dies(b) \/ GiveUp(b)
  <2>1. run'[b].at = "idle" /\ \A c \in Branch \ {b} : run'[c] = run[c]
    BY <1>0, <1>7 DEF Dies, GiveUp, Set, NoRun
  <2> QED
    BY <1>7, <2>1 DEF Dies, GiveUp, Green, OnlyGreenLands
<1>8. CASE ChecksRegister(b) \/ ChecksEnd(b)
  <2>1. checks[b] # "green" /\ \A c \in Branch \ {b} : checks'[c] = checks[c]
    BY <1>8 DEF ChecksRegister, ChecksEnd, Set, Shaped
  <2> QED
    BY <1>8, <2>1 DEF ChecksRegister, ChecksEnd, Green, OnlyGreenLands
<1>9. CASE AutoMerges(b)
  <2>1. Lands(b) /\ checks[b] = "green"
    BY <1>9 DEF AutoMerges, Mergeable, Green
  <2>2. OnlyGreenLands'
    BY <2>1, GreenLands DEF Green
  <2>3. \A c \in Branch : pr'[c].auto => pr[c].auto
    BY <1>0, <2>1, LandsIsTyped
  <2> QED
    BY <1>9, <2>2, <2>3 DEF AutoMerges, Green
<1>10. CASE HumanCloses(b)
  <2>1. \A c \in Branch : pr'[c].auto => pr[c].auto
    BY <1>0, <1>10, Resets DEF HumanCloses, Set
  <2> QED
    BY <1>10, <2>1 DEF HumanCloses, Green, OnlyGreenLands
<1> QED
  BY <1>2, <1>3, <1>4, <1>5, <1>6, <1>7, <1>8, <1>9, <1>10 DEF FlowFails, Hub

(* Where the checks of a head register before anybody looks at it, whatever lands on main *)
(* has passed them all: over both ways to merge, protected or not, any retries, late      *)
(* auto-merges and branches that move (pollChecksBeforeMerge, the CLEAN of mergePr).      *)
THEOREM LandingsAreGreen == ~LateChecks => (Spec => []OnlyGreenLands)
<1> SUFFICES ASSUME ~LateChecks PROVE Spec => []OnlyGreenLands
  OBVIOUS
<1>1. Shaped /\ Green /\ [Next]_vars => Green'
  <2>1. ASSUME Green, UNCHANGED vars PROVE Green'
    BY <2>1, GreenElsewhere DEF vars, hub
  <2> QED
    BY <2>1, GreenFlow, GreenSup, GreenOthers DEF Next
<1>2. Green => OnlyGreenLands
  BY DEF Green
<1> QED
  BY <1>1, <1>2, TypeInit, TypeStep, GreenInit, PTL DEF Spec

-----------------------------------------------------------------------------
(* A commit lands once. *)

(* The commit that every branch starts with was on main when main was n commits long. *)
Known(n) == \E i \in 1..n : main[i].work = {"work"}

(* Whoever compared a branch with a main that had its one commit went on only with a fix *)
(* on top; what was pushed since, and what its pull request offers, has the fix.         *)
Tells(b) ==
    /\ "work" \in work[b] /\ work[b] \subseteq {"work", b}
    /\ head[b].work = {} \/ ("work" \in head[b].work /\ head[b].work \subseteq {"work", b})
    /\ run[b].seen =< Len(main) /\ pr[b].seen =< Len(main)
    /\ Known(run[b].seen) =>
           /\ work[b] # {"work"}
           /\ run[b].at \in {"find", "create"} => head[b].work # {"work"}
    /\ Known(pr[b].seen) => work[b] # {"work"} /\ head[b].work # {"work"}

Once == LandsOnce /\ \A b \in Branch : Tells(b)

LEMMA OnceInit == Init => Once
  BY DEF Init, Once, LandsOnce, Tells, Known, NoHead, NoRun, NoPr

LEMMA SingleWork ==
    ASSUME NEW b, NEW S, S = {} \/ ("work" \in S /\ S \subseteq {"work", b}), Cardinality(S) = 1
    PROVE  S = {"work"}
<1>1. IsFiniteSet({"work", b})
  <2>1. {"work", b} = {"work"} \cup {b}
    OBVIOUS
  <2>2. IsFiniteSet({"work"})
    BY FS_Singleton
  <2>3. IsFiniteSet({"work"} \cup {b})
    BY <2>2, FS_AddElement
  <2> QED
    BY <2>1, <2>3
<1>2. IsFiniteSet(S)
  BY <1>1, FS_EmptySet, FS_Subset
<1>3. \E x : S = {x}
  BY <1>2, FS_Singleton
<1> QED
  BY <1>3

(* Main only grows: what was known of a prefix stays so. *)
Grows == main' = main \/ \E l \in Landing : main' = Append(main, l)

LEMMA KnownStays ==
    ASSUME Shaped, Grows, NEW n \in Nat, n =< Len(main)
    PROVE  /\ n =< Len(main')
           /\ (\E i \in 1..n : main'[i].work = {"work"}) <=> Known(n)
<1>1. main \in Seq(Landing) /\ Len(main) \in Nat
  BY DEF Shaped
<1>2. Len(main) =< Len(main') /\ \A i \in 1..n : main'[i] = main[i]
  BY <1>1 DEF Grows
<1>3. n =< Len(main')
  BY <1>1, <1>2 DEF Grows
<1> QED
  BY <1>2, <1>3 DEF Known

(* A branch whose commits stay, whose head stays or goes, whose run and pull request do *)
(* no new comparison.                                                                   *)
LEMMA TellsOn ==
    ASSUME Shaped, Shaped', Grows, NEW c \in Branch, Tells(c),
           work'[c] = work[c], head'[c].work \in {{}, head[c].work},
           run'[c].seen \in {0, run[c].seen}, pr'[c].seen \in {0, pr[c].seen},
           run'[c].at \in {"find", "create"} => run[c].at \in {"find", "create"}
    PROVE  Tells(c)'
<1>1. run[c].seen \in Nat /\ pr[c].seen \in Nat /\ 0 \in Nat /\ Len(main) \in Nat
  BY DEF Shaped, Run, Pr
<1>2. \A n \in {0, run[c].seen, pr[c].seen} :
        /\ n \in Nat /\ n =< Len(main) /\ n =< Len(main')
        /\ (\E i \in 1..n : main'[i].work = {"work"}) <=> Known(n)
  <2> SUFFICES ASSUME NEW n \in {0, run[c].seen, pr[c].seen}
               PROVE  /\ n \in Nat /\ n =< Len(main) /\ n =< Len(main')
                      /\ (\E i \in 1..n : main'[i].work = {"work"}) <=> Known(n)
    OBVIOUS
  <2>1. n \in Nat /\ n =< Len(main)
    BY <1>1 DEF Tells
  <2> QED
    BY <2>1, KnownStays
<1>3. ~Known(0)
  BY DEF Known
<1>4. Known(run'[c].seen) => Known(run[c].seen)
  BY <1>3
<1>5. Known(pr'[c].seen) => Known(pr[c].seen)
  BY <1>3
<1>6. /\ run'[c].seen =< Len(main') /\ pr'[c].seen =< Len(main')
      /\ Known(run[c].seen)' => Known(run'[c].seen)
      /\ Known(pr[c].seen)' => Known(pr'[c].seen)
  BY <1>2 DEF Known
<1>7. work'[c] # {"work"} \/ ~Known(run[c].seen)'
  BY <1>4, <1>6 DEF Tells
<1> QED
  BY <1>4, <1>5, <1>6 DEF Tells

(* What lands was not known: neither to the run that opened or refreshed its pull *)
(* request, nor to anybody who merges it later.                                   *)
LEMMA OnceLands ==
    ASSUME Shaped, LandsOnce, NEW b \in Branch, Tells(b), Lands(b)
    PROVE  LandsOnce' /\ Grows
<1>1. PICK l \in Landing :
         /\ main' = Append(main, l)
         /\ l.again <=> \E i \in 1..pr[b].seen : Single(head[b].work, i)
  BY Shapes, LandsIsTyped
<1>2. ~l.again
  <2> SUFFICES ASSUME NEW i \in 1..pr[b].seen, Single(head[b].work, i) PROVE FALSE
    BY <1>1
  <2>1. main[i].work = head[b].work /\ Cardinality(head[b].work) = 1
    BY DEF Single
  <2>2. head[b].work = {"work"}
    BY <2>1, SingleWork DEF Tells
  <2> QED
    BY <2>1, <2>2 DEF Known, Tells
<1> QED
  BY <1>1, <1>2 DEF LandsOnce, Grows, Shaped

(* A guard that asked and went on found a fix, or a main without the commit. *)
LEMMA NotRedundant ==
    ASSUME Shaped, NEW b \in Branch, Tells(b), ~Redundant(b), Known(Len(main))
    PROVE  work[b] # {"work"}
<1> SUFFICES ASSUME work[b] = {"work"} PROVE FALSE
  OBVIOUS
<1>1. PICK i \in 1..Len(main) : main[i].work = {"work"}
  BY DEF Known
<1>2. Single({"work"}, i)
  BY <1>1, FS_Singleton DEF Single
<1> QED
  BY <1>1, <1>2 DEF Redundant

LEMMA OnceFlow ==
    ASSUME Shaped, Shaped', Once, NEW b \in Branch, Flow(b)
    PROVE  Once'
<1> USE DEF hub
<1>0. TypeOK /\ run \in [Branch -> Run] /\ pr \in [Branch -> Pr] /\ head \in [Branch -> Heads]
      /\ Len(main) \in Nat
  BY Shapes DEF Shaped
<1>1. CASE Push(b)
  <2>0. \E to \in {"find", "idle"} : Goto(b, "push", to)
    BY <1>1 DEF Push
  <2>1. /\ run[b].at = "push" /\ run'[b].seen \in {0, run[b].seen}
        /\ \A c \in Branch \ {b} : run'[c] = run[c]
    BY <1>0, <2>0, GotoIsTyped DEF Step
  <2>2. LandsOnce' /\ Grows
    BY <1>1 DEF Push, Once, LandsOnce, Grows
  <2>3. CASE lease[b] # head[b]
    <3>1. run'[b].at = "idle" /\ head' = head
      BY <1>0, <1>1, <2>3, GotoIsTyped DEF Push, Step
    <3>2. \A c \in Branch : Tells(c)'
      BY <1>1, <2>1, <2>2, <3>1, TellsOn DEF Push, Once
    <3> QED
      BY <2>2, <3>2 DEF Once
  <2>4. CASE lease[b] = head[b]
    <3> DEFINE h == [work |-> work[b], base |-> base[b]]
    <3>1. h \in Heads /\ h.work = work[b]
      BY DEF Shaped, Heads
    <3>2. Arrives(b, h)
      BY <1>1, <2>4 DEF Push
    <3> HIDE DEF h
    <3>3. head'[b].work = work[b] /\ \A c \in Branch \ {b} : head'[c] = head[c]
      BY <1>0, <3>1, <3>2, ArrivesIsTyped
    <3>4. \A c \in Branch \ {b} : Tells(c)'
      BY <1>1, <2>1, <2>2, <3>3, TellsOn DEF Push, Once
    <3>5. ~Known(0)
      BY DEF Known
    <3>6. Tells(b)'
      BY <1>1, <2>1, <3>3, <3>5 DEF Push, Once, Tells, Known
    <3> QED
      BY <2>2, <3>4, <3>6 DEF Once
  <2> QED
    BY <2>3, <2>4
<1>2. CASE Find(b)
  <2>0. \E to \in {"idle", "merge", "create"} : Goto(b, "find", to)
    BY <1>2 DEF Find, Opened
  <2>1. /\ run[b].at = "find" /\ run'[b].seen \in {0, run[b].seen}
        /\ \A c \in Branch \ {b} : run'[c] = run[c]
    BY <1>0, <2>0, GotoIsTyped DEF Step
  <2>2. LandsOnce' /\ Grows
    BY <1>2 DEF Find, Once, LandsOnce, Grows
  <2>3. pr'[b].seen \in {run[b].seen, pr[b].seen} /\ \A c \in Branch \ {b} : pr'[c] = pr[c]
    BY <1>0, <1>2 DEF Find, Set, Pr
  <2>4. \A c \in Branch \ {b} : Tells(c)'
    BY <1>2, <2>1, <2>2, <2>3, TellsOn DEF Find, Once
  <2>5. ~Known(0)
    BY DEF Known
  <2>6. Tells(b)'
    <3>1. work' = work /\ head' = head /\ main' = main
      BY <1>2 DEF Find
    <3>2. /\ Tells(b)
          /\ Known(run[b].seen) => head[b].work # {"work"}
      BY <2>1 DEF Once, Tells
    <3>3. /\ run'[b].seen =< Len(main) /\ pr'[b].seen =< Len(main)
          /\ Known(run'[b].seen) => work[b] # {"work"} /\ head[b].work # {"work"}
          /\ Known(pr'[b].seen) => work[b] # {"work"} /\ head[b].work # {"work"}
      BY <1>0, <2>1, <2>3, <2>5, <3>2 DEF Tells
    <3> QED
      BY <3>1, <3>2, <3>3 DEF Tells, Known
  <2> QED
    BY <2>2, <2>4, <2>6 DEF Once
<1>3. CASE Create(b)
  <2>0. \E to \in {"idle", "merge"} : Goto(b, "create", to)
    BY <1>3 DEF Create, Opened
  <2>1. /\ run[b].at = "create" /\ run'[b].seen \in {0, run[b].seen}
        /\ \A c \in Branch \ {b} : run'[c] = run[c]
    BY <1>0, <2>0, GotoIsTyped DEF Step
  <2>2. LandsOnce' /\ Grows
    BY <1>3 DEF Create, Once, LandsOnce, Grows
  <2>3. pr'[b].seen \in {run[b].seen, pr[b].seen} /\ \A c \in Branch \ {b} : pr'[c] = pr[c]
    BY <1>0, <1>3 DEF Create, Set
  <2>4. \A c \in Branch \ {b} : Tells(c)'
    BY <1>3, <2>1, <2>2, <2>3, TellsOn DEF Create, Once
  <2>5. ~Known(0)
    BY DEF Known
  <2>6. Tells(b)'
    <3>1. work' = work /\ head' = head /\ main' = main
      BY <1>3 DEF Create
    <3>2. /\ Tells(b)
          /\ Known(run[b].seen) => head[b].work # {"work"}
      BY <2>1 DEF Once, Tells
    <3>3. /\ run'[b].seen =< Len(main) /\ pr'[b].seen =< Len(main)
          /\ Known(run'[b].seen) => work[b] # {"work"} /\ head[b].work # {"work"}
          /\ Known(pr'[b].seen) => work[b] # {"work"} /\ head[b].work # {"work"}
      BY <1>0, <2>1, <2>3, <2>5, <3>2 DEF Tells
    <3> QED
      BY <3>1, <3>2, <3>3 DEF Tells, Known
  <2> QED
    BY <2>2, <2>4, <2>6 DEF Once
<1>4. CASE Enqueue(b) \/ PollAuto(b) \/ PollChecks(b) \/ Delete(b)
  <2>1. \E from \in Step, to \in Step \ {"find", "create"} : Goto(b, from, to)
    BY <1>4 DEF Enqueue, PollAuto, PollChecks, Delete, Step
  <2>2. /\ run'[b].seen \in {0, run[b].seen} /\ run'[b].at \notin {"find", "create"}
        /\ \A c \in Branch \ {b} : run'[c] = run[c]
    BY <1>0, <2>1, GotoIsTyped
  <2>3. \A c \in Branch : pr'[c].seen = pr[c].seen
    BY <1>0, <1>4 DEF Enqueue, PollAuto, PollChecks, Delete, Set, Pr
  <2>4. \A c \in Branch : head'[c].work \in {{}, head[c].work}
    BY <1>0, <1>4 DEF Enqueue, PollAuto, PollChecks, Delete, Set, NoHead
  <2>5. work' = work /\ main' = main
    BY <1>4 DEF Enqueue, PollAuto, PollChecks, Delete
  <2>6. \A c \in Branch : Tells(c)'
    BY <2>2, <2>3, <2>4, <2>5, TellsOn DEF Once, Grows
  <2> QED
    BY <2>5, <2>6 DEF Once, LandsOnce
<1>5. CASE Squash(b)
  <2>1. \E to \in {"delete", "idle"} : Goto(b, "squash", to)
    BY <1>5 DEF Squash
  <2>2. /\ run'[b].seen \in {0, run[b].seen} /\ run'[b].at \notin {"find", "create"}
        /\ \A c \in Branch \ {b} : run'[c] = run[c]
    BY <1>0, <2>1, GotoIsTyped DEF Step
  <2>3. LandsOnce' /\ Grows /\ \A c \in Branch : pr'[c].seen \in {0, pr[c].seen}
    <3>1. CASE Lands(b)
      BY <1>0, <3>1, LandsIsTyped, OnceLands DEF Once
    <3>2. CASE UNCHANGED <<main, pr>>
      BY <3>2 DEF Once, LandsOnce, Grows
    <3> QED
      BY <1>5, <3>1, <3>2 DEF Squash
  <2>4. \A c \in Branch : Tells(c)'
    BY <1>5, <2>2, <2>3, TellsOn DEF Squash, Once
  <2> QED
    BY <2>3, <2>4 DEF Once
<1> QED
  BY <1>1, <1>2, <1>3, <1>4, <1>5 DEF Flow

LEMMA OnceSup ==
    ASSUME Shaped, Shaped', Once, NEW b \in Branch, SupTake(b) \/ Sup(b) \/ SupGivesUp(b)
    PROVE  Once'
<1> USE DEF hub
<1>0. TypeOK /\ pr \in [Branch -> Pr] /\ head \in [Branch -> Heads] /\ Len(main) \in Nat
  BY Shapes DEF Shaped
<1>1. work' = work /\ run' = run
  BY DEF SupTake, Sup, SupMerged, SupConflict, SupUpdate, SupSeesClean, SupSquash, SupGivesUp
<1>2. \A c \in Branch : head'[c].work = head[c].work
  <2>1. CASE head' = head
    BY <2>1
  <2>2. CASE Arrives(b, [head[b] EXCEPT !.base = Len(main)])
    <3> DEFINE h == [head[b] EXCEPT !.base = Len(main)]
    <3>1. h \in Heads /\ h.work = head[b].work /\ Arrives(b, h)
      BY <1>0, <2>2, Rebased
    <3> HIDE DEF h
    <3> QED
      BY <1>0, <3>1, ArrivesIsTyped
  <2> QED
    BY <2>1, <2>2
    DEF SupTake, Sup, SupMerged, SupConflict, SupUpdate, SupSeesClean, SupSquash, SupGivesUp
<1>3. LandsOnce' /\ Grows /\ \A c \in Branch : pr'[c].seen \in {0, pr[c].seen}
  <2>1. CASE SupSquash(b) /\ Mergeable(b)
    <3>1. Lands(b)
      BY <2>1 DEF SupSquash
    <3> QED
      BY <1>0, <3>1, LandsIsTyped, OnceLands DEF Once
  <2>2. CASE ~(SupSquash(b) /\ Mergeable(b))
    <3>1. main' = main
      BY <2>2 DEF SupTake, Sup, SupMerged, SupConflict, SupUpdate, SupSeesClean, SupSquash, SupGivesUp
    <3>2. \A c \in Branch : pr'[c].seen = pr[c].seen
      <4>1. CASE SupTake(b) \/ SupConflict(b)
        <5> DEFINE auto == pr[b].auto \/ protected
        <5>1. auto \in BOOLEAN /\ pr[b] \in Pr
          BY <1>0 DEF Pr
        <5>2. \/ pr' = pr
              \/ pr' = Set(pr, b, [pr[b] EXCEPT !.auto = auto])
              \/ pr' = Set(pr, b, [pr[b] EXCEPT !.auto = auto, !.handed = FALSE])
          BY <4>1 DEF SupTake, SupConflict
        <5> HIDE DEF auto
        <5>3. /\ [pr[b] EXCEPT !.auto = auto].seen = pr[b].seen
              /\ [pr[b] EXCEPT !.auto = auto, !.handed = FALSE].seen = pr[b].seen
          BY <5>1 DEF Pr
        <5> QED
          BY <1>0, <5>2, <5>3 DEF Set
      <4>2. CASE ~(SupTake(b) \/ SupConflict(b))
        BY <2>2, <4>2 DEF Sup, SupMerged, SupUpdate, SupSeesClean, SupSquash, SupGivesUp
      <4> QED
        BY <4>1, <4>2
    <3> QED
      BY <3>1, <3>2 DEF Once, LandsOnce, Grows
  <2> QED
    BY <2>1, <2>2
<1>4. \A c \in Branch : Tells(c)'
  BY <1>1, <1>2, <1>3, TellsOn DEF Once
<1> QED
  BY <1>3, <1>4 DEF Once

LEMMA OnceOthers ==
    ASSUME Shaped, Shaped', Once, NEW b \in Branch,
           \/ Start(b) \/ Fix(b) \/ Rebase(b) \/ FlowFails(b) \/ GiveUp(b)
           \/ Hub(b) \/ HumanCloses(b)
    PROVE  Once'
<1> USE DEF hub
<1>0. TypeOK /\ run \in [Branch -> Run] /\ pr \in [Branch -> Pr] /\ head \in [Branch -> Heads]
      /\ Len(main) \in Nat
  BY Shapes DEF Shaped
<1>a. ~Known(0)
  BY DEF Known
(* What reads or writes none of it. *)
<1>b. ASSUME UNCHANGED <<work, head, run, pr, main>> PROVE Once'
  BY <1>b DEF Once, LandsOnce, Tells, Known
(* A new run has compared, or was let through and knows of nothing. *)
<1>1. ASSUME NEW n \in Nat, n =< Len(main), Known(n) => work[b] # {"work"}, Starts(b, n),
             UNCHANGED <<work, head, pr, main>>
      PROVE  Once'
  <2>1. run'[b].at = "push" /\ run'[b].seen = n /\ \A c \in Branch \ {b} : run'[c] = run[c]
    BY <1>0, <1>1 DEF Starts, Set
  <2> QED
    BY <1>1, <2>1 DEF Once, LandsOnce, Tells, Known
<1>2. CASE Start(b)
  <2>1. CASE Redundant(b)
    BY <1>2, <1>b, <2>1 DEF Start
  <2>2. CASE ~Redundant(b)
    <3>1. Known(Len(main)) => work[b] # {"work"}
      BY <2>2, NotRedundant DEF Once
    <3> QED
      BY <1>0, <1>1, <1>2, <2>2, <3>1 DEF Start
  <2> QED
    BY <2>1, <2>2
<1>3. CASE Fix(b)
  <2>1. work'[b] = work[b] \cup {b} /\ \A c \in Branch \ {b} : work'[c] = work[c]
    BY <1>3 DEF Fix, Set, Shaped
  <2>2. "work" \in work[b] /\ work[b] \subseteq {"work", b} /\ b \notin work[b]
    BY <1>3 DEF Fix, Once, Tells
  <2>3. b # "work"
    BY <2>2
  <2>4. work'[b] # {"work"} /\ "work" \in work'[b] /\ work'[b] \subseteq {"work", b}
    BY <2>1, <2>2, <2>3
  <2>5. head' = head /\ run' = run /\ pr' = pr /\ main' = main
    BY <1>3 DEF Fix
  <2>6. \A c \in Branch : Tells(c)'
    BY <2>1, <2>4, <2>5 DEF Once, Tells, Known
  <2> QED
    BY <2>5, <2>6 DEF Once, LandsOnce
<1>4. CASE Rebase(b) \/ ChecksRegister(b) \/ ChecksEnd(b)
  BY <1>4, <1>b DEF Rebase, ChecksRegister, ChecksEnd
<1>5. CASE StartUnguarded(b)
  BY <1>0, <1>1, <1>5, <1>a DEF StartUnguarded
<1>6. CASE FindFailsOpen(b) \/ EnqueueFails(b) \/ Dies(b) \/ GiveUp(b)
  <2>1. /\ run'[b].seen \in {0, run[b].seen}
        /\ run'[b].at \in {"find", "create"} => run[b].at \in {"find", "create"}
        /\ \A c \in Branch \ {b} : run'[c] = run[c]
    <3>1. CASE FindFailsOpen(b) \/ EnqueueFails(b)
      BY <1>0, <3>1, GotoIsTyped DEF FindFailsOpen, EnqueueFails, Step
    <3>2. CASE Dies(b) \/ GiveUp(b)
      BY <1>0, <3>2 DEF Dies, GiveUp, Set, NoRun
    <3> QED
      BY <1>6, <3>1, <3>2
  <2>2. work' = work /\ head' = head /\ pr' = pr /\ main' = main
    BY <1>6 DEF FindFailsOpen, EnqueueFails, Dies, GiveUp
  <2>3. \A c \in Branch : Tells(c)'
    BY <2>1, <2>2, TellsOn DEF Once, Grows
  <2> QED
    BY <2>2, <2>3 DEF Once, LandsOnce
<1>7. CASE AutoMerges(b)
  <2>1. LandsOnce' /\ Grows /\ \A c \in Branch : pr'[c].seen \in {0, pr[c].seen}
    BY <1>0, <1>7, LandsIsTyped, OnceLands DEF AutoMerges, Once
  <2>2. \A c \in Branch : head'[c].work \in {{}, head[c].work}
    BY <1>0, <1>7 DEF AutoMerges, Set, NoHead
  <2>3. \A c \in Branch : Tells(c)'
    BY <1>7, <2>1, <2>2, TellsOn DEF AutoMerges, Once
  <2> QED
    BY <2>1, <2>3 DEF Once
<1>8. CASE HumanCloses(b)
  <2>1. \A c \in Branch : pr'[c].seen \in {0, pr[c].seen}
    BY <1>0, <1>8, Resets DEF HumanCloses, Set
  <2>2. work' = work /\ head' = head /\ run' = run /\ main' = main
    BY <1>8 DEF HumanCloses
  <2>3. \A c \in Branch : Tells(c)'
    BY <2>1, <2>2, TellsOn DEF Once, Grows
  <2> QED
    BY <2>2, <2>3 DEF Once, LandsOnce
<1> QED
  BY <1>2, <1>3, <1>4, <1>5, <1>6, <1>7, <1>8 DEF FlowFails, Hub

(* A commit that was on main when the guard compared is not landed again: by no retry, no *)
(* auto-merge that outlives its run, no rebase of the coordinator and no other branch     *)
(* that carries the same commit (checkRedundantDelivery, before every push).              *)
THEOREM NothingLandsTwice == Spec => []LandsOnce
<1>1. Shaped /\ Shaped' /\ Once /\ [Next]_vars => Once'
  <2>1. ASSUME Once, UNCHANGED vars PROVE Once'
    BY <2>1 DEF vars, hub, Once, LandsOnce, Tells, Known
  <2> QED
    BY <2>1, OnceFlow, OnceSup, OnceOthers DEF Next
<1>2. Once => LandsOnce
  BY DEF Once
<1> QED
  BY <1>1, <1>2, TypeInit, TypeStep, OnceInit, PTL DEF Spec
===============================================================================
