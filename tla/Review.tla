-------------------------------- MODULE Review --------------------------------
(***************************************************************************)
(* The code-stage review of one gate session: the rounds that cr           *)
(* orchestrate dispatches, the sinks its lanes write, the round ledger     *)
(* that caps them, the arbitration record that closes a capped session,    *)
(* and the push gates that read all four.                                  *)
(*                                                                         *)
(* One step is one write: a round is a dispatch, one answer per lane, the  *)
(* receipt amend and the ledger append, and it may be killed between any   *)
(* two of them.  What a lane says of the tree is data: a tree has a set of *)
(* flaws, a lane files any of them and goes on filing what it was handed   *)
(* until the tree no longer has it.                                        *)
(***************************************************************************)
EXTENDS Naturals, Sequences, FiniteSets, SequencesExt

CONSTANTS Lane,          \* the lanes of every round: the reviewer and codex
          Finding,       \* what a lane may hold against the tree
          RoundCap,      \* AUTOFIX_ROUND_CAP
          MaxTree,       \* bound: trees of the branch
          Reopens,       \* a tree that is being arbitrated may be reviewed again
          MaxFaults      \* bound: lane failures, kills, failed amends, new sessions

ASSUME ReviewAssumption == /\ Lane # {} /\ Lane \cap Finding = {}
                           /\ RoundCap \in Nat /\ MaxTree \in Nat \ {0}
                           /\ MaxFaults \in Nat /\ Reopens \in BOOLEAN

VARIABLES tree,      \* HEAD^{tree}: how many commits the branch has
          reworded,  \* HEAD was amended since its commit, its tree unchanged
          flaws,     \* what a lane that looks at this tree stands by
          receipt,   \* the tip's receipt trailer names its tree
          claim,     \* the tip's override trailer, "none", "bare" or a record
          buried,    \* the override trailers of the commits below the tip
          sinks,     \* the lanes' result files
          expected,  \* the tree the expected-lanes record names, 0 for no record
          ledger,    \* the round ledger file
          mine,      \* the ledger belongs to the session that runs now
          ruled,     \* the operator's rulings that still hold
          record,    \* the arbitration record file
          run,       \* the orchestrate process
          faults,    \* faults so far
          pushed,    \* the branch was pushed
          owed       \* history: filed, neither fixed nor ruled on since

branch == <<tree, reworded, flaws, receipt, claim, buried, pushed>>
store == <<sinks, expected, ledger, mine, ruled, record>>
vars == <<branch, store, run, faults, owed>>

NoSink == [blockers |-> {}, errored |-> FALSE, at |-> 0]
NoRun == [phase |-> "none", todo |-> {}, ran |-> FALSE, closing |-> FALSE]
NoRecord == [tree |-> 0, blockers |-> {}, disposed |-> {}]

\* The override trailer of a commit: a free text, or the digest of a record.
None == <<>>
Bare == <<"bare">>
Named(r) == <<"named", r>>

\* HEAD's name: an amend changes it and keeps the tree.
HeadSha == <<tree, reworded>>

Init == /\ tree = 1 /\ reworded = FALSE /\ flaws \in SUBSET Finding
        /\ receipt = FALSE /\ claim = None /\ buried = {} /\ pushed = FALSE
        /\ sinks = [l \in Lane |-> NoSink] /\ expected = 0
        /\ ledger = <<>> /\ mine = FALSE /\ ruled = {} /\ record = NoRecord
        /\ run = NoRun /\ faults = 0 /\ owed = {}

-----------------------------------------------------------------------------
(* The ledger *)

Rounds == IF mine THEN ledger ELSE <<>>
Counted(s) == SelectSeq(s, LAMBDA r : ~r.laneError)
Reds(s) == Len(SelectSeq(Counted(s), LAMBDA r : r.red))
LastRed(s) == Counted(s) # <<>> /\ Last(Counted(s)).red

\* The cap is spent and the last verdict on record is red.
Capped(s) == Reds(s) > RoundCap /\ LastRed(s)

\* capVerdict: a red closing round is final; a red last round refuses the
\* head it was filed at, and any other head is the closing round.
ClosingSpent == \E i \in DOMAIN Rounds : Rounds[i].closing
Refused == /\ Reds(Rounds) > RoundCap
           /\ ClosingSpent \/ (LastRed(Rounds) /\ Last(Counted(Rounds)).head = HeadSha)
EarnsClosing == Capped(Rounds)

-----------------------------------------------------------------------------
(* The sinks *)

\* What the sinks hold: a lane stands for the blocker it files on itself.
Filed(l) == {<<l, f>> : f \in sinks[l].blockers}
              \cup (IF sinks[l].errored THEN {<<l, l>>} ELSE {})
AllFiled == UNION {Filed(l) : l \in Lane}
Standing == {p[2] : p \in AllFiled}

Green(l) == sinks[l].at # 0 /\ Filed(l) = {}

\* The priors a lane is handed: its own blockers, without those a ruling
\* settles and without its own failure.
Priors(l) == sinks[l].blockers \ ruled

\* The tree the delta is taken from: that of the last round recorded.
Base == IF Rounds = <<>> THEN 0 ELSE Last(Rounds).head[1]
EmptyDelta == Base = tree

\* priorRecordStands.
Stands(r) == r.tree = tree /\ r.blockers # {}

Idle == run.phase = "none" /\ ~pushed

Filled(r) == r.blockers # {} /\ r.disposed = r.blockers

\* Mutant: a free-text override passes the cap.
ArbitratedFreely(c) == Capped(ledger) /\ c # Bare => /\ c = Named(record)
                                                   /\ record.tree = tree
                                                   /\ Filled(record)

\* decideArbitration, for one override of the range.
Arbitrated(c) == Capped(ledger) => /\ c = Named(record)
                                   /\ record.tree = tree
                                   /\ Filled(record)

\* enforce-review-receipt for the tip, enforce-arbitration for the range.
Accepted == /\ receipt \/ claim # None
            /\ \A c \in buried \cup ({claim} \ {None}) : Arbitrated(c)

\* The gate asks for a round while the branch cannot be pushed.
Wants == Idle /\ ~receipt /\ ~Accepted

\* Dispatch: the expected lanes are recorded, and on an empty delta a lane
\* whose sink is green is written a synthetic pass instead of running.
Dispatch ==
  /\ Wants /\ ~Refused /\ (Reopens \/ ~Stands(record))
  /\ LET passed == IF EmptyDelta THEN {l \in Lane : Green(l)} ELSE {}
     IN /\ run' = [phase |-> "lanes", todo |-> Lane \ passed,
                   ran |-> passed # Lane, closing |-> EarnsClosing]
        /\ sinks' = [l \in Lane |-> IF l \in passed THEN [sinks[l] EXCEPT !.blockers = {}]
                                                    ELSE sinks[l]]
  /\ expected' = tree
  /\ UNCHANGED <<branch, ledger, mine, ruled, record, faults, owed>>

\* Mutant: the skeleton of an earlier tree is left standing.
SkeletonOnce == IF record.blockers # {} THEN record
                ELSE [tree |-> tree, blockers |-> Standing, disposed |-> {}]

\* The skeleton of the record: not over one that speaks for this tree, and
\* only from sinks that describe the last round.
Skeleton == IF Stands(record) \/ AllFiled # Last(Rounds).print
            THEN record
            ELSE [tree |-> tree, blockers |-> Standing, disposed |-> {}]

Refuse == /\ Wants /\ Refused
          /\ record' = Skeleton
          /\ UNCHANGED <<branch, sinks, expected, ledger, mine, ruled, run, faults, owed>>

Writes(l, blockers, errored) ==
  /\ run.phase = "lanes" /\ l \in run.todo
  /\ sinks' = [sinks EXCEPT ![l] = [blockers |-> blockers, errored |-> errored, at |-> tree]]
  /\ run' = [run EXCEPT !.todo = @ \ {l}]
  /\ owed' = owed \cup (blockers \cap flaws)
  /\ UNCHANGED <<branch, expected, ledger, mine, ruled, record>>

\* A lane carries every prior the tree still has and files what else it
\* sees; what restates a ruling that holds is filed as a suggestion.
Answers(l) == \E seen \in SUBSET flaws :
                /\ Writes(l, ((Priors(l) \cap flaws) \cup seen) \ ruled, FALSE)
                /\ UNCHANGED faults

Fault == faults < MaxFaults /\ faults' = faults + 1

\* Mutant: a lane that could not review forgets what it was handed.
FailsEmpty(l) == Fault /\ Writes(l, {}, TRUE)

\* A lane that could not review files its own failure and keeps its priors.
Fails(l) == Fault /\ Writes(l, Priors(l), TRUE)

\* Every lane has settled: the receipt is amended onto the tip if all are ok.
AllOk == \A l \in Lane : Filed(l) = {}
Mint == /\ run.phase = "lanes" /\ run.todo = {}
        /\ receipt' = (receipt \/ AllOk)
        /\ run' = [run EXCEPT !.phase = "record"]
        /\ UNCHANGED <<tree, reworded, flaws, claim, buried, pushed, store, faults, owed>>

MintFails == /\ Fault
             /\ run.phase = "lanes" /\ run.todo = {}
             /\ run' = [run EXCEPT !.phase = "record"]
             /\ UNCHANGED <<branch, store, owed>>

\* The round goes on the ledger; one of lane failures only does not count
\* and never closes the series.
AppendRound ==
  /\ run.phase = "record"
  /\ LET red == AllFiled # {}
         laneError == red /\ \A l \in Lane : Filed(l) # {} => sinks[l].errored
         round == [head |-> HeadSha, red |-> red, laneError |-> laneError,
                   closing |-> run.closing /\ red /\ ~laneError, print |-> AllFiled]
     IN IF run.ran THEN ledger' = Append(Rounds, round) /\ mine' = TRUE
                   ELSE UNCHANGED <<ledger, mine>>
  /\ run' = NoRun
  /\ UNCHANGED <<branch, sinks, expected, ruled, record, faults, owed>>

\* The process dies; whatever it wrote stays.
Killed == /\ run.phase # "none" /\ Fault
          /\ run' = NoRun
          /\ UNCHANGED <<branch, store, owed>>

\* The session dies and another attaches to the branch: its ledger and
\* rulings are its own, the sinks and the record are the branch's.
NewSession == /\ Idle /\ mine /\ Fault
              /\ mine' = FALSE /\ ruled' = {}
              /\ UNCHANGED <<branch, sinks, expected, ledger, record, run, owed>>

-----------------------------------------------------------------------------
(* The branch and its operator *)

\* A commit touches some findings' lines: it fixes, makes or leaves each,
\* and no ruling that cites them holds any longer.
Commit ==
  /\ Idle /\ tree < MaxTree
  /\ \E touched \in SUBSET Finding : \E left \in SUBSET touched :
       /\ flaws' = (flaws \ touched) \cup left
       /\ ruled' = ruled \ touched
       /\ owed' = owed \ (touched \ left)
  /\ tree' = tree + 1 /\ reworded' = FALSE
  /\ receipt' = FALSE /\ claim' = None
  /\ buried' = buried \cup ({claim} \ {None})
  /\ UNCHANGED <<pushed, sinks, expected, ledger, mine, record, run, faults>>

\* dispose before the cap: a ruling on a standing blocker.
Rule == /\ Idle /\ ~Stands(record) /\ expected # 0
        /\ \E f \in UNION {sinks[l].blockers : l \in Lane} \ ruled :
             ruled' = ruled \cup {f} /\ owed' = owed \ {f}
        /\ UNCHANGED <<branch, sinks, expected, ledger, mine, record, run, faults>>

\* dispose at the cap: the record's blocker, and the same ruling.
Dispose == /\ Idle /\ Stands(record)
           /\ \E b \in record.blockers \ record.disposed :
                /\ record' = [record EXCEPT !.disposed = @ \cup {b}]
                /\ ruled' = ruled \cup ({b} \cap Finding)
                /\ owed' = owed \ {b}
           /\ UNCHANGED <<branch, sinks, expected, ledger, mine, run, faults>>

Overrides(c) == /\ Idle /\ ~receipt
                /\ claim' = c /\ reworded' = TRUE
                /\ UNCHANGED <<tree, flaws, receipt, buried, pushed, store, run, faults, owed>>

OverrideBare == claim = None /\ Overrides(Bare)

\* cr arbitration digest prints a trailer for a filled record of this tree.
OverrideNamed == /\ Stands(record) /\ Filled(record)
                 /\ claim # Named(record) /\ Overrides(Named(record))

\* The operator takes refused override trailers out of the messages.
Reword == /\ Idle /\ ~Accepted /\ (buried # {} \/ claim = Bare)
          /\ buried' = {} /\ claim' = None /\ reworded' = TRUE
          /\ UNCHANGED <<tree, flaws, receipt, pushed, store, run, faults, owed>>

Push == /\ Idle /\ Accepted
        /\ pushed' = TRUE
        /\ UNCHANGED <<tree, reworded, flaws, receipt, claim, buried, store, run, faults, owed>>

-----------------------------------------------------------------------------
Next == \/ Dispatch \/ Refuse \/ Mint \/ MintFails \/ AppendRound \/ Killed \/ NewSession
        \/ \E l \in Lane : Answers(l) \/ Fails(l)
        \/ Commit \/ Rule \/ Dispose \/ OverrideBare \/ OverrideNamed \/ Reword \/ Push

Fairness == /\ WF_vars(Dispatch) /\ WF_vars(Refuse) /\ WF_vars(Mint) /\ WF_vars(AppendRound)
            /\ \A l \in Lane : WF_vars(Answers(l))
            /\ WF_vars(Dispose) /\ WF_vars(OverrideNamed) /\ WF_vars(Reword) /\ WF_vars(Push)

Spec == Init /\ [][Next]_vars /\ Fairness

\* A receipt vouches for every blocker of the session: when the tip carries
\* one, whatever a lane filed was fixed since or ruled on, however many lanes
\* failed, rounds were killed and sessions died on the way (the priors that
\* applyPriorAnswers and the lanes' failure sinks carry, the green check of
\* the delta short-circuit).
BlockersAreAnswered == receipt => owed = {}

\* A branch pushed past the cap with a red last round answers its blockers:
\* what still stands has a disposition in the record (decideArbitration,
\* writeSkeletonIfAbsent).
PushesAreAnswered == pushed /\ Capped(ledger) => owed \subseteq record.disposed

\* A session closes: the cap, the closing round and the arbitration record
\* leave no state from which the branch cannot be pushed, even by an operator
\* who never commits a fix (capVerdict, "the wedge the closing round exists
\* to prevent").
SessionCloses == <>pushed
=============================================================================
