----------------------------- MODULE ReviewProofs -----------------------------
(***************************************************************************)
(* What TLAPS proves of the review rounds for any lanes, findings, cap,    *)
(* number of trees and number of faults.                                   *)
(***************************************************************************)
EXTENDS Review, TLAPS

Sink == [blockers : SUBSET Finding, errored : BOOLEAN, at : Nat]
Record == [tree : Nat, blockers : SUBSET (Finding \cup Lane),
           disposed : SUBSET (Finding \cup Lane)]

(* The shapes that the argument needs. *)
Shaped ==
    /\ tree \in Nat \ {0} /\ flaws \subseteq Finding
    /\ sinks \in [Lane -> Sink] /\ record \in Record
    /\ run.phase \in {"none", "lanes", "record"}
    /\ ruled \subseteq Finding /\ owed \subseteq Finding
    /\ receipt \in BOOLEAN /\ pushed \in BOOLEAN

(* A blocker that is owed is one that the tree still has and no ruling settles, and some *)
(* lane holds it: whatever that lane does next, it carries it on.                        *)
Carried ==
    /\ owed \subseteq flaws
    /\ owed \cap ruled = {}
    /\ owed \subseteq UNION {sinks[l].blockers : l \in Lane}

(* A receipt is minted when nothing is owed, and ends the rounds of its tree. *)
Minted ==
    /\ receipt => owed = {}
    /\ run.phase = "lanes" => ~receipt

ReviewInv == Shaped /\ Carried /\ Minted

(* Every blocker that a lane's sink holds is filed and stands. *)
LEMMA SinksAreFiled ==
    ASSUME NEW l \in Lane, NEW f \in sinks[l].blockers
    PROVE  Filed(l) # {} /\ f \in Standing
<1>1. <<l, f>> \in Filed(l)
  BY DEF Filed
<1>2. <<l, f>> \in AllFiled
  BY <1>1 DEF AllFiled
<1> QED
  BY <1>1, <1>2 DEF Standing

LEMMA ReviewInit == Init => ReviewInv
<1> SUFFICES ASSUME Init PROVE ReviewInv
  OBVIOUS
<1>1. sinks \in [Lane -> Sink]
  BY DEF Init, NoSink, Sink
<1>2. record \in Record
  BY DEF Init, NoRecord, Record
<1>3. receipt \in BOOLEAN /\ pushed \in BOOLEAN
  BY DEF Init
<1> QED
  BY <1>1, <1>2, <1>3 DEF Init, ReviewInv, Shaped, Carried, Minted, NoRun

(* What a lane writes keeps every blocker that is owed to it. *)
LEMMA WritesStep ==
    ASSUME ReviewInv, NEW l \in Lane, NEW blockers \in SUBSET Finding, NEW errored \in BOOLEAN,
           Writes(l, blockers, errored),
           sinks[l].blockers \cap owed \subseteq blockers,
           blockers \cap ruled = {}
    PROVE  ReviewInv'
<1> DEFINE s == [blockers |-> blockers, errored |-> errored, at |-> tree]
<1>1. sinks' = [sinks EXCEPT ![l] = s] /\ s \in Sink
  BY DEF Writes, Sink, ReviewInv, Shaped
<1>2. sinks'[l].blockers = blockers /\ \A k \in Lane \ {l} : sinks'[k] = sinks[k]
  BY <1>1 DEF ReviewInv, Shaped
<1>3. Shaped'
  BY <1>1 DEF Writes, ReviewInv, Shaped, branch
<1>4. owed' \subseteq UNION {sinks'[k].blockers : k \in Lane}
  <2> SUFFICES ASSUME NEW f \in owed' PROVE \E k \in Lane : f \in sinks'[k].blockers
    OBVIOUS
  <2>1. CASE f \in blockers
    BY <1>2, <2>1
  <2>2. CASE f \in owed /\ f \notin blockers
    <3>1. PICK k \in Lane : f \in sinks[k].blockers
      BY <2>2 DEF ReviewInv, Carried
    <3>2. k # l
      BY <2>2, <3>1
    <3> QED
      BY <1>2, <3>1, <3>2
  <2> QED
    BY <2>1, <2>2 DEF Writes
<1>5. Carried'
  BY <1>4 DEF Writes, ReviewInv, Carried, branch
<1>6. Minted'
  BY DEF Writes, ReviewInv, Minted, branch
<1> QED
  BY <1>3, <1>5, <1>6 DEF ReviewInv

LEMMA ReviewStep == ReviewInv /\ [Next]_vars => ReviewInv'
<1> SUFFICES ASSUME ReviewInv, [Next]_vars PROVE ReviewInv'
  OBVIOUS
<1> USE ReviewAssumption DEF ReviewInv, branch, store
<1>1. ASSUME Dispatch PROVE ReviewInv'
  <2> DEFINE passed == IF EmptyDelta THEN {l \in Lane : Green(l)} ELSE {}
  <2>1. \A l \in passed : sinks[l].blockers = {}
    BY DEF Green, Filed
  <2>2. \A l \in Lane : [sinks[l] EXCEPT !.blockers = {}] \in Sink
    BY DEF Shaped, Sink
  <2>3. sinks' = [l \in Lane |-> IF l \in passed THEN [sinks[l] EXCEPT !.blockers = {}]
                                                 ELSE sinks[l]]
    BY <1>1 DEF Dispatch
  <2> HIDE DEF passed
  <2>4. sinks' \in [Lane -> Sink] /\ \A l \in Lane : sinks'[l].blockers = sinks[l].blockers
    BY <2>1, <2>2, <2>3 DEF Shaped, Sink
  <2>5. Shaped'
    BY <1>1, <2>4 DEF Dispatch, Shaped
  <2>6. Carried'
    BY <1>1, <2>4 DEF Dispatch, Carried
  <2>7. Minted'
    BY <1>1 DEF Dispatch, Wants, Minted
  <2> QED
    BY <2>5, <2>6, <2>7
<1>2. ASSUME Refuse PROVE ReviewInv'
  <2>1. Skeleton \in Record
    <3>1. Standing \subseteq Finding \cup Lane
      BY DEF Standing, AllFiled, Filed, Shaped, Sink
    <3> QED
      BY <3>1 DEF Skeleton, Shaped, Record
  <2>2. Shaped'
    BY <1>2, <2>1 DEF Refuse, Shaped
  <2>3. Carried' /\ Minted'
    BY <1>2 DEF Refuse, Carried, Minted
  <2> QED
    BY <2>2, <2>3
<1>3. ASSUME NEW l \in Lane, Answers(l) PROVE ReviewInv'
  <2>1. PICK seen \in SUBSET flaws : Writes(l, ((Priors(l) \cap flaws) \cup seen) \ ruled, FALSE)
    BY <1>3 DEF Answers
  <2> DEFINE blockers == ((Priors(l) \cap flaws) \cup seen) \ ruled
  <2>2. blockers \in SUBSET Finding /\ blockers \cap ruled = {}
    BY DEF Shaped, Priors
  <2>3. sinks[l].blockers \cap owed \subseteq blockers
    BY DEF Carried, Priors
  <2> HIDE DEF blockers
  <2>4. Writes(l, blockers, FALSE)
    BY <2>1 DEF blockers
  <2> QED
    BY <2>2, <2>3, <2>4, WritesStep
<1>4. ASSUME NEW l \in Lane, Fails(l) PROVE ReviewInv'
  <2>1. Priors(l) \in SUBSET Finding /\ Priors(l) \cap ruled = {}
    BY DEF Shaped, Sink, Priors
  <2>2. sinks[l].blockers \cap owed \subseteq Priors(l)
    BY DEF Carried, Priors
  <2>3. Writes(l, Priors(l), TRUE)
    BY <1>4 DEF Fails
  <2> QED
    BY <2>1, <2>2, <2>3, WritesStep
<1>5. ASSUME Mint PROVE ReviewInv'
  <2>1. AllOk => owed = {}
    BY SinksAreFiled DEF AllOk, Carried
  <2>2. receipt' \in BOOLEAN /\ run'.phase = "record"
    BY <1>5 DEF Mint, Shaped
  <2>3. Shaped'
    BY <1>5, <2>2 DEF Mint, Shaped
  <2>4. Carried' /\ Minted'
    BY <1>5, <2>1, <2>2 DEF Mint, Carried, Minted
  <2> QED
    BY <2>3, <2>4
<1>6. ASSUME MintFails PROVE ReviewInv'
  <2>1. run'.phase = "record"
    BY <1>6 DEF MintFails
  <2> QED
    BY <1>6, <2>1 DEF MintFails, Shaped, Carried, Minted
<1>7. ASSUME AppendRound PROVE ReviewInv'
  BY <1>7 DEF AppendRound, NoRun, Shaped, Carried, Minted
<1>8. ASSUME Killed PROVE ReviewInv'
  BY <1>8 DEF Killed, NoRun, Shaped, Carried, Minted
<1>9. ASSUME NewSession PROVE ReviewInv'
  BY <1>9 DEF NewSession, Shaped, Carried, Minted
<1>10. ASSUME Commit PROVE ReviewInv'
  <2>0. PICK touched \in SUBSET Finding : \E left \in SUBSET touched :
          /\ flaws' = (flaws \ touched) \cup left
          /\ ruled' = ruled \ touched
          /\ owed' = owed \ (touched \ left)
    BY <1>10 DEF Commit
  <2>1. PICK left \in SUBSET touched :
          /\ flaws' = (flaws \ touched) \cup left
          /\ ruled' = ruled \ touched
          /\ owed' = owed \ (touched \ left)
    BY <2>0
  <2>2. Shaped'
    <3>1. receipt' \in BOOLEAN
      BY <1>10 DEF Commit
    <3>0. tree' \in Nat \ {0}
      BY <1>10 DEF Commit, Shaped
    <3>2. pushed' \in BOOLEAN
      BY <1>10 DEF Commit, Shaped
    <3>3. flaws' \subseteq Finding /\ ruled' \subseteq Finding /\ owed' \subseteq Finding
      BY <2>1 DEF Shaped
    <3>4. sinks' \in [Lane -> Sink] /\ record' \in Record
          /\ run'.phase \in {"none", "lanes", "record"}
      BY <1>10 DEF Commit, Shaped
    <3> QED
      BY <3>0, <3>1, <3>2, <3>3, <3>4 DEF Shaped
  <2>3. Carried' /\ Minted'
    BY <1>10, <2>1 DEF Commit, Idle, Carried, Minted
  <2> QED
    BY <2>2, <2>3
<1>11. ASSUME Rule PROVE ReviewInv'
  <2>1. PICK f \in UNION {sinks[l].blockers : l \in Lane} \ ruled :
          ruled' = ruled \cup {f} /\ owed' = owed \ {f}
    BY <1>11 DEF Rule
  <2>2. f \in Finding
    BY <2>1 DEF Shaped, Sink
  <2>3. Shaped'
    BY <1>11, <2>1, <2>2 DEF Rule, Shaped
  <2>4. Carried' /\ Minted'
    BY <1>11, <2>1 DEF Rule, Carried, Minted
  <2> QED
    BY <2>3, <2>4
<1>12. ASSUME Dispose PROVE ReviewInv'
  <2>1. PICK b \in record.blockers \ record.disposed :
          /\ record' = [record EXCEPT !.disposed = @ \cup {b}]
          /\ ruled' = ruled \cup ({b} \cap Finding)
          /\ owed' = owed \ {b}
    BY <1>12 DEF Dispose
  <2>2. record' \in Record
    BY <2>1 DEF Shaped, Record
  <2>3. Shaped'
    BY <1>12, <2>1, <2>2 DEF Dispose, Shaped
  <2>4. Carried' /\ Minted'
    BY <1>12, <2>1 DEF Dispose, Carried, Minted
  <2> QED
    BY <2>3, <2>4
<1>13. ASSUME NEW c, Overrides(c) PROVE ReviewInv'
  BY <1>13 DEF Overrides, Shaped, Carried, Minted
<1>14. ASSUME Reword PROVE ReviewInv'
  BY <1>14 DEF Reword, Shaped, Carried, Minted
<1>15. ASSUME Push PROVE ReviewInv'
  BY <1>15 DEF Push, Shaped, Carried, Minted
<1>16. CASE UNCHANGED vars
  BY <1>16 DEF vars, Shaped, Carried, Minted
<1> QED
  BY <1>1, <1>2, <1>3, <1>4, <1>5, <1>6, <1>7, <1>8, <1>9, <1>10, <1>11, <1>12, <1>13, <1>14,
     <1>15, <1>16 DEF Next, OverrideBare, OverrideNamed

(* A receipt vouches for every blocker of the session, for any lanes, any number of *)
(* rounds, failures, kills and sessions (applyPriorAnswers, the failure sinks, the  *)
(* delta short-circuit).                                                            *)
THEOREM ReceiptsVouch == Spec => []BlockersAreAnswered
<1>1. ReviewInv => BlockersAreAnswered
  BY DEF ReviewInv, Minted, BlockersAreAnswered
<1> QED
  BY <1>1, ReviewInit, ReviewStep, PTL DEF Spec

-----------------------------------------------------------------------------
(* The arbitration record. *)

(* A record that speaks for the tree has every blocker that is owed, since no round runs *)
(* under it; and what is pushed stays as it was.                                         *)
Arbitrates ==
    /\ record.tree <= tree
    /\ Stands(record) => owed \subseteq record.blockers
    /\ run.phase = "lanes" => ~Stands(record)
    /\ pushed => run.phase = "none"
    /\ PushesAreAnswered

LEMMA ArbitratesInit == Init => Arbitrates
  BY DEF Init, Arbitrates, Stands, NoRecord, NoRun, PushesAreAnswered

LEMMA ArbitratesStep ==
    ASSUME ~Reopens, ReviewInv, Arbitrates, [Next]_vars
    PROVE  Arbitrates'
<1> USE ReviewAssumption DEF ReviewInv, Arbitrates, Stands, Idle, branch, store
<1>0. tree \in Nat /\ record.tree \in Nat
  BY DEF Shaped, Record
<1>1. ASSUME Dispatch PROVE Arbitrates'
  BY <1>1 DEF Dispatch, Wants, PushesAreAnswered
<1>2. ASSUME Refuse PROVE Arbitrates'
  <2>1. ~pushed /\ ~pushed' /\ run' = run /\ run.phase = "none" /\ tree' = tree /\ owed' = owed
    BY <1>2 DEF Refuse, Wants
  <2>2. owed \subseteq Standing
    BY SinksAreFiled DEF Carried
  <2>3. record' = record \/ record' = [tree |-> tree, blockers |-> Standing, disposed |-> {}]
    BY <1>2 DEF Refuse, Skeleton
  <2> QED
    BY <1>0, <2>1, <2>2, <2>3 DEF PushesAreAnswered
<1>3. ASSUME NEW l \in Lane, NEW blockers, NEW errored, Writes(l, blockers, errored)
      PROVE  Arbitrates'
  BY <1>3 DEF Writes, Shaped, PushesAreAnswered
<1>4. ASSUME Mint \/ MintFails PROVE Arbitrates'
  BY <1>4 DEF Mint, MintFails, PushesAreAnswered
<1>5. ASSUME AppendRound PROVE Arbitrates'
  BY <1>5 DEF AppendRound, NoRun, PushesAreAnswered
<1>6. ASSUME Killed PROVE Arbitrates'
  BY <1>6 DEF Killed, NoRun, PushesAreAnswered
<1>7. ASSUME NewSession PROVE Arbitrates'
  BY <1>7 DEF NewSession, PushesAreAnswered
<1>8. ASSUME Commit PROVE Arbitrates'
  BY <1>0, <1>8 DEF Commit, PushesAreAnswered
<1>9. ASSUME Rule PROVE Arbitrates'
  BY <1>9 DEF Rule, PushesAreAnswered
<1>10. ASSUME Dispose PROVE Arbitrates'
  <2>1. record'.tree = record.tree /\ record'.blockers = record.blockers /\ owed' \subseteq owed
    BY <1>10 DEF Dispose, Shaped, Record
  <2> QED
    BY <1>10, <2>1 DEF Dispose, PushesAreAnswered
<1>11. ASSUME NEW c, Overrides(c) PROVE Arbitrates'
  BY <1>11 DEF Overrides, PushesAreAnswered
<1>12. ASSUME Reword PROVE Arbitrates'
  BY <1>12 DEF Reword, PushesAreAnswered
<1>13. ASSUME Push PROVE Arbitrates'
  <2>1. CASE receipt
    BY <1>13, <2>1 DEF Push, Minted, PushesAreAnswered
  <2>2. CASE ~receipt
    <3>1. Arbitrated(claim)
      BY <1>13, <2>2 DEF Push, Accepted
    <3>2. Capped(ledger) => owed \subseteq record.disposed
      BY <3>1 DEF Arbitrated, Filled
    <3>3. Capped(ledger') => Capped(ledger)
      BY <1>13 DEF Push
    <3> QED
      BY <1>13, <3>2, <3>3 DEF Push, PushesAreAnswered
  <2> QED
    BY <2>1, <2>2
<1>14. CASE UNCHANGED vars
  BY <1>14 DEF vars, PushesAreAnswered
<1> QED
  BY <1>1, <1>2, <1>3, <1>4, <1>5, <1>6, <1>7, <1>8, <1>9, <1>10, <1>11, <1>12, <1>13, <1>14
  DEF Next, Answers, Fails, OverrideBare, OverrideNamed

(* Where a tree that is being arbitrated is not reviewed again, a branch pushed past the *)
(* cap with a red last round has a disposition for whatever is owed (decideArbitration,  *)
(* writeSkeletonIfAbsent).                                                               *)
THEOREM PushesAnswer == ~Reopens => (Spec => []PushesAreAnswered)
<1> SUFFICES ASSUME ~Reopens PROVE Spec => []PushesAreAnswered
  OBVIOUS
<1>1. ReviewInv /\ Arbitrates /\ [Next]_vars => Arbitrates'
  BY ArbitratesStep
<1>2. Arbitrates => PushesAreAnswered
  BY DEF Arbitrates
<1> QED
  BY <1>1, <1>2, ReviewInit, ReviewStep, ArbitratesInit, PTL DEF Spec
===============================================================================
