----------------------------- MODULE InboxProofs -----------------------------
(***************************************************************************)
(* What TLAPS proves of the escalation inbox for any set of entries and    *)
(* any number of cycles, reports, kills and unparks.                       *)
(***************************************************************************)
EXTENDS Inbox, TLAPS

Reasons == {"none", "failed", "open", "other"}
Verdicts == [escalated : SUBSET Slug, unpark : SUBSET Slug, pending : SUBSET Slug,
             cycle : BOOLEAN]
Stages == {"idle", "drain", "map", "append", "load", "save", "record"}

(* A cycle that is over leaves its process well typed. *)
LEMMA EndsTyped ==
    ASSUME TypeOK, NEW p \in Supervisor, Ends(p)
    PROVE  /\ pc' \in [Supervisor -> Stages]
           /\ reason' \in [Supervisor -> [Slug -> Reasons]]
           /\ verdict' \in [Supervisor -> Verdicts]
           /\ copy' \in [Supervisor -> SUBSET Slug]
           /\ holder' \in Supervisor \cup {NoOne}
<1>1. Unsettled \in [Slug -> Reasons]
  BY DEF Unsettled, Reasons
<1>2. NoVerdict \in Verdicts
  BY DEF NoVerdict, Verdicts
<1>3. pc' \in [Supervisor -> Stages]
  BY DEF TypeOK, Ends, Stages
<1>4. reason' \in [Supervisor -> [Slug -> Reasons]]
  BY <1>1 DEF TypeOK, Ends, Reasons
<1>5. verdict' \in [Supervisor -> Verdicts]
  BY <1>2 DEF TypeOK, Ends, Verdicts
<1>6. copy' \in [Supervisor -> SUBSET Slug]
  BY DEF TypeOK, Ends
<1>7. holder' \in Supervisor \cup {NoOne}
  BY DEF TypeOK, Ends, GivesBack
<1> QED
  BY <1>3, <1>4, <1>5, <1>6, <1>7

(* Every step of the supervisors, the operator and the repository keeps the types. *)
THEOREM TypeCorrect == Spec => []TypeOK
<1>1. Init => TypeOK
  <2> SUFFICES ASSUME Init PROVE TypeOK
    OBVIOUS
  <2> USE InboxAssumption DEF Init
  <2>1. verdict \in [Supervisor -> Verdicts]
    BY DEF NoVerdict, Verdicts
  <2>2. reason \in [Supervisor -> [Slug -> Reasons]]
    BY DEF Unsettled, Reasons
  <2>3. unparker \in [pc : {"idle", "save", "resolve"}, slug : Slug \cup {NoOne},
                      copy : SUBSET Slug]
    BY DEF NoUnpark
  <2>4. raced \in BOOLEAN
    OBVIOUS
  <2> QED
    BY <2>1, <2>2, <2>3, <2>4 DEF TypeOK, Verdicts, Reasons
<1>2. TypeOK /\ [Next]_vars => TypeOK'
  <2> SUFFICES ASSUME TypeOK, [Next]_vars PROVE TypeOK'
    OBVIOUS
  <2> USE InboxAssumption DEF TypeOK, world, cycles, history, bounds
  <2>1. ASSUME NEW p \in Supervisor, BeginCycle(p) PROVE TypeOK'
    BY <2>1 DEF BeginCycle, Goto
  <2>2. ASSUME NEW p \in Supervisor, DrainEnds(p) PROVE TypeOK'
    BY <2>2 DEF DrainEnds, Goto, GivesBack
  <2>3. ASSUME NEW p \in Supervisor, MapCycle(p) PROVE TypeOK'
    <3> DEFINE v == [escalated |-> Escalated(p), unpark |-> park \ queue,
                     pending |-> IF p = Watcher THEN NextPending ELSE {}, cycle |-> TRUE]
    <3>1. v \in Verdicts
      BY DEF Verdicts, Escalated, NextPending
    <3>2. verdict' = [verdict EXCEPT ![p] = v]
      BY <2>3 DEF MapCycle
    <3>3. verdict' \in [Supervisor -> Verdicts]
      BY <3>1, <3>2 DEF Verdicts
    <3>4. raced' \in BOOLEAN
      BY <2>3 DEF MapCycle, EntersInbox
    <3> HIDE DEF v
    <3> QED
      BY <2>3, <3>3, <3>4 DEF MapCycle, Goto, Verdicts
  <2>4. ASSUME NEW p \in Supervisor, AppendRows(p) PROVE TypeOK'
    BY <2>4 DEF AppendRows, Goto
  <2>5. ASSUME NEW p \in Supervisor, LoadPark(p) PROVE TypeOK'
    <3>1. Parked(p) \in SUBSET Slug
      BY DEF Parked
    <3> QED
      BY <2>5, <3>1 DEF LoadPark, Goto
  <2>6. ASSUME NEW p \in Supervisor, SavePark(p) PROVE TypeOK'
    <3>1. CASE p = Watcher /\ verdict[p].cycle
      BY <2>6, <3>1 DEF SavePark, Goto
    <3>2. CASE ~(p = Watcher /\ verdict[p].cycle)
      BY <2>6, <3>2, EndsTyped DEF SavePark, Verdicts, Reasons, Stages
    <3> QED
      BY <3>1, <3>2
  <2>7. ASSUME NEW p \in Supervisor, Kill(p) PROVE TypeOK'
    BY <2>7, EndsTyped DEF Kill, Verdicts, Reasons, Stages
  <2>8. ASSUME NEW p \in Supervisor, NEW s \in Slug, Settle(p, s) PROVE TypeOK'
    <3>1. reason' \in [Supervisor -> [Slug -> Reasons]]
      <4>1. \A r \in Reasons :
              [reason EXCEPT ![p][s] = r] \in [Supervisor -> [Slug -> Reasons]]
        BY DEF Reasons
      <4>2. reason' = reason \/ \E r \in Reasons : reason' = [reason EXCEPT ![p][s] = r]
        BY <2>8 DEF Settle, Reasons
      <4>3. CASE reason' = reason
        BY <4>3 DEF Reasons
      <4>4. ASSUME NEW r \in Reasons, reason' = [reason EXCEPT ![p][s] = r]
            PROVE  reason' \in [Supervisor -> [Slug -> Reasons]]
        BY <4>1, <4>4, Zenon
      <4> QED
        BY <4>2, <4>3, <4>4, Zenon
    <3>2. queue' \subseteq Slug /\ prOpen' \subseteq Slug
      BY <2>8 DEF Settle
    <3> QED
      BY <2>8, <3>1, <3>2 DEF Settle, Reasons
  <2>9. CASE Report
    <3>1. raced' \in BOOLEAN
      BY <2>9 DEF Report, EntersInbox
    <3> QED
      BY <2>9, <3>1 DEF Report, Goto, Supervisor
  <2>10. CASE Record
    <3>1. Watcher \in Supervisor
      BY DEF Supervisor
    <3> QED
      BY <2>10, <3>1, EndsTyped DEF Record, Verdicts, Reasons, Stages
  <2>11. ASSUME NEW s \in Slug, UnparkLoads(s) PROVE TypeOK'
    <3>1. raced' \in BOOLEAN
      BY <2>11 DEF UnparkLoads
    <3> QED
      BY <2>11, <3>1 DEF UnparkLoads
  <2>12. ASSUME NEW s \in Slug, Resolved(s) PROVE TypeOK'
    BY <2>12 DEF Resolved
  <2>13. CASE UnparkSaves
    BY <2>13 DEF UnparkSaves
  <2>14. CASE UnparkResolves
    <3>1. rows' \in [Slug -> 0..2]
      <4>1. PICK x : x = unparker.slug
        OBVIOUS
      <4>2. rows' = [rows EXCEPT ![x] = 0]
        BY <2>14, <4>1 DEF UnparkResolves
      <4>3. DOMAIN rows' = Slug /\ \A s \in Slug : rows'[s] = IF s = x THEN 0 ELSE rows[s]
        BY <4>2
      <4>4. rows' = [s \in Slug |-> rows'[s]]
        BY <4>2
      <4> QED
        BY <4>3, <4>4
    <3>2. unparker' \in [pc : {"idle", "save", "resolve"}, slug : Slug \cup {NoOne},
                        copy : SUBSET Slug]
      BY <2>14 DEF UnparkResolves, NoUnpark
    <3> QED
      BY <2>14, <3>1, <3>2 DEF UnparkResolves
  <2>15. CASE UNCHANGED vars
    BY <2>15 DEF vars
  <2> QED
    BY <2>1, <2>2, <2>3, <2>4, <2>5, <2>6, <2>7, <2>8, <2>9, <2>10, <2>11, <2>12, <2>13,
       <2>14, <2>15 DEF Next
<1> QED
  BY <1>1, <1>2, PTL DEF Spec

-----------------------------------------------------------------------------
(* Grace. *)

(* A process decides nothing before it maps its cycle; what the watcher is about to *)
(* record as pending it has seen open, and what is pending was seen open by the     *)
(* last recorded cycle.                                                             *)
GraceInv ==
    /\ \A p \in Supervisor : pc[p] \in {"idle", "drain", "map"} => verdict[p] = NoVerdict
    /\ \A s \in verdict[Watcher].pending : reason[Watcher][s] = "open"
    /\ pending \subseteq seenOpen

LEMMA GraceInit == Init => GraceInv
  BY DEF Init, GraceInv, NoVerdict, Supervisor

(* A cycle that ends takes its verdict with it. *)
LEMMA EndsGrace ==
    ASSUME TypeOK, GraceInv, NEW p \in Supervisor, Ends(p)
    PROVE  /\ \A q \in Supervisor :
                 pc'[q] \in {"idle", "drain", "map"} => verdict'[q] = NoVerdict
           /\ \A s \in verdict'[Watcher].pending : reason'[Watcher][s] = "open"
<1> USE DEF TypeOK, GraceInv, Ends
<1>1. \A q \in Supervisor : pc'[q] \in {"idle", "drain", "map"} => verdict'[q] = NoVerdict
  OBVIOUS
<1>2. Watcher \in Supervisor
  BY DEF Supervisor
<1>3. CASE p = Watcher
  <2>1. verdict'[Watcher] = NoVerdict
    BY <1>2, <1>3
  <2> QED
    BY <1>1, <2>1 DEF NoVerdict
<1>4. CASE p # Watcher
  <2>1. verdict'[Watcher] = verdict[Watcher] /\ reason'[Watcher] = reason[Watcher]
    BY <1>2, <1>4
  <2> QED
    BY <1>1, <2>1
<1> QED
  BY <1>3, <1>4

LEMMA GraceStep == TypeOK /\ GraceInv /\ [Next]_vars => GraceInv'
<1> SUFFICES ASSUME TypeOK, GraceInv, [Next]_vars PROVE GraceInv'
  OBVIOUS
<1>0. Watcher \in Supervisor /\ NoVerdict.pending = {} /\ InboxAssumption
  BY InboxAssumption DEF Supervisor, NoVerdict
<1> USE DEF TypeOK, GraceInv, world, cycles, history, bounds
<1>1. ASSUME NEW p \in Supervisor, BeginCycle(p) PROVE GraceInv'
  BY <1>0, <1>1 DEF BeginCycle, Goto
<1>2. ASSUME NEW p \in Supervisor, DrainEnds(p) PROVE GraceInv'
  BY <1>0, <1>2 DEF DrainEnds, Goto
<1>3. ASSUME NEW p \in Supervisor, MapCycle(p) PROVE GraceInv'
  <2>1. \A q \in Supervisor : pc'[q] \in {"idle", "drain", "map"} => verdict'[q] = NoVerdict
    BY <1>3 DEF MapCycle, Goto
  <2>2. \A s \in verdict'[Watcher].pending : reason'[Watcher][s] = "open"
    <3>1. CASE p = Watcher
      <4>1. verdict'[Watcher].pending = NextPending
        BY <1>0, <1>3, <3>1 DEF MapCycle
      <4> QED
        BY <1>3, <4>1 DEF MapCycle, NextPending
    <3>2. CASE p # Watcher
      BY <1>0, <1>3, <3>2 DEF MapCycle
    <3> QED
      BY <3>1, <3>2
  <2> QED
    BY <1>3, <2>1, <2>2 DEF MapCycle
<1>4. ASSUME NEW p \in Supervisor, AppendRows(p) PROVE GraceInv'
  BY <1>4 DEF AppendRows, Goto
<1>5. ASSUME NEW p \in Supervisor, LoadPark(p) PROVE GraceInv'
  BY <1>5 DEF LoadPark, Goto
<1>6. ASSUME NEW p \in Supervisor, SavePark(p) PROVE GraceInv'
  <2>1. CASE p = Watcher /\ verdict[p].cycle
    BY <1>6, <2>1 DEF SavePark, Goto
  <2>2. CASE ~(p = Watcher /\ verdict[p].cycle)
    BY <1>6, <2>2, EndsGrace DEF SavePark
  <2> QED
    BY <2>1, <2>2
<1>7. ASSUME NEW p \in Supervisor, Kill(p) PROVE GraceInv'
  BY <1>7, EndsGrace DEF Kill
<1>8. ASSUME NEW p \in Supervisor, NEW s \in Slug, Settle(p, s) PROVE GraceInv'
  <2>1. CASE p = Watcher
    <3>1. verdict[Watcher].pending = {}
      BY <1>0, <1>8, <2>1 DEF Settle
    <3> QED
      BY <1>8, <3>1 DEF Settle
  <2>2. CASE p # Watcher
    <3>1. reason'[Watcher] = reason[Watcher]
      BY <1>0, <1>8, <2>2 DEF Settle
    <3> QED
      BY <1>8, <3>1 DEF Settle
  <2> QED
    BY <2>1, <2>2
<1>9. CASE Report
  BY <1>0, <1>9 DEF Report, Goto
<1>10. CASE Record
  BY <1>0, <1>10, EndsGrace DEF Record
<1>11. ASSUME NEW s \in Slug, UnparkLoads(s) PROVE GraceInv'
  BY <1>11 DEF UnparkLoads
<1>12. ASSUME NEW s \in Slug, Resolved(s) PROVE GraceInv'
  BY <1>12 DEF Resolved
<1>13. CASE UnparkSaves
  BY <1>13 DEF UnparkSaves
<1>14. CASE UnparkResolves
  BY <1>14 DEF UnparkResolves
<1>15. CASE UNCHANGED vars
  BY <1>15 DEF vars
<1> QED
  BY <1>1, <1>2, <1>3, <1>4, <1>5, <1>6, <1>7, <1>8, <1>9, <1>10, <1>11, <1>12, <1>13, <1>14,
     <1>15 DEF Next

(* Only the mapping of a cycle escalates. *)
LEMMA EscalatesWhenMapping ==
    ASSUME TypeOK, Next,
           NEW s \in verdict'[Watcher].escalated \ verdict[Watcher].escalated
    PROVE  MapCycle(Watcher)
<1>1. Watcher \in Supervisor
  BY DEF Supervisor
<1>2. ASSUME NEW p \in Supervisor, Ends(p) PROVE FALSE
  <2>1. verdict'[Watcher] = NoVerdict \/ verdict'[Watcher] = verdict[Watcher]
    BY <1>1, <1>2 DEF Ends, TypeOK
  <2> QED
    BY <2>1 DEF NoVerdict
<1>3. verdict' # verdict
  OBVIOUS
<1>4. \E p \in Supervisor : MapCycle(p)
  BY <1>1, <1>2, <1>3 DEF Next, BeginCycle, DrainEnds, AppendRows, LoadPark, SavePark, Kill,
     Settle, Report, Record, UnparkLoads, Resolved, UnparkSaves, UnparkResolves, cycles
<1> QED
  BY <1>1, <1>4 DEF MapCycle, TypeOK

(* An open PR is parked on its second observation in a row only, for any number of *)
(* entries, cycles, kills and unparks (mapCycle, pendingPr).                       *)
THEOREM GraceIsKept == Spec => GraceHolds
<1> DEFINE Step ==
        \A s \in verdict'[Watcher].escalated \ verdict[Watcher].escalated :
            reason[Watcher][s] = "open" => s \in seenOpen
<1>1. TypeOK /\ GraceInv /\ [Next]_vars => [Step]_vars
  <2> SUFFICES ASSUME TypeOK, GraceInv, Next,
                      NEW s \in verdict'[Watcher].escalated \ verdict[Watcher].escalated,
                      reason[Watcher][s] = "open"
               PROVE  s \in seenOpen
    OBVIOUS
  <2>1. MapCycle(Watcher)
    BY EscalatesWhenMapping
  <2>2. verdict'[Watcher].escalated = Escalated(Watcher)
    BY <2>1 DEF MapCycle, TypeOK, Supervisor
  <2>3. s \in pending
    BY <2>2 DEF Escalated
  <2> QED
    BY <2>3 DEF GraceInv
<1> QED
  BY <1>1, GraceInit, GraceStep, TypeCorrect, PTL DEF Spec, GraceHolds

-----------------------------------------------------------------------------
(* The log and the park map. *)

(* Until two writers have met, there is one. *)
Alone ==
    ~raced =>
        /\ \A p, q \in Supervisor : AtTheInbox(p) /\ AtTheInbox(q) => p = q
        /\ unparker.pc # "idle" => \A p \in Supervisor : ~AtTheInbox(p)

(* What a lone writer has decided is still true of the files when it writes. *)
Decided ==
    ~raced =>
        /\ \A p \in Supervisor : pc[p] \in {"append", "load"} =>
             /\ verdict[p].unpark \subseteq park \ queue
             /\ verdict[p].escalated \cap park = {}
        /\ \A p \in Supervisor : pc[p] = "save" => copy[p] \subseteq Slug
        /\ unparker.pc = "save" => unparker.slug \in park /\ unparker.copy = park \ {unparker.slug}
        /\ unparker.pc = "resolve" => unparker.slug \in Slug \ park

(* A listed entry that is parked, or about to be, has an unresolved row. *)
Traced ==
    ~raced =>
        /\ \A s \in park \cap queue : rows[s] > 0
        /\ \A p \in Supervisor : pc[p] = "load" => \A s \in verdict[p].escalated : rows[s] > 0
        /\ \A p \in Supervisor : pc[p] = "save" => \A s \in copy[p] \cap queue : rows[s] > 0

(* Without kills the rows say at every stage of a writer what the park map says after it. *)
Told ==
    ~raced /\ kills = 0 =>
        /\ (\A p \in Supervisor : pc[p] \notin {"load", "save"}) /\ unparker.pc # "resolve" =>
             \A s \in Slug : rows[s] = IF s \in park THEN 1 ELSE 0
        /\ \A p \in Supervisor : pc[p] = "load" =>
             \A s \in Slug : rows[s] = IF s \in park \cup verdict[p].escalated THEN 1 ELSE 0
        /\ \A p \in Supervisor : pc[p] = "save" =>
             \A s \in Slug : rows[s] = IF s \in copy[p] THEN 1 ELSE 0
        /\ unparker.pc = "resolve" =>
             \A s \in Slug : rows[s] = IF s \in park \cup {unparker.slug} THEN 1 ELSE 0

StoryInv == GraceInv /\ Alone /\ Decided /\ Traced /\ Told

LEMMA StoryInit == Init => StoryInv
<1> SUFFICES ASSUME Init PROVE StoryInv
  OBVIOUS
<1>1. GraceInv
  BY GraceInit
<1> QED
  BY <1>1 DEF Init, StoryInv, Alone, Decided, Traced, Told, AtTheInbox, NoUnpark

LEMMA StoryStep == TypeOK /\ StoryInv /\ [Next]_vars => StoryInv'
<1> SUFFICES ASSUME TypeOK, StoryInv, [Next]_vars PROVE StoryInv'
  OBVIOUS
<1>0. GraceInv'
  BY GraceStep DEF StoryInv
<1> DEFINE Story == Alone /\ Decided /\ Traced /\ Told
<1> USE DEF TypeOK, StoryInv, AtTheInbox, world, cycles, history, bounds
<1>1. ASSUME NEW p \in Supervisor, BeginCycle(p) PROVE Story'
  BY <1>1 DEF Alone, Decided, Traced, Told, BeginCycle, Goto
<1>2. ASSUME NEW p \in Supervisor, DrainEnds(p) PROVE Story'
  BY <1>2 DEF Alone, Decided, Traced, Told, DrainEnds, Goto
<1>3. ASSUME NEW p \in Supervisor, MapCycle(p) PROVE Story'
  <2>1. Alone'
    BY <1>3 DEF Alone, Decided, Traced, Told, MapCycle, Goto, EntersInbox, Escalated
  <2>2. Decided'
    BY <1>3 DEF Alone, Decided, Traced, Told, MapCycle, Goto, EntersInbox, Escalated
  <2>3. Traced'
    BY <1>3 DEF Alone, Decided, Traced, Told, MapCycle, Goto, EntersInbox, Escalated
  <2>4. Told'
    BY <1>3 DEF Alone, Decided, Traced, Told, MapCycle, Goto, EntersInbox, Escalated
  <2> QED
    BY <2>1, <2>2, <2>3, <2>4
<1>4. ASSUME NEW p \in Supervisor, AppendRows(p) PROVE Story'
  <2>1. Alone'
    BY <1>4 DEF Alone, Decided, Traced, Told, AppendRows, Goto
  <2>2. Decided'
    BY <1>4 DEF Alone, Decided, Traced, Told, AppendRows, Goto
  <2>3. Traced'
    <3>1. /\ \A s \in Slug : rows'[s] >= rows[s] /\ (s \in verdict[p].escalated => rows'[s] > 0)
          /\ pc' = [pc EXCEPT ![p] = "load"] /\ UNCHANGED <<park, queue, verdict, copy, raced>>
      BY <1>4 DEF AppendRows, Goto
    <3>2. ASSUME NEW s \in Slug, rows[s] > 0 PROVE rows'[s] > 0
      <4>1. rows'[s] \in {rows[s], rows[s] + 1} /\ rows[s] \in 0..2
        BY <1>4 DEF AppendRows
      <4> QED
        BY <3>2, <4>1
    <3>3. ASSUME ~raced PROVE \A s \in park \cap queue : rows'[s] > 0
      BY <3>2, <3>3 DEF Traced
    <3>4. ASSUME ~raced, NEW q \in Supervisor, pc'[q] = "load", NEW s \in verdict[q].escalated
          PROVE  rows'[s] > 0
      <4>1. s \in Slug
        OBVIOUS
      <4> QED
        BY <3>1, <3>2, <3>4, <4>1 DEF Traced
    <3>5. ASSUME ~raced, NEW q \in Supervisor, pc'[q] = "save", NEW s \in copy[q] \cap queue
          PROVE  rows'[s] > 0
      BY <3>1, <3>2, <3>5 DEF Traced
    <3> QED
      BY <3>1, <3>3, <3>4, <3>5 DEF Traced
  <2>4. Told'
    BY <1>4 DEF Alone, Decided, Traced, Told, AppendRows, Goto
  <2> QED
    BY <2>1, <2>2, <2>3, <2>4
<1>5. ASSUME NEW p \in Supervisor, LoadPark(p) PROVE Story'
  BY <1>5 DEF Alone, Decided, Traced, Told, LoadPark, Goto, Parked
<1>6. ASSUME NEW p \in Supervisor, SavePark(p) PROVE Story'
  <2>1. /\ pc[p] = "save" /\ pc'[p] \in {"idle", "record"}
        /\ \A q \in Supervisor \ {p} : pc'[q] = pc[q] /\ verdict'[q] = verdict[q] /\ copy'[q] = copy[q]
        /\ park' = copy[p] /\ UNCHANGED <<world, rows, unparker, kills, raced>>
    BY <1>6 DEF SavePark, Ends, Goto
  <2>2. ASSUME ~raced
        PROVE  unparker.pc = "idle" /\ \A q \in Supervisor \ {p} : ~AtTheInbox(q)
    BY <2>1, <2>2 DEF Alone
  <2>3. Alone'
    BY <2>1 DEF Alone
  <2>4. Decided'
    BY <2>1, <2>2 DEF Decided
  <2>5. Traced'
    BY <2>1, <2>2 DEF Traced
  <2>6. Told'
    <3>1. ASSUME ~raced, kills = 0
          PROVE  /\ \A q \in Supervisor : pc'[q] \notin {"load", "save"}
                 /\ unparker'.pc = "idle"
                 /\ \A s \in Slug : rows'[s] = IF s \in park' THEN 1 ELSE 0
      BY <2>1, <2>2, <3>1 DEF Told
    <3> QED
      BY <2>1, <3>1 DEF Told
  <2> QED
    BY <2>3, <2>4, <2>5, <2>6
<1>7. ASSUME NEW p \in Supervisor, Kill(p) PROVE Story'
  BY <1>7 DEF Alone, Decided, Traced, Told, Kill, Ends
<1>8. ASSUME NEW p \in Supervisor, NEW s \in Slug, Settle(p, s) PROVE Story'
  BY <1>8 DEF Alone, Decided, Traced, Told, Settle
<1>9. ASSUME Report PROVE Story'
  <2>1. Alone'
    BY <1>9 DEF Alone, Decided, Traced, Told, Report, Goto, EntersInbox, GraceInv, NoVerdict, Supervisor
  <2>2. Decided'
    BY <1>9 DEF Alone, Decided, Traced, Told, Report, Goto, EntersInbox, GraceInv, NoVerdict, Supervisor
  <2>3. Traced'
    BY <1>9 DEF Alone, Decided, Traced, Told, Report, Goto, EntersInbox, GraceInv, NoVerdict, Supervisor
  <2>4. Told'
    BY <1>9 DEF Alone, Decided, Traced, Told, Report, Goto, EntersInbox, GraceInv, NoVerdict, Supervisor
  <2> QED
    BY <2>1, <2>2, <2>3, <2>4
<1>10. ASSUME Record PROVE Story'
  <2>1. Alone'
    BY <1>10 DEF Alone, Decided, Traced, Told, Record, Ends
  <2>2. Decided'
    BY <1>10 DEF Alone, Decided, Traced, Told, Record, Ends
  <2>3. Traced'
    BY <1>10 DEF Alone, Decided, Traced, Told, Record, Ends
  <2>4. Told'
    BY <1>10 DEF Alone, Decided, Traced, Told, Record, Ends
  <2> QED
    BY <2>1, <2>2, <2>3, <2>4
<1>11. ASSUME NEW s \in Slug, UnparkLoads(s) PROVE Story'
  BY <1>11 DEF Alone, Decided, Traced, Told, UnparkLoads
<1>12. ASSUME NEW s \in Slug, Resolved(s) PROVE Story'
  BY <1>12 DEF Alone, Decided, Traced, Told, Resolved
<1>13. ASSUME UnparkSaves PROVE Story'
  <2>1. Alone'
    BY <1>13 DEF Alone, Decided, Traced, Told, UnparkSaves
  <2>2. Decided'
    BY <1>13 DEF Alone, Decided, Traced, Told, UnparkSaves
  <2>3. Traced'
    BY <1>13 DEF Alone, Decided, Traced, Told, UnparkSaves
  <2>4. Told'
    BY <1>13 DEF Alone, Decided, Traced, Told, UnparkSaves
  <2> QED
    BY <2>1, <2>2, <2>3, <2>4
<1>14. ASSUME UnparkResolves PROVE Story'
  <2>1. Alone'
    BY <1>14 DEF Alone, Decided, Traced, Told, UnparkResolves, NoUnpark
  <2>2. Decided'
    BY <1>14 DEF Alone, Decided, Traced, Told, UnparkResolves, NoUnpark
  <2>3. Traced'
    BY <1>14 DEF Alone, Decided, Traced, Told, UnparkResolves, NoUnpark
  <2>4. Told'
    BY <1>14 DEF Alone, Decided, Traced, Told, UnparkResolves, NoUnpark
  <2> QED
    BY <2>1, <2>2, <2>3, <2>4
<1>15. ASSUME UNCHANGED vars PROVE Story'
  <2>1. Alone'
    BY <1>15 DEF Alone, Decided, Traced, Told, vars
  <2>2. Decided'
    BY <1>15 DEF Alone, Decided, Traced, Told, vars
  <2>3. Traced'
    BY <1>15 DEF Alone, Decided, Traced, Told, vars
  <2>4. Told'
    BY <1>15 DEF Alone, Decided, Traced, Told, vars
  <2> QED
    BY <2>1, <2>2, <2>3, <2>4
<1> QED
  BY <1>0, <1>1, <1>2, <1>3, <1>4, <1>5, <1>6, <1>7, <1>8, <1>9, <1>10, <1>11, <1>12, <1>13,
     <1>14, <1>15 DEF Next

(* As long as nobody is killed and no two writers meet, an entry is parked exactly when *)
(* it has one unresolved row, for any number of entries, cycles and unparks (mapCycle,  *)
(* applyCycleVerdict, unparkSlug).                                                      *)
THEOREM IncidentsAreToldOnce == Spec => []OneRowPerIncident
<1>1. TypeOK /\ StoryInv => OneRowPerIncident
  BY DEF StoryInv, Told, OneRowPerIncident, NobodyWrites, AtTheInbox
<1> QED
  BY <1>1, StoryInit, StoryStep, TypeCorrect, PTL DEF Spec

(* Kills included, a listed entry that is parked has an unresolved row: rows first, park *)
(* map second (applyCycleVerdict).                                                       *)
THEOREM ParksAreTraced == Spec => []NothingParkedSilently
<1>1. TypeOK /\ StoryInv => NothingParkedSilently
  BY DEF StoryInv, Traced, NothingParkedSilently
<1> QED
  BY <1>1, StoryInit, StoryStep, TypeCorrect, PTL DEF Spec
==============================================================================
