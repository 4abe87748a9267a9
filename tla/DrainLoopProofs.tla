--------------------------- MODULE DrainLoopProofs ---------------------------
(***************************************************************************)
(* What TLAPS proves of the drain loop for any queue, any number of        *)
(* workers and any caps.                                                   *)
(***************************************************************************)
EXTENDS DrainLoop, FiniteSetTheorems, TLAPS

(* No two positions of a queue hold the same slug. *)
Distinct(q) == \A i, j \in DOMAIN q : q[i] = q[j] => i = j

(* A push adds its slug at the end and keeps the queue free of duplicates. *)
LEMMA PushQueue ==
    ASSUME NEW q \in Seq(Slug), NEW s \in Slug
    PROVE  /\ Append(q, s) \in Seq(Slug)
           /\ Elements(Append(q, s)) = Elements(q) \cup {s}
           /\ Distinct(q) /\ s \notin Elements(q) => Distinct(Append(q, s))
<1> DEFINE r == Append(q, s)
<1>1. r \in Seq(Slug) /\ Len(r) = Len(q) + 1
  OBVIOUS
<1>2. DOMAIN r = 1..(Len(q) + 1) /\ DOMAIN q = 1..Len(q)
  BY <1>1
<1>3. \A i \in 1..Len(q) : r[i] = q[i]
  OBVIOUS
<1>4. r[Len(q) + 1] = s
  OBVIOUS
<1>5. Len(q) \in Nat
  OBVIOUS
<1>6. Elements(r) \subseteq Elements(q) \cup {s}
  <2> SUFFICES ASSUME NEW i \in 1..(Len(q) + 1) PROVE r[i] \in Elements(q) \cup {s}
    BY <1>2 DEF Elements
  <2>1. CASE i = Len(q) + 1
    BY <2>1, <1>4
  <2>2. CASE i \in 1..Len(q)
    BY <2>2, <1>2, <1>3 DEF Elements
  <2> QED
    BY <2>1, <2>2, <1>5
<1>7. Elements(q) \cup {s} \subseteq Elements(r)
  BY <1>2, <1>3, <1>4, <1>5 DEF Elements
<1>8. ASSUME Distinct(q), s \notin Elements(q) PROVE Distinct(r)
  <2> SUFFICES ASSUME NEW i \in 1..(Len(q) + 1), NEW j \in 1..(Len(q) + 1), r[i] = r[j]
               PROVE  i = j
    BY <1>2 DEF Distinct
  <2>1. CASE i \in 1..Len(q) /\ j \in 1..Len(q)
    BY <2>1, <1>2, <1>3, <1>8 DEF Distinct
  <2>2. CASE i \in 1..Len(q) /\ j = Len(q) + 1
    BY <2>2, <1>2, <1>3, <1>4, <1>8 DEF Elements
  <2>3. CASE j \in 1..Len(q) /\ i = Len(q) + 1
    BY <2>3, <1>2, <1>3, <1>4, <1>8 DEF Elements
  <2> QED
    BY <2>1, <2>2, <2>3, <1>5
<1> QED
  BY <1>1, <1>6, <1>7, <1>8

(* A shift takes the first slug out of a queue free of duplicates. *)
LEMMA ShiftQueue ==
    ASSUME NEW q \in Seq(Slug), q # <<>>, Distinct(q)
    PROVE  /\ Head(q) \in Slug /\ Tail(q) \in Seq(Slug)
           /\ Elements(q) = Elements(Tail(q)) \cup {Head(q)}
           /\ Head(q) \notin Elements(Tail(q))
           /\ Distinct(Tail(q))
<1> DEFINE r == Tail(q)
<1>1. Len(q) \in Nat /\ Len(q) >= 1 /\ DOMAIN q = 1..Len(q)
  OBVIOUS
<1>2. r \in Seq(Slug) /\ Len(r) = Len(q) - 1 /\ DOMAIN r = 1..(Len(q) - 1)
  BY <1>1
<1>3. \A i \in 1..(Len(q) - 1) : r[i] = q[i + 1]
  BY <1>1
<1>4. Head(q) = q[1] /\ Head(q) \in Slug
  BY <1>1
<1>5. Elements(q) \subseteq Elements(r) \cup {Head(q)}
  <2> SUFFICES ASSUME NEW i \in 1..Len(q) PROVE q[i] \in Elements(r) \cup {Head(q)}
    BY <1>1 DEF Elements
  <2>1. CASE i = 1
    BY <2>1, <1>4
  <2>2. CASE i # 1
    <3>1. i - 1 \in 1..(Len(q) - 1)
      BY <2>2, <1>1
    <3>2. r[i - 1] = q[(i - 1) + 1] /\ (i - 1) + 1 = i
      BY <3>1, <1>3
    <3> QED
      BY <3>1, <3>2, <1>2 DEF Elements
  <2> QED
    BY <2>1, <2>2
<1>6. Elements(r) \cup {Head(q)} \subseteq Elements(q)
  <2>1. \A i \in 1..(Len(q) - 1) : i + 1 \in 1..Len(q)
    BY <1>1
  <2> QED
    BY <2>1, <1>1, <1>2, <1>3, <1>4 DEF Elements
<1>7. Head(q) \notin Elements(r)
  <2> SUFFICES ASSUME NEW i \in 1..(Len(q) - 1), r[i] = q[1] PROVE FALSE
    BY <1>2, <1>4 DEF Elements
  <2>1. i + 1 \in 1..Len(q) /\ 1 \in 1..Len(q) /\ i + 1 # 1
    BY <1>1
  <2> QED
    BY <2>1, <1>1, <1>3 DEF Distinct
<1>8. Distinct(r)
  <2> SUFFICES ASSUME NEW i \in 1..(Len(q) - 1), NEW j \in 1..(Len(q) - 1), r[i] = r[j]
               PROVE  i = j
    BY <1>2 DEF Distinct
  <2>1. i + 1 \in 1..Len(q) /\ j + 1 \in 1..Len(q)
    BY <1>1
  <2>2. i + 1 = j + 1
    BY <2>1, <1>1, <1>3 DEF Distinct
  <2> QED
    BY <2>2
<1> QED
  BY <1>2, <1>4, <1>5, <1>6, <1>7, <1>8

-----------------------------------------------------------------------------
(* Types. *)

(* The first sync leaves every variable well shaped. *)
LEMMA TypeInit == Init => TypeOK
<1> SUFFICES ASSUME Init PROVE TypeOK
  OBVIOUS
<1> USE DrainAssumption DEF Init
<1>1. shippedSlugs \in Seq(Slug) /\ readyToMerge \in Seq(Slug)
  OBVIOUS
<1>2. pr \in [Slug -> SUBSET {"open", "closed", "merged", "byHand"}]
  OBVIOUS
<1>3. branch \in [Slug -> {"none", "partial", "built"}]
  OBVIOUS
<1>4. cpc \in {"take", "parked", "merging", "returned"}
  OBVIOUS
<1> QED
  BY <1>1, <1>2, <1>3, <1>4 DEF TypeOK

(* A PR that opens, merges or is rejected leaves the PRs well shaped. *)
LEMMA PrTyped ==
    ASSUME TypeOK, NEW s \in Slug
    PROVE  /\ [pr EXCEPT ![s] = @ \cup {"open"}] \in [Slug -> SUBSET {"open", "closed", "merged", "byHand"}]
           /\ [pr EXCEPT ![s] = (@ \ {"open"}) \cup {"merged"}]
                \in [Slug -> SUBSET {"open", "closed", "merged", "byHand"}]
           /\ [pr EXCEPT ![s] = (@ \ {"open"}) \cup {"closed"}]
                \in [Slug -> SUBSET {"open", "closed", "merged", "byHand"}]
           /\ \A seen \in {{}, {"merged"}} :
                [pr EXCEPT ![s] = @ \cup {"byHand"} \cup seen]
                  \in [Slug -> SUBSET {"open", "closed", "merged", "byHand"}]
<1>1. pr[s] \in SUBSET {"open", "closed", "merged", "byHand"}
  BY DEF TypeOK
<1>2. \A v \in SUBSET {"open", "closed", "merged", "byHand"} :
        [pr EXCEPT ![s] = v] \in [Slug -> SUBSET {"open", "closed", "merged", "byHand"}]
  BY DEF TypeOK
<1>3. /\ pr[s] \cup {"open"} \in SUBSET {"open", "closed", "merged", "byHand"}
      /\ (pr[s] \ {"open"}) \cup {"merged"} \in SUBSET {"open", "closed", "merged", "byHand"}
      /\ (pr[s] \ {"open"}) \cup {"closed"} \in SUBSET {"open", "closed", "merged", "byHand"}
      /\ \A seen \in {{}, {"merged"}} :
           pr[s] \cup {"byHand"} \cup seen \in SUBSET {"open", "closed", "merged", "byHand"}
  BY <1>1
<1> QED
  BY <1>2, <1>3

(* What a child may do to the world keeps its shape. *)
LEMMA ChildActsTyped ==
    ASSUME TypeOK, NEW s \in Slug, NEW clean \in BOOLEAN, ChildActs(s, clean)
    PROVE  /\ origin' \subseteq Slug
           /\ pr' \in [Slug -> SUBSET {"open", "closed", "merged", "byHand"}]
           /\ branch' \in [Slug -> {"none", "partial", "built"}]
<1> USE DEF TypeOK, world
<1>1. CASE UNCHANGED world
  BY <1>1
<1>2. CASE /\ branch' = [branch EXCEPT ![s] = IF clean THEN "built" ELSE "partial"]
           /\ UNCHANGED <<origin, pr>>
  BY <1>2
<1>3. CASE /\ branch' = [branch EXCEPT ![s] = "built"]
           /\ pr' = [pr EXCEPT ![s] = @ \cup {"open"}]
           /\ UNCHANGED origin
  BY <1>3
<1>4. CASE /\ branch' = [branch EXCEPT ![s] = "built"]
           /\ pr' = [pr EXCEPT ![s] = (@ \ {"open"}) \cup {"merged"}]
           /\ origin' \in {origin, origin \ {s}}
  BY <1>4
<1> QED
  BY <1>1, <1>2, <1>3, <1>4 DEF ChildActs

(* The books a settlement keeps. *)
BookTyped ==
    /\ skip \subseteq Slug /\ dispatched \subseteq Slug /\ lastExitClean \subseteq Slug
    /\ retries \in [Slug -> Nat]
    /\ shippedSlugs \in Seq(Slug) /\ readyToMerge \in Seq(Slug)

(* A failed attempt keeps the books well shaped. *)
LEMMA RetryTyped ==
    ASSUME TypeOK, NEW s \in Slug, RecordRetryOrSkip(s)
    PROVE  retries' \in [Slug -> Nat] /\ skip' \subseteq Slug /\ shippedSlugs' \in Seq(Slug)
BY DEF TypeOK, RecordRetryOrSkip

(* A ship keeps the books well shaped. *)
LEMMA ShipTyped ==
    ASSUME TypeOK, NEW s \in Slug, NEW also \in SUBSET Slug, Ship(s, also)
    PROVE  retries' \in [Slug -> Nat] /\ skip' \subseteq Slug /\ shippedSlugs' \in Seq(Slug)
BY DEF TypeOK, Ship

(* Either settlement keeps the books, the queue and the coordinator well shaped. *)
LEMMA SettleTyped ==
    ASSUME TypeOK, NEW s \in Slug, NEW clean \in BOOLEAN, NEW exitClean \in SUBSET Slug,
           SettleAlone(s, exitClean) \/ SettleInPool(s, clean, exitClean),
           origin' \subseteq Slug
    PROVE  /\ BookTyped' /\ local' \subseteq Slug
           /\ merging' = merging /\ cpc' \in {cpc, "take"}
<1>1. CASE SettleAlone(s, exitClean)
  <2>1. retries' \in [Slug -> Nat] /\ skip' \subseteq Slug /\ shippedSlugs' \in Seq(Slug)
    BY <1>1, RetryTyped, ShipTyped DEF SettleAlone, TypeOK
  <2> QED
    BY <1>1, <2>1 DEF SettleAlone, TypeOK, BookTyped, coord
<1>2. CASE SettleInPool(s, clean, exitClean)
  <2>1. retries' \in [Slug -> Nat] /\ skip' \subseteq Slug /\ shippedSlugs' \in Seq(Slug)
    BY <1>2, RetryTyped, ShipTyped DEF SettleInPool, TypeOK
  <2>2. readyToMerge' \in {readyToMerge, Append(readyToMerge, s)}
    BY <1>2 DEF SettleInPool, coord
  <2>3. readyToMerge' \in Seq(Slug)
    <3>1. readyToMerge \in Seq(Slug)
      BY DEF TypeOK
    <3> QED
      BY <2>2, <3>1
  <2> QED
    BY <1>2, <2>1, <2>3 DEF SettleInPool, TypeOK, BookTyped, coord
<1> QED
  BY <1>1, <1>2

(* A worker that builds, builds an entry of the queue. *)
BuildersHaveJobs == \A w \in Building : job[w] \in Slug

(* A coordinator that merges, merges an entry of the queue. *)
MergesAnEntry == cpc = "merging" => merging \in Slug

Typed == TypeOK /\ BuildersHaveJobs /\ MergesAnEntry

(* No step of the drain spoils a type, nor the entry somebody works on. *)
LEMMA TypedStep == Typed /\ [Next]_vars => Typed'
<1> SUFFICES ASSUME Typed, [Next]_vars PROVE Typed'
  OBVIOUS
<1> USE DrainAssumption DEF Typed, TypeOK, BuildersHaveJobs, Building, MergesAnEntry
<1> USE DEF vars, world, book, workers, coord
<1>1. CASE UNCHANGED vars
  BY <1>1
<1>2. ASSUME NEW w \in Worker, WorkerReturns(w) PROVE Typed'
  BY <1>2 DEF WorkerReturns
<1>3. ASSUME NEW w \in Worker, SelectionThrows(w) PROVE Typed'
  BY <1>3 DEF SelectionThrows
<1>4. ASSUME NEW w \in Worker, NEW s \in Slug, SkipCandidate(w, s) PROVE Typed'
  BY <1>4 DEF SkipCandidate
<1>5. ASSUME NEW w \in Worker, NEW s \in Slug, Dispatch(w, s) PROVE Typed'
  <2>1. branch' \in [Slug -> {"none", "partial", "built"}]
    BY <1>5 DEF Dispatch, Salvaged
  <2>2. delivers' \in [Worker -> {"no", "told", "judged"}]
    BY <1>5 DEF Dispatch, Judged
  <2>3. /\ spawns' \in Nat /\ dispatched' \subseteq Slug
        /\ attempts' \in [Slug -> Nat]
        /\ job' \in [Worker -> Slug \cup {NoSlug}]
        /\ wpc' \in [Worker -> {"select", "building", "returned", "threw"}]
    BY <1>5 DEF Dispatch
  <2>4. BuildersHaveJobs'
    BY <1>5 DEF Dispatch
  <2>5. UNCHANGED <<origin, pr, local, stop, book, coord, abortRef, buildersDone, result, crew>>
    BY <1>5 DEF Dispatch
  <2> QED
    BY <2>1, <2>2, <2>3, <2>4, <2>5
<1>6. ASSUME NEW w \in Worker, NEW clean \in BOOLEAN, ChildExits(w, clean) PROVE Typed'
  <2> DEFINE s == job[w]
             exitClean == ExitRecord(s, clean)
  <2>1. s \in Slug /\ exitClean \in SUBSET Slug
    BY <1>6 DEF ChildExits, ExitRecord
  <2>2. /\ origin' \subseteq Slug
        /\ pr' \in [Slug -> SUBSET {"open", "closed", "merged", "byHand"}]
        /\ branch' \in [Slug -> {"none", "partial", "built"}]
    BY <1>6, <2>1, ChildActsTyped DEF ChildExits
  <2>3. SettleAlone(s, exitClean) \/ SettleInPool(s, clean, exitClean)
    BY <1>6 DEF ChildExits
  <2>0. TypeOK
    OBVIOUS
  <2>4. BookTyped' /\ local' \subseteq Slug /\ merging' = merging /\ cpc' \in {cpc, "take"}
    <3> HIDE DEF s, exitClean, Typed, TypeOK, BuildersHaveJobs, Building, MergesAnEntry, coord
    <3> QED
      BY <2>0, <2>1, <2>2, <2>3, SettleTyped
  <2> QED
    BY <1>6, <2>2, <2>4 DEF ChildExits, Frees, BookTyped
<1>7. ASSUME NEW w \in Worker, ChildTimesOut(w) PROVE Typed'
  <2>1. job[w] \in Slug
    BY <1>7 DEF ChildTimesOut
  <2>2. /\ origin' \subseteq Slug
        /\ pr' \in [Slug -> SUBSET {"open", "closed", "merged", "byHand"}]
        /\ branch' \in [Slug -> {"none", "partial", "built"}]
    BY <1>7, <2>1, ChildActsTyped DEF ChildTimesOut
  <2>3. retries' \in [Slug -> Nat] /\ skip' \subseteq Slug /\ shippedSlugs' \in Seq(Slug)
    BY <1>7, <2>1, RetryTyped DEF ChildTimesOut
  <2> QED
    BY <1>7, <2>1, <2>2, <2>3 DEF ChildTimesOut, Frees, ExitRecord
<1>8. ASSUME NEW w \in Worker, WorkerAborts(w) PROVE Typed'
  <2>1. job[w] \in Slug
    BY <1>8 DEF WorkerAborts
  <2>2. /\ origin' \subseteq Slug
        /\ pr' \in [Slug -> SUBSET {"open", "closed", "merged", "byHand"}]
        /\ branch' \in [Slug -> {"none", "partial", "built"}]
    BY <1>8, <2>1, ChildActsTyped DEF WorkerAborts
  <2> QED
    BY <1>8, <2>1, <2>2 DEF WorkerAborts, Frees, ExitRecord
<1>9. CASE CoordinatorTakes
  BY <1>9 DEF CoordinatorTakes
<1>10. CASE CoordinatorWaits
  BY <1>10 DEF CoordinatorWaits
<1>11. CASE CoordinatorReturns
  BY <1>11 DEF CoordinatorReturns
<1>12. CASE MergeSettles
  <2>1. merging \in Slug
    BY <1>12 DEF MergeSettles
  <2>2. pr' \in [Slug -> SUBSET {"open", "closed", "merged", "byHand"}] /\ origin' \subseteq Slug
    <3>1. pr' \in {pr, [pr EXCEPT ![merging] = (@ \ {"open"}) \cup {"merged"}]}
      BY <1>12 DEF MergeSettles
    <3>2. origin' \subseteq Slug
      BY <1>12 DEF MergeSettles
    <3>3. TypeOK
      OBVIOUS
    <3> QED
      <4> HIDE DEF TypeOK
      <4>1. pr \in [Slug -> SUBSET {"open", "closed", "merged", "byHand"}]
        BY <3>3 DEF TypeOK
      <4> QED
        BY <3>1, <3>2, <3>3, <4>1, <2>1, PrTyped
  <2>3. local' \subseteq Slug /\ lastExitClean' \subseteq Slug
    BY <1>12, <2>2 DEF MergeSettles
  <2>4. retries' \in [Slug -> Nat] /\ skip' \subseteq Slug /\ shippedSlugs' \in Seq(Slug)
    BY <1>12, <2>1, RetryTyped, ShipTyped DEF MergeSettles
  <2> QED
    BY <1>12, <2>2, <2>3, <2>4 DEF MergeSettles
<1>13. CASE MergeAborts
  <2>1. merging \in Slug
    BY <1>13 DEF MergeAborts
  <2>2. pr' \in [Slug -> SUBSET {"open", "closed", "merged", "byHand"}] /\ origin' \subseteq Slug
    <3>1. pr' \in {pr, [pr EXCEPT ![merging] = (@ \ {"open"}) \cup {"merged"}]}
      BY <1>13 DEF MergeAborts
    <3>2. origin' \subseteq Slug
      BY <1>13 DEF MergeAborts
    <3>3. TypeOK
      OBVIOUS
    <3> QED
      <4> HIDE DEF TypeOK
      <4>1. pr \in [Slug -> SUBSET {"open", "closed", "merged", "byHand"}]
        BY <3>3 DEF TypeOK
      <4> QED
        BY <3>1, <3>2, <3>3, <4>1, <2>1, PrTyped
  <2> QED
    BY <1>13, <2>2 DEF MergeAborts
<1>14. CASE BuildersDone
  BY <1>14 DEF BuildersDone
<1>15. CASE Resolve
  BY <1>15 DEF Resolve
<1>16. CASE Stop
  BY <1>16 DEF Stop
<1>17. ASSUME NEW s \in Slug, HumanDecides(s) PROVE Typed'
  <2>1. pr' \in [Slug -> SUBSET {"open", "closed", "merged", "byHand"}] /\ origin' \subseteq Slug
    <3>1. pr' \in {[pr EXCEPT ![s] = (@ \ {"open"}) \cup {"merged"}], [pr EXCEPT ![s] = (@ \ {"open"}) \cup {"closed"}]}
      BY <1>17 DEF HumanDecides
    <3>2. origin' \subseteq Slug
      BY <1>17 DEF HumanDecides
    <3>3. TypeOK
      OBVIOUS
    <3> QED
      <4> HIDE DEF TypeOK
      <4>1. pr \in [Slug -> SUBSET {"open", "closed", "merged", "byHand"}]
        BY <3>3 DEF TypeOK
      <4> QED
        BY <3>1, <3>2, <3>3, <4>1, PrTyped
  <2> QED
    BY <1>17, <2>1 DEF HumanDecides
<1>18. ASSUME NEW s \in Slug, LandsByHand(s) PROVE Typed'
  <2>1. PICK seen \in {{}, {"merged"}} : pr' = [pr EXCEPT ![s] = @ \cup {"byHand"} \cup seen]
    BY <1>18 DEF LandsByHand
  <2>2. TypeOK
    OBVIOUS
  <2>3. pr' \in [Slug -> SUBSET {"open", "closed", "merged", "byHand"}]
    <3> HIDE DEF TypeOK
    <3> QED
      BY <2>1, <2>2, PrTyped
  <2>4. origin' \subseteq Slug
    BY <1>18 DEF LandsByHand
  <2> QED
    BY <1>18, <2>3, <2>4 DEF LandsByHand
<1> QED
  BY <1>1, <1>2, <1>3, <1>4, <1>5, <1>6, <1>7, <1>8, <1>9, <1>10, <1>11, <1>12,
     <1>13, <1>14, <1>15, <1>16, <1>17, <1>18
     DEF Next, WorkerStep, CoordinatorStep, MainStep

(* Types: every variable keeps its shape through every step of the drain. *)
THEOREM TypeCorrect == Spec => []TypeOK
<1>1. Init => Typed
  BY TypeInit DEF Typed, BuildersHaveJobs, MergesAnEntry, Building, Init
<1>2. Typed => TypeOK
  BY DEF Typed
<1> QED
  BY <1>1, <1>2, TypedStep, PTL DEF Spec

-----------------------------------------------------------------------------
(* Ownership: the cap and the re-selection guard rest on it. *)

(* The coordinator names a slug exactly while it merges one. *)
MergingIsMarked == cpc = "merging" <=> merging # NoSlug

OwnInv == Typed /\ OneOwnerPerSlug /\ MergingIsMarked

(* Nobody's ownership changes. *)
LEMMA SameOwners ==
    ASSUME OneOwnerPerSlug, Building' = Building,
           UNCHANGED <<dispatched, readyToMerge, merging, job>>
    PROVE  OneOwnerPerSlug'
BY DEF OneOwnerPerSlug, Queued, Elements

(* A worker that lets go of its slug frees it. *)
LEMMA WorkerFrees ==
    ASSUME Typed, OneOwnerPerSlug, NEW w \in Building, Frees(w),
           dispatched' = dispatched \ {job[w]}, UNCHANGED <<readyToMerge, merging>>
    PROVE  OneOwnerPerSlug'
<1>1. w \in Worker /\ Building' = Building \ {w}
  BY DEF Building, Frees, Typed, TypeOK
<1>2. \A v \in Building' : v \in Building /\ job'[v] = job[v]
  BY <1>1 DEF Frees, Typed, TypeOK, Building
<1>3. Queued' = Queued
  BY DEF Queued, Elements
<1>4. \A v \in Building' : job'[v] # job[w]
  BY <1>1, <1>2 DEF OneOwnerPerSlug
<1>5. {job'[v] : v \in Building'} = {job[v] : v \in Building} \ {job[w]}
  BY <1>1, <1>2, <1>4
<1>6. job[w] \notin Queued \cup {merging}
  BY DEF OneOwnerPerSlug
<1>7. dispatched' = {job'[v] : v \in Building'} \cup Queued' \cup ({merging'} \ {NoSlug})
  BY <1>3, <1>5, <1>6 DEF OneOwnerPerSlug
<1> QED
  BY <1>2, <1>3, <1>7 DEF OneOwnerPerSlug

(* A worker that hands its slug over leaves it to the coordinator. *)
LEMMA WorkerHandsOver ==
    ASSUME Typed, OneOwnerPerSlug, NEW w \in Building, Frees(w),
           readyToMerge' = Append(readyToMerge, job[w]),
           UNCHANGED <<dispatched, merging>>
    PROVE  OneOwnerPerSlug'
<1>1. w \in Worker /\ Building' = Building \ {w}
  BY DEF Building, Frees, Typed, TypeOK
<1>2. \A v \in Building' : v \in Building /\ job'[v] = job[v]
  BY <1>1 DEF Frees, Typed, TypeOK, Building
<1>3. job[w] \in Slug /\ readyToMerge \in Seq(Slug)
  BY DEF Typed, TypeOK, BuildersHaveJobs
<1>4. Distinct(readyToMerge) /\ job[w] \notin Queued
  BY DEF OneOwnerPerSlug, Distinct
<1>5. Queued' = Queued \cup {job[w]} /\ Distinct(readyToMerge')
  BY <1>3, <1>4, PushQueue DEF Queued, Elements
<1>6. \A v \in Building' : job'[v] # job[w]
  BY <1>1, <1>2 DEF OneOwnerPerSlug
<1>7. {job'[v] : v \in Building'} \cup {job[w]} = {job[v] : v \in Building}
  BY <1>1, <1>2
<1>8. dispatched' = {job'[v] : v \in Building'} \cup Queued' \cup ({merging'} \ {NoSlug})
  BY <1>5, <1>7 DEF OneOwnerPerSlug
<1>9. merging' \notin Queued'
  BY <1>5 DEF OneOwnerPerSlug
<1>10. \A v \in Building' : job'[v] \notin Queued' \cup {merging'}
  BY <1>2, <1>5, <1>6 DEF OneOwnerPerSlug
<1>11. \A v, x \in Building' : job'[v] = job'[x] => v = x
  BY <1>2 DEF OneOwnerPerSlug
<1> QED
  BY <1>5, <1>8, <1>9, <1>10, <1>11 DEF OneOwnerPerSlug, Distinct

(* The coordinator takes over a slug that waits for it. *)
LEMMA CoordinatorTakesOver ==
    ASSUME OwnInv, CoordinatorTakes
    PROVE  OneOwnerPerSlug'
<1>1. readyToMerge \in Seq(Slug) /\ readyToMerge # <<>> /\ Distinct(readyToMerge)
  BY DEF OwnInv, Typed, TypeOK, CoordinatorTakes, OneOwnerPerSlug, Distinct
<1>2. merging = NoSlug /\ merging' = Head(readyToMerge) /\ readyToMerge' = Tail(readyToMerge)
  BY DEF OwnInv, MergingIsMarked, CoordinatorTakes
<1>3. /\ merging' \in Slug
      /\ Queued = Queued' \cup {merging'}
      /\ merging' \notin Queued'
      /\ Distinct(readyToMerge')
  BY <1>1, <1>2, ShiftQueue DEF Queued, Elements
<1>4. merging' # NoSlug
  BY <1>3, DrainAssumption
<1>5. Building' = Building /\ UNCHANGED <<dispatched, job>>
  BY DEF CoordinatorTakes, Building, workers
<1>6. dispatched' = {job'[v] : v \in Building'} \cup Queued' \cup ({merging'} \ {NoSlug})
  BY <1>2, <1>3, <1>4, <1>5 DEF OwnInv, OneOwnerPerSlug
<1>7. \A v \in Building' : job'[v] \notin Queued' \cup {merging'}
  BY <1>3, <1>5 DEF OwnInv, OneOwnerPerSlug
<1> QED
  BY <1>3, <1>5, <1>6, <1>7 DEF OwnInv, OneOwnerPerSlug, Distinct

(* The coordinator frees the slug it settled. *)
LEMMA CoordinatorFrees ==
    ASSUME OwnInv, dispatched' = dispatched \ {merging}, merging' = NoSlug,
           UNCHANGED <<readyToMerge, wpc, job>>
    PROVE  OneOwnerPerSlug'
<1>1. Building' = Building /\ Queued' = Queued
  BY DEF Building, Queued, Elements
<1>2. readyToMerge \in Seq(Slug)
  BY DEF OwnInv, Typed, TypeOK
<1>3. NoSlug \notin Queued
  BY <1>2, DrainAssumption DEF Queued, Elements
<1>4. \A w \in Building : job[w] # NoSlug /\ job[w] # merging
  BY DrainAssumption DEF OwnInv, Typed, BuildersHaveJobs, OneOwnerPerSlug
<1>5. dispatched' = {job'[v] : v \in Building'} \cup Queued' \cup ({merging'} \ {NoSlug})
  BY <1>1, <1>4 DEF OwnInv, OneOwnerPerSlug
<1> QED
  BY <1>1, <1>3, <1>4, <1>5 DEF OwnInv, OneOwnerPerSlug

(* How a settlement leaves the queue, the flags and the clean-exit record. *)
SettledFreely(s, exitClean) ==
    /\ dispatched' = dispatched \ {s} /\ UNCHANGED coord
    /\ lastExitClean' \in {exitClean, exitClean \ {s}}

SettledByHandover(s, clean, exitClean) ==
    /\ dispatched' = dispatched /\ readyToMerge' = Append(readyToMerge, s)
    /\ UNCHANGED merging /\ cpc' = (IF cpc = "parked" THEN "take" ELSE cpc)
    /\ clean /\ lastExitClean' = exitClean

(* A settlement frees the slug or hands it over, and only a clean exit hands over. *)
LEMMA SettlesOneWay ==
    ASSUME NEW s, NEW clean, NEW exitClean,
           SettleAlone(s, exitClean) \/ SettleInPool(s, clean, exitClean)
    PROVE  SettledFreely(s, exitClean) \/ SettledByHandover(s, clean, exitClean)
BY DEF SettleAlone, SettleInPool, SettledFreely, SettledByHandover, HandsOff

(* Ownership and the clean-exit record together are inductive. *)
DrainInv == OwnInv /\ OnlyCleanBuildsAreMerged

(* Nobody owns anything when the drain starts. *)
LEMMA DrainInvInit == Init => DrainInv
<1> SUFFICES ASSUME Init PROVE DrainInv
  OBVIOUS
<1>1. Building = {} /\ Queued = {} /\ readyToMerge = <<>> /\ merging = NoSlug /\ dispatched = {}
  BY DEF Init, Building, Queued, Elements
<1>2. cpc # "merging"
  BY DEF Init
<1>3. Typed
  BY TypeInit, <1>1, <1>2 DEF Typed, BuildersHaveJobs, MergesAnEntry
<1> QED
  BY <1>1, <1>2, <1>3
     DEF DrainInv, OwnInv, OneOwnerPerSlug, MergingIsMarked, OnlyCleanBuildsAreMerged

(* A step that touches no owner and no record. *)
LEMMA QuietStep ==
    ASSUME DrainInv, Building' = Building, UNCHANGED <<dispatched, readyToMerge, merging, job>>,
           lastExitClean' = lastExitClean, cpc' = "merging" <=> cpc = "merging"
    PROVE  OneOwnerPerSlug' /\ MergingIsMarked' /\ OnlyCleanBuildsAreMerged'
BY SameOwners
   DEF DrainInv, OwnInv, MergingIsMarked, OnlyCleanBuildsAreMerged, Queued, Elements

(* A worker that lets go of its slug, whatever it recorded about it. *)
LEMMA FreeingStep ==
    ASSUME DrainInv, NEW w \in Building, Frees(w),
           dispatched' = dispatched \ {job[w]}, UNCHANGED coord,
           lastExitClean \ {job[w]} \subseteq lastExitClean'
    PROVE  OneOwnerPerSlug' /\ MergingIsMarked' /\ OnlyCleanBuildsAreMerged'
<1>1. OneOwnerPerSlug'
  BY WorkerFrees DEF DrainInv, OwnInv, coord
<1>2. job[w] \notin Queued \cup {merging}
  BY DEF DrainInv, OwnInv, OneOwnerPerSlug
<1> QED
  BY <1>1, <1>2 DEF DrainInv, OwnInv, MergingIsMarked, OnlyCleanBuildsAreMerged, coord,
     Queued, Elements

(* Every action keeps each slug with one owner and each handed-over exit clean. *)
LEMMA DrainInvStep == DrainInv /\ [Next]_vars => DrainInv'
<1> SUFFICES ASSUME DrainInv, [Next]_vars PROVE DrainInv'
  OBVIOUS
<1>0. Typed'
  BY TypedStep DEF DrainInv, OwnInv
<1> SUFFICES OneOwnerPerSlug' /\ MergingIsMarked' /\ OnlyCleanBuildsAreMerged'
  BY <1>0 DEF DrainInv, OwnInv
<1> DEFINE Goal == OneOwnerPerSlug' /\ MergingIsMarked' /\ OnlyCleanBuildsAreMerged'
<1> USE DEF vars, world, book, workers, coord
<1>1. CASE UNCHANGED vars
  BY <1>1, QuietStep DEF Building
<1>2. ASSUME NEW w \in Worker, WorkerReturns(w) PROVE Goal
  BY <1>2, QuietStep DEF WorkerReturns, Building, DrainInv, OwnInv, Typed, TypeOK
<1>3. ASSUME NEW w \in Worker, SelectionThrows(w) PROVE Goal
  BY <1>3, QuietStep DEF SelectionThrows, Selecting, Building, DrainInv, OwnInv, Typed, TypeOK
<1>4. ASSUME NEW w \in Worker, NEW s \in Slug, SkipCandidate(w, s) PROVE Goal
  BY <1>4, QuietStep DEF SkipCandidate, Building
<1>5. ASSUME NEW w \in Worker, NEW s \in Slug, Dispatch(w, s) PROVE Goal
  <2>1. /\ dispatched' = dispatched \cup {s} /\ s \notin dispatched
        /\ UNCHANGED <<readyToMerge, merging, cpc, lastExitClean>>
    BY <1>5 DEF Dispatch, Selectable, Open, Candidates
  <2>2. /\ w \notin Building /\ Building' = Building \cup {w}
        /\ job'[w] = s /\ \A v \in Building : job'[v] = job[v]
    BY <1>5 DEF Dispatch, Selecting, Building, DrainInv, OwnInv, Typed, TypeOK
  <2>3. {job'[v] : v \in Building'} = {job[v] : v \in Building} \cup {s}
    BY <2>2
  <2>4. Queued' = Queued
    BY <2>1 DEF Queued, Elements
  <2>5. s \notin {job[v] : v \in Building} \cup Queued \cup {merging}
    <3>1. s # NoSlug
      BY DrainAssumption
    <3> QED
      BY <2>1, <3>1 DEF DrainInv, OwnInv, OneOwnerPerSlug
  <2>6. dispatched' = {job'[v] : v \in Building'} \cup Queued' \cup ({merging'} \ {NoSlug})
    BY <2>1, <2>3, <2>4 DEF DrainInv, OwnInv, OneOwnerPerSlug
  <2>7. \A v, x \in Building' : job'[v] = job'[x] => v = x
    BY <2>2, <2>5 DEF DrainInv, OwnInv, OneOwnerPerSlug
  <2>8. \A v \in Building' : job'[v] \notin Queued' \cup {merging'}
    BY <2>1, <2>2, <2>4, <2>5 DEF DrainInv, OwnInv, OneOwnerPerSlug
  <2>9. OneOwnerPerSlug'
    BY <2>1, <2>4, <2>6, <2>7, <2>8 DEF DrainInv, OwnInv, OneOwnerPerSlug
  <2> QED
    BY <2>1, <2>4, <2>9 DEF DrainInv, OwnInv, MergingIsMarked, OnlyCleanBuildsAreMerged
<1>6. ASSUME NEW w \in Worker, NEW clean \in BOOLEAN, ChildExits(w, clean) PROVE Goal
  <2>1. w \in Building /\ Frees(w)
    BY <1>6 DEF ChildExits, Building
  <2>2. CASE SettledFreely(job[w], ExitRecord(job[w], clean))
    BY <2>1, <2>2, FreeingStep DEF SettledFreely, ExitRecord
  <2>3. CASE SettledByHandover(job[w], clean, ExitRecord(job[w], clean))
    <3>1. OneOwnerPerSlug'
      BY <2>1, <2>3, WorkerHandsOver DEF SettledByHandover, DrainInv, OwnInv
    <3>2. readyToMerge \in Seq(Slug) /\ job[w] \in Slug
      BY <2>1 DEF DrainInv, OwnInv, Typed, TypeOK, BuildersHaveJobs
    <3>3. Queued' = Queued \cup {job[w]}
      BY <2>3, <3>2, PushQueue DEF SettledByHandover, Queued, Elements
    <3>4. lastExitClean' = (lastExitClean \ {job[w]}) \cup {job[w]}
      BY <2>3 DEF SettledByHandover, ExitRecord
    <3>5. MergingIsMarked'
      BY <2>3 DEF SettledByHandover, DrainInv, OwnInv, MergingIsMarked
    <3> QED
      BY <2>3, <3>1, <3>3, <3>4, <3>5
         DEF SettledByHandover, DrainInv, OnlyCleanBuildsAreMerged
  <2> QED
    BY <1>6, <2>2, <2>3, SettlesOneWay DEF ChildExits
<1>7. ASSUME NEW w \in Worker, ChildTimesOut(w) PROVE Goal
  BY <1>7, FreeingStep DEF ChildTimesOut, Building, ExitRecord
<1>8. ASSUME NEW w \in Worker, WorkerAborts(w) PROVE Goal
  BY <1>8, FreeingStep DEF WorkerAborts, Building, ExitRecord
<1>9. CASE CoordinatorTakes
  <2>1. OneOwnerPerSlug'
    BY <1>9, CoordinatorTakesOver DEF DrainInv
  <2>2. readyToMerge \in Seq(Slug) /\ readyToMerge # <<>> /\ Distinct(readyToMerge)
    BY <1>9 DEF DrainInv, OwnInv, Typed, TypeOK, CoordinatorTakes, OneOwnerPerSlug, Distinct
  <2>3. Queued = Queued' \cup {merging'} /\ merging' \in Slug
    BY <1>9, <2>2, ShiftQueue DEF CoordinatorTakes, Queued, Elements
  <2> QED
    BY <1>9, <2>1, <2>3, DrainAssumption
       DEF CoordinatorTakes, DrainInv, MergingIsMarked, OnlyCleanBuildsAreMerged
<1>10. CASE CoordinatorWaits
  BY <1>10, QuietStep DEF CoordinatorWaits, Building
<1>11. CASE CoordinatorReturns
  BY <1>11, QuietStep DEF CoordinatorReturns, Building
<1>12. CASE MergeSettles
  <2>1. OneOwnerPerSlug'
    BY <1>12, CoordinatorFrees DEF MergeSettles, DrainInv
  <2>2. merging \notin Queued /\ Queued' = Queued
    BY <1>12 DEF MergeSettles, DrainInv, OwnInv, OneOwnerPerSlug, Queued, Elements
  <2>3. lastExitClean \ {merging} \subseteq lastExitClean'
    BY <1>12 DEF MergeSettles
  <2> QED
    BY <1>12, <2>1, <2>2, <2>3
       DEF MergeSettles, DrainInv, MergingIsMarked, OnlyCleanBuildsAreMerged
<1>13. CASE MergeAborts
  <2>1. OneOwnerPerSlug'
    BY <1>13, CoordinatorFrees DEF MergeAborts, DrainInv
  <2>2. Queued' = Queued
    BY <1>13 DEF MergeAborts, Queued, Elements
  <2> QED
    BY <1>13, <2>1, <2>2
       DEF MergeAborts, DrainInv, MergingIsMarked, OnlyCleanBuildsAreMerged
<1>14. CASE BuildersDone
  BY <1>14, QuietStep DEF BuildersDone, Building
<1>15. CASE Resolve
  BY <1>15, QuietStep DEF Resolve, Building
<1>16. CASE Stop
  BY <1>16, QuietStep DEF Stop, Building
<1>17. ASSUME NEW s \in Slug, HumanDecides(s) PROVE Goal
  BY <1>17, QuietStep DEF HumanDecides, Building
<1>18. ASSUME NEW s \in Slug, LandsByHand(s) PROVE Goal
  BY <1>18, QuietStep DEF LandsByHand, Building
<1> QED
  BY <1>1, <1>2, <1>3, <1>4, <1>5, <1>6, <1>7, <1>8, <1>9, <1>10, <1>11, <1>12,
     <1>13, <1>14, <1>15, <1>16, <1>17, <1>18
     DEF Next, WorkerStep, CoordinatorStep, MainStep

(* Every slug in `dispatched' has one owner, and no slug outside it has any:   *)
(* the cap is never eaten by a leak and no branch is built twice at once.      *)
THEOREM EverySlugHasOneOwner == Spec => []OneOwnerPerSlug
<1>1. DrainInv => OneOwnerPerSlug
  BY DEF DrainInv, OwnInv
<1> QED
  BY <1>1, DrainInvInit, DrainInvStep, PTL DEF Spec

(* The coordinator merges the PRs of clean exits only, whatever the other      *)
(* workers, the timeouts and the humans do meanwhile.                          *)
THEOREM FailedBuildsAreNotMerged == Spec => []OnlyCleanBuildsAreMerged
<1>1. DrainInv => OnlyCleanBuildsAreMerged
  BY DEF DrainInv
<1> QED
  BY <1>1, DrainInvInit, DrainInvStep, PTL DEF Spec
-----------------------------------------------------------------------------
(* Blockers: an entry is only built over what has landed. *)

(* A step takes an entry from main only as it lands, and no landing is undone. *)
Lands ==
    /\ origin' \subseteq origin
    /\ \A x \in Slug : /\ x \in origin \ origin' => Landed(x)'
                       /\ pr[x] \cap {"merged", "byHand"} \subseteq pr'[x]

(* Local main lags behind, and what has left main has landed. *)
LandInv ==
    /\ Typed
    /\ origin \subseteq local
    /\ \A x \in Slug \ origin : Landed(x)

(* A PR of s that opens, or is merged with its entry, is no exception. *)
LEMMA PrLands ==
    ASSUME TypeOK, NEW s \in Slug,
           \/ pr' = pr /\ origin' = origin
           \/ pr' = [pr EXCEPT ![s] = @ \cup {"open"}] /\ origin' = origin
           \/ pr' = [pr EXCEPT ![s] = (@ \ {"open"}) \cup {"closed"}] /\ origin' = origin
           \/ /\ pr' = [pr EXCEPT ![s] = (@ \ {"open"}) \cup {"merged"}]
              /\ origin' \in {origin, origin \ {s}}
           \/ /\ \E seen : pr' = [pr EXCEPT ![s] = @ \cup {"byHand"} \cup seen]
              /\ origin' \in {origin, origin \ {s}}
    PROVE  Lands
<1> USE DEF Landed
<1>1. pr \in [Slug -> SUBSET {"open", "closed", "merged", "byHand"}]
  BY DEF TypeOK
<1>2. CASE pr' = pr /\ origin' = origin
  BY <1>2 DEF Lands
<1>3. CASE pr' = [pr EXCEPT ![s] = @ \cup {"open"}] /\ origin' = origin
  BY <1>1, <1>3 DEF Lands
<1>4. CASE pr' = [pr EXCEPT ![s] = (@ \ {"open"}) \cup {"closed"}] /\ origin' = origin
  BY <1>1, <1>4 DEF Lands
<1>5. CASE /\ pr' = [pr EXCEPT ![s] = (@ \ {"open"}) \cup {"merged"}]
           /\ origin' \in {origin, origin \ {s}}
  BY <1>1, <1>5 DEF Lands
<1>6. CASE /\ \E seen : pr' = [pr EXCEPT ![s] = @ \cup {"byHand"} \cup seen]
           /\ origin' \in {origin, origin \ {s}}
  BY <1>1, <1>6 DEF Lands
<1> QED
  BY <1>2, <1>3, <1>4, <1>5, <1>6

(* Whatever a child does, it lands by merging. *)
LEMMA ChildLands ==
    ASSUME TypeOK, NEW s \in Slug, NEW clean \in BOOLEAN, ChildActs(s, clean)
    PROVE  Lands
BY PrLands DEF ChildActs, world

(* Every step lands what it takes, and leaves local main alone or syncs it. *)
LEMMA StepLands ==
    ASSUME Typed, [Next]_vars
    PROVE  Lands /\ local' \in {local, origin'}
<1>0. TypeOK
  BY DEF Typed
<1>1. ASSUME UNCHANGED <<origin, pr, local>> PROVE Lands /\ local' \in {local, origin'}
  BY <1>1 DEF Lands
<1>2. ASSUME NEW w \in Worker, NEW clean \in BOOLEAN, ChildExits(w, clean)
      PROVE  Lands /\ local' \in {local, origin'}
  <2>1. job[w] \in Slug
    BY <1>2 DEF ChildExits, Typed, BuildersHaveJobs, Building
  <2>2. Lands
    BY <1>0, <1>2, <2>1, ChildLands DEF ChildExits
  <2> QED
    BY <1>2, <2>2 DEF ChildExits, SettleAlone, SettleInPool
<1>3. ASSUME NEW w \in Worker, ChildTimesOut(w) PROVE Lands /\ local' \in {local, origin'}
  <2>1. job[w] \in Slug
    BY <1>3 DEF ChildTimesOut, Typed, BuildersHaveJobs, Building
  <2> QED
    BY <1>0, <1>3, <2>1, ChildLands DEF ChildTimesOut
<1>4. ASSUME NEW w \in Worker, WorkerAborts(w) PROVE Lands /\ local' \in {local, origin'}
  <2>1. job[w] \in Slug
    BY <1>4 DEF WorkerAborts, Typed, BuildersHaveJobs, Building
  <2> QED
    BY <1>0, <1>4, <2>1, ChildLands DEF WorkerAborts
<1>5. CASE MergeSettles
  <2>1. merging \in Slug
    BY <1>5 DEF MergeSettles, Typed, MergesAnEntry
  <2>2. Lands
    BY <1>0, <1>5, <2>1, PrLands DEF MergeSettles
  <2> QED
    BY <1>5, <2>2 DEF MergeSettles
<1>6. CASE MergeAborts
  <2>1. merging \in Slug
    BY <1>6 DEF MergeAborts, Typed, MergesAnEntry
  <2> QED
    BY <1>0, <1>6, <2>1, PrLands DEF MergeAborts
<1>7. ASSUME NEW s \in Slug, HumanDecides(s) PROVE Lands /\ local' \in {local, origin'}
  BY <1>0, <1>7, PrLands DEF HumanDecides
<1>11. ASSUME NEW s \in Slug, LandsByHand(s) PROVE Lands /\ local' \in {local, origin'}
  BY <1>0, <1>11, PrLands DEF LandsByHand
<1>8. ASSUME NEW w \in Worker,
             \/ WorkerReturns(w) \/ SelectionThrows(w)
             \/ \E s \in Slug : SkipCandidate(w, s) \/ Dispatch(w, s)
      PROVE  UNCHANGED <<origin, pr, local>>
  BY <1>8 DEF WorkerReturns, SelectionThrows, SkipCandidate, Dispatch, world
<1>9. ASSUME CoordinatorTakes \/ CoordinatorWaits \/ CoordinatorReturns \/ MainStep \/ Stop
      PROVE  UNCHANGED <<origin, pr, local>>
  BY <1>9 DEF CoordinatorTakes, CoordinatorWaits, CoordinatorReturns, MainStep,
              BuildersDone, Resolve, Stop, world
<1>10. CASE UNCHANGED vars
  BY <1>1, <1>10 DEF vars, world
<1> QED
  BY <1>1, <1>2, <1>3, <1>4, <1>5, <1>6, <1>7, <1>8, <1>9, <1>10, <1>11
     DEF Next, WorkerStep, CoordinatorStep

(* Local main lags behind main at the start as after every step. *)
LEMMA LandInvInit == Init => LandInv
BY TypeInit DEF Typed, BuildersHaveJobs, MergesAnEntry, Building, Init, LandInv

LEMMA LandInvStep == LandInv /\ [Next]_vars => LandInv'
<1> SUFFICES ASSUME LandInv, [Next]_vars PROVE LandInv'
  OBVIOUS
<1>1. Typed /\ Typed'
  BY TypedStep DEF LandInv
<1>2. Lands /\ local' \in {local, origin'}
  BY <1>1, StepLands
<1> QED
  <2>1. \A x \in Slug \ origin : Landed(x)'
    BY <1>2 DEF LandInv, Lands, Landed
  <2> QED
    BY <1>1, <1>2, <2>1 DEF LandInv, Lands

(* Only a dispatch counts an attempt, and it is of an entry without unmet       *)
(* blockers: in a cycle of slugs no entry is drainable.                         *)
LEMMA StartsAreUnblocked ==
    ASSUME ById = {}, Typed, Next, NEW s \in Slug, attempts'[s] # attempts[s]
    PROVE  Unmet(s) = {}
<1>1. \E w \in Worker, x \in Slug : Dispatch(w, x)
  BY DEF Next, WorkerStep, CoordinatorStep, MainStep, WorkerReturns, SelectionThrows,
         SkipCandidate, ChildExits, ChildTimesOut, WorkerAborts, CoordinatorTakes,
         CoordinatorWaits, CoordinatorReturns, MergeSettles, MergeAborts, BuildersDone,
         Resolve, Stop, HumanDecides, LandsByHand
<1>2. PICK w \in Worker, x \in Slug : Dispatch(w, x)
  BY <1>1
<1>3. x = s /\ Drainable(s)
  BY <1>2 DEF Dispatch, Typed, TypeOK
<1> QED
  BY <1>3 DEF Drainable

(* A child is started on an entry only after what blocks it has landed, for any *)
(* queue whose blockers are named by slug, any crew and any source.             *)
THEOREM BlockersHaveLanded == ById = {} => (Spec => BlockersLandFirst)
<1> SUFFICES ASSUME ById = {} PROVE Spec => BlockersLandFirst
  OBVIOUS
<1> DEFINE Step == \A s \in Slug : attempts'[s] # attempts[s] =>
             \A d \in Slug \ {s} : <<s, d>> \in BlockedBy => d \notin origin /\ Landed(d)
<1>2. LandInv /\ [Next]_vars => [Step]_vars
  <2> SUFFICES ASSUME LandInv, Next, NEW s \in Slug, attempts'[s] # attempts[s],
                      NEW d \in Slug \ {s}, <<s, d>> \in BlockedBy
               PROVE  d \notin origin /\ Landed(d)
    OBVIOUS
  <2>1. Unmet(s) = {}
    BY StartsAreUnblocked DEF LandInv
  <2>2. d \notin local
    BY <2>1 DEF Unmet
  <2> QED
    BY <2>2 DEF LandInv
<1> QED
  BY <1>2, LandInvInit, LandInvStep, PTL DEF Spec, BlockersLandFirst

-----------------------------------------------------------------------------
(* The accounts: what a step does to the books, whoever takes it. *)

(* The invariant of owners with that of main. *)
RunInv == DrainInv /\ LandInv

NothingBooked ==
    UNCHANGED <<skip, dispatched, shippedSlugs, retries, attempts, spawns, local, abortRef>>

PassesOver(s) ==
    /\ s \in Candidates /\ skip' = skip \cup {s}
    /\ UNCHANGED <<dispatched, shippedSlugs, retries, attempts, spawns, local, abortRef>>

Starts(s) ==
    /\ ~abortRef /\ ~CapReached /\ spawns < MaxSpawns /\ s \in Candidates
    /\ spawns' = spawns + 1 /\ dispatched' = dispatched \cup {s}
    /\ attempts' = [attempts EXCEPT ![s] = @ + 1]
    /\ UNCHANGED <<skip, shippedSlugs, retries, local, abortRef>>

Settles(s) ==
    /\ s \in dispatched /\ dispatched' = dispatched \ {s}
    /\ UNCHANGED <<attempts, spawns>>
    /\ \/ /\ UNCHANGED abortRef
          /\ \/ /\ Ship(s, {}) /\ s \notin local' /\ s \notin origin'
             \/ /\ Ship(s, {s}) /\ "merged" \in pr'[s]
             \/ /\ skip' = skip \cup {s} /\ UNCHANGED <<retries, shippedSlugs>>
             \/ RecordRetryOrSkip(s)
       \/ abortRef' = TRUE /\ UNCHANGED <<skip, retries, shippedSlugs>>

(* Every step books nothing, passes over an entry, starts one or settles one. *)
LEMMA StepsBook ==
    ASSUME RunInv, [Next]_vars
    PROVE  /\ NothingBooked \/ \E s \in Slug : PassesOver(s) \/ Starts(s) \/ Settles(s)
           /\ abortRef => abortRef'
<1> DEFINE Goal == /\ NothingBooked \/ \E s \in Slug : PassesOver(s) \/ Starts(s) \/ Settles(s)
                   /\ abortRef => abortRef'
<1> USE DEF book
<1>0. Typed /\ OneOwnerPerSlug
  BY DEF RunInv, DrainInv, OwnInv
<1>1. ASSUME NEW w \in Building PROVE w \in Worker /\ job[w] \in Slug /\ job[w] \in dispatched
  BY <1>0, <1>1 DEF OneOwnerPerSlug, Typed, BuildersHaveJobs, Building
<1>2. \A s \in Slug : s \in Selectable => s \in Candidates
  BY DEF Selectable, Open
<1>3. ASSUME NEW w \in Worker, NEW s \in Slug, SkipCandidate(w, s) PROVE Goal
  BY <1>2, <1>3 DEF SkipCandidate, PassesOver
<1>4. ASSUME NEW w \in Worker, NEW s \in Slug, Dispatch(w, s) PROVE Goal
  BY <1>2, <1>4 DEF Dispatch, Selecting, Starts
<1>5. ASSUME NEW w \in Worker, NEW clean \in BOOLEAN, ChildExits(w, clean) PROVE Goal
  <2>1. w \in Building /\ job[w] \in Slug /\ job[w] \in dispatched
    BY <1>1, <1>5 DEF ChildExits, Building
  <2>2. UNCHANGED <<attempts, spawns, abortRef>>
    BY <1>5 DEF ChildExits
  <2>3. CASE SettleAlone(job[w], ExitRecord(job[w], clean))
    BY <2>1, <2>2, <2>3 DEF SettleAlone, Settles
  <2>4. CASE SettleInPool(job[w], clean, ExitRecord(job[w], clean))
    BY <2>1, <2>2, <2>4 DEF SettleInPool, Settles, NothingBooked
  <2> QED
    BY <1>5, <2>3, <2>4 DEF ChildExits
<1>6. ASSUME NEW w \in Worker, ChildTimesOut(w) PROVE Goal
  BY <1>1, <1>6 DEF ChildTimesOut, Building, Settles
<1>7. ASSUME NEW w \in Worker, WorkerAborts(w) PROVE Goal
  BY <1>1, <1>7 DEF WorkerAborts, Building, Settles
<1>8. ASSUME cpc = "merging" PROVE merging \in Slug /\ merging \in dispatched
  BY <1>0, <1>8, DrainAssumption DEF OneOwnerPerSlug, Typed, MergesAnEntry
<1>9. CASE MergeSettles
  BY <1>8, <1>9 DEF MergeSettles, Settles
<1>10. CASE MergeAborts
  BY <1>8, <1>10 DEF MergeAborts, Settles
<1>11. CASE \/ \E w \in Worker : WorkerReturns(w) \/ SelectionThrows(w)
            \/ CoordinatorTakes \/ CoordinatorWaits \/ CoordinatorReturns
            \/ MainStep \/ Stop \/ (\E s \in Slug : HumanDecides(s) \/ LandsByHand(s)) \/ UNCHANGED vars
  BY <1>11 DEF WorkerReturns, SelectionThrows, CoordinatorTakes, CoordinatorWaits,
     CoordinatorReturns, MainStep, BuildersDone, Resolve, Stop, HumanDecides, LandsByHand, vars, NothingBooked
<1> QED
  BY <1>3, <1>4, <1>5, <1>6, <1>7, <1>9, <1>10, <1>11 DEF Next, WorkerStep, CoordinatorStep

LEMMA RunInvInit == Init => RunInv
BY DrainInvInit, LandInvInit DEF RunInv

LEMMA RunInvStep == RunInv /\ [Next]_vars => RunInv'
BY DrainInvStep, LandInvStep DEF RunInv

(* The caps count what is in flight: never more than maxFeatures shipped or on  *)
(* the way, never more than maxRetries + 1 children for one slug.               *)
WithinCaps ==
    /\ Len(shippedSlugs) + Cardinality(dispatched) <= MaxFeatures
    /\ spawns <= MaxSpawns
    /\ \A s \in Slug : attempts[s] <= MaxRetries + 1

(* What is offered again has failed as often as it was tried, and not too often;  *)
(* one attempt more is under way.                                                 *)
TriesAreBooked ==
    \A s \in local \ skip :
        /\ retries[s] <= MaxRetries
        /\ attempts[s] <= retries[s] + IF s \in dispatched THEN 1 ELSE 0

CapInv == RunInv /\ WithinCaps /\ (abortRef \/ TriesAreBooked)

(* A push of one slug. *)
LEMMA OneMoreShipped ==
    ASSUME Typed, NEW s \in Slug, NEW also, Ship(s, also)
    PROVE  /\ shippedSlugs' \in Seq(Slug) /\ Len(shippedSlugs') = Len(shippedSlugs) + 1
           /\ Shipped' = Shipped \cup {s}
           /\ Distinct(shippedSlugs) /\ s \notin Shipped => Distinct(shippedSlugs')
<1>1. shippedSlugs \in Seq(Slug) /\ shippedSlugs' = Append(shippedSlugs, s)
  BY DEF Typed, TypeOK, Ship
<1> QED
  BY <1>1, PushQueue DEF Shipped, Elements

(* The slugs in flight can be counted, one by one. *)
LEMMA InFlight ==
    ASSUME Typed, NEW s \in Slug
    PROVE  /\ Cardinality(dispatched) \in Nat /\ Len(shippedSlugs) \in Nat
           /\ s \notin dispatched =>
                Cardinality(dispatched \cup {s}) = Cardinality(dispatched) + 1
           /\ s \in dispatched =>
                Cardinality(dispatched \ {s}) = Cardinality(dispatched) - 1
<1>1. dispatched \in SUBSET Slug /\ shippedSlugs \in Seq(Slug)
  BY DEF Typed, TypeOK
<1>2. IsFiniteSet(dispatched)
  BY <1>1, DrainAssumption, FS_Subset
<1>3. Cardinality(dispatched) \in Nat
  BY <1>2, FS_CardinalityType
<1>4. s \notin dispatched => Cardinality(dispatched \cup {s}) = Cardinality(dispatched) + 1
  BY <1>2, FS_AddElement
<1>5. s \in dispatched => Cardinality(dispatched \ {s}) = Cardinality(dispatched) - 1
  BY <1>2, FS_RemoveElement
<1> QED
  BY <1>1, <1>3, <1>4, <1>5

LEMMA CapInvStep == CapInv /\ [Next]_vars => CapInv'
<1> SUFFICES ASSUME CapInv, [Next]_vars PROVE CapInv'
  OBVIOUS
<1> USE DrainAssumption
<1>0. RunInv' /\ Typed /\ (abortRef => abortRef')
  BY RunInvStep, StepsBook DEF CapInv, RunInv, LandInv
<1>1. /\ attempts \in [Slug -> Nat] /\ retries \in [Slug -> Nat] /\ spawns \in Nat
      /\ local \subseteq Slug /\ dispatched \subseteq Slug
  BY <1>0 DEF Typed, TypeOK
<1>2. local' \subseteq local
  BY <1>0, StepLands DEF CapInv, RunInv, LandInv, Lands
<1>3. CASE NothingBooked
  BY <1>0, <1>3 DEF NothingBooked, CapInv, WithinCaps, TriesAreBooked
<1>4. ASSUME NEW s \in Slug, PassesOver(s) PROVE CapInv'
  BY <1>0, <1>4 DEF PassesOver, CapInv, WithinCaps, TriesAreBooked
<1>5. ASSUME NEW s \in Slug, Starts(s) PROVE CapInv'
  <2>1. s \in local \ skip /\ s \notin dispatched /\ ~abortRef
    BY <1>5 DEF Starts, Candidates
  <2>2. retries[s] <= MaxRetries /\ attempts[s] <= retries[s]
    <3>1. TriesAreBooked
      BY <2>1 DEF CapInv
    <3>2. retries[s] <= MaxRetries /\ attempts[s] <= retries[s] + 0
      BY <2>1, <3>1 DEF TriesAreBooked
    <3> QED
      BY <1>1, <2>1, <3>2
  <2>3. attempts'[s] = attempts[s] + 1 /\ \A x \in Slug \ {s} : attempts'[x] = attempts[x]
    BY <1>1, <1>5 DEF Starts
  <2>4. \A x \in Slug : attempts'[x] <= MaxRetries + 1
    BY <1>1, <2>2, <2>3 DEF CapInv, WithinCaps
  <2>5. Len(shippedSlugs) + Cardinality(dispatched') <= MaxFeatures
    BY <1>0, <1>5, <2>1, InFlight DEF Starts, CapReached
  <2>6. spawns' <= MaxSpawns
    BY <1>1, <1>5 DEF Starts
  <2>7. TriesAreBooked'
    BY <1>1, <1>5, <2>1, <2>2, <2>3 DEF Starts, CapInv, TriesAreBooked
  <2> QED
    BY <1>0, <1>5, <2>4, <2>5, <2>6, <2>7 DEF Starts, CapInv, WithinCaps
<1>6. ASSUME NEW s \in Slug, Settles(s) PROVE CapInv'
  <2>1. s \in dispatched /\ dispatched' = dispatched \ {s} /\ UNCHANGED <<attempts, spawns>>
    BY <1>6 DEF Settles
  <2>2. Cardinality(dispatched') = Cardinality(dispatched) - 1 /\ Cardinality(dispatched) \in Nat
        /\ Len(shippedSlugs) \in Nat
    BY <1>0, <2>1, InFlight
  <2>3. Len(shippedSlugs') \in {Len(shippedSlugs), Len(shippedSlugs) + 1}
    BY <1>0, <1>6, OneMoreShipped DEF Settles, RecordRetryOrSkip
  <2>4. WithinCaps'
    BY <2>1, <2>2, <2>3 DEF CapInv, WithinCaps
  <2>5. CASE abortRef'
    BY <1>0, <2>4, <2>5 DEF CapInv
  <2>6. CASE ~abortRef'
    <3>1. TriesAreBooked
      BY <1>0, <2>6 DEF CapInv
    <3>2. skip \subseteq skip' /\ \A x \in Slug \ {s} : retries'[x] = retries[x]
      BY <1>1, <1>6, <2>6 DEF Settles, Ship, RecordRetryOrSkip
    <3>3. \A x \in local' \ skip' : x # s =>
              retries'[x] <= MaxRetries
              /\ attempts[x] <= retries'[x] + IF x \in dispatched' THEN 1 ELSE 0
      BY <1>1, <1>2, <2>1, <3>1, <3>2 DEF TriesAreBooked
    <3>4. ASSUME s \in local', s \notin skip'
          PROVE  retries'[s] = retries[s] + 1 /\ retries'[s] <= MaxRetries
      BY <1>1, <1>6, <2>6, <3>4 DEF Settles, Ship, RecordRetryOrSkip
    <3>5. ASSUME s \in local', s \notin skip' PROVE attempts[s] <= retries[s] + 1
      BY <1>2, <2>1, <3>1, <3>2, <3>5 DEF TriesAreBooked
    <3>6. TriesAreBooked'
      BY <1>1, <2>1, <3>3, <3>4, <3>5 DEF TriesAreBooked
    <3> QED
      BY <1>0, <2>4, <3>6 DEF CapInv
  <2> QED
    BY <2>5, <2>6
<1> QED
  BY <1>3, <1>4, <1>5, <1>6, StepsBook DEF CapInv

(* No crew, however its workers race for entries, ships or has under way more than *)
(* maxFeatures, spawns more than maxSpawns children, or more than maxRetries + 1   *)
(* of one entry (the cap and the retry budget of runDrain).                        *)
THEOREM CapsHold == Spec => []WithinCaps
<1>1. Init => CapInv
  <2> SUFFICES ASSUME Init PROVE CapInv
    OBVIOUS
  <2>1. Len(shippedSlugs) = 0 /\ Cardinality(dispatched) = 0
    BY FS_EmptySet DEF Init
  <2> QED
    BY <2>1, RunInvInit, DrainAssumption DEF Init, CapInv, WithinCaps, TriesAreBooked
<1>2. CapInv => WithinCaps
  BY DEF CapInv
<1> QED
  BY <1>1, <1>2, CapInvStep, PTL DEF Spec

(* What has shipped and is still listed is skipped. *)
ShipInv == RunInv /\ ShipsAreReal /\ Shipped \cap local \subseteq skip

LEMMA ShipInvStep == ShipInv /\ [Next]_vars => ShipInv'
<1> SUFFICES ASSUME ShipInv, [Next]_vars PROVE ShipInv'
  OBVIOUS
<1>0. RunInv' /\ Typed
  BY RunInvStep DEF ShipInv, RunInv, LandInv
<1>1. Lands /\ local' \subseteq local
  BY <1>0, StepLands DEF ShipInv, RunInv, LandInv, Lands
<1>2. Shipped \subseteq Slug
  BY <1>0 DEF Typed, TypeOK, Shipped, Elements
<1>3. \A x \in Shipped : "merged" \in pr'[x] \/ x \notin origin'
  BY <1>1, <1>2 DEF ShipInv, ShipsAreReal, Lands
<1>4. Distinct(shippedSlugs)
  BY DEF ShipInv, ShipsAreReal, Distinct
<1>5. ASSUME UNCHANGED shippedSlugs, (Shipped \cup skip') \cap dispatched' = {}, skip \subseteq skip'
      PROVE  ShipInv'
  <2>1. Shipped' = Shipped
    BY <1>5 DEF Shipped, Elements
  <2> QED
    BY <1>0, <1>1, <1>3, <1>5, <2>1 DEF ShipInv, ShipsAreReal
<1>6. CASE NothingBooked
  BY <1>5, <1>6 DEF NothingBooked, ShipInv, ShipsAreReal
<1>7. ASSUME NEW s \in Slug, PassesOver(s) PROVE ShipInv'
  BY <1>5, <1>7 DEF PassesOver, Candidates, ShipInv, ShipsAreReal
<1>8. ASSUME NEW s \in Slug, Starts(s) PROVE ShipInv'
  BY <1>5, <1>8 DEF Starts, Candidates, ShipInv, ShipsAreReal
<1>9. ASSUME NEW s \in Slug, Settles(s) PROVE ShipInv'
  <2>1. s \in dispatched /\ dispatched' = dispatched \ {s} /\ s \notin Shipped /\ s \notin skip
    BY <1>9 DEF Settles, ShipInv, ShipsAreReal
  <2>2. CASE UNCHANGED shippedSlugs /\ skip' \in {skip, skip \cup {s}}
    BY <1>5, <2>1, <2>2 DEF ShipInv, ShipsAreReal
  <2>3. ASSUME NEW also \in {{}, {s}}, Ship(s, also), also = {s} \/ s \notin local',
               "merged" \in pr'[s] \/ s \notin origin'
        PROVE  ShipInv'
    <3>1. Shipped' = Shipped \cup {s} /\ Distinct(shippedSlugs') /\ skip' = skip \cup also
      BY <1>0, <1>4, <2>1, <2>3, OneMoreShipped DEF Ship
    <3>2. (Shipped' \cup skip') \cap dispatched' = {} /\ Shipped' \cap local' \subseteq skip'
      BY <1>1, <2>1, <2>3, <3>1 DEF ShipInv, ShipsAreReal
    <3> QED
      BY <1>0, <1>3, <2>3, <3>1, <3>2 DEF ShipInv, ShipsAreReal, Distinct
  <2> QED
    BY <1>9, <2>2, <2>3 DEF Settles, RecordRetryOrSkip
<1> QED
  BY <1>6, <1>7, <1>8, <1>9, StepsBook DEF ShipInv

(* What the run reports as shipped is on main, each entry once, and no entry it has *)
(* shipped or skipped is under way again (the settlements of runDrain).             *)
THEOREM ShipsAreOnMain == Spec => []ShipsAreReal
<1>1. Init => ShipInv
  BY RunInvInit DEF Init, ShipInv, ShipsAreReal, Shipped, Elements
<1>2. ShipInv => ShipsAreReal
  BY DEF ShipInv
<1> QED
  BY <1>1, <1>2, ShipInvStep, PTL DEF Spec

-----------------------------------------------------------------------------
(* One worker: nothing it does not settle itself stays behind. *)

(* What a run that is over below its caps found: nothing to select. *)
NothingLeft == CapReached \/ spawns >= MaxSpawns \/ Selectable = {}

(* Without a pool the coordinator rests; the last worker returned for a reason, *)
(* which still holds.                                                           *)
SoloInv ==
    /\ RunInv
    /\ buildersDone => \A w \in Worker : wpc[w] = "returned"
    /\ ~Pool =>
        /\ cpc = "returned" /\ readyToMerge = <<>>
        /\ (\A w \in Worker : wpc[w] = "returned") => abortRef \/ stop \/ NothingLeft
        /\ result = "0" => buildersDone /\ NothingLeft

LEMMA SoloInvStep == SoloInv /\ [Next]_vars => SoloInv'
<1> SUFFICES ASSUME SoloInv, [Next]_vars PROVE SoloInv'
  OBVIOUS
<1> USE DEF vars, world, book, workers, coord
<1>0. RunInv' /\ Typed /\ TypeOK
  BY RunInvStep DEF SoloInv, RunInv, LandInv, Typed
<1> DEFINE AllBack == \A w \in Worker : wpc[w] = "returned"
           Same == UNCHANGED <<local, skip, dispatched, shippedSlugs, spawns>>
<1>1. ASSUME Same PROVE NothingLeft' = NothingLeft
  BY <1>1 DEF NothingLeft, CapReached, Selectable, Candidates, Open, Cyclic, Unmet
<1>2. ASSUME NEW w \in Worker, wpc[w] # "returned" PROVE ~AllBack /\ ~buildersDone
  BY <1>2 DEF SoloInv
<1>3. ASSUME NEW w \in Worker, UNCHANGED <<crew, buildersDone, result>>,
             wpc[w] # "returned", wpc'[w] # "returned",
             ~Pool => UNCHANGED <<cpc, readyToMerge>>
      PROVE  SoloInv'
  <2>1. ~AllBack /\ ~buildersDone /\ ~AllBack' /\ (~Pool => result # "0")
    BY <1>2, <1>3 DEF SoloInv
  <2> QED
    BY <1>0, <1>3, <2>1 DEF SoloInv, Pool
<1>4. ASSUME NEW w \in Worker, WorkerReturns(w) PROVE SoloInv'
  <2>1. ~buildersDone /\ (~Pool => result # "0")
    BY <1>2, <1>4 DEF WorkerReturns, SoloInv
  <2>2. NothingLeft' = NothingLeft
    BY <1>1, <1>4 DEF WorkerReturns
  <2>3. abortRef \/ stop \/ NothingLeft
    BY <1>4 DEF WorkerReturns, NothingLeft
  <2> QED
    BY <1>0, <1>4, <2>1, <2>2, <2>3 DEF WorkerReturns, SoloInv, Pool
<1>5. ASSUME NEW w \in Worker, SelectionThrows(w) PROVE SoloInv'
  <2>1. wpc[w] # "returned" /\ wpc'[w] # "returned"
    BY <1>0, <1>5 DEF SelectionThrows, Selecting, TypeOK
  <2>2. ~buildersDone /\ ~AllBack'
    BY <1>2, <2>1
  <2>3. ~Pool => result' # "0"
    BY <1>5, <2>2 DEF SelectionThrows, SoloInv
  <2> QED
    BY <1>0, <1>5, <2>2, <2>3 DEF SelectionThrows, SoloInv, Pool
<1>6. ASSUME NEW w \in Worker, NEW s \in Slug, SkipCandidate(w, s) \/ Dispatch(w, s) PROVE SoloInv'
  BY <1>0, <1>3, <1>6 DEF SkipCandidate, Dispatch, Selecting, TypeOK
<1>7. ASSUME NEW w \in Worker,
             (\E clean \in BOOLEAN : ChildExits(w, clean)) \/ ChildTimesOut(w) \/ WorkerAborts(w)
      PROVE  SoloInv'
  <2>1. wpc[w] # "returned" /\ wpc'[w] # "returned" /\ UNCHANGED <<crew, buildersDone, result>>
    BY <1>0, <1>7 DEF ChildExits, ChildTimesOut, WorkerAborts, Frees, TypeOK
  <2>2. ~Pool => UNCHANGED <<cpc, readyToMerge>>
    BY <1>7 DEF ChildExits, ChildTimesOut, WorkerAborts, SettleAlone
  <2> QED
    BY <1>3, <2>1, <2>2
<1>8. CASE CoordinatorStep
  <2>1. Pool
    BY <1>8 DEF CoordinatorStep, CoordinatorTakes, CoordinatorWaits, CoordinatorReturns,
       MergeSettles, MergeAborts, SoloInv
  <2>2. UNCHANGED <<crew, buildersDone, wpc>>
    BY <1>8 DEF CoordinatorStep, CoordinatorTakes, CoordinatorWaits, CoordinatorReturns,
       MergeSettles, MergeAborts
  <2> QED
    BY <1>0, <2>1, <2>2 DEF SoloInv, Pool
<1>9. CASE BuildersDone
  <2>1. NothingLeft' = NothingLeft
    BY <1>1, <1>9 DEF BuildersDone
  <2> QED
    BY <1>0, <1>9, <2>1 DEF BuildersDone, SoloInv, Pool
<1>10. CASE Resolve
  <2>1. NothingLeft' = NothingLeft
    BY <1>1, <1>10 DEF Resolve
  <2> QED
    BY <1>0, <1>10, <2>1 DEF Resolve, SoloInv, Pool
<1>11. CASE Stop \/ (\E s \in Slug : HumanDecides(s) \/ LandsByHand(s)) \/ UNCHANGED vars
  <2>1. NothingLeft' = NothingLeft
    BY <1>1, <1>11 DEF Stop, HumanDecides, LandsByHand
  <2>2. UNCHANGED <<crew, buildersDone, wpc, cpc, readyToMerge, result, abortRef>>
        /\ (stop => stop')
    BY <1>11 DEF Stop, HumanDecides, LandsByHand
  <2> QED
    BY <1>0, <2>1, <2>2 DEF SoloInv, Pool
<1> QED
  BY <1>4, <1>5, <1>6, <1>7, <1>8, <1>9, <1>10, <1>11 DEF Next, WorkerStep, MainStep

(* A drain of one worker that resolves with 0 below its caps has shipped or skipped *)
(* all that no listed blocker holds back: the worker returned for want of an entry, *)
(* and it has settled every slug it took (the default mode of runDrain).            *)
THEOREM SoloDrains == Spec => []SequentialDrainsTheQueue
<1>1. Init => SoloInv
  <2> SUFFICES ASSUME Init PROVE SoloInv
    OBVIOUS
  <2>1. crew \subseteq Worker /\ crew # {}
    BY DEF Init
  <2>2. PICK w \in crew : w \in Worker
    BY <2>1
  <2>3. wpc[w] = "select"
    BY <2>1, <2>2 DEF Init
  <2> QED
    BY <2>2, <2>3, RunInvInit DEF Init, SoloInv
<1>2. SoloInv => SequentialDrainsTheQueue
  <2> SUFFICES ASSUME SoloInv, ~Pool, result = "0", ~CapReached, spawns < MaxSpawns,
                      NEW s \in local \ (skip \cup Shipped)
               PROVE  Unmet(s) # {}
    BY DEF SequentialDrainsTheQueue, DrainsTheQueue
  <2>1. Typed /\ OneOwnerPerSlug /\ MergingIsMarked
    BY DEF SoloInv, RunInv, DrainInv, OwnInv
  <2>2. Building = {} /\ Queued = {} /\ merging = NoSlug
    BY <2>1 DEF SoloInv, Building, Queued, Elements, MergingIsMarked
  <2>3. dispatched = {}
    BY <2>1, <2>2 DEF OneOwnerPerSlug
  <2>4. s \in Candidates
    BY <2>3 DEF Candidates
  <2>5. Selectable = {}
    <3>1. spawns \in Nat /\ MaxSpawns \in Nat
      BY <2>1, DrainAssumption DEF Typed, TypeOK
    <3> QED
      BY <3>1 DEF SoloInv, NothingLeft
  <2>6. ASSUME Unmet(s) = {} PROVE FALSE
    <3>1. s \in Open /\ ~Cyclic
      BY <2>4, <2>6 DEF Open, Cyclic
    <3> QED
      BY <2>4, <2>5, <3>1 DEF Selectable
  <2> QED
    BY <2>6
<1> QED
  BY <1>1, <1>2, SoloInvStep, PTL DEF Spec

-----------------------------------------------------------------------------
(* What a dispatch builds on. *)

(* Only a dispatch puts a slug in flight, or tells a child to deliver. *)
LEMMA OnlyDispatch ==
    ASSUME Typed, [Next]_vars,
           \/ \E s \in Slug : s \notin dispatched /\ s \in dispatched'
           \/ \E w \in Worker : delivers'[w] = "told" /\ delivers[w] = "no"
    PROVE  \E w \in Worker, s \in Slug : Dispatch(w, s)
<1> USE DEF vars, world, book, workers, coord
<1>1. \A s \in Slug : s \notin dispatched \/ s \in dispatched
  OBVIOUS
<1>2. delivers \in [Worker -> {"no", "told", "judged"}]
  BY DEF Typed, TypeOK
<1>3. ASSUME NEW w \in Worker, Frees(w), dispatched' \subseteq dispatched PROVE FALSE
  BY <1>2, <1>3 DEF Frees
<1>4. ASSUME NEW w \in Worker,
             (\E clean \in BOOLEAN : ChildExits(w, clean)) \/ ChildTimesOut(w) \/ WorkerAborts(w)
      PROVE  Frees(w) /\ dispatched' \subseteq dispatched
  BY <1>4 DEF ChildExits, ChildTimesOut, WorkerAborts, SettleAlone, SettleInPool
<1>5. ASSUME \/ \E w \in Worker : \/ WorkerReturns(w) \/ SelectionThrows(w)
                                   \/ \E s \in Slug : SkipCandidate(w, s)
             \/ CoordinatorStep \/ MainStep \/ Stop
             \/ (\E s \in Slug : HumanDecides(s) \/ LandsByHand(s)) \/ UNCHANGED vars
      PROVE  FALSE
  <2>1. UNCHANGED delivers /\ dispatched' \subseteq dispatched
    BY <1>5 DEF WorkerReturns, SelectionThrows, SkipCandidate, CoordinatorStep, CoordinatorTakes,
       CoordinatorWaits, CoordinatorReturns, MergeSettles, MergeAborts, MainStep, BuildersDone,
       Resolve, Stop, HumanDecides, LandsByHand
  <2> QED
    BY <2>1
<1> QED
  BY <1>3, <1>4, <1>5 DEF Next, WorkerStep

(* A rebuild of an entry whose PR was rejected starts from fresh main, when its    *)
(* source builds on the branch that `repair' deletes and the delete works: the     *)
(* rejected commits are never delivered again (salvageStaleBase).                  *)
THEOREM RejectedWorkIsRebuilt ==
    SalvageReaches /\ "repair" \notin MayFail => (Spec => RebuildsStartFresh)
<1> SUFFICES ASSUME SalvageReaches, "repair" \notin MayFail PROVE Spec => RebuildsStartFresh
  OBVIOUS
<1> DEFINE Step == \A s \in Slug : "closed" \in pr[s] /\ s \notin dispatched /\ s \in dispatched'
                                   => branch'[s] = "none"
<1>1. RunInv /\ [Next]_vars => [Step]_vars
  <2> SUFFICES ASSUME RunInv, [Next]_vars, NEW s \in Slug, "closed" \in pr[s],
                      s \notin dispatched, s \in dispatched'
               PROVE  branch'[s] = "none"
    OBVIOUS
  <2>0. Typed /\ branch \in [Slug -> {"none", "partial", "built"}]
    BY DEF RunInv, LandInv, Typed, TypeOK
  <2>1. PICK w \in Worker, x \in Slug : Dispatch(w, x)
    BY <2>0, OnlyDispatch
  <2>2. x = s
    BY <2>1 DEF Dispatch
  <2>3. ~Finishable(s)
    BY DEF Finishable
  <2>4. branch' \in Salvaged(s)
    <3>1. PICK finish \in {Finishable(s)} \cup (IF "probe" \in MayFail THEN {FALSE} ELSE {}) :
              branch' \in IF finish THEN {branch} ELSE Salvaged(s)
      BY <2>1, <2>2 DEF Dispatch
    <3>2. ~finish
      BY <2>3, <3>1
    <3> QED
      BY <3>1, <3>2
  <2> QED
    BY <2>0, <2>4 DEF Salvaged
<1> QED
  BY <1>1, RunInvInit, RunInvStep, PTL DEF Spec, RebuildsStartFresh

(* Finished work that was not delivered survives the next spawn of its entry, when *)
(* the probe answers: the branch to deliver is not salvaged (resolveFinishPrompt   *)
(* before salvageStaleBase).                                                       *)
THEOREM FinishedWorkIsKept == "probe" \notin MayFail => (Spec => FinishedWorkSurvives)
<1> SUFFICES ASSUME "probe" \notin MayFail PROVE Spec => FinishedWorkSurvives
  OBVIOUS
<1> DEFINE Step == \A s \in Slug :
             /\ HasFinishPrompt /\ s \in lastExitClean /\ branch[s] = "built"
             /\ pr[s] = {} /\ s \notin dispatched /\ s \in dispatched'
             => branch'[s] = "built"
<1>1. RunInv /\ [Next]_vars => [Step]_vars
  <2> SUFFICES ASSUME RunInv, [Next]_vars, NEW s \in Slug,
                      HasFinishPrompt, s \in lastExitClean, branch[s] = "built", pr[s] = {},
                      s \notin dispatched, s \in dispatched'
               PROVE  branch'[s] = "built"
    OBVIOUS
  <2>0. Typed
    BY DEF RunInv, LandInv
  <2>1. PICK w \in Worker, x \in Slug : Dispatch(w, x)
    BY <2>0, OnlyDispatch
  <2>2. x = s
    BY <2>1 DEF Dispatch
  <2>3. Finishable(s)
    BY DEF Finishable
  <2>4. PICK finish \in {Finishable(s)} : branch' \in IF finish THEN {branch} ELSE Salvaged(s)
    BY <2>1, <2>2 DEF Dispatch
  <2> QED
    BY <2>3, <2>4
<1> QED
  BY <1>1, RunInvInit, RunInvStep, PTL DEF Spec, FinishedWorkSurvives

(* No PR waits for its merge, and none merged but for work that landed by hand. *)
Unmerged(s) == "open" \notin pr[s] /\ ("merged" \in pr[s] => "byHand" \in pr[s])

(* A clean exit leaves no half-done branch; unless its entry is settled for good, or *)
(* still somebody's, it left nothing to merge either.                                *)
CleanExits ==
    \A s \in lastExitClean :
        /\ branch[s] # "partial"
        /\ s \in local \ (skip \cup dispatched) => Unmerged(s)

ExitInv == RunInv /\ (abortRef \/ CleanExits)

(* What a child does is done to its own branch and PR; a clean exit leaves no *)
(* half-done branch.                                                          *)
LEMMA ChildActsAlone ==
    ASSUME TypeOK, NEW s \in Slug, NEW clean \in BOOLEAN, ChildActs(s, clean)
    PROVE  /\ \A x \in Slug \ {s} : branch'[x] = branch[x] /\ pr'[x] = pr[x]
           /\ clean => branch'[s] # "partial"
<1>1. pr \in [Slug -> SUBSET {"open", "closed", "merged", "byHand"}]
      /\ branch \in [Slug -> {"none", "partial", "built"}]
  BY DEF TypeOK
<1>2. \/ branch' = branch /\ (clean => branch[s] \in {"none", "built"})
      \/ \E v \in {"built", "partial"} : branch' = [branch EXCEPT ![s] = v] /\ (clean => v = "built")
  BY DEF ChildActs, world
<1>3. \/ pr' = pr \/ pr' = [pr EXCEPT ![s] = @ \cup {"open"}]
      \/ pr' = [pr EXCEPT ![s] = (@ \ {"open"}) \cup {"merged"}]
  BY DEF ChildActs, world
<1>4. \A x \in Slug \ {s} : branch'[x] = branch[x]
  BY <1>1, <1>2
<1>5. \A x \in Slug \ {s} : pr'[x] = pr[x]
  BY <1>1, <1>3
<1>6. clean => branch'[s] # "partial"
  BY <1>1, <1>2
<1> QED
  BY <1>4, <1>5, <1>6

LEMMA ExitInvStep == ExitInv /\ [Next]_vars => ExitInv'
<1> SUFFICES ASSUME ExitInv, [Next]_vars PROVE ExitInv'
  OBVIOUS
<1>0. RunInv' /\ Typed /\ TypeOK /\ OneOwnerPerSlug /\ (abortRef => abortRef')
  BY RunInvStep, StepsBook DEF ExitInv, RunInv, DrainInv, OwnInv, Typed
<1>1. CASE abortRef \/ abortRef'
  BY <1>0, <1>1 DEF ExitInv
<1> SUFFICES ASSUME CleanExits, ~abortRef, ~abortRef' PROVE CleanExits'
  BY <1>0, <1>1 DEF ExitInv
<1> USE DEF world, book, workers, coord
<1>2. /\ pr \in [Slug -> SUBSET {"open", "closed", "merged", "byHand"}] /\ local \subseteq Slug
      /\ branch \in [Slug -> {"none", "partial", "built"}] /\ lastExitClean \subseteq Slug
  BY <1>0 DEF TypeOK
<1>3. local' \subseteq local
  BY <1>0, StepLands DEF ExitInv, RunInv, LandInv, Lands
<1>4. ASSUME NEW s \in Slug, \A x \in Slug \ {s} : branch'[x] = branch[x] /\ pr'[x] = pr[x],
             lastExitClean' \subseteq lastExitClean \cup {s}, skip \subseteq skip',
             dispatched \subseteq dispatched' \cup {s},
             s \in lastExitClean' => /\ branch'[s] # "partial"
                                    /\ \/ s \in skip' \cup dispatched' \/ s \notin local'
                                       \/ Unmerged(s)'
      PROVE  CleanExits'
  <2> SUFFICES ASSUME NEW x \in lastExitClean'
               PROVE  /\ branch'[x] # "partial"
                      /\ x \in local' \ (skip' \cup dispatched') => Unmerged(x)'
    BY DEF CleanExits
  <2>1. CASE x = s
    BY <1>4, <2>1
  <2>2. CASE x # s
    BY <1>2, <1>3, <1>4, <2>2 DEF CleanExits, Unmerged
  <2> QED
    BY <2>1, <2>2
<1>5. ASSUME UNCHANGED <<branch, pr, lastExitClean>>, skip \subseteq skip', dispatched \subseteq dispatched'
      PROVE  CleanExits'
  BY <1>3, <1>5 DEF CleanExits, Unmerged
<1>6. ASSUME NEW w \in Worker, NEW s \in Slug, Dispatch(w, s) PROVE CleanExits'
  <2>1. branch' \in {branch, [branch EXCEPT ![s] = "none"]}
    BY <1>6 DEF Dispatch, Salvaged
  <2>2. \A x \in Slug : branch'[x] \in {branch[x], "none"}
    BY <1>2, <2>1
  <2>3. UNCHANGED <<local, pr, skip, lastExitClean>> /\ dispatched \subseteq dispatched'
    BY <1>6 DEF Dispatch
  <2> QED
    BY <1>2, <2>2, <2>3 DEF CleanExits, Unmerged
<1>7. ASSUME NEW w \in Worker, NEW clean \in BOOLEAN, ChildExits(w, clean) PROVE CleanExits'
  <2> DEFINE s == job[w]
  <2>1. s \in Slug
    BY <1>0, <1>7 DEF ChildExits, Typed, BuildersHaveJobs, Building
  <2>2. /\ \A x \in Slug \ {s} : branch'[x] = branch[x] /\ pr'[x] = pr[x]
        /\ clean => branch'[s] # "partial"
    BY <1>0, <1>7, <2>1, ChildActsAlone DEF ChildExits
  <2>3. CASE SettleAlone(s, ExitRecord(s, clean))
    <3>1. lastExitClean' \subseteq lastExitClean \cup {s} /\ dispatched \subseteq dispatched' \cup {s}
          /\ (s \in lastExitClean' => clean)
      BY <2>3 DEF SettleAlone, ExitRecord
    <3>2. skip \subseteq skip'
      BY <2>3 DEF SettleAlone, Ship, RecordRetryOrSkip
    <3>3. s \in lastExitClean' => s \in skip' \/ pr'[s] \cap {"open", "merged"} = {}
      BY <2>3 DEF SettleAlone
    <3> HIDE DEF s
    <3> QED
      BY <1>4, <2>1, <2>2, <3>1, <3>2, <3>3 DEF Unmerged
  <2>4. CASE SettleInPool(s, clean, ExitRecord(s, clean))
    <3>1. lastExitClean' \subseteq lastExitClean \cup {s} /\ dispatched \subseteq dispatched' \cup {s}
          /\ (s \in lastExitClean' => clean)
      BY <2>4 DEF SettleInPool, ExitRecord
    <3>2. skip \subseteq skip'
      BY <2>4 DEF SettleInPool, Ship, RecordRetryOrSkip
    <3>3. s \in dispatched
      BY <1>0, <1>7 DEF ChildExits, OneOwnerPerSlug, Building
    <3>4. s \in lastExitClean' => s \in dispatched' \/ pr'[s] \cap {"open", "merged"} = {}
      BY <2>4, <3>1, <3>3 DEF SettleInPool, HandsOff
    <3> HIDE DEF s
    <3> QED
      BY <1>4, <2>1, <2>2, <3>1, <3>2, <3>4 DEF Unmerged
  <2> QED
    BY <1>7, <2>3, <2>4 DEF ChildExits
<1>8. ASSUME NEW w \in Worker, ChildTimesOut(w) PROVE CleanExits'
  <2> DEFINE s == job[w]
  <2>1. s \in Slug
    BY <1>0, <1>8 DEF ChildTimesOut, Typed, BuildersHaveJobs, Building
  <2>2. \A x \in Slug \ {s} : branch'[x] = branch[x] /\ pr'[x] = pr[x]
    BY <1>0, <1>8, <2>1, ChildActsAlone DEF ChildTimesOut
  <2>3. lastExitClean' \subseteq lastExitClean /\ s \notin lastExitClean'
        /\ dispatched \subseteq dispatched' \cup {s} /\ skip \subseteq skip'
    BY <1>8 DEF ChildTimesOut, ExitRecord, RecordRetryOrSkip
  <2> HIDE DEF s
  <2> QED
    BY <1>4, <2>1, <2>2, <2>3
<1>9. CASE MergeSettles
  <2>1. merging \in Slug
    BY <1>0, <1>9 DEF MergeSettles, Typed, MergesAnEntry
  <2>2. \A x \in Slug \ {merging} : branch'[x] = branch[x] /\ pr'[x] = pr[x]
    BY <1>2, <1>9 DEF MergeSettles
  <2>3. lastExitClean' \subseteq lastExitClean /\ branch' = branch
        /\ dispatched \subseteq dispatched' \cup {merging}
    BY <1>9 DEF MergeSettles
  <2>4. skip \subseteq skip' /\ (merging \in lastExitClean' => merging \in skip')
    BY <1>9 DEF MergeSettles, Ship, RecordRetryOrSkip
  <2>5. merging \in lastExitClean' => branch'[merging] # "partial"
    BY <2>3 DEF CleanExits
  <2> QED
    BY <1>4, <2>1, <2>2, <2>3, <2>4, <2>5
<1>10. ASSUME NEW s \in Slug, HumanDecides(s) PROVE CleanExits'
  <2>1. \A x \in Slug \ {s} : branch'[x] = branch[x] /\ pr'[x] = pr[x]
    BY <1>2, <1>10 DEF HumanDecides
  <2>2. UNCHANGED <<lastExitClean, branch, skip, dispatched, local>> /\ "open" \in pr[s]
    BY <1>10 DEF HumanDecides
  <2>3. s \in lastExitClean => branch[s] # "partial" /\ s \notin local \ (skip \cup dispatched)
    BY <2>2 DEF CleanExits, Unmerged
  <2> QED
    BY <1>4, <2>1, <2>2, <2>3
<1>13. ASSUME NEW s \in Slug, LandsByHand(s) PROVE CleanExits'
  <2>1. \A x \in Slug \ {s} : branch'[x] = branch[x] /\ pr'[x] = pr[x]
    BY <1>2, <1>13 DEF LandsByHand
  <2>2. UNCHANGED <<lastExitClean, branch, skip, dispatched, local>>
    BY <1>13 DEF LandsByHand
  <2>3. "byHand" \in pr'[s] /\ ("open" \in pr'[s] => "open" \in pr[s])
    BY <1>2, <1>13 DEF LandsByHand
  <2>4. s \in lastExitClean => branch[s] # "partial"
                              /\ (s \in local \ (skip \cup dispatched) => Unmerged(s))
    BY DEF CleanExits
  <2>5. Unmerged(s) => Unmerged(s)'
    BY <2>3 DEF Unmerged
  <2>7. lastExitClean' \subseteq lastExitClean \cup {s} /\ skip \subseteq skip'
        /\ dispatched \subseteq dispatched' \cup {s}
    BY <2>2
  <2>8. CASE s \in lastExitClean /\ s \in local \ (skip \cup dispatched)
    <3>1. Unmerged(s)'
      BY <2>4, <2>5, <2>8
    <3>2. branch'[s] # "partial"
      BY <2>2, <2>4, <2>8
    <3> HIDE DEF CleanExits
    <3> QED
      BY <1>4, <2>1, <2>7, <3>1, <3>2
  <2>9. CASE ~(s \in lastExitClean /\ s \in local \ (skip \cup dispatched))
    <3>1. s \in lastExitClean' => branch'[s] # "partial" /\ s \notin local' \ (skip' \cup dispatched')
      BY <2>2, <2>4, <2>9
    <3> HIDE DEF CleanExits
    <3> QED
      BY <1>4, <2>1, <2>7, <3>1
  <2> QED
    BY <2>8, <2>9
<1>11. ASSUME \/ \E w \in Worker : \/ WorkerReturns(w) \/ SelectionThrows(w)
                                    \/ \E s \in Slug : SkipCandidate(w, s)
              \/ CoordinatorTakes \/ CoordinatorWaits \/ CoordinatorReturns
              \/ MainStep \/ Stop \/ UNCHANGED vars
       PROVE  CleanExits'
  <2>1. UNCHANGED <<branch, pr, lastExitClean, dispatched>> /\ skip \subseteq skip'
    BY <1>11 DEF WorkerReturns, SelectionThrows, SkipCandidate, CoordinatorTakes,
       CoordinatorWaits, CoordinatorReturns, MainStep, BuildersDone, Resolve, Stop, vars
  <2> QED
    BY <1>5, <2>1
<1>12. ~MergeAborts /\ \A w \in Worker : ~WorkerAborts(w)
  BY DEF MergeAborts, WorkerAborts
<1> QED
  BY <1>6, <1>7, <1>8, <1>9, <1>10, <1>11, <1>12, <1>13 DEF Next, WorkerStep, CoordinatorStep

(* A child is told to deliver without a look at the work only over a finished build *)
(* that no human rejected, that waits for no merge, and that was not merged but by  *)
(* somebody who landed it by hand meanwhile, whatever the earlier children of the   *)
(* entry, the coordinator and the humans did (resolveFinishPrompt).                 *)
THEOREM DeliveriesAreDue == Spec => FinishesOnlyUndelivered
<1> DEFINE Step == \A w \in Worker : delivers'[w] = "told" /\ delivers[w] = "no" =>
             LET s == job'[w]
             IN  /\ branch[s] = "built" /\ pr[s] \cap {"closed", "open"} = {}
                 /\ "merged" \in pr[s] => "byHand" \in pr[s]
<1>1. Init => ExitInv
  BY RunInvInit DEF Init, ExitInv, CleanExits
<1>2. ExitInv /\ [Next]_vars => [Step]_vars
  <2> SUFFICES ASSUME ExitInv, [Next]_vars, NEW w \in Worker,
                      delivers'[w] = "told", delivers[w] = "no"
               PROVE  /\ branch[job'[w]] = "built" /\ pr[job'[w]] \cap {"closed", "open"} = {}
                      /\ "merged" \in pr[job'[w]] => "byHand" \in pr[job'[w]]
    OBVIOUS
  <2>0. Typed /\ delivers \in [Worker -> {"no", "told", "judged"}]
        /\ job \in [Worker -> Slug \cup {NoSlug}] /\ branch \in [Slug -> {"none", "partial", "built"}]
    BY DEF ExitInv, RunInv, LandInv, Typed, TypeOK
  <2>1. PICK v \in Worker, s \in Slug : Dispatch(v, s)
    BY <2>0, OnlyDispatch
  <2>2. PICK finish \in {Finishable(s)} \cup (IF "probe" \in MayFail THEN {FALSE} ELSE {}) :
            \E mode \in IF finish THEN {"told"} ELSE Judged(s, branch') :
                delivers' = [delivers EXCEPT ![v] = mode]
    BY <2>1 DEF Dispatch
  <2>3. PICK mode \in IF finish THEN {"told"} ELSE Judged(s, branch') :
            delivers' = [delivers EXCEPT ![v] = mode]
    BY <2>2
  <2>4. v = w /\ mode = "told"
    BY <2>0, <2>3
  <2>5. Finishable(s)
    BY <2>2, <2>3, <2>4 DEF Judged
  <2>6. job'[w] = s
    BY <2>0, <2>1, <2>4 DEF Dispatch
  <2>7. s \in local \ (skip \cup dispatched) /\ ~abortRef
    BY <2>1 DEF Dispatch, Selecting, Selectable, Open, Candidates
  <2>8. /\ branch[s] = "built" /\ pr[s] \cap {"closed", "open"} = {}
        /\ "merged" \in pr[s] => "byHand" \in pr[s]
    BY <2>0, <2>5, <2>7 DEF ExitInv, CleanExits, Unmerged, Finishable
  <2> QED
    BY <2>6, <2>8
<1> QED
  BY <1>1, <1>2, ExitInvStep, PTL DEF Spec, FinishesOnlyUndelivered

-----------------------------------------------------------------------------
(* The end. *)

(* A result means that workers and coordinator have returned. *)
EndInv ==
    /\ Typed
    /\ buildersDone => \A w \in Worker : wpc[w] = "returned"
    /\ result # "running" => buildersDone /\ cpc = "returned"

LEMMA EndInvStep ==
    ASSUME "select" \notin MayFail
    PROVE  EndInv /\ [Next]_vars => EndInv' /\ (result # "running" => UNCHANGED <<dispatched, merging>>)
<1> SUFFICES ASSUME EndInv, [Next]_vars
             PROVE  EndInv' /\ (result # "running" => UNCHANGED <<dispatched, merging>>)
  OBVIOUS
<1> USE DEF vars, world, book, workers, coord
<1>0. Typed' /\ TypeOK
  BY TypedStep DEF EndInv, Typed
<1>1. ASSUME NEW w \in Worker, WorkerStep(w)
      PROVE  wpc[w] # "returned" /\ UNCHANGED <<buildersDone, result>>
  BY <1>1 DEF WorkerStep, WorkerReturns, SelectionThrows, SkipCandidate, Dispatch, Selecting,
     ChildExits, ChildTimesOut, WorkerAborts
<1>2. ASSUME NEW w \in Worker, WorkerStep(w)
      PROVE  EndInv' /\ (result # "running" => UNCHANGED <<dispatched, merging>>)
  BY <1>0, <1>1, <1>2 DEF EndInv
<1>3. CASE CoordinatorStep
  <2>1. cpc # "returned" /\ UNCHANGED <<buildersDone, result, wpc>>
    BY <1>3 DEF CoordinatorStep, CoordinatorTakes, CoordinatorWaits, CoordinatorReturns,
       MergeSettles, MergeAborts
  <2> QED
    BY <1>0, <2>1 DEF EndInv
<1>4. CASE MainStep
  BY <1>0, <1>4 DEF MainStep, BuildersDone, Resolve, EndInv
<1>5. CASE Stop \/ (\E s \in Slug : HumanDecides(s) \/ LandsByHand(s)) \/ UNCHANGED vars
  BY <1>0, <1>5 DEF Stop, HumanDecides, LandsByHand, EndInv
<1> QED
  BY <1>2, <1>3, <1>4, <1>5 DEF Next

(* When no selection throws, nothing of a drain goes on once it has resolved: no   *)
(* child is spawned and no PR handed over or merged behind the caller's back (the  *)
(* await of the workers and the coordinator in runDrain).                          *)
THEOREM TheRunIsOver == "select" \notin MayFail => (Spec => NothingOutlivesTheRun)
<1> SUFFICES ASSUME "select" \notin MayFail PROVE Spec => NothingOutlivesTheRun
  OBVIOUS
<1>1. Init => EndInv
  BY TypeInit DEF Init, EndInv, Typed, BuildersHaveJobs, MergesAnEntry, Building
<1>2. EndInv /\ [Next]_vars =>
        EndInv' /\ [result # "running" => dispatched' = dispatched /\ merging' = merging]_vars
  BY EndInvStep
<1> QED
  BY <1>1, <1>2, PTL DEF Spec, NothingOutlivesTheRun

-----------------------------------------------------------------------------
(* Refinement: to the supervisor a drain is a queue. *)

(* A coordinator that has returned, and not because the run aborts, leaves nothing *)
(* to merge, and nobody is left who would hand it anything.                        *)
Rests ==
    /\ ~Pool => cpc = "returned" /\ readyToMerge = <<>>
    /\ Pool /\ cpc = "returned" /\ ~abortRef => buildersDone /\ readyToMerge = <<>>

(* The try of an entry that is under way is one its retries leave it, abort or not. *)
LastTries ==
    \A s \in dispatched : retries[s] <= MaxRetries /\ attempts[s] <= retries[s] + 1

QueueInv == CapInv /\ ShipInv /\ EndInv /\ Rests /\ LastTries
            /\ Cardinality(Shipped) = Len(shippedSlugs) /\ IsFiniteSet(Shipped)

LEMMA RestsStep ==
    ASSUME EndInv, Rests, abortRef => abortRef', [Next]_vars
    PROVE  Rests'
<1> USE DEF vars, world, book, workers, coord
<1>1. ASSUME NEW w \in Worker, WorkerStep(w) PROVE Rests'
  <2>1. wpc[w] # "returned" /\ UNCHANGED <<crew, buildersDone>>
    BY <1>1 DEF WorkerStep, WorkerReturns, SelectionThrows, SkipCandidate, Dispatch, Selecting,
       ChildExits, ChildTimesOut, WorkerAborts
  <2>2. ~buildersDone
    BY <2>1 DEF EndInv
  <2>3. cpc' = "returned" => cpc = "returned"
    BY <1>1 DEF WorkerStep, WorkerReturns, SelectionThrows, SkipCandidate, Dispatch,
       ChildExits, ChildTimesOut, WorkerAborts, SettleAlone, SettleInPool
  <2>4. ~Pool => UNCHANGED <<cpc, readyToMerge>>
    BY <1>1 DEF WorkerStep, WorkerReturns, SelectionThrows, SkipCandidate, Dispatch,
       ChildExits, ChildTimesOut, WorkerAborts, SettleAlone
  <2> QED
    BY <2>1, <2>2, <2>3, <2>4 DEF Rests, Pool
<1>2. CASE CoordinatorStep
  BY <1>2 DEF CoordinatorStep, CoordinatorTakes, CoordinatorWaits, CoordinatorReturns,
     MergeSettles, MergeAborts, Rests, Pool
<1>3. CASE MainStep
  BY <1>3 DEF MainStep, BuildersDone, Resolve, Rests, Pool
<1>4. CASE Stop \/ (\E s \in Slug : HumanDecides(s) \/ LandsByHand(s)) \/ UNCHANGED vars
  BY <1>4 DEF Stop, HumanDecides, LandsByHand, Rests, Pool
<1> QED
  BY <1>1, <1>2, <1>3, <1>4 DEF Next

LEMMA QueueInvStep ==
    ASSUME "select" \notin MayFail
    PROVE  QueueInv /\ [Next]_vars => QueueInv'
<1> SUFFICES ASSUME QueueInv, [Next]_vars PROVE QueueInv'
  OBVIOUS
<1>1. CapInv' /\ ShipInv' /\ EndInv'
  BY CapInvStep, ShipInvStep, EndInvStep DEF QueueInv
<1>2. RunInv /\ Typed /\ (Shipped \cup skip) \cap dispatched = {}
  BY DEF QueueInv, ShipInv, ShipsAreReal, EndInv
<1>3. abortRef => abortRef'
  BY <1>2, StepsBook
<1>4. Rests'
  BY <1>3, RestsStep DEF QueueInv
<1>5. /\ attempts \in [Slug -> Nat] /\ retries \in [Slug -> Nat]
      /\ dispatched \subseteq Slug
  BY <1>2 DEF Typed, TypeOK
<1>6. LastTries'
  <2>1. CASE NothingBooked \/ \E s \in Slug : PassesOver(s)
    BY <2>1 DEF NothingBooked, PassesOver, QueueInv, LastTries
  <2>2. ASSUME NEW s \in Slug, Starts(s) PROVE LastTries'
    <3>1. s \in local \ skip /\ s \notin dispatched /\ TriesAreBooked
      BY <2>2 DEF Starts, Candidates, QueueInv, CapInv
    <3>2. retries[s] <= MaxRetries /\ attempts[s] <= retries[s] + 0
      BY <3>1 DEF TriesAreBooked
    <3>3. attempts'[s] = attempts[s] + 1 /\ \A x \in Slug \ {s} : attempts'[x] = attempts[x]
      BY <1>5, <2>2 DEF Starts
    <3> QED
      BY <1>5, <2>2, <3>1, <3>2, <3>3 DEF Starts, QueueInv, LastTries
  <2>3. ASSUME NEW s \in Slug, Settles(s) PROVE LastTries'
    <3>1. \A x \in Slug \ {s} : retries'[x] = retries[x]
      BY <1>5, <2>3 DEF Settles, Ship, RecordRetryOrSkip
    <3> QED
      BY <1>5, <2>3, <3>1 DEF Settles, QueueInv, LastTries
  <2> QED
    BY <1>2, <2>1, <2>2, <2>3, StepsBook
<1>7. Cardinality(Shipped') = Len(shippedSlugs') /\ IsFiniteSet(Shipped')
  <2>1. CASE UNCHANGED shippedSlugs
    BY <2>1 DEF QueueInv, Shipped, Elements
  <2>2. ASSUME NEW s \in Slug, NEW also, Ship(s, also), s \in dispatched
        PROVE  Cardinality(Shipped') = Len(shippedSlugs') /\ IsFiniteSet(Shipped')
    <3>1. Shipped' = Shipped \cup {s} /\ Len(shippedSlugs') = Len(shippedSlugs) + 1 /\ s \notin Shipped
      BY <1>2, <2>2, OneMoreShipped
    <3>2. IsFiniteSet(Shipped \cup {s}) /\ Cardinality(Shipped \cup {s}) = Cardinality(Shipped) + 1
      BY <3>1, FS_AddElement DEF QueueInv
    <3> QED
      BY <3>1, <3>2 DEF QueueInv
  <2> QED
    BY <1>2, <2>1, <2>2, StepsBook
       DEF NothingBooked, PassesOver, Starts, Settles, RecordRetryOrSkip
<1> QED
  BY <1>1, <1>4, <1>6, <1>7 DEF QueueInv

(* What is neither booked nor resolved does not show; what is booked is booked while *)
(* the run is running.                                                               *)
LEMMA StepsResolve ==
    ASSUME QueueInv, [Next]_vars, "select" \notin MayFail
    PROVE  \/ Resolve
           \/ UNCHANGED result /\ (result # "running" => NothingBooked)
<1> USE DEF vars, world, book, workers, coord
<1>1. ASSUME NEW w \in Worker, WorkerStep(w) PROVE result = "running" /\ UNCHANGED result
  BY <1>1 DEF QueueInv, EndInv, WorkerStep, WorkerReturns, SelectionThrows, SkipCandidate,
     Dispatch, Selecting, ChildExits, ChildTimesOut, WorkerAborts
<1>2. CASE CoordinatorStep
  BY <1>2 DEF QueueInv, EndInv, CoordinatorStep, CoordinatorTakes, CoordinatorWaits,
     CoordinatorReturns, MergeSettles, MergeAborts
<1>3. CASE BuildersDone \/ Stop \/ (\E s \in Slug : HumanDecides(s) \/ LandsByHand(s)) \/ UNCHANGED vars
  BY <1>3 DEF BuildersDone, Stop, HumanDecides, LandsByHand, NothingBooked
<1> QED
  BY <1>1, <1>2, <1>3 DEF Next, MainStep

(* Whatever the crew, the children, the merges and the people at the pull requests do, *)
(* the supervisor sees a queue: entries are taken below every cap and settled one at a *)
(* time, and a run that resolves has settled all it took or says that it aborted       *)
(* (runDrain).                                                                         *)
THEOREM DrainRefinesQueue == "select" \notin MayFail => (Spec => ImplementsQueue)
<1> SUFFICES ASSUME "select" \notin MayFail PROVE Spec => ImplementsQueue
  OBVIOUS
<1> USE DrainAssumption
<1>1. Init => QueueInv
  <2> SUFFICES ASSUME Init PROVE QueueInv
    OBVIOUS
  <2>0. Shipped = {}
    BY DEF Init, Shipped, Elements
  <2>1. Len(shippedSlugs) = 0 /\ dispatched = {} /\ Cardinality(dispatched) = 0
        /\ Shipped = {} /\ Cardinality(Shipped) = 0 /\ IsFiniteSet(Shipped)
    BY <2>0, FS_EmptySet DEF Init
  <2>2. RunInv /\ Typed
    BY RunInvInit DEF RunInv, LandInv
  <2>3. CapInv
    BY <2>1, <2>2 DEF Init, CapInv, WithinCaps, TriesAreBooked
  <2>4. ShipInv
    BY <2>1, <2>2 DEF Init, ShipInv, ShipsAreReal
  <2> QED
    BY <2>1, <2>2, <2>3, <2>4 DEF Init, QueueInv, EndInv, Rests, LastTries
<1>2. Init => Queue!QueueInit
  BY DEF Init, Queue!QueueInit, Shipped, Elements
<1>3. QueueInv /\ [Next]_vars => [Queue!QueueNext]_(Queue!queueVars)
  <2> SUFFICES ASSUME QueueInv, [Next]_vars PROVE [Queue!QueueNext]_(Queue!queueVars)
    OBVIOUS
  <2> DEFINE Passed == skip \ Shipped
  <2>1. /\ Typed /\ RunInv /\ (Shipped \cup skip) \cap dispatched = {}
        /\ Shipped \cap local \subseteq skip /\ Shipped \subseteq Slug /\ dispatched \subseteq Slug
        /\ attempts \in [Slug -> Nat] /\ retries \in [Slug -> Nat] /\ local \subseteq Slug
    BY DEF QueueInv, ShipInv, ShipsAreReal, EndInv, Typed, TypeOK, Shipped, Elements
  <2>2. UNCHANGED shippedSlugs => Shipped' = Shipped
    BY DEF Shipped, Elements
  <2>3. CASE Resolve
    <3>1. UNCHANGED <<dispatched, shippedSlugs, skip, attempts, spawns, abortRef>>
      BY <2>3 DEF Resolve, book
    <3>2. result' \in IF abortRef THEN {"1"} ELSE {"0", "130"}
      BY <2>3 DEF Resolve
    <3>3. ASSUME ~abortRef PROVE dispatched = {}
      <4>1. buildersDone /\ cpc = "returned" /\ Building = {}
        BY <2>3 DEF Resolve, QueueInv, EndInv, Building
      <4>2. readyToMerge = <<>> /\ merging = NoSlug
        BY <3>3, <4>1 DEF QueueInv, Rests, CapInv, RunInv, DrainInv, OwnInv, MergingIsMarked
      <4> QED
        BY <2>1, <4>1, <4>2 DEF RunInv, DrainInv, OwnInv, OneOwnerPerSlug, Queued, Elements
    <3>4. Queue!End
      BY <2>2, <2>3, <3>1, <3>2, <3>3 DEF Resolve, Queue!End, Queue!Running, TypeOK, Typed
    <3> QED
      BY <3>4 DEF Queue!QueueNext
  <2>4. CASE NothingBooked /\ UNCHANGED result
    BY <2>2, <2>4 DEF NothingBooked, Queue!queueVars
  <2> SUFFICES ASSUME result = "running", UNCHANGED result,
                      NEW s \in Slug, PassesOver(s) \/ Starts(s) \/ Settles(s)
               PROVE  Queue!QueueNext
    BY <2>1, <2>3, <2>4, StepsBook, StepsResolve
  <2>5. CASE PassesOver(s)
    <3>1. s \notin Shipped /\ s \in Queue!Waiting
      BY <2>1, <2>5 DEF PassesOver, Candidates, Queue!Waiting
    <3>2. Queue!PassOver(s)
      BY <2>2, <2>5, <3>1 DEF PassesOver, Queue!PassOver, Queue!Running
    <3> QED
      BY <3>2 DEF Queue!QueueNext
  <2>6. CASE Starts(s)
    <3>1. s \notin Shipped /\ s \in Queue!Waiting /\ s \in local \ skip /\ s \notin dispatched
      BY <2>1, <2>6 DEF Starts, Candidates, Queue!Waiting
    <3>2. attempts[s] < MaxRetries + 1
      <4>1. retries[s] <= MaxRetries /\ attempts[s] <= retries[s] + 0
        BY <2>6, <3>1 DEF Starts, QueueInv, CapInv, TriesAreBooked
      <4> QED
        BY <2>1, <4>1
    <3>3. Cardinality(dispatched \cup Shipped) < MaxFeatures
      <4>1. IsFiniteSet(dispatched) /\ IsFiniteSet(Shipped)
        BY <2>1, FS_Subset
      <4>2. Cardinality(dispatched \cap Shipped) = 0
        <5>1. dispatched \cap Shipped = {}
          BY <2>1
        <5> QED
          BY <5>1, FS_EmptySet
      <4>3. Cardinality(dispatched \cup Shipped) =
              Cardinality(dispatched) + Cardinality(Shipped) - Cardinality(dispatched \cap Shipped)
        BY <4>1, FS_Union
      <4>4. Cardinality(dispatched) \in Nat /\ Len(shippedSlugs) \in Nat
        BY <2>1, InFlight
      <4>5. Cardinality(Shipped) = Len(shippedSlugs)
        BY DEF QueueInv
      <4>6. Len(shippedSlugs) + Cardinality(dispatched) < MaxFeatures
        BY <2>6, <4>4 DEF Starts, CapReached
      <4>7. Cardinality(dispatched \cup Shipped) = Cardinality(dispatched) + Len(shippedSlugs)
        BY <4>2, <4>3, <4>4, <4>5
      <4> QED
        BY <4>4, <4>6, <4>7
    <3>4. /\ ~abortRef /\ spawns < MaxSpawns /\ spawns' = spawns + 1
          /\ dispatched' = dispatched \cup {s} /\ attempts' = [attempts EXCEPT ![s] = @ + 1]
          /\ UNCHANGED <<skip, shippedSlugs, abortRef>>
      BY <2>6 DEF Starts
    <3>5. Shipped' = Shipped /\ (skip \ Shipped)' = skip \ Shipped
      BY <2>2, <3>4
    <3>6. Queue!Take(s)
      <4>1. Queue!Running /\ ~abortRef
        BY <3>4 DEF Queue!Running
      <4>2. s \in Queue!Waiting /\ attempts[s] < MaxRetries + 1 /\ spawns < MaxSpawns
        BY <3>1, <3>2, <3>4
      \* The instance has its own Cardinality, with the same definition.
      <4>3. Queue!Cardinality(dispatched \cup Shipped) < MaxFeatures
        BY <3>3 DEF Cardinality, Queue!Cardinality
      <4>4. dispatched' = dispatched \cup {s} /\ attempts' = [attempts EXCEPT ![s] = @ + 1]
            /\ spawns' = spawns + 1
        BY <3>4
      <4>5. UNCHANGED <<Shipped, skip \ Shipped, abortRef, result>>
        BY <3>4, <3>5
      <4> QED
        BY <4>1, <4>2, <4>3, <4>4, <4>5 DEF Queue!Take
    <3> QED
      BY <3>6 DEF Queue!QueueNext
  <2>7. CASE Settles(s)
    <3>1. Queue!Returned(s) /\ s \notin Shipped /\ s \notin skip
      BY <2>1, <2>7 DEF Settles, Queue!Returned, Queue!Running
    <3>2. ASSUME NEW also \in {{}, {s}}, Ship(s, also), UNCHANGED abortRef PROVE Queue!Ship(s)
      <4>1. Shipped' = Shipped \cup {s} /\ skip' = skip \cup also
        BY <2>1, <3>2, OneMoreShipped DEF Ship
      <4>2. (skip \ Shipped)' = skip \ Shipped
        BY <3>1, <4>1
      <4> QED
        BY <3>1, <3>2, <4>1, <4>2 DEF Queue!Ship
    <3>3. ASSUME skip' = skip \cup {s}, UNCHANGED <<abortRef, shippedSlugs>> PROVE Queue!GiveUp(s)
      BY <2>2, <3>1, <3>3 DEF Queue!GiveUp
    <3>4. ASSUME RecordRetryOrSkip(s), UNCHANGED abortRef PROVE Queue!GiveUp(s) \/ Queue!Retry(s)
      <4>1. CASE retries[s] + 1 > MaxRetries
        BY <3>3, <3>4, <4>1 DEF RecordRetryOrSkip
      <4>2. CASE ~(retries[s] + 1 > MaxRetries)
        <5>1. attempts[s] <= retries[s] + 1
          BY <2>7 DEF Settles, QueueInv, LastTries
        <5>2. attempts[s] < MaxRetries + 1
          BY <2>1, <4>2, <5>1
        <5>3. UNCHANGED <<skip, shippedSlugs>>
          BY <3>4, <4>2 DEF RecordRetryOrSkip
        <5> QED
          BY <2>2, <3>1, <3>4, <5>2, <5>3 DEF Queue!Retry
      <4> QED
        BY <4>1, <4>2
    <3>5. ASSUME abortRef' = TRUE, UNCHANGED <<skip, shippedSlugs>> PROVE Queue!Break(s)
      BY <2>2, <3>1, <3>5 DEF Queue!Break
    <3>6. Queue!Ship(s) \/ Queue!GiveUp(s) \/ Queue!Retry(s) \/ Queue!Break(s)
      BY <2>7, <3>2, <3>3, <3>4, <3>5 DEF Settles
    <3> QED
      BY <3>6 DEF Queue!QueueNext
  <2> QED
    BY <2>5, <2>6, <2>7
<1> QED
  BY <1>1, <1>2, <1>3, QueueInvStep, PTL DEF Spec, ImplementsQueue, Queue!QueueSpec
=============================================================================
