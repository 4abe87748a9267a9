----------------------------- MODULE ReleaseProofs -----------------------------
(***************************************************************************)
(* What TLAPS proves of the release ladder for any number of pushes,       *)
(* failures, discards, moved tags and gate sessions, with pages or without. *)
(***************************************************************************)
EXTENDS Release, SequenceTheorems, WellFoundedInduction, TLAPS

-----------------------------------------------------------------------------
(* Types.  A run that got past its checks has a version, which its token names. *)

Phase ==
    /\ pc = "session" => (mode = "fresh" <=> state = 0)
    /\ pc = "checks" => state = 0
    /\ pc = "verify" => mode = "resume"
    /\ pc \notin {"idle", "session", "checks"} => state # 0

Typed == TypeOK /\ Phase /\ local # <<>> /\ origin # <<>>

LEMMA First == FirstFiles \in Files /\ FirstCommit \in Commit /\ NoCommit \in Commit
<1>1. FirstFiles \in Files
  BY ReleaseAssumption DEF FirstFiles, Files
<1> QED
  BY <1>1 DEF FirstCommit, NoCommit, Commit

LEMMA FilesEdits ==
    ASSUME NEW f \in Files, NEW v \in {0} \cup Version
    PROVE  /\ [f EXCEPT !.features = v, !.twins = TRUE] \in Files
           /\ [f EXCEPT !.pkg = v] \in Files /\ [f EXCEPT !.pkg = v].pkg = v
           /\ [f EXCEPT !.log = v, !.entries = @ + 1] \in Files
           /\ [f EXCEPT !.log = v, !.entries = @ + 1].pkg = f.pkg
           /\ [f EXCEPT !.notes = v] \in Files /\ [f EXCEPT !.notes = v].pkg = f.pkg
<1>1. f.entries + 1 \in Nat
  BY DEF Files
<1>2. [f EXCEPT !.log = v, !.entries = @ + 1] \in Files
  BY <1>1 DEF Files
<1>3. [f EXCEPT !.log = v, !.entries = @ + 1].pkg = f.pkg
  BY DEF Files
<1>4. [f EXCEPT !.features = v, !.twins = TRUE] \in Files
  BY DEF Files
<1> QED
  BY <1>2, <1>3, <1>4 DEF Files

LEMMA Tips ==
    ASSUME Typed
    PROVE  /\ Len(local) \in Nat \ {0} /\ Len(origin) \in Nat \ {0}
           /\ Tip = local[Len(local)] /\ Tip \in Commit /\ Tip.files \in Files
           /\ Last(origin) = origin[Len(origin)] /\ Last(origin) \in Commit
           /\ Last(origin).files \in Files
<1>1. local \in Seq(Commit) /\ origin \in Seq(Commit) /\ local # <<>> /\ origin # <<>>
  BY DEF Typed, TypeOK
<1>2. Len(local) \in Nat \ {0} /\ Len(origin) \in Nat \ {0}
  BY <1>1
<1>3. local[Len(local)] \in Commit /\ origin[Len(origin)] \in Commit
  BY <1>1, <1>2
<1> QED
  BY <1>2, <1>3 DEF Tip, Last, Commit

LEMMA TypeInit == Init => Typed
<1> SUFFICES ASSUME Init PROVE Typed
  OBVIOUS
<1>1. /\ tree \in Files /\ local \in Seq(Commit) /\ origin \in Seq(Commit)
      /\ tags \in [Version -> Commit] /\ remoteTags \in [Version -> Commit]
      /\ local # <<>> /\ origin # <<>>
  BY First DEF Init
<1>2. /\ pushes \in 0..MaxPushes /\ failures \in 0..MaxFailures /\ gates \in 0..MaxGates
      /\ made \in Nat \ {0} /\ discards \in 0..MaxDiscards
  BY ReleaseAssumption DEF Init
<1> QED
  BY <1>1, <1>2 DEF Init, Typed, TypeOK, Phase

LEMMA PreviousIsVersion == PreviousVersion \in {0} \cup Version
<1>1. CASE LastTagged = {}
  BY <1>1 DEF PreviousVersion
<1>2. CASE LastTagged # {}
  <2>1. PICK i \in LastTagged : TRUE
    BY <1>2
  <2>2. \E v \in Version : \E k \in LastTagged : tags[v] = local[k]
    BY <2>1 DEF LastTagged, Tagged
  <2> QED
    BY <1>2, <2>2 DEF PreviousVersion
<1> QED
  BY <1>1, <1>2

LEMMA StartTypes ==
    ASSUME Typed, StartFresh \/ StartResume \/ EnterSession \/ Derive \/ Verify
    PROVE  Typed'
<1> USE DEF checkout, remote, past, bounds
<1>1. CASE StartFresh
  BY <1>1 DEF StartFresh, Preflight, Goto, Typed, TypeOK, Phase
<1>2. CASE StartResume
  BY <1>2 DEF StartResume, Goto, Typed, TypeOK, Phase
<1>3. CASE EnterSession
  BY <1>3 DEF EnterSession, Typed, TypeOK, Phase
<1>4. CASE Derive
  <2>1. CASE Ends /\ UNCHANGED state
    BY <1>4, <2>1 DEF Derive, Ends, Typed, TypeOK, Phase
  <2>2. CASE PreviousVersion + 1 \in Version /\ state' = PreviousVersion + 1
             /\ Goto("checks", "stamp") /\ UNCHANGED session
    <3>1. state' \in Version /\ state' # 0
      BY <2>2 DEF Version
    <3> QED
      BY <1>4, <2>2, <3>1 DEF Derive, Goto, Typed, TypeOK, Phase
  <2> QED
    BY <1>4, <2>1, <2>2 DEF Derive
<1>5. CASE Verify
  BY <1>5 DEF Verify, Goto, Ends, Typed, TypeOK, Phase
<1> QED
  BY <1>1, <1>2, <1>3, <1>4, <1>5

LEMMA FileTypes ==
    ASSUME Typed, Stamp \/ Bump \/ WriteChangelog \/ WriteNotes
    PROVE  Typed'
<1>1. tree \in Files /\ state \in {0} \cup Version
  BY DEF Typed, TypeOK
<1>2. tree' \in Files
  <2>1. CASE Stamp
    BY <1>1, <2>1, FilesEdits DEF Stamp, Writes
  <2>2. CASE Bump
    BY <1>1, <2>2, FilesEdits DEF Bump, Writes
  <2>3. CASE WriteChangelog
    BY <1>1, <2>3, FilesEdits DEF WriteChangelog, Writes
  <2>4. CASE WriteNotes
    BY <1>1, <2>4, FilesEdits DEF WriteNotes, Writes
  <2> QED
    BY <2>1, <2>2, <2>3, <2>4
<1>3. \E from, to \in {"stamp", "bump", "log", "notes", "commit"} : Goto(from, to)
  BY DEF Stamp, Bump, WriteChangelog, WriteNotes, Writes
<1>4. UNCHANGED <<mode, state, session, local, tags, remote, made, bounds>>
  BY DEF Stamp, Bump, WriteChangelog, WriteNotes, Writes
<1> QED
  BY <1>2, <1>3, <1>4 DEF Goto, Typed, TypeOK, Phase, remote, past, bounds

LEMMA RungTypes ==
    ASSUME Typed, CommitRung \/ TagRung \/ PushRung \/ ReleaseRung \/ PublishRung \/ ClearState
    PROVE  Typed'
<1> USE DEF checkout, remote, past, bounds
<1>1. ASSUME \/ Refused
             \/ \E from \in {"commit", "tag", "push", "release"} :
                    \E to \in {"tag", "push", "release", "publish"} : Skips(from, to)
      PROVE  Typed'
  <2>1. CASE Refused
    BY <2>1 DEF Refused, Ends, Typed, TypeOK, Phase
  <2>2. ASSUME NEW from \in {"commit", "tag", "push", "release"},
               NEW to \in {"tag", "push", "release", "publish"}, Skips(from, to)
        PROVE  Typed'
    BY <2>2 DEF Skips, Goto, Typed, TypeOK, Phase
  <2> QED
    BY <1>1, <2>1, <2>2
<1>2. CASE CommitRung
  <2>1. CASE Goto("commit", "tag") /\ made' = made + 1
             /\ local' = Append(local, [id |-> made + 1, v |-> state, files |-> tree])
             /\ UNCHANGED <<mode, state, session, tree, tags, remote, bounds>>
    <3> DEFINE c == [id |-> made + 1, v |-> state, files |-> tree]
    <3>1. c \in Commit /\ made' \in Nat \ {0}
      BY <2>1 DEF Typed, TypeOK, Commit
    <3> HIDE DEF c
    <3>2. local' \in Seq(Commit) /\ local' # <<>>
      BY <2>1, <3>1 DEF c, Typed, TypeOK
    <3> QED
      BY <2>1, <3>1, <3>2 DEF Goto, Typed, TypeOK, Phase
  <2> QED
    BY <1>1, <1>2, <2>1 DEF CommitRung
<1>3. CASE TagRung
  <2>1. CASE Goto("tag", "push") /\ tags' = [tags EXCEPT ![state] = Tip]
             /\ UNCHANGED <<mode, state, session, tree, local, remote, made, bounds>>
    <3>1. tags' \in [Version -> Commit]
      BY <2>1, Tips DEF Typed, TypeOK
    <3> QED
      BY <2>1, <3>1 DEF Goto, Typed, TypeOK, Phase
  <2> QED
    BY <1>1, <1>3, <2>1 DEF TagRung
<1>4. TagsPushed \in [Version -> Commit]
  BY DEF TagsPushed, Typed, TypeOK
<1>5. CASE PushRung
  <2>1. CASE Goto("push", "release") /\ origin' = local /\ remoteTags' = TagsPushed
             /\ UNCHANGED <<mode, state, session, checkout, releases, registry, made, bounds>>
    BY <1>4, <2>1 DEF Goto, Typed, TypeOK, Phase
  <2>2. CASE Ends /\ remoteTags' \in {remoteTags, TagsPushed}
             /\ UNCHANGED <<mode, state, checkout, origin, releases, registry, made, bounds>>
    BY <1>4, <2>2 DEF Ends, Typed, TypeOK, Phase
  <2> QED
    BY <1>1, <1>5, <2>1, <2>2 DEF PushRung
<1>6. CASE ReleaseRung
  <2>1. CASE Releases
    <3>1. state \in Version /\ tree.notes \in {0} \cup Version
      BY <2>1 DEF Releases, Goto, Typed, TypeOK, Phase, Files
    <3>2. releases' \subseteq [v : Version, notes : {0} \cup Version]
      BY <2>1, <3>1 DEF Releases, Typed, TypeOK
    <3>3. remoteTags' \in [Version -> Commit]
      BY <2>1, Tips DEF Releases, Typed, TypeOK
    <3> QED
      BY <2>1, <3>2, <3>3 DEF Releases, Goto, Typed, TypeOK, Phase
  <2> QED
    BY <1>1, <1>6, <2>1 DEF ReleaseRung
<1>7. CASE PublishRung
  BY <1>7 DEF PublishRung, Goto, Typed, TypeOK, Phase
<1>8. CASE ClearState
  BY <1>8 DEF ClearState, Ends, Typed, TypeOK, Phase
<1> QED
  BY <1>2, <1>3, <1>5, <1>6, <1>7, <1>8

LEMMA OthersTypes ==
    ASSUME Typed,
           \/ Throws \/ Killed \/ Discard \/ ResetMain \/ Refire \/ Pull \/ OthersPush
           \/ GateStarts \/ GateEnds \/ \E v \in Version : Published(v)
    PROVE  Typed'
<1> USE DEF checkout, remote, past, bounds
<1>0. /\ MaxFailures \in Nat /\ MaxDiscards \in Nat /\ MaxPushes \in Nat /\ MaxGates \in Nat
      /\ failures \in 0..MaxFailures /\ discards \in 0..MaxDiscards
      /\ pushes \in 0..MaxPushes /\ gates \in 0..MaxGates
  BY ReleaseAssumption DEF Typed, TypeOK
<1>1. CASE Throws \/ Killed
  <2>1. failures' \in 0..MaxFailures
    BY <1>0, <1>1 DEF Throws, Killed
  <2> QED
    BY <1>1, <2>1 DEF Throws, Killed, Typed, TypeOK, Phase
<1>2. CASE Discard
  <2>1. discarded' \subseteq Version /\ discards' \in 0..MaxDiscards
    BY <1>0, <1>2 DEF Discard, Typed, TypeOK
  <2> QED
    BY <1>2, <2>1, Tips DEF Discard, Typed, TypeOK, Phase
<1>3. CASE Pull \/ ResetMain
  BY <1>3, Tips DEF Pull, ResetMain, Typed, TypeOK, Phase
<1>7. CASE Refire
  <2>1. state \in Version
    BY <1>7 DEF Refire, Typed, TypeOK
  <2>2. tags' \in [Version -> Commit] /\ remoteTags' \in [Version -> Commit]
        /\ retagged' \subseteq Version
    BY <1>7, <2>1, Tips DEF Refire, Typed, TypeOK
  <2> QED
    BY <1>7, <2>2 DEF Refire, Typed, TypeOK, Phase
<1>4. CASE OthersPush
  <2> DEFINE c == [id |-> made + 1, v |-> 0, files |-> Last(origin).files]
  <2>1. c \in Commit /\ made' \in Nat \ {0} /\ origin' = Append(origin, c)
    <3>1. made \in Nat /\ Last(origin).files \in Files
      BY Tips DEF Typed, TypeOK
    <3> QED
      BY <1>4, <3>1 DEF OthersPush, Commit
  <2> HIDE DEF c
  <2>2. origin' \in Seq(Commit) /\ origin' # <<>>
    BY <2>1 DEF Typed, TypeOK
  <2>3. pushes' \in 0..MaxPushes
    BY <1>0, <1>4 DEF OthersPush
  <2> QED
    BY <1>4, <2>1, <2>2, <2>3 DEF OthersPush, Typed, TypeOK, Phase
<1>5. CASE GateStarts \/ GateEnds
  <2>1. gates' \in 0..MaxGates
    BY <1>0, <1>5 DEF GateStarts, GateEnds
  <2> QED
    BY <1>5, <2>1 DEF GateStarts, GateEnds, Typed, TypeOK, Phase
<1>6. CASE \E v \in Version : Published(v)
  BY <1>6 DEF Published, Typed, TypeOK, Phase
<1> QED
  BY <1>1, <1>2, <1>3, <1>4, <1>5, <1>6, <1>7

LEMMA TypeStep == Typed /\ [Next]_vars => Typed'
<1>1. ASSUME Typed, UNCHANGED vars PROVE Typed'
  BY <1>1 DEF vars, checkout, remote, past, bounds, Typed, TypeOK, Phase
<1> QED
  BY <1>1, StartTypes, FileTypes, RungTypes, OthersTypes DEF Next, Rungs

(* The run, its token and the repository keep their shapes (release-state.json, the *)
(* checkout, the remote).                                                           *)
THEOREM TypeCorrect == Spec => []TypeOK
<1>1. Typed => TypeOK
  BY DEF Typed
<1> QED
  BY <1>1, TypeInit, TypeStep, PTL DEF Spec

-----------------------------------------------------------------------------
(* The invariant.  A commit's package.json tells which version is in force there. *)

Has(v) == \E i \in 1..Len(local) : local[i].v = v
On(c, m) == \E i \in 1..Len(m) : m[i] = c

(* A main, given what was discarded and the tags: release commits carry their version; the  *)
(* version in force never falls; only a discarded version is committed twice; the version   *)
(* before the one in force has its tag there, since the next is derived from it.            *)
Line(m, gone, tag) ==
    /\ \A i \in 1..Len(m) : m[i].id # 0 /\ (m[i].v # 0 => m[i].files.pkg = m[i].v)
    /\ \A i, j \in 1..Len(m) : i < j => m[i].files.pkg =< m[j].files.pkg
    /\ \A i, j \in 1..Len(m) : i < j /\ m[i].v # 0 /\ m[i].v = m[j].v => m[i].v \in gone
    /\ \A i \in 1..Len(m) :
           m[i].files.pkg > 1 => \E v \in Version : m[i].files.pkg = v + 1 /\ On(tag[v], m)

(* Others only add to the remote's main what is no release. *)
Lines ==
    /\ Line(local, discarded, tags) /\ Line(origin, discarded, tags)
    /\ \A j \in 1..Len(origin) :
           /\ origin[j].v # 0 => j \in 1..Len(local) /\ local[j] = origin[j]
           /\ origin[j].files.pkg =< Tip.files.pkg

(* A tag is on a commit with its version in force.  That of a version which was never     *)
(* discarded is in this checkout, and is the remote's unless the token still names it; it  *)
(* is on the release commit unless it was moved; what is released on main has both tags.   *)
Tags ==
    /\ \A v \in Version : tags[v] # NoCommit => tags[v].files.pkg = v
    /\ \A v \in retagged : tags[v] # NoCommit
    /\ \A v \in Version \ discarded :
           /\ tags[v] # NoCommit => /\ On(tags[v], local) /\ (v # state => On(tags[v], origin))
                                    /\ tags[v].v = v \/ v \in retagged
           /\ remoteTags[v] \in {NoCommit, tags[v]}
    /\ \A i \in 1..Len(local) :
           local[i].v \notin {0, state} \cup discarded => tags[local[i].v] # NoCommit
    /\ \A j \in 1..Len(origin) :
           origin[j].v \notin {0} \cup discarded => remoteTags[origin[j].v] # NoCommit

(* The token's version follows a tagged one and is not below what is in force.  If it was  *)
(* never discarded it is new, or it is committed and nothing is left to commit.            *)
Token ==
    /\ state # 0 => Tip.files.pkg =< state
    /\ state > 1 => \E v \in Version : state = v + 1 /\ On(tags[v], local)
    /\ state \in retagged => state \in discarded
    /\ state \notin {0} \cup discarded /\ Has(state) =>
           /\ Clean /\ pc \notin {"stamp", "bump", "log", "notes"}
           /\ pc = "commit" => mode = "resume"

(* What a rung may rely on when its turn comes. *)
Rung ==
    /\ pc \in {"log", "notes", "commit"} => tree.pkg = state
    /\ pc = "tag" => Tip.v = state
    /\ pc \in {"push", "release", "publish", "clear"} => tags[state] # NoCommit
    /\ pc \in {"release", "publish", "clear"} /\ state \notin discarded =>
           remoteTags[state] # NoCommit /\ On(remoteTags[state], origin)
    /\ pc \in {"publish", "clear"} => Released(state)
    /\ pc = "clear" => state \in registry

Ladder == Lines /\ Tags /\ Token /\ Rung

-----------------------------------------------------------------------------
(* What follows from it in one state. *)

LEMMA PrefixPoints ==
    ASSUME NEW s \in Seq(Commit), NEW t \in Seq(Commit), IsPrefix(s, t)
    PROVE  Len(s) =< Len(t) /\ \A i \in 1..Len(s) : i \in 1..Len(t) /\ s[i] = t[i]
<1>1. Len(s) \in Nat /\ Len(t) \in Nat /\ Len(s) =< Len(t)
  BY DEF IsPrefix
<1>2. \A i \in 1..Len(s) : SubSeq(s, 1, Len(s))[i] = s[i] /\ SubSeq(t, 1, Len(s))[i] = t[i]
  BY <1>1
<1>3. \A i \in 1..Len(s) : i \in 1..Len(t)
  BY <1>1
<1> QED
  BY <1>1, <1>2, <1>3 DEF IsPrefix

LEMMA Points ==
    ASSUME Typed
    PROVE  /\ local \in Seq(Commit) /\ origin \in Seq(Commit)
           /\ \A i \in 1..Len(local) : /\ local[i] \in Commit /\ local[i].v \in {0} \cup Version
                                       /\ local[i].files.pkg \in {0} \cup Version
           /\ \A j \in 1..Len(origin) : /\ origin[j] \in Commit /\ origin[j].v \in {0} \cup Version
                                        /\ origin[j].files.pkg \in {0} \cup Version
           /\ Tip.files.pkg \in {0} \cup Version
           /\ tags \in [Version -> Commit] /\ remoteTags \in [Version -> Commit]
           /\ Version \subseteq Nat \ {0} /\ state \in {0} \cup Version
<1>1. local \in Seq(Commit) /\ origin \in Seq(Commit) /\ state \in {0} \cup Version
      /\ tags \in [Version -> Commit] /\ remoteTags \in [Version -> Commit]
  BY DEF Typed, TypeOK
<1>2. \A i \in 1..Len(local) : local[i] \in Commit
  BY <1>1
<1>3. \A j \in 1..Len(origin) : origin[j] \in Commit
  BY <1>1
<1>4. \A c \in Commit : c.v \in {0} \cup Version /\ c.files.pkg \in {0} \cup Version
  BY DEF Commit, Files
<1>5. Version \subseteq Nat \ {0}
  BY DEF Version
<1>6. Tip \in Commit
  BY Tips
<1> QED
  BY <1>1, <1>2, <1>3, <1>4, <1>5, <1>6

(* What is on a main is not the absent commit. *)
LEMMA OnMains ==
    ASSUME Ladder
    PROVE  ~On(NoCommit, local) /\ ~On(NoCommit, origin)
  BY DEF Ladder, Lines, Line, On, NoCommit

(* A tag of the remote is the local one; the tags of a push are the local ones. *)
LEMMA PushedTags ==
    ASSUME Typed, Ladder, NEW v \in Version \ discarded
    PROVE  /\ TagsPushed[v] = tags[v]
           /\ remoteTags[v] # NoCommit => remoteTags[v] = tags[v]
  BY DEF TagsPushed, Ladder, Tags, On

(* A release that has begun has its commit in this checkout. *)
LEMMA BegunIsHas ==
    ASSUME Typed, Ladder, NEW v \in Version \ (discarded \cup retagged), Begun(v)
    PROVE  Has(v)
<1>1. CASE \E i \in 1..Len(local) : local[i].v = v
  BY <1>1 DEF Has
<1>2. CASE remoteTags[v] # NoCommit
  <2>1. tags[v] # NoCommit
    BY <1>2, PushedTags
  <2>2. On(tags[v], local) /\ tags[v].v = v
    BY <2>1 DEF Ladder, Tags
  <2> QED
    BY <2>2 DEF On, Has
<1> QED
  BY <1>1, <1>2 DEF Begun

(* Of the tagged commits one is the nearest to HEAD. *)
LEMMA NearestTag ==
    ASSUME Typed, NEW k \in 1..Len(local), Tagged(k)
    PROVE  \E i \in 1..Len(local) :
               k =< i /\ Tagged(i) /\ \A j \in 1..Len(local) : i < j => ~Tagged(j)
<1> DEFINE n == Len(local)
           D == {d \in 0..n : n - d \in 1..n /\ Tagged(n - d)}
<1>1. n \in Nat
  BY Tips
<1>2. D \subseteq Nat /\ n - k \in D
  <2>1. n - k \in 0..n /\ n - (n - k) = k
    BY <1>1
  <2> QED
    BY <1>1, <2>1
<1>3. PICK x \in D : \A y \in D : ~(<<y, x>> \in OpToRel(<, Nat))
  <2> HIDE DEF D
  <2> QED
    BY <1>2, NatLessThanWellFounded, WFMin
<1>4. \A y \in D : ~(y < x)
  BY <1>2, <1>3 DEF OpToRel
<1>5. x \in 0..n /\ n - x \in 1..n /\ Tagged(n - x)
  BY <1>3
<1>6. k =< n - x
  <2>1. ~(n - k < x)
    BY <1>2, <1>4
  <2> HIDE DEF D, n
  <2> QED
    BY <1>1, <1>5, <2>1
<1>7. ASSUME NEW j \in 1..n, n - x < j, Tagged(j) PROVE FALSE
  <2>1. n - j \in 0..n /\ n - (n - j) = j /\ n - j < x
    BY <1>1, <1>5, <1>7
  <2>2. n - j \in D
    BY <1>7, <2>1
  <2> QED
    BY <1>4, <2>1, <2>2
<1> QED
  BY <1>5, <1>6, <1>7

(* The previous version is in force at the nearest tag, which is not before any tag. *)
LEMMA PreviousIsNearest ==
    ASSUME Typed, Ladder, NEW k \in 1..Len(local), Tagged(k)
    PROVE  /\ PreviousVersion \in Version /\ On(tags[PreviousVersion], local)
           /\ local[k].files.pkg =< PreviousVersion
<1>1. PICK i \in 1..Len(local) :
          k =< i /\ Tagged(i) /\ \A j \in 1..Len(local) : i < j => ~Tagged(j)
  BY NearestTag
<1>2. \A x \in LastTagged : x = i
  <2> SUFFICES ASSUME NEW x \in LastTagged, x # i PROVE FALSE
    OBVIOUS
  <2>1. x \in 1..Len(local) /\ Tagged(x) /\ \A j \in x + 1..Len(local) : ~Tagged(j)
    BY DEF LastTagged
  <2>2. ~(i < x)
    BY <1>1, <2>1
  <2>3. i \in x + 1..Len(local)
    BY <2>1, <2>2, Tips
  <2> QED
    BY <1>1, <2>1, <2>3
<1>3. i \in LastTagged
  <2>1. \A j \in i + 1..Len(local) : j \in 1..Len(local) /\ i < j
    BY Tips
  <2> QED
    BY <1>1, <2>1 DEF LastTagged
<1>4. \E v \in Version : \E x \in LastTagged : tags[v] = local[x]
  BY <1>1, <1>3 DEF Tagged
<1>5. PreviousVersion \in Version /\ tags[PreviousVersion] = local[i]
  BY <1>2, <1>3, <1>4 DEF PreviousVersion
<1>6. local[i].files.pkg = PreviousVersion
  <2>1. tags[PreviousVersion] # NoCommit
    BY <1>5, OnMains DEF On
  <2> QED
    BY <1>5, <2>1 DEF Ladder, Tags
<1>7. local[k].files.pkg =< local[i].files.pkg
  BY <1>1, Points DEF Ladder, Lines, Line
<1> QED
  BY <1>5, <1>6, <1>7 DEF On

(* A fresh run derives a version that is not below what is in force, and is new unless it *)
(* was discarded.                                                                          *)
LEMMA NewVersion ==
    ASSUME Typed, Ladder, state = 0
    PROVE  /\ \A i \in 1..Len(local) : local[i].files.pkg =< PreviousVersion + 1
           /\ PreviousVersion + 1 > 1 =>
                  PreviousVersion \in Version /\ On(tags[PreviousVersion], local)
           /\ PreviousVersion + 1 \in Version \ discarded =>
                  ~Has(PreviousVersion + 1) /\ PreviousVersion + 1 \notin retagged
<1>0. PreviousVersion \in {0} \cup Version /\ PreviousVersion \in Nat
  BY PreviousIsVersion, Points
<1>1. ASSUME NEW v \in Version, On(tags[v], local) PROVE v =< PreviousVersion
  <2>1. PICK k \in 1..Len(local) : local[k] = tags[v]
    BY <1>1 DEF On
  <2>2. tags[v] # NoCommit
    BY <1>1, OnMains
  <2>3. local[k].files.pkg = v /\ Tagged(k)
    BY <2>1, <2>2 DEF Ladder, Tags, Tagged
  <2> QED
    BY <2>3, PreviousIsNearest
<1>2. ASSUME NEW i \in 1..Len(local) PROVE local[i].files.pkg =< PreviousVersion + 1
  <2>1. CASE local[i].files.pkg > 1
    <3>1. PICK v \in Version : local[i].files.pkg = v + 1 /\ On(tags[v], local)
      BY <2>1 DEF Ladder, Lines, Line
    <3>2. v =< PreviousVersion /\ v \in Nat
      BY <1>1, <3>1, Points
    <3> QED
      BY <1>0, <3>1, <3>2
  <2>2. CASE ~(local[i].files.pkg > 1)
    <3>1. local[i].files.pkg \in Nat
      BY Points
    <3> QED
      BY <1>0, <2>2, <3>1
  <2> QED
    BY <2>1, <2>2
<1>3. ASSUME PreviousVersion + 1 > 1
      PROVE  PreviousVersion \in Version /\ On(tags[PreviousVersion], local)
  <2>1. LastTagged # {}
    BY <1>3 DEF PreviousVersion
  <2>2. PICK k \in 1..Len(local) : Tagged(k)
    BY <2>1 DEF LastTagged
  <2> QED
    BY <2>2, PreviousIsNearest
<1>4. ASSUME NEW u \in Version \ discarded, tags[u] # NoCommit PROVE u # PreviousVersion + 1
  <2>1. u =< PreviousVersion /\ u \in Nat
    BY <1>1, <1>4, Points DEF Ladder, Tags
  <2> QED
    BY <1>0, <2>1
<1>5. ASSUME NEW u \in Version \ discarded, Has(u) PROVE tags[u] # NoCommit
  BY <1>5, Points DEF Has, Ladder, Tags
<1>6. ASSUME NEW u \in Version, u \in retagged PROVE tags[u] # NoCommit
  BY <1>6 DEF Ladder, Tags
<1>7. PreviousVersion + 1 \in Version \ discarded =>
          ~Has(PreviousVersion + 1) /\ PreviousVersion + 1 \notin retagged
  BY <1>4, <1>5, <1>6
<1> QED
  BY <1>2, <1>3, <1>7

(* A main keeps its shape when more is discarded and no tag on it goes away, ... *)
LEMMA LineKept ==
    ASSUME NEW m, NEW gone, NEW gone1, NEW tag, NEW tag1, Line(m, gone, tag), gone \subseteq gone1,
           \A v \in Version : On(tag[v], m) => On(tag1[v], m)
    PROVE  Line(m, gone1, tag1)
BY DEF Line

(* ... and when a commit comes that may follow. *)
LEMMA LineAppend ==
    ASSUME NEW m \in Seq(Commit), m # <<>>, NEW c \in Commit, NEW gone, NEW tag,
           Line(m, gone, tag), c.id # 0, c.v # 0 => c.files.pkg = c.v,
           m[Len(m)].files.pkg =< c.files.pkg,
           c.v # 0 => \A i \in 1..Len(m) : m[i].v = c.v => c.v \in gone,
           c.files.pkg > 1 => \E v \in Version : c.files.pkg = v + 1 /\ On(tag[v], m)
    PROVE  Line(Append(m, c), gone, tag)
<1> DEFINE n == Len(m)
           a == Append(m, c)
<1>1. n \in Nat \ {0} /\ a \in Seq(Commit)
  BY AppendProperties
<1>2. Len(a) = n + 1 /\ a[n + 1] = c /\ \A i \in 1..n : a[i] = m[i]
  OBVIOUS
<1>3. \A i \in 1..n : m[i] \in Commit
  OBVIOUS
<1>4. \A x \in Commit : x.files.pkg \in Nat
  BY DEF Commit, Files, Version
<1>5. \A x : On(x, m) => On(x, a)
  BY <1>1, <1>2 DEF On
<1> HIDE DEF n, a
<1>6. \A i \in 1..n + 1 : i \in 1..n \/ i = n + 1
  BY <1>1
<1>7. \A i \in 1..n + 1 : a[i].id # 0 /\ (a[i].v # 0 => a[i].files.pkg = a[i].v)
  BY <1>2, <1>6 DEF Line, n
<1>8. ASSUME NEW i \in 1..n + 1, NEW j \in 1..n + 1, i < j PROVE a[i].files.pkg =< a[j].files.pkg
  <2>1. i \in 1..n
    BY <1>1, <1>8
  <2>2. CASE j \in 1..n
    BY <1>2, <1>8, <2>1, <2>2 DEF Line, n
  <2>3. CASE j = n + 1
    <3>1. m[i].files.pkg =< m[n].files.pkg
      <4>1. CASE i = n
        BY <1>3, <1>4, <2>1, <4>1
      <4>2. CASE i # n
        BY <1>1, <2>1, <4>2 DEF Line, n
      <4> QED
        BY <4>1, <4>2
    <3>2. m[i].files.pkg \in Nat /\ m[n].files.pkg \in Nat /\ c.files.pkg \in Nat
      BY <1>1, <1>3, <1>4, <2>1
    <3>3. m[i].files.pkg =< c.files.pkg
      BY <3>1, <3>2 DEF n
    <3> QED
      BY <1>2, <2>1, <2>3, <3>3
  <2> QED
    BY <1>6, <2>2, <2>3
<1>9. ASSUME NEW i \in 1..n + 1, NEW j \in 1..n + 1, i < j, a[i].v # 0, a[i].v = a[j].v
      PROVE  a[i].v \in gone
  <2>1. i \in 1..n
    BY <1>1, <1>9
  <2>2. CASE j \in 1..n
    BY <1>2, <1>9, <2>1, <2>2 DEF Line, n
  <2>3. CASE j = n + 1
    BY <1>2, <1>9, <2>1, <2>3 DEF n
  <2> QED
    BY <1>6, <2>2, <2>3
<1>10. ASSUME NEW i \in 1..n + 1, a[i].files.pkg > 1
       PROVE  \E v \in Version : a[i].files.pkg = v + 1 /\ On(tag[v], a)
  <2>1. CASE i \in 1..n
    <3>1. PICK v \in Version : m[i].files.pkg = v + 1 /\ On(tag[v], m)
      BY <1>2, <1>10, <2>1 DEF Line, n
    <3> QED
      BY <1>2, <1>5, <2>1, <3>1
  <2>2. CASE i = n + 1
    <3>1. PICK v \in Version : c.files.pkg = v + 1 /\ On(tag[v], m)
      BY <1>2, <1>10, <2>2
    <3> QED
      BY <1>2, <1>5, <2>2, <3>1
  <2> QED
    BY <1>6, <2>1, <2>2
<1> QED
  BY <1>2, <1>7, <1>8, <1>9, <1>10 DEF Line, a

-----------------------------------------------------------------------------
(* The invariant holds first, and is kept by the steps that touch no main and no tag. *)

LEMMA LadderInit == Init => Ladder
<1> SUFFICES ASSUME Init PROVE Ladder
  OBVIOUS
<1>1. Len(local) = 1 /\ Len(origin) = 1 /\ local[1] = FirstCommit /\ origin[1] = FirstCommit
      /\ FirstCommit.v = 0 /\ FirstCommit.id = 1 /\ FirstCommit.files.pkg = 0
      /\ Tip = FirstCommit
  BY DEF Init, FirstCommit, FirstFiles, Tip, Last
<1>2. Line(local, discarded, tags) /\ Line(origin, discarded, tags)
  BY <1>1 DEF Line
<1>3. Lines
  BY <1>1, <1>2 DEF Lines
<1>4. Tags
  BY <1>1 DEF Init, Tags
<1>5. Token /\ Rung
  BY DEF Init, Token, Rung
<1> QED
  BY <1>3, <1>4, <1>5 DEF Ladder

(* The token is only taken from a version whose tag is on the remote's main, or which is *)
(* discarded.                                                                              *)
LEMMA QuietStep ==
    ASSUME Typed, Ladder, UNCHANGED <<local, origin, tags, remoteTags, retagged>>,
           discarded \subseteq discarded',
           \/ state' = state \/ state = 0
           \/ state' = 0 /\ \/ state \in discarded'
                            \/ tags[state] # NoCommit /\ On(tags[state], origin)
    PROVE  Lines' /\ Tags'
<1>1. Tip' = Tip
  BY DEF Tip
<1>2. Line(local, discarded', tags) /\ Line(origin, discarded', tags)
  BY LineKept DEF Ladder, Lines
<1>3. Line(local, discarded, tags)' /\ Line(origin, discarded, tags)'
  BY <1>2 DEF Line, On
<1>4. Lines'
  BY <1>1, <1>3 DEF Ladder, Lines
<1>5. \A v \in Version \ discarded' : tags[v] # NoCommit => (v # state' => On(tags[v], origin))
  BY Points DEF Ladder, Tags
<1>6. \A i \in 1..Len(local) :
          local[i].v \notin {0, state'} \cup discarded' => tags[local[i].v] # NoCommit
  BY DEF Ladder, Tags
<1>7. Tags'
  BY <1>5, <1>6 DEF Ladder, Tags, On
<1> QED
  BY <1>4, <1>7

LEMMA StartLadder ==
    ASSUME Typed, Ladder, StartFresh \/ StartResume \/ EnterSession \/ Derive \/ Verify
    PROVE  Ladder'
<1> USE DEF checkout, remote, bounds, past
<1>0. UNCHANGED <<local, tree, origin, tags, remoteTags, discarded, retagged>>
  BY DEF StartFresh, StartResume, EnterSession, Derive, Verify
<1>1. CASE StartFresh
  <2>1. state' = 0 /\ state = 0 /\ pc' = "session"
    BY <1>1 DEF StartFresh, Preflight, Goto
  <2>2. Token' /\ Rung'
    BY <1>0, <2>1, Points DEF Ladder, Token, Rung, Typed, TypeOK
  <2> QED
    BY <1>0, <2>1, <2>2, QuietStep DEF Ladder
<1>2. CASE StartResume
  <2>1. state' = state /\ state # 0 /\ pc' = "session"
    BY <1>2 DEF StartResume, Goto
  <2>2. Token' /\ Rung'
    BY <1>0, <2>1 DEF Ladder, Token, Rung, Has, On, Clean, Tip
  <2> QED
    BY <1>0, <2>1, <2>2, QuietStep DEF Ladder
<1>3. CASE EnterSession
  <2>1. state' = state /\ pc = "session" /\ pc' \in {"idle", "checks", "verify"}
    BY <1>3 DEF EnterSession
  <2>2. Token' /\ Rung'
    BY <1>0, <2>1 DEF Ladder, Token, Rung, Has, On, Clean, Tip
  <2> QED
    BY <1>0, <2>1, <2>2, QuietStep DEF Ladder
<1>4. CASE Derive
  <2>1. state = 0
    BY <1>4 DEF Derive, Typed, Phase
  <2>2. CASE Ends /\ UNCHANGED state
    <3>1. Token' /\ Rung'
      BY <1>0, <2>1, <2>2 DEF Ladder, Token, Rung, Ends
    <3> QED
      BY <1>0, <2>1, <3>1, QuietStep DEF Ladder
  <2>3. CASE PreviousVersion + 1 \in Version /\ state' = PreviousVersion + 1 /\ Goto("checks", "stamp")
    <3>1. Tip.files.pkg =< state'
      BY <2>1, <2>3, NewVersion, Tips
    <3>2. state' > 1 => \E v \in Version : state' = v + 1 /\ On(tags[v], local)
      BY <2>1, <2>3, NewVersion
    <3>3. state' \notin discarded => ~Has(state') /\ state' \notin retagged
      BY <2>1, <2>3, NewVersion
    <3>4. Token' /\ Rung'
      BY <1>0, <2>3, <3>1, <3>2, <3>3 DEF Token, Rung, Has, On, Tip, Goto
    <3> QED
      BY <1>0, <2>1, <3>4, QuietStep DEF Ladder
  <2> QED
    BY <1>4, <2>2, <2>3 DEF Derive
<1>5. CASE Verify
  <2>1. state' = state /\ pc = "verify" /\ mode = "resume" /\ mode' = mode
        /\ (pc' = "idle" \/ (pc' = "commit" /\ tree.pkg = state))
    BY <1>5 DEF Verify, Goto, Ends, Typed, Phase
  <2>2. Token' /\ Rung'
    BY <1>0, <2>1 DEF Ladder, Token, Rung, Has, On, Clean, Tip
  <2> QED
    BY <1>0, <2>1, <2>2, QuietStep DEF Ladder
<1> QED
  BY <1>1, <1>2, <1>3, <1>4, <1>5

LEMMA FileLadder ==
    ASSUME Typed, Ladder, Stamp \/ Bump \/ WriteChangelog \/ WriteNotes
    PROVE  Ladder'
<1>1. UNCHANGED <<mode, state, local, origin, tags, remoteTags, discarded, retagged>>
  BY DEF Stamp, Bump, WriteChangelog, WriteNotes, Writes, remote, bounds, past
<1>2. pc \in {"stamp", "bump", "log", "notes"}
  BY DEF Stamp, Bump, WriteChangelog, WriteNotes, Writes, Goto
<1>3. state' = state /\ state # 0 /\ (Has(state) => state \in discarded)
  BY <1>1, <1>2 DEF Ladder, Token, Typed, Phase
<1>4. Token'
  BY <1>1, <1>3 DEF Ladder, Token, Has, On, Tip
<1>5. tree \in Files /\ state \in {0} \cup Version
  BY DEF Typed, TypeOK
<1>6. Rung'
  <2>1. CASE Stamp
    BY <2>1 DEF Stamp, Writes, Goto, Rung
  <2>2. CASE Bump
    BY <1>5, <2>2, FilesEdits DEF Bump, Writes, Goto, Rung
  <2>3. CASE WriteChangelog
    BY <1>5, <2>3, FilesEdits DEF WriteChangelog, Writes, Goto, Rung, Ladder
  <2>4. CASE WriteNotes
    BY <1>5, <2>4, FilesEdits DEF WriteNotes, Writes, Goto, Rung, Ladder
  <2> QED
    BY <2>1, <2>2, <2>3, <2>4
<1> QED
  BY <1>1, <1>4, <1>6, QuietStep DEF Ladder

LEMMA OthersLadder ==
    ASSUME Typed, Ladder,
           \/ Throws \/ Killed \/ Discard \/ GateStarts \/ GateEnds \/ ClearState \/ Refused
           \/ \E v \in Version : Published(v)
    PROVE  Ladder'
<1> USE DEF checkout, remote, bounds, past
<1>1. UNCHANGED <<local, origin, tags, remoteTags, retagged>> /\ discarded \subseteq discarded'
  BY DEF Throws, Killed, Discard, GateStarts, GateEnds, ClearState, Refused, Published
<1>2. ASSUME pc' = "idle", UNCHANGED <<state, tree, discarded>> PROVE Ladder'
  <2>1. Token' /\ Rung'
    BY <1>1, <1>2 DEF Ladder, Token, Rung, Has, On, Clean, Tip
  <2> QED
    BY <1>1, <1>2, <2>1, QuietStep DEF Ladder
<1>3. ASSUME pc' = "idle", state' = 0,
             \/ state \in discarded'
             \/ tags[state] # NoCommit /\ On(tags[state], origin)
      PROVE  Ladder'
  <2>1. 0 \notin retagged'
    BY <1>1, Points DEF Typed, TypeOK
  <2>2. Token' /\ Rung'
    BY <1>3, <2>1 DEF Token, Rung
  <2> QED
    BY <1>1, <1>3, <2>2, QuietStep DEF Ladder
<1>4. ASSUME UNCHANGED <<pc, mode, state, tree, releases, discarded>>, registry \subseteq registry'
      PROVE  Ladder'
  <2>1. Token' /\ Rung'
    BY <1>1, <1>4 DEF Ladder, Token, Rung, Has, On, Clean, Tip, Released
  <2> QED
    BY <1>1, <1>4, <2>1, QuietStep DEF Ladder
<1>5. CASE Throws \/ Killed \/ Refused
  BY <1>2, <1>5 DEF Throws, Killed, Refused, Ends
<1>6. CASE Discard
  BY <1>3, <1>6 DEF Discard
<1>8. CASE ClearState
  <2>1. pc = "clear" /\ pc' = "idle" /\ state' = 0 /\ discarded' = discarded /\ state \in Version
    BY <1>8, Points DEF ClearState, Ends, Typed, Phase
  <2>2. CASE state \in discarded
    BY <1>3, <2>1, <2>2
  <2>3. CASE state \notin discarded
    <3>1. tags[state] # NoCommit /\ remoteTags[state] # NoCommit /\ On(remoteTags[state], origin)
      BY <2>1, <2>3 DEF Ladder, Rung
    <3>2. remoteTags[state] = tags[state]
      BY <2>1, <2>3, <3>1, PushedTags
    <3> QED
      BY <1>3, <2>1, <3>1, <3>2
  <2> QED
    BY <2>2, <2>3
<1>7. CASE GateStarts \/ GateEnds \/ \E v \in Version : Published(v)
  BY <1>4, <1>7 DEF GateStarts, GateEnds, Published
<1> QED
  BY <1>5, <1>6, <1>7, <1>8

-----------------------------------------------------------------------------
(* The rungs that commit, tag, push and release, and those who move a main or a tag. *)

LEMMA SkipLadder ==
    ASSUME Typed, Ladder, NEW from, NEW to \in {"tag", "push", "release", "publish"},
           Skips(from, to), state # 0,
           to = "tag" => Tip.v = state,
           to # "tag" => tags[state] # NoCommit,
           to \in {"release", "publish"} /\ state \notin discarded =>
               remoteTags[state] # NoCommit /\ On(remoteTags[state], origin),
           to = "publish" => Released(state)
    PROVE  Ladder'
<1>1. UNCHANGED <<state, tree, local, origin, tags, remoteTags, releases, discarded, retagged>>
      /\ pc' = to
  BY DEF Skips, Goto, checkout, remote, bounds, past
<1>2. Token'
  BY <1>1 DEF Ladder, Token, Has, On, Clean, Tip
<1>3. Rung'
  BY <1>1 DEF Rung, Tip, On, Released
<1> QED
  BY <1>1, <1>2, <1>3, QuietStep DEF Ladder

LEMMA CommitLadder ==
    ASSUME Typed, Ladder, CommitRung
    PROVE  Ladder'
<1>0. pc = "commit" /\ state # 0 /\ state \in Version
  BY Points DEF CommitRung, Typed, Phase
<1>1. CASE mode = "resume" /\ Committed /\ Skips("commit", "tag")
  BY <1>0, <1>1, SkipLadder DEF Committed
<1>2. CASE Refused
  BY <1>2, OthersLadder
<1>3. CASE /\ ~(Clean \/ ~HooksAccept)
           /\ Goto("commit", "tag") /\ made' = made + 1
           /\ local' = Append(local, [id |-> made + 1, v |-> state, files |-> tree])
           /\ UNCHANGED <<mode, state, session, tree, tags, remote, bounds>>
  <2>1. Has(state) => state \in discarded
    BY <1>0, <1>3 DEF Ladder, Token
  <2> DEFINE c == [id |-> made + 1, v |-> state, files |-> tree]
             n == Len(local)
  <2>3. c.id # 0 /\ c.v = state /\ c.files = tree /\ c.files.pkg = state /\ c \in Commit
    BY <1>0 DEF Ladder, Rung, Typed, TypeOK, Commit
  <2>4. local' = Append(local, c) /\ local \in Seq(Commit) /\ n \in Nat \ {0} /\ local # <<>>
    BY <1>3, Points, Tips
  <2> HIDE DEF c
  <2>5. Len(local') = n + 1 /\ local'[n + 1] = c /\ \A i \in 1..n : local'[i] = local[i]
    BY <2>4
  <2>6. UNCHANGED <<state, tree, tags, origin, remoteTags, discarded, retagged>> /\ pc' = "tag"
    BY <1>3 DEF Goto, remote, bounds, past
  <2>7. Tip' = c /\ Tip = local[n]
    BY <2>4, <2>5, Tips DEF Tip, Last
  <2> HIDE DEF n
  <2>8. \A i \in 1..n + 1 : i \in 1..n \/ i = n + 1
    BY <2>4
  <2>9. Lines'
    <3>1. Line(Append(local, c), discarded, tags)
      <4>1. Line(local, discarded, tags) /\ Tip.files.pkg =< state
            /\ (state > 1 => \E v \in Version : state = v + 1 /\ On(tags[v], local))
        BY <1>0 DEF Ladder, Lines, Token
      <4>2. \A i \in 1..Len(local) : local[i].v = c.v => c.v \in discarded
        BY <2>1, <2>3 DEF Has
      <4> QED
        BY <2>3, <2>4, <2>7, <4>1, <4>2, LineAppend DEF n
    <3>2. Line(local, discarded, tags)' /\ Line(origin, discarded, tags)'
      BY <2>4, <2>6, <3>1 DEF Line, On, Ladder, Lines
    <3>3. \A j \in 1..Len(origin) : origin[j].v # 0 => j \in 1..n + 1 /\ local'[j] = origin[j]
      BY <2>4, <2>5 DEF Ladder, Lines, n
    <3>4. \A j \in 1..Len(origin) : origin[j].files.pkg =< c.files.pkg
      <4>1. \A j \in 1..Len(origin) : origin[j].files.pkg =< Tip.files.pkg
            /\ origin[j].files.pkg \in Nat
        BY Points DEF Ladder, Lines
      <4>2. Tip.files.pkg =< state /\ Tip.files.pkg \in Nat /\ state \in Nat
        BY <1>0, Points DEF Ladder, Token
      <4> QED
        BY <2>3, <4>1, <4>2
    <3> QED
      BY <2>5, <2>6, <2>7, <3>2, <3>3, <3>4 DEF Lines
  <2>10. \A x : On(x, local) => On(x, local')
    BY <2>4, <2>5 DEF On, n
  <2>11. Tags'
    <3>1. \A v \in Version \ discarded : tags[v] # NoCommit => On(tags[v], local')
      BY <2>10 DEF Ladder, Tags
    <3>2. \A i \in 1..n + 1 : local'[i].v \notin {0, state} \cup discarded => tags[local'[i].v] # NoCommit
      BY <2>3, <2>5, <2>8 DEF Ladder, Tags, n
    <3> QED
      BY <2>5, <2>6, <3>1, <3>2 DEF Ladder, Tags, On
  <2>12. Token' /\ Rung'
    <3>1. state > 1 => \E v \in Version : state = v + 1 /\ On(tags[v], local')
      BY <2>10 DEF Ladder, Token
    <3>2. c.files.pkg =< state /\ Clean'
      BY <1>0, <2>3, <2>6, <2>7, Points DEF Clean
    <3> QED
      BY <2>3, <2>6, <2>7, <3>1, <3>2 DEF Ladder, Token, Rung, On
  <2> QED
    BY <2>9, <2>11, <2>12 DEF Ladder
<1> QED
  BY <1>1, <1>2, <1>3 DEF CommitRung

LEMMA TagLadder ==
    ASSUME Typed, Ladder, TagRung
    PROVE  Ladder'
<1>0. pc = "tag" /\ state # 0 /\ state \in Version /\ Tip.v = state
  BY Points DEF TagRung, Typed, Phase, Ladder, Rung
<1>1. CASE tags[state] # NoCommit /\ Skips("tag", "push")
  BY <1>0, <1>1, SkipLadder
<1>2. CASE Refused
  BY <1>2, OthersLadder
<1>3. CASE /\ tags[state] = NoCommit /\ Goto("tag", "push")
           /\ tags' = [tags EXCEPT ![state] = Tip]
           /\ UNCHANGED <<mode, state, session, tree, local, remote, made, bounds>>
  <2>1. UNCHANGED <<state, tree, local, origin, remoteTags, discarded, retagged>> /\ pc' = "push"
    BY <1>3 DEF Goto, remote, bounds, past
  <2>2. tags'[state] = Tip /\ \A v \in Version \ {state} : tags'[v] = tags[v]
    BY <1>0, <1>3, Points
  <2>3. On(Tip, local) /\ Tip.files.pkg = state
    BY <1>0, Tips DEF On, Ladder, Lines, Line
  <2>4. Tip # NoCommit
    BY <2>3, OnMains
  <2>5. \A v \in Version : tags[v] # NoCommit => tags'[v] = tags[v]
    BY <1>3, <2>2
  <2>6. \A v \in Version : /\ On(tags[v], local) => tags'[v] = tags[v]
                           /\ On(tags[v], origin) => tags'[v] = tags[v]
    BY <2>5, OnMains
  <2>7. Lines'
    <3>1. Line(local, discarded, tags') /\ Line(origin, discarded, tags')
      BY <2>6, LineKept DEF Ladder, Lines
    <3>2. Line(local, discarded, tags)' /\ Line(origin, discarded, tags)'
      BY <2>1, <3>1 DEF Line, On
    <3> QED
      BY <2>1, <3>2 DEF Ladder, Lines, Tip
  <2>8. Tags'
    <3>1. \A v \in Version : tags'[v] # NoCommit => tags'[v].files.pkg = v
      BY <1>0, <2>2, <2>3 DEF Ladder, Tags
    <3>2. \A v \in retagged : tags'[v] # NoCommit
      <4>1. \A v \in retagged : v \in Version /\ tags[v] # NoCommit
        BY DEF Ladder, Tags, Typed, TypeOK
      <4> QED
        BY <2>5, <4>1
    <3>3. ASSUME NEW v \in Version \ discarded
          PROVE  /\ tags'[v] # NoCommit => /\ On(tags'[v], local) /\ (v # state => On(tags'[v], origin))
                                           /\ tags'[v].v = v \/ v \in retagged
                 /\ remoteTags[v] \in {NoCommit, tags'[v]}
      <4>1. CASE v = state
        <5>1. remoteTags[v] = NoCommit /\ tags'[v] = Tip
          BY <1>3, <2>2, <4>1 DEF Ladder, Tags
        <5> QED
          BY <1>0, <2>3, <4>1, <5>1
      <4>2. CASE v # state
        <5>1. tags'[v] = tags[v]
          BY <2>2, <4>2
        <5> QED
          BY <4>2, <5>1 DEF Ladder, Tags
      <4> QED
        BY <4>1, <4>2
    <3>4. \A i \in 1..Len(local) :
              local[i].v \notin {0, state} \cup discarded => tags'[local[i].v] # NoCommit
      BY <2>2, Points DEF Ladder, Tags
    <3> QED
      BY <2>1, <3>1, <3>2, <3>3, <3>4 DEF Ladder, Tags, On
  <2>9. Token'
    <3>1. state > 1 => \E v \in Version : state = v + 1 /\ On(tags'[v], local)
      BY <2>6 DEF Ladder, Token
    <3> QED
      BY <1>0, <2>1, <3>1 DEF Ladder, Token, Has, On, Clean, Tip
  <2>10. Rung'
    BY <2>1, <2>2, <2>4 DEF Rung
  <2> QED
    BY <2>7, <2>8, <2>9, <2>10 DEF Ladder
<1> QED
  BY <1>1, <1>2, <1>3 DEF TagRung

(* The tag of a version that was never discarded is on its commit of this checkout when  *)
(* the ladder comes to the push.                                                          *)
LEMMA AtPush ==
    ASSUME Typed, Ladder, pc = "push"
    PROVE  /\ state \in Version /\ tags[state] # NoCommit
           /\ state \notin discarded => On(tags[state], local) /\ tags[state].v = state
BY Points DEF Typed, Phase, Ladder, Rung, Tags, Token

LEMMA PushLadder ==
    ASSUME Typed, Ladder, PushRung
    PROVE  Ladder'
<1>0. pc = "push" /\ state # 0 /\ state \in Version /\ tags[state] # NoCommit
  BY AtPush DEF PushRung, Typed, Phase
<1>2. CASE local = origin /\ Skips("push", "release")
  <2>1. ASSUME state \notin discarded
        PROVE  remoteTags[state] # NoCommit /\ On(remoteTags[state], origin)
    <3>1. On(tags[state], origin) /\ tags[state].v = state
      BY <1>0, <1>2, <2>1, AtPush
    <3>2. remoteTags[state] # NoCommit
      BY <1>0, <2>1, <3>1 DEF On, Ladder, Tags
    <3> QED
      BY <1>0, <2>1, <3>1, <3>2, PushedTags
  <2> QED
    BY <1>0, <1>2, <2>1, SkipLadder
<1>3. CASE Goto("push", "release") /\ origin' = local /\ remoteTags' = TagsPushed
           /\ UNCHANGED <<mode, state, session, checkout, releases, registry, made, bounds>>
  <2>1. UNCHANGED <<state, tree, local, tags, discarded, retagged>> /\ pc' = "release"
    BY <1>3 DEF Goto, checkout, bounds, past
  <2>2. \A v \in Version \ discarded : remoteTags'[v] = tags[v]
    BY <1>3, PushedTags
  <2>3. Lines'
    <3>1. Line(local, discarded, tags)' /\ Line(origin, discarded, tags)'
      BY <1>3, <2>1 DEF Line, On, Ladder, Lines
    <3>2. \A j \in 1..Len(local) : local[j].files.pkg =< Tip.files.pkg
      <4> SUFFICES ASSUME NEW j \in 1..Len(local) PROVE local[j].files.pkg =< Tip.files.pkg
        OBVIOUS
      <4>1. CASE j = Len(local)
        <5>1. Tip.files.pkg \in Nat
          BY Points
        <5> QED
          BY <4>1, <5>1, Tips
      <4>2. CASE j # Len(local)
        BY <4>2, Tips DEF Ladder, Lines, Line
      <4> QED
        BY <4>1, <4>2
    <3> QED
      BY <1>3, <2>1, <3>1, <3>2 DEF Lines, Tip
  <2>4. Tags'
    <3>1. ASSUME NEW j \in 1..Len(local), local[j].v \notin {0} \cup discarded
          PROVE  remoteTags'[local[j].v] # NoCommit
      <4>1. local[j].v \in Version \ discarded /\ tags[local[j].v] # NoCommit
        BY <1>0, <3>1, Points DEF Ladder, Tags
      <4> QED
        BY <2>2, <4>1
    <3>2. \A v \in Version \ discarded : tags[v] # NoCommit => On(tags[v], origin)'
      BY <1>3, <2>1 DEF Ladder, Tags, On
    <3> QED
      BY <1>3, <2>1, <2>2, <3>1, <3>2 DEF Ladder, Tags, On
  <2>5. Token'
    BY <2>1 DEF Ladder, Token, Has, On, Clean, Tip
  <2>6. Rung'
    BY <1>0, <1>3, <2>1, <2>2, AtPush DEF Rung, On
  <2> QED
    BY <2>3, <2>4, <2>5, <2>6 DEF Ladder
<1>4. CASE Ends /\ remoteTags' \in {remoteTags, TagsPushed}
           /\ UNCHANGED <<mode, state, checkout, origin, releases, registry, made, bounds>>
  <2>1. UNCHANGED <<state, tree, local, origin, tags, discarded, retagged>> /\ pc' = "idle"
    BY <1>4 DEF Ends, checkout, bounds, past
  <2>2. \A v \in Version \ discarded : remoteTags'[v] \in {remoteTags[v], tags[v]}
    BY <1>4, PushedTags
  <2>3. Lines'
    BY <2>1 DEF Ladder, Lines, Line, On, Tip
  <2>4. Tags'
    <3>1. \A v \in Version \ discarded : remoteTags'[v] \in {NoCommit, tags[v]}
      BY <2>2 DEF Ladder, Tags
    <3>2. ASSUME NEW j \in 1..Len(origin), origin[j].v \notin {0} \cup discarded
          PROVE  remoteTags'[origin[j].v] # NoCommit
      <4>1. origin[j].v \in Version \ discarded /\ remoteTags[origin[j].v] # NoCommit
        BY <3>2, Points DEF Ladder, Tags
      <4> QED
        BY <2>2, <4>1, PushedTags
    <3> QED
      BY <2>1, <3>1, <3>2 DEF Ladder, Tags, On
  <2>5. Token' /\ Rung'
    BY <2>1 DEF Ladder, Token, Rung, Has, On, Clean, Tip
  <2> QED
    BY <2>3, <2>4, <2>5 DEF Ladder
<1> QED
  BY <1>2, <1>3, <1>4 DEF PushRung

LEMMA ReleaseLadder ==
    ASSUME Typed, Ladder, ReleaseRung \/ PublishRung
    PROVE  Ladder'
<1> USE DEF bounds, past
<1>1. CASE ReleaseRung
  <2>0. pc = "release" /\ state # 0 /\ state \in Version /\ tags[state] # NoCommit
    BY <1>1, Points DEF ReleaseRung, Typed, Phase, Ladder, Rung
  <2>1. CASE Released(state) /\ Skips("release", "publish")
    BY <2>0, <2>1, SkipLadder DEF Ladder, Rung
  <2>2. CASE Refused
    BY <2>2, OthersLadder
  <2>3. CASE Releases
    <3>1. UNCHANGED <<state, tree, local, origin, tags, discarded, retagged>> /\ pc' = "publish"
      BY <2>0, <2>3 DEF Releases, Goto, checkout
    <3>2. Released(state)'
      <4> DEFINE r == [v |-> state, notes |-> tree.notes]
      <4>1. r.v = state' /\ r \in releases'
        BY <2>3, <3>1 DEF Releases
      <4> HIDE DEF r
      <4> QED
        BY <4>1 DEF Released
    <3>3. \A v \in Version : remoteTags[v] # NoCommit => remoteTags'[v] = remoteTags[v]
      BY <2>3, Points DEF Releases
    <3>4. \A v \in Version \ discarded : remoteTags'[v] = remoteTags[v]
      <4>1. \A v \in Version \ {state} : remoteTags'[v] = remoteTags[v]
        BY <2>3, Points DEF Releases
      <4>2. state \notin discarded => remoteTags[state] # NoCommit
        BY <2>0 DEF Ladder, Rung
      <4> QED
        BY <3>3, <4>1, <4>2
    <3>5. Lines'
      BY <3>1 DEF Ladder, Lines, Line, On, Tip
    <3>6. Tags'
      <4>1. \A j \in 1..Len(origin) :
                origin[j].v \notin {0} \cup discarded => remoteTags'[origin[j].v] # NoCommit
        BY <3>4, Points DEF Ladder, Tags
      <4> QED
        BY <3>1, <3>4, <4>1 DEF Ladder, Tags, On
    <3>7. Token' /\ Rung'
      BY <2>0, <3>1, <3>2, <3>4 DEF Ladder, Token, Rung, Has, On, Clean, Tip
    <3> QED
      BY <3>5, <3>6, <3>7 DEF Ladder
  <2> QED
    BY <1>1, <2>1, <2>2, <2>3 DEF ReleaseRung
<1>2. CASE PublishRung
  <2>1. /\ UNCHANGED <<state, tree, local, origin, tags, remoteTags, releases, registry,
                       discarded, retagged>>
        /\ pc = "publish" /\ pc' = "clear" /\ state \in registry
    BY <1>2 DEF PublishRung, Goto, checkout, remote
  <2>2. Token' /\ Rung'
    BY <2>1 DEF Ladder, Token, Rung, Has, On, Clean, Tip, Released
  <2> QED
    BY <2>1, <2>2, QuietStep DEF Ladder
<1> QED
  BY <1>1, <1>2

(* The checkout becomes the remote's main: a fast-forward, or a reset without a token. *)
LEMMA PullLadder ==
    ASSUME Typed, Ladder, Pull \/ ResetMain
    PROVE  Ladder'
<1>1. /\ pc = "idle" /\ (IsPrefix(local, origin) \/ state = 0)
      /\ local' = origin /\ tree' = Last(origin).files
      /\ UNCHANGED <<pc, state, origin, tags, remoteTags, releases, registry, discarded, retagged>>
  BY DEF Pull, ResetMain, remote, bounds, past
<1>2. \A x : On(x, local) => On(x, origin) \/ state = 0
  BY <1>1, Points, PrefixPoints DEF On
<1>3. Tip' = Last(origin) /\ Last(origin) = origin[Len(origin)] /\ Len(origin) \in 1..Len(origin)
  BY <1>1, Tips DEF Tip
<1>4. \A j \in 1..Len(origin) : origin[j].files.pkg =< Last(origin).files.pkg
  <2> SUFFICES ASSUME NEW j \in 1..Len(origin)
               PROVE  origin[j].files.pkg =< Last(origin).files.pkg
    OBVIOUS
  <2>1. CASE j = Len(origin)
    <3>1. origin[j].files.pkg \in Nat
      BY Points
    <3> QED
      BY <1>3, <2>1, <3>1
  <2>2. CASE j # Len(origin)
    BY <1>3, <2>2, Tips DEF Ladder, Lines, Line
  <2> QED
    BY <2>1, <2>2
<1>5. Lines'
  <2>1. Line(local, discarded, tags)' /\ Line(origin, discarded, tags)'
    BY <1>1 DEF Line, On, Ladder, Lines
  <2> QED
    BY <1>1, <1>3, <1>4, <2>1 DEF Lines
<1>6. Tags'
  <2>1. \A v \in Version \ discarded : tags[v] # NoCommit => On(tags[v], origin)
    BY <1>2, Points DEF Ladder, Tags
  <2>2. \A j \in 1..Len(origin) :
            origin[j].v \notin {0, state} \cup discarded => tags[origin[j].v] # NoCommit
    BY PushedTags, Points DEF Ladder, Tags
  <2> QED
    BY <1>1, <2>1, <2>2 DEF Ladder, Tags, On
<1>7. Token'
  <2>1. Clean'
    BY <1>1, <1>3 DEF Clean
  <2>2. state # 0 => Last(origin).files.pkg =< state
    <3>1. Last(origin).files.pkg =< Tip.files.pkg /\ Last(origin).files.pkg \in Nat
      BY <1>3, Points DEF Ladder, Lines
    <3>2. state # 0 => Tip.files.pkg =< state
      BY DEF Ladder, Token
    <3>3. Tip.files.pkg \in Nat /\ state \in Nat
      BY Points
    <3> QED
      BY <3>1, <3>2, <3>3
  <2>3. state > 1 => \E v \in Version : state = v + 1 /\ On(tags[v], origin)
    BY <1>2, Points DEF Ladder, Token
  <2> QED
    BY <1>1, <1>3, <2>1, <2>2, <2>3 DEF Ladder, Token, On
<1>8. Rung'
  BY <1>1 DEF Rung
<1> QED
  BY <1>5, <1>6, <1>7, <1>8 DEF Ladder

LEMMA RefireLadder ==
    ASSUME Typed, Ladder, Refire
    PROVE  Ladder'
<1>1. /\ pc' = "idle" /\ state \in Version /\ local = origin /\ Tip.files.pkg = state
      /\ tags' = [tags EXCEPT ![state] = Tip] /\ remoteTags' = [remoteTags EXCEPT ![state] = Tip]
      /\ retagged' = retagged \cup {state} /\ state' = 0
      /\ UNCHANGED <<tree, local, origin, discarded>>
  BY Points DEF Refire, Clean
<1>2. On(Tip, local) /\ On(Tip, origin) /\ Tip # NoCommit
  BY <1>1, Tips, OnMains DEF On
<1>3. /\ tags'[state] = Tip /\ remoteTags'[state] = Tip
      /\ \A v \in Version \ {state} : tags'[v] = tags[v] /\ remoteTags'[v] = remoteTags[v]
  BY <1>1, Points
<1>4. \A v \in Version : /\ On(tags[v], local) => On(tags'[v], local)
                         /\ On(tags[v], origin) => On(tags'[v], origin)
                         /\ tags[v] # NoCommit => tags'[v] # NoCommit
                         /\ remoteTags[v] # NoCommit => remoteTags'[v] # NoCommit
  BY <1>2, <1>3
<1>5. Lines'
  <2>1. Line(local, discarded, tags') /\ Line(origin, discarded, tags')
    BY <1>4, LineKept DEF Ladder, Lines
  <2>2. Line(local, discarded, tags)' /\ Line(origin, discarded, tags)'
    BY <1>1, <2>1 DEF Line, On
  <2> QED
    BY <1>1, <2>2 DEF Ladder, Lines, Tip
<1>6. Tags'
  <2>1. \A v \in Version : tags'[v] # NoCommit => tags'[v].files.pkg = v
    BY <1>1, <1>3 DEF Ladder, Tags
  <2>2. \A v \in retagged' : tags'[v] # NoCommit
    BY <1>1, <1>2, <1>3, <1>4 DEF Ladder, Tags, Typed, TypeOK
  <2>3. ASSUME NEW v \in Version \ discarded
        PROVE  /\ tags'[v] # NoCommit => /\ On(tags'[v], local) /\ On(tags'[v], origin)
                                         /\ tags'[v].v = v \/ v \in retagged'
               /\ remoteTags'[v] \in {NoCommit, tags'[v]}
    <3>1. CASE v = state
      BY <1>1, <1>2, <1>3, <3>1
    <3>2. CASE v # state
      <4>1. tags'[v] = tags[v] /\ remoteTags'[v] = remoteTags[v]
        BY <1>3, <3>2
      <4> QED
        BY <1>1, <3>2, <4>1 DEF Ladder, Tags
    <3> QED
      BY <3>1, <3>2
  <2>4. ASSUME NEW i \in 1..Len(local), local[i].v \notin {0} \cup discarded
        PROVE  tags'[local[i].v] # NoCommit
    <3>1. CASE local[i].v = state
      BY <1>2, <1>3, <3>1
    <3>2. CASE local[i].v # state
      <4>1. local[i].v \in Version /\ tags[local[i].v] # NoCommit
        BY <2>4, <3>2, Points DEF Ladder, Tags
      <4> QED
        BY <1>4, <4>1
    <3> QED
      BY <3>1, <3>2
  <2>5. \A j \in 1..Len(origin) :
            origin[j].v \notin {0} \cup discarded => remoteTags'[origin[j].v] # NoCommit
    BY <1>4, Points DEF Ladder, Tags
  <2> QED
    BY <1>1, <2>1, <2>2, <2>3, <2>4, <2>5 DEF Tags, On
<1>7. Token' /\ Rung'
  <2>1. 0 \notin retagged'
    BY <1>1, Points DEF Typed, TypeOK
  <2> QED
    BY <1>1, <2>1 DEF Token, Rung
<1> QED
  BY <1>5, <1>6, <1>7 DEF Ladder

LEMMA OthersPushLadder ==
    ASSUME Typed, Ladder, OthersPush
    PROVE  Ladder'
<1> DEFINE c == [id |-> made + 1, v |-> 0, files |-> Last(origin).files]
           n == Len(origin)
<1>1. /\ c.id # 0 /\ c.v = 0 /\ c.files = Last(origin).files /\ c \in Commit
      /\ n \in Nat \ {0} /\ origin # <<>> /\ Last(origin) = origin[n]
  BY Tips DEF Typed, TypeOK, Commit
<1>2. origin' = Append(origin, c) /\ origin \in Seq(Commit)
      /\ UNCHANGED <<pc, mode, state, tree, local, tags, remoteTags, releases, registry,
                     discarded, retagged>>
  BY Points DEF OthersPush, checkout, past
<1> HIDE DEF c
<1>3. Len(origin') = n + 1 /\ origin'[n + 1] = c /\ \A j \in 1..n : origin'[j] = origin[j]
  BY <1>2
<1>4. \A j \in 1..n + 1 : j \in 1..n \/ j = n + 1
  BY <1>1
<1>5. n \in 1..n /\ origin[n].files.pkg \in Nat
  BY <1>1, Points
<1>6. Line(Append(origin, c), discarded, tags)
  <2>1. c.files.pkg = origin[n].files.pkg
    BY <1>1
  <2>2. Line(origin, discarded, tags)
    BY DEF Ladder, Lines
  <2>3. c.files.pkg > 1 => \E v \in Version : c.files.pkg = v + 1 /\ On(tags[v], origin)
    BY <1>5, <2>1, <2>2 DEF Line
  <2>4. origin[n].files.pkg =< c.files.pkg
    BY <1>5, <2>1
  <2> QED
    BY <1>1, <1>2, <2>2, <2>3, <2>4, LineAppend
<1> HIDE DEF n
<1>7. Lines'
  <2>1. Line(local, discarded, tags)' /\ Line(origin, discarded, tags)'
    BY <1>2, <1>6 DEF Line, On, Ladder, Lines
  <2>2. \A j \in 1..n + 1 : origin'[j].v # 0 => j \in 1..Len(local) /\ local[j] = origin'[j]
    BY <1>1, <1>3, <1>4 DEF Ladder, Lines, n
  <2>3. \A j \in 1..n + 1 : origin'[j].files.pkg =< Tip.files.pkg
    BY <1>1, <1>3, <1>4, <1>5 DEF Ladder, Lines, n
  <2> QED
    BY <1>2, <1>3, <2>1, <2>2, <2>3 DEF Lines, Tip
<1>8. \A x : On(x, origin) => On(x, origin')
  BY <1>1, <1>3 DEF On, n
<1>9. Tags'
  <2>1. \A v \in Version \ discarded : tags[v] # NoCommit /\ v # state => On(tags[v], origin')
    BY <1>8 DEF Ladder, Tags
  <2>2. \A j \in 1..n + 1 :
            origin'[j].v \notin {0} \cup discarded => remoteTags[origin'[j].v] # NoCommit
    BY <1>1, <1>3, <1>4 DEF Ladder, Tags, n
  <2> QED
    BY <1>2, <1>3, <2>1, <2>2 DEF Ladder, Tags, On
<1>10. Token' /\ Rung'
  <2>1. Token'
    BY <1>2 DEF Ladder, Token, Has, On, Clean, Tip
  <2>2. pc \in {"release", "publish", "clear"} /\ state \notin discarded =>
            remoteTags[state] # NoCommit /\ On(remoteTags[state], origin')
    BY <1>8 DEF Ladder, Rung
  <2> QED
    BY <1>2, <2>1, <2>2 DEF Ladder, Rung, Tip, On, Released
<1> QED
  BY <1>7, <1>9, <1>10 DEF Ladder

LEMMA LadderStep == Typed /\ Ladder /\ [Next]_vars => Ladder'
<1> SUFFICES ASSUME Typed, Ladder, [Next]_vars PROVE Ladder'
  OBVIOUS
<1>1. CASE UNCHANGED vars
  BY <1>1 DEF vars, checkout, remote, past, bounds, Ladder, Lines, Line, On, Tags, Token, Rung,
     Tip, Has, Clean, Released
<1>2. CASE StartFresh \/ StartResume \/ EnterSession \/ Derive \/ Verify
  BY <1>2, StartLadder
<1>3. CASE Stamp \/ Bump \/ WriteChangelog \/ WriteNotes
  BY <1>3, FileLadder
<1>4. CASE CommitRung \/ TagRung \/ PushRung \/ ReleaseRung \/ PublishRung
  BY <1>4, CommitLadder, TagLadder, PushLadder, ReleaseLadder
<1>5. CASE Pull \/ ResetMain \/ Refire \/ OthersPush
  BY <1>5, PullLadder, RefireLadder, OthersPushLadder
<1>6. CASE Throws \/ Killed \/ Discard \/ GateStarts \/ GateEnds \/ ClearState
           \/ \E v \in Version : Published(v)
  BY <1>6, OthersLadder
<1> QED
  BY <1>1, <1>2, <1>3, <1>4, <1>5, <1>6 DEF Next, Rungs

LEMMA LadderHolds == Spec => [](Typed /\ Ladder)
BY TypeInit, TypeStep, LadderInit, LadderStep, PTL DEF Spec

-----------------------------------------------------------------------------
(* Main never has a version after a later one, nor two release commits of one that was   *)
(* not discarded: a version in force is never taken back, and the next is derived from   *)
(* the nearest tag, at or after that of the version before it (deriveBump after a         *)
(* release-state check, resumeRelease rung 3).                                            *)
THEOREM ReleasesAreInOrder == Spec => []VersionsGrow
<1>1. Typed /\ Ladder => VersionsGrow
  <2> SUFFICES ASSUME Typed, Ladder, NEW i \in 1..Len(origin), NEW j \in 1..Len(origin),
                      i < j, origin[i].v # 0, origin[j].v # 0
               PROVE  \/ origin[i].v < origin[j].v
                      \/ origin[i].v = origin[j].v /\ origin[i].v \in discarded
    BY DEF VersionsGrow
  <2>1. Line(origin, discarded, tags)
    BY DEF Ladder, Lines
  <2>2. origin[i].v =< origin[j].v
    BY <2>1 DEF Line
  <2>3. origin[i].v = origin[j].v => origin[i].v \in discarded
    BY <2>1 DEF Line
  <2>4. origin[i].v \in Nat /\ origin[j].v \in Nat
    BY Points
  <2> QED
    BY <2>2, <2>3, <2>4
<1> QED
  BY <1>1, LadderHolds, PTL

-----------------------------------------------------------------------------
(* A commit of the remote's main stays, and a tag of the remote on its commit, unless the *)
(* operator moves it to the latest commit of main.                                        *)
LEMMA RemoteGrows ==
    ASSUME Typed, Ladder, [Next]_vars
    PROVE  /\ \A x : On(x, origin) => On(x, origin')
           /\ \A v \in Version \ discarded : remoteTags[v] # NoCommit =>
                  remoteTags'[v] = remoteTags[v]
                  \/ (remoteTags'[v] # NoCommit /\ On(remoteTags'[v], origin'))
           /\ \A v \in Version : Released(v)' => Released(v) \/ (pc = "release" /\ v = state)
<1> USE DEF remote
<1>1. ASSUME UNCHANGED origin PROVE \A x : On(x, origin) => On(x, origin')
  BY <1>1
<1>2. ASSUME UNCHANGED releases
      PROVE  \A v \in Version : Released(v)' => Released(v) \/ (pc = "release" /\ v = state)
  BY <1>2 DEF Released
<1>3. CASE PushRung
  <2>1. CASE UNCHANGED remote
    BY <1>1, <1>2, <2>1
  <2>2. CASE IsPrefix(origin, local) /\ origin' = local /\ remoteTags' = TagsPushed /\ UNCHANGED releases
    <3>1. \A x : On(x, origin) => On(x, origin')
      BY <2>2, Points, PrefixPoints DEF On
    <3> QED
      BY <1>2, <2>2, <3>1, PushedTags
  <2>3. CASE remoteTags' \in {remoteTags, TagsPushed} /\ UNCHANGED <<origin, releases>>
    BY <1>1, <1>2, <2>3, PushedTags
  <2> QED
    BY <1>3, <2>1, <2>2, <2>3 DEF PushRung, Skips
<1>4. CASE ReleaseRung
  <2>1. CASE UNCHANGED remote
    BY <1>1, <1>2, <2>1
  <2>2. CASE Releases
    <3>1. \A v \in Version : remoteTags[v] # NoCommit => remoteTags'[v] = remoteTags[v]
      BY <2>2, Points DEF Releases
    <3>2. pc = "release"
      BY <1>4 DEF ReleaseRung
    <3>3. \A v \in Version : Released(v)' => Released(v) \/ v = state
      BY <2>2 DEF Releases, Released
    <3> QED
      BY <1>1, <2>2, <3>1, <3>2, <3>3 DEF Releases
  <2> QED
    BY <1>4, <2>1, <2>2 DEF ReleaseRung, Skips, Refused
<1>5. CASE OthersPush
  <2> DEFINE c == [id |-> made + 1, v |-> 0, files |-> Last(origin).files]
  <2>1. origin' = Append(origin, c) /\ origin \in Seq(Commit) /\ UNCHANGED <<remoteTags, releases>>
    BY <1>5, Points DEF OthersPush
  <2> HIDE DEF c
  <2>2. \A x : On(x, origin) => On(x, origin')
    BY <2>1 DEF On
  <2> QED
    BY <1>2, <2>1, <2>2
<1>6. CASE Refire
  <2>1. /\ local = origin /\ Tip = Last(origin) /\ UNCHANGED <<origin, releases>>
        /\ remoteTags' = [remoteTags EXCEPT ![state] = Tip] /\ state \in Version
    BY <1>6, Points DEF Refire, Tip
  <2>2. On(Tip, origin) /\ Tip # NoCommit
    BY <2>1, Tips, OnMains DEF On
  <2>3. remoteTags'[state] = Tip /\ \A v \in Version \ {state} : remoteTags'[v] = remoteTags[v]
    BY <2>1, Points
  <2> QED
    BY <1>1, <1>2, <2>1, <2>2, <2>3
<1>7. CASE UNCHANGED <<origin, remoteTags, releases>>
  BY <1>1, <1>2, <1>7
<1>8. CASE \/ StartFresh \/ StartResume \/ EnterSession \/ Derive \/ Verify
           \/ Stamp \/ Bump \/ WriteChangelog \/ WriteNotes \/ CommitRung \/ TagRung
           \/ PublishRung \/ ClearState
  BY <1>7, <1>8 DEF StartFresh, StartResume, EnterSession, Derive, Verify, Stamp, Bump,
     WriteChangelog, WriteNotes, Writes, CommitRung, TagRung, PublishRung, ClearState, Skips, Refused
<1>9. CASE \/ Throws \/ Killed \/ Discard \/ ResetMain \/ Pull \/ GateStarts \/ GateEnds
           \/ UNCHANGED vars \/ \E v \in Version : Published(v)
  BY <1>7, <1>9 DEF Throws, Killed, Discard, ResetMain, Pull, GateStarts, GateEnds, Published, vars
<1> QED
  BY <1>3, <1>4, <1>5, <1>6, <1>8, <1>9 DEF Next, Rungs

(* What the next lemmas say of every step but a few. *)
LEMMA PastGrows ==
    ASSUME [Next]_vars
    PROVE  discarded \subseteq discarded' /\ retagged \subseteq retagged'
BY DEF Next, Rungs, StartFresh, StartResume, EnterSession, Derive, Verify, Stamp, Bump,
   WriteChangelog, WriteNotes, Writes, CommitRung, TagRung, PushRung, ReleaseRung, Releases,
   PublishRung, ClearState, Skips, Refused, Throws, Killed, Discard, ResetMain, Refire, Pull,
   OthersPush, GateStarts, GateEnds, Published, vars, bounds, past

(* A released version that was never discarded has its tag on the remote's main. *)
Shipped ==
    \A v \in Version \ discarded : Released(v) =>
        remoteTags[v] # NoCommit /\ On(remoteTags[v], origin)

LEMMA ShippedStep ==
    ASSUME Typed, Ladder, Shipped, [Next]_vars
    PROVE  Shipped'
<1>1. ASSUME NEW v \in Version \ discarded', Released(v)'
      PROVE  remoteTags'[v] # NoCommit /\ On(remoteTags'[v], origin')
  <2>1. v \in Version \ discarded
    BY PastGrows
  <2>2. remoteTags[v] # NoCommit /\ On(remoteTags[v], origin)
    BY <1>1, <2>1, RemoteGrows DEF Shipped, Ladder, Rung
  <2> QED
    BY <2>1, <2>2, RemoteGrows
<1> QED
  BY <1>1 DEF Shipped, On

(* What was never discarded and is released on GitHub has its tag on main, on a commit   *)
(* whose package.json says the version: the rung before the GitHub Release has pushed     *)
(* main with the tag, and the operator moves a tag to a commit of main only (rungs 3 to 6 *)
(* of resumeRelease).                                                                     *)
THEOREM ReleasesAreOnMain == Spec => []ReleasesComeFromMain
<1>1. Init => Shipped
  BY DEF Init, Shipped, Released
<1>2. Typed /\ Ladder /\ Shipped /\ [Next]_vars => Shipped'
  BY ShippedStep
<1>3. Typed /\ Ladder /\ Shipped => ReleasesComeFromMain
  <2> SUFFICES ASSUME Typed, Ladder, Shipped, NEW v \in Version \ discarded, Released(v)
               PROVE  OnMain(v) /\ (remoteTags[v].v = v \/ v \in retagged)
    BY DEF ReleasesComeFromMain
  <2>1. remoteTags[v] # NoCommit /\ On(remoteTags[v], origin)
    BY DEF Shipped
  <2>2. remoteTags[v] = tags[v]
    BY <2>1, PushedTags
  <2>3. tags[v].files.pkg = v /\ (tags[v].v = v \/ v \in retagged)
    BY <2>1, <2>2 DEF Ladder, Tags
  <2>4. remoteTags[v] \in Range(origin)
    BY <2>1, Points DEF On, Range
  <2> QED
    BY <2>2, <2>3, <2>4 DEF OnMain
<1> QED
  BY <1>1, <1>2, <1>3, LadderHolds, PTL DEF Spec

-----------------------------------------------------------------------------
(* A release that is committed here and not finished has its token, was discarded, or had *)
(* its tag moved.                                                                          *)
Covered ==
    \A v \in Version : Has(v) /\ ~Finished(v) => state = v \/ v \in discarded \cup retagged

(* The token is only taken away from a release that is finished or given up by hand. *)
LEMMA TokenStays ==
    ASSUME Typed, Ladder, [Next]_vars
    PROVE  state' = state \/ state = 0 \/ Finished(state) \/ state \in discarded' \cup retagged'
<1>1. CASE Derive
  BY <1>1 DEF Derive, Typed, Phase
<1>2. CASE ClearState
  BY <1>2 DEF ClearState, Ladder, Rung, Finished
<1>3. CASE Discard \/ Refire
  BY <1>3 DEF Discard, Refire
<1>4. CASE \/ StartFresh \/ StartResume \/ EnterSession \/ Verify
           \/ Stamp \/ Bump \/ WriteChangelog \/ WriteNotes \/ CommitRung \/ TagRung
           \/ PushRung \/ ReleaseRung \/ PublishRung
  BY <1>4 DEF StartFresh, StartResume, EnterSession, Verify, Stamp, Bump, WriteChangelog,
     WriteNotes, Writes, CommitRung, TagRung, PushRung, ReleaseRung, Releases, PublishRung,
     Skips, Refused
<1>5. CASE \/ Throws \/ Killed \/ ResetMain \/ Pull \/ OthersPush \/ GateStarts \/ GateEnds
           \/ UNCHANGED vars \/ \E v \in Version : Published(v)
  BY <1>5 DEF Throws, Killed, ResetMain, Pull, OthersPush, GateStarts, GateEnds, Published, vars
<1> QED
  BY <1>1, <1>2, <1>3, <1>4, <1>5 DEF Next, Rungs

LEMMA FinishedStays ==
    ASSUME [Next]_vars, NEW v \in Version, Finished(v)
    PROVE  Finished(v)'
<1>1. releases \subseteq releases'
  BY DEF Next, Rungs, StartFresh, StartResume, EnterSession, Derive, Verify, Stamp, Bump,
     WriteChangelog, WriteNotes, Writes, CommitRung, TagRung, PushRung, ReleaseRung, Releases,
     PublishRung, ClearState, Skips, Refused, Throws, Killed, Discard, ResetMain, Refire, Pull,
     OthersPush, GateStarts, GateEnds, Published, vars, remote
<1>2. registry \subseteq registry'
  BY DEF Next, Rungs, StartFresh, StartResume, EnterSession, Derive, Verify, Stamp, Bump,
     WriteChangelog, WriteNotes, Writes, CommitRung, TagRung, PushRung, ReleaseRung, Releases,
     PublishRung, ClearState, Skips, Refused, Throws, Killed, Discard, ResetMain, Refire, Pull,
     OthersPush, GateStarts, GateEnds, Published, vars, remote
<1> QED
  BY <1>1, <1>2 DEF Finished, Released

(* Only the commit rung adds a release to this checkout: that of its token. *)
LEMMA NewHasToken ==
    ASSUME Typed, Ladder, [Next]_vars, NEW v \in Version, Has(v)'
    PROVE  Has(v) \/ (state' = state /\ v = state)
<1> USE DEF checkout
<1>1. ASSUME UNCHANGED local PROVE Has(v)
  BY <1>1 DEF Has
<1>2. CASE CommitRung
  <2>1. CASE UNCHANGED local
    BY <1>1, <2>1
  <2>2. CASE local' = Append(local, [id |-> made + 1, v |-> state, files |-> tree]) /\ UNCHANGED state
    <3> DEFINE c == [id |-> made + 1, v |-> state, files |-> tree]
    <3>1. c.v = state /\ local' = Append(local, c) /\ local \in Seq(Commit)
      BY <2>2, Points
    <3> HIDE DEF c
    <3>2. PICK i \in 1..Len(local') : local'[i].v = v
      BY DEF Has
    <3>3. (i \in 1..Len(local) /\ local'[i] = local[i]) \/ local'[i] = c
      BY <3>1
    <3> QED
      BY <2>2, <3>1, <3>2, <3>3 DEF Has
  <2> QED
    BY <1>2, <2>1, <2>2 DEF CommitRung, Skips, Refused
<1>3. CASE Pull \/ ResetMain
  <2>1. PICK j \in 1..Len(origin) : origin[j].v = v
    BY <1>3 DEF Pull, ResetMain, Has
  <2>2. v # 0
    BY Points
  <2>3. j \in 1..Len(local) /\ local[j] = origin[j]
    BY <2>1, <2>2 DEF Ladder, Lines
  <2> QED
    BY <2>1, <2>3 DEF Has
<1>4. CASE \/ StartFresh \/ StartResume \/ EnterSession \/ Derive \/ Verify
           \/ Stamp \/ Bump \/ WriteChangelog \/ WriteNotes \/ TagRung
           \/ PushRung \/ ReleaseRung \/ PublishRung \/ ClearState
  BY <1>1, <1>4 DEF StartFresh, StartResume, EnterSession, Derive, Verify, Stamp, Bump,
     WriteChangelog, WriteNotes, Writes, TagRung, PushRung, ReleaseRung, Releases, PublishRung,
     ClearState, Skips, Refused
<1>5. CASE \/ Throws \/ Killed \/ Discard \/ Refire \/ OthersPush \/ GateStarts \/ GateEnds
           \/ UNCHANGED vars \/ \E w \in Version : Published(w)
  BY <1>1, <1>5 DEF Throws, Killed, Discard, Refire, OthersPush, GateStarts, GateEnds, Published, vars
<1> QED
  BY <1>2, <1>3, <1>4, <1>5 DEF Next, Rungs

(* A release that has begun and is not finished keeps its token, unless the operator     *)
(* discarded it or moved its tag: the token comes before any file and goes after the      *)
(* registry has the version (writeReleaseState first, clearReleaseState last).            *)
THEOREM TokensCover == Spec => []TokenCoversTheRelease
<1>1. Init => Covered
  <2> SUFFICES ASSUME Init, NEW v \in Version PROVE ~Has(v)
    BY DEF Covered
  <2>1. \A i \in 1..Len(local) : local[i].v = 0
    BY DEF Init, FirstCommit
  <2>2. v # 0
    BY DEF Version
  <2> QED
    BY <2>1, <2>2 DEF Has
<1>2. Typed /\ Ladder /\ Covered /\ [Next]_vars => Covered'
  <2> SUFFICES ASSUME Typed, Ladder, Covered, [Next]_vars,
                      NEW v \in Version, Has(v)', ~Finished(v)'
               PROVE  state' = v \/ v \in discarded' \cup retagged'
    BY DEF Covered
  <2>1. ~Finished(v) /\ v # 0
    BY FinishedStays, Points
  <2>2. CASE state' = state /\ v = state
    BY <2>2
  <2>3. CASE Has(v)
    <3>1. state = v \/ v \in discarded \cup retagged
      BY <2>1, <2>3 DEF Covered
    <3> QED
      BY <2>1, <3>1, TokenStays, PastGrows
  <2> QED
    BY <2>2, <2>3, NewHasToken
<1>3. Typed /\ Ladder /\ Covered => TokenCoversTheRelease
  BY BegunIsHas DEF Covered, TokenCoversTheRelease
<1> QED
  BY <1>1, <1>2, <1>3, LadderHolds, PTL DEF Spec
===============================================================================
