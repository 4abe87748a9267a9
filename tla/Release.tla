------------------------------- MODULE Release -------------------------------
(***************************************************************************)
(* `pnpm release': the run that derives a version, writes the release      *)
(* files, commits, tags, pushes, creates the GitHub Release and waits for  *)
(* the registry, and `pnpm release --resume', the ladder that finishes a   *)
(* run that died.  The two meet in .noldor/release-state.json, the token a *)
(* run leaves behind, in one checkout; meanwhile others push to main, a    *)
(* gate session may take the session marker, the workflow publish.yml      *)
(* answers to a pushed tag, and the operator resumes, discards, brings the *)
(* checkout back to origin/main, or moves a released version's tag.        *)
(*                                                                         *)
(* One action is one command of the run.  Versions are numbers, each       *)
(* release the next one; a file is the version of its latest entry.        *)
(***************************************************************************)
EXTENDS Naturals, FiniteSets, SequencesExt

CONSTANTS
    NewPages,      \* pages and template twins without `introduced' exist
    MaxPushes,     \* bound: commits that others push to main
    MaxFailures,   \* bound: runs that throw or are killed between two commands
    MaxDiscards,   \* bound: releases discarded
    MaxRepeats,    \* bound: release commits of one version in a checkout that releases
    MaxGates       \* bound: micro-chore sessions opened in this checkout

ASSUME ReleaseAssumption ==
    /\ NewPages \in BOOLEAN
    /\ {MaxPushes, MaxFailures, MaxDiscards, MaxRepeats, MaxGates} \subseteq Nat

\* Bound on the versions: each release but the first follows a push by others.
Version == 1..(1 + MaxPushes)

VARIABLES
    pc, mode,    \* the run under way: its next command, fresh or resume
    state,       \* the version in release-state.json, 0 without a file
    session,     \* whose session marker .noldor/session.json is
    tree,        \* the release-owned files of the working tree
    local,       \* main of this checkout: a sequence of commits
    origin,      \* main of the remote
    tags,        \* tags[v]: the commit the local tag of v is on, or NoCommit
    remoteTags,
    releases,    \* the GitHub Releases, with the version their notes are of
    registry,    \* the versions the registry serves
    made,        \* commits made: the next commit's identity
    discarded,   \* the versions whose release was discarded
    retagged,    \* the versions whose tag was moved to a later commit of main
    discards, failures, pushes, gates

remote == <<origin, remoteTags, releases, registry>>
checkout == <<tree, local, tags>>
past == <<discarded, retagged>>
bounds == <<past, discards, failures, pushes, gates>>
vars == <<pc, mode, state, session, checkout, remote, made, bounds>>

(* entries: of the changelog, which gets another one even for a version it has. *)
Files == [features : {0} \cup Version, pkg : {0} \cup Version, log : {0} \cup Version,
          notes : {0} \cup Version, twins : BOOLEAN, entries : Nat]

(* v: the version in the subject `chore(release): v...', 0 for other work. *)
Commit == [id : Nat, v : {0} \cup Version, files : Files]

TypeOK ==
    /\ pc \in {"idle", "session", "checks", "verify", "stamp", "bump", "log", "notes",
               "commit", "tag", "push", "release", "publish", "clear"}
    /\ mode \in {"fresh", "resume"}
    /\ state \in {0} \cup Version
    /\ session \in {"none", "release", "micro-chore"}
    /\ tree \in Files /\ local \in Seq(Commit) /\ origin \in Seq(Commit)
    /\ tags \in [Version -> Commit] /\ remoteTags \in [Version -> Commit]
    /\ releases \subseteq [v : Version, notes : {0} \cup Version] /\ registry \subseteq Version
    /\ made \in Nat \ {0}
    /\ failures \in 0..MaxFailures
    /\ discarded \subseteq Version /\ retagged \subseteq Version /\ discards \in 0..MaxDiscards
    /\ pushes \in 0..MaxPushes /\ gates \in 0..MaxGates

FirstFiles == [features |-> 0, pkg |-> 0, log |-> 0, notes |-> 0,
               twins |-> ~NewPages, entries |-> 0]
FirstCommit == [id |-> 1, v |-> 0, files |-> FirstFiles]
NoCommit == [id |-> 0, v |-> 0, files |-> FirstFiles]

Init ==
    /\ pc = "idle" /\ mode = "fresh" /\ state = 0 /\ session = "none"
    /\ tree = FirstFiles /\ local = <<FirstCommit>> /\ origin = <<FirstCommit>>
    /\ tags = [v \in Version |-> NoCommit] /\ remoteTags = [v \in Version |-> NoCommit]
    /\ releases = {} /\ registry = {}
    /\ made = 1 /\ discarded = {} /\ retagged = {}
    /\ discards = 0 /\ failures = 0 /\ pushes = 0 /\ gates = 0

Goto(from, to) == pc = from /\ pc' = to

(* The `finally' of withReleaseSession removes the marker, whosever it is. *)
Ends == pc' = "idle" /\ session' = "none"

Tip == Last(local)
Clean == tree = Tip.files

-----------------------------------------------------------------------------
(* Starting. *)

(* The rows of the aggregate that read what this module models, except that *)
(* HEAD is origin/main, which StartFresh asks for.                           *)
Preflight == pc = "idle" /\ Clean /\ session # "micro-chore" /\ state = 0

StartResume ==
    /\ state # 0
    /\ Goto("idle", "session") /\ mode' = "resume"
    /\ UNCHANGED <<state, session, checkout, remote, made, bounds>>

(* withReleaseSession refuses a foreign marker and overwrites its own. *)
EnterSession ==
    /\ pc = "session"
    /\ IF session = "micro-chore"
         THEN pc' = "idle" /\ UNCHANGED session
         ELSE /\ pc' = IF mode = "fresh" THEN "checks" ELSE "verify"
              /\ session' = "release"
    /\ UNCHANGED <<mode, state, checkout, remote, made, bounds>>

(* `git describe': the tag nearest to HEAD. *)
Tagged(i) == \E v \in Version : tags[v] = local[i]
LastTagged == {i \in 1..Len(local) : Tagged(i) /\ \A j \in i + 1..Len(local) : ~Tagged(j)}
PreviousVersion ==
    IF LastTagged = {} THEN 0
    ELSE CHOOSE v \in Version : \E i \in LastTagged : tags[v] = local[i]

Released(v) == \E r \in releases : r.v = v

NothingToRelease == Tagged(Len(local))

Repeats == {i \in 1..Len(local) : local[i].v = PreviousVersion + 1}

StartFresh ==
    /\ Preflight /\ local = origin /\ Cardinality(Repeats) < MaxRepeats
    /\ Goto("idle", "session") /\ mode' = "fresh"
    /\ UNCHANGED <<state, session, checkout, remote, made, bounds>>

(* The version is derived and the token is written before any file. *)
Derive ==
    /\ pc = "checks"
    /\ IF NothingToRelease
         THEN Ends /\ UNCHANGED state
         ELSE /\ PreviousVersion + 1 \in Version /\ state' = PreviousVersion + 1
              /\ Goto("checks", "stamp") /\ UNCHANGED session
    /\ UNCHANGED <<mode, checkout, remote, made, bounds>>

-----------------------------------------------------------------------------
(* The files. *)

Writes(from, to, files) ==
    /\ Goto(from, to) /\ tree' = files
    /\ UNCHANGED <<mode, state, session, local, tags, remote, made, bounds>>

(* FD changelogs, FD markers and `introduced' on new pages and their twins. *)
Stamp == Writes("stamp", "bump", [tree EXCEPT !.features = state, !.twins = TRUE])
Bump == Writes("bump", "log", [tree EXCEPT !.pkg = state])
WriteChangelog == Writes("log", "notes", [tree EXCEPT !.log = state, !.entries = @ + 1])
WriteNotes == Writes("notes", "commit", [tree EXCEPT !.notes = state])

(* Rungs 1 and 2 of the ladder. *)
Verify ==
    /\ pc = "verify"
    /\ IF tree.pkg = state
         THEN Goto("verify", "commit") /\ UNCHANGED session
         ELSE Ends
    /\ UNCHANGED <<mode, state, checkout, remote, made, bounds>>

-----------------------------------------------------------------------------
(* The rungs.  A resumed rung is skipped when its outcome is there. *)

Skips(from, to) ==
    /\ mode = "resume" /\ Goto(from, to)
    /\ UNCHANGED <<mode, state, session, checkout, remote, made, bounds>>

(* The command fails, and with it the run. *)
Refused == Ends /\ UNCHANGED <<mode, state, checkout, remote, made, bounds>>

(* The hooks: pre-commit asks for a release session, and validate-trailer   *)
(* does not know the template twins as files of a release.                  *)
HooksAccept == session = "release" /\ tree.twins = Tip.files.twins

Committed == Tip.v = state

(* Mutant: a resumed run commits again, whatever HEAD is. *)
CommitsAgain ==
    /\ pc = "commit"
    /\ IF mode = "fresh" /\ (Clean \/ ~HooksAccept) THEN Refused
       ELSE /\ Goto("commit", "tag")
            /\ made' = made + 1
            /\ local' = Append(local, [id |-> made + 1, v |-> state, files |-> tree])
            /\ UNCHANGED <<mode, state, session, tree, tags, remote, bounds>>

CommitRung ==
    /\ pc = "commit"
    /\ IF mode = "resume" /\ Committed THEN Skips("commit", "tag")
       ELSE IF Clean \/ ~HooksAccept THEN Refused
       ELSE /\ Goto("commit", "tag")
            /\ made' = made + 1
            /\ local' = Append(local, [id |-> made + 1, v |-> state, files |-> tree])
            /\ UNCHANGED <<mode, state, session, tree, tags, remote, bounds>>

(* Mutant: the ladder makes the tag without a look for it. *)
TagsBlindly ==
    /\ pc = "tag"
    /\ IF tags[state] # NoCommit THEN Refused
       ELSE /\ Goto("tag", "push")
            /\ tags' = [tags EXCEPT ![state] = Tip]
            /\ UNCHANGED <<mode, state, session, tree, local, remote, made, bounds>>

TagRung ==
    /\ pc = "tag"
    /\ IF tags[state] # NoCommit
         THEN IF mode = "resume" THEN Skips("tag", "push") ELSE Refused
         ELSE /\ Goto("tag", "push")
              /\ tags' = [tags EXCEPT ![state] = Tip]
              /\ UNCHANGED <<mode, state, session, tree, local, remote, made, bounds>>

(* --follow-tags: the tags on what is pushed that the remote lacks. *)
TagsPushed ==
    [v \in Version |->
        IF remoteTags[v] = NoCommit /\ \E i \in 1..Len(local) : local[i] = tags[v]
          THEN tags[v] ELSE remoteTags[v]]

(* Mutant: the rung takes the tag on the remote for the push. *)
PushesTagOnly ==
    /\ pc = "push" /\ Goto("push", "release")
    /\ remoteTags' = TagsPushed
    /\ origin' = IF IsPrefix(origin, local) THEN local ELSE origin
    /\ UNCHANGED <<mode, state, session, checkout, releases, registry, made, bounds>>

(* A push is judged ref by ref: main is refused unless it fast-forwards, and *)
(* the tags may arrive all the same.                                         *)
PushRung ==
    /\ pc = "push"
    /\ IF mode = "resume" /\ local = origin THEN Skips("push", "release")
       ELSE IF IsPrefix(origin, local)
         THEN /\ Goto("push", "release")
              /\ origin' = local /\ remoteTags' = TagsPushed
              /\ UNCHANGED <<mode, state, session, checkout, releases, registry, made, bounds>>
         ELSE /\ Ends
              /\ remoteTags' \in {remoteTags, TagsPushed}
              /\ UNCHANGED <<mode, state, checkout, origin, releases, registry, made, bounds>>

(* Mutant: the token is cleared with the GitHub Release, before the publish wait. *)
ClearsBeforePublish ==
    /\ pc = "release" /\ Ends
    /\ state' = 0
    /\ releases' = releases \cup {[v |-> state, notes |-> tree.notes]}
    /\ UNCHANGED <<mode, checkout, origin, remoteTags, registry, made, bounds>>

Releases ==
    /\ Goto("release", "publish")
    /\ releases' = releases \cup {[v |-> state, notes |-> tree.notes]}
    /\ remoteTags' = [remoteTags EXCEPT ![state] = IF @ = NoCommit THEN Last(origin) ELSE @]
    /\ UNCHANGED <<mode, state, session, checkout, origin, registry, made, bounds>>

(* `gh release create' makes a missing tag on the remote's latest commit, or *)
(* refuses a tag that exists in the checkout only.                           *)
ReleaseRung ==
    /\ pc = "release"
    /\ IF Released(state)
         THEN IF mode = "resume" THEN Skips("release", "publish") ELSE Refused
         ELSE Releases \/ (remoteTags[state] = NoCommit /\ Refused)

(* The run polls the registry; giving up is Throws. *)
PublishRung ==
    /\ state \in registry /\ Goto("publish", "clear")
    /\ UNCHANGED <<mode, state, session, checkout, remote, made, bounds>>

ClearState ==
    /\ pc = "clear" /\ Ends /\ state' = 0
    /\ UNCHANGED <<mode, checkout, remote, made, bounds>>

-----------------------------------------------------------------------------
(* Failures and the others. *)

(* Any command may fail; what is inside withReleaseSession then ends it. *)
Throws ==
    /\ pc # "idle" /\ failures < MaxFailures
    /\ failures' = failures + 1 /\ pc' = "idle"
    /\ session' = IF pc = "session" THEN session ELSE "none"
    /\ UNCHANGED <<mode, state, checkout, remote, made, past, discards, pushes, gates>>

Killed ==
    /\ pc # "idle" /\ failures < MaxFailures
    /\ failures' = failures + 1 /\ pc' = "idle"
    /\ UNCHANGED <<mode, state, session, checkout, remote, made, past, discards, pushes, gates>>

(* `git reset --hard && rm .noldor/release-state.json'. *)
Discard ==
    /\ pc = "idle" /\ state # 0
    /\ discards < MaxDiscards /\ discards' = discards + 1
    /\ discarded' = discarded \cup {state} /\ state' = 0 /\ tree' = Tip.files
    /\ UNCHANGED <<pc, mode, session, local, tags, remote, made, retagged, failures, pushes, gates>>

(* The row origin-sync leaves a main that is ahead or diverged to the operator;   *)
(* no hook lets main be pushed by hand, so main is reset.  The tags stay.         *)
ResetMain ==
    /\ pc = "idle" /\ state = 0 /\ Clean /\ ~IsPrefix(local, origin)
    /\ local' = origin /\ tree' = Last(origin).files
    /\ UNCHANGED <<pc, mode, state, session, tags, remote, made, bounds>>

(* `git tag -f v<x> HEAD && git push -f origin v<x>', when the publish failed and *)
(* its fix is on main; then the token is removed by hand.                         *)
Refire ==
    /\ pc = "idle" /\ state # 0 /\ Released(state) /\ state \notin registry
    /\ local = origin /\ Clean /\ tree.pkg = state /\ Tip.v # state
    /\ tags' = [tags EXCEPT ![state] = Tip] /\ remoteTags' = [remoteTags EXCEPT ![state] = Tip]
    /\ retagged' = retagged \cup {state} /\ state' = 0
    /\ UNCHANGED <<pc, mode, session, tree, local, origin, releases, registry, made,
                   discarded, discards, failures, pushes, gates>>

(* `git merge --ff-only origin/main', the remedy for a main that is behind. *)
Pull ==
    /\ pc = "idle" /\ Clean /\ local # origin /\ IsPrefix(local, origin)
    /\ local' = origin /\ tree' = Last(origin).files
    /\ UNCHANGED <<pc, mode, state, session, tags, remote, made, bounds>>

OthersPush ==
    /\ pushes < MaxPushes /\ pushes' = pushes + 1
    /\ made' = made + 1
    /\ origin' = Append(origin, [id |-> made + 1, v |-> 0, files |-> Last(origin).files])
    /\ UNCHANGED <<pc, mode, state, session, checkout, remoteTags, releases, registry,
                   past, discards, failures, gates>>

(* publish.yml answers to a tag, if the tagged package.json has its version. *)
Published(v) ==
    /\ remoteTags[v] # NoCommit /\ v \notin registry
    /\ remoteTags[v].files.pkg = v
    /\ registry' = registry \cup {v}
    /\ UNCHANGED <<pc, mode, state, session, checkout, origin, remoteTags, releases, made,
                   bounds>>

(* A gate session writes the marker without a look at the one it replaces. *)
GateStarts ==
    /\ session # "micro-chore" /\ gates < MaxGates
    /\ gates' = gates + 1 /\ session' = "micro-chore"
    /\ UNCHANGED <<pc, mode, state, checkout, remote, made, past, discards, failures, pushes>>

GateEnds ==
    /\ session = "micro-chore" /\ session' = "none"
    /\ UNCHANGED <<pc, mode, state, checkout, remote, made, bounds>>

-----------------------------------------------------------------------------
Rungs ==
    \/ EnterSession \/ Derive \/ Verify
    \/ Stamp \/ Bump \/ WriteChangelog \/ WriteNotes
    \/ CommitRung \/ TagRung \/ PushRung \/ ReleaseRung \/ PublishRung \/ ClearState

Next ==
    \/ StartFresh \/ StartResume \/ Rungs \/ Throws \/ Killed
    \/ Discard \/ ResetMain \/ Refire \/ Pull \/ OthersPush
    \/ \E v \in Version : Published(v)
    \/ GateStarts \/ GateEnds

(* A run goes on; the operator resumes what died; the workflow publishes; a  *)
(* micro-chore ends.                                                         *)
Fairness ==
    /\ WF_vars(Rungs) /\ WF_vars(StartResume) /\ WF_vars(GateEnds)
    /\ \A v \in Version : WF_vars(Published(v))

Spec == Init /\ [][Next]_vars /\ Fairness

-----------------------------------------------------------------------------
Begun(v) == remoteTags[v] # NoCommit \/ \E i \in 1..Len(local) : local[i].v = v
Finished(v) == Released(v) /\ v \in registry

(* A release of which a commit or a pushed tag exists and which is not finished *)
(* has its token, so that `--resume' can finish it, unless the operator threw   *)
(* the token away to discard it or to publish it with a moved tag: whatever     *)
(* died, was refused by a hook or ran into a push by somebody else              *)
(* (writeReleaseState first, clearReleaseState last).                           *)
TokenCoversTheRelease ==
    \A v \in Version : Begun(v) /\ ~Finished(v) => state = v \/ v \in discarded \cup retagged

(* Main never has a version after a later one, nor two release commits of one   *)
(* that was not discarded: an interrupted run is never started over with a      *)
(* version derived from its own commit, and a run that starts after a discard   *)
(* derives no version below main's (the release-state row, rung 3).             *)
VersionsGrow ==
    \A i, j \in 1..Len(origin) : i < j /\ origin[i].v # 0 /\ origin[j].v # 0 =>
        \/ origin[i].v < origin[j].v
        \/ origin[i].v = origin[j].v /\ origin[i].v \in discarded

OnMain(v) == remoteTags[v] \in Range(origin) /\ remoteTags[v].files.pkg = v

(* What is released is on main: the tag of a GitHub Release that was never      *)
(* discarded is on a commit of the remote's main whose package.json has the     *)
(* version: the release commit, or a later one where the operator moved it      *)
(* (rungs 3 to 6).                                                              *)
ReleasesComeFromMain ==
    \A v \in Version \ discarded : Released(v) =>
        OnMain(v) /\ (remoteTags[v].v = v \/ v \in retagged)

(* The release the operator resumes is what its run would have made of it:      *)
(* every file of a release commit has the entry of its version, and the GitHub  *)
(* Release shows the notes of its version (resumeRelease).                      *)
ReleasesAreWhole ==
    /\ \A i \in 1..Len(local) : LET c == local[i] IN c.v # 0 =>
          c.files.features = c.v /\ c.files.log = c.v /\ c.files.notes = c.v
    /\ \A r \in releases : r.notes = r.v

(* Main went on where this release did not: what others pushed is not in it, or *)
(* HEAD has moved past the release commit.                                      *)
Overtaken ==
    \/ ~IsPrefix(origin, local)
    \/ \E i \in 1..Len(local) - 1 : local[i].v = state

(* A run that died with its version written is finished by resuming it, over    *)
(* further deaths, unless main moves on first or the version is one that was    *)
(* discarded before (resumeRelease).                                            *)
ResumeFinishes ==
    state \notin {0} \cup discarded /\ tree.pkg = state ~> state = 0 \/ Overtaken
==============================================================================
