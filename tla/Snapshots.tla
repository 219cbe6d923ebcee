----------------------------- MODULE Snapshots ------------------------------
(***************************************************************************)
(* The snapshot directories of one target: <dir>/<commit>/, its manifest   *)
(* .manifests/<commit>.json and the link latest.  A release builds its     *)
(* directory, or reuses one that still agrees with its manifest, switches  *)
(* latest to it, and when it completes removes the snapshots nobody needs. *)
(* The service dies between any two of these steps, in the middle of a     *)
(* removal too, and files drift under it or cannot be read for a moment.   *)
(*                                                                         *)
(* Publisher models the transaction itself; here saves and nginx commands  *)
(* only succeed or fail, and a release is what the directories see of it.  *)
(* Left out: releases/<commit> and nested directories of older versions,   *)
(* a changed source for the same commit, shared assets, .staging.          *)
(***************************************************************************)
EXTENDS Naturals, FiniteSets

CONSTANTS Commits, NoCommit,
          KeepReleases,                       \* keep_releases, at least 2
          MaxReleases, MaxCrashes, MaxDrifts  \* bounds on what they name

ASSUME CommitAssumption == NoCommit \notin Commits
ASSUME KeepAssumption == KeepReleases \in Nat /\ KeepReleases >= 2

VARIABLES
    dir,       \* each commit's directory: none, part of its files, whole
    manifest,  \* when its manifest was made; 0 without one
    clock,     \* the last time a manifest was made
    link,      \* where latest points
    current, previous,  \* the state file's snapshots
    active,    \* the state file's active release
    left,      \* releases unfinished on record, though no longer active
    staged,    \* releases that switched and wait for their nginx commands
    undoable,  \* the release whose result is the state's revision
    job,       \* the release the process works on
    pc, todo,  \* its next step; what cleanup has still to remove
    releases, crashes,
    drifts     \* how often files drifted, or a release could not read them

disk == <<dir, manifest, clock>>
state == <<current, previous, active, left, staged, undoable>>
bounds == <<releases, crashes, drifts>>
vars == <<dir, manifest, clock, link, current, previous, active, left,
          staged, undoable, job, pc, todo, releases, crashes, drifts>>

Optional == Commits \cup {NoCommit}
Job == [candidate : Optional, baseline : Optional, before : Optional]
NoJob == [candidate |-> NoCommit, baseline |-> NoCommit, before |-> NoCommit]
Active == [phase : {"none", "preparing", "intent"}, release : Job]
NoActive == [phase |-> "none", release |-> NoJob]

Init == /\ dir = [c \in Commits |-> "none"]
        /\ manifest = [c \in Commits |-> 0] /\ clock = 0
        /\ link = NoCommit /\ current = NoCommit /\ previous = NoCommit
        /\ active = NoActive /\ left = {} /\ staged = {} /\ undoable = NoJob
        /\ job = NoJob
        /\ pc = "idle" /\ todo = {}
        /\ releases = 0 /\ crashes = 0 /\ drifts = 0

(* MUTANT: a directory with a manifest is taken as it is.                  *)
VerifiedByName(c) == dir[c] # "none" /\ manifest[c] # 0

(* verifySnapshot: all files of the manifest, and no other.                *)
Verified(c) == dir[c] = "whole" /\ manifest[c] # 0

-----------------------------------------------------------------------------
(* Accepting a release.                                                    *)

GoTo(step) == pc' = step

Release(c) == [candidate |-> c, baseline |-> current, before |-> previous]
Preparation(release) == [phase |-> "preparing", release |-> release]

(* A release given up earlier may be asked for again: its record is        *)
(* replaced.                                                               *)
Retried(c) == {left} \cup {left \ {release} : release \in
                             {known \in left : known.candidate = c}}

(* A new release takes over from the active one, which ends as failed.     *)
Begin(c) == /\ job' = Release(c)
            /\ active' = Preparation(Release(c))
            /\ left' \in Retried(c)

Serving(c) == current = c /\ link = c /\ Verified(c)
Waiting(c) == \E release \in staged : release.candidate = c

(* What is already live and intact is skipped, unless it cannot be read at *)
(* the moment.  If its own release still waits for its nginx commands, the *)
(* answer is that one's, and the new record stays active as it was.        *)
Apply(c) ==
    /\ pc = "idle" /\ releases < MaxReleases
    /\ releases' = releases + 1
    /\ \/ Begin(c) /\ GoTo("prepare")
       \/ /\ Serving(c) /\ ~Waiting(c)
          /\ active' = NoActive
          /\ UNCHANGED <<left, job, pc>>
       \/ /\ Serving(c) /\ Waiting(c)
          /\ active' = Preparation(Release(NoCommit))
          /\ UNCHANGED <<left, job, pc>>
    /\ UNCHANGED <<disk, link, current, previous, staged, undoable, todo,
                   crashes, drifts>>

(* restore_of, and RollbackCurrent: the baseline of the release that made  *)
(* the current revision is used as it is.                                  *)
Restore ==
    /\ pc = "idle" /\ releases < MaxReleases
    /\ undoable.baseline # NoCommit
    /\ releases' = releases + 1
    /\ Begin(undoable.baseline) /\ GoTo("verify")
    /\ UNCHANGED <<disk, link, current, previous, staged, undoable, todo,
                   crashes, drifts>>

-----------------------------------------------------------------------------
(* prepareSnapshot.                                                        *)

Candidate == job.candidate
Keeping == UNCHANGED <<link, state, job, todo, releases, crashes>>

Reuse == /\ pc = "prepare" /\ Verified(Candidate)
         /\ GoTo("verify")
         /\ UNCHANGED <<disk, drifts>> /\ Keeping

(* What is not intact, or cannot be read at the moment, is removed file by *)
(* file.                                                                   *)
Unreadable == drifts < MaxDrifts /\ drifts' = drifts + 1

Discard == /\ pc = "prepare"
           /\ (~Verified(Candidate) /\ UNCHANGED drifts) \/ Unreadable
           /\ IF dir[Candidate] = "none"
              THEN GoTo("build") /\ UNCHANGED dir
              ELSE GoTo("remove") /\ dir' = [dir EXCEPT ![Candidate] = "part"]
           /\ UNCHANGED <<manifest, clock>> /\ Keeping

Discarded == /\ pc = "remove"
             /\ dir' = [dir EXCEPT ![Candidate] = "none"]
             /\ GoTo("build")
             /\ UNCHANGED <<manifest, clock, drifts>> /\ Keeping

(* The copy is made in .staging and renamed once it is complete...         *)
Build == /\ pc = "build"
         /\ dir' = [dir EXCEPT ![Candidate] = "whole"]
         /\ GoTo("manifest")
         /\ UNCHANGED <<manifest, clock, drifts>> /\ Keeping

(* ...and its manifest follows.                                            *)
WriteManifest == /\ pc = "manifest"
                 /\ clock' = clock + 1
                 /\ manifest' = [manifest EXCEPT ![Candidate] = clock']
                 /\ GoTo("verify")
                 /\ UNCHANGED <<dir, drifts>> /\ Keeping

Preparing == {"prepare", "remove", "build", "manifest", "verify"}

(* MUTANT: the release stays in hand.                                      *)
FailKeepingJob == /\ pc \in Preparing
                  /\ GoTo("idle")
                  /\ active' = NoActive
                  /\ UNCHANGED <<disk, link, current, previous, left, staged,
                                 undoable, job, todo, bounds>>

(* Any step before the switch may fail; nothing of it is undone.           *)
Fail == /\ pc \in Preparing
        /\ GoTo("idle")
        /\ job' = NoJob /\ active' = NoActive
        /\ UNCHANGED <<disk, link, current, previous, left, staged, undoable,
                       todo, bounds>>

VerifyCandidate == /\ pc = "verify" /\ Verified(Candidate)
                   /\ active' = [active EXCEPT !.phase = "intent"]
                   /\ GoTo("switch")
                   /\ UNCHANGED <<disk, link, current, previous, left, staged,
                                  undoable, job, todo, bounds>>

-----------------------------------------------------------------------------
(* Switch, activation and restore.                                         *)

(* The rename may take effect although Switch reports an error.            *)
Switch == /\ pc = "switch"
          /\ \/ link' = Candidate /\ GoTo("activate")
             \/ link' \in {link, Candidate} /\ GoTo("restore")
          /\ UNCHANGED <<disk, state, job, todo, bounds>>

Newest == {c \in Commits : /\ manifest[c] # 0
                           /\ Cardinality({d \in Commits : manifest[d] > manifest[c]})
                                < KeepReleases}

(* MUTANT: the releases that did not come to an end are forgotten.         *)
KeptFinished(cur, prev, unfinished) == {cur, prev, link} \cup Newest

NeededBy(unfinished) ==
    UNION {{release.candidate, release.baseline} : release \in unfinished}

(* What cleanup leaves alone: the current and the previous snapshot, the   *)
(* one latest points at, those of unfinished releases, and the newest.     *)
Kept(cur, prev, unfinished) ==
    {cur, prev, link} \cup NeededBy(unfinished) \cup Newest

(* The release that was active stays unfinished on record when another     *)
(* one's nginx command clears or moves the mark.                           *)
Abandoned(release) == {active.release} \ {NoJob, release}

Shift(release) == /\ previous' = release.baseline
                  /\ current' = release.candidate
                  /\ undoable' = release

(* commit: the release completes, and cleanup is planned.                  *)
Commit(release) ==
    /\ Shift(release)
    /\ active' = NoActive /\ job' = NoJob
    /\ left' = left \cup Abandoned(release)
    /\ staged' = staged \ {release}
    /\ todo' = {c \in Commits : manifest[c] # 0} \ Kept(current', previous', left')
    /\ GoTo("cleanup")
    /\ UNCHANGED <<disk, link>>

(* The whole activation succeeded, the last check being of the snapshot.   *)
Activate == /\ pc = "activate" /\ Verified(Candidate)
            /\ Commit(job)
            /\ UNCHANGED bounds

ActivateFails == /\ pc = "activate"
                 /\ GoTo("restore")
                 /\ UNCHANGED <<disk, link, state, job, todo, bounds>>

(* A deferred activation is a release of its own commands.                 *)
CommitGitStage == /\ pc = "activate"
                  /\ Shift(job)
                  /\ active' = NoActive /\ job' = NoJob
                  /\ staged' = staged \cup {job}
                  /\ GoTo("idle")
                  /\ UNCHANGED <<disk, link, left, todo, bounds>>

(* nginx/test, nginx/reload and abort of a staged release whose commit is  *)
(* live.  Only one that is finished or given up leaves a trace here.       *)
IsCurrent(release) == current = release.candidate /\ link = release.candidate

Reload(release) == /\ pc = "idle" /\ release \in staged /\ IsCurrent(release)
                   /\ Verified(release.candidate)
                   /\ Commit(release)
                   /\ UNCHANGED bounds

CommandFails(release) ==
    /\ pc = "idle" /\ release \in staged /\ IsCurrent(release)
    /\ job' = release
    /\ GoTo("restore")
    /\ UNCHANGED <<disk, link, state, todo, bounds>>

(* MUTANT: latest is moved back without a look at the baseline.            *)
RestoreLocalUnchecked ==
    /\ pc = "restore"
    /\ link' = job.baseline
    /\ GoTo("restored")
    /\ UNCHANGED <<disk, state, job, todo, bounds>>

(* restoreLocal: without a baseline latest is removed.                     *)
RestoreLocal ==
    /\ pc = "restore"
    /\ job.baseline # NoCommit => Verified(job.baseline)
    /\ link' = job.baseline
    /\ GoTo("restored")
    /\ UNCHANGED <<disk, state, job, todo, bounds>>

Restored == /\ pc = "restored"
            /\ current' = job.baseline /\ previous' = job.before
            /\ active' = NoActive /\ staged' = staged \ {job}
            /\ left' = left \cup Abandoned(job)
            /\ undoable' = NoJob /\ job' = NoJob
            /\ GoTo("idle")
            /\ UNCHANGED <<disk, link, todo, bounds>>

(* A restore that fails before or after it moved latest.                   *)
Uncertain == /\ pc \in {"restore", "restored"}
             /\ active' = [phase |-> "intent", release |-> job]
             /\ staged' = staged \ {job}
             /\ left' = left \cup Abandoned(job)
             /\ undoable' = IF undoable = job THEN NoJob ELSE undoable
             /\ job' = NoJob
             /\ GoTo("idle")
             /\ UNCHANGED <<disk, link, current, previous, todo, bounds>>

-----------------------------------------------------------------------------
(* cleanupSnapshots, newest first.                                         *)

NextInLine(c) == c \in todo /\ \A d \in todo : manifest[d] <= manifest[c]
Rest == UNCHANGED <<clock, link, state, job, bounds>>

(* A snapshot whose directory is gone ends the whole cleanup.              *)
CleanupEnds == /\ pc = "cleanup"
               /\ todo' = {}
               /\ GoTo("idle")
               /\ UNCHANGED <<dir, manifest>> /\ Rest

RemoveSnapshot(c) == /\ pc = "cleanup" /\ NextInLine(c) /\ dir[c] # "none"
                     /\ dir' = [dir EXCEPT ![c] = "part"]
                     /\ GoTo("removing")
                     /\ UNCHANGED <<manifest, todo>> /\ Rest

SnapshotRemoved(c) == /\ pc = "removing" /\ NextInLine(c)
                      /\ dir' = [dir EXCEPT ![c] = "none"]
                      /\ GoTo("forget")
                      /\ UNCHANGED <<manifest, todo>> /\ Rest

RemoveManifest(c) == /\ pc = "forget" /\ NextInLine(c)
                     /\ manifest' = [manifest EXCEPT ![c] = 0]
                     /\ todo' = todo \ {c}
                     /\ GoTo("cleanup")
                     /\ UNCHANGED dir /\ Rest

-----------------------------------------------------------------------------
(* Death and startup.                                                      *)

Crash == /\ pc # "down" /\ crashes < MaxCrashes
         /\ crashes' = crashes + 1
         /\ pc' = "down" /\ job' = NoJob /\ todo' = {}
         /\ UNCHANGED <<disk, link, state, releases, drifts>>

Start == /\ pc = "down" /\ active.phase # "intent"
         /\ active' = NoActive
         /\ GoTo("idle")
         /\ UNCHANGED <<disk, link, current, previous, left, staged, undoable,
                        job, todo, bounds>>

(* recoverStartup: complete what latest already shows, else go back.       *)
RecoverForward == /\ pc = "down" /\ active.phase = "intent"
                  /\ link = active.release.candidate /\ Verified(link)
                  /\ Commit(active.release)
                  /\ UNCHANGED bounds

RecoverBack == /\ pc = "down" /\ active.phase = "intent"
               /\ job' = active.release
               /\ GoTo("restore")
               /\ UNCHANGED <<disk, link, state, todo, bounds>>

(* Files change or vanish under the service while it is not at work.       *)
Drift(c) == /\ pc \in {"idle", "down"} /\ drifts < MaxDrifts /\ dir[c] = "whole"
            /\ drifts' = drifts + 1
            /\ dir' = [dir EXCEPT ![c] = "part"]
            /\ UNCHANGED <<manifest, clock, link, state, job, pc, todo, releases,
                           crashes>>

Next == \/ \E c \in Commits : \/ Apply(c) \/ RemoveSnapshot(c) \/ SnapshotRemoved(c)
                              \/ RemoveManifest(c) \/ Drift(c)
        \/ Restore \/ Reuse \/ Discard \/ Discarded \/ Build
        \/ WriteManifest \/ Fail \/ VerifyCandidate \/ Switch
        \/ Activate \/ ActivateFails \/ CommitGitStage
        \/ \E release \in staged : Reload(release) \/ CommandFails(release)
        \/ RestoreLocal \/ Restored \/ Uncertain \/ CleanupEnds
        \/ Crash \/ Start \/ RecoverForward \/ RecoverBack

Spec == Init /\ [][Next]_vars

-----------------------------------------------------------------------------
(* Properties.                                                             *)

(* Types; a release is in hand exactly while one is being worked on, and   *)
(* cleanup has a plan only while it runs.                                  *)
TypeOK ==
    /\ dir \in [Commits -> {"none", "part", "whole"}]
    /\ manifest \in [Commits -> 0..clock] /\ clock \in Nat
    /\ link \in Optional /\ current \in Optional /\ previous \in Optional
    /\ active \in Active /\ left \subseteq Job /\ staged \subseteq Job
    /\ undoable \in Job /\ job \in Job
    /\ pc \in Preparing \cup {"down", "idle", "switch", "activate", "restore",
                              "restored", "cleanup", "removing", "forget"}
    /\ job # NoJob <=> pc \in Preparing \cup {"switch", "activate", "restore", "restored"}
    /\ todo \subseteq Commits
    /\ todo # {} => pc \in {"cleanup", "removing", "forget"}

(* While nothing drifts and everything can be read, latest and the         *)
(* recorded current version name a complete directory with its manifest at *)
(* every moment, whatever crashes left behind: interrupted removals,       *)
(* copies without manifest.                                                *)
LiveIsWhole == drifts = 0 =>
    \A c \in {link, current} \ {NoCommit} : dir[c] = "whole" /\ manifest[c] # 0

(* latest is never moved to a directory that is not whole: not by a new    *)
(* release, a rollback, a restore or startup, and with drifted files.      *)
SwitchChecked ==
    [][link' # link /\ link' # NoCommit => dir[link'] = "whole"]_vars

Retained == {current, previous, link} \cup NeededBy(left \cup {active.release})
                                      \cup Newest

(* The service itself never harms an intact snapshot it can read that is   *)
(* current, previous, live, or belongs to an unfinished release, however   *)
(* many releases ago that one was left, nor one of the newest KeepReleases *)
(* (edge-sync-agent-design-v3.md:307).                                     *)
RetainedKept ==
    [][drifts' = drifts =>
         \A c \in Retained \ {NoCommit} :
             dir[c] = "whole" /\ manifest[c] # 0 => dir'[c] = "whole"]_vars
=============================================================================
