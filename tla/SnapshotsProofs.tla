-------------------------- MODULE SnapshotsProofs ---------------------------
(***************************************************************************)
(* For any commits, any keep_releases, and any number of releases, crashes *)
(* and drifts: latest is only moved to whole directories, without drift    *)
(* what is live or current stays whole, and the service harms nothing that *)
(* it may return to, nor any of the newest snapshots.                      *)
(***************************************************************************)
EXTENDS Snapshots, FiniteSetTheorems, TLAPS

(* A release that is remembered anywhere is a release.                     *)
Remembered == /\ NoJob \notin staged
              /\ active.phase # "none" => active.release # NoJob
              /\ pc \in Preparing => active.phase # "none"

Typed == TypeOK /\ Remembered

-----------------------------------------------------------------------------
LEMMA NoJobTyped == NoJob \in Job /\ NoActive \in Active /\ NoActive.phase = "none"
BY DEF NoJob, NoActive, Job, Active, Optional

(* Accepting a release.                                                    *)
LEMMA BeginTyped ==
    ASSUME Typed, NEW c \in Commits, Begin(c)
    PROVE  /\ job' \in Job /\ job' # NoJob
           /\ active' \in Active /\ active'.phase # "none"
           /\ active'.release # NoJob
           /\ left' \subseteq Job
<1>1. /\ job' = Release(c) /\ active' = Preparation(Release(c))
      /\ Release(c) \in Job /\ Release(c) # NoJob
  BY CommitAssumption DEF Begin, Release, Typed, TypeOK, NoJob, Job, Optional
<1>2. left' \subseteq left
  BY DEF Begin, Retried
<1> QED BY <1>1, <1>2 DEF Preparation, Active, Typed, TypeOK

LEMMA AbandonedTyped ==
    ASSUME Typed, NEW release
    PROVE  left \cup Abandoned(release) \subseteq Job
BY DEF Abandoned, Typed, TypeOK, Active

(* Completing one.                                                         *)
LEMMA CommitTyped ==
    ASSUME Typed, NEW release \in Job, Commit(release), UNCHANGED bounds
    PROVE  Typed'
<1> USE DEF Commit, Shift, GoTo
<1>1. /\ previous' \in Optional /\ current' \in Optional /\ undoable' \in Job
      /\ active' \in Active /\ job' = NoJob /\ staged' \subseteq Job
      /\ left' \subseteq Job
      /\ todo' \subseteq Commits /\ pc' = "cleanup"
      /\ UNCHANGED <<dir, manifest, clock, link>>
  BY NoJobTyped, AbandonedTyped DEF Typed, TypeOK, Job, disk
<1>2. NoJob \notin staged' /\ active'.phase = "none"
  BY NoJobTyped DEF Typed, Remembered
<1>3. job' \in Job
  BY <1>1, NoJobTyped
<1> QED BY <1>1, <1>2, <1>3 DEF Typed, TypeOK, Remembered, Preparing

Entering == \/ \E c \in Commits : Apply(c)
            \/ Restore
            \/ \E release \in staged : CommandFails(release)

LEMMA EnteringTyped ==
    ASSUME Typed, Entering
    PROVE  Typed'
<1> USE NoJobTyped DEF Typed, TypeOK, Remembered, Preparing, disk, state, bounds, GoTo
<1>1. ASSUME NEW c \in Commits, Apply(c) PROVE Typed'
  <2>1. CASE Begin(c) /\ pc' = "prepare"
    <3>1. job' \in Job /\ job' # NoJob /\ active' \in Active
          /\ active'.phase # "none" /\ active'.release # NoJob /\ left' \subseteq Job
      BY <2>1, BeginTyped
    <3> QED BY <1>1, <2>1, <3>1 DEF Apply
  <2>2. CASE active' = NoActive /\ UNCHANGED <<left, job, pc>>
    BY <1>1, <2>2 DEF Apply
  <2>3. CASE Serving(c) /\ active' = Preparation(Release(NoCommit)) /\ UNCHANGED <<left, job, pc>>
    <3>1. c = current /\ c # NoCommit
      BY <2>3, CommitAssumption DEF Serving
    <3>2. Release(NoCommit) \in Job /\ Release(NoCommit) # NoJob
      BY <3>1 DEF Release, NoJob, Job, Optional
    <3>3. active' \in Active /\ active'.phase # "none" /\ active'.release # NoJob
      BY <2>3, <3>2 DEF Preparation, Active
    <3> QED BY <1>1, <2>3, <3>3 DEF Apply
  <2> QED BY <1>1, <2>1, <2>2, <2>3 DEF Apply
<1>2. CASE Restore
  <2>1. undoable.baseline \in Commits
    BY <1>2 DEF Restore, Job, Optional
  <2>2. Begin(undoable.baseline) /\ pc' = "verify"
    BY <1>2 DEF Restore
  <2>3. job' \in Job /\ job' # NoJob /\ active' \in Active
        /\ active'.phase # "none" /\ active'.release # NoJob /\ left' \subseteq Job
    BY <2>1, <2>2, BeginTyped
  <2> QED BY <1>2, <2>2, <2>3 DEF Restore
<1>3. ASSUME NEW release \in staged, CommandFails(release) PROVE Typed'
  BY <1>3 DEF CommandFails
<1> QED BY <1>1, <1>2, <1>3 DEF Entering

PreparingSteps == Reuse \/ Discard \/ Discarded \/ Build \/ WriteManifest
                  \/ Fail \/ VerifyCandidate

LEMMA PreparingTyped ==
    ASSUME Typed, PreparingSteps
    PROVE  Typed'
<1> USE NoJobTyped
        DEF Typed, TypeOK, Remembered, Preparing, disk, state, bounds, GoTo, Keeping
<1>1. CASE Reuse
  BY <1>1 DEF Reuse
<1>2. CASE Discard
  BY <1>2 DEF Discard
<1>3. CASE Discarded
  BY <1>3 DEF Discarded
<1>4. CASE Build
  BY <1>4 DEF Build
<1>5. CASE WriteManifest
  <2>1. clock \in Nat /\ clock' = clock + 1 /\ manifest \in [Commits -> 0..clock]
    BY <1>5 DEF WriteManifest
  <2>2. clock' \in 0..clock' /\ 0..clock \subseteq 0..clock'
    BY <2>1
  <2>3. manifest' = [manifest EXCEPT ![Candidate] = clock']
    BY <1>5 DEF WriteManifest
  <2>4. manifest' \in [Commits -> 0..clock']
    <3> HIDE DEF Typed, TypeOK
    <3> QED BY <2>1, <2>2, <2>3
  <2> QED BY <1>5, <2>1, <2>4 DEF WriteManifest
<1>6. CASE Fail
  BY <1>6 DEF Fail
<1>7. CASE VerifyCandidate
  BY <1>7 DEF VerifyCandidate, Active
<1> QED BY <1>1, <1>2, <1>3, <1>4, <1>5, <1>6, <1>7 DEF PreparingSteps

SwitchingSteps == Switch \/ Activate \/ ActivateFails \/ CommitGitStage
                  \/ RestoreLocal \/ Restored \/ Uncertain
                  \/ \E release \in staged : Reload(release)

LEMMA SwitchingTyped ==
    ASSUME Typed, SwitchingSteps
    PROVE  Typed'
<1> USE NoJobTyped
        DEF Typed, TypeOK, Remembered, Preparing, disk, state, bounds, GoTo
<1>1. CASE Switch
  BY <1>1 DEF Switch, Candidate, Job
<1>2. CASE Activate
  BY <1>2, CommitTyped DEF Activate
<1>3. CASE ActivateFails
  BY <1>3 DEF ActivateFails
<1>4. CASE CommitGitStage
  BY <1>4 DEF CommitGitStage, Shift, Job
<1>5. CASE RestoreLocal
  BY <1>5 DEF RestoreLocal, Job
<1>6. CASE Restored
  BY <1>6, AbandonedTyped DEF Restored, Job
<1>7. CASE Uncertain
  BY <1>7, AbandonedTyped DEF Uncertain, Active
<1>8. ASSUME NEW release \in staged, Reload(release) PROVE Typed'
  BY <1>8, CommitTyped DEF Reload
<1> QED BY <1>1, <1>2, <1>3, <1>4, <1>5, <1>6, <1>7, <1>8 DEF SwitchingSteps

CleaningSteps == CleanupEnds
                 \/ \E c \in Commits : \/ RemoveSnapshot(c) \/ SnapshotRemoved(c)
                                       \/ RemoveManifest(c) \/ Drift(c)

LEMMA CleaningTyped ==
    ASSUME Typed, CleaningSteps
    PROVE  Typed'
<1> USE DEF Typed, TypeOK, Remembered, Preparing, state, bounds, GoTo, Rest
<1>1. CASE CleanupEnds
  BY <1>1 DEF CleanupEnds
<1>2. ASSUME NEW c \in Commits, RemoveSnapshot(c) PROVE Typed'
  BY <1>2 DEF RemoveSnapshot, NextInLine
<1>3. ASSUME NEW c \in Commits, SnapshotRemoved(c) PROVE Typed'
  BY <1>3 DEF SnapshotRemoved, NextInLine
<1>4. ASSUME NEW c \in Commits, RemoveManifest(c) PROVE Typed'
  <2>1. manifest' \in [Commits -> 0..clock]
    BY <1>4 DEF RemoveManifest
  <2> QED BY <1>4, <2>1 DEF RemoveManifest
<1>5. ASSUME NEW c \in Commits, Drift(c) PROVE Typed'
  BY <1>5 DEF Drift
<1> QED BY <1>1, <1>2, <1>3, <1>4, <1>5 DEF CleaningSteps

StartSteps == Crash \/ Start \/ RecoverForward \/ RecoverBack

LEMMA StartTyped ==
    ASSUME Typed, StartSteps
    PROVE  Typed'
<1> USE NoJobTyped
        DEF Typed, TypeOK, Remembered, Preparing, disk, state, bounds, GoTo
<1>1. CASE Crash
  BY <1>1 DEF Crash
<1>2. CASE Start
  BY <1>2 DEF Start
<1>3. CASE RecoverForward
  <2>1. active.release \in Job /\ Commit(active.release) /\ UNCHANGED bounds
    BY <1>3 DEF RecoverForward, Active
  <2> QED BY <2>1, CommitTyped
<1>4. CASE RecoverBack
  BY <1>4 DEF RecoverBack, Active
<1> QED BY <1>1, <1>2, <1>3, <1>4 DEF StartSteps

-----------------------------------------------------------------------------
LEMMA NextSplit ==
    ASSUME Next
    PROVE  Entering \/ PreparingSteps \/ SwitchingSteps \/ CleaningSteps \/ StartSteps
BY DEF Next, Entering, PreparingSteps, SwitchingSteps, CleaningSteps, StartSteps

LEMMA NextTyped == Typed /\ [Next]_vars => Typed'
<1> SUFFICES ASSUME Typed, [Next]_vars PROVE Typed'
  OBVIOUS
<1>1. CASE Next
  BY <1>1, NextSplit, EnteringTyped, PreparingTyped, SwitchingTyped,
     CleaningTyped, StartTyped
<1>2. CASE UNCHANGED vars
  BY <1>2 DEF vars, Typed, TypeOK, Remembered
<1> QED BY <1>1, <1>2

LEMMA InitTyped == Init => Typed
<1> SUFFICES ASSUME Init PROVE Typed
  OBVIOUS
<1>1. manifest \in [Commits -> 0..clock] /\ clock \in Nat
  BY DEF Init
<1> QED BY <1>1, NoJobTyped DEF Init, Typed, TypeOK, Remembered, Preparing, Optional

LEMMA AlwaysTyped == Spec => []Typed
BY InitTyped, NextTyped, PTL DEF Spec

(* The directory states and records of Snapshots keep their types.         *)
THEOREM TypeCorrect == Spec => []TypeOK
<1>1. Typed => TypeOK
  BY DEF Typed
<1> QED BY <1>1, AlwaysTyped, PTL

-----------------------------------------------------------------------------
(* What a release switches to was verified, and stays so until it is done. *)
Vetted == /\ pc \in {"switch", "activate"} => Verified(job.candidate)
          /\ pc = "restored" => link = job.baseline

LEMMA VettedStep == Typed /\ Vetted /\ [Next]_vars => Vetted'
<1> SUFFICES ASSUME Typed, Vetted, [Next]_vars PROVE Vetted'
  OBVIOUS
<1> USE DEF Vetted, Verified, GoTo
<1>1. CASE Entering
  BY <1>1 DEF Entering, Apply, Restore, CommandFails
<1>2. CASE PreparingSteps
  <2>1. CASE VerifyCandidate
    BY <2>1 DEF VerifyCandidate, Verified, Candidate, disk
  <2>2. CASE Reuse \/ Discard \/ Discarded \/ Build \/ WriteManifest \/ Fail
    BY <2>2 DEF Reuse, Discard, Discarded, Build, WriteManifest, Fail
  <2> QED BY <1>2, <2>1, <2>2 DEF PreparingSteps
<1>3. CASE SwitchingSteps
  <2>1. CASE Switch
    BY <2>1 DEF Switch, disk
  <2>2. CASE Activate \/ CommitGitStage \/ \E release \in staged : Reload(release)
    BY <2>2 DEF Activate, CommitGitStage, Reload, Commit
  <2>3. CASE ActivateFails \/ Restored \/ Uncertain
    BY <2>3 DEF ActivateFails, Restored, Uncertain
  <2>4. CASE RestoreLocal
    BY <2>4 DEF RestoreLocal
  <2> QED BY <1>3, <2>1, <2>2, <2>3, <2>4 DEF SwitchingSteps
<1>4. CASE CleaningSteps
  BY <1>4 DEF CleaningSteps, CleanupEnds, RemoveSnapshot, SnapshotRemoved,
     RemoveManifest, Drift
<1>5. CASE StartSteps
  BY <1>5 DEF StartSteps, Crash, Start, RecoverForward, RecoverBack, Commit
<1>6. CASE UNCHANGED vars
  BY <1>6 DEF vars
<1> QED BY <1>1, <1>2, <1>3, <1>4, <1>5, <1>6, NextSplit

LEMMA AlwaysVetted == Spec => [](Typed /\ Vetted)
<1>1. Init => Vetted
  BY DEF Init, Vetted
<1> QED BY <1>1, AlwaysTyped, VettedStep, PTL DEF Spec

(* The two steps that move latest move it to what they have verified.      *)
LEMMA SwitchStep ==
    ASSUME Typed, Vetted, [Next]_vars, link' # link, link' # NoCommit
    PROVE  dir[link'] = "whole"
<1>1. CASE Entering
  BY <1>1 DEF Entering, Apply, Restore, CommandFails
<1>2. CASE PreparingSteps
  BY <1>2 DEF PreparingSteps, Reuse, Discard, Discarded, Build, WriteManifest,
     Fail, VerifyCandidate, Keeping
<1>3. CASE SwitchingSteps
  <2>1. CASE Switch
    BY <2>1 DEF Switch, Candidate, Vetted, Verified
  <2>2. CASE RestoreLocal
    BY <2>2 DEF RestoreLocal, Verified
  <2>3. CASE ~(Switch \/ RestoreLocal)
    BY <1>3, <2>3 DEF SwitchingSteps, Activate, CommitGitStage, Reload, Commit,
       ActivateFails, Restored, Uncertain
  <2> QED BY <2>1, <2>2, <2>3
<1>4. CASE CleaningSteps
  BY <1>4 DEF CleaningSteps, CleanupEnds, RemoveSnapshot, SnapshotRemoved,
     RemoveManifest, Drift, Rest
<1>5. CASE StartSteps
  BY <1>5 DEF StartSteps, Crash, Start, RecoverForward, RecoverBack, Commit
<1> QED BY <1>1, <1>2, <1>3, <1>4, <1>5, NextSplit DEF vars

(* latest is never moved to a directory that is not whole, however often   *)
(* releases crash and files drift.                                         *)
THEOREM SwitchesAreChecked == Spec => SwitchChecked
<1>1. Typed /\ Vetted /\ [Next]_vars =>
        [link' # link /\ link' # NoCommit => dir[link'] = "whole"]_vars
  BY SwitchStep
<1> QED BY <1>1, AlwaysVetted, PTL DEF Spec, SwitchChecked

-----------------------------------------------------------------------------
(* Without drift: what is live or current is whole, and neither a release  *)
(* that rebuilds a directory nor cleanup has it in hand.                   *)
Live == {link, current} \ {NoCommit}

Safe == /\ \A c \in Live : Verified(c)
        /\ pc \in {"remove", "build", "manifest"} => job.candidate \notin Live
        /\ todo \cap Live = {}

Undisturbed == drifts \in Nat /\ (drifts = 0 => Safe)

LEMMA CommitSafe ==
    ASSUME Typed, Safe, NEW release \in Job, Commit(release),
           release.candidate # NoCommit => Verified(release.candidate)
    PROVE  Safe'
<1>1. /\ current' = release.candidate /\ pc' = "cleanup"
      /\ UNCHANGED <<dir, manifest, clock, link>>
  BY DEF Commit, Shift, GoTo, disk
<1>2. todo' \cap {current', link} = {}
  BY DEF Commit, Kept
<1> QED BY <1>1, <1>2 DEF Safe, Live, Verified

(* A discarded directory that could be read was not intact.                *)
LEMMA DiscardDamaged ==
    ASSUME Discard, drifts \in Nat, drifts' = drifts
    PROVE  ~Verified(Candidate)
<1>1. drifts + 1 # drifts
  OBVIOUS
<1> QED BY <1>1 DEF Discard, Unreadable

(* Discard meets no live directory: a live one would have verified.        *)
LEMMA PreparingSafe ==
    ASSUME Typed, Safe, PreparingSteps, drifts \in Nat, drifts' = drifts
    PROVE  Safe'
<1> USE DEF Safe, Live, Verified, GoTo, Keeping, Candidate, state
<1>1. CASE Reuse
  BY <1>1 DEF Reuse, disk
<1>2. CASE Discard
  <2>1. job.candidate \notin Live /\ UNCHANGED <<link, current, job, todo, manifest>>
    BY <1>2, DiscardDamaged DEF Discard
  <2>2. \A c \in Live : dir'[c] = dir[c]
    <3>1. \/ dir' = dir
          \/ dir' = [dir EXCEPT ![job.candidate] = "part"]
      BY <1>2 DEF Discard
    <3>2. Live \subseteq Commits
      BY DEF Typed, TypeOK, Optional
    <3>3. CASE dir' = [dir EXCEPT ![job.candidate] = "part"]
      BY <2>1, <3>2, <3>3 DEF Typed, TypeOK
    <3> QED BY <3>1, <3>3
  <2> QED BY <2>1, <2>2
<1>3. CASE Discarded
  <2>1. job.candidate \notin Live /\ UNCHANGED <<link, current, job, todo, manifest>>
    BY <1>3 DEF Discarded
  <2>2. \A c \in Live : dir'[c] = dir[c]
    BY <1>3, <2>1 DEF Discarded, Typed, TypeOK
  <2> QED BY <2>1, <2>2
<1>4. CASE Build
  <2>1. job.candidate \notin Live /\ UNCHANGED <<link, current, job, todo, manifest>>
    BY <1>4 DEF Build
  <2>2. \A c \in Live : dir'[c] = dir[c]
    BY <1>4, <2>1 DEF Build, Typed, TypeOK
  <2> QED BY <2>1, <2>2
<1>5. CASE WriteManifest
  <2>1. job.candidate \notin Live /\ UNCHANGED <<link, current, job, todo, dir>>
    BY <1>5 DEF WriteManifest
  <2>2. \A c \in Live : manifest'[c] = manifest[c]
    BY <1>5, <2>1 DEF WriteManifest, Typed, TypeOK
  <2>3. pc' = "verify"
    BY <1>5 DEF WriteManifest
  <2> QED BY <2>1, <2>2, <2>3
<1>6. CASE Fail
  BY <1>6 DEF Fail, disk
<1>7. CASE VerifyCandidate
  BY <1>7 DEF VerifyCandidate, disk
<1> QED BY <1>1, <1>2, <1>3, <1>4, <1>5, <1>6, <1>7 DEF PreparingSteps

LEMMA SwitchingSafe ==
    ASSUME Typed, Vetted, Safe, SwitchingSteps
    PROVE  Safe'
<1>1. CASE Switch
  <2>1. Verified(job.candidate) /\ link' \in {link, job.candidate} /\ todo = {}
    BY <1>1 DEF Switch, Candidate, Vetted, Typed, TypeOK
  <2> QED BY <1>1, <2>1 DEF Switch, Safe, Live, Verified, GoTo, disk, state
<1>2. CASE Activate
  <2>1. job \in Job /\ Commit(job) /\ Verified(job.candidate)
    BY <1>2 DEF Activate, Candidate, Typed, TypeOK
  <2> QED BY <2>1, CommitSafe
<1>3. CASE ActivateFails
  BY <1>3 DEF ActivateFails, Safe, Live, Verified, GoTo, disk, state
<1>4. CASE CommitGitStage
  <2>1. Verified(job.candidate) /\ current' = job.candidate /\ todo = {}
    BY <1>4 DEF CommitGitStage, Shift, Vetted, Typed, TypeOK
  <2> QED BY <1>4, <2>1 DEF CommitGitStage, Safe, Live, Verified, GoTo, disk
<1>5. CASE RestoreLocal
  <2>1. /\ link' # NoCommit => Verified(link')
        /\ UNCHANGED <<disk, state, job, todo>> /\ todo = {}
    BY <1>5 DEF RestoreLocal, Typed, TypeOK
  <2> QED BY <1>5, <2>1 DEF RestoreLocal, Safe, Live, Verified, GoTo, disk, state
<1>6. CASE Restored
  <2>1. current' = link /\ UNCHANGED <<disk, link, todo>> /\ todo = {}
    BY <1>6 DEF Restored, Vetted, Typed, TypeOK
  <2> QED BY <1>6, <2>1 DEF Restored, Safe, Live, Verified, GoTo, disk
<1>7. CASE Uncertain
  BY <1>7 DEF Uncertain, Safe, Live, Verified, GoTo, disk
<1>8. ASSUME NEW release \in staged, Reload(release) PROVE Safe'
  <2>1. release \in Job /\ Commit(release) /\ Verified(release.candidate)
    BY <1>8 DEF Reload, Typed, TypeOK
  <2> QED BY <2>1, CommitSafe
<1> QED BY <1>1, <1>2, <1>3, <1>4, <1>5, <1>6, <1>7, <1>8 DEF SwitchingSteps

LEMMA EnteringSafe ==
    ASSUME Safe, Entering
    PROVE  Safe'
<1> USE DEF Entering, Safe, Live, Verified, GoTo, disk, state
<1>1. CASE \E c \in Commits : Apply(c)
  BY <1>1 DEF Apply
<1>2. CASE Restore
  BY <1>2 DEF Restore
<1>3. CASE \E release \in staged : CommandFails(release)
  BY <1>3 DEF CommandFails
<1> QED BY <1>1, <1>2, <1>3

(* Cleanup removes what it planned to, and that is not live.               *)
RemovalSteps == CleanupEnds \/ \E c \in Commits : RemoveSnapshot(c)
                              \/ SnapshotRemoved(c) \/ RemoveManifest(c)

LEMMA RemovalSafe ==
    ASSUME Typed, Safe, RemovalSteps
    PROVE  Safe'
<1> USE DEF Safe, Live, Verified, GoTo, Rest, state, Typed, TypeOK
<1>1. CASE CleanupEnds
  BY <1>1 DEF CleanupEnds
<1>2. ASSUME NEW c \in Commits, RemoveSnapshot(c) PROVE Safe'
  BY <1>2 DEF RemoveSnapshot, NextInLine
<1>3. ASSUME NEW c \in Commits, SnapshotRemoved(c) PROVE Safe'
  BY <1>3 DEF SnapshotRemoved, NextInLine
<1>4. ASSUME NEW c \in Commits, RemoveManifest(c) PROVE Safe'
  BY <1>4 DEF RemoveManifest, NextInLine
<1> QED BY <1>1, <1>2, <1>3, <1>4 DEF RemovalSteps

LEMMA StartSafe ==
    ASSUME Typed, Safe, StartSteps
    PROVE  Safe'
<1> USE DEF Safe, Live, Verified, GoTo, disk, state
<1>1. CASE Crash
  BY <1>1 DEF Crash
<1>2. CASE Start
  BY <1>2 DEF Start
<1>3. CASE RecoverForward
  <2>1. /\ active.release \in Job /\ Commit(active.release)
        /\ Verified(active.release.candidate)
    BY <1>3 DEF RecoverForward, Active, Typed, TypeOK
  <2> HIDE DEF Safe
  <2> QED BY <2>1, CommitSafe
<1>4. CASE RecoverBack
  BY <1>4 DEF RecoverBack
<1> QED BY <1>1, <1>2, <1>3, <1>4 DEF StartSteps

(* Nothing but a drift, or a snapshot that cannot be read, counts as one.  *)
Drifting == (\E c \in Commits : Drift(c)) \/ (Discard /\ Unreadable)

LEMMA NoDrift ==
    ASSUME Next, drifts' # drifts
    PROVE  Drifting
<1>1. ~Entering
  BY DEF Entering, Apply, Restore, CommandFails, bounds
<1>2. PreparingSteps => Discard /\ Unreadable
  BY DEF PreparingSteps, Reuse, Discard, Discarded, Build, WriteManifest, Fail,
     VerifyCandidate, Keeping, bounds
<1>3. ~SwitchingSteps
  BY DEF SwitchingSteps, Switch, Activate, ActivateFails, CommitGitStage,
     RestoreLocal, Restored, Uncertain, Reload, bounds
<1>4. ~StartSteps
  BY DEF StartSteps, Crash, Start, RecoverForward, RecoverBack, bounds
<1>5. ~RemovalSteps
  BY DEF RemovalSteps, CleanupEnds, RemoveSnapshot, SnapshotRemoved,
     RemoveManifest, Rest, bounds
<1> QED BY <1>1, <1>2, <1>3, <1>4, <1>5, NextSplit DEF CleaningSteps, RemovalSteps, Drifting

LEMMA UndisturbedStep ==
    Typed /\ Vetted /\ Undisturbed /\ [Next]_vars => Undisturbed'
<1> SUFFICES ASSUME Typed, Vetted, Undisturbed, [Next]_vars PROVE Undisturbed'
  OBVIOUS
<1>1. CASE UNCHANGED vars
  BY <1>1 DEF vars, Undisturbed, Safe, Live, Verified
<1>2. CASE Drifting
  <2>1. drifts' = drifts + 1
    BY <1>2 DEF Drifting, Drift, Unreadable
  <2> QED BY <2>1 DEF Undisturbed
<1>3. CASE Next /\ ~Drifting
  <2>1. drifts' = drifts
    BY <1>3, NoDrift
  <2>2. Entering \/ PreparingSteps \/ SwitchingSteps \/ RemovalSteps \/ StartSteps
    BY <1>3, NextSplit DEF CleaningSteps, RemovalSteps, Drifting
  <2>3. Safe => Safe'
    BY <2>1, <2>2, EnteringSafe, PreparingSafe, SwitchingSafe, RemovalSafe, StartSafe
       DEF Undisturbed
  <2> QED BY <2>1, <2>3 DEF Undisturbed
<1> QED BY <1>1, <1>2, <1>3

LEMMA AlwaysUndisturbed == Spec => []Undisturbed
<1>1. Init => Undisturbed
  BY DEF Init, Undisturbed, Safe, Live
<1> QED BY <1>1, AlwaysVetted, UndisturbedStep, PTL DEF Spec

(* As long as no file drifts, latest and the recorded current version are  *)
(* complete at every moment, through any number of crashes.                *)
THEOREM LiveStaysWhole == Spec => []LiveIsWhole
<1>1. Undisturbed => LiveIsWhole
  BY DEF Undisturbed, Safe, Live, Verified, LiveIsWhole
<1> QED BY <1>1, AlwaysUndisturbed, PTL

-----------------------------------------------------------------------------
(* What cleanup leaves alone stays whole while cleanup goes on.  It counts *)
(* the newest manifests once and then removes others; that those it counts *)
(* still are the newest, and as many, is what has to be shown: whatever it *)
(* has on its plan has enough newer ones that are not.                     *)

Listed == {c \in Commits : manifest[c] # 0}
Newer(c) == {d \in Commits : manifest[d] > manifest[c]}
Needed == {current, previous, link} \cup NeededBy(left \cup {active.release})

Spared == /\ todo \cap Needed = {}
          /\ \A c \in todo : Cardinality(Newer(c) \ todo) >= KeepReleases
Tidy == /\ IsFiniteSet(Listed)
        /\ pc \in Preparing => Candidate \in Commits
        /\ pc = "remove" => dir[Candidate] # "whole"
        /\ Spared

LEMMA NewerTyped ==
    ASSUME Typed, IsFiniteSet(Listed), NEW c \in Commits
    PROVE  /\ manifest[c] \in Nat
           /\ Newer(c) \in SUBSET Listed /\ IsFiniteSet(Newer(c))
           /\ Cardinality(Newer(c)) \in Nat
           /\ c \notin Newer(c)
<1>1. \A d \in Commits : manifest[d] \in Nat
  BY DEF Typed, TypeOK
<1>2. Newer(c) \in SUBSET Listed /\ c \notin Newer(c)
  BY <1>1 DEF Newer, Listed
<1> QED BY <1>1, <1>2, FS_Subset, FS_CardinalityType

(* Among any commits one is as new as all the others.                      *)
LEMMA SomeNewest ==
    ASSUME Typed, IsFiniteSet(Listed), NEW X \in SUBSET Commits, X # {}
    PROVE  \E c \in X : \A d \in X : d \notin Newer(c)
<1> DEFINE T == {Newer(c) : c \in X}
<1>1. T \subseteq FiniteSubsetsOf(Listed) /\ T # {}
  BY NewerTyped DEF FiniteSubsetsOf
<1>2. PICK N \in T : \A M \in T : <<M, N>> \notin StrictSubsetOrdering(Listed)
  <2> HIDE DEF T
  <2> QED BY <1>1, FS_StrictSubsetOrderingWellFounded, WFMin
<1>3. PICK c \in X : N = Newer(c)
  OBVIOUS
<1>4. ASSUME NEW d \in X, d \in Newer(c)
      PROVE  FALSE
  <2>1. /\ manifest[c] \in Nat /\ manifest[d] \in Nat
        /\ \A e \in Commits : manifest[e] \in Nat
        /\ Newer(c) \in SUBSET Listed /\ Newer(d) \in SUBSET Listed
        /\ d \notin Newer(d)
    BY NewerTyped
  <2>2. Newer(d) \subseteq Newer(c) /\ Newer(d) # Newer(c)
    BY <1>4, <2>1 DEF Newer
  <2>3. <<Newer(d), Newer(c)>> \in StrictSubsetOrdering(Listed)
    BY <2>1, <2>2 DEF StrictSubsetOrdering
  <2>4. Newer(d) \in T
    OBVIOUS
  <2> QED BY <1>2, <1>3, <2>3, <2>4
<1> QED BY <1>4

LEMMA NotNewest ==
    ASSUME Typed, IsFiniteSet(Listed), NEW c \in Listed, c \notin Newest
    PROVE  Cardinality(Newer(c)) >= KeepReleases
<1>1. c \in Commits /\ manifest[c] # 0
  BY DEF Listed
<1>2. ~(Cardinality(Newer(c)) < KeepReleases)
  BY <1>1, Zenon DEF Newest, Newer
<1>3. Cardinality(Newer(c)) \in Nat
  BY <1>1, NewerTyped
<1> QED BY <1>2, <1>3, KeepAssumption

(* A snapshot that is not among the newest has enough of those before it.  *)
LEMMA NewestFill ==
    ASSUME Typed, IsFiniteSet(Listed), NEW c \in Listed, c \notin Newest
    PROVE  Cardinality(Newer(c) \cap Newest) >= KeepReleases
<1>1. c \in Commits
  BY DEF Listed
<1> DEFINE X == {d \in Newer(c) \cup {c} : d \notin Newest}
<1>2. PICK m \in X : \A d \in X : d \notin Newer(m)
  <2>1. X \in SUBSET Commits /\ X # {}
    BY <1>1, NewerTyped DEF Listed
  <2> HIDE DEF X
  <2> QED BY <2>1, SomeNewest
<1>3. m \in Commits /\ m \in Listed /\ m \notin Newest
  BY <1>1, NewerTyped DEF Listed
<1>4. Cardinality(Newer(m)) >= KeepReleases
  BY <1>3, NotNewest
<1>5. Newer(m) \subseteq Newer(c) \cap Newest
  <2>1. Newer(m) \subseteq Newer(c)
    <3>1. \A e \in Commits : manifest[e] \in Nat
      BY NewerTyped
    <3>2. m = c \/ m \in Newer(c)
      OBVIOUS
    <3> QED BY <1>1, <1>3, <3>1, <3>2 DEF Newer
  <2> QED BY <1>2, <2>1
<1>6. IsFiniteSet(Newer(c) \cap Newest)
  BY <1>1, NewerTyped, FS_Subset
<1>7. Cardinality(Newer(m)) <= Cardinality(Newer(c) \cap Newest)
  BY <1>5, <1>6, FS_Subset
<1>8. Cardinality(Newer(c) \cap Newest) \in Nat /\ Cardinality(Newer(m)) \in Nat
  BY <1>3, <1>6, NewerTyped, FS_CardinalityType
<1> QED BY <1>4, <1>7, <1>8, KeepAssumption

(* Cleanup is planned when a release completes.                            *)
LEMMA CommitTidy ==
    ASSUME Typed, Tidy, NEW release \in Job, Commit(release)
    PROVE  Tidy'
<1>1. /\ UNCHANGED <<dir, manifest, clock, link>> /\ pc' = "cleanup"
      /\ todo' = Listed \ Kept(current', previous', left')
  BY DEF Commit, GoTo, disk, Listed
<1>2. todo' \cap Needed' = {} /\ todo' \cap Newest = {} /\ todo' \subseteq Listed
  <2>1. /\ todo' \cap {current', previous', link} = {} /\ todo' \cap NeededBy(left') = {}
        /\ todo' \cap Newest = {} /\ todo' \subseteq Listed
    BY <1>1 DEF Kept
  <2>2. NoCommit \notin todo'
    BY <2>1, CommitAssumption DEF Listed
  <2>3. active'.release.candidate = NoCommit /\ active'.release.baseline = NoCommit
    BY DEF Commit, NoActive, NoJob
  <2>4. NeededBy(left \cup {active.release})' = NeededBy(left') \cup {NoCommit}
    BY <2>3 DEF NeededBy
  <2> QED BY <1>1, <2>1, <2>2, <2>4 DEF Needed
<1>3. ASSUME NEW c \in todo'
      PROVE  Cardinality(Newer(c)' \ todo') >= KeepReleases
  <2>1. c \in Commits /\ c \in Listed /\ c \notin Newest
    BY <1>2 DEF Listed
  <2>2. Newer(c) \cap Newest \subseteq Newer(c) \ todo'
    BY <1>2
  <2>3. IsFiniteSet(Newer(c)) /\ IsFiniteSet(Newer(c) \ todo')
    BY <2>1, NewerTyped, FS_Subset DEF Tidy
  <2>4. /\ IsFiniteSet(Newer(c) \cap Newest)
        /\ Cardinality(Newer(c) \cap Newest) <= Cardinality(Newer(c) \ todo')
    BY <2>2, <2>3, FS_Subset
  <2>5. /\ Cardinality(Newer(c) \cap Newest) \in Nat
        /\ Cardinality(Newer(c) \ todo') \in Nat
    BY <2>3, <2>4, FS_CardinalityType
  <2>6. Cardinality(Newer(c) \cap Newest) >= KeepReleases
    BY <2>1, NewestFill DEF Tidy
  <2>7. Newer(c)' = Newer(c)
    BY <1>1 DEF Newer
  <2> QED BY <2>4, <2>5, <2>6, <2>7, KeepAssumption
<1>4. IsFiniteSet(Listed')
  BY <1>1 DEF Tidy, Listed
<1> QED BY <1>1, <1>2, <1>3, <1>4 DEF Tidy, Spared, Preparing

(* Outside cleanup nothing is planned.                                     *)
LEMMA StaysTidy ==
    ASSUME Tidy, todo' = {}, IsFiniteSet(Listed'),
           pc' \in Preparing => Candidate' \in Commits,
           pc' = "remove" => dir'[Candidate'] # "whole"
    PROVE  Tidy'
BY DEF Tidy, Spared

LEMMA SameListed ==
    ASSUME Tidy, UNCHANGED manifest
    PROVE  IsFiniteSet(Listed')
BY DEF Tidy, Listed

LEMMA EnteringTidy ==
    ASSUME Typed, Tidy, Entering
    PROVE  Tidy'
<1>1. todo' = {} /\ UNCHANGED manifest
  BY DEF Entering, Apply, Restore, CommandFails, Typed, TypeOK, disk
<1>2. pc' # "remove" /\ (pc' \in Preparing => Candidate' \in Commits)
  <2> USE DEF GoTo, Candidate, Preparing
  <2>1. ASSUME NEW c \in Commits, Begin(c) PROVE Candidate' = c
    BY <2>1 DEF Begin, Release
  <2>2. ASSUME NEW c \in Commits, Apply(c)
        PROVE  (Begin(c) /\ pc' = "prepare") \/ pc' = "idle"
    BY <2>2 DEF Apply
  <2>3. Restore => undoable.baseline \in Commits /\ Begin(undoable.baseline) /\ pc' = "verify"
    BY DEF Restore, Typed, TypeOK, Job, Optional
  <2>4. ASSUME NEW release \in staged, CommandFails(release) PROVE pc' = "restore"
    BY <2>4 DEF CommandFails
  <2> QED BY <2>1, <2>2, <2>3, <2>4 DEF Entering
<1> QED BY <1>1, <1>2, StaysTidy, SameListed

LEMMA PreparingTidy ==
    ASSUME Typed, Tidy, PreparingSteps
    PROVE  Tidy'
<1>1. todo' = {} /\ pc \in Preparing /\ Candidate \in Commits
  BY DEF PreparingSteps, Reuse, Discard, Discarded, Build, WriteManifest, Fail,
     VerifyCandidate, Keeping, Preparing, Typed, TypeOK, Tidy
<1>2. CASE Reuse \/ Discarded \/ Build \/ Fail \/ VerifyCandidate
  <2>1. /\ UNCHANGED manifest /\ pc' # "remove"
        /\ pc' \in Preparing => Candidate' = Candidate
    BY <1>2 DEF Reuse, Discarded, Build, Fail, VerifyCandidate, Keeping, Candidate,
       GoTo, disk, Preparing
  <2> QED BY <1>1, <2>1, StaysTidy, SameListed
<1>3. CASE Discard
  <2>1. UNCHANGED manifest /\ Candidate' = Candidate
    BY <1>3 DEF Discard, Keeping, Candidate
  <2>2. pc' = "remove" => dir'[Candidate] # "whole"
    BY <1>1, <1>3 DEF Discard, GoTo, Typed, TypeOK
  <2> QED BY <1>1, <2>1, <2>2, StaysTidy, SameListed
<1>4. CASE WriteManifest
  <2>1. pc' = "verify" /\ Candidate' = Candidate
    BY <1>4 DEF WriteManifest, Keeping, Candidate, GoTo
  <2>2. IsFiniteSet(Listed')
    <3>1. Listed' \subseteq Listed \cup {Candidate}
      BY <1>4 DEF WriteManifest, Listed, Typed, TypeOK
    <3> QED BY <3>1, FS_AddElement, FS_Subset DEF Tidy
  <2> QED BY <1>1, <2>1, <2>2, StaysTidy
<1> QED BY <1>2, <1>3, <1>4 DEF PreparingSteps

LEMMA SwitchingTidy ==
    ASSUME Typed, Tidy, SwitchingSteps
    PROVE  Tidy'
<1>1. CASE \/ Switch \/ ActivateFails \/ CommitGitStage \/ RestoreLocal
           \/ Restored \/ Uncertain
  <2>1. todo' = {} /\ UNCHANGED manifest /\ pc' \notin Preparing
    BY <1>1 DEF Switch, ActivateFails, CommitGitStage, RestoreLocal, Restored, Uncertain,
       Typed, TypeOK, GoTo, disk, Preparing
  <2> QED BY <2>1, StaysTidy, SameListed DEF Preparing
<1>2. CASE Activate \/ \E release \in staged : Reload(release)
  BY <1>2, CommitTidy DEF Activate, Reload, Typed, TypeOK
<1> QED BY <1>1, <1>2 DEF SwitchingSteps

LEMMA StartTidy ==
    ASSUME Typed, Tidy, StartSteps
    PROVE  Tidy'
<1>1. CASE Crash \/ Start \/ RecoverBack
  <2>1. todo' = {} /\ UNCHANGED manifest /\ pc' \notin Preparing
    BY <1>1 DEF Crash, Start, RecoverBack, Typed, TypeOK, GoTo, disk, Preparing
  <2> QED BY <2>1, StaysTidy, SameListed DEF Preparing
<1>2. CASE RecoverForward
  BY <1>2, CommitTidy DEF RecoverForward, Active, Typed, TypeOK
<1> QED BY <1>1, <1>2 DEF StartSteps

(* A manifest that goes is not one of those that spare the others.         *)
LEMMA CleaningTidy ==
    ASSUME Typed, Tidy, CleaningSteps
    PROVE  Tidy'
<1>1. CASE CleanupEnds \/ \E c \in Commits : Drift(c)
  <2>1. todo' = {} /\ UNCHANGED manifest /\ pc' \notin Preparing
    BY <1>1 DEF CleanupEnds, Drift, Typed, TypeOK, GoTo, Preparing
  <2> QED BY <2>1, StaysTidy, SameListed DEF Preparing
<1>2. ASSUME NEW c \in Commits, RemoveSnapshot(c) \/ SnapshotRemoved(c)
      PROVE  Tidy'
  <2>1. UNCHANGED <<manifest, link, current, previous, active, left, todo>> /\ pc' \notin Preparing
    BY <1>2 DEF RemoveSnapshot, SnapshotRemoved, Rest, state, GoTo, Preparing
  <2> QED BY <2>1 DEF Tidy, Spared, Listed, Newer, Needed, NeededBy, Preparing
<1>3. ASSUME NEW c \in Commits, RemoveManifest(c)
      PROVE  Tidy'
  <2>1. /\ manifest' = [manifest EXCEPT ![c] = 0] /\ todo' = todo \ {c} /\ c \in todo
        /\ UNCHANGED <<link, current, previous, active, left>> /\ pc' \notin Preparing
    BY <1>3 DEF RemoveManifest, NextInLine, Rest, state, GoTo, Preparing
  <2>2. manifest \in [Commits -> Nat]
    BY DEF Typed, TypeOK
  <2>3. IsFiniteSet(Listed')
    <3>1. Listed' \in SUBSET Listed
      BY <2>1, <2>2 DEF Listed
    <3> QED BY <3>1, FS_Subset DEF Tidy
  <2>4. ASSUME NEW d \in todo'
        PROVE  Cardinality(Newer(d)' \ todo') >= KeepReleases
    <3>1. d \in todo /\ d \in Commits /\ d # c
      BY <2>1 DEF Typed, TypeOK
    <3>2. Newer(d)' \ todo' = Newer(d) \ todo
      BY <2>1, <2>2, <3>1 DEF Newer
    <3> QED BY <3>1, <3>2 DEF Tidy, Spared
  <2> QED BY <2>1, <2>3, <2>4 DEF Tidy, Spared, Needed, NeededBy, Preparing
<1> QED BY <1>1, <1>2, <1>3 DEF CleaningSteps

LEMMA TidyStep == Typed /\ Tidy /\ [Next]_vars => Tidy'
<1> SUFFICES ASSUME Typed, Tidy, [Next]_vars PROVE Tidy'
  OBVIOUS
<1>1. CASE UNCHANGED vars
  BY <1>1 DEF vars, Tidy, Spared, Listed, Newer, Needed, NeededBy, Candidate
<1>2. CASE Next
  BY <1>2, NextSplit, EnteringTidy, PreparingTidy, SwitchingTidy, CleaningTidy, StartTidy
<1> QED BY <1>1, <1>2

(* What is needed is not on the plan of cleanup.                           *)
LEMMA PlanSpares ==
    ASSUME Typed, Tidy, NEW c \in todo
    PROVE  c \notin Retained
<1>1. c \in Commits /\ c \notin Needed
  BY DEF Tidy, Spared, Typed, TypeOK
<1>2. c \notin Newest
  <2>1. c \in Newest => Cardinality(Newer(c)) < KeepReleases
    BY Zenon DEF Newest, Newer
  <2>2. Cardinality(Newer(c) \ todo) >= KeepReleases
    BY DEF Tidy, Spared
  <2>3. IsFiniteSet(Newer(c)) /\ Newer(c) \ todo \in SUBSET Newer(c)
    BY <1>1, NewerTyped DEF Tidy
  <2>4. /\ Cardinality(Newer(c) \ todo) <= Cardinality(Newer(c))
        /\ Cardinality(Newer(c) \ todo) \in Nat /\ Cardinality(Newer(c)) \in Nat
    BY <2>3, FS_Subset, FS_CardinalityType
  <2> QED BY <2>1, <2>2, <2>4, KeepAssumption
<1> QED BY <1>1, <1>2 DEF Retained, Needed

LEMMA KeepStep ==
    ASSUME Typed, Tidy, drifts \in Nat, [Next]_vars, drifts' = drifts,
           NEW c \in Retained \ {NoCommit}, dir[c] = "whole", manifest[c] # 0
    PROVE  dir'[c] = "whole"
<1>1. c \in Commits
  <2>1. Newest \subseteq Commits
    BY DEF Newest
  <2>2. left \cup {active.release} \subseteq Job
    BY DEF Typed, TypeOK, Active
  <2>3. NeededBy(left \cup {active.release}) \subseteq Optional
    BY <2>2 DEF NeededBy, Job
  <2> QED BY <2>1, <2>3 DEF Retained, Typed, TypeOK, Optional
<1>2. dir \in [Commits -> {"none", "part", "whole"}]
  BY DEF Typed, TypeOK
<1>3. CASE Entering \/ SwitchingSteps \/ StartSteps \/ UNCHANGED vars \/ CleanupEnds
  <2>1. UNCHANGED dir
    BY <1>3 DEF Entering, Apply, Restore, CommandFails, SwitchingSteps, Switch, Activate,
       ActivateFails, CommitGitStage, RestoreLocal, Restored, Uncertain, Reload, Commit,
       StartSteps, Crash, Start, RecoverForward, RecoverBack, CleanupEnds, disk, vars
  <2> QED BY <2>1
<1>4. CASE PreparingSteps
  <2>1. CASE Discard \/ Discarded
    <3>1. /\ \/ dir' = dir \/ \E x : dir' = [dir EXCEPT ![Candidate] = x]
          /\ ~Verified(Candidate)
      BY <2>1, DiscardDamaged DEF Discard, Discarded, Tidy, Verified
    <3>2. c # Candidate
      BY <3>1 DEF Verified
    <3> QED BY <1>1, <1>2, <3>1, <3>2
  <2>2. CASE Build
    BY <1>1, <1>2, <2>2 DEF Build
  <2>3. CASE Reuse \/ WriteManifest \/ Fail \/ VerifyCandidate
    BY <2>3 DEF Reuse, WriteManifest, Fail, VerifyCandidate, disk
  <2> QED BY <1>4, <2>1, <2>2, <2>3 DEF PreparingSteps
<1>5. ASSUME NEW d \in Commits, RemoveSnapshot(d) \/ SnapshotRemoved(d) \/ RemoveManifest(d)
      PROVE  dir'[c] = "whole"
  <2>1. c # d
    BY <1>5, PlanSpares DEF RemoveSnapshot, SnapshotRemoved, RemoveManifest, NextInLine
  <2> QED BY <1>1, <1>2, <1>5, <2>1 DEF RemoveSnapshot, SnapshotRemoved, RemoveManifest
<1>6. ASSUME NEW d \in Commits
      PROVE  ~Drift(d)
  <2>1. Drift(d) => drifts' = drifts + 1
    BY DEF Drift
  <2> QED BY <2>1
<1> QED BY <1>3, <1>4, <1>5, <1>6, NextSplit DEF CleaningSteps

(* The service never harms an intact snapshot that something may return    *)
(* to, nor one of the newest keep_releases: neither the rebuilding of a    *)
(* directory nor a cleanup that was planned when others were newer.        *)
THEOREM NeededIsKept == Spec => RetainedKept
<1>1. Init => Tidy
  <2> SUFFICES ASSUME Init PROVE Tidy
    OBVIOUS
  <2>1. IsFiniteSet(Listed)
    <3>1. Listed = {}
      BY DEF Init, Listed
    <3> QED BY <3>1, FS_EmptySet
  <2> QED BY <2>1 DEF Init, Tidy, Spared, Preparing
<1>2. Typed /\ Tidy /\ Undisturbed /\ [Next]_vars =>
        [drifts' = drifts =>
           \A c \in Retained \ {NoCommit} :
               dir[c] = "whole" /\ manifest[c] # 0 => dir'[c] = "whole"]_vars
  BY KeepStep DEF Undisturbed
<1> QED BY <1>1, <1>2, AlwaysTyped, AlwaysUndisturbed, TidyStep, PTL DEF Spec, RetainedKept
=============================================================================
