----------------------------- MODULE Publisher ------------------------------
(***************************************************************************)
(* The release transaction of one target: Runner of the publisher package, *)
(* from the request accepted under the node lock to the state file, the    *)
(* latest symlink and nginx.  NodeLock shows that one writer works on the  *)
(* node at a time, so the handler that holds the lock is a single thread   *)
(* here; crashes, failed writes and readers that take no lock happen at    *)
(* any of its steps.                                                       *)
(*                                                                         *)
(* A version is its commit: source repository, digest, files and the link  *)
(* releases/<commit> follow from it.  NoCommit is "no version" and, for    *)
(* latest, the absent link.  Revisions are random identifiers in the code  *)
(* and only compared; here they are numbered in the order of their birth,  *)
(* and 0 is a revision not given.  The activation status is left out: it   *)
(* is reload_requested exactly for a succeeded record in phase complete.   *)
(***************************************************************************)
EXTENDS Naturals, FiniteSets

CONSTANTS Commits, NoCommit,    \* published commits; no version
          Releases, NoRelease,  \* release_id values; no release
          Ops,                  \* the requests clients send
          Faults,               \* the kinds of failure that may happen
          MaxFaults, MaxCrashes \* how many failures and crashes may happen

ASSUME NoCommitAssumption == NoCommit \notin Commits
ASSUME NoReleaseAssumption == NoRelease \notin Releases

VARIABLES disk,    \* the state file of the target
          link,    \* what latest points at
          loaded,  \* the version nginx read at its last reload
          passed,  \* the versions a nginx -t has accepted
          view,    \* Runner.views: the copy published to readers
          blocked, \* Runner.blocked
          st,      \* the handler's working copy of the state
          pc,      \* where the handler stands; "idle" serving, "off" down
          rel, op, \* the release and the operation it works on
          ticket,  \* a rollback request put together without the lock
          told,    \* the terminal status last answered for each release
          minted,  \* revisions handed out so far
          adrift,  \* latest may differ from current with nobody to tell
          faults, crashes

transaction == <<st, pc, rel, op>>
nginx == <<loaded, passed>>
history == <<minted, adrift, crashes>>
rest == <<blocked, ticket, told, history>>
vars == <<disk, link, loaded, passed, view, blocked, st, pc, rel, op, ticket,
          told, minted, adrift, faults, crashes>>

Versions == Commits \cup {NoCommit}
Terminal == {"succeeded", "skipped", "failed"}
Statuses == {"absent", "running", "recovery_required"} \cup Terminal
ResumableNginxPhase == {"latest_switched", "nginx_test", "nginx_test_succeeded",
                        "reload", "verify_activation"}
Phases == {"accepted", "verify_baseline", "prepare", "switch_intent", "switch",
           "complete", "restored"} \cup ResumableNginxPhase

(* The fields of a request the transaction depends on; two requests with   *)
(* one release_id have one fingerprint iff these agree.                    *)
Request == [commit : Versions, restoreOf : Releases \cup {NoRelease},
            expected : Nat]
NoRequest == [commit |-> NoCommit, restoreOf |-> NoRelease, expected |-> 0]

Record == [status : Statuses, request : Request, baseline : Versions,
           baselinePrevious : Versions, candidate : Versions, intent : BOOLEAN,
           tested : BOOLEAN, phase : Phases, after : Nat]
NoRecord == [status |-> "absent", request |-> NoRequest, baseline |-> NoCommit,
             baselinePrevious |-> NoCommit, candidate |-> NoCommit,
             intent |-> FALSE, tested |-> FALSE, phase |-> "accepted", after |-> 0]

TargetState == [revision : Nat, current : Versions, previous : Versions,
                active : Releases \cup {NoRelease}, recovery : BOOLEAN,
                records : [Releases -> Record]]

(* state.New on an empty directory.                                        *)
NewState == [revision |-> 1, current |-> NoCommit, previous |-> NoCommit,
             active |-> NoRelease, recovery |-> FALSE,
             records |-> [r \in Releases |-> NoRecord]]

Init == /\ disk = NewState /\ view = NewState /\ st = NewState
        /\ link = NoCommit /\ loaded = NoCommit /\ passed = {}
        /\ blocked = FALSE
        /\ pc = "idle" /\ rel = NoRelease /\ op = "none"
        /\ ticket = NoRequest
        /\ told = [r \in Releases |-> "none"]
        /\ minted = 1
        /\ adrift = FALSE
        /\ faults = 0 /\ crashes = 0

-----------------------------------------------------------------------------
(* Failures, and the two ways a handler writes the state.                  *)

Fault(kind) == /\ kind \in Faults
               /\ faults < MaxFaults
               /\ faults' = faults + 1

(* store.Save reaches the disk and the views, or reports an error: the     *)
(* rename may have happened even so (a failed fsync of the directory), and *)
(* the views keep what they had.                                           *)
Save(s) == /\ disk' = s /\ view' = s /\ st' = s
           /\ UNCHANGED faults
SaveFails(s) == /\ Fault("save")
                /\ disk' \in {disk, s}
                /\ st' = s
                /\ UNCHANGED view

Persist(s, next, onError) == \/ Save(s) /\ pc' = next
                             \/ SaveFails(s) /\ pc' = onError

(* The handler returns: the lock is released and the result is answered.   *)
(* A recovery at startup has nobody to answer.                             *)
Return(s) == /\ pc' = "idle" /\ rel' = NoRelease /\ op' = "none"
             /\ told' = IF op # "startup" /\ s.records[rel].status \in Terminal
                        THEN [told EXCEPT ![rel] = s.records[rel].status]
                        ELSE told

(* Mutant: the result is returned although the save failed.                *)
FinishUnsaved(s) == (Save(s) \/ SaveFails(s)) /\ Return(s)

(* Mutant: the handler's record is not let go of.                          *)
FinishKeepingRelease(s) ==
    \/ /\ Save(s)
       /\ pc' = "idle" /\ op' = "none"
       /\ UNCHANGED <<rel, told>>
    \/ SaveFails(s) /\ pc' = "uncertain" /\ UNCHANGED <<rel, op, told>>

(* Save a final result and return it; if that fails, it is uncertain.      *)
Finish(s) == \/ Save(s) /\ Return(s)
             \/ /\ SaveFails(s)
                /\ pc' = "uncertain"
                /\ UNCHANGED <<rel, op, told>>

Goto(next) == /\ pc' = next
              /\ UNCHANGED <<st, rel, op>>

-----------------------------------------------------------------------------
(* Accepting a request.                                                    *)

Idle == pc = "idle"
Ready == Idle /\ ~blocked
Serving == pc # "off" /\ op # "startup"

(* The locked part of duplicate: a new release_id, or the same request for *)
(* one that was left recovery_required, which runs again.                  *)
Admitted(r, q) == \/ disk.records[r].status = "absent"
                  \/ /\ disk.records[r].status = "recovery_required"
                     /\ disk.records[r].request = q

(* expected_state_revision, and the checks of restore_of: the release to   *)
(* undo succeeded, and nothing happened to the target since.               *)
StillHolds(q) == /\ q.expected \in {0, disk.revision}
                 /\ q.restoreOf # NoRelease =>
                        LET original == disk.records[q.restoreOf] IN
                        /\ original.status = "succeeded"
                        /\ original.after = disk.revision
                        /\ original.baseline # NoCommit
                        /\ disk.current = original.candidate
                        /\ q.commit = original.baseline

(* Mutant: the superseded record is left as it was.                        *)
TakeoverSilently(r) == [disk EXCEPT !.active = NoRelease, !.recovery = FALSE]

(* takeover: an unfinished release gives way to r, marks are cleared.      *)
Takeover(r) ==
    LET old == disk.active
        cleared == [disk EXCEPT !.active = NoRelease, !.recovery = FALSE]
    IN IF old \notin {NoRelease, r} /\ disk.records[old].status \notin Terminal
       THEN [cleared EXCEPT !.records[old] = [@ EXCEPT !.status = "failed"]]
       ELSE cleared

NewRecord(q) ==
    [NoRecord EXCEPT !.status = "running", !.request = q,
                     !.baseline = disk.current,
                     !.baselinePrevious = disk.previous,
                     !.after = disk.revision]

Accept(r, q, o) ==
    /\ Ready
    /\ Admitted(r, q)
    /\ StillHolds(q)
    /\ Persist([Takeover(r) EXCEPT !.records[r] = NewRecord(q), !.active = r],
               "open", "uncertain")
    /\ rel' = r /\ op' = o
    /\ UNCHANGED <<link, nginx, blocked, told, history>>

(* A publication.  One that carries an expected revision is refused or     *)
(* does as this one, which carries none.                                   *)
Publish(r, c, o) == /\ o \in Ops \cap {"apply", "stage"}
                    /\ Accept(r, [NoRequest EXCEPT !.commit = c], o)
                    /\ UNCHANGED ticket

(* A batch client undoes release original: apply with restore_of.          *)
RestoreOf(r, original) ==
    /\ "restore" \in Ops
    /\ Accept(r, [commit |-> disk.records[original].baseline,
                  restoreOf |-> original, expected |-> disk.revision], "stage")
    /\ UNCHANGED ticket

(* RollbackCurrent reads the state file without a lock, at any moment of a *)
(* transaction, and names the release r that made the current pair.        *)
ReadRollback(r) ==
    /\ "rollback" \in Ops /\ Serving /\ ticket = NoRequest
    /\ disk.current # NoCommit /\ disk.previous # NoCommit
    /\ LET record == disk.records[r] IN
       /\ record.status = "succeeded" /\ record.phase = "complete"
       /\ record.after = disk.revision
       /\ record.candidate = disk.current /\ record.baseline = disk.previous
    /\ ticket' = [commit |-> disk.previous, restoreOf |-> r,
                  expected |-> disk.revision]
    /\ UNCHANGED <<disk, link, nginx, view, blocked, transaction,
                   told, history, faults>>

(* What it read is then staged under a new release_id like any request ... *)
StageRollback(r) == /\ ticket # NoRequest
                    /\ disk.records[r].status = "absent"
                    /\ Accept(r, ticket, "stage")
                    /\ ticket' = NoRequest

(* ... or refused: the node is busy or blocked, or the revision moved on.  *)
RefuseRollback == /\ ticket # NoRequest /\ Serving
                  /\ ~Ready \/ ~StillHolds(ticket)
                  /\ ticket' = NoRequest
                  /\ UNCHANGED <<disk, link, nginx, view, blocked, transaction,
                   told, history, faults>>

(* duplicate, without the lock: a finished release_id is answered from the *)
(* views whatever the handler is doing.                                    *)
Replay(r) == /\ Serving
             /\ view.records[r].status \in Terminal
             /\ told' = [told EXCEPT ![r] = view.records[r].status]
             /\ UNCHANGED <<disk, link, nginx, view, blocked, transaction,
                            ticket, history, faults>>

(* A blocked Runner refuses, after it has loaded the views from disk.      *)
RefuseBlocked == /\ Idle /\ blocked
                 /\ view' = disk
                 /\ UNCHANGED <<disk, link, nginx, transaction, rest, faults>>

(* load fails: the Runner blocks itself.                                   *)
LoadFails == /\ Ready
             /\ Fault("load")
             /\ blocked' = TRUE
             /\ UNCHANGED <<disk, link, nginx, view, transaction,
                            ticket, told, history>>

-----------------------------------------------------------------------------
(* The steps of a transaction.  Each phase is saved before it is run.      *)

Rec == st.records[rel]
WithPhase(name) == [st EXCEPT !.records[rel] = [@ EXCEPT !.phase = name]]

SavePhase(at, name, next, onError) ==
    /\ pc = at
    /\ Persist(WithPhase(name), next, onError)
    /\ UNCHANGED <<link, nginx, rel, op, rest>>

(* A step that fails goes on to the given error path.                      *)
StepFails(kind, onError) ==
    /\ Fault(kind)
    /\ Goto(onError)
    /\ UNCHANGED <<disk, link, nginx, view, rest>>

OpenTarget ==
    /\ pc = "open"
    /\ \/ /\ Goto("verify_baseline")
          /\ UNCHANGED <<disk, link, nginx, view, rest, faults>>
       \/ StepFails("target", "fail")

SaveVerifyBaseline ==
    SavePhase("verify_baseline", "verify_baseline", "compare", "uncertain")

(* The client hung up, or the time is over: nothing was touched yet.       *)
CancelBaseline == pc = "compare" /\ StepFails("target", "fail")

(* The request names the current version: latest points at it, and its     *)
(* snapshot verifies.                                                      *)
NamesLiveVersion == /\ st.current = Rec.request.commit
                    /\ link = st.current

(* A succeeded release of that version which nginx has not finished with.  *)
Resumable == {r \in Releases :
                 /\ st.records[r].status = "succeeded"
                 /\ st.records[r].phase \in ResumableNginxPhase
                 /\ st.records[r].candidate = Rec.request.commit}

(* The result of that release is answered in place of this one's.          *)
AnswerResumable ==
    /\ pc = "compare"
    /\ NamesLiveVersion
    /\ \E r \in Resumable : told' = [told EXCEPT ![r] = "succeeded"]
    /\ pc' = "idle" /\ rel' = NoRelease /\ op' = "none"
    /\ UNCHANGED <<disk, link, nginx, view, blocked, st, ticket, history, faults>>

(* Nothing to do: the request is skipped.                                  *)
Skip == /\ pc = "compare"
        /\ NamesLiveVersion
        /\ Resumable = {}
        /\ Goto("skip")
        /\ UNCHANGED <<disk, link, nginx, view, rest, faults>>

Skipped == [st EXCEPT !.active = NoRelease,
                      !.records[rel] = [@ EXCEPT !.status = "skipped",
                                                 !.phase = "complete"]]

SaveSkipped == /\ pc = "skip"
               /\ Finish(Skipped)
               /\ UNCHANGED <<link, nginx, blocked, ticket, history>>

(* Another version, or one whose snapshot does not verify.                 *)
GoOn == /\ pc = "compare"
        /\ \/ /\ ~NamesLiveVersion
              /\ Goto("prepare")
              /\ UNCHANGED <<disk, link, nginx, view, rest, faults>>
           \/ /\ NamesLiveVersion
              /\ StepFails("prepare", "prepare")

(* fetch or oras_pull, prepare_snapshot and verify_candidate are saved and *)
(* run one after the other; all of them fail the same way, so they are one *)
(* phase here.  A restore_of takes the recorded baseline as candidate.     *)
SavePrepare == SavePhase("prepare", "prepare", "run_prepare", "fail")

Prepared == [st EXCEPT !.records[rel] =
                           [@ EXCEPT !.candidate = Rec.request.commit]]

RunPrepare ==
    /\ pc = "run_prepare"
    /\ \/ /\ st' = Prepared
          /\ pc' = "switch_intent"
          /\ UNCHANGED <<disk, link, nginx, view, rel, op, rest, faults>>
       \/ StepFails("prepare", "fail")

WithIntent == [st EXCEPT !.records[rel] = [@ EXCEPT !.intent = TRUE,
                                                    !.phase = "switch_intent"]]

(* Mutant: the intent is noted, and saved with the next phase.             *)
SaveIntentLater ==
    /\ pc = "switch_intent"
    /\ st' = WithIntent
    /\ pc' = "switch"
    /\ UNCHANGED <<disk, link, nginx, view, rel, op, rest, faults>>

SaveIntent == /\ pc = "switch_intent"
              /\ Persist(WithIntent, "save_switch", "uncertain")
              /\ UNCHANGED <<link, nginx, rel, op, rest>>

SaveSwitch == SavePhase("save_switch", "switch", "switch", "restore")

(* Rename a fresh symlink over latest.  An error may come after the rename.*)
Switch ==
    /\ pc = "switch"
    /\ \/ /\ link' = Rec.candidate
          /\ Goto(IF op = "stage" THEN "commit_stage" ELSE "save_test")
          /\ UNCHANGED faults
       \/ /\ Fault("switch")
          /\ link' \in {link, Rec.candidate}
          /\ Goto("restore")
    /\ UNCHANGED <<disk, nginx, view, rest>>

SaveTest == SavePhase("save_test", "nginx_test", "test", "restore")

(* Mutant: nginx -t is believed to have passed when it could not run.      *)
NginxTestIgnored ==
    /\ pc = "test"
    /\ \/ /\ passed' = passed \cup {link}
          /\ UNCHANGED faults
       \/ /\ Fault("nginx")
          /\ UNCHANGED passed
    /\ Goto(CASE op = "apply" -> "save_reload"
              [] op = "test" -> "tested"
              [] OTHER -> "reload")
    /\ UNCHANGED <<disk, link, loaded, view, rest>>

(* nginx -t on what latest points at.                                      *)
NginxTest ==
    /\ pc = "test"
    /\ \/ /\ passed' = passed \cup {link}
          /\ Goto(CASE op = "apply" -> "save_reload"
                    [] op = "test" -> "tested"
                    [] OTHER -> "reload")
          /\ UNCHANGED <<disk, link, loaded, view, rest, faults>>
       \/ StepFails("nginx", "restore")

SaveReload == SavePhase("save_reload", "reload", "reload", "restore")

(* Mutant: the error of nginx -s reload is dropped.                        *)
NginxReloadIgnored ==
    /\ pc = "reload"
    /\ \/ /\ loaded' = link
          /\ UNCHANGED faults
       \/ /\ Fault("nginx")
          /\ loaded' \in {loaded, link}
    /\ Goto(IF op = "startup" THEN "verify" ELSE "save_verify")
    /\ UNCHANGED <<disk, link, passed, view, rest>>

(* nginx -s reload; a timeout may come after the signal was sent.          *)
NginxReload ==
    /\ pc = "reload"
    /\ \/ /\ loaded' = link
          /\ Goto(IF op = "startup" THEN "verify" ELSE "save_verify")
          /\ UNCHANGED faults
       \/ /\ Fault("nginx")
          /\ loaded' \in {loaded, link}
          /\ Goto("restore")
    /\ UNCHANGED <<disk, link, passed, view, rest>>

SaveVerify == SavePhase("save_verify", "verify_activation", "verify", "restore")

(* The snapshot, the health checks and the retained assets.                *)
VerifyActivation ==
    /\ pc = "verify"
    /\ \/ /\ Goto("commit")
          /\ UNCHANGED <<disk, link, nginx, view, rest, faults>>
       \/ StepFails("nginx", "restore")

-----------------------------------------------------------------------------
(* The ends of a transaction.                                              *)

(* A new revision; latest and the pair agree.                              *)
Settle == /\ minted' = minted + 1
          /\ adrift' = FALSE

(* Mutant: what is current becomes previous, at every commit.              *)
SucceededShifting(phase) ==
    [st EXCEPT !.revision = minted + 1,
               !.previous = st.current,
               !.current = Rec.candidate,
               !.active = NoRelease,
               !.recovery = FALSE,
               !.records[rel].status = "succeeded",
               !.records[rel].phase = phase,
               !.records[rel].after = minted + 1]

(* The pair moves on to the candidate under a new revision.                *)
Succeeded(phase) ==
    [revision |-> minted + 1,
     current  |-> Rec.candidate,
     previous |-> Rec.baseline,
     active   |-> NoRelease,
     recovery |-> FALSE,
     records  |-> [st.records EXCEPT ![rel] = [@ EXCEPT !.status = "succeeded",
                                                        !.phase = phase,
                                                        !.after = minted + 1]]]

(* Mutant: the pair moves on, the revision stays.                          *)
CommitUnderOldRevision ==
    /\ pc = "commit"
    /\ Settle
    /\ Finish([Succeeded("complete") EXCEPT !.revision = st.revision])
    /\ UNCHANGED <<link, nginx, blocked, ticket, crashes>>

(* commit.  The cleanup that follows may save a warning; it changes        *)
(* nothing that is modelled.                                               *)
Commit == /\ pc = "commit"
          /\ Settle
          /\ Finish(Succeeded("complete"))
          /\ UNCHANGED <<link, nginx, blocked, ticket, crashes>>

(* Mutant: a release that is staged gets its revision with the reload.     *)
StageUnderOldRevision ==
    /\ pc = "commit_stage"
    /\ Settle
    /\ Finish([Succeeded("latest_switched") EXCEPT !.revision = st.revision])
    /\ UNCHANGED <<link, nginx, blocked, ticket, crashes>>

(* commitGitStage: done for now, without nginx.                            *)
CommitGitStage == /\ pc = "commit_stage"
                  /\ Settle
                  /\ Finish(Succeeded("latest_switched"))
                  /\ UNCHANGED <<link, nginx, blocked, ticket, crashes>>

Tested == [st EXCEPT !.records[rel] =
                         [@ EXCEPT !.tested = TRUE,
                                   !.status = "succeeded",
                                   !.phase = "nginx_test_succeeded"]]

(* The end of an nginx/test request: the pair stays.                       *)
SaveTested == /\ pc = "tested"
              /\ Finish(Tested)
              /\ UNCHANGED <<link, nginx, blocked, ticket, history>>

Failed(s) == [s EXCEPT !.active = NoRelease,
                       !.recovery = FALSE,
                       !.records[rel] = [@ EXCEPT !.status = "failed"]]

Fail == /\ pc = "fail"
        /\ Finish(Failed(st))
        /\ UNCHANGED <<link, nginx, blocked, ticket, history>>

(* restoreLocal: verify the baseline's snapshot, point latest back at it,  *)
(* then nginx -t, nginx -s reload and the checks on what is live again.    *)
RestoreLink ==
    /\ pc = "restore"
    /\ \/ /\ link' = Rec.baseline
          /\ Goto("restore_test")
          /\ UNCHANGED faults
       \/ /\ Fault("recovery")
          /\ link' \in {link, Rec.baseline}
          /\ Goto("recovery_failed")
    /\ UNCHANGED <<disk, nginx, view, rest>>

RestoreTest ==
    /\ pc = "restore_test"
    /\ \/ /\ passed' = passed \cup {link}
          /\ Goto("restore_reload")
          /\ UNCHANGED <<disk, link, loaded, view, rest, faults>>
       \/ StepFails("recovery", "recovery_failed")

RestoreReload ==
    /\ pc = "restore_reload"
    /\ \/ /\ loaded' = link
          /\ Goto("restore_verify")
          /\ UNCHANGED faults
       \/ /\ Fault("recovery")
          /\ loaded' \in {loaded, link}
          /\ Goto("recovery_failed")
    /\ UNCHANGED <<disk, link, passed, view, rest>>

RestoreVerify ==
    /\ pc = "restore_verify"
    /\ \/ /\ Goto("restored")
          /\ UNCHANGED <<disk, link, nginx, view, rest, faults>>
       \/ StepFails("recovery", "recovery_failed")

(* Mutant: only the current version comes back, not the previous one.      *)
RevertedCurrentOnly(revision) ==
    [st EXCEPT !.revision = revision,
               !.current = Rec.baseline,
               !.records[rel] = [@ EXCEPT !.phase = "restored",
                                          !.after = revision]]

(* The pair of before the release.                                         *)
Reverted(revision) ==
    [st EXCEPT !.revision = revision,
               !.current = Rec.baseline,
               !.previous = Rec.baselinePrevious,
               !.records[rel] = [@ EXCEPT !.phase = "restored",
                                          !.after = revision]]

(* Mutant: the pair of before comes back, the revision stays.              *)
RestoredUnderOldRevision ==
    /\ pc = "restored"
    /\ Settle
    /\ Finish(Failed(Reverted(st.revision)))
    /\ UNCHANGED <<link, nginx, blocked, ticket, crashes>>

(* The pair of before comes back under a new revision; the release failed. *)
Restored == /\ pc = "restored"
            /\ Settle
            /\ Finish(Failed(Reverted(minted + 1)))
            /\ UNCHANGED <<link, nginx, blocked, ticket, crashes>>

(* What uncertain makes of the state.                                      *)
Undecided == [st EXCEPT !.recovery = TRUE, !.active = rel,
                        !.records[rel] = [@ EXCEPT !.status = "recovery_required"]]

(* Mutant: the Runner goes on after it could not save.                     *)
UncertainServing ==
    /\ pc \in {"uncertain", "recovery_failed"}
    /\ view' = Undecided /\ st' = Undecided
    /\ \/ disk' = Undecided /\ UNCHANGED faults
       \/ Fault("save") /\ disk' \in {disk, Undecided}
    /\ adrift' = (adrift \/ pc = "recovery_failed")
    /\ Return(Undecided)
    /\ UNCHANGED <<link, nginx, blocked, ticket, minted, crashes>>

(* uncertain: published to the readers first, then saved if that works; if *)
(* it does not, the Runner takes no more requests.                         *)
Uncertain ==
    /\ pc \in {"uncertain", "recovery_failed"}
    /\ view' = Undecided /\ st' = Undecided
    /\ \/ disk' = Undecided /\ UNCHANGED <<blocked, faults>>
       \/ Fault("save") /\ disk' \in {disk, Undecided} /\ blocked' = TRUE
    /\ adrift' = (adrift \/ pc = "recovery_failed")
    /\ Return(Undecided)
    /\ UNCHANGED <<link, nginx, ticket, minted, crashes>>

-----------------------------------------------------------------------------
(* nginx/test, nginx/reload and abort: requests on a release_id that has   *)
(* been switched, each under the lock.                                     *)

(* The release still is the current version, and latest points at it.      *)
IsCurrent(r) == /\ disk.current = disk.records[r].candidate
                /\ link = disk.records[r].candidate

(* Where the operation o on a release with this record begins.             *)
Entry(o, record) ==
    CASE o = "abort" /\ record.phase \in {"latest_switched", "nginx_test_succeeded"}
             -> "restore"
      [] o = "test" /\ record.phase \in {"latest_switched", "nginx_test"}
             -> "save_test"
      [] o = "reload" /\ record.tested
         /\ record.phase \in {"nginx_test_succeeded", "reload", "verify_activation"}
             -> "save_reload"
      [] OTHER -> "refused"

(* A command that is refused, or whose result is replayed, changes nothing *)
(* but the views, which are loaded first.                                  *)
Command(r, o) ==
    /\ o \in Ops \cap {"test", "reload", "abort"}
    /\ Ready
    /\ disk.records[r].intent
    /\ \/ /\ IsCurrent(r)
          /\ Entry(o, disk.records[r]) # "refused"
          /\ pc' = Entry(o, disk.records[r])
          /\ UNCHANGED faults
       \/ Fault("target") /\ pc' = "uncertain"
    /\ view' = disk /\ st' = disk
    /\ rel' = r /\ op' = o
    /\ UNCHANGED <<disk, link, nginx, rest>>

-----------------------------------------------------------------------------
(* Startup and crashes.                                                    *)

Recovering(next) == /\ pc' = next /\ op' = "startup" /\ rel' = disk.active

(* New: the views are loaded.  Without an active release, the snapshot of  *)
(* the current version is verified and the recovery mark says so.          *)
StartIdle ==
    /\ pc = "off" /\ disk.active = NoRelease
    /\ \/ /\ disk.current = NoCommit
          /\ view' = disk /\ st' = disk
          /\ UNCHANGED <<disk, blocked, faults>>
       \/ /\ disk.current # NoCommit
          /\ LET s == [disk EXCEPT !.recovery = FALSE]
                 unverified == [disk EXCEPT !.recovery = TRUE]
             IN \/ /\ Save(s)
                   /\ UNCHANGED blocked
                \/ /\ Fault("target")
                   /\ disk' = unverified /\ view' = unverified /\ st' = unverified
                   /\ UNCHANGED blocked
                \/ /\ Fault("save")
                   /\ disk' \in {disk, s}
                   /\ view' = disk /\ st' = disk
                   /\ blocked' = TRUE
    /\ pc' = "idle"
    /\ UNCHANGED <<link, nginx, rel, op, ticket, told, history>>

(* Mutant: an interrupted release without intent is left to the client.    *)
StartWithoutIntentServing ==
    /\ pc = "off" /\ disk.active # NoRelease /\ ~disk.records[disk.active].intent
    /\ view' = disk /\ st' = disk
    /\ pc' = "idle"
    /\ UNCHANGED <<disk, link, nginx, rel, op, rest, faults>>

(* An interrupted release without intent has switched nothing: it failed.  *)
StartWithoutIntent ==
    /\ pc = "off" /\ disk.active # NoRelease /\ ~disk.records[disk.active].intent
    /\ Recovering("fail")
    /\ view' = disk
    /\ st' = [disk EXCEPT !.recovery = FALSE]
    /\ UNCHANGED <<disk, link, nginx, rest, faults>>

(* With intent: if latest is the candidate, activate it once more and      *)
(* commit; else, or if that fails, restore the baseline.                   *)
StartWithIntent ==
    /\ pc = "off" /\ disk.active # NoRelease /\ disk.records[disk.active].intent
    /\ LET candidate == disk.records[disk.active].candidate IN
       \/ link = candidate /\ Recovering("test") /\ UNCHANGED faults
       \/ link # candidate /\ Recovering("restore") /\ UNCHANGED faults
       \/ link = candidate /\ Fault("prepare") /\ Recovering("restore")
       \/ Fault("recovery") /\ Recovering("recovery_failed")
    /\ view' = disk /\ st' = disk
    /\ UNCHANGED <<disk, link, nginx, rest>>

(* latest is not the recorded version, and no active release answers for   *)
(* that with its intent.                                                   *)
Astray == /\ link # disk.current
          /\ disk.active # NoRelease => ~disk.records[disk.active].intent

(* The process dies: what it held in memory is gone.  A clean shutdown is  *)
(* this step taken at "idle".                                              *)
Crash == /\ pc # "off"
         /\ crashes < MaxCrashes
         /\ crashes' = crashes + 1
         /\ pc' = "off" /\ rel' = NoRelease /\ op' = "none"
         /\ st' = disk /\ view' = disk
         /\ blocked' = FALSE
         /\ ticket' = NoRequest
         /\ adrift' = (adrift \/ Astray)
         /\ UNCHANGED <<disk, link, nginx, told, minted, faults>>

-----------------------------------------------------------------------------
(* What the handler, or startup, does next once it has begun.              *)
Step == \/ OpenTarget \/ SaveVerifyBaseline \/ CancelBaseline
        \/ AnswerResumable \/ Skip \/ SaveSkipped \/ GoOn
        \/ SavePrepare \/ RunPrepare \/ SaveIntent
        \/ SaveSwitch \/ Switch \/ SaveTest \/ NginxTest
        \/ SaveReload \/ NginxReload \/ SaveVerify \/ VerifyActivation
        \/ Commit \/ CommitGitStage \/ SaveTested \/ Fail
        \/ RestoreLink \/ RestoreTest \/ RestoreReload \/ RestoreVerify
        \/ Restored \/ Uncertain

Start == StartIdle \/ StartWithoutIntent \/ StartWithIntent

Next == \/ \E r \in Releases :
               \/ \E c \in Commits, o \in {"apply", "stage"} : Publish(r, c, o)
               \/ \E original \in Releases : RestoreOf(r, original)
               \/ ReadRollback(r)
               \/ StageRollback(r)
               \/ Replay(r)
               \/ \E o \in {"test", "reload", "abort"} : Command(r, o)
        \/ RefuseRollback
        \/ RefuseBlocked
        \/ LoadFails
        \/ Step
        \/ Start
        \/ Crash

Spec == Init /\ [][Next]_vars

(* Every step runs under a timeout, so a handler that has begun goes on    *)
(* and ends; systemd starts a service that died again (Restart=on-failure).*)
(* No request, failure or crash is assumed to happen.                      *)
FairSpec == Spec /\ WF_vars(Step) /\ WF_vars(Start)

-----------------------------------------------------------------------------
Pcs == {"off", "idle", "open", "verify_baseline", "compare", "skip", "prepare",
        "run_prepare", "switch_intent", "save_switch", "switch", "save_test",
        "test", "save_reload", "reload", "save_verify", "verify", "commit",
        "commit_stage", "tested", "fail", "restore", "restore_test",
        "restore_reload", "restore_verify", "restored", "uncertain",
        "recovery_failed"}

(* The types of the variables; a release is being worked on exactly while  *)
(* the handler is under way.                                               *)
TypeOK == /\ disk \in TargetState /\ view \in TargetState /\ st \in TargetState
          /\ link \in Versions /\ loaded \in Versions /\ passed \subseteq Versions
          /\ blocked \in BOOLEAN
          /\ pc \in Pcs
          /\ rel \in Releases \cup {NoRelease}
          /\ op \in {"none", "startup", "apply", "stage", "test", "reload", "abort"}
          /\ pc \in {"off", "idle"} <=> rel = NoRelease
          /\ ticket \in Request
          /\ told \in [Releases -> Terminal \cup {"none"}]
          /\ minted \in Nat /\ adrift \in BOOLEAN /\ faults \in Nat /\ crashes \in Nat

(* No transaction is pending: nobody holds the lock, no release is active, *)
(* the service is up and takes requests.                                   *)
Quiet == Ready /\ disk.active = NoRelease

(* With nothing pending, the recorded current version is the one latest    *)
(* points at and the one nginx runs: whatever failed or crashed on the     *)
(* way, apply and startup recovery brought the three together again,       *)
(* unless a recovery failed that was not made up for.                      *)
LinkMatchesRecord ==
    Quiet /\ ~adrift => link = disk.current /\ loaded = disk.current

(* A release on record as unfinished is the active one, which startup      *)
(* recovery, a retry or a takeover will finish: no record is left running  *)
(* for ever, answering RELEASE_RUNNING to its client.                      *)
UnfinishedIsActive ==
    pc \in {"idle", "off"} =>
        \A r \in Releases :
            disk.records[r].status \in {"running", "recovery_required"}
                => disk.active = r

(* A release answered succeeded or skipped is so on disk and stays so,     *)
(* whatever fails or crashes afterwards (an nginx command may still fail a *)
(* release that was staged).                                               *)
AnsweredIsDurable ==
    \A r \in Releases :
        told[r] \in {"succeeded", "skipped"} => disk.records[r].status = told[r]

(* edge-sync-agent-design-v3.md:114, 372: a request that is repeated       *)
(* is given the result it was given before, also after a restart.          *)
AnswersStand ==
    [][ \A r \in Releases : told[r] # "none" => told'[r] = told[r] ]_vars

(* A request answered skipped names a version that nginx runs, unless a    *)
(* recovery failed that was not made up for.                               *)
SkippedIsServed == pc = "skip" /\ ~adrift => loaded = Rec.request.commit

(* With no failed save unresolved, readers see what is on disk.            *)
ViewIsDurable == Ready => view = disk

(* A revision names one pair of versions: whenever the pair on disk        *)
(* changes the revision is a new one, and no old one ever returns.  The    *)
(* compare-and-set of clients and the checks of restore_of rest on it.     *)
Pair(s) == <<s.current, s.previous>>
RevisionNamesPair ==
    [][ /\ disk'.revision >= disk.revision
        /\ Pair(disk') # Pair(disk) => disk'.revision > disk.revision ]_vars

(* Outside nginx commands latest never moves unless the state file already *)
(* names an active release that intends to switch to where it moves, or is *)
(* undone to there: after a crash at any point, startup knows about it.    *)
WriteAhead ==
    [][ link' # link /\ op \notin {"test", "reload", "abort"} =>
            \E r \in Releases :
                /\ disk.active = r
                /\ disk.records[r].intent
                /\ link' \in {disk.records[r].candidate, disk.records[r].baseline} ]_vars

(* nginx is never told to load a version that has not passed nginx -t.     *)
ReloadTestedOnly == [][ loaded' # loaded => link \in passed ]_vars

(* A rollback that waits for the lock names the previous version as long   *)
(* as the revision it was read under is the live one, whatever releases,   *)
(* failed saves, restores or nginx commands came in between: the pair may  *)
(* return, the revision does not (RollbackCurrent's read without the lock, *)
(* expected_state_revision).                                               *)
RollbackIsFresh ==
    ticket # NoRequest /\ ticket.expected = disk.revision
        => ticket.commit = disk.previous

(* A rollback or a restore_of goes to the version that was the previous    *)
(* one when it was accepted, however long before its request was put       *)
(* together.  After failures it may instead name the version that is       *)
(* already current: a release that failed, could not be recovered and was  *)
(* then brought up by nginx/test has a baseline that never became the      *)
(* previous version.  It never goes anywhere else.                         *)
RollbackToPrevious ==
    \A r \in Releases :
        LET record == disk.records[r] IN
        record.request.restoreOf # NoRelease =>
            /\ record.request.commit \in {record.baseline, record.baselinePrevious}
            /\ faults = 0 => record.request.commit = record.baselinePrevious

(* The live revision is that of a release which was taken to the end:      *)
(* nginx was reloaded for it and checked.                                  *)
Completed(s) == \E r \in Releases : /\ s.records[r].status = "succeeded"
                                     /\ s.records[r].phase = "complete"
                                     /\ s.records[r].after = s.revision

(* When the live release is complete, nginx runs its version, whichever    *)
(* way it was completed: in one call, or by the three separate requests    *)
(* apply, nginx/test and nginx/reload, and whatever was staged, aborted,   *)
(* rolled back or interrupted before (activation_status reload_requested). *)
CompletedIsServed == Quiet /\ ~adrift /\ Completed(disk) => loaded = disk.current

(* abort undoes a switch that nginx has not been reloaded for; it never    *)
(* undoes the state that a completed release left.                         *)
AbortOnlyUnreloaded == op = "abort" /\ pc = "restore" => ~Completed(st)

(* With nothing pending, latest is the recorded current version.           *)
LatestMatchesRecord == Quiet => link = disk.current

(* A latest that is not the recorded current version always has an active  *)
(* release whose intent answers for it, except while an nginx command is   *)
(* restoring.  If that one dies, or a recovery fails, latest is adrift.    *)
LatestSettled == Astray => adrift \/ blocked \/ op \in {"test", "reload", "abort"}

(* A release that was accepted ends: it does not stay running on disk      *)
(* unless the Runner gave up on writing.                                   *)
RunningIsResolved ==
    \A r \in Releases :
        disk.records[r].status = "running" ~>
            blocked \/ disk.records[r].status # "running"
=============================================================================
