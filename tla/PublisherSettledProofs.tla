----------------------- MODULE PublisherSettledProofs -----------------------
(***************************************************************************)
(* What a handler leaves behind when it is over: readers see what is on    *)
(* disk, latest is where the state file says it is or somebody is left who *)
(* answers for it, and a rollback goes where its client meant it to.  This *)
(* holds with nginx commands, rollbacks and startup recovery in any order, *)
(* and nginx runs the live release once it is complete.  Where clients use *)
(* Apply alone, nginx runs what the state file says at every rest.         *)
(***************************************************************************)
EXTENDS PublisherProofs

(* Views are ahead of the disk, or behind, only inside a transaction; one  *)
(* that answers with another release's result leaves in the middle of it.  *)
Shown == pc = "compare" => view = disk

LEMMA NextShown ==
    ASSUME ViewIsDurable, Shown, [Next]_vars
    PROVE  ViewIsDurable' /\ Shown'
<1> USE DEF ViewIsDurable, Shown, Ready, Idle
<1>1. ASSUME pc' \notin {"idle", "compare"}
      PROVE  ViewIsDurable' /\ Shown'
  BY <1>1
<1>2. ASSUME NEW s, Finish(s)
      PROVE  ViewIsDurable' /\ Shown'
  BY <1>2 DEF Finish, Save, Return
<1>3. CASE SaveSkipped \/ Commit \/ CommitGitStage \/ SaveTested \/ Fail \/ Restored
  BY <1>2, <1>3 DEF SaveSkipped, Commit, CommitGitStage, SaveTested, Fail, Restored
<1>4. CASE SaveVerifyBaseline
  BY <1>4 DEF SaveVerifyBaseline, SavePhase, Persist, Save
<1>5. CASE AnswerResumable \/ Uncertain
  BY <1>5 DEF AnswerResumable, Uncertain, Return
<1>6. CASE \/ OpenTarget \/ CancelBaseline \/ Skip \/ GoOn \/ RunPrepare
           \/ Switch \/ NginxTest \/ NginxReload \/ VerifyActivation
           \/ RestoreLink \/ RestoreTest \/ RestoreReload \/ RestoreVerify
  BY <1>1, <1>6 DEF OpenTarget, CancelBaseline, Skip, GoOn, RunPrepare, Switch,
     NginxTest, NginxReload, VerifyActivation, RestoreLink, RestoreTest,
     RestoreReload, RestoreVerify, StepFails, Goto
<1>7. CASE SavePrepare \/ SaveIntent \/ SaveSwitch \/ SaveTest \/ SaveReload \/ SaveVerify
  BY <1>1, <1>7 DEF SavePrepare, SaveIntent, SaveSwitch, SaveTest, SaveReload,
     SaveVerify, SavePhase, Persist
<1>8. ASSUME NEW r \in Releases, NEW q, NEW o, Accept(r, q, o) \/ Command(r, o)
      PROVE  ViewIsDurable' /\ Shown'
  BY <1>1, <1>8 DEF Accept, Persist, Command, Entry
<1>9. ASSUME \/ \E r \in Releases : ReadRollback(r) \/ Replay(r)
             \/ RefuseRollback \/ RefuseBlocked \/ LoadFails \/ UNCHANGED vars
      PROVE  ViewIsDurable' /\ Shown'
  BY <1>9 DEF ReadRollback, Replay, RefuseRollback, RefuseBlocked, LoadFails,
     vars, transaction, rest
<1>10. CASE StartIdle
  BY <1>10 DEF StartIdle, Save
<1>11. CASE StartWithoutIntent \/ StartWithIntent \/ Crash
  BY <1>1, <1>11 DEF StartWithoutIntent, StartWithIntent, Crash, Recovering
<1> QED BY <1>3, <1>4, <1>5, <1>6, <1>7, <1>8, <1>9, <1>10, <1>11
        DEF Next, Step, Start, Publish, RestoreOf, StageRollback

(* Whenever the Runner takes requests, its readers see what is on disk:    *)
(* also after a save that reported an error and took effect, after a       *)
(* result that belongs to another release, and after a refused start.      *)
THEOREM ViewsAreDurable == Spec => []ViewIsDurable
<1>1. Init => ViewIsDurable /\ Shown
  BY DEF Init, ViewIsDurable, Shown
<1> QED BY <1>1, NextShown, PTL DEF Spec

-----------------------------------------------------------------------------
Commands == {"test", "reload", "abort"}

(* Where a handler stands: latest not moved yet, moved, and moved back.    *)
Early == {"open", "verify_baseline", "compare", "skip", "prepare", "run_prepare",
          "switch_intent", "save_switch", "switch", "fail"}
Forward == {"save_test", "test", "save_reload", "reload", "save_verify", "verify",
            "commit", "commit_stage", "tested"}
Backward == {"restore_test", "restore_reload", "restore_verify", "restored"}

(* The release that is active on disk intends to switch, and so answers    *)
(* for a latest that is not the current version.                           *)
Answered == disk.active # NoRelease /\ disk.records[disk.active].intent

(* Where each kind of operation can stand.                                 *)
Places == /\ pc \in {"off", "idle"} => op = "none"
          /\ op \in Commands =>
                 pc \in Forward \cup Backward \cup {"restore", "uncertain", "recovery_failed"}
          /\ pc = "tested" => op = "test"
          /\ blocked => pc = "idle"

(* Where latest points from step to step.                                  *)
Pointed == /\ Ready \/ pc \in Early => adrift \/ link = disk.current
           /\ pc \in Early => st.current = disk.current
           /\ pc \in Forward => link = Rec.candidate
           /\ pc \in Forward /\ op = "test" => st.current = Rec.candidate
           /\ pc \in Backward => link = Rec.baseline
           /\ pc = "uncertain" => adrift \/ link = st.current
           /\ pc \in {"commit", "commit_stage"} \cup Backward /\ op \notin Commands
                  => Answered

Settled == Places /\ Pointed /\ LatestSettled

-----------------------------------------------------------------------------
(* Enough for each kind of place to lead to.                               *)

LEMMA EarlySettled ==
    ASSUME pc' \in Early \cup {"uncertain", "restore"}, ~blocked',
           op' \in Commands => pc' = "uncertain",
           adrift' \/ link' = disk'.current, st'.current = disk'.current
    PROVE  Settled'
BY DEF Settled, Places, Pointed, LatestSettled, Astray, Early, Forward, Backward,
       Ready, Idle

LEMMA ForwardSettled ==
    ASSUME pc' \in Forward, ~blocked', pc' = "tested" => op' = "test",
           link' = Rec'.candidate, op' = "test" => st'.current = Rec'.candidate,
           op' \notin Commands => Answered'
    PROVE  Settled'
BY DEF Settled, Places, Pointed, LatestSettled, Astray, Early, Forward, Backward,
       Ready, Idle, Answered, Commands

LEMMA BackwardSettled ==
    ASSUME pc' \in Backward, ~blocked', link' = Rec'.baseline,
           op' \notin Commands => Answered'
    PROVE  Settled'
BY DEF Settled, Places, Pointed, LatestSettled, Astray, Early, Forward, Backward,
       Ready, Idle, Answered, Commands

LEMMA UndoingSettled ==
    ASSUME pc' \in {"restore", "recovery_failed"}, ~blocked',
           op' \notin Commands => adrift' \/ Answered'
    PROVE  Settled'
BY DEF Settled, Places, Pointed, LatestSettled, Astray, Early, Forward, Backward,
       Ready, Idle, Answered, Commands

LEMMA IdleSettled ==
    ASSUME pc' = "idle", op' = "none", adrift' \/ link' = disk'.current \/ blocked'
    PROVE  Settled'
BY DEF Settled, Places, Pointed, LatestSettled, Astray, Early, Forward, Backward,
       Ready, Idle, Commands

(* A result is saved and answered, or remains uncertain: then the disk may *)
(* have what it had.                                                       *)
LEMMA FinishSettled ==
    ASSUME NEW s, Finish(s), ~blocked', adrift' \/ link' = s.current,
           op \notin Commands => adrift' \/ link' = disk.current \/ Answered
    PROVE  Settled'
<1>1. CASE Save(s) /\ Return(s)
  BY <1>1, IdleSettled DEF Save, Return
<1>2. CASE SaveFails(s) /\ pc' = "uncertain" /\ UNCHANGED <<rel, op>>
  <2>1. st' = s /\ disk' \in {disk, s} /\ op' = op
    BY <1>2 DEF SaveFails
  <2>2. LatestSettled'
    BY <2>1 DEF LatestSettled, Astray, Answered, Commands
  <2> QED BY <1>2, <2>1, <2>2
          DEF Settled, Places, Pointed, Early, Forward, Backward, Ready, Idle
<1> QED BY <1>1, <1>2 DEF Finish

-----------------------------------------------------------------------------
(* The steps.                                                              *)

LEMMA BackedAnswers ==
    ASSUME TypeOK, Announced, pc \in During, rel \in Releases
    PROVE  op \notin Commands => Answered
BY NoReleaseAssumption DEF Announced, Backed, Answered, Commands

(* Nothing but the place changes, or what nginx has read.                  *)
LEMMA MovedSettled ==
    ASSUME TypeOK, Announced, Settled, rel \in Releases, pc \notin {"off", "idle"},
           UNCHANGED <<disk, link, st, rel, op, adrift, blocked>>,
           \/ pc \in Early /\ pc' \in Early
           \/ /\ pc \in Forward \cap During
              /\ pc' \in Forward \cup {"restore"}
              /\ pc' = "tested" => op = "test"
           \/ pc \in Backward /\ pc' \in Backward \cup {"recovery_failed"}
    PROVE  Settled'
<1>1. ~blocked /\ Places /\ Pointed /\ LatestSettled
  BY DEF Settled, Places
<1>2. CASE pc \in Early /\ pc' \in Early
  <2>1. op \notin Commands
    BY <1>1, <1>2 DEF Places, Early, Forward, Backward
  <2> QED BY <1>1, <1>2, <2>1, EarlySettled DEF Pointed
<1>3. CASE /\ pc \in Forward \cap During
           /\ pc' \in Forward \cup {"restore"}
           /\ pc' = "tested" => op = "test"
  <2>1. op \notin Commands => Answered'
    BY <1>3, BackedAnswers DEF Answered
  <2>2. CASE pc' \in Forward
    BY <1>1, <1>3, <2>1, <2>2, ForwardSettled DEF Pointed, Rec
  <2>3. CASE pc' = "restore"
    BY <1>1, <2>1, <2>3, UndoingSettled
  <2> QED BY <1>3, <2>2, <2>3
<1>4. CASE pc \in Backward /\ pc' \in Backward \cup {"recovery_failed"}
  <2>1. op \notin Commands => Answered'
    BY <1>1, <1>4 DEF Pointed, Answered
  <2>2. CASE pc' \in Backward
    BY <1>1, <1>4, <2>1, <2>2, BackwardSettled DEF Pointed, Rec
  <2>3. CASE pc' = "recovery_failed"
    BY <1>1, <2>1, <2>3, UndoingSettled
  <2> QED BY <1>4, <2>2, <2>3
<1> QED BY <1>2, <1>3, <1>4

(* A phase is saved, on the way or before it.                              *)
LEMMA SavePhaseSettled ==
    ASSUME TypeOK, Announced, Announced', TypeOK', Settled, rel \in Releases,
           NEW at, NEW name \in Phases, NEW next, NEW onError,
           SavePhase(at, name, next, onError),
           \/ at \in Early /\ next \in Early /\ onError \in {"fail", "uncertain", "restore"}
           \/ /\ at \in Forward /\ onError = "restore"
              /\ next \in (Forward \cap During) \ {"tested"}
    PROVE  Settled'
<1>1. /\ st \in TargetState /\ pc = at /\ pc' \in {next, onError}
      /\ UNCHANGED <<link, adrift, blocked, op, rel>>
  BY DEF TypeOK, SavePhase, Persist, rest, history
<1>2. /\ disk' \in {disk, WithPhase(name)} /\ st' = WithPhase(name)
      /\ WithPhase(name).current = st.current
      /\ Rec'.candidate = Rec.candidate
  <2>1. disk' \in {disk, WithPhase(name)} /\ st' = WithPhase(name)
    BY WaysToWrite DEF SavePhase
  <2>2. WithPhase(name).current = st.current
    BY <1>1 DEF WithPhase, TargetState
  <2>3. WithPhase(name).records[rel].candidate = Rec.candidate
    BY <1>1, WithPhaseBacked
  <2> QED BY <1>1, <2>1, <2>2, <2>3 DEF Rec
<1>3. ~blocked /\ Places /\ Pointed
  <2>1. pc # "idle"
    BY <1>1 DEF Early, Forward
  <2> QED BY <2>1 DEF Settled, Places
<1>4. CASE at \in Early /\ next \in Early /\ onError \in {"fail", "uncertain", "restore"}
  <2>1. op \notin Commands
    BY <1>1, <1>3, <1>4 DEF Places, Early, Forward, Backward
  <2>2. st.current = disk.current /\ (adrift \/ link = disk.current)
    BY <1>1, <1>3, <1>4 DEF Pointed
  <2>3. pc' \in Early \cup {"uncertain", "restore"}
    BY <1>1, <1>4 DEF Early
  <2> QED BY <1>1, <1>2, <1>3, <2>1, <2>2, <2>3, EarlySettled
<1>5. CASE /\ at \in Forward /\ onError = "restore"
           /\ next \in (Forward \cap During) \ {"tested"}
  <2>1. pc' \in During
    BY <1>1, <1>5 DEF During
  <2>2. op' \notin Commands => Answered'
    <3>1. op' \notin Commands => Backed'
      BY <2>1 DEF Announced, Commands
    <3>2. rel' # NoRelease
      BY <1>1, NoReleaseAssumption
    <3> QED BY <3>1, <3>2 DEF Backed, Answered
  <2>3. CASE pc' = next
    <3>1. link' = Rec'.candidate /\ (op' = "test" => st'.current = Rec'.candidate)
      BY <1>1, <1>2, <1>3, <1>5 DEF Pointed
    <3>2. pc' \in Forward /\ pc' # "tested" /\ ~blocked'
      BY <1>1, <1>3, <1>5, <2>3
    <3> QED BY <2>2, <3>1, <3>2, ForwardSettled
  <2>4. CASE pc' = "restore"
    BY <1>1, <1>3, <2>2, <2>4, UndoingSettled
  <2> QED BY <1>1, <1>5, <2>3, <2>4
<1> QED BY <1>4, <1>5

(* The other steps before latest moves.                                    *)
LEMMA PrepareSettled ==
    ASSUME TypeOK, Settled, rel \in Releases,
           RunPrepare \/ SaveIntent \/ CancelBaseline \/ OpenTarget \/ Skip \/ GoOn
    PROVE  Settled'
<1>1. /\ st \in TargetState /\ pc \in Early /\ UNCHANGED <<link, adrift, blocked, op, rel>>
      /\ pc' \in Early \cup {"uncertain"}
  BY DEF TypeOK, RunPrepare, SaveIntent, CancelBaseline, OpenTarget, Skip, GoOn,
     StepFails, Goto, Persist, rest, history, Early
<1>2. ~blocked /\ op \notin Commands /\ st.current = disk.current
      /\ (adrift \/ link = disk.current)
  BY <1>1 DEF Settled, Places, Pointed, Early, Forward, Backward
<1>3. \E s : s.current = st.current /\ disk' \in {disk, s} /\ st' = s
  <2>1. Prepared.current = st.current /\ WithIntent.current = st.current
    BY <1>1 DEF Prepared, WithIntent, TargetState
  <2>2. CASE SaveIntent
    <3>1. disk' \in {disk, WithIntent} /\ st' = WithIntent
      BY <2>2, WaysToWrite DEF SaveIntent
    <3> QED BY <2>1, <3>1
  <2>3. CASE disk' = disk /\ st' \in {st, Prepared}
    BY <2>1, <2>3
  <2> QED BY <2>2, <2>3 DEF RunPrepare, CancelBaseline, OpenTarget, Skip, GoOn,
             StepFails, Goto
<1> QED BY <1>1, <1>2, <1>3, EarlySettled

LEMMA MoveSettled ==
    ASSUME TypeOK, Announced, Settled, rel \in Releases,
           Switch \/ RestoreLink
    PROVE  Settled'
<1>1. /\ UNCHANGED <<disk, st, rel, op, adrift, blocked>> /\ pc \in {"switch", "restore"}
      /\ ~blocked /\ Places
  <2>1. UNCHANGED <<disk, st, rel, op, adrift, blocked>> /\ pc \in {"switch", "restore"}
    BY DEF Switch, RestoreLink, Goto, rest, history
  <2> QED BY <2>1 DEF Settled, Places
<1>2. op' \notin Commands => Answered'
  BY <1>1, BackedAnswers DEF During, Answered
<1>3. CASE pc' \in {"restore", "recovery_failed"}
  BY <1>1, <1>2, <1>3, UndoingSettled
<1>4. CASE pc' = "restore_test" /\ link' = Rec.baseline
  BY <1>1, <1>2, <1>4, BackwardSettled DEF Backward, Rec
<1>5. CASE pc = "switch" /\ pc' \in {"commit_stage", "save_test"} /\ link' = Rec.candidate
  <2>1. op \notin Commands
    BY <1>1, <1>5 DEF Places, Forward, Backward
  <2> QED BY <1>1, <1>2, <1>5, <2>1, ForwardSettled DEF Forward, Rec, Commands
<1> QED BY <1>3, <1>4, <1>5 DEF Switch, RestoreLink, Goto

(* The ends: the pair goes where latest is.                                *)
LEMMA EndSettled ==
    ASSUME TypeOK, Announced, Settled, rel \in Releases,
           \/ SaveSkipped \/ Commit \/ CommitGitStage \/ SaveTested \/ Fail
           \/ Restored \/ Uncertain \/ AnswerResumable
    PROVE  Settled'
<1>1. st \in TargetState /\ Places /\ Pointed
  BY DEF TypeOK, Settled
<1>2. CASE SaveSkipped \/ Fail
  <2>1. PICK s \in {Skipped, Failed(st)} : Finish(s)
    BY <1>2 DEF SaveSkipped, Fail
  <2>2. s.current = st.current
    BY <1>1, <2>1 DEF Skipped, Failed, TargetState
  <2>3. pc \in {"skip", "fail"} /\ UNCHANGED <<link, adrift, blocked>>
    BY <1>2 DEF SaveSkipped, Fail, history
  <2>4. ~blocked /\ st.current = disk.current /\ (adrift \/ link = disk.current)
    BY <1>1, <2>3 DEF Places, Pointed, Early
  <2> QED BY <2>1, <2>2, <2>3, <2>4, FinishSettled
<1>3. CASE Commit \/ CommitGitStage
  <2>1. PICK s \in {Succeeded("complete"), Succeeded("latest_switched")} : Finish(s)
    BY <1>3 DEF Commit, CommitGitStage
  <2>2. s.current = Rec.candidate
    BY <2>1 DEF Succeeded
  <2>3. pc \in {"commit", "commit_stage"} /\ UNCHANGED <<link, blocked>>
    BY <1>3 DEF Commit, CommitGitStage
  <2>4. ~blocked /\ link = Rec.candidate /\ (op \notin Commands => Answered)
    BY <1>1, <2>3 DEF Places, Pointed, Forward
  <2> QED BY <2>1, <2>2, <2>3, <2>4, FinishSettled
<1>4. CASE Restored
  <2>1. Failed(Reverted(minted + 1)).current = Rec.baseline
    BY <1>1 DEF Failed, Reverted, TargetState
  <2>2. pc = "restored" /\ UNCHANGED <<link, blocked>>
        /\ Finish(Failed(Reverted(minted + 1)))
    BY <1>4 DEF Restored
  <2>3. ~blocked /\ link = Rec.baseline /\ (op \notin Commands => Answered)
    BY <1>1, <2>2 DEF Places, Pointed, Backward
  <2> QED BY <2>1, <2>2, <2>3, FinishSettled
<1>5. CASE SaveTested
  <2>1. Tested.current = st.current
    BY <1>1 DEF Tested, TargetState
  <2>2. pc = "tested" /\ UNCHANGED <<link, blocked>> /\ Finish(Tested)
    BY <1>5 DEF SaveTested
  <2>3. ~blocked /\ op = "test" /\ link = Rec.candidate /\ st.current = Rec.candidate
    BY <1>1, <2>2 DEF Places, Pointed, Forward
  <2> QED BY <2>1, <2>2, <2>3, FinishSettled DEF Commands
<1>6. CASE Uncertain
  <2>1. Undecided.current = st.current
    BY <1>1 DEF Undecided, TargetState
  <2>2. /\ pc \in {"uncertain", "recovery_failed"} /\ pc' = "idle" /\ op' = "none"
        /\ UNCHANGED link /\ adrift' = (adrift \/ pc = "recovery_failed")
        /\ disk' = Undecided \/ blocked'
    BY <1>6 DEF Uncertain, Return
  <2>3. pc = "uncertain" => adrift \/ link = st.current
    BY <1>1 DEF Pointed
  <2> QED BY <2>1, <2>2, <2>3, IdleSettled
<1>7. CASE AnswerResumable
  <2>1. pc = "compare" /\ pc' = "idle" /\ op' = "none" /\ UNCHANGED <<link, disk, adrift>>
    BY <1>7 DEF AnswerResumable, history
  <2>2. adrift \/ link = disk.current
    BY <1>1, <2>1 DEF Pointed, Early
  <2> QED BY <2>1, <2>2, IdleSettled
<1> QED BY <1>2, <1>3, <1>4, <1>5, <1>6, <1>7

LEMMA StepSettled ==
    ASSUME TypeOK, TypeOK', Announced, Announced', Settled, Step
    PROVE  Settled'
<1>1. rel \in Releases /\ pc \notin {"off", "idle"}
  BY StepHasRelease
<1>2. CASE SaveVerifyBaseline \/ SavePrepare \/ SaveSwitch
  <2>1. PICK at \in Early, name \in Phases, next \in Early,
             onError \in {"fail", "uncertain", "restore"} :
            SavePhase(at, name, next, onError)
    BY <1>2, PhasesContain DEF SaveVerifyBaseline, SavePrepare, SaveSwitch, Early
  <2> QED BY <1>1, <2>1, SavePhaseSettled
<1>3. CASE SaveTest \/ SaveReload \/ SaveVerify
  <2>1. PICK at \in Forward, name \in Phases, next \in (Forward \cap During) \ {"tested"} :
            SavePhase(at, name, next, "restore")
    BY <1>3, PhasesContain DEF SaveTest, SaveReload, SaveVerify, Forward, During
  <2> QED BY <1>1, <2>1, SavePhaseSettled
<1>4. CASE RunPrepare \/ SaveIntent \/ CancelBaseline \/ OpenTarget \/ Skip \/ GoOn
  BY <1>1, <1>4, PrepareSettled
<1>5. CASE Switch \/ RestoreLink
  BY <1>1, <1>5, MoveSettled
<1>6. CASE \/ NginxTest \/ NginxReload \/ VerifyActivation
           \/ RestoreTest \/ RestoreReload \/ RestoreVerify
  <2>1. UNCHANGED <<disk, link, st, rel, op, adrift, blocked>>
    BY <1>6 DEF NginxTest, NginxReload, VerifyActivation, RestoreTest, RestoreReload,
       RestoreVerify, StepFails, Goto, rest, history
  <2>2. \/ /\ pc \in Forward \cap During
           /\ pc' \in Forward \cup {"restore"}
           /\ pc' = "tested" => op = "test"
        \/ pc \in Backward /\ pc' \in Backward \cup {"recovery_failed"}
    BY <1>6 DEF NginxTest, NginxReload, VerifyActivation, RestoreTest, RestoreReload,
       RestoreVerify, StepFails, Goto, Forward, During, Backward
  <2> QED BY <1>1, <2>1, <2>2, MovedSettled
<1>7. CASE \/ SaveSkipped \/ Commit \/ CommitGitStage \/ SaveTested \/ Fail
           \/ Restored \/ Uncertain \/ AnswerResumable
  BY <1>1, <1>7, EndSettled
<1> QED BY <1>2, <1>3, <1>4, <1>5, <1>6, <1>7 DEF Step

(* A request begins where the last one left latest.                        *)
LEMMA RequestSettled ==
    ASSUME TypeOK, Settled, NEW r \in Releases,
           \/ \E c \in Commits, o \in {"apply", "stage"} : Publish(r, c, o)
           \/ \E original \in Releases : RestoreOf(r, original)
           \/ StageRollback(r)
           \/ \E o \in {"test", "reload", "abort"} : Command(r, o)
    PROVE  Settled'
<1>1. Ready => ~blocked /\ (adrift \/ link = disk.current)
  BY DEF Settled, Pointed, Ready
<1>2. ASSUME NEW q, NEW o \in {"apply", "stage"}, Accept(r, q, o)
      PROVE  Settled'
  <2> DEFINE s == [Takeover(r) EXCEPT !.records[r] = NewRecord(q), !.active = r]
  <2>1. s.current = disk.current
    BY AcceptedLike DEF Like, Pair, TypeOK
  <2>2. /\ disk' \in {disk, s} /\ st' = s
        /\ pc' \in {"open", "uncertain"} /\ op' = o
        /\ UNCHANGED <<link, adrift, blocked>> /\ Ready
    BY <1>2, WaysToWrite DEF Accept, Persist, history
  <2> HIDE DEF s
  <2>3. disk'.current = disk.current /\ st'.current = disk.current
    BY <2>1, <2>2
  <2> QED BY <1>1, <2>2, <2>3, EarlySettled DEF Early, Commands
<1>3. ASSUME NEW o \in {"test", "reload", "abort"}, Command(r, o)
      PROVE  Settled'
  <2>1. /\ disk' = disk /\ st' = disk /\ rel' = r /\ op' = o /\ Ready
        /\ UNCHANGED <<link, adrift, blocked>> /\ op' \in Commands
    BY <1>3 DEF Command, rest, history, Commands
  <2>2. CASE pc' = "uncertain"
    BY <1>1, <2>1, <2>2, EarlySettled
  <2>3. CASE pc' = "restore"
    BY <1>1, <2>1, <2>3, UndoingSettled
  <2>4. CASE pc' \in {"save_test", "save_reload"} /\ IsCurrent(r)
    BY <1>1, <2>1, <2>4, ForwardSettled DEF IsCurrent, Rec, Forward
  <2> QED BY <1>3, <2>2, <2>3, <2>4 DEF Command, Entry
<1> QED BY <1>2, <1>3 DEF Publish, RestoreOf, StageRollback

LEMMA StartSettled ==
    ASSUME TypeOK, Settled, Start \/ Crash
    PROVE  Settled'
<1>1. CASE Crash
  <2>1. /\ pc' = "off" /\ op' = "none" /\ ~blocked' /\ UNCHANGED <<disk, link>>
        /\ adrift' = (adrift \/ Astray)
    BY <1>1 DEF Crash
  <2>2. LatestSettled'
    BY <2>1 DEF LatestSettled, Astray
  <2> QED BY <2>1, <2>2
          DEF Settled, Places, Pointed, Early, Forward, Backward, Ready, Idle, Commands
<1>2. CASE Start
  <2>1. /\ pc = "off" /\ op = "none" /\ ~blocked /\ disk \in TargetState
        /\ UNCHANGED <<link, adrift>>
    BY <1>2 DEF Start, StartIdle, StartWithoutIntent, StartWithIntent, Settled, Places,
       TypeOK, rest, history
  <2>2. adrift \/ link = disk.current \/ Answered
    BY <2>1 DEF Settled, LatestSettled, Astray, Answered
  <2>3. CASE StartIdle
    <3>1. ~Answered /\ pc' = "idle" /\ op' = "none"
      BY <2>1, <2>3 DEF StartIdle, Answered
    <3>2. disk'.current = disk.current
      BY <2>1, <2>3 DEF StartIdle, Save, TargetState
    <3> QED BY <2>1, <2>2, <3>1, <3>2, IdleSettled
  <2>4. CASE StartWithoutIntent
    <3>1. /\ ~Answered /\ pc' = "fail" /\ op' = "startup" /\ ~blocked'
          /\ disk' = disk /\ st' = [disk EXCEPT !.recovery = FALSE]
      BY <2>1, <2>4 DEF StartWithoutIntent, Recovering, Answered, rest
    <3>2. st'.current = disk'.current
      BY <2>1, <3>1 DEF TargetState
    <3> QED BY <2>1, <2>2, <3>1, <3>2, EarlySettled DEF Early, Commands
  <2>5. CASE StartWithIntent
    <3>1. /\ disk' = disk /\ st' = disk /\ rel' = disk.active /\ op' = "startup"
          /\ ~blocked' /\ Answered'
          /\ \/ pc' = "test" /\ link = disk.records[disk.active].candidate
             \/ pc' \in {"restore", "recovery_failed"}
      BY <2>1, <2>5 DEF StartWithIntent, Recovering, Answered, rest
    <3>2. CASE pc' = "test" /\ link = disk.records[disk.active].candidate
      BY <2>1, <3>1, <3>2, ForwardSettled DEF Forward, Rec
    <3>3. CASE pc' \in {"restore", "recovery_failed"}
      BY <3>1, <3>3, UndoingSettled
    <3> QED BY <3>1, <3>2, <3>3
  <2> QED BY <1>2, <2>3, <2>4, <2>5 DEF Start
<1> QED BY <1>1, <1>2

LEMMA NextSettled ==
    ASSUME TypeOK, TypeOK', Announced, Announced', Settled, [Next]_vars
    PROVE  Settled'
<1>1. CASE Step
  BY <1>1, StepSettled
<1>2. ASSUME NEW r \in Releases,
             \/ \E c \in Commits, o \in {"apply", "stage"} : Publish(r, c, o)
             \/ \E original \in Releases : RestoreOf(r, original)
             \/ StageRollback(r)
             \/ \E o \in {"test", "reload", "abort"} : Command(r, o)
      PROVE  Settled'
  BY <1>2, RequestSettled
<1>3. CASE Start \/ Crash
  BY <1>3, StartSettled
<1>4. ASSUME \/ \E r \in Releases : ReadRollback(r) \/ Replay(r)
             \/ RefuseRollback \/ RefuseBlocked \/ UNCHANGED vars
      PROVE  Settled'
  <2>1. UNCHANGED <<disk, link, st, rel, op, pc, adrift, blocked>>
    BY <1>4 DEF ReadRollback, Replay, RefuseRollback, RefuseBlocked,
       vars, transaction, rest, history
  <2> QED BY <2>1 DEF Settled, Places, Pointed, LatestSettled, Astray, Answered, Rec,
          Ready, Idle
<1>5. CASE LoadFails
  <2>1. /\ UNCHANGED <<disk, link, st, rel, op, pc, adrift>> /\ blocked' /\ pc = "idle"
    BY <1>5 DEF LoadFails, transaction, history, Ready, Idle
  <2> QED BY <2>1, IdleSettled DEF Settled, Places
<1> QED BY <1>1, <1>2, <1>3, <1>4, <1>5 DEF Next

(* A latest that is not the recorded current version has an active release *)
(* on disk whose intent answers for it, or the Runner gave up, or an nginx *)
(* command is under way, or one of the two known ways led there: a         *)
(* recovery that failed, or a command that died.                           *)
THEOREM LatestIsSettled == Spec => []LatestSettled
<1>1. Init => Settled
  BY DEF Init, Settled, Places, Pointed, LatestSettled, Astray, NewState, Early, Forward,
     Backward, Commands
<1>2. Init => Announced
  BY DEF Init, Announced, Before, During
<1>3. TypeOK /\ Announced /\ [Next]_vars => Announced'
  BY NextAnnounced
<1>4. TypeOK /\ TypeOK' /\ Announced /\ Announced' /\ Settled /\ [Next]_vars => Settled'
  BY NextSettled
<1>5. Settled => LatestSettled
  BY DEF Settled
<1> QED BY <1>1, <1>2, <1>3, <1>4, <1>5, TypeCorrect, PTL DEF Spec

-----------------------------------------------------------------------------
(* A rollback that waits was read under a revision that is not newer than  *)
(* the live one, and with that revision comes its pair.                    *)
Read == ticket # NoRequest =>
            /\ ticket.expected <= disk.revision
            /\ ticket.expected = disk.revision => ticket.commit = disk.previous

(* A rollback waits until it is staged or refused, and only one waits.     *)
LEMMA TicketsAreRead ==
    ASSUME [Next]_vars
    PROVE  ticket' \in {ticket, NoRequest} \/ \E r \in Releases : ReadRollback(r)
<1>1. CASE Step
  BY <1>1 DEF Step, OpenTarget, SaveVerifyBaseline, CancelBaseline,
     AnswerResumable, Skip, SaveSkipped, GoOn, SavePrepare, RunPrepare,
     SaveIntent, SaveSwitch, Switch, SaveTest, NginxTest, SaveReload,
     NginxReload, SaveVerify, VerifyActivation, Commit, CommitGitStage,
     SaveTested, Fail, RestoreLink, RestoreTest, RestoreReload, RestoreVerify,
     Restored, Uncertain, SavePhase, StepFails, rest
<1>2. CASE Start \/ Crash
  BY <1>2 DEF Start, StartIdle, StartWithoutIntent, StartWithIntent, Crash, rest
<1>3. CASE \/ RefuseRollback \/ RefuseBlocked \/ LoadFails \/ UNCHANGED vars
  BY <1>3 DEF RefuseRollback, RefuseBlocked, LoadFails, vars, rest
<1>4. ASSUME NEW r \in Releases,
             \/ \E c \in Commits, o \in {"apply", "stage"} : Publish(r, c, o)
             \/ \E original \in Releases : RestoreOf(r, original)
             \/ StageRollback(r)
             \/ Replay(r)
             \/ \E o \in {"test", "reload", "abort"} : Command(r, o)
      PROVE  ticket' \in {ticket, NoRequest}
  BY <1>4 DEF Publish, RestoreOf, StageRollback, Replay, Command, rest
<1> QED BY <1>1, <1>2, <1>3, <1>4 DEF Next

LEMMA NextRead ==
    ASSUME TypeOK, TypeOK', Revisions, Read, [Next]_vars
    PROVE  Read'
<1>1. /\ ticket.expected \in Nat
      /\ disk.revision \in Nat /\ disk'.revision \in Nat
      /\ disk'.revision >= disk.revision
      /\ disk'.revision = disk.revision => disk'.previous = disk.previous
  <2>1. PairStep
    BY NextKeepsRevisions
  <2> QED BY <2>1, RevisionsTyped DEF TypeOK, Request, PairStep, Pair
<1>2. CASE ticket' = ticket
  <2> SUFFICES ASSUME ticket # NoRequest
               PROVE  /\ ticket.expected <= disk'.revision
                      /\ ticket.expected = disk'.revision
                             => ticket.commit = disk'.previous
    BY <1>2 DEF Read
  <2>1. /\ ticket.expected <= disk.revision
        /\ ticket.expected = disk.revision => ticket.commit = disk.previous
    BY DEF Read
  <2>2. ticket.expected = disk'.revision => disk'.revision = disk.revision
    BY <1>1, <2>1
  <2> QED BY <1>1, <2>1, <2>2
<1>3. CASE ticket' = NoRequest
  BY <1>3 DEF Read
<1>4. ASSUME NEW r \in Releases, ReadRollback(r)
      PROVE  Read'
  BY <1>1, <1>4 DEF ReadRollback, Read
<1>5. ticket' \in {ticket, NoRequest} \/ \E r \in Releases : ReadRollback(r)
  BY TicketsAreRead
<1> QED BY <1>2, <1>3, <1>4, <1>5

(* A rollback read without the lock and queued is never taken for one of   *)
(* another pair: while its revision is the live one, so is its pair, after *)
(* any failures, restarts and releases in between.                         *)
THEOREM RollbacksAreFresh == Spec => []RollbackIsFresh
<1>1. Init => Read
  BY DEF Init, Read
<1>2. Init => TypeOK /\ Revisions
  BY InitTyped DEF Init, NewState, Revisions, Pair
<1>3. TypeOK /\ Revisions /\ Read /\ [Next]_vars => (TypeOK /\ Revisions /\ Read)'
  BY NextTyped, NextKeepsRevisions, NextRead
<1>4. Read => RollbackIsFresh
  BY DEF Read, RollbackIsFresh
<1> QED BY <1>1, <1>2, <1>3, <1>4, PTL DEF Spec

-----------------------------------------------------------------------------
(* What nginx has loaded, when releases are whole applications (Runner's   *)
(* synchronous Apply, for callers of the Go API): each goes through test,  *)
(* reload and verification, or back to its baseline.                       *)

AppliesOnly == Ops \subseteq {"apply"}

Reloaded == {"save_verify", "verify", "commit"}
Unloaded == {"restore_verify", "restored"}
Elsewhere == {"commit_stage", "tested"}

Applying == /\ op \in {"none", "startup", "apply"} /\ pc \notin Elsewhere
            /\ ticket = NoRequest

(* A version other than the current one is loaded only while an active     *)
(* release on disk intends to switch, or was to switch, to it.             *)
Loaded == /\ adrift \/ loaded = disk.current \/ Answered
          /\ pc \in Early \/ Ready => adrift \/ loaded = disk.current
          /\ pc = "uncertain" => adrift \/ loaded = st.current
          /\ pc \in Reloaded => loaded = Rec.candidate
          /\ pc \in Unloaded => loaded = Rec.baseline
          /\ pc = "skip" => st.current = Rec.request.commit

Served == Applying /\ Loaded

LEMMA EarlyLoaded ==
    ASSUME pc' \in Early \cup {"uncertain"}, adrift' \/ loaded' = disk'.current,
           st'.current = disk'.current, pc' = "skip" => st'.current = Rec'.request.commit
    PROVE  Loaded'
BY DEF Loaded, Early, Reloaded, Unloaded

LEMMA OnTheWayLoaded ==
    ASSUME pc' \in (Forward \cup Backward \cup {"restore", "recovery_failed", "off"})
                       \ Elsewhere,
           adrift' \/ loaded' = disk'.current \/ Answered',
           pc' \in Reloaded => loaded' = Rec'.candidate,
           pc' \in Unloaded => loaded' = Rec'.baseline
    PROVE  Loaded'
BY DEF Loaded, Early, Forward, Backward, Elsewhere, Ready, Idle

LEMMA IdleLoaded ==
    ASSUME pc' = "idle",
           \/ adrift' \/ loaded' = disk'.current
           \/ blocked' /\ Answered'
    PROVE  Loaded'
BY DEF Loaded, Early, Reloaded, Unloaded, Ready

(* A result is saved and answered, or remains uncertain.                   *)
LEMMA FinishLoaded ==
    ASSUME NEW s, Finish(s), adrift' \/ loaded' = s.current,
           adrift' \/ loaded' = disk.current \/ Answered
    PROVE  Loaded'
<1>1. CASE Save(s) /\ Return(s)
  BY <1>1, IdleLoaded DEF Save, Return
<1>2. CASE SaveFails(s) /\ pc' = "uncertain"
  <2>1. st' = s /\ disk' \in {disk, s}
    BY <1>2 DEF SaveFails
  <2>2. adrift' \/ loaded' = disk'.current \/ Answered'
    BY <2>1 DEF Answered
  <2> QED BY <1>2, <2>1, <2>2 DEF Loaded, Early, Reloaded, Unloaded, Ready, Idle
<1> QED BY <1>1, <1>2 DEF Finish

(* A phase is saved.                                                       *)
LEMMA SavePhaseLoaded ==
    ASSUME TypeOK, Announced', TypeOK', Settled, Served, rel \in Releases,
           NEW at, NEW name, NEW next, NEW onError,
           SavePhase(at, name, next, onError),
           \/ /\ at \in Early
              /\ {next, onError} \subseteq (Early \cup {"uncertain", "restore"}) \ {"skip"}
           \/ /\ {next, onError} \subseteq During \ Early
              /\ {next, onError} \cap Reloaded # {} => at \in Reloaded
    PROVE  Loaded'
<1>1. /\ st \in TargetState /\ pc = at /\ pc' \in {next, onError}
      /\ UNCHANGED <<loaded, link, adrift, op, rel>>
  BY DEF TypeOK, SavePhase, Persist, rest, history, nginx
<1>2. /\ disk' \in {disk, WithPhase(name)} /\ st' = WithPhase(name)
      /\ WithPhase(name).current = st.current
      /\ Rec'.candidate = Rec.candidate
  <2>1. disk' \in {disk, WithPhase(name)} /\ st' = WithPhase(name)
    BY WaysToWrite DEF SavePhase
  <2>2. WithPhase(name).current = st.current
    BY <1>1 DEF WithPhase, TargetState
  <2>3. WithPhase(name).records[rel].candidate = Rec.candidate
    BY <1>1, WithPhaseBacked
  <2> QED BY <1>1, <2>1, <2>2, <2>3 DEF Rec
<1>3. op' \notin Commands
  BY <1>1 DEF Served, Applying, Commands
<1>4. CASE at \in Early
           /\ {next, onError} \subseteq (Early \cup {"uncertain", "restore"}) \ {"skip"}
  <2>1. st.current = disk.current /\ (adrift \/ loaded = disk.current)
    BY <1>1, <1>4 DEF Settled, Pointed, Served, Loaded
  <2>2. st'.current = disk'.current /\ (adrift' \/ loaded' = disk'.current)
    BY <1>1, <1>2, <2>1
  <2>3. CASE pc' = "restore"
    BY <2>2, <2>3, OnTheWayLoaded DEF Elsewhere, Reloaded, Unloaded
  <2>4. CASE pc' \in (Early \cup {"uncertain"}) \ {"skip"}
    BY <2>2, <2>4, EarlyLoaded
  <2> QED BY <1>1, <1>4, <2>3, <2>4
<1>5. CASE /\ {next, onError} \subseteq During \ Early
           /\ {next, onError} \cap Reloaded # {} => at \in Reloaded
  <2>1. pc' \in During
    BY <1>1, <1>5
  <2>2. Answered'
    <3>1. Backed'
      BY <1>3, <2>1 DEF Announced, Commands
    <3>2. rel' # NoRelease
      BY <1>1, NoReleaseAssumption
    <3> QED BY <3>1, <3>2 DEF Backed, Answered
  <2>3. pc' \in Reloaded => loaded' = Rec'.candidate
    BY <1>1, <1>2, <1>5 DEF Served, Loaded
  <2>4. pc' \in (Forward \cup {"restore"}) \ (Elsewhere \cup Unloaded)
    BY <1>1, <1>5 DEF During, Forward, Early, Elsewhere, Unloaded
  <2> QED BY <2>2, <2>3, <2>4, OnTheWayLoaded
<1> QED BY <1>4, <1>5

(* The other steps before latest moves.                                    *)
LEMMA PrepareLoaded ==
    ASSUME TypeOK, Settled, Served, rel \in Releases,
           RunPrepare \/ SaveIntent \/ CancelBaseline \/ OpenTarget \/ Skip \/ GoOn
    PROVE  Loaded'
<1>1. /\ st \in TargetState /\ pc \in Early /\ UNCHANGED <<loaded, adrift, rel>>
      /\ pc' \in Early \cup {"uncertain"}
  BY DEF TypeOK, RunPrepare, SaveIntent, CancelBaseline, OpenTarget, Skip, GoOn,
     StepFails, Goto, Persist, rest, history, nginx, Early
<1>2. st.current = disk.current /\ (adrift \/ loaded = disk.current)
  BY <1>1 DEF Settled, Pointed, Served, Loaded
<1>3. \E s : s.current = st.current /\ disk' \in {disk, s} /\ st' = s
  <2>1. Prepared.current = st.current /\ WithIntent.current = st.current
    BY <1>1 DEF Prepared, WithIntent, TargetState
  <2>2. CASE SaveIntent
    <3>1. disk' \in {disk, WithIntent} /\ st' = WithIntent
      BY <2>2, WaysToWrite DEF SaveIntent
    <3> QED BY <2>1, <3>1
  <2>3. CASE disk' = disk /\ st' \in {st, Prepared}
    BY <2>1, <2>3
  <2> QED BY <2>2, <2>3 DEF RunPrepare, CancelBaseline, OpenTarget, Skip, GoOn,
             StepFails, Goto
<1>4. pc' = "skip" => st'.current = Rec'.request.commit
  BY DEF RunPrepare, SaveIntent, CancelBaseline, OpenTarget, Skip, GoOn,
     StepFails, Goto, Persist, NamesLiveVersion, Rec
<1> QED BY <1>1, <1>2, <1>3, <1>4, EarlyLoaded

(* latest moves, nginx is tested and reloaded, and what is live is checked *)
LEMMA MoveLoaded ==
    ASSUME TypeOK, Announced, Settled, Served, rel \in Releases,
           \/ Switch \/ NginxTest \/ NginxReload \/ VerifyActivation
           \/ RestoreLink \/ RestoreTest \/ RestoreReload \/ RestoreVerify
    PROVE  Loaded'
<1>1. /\ UNCHANGED <<disk, st, rel, op, adrift>>
      /\ pc \in During \/ pc \in Backward
  BY DEF Switch, NginxTest, NginxReload, VerifyActivation, RestoreLink, RestoreTest,
     RestoreReload, RestoreVerify, StepFails, Goto, rest, history, During, Backward
<1>2. op \in {"none", "startup", "apply"}
  BY DEF Served, Applying
<1>3. Answered'
  <2>1. Answered
    BY <1>1, <1>2, BackedAnswers DEF Commands, Settled, Pointed
  <2> QED BY <1>1, <2>1 DEF Answered
<1>4. /\ pc \in Forward => link = Rec.candidate
      /\ pc \in Backward => link = Rec.baseline
  BY DEF Settled, Pointed
<1>5. CASE Switch \/ NginxTest \/ RestoreLink \/ RestoreTest
  <2>1. pc' \in {"save_test", "save_reload", "reload", "restore", "restore_test",
                 "restore_reload", "recovery_failed"}
    BY <1>2, <1>5 DEF Switch, NginxTest, RestoreLink, RestoreTest, StepFails, Goto
  <2> QED BY <1>3, <2>1, OnTheWayLoaded
          DEF Forward, Backward, Elsewhere, Reloaded, Unloaded
<1>6. CASE NginxReload \/ VerifyActivation
  <2>1. \/ pc' \in {"save_verify", "verify", "commit"} /\ loaded' = Rec.candidate
        \/ pc' = "restore"
    BY <1>4, <1>6 DEF NginxReload, VerifyActivation, StepFails, Goto, Forward, nginx,
       Served, Loaded, Reloaded
  <2> QED BY <1>1, <1>3, <2>1, OnTheWayLoaded
          DEF Forward, Backward, Elsewhere, Reloaded, Unloaded, Rec
<1>7. CASE RestoreReload \/ RestoreVerify
  <2>1. \/ pc' \in {"restore_verify", "restored"} /\ loaded' = Rec.baseline
        \/ pc' = "recovery_failed"
    BY <1>4, <1>7 DEF RestoreReload, RestoreVerify, StepFails, Goto, Backward, nginx,
       Served, Loaded, Unloaded
  <2> QED BY <1>1, <1>3, <2>1, OnTheWayLoaded
          DEF Forward, Backward, Elsewhere, Reloaded, Unloaded, Rec
<1> QED BY <1>5, <1>6, <1>7

(* The ends: the pair goes where nginx is.                                 *)
LEMMA EndLoaded ==
    ASSUME TypeOK, Announced, Settled, Served, rel \in Releases,
           \/ SaveSkipped \/ Commit \/ CommitGitStage \/ SaveTested \/ Fail
           \/ Restored \/ Uncertain \/ AnswerResumable
    PROVE  Loaded'
<1>1. /\ st \in TargetState /\ Pointed /\ loaded' = loaded
      /\ pc \notin Elsewhere /\ op \notin Commands /\ Loaded
  BY DEF TypeOK, Settled, SaveSkipped, Commit, CommitGitStage, SaveTested, Fail, Restored,
     Uncertain, AnswerResumable, nginx, Served, Applying, Commands
<1>2. CASE SaveSkipped \/ Fail
  <2>1. PICK s \in {Skipped, Failed(st)} : Finish(s)
    BY <1>2 DEF SaveSkipped, Fail
  <2>2. s.current = st.current
    BY <1>1, <2>1 DEF Skipped, Failed, TargetState
  <2>3. pc \in {"skip", "fail"} /\ UNCHANGED adrift
    BY <1>2 DEF SaveSkipped, Fail, history
  <2>4. st.current = disk.current /\ (adrift \/ loaded = disk.current)
    BY <1>1, <2>3 DEF Pointed, Loaded, Early
  <2> QED BY <1>1, <2>1, <2>2, <2>3, <2>4, FinishLoaded
<1>3. CASE Commit
  <2>1. Succeeded("complete").current = Rec.candidate
    BY DEF Succeeded
  <2>2. pc = "commit" /\ Finish(Succeeded("complete"))
    BY <1>3 DEF Commit
  <2>3. loaded = Rec.candidate /\ Answered
    BY <1>1, <2>2 DEF Pointed, Loaded, Reloaded
  <2> QED BY <1>1, <2>1, <2>2, <2>3, FinishLoaded
<1>4. CASE Restored
  <2>1. Failed(Reverted(minted + 1)).current = Rec.baseline
    BY <1>1 DEF Failed, Reverted, TargetState
  <2>2. pc = "restored" /\ Finish(Failed(Reverted(minted + 1)))
    BY <1>4 DEF Restored
  <2>3. loaded = Rec.baseline /\ Answered
    BY <1>1, <2>2 DEF Pointed, Loaded, Unloaded, Backward
  <2> QED BY <1>1, <2>1, <2>2, <2>3, FinishLoaded
<1>5. CASE CommitGitStage \/ SaveTested
  BY <1>1, <1>5 DEF CommitGitStage, SaveTested, Elsewhere
<1>6. CASE Uncertain
  <2>1. Undecided.current = st.current
    BY <1>1 DEF Undecided, TargetState
  <2>2. /\ pc \in {"uncertain", "recovery_failed"} /\ pc' = "idle"
        /\ adrift' = (adrift \/ pc = "recovery_failed")
        /\ disk' = Undecided \/ (blocked' /\ disk' = disk)
    BY <1>6 DEF Uncertain, Return
  <2>3. CASE disk' = Undecided
    BY <1>1, <2>1, <2>2, <2>3, IdleLoaded DEF Loaded
  <2>4. CASE blocked' /\ disk' = disk
    BY <1>1, <2>2, <2>4, IdleLoaded DEF Loaded, Answered
  <2> QED BY <2>2, <2>3, <2>4
<1>7. CASE AnswerResumable
  <2>1. pc = "compare" /\ pc' = "idle" /\ UNCHANGED <<disk, adrift>>
    BY <1>7 DEF AnswerResumable, history
  <2>2. adrift \/ loaded = disk.current
    BY <1>1, <2>1 DEF Loaded, Early
  <2> QED BY <1>1, <2>1, <2>2, IdleLoaded
<1> QED BY <1>2, <1>3, <1>4, <1>5, <1>6, <1>7

LEMMA StepLoaded ==
    ASSUME TypeOK, TypeOK', Announced, Announced', Settled, Served, Step
    PROVE  Loaded'
<1>1. rel \in Releases
  BY StepHasRelease
<1>2. CASE SaveVerifyBaseline \/ SavePrepare \/ SaveSwitch
  <2>1. PICK at, name, next, onError :
            /\ SavePhase(at, name, next, onError) /\ at \in Early
            /\ {next, onError} \subseteq (Early \cup {"uncertain", "restore"}) \ {"skip"}
    BY <1>2 DEF SaveVerifyBaseline, SavePrepare, SaveSwitch, Early
  <2> QED BY <1>1, <2>1, SavePhaseLoaded
<1>3. CASE SaveTest \/ SaveReload \/ SaveVerify
  <2>1. PICK at, name, next :
            /\ SavePhase(at, name, next, "restore")
            /\ {next, "restore"} \subseteq During \ Early
            /\ {next, "restore"} \cap Reloaded # {} => at \in Reloaded
    BY <1>3 DEF SaveTest, SaveReload, SaveVerify, Early, During, Reloaded
  <2> QED BY <1>1, <2>1, SavePhaseLoaded
<1>4. CASE RunPrepare \/ SaveIntent \/ CancelBaseline \/ OpenTarget \/ Skip \/ GoOn
  BY <1>1, <1>4, PrepareLoaded
<1>5. CASE \/ Switch \/ NginxTest \/ NginxReload \/ VerifyActivation
           \/ RestoreLink \/ RestoreTest \/ RestoreReload \/ RestoreVerify
  BY <1>1, <1>5, MoveLoaded
<1>6. CASE \/ SaveSkipped \/ Commit \/ CommitGitStage \/ SaveTested \/ Fail
           \/ Restored \/ Uncertain \/ AnswerResumable
  BY <1>1, <1>6, EndLoaded
<1> QED BY <1>2, <1>3, <1>4, <1>5, <1>6 DEF Step

LEMMA StartLoaded ==
    ASSUME TypeOK, Settled, Served, Start \/ Crash
    PROVE  Loaded'
<1>1. CASE Crash
  <2>1. pc' = "off" /\ UNCHANGED <<disk, loaded>> /\ adrift' = (adrift \/ Astray)
    BY <1>1 DEF Crash, nginx
  <2>2. adrift' \/ loaded' = disk'.current \/ Answered'
    BY <2>1 DEF Served, Loaded, Answered
  <2> QED BY <2>1, <2>2, OnTheWayLoaded DEF Elsewhere, Reloaded, Unloaded
<1>2. CASE Start
  <2>1. /\ pc = "off" /\ disk \in TargetState /\ UNCHANGED <<loaded, adrift>>
        /\ adrift \/ loaded = disk.current \/ Answered
    BY <1>2 DEF Start, StartIdle, StartWithoutIntent, StartWithIntent, Served, Loaded,
       TypeOK, rest, history, nginx
  <2>2. CASE StartIdle
    <3>1. ~Answered /\ pc' = "idle"
      BY <2>2 DEF StartIdle, Answered
    <3>2. disk'.current = disk.current
      BY <2>1, <2>2 DEF StartIdle, Save, TargetState
    <3> QED BY <2>1, <3>1, <3>2, IdleLoaded
  <2>3. CASE StartWithoutIntent
    <3>1. /\ ~Answered /\ pc' = "fail" /\ disk' = disk
          /\ st' = [disk EXCEPT !.recovery = FALSE]
      BY <2>3 DEF StartWithoutIntent, Recovering, Answered
    <3>2. st'.current = disk'.current
      BY <2>1, <3>1 DEF TargetState
    <3> QED BY <2>1, <3>1, <3>2, EarlyLoaded DEF Early
  <2>4. CASE StartWithIntent
    <3>1. pc' \in {"test", "restore", "recovery_failed"} /\ Answered'
      BY <2>4 DEF StartWithIntent, Recovering, Answered
    <3> QED BY <3>1, OnTheWayLoaded DEF Forward, Elsewhere, Reloaded, Unloaded
  <2> QED BY <1>2, <2>2, <2>3, <2>4 DEF Start
<1> QED BY <1>1, <1>2

LEMMA AcceptLoaded ==
    ASSUME TypeOK, Served, NEW r \in Releases, NEW q, NEW o, Accept(r, q, o)
    PROVE  Loaded'
<1> DEFINE s == [Takeover(r) EXCEPT !.records[r] = NewRecord(q), !.active = r]
<1>1. s.current = disk.current
  BY AcceptedLike DEF Like, Pair, TypeOK
<1>2. /\ disk' \in {disk, s} /\ st' = s
      /\ pc' \in {"open", "uncertain"} /\ UNCHANGED <<loaded, adrift>> /\ Ready
  BY WaysToWrite DEF Accept, Persist, history, nginx
<1> HIDE DEF s
<1>3. disk'.current = disk.current /\ st'.current = disk.current
  BY <1>1, <1>2
<1>4. adrift \/ loaded = disk.current
  BY <1>2 DEF Served, Loaded
<1> QED BY <1>2, <1>3, <1>4, EarlyLoaded DEF Early

LEMMA NextApplying ==
    ASSUME AppliesOnly, Applying, [Next]_vars
    PROVE  Applying'
<1> DEFINE Moving == op' \in {"none", "startup", "apply"} /\ pc' \notin Elsewhere
<1>1. ASSUME Step PROVE Moving
  <2>1. op' \in {op, "none"} /\ pc' \notin Elsewhere
    BY <1>1 DEF Step, OpenTarget, SaveVerifyBaseline, CancelBaseline,
       AnswerResumable, Skip, SaveSkipped, GoOn, SavePrepare, RunPrepare,
       SaveIntent, SaveSwitch, Switch, SaveTest, NginxTest, SaveReload,
       NginxReload, SaveVerify, VerifyActivation, Commit, CommitGitStage,
       SaveTested, Fail, RestoreLink, RestoreTest, RestoreReload, RestoreVerify,
       Restored, Uncertain, SavePhase, StepFails, Finish, Persist, Return, Goto,
       Applying, Elsewhere
  <2> QED BY <2>1 DEF Applying
<1>2. ASSUME NEW r \in Releases, NEW c \in Commits, NEW o, Publish(r, c, o)
      PROVE  Moving
  BY <1>2 DEF Publish, Accept, Persist, AppliesOnly, Applying, Elsewhere
<1>3. ASSUME Start \/ Crash PROVE Moving
  BY <1>3 DEF Start, StartIdle, StartWithoutIntent, StartWithIntent, Recovering, Crash,
     Applying, Elsewhere
<1>4. ASSUME NEW r \in Releases,
             \/ \E original \in Releases : RestoreOf(r, original)
             \/ ReadRollback(r) \/ StageRollback(r)
             \/ \E o \in Commands : Command(r, o)
      PROVE  FALSE
  BY <1>4 DEF RestoreOf, ReadRollback, StageRollback, Command, AppliesOnly, Commands,
     Applying
<1>5. ASSUME \/ \E r \in Releases : Replay(r)
             \/ RefuseRollback \/ RefuseBlocked \/ LoadFails \/ UNCHANGED vars
      PROVE  Moving
  BY <1>5 DEF Replay, RefuseRollback, RefuseBlocked, LoadFails,
     vars, transaction, Applying
<1>6. Moving
  BY <1>1, <1>2, <1>3, <1>4, <1>5 DEF Next, Commands
<1>7. ticket' = NoRequest
  BY <1>4, TicketsAreRead DEF Applying
<1> QED BY <1>6, <1>7 DEF Applying

LEMMA NextServed ==
    ASSUME AppliesOnly, TypeOK, TypeOK', Announced, Announced', Settled, Served,
           [Next]_vars
    PROVE  Served'
<1>1. Applying'
  BY NextApplying DEF Served
<1>2. Loaded'
  <2>1. CASE Step
    BY <2>1, StepLoaded
  <2>2. CASE Start \/ Crash
    BY <2>2, StartLoaded
  <2>3. ASSUME NEW r \in Releases,
               \/ \E c \in Commits, o \in {"apply", "stage"} : Publish(r, c, o)
               \/ \E original \in Releases : RestoreOf(r, original)
               \/ StageRollback(r)
        PROVE  Loaded'
    BY <2>3, AcceptLoaded DEF Publish, RestoreOf, StageRollback
  <2>4. ASSUME NEW r \in Releases, NEW o \in Commands, Command(r, o)
        PROVE  FALSE
    BY <2>4 DEF Command, AppliesOnly, Commands
  <2>5. ASSUME \/ \E r \in Releases : ReadRollback(r) \/ Replay(r)
               \/ RefuseRollback \/ RefuseBlocked \/ UNCHANGED vars
        PROVE  Loaded'
    <3>1. UNCHANGED <<disk, loaded, st, rel, pc, adrift, blocked>>
      BY <2>5 DEF ReadRollback, Replay, RefuseRollback, RefuseBlocked,
         vars, transaction, rest, history, nginx
    <3> QED BY <3>1 DEF Served, Loaded, Answered, Rec, Ready, Idle
  <2>6. CASE LoadFails
    <3>1. UNCHANGED <<disk, loaded, adrift>> /\ pc' = "idle" /\ Ready
      BY <2>6 DEF LoadFails, transaction, history, nginx, Ready, Idle
    <3> QED BY <3>1, IdleLoaded DEF Served, Loaded
  <2> QED BY <2>1, <2>2, <2>3, <2>4, <2>5, <2>6 DEF Next, Commands
<1> QED BY <1>1, <1>2 DEF Served

LEMMA ServedThroughout == AppliesOnly => (Spec => [](Settled /\ Served))
<1> SUFFICES ASSUME AppliesOnly
             PROVE  Spec => [](Settled /\ Served)
  OBVIOUS
<1>1. Init => Settled /\ Announced
  BY DEF Init, Settled, Places, Pointed, LatestSettled, Astray, NewState, Early, Forward,
     Backward, Commands, Announced, Before, During
<1>2. Init => Served
  BY DEF Init, Served, Applying, Loaded, NewState, Early, Reloaded, Unloaded, Elsewhere
<1>3. TypeOK /\ Announced /\ [Next]_vars => Announced'
  BY NextAnnounced
<1>4. TypeOK /\ TypeOK' /\ Announced /\ Announced' /\ Settled /\ Served /\ [Next]_vars
          => (Settled /\ Served)'
  BY NextSettled, NextServed
<1> QED BY <1>1, <1>2, <1>3, <1>4, TypeCorrect, PTL DEF Spec

(* With nothing pending, the recorded version, the one latest points at    *)
(* and the one nginx runs are the same, whatever failed or crashed on the  *)
(* way: a failed reload, an undone switch, an interrupted startup.         *)
THEOREM ThreeAgree == AppliesOnly => (Spec => []LinkMatchesRecord)
<1> SUFFICES ASSUME AppliesOnly
             PROVE  Spec => []LinkMatchesRecord
  OBVIOUS
<1>1. Settled /\ Served => LinkMatchesRecord
  BY DEF Settled, Pointed, Served, Loaded, LinkMatchesRecord, Quiet
<1> QED BY <1>1, ServedThroughout, PTL

(* What is answered as skipped is a version that nginx runs.               *)
THEOREM SkippedAreServed == AppliesOnly => (Spec => []SkippedIsServed)
<1> SUFFICES ASSUME AppliesOnly
             PROVE  Spec => []SkippedIsServed
  OBVIOUS
<1>1. Settled /\ Served => SkippedIsServed
  BY DEF Settled, Pointed, Served, Loaded, SkippedIsServed, Early
<1> QED BY <1>1, ServedThroughout, PTL

-----------------------------------------------------------------------------
(* Where rollbacks go.  A release whose revision is the live one has, as   *)
(* its baseline, a version of the live pair; m revisions have been minted. *)

RootedRecord(record, s, m) ==
    /\ record.after <= m
    /\ record.after = s.revision => record.baseline \in {s.current, s.previous}
    /\ record.request.restoreOf # NoRelease =>
           record.request.commit \in {record.baseline, record.baselinePrevious}
Rooted(s, m) == \A r \in Releases : RootedRecord(s.records[r], s, m)

(* As long as nothing failed: it is the previous one that a release which  *)
(* succeeded found, and a release that nginx commands go on with did       *)
(* succeed, or is the active one.                                          *)
OrderlyRecord(record, r, s) ==
    /\ record.status = "succeeded" /\ record.after = s.revision
           => record.baseline = s.previous
    /\ record.intent /\ record.phase \in {"latest_switched", "nginx_test"}
           => record.status = "succeeded" \/ s.active = r
    /\ record.request.restoreOf # NoRelease =>
           record.request.commit = record.baselinePrevious
Orderly(s) == \A r \in Releases : OrderlyRecord(s.records[r], r, s)

Intends(s) == s.active # NoRelease /\ s.records[s.active].intent

Undisturbed ==
    /\ pc \notin {"uncertain", "recovery_failed"}
    /\ pc = "idle" => ~Intends(disk)
    /\ op \in Commands => ~Intends(st)
    /\ op \in Commands /\ pc \in {"save_test", "test", "tested"}
           => Rec.status = "succeeded"
    /\ pc \in Early \ {"save_switch", "switch"} =>
           /\ disk.active = rel /\ ~disk.records[rel].intent
           /\ st.active = rel /\ ~Rec.intent
    /\ op \notin Commands /\ pc \in {"commit", "commit_stage"} \cup Backward
           => st.active = rel

Smooth == faults = 0 => Orderly(disk) /\ Orderly(st) /\ Undisturbed

(* The states that a handler makes without a new revision.                 *)
InBetween(s) == \/ s \in {Prepared, WithIntent, Skipped, Tested, Undecided, Failed(st)}
                \/ \E name : s = WithPhase(name)
AtTheEnd(s) == \/ s = Failed(Reverted(minted + 1))
               \/ \E name : s = Succeeded(name)

LEMMA StepWrites ==
    ASSUME Step
    PROVE  \/ UNCHANGED <<disk, st, minted>>
           \/ \E s : /\ disk' \in {disk, s} /\ st' = s
                     /\ \/ InBetween(s) /\ minted' = minted
                        \/ AtTheEnd(s) /\ minted' = minted + 1
<1> DEFINE Writes(s) == disk' \in {disk, s} /\ st' = s
<1>1. CASE \/ OpenTarget \/ CancelBaseline \/ AnswerResumable \/ Skip \/ GoOn
           \/ Switch \/ NginxTest \/ NginxReload \/ VerifyActivation
           \/ RestoreLink \/ RestoreTest \/ RestoreReload \/ RestoreVerify
  <2>1. UNCHANGED <<disk, st, minted>>
    BY <1>1 DEF OpenTarget, CancelBaseline, AnswerResumable, Skip, GoOn, Switch,
       NginxTest, NginxReload, VerifyActivation, RestoreLink, RestoreTest,
       RestoreReload, RestoreVerify, StepFails, Goto, rest, history
  <2> QED BY <2>1
<1>2. ASSUME \E name, at, next, onError : SavePhase(at, name, next, onError)
      PROVE  \E s : Writes(s) /\ InBetween(s) /\ minted' = minted
  <2>1. PICK name, at, next, onError : SavePhase(at, name, next, onError)
    BY <1>2
  <2>2. Writes(WithPhase(name)) /\ minted' = minted
    BY <2>1, WaysToWrite DEF SavePhase, rest, history
  <2>3. InBetween(WithPhase(name))
    BY DEF InBetween
  <2> QED BY <2>2, <2>3
<1>3. CASE \/ SaveVerifyBaseline \/ SavePrepare \/ SaveSwitch \/ SaveTest
           \/ SaveReload \/ SaveVerify
  <2>1. \E name, at, next, onError : SavePhase(at, name, next, onError)
    BY <1>3 DEF SaveVerifyBaseline, SavePrepare, SaveSwitch, SaveTest, SaveReload,
       SaveVerify
  <2> QED BY <1>2, <2>1
<1>4. CASE RunPrepare \/ SaveIntent \/ Uncertain \/ SaveSkipped \/ SaveTested \/ Fail
  <2>1. \/ UNCHANGED <<disk, st, minted>>
        \/ \E s \in {Prepared, WithIntent, Skipped, Tested, Undecided, Failed(st)} :
               Writes(s) /\ minted' = minted
    BY <1>4, WaysToWrite DEF RunPrepare, SaveIntent, Uncertain, SaveSkipped, SaveTested,
       Fail, StepFails, Goto, rest, history
  <2> QED BY <2>1 DEF InBetween
<1>5. CASE Commit \/ CommitGitStage \/ Restored
  <2>1. PICK s \in {Succeeded("complete"), Succeeded("latest_switched"),
                    Failed(Reverted(minted + 1))} :
            Finish(s) /\ minted' = minted + 1
    BY <1>5 DEF Commit, CommitGitStage, Restored, Settle
  <2>2. Writes(s)
    BY <2>1, WaysToWrite
  <2>3. AtTheEnd(s)
    BY DEF AtTheEnd
  <2> QED BY <2>1, <2>2, <2>3
<1> QED BY <1>1, <1>3, <1>4, <1>5 DEF Step

(* A request is accepted by taking over.                                   *)
Accepted(r, q) == [Takeover(r) EXCEPT !.records[r] = NewRecord(q), !.active = r]

LEMMA TakeoverRecords ==
    ASSUME disk \in TargetState, NEW r \in Releases, NEW q \in Request
    PROVE  /\ Accepted(r, q).records[r] = NewRecord(q)
           /\ \A p \in Releases \ {r} :
                  \/ Accepted(r, q).records[p] = disk.records[p]
                  \/ /\ p = disk.active
                     /\ Accepted(r, q).records[p] =
                            [disk.records[p] EXCEPT !.status = "failed"]
           /\ Accepted(r, q).active = r
BY TakeoverTyped DEF Accepted, Takeover, TargetState

(* Every request that is not a command is accepted as an ordinary one.     *)
LEMMA RequestsAccepted ==
    ASSUME TypeOK, NEW r \in Releases,
           \/ \E c \in Commits, o \in {"apply", "stage"} : Publish(r, c, o)
           \/ \E original \in Releases : RestoreOf(r, original)
           \/ StageRollback(r)
    PROVE  \E q \in Request, o \in {"apply", "stage"} : Accept(r, q, o)
<1>1. ASSUME NEW c \in Commits, NEW o \in {"apply", "stage"}, Publish(r, c, o)
      PROVE  \E q \in Request : Accept(r, q, o)
  <2>1. [NoRequest EXCEPT !.commit = c] \in Request
    BY NewStateTyped, VersionsContain DEF Request
  <2> QED BY <1>1, <2>1 DEF Publish
<1>2. ASSUME NEW original \in Releases, RestoreOf(r, original)
      PROVE  \E q \in Request : Accept(r, q, "stage")
  <2>1. [commit |-> disk.records[original].baseline, restoreOf |-> original,
         expected |-> disk.revision] \in Request
    BY RecordsTyped DEF TypeOK, TargetState, Record, Request
  <2> QED BY <1>2, <2>1 DEF RestoreOf
<1>3. ASSUME StageRollback(r)
      PROVE  \E q \in Request : Accept(r, q, "stage")
  BY <1>3 DEF StageRollback, TypeOK
<1> QED BY <1>1, <1>2, <1>3

(* Nothing else happens to the states.                                     *)
LEMMA NextWrites ==
    ASSUME TypeOK, [Next]_vars
    PROVE  \/ Step
           \/ \E r \in Releases, q \in Request, o \in {"apply", "stage"} : Accept(r, q, o)
           \/ /\ disk' \in {disk, [disk EXCEPT !.recovery = FALSE],
                            [disk EXCEPT !.recovery = TRUE]}
              /\ st' \in {st, disk, [disk EXCEPT !.recovery = FALSE],
                          [disk EXCEPT !.recovery = TRUE]}
              /\ minted' = minted
<1>1. ASSUME NEW r \in Releases,
             \/ \E c \in Commits, o \in {"apply", "stage"} : Publish(r, c, o)
             \/ \E original \in Releases : RestoreOf(r, original)
             \/ StageRollback(r)
      PROVE  \E q \in Request, o \in {"apply", "stage"} : Accept(r, q, o)
  BY <1>1, RequestsAccepted
<1>2. ASSUME NEW r \in Releases, NEW o, Command(r, o)
      PROVE  disk' = disk /\ st' = disk /\ minted' = minted
  BY <1>2 DEF Command, rest, history
<1>3. ASSUME \/ \E r \in Releases : ReadRollback(r) \/ Replay(r)
             \/ RefuseRollback \/ RefuseBlocked \/ LoadFails \/ UNCHANGED vars
      PROVE  UNCHANGED <<disk, st, minted>>
  BY <1>3 DEF ReadRollback, Replay, RefuseRollback, RefuseBlocked, LoadFails,
     vars, transaction, rest, history
<1>4. ASSUME Start \/ Crash
      PROVE  /\ disk' \in {disk, [disk EXCEPT !.recovery = FALSE],
                            [disk EXCEPT !.recovery = TRUE]}
             /\ st' \in {disk, [disk EXCEPT !.recovery = FALSE],
                         [disk EXCEPT !.recovery = TRUE]}
             /\ minted' = minted
  BY <1>4 DEF Start, StartIdle, StartWithoutIntent, StartWithIntent, Save, Crash,
     rest, history
<1> QED BY <1>1, <1>2, <1>3, <1>4 DEF Next

-----------------------------------------------------------------------------
LEMMA RootedLater ==
    ASSUME NEW s \in TargetState, NEW m \in Nat, NEW n \in Nat, m <= n, Rooted(s, m)
    PROVE  Rooted(s, n)
<1>1. ASSUME NEW r \in Releases
      PROVE  s.records[r].after \in Nat
  BY RecordsTyped DEF Record
<1> QED BY <1>1 DEF Rooted, RootedRecord

(* Two records that have the same roots.                                   *)
Akin(record, other) == /\ record.after = other.after
                       /\ record.baseline = other.baseline
                       /\ record.baselinePrevious = other.baselinePrevious
                       /\ record.request = other.request

LEMMA AkinRooted ==
    ASSUME NEW s, NEW t, NEW m, Rooted(t, m), Like(s, t),
           \A r \in Releases : Akin(s.records[r], t.records[r])
    PROVE  Rooted(s, m)
BY DEF Rooted, RootedRecord, Akin, Like, Pair

LEMMA InBetweenRooted ==
    ASSUME st \in TargetState, rel \in Releases, NEW s, InBetween(s), NEW m, Rooted(st, m)
    PROVE  Rooted(s, m)
<1>1. Like(s, st)
  BY WorkingCopyLike DEF InBetween
<1>2. \A r \in Releases : Akin(s.records[r], st.records[r])
  <2>1. Rec \in Record /\ st.records \in [Releases -> Record]
    BY RecordsTyped DEF Rec, TargetState
  <2>2. ASSUME NEW record, Akin(record, Rec),
               s.records = [st.records EXCEPT ![rel] = record]
        PROVE  \A r \in Releases : Akin(s.records[r], st.records[r])
    BY <2>1, <2>2 DEF Akin, Rec
  <2>3. CASE \E name : s = WithPhase(name)
    <3>1. PICK name : s = WithPhase(name)
      BY <2>3
    <3>2. s.records = [st.records EXCEPT ![rel] = [Rec EXCEPT !.phase = name]]
      BY <3>1 DEF WithPhase, Rec, TargetState
    <3>3. Akin([Rec EXCEPT !.phase = name], Rec)
      BY <2>1 DEF Akin, Record
    <3> QED BY <2>2, <3>2, <3>3
  <2>4. CASE s = Prepared
    <3>1. s.records = [st.records EXCEPT ![rel] =
                           [Rec EXCEPT !.candidate = Rec.request.commit]]
      BY <2>4 DEF Prepared, Rec, TargetState
    <3>2. Akin([Rec EXCEPT !.candidate = Rec.request.commit], Rec)
      BY <2>1 DEF Akin, Record
    <3> QED BY <2>2, <3>1, <3>2
  <2>5. CASE s = WithIntent
    <3>1. s.records = [st.records EXCEPT ![rel] =
                           [Rec EXCEPT !.intent = TRUE, !.phase = "switch_intent"]]
      BY <2>5 DEF WithIntent, Rec, TargetState
    <3>2. Akin([Rec EXCEPT !.intent = TRUE, !.phase = "switch_intent"], Rec)
      BY <2>1 DEF Akin, Record
    <3> QED BY <2>2, <3>1, <3>2
  <2>6. CASE s = Skipped
    <3>1. s.records = [st.records EXCEPT ![rel] =
                           [Rec EXCEPT !.status = "skipped", !.phase = "complete"]]
      BY <2>6 DEF Skipped, Rec, TargetState
    <3>2. Akin([Rec EXCEPT !.status = "skipped", !.phase = "complete"], Rec)
      BY <2>1 DEF Akin, Record
    <3> QED BY <2>2, <3>1, <3>2
  <2>7. CASE s = Tested
    <3>1. s.records = [st.records EXCEPT ![rel] =
                           [Rec EXCEPT !.tested = TRUE, !.status = "succeeded",
                                       !.phase = "nginx_test_succeeded"]]
      BY <2>7 DEF Tested, Rec, TargetState
    <3>2. Akin([Rec EXCEPT !.tested = TRUE, !.status = "succeeded",
                           !.phase = "nginx_test_succeeded"], Rec)
      BY <2>1 DEF Akin, Record
    <3> QED BY <2>2, <3>1, <3>2
  <2>8. CASE s = Undecided
    <3>1. s.records = [st.records EXCEPT ![rel] =
                           [Rec EXCEPT !.status = "recovery_required"]]
      BY <2>8 DEF Undecided, Rec, TargetState
    <3>2. Akin([Rec EXCEPT !.status = "recovery_required"], Rec)
      BY <2>1 DEF Akin, Record
    <3> QED BY <2>2, <3>1, <3>2
  <2>9. CASE s = Failed(st)
    <3>1. s.records = [st.records EXCEPT ![rel] = [Rec EXCEPT !.status = "failed"]]
      BY <2>9 DEF Failed, Rec, TargetState
    <3>2. Akin([Rec EXCEPT !.status = "failed"], Rec)
      BY <2>1 DEF Akin, Record
    <3> QED BY <2>2, <3>1, <3>2
  <2> QED BY <2>3, <2>4, <2>5, <2>6, <2>7, <2>8, <2>9 DEF InBetween
<1> QED BY <1>1, <1>2, AkinRooted

(* What the ends make of the records.                                      *)
LEMMA AtTheEndRecords ==
    ASSUME st \in TargetState, rel \in Releases, minted \in Nat, NEW s, AtTheEnd(s)
    PROVE  /\ s.revision = minted + 1 /\ s.active = NoRelease
           /\ \A r \in Releases \ {rel} : s.records[r] = st.records[r]
           /\ LET record == s.records[rel] IN
              /\ record.after = minted + 1
              /\ record.baseline = Rec.baseline
              /\ record.baselinePrevious = Rec.baselinePrevious
              /\ record.request = Rec.request
              /\ \/ record.status = "succeeded" /\ record.baseline = s.previous
                 \/ /\ record.status = "failed" /\ record.phase = "restored"
                    /\ record.baseline = s.current
<1>1. Rec \in Record /\ st.records \in [Releases -> Record]
  BY RecordsTyped DEF Rec, TargetState
<1>2. CASE s = Failed(Reverted(minted + 1))
  <2> DEFINE record == [Rec EXCEPT !.status = "failed", !.phase = "restored",
                                   !.after = minted + 1]
  <2>1. /\ s.records = [st.records EXCEPT ![rel] = record]
        /\ s.active = NoRelease /\ s.revision = minted + 1 /\ s.current = Rec.baseline
    BY <1>1, <1>2 DEF Failed, Reverted, Rec, TargetState, Record
  <2> QED BY <1>1, <2>1 DEF Record
<1>3. ASSUME NEW name, s = Succeeded(name)
      PROVE  /\ s.records = [st.records EXCEPT ![rel] =
                                 [Rec EXCEPT !.status = "succeeded", !.phase = name,
                                             !.after = minted + 1]]
             /\ s.active = NoRelease /\ s.revision = minted + 1
             /\ s.previous = Rec.baseline
  BY <1>1, <1>3 DEF Succeeded, Rec, TargetState
<1>4. CASE \E name : s = Succeeded(name)
  <2>1. PICK name : s = Succeeded(name)
    BY <1>4
  <2> DEFINE record == [Rec EXCEPT !.status = "succeeded", !.phase = name,
                                   !.after = minted + 1]
  <2>2. /\ s.records = [st.records EXCEPT ![rel] = record]
        /\ s.active = NoRelease /\ s.revision = minted + 1 /\ s.previous = Rec.baseline
    BY <1>3, <2>1
  <2> QED BY <1>1, <2>2 DEF Record
<1> QED BY <1>2, <1>4 DEF AtTheEnd

LEMMA AtTheEndRooted ==
    ASSUME st \in TargetState, rel \in Releases, minted \in Nat, Rooted(st, minted),
           NEW s, AtTheEnd(s)
    PROVE  Rooted(s, minted + 1)
<1>1. ASSUME NEW r \in Releases \ {rel}
      PROVE  RootedRecord(s.records[r], s, minted + 1)
  <2>1. s.records[r] = st.records[r] /\ s.revision = minted + 1
    BY AtTheEndRecords
  <2>2. st.records[r].after \in Nat /\ st.records[r].after <= minted
    BY RecordsTyped DEF Record, Rooted, RootedRecord
  <2> QED BY <2>1, <2>2 DEF Rooted, RootedRecord
<1>2. RootedRecord(s.records[rel], s, minted + 1)
  <2>1. RootedRecord(Rec, st, minted)
    BY DEF Rooted, Rec
  <2>2. /\ s.records[rel].after = minted + 1
        /\ s.records[rel].baseline \in {s.current, s.previous}
        /\ s.records[rel].baseline = Rec.baseline
        /\ s.records[rel].baselinePrevious = Rec.baselinePrevious
        /\ s.records[rel].request = Rec.request
    BY AtTheEndRecords
  <2> QED BY <2>1, <2>2 DEF RootedRecord
<1> QED BY <1>1, <1>2 DEF Rooted

(* The new record has the pair as its baselines, and a request to undo a   *)
(* release whose revision is live names the baseline of that one.          *)
LEMMA AcceptedRooted ==
    ASSUME disk \in TargetState, NEW m \in Nat, Rooted(disk, m), disk.revision <= m,
           NEW r \in Releases, NEW q \in Request, StillHolds(q)
    PROVE  Rooted(Accepted(r, q), m)
<1> DEFINE s == Accepted(r, q)
<1>1. Like(s, disk)
  BY AcceptedLike DEF Accepted
<1>2. /\ NewRecord(q).after = disk.revision /\ NewRecord(q).request = q
      /\ NewRecord(q).baseline = disk.current
      /\ NewRecord(q).baselinePrevious = disk.previous
  BY DEF NewRecord, NoRecord
<1>3. RootedRecord(NewRecord(q), s, m)
  <2>1. ASSUME q.restoreOf # NoRelease
        PROVE  q.commit \in {disk.current, disk.previous}
    <3>1. q.restoreOf \in Releases
      BY <2>1 DEF Request
    <3>2. /\ disk.records[q.restoreOf].after = disk.revision
          /\ q.commit = disk.records[q.restoreOf].baseline
      BY <2>1 DEF StillHolds
    <3> QED BY <3>1, <3>2 DEF Rooted, RootedRecord
  <2> QED BY <1>1, <1>2, <2>1 DEF RootedRecord, Like, Pair
<1>4. ASSUME NEW p \in Releases \ {r}
      PROVE  RootedRecord(s.records[p], s, m)
  <2>1. Akin(s.records[p], disk.records[p])
    <3>1. disk.records[p] \in Record
      BY RecordsTyped
    <3>2. \/ s.records[p] = disk.records[p]
          \/ s.records[p] = [disk.records[p] EXCEPT !.status = "failed"]
      BY TakeoverRecords
    <3> HIDE DEF s
    <3> QED BY <3>1, <3>2 DEF Akin, Record
  <2>2. RootedRecord(disk.records[p], disk, m)
    BY DEF Rooted
  <2> HIDE DEF s
  <2> QED BY <1>1, <2>1, <2>2 DEF RootedRecord, Akin, Like, Pair
<1>5. s.records[r] = NewRecord(q)
  BY TakeoverRecords
<1> QED BY <1>3, <1>4, <1>5 DEF Rooted

BothRooted == Rooted(disk, minted) /\ Rooted(st, minted)

LEMMA NextRooted ==
    ASSUME TypeOK, TypeOK', Revisions, BothRooted, [Next]_vars
    PROVE  BothRooted'
<1>1. disk \in TargetState /\ st \in TargetState /\ minted \in Nat
  BY DEF TypeOK
<1>2. CASE Step
  <2>1. rel \in Releases
    BY <1>2, StepHasRelease
  <2>2. CASE UNCHANGED <<disk, st, minted>>
    BY <2>2 DEF BothRooted
  <2>3. ASSUME NEW s, disk' \in {disk, s}, st' = s, InBetween(s), minted' = minted
        PROVE  BothRooted'
    <3>1. Rooted(s, minted)
      BY <1>1, <2>1, <2>3, InBetweenRooted DEF BothRooted
    <3> QED BY <2>3, <3>1 DEF BothRooted
  <2>4. ASSUME NEW s, disk' \in {disk, s}, st' = s, AtTheEnd(s), minted' = minted + 1
        PROVE  BothRooted'
    <3>1. Rooted(s, minted + 1)
      BY <1>1, <2>1, <2>4, AtTheEndRooted DEF BothRooted
    <3>2. Rooted(disk, minted + 1)
      <4>1. minted + 1 \in Nat /\ minted <= minted + 1
        BY <1>1
      <4> QED BY <1>1, <4>1, RootedLater DEF BothRooted
    <3> QED BY <2>4, <3>1, <3>2 DEF BothRooted
  <2> QED BY <1>2, <2>2, <2>3, <2>4, StepWrites
<1>3. ASSUME NEW r \in Releases, NEW q \in Request, NEW o, Accept(r, q, o)
      PROVE  BothRooted'
  <2>1. disk.revision <= minted
    <3>1. disk.revision \in Nat /\ st.revision \in Nat
      BY <1>1, RevisionsTyped
    <3> QED BY <1>1, <3>1 DEF Revisions
  <2>2. Rooted(Accepted(r, q), minted)
    BY <1>1, <1>3, <2>1, AcceptedRooted DEF Accept, BothRooted
  <2>3. disk' \in {disk, Accepted(r, q)} /\ st' = Accepted(r, q) /\ minted' = minted
    BY <1>3, WaysToWrite DEF Accept, Accepted, history
  <2> QED BY <2>2, <2>3 DEF BothRooted
<1>4. ASSUME /\ disk' \in {disk, [disk EXCEPT !.recovery = FALSE],
                           [disk EXCEPT !.recovery = TRUE]}
             /\ st' \in {st, disk, [disk EXCEPT !.recovery = FALSE],
                         [disk EXCEPT !.recovery = TRUE]}
             /\ minted' = minted
      PROVE  BothRooted'
  <2>1. ASSUME NEW b
        PROVE  Rooted([disk EXCEPT !.recovery = b], minted)
    BY <1>1 DEF BothRooted, Rooted, RootedRecord, TargetState
  <2> QED BY <1>4, <2>1 DEF BothRooted
<1> QED BY <1>2, <1>3, <1>4, NextWrites

-----------------------------------------------------------------------------
(* The part that holds as long as nothing failed.                          *)

LEMMA NoneFailed ==
    ASSUME faults \in Nat, faults' = 0
    PROVE  /\ \A kind : ~Fault(kind)
           /\ \A kind, onError : ~StepFails(kind, onError)
           /\ \A s, next, onError :
                  Persist(s, next, onError) => disk' = s /\ st' = s /\ pc' = next
           /\ \A s : Finish(s) => disk' = s /\ st' = s /\ pc' = "idle" /\ op' = "none"
<1>1. \A kind : ~Fault(kind)
  BY DEF Fault
<1> QED BY <1>1 DEF StepFails, Persist, Finish, Save, SaveFails, Return

LEMMA FaultsGrow ==
    ASSUME [Next]_vars
    PROVE  faults' \in {faults, faults + 1}
<1> DEFINE Grow == faults' \in {faults, faults + 1}
<1>1. ASSUME NEW kind, Fault(kind)
      PROVE  Grow
  BY <1>1 DEF Fault
<1>2. ASSUME NEW s, Save(s) \/ SaveFails(s)
      PROVE  Grow
  BY <1>1, <1>2 DEF Save, SaveFails
<1>3. ASSUME NEW s, NEW next, NEW onError, Persist(s, next, onError) \/ Finish(s)
      PROVE  Grow
  BY <1>2, <1>3 DEF Persist, Finish
<1>4. ASSUME \/ OpenTarget \/ CancelBaseline \/ AnswerResumable \/ Skip \/ GoOn
             \/ RunPrepare \/ Switch \/ NginxTest \/ NginxReload \/ VerifyActivation
             \/ RestoreLink \/ RestoreTest \/ RestoreReload \/ RestoreVerify \/ Uncertain
      PROVE  Grow
  BY <1>1, <1>4 DEF OpenTarget, CancelBaseline, AnswerResumable, Skip, GoOn, RunPrepare,
     Switch, NginxTest, NginxReload, VerifyActivation, RestoreLink, RestoreTest,
     RestoreReload, RestoreVerify, Uncertain, StepFails
<1>5. ASSUME \/ SaveVerifyBaseline \/ SavePrepare \/ SaveSwitch \/ SaveTest
             \/ SaveReload \/ SaveVerify \/ SaveIntent \/ SaveSkipped \/ SaveTested
             \/ Fail \/ Commit \/ CommitGitStage \/ Restored
      PROVE  Grow
  BY <1>3, <1>5 DEF SaveVerifyBaseline, SavePrepare, SaveSwitch, SaveTest, SaveReload,
     SaveVerify, SavePhase, SaveIntent, SaveSkipped, SaveTested, Fail, Commit,
     CommitGitStage, Restored
<1>6. ASSUME NEW r \in Releases, NEW q, NEW o, Accept(r, q, o)
      PROVE  Grow
  BY <1>3, <1>6 DEF Accept
<1>7. ASSUME NEW r \in Releases, NEW o, Command(r, o)
      PROVE  Grow
  BY <1>1, <1>7 DEF Command
<1>8. ASSUME Start \/ Crash
      PROVE  Grow
  BY <1>1, <1>2, <1>8 DEF Start, StartIdle, StartWithoutIntent, StartWithIntent, Crash
<1>9. ASSUME \/ \E r \in Releases : ReadRollback(r) \/ Replay(r)
             \/ RefuseRollback \/ RefuseBlocked \/ LoadFails \/ UNCHANGED vars
      PROVE  Grow
  BY <1>1, <1>9 DEF ReadRollback, Replay, RefuseRollback, RefuseBlocked, LoadFails, vars
<1> QED BY <1>4, <1>5, <1>6, <1>7, <1>8, <1>9
        DEF Next, Step, Publish, RestoreOf, StageRollback

(* The record of one release is another one.                               *)
LEMMA OthersOrderly ==
    ASSUME NEW s, NEW t, Orderly(t), NEW r \in Releases,
           \A p \in Releases \ {r} :
               /\ s.records[p] = t.records[p]
               /\ t.active = p /\ t.records[p].intent => s.active = p
               /\ \/ s.revision = t.revision /\ s.previous = t.previous
                  \/ s.records[p].after # s.revision,
           OrderlyRecord(s.records[r], r, s)
    PROVE  Orderly(s)
<1>1. ASSUME NEW p \in Releases \ {r}
      PROVE  OrderlyRecord(s.records[p], p, s)
  BY DEF Orderly, OrderlyRecord
<1> QED BY <1>1 DEF Orderly

(* Where readers of the working copy look: a phase, the intent, the        *)
(* candidate.                                                              *)
LEMMA OnTheWayOrderly ==
    ASSUME st \in TargetState, rel \in Releases, Orderly(st), NEW name
    PROVE  /\ (name \in {"latest_switched", "nginx_test"}
                   => Rec.status = "succeeded" \/ st.active = rel)
                  => Orderly(WithPhase(name))
           /\ Orderly(WithIntent)
           /\ ~Rec.intent => Orderly(Prepared)
<1>1. /\ Rec \in Record /\ st.records \in [Releases -> Record]
      /\ OrderlyRecord(Rec, rel, st)
  BY RecordsTyped DEF Rec, TargetState, Orderly
<1>2. ASSUME NEW s, NEW record, s.records = [st.records EXCEPT ![rel] = record],
             s.revision = st.revision, s.previous = st.previous, s.active = st.active,
             OrderlyRecord(record, rel, st)
      PROVE  Orderly(s)
  <2>1. \A p \in Releases \ {rel} :
            /\ s.records[p] = st.records[p]
            /\ st.active = p /\ st.records[p].intent => s.active = p
            /\ s.revision = st.revision /\ s.previous = st.previous
    BY <1>1, <1>2
  <2>2. s.records[rel] = record
    BY <1>1, <1>2
  <2>3. OrderlyRecord(s.records[rel], rel, s)
    BY <1>2, <2>2 DEF OrderlyRecord
  <2> QED BY <2>1, <2>3, OthersOrderly
<1>3. ASSUME name \in {"latest_switched", "nginx_test"}
                 => Rec.status = "succeeded" \/ st.active = rel
      PROVE  Orderly(WithPhase(name))
  <2> DEFINE record == [Rec EXCEPT !.phase = name]
  <2>1. /\ WithPhase(name).records = [st.records EXCEPT ![rel] = record]
        /\ WithPhase(name).revision = st.revision
        /\ WithPhase(name).previous = st.previous /\ WithPhase(name).active = st.active
    BY DEF WithPhase, Rec, TargetState
  <2>2. /\ record.status = Rec.status /\ record.after = Rec.after
        /\ record.baseline = Rec.baseline /\ record.phase = name
        /\ record.baselinePrevious = Rec.baselinePrevious
        /\ record.request = Rec.request
    BY <1>1 DEF Record
  <2> HIDE DEF record
  <2>3. OrderlyRecord(record, rel, st)
    BY <1>1, <1>3, <2>2 DEF OrderlyRecord
  <2> QED BY <1>2, <2>1, <2>3
<1>4. Orderly(WithIntent)
  <2> DEFINE record == [Rec EXCEPT !.intent = TRUE, !.phase = "switch_intent"]
  <2>1. /\ WithIntent.records = [st.records EXCEPT ![rel] = record]
        /\ WithIntent.revision = st.revision
        /\ WithIntent.previous = st.previous /\ WithIntent.active = st.active
    BY DEF WithIntent, Rec, TargetState
  <2>2. /\ record.status = Rec.status /\ record.after = Rec.after
        /\ record.baseline = Rec.baseline /\ record.phase = "switch_intent"
        /\ record.baselinePrevious = Rec.baselinePrevious
        /\ record.request = Rec.request
    BY <1>1 DEF Record
  <2> HIDE DEF record
  <2>3. OrderlyRecord(record, rel, st)
    BY <1>1, <2>2 DEF OrderlyRecord
  <2> QED BY <1>2, <2>1, <2>3
<1>5. ASSUME ~Rec.intent
      PROVE  Orderly(Prepared)
  <2> DEFINE record == [Rec EXCEPT !.candidate = Rec.request.commit]
  <2>1. /\ Prepared.records = [st.records EXCEPT ![rel] = record]
        /\ Prepared.revision = st.revision
        /\ Prepared.previous = st.previous /\ Prepared.active = st.active
    BY DEF Prepared, Rec, TargetState
  <2>2. /\ record.status = Rec.status /\ record.after = Rec.after
        /\ record.baseline = Rec.baseline /\ record.intent = Rec.intent
        /\ record.baselinePrevious = Rec.baselinePrevious
        /\ record.request = Rec.request
    BY <1>1 DEF Record
  <2> HIDE DEF record
  <2>3. OrderlyRecord(record, rel, st)
    BY <1>1, <1>5, <2>2 DEF OrderlyRecord
  <2> QED BY <1>2, <2>1, <2>3
<1> QED BY <1>3, <1>4, <1>5

(* A release that changed nothing ends.                                    *)
LEMMA GivenUpOrderly ==
    ASSUME st \in TargetState, rel \in Releases, Orderly(st), st.active = rel, ~Rec.intent
    PROVE  /\ Orderly(Skipped) /\ Orderly(Failed(st))
           /\ Skipped.active = NoRelease /\ Failed(st).active = NoRelease
<1>1. /\ Rec \in Record /\ st.records \in [Releases -> Record]
      /\ OrderlyRecord(Rec, rel, st)
  BY RecordsTyped DEF Rec, TargetState, Orderly
<1>2. ASSUME NEW s, NEW record, s.records = [st.records EXCEPT ![rel] = record],
             s.revision = st.revision, s.previous = st.previous,
             record.status # "succeeded", ~record.intent, record.request = Rec.request,
             record.baselinePrevious = Rec.baselinePrevious
      PROVE  Orderly(s)
  <2>1. \A p \in Releases \ {rel} :
            /\ s.records[p] = st.records[p]
            /\ st.active = p /\ st.records[p].intent => s.active = p
            /\ s.revision = st.revision /\ s.previous = st.previous
    BY <1>1, <1>2
  <2>2. s.records[rel] = record
    BY <1>1, <1>2
  <2>3. OrderlyRecord(s.records[rel], rel, s)
    BY <1>1, <1>2, <2>2 DEF OrderlyRecord
  <2> QED BY <2>1, <2>3, OthersOrderly
<1>3. Orderly(Skipped) /\ Skipped.active = NoRelease
  <2> DEFINE record == [Rec EXCEPT !.status = "skipped", !.phase = "complete"]
  <2>1. /\ Skipped.records = [st.records EXCEPT ![rel] = record]
        /\ Skipped.revision = st.revision /\ Skipped.previous = st.previous
        /\ Skipped.active = NoRelease
    BY DEF Skipped, Rec, TargetState
  <2>2. /\ record.status # "succeeded" /\ ~record.intent /\ record.request = Rec.request
        /\ record.baselinePrevious = Rec.baselinePrevious
    BY <1>1 DEF Record
  <2> HIDE DEF record
  <2> QED BY <1>2, <2>1, <2>2
<1>4. Orderly(Failed(st)) /\ Failed(st).active = NoRelease
  <2> DEFINE record == [Rec EXCEPT !.status = "failed"]
  <2>1. /\ Failed(st).records = [st.records EXCEPT ![rel] = record]
        /\ Failed(st).revision = st.revision /\ Failed(st).previous = st.previous
        /\ Failed(st).active = NoRelease
    BY DEF Failed, Rec, TargetState
  <2>2. /\ record.status # "succeeded" /\ ~record.intent /\ record.request = Rec.request
        /\ record.baselinePrevious = Rec.baselinePrevious
    BY <1>1 DEF Record
  <2> HIDE DEF record
  <2> QED BY <1>2, <2>1, <2>2
<1> QED BY <1>3, <1>4

(* A release is committed or restored; no other one intended to switch.    *)
LEMMA AtTheEndOrderly ==
    ASSUME st \in TargetState, rel \in Releases, minted \in Nat, Rooted(st, minted),
           Orderly(st), st.active = rel \/ ~Intends(st), NEW s, AtTheEnd(s)
    PROVE  Orderly(s) /\ s.active = NoRelease
<1>1. /\ s.revision = minted + 1 /\ s.active = NoRelease
      /\ \A p \in Releases \ {rel} : s.records[p] = st.records[p]
  BY AtTheEndRecords
<1>2. ASSUME NEW p \in Releases \ {rel}
      PROVE  /\ s.records[p] = st.records[p]
             /\ st.active = p /\ st.records[p].intent => s.active = p
             /\ s.records[p].after # s.revision
  <2>1. st.records[p].after \in Nat /\ st.records[p].after <= minted
    BY RecordsTyped DEF Record, Rooted, RootedRecord
  <2>2. s.records[p].after # s.revision
    BY <1>1, <2>1
  <2>3. ~(st.active = p /\ st.records[p].intent)
    BY NoReleaseAssumption DEF Intends
  <2> QED BY <1>1, <2>2, <2>3
<1>3. OrderlyRecord(s.records[rel], rel, s)
  <2>1. OrderlyRecord(Rec, rel, st)
    BY DEF Orderly, Rec
  <2>2. /\ s.records[rel].baselinePrevious = Rec.baselinePrevious
        /\ s.records[rel].request = Rec.request
        /\ \/ s.records[rel].status = "succeeded" /\ s.records[rel].baseline = s.previous
           \/ s.records[rel].status = "failed" /\ s.records[rel].phase = "restored"
    BY AtTheEndRecords
  <2> QED BY <2>1, <2>2 DEF OrderlyRecord
<1> QED BY <1>1, <1>2, <1>3, OthersOrderly

LEMMA TestedOrderly ==
    ASSUME st \in TargetState, rel \in Releases, Orderly(st), Rec.status = "succeeded",
           ~Intends(st)
    PROVE  Orderly(Tested) /\ ~Intends(Tested)
<1>1. /\ Rec \in Record /\ st.records \in [Releases -> Record]
      /\ OrderlyRecord(Rec, rel, st)
  BY RecordsTyped DEF Rec, TargetState, Orderly
<1> DEFINE record == [Rec EXCEPT !.tested = TRUE, !.status = "succeeded",
                                 !.phase = "nginx_test_succeeded"]
<1>2. /\ Tested.records = [st.records EXCEPT ![rel] = record]
      /\ Tested.revision = st.revision /\ Tested.previous = st.previous
      /\ Tested.active = st.active
  BY DEF Tested, Rec, TargetState
<1>3. /\ record.status = Rec.status /\ record.after = Rec.after
      /\ record.baseline = Rec.baseline /\ record.phase = "nginx_test_succeeded"
      /\ record.baselinePrevious = Rec.baselinePrevious
      /\ record.request = Rec.request /\ record.intent = Rec.intent
  BY <1>1 DEF Record
<1> HIDE DEF record
<1>4. \A p \in Releases \ {rel} :
          /\ Tested.records[p] = st.records[p]
          /\ st.active = p /\ st.records[p].intent => Tested.active = p
          /\ Tested.revision = st.revision /\ Tested.previous = st.previous
  BY <1>1, <1>2
<1>5. Tested.records[rel] = record
  BY <1>1, <1>2
<1>6. OrderlyRecord(Tested.records[rel], rel, Tested)
  BY <1>1, <1>2, <1>3, <1>5 DEF OrderlyRecord
<1>7. ~Intends(Tested)
  <2>1. st.active \in Releases \cup {NoRelease}
    BY DEF TargetState
  <2> QED BY <1>2, <1>3, <1>4, <1>5, <2>1 DEF Intends, Rec
<1> QED BY <1>4, <1>6, <1>7, OthersOrderly

LEMMA AcceptedOrderly ==
    ASSUME disk \in TargetState, Orderly(disk), ~Intends(disk),
           NEW r \in Releases, NEW q \in Request, StillHolds(q)
    PROVE  Orderly(Accepted(r, q))
<1> DEFINE s == Accepted(r, q)
<1>1. s.revision = disk.revision /\ s.previous = disk.previous /\ s.active = r
  BY AcceptedLike, TakeoverRecords DEF Accepted, Like, Pair
<1>2. /\ NewRecord(q).status = "running" /\ ~NewRecord(q).intent
      /\ NewRecord(q).request = q /\ NewRecord(q).baselinePrevious = disk.previous
  BY DEF NewRecord, NoRecord
<1>3. OrderlyRecord(NewRecord(q), r, s)
  <2>1. ASSUME q.restoreOf # NoRelease
        PROVE  q.commit = disk.previous
    <3>1. q.restoreOf \in Releases
      BY <2>1 DEF Request
    <3>2. /\ disk.records[q.restoreOf].status = "succeeded"
          /\ disk.records[q.restoreOf].after = disk.revision
          /\ q.commit = disk.records[q.restoreOf].baseline
      BY <2>1 DEF StillHolds
    <3> QED BY <3>1, <3>2 DEF Orderly, OrderlyRecord
  <2> QED BY <1>2, <2>1 DEF OrderlyRecord
<1>4. ASSUME NEW p \in Releases \ {r}
      PROVE  OrderlyRecord(s.records[p], p, s)
  <2>1. disk.records[p] \in Record /\ OrderlyRecord(disk.records[p], p, disk)
    BY RecordsTyped DEF Orderly
  <2>2. \/ s.records[p] = disk.records[p]
        \/ /\ s.records[p] = [disk.records[p] EXCEPT !.status = "failed"]
           /\ disk.active = p
    BY TakeoverRecords
  <2>3. disk.active = p => ~disk.records[p].intent
    BY NoReleaseAssumption DEF Intends
  <2> HIDE DEF s
  <2>4. CASE s.records[p] = disk.records[p]
    BY <1>1, <2>1, <2>3, <2>4 DEF OrderlyRecord
  <2>5. CASE /\ s.records[p] = [disk.records[p] EXCEPT !.status = "failed"]
             /\ disk.active = p
    <3>1. /\ s.records[p].status = "failed" /\ ~s.records[p].intent
          /\ s.records[p].request = disk.records[p].request
          /\ s.records[p].baselinePrevious = disk.records[p].baselinePrevious
      BY <2>1, <2>3, <2>5 DEF Record
    <3> QED BY <2>1, <3>1 DEF OrderlyRecord
  <2> QED BY <2>2, <2>4, <2>5
<1>5. s.records[r] = NewRecord(q)
  BY TakeoverRecords
<1> QED BY <1>3, <1>4, <1>5 DEF Orderly

(* Where the handler may stand.                                            *)
LEMMA RestUndisturbed ==
    ASSUME pc' \in {"idle", "off"}, op' = "none", pc' = "idle" => ~Intends(disk')
    PROVE  Undisturbed'
BY DEF Undisturbed, Commands, Early, Backward

LEMMA EarlyUndisturbed ==
    ASSUME pc' \in Early \ {"save_switch", "switch"}, op' \notin Commands,
           disk'.active = rel', ~disk'.records[rel'].intent, st'.active = rel', ~Rec'.intent
    PROVE  Undisturbed'
BY DEF Undisturbed, Early, Backward

LEMMA OnTheWayUndisturbed ==
    ASSUME pc' \in {"save_switch", "switch", "restore"} \cup Forward \cup Backward,
           op' \in Commands => ~Intends(st'),
           op' \in Commands /\ pc' \in {"save_test", "test", "tested"}
               => Rec'.status = "succeeded",
           op' \notin Commands /\ pc' \in {"commit", "commit_stage"} \cup Backward
               => st'.active = rel'
    PROVE  Undisturbed'
BY DEF Undisturbed, Early, Forward, Backward

LEMMA MoveUndisturbed ==
    ASSUME TypeOK, faults' = 0, Announced, Places, Undisturbed,
           \/ Switch \/ NginxTest \/ NginxReload \/ VerifyActivation
           \/ RestoreLink \/ RestoreTest \/ RestoreReload \/ RestoreVerify
    PROVE  Undisturbed'
<1>1. /\ UNCHANGED <<disk, st, rel, op>> /\ faults \in Nat
      /\ pc \in {"switch", "test", "reload", "verify", "restore"} \cup Backward
  BY DEF Switch, NginxTest, NginxReload, VerifyActivation, RestoreLink, RestoreTest,
     RestoreReload, RestoreVerify, StepFails, Goto, rest, history, Backward, TypeOK
<1>2. /\ pc' \in Forward \cup Backward
      /\ pc' \in {"save_test", "test", "tested"} => pc \in {"switch", "test"}
      /\ pc' \in {"commit", "commit_stage"} => pc \in {"switch", "verify"}
      /\ pc' \in Backward => pc \in {"restore"} \cup Backward
  BY <1>1, NoneFailed DEF Switch, NginxTest, NginxReload, VerifyActivation, RestoreLink,
     RestoreTest, RestoreReload, RestoreVerify, Goto, Forward, Backward
<1>3. pc = "switch" => op \notin Commands
  BY DEF Places, Forward, Backward
<1>4. op \notin Commands => st.active = rel
  <2>1. op \notin Commands /\ pc \in During => st.active = rel
    BY DEF Announced, Backed, Commands
  <2>2. op \notin Commands /\ pc \in Backward => st.active = rel
    BY DEF Undisturbed
  <2> QED BY <1>1, <2>1, <2>2 DEF During
<1>5. /\ op \in Commands => ~Intends(st)
      /\ op \in Commands /\ pc = "test" => Rec.status = "succeeded"
  BY DEF Undisturbed
<1> QED BY <1>1, <1>2, <1>3, <1>4, <1>5, OnTheWayUndisturbed DEF Rec

LEMMA PhaseSmooth ==
    ASSUME TypeOK, faults' = 0, Announced, Places, Orderly(disk), Orderly(st), Undisturbed,
           rel \in Releases,
           \/ SaveVerifyBaseline \/ SavePrepare \/ SaveSwitch \/ SaveTest \/ SaveReload
           \/ SaveVerify
    PROVE  Orderly(disk') /\ Orderly(st') /\ Undisturbed'
<1>1. st \in TargetState /\ faults \in Nat
  BY DEF TypeOK
<1>2. PICK name, next :
          /\ disk' = WithPhase(name) /\ st' = WithPhase(name) /\ pc' = next
          /\ UNCHANGED <<rel, op>>
          /\ \/ /\ pc \in Early \ {"save_switch", "switch"}
                /\ next \in Early \ {"save_switch", "switch"}
                /\ name \notin {"latest_switched", "nginx_test"}
             \/ /\ pc \in {"save_switch", "save_reload", "save_verify"}
                /\ next \in {"switch", "reload", "verify"}
                /\ name \notin {"latest_switched", "nginx_test"}
             \/ pc = "save_test" /\ next = "test"
  BY <1>1, NoneFailed DEF SaveVerifyBaseline, SavePrepare, SaveSwitch, SaveTest, SaveReload,
     SaveVerify, SavePhase, Early
<1>3. /\ st'.active = st.active /\ st'.records[rel].intent = Rec.intent
      /\ st'.records[rel].status = Rec.status
      /\ Intends(st') = Intends(st)
  <2>1. Rec \in Record /\ st.records \in [Releases -> Record]
    BY <1>1, RecordsTyped DEF Rec, TargetState
  <2>2. /\ st'.records = [st.records EXCEPT ![rel] = [Rec EXCEPT !.phase = name]]
        /\ st'.active = st.active
    BY <1>1, <1>2 DEF WithPhase, Rec, TargetState
  <2>3. /\ [Rec EXCEPT !.phase = name].intent = Rec.intent
        /\ [Rec EXCEPT !.phase = name].status = Rec.status
    BY <2>1 DEF Record
  <2>4. st.active \in Releases \cup {NoRelease}
    BY <1>1 DEF TargetState
  <2> QED BY <2>1, <2>2, <2>3, <2>4 DEF Intends, Rec
<1>4. pc = "save_test" => Rec.status = "succeeded" \/ st.active = rel
  <2>1. op \notin Commands /\ pc = "save_test" => st.active = rel
    BY DEF Announced, Backed, During, Commands
  <2> QED BY <2>1 DEF Undisturbed
<1>5. Orderly(WithPhase(name))
  <2>1. name \in {"latest_switched", "nginx_test"}
            => Rec.status = "succeeded" \/ st.active = rel
    BY <1>2, <1>4
  <2> QED BY <1>1, <2>1, OnTheWayOrderly
<1>6. CASE pc' \in Early \ {"save_switch", "switch"}
  <2>1. pc \in Early \ {"save_switch", "switch"}
    BY <1>2, <1>6 DEF Early
  <2>2. op \notin Commands
    BY <2>1 DEF Places, Early, Forward, Backward
  <2>3. st.active = rel /\ ~Rec.intent
    BY <2>1 DEF Undisturbed
  <2> QED BY <1>2, <1>3, <1>5, <1>6, <2>2, <2>3, EarlyUndisturbed DEF Rec
<1>7. CASE pc' \notin Early \ {"save_switch", "switch"}
  <2>1. /\ pc' \in {"switch", "reload", "verify", "test"}
        /\ pc' = "test" => pc = "save_test"
    BY <1>2, <1>7
  <2>2. /\ op \in Commands => ~Intends(st)
        /\ op \in Commands /\ pc = "save_test" => Rec.status = "succeeded"
    BY DEF Undisturbed
  <2>3. Undisturbed'
    BY <1>2, <1>3, <2>1, <2>2, OnTheWayUndisturbed DEF Rec, Forward, Backward
  <2> QED BY <1>2, <1>5, <2>3
<1> QED BY <1>6, <1>7

LEMMA StepSmooth ==
    ASSUME TypeOK, faults' = 0, Announced, Places, Rooted(st, minted),
           Orderly(disk), Orderly(st), Undisturbed, Step
    PROVE  Orderly(disk') /\ Orderly(st') /\ Undisturbed'
<1>1. /\ rel \in Releases /\ st \in TargetState /\ disk \in TargetState
      /\ minted \in Nat /\ faults \in Nat
  BY StepHasRelease DEF TypeOK
<1>2. CASE \/ SaveVerifyBaseline \/ SavePrepare \/ SaveSwitch \/ SaveTest
           \/ SaveReload \/ SaveVerify
  BY <1>1, <1>2, PhaseSmooth
<1>3. CASE \/ Switch \/ NginxTest \/ NginxReload \/ VerifyActivation
           \/ RestoreLink \/ RestoreTest \/ RestoreReload \/ RestoreVerify
  <2>1. UNCHANGED <<disk, st>>
    BY <1>3 DEF Switch, NginxTest, NginxReload, VerifyActivation, RestoreLink, RestoreTest,
       RestoreReload, RestoreVerify, StepFails, Goto
  <2> QED BY <1>3, <2>1, MoveUndisturbed
<1>4. pc \in Early \ {"save_switch", "switch"} =>
          /\ op \notin Commands
          /\ disk.active = rel /\ ~disk.records[rel].intent /\ st.active = rel /\ ~Rec.intent
  BY DEF Places, Early, Forward, Backward, Undisturbed
<1>5. CASE OpenTarget \/ CancelBaseline \/ Skip \/ GoOn
  <2>1. /\ pc \in Early \ {"save_switch", "switch"}
        /\ pc' \in Early \ {"save_switch", "switch"}
        /\ UNCHANGED <<disk, st, rel, op>>
    BY <1>1, <1>5, NoneFailed DEF OpenTarget, CancelBaseline, Skip, GoOn, Goto, Early
  <2> QED BY <1>4, <2>1, EarlyUndisturbed DEF Rec
<1>6. CASE RunPrepare
  <2>1. /\ pc = "run_prepare" /\ pc' = "switch_intent" /\ st' = Prepared
        /\ UNCHANGED <<disk, rel, op>>
    BY <1>1, <1>6, NoneFailed DEF RunPrepare
  <2>2. pc \in Early \ {"save_switch", "switch"} /\ pc' \in Early \ {"save_switch", "switch"}
    BY <2>1 DEF Early
  <2>3. Orderly(Prepared)
    BY <1>1, <1>4, <2>2, OnTheWayOrderly
  <2>4. Prepared.active = st.active /\ Prepared.records[rel].intent = Rec.intent
    <3>1. Rec \in Record
      BY <1>1, RecordsTyped DEF Rec
    <3> QED BY <1>1, <3>1 DEF Prepared, Rec, TargetState, Record
  <2> QED BY <1>4, <2>1, <2>2, <2>3, <2>4, EarlyUndisturbed DEF Rec
<1>7. CASE SaveIntent
  <2>1. /\ disk' = WithIntent /\ st' = WithIntent /\ pc' = "save_switch"
        /\ UNCHANGED op /\ pc \in Early \ {"save_switch", "switch"}
    BY <1>1, <1>7, NoneFailed DEF SaveIntent, Early
  <2>2. Orderly(WithIntent)
    BY <1>1, OnTheWayOrderly
  <2> QED BY <1>4, <2>1, <2>2, OnTheWayUndisturbed DEF Backward
<1>8. CASE SaveSkipped \/ Fail
  <2>1. PICK s \in {Skipped, Failed(st)} :
            disk' = s /\ st' = s /\ pc' = "idle" /\ op' = "none"
    BY <1>1, <1>8, NoneFailed DEF SaveSkipped, Fail
  <2>2. pc \in Early \ {"save_switch", "switch"}
    BY <1>8 DEF SaveSkipped, Fail, Early
  <2>3. Orderly(s) /\ ~Intends(s)
    BY <1>1, <1>4, <2>2, GivenUpOrderly DEF Intends
  <2> QED BY <2>1, <2>3, RestUndisturbed
<1>9. CASE Commit \/ CommitGitStage \/ Restored
  <2>1. PICK s \in {Succeeded("complete"), Succeeded("latest_switched"),
                    Failed(Reverted(minted + 1))} :
            disk' = s /\ st' = s /\ pc' = "idle" /\ op' = "none"
    BY <1>1, <1>9, NoneFailed DEF Commit, CommitGitStage, Restored
  <2>2. AtTheEnd(s)
    BY DEF AtTheEnd
  <2>3. st.active = rel \/ ~Intends(st)
    BY <1>9 DEF Commit, CommitGitStage, Restored, Undisturbed, Backward
  <2>4. Orderly(s) /\ ~Intends(s)
    BY <1>1, <2>2, <2>3, AtTheEndOrderly DEF Intends
  <2> QED BY <2>1, <2>4, RestUndisturbed
<1>10. CASE SaveTested
  <2>1. /\ disk' = Tested /\ st' = Tested /\ pc' = "idle" /\ op' = "none"
        /\ pc = "tested"
    BY <1>1, <1>10, NoneFailed DEF SaveTested
  <2>2. op \in Commands
    BY <2>1 DEF Places, Commands
  <2>3. Rec.status = "succeeded" /\ ~Intends(st)
    BY <2>1, <2>2 DEF Undisturbed
  <2>4. Orderly(Tested) /\ ~Intends(Tested)
    BY <1>1, <2>3, TestedOrderly
  <2> QED BY <2>1, <2>4, RestUndisturbed
<1>11. CASE AnswerResumable
  <2>1. /\ UNCHANGED <<disk, st>> /\ pc' = "idle" /\ op' = "none"
        /\ pc \in Early \ {"save_switch", "switch"}
    BY <1>11 DEF AnswerResumable, Early
  <2>2. ~Intends(disk)
    BY <1>4, <2>1 DEF Intends
  <2> QED BY <2>1, <2>2, RestUndisturbed
<1>12. CASE Uncertain
  BY <1>12 DEF Uncertain, Undisturbed
<1> QED BY <1>2, <1>3, <1>5, <1>6, <1>7, <1>8, <1>9, <1>10, <1>11, <1>12 DEF Step

LEMMA AcceptSmooth ==
    ASSUME TypeOK, faults' = 0, Orderly(disk), Undisturbed,
           NEW r \in Releases, NEW q \in Request, NEW o \in {"apply", "stage"},
           Accept(r, q, o)
    PROVE  Orderly(disk') /\ Orderly(st') /\ Undisturbed'
<1>1. disk \in TargetState /\ faults \in Nat
  BY DEF TypeOK
<1>2. ~Intends(disk) /\ StillHolds(q)
  BY DEF Accept, Ready, Idle, Undisturbed
<1>3. /\ disk' = Accepted(r, q) /\ st' = Accepted(r, q)
      /\ pc' = "open" /\ rel' = r /\ op' = o
  BY <1>1, NoneFailed DEF Accept, Accepted
<1>4. Orderly(Accepted(r, q))
  BY <1>1, <1>2, AcceptedOrderly
<1>5. Accepted(r, q).active = r /\ ~Accepted(r, q).records[r].intent
  <2>1. ~NewRecord(q).intent
    BY DEF NewRecord, NoRecord
  <2>2. Accepted(r, q).active = r /\ Accepted(r, q).records[r] = NewRecord(q)
    BY <1>1, TakeoverRecords
  <2> QED BY <2>1, <2>2
<1>6. Undisturbed'
  BY <1>3, <1>5, EarlyUndisturbed DEF Rec, Early, Commands
<1> QED BY <1>3, <1>4, <1>6

LEMMA CommandSmooth ==
    ASSUME TypeOK, faults' = 0, Orderly(disk), Undisturbed,
           NEW r \in Releases, NEW o \in Commands, Command(r, o)
    PROVE  Orderly(disk') /\ Orderly(st') /\ Undisturbed'
<1>1. faults \in Nat /\ ~Intends(disk)
  BY DEF TypeOK, Command, Ready, Idle, Undisturbed
<1>2. /\ disk' = disk /\ st' = disk /\ rel' = r /\ op' = o
      /\ disk.records[r].intent
      /\ pc' = Entry(o, disk.records[r]) /\ pc' # "refused"
  BY <1>1, NoneFailed DEF Command
<1>3. /\ pc' \in {"restore", "save_test", "save_reload"}
      /\ pc' = "save_test" => disk.records[r].phase \in {"latest_switched", "nginx_test"}
  BY <1>2 DEF Entry
<1>4. pc' = "save_test" => disk.records[r].status = "succeeded"
  <2>1. disk.active # r
    BY <1>1, <1>2, NoReleaseAssumption DEF Intends
  <2> QED BY <1>2, <1>3, <2>1 DEF Orderly, OrderlyRecord
<1>5. ~Intends(st')
  BY <1>1, <1>2
<1>6. Undisturbed'
  BY <1>2, <1>3, <1>4, <1>5, OnTheWayUndisturbed DEF Rec, Forward, Backward
<1> QED BY <1>2, <1>6

LEMMA StartSmooth ==
    ASSUME TypeOK, faults' = 0, Places, Orderly(disk), Undisturbed, Start \/ Crash
    PROVE  Orderly(disk') /\ Orderly(st') /\ Undisturbed'
<1>1. disk \in TargetState /\ faults \in Nat
  BY DEF TypeOK
<1>2. /\ Orderly([disk EXCEPT !.recovery = FALSE])
      /\ [disk EXCEPT !.recovery = FALSE].active = disk.active
      /\ [disk EXCEPT !.recovery = FALSE].records = disk.records
  BY <1>1 DEF Orderly, OrderlyRecord, TargetState
<1>3. CASE StartIdle
  <2>1. /\ disk' \in {disk, [disk EXCEPT !.recovery = FALSE]} /\ st' = disk'
        /\ pc' = "idle" /\ op' = op /\ pc = "off" /\ disk.active = NoRelease
    BY <1>1, <1>3, NoneFailed DEF StartIdle, Save
  <2>2. ~Intends(disk') /\ Orderly(disk')
    BY <1>2, <2>1 DEF Intends
  <2>3. op' = "none"
    BY <2>1 DEF Places
  <2> QED BY <2>1, <2>2, <2>3, RestUndisturbed
<1>4. CASE StartWithoutIntent
  <2>1. /\ disk' = disk /\ st' = [disk EXCEPT !.recovery = FALSE]
        /\ pc' = "fail" /\ op' = "startup" /\ rel' = disk.active
        /\ ~disk.records[disk.active].intent
    BY <1>4 DEF StartWithoutIntent, Recovering
  <2> QED BY <1>2, <2>1, EarlyUndisturbed DEF Rec, Early, Commands
<1>5. CASE StartWithIntent
  <2>1. /\ disk' = disk /\ st' = disk /\ op' = "startup"
        /\ pc' \in {"test", "restore"}
    BY <1>1, <1>5, NoneFailed DEF StartWithIntent, Recovering
  <2> QED BY <2>1, OnTheWayUndisturbed DEF Forward, Backward, Commands
<1>6. CASE Crash
  BY <1>6, RestUndisturbed DEF Crash
<1> QED BY <1>3, <1>4, <1>5, <1>6 DEF Start

LEMMA NextSmooth ==
    ASSUME TypeOK, Announced, Places, BothRooted, Smooth, [Next]_vars
    PROVE  Smooth'
<1> SUFFICES ASSUME faults' = 0
             PROVE  Orderly(disk') /\ Orderly(st') /\ Undisturbed'
  BY DEF Smooth
<1>1. Orderly(disk) /\ Orderly(st) /\ Undisturbed
  <2>1. faults \in Nat /\ faults' \in {faults, faults + 1}
    BY FaultsGrow DEF TypeOK
  <2>2. faults = 0
    BY <2>1
  <2> QED BY <2>2 DEF Smooth
<1>2. CASE Step
  BY <1>1, <1>2, StepSmooth DEF BothRooted
<1>3. ASSUME NEW r \in Releases,
             \/ \E c \in Commits, o \in {"apply", "stage"} : Publish(r, c, o)
             \/ \E original \in Releases : RestoreOf(r, original)
             \/ StageRollback(r)
      PROVE  Orderly(disk') /\ Orderly(st') /\ Undisturbed'
  BY <1>1, <1>3, RequestsAccepted, AcceptSmooth
<1>4. ASSUME NEW r \in Releases, NEW o \in {"test", "reload", "abort"}, Command(r, o)
      PROVE  Orderly(disk') /\ Orderly(st') /\ Undisturbed'
  BY <1>1, <1>4, CommandSmooth DEF Commands
<1>5. CASE Start \/ Crash
  BY <1>1, <1>5, StartSmooth
<1>6. ASSUME \/ \E r \in Releases : ReadRollback(r) \/ Replay(r)
             \/ RefuseRollback \/ RefuseBlocked \/ LoadFails \/ UNCHANGED vars
      PROVE  Orderly(disk') /\ Orderly(st') /\ Undisturbed'
  <2>1. UNCHANGED <<disk, st, pc, rel, op>>
    BY <1>6 DEF ReadRollback, Replay, RefuseRollback, RefuseBlocked, LoadFails,
       vars, transaction, rest
  <2> QED BY <1>1, <2>1 DEF Undisturbed, Rec
<1> QED BY <1>2, <1>3, <1>4, <1>5, <1>6 DEF Next

(* A rollback and a restore_of go to the version that was the previous one *)
(* when they were accepted, with nginx commands and crashes at any point;  *)
(* after failures they may name the current one, and never a third.        *)
THEOREM RollbacksGoBack == Spec => []RollbackToPrevious
<1>1. Init => /\ Places /\ Pointed /\ LatestSettled /\ Announced /\ Revisions
              /\ BothRooted /\ Smooth
  <2> SUFFICES ASSUME Init
               PROVE  /\ Places /\ Pointed /\ LatestSettled /\ Announced /\ Revisions
                      /\ BothRooted /\ Smooth
    OBVIOUS
  <2>1. Places /\ Pointed /\ LatestSettled
    BY DEF Init, Places, Pointed, LatestSettled, Astray, NewState, Early, Forward,
       Backward, Commands
  <2>2. Announced /\ Revisions
    BY DEF Init, Announced, Before, During, Revisions, NewState
  <2>3. BothRooted
    BY DEF Init, BothRooted, Rooted, RootedRecord, NewState, NoRecord, NoRequest
  <2>4. Orderly(disk) /\ Orderly(st)
    BY DEF Init, Orderly, OrderlyRecord, NewState, NoRecord, NoRequest
  <2>5. Undisturbed
    BY DEF Init, Undisturbed, Intends, NewState, Early, Backward, Commands
  <2> QED BY <2>1, <2>2, <2>3, <2>4, <2>5 DEF Smooth
<1>2. TypeOK /\ Announced /\ [Next]_vars => Announced'
  BY NextAnnounced
<1>3. TypeOK /\ TypeOK' /\ Announced /\ Announced' /\ Settled /\ [Next]_vars => Settled'
  BY NextSettled
<1>4. TypeOK /\ Revisions /\ [Next]_vars => Revisions'
  BY NextKeepsRevisions
<1>5. TypeOK /\ TypeOK' /\ Revisions /\ BothRooted /\ [Next]_vars => BothRooted'
  BY NextRooted
<1>6. TypeOK /\ Announced /\ Settled /\ BothRooted /\ Smooth /\ [Next]_vars => Smooth'
  BY NextSmooth DEF Settled
<1>7. BothRooted /\ Smooth => RollbackToPrevious
  BY DEF BothRooted, Rooted, RootedRecord, Smooth, Orderly, OrderlyRecord,
     RollbackToPrevious
<1>8. Init => Settled
  BY <1>1 DEF Settled
<1> QED BY <1>1, <1>2, <1>3, <1>4, <1>5, <1>6, <1>7, <1>8, TypeCorrect, PTL DEF Spec

-----------------------------------------------------------------------------
(* What nginx runs, for all operations: a complete release is delivered.   *)
(* The version of a state s is loaded, if its live release is complete.    *)
Delivered(s) == Completed(s) => loaded = s.current

(* A version that is not loaded may be recorded as complete only while     *)
(* somebody is left to notice: an active release with its intent, or a     *)
(* latest that is elsewhere.  A handler at work knows more.                *)
Truthful == /\ adrift \/ Delivered(disk) \/ Answered \/ link # disk.current
            /\ Ready \/ pc \in Early => adrift \/ Delivered(disk)
            /\ pc \in Early \cup {"uncertain"} => adrift \/ Delivered(st)
            /\ op \in Commands /\ pc \in Forward =>
                   /\ link = disk.current /\ link = st.current
                   /\ adrift \/ (Delivered(disk) /\ Delivered(st))
            /\ op \in Commands /\ pc = "restore" => adrift \/ Delivered(disk)
            /\ pc = "commit_stage" => op \notin Commands
            /\ pc \in Reloaded => loaded = Rec.candidate
            /\ pc \in Unloaded => loaded = Rec.baseline

(* A state completes nothing that another has not completed.               *)
NoMore(s, t) == /\ s.current = t.current
                /\ Completed(s) => Completed(t)

(* Nor does a record.                                                      *)
Below(record, other) ==
    record.status = "succeeded" /\ record.phase = "complete"
        => /\ other.status = "succeeded" /\ other.phase = "complete"
           /\ other.after = record.after

LEMMA BelowNoMore ==
    ASSUME NEW s, NEW t, Like(s, t),
           \A r \in Releases : Below(s.records[r], t.records[r])
    PROVE  NoMore(s, t)
<1>1. s.current = t.current /\ s.revision = t.revision
  BY DEF Like, Pair
<1>2. ASSUME NEW r \in Releases, s.records[r].status = "succeeded",
             s.records[r].phase = "complete", s.records[r].after = s.revision
      PROVE  Completed(t)
  BY <1>1, <1>2 DEF Below, Completed
<1> QED BY <1>1, <1>2 DEF NoMore, Completed

LEMMA PhaseNoMore ==
    ASSUME st \in TargetState, rel \in Releases, NEW name, name # "complete"
    PROVE  NoMore(WithPhase(name), st)
<1>1. Rec \in Record /\ st.records \in [Releases -> Record]
  BY RecordsTyped DEF Rec, TargetState
<1>2. WithPhase(name).records = [st.records EXCEPT ![rel] = [Rec EXCEPT !.phase = name]]
  BY DEF WithPhase, Rec, TargetState
<1>3. Below([Rec EXCEPT !.phase = name], Rec)
  BY <1>1 DEF Below, Record
<1>4. \A r \in Releases : Below(WithPhase(name).records[r], st.records[r])
  BY <1>1, <1>2, <1>3 DEF Below, Rec
<1> QED BY <1>4, WorkingCopyLike, BelowNoMore

LEMMA StepNoMore ==
    ASSUME st \in TargetState, rel \in Releases,
           NEW s \in {Prepared, WithIntent, Skipped, Tested, Undecided, Failed(st)}
    PROVE  NoMore(s, st)
<1>1. Rec \in Record /\ st.records \in [Releases -> Record]
  BY RecordsTyped DEF Rec, TargetState
<1>2. ASSUME NEW record, Below(record, Rec),
             s.records = [st.records EXCEPT ![rel] = record]
      PROVE  \A r \in Releases : Below(s.records[r], st.records[r])
  BY <1>1, <1>2 DEF Below, Rec
<1>3. CASE s = Prepared
  <2>1. s.records = [st.records EXCEPT ![rel] =
                         [Rec EXCEPT !.candidate = Rec.request.commit]]
    BY <1>3 DEF Prepared, Rec, TargetState
  <2>2. Below([Rec EXCEPT !.candidate = Rec.request.commit], Rec)
    BY <1>1 DEF Below, Record
  <2> QED BY <1>2, <1>3, <2>1, <2>2, WorkingCopyLike, BelowNoMore
<1>4. CASE s = WithIntent
  <2>1. s.records = [st.records EXCEPT ![rel] =
                         [Rec EXCEPT !.intent = TRUE, !.phase = "switch_intent"]]
    BY <1>4 DEF WithIntent, Rec, TargetState
  <2>2. Below([Rec EXCEPT !.intent = TRUE, !.phase = "switch_intent"], Rec)
    BY <1>1 DEF Below, Record
  <2> QED BY <1>2, <1>4, <2>1, <2>2, WorkingCopyLike, BelowNoMore
<1>5. CASE s = Skipped
  <2>1. s.records = [st.records EXCEPT ![rel] =
                         [Rec EXCEPT !.status = "skipped", !.phase = "complete"]]
    BY <1>5 DEF Skipped, Rec, TargetState
  <2>2. Below([Rec EXCEPT !.status = "skipped", !.phase = "complete"], Rec)
    BY <1>1 DEF Below, Record
  <2> QED BY <1>2, <1>5, <2>1, <2>2, WorkingCopyLike, BelowNoMore
<1>6. CASE s = Tested
  <2>1. s.records = [st.records EXCEPT ![rel] =
                         [Rec EXCEPT !.tested = TRUE, !.status = "succeeded",
                                     !.phase = "nginx_test_succeeded"]]
    BY <1>6 DEF Tested, Rec, TargetState
  <2>2. Below([Rec EXCEPT !.tested = TRUE, !.status = "succeeded",
                          !.phase = "nginx_test_succeeded"], Rec)
    BY <1>1 DEF Below, Record
  <2> QED BY <1>2, <1>6, <2>1, <2>2, WorkingCopyLike, BelowNoMore
<1>7. CASE s = Undecided
  <2>1. s.records = [st.records EXCEPT ![rel] = [Rec EXCEPT !.status = "recovery_required"]]
    BY <1>7 DEF Undecided, Rec, TargetState
  <2>2. Below([Rec EXCEPT !.status = "recovery_required"], Rec)
    BY <1>1 DEF Below, Record
  <2> QED BY <1>2, <1>7, <2>1, <2>2, WorkingCopyLike, BelowNoMore
<1>8. CASE s = Failed(st)
  <2>1. s.records = [st.records EXCEPT ![rel] = [Rec EXCEPT !.status = "failed"]]
    BY <1>8 DEF Failed, Rec, TargetState
  <2>2. Below([Rec EXCEPT !.status = "failed"], Rec)
    BY <1>1 DEF Below, Record
  <2> QED BY <1>2, <1>8, <2>1, <2>2, WorkingCopyLike, BelowNoMore
<1> QED BY <1>3, <1>4, <1>5, <1>6, <1>7, <1>8

LEMMA AcceptedNoMore ==
    ASSUME disk \in TargetState, NEW r \in Releases, NEW q \in Request
    PROVE  NoMore(Accepted(r, q), disk)
<1> DEFINE s == Accepted(r, q)
<1>1. Like(s, disk)
  BY AcceptedLike DEF Accepted
<1>2. Below(s.records[r], disk.records[r])
  <2>1. s.records[r] = NewRecord(q)
    BY TakeoverRecords
  <2>2. NewRecord(q).status = "running"
    BY DEF NewRecord, NoRecord
  <2> QED BY <2>1, <2>2 DEF Below
<1>3. ASSUME NEW p \in Releases \ {r}
      PROVE  Below(s.records[p], disk.records[p])
  <2>1. disk.records[p] \in Record
    BY RecordsTyped
  <2>2. \/ s.records[p] = disk.records[p]
        \/ s.records[p] = [disk.records[p] EXCEPT !.status = "failed"]
    BY TakeoverRecords
  <2> HIDE DEF s
  <2> QED BY <2>1, <2>2 DEF Below, Record
<1> HIDE DEF s
<1>4. NoMore(s, disk)
  BY <1>1, <1>2, <1>3, BelowNoMore
<1> QED BY <1>4 DEF s

(* Two ends complete nothing: a new revision, and a release that is not    *)
(* complete, or failed.                                                    *)
LEMMA IncompleteEnds ==
    ASSUME st \in TargetState, rel \in Releases, minted \in Nat, Rooted(st, minted),
           NEW s \in {Succeeded("latest_switched"), Failed(Reverted(minted + 1))}
    PROVE  ~Completed(s)
<1>1. s.revision = minted + 1 /\ \A r \in Releases \ {rel} : s.records[r] = st.records[r]
  BY AtTheEndRecords DEF AtTheEnd
<1>2. ASSUME NEW r \in Releases \ {rel}
      PROVE  s.records[r].after # s.revision
  <2>1. st.records[r].after \in Nat /\ st.records[r].after <= minted
    BY RecordsTyped DEF Record, Rooted, RootedRecord
  <2> QED BY <1>1, <2>1
<1>3. ~(s.records[rel].status = "succeeded" /\ s.records[rel].phase = "complete")
  <2>1. Rec \in Record /\ st.records \in [Releases -> Record]
    BY RecordsTyped DEF Rec, TargetState
  <2>2. CASE s = Succeeded("latest_switched")
    BY <2>1, <2>2 DEF Succeeded, Rec, Record
  <2>3. CASE s = Failed(Reverted(minted + 1))
    <3>1. s.records[rel].status = "failed"
      BY <2>1, <2>3 DEF Failed, Reverted, TargetState, Record
    <3> QED BY <3>1
  <2> QED BY <2>2, <2>3
<1> QED BY <1>2, <1>3 DEF Completed

-----------------------------------------------------------------------------
(* Enough for each kind of place to lead to.                               *)

LEMMA EarlyTruthful ==
    ASSUME pc' \in Early \cup {"uncertain"},
           op' \in Commands => pc' = "uncertain",
           adrift' \/ (Delivered(disk) /\ Delivered(st))'
    PROVE  Truthful'
BY DEF Truthful, Early, Forward, Reloaded, Unloaded

LEMMA ForwardTruthful ==
    ASSUME pc' \in Forward \cup {"restore"}, pc' = "commit_stage" => op' \notin Commands,
           \/ Answered' /\ op' \notin Commands
           \/ /\ link' = disk'.current /\ link' = st'.current
              /\ adrift' \/ (Delivered(disk) /\ Delivered(st))',
           pc' \in Reloaded => loaded' = Rec'.candidate
    PROVE  Truthful'
BY DEF Truthful, Early, Forward, Reloaded, Unloaded, Ready, Idle, Commands

LEMMA BackwardTruthful ==
    ASSUME pc' \in Backward \cup {"recovery_failed", "off"},
           (adrift \/ Delivered(disk) \/ Answered \/ link # disk.current)',
           pc' \in Unloaded => loaded' = Rec'.baseline
    PROVE  Truthful'
BY DEF Truthful, Early, Forward, Backward, Reloaded, Unloaded, Ready, Idle, Commands

LEMMA IdleTruthful ==
    ASSUME pc' = "idle", op' = "none",
           \/ (adrift \/ Delivered(disk))'
           \/ (blocked /\ (Answered \/ link # disk.current))'
    PROVE  Truthful'
BY DEF Truthful, Early, Forward, Reloaded, Unloaded, Ready, Idle, Commands

(* A result is saved and answered, or remains uncertain.                   *)
LEMMA FinishTruthful ==
    ASSUME NEW s, Finish(s), UNCHANGED <<loaded, link>>,
           adrift' \/ Delivered(s),
           adrift' \/ Delivered(disk) \/ Answered \/ link # disk.current
    PROVE  Truthful'
<1>1. CASE Save(s) /\ Return(s)
  <2>1. pc' = "idle" /\ op' = "none" /\ disk' = s
    BY <1>1 DEF Save, Return
  <2>2. (adrift \/ Delivered(disk))'
    BY <2>1 DEF Delivered
  <2> QED BY <2>1, <2>2, IdleTruthful
<1>2. CASE SaveFails(s) /\ pc' = "uncertain"
  <2>1. st' = s /\ disk' \in {disk, s}
    BY <1>2 DEF SaveFails
  <2>2. (adrift \/ Delivered(st))'
    BY <2>1 DEF Delivered
  <2>3. (adrift \/ Delivered(disk) \/ Answered \/ link # disk.current)'
    BY <2>1 DEF Delivered, Answered
  <2> QED BY <1>2, <2>2, <2>3 DEF Truthful, Early, Forward, Reloaded, Unloaded, Ready, Idle
<1> QED BY <1>1, <1>2 DEF Finish

(* What completes no more is delivered no less.                            *)
LEMMA NoMoreDelivered ==
    ASSUME NEW s, NEW t, NoMore(s, t), Delivered(t)
    PROVE  Delivered(s)
BY DEF NoMore, Delivered

-----------------------------------------------------------------------------
(* A phase is saved.                                                       *)
LEMMA SavePhaseTruthful ==
    ASSUME TypeOK, TypeOK', Announced', Settled, Truthful, rel \in Releases,
           NEW at, NEW name, name # "complete", NEW next, NEW onError,
           SavePhase(at, name, next, onError),
           \/ /\ at \in Early
              /\ {next, onError} \subseteq Early \cup {"uncertain", "restore"}
           \/ /\ at \in Forward
              /\ {next, onError} \subseteq (Forward \cap During) \cup {"restore"}
              /\ {next, onError} \cap Reloaded # {} => at \in Reloaded
    PROVE  Truthful'
<1>1. /\ st \in TargetState /\ pc = at /\ pc' \in {next, onError}
      /\ UNCHANGED <<loaded, link, adrift, op, rel>>
  BY DEF TypeOK, SavePhase, Persist, rest, history, nginx
<1>2. /\ disk' \in {disk, WithPhase(name)} /\ st' = WithPhase(name)
      /\ NoMore(WithPhase(name), st)
      /\ Rec'.candidate = Rec.candidate
  <2>1. disk' \in {disk, WithPhase(name)} /\ st' = WithPhase(name)
    BY WaysToWrite DEF SavePhase
  <2>2. NoMore(WithPhase(name), st)
    BY <1>1, PhaseNoMore
  <2>3. WithPhase(name).records[rel].candidate = Rec.candidate
    BY <1>1, WithPhaseBacked
  <2> QED BY <1>1, <2>1, <2>2, <2>3 DEF Rec
<1>3. ASSUME Delivered(disk), Delivered(st)
      PROVE  (Delivered(disk) /\ Delivered(st))'
  <2>1. Delivered(WithPhase(name))
    BY <1>2, <1>3, NoMoreDelivered
  <2> QED BY <1>1, <1>2, <1>3, <2>1 DEF Delivered
<1>4. pc' \in During /\ op' \notin Commands => Answered'
  <2>1. pc' \in During /\ op' \notin Commands => Backed'
    BY DEF Announced, Commands
  <2>2. rel' # NoRelease
    BY <1>1, NoReleaseAssumption
  <2> QED BY <2>1, <2>2 DEF Backed, Answered
<1>5. CASE /\ at \in Early
           /\ {next, onError} \subseteq Early \cup {"uncertain", "restore"}
  <2>1. op \notin Commands
    BY <1>1, <1>5 DEF Settled, Places, Early, Forward, Backward
  <2>2. adrift' \/ (Delivered(disk) /\ Delivered(st))'
    BY <1>1, <1>3, <1>5 DEF Truthful
  <2>3. CASE pc' = "restore"
    BY <1>1, <1>4, <2>1, <2>3, ForwardTruthful DEF During, Reloaded
  <2> QED BY <1>1, <1>5, <2>1, <2>2, <2>3, EarlyTruthful
<1>6. CASE /\ at \in Forward
           /\ {next, onError} \subseteq (Forward \cap During) \cup {"restore"}
           /\ {next, onError} \cap Reloaded # {} => at \in Reloaded
  <2>1. pc' \in During /\ pc' \in Forward \cup {"restore"} /\ pc' # "commit_stage"
    BY <1>1, <1>6 DEF During
  <2>2. pc' \in Reloaded => loaded' = Rec'.candidate
    BY <1>1, <1>2, <1>6 DEF Truthful
  <2>3. CASE op \notin Commands
    BY <1>1, <1>4, <2>1, <2>2, <2>3, ForwardTruthful
  <2>4. CASE op \in Commands
    <3>1. /\ link = disk.current /\ link = st.current
          /\ adrift \/ (Delivered(disk) /\ Delivered(st))
      BY <1>1, <1>6, <2>4 DEF Truthful
    <3>2. link' = disk'.current /\ link' = st'.current
      BY <1>1, <1>2, <3>1 DEF NoMore
    <3>3. adrift' \/ (Delivered(disk) /\ Delivered(st))'
      BY <1>1, <1>3, <3>1
    <3> QED BY <2>1, <2>2, <3>2, <3>3, ForwardTruthful
  <2> QED BY <2>3, <2>4
<1> QED BY <1>5, <1>6

(* The other steps before latest moves.                                    *)
LEMMA PrepareTruthful ==
    ASSUME TypeOK, Settled, Truthful, rel \in Releases,
           RunPrepare \/ SaveIntent \/ CancelBaseline \/ OpenTarget \/ Skip \/ GoOn
    PROVE  Truthful'
<1>1. /\ st \in TargetState /\ pc \in Early
      /\ UNCHANGED <<loaded, link, adrift, op>>
      /\ pc' \in Early \cup {"uncertain"}
  BY DEF TypeOK, RunPrepare, SaveIntent, CancelBaseline, OpenTarget, Skip, GoOn,
     StepFails, Goto, Persist, rest, history, nginx, Early
<1>2. op \notin Commands /\ (adrift \/ (Delivered(disk) /\ Delivered(st)))
  BY <1>1 DEF Settled, Places, Truthful, Early, Forward, Backward
<1>3. \E s : NoMore(s, st) /\ disk' \in {disk, s} /\ st' = s
  <2>1. NoMore(st, st) /\ NoMore(Prepared, st) /\ NoMore(WithIntent, st)
    BY <1>1, StepNoMore DEF NoMore
  <2>2. CASE SaveIntent
    <3>1. disk' \in {disk, WithIntent} /\ st' = WithIntent
      BY <2>2, WaysToWrite DEF SaveIntent
    <3> QED BY <2>1, <3>1
  <2>3. CASE disk' = disk /\ st' \in {st, Prepared}
    BY <2>1, <2>3
  <2> QED BY <2>2, <2>3 DEF RunPrepare, CancelBaseline, OpenTarget, Skip, GoOn,
             StepFails, Goto
<1>4. adrift' \/ (Delivered(disk) /\ Delivered(st))'
  <2>1. PICK s : NoMore(s, st) /\ disk' \in {disk, s} /\ st' = s
    BY <1>3
  <2>2. Delivered(st) => Delivered(s)
    BY <2>1, NoMoreDelivered
  <2> QED BY <1>1, <1>2, <2>1, <2>2 DEF Delivered
<1> QED BY <1>1, <1>2, <1>4, EarlyTruthful

(* latest moves, nginx is tested and reloaded, and what is live is checked *)
LEMMA MoveTruthful ==
    ASSUME TypeOK, Announced, Settled, Truthful, rel \in Releases,
           \/ Switch \/ NginxTest \/ NginxReload \/ VerifyActivation
           \/ RestoreLink \/ RestoreTest \/ RestoreReload \/ RestoreVerify
    PROVE  Truthful'
<1>1. UNCHANGED <<disk, st, rel, op, adrift>>
  BY DEF Switch, NginxTest, NginxReload, VerifyActivation, RestoreLink, RestoreTest,
     RestoreReload, RestoreVerify, StepFails, Goto, rest, history
<1>2. op \notin Commands => Answered'
  <2>1. pc \in During \/ pc \in Backward
    BY DEF Switch, NginxTest, NginxReload, VerifyActivation, RestoreLink, RestoreTest,
       RestoreReload, RestoreVerify, During, Backward
  <2>2. op \notin Commands => Answered
    BY <2>1, BackedAnswers DEF Settled, Pointed
  <2> QED BY <1>1, <2>2 DEF Answered
<1>3. /\ pc \in Forward => link = Rec.candidate
      /\ pc \in Backward => link = Rec.baseline
  BY DEF Settled, Pointed
<1>4. CASE Switch
  <2>1. pc' \in {"commit_stage", "save_test", "restore"} /\ op \notin Commands
    BY <1>4 DEF Switch, Goto, Settled, Places, Forward, Backward
  <2> QED BY <1>1, <1>2, <2>1, ForwardTruthful DEF Forward, Reloaded
<1>5. CASE NginxTest \/ NginxReload \/ VerifyActivation
  <2>1. /\ pc \in Forward /\ UNCHANGED link
        /\ pc' \in (Forward \cup {"restore"}) \ {"commit_stage"}
    BY <1>5 DEF NginxTest, NginxReload, VerifyActivation, StepFails, Goto, Forward, nginx
  <2>2. loaded' \in {loaded, link}
    BY <1>5 DEF NginxTest, NginxReload, VerifyActivation, StepFails, nginx
  <2>3. pc' \in Reloaded => loaded' = Rec'.candidate
    BY <1>1, <1>3, <1>5, <2>1 DEF NginxTest, NginxReload, VerifyActivation, StepFails,
       Goto, nginx, Reloaded, Truthful, Rec
  <2>4. CASE op \in Commands
    <3>1. /\ link = disk.current /\ link = st.current
          /\ adrift \/ (Delivered(disk) /\ Delivered(st))
      BY <2>1, <2>4 DEF Truthful
    <3>2. adrift' \/ (Delivered(disk) /\ Delivered(st))'
      BY <1>1, <2>2, <3>1 DEF Delivered
    <3> QED BY <1>1, <2>1, <2>3, <3>1, <3>2, ForwardTruthful
  <2> QED BY <1>1, <1>2, <2>1, <2>3, <2>4, ForwardTruthful
<1>6. CASE RestoreLink \/ RestoreTest \/ RestoreReload \/ RestoreVerify
  <2>1. pc' \in Backward \cup {"recovery_failed"}
    BY <1>6 DEF RestoreLink, RestoreTest, RestoreReload, RestoreVerify, StepFails, Goto,
       Backward
  <2>2. (adrift \/ Delivered(disk) \/ Answered \/ link # disk.current)'
    <3>1. CASE pc = "restore" /\ UNCHANGED loaded
      <4>1. op \in Commands => adrift' \/ Delivered(disk)'
        BY <1>1, <3>1 DEF Truthful, Delivered
      <4> QED BY <1>2, <4>1
    <3>2. CASE loaded' \in {loaded, link} /\ UNCHANGED link
      BY <1>1, <3>2 DEF Truthful, Delivered, Answered
    <3> QED BY <1>6, <3>1, <3>2
            DEF RestoreLink, RestoreTest, RestoreReload, RestoreVerify, StepFails, nginx
  <2>3. pc' \in Unloaded => loaded' = Rec'.baseline
    BY <1>1, <1>3, <1>6 DEF RestoreLink, RestoreTest, RestoreReload, RestoreVerify,
       StepFails, Goto, nginx, Unloaded, Backward, Truthful, Rec
  <2> QED BY <2>1, <2>2, <2>3, BackwardTruthful
<1> QED BY <1>4, <1>5, <1>6

(* The ends: what is complete has been loaded, and checked.                *)
LEMMA EndTruthful ==
    ASSUME TypeOK, Settled, BothRooted, Truthful, rel \in Releases,
           \/ SaveSkipped \/ Commit \/ CommitGitStage \/ SaveTested \/ Fail
           \/ Restored \/ Uncertain \/ AnswerResumable
    PROVE  Truthful'
<1>1. /\ st \in TargetState /\ minted \in Nat /\ Rooted(st, minted) /\ Pointed
      /\ UNCHANGED <<loaded, link>>
  BY DEF TypeOK, BothRooted, Settled, SaveSkipped, Commit, CommitGitStage, SaveTested,
     Fail, Restored, Uncertain, AnswerResumable, nginx
<1>2. CASE SaveSkipped \/ Fail \/ SaveTested
  <2>1. PICK s \in {Skipped, Failed(st), Tested} : Finish(s)
    BY <1>2 DEF SaveSkipped, Fail, SaveTested
  <2>2. UNCHANGED adrift
    BY <1>2 DEF SaveSkipped, Fail, SaveTested, history
  <2>3. adrift \/ (Delivered(disk) /\ Delivered(st))
    <3>1. pc \in Early \/ (op \in Commands /\ pc \in Forward)
      BY <1>2 DEF SaveSkipped, Fail, SaveTested, Settled, Places, Early, Forward, Commands
    <3> QED BY <3>1 DEF Truthful
  <2>4. adrift \/ (Delivered(disk) /\ Delivered(s))
    BY <1>1, <2>3, StepNoMore, NoMoreDelivered
  <2> QED BY <1>1, <2>1, <2>2, <2>4, FinishTruthful
<1>3. CASE Commit
  <2>1. pc = "commit" /\ Finish(Succeeded("complete"))
    BY <1>3 DEF Commit
  <2>2. loaded = Rec.candidate /\ link = Rec.candidate
    BY <1>1, <2>1 DEF Pointed, Forward, Truthful, Reloaded
  <2>3. Delivered(Succeeded("complete"))
    BY <2>2 DEF Delivered, Succeeded
  <2>4. Delivered(disk) \/ link # disk.current
    BY <2>2 DEF Delivered
  <2> QED BY <1>1, <2>1, <2>3, <2>4, FinishTruthful
<1>4. CASE CommitGitStage
  <2>1. pc = "commit_stage" /\ Finish(Succeeded("latest_switched"))
    BY <1>4 DEF CommitGitStage
  <2>2. Answered
    BY <1>1, <2>1 DEF Pointed, Truthful
  <2>3. Delivered(Succeeded("latest_switched"))
    BY <1>1, IncompleteEnds DEF Delivered
  <2> QED BY <1>1, <2>1, <2>2, <2>3, FinishTruthful
<1>5. CASE Restored
  <2>1. pc = "restored" /\ Finish(Failed(Reverted(minted + 1)))
    BY <1>5 DEF Restored
  <2>2. loaded = Rec.baseline /\ link = Rec.baseline
    BY <1>1, <2>1 DEF Pointed, Backward, Truthful, Unloaded
  <2>3. Delivered(Failed(Reverted(minted + 1)))
    BY <1>1, IncompleteEnds DEF Delivered
  <2>4. Delivered(disk) \/ link # disk.current
    BY <2>2 DEF Delivered
  <2> QED BY <1>1, <2>1, <2>3, <2>4, FinishTruthful
<1>6. CASE Uncertain
  <2>1. /\ pc \in {"uncertain", "recovery_failed"} /\ pc' = "idle" /\ op' = "none"
        /\ adrift' = (adrift \/ pc = "recovery_failed")
        /\ disk' = Undecided \/ (blocked' /\ disk' = disk)
    BY <1>6 DEF Uncertain, Return
  <2>2. CASE disk' = Undecided
    <3>1. adrift' \/ Delivered(Undecided)
      BY <1>1, <2>1, StepNoMore, NoMoreDelivered DEF Truthful
    <3>2. (adrift \/ Delivered(disk))'
      BY <1>1, <2>2, <3>1 DEF Delivered
    <3> QED BY <2>1, <3>2, IdleTruthful
  <2>3. CASE blocked' /\ disk' = disk
    <3>1. (adrift \/ Delivered(disk) \/ Answered \/ link # disk.current)'
      BY <1>1, <2>1, <2>3 DEF Truthful, Delivered, Answered
    <3> QED BY <2>1, <2>3, <3>1, IdleTruthful
  <2> QED BY <2>1, <2>2, <2>3
<1>7. CASE AnswerResumable
  <2>1. pc = "compare" /\ pc' = "idle" /\ op' = "none" /\ UNCHANGED <<disk, adrift>>
    BY <1>7 DEF AnswerResumable, history
  <2>2. (adrift \/ Delivered(disk))'
    BY <1>1, <2>1 DEF Truthful, Early, Delivered
  <2> QED BY <2>1, <2>2, IdleTruthful
<1> QED BY <1>2, <1>3, <1>4, <1>5, <1>6, <1>7

LEMMA StepTruthful ==
    ASSUME TypeOK, TypeOK', Announced, Announced', Settled, BothRooted, Truthful, Step
    PROVE  Truthful'
<1>1. rel \in Releases
  BY StepHasRelease
<1>2. CASE SaveVerifyBaseline \/ SavePrepare \/ SaveSwitch
  <2>1. PICK at, name, next, onError :
            /\ SavePhase(at, name, next, onError) /\ name # "complete" /\ at \in Early
            /\ {next, onError} \subseteq Early \cup {"uncertain", "restore"}
    BY <1>2 DEF SaveVerifyBaseline, SavePrepare, SaveSwitch, Early
  <2> QED BY <1>1, <2>1, SavePhaseTruthful
<1>3. CASE SaveTest \/ SaveReload \/ SaveVerify
  <2>1. PICK at, name, next :
            /\ SavePhase(at, name, next, "restore") /\ name # "complete"
            /\ at \in Forward
            /\ {next, "restore"} \subseteq (Forward \cap During) \cup {"restore"}
            /\ {next, "restore"} \cap Reloaded # {} => at \in Reloaded
    BY <1>3 DEF SaveTest, SaveReload, SaveVerify, Forward, During, Reloaded
  <2> QED BY <1>1, <2>1, SavePhaseTruthful
<1>4. CASE RunPrepare \/ SaveIntent \/ CancelBaseline \/ OpenTarget \/ Skip \/ GoOn
  BY <1>1, <1>4, PrepareTruthful
<1>5. CASE \/ Switch \/ NginxTest \/ NginxReload \/ VerifyActivation
           \/ RestoreLink \/ RestoreTest \/ RestoreReload \/ RestoreVerify
  BY <1>1, <1>5, MoveTruthful
<1>6. CASE \/ SaveSkipped \/ Commit \/ CommitGitStage \/ SaveTested \/ Fail
           \/ Restored \/ Uncertain \/ AnswerResumable
  BY <1>1, <1>6, EndTruthful
<1> QED BY <1>2, <1>3, <1>4, <1>5, <1>6 DEF Step

LEMMA StartTruthful ==
    ASSUME TypeOK, Settled, Truthful, Start \/ Crash
    PROVE  Truthful'
<1>1. CASE Crash
  <2>1. pc' = "off" /\ UNCHANGED <<disk, loaded, link>> /\ adrift' = (adrift \/ Astray)
    BY <1>1 DEF Crash, nginx
  <2>2. (adrift \/ Delivered(disk) \/ Answered \/ link # disk.current)'
    BY <2>1 DEF Truthful, Delivered, Answered
  <2> QED BY <2>1, <2>2, BackwardTruthful DEF Unloaded
<1>2. CASE Start
  <2>1. /\ pc = "off" /\ op = "none" /\ ~blocked /\ disk \in TargetState
        /\ UNCHANGED <<loaded, link, adrift>>
    BY <1>2 DEF Start, StartIdle, StartWithoutIntent, StartWithIntent, Settled, Places,
       TypeOK, rest, history, nginx
  <2>2. adrift \/ Delivered(disk) \/ Answered
    BY <2>1 DEF Truthful, Settled, LatestSettled, Astray, Answered, Commands
  <2>3. NoMore([disk EXCEPT !.recovery = FALSE], disk)
        /\ NoMore([disk EXCEPT !.recovery = TRUE], disk) /\ NoMore(disk, disk)
    BY <2>1 DEF NoMore, Completed, TargetState
  <2>4. CASE StartIdle
    <3>1. ~Answered /\ pc' = "idle" /\ op' = "none"
      BY <2>1, <2>4 DEF StartIdle, Answered
    <3>2. NoMore(disk', disk)
      BY <2>3, <2>4 DEF StartIdle, Save
    <3>3. Delivered(disk) => Delivered(disk')
      BY <3>2, NoMoreDelivered
    <3> QED BY <2>1, <2>2, <3>1, <3>3, IdleTruthful DEF Delivered
  <2>5. CASE StartWithoutIntent
    <3>1. /\ ~Answered /\ pc' = "fail" /\ op' = "startup"
          /\ disk' = disk /\ st' = [disk EXCEPT !.recovery = FALSE]
      BY <2>5 DEF StartWithoutIntent, Recovering, Answered
    <3>2. Delivered(disk) => Delivered(st')
      BY <2>3, <3>1, NoMoreDelivered
    <3> QED BY <2>1, <2>2, <3>1, <3>2, EarlyTruthful DEF Early, Commands, Delivered
  <2>6. CASE StartWithIntent
    <3>1. pc' \in {"test", "restore", "recovery_failed"} /\ Answered' /\ op' = "startup"
      BY <2>6 DEF StartWithIntent, Recovering, Answered
    <3>2. CASE pc' \in {"test", "restore"}
      BY <3>1, <3>2, ForwardTruthful DEF Forward, Reloaded, Commands
    <3>3. CASE pc' = "recovery_failed"
      BY <3>1, <3>3, BackwardTruthful DEF Unloaded
    <3> QED BY <3>1, <3>2, <3>3
  <2> QED BY <1>2, <2>4, <2>5, <2>6 DEF Start
<1> QED BY <1>1, <1>2

LEMMA AcceptTruthful ==
    ASSUME TypeOK, Truthful, NEW r \in Releases, NEW q \in Request,
           NEW o \in {"apply", "stage"}, Accept(r, q, o)
    PROVE  Truthful'
<1>1. /\ disk' \in {disk, Accepted(r, q)} /\ st' = Accepted(r, q)
      /\ pc' \in {"open", "uncertain"} /\ op' = o
      /\ UNCHANGED <<loaded, adrift>> /\ Ready
  BY WaysToWrite DEF Accept, Accepted, Persist, history, nginx
<1>2. Delivered(disk) => Delivered(Accepted(r, q))
  BY AcceptedNoMore, NoMoreDelivered DEF TypeOK
<1>3. adrift \/ Delivered(disk)
  BY <1>1 DEF Truthful
<1>4. adrift' \/ (Delivered(disk) /\ Delivered(st))'
  BY <1>1, <1>2, <1>3 DEF Delivered
<1> QED BY <1>1, <1>4, EarlyTruthful DEF Early, Commands

LEMMA CommandTruthful ==
    ASSUME Truthful, NEW r \in Releases, NEW o \in Commands, Command(r, o)
    PROVE  Truthful'
<1>1. /\ disk' = disk /\ st' = disk /\ Ready
      /\ UNCHANGED <<loaded, link, adrift>>
  BY DEF Command, rest, history, nginx
<1>2. adrift' \/ (Delivered(disk) /\ Delivered(st))'
  BY <1>1 DEF Truthful, Delivered
<1>3. CASE pc' = "uncertain"
  BY <1>2, <1>3, EarlyTruthful
<1>4. CASE IsCurrent(r) /\ pc' \in {"save_test", "save_reload", "restore"}
  <2>1. pc' \in Forward \cup {"restore"} /\ pc' \notin Reloaded /\ pc' # "commit_stage"
    BY <1>4 DEF Forward, Reloaded
  <2>2. link' = disk'.current /\ link' = st'.current
    BY <1>1, <1>4 DEF IsCurrent
  <2> QED BY <1>2, <2>1, <2>2, ForwardTruthful
<1> QED BY <1>3, <1>4 DEF Command, Entry

LEMMA NextTruthful ==
    ASSUME TypeOK, TypeOK', Announced, Announced', Settled, BothRooted, Truthful,
           [Next]_vars
    PROVE  Truthful'
<1>1. CASE Step
  BY <1>1, StepTruthful
<1>2. CASE Start \/ Crash
  BY <1>2, StartTruthful
<1>3. ASSUME NEW r \in Releases,
             \/ \E c \in Commits, o \in {"apply", "stage"} : Publish(r, c, o)
             \/ \E original \in Releases : RestoreOf(r, original)
             \/ StageRollback(r)
      PROVE  Truthful'
  BY <1>3, RequestsAccepted, AcceptTruthful
<1>4. ASSUME NEW r \in Releases, NEW o \in {"test", "reload", "abort"}, Command(r, o)
      PROVE  Truthful'
  BY <1>4, CommandTruthful DEF Commands
<1>5. ASSUME \/ \E r \in Releases : ReadRollback(r) \/ Replay(r)
             \/ RefuseRollback \/ RefuseBlocked \/ UNCHANGED vars
      PROVE  Truthful'
  <2>1. UNCHANGED <<disk, link, loaded, st, rel, op, pc, adrift, blocked>>
    BY <1>5 DEF ReadRollback, Replay, RefuseRollback, RefuseBlocked,
       vars, transaction, rest, history, nginx
  <2> QED BY <2>1 DEF Truthful, Delivered, Answered, Rec, Ready, Idle
<1>6. CASE LoadFails
  <2>1. UNCHANGED <<disk, loaded, adrift, op>> /\ pc' = "idle" /\ Ready
    BY <1>6 DEF LoadFails, transaction, history, nginx, Ready, Idle
  <2>2. op' = "none"
    BY <2>1 DEF Settled, Places, Ready, Idle
  <2>3. (adrift \/ Delivered(disk))'
    BY <2>1 DEF Truthful, Delivered
  <2> QED BY <2>1, <2>2, <2>3, IdleTruthful
<1> QED BY <1>1, <1>2, <1>3, <1>4, <1>5, <1>6 DEF Next

(* When the live release is complete, nginx runs its version: whether it   *)
(* was published in one call or by the requests apply, nginx/test and      *)
(* nginx/reload, with failures, aborts, rollbacks and crashes in between.  *)
THEOREM CompletedAreServed == Spec => []CompletedIsServed
<1>1. Init => Settled /\ Announced /\ Revisions /\ BothRooted /\ Truthful
  <2> SUFFICES ASSUME Init
               PROVE  Settled /\ Announced /\ Revisions /\ BothRooted /\ Truthful
    OBVIOUS
  <2>1. Settled
    BY DEF Init, Settled, Places, Pointed, LatestSettled, Astray, NewState, Early,
       Forward, Backward, Commands
  <2>2. Announced /\ Revisions
    BY DEF Init, Announced, Before, During, Revisions, NewState
  <2>3. BothRooted
    BY DEF Init, BothRooted, Rooted, RootedRecord, NewState, NoRecord, NoRequest
  <2>4. Truthful
    BY DEF Init, Truthful, Delivered, NewState, Early, Forward, Reloaded, Unloaded,
       Commands
  <2> QED BY <2>1, <2>2, <2>3, <2>4
<1>2. TypeOK /\ Announced /\ [Next]_vars => Announced'
  BY NextAnnounced
<1>3. TypeOK /\ TypeOK' /\ Announced /\ Announced' /\ Settled /\ [Next]_vars => Settled'
  BY NextSettled
<1>4. TypeOK /\ Revisions /\ [Next]_vars => Revisions'
  BY NextKeepsRevisions
<1>5. TypeOK /\ TypeOK' /\ Revisions /\ BothRooted /\ [Next]_vars => BothRooted'
  BY NextRooted
<1>6. TypeOK /\ TypeOK' /\ Announced /\ Announced' /\ Settled /\ BothRooted /\ Truthful
          /\ [Next]_vars => Truthful'
  BY NextTruthful
<1>7. Truthful => CompletedIsServed
  BY DEF Truthful, Delivered, CompletedIsServed, Quiet
<1> QED BY <1>1, <1>2, <1>3, <1>4, <1>5, <1>6, <1>7, TypeCorrect, PTL DEF Spec
=============================================================================
