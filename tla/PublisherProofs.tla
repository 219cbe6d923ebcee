--------------------------- MODULE PublisherProofs ---------------------------
(***************************************************************************)
(* Theorems about Publisher, for all sets of commits and releases, all     *)
(* requests, and any number of failures and crashes.                       *)
(***************************************************************************)
EXTENDS Publisher, TLAPS

-----------------------------------------------------------------------------
(* What the operators that build a state return.                           *)

LEMMA NewStateTyped == NewState \in TargetState /\ NoRequest \in Request
BY DEF NewState, NoRecord, NoRequest, TargetState, Record, Request, Versions,
       Statuses, Terminal, Phases

LEMMA RecordsTyped ==
    ASSUME NEW s \in TargetState, NEW r \in Releases
    PROVE  s.records[r] \in Record
BY DEF TargetState

(* A record may be exchanged, and the marks be set.                        *)
LEMMA WithRecordTyped ==
    ASSUME NEW s \in TargetState, NEW r \in Releases, NEW record \in Record
    PROVE  [s EXCEPT !.records[r] = record] \in TargetState
BY DEF TargetState

LEMMA WithMarksTyped ==
    ASSUME NEW s \in TargetState, NEW a \in Releases \cup {NoRelease},
           NEW b \in BOOLEAN
    PROVE  /\ [s EXCEPT !.active = a, !.recovery = b] \in TargetState
           /\ [s EXCEPT !.recovery = b] \in TargetState
BY DEF TargetState

LEMMA StatusesContain ==
    /\ "running" \in Statuses /\ "recovery_required" \in Statuses
    /\ "succeeded" \in Statuses /\ "skipped" \in Statuses
    /\ "failed" \in Statuses
BY DEF Statuses, Terminal

LEMMA PhasesContain ==
    /\ "accepted" \in Phases /\ "verify_baseline" \in Phases
    /\ "prepare" \in Phases /\ "switch_intent" \in Phases
    /\ "switch" \in Phases /\ "nginx_test" \in Phases /\ "reload" \in Phases
    /\ "nginx_test_succeeded" \in Phases /\ "latest_switched" \in Phases
    /\ "verify_activation" \in Phases
    /\ "complete" \in Phases /\ "restored" \in Phases
BY DEF Phases, ResumableNginxPhase

(* The ways in which the record of a release is changed.                   *)
LEMMA RecordChangedTyped ==
    ASSUME NEW record \in Record, NEW status \in Statuses, NEW name \in Phases,
           NEW n \in Nat, NEW c \in Versions
    PROVE  /\ [record EXCEPT !.status = status] \in Record
           /\ [record EXCEPT !.phase = name] \in Record
           /\ [record EXCEPT !.candidate = c] \in Record
           /\ [record EXCEPT !.intent = TRUE, !.phase = name] \in Record
           /\ [record EXCEPT !.status = status, !.phase = name] \in Record
           /\ [record EXCEPT !.phase = name, !.after = n] \in Record
           /\ [record EXCEPT !.status = status, !.phase = name, !.after = n]
                  \in Record
           /\ [record EXCEPT !.tested = TRUE, !.status = status, !.phase = name]
                  \in Record
BY DEF Record

LEMMA VersionsContain == NoCommit \in Versions /\ Commits \subseteq Versions
BY DEF Versions

LEMMA NewRecordTyped ==
    ASSUME disk \in TargetState, NEW q \in Request
    PROVE  NewRecord(q) \in Record
BY DEF NewRecord, NoRecord, TargetState, Record, Request, NoRequest, Statuses,
       Terminal, Phases, Versions

(* The states a handler makes of its working copy.                         *)
LEMMA WorkingCopyTyped ==
    ASSUME st \in TargetState, rel \in Releases, NEW name \in Phases,
           NEW n \in Nat
    PROVE  /\ Rec \in Record
           /\ WithPhase(name) \in TargetState
           /\ WithIntent \in TargetState
           /\ Prepared \in TargetState
           /\ Skipped \in TargetState
           /\ Tested \in TargetState
           /\ Undecided \in TargetState
           /\ Reverted(n) \in TargetState
<1>1. Rec \in Record
  BY RecordsTyped DEF Rec
<1>2. /\ Rec.request.commit \in Versions
      /\ Rec.baseline \in Versions /\ Rec.baselinePrevious \in Versions
  BY <1>1 DEF Record, Request
<1>3. /\ [Rec EXCEPT !.phase = name] \in Record
      /\ [Rec EXCEPT !.intent = TRUE, !.phase = "switch_intent"] \in Record
      /\ [Rec EXCEPT !.candidate = Rec.request.commit] \in Record
      /\ [Rec EXCEPT !.status = "skipped", !.phase = "complete"] \in Record
      /\ [Rec EXCEPT !.status = "recovery_required"] \in Record
      /\ [Rec EXCEPT !.phase = "restored", !.after = n] \in Record
      /\ [Rec EXCEPT !.tested = TRUE, !.status = "succeeded",
                     !.phase = "nginx_test_succeeded"] \in Record
  BY <1>1, <1>2, StatusesContain, PhasesContain, VersionsContain,
     RecordChangedTyped
<1>4. WithPhase(name) \in TargetState
  BY <1>3 DEF WithPhase, Rec, TargetState
<1>5. WithIntent \in TargetState
  BY <1>3 DEF WithIntent, Rec, TargetState
<1>6. Prepared \in TargetState
  BY <1>3 DEF Prepared, Rec, TargetState
<1>7. Skipped \in TargetState
  BY <1>3 DEF Skipped, Rec, TargetState
<1>8. Tested \in TargetState
  BY <1>3 DEF Tested, Rec, TargetState
<1>9. Undecided \in TargetState
  BY <1>3 DEF Undecided, Rec, TargetState
<1>10. Reverted(n) \in TargetState
  BY <1>2, <1>3 DEF Reverted, Rec, TargetState
<1> QED BY <1>1, <1>4, <1>5, <1>6, <1>7, <1>8, <1>9, <1>10

LEMMA SucceededTyped ==
    ASSUME st \in TargetState, rel \in Releases, minted \in Nat,
           NEW name \in Phases
    PROVE  Succeeded(name) \in TargetState
<1> DEFINE n == minted + 1
           record == [Rec EXCEPT !.status = "succeeded", !.phase = name,
                                 !.after = n]
<1>1. Rec \in Record
  BY RecordsTyped DEF Rec
<1>2. n \in Nat
  OBVIOUS
<1>3. Rec.baseline \in Versions /\ Rec.candidate \in Versions
  BY <1>1 DEF Record
<1>4. Succeeded(name) = [revision |-> n, current |-> Rec.candidate,
                         previous |-> Rec.baseline, active |-> NoRelease,
                         recovery |-> FALSE,
                         records |-> [st.records EXCEPT ![rel] = record]]
  BY DEF Succeeded, Rec, TargetState
<1> HIDE DEF n
<1>5. record \in Record
  BY <1>1, <1>2, <1>3, StatusesContain, RecordChangedTyped
<1> HIDE DEF record
<1> QED BY <1>2, <1>3, <1>4, <1>5 DEF TargetState

LEMMA FailedTyped ==
    ASSUME NEW s \in TargetState, rel \in Releases
    PROVE  Failed(s) \in TargetState
<1>1. [s.records[rel] EXCEPT !.status = "failed"] \in Record
  BY RecordsTyped, StatusesContain, PhasesContain, VersionsContain,
     RecordChangedTyped
<1> QED BY <1>1 DEF Failed, TargetState

(* Accepting a request: what gives way, and the record that takes over.    *)
LEMMA TakeoverTyped ==
    ASSUME disk \in TargetState, NEW r \in Releases
    PROVE  Takeover(r) \in TargetState
<1> DEFINE old == disk.active
           cleared == [disk EXCEPT !.active = NoRelease, !.recovery = FALSE]
           record == [cleared.records[old] EXCEPT !.status = "failed"]
<1>1. cleared \in TargetState
  BY WithMarksTyped
<1>2. CASE old \notin {NoRelease, r} /\ disk.records[old].status \notin Terminal
  <2>1. old \in Releases
    BY <1>2 DEF TargetState
  <2>2. record \in Record
    BY <1>1, <2>1, RecordsTyped, StatusesContain, PhasesContain,
       VersionsContain, RecordChangedTyped
  <2>3. Takeover(r) = [cleared EXCEPT !.records[old] = record]
    BY <1>2, <2>1 DEF Takeover, TargetState
  <2> HIDE DEF cleared, record, old
  <2> QED BY <1>1, <2>1, <2>2, <2>3, WithRecordTyped
<1>3. CASE ~(old \notin {NoRelease, r} /\ disk.records[old].status \notin Terminal)
  BY <1>1, <1>3 DEF Takeover
<1> QED BY <1>2, <1>3

LEMMA AcceptedTyped ==
    ASSUME disk \in TargetState, NEW r \in Releases, NEW q \in Request
    PROVE  [Takeover(r) EXCEPT !.records[r] = NewRecord(q), !.active = r]
               \in TargetState
BY TakeoverTyped, NewRecordTyped DEF TargetState

-----------------------------------------------------------------------------
(* Type correctness.                                                       *)

States == disk \in TargetState /\ view \in TargetState /\ st \in TargetState

(* The three ways to write a state keep the states typed.                  *)
LEMMA SaveTyped ==
    ASSUME States, faults \in Nat, NEW s \in TargetState,
           Save(s) \/ SaveFails(s)
    PROVE  States' /\ faults' \in Nat
BY DEF States, Save, SaveFails, Fault

LEMMA PersistTyped ==
    ASSUME States, faults \in Nat, NEW s \in TargetState, NEW next, NEW onError,
           Persist(s, next, onError)
    PROVE  States' /\ faults' \in Nat /\ pc' \in {next, onError}
BY SaveTyped DEF Persist

LEMMA ReturnTyped ==
    ASSUME TypeOK, rel \in Releases, NEW s, Return(s)
    PROVE  /\ pc' = "idle" /\ rel' = NoRelease /\ op' = "none"
           /\ told' \in [Releases -> Terminal \cup {"none"}]
BY DEF Return, TypeOK

LEMMA FinishTyped ==
    ASSUME TypeOK, rel \in Releases, NEW s \in TargetState, Finish(s)
    PROVE  /\ States' /\ faults' \in Nat
           /\ told' \in [Releases -> Terminal \cup {"none"}]
           /\ \/ pc' = "idle" /\ rel' = NoRelease /\ op' = "none"
              \/ pc' = "uncertain" /\ UNCHANGED <<rel, op>>
<1>1. States /\ faults \in Nat
  BY DEF States, TypeOK
<1>2. CASE Save(s) /\ Return(s)
  BY <1>1, <1>2, SaveTyped, ReturnTyped
<1>3. CASE SaveFails(s) /\ pc' = "uncertain" /\ UNCHANGED <<rel, op, told>>
  BY <1>1, <1>3, SaveTyped DEF TypeOK
<1> QED BY <1>2, <1>3 DEF Finish

(* At every step of a handler it has a release to work on.                 *)
LEMMA StepHasRelease ==
    ASSUME TypeOK, Step
    PROVE  rel \in Releases /\ pc \notin {"off", "idle"}
BY DEF TypeOK, Step, OpenTarget, SaveVerifyBaseline, CancelBaseline,
       AnswerResumable, Skip, SaveSkipped, GoOn, SavePrepare, RunPrepare,
       SaveIntent, SaveSwitch, Switch, SaveTest, NginxTest, SaveReload,
       NginxReload, SaveVerify, VerifyActivation, Commit, CommitGitStage,
       SaveTested, Fail, RestoreLink, RestoreTest, RestoreReload,
       RestoreVerify, Restored, Uncertain, SavePhase

(* What is left of TypeOK once the states are typed.                       *)
Rest == /\ link \in Versions /\ loaded \in Versions /\ passed \subseteq Versions
        /\ blocked \in BOOLEAN
        /\ ticket \in Request
        /\ told \in [Releases -> Terminal \cup {"none"}]
        /\ minted \in Nat /\ adrift \in BOOLEAN /\ crashes \in Nat
Place == /\ pc \in Pcs
         /\ rel \in Releases \cup {NoRelease}
         /\ op \in {"none", "startup", "apply", "stage", "test", "reload", "abort"}
         /\ pc \in {"off", "idle"} <=> rel = NoRelease

LEMMA TypeOKParts == TypeOK <=> States /\ Rest /\ Place /\ faults \in Nat
BY DEF TypeOK, States, Rest, Place

LEMMA SavePhaseTyped ==
    ASSUME TypeOK, rel \in Releases, NEW name \in Phases, NEW at,
           NEW next \in Pcs \ {"off", "idle"}, NEW onError \in Pcs \ {"off", "idle"},
           SavePhase(at, name, next, onError)
    PROVE  TypeOK'
<1>1. States' /\ faults' \in Nat /\ pc' \in {next, onError}
  BY PersistTyped, WorkingCopyTyped, TypeOKParts DEF SavePhase, States, TypeOK
<1>2. Rest'
  BY DEF SavePhase, Rest, TypeOK, rest, nginx, history
<1>3. Place'
  BY <1>1, NoReleaseAssumption DEF SavePhase, Place, TypeOK
<1> QED BY <1>1, <1>2, <1>3 DEF TypeOK, States, Rest, Place

LEMMA StepFailsTyped ==
    ASSUME TypeOK, rel \in Releases, NEW kind,
           NEW onError \in Pcs \ {"off", "idle"}, StepFails(kind, onError)
    PROVE  TypeOK'
BY NoReleaseAssumption
   DEF StepFails, Fault, Goto, TypeOK, rest, nginx, history

(* The actions that end a transaction.                                     *)
LEMMA EndTyped ==
    ASSUME TypeOK, rel \in Releases, NEW s \in TargetState, Finish(s),
           minted' \in Nat, adrift' \in BOOLEAN,
           UNCHANGED <<link, nginx, blocked, ticket, crashes>>
    PROVE  TypeOK'
<1>1. States' /\ faults' \in Nat
  BY FinishTyped
<1>2. Rest'
  BY FinishTyped DEF Rest, TypeOK, nginx
<1>3. Place'
  BY FinishTyped, NoReleaseAssumption DEF Place, TypeOK, Pcs
<1> QED BY <1>1, <1>2, <1>3 DEF TypeOK, States, Rest, Place

LEMMA SettleTyped ==
    ASSUME minted \in Nat, Settle
    PROVE  minted' \in Nat /\ adrift' \in BOOLEAN
<1>1. minted' \in Nat
  <2>1. minted' = minted + 1
    BY DEF Settle
  <2> QED BY <2>1
<1>2. adrift' \in BOOLEAN
  <2>1. adrift' = FALSE
    BY DEF Settle
  <2> QED BY <2>1
<1> QED BY <1>1, <1>2

LEMMA StepTyped ==
    ASSUME TypeOK, Step
    PROVE  TypeOK'
<1>1. rel \in Releases /\ pc \notin {"off", "idle"}
  BY StepHasRelease
<1>2. st \in TargetState /\ disk \in TargetState /\ minted \in Nat
  BY DEF TypeOK
<1>3. Rec \in Record /\ Rec.baseline \in Versions /\ Rec.candidate \in Versions
  BY <1>1, <1>2, RecordsTyped DEF Rec, Record
<1> USE <1>1
<1>4. CASE OpenTarget
  <2>1. CASE StepFails("target", "fail")
    BY <2>1, StepFailsTyped DEF Pcs
  <2>2. CASE Goto("verify_baseline")
             /\ UNCHANGED <<disk, link, nginx, view, rest, faults>>
    BY <2>2, NoReleaseAssumption DEF Goto, TypeOK, Pcs, rest, nginx, history
  <2> QED BY <1>4, <2>1, <2>2 DEF OpenTarget
<1>5. CASE SaveVerifyBaseline
  BY <1>5, SavePhaseTyped, PhasesContain DEF SaveVerifyBaseline, Pcs
<1>6. CASE CancelBaseline
  BY <1>6, StepFailsTyped DEF CancelBaseline, Pcs
<1>7. CASE AnswerResumable
  BY <1>7, NoReleaseAssumption
     DEF AnswerResumable, Resumable, TypeOK, Pcs, Terminal, nginx, history
<1>8. CASE Skip
  BY <1>8, NoReleaseAssumption DEF Skip, Goto, TypeOK, Pcs, rest, nginx, history
<1>9. CASE SaveSkipped
  BY <1>2, <1>9, EndTyped, WorkingCopyTyped, PhasesContain
     DEF SaveSkipped, TypeOK, history
<1>10. CASE GoOn
  <2>1. CASE StepFails("prepare", "prepare")
    BY <2>1, StepFailsTyped DEF Pcs
  <2>2. CASE Goto("prepare")
             /\ UNCHANGED <<disk, link, nginx, view, rest, faults>>
    BY <2>2, NoReleaseAssumption DEF Goto, TypeOK, Pcs, rest, nginx, history
  <2> QED BY <1>10, <2>1, <2>2 DEF GoOn
<1>11. CASE SavePrepare
  BY <1>11, SavePhaseTyped, PhasesContain DEF SavePrepare, Pcs
<1>12. CASE RunPrepare
  <2>1. CASE StepFails("prepare", "fail")
    BY <2>1, StepFailsTyped DEF Pcs
  <2>2. CASE /\ st' = Prepared
             /\ pc' = "switch_intent"
             /\ UNCHANGED <<disk, link, nginx, view, rel, op, rest, faults>>
    <3>1. Prepared \in TargetState
      BY <1>2, WorkingCopyTyped, PhasesContain
    <3> QED BY <2>2, <3>1, NoReleaseAssumption
            DEF TypeOK, Pcs, rest, nginx, history
  <2> QED BY <1>12, <2>1, <2>2 DEF RunPrepare
<1>13. CASE SaveIntent
  <2>1. WithIntent \in TargetState
    BY <1>2, WorkingCopyTyped, PhasesContain
  <2>2. States' /\ faults' \in Nat /\ pc' \in {"save_switch", "uncertain"}
    BY <1>13, <2>1, PersistTyped DEF SaveIntent, States, TypeOK
  <2> QED BY <1>13, <2>2, NoReleaseAssumption
          DEF SaveIntent, States, TypeOK, Pcs, rest, nginx, history
<1>14. CASE SaveSwitch
  BY <1>14, SavePhaseTyped, PhasesContain DEF SaveSwitch, Pcs
<1>15. CASE Switch
  BY <1>3, <1>15, NoReleaseAssumption
     DEF Switch, Goto, Fault, TypeOK, Pcs, rest, nginx, history
<1>16. CASE SaveTest
  BY <1>16, SavePhaseTyped, PhasesContain DEF SaveTest, Pcs
<1>17. CASE NginxTest
  <2>1. CASE StepFails("nginx", "restore")
    BY <2>1, StepFailsTyped DEF Pcs
  <2>2. CASE ~StepFails("nginx", "restore")
    BY <1>17, <2>2, NoReleaseAssumption
       DEF NginxTest, Goto, TypeOK, Pcs, rest, nginx, history
  <2> QED BY <2>1, <2>2
<1>18. CASE SaveReload
  BY <1>18, SavePhaseTyped, PhasesContain DEF SaveReload, Pcs
<1>19. CASE NginxReload
  BY <1>19, NoReleaseAssumption
     DEF NginxReload, Goto, Fault, TypeOK, Pcs, rest, nginx, history
<1>20. CASE SaveVerify
  BY <1>20, SavePhaseTyped, PhasesContain DEF SaveVerify, Pcs
<1>21. CASE VerifyActivation
  <2>1. CASE StepFails("nginx", "restore")
    BY <2>1, StepFailsTyped DEF Pcs
  <2>2. CASE Goto("commit")
             /\ UNCHANGED <<disk, link, nginx, view, rest, faults>>
    BY <2>2, NoReleaseAssumption DEF Goto, TypeOK, Pcs, rest, nginx, history
  <2> QED BY <1>21, <2>1, <2>2 DEF VerifyActivation
<1>22. CASE Commit
  <2>1. minted' \in Nat /\ adrift' \in BOOLEAN
    BY <1>2, <1>22, SettleTyped DEF Commit
  <2>2. Succeeded("complete") \in TargetState
    BY <1>2, SucceededTyped, PhasesContain
  <2> QED BY <1>22, <2>1, <2>2, EndTyped DEF Commit
<1>23. CASE CommitGitStage
  <2>1. minted' \in Nat /\ adrift' \in BOOLEAN
    BY <1>2, <1>23, SettleTyped DEF CommitGitStage
  <2>2. Succeeded("latest_switched") \in TargetState
    BY <1>2, SucceededTyped, PhasesContain
  <2> QED BY <1>23, <2>1, <2>2, EndTyped DEF CommitGitStage
<1>24. CASE SaveTested
  BY <1>2, <1>24, EndTyped, WorkingCopyTyped, PhasesContain
     DEF SaveTested, TypeOK, history
<1>25. CASE Fail
  BY <1>2, <1>25, EndTyped, FailedTyped DEF Fail, TypeOK, history
<1>26. CASE RestoreLink
  BY <1>3, <1>26, NoReleaseAssumption
     DEF RestoreLink, Goto, Fault, TypeOK, Pcs, rest, nginx, history
<1>27. CASE RestoreTest
  <2>1. CASE StepFails("recovery", "recovery_failed")
    BY <2>1, StepFailsTyped DEF Pcs
  <2>2. CASE ~StepFails("recovery", "recovery_failed")
    BY <1>27, <2>2, NoReleaseAssumption
       DEF RestoreTest, Goto, TypeOK, Pcs, rest, nginx, history
  <2> QED BY <2>1, <2>2
<1>28. CASE RestoreReload
  BY <1>28, NoReleaseAssumption
     DEF RestoreReload, Goto, Fault, TypeOK, Pcs, rest, nginx, history
<1>29. CASE RestoreVerify
  <2>1. CASE StepFails("recovery", "recovery_failed")
    BY <2>1, StepFailsTyped DEF Pcs
  <2>2. CASE Goto("restored")
             /\ UNCHANGED <<disk, link, nginx, view, rest, faults>>
    BY <2>2, NoReleaseAssumption DEF Goto, TypeOK, Pcs, rest, nginx, history
  <2> QED BY <1>29, <2>1, <2>2 DEF RestoreVerify
<1>30. CASE Restored
  <2>1. Reverted(minted + 1) \in TargetState
    BY <1>2, WorkingCopyTyped, PhasesContain
  <2>2. minted' \in Nat /\ adrift' \in BOOLEAN
    BY <1>2, <1>30, SettleTyped DEF Restored
  <2> QED BY <1>30, <2>1, <2>2, EndTyped, FailedTyped DEF Restored
<1>31. CASE Uncertain
  <2>1. Undecided \in TargetState
    BY <1>2, WorkingCopyTyped, PhasesContain
  <2>2. told' \in [Releases -> Terminal \cup {"none"}]
        /\ pc' = "idle" /\ rel' = NoRelease /\ op' = "none"
    BY <1>31, ReturnTyped DEF Uncertain
  <2>3. States' /\ faults' \in Nat /\ blocked' \in BOOLEAN
    <3>1. view' \in TargetState /\ st' \in TargetState
      BY <1>31, <2>1 DEF Uncertain
    <3>2. CASE disk' = Undecided /\ UNCHANGED <<blocked, faults>>
      BY <2>1, <3>1, <3>2 DEF States, TypeOK
    <3>3. CASE /\ Fault("save") /\ disk' \in {disk, Undecided}
               /\ blocked' = TRUE
      BY <1>2, <2>1, <3>1, <3>3 DEF States, Fault, TypeOK
    <3> QED BY <1>31, <3>2, <3>3 DEF Uncertain
  <2> QED BY <1>31, <2>2, <2>3 DEF Uncertain, States, TypeOK, Pcs, nginx
<1> QED BY <1>4, <1>5, <1>6, <1>7, <1>8, <1>9, <1>10, <1>11, <1>12, <1>13,
           <1>14, <1>15, <1>16, <1>17, <1>18, <1>19, <1>20, <1>21, <1>22,
           <1>23, <1>24, <1>25, <1>26, <1>27, <1>28, <1>29, <1>30, <1>31
        DEF Step

LEMMA AcceptTyped ==
    ASSUME TypeOK, NEW r \in Releases, NEW q \in Request,
           NEW o \in {"apply", "stage"}, Accept(r, q, o), ticket' \in Request
    PROVE  TypeOK'
<1>1. [Takeover(r) EXCEPT !.records[r] = NewRecord(q), !.active = r]
          \in TargetState
  BY AcceptedTyped DEF TypeOK
<1>2. States' /\ faults' \in Nat /\ pc' \in {"open", "uncertain"}
  BY <1>1, PersistTyped DEF Accept, States, TypeOK
<1>3. Rest'
  BY DEF Accept, Rest, TypeOK, nginx, history
<1>4. Place'
  BY <1>2, NoReleaseAssumption DEF Accept, Place, TypeOK, Pcs
<1> QED BY <1>2, <1>3, <1>4 DEF TypeOK, States, Rest, Place

(* The requests, whether they take the lock or not.                        *)
LEMMA RequestTyped ==
    ASSUME TypeOK, NEW r \in Releases,
           \/ \E c \in Commits, o \in {"apply", "stage"} : Publish(r, c, o)
           \/ \E original \in Releases : RestoreOf(r, original)
           \/ ReadRollback(r)
           \/ StageRollback(r)
           \/ Replay(r)
           \/ \E o \in {"test", "reload", "abort"} : Command(r, o)
    PROVE  TypeOK'
<1>1. ASSUME NEW c \in Commits, NEW o \in {"apply", "stage"}, Publish(r, c, o)
      PROVE  TypeOK'
  <2>1. [NoRequest EXCEPT !.commit = c] \in Request
    BY NewStateTyped, VersionsContain DEF Request
  <2>2. ticket' \in Request
    BY <1>1 DEF Publish, TypeOK
  <2> QED BY <1>1, <2>1, <2>2, AcceptTyped DEF Publish
<1>2. ASSUME NEW original \in Releases, RestoreOf(r, original)
      PROVE  TypeOK'
  <2> DEFINE q == [commit |-> disk.records[original].baseline,
                   restoreOf |-> original, expected |-> disk.revision]
  <2>1. q \in Request
    BY RecordsTyped DEF TypeOK, TargetState, Record, Request
  <2>2. ticket' \in Request
    BY <1>2 DEF RestoreOf, TypeOK
  <2>3. Accept(r, q, "stage")
    BY <1>2 DEF RestoreOf
  <2> HIDE DEF q
  <2> QED BY <2>1, <2>2, <2>3, AcceptTyped
<1>3. CASE ReadRollback(r)
  <2>1. [commit |-> disk.previous, restoreOf |-> r, expected |-> disk.revision]
            \in Request
    BY DEF TypeOK, TargetState, Request
  <2> QED BY <1>3, <2>1
          DEF ReadRollback, TypeOK, transaction, nginx, history
<1>4. CASE StageRollback(r)
  <2>1. ticket \in Request /\ ticket' \in Request
    BY <1>4, NewStateTyped DEF StageRollback, TypeOK
  <2> QED BY <1>4, <2>1, AcceptTyped DEF StageRollback
<1>5. CASE Replay(r)
  BY <1>5 DEF Replay, TypeOK, transaction, nginx, history
<1>6. ASSUME NEW o \in {"test", "reload", "abort"}, Command(r, o)
      PROVE  TypeOK'
  <2>1. pc' \in Pcs \ {"off", "idle"}
    BY <1>6 DEF Command, Entry, Pcs
  <2>2. faults' \in Nat
    BY <1>6 DEF Command, Fault, TypeOK
  <2> QED BY <1>6, <2>1, <2>2, NoReleaseAssumption
          DEF Command, TypeOK, nginx, rest, history
<1> QED BY <1>1, <1>2, <1>3, <1>4, <1>5, <1>6

(* Startup.                                                                *)
LEMMA StartTyped ==
    ASSUME TypeOK, Start
    PROVE  TypeOK'
<1>1. CASE StartIdle
  <2> DEFINE s == [disk EXCEPT !.recovery = FALSE]
             unverified == [disk EXCEPT !.recovery = TRUE]
  <2>1. s \in TargetState /\ unverified \in TargetState
    BY DEF TypeOK, TargetState
  <2>2. /\ \/ Save(s) /\ UNCHANGED blocked
           \/ /\ disk' \in {disk, s, unverified}
              /\ view' \in {disk, unverified} /\ st' \in {disk, unverified}
              /\ blocked' \in {blocked, TRUE}
              /\ faults' \in {faults, faults + 1}
        /\ pc' = "idle"
        /\ UNCHANGED <<link, nginx, rel, op, ticket, told, history>>
    BY <1>1 DEF StartIdle, Fault
  <2> HIDE DEF s, unverified
  <2>3. States' /\ faults' \in Nat
    <3>1. CASE Save(s)
      BY <2>1, <3>1 DEF Save, States, TypeOK
    <3>2. CASE /\ disk' \in {disk, s, unverified}
               /\ view' \in {disk, unverified} /\ st' \in {disk, unverified}
               /\ faults' \in {faults, faults + 1}
      BY <2>1, <3>2 DEF States, TypeOK
    <3> QED BY <2>2, <3>1, <3>2
  <2>4. blocked' \in BOOLEAN
    BY <2>2 DEF TypeOK
  <2>5. pc = "off"
    BY <1>1 DEF StartIdle
  <2> QED BY <2>2, <2>3, <2>4, <2>5 DEF States, TypeOK, Pcs, nginx, history
<1>2. CASE StartWithoutIntent
  <2>1. [disk EXCEPT !.recovery = FALSE] \in TargetState
    BY DEF TypeOK, TargetState
  <2>2. disk.active \in Releases
    BY <1>2 DEF StartWithoutIntent, TypeOK, TargetState
  <2> QED BY <1>2, <2>1, <2>2, NoReleaseAssumption
          DEF StartWithoutIntent, Recovering, TypeOK, Pcs, nginx, rest, history
<1>3. CASE StartWithIntent
  <2>1. disk.active \in Releases
    BY <1>3 DEF StartWithIntent, TypeOK, TargetState
  <2>2. /\ pc' \in {"test", "restore", "recovery_failed"}
        /\ rel' = disk.active /\ op' = "startup" /\ faults' \in Nat
    BY <1>3 DEF StartWithIntent, Recovering, Fault, TypeOK
  <2> QED BY <1>3, <2>1, <2>2, NoReleaseAssumption
          DEF StartWithIntent, TypeOK, Pcs, nginx, rest, history
<1> QED BY <1>1, <1>2, <1>3 DEF Start

LEMMA NextTyped == TypeOK /\ [Next]_vars => TypeOK'
<1> SUFFICES ASSUME TypeOK, [Next]_vars
             PROVE  TypeOK'
  OBVIOUS
<1>1. CASE Step
  BY <1>1, StepTyped
<1>2. CASE Start
  BY <1>2, StartTyped
<1>3. CASE RefuseRollback
  BY <1>3, NewStateTyped
     DEF RefuseRollback, TypeOK, transaction, nginx, history
<1>4. CASE RefuseBlocked
  BY <1>4 DEF RefuseBlocked, TypeOK, transaction, nginx, rest, history
<1>5. CASE LoadFails
  BY <1>5 DEF LoadFails, Fault, TypeOK, transaction, nginx, history
<1>6. CASE Crash
  <2>1. adrift' \in BOOLEAN /\ blocked' \in BOOLEAN
    BY <1>6 DEF Crash
  <2>2. ticket' \in Request /\ crashes' \in Nat
    BY <1>6, NewStateTyped DEF Crash, TypeOK
  <2> QED BY <1>6, <2>1, <2>2 DEF Crash, TypeOK, Pcs, nginx
<1>7. CASE UNCHANGED vars
  BY <1>7 DEF vars, TypeOK
<1> QED BY <1>1, <1>2, <1>3, <1>4, <1>5, <1>6, <1>7, RequestTyped DEF Next

LEMMA InitTyped == Init => TypeOK
<1> SUFFICES ASSUME Init PROVE TypeOK
  OBVIOUS
<1>1. /\ told \in [Releases -> Terminal \cup {"none"}]
      /\ blocked \in BOOLEAN /\ adrift \in BOOLEAN
      /\ ticket \in Request
  BY NewStateTyped DEF Init
<1>2. States
  BY NewStateTyped DEF Init, States
<1> QED BY <1>1, <1>2 DEF Init, States, TypeOK, Versions, Pcs

(* Every variable has its type in every reachable state, and a release is  *)
(* being worked on exactly while the handler is under way: no path leaves  *)
(* the handler with a release in hand, or starts a step without one.       *)
THEOREM TypeCorrect == Spec => []TypeOK
BY InitTyped, NextTyped, PTL DEF Spec

-----------------------------------------------------------------------------
(* Revisions.  The property is about the disk, but a save that reported an *)
(* error may have written what the handler holds, and the next save builds *)
(* on it: the invariant relates the two copies, and both to the revisions  *)
(* handed out so far.                                                      *)

Revisions == /\ disk.revision <= st.revision
             /\ st.revision <= minted
             /\ st.revision = disk.revision => Pair(st) = Pair(disk)

(* A state that may be written: it says no less than the disk does.        *)
Follows(s) == /\ disk.revision <= s.revision
              /\ s.revision = disk.revision => Pair(s) = Pair(disk)

PairStep == /\ disk'.revision >= disk.revision
            /\ Pair(disk') # Pair(disk) => disk'.revision > disk.revision

LEMMA RevisionsTyped ==
    ASSUME NEW s \in TargetState
    PROVE  s.revision \in Nat
BY DEF TargetState

LEMMA Written ==
    ASSUME TypeOK, Revisions, NEW s \in TargetState, Follows(s),
           disk' \in {disk, s}, st' = s, minted' \in Nat, s.revision <= minted'
    PROVE  Revisions' /\ PairStep
<1>1. disk.revision \in Nat /\ s.revision \in Nat
  BY RevisionsTyped DEF TypeOK
<1>2. CASE disk' = disk
  BY <1>1, <1>2 DEF Revisions, Follows, PairStep, Pair
<1>3. CASE disk' = s
  BY <1>1, <1>3 DEF Revisions, Follows, PairStep, Pair
<1> QED BY <1>2, <1>3

(* A state with the revision and the pair of another.                      *)
Like(s, t) == s.revision = t.revision /\ Pair(s) = Pair(t)

LEMMA LikeFollows ==
    ASSUME TypeOK, Revisions, NEW s, Like(s, st) \/ Like(s, disk)
    PROVE  Follows(s) /\ s.revision <= minted
<1>1. disk.revision \in Nat /\ st.revision \in Nat /\ minted \in Nat
  BY RevisionsTyped DEF TypeOK
<1>2. CASE Like(s, st)
  BY <1>1, <1>2 DEF Like, Follows, Revisions
<1>3. CASE Like(s, disk)
  BY <1>1, <1>3 DEF Like, Follows, Revisions
<1> QED BY <1>2, <1>3

(* What the states a handler writes in between have in common.             *)
LEMMA WorkingCopyLike ==
    ASSUME st \in TargetState, NEW name
    PROVE  /\ Like(WithPhase(name), st) /\ Like(WithIntent, st)
           /\ Like(Prepared, st) /\ Like(Skipped, st) /\ Like(Tested, st)
           /\ Like(Undecided, st) /\ Like(Failed(st), st)
BY DEF Like, Pair, WithPhase, WithIntent, Prepared, Skipped, Tested, Undecided,
       Failed, TargetState

LEMMA AcceptedLike ==
    ASSUME disk \in TargetState, NEW r \in Releases, NEW q
    PROVE  Like([Takeover(r) EXCEPT !.records[r] = NewRecord(q), !.active = r],
                disk)
BY DEF Like, Pair, Takeover, TargetState

LEMMA SettledAhead ==
    ASSUME st \in TargetState, minted \in Nat, NEW name
    PROVE  /\ Succeeded(name).revision = minted + 1
           /\ Failed(Reverted(minted + 1)).revision = minted + 1
BY DEF Succeeded, Failed, Reverted, TargetState

(* Nothing is written, and the copies stay.                                *)
LEMMA Unwritten ==
    ASSUME TypeOK, Revisions, UNCHANGED <<disk, st, minted>>
    PROVE  Revisions' /\ PairStep
<1>1. disk.revision \in Nat
  BY RevisionsTyped DEF TypeOK
<1> QED BY <1>1 DEF Revisions, PairStep, Pair

(* The copy is made afresh from the disk.                                  *)
LEMMA Reread ==
    ASSUME TypeOK, Revisions, UNCHANGED minted, Like(disk', disk), Like(st', disk)
    PROVE  Revisions' /\ PairStep
<1>1. disk.revision \in Nat /\ st.revision \in Nat /\ minted \in Nat
  BY RevisionsTyped DEF TypeOK
<1> QED BY <1>1 DEF Revisions, PairStep, Like, Pair

(* Each way to write puts the state, or nothing, on the disk.              *)
LEMMA WaysToWrite ==
    ASSUME NEW s, NEW next, NEW onError,
           Persist(s, next, onError) \/ Finish(s)
    PROVE  disk' \in {disk, s} /\ st' = s
BY DEF Persist, Finish, Save, SaveFails

LEMMA WrittenInBetween ==
    ASSUME TypeOK, Revisions, NEW s \in TargetState,
           Like(s, st) \/ Like(s, disk),
           disk' \in {disk, s}, st' = s, UNCHANGED minted
    PROVE  Revisions' /\ PairStep
<1>1. Follows(s) /\ s.revision <= minted'
  BY LikeFollows
<1>2. minted' \in Nat
  BY DEF TypeOK
<1> QED BY <1>1, <1>2, Written

LEMMA WrittenAtTheEnd ==
    ASSUME TypeOK, Revisions, NEW s \in TargetState, s.revision = minted + 1,
           Finish(s), minted' = minted + 1
    PROVE  Revisions' /\ PairStep
<1>1. disk.revision \in Nat /\ st.revision \in Nat /\ minted \in Nat
  BY RevisionsTyped DEF TypeOK
<1>2. Follows(s)
  BY <1>1 DEF Follows, Revisions
<1>3. minted' \in Nat /\ s.revision <= minted'
  BY <1>1
<1>4. disk' \in {disk, s} /\ st' = s
  BY WaysToWrite
<1> QED BY <1>2, <1>3, <1>4, Written

LEMMA StepKeepsRevisions ==
    ASSUME TypeOK, Revisions, Step
    PROVE  Revisions' /\ PairStep
<1>1. rel \in Releases /\ st \in TargetState /\ disk \in TargetState
      /\ minted \in Nat
  BY StepHasRelease DEF TypeOK
<1>2. ASSUME NEW name \in Phases, NEW at, NEW next, NEW onError,
             SavePhase(at, name, next, onError)
      PROVE  Revisions' /\ PairStep
  <2>1. WithPhase(name) \in TargetState /\ Like(WithPhase(name), st)
    BY <1>1, WorkingCopyTyped, WorkingCopyLike
  <2>2. disk' \in {disk, WithPhase(name)} /\ st' = WithPhase(name)
        /\ UNCHANGED minted
    BY <1>2, WaysToWrite DEF SavePhase, rest, history
  <2> QED BY <2>1, <2>2, WrittenInBetween
<1>3. CASE \/ SaveVerifyBaseline \/ SavePrepare \/ SaveSwitch \/ SaveTest
           \/ SaveReload \/ SaveVerify
  BY <1>2, <1>3, PhasesContain
     DEF SaveVerifyBaseline, SavePrepare, SaveSwitch, SaveTest, SaveReload,
         SaveVerify
<1>4. CASE \/ OpenTarget \/ CancelBaseline \/ AnswerResumable \/ Skip \/ GoOn
           \/ Switch \/ NginxTest \/ NginxReload \/ VerifyActivation
           \/ RestoreLink \/ RestoreTest \/ RestoreReload \/ RestoreVerify
  <2>1. UNCHANGED <<disk, st, minted>>
    BY <1>4 DEF OpenTarget, CancelBaseline, AnswerResumable, Skip, GoOn, Switch,
       NginxTest, NginxReload, VerifyActivation, RestoreLink, RestoreTest,
       RestoreReload, RestoreVerify, StepFails, Goto, rest, history
  <2> QED BY <2>1, Unwritten
<1>5. CASE RunPrepare
  <2>1. CASE StepFails("prepare", "fail")
    <3>1. UNCHANGED <<disk, st, minted>>
      BY <2>1 DEF StepFails, Goto, rest, history
    <3> QED BY <3>1, Unwritten
  <2>2. CASE st' = Prepared /\ UNCHANGED <<disk, rest>>
    <3>1. Prepared \in TargetState /\ Like(Prepared, st)
      BY <1>1, WorkingCopyTyped, WorkingCopyLike, PhasesContain
    <3> QED BY <2>2, <3>1, WrittenInBetween DEF rest, history
  <2> QED BY <1>5, <2>1, <2>2 DEF RunPrepare
<1>6. CASE SaveIntent
  <2>1. WithIntent \in TargetState /\ Like(WithIntent, st)
    BY <1>1, WorkingCopyTyped, WorkingCopyLike, PhasesContain
  <2>2. disk' \in {disk, WithIntent} /\ st' = WithIntent /\ UNCHANGED minted
    BY <1>6, WaysToWrite DEF SaveIntent, rest, history
  <2> QED BY <2>1, <2>2, WrittenInBetween
<1>7. CASE SaveSkipped
  <2>1. Skipped \in TargetState /\ Like(Skipped, st)
    BY <1>1, WorkingCopyTyped, WorkingCopyLike, PhasesContain
  <2>2. disk' \in {disk, Skipped} /\ st' = Skipped /\ UNCHANGED minted
    BY <1>7, WaysToWrite DEF SaveSkipped, history
  <2> QED BY <2>1, <2>2, WrittenInBetween
<1>8. CASE SaveTested
  <2>1. Tested \in TargetState /\ Like(Tested, st)
    BY <1>1, WorkingCopyTyped, WorkingCopyLike, PhasesContain
  <2>2. disk' \in {disk, Tested} /\ st' = Tested /\ UNCHANGED minted
    BY <1>8, WaysToWrite DEF SaveTested, history
  <2> QED BY <2>1, <2>2, WrittenInBetween
<1>9. CASE Fail
  <2>1. Failed(st) \in TargetState /\ Like(Failed(st), st)
    BY <1>1, FailedTyped, WorkingCopyLike
  <2>2. disk' \in {disk, Failed(st)} /\ st' = Failed(st) /\ UNCHANGED minted
    BY <1>9, WaysToWrite DEF Fail, history
  <2> QED BY <2>1, <2>2, WrittenInBetween
<1>10. CASE Uncertain
  <2>1. Undecided \in TargetState /\ Like(Undecided, st)
    BY <1>1, WorkingCopyTyped, WorkingCopyLike, PhasesContain
  <2>2. disk' \in {disk, Undecided} /\ st' = Undecided /\ UNCHANGED minted
    BY <1>10 DEF Uncertain
  <2> QED BY <2>1, <2>2, WrittenInBetween
<1>11. CASE Commit \/ CommitGitStage
  <2>1. PICK name \in Phases : Finish(Succeeded(name)) /\ minted' = minted + 1
    BY <1>11, PhasesContain DEF Commit, CommitGitStage, Settle
  <2>2. /\ Succeeded(name) \in TargetState
        /\ Succeeded(name).revision = minted + 1
    BY <1>1, SucceededTyped, SettledAhead
  <2> QED BY <2>1, <2>2, WrittenAtTheEnd
<1>12. CASE Restored
  <2> DEFINE s == Failed(Reverted(minted + 1))
  <2>1. s \in TargetState /\ s.revision = minted + 1
    BY <1>1, WorkingCopyTyped, FailedTyped, SettledAhead, PhasesContain
  <2>2. Finish(s) /\ minted' = minted + 1
    BY <1>12 DEF Restored, Settle
  <2> QED BY <2>1, <2>2, WrittenAtTheEnd
<1> QED BY <1>3, <1>4, <1>5, <1>6, <1>7, <1>8, <1>9, <1>10, <1>11, <1>12
        DEF Step

LEMMA AcceptKeepsRevisions ==
    ASSUME TypeOK, Revisions, NEW r \in Releases, NEW q \in Request, NEW o,
           Accept(r, q, o)
    PROVE  Revisions' /\ PairStep
<1> DEFINE s == [Takeover(r) EXCEPT !.records[r] = NewRecord(q), !.active = r]
<1>1. s \in TargetState /\ Like(s, disk)
  BY AcceptedTyped, AcceptedLike DEF TypeOK
<1>2. disk' \in {disk, s} /\ st' = s /\ UNCHANGED minted
  BY WaysToWrite DEF Accept, history
<1> HIDE DEF s
<1> QED BY <1>1, <1>2, WrittenInBetween

LEMMA NextKeepsRevisions ==
    ASSUME TypeOK, Revisions, [Next]_vars
    PROVE  Revisions' /\ PairStep
<1>1. CASE Step
  BY <1>1, StepKeepsRevisions
<1>2. ASSUME NEW r \in Releases, NEW c \in Commits, NEW o, Publish(r, c, o)
      PROVE  Revisions' /\ PairStep
  <2>1. [NoRequest EXCEPT !.commit = c] \in Request
    BY NewStateTyped, VersionsContain DEF Request
  <2> QED BY <1>2, <2>1, AcceptKeepsRevisions DEF Publish
<1>3. ASSUME NEW r \in Releases, NEW original \in Releases,
             RestoreOf(r, original)
      PROVE  Revisions' /\ PairStep
  <2>1. [commit |-> disk.records[original].baseline, restoreOf |-> original,
         expected |-> disk.revision] \in Request
    BY RecordsTyped DEF TypeOK, TargetState, Record, Request
  <2> QED BY <1>3, <2>1, AcceptKeepsRevisions DEF RestoreOf
<1>4. ASSUME NEW r \in Releases, StageRollback(r)
      PROVE  Revisions' /\ PairStep
  <2>1. ticket \in Request
    BY DEF TypeOK
  <2> QED BY <1>4, <2>1, AcceptKeepsRevisions DEF StageRollback
<1>5. ASSUME NEW r \in Releases, NEW o, Command(r, o)
      PROVE  Revisions' /\ PairStep
  <2>1. disk' = disk /\ st' = disk /\ UNCHANGED minted
    BY <1>5 DEF Command, rest, history
  <2> QED BY <2>1, Reread DEF Like
<1>6. ASSUME \/ \E r \in Releases : ReadRollback(r) \/ Replay(r)
             \/ RefuseRollback \/ RefuseBlocked \/ LoadFails \/ UNCHANGED vars
      PROVE  Revisions' /\ PairStep
  <2>1. UNCHANGED <<disk, st, minted>>
    BY <1>6 DEF ReadRollback, Replay, RefuseRollback, RefuseBlocked, LoadFails,
       vars, transaction, rest, history
  <2> QED BY <2>1, Unwritten
<1>7. CASE Start
  <2>1. disk \in TargetState
    BY DEF TypeOK
  <2>2. /\ Like([disk EXCEPT !.recovery = FALSE], disk)
        /\ Like([disk EXCEPT !.recovery = TRUE], disk)
        /\ Like(disk, disk)
    BY <2>1 DEF Like, Pair, TargetState
  <2>3. /\ \/ disk' = disk
           \/ disk' = [disk EXCEPT !.recovery = FALSE]
           \/ disk' = [disk EXCEPT !.recovery = TRUE]
        /\ \/ st' = disk
           \/ st' = [disk EXCEPT !.recovery = FALSE]
           \/ st' = [disk EXCEPT !.recovery = TRUE]
        /\ UNCHANGED minted
    BY <1>7 DEF Start, StartIdle, StartWithoutIntent, StartWithIntent, Save,
       rest, history
  <2>4. Like(disk', disk) /\ Like(st', disk)
    BY <2>2, <2>3 DEF Like
  <2> QED BY <2>3, <2>4, Reread
<1>8. CASE Crash
  <2>1. disk' = disk /\ st' = disk /\ UNCHANGED minted
    BY <1>8 DEF Crash
  <2> QED BY <2>1, Reread DEF Like
<1> QED BY <1>1, <1>2, <1>3, <1>4, <1>5, <1>6, <1>7, <1>8 DEF Next

(* Whenever the recorded pair changes its revision is a new one and no old *)
(* one returns, through failed saves, crashes and restarts: what clients   *)
(* compare with, and what restore_of relies on, names one pair for ever.   *)
THEOREM RevisionsNamePairs == Spec => RevisionNamesPair
<1> DEFINE IInv == TypeOK /\ Revisions
<1>1. Init => IInv
  <2>1. Init => TypeOK
    BY InitTyped
  <2>2. Init => Revisions
    BY DEF Init, NewState, Revisions, Pair
  <2> QED BY <2>1, <2>2
<1>2. IInv /\ [Next]_vars => IInv'
  BY NextTyped, NextKeepsRevisions
<1>3. IInv /\ [Next]_vars =>
          [/\ disk'.revision >= disk.revision
           /\ Pair(disk') # Pair(disk) => disk'.revision > disk.revision]_vars
  BY NextKeepsRevisions DEF PairStep
<1> QED BY <1>1, <1>2, <1>3, PTL DEF Spec, RevisionNamesPair

-----------------------------------------------------------------------------
(* Reloads.  nginx -t runs in one request and the reload in a later one:   *)
(* what connects them is the mark on the record, so a marked record names  *)
(* a version that passed, and the candidate is fixed before it is marked.  *)

MarksHold(s) == \A r \in Releases :
                    s.records[r].tested => s.records[r].candidate \in passed

Vetted == /\ MarksHold(disk) /\ MarksHold(st)
          /\ pc \in {"save_reload", "reload", "restore_reload"} => link \in passed
          /\ pc \in {"open", "verify_baseline", "compare", "prepare",
                     "run_prepare"} => ~Rec.tested
          /\ pc \in {"save_test", "test"} /\ op = "test" => link = Rec.candidate
          /\ pc = "tested" => Rec.candidate \in passed

(* A state all of whose marks are those of another, or whose record for r  *)
(* has none.                                                               *)
MarksLike(s, t) == \A r \in Releases :
                       \/ ~s.records[r].tested
                       \/ /\ s.records[r].tested = t.records[r].tested
                          /\ s.records[r].candidate = t.records[r].candidate

LEMMA MarksLikeHold ==
    ASSUME NEW s, NEW t, MarksLike(s, t), MarksHold(t)
    PROVE  MarksHold(s)
BY DEF MarksLike, MarksHold

(* The states a handler writes keep the marks, but for the one it sets.    *)
LEMMA WorkingCopyMarks ==
    ASSUME st \in TargetState, rel \in Releases, NEW name
    PROVE  /\ MarksLike(WithPhase(name), st) /\ MarksLike(WithIntent, st)
           /\ ~Rec.tested => MarksLike(Prepared, st)
           /\ MarksLike(Skipped, st)
           /\ MarksLike(Undecided, st)
           /\ Rec.candidate \in passed /\ MarksHold(st) => MarksHold(Tested)
           /\ WithPhase(name).records[rel].tested = Rec.tested
           /\ WithPhase(name).records[rel].candidate = Rec.candidate
<1>1. st.records \in [Releases -> Record]
  BY DEF TargetState
<1>2. MarksLike(WithPhase(name), st)
  BY <1>1 DEF MarksLike, WithPhase, TargetState, Record
<1>3. MarksLike(WithIntent, st)
  BY <1>1 DEF MarksLike, WithIntent, TargetState, Record
<1>4. ~Rec.tested => MarksLike(Prepared, st)
  BY <1>1 DEF MarksLike, Prepared, Rec, TargetState, Record
<1>5. MarksLike(Skipped, st)
  BY <1>1 DEF MarksLike, Skipped, TargetState, Record
<1>6. MarksLike(Undecided, st)
  BY <1>1 DEF MarksLike, Undecided, TargetState, Record
<1>7. Rec.candidate \in passed /\ MarksHold(st) => MarksHold(Tested)
  BY <1>1 DEF MarksHold, Tested, Rec, TargetState, Record
<1>8. /\ WithPhase(name).records[rel].tested = Rec.tested
      /\ WithPhase(name).records[rel].candidate = Rec.candidate
  BY <1>1 DEF WithPhase, Rec, TargetState, Record
<1> QED BY <1>2, <1>3, <1>4, <1>5, <1>6, <1>7, <1>8

LEMMA EndMarks ==
    ASSUME st \in TargetState, rel \in Releases, NEW name, NEW n
    PROVE  /\ MarksLike(Succeeded(name), st)
           /\ MarksLike(Failed(st), st)
           /\ MarksLike(Failed(Reverted(n)), st)
<1>1. st.records \in [Releases -> Record]
  BY DEF TargetState
<1>2. MarksLike(Succeeded(name), st)
  BY <1>1 DEF MarksLike, Succeeded, TargetState, Record
<1>3. MarksLike(Failed(st), st)
  BY <1>1 DEF MarksLike, Failed, TargetState, Record
<1>4. MarksLike(Failed(Reverted(n)), st)
  BY <1>1 DEF MarksLike, Failed, Reverted, TargetState, Record
<1> QED BY <1>2, <1>3, <1>4

(* A request comes in with an unmarked record.                             *)
LEMMA AcceptedMarks ==
    ASSUME disk \in TargetState, NEW r \in Releases, NEW q
    PROVE  LET s == [Takeover(r) EXCEPT !.records[r] = NewRecord(q), !.active = r]
           IN  MarksLike(s, disk) /\ ~s.records[r].tested /\ s.active = r
<1>1. disk.records \in [Releases -> Record]
  BY DEF TargetState
<1>2. ~NewRecord(q).tested
  BY DEF NewRecord, NoRecord
<1> QED BY <1>1, <1>2 DEF MarksLike, Takeover, TargetState, Record

LEMMA MarksWritten ==
    ASSUME MarksHold(disk), passed \subseteq passed', NEW s, MarksHold(s),
           disk' \in {disk, s}, st' = s \/ st' = disk
    PROVE  (MarksHold(disk) /\ MarksHold(st))'
BY DEF MarksHold

LEMMA MarksUnwritten ==
    ASSUME MarksHold(disk), MarksHold(st), passed \subseteq passed',
           UNCHANGED <<disk, st>>
    PROVE  (MarksHold(disk) /\ MarksHold(st))'
BY DEF MarksHold

(* A phase is saved: the release, latest and the record's marks stay.      *)
LEMMA SavePhaseVetted ==
    ASSUME TypeOK, Vetted, rel \in Releases, NEW at, NEW name \in Phases,
           NEW next, NEW onError, SavePhase(at, name, next, onError)
    PROVE  /\ (MarksHold(disk) /\ MarksHold(st))'
           /\ Rec'.tested = Rec.tested /\ Rec'.candidate = Rec.candidate
           /\ UNCHANGED <<link, passed, op>>
           /\ pc = at /\ pc' \in {next, onError}
<1>1. st \in TargetState
  BY DEF TypeOK
<1>2. MarksHold(WithPhase(name))
  BY <1>1, WorkingCopyMarks, MarksLikeHold DEF Vetted
<1>3. disk' \in {disk, WithPhase(name)} /\ st' = WithPhase(name)
  BY WaysToWrite DEF SavePhase
<1>4. UNCHANGED <<link, passed, rel, op>>
  BY DEF SavePhase, nginx
<1>5. (MarksHold(disk) /\ MarksHold(st))'
  BY <1>2, <1>3, <1>4, MarksWritten DEF Vetted
<1>6. Rec'.tested = Rec.tested /\ Rec'.candidate = Rec.candidate
  BY <1>1, <1>3, <1>4, WorkingCopyMarks DEF Rec
<1>7. pc = at /\ pc' \in {next, onError}
  BY DEF SavePhase, Persist
<1> QED BY <1>4, <1>5, <1>6, <1>7

(* A handler that ends, or cannot, needs no more than the marks.           *)
LEMMA EndVetted ==
    ASSUME Vetted, NEW s, MarksHold(s), Finish(s), UNCHANGED passed
    PROVE  Vetted'
<1>1. (MarksHold(disk) /\ MarksHold(st))'
  BY WaysToWrite, MarksWritten DEF Vetted
<1>2. pc' \in {"idle", "uncertain"}
  BY DEF Finish, Return
<1> QED BY <1>1, <1>2 DEF Vetted

LEMMA StepVetted ==
    ASSUME TypeOK, Vetted, Step
    PROVE  Vetted'
<1>1. rel \in Releases /\ st \in TargetState
  BY StepHasRelease DEF TypeOK
<1>2. CASE SaveVerifyBaseline
  BY <1>1, <1>2, SavePhaseVetted, PhasesContain DEF SaveVerifyBaseline, Vetted
<1>3. CASE SavePrepare
  BY <1>1, <1>3, SavePhaseVetted, PhasesContain DEF SavePrepare, Vetted
<1>4. CASE SaveSwitch
  BY <1>1, <1>4, SavePhaseVetted, PhasesContain DEF SaveSwitch, Vetted
<1>5. CASE SaveTest
  BY <1>1, <1>5, SavePhaseVetted, PhasesContain DEF SaveTest, Vetted
<1>6. CASE SaveReload
  BY <1>1, <1>6, SavePhaseVetted, PhasesContain DEF SaveReload, Vetted
<1>7. CASE SaveVerify
  BY <1>1, <1>7, SavePhaseVetted, PhasesContain DEF SaveVerify, Vetted
<1>8. CASE \/ OpenTarget \/ CancelBaseline \/ AnswerResumable \/ Skip \/ GoOn
           \/ VerifyActivation \/ RestoreVerify
  <2>1. UNCHANGED <<disk, st, passed, link>>
    BY <1>8 DEF OpenTarget, CancelBaseline, AnswerResumable, Skip, GoOn,
       VerifyActivation, RestoreVerify, StepFails, Goto, nginx
  <2>2. (MarksHold(disk) /\ MarksHold(st))'
    BY <2>1, MarksUnwritten DEF Vetted
  <2>3. \/ /\ pc \in {"open", "verify_baseline", "compare", "prepare",
                      "run_prepare"}
           /\ pc' \in {"verify_baseline", "prepare"} /\ UNCHANGED rel
        \/ pc' \in {"fail", "idle", "skip", "commit", "restored", "restore",
                    "recovery_failed"}
    BY <1>8 DEF OpenTarget, CancelBaseline, AnswerResumable, Skip, GoOn,
       VerifyActivation, RestoreVerify, StepFails, Goto
  <2> QED BY <2>1, <2>2, <2>3 DEF Vetted, Rec
<1>9. CASE RunPrepare
  <2>1. UNCHANGED <<disk, passed>> /\ pc = "run_prepare"
        /\ pc' \in {"switch_intent", "fail"}
    BY <1>9 DEF RunPrepare, StepFails, Goto, nginx
  <2>2. MarksHold(Prepared)
    BY <1>1, <2>1, WorkingCopyMarks, MarksLikeHold DEF Vetted
  <2>3. st' = st \/ st' = Prepared
    BY <1>9 DEF RunPrepare, StepFails, Goto
  <2>4. (MarksHold(disk) /\ MarksHold(st))'
    BY <2>1, <2>2, <2>3, MarksWritten, MarksUnwritten DEF Vetted
  <2> QED BY <2>1, <2>4 DEF Vetted
<1>10. CASE SaveIntent
  <2>1. UNCHANGED passed /\ pc' \in {"save_switch", "uncertain"}
    BY <1>10 DEF SaveIntent, Persist, nginx
  <2>2. MarksHold(WithIntent)
    BY <1>1, WorkingCopyMarks, MarksLikeHold DEF Vetted
  <2>3. (MarksHold(disk) /\ MarksHold(st))'
    BY <1>10, <2>1, <2>2, WaysToWrite, MarksWritten DEF SaveIntent, Vetted
  <2> QED BY <2>1, <2>3 DEF Vetted
<1>11. CASE Switch
  <2>1. UNCHANGED <<disk, st, passed, rel, op>>
    BY <1>11 DEF Switch, Goto, nginx
  <2>2. \/ pc' \in {"commit_stage", "restore"}
        \/ pc' = "save_test" /\ link' = Rec.candidate
    BY <1>11 DEF Switch, Goto
  <2> QED BY <2>1, <2>2, MarksUnwritten DEF Vetted, Rec
<1>12. CASE NginxTest
  <2>1. UNCHANGED <<disk, st, link, rel, op>> /\ passed \subseteq passed'
    BY <1>12 DEF NginxTest, StepFails, Goto, nginx
  <2>2. (MarksHold(disk) /\ MarksHold(st))'
    BY <2>1, MarksUnwritten DEF Vetted
  <2>3. \/ pc' = "restore"
        \/ /\ pc = "test" /\ link \in passed'
           /\ pc' \in {"save_reload", "reload"} \/ (pc' = "tested" /\ op = "test")
    BY <1>12 DEF NginxTest, StepFails, Goto
  <2> QED BY <2>1, <2>2, <2>3 DEF Vetted, Rec
<1>13. CASE NginxReload \/ RestoreReload
  <2>1. UNCHANGED <<disk, st, passed>>
        /\ pc' \in {"verify", "save_verify", "restore", "restore_verify",
                    "recovery_failed"}
    BY <1>13 DEF NginxReload, RestoreReload, Goto, nginx
  <2> QED BY <2>1, MarksUnwritten DEF Vetted
<1>14. CASE RestoreLink
  <2>1. UNCHANGED <<disk, st, passed>> /\ pc' \in {"restore_test", "recovery_failed"}
    BY <1>14 DEF RestoreLink, Goto, nginx
  <2> QED BY <2>1, MarksUnwritten DEF Vetted
<1>15. CASE RestoreTest
  <2>1. UNCHANGED <<disk, st, link>> /\ passed \subseteq passed'
    BY <1>15 DEF RestoreTest, StepFails, Goto, nginx
  <2>2. \/ pc' = "recovery_failed"
        \/ pc' = "restore_reload" /\ link \in passed'
    BY <1>15 DEF RestoreTest, StepFails, Goto
  <2> QED BY <2>1, <2>2, MarksUnwritten DEF Vetted
<1>16. CASE SaveSkipped
  BY <1>1, <1>16, WorkingCopyMarks, MarksLikeHold, EndVetted
     DEF SaveSkipped, Vetted, nginx
<1>17. CASE SaveTested
  BY <1>1, <1>17, WorkingCopyMarks, EndVetted DEF SaveTested, Vetted, nginx
<1>18. CASE Commit \/ CommitGitStage
  <2>1. PICK name : Finish(Succeeded(name)) /\ UNCHANGED passed
    BY <1>18 DEF Commit, CommitGitStage, nginx
  <2> QED BY <1>1, <2>1, EndMarks, MarksLikeHold, EndVetted DEF Vetted
<1>19. CASE Fail
  BY <1>1, <1>19, EndMarks, MarksLikeHold, EndVetted DEF Fail, Vetted, nginx
<1>20. CASE Restored
  BY <1>1, <1>20, EndMarks, MarksLikeHold, EndVetted DEF Restored, Vetted, nginx
<1>21. CASE Uncertain
  <2>1. MarksHold(Undecided)
    BY <1>1, WorkingCopyMarks, MarksLikeHold DEF Vetted
  <2>2. disk' \in {disk, Undecided} /\ st' = Undecided /\ UNCHANGED passed
        /\ pc' = "idle"
    BY <1>21 DEF Uncertain, Return, nginx
  <2>3. (MarksHold(disk) /\ MarksHold(st))'
    BY <2>1, <2>2, MarksWritten DEF Vetted
  <2> QED BY <2>2, <2>3 DEF Vetted
<1> QED BY <1>2, <1>3, <1>4, <1>5, <1>6, <1>7, <1>8, <1>9, <1>10, <1>11, <1>12,
           <1>13, <1>14, <1>15, <1>16, <1>17, <1>18, <1>19, <1>20, <1>21
        DEF Step

LEMMA AcceptVetted ==
    ASSUME TypeOK, Vetted, NEW r \in Releases, NEW q, NEW o, Accept(r, q, o)
    PROVE  Vetted'
<1> DEFINE s == [Takeover(r) EXCEPT !.records[r] = NewRecord(q), !.active = r]
<1>1. MarksLike(s, disk) /\ ~s.records[r].tested
  BY AcceptedMarks DEF TypeOK
<1>2. disk' \in {disk, s} /\ st' = s /\ rel' = r /\ UNCHANGED passed
      /\ pc' \in {"open", "uncertain"}
  BY WaysToWrite DEF Accept, Persist, nginx
<1> HIDE DEF s
<1>3. (MarksHold(disk) /\ MarksHold(st))'
  BY <1>1, <1>2, MarksLikeHold, MarksWritten DEF Vetted
<1> QED BY <1>1, <1>2, <1>3 DEF Vetted, Rec

(* A command starts on the version that latest points at; a reload only on *)
(* a marked record.                                                        *)
LEMMA CommandVetted ==
    ASSUME TypeOK, Vetted, NEW r \in Releases, NEW o, Command(r, o)
    PROVE  Vetted'
<1>1. disk' = disk /\ st' = disk /\ rel' = r /\ op' = o
      /\ UNCHANGED <<link, passed>>
  BY DEF Command, nginx
<1>2. (MarksHold(disk) /\ MarksHold(st))'
  BY <1>1, MarksWritten DEF Vetted
<1>3. \/ pc' \in {"uncertain", "restore"}
      \/ /\ link = disk.records[r].candidate
         /\ \/ pc' = "save_test"
            \/ pc' = "save_reload" /\ disk.records[r].tested
  BY DEF Command, Entry, IsCurrent
<1>4. link \in passed \/ pc' # "save_reload"
  BY <1>3 DEF Vetted, MarksHold
<1> QED BY <1>1, <1>2, <1>3, <1>4 DEF Vetted, Rec

LEMMA NextVetted ==
    ASSUME TypeOK, Vetted, [Next]_vars
    PROVE  Vetted'
<1>1. CASE Step
  BY <1>1, StepVetted
<1>2. ASSUME NEW r \in Releases,
             \/ \E c \in Commits, o \in {"apply", "stage"} : Publish(r, c, o)
             \/ \E original \in Releases : RestoreOf(r, original)
             \/ StageRollback(r)
      PROVE  Vetted'
  BY <1>2, AcceptVetted DEF Publish, RestoreOf, StageRollback
<1>3. ASSUME NEW r \in Releases, NEW o, Command(r, o)
      PROVE  Vetted'
  BY <1>3, CommandVetted
<1>4. ASSUME \/ \E r \in Releases : ReadRollback(r) \/ Replay(r)
             \/ RefuseRollback \/ RefuseBlocked \/ LoadFails \/ UNCHANGED vars
      PROVE  Vetted'
  <2>1. UNCHANGED <<disk, st, passed, link, pc, rel, op>>
    BY <1>4 DEF ReadRollback, Replay, RefuseRollback, RefuseBlocked, LoadFails,
       vars, transaction, nginx
  <2>2. (MarksHold(disk) /\ MarksHold(st))'
    BY <2>1, MarksUnwritten DEF Vetted
  <2> QED BY <2>1, <2>2 DEF Vetted, Rec
<1>5. CASE Start
  <2>1. disk \in TargetState
    BY DEF TypeOK
  <2>2. /\ MarksHold([disk EXCEPT !.recovery = FALSE])
        /\ MarksHold([disk EXCEPT !.recovery = TRUE])
    BY <2>1 DEF Vetted, MarksHold, TargetState
  <2>3. /\ UNCHANGED passed
        /\ pc' \in {"idle", "fail", "test", "restore", "recovery_failed"}
        /\ pc' = "test" => op' = "startup"
    BY <1>5 DEF Start, StartIdle, StartWithoutIntent, StartWithIntent,
       Recovering, nginx
  <2>4. PICK s \in {disk, [disk EXCEPT !.recovery = FALSE],
                    [disk EXCEPT !.recovery = TRUE]} :
            disk' \in {disk, s} /\ (st' = s \/ st' = disk)
    BY <1>5 DEF Start, StartIdle, StartWithoutIntent, StartWithIntent, Save
  <2>5. MarksHold(disk) /\ MarksHold(s)
    BY <2>2, <2>4 DEF Vetted
  <2>6. (MarksHold(disk) /\ MarksHold(st))'
    BY <2>3, <2>4, <2>5, MarksWritten
  <2> QED BY <2>3, <2>6 DEF Vetted
<1>6. CASE Crash
  <2>1. disk' = disk /\ st' = disk /\ UNCHANGED passed /\ pc' = "off"
    BY <1>6 DEF Crash, nginx
  <2>2. (MarksHold(disk) /\ MarksHold(st))'
    BY <2>1, MarksWritten DEF Vetted
  <2> QED BY <2>1, <2>2 DEF Vetted
<1> QED BY <1>1, <1>2, <1>3, <1>4, <1>5, <1>6 DEF Next

(* Whatever nginx is told to load has passed nginx -t, also when the test  *)
(* ran in an earlier request, with other releases, failures and restarts   *)
(* in between.                                                             *)
THEOREM ReloadsAreTested == Spec => ReloadTestedOnly
<1>1. Init => Vetted
  <2> SUFFICES ASSUME Init PROVE Vetted
    OBVIOUS
  <2>1. MarksHold(disk) /\ MarksHold(st)
    BY DEF Init, NewState, NoRecord, MarksHold
  <2> QED BY <2>1 DEF Init, Vetted
<1>2. TypeOK /\ Vetted /\ [Next]_vars => Vetted'
  BY NextVetted
<1>3. TypeOK /\ Vetted /\ [Next]_vars => [loaded' # loaded => link \in passed]_vars
  <2> SUFFICES ASSUME Vetted, Next, loaded' # loaded
               PROVE  link \in passed
    BY DEF vars
  <2>1. NginxReload \/ RestoreReload
    BY DEF Next, Step, Start, Publish, RestoreOf, ReadRollback, StageRollback,
       Replay, Command, Accept, RefuseRollback, RefuseBlocked, LoadFails, Crash,
       StartIdle, StartWithoutIntent, StartWithIntent, SavePhase, StepFails,
       OpenTarget, SaveVerifyBaseline, CancelBaseline, AnswerResumable, Skip,
       SaveSkipped, GoOn, SavePrepare, RunPrepare, SaveIntent, SaveSwitch,
       Switch, SaveTest, NginxTest, SaveReload, SaveVerify, VerifyActivation,
       Commit, CommitGitStage, SaveTested, Fail, RestoreLink, RestoreTest,
       RestoreVerify, Restored, Uncertain, nginx
  <2> QED BY <2>1 DEF NginxReload, RestoreReload, Vetted
<1> QED BY <1>1, <1>2, <1>3, TypeCorrect, PTL DEF Spec, ReloadTestedOnly

-----------------------------------------------------------------------------
(* Write-ahead.  From the moment the intent is saved to the end of the     *)
(* release, or of its restore, disk and working copy agree on who is       *)
(* active and on where latest may go; until then the working copy at least *)
(* has the release as the active one.                                      *)

Before == {"open", "verify_baseline", "compare", "prepare", "run_prepare",
           "switch_intent"}
During == {"save_switch", "switch", "save_test", "test", "save_reload",
           "reload", "save_verify", "verify", "restore"}

Backed == /\ disk.active = rel /\ st.active = rel
          /\ disk.records[rel].intent /\ Rec.intent
          /\ disk.records[rel].candidate = Rec.candidate
          /\ disk.records[rel].baseline = Rec.baseline

Announced == op \notin {"test", "reload", "abort"} =>
                 /\ pc \in Before => st.active = rel
                 /\ pc \in During => Backed

LEMMA WithPhaseBacked ==
    ASSUME st \in TargetState, rel \in Releases, NEW name
    PROVE  LET s == WithPhase(name) IN
           /\ s.active = st.active
           /\ s.records[rel].intent = Rec.intent
           /\ s.records[rel].candidate = Rec.candidate
           /\ s.records[rel].baseline = Rec.baseline
<1>1. st.records \in [Releases -> Record]
  BY DEF TargetState
<1> QED BY <1>1 DEF WithPhase, Rec, TargetState, Record

LEMMA WithIntentBacked ==
    ASSUME st \in TargetState, rel \in Releases
    PROVE  WithIntent.active = st.active /\ WithIntent.records[rel].intent
<1>1. st.records \in [Releases -> Record]
  BY DEF TargetState
<1> QED BY <1>1 DEF WithIntent, TargetState, Record

LEMMA SavePhaseAnnounced ==
    ASSUME TypeOK, Announced, rel \in Releases, NEW at, NEW name, NEW next,
           NEW onError, SavePhase(at, name, next, onError),
           \/ at \in Before /\ next \in Before
              /\ onError \in {"fail", "uncertain"}
           \/ at \in During /\ next \in During /\ onError \in During
    PROVE  Announced'
<1> DEFINE s == WithPhase(name)
<1>1. /\ s.active = st.active
      /\ s.records[rel].intent = Rec.intent
      /\ s.records[rel].candidate = Rec.candidate
      /\ s.records[rel].baseline = Rec.baseline
  BY WithPhaseBacked DEF TypeOK
<1>2. disk' \in {disk, s} /\ st' = s
  BY WaysToWrite DEF SavePhase
<1>3. pc = at /\ pc' \in {next, onError} /\ UNCHANGED <<rel, op>>
  BY DEF SavePhase, Persist
<1> HIDE DEF s
<1>4. CASE op \in {"test", "reload", "abort"}
  BY <1>3, <1>4 DEF Announced
<1>5. CASE op \notin {"test", "reload", "abort"} /\ at \in Before
  <2>1. st'.active = rel'
    BY <1>1, <1>2, <1>3, <1>5 DEF Announced
  <2>2. next \in Before /\ onError \in {"fail", "uncertain"}
    BY <1>5 DEF Before, During
  <2>3. pc' \notin During
    BY <1>3, <2>2 DEF Before, During
  <2> QED BY <2>1, <2>3 DEF Announced
<1>6. CASE op \notin {"test", "reload", "abort"} /\ at \in During
  <2>1. Backed
    BY <1>3, <1>6 DEF Announced
  <2>2. Backed'
    BY <1>1, <1>2, <1>3, <2>1 DEF Backed, Rec
  <2>3. pc' \notin Before
    BY <1>3, <1>6 DEF Before, During
  <2> QED BY <2>2, <2>3 DEF Announced
<1> QED BY <1>4, <1>5, <1>6

(* A step that writes nothing, from a place to one of the same kind.       *)
LEMMA MoveAnnounced ==
    ASSUME Announced, UNCHANGED <<disk, st, rel, op>>,
           \/ pc' \notin Before \cup During
           \/ pc \in Before /\ pc' \in Before
           \/ pc \in During /\ pc' \in During
    PROVE  Announced'
BY DEF Announced, Backed, Rec, Before, During

LEMMA EndAnnounced ==
    ASSUME pc' \notin Before \cup During
    PROVE  Announced'
BY DEF Announced

LEMMA StepAnnounced ==
    ASSUME TypeOK, Announced, Step
    PROVE  Announced'
<1>1. rel \in Releases /\ st \in TargetState
  BY StepHasRelease DEF TypeOK
<1>2. CASE SaveVerifyBaseline \/ SavePrepare
  <2>1. PICK at \in Before, name \in Phases, next \in Before,
             onError \in {"fail", "uncertain"} :
            SavePhase(at, name, next, onError)
    BY <1>2, PhasesContain DEF SaveVerifyBaseline, SavePrepare, Before
  <2> QED BY <1>1, <2>1, SavePhaseAnnounced
<1>3. CASE SaveSwitch \/ SaveTest \/ SaveReload \/ SaveVerify
  <2>1. PICK at \in During, name \in Phases, next \in During,
             onError \in During : SavePhase(at, name, next, onError)
    BY <1>3, PhasesContain DEF SaveSwitch, SaveTest, SaveReload, SaveVerify, During
  <2> QED BY <1>1, <2>1, SavePhaseAnnounced
<1>4. CASE \/ OpenTarget \/ CancelBaseline \/ Skip \/ GoOn
           \/ Switch \/ NginxTest \/ NginxReload \/ VerifyActivation
           \/ RestoreLink \/ RestoreTest \/ RestoreReload \/ RestoreVerify
  <2>1. UNCHANGED <<disk, st, rel, op>>
    BY <1>4 DEF OpenTarget, CancelBaseline, Skip, GoOn, Switch, NginxTest,
       NginxReload, VerifyActivation, RestoreLink, RestoreTest, RestoreReload,
       RestoreVerify, StepFails, Goto
  <2>2. \/ pc' \notin Before \cup During
        \/ pc \in Before /\ pc' \in Before
        \/ pc \in During /\ pc' \in During
    BY <1>4 DEF OpenTarget, CancelBaseline, Skip, GoOn, Switch, NginxTest,
       NginxReload, VerifyActivation, RestoreLink, RestoreTest, RestoreReload,
       RestoreVerify, StepFails, Goto, Before, During
  <2> QED BY <2>1, <2>2, MoveAnnounced
<1>5. CASE RunPrepare
  <2>1. Prepared.active = st.active
    BY <1>1 DEF Prepared, TargetState
  <2>2. /\ pc = "run_prepare" /\ st'.active = st.active /\ UNCHANGED <<rel, op>>
        /\ pc' \in {"switch_intent", "fail"}
    BY <1>5, <2>1 DEF RunPrepare, StepFails, Goto
  <2> QED BY <2>2 DEF Announced, Before, During
<1>6. CASE SaveIntent
  <2>1. /\ pc = "switch_intent" /\ UNCHANGED <<rel, op>>
        /\ \/ disk' = WithIntent /\ st' = WithIntent /\ pc' = "save_switch"
           \/ pc' = "uncertain"
    BY <1>6 DEF SaveIntent, Persist, Save
  <2>2. CASE pc' = "uncertain"
    BY <2>2, EndAnnounced DEF Before, During
  <2>3. CASE op \in {"test", "reload", "abort"}
    BY <2>1, <2>3 DEF Announced
  <2>4. CASE disk' = WithIntent /\ st' = WithIntent /\ pc' = "save_switch"
             /\ op \notin {"test", "reload", "abort"}
    <3>1. st.active = rel
      BY <2>1, <2>4 DEF Announced, Before
    <3>2. Backed'
      BY <1>1, <2>1, <2>4, <3>1, WithIntentBacked DEF Backed, Rec
    <3> QED BY <2>4, <3>2 DEF Announced, Before
  <2> QED BY <2>1, <2>2, <2>3, <2>4
<1>7. CASE \/ AnswerResumable \/ SaveSkipped \/ Commit \/ CommitGitStage
           \/ SaveTested \/ Fail \/ Restored \/ Uncertain
  <2>1. pc' \in {"idle", "uncertain"}
    BY <1>7 DEF AnswerResumable, SaveSkipped, Commit, CommitGitStage, SaveTested,
       Fail, Restored, Uncertain, Finish, Return
  <2> QED BY <2>1, EndAnnounced DEF Before, During
<1> QED BY <1>2, <1>3, <1>4, <1>5, <1>6, <1>7 DEF Step

LEMMA NextAnnounced ==
    ASSUME TypeOK, Announced, [Next]_vars
    PROVE  Announced'
<1>1. CASE Step
  BY <1>1, StepAnnounced
<1>2. ASSUME NEW r \in Releases, NEW q, NEW o, Accept(r, q, o)
      PROVE  Announced'
  <2> DEFINE s == [Takeover(r) EXCEPT !.records[r] = NewRecord(q), !.active = r]
  <2>1. s.active = r
    BY AcceptedMarks DEF TypeOK
  <2>2. st' = s /\ rel' = r /\ pc' \in {"open", "uncertain"}
    BY <1>2, WaysToWrite DEF Accept, Persist
  <2> HIDE DEF s
  <2> QED BY <2>1, <2>2 DEF Announced, Before, During
<1>3. ASSUME NEW r \in Releases,
             \/ \E c \in Commits, o \in {"apply", "stage"} : Publish(r, c, o)
             \/ \E original \in Releases : RestoreOf(r, original)
             \/ StageRollback(r)
      PROVE  Announced'
  BY <1>2, <1>3 DEF Publish, RestoreOf, StageRollback
<1>4. ASSUME NEW r \in Releases, NEW o \in {"test", "reload", "abort"},
             Command(r, o)
      PROVE  Announced'
  BY <1>4 DEF Command, Announced
<1>5. ASSUME \/ \E r \in Releases : ReadRollback(r) \/ Replay(r)
             \/ RefuseRollback \/ RefuseBlocked \/ LoadFails \/ UNCHANGED vars
      PROVE  Announced'
  <2>1. UNCHANGED <<disk, st, rel, op, pc>>
    BY <1>5 DEF ReadRollback, Replay, RefuseRollback, RefuseBlocked, LoadFails,
       vars, transaction
  <2> QED BY <2>1 DEF Announced, Backed, Rec
<1>6. CASE StartIdle \/ StartWithoutIntent \/ Crash
  <2>1. pc' \in {"idle", "fail", "off"}
    BY <1>6 DEF StartIdle, StartWithoutIntent, Crash, Recovering
  <2> QED BY <2>1, EndAnnounced DEF Before, During
<1>7. CASE StartWithIntent
  <2>1. /\ disk' = disk /\ st' = disk /\ rel' = disk.active
        /\ disk.records[disk.active].intent
        /\ pc' \in {"test", "restore", "recovery_failed"}
    BY <1>7 DEF StartWithIntent, Recovering
  <2> QED BY <2>1 DEF Announced, Backed, Rec, Before, During
<1> QED BY <1>1, <1>3, <1>4, <1>5, <1>6, <1>7 DEF Next, Start

(* Outside nginx commands latest moves only where the active release that  *)
(* is on disk, with its intent, says it may: at every moment of a release  *)
(* a crash leaves behind what startup needs to finish or to undo it.       *)
THEOREM LinkWrittenAhead == Spec => WriteAhead
<1>1. Init => Announced
  BY DEF Init, Announced, Before, During
<1>2. TypeOK /\ Announced /\ [Next]_vars => Announced'
  BY NextAnnounced
<1>3. TypeOK /\ Announced /\ [Next]_vars =>
          [link' # link /\ op \notin {"test", "reload", "abort"} =>
               \E r \in Releases :
                   /\ disk.active = r
                   /\ disk.records[r].intent
                   /\ link' \in {disk.records[r].candidate,
                                 disk.records[r].baseline}]_vars
  <2> SUFFICES ASSUME TypeOK, Announced, Next, link' # link,
                      op \notin {"test", "reload", "abort"}
               PROVE  \E r \in Releases :
                          /\ disk.active = r
                          /\ disk.records[r].intent
                          /\ link' \in {disk.records[r].candidate,
                                        disk.records[r].baseline}
    BY DEF vars
  <2>1. Switch \/ RestoreLink
    BY DEF Next, Step, Start, Publish, RestoreOf, ReadRollback, StageRollback,
       Replay, Command, Accept, RefuseRollback, RefuseBlocked, LoadFails, Crash,
       StartIdle, StartWithoutIntent, StartWithIntent, SavePhase, StepFails,
       OpenTarget, SaveVerifyBaseline, CancelBaseline, AnswerResumable, Skip,
       SaveSkipped, GoOn, SavePrepare, RunPrepare, SaveIntent, SaveSwitch,
       SaveTest, NginxTest, NginxReload, SaveReload, SaveVerify,
       VerifyActivation, Commit, CommitGitStage, SaveTested, Fail, RestoreTest,
       RestoreReload, RestoreVerify, Restored, Uncertain
  <2>2. rel \in Releases
    BY <2>1, StepHasRelease DEF Step
  <2>3. pc \in {"switch", "restore"} /\ link' \in {Rec.candidate, Rec.baseline}
    BY <2>1 DEF Switch, RestoreLink
  <2>4. Backed
    BY <2>3 DEF Announced, During
  <2> QED BY <2>2, <2>3, <2>4 DEF Backed
<1> QED BY <1>1, <1>2, <1>3, TypeCorrect, PTL DEF Spec, WriteAhead
==============================================================================
