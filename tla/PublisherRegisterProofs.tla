----------------------- MODULE PublisherRegisterProofs -----------------------
(***************************************************************************)
(* Releases whose nginx part is not split off into commands implement      *)
(* ReleaseRegister: whatever fails, and whenever the service dies, the     *)
(* state file and the answers behave like a register with one pending      *)
(* release.  Clients that publish, stage, restore and roll back are        *)
(* covered; nginx/test, nginx/reload and abort are not, as they change     *)
(* releases that are decided (the findings of the README).                 *)
(***************************************************************************)
EXTENDS PublisherSettledProofs, PublisherRefinement

-----------------------------------------------------------------------------
(* What a reader of the state file s learns, as the register has it.       *)

Result(s) == [r \in Releases |-> ResultOnRecord(s.records[r])]
Want(s) == [r \in Releases |-> s.records[r].request.commit]
Found(s) == [r \in Releases |-> <<s.records[r].baseline,
                                  s.records[r].baselinePrevious>>]

SameRequests(s, t) == Want(s) = Want(t) /\ Found(s) = Found(t)
Same(s, t) == /\ Like(s, t) /\ SameRequests(s, t)
              /\ s.active = t.active /\ Result(s) = Result(t)

RegisterNext == [Register!Next]_(Register!vars)

(* A result that its client can rely on.                                   *)
Sure == {"succeeded", "skipped"}

(* What a step of the register does to the state file: t comes after s.    *)
Accepts(s, t, r) ==
    /\ Result(s)[r] \in {"none", "pending"}
    /\ t.active = r
    /\ Result(t)[r] = "pending"
    /\ \A q \in Releases \ {r} :
           Result(t)[q] = IF q = s.active THEN "failed" ELSE Result(s)[q]
    /\ \E c \in Commits : Want(t) = [Want(s) EXCEPT ![r] = c]
    /\ Found(t) = [Found(s) EXCEPT ![r] = Pair(s)]
    /\ Like(s, t)

Enters(s, t, r) == /\ Pair(t) = <<Want(s)[r], Found(s)[r][1]>>
                   /\ t.revision > s.revision
                   /\ SameRequests(s, t)
Leaves(s, t, r) == /\ Pair(t) = Found(s)[r]
                   /\ t.revision > s.revision
                   /\ SameRequests(s, t)
Untouched(s, t) == Like(s, t) /\ SameRequests(s, t)

Decides(s, t, r, result) ==
    /\ s.active = r /\ t.active = NoRelease
    /\ Result(t) = [Result(s) EXCEPT ![r] = result]
    /\ \/ result = "succeeded" /\ Enters(s, t, r)
       \/ result = "failed" /\ (Leaves(s, t, r) \/ Untouched(s, t))
       \/ result = "skipped" /\ Untouched(s, t) /\ Want(s)[r] = s.current

HalfDone(s, t, r) == /\ s.active = r /\ t.active = r
                     /\ Result(t) = Result(s)
                     /\ Enters(s, t, r) \/ Leaves(s, t, r) \/ Untouched(s, t)

Reconsiders(s, t, r) == /\ Result(s)[r] \in Terminal
                        /\ s.active = NoRelease /\ t.active = r
                        /\ Result(t) = [Result(s) EXCEPT ![r] = "pending"]
                        /\ Untouched(s, t)

(* These are the steps of the register.                                    *)
LEMMA SameStutters ==
    ASSUME Same(disk, disk'), UNCHANGED told
    PROVE  RegisterNext
BY DEF RegisterNext, Register!vars, Register!register, Register!pair, Register!request,
   Same, Like, SameRequests, Pair, Result, Want, Found

LEMMA AcceptsIsAccept ==
    ASSUME NEW r \in Releases, Accepts(disk, disk', r), UNCHANGED told
    PROVE  RegisterNext
<1>1. PICK c \in Commits : Want(disk') = [Want(disk) EXCEPT ![r] = c]
  BY DEF Accepts
<1> DEFINE after == [q \in Releases |-> CASE q = r -> "pending"
                                          [] q # r /\ q = disk.active -> "failed"
                                          [] OTHER -> Result(disk)[q]]
<1>2. Result(disk') = after
  <2>1. ASSUME NEW q \in Releases
        PROVE  Result(disk')[q] = after[q]
    BY <2>1 DEF Accepts
  <2> QED BY <2>1 DEF Result
<1>3. Register!Accept(r, c)
  BY <1>1, <1>2 DEF Register!Accept, Accepts, Result, Want, Found, Like, Pair,
     Register!pair, Register!register
<1> QED BY <1>3 DEF RegisterNext, Register!Next

LEMMA DecidesIsDecide ==
    ASSUME disk' \in TargetState, NEW r \in Releases, NEW result,
           Decides(disk, disk', r, result),
           told' \in {told, [told EXCEPT ![r] = result]}
    PROVE  RegisterNext
<1>1. Register!Decide(r, result)
  BY DEF Register!Decide, Decides, Result
<1>2. disk'.revision \in Nat
  BY RevisionsTyped
<1>3. CASE result = "succeeded" /\ Enters(disk, disk', r)
  <2>1. Register!Publish(r)
    BY <1>1, <1>2, <1>3 DEF Register!Publish, Register!NewRevision, Register!request, Enters,
       SameRequests, Pair, Want, Found
  <2> QED BY <2>1 DEF RegisterNext, Register!Next
<1>4. CASE result = "failed" /\ Leaves(disk, disk', r)
  <2>1. Register!Undo(r)
    BY <1>1, <1>2, <1>4 DEF Register!Undo, Register!NewRevision, Register!request, Leaves,
       SameRequests, Pair, Want, Found
  <2> QED BY <2>1 DEF RegisterNext, Register!Next
<1>5. CASE /\ Untouched(disk, disk')
           /\ \/ result = "failed"
              \/ result = "skipped" /\ Want(disk)[r] = disk.current
  <2>1. Register!Leave(r)
    BY <1>1, <1>5 DEF Register!Leave, Register!register, Register!pair, Register!request,
       Untouched, Like, SameRequests, Pair, Want, Found
  <2> QED BY <2>1 DEF RegisterNext, Register!Next
<1> QED BY <1>3, <1>4, <1>5 DEF Decides

LEMMA HalfDoneIsUndecided ==
    ASSUME disk' \in TargetState, NEW r \in Releases, HalfDone(disk, disk', r),
           UNCHANGED told
    PROVE  RegisterNext
<1>1. Register!Undecided(r)
  BY DEF Register!Undecided, HalfDone, Result
<1>2. disk'.revision \in Nat
  BY RevisionsTyped
<1>3. CASE Enters(disk, disk', r)
  <2>1. Register!Publish(r)
    BY <1>1, <1>2, <1>3 DEF Register!Publish, Register!NewRevision, Register!request, Enters,
       SameRequests, Pair, Want, Found
  <2> QED BY <2>1 DEF RegisterNext, Register!Next
<1>4. CASE Leaves(disk, disk', r)
  <2>1. Register!Undo(r)
    BY <1>1, <1>2, <1>4 DEF Register!Undo, Register!NewRevision, Register!request, Leaves,
       SameRequests, Pair, Want, Found
  <2> QED BY <2>1 DEF RegisterNext, Register!Next
<1>5. CASE Untouched(disk, disk')
  BY <1>5, SameStutters DEF HalfDone, Untouched, Same
<1> QED BY <1>3, <1>4, <1>5 DEF HalfDone

LEMMA ReconsidersIsReconsider ==
    ASSUME NEW r \in Releases, Reconsiders(disk, disk', r), told[r] \notin Sure,
           told \in [Releases -> Terminal \cup {"none"}], UNCHANGED told
    PROVE  RegisterNext
<1>1. told[r] \in {"none", "failed"}
  BY DEF Sure, Terminal
<1>2. Register!Reconsider(r)
  BY <1>1 DEF Register!Reconsider, Register!Final, Register!register, Register!pair,
     Register!request, Reconsiders, Untouched, Like, SameRequests, Pair, Result,
     Want, Found, Terminal
<1> QED BY <1>2 DEF RegisterNext, Register!Next

LEMMA AnswersAreTold ==
    ASSUME NEW r \in Releases, NEW result, Same(disk, disk'),
           told' = [told EXCEPT ![r] = result],
           \/ result = Result(disk)[r] /\ result \in Terminal
           \/ result = "failed" /\ disk.active = r
    PROVE  RegisterNext
<1>1. UNCHANGED <<Register!register, disk.active, Result(disk), Register!request>>
  BY DEF Same, Like, SameRequests, Pair, Result, Want, Found,
     Register!register, Register!pair, Register!request
<1>2. CASE result = Result(disk)[r] /\ result \in Terminal
  <2>1. Register!Tell(r)
    BY <1>1, <1>2 DEF Register!Tell, Register!Final, Terminal, Result
  <2> QED BY <2>1 DEF RegisterNext, Register!Next
<1>3. CASE result = "failed" /\ disk.active = r
  <2>1. Register!Hasten(r)
    BY <1>1, <1>3 DEF Register!Hasten, Result
  <2> QED BY <2>1 DEF RegisterNext, Register!Next
<1> QED BY <1>2, <1>3

-----------------------------------------------------------------------------
(* What a reader learns of the states a handler makes.                     *)

LEMMA OneRecordSeen ==
    ASSUME NEW s \in TargetState, NEW t, NEW r \in Releases, NEW record,
           t.records = [s.records EXCEPT ![r] = record]
    PROVE  /\ Result(t) = [Result(s) EXCEPT ![r] = ResultOnRecord(record)]
           /\ Want(t) = [Want(s) EXCEPT ![r] = record.request.commit]
           /\ Found(t) = [Found(s) EXCEPT ![r] = <<record.baseline,
                                                   record.baselinePrevious>>]
BY DEF TargetState, Result, Want, Found

(* Only the result of one release is another one.                          *)
LEMMA OneResultSeen ==
    ASSUME NEW s \in TargetState, NEW t, NEW r \in Releases, NEW record,
           t.records = [s.records EXCEPT ![r] = record],
           record.request = s.records[r].request,
           record.baseline = s.records[r].baseline,
           record.baselinePrevious = s.records[r].baselinePrevious
    PROVE  /\ Result(t) = [Result(s) EXCEPT ![r] = ResultOnRecord(record)]
           /\ SameRequests(s, t)
<1>1. Want(s)[r] = record.request.commit
      /\ Found(s)[r] = <<record.baseline, record.baselinePrevious>>
  BY DEF Want, Found
<1>2. /\ Want(t) = [Want(s) EXCEPT ![r] = Want(s)[r]]
      /\ Found(t) = [Found(s) EXCEPT ![r] = Found(s)[r]]
  <2>1. /\ Want(t) = [Want(s) EXCEPT ![r] = record.request.commit]
        /\ Found(t) = [Found(s) EXCEPT ![r] = <<record.baseline, record.baselinePrevious>>]
    BY OneRecordSeen
  <2> QED BY <1>1, <2>1
<1>3. Want(t) = Want(s) /\ Found(t) = Found(s)
  BY <1>2 DEF Want, Found
<1> QED BY <1>3, OneRecordSeen DEF SameRequests

LEMMA SameIsEqual ==
    /\ \A s : Same(s, s)
    /\ \A s, t : Same(s, t) => Same(t, s)
    /\ \A s, t, u : Same(s, t) /\ Same(t, u) => Same(s, u)
BY DEF Same, Like, SameRequests

(* A phase is saved, the intent, the candidate: nothing to learn of.       *)
LEMMA WorkingCopySame ==
    ASSUME st \in TargetState, rel \in Releases, NEW name
    PROVE  Same(WithPhase(name), st) /\ Same(WithIntent, st) /\ Same(Prepared, st)
<1> DEFINE Changed == {[Rec EXCEPT !.phase = name],
                       [Rec EXCEPT !.intent = TRUE, !.phase = "switch_intent"],
                       [Rec EXCEPT !.candidate = Rec.request.commit]}
<1>1. ASSUME NEW record \in Changed, NEW t,
             t = [st EXCEPT !.records[rel] = record]
      PROVE  Same(t, st)
  <2>1. Rec \in Record
    BY RecordsTyped DEF Rec
  <2>2. /\ record.request = Rec.request /\ record.baseline = Rec.baseline
        /\ record.baselinePrevious = Rec.baselinePrevious /\ record.status = Rec.status
    BY <2>1 DEF Record
  <2>3. ResultOnRecord(record) = ResultOnRecord(Rec)
    BY <2>2 DEF ResultOnRecord
  <2>4. /\ t.records = [st.records EXCEPT ![rel] = record]
        /\ t.active = st.active /\ Like(t, st)
    BY <1>1 DEF TargetState, Like, Pair
  <2> HIDE DEF Changed
  <2>5. Result(t) = [Result(st) EXCEPT ![rel] = Result(st)[rel]] /\ SameRequests(st, t)
    <3>1. Result(st)[rel] = ResultOnRecord(record)
      BY <2>3 DEF Rec, Result
    <3> QED BY <2>2, <2>4, <3>1, OneResultSeen DEF Rec
  <2>6. Result(t) = Result(st)
    BY <2>5 DEF Result
  <2> QED BY <2>4, <2>5, <2>6 DEF Same, SameRequests
<1>2. WithPhase(name) = [st EXCEPT !.records[rel] = [Rec EXCEPT !.phase = name]]
  BY DEF WithPhase, Rec
<1>3. WithIntent = [st EXCEPT !.records[rel] =
                        [Rec EXCEPT !.intent = TRUE, !.phase = "switch_intent"]]
  BY DEF WithIntent, Rec
<1>4. Prepared = [st EXCEPT !.records[rel] = [Rec EXCEPT !.candidate = Rec.request.commit]]
  BY DEF Prepared, Rec
<1> HIDE DEF Changed
<1>5. /\ [Rec EXCEPT !.phase = name] \in Changed
      /\ [Rec EXCEPT !.intent = TRUE, !.phase = "switch_intent"] \in Changed
      /\ [Rec EXCEPT !.candidate = Rec.request.commit] \in Changed
  BY DEF Changed
<1> QED BY <1>1, <1>2, <1>3, <1>4, <1>5

(* The ends: the release is decided.                                       *)
LEMMA EndDecides ==
    ASSUME st \in TargetState, rel \in Releases, minted \in Nat, NEW name,
           st.active = rel, st.revision <= minted
    PROVE  /\ Decides(st, Failed(st), rel, "failed")
           /\ Decides(st, Failed(Reverted(minted + 1)), rel, "failed")
           /\ Rec.candidate = Rec.request.commit
                  => Decides(st, Succeeded(name), rel, "succeeded")
           /\ st.current = Rec.request.commit
                  => Decides(st, Skipped, rel, "skipped")
<1>1. Rec \in Record /\ st.revision \in Nat
  BY RecordsTyped, RevisionsTyped DEF Rec
<1>2. ASSUME NEW t, NEW record, NEW status \in Terminal,
             t.records = [st.records EXCEPT ![rel] = record],
             record.request = Rec.request, record.baseline = Rec.baseline,
             record.baselinePrevious = Rec.baselinePrevious, record.status = status
      PROVE  Result(t) = [Result(st) EXCEPT ![rel] = status] /\ SameRequests(st, t)
  <2>1. ResultOnRecord(record) = status
    BY <1>2 DEF ResultOnRecord, Terminal
  <2> QED BY <1>2, <2>1, OneResultSeen DEF Rec
<1>3. /\ Rec.request.commit = Want(st)[rel]
      /\ <<Rec.baseline, Rec.baselinePrevious>> = Found(st)[rel]
      /\ Rec.baseline = Found(st)[rel][1]
  BY DEF Want, Found, Rec
<1>4. Decides(st, Failed(st), rel, "failed")
  <2> DEFINE t == Failed(st)
             record == [Rec EXCEPT !.status = "failed"]
  <2>1. /\ t.records = [st.records EXCEPT ![rel] = record]
        /\ t.active = NoRelease /\ Like(st, t)
    BY DEF Failed, Rec, TargetState, Like, Pair
  <2>2. /\ record.request = Rec.request /\ record.baseline = Rec.baseline
        /\ record.baselinePrevious = Rec.baselinePrevious /\ record.status = "failed"
    BY <1>1 DEF Record
  <2> HIDE DEF t, record
  <2>3. Result(t) = [Result(st) EXCEPT ![rel] = "failed"] /\ SameRequests(st, t)
    BY <1>2, <2>1, <2>2 DEF Terminal
  <2>4. Decides(st, t, rel, "failed")
    BY <2>1, <2>3 DEF Decides, Untouched
  <2> QED BY <2>4 DEF t
<1>5. Decides(st, Failed(Reverted(minted + 1)), rel, "failed")
  <2> DEFINE t == Failed(Reverted(minted + 1))
             record == [Rec EXCEPT !.status = "failed", !.phase = "restored",
                                   !.after = minted + 1]
  <2>1. /\ t.records = [st.records EXCEPT ![rel] = record]
        /\ t.active = NoRelease
        /\ Pair(t) = <<Rec.baseline, Rec.baselinePrevious>>
        /\ t.revision = minted + 1
    BY <1>1 DEF Failed, Reverted, Rec, TargetState, Pair, Record
  <2>2. /\ record.request = Rec.request /\ record.baseline = Rec.baseline
        /\ record.baselinePrevious = Rec.baselinePrevious /\ record.status = "failed"
    BY <1>1 DEF Record
  <2> HIDE DEF t, record
  <2>3. Result(t) = [Result(st) EXCEPT ![rel] = "failed"] /\ SameRequests(st, t)
    BY <1>2, <2>1, <2>2 DEF Terminal
  <2>4. Leaves(st, t, rel)
    BY <1>1, <1>3, <2>1, <2>3 DEF Leaves
  <2>5. Decides(st, t, rel, "failed")
    BY <2>1, <2>3, <2>4 DEF Decides
  <2> QED BY <2>5 DEF t
<1>6. ASSUME Rec.candidate = Rec.request.commit
      PROVE  Decides(st, Succeeded(name), rel, "succeeded")
  <2> DEFINE t == Succeeded(name)
             record == [Rec EXCEPT !.status = "succeeded", !.phase = name,
                                   !.after = minted + 1]
  <2>1. /\ t.records = [st.records EXCEPT ![rel] = record]
        /\ t.active = NoRelease
        /\ Pair(t) = <<Rec.candidate, Rec.baseline>>
        /\ t.revision = minted + 1
    BY <1>1 DEF Succeeded, Rec, TargetState, Pair
  <2>2. /\ record.request = Rec.request /\ record.baseline = Rec.baseline
        /\ record.baselinePrevious = Rec.baselinePrevious /\ record.status = "succeeded"
    BY <1>1 DEF Record
  <2> HIDE DEF t, record
  <2>3. Result(t) = [Result(st) EXCEPT ![rel] = "succeeded"] /\ SameRequests(st, t)
    BY <1>2, <2>1, <2>2 DEF Terminal
  <2>4. Enters(st, t, rel)
    BY <1>1, <1>3, <1>6, <2>1, <2>3 DEF Enters
  <2>5. Decides(st, t, rel, "succeeded")
    BY <2>1, <2>3, <2>4 DEF Decides
  <2> QED BY <2>5 DEF t
<1>7. ASSUME st.current = Rec.request.commit
      PROVE  Decides(st, Skipped, rel, "skipped")
  <2> DEFINE t == Skipped
             record == [Rec EXCEPT !.status = "skipped", !.phase = "complete"]
  <2>1. /\ t.records = [st.records EXCEPT ![rel] = record]
        /\ t.active = NoRelease /\ Like(st, t)
    BY DEF Skipped, Rec, TargetState, Like, Pair
  <2>2. /\ record.request = Rec.request /\ record.baseline = Rec.baseline
        /\ record.baselinePrevious = Rec.baselinePrevious /\ record.status = "skipped"
    BY <1>1 DEF Record
  <2> HIDE DEF t, record
  <2>3. Result(t) = [Result(st) EXCEPT ![rel] = "skipped"] /\ SameRequests(st, t)
    BY <1>2, <2>1, <2>2 DEF Terminal
  <2>4. Decides(st, t, rel, "skipped")
    BY <1>3, <1>7, <2>1, <2>3 DEF Decides, Untouched
  <2> QED BY <2>4 DEF t
<1> QED BY <1>4, <1>5, <1>6, <1>7

(* A result that stays uncertain is pending.                               *)
Doubted(s, r) == [s EXCEPT !.recovery = TRUE, !.active = r,
                           !.records[r] = [@ EXCEPT !.status = "recovery_required"]]

LEMMA DoubtedSeen ==
    ASSUME NEW s \in TargetState, NEW r \in Releases
    PROVE  /\ Doubted(s, r).active = r
           /\ Result(Doubted(s, r)) = [Result(s) EXCEPT ![r] = "pending"]
           /\ Untouched(s, Doubted(s, r))
<1> DEFINE t == Doubted(s, r)
           record == [s.records[r] EXCEPT !.status = "recovery_required"]
<1>1. s.records[r] \in Record
  BY RecordsTyped
<1>2. t.records = [s.records EXCEPT ![r] = record] /\ t.active = r /\ Like(s, t)
  BY DEF Doubted, TargetState, Like, Pair
<1>3. /\ record.request = s.records[r].request
      /\ record.baseline = s.records[r].baseline
      /\ record.baselinePrevious = s.records[r].baselinePrevious
      /\ record.status = "recovery_required"
  BY <1>1 DEF Record
<1> HIDE DEF t, record
<1>4. ResultOnRecord(record) = "pending"
  BY <1>3 DEF ResultOnRecord
<1>5. Result(t) = [Result(s) EXCEPT ![r] = ResultOnRecord(record)] /\ SameRequests(s, t)
  BY <1>2, <1>3, OneResultSeen
<1> QED BY <1>2, <1>4, <1>5 DEF Untouched, t

(* The release that gives way has failed, and nothing else is changed.     *)
OnePending(s) == \A r \in Releases : Result(s)[r] = "pending" <=> s.active = r

LEMMA TakeoverSeen ==
    ASSUME disk \in TargetState, OnePending(disk), NEW r \in Releases
    PROVE  /\ Untouched(disk, Takeover(r))
           /\ \A q \in Releases \ {r} :
                  Result(Takeover(r))[q] = IF q = disk.active THEN "failed"
                                           ELSE Result(disk)[q]
<1> DEFINE old == disk.active
           t == Takeover(r)
           record == [disk.records[old] EXCEPT !.status = "failed"]
<1>1. Like(disk, t)
  BY DEF Like, Pair, Takeover, TargetState
<1>2. CASE old \in Releases \ {r}
  <2>1. disk.records[old] \in Record
    BY <1>2, RecordsTyped
  <2>2. disk.records[old].status \notin Terminal /\ old # NoRelease
    BY <1>2, NoReleaseAssumption DEF OnePending, Result, ResultOnRecord, Terminal
  <2>3. t.records = [disk.records EXCEPT ![old] = record]
    BY <1>2, <2>2 DEF Takeover, TargetState
  <2>4. /\ record.request = disk.records[old].request
        /\ record.baseline = disk.records[old].baseline
        /\ record.baselinePrevious = disk.records[old].baselinePrevious
        /\ record.status = "failed"
    BY <2>1 DEF Record
  <2> HIDE DEF t, record
  <2>5. ResultOnRecord(record) = "failed"
    BY <2>4 DEF ResultOnRecord
  <2>6. Result(t) = [Result(disk) EXCEPT ![old] = "failed"] /\ SameRequests(disk, t)
    <3>1. old \in Releases
      BY <1>2
    <3> HIDE DEF old
    <3>2. /\ Result(t) = [Result(disk) EXCEPT ![old] = ResultOnRecord(record)]
          /\ SameRequests(disk, t)
      BY <2>3, <2>4, <3>1, OneResultSeen
    <3> QED BY <2>5, <3>2
  <2>7. \A q \in Releases \ {r} :
            Result(t)[q] = IF q = disk.active THEN "failed" ELSE Result(disk)[q]
    BY <2>6 DEF Result
  <2> QED BY <1>1, <2>6, <2>7 DEF Untouched, t
<1>3. CASE old \notin Releases \ {r}
  <2>1. t.records = disk.records
    BY <1>3 DEF Takeover, TargetState
  <2> QED BY <1>1, <1>3, <2>1 DEF Untouched, SameRequests, Result, Want, Found
<1> QED BY <1>2, <1>3

LEMMA AcceptedSeen ==
    ASSUME disk \in TargetState, OnePending(disk), NEW r \in Releases, NEW q,
           Admitted(r, q), q.commit \in Commits
    PROVE  Accepts(disk, [Takeover(r) EXCEPT !.records[r] = NewRecord(q), !.active = r], r)
<1> DEFINE t == [Takeover(r) EXCEPT !.records[r] = NewRecord(q), !.active = r]
           record == NewRecord(q)
<1>1. Takeover(r) \in TargetState
  BY TakeoverTyped
<1>2. t.records = [Takeover(r).records EXCEPT ![r] = record] /\ t.active = r
  BY <1>1 DEF TargetState
<1>3. /\ record.request = q /\ record.status = "running"
      /\ record.baseline = disk.current /\ record.baselinePrevious = disk.previous
  BY DEF NewRecord, NoRecord
<1>4. Like(disk, t)
  BY AcceptedLike DEF Like
<1> HIDE DEF t, record
<1>5. ResultOnRecord(record) = "pending"
  BY <1>3 DEF ResultOnRecord
<1>6. /\ Result(t) = [Result(Takeover(r)) EXCEPT ![r] = "pending"]
      /\ Want(t) = [Want(Takeover(r)) EXCEPT ![r] = q.commit]
      /\ Found(t) = [Found(Takeover(r)) EXCEPT ![r] = Pair(disk)]
  BY <1>1, <1>2, <1>3, <1>5, OneRecordSeen DEF Pair
<1>7. Want(Takeover(r)) = Want(disk) /\ Found(Takeover(r)) = Found(disk)
  BY TakeoverSeen DEF Untouched, SameRequests
<1>8. \A p \in Releases \ {r} :
          Result(t)[p] = IF p = disk.active THEN "failed" ELSE Result(disk)[p]
  <2>1. \A p \in Releases \ {r} : Result(t)[p] = Result(Takeover(r))[p]
    BY <1>6 DEF Result
  <2> QED BY <2>1, TakeoverSeen
<1>9. Result(t)[r] = "pending"
  BY <1>6 DEF Result
<1>10. Result(disk)[r] \in {"none", "pending"}
  BY DEF Admitted, Result, ResultOnRecord
<1> QED BY <1>2, <1>4, <1>6, <1>7, <1>8, <1>9, <1>10 DEF Accepts, t, record

-----------------------------------------------------------------------------
(* A release that intends to switch does so to the version it was asked    *)
(* for.  The candidate is set before the intent, and startup works with    *)
(* what the record has of the two.                                         *)

NoCommands == Ops \cap Commands = {}
Uncommanded == op \notin Commands

Wanted(s) == \A r \in Releases :
                 s.records[r].intent
                     => s.records[r].candidate = s.records[r].request.commit
Decided == {"switch_intent", "save_switch", "switch"} \cup Forward
Chosen == /\ Wanted(disk) /\ Wanted(st)
          /\ pc \in Decided => Rec.candidate = Rec.request.commit
          /\ pc = "skip" => st.current = Rec.request.commit

(* A state each of whose records with intent is as in another one.         *)
WantedLike(s, t) == \A r \in Releases :
                        \/ ~s.records[r].intent
                        \/ /\ t.records[r].intent
                           /\ s.records[r].candidate = t.records[r].candidate
                           /\ s.records[r].request = t.records[r].request

LEMMA WantedLikeWanted ==
    ASSUME NEW s, NEW t, WantedLike(s, t), Wanted(t)
    PROVE  Wanted(s)
BY DEF WantedLike, Wanted

LEMMA WorkingCopyWanted ==
    ASSUME st \in TargetState, rel \in Releases, NEW name, NEW n
    PROVE  /\ WantedLike(WithPhase(name), st)
           /\ Rec.candidate = Rec.request.commit /\ Wanted(st) => Wanted(WithIntent)
           /\ Wanted(st) => Wanted(Prepared)
           /\ WantedLike(Skipped, st) /\ WantedLike(Undecided, st)
           /\ WantedLike(Tested, st)
           /\ WantedLike(Succeeded(name), st) /\ WantedLike(Failed(st), st)
           /\ WantedLike(Failed(Reverted(n)), st)
<1>1. st.records \in [Releases -> Record]
  BY DEF TargetState
<1>2. WantedLike(WithPhase(name), st) /\ WantedLike(Skipped, st)
  BY <1>1 DEF WantedLike, WithPhase, Skipped, TargetState, Record
<1>3. WantedLike(Undecided, st) /\ WantedLike(Tested, st)
  BY <1>1 DEF WantedLike, Undecided, Tested, TargetState, Record
<1>4. ASSUME Rec.candidate = Rec.request.commit, Wanted(st)
      PROVE  Wanted(WithIntent)
  BY <1>1, <1>4 DEF Wanted, WithIntent, Rec, TargetState, Record
<1>5. ASSUME Wanted(st)
      PROVE  Wanted(Prepared)
  BY <1>1, <1>5 DEF Wanted, Prepared, Rec, TargetState, Record
<1>6. WantedLike(Succeeded(name), st)
  BY <1>1 DEF WantedLike, Succeeded, TargetState, Record
<1>7. WantedLike(Failed(st), st)
  BY <1>1 DEF WantedLike, Failed, TargetState, Record
<1>8. WantedLike(Failed(Reverted(n)), st)
  BY <1>1 DEF WantedLike, Failed, Reverted, TargetState, Record
<1> QED BY <1>2, <1>3, <1>4, <1>5, <1>6, <1>7, <1>8

LEMMA AcceptedWanted ==
    ASSUME disk \in TargetState, NEW r \in Releases, NEW q
    PROVE  WantedLike([Takeover(r) EXCEPT !.records[r] = NewRecord(q), !.active = r], disk)
<1>1. disk.records \in [Releases -> Record]
  BY DEF TargetState
<1>2. ~NewRecord(q).intent
  BY DEF NewRecord, NoRecord
<1> QED BY <1>1, <1>2 DEF WantedLike, Takeover, TargetState, Record

LEMMA WantedWritten ==
    ASSUME Wanted(disk), NEW s, Wanted(s), disk' \in {disk, s}, st' = s \/ st' = disk
    PROVE  (Wanted(disk) /\ Wanted(st))'
BY DEF Wanted

LEMMA StepChosen ==
    ASSUME TypeOK, Chosen, Uncommanded, Step
    PROVE  Chosen'
<1>1. /\ rel \in Releases /\ st \in TargetState
      /\ Wanted(disk) /\ Wanted(st)
  BY StepHasRelease DEF TypeOK, Chosen
<1>2. ASSUME NEW s, WantedLike(s, st), disk' \in {disk, s}, st' = s,
             pc' \in {"idle", "uncertain"}
      PROVE  Chosen'
  <2>1. (Wanted(disk) /\ Wanted(st))'
    BY <1>1, <1>2, WantedLikeWanted, WantedWritten
  <2> QED BY <1>2, <2>1 DEF Chosen, Decided, Forward
<1>3. CASE \/ SaveSkipped \/ Commit \/ CommitGitStage \/ SaveTested \/ Fail
           \/ Restored
  <2>1. PICK s : /\ Finish(s)
                 /\ \/ s \in {Skipped, Tested, Failed(st)}
                    \/ s = Failed(Reverted(minted + 1))
                    \/ \E name : s = Succeeded(name)
    BY <1>3 DEF SaveSkipped, Commit, CommitGitStage, SaveTested, Fail, Restored
  <2>2. WantedLike(s, st)
    BY <1>1, <2>1, WorkingCopyWanted
  <2>3. disk' \in {disk, s} /\ st' = s /\ pc' \in {"idle", "uncertain"}
    BY <2>1, WaysToWrite DEF Finish, Return
  <2> QED BY <1>2, <2>2, <2>3
<1>12. CASE Uncertain
  <2>1. disk' \in {disk, Undecided} /\ st' = Undecided /\ pc' = "idle"
    BY <1>12 DEF Uncertain, Return
  <2> QED BY <1>1, <1>2, <2>1, WorkingCopyWanted
<1>4. ASSUME NEW at, NEW name, NEW next, NEW onError, SavePhase(at, name, next, onError),
             {next, onError} \cap (Decided \cup {"skip"}) = {} \/ at \in Decided,
             "skip" \notin {next, onError}
      PROVE  Chosen'
  <2>1. disk' \in {disk, WithPhase(name)} /\ st' = WithPhase(name) /\ rel' = rel
        /\ pc = at /\ pc' \in {next, onError}
    BY <1>4, WaysToWrite DEF SavePhase, Persist
  <2>2. (Wanted(disk) /\ Wanted(st))'
    BY <1>1, <2>1, WorkingCopyWanted, WantedLikeWanted, WantedWritten
  <2>3. WithPhase(name).records[rel].candidate = Rec.candidate
        /\ WithPhase(name).records[rel].request = Rec.request
    BY <1>1, RecordsTyped DEF WithPhase, Rec, TargetState, Record
  <2> QED BY <1>4, <2>1, <2>2, <2>3 DEF Chosen, Rec
<1>5. CASE SaveVerifyBaseline \/ SavePrepare
  BY <1>4, <1>5 DEF SaveVerifyBaseline, SavePrepare, Decided, Forward
<1>6. CASE SaveSwitch \/ SaveTest \/ SaveReload \/ SaveVerify
  BY <1>4, <1>6 DEF SaveSwitch, SaveTest, SaveReload, SaveVerify, Decided, Forward
<1>7. CASE RunPrepare
  <2>1. CASE st' = Prepared /\ disk' = disk /\ rel' = rel /\ pc' = "switch_intent"
    <3>1. Prepared.records[rel].candidate = Prepared.records[rel].request.commit
      BY <1>1, RecordsTyped DEF Prepared, Rec, TargetState, Record
    <3>2. (Wanted(disk) /\ Wanted(st))'
      BY <1>1, <2>1, WorkingCopyWanted, WantedWritten
    <3> QED BY <2>1, <3>1, <3>2 DEF Chosen, Rec
  <2>2. CASE st' = st /\ disk' = disk /\ pc' = "fail"
    BY <1>1, <2>2, WantedWritten DEF Chosen, Decided, Forward
  <2> QED BY <1>7, <2>1, <2>2 DEF RunPrepare, StepFails, Goto
<1>8. CASE SaveIntent
  <2>1. disk' \in {disk, WithIntent} /\ st' = WithIntent /\ rel' = rel
        /\ pc = "switch_intent" /\ pc' \in {"save_switch", "uncertain"}
    BY <1>8, WaysToWrite DEF SaveIntent, Persist
  <2>2. Rec.candidate = Rec.request.commit
    BY <2>1 DEF Chosen, Decided
  <2>3. (Wanted(disk) /\ Wanted(st))'
    BY <1>1, <2>1, <2>2, WorkingCopyWanted, WantedWritten
  <2>4. WithIntent.records[rel].candidate = Rec.candidate
        /\ WithIntent.records[rel].request = Rec.request
    BY <1>1, RecordsTyped DEF WithIntent, Rec, TargetState, Record
  <2> QED BY <2>1, <2>2, <2>3, <2>4 DEF Chosen, Rec
<1>9. ASSUME UNCHANGED <<disk, st>>, rel' = rel,
             pc' \in Decided => pc \in Decided,
             pc' = "skip" => NamesLiveVersion
      PROVE  Chosen'
  <2>1. (Wanted(disk) /\ Wanted(st))'
    BY <1>1, <1>9, WantedWritten
  <2> QED BY <1>9, <2>1 DEF Chosen, Rec, NamesLiveVersion
<1>10. CASE \/ OpenTarget \/ CancelBaseline \/ Skip \/ GoOn \/ Switch \/ NginxTest
            \/ NginxReload \/ VerifyActivation \/ RestoreLink \/ RestoreTest
            \/ RestoreReload \/ RestoreVerify
  BY <1>9, <1>10 DEF OpenTarget, CancelBaseline, Skip, GoOn, Switch, NginxTest,
     NginxReload, VerifyActivation, RestoreLink, RestoreTest, RestoreReload,
     RestoreVerify, StepFails, Goto, Decided, Forward
<1>11. CASE AnswerResumable
  <2>1. disk' = disk /\ st' = st /\ pc' = "idle"
    BY <1>11 DEF AnswerResumable
  <2> QED BY <1>1, <2>1, WantedWritten DEF Chosen, Decided, Forward
<1> QED BY <1>3, <1>5, <1>6, <1>7, <1>8, <1>10, <1>11, <1>12 DEF Step

LEMMA NextChosen ==
    ASSUME TypeOK, Chosen, Uncommanded, NoCommands, [Next]_vars
    PROVE  Chosen'
<1>1. disk \in TargetState /\ Wanted(disk) /\ Wanted(st)
  BY DEF TypeOK, Chosen
<1>2. CASE Step
  BY <1>2, StepChosen
<1>3. ASSUME NEW r \in Releases, NEW q, NEW o, Accept(r, q, o)
      PROVE  Chosen'
  <2> DEFINE s == [Takeover(r) EXCEPT !.records[r] = NewRecord(q), !.active = r]
  <2>1. Wanted(s)
    BY <1>1, AcceptedWanted, WantedLikeWanted
  <2>2. disk' \in {disk, s} /\ st' = s /\ pc' \in {"open", "uncertain"}
    BY <1>3, WaysToWrite DEF Accept, Persist
  <2> HIDE DEF s
  <2>3. (Wanted(disk) /\ Wanted(st))'
    BY <1>1, <2>1, <2>2, WantedWritten
  <2> QED BY <2>2, <2>3 DEF Chosen, Decided, Forward
<1>4. ASSUME NEW r \in Releases, NEW o \in Commands, Command(r, o)
      PROVE  Chosen'
  BY <1>4 DEF Command, NoCommands, Commands
<1>5. CASE Start
  <2>1. /\ Wanted([disk EXCEPT !.recovery = FALSE])
        /\ Wanted([disk EXCEPT !.recovery = TRUE])
    BY <1>1 DEF Wanted, TargetState
  <2>2. PICK s \in {disk, [disk EXCEPT !.recovery = FALSE],
                    [disk EXCEPT !.recovery = TRUE]} :
            disk' \in {disk, s} /\ (st' = s \/ st' = disk)
    BY <1>5 DEF Start, StartIdle, StartWithoutIntent, StartWithIntent, Save
  <2>3. (Wanted(disk) /\ Wanted(st))'
    BY <1>1, <2>1, <2>2, WantedWritten
  <2>4. \/ pc' \in {"idle", "fail", "restore", "recovery_failed"}
        \/ /\ st' = disk /\ rel' = disk.active /\ disk.active \in Releases
           /\ pc' = "test" /\ disk.records[disk.active].intent
    BY <1>1, <1>5 DEF Start, StartIdle, StartWithoutIntent, StartWithIntent, Recovering,
       TargetState
  <2> QED BY <1>1, <2>3, <2>4 DEF Chosen, Decided, Forward, Wanted, Rec
<1>6. CASE Crash
  <2>1. disk' = disk /\ st' = disk /\ pc' = "off"
    BY <1>6 DEF Crash
  <2> QED BY <1>1, <2>1, WantedWritten DEF Chosen, Decided, Forward
<1>7. ASSUME \/ \E r \in Releases : ReadRollback(r) \/ Replay(r)
             \/ RefuseRollback \/ RefuseBlocked \/ LoadFails \/ UNCHANGED vars
      PROVE  Chosen'
  <2>1. UNCHANGED <<disk, st, pc, rel>>
    BY <1>7 DEF ReadRollback, Replay, RefuseRollback, RefuseBlocked, LoadFails,
       vars, transaction
  <2> QED BY <2>1 DEF Chosen, Wanted, Rec
<1> QED BY <1>2, <1>3, <1>4, <1>5, <1>6, <1>7
        DEF Next, Publish, RestoreOf, StageRollback, Commands

-----------------------------------------------------------------------------
(* What holds of a handler while it works, so that each of its steps is    *)
(* one of the register: its copy is the state file, as far as readers can  *)
(* tell; what uncertain will write follows from what is on disk; and the   *)
(* release it works on has not been answered.                              *)

Kept == \A r \in Releases : told[r] \in Sure => Result(disk)[r] = told[r]

Inside == pc \notin {"idle", "off", "uncertain"}
              => disk.active = rel /\ Same(st, disk)

Leads(s, t, r) == Accepts(s, t, r) \/ HalfDone(s, t, r) \/ Reconsiders(s, t, r)
Unsure == pc = "uncertain" => Leads(disk, Doubted(st, rel), rel)

Unanswered == pc \notin {"idle", "off"}
                  => told[rel] \notin Sure /\ view.records[rel].status \notin Terminal

(* Readers are shown a final result early only by a Runner that gave up.   *)
Viewed == \A r \in Releases :
              view.records[r].status \in Terminal =>
                  \/ Result(disk)[r] = view.records[r].status
                  \/ view.records[r].status = "failed" /\ disk.active = r /\ blocked

Handled == Inside /\ Unsure /\ Unanswered /\ Viewed

LEMMA ResultIsStatus ==
    ASSUME NEW s, NEW r \in Releases
    PROVE  /\ s.records[r].status \in Terminal => Result(s)[r] = s.records[r].status
           /\ Result(s)[r] \in Terminal => s.records[r].status = Result(s)[r]
           /\ Result(s)[r] \in {"none", "pending"} => s.records[r].status \notin Terminal
BY DEF Result, ResultOnRecord, Terminal

LEMMA RegisterKeeps ==
    ASSUME told \in [Releases -> Terminal \cup {"none"}], OnePending(disk), Kept,
           RegisterNext
    PROVE  OnePending(disk') /\ Kept'
<1> DEFINE r0 == [r \in Releases |-> ResultOnRecord(disk.records[r])]
           r1 == [r \in Releases |-> ResultOnRecord(disk'.records[r])]
<1>1. r0 = Result(disk) /\ r1 = Result(disk')
  BY DEF Result
<1>2. CASE UNCHANGED Register!vars
  <2>1. disk'.active = disk.active /\ r1 = r0 /\ told' = told
    BY <1>2 DEF Register!vars
  <2> HIDE DEF r0, r1
  <2> QED BY <1>1, <2>1 DEF OnePending, Kept
<1>3. ASSUME NEW r \in Releases, NEW c \in Commits, Register!Accept(r, c)
      PROVE  OnePending(disk') /\ Kept'
  <2>1. /\ r0[r] \in {"none", "pending"} /\ disk'.active = r /\ told' = told
        /\ r1[r] = "pending"
        /\ \A q \in Releases \ {r} : r1[q] = IF q = disk.active THEN "failed" ELSE r0[q]
    BY <1>3 DEF Register!Accept
  <2> HIDE DEF r0, r1
  <2> QED BY <1>1, <2>1 DEF OnePending, Kept, Sure
<1>4. ASSUME NEW r \in Releases, NEW result \in Terminal, Register!Decide(r, result)
      PROVE  OnePending(disk') /\ Kept'
  <2>1. /\ disk.active = r /\ disk'.active = NoRelease
        /\ r1 = [r0 EXCEPT ![r] = result]
        /\ told' \in {told, [told EXCEPT ![r] = result]}
    BY <1>4 DEF Register!Decide
  <2>2. r0[r] = "pending" /\ told[r] \notin Sure
    BY <1>1, <2>1 DEF OnePending, Kept, Sure
  <2>3. \A q \in Releases : r1[q] = IF q = r THEN result ELSE r0[q]
    BY <2>1
  <2>4. \A q \in Releases : told'[q] = told[q] \/ (q = r /\ told'[q] = result)
    BY <2>1
  <2> HIDE DEF r0, r1
  <2> QED BY <1>1, <2>1, <2>2, <2>3, <2>4, NoReleaseAssumption
          DEF OnePending, Kept, Terminal
<1>5. ASSUME NEW r \in Releases, Register!Undecided(r)
      PROVE  OnePending(disk') /\ Kept'
  <2>1. disk'.active = disk.active /\ r1 = r0 /\ told' = told
    BY <1>5 DEF Register!Undecided
  <2> HIDE DEF r0, r1
  <2> QED BY <1>1, <2>1 DEF OnePending, Kept
<1>6. ASSUME NEW r \in Releases, Register!Reconsider(r)
      PROVE  OnePending(disk') /\ Kept'
  <2>1. /\ told[r] \in {"none", "failed"} /\ told' = told
        /\ disk.active = NoRelease /\ disk'.active = r
        /\ r1 = [r0 EXCEPT ![r] = "pending"]
    BY <1>6 DEF Register!Reconsider
  <2>2. \A q \in Releases : r1[q] = IF q = r THEN "pending" ELSE r0[q]
    BY <2>1
  <2> HIDE DEF r0, r1
  <2> QED BY <1>1, <2>1, <2>2, NoReleaseAssumption DEF OnePending, Kept, Sure
<1>7. ASSUME NEW r \in Releases, Register!Tell(r) \/ Register!Hasten(r)
      PROVE  OnePending(disk') /\ Kept'
  <2>1. /\ disk'.active = disk.active /\ r1 = r0
        /\ \E result : /\ told' = [told EXCEPT ![r] = result]
                       /\ result = "failed" \/ result = r0[r]
    BY <1>7 DEF Register!Tell, Register!Hasten
  <2>2. PICK result : /\ told' = [told EXCEPT ![r] = result]
                      /\ result = "failed" \/ result = r0[r]
    BY <2>1
  <2>3. \A q \in Releases : told'[q] = told[q] \/ told'[q] = "failed" \/ told'[q] = r0[q]
    BY <2>2
  <2> HIDE DEF r0, r1
  <2> QED BY <1>1, <2>1, <2>3 DEF OnePending, Kept, Sure
<1>8. ASSUME NEW r \in Releases,
             Register!Publish(r) \/ Register!Undo(r) \/ Register!Leave(r)
      PROVE  OnePending(disk') /\ Kept'
  <2>1. \/ \E result \in Terminal : Register!Decide(r, result)
        \/ Register!Undecided(r)
    BY <1>8 DEF Register!Publish, Register!Undo, Register!Leave, Terminal
  <2> QED BY <1>4, <1>5, <2>1
<1> QED BY <1>2, <1>3, <1>6, <1>7, <1>8 DEF RegisterNext, Register!Next

-----------------------------------------------------------------------------
(* The kinds of steps.                                                     *)

LEMMA AtRest ==
    ASSUME pc' \in {"idle", "off"}, Viewed'
    PROVE  Handled'
BY DEF Handled, Inside, Unsure, Unanswered

LEMMA ShownIsViewed ==
    ASSUME view' = disk'
    PROVE  Viewed'
BY ResultIsStatus DEF Viewed

(* Nothing but the answers changes, and what readers see.                  *)
LEMMA ViewStays ==
    ASSUME Viewed, UNCHANGED <<disk, view>>, blocked => blocked'
    PROVE  Viewed'
BY DEF Viewed

(* A handler goes on; what it may have written says the same.              *)
LEMMA GoesOn ==
    ASSUME TypeOK, TypeOK', OnePending(disk), Handled,
           pc \notin {"idle", "off", "uncertain"}, pc' \notin {"idle", "off"},
           Same(st', st), UNCHANGED <<told, rel>>, ~blocked,
           \/ disk' = st' /\ view' = st'
           \/ disk' \in {disk, st'} /\ view' = view
    PROVE  RegisterNext /\ Handled'
<1>1. /\ rel \in Releases /\ rel' \in Releases /\ st' \in TargetState
      /\ disk.active = rel /\ Same(st, disk)
  BY DEF TypeOK, Handled, Inside
<1>2. Same(disk, disk') /\ Same(st', disk')
  BY <1>1, SameIsEqual
<1>3. RegisterNext
  BY <1>2, SameStutters
<1>4. disk'.active = rel' /\ Result(disk')[rel'] = "pending" /\ Result(st') = Result(disk')
  BY <1>1, <1>2 DEF Same, OnePending
<1>5. Inside'
  BY <1>2, <1>4 DEF Inside
<1>6. HalfDone(disk', Doubted(st', rel'), rel')
  <2>1. /\ Doubted(st', rel').active = rel'
        /\ Result(Doubted(st', rel')) = [Result(st') EXCEPT ![rel'] = "pending"]
        /\ Untouched(st', Doubted(st', rel'))
    BY <1>1, DoubtedSeen
  <2>2. Result(Doubted(st', rel')) = Result(disk')
    BY <1>1, <1>4, <2>1 DEF Result
  <2>3. Untouched(disk', Doubted(st', rel'))
    BY <1>2, <2>1 DEF Same, Untouched, Like, SameRequests
  <2> QED BY <1>4, <2>1, <2>2, <2>3 DEF HalfDone
<1>7. Unsure'
  BY <1>6 DEF Unsure, Leads
<1>8. CASE disk' = st' /\ view' = st'
  <2>1. view'.records[rel'].status \notin Terminal
    BY <1>1, <1>4, <1>8, ResultIsStatus
  <2>2. Unanswered'
    BY <1>1, <2>1 DEF Unanswered, Handled
  <2> QED BY <1>3, <1>5, <1>7, <1>8, <2>2, ShownIsViewed DEF Handled
<1>9. CASE disk' \in {disk, st'} /\ view' = view
  <2>1. Unanswered'
    BY <1>9 DEF Unanswered, Handled
  <2>2. Viewed'
    BY <1>2, <1>9 DEF Viewed, Handled, Same
  <2> QED BY <1>3, <1>5, <1>7, <2>1, <2>2 DEF Handled
<1> QED BY <1>8, <1>9

(* A handler ends with a final result; if its save fails, the result may   *)
(* be on disk even so, and will then be taken back.                        *)
LEMMA Ends ==
    ASSUME TypeOK, TypeOK', OnePending(disk), Handled,
           pc \notin {"idle", "off", "uncertain"}, ~blocked,
           NEW s \in TargetState, NEW result \in Terminal,
           Decides(st, s, rel, result), Finish(s)
    PROVE  RegisterNext /\ Handled'
<1>1. rel \in Releases /\ disk.active = rel /\ Same(st, disk)
  BY DEF TypeOK, Handled, Inside
<1>2. Decides(disk, s, rel, result)
  BY <1>1 DEF Decides, Same, Enters, Leaves, Untouched, Like, SameRequests, Pair
<1>3. Result(disk)[rel] = "pending"
  BY <1>1 DEF OnePending
<1>4. \A r \in Releases : Result(s)[r] = IF r = rel THEN result ELSE Result(disk)[r]
  BY <1>2 DEF Decides, Result
<1>5. CASE Save(s) /\ Return(s)
  <2>1. disk' = s /\ view' = s /\ pc' = "idle"
    BY <1>5 DEF Save, Return
  <2>2. s.records[rel].status = result
    BY <1>1, <1>4, ResultIsStatus
  <2>3. told' \in {told, [told EXCEPT ![rel] = result]}
    BY <1>5, <2>2 DEF Return
  <2>4. RegisterNext
    BY <1>1, <1>2, <2>1, <2>3, DecidesIsDecide
  <2> QED BY <2>1, <2>4, ShownIsViewed, AtRest
<1>6. CASE SaveFails(s) /\ pc' = "uncertain" /\ UNCHANGED <<rel, op, told>>
  <2>1. disk' \in {disk, s} /\ st' = s /\ view' = view
    BY <1>6 DEF SaveFails
  <2>2. RegisterNext
    <3>1. CASE disk' = disk
      BY <1>6, <3>1, SameIsEqual, SameStutters
    <3>2. CASE disk' = s
      BY <1>1, <1>2, <1>6, <3>2, DecidesIsDecide
    <3> QED BY <2>1, <3>1, <3>2
  <2> DEFINE u == Doubted(s, rel)
  <2>3. /\ u.active = rel /\ Result(u) = [Result(s) EXCEPT ![rel] = "pending"]
        /\ Untouched(s, u)
    BY <1>1, DoubtedSeen
  <2>4. Leads(disk', u, rel)
    <3>1. CASE disk' = disk
      <4>1. \A r \in Releases : Result(u)[r] = Result(disk)[r]
        BY <1>3, <1>4, <2>3 DEF Result
      <4>2. Result(u) = Result(disk)
        BY <4>1 DEF Result
      <4>3. Enters(disk, u, rel) \/ Leaves(disk, u, rel) \/ Untouched(disk, u)
        BY <1>2, <2>3 DEF Decides, Enters, Leaves, Untouched, Like, SameRequests
      <4> QED BY <1>1, <2>3, <3>1, <4>2, <4>3 DEF Leads, HalfDone
    <3>2. CASE disk' = s
      BY <1>1, <1>2, <1>4, <2>3, <3>2 DEF Leads, Reconsiders, Decides
    <3> QED BY <2>1, <3>1, <3>2
  <2>5. Unsure' /\ Inside'
    BY <1>6, <2>1, <2>4 DEF Unsure, Inside
  <2>6. Unanswered'
    BY <1>6, <2>1 DEF Unanswered, Handled
  <2>7. Viewed'
    <3>1. ASSUME NEW r \in Releases, view.records[r].status \in Terminal
          PROVE  Result(disk')[r] = view.records[r].status
      <4>1. r # rel
        BY <3>1 DEF Unanswered, Handled
      <4>2. Result(disk)[r] = view.records[r].status
        BY <3>1 DEF Viewed, Handled
      <4> QED BY <1>4, <2>1, <4>1, <4>2
    <3> QED BY <2>1, <3>1 DEF Viewed
  <2> QED BY <2>2, <2>5, <2>6, <2>7 DEF Handled
<1> QED BY <1>5, <1>6 DEF Finish

(* A handler gives up: the state in doubt is shown, and saved or not.      *)
LEMMA GivesUp ==
    ASSUME TypeOK, TypeOK', OnePending(disk), Kept, Handled, ~blocked, Uncertain
    PROVE  RegisterNext /\ Handled'
<1> DEFINE u == Doubted(st, rel)
<1>1. /\ rel \in Releases /\ st \in TargetState
      /\ told \in [Releases -> Terminal \cup {"none"}]
  BY DEF TypeOK, Uncertain
<1>2. /\ u.active = rel /\ Result(u) = [Result(st) EXCEPT ![rel] = "pending"]
      /\ Untouched(st, u)
  BY <1>1, DoubtedSeen
<1>3. Leads(disk, u, rel)
  <2>1. CASE pc = "uncertain"
    BY <2>1 DEF Handled, Unsure
  <2>2. CASE pc = "recovery_failed"
    <3>1. disk.active = rel /\ Same(st, disk)
      BY <2>2 DEF Handled, Inside
    <3>2. Result(disk)[rel] = "pending"
      BY <1>1, <3>1 DEF OnePending
    <3>3. Result(u) = Result(disk)
      BY <1>2, <3>1, <3>2 DEF Same, Result
    <3>4. Untouched(disk, u)
      BY <1>2, <3>1 DEF Same, Untouched, Like, SameRequests
    <3> QED BY <1>2, <3>1, <3>3, <3>4 DEF Leads, HalfDone
  <2> QED BY <2>1, <2>2 DEF Uncertain
<1>4. /\ view' = u /\ pc' = "idle" /\ disk' \in {disk, u}
      /\ disk' # u => blocked'
  BY DEF Uncertain, Return, Undecided, Doubted
<1>5. told' = told
  <2>1. Result(u)[rel] = "pending"
    BY <1>1, <1>2 DEF Result
  <2>2. Undecided.records[rel].status \notin Terminal
    BY <1>1, <2>1, ResultIsStatus DEF Undecided, Doubted
  <2> QED BY <2>2 DEF Uncertain, Return
<1>6. told[rel] \notin Sure
  BY DEF Handled, Unanswered, Uncertain
<1> HIDE DEF u
<1>7. RegisterNext
  <2>1. CASE disk' = disk
    BY <1>5, <2>1, SameIsEqual, SameStutters
  <2>2. CASE disk' = u
    BY <1>1, <1>3, <1>5, <1>6, <2>2, AcceptsIsAccept, HalfDoneIsUndecided,
       ReconsidersIsReconsider DEF Leads, TypeOK
  <2> QED BY <1>4, <2>1, <2>2
<1>8. Viewed'
  <2>1. CASE disk' = u
    BY <1>4, <2>1, ShownIsViewed
  <2>2. CASE disk' = disk /\ blocked'
    <3>1. ASSUME NEW r \in Releases, u.records[r].status \in Terminal
          PROVE  \/ Result(disk)[r] = u.records[r].status
                 \/ u.records[r].status = "failed" /\ disk.active = r
      <4>1. Result(u)[r] = u.records[r].status
        BY <3>1, ResultIsStatus
      <4>2. Result(u)[rel] = "pending"
        BY <1>1, <1>2 DEF Result
      <4>3. r # rel
        BY <3>1, <4>1, <4>2 DEF Terminal
      <4>4. CASE Accepts(disk, u, rel)
        BY <4>1, <4>3, <4>4 DEF Accepts
      <4>5. CASE HalfDone(disk, u, rel) \/ Reconsiders(disk, u, rel)
        BY <4>1, <4>3, <4>5 DEF HalfDone, Reconsiders, Result
      <4> QED BY <1>3, <4>4, <4>5 DEF Leads
    <3> QED BY <1>4, <2>2, <3>1 DEF Viewed
  <2> QED BY <1>4, <2>1, <2>2
<1> QED BY <1>4, <1>7, <1>8, AtRest

(* A request is accepted.                                                  *)
LEMMA AcceptHandled ==
    ASSUME TypeOK, TypeOK', OnePending(disk), Kept, Handled, ViewIsDurable,
           NEW r \in Releases, NEW q, NEW o, Accept(r, q, o), q.commit \in Commits
    PROVE  RegisterNext /\ Handled'
<1> DEFINE t == [Takeover(r) EXCEPT !.records[r] = NewRecord(q), !.active = r]
           u == Doubted(t, r)
<1>1. /\ disk \in TargetState /\ Admitted(r, q) /\ view = disk
      /\ rel' = r /\ told' = told
  BY DEF TypeOK, Accept, ViewIsDurable
<1>2. Accepts(disk, t, r)
  BY <1>1, AcceptedSeen
<1>3. /\ st' = t
      /\ \/ disk' = t /\ view' = t /\ pc' = "open"
         \/ disk' \in {disk, t} /\ view' = view /\ pc' = "uncertain"
  BY DEF Accept, Persist, Save, SaveFails
<1>4. t \in TargetState
  BY <1>3 DEF TypeOK
<1>5. u.active = r /\ Result(u) = [Result(t) EXCEPT ![r] = "pending"] /\ Untouched(t, u)
  BY <1>4, DoubtedSeen
<1> HIDE DEF t, u
<1>6. RegisterNext
  <2>1. CASE disk' = disk
    BY <1>1, <2>1, SameIsEqual, SameStutters
  <2>2. CASE disk' = t
    BY <1>1, <1>2, <2>2, AcceptsIsAccept
  <2> QED BY <1>3, <2>1, <2>2
<1>7. /\ t.active = r /\ Result(t)[r] = "pending"
      /\ Result(disk)[r] \in {"none", "pending"}
  BY <1>2 DEF Accepts
<1>8. Inside'
  BY <1>1, <1>3, <1>7, SameIsEqual DEF Inside
<1>9. Result(u) = Result(t)
  BY <1>5, <1>7 DEF Result
<1>10. Unsure'
  <2>1. CASE disk' = disk
    <3>1. Accepts(disk, u, r)
      BY <1>2, <1>5, <1>9 DEF Accepts, Untouched, Like, SameRequests
    <3> QED BY <1>1, <1>3, <2>1, <3>1 DEF Unsure, Leads, u
  <2>2. CASE disk' = t
    <3>1. HalfDone(t, u, r)
      BY <1>5, <1>7, <1>9 DEF HalfDone
    <3> QED BY <1>1, <1>3, <2>2, <3>1 DEF Unsure, Leads, u
  <2> QED BY <1>3, <2>1, <2>2
<1>11. Unanswered'
  <2>1. told[r] \notin Sure
    BY <1>7 DEF Kept, Sure
  <2>2. t.records[r].status \notin Terminal /\ disk.records[r].status \notin Terminal
    BY <1>7, ResultIsStatus
  <2> QED BY <1>1, <1>3, <2>1, <2>2 DEF Unanswered
<1>12. Viewed'
  <2>1. CASE view' = disk'
    BY <2>1, ShownIsViewed
  <2>2. CASE view' = disk /\ disk' = t
    <3>1. ASSUME NEW p \in Releases, disk.records[p].status \in Terminal
          PROVE  Result(t)[p] = disk.records[p].status
      <4>1. Result(disk)[p] = disk.records[p].status
        BY <3>1, ResultIsStatus
      <4>2. Result(disk)[p] \notin {"none", "pending"}
        BY <3>1, <4>1 DEF Terminal
      <4>3. p # r /\ p # disk.active
        BY <1>7, <4>2 DEF OnePending
      <4> QED BY <1>2, <4>1, <4>3 DEF Accepts
    <3> QED BY <2>2, <3>1 DEF Viewed
  <2> QED BY <1>1, <1>3, <2>1, <2>2
<1> QED BY <1>6, <1>8, <1>10, <1>11, <1>12 DEF Handled

-----------------------------------------------------------------------------
(* The steps of a handler.                                                 *)

LEMMA PhaseHandled ==
    ASSUME TypeOK, TypeOK', OnePending(disk), Handled, rel \in Releases, ~blocked,
           pc \notin {"idle", "off", "uncertain"}, UNCHANGED <<told, rel>>,
           NEW name, NEW s \in {WithPhase(name), WithIntent},
           NEW next, NEW onError, Persist(s, next, onError),
           {next, onError} \cap {"idle", "off"} = {}
    PROVE  RegisterNext /\ Handled'
<1>1. Same(s, st)
  BY WorkingCopySame DEF TypeOK
<1>2. /\ st' = s /\ pc' \in {next, onError}
      /\ \/ disk' = st' /\ view' = st'
         \/ disk' \in {disk, st'} /\ view' = view
  BY DEF Persist, Save, SaveFails
<1> QED BY <1>1, <1>2, GoesOn

LEMMA EndHandled ==
    ASSUME TypeOK, TypeOK', Revisions, Chosen, OnePending(disk), Handled,
           rel \in Releases, ~blocked,
           SaveSkipped \/ Commit \/ CommitGitStage \/ Fail \/ Restored
    PROVE  RegisterNext /\ Handled'
<1>1. /\ st \in TargetState /\ minted \in Nat /\ st.revision <= minted
      /\ pc \notin {"idle", "off", "uncertain"}
  BY DEF TypeOK, Revisions, SaveSkipped, Commit, CommitGitStage, Fail, Restored
<1>2. st.active = rel
  BY <1>1 DEF Handled, Inside, Same
<1>3. ASSUME NEW s \in TargetState, NEW result \in Terminal,
             Decides(st, s, rel, result), Finish(s)
      PROVE  RegisterNext /\ Handled'
  BY <1>1, <1>3, Ends
<1>4. "succeeded" \in Terminal /\ "skipped" \in Terminal /\ "failed" \in Terminal
  BY DEF Terminal
<1>5. CASE SaveSkipped
  <2>1. st.current = Rec.request.commit /\ Finish(Skipped)
    BY <1>5 DEF SaveSkipped, Chosen
  <2>2. Skipped \in TargetState
    BY <1>1, WorkingCopyTyped, PhasesContain
  <2>3. Decides(st, Skipped, rel, "skipped")
    BY <1>1, <1>2, <2>1, EndDecides
  <2> QED BY <1>3, <1>4, <2>1, <2>2, <2>3
<1>6. CASE Commit \/ CommitGitStage
  <2>1. PICK name \in {"complete", "latest_switched"} : Finish(Succeeded(name))
    BY <1>6 DEF Commit, CommitGitStage
  <2>2. Rec.candidate = Rec.request.commit
    BY <1>6 DEF Commit, CommitGitStage, Chosen, Decided, Forward
  <2>3. Succeeded(name) \in TargetState
    BY <1>1, SucceededTyped, PhasesContain
  <2>4. Decides(st, Succeeded(name), rel, "succeeded")
    BY <1>1, <1>2, <2>2, EndDecides
  <2> QED BY <1>3, <1>4, <2>1, <2>3, <2>4
<1>7. CASE Fail
  <2>1. Failed(st) \in TargetState /\ Finish(Failed(st))
    BY <1>1, <1>7, FailedTyped DEF Fail
  <2>2. Decides(st, Failed(st), rel, "failed")
    BY <1>1, <1>2, EndDecides
  <2> QED BY <1>3, <1>4, <2>1, <2>2
<1>8. CASE Restored
  <2> DEFINE s == Failed(Reverted(minted + 1))
  <2>1. Reverted(minted + 1) \in TargetState
    <3>1. minted + 1 \in Nat
      BY <1>1
    <3> QED BY <1>1, <3>1, WorkingCopyTyped, PhasesContain
  <2>2. s \in TargetState /\ Finish(s)
    BY <1>8, <2>1, FailedTyped DEF Restored
  <2>3. Decides(st, s, rel, "failed")
    BY <1>1, <1>2, EndDecides
  <2> HIDE DEF s
  <2> QED BY <1>3, <1>4, <2>2, <2>3
<1> QED BY <1>5, <1>6, <1>7, <1>8

(* The result of a release that nginx has not finished with is answered in *)
(* place of the one of this release.                                       *)
LEMMA ResumedHandled ==
    ASSUME TypeOK, Handled, AnswerResumable
    PROVE  RegisterNext /\ Handled'
<1>1. PICK r \in Resumable : told' = [told EXCEPT ![r] = "succeeded"]
  BY DEF AnswerResumable
<1>2. /\ UNCHANGED <<disk, view, blocked>> /\ pc' = "idle" /\ pc = "compare"
  BY DEF AnswerResumable
<1>3. r \in Releases /\ st.records[r].status = "succeeded"
  BY <1>1 DEF Resumable
<1>4. Result(disk)[r] = "succeeded" /\ "succeeded" \in Terminal
  <2>1. Result(st) = Result(disk)
    BY <1>2 DEF Handled, Inside, Same
  <2> QED BY <1>3, <2>1, ResultIsStatus DEF Terminal
<1>5. Same(disk, disk')
  BY <1>2, SameIsEqual
<1>6. RegisterNext
  BY <1>1, <1>3, <1>4, <1>5, AnswersAreTold
<1>7. Viewed'
  BY <1>2, ViewStays DEF Handled
<1> QED BY <1>2, <1>6, <1>7, AtRest

LEMMA StepHandled ==
    ASSUME TypeOK, TypeOK', Revisions, Places, Chosen, Uncommanded,
           OnePending(disk), Kept, Handled, Step
    PROVE  RegisterNext /\ Handled'
<1>1. /\ rel \in Releases /\ st \in TargetState /\ pc \notin {"off", "idle"}
      /\ ~blocked
  BY StepHasRelease DEF TypeOK, Places
<1>2. CASE \/ SaveVerifyBaseline \/ SavePrepare \/ SaveSwitch \/ SaveTest
           \/ SaveReload \/ SaveVerify
  <2>1. PICK name, next, onError :
            /\ Persist(WithPhase(name), next, onError)
            /\ {next, onError} \cap {"idle", "off"} = {}
    BY <1>2 DEF SaveVerifyBaseline, SavePrepare, SaveSwitch, SaveTest, SaveReload,
       SaveVerify, SavePhase
  <2>2. pc \notin {"idle", "off", "uncertain"} /\ UNCHANGED <<told, rel>>
    BY <1>2 DEF SaveVerifyBaseline, SavePrepare, SaveSwitch, SaveTest, SaveReload,
       SaveVerify, SavePhase, rest
  <2> QED BY <1>1, <2>1, <2>2, PhaseHandled
<1>3. CASE SaveIntent
  <2>1. /\ Persist(WithIntent, "save_switch", "uncertain") /\ pc = "switch_intent"
        /\ UNCHANGED <<told, rel>>
    BY <1>3 DEF SaveIntent, rest
  <2> QED BY <1>1, <2>1, PhaseHandled
<1>4. CASE \/ OpenTarget \/ CancelBaseline \/ Skip \/ GoOn \/ RunPrepare
           \/ Switch \/ NginxTest \/ NginxReload \/ VerifyActivation
           \/ RestoreLink \/ RestoreTest \/ RestoreReload \/ RestoreVerify
  <2>1. /\ UNCHANGED <<disk, view, rel, told>> /\ st' \in {st, Prepared}
        /\ pc \notin {"idle", "off", "uncertain"} /\ pc' \notin {"idle", "off"}
    BY <1>4 DEF OpenTarget, CancelBaseline, Skip, GoOn, RunPrepare, Switch, NginxTest,
       NginxReload, VerifyActivation, RestoreLink, RestoreTest, RestoreReload,
       RestoreVerify, StepFails, Goto, rest
  <2>2. Same(st', st)
    BY <1>1, <2>1, WorkingCopySame, SameIsEqual
  <2> QED BY <1>1, <2>1, <2>2, GoesOn
<1>5. CASE SaveSkipped \/ Commit \/ CommitGitStage \/ Fail \/ Restored
  BY <1>1, <1>5, EndHandled
<1>6. CASE SaveTested
  BY <1>6 DEF SaveTested, Places, Uncommanded, Commands
<1>7. CASE Uncertain
  BY <1>1, <1>7, GivesUp
<1>8. CASE AnswerResumable
  BY <1>8, ResumedHandled
<1> QED BY <1>2, <1>3, <1>4, <1>5, <1>6, <1>7, <1>8 DEF Step

-----------------------------------------------------------------------------
(* Requests, readers, startup and crashes.                                 *)

(* A rollback that waits names a version.                                  *)
Ticketed == ticket # NoRequest => ticket.commit \in Commits

LEMMA NextTicketed ==
    ASSUME TypeOK, Ticketed, [Next]_vars
    PROVE  Ticketed'
<1>1. CASE ticket' \in {ticket, NoRequest}
  BY <1>1 DEF Ticketed
<1>2. ASSUME NEW r \in Releases, ReadRollback(r)
      PROVE  Ticketed'
  <2>1. disk.previous \in Commits /\ ticket'.commit = disk.previous
    BY <1>2 DEF ReadRollback, TypeOK, TargetState, Versions
  <2> QED BY <2>1 DEF Ticketed
<1> QED BY <1>1, <1>2, TicketsAreRead

LEMMA NextUncommanded ==
    ASSUME NoCommands, Uncommanded, [Next]_vars
    PROVE  Uncommanded'
<1>1. CASE Step
  <2>1. op' \in {op, "none"}
    BY <1>1 DEF Step, OpenTarget, SaveVerifyBaseline, CancelBaseline,
       AnswerResumable, Skip, SaveSkipped, GoOn, SavePrepare, RunPrepare,
       SaveIntent, SaveSwitch, Switch, SaveTest, NginxTest, SaveReload,
       NginxReload, SaveVerify, VerifyActivation, Commit, CommitGitStage,
       SaveTested, Fail, RestoreLink, RestoreTest, RestoreReload, RestoreVerify,
       Restored, Uncertain, SavePhase, StepFails, Finish, Return, Goto
  <2> QED BY <2>1 DEF Uncommanded, Commands
<1>2. ASSUME NEW r \in Releases, NEW q, NEW o, Accept(r, q, o), o \in {"apply", "stage"}
      PROVE  Uncommanded'
  BY <1>2 DEF Accept, Uncommanded, Commands
<1>3. ASSUME NEW r \in Releases, NEW o \in Commands, Command(r, o)
      PROVE  Uncommanded'
  BY <1>3 DEF Command, NoCommands, Commands
<1>4. CASE Start \/ Crash
  BY <1>4 DEF Start, StartIdle, StartWithoutIntent, StartWithIntent, Recovering, Crash,
     Uncommanded, Commands
<1>5. ASSUME \/ \E r \in Releases : ReadRollback(r) \/ Replay(r)
             \/ RefuseRollback \/ RefuseBlocked \/ LoadFails \/ UNCHANGED vars
      PROVE  Uncommanded'
  BY <1>5 DEF ReadRollback, Replay, RefuseRollback, RefuseBlocked, LoadFails,
     vars, transaction, Uncommanded
<1> QED BY <1>1, <1>2, <1>3, <1>4, <1>5 DEF Next, Publish, RestoreOf, StageRollback, Commands

LEMMA RequestHandled ==
    ASSUME TypeOK, TypeOK', OnePending(disk), Kept, Handled, ViewIsDurable, Ticketed,
           NEW r \in Releases,
           \/ \E c \in Commits, o \in {"apply", "stage"} : Publish(r, c, o)
           \/ \E original \in Releases : RestoreOf(r, original)
           \/ StageRollback(r)
    PROVE  RegisterNext /\ Handled'
<1>1. ASSUME NEW c \in Commits, NEW o, Publish(r, c, o)
      PROVE  RegisterNext /\ Handled'
  <2> DEFINE q == [NoRequest EXCEPT !.commit = c]
  <2>1. q.commit = c /\ Accept(r, q, o)
    BY <1>1 DEF Publish, NoRequest
  <2> HIDE DEF q
  <2> QED BY <2>1, AcceptHandled
<1>2. ASSUME NEW original \in Releases, RestoreOf(r, original)
      PROVE  RegisterNext /\ Handled'
  <2> DEFINE q == [commit |-> disk.records[original].baseline,
                   restoreOf |-> original, expected |-> disk.revision]
  <2>1. Accept(r, q, "stage")
    BY <1>2 DEF RestoreOf
  <2>2. disk.records[original].baseline # NoCommit
    BY <2>1, NoReleaseAssumption DEF Accept, StillHolds
  <2>3. disk.records[original].baseline \in Versions
    BY RecordsTyped DEF TypeOK, Record
  <2>4. q.commit \in Commits
    BY <2>2, <2>3 DEF Versions
  <2> HIDE DEF q
  <2> QED BY <2>1, <2>4, AcceptHandled
<1>3. CASE StageRollback(r)
  BY <1>3, AcceptHandled DEF StageRollback, Ticketed
<1> QED BY <1>1, <1>2, <1>3

(* A finished release_id is answered from the views.                       *)
LEMMA ReplayHandled ==
    ASSUME Handled, NEW r \in Releases, Replay(r)
    PROVE  RegisterNext /\ Handled'
<1> DEFINE result == view.records[r].status
<1>1. /\ result \in Terminal /\ told' = [told EXCEPT ![r] = result]
      /\ UNCHANGED <<disk, view, blocked, st, pc, rel>>
  BY DEF Replay, transaction
<1>2. \/ Result(disk)[r] = result
      \/ result = "failed" /\ disk.active = r
  BY <1>1 DEF Handled, Viewed
<1>3. Same(disk, disk')
  BY <1>1, SameIsEqual
<1>4. RegisterNext
  <2> HIDE DEF result
  <2> QED BY <1>1, <1>2, <1>3, AnswersAreTold
<1>5. Unanswered'
  <2> SUFFICES ASSUME pc \notin {"idle", "off"}
               PROVE  told'[rel] \notin Sure /\ view.records[rel].status \notin Terminal
    BY <1>1 DEF Unanswered
  <2>1. told[rel] \notin Sure /\ view.records[rel].status \notin Terminal
    BY DEF Handled, Unanswered
  <2>2. r # rel
    BY <1>1, <2>1
  <2> QED BY <1>1, <2>1, <2>2
<1>6. Inside' /\ Unsure' /\ Viewed'
  BY <1>1 DEF Handled, Inside, Unsure, Viewed
<1> QED BY <1>4, <1>5, <1>6 DEF Handled

(* Steps that a client sees nothing of.                                    *)
LEMMA UnseenHandled ==
    ASSUME Handled,
           \/ \E r \in Releases : ReadRollback(r)
           \/ RefuseRollback \/ RefuseBlocked \/ LoadFails \/ UNCHANGED vars
    PROVE  RegisterNext /\ Handled'
<1>1. /\ UNCHANGED <<disk, told>>
      /\ \/ UNCHANGED <<view, blocked, st, pc, rel>>
         \/ pc' = "idle" /\ view' = disk
         \/ pc' = "idle" /\ view' = view /\ blocked'
  BY DEF ReadRollback, RefuseRollback, RefuseBlocked, LoadFails, vars, transaction, rest,
     Idle, Ready
<1>2. RegisterNext
  BY <1>1, SameIsEqual, SameStutters
<1>3. CASE UNCHANGED <<view, blocked, st, pc, rel>>
  BY <1>1, <1>2, <1>3 DEF Handled, Inside, Unsure, Unanswered, Viewed
<1>4. CASE pc' = "idle" /\ view' = disk
  BY <1>1, <1>2, <1>4, ShownIsViewed, AtRest
<1>5. CASE pc' = "idle" /\ view' = view /\ blocked'
  BY <1>1, <1>2, <1>5, ViewStays, AtRest DEF Handled
<1> QED BY <1>1, <1>3, <1>4, <1>5

LEMMA MarkSame ==
    ASSUME NEW s \in TargetState, NEW b
    PROVE  Same([s EXCEPT !.recovery = b], s)
BY DEF Same, Like, SameRequests, Pair, Result, Want, Found, TargetState

LEMMA StartHandled ==
    ASSUME TypeOK, OnePending(disk), Kept, Handled, Start \/ Crash
    PROVE  RegisterNext /\ Handled'
<1>1. disk \in TargetState
  BY DEF TypeOK
<1>2. CASE StartIdle
  <2> DEFINE s == [disk EXCEPT !.recovery = FALSE]
             unverified == [disk EXCEPT !.recovery = TRUE]
  <2>1. Same(s, disk) /\ Same(unverified, disk)
    BY <1>1, MarkSame
  <2>2. /\ disk' \in {disk, s, unverified} /\ view' \in {disk, s, unverified}
        /\ pc' = "idle" /\ told' = told
    BY <1>2 DEF StartIdle, Save
  <2> HIDE DEF s, unverified
  <2>3. Same(disk, disk') /\ Same(view', disk')
    BY <2>1, <2>2, SameIsEqual
  <2>4. RegisterNext
    BY <2>2, <2>3, SameStutters
  <2>5. Viewed'
    <3>1. Result(view') = Result(disk')
      BY <2>3 DEF Same
    <3> QED BY <3>1, ResultIsStatus DEF Viewed
  <2> QED BY <2>2, <2>4, <2>5, AtRest
<1>3. CASE StartWithoutIntent \/ StartWithIntent
  <2>1. /\ disk' = disk /\ view' = disk /\ told' = told
        /\ st' \in {disk, [disk EXCEPT !.recovery = FALSE]}
        /\ rel' = disk.active /\ disk.active \in Releases
        /\ pc' \in {"fail", "test", "restore", "recovery_failed"}
    BY <1>1, <1>3 DEF StartWithoutIntent, StartWithIntent, Recovering, rest, TargetState
  <2>2. Same(st', disk)
    BY <1>1, <2>1, MarkSame, SameIsEqual
  <2>3. RegisterNext
    BY <2>1, SameIsEqual, SameStutters
  <2>4. Result(disk)[disk.active] = "pending"
    BY <2>1 DEF OnePending
  <2>5. Unanswered'
    <3>1. told[disk.active] \notin Sure
      BY <2>1, <2>4 DEF Kept, Sure
    <3>2. disk.records[disk.active].status \notin Terminal
      BY <2>1, <2>4, ResultIsStatus
    <3> QED BY <2>1, <3>1, <3>2 DEF Unanswered
  <2>6. Inside' /\ Unsure'
    BY <2>1, <2>2 DEF Inside, Unsure
  <2> QED BY <2>1, <2>3, <2>5, <2>6, ShownIsViewed DEF Handled
<1>4. CASE Crash
  <2>1. disk' = disk /\ view' = disk /\ told' = told /\ pc' = "off"
    BY <1>4 DEF Crash
  <2> QED BY <2>1, SameIsEqual, SameStutters, ShownIsViewed, AtRest
<1> QED BY <1>2, <1>3, <1>4 DEF Start

LEMMA NextHandled ==
    ASSUME NoCommands, TypeOK, TypeOK', Revisions, ViewIsDurable, Places, Chosen, Uncommanded,
           Ticketed, OnePending(disk), Kept, Handled, [Next]_vars
    PROVE  RegisterNext /\ Handled'
<1>1. CASE Step
  BY <1>1, StepHandled
<1>2. CASE Start \/ Crash
  BY <1>2, StartHandled
<1>3. ASSUME NEW r \in Releases,
             \/ \E c \in Commits, o \in {"apply", "stage"} : Publish(r, c, o)
             \/ \E original \in Releases : RestoreOf(r, original)
             \/ StageRollback(r)
      PROVE  RegisterNext /\ Handled'
  BY <1>3, RequestHandled
<1>4. ASSUME NEW r \in Releases, Replay(r)
      PROVE  RegisterNext /\ Handled'
  BY <1>4, ReplayHandled
<1>5. ASSUME NEW r \in Releases, NEW o \in Commands, Command(r, o)
      PROVE  FALSE
  BY <1>5 DEF Command, NoCommands, Commands
<1>6. ASSUME \/ \E r \in Releases : ReadRollback(r)
             \/ RefuseRollback \/ RefuseBlocked \/ LoadFails \/ UNCHANGED vars
      PROVE  RegisterNext /\ Handled'
  BY <1>6, UnseenHandled
<1> QED BY <1>1, <1>2, <1>3, <1>4, <1>5, <1>6 DEF Next, Commands

-----------------------------------------------------------------------------
(* The invariant, and what follows from it.                                *)

Ordinary == /\ TypeOK /\ Revisions /\ Announced /\ Settled /\ ViewIsDurable /\ Shown
            /\ Uncommanded /\ Chosen /\ Ticketed
            /\ OnePending(disk) /\ Kept /\ Handled

LEMMA InitOrdinary == Init => Ordinary /\ Register!Init
<1> SUFFICES ASSUME Init
             PROVE  Ordinary /\ Register!Init
  OBVIOUS
<1>1. TypeOK /\ Revisions /\ ViewIsDurable /\ Shown
  BY InitTyped DEF Init, NewState, Revisions, Pair, ViewIsDurable, Shown
<1>2. Announced
  BY DEF Init, Announced, Before, During
<1>3. Settled
  BY DEF Init, Settled, Places, Pointed, LatestSettled, Astray, NewState, Early, Forward,
     Backward, Commands
<1>4. \A r \in Releases : disk.records[r] = NoRecord /\ told[r] = "none"
  BY DEF Init, NewState
<1>5. Uncommanded /\ Ticketed /\ Chosen
  BY <1>4 DEF Init, Uncommanded, Commands, Ticketed, Chosen, Wanted, Decided, Forward,
     NoRecord
<1>6. \A r \in Releases : Result(disk)[r] = "none"
  BY <1>4 DEF Result, ResultOnRecord, NoRecord
<1>7. OnePending(disk) /\ Kept
  BY <1>4, <1>6, NoReleaseAssumption DEF OnePending, Kept, Sure, Init, NewState
<1>8. Handled
  <2>1. Viewed
    BY <1>4 DEF Init, Viewed, NoRecord, Terminal
  <2> QED BY <2>1 DEF Init, Handled, Inside, Unsure, Unanswered
<1>9. Register!Init
  BY DEF Init, Register!Init, NewState, NoRecord, NoRequest, ResultOnRecord
<1> QED BY <1>1, <1>2, <1>3, <1>5, <1>7, <1>8, <1>9 DEF Ordinary

LEMMA NextOrdinary ==
    ASSUME NoCommands, Ordinary, [Next]_vars
    PROVE  RegisterNext /\ Ordinary'
<1>1. TypeOK /\ TypeOK' /\ Revisions /\ Announced /\ Settled /\ ViewIsDurable /\ Shown
  BY NextTyped DEF Ordinary
<1>2. Revisions' /\ Announced' /\ Settled' /\ ViewIsDurable' /\ Shown'
  <2>1. Revisions'
    BY <1>1, NextKeepsRevisions
  <2>2. Announced'
    BY <1>1, NextAnnounced
  <2>3. Settled'
    BY <1>1, <2>2, NextSettled
  <2>4. ViewIsDurable' /\ Shown'
    BY <1>1, NextShown
  <2> QED BY <2>1, <2>2, <2>3, <2>4
<1>3. Uncommanded' /\ Chosen' /\ Ticketed'
  BY <1>1, NextUncommanded, NextChosen, NextTicketed DEF Ordinary
<1>4. RegisterNext /\ Handled'
  BY <1>1, NextHandled DEF Ordinary, Settled
<1>5. OnePending(disk') /\ Kept'
  BY <1>4, RegisterKeeps DEF Ordinary, TypeOK
<1> QED BY <1>1, <1>2, <1>3, <1>4, <1>5 DEF Ordinary

(* Releases that are published, staged, restored and rolled back implement *)
(* the register: whatever fails in them, whenever the service dies, and    *)
(* however long it is made to go on, a client sees releases accepted and   *)
(* decided, and nothing else.                                              *)
THEOREM ReleasesImplementRegister == NoCommands => (Spec => ImplementsRegister)
<1> SUFFICES ASSUME NoCommands
             PROVE  Spec => ImplementsRegister
  OBVIOUS
<1>1. Init => Ordinary /\ Register!Init
  BY InitOrdinary
<1>2. Ordinary /\ [Next]_vars => Ordinary' /\ [Register!Next]_(Register!vars)
  BY NextOrdinary DEF RegisterNext
<1> QED BY <1>1, <1>2, PTL DEF Spec, ImplementsRegister, Register!Spec

(* A release on record as unfinished is the active one: none is left       *)
(* running for ever by a failure, a crash or another release.              *)
THEOREM UnfinishedAreActive == NoCommands => (Spec => []UnfinishedIsActive)
<1> SUFFICES ASSUME NoCommands
             PROVE  Spec => []UnfinishedIsActive
  OBVIOUS
<1>1. Init => Ordinary
  BY InitOrdinary
<1>2. Ordinary /\ [Next]_vars => Ordinary'
  BY NextOrdinary
<1>3. Ordinary => UnfinishedIsActive
  BY DEF Ordinary, OnePending, Result, ResultOnRecord, UnfinishedIsActive
<1> QED BY <1>1, <1>2, <1>3, PTL DEF Spec

(* A release answered succeeded or skipped is so on disk and stays so,     *)
(* whatever fails or crashes afterwards, and whoever else is answered.     *)
THEOREM AnswersAreDurable == NoCommands => (Spec => []AnsweredIsDurable)
<1> SUFFICES ASSUME NoCommands
             PROVE  Spec => []AnsweredIsDurable
  OBVIOUS
<1>1. Init => Ordinary
  BY InitOrdinary
<1>2. Ordinary /\ [Next]_vars => Ordinary'
  BY NextOrdinary
<1>3. Ordinary => AnsweredIsDurable
  BY ResultIsStatus DEF Ordinary, Kept, Sure, Terminal, AnsweredIsDurable
<1> QED BY <1>1, <1>2, <1>3, PTL DEF Spec
=============================================================================
