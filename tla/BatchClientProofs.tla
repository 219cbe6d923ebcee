-------------------------- MODULE BatchClientProofs --------------------------
(***************************************************************************)
(* For any number of nodes, and any number of runs, lost or late calls and *)
(* foreign deployments: the batch file knows of every node that may have   *)
(* been reached, nodes are reached in order, a batch called succeeded has  *)
(* reloaded nginx everywhere, and what others deployed is never replaced.  *)
(***************************************************************************)
EXTENDS BatchClient, TLAPS

(* Where the client stands, and with which node.                           *)
AtNode == {"query", "wait", "activate", "returned"}
Placed == /\ pc \in AtNode => at \in Nodes
          /\ stage = "undo" => at <= N
          /\ stage # "undo" => at # 0
          /\ pc = "start" => at = 1 /\ stage # "undo"

Typed == TypeOK /\ Placed

-----------------------------------------------------------------------------
(* Results.  One that is complete says that nothing is left to do, and     *)
(* nothing else is done on the node for its release.                       *)
Sane(r) == /\ r.phase = "complete" => r.status \in {"skipped", "succeeded"}
           /\ r.status = "skipped" => r.phase = "complete"

SaneRecords == \A n \in Nodes : /\ \A k \in Keys : Sane(svc[n].record[k])
                                /\ svc[n].revision # 0

(* A result that the client has of a node's release is no better than what *)
(* the node itself has.                                                    *)
Genuine(n, r) == Sane(r) /\ (Done(r) => Activated(n))

InHand == stage # "undo" =>
              /\ pc \in {"activate", "returned"} => Genuine(at, hand)
              /\ pc = "wait" => Genuine(at, reply.result)
              /\ pc = "returned" /\ hand.status = "succeeded" => Done(hand)

Noticed == InHand /\ \A n \in Nodes : Genuine(n, batch.node[n].result["request"])

-----------------------------------------------------------------------------
(* The batch file.  Before a batch there is nothing in it; a node that is  *)
(* still prepared has no result and nothing to undo; and before the client *)
(* is busy with a release, the file has it.                                *)
Blank == batch.phase = "none" =>
             /\ pc = "down"
             /\ \A n \in Nodes : /\ batch.node[n].phase = "prepared"
                                 /\ batch.node[n].expected["restore_request"] = 0

Prepared == \A n \in Nodes : batch.node[n].phase = "prepared" =>
                /\ batch.node[n].result["request"].status = "none"
                /\ batch.node[n].expected["restore_request"] = 0

Engaged == /\ pc \in {"wait", "activate"} => batch.node[at].phase # "prepared"
           /\ pc = "query" /\ stage = "resolve" => batch.node[at].phase # "prepared"
           /\ pc \in AtNode /\ stage = "undo" =>
                 batch.node[at].expected["restore_request"] # 0

Written == Blank /\ Prepared /\ Engaged /\ WrittenFirst

(* A node the file has sent to, or that the update has come to, has every  *)
(* node before it activated.                                               *)
Before(n) == \A m \in 1..(n - 1) : Activated(m)

Ordered == /\ \A n \in Nodes : batch.node[n].phase # "prepared" => Before(n)
           /\ stage = "update" => Before(at)

(* What others deployed is newer than the revision the batch goes by, and  *)
(* nothing is under way on the node.                                       *)
Foreign == \A n \in Nodes :
    /\ batch.phase # "none" =>
          batch.node[n].expected["request"] \in 1..svc[n].revision
    /\ svc[n].current = "other" =>
          /\ Idle(n)
          /\ batch.phase # "none"
          /\ batch.node[n].expected["request"] # svc[n].revision

IInv == /\ Typed /\ SaneRecords /\ Noticed /\ Written /\ Ordered
        /\ SucceededEverywhere /\ Foreign

-----------------------------------------------------------------------------
(* What an execution on a node takes and gives.                            *)
LEMMA TakenCalls ==
    ASSUME TypeOK, NEW n \in Nodes, NEW call \in Call, Taken(n, call)
    PROVE  /\ pending' \in [Nodes -> [Call -> Nat]]
           /\ \A m \in Nodes, c \in Call : pending'[m][c] > 0 => pending[m][c] > 0
BY DEF TypeOK, Taken

LEMMA AnswersGiven ==
    ASSUME TypeOK, NEW n, NEW call, NEW answer \in Reply, Answered(n, call, answer)
    PROVE  /\ reply' \in Reply
           /\ \/ reply' = reply
              \/ reply' = answer /\ pc = "wait" /\ at = n /\ Key = call.key
BY DEF TypeOK, Answered

LEMMA Replies ==
    /\ Later \in Reply /\ Refusal \in Reply
    /\ \A r \in Result : Answer(r) \in Reply
    /\ NoReply \in Reply /\ NoResult \in Result
BY DEF Later, Refusal, Reply, NoReply, NoResult, Result, Answer, Terminal

Services == [revision : Nat, current : Versions, record : [Keys -> Result]]

(* An answer that is no result says nothing of a release.                  *)
LEMMA NoNews ==
    \A answer \in {Refusal, Later, NoReply} : Sane(answer.result) /\ ~Done(answer.result)
BY DEF Refusal, Later, NoReply, NoResult, Sane, Done

(* The part of the state that nodes change, before and after a step: a     *)
(* call can only disappear, a record that is complete stays, and an answer *)
(* is worth what the record is.                                            *)
NodeOutcome(n) ==
    /\ svc' \in [Nodes -> Services]
    /\ pending' \in [Nodes -> [Call -> Nat]]
    /\ reply' \in Reply
    /\ faults' \in 0..MaxFaults
    /\ \A m \in Nodes, c \in Call : pending'[m][c] > 0 => pending[m][c] > 0
    /\ \A m \in Nodes \ {n} : svc'[m] = svc[m]
    /\ svc'[n].revision >= svc[n].revision
    /\ \A k \in Keys : /\ Sane(svc'[n].record[k])
                       /\ Done(svc[n].record[k]) => Done(svc'[n].record[k])
                       /\ svc'[n].record[k].status # "none" => Reached(n, k)
    /\ \/ reply' = reply
       \/ /\ pc = "wait" /\ at = n /\ Sane(reply'.result)
          /\ Done(reply'.result) => Done(svc'[n].record[Key])

LEMMA ReplayOutcome ==
    ASSUME Typed, SaneRecords, NEW n \in Nodes, NEW key \in Keys, NodeReplay(n, key)
    PROVE  NodeOutcome(n) /\ UNCHANGED svc
<1> DEFINE call == [op |-> "apply", key |-> key]
           record == svc[n].record[key]
<1>1. call \in Call /\ call.key = key
  BY DEF Call, Ops
<1>2. record \in Result /\ Sane(record)
  BY DEF Typed, TypeOK, SaneRecords
<1>3. /\ svc' = svc
      /\ faults' \in 0..MaxFaults
      /\ \/ record.status \in Terminal /\ Executed(n, call, Answer(record))
         \/ \E answer \in {Refusal, Later} : Executed(n, call, answer)
  BY BoundsAssumption DEF NodeReplay, Fault, Typed, TypeOK
<1>4. PICK answer \in {Answer(record), Refusal, Later} : Executed(n, call, answer)
  BY <1>3
<1>5. answer \in Reply
  BY <1>2, Replies
<1>6. /\ pending' \in [Nodes -> [Call -> Nat]]
      /\ \A m \in Nodes, c \in Call : pending'[m][c] > 0 => pending[m][c] > 0
  BY <1>1, <1>4, TakenCalls DEF Executed, Typed
<1>7. /\ reply' \in Reply
      /\ \/ reply' = reply
         \/ reply' = answer /\ pc = "wait" /\ at = n /\ Key = key
  BY <1>1, <1>4, <1>5, AnswersGiven DEF Executed, Typed
<1>8. Sane(answer.result) /\ (Done(answer.result) => Done(record))
  BY <1>2, <1>4, NoNews DEF Answer
<1>9. QED
  BY <1>2, <1>3, <1>6, <1>7, <1>8 DEF NodeOutcome, SaneRecords, Typed, TypeOK, Services, Reached

(* A record that is taken over was not complete, and is not thereby.       *)
LEMMA TakenOverKeeps ==
    ASSUME NEW old \in [Keys -> Result], \A k \in Keys : Sane(old[k]),
           NEW keys \in SUBSET Keys, NEW record \in TakenOver(old, keys)
    PROVE  /\ record \in [Keys -> Result]
           /\ \A k \in Keys : /\ Sane(record[k])
                              /\ Done(record[k]) <=> Done(old[k])
                              /\ record[k].status = "none" <=> old[k].status = "none"
                              /\ record[k].status = "running" <=> old[k].status = "running"
           /\ \A k \in Keys \ keys : record[k] = old[k]
<1>1. CASE record = old
  BY <1>1
<1>2. ASSUME NEW key \in keys, old[key].status = "recovery_required",
             record = [old EXCEPT ![key].status = "failed"]
      PROVE  /\ record \in [Keys -> Result]
             /\ \A k \in Keys : /\ Sane(record[k])
                                /\ Done(record[k]) <=> Done(old[k])
                                /\ record[k].status = "none" <=> old[k].status = "none"
                                /\ record[k].status = "running" <=> old[k].status = "running"
             /\ \A k \in Keys \ keys : record[k] = old[k]
  <2> DEFINE r == [old[key] EXCEPT !.status = "failed"]
  <2>1. key \in Keys /\ old[key] \in Result
    OBVIOUS
  <2>2. r \in Result /\ r.status = "failed" /\ r.phase = old[key].phase
    BY <2>1 DEF Result, Terminal
  <2>3. record = [old EXCEPT ![key] = r]
    BY <1>2
  <2>4. Sane(r) /\ ~Done(r) /\ ~Done(old[key])
    BY <1>2, <2>1, <2>2 DEF Sane, Done
  <2> HIDE DEF r
  <2> QED BY <1>2, <2>1, <2>2, <2>3, <2>4
<1> QED BY <1>1, <1>2 DEF TakenOver

LEMMA AcceptOutcome ==
    ASSUME Typed, SaneRecords, NEW n \in Nodes, NEW key \in Keys, NodeAccept(n, key)
    PROVE  NodeOutcome(n)
<1> DEFINE call == [op |-> "apply", key |-> key]
           record == svc[n].record[key]
<1>1. call \in Call /\ call.key = key
  BY DEF Call, Ops
<1>2. record \in Result /\ Sane(record) /\ faults' = faults
  BY DEF Typed, TypeOK, SaneRecords, NodeAccept
<1>3. CASE Acceptable(n, key)
  <2>1. PICK taken \in TakenOver(svc[n].record, Keys \ {key}) :
           svc' = [svc EXCEPT ![n].record = [taken EXCEPT ![key].status = "running"]]
    BY <1>3 DEF NodeAccept
  <2>2. Taken(n, call) /\ reply' = reply /\ record.status \in {"none", "recovery_required"}
    BY <1>3 DEF NodeAccept
  <2>3. /\ pending' \in [Nodes -> [Call -> Nat]]
        /\ \A m \in Nodes, c \in Call : pending'[m][c] > 0 => pending[m][c] > 0
    BY <1>1, <2>2, TakenCalls DEF Typed
  <2>4. record.phase # "complete" /\ ~Done(record)
    BY <1>2, <2>2 DEF Sane, Done
  <2>5. /\ taken \in [Keys -> Result] /\ taken[key] = record
        /\ \A k \in Keys : /\ Sane(taken[k])
                           /\ Done(taken[k]) <=> Done(svc[n].record[k])
                           /\ taken[k].status = "none" <=> svc[n].record[k].status = "none"
    <3>1. svc[n].record \in [Keys -> Result] /\ \A k \in Keys : Sane(svc[n].record[k])
      BY DEF SaneRecords, Typed, TypeOK
    <3>2. key \in Keys /\ key \notin Keys \ {key} /\ Keys \ {key} \in SUBSET Keys
      OBVIOUS
    <3>3. /\ taken \in [Keys -> Result]
          /\ \A k \in Keys : /\ Sane(taken[k])
                             /\ Done(taken[k]) <=> Done(svc[n].record[k])
                             /\ taken[k].status = "none" <=> svc[n].record[k].status = "none"
          /\ \A k \in Keys \ (Keys \ {key}) : taken[k] = svc[n].record[k]
      BY <2>1, <3>1, <3>2, TakenOverKeeps
    <3>4. QED
      BY <3>2, <3>3
  <2> DEFINE r == [record EXCEPT !.status = "running"]
             node == [svc[n] EXCEPT !.record = [taken EXCEPT ![key] = r]]
  <2>6. r \in Result /\ Sane(r)
    BY <1>2, <2>4 DEF Result, Sane
  <2>7. svc' = [svc EXCEPT ![n] = node]
    BY <2>1, <2>5
  <2>8. svc[n] \in Services
    BY DEF Typed, TypeOK, Services
  <2>9. /\ node \in Services /\ node.revision = svc[n].revision
        /\ node.record = [taken EXCEPT ![key] = r]
    <3> HIDE DEF r
    <3> QED BY <2>5, <2>6, <2>8 DEF Services
  <2> HIDE DEF node, r
  <2>10. /\ svc' \in [Nodes -> Services]
         /\ \A m \in Nodes \ {n} : svc'[m] = svc[m]
         /\ svc'[n] = node
    BY <2>7, <2>9 DEF Typed, TypeOK, Services
  <2>11. \A k \in Keys : /\ Sane(svc'[n].record[k])
                         /\ Done(svc[n].record[k]) => Done(svc'[n].record[k])
                         /\ k # key => (svc'[n].record[k].status # "none" =>
                                          svc[n].record[k].status # "none")
    BY <2>4, <2>5, <2>6, <2>9, <2>10
  <2>12. \A k \in Keys : svc'[n].record[k].status # "none" => Reached(n, k)
    <3>1. pending[n][call] > 0
      BY <2>2 DEF Taken
    <3>2. Reached(n, key)
      BY <3>1 DEF Reached, Ops
    <3>3. QED
      BY <2>11, <3>2 DEF Reached
  <2>13. svc[n].revision \in Nat /\ svc'[n].revision >= svc[n].revision
    BY <2>8, <2>9, <2>10 DEF Services
  <2>14. QED
    BY <1>2, <2>2, <2>3, <2>10, <2>11, <2>12, <2>13 DEF NodeOutcome, Typed, TypeOK
<1>4. CASE ~Acceptable(n, key)
  <2>1. Executed(n, call, Refusal) /\ svc' = svc
    BY <1>4 DEF NodeAccept
  <2>2. /\ pending' \in [Nodes -> [Call -> Nat]]
        /\ \A m \in Nodes, c \in Call : pending'[m][c] > 0 => pending[m][c] > 0
    BY <1>1, <2>1, TakenCalls DEF Typed, Executed
  <2>3. reply' \in Reply /\ (reply' = reply \/ (reply' = Refusal /\ pc = "wait" /\ at = n))
    BY <1>1, <2>1, Replies, AnswersGiven DEF Typed, Executed
  <2>4. QED
    BY <1>2, <2>1, <2>2, <2>3, NoNews DEF NodeOutcome, SaneRecords, Typed, TypeOK, Services, Reached
<1>5. QED
  BY <1>3, <1>4

(* The end of a release and the nginx commands: the record of the release  *)
(* changes, from one that is not complete, and is the answer.              *)
Becomes(n, key, r) ==
    /\ r \in Result /\ Sane(r)
    /\ ~Done(svc[n].record[key]) /\ svc[n].record[key].status # "none"
    /\ \E node \in Services :
          /\ svc' = [svc EXCEPT ![n] = node]
          /\ node.revision >= svc[n].revision
          /\ node.record = [svc[n].record EXCEPT ![key] = r]


LEMMA NewNode ==
    ASSUME NEW n \in Nodes, NEW key \in Keys, NEW r \in Result, Sane(r),
           ~Done(svc[n].record[key]), svc[n].record[key].status # "none",
           NEW node \in Services, node.record = svc[n].record,
           node.revision >= svc[n].revision,
           svc' = [svc EXCEPT ![n] = [node EXCEPT !.record[key] = r]]
    PROVE  Becomes(n, key, r)
<1> DEFINE next == [node EXCEPT !.record[key] = r]
<1>1. /\ next \in Services
      /\ next.revision = node.revision
      /\ next.record = [svc[n].record EXCEPT ![key] = r]
  BY DEF Services
<1>2. svc' = [svc EXCEPT ![n] = next]
  OBVIOUS
<1> HIDE DEF next
<1>3. QED
  BY <1>1, <1>2 DEF Becomes

LEMMA RecordBecomes ==
    ASSUME Typed, SaneRecords, NEW n \in Nodes, NEW call \in Call, NEW r,
           Becomes(n, call.key, r),
           Answered(n, call, Answer(r)),
           pending' \in [Nodes -> [Call -> Nat]],
           \A m \in Nodes, c \in Call : pending'[m][c] > 0 => pending[m][c] > 0,
           faults' \in 0..MaxFaults
    PROVE  NodeOutcome(n)
<1>1. PICK node \in Services :
          /\ svc' = [svc EXCEPT ![n] = node]
          /\ node.revision >= svc[n].revision
          /\ node.record = [svc[n].record EXCEPT ![call.key] = r]
  BY DEF Becomes
<1>2. r \in Result /\ call.key \in Keys
  BY DEF Becomes, Call
<1>3. /\ svc' \in [Nodes -> Services]
      /\ \A m \in Nodes \ {n} : svc'[m] = svc[m]
      /\ svc'[n].revision >= svc[n].revision
      /\ svc'[n].record[call.key] = r
      /\ \A k \in Keys \ {call.key} : svc'[n].record[k] = svc[n].record[k]
  BY <1>1, <1>2 DEF Typed, TypeOK, Services
<1>4. /\ reply' \in Reply
      /\ \/ reply' = reply
         \/ reply' = Answer(r) /\ pc = "wait" /\ at = n /\ Key = call.key
  BY <1>2, Replies, AnswersGiven DEF Typed
<1>5. /\ Sane(r) /\ ~Done(svc[n].record[call.key])
      /\ svc[n].record[call.key].status # "none"
  BY DEF Becomes
<1>6. \A k \in Keys : /\ Sane(svc'[n].record[k])
                      /\ Done(svc[n].record[k]) => Done(svc'[n].record[k])
                      /\ svc'[n].record[k].status # "none" => Reached(n, k)
  BY <1>3, <1>5 DEF SaneRecords, Reached
<1>7. QED
  BY <1>3, <1>4, <1>5, <1>6 DEF NodeOutcome, Answer

LEMMA FinishOutcome ==
    ASSUME Typed, SaneRecords, NEW n \in Nodes, NEW key \in Keys, NodeFinish(n, key)
    PROVE  NodeOutcome(n)
<1> DEFINE call == [op |-> "apply", key |-> key]
           record == svc[n].record[key]
           next == svc[n].revision + 1
<1>1. call \in Call /\ call.key = key
  BY DEF Call, Ops
<1>2. record \in Result /\ Sane(record) /\ record.status = "running"
  BY DEF Typed, TypeOK, SaneRecords, NodeFinish
<1>3. ~Done(record) /\ record.status # "none"
  BY <1>2 DEF Sane, Done
<1>4. /\ pending' = pending
      /\ faults' \in 0..MaxFaults
  BY BoundsAssumption DEF NodeFinish, Fault, Typed, TypeOK
<1>5. /\ Candidate[key] \in Versions /\ svc[n] \in Services
      /\ next \in Nat /\ next >= svc[n].revision /\ svc[n].revision >= svc[n].revision
  BY DEF Candidate, Versions, Keys, Typed, TypeOK, Services
<1>6. \E r \in Result : Becomes(n, key, r) /\ Answered(n, call, Answer(r))
  <2>1. CASE /\ svc' = [svc EXCEPT ![n] = [svc[n] EXCEPT !.record[key] =
                           [status |-> "skipped", phase |-> "complete", after |-> 0]]]
             /\ Answered(n, call, Answer([status |-> "skipped", phase |-> "complete", after |-> 0]))
    <3>1. [status |-> "skipped", phase |-> "complete", after |-> 0] \in Result
      BY DEF Result, Terminal
    <3>2. Sane([status |-> "skipped", phase |-> "complete", after |-> 0])
      BY DEF Sane
    <3>3. Becomes(n, key, [status |-> "skipped", phase |-> "complete", after |-> 0])
      BY <1>3, <1>5, <2>1, <3>1, <3>2, NewNode
    <3>4. QED
      BY <2>1, <3>1, <3>3
  <2>2. CASE \E status \in {"succeeded", "recovery_required"} :
             /\ svc' = [svc EXCEPT ![n] =
                   [[svc[n] EXCEPT !.revision = next, !.current = Candidate[key]]
                       EXCEPT !.record[key] = [status |-> status,
                                phase |-> "latest_switched", after |-> next]]]
             /\ Answered(n, call, Answer([status |-> status,
                                phase |-> "latest_switched", after |-> next]))
    <3>0. PICK status \in {"succeeded", "recovery_required"} :
             /\ svc' = [svc EXCEPT ![n] =
                   [[svc[n] EXCEPT !.revision = next, !.current = Candidate[key]]
                       EXCEPT !.record[key] = [status |-> status,
                                phase |-> "latest_switched", after |-> next]]]
             /\ Answered(n, call, Answer([status |-> status,
                                phase |-> "latest_switched", after |-> next]))
      BY <2>2
    <3>1. [status |-> status, phase |-> "latest_switched", after |-> next] \in Result
      BY <1>5 DEF Result, Terminal
    <3>2. Sane([status |-> status, phase |-> "latest_switched", after |-> next])
      BY DEF Sane
    <3> DEFINE node == [svc[n] EXCEPT !.revision = next, !.current = Candidate[key]]
    <3>3. node \in Services /\ node.record = svc[n].record /\ node.revision >= svc[n].revision
      BY <1>5 DEF Services
    <3>4. Becomes(n, key, [status |-> status, phase |-> "latest_switched", after |-> next])
      BY <1>3, <3>0, <3>1, <3>2, <3>3, NewNode
    <3>5. QED
      BY <3>0, <3>1, <3>4
  <2>3. CASE \E status \in {"failed", "recovery_required"}, revision \in {svc[n].revision, next} :
             /\ svc' = [svc EXCEPT ![n] = [[svc[n] EXCEPT !.revision = revision]
                       EXCEPT !.record[key] = [NoResult EXCEPT !.status = status]]]
             /\ Answered(n, call, Answer([NoResult EXCEPT !.status = status]))
    <3>1. PICK status \in {"failed", "recovery_required"}, revision \in {svc[n].revision, next} :
             /\ svc' = [svc EXCEPT ![n] = [[svc[n] EXCEPT !.revision = revision]
                       EXCEPT !.record[key] = [NoResult EXCEPT !.status = status]]]
             /\ Answered(n, call, Answer([NoResult EXCEPT !.status = status]))
      BY <2>3
    <3>2. [NoResult EXCEPT !.status = status] \in Result
      BY DEF Result, NoResult, Terminal
    <3>3. Sane([NoResult EXCEPT !.status = status])
      BY DEF Sane, NoResult
    <3> DEFINE node == [svc[n] EXCEPT !.revision = revision]
    <3>4. node \in Services /\ node.record = svc[n].record /\ node.revision >= svc[n].revision
      BY <1>5 DEF Services
    <3>5. Becomes(n, key, [NoResult EXCEPT !.status = status])
      BY <1>3, <3>1, <3>2, <3>3, <3>4, NewNode
    <3>6. QED
      BY <3>1, <3>2, <3>5
  <2>4. QED
    BY <2>1, <2>2, <2>3 DEF NodeFinish, Typed, TypeOK
<1>7. PICK r \in Result : Becomes(n, key, r) /\ Answered(n, call, Answer(r))
  BY <1>6
<1>8. QED
  BY <1>1, <1>4, <1>7, RecordBecomes DEF Typed, TypeOK

LEMMA CommandOutcome ==
    ASSUME Typed, SaneRecords, NEW n \in Nodes, NEW call \in Call, NodeCommand(n, call)
    PROVE  NodeOutcome(n)
<1> DEFINE record == svc[n].record[call.key]
           from == IF call.op = "test" THEN "latest_switched" ELSE "nginx_test_succeeded"
           to == IF call.op = "test" THEN "nginx_test_succeeded" ELSE "complete"
           live == /\ record.status \in {"succeeded", "recovery_required"}
                   /\ svc[n].current = Candidate[call.key]
                   /\ Idle(n)
           revision == svc[n].revision + 1
           done == IF to = "complete"
                   THEN [status |-> "succeeded", phase |-> to, after |-> revision]
                   ELSE [record EXCEPT !.status = "succeeded", !.phase = to]
           failed == [NoResult EXCEPT !.status = "failed"]
           Unclear(r) == [r EXCEPT !.status = "recovery_required"]
           base == [svc[n] EXCEPT !.revision = IF to = "complete" THEN revision ELSE @]
           undone == [svc[n] EXCEPT !.revision = revision, !.current = Baseline[call.key]]
<1>1. /\ call.key \in Keys /\ record \in Result /\ Sane(record)
      /\ revision \in Nat /\ svc[n] \in Services
      /\ revision >= svc[n].revision /\ svc[n].revision >= svc[n].revision
      /\ Baseline[call.key] \in Versions
  BY DEF Typed, TypeOK, SaneRecords, Call, Services, Baseline, Keys, Versions
<1>2. faults' \in 0..MaxFaults
  BY BoundsAssumption DEF NodeCommand, Fault, Typed, TypeOK
<1>3. ASSUME NEW answer \in {Answer(record), Refusal}, Executed(n, call, answer), UNCHANGED svc
      PROVE  NodeOutcome(n)
  <2>1. answer \in Reply
    BY <1>1, Replies
  <2>2. /\ pending' \in [Nodes -> [Call -> Nat]]
        /\ \A m \in Nodes, c \in Call : pending'[m][c] > 0 => pending[m][c] > 0
    BY <1>3, TakenCalls DEF Executed, Typed
  <2>3. /\ reply' \in Reply
        /\ \/ reply' = reply
           \/ reply' = answer /\ pc = "wait" /\ at = n /\ Key = call.key
    BY <1>3, <2>1, AnswersGiven DEF Executed, Typed
  <2>4. Sane(answer.result) /\ (Done(answer.result) => Done(record))
    BY <1>1, <1>3, NoNews DEF Answer
  <2>5. QED
    BY <1>1, <1>2, <1>3, <2>2, <2>3, <2>4 DEF NodeOutcome, SaneRecords, Typed, TypeOK, Services, Reached
<1>4. ASSUME NEW r \in Result, Becomes(n, call.key, r), Executed(n, call, Answer(r))
      PROVE  NodeOutcome(n)
  <2>1. /\ pending' \in [Nodes -> [Call -> Nat]]
        /\ \A m \in Nodes, c \in Call : pending'[m][c] > 0 => pending[m][c] > 0
    BY <1>4, TakenCalls DEF Executed, Typed
  <2>2. QED
    BY <1>2, <1>4, <2>1, RecordBecomes DEF Executed
<1>5. ASSUME live, record.phase = from
      PROVE  ~Done(record) /\ from # "complete" /\ record.status # "none"
  BY <1>1, <1>5 DEF Done, Sane
<1>6. CASE /\ live /\ record.phase = from
           /\ svc' = [svc EXCEPT ![n].record[call.key] = done,
                                 ![n].revision = IF to = "complete" THEN revision ELSE @]
           /\ Executed(n, call, Answer(done))
  <2>1. done \in Result /\ Sane(done)
    BY <1>1 DEF Result, Terminal, Sane
  <2>2. base \in Services /\ base.record = svc[n].record /\ base.revision >= svc[n].revision
    BY <1>1 DEF Services
  <2>3. svc' = [svc EXCEPT ![n] = [base EXCEPT !.record[call.key] = done]]
    BY <1>1, <1>6 DEF Services, Typed, TypeOK
  <2> HIDE DEF base, done
  <2>4. Becomes(n, call.key, done)
    BY <1>1, <1>5, <1>6, <2>1, <2>2, <2>3, NewNode
  <2>5. QED
    BY <1>4, <1>6, <2>1, <2>4
<1>7. CASE /\ live /\ record.phase = from
           /\ svc' = [svc EXCEPT ![n].record[call.key] = failed,
                                 ![n].revision = revision,
                                 ![n].current = Baseline[call.key]]
           /\ Executed(n, call, Answer(failed))
  <2>1. failed \in Result /\ Sane(failed)
    BY DEF Result, NoResult, Terminal, Sane
  <2>2. undone \in Services /\ undone.record = svc[n].record /\ undone.revision >= svc[n].revision
    BY <1>1 DEF Services
  <2>3. svc' = [svc EXCEPT ![n] = [undone EXCEPT !.record[call.key] = failed]]
    BY <1>1, <1>7 DEF Services, Typed, TypeOK
  <2> HIDE DEF undone, failed
  <2>4. Becomes(n, call.key, failed)
    BY <1>1, <1>5, <1>7, <2>1, <2>2, <2>3, NewNode
  <2>5. QED
    BY <1>4, <1>7, <2>1, <2>4
<1>8. ASSUME NEW r \in {record, done}, to # "complete" \/ r = record,
             record.status \in {"succeeded", "recovery_required"},
             record.phase # "complete",
             svc' = [svc EXCEPT ![n].record[call.key] = Unclear(r)],
             Executed(n, call, Answer(Unclear(r)))
      PROVE  NodeOutcome(n)
  <2>1. r \in Result /\ r.phase # "complete"
    BY <1>1, <1>8 DEF Result, Terminal
  <2>2. Unclear(r) \in Result /\ Sane(Unclear(r))
    BY <2>1 DEF Result, Sane
  <2>3. svc' = [svc EXCEPT ![n] = [svc[n] EXCEPT !.record[call.key] = Unclear(r)]]
    BY <1>1, <1>8 DEF Services, Typed, TypeOK
  <2>4. ~Done(record) /\ record.status # "none"
    BY <1>8 DEF Done
  <2> HIDE DEF Unclear
  <2>5. Becomes(n, call.key, Unclear(r))
    BY <1>1, <2>2, <2>3, <2>4, NewNode
  <2>6. QED
    BY <1>4, <1>8, <2>2, <2>5
<1>9. CASE /\ live /\ record.phase = from /\ to # "complete"
           /\ svc' = [svc EXCEPT ![n].record[call.key] = Unclear(done)]
           /\ Executed(n, call, Answer(Unclear(done)))
  BY <1>5, <1>8, <1>9
<1>10. CASE /\ record.status \in {"succeeded", "recovery_required"} /\ record.phase # "complete"
            /\ svc' = [svc EXCEPT ![n].record[call.key] = Unclear(record)]
            /\ Executed(n, call, Answer(Unclear(record)))
  BY <1>8, <1>10
<1>11. QED
  BY <1>3, <1>6, <1>7, <1>9, <1>10 DEF NodeCommand

LEMMA StepOutcome ==
    ASSUME Typed, SaneRecords, NEW n \in Nodes, NodeStep(n)
    PROVE  NodeOutcome(n) /\ UNCHANGED <<batch, client, starts, foreign>>
<1>1. NodeOutcome(n)
  BY ReplayOutcome, AcceptOutcome, FinishOutcome, CommandOutcome DEF NodeStep
<1>2. UNCHANGED <<batch, client, starts, foreign>>
  BY DEF NodeStep, NodeReplay, NodeAccept, NodeFinish, NodeCommand
<1>3. QED
  BY <1>1, <1>2

(* What it means for the client: nothing new has been reached, what is     *)
(* activated stays so, and an answer is true.                              *)
LEMMA OutcomeForClient ==
    ASSUME Typed, SaneRecords, Noticed, NEW n \in Nodes, NodeOutcome(n),
           UNCHANGED <<batch, client, starts, foreign>>
    PROVE  /\ Typed' /\ SaneRecords' /\ Noticed'
           /\ \A m \in Nodes : Activated(m) => Activated(m)'
           /\ \A m \in Nodes, k \in Keys : Reached(m, k)' => Reached(m, k)
<1>1. Typed'
  BY DEF NodeOutcome, Typed, TypeOK, Placed, client, Services
<1>2. SaneRecords'
  <2>1. ASSUME NEW m \in Nodes
        PROVE  (\A k \in Keys : Sane(svc'[m].record[k])) /\ svc'[m].revision # 0
    <3>1. CASE m = n
      BY <3>1 DEF NodeOutcome, SaneRecords, Typed, TypeOK, Services
    <3>2. CASE m # n
      BY <2>1, <3>2 DEF NodeOutcome, SaneRecords
    <3>3. QED
      BY <3>1, <3>2
  <2>2. QED
    BY <2>1 DEF SaneRecords
<1>3. \A m \in Nodes : Activated(m) <=> Done(svc[m].record["request"])
  BY DEF Activated, Done
<1>4. \A m \in Nodes : Activated(m)' <=> Done(svc'[m].record["request"])
  BY DEF Activated, Done
<1>5. \A m \in Nodes : Activated(m) => Activated(m)'
  <2>1. \A m \in Nodes : Done(svc[m].record["request"]) => Done(svc'[m].record["request"])
    BY DEF NodeOutcome, Keys
  <2>2. QED
    BY <1>3, <1>4, <2>1
<1>6. \A m \in Nodes, k \in Keys : Reached(m, k)' => Reached(m, k)
  <2>1. ASSUME NEW m \in Nodes, NEW k \in Keys, svc'[m].record[k].status # "none"
        PROVE  Reached(m, k)
    <3>1. CASE m = n
      BY <2>1, <3>1 DEF NodeOutcome
    <3>2. CASE m # n
      BY <2>1, <3>2 DEF NodeOutcome, Reached
    <3>3. QED
      BY <3>1, <3>2
  <2>2. ASSUME NEW m \in Nodes, NEW k \in Keys, NEW op \in Ops,
               pending'[m][[op |-> op, key |-> k]] > 0
        PROVE  Reached(m, k)
    BY <2>2 DEF NodeOutcome, Reached, Call
  <2>3. QED
    BY <2>1, <2>2 DEF Reached
<1>7. Noticed'
  <2>1. \A m \in Nodes : Genuine(m, batch.node[m].result["request"])'
    BY <1>5 DEF Noticed, Genuine, client
  <2>2. ASSUME stage # "undo", pc \in {"activate", "returned"}
        PROVE  Genuine(at, hand)'
    BY <1>5, <2>2 DEF Noticed, InHand, Genuine, client, Typed, Placed, AtNode
  <2>3. ASSUME stage # "undo", pc = "wait"
        PROVE  Genuine(at, reply.result)'
    <3>1. at \in Nodes /\ Key = "request" /\ at' = at
      BY <2>3 DEF Typed, Placed, AtNode, Key, client
    <3>2. CASE reply' = reply
      BY <1>5, <2>3, <3>1, <3>2 DEF Noticed, InHand, Genuine
    <3>3. CASE reply' # reply
      BY <1>4, <2>3, <3>1, <3>3 DEF NodeOutcome, Genuine
    <3>4. QED
      BY <3>2, <3>3
  <2>4. QED
    BY <2>1, <2>2, <2>3 DEF Noticed, InHand, client
<1>8. QED
  BY <1>1, <1>2, <1>5, <1>6, <1>7

-----------------------------------------------------------------------------
(* What the client writes into the batch file about the node at hand.      *)
EntryPhases == {"prepared", "sending", "unknown", "rejected", "answered",
                "recovery_required"}

Entered(ph, r) ==
    \/ Noted(ph)
    \/ NotedResult(ph, r)
    \/ /\ ph = batch.node[at].phase
       /\ batch' = [batch EXCEPT !.node[at].result[Key] = r]

LEMMA EntryMade ==
    ASSUME Typed, at \in Nodes, NEW ph \in EntryPhases, NEW r \in Result, Entered(ph, r)
    PROVE  /\ batch' \in Batch /\ batch'.phase = batch.phase
           /\ \A n \in Nodes \ {at} : batch'.node[n] = batch.node[n]
           /\ batch'.node[at].expected = batch.node[at].expected
           /\ batch'.node[at].phase = ph
           /\ \A k \in Keys : \/ batch'.node[at].result[k] = batch.node[at].result[k]
                              \/ k = Key /\ batch'.node[at].result[k] = r
<1>1. Key \in Keys
  BY DEF Key, Keys
<1>2. batch \in Batch /\ batch.node[at] \in Entry
  BY DEF Typed, TypeOK, Batch
<1>3. PICK entry \in Entry :
        /\ batch' = [batch EXCEPT !.node[at] = entry]
        /\ entry.expected = batch.node[at].expected
        /\ entry.phase = ph
        /\ \/ entry.result = batch.node[at].result
           \/ entry.result = [batch.node[at].result EXCEPT ![Key] = r]
  <2>1. CASE Noted(ph)
    <3> DEFINE entry == [batch.node[at] EXCEPT !.phase = ph]
    <3>1. /\ entry \in Entry /\ entry.expected = batch.node[at].expected
          /\ entry.phase = ph /\ entry.result = batch.node[at].result
      BY <1>2 DEF Entry, EntryPhases
    <3>2. batch' = [batch EXCEPT !.node[at] = entry]
      BY <2>1 DEF Noted
    <3> HIDE DEF entry
    <3>3. QED
      BY <3>1, <3>2
  <2>2. CASE NotedResult(ph, r)
    <3> DEFINE entry == [batch.node[at] EXCEPT !.phase = ph, !.result[Key] = r]
    <3>1. /\ entry \in Entry /\ entry.expected = batch.node[at].expected
          /\ entry.phase = ph
          /\ entry.result = [batch.node[at].result EXCEPT ![Key] = r]
      BY <1>1, <1>2 DEF Entry, EntryPhases
    <3> DEFINE once == [batch EXCEPT !.node[at].phase = ph]
    <3>2. batch' = [once EXCEPT !.node[at].result[Key] = r]
      BY <2>2 DEF NotedResult
    <3>3. once.node[at] = [batch.node[at] EXCEPT !.phase = ph]
      BY <1>2 DEF Batch
    <3>4. batch' = [batch EXCEPT !.node[at] = entry]
      BY <1>1, <1>2, <3>2, <3>3 DEF Batch, Entry
    <3> HIDE DEF entry
    <3>5. QED
      BY <3>1, <3>4
  <2>3. CASE /\ ph = batch.node[at].phase
             /\ batch' = [batch EXCEPT !.node[at].result[Key] = r]
    <3> DEFINE entry == [batch.node[at] EXCEPT !.result[Key] = r]
    <3>1. /\ entry \in Entry /\ entry.expected = batch.node[at].expected
          /\ entry.phase = ph
          /\ entry.result = [batch.node[at].result EXCEPT ![Key] = r]
      BY <1>1, <1>2, <2>3 DEF Entry, EntryPhases
    <3>2. batch' = [batch EXCEPT !.node[at] = entry]
      BY <2>3
    <3> HIDE DEF entry
    <3>3. QED
      BY <3>1, <3>2
  <2>4. QED
    BY <2>1, <2>2, <2>3 DEF Entered
<1>4. batch' \in Batch /\ batch'.phase = batch.phase
  BY <1>2, <1>3 DEF Batch
<1>5. /\ \A n \in Nodes \ {at} : batch'.node[n] = batch.node[n]
      /\ batch'.node[at] = entry
  BY <1>2, <1>3 DEF Batch
<1>6. QED
  BY <1>1, <1>2, <1>3, <1>4, <1>5 DEF Entry

(* The client is busy with a node only when those before it are done.      *)
Busy == pc \in {"query", "wait", "activate"}

LEMMA BeforeBusy ==
    ASSUME IInv, Busy
    PROVE  /\ at \in Nodes /\ Before(at)
           /\ stage \in {"update", "resolve", "undo"}
<1>1. at \in Nodes /\ stage \in {"update", "resolve", "undo"}
  BY DEF IInv, Typed, TypeOK, Placed, Busy, AtNode
<1>2. stage # "update" => batch.node[at].phase # "prepared"
  BY <1>1 DEF IInv, Written, Engaged, Prepared, Busy, AtNode
<1>3. QED
  BY <1>1, <1>2 DEF IInv, Ordered

(* An entry made while it is busy keeps what the file says of the batch.   *)
FileOK == /\ batch \in Batch
          /\ Blank /\ Prepared
          /\ \A n \in Nodes : Genuine(n, batch.node[n].result["request"])
          /\ \A n \in Nodes : batch.node[n].phase # "prepared" => Before(n)
          /\ SucceededEverywhere /\ Foreign

LEMMA EntryKeepsFile ==
    ASSUME IInv, Busy, NEW ph \in EntryPhases \ {"prepared"}, NEW r \in Result,
           Entered(ph, r), stage # "undo" => Genuine(at, r), UNCHANGED svc
    PROVE  /\ FileOK'
           /\ batch'.node[at].phase # "prepared"
           /\ \A n \in Nodes : /\ batch.node[n].phase # "prepared" => batch'.node[n].phase # "prepared"
                               /\ batch'.node[n].expected = batch.node[n].expected
<1>1. at \in Nodes /\ Before(at)
  BY BeforeBusy
<1>2. /\ batch' \in Batch /\ batch'.phase = batch.phase
      /\ \A n \in Nodes \ {at} : batch'.node[n] = batch.node[n]
      /\ batch'.node[at].expected = batch.node[at].expected
      /\ batch'.node[at].phase = ph
      /\ \A k \in Keys : \/ batch'.node[at].result[k] = batch.node[at].result[k]
                         \/ k = Key /\ batch'.node[at].result[k] = r
  BY <1>1, EntryMade DEF IInv
<1>3. \A n \in Nodes : Before(n) <=> Before(n)'
  BY DEF Before, Activated
<1>4. Blank'
  BY <1>2 DEF Blank, IInv, Written, Busy
<1>5. Prepared'
  BY <1>2 DEF Prepared, IInv, Written
<1>6. \A n \in Nodes : Genuine(n, batch.node[n].result["request"])'
  <2>1. \A n \in Nodes : Activated(n)' = Activated(n)
    BY DEF Activated
  <2>2. \A n \in Nodes \ {at} : Genuine(n, batch.node[n].result["request"])'
    BY <1>2, <2>1 DEF IInv, Noticed, Genuine
  <2>3. Genuine(at, batch.node[at].result["request"])
    BY <1>1 DEF IInv, Noticed
  <2>4. Key = "request" => stage # "undo"
    BY DEF Key
  <2>5. batch'.node[at].result["request"] = batch.node[at].result["request"]
        \/ (stage # "undo" /\ batch'.node[at].result["request"] = r)
    BY <1>2, <2>4 DEF Keys
  <2>6. Sane(batch'.node[at].result["request"]) /\ (Done(batch'.node[at].result["request"]) => Activated(at))
    BY <2>3, <2>5 DEF Genuine
  <2>7. ASSUME NEW n \in Nodes PROVE Genuine(n, batch.node[n].result["request"])'
    BY <1>1, <2>1, <2>2, <2>6 DEF Genuine
  <2>8. QED
    BY <2>7
<1>7. \A n \in Nodes : (batch.node[n].phase # "prepared" => Before(n))'
  BY <1>1, <1>2, <1>3 DEF IInv, Ordered
<1>8. SucceededEverywhere'
  BY <1>2 DEF IInv, SucceededEverywhere, Activated
<1>9. Foreign'
  BY <1>2 DEF IInv, Foreign, Idle
<1>10. QED
  BY <1>2, <1>4, <1>5, <1>6, <1>7, <1>8, <1>9 DEF FileOK

-----------------------------------------------------------------------------
(* The ways in which a step of the client ends.  The file may have grown,  *)
(* and is still good.                                                      *)
Grown == \A n \in Nodes :
    /\ batch.node[n].phase # "prepared" => batch'.node[n].phase # "prepared"
    /\ batch.node[n].expected["restore_request"] # 0 =>
          batch'.node[n].expected["restore_request"] # 0

LEMMA BatchIsOpen ==
    ASSUME IInv, pc # "down"
    PROVE  batch.phase # "none"
BY DEF IInv, Written, Blank

LEMMA SameFile ==
    ASSUME IInv, batch.phase # "none", UNCHANGED <<batch, svc>>
    PROVE  FileOK' /\ Grown
<1>1. Blank' /\ batch' \in Batch
  BY DEF Blank, IInv, Typed, TypeOK
<1>2. Prepared'
  BY DEF IInv, Written, Prepared
<1>3. \A n \in Nodes : Genuine(n, batch.node[n].result["request"])'
  BY DEF IInv, Noticed, Genuine, Activated
<1>4. \A n \in Nodes : (batch.node[n].phase # "prepared" => Before(n))'
  BY DEF IInv, Ordered, Before, Activated
<1>5. SucceededEverywhere' /\ Foreign'
  BY DEF IInv, SucceededEverywhere, Activated, Foreign, Idle
<1>6. QED
  BY <1>1, <1>2, <1>3, <1>4, <1>5 DEF FileOK, Grown

(* The batch as a whole enters another phase.                              *)
LEMMA PhaseEntered ==
    ASSUME IInv, UNCHANGED svc,
           NEW phase \in {"applying", "incomplete", "succeeded", "restoring", "restored"},
           batch' = [batch EXCEPT !.phase = phase],
           phase = "succeeded" => \A n \in Nodes : Activated(n),
           batch.phase # "none"
    PROVE  FileOK' /\ Grown
<1>1. batch' \in Batch /\ batch'.phase = phase /\ batch'.node = batch.node
  BY DEF IInv, Typed, TypeOK, Batch
<1>2. Blank' /\ Prepared'
  BY <1>1 DEF Blank, IInv, Written, Prepared
<1>3. \A n \in Nodes : Genuine(n, batch.node[n].result["request"])'
  BY <1>1 DEF IInv, Noticed, Genuine, Activated
<1>4. \A n \in Nodes : (batch.node[n].phase # "prepared" => Before(n))'
  BY <1>1 DEF IInv, Ordered, Before, Activated
<1>5. SucceededEverywhere' /\ Foreign'
  BY <1>1 DEF IInv, SucceededEverywhere, Activated, Foreign, Idle
<1>6. QED
  BY <1>1, <1>2, <1>3, <1>4, <1>5 DEF FileOK, Grown

(* Nothing is sent: what has been reached is in the file as before.        *)
LEMMA NothingSent ==
    ASSUME IInv, Grown, UNCHANGED <<svc, pending>>
    PROVE  WrittenFirst' /\ SaneRecords'
<1>1. WrittenFirst'
  BY DEF IInv, Written, WrittenFirst, Reached, Grown
<1>2. SaneRecords'
  BY DEF IInv, SaneRecords
<1>3. QED
  BY <1>1, <1>2

LEMMA GoesTo ==
    ASSUME IInv, FileOK', Grown, hand' \in Result,
           NEW where \in {"loop", "query", "activate", "returned", "failed"}, GoTo(where),
           where \in AtNode => at \in Nodes,
           where = "query" /\ stage = "resolve" => batch'.node[at].phase # "prepared",
           where = "activate" => batch'.node[at].phase # "prepared",
           where \in AtNode /\ stage = "undo" =>
               batch'.node[at].expected["restore_request"] # 0,
           where \in {"activate", "returned"} /\ stage # "undo" => Genuine(at, hand'),
           where = "returned" /\ stage # "undo" /\ hand'.status = "succeeded" => Done(hand')
    PROVE  IInv'
<1>1. /\ pc' = where /\ waiting' = "none" /\ reply' = NoReply
      /\ UNCHANGED <<at, stage, sent, svc, pending, starts, faults, foreign>>
  BY DEF GoTo, Quiet
<1>2. Typed'
  BY <1>1, Replies DEF IInv, Typed, TypeOK, Placed, FileOK, AtNode
<1>3. WrittenFirst' /\ SaneRecords'
  BY <1>1, NothingSent
<1>4. Engaged'
  BY <1>1 DEF Engaged, AtNode
<1>5. InHand'
  BY <1>1 DEF InHand, Genuine, Activated
<1>6. (stage = "update" => Before(at))'
  BY <1>1 DEF IInv, Ordered, Before, Activated
<1>7. QED
  BY <1>2, <1>3, <1>4, <1>5, <1>6 DEF IInv, FileOK, Noticed, Written, Ordered

LEMMA Sends ==
    ASSUME IInv, Busy, FileOK', Grown, hand' \in Result, sent' \in BOOLEAN,
           NEW op \in Ops, Send(op),
           batch'.node[at].phase # "prepared"
    PROVE  IInv'
<1>1. /\ pc' = "wait" /\ waiting' = op /\ reply' = NoReply
      /\ UNCHANGED <<at, stage, svc, starts, faults, foreign>>
  BY DEF Send
<1>2. at \in Nodes /\ Key \in Keys
  BY BeforeBusy DEF Key, Keys
<1> DEFINE call == [op |-> op, key |-> Key]
<1>3. /\ call \in Call
      /\ pending' \in [Nodes -> [Call -> Nat]]
      /\ \A n \in Nodes, c \in Call : pending'[n][c] > 0 => pending[n][c] > 0 \/ (n = at /\ c = call)
  <2>1. call \in Call
    BY <1>2 DEF Call
  <2>2. /\ pending \in [Nodes -> [Call -> Nat]]
        /\ pending' = [pending EXCEPT ![at][call] = @ + 1]
    BY DEF Send, IInv, Typed, TypeOK
  <2> HIDE DEF call
  <2>3. QED
    BY <1>2, <2>1, <2>2
<1>4. Typed'
  BY <1>1, <1>2, <1>3, Replies DEF IInv, Typed, TypeOK, Placed, FileOK, AtNode
<1>5. stage = "undo" => batch'.node[at].expected["restore_request"] # 0
  BY <1>2 DEF IInv, Written, Engaged, Busy, AtNode, Grown
<1>6. WrittenFirst'
  <2>1. ASSUME NEW n \in Nodes, Reached(n, "request")'
        PROVE  batch'.node[n].phase # "prepared"
    <3>1. Reached(n, "request") \/ n = at
      BY <1>1, <1>3, <2>1 DEF Reached, Call, Keys
    <3>2. QED
      BY <3>1 DEF IInv, Written, WrittenFirst, Grown
  <2>2. ASSUME NEW n \in Nodes, Reached(n, "restore_request")'
        PROVE  batch'.node[n].expected["restore_request"] # 0
    <3>1. Reached(n, "restore_request") \/ (n = at /\ Key = "restore_request")
      BY <1>1, <1>3, <2>2 DEF Reached, Call, Keys
    <3>2. Key = "restore_request" => stage = "undo"
      BY DEF Key
    <3>3. QED
      BY <1>5, <3>1, <3>2 DEF IInv, Written, WrittenFirst, Grown
  <2>3. QED
    BY <2>1, <2>2 DEF WrittenFirst
<1>7. SaneRecords'
  BY <1>1 DEF IInv, SaneRecords
<1>8. Engaged'
  BY <1>1, <1>5 DEF Engaged, AtNode
<1>9. InHand'
  BY <1>1, NoNews DEF InHand, Genuine
<1>10. (stage = "update" => Before(at))'
  BY <1>1 DEF IInv, Ordered, Before, Activated
<1>11. QED
  BY <1>4, <1>6, <1>7, <1>8, <1>9, <1>10 DEF IInv, FileOK, Noticed, Written, Ordered

LEMMA GoesToNode ==
    ASSUME IInv, FileOK', Grown, NEW n \in 0..(N + 1), ToNode(n),
           stage = "undo" => n <= N,
           stage # "undo" => n # 0,
           stage = "update" => Before(n)
    PROVE  IInv'
<1>1. /\ at' = n /\ pc' = "loop" /\ sent' = FALSE /\ hand' = NoResult
      /\ UNCHANGED <<stage, waiting, reply, svc, pending, starts, faults, foreign>>
  BY DEF ToNode, Quiet
<1>2. Typed'
  BY <1>1, Replies DEF IInv, Typed, TypeOK, Placed, FileOK, AtNode
<1>3. WrittenFirst' /\ SaneRecords'
  BY <1>1, NothingSent
<1>4. Engaged' /\ InHand'
  BY <1>1 DEF Engaged, InHand, AtNode
<1>5. (stage = "update" => Before(at))'
  BY <1>1 DEF Before, Activated
<1>6. QED
  BY <1>2, <1>3, <1>4, <1>5 DEF IInv, FileOK, Noticed, Written, Ordered

LEMMA RunEnds ==
    ASSUME IInv, FileOK', Grown, Ended
    PROVE  IInv'
<1>1. /\ pc' = "down" /\ at' = 1 /\ stage' = "update"
      /\ sent' = FALSE /\ waiting' = "none" /\ hand' = NoResult /\ reply' = NoReply
      /\ UNCHANGED <<svc, pending, starts, faults, foreign>>
  BY DEF Ended
<1>2. Typed'
  <2>1. 1 \in 0..(N + 1) /\ batch' \in Batch
    BY NAssumption DEF FileOK
  <2>2. TypeOK'
    BY <1>1, <2>1, Replies DEF IInv, Typed, TypeOK
  <2>3. Placed'
    BY <1>1 DEF Placed, AtNode
  <2>4. QED
    BY <2>2, <2>3 DEF Typed
<1>3. WrittenFirst' /\ SaneRecords'
  BY <1>1, NothingSent
<1>4. Engaged' /\ InHand'
  BY <1>1 DEF Engaged, InHand, AtNode
<1>5. (stage = "update" => Before(at))'
  BY <1>1 DEF Before
<1>6. QED
  BY <1>2, <1>3, <1>4, <1>5 DEF IInv, FileOK, Noticed, Written, Ordered

-----------------------------------------------------------------------------
(* The runs of the client, and the loops over the nodes.                   *)
LEMMA PreflightKeeps ==
    ASSUME IInv, Preflight
    PROVE  IInv'
<1>1. /\ batch.phase = "none" /\ batch'.phase = "prepared"
      /\ batch' = [phase |-> "prepared",
                   node |-> [n \in Nodes |-> NewEntry(svc[n].revision)]]
      /\ stage' = "update" /\ at' = 1 /\ pc' = "start"
      /\ UNCHANGED <<svc, pending, sent, waiting, hand, reply, faults, foreign>>
      /\ starts < MaxStarts /\ starts' = starts + 1
  BY DEF Preflight, Started
<1>2. \A n \in Nodes : /\ batch'.node[n].phase = "prepared"
                       /\ batch'.node[n].result["request"] = NoResult
                       /\ batch'.node[n].expected["request"] = svc[n].revision
                       /\ batch'.node[n].expected["restore_request"] = 0
                       /\ batch'.node[n] \in Entry
  BY <1>1, Replies DEF NewEntry, Entry, Keys, IInv, Typed, TypeOK
<1>3. batch' \in Batch /\ 1 \in 0..(N + 1)
  BY <1>1, <1>2, NAssumption DEF Batch
<1>4. starts' \in 0..MaxStarts
  BY <1>1, BoundsAssumption DEF IInv, Typed, TypeOK
<1>5. TypeOK'
  BY <1>1, <1>3, <1>4 DEF IInv, Typed, TypeOK
<1>6. Typed'
  BY <1>1, <1>5 DEF Typed, Placed, AtNode
<1>7. SaneRecords'
  BY <1>1 DEF IInv, SaneRecords
<1>8. Noticed'
  BY <1>1, <1>2 DEF Noticed, InHand, Genuine, Sane, Done, NoResult
<1>9. \A n \in Nodes, k \in Keys : ~Reached(n, k)
  BY <1>1 DEF IInv, Written, Blank, WrittenFirst, Keys
<1>10. WrittenFirst'
  BY <1>1, <1>9 DEF WrittenFirst, Reached, Keys
<1>11. Blank' /\ Prepared' /\ Engaged'
  BY <1>1, <1>2 DEF Blank, Prepared, Engaged, NoResult, AtNode
<1>12. Ordered'
  BY <1>1, <1>2 DEF Ordered, Before
<1>13. SucceededEverywhere'
  BY <1>1 DEF SucceededEverywhere
<1>14. Foreign'
  <2>1. \A n \in Nodes : svc[n].revision \in 1..svc[n].revision
    BY DEF IInv, SaneRecords, Typed, TypeOK
  <2>2. \A n \in Nodes : svc[n].current # "other"
    BY <1>1 DEF IInv, Foreign
  <2>3. QED
    BY <1>1, <1>2, <2>1, <2>2 DEF Foreign
<1>15. QED
  BY <1>6, <1>7, <1>8, <1>10, <1>11, <1>12, <1>13, <1>14 DEF IInv, Written

LEMMA NextRunKeeps ==
    ASSUME IInv, Resume \/ Rollback
    PROVE  IInv'
<1>1. /\ batch.phase # "none" /\ batch' = batch
      /\ stage' \in {"update", "resolve"} /\ at' = 1 /\ pc' = "start"
      /\ UNCHANGED <<svc, pending, sent, waiting, hand, reply, faults, foreign>>
      /\ starts < MaxStarts /\ starts' = starts + 1
  BY DEF Resume, Rollback, Started
<1>2. FileOK' /\ Grown
  BY <1>1, SameFile
<1>3. Typed'
  <2>1. 1 \in 0..(N + 1)
    BY NAssumption
  <2>2. starts' \in 0..MaxStarts
    BY <1>1, BoundsAssumption DEF IInv, Typed, TypeOK
  <2>3. TypeOK'
    BY <1>1, <2>1, <2>2 DEF IInv, Typed, TypeOK
  <2>4. QED
    BY <1>1, <2>3 DEF Typed, Placed, AtNode
<1>4. WrittenFirst' /\ SaneRecords'
  BY <1>1, <1>2, NothingSent
<1>5. Engaged' /\ InHand'
  BY <1>1 DEF Engaged, InHand, AtNode
<1>6. (stage = "update" => Before(at))'
  BY <1>1 DEF Before
<1>7. QED
  BY <1>2, <1>3, <1>4, <1>5, <1>6 DEF IInv, FileOK, Noticed, Written, Ordered

LEMMA CrashKeeps ==
    ASSUME IInv, Crash
    PROVE  IInv'
<1>1. /\ Ended /\ batch' = batch /\ svc' = svc /\ pc # "down"
  BY DEF Crash, Ended
<1>2. QED
  BY <1>1, BatchIsOpen, SameFile, RunEnds

LEMMA BeginKeeps ==
    ASSUME IInv, Begin
    PROVE  IInv'
<1> DEFINE phase == IF stage = "update" THEN "applying" ELSE "restoring"
<1>1. /\ batch' = [batch EXCEPT !.phase = phase] /\ GoTo("loop")
      /\ hand' = hand /\ svc' = svc /\ pc # "down"
  BY DEF Begin, Keeping, GoTo, Quiet
<1>2. FileOK' /\ Grown
  BY <1>1, BatchIsOpen, PhaseEntered
<1>3. hand' \in Result
  BY <1>1 DEF IInv, Typed, TypeOK
<1>4. QED
  BY <1>1, <1>2, <1>3, GoesTo DEF AtNode

(* A release whose result is done is not looked at again.                  *)
LEMMA EnterKeeps ==
    ASSUME IInv, Enter, at \in Nodes, pc = "loop", UNCHANGED batch,
           stage = "resolve" => batch.node[at].phase # "prepared",
           stage = "undo" => batch.node[at].expected["restore_request"] # 0
    PROVE  IInv'
<1>1. svc' = svc
  BY DEF Enter, GoTo, Quiet
<1>2. FileOK' /\ Grown
  BY <1>1, BatchIsOpen, SameFile
<1>3. batch.node[at].result[Key] \in Result /\ hand \in Result
  BY DEF IInv, Typed, TypeOK, Batch, Entry, Key, Keys
<1>4. CASE Done(batch.node[at].result[Key]) /\ GoTo("returned") /\ Holding(batch.node[at].result[Key])
  <2>1. stage # "undo" => Genuine(at, batch.node[at].result[Key])
    BY DEF IInv, Noticed, Key
  <2>2. hand' = batch.node[at].result[Key]
    BY <1>4 DEF Holding
  <2>3. stage # "undo" => Genuine(at, hand')
    BY <2>1, <2>2
  <2>4. Done(hand')
    BY <1>4, <2>2
  <2>5. hand' \in Result
    BY <1>3, <2>2
  <2>6. QED
    BY <1>2, <1>4, <2>3, <2>4, <2>5, GoesTo
<1>5. CASE GoTo("query") /\ Keeping
  <2>1. hand' \in Result
    BY <1>3, <1>5 DEF Keeping
  <2>2. QED
    BY <1>2, <1>5, <2>1, GoesTo
<1>6. QED
  BY <1>4, <1>5 DEF Enter

LEMMA UpdateNodeKeeps ==
    ASSUME IInv, UpdateNode
    PROVE  IInv'
<1>1. pc = "loop" /\ stage = "update" /\ batch.phase # "none"
  BY BatchIsOpen DEF UpdateNode
<1>2. CASE at \in Nodes /\ Enter /\ UNCHANGED batch
  BY <1>1, <1>2, EnterKeeps
<1>3. CASE at > N /\ Over("succeeded")
  <2>1. \A n \in Nodes : n \in 1..(at - 1)
    BY <1>3, NAssumption DEF Nodes, IInv, Typed, TypeOK
  <2>2. \A n \in Nodes : Activated(n)
    BY <1>1, <2>1 DEF IInv, Ordered, Before
  <2>3. Ended /\ svc' = svc /\ batch' = [batch EXCEPT !.phase = "succeeded"]
    BY <1>3 DEF Over, Ended
  <2>4. QED
    BY <1>1, <2>2, <2>3, PhaseEntered, RunEnds
<1>4. QED
  BY <1>2, <1>3 DEF UpdateNode

LEMMA ResolveNodeKeeps ==
    ASSUME IInv, ResolveNode
    PROVE  IInv'
<1>1. /\ pc = "loop" /\ stage = "resolve" /\ batch.phase # "none"
      /\ UNCHANGED <<batch, svc>> /\ hand \in Result
  BY BatchIsOpen DEF ResolveNode, Enter, GoTo, Quiet, ToNode, IInv, Typed, TypeOK
<1>2. FileOK' /\ Grown
  BY <1>1, SameFile
<1>3. CASE at \in Nodes /\ ~Settled(batch.node[at]) /\ Enter
  BY <1>1, <1>3, EnterKeeps DEF Settled
<1>4. CASE at \in Nodes /\ ToNode(at + 1)
  <2>1. at + 1 \in 0..(N + 1) /\ at + 1 # 0
    BY <1>4, NAssumption DEF Nodes
  <2>2. QED
    BY <1>1, <1>2, <1>4, <2>1, GoesToNode
<1>5. CASE /\ at > N /\ stage' = "undo" /\ at' = N
           /\ UNCHANGED <<pc, sent, waiting, hand, reply>> /\ Quiet
  <2>1. Typed'
    <3>1. N \in 0..(N + 1) /\ N <= N
      BY NAssumption
    <3>2. TypeOK'
      BY <1>1, <1>5, <3>1 DEF IInv, Typed, TypeOK, Quiet
    <3>3. Placed'
      BY <1>1, <1>5, <3>1 DEF Placed, AtNode
    <3>4. QED
      BY <3>2, <3>3 DEF Typed
  <2>2. WrittenFirst' /\ SaneRecords'
    BY <1>2, <1>5, NothingSent DEF Quiet
  <2>3. Engaged' /\ InHand' /\ stage' # "update"
    BY <1>1, <1>5 DEF Engaged, InHand, AtNode
  <2>4. QED
    BY <1>2, <2>1, <2>2, <2>3 DEF IInv, FileOK, Noticed, Written, Ordered
<1>6. QED
  BY <1>3, <1>4, <1>5 DEF ResolveNode

(* What is to be undone is written down before it is asked for.            *)
LEMMA UndoNoted ==
    ASSUME IInv, pc = "loop", stage = "undo", at \in Nodes, UNCHANGED svc,
           batch.node[at].result["request"].status = "succeeded",
           svc[at].revision = batch.node[at].result["request"].after,
           batch' = [batch EXCEPT !.node[at].expected["restore_request"] =
                        batch.node[at].result["request"].after]
    PROVE  FileOK' /\ Grown
<1> DEFINE after == batch.node[at].result["request"].after
           entry == [batch.node[at] EXCEPT !.expected["restore_request"] = after]
<1>1. batch \in Batch /\ batch.node[at] \in Entry /\ after \in Nat /\ after # 0
  BY DEF IInv, Typed, TypeOK, Batch, Entry, Keys, Result, SaneRecords
<1>2. /\ entry \in Entry
      /\ entry.phase = batch.node[at].phase /\ entry.result = batch.node[at].result
      /\ entry.expected["request"] = batch.node[at].expected["request"]
      /\ entry.expected["restore_request"] = after
  BY <1>1 DEF Entry, Keys
<1>3. batch' = [batch EXCEPT !.node[at] = entry]
  OBVIOUS
<1> HIDE DEF entry
<1>4. /\ batch' \in Batch /\ batch'.phase = batch.phase
      /\ \A n \in Nodes \ {at} : batch'.node[n] = batch.node[n]
      /\ batch'.node[at] = entry
  BY <1>1, <1>2, <1>3 DEF Batch
<1>5. batch.node[at].phase # "prepared"
  BY DEF IInv, Written, Prepared
<1>6. \A n \in Nodes : /\ batch'.node[n].phase = batch.node[n].phase
                       /\ batch'.node[n].result = batch.node[n].result
                       /\ batch'.node[n].expected["request"] = batch.node[n].expected["request"]
  BY <1>2, <1>4
<1>7. Blank' /\ batch.phase # "none"
  BY <1>4, BatchIsOpen DEF Blank
<1>8. Prepared' /\ Grown
  BY <1>1, <1>2, <1>4, <1>5 DEF Prepared, Grown, IInv, Written
<1>9. \A n \in Nodes : Genuine(n, batch.node[n].result["request"])'
  BY <1>6 DEF IInv, Noticed, Genuine, Activated
<1>10. \A n \in Nodes : (batch.node[n].phase # "prepared" => Before(n))'
  BY <1>6 DEF IInv, Ordered, Before, Activated
<1>11. SucceededEverywhere' /\ Foreign'
  BY <1>4, <1>6 DEF IInv, SucceededEverywhere, Activated, Foreign, Idle
<1>12. QED
  BY <1>4, <1>7, <1>8, <1>9, <1>10, <1>11 DEF FileOK

LEMMA UndoNodeKeeps ==
    ASSUME IInv, UndoNode
    PROVE  IInv'
<1>1. /\ pc = "loop" /\ stage = "undo" /\ batch.phase # "none"
      /\ at \in 0..N /\ hand \in Result
  BY BatchIsOpen DEF UndoNode, IInv, Typed, TypeOK, Placed
<1>2. ASSUME at # 0 PROVE at \in Nodes
  BY <1>1, <1>2, NAssumption DEF Nodes
<1>3. CASE at = 0 /\ Over("restored")
  <2>1. Ended /\ svc' = svc /\ batch' = [batch EXCEPT !.phase = "restored"]
    BY <1>3 DEF Over, Ended
  <2>2. QED
    BY <1>1, <2>1, PhaseEntered, RunEnds
<1>4. CASE at # 0 /\ ToNode(at - 1) /\ UNCHANGED batch
  <2>1. at - 1 \in 0..(N + 1) /\ at - 1 <= N
    BY <1>1, <1>4, NAssumption
  <2>2. svc' = svc
    BY <1>4 DEF ToNode, Quiet
  <2>3. QED
    BY <1>1, <1>4, <2>1, <2>2, SameFile, GoesToNode
<1>5. CASE /\ at # 0 /\ batch.node[at].expected["restore_request"] # 0
           /\ Enter /\ UNCHANGED batch
  BY <1>1, <1>2, <1>5, EnterKeeps
<1>6. CASE /\ at # 0
           /\ batch.node[at].result["request"].status = "succeeded"
           /\ svc[at].revision = batch.node[at].result["request"].after
           /\ batch' = [batch EXCEPT !.node[at].expected["restore_request"] =
                            batch.node[at].result["request"].after]
           /\ GoTo("loop") /\ Keeping
  <2>1. svc' = svc /\ hand' \in Result
    BY <1>1, <1>6 DEF GoTo, Quiet, Keeping
  <2>2. QED
    BY <1>1, <1>2, <1>6, <2>1, UndoNoted, GoesTo DEF AtNode
<1>7. CASE GoTo("failed") /\ UNCHANGED batch /\ Keeping
  <2>1. svc' = svc /\ hand' \in Result
    BY <1>1, <1>7 DEF GoTo, Quiet, Keeping
  <2>2. QED
    BY <1>1, <1>7, <2>1, SameFile, GoesTo DEF AtNode
<1>8. QED
  BY <1>3, <1>4, <1>5, <1>6, <1>7 DEF UndoNode

LEMMA ReturnedKeeps ==
    ASSUME IInv, Returned
    PROVE  IInv'
<1>1. /\ pc = "returned" /\ at \in Nodes /\ batch.phase # "none" /\ hand \in Result
      /\ UNCHANGED <<batch, svc>> /\ stage \in {"update", "resolve", "undo"}
  BY BatchIsOpen DEF Returned, GoTo, Quiet, ToNode, IInv, Typed, TypeOK, Placed, AtNode
<1>2. FileOK' /\ Grown
  BY <1>1, SameFile
<1>3. CASE GoTo("failed") /\ Keeping
  BY <1>1, <1>2, <1>3, GoesTo DEF AtNode, Keeping
<1>4. CASE hand.status \in Enough[stage] /\ stage = "undo" /\ ToNode(at - 1)
  <2>1. at - 1 \in 0..(N + 1) /\ at - 1 <= N
    BY <1>1, NAssumption DEF Nodes
  <2>2. QED
    BY <1>2, <1>4, <2>1, GoesToNode
<1>5. CASE hand.status \in Enough[stage] /\ stage # "undo" /\ ToNode(at + 1)
  <2>1. at + 1 \in 0..(N + 1) /\ at + 1 # 0
    BY <1>1, NAssumption DEF Nodes
  <2>2. ASSUME stage = "update" PROVE Before(at + 1)
    <3>1. hand.status \in {"succeeded", "skipped"}
      BY <1>5, <2>2 DEF Enough
    <3>2. Done(hand)
      BY <1>1, <2>2, <3>1 DEF IInv, Noticed, InHand, Done
    <3>3. Activated(at)
      BY <1>1, <2>2, <3>2 DEF IInv, Noticed, InHand, Genuine
    <3>4. \A m \in 1..((at + 1) - 1) : m = at \/ m \in 1..(at - 1)
      BY <1>1, NAssumption DEF Nodes
    <3>5. \A m \in 1..(at - 1) : Activated(m)
      BY <2>2 DEF IInv, Ordered, Before
    <3>6. \A m \in 1..((at + 1) - 1) : Activated(m)
      BY <3>3, <3>4, <3>5
    <3>7. QED
      BY <3>6 DEF Before
  <2>3. QED
    BY <1>2, <1>5, <2>1, <2>2, GoesToNode
<1>6. QED
  BY <1>3, <1>4, <1>5 DEF Returned

LEMMA FailedKeeps ==
    ASSUME IInv, Failed
    PROVE  IInv'
<1>1. pc = "failed" /\ batch.phase # "none" /\ svc' = svc
  BY BatchIsOpen DEF Failed, Ended, Quiet
<1>2. FileOK' /\ Grown
  BY <1>1, PhaseEntered, SameFile DEF Failed
<1>3. CASE Ended
  BY <1>2, <1>3, RunEnds
<1>4. CASE /\ stage' = "resolve" /\ at' = 1 /\ pc' = "start"
           /\ sent' = FALSE /\ hand' = NoResult
           /\ UNCHANGED <<waiting, reply>>
           /\ Quiet
  <2>1. Typed'
    <3>1. 1 \in 0..(N + 1) /\ batch' \in Batch
      BY <1>2, NAssumption DEF FileOK
    <3>2. TypeOK'
      BY <1>4, <3>1, Replies DEF IInv, Typed, TypeOK, Quiet
    <3>3. Placed'
      BY <1>4 DEF Placed, AtNode
    <3>4. QED
      BY <3>2, <3>3 DEF Typed
  <2>2. WrittenFirst' /\ SaneRecords'
    BY <1>2, <1>4, NothingSent DEF Quiet
  <2>3. Engaged' /\ InHand' /\ stage' # "update"
    BY <1>4 DEF Engaged, InHand, AtNode
  <2>4. QED
    BY <1>2, <2>1, <2>2, <2>3 DEF IInv, FileOK, Noticed, Written, Ordered
<1>5. QED
  BY <1>3, <1>4 DEF Failed

-----------------------------------------------------------------------------
(* The steps with one node.                                                *)
LEMMA QueryKeeps ==
    ASSUME IInv, Query
    PROVE  IInv'
<1> DEFINE live == svc[at].record[Key]
           switched == live.status = "succeeded" /\ live.phase # "complete"
<1>1. /\ pc = "query" /\ Busy /\ at \in Nodes /\ batch.phase # "none" /\ svc' = svc
      /\ hand \in Result
  BY BatchIsOpen, BeforeBusy DEF Query, Busy, GoTo, Quiet, Send, IInv, Typed, TypeOK
<1>2. live \in Result /\ Sane(live)
  BY <1>1 DEF IInv, Typed, TypeOK, SaneRecords, Key, Keys
<1>3. stage # "undo" => Genuine(at, live)
  <2>1. stage # "undo" => Key = "request"
    BY DEF Key
  <2>2. Done(svc[at].record["request"]) => Activated(at)
    BY DEF Done, Activated
  <2>3. QED
    BY <1>2, <2>1, <2>2 DEF Genuine
<1>4. stage = "undo" => batch.node[at].expected["restore_request"] # 0
  BY <1>1 DEF IInv, Written, Engaged, AtNode
<1>5. CASE /\ live.status \in Terminal /\ ~switched
           /\ NotedResult("answered", live)
           /\ GoTo("returned") /\ Holding(live)
  <2>1. /\ FileOK' /\ Grown
        /\ \A n \in Nodes : batch'.node[n].expected = batch.node[n].expected
    BY <1>1, <1>2, <1>3, <1>5, EntryKeepsFile DEF Entered, EntryPhases, Grown
  <2>2. hand' = live
    BY <1>5 DEF Holding
  <2>3. hand'.status = "succeeded" => Done(hand')
    BY <1>5, <2>2 DEF Done
  <2>4. stage # "undo" => Genuine(at, hand')
    BY <1>3, <2>2
  <2>5. hand' \in Result
    BY <1>2, <2>2
  <2>6. stage = "undo" => batch'.node[at].expected["restore_request"] # 0
    BY <1>1, <1>4, <2>1
  <2> HIDE DEF live, switched
  <2>7. QED
    BY <1>1, <1>5, <2>1, <2>3, <2>4, <2>5, <2>6, GoesTo
<1>6. CASE switched /\ UNCHANGED batch /\ GoTo("activate") /\ Holding(live)
  <2>1. FileOK' /\ Grown
    BY <1>1, <1>6, SameFile
  <2>2. hand' = live /\ hand' \in Result /\ (stage # "undo" => Genuine(at, hand'))
    BY <1>2, <1>3, <1>6 DEF Holding
  <2>3. batch.node[at].phase # "prepared"
    <3>1. Reached(at, Key)
      BY <1>6 DEF Reached
    <3>2. batch.node[at].phase # "prepared" \/ batch.node[at].expected["restore_request"] # 0
      BY <1>1, <3>1 DEF IInv, Written, WrittenFirst, Key
    <3>3. QED
      BY <1>1, <3>2 DEF IInv, Written, Prepared
  <2> HIDE DEF live, switched
  <2>4. QED
    BY <1>1, <1>4, <1>6, <2>1, <2>2, <2>3, GoesTo
<1>7. CASE /\ NotedResult("recovery_required", live)
           /\ GoTo("failed") /\ Keeping
  <2>1. FileOK' /\ Grown
    BY <1>1, <1>2, <1>3, <1>7, EntryKeepsFile DEF Entered, EntryPhases, Grown
  <2>2. QED
    BY <1>1, <1>7, <2>1, GoesTo DEF AtNode, Keeping
<1>8. CASE /\ Noted("sending") /\ sent' = TRUE
           /\ Send("apply") /\ UNCHANGED hand
  <2>1. FileOK' /\ Grown /\ batch'.node[at].phase # "prepared"
    BY <1>1, <1>2, <1>3, <1>8, EntryKeepsFile DEF Entered, EntryPhases, Grown
  <2>2. QED
    BY <1>1, <1>8, <2>1, Sends DEF Ops
<1>9. QED
  BY <1>5, <1>6, <1>7, <1>8 DEF Query

(* A note that the call is undecided, or refused.                          *)
LEMMA NoteKeepsFile ==
    ASSUME IInv, Busy, NEW ph \in EntryPhases \ {"prepared"}, Noted(ph), UNCHANGED svc
    PROVE  FileOK' /\ Grown /\ batch'.node[at].phase # "prepared"
<1>1. at \in Nodes
  BY BeforeBusy
<1> DEFINE r == batch.node[at].result["request"]
<1>2. r \in Result
  BY <1>1 DEF IInv, Typed, TypeOK, Batch, Entry, Keys
<1>3. Genuine(at, r)
  BY <1>1 DEF IInv, Noticed
<1>4. Entered(ph, r)
  BY DEF Entered
<1> HIDE DEF r
<1>5. QED
  BY <1>2, <1>3, <1>4, EntryKeepsFile DEF Grown

LEMMA GiveUpKeeps ==
    ASSUME IInv, GiveUp
    PROVE  IInv'
<1>1. /\ Busy /\ svc' = svc /\ Noted("unknown") /\ GoTo("failed")
      /\ hand' \in Result
  BY DEF GiveUp, Busy, GoTo, Quiet, Keeping, IInv, Typed, TypeOK
<1>2. QED
  BY <1>1, NoteKeepsFile, GoesTo DEF EntryPhases, AtNode

LEMMA ActivateKeeps ==
    ASSUME IInv, Activate
    PROVE  IInv'
<1>1. /\ pc = "activate" /\ Busy /\ at \in Nodes /\ svc' = svc
      /\ hand \in Result /\ hand' = hand
  BY BeforeBusy DEF Activate, Busy, GoTo, Quiet, Send, Keeping, IInv, Typed, TypeOK
<1>2. stage # "undo" => Genuine(at, hand)
  BY <1>1 DEF IInv, Noticed, InHand
<1>3. stage = "undo" => batch.node[at].expected["restore_request"] # 0
  BY <1>1 DEF IInv, Written, Engaged, AtNode
<1>4. CASE hand.phase = "complete" /\ NotedResult("answered", hand) /\ GoTo("returned")
  <2>1. /\ FileOK' /\ Grown
        /\ \A n \in Nodes : batch'.node[n].expected = batch.node[n].expected
    BY <1>1, <1>2, <1>4, EntryKeepsFile DEF Entered, EntryPhases, Grown
  <2>2. Done(hand')
    BY <1>1, <1>4 DEF Done
  <2>3. QED
    BY <1>1, <1>2, <1>3, <1>4, <2>1, <2>2, GoesTo
<1>5. CASE /\ hand.phase # "complete" /\ NotedResult("sending", hand)
           /\ \E op \in Ops : Send(op)
           /\ UNCHANGED sent
  <2>1. FileOK' /\ Grown /\ batch'.node[at].phase # "prepared"
    BY <1>1, <1>2, <1>5, EntryKeepsFile DEF Entered, EntryPhases, Grown
  <2>2. sent' \in BOOLEAN
    BY <1>5 DEF IInv, Typed, TypeOK
  <2>3. QED
    BY <1>1, <1>5, <2>1, <2>2, Sends
<1>6. QED
  BY <1>4, <1>5 DEF Activate, Ops, Keeping

LEMMA AppliedKeeps ==
    ASSUME IInv, Applied
    PROVE  IInv'
<1> DEFINE r == reply.result
           switched == r.status = "succeeded" /\ r.phase # "complete"
<1>1. /\ pc = "wait" /\ Busy /\ at \in Nodes /\ batch.phase # "none" /\ svc' = svc
      /\ hand \in Result /\ r \in Result
  BY BatchIsOpen, BeforeBusy
     DEF Applied, Busy, GoTo, Quiet, IInv, Typed, TypeOK, Reply
<1>2. stage # "undo" => Genuine(at, r)
  BY <1>1 DEF IInv, Noticed, InHand
<1>3. stage = "undo" => batch.node[at].expected["restore_request"] # 0
  BY <1>1 DEF IInv, Written, Engaged, AtNode
<1>4. batch.node[at].phase # "prepared"
  BY <1>1 DEF IInv, Written, Engaged
<1>5. CASE reply.kind = "result" /\ UNCHANGED batch /\ GoTo("activate") /\ Holding(r)
  <2>1. FileOK' /\ Grown
    BY <1>1, <1>5, SameFile
  <2>2. hand' = r
    BY <1>5 DEF Holding
  <2> HIDE DEF r
  <2>3. QED
    BY <1>1, <1>2, <1>3, <1>4, <1>5, <2>1, <2>2, GoesTo
<1>6. CASE UNCHANGED batch /\ \E where \in {"failed", "query"} : GoTo(where) /\ Keeping
  <2>1. FileOK' /\ Grown
    BY <1>1, <1>6, SameFile
  <2>2. PICK where \in {"failed", "query"} : GoTo(where) /\ Keeping
    BY <1>6
  <2>3. QED
    BY <1>1, <1>3, <1>4, <1>6, <2>1, <2>2, GoesTo DEF Keeping, AtNode
<1>7. CASE /\ reply.kind = "result" /\ r.status \in Terminal /\ ~switched
           /\ NotedResult("answered", r)
           /\ GoTo("returned") /\ Holding(r)
  <2>1. /\ FileOK' /\ Grown
        /\ \A n \in Nodes : batch'.node[n].expected = batch.node[n].expected
    BY <1>1, <1>2, <1>7, EntryKeepsFile DEF Entered, EntryPhases, Grown
  <2>2. hand' = r /\ (hand'.status = "succeeded" => Done(hand'))
    BY <1>7 DEF Holding, Done
  <2> HIDE DEF r
  <2>3. QED
    BY <1>1, <1>2, <1>3, <1>7, <2>1, <2>2, GoesTo
<1>8. CASE Noted("rejected") /\ GoTo("failed") /\ Keeping
  BY <1>1, <1>8, NoteKeepsFile, GoesTo DEF EntryPhases, AtNode, Keeping
<1>9. CASE /\ reply.kind = "result"
           /\ batch' = [batch EXCEPT !.node[at].result[Key] = r]
           /\ GoTo("failed") /\ Keeping
  <2>1. batch.node[at].phase \in EntryPhases \ {"prepared"}
    BY <1>1, <1>4 DEF IInv, Typed, TypeOK, Batch, Entry, EntryPhases
  <2>2. Entered(batch.node[at].phase, r)
    BY <1>9 DEF Entered
  <2>3. FileOK' /\ Grown
    BY <1>1, <1>2, <1>9, <2>1, <2>2, EntryKeepsFile DEF Grown
  <2>4. QED
    BY <1>1, <1>9, <2>3, GoesTo DEF AtNode, Keeping
<1>10. QED
  BY <1>5, <1>6, <1>7, <1>8, <1>9 DEF Applied

LEMMA CommandedKeeps ==
    ASSUME IInv, Commanded
    PROVE  IInv'
<1> DEFINE r == reply.result
<1>1. /\ pc = "wait" /\ Busy /\ at \in Nodes /\ svc' = svc
      /\ hand \in Result /\ r \in Result
  BY BeforeBusy DEF Commanded, Busy, GoTo, Quiet, IInv, Typed, TypeOK, Reply
<1>2. stage # "undo" => Genuine(at, r)
  BY <1>1 DEF IInv, Noticed, InHand
<1>3. stage = "undo" => batch.node[at].expected["restore_request"] # 0
  BY <1>1 DEF IInv, Written, Engaged, AtNode
<1>4. NotedResult("answered", r)
  BY DEF Commanded
<1>5. /\ FileOK' /\ Grown /\ batch'.node[at].phase # "prepared"
      /\ \A n \in Nodes : batch'.node[n].expected = batch.node[n].expected
  BY <1>1, <1>2, <1>4, EntryKeepsFile DEF Entered, EntryPhases, Grown
<1>6. CASE GoTo("activate") /\ Holding(r)
  <2>1. hand' = r
    BY <1>6 DEF Holding
  <2> HIDE DEF r
  <2>2. QED
    BY <1>1, <1>2, <1>3, <1>5, <1>6, <2>1, GoesTo
<1>7. CASE GoTo("failed") /\ Keeping
  BY <1>1, <1>5, <1>7, GoesTo DEF AtNode, Keeping
<1>8. QED
  BY <1>6, <1>7 DEF Commanded

(* What could be reached before is in the file still.                      *)
LEMMA KeptFirst ==
    ASSUME IInv, Grown, \A n \in Nodes, k \in Keys : Reached(n, k)' => Reached(n, k)
    PROVE  WrittenFirst'
<1>1. "request" \in Keys /\ "restore_request" \in Keys
  BY DEF Keys
<1>2. ASSUME NEW n \in Nodes
      PROVE  /\ Reached(n, "request")' => batch'.node[n].phase # "prepared"
             /\ Reached(n, "restore_request")' =>
                   batch'.node[n].expected["restore_request"] # 0
  <2>1. Reached(n, "request")' => Reached(n, "request")
    BY <1>1
  <2>2. Reached(n, "restore_request")' => Reached(n, "restore_request")
    BY <1>1
  <2>3. QED
    BY <2>1, <2>2 DEF IInv, Written, WrittenFirst, Grown
<1>3. QED
  BY <1>2 DEF WrittenFirst

LEMMA TimeOutKeeps ==
    ASSUME IInv, TimeOut
    PROVE  IInv'
<1> DEFINE call == [op |-> waiting, key |-> Key]
<1>1. /\ pc = "wait" /\ Busy /\ at \in Nodes /\ Noted("unknown")
      /\ pc' \in {"query", "failed"} /\ waiting' = "none" /\ reply' = NoReply
      /\ UNCHANGED <<svc, at, stage, sent, hand, starts, foreign>>
  BY BeforeBusy DEF TimeOut, Busy
<1>2. FileOK' /\ Grown /\ batch'.node[at].phase # "prepared"
  BY <1>1, NoteKeepsFile DEF EntryPhases
<1>3. faults' \in 0..MaxFaults
  BY BoundsAssumption DEF TimeOut, Fault, IInv, Typed, TypeOK
<1>4. /\ pending' \in [Nodes -> [Call -> Nat]]
      /\ \A n \in Nodes, c \in Call : pending'[n][c] > 0 => pending[n][c] > 0
  <2>1. pending \in [Nodes -> [Call -> Nat]]
    BY DEF IInv, Typed, TypeOK
  <2>2. CASE pending' = pending
    BY <2>1, <2>2
  <2>3. CASE pending[at][call] > 0 /\ pending' = [pending EXCEPT ![at][call] = @ - 1]
    <3> HIDE DEF call
    <3> DEFINE now == [pending[at] EXCEPT ![call] = @ - 1]
    <3>1. pending' = [pending EXCEPT ![at] = now]
      BY <2>3
    <3>2. ASSUME NEW c \in Call
          PROVE  now[c] \in Nat /\ (now[c] > 0 => pending[at][c] > 0)
      BY <1>1, <2>1, <2>3
    <3>3. now \in [Call -> Nat]
      BY <1>1, <2>1, <3>2
    <3> HIDE DEF now
    <3>4. QED
      BY <1>1, <2>1, <3>1, <3>2, <3>3
  <2>4. QED
    BY <2>2, <2>3 DEF TimeOut
<1>5. Typed'
  BY <1>1, <1>2, <1>3, <1>4, Replies DEF IInv, Typed, TypeOK, Placed, FileOK, AtNode
<1>6. WrittenFirst'
  <2>1. \A n \in Nodes, k \in Keys : Reached(n, k)' => Reached(n, k)
    BY <1>1, <1>4 DEF Reached, Call
  <2>2. QED
    BY <1>2, <2>1, KeptFirst
<1>7. SaneRecords'
  BY <1>1 DEF IInv, SaneRecords
<1>8. Engaged'
  <2>1. stage = "undo" => batch'.node[at].expected["restore_request"] # 0
    BY <1>1, <1>2 DEF IInv, Written, Engaged, AtNode, Grown
  <2>2. QED
    BY <1>1, <1>2, <2>1 DEF Engaged, AtNode
<1>9. InHand'
  BY <1>1 DEF InHand
<1>10. (stage = "update" => Before(at))'
  BY <1>1 DEF IInv, Ordered, Before, Activated
<1>11. QED
  BY <1>2, <1>5, <1>6, <1>7, <1>8, <1>9, <1>10 DEF IInv, FileOK, Noticed, Written, Ordered

LEMMA QueryFailsKeeps ==
    ASSUME IInv, QueryFails
    PROVE  IInv'
<1>1. /\ pc # "down" /\ pc' = "failed"
      /\ UNCHANGED <<svc, pending, batch, at, stage, sent, waiting, hand,
                     reply, starts, foreign>>
  BY DEF QueryFails
<1>2. FileOK' /\ Grown
  BY <1>1, BatchIsOpen, SameFile
<1>3. faults' \in 0..MaxFaults
  BY BoundsAssumption DEF QueryFails, Fault, IInv, Typed, TypeOK
<1>4. Typed'
  BY <1>1, <1>3 DEF IInv, Typed, TypeOK, Placed, AtNode
<1>5. WrittenFirst' /\ SaneRecords'
  BY <1>1, <1>2, NothingSent
<1>6. Engaged' /\ InHand'
  BY <1>1 DEF Engaged, InHand, AtNode
<1>7. (stage = "update" => Before(at))'
  BY <1>1 DEF IInv, Ordered, Before, Activated
<1>8. QED
  BY <1>2, <1>4, <1>5, <1>6, <1>7 DEF IInv, FileOK, Noticed, Written, Ordered

-----------------------------------------------------------------------------
(* The steps of the nodes.  On a node with something foreign nothing is    *)
(* under way, and nothing of the batch is accepted any more.               *)
LEMMA ForeignIsLeft ==
    ASSUME IInv, NEW n \in Nodes, NodeStep(n)
    PROVE  /\ \A m \in Nodes : svc[m].current = "other" =>
                 svc'[m].current = "other" /\ Idle(m)' /\ svc'[m].revision = svc[m].revision
           /\ \A m \in Nodes : svc'[m].current = "other" => svc[m].current = "other"
<1>1. svc[n] \in Services /\ svc \in [Nodes -> Services]
  BY DEF IInv, Typed, TypeOK, Services
<1>2. svc[n].current = "other" =>
          /\ Idle(n) /\ batch.node[n].expected["request"] \notin {0, svc[n].revision}
  BY DEF IInv, Foreign
<1>3. CASE svc' = svc
  BY <1>3 DEF IInv, Foreign, Idle
<1>4. ASSUME NEW key \in Keys, NodeAccept(n, key), svc' # svc
      PROVE  svc[n].current # "other" /\ svc'[n].current = svc[n].current
  <2>1. /\ Acceptable(n, key)
        /\ \E record : svc' = [svc EXCEPT ![n].record = record]
    BY <1>4 DEF NodeAccept
  <2>2. svc[n].current # "other"
    BY <1>2, <1>4, <2>1 DEF Acceptable, Keys
  <2>3. QED
    BY <1>1, <2>1, <2>2 DEF Services
<1>5. ASSUME NEW key \in Keys, NodeFinish(n, key)
      PROVE  svc[n].current # "other" /\ svc'[n].current # "other"
  <2>1. svc[n].record[key].status = "running"
    BY <1>5 DEF NodeFinish
  <2>2. svc[n].current # "other"
    BY <1>2, <2>1 DEF Idle
  <2>3. Candidate[key] # "other"
    BY DEF Candidate, Keys
  <2>4. \/ \E r : svc' = [svc EXCEPT ![n] = [svc[n] EXCEPT !.record[key] = r]]
        \/ \E r : svc' = [svc EXCEPT ![n] =
                            [[svc[n] EXCEPT !.revision = svc[n].revision + 1,
                                            !.current = Candidate[key]]
                                EXCEPT !.record[key] = r]]
        \/ \E r : svc' = [svc EXCEPT ![n] =
                            [[svc[n] EXCEPT !.revision = svc[n].revision + 1]
                                EXCEPT !.record[key] = r]]
    BY <1>5 DEF NodeFinish
  <2>5. svc'[n].current \in {svc[n].current, Candidate[key]}
    BY <1>1, <2>4 DEF Services
  <2>6. QED
    BY <2>2, <2>3, <2>5
<1>6. ASSUME NEW call \in Call, NodeCommand(n, call), svc' # svc
      PROVE  \/ svc[n].current # "other" /\ svc'[n].current # "other"
             \/ /\ svc'[n].current = svc[n].current /\ svc'[n].revision = svc[n].revision
                /\ Idle(n)'
  <2> DEFINE record == svc[n].record[call.key]
             to == IF call.op = "test" THEN "nginx_test_succeeded" ELSE "complete"
             revision == svc[n].revision + 1
             done == IF to = "complete"
                     THEN [status |-> "succeeded", phase |-> to, after |-> revision]
                     ELSE [record EXCEPT !.status = "succeeded", !.phase = to]
             failed == [NoResult EXCEPT !.status = "failed"]
             Unclear(r) == [r EXCEPT !.status = "recovery_required"]
  <2>1. \/ /\ svc[n].current = Candidate[call.key]
           /\ \/ svc' = [svc EXCEPT ![n].record[call.key] = done,
                                    ![n].revision = IF to = "complete" THEN revision ELSE @]
              \/ svc' = [svc EXCEPT ![n].record[call.key] = failed,
                                    ![n].revision = revision,
                                    ![n].current = Baseline[call.key]]
              \/ svc' = [svc EXCEPT ![n].record[call.key] = Unclear(done)]
        \/ svc' = [svc EXCEPT ![n].record[call.key] = Unclear(record)] /\ Idle(n)
    BY <1>6 DEF NodeCommand
  <2> HIDE DEF done, failed
  <2>2. call.key \in Keys
    BY DEF Call
  <2>3. Candidate[call.key] # "other" /\ Baseline[call.key] # "other"
    BY <2>2 DEF Candidate, Baseline, Keys
  <2>4. CASE svc[n].current = Candidate[call.key]
    <3>1. svc'[n].current \in {svc[n].current, Baseline[call.key]}
      BY <1>1, <2>1 DEF Services
    <3> QED BY <2>3, <2>4, <3>1
  <2>5. CASE svc' = [svc EXCEPT ![n].record[call.key] = Unclear(record)] /\ Idle(n)
    <3>1. /\ svc'[n].current = svc[n].current /\ svc'[n].revision = svc[n].revision
          /\ svc'[n].record = [svc[n].record EXCEPT ![call.key] = Unclear(record)]
      BY <1>1, <2>5 DEF Services
    <3>2. svc[n].record \in [Keys -> Result] /\ Unclear(record).status = "recovery_required"
      BY <1>1, <2>2 DEF Services, Result
    <3> HIDE DEF Unclear
    <3>3. \A k \in Keys : svc'[n].record[k].status # "running"
      BY <2>5, <3>1, <3>2 DEF Idle
    <3> QED BY <3>1, <3>3 DEF Idle
  <2> QED BY <2>1, <2>4, <2>5
<1>7. CASE svc' # svc
  <2>1. \/ svc[n].current # "other" /\ svc'[n].current # "other"
        \/ /\ svc'[n].current = svc[n].current /\ svc'[n].revision = svc[n].revision
           /\ Idle(n)'
    BY <1>4, <1>5, <1>6, <1>7 DEF NodeStep, NodeReplay
  <2>2. \A m \in Nodes \ {n} : svc'[m] = svc[m]
    BY StepOutcome DEF NodeOutcome, IInv
  <2>3. QED
    BY <2>1, <2>2 DEF IInv, Foreign, Idle
<1>8. QED
  BY <1>3, <1>7

(* Nodes that have been activated stay so, and those before a node too.    *)
LEMMA BeforeStays ==
    ASSUME \A m \in Nodes : Activated(m) => Activated(m)'
    PROVE  \A n \in 0..(N + 1) : Before(n) => \A m \in 1..(n - 1) : Activated(m)'
<1>1. \A n \in 0..(N + 1), m \in Nat : m \in 1..(n - 1) => m \in Nodes
  BY NAssumption DEF Nodes
<1>2. QED
  BY <1>1, NAssumption DEF Before

LEMMA NodeStepKeeps ==
    ASSUME IInv, NEW n \in Nodes, NodeStep(n)
    PROVE  IInv'
<1>1. NodeOutcome(n) /\ UNCHANGED <<batch, client, starts, foreign>>
  BY StepOutcome DEF IInv
<1>2. /\ Typed' /\ SaneRecords' /\ Noticed'
      /\ \A m \in Nodes : Activated(m) => Activated(m)'
      /\ \A m \in Nodes, k \in Keys : Reached(m, k)' => Reached(m, k)
  BY <1>1, OutcomeForClient DEF IInv
<1>3. Written'
  <2>1. WrittenFirst'
    BY <1>1, <1>2, KeptFirst DEF Grown
  <2>2. Blank' /\ Prepared' /\ Engaged'
    BY <1>1 DEF IInv, Written, Blank, Prepared, Engaged, client
  <2>3. QED
    BY <2>1, <2>2 DEF Written
<1>4. Ordered'
  <2>1. \A m \in 0..(N + 1) : Before(m) => \A x \in 1..(m - 1) : Activated(x)'
    BY <1>2, BeforeStays
  <2>2. at \in 0..(N + 1) /\ at' = at /\ stage' = stage
    BY <1>1 DEF IInv, Typed, TypeOK, client
  <2>3. Before(at) => Before(at)'
    BY <2>1, <2>2 DEF Before
  <2>4. \A m \in Nodes : Before(m) => Before(m)'
    BY <2>1, NAssumption DEF Nodes, Before
  <2>5. QED
    BY <1>1, <2>2, <2>3, <2>4 DEF IInv, Ordered
<1>5. SucceededEverywhere'
  BY <1>1, <1>2 DEF IInv, SucceededEverywhere
<1>6. Foreign'
  <2>1. ASSUME NEW m \in Nodes
        PROVE  svc'[m].revision \in Nat /\ svc[m].revision \in Nat
                  /\ svc'[m].revision >= svc[m].revision
    <3>1. svc[m] \in Services /\ svc'[m] \in Services
      BY <1>1 DEF IInv, Typed, TypeOK, NodeOutcome, Services
    <3>2. CASE m = n
      BY <1>1, <3>1, <3>2 DEF NodeOutcome, Services
    <3>3. CASE m # n
      BY <1>1, <3>1, <3>3 DEF NodeOutcome, Services
    <3>4. QED
      BY <3>2, <3>3
  <2>2. \A m \in Nodes : batch.phase # "none" =>
            batch.node[m].expected["request"] \in 1..svc'[m].revision
    BY <2>1 DEF IInv, Foreign
  <2>3. QED
    BY <1>1, <2>2, ForeignIsLeft DEF IInv, Foreign
<1>7. QED
  BY <1>2, <1>3, <1>4, <1>5, <1>6 DEF IInv

LEMMA OtherDeploymentKeeps ==
    ASSUME IInv, NEW n \in Nodes, OtherDeployment(n)
    PROVE  IInv'
<1>1. /\ batch.phase # "none" /\ Idle(n)
      /\ foreign' \in 0..MaxForeign
      /\ UNCHANGED <<pending, batch, client, reply, starts, faults>>
  BY BoundsAssumption DEF OtherDeployment, IInv, Typed, TypeOK
<1>2. svc \in [Nodes -> Services] /\ svc[n].revision \in Nat /\ svc[n].record \in [Keys -> Result]
  BY DEF IInv, Typed, TypeOK, Services
<1>3. /\ svc' \in [Nodes -> Services]
      /\ \A m \in Nodes \ {n} : svc'[m] = svc[m]
      /\ svc'[n].current = "other" /\ svc'[n].revision = svc[n].revision + 1
      /\ \A m \in Nodes, k \in Keys :
            /\ Sane(svc'[m].record[k])
            /\ Done(svc'[m].record[k]) <=> Done(svc[m].record[k])
            /\ svc'[m].record[k].status = "none" <=> svc[m].record[k].status = "none"
            /\ svc'[m].record[k].status = "running" <=> svc[m].record[k].status = "running"
  <2>1. PICK record \in TakenOver(svc[n].record, Keys) :
           svc' = [svc EXCEPT ![n] = [revision |-> @.revision + 1,
                                      current |-> "other", record |-> record]]
    BY DEF OtherDeployment
  <2>2. /\ record \in [Keys -> Result]
        /\ \A k \in Keys : /\ Sane(record[k])
                           /\ Done(record[k]) <=> Done(svc[n].record[k])
                           /\ record[k].status = "none" <=> svc[n].record[k].status = "none"
                           /\ record[k].status = "running" <=>
                                 svc[n].record[k].status = "running"
    BY <1>2, <2>1, TakenOverKeeps DEF IInv, SaneRecords
  <2> DEFINE node == [revision |-> svc[n].revision + 1, current |-> "other", record |-> record]
  <2>3. node \in Services
    BY <1>2, <2>2 DEF Services, Versions
  <2>4. svc' = [svc EXCEPT ![n] = node]
    BY <2>1
  <2>5. node.record = record /\ node.current = "other" /\ node.revision = svc[n].revision + 1
    OBVIOUS
  <2> HIDE DEF node
  <2>6. /\ svc' \in [Nodes -> Services] /\ svc'[n] = node
        /\ \A m \in Nodes \ {n} : svc'[m] = svc[m]
    BY <1>2, <2>3, <2>4
  <2>7. QED
    BY <2>2, <2>5, <2>6 DEF IInv, SaneRecords
<1>4. Typed'
  BY <1>1, <1>3 DEF IInv, Typed, TypeOK, Placed, client, Services
<1>5. SaneRecords'
  BY <1>2, <1>3 DEF IInv, SaneRecords
<1>6. \A m \in Nodes : Activated(m)' <=> Activated(m)
  BY <1>3 DEF Activated, Done, Keys
<1>7. Noticed'
  BY <1>1, <1>6 DEF IInv, Noticed, InHand, Genuine, client, Typed, Placed, AtNode
<1>8. \A m \in Nodes, k \in Keys : Reached(m, k)' => Reached(m, k)
  BY <1>1, <1>3 DEF Reached
<1>9. Written'
  <2>1. WrittenFirst'
    BY <1>1, <1>8, KeptFirst DEF Grown
  <2>2. QED
    BY <1>1, <2>1 DEF IInv, Written, Blank, Prepared, Engaged, client
<1>10. Ordered'
  <2> \A m \in 0..(N + 1) : Before(m) => \A x \in 1..(m - 1) : Activated(x)'
    BY <1>6, BeforeStays
  <2>1. Before(at) => Before(at)'
    BY <1>1 DEF Before, client, IInv, Typed, TypeOK
  <2>2. \A m \in Nodes : Before(m) => Before(m)'
    BY NAssumption DEF Before, Nodes
  <2>3. QED
    BY <1>1, <2>1, <2>2 DEF IInv, Ordered, client
<1>11. SucceededEverywhere'
  BY <1>1, <1>6 DEF IInv, SucceededEverywhere
<1>12. Foreign'
  <2>1. ASSUME NEW m \in Nodes \ {n}
        PROVE  /\ batch'.node[m].expected["request"] \in 1..svc'[m].revision
               /\ svc'[m].current = "other" =>
                     Idle(m)' /\ batch'.node[m].expected["request"] # svc'[m].revision
    BY <1>1, <1>3 DEF IInv, Foreign, Idle
  <2>2. batch.node[n].expected["request"] \in 1..svc[n].revision
    BY <1>1 DEF IInv, Foreign
  <2>3. /\ batch'.node[n].expected["request"] \in 1..svc'[n].revision
        /\ batch'.node[n].expected["request"] # svc'[n].revision
    BY <1>1, <1>2, <1>3, <2>2
  <2>4. Idle(n)'
    BY <1>1, <1>3 DEF Idle
  <2>5. QED
    BY <1>1, <2>1, <2>3, <2>4 DEF Foreign
<1>13. QED
  BY <1>4, <1>5, <1>7, <1>9, <1>10, <1>11, <1>12 DEF IInv

-----------------------------------------------------------------------------
(* At first there is no batch, and nothing has been reached.               *)
LEMMA InitIInv == Init => IInv
<1> SUFFICES ASSUME Init PROVE IInv
  OBVIOUS
<1>1. /\ svc \in [Nodes -> [revision : {1}, current : {"base", "new"},
                            record : [Keys -> {NoResult}]]]
      /\ pending = [n \in Nodes |-> [call \in Call |-> 0]]
      /\ batch = [phase |-> "none", node |-> [n \in Nodes |-> NewEntry(0)]]
      /\ pc = "down" /\ at = 1 /\ stage = "update"
      /\ sent = FALSE /\ waiting = "none" /\ hand = NoResult /\ reply = NoReply
      /\ starts = 0 /\ faults = 0 /\ foreign = 0
  BY DEF Init
<1>2. \A n \in Nodes : /\ batch.node[n].phase = "prepared"
                       /\ batch.node[n].result["request"] = NoResult
                       /\ batch.node[n].expected["restore_request"] = 0
                       /\ batch.node[n] \in Entry
  BY <1>1, Replies DEF NewEntry, Entry, Keys
<1>3. batch \in Batch /\ batch.phase = "none" /\ 1 \in 0..(N + 1)
  BY <1>1, <1>2, NAssumption DEF Batch
<1>4. /\ svc \in [Nodes -> Services]
      /\ \A n \in Nodes : /\ svc[n].revision = 1 /\ svc[n].current # "other"
                          /\ \A k \in Keys : svc[n].record[k] = NoResult
  BY <1>1, Replies DEF Services, Versions
<1>5. TypeOK
  <2>1. /\ 0 \in 0..MaxStarts /\ 0 \in 0..MaxFaults /\ 0 \in 0..MaxForeign
    BY BoundsAssumption
  <2>2. QED
    BY <1>1, <1>3, <1>4, <2>1, Replies DEF TypeOK, Services
<1>6. Typed
  BY <1>1, <1>5 DEF Typed, Placed, AtNode
<1>7. SaneRecords
  BY <1>4 DEF SaneRecords, Sane, NoResult
<1>8. Noticed
  BY <1>1, <1>2 DEF Noticed, InHand, Genuine, Sane, Done, NoResult
<1>9. WrittenFirst
  <2>1. \A n \in Nodes, k \in Keys : ~Reached(n, k)
    BY <1>1, <1>4 DEF Reached, Call, NoResult
  <2>2. QED
    BY <2>1 DEF WrittenFirst, Keys
<1>10. Written
  BY <1>1, <1>2, <1>9 DEF Written, Blank, Prepared, Engaged, NoResult, AtNode
<1>11. Ordered
  BY <1>1, <1>2 DEF Ordered, Before
<1>12. SucceededEverywhere /\ Foreign
  BY <1>3, <1>4 DEF SucceededEverywhere, Foreign
<1>13. QED
  BY <1>6, <1>7, <1>8, <1>10, <1>11, <1>12 DEF IInv

LEMMA StepIInv == IInv /\ [Next]_vars => IInv'
<1> SUFFICES ASSUME IInv, [Next]_vars PROVE IInv'
  OBVIOUS
<1>1. CASE Preflight
  BY <1>1, PreflightKeeps
<1>2. CASE Resume \/ Rollback
  BY <1>2, NextRunKeeps
<1>3. CASE Crash
  BY <1>3, CrashKeeps
<1>4. CASE ClientStep
  BY <1>4, BeginKeeps, UpdateNodeKeeps, ResolveNodeKeeps, UndoNodeKeeps,
     QueryKeeps, GiveUpKeeps, ActivateKeeps, AppliedKeeps, CommandedKeeps,
     ReturnedKeeps, FailedKeeps
     DEF ClientStep
<1>5. CASE TimeOut \/ QueryFails
  BY <1>5, TimeOutKeeps, QueryFailsKeeps
<1>6. CASE \E n \in Nodes : NodeStep(n) \/ OtherDeployment(n)
  BY <1>6, NodeStepKeeps, OtherDeploymentKeeps
<1>7. CASE UNCHANGED vars
  <2>1. Typed' /\ SaneRecords' /\ Noticed'
    BY <1>7 DEF IInv, vars, Typed, TypeOK, Placed, SaneRecords, Noticed, InHand,
                Genuine, Activated
  <2>2. Written'
    BY <1>7 DEF IInv, vars, Written, Blank, Prepared, Engaged, WrittenFirst, Reached
  <2>3. Ordered' /\ SucceededEverywhere' /\ Foreign'
    BY <1>7 DEF IInv, vars, Ordered, Before, Activated, SucceededEverywhere,
                Foreign, Idle
  <2>4. QED
    BY <2>1, <2>2, <2>3 DEF IInv
<1>8. QED
  BY <1>1, <1>2, <1>3, <1>4, <1>5, <1>6, <1>7 DEF Next

LEMMA Inductive == Spec => []IInv
BY InitIInv, StepIInv, PTL DEF Spec

(* The variables of client, nodes and calls keep their types.              *)
THEOREM TypeCorrect == Spec => []TypeOK
<1>1. IInv => TypeOK
  BY DEF IInv, Typed
<1>2. QED
  BY <1>1, Inductive, PTL

(* No request reaches a node before the batch file says so, whenever the   *)
(* client dies and however late its calls are executed.                    *)
THEOREM FileFirst == Spec => []WrittenFirst
<1>1. IInv => WrittenFirst
  BY DEF IInv, Written
<1>2. QED
  BY <1>1, Inductive, PTL

(* A node is reached only when all nodes before it have reloaded nginx     *)
(* with the release, or had nothing to do.                                 *)
THEOREM OneAfterTheOther == Spec => []Rolling
<1>1. IInv => Rolling
  BY DEF IInv, Written, WrittenFirst, Ordered, Before, Rolling
<1>2. QED
  BY <1>1, Inductive, PTL

(* A batch that is called succeeded has been activated on every node.      *)
THEOREM Everywhere == Spec => []SucceededEverywhere
<1>1. IInv => SucceededEverywhere
  BY DEF IInv
<1>2. QED
  BY <1>1, Inductive, PTL

(* What others deployed after the batch was made stays, whatever is sent,  *)
(* resumed or rolled back.                                                 *)
THEOREM ForeignStays == Spec => ForeignKept
<1> DEFINE Kept == \A n \in Nodes : svc[n].current = "other" => svc'[n].current = "other"
<1>1. IInv /\ [Next]_vars => [Kept]_vars
  <2> SUFFICES ASSUME IInv, [Next]_vars PROVE Kept
    OBVIOUS
  <2>1. CASE \E n \in Nodes : NodeStep(n)
    BY <2>1, ForeignIsLeft
  <2>2. CASE \E n \in Nodes : OtherDeployment(n)
    <3>1. PICK n \in Nodes : OtherDeployment(n)
      BY <2>2
    <3>2. \E record : svc' = [svc EXCEPT ![n] = [revision |-> @.revision + 1,
                                              current |-> "other", record |-> record]]
      BY <3>1 DEF OtherDeployment
    <3>3. svc \in [Nodes -> Services]
      BY DEF IInv, Typed, TypeOK, Services
    <3>4. QED
      BY <3>2, <3>3 DEF Services
  <2>3. CASE svc' = svc
    BY <2>3
  <2>4. ASSUME Preflight \/ Resume \/ Rollback \/ Crash \/ ClientStep \/ TimeOut \/ QueryFails
        PROVE  svc' = svc
    BY <2>4 DEF Preflight, Resume, Rollback, Started, Crash, Ended, ClientStep,
       Begin, UpdateNode, ResolveNode, UndoNode, Query, GiveUp, Activate, Applied,
       Commanded, Returned, Failed, Enter, GoTo, Quiet, ToNode, Over, Send, TimeOut,
       QueryFails
  <2>5. QED
    BY <2>1, <2>2, <2>3, <2>4 DEF Next, vars
<1>2. QED
  BY <1>1, Inductive, PTL DEF Spec, ForeignKept
=============================================================================
