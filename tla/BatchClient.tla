---------------------------- MODULE BatchClient -----------------------------
(***************************************************************************)
(* The batch client, scripts/release_http.py: one commit published to the  *)
(* nodes 1..N one after the other, every step noted in a batch file, and   *)
(* undone node by node in the opposite order.  The client may die at any   *)
(* step and be run again as resume or rollback; calls are lost, answered   *)
(* too late or executed after the client has given up on them; and others  *)
(* deploy to the nodes in the meantime.                                    *)
(*                                                                         *)
(* A node is modelled by what it promises its clients: it works on one     *)
(* release at a time, never overwrites a revision it was not asked to, and *)
(* keeps the result of each release_id.  Publisher models how it does so.  *)
(* Each node has at most two releases of the batch: the request itself and *)
(* the restore_request that undoes it.  The batch file in memory and on    *)
(* disk are one variable, since every change is saved at once.  Digests of *)
(* frontend artifacts are left out.                                        *)
(***************************************************************************)
EXTENDS Naturals

CONSTANTS N,                              \* nodes are numbered in batch order
          Policy,                         \* --failure-policy: stop or restore
          MaxStarts, MaxFaults, MaxForeign \* bounds, named for what they bound

ASSUME NAssumption == N \in Nat \ {0}
ASSUME PolicyAssumption == Policy \in {"stop", "restore"}
ASSUME BoundsAssumption == {MaxStarts, MaxFaults, MaxForeign} \subseteq Nat

Nodes == 1..N
Keys == {"request", "restore_request"}

VARIABLES
    svc,      \* what each node has: revision, current version, results
    pending,  \* how many copies of each call to a node are not yet executed
    batch,    \* the batch file
    pc, at,   \* where the client stands, and with which node
    stage,    \* the loop it is in: update, resolve or undo
    sent,     \* execute_node has issued its apply
    waiting,  \* the call it waits for
    hand,     \* the result it holds
    reply,    \* the answer that came back
    starts, faults, foreign

client == <<pc, at, stage, sent, waiting, hand>>
vars == <<svc, pending, batch, pc, at, stage, sent, waiting, hand, reply,
          starts, faults, foreign>>

Terminal == {"succeeded", "skipped", "failed"}
Result == [status : {"none", "running", "recovery_required"} \cup Terminal,
           phase : {"none", "latest_switched", "nginx_test_succeeded", "complete"},
           after : Nat]
NoResult == [status |-> "none", phase |-> "none", after |-> 0]

Ops == {"apply", "test", "reload"}
Call == [op : Ops, key : Keys]
Versions == {"base", "new", "other"}

(* A refusal has a 4xx code and no accepted record behind it; "later" is   *)
(* an answer that decides nothing, as RELEASE_RUNNING or a 503.            *)
Reply == [kind : {"none", "result", "refused", "later"}, result : Result]
NoReply == [kind |-> "none", result |-> NoResult]
Later == [NoReply EXCEPT !.kind = "later"]
Refusal == [kind |-> "refused", result |-> [NoResult EXCEPT !.status = "failed"]]
Answer(r) == [kind |-> "result", result |-> r]

(* The batch file; revision 0 stands for a request not yet written.        *)
Entry == [phase : {"prepared", "sending", "unknown", "rejected", "answered",
                   "recovery_required"},
          result : [Keys -> Result],
          expected : [Keys -> Nat]]
Batch == [phase : {"none", "prepared", "applying", "incomplete", "succeeded",
                   "restoring", "restored"},
          node : [Nodes -> Entry]]

(* MUTANT: the revision the node had is not sent along.                    *)
NewEntryUnchecked(revision) ==
    [phase |-> "prepared",
     result |-> [k \in Keys |-> NoResult],
     expected |-> [k \in Keys |-> 0]]

NewEntry(revision) ==
    [phase |-> "prepared",
     result |-> [k \in Keys |-> NoResult],
     expected |-> [k \in Keys |-> IF k = "request" THEN revision ELSE 0]]

Init == /\ svc \in [Nodes -> [revision : {1}, current : {"base", "new"},
                              record : [Keys -> {NoResult}]]]
        /\ pending = [n \in Nodes |-> [call \in Call |-> 0]]
        /\ batch = [phase |-> "none", node |-> [n \in Nodes |-> NewEntry(0)]]
        /\ pc = "down" /\ at = 1 /\ stage = "update"
        /\ sent = FALSE /\ waiting = "none" /\ hand = NoResult
        /\ reply = NoReply
        /\ starts = 0 /\ faults = 0 /\ foreign = 0

Fault == /\ faults < MaxFaults
         /\ faults' = faults + 1

-----------------------------------------------------------------------------
(* The nodes.                                                              *)

Candidate == [request |-> "new", restore_request |-> "base"]
Baseline == [request |-> "base", restore_request |-> "new"]

Idle(n) == \A k \in Keys : svc[n].record[k].status # "running"

(* The client gets the answer to a call if it still waits for it; when     *)
(* another copy of the call is around, the answer may belong to that one.  *)
Key == IF stage = "undo" THEN "restore_request" ELSE "request"

Answered(n, call, answer) ==
    LET waits == /\ pc = "wait" /\ at = n /\ reply = NoReply
                 /\ waiting = call.op /\ Key = call.key
    IN reply' \in (IF waits THEN {answer} ELSE {reply})
                     \cup (IF pending'[n][call] > 0 THEN {reply} ELSE {})

Taken(n, call) == /\ pending[n][call] > 0
                  /\ pending' = [pending EXCEPT ![n][call] = @ - 1]

Executed(n, call, answer) == Taken(n, call) /\ Answered(n, call, answer)

(* apply: what the node has a result for is replayed; a release still      *)
(* running is said to be; a node busy or blocked refuses.                  *)
NodeReplay(n, key) ==
    LET call == [op |-> "apply", key |-> key]
        record == svc[n].record[key]
    IN /\ \/ /\ record.status \in Terminal
             /\ Executed(n, call, Answer(record))
             /\ UNCHANGED faults
          \/ /\ record.status = "running"
             /\ Executed(n, call, Later)
             /\ UNCHANGED faults
          \/ /\ record.status \in {"none", "recovery_required"}
             /\ Fault
             /\ \E answer \in {Refusal, Later} : Executed(n, call, answer)
       /\ UNCHANGED <<svc, batch, client, starts, foreign>>

(* The checks before a request is accepted: expected_state_revision, and   *)
(* for a restore that the release to undo succeeded and is current.        *)
Acceptable(n, key) ==
    /\ batch.node[n].expected[key] \in {0, svc[n].revision}
    /\ key = "restore_request" =>
           /\ svc[n].record["request"].status = "succeeded"
           /\ svc[n].record["request"].after = svc[n].revision
           /\ svc[n].current = "new"

(* A new release takes over from one whose result is unclear.  Only the    *)
(* node's active one; which it is the client does not know.                *)
TakenOver(record, keys) ==
    {record} \cup {[record EXCEPT ![key].status = "failed"] : key \in
                      {k \in keys : record[k].status = "recovery_required"}}

NodeAccept(n, key) ==
    LET call == [op |-> "apply", key |-> key] IN
    /\ svc[n].record[key].status \in {"none", "recovery_required"}
    /\ Idle(n)
    /\ IF Acceptable(n, key)
       THEN /\ \E record \in TakenOver(svc[n].record, Keys \ {key}) :
                  svc' = [svc EXCEPT
                            ![n].record = [record EXCEPT ![key].status = "running"]]
            /\ Taken(n, call)
            /\ UNCHANGED reply
       ELSE /\ Executed(n, call, Refusal)
            /\ UNCHANGED svc
    /\ UNCHANGED <<batch, client, starts, faults, foreign>>

(* The results of a release: switched, nothing to do, failed before or     *)
(* after the switch (then restored, under a new revision), or unclear,     *)
(* which it may be although all was done but the last save.                *)
NodeFinish(n, key) ==
    LET call == [op |-> "apply", key |-> key]
        next == svc[n].revision + 1
        switched == [svc[n] EXCEPT !.revision = next, !.current = Candidate[key]]
        Switched(status) == [status |-> status, phase |-> "latest_switched",
                             after |-> next]
        Ends(node, r) ==
            /\ svc' = [svc EXCEPT ![n] = [node EXCEPT !.record[key] = r]]
            /\ UNCHANGED pending
            /\ Answered(n, call, Answer(r))
        Failed(status) == [NoResult EXCEPT !.status = status]
    IN /\ svc[n].record[key].status = "running"
       /\ \/ /\ svc[n].current = Candidate[key]
             /\ Ends(svc[n], [status |-> "skipped", phase |-> "complete", after |-> 0])
             /\ UNCHANGED faults
          \/ /\ svc[n].current # Candidate[key]
             /\ Ends(switched, Switched("succeeded"))
             /\ UNCHANGED faults
          \/ /\ svc[n].current # Candidate[key]
             /\ Ends(switched, Switched("recovery_required"))
             /\ Fault
          \/ /\ Fault
             /\ \/ Ends(svc[n], Failed("failed"))
                \/ Ends([svc[n] EXCEPT !.revision = next], Failed("failed"))
                \/ Ends(svc[n], Failed("recovery_required"))
       /\ UNCHANGED <<batch, client, starts, foreign>>

(* nginx/test and nginx/reload: done, repeated, refused (busy, not current,*)
(* or out of order), or failed and the version of before restored.  The    *)
(* result is unclear if that fails, if the target cannot be opened, which  *)
(* is found before anything else is looked at, or the test be recorded.    *)
NodeCommand(n, call) ==
    LET record == svc[n].record[call.key]
        from == IF call.op = "test" THEN "latest_switched" ELSE "nginx_test_succeeded"
        to == IF call.op = "test" THEN "nginx_test_succeeded" ELSE "complete"
        live == /\ record.status \in {"succeeded", "recovery_required"}
                /\ svc[n].current = Candidate[call.key]
                /\ Idle(n)
        revision == svc[n].revision + 1
        done == IF to = "complete"
                THEN [status |-> "succeeded", phase |-> to, after |-> revision]
                ELSE [record EXCEPT !.status = "succeeded", !.phase = to]
        failed == [NoResult EXCEPT !.status = "failed"]
        Unclear(r) == [r EXCEPT !.status = "recovery_required"]
        undecided == record.status \in {"succeeded", "recovery_required"}
                         /\ record.phase # "complete"
    IN /\ call.op # "apply"
       /\ \/ /\ live /\ record.phase = from
             /\ svc' = [svc EXCEPT
                            ![n].record[call.key] = done,
                            ![n].revision = IF to = "complete" THEN revision ELSE @]
             /\ Executed(n, call, Answer(done))
             /\ UNCHANGED faults
          \/ /\ live /\ record.phase = to
             /\ Executed(n, call, Answer(record))
             /\ UNCHANGED <<svc, faults>>
          \/ /\ ~live \/ record.phase \notin {from, to}
             /\ Executed(n, call, Refusal)
             /\ UNCHANGED <<svc, faults>>
          \/ /\ Fault
             /\ Executed(n, call, Refusal)
             /\ UNCHANGED svc
          \/ /\ live /\ record.phase = from
             /\ Fault
             /\ svc' = [svc EXCEPT ![n].record[call.key] = failed,
                                   ![n].revision = revision,
                                   ![n].current = Baseline[call.key]]
             /\ Executed(n, call, Answer(failed))
          \/ /\ undecided /\ Idle(n)
             /\ Fault
             /\ svc' = [svc EXCEPT ![n].record[call.key] = Unclear(record)]
             /\ Executed(n, call, Answer(Unclear(record)))
          \/ /\ live /\ record.phase = from /\ to # "complete"
             /\ Fault
             /\ svc' = [svc EXCEPT ![n].record[call.key] = Unclear(done)]
             /\ Executed(n, call, Answer(Unclear(done)))
       /\ UNCHANGED <<batch, client, starts, foreign>>

(* Somebody else deploys another version to the node.  One deployed before *)
(* the batch was made is what the batch calls the base.                    *)
OtherDeployment(n) ==
    /\ batch.phase # "none"
    /\ foreign < MaxForeign
    /\ Idle(n)
    /\ foreign' = foreign + 1
    /\ \E record \in TakenOver(svc[n].record, Keys) :
          svc' = [svc EXCEPT ![n] = [revision |-> @.revision + 1,
                                     current |-> "other", record |-> record]]
    /\ UNCHANGED <<pending, batch, client, reply, starts, faults>>

-----------------------------------------------------------------------------
(* Runs of the client.                                                     *)

Started == /\ pc = "down"
           /\ starts < MaxStarts
           /\ starts' = starts + 1
           /\ UNCHANGED <<svc, pending, sent, waiting, hand, reply, faults, foreign>>

(* update: ask every node for its revision, write the batch file, begin.   *)
Preflight ==
    /\ batch.phase = "none"
    /\ batch' = [phase |-> "prepared",
                 node |-> [n \in Nodes |-> NewEntry(svc[n].revision)]]
    /\ stage' = "update" /\ at' = 1 /\ pc' = "start"
    /\ Started

Resume == /\ batch.phase \notin {"none", "restoring", "restored"}
          /\ stage' = "update" /\ at' = 1 /\ pc' = "start"
          /\ UNCHANGED batch
          /\ Started

Rollback == /\ batch.phase # "none"
            /\ stage' = "resolve" /\ at' = 1 /\ pc' = "start"
            /\ UNCHANGED batch
            /\ Started

Ended == /\ pc' = "down" /\ at' = 1 /\ stage' = "update"
         /\ sent' = FALSE /\ waiting' = "none" /\ hand' = NoResult
         /\ reply' = NoReply
         /\ UNCHANGED <<svc, pending, starts, faults, foreign>>

(* The client dies; what it sent may still be executed.                    *)
Crash == pc # "down" /\ Ended /\ UNCHANGED batch

-----------------------------------------------------------------------------
(* The steps of a run.                                                     *)

(* MUTANT: a release that has switched counts as done.                     *)
DoneWhenSwitched(result) == result.status \in {"skipped", "succeeded"}

Done(result) == result.status = "skipped" \/ result.phase = "complete"

(* MUTANT: the file is written after the call, not before it.              *)
NotedLate(phase) ==
    IF phase = "sending" THEN UNCHANGED batch
    ELSE batch' = [batch EXCEPT !.node[at].phase = phase]

(* The batch file with the phase, and the result, of the node at hand.     *)
Noted(phase) == batch' = [batch EXCEPT !.node[at].phase = phase]

NotedResult(phase, result) ==
    batch' = [batch EXCEPT !.node[at].phase = phase, !.node[at].result[Key] = result]

Quiet == UNCHANGED <<svc, pending, starts, faults, foreign>>
GoTo(where) == /\ pc' = where
               /\ waiting' = "none" /\ reply' = NoReply
               /\ UNCHANGED <<at, stage, sent>>
               /\ Quiet
Keeping == UNCHANGED hand
Holding(result) == hand' = result

Begin == /\ pc = "start"
         /\ batch' = [batch EXCEPT !.phase = IF stage = "update" THEN "applying"
                                                                ELSE "restoring"]
         /\ GoTo("loop") /\ Keeping

(* execute_node: nothing is asked about a release that is done.            *)
Enter == \/ /\ Done(batch.node[at].result[Key])
            /\ GoTo("returned") /\ Holding(batch.node[at].result[Key])
         \/ /\ ~Done(batch.node[at].result[Key])
            /\ GoTo("query") /\ Keeping

ToNode(n) == /\ at' = n /\ pc' = "loop"
             /\ sent' = FALSE /\ hand' = NoResult
             /\ UNCHANGED <<stage, waiting, reply>>
             /\ Quiet

(* MUTANT: a run that ends leaves the file with no phase the next one knows.*)
OverUnnamed(phase) == batch' = [batch EXCEPT !.phase = "done"] /\ Ended

(* The end of a loop over the nodes, and with it of the run.               *)
Over(phase) == /\ batch' = [batch EXCEPT !.phase = phase]
               /\ Ended

UpdateNode == /\ pc = "loop" /\ stage = "update"
              /\ \/ at \in Nodes /\ Enter /\ UNCHANGED batch
                 \/ at > N /\ Over("succeeded")

(* restore_batch asks about every node it sent to without a known result...*)
Settled(entry) == \/ entry.phase \in {"prepared", "rejected"}
                  \/ entry.result["request"].status \in Terminal

ResolveNode ==
    /\ pc = "loop" /\ stage = "resolve"
    /\ UNCHANGED batch
    /\ \/ /\ at \in Nodes /\ ~Settled(batch.node[at])
          /\ Enter
       \/ /\ at \in Nodes /\ Settled(batch.node[at])
          /\ ToNode(at + 1)
       \/ /\ at > N
          /\ stage' = "undo" /\ at' = N
          /\ UNCHANGED <<pc, sent, waiting, hand, reply>>
          /\ Quiet

(* ...and then undoes, last node first, the releases that succeeded; a     *)
(* node that has been deployed to since then is not touched.               *)
UndoNode ==
    LET entry == batch.node[at]
        result == entry.result["request"]
    IN /\ pc = "loop" /\ stage = "undo"
       /\ \/ /\ at = 0
             /\ Over("restored")
          \/ /\ at # 0 /\ result.status # "succeeded"
             /\ ToNode(at - 1)
             /\ UNCHANGED batch
          \/ /\ at # 0 /\ result.status = "succeeded"
             /\ entry.expected["restore_request"] # 0
             /\ Enter
             /\ UNCHANGED batch
          \/ /\ at # 0 /\ result.status = "succeeded"
             /\ entry.expected["restore_request"] = 0
             /\ IF svc[at].revision = result.after /\ svc[at].current = "new"
                THEN /\ batch' = [batch EXCEPT
                                    !.node[at].expected["restore_request"] = result.after]
                     /\ GoTo("loop")
                ELSE GoTo("failed") /\ UNCHANGED batch
             /\ Keeping

Send(op) == /\ pending' = [pending EXCEPT ![at][[op |-> op, key |-> Key]] = @ + 1]
            /\ waiting' = op
            /\ reply' = NoReply
            /\ pc' = "wait"
            /\ UNCHANGED <<svc, at, stage, starts, faults, foreign>>

(* Ask before sending: after a crash an earlier call may have arrived.     *)
Query ==
    LET live == svc[at].record[Key]
        switched == live.status = "succeeded" /\ live.phase # "complete"
    IN /\ pc = "query"
       /\ \/ /\ live.status \in Terminal /\ ~switched
             /\ NotedResult("answered", live)
             /\ GoTo("returned") /\ Holding(live)
          \/ /\ switched
             /\ UNCHANGED batch
             /\ GoTo("activate") /\ Holding(live)
          \/ /\ live.status = "recovery_required"
             /\ NotedResult("recovery_required", live)
             /\ GoTo("failed") /\ Keeping
          \/ /\ live.status = "none" /\ ~sent
             /\ Noted("sending")
             /\ sent' = TRUE
             /\ Send("apply")
             /\ UNCHANGED hand

(* MUTANT: the deadline is looked at only while the node says running.     *)
GiveUpRunning == /\ pc = "query"
                 /\ svc[at].record[Key].status = "running"
                 /\ Noted("unknown")
                 /\ GoTo("failed") /\ Keeping

(* Until the deadline it asks again.                                       *)
GiveUp == /\ pc = "query"
          /\ \/ svc[at].record[Key].status = "running"
             \/ svc[at].record[Key].status = "none" /\ sent
          /\ Noted("unknown")
          /\ GoTo("failed") /\ Keeping

(* activate_release: the two nginx calls a switched release still needs.   *)
Activate ==
    /\ pc = "activate"
    /\ \/ /\ hand.phase = "complete"
          /\ NotedResult("answered", hand)
          /\ GoTo("returned") /\ Keeping
       \/ /\ hand.phase # "complete"
          /\ NotedResult("sending", hand)
          /\ Send(IF hand.phase = "latest_switched" THEN "test" ELSE "reload")
          /\ UNCHANGED <<sent, hand>>

(* The answer to an apply.                                                 *)
Applied ==
    LET r == reply.result
        switched == r.status = "succeeded" /\ r.phase # "complete"
    IN /\ pc = "wait" /\ waiting = "apply" /\ reply # NoReply
       /\ \/ /\ reply.kind = "result" /\ switched
             /\ UNCHANGED batch
             /\ IF r.phase = "latest_switched"
                THEN GoTo("activate") /\ Holding(r)
                ELSE GoTo("failed") /\ Keeping
          \/ /\ reply.kind = "result" /\ r.status \in Terminal /\ ~switched
             /\ NotedResult("answered", r)
             /\ GoTo("returned") /\ Holding(r)
          \/ /\ reply.kind = "refused"
             /\ Noted("rejected")
             /\ GoTo("failed") /\ Keeping
          \/ /\ reply.kind = "result" /\ r.status = "recovery_required"
             /\ batch' = [batch EXCEPT !.node[at].result[Key] = r]
             /\ GoTo("failed") /\ Keeping
          \/ /\ reply.kind = "later"
             /\ UNCHANGED batch
             /\ GoTo("query") /\ Keeping

(* The answer to an nginx call is kept whatever it says.                   *)
Commanded ==
    LET expected == IF waiting = "test" THEN "nginx_test_succeeded" ELSE "complete"
        r == reply.result
    IN /\ pc = "wait" /\ waiting # "apply" /\ reply # NoReply
       /\ NotedResult("answered", r)
       /\ IF r.status = "succeeded" /\ r.phase = expected
          THEN GoTo("activate") /\ Holding(r)
          ELSE GoTo("failed") /\ Keeping

(* No answer in time: the call is lost, late, or only its answer is.       *)
TimeOut ==
    LET call == [op |-> waiting, key |-> Key] IN
    /\ pc = "wait"
    /\ Fault
    /\ pending' \in {pending} \cup
          {p \in {[pending EXCEPT ![at][call] = @ - 1]} : pending[at][call] > 0}
    /\ Noted("unknown")
    /\ pc' = IF waiting = "apply" THEN "query" ELSE "failed"
    /\ waiting' = "none" /\ reply' = NoReply
    /\ UNCHANGED <<svc, at, stage, sent, hand, starts, foreign>>

(* A question that is not answered, or that another node answers.          *)
QueryFails == /\ pc = "query" \/ (pc = "loop" /\ stage = "undo" /\ at # 0
                                   /\ batch.node[at].result["request"].status = "succeeded")
              /\ Fault
              /\ pc' = "failed"
              /\ UNCHANGED <<svc, pending, batch, at, stage, sent, waiting, hand,
                             reply, starts, foreign>>

(* MUTANT: any final result lets the update go on.                         *)
EnoughWhenFinal == [update |-> Terminal, resolve |-> Terminal, undo |-> {"succeeded"}]

(* The results that let each loop go on.                                   *)
Enough == [update |-> {"succeeded", "skipped"}, resolve |-> Terminal,
           undo |-> {"succeeded"}]

Returned ==
    /\ pc = "returned"
    /\ UNCHANGED batch
    /\ IF hand.status \in Enough[stage]
       THEN ToNode(IF stage = "undo" THEN at - 1 ELSE at + 1)
       ELSE GoTo("failed") /\ Keeping

(* A failed update is marked incomplete and, under the policy restore,     *)
(* undone at once; a failed restoration ends the run.                      *)
Failed ==
    /\ pc = "failed"
    /\ IF stage = "update"
       THEN batch' = [batch EXCEPT !.phase = "incomplete"]
       ELSE UNCHANGED batch
    /\ IF stage = "update" /\ Policy = "restore"
       THEN /\ stage' = "resolve" /\ at' = 1 /\ pc' = "start"
            /\ sent' = FALSE /\ hand' = NoResult
            /\ UNCHANGED <<waiting, reply>>
            /\ Quiet
       ELSE Ended

-----------------------------------------------------------------------------
ClientStep == \/ Begin \/ UpdateNode \/ ResolveNode \/ UndoNode
              \/ Query \/ GiveUp \/ Activate \/ Applied \/ Commanded
              \/ Returned \/ Failed

NodeStep(n) == \/ \E key \in Keys : \/ NodeReplay(n, key) \/ NodeAccept(n, key)
                                     \/ NodeFinish(n, key)
               \/ \E call \in Call : NodeCommand(n, call)

Next == \/ Preflight \/ Resume \/ Rollback \/ Crash
        \/ ClientStep \/ TimeOut \/ QueryFails
        \/ \E n \in Nodes : NodeStep(n) \/ OtherDeployment(n)

Spec == Init /\ [][Next]_vars

(* The client runs until it ends, and the nodes answer.                    *)
FairSpec == /\ Spec
            /\ WF_vars(ClientStep)
            /\ \A n \in Nodes : WF_vars(NodeStep(n))

-----------------------------------------------------------------------------
(* Properties.                                                             *)

(* Every variable has its type.                                            *)
TypeOK ==
    /\ svc \in [Nodes -> [revision : Nat, current : Versions, record : [Keys -> Result]]]
    /\ pending \in [Nodes -> [Call -> Nat]]
    /\ batch \in Batch
    /\ pc \in {"down", "start", "loop", "query", "wait", "activate", "returned", "failed"}
    /\ at \in 0..(N + 1) /\ stage \in {"update", "resolve", "undo"}
    /\ sent \in BOOLEAN /\ waiting \in Ops \cup {"none"}
    /\ hand \in Result /\ reply \in Reply
    /\ starts \in 0..MaxStarts /\ faults \in 0..MaxFaults /\ foreign \in 0..MaxForeign

Reached(n, key) == \/ \E op \in Ops : pending[n][[op |-> op, key |-> key]] > 0
                   \/ svc[n].record[key].status # "none"

Activated(n) == LET record == svc[n].record["request"] IN
                record.status = "skipped" \/ record.phase = "complete"

(* Before a request can reach a node the batch file says so: whatever the  *)
(* client's death leaves behind, resume and rollback know to ask for it.   *)
WrittenFirst == \A n \in Nodes :
    /\ Reached(n, "request") => batch.node[n].phase # "prepared"
    /\ Reached(n, "restore_request") => batch.node[n].expected["restore_request"] # 0

(* A node is sent the release only when every node before it has it and    *)
(* has reloaded nginx with it, through all resumes and rollbacks.          *)
Rolling == \A n \in Nodes : Reached(n, "request") =>
    \A m \in 1..(n - 1) : Activated(m)

(* A batch called succeeded left no node between the switch and the end of *)
(* its activation.                                                         *)
SucceededEverywhere ==
    batch.phase = "succeeded" => \A n \in Nodes : Activated(n)

(* What somebody else deployed after the batch was made is never replaced. *)
ForeignKept == [][\A n \in Nodes :
    svc[n].current = "other" => svc'[n].current = "other"]_vars

(* Nodes are undone only when no call of the release has an unknown result *)
(* any more (README.md:174, and the comment above restore_batch's loop).   *)
UnresolvedFirst == stage = "undo" =>
    \A n \in Nodes : batch.node[n].expected["restore_request"] = 0
                        => batch.node[n].phase # "unknown"

(* Every run of the client ends, whatever is lost or delayed.              *)
Ends == pc # "down" ~> pc = "down"
=============================================================================
