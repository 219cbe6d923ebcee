------------------------------ MODULE NodeLock ------------------------------
(***************************************************************************)
(* Who may write on a node.  Every operation that writes the release state *)
(* or the deployment directory takes two locks: the one-slot channel       *)
(* Runner.busy, private to a process, then the flock on the node's lock    *)
(* file, shared by all processes of the node.  Both are tried, never       *)
(* waited for.  The flock belongs to the open file of a process, not to a  *)
(* goroutine: a second Try by another goroutine of the owner succeeds, and *)
(* any Unlock of that process releases it.                                 *)
(*                                                                         *)
(* A process is the service, or the offline -adopt-target command: the     *)
(* latter takes the flock exactly as the service does at startup, works,   *)
(* and ends instead of serving.                                            *)
(***************************************************************************)
EXTENDS Naturals, FiniteSets

CONSTANTS Procs,      \* processes that may run on the node
          Handlers,   \* request goroutines of one process
          NoProc, NoHandler

ASSUME NoProcAssumption == NoProc \notin Procs
ASSUME NoHandlerAssumption == NoHandler \notin Handlers

VARIABLES proc,   \* proc[p]: life cycle of process p
          pc,     \* pc[p][h]: where request goroutine h of p stands
          busy,   \* busy[p]: the goroutine in the slot of p's Runner.busy
          flock,  \* the process whose open file holds the flock
          todo    \* todo[p][h]: locked sections left in h's request

vars == <<proc, pc, busy, flock, todo>>

ProcStates == {"off", "starting", "recovering", "serving", "draining"}
HandlerStates == {"idle", "arrived", "slot", "working", "unlocked"}

Init == /\ proc = [p \in Procs |-> "off"]
        /\ pc = [p \in Procs |-> [h \in Handlers |-> "idle"]]
        /\ busy = [p \in Procs |-> NoHandler]
        /\ flock = NoProc
        /\ todo = [p \in Procs |-> [h \in Handlers |-> 0]]

(* flock(LOCK_EX|LOCK_NB) by p succeeds: free, or already p's own file.    *)
TryOK(p) == flock \in {NoProc, p}

(* flock(LOCK_UN) on p's file releases what p holds and nothing else.      *)
AfterUnlock(p) == IF flock = p THEN NoProc ELSE flock

-----------------------------------------------------------------------------
(* Life cycle of a process.                                                *)

(* A process opens the lock file; nothing is held yet.                     *)
Start(p) == /\ proc[p] = "off"
            /\ proc' = [proc EXCEPT ![p] = "starting"]
            /\ UNCHANGED <<pc, busy, flock, todo>>

(* Startup requires an idle node lock, and does not use the slot: no       *)
(* handler runs before New returns.  A busy lock ends the process.         *)
TryStart(p) == /\ proc[p] = "starting"
               /\ \/ /\ TryOK(p)
                     /\ flock' = p
                     /\ proc' = [proc EXCEPT ![p] = "recovering"]
                  \/ /\ ~TryOK(p)
                     /\ proc' = [proc EXCEPT ![p] = "off"]
                     /\ UNCHANGED flock
               /\ UNCHANGED <<pc, busy, todo>>

(* The deferred Unlock of startup: the service then serves; -adopt-target, *)
(* or a service whose recovery returned an error, ends.                    *)
EndStart(p) == /\ proc[p] = "recovering"
               /\ flock' = AfterUnlock(p)
               /\ \E next \in {"serving", "off"} : proc' = [proc EXCEPT ![p] = next]
               /\ UNCHANGED <<pc, busy, todo>>

(* Stop, then Shutdown closes the listener: no request arrives any more.   *)
Stop(p) == /\ proc[p] = "serving"
           /\ proc' = [proc EXCEPT ![p] = "draining"]
           /\ UNCHANGED <<pc, busy, flock, todo>>

(* Shutdown waits for the requests in flight, Wait for the slot.           *)
Exit(p) == /\ proc[p] = "draining"
           /\ \A h \in Handlers : pc[p][h] = "idle"
           /\ busy[p] = NoHandler
           /\ proc' = [proc EXCEPT ![p] = "off"]
           /\ UNCHANGED <<pc, busy, flock, todo>>

(* A crash, or a shutdown that ran out of time: the kernel closes the file *)
(* and drops its flock.                                                    *)
Crash(p) == /\ proc[p] # "off"
            /\ proc' = [proc EXCEPT ![p] = "off"]
            /\ pc' = [pc EXCEPT ![p] = [h \in Handlers |-> "idle"]]
            /\ busy' = [busy EXCEPT ![p] = NoHandler]
            /\ flock' = AfterUnlock(p)
            /\ todo' = [todo EXCEPT ![p] = [h \in Handlers |-> 0]]

-----------------------------------------------------------------------------
(* A request that writes: Resolve, apply and runNginxCommand all enter and *)
(* leave a locked section this way.                                        *)

(* An apply that registers a new target has two sections, Resolve's and    *)
(* its transaction; every other request has one.                           *)
Arrive(p, h) == /\ proc[p] = "serving"
                /\ pc[p][h] = "idle"
                /\ pc' = [pc EXCEPT ![p][h] = "arrived"]
                /\ \E n \in {1, 2} : todo' = [todo EXCEPT ![p][h] = n]
                /\ UNCHANGED <<proc, busy, flock>>

(* A request answered NODE_BUSY ends, whatever it still had to do.         *)
Refuse(p, h) == /\ pc' = [pc EXCEPT ![p][h] = "idle"]
                /\ todo' = [todo EXCEPT ![p][h] = 0]

(* Mutant: the flock alone, without the slot.                              *)
TrySlotUnguarded(p, h) == /\ pc[p][h] = "arrived"
                          /\ busy' = [busy EXCEPT ![p] = h]
                          /\ pc' = [pc EXCEPT ![p][h] = "slot"]
                          /\ UNCHANGED <<proc, flock, todo>>

(* select on r.busy with a default: a full slot is answered NODE_BUSY.     *)
TrySlot(p, h) == /\ pc[p][h] = "arrived"
                 /\ \/ /\ busy[p] = NoHandler
                       /\ busy' = [busy EXCEPT ![p] = h]
                       /\ pc' = [pc EXCEPT ![p][h] = "slot"]
                       /\ UNCHANGED todo
                    \/ /\ busy[p] # NoHandler
                       /\ Refuse(p, h)
                       /\ UNCHANGED busy
                 /\ UNCHANGED <<proc, flock>>

(* Mutant: the early return on a busy lock forgets the slot.               *)
TryLockKeepingSlot(p, h) ==
    /\ pc[p][h] = "slot"
    /\ \/ /\ TryOK(p)
          /\ flock' = p
          /\ pc' = [pc EXCEPT ![p][h] = "working"]
          /\ UNCHANGED todo
       \/ /\ ~TryOK(p)
          /\ Refuse(p, h)
          /\ UNCHANGED flock
    /\ UNCHANGED <<proc, busy>>

(* nodeLock.Try under the slot: if another process publishes, the deferred *)
(* receive frees the slot and the request is answered NODE_BUSY.           *)
TryLock(p, h) == /\ pc[p][h] = "slot"
                 /\ \/ /\ TryOK(p)
                       /\ flock' = p
                       /\ pc' = [pc EXCEPT ![p][h] = "working"]
                       /\ UNCHANGED <<busy, todo>>
                    \/ /\ ~TryOK(p)
                       /\ Refuse(p, h)
                       /\ busy' = [busy EXCEPT ![p] = NoHandler]
                       /\ UNCHANGED flock
                 /\ UNCHANGED proc

(* Mutant: the two deferred releases run in the opposite order.            *)
UnlockAfterSlot(p, h) ==
    /\ pc[p][h] = "working"
    /\ \/ /\ busy[p] = h
          /\ busy' = [busy EXCEPT ![p] = NoHandler]
          /\ UNCHANGED <<pc, flock>>
       \/ /\ busy[p] # h
          /\ flock' = AfterUnlock(p)
          /\ pc' = [pc EXCEPT ![p][h] = "idle"]
          /\ UNCHANGED busy
    /\ UNCHANGED <<proc, todo>>

(* Deferred calls run last-in first-out: the flock is released first ...   *)
Unlock(p, h) == /\ pc[p][h] = "working"
                /\ flock' = AfterUnlock(p)
                /\ pc' = [pc EXCEPT ![p][h] = "unlocked"]
                /\ UNCHANGED <<proc, busy, todo>>

(* Mutant: Resolve returns to apply without giving the slot back.          *)
FreeSlotAtEnd(p, h) ==
    /\ pc[p][h] = "unlocked"
    /\ todo' = [todo EXCEPT ![p][h] = @ - 1]
    /\ \/ /\ todo[p][h] = 1
          /\ busy' = [busy EXCEPT ![p] = NoHandler]
          /\ pc' = [pc EXCEPT ![p][h] = "idle"]
       \/ /\ todo[p][h] > 1
          /\ pc' = [pc EXCEPT ![p][h] = "idle"]
          /\ UNCHANGED busy
    /\ UNCHANGED <<proc, flock>>

(* Mutant: one section too many.                                           *)
FreeSlotOneMore(p, h) ==
    /\ pc[p][h] = "unlocked"
    /\ busy' = [busy EXCEPT ![p] = NoHandler]
    /\ todo' = [todo EXCEPT ![p][h] = @ - 1]
    /\ pc' = [pc EXCEPT ![p][h] = IF todo[p][h] > 0 THEN "arrived" ELSE "idle"]
    /\ UNCHANGED <<proc, flock>>

(* ... then the slot; the request ends or enters its next section.         *)
FreeSlot(p, h) == /\ pc[p][h] = "unlocked"
                  /\ busy' = [busy EXCEPT ![p] = NoHandler]
                  /\ todo' = [todo EXCEPT ![p][h] = @ - 1]
                  /\ pc' = [pc EXCEPT ![p][h] =
                                IF todo[p][h] > 1 THEN "arrived" ELSE "idle"]
                  /\ UNCHANGED <<proc, flock>>

-----------------------------------------------------------------------------
Request(p, h) == \/ Arrive(p, h)
                 \/ TrySlot(p, h)
                 \/ TryLock(p, h)
                 \/ Unlock(p, h)
                 \/ FreeSlot(p, h)

Next == \E p \in Procs :
            \/ Start(p)
            \/ TryStart(p)
            \/ EndStart(p)
            \/ Stop(p)
            \/ Exit(p)
            \/ Crash(p)
            \/ \E h \in Handlers : Request(p, h)

Spec == Init /\ [][Next]_vars

(* A goroutine that is inside a request keeps running, and so does main    *)
(* after a signal.  Requests, signals, starts and crashes are not assumed. *)
Fairness == \A p \in Procs :
                /\ WF_vars(TryStart(p))
                /\ WF_vars(EndStart(p))
                /\ WF_vars(Exit(p))
                /\ \A h \in Handlers : /\ WF_vars(TrySlot(p, h))
                                       /\ WF_vars(TryLock(p, h))
                                       /\ WF_vars(Unlock(p, h))
                                       /\ WF_vars(FreeSlot(p, h))

FairSpec == Spec /\ Fairness

-----------------------------------------------------------------------------
(* The types of the variables.                                             *)
TypeOK == /\ proc \in [Procs -> ProcStates]
          /\ pc \in [Procs -> [Handlers -> HandlerStates]]
          /\ busy \in [Procs -> Handlers \cup {NoHandler}]
          /\ flock \in Procs \cup {NoProc}
          /\ todo \in [Procs -> [Handlers -> 0..2]]

(* Everyone who may write the node: a process in startup recovery or       *)
(* adoption, and the goroutines between nodeLock.Try and Unlock.           *)
Writers == {<<p, NoHandler>> : p \in {q \in Procs : proc[q] = "recovering"}}
           \cup {w \in Procs \X Handlers : pc[w[1]][w[2]] = "working"}

(* At most one writer on the node, over all processes and goroutines: the  *)
(* premise under which a release transaction is modelled sequentially.     *)
OneWriter == \A v, w \in Writers : v = w

(* While someone writes, the flock is held by the writer's process: no     *)
(* release by another goroutine takes it away in the middle of a           *)
(* transaction.                                                            *)
WriterHoldsLock == \A w \in Writers : flock = w[1]

(* Every path gives back what it took: a held flock has a writer, and a    *)
(* taken slot has its goroutine inside.  A leak would answer NODE_BUSY to  *)
(* every later request.                                                    *)
NothingLeaks ==
    /\ flock # NoProc => \E w \in Writers : w[1] = flock
    /\ \A p \in Procs :
           busy[p] # NoHandler => pc[p][busy[p]] \in {"slot", "working", "unlocked"}

(* The inductive invariant behind the three properties above: the slot     *)
(* names exactly the goroutine inside, whoever writes owns the flock and   *)
(* conversely, a process that does not serve has no goroutine inside, and  *)
(* a request has sections left exactly while it runs.                      *)
Discipline ==
    /\ \A p \in Procs : \A h \in Handlers :
           /\ pc[p][h] \in {"slot", "working", "unlocked"} <=> busy[p] = h
           /\ pc[p][h] = "working" => flock = p
           /\ pc[p][h] = "idle" <=> todo[p][h] = 0
           /\ proc[p] \in {"off", "starting", "recovering"} => pc[p][h] = "idle"
    /\ \A p \in Procs : proc[p] = "recovering" => flock = p
    /\ flock # NoProc => \/ proc[flock] = "recovering"
                         \/ \E h \in Handlers : pc[flock][h] = "working"

(* After a signal the service does end: the requests in flight drain and   *)
(* Wait gets the slot.                                                     *)
ShutdownEnds == \A p \in Procs : proc[p] = "draining" ~> proc[p] = "off"
=============================================================================
