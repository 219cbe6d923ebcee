--------------------------- MODULE NodeLockProofs ---------------------------
(***************************************************************************)
(* For any number of processes and of request goroutines, at most one      *)
(* writer works on the node and its process holds the flock, and nothing   *)
(* taken is left behind.                                                   *)
(***************************************************************************)
EXTENDS NodeLock, TLAPS

IInv == TypeOK /\ Discipline

-----------------------------------------------------------------------------
(* The invariant holds when every process is off.                          *)
LEMMA InitIInv == Init => IInv
BY NoProcAssumption, NoHandlerAssumption
   DEF Init, IInv, TypeOK, Discipline, ProcStates, HandlerStates

(* The steps of a process's life cycle keep it.                            *)
LEMMA LifeCycleKeepsIInv ==
    ASSUME IInv, NEW p \in Procs,
           Start(p) \/ TryStart(p) \/ EndStart(p) \/ Stop(p) \/ Exit(p) \/ Crash(p)
    PROVE  IInv'
<1> USE NoProcAssumption, NoHandlerAssumption
        DEF IInv, TypeOK, Discipline, ProcStates, HandlerStates
<1>1. CASE Start(p)
  BY <1>1 DEF Start
<1>2. CASE TryStart(p)
  BY <1>2 DEF TryStart, TryOK
<1>3. CASE EndStart(p)
  BY <1>3 DEF EndStart, AfterUnlock
<1>4. CASE Stop(p)
  BY <1>4 DEF Stop
<1>5. CASE Exit(p)
  BY <1>5 DEF Exit
<1>6. CASE Crash(p)
  BY <1>6 DEF Crash, AfterUnlock
<1>7. QED
  BY <1>1, <1>2, <1>3, <1>4, <1>5, <1>6

(* The steps of a request keep it.                                         *)
LEMMA RequestKeepsIInv ==
    ASSUME IInv, NEW p \in Procs, NEW h \in Handlers, Request(p, h)
    PROVE  IInv'
<1> USE NoProcAssumption, NoHandlerAssumption
        DEF IInv, TypeOK, Discipline, ProcStates, HandlerStates
<1>1. CASE Arrive(p, h)
  BY <1>1 DEF Arrive
<1>2. CASE TrySlot(p, h)
  <2>1. CASE busy[p] = NoHandler
    <3>1. /\ pc[p][h] = "arrived"
          /\ busy' = [busy EXCEPT ![p] = h]
          /\ pc' = [pc EXCEPT ![p][h] = "slot"]
          /\ UNCHANGED <<proc, flock, todo>>
      BY <1>2, <2>1 DEF TrySlot
    <3>2. QED
      BY <2>1, <3>1
  <2>2. CASE busy[p] # NoHandler
    <3>1. /\ pc[p][h] = "arrived"
          /\ pc' = [pc EXCEPT ![p][h] = "idle"]
          /\ todo' = [todo EXCEPT ![p][h] = 0]
          /\ UNCHANGED <<proc, busy, flock>>
      BY <1>2, <2>2 DEF TrySlot, Refuse
    <3>2. QED
      BY <2>2, <3>1
  <2>3. QED
    BY <2>1, <2>2
<1>3. CASE TryLock(p, h)
  <2>1. CASE TryOK(p)
    <3>1. /\ pc[p][h] = "slot"
          /\ flock' = p
          /\ pc' = [pc EXCEPT ![p][h] = "working"]
          /\ UNCHANGED <<proc, busy, todo>>
      BY <1>3, <2>1 DEF TryLock
    <3>2. QED
      BY <2>1, <3>1 DEF TryOK
  <2>2. CASE ~TryOK(p)
    <3>1. /\ pc[p][h] = "slot"
          /\ pc' = [pc EXCEPT ![p][h] = "idle"]
          /\ todo' = [todo EXCEPT ![p][h] = 0]
          /\ busy' = [busy EXCEPT ![p] = NoHandler]
          /\ UNCHANGED <<proc, flock>>
      BY <1>3, <2>2 DEF TryLock, Refuse
    <3>2. QED
      BY <2>2, <3>1 DEF TryOK
  <2>3. QED
    BY <2>1, <2>2
<1>4. CASE Unlock(p, h)
  BY <1>4 DEF Unlock, AfterUnlock
<1>5. CASE FreeSlot(p, h)
  BY <1>5 DEF FreeSlot
<1>6. QED
  BY <1>1, <1>2, <1>3, <1>4, <1>5 DEF Request

(* Every behaviour keeps it.                                               *)
LEMMA Inductive == Spec => []IInv
<1>1. IInv /\ [Next]_vars => IInv'
  <2> SUFFICES ASSUME IInv, [Next]_vars PROVE IInv'
    OBVIOUS
  <2>1. CASE Next
    BY <2>1, LifeCycleKeepsIInv, RequestKeepsIInv DEF Next
  <2>2. CASE UNCHANGED vars
    BY <2>2 DEF vars, IInv, TypeOK, Discipline
  <2>3. QED
    BY <2>1, <2>2
<1>2. QED
  BY InitIInv, <1>1, PTL DEF Spec

-----------------------------------------------------------------------------
(* Every variable keeps its type.                                          *)
THEOREM TypeCorrect == Spec => []TypeOK
<1>1. IInv => TypeOK
  BY DEF IInv
<1>2. QED
  BY <1>1, Inductive, PTL

(* The process that writes holds the flock.                                *)
THEOREM LockHeld == Spec => []WriterHoldsLock
<1>1. IInv => WriterHoldsLock
  BY DEF IInv, Discipline, WriterHoldsLock, Writers
<1>2. QED
  BY <1>1, Inductive, PTL

(* Mutual exclusion over all the processes and goroutines of the node.     *)
THEOREM MutualExclusion == Spec => []OneWriter
<1>1. IInv => OneWriter
  <2> SUFFICES ASSUME IInv, NEW v \in Writers, NEW w \in Writers
               PROVE  v = w
    BY DEF OneWriter
  <2>1. v[1] = flock /\ w[1] = flock
    BY DEF IInv, Discipline, Writers
  <2>2. v[1] \in Procs /\ w[1] \in Procs
    BY DEF Writers
  <2>3. CASE proc[flock] = "recovering"
    <3>1. \A h \in Handlers : pc[flock][h] # "working"
      BY <2>1, <2>2, <2>3 DEF IInv, Discipline
    <3>2. QED
      BY <2>1, <3>1 DEF Writers
  <2>4. CASE proc[flock] # "recovering"
    <3>1. /\ v \in Procs \X Handlers /\ pc[v[1]][v[2]] = "working"
          /\ w \in Procs \X Handlers /\ pc[w[1]][w[2]] = "working"
      BY <2>1, <2>4 DEF Writers
    <3>2. busy[flock] = v[2] /\ busy[flock] = w[2]
      BY <2>1, <3>1 DEF IInv, Discipline
    <3>3. /\ v = <<v[1], v[2]>>
          /\ w = <<w[1], w[2]>>
      BY <3>1
    <3>4. QED
      BY <2>1, <3>2, <3>3
  <2>5. QED
    BY <2>3, <2>4
<1>2. QED
  BY <1>1, Inductive, PTL

(* Slot and flock are handed over as Discipline says: the slot names the   *)
(* goroutine inside, and the flock belongs to the process that writes.     *)
THEOREM Disciplined == Spec => []Discipline
<1>1. IInv => Discipline
  BY DEF IInv
<1>2. QED
  BY <1>1, Inductive, PTL

(* A lock that is held has somebody inside.                                *)
THEOREM LocksReturned == Spec => []NothingLeaks
<1>1. IInv => NothingLeaks
  <2> SUFFICES ASSUME IInv PROVE NothingLeaks
    OBVIOUS
  <2>1. flock # NoProc => \E w \in Writers : w[1] = flock
    <3> SUFFICES ASSUME flock # NoProc PROVE \E w \in Writers : w[1] = flock
      OBVIOUS
    <3>1. flock \in Procs
      BY DEF IInv, TypeOK
    <3>2. CASE proc[flock] = "recovering"
      <4>1. <<flock, NoHandler>> \in Writers
        BY <3>1, <3>2 DEF Writers
      <4>2. QED
        BY <4>1
    <3>3. CASE \E h \in Handlers : pc[flock][h] = "working"
      <4>1. PICK h \in Handlers : pc[flock][h] = "working"
        BY <3>3
      <4>2. <<flock, h>> \in Writers
        BY <3>1, <4>1 DEF Writers
      <4>3. QED
        BY <4>2
    <3>4. QED
      BY <3>2, <3>3 DEF IInv, Discipline
  <2>2. ASSUME NEW p \in Procs, busy[p] # NoHandler
        PROVE  pc[p][busy[p]] \in {"slot", "working", "unlocked"}
    BY <2>2 DEF IInv, TypeOK, Discipline
  <2>3. QED
    BY <2>1, <2>2 DEF NothingLeaks
<1>2. QED
  BY <1>1, Inductive, PTL
=============================================================================
