---------------------------- MODULE TargetsProofs ----------------------------
(***************************************************************************)
(* For any homes, processes, directories and configurations, whatever      *)
(* crashes, fails or is lost: the registry is well typed, and a directory  *)
(* is managed by one installation for one environment.                     *)
(***************************************************************************)
EXTENDS Targets, TLAPS

(* What a process is busy with fits the place where it stands.             *)
Fits(place, what) ==
    /\ place \notin {"off", "idle"} => what.why # "none"
    /\ place \notin {"off", "idle", "start"} => what.name \in Names
    /\ place \in {"queued", "work", "built", "uncertain"} =>
           what.why = "request" /\ what.release \in Releases
    /\ place \in {"start", "recover"} => what.why = "start"
    /\ place \in {"adopt", "remove", "rebuild"} => what.why = "adopt"
    /\ place \in {"ensure", "save"} => what.why \in {"start", "request"}

Doing == \A p \in Procs : Fits(pc[p], job[p])

Typed == TypeOK /\ Doing

(* A state belongs to the target it is kept for: its directory has the     *)
(* marker of this installation and of the environment.                     *)
Belongs(mark, h, id, st) == st # NoState => /\ st.name \in Names /\ Id(st.name) = id
                                            /\ mark[id[2]] = <<h, id[1]>>

(* A process that ended remembers nothing, and one that is going to save a *)
(* state has it in its views.                                              *)
Remembered ==
    \A p \in Procs :
        /\ pc[p] = "off" => views[p] = Nothing
        /\ pc[p] \in {"recover", "work", "built", "uncertain"} =>
               views[p][Target(p)] # NoState

(* A marker is written by the one process that created it, and is there    *)
(* when a state is saved.                                                  *)
Marking ==
    /\ \A p \in Procs :
          /\ pc[p] = "mark" => marker[job[p].name.place] = Unwritten
          /\ pc[p] = "save" => marker[job[p].name.place] = Owner(p, job[p].name)
    /\ \A p, q \in Procs :
          pc[p] = "mark" /\ pc[q] = "mark" /\ job[p].name.place = job[q].name.place
              => p = q

Sound == /\ \A h \in Homes, id \in Ids : Belongs(marker, h, id, disk[h][id])
         /\ \A p \in Procs, id \in Ids : Belongs(marker, home[p], id, views[p][id])
         /\ Remembered
         /\ Marking

-----------------------------------------------------------------------------
LEMMA StatesTyped ==
    /\ NoState \in TargetState /\ Nothing \in [Ids -> TargetState] /\ NoJob \in Job
    /\ \A st \in TargetState, r \in Releases : Accepted(st, r) \in TargetState
    /\ \A n \in Names, b \in BOOLEAN :
           [NoState EXCEPT !.name = n, !.recovery = b] \in TargetState
    /\ \A st \in TargetState, n \in Names : [st EXCEPT !.name = n] \in TargetState
    /\ \A st \in TargetState, b \in BOOLEAN :
           /\ [st EXCEPT !.recovery = b] \in TargetState
           /\ Succeeded(st) \in TargetState /\ Failed(st) \in TargetState
<1> USE DEF TargetState, NoState, Accepted, Succeeded, Failed
<1>1. NoState \in TargetState
  OBVIOUS
<1>2. Nothing \in [Ids -> TargetState]
  BY <1>1 DEF Nothing
<1>3. NoJob \in Job
  BY DEF NoJob, Job
<1>4. \A n \in Names, b \in BOOLEAN :
         [NoState EXCEPT !.name = n, !.recovery = b] \in TargetState
  BY <1>1
<1> QED BY <1>1, <1>2, <1>3, <1>4

(* A step of p that leads to a fitting place.                              *)
LEMMA ElsewhereDoing ==
    ASSUME Typed, NEW p \in Procs, NEW place, NEW what \in Job,
           pc' = [pc EXCEPT ![p] = place], job' = [job EXCEPT ![p] = what],
           place \in Pcs, Fits(place, what)
    PROVE  Doing' /\ pc' \in [Procs -> Pcs] /\ job' \in [Procs -> Job]
<1>1. pc \in [Procs -> Pcs] /\ job \in [Procs -> Job] /\ Doing
  BY DEF Typed, TypeOK
<1>2. \A q \in Procs : Fits(pc'[q], job'[q])
  <2> TAKE q \in Procs
  <2>1. CASE q = p
    BY <1>1, <2>1
  <2>2. CASE q # p
    <3>1. pc'[q] = pc[q] /\ job'[q] = job[q]
      BY <1>1, <2>2
    <3> QED BY <1>1, <3>1 DEF Doing
  <2> QED BY <2>1, <2>2
<1> QED BY <1>1, <1>2 DEF Doing

(* A state that is saved well typed leaves disk and views well typed.      *)
LEMMA WrittenTyped ==
    ASSUME Typed, NEW p \in Procs, home[p] \in Homes, job[p].name \in Names,
           NEW st \in TargetState
    PROVE  /\ Target(p) \in Ids
           /\ Written(p, st) \in [Homes -> [Ids -> TargetState]]
           /\ [views EXCEPT ![p][Target(p)] = st] \in [Procs -> [Ids -> TargetState]]
<1>1. Target(p) \in Ids
  BY DEF Target, Ids
<1> QED BY <1>1 DEF Written, Typed, TypeOK

(* Giving up, and answering.                                               *)
LEMMA RefuseTyped ==
    ASSUME Typed, NEW p \in Procs, pc[p] # "off", Refuse(p)
    PROVE  /\ lock' \in [Homes -> Procs \cup {NoProc}]
           /\ home' \in [Procs -> Homes \cup {NoHome}]
           /\ \A q \in Procs : home'[q] = NoHome <=> pc'[q] = "off"
           /\ pc' \in [Procs -> Pcs] /\ job' \in [Procs -> Job]
           /\ views' \in [Procs -> [Ids -> TargetState]]
           /\ todo' \in [Procs -> SUBSET Names] /\ blocked' \in [Procs -> BOOLEAN]
           /\ Doing'
<1>1. home[p] \in Homes
  BY NoHomeAssumption DEF Typed, TypeOK
<1>a. Doing /\ lock \in [Homes -> Procs \cup {NoProc}]
      /\ home \in [Procs -> Homes \cup {NoHome}]
      /\ (\A q \in Procs : home[q] = NoHome <=> pc[q] = "off")
      /\ pc \in [Procs -> Pcs] /\ job \in [Procs -> Job]
      /\ views \in [Procs -> [Ids -> TargetState]]
      /\ todo \in [Procs -> SUBSET Names] /\ blocked \in [Procs -> BOOLEAN]
  BY DEF Typed, TypeOK
<1> USE StatesTyped DEF Refuse, Leave, Release, Goto, Forget, memory
<1>2. /\ lock' \in [Homes -> Procs \cup {NoProc}]
      /\ pc' \in [Procs -> Pcs] /\ job' \in [Procs -> Job]
      /\ pc' = [pc EXCEPT ![p] = pc'[p]] /\ pc'[p] \in {"idle", "off"}
      /\ job' = [job EXCEPT ![p] = NoJob]
  BY <1>1, <1>a DEF Pcs
<1>3. Doing'
  <2>1. Fits(pc'[p], NoJob)
    BY <1>2 DEF Fits
  <2> QED BY <1>2, <2>1, ElsewhereDoing DEF Pcs
<1>4. CASE job[p].why = "request"
  <2>1. UNCHANGED <<home, views, todo, blocked>> /\ pc'[p] = "idle"
    BY <1>4, <1>a
  <2>2. \A q \in Procs : home'[q] = NoHome <=> pc'[q] = "off"
    BY <1>1, <1>a, <1>2, <2>1, NoHomeAssumption
  <2> QED BY <1>a, <1>2, <1>3, <2>1, <2>2
<1>5. CASE job[p].why # "request"
  <2>1. /\ home' = [home EXCEPT ![p] = NoHome] /\ pc'[p] = "off"
        /\ views' = [views EXCEPT ![p] = Nothing]
        /\ todo' = [todo EXCEPT ![p] = {}]
        /\ blocked' = [blocked EXCEPT ![p] = FALSE]
    BY <1>5, <1>a
  <2>2. \A q \in Procs : home'[q] = NoHome <=> pc'[q] = "off"
    BY <1>a, <1>2, <2>1
  <2>3. home' \in [Procs -> Homes \cup {NoHome}] /\ todo' \in [Procs -> SUBSET Names]
        /\ views' \in [Procs -> [Ids -> TargetState]]
    BY <1>a, <2>1
  <2>4. blocked' \in [Procs -> BOOLEAN]
    BY <1>a, <2>1
  <2> QED BY <1>2, <1>3, <2>2, <2>3, <2>4
<1> QED BY <1>4, <1>5

LEMMA MishapTyped ==
    ASSUME Typed, NEW h \in Homes, Mishap(h)
    PROVE  mishaps' \in [Homes -> Nat]
BY DEF Mishap, Typed, TypeOK

(* ensureTarget.                                                           *)
LEMMA EnsureTyped ==
    ASSUME Typed, NEW p \in Procs, Claim(p) \/ Deny(p) \/ Mark(p)
    PROVE  Typed'
<1>1. /\ pc[p] # "off" /\ home[p] \in Homes /\ job[p] \in Job
      /\ job[p].name \in Names /\ Fits(pc[p], job[p])
      /\ job = [job EXCEPT ![p] = job[p]]
  <2>1. pc[p] \in {"ensure", "adopt", "mark"}
    BY DEF Claim, Deny, Mark
  <2> QED BY <2>1, NoHomeAssumption DEF Typed, TypeOK, Doing, Fits
<1>2. CASE Refuse(p) /\ UNCHANGED <<config, marker, files, disk, mishaps>>
  BY <1>1, <1>2, RefuseTyped DEF Typed, TypeOK
<1>3. CASE Claim(p) /\ ~(Refuse(p) /\ UNCHANGED marker)
  <2>1. /\ UNCHANGED <<config, files, disk, mishaps, inside>>
        /\ marker' \in [Places -> {Unclaimed, Unwritten} \cup (Homes \X Envs)]
    BY <1>3 DEF Claim, Typed, TypeOK, inside
  <2>2. PICK place \in {"mark", "remove", "save"} :
           Goto(p, place) /\ (place = "remove" => job[p].why = "adopt")
           /\ (place = "save" => job[p].why # "adopt")
    BY <1>3 DEF Claim, Claimed
  <2>3. Fits(place, job[p])
    BY <1>1, <1>3, <2>2 DEF Fits, Claim, Job
  <2>4. Doing' /\ pc' \in [Procs -> Pcs]
    BY <1>1, <2>1, <2>2, <2>3, ElsewhereDoing DEF Goto, Pcs, inside
  <2>5. \A q \in Procs : home'[q] = NoHome <=> pc'[q] = "off"
    BY <1>1, <2>1, <2>2 DEF Goto, Typed, TypeOK, inside, memory
  <2> QED BY <2>1, <2>4, <2>5 DEF Typed, TypeOK, inside, memory
<1>4. CASE Mark(p)
  <2>1. /\ UNCHANGED <<config, files, disk>>
        /\ marker' \in [Places -> {Unclaimed, Unwritten} \cup (Homes \X Envs)]
    <3>1. Owner(p, job[p].name) \in Homes \X Envs
      BY <1>1 DEF Owner, Envs
    <3>2. Marked(p) \in [Places -> {Unclaimed, Unwritten} \cup (Homes \X Envs)]
      BY <3>1 DEF Marked, Typed, TypeOK
    <3>3. marker' \in {marker, Marked(p)} /\ UNCHANGED <<config, files, disk>>
      BY <1>4 DEF Mark
    <3> QED BY <3>2, <3>3 DEF Typed, TypeOK
  <2>2. CASE Mishap(home[p]) /\ Refuse(p)
    BY <1>1, <2>1, <2>2, RefuseTyped, MishapTyped DEF Typed, TypeOK
  <2>3. CASE Claimed(p) /\ UNCHANGED <<inside, mishaps>>
    <3>1. PICK place \in {"remove", "save"} :
             Goto(p, place) /\ (place = "remove" => job[p].why = "adopt")
             /\ (place = "save" => job[p].why # "adopt")
      BY <2>3 DEF Claimed
    <3>2. Fits(place, job[p])
      BY <1>1, <1>4, <3>1 DEF Fits, Mark, Job
    <3>3. Doing' /\ pc' \in [Procs -> Pcs]
      BY <1>1, <2>3, <3>1, <3>2, ElsewhereDoing DEF Goto, Pcs, inside
    <3>4. \A q \in Procs : home'[q] = NoHome <=> pc'[q] = "off"
      BY <1>1, <2>3, <3>1 DEF Goto, Typed, TypeOK, inside, memory
    <3> QED BY <2>1, <2>3, <3>3, <3>4 DEF Typed, TypeOK, inside, memory
  <2> QED BY <1>4, <2>2, <2>3 DEF Mark
<1>5. CASE Deny(p)
  BY <1>2, <1>5 DEF Deny
<1>6. CASE Claim(p) /\ Refuse(p) /\ UNCHANGED marker
  BY <1>2, <1>6 DEF Claim
<1> QED BY <1>3, <1>4, <1>5, <1>6

(* A step of p that goes on in the same process with a state saved, or not. *)
LEMMA SaveTyped ==
    ASSUME Typed, NEW p \in Procs, home[p] \in Homes, job[p].name \in Names,
           NEW st \in TargetState
    PROVE  /\ Save(p, st) => /\ disk' \in [Homes -> [Ids -> TargetState]]
                             /\ views' \in [Procs -> [Ids -> TargetState]]
                             /\ mishaps' \in [Homes -> Nat]
           /\ SaveFails(p, st) => /\ disk' \in [Homes -> [Ids -> TargetState]]
                                  /\ views' \in [Procs -> [Ids -> TargetState]]
                                  /\ mishaps' \in [Homes -> Nat]
<1>1. /\ Written(p, st) \in [Homes -> [Ids -> TargetState]]
      /\ [views EXCEPT ![p][Target(p)] = st] \in [Procs -> [Ids -> TargetState]]
  BY WrittenTyped
<1>2. /\ disk \in [Homes -> [Ids -> TargetState]] /\ mishaps \in [Homes -> Nat]
      /\ views \in [Procs -> [Ids -> TargetState]]
  BY DEF Typed, TypeOK
<1>3. Mishap(home[p]) => mishaps' \in [Homes -> Nat]
  BY MishapTyped
<1> QED BY <1>1, <1>2, <1>3 DEF Save, SaveFails

(* A process that goes from one place to another, both of them "on".       *)
LEMMA StaysOn ==
    ASSUME Typed, NEW p \in Procs, NEW place, place \in Pcs, place # "off",
           pc[p] # "off", Goto(p, place), UNCHANGED home
    PROVE  /\ home' \in [Procs -> Homes \cup {NoHome}]
           /\ \A q \in Procs : home'[q] = NoHome <=> pc'[q] = "off"
           /\ pc' \in [Procs -> Pcs]
BY DEF Goto, Typed, TypeOK

LEMMA LockTyped ==
    ASSUME Typed, NEW p \in Procs, Release(p) \/ Take(p) \/ UNCHANGED lock
    PROVE  lock' \in [Homes -> Procs \cup {NoProc}]
BY DEF Release, Take, Typed, TypeOK

LEMMA LookTyped ==
    ASSUME Typed, NEW p \in Procs, NEW wanted \in Job, NEW states,
           wanted.name \in Names, wanted.why = "request",
           Look(p, wanted, states)
    PROVE  \E place \in {"idle", "queued"}, what \in Job :
              /\ Goto(p, place) /\ job' = [job EXCEPT ![p] = what]
              /\ Fits(place, what)
<1>1. CASE Goto(p, "idle") /\ job' = [job EXCEPT ![p] = NoJob]
  BY <1>1, StatesTyped DEF Fits
<1>2. CASE wanted.release # NoRelease /\ Goto(p, "queued")
           /\ job' = [job EXCEPT ![p] = wanted]
  <2>1. Fits("queued", wanted)
    BY <1>2 DEF Fits, Job
  <2> QED BY <1>2, <2>1
<1> QED BY <1>1, <1>2 DEF Look

LEMMA RegisterTyped ==
    ASSUME Typed, NEW p \in Procs, Register(p)
    PROVE  Typed'
<1>1. /\ pc[p] = "save" /\ home[p] \in Homes /\ job[p] \in Job
      /\ job[p].name \in Names /\ Fits(pc[p], job[p])
      /\ job = [job EXCEPT ![p] = job[p]]
  BY NoHomeAssumption DEF Register, Typed, TypeOK, Doing, Fits
<1> DEFINE st == Ensured(p, job[p].name)
<1>2. st \in TargetState /\ Target(p) \in Ids
  <2>1. Target(p) \in Ids /\ Target(p) = Id(job[p].name)
    BY <1>1, WrittenTyped, StatesTyped DEF Target
  <2>2. disk[home[p]][Target(p)] \in TargetState
    BY <1>1, <2>1 DEF Typed, TypeOK
  <2>3. PICK b \in BOOLEAN : b = (files[job[p].name.place] # "empty")
    OBVIOUS
  <2>4. st = IF disk[home[p]][Target(p)] = NoState
             THEN [NoState EXCEPT !.name = job[p].name, !.recovery = b]
             ELSE [disk[home[p]][Target(p)] EXCEPT !.name = job[p].name]
    BY <2>1, <2>3 DEF Ensured
  <2>5. [disk[home[p]][Target(p)] EXCEPT !.name = job[p].name] \in TargetState
    BY <1>1, <2>2, StatesTyped, Zenon
  <2>6. [NoState EXCEPT !.name = job[p].name, !.recovery = b] \in TargetState
    BY <1>1, <2>3, StatesTyped, Zenon
  <2> QED BY <2>1, <2>4, <2>5, <2>6
<1> HIDE DEF st
<1>3. UNCHANGED <<config, marker, files>>
  BY DEF Register
<1>4. CASE Save(p, st) /\ job[p].why = "start"
           /\ Goto(p, "recover") /\ UNCHANGED <<lock, job, home, todo, blocked>>
  <2>1. Doing' /\ job' \in [Procs -> Job]
    <3>1. Fits("recover", job[p])
      BY <1>1, <1>4 DEF Fits
    <3> QED BY <1>1, <1>4, <3>1, ElsewhereDoing DEF Goto, Pcs
  <2>2. /\ home' \in [Procs -> Homes \cup {NoHome}] /\ pc' \in [Procs -> Pcs]
        /\ \A q \in Procs : home'[q] = NoHome <=> pc'[q] = "off"
    BY <1>1, <1>4, StaysOn DEF Pcs
  <2> QED BY <1>1, <1>2, <1>3, <1>4, <2>1, <2>2, SaveTyped DEF Typed, TypeOK
<1>5. CASE Save(p, st) /\ job[p].why # "start" /\ Release(p)
           /\ Look(p, job[p], views'[p]) /\ UNCHANGED <<home, todo, blocked>>
  <2>1. PICK place \in {"idle", "queued"}, what \in Job :
              /\ Goto(p, place) /\ job' = [job EXCEPT ![p] = what]
              /\ Fits(place, what)
    BY <1>1, <1>5, LookTyped DEF Fits
  <2>2. Doing' /\ job' \in [Procs -> Job]
    BY <2>1, ElsewhereDoing DEF Goto, Pcs
  <2>3. /\ home' \in [Procs -> Homes \cup {NoHome}] /\ pc' \in [Procs -> Pcs]
        /\ \A q \in Procs : home'[q] = NoHome <=> pc'[q] = "off"
    BY <1>1, <1>5, <2>1, StaysOn DEF Pcs
  <2>4. lock' \in [Homes -> Procs \cup {NoProc}]
    BY <1>5, LockTyped
  <2> QED BY <1>1, <1>2, <1>3, <1>5, <2>2, <2>3, <2>4, SaveTyped DEF Typed, TypeOK
<1>6. CASE Mishap(home[p]) /\ disk' \in {disk, Written(p, st)} /\ Refuse(p)
  <2>1. disk' \in [Homes -> [Ids -> TargetState]]
    <3>1. disk \in [Homes -> [Ids -> TargetState]]
      BY DEF Typed, TypeOK
    <3>2. Written(p, st) \in [Homes -> [Ids -> TargetState]]
      BY <1>1, <1>2, WrittenTyped
    <3> QED BY <1>6, <3>1, <3>2
  <2>2. mishaps' \in [Homes -> Nat]
    BY <1>1, <1>6, MishapTyped
  <2>3. pc[p] # "off" /\ Refuse(p)
    BY <1>1, <1>6
  <2> QED BY <1>3, <2>1, <2>2, <2>3, RefuseTyped DEF Typed, TypeOK
<1> QED BY <1>4, <1>5, <1>6 DEF Register, st

LEMMA RequestTyped ==
    ASSUME Typed, NEW p \in Procs,
           \/ \E n \in Names, r \in Releases \cup {NoRelease} : Request(p, n, r)
           \/ Busy(p) \/ Turned(p)
    PROVE  Typed'
<1>1. /\ UNCHANGED <<config, marker, files, disk, home, todo, blocked, mishaps>>
      /\ pc[p] \in {"idle", "queued"}
  BY DEF Request, Busy, Turned, memory
<1>2. lock' \in [Homes -> Procs \cup {NoProc}]
  BY LockTyped DEF Request, Resolve, Busy, Turned
<1>3. home[p] \in Homes /\ disk[home[p]] \in [Ids -> TargetState]
  BY <1>1, NoHomeAssumption DEF Typed, TypeOK
<1>4. views' \in [Procs -> [Ids -> TargetState]]
  <2>1. UNCHANGED views \/ Load(p)
    BY DEF Request, Resolve, Busy, Turned, memory
  <2> QED BY <1>3, <2>1 DEF Load, Typed, TypeOK
<1> DEFINE Moves == \E place \in {"idle", "queued", "ensure"}, what \in Job :
                       /\ Goto(p, place) /\ job' = [job EXCEPT ![p] = what]
                       /\ Fits(place, what)
<1>5. Moves
  <2>1. CASE Busy(p) \/ Turned(p)
    BY <2>1, StatesTyped DEF Fits, Busy, Turned
  <2>2. ASSUME NEW n \in Names, NEW r \in Releases \cup {NoRelease}, Request(p, n, r)
        PROVE  Moves
    <3> DEFINE wanted == [name |-> n, release |-> r, why |-> "request"]
    <3>1. wanted \in Job /\ Fits("ensure", wanted)
      BY DEF Job, Fits
    <3>2. CASE Look(p, wanted, views[p])
      BY <3>1, <3>2, LookTyped
    <3>3. CASE Resolve(p, wanted)
      BY <3>1, <3>3 DEF Resolve
    <3> QED BY <2>2, <3>2, <3>3 DEF Request
  <2> QED BY <2>1, <2>2
<1>6. PICK place \in {"idle", "queued", "ensure"}, what \in Job :
          /\ Goto(p, place) /\ job' = [job EXCEPT ![p] = what]
          /\ Fits(place, what)
  BY <1>5
<1>7. Doing' /\ job' \in [Procs -> Job]
  BY <1>6, ElsewhereDoing DEF Goto, Pcs
<1>8. /\ pc' \in [Procs -> Pcs]
      /\ \A q \in Procs : home'[q] = NoHome <=> pc'[q] = "off"
  BY <1>1, <1>6, StaysOn DEF Pcs
<1> QED BY <1>1, <1>2, <1>4, <1>7, <1>8 DEF Typed, TypeOK

(* A state that is accepted, and what becomes of it.                       *)
LEMMA InHand ==
    ASSUME Typed, NEW p \in Procs, pc[p] \in {"queued", "work", "built", "uncertain", "recover"}
    PROVE  /\ home[p] \in Homes /\ job[p] \in Job /\ job[p].name \in Names
           /\ Target(p) \in Ids /\ Fits(pc[p], job[p])
           /\ disk[home[p]][Target(p)] \in TargetState
           /\ views[p][Target(p)] \in TargetState
           /\ pc[p] # "off" /\ job = [job EXCEPT ![p] = job[p]]
<1>1. /\ home[p] \in Homes /\ job[p] \in Job /\ job[p].name \in Names
      /\ Fits(pc[p], job[p]) /\ job = [job EXCEPT ![p] = job[p]]
  BY NoHomeAssumption DEF Typed, TypeOK, Doing, Fits
<1>2. Target(p) \in Ids
  BY <1>1 DEF Target, Ids
<1> QED BY <1>1, <1>2 DEF Typed, TypeOK

LEMMA AcceptTyped ==
    ASSUME Typed, NEW p \in Procs, Accept(p)
    PROVE  Typed'
<1> DEFINE st == Accepted(disk[home[p]][Target(p)], job[p].release)
<1>1. pc[p] = "queued" /\ UNCHANGED <<config, marker, files, home, job, todo, blocked>>
  BY DEF Accept
<1>2. /\ home[p] \in Homes /\ job[p].name \in Names /\ Fits(pc[p], job[p])
      /\ job = [job EXCEPT ![p] = job[p]] /\ job[p] \in Job
      /\ disk[home[p]][Target(p)] \in TargetState
  BY <1>1, InHand
<1>3. st \in TargetState
  <2>1. job[p].release \in Releases
    BY <1>1, <1>2 DEF Fits
  <2> QED BY <1>2, <2>1, StatesTyped
<1> HIDE DEF st
<1>4. lock' \in [Homes -> Procs \cup {NoProc}]
  BY LockTyped DEF Accept
<1>5. PICK place \in {"work", "uncertain"} : Goto(p, place)
  BY DEF Accept
<1>6. Doing' /\ job' \in [Procs -> Job]
  <2>1. Fits(place, job[p])
    BY <1>1, <1>2 DEF Fits
  <2> QED BY <1>1, <1>2, <1>5, <2>1, ElsewhereDoing DEF Goto, Pcs
<1>7. /\ pc' \in [Procs -> Pcs]
      /\ \A q \in Procs : home'[q] = NoHome <=> pc'[q] = "off"
  BY <1>1, <1>5, StaysOn DEF Pcs
<1>8. /\ disk' \in [Homes -> [Ids -> TargetState]]
      /\ views' \in [Procs -> [Ids -> TargetState]]
      /\ mishaps' \in [Homes -> Nat]
  <2>1. Written(p, st) \in [Homes -> [Ids -> TargetState]]
    BY <1>2, <1>3, WrittenTyped
  <2>2. /\ disk \in [Homes -> [Ids -> TargetState]] /\ mishaps \in [Homes -> Nat]
        /\ views \in [Procs -> [Ids -> TargetState]]
    BY DEF Typed, TypeOK
  <2>3. Mishap(home[p]) => mishaps' \in [Homes -> Nat]
    BY <1>2, MishapTyped
  <2>4. CASE /\ disk' = Written(p, st) /\ UNCHANGED mishaps
             /\ views' = [views EXCEPT ![p] = disk'[home[p]]]
    BY <1>2, <2>1, <2>2, <2>4
  <2>5. CASE /\ disk' \in {disk, Written(p, st)} /\ Mishap(home[p]) /\ Load(p)
    BY <1>2, <2>1, <2>2, <2>3, <2>5 DEF Load
  <2> QED BY <2>4, <2>5 DEF Accept, st
<1> QED BY <1>1, <1>4, <1>6, <1>7, <1>8 DEF Typed, TypeOK

(* The answer to a request.                                                *)
LEMMA LeaveTyped ==
    ASSUME Typed, NEW p \in Procs, pc[p] # "off", job[p].why = "request",
           Leave(p), UNCHANGED home
    PROVE  /\ lock' \in [Homes -> Procs \cup {NoProc}]
           /\ home' \in [Procs -> Homes \cup {NoHome}]
           /\ \A q \in Procs : home'[q] = NoHome <=> pc'[q] = "off"
           /\ pc' \in [Procs -> Pcs] /\ job' \in [Procs -> Job]
           /\ Doing'
<1>1. Release(p) /\ Goto(p, "idle") /\ job' = [job EXCEPT ![p] = NoJob]
  BY DEF Leave
<1>2. Doing' /\ job' \in [Procs -> Job]
  <2>1. Fits("idle", NoJob)
    BY DEF Fits
  <2> QED BY <1>1, <2>1, StatesTyped, ElsewhereDoing DEF Goto, Pcs
<1> QED BY <1>1, <1>2, LockTyped, StaysOn DEF Pcs

LEMMA TransactionTyped ==
    ASSUME Typed, NEW p \in Procs, Build(p) \/ Finish(p) \/ Uncertain(p) \/ Recover(p)
    PROVE  Typed'
<1>1. /\ pc[p] \in {"work", "built", "uncertain", "recover"}
      /\ UNCHANGED <<config, marker, home, todo>>
  BY DEF Build, Finish, Uncertain, Recover, inside, memory
<1>2. /\ home[p] \in Homes /\ job[p] \in Job /\ job[p].name \in Names
      /\ Target(p) \in Ids /\ Fits(pc[p], job[p])
      /\ views[p][Target(p)] \in TargetState
      /\ pc[p] # "off" /\ job = [job EXCEPT ![p] = job[p]]
  BY <1>1, InHand
<1>3. CASE Build(p)
  <2>1. /\ pc[p] = "work" /\ Goto(p, "built")
        /\ UNCHANGED <<config, marker, disk, inside, mishaps>>
        /\ files' \in [Places -> {"empty", "served", "broken"}]
    BY <1>3 DEF Build, Typed, TypeOK
  <2>2. Doing' /\ pc' \in [Procs -> Pcs]
    <3>1. Fits("built", job[p])
      BY <1>2, <2>1 DEF Fits
    <3> QED BY <1>2, <2>1, <3>1, ElsewhereDoing DEF Goto, Pcs, inside
  <2>3. \A q \in Procs : home'[q] = NoHome <=> pc'[q] = "off"
    BY <1>1, <1>2, <2>1, StaysOn DEF Pcs
  <2> QED BY <2>1, <2>2, <2>3 DEF Typed, TypeOK, inside, memory
<1>4. CASE Finish(p)
  <2>1. PICK st \in TargetState :
           \/ Save(p, st) /\ Leave(p)
           \/ SaveFails(p, st) /\ Goto(p, "uncertain") /\ UNCHANGED <<lock, job>>
    BY <1>2, <1>4, StatesTyped DEF Finish
  <2>2. /\ disk' \in [Homes -> [Ids -> TargetState]]
        /\ views' \in [Procs -> [Ids -> TargetState]]
        /\ mishaps' \in [Homes -> Nat]
    BY <1>2, <2>1, SaveTyped
  <2>3. UNCHANGED <<files, blocked>> /\ job[p].why = "request"
    BY <1>2, <1>4 DEF Finish, Fits
  <2>4. CASE Leave(p)
    BY <1>1, <1>2, <2>2, <2>3, <2>4, LeaveTyped DEF Typed, TypeOK
  <2>5. CASE Goto(p, "uncertain") /\ UNCHANGED <<lock, job>>
    <3>1. Fits("uncertain", job[p])
      BY <1>2, <1>4 DEF Fits, Finish
    <3>2. Doing'
      BY <1>2, <2>5, <3>1, ElsewhereDoing DEF Goto, Pcs
    <3>3. /\ pc' \in [Procs -> Pcs]
          /\ \A q \in Procs : home'[q] = NoHome <=> pc'[q] = "off"
      BY <1>1, <1>2, <2>5, StaysOn DEF Pcs
    <3> QED BY <1>1, <2>2, <2>3, <2>5, <3>2, <3>3 DEF Typed, TypeOK
  <2> QED BY <2>1, <2>4, <2>5
<1>5. CASE Uncertain(p)
  <2>1. /\ job[p].release \in Releases /\ job[p].why = "request"
        /\ UNCHANGED files /\ Leave(p)
    BY <1>2, <1>5 DEF Uncertain, Fits
  <2> DEFINE done == Accepted(views[p][Target(p)], job[p].release)
  <2>2. [done EXCEPT !.recovery = TRUE] \in TargetState
    BY <1>2, <2>1, StatesTyped
  <2>3. /\ Written(p, [done EXCEPT !.recovery = TRUE])
               \in [Homes -> [Ids -> TargetState]]
        /\ [views EXCEPT ![p][Target(p)] = [done EXCEPT !.recovery = TRUE]]
               \in [Procs -> [Ids -> TargetState]]
    BY <1>2, <2>2, WrittenTyped
  <2>4. /\ disk \in [Homes -> [Ids -> TargetState]] /\ mishaps \in [Homes -> Nat]
        /\ blocked \in [Procs -> BOOLEAN]
    BY DEF Typed, TypeOK
  <2>5. /\ disk' \in {disk, Written(p, [done EXCEPT !.recovery = TRUE])}
        /\ views' = [views EXCEPT ![p][Target(p)] = [done EXCEPT !.recovery = TRUE]]
        /\ UNCHANGED mishaps \/ Mishap(home[p])
        /\ blocked' \in {blocked, [blocked EXCEPT ![p] = TRUE]}
    BY <1>5 DEF Uncertain
  <2>6. /\ disk' \in [Homes -> [Ids -> TargetState]]
        /\ views' \in [Procs -> [Ids -> TargetState]]
    BY <2>3, <2>4, <2>5
  <2>7. mishaps' \in [Homes -> Nat] /\ blocked' \in [Procs -> BOOLEAN]
    BY <1>2, <2>4, <2>5, MishapTyped
  <2> QED BY <1>1, <1>2, <2>1, <2>6, <2>7, LeaveTyped DEF Typed, TypeOK
<1>6. CASE Recover(p)
  <2>1. Recovered(views[p][Target(p)]) \subseteq TargetState
    BY <1>2, StatesTyped DEF Recovered
  <2>2. PICK st \in TargetState :
           \/ Save(p, st) /\ UNCHANGED blocked
           \/ SaveFails(p, st) /\ blocked' = [blocked EXCEPT ![p] = TRUE]
    BY <1>6, <2>1 DEF Recover
  <2>3. /\ disk' \in [Homes -> [Ids -> TargetState]]
        /\ views' \in [Procs -> [Ids -> TargetState]]
        /\ mishaps' \in [Homes -> Nat]
    BY <1>2, <2>2, SaveTyped
  <2>4. blocked' \in [Procs -> BOOLEAN]
    BY <2>2 DEF Typed, TypeOK
  <2>5. pc[p] = "recover" /\ Goto(p, "start") /\ UNCHANGED <<files, lock, job>>
    BY <1>6 DEF Recover
  <2>6. Fits("start", job[p])
    BY <1>2, <2>5 DEF Fits
  <2>7. Doing'
    BY <1>2, <2>5, <2>6, ElsewhereDoing DEF Goto, Pcs
  <2>8. /\ pc' \in [Procs -> Pcs]
        /\ \A q \in Procs : home'[q] = NoHome <=> pc'[q] = "off"
    BY <1>1, <1>2, <2>5, StaysOn DEF Pcs
  <2> QED BY <1>1, <2>3, <2>4, <2>5, <2>7, <2>8 DEF Typed, TypeOK
<1> QED BY <1>3, <1>4, <1>5, <1>6

(* A process that begins on a home.                                        *)
LEMMA BeginsOn ==
    ASSUME Typed, NEW p \in Procs, NEW h \in Homes, NEW place, pc[p] = "off",
           place \in Pcs, place # "off", Goto(p, place),
           lock' = [lock EXCEPT ![h] = p], home' = [home EXCEPT ![p] = h]
    PROVE  /\ lock' \in [Homes -> Procs \cup {NoProc}]
           /\ home' \in [Procs -> Homes \cup {NoHome}]
           /\ \A q \in Procs : home'[q] = NoHome <=> pc'[q] = "off"
           /\ pc' \in [Procs -> Pcs]
<1>1. /\ lock \in [Homes -> Procs \cup {NoProc}]
      /\ home \in [Procs -> Homes \cup {NoHome}] /\ pc \in [Procs -> Pcs]
      /\ \A q \in Procs : home[q] = NoHome <=> pc[q] = "off"
  BY DEF Typed, TypeOK
<1> QED BY <1>1, NoHomeAssumption DEF Goto

LEMMA StartTyped ==
    ASSUME Typed, Sound, NEW p \in Procs,
           (\E h \in Homes : Start(p, h)) \/ Begin(p) \/ Started(p)
    PROVE  Typed'
<1>1. CASE \E h \in Homes : Start(p, h)
  <2>1. PICK h \in Homes : Start(p, h)
    BY <1>1
  <2>2. /\ pc[p] = "off" /\ Goto(p, "start")
        /\ lock' = [lock EXCEPT ![h] = p] /\ home' = [home EXCEPT ![p] = h]
        /\ views' = [views EXCEPT ![p] = disk[h]]
        /\ todo' = [todo EXCEPT ![p] = StartupTargets(config[h], disk[h])]
        /\ job' = [job EXCEPT ![p] = [NoJob EXCEPT !.why = "start"]]
        /\ UNCHANGED <<config, marker, files, disk, blocked, mishaps>>
    BY <2>1 DEF Start
  <2>3. StartupTargets(config[h], disk[h]) \subseteq Names
    <3>1. config[h].static \subseteq Names
      BY ConfigAssumption DEF Typed, TypeOK
    <3>2. \A id \in Registered(disk[h]) : disk[h][id].name \in Names
      BY DEF Sound, Belongs, Registered
    <3> QED BY <3>1, <3>2 DEF StartupTargets
  <2>4. /\ views' \in [Procs -> [Ids -> TargetState]]
        /\ todo' \in [Procs -> SUBSET Names]
    <3>1. /\ views \in [Procs -> [Ids -> TargetState]]
          /\ disk[h] \in [Ids -> TargetState]
          /\ todo \in [Procs -> SUBSET Names]
      BY DEF Typed, TypeOK
    <3> QED BY <2>2, <2>3, <3>1
  <2>5. Doing' /\ job' \in [Procs -> Job]
    <3>1. [NoJob EXCEPT !.why = "start"] \in Job /\ Fits("start", [NoJob EXCEPT !.why = "start"])
      BY DEF NoJob, Job, Fits
    <3> QED BY <2>2, <3>1, ElsewhereDoing DEF Goto, Pcs
  <2>6. /\ lock' \in [Homes -> Procs \cup {NoProc}]
        /\ home' \in [Procs -> Homes \cup {NoHome}]
        /\ \A q \in Procs : home'[q] = NoHome <=> pc'[q] = "off"
        /\ pc' \in [Procs -> Pcs]
    BY <2>2, BeginsOn DEF Pcs
  <2> QED BY <2>2, <2>4, <2>5, <2>6 DEF Typed, TypeOK
<1>2. CASE Begin(p)
  <2>1. PICK n \in todo[p] : /\ job' = [job EXCEPT ![p] = [@ EXCEPT !.name = n]]
                             /\ todo' = [todo EXCEPT ![p] = @ \ {n}]
    BY <1>2 DEF Begin
  <2>2. /\ pc[p] = "start" /\ Goto(p, "ensure")
        /\ UNCHANGED <<config, marker, files, disk, lock, home, views, blocked, mishaps>>
    BY <1>2 DEF Begin
  <2>3. n \in Names /\ job[p] \in Job /\ Fits(pc[p], job[p]) /\ job \in [Procs -> Job]
    BY DEF Typed, TypeOK, Doing
  <2>4. /\ [job[p] EXCEPT !.name = n] \in Job
        /\ Fits("ensure", [job[p] EXCEPT !.name = n])
        /\ job' = [job EXCEPT ![p] = [job[p] EXCEPT !.name = n]]
    BY <2>1, <2>2, <2>3 DEF Job, Fits
  <2>5. Doing' /\ job' \in [Procs -> Job]
    BY <2>2, <2>4, ElsewhereDoing DEF Goto, Pcs
  <2>6. /\ pc' \in [Procs -> Pcs]
        /\ \A q \in Procs : home'[q] = NoHome <=> pc'[q] = "off"
    BY <2>2, StaysOn DEF Pcs
  <2>7. todo' \in [Procs -> SUBSET Names]
    BY <2>1 DEF Typed, TypeOK
  <2> QED BY <2>2, <2>5, <2>6, <2>7 DEF Typed, TypeOK
<1>3. CASE Started(p)
  <2>1. /\ pc[p] = "start" /\ Release(p) /\ Goto(p, "idle")
        /\ job' = [job EXCEPT ![p] = NoJob]
        /\ UNCHANGED <<config, marker, files, disk, home, views, todo, mishaps>>
        /\ blocked' = [blocked EXCEPT ![p] = @ \/ Unconfigured(p)]
    BY <1>3 DEF Started
  <2>2. Doing' /\ job' \in [Procs -> Job]
    <3>1. Fits("idle", NoJob)
      BY DEF Fits
    <3> QED BY <2>1, <3>1, StatesTyped, ElsewhereDoing DEF Goto, Pcs
  <2>3. /\ pc' \in [Procs -> Pcs]
        /\ \A q \in Procs : home'[q] = NoHome <=> pc'[q] = "off"
    BY <2>1, StaysOn DEF Pcs
  <2>4. lock' \in [Homes -> Procs \cup {NoProc}]
    BY <2>1, LockTyped
  <2>5. blocked' \in [Procs -> BOOLEAN]
    <3>1. blocked \in [Procs -> BOOLEAN]
      BY DEF Typed, TypeOK
    <3>2. PICK b \in BOOLEAN : b = (blocked[p] \/ Unconfigured(p))
      OBVIOUS
    <3>3. blocked' = [blocked EXCEPT ![p] = b]
      BY <2>1, <3>2, Zenon
    <3> QED BY <3>1, <3>2, <3>3
  <2> QED BY <2>1, <2>2, <2>3, <2>4, <2>5 DEF Typed, TypeOK
<1> QED BY <1>1, <1>2, <1>3

LEMMA AdoptionTyped ==
    ASSUME Typed, NEW p \in Procs,
           \/ \E h \in Homes, n \in Names : Adopt(p, h, n)
           \/ AdoptRemove(p) \/ AdoptRebuild(p)
    PROVE  Typed'
<1>1. ASSUME NEW h \in Homes, NEW n \in Names, Adopt(p, h, n)
      PROVE  Typed'
  <2> DEFINE what == [name |-> n, release |-> NoRelease, why |-> "adopt"]
  <2>1. /\ pc[p] = "off" /\ Goto(p, "adopt")
        /\ lock' = [lock EXCEPT ![h] = p] /\ home' = [home EXCEPT ![p] = h]
        /\ job' = [job EXCEPT ![p] = what]
        /\ UNCHANGED <<config, marker, files, disk, views, todo, blocked, mishaps>>
    BY <1>1 DEF Adopt
  <2>2. what \in Job /\ Fits("adopt", what)
    BY DEF Job, Fits
  <2>3. Doing' /\ job' \in [Procs -> Job]
    BY <2>1, <2>2, ElsewhereDoing DEF Goto, Pcs
  <2>4. /\ lock' \in [Homes -> Procs \cup {NoProc}]
        /\ home' \in [Procs -> Homes \cup {NoHome}]
        /\ \A q \in Procs : home'[q] = NoHome <=> pc'[q] = "off"
        /\ pc' \in [Procs -> Pcs]
    BY <2>1, BeginsOn DEF Pcs
  <2> QED BY <2>1, <2>3, <2>4 DEF Typed, TypeOK
<1>2. CASE AdoptRemove(p) \/ AdoptRebuild(p)
  <2>1. /\ pc[p] \in {"remove", "rebuild"} /\ UNCHANGED <<config, marker, disk>>
        /\ home[p] \in Homes /\ Fits(pc[p], job[p]) /\ job[p] \in Job
        /\ job = [job EXCEPT ![p] = job[p]]
    BY <1>2, NoHomeAssumption DEF AdoptRemove, AdoptRebuild, Typed, TypeOK, Doing
  <2>2. /\ files' \in [Places -> {"empty", "served", "broken"}]
    BY <1>2 DEF AdoptRemove, AdoptRebuild, Typed, TypeOK
  <2>3. mishaps' \in [Homes -> Nat]
    <3>1. Mishap(home[p]) \/ UNCHANGED mishaps
      BY <1>2 DEF AdoptRemove, AdoptRebuild
    <3> QED BY <2>1, <3>1, MishapTyped DEF Typed, TypeOK
  <2>4. CASE Refuse(p)
    BY <2>1, <2>2, <2>3, <2>4, RefuseTyped DEF Typed, TypeOK
  <2>5. CASE pc[p] = "remove" /\ Goto(p, "rebuild") /\ UNCHANGED inside
    <3>1. Fits("rebuild", job[p])
      BY <2>1, <2>5 DEF Fits
    <3>2. Doing'
      BY <2>1, <2>5, <3>1, ElsewhereDoing DEF Goto, Pcs, inside
    <3>3. /\ pc' \in [Procs -> Pcs]
          /\ \A q \in Procs : home'[q] = NoHome <=> pc'[q] = "off"
      BY <2>5, StaysOn DEF Pcs, inside, memory
    <3> QED BY <2>1, <2>2, <2>3, <2>5, <3>2, <3>3 DEF Typed, TypeOK, inside, memory
  <2> QED BY <1>2, <2>4, <2>5 DEF AdoptRemove, AdoptRebuild
<1> QED BY <1>1, <1>2

LEMMA OutsideTyped ==
    ASSUME Typed,
           \/ \E p \in Procs : Crash(p)
           \/ \E h \in Homes : \/ \E c \in Configs[h] : Reconfigure(h, c)
                               \/ LoseState(h)
    PROVE  Typed'
<1>1. ASSUME NEW p \in Procs, Crash(p)
      PROVE  Typed'
  <2>1. /\ pc[p] # "off" /\ Mishap(home[p]) /\ Goto(p, "off")
        /\ job' = [job EXCEPT ![p] = NoJob] /\ Forget(p)
        /\ Release(p) \/ UNCHANGED lock
        /\ UNCHANGED <<config, marker, files, disk>>
    BY <1>1 DEF Crash
  <2>2. home[p] \in Homes
    BY <2>1, NoHomeAssumption DEF Typed, TypeOK
  <2>3. mishaps' \in [Homes -> Nat] /\ lock' \in [Homes -> Procs \cup {NoProc}]
    BY <2>1, <2>2, MishapTyped, LockTyped
  <2>4. Doing' /\ job' \in [Procs -> Job]
    <3>1. Fits("off", NoJob)
      BY DEF Fits
    <3> QED BY <2>1, <3>1, StatesTyped, ElsewhereDoing DEF Goto, Pcs
  <2>5. /\ home' \in [Procs -> Homes \cup {NoHome}] /\ pc' \in [Procs -> Pcs]
        /\ \A q \in Procs : home'[q] = NoHome <=> pc'[q] = "off"
    BY <2>1 DEF Goto, Forget, Pcs, Typed, TypeOK
  <2>6. /\ views' \in [Procs -> [Ids -> TargetState]]
        /\ todo' \in [Procs -> SUBSET Names] /\ blocked' \in [Procs -> BOOLEAN]
    BY <2>1, StatesTyped DEF Forget, Typed, TypeOK
  <2> QED BY <2>1, <2>3, <2>4, <2>5, <2>6 DEF Typed, TypeOK
<1>2. ASSUME NEW h \in Homes, NEW c \in Configs[h], Reconfigure(h, c)
      PROVE  Typed'
  <2>1. mishaps' \in [Homes -> Nat]
    BY <1>2, MishapTyped DEF Reconfigure
  <2>2. config' \in [Homes -> UNION {Configs[k] : k \in Homes}]
    BY <1>2 DEF Reconfigure, Typed, TypeOK
  <2>3. UNCHANGED <<marker, files, disk, pc, inside>>
    BY <1>2 DEF Reconfigure
  <2> QED BY <2>1, <2>2, <2>3 DEF Typed, TypeOK, Doing, inside, memory
<1>3. ASSUME NEW h \in Homes, LoseState(h)
      PROVE  Typed'
  <2>1. mishaps' \in [Homes -> Nat]
    BY <1>3, MishapTyped DEF LoseState
  <2>2. disk' \in [Homes -> [Ids -> TargetState]]
    BY <1>3, StatesTyped DEF LoseState, Typed, TypeOK
  <2>3. UNCHANGED <<config, marker, files, pc, inside>>
    BY <1>3 DEF LoseState
  <2> QED BY <2>1, <2>2, <2>3 DEF Typed, TypeOK, Doing, inside, memory
<1> QED BY <1>1, <1>2, <1>3

(* What one process does is invisible to the others.                       *)
Alone(p) == \A q \in Procs \ {p} : /\ pc'[q] = pc[q] /\ job'[q] = job[q]
                                    /\ home'[q] = home[q] /\ views'[q] = views[q]

LEMMA RefuseAlone ==
    ASSUME Typed, NEW p \in Procs, Refuse(p), pc[p] # "off"
    PROVE  /\ Alone(p)
           /\ \/ pc'[p] = "idle" /\ home'[p] = home[p] /\ views'[p] = views[p]
              \/ pc'[p] = "off" /\ home'[p] = NoHome /\ views'[p] = Nothing
<1>1. /\ pc \in [Procs -> Pcs] /\ job \in [Procs -> Job]
      /\ home \in [Procs -> Homes \cup {NoHome}]
      /\ views \in [Procs -> [Ids -> TargetState]]
  BY DEF Typed, TypeOK
<1>2. /\ pc' = [pc EXCEPT ![p] = pc'[p]] /\ job' = [job EXCEPT ![p] = NoJob]
      /\ pc'[p] = IF job[p].why = "request" THEN "idle" ELSE "off"
  BY <1>1 DEF Refuse, Leave, Goto
<1>3. CASE job[p].why = "request"
  <2>1. UNCHANGED <<home, views>>
    BY <1>3 DEF Refuse, memory
  <2> QED BY <1>1, <1>2, <1>3, <2>1 DEF Alone
<1>4. CASE job[p].why # "request"
  <2>1. home' = [home EXCEPT ![p] = NoHome] /\ views' = [views EXCEPT ![p] = Nothing]
    BY <1>4 DEF Refuse, Forget
  <2> QED BY <1>1, <1>2, <1>4, <2>1 DEF Alone
<1> QED BY <1>3, <1>4

LEMMA StepsAlone ==
    ASSUME Typed, NEW p \in Procs,
           \/ \E h \in Homes : Start(p, h) \/ \E n \in Names : Adopt(p, h, n)
           \/ \E n \in Names, r \in Releases \cup {NoRelease} : Request(p, n, r)
           \/ Step(p) \/ Crash(p)
    PROVE  Alone(p)
<1>1. /\ pc \in [Procs -> Pcs] /\ job \in [Procs -> Job]
      /\ home \in [Procs -> Homes \cup {NoHome}]
      /\ views \in [Procs -> [Ids -> TargetState]]
  BY DEF Typed, TypeOK
<1> USE DEF Goto
<1>2. CASE \E h \in Homes : Start(p, h) \/ \E n \in Names : Adopt(p, h, n)
  BY <1>1, <1>2 DEF Start, Adopt, Alone
<1>3. CASE \E n \in Names, r \in Releases \cup {NoRelease} : Request(p, n, r)
  BY <1>1, <1>3 DEF Request, Look, Resolve, Load, Alone
<1>4. CASE Crash(p)
  BY <1>1, <1>4 DEF Crash, Forget, Alone
<1>5. CASE Claim(p) \/ Deny(p) \/ Mark(p)
  <2>1. CASE Refuse(p) /\ pc[p] # "off"
    BY <2>1, RefuseAlone
  <2>2. CASE ~Refuse(p)
    BY <1>1, <1>5, <2>2 DEF Claim, Deny, Mark, Claimed, inside, memory, Alone
  <2> QED BY <1>5, <2>1, <2>2 DEF Claim, Deny, Mark
<1>6. CASE Register(p)
  <2>1. CASE Refuse(p) /\ pc[p] # "off"
    BY <2>1, RefuseAlone
  <2>2. CASE ~Refuse(p)
    BY <1>1, <1>6, <2>2 DEF Register, Save, Look, Alone
  <2> QED BY <1>6, <2>1, <2>2 DEF Register
<1>7. CASE Busy(p) \/ Turned(p)
  BY <1>1, <1>7 DEF Busy, Turned, memory, Load, Alone
<1>8. CASE Accept(p) \/ Build(p)
  BY <1>1, <1>8 DEF Accept, Build, inside, memory, Load, Alone
<1>9. CASE Finish(p)
  BY <1>1, <1>9 DEF Finish, Save, SaveFails, Leave, Alone
<1>10. CASE Uncertain(p)
  BY <1>1, <1>10 DEF Uncertain, Leave, Alone
<1>11. CASE Begin(p) \/ Recover(p) \/ Started(p)
  BY <1>1, <1>11 DEF Begin, Recover, Started, Save, SaveFails, Alone
<1>12. CASE AdoptRemove(p) \/ AdoptRebuild(p)
  <2>1. CASE Refuse(p) /\ pc[p] # "off"
    BY <2>1, RefuseAlone
  <2>2. CASE ~Refuse(p)
    BY <1>1, <1>12, <2>2 DEF AdoptRemove, AdoptRebuild, inside, memory, Alone
  <2> QED BY <1>12, <2>1, <2>2 DEF AdoptRemove, AdoptRebuild
<1> QED BY <1>2, <1>3, <1>4, <1>5, <1>6, <1>7, <1>8, <1>9, <1>10, <1>11, <1>12 DEF Step

-----------------------------------------------------------------------------
(* Every state belongs to its target, on disk and in memory.               *)

MarkersKept == \A place \in Places :
                   marker[place] \notin {Unclaimed, Unwritten} =>
                       marker'[place] = marker[place]

LEMMA OwnersAreWritten ==
    /\ \A h, e : <<h, e>> \notin {Unclaimed, Unwritten}
    /\ Unclaimed # Unwritten
BY DEF Unclaimed, Unwritten

LEMMA IdPlaces ==
    /\ \A n \in Names : Id(n) \in Ids /\ n.place = Id(n)[2] /\ n.env = Id(n)[1]
                         /\ n.place \in Places
    /\ \A id \in Ids : id[2] \in Places /\ id = <<id[1], id[2]>>
BY PlaceAssumption DEF Id, Ids

LEMMA StillBelongs ==
    ASSUME MarkersKept, NEW h, NEW id \in Ids, NEW st, Belongs(marker, h, id, st)
    PROVE  Belongs(marker', h, id, st)
BY OwnersAreWritten, IdPlaces DEF MarkersKept, Belongs

LEMMA MarkingKept ==
    ASSUME Sound, NEW p \in Procs, Alone(p), UNCHANGED marker,
           pc'[p] \notin {"mark", "save"}
    PROVE  Marking'
<1>1. Marking /\ \A q \in Procs : pc'[q] \in {"mark", "save"} =>
                     /\ q # p /\ pc'[q] = pc[q] /\ job'[q] = job[q]
                     /\ home'[q] = home[q]
  BY DEF Sound, Alone
<1> QED BY <1>1 DEF Marking, Owner

(* Enough to look at what p wrote, and at what it has in mind.             *)
LEMMA SoundAfter ==
    ASSUME Sound, MarkersKept, NEW p \in Procs, Alone(p),
           \A h \in Homes, id \in Ids :
               disk'[h][id] = disk[h][id] \/ Belongs(marker', h, id, disk'[h][id]),
           \A id \in Ids : Belongs(marker', home'[p], id, views'[p][id]),
           pc'[p] = "off" => views'[p] = Nothing,
           pc'[p] \in {"recover", "work", "built", "uncertain"} =>
               views'[p][Id(job'[p].name)] # NoState,
           Marking'
    PROVE  Sound'
<1>1. \A h \in Homes, id \in Ids : Belongs(marker', h, id, disk'[h][id])
  BY StillBelongs DEF Sound
<1>2. \A q \in Procs, id \in Ids : Belongs(marker', home'[q], id, views'[q][id])
  <2> TAKE q \in Procs, id \in Ids
  <2>1. CASE q # p
    <3>1. home'[q] = home[q] /\ views'[q] = views[q]
      BY <2>1 DEF Alone
    <3> QED BY <3>1, StillBelongs DEF Sound
  <2> QED BY <2>1
<1>3. Remembered'
  BY DEF Remembered, Target, Alone, Sound
<1> QED BY <1>1, <1>2, <1>3 DEF Sound

(* A step that changes no file.                                            *)
LEMMA QuietSound ==
    ASSUME Sound, NEW p \in Procs, Alone(p), UNCHANGED <<marker, disk>>,
           pc'[p] \notin {"mark", "save"},
           \/ home'[p] = home[p] /\ views'[p] = views[p]
           \/ home'[p] \in Homes /\ views'[p] = disk[home'[p]]
           \/ views'[p] = Nothing,
           pc'[p] = "off" => views'[p] = Nothing,
           pc'[p] \in {"recover", "work", "built", "uncertain"} =>
               views'[p][Id(job'[p].name)] # NoState
    PROVE  Sound'
<1>1. Marking' /\ MarkersKept
  BY MarkingKept DEF MarkersKept
<1>2. \A id \in Ids : Belongs(marker', home'[p], id, views'[p][id])
  <2> TAKE id \in Ids
  <2>1. CASE home'[p] = home[p] /\ views'[p] = views[p]
    BY <2>1 DEF Sound
  <2>2. CASE home'[p] \in Homes /\ views'[p] = disk[home'[p]]
    BY <2>2 DEF Sound
  <2>3. CASE views'[p] = Nothing
    BY <2>3 DEF Belongs, Nothing
  <2> QED BY <2>1, <2>2, <2>3
<1> QED BY <1>1, <1>2, SoundAfter

LEMMA RefusedSound ==
    ASSUME Typed, Sound, NEW p \in Procs, Refuse(p), pc[p] # "off", MarkersKept,
           \A h \in Homes, id \in Ids :
               disk'[h][id] = disk[h][id] \/ Belongs(marker', h, id, disk'[h][id]),
           \A q \in Procs \ {p} : pc[q] \in {"mark", "save"} =>
               marker'[job[q].name.place] = marker[job[q].name.place]
    PROVE  Sound'
<1>1. /\ Alone(p)
      /\ \/ pc'[p] = "idle" /\ home'[p] = home[p] /\ views'[p] = views[p]
         \/ pc'[p] = "off" /\ home'[p] = NoHome /\ views'[p] = Nothing
  BY RefuseAlone
<1>2. \A id \in Ids : Belongs(marker', home'[p], id, views'[p][id])
  <2>1. \A id \in Ids : Belongs(marker', home[p], id, views[p][id])
    BY StillBelongs DEF Sound
  <2> QED BY <1>1, <2>1 DEF Belongs, Nothing
<1>3. Marking'
  <2>1. Marking /\ \A q \in Procs : pc'[q] \in {"mark", "save"} =>
                     /\ q # p /\ pc'[q] = pc[q] /\ job'[q] = job[q]
                     /\ home'[q] = home[q] /\ pc[q] \in {"mark", "save"}
                     /\ marker'[job'[q].name.place] = marker[job[q].name.place]
    BY <1>1 DEF Sound, Alone
  <2>2. \A q \in Procs :
          /\ pc'[q] = "mark" => marker'[job'[q].name.place] = Unwritten
          /\ pc'[q] = "save" => marker'[job'[q].name.place] = <<home'[q], job'[q].name.env>>
    BY <2>1 DEF Marking, Owner
  <2>3. \A q, r \in Procs :
          pc'[q] = "mark" /\ pc'[r] = "mark" /\ job'[q].name.place = job'[r].name.place
              => q = r
    BY <2>1 DEF Marking
  <2> QED BY <2>2, <2>3 DEF Marking, Owner
<1> QED BY <1>1, <1>2, <1>3, SoundAfter

(* A state of the target in hand is saved, or is tried to be.              *)
LEMMA StoredSound ==
    ASSUME Typed, Sound, NEW p \in Procs, Alone(p), UNCHANGED <<marker, home>>,
           home[p] \in Homes, Target(p) \in Ids, NEW st \in TargetState,
           Belongs(marker, home[p], Target(p), st),
           disk' \in {disk, Written(p, st)},
           \A id \in Ids : \/ views'[p][id] \in {views[p][id], disk[home[p]][id]}
                           \/ id = Target(p) /\ views'[p][id] = st,
           pc'[p] \notin {"off", "mark", "save"},
           pc'[p] \in {"recover", "work", "built", "uncertain"} =>
               views'[p][Id(job'[p].name)] # NoState
    PROVE  Sound'
<1>1. \A h \in Homes, id \in Ids :
          disk'[h][id] = disk[h][id] \/ Belongs(marker', h, id, disk'[h][id])
  <2>1. disk \in [Homes -> [Ids -> TargetState]]
    BY DEF Typed, TypeOK
  <2>2. \A h \in Homes, id \in Ids : Written(p, st)[h][id] =
            IF h = home[p] /\ id = Target(p) THEN st ELSE disk[h][id]
    BY <2>1 DEF Written
  <2> QED BY <2>2
<1>2. \A id \in Ids : Belongs(marker', home'[p], id, views'[p][id])
  BY DEF Sound
<1>3. Marking' /\ MarkersKept
  BY MarkingKept DEF MarkersKept
<1> QED BY <1>1, <1>2, <1>3, SoundAfter

LEMMA EnsureSound ==
    ASSUME Typed, Sound, NEW p \in Procs, Claim(p) \/ Deny(p) \/ Mark(p)
    PROVE  Sound'
<1>1. /\ pc[p] \in {"ensure", "adopt", "mark"} /\ UNCHANGED disk
      /\ job[p].name \in Names /\ home[p] \in Homes
      /\ job[p].name.place \in Places
  <2>1. pc[p] \in {"ensure", "adopt", "mark"} /\ UNCHANGED disk
    BY DEF Claim, Deny, Mark
  <2>2. job[p].name \in Names /\ home[p] \in Homes
    BY <2>1, NoHomeAssumption DEF Typed, TypeOK, Doing, Fits
  <2> QED BY <2>1, <2>2, PlaceAssumption
<1>2. /\ pc \in [Procs -> Pcs]
      /\ marker \in [Places -> {Unclaimed, Unwritten} \cup (Homes \X Envs)]
  BY DEF Typed, TypeOK
<1> DEFINE place == job[p].name.place
           own == Owner(p, job[p].name)
<1>3. Alone(p)
  BY StepsAlone DEF Step
<1>4. own \notin {Unclaimed, Unwritten}
  BY OwnersAreWritten DEF Owner
<1>5. CASE Refuse(p) /\ UNCHANGED marker
  BY <1>1, <1>5, RefusedSound DEF MarkersKept
<1>6. CASE Claim(p) /\ ~(Refuse(p) /\ UNCHANGED marker)
  <2>1. UNCHANGED inside
    BY <1>6 DEF Claim
  <2>2. CASE /\ marker[place] = Unclaimed /\ Goto(p, "mark")
             /\ marker' = [marker EXCEPT ![place] = Unwritten]
    <3>1. MarkersKept
      BY <1>1, <1>2, <2>2 DEF MarkersKept
    <3>2. /\ pc'[p] = "mark" /\ marker'[place] = Unwritten
          /\ \A other \in Places \ {place} : marker'[other] = marker[other]
      BY <1>1, <1>2, <2>2 DEF Goto
    <3>3. \A q \in Procs \ {p} : pc[q] \in {"mark", "save"} =>
             job[q].name.place \in Places \ {place}
      <4> SUFFICES ASSUME NEW q \in Procs \ {p}, pc[q] \in {"mark", "save"}
                   PROVE  job[q].name.place \in Places \ {place}
        OBVIOUS
      <4>1. job[q].name \in Names
        BY DEF Typed, Doing, Fits
      <4>2. marker[job[q].name.place] # Unclaimed
        BY OwnersAreWritten DEF Sound, Marking, Owner
      <4> QED BY <2>2, <4>1, <4>2, PlaceAssumption
    <3>4. Marking'
      <4>1. \A q \in Procs \ {p} : pc'[q] \in {"mark", "save"} =>
               /\ pc[q] = pc'[q] /\ job'[q] = job[q] /\ home'[q] = home[q]
               /\ marker'[job[q].name.place] = marker[job[q].name.place]
               /\ job[q].name.place # place
        BY <1>3, <3>2, <3>3 DEF Alone
      <4>2. job' = job /\ Marking
        BY <2>1 DEF inside, Sound
      <4>3. \A q \in Procs : pc'[q] = "mark" => marker'[job'[q].name.place] = Unwritten
        BY <3>2, <4>1, <4>2 DEF Marking
      <4>4. \A q \in Procs : pc'[q] = "save" =>
               marker'[job'[q].name.place] = <<home'[q], job'[q].name.env>>
        BY <3>2, <4>1, <4>2 DEF Marking, Owner
      <4>5. \A q, r \in Procs : pc'[q] = "mark" /\ pc'[r] = "mark"
               /\ job'[q].name.place = job'[r].name.place => q = r
        BY <3>2, <4>1, <4>2 DEF Marking
      <4> QED BY <4>3, <4>4, <4>5 DEF Marking, Owner
    <3>5. \A id \in Ids : Belongs(marker', home'[p], id, views'[p][id])
      BY <2>1, <3>1, StillBelongs DEF Sound, inside, memory
    <3> QED BY <1>1, <1>3, <3>1, <3>2, <3>4, <3>5, SoundAfter
  <2>3. CASE marker[place] = own /\ Claimed(p) /\ UNCHANGED marker
    <3>1. pc'[p] \in {"remove", "save"}
      BY <1>2, <2>3 DEF Claimed, Goto
    <3>2. Marking' /\ MarkersKept
      <4>1. \A q \in Procs : pc'[q] \in {"mark", "save"} /\ q # p =>
               pc[q] = pc'[q]
        BY <1>3 DEF Alone
      <4>2. UNCHANGED <<job, home, marker>> /\ Marking
        BY <2>1, <2>3 DEF inside, memory, Sound
      <4> QED BY <2>3, <3>1, <4>1, <4>2 DEF Marking, Owner, MarkersKept
    <3>3. \A id \in Ids : Belongs(marker', home'[p], id, views'[p][id])
      BY <2>1, <2>3 DEF Sound, inside, memory
    <3> QED BY <1>1, <1>3, <3>1, <3>2, <3>3, SoundAfter
  <2> QED BY <1>6, <2>2, <2>3 DEF Claim
<1>7. CASE Mark(p)
  <2>1. marker[place] = Unwritten /\ pc[p] = "mark"
    BY <1>7 DEF Mark, Sound, Marking
  <2>2. MarkersKept /\ \A other \in Places \ {place} : marker'[other] = marker[other]
    BY <1>1, <1>2, <1>7, <2>1 DEF Mark, Marked, MarkersKept
  <2>3. \A q \in Procs \ {p} : pc[q] \in {"mark", "save"} =>
           job[q].name.place \in Places \ {place}
    <3> SUFFICES ASSUME NEW q \in Procs \ {p}, pc[q] \in {"mark", "save"}
                 PROVE  job[q].name.place \in Places \ {place}
      OBVIOUS
    <3>1. job[q].name \in Names
      BY DEF Typed, Doing, Fits
    <3>2. CASE pc[q] = "mark"
      BY <2>1, <3>1, <3>2, PlaceAssumption DEF Sound, Marking
    <3>3. CASE pc[q] = "save"
      <4>1. marker[job[q].name.place] # Unwritten
        BY <3>3, OwnersAreWritten DEF Sound, Marking, Owner
      <4> QED BY <2>1, <3>1, <4>1, PlaceAssumption
    <3> QED BY <3>2, <3>3
  <2>4. CASE Refuse(p)
    BY <1>1, <2>1, <2>2, <2>3, <2>4, RefusedSound
  <2>5. CASE marker' = Marked(p) /\ Claimed(p) /\ UNCHANGED <<inside, mishaps>>
    <3>1. pc'[p] \in {"remove", "save"} /\ marker'[place] = own
      BY <1>1, <1>2, <2>5 DEF Claimed, Goto, Marked
    <3>2. Marking'
      <4>1. \A q \in Procs \ {p} : pc'[q] \in {"mark", "save"} =>
               /\ pc[q] = pc'[q]
               /\ marker'[job[q].name.place] = marker[job[q].name.place]
        BY <1>3, <2>2, <2>3 DEF Alone
      <4>2. UNCHANGED <<job, home>> /\ Marking
        BY <2>5 DEF inside, memory, Sound
      <4>3. \A q \in Procs : pc'[q] = "mark" => marker'[job'[q].name.place] = Unwritten
        BY <3>1, <4>1, <4>2 DEF Marking
      <4>4. \A q \in Procs : pc'[q] = "save" =>
               marker'[job'[q].name.place] = <<home'[q], job'[q].name.env>>
        BY <3>1, <4>1, <4>2 DEF Marking, Owner
      <4>5. \A q, r \in Procs : pc'[q] = "mark" /\ pc'[r] = "mark"
               /\ job'[q].name.place = job'[r].name.place => q = r
        BY <3>1, <4>1, <4>2 DEF Marking
      <4> QED BY <4>3, <4>4, <4>5 DEF Marking, Owner
    <3>3. \A id \in Ids : Belongs(marker', home'[p], id, views'[p][id])
      BY <2>2, <2>5, StillBelongs DEF Sound, inside, memory
    <3> QED BY <1>1, <1>3, <2>2, <3>1, <3>2, <3>3, SoundAfter
  <2> QED BY <1>7, <2>4, <2>5 DEF Mark
<1>8. CASE Deny(p)
  BY <1>5, <1>8 DEF Deny
<1>9. CASE Claim(p) /\ Refuse(p) /\ UNCHANGED marker
  BY <1>5, <1>9
<1> QED BY <1>6, <1>7, <1>8, <1>9

LEMMA RegisterSound ==
    ASSUME Typed, Sound, NEW p \in Procs, Register(p)
    PROVE  Sound'
<1> DEFINE n == job[p].name
           st == Ensured(p, n)
<1>1. /\ pc[p] = "save" /\ home[p] \in Homes /\ n \in Names /\ job[p] \in Job
      /\ Target(p) = Id(n) /\ Target(p) \in Ids /\ job[p].why # "none"
  BY NoHomeAssumption, IdPlaces
     DEF Register, Typed, TypeOK, Doing, Fits, Target
<1>2. /\ st.name = n /\ UNCHANGED marker /\ Alone(p)
      /\ disk[home[p]][Target(p)] \in TargetState
  <2>1. disk[home[p]][Target(p)] \in TargetState
    BY <1>1 DEF Typed, TypeOK
  <2>2. st.name = n
    BY <1>1, <2>1 DEF Ensured, NoState, TargetState
  <2> QED BY <2>1, <2>2, StepsAlone DEF Register, Step
<1>3. Belongs(marker, home[p], Target(p), st)
  <2>1. marker[n.place] = <<home[p], n.env>>
    BY <1>1 DEF Sound, Marking, Owner
  <2> HIDE DEF st
  <2> QED BY <1>1, <1>2, <2>1, IdPlaces DEF Belongs
<1>4. st # NoState
  BY <1>1, <1>2, NoNameAssumption DEF NoState
<1>5. st \in TargetState
  <2>1. PICK b \in BOOLEAN : b = (files[n.place] # "empty")
    OBVIOUS
  <2>2. st = IF disk[home[p]][Target(p)] = NoState
             THEN [NoState EXCEPT !.name = n, !.recovery = b]
             ELSE [disk[home[p]][Target(p)] EXCEPT !.name = n]
    BY <1>1, <2>1 DEF Ensured
  <2>3. [disk[home[p]][Target(p)] EXCEPT !.name = n] \in TargetState
    BY <1>1, <1>2, StatesTyped, Zenon
  <2>4. [NoState EXCEPT !.name = n, !.recovery = b] \in TargetState
    BY <1>1, <2>1, StatesTyped, Zenon
  <2> QED BY <2>2, <2>3, <2>4
<1> HIDE DEF st
<1>6. CASE Save(p, st) /\ UNCHANGED home
           /\ \/ Goto(p, "recover") /\ UNCHANGED job
              \/ Look(p, job[p], views'[p])
  <2>1. /\ disk' = Written(p, st)
        /\ views' = [views EXCEPT ![p][Target(p)] = st]
    BY <1>6 DEF Save
  <2>2. \A id \in Ids : \/ views'[p][id] = views[p][id]
                        \/ id = Target(p) /\ views'[p][id] = st
    BY <1>1, <2>1 DEF Typed, TypeOK
  <2>3. views'[p][Target(p)] = st
    BY <1>1, <2>1 DEF Typed, TypeOK
  <2>4. \/ pc'[p] = "recover" /\ job'[p] = job[p]
        \/ pc'[p] \in {"idle", "queued"}
    BY <1>6 DEF Goto, Look, Typed, TypeOK
  <2> QED BY <1>1, <1>2, <1>3, <1>4, <1>5, <1>6, <2>1, <2>2, <2>3, <2>4, StoredSound
          DEF Target
<1>7. CASE disk' \in {disk, Written(p, st)} /\ Refuse(p)
  <2>1. \A h \in Homes, id \in Ids :
            disk'[h][id] = disk[h][id] \/ Belongs(marker', h, id, disk'[h][id])
    <3>1. \A h \in Homes, id \in Ids : Written(p, st)[h][id] =
              IF h = home[p] /\ id = Target(p) THEN st ELSE disk[h][id]
      BY DEF Written, Typed, TypeOK
    <3> QED BY <1>2, <1>3, <1>7, <3>1
  <2> QED BY <1>1, <1>2, <1>7, <2>1, RefusedSound DEF MarkersKept
<1> QED BY <1>6, <1>7 DEF Register, st

LEMMA RequestSound ==
    ASSUME Typed, Sound, NEW p \in Procs,
           \/ \E n \in Names, r \in Releases \cup {NoRelease} : Request(p, n, r)
           \/ Busy(p) \/ Turned(p)
    PROVE  Sound'
<1>1. Alone(p) /\ UNCHANGED <<marker, disk, home>>
  BY StepsAlone DEF Step, Request, Busy, Turned, memory
<1>2. pc'[p] \in {"idle", "queued", "ensure"}
  BY DEF Request, Busy, Turned, Look, Resolve, Goto, Typed, TypeOK
<1>3. \/ home'[p] = home[p] /\ views'[p] = views[p]
      \/ home'[p] \in Homes /\ views'[p] = disk[home'[p]]
  <2>1. home[p] \in Homes
    BY NoHomeAssumption DEF Request, Busy, Turned, Typed, TypeOK
  <2>2. UNCHANGED views \/ Load(p)
    BY DEF Request, Resolve, Busy, Turned, memory
  <2>3. Load(p) => views'[p] = disk[home[p]]
    BY DEF Load, Typed, TypeOK
  <2>4. home'[p] = home[p]
    BY <1>1
  <2>5. CASE UNCHANGED views
    BY <2>4, <2>5
  <2> QED BY <2>1, <2>2, <2>3, <2>4, <2>5
<1> QED BY <1>1, <1>2, <1>3, QuietSound

LEMMA AcceptSound ==
    ASSUME Typed, Sound, NEW p \in Procs, Accept(p)
    PROVE  Sound'
<1> DEFINE old == disk[home[p]][Target(p)]
           st == Accepted(old, job[p].release)
<1>1. /\ pc[p] = "queued" /\ old # NoState /\ UNCHANGED <<marker, home, job>>
      /\ \/ /\ disk' = Written(p, st)
            /\ views' = [views EXCEPT ![p] = disk'[home[p]]]
         \/ /\ disk' \in {disk, Written(p, st)}
            /\ Load(p)
      /\ pc'[p] \in {"work", "uncertain"}
  BY DEF Accept, Goto, Typed, TypeOK
<1>2. /\ home[p] \in Homes /\ Target(p) \in Ids /\ Fits(pc[p], job[p])
      /\ old \in TargetState
  BY <1>1, InHand
<1>3. job[p].release \in Releases
  BY <1>1, <1>2 DEF Fits
<1>4. st \in TargetState
  BY <1>2, <1>3, StatesTyped
<1>5. st.name = old.name /\ st.active = job[p].release
  BY <1>2 DEF Accepted, TargetState
<1>6. st # NoState
  BY <1>3, <1>5, NoReleaseAssumption DEF NoState
<1>7. Belongs(marker, home[p], Target(p), st)
  BY <1>1, <1>2, <1>5 DEF Sound, Belongs
<1> HIDE DEF st
<1>8. \A id \in Ids : Written(p, st)[home[p]][id] =
          IF id = Target(p) THEN st ELSE disk[home[p]][id]
  BY <1>2 DEF Written, Typed, TypeOK
<1>9. /\ \A id \in Ids : \/ views'[p][id] \in {views[p][id], disk[home[p]][id]}
                         \/ id = Target(p) /\ views'[p][id] = st
      /\ views'[p][Target(p)] # NoState
  <2>1. \/ views'[p] = Written(p, st)[home[p]]
        \/ views'[p] = disk[home[p]]
    BY <1>1, <1>2 DEF Load, Typed, TypeOK
  <2>2. CASE views'[p] = Written(p, st)[home[p]]
    BY <1>2, <1>6, <1>8, <2>2
  <2>3. CASE views'[p] = disk[home[p]]
    BY <1>1, <2>3
  <2> QED BY <2>1, <2>2, <2>3
<1>10. Alone(p) /\ Id(job'[p].name) = Target(p) /\ disk' \in {disk, Written(p, st)}
  BY <1>1, StepsAlone DEF Step, Target
<1> QED BY <1>1, <1>2, <1>4, <1>7, <1>9, <1>10, StoredSound

LEMMA TransactionSound ==
    ASSUME Typed, Sound, NEW p \in Procs, Build(p) \/ Finish(p) \/ Uncertain(p) \/ Recover(p)
    PROVE  Sound'
<1> DEFINE old == views[p][Target(p)]
<1>1. /\ pc[p] \in {"work", "built", "uncertain", "recover"}
      /\ UNCHANGED <<marker, home>> /\ Alone(p)
  BY StepsAlone DEF Step, Build, Finish, Uncertain, Recover, inside, memory
<1>2. /\ home[p] \in Homes /\ Target(p) \in Ids /\ Fits(pc[p], job[p])
      /\ old \in TargetState /\ old # NoState
  <2>1. old # NoState
    BY <1>1 DEF Sound, Remembered
  <2> QED BY <1>1, <2>1, InHand
<1>3. \A st : st.name = old.name => Belongs(marker, home[p], Target(p), st)
  BY <1>1, <1>2 DEF Sound, Belongs
<1>4. CASE Build(p)
  <2>1. /\ UNCHANGED <<disk, views, job>> /\ pc'[p] = "built"
        /\ home'[p] = home[p] /\ views'[p] = views[p] /\ job'[p] = job[p]
    BY <1>4 DEF Build, inside, memory, Goto, Typed, TypeOK
  <2> QED BY <1>1, <1>2, <2>1, QuietSound DEF Target
<1>5. ASSUME NEW st \in TargetState, st.name = old.name,
             disk' \in {disk, Written(p, st)},
             views' \in {views, [views EXCEPT ![p][Target(p)] = st]},
             \/ pc'[p] \in {"idle", "start"}
             \/ pc'[p] = "uncertain" /\ UNCHANGED <<views, job>>
      PROVE  Sound'
  <2>1. \A id \in Ids : \/ views'[p][id] = views[p][id]
                        \/ id = Target(p) /\ views'[p][id] = st
    BY <1>2, <1>5 DEF Typed, TypeOK
  <2>2. pc'[p] = "uncertain" => views'[p][Id(job'[p].name)] # NoState
    BY <1>2, <1>5 DEF Target
  <2>3. Belongs(marker, home[p], Target(p), st)
    BY <1>3, <1>5
  <2> QED BY <1>1, <1>2, <1>5, <2>1, <2>2, <2>3, StoredSound
<1>6. CASE Finish(p)
  <2>1. /\ Failed(old) \in TargetState /\ Failed(old).name = old.name
        /\ Succeeded(old) \in TargetState /\ Succeeded(old).name = old.name
    BY <1>2, StatesTyped DEF Failed, Succeeded, TargetState
  <2>2. PICK st \in {Failed(old), Succeeded(old)} :
           \/ Save(p, st) /\ Leave(p)
           \/ SaveFails(p, st) /\ Goto(p, "uncertain") /\ UNCHANGED <<lock, job>>
    BY <1>6 DEF Finish
  <2>3. /\ disk' \in {disk, Written(p, st)}
        /\ views' \in {views, [views EXCEPT ![p][Target(p)] = st]}
        /\ \/ pc'[p] = "idle"
           \/ pc'[p] = "uncertain" /\ UNCHANGED <<views, job>>
    <3>1. job[p].why = "request"
      BY <1>2, <1>6 DEF Fits, Finish
    <3> QED BY <2>2, <3>1 DEF Save, SaveFails, Leave, Goto, Typed, TypeOK
  <2> QED BY <1>5, <2>1, <2>2, <2>3
<1>7. CASE Uncertain(p)
  <2> DEFINE st == [Accepted(old, job[p].release) EXCEPT !.recovery = TRUE]
  <2>1. job[p].release \in Releases /\ job[p].why = "request"
    BY <1>2, <1>7 DEF Uncertain, Fits
  <2>2. st \in TargetState
    BY <1>2, <2>1, StatesTyped
  <2>3. st.name = old.name
    BY <1>2 DEF Accepted, TargetState
  <2>4. /\ disk' \in {disk, Written(p, st)}
        /\ views' = [views EXCEPT ![p][Target(p)] = st]
        /\ pc'[p] = "idle"
    BY <1>7, <2>1 DEF Uncertain, Leave, Goto, Typed, TypeOK
  <2> QED BY <1>5, <2>2, <2>3, <2>4
<1>8. CASE Recover(p)
  <2>1. \A st \in Recovered(old) : st \in TargetState /\ st.name = old.name
    <3>1. \A b \in BOOLEAN : /\ [old EXCEPT !.recovery = b] \in TargetState
                             /\ [old EXCEPT !.recovery = b].name = old.name
      BY <1>2 DEF TargetState
    <3>2. /\ Failed(old) \in TargetState /\ Failed(old).name = old.name
          /\ Succeeded(old) \in TargetState /\ Succeeded(old).name = old.name
      BY <1>2, StatesTyped DEF Failed, Succeeded, TargetState
    <3> QED BY <1>2, <3>1, <3>2 DEF Recovered
  <2>2. PICK st \in Recovered(old) : Save(p, st) \/ SaveFails(p, st)
    BY <1>8 DEF Recover
  <2>3. /\ disk' \in {disk, Written(p, st)}
        /\ views' \in {views, [views EXCEPT ![p][Target(p)] = st]}
        /\ pc'[p] = "start"
    BY <1>8, <2>2 DEF Recover, Save, SaveFails, Goto, Typed, TypeOK
  <2> QED BY <1>5, <2>1, <2>2, <2>3
<1> QED BY <1>4, <1>6, <1>7, <1>8

LEMMA StartSound ==
    ASSUME Typed, Sound, NEW p \in Procs,
           (\E h \in Homes : Start(p, h)) \/ Begin(p) \/ Started(p)
    PROVE  Sound'
<1>1. Alone(p)
  BY StepsAlone DEF Step
<1>2. CASE \E h \in Homes : Start(p, h)
  <2>1. PICK h \in Homes : Start(p, h)
    BY <1>2
  <2>2. /\ UNCHANGED <<marker, disk>> /\ home'[p] = h /\ pc'[p] = "start"
        /\ views'[p] = disk[h]
    BY <2>1 DEF Start, Goto, Typed, TypeOK
  <2> QED BY <1>1, <2>2, QuietSound
<1>3. CASE Begin(p) \/ Started(p)
  <2>1. /\ UNCHANGED <<marker, disk>> /\ pc'[p] \in {"ensure", "idle"}
        /\ home'[p] = home[p] /\ views'[p] = views[p]
    BY <1>3 DEF Begin, Started, Goto, Typed, TypeOK
  <2> QED BY <1>1, <2>1, QuietSound
<1> QED BY <1>2, <1>3

LEMMA AdoptionSound ==
    ASSUME Typed, Sound, NEW p \in Procs,
           \/ \E h \in Homes, n \in Names : Adopt(p, h, n)
           \/ AdoptRemove(p) \/ AdoptRebuild(p)
    PROVE  Sound'
<1>1. Alone(p)
  BY StepsAlone DEF Step
<1>2. CASE \E h \in Homes, n \in Names : Adopt(p, h, n)
  <2>1. /\ UNCHANGED <<marker, disk, views>> /\ pc'[p] = "adopt" /\ pc[p] = "off"
    BY <1>2 DEF Adopt, Goto, Typed, TypeOK
  <2>2. views'[p] = Nothing
    BY <2>1 DEF Sound, Remembered
  <2> QED BY <1>1, <2>1, <2>2, QuietSound
<1>3. CASE AdoptRemove(p) \/ AdoptRebuild(p)
  <2>1. UNCHANGED <<marker, disk>> /\ pc[p] # "off"
    BY <1>3 DEF AdoptRemove, AdoptRebuild
  <2>2. CASE Refuse(p)
    BY <2>1, <2>2, RefusedSound DEF MarkersKept
  <2>3. CASE Goto(p, "rebuild") /\ UNCHANGED inside
    <3>1. /\ pc'[p] = "rebuild" /\ home'[p] = home[p] /\ views'[p] = views[p]
      BY <2>3 DEF Goto, inside, memory, Typed, TypeOK
    <3> QED BY <1>1, <2>1, <3>1, QuietSound
  <2> QED BY <1>3, <2>2, <2>3 DEF AdoptRemove, AdoptRebuild
<1> QED BY <1>2, <1>3

LEMMA OutsideSound ==
    ASSUME Typed, Sound,
           \/ \E p \in Procs : Crash(p)
           \/ \E h \in Homes : \/ \E c \in Configs[h] : Reconfigure(h, c)
                               \/ LoseState(h)
    PROVE  Sound'
<1>1. ASSUME NEW p \in Procs, Crash(p)
      PROVE  Sound'
  <2>1. Alone(p)
    BY <1>1, StepsAlone
  <2>2. UNCHANGED <<marker, disk>> /\ pc'[p] = "off" /\ views'[p] = Nothing
    BY <1>1 DEF Crash, Forget, Goto, Typed, TypeOK
  <2> QED BY <2>1, <2>2, QuietSound
<1>2. ASSUME NEW h \in Homes, NEW c \in Configs[h], Reconfigure(h, c)
      PROVE  Sound'
  BY <1>2 DEF Reconfigure, inside, memory, Sound, Belongs, Remembered, Marking, Target, Owner
<1>3. ASSUME NEW h \in Homes, LoseState(h)
      PROVE  Sound'
  <2>1. UNCHANGED <<marker, home, views, pc, job>>
    BY <1>3 DEF LoseState, inside, memory
  <2>2. \A k \in Homes, id \in Ids : disk'[k][id] \in {disk[k][id], NoState}
    BY <1>3 DEF LoseState, Nothing, Typed, TypeOK
  <2>3. \A k \in Homes, id \in Ids : Belongs(marker', k, id, disk'[k][id])
    <3> TAKE k \in Homes, id \in Ids
    <3>1. CASE disk'[k][id] = NoState
      BY <3>1 DEF Belongs
    <3>2. CASE disk'[k][id] = disk[k][id]
      BY <2>1, <3>2 DEF Sound
    <3> QED BY <2>2, <3>1, <3>2
  <2> QED BY <2>1, <2>3 DEF Sound, Remembered, Marking, Target, Owner
<1> QED BY <1>1, <1>2, <1>3

-----------------------------------------------------------------------------
LEMMA InitTyped == Init => Typed /\ Sound
<1> SUFFICES ASSUME Init PROVE Typed /\ Sound
  OBVIOUS
<1>1. TypeOK
  BY StatesTyped DEF Init, TypeOK, Pcs
<1>2. Doing
  BY DEF Init, Doing, Fits
<1>3. Sound
  BY DEF Init, Sound, Belongs, Nothing, Remembered, Marking
<1> QED BY <1>1, <1>2, <1>3 DEF Typed

LEMMA NextTyped == Typed /\ Sound /\ [Next]_vars => Typed' /\ Sound'
<1> SUFFICES ASSUME Typed, Sound, [Next]_vars PROVE Typed' /\ Sound'
  OBVIOUS
<1>1. ASSUME NEW p \in Procs, Step(p)
      PROVE  Typed' /\ Sound'
  <2>1. CASE Claim(p) \/ Deny(p) \/ Mark(p)
    BY <2>1, EnsureTyped, EnsureSound
  <2>2. CASE Register(p)
    BY <2>2, RegisterTyped, RegisterSound
  <2>3. CASE Busy(p) \/ Turned(p)
    BY <2>3, RequestTyped, RequestSound
  <2>4. CASE Accept(p)
    BY <2>4, AcceptTyped, AcceptSound
  <2>5. CASE Build(p) \/ Finish(p) \/ Uncertain(p) \/ Recover(p)
    BY <2>5, TransactionTyped, TransactionSound
  <2>6. CASE Begin(p) \/ Started(p)
    BY <2>6, StartTyped, StartSound
  <2>7. CASE AdoptRemove(p) \/ AdoptRebuild(p)
    BY <2>7, AdoptionTyped, AdoptionSound
  <2> QED BY <1>1, <2>1, <2>2, <2>3, <2>4, <2>5, <2>6, <2>7 DEF Step
<1>2. ASSUME NEW p \in Procs, NEW h \in Homes,
             Start(p, h) \/ \E n \in Names : Adopt(p, h, n)
      PROVE  Typed' /\ Sound'
  BY <1>2, StartTyped, StartSound, AdoptionTyped, AdoptionSound
<1>3. ASSUME NEW p \in Procs,
             \E n \in Names, r \in Releases \cup {NoRelease} : Request(p, n, r)
      PROVE  Typed' /\ Sound'
  BY <1>3, RequestTyped, RequestSound
<1>4. CASE \/ \E p \in Procs : Crash(p)
           \/ \E h \in Homes : \/ \E c \in Configs[h] : Reconfigure(h, c)
                               \/ LoseState(h)
  BY <1>4, OutsideTyped, OutsideSound
<1>5. CASE UNCHANGED vars
  BY <1>5 DEF vars, inside, memory, Typed, TypeOK, Doing, Sound, Belongs, Remembered,
              Marking, Target, Owner
<1> QED BY <1>1, <1>2, <1>3, <1>4, <1>5 DEF Next

(* The variables keep their types, for any number of processes, homes,     *)
(* targets, configurations and mishaps.                                    *)
THEOREM TypeCorrect == Spec => []TypeOK
<1>1. Typed => TypeOK
  BY DEF Typed
<1> QED BY <1>1, InitTyped, NextTyped, PTL DEF Spec

(* No two installations, and no two environments of one, have a state file *)
(* for the same directory: a state is only ever written for a directory    *)
(* whose marker names its owner, and a marker that is written stays.       *)
THEOREM OneOwner == Spec => []OwnedByOne
<1>1. Typed /\ Sound => OwnedByOne
  <2> SUFFICES ASSUME Sound,
                      NEW h \in Homes, NEW k \in Homes,
                      NEW a \in Registered(disk[h]), NEW b \in Registered(disk[k]),
                      disk[h][a].name.place = disk[k][b].name.place
               PROVE  <<h, a>> = <<k, b>>
    BY DEF OwnedByOne
  <2>1. /\ a \in Ids /\ disk[h][a].name \in Names /\ Id(disk[h][a].name) = a
        /\ marker[a[2]] = <<h, a[1]>>
    BY DEF Registered, Sound, Belongs
  <2>2. /\ b \in Ids /\ disk[k][b].name \in Names /\ Id(disk[k][b].name) = b
        /\ marker[b[2]] = <<k, b[1]>>
    BY DEF Registered, Sound, Belongs
  <2>3. a[2] = b[2]
    BY <2>1, <2>2, IdPlaces
  <2>4. h = k /\ a[1] = b[1]
    BY <2>1, <2>2, <2>3
  <2> QED BY <2>1, <2>2, <2>3, <2>4, IdPlaces
<1> QED BY <1>1, InitTyped, NextTyped, PTL DEF Spec
=============================================================================
