-------------------------- MODULE TargetsApartProofs --------------------------
(***************************************************************************)
(* The targets of an installation lie apart from each other, and a         *)
(* release_id belongs to one of them.  Both rest on the lock of the home   *)
(* and on the views: who is inside a locked section has loaded them there, *)
(* so they cover what is on disk, whatever was saved, lost or given up     *)
(* since; and what is checked against them holds for the disk.             *)
(*                                                                         *)
(* From that, what a state file says can be acted upon.  Whatever is       *)
(* pending on a node is in reach of its configuration, or the service is   *)
(* blocked: a state out of reach was there when the process loaded its     *)
(* views, and since nothing is saved for it, is still what they say of it; *)
(* so the check at the end of startup has seen it.  And a directory that   *)
(* serves something unknown to its state file is marked: what is built     *)
(* belongs to a release on record, and each directory to one target.       *)
(***************************************************************************)
EXTENDS TargetsProofs

Inside == {"start", "ensure", "mark", "save", "recover", "work", "built",
           "uncertain", "adopt", "remove", "rebuild"}

(* Who is inside holds the lock of its home.                               *)
Held == \A p \in Procs : pc[p] \in Inside => lock[home[p]] = p

ApartIn(states) == \A a, b \in Registered(states) : a # b => ~Overlap(a[2], b[2])

(* These states know of every target of those, and of every release.       *)
Covers(known, states) ==
    \A id \in Ids : /\ states[id] # NoState => known[id] # NoState
                    /\ states[id].records \subseteq known[id].records

(* Views cover the disk.  A release that could not be saved may be there   *)
(* without having been seen.                                               *)
Fresh(p) ==
    pc[p] \in Inside /\ job[p].why # "adopt" =>
        \A id \in Ids :
            /\ disk[home[p]][id] # NoState => views[p][id] # NoState
            /\ pc[p] # "uncertain" \/ id # Target(p) =>
                   disk[home[p]][id].records \subseteq views[p][id].records

(* The target to be registered is apart from the others.                   *)
Checked(p) ==
    pc[p] \in {"mark", "save"} /\ job[p].why # "adopt" =>
        \A id \in Registered(views[p]) :
            id # Target(p) => ~Overlap(Target(p)[2], id[2])

(* The release in hand is not that of another target.                      *)
Unused(p) ==
    pc[p] \in {"work", "built", "uncertain"} =>
        \A id \in Ids : id # Target(p) => job[p].release \notin views[p][id].records

Sorted == /\ Held
          /\ \A h \in Homes : ApartIn(disk[h]) /\ Loads(disk[h])
          /\ \A p \in Procs : /\ ApartIn(views[p]) /\ Loads(views[p])
                              /\ Fresh(p) /\ Checked(p) /\ Unused(p)

-----------------------------------------------------------------------------
LEMMA Covered ==
    ASSUME NEW known, NEW states, Covers(known, states), ApartIn(known), Loads(known)
    PROVE  ApartIn(states) /\ Loads(states)
<1>1. ApartIn(states)
  BY DEF Covers, ApartIn, Registered
<1>2. Loads(states)
  <2> SUFFICES ASSUME NEW a \in Ids, NEW b \in Ids, a # b
               PROVE  states[a].records \cap states[b].records = {}
    BY DEF Loads
  <2>1. known[a].records \cap known[b].records = {}
    BY DEF Loads
  <2>2. /\ states[a].records \subseteq known[a].records
        /\ states[b].records \subseteq known[b].records
    BY DEF Covers
  <2> QED BY <2>1, <2>2
<1> QED BY <1>1, <1>2

LEMMA NothingSorted == ApartIn(Nothing) /\ Loads(Nothing)
BY DEF ApartIn, Loads, Registered, Nothing, NoState

(* Two that are inside are on different homes.                             *)
LEMMA OthersElsewhere ==
    ASSUME Typed, Sorted, NEW p \in Procs, NEW h \in Homes, lock[h] \in {p, NoProc},
           lock' \in {lock, [lock EXCEPT ![h] = p], [lock EXCEPT ![h] = NoProc]},
           \A k \in Homes \ {h} : disk'[k] = disk[k]
    PROVE  \A q \in Procs \ {p} : pc[q] \in Inside =>
               /\ lock'[home[q]] = q /\ disk'[home[q]] = disk[home[q]]
<1> SUFFICES ASSUME NEW q \in Procs \ {p}, pc[q] \in Inside
             PROVE  lock'[home[q]] = q /\ disk'[home[q]] = disk[home[q]]
  OBVIOUS
<1>1. home[q] \in Homes /\ lock[home[q]] = q
  BY NoHomeAssumption DEF Typed, TypeOK, Sorted, Held, Inside
<1>2. home[q] # h
  BY <1>1, NoProcAssumption
<1> QED BY <1>1, <1>2 DEF Typed, TypeOK

(* Enough to look at p, and at what it wrote.                              *)
LEMMA SortedAfter ==
    ASSUME Sorted, NEW p \in Procs, Alone(p),
           \A q \in Procs \ {p} : pc[q] \in Inside =>
               /\ lock'[home[q]] = q /\ disk'[home[q]] = disk[home[q]],
           \A h \in Homes : ApartIn(disk'[h]) /\ Loads(disk'[h]),
           pc'[p] \in Inside => lock'[home'[p]] = p,
           ApartIn(views'[p]), Loads(views'[p]),
           Fresh(p)', Checked(p)', Unused(p)'
    PROVE  Sorted'
<1>1. Held'
  BY DEF Held, Sorted, Alone
<1>2. \A q \in Procs : /\ ApartIn(views'[q]) /\ Loads(views'[q])
                       /\ Fresh(q)' /\ Checked(q)' /\ Unused(q)'
  <2> TAKE q \in Procs
  <2>1. CASE q = p
    BY <2>1
  <2>2. CASE q # p
    <3>1. /\ pc'[q] = pc[q] /\ job'[q] = job[q] /\ home'[q] = home[q]
          /\ views'[q] = views[q]
      BY <2>2 DEF Alone
    <3>2. /\ ApartIn(views[q]) /\ Loads(views[q])
          /\ Fresh(q) /\ Checked(q) /\ Unused(q)
      BY DEF Sorted
    <3>3. Fresh(q)'
      BY <2>2, <3>1, <3>2 DEF Fresh, Target
    <3>4. Checked(q)' /\ Unused(q)'
      BY <3>1, <3>2 DEF Checked, Unused, Target
    <3> QED BY <3>1, <3>2, <3>3, <3>4
  <2> QED BY <2>1, <2>2
<1> QED BY <1>1, <1>2 DEF Sorted

(* A process that leaves, or never was inside.                             *)
LEMMA LeftSorted ==
    ASSUME Typed, Sorted, NEW p \in Procs, Alone(p), pc'[p] \notin Inside,
           NEW h \in Homes, lock' \in {lock, [lock EXCEPT ![h] = NoProc]},
           lock[h] \in {p, NoProc},
           \A k \in Homes \ {h} : disk'[k] = disk[k],
           ApartIn(disk'[h]), Loads(disk'[h]),
           ApartIn(views'[p]), Loads(views'[p])
    PROVE  Sorted'
<1>1. \A q \in Procs \ {p} : pc[q] \in Inside =>
               /\ lock'[home[q]] = q /\ disk'[home[q]] = disk[home[q]]
  BY OthersElsewhere
<1>2. Fresh(p)' /\ Checked(p)' /\ Unused(p)'
  BY DEF Fresh, Checked, Unused, Inside
<1>3. \A k \in Homes : ApartIn(disk'[k]) /\ Loads(disk'[k])
  BY DEF Sorted
<1> QED BY <1>1, <1>2, <1>3, SortedAfter

(* One that goes on inside, with nothing but its place changed.            *)
LEMMA OnwardSorted ==
    ASSUME Typed, Sorted, NEW p \in Procs, Alone(p), UNCHANGED <<disk, lock, home, views>>,
           pc[p] \in Inside, pc'[p] \in Inside, job'[p].why = job[p].why,
           pc[p] # "uncertain", pc'[p] # "uncertain",
           pc'[p] \in {"work", "built"} => pc[p] = "work" /\ UNCHANGED job,
           Checked(p)'
    PROVE  Sorted'
<1>1. \A q \in Procs \ {p} : pc[q] \in Inside =>
               /\ lock'[home[q]] = q /\ disk'[home[q]] = disk[home[q]]
  BY DEF Sorted, Held
<1>2. Fresh(p)' /\ Unused(p)'
  <2>1. Fresh(p) /\ Unused(p) /\ lock[home[p]] = p
    BY DEF Sorted, Held
  <2>2. Fresh(p)'
    BY <2>1 DEF Fresh, Target
  <2>3. Unused(p)'
    BY <2>1 DEF Unused, Target
  <2> QED BY <2>2, <2>3
<1>3. lock'[home'[p]] = p
  BY DEF Sorted, Held
<1> QED BY <1>1, <1>2, <1>3, SortedAfter DEF Sorted

(* Refusals, wherever they come from.                                      *)
LEMMA RefusedSorted ==
    ASSUME Typed, Sorted, NEW p \in Procs, Refuse(p), pc[p] \in Inside,
           \A k \in Homes \ {home[p]} : disk'[k] = disk[k],
           ApartIn(disk'[home[p]]), Loads(disk'[home[p]])
    PROVE  Sorted'
<1>1. /\ Alone(p)
      /\ \/ pc'[p] = "idle" /\ home'[p] = home[p] /\ views'[p] = views[p]
         \/ pc'[p] = "off" /\ home'[p] = NoHome /\ views'[p] = Nothing
  BY RefuseAlone DEF Inside
<1>2. home[p] \in Homes /\ lock[home[p]] = p
  BY NoHomeAssumption DEF Typed, TypeOK, Sorted, Held, Inside
<1>3. lock' = [lock EXCEPT ![home[p]] = NoProc]
  BY DEF Refuse, Leave, Release
<1>4. ApartIn(views'[p]) /\ Loads(views'[p])
  BY <1>1, NothingSorted DEF Sorted
<1>5. pc'[p] \notin Inside
  BY <1>1 DEF Inside
<1> QED BY <1>1, <1>2, <1>3, <1>4, <1>5, LeftSorted

LEMMA EnsureSorted ==
    ASSUME Typed, Sound, Sorted, NEW p \in Procs, Claim(p) \/ Deny(p) \/ Mark(p)
    PROVE  Sorted'
<1>1. /\ pc[p] \in {"ensure", "adopt", "mark"} /\ UNCHANGED disk /\ Alone(p)
      /\ home[p] \in Homes /\ job[p].name \in Names /\ Target(p) = Id(job[p].name)
      /\ pc[p] = "adopt" => job[p].why = "adopt"
  <2>1. pc[p] \in {"ensure", "adopt", "mark"} /\ UNCHANGED disk
    BY DEF Claim, Deny, Mark
  <2>2. /\ job[p].name \in Names /\ home[p] \in Homes
        /\ pc[p] = "adopt" => job[p].why = "adopt"
    BY <2>1, NoHomeAssumption DEF Typed, TypeOK, Doing, Fits
  <2>3. Alone(p)
    BY StepsAlone DEF Step
  <2> QED BY <2>1, <2>2, <2>3 DEF Target
<1>2. CASE Refuse(p)
  BY <1>1, <1>2, RefusedSorted DEF Inside, Sorted
<1>3. CASE ~Refuse(p)
  <2>1. /\ UNCHANGED <<disk, lock, home, views, job>>
        /\ pc'[p] \in {"mark", "save", "remove"}
        /\ pc[p] = "ensure" => ~Conflict(views[p], job[p].name)
        /\ pc'[p] = "mark" => pc[p] \in {"ensure", "adopt"}
        /\ pc'[p] = "save" => job[p].why # "adopt"
    BY <1>1, <1>3 DEF Claim, Deny, Mark, Claimed, Registrable, inside, memory, Goto,
                      Typed, TypeOK
  <2>2. \A id \in Registered(views[p]) : views[p][id].name.place = id[2]
    BY IdPlaces DEF Sound, Belongs, Registered
  <2>3. Checked(p)'
    <3>1. CASE pc[p] = "ensure"
      <4>1. \A id \in Registered(views[p]) :
               id # Target(p) => ~Overlap(Target(p)[2], id[2])
        BY <1>1, <2>1, <2>2, <3>1, IdPlaces DEF Conflict
      <4> QED BY <2>1, <4>1 DEF Checked, Target
    <3>2. CASE pc[p] = "adopt"
      BY <1>1, <2>1, <3>2 DEF Checked
    <3>3. CASE pc[p] = "mark"
      BY <2>1, <3>3 DEF Sorted, Checked, Target
    <3> QED BY <1>1, <3>1, <3>2, <3>3
  <2> QED BY <1>1, <2>1, <2>3, OnwardSorted DEF Inside
<1> QED BY <1>2, <1>3

(* What is saved for the target in hand leaves the other files alone.      *)
LEMMA WrittenFile ==
    ASSUME Typed, NEW p \in Procs, home[p] \in Homes, NEW st
    PROVE  /\ \A k \in Homes \ {home[p]} : Written(p, st)[k] = disk[k]
           /\ \A id \in Ids : Written(p, st)[home[p]][id] =
                               IF id = Target(p) THEN st ELSE disk[home[p]][id]
BY DEF Written, Typed, TypeOK

LEMMA RegisterSorted ==
    ASSUME Typed, Sound, Sorted, NEW p \in Procs, Register(p)
    PROVE  Sorted'
<1> DEFINE n == job[p].name
           old == disk[home[p]][Target(p)]
           st == Ensured(p, n)
           known == [views[p] EXCEPT ![Target(p)] = st]
<1>1. /\ pc[p] = "save" /\ home[p] \in Homes /\ n \in Names
      /\ Target(p) = Id(n) /\ Target(p) \in Ids /\ job[p].why \in {"start", "request"}
      /\ Alone(p) /\ lock[home[p]] = p
  <2>1. pc[p] = "save"
    BY DEF Register
  <2>2. home[p] \in Homes /\ n \in Names /\ job[p].why \in {"start", "request"}
    BY <2>1, NoHomeAssumption DEF Typed, TypeOK, Doing, Fits
  <2>3. Alone(p) /\ lock[home[p]] = p
    BY <2>1, StepsAlone DEF Step, Sorted, Held, Inside
  <2> QED BY <2>1, <2>2, <2>3, IdPlaces DEF Target
<1>2. st.records = old.records /\ st # NoState
  <2>1. old \in TargetState
    BY <1>1 DEF Typed, TypeOK
  <2>2. st.records = old.records /\ st.name = n
    BY <1>1, <2>1 DEF Ensured, NoState, TargetState
  <2> HIDE DEF st, old
  <2> QED BY <1>1, <2>2, NoNameAssumption DEF NoState
<1>3. /\ views[p] \in [Ids -> TargetState]
      /\ \A id \in Ids : known[id] = IF id = Target(p) THEN st ELSE views[p][id]
  BY DEF Typed, TypeOK
<1>4. /\ ApartIn(views[p]) /\ Loads(views[p])
      /\ ApartIn(disk[home[p]]) /\ Loads(disk[home[p]])
      /\ \A id \in Ids : /\ disk[home[p]][id] # NoState => views[p][id] # NoState
                         /\ disk[home[p]][id].records \subseteq views[p][id].records
      /\ \A id \in Registered(views[p]) :
             id # Target(p) => ~Overlap(Target(p)[2], id[2])
  BY <1>1 DEF Sorted, Fresh, Checked, Inside
<1> HIDE DEF st, known, old
<1>5. ApartIn(known)
  <2> SUFFICES ASSUME NEW a \in Ids, NEW b \in Ids, a # b,
                      known[a] # NoState, known[b] # NoState
               PROVE  ~Overlap(a[2], b[2])
    BY DEF ApartIn, Registered
  <2>1. CASE a = Target(p)
    BY <1>3, <1>4, <2>1 DEF Registered
  <2>2. CASE b = Target(p)
    BY <1>3, <1>4, <2>2 DEF Registered, Overlap
  <2>3. CASE a # Target(p) /\ b # Target(p)
    BY <1>3, <1>4, <2>3 DEF Registered, ApartIn
  <2> QED BY <2>1, <2>2, <2>3
<1>6. Loads(known)
  <2>1. \A id \in Ids : known[id].records \subseteq views[p][id].records
    BY <1>2, <1>3, <1>4 DEF old
  <2> SUFFICES ASSUME NEW a \in Ids, NEW b \in Ids, a # b
               PROVE  known[a].records \cap known[b].records = {}
    BY DEF Loads
  <2>2. views[p][a].records \cap views[p][b].records = {}
    BY <1>4 DEF Loads
  <2> QED BY <2>1, <2>2
<1>7. /\ \A k \in Homes \ {home[p]} : Written(p, st)[k] = disk[k]
      /\ \A id \in Ids : Written(p, st)[home[p]][id] =
                          IF id = Target(p) THEN st ELSE disk[home[p]][id]
  BY <1>1, WrittenFile
<1>8. Covers(known, Written(p, st)[home[p]])
  BY <1>2, <1>3, <1>4, <1>7 DEF Covers
<1>9. ApartIn(Written(p, st)[home[p]]) /\ Loads(Written(p, st)[home[p]])
  BY <1>5, <1>6, <1>8, Covered
<1>10. CASE /\ Save(p, st) /\ job[p].why = "start" /\ Goto(p, "recover")
            /\ UNCHANGED <<lock, job, home>>
  <2>1. /\ disk' = Written(p, st) /\ views'[p] = known /\ pc'[p] = "recover"
        /\ UNCHANGED <<lock, job, home>>
    BY <1>10 DEF Save, Goto, known, Typed, TypeOK
  <2>2. \A q \in Procs \ {p} : pc[q] \in Inside =>
               /\ lock'[home[q]] = q /\ disk'[home[q]] = disk[home[q]]
    BY <1>1, <1>7, <2>1, OthersElsewhere
  <2>3. Fresh(p)' /\ Checked(p)' /\ Unused(p)'
    BY <1>8, <2>1 DEF Fresh, Checked, Unused, Covers
  <2>4. \A h \in Homes : ApartIn(disk'[h]) /\ Loads(disk'[h])
    BY <1>7, <1>9, <2>1 DEF Sorted
  <2> QED BY <1>1, <1>5, <1>6, <2>1, <2>2, <2>3, <2>4, SortedAfter
<1>11. CASE Save(p, st) /\ Release(p) /\ Look(p, job[p], views'[p])
  <2>1. /\ disk' = Written(p, st) /\ views'[p] = known
        /\ pc'[p] \in {"idle", "queued"}
        /\ lock' = [lock EXCEPT ![home[p]] = NoProc]
    BY <1>11 DEF Save, Release, Look, Goto, known, Typed, TypeOK
  <2> QED BY <1>1, <1>5, <1>6, <1>7, <1>9, <2>1, LeftSorted DEF Inside
<1>12. CASE disk' \in {disk, Written(p, st)} /\ Refuse(p)
  <2>1. /\ \A k \in Homes \ {home[p]} : disk'[k] = disk[k]
        /\ ApartIn(disk'[home[p]]) /\ Loads(disk'[home[p]])
    BY <1>4, <1>7, <1>9, <1>12
  <2> QED BY <1>1, <1>12, <2>1, RefusedSorted DEF Inside
<1> QED BY <1>10, <1>11, <1>12 DEF Register, st

LEMMA RequestSorted ==
    ASSUME Typed, Sorted, NEW p \in Procs,
           \/ \E n \in Names, r \in Releases \cup {NoRelease} : Request(p, n, r)
           \/ Busy(p) \/ Turned(p)
    PROVE  Sorted'
<1>1. /\ Alone(p) /\ UNCHANGED <<disk, home>> /\ home[p] \in Homes
      /\ pc[p] \in {"idle", "queued"}
  <2>1. pc[p] \in {"idle", "queued"} /\ UNCHANGED <<disk, home>>
    BY DEF Request, Busy, Turned, memory
  <2> QED BY <2>1, StepsAlone, NoHomeAssumption DEF Step, Typed, TypeOK
<1>2. /\ ApartIn(disk[home[p]]) /\ Loads(disk[home[p]])
      /\ ApartIn(views[p]) /\ Loads(views[p])
  BY <1>1 DEF Sorted
<1>3. ASSUME pc'[p] \in {"idle", "queued"}, UNCHANGED lock, UNCHANGED views \/ Load(p)
      PROVE  Sorted'
  <2>1. views'[p] \in {views[p], disk[home[p]]}
    BY <1>3 DEF Load, Typed, TypeOK
  <2>2. \A q \in Procs \ {p} : pc[q] \in Inside =>
               /\ lock'[home[q]] = q /\ disk'[home[q]] = disk[home[q]]
    BY <1>1, <1>3 DEF Sorted, Held
  <2>3. Fresh(p)' /\ Checked(p)' /\ Unused(p)' /\ pc'[p] \notin Inside
    BY <1>3 DEF Fresh, Checked, Unused, Inside
  <2>4. ApartIn(views'[p]) /\ Loads(views'[p])
    BY <1>2, <2>1
  <2> QED BY <1>1, <2>2, <2>3, <2>4, SortedAfter DEF Sorted
<1>4. CASE \E wanted \in Job : wanted.why = "request" /\ Resolve(p, wanted)
  <2>1. /\ lock[home[p]] = NoProc /\ lock' = [lock EXCEPT ![home[p]] = p]
        /\ views'[p] = disk[home[p]] /\ pc'[p] = "ensure" /\ lock'[home[p]] = p
    BY <1>1, <1>4 DEF Resolve, Take, Free, Load, Goto, Typed, TypeOK
  <2>2. \A q \in Procs \ {p} : pc[q] \in Inside =>
               /\ lock'[home[q]] = q /\ disk'[home[q]] = disk[home[q]]
    BY <1>1, <2>1, OthersElsewhere
  <2>3. Fresh(p)' /\ Checked(p)' /\ Unused(p)'
    BY <1>1, <2>1 DEF Fresh, Checked, Unused
  <2>4. lock'[home'[p]] = p /\ ApartIn(views'[p]) /\ Loads(views'[p])
    BY <1>1, <1>2, <2>1
  <2> QED BY <1>1, <2>2, <2>3, <2>4, SortedAfter DEF Sorted
<1>5. CASE Busy(p) \/ Turned(p)
  <2>1. pc'[p] \in {"idle", "queued"} /\ UNCHANGED lock
    BY <1>5 DEF Busy, Turned, Goto, Typed, TypeOK
  <2>2. UNCHANGED views \/ Load(p)
    BY <1>5 DEF Busy, Turned, memory
  <2> QED BY <1>3, <2>1, <2>2
<1>6. ASSUME NEW n \in Names, NEW r \in Releases \cup {NoRelease}, Request(p, n, r)
      PROVE  Sorted'
  <2> DEFINE wanted == [name |-> n, release |-> r, why |-> "request"]
  <2>1. wanted \in Job /\ wanted.why = "request"
    BY DEF Job
  <2>2. CASE Resolve(p, wanted)
    BY <1>4, <2>1, <2>2
  <2>3. CASE Look(p, wanted, views[p]) /\ UNCHANGED <<lock, views>>
    <3>1. pc'[p] \in {"idle", "queued"}
      BY <2>3 DEF Look, Goto, Typed, TypeOK
    <3> QED BY <1>3, <2>3, <3>1
  <2> QED BY <1>6, <2>2, <2>3 DEF Request
<1> QED BY <1>5, <1>6

LEMMA AcceptSorted ==
    ASSUME Typed, Sorted, NEW p \in Procs, Accept(p)
    PROVE  Sorted'
<1> DEFINE here == disk[home[p]]
           old == here[Target(p)]
           r == job[p].release
           st == Accepted(old, r)
           new == Written(p, st)[home[p]]
<1>1. /\ pc[p] = "queued" /\ old # NoState /\ UNCHANGED <<home, job>>
      /\ ~Duplicate(here, Target(p), r)
      /\ \/ /\ disk' = Written(p, st) /\ pc'[p] = "work"
            /\ views' = [views EXCEPT ![p] = disk'[home[p]]]
         \/ /\ disk' \in {disk, Written(p, st)} /\ pc'[p] = "uncertain"
            /\ Load(p)
  BY DEF Accept, Goto, Typed, TypeOK
<1>2. /\ home[p] \in Homes /\ Target(p) \in Ids /\ Fits(pc[p], job[p])
      /\ old \in TargetState
  BY <1>1, InHand
<1>3. r \in Releases /\ Alone(p)
  BY <1>1, <1>2, StepsAlone DEF Fits, Step
<1>4. st.records = old.records \cup {r} /\ st # NoState
  <2>1. st.records = old.records \cup {r} /\ st.active = r
    BY <1>2 DEF Accepted, TargetState
  <2> HIDE DEF st
  <2> QED BY <1>3, <2>1, NoReleaseAssumption DEF NoState
<1>5. \A id \in Ids : id # Target(p) => r \notin here[id].records
  BY <1>1 DEF Duplicate
<1>6. /\ \A k \in Homes \ {home[p]} : Written(p, st)[k] = disk[k]
      /\ \A id \in Ids : new[id] = IF id = Target(p) THEN st ELSE here[id]
  BY <1>2, WrittenFile
<1>7. ApartIn(here) /\ Loads(here)
  BY <1>2 DEF Sorted
<1> HIDE DEF st, here, new
<1>8. ApartIn(new)
  BY <1>1, <1>4, <1>6, <1>7 DEF ApartIn, Registered
<1>9. Loads(new)
  <2> SUFFICES ASSUME NEW a \in Ids, NEW b \in Ids, a # b
               PROVE  new[a].records \cap new[b].records = {}
    BY DEF Loads
  <2>1. here[a].records \cap here[b].records = {}
    BY <1>7 DEF Loads
  <2>2. CASE a = Target(p)
    <3>1. new[a].records = here[a].records \cup {r} /\ new[b].records = here[b].records
      BY <1>4, <1>6, <2>2
    <3>2. r \notin here[b].records
      BY <1>5, <2>2
    <3> QED BY <2>1, <3>1, <3>2
  <2>3. CASE b = Target(p)
    <3>1. new[b].records = here[b].records \cup {r} /\ new[a].records = here[a].records
      BY <1>4, <1>6, <2>3
    <3>2. r \notin here[a].records
      BY <1>5, <2>3
    <3> QED BY <2>1, <3>1, <3>2
  <2>4. CASE a # Target(p) /\ b # Target(p)
    BY <1>6, <2>1, <2>4
  <2> QED BY <2>2, <2>3, <2>4
<1>10. /\ lock[home[p]] = NoProc /\ lock' = [lock EXCEPT ![home[p]] = p]
       /\ lock'[home[p]] = p
  BY <1>2 DEF Accept, Take, Free, Typed, TypeOK
<1>11. \A k \in Homes \ {home[p]} : disk'[k] = disk[k]
  BY <1>1, <1>6
<1>12. \A q \in Procs \ {p} : pc[q] \in Inside =>
               /\ lock'[home[q]] = q /\ disk'[home[q]] = disk[home[q]]
  BY <1>2, <1>10, <1>11, OthersElsewhere
<1>13. \A h \in Homes : ApartIn(disk'[h]) /\ Loads(disk'[h])
  <2>1. disk'[home[p]] \in {here, new}
    BY <1>1 DEF here, new
  <2> QED BY <1>7, <1>8, <1>9, <1>11, <2>1 DEF Sorted
<1>14. CASE /\ disk' = Written(p, st) /\ pc'[p] = "work"
            /\ views' = [views EXCEPT ![p] = disk'[home[p]]]
  <2>1. views'[p] = new /\ disk'[home[p]] = new
    BY <1>14 DEF new, Typed, TypeOK
  <2>2. Fresh(p)' /\ Checked(p)'
    BY <1>1, <1>14, <2>1 DEF Fresh, Checked
  <2>3. Unused(p)'
    <3>1. Target(p)' = Target(p) /\ job'[p].release = r
      BY <1>1 DEF Target
    <3> QED BY <1>5, <1>6, <2>1, <3>1 DEF Unused
  <2> QED BY <1>1, <1>3, <1>8, <1>9, <1>10, <1>12, <1>13, <2>1, <2>2, <2>3, SortedAfter
<1>15. CASE disk' \in {disk, Written(p, st)} /\ pc'[p] = "uncertain" /\ Load(p)
  <2>1. views'[p] = here /\ disk'[home[p]] \in {here, new}
    BY <1>15 DEF here, new, Load, Typed, TypeOK
  <2>2. Target(p)' = Target(p) /\ job'[p].release = r
    BY <1>1 DEF Target
  <2>3. Fresh(p)'
    <3>1. \A id \in Ids :
             /\ disk'[home[p]][id] # NoState => here[id] # NoState
             /\ id # Target(p) => disk'[home[p]][id].records \subseteq here[id].records
      BY <1>1, <1>6, <2>1
    <3>2. home'[p] = home[p] /\ views'[p] = here /\ pc'[p] = "uncertain"
      BY <1>1, <1>15, <2>1
    <3> QED BY <2>2, <3>1, <3>2 DEF Fresh
  <2>4. Checked(p)' /\ Unused(p)'
    BY <1>5, <1>15, <2>1, <2>2 DEF Checked, Unused
  <2> QED BY <1>1, <1>3, <1>7, <1>10, <1>12, <1>13, <2>1, <2>3, <2>4, SortedAfter
<1> QED BY <1>1, <1>14, <1>15

(* A state that is saved for a target that is known, with its releases     *)
(* and perhaps the one in hand.                                            *)
LEMMA StoredCovers ==
    ASSUME Typed, Sorted, NEW p \in Procs, home[p] \in Homes, Target(p) \in Ids,
           pc[p] \in {"recover", "work", "built", "uncertain"}, job[p].why # "adopt",
           NEW st, st # NoState, views[p][Target(p)] # NoState,
           st.records = IF pc[p] = "uncertain"
                        THEN views[p][Target(p)].records \cup {job[p].release}
                        ELSE views[p][Target(p)].records
    PROVE  LET known == [views[p] EXCEPT ![Target(p)] = st] IN
           /\ ApartIn(known) /\ Loads(known)
           /\ Covers(known, Written(p, st)[home[p]])
           /\ pc[p] # "uncertain" =>
                  /\ Covers(known, disk[home[p]])
                  /\ Covers(views[p], Written(p, st)[home[p]])
                  /\ Covers(views[p], disk[home[p]])
<1> DEFINE known == [views[p] EXCEPT ![Target(p)] = st]
           r == job[p].release
           new == Written(p, st)[home[p]]
<1>1. \A id \in Ids : /\ known[id] = IF id = Target(p) THEN st ELSE views[p][id]
                      /\ new[id] = IF id = Target(p) THEN st ELSE disk[home[p]][id]
  BY WrittenFile DEF Typed, TypeOK
<1>2. /\ ApartIn(views[p]) /\ Loads(views[p])
      /\ \A id \in Ids : /\ disk[home[p]][id] # NoState => views[p][id] # NoState
                         /\ pc[p] # "uncertain" \/ id # Target(p) =>
                                disk[home[p]][id].records \subseteq views[p][id].records
  BY DEF Sorted, Fresh, Inside
<1>3. pc[p] = "uncertain" => \A id \in Ids : id # Target(p) => r \notin views[p][id].records
  BY DEF Sorted, Unused
<1> HIDE DEF known, new
<1>4. ApartIn(known)
  BY <1>1, <1>2 DEF ApartIn, Registered
<1>5. Loads(known)
  <2> SUFFICES ASSUME NEW a \in Ids, NEW b \in Ids, a # b
               PROVE  known[a].records \cap known[b].records = {}
    BY DEF Loads
  <2>1. views[p][a].records \cap views[p][b].records = {}
    BY <1>2 DEF Loads
  <2>2. CASE pc[p] # "uncertain"
    <3>1. \A id \in Ids : known[id].records = views[p][id].records
      BY <1>1, <2>2
    <3> QED BY <2>1, <3>1
  <2>3. CASE pc[p] = "uncertain"
    <3>1. CASE a = Target(p)
      <4>1. known[a].records = views[p][a].records \cup {r}
        BY <1>1, <2>3, <3>1
      <4>2. known[b].records = views[p][b].records /\ r \notin views[p][b].records
        BY <1>1, <1>3, <2>3, <3>1
      <4> QED BY <2>1, <4>1, <4>2
    <3>2. CASE b = Target(p)
      <4>1. known[b].records = views[p][b].records \cup {r}
        BY <1>1, <2>3, <3>2
      <4>2. known[a].records = views[p][a].records /\ r \notin views[p][a].records
        BY <1>1, <1>3, <2>3, <3>2
      <4> QED BY <2>1, <4>1, <4>2
    <3>3. CASE a # Target(p) /\ b # Target(p)
      BY <1>1, <2>1, <3>3
    <3> QED BY <3>1, <3>2, <3>3
  <2> QED BY <2>2, <2>3
<1>6. Covers(known, new)
  BY <1>1, <1>2 DEF Covers
<1>7. ASSUME pc[p] # "uncertain"
      PROVE  /\ Covers(known, disk[home[p]]) /\ Covers(views[p], new)
             /\ Covers(views[p], disk[home[p]])
  BY <1>1, <1>2, <1>7 DEF Covers
<1> QED BY <1>4, <1>5, <1>6, <1>7 DEF known, new

LEMMA TransactionSorted ==
    ASSUME Typed, Sound, Sorted, NEW p \in Procs,
           Build(p) \/ Finish(p) \/ Uncertain(p) \/ Recover(p)
    PROVE  Sorted'
<1> DEFINE old == views[p][Target(p)]
           r == job[p].release
<1>1. /\ pc[p] \in {"work", "built", "uncertain", "recover"}
      /\ UNCHANGED home /\ Alone(p) /\ lock[home[p]] = p
  <2>1. pc[p] \in {"work", "built", "uncertain", "recover"} /\ UNCHANGED home
    BY DEF Build, Finish, Uncertain, Recover, inside, memory
  <2> QED BY <2>1, StepsAlone DEF Step, Sorted, Held, Inside
<1>2. /\ home[p] \in Homes /\ Target(p) \in Ids /\ Fits(pc[p], job[p])
      /\ old \in TargetState /\ old # NoState /\ old.name \in Names
      /\ job[p].why \in {"start", "request"}
  <2>1. old # NoState
    BY <1>1 DEF Sound, Remembered
  <2>2. home[p] \in Homes /\ Target(p) \in Ids /\ Fits(pc[p], job[p]) /\ old \in TargetState
    BY <1>1, InHand
  <2> QED BY <1>1, <2>1, <2>2 DEF Sound, Belongs, Fits
<1>3. /\ ApartIn(views[p]) /\ Loads(views[p])
      /\ ApartIn(disk[home[p]]) /\ Loads(disk[home[p]])
  BY <1>2 DEF Sorted
<1>4. \A st : st.name = old.name => st # NoState
  BY <1>2, NoNameAssumption DEF NoState
<1>5. CASE Build(p)
  <2>1. UNCHANGED <<disk, lock, home, views, job>> /\ pc[p] = "work" /\ pc'[p] = "built"
    BY <1>5 DEF Build, inside, memory, Goto, Typed, TypeOK
  <2>2. Checked(p)'
    BY <2>1 DEF Checked
  <2> QED BY <1>1, <2>1, <2>2, OnwardSorted DEF Inside
<1>6. ASSUME NEW st, st.name = old.name,
             st.records = IF pc[p] = "uncertain" THEN old.records \cup {r} ELSE old.records,
             disk' \in {disk, Written(p, st)},
             views' \in {views, [views EXCEPT ![p][Target(p)] = st]},
             \/ pc'[p] = "idle" /\ Release(p)
             \/ /\ \/ pc'[p] = "start"
                   \/ pc'[p] = "uncertain" /\ pc[p] # "recover" /\ UNCHANGED views
                /\ pc[p] # "uncertain" /\ UNCHANGED <<lock, job>>
      PROVE  Sorted'
  <2> DEFINE known == [views[p] EXCEPT ![Target(p)] = st]
             new == Written(p, st)[home[p]]
  <2>1. /\ ApartIn(known) /\ Loads(known)
        /\ Covers(known, new)
        /\ pc[p] # "uncertain" =>
               /\ Covers(known, disk[home[p]])
               /\ Covers(views[p], new) /\ Covers(views[p], disk[home[p]])
    BY <1>1, <1>2, <1>4, <1>6, StoredCovers
  <2>2. /\ \A k \in Homes \ {home[p]} : disk'[k] = disk[k]
        /\ disk'[home[p]] \in {disk[home[p]], new}
        /\ views'[p] \in {views[p], known}
    <3>1. \A k \in Homes \ {home[p]} : Written(p, st)[k] = disk[k]
      BY <1>2, WrittenFile
    <3>2. views'[p] \in {views[p], known}
      BY <1>2, <1>6 DEF Typed, TypeOK
    <3> QED BY <1>6, <3>1, <3>2
  <2> HIDE DEF known, new
  <2>3. ApartIn(new) /\ Loads(new)
    BY <2>1, Covered
  <2>4. /\ ApartIn(disk'[home[p]]) /\ Loads(disk'[home[p]])
        /\ ApartIn(views'[p]) /\ Loads(views'[p])
    BY <1>3, <2>1, <2>2, <2>3
  <2>5. CASE pc'[p] = "idle" /\ Release(p)
    <3>1. lock' = [lock EXCEPT ![home[p]] = NoProc]
      BY <2>5 DEF Release
    <3> QED BY <1>1, <1>2, <2>2, <2>4, <2>5, <3>1, LeftSorted DEF Inside
  <2>6. CASE /\ \/ pc'[p] = "start"
                \/ pc'[p] = "uncertain" /\ pc[p] # "recover" /\ UNCHANGED views
             /\ pc[p] # "uncertain" /\ UNCHANGED <<lock, job>>
    <3>1. \A q \in Procs \ {p} : pc[q] \in Inside =>
               /\ lock'[home[q]] = q /\ disk'[home[q]] = disk[home[q]]
      BY <1>1, <1>2, <2>2, <2>6, OthersElsewhere
    <3>2. Covers(views'[p], disk'[home'[p]])
      BY <1>1, <2>1, <2>2, <2>6
    <3>3. Fresh(p)' /\ Checked(p)'
      BY <2>6, <3>2 DEF Fresh, Checked, Covers
    <3>4. Unused(p)'
      <4>1. CASE pc'[p] = "start"
        BY <4>1 DEF Unused
      <4>2. CASE pc[p] \in {"work", "built"} /\ UNCHANGED <<views, job>>
        BY <4>2 DEF Unused, Target, Sorted
      <4> QED BY <1>1, <2>6, <4>1, <4>2
    <3>5. \A k \in Homes : ApartIn(disk'[k]) /\ Loads(disk'[k])
      BY <2>2, <2>4 DEF Sorted
    <3>6. lock'[home'[p]] = p
      BY <1>1, <2>6
    <3> QED BY <1>1, <2>4, <3>1, <3>3, <3>4, <3>5, <3>6, SortedAfter
  <2> QED BY <1>6, <2>5, <2>6
<1>7. CASE Finish(p)
  <2>1. /\ Failed(old).name = old.name /\ Failed(old).records = old.records
        /\ Succeeded(old).name = old.name /\ Succeeded(old).records = old.records
    BY <1>2 DEF Failed, Succeeded, TargetState
  <2>2. PICK st \in {Failed(old), Succeeded(old)} :
           \/ Save(p, st) /\ Leave(p)
           \/ SaveFails(p, st) /\ Goto(p, "uncertain") /\ UNCHANGED <<lock, job>>
    BY <1>7 DEF Finish
  <2>3. pc[p] \in {"work", "built"} /\ job[p].why = "request"
    BY <1>2, <1>7 DEF Finish, Fits
  <2>4. /\ disk' \in {disk, Written(p, st)}
        /\ views' \in {views, [views EXCEPT ![p][Target(p)] = st]}
        /\ \/ pc'[p] = "idle" /\ Release(p)
           \/ pc'[p] = "uncertain" /\ UNCHANGED <<views, lock, job>>
    BY <2>2, <2>3 DEF Save, SaveFails, Leave, Goto, Typed, TypeOK
  <2> QED BY <1>6, <2>1, <2>2, <2>3, <2>4
<1>8. CASE Uncertain(p)
  <2> DEFINE st == [Accepted(old, r) EXCEPT !.recovery = TRUE]
  <2>1. st.name = old.name /\ st.records = old.records \cup {r}
    BY <1>2 DEF Accepted, TargetState
  <2>2. pc[p] = "uncertain" /\ job[p].why = "request"
    BY <1>2, <1>8 DEF Uncertain, Fits
  <2>3. /\ disk' \in {disk, Written(p, st)}
        /\ views' = [views EXCEPT ![p][Target(p)] = st]
        /\ pc'[p] = "idle" /\ Release(p)
    BY <1>8, <2>2 DEF Uncertain, Leave, Goto, Typed, TypeOK
  <2> HIDE DEF st
  <2> QED BY <1>6, <2>1, <2>2, <2>3
<1>9. CASE Recover(p)
  <2>1. \A st \in Recovered(old) : st.name = old.name /\ st.records = old.records
    BY <1>2 DEF Recovered, Failed, Succeeded, TargetState
  <2>2. PICK st \in Recovered(old) : Save(p, st) \/ SaveFails(p, st)
    BY <1>9 DEF Recover
  <2>3. /\ disk' \in {disk, Written(p, st)}
        /\ views' \in {views, [views EXCEPT ![p][Target(p)] = st]}
        /\ pc'[p] = "start" /\ pc[p] = "recover" /\ UNCHANGED <<lock, job>>
    BY <1>9, <2>2 DEF Recover, Save, SaveFails, Goto, Typed, TypeOK
  <2>4. /\ st.name = old.name
        /\ st.records = IF pc[p] = "uncertain" THEN old.records \cup {r} ELSE old.records
    BY <2>1, <2>2, <2>3
  <2> QED BY <1>6, <2>3, <2>4
<1> QED BY <1>5, <1>7, <1>8, <1>9

LEMMA StartSorted ==
    ASSUME Typed, Sorted, NEW p \in Procs,
           (\E h \in Homes : Start(p, h)) \/ Begin(p) \/ Started(p)
    PROVE  Sorted'
<1>1. Alone(p)
  BY StepsAlone DEF Step
<1>2. ASSUME NEW h \in Homes, Start(p, h)
      PROVE  Sorted'
  <2>1. /\ lock[h] = NoProc /\ lock' = [lock EXCEPT ![h] = p] /\ lock'[h] = p
        /\ UNCHANGED disk /\ home'[p] = h /\ views'[p] = disk[h] /\ pc'[p] = "start"
    BY <1>2 DEF Start, Goto, Typed, TypeOK
  <2>2. \A q \in Procs \ {p} : pc[q] \in Inside =>
               /\ lock'[home[q]] = q /\ disk'[home[q]] = disk[home[q]]
    BY <2>1, OthersElsewhere
  <2>3. Fresh(p)' /\ Checked(p)' /\ Unused(p)'
    BY <2>1 DEF Fresh, Checked, Unused
  <2>4. ApartIn(views'[p]) /\ Loads(views'[p])
    BY <2>1 DEF Sorted
  <2> QED BY <1>1, <2>1, <2>2, <2>3, <2>4, SortedAfter DEF Sorted
<1>3. CASE Begin(p)
  <2>1. /\ UNCHANGED <<disk, lock, home, views>> /\ pc[p] = "start" /\ pc'[p] = "ensure"
        /\ job'[p].why = job[p].why
    BY <1>3 DEF Begin, Goto, Typed, TypeOK, Job
  <2>2. Checked(p)'
    BY <2>1 DEF Checked
  <2> QED BY <1>1, <2>1, <2>2, OnwardSorted DEF Inside
<1>4. CASE Started(p)
  <2>1. /\ UNCHANGED <<disk, home, views>> /\ pc[p] = "start" /\ pc'[p] = "idle"
        /\ lock' = [lock EXCEPT ![home[p]] = NoProc]
    BY <1>4 DEF Started, Release, Goto, Typed, TypeOK
  <2>2. home[p] \in Homes /\ lock[home[p]] = p
    BY <2>1, NoHomeAssumption DEF Typed, TypeOK, Sorted, Held, Inside
  <2>3. ApartIn(disk[home[p]]) /\ Loads(disk[home[p]]) /\ ApartIn(views[p]) /\ Loads(views[p])
    BY <2>2 DEF Sorted
  <2> QED BY <1>1, <2>1, <2>2, <2>3, LeftSorted DEF Inside
<1> QED BY <1>2, <1>3, <1>4

LEMMA AdoptionSorted ==
    ASSUME Typed, Sorted, NEW p \in Procs,
           \/ \E h \in Homes, n \in Names : Adopt(p, h, n)
           \/ AdoptRemove(p) \/ AdoptRebuild(p)
    PROVE  Sorted'
<1>1. Alone(p)
  BY StepsAlone DEF Step
<1>2. ASSUME NEW h \in Homes, NEW n \in Names, Adopt(p, h, n)
      PROVE  Sorted'
  <2>1. /\ lock[h] = NoProc /\ lock' = [lock EXCEPT ![h] = p] /\ lock'[h] = p
        /\ UNCHANGED <<disk, views>> /\ home'[p] = h /\ pc'[p] = "adopt"
        /\ job'[p].why = "adopt"
    BY <1>2 DEF Adopt, Goto, Typed, TypeOK
  <2>2. \A q \in Procs \ {p} : pc[q] \in Inside =>
               /\ lock'[home[q]] = q /\ disk'[home[q]] = disk[home[q]]
    BY <2>1, OthersElsewhere
  <2>3. Fresh(p)' /\ Checked(p)' /\ Unused(p)'
    BY <2>1 DEF Fresh, Checked, Unused
  <2> QED BY <1>1, <2>1, <2>2, <2>3, SortedAfter DEF Sorted
<1>3. CASE AdoptRemove(p) \/ AdoptRebuild(p)
  <2>1. pc[p] \in {"remove", "rebuild"} /\ UNCHANGED disk /\ home[p] \in Homes
    BY <1>3, NoHomeAssumption DEF AdoptRemove, AdoptRebuild, Typed, TypeOK
  <2>2. CASE Refuse(p)
    BY <2>1, <2>2, RefusedSorted DEF Inside, Sorted
  <2>3. CASE Goto(p, "rebuild") /\ UNCHANGED inside
    <3>1. pc'[p] = "rebuild" /\ UNCHANGED <<disk, lock, home, views, job>>
      BY <2>1, <2>3 DEF Goto, inside, memory, Typed, TypeOK
    <3>2. Checked(p)'
      BY <3>1 DEF Checked
    <3> QED BY <1>1, <2>1, <3>1, <3>2, OnwardSorted DEF Inside
  <2> QED BY <1>3, <2>2, <2>3 DEF AdoptRemove, AdoptRebuild
<1> QED BY <1>2, <1>3

LEMMA OutsideSorted ==
    ASSUME Typed, Sorted,
           \/ \E p \in Procs : Crash(p)
           \/ \E h \in Homes : \/ \E c \in Configs[h] : Reconfigure(h, c)
                               \/ LoseState(h)
    PROVE  Sorted'
<1>1. ASSUME NEW p \in Procs, Crash(p)
      PROVE  Sorted'
  <2>1. /\ Alone(p) /\ UNCHANGED disk /\ pc'[p] = "off" /\ views'[p] = Nothing
        /\ home[p] \in Homes
    BY <1>1, StepsAlone, NoHomeAssumption DEF Crash, Forget, Goto, Typed, TypeOK
  <2>2. CASE lock[home[p]] = p /\ Release(p)
    <3>1. lock' = [lock EXCEPT ![home[p]] = NoProc]
      BY <2>2 DEF Release
    <3> QED BY <2>1, <2>2, <3>1, NothingSorted, LeftSorted DEF Inside, Sorted
  <2>3. CASE UNCHANGED lock
    <3>1. Fresh(p)' /\ Checked(p)' /\ Unused(p)' /\ pc'[p] \notin Inside
      BY <2>1 DEF Fresh, Checked, Unused, Inside
    <3>2. \A q \in Procs \ {p} : pc[q] \in Inside =>
               /\ lock'[home[q]] = q /\ disk'[home[q]] = disk[home[q]]
      BY <2>1, <2>3 DEF Sorted, Held
    <3> QED BY <2>1, <3>1, <3>2, NothingSorted, SortedAfter DEF Sorted
  <2> QED BY <1>1, <2>2, <2>3 DEF Crash
<1>2. ASSUME NEW h \in Homes, NEW c \in Configs[h], Reconfigure(h, c)
      PROVE  Sorted'
  BY <1>2 DEF Reconfigure, inside, memory, Sorted, Held, Fresh, Checked, Unused, Target
<1>3. ASSUME NEW h \in Homes, LoseState(h)
      PROVE  Sorted'
  <2>1. UNCHANGED <<home, views, pc, job, lock>>
    BY <1>3 DEF LoseState, inside, memory
  <2>2. \A k \in Homes : disk'[k] = IF k = h THEN Nothing ELSE disk[k]
    BY <1>3 DEF LoseState, Typed, TypeOK
  <2>3. \A k \in Homes : ApartIn(disk'[k]) /\ Loads(disk'[k])
    BY <2>2, NothingSorted DEF Sorted
  <2>4. \A p \in Procs : Fresh(p)'
    <3> SUFFICES ASSUME NEW p \in Procs, pc[p] \in Inside, job[p].why # "adopt", NEW id \in Ids
                 PROVE  /\ disk'[home[p]][id] # NoState => views[p][id] # NoState
                        /\ pc[p] # "uncertain" \/ id # Target(p) =>
                               disk'[home[p]][id].records \subseteq views[p][id].records
      BY <2>1 DEF Fresh, Target
    <3>1. home[p] \in Homes
      BY NoHomeAssumption DEF Typed, TypeOK, Inside
    <3>2. Fresh(p)
      BY DEF Sorted
    <3>3. CASE home[p] = h
      <4>1. disk'[home[p]][id] = NoState /\ NoState.records = {}
        BY <2>2, <3>1, <3>3 DEF Nothing, NoState
      <4> QED BY <4>1
    <3>4. CASE home[p] # h
      BY <2>2, <3>1, <3>2, <3>4 DEF Fresh
    <3> QED BY <3>3, <3>4
  <2>5. \A p \in Procs : Checked(p)' /\ Unused(p)'
    BY <2>1 DEF Sorted, Checked, Unused, Target
  <2>6. Held' /\ \A p \in Procs : ApartIn(views'[p]) /\ Loads(views'[p])
    BY <2>1 DEF Sorted, Held
  <2> QED BY <2>3, <2>4, <2>5, <2>6 DEF Sorted
<1> QED BY <1>1, <1>2, <1>3

-----------------------------------------------------------------------------
LEMMA InitSorted == Init => Sorted
BY NothingSorted DEF Init, Sorted, Held, Fresh, Checked, Unused, Inside

LEMMA NextSorted == Typed /\ Sound /\ Sorted /\ [Next]_vars => Sorted'
<1> SUFFICES ASSUME Typed, Sound, Sorted, [Next]_vars PROVE Sorted'
  OBVIOUS
<1>1. ASSUME NEW p \in Procs, Step(p)
      PROVE  Sorted'
  <2>1. CASE Claim(p) \/ Deny(p) \/ Mark(p)
    BY <2>1, EnsureSorted
  <2>2. CASE Register(p)
    BY <2>2, RegisterSorted
  <2>3. CASE Busy(p) \/ Turned(p)
    BY <2>3, RequestSorted
  <2>4. CASE Accept(p)
    BY <2>4, AcceptSorted
  <2>5. CASE Build(p) \/ Finish(p) \/ Uncertain(p) \/ Recover(p)
    BY <2>5, TransactionSorted
  <2>6. CASE Begin(p) \/ Started(p)
    BY <2>6, StartSorted
  <2>7. CASE AdoptRemove(p) \/ AdoptRebuild(p)
    BY <2>7, AdoptionSorted
  <2> QED BY <1>1, <2>1, <2>2, <2>3, <2>4, <2>5, <2>6, <2>7 DEF Step
<1>2. ASSUME NEW p \in Procs, NEW h \in Homes,
             Start(p, h) \/ \E n \in Names : Adopt(p, h, n)
      PROVE  Sorted'
  BY <1>2, StartSorted, AdoptionSorted
<1>3. ASSUME NEW p \in Procs,
             \E n \in Names, r \in Releases \cup {NoRelease} : Request(p, n, r)
      PROVE  Sorted'
  BY <1>3, RequestSorted
<1>4. CASE \/ \E p \in Procs : Crash(p)
           \/ \E h \in Homes : \/ \E c \in Configs[h] : Reconfigure(h, c)
                               \/ LoseState(h)
  BY <1>4, OutsideSorted
<1>5. CASE UNCHANGED vars
  BY <1>5 DEF vars, inside, memory, Sorted, Held, Fresh, Checked, Unused, Target
<1> QED BY <1>1, <1>2, <1>3, <1>4, <1>5 DEF Next

(* Targets of one installation never lie inside each other, whatever the   *)
(* configurations say and however often they change: what is registered    *)
(* was checked, under the lock, against everything that was on disk when   *)
(* the lock was taken.                                                     *)
THEOREM Apart == Spec => []Disjoint
<1>1. Sound /\ Sorted => Disjoint
  <2> SUFFICES ASSUME Sound, Sorted, NEW h \in Homes,
                      NEW a \in Registered(disk[h]), NEW b \in Registered(disk[h]), a # b
               PROVE  ~Overlap(disk[h][a].name.place, disk[h][b].name.place)
    BY DEF Disjoint
  <2>1. \A id \in Registered(disk[h]) : disk[h][id].name.place = id[2]
    BY IdPlaces DEF Registered, Sound, Belongs
  <2>2. ~Overlap(a[2], b[2])
    BY DEF Sorted, ApartIn
  <2> QED BY <2>1, <2>2
<1> QED BY <1>1, InitTyped, NextTyped, InitSorted, NextSorted, PTL DEF Spec

(* A release_id belongs to one target, so that the state files can always  *)
(* be loaded again: also if a save that failed is on disk all the same,    *)
(* and if the state is lost in the middle of a release.                    *)
THEOREM OneTarget == Spec => []UniqueIds
<1>1. Sorted => UniqueIds
  BY DEF Sorted, UniqueIds
<1> QED BY <1>1, InitTyped, NextTyped, InitSorted, NextSorted, PTL DEF Spec

-----------------------------------------------------------------------------
(* What is in reach.                                                       *)

(* A state that this configuration does not lead to.                       *)
Astray(c, st) == st # NoState /\ ~Resolves(c, st.name)

(* A process at this place, busy with this, with these views, under this   *)
(* configuration and these state files, with these targets left to look at.*)
ReachedAs(place, what, known, c, here, left, stuck) ==
    place # "off" =>
        /\ what.name # NoName => Resolves(c, what.name)
        /\ place = "idle" => what.why = "none"
        /\ what.why = "start" => \A n \in left : Resolves(c, n)
        /\ place \in {"recover", "work", "built", "uncertain"} =>
               Resolves(c, known[Id(what.name)].name)
        /\ place \in {"queued", "recover", "work", "built", "uncertain"} =>
               ~Astray(c, here[Id(what.name)])
        /\ what.why # "adopt" => \A id \in Ids :
               Astray(c, here[id]) => known[id] = here[id]
        /\ what.why \notin {"adopt", "start"} /\ ~stuck => \A id \in Ids :
               Astray(c, here[id]) => ~Pending(here[id])

ReachedBy(p) == ReachedAs(pc[p], job[p], views[p], config[home[p]],
                          disk[home[p]], todo[p], blocked[p])

Reach == /\ \A h \in Homes : Valid(config[h])
         /\ \A p \in Procs : ReachedBy(p)

-----------------------------------------------------------------------------
(* Nothing out of reach is saved.                                          *)
Shrinks == \A h \in Homes, id \in Ids :
               Astray(config[h], disk'[h][id]) => disk'[h][id] = disk[h][id]

(* A step of p, seen from the memory of the others.                        *)
Unseen(p) == \A q \in Procs \ {p} : todo'[q] = todo[q] /\ blocked'[q] = blocked[q]

LEMMA StepsUnseen ==
    ASSUME Typed, NEW p \in Procs,
           \/ \E h \in Homes : Start(p, h) \/ \E n \in Names : Adopt(p, h, n)
           \/ \E n \in Names, r \in Releases \cup {NoRelease} : Request(p, n, r)
           \/ Step(p) \/ Crash(p)
    PROVE  Unseen(p) /\ UNCHANGED config
<1>1. todo \in [Procs -> SUBSET Names] /\ blocked \in [Procs -> BOOLEAN]
  BY DEF Typed, TypeOK
<1>2. ASSUME Refuse(p)
      PROVE  Unseen(p)
  BY <1>1, <1>2 DEF Refuse, Forget, memory, Unseen
<1>3. CASE \E h \in Homes : Start(p, h) \/ \E n \in Names : Adopt(p, h, n)
  BY <1>1, <1>3 DEF Start, Adopt, Unseen
<1>4. CASE \E n \in Names, r \in Releases \cup {NoRelease} : Request(p, n, r)
  BY <1>4 DEF Request, Unseen
<1>5. CASE Crash(p)
  BY <1>1, <1>5 DEF Crash, Forget, Unseen
<1>6. CASE Claim(p) \/ Deny(p) \/ Mark(p)
  BY <1>2, <1>6 DEF Claim, Deny, Mark, inside, memory, Unseen
<1>7. CASE Register(p)
  BY <1>2, <1>7 DEF Register, Unseen
<1>8. CASE Busy(p) \/ Turned(p) \/ Accept(p) \/ Build(p) \/ Finish(p)
  BY <1>8 DEF Busy, Turned, Accept, Build, Finish, inside, memory, Unseen
<1>9. CASE Uncertain(p) \/ Begin(p) \/ Recover(p) \/ Started(p)
  BY <1>1, <1>9 DEF Uncertain, Begin, Recover, Started, Unseen
<1>10. CASE AdoptRemove(p) \/ AdoptRebuild(p)
  BY <1>2, <1>10 DEF AdoptRemove, AdoptRebuild, inside, memory, Unseen
<1> QED BY <1>3, <1>4, <1>5, <1>6, <1>7, <1>8, <1>9, <1>10 DEF Step

LEMMA OthersReached ==
    ASSUME Typed, NEW q \in Procs, ReachedBy(q), Shrinks,
           pc'[q] = pc[q], job'[q] = job[q], home'[q] = home[q], views'[q] = views[q],
           todo'[q] = todo[q], blocked'[q] = blocked[q],
           pc[q] # "off" => config'[home[q]] = config[home[q]]
    PROVE  ReachedBy(q)'
<1> DEFINE c == config[home[q]]
           here == disk[home[q]]
           new == disk'[home[q]]
<1> SUFFICES ASSUME pc[q] # "off"
             PROVE  ReachedAs(pc[q], job[q], views[q], c, new, todo[q], blocked[q])
  BY DEF ReachedBy, ReachedAs
<1>1. home[q] \in Homes
  BY NoHomeAssumption DEF Typed, TypeOK
<1>2. pc[q] \in {"queued", "recover", "work", "built", "uncertain"} =>
          Id(job[q].name) \in Ids
  BY InHand DEF Target
<1>3. \A id \in Ids : Astray(c, new[id]) => new[id] = here[id]
  BY <1>1 DEF Shrinks
<1>4. ReachedAs(pc[q], job[q], views[q], c, here, todo[q], blocked[q])
  BY DEF ReachedBy
<1> HIDE DEF c, here, new
<1> QED BY <1>2, <1>3, <1>4 DEF ReachedAs

(* Enough to look at p, and at what it wrote.                              *)
LEMMA ReachAfter ==
    ASSUME Typed, Reach, NEW p \in Procs, Alone(p), Unseen(p), UNCHANGED config,
           Shrinks, ReachedBy(p)'
    PROVE  Reach'
<1>1. ASSUME NEW q \in Procs
      PROVE  ReachedBy(q)'
  <2>1. CASE q # p
    BY <2>1, OthersReached DEF Alone, Unseen, Reach
  <2> QED BY <2>1
<1> QED BY <1>1 DEF Reach

LEMMA NothingSaved ==
    ASSUME UNCHANGED disk
    PROVE  Shrinks
BY DEF Shrinks

(* A refusal ends the process, or the request.                             *)
LEMMA RefusedReach ==
    ASSUME Typed, Reach, NEW p \in Procs, pc[p] \notin {"off", "idle"}, Refuse(p),
           Unseen(p), UNCHANGED config, Shrinks
    PROVE  Reach'
<1>1. /\ Alone(p)
      /\ \/ pc'[p] = "idle" /\ home'[p] = home[p] /\ views'[p] = views[p]
         \/ pc'[p] = "off" /\ home'[p] = NoHome /\ views'[p] = Nothing
  BY RefuseAlone
<1>2. CASE pc'[p] = "off"
  BY <1>1, <1>2, ReachAfter DEF ReachedBy, ReachedAs
<1>3. CASE pc'[p] = "idle"
  <2> DEFINE c == config[home[p]]
             here == disk[home[p]]
             new == disk'[home[p]]
  <2>1. job[p].why = "request"
    BY <1>3 DEF Refuse, Leave, Goto, Typed, TypeOK
  <2>2. job'[p] = NoJob /\ UNCHANGED <<home, views, blocked>>
    BY <2>1 DEF Refuse, Leave, memory, Typed, TypeOK
  <2>3. home[p] \in Homes
    BY NoHomeAssumption DEF Typed, TypeOK
  <2>4. \A id \in Ids : Astray(c, new[id]) => new[id] = here[id]
    BY <2>3 DEF Shrinks
  <2>5. ReachedAs(pc[p], job[p], views[p], c, here, todo[p], blocked[p])
    BY DEF Reach, ReachedBy
  <2>6. ReachedAs("idle", NoJob, views[p], c, new, todo'[p], blocked[p])
    <3> HIDE DEF c, here, new
    <3> QED BY <2>1, <2>4, <2>5 DEF ReachedAs, NoJob
  <2>7. ReachedBy(p)'
    BY <1>3, <2>2, <2>6 DEF ReachedBy
  <2> QED BY <1>1, <2>7, ReachAfter
<1> QED BY <1>1, <1>2, <1>3

(* One that goes on with what it has.                                      *)
LEMMA OnwardReach ==
    ASSUME Typed, Reach, NEW p \in Procs, pc[p] # "off", Alone(p), Unseen(p),
           UNCHANGED <<config, disk, home, job, views, todo, blocked>>,
           pc'[p] # "idle",
           pc'[p] \in {"queued", "recover", "work", "built", "uncertain"} =>
               pc[p] \in {"work", "built", "uncertain"}
    PROVE  Reach'
<1>1. ReachedBy(p)
  BY DEF Reach
<1>2. ReachedBy(p)'
  BY <1>1 DEF ReachedBy, ReachedAs
<1> QED BY <1>2, NothingSaved, ReachAfter

-----------------------------------------------------------------------------
(* ensureTarget: what it saves has the name that was asked for.            *)
LEMMA EnsureReach ==
    ASSUME Typed, Reach, NEW p \in Procs, Claim(p) \/ Deny(p) \/ Mark(p)
    PROVE  Reach'
<1>1. /\ pc[p] \in {"ensure", "adopt", "mark"} /\ UNCHANGED <<config, disk>>
      /\ Alone(p) /\ Unseen(p)
  BY StepsAlone, StepsUnseen DEF Step, Claim, Deny, Mark
<1>2. CASE Refuse(p)
  BY <1>1, <1>2, NothingSaved, RefusedReach
<1>3. CASE ~Refuse(p)
  <2>1. UNCHANGED inside /\ pc'[p] \in {"mark", "save", "remove"}
    BY <1>1, <1>3 DEF Claim, Deny, Mark, Claimed, Goto, Typed, TypeOK
  <2> QED BY <1>1, <2>1, OnwardReach DEF inside, memory
<1> QED BY <1>2, <1>3

(* A state in reach is saved for the target in hand, or not: then what is  *)
(* out of reach is not that target, and is left alone.                     *)
LEMMA WrittenReached ==
    ASSUME Typed, NEW p \in Procs, home[p] \in Homes, Target(p) \in Ids, NEW st,
           Resolves(config[home[p]], st.name), UNCHANGED config,
           ~Astray(config[home[p]], disk[home[p]][Target(p)]) \/ disk' = Written(p, st),
           disk' \in {disk, Written(p, st)},
           views'[p] = views[p] \/ views' = [views EXCEPT ![p][Target(p)] = st]
    PROVE  /\ Shrinks
           /\ \A id \in Ids : Astray(config[home[p]], disk'[home[p]][id]) =>
                  /\ id # Target(p)
                  /\ disk'[home[p]][id] = disk[home[p]][id]
                  /\ views'[p][id] = views[p][id]
<1>1. \A h \in Homes, id \in Ids :
         \/ disk'[h][id] = disk[h][id] /\ (h # home[p] \/ id # Target(p) \/ disk' = disk)
         \/ h = home[p] /\ id = Target(p) /\ disk'[h][id] = st
  BY WrittenFile
<1>2. \A id \in Ids : id # Target(p) => views'[p][id] = views[p][id]
  BY DEF Typed, TypeOK
<1>3. ~Astray(config[home[p]], disk'[home[p]][Target(p)])
  <2>1. CASE disk' = Written(p, st)
    BY <2>1, WrittenFile DEF Astray
  <2>2. CASE disk' # Written(p, st)
    BY <2>2
  <2> QED BY <2>1, <2>2
<1>4. Shrinks
  BY <1>1 DEF Shrinks, Astray
<1> QED BY <1>1, <1>2, <1>3, <1>4 DEF Shrinks

LEMMA RegisterReach ==
    ASSUME Typed, Reach, NEW p \in Procs, Register(p)
    PROVE  Reach'
<1> DEFINE n == job[p].name
           st == Ensured(p, n)
           c == config[home[p]]
           here == disk[home[p]]
           new == disk'[home[p]]
<1>1. /\ pc[p] = "save" /\ UNCHANGED config /\ Alone(p) /\ Unseen(p)
      /\ home[p] \in Homes /\ n \in Names /\ job[p].why \in {"start", "request"}
      /\ Target(p) = Id(n) /\ Id(n) \in Ids
  <2>1. pc[p] = "save" /\ UNCHANGED config /\ Alone(p) /\ Unseen(p)
    BY StepsAlone, StepsUnseen DEF Step, Register
  <2>2. home[p] \in Homes /\ n \in Names /\ job[p].why \in {"start", "request"}
    BY <2>1, NoHomeAssumption DEF Typed, TypeOK, Doing, Fits
  <2> QED BY <2>1, <2>2, IdPlaces DEF Target
<1>2. /\ ReachedAs(pc[p], job[p], views[p], c, here, todo[p], blocked[p])
      /\ Resolves(c, n)
  <2>1. ReachedAs(pc[p], job[p], views[p], c, here, todo[p], blocked[p])
    BY DEF Reach, ReachedBy
  <2> QED BY <1>1, <2>1, NoNameAssumption DEF ReachedAs
<1>3. st.name = n
  <2>1. disk[home[p]][Target(p)] \in TargetState
    BY <1>1 DEF Typed, TypeOK
  <2> QED BY <1>1, <2>1 DEF Ensured, NoState, TargetState
<1>4. disk' \in {disk, Written(p, st)}
  BY DEF Register, Save
<1> HIDE DEF st
<1>5. CASE Refuse(p)
  <2>1. Shrinks
    <3>1. \A h \in Homes, id \in Ids :
             \/ disk'[h][id] = disk[h][id]
             \/ h = home[p] /\ disk'[h][id] = st
      BY <1>1, <1>4, WrittenFile
    <3> QED BY <1>2, <1>3, <3>1 DEF Shrinks, Astray
  <2> QED BY <1>1, <1>5, <2>1, RefusedReach
<1>6. CASE /\ Save(p, st) /\ UNCHANGED <<home, todo, blocked>>
           /\ \/ job[p].why = "start" /\ Goto(p, "recover") /\ UNCHANGED job
              \/ job[p].why = "request" /\ Look(p, job[p], views'[p])
  <2>1. /\ disk' = Written(p, st)
        /\ views' = [views EXCEPT ![p][Target(p)] = st]
    BY <1>6 DEF Save
  <2>2. /\ Shrinks
        /\ \A id \in Ids : Astray(c, new[id]) =>
               /\ id # Id(n) /\ new[id] = here[id] /\ views'[p][id] = views[p][id]
    BY <1>1, <1>2, <1>3, <2>1, WrittenReached
  <2>3. views'[p][Id(n)] = st
    BY <1>1, <2>1 DEF Typed, TypeOK
  <2>4. \/ pc'[p] = "recover" /\ job'[p] = job[p] /\ job[p].why = "start"
        \/ pc'[p] = "queued" /\ job'[p] = job[p] /\ job[p].why = "request"
        \/ pc'[p] = "idle" /\ job'[p] = NoJob /\ job[p].why = "request"
    BY <1>6 DEF Look, Goto, Typed, TypeOK
  <2>5. ReachedAs(pc'[p], job'[p], views'[p], c, new, todo[p], blocked[p])
    <3> HIDE DEF c, here, new
    <3>1. CASE pc'[p] = "recover" /\ job'[p] = job[p] /\ job[p].why = "start"
      <4>1. Resolves(c, views'[p][Id(job[p].name)].name)
        BY <1>2, <1>3, <2>3
      <4>2. ~Astray(c, new[Id(job[p].name)])
        BY <1>1, <2>2
      <4> QED BY <1>1, <1>2, <2>2, <3>1, <4>1, <4>2 DEF ReachedAs
    <3>3. CASE pc'[p] = "queued" /\ job'[p] = job[p] /\ job[p].why = "request"
      <4>1. ~Astray(c, new[Id(job[p].name)])
        BY <1>1, <2>2
      <4> QED BY <1>1, <1>2, <2>2, <3>3, <4>1 DEF ReachedAs
    <3>2. CASE pc'[p] = "idle" /\ job'[p] = NoJob /\ job[p].why = "request"
      BY <1>1, <1>2, <2>2, <3>2 DEF ReachedAs, NoJob
    <3> QED BY <2>4, <3>1, <3>2, <3>3
  <2>6. ReachedBy(p)'
    BY <1>1, <1>6, <2>5 DEF ReachedBy
  <2> QED BY <1>1, <2>2, <2>6, ReachAfter
<1> QED BY <1>1, <1>5, <1>6 DEF Register, st

-----------------------------------------------------------------------------
(* What a request comes to: it is over, or goes on with a target in reach. *)
Asked(p) ==
    \/ pc'[p] = "idle" /\ job'[p] = NoJob
    \/ \E n \in Names, r \in Releases \cup {NoRelease} :
          /\ Resolves(config[home[p]], n)
          /\ job'[p] = [name |-> n, release |-> r, why |-> "request"]
          /\ \/ pc'[p] = "ensure"
             \/ /\ pc[p] = "idle" /\ Fast(p, n) /\ pc'[p] = "queued"
                /\ views'[p] = views[p]

LEMMA RequestReach ==
    ASSUME Typed, Reach, NEW p \in Procs,
           \/ \E n \in Names, r \in Releases \cup {NoRelease} : Request(p, n, r)
           \/ Busy(p) \/ Turned(p)
    PROVE  Reach'
<1> DEFINE c == config[home[p]]
           here == disk[home[p]]
<1>1. /\ pc[p] \in {"idle", "queued"} /\ Alone(p) /\ Unseen(p)
      /\ UNCHANGED <<config, disk, home, todo, blocked>>
  <2>1. /\ pc[p] \in {"idle", "queued"}
        /\ UNCHANGED <<config, disk, home, todo, blocked>>
    BY DEF Request, Busy, Turned, memory
  <2> QED BY <2>1, StepsAlone, StepsUnseen DEF Step
<1>2. /\ job[p].why \in {"none", "request"}
      /\ ReachedAs(pc[p], job[p], views[p], c, here, todo[p], blocked[p])
  <2>1. ReachedAs(pc[p], job[p], views[p], c, here, todo[p], blocked[p])
    BY DEF Reach, ReachedBy
  <2> QED BY <1>1, <2>1 DEF ReachedAs, Typed, Doing, Fits
<1>3. /\ views'[p] \in {views[p], here}
      /\ Asked(p)
  <2>1. CASE Busy(p) \/ Turned(p)
    BY <2>1 DEF Busy, Turned, Asked, Goto, Load, memory, Typed, TypeOK
  <2>2. ASSUME NEW n \in Names, NEW r \in Releases \cup {NoRelease}, Request(p, n, r)
        PROVE  views'[p] \in {views[p], here} /\ Asked(p)
    <3> DEFINE wanted == [name |-> n, release |-> r, why |-> "request"]
    <3>1. CASE Fast(p, n) /\ Look(p, wanted, views[p]) /\ UNCHANGED views
      BY <2>2, <3>1 DEF Request, Asked, Look, Goto, Typed, TypeOK
    <3>2. CASE Resolve(p, wanted)
      BY <2>2, <3>2 DEF Request, Asked, Resolve, Load, Goto, Typed, TypeOK
    <3> QED BY <2>2, <3>1, <3>2 DEF Request
  <2> QED BY <2>1, <2>2
<1>4. ReachedAs(pc'[p], job'[p], views'[p], c, here, todo[p], blocked[p])
  <2>4. /\ \A id \in Ids : Astray(c, here[id]) => views'[p][id] = here[id]
        /\ ~blocked[p] => \A id \in Ids : Astray(c, here[id]) => ~Pending(here[id])
    <3> HIDE DEF c, here
    <3>1. /\ \A id \in Ids : Astray(c, here[id]) => views[p][id] = here[id]
          /\ ~blocked[p] => \A id \in Ids : Astray(c, here[id]) => ~Pending(here[id])
      BY <1>1, <1>2 DEF ReachedAs
    <3> QED BY <1>3, <3>1
  <2>1. CASE pc'[p] = "idle" /\ job'[p] = NoJob
    BY <2>1, <2>4, NoNameAssumption DEF ReachedAs, NoJob
  <2>2. ASSUME NEW n \in Names, NEW r \in Releases \cup {NoRelease},
               Resolves(c, n), pc'[p] = "ensure",
               job'[p] = [name |-> n, release |-> r, why |-> "request"]
        PROVE  ReachedAs(pc'[p], job'[p], views'[p], c, here, todo[p], blocked[p])
    BY <2>2, <2>4 DEF ReachedAs
  <2>3. ASSUME NEW n \in Names, NEW r \in Releases \cup {NoRelease},
               Resolves(c, n), pc[p] = "idle", Fast(p, n), pc'[p] = "queued",
               views'[p] = views[p],
               job'[p] = [name |-> n, release |-> r, why |-> "request"]
        PROVE  ReachedAs(pc'[p], job'[p], views'[p], c, here, todo[p], blocked[p])
    <3>1. ~Astray(c, here[Id(n)])
      BY <2>3, <2>4, IdPlaces DEF Fast, Astray
    <3> QED BY <2>3, <2>4, <3>1 DEF ReachedAs
  <2> QED BY <1>3, <2>1, <2>2, <2>3 DEF Asked
<1>5. ReachedBy(p)'
  BY <1>1, <1>4 DEF ReachedBy
<1> QED BY <1>1, <1>5, NothingSaved, ReachAfter

(* What is accepted is the state of a target in reach.                     *)
LEMMA AcceptReach ==
    ASSUME Typed, Reach, NEW p \in Procs, Accept(p)
    PROVE  Reach'
<1> DEFINE c == config[home[p]]
           here == disk[home[p]]
           new == disk'[home[p]]
           id == Target(p)
           st == Accepted(here[id], job[p].release)
<1>1. /\ pc[p] = "queued" /\ here[id] # NoState
      /\ UNCHANGED <<config, home, job, todo, blocked>>
      /\ Alone(p) /\ Unseen(p)
  BY StepsAlone, StepsUnseen DEF Accept, Step
<1>2. /\ home[p] \in Homes /\ id \in Ids /\ here[id] \in TargetState
      /\ id = Id(job[p].name) /\ job[p].why = "request"
  BY <1>1, InHand DEF Target, Fits
<1>3. ReachedAs(pc[p], job[p], views[p], c, here, todo[p], blocked[p])
  BY DEF Reach, ReachedBy
<1>4. ~Astray(c, here[id]) /\ Resolves(c, here[id].name)
  BY <1>1, <1>2, <1>3 DEF ReachedAs, Astray
<1>5. st.name = here[id].name
  BY <1>2 DEF Accepted, TargetState
<1>6. /\ disk' \in {disk, Written(p, st)}
      /\ \/ pc'[p] = "work" /\ views'[p] = new /\ disk' = Written(p, st)
         \/ pc'[p] = "uncertain" /\ views'[p] = here
  BY DEF Accept, Load, Goto, Typed, TypeOK
<1> HIDE DEF st
<1>7. \A h \in Homes, other \in Ids :
         \/ disk'[h][other] = disk[h][other]
         \/ h = home[p] /\ other = id /\ disk'[h][other] = st
  BY <1>2, <1>6, WrittenFile
<1>8. Shrinks
  BY <1>4, <1>5, <1>7 DEF Shrinks, Astray
<1>9. \A other \in Ids : Astray(c, new[other]) =>
          other # id /\ new[other] = here[other] /\ views'[p][other] = new[other]
  BY <1>2, <1>4, <1>5, <1>6, <1>7 DEF Astray
<1>10. views'[p][id].name = here[id].name
  BY <1>2, <1>5, <1>6, WrittenFile
<1>11. ReachedAs(pc'[p], job[p], views'[p], c, new, todo[p], blocked[p])
  <2>1. /\ Resolves(c, views'[p][Id(job[p].name)].name)
        /\ ~Astray(c, new[Id(job[p].name)])
    BY <1>2, <1>4, <1>9, <1>10
  <2> HIDE DEF c, here, new, id
  <2> QED BY <1>1, <1>2, <1>3, <1>6, <1>9, <2>1 DEF ReachedAs
<1>12. ReachedBy(p)'
  BY <1>1, <1>11 DEF ReachedBy
<1> QED BY <1>1, <1>8, <1>12, ReachAfter

(* What becomes of the state of a transaction: it keeps its name.          *)
Stored(p, st) ==
    /\ st.name = views[p][Target(p)].name
    /\ disk' \in {disk, Written(p, st)}
    /\ views' = views \/ views' = [views EXCEPT ![p][Target(p)] = st]
    /\ \/ /\ pc'[p] = "idle" /\ job'[p] = NoJob /\ job[p].why = "request"
          /\ blocked'[p] \in {blocked[p], TRUE}
       \/ /\ pc'[p] = "uncertain" /\ job'[p] = job[p] /\ job[p].why = "request"
          /\ views' = views /\ blocked'[p] = blocked[p]
       \/ pc'[p] = "start" /\ job'[p] = job[p] /\ job[p].why = "start"

LEMMA TransactionStores ==
    ASSUME Typed, NEW p \in Procs, Finish(p) \/ Uncertain(p) \/ Recover(p)
    PROVE  (\E st : Stored(p, st)) /\ todo'[p] = todo[p]
<1> DEFINE old == views[p][Target(p)]
<1>1. /\ pc[p] \in {"recover", "work", "built", "uncertain"} /\ todo'[p] = todo[p]
      /\ old \in TargetState
      /\ job[p].why = IF pc[p] = "recover" THEN "start" ELSE "request"
  <2>1. pc[p] \in {"recover", "work", "built", "uncertain"} /\ todo'[p] = todo[p]
    BY DEF Finish, Uncertain, Recover
  <2> QED BY <2>1, InHand DEF Fits
<1>2. CASE Finish(p)
  <2>1. job[p].why = "request"
    BY <1>1, <1>2 DEF Finish
  <2>2. PICK st \in {Failed(old), Succeeded(old)} :
           \/ Save(p, st) /\ Leave(p)
           \/ SaveFails(p, st) /\ Goto(p, "uncertain") /\ UNCHANGED <<lock, job>>
    BY <1>2 DEF Finish
  <2>3. st.name = old.name
    BY <1>1, <2>2 DEF Failed, Succeeded, TargetState
  <2>4. Stored(p, st)
    BY <1>2, <2>1, <2>2, <2>3
       DEF Stored, Finish, Save, SaveFails, Leave, Goto, Typed, TypeOK
  <2> QED BY <1>1, <2>4
<1>3. CASE Uncertain(p)
  <2> DEFINE st == [Accepted(old, job[p].release) EXCEPT !.recovery = TRUE]
  <2>1. job[p].why = "request"
    BY <1>1, <1>3 DEF Uncertain
  <2>2. st.name = old.name
    BY <1>1 DEF Accepted, TargetState
  <2>3. /\ disk' \in {disk, Written(p, st)}
        /\ views' = [views EXCEPT ![p][Target(p)] = st]
        /\ blocked'[p] \in {blocked[p], TRUE}
        /\ pc'[p] = "idle" /\ job'[p] = NoJob
    BY <1>3, <2>1 DEF Uncertain, Leave, Goto, Typed, TypeOK
  <2>4. Stored(p, st)
    BY <2>1, <2>2, <2>3 DEF Stored
  <2> QED BY <1>1, <2>4
<1>4. CASE Recover(p)
  <2>1. PICK st \in Recovered(old) : Save(p, st) \/ SaveFails(p, st)
    BY <1>4 DEF Recover
  <2>2. st.name = old.name
    BY <1>1, <2>1 DEF Recovered, Failed, Succeeded, TargetState
  <2>3. pc'[p] = "start" /\ job'[p] = job[p] /\ job[p].why = "start"
    BY <1>1, <1>4 DEF Recover, Goto, Typed, TypeOK
  <2>4. Stored(p, st)
    BY <2>1, <2>2, <2>3 DEF Stored, Save, SaveFails
  <2> QED BY <1>1, <2>4
<1> QED BY <1>2, <1>3, <1>4

LEMMA TransactionReach ==
    ASSUME Typed, Reach, NEW p \in Procs,
           Build(p) \/ Finish(p) \/ Uncertain(p) \/ Recover(p)
    PROVE  Reach'
<1>1. /\ pc[p] \in {"recover", "work", "built", "uncertain"} /\ UNCHANGED <<config, home>>
      /\ Alone(p) /\ Unseen(p)
  <2>1. /\ pc[p] \in {"recover", "work", "built", "uncertain"}
        /\ UNCHANGED <<config, home>>
    BY DEF Build, Finish, Uncertain, Recover, inside, memory
  <2> QED BY <2>1, StepsAlone, StepsUnseen DEF Step
<1>2. CASE Build(p)
  <2>1. /\ UNCHANGED <<disk, job, views, todo, blocked>>
        /\ pc[p] = "work" /\ pc'[p] = "built"
    BY <1>2 DEF Build, inside, memory, Goto, Typed, TypeOK
  <2> QED BY <1>1, <2>1, OnwardReach
<1>3. ASSUME NEW st, Stored(p, st), todo'[p] = todo[p]
      PROVE  Reach'
  <2> DEFINE c == config[home[p]]
             here == disk[home[p]]
             new == disk'[home[p]]
             old == views[p][Target(p)]
  <2>1. home[p] \in Homes /\ Target(p) \in Ids /\ Target(p) = Id(job[p].name)
    BY <1>1, InHand DEF Target
  <2>2. /\ ReachedAs(pc[p], job[p], views[p], c, here, todo[p], blocked[p])
        /\ Resolves(c, old.name) /\ ~Astray(c, here[Target(p)])
    <3>1. ReachedAs(pc[p], job[p], views[p], c, here, todo[p], blocked[p])
      BY DEF Reach, ReachedBy
    <3> QED BY <1>1, <2>1, <3>1 DEF ReachedAs
  <2>3. /\ Shrinks
        /\ \A id \in Ids : Astray(c, new[id]) =>
               /\ id # Target(p) /\ new[id] = here[id] /\ views'[p][id] = views[p][id]
    <3>1. /\ Resolves(c, st.name) /\ disk' \in {disk, Written(p, st)}
          /\ views'[p] = views[p] \/ views' = [views EXCEPT ![p][Target(p)] = st]
      BY <1>3, <2>2 DEF Stored
    <3> QED BY <1>1, <2>1, <2>2, <3>1, WrittenReached
  <2>4. ReachedAs(pc'[p], job'[p], views'[p], c, new, todo[p], blocked'[p])
    <3>1. CASE pc'[p] = "uncertain" /\ job'[p] = job[p] /\ job[p].why = "request"
               /\ views' = views /\ blocked'[p] = blocked[p]
      <4>1. /\ Resolves(c, views'[p][Id(job[p].name)].name)
            /\ ~Astray(c, new[Id(job[p].name)])
        BY <2>1, <2>2, <2>3, <3>1
      <4> HIDE DEF c, here, new, old
      <4> QED BY <1>1, <2>2, <2>3, <3>1, <4>1 DEF ReachedAs
    <3>2. CASE pc'[p] = "start" /\ job'[p] = job[p] /\ job[p].why = "start"
      BY <1>1, <2>2, <2>3, <3>2 DEF ReachedAs
    <3>3. CASE pc'[p] = "idle" /\ job'[p] = NoJob /\ job[p].why = "request"
               /\ blocked'[p] \in {blocked[p], TRUE}
      <4>1. /\ \A id \in Ids : Astray(c, new[id]) =>
                   new[id] = here[id] /\ views'[p][id] = new[id]
            /\ ~blocked'[p] => \A id \in Ids :
                   Astray(c, new[id]) => ~Pending(new[id])
        <5> HIDE DEF c, here, new, old
        <5> QED BY <1>1, <2>2, <2>3, <3>3 DEF ReachedAs
      <4> QED BY <3>3, <4>1 DEF ReachedAs, NoJob
    <3> QED BY <1>3, <3>1, <3>2, <3>3 DEF Stored
  <2>5. ReachedBy(p)'
    BY <1>1, <1>3, <2>4 DEF ReachedBy
  <2> QED BY <1>1, <2>3, <2>5, ReachAfter
<1> QED BY <1>2, <1>3, TransactionStores

-----------------------------------------------------------------------------
(* Startup: explicit targets belong to the environment of the node, the    *)
(* others are looked up; the check at its end sees what is on disk.        *)
LEMMA StartReach ==
    ASSUME Typed, Reach, NEW p \in Procs,
           (\E h \in Homes : Start(p, h)) \/ Begin(p) \/ Started(p)
    PROVE  Reach'
<1>1. Alone(p) /\ Unseen(p) /\ UNCHANGED <<config, disk>>
  BY StepsAlone, StepsUnseen DEF Step, Start, Begin, Started
<1>2. ASSUME NEW h \in Homes, Start(p, h)
      PROVE  Reach'
  <2>1. /\ pc'[p] = "start" /\ home'[p] = h /\ views'[p] = disk[h]
        /\ todo'[p] = StartupTargets(config[h], disk[h])
        /\ job'[p].name = NoName /\ job'[p].why = "start"
    BY <1>2 DEF Start, Goto, NoJob, Typed, TypeOK
  <2>2. \A n \in StartupTargets(config[h], disk[h]) : Resolves(config[h], n)
    BY DEF Reach, Valid, Resolves, StartupTargets
  <2>3. ReachedBy(p)'
    BY <1>1, <2>1, <2>2 DEF ReachedBy, ReachedAs
  <2> QED BY <1>1, <2>3, NothingSaved, ReachAfter
<1>3. ASSUME Begin(p) \/ Started(p)
      PROVE  /\ pc[p] = "start" /\ job[p].why = "start" /\ UNCHANGED <<home, views>>
             /\ ReachedAs(pc[p], job[p], views[p], config[home[p]], disk[home[p]],
                          todo[p], blocked[p])
  <2>1. pc[p] = "start" /\ UNCHANGED <<home, views>>
    BY <1>3 DEF Begin, Started
  <2> QED BY <2>1 DEF Reach, ReachedBy, Typed, Doing, Fits
<1>4. CASE Begin(p)
  <2>1. PICK n \in todo[p] : job' = [job EXCEPT ![p] = [@ EXCEPT !.name = n]]
    BY <1>4 DEF Begin
  <2>2. /\ pc'[p] = "ensure" /\ todo'[p] \subseteq todo[p] /\ UNCHANGED blocked
    BY <1>4 DEF Begin, Goto, Typed, TypeOK
  <2>3. job'[p].name = n /\ job'[p].why = "start"
    BY <1>3, <1>4, <2>1 DEF Typed, TypeOK, Job
  <2>4. ReachedBy(p)'
    BY <1>1, <1>3, <1>4, <2>2, <2>3 DEF ReachedBy, ReachedAs
  <2> QED BY <1>1, <2>4, NothingSaved, ReachAfter
<1>5. CASE Started(p)
  <2> DEFINE c == config[home[p]]
             here == disk[home[p]]
  <2>1. /\ pc'[p] = "idle" /\ job'[p] = NoJob /\ UNCHANGED todo
        /\ blocked'[p] = (blocked[p] \/ Unconfigured(p))
    BY <1>5 DEF Started, Goto, Typed, TypeOK
  <2>2. \A id \in Ids : Astray(c, here[id]) => views[p][id] = here[id]
    BY <1>3, <1>5 DEF ReachedAs
  <2>3. ~Unconfigured(p) => \A id \in Ids : Astray(c, here[id]) => ~Pending(here[id])
    BY <2>2 DEF Unconfigured, Registered, Astray
  <2>4. ReachedAs("idle", NoJob, views[p], c, here, todo[p], blocked'[p])
    BY <2>1, <2>2, <2>3 DEF ReachedAs, NoJob
  <2>5. ReachedBy(p)'
    BY <1>1, <1>3, <1>5, <2>1, <2>4 DEF ReachedBy
  <2> QED BY <1>1, <2>5, NothingSaved, ReachAfter
<1> QED BY <1>2, <1>4, <1>5

(* Adoption saves nothing.                                                 *)
LEMMA AdoptionReach ==
    ASSUME Typed, Reach, NEW p \in Procs,
           \/ \E h \in Homes, n \in Names : Adopt(p, h, n)
           \/ AdoptRemove(p) \/ AdoptRebuild(p)
    PROVE  Reach'
<1>1. Alone(p) /\ Unseen(p) /\ UNCHANGED <<config, disk>>
  BY StepsAlone, StepsUnseen DEF Step, Adopt, AdoptRemove, AdoptRebuild
<1>2. ASSUME NEW h \in Homes, NEW n \in Names, Adopt(p, h, n)
      PROVE  Reach'
  <2>1. /\ pc'[p] = "adopt" /\ home'[p] = h /\ Resolves(config[h], n)
        /\ job'[p] = [name |-> n, release |-> NoRelease, why |-> "adopt"]
    BY <1>2 DEF Adopt, Goto, Reach, Valid, Resolves, Typed, TypeOK
  <2>2. ReachedBy(p)'
    BY <1>1, <2>1 DEF ReachedBy, ReachedAs
  <2> QED BY <1>1, <2>2, NothingSaved, ReachAfter
<1>3. CASE AdoptRemove(p) \/ AdoptRebuild(p)
  <2>1. pc[p] \in {"remove", "rebuild"}
    BY <1>3 DEF AdoptRemove, AdoptRebuild
  <2>2. CASE Refuse(p)
    BY <1>1, <2>1, <2>2, NothingSaved, RefusedReach
  <2>3. CASE Goto(p, "rebuild") /\ UNCHANGED inside
    <3>1. pc'[p] = "rebuild" /\ UNCHANGED <<home, job, views, todo, blocked>>
      BY <2>3 DEF Goto, inside, memory, Typed, TypeOK
    <3> QED BY <1>1, <2>1, <3>1, OnwardReach
  <2> QED BY <1>3, <2>2, <2>3 DEF AdoptRemove, AdoptRebuild
<1> QED BY <1>2, <1>3

(* The configuration changes only where nothing runs.                      *)
LEMMA OutsideReach ==
    ASSUME Typed, Reach,
           \/ \E p \in Procs : Crash(p)
           \/ \E h \in Homes : \/ \E c \in Configs[h] : Reconfigure(h, c)
                               \/ LoseState(h)
    PROVE  Reach'
<1>1. ASSUME NEW p \in Procs, Crash(p)
      PROVE  Reach'
  <2>1. Alone(p) /\ Unseen(p) /\ UNCHANGED <<config, disk>> /\ pc'[p] = "off"
    BY <1>1, StepsAlone, StepsUnseen DEF Crash, Goto, Typed, TypeOK
  <2>2. ReachedBy(p)'
    BY <2>1 DEF ReachedBy, ReachedAs
  <2> QED BY <2>1, <2>2, NothingSaved, ReachAfter
<1>2. ASSUME NEW h \in Homes, NEW c \in Configs[h], Reconfigure(h, c)
      PROVE  Reach'
  <2>1. /\ \A p \in Procs : home[p] # h
        /\ Valid(c) /\ config' = [config EXCEPT ![h] = c]
        /\ UNCHANGED <<disk, pc, job, home, views, todo, blocked>>
    BY <1>2 DEF Reconfigure, inside, memory
  <2>2. Shrinks
    BY <2>1 DEF Shrinks
  <2>3. \A k \in Homes : config'[k] = IF k = h THEN c ELSE config[k]
    BY <2>1 DEF Typed, TypeOK
  <2>4. \A p \in Procs : pc[p] # "off" => config'[home[p]] = config[home[p]]
    BY <2>1, <2>3, NoHomeAssumption DEF Typed, TypeOK
  <2>5. \A p \in Procs : ReachedBy(p)'
    BY <2>1, <2>2, <2>4, OthersReached DEF Reach
  <2> QED BY <2>1, <2>3, <2>5 DEF Reach
<1>3. ASSUME NEW h \in Homes, LoseState(h)
      PROVE  Reach'
  <2>1. UNCHANGED <<config, pc, job, home, views, todo, blocked>>
    BY <1>3 DEF LoseState, inside, memory
  <2>2. \A k \in Homes, id \in Ids : disk'[k][id] \in {disk[k][id], NoState}
    BY <1>3 DEF LoseState, Nothing, Typed, TypeOK
  <2>3. Shrinks
    BY <2>2 DEF Shrinks, Astray
  <2>4. \A p \in Procs : ReachedBy(p)'
    BY <2>1, <2>3, OthersReached DEF Reach
  <2> QED BY <2>1, <2>4 DEF Reach
<1> QED BY <1>1, <1>2, <1>3

-----------------------------------------------------------------------------
LEMMA InitReach == Init => Reach
BY DEF Init, Reach, ReachedBy, ReachedAs

LEMMA NextReach == Typed /\ Reach /\ [Next]_vars => Reach'
<1> SUFFICES ASSUME Typed, Reach, [Next]_vars PROVE Reach'
  OBVIOUS
<1>1. ASSUME NEW p \in Procs, Step(p)
      PROVE  Reach'
  <2>1. CASE Claim(p) \/ Deny(p) \/ Mark(p)
    BY <2>1, EnsureReach
  <2>2. CASE Register(p)
    BY <2>2, RegisterReach
  <2>3. CASE Busy(p) \/ Turned(p)
    BY <2>3, RequestReach
  <2>4. CASE Accept(p)
    BY <2>4, AcceptReach
  <2>5. CASE Build(p) \/ Finish(p) \/ Uncertain(p) \/ Recover(p)
    BY <2>5, TransactionReach
  <2>6. CASE Begin(p) \/ Started(p)
    BY <2>6, StartReach
  <2>7. CASE AdoptRemove(p) \/ AdoptRebuild(p)
    BY <2>7, AdoptionReach
  <2> QED BY <1>1, <2>1, <2>2, <2>3, <2>4, <2>5, <2>6, <2>7 DEF Step
<1>2. ASSUME NEW p \in Procs, NEW h \in Homes,
             Start(p, h) \/ \E n \in Names : Adopt(p, h, n)
      PROVE  Reach'
  BY <1>2, StartReach, AdoptionReach
<1>3. ASSUME NEW p \in Procs,
             \E n \in Names, r \in Releases \cup {NoRelease} : Request(p, n, r)
      PROVE  Reach'
  BY <1>3, RequestReach
<1>4. CASE \/ \E p \in Procs : Crash(p)
           \/ \E h \in Homes : \/ \E c \in Configs[h] : Reconfigure(h, c)
                               \/ LoseState(h)
  BY <1>4, OutsideReach
<1>5. CASE UNCHANGED vars
  BY <1>5 DEF vars, inside, memory, Reach, ReachedBy
<1> QED BY <1>1, <1>2, <1>3, <1>4, <1>5 DEF Next

(* A service that takes releases can be asked to resolve whatever is       *)
(* pending on its node, however many services run on it: what the          *)
(* configuration does not lead to was already on disk when each of them    *)
(* started, so each has looked at it or is blocked.                        *)
THEOREM PendingInReach == Spec => []PendingIsConfigured
<1>1. Typed /\ Reach => PendingIsConfigured
  <2> SUFFICES ASSUME Typed, Reach, NEW p \in Procs, pc[p] \in {"idle", "queued"},
                      ~blocked[p], NEW id \in Registered(disk[home[p]]),
                      Pending(disk[home[p]][id])
               PROVE  Resolves(config[home[p]], disk[home[p]][id].name)
    BY DEF PendingIsConfigured
  <2>1. ReachedAs(pc[p], job[p], views[p], config[home[p]], disk[home[p]],
                  todo[p], blocked[p])
    BY DEF Reach, ReachedBy
  <2>2. job[p].why \in {"none", "request"}
    BY <2>1 DEF ReachedAs, Typed, Doing, Fits
  <2> QED BY <2>1, <2>2 DEF ReachedAs, Astray, Registered
<1> QED BY <1>1, InitTyped, NextTyped, InitReach, NextReach, PTL DEF Spec

-----------------------------------------------------------------------------
(* What is in a directory is known to its state file: a release is on      *)
(* record, or nothing was there, or the target is marked.  One that is     *)
(* active is on record.                                                    *)
Known(fs, st) ==
    /\ st # NoState /\ ~st.current /\ st.records = {} =>
          fs[st.name.place] = "empty" \/ st.recovery
    /\ st.active # NoRelease => st.records # {}

(* A process that may save one of its views has only such views; what it   *)
(* builds belongs to a release on record, unless the record was lost.      *)
AccountedAs(place, what, known, here, fs) ==
    /\ place \in Inside /\ what.why # "adopt" => \A id \in Ids : Known(fs, known[id])
    /\ place \in {"work", "built"} =>
           /\ what.release \in known[Id(what.name)].records
           /\ here[Id(what.name)] # NoState => here[Id(what.name)].records # {}
    /\ place = "rebuild" => fs[what.name.place] # "empty"

AccountedBy(p) == AccountedAs(pc[p], job[p], views[p], disk[home[p]], files)

Accounted == /\ \A h \in Homes, id \in Ids : Known(files, disk[h][id])
             /\ \A p \in Procs : AccountedBy(p)

(* A directory is not filled by this step.                                 *)
NoneFilled == \A place \in Places : files'[place] = "empty" <=> files[place] = "empty"

LEMMA StillKnown ==
    ASSUME Typed, Sound, NoneFilled
    PROVE  /\ \A h \in Homes, id \in Ids :
                  Known(files, disk[h][id]) => Known(files', disk[h][id])
           /\ \A p \in Procs, id \in Ids :
                  Known(files, views[p][id]) => Known(files', views[p][id])
BY PlaceAssumption DEF Sound, Belongs, Known, NoneFilled

(* Enough to look at p, and at what it wrote.                              *)
LEMMA AccountedAfter ==
    ASSUME Typed, Sound, Accounted, NEW p \in Procs, Alone(p), NoneFilled,
           \A q \in Procs \ {p} : pc[q] \in Inside => disk'[home[q]] = disk[home[q]],
           \A h \in Homes, id \in Ids :
               disk'[h][id] = disk[h][id] \/ Known(files', disk'[h][id]),
           AccountedBy(p)'
    PROVE  Accounted'
<1>1. \A h \in Homes, id \in Ids : Known(files', disk'[h][id])
  BY StillKnown DEF Accounted
<1>2. ASSUME NEW q \in Procs \ {p}
      PROVE  AccountedBy(q)'
  <2>1. /\ pc'[q] = pc[q] /\ job'[q] = job[q] /\ home'[q] = home[q]
        /\ views'[q] = views[q]
    BY DEF Alone
  <2>2. AccountedAs(pc[q], job[q], views[q], disk[home[q]], files)
    BY DEF Accounted, AccountedBy
  <2>3. pc[q] \in Inside /\ job[q].why # "adopt" =>
            \A id \in Ids : Known(files', views[q][id])
    BY <2>2, StillKnown DEF AccountedAs
  <2>4. pc[q] = "rebuild" => files'[job[q].name.place] # "empty"
    <3>1. pc[q] = "rebuild" => job[q].name.place \in Places
      BY PlaceAssumption DEF Typed, Doing, Fits
    <3> QED BY <2>2, <3>1 DEF AccountedAs, NoneFilled
  <2>5. AccountedAs(pc[q], job[q], views[q], disk'[home[q]], files')
    BY <2>2, <2>3, <2>4 DEF AccountedAs, Inside
  <2> QED BY <2>1, <2>5 DEF AccountedBy
<1>3. \A q \in Procs : AccountedBy(q)'
  <2> TAKE q \in Procs
  <2> QED BY <1>2
<1> QED BY <1>1, <1>3 DEF Accounted

(* A step that changes no file but perhaps the process that takes it.      *)
LEMMA QuietAccounted ==
    ASSUME Typed, Sound, Accounted, NEW p \in Procs, Alone(p), UNCHANGED <<files, disk>>,
           \/ pc'[p] \notin Inside
           \/ /\ pc[p] \in Inside /\ UNCHANGED <<home, views>>
              /\ job'[p].why = job[p].why /\ pc'[p] \notin {"work", "built", "rebuild"}
           \/ /\ home'[p] \in Homes /\ views'[p] = disk[home'[p]]
              /\ pc'[p] \notin {"work", "built", "rebuild"}
           \/ job'[p].why = "adopt" /\ pc'[p] \notin {"work", "built", "rebuild"}
    PROVE  Accounted'
<1>1. NoneFilled
  BY DEF NoneFilled
<1>2. AccountedBy(p)'
  <2>1. CASE pc'[p] \notin Inside
    BY <2>1 DEF AccountedBy, AccountedAs, Inside
  <2>2. CASE pc[p] \in Inside /\ UNCHANGED <<home, views>> /\ job'[p].why = job[p].why
             /\ pc'[p] \notin {"work", "built", "rebuild"}
    <3>1. AccountedAs(pc[p], job[p], views[p], disk[home[p]], files)
      BY DEF Accounted, AccountedBy
    <3>2. job[p].why # "adopt" => \A id \in Ids : Known(files, views[p][id])
      BY <2>2, <3>1 DEF AccountedAs
    <3>3. AccountedAs(pc'[p], job'[p], views[p], disk[home[p]], files)
      BY <2>2, <3>2 DEF AccountedAs
    <3> QED BY <2>2, <3>3 DEF AccountedBy
  <2>3. CASE home'[p] \in Homes /\ views'[p] = disk[home'[p]]
             /\ pc'[p] \notin {"work", "built", "rebuild"}
    <3>1. \A id \in Ids : Known(files, views'[p][id])
      BY <2>3 DEF Accounted
    <3> QED BY <2>3, <3>1 DEF AccountedBy, AccountedAs
  <2>4. CASE job'[p].why = "adopt" /\ pc'[p] \notin {"work", "built", "rebuild"}
    BY <2>4 DEF AccountedBy, AccountedAs
  <2> QED BY <2>1, <2>2, <2>3, <2>4
<1> QED BY <1>1, <1>2, AccountedAfter

LEMMA EnsureAccounted ==
    ASSUME Typed, Sound, Accounted, NEW p \in Procs, Claim(p) \/ Deny(p) \/ Mark(p)
    PROVE  Accounted'
<1>1. /\ pc[p] \in {"ensure", "adopt", "mark"} /\ UNCHANGED <<files, disk>> /\ Alone(p)
  BY StepsAlone DEF Step, Claim, Deny, Mark
<1>2. CASE Refuse(p)
  <2>1. pc'[p] \notin Inside
    BY <1>1, <1>2, RefuseAlone DEF Inside
  <2> QED BY <1>1, <2>1, QuietAccounted
<1>3. CASE ~Refuse(p)
  <2>1. UNCHANGED <<home, views, job>> /\ pc'[p] \in {"mark", "save", "remove"}
    BY <1>1, <1>3 DEF Claim, Deny, Mark, Claimed, Goto, inside, memory, Typed, TypeOK
  <2> QED BY <1>1, <2>1, QuietAccounted DEF Inside
<1> QED BY <1>2, <1>3

(* A known state is saved for the target in hand, under the lock.          *)
LEMMA WrittenAccounted ==
    ASSUME Typed, Sound, Sorted, Accounted, NEW p \in Procs, Alone(p), UNCHANGED files,
           home[p] \in Homes, Target(p) \in Ids, lock[home[p]] \in {p, NoProc},
           NEW st, Known(files, st), disk' \in {disk, Written(p, st)},
           AccountedBy(p)'
    PROVE  Accounted'
<1>1. \A k \in Homes \ {home[p]} : disk'[k] = disk[k]
  BY WrittenFile
<1>2. \A q \in Procs \ {p} : pc[q] \in Inside => disk'[home[q]] = disk[home[q]]
  <2> TAKE q \in Procs \ {p}
  <2>1. pc[q] \in Inside => home[q] \in Homes /\ lock[home[q]] = q
    BY NoHomeAssumption DEF Typed, TypeOK, Sorted, Held, Inside
  <2> QED BY <1>1, <2>1, NoProcAssumption
<1>3. \A h \in Homes, id \in Ids :
          disk'[h][id] = disk[h][id] \/ Known(files', disk'[h][id])
  BY WrittenFile
<1>4. NoneFilled
  BY DEF NoneFilled
<1> QED BY <1>2, <1>3, <1>4, AccountedAfter

(* A new target is marked if something is there.                           *)
LEMMA RegisterAccounted ==
    ASSUME Typed, Sound, Sorted, Accounted, NEW p \in Procs, Register(p)
    PROVE  Accounted'
<1> DEFINE n == job[p].name
           old == disk[home[p]][Target(p)]
           st == Ensured(p, n)
<1>1. /\ pc[p] = "save" /\ home[p] \in Homes /\ n \in Names
      /\ Target(p) = Id(n) /\ Target(p) \in Ids /\ job[p].why \in {"start", "request"}
      /\ Alone(p) /\ lock[home[p]] = p /\ UNCHANGED files
  <2>1. pc[p] = "save" /\ UNCHANGED files
    BY DEF Register
  <2>2. home[p] \in Homes /\ n \in Names /\ job[p].why \in {"start", "request"}
    BY <2>1, NoHomeAssumption DEF Typed, TypeOK, Doing, Fits
  <2>3. Alone(p) /\ lock[home[p]] = p
    BY <2>1, StepsAlone DEF Step, Sorted, Held, Inside
  <2> QED BY <2>1, <2>2, <2>3, IdPlaces DEF Target
<1>2. Known(files, st)
  <2>1. old \in TargetState /\ Known(files, old)
    BY <1>1 DEF Typed, TypeOK, Accounted
  <2>2. CASE old = NoState
    <3>1. st = [NoState EXCEPT !.name = n, !.recovery = files[n.place] # "empty"]
      BY <1>1, <2>2 DEF Ensured
    <3> QED BY <3>1 DEF Known, NoState
  <2>3. CASE old # NoState
    <3>1. st = [old EXCEPT !.name = n]
      BY <1>1, <2>3 DEF Ensured
    <3>2. st.current = old.current /\ st.records = old.records /\ st.name = n
          /\ st.recovery = old.recovery /\ st.active = old.active
      BY <2>1, <3>1 DEF TargetState
    <3>3. old.name.place = n.place
      BY <1>1, <2>3, IdPlaces DEF Sound, Belongs
    <3> HIDE DEF st, old
    <3> QED BY <2>1, <2>3, <3>2, <3>3 DEF Known
  <2> QED BY <2>2, <2>3
<1>3. disk' \in {disk, Written(p, st)}
  BY DEF Register, Save
<1> HIDE DEF st
<1>4. CASE Refuse(p)
  <2>1. AccountedBy(p)'
    BY <1>1, <1>4, RefuseAlone DEF AccountedBy, AccountedAs, Inside
  <2> QED BY <1>1, <1>2, <1>3, <2>1, WrittenAccounted
<1>5. CASE /\ Save(p, st)
           /\ \/ Goto(p, "recover") /\ UNCHANGED job
              \/ Look(p, job[p], views'[p])
  <2>1. \A id \in Ids : views'[p][id] = IF id = Target(p) THEN st ELSE views[p][id]
    BY <1>1, <1>5 DEF Save, Typed, TypeOK
  <2>2. \A id \in Ids : Known(files, views[p][id])
    BY <1>1 DEF Accounted, AccountedBy, AccountedAs, Inside
  <2>3. pc'[p] \in {"recover", "queued", "idle"}
    BY <1>5 DEF Look, Goto, Typed, TypeOK
  <2>4. AccountedBy(p)'
    BY <1>1, <1>2, <2>1, <2>2, <2>3 DEF AccountedBy, AccountedAs
  <2> QED BY <1>1, <1>2, <1>3, <2>4, WrittenAccounted
<1> QED BY <1>4, <1>5 DEF Register, st

LEMMA RequestAccounted ==
    ASSUME Typed, Sound, Accounted, NEW p \in Procs,
           \/ \E n \in Names, r \in Releases \cup {NoRelease} : Request(p, n, r)
           \/ Busy(p) \/ Turned(p)
    PROVE  Accounted'
<1>1. /\ pc[p] \in {"idle", "queued"} /\ Alone(p) /\ UNCHANGED <<files, disk, home>>
      /\ home[p] \in Homes
  <2>1. pc[p] \in {"idle", "queued"} /\ UNCHANGED <<files, disk, home>>
    BY DEF Request, Busy, Turned, memory
  <2> QED BY <2>1, StepsAlone, NoHomeAssumption DEF Step, Typed, TypeOK
<1>2. \/ pc'[p] \in {"idle", "queued"}
      \/ pc'[p] = "ensure" /\ views'[p] = disk[home[p]]
  BY DEF Request, Look, Resolve, Load, Busy, Turned, Goto, Typed, TypeOK
<1> QED BY <1>1, <1>2, QuietAccounted DEF Inside

(* The release is on record before anything is built.                      *)
LEMMA AcceptAccounted ==
    ASSUME Typed, Sound, Sorted, Accounted, NEW p \in Procs, Accept(p)
    PROVE  Accounted'
<1> DEFINE r == job[p].release
           here == disk[home[p]]
           st == Accepted(here[Target(p)], r)
<1>1. /\ pc[p] = "queued" /\ UNCHANGED <<files, home, job>> /\ Alone(p)
      /\ lock[home[p]] = NoProc
  BY StepsAlone DEF Accept, Take, Free, Step
<1>2. /\ home[p] \in Homes /\ Target(p) \in Ids /\ here[Target(p)] \in TargetState
      /\ Target(p) = Id(job[p].name)
  BY <1>1, InHand DEF Target
<1>3. r \in st.records
  BY <1>2 DEF Accepted, TargetState
<1>4. /\ disk' \in {disk, Written(p, st)}
      /\ \/ pc'[p] = "work" /\ disk' = Written(p, st) /\ views'[p] = disk'[home[p]]
         \/ pc'[p] = "uncertain" /\ views'[p] = here
  BY DEF Accept, Load, Goto, Typed, TypeOK
<1> HIDE DEF st, r
<1>5. Known(files, st)
  BY <1>3 DEF Known
<1>6. AccountedBy(p)'
  <2>1. \A id \in Ids : Known(files, here[id])
    BY <1>2 DEF Accounted
  <2>2. CASE pc'[p] = "work" /\ disk' = Written(p, st) /\ views'[p] = disk'[home[p]]
    <3>1. \A id \in Ids : views'[p][id] = IF id = Target(p) THEN st ELSE here[id]
      BY <1>2, <2>2, WrittenFile
    <3>2. /\ \A id \in Ids : Known(files, views'[p][id])
          /\ r \in views'[p][Id(job[p].name)].records
      BY <1>2, <1>3, <1>5, <2>1, <3>1
    <3> QED BY <1>1, <2>2, <3>2 DEF AccountedBy, AccountedAs, r
  <2>3. CASE pc'[p] = "uncertain" /\ views'[p] = here
    BY <1>1, <2>1, <2>3 DEF AccountedBy, AccountedAs
  <2> QED BY <1>4, <2>2, <2>3
<1> QED BY <1>1, <1>2, <1>4, <1>5, <1>6, WrittenAccounted

(* What lies where p builds is the state of its own target: every other    *)
(* has a marker of its own; and nobody else on this home has it in hand.   *)
LEMMA BuildAccounted ==
    ASSUME Typed, Sound, Sorted, Accounted, NEW p \in Procs, Build(p)
    PROVE  Accounted'
<1> DEFINE place == job[p].name.place
           t == Target(p)
<1>1. /\ pc[p] = "work" /\ pc'[p] = "built" /\ Alone(p)
      /\ UNCHANGED <<disk, job, home, views>>
      /\ files' = [files EXCEPT ![place] = "served"]
  BY StepsAlone DEF Build, Step, Goto, inside, memory, Typed, TypeOK
<1>2. /\ home[p] \in Homes /\ t \in Ids /\ t = Id(job[p].name) /\ job[p].name \in Names
      /\ t[2] = place /\ job[p].why = "request" /\ lock[home[p]] = p
  <2>1. /\ home[p] \in Homes /\ t \in Ids /\ job[p].name \in Names
        /\ job[p].why = "request"
    BY <1>1, InHand DEF Fits
  <2> QED BY <1>1, <2>1, IdPlaces DEF Target, Sorted, Held, Inside
<1>3. /\ \A id \in Ids : Known(files, views[p][id])
      /\ views[p][t].records # {}
      /\ disk[home[p]][t] # NoState => disk[home[p]][t].records # {}
  BY <1>1, <1>2 DEF Accounted, AccountedBy, AccountedAs, Inside
<1>4. marker[place] = <<home[p], t[1]>>
  BY <1>1, <1>2 DEF Sound, Belongs, Remembered
<1>5. ASSUME NEW h \in Homes, NEW id \in Ids, NEW st, Belongs(marker, h, id, st),
             st # NoState, st.name.place = place
      PROVE  h = home[p] /\ id = t
  <2>1. id[2] = place
    BY <1>5, IdPlaces DEF Belongs
  <2>2. <<h, id[1]>> = <<home[p], t[1]>>
    BY <1>4, <1>5, <2>1 DEF Belongs
  <2> QED BY <1>2, <2>1, <2>2, IdPlaces
<1>6. \A other \in Places : other # place => files'[other] = files[other]
  BY <1>1 DEF Typed, TypeOK
<1>7. ASSUME NEW h \in Homes, NEW id \in Ids, NEW st, Belongs(marker, h, id, st),
             Known(files, st), h = home[p] /\ id = t => st = NoState \/ st.records # {}
      PROVE  Known(files', st)
  <2>1. CASE st # NoState /\ st.name.place # place
    <3>1. st.name.place \in Places
      BY <1>7, <2>1, PlaceAssumption DEF Belongs
    <3> QED BY <1>6, <1>7, <2>1, <3>1 DEF Known
  <2>2. CASE st # NoState /\ st.name.place = place
    BY <1>5, <1>7, <2>2 DEF Known
  <2> QED BY <2>1, <2>2 DEF Known, NoState
<1>8. \A h \in Homes, id \in Ids : Known(files', disk'[h][id])
  BY <1>1, <1>3, <1>7 DEF Accounted, Sound
<1>9. AccountedBy(p)'
  <2>1. \A id \in Ids : Known(files', views[p][id])
    BY <1>2, <1>3, <1>7 DEF Sound
  <2>2. AccountedAs(pc[p], job[p], views[p], disk[home[p]], files)
    BY DEF Accounted, AccountedBy
  <2>3. AccountedAs("built", job[p], views[p], disk[home[p]], files')
    BY <1>1, <2>1, <2>2 DEF AccountedAs
  <2> QED BY <1>1, <2>3 DEF AccountedBy
<1>10. ASSUME NEW q \in Procs \ {p}
       PROVE  AccountedBy(q)'
  <2>1. /\ pc'[q] = pc[q] /\ job'[q] = job[q] /\ home'[q] = home[q]
        /\ views'[q] = views[q]
    BY <1>1 DEF Alone
  <2>2. AccountedAs(pc[q], job[q], views[q], disk[home[q]], files)
    BY DEF Accounted, AccountedBy
  <2>3. ASSUME pc[q] \in Inside, job[q].why # "adopt", NEW id \in Ids
        PROVE  Known(files', views[q][id])
    <3>1. home[q] \in Homes /\ home[q] # home[p]
      BY <1>2, <2>3, NoHomeAssumption DEF Typed, TypeOK, Sorted, Held, Inside
    <3>2. Known(files, views[q][id])
      BY <2>2, <2>3 DEF AccountedAs
    <3> QED BY <1>7, <3>1, <3>2 DEF Sound
  <2>4. pc[q] = "rebuild" => files'[job[q].name.place] # "empty"
    <3>1. pc[q] = "rebuild" => job[q].name.place \in Places
      BY PlaceAssumption DEF Typed, Doing, Fits
    <3> QED BY <1>1, <2>2, <3>1 DEF AccountedAs, Typed, TypeOK
  <2>5. AccountedAs(pc[q], job[q], views[q], disk[home[q]], files')
    BY <2>2, <2>3, <2>4 DEF AccountedAs
  <2> QED BY <1>1, <2>1, <2>5 DEF AccountedBy
<1>11. \A q \in Procs : AccountedBy(q)'
  <2> TAKE q \in Procs
  <2> QED BY <1>9, <1>10
<1> QED BY <1>8, <1>11 DEF Accounted

(* Every end of a release keeps it on record.                              *)
LEMMA TransactionAccounted ==
    ASSUME Typed, Sound, Sorted, Accounted, NEW p \in Procs,
           Finish(p) \/ Uncertain(p) \/ Recover(p)
    PROVE  Accounted'
<1> DEFINE old == views[p][Target(p)]
           r == job[p].release
<1>1. /\ pc[p] \in {"recover", "work", "built", "uncertain"} /\ UNCHANGED <<files, home>>
      /\ Alone(p)
  <2>1. /\ pc[p] \in {"recover", "work", "built", "uncertain"} /\ UNCHANGED <<files, home>>
    BY DEF Finish, Uncertain, Recover
  <2> QED BY <2>1, StepsAlone DEF Step
<1>2. /\ home[p] \in Homes /\ Target(p) \in Ids /\ old \in TargetState
      /\ Target(p) = Id(job[p].name) /\ lock[home[p]] = p
      /\ job[p].why = IF pc[p] = "recover" THEN "start" ELSE "request"
  <2>1. /\ home[p] \in Homes /\ Target(p) \in Ids /\ old \in TargetState
        /\ Target(p) = Id(job[p].name)
        /\ job[p].why = IF pc[p] = "recover" THEN "start" ELSE "request"
    BY <1>1, InHand DEF Target, Fits
  <2> QED BY <1>1, <2>1 DEF Sorted, Held, Inside
<1>3. /\ \A id \in Ids : Known(files, views[p][id])
      /\ pc[p] \in {"work", "built"} => r \in old.records
  BY <1>1, <1>2 DEF Accounted, AccountedBy, AccountedAs, Inside
<1>4. ASSUME NEW st, Known(files, st), disk' \in {disk, Written(p, st)},
             pc'[p] \in {"idle", "start", "uncertain"},
             views' = views \/ views' = [views EXCEPT ![p][Target(p)] = st]
      PROVE  Accounted'
  <2>1. \A id \in Ids : Known(files, views'[p][id])
    <3>1. \A id \in Ids : views'[p][id] \in {views[p][id], st}
      BY <1>2, <1>4 DEF Typed, TypeOK
    <3> HIDE DEF old
    <3> QED BY <1>3, <1>4, <3>1
  <2>2. AccountedBy(p)'
    BY <1>1, <1>4, <2>1 DEF AccountedBy, AccountedAs
  <2> QED BY <1>1, <1>2, <1>4, <2>2, WrittenAccounted
<1>5. CASE Finish(p)
  <2>1. PICK st \in {Failed(old), Succeeded(old)} :
           \/ Save(p, st) /\ Leave(p)
           \/ SaveFails(p, st) /\ Goto(p, "uncertain")
    BY <1>5 DEF Finish
  <2>2. pc[p] \in {"work", "built"} /\ job[p].why = "request"
    BY <1>2, <1>5 DEF Finish
  <2>3. Known(files, st)
    BY <1>2, <1>3, <2>1, <2>2 DEF Failed, Succeeded, TargetState, Known
  <2>4. /\ disk' \in {disk, Written(p, st)} /\ pc'[p] \in {"idle", "uncertain"}
        /\ views' = views \/ views' = [views EXCEPT ![p][Target(p)] = st]
    BY <2>1, <2>2 DEF Save, SaveFails, Leave, Goto, Typed, TypeOK
  <2> QED BY <1>4, <2>3, <2>4
<1>6. CASE Uncertain(p)
  <2> DEFINE st == [Accepted(old, r) EXCEPT !.recovery = TRUE]
  <2>1. Known(files, st)
    BY <1>2 DEF Accepted, TargetState, Known
  <2>2. pc[p] = "uncertain" /\ job[p].why = "request"
    BY <1>2, <1>6 DEF Uncertain
  <2>3. /\ disk' \in {disk, Written(p, st)} /\ pc'[p] = "idle"
        /\ views' = [views EXCEPT ![p][Target(p)] = st]
    BY <1>6, <2>2 DEF Uncertain, Leave, Goto, Typed, TypeOK
  <2> HIDE DEF st
  <2> QED BY <1>4, <2>1, <2>3
<1>7. CASE Recover(p)
  <2>1. PICK st \in Recovered(old) : Save(p, st) \/ SaveFails(p, st)
    BY <1>7 DEF Recover
  <2>2. Known(files, st)
    <3>1. Known(files, old)
      BY <1>2, <1>3
    <3>2. CASE st = old
      BY <3>1, <3>2
    <3>3. CASE old.active # NoRelease
      <4>1. st.records = old.records
        BY <1>2, <2>1 DEF Recovered, Failed, Succeeded, TargetState
      <4>2. old.records # {}
        BY <3>1, <3>3 DEF Known
      <4> QED BY <4>1, <4>2 DEF Known
    <3>4. CASE old.active = NoRelease /\ st # old
      <4>1. /\ st.current /\ st.active = NoRelease
        BY <1>2, <2>1, <3>4 DEF Recovered, TargetState
      <4> QED BY <4>1 DEF Known
    <3> QED BY <3>2, <3>3, <3>4
  <2>3. /\ disk' \in {disk, Written(p, st)} /\ pc'[p] = "start"
        /\ views' = views \/ views' = [views EXCEPT ![p][Target(p)] = st]
    BY <1>7, <2>1 DEF Recover, Save, SaveFails, Goto, Typed, TypeOK
  <2> QED BY <1>4, <2>2, <2>3
<1> QED BY <1>5, <1>6, <1>7

LEMMA StartAccounted ==
    ASSUME Typed, Sound, Accounted, NEW p \in Procs,
           (\E h \in Homes : Start(p, h)) \/ Begin(p) \/ Started(p)
    PROVE  Accounted'
<1>1. Alone(p) /\ UNCHANGED <<files, disk>>
  BY StepsAlone DEF Step, Start, Begin, Started
<1>2. ASSUME NEW h \in Homes, Start(p, h)
      PROVE  Accounted'
  <2>1. pc'[p] = "start" /\ home'[p] = h /\ views'[p] = disk[h]
    BY <1>2 DEF Start, Goto, Typed, TypeOK
  <2> QED BY <1>1, <2>1, QuietAccounted
<1>3. CASE Begin(p)
  <2>1. /\ UNCHANGED <<home, views>> /\ pc[p] = "start" /\ pc'[p] = "ensure"
        /\ job'[p].why = job[p].why
    BY <1>3 DEF Begin, Goto, Typed, TypeOK, Job
  <2> QED BY <1>1, <2>1, QuietAccounted DEF Inside
<1>4. CASE Started(p)
  <2>1. pc'[p] = "idle"
    BY <1>4 DEF Started, Goto, Typed, TypeOK
  <2> QED BY <1>1, <2>1, QuietAccounted DEF Inside
<1> QED BY <1>2, <1>3, <1>4

(* Adoption removes a directory that latest still points at, and builds it *)
(* again; to a reader of the state it was never empty.                     *)
LEMMA AdoptionAccounted ==
    ASSUME Typed, Sound, Sorted, Accounted, NEW p \in Procs,
           \/ \E h \in Homes, n \in Names : Adopt(p, h, n)
           \/ AdoptRemove(p) \/ AdoptRebuild(p)
    PROVE  Accounted'
<1>1. Alone(p) /\ UNCHANGED disk
  BY StepsAlone DEF Step, Adopt, AdoptRemove, AdoptRebuild
<1>2. ASSUME NEW h \in Homes, NEW n \in Names, Adopt(p, h, n)
      PROVE  Accounted'
  <2>1. pc'[p] = "adopt" /\ job'[p].why = "adopt" /\ UNCHANGED files
    BY <1>2 DEF Adopt, Goto, Typed, TypeOK
  <2> QED BY <1>1, <2>1, QuietAccounted
<1>3. ASSUME AdoptRemove(p) \/ AdoptRebuild(p)
      PROVE  /\ pc[p] \in {"remove", "rebuild"} /\ job[p].name.place \in Places
             /\ job[p].why = "adopt"
             /\ pc[p] = "rebuild" => files[job[p].name.place] # "empty"
  <2>1. pc[p] \in {"remove", "rebuild"}
    BY <1>3 DEF AdoptRemove, AdoptRebuild
  <2> QED BY <2>1, PlaceAssumption
      DEF Typed, Doing, Fits, Accounted, AccountedBy, AccountedAs
<1>4. ASSUME NoneFilled, AccountedBy(p)'
      PROVE  Accounted'
  BY <1>1, <1>4, AccountedAfter
<1>5. CASE AdoptRemove(p)
  <2>1. CASE /\ files[job[p].name.place] = "served" /\ Goto(p, "rebuild")
             /\ files' = [files EXCEPT ![job[p].name.place] = "broken"]
             /\ UNCHANGED inside
    <3>1. NoneFilled /\ files'[job[p].name.place] = "broken"
      BY <1>3, <1>5, <2>1 DEF NoneFilled, Typed, TypeOK
    <3>2. pc'[p] = "rebuild" /\ job'[p] = job[p]
      BY <2>1 DEF Goto, inside, Typed, TypeOK
    <3>3. AccountedBy(p)'
      BY <1>3, <1>5, <3>1, <3>2 DEF AccountedBy, AccountedAs
    <3> QED BY <1>4, <3>1, <3>3
  <2>2. CASE Refuse(p) /\ UNCHANGED files
    <3>1. pc'[p] \notin Inside
      BY <1>3, <1>5, <2>2, RefuseAlone DEF Inside
    <3> QED BY <1>1, <2>2, <3>1, QuietAccounted
  <2> QED BY <1>5, <2>1, <2>2 DEF AdoptRemove
<1>6. CASE AdoptRebuild(p)
  <2>1. NoneFilled
    BY <1>3, <1>6 DEF AdoptRebuild, NoneFilled, Typed, TypeOK
  <2>2. pc'[p] \notin Inside
    BY <1>3, <1>6, RefuseAlone DEF AdoptRebuild, Inside
  <2>3. AccountedBy(p)'
    BY <2>2 DEF AccountedBy, AccountedAs, Inside
  <2> QED BY <1>4, <2>1, <2>3
<1> QED BY <1>2, <1>5, <1>6

LEMMA OutsideAccounted ==
    ASSUME Typed, Sound, Accounted,
           \/ \E p \in Procs : Crash(p)
           \/ \E h \in Homes : \/ \E c \in Configs[h] : Reconfigure(h, c)
                               \/ LoseState(h)
    PROVE  Accounted'
<1>1. ASSUME NEW p \in Procs, Crash(p)
      PROVE  Accounted'
  <2>1. Alone(p) /\ UNCHANGED <<files, disk>> /\ pc'[p] = "off"
    BY <1>1, StepsAlone DEF Crash, Goto, Typed, TypeOK
  <2> QED BY <2>1, QuietAccounted DEF Inside
<1>2. ASSUME NEW h \in Homes, NEW c \in Configs[h], Reconfigure(h, c)
      PROVE  Accounted'
  BY <1>2 DEF Reconfigure, inside, memory, Accounted, AccountedBy
<1>3. ASSUME NEW h \in Homes, LoseState(h)
      PROVE  Accounted'
  <2>1. UNCHANGED <<files, home, views, pc, job>>
    BY <1>3 DEF LoseState, inside, memory
  <2>2. \A k \in Homes, id \in Ids : disk'[k][id] \in {disk[k][id], NoState}
    BY <1>3 DEF LoseState, Nothing, Typed, TypeOK
  <2>3. \A k \in Homes, id \in Ids : Known(files', disk'[k][id])
    <3>1. Known(files, NoState)
      BY DEF Known, NoState
    <3>2. \A k \in Homes, id \in Ids : Known(files, disk'[k][id])
      BY <2>2, <3>1 DEF Accounted
    <3> QED BY <2>1, <3>2
  <2>4. ASSUME NEW p \in Procs
        PROVE  AccountedBy(p)'
    <3>1. pc[p] \in {"work", "built"} => home[p] \in Homes /\ Id(job[p].name) \in Ids
      BY InHand DEF Target
    <3>2. AccountedAs(pc[p], job[p], views[p], disk[home[p]], files)
      BY DEF Accounted, AccountedBy
    <3>3. AccountedAs(pc[p], job[p], views[p], disk'[home[p]], files)
      BY <2>2, <3>1, <3>2 DEF AccountedAs
    <3> QED BY <2>1, <3>3 DEF AccountedBy
  <2> QED BY <2>3, <2>4 DEF Accounted
<1> QED BY <1>1, <1>2, <1>3

-----------------------------------------------------------------------------
LEMMA InitAccounted == Init => Accounted
BY DEF Init, Accounted, AccountedBy, AccountedAs, Known, Nothing, NoState, Inside

LEMMA NextAccounted == Typed /\ Sound /\ Sorted /\ Accounted /\ [Next]_vars => Accounted'
<1> SUFFICES ASSUME Typed, Sound, Sorted, Accounted, [Next]_vars PROVE Accounted'
  OBVIOUS
<1>1. ASSUME NEW p \in Procs, Step(p)
      PROVE  Accounted'
  <2>1. CASE Claim(p) \/ Deny(p) \/ Mark(p)
    BY <2>1, EnsureAccounted
  <2>2. CASE Register(p)
    BY <2>2, RegisterAccounted
  <2>3. CASE Busy(p) \/ Turned(p)
    BY <2>3, RequestAccounted
  <2>4. CASE Accept(p)
    BY <2>4, AcceptAccounted
  <2>5. CASE Build(p)
    BY <2>5, BuildAccounted
  <2>6. CASE Finish(p) \/ Uncertain(p) \/ Recover(p)
    BY <2>6, TransactionAccounted
  <2>7. CASE Begin(p) \/ Started(p)
    BY <2>7, StartAccounted
  <2>8. CASE AdoptRemove(p) \/ AdoptRebuild(p)
    BY <2>8, AdoptionAccounted
  <2> QED BY <1>1, <2>1, <2>2, <2>3, <2>4, <2>5, <2>6, <2>7, <2>8 DEF Step
<1>2. ASSUME NEW p \in Procs, NEW h \in Homes,
             Start(p, h) \/ \E n \in Names : Adopt(p, h, n)
      PROVE  Accounted'
  BY <1>2, StartAccounted, AdoptionAccounted
<1>3. ASSUME NEW p \in Procs,
             \E n \in Names, r \in Releases \cup {NoRelease} : Request(p, n, r)
      PROVE  Accounted'
  BY <1>3, RequestAccounted
<1>4. CASE \/ \E p \in Procs : Crash(p)
           \/ \E h \in Homes : \/ \E c \in Configs[h] : Reconfigure(h, c)
                               \/ LoseState(h)
  BY <1>4, OutsideAccounted
<1>5. CASE UNCHANGED vars
  BY <1>5 DEF vars, inside, memory, Accounted, AccountedBy
<1> QED BY <1>1, <1>2, <1>3, <1>4, <1>5 DEF Next

(* A directory that serves something of which its state file has no        *)
(* release is marked for recovery, also where the state was lost and       *)
(* registered again while adoption, a crash or a failed save was under     *)
(* way: a release is on record before anything is built, and only one      *)
(* target, of one installation, is built in that directory.                *)
THEOREM UnknownAccounted == Spec => []UnknownIsMarked
<1>1. Accounted => UnknownIsMarked
  BY DEF Accounted, Known, UnknownIsMarked, Registered
<1> QED BY <1>1, InitTyped, NextTyped, InitSorted, NextSorted,
           InitAccounted, NextAccounted, PTL DEF Spec
=============================================================================
