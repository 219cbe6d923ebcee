------------------------------- MODULE Targets -------------------------------
(***************************************************************************)
(* Which directories an installation manages.  A target is registered by   *)
(* the configuration at startup or by the first request that names it      *)
(* (Runner.Resolve), is claimed by a marker inside its directory           *)
(* (ownership.go), and has a state file in data_dir from then on.  Here    *)
(* are all targets of a node at once, under configurations that change     *)
(* between two starts, with crashes, failed saves and a data_dir that is   *)
(* lost; one transaction on one target is only accepted and ended          *)
(* (Publisher has its steps).                                              *)
(*                                                                         *)
(* A home is an installation: node_id, data_dir and lock_file.  Several    *)
(* processes may run on one home; NodeLock shows that the section between  *)
(* lock and unlock belongs to one of them.  A process serves one request   *)
(* at a time here: two that overlap in one process meet like those of two  *)
(* processes, except that they share their views.                          *)
(***************************************************************************)
EXTENDS Naturals, FiniteSets

CONSTANTS Procs, NoProc, Homes, NoHome,  \* processes, and what they run on
          Places, Within,                \* directories; <<inner, outer>> pairs
          Served,                        \* those that somebody served before
          Names, NoName,                 \* targets: [place, type, env]
          Configs,                       \* what the configuration of each home may say
          Releases, NoRelease,
          MaxMishaps                     \* how much may go wrong, in each home

ASSUME NoHomeAssumption == NoHome \notin Homes
ASSUME NoProcAssumption == NoProc \notin Procs
ASSUME NoNameAssumption == NoName \notin Names
ASSUME NoReleaseAssumption == NoRelease \notin Releases
ASSUME PlaceAssumption == \A n \in Names : n.place \in Places
ASSUME ConfigAssumption == \A h \in Homes : \A c \in Configs[h] : c.static \subseteq Names
ASSUME WithinAssumption == \A place \in Places : <<place, place>> \in Within

VARIABLES config,   \* the configuration of each home
          marker,   \* .publisher.json of each directory
          files,    \* latest of each directory and what it points at
          disk,     \* the state files of each home
          lock,     \* who holds the lock of each home
          home,     \* the home that each process was started on
          pc, job,  \* where a process stands, and what for
          views,    \* Runner.views of each process
          todo,     \* targets that startup still has to look at
          blocked,  \* Runner.blocked of each process
          mishaps   \* failures, crashes, losses, changed configurations

memory == <<home, views, todo, blocked>>
inside == <<lock, job, memory>>
vars == <<config, marker, files, disk, pc, inside, mishaps>>

-----------------------------------------------------------------------------
(* The configuration.                                                      *)

Overlap(a, b) == <<a, b>> \in Within \/ <<b, a>> \in Within

(* Validate: explicit targets do not overlap, and belong to the one        *)
(* environment of the node.                                                *)
Valid(c) == \A n \in c.static :
                /\ c.envs = {n.env}
                /\ \A m \in c.static \ {n} : ~Overlap(n.place, m.place)

(* TargetForEnv: an explicit target, or one of a type that is enabled as a *)
(* whole, outside the directories of explicit ones.                        *)
Resolves(c, n) == /\ n.env \in c.envs
                  /\ \/ n \in c.static
                     \/ /\ n.type \in c.templates
                        /\ \A m \in c.static : ~Overlap(n.place, m.place)
Dynamic(c, n) == n \notin c.static

(* target_id is a digest of the environment and the directory.             *)
Id(n) == <<n.env, n.place>>
Ids == {Id(n) : n \in Names}
Envs == {n.env : n \in Names}

-----------------------------------------------------------------------------
(* State files, and the lists of them that processes keep.                 *)

TargetState == [name : Names \cup {NoName}, recovery : BOOLEAN,
                active : Releases \cup {NoRelease}, current : BOOLEAN,
                records : SUBSET Releases]
NoState == [name |-> NoName, recovery |-> FALSE, active |-> NoRelease,
            current |-> FALSE, records |-> {}]

Registered(states) == {id \in Ids : states[id] # NoState}
Nothing == [id \in Ids |-> NoState]

(* Who a marker names; one that was created and not written names nobody.  *)
Owner(p, n) == <<home[p], n.env>>
Unclaimed == <<"unclaimed">>
Unwritten == <<"unwritten">>

Job == [name : Names \cup {NoName}, release : Releases \cup {NoRelease},
        why : {"none", "start", "request", "adopt"}]
NoJob == [name |-> NoName, release |-> NoRelease, why |-> "none"]

Init == /\ config \in [Homes -> UNION {Configs[h] : h \in Homes}]
        /\ \A h \in Homes : config[h] \in Configs[h] /\ Valid(config[h])
        /\ marker = [place \in Places |-> Unclaimed]
        /\ files = [place \in Places |-> IF place \in Served THEN "served" ELSE "empty"]
        /\ disk = [h \in Homes |-> Nothing]
        /\ lock = [h \in Homes |-> NoProc]
        /\ home = [p \in Procs |-> NoHome]
        /\ pc = [p \in Procs |-> "off"] /\ job = [p \in Procs |-> NoJob]
        /\ views = [p \in Procs |-> Nothing]
        /\ todo = [p \in Procs |-> {}]
        /\ blocked = [p \in Procs |-> FALSE]
        /\ mishaps = [h \in Homes |-> 0]

-----------------------------------------------------------------------------
(* What the steps of a process are made of.                                *)

Target(p) == Id(job[p].name)
Free(p) == lock[home[p]] = NoProc
Take(p) == Free(p) /\ lock' = [lock EXCEPT ![home[p]] = p]
Release(p) == lock' = [lock EXCEPT ![home[p]] = NoProc]
Goto(p, next) == pc' = [pc EXCEPT ![p] = next]
Load(p) == views' = [views EXCEPT ![p] = disk[home[p]]]

Mishap(h) == /\ mishaps[h] < MaxMishaps[h]
             /\ mishaps' = [mishaps EXCEPT ![h] = @ + 1]

(* store.Save recreates a state directory that is gone.  A save that       *)
(* reports an error may be on disk; only one that does not is published.   *)
Written(p, st) == [disk EXCEPT ![home[p]][Target(p)] = st]
Save(p, st) == /\ disk' = Written(p, st)
               /\ views' = [views EXCEPT ![p][Target(p)] = st]
               /\ UNCHANGED mishaps
SaveFails(p, st) == /\ Mishap(home[p])
                    /\ disk' \in {disk, Written(p, st)}
                    /\ UNCHANGED views

(* The request is answered, or the process gives up: a start that fails,   *)
(* and adoption, which is a command of its own, end the process.           *)
Leave(p) == /\ Release(p)
            /\ Goto(p, IF job[p].why = "request" THEN "idle" ELSE "off")
            /\ job' = [job EXCEPT ![p] = NoJob]

(* Mutant: a process that ended still counts as one of its home.           *)
ForgetKeepingHome(p) == /\ views' = [views EXCEPT ![p] = Nothing]
                        /\ todo' = [todo EXCEPT ![p] = {}]
                        /\ blocked' = [blocked EXCEPT ![p] = FALSE]
                        /\ UNCHANGED home

(* It ends; what it had in memory is gone.                                 *)
Forget(p) == /\ home' = [home EXCEPT ![p] = NoHome]
             /\ views' = [views EXCEPT ![p] = Nothing]
             /\ todo' = [todo EXCEPT ![p] = {}]
             /\ blocked' = [blocked EXCEPT ![p] = FALSE]

(* What was asked for is refused.                                          *)
Refuse(p) == /\ Leave(p)
             /\ IF job[p].why = "request" THEN UNCHANGED memory ELSE Forget(p)

-----------------------------------------------------------------------------
(* ensureTarget, under the lock and after the views were loaded.           *)

Conflict(states, n) ==
    \E id \in Registered(states) \ {Id(n)} :
        Overlap(n.place, states[id].name.place)

Registrable(p, n) ==
    LET st == disk[home[p]][Id(n)]
        c == config[home[p]]
    IN /\ ~Conflict(views[p], n)
       /\ IF st = NoState
          THEN Dynamic(c, n) => Cardinality(Registered(views[p])) < c.limit
          ELSE st.name.type = n.type

Claimed(p) == Goto(p, IF job[p].why = "adopt" THEN "remove" ELSE "save")

(* Mutant: a marker that is there is good enough.                          *)
ClaimAny(p) ==
    /\ pc[p] \in {"ensure", "adopt"}
    /\ pc[p] = "ensure" => Registrable(p, job[p].name)
    /\ LET place == job[p].name.place IN
       \/ /\ marker[place] = Unclaimed
          /\ marker' = [marker EXCEPT ![place] = Unwritten]
          /\ Goto(p, "mark")
          /\ UNCHANGED inside
       \/ /\ marker[place] # Unclaimed
          /\ Claimed(p)
          /\ UNCHANGED <<marker, inside>>
    /\ UNCHANGED <<config, files, disk, mishaps>>

(* Overlaps and limits are checked, by ensureTarget only; then comes       *)
(* claim: the marker is created, once in the life of a directory, or is    *)
(* found to name this home and environment.                                *)
Claim(p) ==
    /\ pc[p] \in {"ensure", "adopt"}
    /\ pc[p] = "ensure" => Registrable(p, job[p].name)
    /\ LET place == job[p].name.place IN
       \/ /\ marker[place] = Unclaimed
          /\ marker' = [marker EXCEPT ![place] = Unwritten]
          /\ Goto(p, "mark")
          /\ UNCHANGED inside
       \/ /\ marker[place] = Owner(p, job[p].name)
          /\ Claimed(p)
          /\ UNCHANGED <<marker, inside>>
       \/ /\ marker[place] \notin {Unclaimed, Owner(p, job[p].name)}
          /\ Refuse(p)
          /\ UNCHANGED marker
    /\ UNCHANGED <<config, files, disk, mishaps>>

(* The target is refused.                                                  *)
Deny(p) == /\ pc[p] = "ensure" /\ ~Registrable(p, job[p].name)
           /\ Refuse(p)
           /\ UNCHANGED <<config, marker, files, disk, mishaps>>

Marked(p) == [marker EXCEPT ![job[p].name.place] = Owner(p, job[p].name)]

(* The marker is written in a second step; if that fails it stays empty,   *)
(* or was written all the same.                                            *)
Mark(p) == /\ pc[p] = "mark"
           /\ \/ /\ marker' = Marked(p)
                 /\ Claimed(p)
                 /\ UNCHANGED <<inside, mishaps>>
              \/ /\ Mishap(home[p])
                 /\ marker' \in {marker, Marked(p)}
                 /\ Refuse(p)
           /\ UNCHANGED <<config, files, disk>>

(* Mutant: a new target is taken to be empty.                              *)
EnsuredUnmarked(p, n) ==
    LET st == disk[home[p]][Id(n)]
    IN IF st = NoState THEN [NoState EXCEPT !.name = n]
                       ELSE [st EXCEPT !.name = n]

(* A new target whose directory is not empty is marked for recovery.       *)
Ensured(p, n) ==
    LET st == disk[home[p]][Id(n)]
    IN IF st = NoState
       THEN [NoState EXCEPT !.name = n, !.recovery = files[n.place] # "empty"]
       ELSE [st EXCEPT !.name = n]

(* duplicate: the release_id is known in any target, unless this is the    *)
(* repetition of one that was left undecided here.                         *)
Duplicate(states, id, r) ==
    \E other \in Ids :
        /\ r \in states[other].records
        /\ ~(other = id /\ states[id].active = r /\ states[id].recovery)

(* The target is found.  A query is answered; so is a release_id known to  *)
(* these states, the views.  Anything else goes on to wait for the lock,   *)
(* holding nothing.                                                        *)
Look(p, wanted, states) ==
    IF \/ wanted.release = NoRelease
       \/ Duplicate(states, Id(wanted.name), wanted.release)
    THEN Goto(p, "idle") /\ job' = [job EXCEPT ![p] = NoJob]
    ELSE Goto(p, "queued") /\ job' = [job EXCEPT ![p] = wanted]

(* The state is saved.  Startup goes on with this target, Resolve returns  *)
(* it.  If the save fails, neither comes about.                            *)
Register(p) ==
    LET st == Ensured(p, job[p].name)
        started == job[p].why = "start"
    IN /\ pc[p] = "save"
       /\ \/ /\ Save(p, st)
             /\ IF started THEN Goto(p, "recover") /\ UNCHANGED <<lock, job>>
                           ELSE Release(p) /\ Look(p, job[p], views'[p])
             /\ UNCHANGED <<home, todo, blocked>>
          \/ /\ Mishap(home[p])
             /\ disk' \in {disk, Written(p, st)}
             /\ Refuse(p)
       /\ UNCHANGED <<config, marker, files>>

-----------------------------------------------------------------------------
(* Requests.                                                               *)

(* Resolve.  A target in the views is returned at once, without the lock.  *)
Fast(p, n) == /\ views[p][Id(n)] # NoState
              /\ Resolves(config[home[p]], views[p][Id(n)].name)

(* Mutant: the views are not loaded, as if this process were the only one. *)
ResolveUnloaded(p, wanted) ==
    /\ Take(p) /\ UNCHANGED views
    /\ Goto(p, "ensure") /\ job' = [job EXCEPT ![p] = wanted]

(* The first request that names a target registers it, under the lock.     *)
Resolve(p, wanted) ==
    /\ Take(p) /\ Load(p)
    /\ Goto(p, "ensure") /\ job' = [job EXCEPT ![p] = wanted]

(* A publication of release r, or with NoRelease a query of the state.     *)
Request(p, n, r) ==
    /\ pc[p] = "idle"
    /\ Resolves(config[home[p]], n)
    /\ LET wanted == [name |-> n, release |-> r, why |-> "request"] IN
       \/ Fast(p, n) /\ Look(p, wanted, views[p]) /\ UNCHANGED <<lock, views>>
       \/ ~Fast(p, n) /\ Resolve(p, wanted)
    /\ UNCHANGED <<config, marker, files, disk, home, todo, blocked, mishaps>>

(* NODE_BUSY.                                                              *)
Busy(p) == /\ pc[p] = "queued" /\ ~Free(p)
           /\ Goto(p, "idle") /\ job' = [job EXCEPT ![p] = NoJob]
           /\ UNCHANGED <<config, marker, files, disk, lock, memory, mishaps>>

(* Under the lock, with the views loaded anew: a release_id that another   *)
(* request has used since, a Runner that is blocked, a state file that is  *)
(* gone.                                                                   *)
Turned(p) == /\ pc[p] = "queued" /\ Free(p)
             /\ \/ Duplicate(disk[home[p]], Target(p), job[p].release)
                \/ blocked[p]
                \/ disk[home[p]][Target(p)] = NoState
             /\ Load(p)
             /\ Goto(p, "idle") /\ job' = [job EXCEPT ![p] = NoJob]
             /\ UNCHANGED <<config, marker, files, disk, lock, home, todo, blocked, mishaps>>

(* takeover, and the record of the release.                                *)
Accepted(st, r) == [st EXCEPT !.active = r, !.recovery = FALSE,
                              !.records = @ \cup {r}]

(* Mutant: the check made before the lock is relied on.                    *)
AcceptUnasked(p) ==
    /\ pc[p] = "queued" /\ ~blocked[p]
    /\ disk[home[p]][Target(p)] # NoState
    /\ Take(p)
    /\ LET st == Accepted(disk[home[p]][Target(p)], job[p].release) IN
       /\ disk' = Written(p, st)
       /\ views' = [views EXCEPT ![p] = disk'[home[p]]]
       /\ Goto(p, "work")
    /\ UNCHANGED <<config, marker, files, home, job, todo, blocked, mishaps>>

(* The release is accepted; until it is over the lock is held.             *)
Accept(p) ==
    /\ pc[p] = "queued" /\ ~blocked[p]
    /\ ~Duplicate(disk[home[p]], Target(p), job[p].release)
    /\ disk[home[p]][Target(p)] # NoState
    /\ Take(p)
    /\ LET st == Accepted(disk[home[p]][Target(p)], job[p].release) IN
       \/ /\ disk' = Written(p, st)
          /\ views' = [views EXCEPT ![p] = disk'[home[p]]]
          /\ Goto(p, "work")
          /\ UNCHANGED mishaps
       \/ /\ Mishap(home[p])
          /\ disk' \in {disk, Written(p, st)}
          /\ Load(p)
          /\ Goto(p, "uncertain")
    /\ UNCHANGED <<config, marker, files, home, job, todo, blocked>>

(* It builds something in the directory, and moves latest there.           *)
Build(p) == /\ pc[p] = "work"
            /\ files' = [files EXCEPT ![job[p].name.place] = "served"]
            /\ Goto(p, "built")
            /\ UNCHANGED <<config, marker, disk, inside, mishaps>>

Succeeded(st) == [st EXCEPT !.active = NoRelease, !.recovery = FALSE,
                            !.current = TRUE]
Failed(st) == [st EXCEPT !.active = NoRelease, !.recovery = FALSE]

(* The release is over, or could not be brought to an end.                 *)
Finish(p) ==
    /\ pc[p] \in {"work", "built"}
    /\ \E st \in {Failed(views[p][Target(p)])} \cup
                 {s \in {Succeeded(views[p][Target(p)])} : pc[p] = "built"} :
          \/ Save(p, st) /\ Leave(p)
          \/ SaveFails(p, st) /\ Goto(p, "uncertain") /\ UNCHANGED <<lock, job>>
    /\ UNCHANGED <<config, marker, files, home, todo, blocked>>

(* uncertain: published before it is saved; the Runner is blocked if that  *)
(* does not work.                                                          *)
Uncertain(p) ==
    /\ pc[p] = "uncertain"
    /\ LET st == [Accepted(views[p][Target(p)], job[p].release)
                     EXCEPT !.recovery = TRUE] IN
       /\ views' = [views EXCEPT ![p][Target(p)] = st]
       /\ \/ disk' = Written(p, st) /\ UNCHANGED <<blocked, mishaps>>
          \/ /\ Mishap(home[p])
             /\ disk' \in {disk, Written(p, st)}
             /\ blocked' = [blocked EXCEPT ![p] = TRUE]
    /\ Leave(p)
    /\ UNCHANGED <<config, marker, files, home, todo>>

-----------------------------------------------------------------------------
(* Startup.                                                                *)

(* What startup looks at: explicit targets, and registered ones that the   *)
(* configuration still leads to.                                           *)
StartupTargets(c, states) ==
    c.static \cup {states[id].name : id \in {i \in Registered(states) :
                       /\ Resolves(c, states[i].name)
                       /\ \A n \in c.static : Id(n) # i}}

(* load refuses state files of which two know one release_id.              *)
Loads(states) == \A a, b \in Ids :
                     a # b => states[a].records \cap states[b].records = {}

Start(p, h) ==
    /\ pc[p] = "off"
    /\ Loads(disk[h])
    /\ lock[h] = NoProc /\ lock' = [lock EXCEPT ![h] = p]
    /\ home' = [home EXCEPT ![p] = h]
    /\ views' = [views EXCEPT ![p] = disk[h]]
    /\ todo' = [todo EXCEPT ![p] = StartupTargets(config[h], disk[h])]
    /\ Goto(p, "start")
    /\ job' = [job EXCEPT ![p] = [NoJob EXCEPT !.why = "start"]]
    /\ UNCHANGED <<config, marker, files, disk, blocked, mishaps>>

Begin(p) == /\ pc[p] = "start"
            /\ \E n \in todo[p] :
                  /\ job' = [job EXCEPT ![p] = [@ EXCEPT !.name = n]]
                  /\ todo' = [todo EXCEPT ![p] = @ \ {n}]
            /\ Goto(p, "ensure")
            /\ UNCHANGED <<config, marker, files, disk, lock, home, views, blocked, mishaps>>

(* recoverStartup ends an active release or leaves it marked; without one, *)
(* the snapshot of the current version is looked at.                       *)
Recovered(st) ==
    IF st.active # NoRelease
    THEN {Failed(st), [st EXCEPT !.recovery = TRUE]} \cup
         {s \in {Succeeded(st)} : files[st.name.place] = "served"}
    ELSE IF st.current THEN {[st EXCEPT !.recovery = r] : r \in BOOLEAN}
    ELSE {st}

Recover(p) ==
    /\ pc[p] = "recover"
    /\ \E st \in Recovered(views[p][Target(p)]) :
          \/ Save(p, st) /\ UNCHANGED blocked
          \/ SaveFails(p, st) /\ blocked' = [blocked EXCEPT ![p] = TRUE]
    /\ Goto(p, "start")
    /\ UNCHANGED <<config, marker, files, lock, home, job, todo>>

Pending(st) == st.active # NoRelease \/ st.recovery

(* Mutant: only an interrupted release counts as pending work.             *)
UnconfiguredActive(p) ==
    \E id \in Registered(views[p]) :
        /\ views[p][id].active # NoRelease
        /\ ~Resolves(config[home[p]], views[p][id].name)

(* Pending work on a target that the configuration no longer leads to.     *)
Unconfigured(p) ==
    \E id \in Registered(views[p]) :
        /\ Pending(views[p][id])
        /\ ~Resolves(config[home[p]], views[p][id].name)

Started(p) == /\ pc[p] = "start" /\ todo[p] = {}
              /\ blocked' = [blocked EXCEPT ![p] = @ \/ Unconfigured(p)]
              /\ Release(p)
              /\ Goto(p, "idle") /\ job' = [job EXCEPT ![p] = NoJob]
              /\ UNCHANGED <<config, marker, files, disk, home, views, todo, mishaps>>

-----------------------------------------------------------------------------
(* Offline adoption of a directory that was served before, by a command of *)
(* its own, for files from Git only.  It neither looks for overlaps nor    *)
(* for limits.                                                             *)

Adopt(p, h, n) ==
    LET st == disk[h][Id(n)] IN
    /\ pc[p] = "off"
    /\ n.type # "static"
    /\ \/ n \in config[h].static
       \/ st.name = n /\ Resolves(config[h], n)
    /\ st.active = NoRelease /\ ~st.current /\ st.records = {}
    /\ lock[h] = NoProc /\ lock' = [lock EXCEPT ![h] = p]
    /\ home' = [home EXCEPT ![p] = h]
    /\ Goto(p, "adopt")
    /\ job' = [job EXCEPT ![p] = [name |-> n, release |-> NoRelease, why |-> "adopt"]]
    /\ UNCHANGED <<config, marker, files, disk, views, todo, blocked, mishaps>>

(* prepareSnapshot finds no manifest for the old directory and removes it, *)
(* with latest still pointing there.  Before that the link or the checkout *)
(* may turn out to be of no use.                                           *)
AdoptRemove(p) ==
    /\ pc[p] = "remove"
    /\ \/ /\ files[job[p].name.place] = "served"
          /\ files' = [files EXCEPT ![job[p].name.place] = "broken"]
          /\ Goto(p, "rebuild")
          /\ UNCHANGED inside
          /\ UNCHANGED mishaps
       \/ /\ IF files[job[p].name.place] = "served" THEN Mishap(home[p])
                                                   ELSE UNCHANGED mishaps
          /\ Refuse(p)
          /\ UNCHANGED files
    /\ UNCHANGED <<config, marker, disk>>

(* It is built anew from Git, unless that fails; the comparison that       *)
(* follows counts one file too many and always refuses, before anything is *)
(* saved.                                                                  *)
AdoptRebuild(p) ==
    /\ pc[p] = "rebuild"
    /\ \/ /\ files' = [files EXCEPT ![job[p].name.place] = "served"]
          /\ UNCHANGED mishaps
       \/ Mishap(home[p]) /\ UNCHANGED files
    /\ Refuse(p)
    /\ UNCHANGED <<config, marker, disk>>

-----------------------------------------------------------------------------
(* What happens from outside.                                              *)

(* The process dies, or is stopped: the kernel gives its lock back.        *)
Crash(p) == /\ pc[p] # "off"
            /\ Mishap(home[p])
            /\ Goto(p, "off") /\ job' = [job EXCEPT ![p] = NoJob]
            /\ Forget(p)
            /\ IF lock[home[p]] = p THEN Release(p) ELSE UNCHANGED lock
            /\ UNCHANGED <<config, marker, files, disk>>

(* The configuration file is changed while nothing runs on the home.       *)
Reconfigure(h, c) == /\ \A p \in Procs : home[p] # h
                     /\ Valid(c)
                     /\ Mishap(h)
                     /\ config' = [config EXCEPT ![h] = c]
                     /\ UNCHANGED <<marker, files, disk, pc, inside>>

(* The state directory is removed under a running service.                 *)
LoseState(h) == /\ Mishap(h)
                /\ disk' = [disk EXCEPT ![h] = Nothing]
                /\ UNCHANGED <<config, marker, files, pc, inside>>

Step(p) == \/ Claim(p) \/ Deny(p) \/ Mark(p) \/ Register(p)
           \/ Busy(p) \/ Turned(p)
           \/ Accept(p) \/ Build(p) \/ Finish(p) \/ Uncertain(p)
           \/ Begin(p) \/ Recover(p) \/ Started(p)
           \/ AdoptRemove(p) \/ AdoptRebuild(p)

Next == \/ \E p \in Procs :
               \/ \E h \in Homes : \/ Start(p, h)
                                   \/ \E n \in Names : Adopt(p, h, n)
               \/ \E n \in Names, r \in Releases \cup {NoRelease} :
                      Request(p, n, r)
               \/ Step(p)
               \/ Crash(p)
        \/ \E h \in Homes : \/ \E c \in Configs[h] : Reconfigure(h, c)
                            \/ LoseState(h)

Spec == Init /\ [][Next]_vars

-----------------------------------------------------------------------------
Pcs == {"off", "idle", "start", "ensure", "mark", "save", "recover",
        "queued", "work", "built", "uncertain", "adopt", "remove", "rebuild"}

(* The types of the variables.                                             *)
TypeOK == /\ config \in [Homes -> UNION {Configs[h] : h \in Homes}]
          /\ marker \in [Places -> {Unclaimed, Unwritten} \cup (Homes \X Envs)]
          /\ files \in [Places -> {"empty", "served", "broken"}]
          /\ disk \in [Homes -> [Ids -> TargetState]]
          /\ lock \in [Homes -> Procs \cup {NoProc}]
          /\ home \in [Procs -> Homes \cup {NoHome}]
          /\ \A p \in Procs : home[p] = NoHome <=> pc[p] = "off"
          /\ pc \in [Procs -> Pcs] /\ job \in [Procs -> Job]
          /\ views \in [Procs -> [Ids -> TargetState]]
          /\ todo \in [Procs -> SUBSET Names]
          /\ blocked \in [Procs -> BOOLEAN]
          /\ mishaps \in [Homes -> Nat]

(* A directory is managed by one installation for one environment: no two  *)
(* have a state file for it, whatever crashes between marker and state,    *)
(* and whatever state is lost and registered again (claimTarget before     *)
(* save in ensureTarget).                                                  *)
OwnedByOne ==
    \A h, k \in Homes : \A a \in Registered(disk[h]), b \in Registered(disk[k]) :
        disk[h][a].name.place = disk[k][b].name.place => <<h, a>> = <<k, b>>

(* Targets of one installation never lie inside each other, also when the  *)
(* configuration moves one, two processes register at once, or a lost      *)
(* state file comes back with the transaction that was under way           *)
(* (ensureTarget's overlap check, the load before it).                     *)
Disjoint ==
    \A h \in Homes : \A a, b \in Registered(disk[h]) :
        a # b => ~Overlap(disk[h][a].name.place, disk[h][b].name.place)

(* A release_id belongs to one target of an installation: otherwise no     *)
(* state could ever be loaded again (load, duplicate under the lock).      *)
UniqueIds == \A h \in Homes : Loads(disk[h])

(* A service that takes releases can be asked to resolve whatever is       *)
(* pending on its node, also what another service left there: nothing      *)
(* interrupted is out of its configuration's reach (NewWithRuntime's last  *)
(* check, and the configuration that is fixed while a process runs).       *)
PendingIsConfigured ==
    \A p \in Procs :
        pc[p] \in {"idle", "queued"} /\ ~blocked[p] =>
            \A id \in Registered(disk[home[p]]) :
                Pending(disk[home[p]][id]) =>
                    Resolves(config[home[p]], disk[home[p]][id].name)

(* A directory that serves something of which its state file has no        *)
(* release is marked for recovery, after a lost state as well as at the    *)
(* first contact.                                                          *)
UnknownIsMarked ==
    \A h \in Homes : \A id \in Registered(disk[h]) :
        LET st == disk[h][id] IN
        ~st.current /\ st.records = {} /\ files[st.name.place] # "empty"
            => st.recovery
=============================================================================
