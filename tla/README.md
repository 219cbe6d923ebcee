# TLA+ verification of nginx_updata_config

nginx_updata_config is a small HTTP service that runs on every edge node. It takes a commit of a site (from
Git, or from Git plus an ORAS frontend artifact), builds a complete snapshot directory of it, moves the
symlink `latest` to that directory, makes nginx test and reload it, and undoes all of that when a step fails
or the process dies in between. A Python client (`scripts/release_http.py`) publishes one commit to many
nodes, one after the other.

This directory holds TLA+ modules translated from that code, TLC configurations that check them on small
instances, and theorems checked by TLAPS that hold for every size. `PROJECT.json` lists components, runs,
mutants, the line map, findings, hazards and theorems; this file explains them.

## 1. Inventory

### Components

| Component | State it keeps | Operations | Model |
|---|---|---|---|
| Release transaction (`publisher/runner.go`) | the target's state file (revision, current, previous, active release, recovery mark, records), `Runner.views`, `Runner.blocked` | apply, Stage, restore_of, RollbackCurrent, NginxTest, NginxReload, Abort, duplicate, takeover, commit, restoreLocal, uncertain, recoverStartup | `Publisher` |
| Node lock and process life cycle (`lock.go`, `runner.go`, `main.go`) | `Runner.busy`, the flock on the node's lock file | Try, Unlock, startup, Stop, Shutdown, Wait | `NodeLock` |
| State store (`state/store.go`) | one JSON file per target | Load, Save, All | steps of `Publisher` and `Targets`; a directory that is gone in `Targets` |
| File primitives (`fsutil/fs.go`) | none | AtomicWrite, Switch, RemoveTree, EnsureDirs, path checks | outcomes in `Publisher`, crash points in `Snapshots` |
| nginx runtime (`nginx/runtime.go`, `publisher/runtime.go`) | what nginx has loaded | `nginx -t`, reload, health checks | outcomes in `Publisher` |
| Snapshots and cleanup (`publisher/apply.go`) | `<dir>/<commit>/`, `.manifests/<commit>.json`, `latest` | prepareSnapshot, verifySnapshot, cleanupSnapshots | `Snapshots` |
| Batch client (`scripts/release_http.py`) | the batch file, at most one run at a time | update, resume, rollback, execute_node, activate_release, restore_batch | `BatchClient` |
| Offline adoption (`publisher/migrate.go`) | the same state file, before it has a release | Adopt | its locking in `NodeLock`, its claim and its build in `Targets` |
| Target registry and ownership (`runner.go`, `ownership.go`, `target.go`) | the views of all targets, an ownership marker in each directory, the state files | Resolve, ensureTarget, claim, startup over all targets | `Targets` |
| HTTP API | a channel of request slots | decode, authorize, limit | not modelled |
| Configuration (`config/load.go`, `target.go`) | the file, read at each start | Validate, TargetForEnv | what it decides at run time in `Targets` |
| Request validation | none | pure checks | not modelled |
| Git, ORAS, archive, process runner | private directories | fetch, pull, extract, run | a step that succeeds or fails |
| Metrics, logging, CI pipeline, packaging | none that is read back | | not modelled |

### How they interact

A request passes the HTTP layer and reaches the Runner. The Runner first takes its one-slot channel `busy` and
then the flock of the node, both without waiting; a full slot or a foreign flock is answered NODE_BUSY. Under
the lock it loads the state file, accepts or replays the request, and runs the transaction. Each phase is
saved before it is carried out, so the state file always says at least as much as was done. Readers (status,
result replay, the reading part of a rollback) never take the lock: they see `views` or the file at any step
of the handler. The lock does not survive a crash; the state file, the snapshot directories, `latest` and
nginx do, and the next start has nothing else to decide from. A staged release switches `latest` and returns;
nginx/test, nginx/reload and abort are later requests on the same release_id, with other requests in between.
The batch client talks to this interface, and keeps a file of its own that must agree with what the nodes went
through.

A target comes to exist in one of three ways: the configuration lists it and startup registers it, a request
names a directory that a template allows and `Resolve` registers it, or `-adopt-target` claims one that was
served before. Each claims the directory with a marker in it, and then saves a state file. Registration takes
the lock for itself, gives it back, and the release that follows takes it again: between the two another
process may have registered, released or lost something. The configuration is read once per start, the state
files outlive it.

### What is hard, and what makes each part correct

- **Lock.** A flock belongs to an open file, so two goroutines of one process both get it and one can drop it
  under the other; each early return has to give back the right subset. Correct: one writer per node, nothing
  leaks, shutdown ends.
- **Transaction.** Death between any two writes; an fsync error after a rename that took effect; a reload that
  times out after its signal; retries that overwrite a record; takeovers of releases whose recovery failed.
  Correct: outside a transaction state file, `latest` and nginx agree; a revision names one pair of versions;
  an answered result is durable; an accepted release ends.
- **Split activation.** nginx commands identify the live switch by commit and are not announced by an intent.
  Correct: no reload without a test; `latest` never ends up somewhere nobody recorded, unless an nginx command
  died.
- **Rollback.** It is put together without the lock and queued. Correct: if accepted, it goes to the version
  that is previous at that moment.
- **Snapshots.** Half removed directories with a valid manifest, complete ones without; drift; cleanup that
  must keep whatever something may still return to. Correct: what is live is whole, `latest` moves only to
  what was verified, cleanup harms nothing that is needed.
- **Targets.** Two processes, two installations, nested directories, a marker without contents, a state without
  its target in the configuration, a state directory that disappears. Correct: a directory has one owner, the
  targets of an installation lie apart, a release_id is used once, nothing pending is out of reach, and what is
  served without being known is marked.
- **Batch.** Lost answers, calls executed late or twice, the client's death, foreign deployments. Correct: the
  file says so before a node can be reached, nodes go strictly in order, foreign versions are kept, every run
  ends.

`PROJECT.json` lists 40 hazards at their lines, with the properties that would catch them.

## 2. Modules

| Module | Models |
|---|---|
| `NodeLock` | processes, request goroutines, slot and flock |
| `Publisher` | the release transaction of one target |
| `ReleaseRegister` | what that transaction promises: an abstract register of versions |
| `PublisherRefinement` | the mapping under which `Publisher` implements `ReleaseRegister` |
| `Snapshots` | the snapshot directories of one target, at the grain of their crash points |
| `Targets` | all targets of several installations: registration, claims, startup, lost states |
| `BatchClient` | the batch client and the nodes as it sees them |
| `MC...` | each of them for TLC, with its symmetry |
| `NodeLockProofs`, `PublisherProofs`, `PublisherSettledProofs`, `PublisherRegisterProofs`, `SnapshotsProofs`, `TargetsProofs`, `TargetsApartProofs`, `BatchClientProofs` | theorems |

The modules meet at interfaces stated in them. `NodeLock` shows that one handler works at a time; that is why
`Publisher` has a single handler, and why `Targets` lets a home be locked by one process. `Publisher` shows
what a node promises its clients (results are durable, a revision names a pair); `BatchClient` takes nodes that
promise this. `Publisher` treats a snapshot as verified or not; `Snapshots` opens that up, and treats the
transaction as steps that succeed or fail. `Publisher` is one target that is there and stays; `Targets` is
about many that come and go, and only accepts and ends the transactions on them.

### NodeLock

`proc` is the life cycle of a process (the service, a second start of it, or `-adopt-target`, which takes the
flock the same way). `pc[p][h]` is where goroutine `h` stands in `Resolve`, `apply` or `runNginxCommand`:
`TrySlot` is the select on `r.busy`, `TryLock` is `nodeLock.Try` with its early return, `Unlock` and
`FreeSlot` are the deferred calls in their order. `todo` counts sections: an apply that registers a target
locks twice. `Crash` drops slot and flock, as the kernel does.

### Publisher

`disk` is the state file, `st` the copy the handler works on, `view` the copy readers get: the three differ
exactly when a save failed or is still to come. `link`, `loaded` and `passed` are `latest`, what nginx read at
its last reload, and what `nginx -t` accepted. One action per step of the code: `Accept` (duplicate, expected
revision, restore_of, takeover, first save), `SaveX` and `X` for each phase, `Commit`, `CommitGitStage`,
`SaveTested`, `Fail`, the four steps of restoreLocal, `Restored`, `Uncertain`, `Command` for the nginx
requests, `StartIdle`/`StartWithoutIntent`/`StartWithIntent` for recoverStartup, `Crash`. A failed `Save`
leaves either state on disk, as `AtomicWrite` may fail after its rename; `Switch` and the reload may fail
after they took effect.

Abstractions: a version is its commit; a revision, random in the code, is a number in order of birth; the
fetch, snapshot and candidate checks are one step with one outcome (they fail the same way, before anything is
touched); `duplicate` compares requests by the fields the transaction depends on. `adrift` and `told` are
history variables: the first says that a recovery failed or an nginx command died half way, the second which
results clients got. Not modelled: recovery branches for phases no longer written (`awaiting_*`), the schema
checks of Load, a state directory removed at run time.

### ReleaseRegister and PublisherRefinement

The register holds a pair of versions under a revision, one pending release, and a result for each release.
Its whole behaviour is seven actions: a release is accepted, its version enters the register, the register goes
back to what the release found, it is left alone, a decision is taken back, a result is told, and a pending
release is told as failed. The mapping reads only the state file (`disk`) and the answers (`told`); the handler,
its copy of the state, `latest`, nginx and the views are hidden. Two of the actions are concessions to what the
code does. `Reconsider`: a save may report an error after its rename, so the disk says succeeded for a moment and
the handler goes on to undo it; never after success has been answered. `Hasten`: a takeover publishes its views
before its save, and if that fails, the old release is answered failed while it still is the active one on disk
(finding 5). So a client can rely on "succeeded" and "skipped", and not on "failed", which is what
`AnsweredIsDurable` and the violated `AnswersStand` say apart.

### Snapshots

`dir[c]` is none, part or whole; `manifest[c]` the order in which manifests were made (0 is none), which is
what "newest" means to cleanup. Discarding and removing take several steps, so that a crash finds the
directory in part, with its manifest. `job` is the release in hand, `active`, `staged`, `undoable`, `current`,
`previous` what the state file remembers of others. `left` are the records that did not come to an end and are
no longer the active one: a release that was answered with another one's result keeps its record running, and
the commit, the restore or the failure of that other release then takes the mark (finding 3). What they need,
cleanup spares (`apply.go:532-537`). nginx commands, saves and switches only succeed or fail. `Drift` breaks a
whole directory while the service is idle or down; `Unreadable` is an error of `verifySnapshot` on a directory
that is intact, for which `prepareSnapshot` removes it like a broken one. Both count as drifts: what the
service cannot read it may harm, and `LiveIsWhole` and `RetainedKept` leave those steps out. Left out: shared assets, older layouts,
`.staging`, content checks, a source that changes under the same commit.

### Targets

A home is an installation (node_id, data_dir, lock_file); `config[h]`, `disk[h]`, `lock[h]` are its
configuration, its state files and its flock. `marker[d]` is `.publisher.json` of a directory: not there, there
and empty (created by `O_EXCL`, not yet written), or naming a home and an environment. `files[d]` says whether
`latest` leads anywhere. A process has `home`, `views` (what it loaded), `todo` (targets startup has yet to look
at) and `blocked`.

`Start`, `Begin`, `Recover` and `Started` are `NewWithRuntime`: load all state files, refuse if two know one
release_id, ensure each explicit and each reachable registered target, recover it, and block the Runner if
something pending is out of the configuration's reach. `Request` is `Resolve`, with its way around the lock for
a target in the views. `Claim`, `Deny`, `Mark` and `Register` are `ensureTarget`: overlap and limit, marker
created, marker written, state saved. `Turned`, `Busy` and `Accept` are the entry of `apply`; `Build`, `Finish`
and `Uncertain` how it ends. `Adopt`, `AdoptRemove` and `AdoptRebuild` are the offline command. `Crash`,
`Reconfigure` and `LoseState` come from outside.

Abstractions: directories are model values and `Within` says which lies in which, so that path syntax is left
out; a target is its directory, type and environment; a process serves one request at a time (two requests of
one process meet as those of two processes do, except that they share their views); of a release's steps only
the ones are kept that the registry can tell apart. What a release or a recovery decides is any of the
outcomes that `Publisher` has for it. Adoption stops where its comparison stops in the code: the
directory that it compares is the one just built, and the `.release-version` in there makes its count differ,
so it refuses every time, and intent, switch and commit are never reached.

An assumption: an installation has one configuration at a time, and `Reconfigure` changes it only while no
process of it runs. Nothing in the code enforces that: two services started with different files on one
`data_dir` would each go by its own, and `PendingIsConfigured` says nothing of them. A fleet is installed with
one unit and one file per host (`deploy/nginx-updata-config.service`), which is what the model takes.

### BatchClient

`svc[n]` is what a node promises (revision, current version, results by release_id), `pending` the calls not
executed yet: a lost call disappears, a late one stays, a duplicate counts twice. `batch` is the batch file;
it is saved at every change, so memory and disk are one variable. `stage` is the loop the client is in:
update, resolve (ask for unknown results) or undo. One action per branch: `Query`, `Activate`, `Applied`,
`Commanded`, `TimeOut`, `GiveUp`, `Returned`, `Failed`, and `Preflight`, `Resume`, `Rollback` as ways to start
a run. Left out: artifact digests, the file lock between two clients, identity and environment checks of the
preflight.

A node ends a release as skipped, failed, switched, or unclear (before the switch, or after it when the last
save fails); a later release may take over from an unclear one, which is failed then; an nginx command finds a
target that cannot be opened, or fails to record its test, and leaves the result unclear. Two results of a node
are left out. A release that is complete may be marked unclear afterwards (its target cannot be opened for a
repeated reload, or the save of its commit fails): there a node breaks the promise that complete stays complete,
which the client builds on. `Publisher` has these steps, with what they do to the node; the results on batches
are relative to nodes that keep what they called complete. And a release may be answered with another one's result (`runner.go:605`): the client refuses that
by the release_id (`release_http.py:222`), and its own record is the one of finding 3.

## 3. Runs

Each property of a passing run has a mutant of a mapped definition, written the way a slip in that code would
look, under which TLC finds the property violated.

| Run | Bounds | States | Shows |
|---|---|---|---|
| `lock` | 2 processes, 2 goroutines each | 8,024 | one writer, flock held while writing, nothing leaks, `Discipline` (the inductive invariant), shutdown ends |
| `publish` | 2 commits, 2 releases, 2 faults of 7 kinds, 2 crashes | 444,622 | whole applications: state file, `latest` and nginx agree; unfinished is active; results durable; write-ahead; releases end; the state file implements `ReleaseRegister` |
| `commands` | 2 commits, 3 releases, 1 fault of 4 kinds, 1 crash | 2,126,755 | split activation, rollbacks and batch restores in any order: no untested reload, `latest` settled, revisions name pairs, nginx runs what is complete, a waiting rollback is fresh while its revision is live, and goes to the previous version |
| `snapshots` | 4 commits, KeepReleases 2, 4 releases, 2 crashes, 2 drifts or unreadable moments | 2,310,586 | what is live or kept stays whole, `latest` moves only to what is whole |
| `targets` | 2 processes, 2 homes, 3 directories (one inside another), 1 release_id, 2 mishaps on the first home | 834,532 | one owner per directory, targets apart, a release_id in one target, pending work in reach of every service, unknown files marked |
| `batch` | 2 nodes, 2 client runs, 2 faults, 1 foreign deployment | 355,931 | written first, in order, succeeded everywhere, foreign kept, runs end |
| `skipped`, `abort`, `unfinished`, `cutshort`, `superseded`, `batchunknown` | see the .cfg | | the findings of section 6 |

Why these bounds are enough for the cases that matter:

- `lock`: the interesting conflicts are between two goroutines of one process and between two processes; both
  fit at once.
- `publish`: a takeover needs two releases; "error, and then the save of the error fails" needs two faults; a
  crash during the recovery from a crash needs two. A skipped request and a retried recovery_required fit into
  two releases.
- `commands`: a rollback needs a pair, that is two releases, and is the third; the same three alias over a
  rollback or a retry of one commit, and let the pair change while a rollback waits. Each hazard here needs one
  failure or one crash at the wrong place; a crash inside a restore is reached with one. With no failure in a
  behaviour the stronger half of `RollbackToPrevious` is checked, with one the weaker.
- For all safety properties of `publish` and `commands` the theorems of section 4 cover any number of releases,
  faults and crashes (some with a hypothesis on the operations, stated there), so the bounds matter for the liveness property and for finding mistakes early.
- `snapshots`: with KeepReleases 2, a removal needs a commit that is neither current nor previous nor among the
  two newest; three releases make one (a failed one builds its directory too), and the fourth comes back to a
  commit that was removed, or half removed, by one that died. A snapshot that only an unfinished release
  keeps needs one more: a release left unfinished, then others that take its place among the newest, then a
  cleanup. Four releases reach that, with two left behind at once. The second crash interrupts the recovery
  from the first, the second drift breaks the baseline after the candidate. (The same with five releases and
  one crash was checked once: 8.6 million states, no error.)
- `targets`: two processes on one home race in every order, and on two homes compete for a directory. Site,
  below and apart are the three ways two directories can lie; two of them were served before, one is new. One
  release_id is enough to ask for it twice, on two targets. A second home with one configuration and without
  mishaps of its own still meets every state the first one leaves in the directories. The limit of two dynamic
  targets is met by the third. Two mishaps make "a save fails but took effect, then the state is lost" or "the
  configuration moves a target, then the process dies".
- `batch`: order and reverse order are properties of two neighbours; a call lost in one run and executed in
  the next needs two runs.

Ops, Faults and the Max constants only cut off what may happen; they guard no step of the code. `snapshots`,
`targets` and `batch` say CHECK_DEADLOCK FALSE because the system really may stop: releases or client runs are
used up, or a claim with an empty marker refuses every start.
Symmetry is used only without liveness.

### Fairness

- `NodeLock`: a goroutine inside a request, startup and the shutdown path go on. Each is ordinary Go code
  between non-blocking calls; the work itself runs under timeouts. Requests, signals, starts and crashes are
  not assumed. `ShutdownEnds` needs it.
- `Publisher`: weak fairness of `Step`, since every step has a deadline (nginx, Git, ORAS, probes run under a
  context with timeout, and the process runner kills the group), and of `Start`, since the unit has
  `Restart=on-failure` (`deploy/nginx-updata-config.service:11`). `RunningIsResolved` needs both.
- `BatchClient`: weak fairness of the client's own steps and of each node's handling of calls and accepted
  releases. Time-outs are faults and are not assumed; the client's deadline is `GiveUp`, one of its own steps.

## 4. Proofs

All theorems hold for every value of the constants. Assumptions, each named in the module that declares the
constant and evaluated by TLC: "no version", "no release", "no process", "no goroutine", "no home" and "no
name" are not among the things they stand for; keep_releases is at least 2, as the configuration demands; a
directory lies within itself (nothing else is assumed of `Within`, not even transitivity); configurations list
known targets and targets lie in known directories; the bounds of the batch are natural numbers.

**NodeLockProofs.** `TypeCorrect`, `LockHeld`, `MutualExclusion`, `LocksReturned`, `Disciplined`. The inductive invariant is
`TypeOK` and `Discipline`: the slot names exactly the goroutine inside, whoever writes owns the flock, and a
held flock has a writer or a starting process. Mutual exclusion alone is not inductive: within a process it
rests on the slot, between processes on the flock, and nothing in it says that a process that starts has no
goroutine inside.

**PublisherProofs.**
- `TypeCorrect`: types, and a release is in hand exactly while a handler is under way.
- `RevisionsNamePairs`. The property speaks of the disk, but a save that reported an error may be on the disk
  all the same, and the next save builds on the handler's copy. The invariant `Revisions` relates both:
  disk.revision <= st.revision <= minted, and equal revisions mean equal pairs.
- `ReloadsAreTested`. The test and the reload are different requests; the link between them is the mark on the
  record. `Vetted`: a marked record names a version that passed (on disk and in the handler's copy), a release
  whose candidate is not fixed is not marked, and before each reload `latest` itself has passed.
- `LinkWrittenAhead`. While a release may move `latest`, the disk and the copy name it as active with its
  intent (`Backed`), even when saves of the phases in between fail. The intent has to be saved, not just made;
  that is the mutant.

**PublisherSettledProofs.** The first five hold for all operations in any order, nginx commands and crashes
included.
- `ViewsAreDurable`: what readers see while no handler is under way is on disk. `Shown` adds the one place
  where a handler can leave in the middle: before a request is answered with another release's result, the
  view is the disk.
- `RollbacksAreFresh`: a rollback read without the lock and still waiting names the live previous version
  whenever its revision is the live one. `Read` keeps its revision at or below the live one, and
  `RevisionNamesPair`'s invariant does the rest.
- `LatestIsSettled`: a `latest` that is not the recorded current version has an active release whose intent
  answers for it, unless an nginx command died half way or a recovery failed. The property speaks of moments
  without a handler as well as within one, so `Settled` adds which operations stand where (`Places`) and where
  the link is from step to step (`Pointed`): at the recorded version until the switch, at the candidate on the
  way forward, at the baseline on the way back.
- `RollbacksGoBack`: a rollback and a restore_of go to the version that was previous when they were accepted;
  after failures possibly to the current one, never to a third. The property speaks of the moment of acceptance,
  so two invariants speak of the moments before. `Rooted`: a record whose revision is the live one has a version
  of the live pair as its baseline, on disk and in the handler's copy, whatever failed. `Smooth`, while nothing
  failed: one that succeeded has the previous version, a release that nginx commands go on with has succeeded or
  is the active one, and while an nginx command is at work no active release has its intent. The second
  half is false after failures (section 6), and it is the number of failures, not the bound on them, that the
  property and `Smooth` speak of.
- `CompletedAreServed`: when the live release is complete, nginx runs its version. This is what the three
  requests of the HTTP workflow (apply, nginx/test, nginx/reload) promise together, whatever they meet on the
  way. `Truthful` says who may be there when nginx runs something else than a complete record says: an active
  release with its intent on disk, or a `latest` that was moved away, which is noticed as `adrift`. An nginx
  command works on a state that was served when it came (`Delivered`, of the disk and of the copy, which differ
  after a failed save), and reloads the version that is current. That a staged or undone release completes
  nothing rests on `Rooted`: no record has a revision that is yet to be minted.

The other two have the hypothesis `AppliesOnly`: every publication is a whole application. That is `Runner.Apply`
(`runner.go:407`), kept for callers of the Go API; clients over HTTP get `Stage` and go on with nginx commands.
For those both properties are false: a staged release is recorded as current before nginx has it (that is what
stage is for), and finding 1. What holds for them is `CompletedAreServed`.
- `ThreeAgree`: with nothing pending, the recorded version, `latest` and what nginx runs are the same.
- `SkippedAreServed`: what is answered skipped is what nginx runs.
- Both follow from `Served`, on top of `Settled`: which operations there are (`Applying`), and what is loaded from
  step to step (`Loaded`). Between a reload and the commit, what nginx runs is not the recorded version, and what
  makes up for it after a crash is that the active release has its intent on disk.

**PublisherRegisterProofs.** The hypothesis is `NoCommands`: clients apply, stage, restore and roll back in any mix,
but send no nginx/test, nginx/reload or abort. That is the Go API without commands; over HTTP it is everything up
to the first nginx command. It is needed: the commands finish or undo releases that are decided, which
no register does, and findings 2 and 3 are what comes of it.
- `ReleasesImplementRegister`: `Publisher` implements `ReleaseRegister` under the mapping of
  `PublisherRefinement`. Each step is shown to be a step of the register or a stutter, from `Ordinary`. Its own
  parts are: at most the active release is undecided (`OnePending`); whoever is inside a transaction works on the
  active release, with a copy that readers could not tell from the disk (`Inside`); what `uncertain` is about to
  write is one register step away from the disk (`Unsure`), since the save that failed may have taken effect or
  not; a release that means to switch does so to what was asked for (`Chosen`); and what readers are shown early
  is shown only by a Runner that gave up (`Viewed`). The mapped property alone says nothing about the copy or the
  views, which decide what is written or answered next.
- `UnfinishedAreActive` and `AnswersAreDurable` are `OnePending` and `Kept` of the same invariant. `Kept` follows
  from the steps of the register: none takes back what was answered with success.

**SnapshotsProofs.**
- `TypeCorrect`: the directories and records, and a cleanup plan exists only while cleanup runs. It needs
  `Remembered`: no release that is staged, or active with a phase, is the empty one.
- `SwitchesAreChecked`: with any number of crashes and drifts, `latest` is only moved to a whole directory
  (`Vetted`: at the switch the candidate has been verified, and nothing in between touches it).
- `NeededIsKept`: nothing whole that may be returned to is harmed. Cleanup decides once what the newest are, and
  then removes others, so the number of manifests sinks while it works. `Tidy`: each snapshot on the plan has
  keep_releases newer ones that are not on it (`Spared`), so it never becomes one of the newest. That a snapshot
  outside the newest has that many inside (`NewestFill`) is the one counting argument: of those not among the
  newest take one that no other is newer than, by the well-founded order of finite sets.
- `LiveStaysWhole`: without drift, `latest` and the recorded current version are whole at every moment. `Safe`
  adds that a release that is discarding or rebuilding has no live directory in hand, and that a cleanup plan
  contains none; the first holds because a live directory would have verified.

**TargetsProofs.**
- `TypeCorrect`, with what a process does where (`Doing`): a release is in hand only of a request, adoption
  never reaches the overlap check.
- `OneOwner`: two homes, or two environments of one, never have a state for one directory. The property says
  nothing of markers, but rests on them. `Sound`: every state on a disk or in a view lies in a directory whose
  marker names its home and environment (`Belongs`), a marker that is being written has one writer, and whoever
  is about to save has its marker (`Marking`); what a process writes back after the state directory was lost it
  has in its views (`Remembered`). A marker is never removed or rewritten, so this survives every crash.

**TargetsApartProofs.**
- `Apart` and `OneTarget`. Both checks are made against views, before the save; the disk may have changed since
  they were loaded. `Sorted` closes the gap: who is inside a section holds the lock of its home (`Held`), and
  its views then cover the disk (`Fresh`), also when the disk was lost in between, but for the one record that
  a failed save may have left; so what was found apart (`Checked`) or unused (`Unused`) in the views is so on
  disk when the save comes. Views are apart too, which is what makes a lost state that is written back
  harmless.
- `PendingInReach`. The check at the end of startup is made against views and against one configuration; other
  services go on saving. `Reach`: what a process is busy with is in reach of the configuration, so nothing out of
  reach is ever saved; a state out of reach is therefore still what the views of every process say of it, and
  the check has seen it. It needs the configuration to be fixed while a process runs.
- `UnknownAccounted`. `Accounted`: states and the views they may be overwritten with know what is in their
  directory (`Known`), and a release is on record before it builds. That building in one directory disturbs no
  other state rests on the markers of `Sound` and the lock of `Sorted`.

**BatchClientProofs.** `TypeCorrect`, `FileFirst`, `OneAfterTheOther`, `Everywhere` and `ForeignStays`, for any
number of nodes, runs, faults and foreign deployments, from one invariant.
- `Noticed`: a result that the client holds, waits for or has filed is no better than what the node has
  (`Genuine`), and a complete one means that nothing is left to do there (`Sane`). Results cross the network,
  the client's memory and its file, in which they outlive it; each station has its part.
- `Written`: before a batch there is nothing in the file; a node still marked prepared has no result and
  nothing to undo; before the client is busy with a node the file has it (`Engaged`). A late call of an earlier
  run is covered, since an entry never goes back to prepared.
- `Ordered`: a node whose entry is not prepared, or to which the update has come, has every node before it
  activated. `Rolling` itself is not inductive: it says nothing of the client that is about to send.
- `Foreign`: the revision that the batch goes by is no newer than the node's, and strictly older once another
  deployment is there, so the compare-and-set of the node refuses.

Every safety property that a passing run checks is stated by a theorem. Only model-checked:
- liveness (`ShutdownEnds`, `RunningIsResolved`, `Ends`), which is beyond this prover, as is ENABLED;
- the violations of section 6, which are behaviours and not theorems.

Induction over data and RECURSIVE operators are out of reach too; no module here needs them. Where an argument
asks for a largest element it takes it from the library's theorem on well-founded orders.

## 5. Properties

Each is stated with a comment in its module. Those worth knowing first: `LinkMatchesRecord`, `WriteAhead`,
`RevisionNamesPair`, `LatestSettled`, `CompletedIsServed`, `RollbackIsFresh` and `RollbackToPrevious` (Publisher), `NothingLeaks` (NodeLock),
`LiveIsWhole` and `RetainedKept` (Snapshots), `OwnedByOne`, `Disjoint` and `UnknownIsMarked` (Targets),
`WrittenFirst` and `Rolling` (BatchClient), and `ImplementsRegister` (PublisherRefinement), which says of whole
applications what a client can rely on in one formula.

## 6. Findings

Six places where the code does something else than a document, a comment or the code around it says. Each has
a run whose counterexample shows it; `PROJECT.json` quotes the lines.

1. `skipped`: a staged release whose last save failed, retried, is answered skipped ("already reloaded")
   although nginx never loaded it.
2. `abort`: A, B, A staged as three releases; after the first one completes, abort of the third undoes it,
   since commands look for the commit, not the release.
3. `unfinished`: a request answered with another release's result leaves its own record running, and nothing
   ends it.
4. `cutshort`: an abort that dies after it moved `latest` back is accepted by startup: `latest` and the record
   differ, without a mark.
5. `superseded`: a takeover whose save and whose `uncertain` save both fail leaves its view behind: the blocked
   Runner answers the superseded release failed, and after a restart startup commits it and answers succeeded.
6. `batchunknown`: a lost answer of nginx/test or nginx/reload leaves the node's phase unknown and its result
   succeeded; the restoration starts without asking.

The passing properties are stated so that they say exactly what holds beside these: `SkippedIsServed` holds for
whole applications, `UnfinishedIsActive` without nginx commands, `LatestSettled` names the nginx commands as the
exception, and `AnsweredIsDurable` leaves out the answer "failed".

Their limits: `LatestSettled` says that startup can tell from the active release where `latest` should be. It
does not say that an nginx command leaves the mark of another release alone (it does not, finding 3), nor that a
completed release is never marked again (it is, when its directory cannot be opened, `runner.go:941`).
`UnknownIsMarked` says that the mark is set, not that it keeps anything from happening. `AnsweredIsDurable` in
`publish` covers whole applications, where no release waits for nginx commands, so `AnswerResumable` is not
reached there; `commands` reaches it, and the run `unfinished` shows what comes of it.

### Met while modelling, without a run

- A marker that was created and not written (a crash, or an error of the write, at `ownership.go:25-38`) makes
  every later claim of the directory fail. A dynamic target can then not be registered; an explicit one keeps
  the service from starting until somebody removes the file. `Targets` has these states; its safety
  properties hold in them.
- Adoption removes the legacy directory while `latest` points at it (`migrate.go:108` calls `prepareSnapshot`,
  which finds no manifest), and its comparison of file counts (`migrate.go:146`) refuses afterwards, every
  time. The directory is rebuilt from Git, or is missing if that fails. Design v3:299 has the old directory
  kept.
- A release of the live commit whose snapshot did not verify, which then fails `nginx -t`, cannot be recovered,
  and is brought up by a later nginx/test succeeds with the live commit as its baseline (`runner.go:546-549`,
  `runner.go:936-960`), while the previous version stays what it was. A restore of it goes to the live commit,
  not to the previous version. It takes three failures; `RollbackToPrevious` says what is left then.
- `Resolve` returns a target in the views at once (`runner.go:239`), also one of another type that was
  registered for the same directory.
- The recovery mark that registration sets on a directory with unknown files is cleared by the first release
  that takes over; if it fails, its restore removes the `latest` that was there. Design v3:299 and `README.md:246`
  say that unknown files are not published over.
- Design v3:226 and v3:316 and `docs/request-targets.md:168` have recovery_required block new publications; the
  code lets the next one take over (`runner.go:369-381`), as its comment says. `Publisher`, `Snapshots` and
  `Targets` model the takeover.
- Design v3:216 preserves a `latest` that is neither candidate nor baseline; recoverStartup restores the baseline
  (`runner.go:1223`).
- A repeated nginx/reload of a completed release whose directory cannot be opened marks that release
  recovery_required and active (`runner.go:941-944`); the final result that v3:114 has replayed as it is on
  record is gone until startup or another release settles it.
- An error while verifySnapshot reads an intact snapshot, a moment without file handles for one, makes
  `prepareSnapshot` remove that snapshot and build it anew (`apply.go:180-193`), the live one too.
- A release by tag of the commit that is live from a branch is not skipped, as its source differs
  (`runner.go:596`, `docs/request-targets.md:105`); it commits with the same commit as current and previous.

## 7. Not modelled, and what is left

Not modelled, and why:
- HTTP API: decoding, authorization and the IP filter decide before the Runner is called and keep nothing. The
  request slots are a counting channel that is taken without waiting and given back by a deferred call; what
  they could break (a request that does not end) is `ShutdownEnds` of `NodeLock`.
- Request validation and identities: pure checks on strings, at the grain of characters.
- Git, ORAS and archives: work in private directories on bytes and paths; for the transaction each is a step
  that succeeds or fails, before anything is touched.
- Process runner: its effect, an error reported after the command took effect, is an outcome of each nginx step.
- Metrics, logging: nothing reads them back. CI and packaging: shell around curl and oras, whose order of calls
  is one of the orders `Publisher` allows.
- In modelled parts: shared assets and their retention, older directory layouts, schema checks of Load, path
  safety, artifact digests and the client's file lock.

Left for later, in this order:
1. `Fleet`: `BatchClient` over one `ReleaseRegister` per node, so that the nodes' promises are the refined ones;
   then what "restored" promises, and whether a batch is always recoverable (two hazards wait for that).
2. The live directory under drift (`apply.go:192` against section 7.1 of the design) as a run of its own.
3. Shared assets and their retention, as an extension of `Snapshots`.
4. Pure algorithms against reference definitions: semantic checks of requests, the retention rule.
5. Proofs: what nginx commands leave of the register. A register whose decided releases may be finished, failed
   or undone by their own commands would say it, and `Publisher` with all operations should implement it.

## 8. Running the checks

    tlc -workers 2 -config MCPublish.cfg MCPublisher
    tlapm PublisherProofs.tla

Every configuration is listed in `PROJECT.json` with its module. Passing runs take from seconds to about three
minutes, the proofs of the `Publisher`, `Targets` and `BatchClient` modules minutes each.
