# A TLA+ model of Nimbo's sync engine

Nimbo is a Nextcloud sync client: one Go engine (`internal/`), a command line (`cmd/nimbo`), a
Windows desktop application (`cmd/nimbo-gui`) and an Android app over a binding (`mobile`,
`android`). This directory models the part on which files depend: what a sync pass decides and does
to both sides, the loop that decides when passes run, the lane in which long transfers outlive
the pass that planned them, the transfers themselves, the folders a user adds, removes and moves
meanwhile, and the write-back of on-demand files on Windows. TLC checks the modules on small
instances; TLAPS proves safety properties of seven of them for instances of any size.

## 1. Inventory

What the program consists of, the state each part keeps, how the parts meet, and what makes each
correct. `PROJECT.json` lists every component with its files.

| component | state | operations | what is hard | correct means |
|---|---|---|---|---|
| **sync pass** (`engine/diff.go`, `rename.go`, `transfer/executor.go`, `resolve.go`; `agent.SyncOnce`, `syncRemoteDelta`, `SyncPaths`) | the folder, the server, the baseline rows, the list of conflicts | scan, three-way diff, rename matching, moves, transfers, conflicts, deletions, baseline writes; the user's choice of a conflict | other programs and other clients go on writing; a pass works from a listing that is old by the time it acts; crash between an effect and its row | no version is destroyed unseen; what is taken for synced is; both sides end up the same |
| **scans** (`engine/discovery.go`, `local.go`, `agent/checkpoint.go`, `maintainDirBaselines`) | folder rows, checkpoint | PROPFIND descent pruned by folder ETags, local walk | a folder stamped clean hides what is still to be done beneath it | a pruned scan finds what a whole one would |
| **damage guard** (`syncguard`, `agent/damageguard.go`, `statereset.go`), **detached shares** (`engine/detach.go`, `agent/detach.go`) | held pass, approvals; list of parked copies | hold, review, approve; keep, remove | a stale approval; telling an unshare from a delete | mass loss is never mirrored unasked; a copy is never deleted for a lost share |
| **continuous sync loop** (`watch/*`, `agent/inuse.go`) | events channel, nudges, the window being collected, retry and backoff, the hourly full pass | debounce, local pass, server pass, poll, overflow, user's sync, restart | timers race events; lost events; failures that eat a signal; pause | every change is owed to somebody until it is synced; a failed one is tried again |
| **long-transfer lane** (`agent/lane.go`) | queue, running, parked, prefs, timers, marks on running jobs | add, first, prefer, park, unpark, pause, resume, stop, stopPair, close | one mutex, but cancelled attempts return later; timers fire late; a stopper waits unlocked | a job is in one place and told once; workers are never idle; `stop` keeps its promise |
| **the engine's folders** (`agent/agent.go`, `lanejobs.go`, `lanerules.go`, `relist.go`, `cmd/nimbo-gui/move.go`) | configured pairs, watchers, in-flight marks, clone status | add, remove, hold back, move a folder; first sync; jobs for the lane | a cancelled pass goes on for a while; marks cleared by a late `done`; a crash between relocating and renaming rows | no work of an old folder touches a new one; nothing undone is taken for done |
| **chunked upload, resumed download** (`transfer/upload.go`, `download.go`, `oneupload.go`, `inuse.go`, `transport/chunked.go`) | upload session on the server, `.nimbo-part` file | chunks, retries, assembly, polling, Range | lost and late answers, sessions left by earlier attempts, files written while they are read | the assembled file is what was read |
| **on-demand files** (`vfs/watcher_windows.go`, `cfapi`) | placeholders, timers, suppressed names, claims on renames | write-back, refresh, pin, free, rename in both directions | the driver's own notices, twice or lost; stamps and marks race the programs | no version is lost; an edit is always on its way |
| document locks (`officelock`, `agent/lockmgr.go`, `lockwarn.go`) | locks held and seen | lock, renew, unlock, warn | crash while locked | a lock ends with its document |
| names and ignore rules (`engine/ignore.go`, `escape.go`, `forbidden.go`, `winname`) | none | pure functions of names | | a name maps to one name and back |
| baseline store (`state`) | SQLite tables | rows, checkpoint, clone state | | each write of a row is atomic |
| transport, push, account, config, policy, licence, update, log | sessions, files, registry | requests, settings | reconnection, routing | |
| desktop, shell, Android, CLI, packaging | user interface | | | |

How they meet: the watcher feeds **the loop**; the loop starts **passes**, of three kinds: a full one
(`SyncOnce`), one over the server's changes (`syncRemoteDelta`), one over a few names (`SyncPaths`).
A pass scans, plans, asks the guards, and hands its largest transfers to **the lane**, where they end
with the same bookkeeping. Moving, removing or signing out of a folder stops the loop and `stopPair`s
the lane before it touches files. The user interface reads the list of conflicts a pass leaves, and a
choice writes the baseline row that makes the next pass do what was chosen. Pause stops the lane and
turns passes into no-ops. A virtual-files mount has a watcher of its own in place of the loop.

The hard behaviours of this code, each at its line, are the "hazards" of `PROJECT.json`.

## 2. Modules

| module | what it is | code |
|---|---|---|
| `Sync` | a pass over the files of one folder, request by request, with the world around it | `internal/engine`, `internal/transfer`, `internal/agent/agent.go` |
| `Tree` | a pass over folders in folders: pruned scan, plan, guards, execution order, folder rows | `internal/engine/discovery.go`, `internal/agent`, `internal/transfer/executor.go` |
| `Transfer` | one file's upload and download, piece by piece | `internal/transfer`, `internal/transport/chunked.go` |
| `Watch` | `runLoop`, the watchers feeding it, pause, `awaitClosed` | `internal/watch`, `internal/agent/inuse.go` |
| `Lane` | the lane, one action per locked section of `lane.go`, and one for each thing a goroutine does after it has let go of the lock | `internal/agent/lane.go` |
| `LaneLife` | what the lane promises passes: the life of a job | the comments of `lane.go`, as `Lane` implements them |
| `Folders` | the account's folders: operations, watchers, passes' outlines, jobs of the lane | `internal/agent/agent.go`, `lanejobs.go`, `lanerules.go`, `cmd/nimbo-gui/move.go` |
| `OnDemand` | the content of one on-demand file | `internal/vfs/watcher_windows.go` |
| `OnDemandNames` | its name: renames, moves, deletions of both sides | `internal/vfs/watcher_windows.go` |
| `LaneProofs`, `WatchProofs`, `FoldersProofs`, `TransferProofs`, `SyncProofs`, `SyncLossProofs`, `TreeProofs`, `OnDemandProofs` | theorems about them | |
| `MC...` | small instances for TLC | |

Each part is a module of its own because it is checked at its own grain: `Sync` has a pass's requests one by one
and no folders, `Tree` has folders and a pass's actions whole, `Transfer` has the pieces of one transfer that
`Sync` has as one request, `Watch` has a pass as one step, `Folders` has what a pass leaves
undone. What one assumes another shows: that passes come again (`Sync`, `Tree` from `Watch`), that
an upload puts whole contents on the server (`Sync` from `Transfer`), that a job is in one place (`Folders` from `Lane`).

A definition marked `\* mutant` is a plausible slip of the definition after it. Nothing uses it; it
is there to show that the properties notice.

### Lane

State: `queue` (a set) with `order` (the relation "in front of", in place of the slice), `running`,
`parked`, `paused`, `closed`, `stoppedPairs`, `prefs`; per job the marks `requeue`, `stopped`,
`parking`, whether its set-aside has a time, its timer by generation. A timer's callback that has
fired and waits for the mutex is in `callbacks`, "current" or "stale" by the generation it was armed
with. What goroutines still have to do without the lock is state: `tails` (an attempt that has
returned: tell `done`, then close `ended`), `resuming` (unpark between its two locked sections),
`unparked` and `dropped` (taken out, not yet told), `caller` (where stop, stopPair, close are).
`result` is what `done` was told. `taken` and `recalled` are history, for the promises of `stop`.

An attempt that returns does so with any outcome, cancelled or not. `Workers` is a constant;
`PrefsMax` is `lanePrefsMax`; the loops over prefs and queue are quantifiers over `order`.

### Watch

The loop is idle, in its `select`, or in a pass. A pass is one step long with what can come of it:
success, failure of the local part, failure of the server part, or nothing because syncing is paused.
A channel of capacity one is a Boolean, `events` a set of at most `EventsMax` signals. Timers may
fire at any moment after they are armed; only the length of the backoff is a number, computed in
`Width` bits (`Wrap`) as the shift of a `time.Duration` is. `left` is history: the files that the
code, in one of four places, leaves to the hourly full pass.

### Sync

`local` and `remote` say what each name holds, `base` is the baseline row of each name, `ops` what
the pass under way has found of each name and then the action it has planned for it and how far that
has come. A content is the number of the write that made it: sizes and times tell versions apart, as
the code assumes. An ETag is a number that changes with every write and also without one (`Lock`:
`files_lock`, tags); a file id stays with a file through writes and renames; a content key (size, times)
vouches for a version only if the listing saw that very ETag (`ListedKey`).

Steps are as small as the code's effects: a request to the server, a rename on disk, a baseline row.
Between any two the user may save, remove or rename a file, another client may do so, the program may
end, a request may fail with its effect done or not. `List` then `Look` or `LookDelta` is the order of
full and server passes: the server first, the folder after. `SyncPaths` asks name by name the other way
round. The executor's order of moves, transfers, conflicts and deletions is `Starts`; transfers run
together, the rest one at a time. Refused steps (`Refused`) are the errors the code returns when
what it was to act on has gone.

Two things need saying of the properties:

- *What is no loss.* A version is lost when it is in no place any more, although nobody but the client
  replaced it. `superseded` remembers what its user or another client replaced (or chose to drop).
  `raced` remembers what the client overwrote or deleted that appeared after the client had looked: a save
  that lands between the listing and the PUT is overwritten on the server by design (the server keeps
  versions, the client asks no `If-Match`). `NothingLost` says nothing of those; `raced` grows only where
  the version overwritten is not the one the pass saw, and that is what the mutants probe. A file moved onto a name
  whose row, or whose action under way, knows that very version is also counted there (`KnownAt`).
- *What is taken for synced.* `SyncedIsEqual` allows a version of `raced`: `rebaselineFile` records
  what both sides are when it looks, also after a comparison of other bytes.

`"statFails"` is not among what happens in the runs: with it, and conflicts left to the user
(`Policies = {"ask"}`), TLC finds `NothingLost` violated, because `ApplyChoice` takes a request that
fails for a file that is not there (`resolve.go:232`) and "keep both" then overwrites the server's version.

Left out of `Sync`: folders (see `Tree`), ignore rules, files another program holds open, server locks
that hold an upload back, the hand-over to the lane, chunks and `.nimbo-part` files (see `Transfer`),
a 4xx refusal in `SyncPaths` that reads as absent, and a choice made while a scan is under way. "Keep the
newest" compares the order of writes, and "keep both" chosen by the user takes the place of a pass
(in the program it may run beside one).

### Tree

A directory's ETag is not a number but whether a row still has the server's ("fresh") or not ("stale"):
a change anywhere beneath makes every fresh row above it stale, and an ETag does not come back. `row`
has the content of a file both sides had, `dirs` the directories' rows, `saved` the checkpoint: what
a scan that came to nothing had listed, under the ETags it was listed under. The scan goes directory by
directory (`List`); where a row or the checkpoint still describes a directory it is taken over, which is where something could
be hidden. The local walk, the diff and the guards are one step after it; then actions are carried
out one by one, makers of folders first, deletions last, and `Stamp` is `maintainDirBaselines`.

`guard` is the damage guard (frozen, or exempt once), `refused` the server's bulk guards; `Weight`
is what they count. A share taken back (`unshare`) is parked in `parked` until the user resolves it, `away` is a
folder that is not mounted. `dead`, `late`, `asked`, `orphans`, `hid`, `granted` are history: what people replaced or
removed themselves, what they wrote while a pass was under way, the folders the user removed, contents of shares
taken back, rows that were fresh before what lies beneath was looked at, approvals not used yet.

`hid` names a real defect that the properties exempt: `makeLocalDir` (`executor.go:603`) records a
folder's ETag before its files are fetched, so a pass cut short leaves it fresh over files nobody has (`made` is what this
pass has recorded so). Two more ways to the same state came up when `TakenOverIsTrue` was to be proved: a folder that is already there when it is to be made
on the server (`webdav.go:755`), also above older rows; and a share given again while the copy of it is parked (`Resolve`, section 5).
`asked` and `late` exempt a removal the user asked for, and what others write into the folder before it goes; `late` is what has come
since the pass began. `known` has the rows a pass began with, `hurt` those of them it has removed or replaced.

Abstractions: siblings are handled in any order; MKCOL and the Stat after it are one step; only the
"newest" policy; ETag changes without content are left to `Sync`; the fixed ceiling of 1000 of the guard
is left out (the thresholds `Floor` and `Pct` are constants); no renames, no passes over one subtree;
while the local folder is not mounted, no pass that would remove nothing from the server (it would write beneath the empty mount point, and nothing
of that is in the folder when it returns).
A case with `full = FALSE` starts where a first sync found nothing and others have filled the folder since.

### Transfer

A content is a sequence of `Parts` pieces, each the number of the write that made it, so that a mixture of two
saves is a content no one wrote. `disk` has files by identity (an editor saves by putting a new file under the name),
`sessions` has what each upload session holds piece by piece, `landing` the assemblies a server goes on
with after its answer was lost. Several uploaders may be at the file, one at a time by `Gate`; what each has read,
compared and sent is `up[u]`. `part` is the `.nimbo-part`, `down` the download; what it verifies is what
it has hashed, the old half and the new. `Cases` says who uploads, how large the file is, what the server does with a checksum (`verifies`,
`computes`, `silent`) and what goes wrong, so that an instance is the union of smaller ones. `unseen` is a write that
leaves size and modified time as they were: nothing can notice it, and the properties exempt it.

A `.nimbo-part` that is already whole is left for good: its Range request starts past the end, the
416 is not handled (`webdav.go:590`), and no attempt removes the file; `Settles` says so.

### Folders

One folder of the server, synced into one of several local ones. `config` and `held` are the pairs file and
the pairs held back, `rows`, `clone`, `relist`, `stamp` what the store says of each pair, `watchers` the
engine's map, `loop` the goroutines that may outlive their entry in it, `stopped`, `job`, `mark`, `burst`
the lane as passes use it: a job's place, what its goroutines still owe, the in-flight marks, the progress runs. `op` is the user's
operation under way (add, remove, hold back, release, move), step by step; a move stops the watchers, empties the lane,
relocates, purges, rekeys, saves. A pass is its outline: what it planned, what is under way, what it left.
Taking a folder's jobs out of the lane is two steps, as in `Lane`: `TakenOut` marks those that run, `Released` waits for them. In
between a pause or a set-aside may send a marked job back (`Recalled`, `SetAside`, history `recalled`; section 5), and the operation goes on
with the job in the lane. `MoveAlone` exempts those jobs, and `ServerKept` the files that a download of theirs makes a pass delete on the server (`Misleads`).

One operation is under way at a time, as the user interface has it; `relistActive`, several
accounts and several remote folders are not modelled. Contents do not change: what goes wrong here is never an edit.

### OnDemand and OnDemandNames

`OnDemand` is one file, by content: `local` with its placeholder state, in-sync bit and stamp, `app` the program
that has it open, `pin`; `run` is `handleChange` step by step, `pass` is `Reconcile`, `sweep` the owed sweep. Whoever reads an online-only file,
a program, the conflict check that compares checksums or the upload itself, makes the driver fetch it (`Fetched`). `base.ver`, the version the recorded
ETag stood for, is history: the code does not have it.
`queue` has the armed timer, the upload held by a pause, the suppressed name, the pinned download. `Settles` says that nothing waits any more and both sides are the same; that a file marked "Free up space" ends
without its data is not promised, as one held open then is not tried again.
`OnDemandNames` is the folder of
names: `events` the notices of the directory watch, `calls` the renames the filter reports, `marks` the claims that
keep the two from handling one rename twice, `moves` the MOVEs under way and their retries. An upload is one step there.
A failed DELETE is sent again only where the code takes the failure for one that may heal (`EraseFails`); a failed MOVE is taken for done
if the server has a file at the destination, else tried again until its count is spent (`MoveFails`, `MoveMistaken`, `MoveGivesUp`), and a placement check
gives up on a MOVE that is being tried again (`Unplaced`). `Settles` exempts what follows the ways to leave the sides apart listed with
`seen.gaps` (a refused DELETE, a MOVE given up, and ten more), `NothingLost` the versions of `seen.excused`.

The timing assumption is in the guards: the debounce fires between notices that are seconds apart and
passes that are minutes apart (`Quick`); a pass's own MOVE is sent without waiting for its answer, which
gives more behaviours than the code.

## 3. Runs

| run | instance | checks | result |
|---|---|---|---|
| `lane_stop` | 2 jobs of one folder, 1 worker, 1 caller who stops, closes, forbids; preferences, set-asides with and without a time, pause | `OnePlace`, `WorkersBusy`, `StopTookTheRest`, `StaysOut` | hold |
| `lane_live` | 2 jobs, 1 caller, timed set-asides, fairness | `LivesAsPromised` (refinement of `LaneLife`), `NobodyWaits`, `QueueDrains`, `TimedComesBack` | hold |
| `watch_safe` | 1 file that can be held open; edits, overflow, user's sync, rule changes, restarts | `TypeOK`, `ChangesAreOwed`, `AskedIsTried` | hold |
| `watch_live` | 1 file; edits, pause, server changes, fairness | `EveryChangeArrives`, `FailedIsRetried` | hold |
| `sync_safe` | 1 file and its copy, 3 policies, all three kinds of pass, failures and crashes, 2 writes | `TypeOK`, `NothingLost`, `SyncedIsEqual`, no action without a next step (deadlock) | hold |
| `sync_live` | 2 files and 2 copies, renames on both sides, policies auto and newest, no Recycle Bin, answers without ETag, fairness | `Converges` | hold |
| `transfer` | 2 pieces, 2 uploaders, 8 cases of what goes wrong, fairness | `TypeOK`, `Whole` (on the server, on disk, and nothing good spoiled), `SyncedIsSame`, `Settles` | hold |
| `tree` | a folder with a file and a folder with a file, 8 cases, fairness | `TypeOK`, `TakenOverIsTrue`, `NothingLost`, `MuchIsApproved`, `CopyStays`, `Converges` | hold |
| `folders` | 2 local folders, 2 files, one of them large, 2 operations, 1 incident (a failure, a crash, a job sent back while it is stopped) | `TypeOK`, `MoveAlone`, `NothingStays`, `SettledIsDone`, `WatchedAsConfigured`, `ServerKept` | hold |
| `folders_claim_move` | a crash while a move across volumes removes the original | `ServerKept`, what `moveSyncRoot`'s comments say | violated |
| `ondemand` | 1 file, 9 cases, fairness | `TypeOK`, `NothingLost`, `EditsAreOwed`, `MirrorIsTrue`, `Settles` | hold |
| `ondemand_names` | 2 names in one folder or in two, 2 acts, fairness | `NothingLost`, `Settles` | hold |

The violated one is a disagreement of the code with its own comment ("findings" of `PROJECT.json`): the
configuration is said to flip only after the relocation, "so a crash mid-move leaves the original intact";
across volumes the relocation ends with removing the original, and a crash within it leaves a configured folder that has
lost files, whose next pass deletes them on the server.

### Why these bounds

*Lane.* Every hazard of the lane is between one job, one other that waits for its worker, and a caller.
Two jobs and one worker give a queue behind a busy worker. Theorems cover every number of jobs, workers and stoppers.

*Watch.* Files do not interact in the loop but through the one window, retry and backoff they share, and each
is tracked by name; `EventsMax = 1` makes the channel full at once; one failure and "more" are what
the loop tells apart. `Base`, `Hour` and `Width` keep the proportions of 30 s, 1 h and 63 bits.

*Sync.* Two writes give each ordered pair of "mine" and "theirs", a conflict, or a version and its successor; with
a crash or failure at every step between. In `sync_safe` there is also one ETag change without a
write, but not where the user is asked, where choices multiply the states (`AskStill`). The copy `k`
is a file of its own: it is scanned, uploaded, and may be in conflict. `sync_live` has two
names so that there is something to rename. `EtagMax` and `IdMax` exceed what can be in use at once,
since numbers nobody holds are used again. Three writes and two names under failures are beyond TLC's reach in
minutes. No run of `Sync` disables the deadlock check: wherever a pass stands, its next step, its refusal
or its end is possible.

*Transfer.* Two pieces are the least that can be mixed, one of them sent before a change and one after; a session has one piece
more than the layout, for the leftover of another layout. Two writes give a mixture with a whole content before and after it. Each case joins the
troubles that meet in one hazard: writes into an open file with a resumed session, a second uploader with an unnoticed write, refusals
with leftovers, others' writes with lost answers and crashes.

*Tree.* One folder in another, with a file each, is the least tree with something to prune beneath something pruned;
`Floor = 3` and `Pct = 50` make three of four rows "much". Two or three acts, with one pass cut short anywhere,
make a row fresh and then what it hides change.

*Folders.* Two operations give remove-then-add, move-then-remove, hold-then-release, each against a pass of the old watcher and a job
of the old folder; two goroutines are alive at once when a watcher is stopped and started. One incident of each kind in turn; that a recalled job leads to a deletion on the server
takes two (section 5), and is found by a run with one operation.

*OnDemand, OnDemandNames.* A case has the troubles that race for the same file. Two acts at the names are an act of the user against
one of the server or of trouble, and a rename and its undoing. MOVEs to a name may have failed before (`Init`), so that one more
failure gives up; that a failed MOVE is taken for done is not counted as an act. With one failed MOVE more than the two acts (4.6 million states), which no run keeps,
`NothingLost` was found to hold, and `Settles` to need further exemptions: a second MOVE of a file whose upload after a 404 is still under way takes a new file's
copy from the old name.

### Fairness

*Lane*: goroutines run on, timers fire, an attempt returns (requests have timeouts, and a cancelled
context ends them). Nothing is assumed of users or passes; `QueueDrains` supposes that the lane stays
unpaused, `TimedComesBack` that the set-aside is not renewed for ever.

*Watch*: passes end, timers fire, and `select` picks at random among what is ready, so that a case that is ready
again and again is taken (strong fairness of `Poll`, `Retry`, `Fire`). The liveness
properties suppose that trouble ends: no pause, no failure, nobody editing.

*Sync*, *Tree*: a pass goes on (weak fairness of its steps), and the poll that `Watch` proves to come starts full
passes again and again (in `Sync` strong fairness of `List` and `Look`: other kinds of pass may come between).
`Converges` supposes that from some time on nobody edits, fails, crashes or chooses, and allows any number of it
before; in `Tree` also that the user approves what was held, and mounts the folder again.

*Transfer*, *OnDemand*, *OnDemandNames*: the program's own steps and the driver's notices go on, programs close
what they opened. Strong fairness of `Fire` in `OnDemandNames`: the debounce (seconds) fires between passes that are
minutes apart, though a pass disables it while it runs.

## 4. Proofs

Each theorem holds for all values of the constants that satisfy the module's assumption: any sets of names and
files, any number of jobs, pieces, writes, goroutines. The module, its theorems and the property each states:

| module | theorem | property |
|---|---|---|
| `LaneProofs` | `TypeCorrect`, `OneJobPerPathAlways`, `TimersCurrentAlways`, `UntimedStaysAlways` | `TypeOK`, `OneJobPerPath`, `TimersCurrent`, and `UntimedStays`, an action property (shown by proof alone) |
| | `OnePlaceAlways`, `WorkersBusyAlways` | `OnePlace`: a job is in one place and told once; `WorkersBusy` |
| | `StopTookTheRestAlways`, `StaysOutAlways` | what `stop`, `stopPair` and `close` promise, but for recalled jobs (section 5) |
| | `Implements` | `LivesAsPromised`: every step is a step or a stutter of `LaneLife` |
| `WatchProofs` | `TypeCorrect`, `ChangesAreOwedAlways`, `AskedIsTriedAlways` | `TypeOK`, `ChangesAreOwed`, `AskedIsTried` |
| `FoldersProofs` | `TypeCorrect`, `MoveAloneAlways`, `WatchedAsConfiguredAlways`, `NothingStaysAlways` | `TypeOK`, `MoveAlone`, `WatchedAsConfigured`, `NothingStays` |
| `TransferProofs` | `TypeCorrect`, `WholeAlways`, `SyncedIsSameAlways` | `TypeOK`, `Whole`, `SyncedIsSame` |
| `SyncProofs` | `TypeCorrect`, `SyncedIsEqualAlways` | `TypeOK`, `SyncedIsEqual` |
| `SyncLossProofs` | `NothingLostAlways` | `NothingLost` |
| `TreeProofs` | `TypeCorrect`, `TakenOverIsTrueAlways`, `MuchIsApprovedAlways`, `NothingLostAlways` | `TypeOK`, `TakenOverIsTrue`, `MuchIsApproved`, `NothingLost` |
| `OnDemandProofs` | `TypeCorrect`, `NothingLostAlways`, `EditsAreOwedAlways`, `MirrorIsTrueAlways` | `TypeOK`, `NothingLost`, `EditsAreOwed`, `MirrorIsTrue` |

### Lane

Assumed is `LaneAssumption`: jobs are finitely many, each has a path, there is at least one worker.
The inductive invariant is `IInv == TypeOK /\ OnePlace /\ OneJobPerPath`. `OneJobPerPath` alone is
not inductive: a paused job returns to the queue, and that adds no second job for its path only
because it was nowhere else (`OnePlace`). `OnePlace` needs to say of goroutines who owes a
`done` and that a stopper who owes one is still in its stop. `WorkersBusy` is inductive beside
`TypeOK`: each action either dispatches or frees no worker and adds nothing to the queue.
`TimersCurrent` rests on `IInv`: the timer is invalidated wherever its job leaves the parked list. For
the refinement the lemma `MovesNext` says where the jobs of each place may go in a step,
`Staff` builds the assignment of workers, and `LifeStep` puts them together.
For `StopTookTheRest` a stopper's account is added (`StopInv`): every job it took is told, or owed a `done` by it or
by an attempt it waits for; a job it took goes back only with a mark made after it (`recalled`). `StaysOut` needs
`OutInv`: what a stopped pair, or a closed lane, still has is leaving and has been marked.

### Watch

`AskInv` adds to `AskedIsTried` where the request is while the loop is in a pass or holds it back; `OweInv` says of each file a program
changed that a signal, the window, the pass, the retry, the wait for its closing or `left` has it, and what each of these implies for the timers that
will act on it.

### Folders

`TypeInv` types the variables and counts a progress run of a job at most once; `WatchInv` ties goroutines to the engine's map (a goroutine
without an entry is cancelled, but for one that lost its entry to another's exit, `strayed`); `LaneInv` says which jobs still owe what; `MoveInv` what a move at each
stage has already made impossible; `Marked` whose mark a path bears. `MoveAlone` follows from `MoveInv` and `LaneInv`, `NothingStays` from `Marked`.
What `MoveAlone` says of passes holds always. Of jobs it exempts two kinds: those that a pause or a set-aside sent back after the stop had marked them (`recalled`, and `Released`
lets the operation go on then), and, in the folder moved to, those of a watcher that has `strayed`: with one, the engine has lost count of a running pass.
`WatchedAsConfigured` supposes that none has.

### Transfer

The heart is that a stamp in use is never given to other content, so that the session an upload resumes, whose name is made of the stamp,
holds only chunks of the content it compares (`ChunksOk`), but for unnoticed writes. `UploadOK` says per step what an upload has read (`SourceOK`), hashed (`HashOK`, `SumOK`), what
its session holds (`SessionOK`), and at the end that what it takes for its own result is it, or that others' writes since have been noted (`TakenOK`). `LandOK` says it of assemblies whose answer was
lost, `DownOK` of the download's hash over both halves, `RemoteOK` of the server's file. Each is disturbed by few actions; lemmas
state who changes what (`LocalBy`, `NetBy`, `UpBy`, `DownBy`, `RowBy`), what an action makes of an upload (the `...Up` lemmas), and that what is not touched is kept.

### Sync

Assumed is `SyncAssumption`, with any subset of the troubles in `Happens`, so also the ETag that changes without a write, the answer without an
ETag, the failing Stat. The inductive invariant is `SyncInv == TypeOK /\ Etagged /\ Rows /\ OpRows`. `SyncedIsEqual` is about the
row of a name and the two files, and a row is written by a step from what it read earlier: so `Etagged` says that an ETag in use stands for
one content wherever it is held (the server's files, what a scan or a step read: `Carriers`), `Rows` that what a row says was here is the content
of whatever still carries its ETag, of its checksum and of its key, and `OpRows` what a step
between its read and its row may count on. Excused are two versions that a race made one row of (`Joined`, `Race`): an edit between the upload's read and its
row, a `rebaselineFile` whose Stat answers after a change, a file moved to a name whose step had read the very same version there.
`SyncInvStep` takes the actions in groups (`MovingInv`, `DownloadInv`, `UploadInv`, `ConflictInv`, `BothInv`, `ChoiceInv`, `ScanInv`, `PlanInv`, `WorldInv`), each by a lemma
that says what its kind of step leaves alone (`OneStep`, `EndStep`, `PassStep`, `WorldStep`).

`NothingLostAlways` has one hypothesis more: `"statFails" \notin Happens`. With it the property is false
(section 2): `ApplyChoice` then takes a file it could not ask for as not there. Everything else the world may do is in.
That every content is somewhere is not inductive: a content may be there and about to be overwritten. The invariant
`LossInv == SyncInv /\ Fresh /\ Stages /\ Covered /\ OpsOK` says of every content ever written that it is on record (superseded, raced or in the bin)
or *good* at some name: there, while no row of the baseline and nothing the pass has read takes it for known
(`NewHere`, `NewThere`), or on both sides (`OnBoth`). `Fresh` (no number is used before its write) makes a new content good;
`Stages` says what a pass holds of a name at each of its phases, that renames come before all else and that no two have a name or a
source in common; `OpsOK` says, of a listing, a look, a plan and a transfer, why what it will overwrite or remove is not the
only copy: it is what the row has, which is on record or was on both sides, or it is still there, or it has been renamed and is good at its new name.
The proof of a step shows that what was good stays so or goes on record (`Lasts`, `AllLasts`), once per action: `ActStep` and `DoneStep` for the actions of one name,
`StepLoss` with `OpStill` for renames and the conflicted copy, `ChoiceStep`, `ScanStep`, `PlanLoss`, and `WorldLoss` for the user and the other clients
(`HereKept`, `ThereKept`, `Carried`: what a change behind the pass's back leaves of what it counts on).
The proof made the history variable `raced` as small as the code allows: a rename excuses only a content that the pass under way, or the row, has for that very name (`KnownAt`).

### Tree

Assumed is `TreeAssumption`: any finite forest of folders and files, given by `Parent` and the closure `Above`; any cases and
thresholds. No induction over the depth of the tree is needed: that what is above a node is a chain, that a set of nodes has
topmost members and that each member is under one of them (lemmas `Chain`, `Least`, `Topmost`) follow from `Above` being finite, by sizes.

The inductive invariant is `TypeInv /\ TreeInv`. `ServerOK` says of the server that folders are there above what is there, and that a
checkpoint that applies holds the children the server has; `RowsTrue` that under a fresh row every row is what the server has. Neither is inductive alone: a
row becomes fresh at the end of a pass from what the scan was told, and that was told partly by rows and by the checkpoint. So `ScanOK`
says of the listings of a scan under way that they are closed upwards and, under an ETag that is still current, true, or a listing still waits for it;
`FreshTold` that a folder with a fresh row was told of, waits, or has nothing in it;
`PlanFits` that a plan is about what was listed; and `DoneTrue` that what an action is done with is known as it was told, unless
a problem above it keeps the folders from being stamped. `ParkedOut` keeps what a listing leaves out for a parked copy apart.
A change of the server makes stale every ETag above it, so that all of this still says the truth of what is left (`BumpInv`).

`MuchIsApproved` adds a number: rows already hurt, and those that what is pending may hurt, are together within what was weighed
(`GuardInv`); the plan counts a tree once (topmost deletions and the rows beneath), and no two pending deletions share a row.

`NothingLost` adds `LossInv`: every content is on a side, in the bin or on record (`Held`, `Sized`); a row's content that one side has replaced
is on record (`RowParted`); a folder that has a row and is not here was removed by the user (`AskedTrue`); and of a pass under way,
what the listings told and the server has replaced is on record (`RemoteParted`), what they did not tell is late, hidden or waiting
(`RemoteTrue`), and what is planned of a file or a folder was true when the pass looked (`PlanTrue`, `AskedPlan`). Its hypothesis `HasBin` is used once, in
`DeleteLocal`: without a bin, what a program saves between the look and the removal is gone, as the code has it (`executor.go`, `applyDelete`).

### OnDemand

Assumed is `OnDemandAssumption`: any cases, any bounds on writes and ETags, checksums and upload times reported or not. `WritesMax`
bounds only how many writes a behaviour has, `EtagMax` how many ETags are used over again; no property depends on them.
`EditsAreOwed` is not that no edit is ever ignored: its comment lists the cases in which the code does ignore one.

The three properties hold together or not at all, and none is inductive. The invariant is `Inv == TypeOK /\ Shapes /\ Fresh /\ Names /\ Kept /\ Mirrored /\ Owing`:

- `Shapes`: what a placeholder, a run and a pass look like at each step. `Fresh`: no version is later than the last write, so that a new one is new to everybody.
- `Names`: an ETag that the baseline, the listing of a pass or an upload's answer remembers names one version. An ETag that is used again is one that
  nobody remembers (`NewEtags`); this is why an equal ETag may be taken for equal content.
- `Kept` adds to `NothingLost` why each of the steps that destroy something may do so: a clean copy may be freed or removed because its version is also
  elsewhere (`CleanIsSafe`), a listed version may be recorded because it is safe or shown (`ListedIsSafe`, `RecordedIsHere`), and the server's version may be
  written over because this file has it: the baseline knows it (`KnownIsHere`), or the conflict check has just looked (`CheckedIsHere`), or the bytes are on
  their way (`ReadIsHere`, `LandedIsHere`). The time after the check is `seen.since`; `Theirs` in that time is the exception of `NothingLost`.
- `Mirrored` says what a clean copy has that a run or a pass is about to record (`SentIsHere`, `RecordedMirrors`, `MarkedIsThere`), and that an edit made
  while its predecessor was sent is a version no one has listed (`EditedIsNew`).
- `Owing` splits `EditsAreOwed`: `Noticed`, what brings up an edit at once, and `Coming`, a pass that will read the folder because its ETag differs, a sweep is owed or
  it is the first. `ReadAsIs` says that a pass that has looked acts on the file as it is, or the change has a notice; `DirIsDue` that a folder's ETag is
  recorded only for what was listed after; `HeldIsKnown` that an upload held by a pause is let go.

`KeptNext`, `MirroredNext` and `OwingNext` each take the groups before them as given, one step per action; the lemmas `...Does` say field by field what an action does.
The proof corrected the model: an upload reads an online-only file by fetching it; the conflict check fetches one it compares;
a pass that removes or frees a file while its upload is under way takes a version that only the upload still had; and a pass that records a listed version
is excused unless the file ends as an online-only one that shows it.

### What stays with TLC

- Liveness (`Converges`, `Settles`, `EveryChangeArrives`, `FailedIsRetried`, `NobodyWaits`, `QueueDrains`, `TimedComesBack`): fairness and
  ENABLED are out of the provers' reach. Of `LivesAsPromised` the safety part is proved, and that is all `LaneLife` says.
- `Folders.SettledIsDone` and `ServerKept`: about the whole history of a folder (what was deleted by the user, fetched, recorded, over
  several incarnations); an invariant for them has not been found.
- `Tree.CopyStays`. In the instance, two folders deep, it holds. For any depth the proof would have to exclude a row whose folder
  has none: a scan that takes over a folder walks the rows' children (`addBaselineSubtree`) and would leave such a row out, and the copy under it would
  be taken for new. No reachable state with such a row was found, and no invariant that excludes it.
- All of `OnDemandNames`: the notices of one rename come in any order and twice, and what each combination of them leaves of the claims, the moves and the retries
  has no invariant shorter than the list of the combinations; the instance has them all for two acts.

## 5. Disagreements seen

What came up while the code was translated, and is kept by the models as the code has it:

- `agent.go` around 4095 and 4558 against `executor.go:603` and `webdav.go:755`: a folder's ETag is recorded before its files are fetched
  (`Tree.hid`). Consequences TLC shows without the exemption: a hidden server file is overwritten by an upload under its name; a folder
  removed here is deleted on the server with a newer version in it.
- `ResolveDetached` against `agent.go:4088` ("a stamped ancestor must never hide unfinished work"): while a copy is parked its path is ignored
  (`detach.go:44`), so a share given again under its name is in no listing, and the folders above it are stamped with ETags that cover it. Once the user has settled the
  copy, the share is pruned over until something changes in it. In the model such a share is put in `hid`.
- `executor.go:606`: `makeRemoteDir` takes a 405 for success and records the folder's present ETag, though older rows may lie beneath it, which then
  count as the server's.
- `executor.go:428`: a folder another client deleted is removed here although an edited file in it could not be uploaded for lack of the parent.
- `maintainDirBaselines` writes a row for a folder that its own pass has deleted on the server.
- The exemption of the damage guard is spent by the next pass with actions, also one another guard refuses; conflicts settled by
  download are not weighed.
- `resolve.go:232`: a failing Stat reads as a file that is not there (see `Sync` above).
- `agent.go:4255`: a pass with nothing to do leaves the list of conflicts of the pass before it.
- `watcher_windows.go:1957`: a suppressed name swallows a user's own change within ten seconds of a pull; 2381: a pinned download
  that failed is not asked for again while its folder stays unchanged; 1507: a pulled rename records the listing's new ETag for old bytes;
  3228: an overflow's sweep is used up by a listing that fails.
- `agent.go:5453` ("a move must not overlap a large transfer either") and `lane.go:331-339` against `lane.go:279-290`: a pause (and its end) or a set-aside that
  comes while a stop waits for the running jobs it has marked sends such a job back to the queue or among the parked, and the stop returns with the job in the lane
  (`Lane.recalled`, `Folders.recalled`). If the folder is being moved, a recalled download lands in the old place after the relocation, and its row is rekeyed to the new one: the next pass
  takes the file for deleted here and deletes it on the server. TLC shows it (`ServerKept`) once `Misleads` is `{}`, `Happens = {"fail", "recall"}` with
  one operation and two incidents (the first sync's download fails, so that the lane gets it; a recall).
- `watcher_windows.go:2581`: a DELETE that failed in a way that is not retried is forgotten: the file comes back with the next pass.
- A MOVE of an on-demand file overwrites what is at the destination (`Overwrite: T`). The count of its failures is reset only when a MOVE to that name succeeds
  (`watcher_windows.go:3073`), so that later ones have fewer attempts. Once it is given up, a new file saved under the old name is uploaded over the only copy of
  an online-only file. A failed MOVE is taken for done whenever another file is at the destination (2982); one done again, or found at the server by a pass before its answer is, may take a
  file moved on meanwhile; and the baseline it carries may not be that of the bytes it moved.
- `webdav.go:590`, `lanejobs.go:55`: a whole `.nimbo-part` is never finished.
- `agent.go` (watchers): a goroutine's exit removes the entries of the one started after it (`Folders.strayed`); `ReloadPairs` with an older list restarts a
  removed folder's watcher; adding and saving pairs is not locked against another; a late `done` clears the mark of a newer job.
- `RemoveSyncFolder` keeps the baseline: a folder added again is not new, and files gone meanwhile are deleted on the server.

## 6. Plan

- A proof of `Tree.CopyStays`, and proofs about `OnDemandNames`.
- Document locks (`lockmgr.go`): a lock ends with its document, also across a crash. The runs are at the number that can be kept
  checked in reasonable time, so that it would take the place of another.
- Passes over a few names (`SyncPaths`) and over the server's changes in `Tree`; selective sync; several accounts.

Not planned, as calls into an operating system, user interface, or pure functions of names: see the
notes of the components.
