------------------------------ MODULE OnDemand ------------------------------
(***************************************************************************)
(* The content of one file of a virtual-files mount (internal/vfs/         *)
(* watcher_windows.go): a placeholder that is online-only or holds its     *)
(* data, edits that are written back (handleChange, with the conflict      *)
(* check of cmd/nimbo-gui/service.go), passes that bring the server's      *)
(* versions (Reconcile), pins and "free up space", the pause, and the      *)
(* program's end at any moment.  Renames and the user's own deletions are  *)
(* in OnDemandNames.                                                       *)
(*                                                                         *)
(* A version is the number of the write that made it; it stands for the    *)
(* bytes, for their size and modified time, and for the content key.       *)
(* The file is in a folder below the root, so that a pass passes over it   *)
(* as long as the folder's ETag stays what it was.                         *)
(***************************************************************************)
EXTENDS Integers, FiniteSets

CONSTANTS
  Keys,        \* the server reports upload times: a new ETag on old content is known
  Sums,        \* the server reports checksums
  Cases,       \* what may go on together, and how many writes
  WritesMax,   \* bound on the writes of programs and other clients, pauses and stray notices
  EtagMax      \* bound on ETags in use at a time

Trouble == {"open", "hold", "edit", "save", "theirs", "touch", "remove", "fail", "held", "overflow", "pause",
            "crash", "flatten", "jostle", "unpin", "pin"}

ASSUME OnDemandAssumption ==
  /\ Keys \in BOOLEAN /\ Sums \in BOOLEAN /\ Cases \subseteq [what: SUBSET Trouble, max: 0 .. WritesMax]
  /\ WritesMax \in Nat /\ EtagMax \in Nat \ {0}

VARIABLES
  local,     \* the file: its kind, version, in-sync bit, unsynced data, stamp
  app,       \* the version a program has in hand, and whether it holds the file open
  pin,       \* "Always keep on this device" or "Free up space"
  server,    \* the server's version (0: none), its ETag, its folder's
  parked,    \* versions set aside as conflicted copies
  base,      \* baselines: the file's ETag and content key, the folder's ETag; history: that ETag's version
  events,    \* "told": a change notice is waiting, "lost": the buffer overflowed
  queue,     \* timer armed, upload held by a pause, path suppressed, pinned download
  run,       \* handleChange
  pass,      \* Reconcile
  sweep,     \* the first pass is done; the folder is owed a sweep
  paused, told,   \* the pause, and whether PauseChanged has been called for it
  calm,      \* trouble and writes have ended
  written,   \* how many writes, pauses and stray notices
  can,       \* what goes on in this behaviour, one of Cases
  seen       \* history, see NothingLost and EditsAreOwed

file  == << local, app, pin >>
sync  == << server, parked, base >>
work  == << events, queue, run, pass, sweep >>
world == << paused, told, calm, written, can >>
vars  == << local, app, pin, server, parked, base, events, queue, run, pass, sweep,
            paused, told, calm, written, can, seen >>

Versions == 0 .. WritesMax + 1   \* 0: none, 1: the first
Etags    == 0 .. EtagMax
Kinds    == {"none", "plain", "stub", "full"}
Listing  == [ver: Versions, etag: Etags]
NoListing == [ver |-> 0, etag |-> 0]
Idle   == [at |-> "idle", stamp |-> 0, data |-> 0, etag |-> 0, again |-> FALSE, stop |-> FALSE]
NoPass == [at |-> "idle", full |-> FALSE, known |-> 0, kind |-> "none", stamp |-> 0,
           list |-> NoListing, ok |-> TRUE]

RunSteps  == {"idle", "look", "restore", "settle", "check", "park", "put", "sent", "landed",
              "mark", "hold", "recheck"}
PassSteps == {"idle", "read", "list", "act", "restore", "compare", "update", "drop", "record",
              "remove", "create", "pins", "end"}

TypeOK ==
  /\ local \in [kind: Kinds, data: Versions, sync: BOOLEAN, mod: BOOLEAN, stamp: Versions]
  /\ app \in [ver: Versions, holds: BOOLEAN] /\ pin \in {"none", "pinned", "unpinned"}
  /\ server \in [ver: Versions, etag: Etags, dir: Etags] /\ parked \subseteq Versions
  /\ base \in [etag: Etags \ {0}, key: Versions, dir: Etags, ver: Versions]
  /\ events \subseteq {"told", "lost"}
  /\ queue \in [timer: BOOLEAN, held: BOOLEAN, hushed: BOOLEAN, fetch: BOOLEAN, later: BOOLEAN]
  /\ run \in [at: RunSteps, stamp: Versions, data: Versions, etag: Etags, again: BOOLEAN, stop: BOOLEAN]
  /\ pass \in [at: PassSteps, full: BOOLEAN, known: Etags, kind: Kinds, stamp: Versions,
               list: Listing, ok: BOOLEAN]
  /\ sweep \in [done: BOOLEAN, owed: BOOLEAN]
  /\ paused \in BOOLEAN /\ told \in BOOLEAN /\ calm \in BOOLEAN /\ can \in Cases /\ written \in 0 .. can.max
  /\ seen \in [heads: SUBSET Versions, excused: SUBSET Versions, since: BOOLEAN,
               gaps: SUBSET {"muted", "dropped", "left", "torn"}]

\* An online-only placeholder that mirrors the server, seen by an earlier start of the program.
Init ==
  /\ local = [kind |-> "stub", data |-> 1, sync |-> TRUE, mod |-> FALSE, stamp |-> 1]
  /\ app = [ver |-> 0, holds |-> FALSE] /\ pin = "none"
  /\ server = [ver |-> 1, etag |-> 1, dir |-> 1] /\ parked = {}
  /\ base = [etag |-> 1, key |-> IF Keys THEN 1 ELSE 0, dir |-> 1, ver |-> 1]
  /\ events = {} /\ run = Idle /\ pass = NoPass
  /\ queue = [timer |-> FALSE, held |-> FALSE, hushed |-> FALSE, fetch |-> FALSE, later |-> FALSE]
  /\ sweep = [done |-> FALSE, owed |-> FALSE]
  /\ paused = FALSE /\ told = TRUE /\ calm = FALSE /\ written = 0 /\ can \in Cases
  /\ seen = [heads |-> {1}, excused |-> {}, since |-> FALSE, gaps |-> {}]

May(x) == x \in can.what /\ ~calm
\* One of the disturbances that are counted.
Once == written < can.max /\ written' = written + 1
Placeholder == local.kind \in {"stub", "full"}
HasData     == local.kind \in {"plain", "full"}
\* cfapi.Inspect: the in-sync bit is a filter, the data decides.
NeedsUpload == local.kind = "plain" \/ (Placeholder /\ ~local.sync /\ local.mod)
Clean       == Placeholder /\ ~NeedsUpload

\* Numbers nobody remembers: the least, so that they are used again.
Least(S) == {n \in S : \A m \in S : n <= m}
NewEtags == Least((1 .. EtagMax) \ {server.etag, base.etag, run.etag, pass.list.etag})
NewDirs  == Least((1 .. EtagMax) \ {server.dir, base.dir, pass.known})

\* A write makes a new version, in place of those in V.
Write(V) ==
  /\ Once
  /\ seen' = [seen EXCEPT !.heads = (@ \ V) \cup {written + 2}]
Latest == written' + 1
Excuse(V) == seen' = [seen EXCEPT !.excused = @ \cup (V \ {0})]

-----------------------------------------------------------------------------
(* Programs and the user *)

Told == events' = events \cup {"told"}

\* Whoever reads an online-only file is given what the server has now.
Fetched == IF local.kind = "stub" THEN [local EXCEPT !.kind = "full", !.data = server.ver] ELSE local
CanRead == HasData \/ (local.kind = "stub" /\ server.ver # 0)
\* A program reads the file: the filter fetches an online-only one.
Opens(holds) ==
  /\ May("open") /\ app.ver = 0 /\ (holds => May("hold"))
  /\ CanRead
  /\ local' = Fetched
  /\ app' = [ver |-> local'.data, holds |-> holds]
  /\ UNCHANGED << pin, sync, work, world, seen >>
Closes == /\ app.ver # 0 /\ app' = [ver |-> 0, holds |-> FALSE]
          /\ UNCHANGED << local, pin, sync, work, world, seen >>

\* What the file stands for: an online-only one for the version it shows and the recorded one.
Shown == {local.data} \cup (IF local.kind = "stub" THEN {base.ver} ELSE {})
\* It saves what it has in hand, over what is there: in place, where the filter clears the
\* in-sync bit; or with a new file put under the name.
Saves(f) ==
  /\ Write({app.ver} \cup Shown)
  /\ local' = f /\ app' = [app EXCEPT !.ver = IF @ = 0 THEN 0 ELSE Latest]
  /\ Told /\ UNCHANGED << pin, sync, queue, run, pass, sweep, paused, told, calm, can >>
Edit ==
  /\ May("edit") /\ app.ver # 0 /\ HasData
  /\ Saves([local EXCEPT !.data = Latest, !.stamp = Latest, !.sync = FALSE, !.mod = local.kind = "full"])
Save ==
  /\ May("save") /\ ~app.holds /\ (app.ver # 0 \/ local.kind = "none")
  /\ Saves([kind |-> "plain", data |-> Latest, sync |-> FALSE, mod |-> FALSE, stamp |-> Latest])

\* A move there and back clears the in-sync bit of a file with no change in it.
Jostle ==
  /\ May("jostle") /\ Once /\ Placeholder /\ local.sync
  /\ local' = [local EXCEPT !.sync = FALSE]
  /\ Told /\ UNCHANGED << app, pin, sync, queue, run, pass, sweep, paused, told, calm, can, seen >>

Pins(p) ==
  /\ May(IF p = "pinned" THEN "pin" ELSE "unpin") /\ pin = "none" /\ Placeholder
  /\ pin' = p
  /\ Told /\ UNCHANGED << local, app, sync, queue, run, pass, sweep, world, seen >>

-----------------------------------------------------------------------------
(* The server and its other clients *)

Changed(v, e, d) == server' = [ver |-> v, etag |-> e, dir |-> d]
\* The write came after an upload's check of the server's copy.
Meanwhile == seen.since \/ run.at \in {"put", "sent"}

Theirs ==
  /\ May("theirs") /\ Once
  /\ \E e \in NewEtags, d \in NewDirs : Changed(Latest, e, d)
  /\ seen' = [seen EXCEPT !.heads = (@ \ {server.ver}) \cup {Latest}, !.since = Meanwhile]
  /\ UNCHANGED << file, parked, base, work, paused, told, calm, can >>

\* A lock or a tag: the ETag of the same content.
Touch ==
  /\ May("touch") /\ server.ver # 0 /\ Once
  /\ \E e \in NewEtags, d \in NewDirs : Changed(server.ver, e, d)
  /\ UNCHANGED << file, parked, base, work, paused, told, calm, can, seen >>

TheirRemoval ==
  /\ May("remove") /\ server.ver # 0
  /\ \E d \in NewDirs : Changed(0, 0, d)
  /\ seen' = [seen EXCEPT !.heads = @ \ {server.ver}]
  /\ UNCHANGED << file, parked, base, work, world >>

-----------------------------------------------------------------------------
(* Notices and timers *)

QueueOnly == UNCHANGED << file, sync, pass, sweep, world >>

\* parse: ADDED or MODIFIED arms the debounce.
Notice ==
  /\ "told" \in events
  /\ events' = events \ {"told"} /\ queue' = [queue EXCEPT !.timer = TRUE]
  /\ QueueOnly /\ UNCHANGED << run, seen >>

\* The notices' buffer overflows: what was in it is gone, and that it is is known.
Overflow ==
  /\ May("overflow") /\ "told" \in events
  /\ events' = {"lost"}
  /\ QueueOnly /\ UNCHANGED << queue, run, seen >>

\* suppressFor runs out; a failed download's backoff does.
Expire == queue.hushed /\ queue' = [queue EXCEPT !.hushed = FALSE]
          /\ QueueOnly /\ UNCHANGED << events, run, seen >>
Backoff == queue.later /\ queue' = [queue EXCEPT !.later = FALSE]
           /\ QueueOnly /\ UNCHANGED << events, run, seen >>

\* requestHydration: one entry per path, none during the backoff.
Asked(q) == IF pin = "pinned" /\ local.kind = "stub" /\ ~q.later THEN [q EXCEPT !.fetch = TRUE] ELSE q

\* hydrateLoop, hydratePinned: a failure is left to whoever asks next.
Fetch ==
  /\ queue.fetch /\ ~paused
  /\ \/ /\ pin = "pinned" /\ local.kind = "stub" /\ server.ver # 0
        /\ local' = Fetched
        /\ queue' = [queue EXCEPT !.fetch = FALSE]
     \/ /\ ~(pin = "pinned" /\ local.kind = "stub")
        /\ queue' = [queue EXCEPT !.fetch = FALSE] /\ UNCHANGED local
     \/ /\ pin = "pinned" /\ local.kind = "stub" /\ (May("fail") \/ server.ver = 0)
        /\ queue' = [queue EXCEPT !.fetch = FALSE, !.later = TRUE] /\ UNCHANGED local
  /\ UNCHANGED << app, pin, sync, events, run, pass, sweep, world, seen >>

-----------------------------------------------------------------------------
(* handleChange, and the upload it makes (uploadWithConflictFor) *)

RunOnly == UNCHANGED << app, pin, pass, sweep, world, parked >>
Step(a, b) == run.at = a /\ run' = [run EXCEPT !.at = b]
\* The run ends; a change that came meanwhile gets one more.
Ends(timer) ==
  /\ run' = Idle
  /\ queue' = [queue EXCEPT !.timer = @ \/ timer \/ run.again]
EndsAfter(s, timer) == run.at = s /\ Ends(timer)

\* The timer: one run per path, a second one is remembered.
Fire ==
  /\ queue.timer
  /\ queue' = [queue EXCEPT !.timer = FALSE]
  /\ run' = IF run.at = "idle" THEN [run EXCEPT !.at = "look", !.stamp = local.stamp]
            ELSE [run EXCEPT !.again = TRUE]
  /\ UNCHANGED << local, server, base, events, seen >> /\ RunOnly

\* Our own doing, or what looks like it.
LookHushed ==
  /\ queue.hushed /\ EndsAfter("look", FALSE)
  /\ seen' = [seen EXCEPT !.gaps = IF NeedsUpload THEN @ \cup {"muted"} ELSE @]
  /\ UNCHANGED << local, server, base, events >> /\ RunOnly
Look ==
  /\ ~queue.hushed
  /\ IF local.kind = "none" THEN EndsAfter("look", FALSE)
     ELSE /\ Step("look", IF ~NeedsUpload \/ local.kind = "stub"
                          THEN IF Placeholder /\ ~local.sync /\ ~NeedsUpload THEN "restore" ELSE "settle"
                          ELSE IF paused THEN "hold" ELSE "check")
          /\ UNCHANGED queue
  /\ UNCHANGED << local, server, base, events, seen >> /\ RunOnly

\* SetInSync looks at nothing but whether it is a placeholder; MarkInSync makes one.
InSync(f) == IF f.kind \in {"stub", "full"} THEN [f EXCEPT !.sync = TRUE, !.mod = FALSE]
             ELSE IF f.kind = "plain" THEN [f EXCEPT !.kind = "full", !.sync = TRUE] ELSE f
\* An edit that came after the look is stamped in sync with the rest.
Restored == /\ local' = IF Placeholder THEN InSync(local) ELSE local
            /\ Excuse(IF Placeholder /\ NeedsUpload THEN {local.data} ELSE {})
Restore == Step("restore", "settle") /\ Restored
           /\ UNCHANGED << server, base, events, queue >> /\ RunOnly

\* The platform dehydrates what is in sync and nobody holds open.
Freeable == local.kind = "full" /\ local.sync /\ ~app.holds
Freed    == [local EXCEPT !.kind = "stub", !.data = local.stamp]
Settle ==
  /\ run.at = "settle"
  /\ local' = IF pin = "unpinned" /\ Freeable THEN Freed ELSE local
  /\ run' = Idle
  /\ queue' = [Asked(queue) EXCEPT !.timer = @ \/ run.again]
  /\ UNCHANGED << server, base, events, seen >> /\ RunOnly

\* hold: the upload waits; the pause may have ended since it was looked at.
Hold == /\ Step("hold", "recheck") /\ queue' = [queue EXCEPT !.held = TRUE]
        /\ UNCHANGED << local, server, base, events, seen >> /\ RunOnly
Released(q) == [q EXCEPT !.timer = @ \/ q.held, !.held = FALSE]
Recheck ==
  /\ run.at = "recheck" /\ run' = Idle
  /\ queue' = LET q == IF paused THEN queue ELSE Released(queue)
              IN [q EXCEPT !.timer = @ \/ run.again]
  /\ UNCHANGED << local, server, base, events, seen >> /\ RunOnly

\* An upload that ends without success: stopped by a pause it is held, else tried later.
Uploading == {"check", "park", "put", "sent", "landed"}
Fails(s) ==
  /\ run.at = s
  /\ \/ run.stop /\ Step(s, "hold") /\ UNCHANGED queue
     \/ ~run.stop /\ Ends(TRUE)
Refused ==
  /\ \E s \in Uploading \ {"landed"} : (run.stop \/ May("fail") \/ (s = "check" /\ May("held"))) /\ Fails(s)
  /\ UNCHANGED << local, server, base, events, seen >> /\ RunOnly

\* serverEditedSince, sameBytesAsServer (which reads the file).
EditedSinceKnown == server.etag # base.etag /\ base.key = 0
EditedSince == server.etag # base.etag /\ (base.key = 0 \/ ~Keys \/ server.ver # base.key)
SameBytes   == Sums /\ (local.kind = "stub" \/ local.data = server.ver)
Compares    == server.ver # 0 /\ EditedSince /\ Sums
Conflict    == server.ver # 0 /\ EditedSince /\ ~SameBytes
Check ==
  /\ ~run.stop /\ Step("check", IF Conflict THEN "park" ELSE "put")
  /\ local' = IF Compares THEN Fetched ELSE local
  /\ seen' = [seen EXCEPT !.since = local'.kind \in {"none", "stub"}]
  /\ UNCHANGED << server, base, events, queue >> /\ RunOnly

\* parkServerCopy moves aside what is there now.
Park ==
  /\ run.at = "park" /\ ~run.stop
  /\ IF server.ver = 0
     THEN Fails("park") /\ UNCHANGED << server, parked >>
     ELSE /\ Step("park", "put") /\ parked' = parked \cup {server.ver}
          /\ \E d \in NewDirs : Changed(0, 0, d)
          /\ UNCHANGED queue
  /\ UNCHANGED << local, app, pin, base, events, pass, sweep, world, seen >>

\* The bytes are read; a file that is gone fails.
Read ==
  /\ run.at = "put" /\ ~run.stop
  /\ IF CanRead
     THEN local' = Fetched /\ run' = [run EXCEPT !.at = "sent", !.data = local'.data] /\ UNCHANGED queue
     ELSE Fails("put") /\ UNCHANGED local
  /\ UNCHANGED << server, base, events, seen >> /\ RunOnly

\* The server takes them over what it has by then; the answer names the revision.
Land ==
  /\ run.at = "sent"
  /\ \E e \in NewEtags, d \in NewDirs :
       /\ Changed(run.data, e, d)
       /\ \/ run' = [run EXCEPT !.at = "landed", !.etag = e] /\ UNCHANGED queue
          \/ (May("fail") \/ run.stop) /\ Fails("sent")
  /\ Excuse(IF seen.since THEN {server.ver} ELSE {})
  /\ UNCHANGED << local, base, events >> /\ RunOnly

\* The baseline of this upload's own revision, and its key if the server still has it.
\* A file changed while it was sent stays dirty and goes again.
AnsweredLater == [base EXCEPT !.etag = server.etag, !.ver = server.ver, !.key = IF Keys THEN server.ver ELSE 0]
Answered == [base EXCEPT !.etag = run.etag, !.ver = run.data,
                         !.key = IF Keys /\ server.etag = run.etag THEN server.ver ELSE 0]
Record ==
  /\ run.at = "landed" /\ base' = Answered
  /\ IF local.kind = "none" THEN Ends(FALSE)
     ELSE IF local.stamp # run.stamp THEN Ends(TRUE)
     ELSE Step("landed", "mark") /\ UNCHANGED queue
  /\ UNCHANGED << local, server, events, seen >> /\ RunOnly
Mark ==
  /\ EndsAfter("mark", FALSE)
  /\ local' = InSync(local)
  /\ Excuse(IF local.data # run.data THEN {local.data} ELSE {})
  /\ UNCHANGED << server, base, events >> /\ RunOnly

Run == LookHushed \/ Look \/ Restore \/ Settle \/ Hold \/ Recheck \/ Refused \/ Check \/ Park
       \/ Read \/ Land \/ Record \/ Mark

-----------------------------------------------------------------------------
(* The pause *)

Pause(b) ==
  /\ May("pause") /\ paused # b /\ Once
  /\ paused' = b /\ told' = FALSE
  /\ UNCHANGED << file, sync, work, calm, can, seen >>

\* PauseChanged stops what runs, or lets go what was held; so does the poll.
PauseChanged ==
  /\ ~told /\ told' = TRUE
  /\ IF paused
     THEN /\ run' = [run EXCEPT !.stop = run.at \in Uploading \cup {"look", "restore", "settle"}]
          /\ UNCHANGED queue
     ELSE queue' = Released(queue) /\ UNCHANGED run
  /\ UNCHANGED << file, sync, events, pass, sweep, paused, calm, written, can, seen >>
Poll ==
  /\ ~paused /\ queue.held
  /\ queue' = Released(queue)
  /\ QueueOnly /\ UNCHANGED << events, run, seen >>

-----------------------------------------------------------------------------
(* A pass over the folder (reconcilePass, reconcileDir) *)

PassOnly == UNCHANGED << app, pin, run, world, server, parked >>
PStep(a, b) == pass.at = a /\ pass' = [pass EXCEPT !.at = b]
\* The upload is armed unless one is waiting or running.
NoRescue(q) == q
IfIdle(q) == [q EXCEPT !.timer = @ \/ run.at = "idle"]
\* A run that has looked already, and found nothing to upload, is taken for one that will; and
\* what is listed after an upload arrived is left to that upload.
Looked == NeedsUpload /\ run.at \in {"restore", "settle"}
Sent   == (NeedsUpload /\ run.at \in {"landed", "mark"}) \/ (pass.kind = "plain" /\ Placeholder)
LeftTo ==
  seen' = [seen EXCEPT !.excused = IF Looked THEN @ \cup {local.data} ELSE @,
                       !.gaps = IF Sent THEN @ \cup {"left"} ELSE @]

\* Its folder's ETag is known from the listing above it.
Due == pass.full \/ sweep.owed \/ base.dir # pass.known
Begin ==
  /\ pass.at = "idle"
  /\ pass' = [NoPass EXCEPT !.at = "read", !.full = ~sweep.done \/ "lost" \in events, !.known = server.dir]
  /\ events' = events \ {"lost"}
  /\ UNCHANGED << local, base, queue, sweep, seen >> /\ PassOnly

\* The root cannot be listed: the pass ends, and what asked for a sweep is used up.
RootFails ==
  /\ pass.at = "idle" /\ May("fail")
  /\ events' = events \ {"lost"}
  /\ seen' = [seen EXCEPT !.gaps = IF sweep.done /\ "lost" \in events THEN @ \cup {"dropped"} ELSE @]
  /\ UNCHANGED << local, base, queue, sweep, pass >> /\ PassOnly

\* The folder is read, or passed over.
ReadDir ==
  /\ pass.at = "read"
  /\ IF Due
     THEN /\ pass' = [pass EXCEPT !.at = "list", !.kind = local.kind, !.stamp = local.stamp]
          /\ UNCHANGED sweep
     ELSE /\ pass' = NoPass /\ sweep' = [sweep EXCEPT !.done = TRUE]
  /\ UNCHANGED << local, base, events, queue, seen >> /\ PassOnly
List ==
  /\ \/ pass.at = "list" /\ pass' = [pass EXCEPT !.at = "act", !.list = [ver |-> server.ver, etag |-> server.etag]]
     \/ May("fail") /\ pass.at = "list" /\ pass' = [pass EXCEPT !.at = "end", !.ok = FALSE]
  /\ UNCHANGED << local, base, events, queue, sweep, seen >> /\ PassOnly

Here  == pass.kind # "none"
ThereAlways == pass.at # "idle"
There == pass.list.ver # 0
ToPins(ok) == pass' = [pass EXCEPT !.at = "pins", !.ok = @ /\ ok]
ToEnd(ok)  == pass' = [pass EXCEPT !.at = "end", !.ok = @ /\ ok]

\* Gone from the server: an edit goes up again, a clean copy goes.
Vanished ==
  /\ pass.at = "act" /\ Here /\ ~There
  /\ IF NeedsUpload THEN queue' = IfIdle(queue) /\ ToEnd(TRUE)
     ELSE UNCHANGED queue /\ IF local.kind = "none" THEN ToEnd(TRUE) ELSE PStep("act", "remove")
  /\ LeftTo
  /\ UNCHANGED << local, base, events, sweep >> /\ PassOnly
\* An upload under way loses its file.
Sending == IF run.at \in Uploading THEN {local.data, run.data} ELSE {}
Gone == [kind |-> "none", data |-> 0, sync |-> FALSE, mod |-> FALSE, stamp |-> 0]
Remove ==
  /\ pass.at = "remove"
  /\ queue' = [queue EXCEPT !.hushed = TRUE]
  /\ IF app.holds THEN ToEnd(FALSE) /\ UNCHANGED << local, seen >>
     ELSE ToEnd(TRUE) /\ local' = Gone /\ Excuse(Shown \cup Sending)
  /\ UNCHANGED << base, events, sweep >> /\ PassOnly

Recorded == [base EXCEPT !.etag = pass.list.etag, !.ver = pass.list.ver, !.key = IF Keys THEN pass.list.ver ELSE 0]
\* New on the server: an online-only placeholder, unless the name is taken by now.
Create ==
  /\ pass.at = "act" /\ ~Here /\ There
  /\ IF local.kind = "none"
     THEN /\ local' = [kind |-> "stub", data |-> pass.list.ver, sync |-> TRUE, mod |-> FALSE,
                       stamp |-> pass.list.ver]
          /\ base' = Recorded /\ ToPins(TRUE)
     ELSE ToEnd(FALSE) /\ UNCHANGED << local, base >>
  /\ UNCHANGED << events, queue, sweep, seen >> /\ PassOnly
Neither ==
  /\ pass.at = "act" /\ ~Here /\ ~There /\ ToEnd(TRUE)
  /\ UNCHANGED << local, base, events, queue, sweep, seen >> /\ PassOnly

\* healPlainFile: as it was when the folder was read, it is the server's copy.
Heals == pass.stamp = pass.list.ver /\ base.etag = pass.list.etag
Heal ==
  /\ pass.at = "act" /\ There /\ pass.kind = "plain"
  /\ IF Heals /\ local.kind # "none"
     THEN /\ local' = InSync(local) /\ base' = Recorded
          /\ Excuse(IF local.data # pass.list.ver THEN {local.data} ELSE {})
          /\ UNCHANGED queue
     ELSE /\ queue' = IF pass.stamp > pass.list.ver THEN IfIdle(queue) ELSE queue
          /\ LeftTo /\ UNCHANGED << local, base >>
  /\ ToEnd(TRUE)
  /\ UNCHANGED << events, sweep >> /\ PassOnly

\* A placeholder on both sides: an edit is rescued, a bit restored, then versions compared.
Both ==
  /\ pass.at = "act" /\ There /\ pass.kind \in {"stub", "full"}
  /\ IF local.kind = "none" THEN ToEnd(TRUE) /\ UNCHANGED queue
     ELSE IF NeedsUpload THEN queue' = IfIdle(queue) /\ ToEnd(TRUE)
     ELSE PStep("act", IF local.sync THEN "compare" ELSE "restore") /\ UNCHANGED queue
  /\ LeftTo
  /\ UNCHANGED << local, base, events, sweep >> /\ PassOnly
RestoreToo ==
  /\ PStep("restore", "compare") /\ Restored
  /\ UNCHANGED << base, events, queue, sweep >> /\ PassOnly

\* remoteChanged, sameVersionAsBaseline.
Compare ==
  /\ pass.at = "compare"
  /\ IF pass.list.etag = base.etag THEN ToPins(TRUE) /\ UNCHANGED base
     ELSE IF Keys /\ pass.list.ver = base.key
          THEN ToPins(TRUE) /\ base' = [base EXCEPT !.etag = pass.list.etag]
          ELSE PStep("compare", "update") /\ UNCHANGED base
  /\ UNCHANGED << local, events, queue, sweep, seen >> /\ PassOnly

\* RefreshPlaceholderIfInSync: the size and time first, verified in sync; then the data goes,
\* if it may; either way the version counts as mirrored.
Verified == local.sync
Update ==
  /\ pass.at = "update"
  /\ IF Placeholder /\ Verified
     THEN /\ local' = [local EXCEPT !.stamp = pass.list.ver, !.sync = TRUE, !.mod = FALSE,
                                    !.data = IF local.kind = "stub" THEN pass.list.ver ELSE @]
          /\ PStep("update", "drop")
          /\ Excuse(IF NeedsUpload THEN {local.data} ELSE {})
     ELSE /\ ToPins(TRUE) /\ UNCHANGED local
          /\ seen' = IF NeedsUpload /\ ~Sent THEN seen ELSE [seen EXCEPT !.gaps = @ \cup {"left"}]
  /\ UNCHANGED << base, events, queue, sweep >> /\ PassOnly
Drop ==
  /\ PStep("drop", "record")
  /\ local' = IF Freeable THEN Freed ELSE local
  /\ Excuse((IF Freeable THEN Sending ELSE {})
            \cup (IF local'.kind = "stub" /\ local'.stamp = pass.list.ver THEN {} ELSE {pass.list.ver}))
  /\ UNCHANGED << base, events, queue, sweep >> /\ PassOnly
RecordToo ==
  /\ PStep("record", "pins") /\ base' = Recorded
  /\ UNCHANGED << local, events, queue, sweep, seen >> /\ PassOnly

\* A pinned file is asked for last.  The folder's ETag is recorded if all went well: the one
\* known before it was listed.
CompleteAlways == pass.at # "idle"
Complete == pass.ok
End ==
  /\ pass.at \in {"pins", "end"} /\ pass' = NoPass
  /\ queue' = IF pass.at = "pins" THEN Asked(queue) ELSE queue
  /\ base' = IF Complete THEN [base EXCEPT !.dir = pass.known] ELSE base
  /\ sweep' = [done |-> TRUE, owed |-> ~pass.ok /\ (pass.full \/ sweep.owed)]
  /\ UNCHANGED << local, events, seen >> /\ PassOnly

Pass == Begin \/ ReadDir \/ List \/ Vanished \/ Remove \/ Create \/ Neither \/ Heal \/ Both
        \/ RestoreToo \/ Compare \/ Update \/ Drop \/ RecordToo \/ End

-----------------------------------------------------------------------------
(* The program ends and starts; a provider that goes may leave plain files behind *)

Crash(k) ==
  /\ May("crash")
  /\ \/ k = local.kind
     \/ "flatten" \in can.what /\ local.kind = "full" /\ k = "plain"
  /\ local' = IF k = local.kind THEN local ELSE [local EXCEPT !.kind = k, !.sync = FALSE, !.mod = FALSE]
  /\ events' = {} /\ run' = Idle /\ pass' = NoPass
  /\ queue' = [timer |-> FALSE, held |-> FALSE, hushed |-> FALSE, fetch |-> FALSE, later |-> FALSE]
  /\ sweep' = [done |-> FALSE, owed |-> FALSE] /\ told' = TRUE
  /\ seen' = IF pass.at \in {"drop", "record"} /\ base.etag = server.etag
             THEN [seen EXCEPT !.gaps = @ \cup {"torn"}] ELSE seen
  /\ UNCHANGED << app, pin, sync, paused, calm, written, can >>

Calm == /\ ~calm /\ calm' = TRUE /\ paused' = FALSE /\ told' = (told /\ ~paused)
        /\ UNCHANGED << file, sync, work, written, can, seen >>

User   == (\E b \in BOOLEAN : Opens(b)) \/ Closes \/ Edit \/ Save \/ Jostle \/ \E p \in {"pinned", "unpinned"} : Pins(p)
Server == Theirs \/ Touch \/ TheirRemoval
Next == \/ User \/ Server \/ Notice \/ Overflow \/ Expire \/ Backoff \/ Fetch \/ Fire \/ Run
        \/ \E b \in BOOLEAN : Pause(b)
        \/ PauseChanged \/ Poll \/ Pass \/ RootFails
        \/ \E k \in Kinds : Crash(k)
        \/ Calm

Spec == Init /\ [][Next]_vars
\* Timers fire, goroutines go on, passes are made again and again, programs close files.
Fairness ==
  /\ WF_vars(Calm) /\ WF_vars(Closes) /\ WF_vars(Notice) /\ WF_vars(Expire) /\ WF_vars(Backoff)
  /\ WF_vars(Fire) /\ WF_vars(Run) /\ WF_vars(Fetch)
  /\ WF_vars(PauseChanged) /\ WF_vars(Poll) /\ WF_vars(Pass)
LiveSpec == Spec /\ Fairness

-----------------------------------------------------------------------------
(* Properties *)

\* No version is lost that nobody has built upon or removed: it is on disk, on the server or
\* set aside.  Excused are versions that came where the code does not look: after an upload's
\* check, between a look at the file and its stamp, that a pass leaves to a run which has
\* looked already, whose upload is under way when a pass removes or frees the file, and a
\* server's version whose copy could not be dropped when it was recorded as mirrored.
NothingLost ==
  seen.heads \subseteq {server.ver} \cup parked \cup seen.excused
                       \cup (IF HasData THEN {local.data} ELSE {})

\* handleChange's promise: a file is uploaded or retried, "never silently ignored".  A file
\* with unsynced data is on its way: noticed, waiting, held, or due in the next pass.
\* Left out, and ignored by the code: a plain file older than the server's copy, which a pass
\* leaves alone; a change dropped as our own (muted); a sweep used up by a failed root
\* (dropped); and the versions excused, see NothingLost.
Owed ==
  \/ events # {} \/ queue.timer \/ queue.held \/ run.at # "idle"
  \/ ~sweep.done \/ sweep.owed \/ base.dir # server.dir \/ pass.full
LeftAlone == local.kind = "plain" /\ local.stamp <= server.ver
EditsAreOwed ==
  NeedsUpload => Owed \/ LeftAlone \/ seen.gaps \cap {"muted", "dropped"} # {} \/ local.data \in seen.excused

\* A copy that counts as mirroring the server's ETag holds what the server has.
MirrorIsTrue ==
  local.kind = "full" /\ local.sync /\ server.ver # 0 /\ base.etag = server.etag
     => local.data = server.ver \/ {local.data, server.ver} \cap seen.excused # {}

\* Once all is calm nothing waits any more: no notice, timer, held upload, download or run; and
\* both sides hold the same; but for a file the code leaves alone, the gaps, and excused versions.
Rest == events = {} /\ ~queue.timer /\ ~queue.held /\ ~queue.fetch /\ run.at = "idle"
Same == \/ server.ver = 0 /\ local.kind = "none"
        \/ server.ver # 0 /\ Placeholder /\ local.sync /\ local.data = server.ver
                          /\ base.etag = server.etag
Excepted == LeftAlone \/ seen.gaps # {} \/ {local.data, server.ver} \cap seen.excused # {}
Settles == <>[](Rest /\ (Same \/ Excepted))
=============================================================================
