------------------------------- MODULE Watch -------------------------------
(***************************************************************************)
(* Continuous sync of one folder: internal/watch/watch.go (runLoop and the *)
(* platform watchers that feed it), with what it depends on in             *)
(* internal/agent: passes that do nothing while syncing is paused, and     *)
(* awaitClosed, which nudges a file whose upload was put off (inuse.go).   *)
(*                                                                         *)
(* Time is abstract: a timer that is armed may fire at any later moment.   *)
(* Only the length of the failure backoff is a number, kept in the width   *)
(* of a time.Duration.  The loop is idle, in select, or in a pass.         *)
(***************************************************************************)
EXTENDS Integers, FiniteSets

CONSTANTS
  Paths,       \* local files of the folder
  Busy,        \* those another program may hold open
  Happens,     \* what the world does in this instance, of Outside
  EventsMax,   \* capacity of the events channel
  FailMax,     \* failures in a row that are told apart; a bound on failStreak
  Base,        \* the first backoff: the poll interval
  Hour,        \* the longest backoff
  Width        \* bits of a time.Duration

Outside == {"edit", "overflow", "server", "user", "rules", "pause", "restart"}

ASSUME WatchAssumption ==
  /\ Happens \subseteq Outside
  /\ IsFiniteSet(Paths) /\ Busy \subseteq Paths /\ "overflow" \notin Paths
  /\ EventsMax \in Nat \ {0} /\ FailMax \in Nat \ {0}
  /\ Base \in Nat \ {0} /\ Hour \in Nat /\ Base <= Hour
  /\ Width \in Nat \ {0} /\ Hour < 2 ^ (Width - 1)

VARIABLES
  dirty,       \* files with a local change the server does not have
  news,        \* what the server has that the folder does not: none, new, read by the pass
  unread,      \* changes the operating system holds for the watcher
  overflown,   \* the watcher knows that some of them were lost
  events,      \* the events channel
  nudge,       \* opts.Nudge
  external, userSync, fullSync,   \* opts.External, .UserSync, .FullSync: one deep
  changed, pushed, forceFull, debounce,   \* the window being collected
  retry, retryPaths,              \* armed when a sync of local changes failed
  failStreak, holding,            \* the backoff: failures in a row, holdUntil is ahead
  fullDue,     \* FullSyncEvery has gone by since lastFull
  pass,        \* the pass under way: why it runs, what it covers, what comes next
  seen,        \* those of its files that have not changed since it looked at them
  paused,      \* Engine.Paused
  awaiter,     \* awaitClosed's goroutine for a file: none, waiting, nudged (about to end)
  left,        \* history: files the loop has let go of, for the next full pass to find
  asked        \* history: the user asked for a sync, and none was tried since

local  == << dirty, news, unread, overflown >>
chans  == << events, nudge, external, userSync, fullSync >>
window == << changed, pushed, forceFull, debounce >>
timers == << retry, retryPaths, failStreak, holding, fullDue >>
busyV  == << paused, awaiter >>
vars   == << local, chans, window, timers, pass, seen, busyV, left, asked >>

Signals == Paths \cup {"overflow"}
Idle    == [why |-> "none", scope |-> {}, push |-> FALSE, skip |-> FALSE]
Whys    == {"none", "startup", "overflow", "change", "push", "poll", "pollFull"}
FullWhys == {"startup", "overflow", "pollFull"}   \* SyncOnce: walks the folder
RemoteWhys == FullWhys \cup {"push", "poll"}      \* looks at the whole server side

CountsOK == Cardinality(events) <= EventsMax /\ failStreak \in 0 .. FailMax

TypeOK ==
  /\ CountsOK
  /\ dirty \subseteq Paths /\ news \in {"none", "new", "read"}
  /\ unread \subseteq Paths /\ overflown \in BOOLEAN
  /\ events \subseteq Signals /\ nudge \subseteq Paths
  /\ external \in BOOLEAN /\ userSync \in BOOLEAN /\ fullSync \in BOOLEAN
  /\ changed \subseteq Paths /\ pushed \in BOOLEAN /\ forceFull \in BOOLEAN
  /\ debounce \in {"off", "armed", "again", "due"}
  /\ retry \in BOOLEAN /\ retryPaths \subseteq Paths
  /\ holding \in BOOLEAN /\ fullDue \in BOOLEAN
  /\ pass \in [why: Whys, scope: SUBSET Paths, push: BOOLEAN, skip: BOOLEAN]
  /\ seen \subseteq Paths /\ paused \in BOOLEAN
  /\ awaiter \in [Paths -> {"none", "waiting", "nudged"}]
  /\ left \subseteq Paths /\ asked \in BOOLEAN

\* A pass that starts while syncing is paused returns at once, with no error.
Pass(why, scope, push) ==
  /\ pass' = [why |-> why, scope |-> scope, push |-> push, skip |-> paused]
  /\ seen' = scope
  /\ news' = IF why \in RemoteWhys /\ ~paused /\ news = "new" THEN "read" ELSE news
  /\ asked' = (asked /\ why \notin RemoteWhys)

\* runLoop's state when it starts: no window, no backoff, the startup pass.
Init ==
  /\ dirty \in SUBSET Paths /\ news = "none"
  /\ unread = {} /\ overflown = FALSE
  /\ events = {} /\ nudge = {}
  /\ external = FALSE /\ userSync = FALSE /\ fullSync = FALSE
  /\ changed = {} /\ pushed = FALSE /\ forceFull = FALSE /\ debounce = "off"
  /\ retry = FALSE /\ retryPaths = {} /\ failStreak = 0 /\ holding = FALSE
  /\ fullDue = FALSE
  /\ paused = FALSE /\ awaiter = [p \in Paths |-> "none"]
  /\ pass = [why |-> "startup", scope |-> Paths, push |-> FALSE, skip |-> FALSE]
  /\ seen = Paths
  /\ left = {} /\ asked = FALSE

-----------------------------------------------------------------------------
(* Changes, and the watcher that reports them *)

\* A file changes.  A pass under way may have read it already, or not yet; the
\* watcher may miss it (a file in a folder too new to be watched).
Edit(p) ==
  /\ dirty' = dirty \cup {p}
  /\ seen' \in {seen, seen \ {p}}
  /\ \/ unread' = unread \cup {p} /\ UNCHANGED left
     \/ unread' = unread /\ left' = left \cup {p}
  /\ UNCHANGED << news, overflown, chans, window, timers, pass, busyV, asked >>

\* A burst overflows the buffer while the reader waits for the loop.
Overflow ==
  /\ unread # {}
  /\ overflown' = TRUE
  /\ unread' \in SUBSET unread
  /\ UNCHANGED << dirty, news, chans, window, timers, pass, seen, busyV, left, asked >>

\* Run's reader goroutine; it blocks while the channel is full.
ReportUnbounded(p) ==   \* mutant: does not wait for room
  /\ p \in unread
  /\ events' = events \cup {p}
  /\ unread' = unread \ {p}
  /\ UNCHANGED << dirty, news, overflown, nudge, external, userSync, fullSync, window,
                  timers, pass, seen, busyV, left, asked >>
Report(p) ==
  /\ p \in unread
  /\ Cardinality(events \cup {p}) <= EventsMax
  /\ events' = events \cup {p}
  /\ unread' = unread \ {p}
  /\ UNCHANGED << dirty, news, overflown, nudge, external, userSync, fullSync, window,
                  timers, pass, seen, busyV, left, asked >>
ReportOverflow ==
  /\ overflown
  /\ Cardinality(events \cup {"overflow"}) <= EventsMax
  /\ events' = events \cup {"overflow"}
  /\ overflown' = FALSE
  /\ UNCHANGED << dirty, news, unread, nudge, external, userSync, fullSync, window,
                  timers, pass, seen, busyV, left, asked >>

\* Something changes on the server; notify_push may say so.
ServerChange ==
  /\ news' \in {news, "new"} \ {"none"}
  /\ external' \in {external, TRUE}
  /\ UNCHANGED << dirty, unread, overflown, events, nudge, userSync, fullSync, window,
                  timers, pass, seen, busyV, left, asked >>

\* TriggerUserSync and TriggerFullSync; a signal already waiting is enough.
AskUser ==
  /\ userSync' = TRUE
  /\ UNCHANGED << local, events, nudge, external, fullSync, window, timers, pass, seen,
                  busyV, left, asked >>
AskFull ==
  /\ fullSync' = TRUE
  /\ UNCHANGED << local, events, nudge, external, userSync, window, timers, pass, seen,
                  busyV, left, asked >>

\* pauseChanged: a resume triggers every watched folder (TriggerSync).
Pause ==
  /\ ~paused /\ paused' = TRUE
  /\ UNCHANGED << local, chans, window, timers, pass, seen, awaiter, left, asked >>
Resume ==
  /\ paused /\ paused' = FALSE
  /\ external' = TRUE
  /\ UNCHANGED << local, events, nudge, userSync, fullSync, window, timers, pass, seen,
                  awaiter, left, asked >>

-----------------------------------------------------------------------------
(* The select of runLoop, and the timers behind it *)

Selecting == pass = Idle

\* debounce = time.After(Debounce): a debounce under way starts anew.
Rearm == debounce' = IF debounce = "armed" THEN "again" ELSE "armed"

\* case p := <-events
TakeNoSignal(e) ==   \* mutant: an overflow only arms the debounce
  /\ Selecting
  /\ e \in events /\ events' = events \ {e}
  /\ changed' = IF e = "overflow" THEN changed ELSE changed \cup {e}
  /\ Rearm
  /\ UNCHANGED << local, nudge, external, userSync, fullSync, pushed, forceFull, timers,
                  pass, seen, busyV, left, asked >>
Take(e) ==
  /\ Selecting
  /\ e \in events /\ events' = events \ {e}
  /\ changed' = IF e = "overflow" THEN changed ELSE changed \cup {e}
  /\ forceFull' = (forceFull \/ e = "overflow")
  /\ Rearm
  /\ UNCHANGED << local, nudge, external, userSync, fullSync, pushed, timers, pass, seen,
                  busyV, left, asked >>

\* case p := <-opts.Nudge
TakeNudge(p) ==
  /\ Selecting
  /\ p \in nudge /\ nudge' = nudge \ {p}
  /\ changed' = changed \cup {p}
  /\ Rearm
  /\ UNCHANGED << local, events, external, userSync, fullSync, pushed, forceFull, timers,
                  pass, seen, busyV, left, asked >>

\* case <-retry
RetryUnarmed ==   \* mutant: the paths join a window nothing fires
  /\ Selecting
  /\ retry /\ retry' = FALSE
  /\ changed' = changed \cup retryPaths
  /\ retryPaths' = {}
  /\ UNCHANGED << local, chans, pushed, forceFull, debounce, failStreak, holding, fullDue,
                  pass, seen, busyV, left, asked >>
Retry ==
  /\ Selecting
  /\ retry /\ retry' = FALSE
  /\ changed' = changed \cup retryPaths
  /\ retryPaths' = {}
  /\ Rearm
  /\ UNCHANGED << local, chans, pushed, forceFull, failStreak, holding, fullDue, pass,
                  seen, busyV, left, asked >>

\* case <-opts.External
TakeExternal ==
  /\ Selecting
  /\ external /\ external' = FALSE
  /\ pushed' = TRUE /\ Rearm
  /\ UNCHANGED << local, events, nudge, userSync, fullSync, changed, forceFull, timers,
                  pass, seen, busyV, left, asked >>

\* note(nil), and case <-opts.UserSync
KeepHold == UNCHANGED << failStreak, holding >>   \* mutant: the hold runs its time
Lift     == failStreak' = 0 /\ holding' = FALSE

TakeUser ==
  /\ Selecting
  /\ userSync /\ userSync' = FALSE
  /\ Lift
  /\ pushed' = TRUE /\ Rearm
  /\ asked' = TRUE
  /\ UNCHANGED << local, events, nudge, external, fullSync, changed, forceFull, retry,
                  retryPaths, fullDue, pass, seen, busyV, left >>

\* case <-opts.FullSync
TakeFull ==
  /\ Selecting
  /\ fullSync /\ fullSync' = FALSE
  /\ forceFull' = TRUE /\ Rearm
  /\ UNCHANGED << local, events, nudge, external, userSync, changed, pushed, timers, pass,
                  seen, busyV, left, asked >>

\* case <-debounce: a forced full pass covers the rest of the window; local
\* changes go before a push, which is skipped while backing off.
ClearWindow == changed' = {} /\ pushed' = FALSE /\ debounce' = "off"

FireFull ==
  /\ forceFull /\ forceFull' = FALSE
  /\ Pass("overflow", Paths, FALSE)
FireChange ==
  /\ ~forceFull /\ changed # {} /\ UNCHANGED forceFull
  /\ Pass("change", changed, pushed)
FirePush ==
  /\ ~forceFull /\ changed = {} /\ UNCHANGED forceFull
  /\ IF pushed /\ ~holding THEN Pass("push", {}, FALSE)
     ELSE UNCHANGED << pass, seen, news, asked >>

Fire ==
  /\ Selecting
  /\ debounce = "due" /\ ClearWindow
  /\ FireFull \/ FireChange \/ FirePush
  /\ UNCHANGED << dirty, unread, overflown, chans, timers, busyV, left >>

\* case <-poll
PollGivesUp ==   \* mutant: a failure holds the poll until something else succeeds
  /\ Selecting
  /\ failStreak = 0
  /\ IF fullDue THEN Pass("pollFull", Paths, FALSE) ELSE Pass("poll", {}, FALSE)
  /\ UNCHANGED << dirty, unread, overflown, chans, window, timers, busyV, left >>
Poll ==
  /\ Selecting
  /\ ~holding
  /\ IF fullDue THEN Pass("pollFull", Paths, FALSE) ELSE Pass("poll", {}, FALSE)
  /\ UNCHANGED << dirty, unread, overflown, chans, window, timers, busyV, left >>

(* Timers *)
DebounceElapses(run) ==
  /\ debounce = run /\ debounce' = "due"
  /\ UNCHANGED << local, chans, changed, pushed, forceFull, timers, pass, seen, busyV,
                  left, asked >>
HoldElapses ==
  /\ holding /\ holding' = FALSE
  /\ UNCHANGED << local, chans, window, retry, retryPaths, failStreak, fullDue, pass,
                  seen, busyV, left, asked >>
FullElapses ==
  /\ ~fullDue /\ fullDue' = TRUE
  /\ UNCHANGED << local, chans, window, retry, retryPaths, failStreak, holding, pass,
                  seen, busyV, left, asked >>

-----------------------------------------------------------------------------
(* A pass ends: syncFn and pushFn, note, runChange *)

\* base << (failStreak-1), capped to an hour, in Width bits.
Wrap(x) == LET m == x % (2 ^ Width) IN IF m >= 2 ^ (Width - 1) THEN m - 2 ^ Width ELSE m
Delay(streak) ==
  LET d == Wrap(Base * 2 ^ (streak - 1)) IN IF d > Hour THEN Hour ELSE d

Note ==   \* note(err) of a failed pass
  /\ failStreak' = IF failStreak < FailMax THEN failStreak + 1 ELSE failStreak
  /\ holding' = (Delay(failStreak + 1) > 0)

\* A push that came with local changes is looked after next, unless backing off.
Continue(after) ==
  IF pass.push /\ ~holding' THEN Pass("push", {}, FALSE)
  ELSE pass' = Idle /\ seen' = {} /\ news' = after /\ UNCHANGED asked

\* FullSyncEvery is counted from the end of every full pass, however it ended.
AnyCounted == fullDue' = FALSE   \* mutant: every pass counts as a full one
FullCounted == fullDue' = (fullDue /\ pass.why \notin FullWhys)

\* An upload put off: awaitClosed waits for the file, once per file at a time.
AwaitClosed(P) ==
  awaiter' = [p \in Paths |-> IF p \in P /\ awaiter[p] = "none" THEN "waiting" ELSE awaiter[p]]

PassOk ==
  /\ ~Selecting /\ ~pass.skip
  /\ \E P \in SUBSET (seen \cap dirty \cap Busy) :
       /\ dirty' = dirty \ (seen \ P)
       /\ AwaitClosed(P)
       /\ left' = (left \ (seen \ P)) \cup {p \in P : awaiter[p] = "nudged"}
  /\ Lift
  /\ FullCounted
  /\ Continue(IF pass.why \in RemoteWhys /\ news = "read" THEN "none" ELSE news)
  /\ UNCHANGED << unread, overflown, chans, window, retry, retryPaths, paused >>

\* Nothing was looked at, and the caller hears of no error.
PassSkipped ==
  /\ ~Selecting /\ pass.skip
  /\ left' = left \cup (seen \cap dirty)
  /\ Lift
  /\ FullCounted
  /\ Continue(news)
  /\ UNCHANGED << dirty, unread, overflown, chans, window, retry, retryPaths, busyV >>

\* Some of the files may have been synced before the error.
ChangeFails ==
  /\ pass.why = "change"
  /\ retryPaths' = retryPaths \cup pass.scope /\ retry' = TRUE
  /\ UNCHANGED << left, failStreak, holding, fullDue >>
RemoteFails ==
  /\ pass.why \in RemoteWhys
  /\ left' = left \cup (seen \cap dirty')
  /\ Note
  /\ FullCounted
  /\ UNCHANGED << retry, retryPaths >>
PassFails ==
  /\ ~Selecting /\ ~pass.skip
  /\ \E S \in SUBSET (seen \cap dirty) : dirty' = dirty \ S
  /\ ChangeFails \/ RemoteFails
  /\ Continue(IF news = "read" THEN "new" ELSE news)
  /\ UNCHANGED << unread, overflown, chans, window, busyV >>

-----------------------------------------------------------------------------
(* awaitClosed's goroutine; a restart *)

\* No program has the file open any longer.
AwaitNudges(p) ==
  /\ awaiter[p] = "waiting"
  /\ awaiter' = [awaiter EXCEPT ![p] = "nudged"]
  /\ nudge' = nudge \cup {p}
  /\ UNCHANGED << local, events, external, userSync, fullSync, window, timers, pass, seen,
                  paused, left, asked >>

\* Its deferred cleanup, in a locked section of its own.
AwaitEnds(p) ==
  /\ awaiter[p] = "nudged"
  /\ awaiter' = [awaiter EXCEPT ![p] = "none"]
  /\ UNCHANGED << local, chans, window, timers, pass, seen, paused, left, asked >>

\* The program ends, at any moment, and starts again.
Restart ==
  /\ unread' = {} /\ overflown' = FALSE
  /\ events' = {} /\ nudge' = {}
  /\ external' = FALSE /\ userSync' = FALSE /\ fullSync' = FALSE
  /\ changed' = {} /\ pushed' = FALSE /\ forceFull' = FALSE /\ debounce' = "off"
  /\ retry' = FALSE /\ retryPaths' = {} /\ failStreak' = 0 /\ holding' = FALSE
  /\ fullDue' = FALSE
  /\ awaiter' = [p \in Paths |-> "none"]
  /\ pass' = [why |-> "startup", scope |-> Paths, push |-> FALSE, skip |-> paused]
  /\ seen' = Paths
  /\ news' = IF news = "none" THEN "none" ELSE IF paused THEN "new" ELSE "read"
  /\ left' = {} /\ asked' = FALSE
  /\ UNCHANGED << dirty, paused >>

-----------------------------------------------------------------------------
PassEnds == PassOk \/ PassSkipped \/ PassFails

World ==
  \/ "edit" \in Happens /\ \E p \in Paths : Edit(p)
  \/ "overflow" \in Happens /\ Overflow
  \/ "server" \in Happens /\ ServerChange
  \/ "user" \in Happens /\ AskUser
  \/ "rules" \in Happens /\ AskFull
  \/ "pause" \in Happens /\ (Pause \/ Resume)
  \/ "restart" \in Happens /\ Restart
Loop ==
  \/ \E p \in Paths : Report(p) \/ TakeNudge(p) \/ AwaitNudges(p) \/ AwaitEnds(p)
  \/ ReportOverflow \/ \E e \in Signals : Take(e)
  \/ Retry \/ TakeExternal \/ TakeUser \/ TakeFull \/ Fire \/ Poll
  \/ \E run \in {"armed", "again"} : DebounceElapses(run)
  \/ HoldElapses \/ FullElapses \/ PassEnds
Next == World \/ Loop
Spec == Init /\ [][Next]_vars

-----------------------------------------------------------------------------
(* Safety *)

Owed(p) ==
  \/ p \in unread \cup events \cup nudge
  \/ overflown \/ "overflow" \in events
  \/ (forceFull \/ p \in changed) /\ debounce # "off"
  \/ p \in retryPaths /\ retry
  \/ p \in seen
  \/ awaiter[p] = "waiting"

\* No local change is forgotten: what the server does not have yet is on its
\* way through the loop, in a file the loop is waiting for, or was let go of in
\* one of the four places that leave it to the hourly full pass (Edit,
\* RemoteFails, PassSkipped, PassOk), and in no other.
ChangesAreOwed == \A p \in dirty : Owed(p) \/ p \in left

\* A sync the user asked for is never swallowed: until a pass has tried the
\* server it is pending, whatever backoff, failures and full passes came between.
AskedIsTried == asked => (pushed /\ debounce # "off") \/ pass.push

-----------------------------------------------------------------------------
(* Liveness.  Timers fire, passes end (every request of a pass is bounded by *)
(* the transport's timeouts), and select picks at random among what is ready *)
(* so that no case is passed over forever.  A debounce elapses unless it is  *)
(* re-armed.                                                                 *)

Fairness ==
  /\ WF_vars(PassEnds) /\ WF_vars(HoldElapses) /\ WF_vars(FullElapses)
  /\ WF_vars(DebounceElapses("armed")) /\ WF_vars(DebounceElapses("again"))
  /\ SF_vars(Poll) /\ SF_vars(Retry) /\ SF_vars(Fire)
FairSpec == Spec /\ Fairness

\* From some time on passes succeed, syncing is not paused, no program holds a
\* file open and the files rest.
Trouble ==
  \/ PassFails \/ Restart \/ \E p \in Paths : Edit(p)
  \/ PassOk /\ seen \cap dirty' # {}
Calm == <>[]~paused /\ <>[][~Trouble]_vars

\* Every local change reaches the server in the end, whatever was missed, lost,
\* skipped or put off on the way, and however many pushes come.
EveryChangeSynced == Calm => \A p \in Paths : p \in dirty ~> p \notin dirty

\* So does what changes on the server reach the folder.
EveryServerChangePulled ==
  Calm /\ <>[][~ServerChange]_vars => (news # "none" ~> news = "none")

\* Both directions.
EveryChangeArrives == EveryChangeSynced /\ EveryServerChangePulled

\* Local changes whose sync failed are tried again without waiting for the
\* poll, the backoff or the hourly full pass, once events stop coming.
FailedIsRetried ==
  <>[][~World /\ ~\E e \in Signals : Take(e)]_vars
    => \A p \in Paths : p \in retryPaths ~> p \in pass.scope /\ pass.why \in {"change", "overflow"}
=============================================================================
