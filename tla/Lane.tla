-------------------------------- MODULE Lane --------------------------------
(***************************************************************************)
(* The long-transfer lane: internal/agent/lane.go.  Transfers too large    *)
(* for a sync pass run here, Workers at a time, and outlive the pass that  *)
(* planned them.  Every locked section of lane.go is one action; what a    *)
(* goroutine does after it has let go of lane.mu (telling done, closing    *)
(* ended, waiting in stop) is an action of its own.                        *)
(*                                                                         *)
(* The queue slice is the set queue with the precedence relation order:    *)
(* <<j, k>> \in order when j is in front of k.                             *)
(***************************************************************************)
EXTENDS Naturals, FiniteSets, Sequences

CONSTANTS
  Jobs,       \* laneJob objects; each is added at most once
  Paths,      \* local paths, numbered in path order (config.PathKey)
  PathOf,     \* the path a job transfers
  Pairs,      \* the sync folders, each as the set of paths beneath it
  Scopes,     \* what a caller can name: a path, or a folder and all beneath it
  Asked,      \* the scopes the user may ask to sync first (prefer)
  Untils,     \* the kinds of time a job can be set aside for: TRUE, some time
  Workers,    \* laneWorkers
  PrefsMax,   \* lanePrefsMax
  Stoppers    \* goroutines that may call stop, stopPair or close

ASSUME LaneAssumption ==
  /\ Paths \subseteq Nat
  /\ PathOf \in [Jobs -> Paths]
  /\ IsFiniteSet(Jobs)
  /\ Pairs \subseteq SUBSET Paths
  /\ Scopes \subseteq SUBSET Paths /\ Asked \subseteq Scopes
  /\ Untils \subseteq BOOLEAN
  /\ Workers \in Nat \ {0}
  /\ PrefsMax \in Nat \ {0}

VARIABLES
  queue, order,   \* lane.queue
  running,        \* lane.running
  parked,         \* lane.parked: set aside, still held
  paused, closed,
  stoppedPairs,
  prefs,          \* lane.prefs, oldest first
  mark,           \* laneJob.requeue, .stopped, .parking: why a run was cancelled;
                  \* read only while the job runs
  timed,          \* laneJob.until is set; read only while the job is set aside
  timer,          \* laneJob.timer is armed with the current generation
  callbacks,      \* timerUnpark calls waiting for lane.mu, by generation
  waiters,        \* stoppers waiting on the ended channel of the current attempt
  tails,          \* what exec still has to do for attempts that have returned
  resuming,       \* jobs unpark has found set aside and not yet taken out
  unparked,       \* jobs taken out by unparkJob, done not told yet
  caller,         \* where each goroutine in stop, stopPair or close is
  dropped,        \* jobs a stopper took off the queue or parked list, done not told yet
  taken,          \* history: every job the stopper's stop matched
  recalled,       \* history: those of them pause or park marked again as they stopped
  result          \* what the job's done was told

laneVars == << queue, order, running, parked, paused, closed, stoppedPairs >>
jobVars  == << mark, timed, timer, callbacks, waiters >>
goVars   == << tails, resuming, unparked >>
stopVars == << caller, dropped, taken, recalled >>
vars     == << laneVars, prefs, jobVars, goVars, stopVars, result >>

Marks     == {"requeue", "stopped", "parking"}
Results   == {"ok", "failed", "stopped", "unparked"}
ExecTail  == [job: Jobs, todo: {"done"}, err: Results, waiters: SUBSET Stoppers]
             \cup [job: Jobs, todo: {"close"}, err: Results \cup {"none"},
                   waiters: SUBSET Stoppers]
Idle      == [pc |-> "idle", scope |-> {}, kind |-> "stop"]

Held      == queue \cup running \cup parked
Under(scope) == {j \in Jobs : PathOf[j] \in scope}

\* Jobs that have left the lane and whose done is still to be told.
Dropped   == UNION {dropped[s] : s \in Stoppers}
Finishing == {j \in Jobs : \E t \in tails : t.job = j /\ t.todo = "done"}
Leaving   == Dropped \cup unparked \cup Finishing
Fresh(j)  == j \notin Held \cup Leaving /\ result[j] = "none"

Holds(p)  == \E k \in Held : PathOf[k] = p      \* has, holdsLocked
Covers(scope) == Held \cap Under(scope) # {}     \* covers

StateAt(p) ==   \* findLocked: running, then waiting, then set aside
  LET at == {j \in Held : PathOf[j] = p}
  IN  IF at \cap running # {} THEN "running"
      ELSE IF at \cap queue # {} THEN "waiting"
      ELSE IF at # {} THEN "parked" ELSE "none"

TypeOK ==
  /\ queue \subseteq Jobs /\ running \subseteq Jobs /\ parked \subseteq Jobs
  /\ order \subseteq queue \X queue
  /\ paused \in BOOLEAN /\ closed \in BOOLEAN
  /\ stoppedPairs \subseteq Pairs
  /\ prefs \in Seq(Asked)
  /\ mark \in [Jobs -> SUBSET Marks]
  /\ timed \in [Jobs -> BOOLEAN]
  /\ timer \in [Jobs -> BOOLEAN]
  /\ callbacks \in [Jobs -> SUBSET {"current", "stale"}]
  /\ waiters \in [Jobs -> SUBSET Stoppers]
  /\ tails \subseteq ExecTail
  /\ resuming \subseteq Jobs /\ unparked \subseteq Jobs
  /\ caller \in [Stoppers -> [pc: {"idle", "marked", "stopping", "returned"},
                              scope: SUBSET Paths, kind: {"stop", "pair", "close"}]]
  /\ dropped \in [Stoppers -> SUBSET Jobs]
  /\ taken \in [Stoppers -> SUBSET Jobs]
  /\ recalled \in [Stoppers -> SUBSET Jobs]
  /\ result \in [Jobs -> Results \cup {"none"}]

Init ==
  /\ queue = {} /\ order = {} /\ running = {} /\ parked = {}
  /\ paused \in BOOLEAN          \* newLane(paused)
  /\ closed = FALSE /\ stoppedPairs = {} /\ prefs = << >>
  /\ mark = [j \in Jobs |-> {}]
  /\ timed = [j \in Jobs |-> FALSE] /\ timer = [j \in Jobs |-> FALSE]
  /\ callbacks = [j \in Jobs |-> {}]
  /\ waiters = [j \in Jobs |-> {}]
  /\ tails = {} /\ resuming = {} /\ unparked = {}
  /\ caller = [s \in Stoppers |-> Idle]
  /\ dropped = [s \in Stoppers |-> {}] /\ taken = [s \in Stoppers |-> {}]
  /\ recalled = [s \in Stoppers |-> {}]
  /\ result = [j \in Jobs |-> "none"]

-----------------------------------------------------------------------------
(* The queue *)

Only(o, Q)      == o \cap (Q \X Q)
ToFront(j, Q, o) == Only(o, Q) \cup ({j} \X Q)
Behind(lead, j, Q, o) == Only(o, Q) \cup (lead \X {j}) \cup ({j} \X (Q \ lead))

\* preferredLocked
Preferred(j) == \E i \in DOMAIN prefs : PathOf[j] \in prefs[i]

\* dispatchLocked: the jobs it starts are the front of the queue, as many as
\* there are free workers.
\* Mutant: len(running) <= laneWorkers in the loop condition.
StartsOneMore(Q, o, R) ==
  IF paused' \/ closed THEN {{}}
  ELSE {S \in SUBSET Q : /\ \A j \in S, k \in Q : <<k, j>> \in o => k \in S
                         /\ S # {} => Cardinality(R \cup S) <= Workers + 1
                         /\ S = Q \/ Cardinality(R \cup S) > Workers}
Starts(Q, o, R) ==
  IF paused' \/ closed THEN {{}}
  ELSE {S \in SUBSET Q :
          /\ \A j \in S, k \in Q : <<k, j>> \in o => k \in S
          /\ S # {} => Cardinality(R \cup S) <= Workers
          /\ S = Q \/ Cardinality(R \cup S) >= Workers}

Dispatch(Q, o, R) ==
  \E S \in Starts(Q, o, R) :
    /\ queue' = Q \ S
    /\ order' = Only(o, Q \ S)
    /\ running' = R \cup S
    /\ mark' = [j \in Jobs |-> IF j \in R THEN mark[j] ELSE {}]

\* armLocked and invalidateTimerLocked: either way the calls already waiting
\* for the lock hold an old generation from here on.
Stale(j) == IF callbacks[j] = {} THEN {} ELSE {"stale"}
Invalidate(S) ==
  /\ timer' = [j \in Jobs |-> timer[j] /\ j \notin S]
  /\ callbacks' = [j \in Jobs |-> IF j \in S THEN Stale(j) ELSE callbacks[j]]
ArmOnce(j, t) ==        \* mutant: a new time does not restart the timer
  /\ timed' = [timed EXCEPT ![j] = t]
  /\ timer' = [timer EXCEPT ![j] = t /\ j \notin parked]
  /\ callbacks' = [callbacks EXCEPT ![j] = Stale(j)]
Arm(j, t) ==
  /\ timed' = [timed EXCEPT ![j] = t]
  /\ timer' = [timer EXCEPT ![j] = t]
  /\ callbacks' = [callbacks EXCEPT ![j] = Stale(j)]

\* History: the stoppers now waiting for one of R see it marked again.
Recall(R) == [s \in Stoppers |-> recalled[s] \cup {j \in R : s \in waiters[j]}]

-----------------------------------------------------------------------------
(* Adding, ordering, pausing *)

Add(j) ==
  /\ Fresh(j)
  /\ ~closed
  /\ \A pk \in stoppedPairs : PathOf[j] \notin pk
  /\ ~Holds(PathOf[j])
  /\ UNCHANGED paused
  /\ LET lead == {k \in queue : /\ Preferred(k)
                                /\ \A m \in queue : <<m, k>> \in order => Preferred(m)}
         o == Behind(IF Preferred(j) THEN lead ELSE queue, j, queue, order)
     IN  Dispatch(queue \cup {j}, o, running)
  /\ UNCHANGED << parked, closed, stoppedPairs, prefs, timed, timer,
                  callbacks, waiters, goVars, stopVars, result >>

\* prefer drops an earlier request for the same path, then the oldest if full.
Without(p, scope) ==
  LET at == {i \in DOMAIN p : p[i] = scope}
  IN  IF at = {} THEN p
      ELSE LET i == CHOOSE i \in at : TRUE
           IN  SubSeq(p, 1, i - 1) \o SubSeq(p, i + 1, Len(p))

Prefer(scope) ==
  /\ LET kept == Without(prefs, scope)
         room == IF Len(kept) >= PrefsMax
                   THEN SubSeq(kept, Len(kept) - PrefsMax + 2, Len(kept)) ELSE kept
     IN  prefs' = Append(room, scope)
  /\ UNCHANGED << laneVars, jobVars, goVars, stopVars, result >>

PreferExpires ==   \* requests are kept in the order they run out
  /\ prefs # << >>
  /\ prefs' = Tail(prefs)
  /\ UNCHANGED << laneVars, jobVars, goVars, stopVars, result >>

First(j) ==
  /\ j \in queue
  /\ order' = ToFront(j, queue \ {j}, order)
  /\ UNCHANGED << queue, running, parked, paused, closed, stoppedPairs, prefs,
                  jobVars, goVars, stopVars, result >>

FirstUnder(scope) ==
  LET moved == queue \cap Under(scope)
      rest  == queue \ moved
  IN  /\ moved # {}
      /\ order' = {e \in moved \X moved : PathOf[e[1]] < PathOf[e[2]]}
                  \cup (moved \X rest) \cup Only(order, rest)
      /\ UNCHANGED << queue, running, parked, paused, closed, stoppedPairs, prefs,
                      jobVars, goVars, stopVars, result >>

Pause ==
  /\ ~paused
  /\ paused' = TRUE
  /\ mark' = [j \in Jobs |-> IF j \in running THEN mark[j] \cup {"requeue"} ELSE mark[j]]
  /\ recalled' = Recall(running)
  /\ UNCHANGED << queue, order, running, parked, closed, stoppedPairs, prefs, timed,
                  timer, callbacks, waiters, goVars, caller, dropped, taken, result >>

ResumeParked ==   \* mutant: set-aside jobs run again with the rest
  /\ paused' = FALSE
  /\ Dispatch(queue \cup parked, order, running)
  /\ parked' = {}
  /\ UNCHANGED << closed, stoppedPairs, prefs, timed, timer, callbacks, waiters,
                  goVars, stopVars, result >>
ResumeLater ==    \* mutant: leaves starting the queue to the next event
  /\ paused /\ paused' = FALSE
  /\ UNCHANGED << queue, order, running, parked, closed, stoppedPairs, prefs, jobVars,
                  goVars, stopVars, result >>
Resume ==
  /\ paused' = FALSE
  /\ Dispatch(queue, order, running)
  /\ UNCHANGED << parked, closed, stoppedPairs, prefs, timed, timer, callbacks,
                  waiters, goVars, stopVars, result >>

-----------------------------------------------------------------------------
(* exec: the transfer has returned *)

\* A run cancelled for this reason leaves its job in the lane.
KeptThoughClosed(why, marks) == why \in marks   \* mutant: not asked whether closed
Kept(why, marks) == why \in marks /\ ~closed

Return(j) ==
  /\ j \in running
  /\ UNCHANGED paused
  /\ \E err \in {"ok", "failed"} :
       LET park == err = "failed" /\ Kept("parking", mark[j])
           back == err = "failed" /\ ~park /\ Kept("requeue", mark[j])
           stop == /\ err = "failed"
                   /\ \/ "stopped" \in mark[j]
                      \/ closed /\ mark[j] \cap {"parking", "requeue"} # {}
           todo == IF park \/ back THEN "close" ELSE "done"
           told == IF park \/ back THEN "none" ELSE IF stop THEN "stopped" ELSE err
       IN  /\ Dispatch(IF back THEN queue \cup {j} ELSE queue,
                       IF back THEN ToFront(j, queue, order) ELSE order,
                       running \ {j})
           /\ parked' = IF park THEN parked \cup {j} ELSE parked
           /\ Arm(j, park /\ timed[j])
           /\ tails' = tails \cup {[job |-> j, todo |-> todo, err |-> told,
                                    waiters |-> waiters[j]]}
  /\ waiters' = [waiters EXCEPT ![j] = {}]
  /\ UNCHANGED << closed, stoppedPairs, prefs, resuming, unparked, stopVars, result >>

\* done if it is due, then close(ended).
RestOpen(t) == {[t EXCEPT !.todo = "close"]}   \* mutant: ended is never closed
Rest(t) ==
  IF t.todo = "done"
    THEN {[job |-> t.job, todo |-> "close", err |-> t.err, waiters |-> t.waiters]} ELSE {}
DueUnlessStopped(t) == t.todo = "done" /\ t.err # "stopped"   \* mutant
Due(t) == t.todo = "done"

FinishTail(t) ==
  /\ t \in tails
  /\ tails' = (tails \ {t}) \cup Rest(t)
  /\ result' = IF Due(t) THEN [result EXCEPT ![t.job] = t.err] ELSE result
  /\ UNCHANGED << laneVars, prefs, jobVars, resuming, unparked, stopVars >>

-----------------------------------------------------------------------------
(* stop, stopPair, allowPair, close *)

\* stopPair marks the pair, and close the lane, before either stops anything.
StopPairUnmarked(s, pk) ==   \* mutant: stops the pair's jobs, refuses no new ones
  /\ caller[s] = Idle
  /\ caller' = [caller EXCEPT ![s] = [pc |-> "marked", scope |-> pk, kind |-> "pair"]]
  /\ UNCHANGED << laneVars, prefs, jobVars, goVars, dropped, taken, recalled, result >>
StopPairMark(s, pk) ==
  /\ caller[s] = Idle
  /\ stoppedPairs' = stoppedPairs \cup {pk}
  /\ caller' = [caller EXCEPT ![s] = [pc |-> "marked", scope |-> pk, kind |-> "pair"]]
  /\ UNCHANGED << queue, order, running, parked, paused, closed, prefs, jobVars, goVars,
                  dropped, taken, recalled, result >>

AllowPair(pk) ==
  /\ pk \in stoppedPairs
  /\ stoppedPairs' = stoppedPairs \ {pk}
  /\ caller' = [s \in Stoppers |->   \* history: pk is no longer kept out for them
                 IF caller[s].kind = "pair" /\ caller[s].scope = pk
                   THEN [pc |-> caller[s].pc, scope |-> pk, kind |-> "stop"]
                   ELSE caller[s]]
  /\ UNCHANGED << queue, order, running, parked, paused, closed, prefs, jobVars,
                  goVars, dropped, taken, recalled, result >>

CloseMark(s) ==
  /\ caller[s] = Idle
  /\ closed' = TRUE
  /\ caller' = [caller EXCEPT ![s] = [pc |-> "marked", scope |-> Paths, kind |-> "close"]]
  /\ UNCHANGED << queue, order, running, parked, paused, stoppedPairs, prefs, jobVars,
                  goVars, dropped, taken, recalled, result >>

\* A stop overrides a pause or set-aside under way.
StopMarkAdded(marks) == marks \cup {"stopped"}   \* mutant: leaves requeue and parking set
StopMark(marks) == {"stopped"}

\* The locked section of stop.
Stop(s, scope, kind) ==
  LET M == Under(scope)
  IN  /\ queue' = queue \ M
      /\ order' = Only(order, queue \ M)
      /\ parked' = parked \ M
      /\ Invalidate(parked \cap M)
      /\ timed' = [j \in Jobs |-> timed[j] /\ j \notin M]
      /\ mark' = [j \in Jobs |-> IF j \in running \cap M THEN StopMark(mark[j]) ELSE mark[j]]
      /\ waiters' = [j \in Jobs |-> IF j \in running \cap M THEN waiters[j] \cup {s}
                                    ELSE waiters[j]]
      /\ dropped' = [dropped EXCEPT ![s] = (queue \cup parked) \cap M]
      /\ taken' = [taken EXCEPT ![s] = Held \cap M]
      /\ recalled' = [recalled EXCEPT ![s] = {}]
      /\ caller' = [caller EXCEPT ![s] = [pc |-> "stopping", scope |-> scope,
                                          kind |-> kind]]
      /\ UNCHANGED << running, paused, closed, stoppedPairs, prefs, goVars, result >>

StopScope(s, scope)  == caller[s] = Idle /\ Stop(s, scope, "stop")
StopMarked(s) ==
  \E scope \in Pairs \cup {Paths}, kind \in {"stop", "pair", "close"} :
    /\ caller[s] = [pc |-> "marked", scope |-> scope, kind |-> kind]
    /\ Stop(s, scope, kind)

StopTell(s, j) ==
  /\ j \in dropped[s]
  /\ dropped' = [dropped EXCEPT ![s] = @ \ {j}]
  /\ result' = [result EXCEPT ![j] = "stopped"]
  /\ UNCHANGED << laneVars, prefs, jobVars, goVars, caller, taken, recalled >>

\* Every ended channel collected is closed; close also waits for the goroutines.
StopReturn(s) ==
  /\ caller[s].pc = "stopping"
  /\ dropped[s] = {}
  /\ \A j \in Jobs : s \notin waiters[j]
  /\ \A t \in tails : s \notin t.waiters
  /\ caller[s].kind = "close" => running = {} /\ tails = {}
  /\ caller' = [caller EXCEPT ![s] = [pc |-> "returned", scope |-> @.scope, kind |-> @.kind]]
  /\ UNCHANGED << laneVars, prefs, jobVars, goVars, dropped, taken, recalled, result >>

\* The caller has done what it stopped the transfers for.
CallerDone(s) ==
  /\ caller[s].pc = "returned"
  /\ caller' = [caller EXCEPT ![s] = Idle]
  /\ taken' = [taken EXCEPT ![s] = {}]
  /\ recalled' = [recalled EXCEPT ![s] = {}]
  /\ UNCHANGED << laneVars, prefs, jobVars, goVars, dropped, result >>

-----------------------------------------------------------------------------
(* Setting aside and coming back *)

ParkWaiting(j, t) ==
  /\ j \in queue
  /\ queue' = queue \ {j}
  /\ order' = Only(order, queue \ {j})
  /\ parked' = parked \cup {j}
  /\ Arm(j, t)
  /\ UNCHANGED << running, paused, closed, stoppedPairs, prefs, mark, waiters,
                  goVars, stopVars, result >>

ParkRunning(j, t) ==
  /\ j \in running
  /\ timed' = [timed EXCEPT ![j] = t]
  /\ mark' = [mark EXCEPT ![j] = @ \cup {"parking"}]
  /\ recalled' = Recall({j})
  /\ UNCHANGED << laneVars, prefs, timer, callbacks, waiters, goVars, caller, dropped,
                  taken, result >>

ParkAgain(j, t) ==
  /\ j \in parked
  /\ Arm(j, t)
  /\ UNCHANGED << laneVars, prefs, mark, waiters, goVars, stopVars, result >>

Park(j, t) == ParkWaiting(j, t) \/ ParkRunning(j, t) \/ ParkAgain(j, t)

\* unpark looks the job up in one locked section and takes it out in another.
UnparkFind(j) ==
  /\ j \in parked
  /\ resuming' = resuming \cup {j}
  /\ UNCHANGED << laneVars, prefs, jobVars, tails, unparked, stopVars, result >>

\* unparkJob: only a job still on the parked list leaves the lane.  Its caller,
\* unpark or a timer, is gone from resuming or callbacks either way.
FoundOrGone(j) == TRUE   \* mutant: the second look is not taken
Found(j) == j \in parked
UnparkJob(j) ==
  IF Found(j)
    THEN /\ parked' = parked \ {j}
         /\ timed' = [timed EXCEPT ![j] = FALSE]
         /\ timer' = [timer EXCEPT ![j] = FALSE]
         /\ unparked' = unparked \cup {j}
    ELSE UNCHANGED << parked, timed, timer, unparked >>

Unpark(j) ==
  /\ j \in resuming
  /\ resuming' = resuming \ {j}
  /\ UnparkJob(j)
  /\ callbacks' = IF Found(j) THEN [callbacks EXCEPT ![j] = Stale(j)] ELSE callbacks
  /\ UNCHANGED << queue, order, running, paused, closed, stoppedPairs, prefs, mark,
                  waiters, tails, stopVars, result >>

TimerFires(j) ==
  /\ timer[j]
  /\ timer' = [timer EXCEPT ![j] = FALSE]
  /\ callbacks' = [callbacks EXCEPT ![j] = @ \cup {"current"}]
  /\ UNCHANGED << laneVars, prefs, mark, timed, waiters, goVars, stopVars, result >>

\* timerUnpark gets the lock; a call with an old generation does nothing.
Acts(gen) == gen = "current"
TimerUnpark(j, gen) ==
  /\ gen \in callbacks[j]
  /\ callbacks' = [callbacks EXCEPT ![j] = @ \ {gen}]
  /\ IF Acts(gen) THEN UnparkJob(j) ELSE UNCHANGED << parked, timed, timer, unparked >>
  /\ UNCHANGED << queue, order, running, paused, closed, stoppedPairs, prefs, mark,
                  waiters, tails, resuming, stopVars, result >>

TellUnparked(j) ==
  /\ j \in unparked
  /\ unparked' = unparked \ {j}
  /\ result' = [result EXCEPT ![j] = "unparked"]
  /\ UNCHANGED << laneVars, prefs, jobVars, tails, resuming, stopVars >>

-----------------------------------------------------------------------------
\* What the passes and the user ask of the lane ...
Request ==
  \/ \E j \in Jobs : Add(j) \/ First(j) \/ UnparkFind(j)
  \/ \E j \in Jobs, t \in Untils : Park(j, t)
  \/ \E scope \in Asked : Prefer(scope) \/ FirstUnder(scope)
  \/ Pause \/ Resume
  \/ \E pk \in Pairs : AllowPair(pk) \/ \E s \in Stoppers : StopPairMark(s, pk)
  \/ \E s \in Stoppers : CloseMark(s) \/ CallerDone(s)
  \/ \E s \in Stoppers, scope \in Scopes : StopScope(s, scope)

\* ... and what its goroutines do on their own.
Progress ==
  \/ PreferExpires
  \/ \E j \in Jobs : Return(j) \/ Unpark(j) \/ TimerFires(j) \/ TellUnparked(j)
  \/ \E j \in Jobs, gen \in {"current", "stale"} : TimerUnpark(j, gen)
  \/ \E t \in tails : FinishTail(t)
  \/ \E s \in Stoppers : StopMarked(s) \/ StopReturn(s)
  \/ \E s \in Stoppers, j \in Jobs : StopTell(s, j)

Next == Request \/ Progress

Spec == Init /\ [][Next]_vars
-----------------------------------------------------------------------------
(* Safety *)

\* A job is in one place at a time: queued, running, set aside, or on its way
\* out with exactly one goroutine owing its done; and a job whose done was told
\* is nowhere.  With it done is told at most once (laneJob.done, "told once").
OnePlace ==
  /\ queue \cap running = {} /\ queue \cap parked = {} /\ running \cap parked = {}
  /\ Held \cap Leaving = {}
  /\ Dropped \cap unparked = {} /\ Dropped \cap Finishing = {}
  /\ unparked \cap Finishing = {}
  /\ \A r, s \in Stoppers : r # s => dropped[r] \cap dropped[s] = {}
  /\ \A s \in Stoppers : dropped[s] # {} => caller[s].pc = "stopping"
  /\ \A t, u \in tails : t.todo = "done" /\ u.todo = "done" /\ t.job = u.job => t = u
  /\ \A j \in Jobs : result[j] # "none" => j \notin Held \cup Leaving

\* The lane never holds two jobs for one path, so no file is transferred twice
\* at once, whatever order adds, pauses, set-asides and returns come in.
OneJobPerPath == \A j, k \in Held : j # k => PathOf[j] # PathOf[k]

\* No worker stands idle while an open, unpaused lane has waiting jobs, and
\* never more than Workers transfers run: every operation that frees a worker
\* or fills the queue dispatches before it lets go of the lock.
WorkersBusy ==
  /\ Cardinality(running) <= Workers
  /\ ~paused /\ ~closed /\ queue # {} => Cardinality(running) = Workers

\* What holds of stop, which says it "returns once all of them have ended and been
\* told, so the caller can move or delete their files" (lane.go): a job it matched is
\* still held when it returns only if pause or park marked the job again while its cancelled run was returning,
\* and every other job it matched has been told.
StopTookTheRest ==
  \A s \in Stoppers : caller[s].pc = "returned" =>
    \A j \in taken[s] \ recalled[s] : j \notin Held /\ result[j] # "none"

\* When stopPair has returned, the lane holds nothing of the pair, not even a
\* job that a pass already planning it added while the stop ran, until
\* allowPair; again but for jobs marked anew as they stopped.
StoppedPairIsOut ==
  \A s \in Stoppers : caller[s].pc = "returned" /\ caller[s].kind = "pair" =>
    \A j \in Held \cap Under(caller[s].scope) : j \in recalled[s]

\* When close has returned, the lane holds nothing and no goroutine of it is
\* left, even for jobs paused, set aside or added while it was closing.
CloseEmpties ==
  \A s \in Stoppers : caller[s].pc = "returned" /\ caller[s].kind = "close" =>
    Held = {} /\ tails = {}

\* Both: what a caller of stopPair or close was promised still holds when it goes on, but
\* for a stopped pair's recalled jobs.
StaysOut == StoppedPairIsOut /\ CloseEmpties

\* An armed timer, and a timer call that may still act, belong to a job that is
\* set aside until a time: after a stop, an unpark or a new set-aside the old
\* one can take nothing out of the lane.
TimersCurrent ==
  \A j \in Jobs : timer[j] \/ "current" \in callbacks[j] => j \in parked /\ timed[j]

(* What a step may never do *)

\* A job set aside without a time comes back only when somebody asks for it
\* (unpark) or stops it; no timer left from an earlier set-aside takes it out.
UntimedStays ==
  [][\A j \in unparked' \ unparked : timed[j] \/ j \in resuming]_vars

-----------------------------------------------------------------------------
(* Refinement: the stage of each job in the abstract lane.                   *)

Stage(j) ==
  IF j \in queue THEN "waiting" ELSE IF j \in running THEN "running"
  ELSE IF j \in parked THEN "parked" ELSE IF j \in Leaving THEN "leaving"
  ELSE IF result[j] # "none" THEN "told" ELSE "new"

Life == INSTANCE LaneLife WITH stage <- [j \in Jobs |-> Stage(j)]

\* Every interleaving of lane.go's locked sections and goroutines is a life
\* the sync passes count on: see LaneLife.
LivesAsPromised == Life!LifeSpec

-----------------------------------------------------------------------------
(* Liveness.  The goroutines of the lane, its timers and its transfers end:  *)
(* a transfer's requests are bounded by the transport's timeouts and by its  *)
(* context.  Nothing is assumed of users and passes.                         *)

Fairness ==
  /\ \A j \in Jobs :
       /\ WF_vars(Return(j)) /\ WF_vars(Unpark(j)) /\ WF_vars(TellUnparked(j))
       /\ WF_vars(TimerFires(j))
       /\ WF_vars(TimerUnpark(j, "current"))
       /\ \A W \in SUBSET Stoppers :
            WF_vars(\E t \in tails : t.job = j /\ t.waiters = W /\ FinishTail(t))
  /\ \A s \in Stoppers :
       /\ WF_vars(StopMarked(s)) /\ WF_vars(StopReturn(s))
       /\ WF_vars(\E j \in Jobs : StopTell(s, j))

FairSpec == Spec /\ Fairness

\* stop never hangs: the move, delete or sign-out behind it goes on, even when
\* jobs are paused, set aside or restarted while it waits.
StopReturns ==
  \A s \in Stoppers : caller[s].pc \in {"marked", "stopping"} ~> caller[s].pc = "returned"

\* A job that has left the lane is told how it ended.
LeaversAreTold == \A j \in Jobs : j \in Leaving ~> result[j] # "none"

\* Both: nobody waits for a stop or for a done for ever.
NobodyWaits == StopReturns /\ LeaversAreTold

\* Once the lane stays unpaused every waiting job is started or taken out.
QueueDrains == <>[]~paused => \A j \in Jobs : j \in queue ~> j \notin queue

\* A job set aside until a time comes back, unless its time keeps being changed.
TimedComesBack ==
  \A j \in Jobs :
    <>[][~ParkAgain(j, TRUE) /\ ~ParkAgain(j, FALSE)]_vars
      => (j \in parked /\ timed[j] ~> j \notin parked)
=============================================================================
