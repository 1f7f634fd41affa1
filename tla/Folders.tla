------------------------------ MODULE Folders ------------------------------
(***************************************************************************)
(* The folders of an account while the program runs: the configured pair,  *)
(* its watcher goroutines, what a full pass does with the folder it finds, *)
(* the jobs it hands to the long-transfer lane, and the user adding,       *)
(* removing, holding back and moving the folder meanwhile.  It models      *)
(* internal/agent/agent.go and lanejobs.go, lanerules.go.                  *)
(*                                                                         *)
(* One remote folder is synced, into one of several local ones: a pair is  *)
(* its local folder.  All its files have one content each, so that what is *)
(* wrong is never an edit: see Sync for those.                             *)
(***************************************************************************)
EXTENDS Naturals, FiniteSets

CONSTANTS
  Dirs,       \* local folders
  Files,      \* names beneath the remote folder
  Large,      \* those of laneMinBytes or more
  Loops,      \* watcher goroutines, a bound on how many live at once
  Jobs,       \* laneJob objects, likewise
  Happens,    \* what else happens: see Incidents
  OpsMax,     \* what the user does to folders, at most
  HappensMax, \* how much of that happens, at most
  None

Incidents == {"crash", "drop", "fail", "halfMove", "recall", "setAside", "slow"}

ASSUME FoldersAssumption ==
  /\ IsFiniteSet(Jobs) /\ Large \subseteq Files
  /\ Happens \subseteq Incidents /\ OpsMax \in Nat /\ HappensMax \in Nat
  /\ None \notin Loops \cup Dirs

VARIABLES
  config, held,   \* the pairs file; the pairs the gate holds back (HeldReason)
  rows,           \* the baseline of each pair
  clone,          \* its clone status
  relist,         \* whether its folder rows were blanked once since it was added
  stamp,          \* whether its folder row has the ETag the server's folder has
  disk, server,   \* the files there are
  away,           \* local folders that are gone, or are empty
  watchers,       \* Engine.watchers
  loop,           \* the watcher goroutines
  stopped,        \* lane.stoppedPairs
  job,            \* the lane's jobs, and what goroutines still owe them
  mark,           \* Engine.inflight
  burst,          \* Engine.progRuns, the lane's share
  op, ops,        \* the user's operation under way; how many there were
  happened,       \* how much else has
  dropped,        \* history: files the user deleted from a configured folder
  strayed         \* history: whether a watcher lost its entries to another's exit

cfgVars   == << config, held >>
storeVars == << rows, clone, relist, stamp >>
loopVars  == << watchers, loop >>
laneVars  == << stopped, job, mark, burst >>
opVars    == << op, ops, happened >>
diskVars  == << disk, away >>
vars == << cfgVars, storeVars, diskVars, server, loopVars, laneVars, opVars, dropped, strayed >>

Kinds   == {"down", "up", "delRemote", "delLocal", "adopt"}
Actions == [do: Kinds, file: Files]
InPass  == {"clone", "cloning", "scan", "plan", "exec"}

NoLoop == [dir |-> None, at |-> "none", cut |-> FALSE, fresh |-> FALSE, more |-> FALSE,
           todo |-> {}, now |-> {}, left |-> FALSE, waits |-> {}]
NoJob  == [at |-> "free", dir |-> None, do |-> "down", file |-> None, end |-> "ran",
           ended |-> TRUE, note |-> "none", recalled |-> FALSE]
NoOp   == [do |-> "none", at |-> "idle", dir |-> None, to |-> None, del |-> FALSE,
           stops |-> {}, starts |-> {}, waits |-> {}]

MoveStages == {"quiet", "lane", "relocate", "purge", "rekey", "save"}
LoopRec == [dir: Dirs \cup {None}, at: InPass \cup {"none", "idle"}, cut: BOOLEAN, fresh: BOOLEAN,
            more: BOOLEAN, todo: SUBSET Actions, now: SUBSET Actions, left: BOOLEAN,
            waits: SUBSET Jobs]
JobRec == [at: {"free", "held", "aside", "stopping", "out", "told"}, dir: Dirs \cup {None},
           do: Kinds, file: Files \cup {None}, end: {"ran", "stopped", "unparked"},
           ended: BOOLEAN, note: {"none", "owed", "passed"}, recalled: BOOLEAN]
OpRec == [do: {"none", "add", "remove", "gate", "move"},
          at: MoveStages \cup {"idle", "stops", "starts", "erase"}, dir: Dirs \cup {None},
          to: Dirs \cup {None}, del: BOOLEAN, stops: SUBSET Dirs, starts: SUBSET Dirs,
          waits: SUBSET Jobs]

CountsOK == burst \in 0 .. Cardinality(Jobs) /\ ops \in 0 .. OpsMax /\ happened \in 0 .. HappensMax
TypeOK ==
  /\ CountsOK
  /\ config \subseteq Dirs /\ held \subseteq Dirs
  /\ rows \in [Dirs -> SUBSET Files] /\ disk \in [Dirs -> SUBSET Files]
  /\ clone \in [Dirs -> {"", "started", "done"}] /\ stamp \in [Dirs -> BOOLEAN]
  /\ relist \in [Dirs -> BOOLEAN]
  /\ server \subseteq Files /\ away \subseteq {d \in Dirs : disk[d] = {}}
  /\ watchers \in [Dirs -> Loops \cup {None}] /\ loop \in [Loops -> LoopRec]
  /\ stopped \subseteq Dirs /\ job \in [Jobs -> JobRec]
  /\ mark \subseteq Dirs \X Files
  /\ op \in OpRec
  /\ dropped \subseteq Files /\ strayed \in BOOLEAN

Init ==
  /\ config \in {{d} : d \in Dirs}
  /\ held = {}
  /\ rows = [d \in Dirs |-> {}]
  /\ clone = [d \in Dirs |-> ""] /\ relist = [d \in Dirs |-> FALSE] /\ stamp = [d \in Dirs |-> FALSE]
  /\ server \in SUBSET Files
  /\ \E has \in SUBSET Files : disk = [d \in Dirs |-> IF d \in config THEN has ELSE {}]
  /\ away \in SUBSET {d \in Dirs : disk[d] = {}} /\ Dirs \ config \subseteq away
  /\ watchers = [d \in Dirs |-> None]
  /\ loop = [l \in Loops |-> NoLoop]
  /\ stopped = {} /\ job = [j \in Jobs |-> NoJob] /\ mark = {} /\ burst = 0
  /\ op = [NoOp EXCEPT !.at = "starts", !.starts = config]   \* Run starts the watchers
  /\ ops = 0 /\ happened = 0 /\ dropped = {} /\ strayed = FALSE

-----------------------------------------------------------------------------
(* What an action does to both sides and to its row.                         *)

Moving == op.do = "move" /\ op.at \in MoveStages
Live(l) == loop[l].at # "none"
Idle(l) == [loop EXCEPT ![l] = [NoLoop EXCEPT !.dir = loop[l].dir, !.at = "idle", !.cut = loop[l].cut]]

May(what) == what \in Happens /\ happened < HappensMax /\ happened' = happened + 1
Free == UNCHANGED happened

\* A change on the server gives the folder another ETag: no row of it is fresh.
Apply(d, a) ==
  /\ server' = IF a.do = "up" THEN server \cup {a.file}
               ELSE IF a.do = "delRemote" THEN server \ {a.file} ELSE server
  /\ disk' = IF a.do = "down" THEN [disk EXCEPT ![d] = @ \cup {a.file}]
             ELSE IF a.do = "delLocal" THEN [disk EXCEPT ![d] = @ \ {a.file}] ELSE disk
  /\ away' = IF a.do = "down" THEN away \ {d} ELSE away
  /\ rows' = [rows EXCEPT ![d] = IF a.do \in {"delRemote", "delLocal"} THEN @ \ {a.file}
                                 ELSE @ \cup {a.file}]
  /\ stamp' = [e \in Dirs |-> stamp[e] /\ server' = server]
Feasible(d, a) == a.do = "up" => a.file \in disk[d]
Fresh(lp) == [l \in Loops |-> [lp[l] EXCEPT !.fresh = @ /\ server' = server]]

-----------------------------------------------------------------------------
(* A full pass, SyncOnce.  A watcher whose context is cancelled may still     *)
(* start one: its requests fail, and an action it began may yet succeed.     *)

\* beginSyncPass fails while a folder moves: nothing happens then.
MayPassAlways == TRUE      \* mutant: the pass does not ask
MayPass == ~Moving
\* relistBegin: once, every folder is listed again, whatever its row says.
BlanksNot(d, st) == relist' = [relist EXCEPT ![d] = TRUE] /\ UNCHANGED stamp     \* mutant
Blanks(d, st) ==
  LET once == st = "done" /\ ~relist[d]
  IN  /\ relist' = [relist EXCEPT ![d] = @ \/ once]
      /\ stamp' = [stamp EXCEPT ![d] = @ /\ ~once]
PassBegins(l) ==
  LET d == loop[l].dir
      \* a pair with rows and no status was synced before there were statuses
      st == IF clone[d] = "" /\ rows[d] # {} THEN "done"
            ELSE IF clone[d] = "" THEN "started" ELSE clone[d]
  IN  /\ loop[l].at = "idle" /\ MayPass
      /\ clone' = [clone EXCEPT ![d] = st]
      /\ Blanks(d, st)
      /\ loop' = [loop EXCEPT ![l].at = IF st = "done" THEN "scan" ELSE "clone",
                              ![l].more = disk[d] # {} /\ st # "done"]
      /\ UNCHANGED << cfgVars, rows, diskVars, server, watchers, laneVars, opVars,
                      dropped, strayed >>

PassFails(l) ==
  /\ loop[l].at \in {"clone", "scan"}
  /\ IF loop[l].cut THEN Free ELSE May("fail")
  /\ loop' = Idle(l)
  /\ UNCHANGED << cfgVars, storeVars, diskVars, server, watchers, laneVars, op, ops,
                  dropped, strayed >>

\* Rows whose files have gone while no pass compared the two.  Known gap: they
\* outlive the folder's removal, and a first sync that did not end; whoever meets
\* them next takes the files for deleted here.
Outlived(d) == rows[d] \ disk[d]
\* cloneRemote lists everything, adopts what is there already and fetches the
\* rest; its folder rows have the listing's ETags from the start.
CloneLists(l) ==
  LET d == loop[l].dir
  IN  /\ loop[l].at = "clone" /\ ~loop[l].cut
      /\ rows' = [rows EXCEPT ![d] = @ \cup (server \cap disk[d])]
      /\ stamp' = [stamp EXCEPT ![d] = TRUE]
      /\ loop' = [loop EXCEPT ![l].at = "cloning",
                              ![l].todo = [do: {"down"}, file: server \ disk[d]]]
      /\ dropped' = dropped \cup Outlived(d)
      /\ UNCHANGED << cfgVars, clone, relist, diskVars, server, watchers, laneVars, opVars,
                      strayed >>

\* The folders above what failed are dirtied, and the clone is done all the same.
DirtiesNot(st, l) == st                    \* mutant
Dirties(st, l) == IF loop[l].left THEN [st EXCEPT ![loop[l].dir] = FALSE] ELSE st
CloneEnds(l) ==
  /\ loop[l].at = "cloning" /\ loop[l].now = {}
  /\ loop[l].todo = {} \/ loop[l].cut
  /\ stamp' = Dirties(stamp, l)
  /\ clone' = IF loop[l].cut THEN clone ELSE [clone EXCEPT ![loop[l].dir] = "done"]
  /\ relist' = [relist EXCEPT ![loop[l].dir] = @ \/ ~loop[l].cut]
  /\ loop' = IF loop[l].cut \/ ~loop[l].more THEN Idle(l)
             ELSE [loop EXCEPT ![l].at = "scan", ![l].left = FALSE]
  /\ UNCHANGED << cfgVars, rows, diskVars, server, watchers, laneVars, opVars,
                  dropped, strayed >>

\* computePlan: beneath a folder whose row is fresh the rows stand for the server.
PlanFor(b, here, there) ==
  [do: {"delLocal"}, file: (b \cap here) \ there] \cup [do: {"delRemote"}, file: (b \cap there) \ here]
  \cup [do: {"down"}, file: there \ (b \cup here)] \cup [do: {"up"}, file: here \ (b \cup there)]
  \cup [do: {"adopt"}, file: (here \cap there) \ b]
\* localRootVanished: a folder that is left inside hides it.
Refuses(d, plan) == d \in away /\ \E a \in plan : a.do = "delRemote"
PassPlans(l) ==
  LET d == loop[l].dir
      seen == IF stamp[d] THEN rows[d] ELSE server
      plan == PlanFor(rows[d], disk[d], seen)
  IN  /\ loop[l].at = "scan" /\ ~loop[l].cut
      /\ loop' = IF Refuses(d, plan) THEN Idle(l)
                 ELSE [loop EXCEPT ![l].at = "plan", ![l].more = FALSE, ![l].todo = plan,
                                         ![l].fresh = TRUE]
      /\ rows' = [rows EXCEPT ![d] = @ \cap (disk[d] \cup seen)]   \* pruneDeadBaselines
      /\ UNCHANGED << cfgVars, clone, relist, stamp, diskVars, server, watchers, laneVars, opVars,
                      dropped, strayed >>

-----------------------------------------------------------------------------
(* The lane's side: stop takes jobs out, done and onPark are told later.  A   *)
(* running one that was stopped is the lane's until its attempt returns.     *)

InLane(d) == {j \in Jobs : job[j].dir = d /\ job[j].at \in {"held", "aside", "stopping"}}
Has(d, x) == {j \in InLane(d) : job[j].file = x}
TakenOut(M) ==
  [j \in Jobs |-> IF j \notin M THEN job[j]
                  ELSE IF job[j].at = "aside" THEN [job[j] EXCEPT !.at = "out", !.end = "stopped", !.recalled = FALSE]
                  ELSE [job[j] EXCEPT !.at = "stopping", !.recalled = FALSE]]
EndedAgain(j) == burst - 1               \* mutant: done and onPark both end the run
Ended(j) == burst - (IF job[j].ended THEN 0 ELSE 1)      \* endOnce

\* gateOnLane: what the lane holds is left to it, but a deletion stops it first.
Held(d, a) == a.do \in {"up", "down", "adopt"} /\ Has(d, a.file) # {}
Gate(l) ==
  LET d == loop[l].dir
      skip == {a \in loop[l].todo : Held(d, a)}
      stop == UNION {Has(d, a.file) : a \in {b \in loop[l].todo : b.do \in {"delLocal", "delRemote"}}}
  IN  /\ loop[l].at = "plan"
      /\ job' = TakenOut(stop)
      /\ loop' = [loop EXCEPT ![l].at = "exec", ![l].todo = @ \ skip, ![l].waits = stop,
                              ![l].left = skip # {}]
      /\ UNCHANGED << cfgVars, storeVars, diskVars, server, watchers, stopped, mark, burst,
                      opVars, dropped, strayed >>

\* sendToLane: a refused job is the pass's own, unless its pair is stopped.
Big(a) == a.file \in Large /\ a.do \in {"up", "down"}
RefusedMarks(p) == mark \cup {p}      \* mutant: leaves the icon of a job the lane refused
Refused(p) == mark \ {p}
SendToLane(l, a) ==
  LET d == loop[l].dir  p == << d, a.file >>
  IN  /\ loop[l].at = "exec" /\ a \in loop[l].todo /\ Big(a) /\ a \notin loop[l].now
      /\ loop[l].waits = {}
      /\ IF d \notin stopped /\ Has(d, a.file) = {}
           THEN /\ \E j \in Jobs :
                     /\ job[j].at = "free"
                     /\ job' = [job EXCEPT ![j] = [NoJob EXCEPT !.at = "held", !.dir = d, !.do = a.do,
                                                     !.file = a.file, !.ended = FALSE]]
                /\ mark' = mark \cup {p} /\ burst' = burst + 1
                /\ loop' = [loop EXCEPT ![l].todo = @ \ {a}, ![l].left = TRUE]
           ELSE /\ UNCHANGED << job, burst >>
                /\ IF d \in stopped \/ loop[l].cut
                     THEN /\ mark' = Refused(p)
                          /\ loop' = [loop EXCEPT ![l].todo = @ \ {a}, ![l].left = TRUE]
                     ELSE /\ mark' = mark \cup {p}      \* beginAction, as the pass runs it
                          /\ loop' = [loop EXCEPT ![l].now = @ \cup {a}]
      /\ UNCHANGED << cfgVars, storeVars, diskVars, server, watchers, stopped, opVars,
                      dropped, strayed >>

-----------------------------------------------------------------------------
(* The executor of a pass or of a clone.                                     *)

Ready(l, a) ==
  /\ a \in loop[l].todo \ loop[l].now /\ ~loop[l].cut
  /\ \/ loop[l].at = "cloning"
     \/ loop[l].at = "exec" /\ loop[l].waits = {} /\ \A b \in loop[l].todo \ loop[l].now : ~Big(b)
Starts(l, a) ==
  /\ Ready(l, a)
  /\ loop' = [loop EXCEPT ![l].now = @ \cup {a}]
  /\ mark' = mark \cup {<< loop[l].dir, a.file >>}
  /\ UNCHANGED << cfgVars, storeVars, diskVars, server, watchers, stopped, job, burst, opVars,
                  dropped, strayed >>

Ends(l, a) ==
  LET d == loop[l].dir
      over == [loop EXCEPT ![l].todo = @ \ {a}, ![l].now = @ \ {a}]
  IN  /\ a \in loop[l].now
      /\ mark' = mark \ {<< d, a.file >>}
      /\ \/ /\ Feasible(d, a) /\ Apply(d, a) /\ Free
            /\ loop' = Fresh(over)
         \/ /\ IF loop[l].cut \/ ~Feasible(d, a) THEN Free ELSE May("fail")
            /\ loop' = [over EXCEPT ![l].left = TRUE]
            /\ UNCHANGED << rows, stamp, diskVars, server >>
      /\ UNCHANGED << cfgVars, clone, relist, watchers, stopped, job, burst, op, ops,
                      dropped, strayed >>

\* maintainDirBaselines: a folder is stamped with what the listing saw unless
\* something beneath it is unfinished.  A cancelled pass stamps nothing, but for
\* one with nothing left to do, which returns before it asks.
StampedAll(st, l) == {[st EXCEPT ![loop[l].dir] = @ \/ loop[l].fresh]}   \* mutant: laneHeld forgotten
Stamped(st, l) ==
  LET clean == [st EXCEPT ![loop[l].dir] = @ \/ loop[l].fresh]
  IN  IF loop[l].left THEN {[st EXCEPT ![loop[l].dir] = FALSE]}
      ELSE IF loop[l].todo # {} THEN {st}
      ELSE IF loop[l].cut THEN {st, clean} ELSE {clean}
PassEnds(l) ==
  /\ loop[l].at = "exec" /\ loop[l].now = {} /\ loop[l].waits = {}
  /\ \A b \in loop[l].todo : ~Big(b) /\ loop[l].cut
  /\ stamp' \in Stamped(stamp, l)
  /\ loop' = Idle(l)
  /\ UNCHANGED << cfgVars, rows, clone, relist, diskVars, server, watchers, laneVars, opVars,
                  dropped, strayed >>

\* The watcher of a cancelled context ends, and clears its pair's entries,
\* whoever's they are by then.
LoopExits(l) ==
  LET d == loop[l].dir
  IN  /\ loop[l].at = "idle" /\ loop[l].cut
      /\ watchers' = [watchers EXCEPT ![d] = None]
      /\ strayed' = (strayed \/ watchers[d] \notin {None, l})
      /\ loop' = [loop EXCEPT ![l] = NoLoop]
      /\ UNCHANGED << cfgVars, storeVars, diskVars, server, laneVars, opVars, dropped >>

-----------------------------------------------------------------------------
(* A lane job: its transfer, being set aside, and what it is told.           *)

\* Known gap: what a recalled job brings to a folder its move has left has a row there,
\* which goes with the move, and hides that the folder is empty should the move fail.
Misleads(j) ==
  IF ~job[j].recalled \/ job[j].do # "down" THEN {}
  ELSE Outlived(job[j].dir)
       \cup IF op.at \in {"purge", "rekey"} /\ op.dir = job[j].dir THEN {job[j].file} ELSE {}
JobReturns(j) ==
  LET d == job[j].dir  a == [do |-> job[j].do, file |-> job[j].file]
  IN  /\ job[j].at \in {"held", "stopping"}
      /\ \/ /\ Feasible(d, a) /\ Apply(d, a) /\ Free
            /\ loop' = Fresh(loop)
            /\ job' = [job EXCEPT ![j].at = "out"]
            /\ dropped' = dropped \cup Misleads(j)
         \/ /\ IF job[j].at = "stopping" \/ ~Feasible(d, a) THEN Free ELSE May("fail")
            /\ job' = [job EXCEPT ![j].at = "out",
                                  ![j].end = IF job[j].at = "stopping" THEN "stopped" ELSE "ran"]
            /\ UNCHANGED << rows, stamp, diskVars, server, loop, dropped >>
      /\ UNCHANGED << cfgVars, clone, relist, watchers, stopped, mark, burst, op, ops, strayed >>

\* Whoever stopped j waits for it no longer.
Released(j) ==
  /\ loop' = [l \in Loops |-> [loop[l] EXCEPT !.waits = @ \ {j}]]
  /\ op' = [op EXCEPT !.waits = @ \ {j}]
\* A pause or a set-aside between the stop of a running job and its attempt's return:
\* exec asks only whether the lane is closed, and puts it back, to be sent again or set
\* aside.  done is not told, and the attempt has ended: its stopper goes on.  (Not before
\* onPark has been called, which is later here: the stopper may wait less.)
Recalled(j) ==
  /\ May("recall")
  /\ job[j].at = "stopping"
  /\ \/ job' = [job EXCEPT ![j].at = "held", ![j].recalled = TRUE]
     \/ job' = [job EXCEPT ![j].at = "aside", ![j].recalled = TRUE, ![j].note = "owed"]
  /\ Released(j)
  /\ UNCHANGED << cfgVars, storeVars, diskVars, server, watchers, stopped, mark, burst, ops,
                  dropped, strayed >>

\* park, or exec once a running one has returned.  (A pause of a job nobody stopped
\* changes nothing here: it is sent again.)
SetAside(j) ==
  /\ May("setAside")
  /\ job[j].at = "held"
  /\ job' = [job EXCEPT ![j].at = "aside", ![j].note = "owed"]
  /\ UNCHANGED << cfgVars, storeVars, diskVars, server, loopVars, stopped, mark, burst, op, ops,
                  dropped, strayed >>

Unpark(j) ==        \* asked for, or its time has come
  /\ job[j].at = "aside"
  /\ job' = [job EXCEPT ![j].at = "out", ![j].end = "unparked"]
  /\ UNCHANGED << cfgVars, storeVars, diskVars, server, loopVars, stopped, mark, burst, opVars,
                  dropped, strayed >>

\* A job is gone once it has been told all.
Told(j, r) == [job EXCEPT ![j] = IF r.at = "told" /\ r.note = "none" THEN NoJob ELSE r]
\* onPark is called without the lane's lock: it looks at left, and then acts.
ParkLooks(j) ==
  /\ job[j].note = "owed"
  /\ job' = Told(j, [job[j] EXCEPT !.note = IF job[j].at = "told" THEN "none" ELSE "passed"])
  /\ UNCHANGED << cfgVars, storeVars, diskVars, server, loopVars, stopped, mark, burst, opVars,
                  dropped, strayed >>
Parked(j) ==
  /\ job[j].note = "passed"
  /\ job' = Told(j, [job[j] EXCEPT !.note = "none", !.ended = TRUE])
  /\ mark' = mark \ {<< job[j].dir, job[j].file >>}
  /\ burst' = Ended(j)
  /\ UNCHANGED << cfgVars, storeVars, diskVars, server, loopVars, stopped, opVars, dropped, strayed >>

\* laneDone: however the job ended, its icon and its progress end, and who
\* stopped it waits no longer.
ClearsParked(j) ==     \* mutant: leaves an unparked job's icon to onPark
  IF job[j].end = "unparked" THEN mark ELSE mark \ {<< job[j].dir, job[j].file >>}
Clears(j) == mark \ {<< job[j].dir, job[j].file >>}
LaneDone(j) ==
  /\ job[j].at = "out"
  /\ job' = Told(j, [job[j] EXCEPT !.at = "told", !.ended = TRUE])
  /\ mark' = Clears(j)
  /\ burst' = Ended(j)
  /\ Released(j)
  /\ UNCHANGED << cfgVars, storeVars, diskVars, server, watchers, stopped, ops, happened,
                  dropped, strayed >>

-----------------------------------------------------------------------------
(* The user's operations on folders, one at a time.  Each ends with          *)
(* ReloadPairs, which stops the watchers of what is no longer wanted and      *)
(* starts those that are missing.                                            *)

Asked == op = NoOp /\ ops < OpsMax
Reload(cfg, hd, o) ==
  [NoOp EXCEPT !.do = o.do, !.dir = o.dir, !.del = o.del, !.at = "stops", !.starts = cfg \ hd,
            !.stops = {d \in Dirs : watchers[d] # None} \ (cfg \ hd)]
\* forgetCloneStatus: the rows stay.
Forgets(d) == clone' = [clone EXCEPT ![d] = ""] /\ relist' = [relist EXCEPT ![d] = FALSE]
Add(d) ==
  /\ Asked /\ config = {}
  /\ Forgets(d)
  /\ config' = {d}
  /\ op' = Reload({d}, held, [NoOp EXCEPT !.do = "add"]) /\ ops' = ops + 1
  /\ dropped' = dropped \cup Outlived(d)
  /\ UNCHANGED << held, rows, stamp, diskVars, server, loopVars, laneVars, happened, strayed >>

Remove(d, del) ==
  /\ Asked /\ d \in config
  /\ config' = config \ {d}
  /\ op' = Reload(config \ {d}, held, [NoOp EXCEPT !.do = "remove", !.dir = d, !.del = del])
  /\ ops' = ops + 1
  /\ UNCHANGED << held, storeVars, diskVars, server, loopVars, laneVars, happened, dropped, strayed >>

HoldBack(d) ==       \* the gate changes its mind: another account uses the folder, or no more
  /\ Asked /\ d \in config
  /\ held' = IF d \in held THEN held \ {d} ELSE held \cup {d}
  /\ op' = Reload(config, held', [NoOp EXCEPT !.do = "gate"]) /\ ops' = ops + 1
  /\ UNCHANGED << config, storeVars, diskVars, server, loopVars, laneVars, happened, dropped, strayed >>

\* stopWatcher and stopLanePair: the pass under way is cancelled, not waited for.
CutNone(d) == loop             \* mutant: forgets to cancel
Cut(d) == IF watchers[d] = None THEN loop ELSE [loop EXCEPT ![watchers[d]].cut = TRUE]
LaneStops(d, o) ==
  /\ stopped' = stopped \cup {d}
  /\ job' = TakenOut(InLane(d))
  /\ op' = [o EXCEPT !.waits = InLane(d)]
StopWatcher(d) ==
  /\ op.at = "stops" /\ d \in op.stops /\ op.waits = {}
  /\ watchers' = [watchers EXCEPT ![d] = None]
  /\ loop' = Cut(d)
  /\ LaneStops(d, [op EXCEPT !.stops = @ \ {d}])
  /\ UNCHANGED << cfgVars, storeVars, diskVars, server, mark, burst, ops, happened, dropped, strayed >>
StopsEnd ==
  /\ op.at = "stops" /\ op.stops = {} /\ op.waits = {}
  /\ op' = [op EXCEPT !.at = "starts", !.waits = {}]
  /\ UNCHANGED << cfgVars, storeVars, diskVars, server, loopVars, laneVars, ops, happened, dropped, strayed >>

StaysStopped(d) == stopped     \* mutant: allowPair forgotten
Allowed(d) == stopped \ {d}
StartWatcher(d) ==
  /\ op.at = "starts" /\ d \in op.starts
  /\ IF watchers[d] # None THEN UNCHANGED << loopVars, stopped >>
     ELSE \E l \in Loops :
            /\ ~Live(l)
            /\ watchers' = [watchers EXCEPT ![d] = l]
            /\ loop' = [loop EXCEPT ![l] = [NoLoop EXCEPT !.dir = d, !.at = "idle"]]
            /\ stopped' = Allowed(d)
  /\ op' = [op EXCEPT !.starts = @ \ {d}]
  /\ UNCHANGED << cfgVars, storeVars, diskVars, server, job, mark, burst, ops, happened, dropped, strayed >>

\* Removing a folder clears its clone status, and with deleteLocal its files.
ReloadEnds ==
  /\ op.at = "starts" /\ op.starts = {}
  /\ IF op.do = "remove" THEN Forgets(op.dir) ELSE UNCHANGED << clone, relist >>
  /\ op' = IF op.do = "remove" /\ op.del THEN [op EXCEPT !.at = "erase"] ELSE NoOp
  /\ UNCHANGED << cfgVars, rows, stamp, diskVars, server, loopVars, laneVars, ops, happened, dropped, strayed >>
Erase(x) ==
  /\ op.at = "erase" /\ x \in disk[op.dir]
  /\ disk' = [disk EXCEPT ![op.dir] = @ \ {x}]
  /\ UNCHANGED << cfgVars, storeVars, away, server, loopVars, laneVars, opVars, dropped, strayed >>
\* RemoveAll may fail, and leave some of it.
EraseEnds ==
  /\ op.at = "erase"
  /\ \/ disk[op.dir] = {} /\ away' = away \cup {op.dir} /\ Free
     \/ away' = away /\ May("fail")
  /\ op' = NoOp
  /\ UNCHANGED << cfgVars, storeVars, disk, server, loopVars, laneVars, ops, dropped, strayed >>

-----------------------------------------------------------------------------
(* MoveSyncPair.                                                             *)

\* beginMove, and stopWatcherSync up to its wait.
NoPassHere == \A l \in Loops : loop[l].dir = op.dir => loop[l].at \notin InPass   \* mutant
NoPass == \A l \in Loops : loop[l].at \notin InPass
MoveBegins(d, to) ==
  /\ Asked /\ d \in config /\ to \notin config
  /\ NoPass
  /\ watchers' = [watchers EXCEPT ![d] = None]
  /\ loop' = Cut(d)
  /\ op' = [NoOp EXCEPT !.do = "move", !.at = "quiet", !.dir = d, !.to = to]
  /\ ops' = ops + 1
  /\ UNCHANGED << cfgVars, storeVars, diskVars, server, laneVars, happened, dropped, strayed >>
\* The watcher's goroutine has ended, or it has not for 30 s.
MoveStopsLane ==
  /\ op.at = "quiet"
  /\ IF \E l \in Loops : loop[l].dir = op.dir THEN May("slow") ELSE Free
  /\ LaneStops(op.dir, [op EXCEPT !.at = "lane"])
  /\ UNCHANGED << cfgVars, storeVars, diskVars, server, loopVars, mark, burst, ops, dropped, strayed >>
MoveQuiet ==
  /\ op.at = "lane" /\ op.waits = {}
  /\ op' = [op EXCEPT !.at = "relocate", !.waits = {}]
  /\ UNCHANGED << cfgVars, storeVars, diskVars, server, loopVars, laneVars, ops, happened, dropped, strayed >>
\* relocateFolder: a rename, or across volumes a copy that is verified before
\* the original goes.
Relocate ==
  /\ op.at = "relocate" /\ op.to \in away
  /\ \/ /\ disk' = [disk EXCEPT ![op.to] = disk[op.dir], ![op.dir] = {}]
        /\ away' = (away \cup {op.dir}) \ (IF op.dir \in away THEN {} ELSE {op.to})
        /\ op' = [op EXCEPT !.at = "rekey"]
     \/ /\ disk' = [disk EXCEPT ![op.to] = disk[op.dir]]
        /\ away' = IF op.dir \in away THEN away ELSE away \ {op.to}
        /\ op' = [op EXCEPT !.at = "purge"]
  /\ UNCHANGED << cfgVars, storeVars, server, loopVars, laneVars, ops, happened, dropped, strayed >>
Purge(x) ==
  /\ op.at = "purge" /\ x \in disk[op.dir]
  /\ disk' = [disk EXCEPT ![op.dir] = @ \ {x}]
  /\ UNCHANGED << cfgVars, storeVars, away, server, loopVars, laneVars, opVars, dropped, strayed >>
PurgeEnds ==         \* what could not be removed stays
  /\ op.at = "purge"
  /\ \/ disk[op.dir] = {} /\ away' = away \cup {op.dir} /\ Free
     \/ away' = away /\ May("fail")
  /\ op' = [op EXCEPT !.at = "rekey"]
  /\ UNCHANGED << cfgVars, storeVars, disk, server, loopVars, laneVars, ops, dropped, strayed >>

\* Known gap: what ends a move now leaves the configuration with a folder that
\* has lost some of its files.
Halved == op.at \in {"purge", "rekey", "save"} /\ op.dir \notin away
Moved(f, empty) == [f EXCEPT ![op.to] = f[op.dir], ![op.dir] = empty]
Rekey ==
  /\ op.at = "rekey" /\ rows[op.to] = {}
  /\ rows' = Moved(rows, {}) /\ stamp' = Moved(stamp, FALSE)
  /\ clone' = IF clone[op.dir] = "" THEN clone ELSE Moved(clone, "")
  /\ relist' = Moved(relist, FALSE)
  /\ op' = [op EXCEPT !.at = "save"]
  /\ UNCHANGED << cfgVars, diskVars, server, loopVars, laneVars, ops, happened, dropped, strayed >>
MoveSaves ==
  /\ op.at = "save"
  /\ config' = (config \ {op.dir}) \cup {op.to}
  /\ op' = Reload(config', held, op)
  /\ UNCHANGED << held, storeVars, diskVars, server, loopVars, laneVars, ops, happened, dropped, strayed >>
\* The folder that the configuration still names is watched again.
MoveFails ==
  /\ \/ op.at = "relocate" /\ (op.to \notin away \/ op.dir \in away) /\ Free
     \/ op.at = "rekey" /\ rows[op.to] # {} /\ Free
     \/ op.at \in {"relocate", "rekey", "save"} /\ May("fail")
  /\ Halved => "halfMove" \in Happens
  /\ op' = Reload(config, held, op)
  /\ UNCHANGED << cfgVars, storeVars, diskVars, server, loopVars, laneVars, ops, dropped, strayed >>

-----------------------------------------------------------------------------
Drop(d, x) ==        \* the user deletes a file
  /\ May("drop")
  /\ op = NoOp /\ x \in disk[d]
  /\ disk' = [disk EXCEPT ![d] = @ \ {x}]
  /\ away' \in {away} \cup (IF disk'[d] = {} THEN {away \cup {d}} ELSE {})
  /\ dropped' = dropped \cup {x}
  /\ UNCHANGED << cfgVars, storeVars, server, loopVars, laneVars, op, ops, strayed >>

\* The process ends; what is on disk and in the store stays, and Run starts over.
Crash ==
  /\ May("crash")
  /\ Halved => "halfMove" \in Happens
  /\ watchers' = [d \in Dirs |-> None]
  /\ loop' = [l \in Loops |-> NoLoop]
  /\ stopped' = {} /\ job' = [j \in Jobs |-> NoJob] /\ mark' = {} /\ burst' = 0
  /\ op' = [NoOp EXCEPT !.at = "starts", !.starts = config \ held]
  /\ UNCHANGED << cfgVars, storeVars, diskVars, server, ops, dropped, strayed >>

LoopStep(l) ==
  \/ PassBegins(l) \/ PassFails(l) \/ CloneLists(l) \/ CloneEnds(l) \/ PassPlans(l) \/ Gate(l)
  \/ PassEnds(l) \/ LoopExits(l)
  \/ \E a \in Actions : SendToLane(l, a) \/ Starts(l, a) \/ Ends(l, a)
JobStep(j) ==
  \/ JobReturns(j) \/ Recalled(j) \/ SetAside(j) \/ Unpark(j) \/ ParkLooks(j) \/ Parked(j) \/ LaneDone(j)
OpStep ==
  \/ \E d \in Dirs : Add(d) \/ HoldBack(d) \/ StopWatcher(d) \/ StartWatcher(d)
  \/ \E d \in Dirs, del \in BOOLEAN : Remove(d, del)
  \/ \E d, to \in Dirs : MoveBegins(d, to)
  \/ StopsEnd \/ ReloadEnds \/ EraseEnds \/ MoveStopsLane \/ MoveQuiet \/ Relocate
  \/ PurgeEnds \/ Rekey \/ MoveSaves \/ MoveFails
  \/ \E x \in Files : Erase(x) \/ Purge(x)

Next ==
  \/ \E l \in Loops : LoopStep(l)
  \/ \E j \in Jobs : JobStep(j)
  \/ OpStep
  \/ \E d \in Dirs, x \in Files : Drop(d, x)
  \/ Crash

Spec == Init /\ [][Next]_vars
-----------------------------------------------------------------------------
(* Safety *)

\* Nothing leaves the server but what the user deleted from the folder while it
\* was synced: not because the folder was moved, removed, erased or held back
\* with a pass under way.  (Known gaps: a watcher whose entries another's exit
\* has taken can no longer be stopped: LoopExits; and what a recalled job brought to a
\* folder its move had left: Misleads.)
ServerKept ==
  [][\A x \in server \ server' :
       x \in dropped \/ strayed]_vars

\* While a folder's files and rows are being moved no pass looks at any folder, and no
\* transfer of either place is in the lane, set aside or still being stopped.
\* (Known gaps: a job that a pause or a set-aside put back after the folder's stop, which
\* nothing then stops, and which may transfer into the folder as it moves; and a
\* watcher that strayed may have left its jobs in the folder moved to.)
MoveAlone ==
  op.at \in {"relocate", "purge", "rekey", "save"} =>
    /\ NoPass
    /\ \A j \in Jobs : job[j].at \in {"held", "aside", "stopping"} /\ ~job[j].recalled =>
         job[j].dir # op.dir /\ (job[j].dir = op.to => strayed)

\* Icons and progress end with the work: a path is marked only while a pass runs its
\* action or a job of it has not been told, and the progress runs the lane
\* counts are those of the jobs that have not ended theirs.
NothingStays ==
  /\ burst = Cardinality({j \in Jobs : ~job[j].ended})
  /\ \A p \in mark :
       \/ \E j \in Jobs : job[j].at \in {"held", "aside", "stopping", "out"} /\ << job[j].dir, job[j].file >> = p
       \/ \E l \in Loops : loop[l].dir = p[1] /\ \E a \in loop[l].now : a.file = p[2]

\* A folder whose row would let the next scan pass it over has nothing undone
\* beneath it: no transfer left to the lane, failed or cancelled is forgotten.
SettledIsDone ==
  ~strayed => \A d \in Dirs : stamp[d] /\ clone[d] = "done" /\ relist[d] => server \subseteq rows[d]

\* When no operation is under way, what is watched is what is configured, and
\* the lane takes its transfers.  (Known gap: strayed, as above.)
WatchedAsConfigured ==
  op = NoOp /\ ~strayed =>
    \A d \in Dirs :
      LET live == {l \in Loops : loop[l].dir = d /\ ~loop[l].cut}
      IN  /\ d \notin config \ held => live = {}
          /\ d \in config \ held =>
               /\ \E l \in Loops : loop[l].dir = d /\ ~loop[l].cut
               /\ d \notin stopped
=============================================================================
