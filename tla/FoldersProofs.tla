--------------------------- MODULE FoldersProofs ---------------------------
(***************************************************************************)
(* Proofs about Folders: whatever the folders and files, the goroutines    *)
(* and jobs at once, and however often the user changes the folders.       *)
(***************************************************************************)
EXTENDS Folders, TLAPS, FiniteSetTheorems

InTheLane(j) == job[j].at \in {"held", "aside"} /\ ~job[j].recalled
Takeable(j)  == job[j].at \in {"held", "aside", "stopping"}
Watched(d)   == watchers[d] # None

(***************************************************************************)
(* What goroutines, jobs and operations look like; and the goroutine of a  *)
(* pair in the table of watchers is its own.                               *)
(***************************************************************************)
LoopsOK == \A l \in Loops :
  /\ loop[l].at = "none" => loop[l] = NoLoop
  /\ loop[l].at # "none" => loop[l].dir \in Dirs
  /\ loop[l].at \notin {"cloning", "exec"} => loop[l].now = {}
  /\ loop[l].at # "exec" => loop[l].waits = {}
Attended == \A d \in Dirs : Watched(d) => loop[watchers[d]].dir = d
JobsOK == \A j \in Jobs :
  /\ job[j].at # "free" => job[j].dir \in Dirs /\ job[j].file \in Files
  /\ job[j].at \in {"free", "told"} => job[j].ended
  /\ job[j].at \in {"free", "held", "stopping"} => job[j].note = "none"
OpOK ==
  /\ op.at = "erase" => op.do = "remove"
  /\ op.do \in {"move", "remove"} => op.dir \in Dirs
  /\ op.at \in MoveStages => op.do = "move" /\ op.to \in Dirs /\ op.to # op.dir
Counted == burst = Cardinality({j \in Jobs : ~job[j].ended})
ShapeOK == LoopsOK /\ Attended /\ JobsOK /\ OpOK /\ Counted
TypeInv == TypeOK /\ ShapeOK

(***************************************************************************)
(* Who is watched.  The goroutine of a pair in the table is not            *)
(* cancelled, and its transfers are let into the lane; the pair is         *)
(* configured, or about to be stopped.  Unless one strayed, there is no    *)
(* other goroutine that is not cancelled.                                  *)
(***************************************************************************)
WatchersOK == \A d \in Dirs : Watched(d) =>
  /\ ~loop[watchers[d]].cut /\ d \notin stopped
  /\ d \in config \ held \/ (op.at = "stops" /\ d \in op.stops)
NoOther == ~strayed => \A l \in Loops :
  loop[l].at # "none" /\ ~loop[l].cut => watchers[loop[l].dir] = l
StartsOK ==
  /\ op.starts \subseteq config \ held
  /\ op.at = "stops" => op.starts = config \ held
  /\ op.at \in {"starts", "idle", "erase"} /\ ~strayed =>
       \A d \in config \ held : Watched(d) \/ d \in op.starts
  /\ op.at \notin {"starts", "stops"} => op.starts = {}
WatchInv == WatchersOK /\ NoOther /\ StartsOK

(***************************************************************************)
(* Whose jobs are in the lane.  A stopped pair has none; one that is       *)
(* neither watched nor stopped has neither jobs nor passes to make some,   *)
(* but for the one whose move has only begun; a job that is                *)
(* stopping is waited for by who stopped it.  What a pause or a set-aside   *)
(* put back after a stop is left out: nothing keeps it out of the lane.     *)
(***************************************************************************)
NoneStopped == \A j \in Jobs : InTheLane(j) => job[j].dir \notin stopped
Deserted(d) == ~Watched(d) /\ d \notin stopped /\ ~(op.at = "quiet" /\ d = op.dir)
NoneDeserted == ~strayed => \A d \in Dirs : Deserted(d) =>
  /\ \A l \in Loops : loop[l].dir # d
  /\ \A j \in Jobs : InTheLane(j) => job[j].dir # d
Awaited(j)   == j \in op.waits \/ \E l \in Loops : j \in loop[l].waits
StopsAwaited == \A j \in Jobs : job[j].at = "stopping" => Awaited(j)
LaneInv == NoneStopped /\ NoneDeserted /\ StopsAwaited
MoveInv ==
  /\ op.at \in MoveStages => NoPass /\ ~Watched(op.dir) /\ ~Watched(op.to)
  /\ op.at \in MoveStages \ {"quiet"} => op.dir \in stopped
  /\ op.at \notin {"stops", "lane"} => op.waits = {}
AloneInv == WatchInv /\ LaneInv /\ MoveInv

-----------------------------------------------------------------------------
(* Type correctness *)

LEMMA Records == NoLoop \in LoopRec /\ NoJob \in JobRec /\ NoOp \in OpRec
  BY DEF NoLoop, NoJob, NoOp, LoopRec, JobRec, OpRec, Kinds, MoveStages, InPass

LEMMA OneLoop ==
  ASSUME loop \in [Loops -> LoopRec], NEW l \in Loops, NEW r \in LoopRec
  PROVE  [loop EXCEPT ![l] = r] \in [Loops -> LoopRec]
  OBVIOUS

LEMMA OneField ==
  ASSUME NEW lp \in [Loops -> LoopRec], NEW l \in Loops
  PROVE  /\ \A x \in InPass \cup {"none", "idle"} : [lp EXCEPT ![l].at = x] \in [Loops -> LoopRec]
         /\ \A x \in BOOLEAN : /\ [lp EXCEPT ![l].fresh = x] \in [Loops -> LoopRec]
                              /\ [lp EXCEPT ![l].more = x] \in [Loops -> LoopRec]
                              /\ [lp EXCEPT ![l].left = x] \in [Loops -> LoopRec]
         /\ \A x \in SUBSET Actions : /\ [lp EXCEPT ![l].todo = x] \in [Loops -> LoopRec]
                                     /\ [lp EXCEPT ![l].now = x] \in [Loops -> LoopRec]
         /\ \A x \in SUBSET Jobs : [lp EXCEPT ![l].waits = x] \in [Loops -> LoopRec]
  BY DEF LoopRec

LEMMA OneJob ==
  ASSUME job \in [Jobs -> JobRec], NEW j \in Jobs, NEW r \in JobRec
  PROVE  [job EXCEPT ![j] = r] \in [Jobs -> JobRec]
  OBVIOUS

LEMMA TakenOutType ==
  ASSUME job \in [Jobs -> JobRec], NEW M
  PROVE  TakenOut(M) \in [Jobs -> JobRec]
<1>1. ASSUME NEW j \in Jobs
      PROVE  [job[j] EXCEPT !.at = "stopping", !.recalled = FALSE] \in JobRec
             /\ [job[j] EXCEPT !.at = "out", !.end = "stopped", !.recalled = FALSE] \in JobRec
  BY DEF JobRec
<1> QED
  BY <1>1 DEF TakenOut

LEMMA IdleType ==
  ASSUME loop \in [Loops -> LoopRec], NEW l \in Loops
  PROVE  Idle(l) \in [Loops -> LoopRec]
<1>1. [NoLoop EXCEPT !.dir = loop[l].dir, !.at = "idle", !.cut = loop[l].cut] \in LoopRec
  BY DEF NoLoop, LoopRec, InPass
<1> QED
  BY <1>1 DEF Idle

LEMMA FreshType ==
  ASSUME NEW lp \in [Loops -> LoopRec]
  PROVE  Fresh(lp) \in [Loops -> LoopRec]
<1>1. ASSUME NEW l \in Loops
      PROVE  [lp[l] EXCEPT !.fresh = @ /\ server' = server] \in LoopRec
  BY DEF LoopRec
<1> QED
  BY <1>1 DEF Fresh

LEMMA ApplyType ==
  ASSUME TypeOK, NEW d \in Dirs, NEW a \in Actions, Apply(d, a)
  PROVE  /\ rows' \in [Dirs -> SUBSET Files] /\ disk' \in [Dirs -> SUBSET Files]
         /\ stamp' \in [Dirs -> BOOLEAN] /\ server' \subseteq Files
         /\ away' \subseteq {e \in Dirs : disk'[e] = {}}
<1> USE DEF Apply, TypeOK, Actions
<1>1. rows' \in [Dirs -> SUBSET Files] /\ disk' \in [Dirs -> SUBSET Files] /\ server' \subseteq Files
  OBVIOUS
<1>2. stamp' \in [Dirs -> BOOLEAN]
  OBVIOUS
<1>3. away' \subseteq {e \in Dirs : disk'[e] = {}}
  OBVIOUS
<1> QED
  BY <1>1, <1>2, <1>3

LEMMA LoopNext == TypeInv /\ [Next]_vars => loop' \in [Loops -> LoopRec]
<1> SUFFICES ASSUME TypeInv, [Next]_vars PROVE loop' \in [Loops -> LoopRec]
  OBVIOUS
<1>0. loop \in [Loops -> LoopRec] /\ job \in [Jobs -> JobRec] /\ NoLoop \in LoopRec
  BY Records DEF TypeInv, TypeOK
<1>1. ASSUME NEW l \in Loops, LoopStep(l) PROVE loop' \in [Loops -> LoopRec]
  <2>0. loop[l] \in LoopRec /\ [loop EXCEPT ![l] = NoLoop] \in [Loops -> LoopRec]
        /\ Idle(l) \in [Loops -> LoopRec]
    BY <1>0, IdleType, OneLoop
  <2>1. CASE PassBegins(l)
    <3>1. ASSUME NEW x \in {"scan", "clone"}, NEW y \in BOOLEAN
          PROVE  [loop EXCEPT ![l].at = x, ![l].more = y] \in [Loops -> LoopRec]
      <4> DEFINE f1 == [loop EXCEPT ![l].at = x]
      <4>1. f1 \in [Loops -> LoopRec]
        BY <1>0, OneField DEF InPass
      <4> HIDE DEF f1
      <4>2. [f1 EXCEPT ![l].more = y] \in [Loops -> LoopRec]
        BY <4>1, OneField
      <4> QED
        BY <4>2 DEF f1
    <3> DEFINE d == loop[l].dir
    <3>2. \E x \in {"scan", "clone"}, y \in BOOLEAN :
            loop' = [loop EXCEPT ![l].at = x, ![l].more = y]
      BY <2>1 DEF PassBegins
    <3> QED
      BY <3>1, <3>2
  <2>2. CASE PassFails(l)
    BY <2>0, <2>2 DEF PassFails
  <2>3. CASE CloneLists(l)
    <3>1. [do: {"down"}, file: server \ disk[loop[l].dir]] \in SUBSET Actions
      BY DEF TypeInv, TypeOK, Actions, Kinds
    <3> DEFINE f1 == [loop EXCEPT ![l].at = "cloning"]
    <3>2. f1 \in [Loops -> LoopRec]
      BY <1>0, OneField DEF InPass
    <3> HIDE DEF f1
    <3>3. [f1 EXCEPT ![l].todo = [do: {"down"}, file: server \ disk[loop[l].dir]]]
            \in [Loops -> LoopRec]
      BY <3>1, <3>2, OneField
    <3> QED
      BY <2>3, <3>3 DEF CloneLists, f1
  <2>4. CASE CloneEnds(l)
    <3>1. [loop EXCEPT ![l].at = "scan", ![l].left = FALSE] \in [Loops -> LoopRec]
      BY <1>0 DEF LoopRec, InPass
    <3> QED
      BY <2>0, <2>4, <3>1 DEF CloneEnds
  <2>5. CASE PassPlans(l)
    <3> DEFINE d == loop[l].dir
               seen == IF stamp[d] THEN rows[d] ELSE server
               plan == PlanFor(rows[d], disk[d], seen)
    <3>1. d \in Dirs
      BY <2>5 DEF PassPlans, TypeInv, ShapeOK, LoopsOK
    <3>2. plan \in SUBSET Actions
      BY <3>1 DEF PlanFor, TypeInv, TypeOK, Actions, Kinds
    <3> HIDE DEF plan
    <3>3. [loop EXCEPT ![l].at = "plan", ![l].more = FALSE, ![l].todo = plan, ![l].fresh = TRUE]
            \in [Loops -> LoopRec]
      <4> DEFINE f1 == [loop EXCEPT ![l].at = "plan"]
                 f2 == [f1 EXCEPT ![l].more = FALSE]
                 f3 == [f2 EXCEPT ![l].todo = plan]
      <4>1. f1 \in [Loops -> LoopRec]
        BY <1>0, OneField DEF InPass
      <4> HIDE DEF f1
      <4>2. f2 \in [Loops -> LoopRec]
        BY <4>1, OneField
      <4> HIDE DEF f2
      <4>3. f3 \in [Loops -> LoopRec]
        BY <3>2, <4>2, OneField
      <4> HIDE DEF f3
      <4>4. [f3 EXCEPT ![l].fresh = TRUE] \in [Loops -> LoopRec]
        BY <4>3, OneField
      <4> QED
        BY <4>4 DEF f1, f2, f3
    <3> QED
      BY <2>0, <2>5, <3>3 DEF PassPlans, plan
  <2>6. CASE Gate(l)
    <3> DEFINE d == loop[l].dir
               skip == {a \in loop[l].todo : Held(d, a)}
               stop == UNION {Has(d, a.file) : a \in {b \in loop[l].todo : b.do \in {"delLocal", "delRemote"}}}
    <3>1. stop \in SUBSET Jobs /\ (skip # {}) \in BOOLEAN
      BY DEF Has, InLane
    <3> HIDE DEF skip, stop
    <3>2. [loop EXCEPT ![l].at = "exec", ![l].todo = @ \ skip, ![l].waits = stop, ![l].left = skip # {}]
            \in [Loops -> LoopRec]
      <4> DEFINE f1 == [loop EXCEPT ![l].at = "exec"]
                 f2 == [f1 EXCEPT ![l].todo = @ \ skip]
                 f3 == [f2 EXCEPT ![l].waits = stop]
      <4>1. f1 \in [Loops -> LoopRec]
        BY <1>0, OneField DEF InPass
      <4> HIDE DEF f1
      <4>2. f2 \in [Loops -> LoopRec]
        <5>1. f1[l].todo \ skip \in SUBSET Actions
          BY <4>1 DEF LoopRec
        <5> QED
          BY <4>1, <5>1, OneField
      <4> HIDE DEF f2
      <4>3. f3 \in [Loops -> LoopRec]
        BY <3>1, <4>2, OneField
      <4> HIDE DEF f3
      <4>4. [f3 EXCEPT ![l].left = (skip # {})] \in [Loops -> LoopRec]
        BY <3>1, <4>3, OneField
      <4> QED
        BY <4>4 DEF f1, f2, f3
    <3> QED
      BY <2>6, <3>2 DEF Gate, skip, stop
  <2>7. CASE PassEnds(l)
    BY <2>0, <2>7 DEF PassEnds
  <2>8. CASE LoopExits(l)
    BY <2>0, <2>8 DEF LoopExits
  <2>9. ASSUME NEW a \in Actions, SendToLane(l, a) PROVE loop' \in [Loops -> LoopRec]
    <3>1. [loop EXCEPT ![l].todo = @ \ {a}, ![l].left = TRUE] \in [Loops -> LoopRec]
      BY <1>0 DEF LoopRec
    <3>2. [loop EXCEPT ![l].now = @ \cup {a}] \in [Loops -> LoopRec]
      BY <1>0 DEF LoopRec
    <3> QED
      BY <2>9, <3>1, <3>2 DEF SendToLane
  <2>10. ASSUME NEW a \in Actions, Starts(l, a) PROVE loop' \in [Loops -> LoopRec]
    BY <1>0, <2>10 DEF Starts, LoopRec
  <2>11. ASSUME NEW a \in Actions, Ends(l, a) PROVE loop' \in [Loops -> LoopRec]
    <3> DEFINE over == [loop EXCEPT ![l].todo = @ \ {a}, ![l].now = @ \ {a}]
    <3>1. over \in [Loops -> LoopRec]
      BY <1>0 DEF LoopRec
    <3> HIDE DEF over
    <3>2. [over EXCEPT ![l].left = TRUE] \in [Loops -> LoopRec]
      BY <3>1, OneField
    <3> QED
      BY <2>11, <3>1, <3>2, FreshType DEF Ends, over
  <2> QED
    BY <1>1, <2>1, <2>2, <2>3, <2>4, <2>5, <2>6, <2>7, <2>8, <2>9, <2>10, <2>11 DEF LoopStep
<1>2. ASSUME NEW j \in Jobs, JobStep(j) PROVE loop' \in [Loops -> LoopRec]
  <2>1. CASE Recalled(j) \/ LaneDone(j)
    <3>1. ASSUME NEW l \in Loops PROVE [loop[l] EXCEPT !.waits = @ \ {j}] \in LoopRec
      BY <1>0 DEF LoopRec
    <3> QED
      BY <2>1, <3>1 DEF Recalled, LaneDone, Released
  <2>2. CASE JobReturns(j)
    BY <1>0, <2>2, FreshType DEF JobReturns
  <2> QED
    BY <1>0, <1>2, <2>1, <2>2 DEF JobStep, SetAside, Unpark, ParkLooks, Parked, loopVars
<1>3. CASE OpStep
  <2>1. ASSUME NEW d \in Dirs PROVE Cut(d) \in [Loops -> LoopRec]
    <3>1. CASE watchers[d] = None
      BY <1>0, <3>1 DEF Cut
    <3>2. CASE watchers[d] # None
      <4>1. watchers[d] \in Loops
        BY <3>2 DEF TypeInv, TypeOK
      <4> QED
        BY <1>0, <3>2, <4>1 DEF Cut, LoopRec
    <3> QED
      BY <3>1, <3>2
  <2>2. ASSUME NEW d \in Dirs, StartWatcher(d) PROVE loop' \in [Loops -> LoopRec]
    <3>1. [NoLoop EXCEPT !.dir = d, !.at = "idle"] \in LoopRec
      BY DEF NoLoop, LoopRec
    <3> QED
      BY <1>0, <2>2, <3>1, OneLoop DEF StartWatcher, loopVars
  <2>3. ASSUME NEW d \in Dirs, StopWatcher(d) \/ \E to \in Dirs : MoveBegins(d, to)
        PROVE  loop' \in [Loops -> LoopRec]
    BY <2>1, <2>3 DEF StopWatcher, MoveBegins
  <2> QED
    BY <1>0, <1>3, <2>2, <2>3 DEF OpStep, Add, HoldBack, Remove, StopsEnd, ReloadEnds, EraseEnds,
         MoveStopsLane, MoveQuiet, Relocate, PurgeEnds, Rekey, MoveSaves, MoveFails, Erase, Purge, loopVars
<1>4. CASE Crash
  BY <1>0, <1>4 DEF Crash
<1> QED
  BY <1>0, <1>1, <1>2, <1>3, <1>4 DEF Next, Drop, vars, loopVars

\* What a step does to the jobs and to the progress they are counted in.
NewJob(d, a) == [NoJob EXCEPT !.at = "held", !.dir = d, !.do = a.do, !.file = a.file, !.ended = FALSE]
Taken     == UNCHANGED burst /\ \E M \in SUBSET {j \in Jobs : Takeable(j)} : job' = TakenOut(M)
Submitted == \E j \in Jobs, d \in Dirs, a \in Actions :
  job[j].at = "free" /\ burst' = burst + 1 /\ job' = [job EXCEPT ![j] = NewJob(d, a)]
Returned  == UNCHANGED burst /\ \E j \in Jobs : job[j].at # "free"
  /\ \/ job' = [job EXCEPT ![j].at = "out"]
     \/ \E e \in {"ran", "stopped", "unparked"} : job' = [job EXCEPT ![j].at = "out", ![j].end = e]
PutAside  == UNCHANGED burst /\ \E j \in Jobs :
  job[j].at = "held" /\ job' = [job EXCEPT ![j].at = "aside", ![j].note = "owed"]
PutBack   == UNCHANGED burst /\ \E j \in Jobs : job[j].at = "stopping"
  /\ \/ job' = [job EXCEPT ![j].at = "held", ![j].recalled = TRUE]
     \/ job' = [job EXCEPT ![j].at = "aside", ![j].recalled = TRUE, ![j].note = "owed"]
Noted     == UNCHANGED burst /\ \E j \in Jobs, n \in {"none", "passed"} :
  job[j].note = "owed" /\ job' = Told(j, [job[j] EXCEPT !.note = n])
EndedOne  == \E j \in Jobs : burst' = Ended(j)
  /\ \/ job[j].at = "out" /\ job' = Told(j, [job[j] EXCEPT !.at = "told", !.ended = TRUE])
     \/ job[j].note = "passed" /\ job' = Told(j, [job[j] EXCEPT !.note = "none", !.ended = TRUE])
Forgotten == job' = [j \in Jobs |-> NoJob] /\ burst' = 0
JobEffect == \/ UNCHANGED << job, burst >> \/ Taken \/ Submitted \/ Returned \/ PutAside \/ PutBack
             \/ Noted \/ EndedOne \/ Forgotten

LEMMA JobEffects == TypeInv /\ [Next]_vars => JobEffect
<1> SUFFICES ASSUME TypeInv, [Next]_vars PROVE JobEffect
  OBVIOUS
<1>1. ASSUME NEW l \in Loops, LoopStep(l) PROVE JobEffect
  <2>1. CASE Gate(l)
    <3>1. \E M \in SUBSET {j \in Jobs : Takeable(j)} : job' = TakenOut(M)
      <4> DEFINE stop == UNION {Has(loop[l].dir, a.file) : a \in {b \in loop[l].todo : b.do \in {"delLocal", "delRemote"}}}
      <4>1. stop \in SUBSET {j \in Jobs : Takeable(j)}
        BY DEF Has, InLane, Takeable
      <4> QED
        BY <2>1, <4>1 DEF Gate
    <3> QED
      BY <2>1, <3>1 DEF Gate, JobEffect, Taken
  <2>2. ASSUME NEW a \in Actions, SendToLane(l, a) PROVE JobEffect
    <3>1. loop[l].dir \in Dirs
      BY <2>2 DEF SendToLane, TypeInv, ShapeOK, LoopsOK
    <3>2. CASE loop[l].dir \notin stopped /\ Has(loop[l].dir, a.file) = {}
      <4>1. PICK j \in Jobs : job[j].at = "free" /\ job' = [job EXCEPT ![j] = NewJob(loop[l].dir, a)]
        BY <2>2, <3>2 DEF SendToLane, NewJob
      <4>2. burst' = burst + 1
        BY <2>2, <3>2 DEF SendToLane
      <4> QED
        BY <3>1, <4>1, <4>2 DEF JobEffect, Submitted
    <3>3. CASE ~(loop[l].dir \notin stopped /\ Has(loop[l].dir, a.file) = {})
      <4>1. UNCHANGED << job, burst >>
        BY <2>2, <3>3 DEF SendToLane
      <4> QED
        BY <4>1 DEF JobEffect
    <3> QED
      BY <3>2, <3>3
  <2> QED
    BY <1>1, <2>1, <2>2 DEF LoopStep, JobEffect, PassBegins, PassFails, CloneLists, CloneEnds, PassPlans,
         PassEnds, LoopExits, Starts, Ends, laneVars
<1>2. ASSUME NEW j \in Jobs, JobStep(j) PROVE JobEffect
  <2>1. CASE JobReturns(j)
    BY <2>1 DEF JobReturns, JobEffect, Returned
  <2>2. CASE SetAside(j)
    BY <2>2 DEF SetAside, JobEffect, PutAside
  <2>3. CASE Unpark(j)
    BY <2>3 DEF Unpark, JobEffect, Returned
  <2>4. CASE ParkLooks(j)
    BY <2>4 DEF ParkLooks, JobEffect, Noted
  <2>5. CASE Parked(j)
    BY <2>5 DEF Parked, JobEffect, EndedOne
  <2>6. CASE LaneDone(j)
    BY <2>6 DEF LaneDone, JobEffect, EndedOne
  <2>7. CASE Recalled(j)
    BY <2>7 DEF Recalled, JobEffect, PutBack
  <2> QED
    BY <1>2, <2>1, <2>2, <2>3, <2>4, <2>5, <2>6, <2>7 DEF JobStep
<1>3. CASE OpStep
  <2>1. ASSUME NEW d \in Dirs, job' = TakenOut(InLane(d)), UNCHANGED burst PROVE JobEffect
    BY <2>1 DEF JobEffect, Taken, InLane, Takeable
  <2>2. op.at = "quiet" => op.dir \in Dirs
    BY DEF TypeInv, ShapeOK, OpOK, MoveStages
  <2> QED
    BY <1>3, <2>1, <2>2 DEF OpStep, Add, HoldBack, Remove, StopsEnd, ReloadEnds, EraseEnds, StopWatcher,
         StartWatcher, LaneStops, MoveBegins, JobEffect,
         MoveStopsLane, MoveQuiet, Relocate, PurgeEnds, Rekey, MoveSaves, MoveFails, Erase, Purge, laneVars
<1>4. CASE Crash
  BY <1>4 DEF Crash, JobEffect, Forgotten
<1> QED
  BY <1>1, <1>2, <1>3, <1>4 DEF Next, Drop, vars, laneVars, JobEffect

LEMMA JobNext == TypeInv /\ [Next]_vars => job' \in [Jobs -> JobRec] /\ JobsOK' /\ Counted'
<1> SUFFICES ASSUME TypeInv, [Next]_vars PROVE job' \in [Jobs -> JobRec] /\ JobsOK' /\ Counted'
  OBVIOUS
<1> DEFINE Open == {j \in Jobs : ~job[j].ended}
<1>0. /\ job \in [Jobs -> JobRec] /\ NoJob \in JobRec /\ JobsOK
      /\ IsFiniteSet(Open) /\ Cardinality(Open) \in Nat /\ burst = Cardinality(Open)
  <2>1. IsFiniteSet(Open)
    BY FoldersAssumption, FS_Subset DEF FoldersAssumption
  <2> QED
    BY <2>1, Records, FS_CardinalityType DEF TypeInv, TypeOK, ShapeOK, Counted
<1>1. ASSUME Open' = Open, UNCHANGED burst PROVE Counted'
  BY <1>0, <1>1 DEF Counted
<1>2. ASSUME NEW j \in Jobs, NEW r \in JobRec, job' = Told(j, r), r.at \notin {"free", "held", "stopping"},
             job[j].at # "free",
             r.dir = job[j].dir, r.file = job[j].file, r.at = "told" => r.ended
      PROVE  /\ job' \in [Jobs -> JobRec] /\ JobsOK'
             /\ Open' = IF r.ended THEN Open \ {j} ELSE Open \cup {j}
  <2>1. CASE r.at = "told" /\ r.note = "none"
    <3>1. job' = [job EXCEPT ![j] = NoJob] /\ r.ended
      BY <1>2, <2>1 DEF Told
    <3> QED
      BY <1>0, <3>1 DEF JobsOK, NoJob
  <2>2. CASE ~(r.at = "told" /\ r.note = "none")
    <3>1. job' = [job EXCEPT ![j] = r]
      BY <1>2, <2>2 DEF Told
    <3> QED
      BY <1>0, <1>2, <3>1 DEF JobsOK
  <2> QED
    BY <2>1, <2>2
<1>3. CASE UNCHANGED << job, burst >>
  BY <1>0, <1>3 DEF JobsOK, Counted
<1>4. CASE Taken
  <2>1. PICK M \in SUBSET {j \in Jobs : Takeable(j)} : job' = TakenOut(M)
    BY <1>4 DEF Taken
  <2>2. job' \in [Jobs -> JobRec]
    BY <1>0, <2>1, TakenOutType
  <2>3. ASSUME NEW j \in Jobs
        PROVE  /\ job'[j].dir = job[j].dir /\ job'[j].file = job[j].file
               /\ job'[j].ended = job[j].ended
               /\ job'[j] = job[j]
                  \/ (job[j].at # "free" /\ job'[j].at = "out")
                  \/ (job[j].at \in {"held", "stopping"} /\ job'[j].at = "stopping" /\ job'[j].note = job[j].note)
    <3>1. CASE j \notin M
      BY <2>1, <3>1 DEF TakenOut
    <3>2. CASE j \in M
      <4>0. job[j] \in JobRec /\ Takeable(j)
        BY <1>0, <2>1, <3>2
      <4>1. CASE job[j].at = "aside"
        <5>1. job'[j] = [job[j] EXCEPT !.at = "out", !.end = "stopped", !.recalled = FALSE]
          BY <2>1, <3>2, <4>1 DEF TakenOut
        <5> QED
          BY <4>0, <4>1, <5>1 DEF JobRec
      <4>2. CASE job[j].at # "aside"
        <5>1. job'[j] = [job[j] EXCEPT !.at = "stopping", !.recalled = FALSE]
          BY <2>1, <3>2, <4>2 DEF TakenOut
        <5> QED
          BY <4>0, <4>2, <5>1 DEF JobRec, Takeable
      <4> QED
        BY <4>1, <4>2
    <3> QED
      BY <3>1, <3>2
  <2>4. JobsOK'
    BY <1>0, <2>3 DEF JobsOK
  <2>5. Open' = Open
    BY <2>3
  <2> QED
    BY <1>1, <1>4, <2>2, <2>4, <2>5 DEF Taken
<1>5. CASE Submitted
  <2>1. PICK j \in Jobs, d \in Dirs, a \in Actions :
          job[j].at = "free" /\ burst' = burst + 1 /\ job' = [job EXCEPT ![j] = NewJob(d, a)]
    BY <1>5 DEF Submitted
  <2>2. NewJob(d, a) \in JobRec /\ NewJob(d, a).dir = d /\ NewJob(d, a).file = a.file
        /\ NewJob(d, a).at = "held" /\ ~NewJob(d, a).ended /\ NewJob(d, a).note = "none"
    BY DEF NewJob, NoJob, JobRec, Actions
  <2>3. job' \in [Jobs -> JobRec] /\ JobsOK'
    BY <1>0, <2>1, <2>2 DEF JobsOK, Actions
  <2>4. j \notin Open /\ Open' = Open \cup {j}
    BY <1>0, <2>1, <2>2 DEF JobsOK
  <2>5. Cardinality(Open') = Cardinality(Open) + 1
    BY <1>0, <2>4, FS_AddElement
  <2> QED
    BY <1>0, <2>1, <2>3, <2>5 DEF Counted
<1>6. CASE Returned
  <2>1. PICK j \in Jobs : job[j].at # "free"
          /\ \/ job' = [job EXCEPT ![j].at = "out"]
             \/ \E e \in {"ran", "stopped", "unparked"} : job' = [job EXCEPT ![j].at = "out", ![j].end = e]
    BY <1>6 DEF Returned
  <2>2. job' \in [Jobs -> JobRec]
    <3>1. ASSUME NEW e \in {"ran", "stopped", "unparked"}, NEW lp \in [Jobs -> JobRec]
          PROVE  [lp EXCEPT ![j].at = "out"] \in [Jobs -> JobRec] /\ [lp EXCEPT ![j].end = e] \in [Jobs -> JobRec]
      BY DEF JobRec
    <3>2. ASSUME NEW e \in {"ran", "stopped", "unparked"}
          PROVE  [job EXCEPT ![j].at = "out", ![j].end = e] \in [Jobs -> JobRec]
      <4> DEFINE f1 == [job EXCEPT ![j].at = "out"]
      <4>1. f1 \in [Jobs -> JobRec]
        BY <1>0, <3>1
      <4> HIDE DEF f1
      <4>2. [f1 EXCEPT ![j].end = e] \in [Jobs -> JobRec]
        BY <3>1, <4>1
      <4> QED
        BY <4>2 DEF f1
    <3>3. [job EXCEPT ![j].at = "out"] \in [Jobs -> JobRec]
      BY <1>0 DEF JobRec
    <3> QED
      BY <2>1, <3>2, <3>3
  <2>3. ASSUME NEW k \in Jobs
        PROVE  /\ job'[k].dir = job[k].dir /\ job'[k].file = job[k].file
               /\ job'[k].ended = job[k].ended
               /\ job'[k] = job[k] \/ (job[k].at # "free" /\ job'[k].at = "out")
    <3>0. job[j] \in JobRec
      BY <1>0
    <3>1. CASE job' = [job EXCEPT ![j].at = "out"]
      BY <1>0, <2>1, <3>0, <3>1 DEF JobRec
    <3>2. ASSUME NEW e \in {"ran", "stopped", "unparked"}, job' = [job EXCEPT ![j].at = "out", ![j].end = e]
          PROVE  <2>3!2
      <4>1. CASE k = j
        BY <1>0, <2>1, <3>0, <3>2, <4>1 DEF JobRec
      <4>2. CASE k # j
        BY <1>0, <3>2, <4>2
      <4> QED
        BY <4>1, <4>2
    <3> QED
      BY <2>1, <3>1, <3>2
  <2>4. JobsOK' /\ Open' = Open
    BY <1>0, <2>3 DEF JobsOK
  <2> QED
    BY <1>1, <1>6, <2>2, <2>4 DEF Returned
<1>7. CASE PutAside
  <2>1. PICK j \in Jobs : job[j].at = "held" /\ job' = [job EXCEPT ![j].at = "aside", ![j].note = "owed"]
    BY <1>7 DEF PutAside
  <2> DEFINE r == [job[j] EXCEPT !.at = "aside", !.note = "owed"]
  <2>2. r \in JobRec /\ r.at = "aside" /\ r.dir = job[j].dir /\ r.file = job[j].file /\ r.ended = job[j].ended
    <3>1. job[j] \in JobRec
      BY <1>0
    <3> QED
      BY <3>1 DEF JobRec
  <2>3. job' = [job EXCEPT ![j] = r]
    BY <2>1
  <2> HIDE DEF r
  <2>4. job' \in [Jobs -> JobRec] /\ JobsOK' /\ Open' = Open
    BY <1>0, <2>1, <2>2, <2>3 DEF JobsOK
  <2> QED
    BY <1>1, <1>7, <2>4 DEF PutAside
<1>11. CASE PutBack
  <2>1. PICK j \in Jobs : job[j].at = "stopping"
          /\ \/ job' = [job EXCEPT ![j].at = "held", ![j].recalled = TRUE]
             \/ job' = [job EXCEPT ![j].at = "aside", ![j].recalled = TRUE, ![j].note = "owed"]
    BY <1>11 DEF PutBack
  <2>2. \E r \in JobRec : /\ job' = [job EXCEPT ![j] = r]
                          /\ (r.at = "held" /\ r.note = "none") \/ r.at = "aside"
                          /\ r.dir = job[j].dir /\ r.file = job[j].file /\ r.ended = job[j].ended
    <3>0. job[j] \in JobRec /\ job[j].note = "none"
      BY <1>0, <2>1 DEF JobsOK
    <3> DEFINE r1 == [job[j] EXCEPT !.at = "held", !.recalled = TRUE]
               r2 == [job[j] EXCEPT !.at = "aside", !.recalled = TRUE, !.note = "owed"]
    <3>1. /\ r1 \in JobRec /\ r1.at = "held" /\ r1.note = "none"
          /\ r1.dir = job[j].dir /\ r1.file = job[j].file /\ r1.ended = job[j].ended
      BY <3>0 DEF JobRec
    <3>2. /\ r2 \in JobRec /\ r2.at = "aside"
          /\ r2.dir = job[j].dir /\ r2.file = job[j].file /\ r2.ended = job[j].ended
      BY <3>0 DEF JobRec
    <3>3. job' = [job EXCEPT ![j] = r1] \/ job' = [job EXCEPT ![j] = r2]
      BY <2>1
    <3> HIDE DEF r1, r2
    <3> QED
      BY <3>1, <3>2, <3>3
  <2>3. PICK r \in JobRec : /\ job' = [job EXCEPT ![j] = r]
                            /\ (r.at = "held" /\ r.note = "none") \/ r.at = "aside"
                            /\ r.dir = job[j].dir /\ r.file = job[j].file /\ r.ended = job[j].ended
    BY <2>2
  <2>4. job' \in [Jobs -> JobRec] /\ JobsOK' /\ Open' = Open
    BY <1>0, <2>1, <2>3 DEF JobsOK
  <2> QED
    BY <1>1, <1>11, <2>4 DEF PutBack
<1>8. CASE Noted
  <2>1. PICK j \in Jobs, n \in {"none", "passed"} :
          job[j].note = "owed" /\ job' = Told(j, [job[j] EXCEPT !.note = n])
    BY <1>8 DEF Noted
  <2> DEFINE r == [job[j] EXCEPT !.note = n]
  <2>2. r \in JobRec /\ r.at = job[j].at /\ r.dir = job[j].dir /\ r.file = job[j].file /\ r.ended = job[j].ended
    BY <1>0 DEF JobRec
  <2>3. job[j].at \notin {"free", "held", "stopping"}
    BY <1>0, <2>1 DEF JobsOK
  <2> HIDE DEF r
  <2>4. job' \in [Jobs -> JobRec] /\ JobsOK' /\ Open' = IF r.ended THEN Open \ {j} ELSE Open \cup {j}
    <3>1. job' = Told(j, r) /\ (r.at = "told" => r.ended)
      BY <1>0, <2>1, <2>2 DEF JobsOK, r
    <3> QED
      BY <1>2, <2>2, <2>3, <3>1
  <2>5. Open' = Open
    BY <2>2, <2>4
  <2> QED
    BY <1>1, <1>8, <2>4, <2>5 DEF Noted
<1>9. CASE EndedOne
  <2>1. PICK j \in Jobs : burst' = Ended(j)
          /\ \/ job[j].at = "out" /\ job' = Told(j, [job[j] EXCEPT !.at = "told", !.ended = TRUE])
             \/ job[j].note = "passed" /\ job' = Told(j, [job[j] EXCEPT !.note = "none", !.ended = TRUE])
    BY <1>9 DEF EndedOne
  <2>2. job[j].at \notin {"free", "held", "stopping"}
    BY <1>0, <2>1 DEF JobsOK
  <2>3. \E r \in JobRec : /\ job' = Told(j, r) /\ r.at \notin {"free", "held", "stopping"}
                          /\ r.dir = job[j].dir /\ r.file = job[j].file /\ r.ended
    <3> DEFINE r1 == [job[j] EXCEPT !.at = "told", !.ended = TRUE]
               r2 == [job[j] EXCEPT !.note = "none", !.ended = TRUE]
    <3>0. job[j] \in JobRec
      BY <1>0
    <3>1. r1 \in JobRec /\ r1.at = "told" /\ r1.dir = job[j].dir /\ r1.file = job[j].file /\ r1.ended
      BY <3>0 DEF JobRec
    <3>2. r2 \in JobRec /\ r2.at = job[j].at /\ r2.dir = job[j].dir /\ r2.file = job[j].file /\ r2.ended
      BY <3>0 DEF JobRec
    <3>3. job' = Told(j, r1) \/ job' = Told(j, r2)
      BY <2>1
    <3> HIDE DEF r1, r2
    <3> QED
      BY <2>2, <3>1, <3>2, <3>3
  <2>4. job' \in [Jobs -> JobRec] /\ JobsOK' /\ Open' = Open \ {j}
    BY <1>2, <2>2, <2>3
  <2>5. Cardinality(Open \ {j}) = Cardinality(Open) - (IF job[j].ended THEN 0 ELSE 1)
    <3>1. CASE job[j].ended
      <4>1. Open \ {j} = Open
        BY <3>1
      <4> QED
        BY <1>0, <3>1, <4>1
    <3>2. CASE ~job[j].ended
      <4>1. j \in Open
        BY <3>2
      <4> HIDE DEF Open
      <4> QED
        BY <1>0, <3>2, <4>1, FS_RemoveElement
    <3> QED
      BY <3>1, <3>2
  <2> HIDE DEF Open
  <2>6. Counted' <=> burst' = Cardinality(Open')
    BY DEF Counted, Open
  <2> QED
    BY <1>0, <2>1, <2>4, <2>5, <2>6 DEF Ended
<1>10. CASE Forgotten
  <2>1. job' \in [Jobs -> JobRec] /\ JobsOK' /\ Open' = {} /\ burst' = 0
    BY <1>0, <1>10 DEF Forgotten, JobsOK, NoJob
  <2> QED
    BY <2>1, FS_EmptySet DEF Counted
<1> QED
  BY <1>3, <1>4, <1>5, <1>6, <1>7, <1>8, <1>9, <1>10, <1>11, JobEffects DEF JobEffect

LEMMA ReloadType ==
  ASSUME TypeOK, NEW cfg \in SUBSET Dirs, NEW hd, NEW o,
         o.do \in {"none", "add", "remove", "gate", "move"}, o.dir \in Dirs \cup {None}, o.del \in BOOLEAN
  PROVE  /\ Reload(cfg, hd, o) \in OpRec
         /\ Reload(cfg, hd, o).at = "stops" /\ Reload(cfg, hd, o).do = o.do
         /\ Reload(cfg, hd, o).dir = o.dir /\ Reload(cfg, hd, o).starts = cfg \ hd
         /\ Reload(cfg, hd, o).stops = {d \in Dirs : watchers[d] # None} \ (cfg \ hd)
         /\ Reload(cfg, hd, o).waits = {}
  BY DEF Reload, NoOp, OpRec, MoveStages

LEMMA OpNext == TypeInv /\ [Next]_vars => op' \in OpRec /\ OpOK'
<1> SUFFICES ASSUME TypeInv, [Next]_vars PROVE op' \in OpRec /\ OpOK'
  OBVIOUS
<1>0. op \in OpRec /\ OpOK /\ config \subseteq Dirs /\ TypeOK
  BY DEF TypeInv, TypeOK, ShapeOK
<1>1. ASSUME UNCHANGED op PROVE op' \in OpRec /\ OpOK'
  BY <1>0, <1>1 DEF OpOK
<1>2. ASSUME NEW o \in OpRec, op' = o, o.at \in {"stops", "idle"}, o.do \in {"move", "remove"} => o.dir \in Dirs
      PROVE  op' \in OpRec /\ OpOK'
  BY <1>2 DEF OpOK, MoveStages
<1>3. ASSUME NEW cfg \in SUBSET Dirs, NEW hd, NEW o,
             op' = Reload(cfg, hd, o), o.do \in {"none", "add", "remove", "gate", "move"},
             o.dir \in Dirs \cup {None}, o.del \in BOOLEAN, o.do \in {"move", "remove"} => o.dir \in Dirs
      PROVE  op' \in OpRec /\ OpOK'
  <2>1. op' \in OpRec /\ op'.at = "stops" /\ op'.do = o.do /\ op'.dir = o.dir
    BY <1>3 DEF Reload, NoOp, OpRec, MoveStages
  <2>2. op'.at \notin MoveStages \cup {"erase"}
    BY <2>1 DEF MoveStages
  <2>3. op'.do \in {"move", "remove"} => op'.dir \in Dirs
    BY <1>3, <2>1
  <2> QED
    BY <2>1, <2>2, <2>3 DEF OpOK
<1>4. NoOp \in OpRec /\ NoOp.do = "none" /\ NoOp.dir = None /\ NoOp.del \in BOOLEAN
      /\ NoOp.at = "idle"
  BY Records DEF NoOp
<1>5. ASSUME NEW o \in OpRec, NEW W \in SUBSET Jobs, op' = [o EXCEPT !.waits = W],
             o.at = op.at /\ o.do = op.do /\ o.dir = op.dir /\ o.to = op.to
      PROVE  op' \in OpRec /\ OpOK'
  BY <1>0, <1>5 DEF OpRec, OpOK
<1>6. ASSUME NEW l \in Loops, LoopStep(l) PROVE UNCHANGED op
  <2>1. ASSUME NEW a \in Actions, SendToLane(l, a) \/ Starts(l, a) \/ Ends(l, a) PROVE UNCHANGED op
    BY <2>1 DEF SendToLane, Starts, Ends, opVars
  <2>2. CASE Gate(l)
    BY <2>2 DEF Gate, opVars
  <2> QED
    BY <1>6, <2>1, <2>2 DEF LoopStep, PassBegins, PassFails, CloneLists, CloneEnds, PassPlans, PassEnds,
       LoopExits, opVars
<1>7. ASSUME NEW j \in Jobs, JobStep(j) PROVE op' \in OpRec /\ OpOK'
  <2>1. CASE Recalled(j) \/ LaneDone(j)
    <3>1. op.waits \ {j} \in SUBSET Jobs
      BY <1>0 DEF OpRec
    <3> QED
      BY <1>0, <1>5, <2>1, <3>1 DEF Recalled, LaneDone, Released
  <2>2. CASE UNCHANGED op
    BY <1>1, <2>2
  <2> QED
    BY <1>7, <2>1, <2>2 DEF JobStep, JobReturns, SetAside, Unpark, ParkLooks, Parked, opVars
<1>8. CASE OpStep
  <2>1. ASSUME NEW d \in Dirs, Add(d) PROVE op' \in OpRec /\ OpOK'
    <3> DEFINE o == [NoOp EXCEPT !.do = "add"]
    <3>1. op' = Reload({d}, held, o) /\ {d} \in SUBSET Dirs
      BY <2>1 DEF Add
    <3>2. o.do = "add" /\ o.dir = None /\ o.del \in BOOLEAN
      BY DEF NoOp
    <3> HIDE DEF o
    <3> QED
      BY <1>3, <3>1, <3>2
  <2>2. ASSUME NEW d \in Dirs, HoldBack(d) PROVE op' \in OpRec /\ OpOK'
    <3>1. op' = Reload(config, held', [NoOp EXCEPT !.do = "gate"])
      BY <2>2 DEF HoldBack
    <3> QED
      BY <1>0, <1>3, <1>4, <3>1 DEF NoOp
  <2>3. ASSUME NEW d \in Dirs, NEW del \in BOOLEAN, Remove(d, del) PROVE op' \in OpRec /\ OpOK'
    <3> DEFINE o == [NoOp EXCEPT !.do = "remove", !.dir = d, !.del = del]
    <3>1. op' = Reload(config \ {d}, held, o) /\ config \ {d} \in SUBSET Dirs
      BY <1>0, <2>3 DEF Remove
    <3>2. o.do = "remove" /\ o.dir = d /\ o.del = del
      BY DEF NoOp
    <3> HIDE DEF o
    <3> QED
      BY <1>3, <3>1, <3>2
  <2>4. ASSUME NEW d \in Dirs, StopWatcher(d) PROVE op' \in OpRec /\ OpOK'
    <3>1. op' = [op EXCEPT !.stops = @ \ {d}, !.waits = InLane(d)]
      BY <1>0, <2>4 DEF StopWatcher, LaneStops
    <3>2. InLane(d) \in SUBSET Jobs
      BY DEF InLane
    <3> DEFINE o == [op EXCEPT !.stops = @ \ {d}]
    <3>3. o \in OpRec /\ o.at = op.at /\ o.do = op.do /\ o.dir = op.dir /\ o.to = op.to
      BY <1>0 DEF OpRec
    <3>4. op' = [o EXCEPT !.waits = InLane(d)]
      BY <3>1
    <3> HIDE DEF o
    <3> QED
      BY <1>5, <3>2, <3>3, <3>4
  <2>5. ASSUME NEW d \in Dirs, StartWatcher(d) PROVE op' \in OpRec /\ OpOK'
    BY <1>0, <2>5 DEF StartWatcher, OpRec, OpOK
  <2>6. ASSUME NEW d \in Dirs, NEW to \in Dirs, MoveBegins(d, to) PROVE op' \in OpRec /\ OpOK'
    BY <1>0, <2>6 DEF MoveBegins, NoOp, OpRec, OpOK, MoveStages
  <2>7. CASE StopsEnd \/ MoveQuiet
    <3>1. \E x \in {"starts", "relocate"} : op' = [op EXCEPT !.at = x, !.waits = {}]
           /\ (x = "relocate" => op.at \in MoveStages)
      BY <2>7 DEF StopsEnd, MoveQuiet, MoveStages
    <3> QED
      BY <1>0, <3>1 DEF OpRec, OpOK, MoveStages
  <2>8. CASE ReloadEnds
    <3>1. op' = NoOp \/ (op.do = "remove" /\ op' = [op EXCEPT !.at = "erase"])
      BY <2>8 DEF ReloadEnds
    <3> QED
      BY <1>0, <1>4, <3>1 DEF OpRec, OpOK, MoveStages
  <2>9. CASE EraseEnds
    BY <1>4, <2>9 DEF EraseEnds, OpOK, MoveStages
  <2>10. CASE MoveStopsLane
    <3>1. op' = [op EXCEPT !.at = "lane", !.waits = InLane(op.dir)] /\ op.at = "quiet"
      BY <1>0, <2>10 DEF MoveStopsLane, LaneStops
    <3>2. InLane(op.dir) \in SUBSET Jobs
      BY DEF InLane
    <3> QED
      BY <1>0, <3>1, <3>2 DEF OpRec, OpOK, MoveStages
  <2>11. CASE Relocate \/ PurgeEnds \/ Rekey
    <3>1. \E x \in {"purge", "rekey", "save"} : op' = [op EXCEPT !.at = x] /\ op.at \in MoveStages
      BY <2>11 DEF Relocate, PurgeEnds, Rekey, MoveStages
    <3> QED
      BY <1>0, <3>1 DEF OpRec, OpOK, MoveStages
  <2>12. CASE MoveSaves
    <3>1. op' = Reload(config', held, op) /\ config' = (config \ {op.dir}) \cup {op.to} /\ op.to \in Dirs
          /\ op.do = "move" /\ op.dir \in Dirs
      BY <1>0, <2>12 DEF MoveSaves, OpOK, MoveStages
    <3> QED
      BY <1>0, <1>3, <3>1 DEF OpRec
  <2>13. CASE MoveFails
    <3>1. op' = Reload(config, held, op) /\ op.do = "move" /\ op.dir \in Dirs
      BY <1>0, <2>13 DEF MoveFails, OpOK, MoveStages
    <3> QED
      BY <1>0, <1>3, <3>1 DEF OpRec
  <2>14. ASSUME NEW x \in Files, Erase(x) \/ Purge(x) PROVE op' \in OpRec /\ OpOK'
    BY <1>1, <2>14 DEF Erase, Purge, opVars
  <2> QED
    BY <1>8, <2>1, <2>2, <2>3, <2>4, <2>5, <2>6, <2>7, <2>8, <2>9, <2>10, <2>11, <2>12, <2>13, <2>14 DEF OpStep
<1>9. CASE Crash
  <2>1. op' = [NoOp EXCEPT !.at = "starts", !.starts = config \ held]
    BY <1>9 DEF Crash
  <2> QED
    BY <1>0, <2>1 DEF NoOp, OpRec, OpOK, MoveStages
<1> QED
  BY <1>1, <1>6, <1>7, <1>8, <1>9 DEF Next, Drop, vars, opVars

\* Two records of a goroutine that differ in no more than what its pass has yet to do.
SameLoop(k) == /\ loop'[k].dir = loop[k].dir /\ loop'[k].at = loop[k].at /\ loop'[k].cut = loop[k].cut
               /\ loop'[k].now = loop[k].now /\ loop'[k].waits = loop[k].waits
               /\ loop[k] = NoLoop => loop'[k] = NoLoop
LoopOK(k) == /\ loop[k].at = "none" => loop[k] = NoLoop
             /\ loop[k].at # "none" => loop[k].dir \in Dirs
             /\ loop[k].at \notin {"cloning", "exec"} => loop[k].now = {}
             /\ loop[k].at # "exec" => loop[k].waits = {}

LEMMA SameFresh ==
  ASSUME NEW lp \in [Loops -> LoopRec], NEW k \in Loops
  PROVE  /\ Fresh(lp)[k].dir = lp[k].dir /\ Fresh(lp)[k].at = lp[k].at /\ Fresh(lp)[k].cut = lp[k].cut
         /\ Fresh(lp)[k].now = lp[k].now /\ Fresh(lp)[k].waits = lp[k].waits
         /\ Fresh(lp)[k].todo = lp[k].todo /\ Fresh(lp)[k].left = lp[k].left
         /\ lp[k] = NoLoop => Fresh(lp)[k] = NoLoop
<1>1. Fresh(lp)[k] = [lp[k] EXCEPT !.fresh = @ /\ server' = server]
  BY DEF Fresh
<1>2. NoLoop.fresh = FALSE
  BY DEF NoLoop
<1>3. lp[k] \in LoopRec
  OBVIOUS
<1>4. lp[k] = NoLoop => [lp[k] EXCEPT !.fresh = @ /\ server' = server] = NoLoop
  BY <1>2, <1>3 DEF NoLoop, LoopRec
<1> QED
  BY <1>1, <1>3, <1>4 DEF LoopRec

\* A step of goroutine l leaves the others alone, and l with its folder and its context,
\* unless it ends.
LEMMA LoopStepIs ==
  ASSUME TypeInv, NEW l \in Loops, LoopStep(l)
  PROVE  /\ \A k \in Loops \ {l} : SameLoop(k)
         /\ LoopOK(l)' /\ loop[l].at # "none" /\ loop[l].waits \subseteq loop'[l].waits
         /\ ~LoopExits(l) => /\ loop'[l].at # "none" /\ loop'[l].dir = loop[l].dir
                             /\ loop'[l].cut = loop[l].cut
                             /\ UNCHANGED << watchers, strayed >>
                             /\ loop'[l].at \in InPass => loop[l].at \in InPass \/ MayPass
         /\ UNCHANGED << cfgVars, stopped, op >>
<1>0. loop \in [Loops -> LoopRec] /\ LoopOK(l) /\ loop[l] \in LoopRec
  BY DEF TypeInv, TypeOK, ShapeOK, LoopsOK, LoopOK
<1> DEFINE Goal == /\ \A k \in Loops \ {l} : SameLoop(k)
                   /\ LoopOK(l)' /\ loop[l].at # "none" /\ loop[l].waits \subseteq loop'[l].waits
                   /\ loop'[l].at # "none" /\ loop'[l].dir = loop[l].dir
                   /\ loop'[l].cut = loop[l].cut
                   /\ loop'[l].at \in InPass => loop[l].at \in InPass \/ MayPass
<1>1. UNCHANGED << cfgVars, stopped, op >>
  <2>1. ASSUME NEW a \in Actions, SendToLane(l, a) \/ Starts(l, a) \/ Ends(l, a)
        PROVE  UNCHANGED << cfgVars, stopped, op >>
    BY <2>1 DEF SendToLane, Starts, Ends, opVars, cfgVars
  <2> QED
    BY <2>1 DEF LoopStep, PassBegins, PassFails, CloneLists, CloneEnds, PassPlans, Gate,
         PassEnds, LoopExits, laneVars, opVars, cfgVars
<1>2. ~LoopExits(l) => UNCHANGED << watchers, strayed >>
  <2>1. ASSUME NEW a \in Actions, SendToLane(l, a) \/ Starts(l, a) \/ Ends(l, a)
        PROVE  UNCHANGED << watchers, strayed >>
    BY <2>1 DEF SendToLane, Starts, Ends
  <2> QED
    BY <2>1 DEF LoopStep, PassBegins, PassFails, CloneLists, CloneEnds, PassPlans, Gate, PassEnds
<1>3. ASSUME NEW r, loop' = [loop EXCEPT ![l] = r], r.at # "none", r.dir = loop[l].dir, r.cut = loop[l].cut,
             loop[l].at # "none",
             r.at \in InPass => loop[l].at \in InPass \/ MayPass,
             r.at \notin {"cloning", "exec"} => r.now = {},
             r.at # "exec" => r.waits = {}, loop[l].waits \subseteq r.waits
      PROVE  Goal
  BY <1>0, <1>3 DEF LoopOK, SameLoop
<1>4. ASSUME loop' = Idle(l), loop[l].at # "none", loop[l].waits = {} PROVE Goal
  <2> DEFINE r == [NoLoop EXCEPT !.dir = loop[l].dir, !.at = "idle", !.cut = loop[l].cut]
  <2>1. r.at = "idle" /\ r.dir = loop[l].dir /\ r.cut = loop[l].cut /\ r.now = {} /\ r.waits = {}
    BY DEF NoLoop
  <2>2. loop' = [loop EXCEPT ![l] = r]
    BY <1>4 DEF Idle
  <2> HIDE DEF r
  <2> QED
    BY <1>3, <1>4, <2>1, <2>2 DEF InPass
<1>5. ASSUME PassBegins(l) PROVE Goal
  <2>1. \E x \in {"scan", "clone"}, y \in BOOLEAN :
          loop' = [loop EXCEPT ![l].at = x, ![l].more = y]
    BY <1>5 DEF PassBegins
  <2>2. PICK x \in {"scan", "clone"}, y \in BOOLEAN : loop' = [loop EXCEPT ![l].at = x, ![l].more = y]
    BY <2>1
  <2> DEFINE r == [loop[l] EXCEPT !.at = x, !.more = y]
  <2>3. r.at = x /\ r.dir = loop[l].dir /\ r.cut = loop[l].cut /\ r.now = loop[l].now /\ r.waits = loop[l].waits
    BY <1>0 DEF LoopRec
  <2>4. loop' = [loop EXCEPT ![l] = r]
    BY <2>2
  <2> HIDE DEF r
  <2>5. loop[l].at = "idle" /\ MayPass
    BY <1>5 DEF PassBegins
  <2> QED
    BY <1>0, <1>3, <2>3, <2>4, <2>5 DEF LoopOK
<1>6. ASSUME PassFails(l) PROVE Goal
  BY <1>0, <1>4, <1>6 DEF PassFails, LoopOK
<1>7. ASSUME CloneLists(l) PROVE Goal
  <2> DEFINE t == [do: {"down"}, file: server \ disk[loop[l].dir]]
             r == [loop[l] EXCEPT !.at = "cloning", !.todo = t]
  <2>1. loop' = [loop EXCEPT ![l] = r] /\ loop[l].at = "clone"
    BY <1>7 DEF CloneLists
  <2>2. r.at = "cloning" /\ r.dir = loop[l].dir /\ r.cut = loop[l].cut /\ r.waits = loop[l].waits
    BY <1>0 DEF LoopRec
  <2> HIDE DEF r
  <2> QED
    BY <1>0, <1>3, <2>1, <2>2 DEF LoopOK, InPass
<1>8. ASSUME CloneEnds(l) PROVE Goal
  <2>1. loop[l].at = "cloning" /\ loop[l].now = {}
    BY <1>8 DEF CloneEnds
  <2>2. CASE loop' = Idle(l)
    BY <1>0, <1>4, <2>1, <2>2 DEF LoopOK
  <2>3. CASE loop' = [loop EXCEPT ![l].at = "scan", ![l].left = FALSE]
    <3> DEFINE r == [loop[l] EXCEPT !.at = "scan", !.left = FALSE]
    <3>1. loop' = [loop EXCEPT ![l] = r]
      BY <2>3
    <3>2. r.at = "scan" /\ r.dir = loop[l].dir /\ r.cut = loop[l].cut /\ r.waits = loop[l].waits
          /\ r.now = loop[l].now
      BY <1>0 DEF LoopRec
    <3> HIDE DEF r
    <3> QED
      BY <1>0, <1>3, <2>1, <3>1, <3>2 DEF LoopOK, InPass
  <2> QED
    BY <1>8, <2>2, <2>3 DEF CloneEnds
<1>9. ASSUME PassPlans(l) PROVE Goal
  <2>1. loop[l].at = "scan"
    BY <1>9 DEF PassPlans
  <2>2. CASE loop' = Idle(l)
    BY <1>0, <1>4, <2>1, <2>2 DEF LoopOK
  <2>3. ASSUME NEW plan, loop' = [loop EXCEPT ![l].at = "plan", ![l].more = FALSE, ![l].todo = plan, ![l].fresh = TRUE]
        PROVE  Goal
    <3> DEFINE r == [loop[l] EXCEPT !.at = "plan", !.more = FALSE, !.todo = plan, !.fresh = TRUE]
    <3>1. loop' = [loop EXCEPT ![l] = r]
      BY <2>3
    <3>2. r.at = "plan" /\ r.dir = loop[l].dir /\ r.cut = loop[l].cut /\ r.waits = loop[l].waits
          /\ r.now = loop[l].now
      BY <1>0 DEF LoopRec
    <3> HIDE DEF r
    <3> QED
      BY <1>0, <1>3, <2>1, <3>1, <3>2 DEF LoopOK, InPass
  <2> QED
    BY <1>9, <2>2, <2>3 DEF PassPlans
<1>10. ASSUME Gate(l) PROVE Goal
  <2>1. loop[l].at = "plan" /\ \E skip, stop : loop' =
          [loop EXCEPT ![l].at = "exec", ![l].todo = @ \ skip, ![l].waits = stop, ![l].left = (skip # {})]
    BY <1>10 DEF Gate
  <2>2. PICK skip, stop : loop' =
          [loop EXCEPT ![l].at = "exec", ![l].todo = @ \ skip, ![l].waits = stop, ![l].left = (skip # {})]
    BY <2>1
  <2> DEFINE r == [loop[l] EXCEPT !.at = "exec", !.todo = @ \ skip, !.waits = stop, !.left = (skip # {})]
  <2>3. loop' = [loop EXCEPT ![l] = r]
    BY <2>2
  <2>4. r.at = "exec" /\ r.dir = loop[l].dir /\ r.cut = loop[l].cut
    BY <1>0 DEF LoopRec
  <2> HIDE DEF r
  <2> QED
    BY <1>0, <1>3, <2>1, <2>3, <2>4 DEF LoopOK, InPass
<1>11. ASSUME PassEnds(l) PROVE Goal
  BY <1>4, <1>11 DEF PassEnds
<1>12. ASSUME NEW a \in Actions, SendToLane(l, a) \/ Starts(l, a) PROVE Goal
  <2>1. loop[l].at \in {"cloning", "exec"}
        /\ (loop[l].at = "exec" => loop[l].waits = {})
    BY <1>12 DEF SendToLane, Starts, Ready
  <2>2. CASE loop' = [loop EXCEPT ![l].todo = @ \ {a}, ![l].left = TRUE]
    <3> DEFINE r == [loop[l] EXCEPT !.todo = @ \ {a}, !.left = TRUE]
    <3>1. loop' = [loop EXCEPT ![l] = r]
      BY <2>2
    <3>2. r.at = loop[l].at /\ r.dir = loop[l].dir /\ r.cut = loop[l].cut /\ r.waits = loop[l].waits
          /\ r.now = loop[l].now
      BY <1>0 DEF LoopRec
    <3> HIDE DEF r
    <3> QED
      BY <1>0, <1>3, <2>1, <3>1, <3>2 DEF LoopOK, InPass
  <2>3. CASE loop' = [loop EXCEPT ![l].now = @ \cup {a}]
    <3> DEFINE r == [loop[l] EXCEPT !.now = @ \cup {a}]
    <3>1. loop' = [loop EXCEPT ![l] = r]
      BY <2>3
    <3>2. r.at = loop[l].at /\ r.dir = loop[l].dir /\ r.cut = loop[l].cut /\ r.waits = loop[l].waits
      BY <1>0 DEF LoopRec
    <3> HIDE DEF r
    <3> QED
      BY <1>0, <1>3, <2>1, <3>1, <3>2 DEF LoopOK, InPass
  <2> QED
    BY <1>12, <2>2, <2>3 DEF SendToLane, Starts
<1>13. ASSUME NEW a \in Actions, Ends(l, a) PROVE Goal
  <2> DEFINE over == [loop EXCEPT ![l].todo = @ \ {a}, ![l].now = @ \ {a}]
  <2>1. loop[l].now # {} /\ loop[l].at \in {"cloning", "exec"}
    BY <1>0, <1>13 DEF Ends, LoopOK
  <2>2. over \in [Loops -> LoopRec]
    BY <1>0 DEF LoopRec
  <2>3. /\ over[l].dir = loop[l].dir /\ over[l].at = loop[l].at /\ over[l].cut = loop[l].cut
        /\ over[l].waits = loop[l].waits
        /\ \A k \in Loops \ {l} : over[k] = loop[k]
    BY <1>0 DEF LoopRec
  <2> HIDE DEF over
  <2>4. CASE loop' = Fresh(over)
    <3>1. \A k \in Loops : /\ loop'[k].dir = over[k].dir /\ loop'[k].at = over[k].at
                           /\ loop'[k].cut = over[k].cut /\ loop'[k].now = over[k].now
                           /\ loop'[k].waits = over[k].waits
                           /\ over[k] = NoLoop => loop'[k] = NoLoop
      BY <2>2, <2>4, SameFresh
    <3> QED
      BY <1>0, <2>1, <2>3, <3>1 DEF LoopOK, SameLoop, InPass
  <2>5. CASE loop' = [over EXCEPT ![l].left = TRUE]
    <3>1. /\ loop'[l].dir = over[l].dir /\ loop'[l].at = over[l].at /\ loop'[l].cut = over[l].cut
          /\ loop'[l].waits = over[l].waits
          /\ \A k \in Loops \ {l} : loop'[k] = over[k]
      BY <2>2, <2>5 DEF LoopRec
    <3> QED
      BY <1>0, <2>1, <2>3, <3>1 DEF LoopOK, SameLoop, InPass
  <2> QED
    BY <1>13, <2>4, <2>5 DEF Ends, over
<1>14. CASE LoopExits(l)
  <2>1. loop' = [loop EXCEPT ![l] = NoLoop] /\ loop[l].at = "idle"
    BY <1>14 DEF LoopExits
  <2>2. NoLoop.at = "none" /\ NoLoop.now = {} /\ NoLoop.waits = {}
    BY DEF NoLoop
  <2> QED
    BY <1>0, <1>1, <1>14, <2>1, <2>2 DEF LoopOK, SameLoop
<1>15. CASE ~LoopExits(l)
  <2>1. Goal
    BY <1>5, <1>6, <1>7, <1>8, <1>9, <1>10, <1>11, <1>12, <1>13, <1>15 DEF LoopStep
  <2> QED
    BY <1>1, <1>2, <1>15, <2>1
<1> QED
  BY <1>14, <1>15

LEMMA CutIs ==
  ASSUME TypeInv, NEW d \in Dirs, loop' = Cut(d)
  PROVE  \A k \in Loops : /\ loop'[k].dir = loop[k].dir /\ loop'[k].at = loop[k].at
                          /\ loop'[k].now = loop[k].now /\ loop'[k].waits = loop[k].waits
                          /\ k = watchers[d] => loop'[k].cut
                          /\ k # watchers[d] => loop'[k].cut = loop[k].cut
                          /\ loop[k].at = "none" => loop'[k] = loop[k]
<1>1. loop \in [Loops -> LoopRec] /\ None \notin Dirs \cup Loops /\ NoLoop.dir = None
  BY FoldersAssumption DEF TypeInv, TypeOK, NoLoop, FoldersAssumption
<1> SUFFICES ASSUME NEW k \in Loops
             PROVE  /\ loop'[k].dir = loop[k].dir /\ loop'[k].at = loop[k].at
                    /\ loop'[k].now = loop[k].now /\ loop'[k].waits = loop[k].waits
                    /\ k = watchers[d] => loop'[k].cut
                    /\ k # watchers[d] => loop'[k].cut = loop[k].cut
                    /\ loop[k].at = "none" => loop'[k] = loop[k]
  OBVIOUS
<1>2. CASE ~Watched(d)
  BY <1>1, <1>2 DEF Cut, Watched
<1>3. CASE Watched(d)
  <2>1. watchers[d] \in Loops /\ loop[watchers[d]].dir = d
    BY <1>3 DEF TypeInv, TypeOK, ShapeOK, Attended, Watched
  <2>2. loop' = [loop EXCEPT ![watchers[d]].cut = TRUE]
    BY <1>3 DEF Cut, Watched
  <2>3. loop[watchers[d]].at # "none"
    BY <1>1, <2>1 DEF TypeInv, ShapeOK, LoopsOK
  <2>4. CASE k # watchers[d]
    BY <1>1, <2>1, <2>2, <2>4
  <2>5. CASE k = watchers[d]
    <3>1. loop'[k] = [loop[k] EXCEPT !.cut = TRUE] /\ loop[k] \in LoopRec
      BY <1>1, <2>1, <2>2, <2>5
    <3> QED
      BY <2>3, <2>5, <3>1 DEF LoopRec
  <2> QED
    BY <2>4, <2>5
<1> QED
  BY <1>2, <1>3

LEMMA LoopsNext == TypeInv /\ [Next]_vars => LoopsOK' /\ watchers' \in [Dirs -> Loops \cup {None}] /\ Attended'
<1> SUFFICES ASSUME TypeInv, [Next]_vars
             PROVE  LoopsOK' /\ watchers' \in [Dirs -> Loops \cup {None}] /\ Attended'
  OBVIOUS
<1> DEFINE W == watchers' \in [Dirs -> Loops \cup {None}]
<1>0. /\ loop \in [Loops -> LoopRec] /\ LoopsOK /\ watchers \in [Dirs -> Loops \cup {None}] /\ Attended
      /\ None \notin Dirs \cup Loops /\ NoLoop.dir = None /\ NoLoop.now = {} /\ NoLoop.waits = {}
      /\ NoLoop.at = "none"
  BY FoldersAssumption DEF TypeInv, TypeOK, ShapeOK, NoLoop, FoldersAssumption
<1>1. ASSUME UNCHANGED << loop, watchers >> PROVE LoopsOK' /\ W /\ Attended'
  BY <1>0, <1>1 DEF LoopsOK, Attended, Watched
<1>2. ASSUME NEW l \in Loops, LoopStep(l) PROVE LoopsOK' /\ W /\ Attended'
  <2>1. LoopsOK'
    <3>1. /\ \A k \in Loops \ {l} : SameLoop(k)
          /\ LoopOK(l)'
      BY <1>2, LoopStepIs
    <3> QED
      BY <1>0, <3>1 DEF LoopsOK, SameLoop, LoopOK
  <2>2. CASE LoopExits(l)
    <3>1. watchers' = [watchers EXCEPT ![loop[l].dir] = None] /\ loop' = [loop EXCEPT ![l] = NoLoop]
      BY <2>2 DEF LoopExits
    <3>2. \A d \in Dirs : watchers[d] = l => d = loop[l].dir
      BY <1>0 DEF Attended, Watched
    <3> QED
      BY <1>0, <2>1, <3>1, <3>2 DEF Attended, Watched
  <2>3. CASE ~LoopExits(l)
    <3>1. /\ \A k \in Loops \ {l} : SameLoop(k)
          /\ loop'[l].dir = loop[l].dir /\ UNCHANGED watchers
      BY <1>2, <2>3, LoopStepIs
    <3>2. \A k \in Loops : loop'[k].dir = loop[k].dir
      BY <3>1 DEF SameLoop
    <3> QED
      BY <1>0, <2>1, <3>1, <3>2 DEF Attended, Watched
  <2> QED
    BY <2>2, <2>3
<1>3. ASSUME NEW j \in Jobs, JobStep(j) PROVE LoopsOK' /\ W /\ Attended'
  <2>1. UNCHANGED watchers
    BY <1>3 DEF JobStep, JobReturns, Recalled, SetAside, Unpark, ParkLooks, Parked, LaneDone, loopVars
  <2>2. ASSUME NEW k \in Loops
        PROVE  /\ loop'[k].dir = loop[k].dir /\ loop'[k].at = loop[k].at
               /\ loop'[k].now = loop[k].now /\ loop'[k].waits \subseteq loop[k].waits
               /\ loop[k] = NoLoop => loop'[k] = NoLoop
    <3>1. CASE JobReturns(j)
      BY <1>0, <3>1, SameFresh DEF JobReturns
    <3>2. CASE Recalled(j) \/ LaneDone(j)
      <4>1. loop'[k] = [loop[k] EXCEPT !.waits = @ \ {j}] /\ loop[k] \in LoopRec
        BY <1>0, <3>2 DEF Recalled, LaneDone, Released
      <4>2. [NoLoop EXCEPT !.waits = @ \ {j}] = NoLoop
        <5>1. NoLoop.waits \ {j} = {}
          BY <1>0
        <5>2. [NoLoop EXCEPT !.waits = {}] = NoLoop
          BY <1>0, Records DEF LoopRec
        <5> QED
          BY <5>1, <5>2
      <4> QED
        BY <4>1, <4>2 DEF LoopRec
    <3>3. CASE UNCHANGED loop
      BY <3>3
    <3> QED
      BY <1>3, <3>1, <3>2, <3>3 DEF JobStep, SetAside, Unpark, ParkLooks, Parked, loopVars
  <2>3. LoopsOK'
    BY <1>0, <2>2 DEF LoopsOK
  <2>4. Attended'
    BY <1>0, <2>1, <2>2 DEF Attended, Watched
  <2> QED
    BY <1>0, <2>1, <2>3, <2>4
<1>4. CASE OpStep
  <2>1. ASSUME NEW d \in Dirs, StopWatcher(d) \/ \E to \in Dirs : MoveBegins(d, to)
        PROVE  LoopsOK' /\ W /\ Attended'
    <3>1. loop' = Cut(d) /\ watchers' = [watchers EXCEPT ![d] = None]
      BY <2>1 DEF StopWatcher, MoveBegins
    <3>2. \A k \in Loops : /\ loop'[k].dir = loop[k].dir /\ loop'[k].at = loop[k].at
                           /\ loop'[k].now = loop[k].now /\ loop'[k].waits = loop[k].waits
                           /\ loop[k].at = "none" => loop'[k] = loop[k]
      BY <3>1, CutIs
    <3> QED
      BY <1>0, <3>1, <3>2 DEF LoopsOK, Attended, Watched
  <2>2. ASSUME NEW d \in Dirs, StartWatcher(d) PROVE LoopsOK' /\ W /\ Attended'
    <3>1. CASE watchers[d] # None
      BY <1>1, <2>2, <3>1 DEF StartWatcher, loopVars
    <3>2. CASE watchers[d] = None
      <4> DEFINE r == [NoLoop EXCEPT !.dir = d, !.at = "idle"]
      <4>1. PICK l \in Loops : /\ ~Live(l) /\ watchers' = [watchers EXCEPT ![d] = l]
                               /\ loop' = [loop EXCEPT ![l] = r]
        BY <2>2, <3>2 DEF StartWatcher
      <4>2. r.dir = d /\ r.at = "idle" /\ r.now = {} /\ r.waits = {}
        BY DEF NoLoop
      <4> HIDE DEF r
      <4>3. loop[l].dir = None
        BY <1>0, <4>1 DEF Live, LoopsOK
      <4> QED
        BY <1>0, <4>1, <4>2, <4>3 DEF LoopsOK, Attended, Watched
    <3> QED
      BY <3>1, <3>2
  <2> QED
    BY <1>1, <1>4, <2>1, <2>2 DEF OpStep, Add, HoldBack, Remove, StopsEnd, ReloadEnds, EraseEnds,
         MoveStopsLane, MoveQuiet, Relocate, PurgeEnds, Rekey, MoveSaves, MoveFails, Erase, Purge, loopVars
<1>5. CASE Crash
  BY <1>0, <1>5 DEF Crash, LoopsOK, Attended, Watched
<1> QED
  BY <1>1, <1>2, <1>3, <1>4, <1>5 DEF Next, Drop, vars, loopVars

StoreOK == /\ rows \in [Dirs -> SUBSET Files] /\ disk \in [Dirs -> SUBSET Files]
           /\ clone \in [Dirs -> {"", "started", "done"}] /\ server \subseteq Files
           /\ away \subseteq {d \in Dirs : disk[d] = {}} /\ dropped \subseteq Files
FlagsOK == stamp \in [Dirs -> BOOLEAN] /\ relist \in [Dirs -> BOOLEAN]

LEMMA StoreNext == TypeInv /\ [Next]_vars => StoreOK' /\ FlagsOK'
<1> SUFFICES ASSUME TypeInv, [Next]_vars PROVE StoreOK' /\ FlagsOK'
  OBVIOUS
<1>0. StoreOK /\ FlagsOK /\ OpOK /\ LoopsOK /\ JobsOK /\ config \subseteq Dirs
  BY DEF TypeInv, TypeOK, ShapeOK, StoreOK, FlagsOK
<1>1. ASSUME UNCHANGED << storeVars, diskVars, server, dropped >> PROVE StoreOK' /\ FlagsOK'
  <2>1. StoreOK'
    BY <1>0, <1>1 DEF StoreOK, storeVars, diskVars
  <2>2. FlagsOK'
    BY <1>0, <1>1 DEF FlagsOK, storeVars
  <2> QED
    BY <2>1, <2>2
<1>2. ASSUME NEW d \in Dirs, NEW a \in Actions, Apply(d, a), UNCHANGED << clone, relist >>,
             dropped' \subseteq Files
      PROVE  StoreOK' /\ FlagsOK'
  <2>1. /\ rows' \in [Dirs -> SUBSET Files] /\ disk' \in [Dirs -> SUBSET Files]
        /\ stamp' \in [Dirs -> BOOLEAN] /\ server' \subseteq Files
        /\ away' \subseteq {e \in Dirs : disk'[e] = {}}
    BY <1>2, ApplyType DEF TypeInv
  <2>2. StoreOK'
    BY <1>0, <1>2, <2>1 DEF StoreOK
  <2>3. FlagsOK'
    BY <1>0, <1>2, <2>1 DEF FlagsOK
  <2> QED
    BY <2>2, <2>3
<1>3. ASSUME NEW l \in Loops, LoopStep(l) PROVE StoreOK' /\ FlagsOK'
  <2> DEFINE d == loop[l].dir
  <2>0. d \in Dirs
    BY <1>0, <1>3, LoopStepIs DEF LoopsOK
  <2>1. CASE PassBegins(l)
    <3>1. StoreOK'
      BY <1>0, <2>0, <2>1 DEF PassBegins, StoreOK, diskVars
    <3>2. FlagsOK'
      BY <1>0, <2>0, <2>1 DEF PassBegins, Blanks, FlagsOK
    <3> QED
      BY <3>1, <3>2
  <2>2. CASE CloneLists(l)
    <3>1. StoreOK'
      BY <1>0, <2>0, <2>2 DEF CloneLists, StoreOK, diskVars, Outlived
    <3>2. FlagsOK'
      BY <1>0, <2>0, <2>2 DEF CloneLists, FlagsOK
    <3> QED
      BY <3>1, <3>2
  <2>3. CASE CloneEnds(l)
    <3>1. StoreOK'
      BY <1>0, <2>0, <2>3 DEF CloneEnds, StoreOK, diskVars
    <3>2. FlagsOK'
      BY <1>0, <2>0, <2>3 DEF CloneEnds, Dirties, FlagsOK
    <3> QED
      BY <3>1, <3>2
  <2>4. CASE PassPlans(l)
    <3>1. StoreOK'
      BY <1>0, <2>0, <2>4 DEF PassPlans, StoreOK, diskVars
    <3>2. FlagsOK'
      BY <1>0, <2>0, <2>4 DEF PassPlans, FlagsOK
    <3> QED
      BY <3>1, <3>2
  <2>5. CASE PassEnds(l)
    <3>1. StoreOK'
      BY <1>0, <2>0, <2>5 DEF PassEnds, StoreOK, diskVars
    <3>2. stamp' \in Stamped(stamp, l) /\ UNCHANGED relist
      BY <2>5 DEF PassEnds
    <3>3. \A st \in Stamped(stamp, l) : st \in [Dirs -> BOOLEAN]
      <4>1. [stamp EXCEPT ![d] = @ \/ loop[l].fresh] \in [Dirs -> BOOLEAN]
        BY <1>0, <2>0 DEF FlagsOK
      <4>2. [stamp EXCEPT ![d] = FALSE] \in [Dirs -> BOOLEAN]
        BY <1>0, <2>0 DEF FlagsOK
      <4> QED
        BY <1>0, <4>1, <4>2 DEF Stamped, FlagsOK
    <3> QED
      BY <1>0, <3>1, <3>2, <3>3 DEF FlagsOK
  <2>6. ASSUME NEW a \in Actions, Ends(l, a) PROVE StoreOK' /\ FlagsOK'
    <3>1. CASE Apply(d, a)
      BY <1>0, <1>2, <2>0, <2>6, <3>1 DEF Ends, StoreOK
    <3>2. CASE ~Apply(d, a)
      BY <1>1, <2>6, <3>2 DEF Ends, storeVars
    <3> QED
      BY <3>1, <3>2
  <2>7. ASSUME NEW a \in Actions, SendToLane(l, a) \/ Starts(l, a) PROVE StoreOK' /\ FlagsOK'
    BY <1>1, <2>7 DEF SendToLane, Starts
  <2>8. CASE PassFails(l) \/ Gate(l) \/ LoopExits(l)
    BY <1>1, <2>8 DEF PassFails, Gate, LoopExits
  <2> QED
    BY <1>3, <2>1, <2>2, <2>3, <2>4, <2>5, <2>6, <2>7, <2>8 DEF LoopStep
<1>4. ASSUME NEW j \in Jobs, JobStep(j) PROVE StoreOK' /\ FlagsOK'
  <2>1. CASE JobReturns(j)
    <3> DEFINE a == [do |-> job[j].do, file |-> job[j].file]
    <3>1. job[j].dir \in Dirs /\ a \in Actions
      BY <1>0, <2>1 DEF JobReturns, JobsOK, Actions, TypeInv, TypeOK, JobRec
    <3>2. dropped' \subseteq Files
      <4>1. Misleads(j) \subseteq Files
        <5>1. job[j].file \in Files /\ rows[job[j].dir] \subseteq Files
          BY <1>0, <2>1, <3>1 DEF JobReturns, JobsOK, StoreOK
        <5> QED
          BY <5>1 DEF Misleads, Outlived
      <4>2. dropped' = dropped \cup Misleads(j) \/ UNCHANGED dropped
        BY <2>1 DEF JobReturns
      <4> QED
        BY <1>0, <4>1, <4>2 DEF StoreOK
    <3>3. CASE Apply(job[j].dir, a)
      BY <1>2, <2>1, <3>1, <3>2, <3>3 DEF JobReturns
    <3>4. CASE ~Apply(job[j].dir, a)
      BY <1>1, <2>1, <3>4 DEF JobReturns, storeVars
    <3> QED
      BY <3>3, <3>4
  <2> QED
    BY <1>1, <1>4, <2>1 DEF JobStep, Recalled, SetAside, Unpark, ParkLooks, Parked, LaneDone
<1>5. CASE OpStep
  <2>1. ASSUME NEW d \in Dirs, Add(d) PROVE StoreOK' /\ FlagsOK'
    <3>1. StoreOK'
      BY <1>0, <2>1 DEF Add, Forgets, StoreOK, diskVars, Outlived
    <3>2. FlagsOK'
      BY <1>0, <2>1 DEF Add, Forgets, FlagsOK
    <3> QED
      BY <3>1, <3>2
  <2>2. CASE ReloadEnds
    <3>1. op.do = "remove" => op.dir \in Dirs
      BY <1>0 DEF OpOK
    <3>2. StoreOK'
      BY <1>0, <2>2, <3>1 DEF ReloadEnds, Forgets, StoreOK, diskVars
    <3>3. FlagsOK'
      BY <1>0, <2>2, <3>1 DEF ReloadEnds, Forgets, FlagsOK
    <3> QED
      BY <3>2, <3>3
  <2>3. ASSUME NEW x \in Files, Erase(x) \/ Purge(x) PROVE StoreOK' /\ FlagsOK'
    <3>0. op.dir \in Dirs
      BY <1>0, <2>3 DEF Erase, Purge, OpOK, MoveStages
    <3>1. disk' = [disk EXCEPT ![op.dir] = @ \ {x}] /\ UNCHANGED << storeVars, server, away, dropped >>
      BY <2>3 DEF Erase, Purge
    <3>2. StoreOK'
      BY <1>0, <3>0, <3>1 DEF StoreOK, storeVars
    <3>3. FlagsOK'
      BY <1>0, <3>1 DEF FlagsOK, storeVars
    <3> QED
      BY <3>2, <3>3
  <2>4. CASE EraseEnds \/ PurgeEnds
    <3>1. op.dir \in Dirs
      BY <1>0, <2>4 DEF EraseEnds, PurgeEnds, OpOK, MoveStages
    <3>2. StoreOK'
      BY <1>0, <2>4, <3>1 DEF EraseEnds, PurgeEnds, StoreOK, storeVars
    <3>3. FlagsOK'
      BY <1>0, <2>4 DEF EraseEnds, PurgeEnds, FlagsOK, storeVars
    <3> QED
      BY <3>2, <3>3
  <2>5. CASE Relocate
    <3>1. op.dir \in Dirs /\ op.to \in Dirs /\ op.dir # op.to
      BY <1>0, <2>5 DEF Relocate, OpOK, MoveStages
    <3>2. StoreOK'
      BY <1>0, <2>5, <3>1 DEF Relocate, StoreOK, storeVars
    <3>3. FlagsOK'
      BY <1>0, <2>5 DEF Relocate, FlagsOK, storeVars
    <3> QED
      BY <3>2, <3>3
  <2>6. CASE Rekey
    <3>1. op.dir \in Dirs /\ op.to \in Dirs
      BY <1>0, <2>6 DEF Rekey, OpOK, MoveStages
    <3>2. StoreOK'
      BY <1>0, <2>6, <3>1 DEF Rekey, Moved, StoreOK, diskVars
    <3>3. FlagsOK'
      BY <1>0, <2>6, <3>1 DEF Rekey, Moved, FlagsOK
    <3> QED
      BY <3>2, <3>3
  <2> QED
    BY <1>1, <1>5, <2>1, <2>2, <2>3, <2>4, <2>5, <2>6 DEF OpStep, Remove, HoldBack, StopWatcher, StartWatcher,
         StopsEnd, MoveBegins, MoveStopsLane, MoveQuiet, MoveSaves, MoveFails
<1>6. ASSUME NEW d \in Dirs, NEW x \in Files, Drop(d, x) PROVE StoreOK' /\ FlagsOK'
  <2>1. StoreOK'
    BY <1>0, <1>6 DEF Drop, StoreOK, storeVars
  <2>2. FlagsOK'
    BY <1>0, <1>6 DEF Drop, FlagsOK, storeVars
  <2> QED
    BY <2>1, <2>2
<1>7. CASE Crash
  BY <1>1, <1>7 DEF Crash
<1> QED
  BY <1>1, <1>3, <1>4, <1>5, <1>6, <1>7 DEF Next, vars

LEMMA SmallNext ==
  TypeInv /\ [Next]_vars => /\ config' \subseteq Dirs /\ held' \subseteq Dirs /\ stopped' \subseteq Dirs
                            /\ mark' \subseteq Dirs \X Files /\ strayed' \in BOOLEAN
<1> SUFFICES ASSUME TypeInv, [Next]_vars
             PROVE  /\ config' \subseteq Dirs /\ held' \subseteq Dirs /\ stopped' \subseteq Dirs
                    /\ mark' \subseteq Dirs \X Files /\ strayed' \in BOOLEAN
  OBVIOUS
<1> DEFINE Same == UNCHANGED << config, held, stopped, mark, strayed >>
           Goal == /\ config' \subseteq Dirs /\ held' \subseteq Dirs /\ stopped' \subseteq Dirs
                   /\ mark' \subseteq Dirs \X Files /\ strayed' \in BOOLEAN
<1>0. /\ config \subseteq Dirs /\ held \subseteq Dirs /\ stopped \subseteq Dirs
      /\ mark \subseteq Dirs \X Files /\ strayed \in BOOLEAN /\ OpOK
  BY DEF TypeInv, TypeOK, ShapeOK
<1>1. ASSUME Same PROVE Goal
  BY <1>0, <1>1
<1>2. ASSUME NEW l \in Loops, LoopStep(l) PROVE Goal
  <2>1. UNCHANGED << config, held, stopped >>
    BY <1>2, LoopStepIs DEF cfgVars
  <2>2. strayed' \in BOOLEAN
    <3>1. CASE LoopExits(l)
      BY <3>1 DEF LoopExits
    <3>2. CASE ~LoopExits(l)
      BY <1>0, <1>2, <3>2, LoopStepIs
    <3> QED
      BY <3>1, <3>2
  <2>3. mark' \subseteq mark \/ \E a \in Actions : mark' = mark \cup {<< loop[l].dir, a.file >>}
    <3>1. ASSUME NEW a \in Actions, SendToLane(l, a) \/ Starts(l, a) \/ Ends(l, a) PROVE <2>3!1 \/ <2>3!2
      BY <3>1 DEF SendToLane, Starts, Ends, Refused
    <3> QED
      BY <1>2, <3>1 DEF LoopStep, PassBegins, PassFails, CloneLists, CloneEnds, PassPlans, Gate,
         PassEnds, LoopExits, laneVars
  <2>4. loop[l].dir \in Dirs
    BY <1>2, LoopStepIs DEF TypeInv, ShapeOK, LoopsOK
  <2>5. mark' \subseteq Dirs \X Files
    BY <1>0, <2>3, <2>4 DEF Actions
  <2> QED
    BY <1>0, <2>1, <2>2, <2>5
<1>3. ASSUME NEW j \in Jobs, JobStep(j) PROVE Goal
  <2>1. mark' \subseteq mark /\ UNCHANGED << config, held, stopped, strayed >>
    BY <1>3 DEF JobStep, JobReturns, Recalled, SetAside, Unpark, ParkLooks, Parked, LaneDone, Clears, cfgVars,
         laneVars
  <2> QED
    BY <1>0, <2>1
<1>4. CASE OpStep
  <2>1. UNCHANGED << mark, strayed >>
    BY <1>4 DEF OpStep, Add, Remove, HoldBack, StopWatcher, StartWatcher, EraseEnds, PurgeEnds, Erase, Purge,
         Relocate, Rekey, ReloadEnds, StopsEnd, MoveBegins, MoveStopsLane, MoveQuiet, MoveSaves, MoveFails, laneVars
  <2>2. op.at \in MoveStages => op.to \in Dirs /\ op.dir \in Dirs
    BY <1>0 DEF OpOK
  <2>3. config' \subseteq Dirs /\ held' \subseteq Dirs
    BY <1>0, <1>4, <2>2 DEF OpStep, Add, Remove, HoldBack, StopWatcher, StartWatcher, EraseEnds, PurgeEnds, Erase, Purge,
         Relocate, Rekey, ReloadEnds, StopsEnd, MoveBegins, MoveStopsLane, MoveQuiet, MoveSaves, MoveFails, cfgVars, MoveStages
  <2>4. stopped' \subseteq Dirs
    BY <1>0, <1>4, <2>2 DEF OpStep, Add, Remove, HoldBack, StopWatcher, StartWatcher, EraseEnds, PurgeEnds, Erase, Purge,
         Relocate, Rekey, ReloadEnds, StopsEnd, MoveBegins, MoveStopsLane, MoveQuiet, MoveSaves, MoveFails, laneVars,
         LaneStops, Allowed, MoveStages
  <2> QED
    BY <1>0, <2>1, <2>3, <2>4
<1>5. CASE Crash
  BY <1>0, <1>5 DEF Crash, cfgVars
<1> QED
  BY <1>1, <1>2, <1>3, <1>4, <1>5 DEF Next, Drop, vars, cfgVars, laneVars

LEMMA CountsNext == TypeInv /\ Counted' /\ [Next]_vars => CountsOK'
<1> SUFFICES ASSUME TypeInv, Counted', [Next]_vars PROVE CountsOK'
  OBVIOUS
<1>1. burst' \in 0 .. Cardinality(Jobs)
  <2> DEFINE Open == {j \in Jobs : ~job[j].ended}
  <2>1. IsFiniteSet(Jobs) /\ Open' \subseteq Jobs
    BY FoldersAssumption DEF FoldersAssumption
  <2> HIDE DEF Open
  <2>2. Cardinality(Open') \in Nat /\ Cardinality(Jobs) \in Nat /\ Cardinality(Open') <= Cardinality(Jobs)
    BY <2>1, FS_Subset, FS_CardinalityType
  <2>3. burst' = Cardinality(Open')
    BY DEF Counted, Open
  <2> QED
    BY <2>2, <2>3
<1>2. UNCHANGED happened \/ (happened < HappensMax /\ happened' = happened + 1)
  <2>1. ASSUME NEW l \in Loops, LoopStep(l) PROVE <1>2!1 \/ <1>2!2
    <3>1. ASSUME NEW a \in Actions, SendToLane(l, a) \/ Starts(l, a) \/ Ends(l, a) PROVE <1>2!1 \/ <1>2!2
      BY <3>1 DEF SendToLane, Starts, Ends, Free, May, opVars
    <3> QED
      BY <2>1, <3>1 DEF LoopStep, PassBegins, PassFails, CloneLists, CloneEnds, PassPlans, Gate,
         PassEnds, LoopExits, opVars, Free, May
  <2>2. ASSUME NEW j \in Jobs, JobStep(j) PROVE <1>2!1 \/ <1>2!2
    BY <2>2 DEF JobStep, JobReturns, Recalled, SetAside, Unpark, ParkLooks, Parked, LaneDone, opVars, Free, May
  <2>3. ASSUME OpStep PROVE <1>2!1 \/ <1>2!2
    BY <2>3 DEF OpStep, Add, Remove, HoldBack, StopWatcher, StartWatcher, EraseEnds, PurgeEnds, Erase, Purge,
         Relocate, Rekey, ReloadEnds, StopsEnd, MoveBegins, MoveStopsLane, MoveQuiet, MoveSaves, MoveFails, opVars, Free, May
  <2> QED
    BY <2>1, <2>2, <2>3 DEF Next, Drop, Crash, vars, opVars, May
<1>3. UNCHANGED ops \/ (ops < OpsMax /\ ops' = ops + 1)
  <2>1. ASSUME NEW l \in Loops, LoopStep(l) PROVE UNCHANGED ops
    <3>1. ASSUME NEW a \in Actions, SendToLane(l, a) \/ Starts(l, a) \/ Ends(l, a) PROVE UNCHANGED ops
      BY <3>1 DEF SendToLane, Starts, Ends, opVars
    <3> QED
      BY <2>1, <3>1 DEF LoopStep, PassBegins, PassFails, CloneLists, CloneEnds, PassPlans, Gate,
         PassEnds, LoopExits, opVars
  <2>2. ASSUME NEW j \in Jobs, JobStep(j) PROVE UNCHANGED ops
    BY <2>2 DEF JobStep, JobReturns, Recalled, SetAside, Unpark, ParkLooks, Parked, LaneDone, opVars
  <2>3. ASSUME OpStep PROVE <1>3!1 \/ <1>3!2
    BY <2>3 DEF OpStep, Add, Remove, HoldBack, StopWatcher, StartWatcher, EraseEnds, PurgeEnds, Erase, Purge,
         Relocate, Rekey, ReloadEnds, StopsEnd, MoveBegins, MoveStopsLane, MoveQuiet, MoveSaves, MoveFails, opVars, Asked
  <2> QED
    BY <2>1, <2>2, <2>3 DEF Next, Drop, Crash, vars, opVars
<1>4. OpsMax \in Nat /\ HappensMax \in Nat /\ ops \in 0 .. OpsMax /\ happened \in 0 .. HappensMax
  BY FoldersAssumption DEF FoldersAssumption, TypeInv, TypeOK, CountsOK
<1> QED
  BY <1>1, <1>2, <1>3, <1>4 DEF CountsOK

LEMMA TypeInit == Init => TypeInv
<1> SUFFICES ASSUME Init PROVE TypeInv
  OBVIOUS
<1> USE FoldersAssumption DEF FoldersAssumption, Init
<1>1. Counted
  <2>1. {j \in Jobs : ~job[j].ended} = {}
    BY DEF NoJob
  <2> QED
    BY <2>1, FS_EmptySet DEF Counted
<1>2. CountsOK
  <2>1. Cardinality(Jobs) \in Nat
    BY FS_CardinalityType
  <2>2. burst = 0 /\ ops = 0 /\ happened = 0 /\ OpsMax \in Nat /\ HappensMax \in Nat
    OBVIOUS
  <2> HIDE FoldersAssumption DEF FoldersAssumption, Init
  <2> QED
    BY <2>1, <2>2 DEF CountsOK
<1>3. loop \in [Loops -> LoopRec] /\ job \in [Jobs -> JobRec]
  BY Records
<1>4. op \in OpRec /\ OpOK
  BY DEF NoOp, OpRec, OpOK, MoveStages
<1>5. LoopsOK /\ JobsOK
  <2>1. LoopsOK
    BY DEF LoopsOK, NoLoop
  <2>2. JobsOK
    BY DEF JobsOK, NoJob
  <2> QED
    BY <2>1, <2>2
<1>6. Attended
  BY DEF Attended, Watched
<1>7. stamp \in [Dirs -> BOOLEAN] /\ relist \in [Dirs -> BOOLEAN] /\ strayed \in BOOLEAN
  OBVIOUS
<1>8. /\ config \subseteq Dirs /\ held \subseteq Dirs
      /\ rows \in [Dirs -> SUBSET Files] /\ disk \in [Dirs -> SUBSET Files]
      /\ clone \in [Dirs -> {"", "started", "done"}]
      /\ server \subseteq Files /\ away \subseteq {d \in Dirs : disk[d] = {}}
      /\ watchers \in [Dirs -> Loops \cup {None}]
      /\ stopped \subseteq Dirs /\ mark \subseteq Dirs \X Files /\ dropped \subseteq Files
  OBVIOUS
<1> QED
  BY <1>1, <1>2, <1>3, <1>4, <1>5, <1>6, <1>7, <1>8 DEF TypeInv, TypeOK, ShapeOK

LEMMA TypeNext == TypeInv /\ [Next]_vars => TypeInv'
<1> SUFFICES ASSUME TypeInv, [Next]_vars PROVE TypeInv'
  OBVIOUS
<1>1. job' \in [Jobs -> JobRec] /\ JobsOK' /\ Counted'
  BY JobNext
<1>2. CountsOK'
  BY <1>1, CountsNext
<1>3. op' \in OpRec /\ OpOK'
  BY OpNext
<1>4. loop' \in [Loops -> LoopRec]
  BY LoopNext
<1>5. LoopsOK' /\ watchers' \in [Dirs -> Loops \cup {None}] /\ Attended'
  BY LoopsNext
<1>6. StoreOK' /\ FlagsOK'
  BY StoreNext
<1>7. /\ config' \subseteq Dirs /\ held' \subseteq Dirs /\ stopped' \subseteq Dirs
      /\ mark' \subseteq Dirs \X Files /\ strayed' \in BOOLEAN
  BY SmallNext
<1> QED
  BY <1>1, <1>2, <1>3, <1>4, <1>5, <1>6, <1>7 DEF TypeInv, TypeOK, ShapeOK, StoreOK, FlagsOK

\* The variables stay within their types, however many goroutines and jobs there are,
\* and however often the user changes the folders: and the lane counts no progress twice.
THEOREM TypeCorrect == Spec => []TypeOK
<1>1. TypeInv => TypeOK
  BY DEF TypeInv
<1> QED
  BY <1>1, TypeInit, TypeNext, PTL DEF Spec

-----------------------------------------------------------------------------
(* Who is watched *)

\* What WatchInv is about.
SameWatch == /\ UNCHANGED << config, held, watchers, stopped, strayed >>
             /\ \A k \in Loops : /\ loop'[k].dir = loop[k].dir /\ loop'[k].cut = loop[k].cut
                                 /\ (loop'[k].at = "none") = (loop[k].at = "none")
SameOp    == op'.at = op.at /\ op'.stops = op.stops /\ op'.starts = op.starts

LEMMA WatchKeeps ==
  ASSUME TypeInv, WatchInv, SameWatch, SameOp
  PROVE  WatchInv'
<1>0. watchers \in [Dirs -> Loops \cup {None}]
  BY DEF TypeInv, TypeOK
<1>1. WatchersOK'
  BY <1>0 DEF WatchInv, WatchersOK, SameWatch, SameOp, Watched
<1>2. NoOther'
  BY DEF WatchInv, NoOther, SameWatch
<1>3. StartsOK'
  BY DEF WatchInv, StartsOK, SameWatch, SameOp, Watched
<1> QED
  BY <1>1, <1>2, <1>3 DEF WatchInv

\* An operation that asks for what is configured now, with the watchers as they are.
LEMMA WatchReloads ==
  ASSUME TypeInv, WatchInv, UNCHANGED << watchers, stopped, strayed, loop >>,
         NEW o, op' = Reload(config', held', o)
  PROVE  WatchInv'
<1>1. /\ op'.at = "stops" /\ op'.starts = config' \ held'
      /\ op'.stops = {d \in Dirs : watchers[d] # None} \ (config' \ held')
  BY DEF Reload, NoOp
<1>2. WatchersOK'
  BY <1>1 DEF WatchInv, WatchersOK, Watched
<1>3. NoOther' /\ StartsOK'
  BY <1>1 DEF WatchInv, NoOther, StartsOK
<1> QED
  BY <1>2, <1>3 DEF WatchInv

\* A pair leaves the table, and its goroutine is cancelled.
LEMMA CutWatch ==
  ASSUME TypeInv, WatchInv, NEW d \in Dirs, watchers' = [watchers EXCEPT ![d] = None], loop' = Cut(d),
         strayed' = strayed, stopped' \subseteq stopped \cup {d}
  PROVE  /\ NoOther'
         /\ \A e \in Dirs : Watched(e)' => /\ Watched(e) /\ e # d /\ e \notin stopped'
                                           /\ ~loop'[watchers'[e]].cut
<1>0. /\ watchers \in [Dirs -> Loops \cup {None}] /\ WatchersOK /\ NoOther /\ Attended
  BY DEF TypeInv, TypeOK, ShapeOK, WatchInv
<1>1. \A k \in Loops : /\ loop'[k].dir = loop[k].dir /\ loop'[k].at = loop[k].at
                       /\ k = watchers[d] => loop'[k].cut
                       /\ k # watchers[d] => loop'[k].cut = loop[k].cut
  BY CutIs
<1>2. ASSUME NEW e \in Dirs, Watched(e)'
      PROVE  /\ Watched(e) /\ e # d /\ e \notin stopped' /\ ~loop'[watchers'[e]].cut
  <2>1. Watched(e) /\ e # d /\ watchers'[e] = watchers[e]
    BY <1>0, <1>2 DEF Watched
  <2>2. watchers[e] # watchers[d] /\ watchers[e] \in Loops
    BY <1>0, <2>1 DEF Attended, Watched
  <2>3. ~loop[watchers[e]].cut /\ e \notin stopped
    BY <1>0, <2>1 DEF WatchersOK
  <2> QED
    BY <1>1, <2>1, <2>2, <2>3
<1>3. NoOther'
  <2> SUFFICES ASSUME ~strayed', NEW k \in Loops, loop'[k].at # "none", ~loop'[k].cut
               PROVE  watchers'[loop'[k].dir] = k
    BY DEF NoOther
  <2>1. k # watchers[d] /\ ~loop[k].cut /\ loop[k].at # "none" /\ loop'[k].dir = loop[k].dir
    BY <1>1
  <2>2. watchers[loop[k].dir] = k /\ loop[k].dir \in Dirs
    BY <1>0, <2>1 DEF NoOther, TypeInv, ShapeOK, LoopsOK
  <2> QED
    BY <1>0, <2>1, <2>2
<1> QED
  BY <1>2, <1>3

LEMMA WatchNext == TypeInv /\ WatchInv /\ MoveInv /\ [Next]_vars => WatchInv'
<1> SUFFICES ASSUME TypeInv, WatchInv, MoveInv, [Next]_vars PROVE WatchInv'
  OBVIOUS
<1>0. /\ watchers \in [Dirs -> Loops \cup {None}] /\ None \notin Dirs \cup Loops
      /\ loop \in [Loops -> LoopRec] /\ WatchersOK /\ NoOther /\ StartsOK /\ Attended /\ OpOK
      /\ op \in OpRec /\ config \subseteq Dirs /\ held \subseteq Dirs
  BY FoldersAssumption DEF TypeInv, TypeOK, ShapeOK, WatchInv, FoldersAssumption
<1>1. ASSUME UNCHANGED << cfgVars, loopVars, stopped, strayed, op >> PROVE WatchInv'
  BY <1>1, WatchKeeps DEF SameWatch, SameOp, cfgVars, loopVars
<1>2. ASSUME NEW l \in Loops, LoopStep(l) PROVE WatchInv'
  <2>0. UNCHANGED << cfgVars, stopped, op >> /\ loop[l].at # "none" /\ \A k \in Loops \ {l} : SameLoop(k)
    BY <1>2, LoopStepIs
  <2>1. CASE ~LoopExits(l)
    <3>1. /\ loop'[l].at # "none" /\ loop'[l].dir = loop[l].dir /\ loop'[l].cut = loop[l].cut
          /\ UNCHANGED << watchers, strayed >>
      BY <1>2, <2>1, LoopStepIs
    <3>2. SameWatch
      BY <2>0, <3>1 DEF SameWatch, SameLoop, cfgVars
    <3> QED
      BY <2>0, <3>2, WatchKeeps DEF SameOp
  <2>2. CASE LoopExits(l)
    <3> DEFINE d == loop[l].dir
    <3>1. /\ loop[l].cut /\ watchers' = [watchers EXCEPT ![d] = None] /\ loop' = [loop EXCEPT ![l] = NoLoop]
          /\ strayed' = (strayed \/ watchers[d] \notin {None, l})
      BY <2>2 DEF LoopExits
    <3>2. d \in Dirs
      BY <2>0 DEF TypeInv, ShapeOK, LoopsOK
    <3>3. \A e \in Dirs : watchers[e] # l
      BY <1>0, <3>1 DEF WatchersOK, Watched
    <3>4. ~strayed' => ~strayed /\ watchers' = watchers
      BY <1>0, <3>1, <3>2, <3>3
    <3>5. WatchersOK'
      BY <1>0, <2>0, <3>1, <3>2, <3>3 DEF WatchersOK, Watched, cfgVars
    <3>6. NoOther'
      BY <1>0, <3>1, <3>4 DEF NoOther, NoLoop
    <3>7. StartsOK'
      BY <1>0, <2>0, <3>4 DEF StartsOK, Watched, cfgVars
    <3> QED
      BY <3>5, <3>6, <3>7 DEF WatchInv
  <2> QED
    BY <2>1, <2>2
<1>3. ASSUME NEW j \in Jobs, JobStep(j) PROVE WatchInv'
  <2>1. UNCHANGED << config, held, watchers, stopped, strayed >>
    BY <1>3 DEF JobStep, JobReturns, Recalled, SetAside, Unpark, ParkLooks, Parked, LaneDone, loopVars, cfgVars
  <2>2. ASSUME NEW k \in Loops
        PROVE  /\ loop'[k].dir = loop[k].dir /\ loop'[k].cut = loop[k].cut
               /\ loop'[k].at = loop[k].at
    <3>1. CASE JobReturns(j)
      BY <1>0, <3>1, SameFresh DEF JobReturns
    <3>2. CASE Recalled(j) \/ LaneDone(j)
      BY <1>0, <3>2 DEF Recalled, LaneDone, Released, LoopRec
    <3>3. CASE UNCHANGED loop
      BY <3>3
    <3> QED
      BY <1>3, <3>1, <3>2, <3>3 DEF JobStep, SetAside, Unpark, ParkLooks, Parked, loopVars
  <2>3. SameOp
    <3>1. UNCHANGED op \/ op' = [op EXCEPT !.waits = @ \ {j}]
      BY <1>3 DEF JobStep, JobReturns, Recalled, SetAside, Unpark, ParkLooks, Parked, LaneDone, Released, opVars
    <3> QED
      BY <1>0, <3>1 DEF SameOp, OpRec
  <2> QED
    BY <2>1, <2>2, <2>3, WatchKeeps DEF SameWatch
<1>4. CASE OpStep
  <2>1. ASSUME NEW d \in Dirs, Add(d) PROVE WatchInv'
    <3>1. op' = Reload(config', held', [NoOp EXCEPT !.do = "add"])
          /\ UNCHANGED << watchers, stopped, strayed, loop >>
      BY <2>1 DEF Add, loopVars, laneVars
    <3> QED
      BY <3>1, WatchReloads
  <2>2. ASSUME NEW d \in Dirs, HoldBack(d) PROVE WatchInv'
    <3>1. op' = Reload(config', held', [NoOp EXCEPT !.do = "gate"])
          /\ UNCHANGED << watchers, stopped, strayed, loop >>
      BY <2>2 DEF HoldBack, loopVars, laneVars
    <3> QED
      BY <3>1, WatchReloads
  <2>3. ASSUME NEW d \in Dirs, NEW del \in BOOLEAN, Remove(d, del) PROVE WatchInv'
    <3>1. op' = Reload(config', held', [NoOp EXCEPT !.do = "remove", !.dir = d, !.del = del])
          /\ UNCHANGED << watchers, stopped, strayed, loop >>
      BY <2>3 DEF Remove, loopVars, laneVars
    <3> QED
      BY <3>1, WatchReloads
  <2>4. CASE MoveSaves \/ MoveFails
    <3>1. op' = Reload(config', held', op) /\ UNCHANGED << watchers, stopped, strayed, loop >>
      BY <2>4 DEF MoveSaves, MoveFails, loopVars, laneVars, cfgVars
    <3> QED
      BY <3>1, WatchReloads
  <2>5. ASSUME NEW d \in Dirs, StopWatcher(d) PROVE WatchInv'
    <3>1. /\ op.at = "stops" /\ d \in op.stops /\ watchers' = [watchers EXCEPT ![d] = None] /\ loop' = Cut(d)
          /\ stopped' = stopped \cup {d} /\ UNCHANGED << config, held, strayed >>
          /\ op' = [op EXCEPT !.stops = @ \ {d}, !.waits = InLane(d)]
      BY <1>0, <2>5 DEF StopWatcher, LaneStops, cfgVars
    <3>2. op'.at = "stops" /\ op'.starts = op.starts /\ op'.stops = op.stops \ {d}
      BY <1>0, <3>1 DEF OpRec
    <3>3. /\ NoOther'
          /\ \A e \in Dirs : Watched(e)' => /\ Watched(e) /\ e # d /\ e \notin stopped'
                                            /\ ~loop'[watchers'[e]].cut
      BY <3>1, CutWatch
    <3>5. WatchersOK'
      BY <1>0, <3>1, <3>2, <3>3 DEF WatchersOK, Watched
    <3>7. StartsOK'
      BY <1>0, <3>1, <3>2 DEF StartsOK
    <3> QED
      BY <3>3, <3>5, <3>7 DEF WatchInv
  <2>6. ASSUME NEW d \in Dirs, StartWatcher(d) PROVE WatchInv'
    <3>1. op.at = "starts" /\ d \in op.starts /\ op'.at = "starts" /\ op'.stops = op.stops
          /\ op'.starts = op.starts \ {d} /\ UNCHANGED << config, held, strayed >>
      BY <1>0, <2>6 DEF StartWatcher, OpRec, cfgVars
    <3>2. CASE watchers[d] # None
      <4>1. UNCHANGED << watchers, loop, stopped >>
        BY <2>6, <3>2 DEF StartWatcher, loopVars
      <4>2. WatchersOK' /\ NoOther'
        BY <1>0, <3>1, <4>1 DEF WatchersOK, NoOther, Watched
      <4>3. StartsOK'
        BY <1>0, <3>1, <3>2, <4>1 DEF StartsOK, Watched
      <4> QED
        BY <4>2, <4>3 DEF WatchInv
    <3>3. CASE watchers[d] = None
      <4> DEFINE r == [NoLoop EXCEPT !.dir = d, !.at = "idle"]
      <4>1. PICK l \in Loops : /\ ~Live(l) /\ watchers' = [watchers EXCEPT ![d] = l]
                               /\ loop' = [loop EXCEPT ![l] = r] /\ stopped' = stopped \ {d}
        BY <2>6, <3>3 DEF StartWatcher, Allowed
      <4>2. r.dir = d /\ r.at = "idle" /\ r.cut = FALSE
        BY DEF NoLoop
      <4> HIDE DEF r
      <4>3. \A e \in Dirs : watchers[e] # l
        BY <1>0, <4>1 DEF Live, LoopsOK, Attended, Watched, TypeInv, ShapeOK, NoLoop
      <4>4. WatchersOK'
        BY <1>0, <3>1, <4>1, <4>2, <4>3 DEF WatchersOK, StartsOK, Watched
      <4>5. NoOther'
        <5> SUFFICES ASSUME ~strayed', NEW k \in Loops, loop'[k].at # "none", ~loop'[k].cut
                     PROVE  watchers'[loop'[k].dir] = k
          BY DEF NoOther
        <5>1. CASE k = l
          BY <1>0, <4>1, <4>2, <5>1
        <5>2. CASE k # l
          <6>1. watchers[loop[k].dir] = k /\ loop'[k] = loop[k]
            BY <1>0, <3>1, <4>1, <5>2 DEF NoOther
          <6>2. loop[k].dir \in Dirs /\ loop[k].dir # d
            BY <1>0, <3>3, <6>1 DEF TypeInv, ShapeOK, LoopsOK
          <6> QED
            BY <1>0, <4>1, <6>1, <6>2
        <5> QED
          BY <5>1, <5>2
      <4>6. StartsOK'
        BY <1>0, <3>1, <4>1 DEF StartsOK, Watched
      <4> QED
        BY <4>4, <4>5, <4>6 DEF WatchInv
    <3> QED
      BY <3>2, <3>3
  <2>7. ASSUME NEW d \in Dirs, NEW to \in Dirs, MoveBegins(d, to) PROVE WatchInv'
    <3>1. /\ op = NoOp /\ watchers' = [watchers EXCEPT ![d] = None] /\ loop' = Cut(d)
          /\ UNCHANGED << config, held, strayed, stopped >>
          /\ op' = [NoOp EXCEPT !.do = "move", !.at = "quiet", !.dir = d, !.to = to]
      BY <1>0, <2>7 DEF MoveBegins, Asked, cfgVars, laneVars
    <3>2. op.at = "idle" /\ op.starts = {} /\ op'.at = "quiet" /\ op'.starts = {}
      BY <3>1 DEF NoOp
    <3>3. /\ NoOther'
          /\ \A e \in Dirs : Watched(e)' => /\ Watched(e) /\ e # d /\ e \notin stopped'
                                            /\ ~loop'[watchers'[e]].cut
      BY <3>1, CutWatch
    <3>5. WatchersOK'
      BY <1>0, <3>1, <3>2, <3>3 DEF WatchersOK, Watched
    <3>7. StartsOK'
      BY <1>0, <3>1, <3>2 DEF StartsOK
    <3> QED
      BY <3>3, <3>5, <3>7 DEF WatchInv
  <2>8. CASE MoveStopsLane
    <3>1. /\ op.at = "quiet" /\ stopped' = stopped \cup {op.dir}
          /\ op' = [op EXCEPT !.at = "lane", !.waits = InLane(op.dir)]
          /\ UNCHANGED << config, held, watchers, loop, strayed >>
      BY <1>0, <2>8 DEF MoveStopsLane, LaneStops, cfgVars, loopVars
    <3>2. op'.at = "lane" /\ op'.starts = op.starts
      BY <1>0, <3>1 DEF OpRec
    <3>3. ~Watched(op.dir)
      BY <3>1 DEF MoveInv, MoveStages
    <3>4. WatchersOK'
      BY <1>0, <3>1, <3>2, <3>3 DEF WatchersOK, Watched
    <3>5. NoOther' /\ StartsOK'
      BY <1>0, <3>1, <3>2 DEF NoOther, StartsOK
    <3> QED
      BY <3>4, <3>5 DEF WatchInv
  <2>9. CASE StopsEnd \/ ReloadEnds \/ EraseEnds
    <3>1. UNCHANGED << config, held, watchers, loop, strayed, stopped >>
      BY <2>9 DEF StopsEnd, ReloadEnds, EraseEnds, cfgVars, loopVars, laneVars
    <3>2. \/ op.at = "stops" /\ op.stops = {} /\ op'.at = "starts" /\ op'.starts = op.starts
          \/ op.at \in {"starts", "erase"} /\ op.starts = {} /\ op'.starts = {} /\ op'.at \in {"idle", "erase"}
      <4>1. CASE StopsEnd
        BY <1>0, <4>1 DEF StopsEnd, OpRec
      <4>2. CASE ReloadEnds
        BY <1>0, <4>2 DEF ReloadEnds, OpRec, NoOp
      <4>3. CASE EraseEnds
        BY <1>0, <4>3 DEF EraseEnds, NoOp, StartsOK
      <4> QED
        BY <2>9, <4>1, <4>2, <4>3
    <3>3. WatchersOK'
      BY <1>0, <3>1, <3>2 DEF WatchersOK, Watched
    <3>4. NoOther'
      BY <1>0, <3>1 DEF NoOther
    <3>5. StartsOK'
      BY <1>0, <3>1, <3>2 DEF StartsOK, Watched
    <3> QED
      BY <3>3, <3>4, <3>5 DEF WatchInv
  <2>10. CASE MoveQuiet \/ Relocate \/ PurgeEnds \/ Rekey
    <3>1. UNCHANGED << config, held, watchers, loop, strayed, stopped >>
      BY <2>10 DEF MoveQuiet, Relocate, PurgeEnds, Rekey, cfgVars, loopVars, laneVars
    <3>2. op.at \in MoveStages /\ op'.at \in MoveStages /\ op'.starts = op.starts
      BY <1>0, <2>10 DEF MoveQuiet, Relocate, PurgeEnds, Rekey, OpRec, MoveStages
    <3>3. WatchersOK'
      BY <1>0, <3>1, <3>2 DEF WatchersOK, Watched, MoveStages
    <3>4. NoOther' /\ StartsOK'
      BY <1>0, <3>1, <3>2 DEF NoOther, StartsOK, MoveStages
    <3> QED
      BY <3>3, <3>4 DEF WatchInv
  <2>11. ASSUME NEW x \in Files, Erase(x) \/ Purge(x) PROVE WatchInv'
    BY <1>1, <2>11 DEF Erase, Purge, laneVars, opVars
  <2> QED
    BY <1>4, <2>1, <2>2, <2>3, <2>4, <2>5, <2>6, <2>7, <2>8, <2>9, <2>10, <2>11 DEF OpStep
<1>5. CASE Crash
  <2>1. /\ watchers' = [d \in Dirs |-> None] /\ loop' = [l \in Loops |-> NoLoop] /\ UNCHANGED << config, held >>
        /\ op'.at = "starts" /\ op'.starts = config \ held
    BY <1>5 DEF Crash, NoOp, cfgVars
  <2> QED
    BY <2>1 DEF WatchInv, WatchersOK, NoOther, StartsOK, Watched, NoLoop
<1>6. ASSUME NEW d \in Dirs, NEW x \in Files, Drop(d, x) PROVE WatchInv'
  BY <1>1, <1>6 DEF Drop, laneVars
<1>7. CASE UNCHANGED vars
  BY <1>1, <1>7 DEF vars, laneVars, opVars
<1> QED
  BY <1>2, <1>3, <1>4, <1>5, <1>6, <1>7 DEF Next

-----------------------------------------------------------------------------
(* Whose jobs are in the lane *)

LEMMA TakenOutIs ==
  ASSUME TypeInv, NEW M \in SUBSET {j \in Jobs : Takeable(j)}, job' = TakenOut(M)
  PROVE  \A k \in Jobs :
           /\ job'[k].dir = job[k].dir /\ job'[k].file = job[k].file
           /\ InTheLane(k)' => InTheLane(k) /\ k \notin M
           /\ job'[k].at = "stopping" => job[k].at = "stopping" \/ k \in M
           /\ k \in M => job'[k].at \in {"stopping", "out"}
           /\ k \notin M => job'[k] = job[k]
<1> SUFFICES ASSUME NEW k \in Jobs
             PROVE  /\ job'[k].dir = job[k].dir /\ job'[k].file = job[k].file
                    /\ InTheLane(k)' => InTheLane(k) /\ k \notin M
                    /\ job'[k].at = "stopping" => job[k].at = "stopping" \/ k \in M
                    /\ k \in M => job'[k].at \in {"stopping", "out"}
                    /\ k \notin M => job'[k] = job[k]
  OBVIOUS
<1>0. job[k] \in JobRec
  BY DEF TypeInv, TypeOK
<1>1. CASE k \notin M
  BY <1>1 DEF TakenOut, InTheLane
<1>2. CASE k \in M /\ job[k].at # "aside"
  <2>1. job'[k] = [job[k] EXCEPT !.at = "stopping", !.recalled = FALSE]
    BY <1>2 DEF TakenOut
  <2> QED
    BY <1>0, <1>2, <2>1 DEF InTheLane, JobRec
<1>3. CASE k \in M /\ job[k].at = "aside"
  <2>1. job'[k] = [job[k] EXCEPT !.at = "out", !.end = "stopped", !.recalled = FALSE]
    BY <1>3 DEF TakenOut
  <2> QED
    BY <1>0, <1>3, <2>1 DEF InTheLane, JobRec
<1> QED
  BY <1>1, <1>2, <1>3

\* A step of a job puts no other into the lane, nor stops one.
LEMMA JobStepIs ==
  ASSUME TypeInv, NEW j \in Jobs, JobStep(j)
  PROVE  /\ \A k \in Jobs : /\ InTheLane(k)' => InTheLane(k) /\ job'[k].dir = job[k].dir
                            /\ job'[k].at = "stopping" => job[k].at = "stopping"
         /\ job'[j].at = "stopping" => ~LaneDone(j) /\ ~Recalled(j)
<1>0. job \in [Jobs -> JobRec] /\ NoJob.at = "free"
  BY DEF TypeInv, TypeOK, NoJob
<1> DEFINE Goal == /\ \A k \in Jobs : /\ InTheLane(k)' => InTheLane(k) /\ job'[k].dir = job[k].dir
                                      /\ job'[k].at = "stopping" => job[k].at = "stopping"
                   /\ job'[j].at = "stopping" => ~LaneDone(j)
<1>10. Recalled(j) => job'[j].at # "stopping"
  BY <1>0 DEF Recalled, JobRec
<1> SUFFICES Goal
  BY <1>10
<1>1. ASSUME NEW r \in JobRec, job' = [job EXCEPT ![j] = r],
             InTheLane(j) \/ r.at \notin {"held", "aside"} \/ r.recalled, r.dir = job[j].dir \/ r.at = "free",
             r.at = "stopping" => job[j].at = "stopping" /\ ~LaneDone(j)
      PROVE  Goal
  BY <1>0, <1>1 DEF InTheLane
<1>2. ASSUME NEW r \in JobRec, job' = Told(j, r),
             InTheLane(j) \/ r.at \notin {"held", "aside"} \/ r.recalled, r.dir = job[j].dir \/ r.at = "free",
             r.at = "stopping" => job[j].at = "stopping" /\ ~LaneDone(j)
      PROVE  Goal
  <2>1. CASE r.at = "told" /\ r.note = "none"
    BY <1>0, <1>1, <1>2, <2>1, Records DEF Told
  <2>2. CASE ~(r.at = "told" /\ r.note = "none")
    BY <1>1, <1>2, <2>2 DEF Told
  <2> QED
    BY <2>1, <2>2
<1>3. CASE JobReturns(j)
  <2>1. \E e \in {"ran", "stopped", "unparked"} : job' = [job EXCEPT ![j].at = "out", ![j].end = e]
    <3>1. job' = [job EXCEPT ![j].at = "out"] \/ \E e \in {"ran", "stopped"} : job' = [job EXCEPT ![j].at = "out", ![j].end = e]
      BY <1>3 DEF JobReturns
    <3>2. ASSUME job' = [job EXCEPT ![j].at = "out"]
          PROVE  job' = [job EXCEPT ![j].at = "out", ![j].end = job[j].end]
      BY <1>0, <3>2 DEF JobRec
    <3>3. job[j].end \in {"ran", "stopped", "unparked"}
      BY <1>0 DEF JobRec
    <3> QED
      BY <3>1, <3>2, <3>3
  <2>2. PICK e \in {"ran", "stopped", "unparked"} : job' = [job EXCEPT ![j].at = "out", ![j].end = e]
    BY <2>1
  <2> DEFINE r == [job[j] EXCEPT !.at = "out", !.end = e]
  <2>3. r \in JobRec /\ r.at = "out" /\ r.dir = job[j].dir
    BY <1>0 DEF JobRec
  <2>4. job' = [job EXCEPT ![j] = r]
    BY <2>2
  <2> HIDE DEF r
  <2> QED
    BY <1>1, <2>3, <2>4
<1>4. CASE SetAside(j)
  <2> DEFINE r == [job[j] EXCEPT !.at = "aside", !.note = "owed"]
  <2>1. r \in JobRec /\ r.at = "aside" /\ r.dir = job[j].dir /\ r.recalled = job[j].recalled
    BY <1>0 DEF JobRec
  <2>2. job' = [job EXCEPT ![j] = r] /\ (InTheLane(j) \/ job[j].recalled)
    BY <1>4 DEF SetAside, InTheLane
  <2> HIDE DEF r
  <2> QED
    BY <1>1, <2>1, <2>2
<1>5. CASE Unpark(j)
  <2> DEFINE r == [job[j] EXCEPT !.at = "out", !.end = "unparked"]
  <2>1. r \in JobRec /\ r.at = "out" /\ r.dir = job[j].dir
    BY <1>0 DEF JobRec
  <2>2. job' = [job EXCEPT ![j] = r]
    BY <1>5 DEF Unpark
  <2> HIDE DEF r
  <2> QED
    BY <1>1, <2>1, <2>2
<1>6. CASE ParkLooks(j)
  <2>1. ~LaneDone(j) \/ job[j].at # "stopping"
    BY DEF LaneDone
  <2> DEFINE r == [job[j] EXCEPT !.note = IF job[j].at = "told" THEN "none" ELSE "passed"]
  <2>2. r \in JobRec /\ r.at = job[j].at /\ r.dir = job[j].dir /\ r.recalled = job[j].recalled
    BY <1>0 DEF JobRec
  <2>3. job' = Told(j, r)
    BY <1>6 DEF ParkLooks
  <2>4. r.at = "stopping" => ~LaneDone(j)
    BY <2>2 DEF LaneDone
  <2> HIDE DEF r
  <2>5. InTheLane(j) \/ r.at \notin {"held", "aside"} \/ r.recalled
    BY <2>2 DEF InTheLane
  <2> QED
    BY <1>2, <2>2, <2>3, <2>4, <2>5
<1>7. CASE Parked(j)
  <2> DEFINE r == [job[j] EXCEPT !.note = "none", !.ended = TRUE]
  <2>2. r \in JobRec /\ r.at = job[j].at /\ r.dir = job[j].dir /\ r.recalled = job[j].recalled
    BY <1>0 DEF JobRec
  <2>3. job' = Told(j, r)
    BY <1>7 DEF Parked
  <2>4. r.at = "stopping" => ~LaneDone(j)
    BY <2>2 DEF LaneDone
  <2> HIDE DEF r
  <2>5. InTheLane(j) \/ r.at \notin {"held", "aside"} \/ r.recalled
    BY <2>2 DEF InTheLane
  <2> QED
    BY <1>2, <2>2, <2>3, <2>4, <2>5
<1>8. CASE LaneDone(j)
  <2> DEFINE r == [job[j] EXCEPT !.at = "told", !.ended = TRUE]
  <2>2. r \in JobRec /\ r.at = "told" /\ r.dir = job[j].dir
    BY <1>0 DEF JobRec
  <2>3. job' = Told(j, r)
    BY <1>8 DEF LaneDone
  <2> HIDE DEF r
  <2> QED
    BY <1>2, <2>2, <2>3
<1>9. CASE Recalled(j)
  <2> DEFINE r1 == [job[j] EXCEPT !.at = "held", !.recalled = TRUE]
             r2 == [job[j] EXCEPT !.at = "aside", !.recalled = TRUE, !.note = "owed"]
  <2>1. /\ r1 \in JobRec /\ r1.at = "held" /\ r1.recalled /\ r1.dir = job[j].dir
        /\ r2 \in JobRec /\ r2.at = "aside" /\ r2.recalled /\ r2.dir = job[j].dir
    BY <1>0 DEF JobRec
  <2>2. job' = [job EXCEPT ![j] = r1] \/ job' = [job EXCEPT ![j] = r2]
    BY <1>9 DEF Recalled
  <2> HIDE DEF r1, r2
  <2> QED
    BY <1>1, <2>1, <2>2
<1> QED
  BY <1>3, <1>4, <1>5, <1>6, <1>7, <1>8, <1>9 DEF JobStep

\* What LaneInv is about.
LEMMA LaneKeeps ==
  ASSUME TypeInv, LaneInv, UNCHANGED << stopped, watchers, strayed >>,
         \A k \in Loops : loop'[k].dir = loop[k].dir,
         \A k \in Jobs : InTheLane(k)' => InTheLane(k) /\ job'[k].dir = job[k].dir,
         op.at = "quiet" => op'.at = "quiet" /\ op'.dir = op.dir,
         \A k \in Jobs : job'[k].at = "stopping" => Awaited(k)'
  PROVE  LaneInv'
<1>1. NoneStopped'
  BY DEF LaneInv, NoneStopped
<1>2. NoneDeserted'
  <2>1. \A d \in Dirs : Deserted(d)' => Deserted(d)
    BY DEF Deserted, Watched
  <2> QED
    BY <2>1 DEF LaneInv, NoneDeserted
<1> QED
  BY <1>1, <1>2 DEF LaneInv, StopsAwaited

\* An operation that leaves goroutines and jobs alone.
LEMMA LaneRests ==
  ASSUME TypeInv, LaneInv, UNCHANGED << stopped, watchers, strayed, loop, job >>,
         op.at = "quiet" => op'.at = "quiet" /\ op'.dir = op.dir,
         op.waits \subseteq op'.waits
  PROVE  LaneInv'
<1>1. \A k \in Jobs : job'[k].at = "stopping" => Awaited(k)'
  BY DEF LaneInv, StopsAwaited, Awaited
<1>2. \A k \in Jobs : InTheLane(k)' => InTheLane(k) /\ job'[k].dir = job[k].dir
  BY DEF InTheLane
<1> QED
  BY <1>1, <1>2, LaneKeeps

\* The lane takes no more of a pair's jobs, and takes out those it has.
LEMMA StopKeeps ==
  ASSUME TypeInv, LaneInv, NEW d \in Dirs, stopped' = stopped \cup {d}, job' = TakenOut(InLane(d)),
         UNCHANGED strayed, op.waits = {}, op'.waits = InLane(d),
         \A e \in Dirs : e # d => watchers'[e] = watchers[e],
         \A k \in Loops : loop'[k].dir = loop[k].dir /\ loop'[k].waits = loop[k].waits,
         op.at = "quiet" => op.dir = d
  PROVE  LaneInv'
<1>1. InLane(d) \in SUBSET {j \in Jobs : Takeable(j)}
  BY DEF InLane, Takeable
<1>2. \A k \in Jobs :
           /\ job'[k].dir = job[k].dir
           /\ InTheLane(k)' => InTheLane(k) /\ k \notin InLane(d)
           /\ job'[k].at = "stopping" => job[k].at = "stopping" \/ k \in InLane(d)
  BY <1>1, TakenOutIs
<1>3. NoneStopped'
  BY <1>2 DEF LaneInv, NoneStopped, InLane, InTheLane
<1>4. NoneDeserted'
  <2>1. \A e \in Dirs : Deserted(e)' => Deserted(e)
    BY DEF Deserted, Watched
  <2> QED
    BY <1>2, <2>1 DEF LaneInv, NoneDeserted
<1>5. StopsAwaited'
  <2> SUFFICES ASSUME NEW k \in Jobs, job'[k].at = "stopping" PROVE Awaited(k)'
    BY DEF StopsAwaited
  <2>1. CASE job[k].at = "stopping"
    BY <2>1 DEF LaneInv, StopsAwaited, Awaited
  <2>2. CASE k \in InLane(d)
    BY <2>2 DEF Awaited
  <2> QED
    BY <1>2, <2>1, <2>2
<1> QED
  BY <1>3, <1>4, <1>5 DEF LaneInv

LEMMA LaneLoops ==
  ASSUME TypeInv, WatchInv, LaneInv, NEW l \in Loops, LoopStep(l)
  PROVE  LaneInv'
<1>0. /\ loop \in [Loops -> LoopRec] /\ job \in [Jobs -> JobRec] /\ watchers \in [Dirs -> Loops \cup {None}]
      /\ None \notin Dirs \cup Loops
      /\ UNCHANGED << cfgVars, stopped, op >> /\ loop[l].dir \in Dirs
      /\ \A k \in Loops \ {l} : SameLoop(k)
      /\ loop[l].waits \subseteq loop'[l].waits
  BY LoopStepIs, FoldersAssumption DEF TypeInv, TypeOK, ShapeOK, LoopsOK, FoldersAssumption
<1>1. \A k \in Loops : loop[k].waits \subseteq loop'[k].waits
  BY <1>0 DEF SameLoop
<1>2. ASSUME NEW k \in Jobs, job[k].at = "stopping" PROVE Awaited(k)'
  BY <1>0, <1>1, <1>2 DEF LaneInv, StopsAwaited, Awaited
<1>3. CASE LoopExits(l)
  <2>1. /\ loop[l].cut /\ watchers' = [watchers EXCEPT ![loop[l].dir] = None]
        /\ loop' = [loop EXCEPT ![l] = NoLoop] /\ job' = job
        /\ strayed' = (strayed \/ watchers[loop[l].dir] \notin {None, l})
    BY <1>3 DEF LoopExits, laneVars
  <2>2. \A e \in Dirs : watchers[e] # l
    BY <1>0, <2>1 DEF WatchInv, WatchersOK, Watched
  <2>3. ~strayed' => ~strayed /\ watchers' = watchers
    BY <1>0, <2>1, <2>2
  <2>4. NoneStopped'
    BY <1>0, <2>1 DEF LaneInv, NoneStopped, InTheLane
  <2>5. NoneDeserted'
    <3> SUFFICES ASSUME ~strayed', NEW d \in Dirs, Deserted(d)'
                 PROVE  /\ \A k \in Loops : loop'[k].dir # d
                        /\ \A j \in Jobs : InTheLane(j)' => job'[j].dir # d
      BY DEF NoneDeserted
    <3>1. Deserted(d) /\ ~strayed
      BY <1>0, <2>3 DEF Deserted, Watched
    <3>2. NoLoop.dir # d
      BY <1>0 DEF NoLoop
    <3> QED
      BY <1>0, <2>1, <3>1, <3>2 DEF LaneInv, NoneDeserted, InTheLane
  <2>6. StopsAwaited'
    BY <1>2, <2>1 DEF StopsAwaited
  <2> QED
    BY <2>4, <2>5, <2>6 DEF LaneInv
<1>4. CASE ~LoopExits(l)
  <2>1. UNCHANGED << watchers, strayed >> /\ \A k \in Loops : loop'[k].dir = loop[k].dir
    BY <1>0, <1>4, LoopStepIs DEF SameLoop
  <2>2. ASSUME \A k \in Jobs : InTheLane(k)' => InTheLane(k) /\ job'[k].dir = job[k].dir,
               \A k \in Jobs : job'[k].at = "stopping" => job[k].at = "stopping" \/ Awaited(k)'
        PROVE  LaneInv'
    BY <1>0, <1>2, <2>1, <2>2, LaneKeeps
  <2>3. ASSUME UNCHANGED job PROVE LaneInv'
    BY <2>2, <2>3 DEF InTheLane
  <2>4. CASE Gate(l)
    <3> DEFINE stop == UNION {Has(loop[l].dir, a.file) : a \in {b \in loop[l].todo : b.do \in {"delLocal", "delRemote"}}}
               skip == {a \in loop[l].todo : Held(loop[l].dir, a)}
    <3>1. stop \in SUBSET {j \in Jobs : Takeable(j)} /\ job' = TakenOut(stop)
      BY <2>4 DEF Gate, Has, InLane, Takeable
    <3>2. loop' = [loop EXCEPT ![l].at = "exec", ![l].todo = @ \ skip, ![l].waits = stop, ![l].left = skip # {}]
      BY <2>4 DEF Gate
    <3> HIDE DEF stop, skip
    <3>3. loop'[l].waits = stop
      <4> DEFINE u == skip # {}
                 t == loop[l].todo \ skip
      <4>1. loop'[l] = [loop[l] EXCEPT !.at = "exec", !.todo = t, !.waits = stop, !.left = u]
        BY <1>0, <3>2
      <4> HIDE DEF u, t
      <4> QED
        BY <1>0, <4>1 DEF LoopRec
    <3>4. \A k \in Jobs :
           /\ job'[k].dir = job[k].dir
           /\ InTheLane(k)' => InTheLane(k)
           /\ job'[k].at = "stopping" => job[k].at = "stopping" \/ k \in stop
      BY <3>1, TakenOutIs
    <3>5. \A k \in stop : Awaited(k)'
      BY <3>3 DEF Awaited
    <3> QED
      BY <2>2, <3>4, <3>5
  <2>5. ASSUME NEW a \in Actions, SendToLane(l, a) PROVE LaneInv'
    <3> DEFINE d == loop[l].dir
    <3>1. CASE d \notin stopped /\ Has(d, a.file) = {}
      <4>1. PICK j \in Jobs : job[j].at = "free" /\ job' = [job EXCEPT ![j] = NewJob(d, a)]
        BY <2>5, <3>1 DEF SendToLane, NewJob
      <4> DEFINE r == NewJob(d, a)
      <4>2. r.at = "held" /\ r.dir = d
        BY DEF NewJob, NoJob
      <4> HIDE DEF r
      <4>3. job' = [job EXCEPT ![j] = r]
        BY <4>1 DEF r
      <4>4. NoneStopped'
        BY <1>0, <3>1, <4>2, <4>3 DEF LaneInv, NoneStopped, InTheLane
      <4>5. NoneDeserted'
        <5> SUFFICES ASSUME ~strayed', NEW e \in Dirs, Deserted(e)'
                     PROVE  /\ \A k \in Loops : loop'[k].dir # e
                            /\ \A k \in Jobs : InTheLane(k)' => job'[k].dir # e
          BY DEF NoneDeserted
        <5>1. Deserted(e) /\ ~strayed
          BY <1>0, <2>1 DEF Deserted, Watched
        <5>2. /\ \A k \in Loops : loop[k].dir # e
              /\ \A k \in Jobs : InTheLane(k) => job[k].dir # e
          BY <5>1 DEF LaneInv, NoneDeserted
        <5> QED
          BY <1>0, <2>1, <4>2, <4>3, <5>2 DEF InTheLane
      <4>6. StopsAwaited'
        BY <1>0, <1>2, <4>2, <4>3 DEF StopsAwaited
      <4> QED
        BY <4>4, <4>5, <4>6 DEF LaneInv
    <3>2. CASE ~(d \notin stopped /\ Has(d, a.file) = {})
      <4>1. UNCHANGED job
        BY <2>5, <3>2 DEF SendToLane
      <4> QED
        BY <2>3, <4>1
    <3> QED
      BY <3>1, <3>2
  <2> QED
    BY <1>4, <2>3, <2>4, <2>5 DEF LoopStep, PassBegins, PassFails, CloneLists, CloneEnds, PassPlans,
         PassEnds, Starts, Ends, laneVars
<1> QED
  BY <1>3, <1>4

LEMMA LaneJobs ==
  ASSUME TypeInv, LaneInv, NEW j \in Jobs, JobStep(j)
  PROVE  LaneInv'
<1>0. loop \in [Loops -> LoopRec] /\ op \in OpRec
  BY DEF TypeInv, TypeOK
<1>1. UNCHANGED << watchers, stopped, strayed >>
  BY DEF JobStep, JobReturns, Recalled, SetAside, Unpark, ParkLooks, Parked, LaneDone, loopVars
<1>2. ASSUME NEW k \in Loops
      PROVE  /\ loop'[k].dir = loop[k].dir
             /\ \A i \in Jobs : i \in loop[k].waits /\ ~((LaneDone(j) \/ Recalled(j)) /\ i = j) => i \in loop'[k].waits
  <2>1. CASE JobReturns(j)
    BY <1>0, <2>1, SameFresh DEF JobReturns
  <2>2. CASE Recalled(j) \/ LaneDone(j)
    <3>1. loop'[k] = [loop[k] EXCEPT !.waits = @ \ {j}]
      BY <2>2 DEF Recalled, LaneDone, Released
    <3> QED
      BY <1>0, <2>2, <3>1 DEF LoopRec
  <2>3. CASE UNCHANGED loop
    BY <2>3
  <2> QED
    BY <2>1, <2>2, <2>3 DEF JobStep, SetAside, Unpark, ParkLooks, Parked, loopVars
<1>3. op'.at = op.at /\ op'.dir = op.dir
      /\ \A i \in Jobs : i \in op.waits /\ ~((LaneDone(j) \/ Recalled(j)) /\ i = j) => i \in op'.waits
  <2>1. CASE Recalled(j) \/ LaneDone(j)
    BY <1>0, <2>1 DEF Recalled, LaneDone, Released, OpRec
  <2>2. CASE UNCHANGED op
    BY <2>2
  <2> QED
    BY <2>1, <2>2 DEF JobStep, JobReturns, SetAside, Unpark, ParkLooks, Parked, opVars
<1>4. ASSUME NEW k \in Jobs, job'[k].at = "stopping" PROVE Awaited(k)'
  <2>1. job[k].at = "stopping" /\ ~((LaneDone(j) \/ Recalled(j)) /\ k = j)
    BY <1>4, JobStepIs
  <2> QED
    BY <1>2, <1>3, <2>1 DEF LaneInv, StopsAwaited, Awaited
<1> QED
  BY <1>1, <1>2, <1>3, <1>4, JobStepIs, LaneKeeps

LEMMA LaneOps ==
  ASSUME TypeInv, LaneInv, MoveInv, OpStep
  PROVE  LaneInv'
<1>0. /\ watchers \in [Dirs -> Loops \cup {None}] /\ None \notin Dirs \cup Loops
      /\ loop \in [Loops -> LoopRec] /\ op \in OpRec /\ LoopsOK
      /\ NoOp.at = "idle" /\ NoOp.waits = {}
  BY FoldersAssumption DEF TypeInv, TypeOK, ShapeOK, FoldersAssumption, NoOp
<1>1. ASSUME op.waits = {}, op.at # "quiet", UNCHANGED << stopped, watchers, strayed, loop, job >>
      PROVE  LaneInv'
  BY <1>1, LaneRests
<1>2. ASSUME NEW d \in Dirs, Add(d) \/ HoldBack(d) \/ \E del \in BOOLEAN : Remove(d, del) PROVE LaneInv'
  <2>1. op = NoOp /\ UNCHANGED << stopped, watchers, strayed, loop, job >>
    BY <1>2 DEF Add, HoldBack, Remove, Asked, loopVars, laneVars
  <2> QED
    BY <1>0, <1>1, <2>1
<1>3. ASSUME NEW d \in Dirs, StopWatcher(d) PROVE LaneInv'
  <2>1. /\ op.at = "stops" /\ op.waits = {} /\ watchers' = [watchers EXCEPT ![d] = None] /\ loop' = Cut(d)
        /\ stopped' = stopped \cup {d} /\ job' = TakenOut(InLane(d)) /\ UNCHANGED strayed
        /\ op' = [op EXCEPT !.stops = @ \ {d}, !.waits = InLane(d)]
    BY <1>0, <1>3 DEF StopWatcher, LaneStops
  <2>2. op'.waits = InLane(d)
    BY <1>0, <2>1 DEF OpRec
  <2>3. \A k \in Loops : loop'[k].dir = loop[k].dir /\ loop'[k].waits = loop[k].waits
    BY <2>1, CutIs
  <2>4. \A e \in Dirs : e # d => watchers'[e] = watchers[e]
    BY <1>0, <2>1
  <2> QED
    BY <2>1, <2>2, <2>3, <2>4, StopKeeps
<1>4. ASSUME NEW d \in Dirs, StartWatcher(d) PROVE LaneInv'
  <2>1. /\ op.at = "starts" /\ op'.waits = op.waits /\ op'.at = "starts" /\ UNCHANGED << job, strayed >>
    BY <1>0, <1>4 DEF StartWatcher, OpRec
  <2>2. CASE watchers[d] # None
    <3>1. UNCHANGED << watchers, loop, stopped >>
      BY <1>4, <2>2 DEF StartWatcher, loopVars
    <3> QED
      BY <2>1, <3>1, LaneRests
  <2>3. CASE watchers[d] = None
    <3> DEFINE r == [NoLoop EXCEPT !.dir = d, !.at = "idle"]
    <3>1. PICK l \in Loops : /\ ~Live(l) /\ watchers' = [watchers EXCEPT ![d] = l]
                             /\ loop' = [loop EXCEPT ![l] = r] /\ stopped' = stopped \ {d}
      BY <1>4, <2>3 DEF StartWatcher, Allowed
    <3>2. r.dir = d /\ r.waits = {}
      BY DEF NoLoop
    <3> HIDE DEF r
    <3>3. loop[l].waits = {} /\ l # None
      BY <1>0, <3>1 DEF Live, LoopsOK
    <3>4. NoneStopped'
      BY <2>1, <3>1 DEF LaneInv, NoneStopped, InTheLane
    <3>5. NoneDeserted'
      <4> SUFFICES ASSUME ~strayed', NEW e \in Dirs, Deserted(e)'
                   PROVE  /\ \A k \in Loops : loop'[k].dir # e
                          /\ \A k \in Jobs : InTheLane(k)' => job'[k].dir # e
        BY DEF NoneDeserted
      <4>1. Deserted(e) /\ ~strayed /\ e # d
        BY <1>0, <2>1, <3>1, <3>3 DEF Deserted, Watched
      <4>2. /\ \A k \in Loops : loop[k].dir # e
            /\ \A k \in Jobs : InTheLane(k) => job[k].dir # e
        BY <4>1 DEF LaneInv, NoneDeserted
      <4> QED
        BY <1>0, <2>1, <3>1, <3>2, <4>1, <4>2 DEF InTheLane
    <3>6. StopsAwaited'
      <4> SUFFICES ASSUME NEW k \in Jobs, job'[k].at = "stopping" PROVE Awaited(k)'
        BY DEF StopsAwaited
      <4>1. Awaited(k)
        BY <2>1 DEF LaneInv, StopsAwaited
      <4>2. \A i \in Loops : k \in loop[i].waits => k \in loop'[i].waits
        BY <1>0, <3>1, <3>3
      <4> QED
        BY <2>1, <4>1, <4>2 DEF Awaited
    <3> QED
      BY <3>4, <3>5, <3>6 DEF LaneInv
  <2> QED
    BY <2>2, <2>3
<1>5. ASSUME NEW d \in Dirs, NEW to \in Dirs, MoveBegins(d, to) PROVE LaneInv'
  <2>1. /\ op = NoOp /\ watchers' = [watchers EXCEPT ![d] = None] /\ loop' = Cut(d)
        /\ UNCHANGED << strayed, stopped, job >>
        /\ op' = [NoOp EXCEPT !.do = "move", !.at = "quiet", !.dir = d, !.to = to]
    BY <1>5 DEF MoveBegins, Asked, laneVars
  <2>2. op.waits = {} /\ op.at # "quiet" /\ op'.at = "quiet" /\ op'.dir = d
    BY <2>1 DEF NoOp
  <2>3. \A k \in Loops : loop'[k].dir = loop[k].dir /\ loop'[k].waits = loop[k].waits
    BY <2>1, CutIs
  <2>4. NoneStopped'
    BY <2>1 DEF LaneInv, NoneStopped, InTheLane
  <2>5. NoneDeserted'
    <3>1. \A e \in Dirs : Deserted(e)' => Deserted(e)
      BY <1>0, <2>1, <2>2 DEF Deserted, Watched
    <3> QED
      BY <2>1, <2>3, <3>1 DEF LaneInv, NoneDeserted, InTheLane
  <2>6. StopsAwaited'
    BY <2>1, <2>2, <2>3 DEF LaneInv, StopsAwaited, Awaited
  <2> QED
    BY <2>4, <2>5, <2>6 DEF LaneInv
<1>6. CASE MoveStopsLane
  <2>1. /\ op.at = "quiet" /\ stopped' = stopped \cup {op.dir} /\ job' = TakenOut(InLane(op.dir))
        /\ op' = [op EXCEPT !.at = "lane", !.waits = InLane(op.dir)]
        /\ UNCHANGED << watchers, loop, strayed >>
    BY <1>6 DEF MoveStopsLane, LaneStops, loopVars
  <2>2. op'.waits = InLane(op.dir) /\ op.waits = {} /\ op.dir \in Dirs
    BY <1>0, <2>1 DEF OpRec, MoveInv, TypeInv, ShapeOK, OpOK, MoveStages
  <2> QED
    BY <2>1, <2>2, StopKeeps
<1>7. CASE StopsEnd \/ MoveQuiet
  <2>1. op.waits = {} /\ op.at # "quiet" /\ UNCHANGED << stopped, watchers, strayed, loop, job >>
    BY <1>7 DEF StopsEnd, MoveQuiet, loopVars, laneVars
  <2> QED
    BY <1>1, <2>1
<1>8. CASE ReloadEnds \/ EraseEnds \/ Relocate \/ PurgeEnds \/ Rekey \/ MoveSaves \/ MoveFails
           \/ \E x \in Files : Erase(x) \/ Purge(x)
  <2>1. op.at \notin {"stops", "lane", "quiet"} /\ UNCHANGED << stopped, watchers, strayed, loop, job >>
    BY <1>8 DEF ReloadEnds, EraseEnds, Relocate, PurgeEnds, Rekey, MoveSaves, MoveFails, Erase, Purge,
         loopVars, laneVars
  <2> QED
    BY <1>1, <2>1 DEF MoveInv
<1> QED
  BY <1>2, <1>3, <1>4, <1>5, <1>6, <1>7, <1>8 DEF OpStep

LEMMA LaneNext == TypeInv /\ AloneInv /\ [Next]_vars => LaneInv'
<1> SUFFICES ASSUME TypeInv, AloneInv, [Next]_vars PROVE LaneInv'
  OBVIOUS
<1>0. WatchInv /\ LaneInv /\ MoveInv
  BY DEF AloneInv
<1>1. CASE Crash
  <2>1. /\ watchers' = [d \in Dirs |-> None] /\ loop' = [l \in Loops |-> NoLoop]
        /\ stopped' = {} /\ job' = [j \in Jobs |-> NoJob]
    BY <1>1 DEF Crash
  <2>2. None \notin Dirs /\ NoLoop.dir = None /\ NoJob.at = "free"
    BY FoldersAssumption DEF FoldersAssumption, NoLoop, NoJob
  <2> QED
    BY <2>1, <2>2 DEF LaneInv, NoneStopped, NoneDeserted, StopsAwaited, InTheLane
<1>2. ASSUME UNCHANGED << stopped, watchers, strayed, loop, job, op >> PROVE LaneInv'
  BY <1>0, <1>2, LaneRests
<1>3. ASSUME NEW d \in Dirs, NEW x \in Files, Drop(d, x) PROVE LaneInv'
  BY <1>2, <1>3 DEF Drop, loopVars, laneVars
<1>4. CASE UNCHANGED vars
  BY <1>2, <1>4 DEF vars, loopVars, laneVars, opVars
<1> QED
  BY <1>0, <1>1, <1>3, <1>4, LaneLoops, LaneJobs, LaneOps DEF Next

-----------------------------------------------------------------------------
(* What a move is alone with *)

\* Within a move: no pass begins, no watcher, and the pair stays stopped.
LEMMA MoveKeeps ==
  ASSUME TypeInv, MoveInv,
         op'.at \in MoveStages => op.at \in MoveStages /\ op'.dir = op.dir /\ op'.to = op.to,
         op'.at \in MoveStages \ {"quiet"} => op.at # "quiet",
         op'.at \notin {"stops", "lane"} => op'.waits = {},
         \A k \in Loops : op.at \in MoveStages /\ loop'[k].at \in InPass => loop[k].at \in InPass,
         \A d \in Dirs : op.at \in MoveStages /\ ~Watched(d) => ~Watched(d)',
         op.at \in MoveStages => stopped' = stopped
  PROVE  MoveInv'
<1>1. op'.at \in MoveStages => op.dir \in Dirs /\ op.to \in Dirs
  BY DEF TypeInv, ShapeOK, OpOK
<1>2. op'.at \in MoveStages => NoPass' /\ ~Watched(op.dir)' /\ ~Watched(op.to)'
  BY <1>1 DEF MoveInv, NoPass
<1>3. op'.at \in MoveStages => watchers'[op'.dir] = None /\ watchers'[op'.to] = None
  BY <1>2 DEF Watched
<1> QED
  BY <1>2, <1>3 DEF MoveInv, Watched

LEMMA MoveLoops ==
  ASSUME TypeInv, MoveInv, NEW l \in Loops, LoopStep(l)
  PROVE  MoveInv'
<1>0. /\ loop \in [Loops -> LoopRec] /\ watchers \in [Dirs -> Loops \cup {None}]
      /\ UNCHANGED << stopped, op >> /\ \A k \in Loops \ {l} : SameLoop(k)
  BY LoopStepIs DEF TypeInv, TypeOK
<1>1. op.at \in MoveStages => ~MayPass
  BY DEF TypeInv, ShapeOK, OpOK, MayPass, Moving
<1>2. op.at \in MoveStages /\ loop'[l].at \in InPass => loop[l].at \in InPass
  <2>1. CASE LoopExits(l)
    BY <1>0, <2>1 DEF LoopExits, NoLoop, InPass
  <2>2. CASE ~LoopExits(l)
    BY <1>1, <2>2, LoopStepIs
  <2> QED
    BY <2>1, <2>2
<1>3. ASSUME NEW d \in Dirs, ~Watched(d) PROVE ~Watched(d)'
  <2>1. CASE LoopExits(l)
    BY <1>0, <1>3, <2>1 DEF LoopExits, Watched
  <2>2. CASE ~LoopExits(l)
    BY <1>3, <2>2, LoopStepIs DEF Watched
  <2> QED
    BY <2>1, <2>2
<1>4. \A k \in Loops : op.at \in MoveStages /\ loop'[k].at \in InPass => loop[k].at \in InPass
  BY <1>0, <1>2 DEF SameLoop
<1>5. op'.at \notin {"stops", "lane"} => op'.waits = {}
  BY <1>0 DEF MoveInv
<1> QED
  BY <1>0, <1>3, <1>4, <1>5, MoveKeeps

LEMMA MoveJobs ==
  ASSUME TypeInv, MoveInv, NEW j \in Jobs, JobStep(j)
  PROVE  MoveInv'
<1>0. loop \in [Loops -> LoopRec] /\ op \in OpRec
  BY DEF TypeInv, TypeOK
<1>1. UNCHANGED << watchers, stopped >>
  BY DEF JobStep, JobReturns, Recalled, SetAside, Unpark, ParkLooks, Parked, LaneDone, loopVars
<1>2. ASSUME NEW k \in Loops PROVE loop'[k].at = loop[k].at
  <2>1. CASE JobReturns(j)
    BY <1>0, <2>1, SameFresh DEF JobReturns
  <2>2. CASE Recalled(j) \/ LaneDone(j)
    BY <1>0, <2>2 DEF Recalled, LaneDone, Released, LoopRec
  <2>3. CASE UNCHANGED loop
    BY <2>3
  <2> QED
    BY <2>1, <2>2, <2>3 DEF JobStep, SetAside, Unpark, ParkLooks, Parked, loopVars
<1>3. op'.at = op.at /\ op'.dir = op.dir /\ op'.to = op.to /\ op'.waits \subseteq op.waits
  <2>1. CASE Recalled(j) \/ LaneDone(j)
    BY <1>0, <2>1 DEF Recalled, LaneDone, Released, OpRec
  <2>2. CASE UNCHANGED op
    BY <2>2
  <2> QED
    BY <2>1, <2>2 DEF JobStep, JobReturns, SetAside, Unpark, ParkLooks, Parked, opVars
<1>4. op'.at \notin {"stops", "lane"} => op'.waits = {}
  BY <1>3 DEF MoveInv
<1>5. \A d \in Dirs : ~Watched(d) => ~Watched(d)'
  BY <1>1 DEF Watched
<1> QED
  BY <1>1, <1>2, <1>3, <1>4, <1>5, MoveKeeps

LEMMA MoveOps ==
  ASSUME TypeInv, WatchInv, MoveInv, OpStep
  PROVE  MoveInv'
<1>0. /\ watchers \in [Dirs -> Loops \cup {None}] /\ None \notin Dirs \cup Loops
      /\ loop \in [Loops -> LoopRec] /\ op \in OpRec
      /\ NoOp.at = "idle" /\ NoOp.waits = {} /\ NoOp.at \notin MoveStages
      /\ {"idle", "stops", "starts", "erase"} \cap MoveStages = {}
  BY FoldersAssumption DEF TypeInv, TypeOK, FoldersAssumption, NoOp, MoveStages
<1>1. ASSUME op'.at \notin MoveStages, op'.at = "stops" \/ op'.waits = {} PROVE MoveInv'
  BY <1>1 DEF MoveInv
<1>2. ASSUME NEW o, NEW c, NEW h, op' = Reload(c, h, o) PROVE MoveInv'
  <2>1. op'.at = "stops"
    BY <1>2 DEF Reload, NoOp
  <2> QED
    BY <1>0, <1>1, <2>1
<1>3. ASSUME NEW d \in Dirs, Add(d) \/ HoldBack(d) \/ \E del \in BOOLEAN : Remove(d, del) PROVE MoveInv'
  BY <1>2, <1>3 DEF Add, HoldBack, Remove
<1>4. ASSUME NEW d \in Dirs, StopWatcher(d) PROVE MoveInv'
  <2>1. op.at = "stops" /\ op' = [op EXCEPT !.stops = @ \ {d}, !.waits = InLane(d)]
    BY <1>0, <1>4 DEF StopWatcher, LaneStops
  <2>2. op'.at = "stops"
    BY <1>0, <2>1 DEF OpRec
  <2> QED
    BY <1>0, <1>1, <2>2
<1>5. ASSUME NEW d \in Dirs, StartWatcher(d) PROVE MoveInv'
  <2>1. op'.at = "starts" /\ op'.waits = op.waits /\ op.at = "starts"
    BY <1>0, <1>5 DEF StartWatcher, OpRec
  <2> QED
    BY <1>0, <1>1, <2>1 DEF MoveInv
<1>6. ASSUME NEW d \in Dirs, NEW to \in Dirs, MoveBegins(d, to) PROVE MoveInv'
  <2>1. /\ op = NoOp /\ to \notin config /\ d \in config /\ NoPass
        /\ watchers' = [watchers EXCEPT ![d] = None] /\ loop' = Cut(d)
        /\ op' = [NoOp EXCEPT !.do = "move", !.at = "quiet", !.dir = d, !.to = to]
    BY <1>6 DEF MoveBegins, Asked
  <2>2. op'.at = "quiet" /\ op'.dir = d /\ op'.to = to /\ op'.waits = {}
    BY <2>1 DEF NoOp
  <2>3. NoPass'
    BY <2>1, CutIs DEF NoPass
  <2>4. ~Watched(to)
    BY <1>0, <2>1 DEF WatchInv, WatchersOK
  <2>5. ~Watched(d)' /\ ~Watched(to)'
    BY <1>0, <2>1, <2>4 DEF Watched
  <2>6. watchers'[op'.dir] = None /\ watchers'[op'.to] = None
    BY <2>2, <2>5 DEF Watched
  <2> QED
    BY <2>2, <2>3, <2>6 DEF MoveInv, Watched
<1>7. CASE MoveStopsLane
  <2>1. /\ op.at = "quiet" /\ stopped' = stopped \cup {op.dir}
        /\ op' = [op EXCEPT !.at = "lane", !.waits = InLane(op.dir)]
        /\ UNCHANGED << watchers, loop >>
    BY <1>7 DEF MoveStopsLane, LaneStops, loopVars
  <2>2. op'.at = "lane" /\ op'.dir = op.dir /\ op'.to = op.to
    BY <1>0, <2>1 DEF OpRec
  <2>3. NoPass /\ ~Watched(op.dir) /\ ~Watched(op.to)
    BY <2>1 DEF MoveInv, MoveStages
  <2>4. NoPass' /\ watchers'[op'.dir] = None /\ watchers'[op'.to] = None
    BY <2>1, <2>2, <2>3 DEF NoPass, Watched
  <2> QED
    BY <2>1, <2>2, <2>4 DEF MoveInv, Watched
<1>8. CASE MoveQuiet \/ Relocate \/ PurgeEnds \/ Rekey
  <2>1. UNCHANGED << watchers, loop, stopped >>
    BY <1>8 DEF MoveQuiet, Relocate, PurgeEnds, Rekey, loopVars, laneVars
  <2>2. /\ op.at \in MoveStages \ {"quiet"} /\ op'.dir = op.dir /\ op'.to = op.to
        /\ op'.waits = {}
    <3>1. CASE MoveQuiet
      BY <1>0, <3>1 DEF MoveQuiet, OpRec, MoveStages
    <3>2. CASE Relocate \/ PurgeEnds \/ Rekey
      BY <1>0, <3>2 DEF Relocate, PurgeEnds, Rekey, OpRec, MoveStages, MoveInv
    <3> QED
      BY <1>8, <3>1, <3>2
  <2>3. \A d \in Dirs : ~Watched(d) => ~Watched(d)'
    BY <2>1 DEF Watched
  <2> QED
    BY <2>1, <2>2, <2>3, MoveKeeps
<1>9. CASE StopsEnd \/ ReloadEnds \/ EraseEnds
  <2>1. op'.at \in {"starts", "idle", "erase"} /\ op'.waits = {}
    <3>1. CASE StopsEnd
      BY <1>0, <3>1 DEF StopsEnd, OpRec
    <3>2. CASE EraseEnds
      BY <1>0, <3>2 DEF EraseEnds
    <3>3. CASE ReloadEnds
      BY <1>0, <3>3 DEF ReloadEnds, OpRec, MoveInv
    <3> QED
      BY <1>9, <3>1, <3>2, <3>3
  <2> QED
    BY <1>0, <1>1, <2>1
<1>10. CASE MoveSaves \/ MoveFails
  <2>1. \E c : op' = Reload(c, held, op)
    BY <1>10 DEF MoveSaves, MoveFails
  <2> QED
    BY <1>2, <2>1
<1>11. ASSUME NEW x \in Files, Erase(x) \/ Purge(x) PROVE MoveInv'
  <2>1. UNCHANGED << watchers, loop, stopped, op >>
    BY <1>11 DEF Erase, Purge, loopVars, laneVars, opVars
  <2>2. \A d \in Dirs : ~Watched(d) => ~Watched(d)'
    BY <2>1 DEF Watched
  <2>3. op.at \in {"erase", "purge"}
    BY <1>11 DEF Erase, Purge
  <2> QED
    BY <2>1, <2>2, <2>3, MoveKeeps DEF MoveInv
<1> QED
  BY <1>3, <1>4, <1>5, <1>6, <1>7, <1>8, <1>9, <1>10, <1>11 DEF OpStep

LEMMA MoveNext == TypeInv /\ AloneInv /\ [Next]_vars => MoveInv'
<1> SUFFICES ASSUME TypeInv, AloneInv, [Next]_vars PROVE MoveInv'
  OBVIOUS
<1>0. WatchInv /\ MoveInv
  BY DEF AloneInv
<1>1. CASE Crash
  BY <1>1 DEF Crash, NoOp, MoveInv, MoveStages
<1>2. ASSUME UNCHANGED << stopped, watchers, loop, op >> PROVE MoveInv'
  <2>1. \A d \in Dirs : ~Watched(d) => ~Watched(d)'
    BY <1>2 DEF Watched
  <2> QED
    BY <1>0, <1>2, <2>1, MoveKeeps DEF MoveInv
<1>3. ASSUME NEW d \in Dirs, NEW x \in Files, Drop(d, x) PROVE MoveInv'
  BY <1>2, <1>3 DEF Drop, loopVars, laneVars
<1>4. CASE UNCHANGED vars
  BY <1>2, <1>4 DEF vars, loopVars, laneVars, opVars
<1> QED
  BY <1>0, <1>1, <1>3, <1>4, MoveLoops, MoveJobs, MoveOps DEF Next

LEMMA AloneInit == Init => AloneInv
<1> SUFFICES ASSUME Init PROVE AloneInv
  OBVIOUS
<1>1. /\ None \notin Dirs /\ NoLoop.dir = None /\ NoLoop.at = "none" /\ NoJob.at = "free"
      /\ NoOp.waits = {} /\ NoOp.stops = {}
  BY FoldersAssumption DEF FoldersAssumption, NoLoop, NoJob, NoOp
<1>2. /\ watchers = [d \in Dirs |-> None] /\ loop = [l \in Loops |-> NoLoop] /\ held = {}
      /\ stopped = {} /\ job = [j \in Jobs |-> NoJob]
      /\ op = [NoOp EXCEPT !.at = "starts", !.starts = config]
  BY DEF Init
<1>3. op.at = "starts" /\ op.starts = config /\ op.waits = {}
  BY <1>2 DEF NoOp
<1>4. WatchInv
  BY <1>1, <1>2, <1>3 DEF WatchInv, WatchersOK, NoOther, StartsOK, Watched
<1>5. LaneInv
  BY <1>1, <1>2 DEF LaneInv, NoneStopped, NoneDeserted, StopsAwaited, InTheLane
<1>6. MoveInv
  BY <1>3 DEF MoveInv, MoveStages
<1> QED
  BY <1>4, <1>5, <1>6 DEF AloneInv

LEMMA AloneNext == TypeInv /\ AloneInv /\ [Next]_vars => AloneInv'
  BY WatchNext, LaneNext, MoveNext DEF AloneInv

LEMMA AloneIs == TypeInv /\ AloneInv => MoveAlone
<1> SUFFICES ASSUME TypeInv, AloneInv, op.at \in {"relocate", "purge", "rekey", "save"}
             PROVE  /\ NoPass
                    /\ \A j \in Jobs : job[j].at \in {"held", "aside", "stopping"} /\ ~job[j].recalled =>
                         job[j].dir # op.dir /\ (job[j].dir = op.to => strayed)
  BY DEF MoveAlone
<1>1. /\ NoPass /\ ~Watched(op.to) /\ op.dir \in stopped /\ op.waits = {} /\ op.to \in Dirs
      /\ op.at # "quiet"
  BY DEF AloneInv, MoveInv, MoveStages, TypeInv, ShapeOK, OpOK
<1>2. \A l \in Loops : loop[l].waits = {}
  BY <1>1 DEF NoPass, InPass, TypeInv, ShapeOK, LoopsOK
<1>3. \A j \in Jobs : job[j].at # "stopping"
  BY <1>1, <1>2 DEF AloneInv, LaneInv, StopsAwaited, Awaited
<1>4. \A j \in Jobs : InTheLane(j) => job[j].dir # op.dir /\ (job[j].dir = op.to => strayed)
  BY <1>1 DEF AloneInv, LaneInv, NoneStopped, NoneDeserted, Deserted
<1> QED
  BY <1>1, <1>3, <1>4 DEF InTheLane

\* Whatever goroutines, jobs and user did before: when a move starts to relocate the
\* files, until it has saved, no pass looks at any folder and no job of the folder is
\* left in the lane, running, set aside or being stopped, but one that a pause or a
\* set-aside put back after the stop; nor one of the folder moved to, unless a watcher
\* strayed or the job was put back.
THEOREM MoveAloneAlways == Spec => []MoveAlone
  BY TypeInit, TypeNext, AloneInit, AloneNext, AloneIs, PTL DEF Spec

LEMMA WatchedIs == TypeInv /\ AloneInv => WatchedAsConfigured
<1> SUFFICES ASSUME TypeInv, AloneInv, op = NoOp, ~strayed, NEW d \in Dirs
             PROVE  LET live == {l \in Loops : loop[l].dir = d /\ ~loop[l].cut}
                    IN  /\ d \notin config \ held => live = {}
                        /\ d \in config \ held =>
                             /\ \E l \in Loops : loop[l].dir = d /\ ~loop[l].cut
                             /\ d \notin stopped
  BY DEF WatchedAsConfigured
<1>0. /\ NoOp.at = "idle" /\ NoLoop.dir = None /\ None \notin Dirs \cup Loops
      /\ watchers \in [Dirs -> Loops \cup {None}] /\ NoOp.starts = {}
      /\ WatchersOK /\ NoOther /\ StartsOK /\ LoopsOK /\ Attended
  BY FoldersAssumption DEF NoOp, NoLoop, FoldersAssumption, TypeInv, TypeOK, ShapeOK, AloneInv, WatchInv
<1>1. ASSUME NEW l \in Loops, loop[l].dir = d, ~loop[l].cut PROVE d \in config \ held
  <2>1. watchers[d] = l
    BY <1>0, <1>1 DEF NoOther, LoopsOK
  <2> QED
    BY <1>0, <2>1 DEF WatchersOK, Watched
<1>2. ASSUME d \in config \ held
      PROVE  (\E l \in Loops : loop[l].dir = d /\ ~loop[l].cut) /\ d \notin stopped
  <2>1. Watched(d)
    BY <1>0, <1>2 DEF StartsOK
  <2>2. watchers[d] \in Loops /\ loop[watchers[d]].dir = d /\ ~loop[watchers[d]].cut /\ d \notin stopped
    BY <1>0, <2>1 DEF WatchersOK, Attended, Watched
  <2> QED
    BY <2>2
<1> QED
  BY <1>1, <1>2

\* However often the user adds, removes, holds back and moves folders, as long as no
\* watcher has strayed (none lost its entries to an older one's exit): once an operation
\* has ended, a folder is watched by a goroutine that is not cancelled just when it is
\* configured and not held back, and the lane takes the transfers of those that are.
THEOREM WatchedAsConfiguredAlways == Spec => []WatchedAsConfigured
  BY TypeInit, TypeNext, AloneInit, AloneNext, WatchedIs, PTL DEF Spec

-----------------------------------------------------------------------------
(* What is marked *)

Busy(j)    == job[j].at \in {"held", "aside", "stopping", "out"}
Covered(p) == \/ \E j \in Jobs : Busy(j) /\ << job[j].dir, job[j].file >> = p
              \/ \E l \in Loops : loop[l].dir = p[1] /\ \E a \in loop[l].now : a.file = p[2]
Marked     == \A p \in mark : Covered(p)

\* Nobody stops work that is marked without taking the mark away.
LEMMA MarkKeeps ==
  ASSUME TypeInv, Marked,
         \A p \in mark' \ mark : Covered(p)',
         \A j \in Jobs : Busy(j) => \/ Busy(j)' /\ job'[j].dir = job[j].dir /\ job'[j].file = job[j].file
                                    \/ << job[j].dir, job[j].file >> \notin mark',
         \A l \in Loops : \A a \in loop[l].now :
           \/ loop'[l].dir = loop[l].dir /\ a \in loop'[l].now
           \/ << loop[l].dir, a.file >> \notin mark'
  PROVE  Marked'
<1> SUFFICES ASSUME NEW p \in mark' PROVE Covered(p)'
  BY DEF Marked
<1>1. CASE p \notin mark
  BY <1>1
<1>2. CASE p \in mark
  <2>1. p = << p[1], p[2] >>
    <3>1. p \in Dirs \X Files
      BY <1>2 DEF TypeInv, TypeOK
    <3> QED
      BY <3>1
  <2>2. CASE \E j \in Jobs : Busy(j) /\ << job[j].dir, job[j].file >> = p
    BY <2>2 DEF Covered
  <2>3. CASE \E l \in Loops : loop[l].dir = p[1] /\ \E a \in loop[l].now : a.file = p[2]
    <3>0. PICK l \in Loops : loop[l].dir = p[1] /\ \E a \in loop[l].now : a.file = p[2]
      BY <2>3
    <3>1. PICK a \in loop[l].now : a.file = p[2]
      BY <3>0
    <3>2. loop'[l].dir = loop[l].dir /\ a \in loop'[l].now
      BY <2>1, <3>0, <3>1
    <3> QED
      BY <3>0, <3>1, <3>2 DEF Covered
  <2> QED
    BY <1>2, <2>2, <2>3 DEF Marked, Covered
<1> QED
  BY <1>1, <1>2

LEMMA MarkTakenOut ==
  ASSUME TypeInv, Marked, NEW M \in SUBSET {j \in Jobs : Takeable(j)}, job' = TakenOut(M), mark' = mark,
         \A l \in Loops : \A a \in loop[l].now : loop'[l].dir = loop[l].dir /\ a \in loop'[l].now
  PROVE  Marked'
<1>1. \A k \in Jobs :
           /\ job'[k].dir = job[k].dir /\ job'[k].file = job[k].file
           /\ k \in M => job'[k].at \in {"stopping", "out"}
           /\ k \notin M => job'[k] = job[k]
  BY TakenOutIs
<1>2. \A k \in Jobs : Busy(k) => Busy(k)'
  BY <1>1 DEF Busy
<1> QED
  BY <1>1, <1>2, MarkKeeps

LEMMA MarkLoops ==
  ASSUME TypeInv, Marked, NEW l \in Loops, LoopStep(l)
  PROVE  Marked'
<1>0. /\ loop \in [Loops -> LoopRec] /\ job \in [Jobs -> JobRec] /\ mark \subseteq Dirs \X Files
      /\ LoopOK(l) /\ \A k \in Loops \ {l} : SameLoop(k)
  BY LoopStepIs DEF TypeInv, TypeOK, ShapeOK, LoopsOK, LoopOK
<1>1. ASSUME UNCHANGED << job, mark >>, loop[l].now = {} PROVE Marked'
  <2>1. \A k \in Loops : \A a \in loop[k].now : loop'[k].dir = loop[k].dir /\ a \in loop'[k].now
    BY <1>0, <1>1 DEF SameLoop
  <2>2. \A k \in Jobs : Busy(k) => Busy(k)' /\ job'[k].dir = job[k].dir /\ job'[k].file = job[k].file
    BY <1>1 DEF Busy
  <2> QED
    BY <1>1, <2>1, <2>2, MarkKeeps
<1>2. CASE PassBegins(l) \/ PassFails(l) \/ CloneLists(l) \/ PassPlans(l) \/ LoopExits(l)
  <2>1. loop[l].at \notin {"cloning", "exec"} /\ UNCHANGED << job, mark >>
    BY <1>2 DEF PassBegins, PassFails, CloneLists, PassPlans, LoopExits, laneVars
  <2> QED
    BY <1>0, <1>1, <2>1 DEF LoopOK
<1>3. CASE CloneEnds(l) \/ PassEnds(l)
  <2>1. loop[l].now = {} /\ UNCHANGED << job, mark >>
    BY <1>3 DEF CloneEnds, PassEnds, laneVars
  <2> QED
    BY <1>1, <2>1
<1>4. CASE Gate(l)
  <2> DEFINE stop == UNION {Has(loop[l].dir, a.file) : a \in {b \in loop[l].todo : b.do \in {"delLocal", "delRemote"}}}
  <2>1. stop \in SUBSET {j \in Jobs : Takeable(j)} /\ job' = TakenOut(stop) /\ mark' = mark
        /\ loop[l].at = "plan"
    BY <1>4 DEF Gate, Has, InLane, Takeable
  <2> HIDE DEF stop
  <2>2. \A k \in Loops : \A a \in loop[k].now : loop'[k].dir = loop[k].dir /\ a \in loop'[k].now
    BY <1>0, <2>1 DEF SameLoop, LoopOK
  <2> QED
    BY <2>1, <2>2, MarkTakenOut
<1>5. ASSUME NEW a \in Actions, loop'[l].dir = loop[l].dir, loop'[l].now = loop[l].now \cup {a},
             mark' = mark \cup {<< loop[l].dir, a.file >>}, UNCHANGED job
      PROVE  Marked'
  <2>1. \A p \in mark' \ mark : Covered(p)'
    <3>1. \A p \in mark' \ mark : p[1] = loop[l].dir /\ p[2] = a.file
      BY <1>5
    <3>2. a \in loop'[l].now /\ loop'[l].dir = loop[l].dir
      BY <1>5
    <3> QED
      BY <3>1, <3>2 DEF Covered
  <2>2. \A k \in Loops : \A b \in loop[k].now : loop'[k].dir = loop[k].dir /\ b \in loop'[k].now
    BY <1>0, <1>5 DEF SameLoop
  <2>3. \A k \in Jobs : Busy(k) => Busy(k)' /\ job'[k].dir = job[k].dir /\ job'[k].file = job[k].file
    BY <1>5 DEF Busy
  <2> QED
    BY <2>1, <2>2, <2>3, MarkKeeps
<1>6. ASSUME NEW a \in Actions, Starts(l, a) PROVE Marked'
  <2>1. loop' = [loop EXCEPT ![l].now = @ \cup {a}] /\ mark' = mark \cup {<< loop[l].dir, a.file >>} /\ UNCHANGED job
    BY <1>6 DEF Starts
  <2>2. loop'[l].dir = loop[l].dir /\ loop'[l].now = loop[l].now \cup {a}
    BY <1>0, <2>1 DEF LoopRec
  <2> QED
    BY <1>5, <2>1, <2>2
<1>7. ASSUME NEW a \in Actions, Ends(l, a) PROVE Marked'
  <2> DEFINE over == [loop EXCEPT ![l].todo = @ \ {a}, ![l].now = @ \ {a}]
  <2>1. mark' = mark \ {<< loop[l].dir, a.file >>} /\ UNCHANGED job
        /\ (loop' = Fresh(over) \/ loop' = [over EXCEPT ![l].left = TRUE])
    BY <1>7 DEF Ends
  <2>2. over \in [Loops -> LoopRec] /\ over[l].dir = loop[l].dir /\ over[l].now = loop[l].now \ {a}
    <3> DEFINE t == loop[l].todo \ {a}
               n == loop[l].now \ {a}
               r == [loop[l] EXCEPT !.todo = t, !.now = n]
    <3>1. over = [loop EXCEPT ![l] = r]
      OBVIOUS
    <3>2. loop[l] \in LoopRec /\ t \in SUBSET Actions /\ n \in SUBSET Actions
      BY <1>0 DEF LoopRec
    <3> HIDE DEF t, n
    <3>3. r \in LoopRec /\ r.dir = loop[l].dir /\ r.now = n
      BY <3>2 DEF LoopRec
    <3> HIDE DEF r
    <3> QED
      BY <1>0, <3>1, <3>3 DEF n
  <2> HIDE DEF over
  <2>3. loop'[l].dir = loop[l].dir /\ loop'[l].now = loop[l].now \ {a}
    <3>1. CASE loop' = Fresh(over)
      BY <2>2, <3>1, SameFresh
    <3>2. CASE loop' = [over EXCEPT ![l].left = TRUE]
      BY <2>2, <3>2 DEF LoopRec
    <3> QED
      BY <2>1, <3>1, <3>2
  <2>4. \A k \in Loops : \A b \in loop[k].now :
          \/ loop'[k].dir = loop[k].dir /\ b \in loop'[k].now
          \/ << loop[k].dir, b.file >> \notin mark'
    <3> SUFFICES ASSUME NEW k \in Loops, NEW b \in loop[k].now
                 PROVE  \/ loop'[k].dir = loop[k].dir /\ b \in loop'[k].now
                        \/ << loop[k].dir, b.file >> \notin mark'
      OBVIOUS
    <3>1. CASE k # l
      BY <1>0, <3>1 DEF SameLoop
    <3>2. CASE k = l /\ b = a
      BY <2>1, <3>2
    <3>3. CASE k = l /\ b # a
      BY <2>3, <3>3
    <3> QED
      BY <3>1, <3>2, <3>3
  <2>5. \A k \in Jobs : Busy(k) => Busy(k)' /\ job'[k].dir = job[k].dir /\ job'[k].file = job[k].file
    BY <2>1 DEF Busy
  <2> QED
    BY <2>1, <2>4, <2>5, MarkKeeps
<1>8. ASSUME NEW a \in Actions, SendToLane(l, a) PROVE Marked'
  <2> DEFINE d == loop[l].dir
  <2>0. loop[l].dir \in Dirs
    BY <1>8 DEF SendToLane, TypeInv, ShapeOK, LoopsOK
  <2>1. CASE d \notin stopped /\ Has(d, a.file) = {}
    <3>1. PICK j \in Jobs : job[j].at = "free" /\ job' = [job EXCEPT ![j] = NewJob(d, a)]
      BY <1>8, <2>1 DEF SendToLane, NewJob
    <3> DEFINE r == NewJob(d, a)
    <3>2. r.at = "held" /\ r.dir = d /\ r.file = a.file
      BY DEF NewJob, NoJob
    <3> HIDE DEF r
    <3>3. job' = [job EXCEPT ![j] = r] /\ mark' = mark \cup {<< d, a.file >>}
          /\ loop' = [loop EXCEPT ![l].todo = @ \ {a}, ![l].left = TRUE]
      BY <1>8, <2>1, <3>1 DEF SendToLane, r
    <3>4. loop'[l].dir = loop[l].dir /\ loop'[l].now = loop[l].now
      <4> DEFINE t == loop[l].todo \ {a}
      <4>1. loop'[l] = [loop[l] EXCEPT !.todo = t, !.left = TRUE]
        BY <1>0, <3>3
      <4> HIDE DEF t
      <4> QED
        BY <1>0, <4>1 DEF LoopRec
    <3>5. Busy(j)' /\ job'[j].dir = d /\ job'[j].file = a.file
      BY <1>0, <3>2, <3>3 DEF Busy
    <3>6. \A p \in mark' \ mark : Covered(p)'
      BY <3>3, <3>5 DEF Covered
    <3>7. \A k \in Jobs : Busy(k) => Busy(k)' /\ job'[k].dir = job[k].dir /\ job'[k].file = job[k].file
      BY <1>0, <3>1, <3>3 DEF Busy
    <3>8. \A k \in Loops : \A b \in loop[k].now : loop'[k].dir = loop[k].dir /\ b \in loop'[k].now
      BY <1>0, <3>4 DEF SameLoop
    <3> QED
      BY <3>6, <3>7, <3>8, MarkKeeps
  <2>2. CASE ~(d \notin stopped /\ Has(d, a.file) = {}) /\ (d \in stopped \/ loop[l].cut)
    <3>1. mark' = mark \ {<< d, a.file >>} /\ UNCHANGED job
          /\ loop' = [loop EXCEPT ![l].todo = @ \ {a}, ![l].left = TRUE]
      BY <1>8, <2>2 DEF SendToLane, Refused
    <3>2. loop'[l].dir = loop[l].dir /\ loop'[l].now = loop[l].now
      <4> DEFINE t == loop[l].todo \ {a}
      <4>1. loop'[l] = [loop[l] EXCEPT !.todo = t, !.left = TRUE]
        BY <1>0, <3>1
      <4> HIDE DEF t
      <4> QED
        BY <1>0, <4>1 DEF LoopRec
    <3>3. \A k \in Jobs : Busy(k) => Busy(k)' /\ job'[k].dir = job[k].dir /\ job'[k].file = job[k].file
      BY <3>1 DEF Busy
    <3>4. \A k \in Loops : \A b \in loop[k].now : loop'[k].dir = loop[k].dir /\ b \in loop'[k].now
      BY <1>0, <3>2 DEF SameLoop
    <3> QED
      BY <3>1, <3>3, <3>4, MarkKeeps
  <2>3. CASE ~(d \notin stopped /\ Has(d, a.file) = {}) /\ ~(d \in stopped \/ loop[l].cut)
    <3>1. mark' = mark \cup {<< loop[l].dir, a.file >>} /\ UNCHANGED job
          /\ loop' = [loop EXCEPT ![l].now = @ \cup {a}]
      BY <1>8, <2>3 DEF SendToLane
    <3>2. loop'[l].dir = loop[l].dir /\ loop'[l].now = loop[l].now \cup {a}
      BY <1>0, <3>1 DEF LoopRec
    <3> QED
      BY <1>5, <3>1, <3>2
  <2> QED
    BY <2>1, <2>2, <2>3
<1> QED
  BY <1>2, <1>3, <1>4, <1>6, <1>7, <1>8 DEF LoopStep

LEMMA MarkJobs ==
  ASSUME TypeInv, Marked, NEW j \in Jobs, JobStep(j)
  PROVE  Marked'
<1>0. loop \in [Loops -> LoopRec] /\ job \in [Jobs -> JobRec]
  BY DEF TypeInv, TypeOK
<1>1. ASSUME NEW k \in Loops PROVE loop'[k].dir = loop[k].dir /\ loop'[k].now = loop[k].now
  <2>1. CASE JobReturns(j)
    BY <1>0, <2>1, SameFresh DEF JobReturns
  <2>2. CASE Recalled(j) \/ LaneDone(j)
    BY <1>0, <2>2 DEF Recalled, LaneDone, Released, LoopRec
  <2>3. CASE UNCHANGED loop
    BY <2>3
  <2> QED
    BY <2>1, <2>2, <2>3 DEF JobStep, SetAside, Unpark, ParkLooks, Parked, loopVars
<1>2. ASSUME mark' \subseteq mark, \A k \in Jobs \ {j} : job'[k] = job[k],
             Busy(j) => \/ Busy(j)' /\ job'[j].dir = job[j].dir /\ job'[j].file = job[j].file
                        \/ << job[j].dir, job[j].file >> \notin mark'
      PROVE  Marked'
  <2>1. \A k \in Jobs : Busy(k) => \/ Busy(k)' /\ job'[k].dir = job[k].dir /\ job'[k].file = job[k].file
                                   \/ << job[k].dir, job[k].file >> \notin mark'
    BY <1>2 DEF Busy
  <2> QED
    BY <1>1, <1>2, <2>1, MarkKeeps
<1>3. CASE JobReturns(j) \/ Unpark(j)
  <2>1. \E e \in {"ran", "stopped", "unparked"} : job' = [job EXCEPT ![j].at = "out", ![j].end = e]
    <3>1. job' = [job EXCEPT ![j].at = "out"]
          \/ \E e \in {"ran", "stopped", "unparked"} : job' = [job EXCEPT ![j].at = "out", ![j].end = e]
      BY <1>3 DEF JobReturns, Unpark
    <3>2. ASSUME job' = [job EXCEPT ![j].at = "out"]
          PROVE  job' = [job EXCEPT ![j].at = "out", ![j].end = job[j].end]
      BY <1>0, <3>2 DEF JobRec
    <3>3. job[j].end \in {"ran", "stopped", "unparked"}
      BY <1>0 DEF JobRec
    <3> QED
      BY <3>1, <3>2, <3>3
  <2>2. PICK e \in {"ran", "stopped", "unparked"} : job' = [job EXCEPT ![j].at = "out", ![j].end = e]
    BY <2>1
  <2>3. job'[j].at = "out" /\ job'[j].dir = job[j].dir /\ job'[j].file = job[j].file
    BY <1>0, <2>2 DEF JobRec
  <2>4. mark' = mark /\ \A k \in Jobs \ {j} : job'[k] = job[k]
    BY <1>0, <1>3, <2>2 DEF JobReturns, Unpark
  <2> QED
    BY <1>2, <2>3, <2>4 DEF Busy
<1>4. CASE SetAside(j)
  <2>1. job' = [job EXCEPT ![j].at = "aside", ![j].note = "owed"] /\ mark' = mark
    BY <1>4 DEF SetAside
  <2>2. job'[j].at = "aside" /\ job'[j].dir = job[j].dir /\ job'[j].file = job[j].file
    BY <1>0, <2>1 DEF JobRec
  <2>3. \A k \in Jobs \ {j} : job'[k] = job[k]
    BY <1>0, <2>1
  <2> QED
    BY <1>2, <2>1, <2>2, <2>3 DEF Busy
<1>5. CASE ParkLooks(j)
  <2> DEFINE r == [job[j] EXCEPT !.note = IF job[j].at = "told" THEN "none" ELSE "passed"]
  <2>1. r.at = job[j].at /\ r.dir = job[j].dir /\ r.file = job[j].file
    BY <1>0 DEF JobRec
  <2>2. job' = Told(j, r) /\ mark' = mark
    BY <1>5 DEF ParkLooks
  <2> HIDE DEF r
  <2>3. Busy(j) => job'[j] = r
    BY <1>0, <2>1, <2>2 DEF Told, Busy
  <2>4. \A k \in Jobs \ {j} : job'[k] = job[k]
    BY <1>0, <2>2 DEF Told
  <2> QED
    BY <1>2, <2>1, <2>2, <2>3, <2>4 DEF Busy
<1>6. CASE Parked(j) \/ LaneDone(j)
  <2>1. mark' = mark \ {<< job[j].dir, job[j].file >>} /\ \E r : job' = Told(j, r)
    BY <1>6 DEF Parked, LaneDone, Clears
  <2>2. \A k \in Jobs \ {j} : job'[k] = job[k]
    BY <1>0, <2>1 DEF Told
  <2> QED
    BY <1>2, <2>1, <2>2
<1>7. CASE Recalled(j)
  <2>1. /\ \/ job' = [job EXCEPT ![j].at = "held", ![j].recalled = TRUE]
           \/ job' = [job EXCEPT ![j].at = "aside", ![j].recalled = TRUE, ![j].note = "owed"]
        /\ mark' = mark
    BY <1>7 DEF Recalled
  <2>2. job'[j].at \in {"held", "aside"} /\ job'[j].dir = job[j].dir /\ job'[j].file = job[j].file
    <3>1. job[j] \in JobRec
      BY <1>0
    <3> QED
      BY <1>0, <2>1, <3>1 DEF JobRec
  <2>3. \A k \in Jobs \ {j} : job'[k] = job[k]
    BY <1>0, <2>1
  <2> QED
    BY <1>2, <2>1, <2>2, <2>3 DEF Busy
<1> QED
  BY <1>3, <1>4, <1>5, <1>6, <1>7 DEF JobStep

LEMMA MarkOps ==
  ASSUME TypeInv, Marked, OpStep
  PROVE  Marked'
<1>0. loop \in [Loops -> LoopRec] /\ LoopsOK
  BY DEF TypeInv, TypeOK, ShapeOK
<1> DEFINE LoopsStay == \A l \in Loops : \A a \in loop[l].now : loop'[l].dir = loop[l].dir /\ a \in loop'[l].now
<1>1. ASSUME UNCHANGED << job, mark >>, LoopsStay PROVE Marked'
  <2>1. \A k \in Jobs : Busy(k) => Busy(k)' /\ job'[k].dir = job[k].dir /\ job'[k].file = job[k].file
    BY <1>1 DEF Busy
  <2> QED
    BY <1>1, <2>1, MarkKeeps
<1>2. ASSUME NEW d \in Dirs, job' = TakenOut(InLane(d)), UNCHANGED mark, LoopsStay PROVE Marked'
  <2>1. InLane(d) \in SUBSET {j \in Jobs : Takeable(j)}
    BY DEF InLane, Takeable
  <2> QED
    BY <1>2, <2>1, MarkTakenOut
<1>3. ASSUME NEW d \in Dirs, loop' = Cut(d) PROVE LoopsStay
  BY <1>3, CutIs
<1>4. ASSUME NEW d \in Dirs, StopWatcher(d) PROVE Marked'
  <2>1. job' = TakenOut(InLane(d)) /\ UNCHANGED mark /\ loop' = Cut(d)
    BY <1>4 DEF StopWatcher, LaneStops
  <2> QED
    BY <1>2, <1>3, <2>1
<1>5. ASSUME NEW d \in Dirs, NEW to \in Dirs, MoveBegins(d, to) PROVE Marked'
  <2>1. UNCHANGED << job, mark >> /\ loop' = Cut(d)
    BY <1>5 DEF MoveBegins, laneVars
  <2> QED
    BY <1>1, <1>3, <2>1
<1>6. CASE MoveStopsLane
  <2>1. job' = TakenOut(InLane(op.dir)) /\ UNCHANGED << mark, loop >> /\ op.dir \in Dirs
    BY <1>6 DEF MoveStopsLane, LaneStops, loopVars, TypeInv, ShapeOK, OpOK, MoveStages
  <2> QED
    BY <1>2, <2>1
<1>7. ASSUME NEW d \in Dirs, StartWatcher(d) PROVE Marked'
  <2>1. LoopsStay
    <3>1. CASE watchers[d] # None
      BY <1>7, <3>1 DEF StartWatcher, loopVars
    <3>2. CASE watchers[d] = None
      <4>1. PICK l \in Loops : ~Live(l) /\ loop' = [loop EXCEPT ![l] = [NoLoop EXCEPT !.dir = d, !.at = "idle"]]
        BY <1>7, <3>2 DEF StartWatcher
      <4>2. loop[l].now = {}
        BY <1>0, <4>1 DEF Live, LoopsOK
      <4> QED
        BY <1>0, <4>1, <4>2
    <3> QED
      BY <3>1, <3>2
  <2>2. UNCHANGED << job, mark >>
    BY <1>7 DEF StartWatcher
  <2> QED
    BY <1>1, <2>1, <2>2
<1>8. ASSUME UNCHANGED << job, mark, loop >> PROVE Marked'
  BY <1>1, <1>8
<1> QED
  BY <1>4, <1>5, <1>6, <1>7, <1>8 DEF OpStep, Add, HoldBack, Remove, StopsEnd, ReloadEnds, EraseEnds,
     MoveQuiet, Relocate, PurgeEnds, Rekey, MoveSaves, MoveFails, Erase, Purge, loopVars, laneVars

LEMMA MarkNext == TypeInv /\ Marked /\ [Next]_vars => Marked'
<1> SUFFICES ASSUME TypeInv, Marked, [Next]_vars PROVE Marked'
  OBVIOUS
<1>1. CASE Crash
  BY <1>1 DEF Crash, Marked
<1>2. ASSUME UNCHANGED << job, mark, loop >> PROVE Marked'
  BY <1>2 DEF Marked, Covered, Busy
<1>3. ASSUME NEW d \in Dirs, NEW x \in Files, Drop(d, x) PROVE Marked'
  BY <1>2, <1>3 DEF Drop, loopVars, laneVars
<1>4. CASE UNCHANGED vars
  BY <1>2, <1>4 DEF vars, loopVars, laneVars
<1> QED
  BY <1>1, <1>3, <1>4, MarkLoops, MarkJobs, MarkOps DEF Next

\* Whatever is set aside, refused, stopped or fails: what is shown as being transferred
\* is being transferred or still owed its end, and the lane's progress runs are
\* as many as the jobs that have not ended theirs.
THEOREM NothingStaysAlways == Spec => []NothingStays
<1>1. Init => Marked
  BY DEF Init, Marked
<1>2. TypeInv /\ Marked => NothingStays
  BY DEF NothingStays, Marked, Covered, Busy, TypeInv, ShapeOK, Counted
<1> QED
  BY <1>1, <1>2, TypeInit, TypeNext, MarkNext, PTL DEF Spec
=============================================================================
