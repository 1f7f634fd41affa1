----------------------------- MODULE LaneProofs -----------------------------
(***************************************************************************)
(* Proofs about Lane for every set of jobs, paths, pairs and stoppers and  *)
(* every number of workers.                                                *)
(***************************************************************************)
EXTENDS Lane, TLAPS, FiniteSetTheorems, FunctionTheorems, SequenceTheorems

USE LaneAssumption DEF LaneAssumption

\* What a dispatch leaves behind, whatever it starts.
LEMMA DispatchType ==
  ASSUME NEW Q \in SUBSET Jobs, NEW o \in SUBSET (Jobs \X Jobs), NEW R \in SUBSET Jobs,
         mark \in [Jobs -> SUBSET Marks], Dispatch(Q, o, R)
  PROVE  /\ queue' \subseteq Q /\ running' \subseteq Jobs
         /\ R \subseteq running'
         /\ Q \cup R = queue' \cup running'
         /\ Q \cap R = {} => queue' \cap running' = {}
         /\ order' \subseteq queue' \X queue'
         /\ mark' \in [Jobs -> SUBSET Marks]
  BY DEF Dispatch, Starts, Only, Marks

\* Dropping a request and making room for another keeps a sequence of requests.
LEMMA PreferType ==
  ASSUME NEW scope \in Asked, prefs \in Seq(Asked), Prefer(scope)
  PROVE  prefs' \in Seq(Asked)
<1> DEFINE kept == Without(prefs, scope)
           at == {i \in DOMAIN prefs : prefs[i] = scope}
           room == IF Len(kept) >= PrefsMax
                     THEN SubSeq(kept, Len(kept) - PrefsMax + 2, Len(kept)) ELSE kept
<1>1. kept \in Seq(Asked)
  <2>1. CASE at = {}
    BY <2>1 DEF Without
  <2>2. CASE at # {}
    <3> DEFINE i == CHOOSE i \in at : TRUE
    <3>1. i \in 1 .. Len(prefs)
      BY <2>2, LenProperties
    <3>2. \A k \in 1 .. Len(prefs) : prefs[k] \in Asked
      BY ElementOfSeq
    <3> HIDE DEF i
    <3>3. SubSeq(prefs, 1, i - 1) \in Seq(Asked)
      BY <3>1, <3>2, SubSeqProperties, LenProperties
    <3>5. SubSeq(prefs, i + 1, Len(prefs)) \in Seq(Asked)
      BY <3>1, <3>2, SubSeqProperties, LenProperties
    <3>4. kept = SubSeq(prefs, 1, i - 1) \o SubSeq(prefs, i + 1, Len(prefs))
      BY <2>2 DEF Without, i
    <3> QED
      BY <3>3, <3>5, <3>4, ConcatProperties
  <2> QED
    BY <2>1, <2>2
<1>2. room \in Seq(Asked)
  BY <1>1
<1>3. prefs' = Append(room, scope)
  BY DEF Prefer
<1> QED
  BY <1>2, <1>3, AppendProperties

-----------------------------------------------------------------------------
(* Type correctness *)

LEMMA TypeInit == Init => TypeOK
<1> SUFFICES ASSUME Init PROVE TypeOK
  OBVIOUS
<1>1. prefs \in Seq(Asked)
  BY EmptySeq DEF Init
<1>2. caller \in [Stoppers -> [pc: {"idle", "marked", "stopping", "returned"},
                              scope: SUBSET Paths, kind: {"stop", "pair", "close"}]]
  BY DEF Init, Idle
<1>3. mark \in [Jobs -> SUBSET Marks] /\ callbacks \in [Jobs -> SUBSET {"current", "stale"}]
  BY DEF Init
<1> QED
  BY <1>1, <1>2, <1>3 DEF Init, TypeOK, Results

LEMMA TypeNext == TypeOK /\ [Next]_vars => TypeOK'
<1> SUFFICES ASSUME TypeOK, [Next]_vars PROVE TypeOK'
  OBVIOUS
<1> USE DEF TypeOK
<1>1. ASSUME NEW j \in Jobs, Add(j) PROVE TypeOK'
  <2> DEFINE lead == {k \in queue : /\ Preferred(k)
                                    /\ \A m \in queue : <<m, k>> \in order => Preferred(m)}
             o == Behind(IF Preferred(j) THEN lead ELSE queue, j, queue, order)
  <2>1. Dispatch(queue \cup {j}, o, running)
    BY <1>1 DEF Add
  <2>2. o \in SUBSET (Jobs \X Jobs) /\ queue \cup {j} \in SUBSET Jobs
    BY DEF Behind, Only
  <2> HIDE DEF o
  <2>3. /\ queue' \subseteq Jobs /\ running' \subseteq Jobs
        /\ order' \subseteq queue' \X queue' /\ mark' \in [Jobs -> SUBSET Marks]
    BY <2>1, <2>2 DEF Dispatch, Starts, Only
  <2> QED
    BY <1>1, <2>3 DEF Add, goVars, stopVars
<1>2. ASSUME NEW j \in Jobs, First(j) PROVE TypeOK'
  BY <1>2 DEF First, ToFront, Only, jobVars, goVars, stopVars
<1>3. ASSUME NEW j \in Jobs, UnparkFind(j) PROVE TypeOK'
  BY <1>3 DEF UnparkFind, laneVars, jobVars, goVars, stopVars
<1>4. ASSUME NEW j \in Jobs, NEW t \in Untils, Park(j, t) PROVE TypeOK'
  <2>1. ASSUME ParkWaiting(j, t) PROVE TypeOK'
    BY <2>1 DEF ParkWaiting, Arm, Stale, Only, goVars, stopVars
  <2>2. ASSUME ParkRunning(j, t) PROVE TypeOK'
    BY <2>2 DEF ParkRunning, Recall, Marks, laneVars, goVars
  <2>3. ASSUME ParkAgain(j, t) PROVE TypeOK'
    BY <2>3 DEF ParkAgain, Arm, Stale, laneVars, goVars, stopVars
  <2> QED
    BY <1>4, <2>1, <2>2, <2>3 DEF Park
<1>5. ASSUME NEW scope \in Asked, Prefer(scope) PROVE TypeOK'
  <2>1. prefs' \in Seq(Asked)
    BY <1>5, PreferType
  <2> QED
    BY <1>5, <2>1 DEF Prefer, laneVars, jobVars, goVars, stopVars
<1>6. ASSUME NEW scope \in Asked, FirstUnder(scope) PROVE TypeOK'
  BY <1>6 DEF FirstUnder, Only, jobVars, goVars, stopVars
<1>7. ASSUME Pause PROVE TypeOK'
  BY <1>7 DEF Pause, Recall, Marks, goVars
<1>8. ASSUME Resume PROVE TypeOK'
  <2>1. /\ queue' \subseteq Jobs /\ running' \subseteq Jobs
        /\ order' \subseteq queue' \X queue' /\ mark' \in [Jobs -> SUBSET Marks]
    BY <1>8, DispatchType DEF Resume
  <2> QED
    BY <1>8, <2>1 DEF Resume, goVars, stopVars
<1>9. ASSUME NEW pk \in Pairs, AllowPair(pk) PROVE TypeOK'
  BY <1>9 DEF AllowPair, jobVars, goVars
<1>10. ASSUME NEW s \in Stoppers, NEW pk \in Pairs, StopPairMark(s, pk) PROVE TypeOK'
  BY <1>10 DEF StopPairMark, jobVars, goVars
<1>11. ASSUME NEW s \in Stoppers, CloseMark(s) PROVE TypeOK'
  BY <1>11 DEF CloseMark, jobVars, goVars
<1>12. ASSUME NEW s \in Stoppers, CallerDone(s) PROVE TypeOK'
  BY <1>12 DEF CallerDone, Idle, laneVars, jobVars, goVars
<1>13. ASSUME NEW s \in Stoppers, NEW scope \in SUBSET Paths,
              NEW kind \in {"stop", "pair", "close"}, Stop(s, scope, kind)
       PROVE TypeOK'
  <2>1. /\ queue' \subseteq Jobs /\ running' \subseteq Jobs /\ parked' \subseteq Jobs
        /\ order' \subseteq queue' \X queue'
    BY <1>13 DEF Stop, Only
  <2>2. mark' \in [Jobs -> SUBSET Marks]
    BY <1>13 DEF Stop, StopMark, Marks
  <2>3. timer' \in [Jobs -> BOOLEAN] /\ callbacks' \in [Jobs -> SUBSET {"current", "stale"}]
    BY <1>13 DEF Stop, Invalidate, Stale
  <2>4. timed' \in [Jobs -> BOOLEAN] /\ waiters' \in [Jobs -> SUBSET Stoppers]
    BY <1>13 DEF Stop
  <2>5. /\ dropped' \in [Stoppers -> SUBSET Jobs]
        /\ taken' \in [Stoppers -> SUBSET Jobs]
        /\ recalled' \in [Stoppers -> SUBSET Jobs]
    BY <1>13 DEF Stop, Held
  <2>6. caller' \in [Stoppers -> [pc: {"idle", "marked", "stopping", "returned"},
                                  scope: SUBSET Paths, kind: {"stop", "pair", "close"}]]
    BY <1>13 DEF Stop
  <2> QED
    BY <1>13, <2>1, <2>2, <2>3, <2>4, <2>5, <2>6 DEF Stop, goVars
<1>14. ASSUME NEW s \in Stoppers, NEW scope \in Scopes, StopScope(s, scope) PROVE TypeOK'
  BY <1>14, <1>13 DEF StopScope
<1>15. ASSUME PreferExpires PROVE TypeOK'
  BY <1>15, HeadTailProperties DEF PreferExpires, laneVars, jobVars, goVars, stopVars
<1>16. ASSUME NEW j \in Jobs, Return(j) PROVE TypeOK'
  <2> PICK err \in {"ok", "failed"} :
        LET park == err = "failed" /\ Kept("parking", mark[j])
            back == err = "failed" /\ ~park /\ Kept("requeue", mark[j])
            stop == /\ err = "failed"
                    /\ \/ "stopped" \in mark[j]
                       \/ closed /\ mark[j] \cap {"parking", "requeue"} # {}
            todo == IF park \/ back THEN "close" ELSE "done"
            told == IF park \/ back THEN "none" ELSE IF stop THEN "stopped" ELSE err
        IN  /\ Dispatch(IF back THEN queue \cup {j} ELSE queue,
                        IF back THEN ToFront(j, queue, order) ELSE order,
                        running \ {j})
            /\ parked' = IF park THEN parked \cup {j} ELSE parked
            /\ Arm(j, park /\ timed[j])
            /\ tails' = tails \cup {[job |-> j, todo |-> todo, err |-> told,
                                     waiters |-> waiters[j]]}
    BY <1>16 DEF Return
  <2> DEFINE park == err = "failed" /\ Kept("parking", mark[j])
             back == err = "failed" /\ ~park /\ Kept("requeue", mark[j])
             Q == IF back THEN queue \cup {j} ELSE queue
             o == IF back THEN ToFront(j, queue, order) ELSE order
  <2>1. Dispatch(Q, o, running \ {j})
    OBVIOUS
  <2>2. o \in SUBSET (Jobs \X Jobs) /\ Q \in SUBSET Jobs
    BY DEF ToFront, Only
  <2>3. /\ queue' \subseteq Jobs /\ running' \subseteq Jobs
        /\ order' \subseteq queue' \X queue' /\ mark' \in [Jobs -> SUBSET Marks]
    <3> HIDE DEF o, Q
    <3> QED
      BY <2>1, <2>2 DEF Dispatch, Starts, Only
  <2>4. parked' \subseteq Jobs
    OBVIOUS
  <2>5. /\ timed' \in [Jobs -> BOOLEAN] /\ timer' \in [Jobs -> BOOLEAN]
        /\ callbacks' \in [Jobs -> SUBSET {"current", "stale"}]
    BY DEF Arm, Stale
  <2>6. tails' \subseteq ExecTail
    BY DEF ExecTail, Results
  <2>7. waiters' \in [Jobs -> SUBSET Stoppers]
    BY <1>16 DEF Return
  <2> QED
    BY <1>16, <2>3, <2>4, <2>5, <2>6, <2>7 DEF Return, stopVars
<1>17. ASSUME NEW j \in Jobs, Unpark(j) PROVE TypeOK'
  BY <1>17 DEF Unpark, UnparkJob, Stale, Found, stopVars
<1>18. ASSUME NEW j \in Jobs, TimerFires(j) PROVE TypeOK'
  BY <1>18 DEF TimerFires, laneVars, goVars, stopVars
<1>19. ASSUME NEW j \in Jobs, TellUnparked(j) PROVE TypeOK'
  BY <1>19 DEF TellUnparked, Results, laneVars, jobVars, stopVars
<1>20. ASSUME NEW j \in Jobs, NEW gen \in {"current", "stale"}, TimerUnpark(j, gen)
       PROVE TypeOK'
  BY <1>20 DEF TimerUnpark, UnparkJob, Found, stopVars
<1>21. ASSUME NEW t \in tails, FinishTail(t) PROVE TypeOK'
  BY <1>21 DEF FinishTail, Rest, Due, ExecTail, Results, laneVars, jobVars, stopVars
<1>22. ASSUME NEW s \in Stoppers, StopMarked(s) PROVE TypeOK'
  <2>1. PICK scope \in Pairs \cup {Paths}, kind \in {"stop", "pair", "close"} :
          Stop(s, scope, kind)
    BY <1>22 DEF StopMarked
  <2>2. scope \in SUBSET Paths
    OBVIOUS
  <2> QED
    <3>1. Stop(s, scope, kind)
      BY <2>1
    <3>2. kind \in {"stop", "pair", "close"}
      OBVIOUS
    <3> HIDE DEF TypeOK
    <3> QED
      BY <3>1, <3>2, <2>2, <1>13, Zenon
<1>23. ASSUME NEW s \in Stoppers, StopReturn(s) PROVE TypeOK'
  <2>1. caller' \in [Stoppers -> [pc: {"idle", "marked", "stopping", "returned"},
                                  scope: SUBSET Paths, kind: {"stop", "pair", "close"}]]
    BY <1>23 DEF StopReturn
  <2> QED
    BY <1>23, <2>1 DEF StopReturn, laneVars, jobVars, goVars
<1>24. ASSUME NEW s \in Stoppers, NEW j \in Jobs, StopTell(s, j) PROVE TypeOK'
  BY <1>24 DEF StopTell, Results, laneVars, jobVars, goVars
<1>25. ASSUME UNCHANGED vars PROVE TypeOK'
  BY <1>25 DEF vars, laneVars, jobVars, goVars, stopVars
<1> QED
  BY <1>1, <1>2, <1>3, <1>4, <1>5, <1>6, <1>7, <1>8, <1>9, <1>10, <1>11, <1>12, <1>14,
     <1>15, <1>16, <1>17, <1>18, <1>19, <1>20, <1>21, <1>22, <1>23, <1>24, <1>25
  DEF Next, Request, Progress

\* Every state the lane can reach is well typed.
THEOREM TypeCorrect == Spec => []TypeOK
<1> QED
  BY TypeInit, TypeNext, PTL DEF Spec

-----------------------------------------------------------------------------
(* One place per job, one job per path, and busy workers *)

IInv == TypeOK /\ OnePlace /\ OneJobPerPath

LEMMA PlaceInit == Init => IInv
<1> SUFFICES ASSUME Init PROVE IInv
  OBVIOUS
<1>1. TypeOK
  BY TypeInit
<1>2. Held = {} /\ Leaving = {}
  BY DEF Init, Held, Leaving, Dropped, Finishing
<1> QED
  BY <1>1, <1>2 DEF Init, IInv, OnePlace, OneJobPerPath, Dropped, Finishing, Held

\* Where no job moves, the invariant only asks who still owes a done.
LEMMA PlaceCaller ==
  ASSUME IInv, TypeOK',
         UNCHANGED << queue, running, parked, dropped, unparked, tails, result >>,
         \A s \in Stoppers : dropped[s] # {} => caller'[s].pc = "stopping"
  PROVE  IInv'
  BY DEF IInv, OnePlace, OneJobPerPath, Held, Leaving, Dropped, Finishing

\* Where nothing moves, everything stays in its place.
LEMMA PlaceSame ==
  ASSUME IInv, TypeOK',
         UNCHANGED << queue, running, parked, caller, dropped, unparked, tails, result >>
  PROVE  IInv'
  BY DEF IInv, OnePlace, OneJobPerPath, Held, Leaving, Dropped, Finishing

\* Jobs that only change places inside the lane leave the invariant alone.
LEMMA PlaceInside ==
  ASSUME IInv, TypeOK', UNCHANGED << caller, dropped, unparked, tails, result >>,
         Held' = Held,
         queue' \cap running' = {}, queue' \cap parked' = {}, running' \cap parked' = {}
  PROVE  IInv'
  BY DEF IInv, OnePlace, OneJobPerPath, Leaving, Dropped, Finishing

LEMMA PlaceNext == IInv /\ [Next]_vars => IInv'
<1> SUFFICES ASSUME IInv, [Next]_vars PROVE IInv'
  OBVIOUS
<1>t. TypeOK /\ TypeOK'
  BY TypeNext DEF IInv
<1>1. ASSUME NEW j \in Jobs, Add(j) PROVE IInv'
  <2> DEFINE lead == {k \in queue : /\ Preferred(k)
                                    /\ \A m \in queue : <<m, k>> \in order => Preferred(m)}
             o == Behind(IF Preferred(j) THEN lead ELSE queue, j, queue, order)
  <2>1. Dispatch(queue \cup {j}, o, running)
    BY <1>1 DEF Add
  <2> HIDE DEF o
  <2>2. PICK S \in SUBSET (queue \cup {j}) :
          queue' = (queue \cup {j}) \ S /\ running' = running \cup S
    BY <2>1 DEF Dispatch, Starts
  <2>3. Held' = Held \cup {j}
    BY <2>2, <1>1 DEF Held, Add
  <2>4. /\ Leaving' = Leaving /\ Dropped' = Dropped /\ Finishing' = Finishing
        /\ UNCHANGED << parked, caller, dropped, unparked, tails, result >>
    BY <1>1 DEF Add, Leaving, Dropped, Finishing, goVars, stopVars
  <2>5. j \notin Held /\ j \notin Leaving /\ result[j] = "none"
    BY <1>1 DEF Add, Fresh
  <2>6. OnePlace'
    BY <2>2, <2>3, <2>4, <2>5 DEF OnePlace, IInv, Held
  <2>7. OneJobPerPath'
    <3>1. \A k \in Held : PathOf[k] # PathOf[j]
      BY <1>1 DEF Add, Holds
    <3> QED
      BY <2>3, <3>1 DEF OneJobPerPath, IInv
  <2> QED
    BY <1>t, <2>6, <2>7 DEF IInv
<1>2. ASSUME NEW j \in Jobs, First(j) PROVE IInv'
  BY <1>2, <1>t, PlaceSame DEF First, goVars, stopVars
<1>3. ASSUME NEW j \in Jobs, UnparkFind(j) PROVE IInv'
  BY <1>3, <1>t, PlaceSame DEF UnparkFind, laneVars, stopVars
<1>4. ASSUME NEW j \in Jobs, NEW t \in Untils, Park(j, t) PROVE IInv'
  <2>1. ASSUME ParkWaiting(j, t) PROVE IInv'
    <3>1. /\ queue' = queue \ {j} /\ parked' = parked \cup {j} /\ j \in queue
          /\ UNCHANGED << running, caller, dropped, unparked, tails, result >>
      BY <2>1 DEF ParkWaiting, goVars, stopVars
    <3>2. Held' = Held
      BY <3>1 DEF Held
    <3> QED
      BY <3>1, <3>2, <1>t, PlaceInside DEF IInv, OnePlace
  <2>2. ASSUME ParkRunning(j, t) PROVE IInv'
    BY <2>2, <1>t, PlaceSame DEF ParkRunning, laneVars, goVars
  <2>3. ASSUME ParkAgain(j, t) PROVE IInv'
    BY <2>3, <1>t, PlaceSame DEF ParkAgain, laneVars, goVars, stopVars
  <2> QED
    BY <1>4, <2>1, <2>2, <2>3 DEF Park
<1>5. ASSUME NEW scope \in Asked, Prefer(scope) PROVE IInv'
  BY <1>5, <1>t, PlaceSame DEF Prefer, laneVars, goVars, stopVars
<1>6. ASSUME NEW scope \in Asked, FirstUnder(scope) PROVE IInv'
  BY <1>6, <1>t, PlaceSame DEF FirstUnder, goVars, stopVars
<1>7. ASSUME Pause PROVE IInv'
  BY <1>7, <1>t, PlaceSame DEF Pause, goVars
<1>8. ASSUME Resume PROVE IInv'
  <2>1. PICK S \in SUBSET queue : queue' = queue \ S /\ running' = running \cup S
    BY <1>8 DEF Resume, Dispatch, Starts
  <2>2. UNCHANGED << parked, caller, dropped, unparked, tails, result >>
    BY <1>8 DEF Resume, goVars, stopVars
  <2>3. Held' = Held
    BY <2>1, <2>2 DEF Held
  <2>4. queue' \cap running' = {} /\ queue' \cap parked' = {} /\ running' \cap parked' = {}
    BY <2>1, <2>2 DEF IInv, OnePlace
  <2> QED
    BY <2>2, <2>3, <2>4, <1>t, PlaceInside
<1>9. ASSUME NEW pk \in Pairs, AllowPair(pk) PROVE IInv'
  <2>1. /\ UNCHANGED << queue, running, parked, dropped, unparked, tails, result >>
        /\ \A r \in Stoppers : caller'[r].pc = caller[r].pc \/ caller[r].pc # "stopping"
    BY <1>9, <1>t DEF AllowPair, goVars, TypeOK
  <2>2. \A r \in Stoppers : dropped[r] # {} => caller'[r].pc = "stopping"
    BY <2>1 DEF IInv, OnePlace
  <2> QED
    BY <2>1, <2>2, <1>t, PlaceCaller
<1>10. ASSUME NEW s \in Stoppers, NEW pk \in Pairs, StopPairMark(s, pk) PROVE IInv'
  <2>1. /\ UNCHANGED << queue, running, parked, dropped, unparked, tails, result >>
        /\ \A r \in Stoppers : caller'[r].pc = caller[r].pc \/ caller[r].pc # "stopping"
    BY <1>10, <1>t DEF StopPairMark, goVars, Idle, TypeOK
  <2>2. \A r \in Stoppers : dropped[r] # {} => caller'[r].pc = "stopping"
    BY <2>1 DEF IInv, OnePlace
  <2> QED
    BY <2>1, <2>2, <1>t, PlaceCaller
<1>11. ASSUME NEW s \in Stoppers, CloseMark(s) PROVE IInv'
  <2>1. /\ UNCHANGED << queue, running, parked, dropped, unparked, tails, result >>
        /\ \A r \in Stoppers : caller'[r].pc = caller[r].pc \/ caller[r].pc # "stopping"
    BY <1>11, <1>t DEF CloseMark, goVars, Idle, TypeOK
  <2>2. \A r \in Stoppers : dropped[r] # {} => caller'[r].pc = "stopping"
    BY <2>1 DEF IInv, OnePlace
  <2> QED
    BY <2>1, <2>2, <1>t, PlaceCaller
<1>12. ASSUME NEW s \in Stoppers, CallerDone(s) PROVE IInv'
  <2>1. /\ UNCHANGED << queue, running, parked, dropped, unparked, tails, result >>
        /\ \A r \in Stoppers : caller'[r].pc = caller[r].pc \/ caller[r].pc # "stopping"
    BY <1>12, <1>t DEF CallerDone, laneVars, goVars, TypeOK
  <2>2. \A r \in Stoppers : dropped[r] # {} => caller'[r].pc = "stopping"
    BY <2>1 DEF IInv, OnePlace
  <2> QED
    BY <2>1, <2>2, <1>t, PlaceCaller
<1>13. ASSUME NEW s \in Stoppers, NEW scope \in SUBSET Paths,
              NEW kind \in {"stop", "pair", "close"}, Stop(s, scope, kind), dropped[s] = {}
       PROVE IInv'
  <2> DEFINE M == Under(scope)
             D == (queue \cup parked) \cap M
  <2>1. /\ queue' = queue \ M /\ parked' = parked \ M /\ running' = running
        /\ dropped' = [dropped EXCEPT ![s] = D]
        /\ UNCHANGED << unparked, tails, result >>
        /\ \A r \in Stoppers : caller'[r].pc = IF r = s THEN "stopping" ELSE caller[r].pc
    BY <1>13, <1>t DEF Stop, goVars, TypeOK
  <2> HIDE DEF M
  <2>2. Held' = Held \ D
    BY <2>1 DEF Held, IInv, OnePlace
  <2>3. Dropped' = Dropped \cup D
    BY <2>1, <1>13, <1>t DEF Dropped, TypeOK
  <2>4. Finishing' = Finishing
    BY <2>1 DEF Finishing
  <2>5. Leaving' = Leaving \cup D
    BY <2>1, <2>3, <2>4 DEF Leaving
  <2>6. D \subseteq Held /\ Held \cap Leaving = {}
    BY DEF Held, IInv, OnePlace
  <2>7. /\ \A r, q \in Stoppers : r # q => dropped'[r] \cap dropped'[q] = {}
        /\ \A r \in Stoppers : dropped'[r] # {} => caller'[r].pc = "stopping"
    <3>1. \A r \in Stoppers : dropped[r] \cap D = {}
      BY <2>6 DEF Leaving, Dropped
    <3>2. \A r \in Stoppers : dropped'[r] = IF r = s THEN D ELSE dropped[r]
      BY <2>1, <1>t DEF TypeOK
    <3> HIDE DEF D
    <3> QED
      BY <2>1, <3>1, <3>2 DEF IInv, OnePlace
  <2>8. Dropped' \cap unparked' = {} /\ Dropped' \cap Finishing' = {}
    BY <2>1, <2>3, <2>4, <2>6 DEF IInv, OnePlace, Leaving
  <2>9. \A j \in Jobs : result'[j] # "none" => j \notin Held' \cup Leaving'
    BY <2>1, <2>2, <2>5, <2>6 DEF IInv, OnePlace
  <2> HIDE DEF D
  <2>10. OnePlace'
    BY <2>1, <2>2, <2>4, <2>5, <2>6, <2>7, <2>8, <2>9 DEF IInv, OnePlace
  <2>11. OneJobPerPath'
    BY <2>2 DEF IInv, OneJobPerPath
  <2> QED
    BY <1>t, <2>10, <2>11 DEF IInv
<1>14. ASSUME NEW s \in Stoppers, NEW scope \in Scopes, StopScope(s, scope) PROVE IInv'
  <2>1. caller[s] = Idle /\ Stop(s, scope, "stop")
    BY <1>14 DEF StopScope
  <2>2. dropped[s] = {}
    BY <2>1 DEF Idle, IInv, OnePlace
  <2>3. scope \in SUBSET Paths
    OBVIOUS
  <2> QED
    BY <2>1, <2>2, <2>3, <1>13
<1>15. ASSUME PreferExpires PROVE IInv'
  BY <1>15, <1>t, PlaceSame DEF PreferExpires, laneVars, goVars, stopVars
<1>16. ASSUME NEW j \in Jobs, Return(j) PROVE IInv'
  <2> PICK err \in {"ok", "failed"} :
        LET park == err = "failed" /\ Kept("parking", mark[j])
            back == err = "failed" /\ ~park /\ Kept("requeue", mark[j])
            stop == /\ err = "failed"
                    /\ \/ "stopped" \in mark[j]
                       \/ closed /\ mark[j] \cap {"parking", "requeue"} # {}
            todo == IF park \/ back THEN "close" ELSE "done"
            told == IF park \/ back THEN "none" ELSE IF stop THEN "stopped" ELSE err
        IN  /\ Dispatch(IF back THEN queue \cup {j} ELSE queue,
                        IF back THEN ToFront(j, queue, order) ELSE order,
                        running \ {j})
            /\ parked' = IF park THEN parked \cup {j} ELSE parked
            /\ Arm(j, park /\ timed[j])
            /\ tails' = tails \cup {[job |-> j, todo |-> todo, err |-> told,
                                     waiters |-> waiters[j]]}
    BY <1>16 DEF Return
  <2> DEFINE park == err = "failed" /\ Kept("parking", mark[j])
             back == err = "failed" /\ ~park /\ Kept("requeue", mark[j])
             Q == IF back THEN queue \cup {j} ELSE queue
             o == IF back THEN ToFront(j, queue, order) ELSE order
             todo == IF park \/ back THEN "close" ELSE "done"
  <2>1. Dispatch(Q, o, running \ {j})
    OBVIOUS
  <2>2. parked' = (IF park THEN parked \cup {j} ELSE parked) /\ ~(park /\ back)
    OBVIOUS
  <2>3. PICK told \in Results \cup {"none"} :
          tails' = tails \cup {[job |-> j, todo |-> todo, err |-> told,
                                waiters |-> waiters[j]]}
    BY DEF Results
  <2>4. j \in running /\ UNCHANGED << dropped, unparked, result, caller >>
    BY <1>16 DEF Return, stopVars
  <2>5. j \notin queue /\ j \notin parked /\ j \notin Leaving /\ result[j] = "none"
    BY <2>4 DEF IInv, OnePlace, Held
  <2> HIDE DEF park, back, o
  <2>6. PICK S \in SUBSET Q : queue' = Q \ S /\ running' = (running \ {j}) \cup S
    <3> HIDE DEF Q
    <3> QED
      BY <2>1 DEF Dispatch, Starts
  <2>7. Held' = IF park \/ back THEN Held ELSE Held \ {j}
    BY <2>2, <2>4, <2>5, <2>6 DEF Held, IInv, OnePlace
  <2>8. queue' \cap running' = {} /\ queue' \cap parked' = {} /\ running' \cap parked' = {}
    BY <2>2, <2>4, <2>5, <2>6 DEF IInv, OnePlace
  <2>9. Dropped' = Dropped
    BY <2>4 DEF Dropped
  <2>10. Finishing' = IF park \/ back THEN Finishing ELSE Finishing \cup {j}
    <3> DEFINE new == [job |-> j, todo |-> todo, err |-> told, waiters |-> waiters[j]]
    <3>1. tails' = tails \cup {new} /\ new.job = j
      BY <2>3
    <3>2. new.todo = "done" <=> ~(park \/ back)
      OBVIOUS
    <3> HIDE DEF new, todo
    <3>3. \A k \in Jobs : k \in Finishing' <=> k \in Finishing \/ (k = j /\ new.todo = "done")
      BY <3>1 DEF Finishing
    <3> QED
      BY <3>2, <3>3 DEF Finishing
  <2>11. Leaving' = IF park \/ back THEN Leaving ELSE Leaving \cup {j}
    BY <2>4, <2>9, <2>10 DEF Leaving
  <2>12. j \notin Dropped /\ j \notin unparked /\ j \notin Finishing
    BY <2>5 DEF Leaving
  <2>13. \A t, u \in tails' : t.todo = "done" /\ u.todo = "done" /\ t.job = u.job => t = u
    BY <2>3, <2>12 DEF Finishing, IInv, OnePlace
  <2>14. Held' \cap Leaving' = {}
    BY <2>5, <2>7, <2>11 DEF IInv, OnePlace
  <2>15. OnePlace'
    <3> HIDE DEF Q, todo
    <3> QED
      BY <2>4, <2>5, <2>7, <2>8, <2>9, <2>10, <2>11, <2>12, <2>13, <2>14 DEF IInv, OnePlace
  <2>16. OneJobPerPath'
    BY <2>7 DEF IInv, OneJobPerPath
  <2> QED
    BY <1>t, <2>15, <2>16 DEF IInv
<1>17. ASSUME NEW j \in Jobs, UnparkJob(j),
              UNCHANGED << queue, running, caller, dropped, tails, result >>
       PROVE IInv'
  <2>1. CASE j \notin parked
    BY <1>17, <2>1, <1>t, PlaceSame DEF UnparkJob, Found
  <2>2. CASE j \in parked
    <3>1. parked' = parked \ {j} /\ unparked' = unparked \cup {j}
      BY <1>17, <2>2 DEF UnparkJob, Found
    <3>2. j \in Held /\ j \notin queue /\ j \notin running
      BY <2>2 DEF Held, IInv, OnePlace
    <3>3. Held' = Held \ {j}
      BY <1>17, <3>1, <3>2 DEF Held
    <3>4. Dropped' = Dropped /\ Finishing' = Finishing
      BY <1>17 DEF Dropped, Finishing
    <3>5. Leaving' = Leaving \cup {j}
      BY <3>1, <3>4 DEF Leaving
    <3>6. j \notin Leaving /\ j \notin Dropped /\ j \notin Finishing /\ result[j] = "none"
      BY <3>2 DEF IInv, OnePlace, Leaving
    <3>7. OnePlace'
      BY <1>17, <3>1, <3>3, <3>4, <3>5, <3>6 DEF IInv, OnePlace
    <3>8. OneJobPerPath'
      BY <3>3 DEF IInv, OneJobPerPath
    <3> QED
      BY <1>t, <3>7, <3>8 DEF IInv
  <2> QED
    BY <2>1, <2>2
<1>18. ASSUME NEW j \in Jobs, Unpark(j) PROVE IInv'
  BY <1>18, <1>17 DEF Unpark, stopVars
<1>19. ASSUME NEW j \in Jobs, NEW gen \in {"current", "stale"}, TimerUnpark(j, gen)
       PROVE IInv'
  <2>1. CASE Acts(gen)
    BY <1>19, <2>1, <1>17 DEF TimerUnpark, stopVars
  <2>2. CASE ~Acts(gen)
    BY <1>19, <2>2, <1>t, PlaceSame DEF TimerUnpark, stopVars
  <2> QED
    BY <2>1, <2>2
<1>20. ASSUME NEW j \in Jobs, TimerFires(j) PROVE IInv'
  BY <1>20, <1>t, PlaceSame DEF TimerFires, laneVars, goVars, stopVars
<1>21. ASSUME NEW j \in Jobs, TellUnparked(j) PROVE IInv'
  <2>1. /\ unparked' = unparked \ {j} /\ j \in unparked
        /\ result' = [result EXCEPT ![j] = "unparked"]
        /\ UNCHANGED << queue, running, parked, caller, dropped, tails >>
    BY <1>21 DEF TellUnparked, laneVars, stopVars
  <2>2. Held' = Held /\ Dropped' = Dropped /\ Finishing' = Finishing
    BY <2>1 DEF Held, Dropped, Finishing
  <2>3. j \notin Held /\ j \notin Dropped /\ j \notin Finishing
    BY <2>1 DEF IInv, OnePlace, Leaving
  <2>4. Leaving' = Leaving \ {j}
    BY <2>1, <2>2, <2>3 DEF Leaving
  <2>5. \A k \in Jobs : result'[k] # "none" => k = j \/ result[k] # "none"
    BY <2>1, <1>t DEF TypeOK
  <2>6. OnePlace'
    BY <2>1, <2>2, <2>3, <2>4, <2>5 DEF IInv, OnePlace
  <2>7. OneJobPerPath'
    BY <2>2 DEF IInv, OneJobPerPath
  <2> QED
    BY <1>t, <2>6, <2>7 DEF IInv
<1>22. ASSUME NEW t \in tails, FinishTail(t) PROVE IInv'
  <2>1. /\ tails' = (tails \ {t}) \cup Rest(t)
        /\ result' = IF Due(t) THEN [result EXCEPT ![t.job] = t.err] ELSE result
        /\ UNCHANGED << queue, running, parked, caller, dropped, unparked >>
    BY <1>22 DEF FinishTail, laneVars, stopVars
  <2>2. Held' = Held /\ Dropped' = Dropped
    BY <2>1 DEF Held, Dropped
  <2>3. \A u \in Rest(t) : u.todo = "close"
    BY DEF Rest
  <2>4. \A u \in tails' : u.todo = "done" => u \in tails \ {t}
    BY <2>1, <2>3
  <2>5. \A u, v \in tails' : u.todo = "done" /\ v.todo = "done" /\ u.job = v.job => u = v
    BY <2>4 DEF IInv, OnePlace
  <2>6. CASE t.todo = "done"
    <3>1. Finishing' = Finishing \ {t.job}
      BY <2>1, <2>3, <2>4, <2>6 DEF Finishing, IInv, OnePlace
    <3>2. t.job \in Finishing /\ t.job \in Jobs
      BY <2>6, <1>t DEF Finishing, TypeOK, ExecTail
    <3>3. t.job \notin Held /\ t.job \notin Dropped /\ t.job \notin unparked
      BY <3>2 DEF IInv, OnePlace, Leaving
    <3>4. Leaving' = Leaving \ {t.job}
      BY <2>1, <2>2, <3>1, <3>3 DEF Leaving
    <3>5. \A k \in Jobs : result'[k] # "none" => k = t.job \/ result[k] # "none"
      BY <2>1, <1>t DEF TypeOK
    <3>6. OnePlace'
      BY <2>1, <2>2, <2>5, <3>1, <3>3, <3>4, <3>5 DEF IInv, OnePlace
    <3>7. OneJobPerPath'
      BY <2>2 DEF IInv, OneJobPerPath
    <3> QED
      BY <1>t, <3>6, <3>7 DEF IInv
  <2>7. CASE t.todo # "done"
    <3>1. Finishing' = Finishing /\ result' = result
      BY <2>1, <2>3, <2>7 DEF Finishing, Due
    <3>2. Leaving' = Leaving
      BY <2>1, <2>2, <3>1 DEF Leaving
    <3>3. OnePlace'
      BY <2>1, <2>2, <2>5, <3>1, <3>2 DEF IInv, OnePlace
    <3>4. OneJobPerPath'
      BY <2>2 DEF IInv, OneJobPerPath
    <3> QED
      BY <1>t, <3>3, <3>4 DEF IInv
  <2> QED
    BY <2>6, <2>7
<1>23. ASSUME NEW s \in Stoppers, StopMarked(s) PROVE IInv'
  <2>1. PICK scope \in Pairs \cup {Paths}, kind \in {"stop", "pair", "close"} :
          /\ caller[s] = [pc |-> "marked", scope |-> scope, kind |-> kind]
          /\ Stop(s, scope, kind)
    BY <1>23 DEF StopMarked
  <2>2. dropped[s] = {}
    BY <2>1 DEF IInv, OnePlace
  <2>3. scope \in SUBSET Paths
    OBVIOUS
  <2> QED
    BY <2>1, <2>2, <2>3, <1>13, Zenon
<1>24. ASSUME NEW s \in Stoppers, StopReturn(s) PROVE IInv'
  <2>1. /\ UNCHANGED << queue, running, parked, dropped, unparked, tails, result >>
        /\ dropped[s] = {}
        /\ \A r \in Stoppers : r # s => caller'[r] = caller[r]
    BY <1>24, <1>t DEF StopReturn, laneVars, goVars, TypeOK
  <2>2. \A r \in Stoppers : dropped[r] # {} => caller'[r].pc = "stopping"
    BY <2>1 DEF IInv, OnePlace
  <2> QED
    BY <2>1, <2>2, <1>t, PlaceCaller
<1>25. ASSUME NEW s \in Stoppers, NEW j \in Jobs, StopTell(s, j) PROVE IInv'
  <2>1. /\ dropped' = [dropped EXCEPT ![s] = dropped[s] \ {j}] /\ j \in dropped[s]
        /\ result' = [result EXCEPT ![j] = "stopped"]
        /\ UNCHANGED << queue, running, parked, caller, unparked, tails >>
    BY <1>25 DEF StopTell, laneVars, goVars
  <2>2. /\ \A r \in Stoppers : dropped'[r] = IF r = s THEN dropped[s] \ {j} ELSE dropped[r]
        /\ \A k \in Jobs : result'[k] # "none" => k = j \/ result[k] # "none"
    BY <2>1, <1>t DEF TypeOK
  <2>3. Held' = Held /\ Finishing' = Finishing
    BY <2>1 DEF Held, Finishing
  <2>4. \A r \in Stoppers : r # s => j \notin dropped[r]
    BY <2>1 DEF IInv, OnePlace
  <2>5. Dropped' = Dropped \ {j}
    BY <2>2, <2>4 DEF Dropped
  <2>6. j \in Dropped /\ j \notin Held /\ j \notin unparked /\ j \notin Finishing
    BY <2>1 DEF IInv, OnePlace, Leaving, Dropped
  <2>7. Leaving' = Leaving \ {j}
    BY <2>1, <2>3, <2>5, <2>6 DEF Leaving
  <2>8. /\ \A r, q \in Stoppers : r # q => dropped'[r] \cap dropped'[q] = {}
        /\ \A r \in Stoppers : dropped'[r] # {} => caller'[r].pc = "stopping"
    BY <2>1, <2>2 DEF IInv, OnePlace
  <2>9. OnePlace'
    BY <2>1, <2>2, <2>3, <2>5, <2>6, <2>7, <2>8 DEF IInv, OnePlace
  <2>10. OneJobPerPath'
    BY <2>3 DEF IInv, OneJobPerPath
  <2> QED
    BY <1>t, <2>9, <2>10 DEF IInv
<1>26. ASSUME UNCHANGED vars PROVE IInv'
  BY <1>26, <1>t, PlaceSame DEF vars, laneVars, goVars, stopVars
<1> QED
  BY <1>1, <1>2, <1>3, <1>4, <1>5, <1>6, <1>7, <1>8, <1>9, <1>10, <1>11, <1>12, <1>14,
     <1>15, <1>16, <1>18, <1>19, <1>20, <1>21, <1>22, <1>23, <1>24, <1>25, <1>26
  DEF Next, Request, Progress

\* A job is in one place at a time, and its done is told once.
THEOREM OnePlaceAlways == Spec => []OnePlace
<1>1. IInv => OnePlace
  BY DEF IInv
<1> QED
  BY PlaceInit, PlaceNext, <1>1, PTL DEF Spec

\* No two jobs the lane holds transfer the same path.
THEOREM OneJobPerPathAlways == Spec => []OneJobPerPath
<1>1. IInv => OneJobPerPath
  BY DEF IInv
<1> QED
  BY PlaceInit, PlaceNext, <1>1, PTL DEF Spec

\* A dispatch never starts too many, and leaves none waiting beside a free worker.
LEMMA DispatchBusy ==
  ASSUME NEW Q \in SUBSET Jobs, NEW o, NEW R \in SUBSET Jobs,
         Cardinality(R) <= Workers, Dispatch(Q, o, R), closed' = closed
  PROVE  WorkersBusy'
<1>1. PICK S \in Starts(Q, o, R) : queue' = Q \ S /\ running' = R \cup S
  BY DEF Dispatch
<1>2. IsFiniteSet(R \cup S) /\ Cardinality(R \cup S) \in Nat
  <2>1. R \cup S \subseteq Jobs
    BY <1>1 DEF Starts
  <2> QED
    BY <2>1, FS_Subset, FS_CardinalityType
<1>3. Cardinality(running') <= Workers
  <2>1. CASE S = {}
    <3>1. running' = R
      BY <1>1, <2>1
    <3> QED
      BY <3>1
  <2>2. CASE S # {}
    BY <1>1, <2>2 DEF Starts
  <2> QED
    BY <2>1, <2>2
<1>4. ~paused' /\ ~closed' /\ queue' # {} => Cardinality(running') = Workers
  <2> SUFFICES ASSUME ~paused', ~closed', queue' # {} PROVE Cardinality(running') = Workers
    OBVIOUS
  <2>1. S # Q
    BY <1>1
  <2>2. Cardinality(R \cup S) >= Workers
    BY <1>1, <2>1 DEF Starts
  <2> QED
    BY <1>1, <1>2, <1>3, <2>2
<1> QED
  BY <1>3, <1>4 DEF WorkersBusy

LEMMA BusySame ==
  ASSUME WorkersBusy, queue' \subseteq queue, running' = running,
         paused => paused', closed => closed'
  PROVE  WorkersBusy'
  BY DEF WorkersBusy

LEMMA BusyNext == TypeOK /\ WorkersBusy /\ [Next]_vars => WorkersBusy'
<1> SUFFICES ASSUME TypeOK, WorkersBusy, [Next]_vars PROVE WorkersBusy'
  OBVIOUS
<1>b. Cardinality(running) <= Workers
  BY DEF WorkersBusy
<1>1. ASSUME NEW j \in Jobs, Add(j) PROVE WorkersBusy'
  <2>1. PICK o : Dispatch(queue \cup {j}, o, running)
    BY <1>1, Zenon DEF Add
  <2>2. queue \cup {j} \in SUBSET Jobs /\ running \in SUBSET Jobs /\ closed' = closed
    BY <1>1 DEF Add, TypeOK
  <2> QED
    BY <1>b, <2>1, <2>2, DispatchBusy
<1>2. ASSUME Resume PROVE WorkersBusy'
  <2>1. Dispatch(queue, order, running) /\ closed' = closed
    BY <1>2 DEF Resume
  <2> QED
    BY <1>b, <2>1, DispatchBusy DEF TypeOK
<1>3. ASSUME NEW j \in Jobs, Return(j) PROVE WorkersBusy'
  <2>0. PICK Q \in SUBSET Jobs : \E o : Dispatch(Q, o, running \ {j})
    <3>1. PICK b \in BOOLEAN : Dispatch(IF b THEN queue \cup {j} ELSE queue,
                                        IF b THEN ToFront(j, queue, order) ELSE order,
                                        running \ {j})
      BY <1>3 DEF Return
    <3>2. (IF b THEN queue \cup {j} ELSE queue) \in SUBSET Jobs
      BY DEF TypeOK
    <3> QED
      BY <3>1, <3>2, Zenon
  <2>1. PICK o : Dispatch(Q, o, running \ {j})
    BY <2>0
  <2>2. running \ {j} \in SUBSET Jobs /\ closed' = closed
    BY <1>3 DEF Return, TypeOK
  <2>3. IsFiniteSet(running) /\ Cardinality(running) \in Nat
    BY FS_Subset, FS_CardinalityType DEF TypeOK
  <2>4. Cardinality(running \ {j}) <= Cardinality(running) /\ Cardinality(running \ {j}) \in Nat
    BY <2>3, FS_Subset, FS_CardinalityType
  <2> QED
    BY <1>b, <2>1, <2>2, <2>3, <2>4, DispatchBusy
<1>4. ASSUME NEW j \in Jobs, First(j) \/ UnparkFind(j) PROVE WorkersBusy'
  BY <1>4, BusySame DEF First, UnparkFind, laneVars
<1>5. ASSUME NEW j \in Jobs, NEW t \in Untils, Park(j, t) PROVE WorkersBusy'
  BY <1>5, BusySame DEF Park, ParkWaiting, ParkRunning, ParkAgain, laneVars
<1>6. ASSUME NEW scope \in Asked, Prefer(scope) \/ FirstUnder(scope) PROVE WorkersBusy'
  BY <1>6, BusySame DEF Prefer, FirstUnder, laneVars
<1>7. ASSUME Pause \/ PreferExpires PROVE WorkersBusy'
  BY <1>7, BusySame DEF Pause, PreferExpires, laneVars
<1>8. ASSUME NEW s \in Stoppers, NEW scope, NEW kind, Stop(s, scope, kind) PROVE WorkersBusy'
  BY <1>8, BusySame DEF Stop
<1>9. ASSUME NEW s \in Stoppers, NEW scope \in Scopes, StopScope(s, scope) PROVE WorkersBusy'
  BY <1>9, <1>8 DEF StopScope
<1>10. ASSUME NEW s \in Stoppers, StopMarked(s) PROVE WorkersBusy'
  BY <1>10, <1>8 DEF StopMarked
<1>11. ASSUME NEW s \in Stoppers, \/ CloseMark(s) \/ CallerDone(s) \/ StopReturn(s)
                                  \/ \E j \in Jobs : StopTell(s, j)
       PROVE WorkersBusy'
  BY <1>11, BusySame DEF CloseMark, CallerDone, StopReturn, StopTell, laneVars
<1>12. ASSUME NEW pk \in Pairs, AllowPair(pk) \/ \E s \in Stoppers : StopPairMark(s, pk)
       PROVE WorkersBusy'
  BY <1>12, BusySame DEF AllowPair, StopPairMark
<1>13. ASSUME NEW j \in Jobs, Unpark(j) \/ TimerFires(j) \/ TellUnparked(j) PROVE WorkersBusy'
  BY <1>13, BusySame DEF Unpark, TimerFires, TellUnparked, laneVars
<1>14. ASSUME NEW j \in Jobs, NEW gen \in {"current", "stale"}, TimerUnpark(j, gen)
       PROVE WorkersBusy'
  BY <1>14, BusySame DEF TimerUnpark
<1>15. ASSUME NEW t \in tails, FinishTail(t) PROVE WorkersBusy'
  BY <1>15, BusySame DEF FinishTail, laneVars
<1>16. ASSUME UNCHANGED vars PROVE WorkersBusy'
  BY <1>16, BusySame DEF vars, laneVars
<1> QED
  BY <1>1, <1>2, <1>3, <1>4, <1>5, <1>6, <1>7, <1>9, <1>10, <1>11, <1>12, <1>13, <1>14,
     <1>15, <1>16 DEF Next, Request, Progress

\* At most Workers transfers run, and none waits beside a free worker.
THEOREM WorkersBusyAlways == Spec => []WorkersBusy
<1>1. Init => WorkersBusy
  BY FS_EmptySet DEF Init, WorkersBusy
<1> QED
  BY <1>1, TypeInit, TypeNext, BusyNext, PTL DEF Spec

-----------------------------------------------------------------------------
(* The lane implements LaneLife *)

\* The moves a job may make in a step, in terms of where it is in the lane.
Moves ==
  \A k \in Jobs :
    /\ k \in queue \cup running => k \in Held' \cup Leaving'
    /\ k \in parked => k \in parked' \cup Leaving'
    /\ k \in Leaving => k \in Leaving' \/ result'[k] # "none"
    /\ result[k] # "none" => result'[k] # "none"
    /\ Fresh(k) => /\ k \notin parked' /\ k \notin Leaving' /\ result'[k] = "none"

\* Where nothing leaves the lane and nothing enters it but new jobs.
LEMMA MovesInside ==
  ASSUME IInv, UNCHANGED << dropped, unparked, tails, result >>,
         queue \cup running \subseteq Held', parked \subseteq parked',
         parked' \subseteq Held
  PROVE  Moves
  BY DEF Moves, Fresh, Held, Leaving, Dropped, Finishing

LEMMA MovesNext == IInv /\ IInv' /\ [Next]_vars => Moves
<1> SUFFICES ASSUME IInv, IInv', [Next]_vars PROVE Moves
  OBVIOUS
<1>t. TypeOK /\ TypeOK'
  BY DEF IInv
<1>1. ASSUME NEW j \in Jobs, Add(j) PROVE Moves
  <2>1. PICK Q, o : Q = queue \cup {j} /\ Dispatch(Q, o, running)
    BY <1>1, Zenon DEF Add
  <2>2. queue \cup running \subseteq queue' \cup running'
    BY <2>1 DEF Dispatch, Starts
  <2>3. UNCHANGED << parked, dropped, unparked, tails, result >>
    BY <1>1 DEF Add, goVars, stopVars
  <2> QED
    BY <2>2, <2>3, MovesInside DEF Held
<1>2. ASSUME Resume PROVE Moves
  <2>1. queue \cup running \subseteq queue' \cup running'
    BY <1>2 DEF Resume, Dispatch, Starts
  <2>2. UNCHANGED << parked, dropped, unparked, tails, result >>
    BY <1>2 DEF Resume, goVars, stopVars
  <2> QED
    BY <2>1, <2>2, MovesInside DEF Held
<1>3. ASSUME NEW j \in Jobs, Return(j) PROVE Moves
  <2>1. PICK Q, o, u : /\ queue \subseteq Q /\ Dispatch(Q, o, running \ {j})
                       /\ \/ j \in Q
                          \/ parked' = parked \cup {j}
                          \/ tails' = tails \cup {u} /\ u.job = j /\ u.todo = "done"
                       /\ tails' = tails \cup {u} /\ u.job = j
                       /\ parked' = parked \/ parked' = parked \cup {j}
    <3>0. PICK err \in {"ok", "failed"}, park \in BOOLEAN, back \in BOOLEAN : \E told :
            /\ Dispatch(IF back THEN queue \cup {j} ELSE queue,
                        IF back THEN ToFront(j, queue, order) ELSE order,
                        running \ {j})
            /\ parked' = IF park THEN parked \cup {j} ELSE parked
            /\ tails' = tails \cup {[job |-> j,
                                     todo |-> IF park \/ back THEN "close" ELSE "done",
                                     err |-> told, waiters |-> waiters[j]]}
      BY <1>3 DEF Return
    <3>1. PICK told :
            /\ Dispatch(IF back THEN queue \cup {j} ELSE queue,
                        IF back THEN ToFront(j, queue, order) ELSE order,
                        running \ {j})
            /\ parked' = IF park THEN parked \cup {j} ELSE parked
            /\ tails' = tails \cup {[job |-> j,
                                     todo |-> IF park \/ back THEN "close" ELSE "done",
                                     err |-> told, waiters |-> waiters[j]]}
      BY <3>0
    <3> DEFINE Q == IF back THEN queue \cup {j} ELSE queue
               o == IF back THEN ToFront(j, queue, order) ELSE order
               u == [job |-> j, todo |-> IF park \/ back THEN "close" ELSE "done",
                     err |-> told, waiters |-> waiters[j]]
    <3>2. Dispatch(Q, o, running \ {j}) /\ tails' = tails \cup {u}
      BY <3>1
    <3>3. queue \subseteq Q /\ u.job = j /\ (j \in Q \/ park \/ u.todo = "done")
      OBVIOUS
    <3>4. parked' = IF park THEN parked \cup {j} ELSE parked
      BY <3>1
    <3> HIDE DEF Q, o, u
    <3>5. \/ j \in Q
          \/ parked' = parked \cup {j}
          \/ tails' = tails \cup {u} /\ u.job = j /\ u.todo = "done"
      BY <3>2, <3>3, <3>4
    <3>6. parked' = parked \/ parked' = parked \cup {j}
      BY <3>4
    <3> WITNESS Q, o, u
    <3> QED
      BY <3>2, <3>3, <3>5, <3>6
  <2>2. queue' \cup running' = Q \cup (running \ {j})
    BY <2>1 DEF Dispatch, Starts
  <2>3. UNCHANGED << dropped, unparked, result >> /\ j \in running
    BY <1>3 DEF Return, stopVars
  <2>4. Dropped' = Dropped /\ Finishing \subseteq Finishing' /\ Finishing' \subseteq Finishing \cup {j}
    BY <2>1, <2>3 DEF Dropped, Finishing
  <2>5. j \in Q \/ j \in parked' \/ j \in Finishing'
    BY <2>1 DEF Finishing
  <2> QED
    BY <2>1, <2>2, <2>3, <2>4, <2>5 DEF Moves, Held, Leaving, Fresh
<1>4. ASSUME NEW j \in Jobs, First(j) \/ UnparkFind(j) \/ TimerFires(j) PROVE Moves
  BY <1>4, MovesInside DEF First, UnparkFind, TimerFires, Held, laneVars, goVars, stopVars
<1>5. ASSUME NEW j \in Jobs, NEW t \in Untils, Park(j, t) PROVE Moves
  BY <1>5, MovesInside DEF Park, ParkWaiting, ParkRunning, ParkAgain, Held, laneVars, goVars,
                           stopVars
<1>6. ASSUME NEW scope \in Asked, Prefer(scope) \/ FirstUnder(scope) PROVE Moves
  BY <1>6, MovesInside DEF Prefer, FirstUnder, Held, laneVars, goVars, stopVars
<1>7. ASSUME Pause \/ PreferExpires PROVE Moves
  BY <1>7, MovesInside DEF Pause, PreferExpires, Held, laneVars, goVars, stopVars
<1>8. ASSUME NEW s \in Stoppers, NEW scope, NEW kind, Stop(s, scope, kind), dropped[s] = {}
      PROVE Moves
  <2> DEFINE D == (queue \cup parked) \cap Under(scope)
  <2>1. /\ queue \subseteq queue' \cup D /\ parked \subseteq parked' \cup D
        /\ parked' \subseteq parked /\ running' = running
        /\ dropped' = [dropped EXCEPT ![s] = D] /\ D \subseteq Held
        /\ UNCHANGED << unparked, tails, result >>
    BY <1>8 DEF Stop, Held, goVars
  <2> HIDE DEF D
  <2>2. Dropped' = Dropped \cup D /\ Finishing' = Finishing
    BY <2>1, <1>8, <1>t DEF Dropped, Finishing, TypeOK
  <2> QED
    BY <2>1, <2>2 DEF Moves, Held, Leaving, Fresh
<1>9. ASSUME NEW s \in Stoppers, NEW scope \in Scopes, StopScope(s, scope) PROVE Moves
  <2>1. dropped[s] = {}
    BY <1>9 DEF StopScope, Idle, IInv, OnePlace
  <2> QED
    BY <1>9, <2>1, <1>8 DEF StopScope
<1>10. ASSUME NEW s \in Stoppers, StopMarked(s) PROVE Moves
  <2>1. dropped[s] = {}
    BY <1>10 DEF StopMarked, IInv, OnePlace
  <2> QED
    BY <1>10, <2>1, <1>8 DEF StopMarked
<1>11. ASSUME NEW s \in Stoppers, CloseMark(s) \/ CallerDone(s) \/ StopReturn(s) PROVE Moves
  BY <1>11, MovesInside DEF CloseMark, CallerDone, StopReturn, Held, laneVars, goVars
<1>12. ASSUME NEW pk \in Pairs, AllowPair(pk) \/ \E s \in Stoppers : StopPairMark(s, pk)
       PROVE Moves
  BY <1>12, MovesInside DEF AllowPair, StopPairMark, Held, goVars
<1>13. ASSUME NEW s \in Stoppers, NEW j \in Jobs, StopTell(s, j) PROVE Moves
  <2>1. /\ dropped' = [dropped EXCEPT ![s] = dropped[s] \ {j}] /\ j \in dropped[s]
        /\ result' = [result EXCEPT ![j] = "stopped"]
        /\ UNCHANGED << queue, running, parked, unparked, tails >>
    BY <1>13 DEF StopTell, laneVars, goVars
  <2>2. Dropped' \subseteq Dropped /\ Dropped \subseteq Dropped' \cup {j} /\ Finishing' = Finishing
    BY <2>1, <1>t DEF Dropped, Finishing, TypeOK
  <2>3. j \in Dropped
    BY <2>1 DEF Dropped
  <2> QED
    BY <2>1, <2>2, <2>3, <1>t DEF Moves, Held, Leaving, Fresh, TypeOK
<1>14. ASSUME NEW j \in Jobs, UnparkJob(j), UNCHANGED << queue, running, dropped, tails, result >>
       PROVE Moves
  <2>1. Dropped' = Dropped /\ Finishing' = Finishing
    BY <1>14 DEF Dropped, Finishing
  <2> QED
    BY <1>14, <2>1 DEF UnparkJob, Found, Moves, Held, Leaving, Fresh
<1>15. ASSUME NEW j \in Jobs, Unpark(j) PROVE Moves
  BY <1>15, <1>14 DEF Unpark, stopVars
<1>16. ASSUME NEW j \in Jobs, NEW gen \in {"current", "stale"}, TimerUnpark(j, gen)
       PROVE Moves
  <2>1. CASE Acts(gen)
    BY <1>16, <2>1, <1>14 DEF TimerUnpark, stopVars
  <2>2. CASE ~Acts(gen)
    BY <1>16, <2>2, MovesInside DEF TimerUnpark, stopVars, Held
  <2> QED
    BY <2>1, <2>2
<1>17. ASSUME NEW j \in Jobs, TellUnparked(j) PROVE Moves
  <2>1. /\ unparked' = unparked \ {j} /\ j \in unparked
        /\ result' = [result EXCEPT ![j] = "unparked"]
        /\ UNCHANGED << queue, running, parked, dropped, tails >>
    BY <1>17 DEF TellUnparked, laneVars, stopVars
  <2>2. Dropped' = Dropped /\ Finishing' = Finishing
    BY <2>1 DEF Dropped, Finishing
  <2> QED
    BY <2>1, <2>2, <1>t DEF Moves, Held, Leaving, Fresh, TypeOK
<1>18. ASSUME NEW t \in tails, FinishTail(t) PROVE Moves
  <2>1. /\ tails' = (tails \ {t}) \cup Rest(t)
        /\ result' = IF Due(t) THEN [result EXCEPT ![t.job] = t.err] ELSE result
        /\ UNCHANGED << queue, running, parked, dropped, unparked >>
    BY <1>18 DEF FinishTail, laneVars, stopVars
  <2>2. \A u \in Rest(t) : u.todo = "close"
    BY DEF Rest
  <2>3. Finishing' \subseteq Finishing /\ Dropped' = Dropped
    BY <2>1, <2>2 DEF Finishing, Dropped
  <2>4. CASE t.todo # "done"
    <3>1. result' = result /\ Finishing \subseteq Finishing'
      BY <2>1, <2>4 DEF Due, Finishing
    <3> QED
      BY <2>1, <2>3, <3>1 DEF Moves, Held, Leaving, Fresh
  <2>5. CASE t.todo = "done"
    <3>1. Finishing \subseteq Finishing' \cup {t.job} /\ t.job \in Finishing
      BY <2>1, <2>5, <1>t DEF Finishing, TypeOK, ExecTail
    <3>2. result' = [result EXCEPT ![t.job] = t.err]
      BY <2>1, <2>5 DEF Due
    <3>3. t.err # "none"
      BY <2>5, <1>t DEF TypeOK, ExecTail, Results
    <3> QED
      BY <2>1, <2>3, <3>1, <3>2, <3>3, <1>t DEF Moves, Held, Leaving, Fresh, TypeOK
  <2> QED
    BY <2>4, <2>5
<1>19. ASSUME UNCHANGED vars PROVE Moves
  BY <1>19, MovesInside DEF vars, laneVars, goVars, stopVars, Held
<1> QED
  BY <1>1, <1>2, <1>3, <1>4, <1>5, <1>6, <1>7, <1>9, <1>10, <1>11, <1>12, <1>13, <1>15,
     <1>16, <1>17, <1>18, <1>19 DEF Next, Request, Progress

\* As many workers as jobs: each job can have its own.
LEMMA Staff ==
  ASSUME NEW R, IsFiniteSet(R), Cardinality(R) <= Workers
  PROVE  \E f \in [R -> 1 .. Workers] : \A j, k \in R : f[j] = f[k] => j = k
<1> DEFINE n == Cardinality(R)
<1>1. n \in Nat /\ n <= Workers
  BY FS_CardinalityType
<1>2. PICK g \in Bijection(1 .. n, R) : TRUE
  BY FS_CardinalityType DEF ExistsBijection
<1> DEFINE f == Inverse(g, 1 .. n, R)
<1>3. f \in Bijection(R, 1 .. n)
  BY <1>2, Fun_BijInverse
<1> HIDE DEF f, n
<1>4. f \in [R -> 1 .. n] /\ \A j, k \in R : f[j] = f[k] => j = k
  BY <1>3 DEF Bijection, Injection, IsInjective
<1>5. f \in [R -> 1 .. Workers]
  BY <1>1, <1>4
<1> QED
  BY <1>4, <1>5

\* A legal move is a step of the abstract lane.
LEMMA LifeStep ==
  IInv /\ IInv' /\ WorkersBusy' /\ Moves => Life!LifeNext
<1> SUFFICES ASSUME IInv, IInv', WorkersBusy', Moves PROVE Life!LifeNext
  OBVIOUS
<1> DEFINE st == [j \in Jobs |-> Stage(j)]
<1>1. st' \in [Jobs -> Life!Stages]
  BY DEF Stage, Life!Stages
<1>2. \A j \in Jobs : st'[j] \in Life!After[st[j]]
  <2> SUFFICES ASSUME NEW j \in Jobs PROVE Stage(j)' \in Life!After[Stage(j)]
    OBVIOUS
  <2>1. /\ j \in queue \cup running => j \in Held' \cup Leaving'
        /\ j \in parked => j \in parked' \cup Leaving'
        /\ j \in Leaving => j \in Leaving' \/ result'[j] # "none"
        /\ result[j] # "none" => result'[j] # "none"
        /\ Fresh(j) => /\ j \notin parked' /\ j \notin Leaving' /\ result'[j] = "none"
    BY DEF Moves
  <2>2. /\ queue' \cap running' = {} /\ queue' \cap parked' = {} /\ running' \cap parked' = {}
        /\ Held' \cap Leaving' = {}
        /\ result'[j] # "none" => j \notin Held' \cup Leaving'
    BY DEF IInv, OnePlace
  <2>3. CASE j \in queue
    <3>1. Stage(j) = "waiting"
      BY <2>3 DEF Stage, Held
    <3>2. Stage(j)' \in {"waiting", "running", "parked", "leaving"}
      BY <2>1, <2>2, <2>3 DEF Stage, Held
    <3> QED
      BY <3>1, <3>2 DEF Life!After
  <2>4. CASE j \in running \ queue
    <3>1. Stage(j) = "running"
      BY <2>4 DEF Stage, Held
    <3>2. Stage(j)' \in {"running", "waiting", "parked", "leaving"}
      BY <2>1, <2>2, <2>4 DEF Stage, Held
    <3> QED
      BY <3>1, <3>2 DEF Life!After
  <2>5. CASE j \in parked \ (queue \cup running)
    <3>1. Stage(j) = "parked"
      BY <2>5 DEF Stage, Held
    <3>3. j \in parked' \/ (j \in Leaving' /\ j \notin Held')
      BY <2>1, <2>2, <2>5
    <3>2. Stage(j)' \in {"parked", "leaving"}
      BY <2>2, <3>3 DEF Stage, Held
    <3> QED
      BY <3>1, <3>2 DEF Life!After
  <2>6. CASE j \in Leaving \ Held
    <3>1. Stage(j) = "leaving"
      BY <2>6 DEF Stage, Held
    <3>3. (j \in Leaving' \/ result'[j] # "none") /\ j \notin Held'
      BY <2>1, <2>2, <2>6
    <3>2. Stage(j)' \in {"leaving", "told"}
      BY <3>3 DEF Stage, Held
    <3> QED
      BY <3>1, <3>2 DEF Life!After
  <2>7. CASE j \notin Held \cup Leaving /\ result[j] # "none"
    <3>1. Stage(j) = "told"
      BY <2>7 DEF Stage, Held
    <3>3. result'[j] # "none" /\ j \notin Held' /\ j \notin Leaving'
      BY <2>1, <2>2, <2>7
    <3>2. Stage(j)' \in {"told"}
      BY <3>3 DEF Stage, Held
    <3> QED
      BY <3>1, <3>2 DEF Life!After
  <2>8. CASE j \notin Held \cup Leaving /\ result[j] = "none"
    <3>1. Stage(j) = "new"
      BY <2>8 DEF Stage, Held
    <3>2. Stage(j)' \in {"new", "waiting", "running"}
      BY <2>1, <2>2, <2>8 DEF Stage, Held, Fresh
    <3> QED
      BY <3>1, <3>2 DEF Life!After
  <2> QED
    BY <2>3, <2>4, <2>5, <2>6, <2>7, <2>8 DEF Held
<1>3. Life!Staffed(st')
  <2>1. Life!Running(st') = running'
    BY DEF Life!Running, Stage, IInv, TypeOK, OnePlace
  <2>2. \E f \in [running' -> 1 .. Workers] : \A j, k \in running' : f[j] = f[k] => j = k
    BY Staff, FS_Subset DEF IInv, TypeOK, WorkersBusy
  <2> QED
    BY <2>1, <2>2 DEF Life!Staffed
<1>4. Life!Distinct(st')
  <2>1. \A j \in Jobs : st'[j] \in Life!In => j \in Held'
    BY DEF Stage, Life!In, Held
  <2> QED
    BY <2>1 DEF Life!Distinct, IInv, OneJobPerPath
<1> QED
  BY <1>1, <1>2, <1>3, <1>4 DEF Life!LifeNext

\* The lane implements the life of a job that the passes count on.
THEOREM Implements == Spec => LivesAsPromised
<1>1. Init => Life!LifeInit
  BY DEF Init, Life!LifeInit, Stage, Leaving, Dropped, Finishing
<1>2. IInv /\ WorkersBusy /\ [Next]_vars => [Life!LifeNext]_([j \in Jobs |-> Stage(j)])
  BY PlaceNext, BusyNext, MovesNext, LifeStep DEF IInv
<1>3. Init => WorkersBusy
  BY FS_EmptySet DEF Init, WorkersBusy
<1>4. IInv => TypeOK
  BY DEF IInv
<1> QED
  BY <1>1, <1>2, <1>3, <1>4, PlaceInit, PlaceNext, BusyNext, PTL
  DEF Spec, LivesAsPromised, Life!LifeSpec

-----------------------------------------------------------------------------
(* Timers *)

LEMMA TimersNext == IInv /\ TimersCurrent /\ [Next]_vars => TimersCurrent'
<1> SUFFICES ASSUME IInv, TimersCurrent, [Next]_vars PROVE TimersCurrent'
  OBVIOUS
<1>t. TypeOK /\ queue \cap parked = {} /\ running \cap parked = {}
  BY DEF IInv, OnePlace
<1>s. ASSUME UNCHANGED << timed, timer, callbacks >>, parked \subseteq parked'
      PROVE TimersCurrent'
  BY <1>s DEF TimersCurrent
<1>1. ASSUME NEW j \in Jobs, Add(j) \/ First(j) \/ UnparkFind(j) \/ TellUnparked(j)
      PROVE TimersCurrent'
  BY <1>1, <1>s DEF Add, First, UnparkFind, TellUnparked, laneVars, jobVars
<1>2. ASSUME Pause \/ Resume \/ PreferExpires PROVE TimersCurrent'
  BY <1>2, <1>s DEF Pause, Resume, PreferExpires, laneVars, jobVars
<1>3. ASSUME NEW scope \in Asked, Prefer(scope) \/ FirstUnder(scope) PROVE TimersCurrent'
  BY <1>3, <1>s DEF Prefer, FirstUnder, laneVars, jobVars
<1>4. ASSUME NEW s \in Stoppers, \/ CloseMark(s) \/ CallerDone(s) \/ StopReturn(s)
                                 \/ \E j \in Jobs : StopTell(s, j)
      PROVE TimersCurrent'
  BY <1>4, <1>s DEF CloseMark, CallerDone, StopReturn, StopTell, laneVars, jobVars
<1>5. ASSUME NEW pk \in Pairs, AllowPair(pk) \/ \E s \in Stoppers : StopPairMark(s, pk)
      PROVE TimersCurrent'
  BY <1>5, <1>s DEF AllowPair, StopPairMark, jobVars
<1>6. ASSUME NEW t \in tails, FinishTail(t) PROVE TimersCurrent'
  BY <1>6, <1>s DEF FinishTail, laneVars, jobVars
<1>7. ASSUME UNCHANGED vars PROVE TimersCurrent'
  BY <1>7, <1>s DEF vars, laneVars, jobVars
<1>8. ASSUME NEW j \in Jobs, NEW t \in BOOLEAN, Arm(j, t), t => j \in parked',
             \A k \in parked : k # j => k \in parked'
      PROVE TimersCurrent'
  BY <1>8, <1>t DEF TimersCurrent, Arm, Stale, TypeOK
<1>9. ASSUME NEW j \in Jobs, NEW t \in Untils, Park(j, t) PROVE TimersCurrent'
  <2>1. CASE ParkWaiting(j, t)
    BY <2>1, <1>8 DEF ParkWaiting
  <2>2. CASE ParkAgain(j, t)
    BY <2>2, <1>8 DEF ParkAgain, laneVars
  <2>3. CASE ParkRunning(j, t)
    BY <2>3, <1>t DEF ParkRunning, TimersCurrent, TypeOK, laneVars
  <2> QED
    BY <1>9, <2>1, <2>2, <2>3 DEF Park
<1>10. ASSUME NEW j \in Jobs, Return(j) PROVE TimersCurrent'
  <2>1. PICK park \in BOOLEAN : /\ parked' = IF park THEN parked \cup {j} ELSE parked
                                /\ Arm(j, park /\ timed[j])
    BY <1>10 DEF Return
  <2>2. (park /\ timed[j]) \in BOOLEAN
    OBVIOUS
  <2>3. (park /\ timed[j]) => j \in parked'
    BY <2>1
  <2>4. parked \subseteq parked'
    BY <2>1
  <2> QED
    BY <2>1, <2>2, <2>3, <2>4, <1>8
<1>11. ASSUME NEW s \in Stoppers, NEW scope, NEW kind, Stop(s, scope, kind)
       PROVE TimersCurrent'
  <2> DEFINE M == Under(scope)
  <2>1. parked' = parked \ M /\ Invalidate(parked \cap M)
        /\ timed' = [j \in Jobs |-> timed[j] /\ j \notin M]
    BY <1>11 DEF Stop
  <2> HIDE DEF M
  <2> QED
    BY <2>1, <1>t DEF TimersCurrent, Invalidate, Stale, TypeOK
<1>12. ASSUME NEW s \in Stoppers, NEW scope \in Scopes, StopScope(s, scope)
       PROVE TimersCurrent'
  BY <1>12, <1>11 DEF StopScope
<1>13. ASSUME NEW s \in Stoppers, StopMarked(s) PROVE TimersCurrent'
  BY <1>13, <1>11 DEF StopMarked
<1>14. ASSUME NEW j \in Jobs, Unpark(j) PROVE TimersCurrent'
  BY <1>14, <1>t DEF Unpark, UnparkJob, Found, Stale, TimersCurrent, TypeOK
<1>15. ASSUME NEW j \in Jobs, TimerFires(j) PROVE TimersCurrent'
  BY <1>15, <1>t DEF TimerFires, TimersCurrent, TypeOK, laneVars
<1>16. ASSUME NEW j \in Jobs, NEW gen \in {"current", "stale"}, TimerUnpark(j, gen)
       PROVE TimersCurrent'
  BY <1>16, <1>t DEF TimerUnpark, UnparkJob, Found, Acts, TimersCurrent, TypeOK
<1> QED
  BY <1>1, <1>2, <1>3, <1>4, <1>5, <1>6, <1>7, <1>9, <1>10, <1>12, <1>13, <1>14, <1>15,
     <1>16 DEF Next, Request, Progress

\* No timer, and no timer call that may still act, outlives the set-aside it
\* was armed for.
THEOREM TimersCurrentAlways == Spec => []TimersCurrent
<1>1. Init => TimersCurrent
  BY DEF Init, TimersCurrent
<1> QED
  BY <1>1, PlaceInit, PlaceNext, TimersNext, PTL DEF Spec

\* A job set aside without a time leaves only by unpark or a stop.
THEOREM UntimedStaysAlways == Spec => UntimedStays
<1>1. TypeOK /\ TimersCurrent /\ [Next]_vars
        => [\A j \in unparked' \ unparked : timed[j] \/ j \in resuming]_vars
  <2> SUFFICES ASSUME TypeOK, TimersCurrent, [Next]_vars, NEW j \in unparked' \ unparked
               PROVE timed[j] \/ j \in resuming
    OBVIOUS
  <2>1. CASE \E k \in Jobs : Unpark(k)
    BY <2>1 DEF Unpark, UnparkJob
  <2>2. CASE \E k \in Jobs, gen \in {"current", "stale"} : TimerUnpark(k, gen)
    BY <2>2 DEF TimerUnpark, UnparkJob, Acts, TimersCurrent
  <2>3. CASE UNCHANGED unparked
    BY <2>3
  <2>4. CASE \E k \in Jobs : TellUnparked(k)
    BY <2>4 DEF TellUnparked
  <2> QED
    BY <2>1, <2>2, <2>3, <2>4
    DEF Next, Request, Progress, Add, First, UnparkFind, Park, ParkWaiting, ParkRunning,
        ParkAgain, Prefer, FirstUnder, Pause, Resume, AllowPair, StopPairMark, CloseMark,
        CallerDone, StopScope, StopMarked, Stop, PreferExpires, Return, TimerFires,
        FinishTail, StopReturn, StopTell, vars, goVars
<1>2. IInv => TypeOK
  BY DEF IInv
<1> QED
  BY <1>1, <1>2, TypeInit, TypeNext, TimersCurrentAlways, TypeCorrect, PTL DEF Spec, UntimedStays

-----------------------------------------------------------------------------
(* What a stop promises *)

\* Why a stopper's stop has not returned yet, or need not wait: the job's done was
\* told, is the stopper's to tell, or will be told before the channel it waits on
\* is closed.
Awaited(s, j) ==
  \/ result[j] # "none"
  \/ j \in dropped[s]
  \/ j \in running /\ s \in waiters[j] /\ mark[j] = {"stopped"}
  \/ \E t \in tails : t.job = j /\ t.todo = "done" /\ s \in t.waiters

StopInv ==
  \A s \in Stoppers :
    /\ caller[s].pc = "stopping" => \A j \in taken[s] \ recalled[s] : Awaited(s, j)
    /\ caller[s].pc = "returned" => \A j \in taken[s] \ recalled[s] : result[j] # "none"

\* What a stopped pair or a closed lane still holds was there when it was stopped.
OutInv ==
  \A s \in Stoppers :
    /\ caller[s].kind = "pair" =>
         /\ caller[s].scope \in stoppedPairs
         /\ caller[s].pc \in {"stopping", "returned"} =>
              Held \cap Under(caller[s].scope) \subseteq taken[s]
    /\ caller[s].kind = "close" =>
         /\ closed /\ caller[s].scope = Paths
         /\ caller[s].pc \in {"stopping", "returned"} => queue = {} /\ parked = {}
         /\ caller[s].pc = "returned" => running = {} /\ tails = {}

\* A step that starts no stop: stoppers' jobs stay awaited, or are marked again.
LEMMA StopKeeps ==
  ASSUME StopInv, UNCHANGED << caller, taken >>,
         \A s \in Stoppers : recalled[s] \subseteq recalled'[s],
         \A s \in Stoppers : \A j \in taken[s] :
           /\ result[j] # "none" => result'[j] # "none"
           /\ Awaited(s, j) => Awaited(s, j)' \/ j \in recalled'[s]
  PROVE  StopInv'
  BY DEF StopInv

\* A step that adds no job, in a lane whose stopped pairs stay stopped.
LEMMA OutKeeps ==
  ASSUME OutInv, UNCHANGED << caller, taken, stoppedPairs >>,
         Held' \subseteq Held, closed => closed',
         closed /\ queue = {} /\ parked = {} =>
           /\ queue' = {} /\ parked' = {}
           /\ running = {} /\ tails = {} => running' = {} /\ tails' = {}
  PROVE  OutInv'
  BY DEF OutInv

LEMMA StopNext == TypeOK /\ StopInv /\ [Next]_vars => StopInv'
<1> SUFFICES ASSUME TypeOK, StopInv, [Next]_vars PROVE StopInv'
  OBVIOUS
<1> USE DEF Awaited
<1>1. ASSUME NEW j \in Jobs, Add(j) PROVE StopInv'
  <2>1. PICK o, S \in SUBSET (queue \cup {j}) :
          /\ running' = running \cup S
          /\ mark' = [k \in Jobs |-> IF k \in running THEN mark[k] ELSE {}]
    BY <1>1, Zenon DEF Add, Dispatch, Starts
  <2> QED
    BY <1>1, <2>1, StopKeeps DEF Add, goVars, stopVars, TypeOK
<1>2. ASSUME NEW j \in Jobs, First(j) \/ UnparkFind(j) PROVE StopInv'
  BY <1>2, StopKeeps DEF First, UnparkFind, laneVars, jobVars, goVars, stopVars
<1>3. ASSUME NEW j \in Jobs, NEW t \in Untils, Park(j, t) PROVE StopInv'
  <2>1. CASE ParkWaiting(j, t) \/ ParkAgain(j, t)
    BY <2>1, StopKeeps DEF ParkWaiting, ParkAgain, Arm, laneVars, jobVars, goVars, stopVars
  <2>2. CASE ParkRunning(j, t)
    <3>1. /\ UNCHANGED << caller, taken, result, dropped, running, waiters, tails >>
          /\ mark' = [mark EXCEPT ![j] = @ \cup {"parking"}]
          /\ recalled' = [s \in Stoppers |-> recalled[s] \cup {k \in {j} : s \in waiters[k]}]
      BY <2>2 DEF ParkRunning, Recall, laneVars, goVars
    <3>2. \A s \in Stoppers : \A k \in taken[s] :
            Awaited(s, k) => Awaited(s, k)' \/ k \in recalled'[s]
      BY <3>1 DEF TypeOK
    <3> QED
      BY <3>1, <3>2, StopKeeps
  <2> QED
    BY <1>3, <2>1, <2>2 DEF Park
<1>4. ASSUME NEW scope \in Asked, Prefer(scope) \/ FirstUnder(scope) PROVE StopInv'
  BY <1>4, StopKeeps DEF Prefer, FirstUnder, laneVars, jobVars, goVars, stopVars
<1>5. ASSUME Pause PROVE StopInv'
  <2>1. /\ UNCHANGED << caller, taken, result, dropped, running, waiters, tails >>
        /\ recalled' = [s \in Stoppers |-> recalled[s] \cup {k \in running : s \in waiters[k]}]
    BY <1>5 DEF Pause, Recall, goVars
  <2> QED
    BY <2>1, StopKeeps
<1>6. ASSUME Resume PROVE StopInv'
  <2>1. PICK S \in SUBSET queue :
          /\ running' = running \cup S
          /\ mark' = [k \in Jobs |-> IF k \in running THEN mark[k] ELSE {}]
    BY <1>6 DEF Resume, Dispatch, Starts
  <2> QED
    BY <1>6, <2>1, StopKeeps DEF Resume, goVars, stopVars, TypeOK
<1>7. ASSUME NEW pk \in Pairs, AllowPair(pk) PROVE StopInv'
  <2>1. \A s \in Stoppers : caller'[s].pc = caller[s].pc
    BY <1>7 DEF AllowPair
  <2>2. UNCHANGED << taken, recalled, result, dropped, running, waiters, mark, tails >>
    BY <1>7 DEF AllowPair, jobVars, goVars
  <2> QED
    BY <2>1, <2>2 DEF StopInv
<1>8. ASSUME NEW s \in Stoppers, \/ CloseMark(s) \/ CallerDone(s)
                                 \/ \E pk \in Pairs : StopPairMark(s, pk)
      PROVE StopInv'
  <2>1. /\ \A r \in Stoppers \ {s} : UNCHANGED << caller[r], taken[r], recalled[r] >>
        /\ caller'[s].pc \in {"idle", "marked"}
        /\ UNCHANGED << result, dropped, running, waiters, mark, tails >>
    BY <1>8 DEF CloseMark, CallerDone, StopPairMark, Idle, jobVars, goVars, laneVars, TypeOK
  <2> QED
    BY <2>1 DEF StopInv
<1>9. ASSUME NEW s \in Stoppers, NEW scope \in SUBSET Paths,
             NEW kind \in {"stop", "pair", "close"}, Stop(s, scope, kind)
      PROVE StopInv'
  <2>1. /\ caller'[s].pc = "stopping" /\ recalled'[s] = {}
        /\ taken'[s] = Held \cap Under(scope)
        /\ dropped'[s] = (queue \cup parked) \cap Under(scope)
    BY <1>9 DEF Stop, TypeOK
  <2>2. \A r \in Stoppers \ {s} :
          UNCHANGED << caller[r], taken[r], recalled[r], dropped[r] >>
    BY <1>9 DEF Stop, TypeOK
  <2>3. UNCHANGED << running, result, tails >>
    BY <1>9 DEF Stop, goVars
  <2>4. \A k \in running \cap Under(scope) :
          mark'[k] = {"stopped"} /\ waiters'[k] = waiters[k] \cup {s}
    BY <1>9 DEF Stop, StopMark, TypeOK
  <2>5. \A k \in Jobs : k \notin running \cap Under(scope) =>
          mark'[k] = mark[k] /\ waiters'[k] = waiters[k]
    BY <1>9 DEF Stop
  <2>6. \A k \in taken'[s] : Awaited(s, k)'
    BY <2>1, <2>3, <2>4 DEF Held
  <2>7. \A r \in Stoppers \ {s} : \A k \in taken[r] : Awaited(r, k) => Awaited(r, k)'
    BY <2>2, <2>3, <2>4, <2>5 DEF TypeOK
  <2> QED
    BY <2>1, <2>2, <2>3, <2>6, <2>7 DEF StopInv
<1>10. ASSUME NEW s \in Stoppers, NEW scope \in Scopes, StopScope(s, scope) PROVE StopInv'
  BY <1>10, <1>9 DEF StopScope
<1>11. ASSUME NEW s \in Stoppers, StopMarked(s) PROVE StopInv'
  BY <1>11, <1>9 DEF StopMarked
<1>12. ASSUME NEW s \in Stoppers, StopReturn(s) PROVE StopInv'
  <2>1. /\ caller[s].pc = "stopping" /\ dropped[s] = {}
        /\ \A j \in Jobs : s \notin waiters[j]
        /\ \A t \in tails : s \notin t.waiters
    BY <1>12 DEF StopReturn
  <2>2. \A j \in taken[s] \ recalled[s] : result[j] # "none"
    BY <2>1 DEF StopInv, TypeOK
  <2>3. /\ \A r \in Stoppers \ {s} : caller'[r] = caller[r]
        /\ caller'[s].pc = "returned"
        /\ UNCHANGED << taken, recalled, result, dropped, running, waiters, mark, tails >>
    BY <1>12 DEF StopReturn, jobVars, goVars, laneVars, TypeOK
  <2> QED
    BY <2>2, <2>3 DEF StopInv
<1>13. ASSUME NEW s \in Stoppers, NEW j \in Jobs, StopTell(s, j) PROVE StopInv'
  <2>1. /\ result' = [result EXCEPT ![j] = "stopped"]
        /\ dropped' = [dropped EXCEPT ![s] = @ \ {j}]
        /\ UNCHANGED << caller, taken, recalled, running, waiters, mark, tails >>
    BY <1>13 DEF StopTell, laneVars, jobVars, goVars
  <2> QED
    BY <2>1, StopKeeps DEF TypeOK
<1>14. ASSUME NEW j \in Jobs, Return(j) PROVE StopInv'
  <2>1. PICK t : /\ tails' = tails \cup {t} /\ t.job = j /\ t.waiters = waiters[j]
                 /\ mark[j] = {"stopped"} => t.todo = "done"
    <3>1. PICK todo \in {"done", "close"}, told \in Results \cup {"none"} :
            /\ tails' = tails \cup {[job |-> j, todo |-> todo, err |-> told,
                                     waiters |-> waiters[j]]}
            /\ mark[j] = {"stopped"} => todo = "done"
      BY <1>14 DEF Return, Kept, Results
    <3> DEFINE t == [job |-> j, todo |-> todo, err |-> told, waiters |-> waiters[j]]
    <3>2. t.job = j /\ t.waiters = waiters[j] /\ t.todo = todo
      OBVIOUS
    <3>3. tails' = tails \cup {t}
      BY <3>1
    <3> HIDE DEF t
    <3> QED
      BY <3>1, <3>2, <3>3
  <2>4. PICK b \in BOOLEAN : Dispatch(IF b THEN queue \cup {j} ELSE queue,
                                      IF b THEN ToFront(j, queue, order) ELSE order,
                                      running \ {j})
    BY <1>14 DEF Return
  <2>5. PICK S : /\ running' = (running \ {j}) \cup S
                 /\ mark' = [k \in Jobs |-> IF k \in running \ {j} THEN mark[k] ELSE {}]
    BY <2>4 DEF Dispatch
  <2>2. /\ waiters' = [waiters EXCEPT ![j] = {}]
        /\ UNCHANGED << caller, taken, recalled, dropped, result >>
    BY <1>14 DEF Return, stopVars
  <2>3. ASSUME NEW s \in Stoppers, NEW k \in taken[s], Awaited(s, k) PROVE Awaited(s, k)'
    <3>1. k \in Jobs
      BY DEF TypeOK
    <3>2. CASE k \in running /\ s \in waiters[k] /\ mark[k] = {"stopped"} /\ k # j
      BY <3>1, <3>2, <2>5, <2>2 DEF TypeOK
    <3>3. CASE s \in waiters[k] /\ mark[k] = {"stopped"} /\ k = j
      BY <3>3, <2>1
    <3> QED
      BY <2>1, <2>2, <2>3, <3>2, <3>3
  <2> QED
    BY <2>2, <2>3, StopKeeps
<1>15. ASSUME NEW j \in Jobs, \/ Unpark(j) \/ TimerFires(j) \/ TellUnparked(j)
                              \/ \E gen \in {"current", "stale"} : TimerUnpark(j, gen)
       PROVE StopInv'
  <2>1. /\ UNCHANGED << caller, taken, recalled, dropped, running, waiters, mark, tails >>
        /\ result' = result \/ result' = [result EXCEPT ![j] = "unparked"]
    BY <1>15 DEF Unpark, TimerFires, TellUnparked, TimerUnpark, laneVars, jobVars, goVars,
                 stopVars
  <2> QED
    BY <2>1, StopKeeps DEF TypeOK
<1>16. ASSUME NEW t \in tails, FinishTail(t) PROVE StopInv'
  <2>1. /\ tails' = (tails \ {t}) \cup Rest(t)
        /\ result' = IF t.todo = "done" THEN [result EXCEPT ![t.job] = t.err] ELSE result
        /\ UNCHANGED << caller, taken, recalled, dropped, running, waiters, mark >>
    BY <1>16 DEF FinishTail, Due, laneVars, jobVars, stopVars
  <2>2. t.todo = "done" => t.err # "none" /\ t.job \in Jobs
    BY DEF TypeOK, ExecTail, Results
  <2>3. \A k \in Jobs : result[k] # "none" => result'[k] # "none"
    BY <2>1, <2>2 DEF TypeOK
  <2>4. ASSUME NEW s \in Stoppers, NEW k \in taken[s], Awaited(s, k) PROVE Awaited(s, k)'
    <3>1. CASE \E u \in tails : u.job = k /\ u.todo = "done" /\ s \in u.waiters
      <4>1. PICK u \in tails : u.job = k /\ u.todo = "done" /\ s \in u.waiters
        BY <3>1
      <4>2. CASE u = t
        BY <4>1, <4>2, <2>1, <2>2 DEF TypeOK
      <4>3. CASE u # t
        BY <4>1, <4>3, <2>1
      <4> QED
        BY <4>2, <4>3
    <3> QED
      BY <2>1, <2>3, <2>4, <3>1 DEF TypeOK
  <2> QED
    BY <2>1, <2>3, <2>4, StopKeeps DEF TypeOK
<1>17. ASSUME PreferExpires \/ UNCHANGED vars PROVE StopInv'
  BY <1>17, StopKeeps DEF PreferExpires, vars, laneVars, jobVars, goVars, stopVars
<1> QED
  BY <1>1, <1>2, <1>3, <1>4, <1>5, <1>6, <1>7, <1>8, <1>10, <1>11, <1>12, <1>13, <1>14,
     <1>15, <1>16, <1>17 DEF Next, Request, Progress

\* Only Add brings a job into the lane.
LEMMA DispatchHeld ==
  ASSUME NEW Q, NEW o, NEW R, Dispatch(Q, o, R)
  PROVE  queue' \cup running' = Q \cup R
  BY DEF Dispatch, Starts

LEMMA OutNext == TypeOK /\ OutInv /\ [Next]_vars => OutInv'
<1> SUFFICES ASSUME TypeOK, OutInv, [Next]_vars PROVE OutInv'
  OBVIOUS
<1>1. ASSUME NEW j \in Jobs, Add(j) PROVE OutInv'
  <2>1. Held' = Held \cup {j}
    <3>1. PICK o : Dispatch(queue \cup {j}, o, running)
      BY <1>1, Zenon DEF Add
    <3>2. queue' \cup running' = queue \cup {j} \cup running
      BY <3>1, DispatchHeld
    <3>3. parked' = parked
      BY <1>1 DEF Add
    <3> QED
      BY <3>2, <3>3 DEF Held
  <2>2. /\ ~closed /\ UNCHANGED << caller, taken, stoppedPairs >>
        /\ \A pk \in stoppedPairs : PathOf[j] \notin pk
    BY <1>1 DEF Add, stopVars
  <2> QED
    BY <2>1, <2>2 DEF OutInv, Under
<1>2. ASSUME NEW j \in Jobs, First(j) \/ UnparkFind(j) PROVE OutInv'
  BY <1>2, OutKeeps DEF First, UnparkFind, laneVars, jobVars, goVars, stopVars, Held
<1>3. ASSUME NEW j \in Jobs, NEW t \in Untils, Park(j, t) PROVE OutInv'
  BY <1>3, OutKeeps DEF Park, ParkWaiting, ParkRunning, ParkAgain, laneVars, goVars, stopVars,
                        Held
<1>4. ASSUME NEW scope \in Asked, Prefer(scope) \/ FirstUnder(scope) PROVE OutInv'
  BY <1>4, OutKeeps DEF Prefer, FirstUnder, laneVars, jobVars, goVars, stopVars, Held
<1>5. ASSUME Pause \/ PreferExpires \/ UNCHANGED vars PROVE OutInv'
  BY <1>5, OutKeeps DEF Pause, PreferExpires, vars, laneVars, jobVars, goVars, stopVars, Held
<1>6. ASSUME Resume PROVE OutInv'
  <2>1. Held' = Held
    BY <1>6, DispatchHeld DEF Resume, Held
  <2>2. closed /\ queue = {} => queue' = {} /\ running' = running
    BY <1>6 DEF Resume, Dispatch, Starts
  <2> QED
    BY <1>6, <2>1, <2>2, OutKeeps DEF Resume, goVars, stopVars
<1>7. ASSUME NEW pk \in Pairs, AllowPair(pk) PROVE OutInv'
  <2>1. \A s \in Stoppers :
          /\ caller'[s].kind = "pair" => caller[s].kind = "pair" /\ caller[s].scope # pk
          /\ caller'[s].kind # "stop" => caller'[s] = caller[s]
    BY <1>7 DEF AllowPair
  <2>2. /\ UNCHANGED << queue, running, parked, closed, tails, taken >>
        /\ stoppedPairs' = stoppedPairs \ {pk}
    BY <1>7 DEF AllowPair, goVars
  <2> QED
    BY <2>1, <2>2 DEF OutInv, Held
<1>8. ASSUME NEW s \in Stoppers, NEW pk \in Pairs, StopPairMark(s, pk) PROVE OutInv'
  <2>1. /\ \A r \in Stoppers \ {s} : caller'[r] = caller[r]
        /\ caller'[s] = [pc |-> "marked", scope |-> pk, kind |-> "pair"]
        /\ stoppedPairs' = stoppedPairs \cup {pk}
        /\ UNCHANGED << queue, running, parked, closed, tails, taken >>
    BY <1>8 DEF StopPairMark, goVars, TypeOK
  <2> QED
    BY <2>1 DEF OutInv, Held
<1>9. ASSUME NEW s \in Stoppers, CloseMark(s) PROVE OutInv'
  <2>1. /\ \A r \in Stoppers \ {s} : caller'[r] = caller[r]
        /\ caller'[s] = [pc |-> "marked", scope |-> Paths, kind |-> "close"]
        /\ closed'
        /\ UNCHANGED << queue, running, parked, stoppedPairs, tails, taken >>
    BY <1>9 DEF CloseMark, goVars, TypeOK
  <2> QED
    BY <2>1 DEF OutInv, Held
<1>10. ASSUME NEW s \in Stoppers, CallerDone(s) PROVE OutInv'
  <2>1. /\ \A r \in Stoppers \ {s} : caller'[r] = caller[r] /\ taken'[r] = taken[r]
        /\ caller'[s].kind = "stop"
        /\ UNCHANGED << queue, running, parked, closed, stoppedPairs, tails >>
    BY <1>10 DEF CallerDone, Idle, laneVars, goVars, TypeOK
  <2> QED
    BY <2>1 DEF OutInv, Held
<1>11. ASSUME NEW s \in Stoppers, NEW scope \in SUBSET Paths,
              NEW kind \in {"stop", "pair", "close"}, Stop(s, scope, kind),
              kind = "pair" => scope \in stoppedPairs,
              kind = "close" => closed /\ scope = Paths
       PROVE OutInv'
  <2>1. /\ caller'[s] = [pc |-> "stopping", scope |-> scope, kind |-> kind]
        /\ taken'[s] = Held \cap Under(scope)
    BY <1>11 DEF Stop, TypeOK
  <2>2. \A r \in Stoppers \ {s} : caller'[r] = caller[r] /\ taken'[r] = taken[r]
    BY <1>11 DEF Stop, TypeOK
  <2>3. /\ queue' = queue \ Under(scope) /\ parked' = parked \ Under(scope)
        /\ UNCHANGED << running, closed, stoppedPairs, tails >>
    BY <1>11 DEF Stop, goVars
  <2>4. scope = Paths => queue' = {} /\ parked' = {}
    BY <2>3 DEF Under, TypeOK
  <2>5. Held' \subseteq Held
    BY <2>3 DEF Held
  <2>6. \A r \in Stoppers \ {s} :
          /\ caller'[r].kind = "pair" =>
               /\ caller'[r].scope \in stoppedPairs'
               /\ caller'[r].pc \in {"stopping", "returned"} =>
                    Held' \cap Under(caller'[r].scope) \subseteq taken'[r]
          /\ caller'[r].kind = "close" =>
               /\ closed' /\ caller'[r].scope = Paths
               /\ caller'[r].pc \in {"stopping", "returned"} => queue' = {} /\ parked' = {}
               /\ caller'[r].pc = "returned" => running' = {} /\ tails' = {}
    BY <2>2, <2>3, <2>5 DEF OutInv
  <2>7. /\ kind = "pair" => Held' \cap Under(scope) \subseteq taken'[s]
        /\ kind = "close" => queue' = {} /\ parked' = {}
    BY <1>11, <2>1, <2>4, <2>5
  <2> QED
    BY <1>11, <2>1, <2>3, <2>6, <2>7 DEF OutInv
<1>12. ASSUME NEW s \in Stoppers, NEW scope \in Scopes, StopScope(s, scope) PROVE OutInv'
  BY <1>12, <1>11 DEF StopScope
<1>13. ASSUME NEW s \in Stoppers, StopMarked(s) PROVE OutInv'
  <2>1. PICK scope \in Pairs \cup {Paths}, kind \in {"stop", "pair", "close"} :
          /\ caller[s] = [pc |-> "marked", scope |-> scope, kind |-> kind]
          /\ Stop(s, scope, kind)
    BY <1>13 DEF StopMarked
  <2>2. /\ kind = "pair" => scope \in stoppedPairs
        /\ kind = "close" => closed /\ scope = Paths
    BY <2>1 DEF OutInv
  <2> QED
    BY <2>1, <2>2, <1>11
<1>14. ASSUME NEW s \in Stoppers, StopReturn(s) PROVE OutInv'
  <2>1. /\ \A r \in Stoppers \ {s} : caller'[r] = caller[r]
        /\ caller[s].pc = "stopping"
        /\ caller'[s] = [pc |-> "returned", scope |-> caller[s].scope, kind |-> caller[s].kind]
        /\ caller[s].kind = "close" => running = {} /\ tails = {}
        /\ UNCHANGED << queue, running, parked, closed, stoppedPairs, tails, taken >>
    BY <1>14 DEF StopReturn, laneVars, goVars, TypeOK
  <2> QED
    BY <2>1 DEF OutInv, Held
<1>15. ASSUME NEW j \in Jobs, Return(j) PROVE OutInv'
  <2>1. PICK back \in BOOLEAN, park \in BOOLEAN :
          /\ Dispatch(IF back THEN queue \cup {j} ELSE queue,
                      IF back THEN ToFront(j, queue, order) ELSE order, running \ {j})
          /\ parked' = IF park THEN parked \cup {j} ELSE parked
          /\ closed => ~back /\ ~park
    BY <1>15 DEF Return, Kept
  <2>2. Held' \subseteq Held
    BY <1>15, <2>1, DispatchHeld DEF Held, Return
  <2>3. closed /\ queue = {} => queue' = {}
    BY <2>1 DEF Dispatch, Starts
  <2> QED
    BY <1>15, <2>1, <2>2, <2>3, OutKeeps DEF Return, stopVars
<1>16. ASSUME NEW j \in Jobs, \/ Unpark(j) \/ TimerFires(j) \/ TellUnparked(j)
                              \/ \E gen \in {"current", "stale"} : TimerUnpark(j, gen)
       PROVE OutInv'
  <2>1. /\ UNCHANGED << queue, running, closed, stoppedPairs, tails, caller, taken >>
        /\ parked' \subseteq parked
    BY <1>16 DEF Unpark, TimerFires, TellUnparked, TimerUnpark, UnparkJob, laneVars, goVars,
                 stopVars
  <2> QED
    BY <2>1, OutKeeps DEF Held
<1>17. ASSUME NEW s \in Stoppers, NEW j \in Jobs, StopTell(s, j) PROVE OutInv'
  BY <1>17, OutKeeps DEF StopTell, laneVars, goVars, Held
<1>18. ASSUME NEW t \in tails, FinishTail(t) PROVE OutInv'
  <2>1. tails # {}
    BY <1>18
  <2> QED
    BY <1>18, <2>1, OutKeeps DEF FinishTail, laneVars, stopVars, Held
<1> QED
  BY <1>1, <1>2, <1>3, <1>4, <1>5, <1>6, <1>7, <1>8, <1>9, <1>10, <1>12, <1>13, <1>14,
     <1>15, <1>16, <1>17, <1>18 DEF Next, Request, Progress

\* What stop matched is gone from the lane and told when stop returns.
THEOREM StopTookTheRestAlways == Spec => []StopTookTheRest
<1>1. Init => StopInv
  BY DEF Init, StopInv, Idle
<1>2. IInv /\ StopInv => StopTookTheRest
  BY DEF IInv, OnePlace, StopInv, StopTookTheRest, TypeOK
<1>3. IInv => TypeOK
  BY DEF IInv
<1> QED
  BY PlaceInit, PlaceNext, StopNext, <1>1, <1>2, <1>3, PTL DEF Spec

\* When stopPair has returned, the jobs of its pair are out of the lane until the pair is
\* allowed again, but for those the stop found running that a pause or a set-aside marked
\* anew before they ended: exec puts these back (lane.go).  Of a closed lane nothing is
\* left, without exception.
THEOREM StaysOutAlways == Spec => []StaysOut
<1>1. Init => StopInv /\ OutInv
  BY DEF Init, StopInv, OutInv, Idle
<1>2. IInv /\ StopInv /\ OutInv => StaysOut
  <2> SUFFICES ASSUME IInv, StopInv, OutInv PROVE StaysOut
    OBVIOUS
  <2>1. StoppedPairIsOut
    BY DEF IInv, OnePlace, StopInv, OutInv, StoppedPairIsOut, TypeOK
  <2>2. CloseEmpties
    BY DEF OutInv, CloseEmpties, Held
  <2> QED
    BY <2>1, <2>2 DEF StaysOut
<1>3. IInv => TypeOK
  BY DEF IInv
<1> QED
  BY PlaceInit, PlaceNext, StopNext, OutNext, <1>1, <1>2, <1>3, PTL DEF Spec
=============================================================================
