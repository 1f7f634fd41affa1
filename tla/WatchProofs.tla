---------------------------- MODULE WatchProofs ----------------------------
(***************************************************************************)
(* Proofs about Watch: whatever the files, the size of the channel, the    *)
(* backoff and what happens in the world.                                  *)
(***************************************************************************)
EXTENDS Watch, TLAPS, FiniteSetTheorems

\* While the loop waits nothing is being looked at; a pass looks at what it covers.
LooksAtItsOwn == (Selecting => seen = {}) /\ seen \subseteq pass.scope

\* Between the user's request and the pass that tries it, only a pass of local
\* changes may run, and no backoff is in force.
AskedComesFirst == asked => ~holding /\ pass.why \in {"none", "change"}

-----------------------------------------------------------------------------
(* Type correctness *)

LEMMA PassType ==
  ASSUME TypeOK, NEW why \in Whys, NEW scope \in SUBSET Paths, NEW push \in BOOLEAN,
         Pass(why, scope, push)
  PROVE  /\ pass' \in [why: Whys, scope: SUBSET Paths, push: BOOLEAN, skip: BOOLEAN]
         /\ seen' \subseteq Paths /\ asked' \in BOOLEAN
         /\ news' \in {"none", "new", "read"}
  BY DEF Pass, TypeOK

LEMMA ContinueType ==
  ASSUME TypeOK, NEW after \in {"none", "new", "read"}, Continue(after)
  PROVE  /\ pass' \in [why: Whys, scope: SUBSET Paths, push: BOOLEAN, skip: BOOLEAN]
         /\ seen' \subseteq Paths /\ asked' \in BOOLEAN
         /\ news' \in {"none", "new", "read"}
<1>1. CASE Pass("push", {}, FALSE)
  BY <1>1, PassType DEF Whys
<1>2. CASE pass' = Idle /\ seen' = {} /\ news' = after /\ UNCHANGED asked
  BY <1>2 DEF Idle, Whys, TypeOK
<1> QED
  BY <1>1, <1>2 DEF Continue

LEMMA TypeInit == Init => TypeOK
<1> SUFFICES ASSUME Init PROVE TypeOK
  OBVIOUS
<1>1. CountsOK
  BY WatchAssumption, FS_EmptySet DEF Init, CountsOK, WatchAssumption
<1> QED
  BY <1>1 DEF Init, TypeOK, Whys

\* The channel is never fuller than it may be, and the failures are counted up to a bound.
LEMMA CountsNext == TypeOK /\ [Next]_vars => CountsOK'
<1> SUFFICES ASSUME TypeOK, [Next]_vars PROVE CountsOK'
  OBVIOUS
<1> USE WatchAssumption DEF CountsOK, WatchAssumption
<1>1. \/ UNCHANGED events
      \/ events' = {} \/ \E e \in Signals : events' = events \ {e}
      \/ Cardinality(events') <= EventsMax
  BY DEF Next, World, Loop, PassEnds, Edit, Overflow, Report, ReportOverflow, ServerChange, AskUser,
         AskFull, Pause, Resume, Take, TakeNudge, Retry, TakeExternal, TakeUser, TakeFull, Fire,
         Poll, DebounceElapses, HoldElapses, FullElapses, PassOk, PassSkipped, PassFails,
         AwaitNudges, AwaitEnds, Restart, vars, chans
<1>2. \/ UNCHANGED failStreak
      \/ failStreak' = 0 \/ failStreak' = IF failStreak < FailMax THEN failStreak + 1 ELSE failStreak
  BY DEF Next, World, Loop, PassEnds, Edit, Overflow, Report, ReportOverflow, ServerChange, AskUser,
         AskFull, Pause, Resume, Take, TakeNudge, Retry, TakeExternal, TakeUser, TakeFull, Fire,
         Poll, DebounceElapses, HoldElapses, FullElapses, PassOk, PassSkipped, PassFails, Lift,
         ChangeFails, RemoteFails, Note, AwaitNudges, AwaitEnds, Restart, vars, timers
<1>3. IsFiniteSet(events) /\ Cardinality(events) \in Nat /\ Cardinality(events) <= EventsMax
  <2>1. IsFiniteSet(Signals)
    BY FS_Union, FS_Singleton DEF Signals
  <2> QED
    BY <2>1, FS_Subset, FS_CardinalityType DEF TypeOK
<1>4. Cardinality(events') <= EventsMax
  <2>1. ASSUME NEW e \in Signals PROVE Cardinality(events \ {e}) <= Cardinality(events)
                                       /\ Cardinality(events \ {e}) \in Nat
    BY <1>3, FS_Subset, FS_CardinalityType
  <2>2. Cardinality({}) = 0
    BY FS_EmptySet
  <2> QED
    BY <1>1, <1>3, <2>1, <2>2
<1> QED
  BY <1>2, <1>4 DEF TypeOK

LEMMA TypeNext == TypeOK /\ [Next]_vars => TypeOK'
<1> SUFFICES ASSUME TypeOK, [Next]_vars PROVE TypeOK'
  OBVIOUS
<1>0. CountsOK'
  BY CountsNext
<1> USE <1>0 DEF TypeOK
<1>1. ASSUME NEW p \in Paths, Edit(p) PROVE TypeOK'
  BY <1>1 DEF Edit, chans, window, timers, busyV
<1>2. ASSUME Overflow PROVE TypeOK'
  BY <1>2 DEF Overflow, chans, window, timers, busyV
<1>3. ASSUME NEW p \in Paths, Report(p) PROVE TypeOK'
  BY <1>3 DEF Report, Signals, window, timers, busyV
<1>4. ASSUME ReportOverflow PROVE TypeOK'
  <2>1. events' \subseteq Signals /\ overflown' \in BOOLEAN
    BY <1>4 DEF ReportOverflow, Signals
  <2>2. UNCHANGED << dirty, news, unread, nudge, external, userSync, fullSync, window,
                     timers, pass, seen, busyV, left, asked >>
    BY <1>4 DEF ReportOverflow
  <2> QED
    BY <2>1, <2>2 DEF window, timers, busyV
<1>5. ASSUME ServerChange PROVE TypeOK'
  <2>1. external' \in BOOLEAN /\ news' \in {"none", "new", "read"}
    BY <1>5 DEF ServerChange
  <2>2. UNCHANGED << dirty, unread, overflown, events, nudge, userSync, fullSync, window,
                     timers, pass, seen, busyV, left, asked >>
    BY <1>5 DEF ServerChange
  <2> QED
    BY <2>1, <2>2 DEF window, timers, busyV
<1>20. ASSUME AskUser \/ AskFull PROVE TypeOK'
  <2>1. userSync' \in BOOLEAN /\ fullSync' \in BOOLEAN
    BY <1>20 DEF AskUser, AskFull
  <2>2. UNCHANGED << local, events, nudge, external, window, timers, pass, seen, busyV, left,
                     asked >>
    BY <1>20 DEF AskUser, AskFull
  <2> QED
    BY <2>1, <2>2 DEF window, timers, busyV, local
<1>19. ASSUME Pause \/ Resume PROVE TypeOK'
  <2>1. paused' \in BOOLEAN /\ external' \in BOOLEAN
    BY <1>19 DEF Pause, Resume, chans
  <2>2. UNCHANGED << local, events, nudge, userSync, fullSync, window, timers, pass, seen,
                     awaiter, left, asked >>
    BY <1>19 DEF Pause, Resume, chans
  <2> QED
    BY <2>1, <2>2 DEF local, window, timers
<1>6. ASSUME NEW e \in Signals, Take(e) PROVE TypeOK'
  BY <1>6 DEF Take, Rearm, Signals, local, timers, busyV
<1>7. ASSUME NEW p \in Paths, TakeNudge(p) PROVE TypeOK'
  BY <1>7 DEF TakeNudge, Rearm, local, timers, busyV
<1>8. ASSUME Retry \/ TakeExternal \/ TakeFull PROVE TypeOK'
  <2>1. /\ retry' \in BOOLEAN /\ external' \in BOOLEAN /\ fullSync' \in BOOLEAN
        /\ pushed' \in BOOLEAN /\ forceFull' \in BOOLEAN
    BY <1>8 DEF Retry, TakeExternal, TakeFull, chans, timers
  <2>2. /\ changed' \subseteq Paths /\ retryPaths' \subseteq Paths
        /\ debounce' \in {"armed", "again"}
    BY <1>8 DEF Retry, TakeExternal, TakeFull, Rearm, timers
  <2>3. UNCHANGED << local, events, nudge, userSync, failStreak, holding, fullDue, pass, seen,
                     busyV, left, asked >>
    BY <1>8 DEF Retry, TakeExternal, TakeFull, chans, timers
  <2> QED
    BY <2>1, <2>2, <2>3 DEF local, busyV
<1>9. ASSUME TakeUser PROVE TypeOK'
  BY <1>9 DEF TakeUser, Lift, Rearm, local, busyV
<1>10. ASSUME Fire PROVE TypeOK'
  <2>1. /\ pass' \in [why: Whys, scope: SUBSET Paths, push: BOOLEAN, skip: BOOLEAN]
        /\ seen' \subseteq Paths /\ asked' \in BOOLEAN
        /\ news' \in {"none", "new", "read"} /\ forceFull' \in BOOLEAN
    <3>1. CASE FireFull
      BY <3>1, PassType DEF FireFull, Whys
    <3>2. CASE FireChange
      BY <3>2, PassType DEF FireChange, Whys
    <3>3. CASE FirePush
      BY <3>3, PassType DEF FirePush, Whys
    <3> QED
      BY <1>10, <3>1, <3>2, <3>3 DEF Fire
  <2> QED
    BY <1>10, <2>1 DEF Fire, ClearWindow, chans, timers, busyV
<1>11. ASSUME Poll PROVE TypeOK'
  <2>1. /\ pass' \in [why: Whys, scope: SUBSET Paths, push: BOOLEAN, skip: BOOLEAN]
        /\ seen' \subseteq Paths /\ asked' \in BOOLEAN
        /\ news' \in {"none", "new", "read"}
    BY <1>11, PassType DEF Poll, Whys
  <2> QED
    BY <1>11, <2>1 DEF Poll, chans, window, timers, busyV
<1>12. ASSUME \/ HoldElapses \/ FullElapses
              \/ \E run \in {"armed", "again"} : DebounceElapses(run)
       PROVE TypeOK'
  <2>1. holding' \in BOOLEAN /\ fullDue' \in BOOLEAN
    BY <1>12 DEF HoldElapses, FullElapses, DebounceElapses, timers
  <2>2. debounce' \in {"off", "armed", "again", "due"}
    BY <1>12 DEF HoldElapses, FullElapses, DebounceElapses, window
  <2>3. UNCHANGED << local, chans, changed, pushed, forceFull, retry, retryPaths, pass, seen,
                     busyV, left, asked >>
    BY <1>12 DEF HoldElapses, FullElapses, DebounceElapses, window, timers
  <2> QED
    BY <2>1, <2>2, <2>3 DEF local, chans, busyV
<1>13. ASSUME PassOk PROVE TypeOK'
  <2>1. PICK P \in SUBSET (seen \cap dirty \cap Busy) :
          /\ dirty' = dirty \ (seen \ P) /\ AwaitClosed(P)
          /\ left' = (left \ (seen \ P)) \cup {p \in P : awaiter[p] = "nudged"}
    BY <1>13 DEF PassOk
  <2>2. /\ pass' \in [why: Whys, scope: SUBSET Paths, push: BOOLEAN, skip: BOOLEAN]
        /\ seen' \subseteq Paths /\ asked' \in BOOLEAN
        /\ news' \in {"none", "new", "read"}
    BY <1>13, ContinueType DEF PassOk
  <2>3. awaiter' \in [Paths -> {"none", "waiting", "nudged"}]
    BY <2>1 DEF AwaitClosed
  <2>4. holding' \in BOOLEAN /\ fullDue' \in BOOLEAN
    BY <1>13 DEF PassOk, Lift, FullCounted
  <2> QED
    BY <1>13, <2>1, <2>2, <2>3, <2>4 DEF PassOk, chans, window
<1>14. ASSUME PassSkipped PROVE TypeOK'
  <2>2. /\ pass' \in [why: Whys, scope: SUBSET Paths, push: BOOLEAN, skip: BOOLEAN]
        /\ seen' \subseteq Paths /\ asked' \in BOOLEAN
        /\ news' \in {"none", "new", "read"}
    BY <1>14, ContinueType DEF PassSkipped
  <2>4. holding' \in BOOLEAN /\ fullDue' \in BOOLEAN
    BY <1>14 DEF PassSkipped, Lift, FullCounted
  <2> QED
    BY <1>14, <2>2, <2>4 DEF PassSkipped, chans, window, busyV
<1>15. ASSUME PassFails PROVE TypeOK'
  <2>2. /\ pass' \in [why: Whys, scope: SUBSET Paths, push: BOOLEAN, skip: BOOLEAN]
        /\ seen' \subseteq Paths /\ asked' \in BOOLEAN
        /\ news' \in {"none", "new", "read"}
    BY <1>15, ContinueType DEF PassFails
  <2>3. dirty' \subseteq Paths
    BY <1>15 DEF PassFails
  <2>4. holding' \in BOOLEAN /\ fullDue' \in BOOLEAN
    <3>1. CASE ChangeFails
      BY <3>1 DEF ChangeFails
    <3>2. CASE RemoteFails
      <4>1. holding' = (Delay(failStreak + 1) > 0)
        BY <3>2 DEF RemoteFails, Note
      <4>2. fullDue' = (fullDue /\ pass.why \notin FullWhys)
        BY <3>2 DEF RemoteFails, FullCounted
      <4> QED
        BY <4>1, <4>2
    <3> QED
      BY <1>15, <3>1, <3>2 DEF PassFails
  <2>5. left' \subseteq Paths /\ retry' \in BOOLEAN /\ retryPaths' \subseteq Paths
    BY <1>15, <2>3 DEF PassFails, ChangeFails, RemoteFails
  <2> QED
    BY <1>15, <2>2, <2>3, <2>4, <2>5 DEF PassFails, chans, window, busyV
<1>16. ASSUME NEW p \in Paths, AwaitNudges(p) \/ AwaitEnds(p) PROVE TypeOK'
  BY <1>16 DEF AwaitNudges, AwaitEnds, local, chans, window, timers
<1>17. ASSUME Restart PROVE TypeOK'
  BY <1>17 DEF Restart, Whys
<1>18. ASSUME UNCHANGED vars PROVE TypeOK'
  BY <1>18 DEF vars, local, chans, window, timers, busyV
<1> QED
  BY <1>1, <1>2, <1>3, <1>4, <1>5, <1>6, <1>7, <1>8, <1>9, <1>10, <1>11, <1>12, <1>13, <1>14,
     <1>15, <1>16, <1>17, <1>18, <1>19, <1>20 DEF Next, World, Loop, PassEnds

\* The loop's variables stay within their types, for every set of files and every size.
THEOREM TypeCorrect == Spec => []TypeOK
  BY TypeInit, TypeNext, PTL DEF Spec

-----------------------------------------------------------------------------
(* A sync the user asked for *)

AskInv == AskedComesFirst /\ AskedIsTried

\* Where neither the request nor what carries it is touched.
LEMMA AskKeeps ==
  ASSUME AskInv, UNCHANGED << asked, pass >>, pushed => pushed', holding' => holding,
         debounce # "off" => debounce' # "off"
  PROVE  AskInv'
  BY DEF AskInv, AskedComesFirst, AskedIsTried

\* A pass that looks at the server answers the request.
LEMMA AskAnswered == ASSUME ~asked' PROVE AskInv'
  BY DEF AskInv, AskedComesFirst, AskedIsTried

LEMMA AskNext == TypeOK /\ AskInv /\ [Next]_vars => AskInv'
<1> SUFFICES ASSUME TypeOK, AskInv, [Next]_vars PROVE AskInv'
  OBVIOUS
<1>r. ASSUME NEW why \in RemoteWhys, NEW scope, NEW push, Pass(why, scope, push) PROVE ~asked'
  BY <1>r DEF Pass
<1>1. ASSUME NEW p \in Paths, Edit(p) \/ Report(p) \/ AwaitNudges(p) \/ AwaitEnds(p)
      PROVE AskInv'
  BY <1>1, AskKeeps DEF Edit, Report, AwaitNudges, AwaitEnds, window, timers
<1>2. ASSUME Overflow \/ ReportOverflow \/ ServerChange \/ AskUser \/ AskFull \/ Pause \/ Resume
      PROVE AskInv'
  <2>1. UNCHANGED << window, timers, pass, asked >>
    BY <1>2 DEF Overflow, ReportOverflow, ServerChange, AskUser, AskFull, Pause, Resume
  <2> QED
    BY <2>1, AskKeeps DEF window, timers
<1>3. ASSUME \/ \E e \in Signals : Take(e)
             \/ \E p \in Paths : TakeNudge(p)
             \/ Retry \/ TakeExternal \/ TakeFull
      PROVE AskInv'
  <2>1. /\ UNCHANGED << asked, pass, holding >> /\ debounce' # "off"
        /\ pushed' = pushed \/ pushed'
    BY <1>3 DEF Take, TakeNudge, Retry, TakeExternal, TakeFull, Rearm, timers
  <2> QED
    BY <2>1, AskKeeps
<1>4. ASSUME TakeUser PROVE AskInv'
  BY <1>4 DEF TakeUser, Selecting, Idle, Lift, Rearm, AskInv, AskedComesFirst, AskedIsTried
<1>5. ASSUME Fire PROVE AskInv'
  <2>1. ~pass.push /\ UNCHANGED holding
    BY <1>5 DEF Fire, Selecting, Idle, timers
  <2>2. CASE FireFull
    BY <2>2, <1>r, AskAnswered DEF FireFull, RemoteWhys, FullWhys
  <2>3. CASE FireChange
    <3>1. asked' => asked /\ pass'.why = "change" /\ pass'.push = pushed
      BY <2>3 DEF FireChange, Pass
    <3> QED
      BY <2>1, <3>1 DEF AskInv, AskedComesFirst, AskedIsTried
  <2>4. CASE FirePush
    <3>1. CASE pushed /\ ~holding
      BY <2>4, <3>1, <1>r, AskAnswered DEF FirePush, RemoteWhys
    <3>2. CASE ~(pushed /\ ~holding)
      <4>1. ~asked
        BY <3>2, <2>1 DEF AskInv, AskedComesFirst, AskedIsTried
      <4> QED
        BY <4>1, <3>2, <2>4, AskAnswered DEF FirePush
    <3> QED
      BY <3>1, <3>2
  <2> QED
    BY <1>5, <2>2, <2>3, <2>4 DEF Fire
<1>6. ASSUME Poll PROVE AskInv'
  BY <1>6, <1>r, AskAnswered DEF Poll, RemoteWhys, FullWhys
<1>7. ASSUME \/ HoldElapses \/ FullElapses
             \/ \E run \in {"armed", "again"} : DebounceElapses(run)
      PROVE AskInv'
  BY <1>7, AskKeeps DEF HoldElapses, FullElapses, DebounceElapses, window, timers
<1>8. ASSUME NEW after, Continue(after), UNCHANGED window, asked => ~holding'
      PROVE AskInv'
  <2>1. CASE Pass("push", {}, FALSE)
    BY <2>1, <1>r, AskAnswered DEF RemoteWhys
  <2>2. CASE ~(pass.push /\ ~holding') /\ pass' = Idle /\ UNCHANGED asked
    BY <1>8, <2>2 DEF Idle, AskInv, AskedComesFirst, AskedIsTried, window
  <2> QED
    BY <1>8, <2>1, <2>2 DEF Continue
<1>9. ASSUME PassOk \/ PassSkipped PROVE AskInv'
  <2>1. ~holding' /\ UNCHANGED window /\ \E after : Continue(after)
    BY <1>9 DEF PassOk, PassSkipped, Lift
  <2> QED
    BY <2>1, <1>8
<1>10. ASSUME PassFails PROVE AskInv'
  <2>1. asked => ~holding'
    <3>1. pass.why \in RemoteWhys => ~asked
      BY DEF AskInv, AskedComesFirst, RemoteWhys, FullWhys
    <3> QED
      BY <1>10, <3>1 DEF PassFails, ChangeFails, RemoteFails, AskInv, AskedComesFirst
  <2>2. UNCHANGED window /\ \E after : Continue(after)
    BY <1>10 DEF PassFails
  <2> QED
    BY <2>1, <2>2, <1>8
<1>11. ASSUME Restart PROVE AskInv'
  BY <1>11, AskAnswered DEF Restart
<1>12. ASSUME UNCHANGED vars PROVE AskInv'
  BY <1>12, AskKeeps DEF vars, window, timers
<1> QED
  BY <1>1, <1>2, <1>3, <1>4, <1>5, <1>6, <1>7, <1>9, <1>10, <1>11, <1>12
  DEF Next, World, Loop, PassEnds

\* A sync the user asked for is pending until a pass has tried the server, whatever
\* backoff, failures and full passes come between.
THEOREM AskedIsTriedAlways == Spec => []AskedIsTried
<1>1. Init => AskInv
  BY DEF Init, AskInv, AskedComesFirst, AskedIsTried
<1>2. AskInv => AskedIsTried
  BY DEF AskInv
<1> QED
  BY TypeInit, TypeNext, AskNext, <1>1, <1>2, PTL DEF Spec

-----------------------------------------------------------------------------
(* Local changes *)

OweInv == LooksAtItsOwn /\ ChangesAreOwed

\* A step that leaves the files the loop looks at alone, and forgets none.
LEMMA OweKeeps ==
  ASSUME OweInv, UNCHANGED << dirty, pass, seen >>, left \subseteq left',
         \A p \in dirty : p \notin left => (Owed(p) => Owed(p)')
  PROVE  OweInv'
  BY DEF OweInv, LooksAtItsOwn, ChangesAreOwed, Selecting

LEMMA OweNext == TypeOK /\ OweInv /\ [Next]_vars => OweInv'
<1> SUFFICES ASSUME TypeOK, OweInv, [Next]_vars PROVE OweInv'
  OBVIOUS
<1> USE DEF Owed
<1>1. ASSUME NEW p \in Paths, Edit(p) PROVE OweInv'
  <2>1. /\ dirty' = dirty \cup {p} /\ seen' \in {seen, seen \ {p}}
        /\ unread \subseteq unread' /\ left \subseteq left' /\ p \in unread' \cup left'
        /\ UNCHANGED << overflown, events, nudge, window, retry, retryPaths, pass, awaiter >>
    BY <1>1 DEF Edit, chans, timers, busyV
  <2>2. LooksAtItsOwn'
    BY <2>1 DEF OweInv, LooksAtItsOwn, Selecting
  <2>3. ASSUME NEW q \in dirty', q # p PROVE Owed(q)' \/ q \in left'
    BY <2>1, <2>3 DEF OweInv, ChangesAreOwed, window
  <2> QED
    BY <2>1, <2>2, <2>3 DEF OweInv, ChangesAreOwed
<1>2. ASSUME Overflow \/ ReportOverflow \/ \E p \in Paths : Report(p) PROVE OweInv'
  <2>1. /\ UNCHANGED << dirty, pass, seen, left, window, retry, retryPaths, nudge, awaiter >>
        /\ overflown \/ "overflow" \in events => overflown' \/ "overflow" \in events'
        /\ unread \cup events \subseteq unread' \cup events' \/ overflown'
    <3>1. CASE Overflow
      BY <3>1 DEF Overflow, window, timers, busyV, chans
    <3>2. CASE ReportOverflow
      BY <3>2 DEF ReportOverflow, window, timers, busyV
    <3>3. ASSUME NEW p \in Paths, Report(p)
          PROVE  /\ UNCHANGED << dirty, pass, seen, left, window, retry, retryPaths, nudge, awaiter,
                                 overflown >>
                 /\ events \subseteq events' /\ unread \cup events \subseteq unread' \cup events'
      BY <3>3 DEF Report, window, timers, busyV
    <3> QED
      BY <1>2, <3>1, <3>2, <3>3
  <2>2. \A p \in dirty : Owed(p) => Owed(p)'
    BY <2>1 DEF window
  <2> QED
    BY <2>1, <2>2, OweKeeps
<1>3. ASSUME ServerChange \/ AskUser \/ AskFull \/ Pause \/ Resume PROVE OweInv'
  <2>1. UNCHANGED << dirty, unread, overflown, events, nudge, window, timers, pass, seen, awaiter,
                     left >>
    <3>1. CASE ServerChange
      BY <3>1 DEF ServerChange, busyV
    <3>2. CASE AskUser \/ AskFull
      BY <3>2 DEF AskUser, AskFull, local, busyV
    <3>3. CASE Pause \/ Resume
      BY <3>3 DEF Pause, Resume, local, chans
    <3> QED
      BY <1>3, <3>1, <3>2, <3>3
  <2> QED
    BY <2>1, OweKeeps DEF window, timers
<1>4. ASSUME NEW e \in Signals, Take(e) PROVE OweInv'
  <2>1. /\ UNCHANGED << dirty, pass, seen, left, unread, overflown, nudge, retry, retryPaths,
                        awaiter >>
        /\ events' = events \ {e} /\ debounce' # "off"
        /\ changed' = IF e = "overflow" THEN changed ELSE changed \cup {e}
        /\ forceFull' = (forceFull \/ e = "overflow")
    BY <1>4 DEF Take, Rearm, local, timers, busyV
  <2>2. \A p \in dirty : Owed(p) => Owed(p)'
    BY <2>1
  <2> QED
    BY <2>1, <2>2, OweKeeps
<1>5. ASSUME NEW q \in Paths, TakeNudge(q) PROVE OweInv'
  <2>1. /\ UNCHANGED << dirty, pass, seen, left, unread, overflown, events, forceFull, retry,
                        retryPaths, awaiter >>
        /\ nudge' = nudge \ {q} /\ changed' = changed \cup {q} /\ debounce' # "off"
    BY <1>5 DEF TakeNudge, Rearm, local, timers, busyV
  <2> QED
    BY <2>1, OweKeeps
<1>6. ASSUME Retry PROVE OweInv'
  <2>1. /\ UNCHANGED << dirty, pass, seen, left, unread, overflown, events, nudge, forceFull,
                        awaiter >>
        /\ changed' = changed \cup retryPaths /\ debounce' # "off"
    BY <1>6 DEF Retry, Rearm, local, chans, busyV
  <2> QED
    BY <2>1, OweKeeps
<1>7. ASSUME TakeExternal \/ TakeUser \/ TakeFull PROVE OweInv'
  <2>1. /\ UNCHANGED << dirty, pass, seen, left, unread, overflown, events, nudge, changed, retry,
                        retryPaths, awaiter >>
        /\ forceFull => forceFull'
        /\ debounce' # "off"
    BY <1>7 DEF TakeExternal, TakeUser, TakeFull, Rearm, local, timers, busyV
  <2> QED
    BY <2>1, OweKeeps
<1>8. ASSUME Fire PROVE OweInv'
  <2>1. seen = {} /\ UNCHANGED << dirty, unread, overflown, events, nudge, retry, retryPaths,
                                  awaiter, left >>
    BY <1>8 DEF Fire, OweInv, LooksAtItsOwn, chans, timers, busyV
  <2>2. CASE FireFull
    <3>1. seen' = Paths /\ pass'.scope = Paths /\ pass'.why = "overflow"
      BY <2>2 DEF FireFull, Pass
    <3> QED
      BY <2>1, <3>1 DEF OweInv, LooksAtItsOwn, ChangesAreOwed, Selecting, Idle, TypeOK
  <2>3. CASE FireChange
    <3>1. seen' = changed /\ pass'.scope = changed /\ pass'.why = "change" /\ ~forceFull
      BY <2>3 DEF FireChange, Pass
    <3> QED
      BY <2>1, <3>1 DEF OweInv, LooksAtItsOwn, ChangesAreOwed, Selecting, Idle
  <2>4. CASE FirePush
    <3>1. ~forceFull /\ changed = {} /\ seen' = {}
      BY <2>1, <2>4 DEF FirePush, Pass
    <3> QED
      BY <2>1, <3>1 DEF OweInv, LooksAtItsOwn, ChangesAreOwed
  <2> QED
    BY <1>8, <2>2, <2>3, <2>4 DEF Fire
<1>9. ASSUME Poll PROVE OweInv'
  <2>1. seen = {} /\ UNCHANGED << dirty, unread, overflown, chans, window, retry, retryPaths,
                                  awaiter, left >>
    BY <1>9 DEF Poll, OweInv, LooksAtItsOwn, timers, busyV
  <2>2. /\ seen' = {} \/ (seen' = Paths /\ pass'.scope = Paths)
        /\ pass' # Idle
    BY <1>9 DEF Poll, Pass, Idle
  <2> QED
    BY <2>1, <2>2 DEF OweInv, LooksAtItsOwn, ChangesAreOwed, Selecting, chans, window
<1>10. ASSUME \/ HoldElapses \/ FullElapses
              \/ \E run \in {"armed", "again"} : DebounceElapses(run)
       PROVE OweInv'
  <2>1. /\ UNCHANGED << local, chans, changed, forceFull, retry, retryPaths, pass, seen, awaiter,
                        left >>
        /\ debounce # "off" => debounce' # "off"
    BY <1>10 DEF HoldElapses, FullElapses, DebounceElapses, window, timers, busyV
  <2> QED
    BY <2>1, OweKeeps DEF local, chans
<1>11. ASSUME NEW after, Continue(after) PROVE LooksAtItsOwn' /\ seen' = {}
  BY <1>11 DEF Continue, Pass, LooksAtItsOwn
<1>12. ASSUME PassOk PROVE OweInv'
  <2>1. PICK P \in SUBSET (seen \cap dirty \cap Busy) :
          /\ dirty' = dirty \ (seen \ P) /\ AwaitClosed(P)
          /\ left' = (left \ (seen \ P)) \cup {p \in P : awaiter[p] = "nudged"}
    BY <1>12 DEF PassOk
  <2>2. /\ \E after : Continue(after)
        /\ UNCHANGED << unread, overflown, chans, window, retry, retryPaths >>
    BY <1>12 DEF PassOk
  <2>3. /\ \A p \in P : awaiter'[p] = "waiting" \/ p \in left'
        /\ \A p \in Paths : awaiter[p] = "waiting" => awaiter'[p] = "waiting"
    BY <2>1 DEF AwaitClosed, TypeOK
  <2>4. ASSUME NEW p \in dirty' PROVE Owed(p)' \/ p \in left'
    <3>1. CASE p \in seen
      BY <2>1, <2>3, <3>1
    <3>2. CASE p \notin seen
      BY <2>1, <2>2, <2>3, <3>2 DEF OweInv, ChangesAreOwed, chans, window, TypeOK
    <3> QED
      BY <3>1, <3>2
  <2> QED
    BY <2>2, <2>4, <1>11 DEF OweInv, ChangesAreOwed
<1>13. ASSUME PassSkipped PROVE OweInv'
  <2>1. /\ left' = left \cup (seen \cap dirty) /\ \E after : Continue(after)
        /\ UNCHANGED << dirty, unread, overflown, chans, window, retry, retryPaths, awaiter >>
    BY <1>13 DEF PassSkipped, busyV
  <2>2. LooksAtItsOwn'
    BY <2>1, <1>11
  <2> QED
    BY <2>1, <2>2 DEF OweInv, ChangesAreOwed, chans, window
<1>14. ASSUME PassFails PROVE OweInv'
  <2>1. /\ dirty' \subseteq dirty /\ \E after : Continue(after)
        /\ UNCHANGED << unread, overflown, chans, window, awaiter >>
    BY <1>14 DEF PassFails, busyV
  <2>2. LooksAtItsOwn'
    BY <2>1, <1>11
  <2>3. CASE ChangeFails
    <3>1. retry' /\ retryPaths' = retryPaths \cup pass.scope /\ UNCHANGED left
      BY <2>3 DEF ChangeFails
    <3> QED
      BY <2>1, <2>2, <3>1 DEF OweInv, LooksAtItsOwn, ChangesAreOwed, chans, window
  <2>4. CASE RemoteFails
    <3>1. left' = left \cup (seen \cap dirty') /\ UNCHANGED << retry, retryPaths >>
      BY <2>4 DEF RemoteFails
    <3> QED
      BY <2>1, <2>2, <3>1 DEF OweInv, ChangesAreOwed, chans, window
  <2> QED
    BY <1>14, <2>3, <2>4 DEF PassFails
<1>15. ASSUME NEW q \in Paths, AwaitNudges(q) \/ AwaitEnds(q) PROVE OweInv'
  <2>1. /\ UNCHANGED << local, events, window, retry, retryPaths, pass, seen, left >>
        /\ nudge \subseteq nudge'
        /\ \A p \in Paths : awaiter[p] = "waiting" => awaiter'[p] = "waiting" \/ p \in nudge'
    BY <1>15 DEF AwaitNudges, AwaitEnds, chans, timers, TypeOK
  <2> QED
    BY <2>1, OweKeeps DEF local, window, TypeOK
<1>16. ASSUME Restart PROVE OweInv'
  <2>1. seen' = Paths /\ pass'.scope = Paths /\ pass'.why = "startup" /\ dirty' = dirty
    BY <1>16 DEF Restart
  <2> QED
    BY <2>1 DEF OweInv, LooksAtItsOwn, ChangesAreOwed, Selecting, Idle, TypeOK
<1>17. ASSUME UNCHANGED vars PROVE OweInv'
  BY <1>17, OweKeeps DEF vars, local, chans, window, timers, busyV
<1> QED
  BY <1>1, <1>2, <1>3, <1>4, <1>5, <1>6, <1>7, <1>8, <1>9, <1>10, <1>12, <1>13, <1>14, <1>15,
     <1>16, <1>17 DEF Next, World, Loop, PassEnds

\* No local change is forgotten but in the four places that leave it to the hourly
\* full pass: it is reported, collected, being synced, to be retried or awaited.
THEOREM ChangesAreOwedAlways == Spec => []ChangesAreOwed
<1>1. Init => OweInv
  BY DEF Init, OweInv, LooksAtItsOwn, ChangesAreOwed, Owed, Selecting, Idle
<1>2. OweInv => ChangesAreOwed
  BY DEF OweInv
<1> QED
  BY TypeInit, TypeNext, OweNext, <1>1, <1>2, PTL DEF Spec
=============================================================================
