--------------------------- MODULE OnDemandProofs ---------------------------
(***************************************************************************)
(* Proofs about OnDemand: whatever the bounds, the cases, and whatever the *)
(* server reports.                                                         *)
(***************************************************************************)
EXTENDS OnDemand, TLAPS

(*************************************************************************)
(* The inductive invariant: types and shapes, which version an ETag      *)
(* names, where each version is kept, what a copy mirrors, and what      *)
(* brings an edit to the server.                                         *)
(*************************************************************************)
Going == pass.at \in {"restore", "compare", "update", "drop", "record"}
\* The placeholder's states.  A pass that goes on has listed the file, a run that has sent has data.
Shapes ==
  /\ server.ver = 0 <=> server.etag = 0
  /\ pass.list.ver = 0 <=> pass.list.etag = 0
  /\ local.kind = "none" <=> local.data = 0
  /\ local.kind = "none" <=> local.stamp = 0
  /\ local.sync => Placeholder /\ ~local.mod
  /\ local.mod => local.kind = "full"
  /\ local.kind = "stub" => local.data = local.stamp
  /\ run.at \in {"sent", "landed", "mark"} => run.data # 0
  /\ run.at = "landed" => run.etag # 0
  /\ base.ver # 0 /\ base.etag # 0
  /\ Going => pass.list.ver # 0

\* No version is later than the last write.
Made == 0 .. written + 1
Fresh ==
  /\ written \in Nat
  /\ server.ver \in Made /\ local.data \in Made /\ local.stamp \in Made
  /\ app.ver \in Made /\ base.ver \in Made /\ base.key \in Made
  /\ run.data \in Made /\ run.stamp \in Made /\ pass.list.ver \in Made /\ pass.stamp \in Made
  /\ seen.heads \cup parked \cup seen.excused \subseteq Made \ {0}

\* An ETag somebody remembers names one version.
Names ==
  /\ base.etag = server.etag => base.ver = server.ver
  /\ base.etag = pass.list.etag => base.ver = pass.list.ver
  /\ base.key # 0 => base.key = base.ver
  /\ pass.list.etag = server.etag => pass.list.ver = server.ver
  /\ run.at = "landed" => /\ run.etag = server.etag => run.data = server.ver
                          /\ run.etag = pass.list.etag => run.data = pass.list.ver

\* A version nobody misses; one that is kept elsewhere than in the file.
Low(v)  == v \notin seen.heads \/ v \in seen.excused \/ v \in parked
Safe(v) == Low(v) \/ v = server.ver
Holds(v) == HasData /\ local.data = v
CleanFull == local.kind = "full" /\ ~local.mod

\* What is clean, listed or sent is kept elsewhere.
CleanIsSafe  == CleanFull => Safe(local.data)
ListedIsSafe == pass.list.ver # 0 => Safe(pass.list.ver)
SentIsSafe   == run.at \in {"landed", "mark"} => Safe(run.data)
\* The server's version may be written over only when the file has it: when the baseline
\* knows it, after an upload's check, and while it is sent.
KnownIsHere   == local.kind # "stub" /\ base.ver = server.ver => Low(server.ver) \/ Holds(server.ver)
CheckedIsHere == run.at = "put" /\ ~seen.since /\ server.ver # 0 => Low(server.ver) \/ Holds(server.ver)
ReadIsHere    == run.at = "sent" /\ ~seen.since /\ server.ver # 0 => Low(server.ver) \/ run.data = server.ver
LandedIsHere  == run.at \in {"sent", "landed"} /\ server.ver = run.data => Low(run.data) \/ Holds(run.data)
\* A pass records a version the file has or shows.
Shows(v) == Placeholder /\ local.stamp = v /\ (local.kind = "full" => local.data = v)
RecordedIsHere == pass.at = "record" /\ pass.list.ver = server.ver => Low(server.ver) \/ Shows(server.ver)
Kept == /\ NothingLost /\ CleanIsSafe /\ ListedIsSafe /\ SentIsSafe
        /\ KnownIsHere /\ CheckedIsHere /\ ReadIsHere /\ LandedIsHere /\ RecordedIsHere

\* The file has what the server has, or one of the two is excused.
Agrees == local.data = server.ver \/ {local.data, server.ver} \cap seen.excused # {}
\* What a clean copy mirrors, now or once a run or a pass has recorded it.
CleanMirrors    == CleanFull /\ server.ver # 0 /\ base.ver = server.ver => Agrees
RecordedMirrors == CleanFull /\ pass.at = "record" /\ pass.list.ver = server.ver => Agrees
\* What is sent is what the file has, unless it was edited since.
SentIsHere == run.at \in {"sent", "landed"} /\ run.data \notin seen.excused =>
                HasData /\ (local.data = run.data \/ local.data \in seen.excused \/ NeedsUpload)
EditedIsNew == run.at \in {"sent", "landed"} /\ NeedsUpload /\ local.data # run.data
                 /\ {local.data, run.data} \cap seen.excused = {} => local.data \notin {server.ver, pass.list.ver}
\* What landed is what the server has, or a pass finds a later version there.
ListedIsLater == run.at \in {"landed", "mark"} /\ NeedsUpload /\ local.data = run.data /\ Going
                   => pass.list.ver # server.ver \/ server.ver = run.data
MarkedIsThere == run.at = "mark" /\ NeedsUpload /\ local.data = run.data /\ base.ver = server.ver
                   => server.ver = run.data
Mirrored == CleanMirrors /\ RecordedMirrors /\ SentIsHere /\ EditedIsNew /\ ListedIsLater /\ MarkedIsThere

\* What an edit is left to, beside LeftAlone; somebody knows of it; a pass will read the folder.
Exempt == seen.gaps \cap {"muted", "dropped"} # {} \/ local.data \in seen.excused
Noticed == \/ events # {} \/ queue.timer \/ queue.held \/ run.again
           \/ run.at \in {"look", "check", "park", "put", "sent", "landed", "mark", "hold"}
Reads == \/ sweep.owed
         \/ pass.at = "idle" /\ (~sweep.done \/ base.dir # server.dir)
         \/ pass.at # "idle" /\ (pass.full \/ base.dir # pass.known)
Coming == \/ Reads /\ (pass.at \in {"idle", "read", "list", "act"} \/ ~pass.ok)
          \/ pass.at # "idle" /\ server.dir # pass.known
EditIsOwed == NeedsUpload => LeftAlone \/ Exempt \/ Noticed \/ Coming
\* A pass that has read the folder and not acted yet has the file as it is now.
ReadAsIs == NeedsUpload /\ pass.at \in {"list", "act"}
              => Exempt \/ Noticed \/ (pass.kind = local.kind /\ pass.stamp = local.stamp)
\* The folder's ETag: what changed since the pass began is due, and what is due stays due.
DirIsDue == pass.at # "idle" => /\ base.dir # pass.known => base.dir # server.dir
                                /\ server.dir # pass.known => base.dir # server.dir
                                /\ pass.at = "act" /\ server.dir = pass.known => pass.list.ver = server.ver
                                /\ ~sweep.done => pass.full
HeldIsKnown == run.at = "recheck" => queue.held \/ queue.timer \/ run.again
IdleIsDone  == run.at = "idle" => ~run.again
Owing == EditIsOwed /\ ReadAsIs /\ DirIsDue /\ HeldIsKnown /\ IdleIsDone

Inv == TypeOK /\ Shapes /\ Fresh /\ Names /\ Kept /\ Mirrored /\ Owing

(*************************************************************************)
(* What the steps of a pass and of an upload do, field by field.         *)
(*************************************************************************)
SamePass == /\ pass'.full = pass.full /\ pass'.known = pass.known /\ pass'.kind = pass.kind
            /\ pass'.stamp = pass.stamp /\ pass'.list = pass.list
PassTo(a) == pass'.at = a /\ SamePass /\ pass'.ok = pass.ok
\* What a step of a pass never touches.
PassKeeps == UNCHANGED << app, pin, run, server, parked, events, paused, told, calm, written, can >>

PassOver == /\ pass'.at = "idle" /\ pass'.full = FALSE /\ pass'.known = 0 /\ pass'.kind = "none"
            /\ pass'.stamp = 0 /\ pass'.list.ver = 0 /\ pass'.list.etag = 0 /\ pass'.ok = TRUE
\* What is excused, a file that is gone, one that is put in sync.
Excused(V) == /\ seen'.heads = seen.heads /\ seen'.since = seen.since /\ seen'.gaps = seen.gaps
              /\ seen'.excused = seen.excused \cup (V \ {0})
Goes == /\ local'.kind = "none" /\ local'.data = 0 /\ local'.sync = FALSE /\ local'.mod = FALSE
        /\ local'.stamp = 0
GoesInSync == /\ local'.data = local.data /\ local'.stamp = local.stamp
              /\ \/ local.kind = "none" /\ local' = local
                 \/ local.kind = "plain" /\ local'.kind = "full" /\ local'.sync = TRUE /\ local'.mod = local.mod
                 \/ Placeholder /\ local'.kind = local.kind /\ local'.sync = TRUE /\ local'.mod = FALSE

LEMMA ExcuseDoes ==
  ASSUME TypeOK, NEW V, Excuse(V)
  PROVE  Excused(V)
BY DEF Excuse, Excused, TypeOK

LEMMA InSyncDoes ==
  ASSUME TypeOK, local' = InSync(local)
  PROVE  GoesInSync
<1>1. CASE Placeholder
  <2>1. local' = [local EXCEPT !.sync = TRUE, !.mod = FALSE] BY <1>1 DEF InSync, Placeholder
  <2> QED BY <1>1, <2>1 DEF TypeOK, GoesInSync, Placeholder
<1>2. CASE local.kind = "plain"
  <2>1. local' = [local EXCEPT !.kind = "full", !.sync = TRUE] BY <1>2 DEF InSync
  <2> QED BY <1>2, <2>1 DEF TypeOK, GoesInSync, Placeholder
<1>3. CASE local.kind = "none"
  <2>1. local' = local BY <1>3 DEF InSync
  <2> QED BY <1>3, <2>1 DEF GoesInSync, Placeholder
<1> QED BY <1>1, <1>2, <1>3 DEF TypeOK, Kinds, Placeholder

LEMMA ToEndDoes ==
  ASSUME TypeOK, NEW ok \in BOOLEAN, ToEnd(ok)
  PROVE  pass'.at = "end" /\ SamePass /\ pass'.ok = (pass.ok /\ ok)
BY DEF ToEnd, TypeOK, SamePass

LEMMA ToPinsDoes ==
  ASSUME TypeOK, NEW ok \in BOOLEAN, ToPins(ok)
  PROVE  pass'.at = "pins" /\ SamePass /\ pass'.ok = (pass.ok /\ ok)
BY DEF ToPins, TypeOK, SamePass

LEMMA PStepDoes ==
  ASSUME TypeOK, NEW a, NEW b, PStep(a, b)
  PROVE  pass.at = a /\ PassTo(b)
BY DEF PStep, TypeOK, SamePass, PassTo

LEMMA LeftToDoes ==
  ASSUME TypeOK, LeftTo
  PROVE  /\ seen'.heads = seen.heads /\ seen'.since = seen.since
         /\ Looked => seen'.excused = seen.excused \cup {local.data}
         /\ ~Looked => seen'.excused = seen.excused
         /\ seen'.gaps = seen.gaps \/ seen'.gaps = seen.gaps \cup {"left"}
BY DEF LeftTo, TypeOK

LEMMA IfIdleDoes ==
  ASSUME TypeOK, queue' = IfIdle(queue)
  PROVE  /\ queue'.timer = (queue.timer \/ run.at = "idle") /\ queue'.held = queue.held
         /\ queue'.hushed = queue.hushed /\ queue'.fetch = queue.fetch /\ queue'.later = queue.later
BY DEF IfIdle, TypeOK

LEMMA ReadDirDoes ==
  ASSUME TypeOK, ReadDir
  PROVE  /\ pass.at = "read"
         /\ \/ /\ pass'.at = "list" /\ pass'.kind = local.kind /\ pass'.stamp = local.stamp
               /\ pass'.full = pass.full /\ pass'.known = pass.known /\ pass'.list = pass.list
               /\ pass'.ok = pass.ok /\ UNCHANGED sweep
            \/ ~Due /\ PassOver /\ sweep'.done = TRUE /\ sweep'.owed = sweep.owed
         /\ UNCHANGED << local, base, queue, seen >> /\ PassKeeps
<1>1. pass.at = "read" /\ UNCHANGED << local, base, queue, seen >> /\ PassKeeps
  BY DEF ReadDir, PassOnly, PassKeeps, world
<1>2. CASE Due
  <2>1. pass' = [pass EXCEPT !.at = "list", !.kind = local.kind, !.stamp = local.stamp] /\ UNCHANGED sweep
    BY <1>2 DEF ReadDir
  <2> QED BY <1>1, <2>1 DEF TypeOK
<1>3. CASE ~Due
  <2>1. pass' = NoPass /\ sweep' = [sweep EXCEPT !.done = TRUE] BY <1>3 DEF ReadDir
  <2>2. PassOver BY <2>1 DEF PassOver, NoPass, NoListing
  <2> QED BY <1>1, <1>3, <2>1, <2>2 DEF TypeOK
<1> QED BY <1>2, <1>3

LEMMA ListDoes ==
  ASSUME TypeOK, List
  PROVE  /\ pass.at = "list" /\ pass'.full = pass.full /\ pass'.known = pass.known
         /\ pass'.kind = pass.kind /\ pass'.stamp = pass.stamp
         /\ \/ /\ pass'.at = "act" /\ pass'.ok = pass.ok
               /\ pass'.list.ver = server.ver /\ pass'.list.etag = server.etag
            \/ pass'.at = "end" /\ pass'.ok = FALSE /\ pass'.list = pass.list
         /\ UNCHANGED << local, base, queue, seen, sweep >> /\ PassKeeps
<1>1. pass.at = "list" /\ UNCHANGED << local, base, queue, seen, sweep >> /\ PassKeeps
  BY DEF List, PassOnly, PassKeeps, world
<1>2. CASE pass' = [pass EXCEPT !.at = "act", !.list = [ver |-> server.ver, etag |-> server.etag]]
  BY <1>1, <1>2 DEF TypeOK
<1>3. CASE pass' = [pass EXCEPT !.at = "end", !.ok = FALSE]
  BY <1>1, <1>3 DEF TypeOK
<1> QED BY <1>2, <1>3 DEF List

LEMMA VanishedDoes ==
  ASSUME TypeOK, Vanished
  PROVE  /\ pass.at = "act" /\ pass.kind # "none" /\ pass.list.ver = 0
         /\ \/ NeedsUpload /\ queue' = IfIdle(queue) /\ PassTo("end")
            \/ ~NeedsUpload /\ UNCHANGED queue /\ (PassTo("end") \/ PassTo("remove"))
         /\ LeftTo /\ UNCHANGED << local, base, sweep >> /\ PassKeeps
<1>1. /\ pass.at = "act" /\ pass.kind # "none" /\ pass.list.ver = 0 /\ LeftTo
      /\ UNCHANGED << local, base, sweep >> /\ PassKeeps
  BY DEF Vanished, PassOnly, PassKeeps, world, Here, There
<1>2. CASE NeedsUpload
  BY <1>1, <1>2, ToEndDoes DEF Vanished, PassTo, TypeOK
<1>3. CASE ~NeedsUpload
  <2>1. UNCHANGED queue /\ (ToEnd(TRUE) \/ PStep("act", "remove"))
    BY <1>3 DEF Vanished
  <2> QED BY <1>1, <1>3, <2>1, ToEndDoes, PStepDoes DEF PassTo, TypeOK
<1> QED BY <1>2, <1>3

LEMMA RemoveDoes ==
  ASSUME TypeOK, Remove
  PROVE  /\ pass.at = "remove" /\ pass'.at = "end" /\ SamePass
         /\ queue'.timer = queue.timer /\ queue'.held = queue.held
         /\ \/ pass'.ok = FALSE /\ UNCHANGED << local, seen >>
            \/ pass'.ok = pass.ok /\ Goes /\ Excused(Shown \cup Sending)
         /\ UNCHANGED << base, sweep >> /\ PassKeeps
<1>1. pass.at = "remove" /\ UNCHANGED << base, sweep >> /\ PassKeeps
  BY DEF Remove, PassOnly, PassKeeps, world
<1>2. queue'.timer = queue.timer /\ queue'.held = queue.held
  BY DEF Remove, TypeOK
<1>3. \/ ToEnd(FALSE) /\ UNCHANGED << local, seen >>
      \/ ToEnd(TRUE) /\ Goes /\ Excused(Shown \cup Sending)
  <2>1. \/ ToEnd(FALSE) /\ UNCHANGED << local, seen >>
        \/ ToEnd(TRUE) /\ local' = Gone /\ Excuse(Shown \cup Sending)
    BY DEF Remove
  <2>2. local' = Gone => Goes
    BY DEF Gone, Goes
  <2> QED BY <2>1, <2>2, ExcuseDoes
<1> QED BY <1>1, <1>2, <1>3, ToEndDoes DEF TypeOK

LEMMA RecordedIs ==
  ASSUME TypeOK, base' = Recorded
  PROVE  /\ base'.etag = pass.list.etag /\ base'.ver = pass.list.ver /\ base'.dir = base.dir
         /\ base'.key = 0 \/ base'.key = pass.list.ver
<1>1. CASE Keys
  <2>1. base' = [base EXCEPT !.etag = pass.list.etag, !.ver = pass.list.ver, !.key = pass.list.ver]
    BY <1>1 DEF Recorded
  <2> QED BY <2>1 DEF TypeOK
<1>2. CASE ~Keys
  <2>1. base' = [base EXCEPT !.etag = pass.list.etag, !.ver = pass.list.ver, !.key = 0]
    BY <1>2 DEF Recorded
  <2> QED BY <2>1 DEF TypeOK
<1> QED BY <1>1, <1>2

LEMMA CreateDoes ==
  ASSUME TypeOK, Create
  PROVE  /\ pass.at = "act" /\ pass.kind = "none" /\ pass.list.ver # 0 /\ SamePass
         /\ \/ /\ local.kind = "none" /\ pass'.at = "pins" /\ pass'.ok = pass.ok
               /\ local'.kind = "stub" /\ local'.data = pass.list.ver /\ local'.stamp = pass.list.ver
               /\ local'.sync = TRUE /\ local'.mod = FALSE /\ base' = Recorded
            \/ local.kind # "none" /\ pass'.at = "end" /\ pass'.ok = FALSE /\ UNCHANGED << local, base >>
         /\ UNCHANGED << queue, seen, sweep >> /\ PassKeeps
<1>1. /\ pass.at = "act" /\ pass.kind = "none" /\ pass.list.ver # 0
      /\ UNCHANGED << queue, seen, sweep >> /\ PassKeeps
  BY DEF Create, PassOnly, PassKeeps, world, Here, There
<1>2. CASE local.kind = "none"
  <2>1. /\ local' = [kind |-> "stub", data |-> pass.list.ver, sync |-> TRUE, mod |-> FALSE, stamp |-> pass.list.ver]
        /\ base' = Recorded /\ ToPins(TRUE)
    BY <1>2 DEF Create
  <2> QED BY <1>1, <1>2, <2>1, ToPinsDoes DEF TypeOK
<1>3. CASE local.kind # "none"
  <2>1. ToEnd(FALSE) /\ UNCHANGED << local, base >>
    BY <1>3 DEF Create
  <2> QED BY <1>1, <1>3, <2>1, ToEndDoes DEF TypeOK
<1> QED BY <1>2, <1>3

LEMMA HealDoes ==
  ASSUME TypeOK, Heal
  PROVE  /\ pass.at = "act" /\ pass.kind = "plain" /\ pass.list.ver # 0 /\ PassTo("end")
         /\ \/ /\ pass.stamp = pass.list.ver /\ base.etag = pass.list.etag /\ local.kind # "none"
               /\ GoesInSync /\ base' = Recorded /\ UNCHANGED queue
               /\ Excused(IF local.data # pass.list.ver THEN {local.data} ELSE {})
            \/ /\ pass.stamp > pass.list.ver /\ queue' = IfIdle(queue) /\ LeftTo /\ UNCHANGED << local, base >>
            \/ /\ ~(pass.stamp > pass.list.ver) /\ UNCHANGED queue /\ LeftTo /\ UNCHANGED << local, base >>
         /\ UNCHANGED sweep /\ PassKeeps
<1>1. pass.at = "act" /\ pass.kind = "plain" /\ pass.list.ver # 0 /\ UNCHANGED sweep /\ PassKeeps
  BY DEF Heal, PassOnly, PassKeeps, world, There
<1>2. PassTo("end")
  BY ToEndDoes DEF Heal, PassTo, TypeOK
<1>3. CASE Heals /\ local.kind # "none"
  BY <1>1, <1>2, <1>3, InSyncDoes, ExcuseDoes DEF Heal, Heals
<1>4. CASE ~(Heals /\ local.kind # "none")
  <2>1. queue' = (IF pass.stamp > pass.list.ver THEN IfIdle(queue) ELSE queue) /\ LeftTo /\ UNCHANGED << local, base >>
    BY <1>4 DEF Heal
  <2> QED BY <1>1, <1>2, <2>1
<1> QED BY <1>3, <1>4

LEMMA BothDoes ==
  ASSUME TypeOK, Both
  PROVE  /\ pass.at = "act" /\ pass.kind \in {"stub", "full"} /\ pass.list.ver # 0
         /\ \/ NeedsUpload /\ queue' = IfIdle(queue) /\ PassTo("end")
            \/ ~NeedsUpload /\ UNCHANGED queue /\ (PassTo("end") \/ PassTo("compare") \/ PassTo("restore"))
         /\ LeftTo /\ UNCHANGED << local, base, sweep >> /\ PassKeeps
<1>1. /\ pass.at = "act" /\ pass.kind \in {"stub", "full"} /\ pass.list.ver # 0 /\ LeftTo
      /\ UNCHANGED << local, base, sweep >> /\ PassKeeps
  BY DEF Both, PassOnly, PassKeeps, world, There
<1>2. CASE local.kind = "none"
  <2>1. ToEnd(TRUE) /\ UNCHANGED queue /\ ~NeedsUpload
    BY <1>2 DEF Both, NeedsUpload, Placeholder
  <2> QED BY <1>1, <2>1, ToEndDoes DEF PassTo, TypeOK
<1>3. CASE local.kind # "none" /\ NeedsUpload
  BY <1>1, <1>3, ToEndDoes DEF Both, PassTo, TypeOK
<1>4. CASE local.kind # "none" /\ ~NeedsUpload
  <2>1. UNCHANGED queue /\ (PStep("act", "compare") \/ PStep("act", "restore"))
    BY <1>4 DEF Both
  <2> QED BY <1>1, <1>4, <2>1, PStepDoes
<1> QED BY <1>2, <1>3, <1>4

LEMMA CompareDoes ==
  ASSUME TypeOK, Compare
  PROVE  /\ pass.at = "compare"
         /\ \/ PassTo("pins") /\ UNCHANGED base
            \/ /\ PassTo("pins") /\ Keys /\ pass.list.ver = base.key
               /\ base'.etag = pass.list.etag /\ base'.key = base.key /\ base'.ver = base.ver /\ base'.dir = base.dir
            \/ PassTo("update") /\ UNCHANGED base
         /\ UNCHANGED << local, queue, seen, sweep >> /\ PassKeeps
<1>1. pass.at = "compare" /\ UNCHANGED << local, queue, seen, sweep >> /\ PassKeeps
  BY DEF Compare, PassOnly, PassKeeps, world
<1>2. CASE ToPins(TRUE) /\ UNCHANGED base
  BY <1>1, <1>2, ToPinsDoes DEF PassTo, TypeOK
<1>3. CASE Keys /\ pass.list.ver = base.key /\ ToPins(TRUE) /\ base' = [base EXCEPT !.etag = pass.list.etag]
  BY <1>1, <1>3, ToPinsDoes DEF PassTo, TypeOK
<1>4. CASE PStep("compare", "update") /\ UNCHANGED base
  BY <1>1, <1>4, PStepDoes
<1> QED BY <1>2, <1>3, <1>4 DEF Compare

LEMMA UpdateDoes ==
  ASSUME TypeOK, Update
  PROVE  /\ pass.at = "update"
         /\ \/ /\ Placeholder /\ local.sync /\ PassTo("drop")
               /\ local'.kind = local.kind /\ local'.stamp = pass.list.ver /\ local'.sync = TRUE /\ local'.mod = FALSE
               /\ local.kind = "stub" => local'.data = pass.list.ver
               /\ local.kind # "stub" => local'.data = local.data
               /\ Excused(IF NeedsUpload THEN {local.data} ELSE {})
            \/ /\ PassTo("pins") /\ UNCHANGED local
               /\ seen'.heads = seen.heads /\ seen'.since = seen.since /\ seen'.excused = seen.excused
               /\ seen'.gaps = seen.gaps \/ seen'.gaps = seen.gaps \cup {"left"}
         /\ UNCHANGED << base, queue, sweep >> /\ PassKeeps
<1>1. pass.at = "update" /\ UNCHANGED << base, queue, sweep >> /\ PassKeeps
  BY ToPinsDoes DEF Update, PStep, PassOnly, PassKeeps, world
<1>2. CASE Placeholder /\ local.sync
  <2>1. /\ local' = [local EXCEPT !.stamp = pass.list.ver, !.sync = TRUE, !.mod = FALSE,
                                  !.data = IF local.kind = "stub" THEN pass.list.ver ELSE @]
        /\ PStep("update", "drop") /\ Excused(IF NeedsUpload THEN {local.data} ELSE {})
    BY <1>2, ExcuseDoes DEF Update, Verified
  <2>2. PassTo("drop")
    BY <2>1, PStepDoes
  <2>3. /\ local'.kind = local.kind /\ local'.stamp = pass.list.ver /\ local'.sync = TRUE /\ local'.mod = FALSE
        /\ local.kind = "stub" => local'.data = pass.list.ver
        /\ local.kind # "stub" => local'.data = local.data
    BY <2>1 DEF TypeOK
  <2> QED BY <1>1, <1>2, <2>1, <2>2, <2>3
<1>3. CASE ~(Placeholder /\ local.sync)
  <2>1. /\ ToPins(TRUE) /\ UNCHANGED local
        /\ seen' = seen \/ seen' = [seen EXCEPT !.gaps = @ \cup {"left"}]
    BY <1>3 DEF Update, Verified
  <2>2. PassTo("pins")
    BY <2>1, ToPinsDoes DEF PassTo, TypeOK
  <2>3. /\ seen'.heads = seen.heads /\ seen'.since = seen.since /\ seen'.excused = seen.excused
        /\ seen'.gaps = seen.gaps \/ seen'.gaps = seen.gaps \cup {"left"}
    BY <2>1 DEF TypeOK
  <2> QED BY <1>1, <2>1, <2>2, <2>3
<1> QED BY <1>2, <1>3

\* Numbers in nobody's hands.
NewEtag == /\ server'.etag # 0 /\ server'.etag # server.etag /\ server'.etag # base.etag
           /\ server'.etag # run.etag /\ server'.etag # pass.list.etag
NewDir  == /\ server'.dir # server.dir /\ server'.dir # base.dir /\ server'.dir # pass.known
LEMMA EtagsAreNew ==
  ASSUME NEW e \in NewEtags
  PROVE  e \in 1 .. EtagMax /\ e # server.etag /\ e # base.etag /\ e # run.etag /\ e # pass.list.etag
BY DEF NewEtags, Least
LEMMA DirsAreNew ==
  ASSUME NEW d \in NewDirs
  PROVE  d \in 1 .. EtagMax /\ d # server.dir /\ d # base.dir /\ d # pass.known
BY DEF NewDirs, Least
LEMMA ChangedDoes ==
  ASSUME NEW v, NEW e \in NewEtags, NEW d \in NewDirs, Changed(v, e, d)
  PROVE  server'.ver = v /\ server'.etag = e /\ server'.dir = d /\ NewEtag /\ NewDir
BY EtagsAreNew, DirsAreNew DEF Changed, NewEtag, NewDir
LEMMA GoneDoes ==
  ASSUME NEW d \in NewDirs, Changed(0, 0, d)
  PROVE  server'.ver = 0 /\ server'.etag = 0 /\ NewDir
BY DirsAreNew DEF Changed, NewDir

\* What a step of a run never touches, what a run that ends or fails leaves.
RunKeeps == UNCHANGED << app, pin, pass, sweep, paused, told, calm, written, can >>
SameRun  == run'.stamp = run.stamp /\ run'.again = run.again /\ run'.stop = run.stop
RunOver  == /\ run'.at = "idle" /\ run'.stamp = 0 /\ run'.data = 0 /\ run'.etag = 0
            /\ run'.again = FALSE /\ run'.stop = FALSE
RunStops == run'.at = "hold" /\ run'.data = run.data /\ run'.etag = run.etag /\ SameRun

LEMMA EndsDoes ==
  ASSUME TypeOK, NEW timer \in BOOLEAN, Ends(timer)
  PROVE  /\ RunOver /\ queue'.timer = (queue.timer \/ timer \/ run.again)
         /\ queue'.held = queue.held /\ queue'.hushed = queue.hushed
         /\ queue'.fetch = queue.fetch /\ queue'.later = queue.later
BY DEF Ends, RunOver, Idle, TypeOK

LEMMA FailsDoes ==
  ASSUME TypeOK, NEW s, Fails(s)
  PROVE  /\ run.at = s
         /\ \/ run'.at = "hold" /\ run'.data = run.data /\ run'.etag = run.etag /\ SameRun /\ UNCHANGED queue
            \/ RunOver /\ queue'.timer = TRUE /\ queue'.held = queue.held
<1>1. CASE Step(s, "hold") /\ UNCHANGED queue
  BY <1>1 DEF Fails, Step, SameRun, TypeOK
<1>2. CASE Ends(TRUE)
  BY <1>2, EndsDoes DEF Fails
<1> QED BY <1>1, <1>2 DEF Fails

LEMMA FetchedIs ==
  ASSUME TypeOK, local' = Fetched
  PROVE  /\ local'.sync = local.sync /\ local'.mod = local.mod /\ local'.stamp = local.stamp
         /\ local.kind = "stub" => local'.kind = "full" /\ local'.data = server.ver
         /\ local.kind # "stub" => local' = local
<1>1. CASE local.kind = "stub"
  <2>1. local' = [local EXCEPT !.kind = "full", !.data = server.ver]
    BY <1>1 DEF Fetched
  <2> QED BY <1>1, <2>1 DEF TypeOK
<1>2. CASE local.kind # "stub"
  BY <1>2 DEF Fetched, TypeOK
<1> QED BY <1>1, <1>2

LEMMA FetchDoes ==
  ASSUME TypeOK, Fetch
  PROVE  /\ queue'.timer = queue.timer /\ queue'.held = queue.held /\ queue'.hushed = queue.hushed
         /\ \/ UNCHANGED local
            \/ local.kind = "stub" /\ server.ver # 0 /\ local' = Fetched
         /\ UNCHANGED << app, pin, server, parked, base, events, run, pass, sweep,
                         paused, told, calm, written, can, seen >>
<1>1. UNCHANGED << app, pin, server, parked, base, events, run, pass, sweep,
                   paused, told, calm, written, can, seen >>
  BY DEF Fetch, sync, world
<1>2. \/ UNCHANGED local
      \/ local.kind = "stub" /\ server.ver # 0 /\ local' = Fetched
  BY DEF Fetch
<1>3. queue'.timer = queue.timer /\ queue'.held = queue.held /\ queue'.hushed = queue.hushed
  BY DEF Fetch, TypeOK
<1> QED BY <1>1, <1>2, <1>3

LEMMA CheckDoes ==
  ASSUME TypeOK, Check
  PROVE  /\ run.at = "check" /\ run'.data = run.data /\ run'.etag = run.etag /\ SameRun
         /\ \/ run'.at = "park" /\ Conflict
            \/ run'.at = "put" /\ ~Conflict
         /\ \/ Compares /\ local' = Fetched
            \/ ~Compares /\ UNCHANGED local
         /\ seen'.heads = seen.heads /\ seen'.excused = seen.excused /\ seen'.gaps = seen.gaps
         /\ seen'.since = (local'.kind \in {"none", "stub"})
         /\ UNCHANGED << server, parked, base, events, queue >> /\ RunKeeps
<1>1. UNCHANGED << server, parked, base, events, queue >> /\ RunKeeps
  BY DEF Check, RunOnly, RunKeeps, world
<1>2. \/ Compares /\ local' = Fetched
      \/ ~Compares /\ UNCHANGED local
  BY DEF Check
<1>3. /\ seen'.heads = seen.heads /\ seen'.excused = seen.excused /\ seen'.gaps = seen.gaps
      /\ seen'.since = (local'.kind \in {"none", "stub"})
  <2> DEFINE s == local'.kind \in {"none", "stub"}
  <2>1. seen' = [seen EXCEPT !.since = s] BY DEF Check
  <2> HIDE DEF s
  <2>2. seen'.heads = seen.heads /\ seen'.excused = seen.excused /\ seen'.gaps = seen.gaps /\ seen'.since = s
    BY <2>1 DEF TypeOK
  <2> QED BY <2>2 DEF s
<1>4. CASE Conflict
  <2>1. Step("check", "park") BY <1>4 DEF Check
  <2> QED BY <1>1, <1>2, <1>3, <1>4, <2>1 DEF Step, SameRun, TypeOK
<1>5. CASE ~Conflict
  <2>1. Step("check", "put") BY <1>5 DEF Check
  <2> QED BY <1>1, <1>2, <1>3, <1>5, <2>1 DEF Step, SameRun, TypeOK
<1> QED BY <1>4, <1>5

LEMMA ParkDoes ==
  ASSUME TypeOK, Park
  PROVE  /\ run.at = "park"
         /\ \/ /\ UNCHANGED << server, parked >>
               /\ \/ RunStops /\ UNCHANGED queue
                  \/ RunOver /\ queue'.timer = TRUE /\ queue'.held = queue.held
            \/ /\ server.ver # 0 /\ run'.at = "put" /\ run'.data = run.data /\ run'.etag = run.etag /\ SameRun
               /\ parked' = parked \cup {server.ver} /\ UNCHANGED queue
               /\ server'.ver = 0 /\ server'.etag = 0 /\ NewDir
         /\ UNCHANGED << local, base, events, seen >> /\ RunKeeps
<1>1. run.at = "park" /\ UNCHANGED << local, base, events, seen >> /\ RunKeeps
  BY DEF Park, RunKeeps, world
<1>2. CASE server.ver = 0
  <2>1. Fails("park") /\ UNCHANGED << server, parked >> BY <1>2 DEF Park
  <2> QED BY <1>1, <2>1, FailsDoes DEF RunStops
<1>3. CASE server.ver # 0
  <2>1. /\ Step("park", "put") /\ parked' = parked \cup {server.ver} /\ UNCHANGED queue
        /\ \E d \in NewDirs : Changed(0, 0, d)
    BY <1>3 DEF Park
  <2>2. run'.at = "put" /\ run'.data = run.data /\ run'.etag = run.etag /\ SameRun
    BY <2>1 DEF Step, SameRun, TypeOK
  <2>3. server'.ver = 0 /\ server'.etag = 0 /\ NewDir
    BY <2>1, GoneDoes
  <2> QED BY <1>1, <1>3, <2>1, <2>2, <2>3
<1> QED BY <1>2, <1>3

LEMMA ReadDoes ==
  ASSUME TypeOK, Read
  PROVE  /\ run.at = "put"
         /\ \/ /\ UNCHANGED local
               /\ \/ RunStops /\ UNCHANGED queue
                  \/ RunOver /\ queue'.timer = TRUE /\ queue'.held = queue.held
            \/ /\ CanRead /\ local' = Fetched /\ UNCHANGED queue
               /\ run'.at = "sent" /\ run'.data = local'.data /\ run'.etag = run.etag /\ SameRun
         /\ UNCHANGED << server, parked, base, events, seen >> /\ RunKeeps
<1>1. run.at = "put" /\ UNCHANGED << server, parked, base, events, seen >> /\ RunKeeps
  BY DEF Read, RunOnly, RunKeeps, world
<1>2. CASE CanRead
  <2>1. local' = Fetched /\ UNCHANGED queue /\ run' = [run EXCEPT !.at = "sent", !.data = local'.data]
    BY <1>2 DEF Read
  <2> DEFINE d == local'.data
  <2>2. run' = [run EXCEPT !.at = "sent", !.data = d] BY <2>1
  <2> HIDE DEF d
  <2>3. run'.at = "sent" /\ run'.data = d /\ run'.etag = run.etag /\ SameRun
    BY <2>2 DEF SameRun, TypeOK
  <2> QED BY <1>1, <1>2, <2>1, <2>3 DEF d
<1>3. CASE ~CanRead
  <2>1. Fails("put") /\ UNCHANGED local BY <1>3 DEF Read
  <2> QED BY <1>1, <2>1, FailsDoes DEF RunStops
<1> QED BY <1>2, <1>3

LEMMA LandDoes ==
  ASSUME TypeOK, Land
  PROVE  /\ run.at = "sent" /\ server'.ver = run.data /\ NewEtag /\ NewDir
         /\ \/ run'.at = "landed" /\ run'.data = run.data /\ run'.etag = server'.etag /\ SameRun /\ UNCHANGED queue
            \/ RunStops /\ UNCHANGED queue
            \/ RunOver /\ queue'.timer = TRUE /\ queue'.held = queue.held
         /\ Excused(IF seen.since THEN {server.ver} ELSE {})
         /\ UNCHANGED << local, parked, base, events >> /\ RunKeeps
<1>1. /\ run.at = "sent" /\ Excused(IF seen.since THEN {server.ver} ELSE {})
      /\ UNCHANGED << local, parked, base, events >> /\ RunKeeps
  BY ExcuseDoes DEF Land, RunOnly, RunKeeps, world
<1>2. PICK e \in NewEtags, d \in NewDirs :
       /\ Changed(run.data, e, d)
       /\ \/ run' = [run EXCEPT !.at = "landed", !.etag = e] /\ UNCHANGED queue
          \/ Fails("sent")
  BY DEF Land
<1>3. server'.ver = run.data /\ server'.etag = e /\ NewEtag /\ NewDir
  BY <1>2, ChangedDoes
<1>4. CASE run' = [run EXCEPT !.at = "landed", !.etag = e] /\ UNCHANGED queue
  <2>1. run'.at = "landed" /\ run'.data = run.data /\ run'.etag = e /\ SameRun
    BY <1>4 DEF SameRun, TypeOK
  <2> QED BY <1>1, <1>3, <1>4, <2>1
<1>5. CASE Fails("sent")
  <2>1. \/ RunStops /\ UNCHANGED queue
        \/ RunOver /\ queue'.timer = TRUE /\ queue'.held = queue.held
    BY <1>5, FailsDoes DEF RunStops
  <2> QED BY <1>1, <1>3, <2>1
<1> QED BY <1>2, <1>4, <1>5

LEMMA WriteDoes ==
  ASSUME TypeOK, NEW V, Write(V)
  PROVE  /\ written' = written + 1 /\ Latest = written + 2
         /\ seen'.heads = (seen.heads \ V) \cup {written + 2} /\ seen'.excused = seen.excused
         /\ seen'.since = seen.since /\ seen'.gaps = seen.gaps
<1>1. written' = written + 1 /\ written \in Int
  BY DEF Write, Once, TypeOK
<1>2. seen' = [seen EXCEPT !.heads = (@ \ V) \cup {written + 2}]
  BY DEF Write
<1> QED BY <1>1, <1>2 DEF Latest, TypeOK

LEMMA TheirsDoes ==
  ASSUME TypeOK, Theirs
  PROVE  /\ server'.ver = written + 2 /\ NewEtag /\ NewDir /\ written' = written + 1
         /\ seen'.heads = (seen.heads \ {server.ver}) \cup {written + 2}
         /\ seen'.since = (seen.since \/ run.at \in {"put", "sent"})
         /\ seen'.excused = seen.excused /\ seen'.gaps = seen.gaps
         /\ UNCHANGED << local, app, pin, parked, base, events, queue, run, pass, sweep, paused, told, calm, can >>
<1>1. UNCHANGED << local, app, pin, parked, base, events, queue, run, pass, sweep, paused, told, calm, can >>
  BY DEF Theirs, file, work
<1>2. written' = written + 1 /\ Latest = written + 2
  BY DEF Theirs, Once, Latest, TypeOK
<1>3. server'.ver = written + 2 /\ NewEtag /\ NewDir
  BY <1>2, ChangedDoes DEF Theirs
<1>4. /\ seen'.heads = (seen.heads \ {server.ver}) \cup {written + 2}
      /\ seen'.since = (seen.since \/ run.at \in {"put", "sent"})
      /\ seen'.excused = seen.excused /\ seen'.gaps = seen.gaps
  <2> DEFINE m == Meanwhile
             h == (seen.heads \ {server.ver}) \cup {written + 2}
  <2>1. seen' = [seen EXCEPT !.heads = h, !.since = m]
    BY <1>2 DEF Theirs
  <2> HIDE DEF m, h
  <2>2. seen'.heads = h /\ seen'.since = m /\ seen'.excused = seen.excused /\ seen'.gaps = seen.gaps
    BY <2>1 DEF TypeOK
  <2> QED BY <2>2 DEF m, h, Meanwhile
<1> QED BY <1>1, <1>2, <1>3, <1>4

LEMMA TouchDoes ==
  ASSUME TypeOK, Touch
  PROVE  /\ server.ver # 0 /\ server'.ver = server.ver /\ NewEtag /\ NewDir /\ written' = written + 1
         /\ UNCHANGED << local, app, pin, parked, base, events, queue, run, pass, sweep, paused, told, calm, can, seen >>
BY ChangedDoes DEF Touch, file, work, Once

LEMMA TheirRemovalDoes ==
  ASSUME TypeOK, TheirRemoval
  PROVE  /\ server.ver # 0 /\ server'.ver = 0 /\ server'.etag = 0 /\ NewDir
         /\ seen'.heads = seen.heads \ {server.ver}
         /\ seen'.since = seen.since /\ seen'.excused = seen.excused /\ seen'.gaps = seen.gaps
         /\ UNCHANGED << local, app, pin, parked, base, events, queue, run, pass, sweep,
                         paused, told, calm, written, can >>
<1>1. server.ver # 0 /\ server'.ver = 0 /\ server'.etag = 0 /\ NewDir
  BY GoneDoes DEF TheirRemoval
<1>2. /\ seen'.heads = seen.heads \ {server.ver}
      /\ seen'.since = seen.since /\ seen'.excused = seen.excused /\ seen'.gaps = seen.gaps
  BY DEF TheirRemoval, TypeOK
<1> QED BY <1>1, <1>2 DEF TheirRemoval, file, work, world

LEMMA PauseChangedDoes ==
  ASSUME TypeOK, PauseChanged
  PROVE  /\ run'.at = run.at /\ run'.stamp = run.stamp /\ run'.data = run.data
         /\ run'.etag = run.etag /\ run'.again = run.again
         /\ \/ queue'.timer = queue.timer /\ queue'.held = queue.held
            \/ queue'.timer = (queue.timer \/ queue.held) /\ queue'.held = FALSE
         /\ UNCHANGED << local, app, pin, server, parked, base, events, pass, sweep,
                         paused, calm, written, can, seen >>
<1>1. UNCHANGED << local, app, pin, server, parked, base, events, pass, sweep, paused, calm, written, can, seen >>
  BY DEF PauseChanged, file, sync
<1>2. CASE paused
  <2> DEFINE s == run.at \in Uploading \cup {"look", "restore", "settle"}
  <2>1. run' = [run EXCEPT !.stop = s] /\ UNCHANGED queue
    BY <1>2 DEF PauseChanged
  <2> HIDE DEF s
  <2> QED BY <1>1, <2>1 DEF TypeOK
<1>3. CASE ~paused
  <2>1. queue' = Released(queue) /\ UNCHANGED run
    BY <1>3 DEF PauseChanged
  <2>2. queue'.timer = (queue.timer \/ queue.held) /\ queue'.held = FALSE
    BY <2>1 DEF Released, TypeOK
  <2> QED BY <1>1, <2>1, <2>2
<1> QED BY <1>2, <1>3

LEMMA BeginDoes ==
  ASSUME TypeOK, Begin
  PROVE  /\ pass.at = "idle" /\ pass'.at = "read" /\ pass'.full = (~sweep.done \/ "lost" \in events)
         /\ pass'.known = server.dir /\ pass'.kind = "none" /\ pass'.stamp = 0
         /\ pass'.list.ver = 0 /\ pass'.list.etag = 0 /\ pass'.ok = TRUE
         /\ events' = events \ {"lost"}
         /\ UNCHANGED << local, app, pin, server, parked, base, queue, run, sweep, seen,
                         paused, told, calm, written, can >>
<1>1. UNCHANGED << local, app, pin, server, parked, base, queue, run, sweep, seen,
                   paused, told, calm, written, can >>
  BY DEF Begin, PassOnly, world
<1>2. pass.at = "idle" /\ events' = events \ {"lost"}
  BY DEF Begin
<1> DEFINE f == ~sweep.done \/ "lost" \in events
<1>3. pass' = [NoPass EXCEPT !.at = "read", !.full = f, !.known = server.dir]
  BY DEF Begin
<1> HIDE DEF f
<1>4. /\ pass'.at = "read" /\ pass'.full = f
      /\ pass'.known = server.dir /\ pass'.kind = "none" /\ pass'.stamp = 0
      /\ pass'.list.ver = 0 /\ pass'.list.etag = 0 /\ pass'.ok = TRUE
  BY <1>3 DEF NoPass, NoListing
<1> QED BY <1>1, <1>2, <1>4 DEF f

\* The numbers up to the last write.
LEMMA MadeIs ==
  ASSUME Fresh, UNCHANGED written
  PROVE  Made' = Made /\ 0 \in Made
BY DEF Fresh, Made

LEMMA EditDoes ==
  ASSUME TypeOK, Edit
  PROVE  /\ HasData /\ local'.kind = local.kind /\ local'.data = written + 2 /\ local'.stamp = written + 2
         /\ local'.sync = FALSE /\ local'.mod = (local.kind = "full") /\ written' = written + 1
         /\ seen'.heads = (seen.heads \ {app.ver, local.data}) \cup {written + 2}
         /\ seen'.excused = seen.excused /\ seen'.since = seen.since /\ seen'.gaps = seen.gaps
         /\ UNCHANGED << pin, server, parked, base, queue, run, pass, sweep, paused, told, calm, can >>
<1>1. HasData /\ Write({app.ver} \cup Shown) /\ Shown = {local.data}
  BY DEF Edit, Saves, Shown, HasData
<1>2. /\ written' = written + 1 /\ Latest = written + 2
      /\ seen'.heads = (seen.heads \ {app.ver, local.data}) \cup {written + 2}
      /\ seen'.excused = seen.excused /\ seen'.since = seen.since /\ seen'.gaps = seen.gaps
  BY <1>1, WriteDoes
<1> DEFINE m == local.kind = "full"
<1>3. local' = [local EXCEPT !.data = Latest, !.stamp = Latest, !.sync = FALSE, !.mod = m]
  BY DEF Edit, Saves
<1> HIDE DEF m
<1>4. /\ local'.kind = local.kind /\ local'.data = written + 2 /\ local'.stamp = written + 2
      /\ local'.sync = FALSE /\ local'.mod = m
  BY <1>2, <1>3 DEF TypeOK
<1>5. UNCHANGED << pin, server, parked, base, queue, run, pass, sweep, paused, told, calm, can >>
  BY DEF Edit, Saves, sync
<1> QED BY <1>1, <1>2, <1>4, <1>5 DEF m

(*************************************************************************)
(* Types.                                                                *)
(*************************************************************************)
TypeLocal  == local \in [kind: Kinds, data: Versions, sync: BOOLEAN, mod: BOOLEAN, stamp: Versions]
TypeApp    == app \in [ver: Versions, holds: BOOLEAN]
TypeServer == server \in [ver: Versions, etag: Etags, dir: Etags]
TypeBase   == base \in [etag: Etags \ {0}, key: Versions, dir: Etags, ver: Versions]
TypeQueue  == queue \in [timer: BOOLEAN, held: BOOLEAN, hushed: BOOLEAN, fetch: BOOLEAN, later: BOOLEAN]
TypeRun    == run \in [at: RunSteps, stamp: Versions, data: Versions, etag: Etags, again: BOOLEAN, stop: BOOLEAN]
TypePass   == pass \in [at: PassSteps, full: BOOLEAN, known: Etags, kind: Kinds, stamp: Versions,
                        list: Listing, ok: BOOLEAN]
TypeSweep  == sweep \in [done: BOOLEAN, owed: BOOLEAN]
TypeSeen   == seen \in [heads: SUBSET Versions, excused: SUBSET Versions, since: BOOLEAN,
                        gaps: SUBSET {"muted", "dropped", "left", "torn"}]
TypeRest   == /\ pin \in {"none", "pinned", "unpinned"} /\ parked \subseteq Versions
              /\ events \subseteq {"told", "lost"} /\ paused \in BOOLEAN /\ told \in BOOLEAN /\ calm \in BOOLEAN
              /\ can \in Cases /\ written \in 0 .. can.max
LEMMA TypeParts ==
  TypeOK <=> /\ TypeLocal /\ TypeApp /\ TypeServer /\ TypeBase /\ TypeQueue /\ TypeRun /\ TypePass /\ TypeSweep
             /\ TypeSeen /\ TypeRest
BY DEF TypeOK, TypeLocal, TypeApp, TypeServer, TypeBase, TypeQueue, TypeRun, TypePass, TypeSweep, TypeSeen, TypeRest
\* The bounds: a write that is made has a number, and so has a version somebody built on it.
LEMMA Bounds ==
  /\ 0 \in Versions /\ 1 \in Versions /\ 0 \in Etags /\ 1 .. EtagMax \subseteq Etags \ {0}
  /\ Versions \subseteq Int
BY OnDemandAssumption DEF OnDemandAssumption, Versions, Etags
LEMMA Room ==
  ASSUME TypeRest, Once
  PROVE  written' + 1 \in Versions /\ written + 2 \in Versions /\ written' \in 0 .. can.max
<1>1. can.max \in 0 .. WritesMax /\ WritesMax \in Nat
  BY OnDemandAssumption DEF OnDemandAssumption, TypeRest
<1> QED BY <1>1 DEF TypeRest, Once, Versions

\* What the helpers make has the type of what they are given.
LEMMA PStepTypes == ASSUME TypePass, NEW a, NEW b \in PassSteps, PStep(a, b) PROVE TypePass'
BY DEF TypePass, PStep
LEMMA ToTypes == ASSUME TypePass, NEW ok \in BOOLEAN, ToEnd(ok) \/ ToPins(ok) PROVE TypePass'
<1>1. "end" \in PassSteps /\ "pins" \in PassSteps /\ (pass.ok /\ ok) \in BOOLEAN BY DEF PassSteps
<1> DEFINE both == pass.ok /\ ok
<1>2. pass' = [pass EXCEPT !.at = "end", !.ok = both] \/ pass' = [pass EXCEPT !.at = "pins", !.ok = both]
  BY DEF ToEnd, ToPins
<1>3. both \in BOOLEAN BY <1>1
<1> HIDE DEF both
<1> QED BY <1>1, <1>2, <1>3 DEF TypePass
LEMMA StepTypes == ASSUME TypeRun, NEW a, NEW b \in RunSteps, Step(a, b) PROVE TypeRun'
BY DEF TypeRun, Step
LEMMA IdleTypes == Idle \in [at: RunSteps, stamp: Versions, data: Versions, etag: Etags, again: BOOLEAN, stop: BOOLEAN]
BY Bounds DEF Idle, RunSteps
LEMMA NoPassTypes == NoPass \in [at: PassSteps, full: BOOLEAN, known: Etags, kind: Kinds, stamp: Versions,
                                 list: Listing, ok: BOOLEAN]
BY Bounds DEF NoPass, NoListing, Listing, PassSteps, Kinds
LEMMA TimerTypes ==
  ASSUME TypeQueue, NEW t \in BOOLEAN, queue' = [queue EXCEPT !.timer = t] PROVE TypeQueue'
BY DEF TypeQueue
LEMMA EndsTypes == ASSUME TypeRun, TypeQueue, NEW timer \in BOOLEAN, Ends(timer) PROVE TypeRun' /\ TypeQueue'
<1> DEFINE t == queue.timer \/ timer \/ run.again
<1>1. queue' = [queue EXCEPT !.timer = t] BY DEF Ends
<1>2. t \in BOOLEAN OBVIOUS
<1> HIDE DEF t
<1> QED BY <1>1, <1>2, TimerTypes, IdleTypes DEF Ends, TypeRun
LEMMA FailsTypes == ASSUME TypeRun, TypeQueue, NEW s, Fails(s) PROVE TypeRun' /\ TypeQueue'
<1>1. CASE Ends(TRUE) BY <1>1, EndsTypes
<1>2. CASE Step(s, "hold") /\ UNCHANGED queue
  <2>1. "hold" \in RunSteps BY DEF RunSteps
  <2> QED BY <1>2, <2>1, StepTypes DEF TypeQueue
<1> QED BY <1>1, <1>2 DEF Fails
LEMMA InSyncTypes == ASSUME TypeLocal, local' = InSync(local) PROVE TypeLocal'
<1>1. "full" \in Kinds BY DEF Kinds
<1> QED BY <1>1 DEF TypeLocal, InSync
LEMMA FetchedTypes == ASSUME TypeLocal, TypeServer, local' = Fetched PROVE TypeLocal'
<1>1. "full" \in Kinds BY DEF Kinds
<1> QED BY <1>1 DEF TypeLocal, TypeServer, Fetched
LEMMA FreedTypes == ASSUME TypeLocal, local' = Freed PROVE TypeLocal'
<1>1. "stub" \in Kinds BY DEF Kinds
<1> QED BY <1>1 DEF TypeLocal, Freed
LEMMA ExcuseTypes == ASSUME TypeSeen, NEW V \in SUBSET Versions, Excuse(V) PROVE TypeSeen'
<1> DEFINE e == seen.excused \cup (V \ {0})
<1>1. seen' = [seen EXCEPT !.excused = e] BY DEF Excuse
<1>2. e \in SUBSET Versions BY DEF TypeSeen
<1> HIDE DEF e
<1> QED BY <1>1, <1>2 DEF TypeSeen
LEMMA GapTypes ==
  ASSUME TypeSeen, NEW g \in {"muted", "dropped", "left", "torn"},
         seen' = [seen EXCEPT !.gaps = @ \cup {g}]
  PROVE  TypeSeen'
<1> DEFINE e == seen.gaps \cup {g}
<1>1. seen' = [seen EXCEPT !.gaps = e] OBVIOUS
<1>2. e \in SUBSET {"muted", "dropped", "left", "torn"} BY DEF TypeSeen
<1> HIDE DEF e
<1> QED BY <1>1, <1>2 DEF TypeSeen
LEMMA SinceTypes == ASSUME TypeSeen, NEW s \in BOOLEAN, seen' = [seen EXCEPT !.since = s] PROVE TypeSeen'
BY DEF TypeSeen
LEMMA HeadsTypes ==
  ASSUME TypeSeen, NEW h \in SUBSET Versions, NEW s \in BOOLEAN,
         seen' = [seen EXCEPT !.heads = h] \/ seen' = [seen EXCEPT !.heads = h, !.since = s]
  PROVE  TypeSeen'
BY DEF TypeSeen
LEMMA WriteTypes == ASSUME TypeSeen, TypeRest, NEW V, Write(V) PROVE TypeSeen'
<1> DEFINE h == (seen.heads \ V) \cup {written + 2}
<1>1. seen' = [seen EXCEPT !.heads = h] BY DEF Write
<1>2. h \in SUBSET Versions BY Room DEF TypeSeen, Write
<1> HIDE DEF h
<1> QED BY <1>1, <1>2, HeadsTypes
LEMMA LeftToTypes == ASSUME TypeSeen, TypeLocal, LeftTo PROVE TypeSeen'
<1> DEFINE e == IF Looked THEN seen.excused \cup {local.data} ELSE seen.excused
           g == IF Sent THEN seen.gaps \cup {"left"} ELSE seen.gaps
<1>1. seen' = [seen EXCEPT !.excused = e, !.gaps = g] BY DEF LeftTo
<1>2. e \in SUBSET Versions BY DEF TypeSeen, TypeLocal
<1>3. g \in SUBSET {"muted", "dropped", "left", "torn"} BY DEF TypeSeen
<1> HIDE DEF e, g
<1> QED BY <1>1, <1>2, <1>3 DEF TypeSeen
LEMMA IfIdleTypes == ASSUME TypeQueue, queue' = IfIdle(queue) PROVE TypeQueue'
<1> DEFINE t == queue.timer \/ run.at = "idle"
<1>1. queue' = [queue EXCEPT !.timer = t] BY DEF IfIdle
<1>2. t \in BOOLEAN OBVIOUS
<1> HIDE DEF t
<1> QED BY <1>1, <1>2, TimerTypes
Queues == [timer: BOOLEAN, held: BOOLEAN, hushed: BOOLEAN, fetch: BOOLEAN, later: BOOLEAN]
LEMMA AskedTypes == ASSUME NEW q \in Queues PROVE Asked(q) \in Queues
BY DEF Asked, Queues
LEMMA ReleasedTypes == ASSUME NEW q \in Queues PROVE Released(q) \in Queues
<1> DEFINE t == q.timer \/ q.held
<1>1. Released(q) = [q EXCEPT !.timer = t, !.held = FALSE] BY DEF Released
<1>2. t \in BOOLEAN OBVIOUS
<1> HIDE DEF t
<1> QED BY <1>1, <1>2 DEF Queues
LEMMA AgainTypes == ASSUME NEW q \in Queues, queue' = [q EXCEPT !.timer = @ \/ run.again] PROVE TypeQueue'
<1> DEFINE t == q.timer \/ run.again
<1>1. queue' = [q EXCEPT !.timer = t] OBVIOUS
<1>2. t \in BOOLEAN OBVIOUS
<1> HIDE DEF t
<1> QED BY <1>1, <1>2 DEF Queues, TypeQueue
LEMMA RecordedTypes ==
  ASSUME TypeBase, TypePass, pass.list.etag # 0, base' = Recorded PROVE TypeBase'
<1>1. pass.list.ver \in Versions /\ pass.list.etag \in Etags \ {0} BY DEF TypePass, Listing
<1> DEFINE k == IF Keys THEN pass.list.ver ELSE 0
<1>2. k \in Versions BY <1>1, Bounds
<1>3. base' = [base EXCEPT !.etag = pass.list.etag, !.ver = pass.list.ver, !.key = k] BY DEF Recorded
<1> HIDE DEF k
<1> QED BY <1>1, <1>2, <1>3 DEF TypeBase
LEMMA AnsweredTypes ==
  ASSUME TypeBase, TypeRun, TypeServer, run.etag # 0, base' = Answered PROVE TypeBase'
<1>1. run.data \in Versions /\ run.etag \in Etags \ {0} /\ server.ver \in Versions BY DEF TypeRun, TypeServer
<1> DEFINE k == IF Keys /\ server.etag = run.etag THEN server.ver ELSE 0
<1>2. k \in Versions BY <1>1, Bounds
<1>3. base' = [base EXCEPT !.etag = run.etag, !.ver = run.data, !.key = k] BY DEF Answered
<1> HIDE DEF k
<1> QED BY <1>1, <1>2, <1>3 DEF TypeBase
LEMMA ChangedTypes ==
  ASSUME NEW v \in Versions, NEW e \in Etags, NEW d \in NewDirs, Changed(v, e, d) PROVE TypeServer'
BY DirsAreNew, Bounds DEF TypeServer, Changed

LEMMA TypeNext == TypeOK /\ Shapes /\ [Next]_vars => TypeOK'
<1> SUFFICES ASSUME TypeOK, Shapes, [Next]_vars PROVE TypeOK'
  OBVIOUS
<1>0. TypeLocal /\ TypeApp /\ TypeServer /\ TypeBase /\ TypeQueue /\ TypeRun /\ TypePass /\ TypeSweep /\
  TypeSeen /\ TypeRest BY TypeParts
<1>1. ASSUME NEW b \in BOOLEAN, Opens(b) PROVE TypeOK'
  <2>1. TypeServer' /\ TypeBase' /\ TypeQueue' /\ TypeRun' /\ TypePass' /\ TypeSweep' /\ TypeSeen'
        /\ TypeRest'
    BY <1>0, <1>1 DEF Opens, sync, work, world, TypeServer, TypeBase, TypeQueue, TypeRun, TypePass,
      TypeSweep, TypeSeen, TypeRest
  <2>2. TypeLocal'
    BY <1>0, <1>1, FetchedTypes DEF Opens
  <2>3. TypeApp'
    BY <1>0, <1>1, Bounds DEF Opens, CanRead, Fetched, sync, work, world, HasData, TypeApp, TypeLocal,
      TypeServer, TypeBase, TypeQueue, TypeRun, TypePass, TypeSweep, TypeSeen
  <2> QED BY <2>1, <2>2, <2>3 DEF TypeOK, TypeLocal, TypeApp, TypeServer, TypeBase, TypeQueue, TypeRun,
    TypePass, TypeSweep, TypeSeen, TypeRest
<1>2. ASSUME Closes PROVE TypeOK'
  <2>1. TypeLocal' /\ TypeServer' /\ TypeBase' /\ TypeQueue' /\ TypeRun' /\ TypePass' /\ TypeSweep'
        /\ TypeSeen' /\ TypeRest'
    BY <1>0, <1>2 DEF Closes, sync, work, world, TypeLocal, TypeServer, TypeBase, TypeQueue, TypeRun,
      TypePass, TypeSweep, TypeSeen, TypeRest
  <2>2. TypeApp'
    BY <1>0, <1>2, Bounds DEF Closes, sync, work, world, TypeApp, TypeLocal, TypeServer, TypeBase,
      TypeQueue, TypeRun, TypePass, TypeSweep, TypeSeen
  <2> QED BY <2>1, <2>2 DEF TypeOK, TypeLocal, TypeApp, TypeServer, TypeBase, TypeQueue, TypeRun,
    TypePass, TypeSweep, TypeSeen, TypeRest
<1>3. ASSUME Edit PROVE TypeOK'
  <2>1. TypeServer' /\ TypeBase' /\ TypeQueue' /\ TypeRun' /\ TypePass' /\ TypeSweep'
    BY <1>0, <1>3 DEF Edit, Saves, Write, Told, sync, TypeServer, TypeBase, TypeQueue, TypeRun, TypePass,
      TypeSweep
  <2>2. TypeLocal'
    BY <1>0, <1>3, Bounds, Room DEF Edit, Saves, Write, Latest, TypeLocal, HasData
  <2>3. TypeApp'
    BY <1>0, <1>3, Bounds, Room DEF Edit, HasData, Saves, Latest, Write, Shown, Told, sync, TypeApp,
      TypeLocal, TypeServer, TypeBase, TypeQueue, TypeRun, TypePass, TypeSweep, TypeSeen, TypeRest
  <2>4. TypeRest'
    BY <1>0, <1>3, Bounds, Room DEF Edit, HasData, Saves, Latest, Write, Shown, Told, sync, TypeRest,
      TypeLocal, TypeApp, TypeServer, TypeBase, TypeQueue, TypeRun, TypePass, TypeSweep, TypeSeen
  <2>5. TypeSeen'
    BY <1>0, <1>3, WriteTypes DEF Edit, Saves
  <2> QED BY <2>1, <2>2, <2>3, <2>4, <2>5 DEF TypeOK, TypeLocal, TypeApp, TypeServer, TypeBase, TypeQueue,
    TypeRun, TypePass, TypeSweep, TypeSeen, TypeRest
<1>4. ASSUME Save PROVE TypeOK'
  <2>1. TypeServer' /\ TypeBase' /\ TypeQueue' /\ TypeRun' /\ TypePass' /\ TypeSweep'
    BY <1>0, <1>4 DEF Save, Saves, Write, Told, sync, TypeServer, TypeBase, TypeQueue, TypeRun, TypePass,
      TypeSweep
  <2>2. TypeLocal'
    BY <1>0, <1>4, Bounds, Room DEF Save, Saves, Write, Latest, TypeLocal, Kinds
  <2>3. TypeApp'
    BY <1>0, <1>4, Bounds, Room DEF Save, Saves, Latest, Write, Shown, Told, sync, TypeApp, TypeLocal,
      TypeServer, TypeBase, TypeQueue, TypeRun, TypePass, TypeSweep, TypeSeen, TypeRest
  <2>4. TypeRest'
    BY <1>0, <1>4, Bounds, Room DEF Save, Saves, Latest, Write, Shown, Told, sync, TypeRest, TypeLocal,
      TypeApp, TypeServer, TypeBase, TypeQueue, TypeRun, TypePass, TypeSweep, TypeSeen
  <2>5. TypeSeen'
    BY <1>0, <1>4, WriteTypes DEF Save, Saves
  <2> QED BY <2>1, <2>2, <2>3, <2>4, <2>5 DEF TypeOK, TypeLocal, TypeApp, TypeServer, TypeBase, TypeQueue,
    TypeRun, TypePass, TypeSweep, TypeSeen, TypeRest
<1>5. ASSUME Jostle PROVE TypeOK'
  <2>1. TypeApp' /\ TypeServer' /\ TypeBase' /\ TypeQueue' /\ TypeRun' /\ TypePass' /\ TypeSweep' /\ TypeSeen'
    BY <1>0, <1>5 DEF Jostle, Told, sync, TypeApp, TypeServer, TypeBase, TypeQueue, TypeRun, TypePass,
      TypeSweep, TypeSeen
  <2>2. TypeLocal'
    BY <1>0, <1>5, Bounds, Room DEF Jostle, Placeholder, Told, sync, TypeLocal, TypeApp, TypeServer,
      TypeBase, TypeQueue, TypeRun, TypePass, TypeSweep, TypeSeen, TypeRest
  <2>3. TypeRest'
    BY <1>0, <1>5, Bounds, Room DEF Jostle, Placeholder, Told, sync, TypeRest, TypeLocal, TypeApp,
      TypeServer, TypeBase, TypeQueue, TypeRun, TypePass, TypeSweep, TypeSeen
  <2> QED BY <2>1, <2>2, <2>3 DEF TypeOK, TypeLocal, TypeApp, TypeServer, TypeBase, TypeQueue, TypeRun,
    TypePass, TypeSweep, TypeSeen, TypeRest
<1>6. ASSUME NEW p \in {"pinned", "unpinned"}, Pins(p) PROVE TypeOK'
  <2>1. TypeLocal' /\ TypeApp' /\ TypeServer' /\ TypeBase' /\ TypeQueue' /\ TypeRun' /\ TypePass'
        /\ TypeSweep' /\ TypeSeen'
    BY <1>0, <1>6 DEF Pins, Told, sync, world, TypeLocal, TypeApp, TypeServer, TypeBase, TypeQueue,
      TypeRun, TypePass, TypeSweep, TypeSeen
  <2>2. TypeRest'
    BY <1>0, <1>6, Bounds DEF Pins, Placeholder, Told, sync, world, TypeRest, TypeLocal, TypeApp,
      TypeServer, TypeBase, TypeQueue, TypeRun, TypePass, TypeSweep, TypeSeen
  <2> QED BY <2>1, <2>2 DEF TypeOK, TypeLocal, TypeApp, TypeServer, TypeBase, TypeQueue, TypeRun,
    TypePass, TypeSweep, TypeSeen, TypeRest
<1>7. ASSUME Theirs PROVE TypeOK'
  <2>1. TypeLocal' /\ TypeApp' /\ TypeBase' /\ TypeQueue' /\ TypeRun' /\ TypePass' /\ TypeSweep'
    BY <1>0, <1>7 DEF Theirs, file, work, TypeLocal, TypeApp, TypeBase, TypeQueue, TypeRun, TypePass,
      TypeSweep
  <2>2. TypeServer'
    <3>1. PICK e \in NewEtags, d \in NewDirs : Changed(Latest, e, d)
      BY <1>7 DEF Theirs
    <3> QED BY <1>0, <1>7, <3>1, Room, ChangedTypes, EtagsAreNew, Bounds DEF Theirs, Latest
  <2>3. TypeSeen'
    <3> DEFINE h == (seen.heads \ {server.ver}) \cup {Latest}
               s == Meanwhile
    <3>1. seen' = [seen EXCEPT !.heads = h, !.since = s]
      BY <1>7 DEF Theirs
    <3>2. h \in SUBSET Versions /\ s \in BOOLEAN
      BY <1>0, <1>7, Room DEF Theirs, Latest, TypeSeen, Meanwhile
    <3> HIDE DEF h, s
    <3> QED BY <1>0, <3>1, <3>2, HeadsTypes
  <2>4. TypeRest'
    BY <1>0, <1>7, Bounds, Room DEF Theirs, Changed, Latest, Meanwhile, file, work, TypeRest, TypeLocal,
      TypeApp, TypeServer, TypeBase, TypeQueue, TypeRun, TypePass, TypeSweep, TypeSeen
  <2> QED BY <2>1, <2>2, <2>3, <2>4 DEF TypeOK, TypeLocal, TypeApp, TypeServer, TypeBase, TypeQueue,
    TypeRun, TypePass, TypeSweep, TypeSeen, TypeRest
<1>8. ASSUME Touch PROVE TypeOK'
  <2>1. TypeLocal' /\ TypeApp' /\ TypeBase' /\ TypeQueue' /\ TypeRun' /\ TypePass' /\ TypeSweep' /\ TypeSeen'
    BY <1>0, <1>8 DEF Touch, file, work, TypeLocal, TypeApp, TypeBase, TypeQueue, TypeRun, TypePass,
      TypeSweep, TypeSeen
  <2>2. TypeServer'
    <3>1. PICK e \in NewEtags, d \in NewDirs : Changed(server.ver, e, d)
      BY <1>8 DEF Touch
    <3> QED BY <1>0, <3>1, ChangedTypes, EtagsAreNew, Bounds DEF TypeServer
  <2>3. TypeRest'
    BY <1>0, <1>8, Bounds, Room DEF Touch, Changed, file, work, TypeRest, TypeLocal, TypeApp, TypeServer,
      TypeBase, TypeQueue, TypeRun, TypePass, TypeSweep, TypeSeen
  <2> QED BY <2>1, <2>2, <2>3 DEF TypeOK, TypeLocal, TypeApp, TypeServer, TypeBase, TypeQueue, TypeRun,
    TypePass, TypeSweep, TypeSeen, TypeRest
<1>9. ASSUME TheirRemoval PROVE TypeOK'
  <2>1. TypeLocal' /\ TypeApp' /\ TypeBase' /\ TypeQueue' /\ TypeRun' /\ TypePass' /\ TypeSweep' /\ TypeRest'
    BY <1>0, <1>9 DEF TheirRemoval, file, work, world, TypeLocal, TypeApp, TypeBase, TypeQueue, TypeRun,
      TypePass, TypeSweep, TypeRest
  <2>2. TypeServer'
    <3>1. PICK d \in NewDirs : Changed(0, 0, d)
      BY <1>9 DEF TheirRemoval
    <3> QED BY <3>1, ChangedTypes, Bounds
  <2>3. TypeSeen'
    <3> DEFINE h == seen.heads \ {server.ver}
    <3>1. seen' = [seen EXCEPT !.heads = h] /\ h \in SUBSET Versions
      BY <1>0, <1>9 DEF TheirRemoval, TypeSeen
    <3> HIDE DEF h
    <3> QED BY <1>0, <3>1, HeadsTypes
  <2> QED BY <2>1, <2>2, <2>3 DEF TypeOK, TypeLocal, TypeApp, TypeServer, TypeBase, TypeQueue, TypeRun,
    TypePass, TypeSweep, TypeSeen, TypeRest
<1>10. ASSUME Notice PROVE TypeOK'
  <2>1. TypeLocal' /\ TypeApp' /\ TypeServer' /\ TypeBase' /\ TypeRun' /\ TypePass' /\ TypeSweep' /\ TypeSeen'
    BY <1>0, <1>10 DEF Notice, QueueOnly, file, sync, world, TypeLocal, TypeApp, TypeServer, TypeBase,
      TypeRun, TypePass, TypeSweep, TypeSeen
  <2>2. TypeRest'
    BY <1>0, <1>10, Bounds DEF Notice, QueueOnly, file, sync, world, TypeRest, TypeLocal, TypeApp,
      TypeServer, TypeBase, TypeQueue, TypeRun, TypePass, TypeSweep, TypeSeen
  <2>3. TypeQueue'
    BY <1>0, <1>10, Bounds DEF Notice, QueueOnly, file, sync, world, TypeQueue, TypeLocal, TypeApp,
      TypeServer, TypeBase, TypeRun, TypePass, TypeSweep, TypeSeen
  <2> QED BY <2>1, <2>2, <2>3 DEF TypeOK, TypeLocal, TypeApp, TypeServer, TypeBase, TypeQueue, TypeRun,
    TypePass, TypeSweep, TypeSeen, TypeRest
<1>11. ASSUME Overflow PROVE TypeOK'
  <2>1. TypeLocal' /\ TypeApp' /\ TypeServer' /\ TypeBase' /\ TypeQueue' /\ TypeRun' /\ TypePass'
        /\ TypeSweep' /\ TypeSeen'
    BY <1>0, <1>11 DEF Overflow, QueueOnly, file, sync, world, TypeLocal, TypeApp, TypeServer, TypeBase,
      TypeQueue, TypeRun, TypePass, TypeSweep, TypeSeen
  <2>2. TypeRest'
    BY <1>0, <1>11, Bounds DEF Overflow, QueueOnly, file, sync, world, TypeRest, TypeLocal, TypeApp,
      TypeServer, TypeBase, TypeQueue, TypeRun, TypePass, TypeSweep, TypeSeen
  <2> QED BY <2>1, <2>2 DEF TypeOK, TypeLocal, TypeApp, TypeServer, TypeBase, TypeQueue, TypeRun,
    TypePass, TypeSweep, TypeSeen, TypeRest
<1>12. ASSUME Expire PROVE TypeOK'
  <2>1. TypeLocal' /\ TypeApp' /\ TypeServer' /\ TypeBase' /\ TypeRun' /\ TypePass' /\ TypeSweep'
        /\ TypeSeen' /\ TypeRest'
    BY <1>0, <1>12 DEF Expire, QueueOnly, file, sync, world, TypeLocal, TypeApp, TypeServer, TypeBase,
      TypeRun, TypePass, TypeSweep, TypeSeen, TypeRest
  <2>2. TypeQueue'
    BY <1>0, <1>12, Bounds DEF Expire, QueueOnly, file, sync, world, TypeQueue, TypeLocal, TypeApp,
      TypeServer, TypeBase, TypeRun, TypePass, TypeSweep, TypeSeen
  <2> QED BY <2>1, <2>2 DEF TypeOK, TypeLocal, TypeApp, TypeServer, TypeBase, TypeQueue, TypeRun,
    TypePass, TypeSweep, TypeSeen, TypeRest
<1>13. ASSUME Backoff PROVE TypeOK'
  <2>1. TypeLocal' /\ TypeApp' /\ TypeServer' /\ TypeBase' /\ TypeRun' /\ TypePass' /\ TypeSweep'
        /\ TypeSeen' /\ TypeRest'
    BY <1>0, <1>13 DEF Backoff, QueueOnly, file, sync, world, TypeLocal, TypeApp, TypeServer, TypeBase,
      TypeRun, TypePass, TypeSweep, TypeSeen, TypeRest
  <2>2. TypeQueue'
    BY <1>0, <1>13, Bounds DEF Backoff, QueueOnly, file, sync, world, TypeQueue, TypeLocal, TypeApp,
      TypeServer, TypeBase, TypeRun, TypePass, TypeSweep, TypeSeen
  <2> QED BY <2>1, <2>2 DEF TypeOK, TypeLocal, TypeApp, TypeServer, TypeBase, TypeQueue, TypeRun,
    TypePass, TypeSweep, TypeSeen, TypeRest
<1>14. ASSUME Fetch PROVE TypeOK'
  <2>1. TypeApp' /\ TypeServer' /\ TypeBase' /\ TypeRun' /\ TypePass' /\ TypeSweep' /\ TypeSeen' /\ TypeRest'
    BY <1>0, <1>14 DEF Fetch, sync, world, TypeApp, TypeServer, TypeBase, TypeRun, TypePass, TypeSweep,
      TypeSeen, TypeRest
  <2>2. TypeLocal'
    BY <1>0, <1>14, FetchedTypes DEF Fetch, TypeLocal
  <2>3. TypeQueue'
    BY <1>0, <1>14, Bounds DEF Fetch, TypeQueue
  <2> QED BY <2>1, <2>2, <2>3 DEF TypeOK, TypeLocal, TypeApp, TypeServer, TypeBase, TypeQueue, TypeRun,
    TypePass, TypeSweep, TypeSeen, TypeRest
<1>15. ASSUME Fire PROVE TypeOK'
  <2>1. TypeLocal' /\ TypeApp' /\ TypeServer' /\ TypeBase' /\ TypePass' /\ TypeSweep' /\ TypeSeen'
        /\ TypeRest'
    BY <1>0, <1>15 DEF Fire, RunOnly, world, TypeLocal, TypeApp, TypeServer, TypeBase, TypePass,
      TypeSweep, TypeSeen, TypeRest
  <2>2. TypeQueue'
    BY <1>0, <1>15, Bounds DEF Fire, RunOnly, world, TypeQueue, TypeLocal, TypeApp, TypeServer, TypeBase,
      TypeRun, TypePass, TypeSweep, TypeSeen
  <2>3. TypeRun'
    <3>1. "look" \in RunSteps
      BY DEF RunSteps
    <3> QED BY <1>0, <1>15, <3>1 DEF Fire, TypeRun, TypeLocal
  <2> QED BY <2>1, <2>2, <2>3 DEF TypeOK, TypeLocal, TypeApp, TypeServer, TypeBase, TypeQueue, TypeRun,
    TypePass, TypeSweep, TypeSeen, TypeRest
<1>16. ASSUME LookHushed PROVE TypeOK'
  <2>1. TypeLocal' /\ TypeApp' /\ TypeServer' /\ TypeBase' /\ TypePass' /\ TypeSweep' /\ TypeRest'
    BY <1>0, <1>16 DEF LookHushed, RunOnly, world, TypeLocal, TypeApp, TypeServer, TypeBase, TypePass,
      TypeSweep, TypeRest
  <2>2. TypeRun'
    BY <1>0, <1>16, EndsTypes DEF LookHushed, EndsAfter
  <2>3. TypeQueue'
    BY <1>0, <1>16, EndsTypes DEF LookHushed, EndsAfter
  <2>4. TypeSeen'
    <3>1. seen' = [seen EXCEPT !.gaps = IF NeedsUpload THEN @ \cup {"muted"} ELSE @]
      BY <1>16 DEF LookHushed
    <3>2. CASE NeedsUpload
      BY <1>0, <3>1, <3>2, GapTypes
    <3>3. CASE ~NeedsUpload
      BY <1>0, <3>1, <3>3 DEF TypeSeen
    <3> QED BY <3>2, <3>3
  <2> QED BY <2>1, <2>2, <2>3, <2>4 DEF TypeOK, TypeLocal, TypeApp, TypeServer, TypeBase, TypeQueue,
    TypeRun, TypePass, TypeSweep, TypeSeen, TypeRest
<1>17. ASSUME Look PROVE TypeOK'
  <2>1. TypeLocal' /\ TypeApp' /\ TypeServer' /\ TypeBase' /\ TypePass' /\ TypeSweep' /\ TypeSeen'
        /\ TypeRest'
    BY <1>0, <1>17 DEF Look, RunOnly, world, TypeLocal, TypeApp, TypeServer, TypeBase, TypePass,
      TypeSweep, TypeSeen, TypeRest
  <2>2. TypeRun'
    <3>1. EndsAfter("look", FALSE)
          \/ (UNCHANGED queue /\ (\E b \in {"restore", "settle", "hold", "check"} : Step("look", b)))
      BY <1>17 DEF Look
    <3>2. {"restore", "settle", "hold", "check"} \subseteq RunSteps
      BY DEF RunSteps
    <3> QED BY <1>0, <3>1, <3>2, EndsTypes, StepTypes DEF EndsAfter, TypeQueue
  <2>3. TypeQueue'
    <3>1. EndsAfter("look", FALSE)
          \/ (UNCHANGED queue /\ (\E b \in {"restore", "settle", "hold", "check"} : Step("look", b)))
      BY <1>17 DEF Look
    <3>2. {"restore", "settle", "hold", "check"} \subseteq RunSteps
      BY DEF RunSteps
    <3> QED BY <1>0, <3>1, <3>2, EndsTypes, StepTypes DEF EndsAfter, TypeQueue
  <2> QED BY <2>1, <2>2, <2>3 DEF TypeOK, TypeLocal, TypeApp, TypeServer, TypeBase, TypeQueue, TypeRun,
    TypePass, TypeSweep, TypeSeen, TypeRest
<1>18. ASSUME Restore PROVE TypeOK'
  <2>1. TypeApp' /\ TypeServer' /\ TypeBase' /\ TypeQueue' /\ TypePass' /\ TypeSweep' /\ TypeRest'
    BY <1>0, <1>18 DEF Restore, Restored, RunOnly, world, TypeApp, TypeServer, TypeBase, TypeQueue,
      TypePass, TypeSweep, TypeRest
  <2>2. TypeLocal'
    BY <1>0, <1>18, InSyncTypes DEF Restore, Restored, TypeLocal
  <2>3. TypeRun'
    <3>1. "settle" \in RunSteps
      BY DEF RunSteps
    <3> QED BY <1>0, <1>18, <3>1, StepTypes DEF Restore
  <2>4. TypeSeen'
    <3>1. (IF Placeholder /\ NeedsUpload THEN {local.data} ELSE {}) \in SUBSET Versions
      BY <1>0 DEF TypeLocal
    <3> QED BY <1>0, <1>18, <3>1, ExcuseTypes DEF Restore, Restored
  <2> QED BY <2>1, <2>2, <2>3, <2>4 DEF TypeOK, TypeLocal, TypeApp, TypeServer, TypeBase, TypeQueue,
    TypeRun, TypePass, TypeSweep, TypeSeen, TypeRest
<1>19. ASSUME Settle PROVE TypeOK'
  <2>1. TypeApp' /\ TypeServer' /\ TypeBase' /\ TypePass' /\ TypeSweep' /\ TypeSeen' /\ TypeRest'
    BY <1>0, <1>19 DEF Settle, RunOnly, world, TypeApp, TypeServer, TypeBase, TypePass, TypeSweep,
      TypeSeen, TypeRest
  <2>2. TypeLocal'
    BY <1>0, <1>19, FreedTypes DEF Settle, TypeLocal
  <2>3. TypeRun'
    BY <1>0, <1>19, IdleTypes DEF Settle, TypeRun
  <2>4. TypeQueue'
    <3>1. queue \in Queues
      BY <1>0 DEF TypeQueue, Queues
    <3> QED BY <1>19, <3>1, AskedTypes, AgainTypes DEF Settle
  <2> QED BY <2>1, <2>2, <2>3, <2>4 DEF TypeOK, TypeLocal, TypeApp, TypeServer, TypeBase, TypeQueue,
    TypeRun, TypePass, TypeSweep, TypeSeen, TypeRest
<1>20. ASSUME Hold PROVE TypeOK'
  <2>1. TypeLocal' /\ TypeApp' /\ TypeServer' /\ TypeBase' /\ TypePass' /\ TypeSweep' /\ TypeSeen'
        /\ TypeRest'
    BY <1>0, <1>20 DEF Hold, RunOnly, world, TypeLocal, TypeApp, TypeServer, TypeBase, TypePass,
      TypeSweep, TypeSeen, TypeRest
  <2>2. TypeRun'
    <3>1. "recheck" \in RunSteps
      BY DEF RunSteps
    <3> QED BY <1>0, <1>20, <3>1, StepTypes DEF Hold
  <2>3. TypeQueue'
    BY <1>0, <1>20, Bounds DEF Hold, Step, RunOnly, world, TypeQueue, TypeLocal, TypeApp, TypeServer,
      TypeBase, TypeRun, TypePass, TypeSweep, TypeSeen
  <2> QED BY <2>1, <2>2, <2>3 DEF TypeOK, TypeLocal, TypeApp, TypeServer, TypeBase, TypeQueue, TypeRun,
    TypePass, TypeSweep, TypeSeen, TypeRest
<1>21. ASSUME Recheck PROVE TypeOK'
  <2>1. TypeLocal' /\ TypeApp' /\ TypeServer' /\ TypeBase' /\ TypePass' /\ TypeSweep' /\ TypeSeen'
        /\ TypeRest'
    BY <1>0, <1>21 DEF Recheck, RunOnly, world, TypeLocal, TypeApp, TypeServer, TypeBase, TypePass,
      TypeSweep, TypeSeen, TypeRest
  <2>2. TypeRun'
    BY <1>0, <1>21, IdleTypes DEF Recheck, TypeRun
  <2>3. TypeQueue'
    <3>1. queue \in Queues
      BY <1>0 DEF TypeQueue, Queues
    <3> DEFINE q == IF paused THEN queue ELSE Released(queue)
    <3>2. q \in Queues
      BY <3>1, ReleasedTypes
    <3>3. queue' = [q EXCEPT !.timer = @ \/ run.again]
      BY <1>21 DEF Recheck
    <3> HIDE DEF q
    <3> QED BY <3>2, <3>3, AgainTypes
  <2> QED BY <2>1, <2>2, <2>3 DEF TypeOK, TypeLocal, TypeApp, TypeServer, TypeBase, TypeQueue, TypeRun,
    TypePass, TypeSweep, TypeSeen, TypeRest
<1>22. ASSUME Refused PROVE TypeOK'
  <2>1. TypeLocal' /\ TypeApp' /\ TypeServer' /\ TypeBase' /\ TypePass' /\ TypeSweep' /\ TypeSeen'
        /\ TypeRest'
    BY <1>0, <1>22 DEF Refused, RunOnly, world, TypeLocal, TypeApp, TypeServer, TypeBase, TypePass,
      TypeSweep, TypeSeen, TypeRest
  <2>2. TypeRun'
    BY <1>0, <1>22, FailsTypes DEF Refused
  <2>3. TypeQueue'
    BY <1>0, <1>22, FailsTypes DEF Refused
  <2> QED BY <2>1, <2>2, <2>3 DEF TypeOK, TypeLocal, TypeApp, TypeServer, TypeBase, TypeQueue, TypeRun,
    TypePass, TypeSweep, TypeSeen, TypeRest
<1>23. ASSUME Check PROVE TypeOK'
  <2>1. TypeApp' /\ TypeServer' /\ TypeBase' /\ TypeQueue' /\ TypePass' /\ TypeSweep' /\ TypeRest'
    BY <1>0, <1>23 DEF Check, RunOnly, world, TypeApp, TypeServer, TypeBase, TypeQueue, TypePass,
      TypeSweep, TypeRest
  <2>2. TypeLocal'
    BY <1>0, <1>23, FetchedTypes DEF Check, TypeLocal
  <2>3. TypeRun'
    <3>1. Step("check", "park") \/ Step("check", "put")
      BY <1>23 DEF Check
    <3>2. "park" \in RunSteps /\ "put" \in RunSteps
      BY DEF RunSteps
    <3> QED BY <1>0, <3>1, <3>2, StepTypes
  <2>4. TypeSeen'
    <3> DEFINE s == local'.kind \in {"none", "stub"}
    <3>1. seen' = [seen EXCEPT !.since = s] /\ s \in BOOLEAN
      BY <1>23 DEF Check
    <3> HIDE DEF s
    <3> QED BY <1>0, <3>1, SinceTypes
  <2> QED BY <2>1, <2>2, <2>3, <2>4 DEF TypeOK, TypeLocal, TypeApp, TypeServer, TypeBase, TypeQueue,
    TypeRun, TypePass, TypeSweep, TypeSeen, TypeRest
<1>24. ASSUME Park PROVE TypeOK'
  <2>1. TypeLocal' /\ TypeApp' /\ TypeBase' /\ TypePass' /\ TypeSweep' /\ TypeSeen'
    BY <1>0, <1>24 DEF Park, world, TypeLocal, TypeApp, TypeBase, TypePass, TypeSweep, TypeSeen
  <2>2. TypeServer'
    <3>1. UNCHANGED server \/ \E d \in NewDirs : Changed(0, 0, d)
      BY <1>24 DEF Park
    <3> QED BY <1>0, <3>1, ChangedTypes, Bounds DEF TypeServer
  <2>3. TypeRest'
    BY <1>0, <1>24, Bounds DEF Park, Fails, Step, Changed, world, Ends, Idle, TypeRest, TypeLocal,
      TypeApp, TypeServer, TypeBase, TypeQueue, TypeRun, TypePass, TypeSweep, TypeSeen
  <2>4. TypeRun'
    <3>1. Fails("park") \/ (Step("park", "put") /\ UNCHANGED queue)
      BY <1>24 DEF Park
    <3>2. "put" \in RunSteps
      BY DEF RunSteps
    <3> QED BY <1>0, <3>1, <3>2, FailsTypes, StepTypes DEF TypeQueue
  <2>5. TypeQueue'
    <3>1. Fails("park") \/ (Step("park", "put") /\ UNCHANGED queue)
      BY <1>24 DEF Park
    <3>2. "put" \in RunSteps
      BY DEF RunSteps
    <3> QED BY <1>0, <3>1, <3>2, FailsTypes, StepTypes DEF TypeQueue
  <2> QED BY <2>1, <2>2, <2>3, <2>4, <2>5 DEF TypeOK, TypeLocal, TypeApp, TypeServer, TypeBase, TypeQueue,
    TypeRun, TypePass, TypeSweep, TypeSeen, TypeRest
<1>25. ASSUME Read PROVE TypeOK'
  <2>1. TypeApp' /\ TypeServer' /\ TypeBase' /\ TypePass' /\ TypeSweep' /\ TypeSeen' /\ TypeRest'
    BY <1>0, <1>25 DEF Read, RunOnly, world, TypeApp, TypeServer, TypeBase, TypePass, TypeSweep, TypeSeen,
      TypeRest
  <2>2. TypeLocal'
    BY <1>0, <1>25, FetchedTypes DEF Read, TypeLocal
  <2>3. TypeRun'
    <3>1. CASE CanRead
      <4>1. local' = Fetched /\ run' = [run EXCEPT !.at = "sent", !.data = local'.data]
        BY <1>25, <3>1 DEF Read
      <4>2. "sent" \in RunSteps /\ TypeLocal'
        BY <1>0, <4>1, FetchedTypes DEF RunSteps
      <4> DEFINE v == local'.data
      <4>3. v \in Versions /\ run' = [run EXCEPT !.at = "sent", !.data = v]
        BY <4>1, <4>2 DEF TypeLocal
      <4> HIDE DEF v
      <4> QED BY <1>0, <4>2, <4>3 DEF TypeRun
    <3>2. CASE ~CanRead
      BY <1>0, <1>25, <3>2, FailsTypes DEF Read
    <3> QED BY <3>1, <3>2
  <2>4. TypeQueue'
    BY <1>0, <1>25, FailsTypes DEF Read, TypeQueue
  <2> QED BY <2>1, <2>2, <2>3, <2>4 DEF TypeOK, TypeLocal, TypeApp, TypeServer, TypeBase, TypeQueue,
    TypeRun, TypePass, TypeSweep, TypeSeen, TypeRest
<1>26. ASSUME Land PROVE TypeOK'
  <2>1. TypeLocal' /\ TypeApp' /\ TypeBase' /\ TypePass' /\ TypeSweep' /\ TypeRest'
    BY <1>0, <1>26 DEF Land, RunOnly, world, TypeLocal, TypeApp, TypeBase, TypePass, TypeSweep, TypeRest
  <2>2. TypeServer'
    <3>1. PICK e \in NewEtags, d \in NewDirs : Changed(run.data, e, d)
      BY <1>26 DEF Land
    <3> QED BY <1>0, <3>1, ChangedTypes, EtagsAreNew, Bounds DEF TypeRun
  <2>3. TypeRun'
    <3>1. PICK e \in NewEtags : \/ run' = [run EXCEPT !.at = "landed", !.etag = e] /\ UNCHANGED queue
                                \/ Fails("sent")
      BY <1>26 DEF Land
    <3>2. e \in Etags /\ "landed" \in RunSteps
      BY EtagsAreNew, Bounds DEF RunSteps
    <3> QED BY <1>0, <3>1, <3>2, FailsTypes DEF TypeRun, TypeQueue
  <2>4. TypeQueue'
    <3>1. PICK e \in NewEtags : \/ run' = [run EXCEPT !.at = "landed", !.etag = e] /\ UNCHANGED queue
                                \/ Fails("sent")
      BY <1>26 DEF Land
    <3>2. e \in Etags /\ "landed" \in RunSteps
      BY EtagsAreNew, Bounds DEF RunSteps
    <3> QED BY <1>0, <3>1, <3>2, FailsTypes DEF TypeRun, TypeQueue
  <2>5. TypeSeen'
    <3>1. (IF seen.since THEN {server.ver} ELSE {}) \in SUBSET Versions
      BY <1>0 DEF TypeServer
    <3> QED BY <1>0, <1>26, <3>1, ExcuseTypes DEF Land
  <2> QED BY <2>1, <2>2, <2>3, <2>4, <2>5 DEF TypeOK, TypeLocal, TypeApp, TypeServer, TypeBase, TypeQueue,
    TypeRun, TypePass, TypeSweep, TypeSeen, TypeRest
<1>27. ASSUME Record PROVE TypeOK'
  <2>1. TypeLocal' /\ TypeApp' /\ TypeServer' /\ TypePass' /\ TypeSweep' /\ TypeSeen' /\ TypeRest'
    BY <1>0, <1>27 DEF Record, RunOnly, world, TypeLocal, TypeApp, TypeServer, TypePass, TypeSweep,
      TypeSeen, TypeRest
  <2>2. TypeBase'
    BY <1>0, <1>27, AnsweredTypes DEF Record, Shapes
  <2>3. TypeRun'
    <3>1. Ends(FALSE) \/ Ends(TRUE) \/ (Step("landed", "mark") /\ UNCHANGED queue)
      BY <1>27 DEF Record
    <3>2. "mark" \in RunSteps
      BY DEF RunSteps
    <3> QED BY <1>0, <3>1, <3>2, EndsTypes, StepTypes DEF TypeQueue
  <2>4. TypeQueue'
    <3>1. Ends(FALSE) \/ Ends(TRUE) \/ (Step("landed", "mark") /\ UNCHANGED queue)
      BY <1>27 DEF Record
    <3>2. "mark" \in RunSteps
      BY DEF RunSteps
    <3> QED BY <1>0, <3>1, <3>2, EndsTypes, StepTypes DEF TypeQueue
  <2> QED BY <2>1, <2>2, <2>3, <2>4 DEF TypeOK, TypeLocal, TypeApp, TypeServer, TypeBase, TypeQueue,
    TypeRun, TypePass, TypeSweep, TypeSeen, TypeRest
<1>28. ASSUME Mark PROVE TypeOK'
  <2>1. TypeApp' /\ TypeServer' /\ TypeBase' /\ TypePass' /\ TypeSweep' /\ TypeRest'
    BY <1>0, <1>28 DEF Mark, RunOnly, world, TypeApp, TypeServer, TypeBase, TypePass, TypeSweep, TypeRest
  <2>2. TypeLocal'
    BY <1>0, <1>28, InSyncTypes DEF Mark
  <2>3. TypeRun'
    BY <1>0, <1>28, EndsTypes DEF Mark, EndsAfter
  <2>4. TypeQueue'
    BY <1>0, <1>28, EndsTypes DEF Mark, EndsAfter
  <2>5. TypeSeen'
    <3>1. (IF local.data # run.data THEN {local.data} ELSE {}) \in SUBSET Versions
      BY <1>0 DEF TypeLocal
    <3> QED BY <1>0, <1>28, <3>1, ExcuseTypes DEF Mark
  <2> QED BY <2>1, <2>2, <2>3, <2>4, <2>5 DEF TypeOK, TypeLocal, TypeApp, TypeServer, TypeBase, TypeQueue,
    TypeRun, TypePass, TypeSweep, TypeSeen, TypeRest
<1>29. ASSUME NEW b \in BOOLEAN, Pause(b) PROVE TypeOK'
  <2>1. TypeLocal' /\ TypeApp' /\ TypeServer' /\ TypeBase' /\ TypeQueue' /\ TypeRun' /\ TypePass'
        /\ TypeSweep' /\ TypeSeen'
    BY <1>0, <1>29 DEF Pause, file, sync, work, TypeLocal, TypeApp, TypeServer, TypeBase, TypeQueue,
      TypeRun, TypePass, TypeSweep, TypeSeen
  <2>2. TypeRest'
    BY <1>0, <1>29, Bounds, Room DEF Pause, file, sync, work, TypeRest, TypeLocal, TypeApp, TypeServer,
      TypeBase, TypeQueue, TypeRun, TypePass, TypeSweep, TypeSeen
  <2> QED BY <2>1, <2>2 DEF TypeOK, TypeLocal, TypeApp, TypeServer, TypeBase, TypeQueue, TypeRun,
    TypePass, TypeSweep, TypeSeen, TypeRest
<1>30. ASSUME PauseChanged PROVE TypeOK'
  <2>1. TypeLocal' /\ TypeApp' /\ TypeServer' /\ TypeBase' /\ TypePass' /\ TypeSweep' /\ TypeSeen'
    BY <1>0, <1>30 DEF PauseChanged, file, sync, TypeLocal, TypeApp, TypeServer, TypeBase, TypePass,
      TypeSweep, TypeSeen
  <2>2. TypeRun'
    <3> DEFINE s == run.at \in Uploading \cup {"look", "restore", "settle"}
    <3>1. UNCHANGED run \/ run' = [run EXCEPT !.stop = s]
      BY <1>30 DEF PauseChanged
    <3>2. s \in BOOLEAN
      OBVIOUS
    <3> HIDE DEF s
    <3> QED BY <1>0, <3>1, <3>2 DEF TypeRun
  <2>3. TypeQueue'
    <3>1. UNCHANGED queue \/ queue' = Released(queue)
      BY <1>30 DEF PauseChanged
    <3>2. queue \in Queues
      BY <1>0 DEF TypeQueue, Queues
    <3> QED BY <3>1, <3>2, ReleasedTypes DEF TypeQueue, Queues
  <2>4. TypeRest'
    BY <1>0, <1>30, Bounds DEF PauseChanged, Uploading, Released, file, sync, TypeRest, TypeLocal,
      TypeApp, TypeServer, TypeBase, TypeQueue, TypeRun, TypePass, TypeSweep, TypeSeen
  <2> QED BY <2>1, <2>2, <2>3, <2>4 DEF TypeOK, TypeLocal, TypeApp, TypeServer, TypeBase, TypeQueue,
    TypeRun, TypePass, TypeSweep, TypeSeen, TypeRest
<1>31. ASSUME Poll PROVE TypeOK'
  <2>1. TypeLocal' /\ TypeApp' /\ TypeServer' /\ TypeBase' /\ TypeRun' /\ TypePass' /\ TypeSweep'
        /\ TypeSeen' /\ TypeRest'
    BY <1>0, <1>31 DEF Poll, QueueOnly, file, sync, world, TypeLocal, TypeApp, TypeServer, TypeBase,
      TypeRun, TypePass, TypeSweep, TypeSeen, TypeRest
  <2>2. TypeQueue'
    <3>1. UNCHANGED queue \/ queue' = Released(queue)
      BY <1>31 DEF Poll
    <3>2. queue \in Queues
      BY <1>0 DEF TypeQueue, Queues
    <3> QED BY <3>1, <3>2, ReleasedTypes DEF TypeQueue, Queues
  <2> QED BY <2>1, <2>2 DEF TypeOK, TypeLocal, TypeApp, TypeServer, TypeBase, TypeQueue, TypeRun,
    TypePass, TypeSweep, TypeSeen, TypeRest
<1>32. ASSUME Begin PROVE TypeOK'
  <2>1. TypeLocal' /\ TypeApp' /\ TypeServer' /\ TypeBase' /\ TypeQueue' /\ TypeRun' /\ TypeSweep'
        /\ TypeSeen'
    BY <1>0, <1>32 DEF Begin, PassOnly, world, TypeLocal, TypeApp, TypeServer, TypeBase, TypeQueue,
      TypeRun, TypeSweep, TypeSeen
  <2>2. TypeRest'
    BY <1>0, <1>32, Bounds DEF Begin, NoPass, PassOnly, NoListing, world, TypeRest, TypeLocal, TypeApp,
      TypeServer, TypeBase, TypeQueue, TypeRun, TypePass, TypeSweep, TypeSeen
  <2>3. TypePass'
    <3> DEFINE f == ~sweep.done \/ "lost" \in events
    <3>1. pass' = [NoPass EXCEPT !.at = "read", !.full = f, !.known = server.dir]
      BY <1>32 DEF Begin
    <3>2. "read" \in PassSteps /\ f \in BOOLEAN /\ server.dir \in Etags
      BY <1>0 DEF PassSteps, TypeServer
    <3> HIDE DEF f
    <3> QED BY <3>1, <3>2, NoPassTypes DEF TypePass
  <2> QED BY <2>1, <2>2, <2>3 DEF TypeOK, TypeLocal, TypeApp, TypeServer, TypeBase, TypeQueue, TypeRun,
    TypePass, TypeSweep, TypeSeen, TypeRest
<1>33. ASSUME RootFails PROVE TypeOK'
  <2>1. TypeLocal' /\ TypeApp' /\ TypeServer' /\ TypeBase' /\ TypeQueue' /\ TypeRun' /\ TypePass'
        /\ TypeSweep'
    BY <1>0, <1>33 DEF RootFails, PassOnly, world, TypeLocal, TypeApp, TypeServer, TypeBase, TypeQueue,
      TypeRun, TypePass, TypeSweep
  <2>2. TypeRest'
    BY <1>0, <1>33, Bounds DEF RootFails, PassOnly, world, TypeRest, TypeLocal, TypeApp, TypeServer,
      TypeBase, TypeQueue, TypeRun, TypePass, TypeSweep, TypeSeen
  <2>3. TypeSeen'
    BY <1>0, <1>33, Bounds DEF RootFails, PassOnly, world, TypeSeen, TypeLocal, TypeApp, TypeServer,
      TypeBase, TypeQueue, TypeRun, TypePass, TypeSweep
  <2> QED BY <2>1, <2>2, <2>3 DEF TypeOK, TypeLocal, TypeApp, TypeServer, TypeBase, TypeQueue, TypeRun,
    TypePass, TypeSweep, TypeSeen, TypeRest
<1>34. ASSUME ReadDir PROVE TypeOK'
  <2>1. TypeLocal' /\ TypeApp' /\ TypeServer' /\ TypeBase' /\ TypeQueue' /\ TypeRun' /\ TypeSeen' /\ TypeRest'
    BY <1>0, <1>34 DEF ReadDir, PassOnly, world, TypeLocal, TypeApp, TypeServer, TypeBase, TypeQueue,
      TypeRun, TypeSeen, TypeRest
  <2>2. TypePass'
    <3>1. pass' = NoPass \/ pass' = [pass EXCEPT !.at = "list", !.kind = local.kind, !.stamp = local.stamp]
      BY <1>34 DEF ReadDir
    <3>2. "list" \in PassSteps /\ local.kind \in Kinds /\ local.stamp \in Versions
      BY <1>0 DEF PassSteps, TypeLocal
    <3> QED BY <1>0, <3>1, <3>2, NoPassTypes DEF TypePass
  <2>3. TypeSweep'
    BY <1>0, <1>34, Bounds DEF ReadDir, TypeSweep
  <2> QED BY <2>1, <2>2, <2>3 DEF TypeOK, TypeLocal, TypeApp, TypeServer, TypeBase, TypeQueue, TypeRun,
    TypePass, TypeSweep, TypeSeen, TypeRest
<1>35. ASSUME List PROVE TypeOK'
  <2>1. TypeLocal' /\ TypeApp' /\ TypeServer' /\ TypeBase' /\ TypeQueue' /\ TypeRun' /\ TypeSweep'
        /\ TypeSeen' /\ TypeRest'
    BY <1>0, <1>35 DEF List, PassOnly, world, TypeLocal, TypeApp, TypeServer, TypeBase, TypeQueue,
      TypeRun, TypeSweep, TypeSeen, TypeRest
  <2>2. TypePass'
    <3> DEFINE l == [ver |-> server.ver, etag |-> server.etag]
    <3>1. pass' = [pass EXCEPT !.at = "act", !.list = l] \/ pass' = [pass EXCEPT !.at = "end", !.ok = FALSE]
      BY <1>35 DEF List
    <3>2. l \in Listing /\ "act" \in PassSteps /\ "end" \in PassSteps
      BY <1>0 DEF TypeServer, Listing, PassSteps
    <3> HIDE DEF l
    <3> QED BY <1>0, <3>1, <3>2 DEF TypePass
  <2> QED BY <2>1, <2>2 DEF TypeOK, TypeLocal, TypeApp, TypeServer, TypeBase, TypeQueue, TypeRun,
    TypePass, TypeSweep, TypeSeen, TypeRest
<1>36. ASSUME Vanished PROVE TypeOK'
  <2>1. TypeLocal' /\ TypeApp' /\ TypeServer' /\ TypeBase' /\ TypeRun' /\ TypeSweep' /\ TypeRest'
    BY <1>0, <1>36 DEF Vanished, PassOnly, world, TypeLocal, TypeApp, TypeServer, TypeBase, TypeRun,
      TypeSweep, TypeRest
  <2>2. TypeQueue'
    BY <1>0, <1>36, IfIdleTypes DEF Vanished, TypeQueue
  <2>3. TypePass'
    <3>1. (\E ok \in BOOLEAN : ToEnd(ok) \/ ToPins(ok)) \/ (\E a \in PassSteps, b \in {"remove"} : PStep(a, b))
      BY <1>36 DEF Vanished, PassSteps
    <3>2. {"remove"} \subseteq PassSteps
      BY DEF PassSteps
    <3> QED BY <1>0, <3>1, <3>2, ToTypes, PStepTypes
  <2>4. TypeSeen'
    BY <1>0, <1>36, LeftToTypes DEF Vanished
  <2> QED BY <2>1, <2>2, <2>3, <2>4 DEF TypeOK, TypeLocal, TypeApp, TypeServer, TypeBase, TypeQueue,
    TypeRun, TypePass, TypeSweep, TypeSeen, TypeRest
<1>37. ASSUME Remove PROVE TypeOK'
  <2>1. TypeApp' /\ TypeServer' /\ TypeBase' /\ TypeRun' /\ TypeSweep' /\ TypeRest'
    BY <1>0, <1>37 DEF Remove, PassOnly, world, TypeApp, TypeServer, TypeBase, TypeRun, TypeSweep,
      TypeRest
  <2>2. TypeQueue'
    BY <1>0, <1>37, Bounds DEF Remove, TypeQueue
  <2>3. TypeLocal'
    <3>1. UNCHANGED local \/ local' = Gone
      BY <1>37 DEF Remove
    <3>2. Gone \in [kind: Kinds, data: Versions, sync: BOOLEAN, mod: BOOLEAN, stamp: Versions]
      BY Bounds DEF Gone, Kinds
    <3> QED BY <1>0, <3>1, <3>2 DEF TypeLocal
  <2>4. TypePass'
    <3>1. (\E ok \in BOOLEAN : ToEnd(ok) \/ ToPins(ok))
      BY <1>37 DEF Remove, PassSteps
    <3> QED BY <1>0, <3>1, ToTypes, PStepTypes
  <2>5. TypeSeen'
    <3>1. Shown \cup Sending \in SUBSET Versions
      BY <1>0 DEF Shown, Sending, TypeLocal, TypeBase, TypeRun
    <3> QED BY <1>0, <1>37, <3>1, ExcuseTypes DEF Remove, TypeSeen
  <2> QED BY <2>1, <2>2, <2>3, <2>4, <2>5 DEF TypeOK, TypeLocal, TypeApp, TypeServer, TypeBase, TypeQueue,
    TypeRun, TypePass, TypeSweep, TypeSeen, TypeRest
<1>38. ASSUME Create PROVE TypeOK'
  <2>1. TypeApp' /\ TypeServer' /\ TypeQueue' /\ TypeRun' /\ TypeSweep' /\ TypeSeen' /\ TypeRest'
    BY <1>0, <1>38 DEF Create, PassOnly, world, TypeApp, TypeServer, TypeQueue, TypeRun, TypeSweep,
      TypeSeen, TypeRest
  <2>2. TypeLocal'
    <3> DEFINE f == [kind |-> "stub", data |-> pass.list.ver, sync |-> TRUE, mod |-> FALSE, stamp |-> pass.list.ver]
    <3>1. UNCHANGED local \/ local' = f
      BY <1>38 DEF Create
    <3>2. pass.list.ver \in Versions /\ "stub" \in Kinds
      BY <1>0 DEF TypePass, Listing, Kinds
    <3>3. f \in [kind: Kinds, data: Versions, sync: BOOLEAN, mod: BOOLEAN, stamp: Versions]
      BY <3>2
    <3> HIDE DEF f
    <3> QED BY <1>0, <3>1, <3>3 DEF TypeLocal
  <2>3. TypeBase'
    BY <1>0, <1>38, RecordedTypes DEF Create, There, Shapes, TypeBase
  <2>4. TypePass'
    <3>1. (\E ok \in BOOLEAN : ToEnd(ok) \/ ToPins(ok))
      BY <1>38 DEF Create, PassSteps
    <3> QED BY <1>0, <3>1, ToTypes, PStepTypes
  <2> QED BY <2>1, <2>2, <2>3, <2>4 DEF TypeOK, TypeLocal, TypeApp, TypeServer, TypeBase, TypeQueue,
    TypeRun, TypePass, TypeSweep, TypeSeen, TypeRest
<1>39. ASSUME Neither PROVE TypeOK'
  <2>1. TypeLocal' /\ TypeApp' /\ TypeServer' /\ TypeBase' /\ TypeQueue' /\ TypeRun' /\ TypeSweep'
        /\ TypeSeen' /\ TypeRest'
    BY <1>0, <1>39 DEF Neither, PassOnly, world, TypeLocal, TypeApp, TypeServer, TypeBase, TypeQueue,
      TypeRun, TypeSweep, TypeSeen, TypeRest
  <2>2. TypePass'
    <3>1. (\E ok \in BOOLEAN : ToEnd(ok) \/ ToPins(ok))
      BY <1>39 DEF Neither, PassSteps
    <3> QED BY <1>0, <3>1, ToTypes, PStepTypes
  <2> QED BY <2>1, <2>2 DEF TypeOK, TypeLocal, TypeApp, TypeServer, TypeBase, TypeQueue, TypeRun,
    TypePass, TypeSweep, TypeSeen, TypeRest
<1>40. ASSUME Heal PROVE TypeOK'
  <2>1. TypeApp' /\ TypeServer' /\ TypeRun' /\ TypeSweep' /\ TypeRest'
    BY <1>0, <1>40 DEF Heal, PassOnly, world, TypeApp, TypeServer, TypeRun, TypeSweep, TypeRest
  <2>2. TypeLocal'
    BY <1>0, <1>40, InSyncTypes DEF Heal, TypeLocal
  <2>3. TypeBase'
    BY <1>0, <1>40, RecordedTypes DEF Heal, There, Shapes, TypeBase
  <2>4. TypeQueue'
    BY <1>0, <1>40, IfIdleTypes DEF Heal, TypeQueue
  <2>5. TypePass'
    <3>1. (\E ok \in BOOLEAN : ToEnd(ok) \/ ToPins(ok))
      BY <1>40 DEF Heal, PassSteps
    <3> QED BY <1>0, <3>1, ToTypes, PStepTypes
  <2>6. TypeSeen'
    <3>1. LeftTo \/ Excuse(IF local.data # pass.list.ver THEN {local.data} ELSE {})
      BY <1>40 DEF Heal
    <3>2. (IF local.data # pass.list.ver THEN {local.data} ELSE {}) \in SUBSET Versions
      BY <1>0 DEF TypeLocal
    <3> QED BY <1>0, <3>1, <3>2, LeftToTypes, ExcuseTypes
  <2> QED BY <2>1, <2>2, <2>3, <2>4, <2>5, <2>6 DEF TypeOK, TypeLocal, TypeApp, TypeServer, TypeBase,
    TypeQueue, TypeRun, TypePass, TypeSweep, TypeSeen, TypeRest
<1>41. ASSUME Both PROVE TypeOK'
  <2>1. TypeLocal' /\ TypeApp' /\ TypeServer' /\ TypeBase' /\ TypeRun' /\ TypeSweep' /\ TypeRest'
    BY <1>0, <1>41 DEF Both, PassOnly, world, TypeLocal, TypeApp, TypeServer, TypeBase, TypeRun,
      TypeSweep, TypeRest
  <2>2. TypeQueue'
    BY <1>0, <1>41, IfIdleTypes DEF Both, TypeQueue
  <2>3. TypePass'
    <3>1. (\E ok \in BOOLEAN : ToEnd(ok) \/ ToPins(ok)) \/ (\E a \in PassSteps, b \in {"compare", "restore"} : PStep(a, b))
      BY <1>41 DEF Both, PassSteps
    <3>2. {"compare", "restore"} \subseteq PassSteps
      BY DEF PassSteps
    <3> QED BY <1>0, <3>1, <3>2, ToTypes, PStepTypes
  <2>4. TypeSeen'
    BY <1>0, <1>41, LeftToTypes DEF Both
  <2> QED BY <2>1, <2>2, <2>3, <2>4 DEF TypeOK, TypeLocal, TypeApp, TypeServer, TypeBase, TypeQueue,
    TypeRun, TypePass, TypeSweep, TypeSeen, TypeRest
<1>42. ASSUME RestoreToo PROVE TypeOK'
  <2>1. TypeApp' /\ TypeServer' /\ TypeBase' /\ TypeQueue' /\ TypeRun' /\ TypeSweep' /\ TypeRest'
    BY <1>0, <1>42 DEF RestoreToo, Restored, PassOnly, world, TypeApp, TypeServer, TypeBase, TypeQueue,
      TypeRun, TypeSweep, TypeRest
  <2>2. TypeLocal'
    BY <1>0, <1>42, InSyncTypes DEF RestoreToo, Restored, TypeLocal
  <2>3. TypePass'
    <3>1. "compare" \in PassSteps
      BY DEF PassSteps
    <3> QED BY <1>0, <1>42, <3>1, PStepTypes DEF RestoreToo
  <2>4. TypeSeen'
    <3>1. (IF Placeholder /\ NeedsUpload THEN {local.data} ELSE {}) \in SUBSET Versions
      BY <1>0 DEF TypeLocal
    <3> QED BY <1>0, <1>42, <3>1, ExcuseTypes DEF RestoreToo, Restored
  <2> QED BY <2>1, <2>2, <2>3, <2>4 DEF TypeOK, TypeLocal, TypeApp, TypeServer, TypeBase, TypeQueue,
    TypeRun, TypePass, TypeSweep, TypeSeen, TypeRest
<1>43. ASSUME Compare PROVE TypeOK'
  <2>1. TypeLocal' /\ TypeApp' /\ TypeServer' /\ TypeQueue' /\ TypeRun' /\ TypeSweep' /\ TypeSeen'
        /\ TypeRest'
    BY <1>0, <1>43 DEF Compare, PassOnly, world, TypeLocal, TypeApp, TypeServer, TypeQueue, TypeRun,
      TypeSweep, TypeSeen, TypeRest
  <2>2. TypeBase'
    <3>1. UNCHANGED base \/ base' = [base EXCEPT !.etag = pass.list.etag]
      BY <1>43 DEF Compare
    <3>2. pass.list.etag \in Etags \ {0}
      BY <1>0, <1>43 DEF Compare, Shapes, Going, TypePass, Listing
    <3> QED BY <1>0, <3>1, <3>2 DEF TypeBase
  <2>3. TypePass'
    <3>1. (\E ok \in BOOLEAN : ToEnd(ok) \/ ToPins(ok)) \/ (\E a \in PassSteps, b \in {"update"} : PStep(a, b))
      BY <1>43 DEF Compare, PassSteps
    <3>2. {"update"} \subseteq PassSteps
      BY DEF PassSteps
    <3> QED BY <1>0, <3>1, <3>2, ToTypes, PStepTypes
  <2> QED BY <2>1, <2>2, <2>3 DEF TypeOK, TypeLocal, TypeApp, TypeServer, TypeBase, TypeQueue, TypeRun,
    TypePass, TypeSweep, TypeSeen, TypeRest
<1>44. ASSUME Update PROVE TypeOK'
  <2>1. TypeApp' /\ TypeServer' /\ TypeBase' /\ TypeQueue' /\ TypeRun' /\ TypeSweep' /\ TypeRest'
    BY <1>0, <1>44 DEF Update, PassOnly, world, TypeApp, TypeServer, TypeBase, TypeQueue, TypeRun,
      TypeSweep, TypeRest
  <2>2. TypeLocal'
    <3> DEFINE v == IF local.kind = "stub" THEN pass.list.ver ELSE local.data
    <3>1. UNCHANGED local \/ local' = [local EXCEPT !.stamp = pass.list.ver, !.sync = TRUE, !.mod = FALSE, !.data = v]
      BY <1>44 DEF Update
    <3>2. v \in Versions /\ pass.list.ver \in Versions
      BY <1>0 DEF TypeLocal, TypePass, Listing
    <3> HIDE DEF v
    <3> QED BY <1>0, <3>1, <3>2 DEF TypeLocal
  <2>3. TypePass'
    <3>1. (\E ok \in BOOLEAN : ToEnd(ok) \/ ToPins(ok)) \/ (\E a \in PassSteps, b \in {"drop"} : PStep(a, b))
      BY <1>44 DEF Update, PassSteps
    <3>2. {"drop"} \subseteq PassSteps
      BY DEF PassSteps
    <3> QED BY <1>0, <3>1, <3>2, ToTypes, PStepTypes
  <2>4. TypeSeen'
    <3>1. \/ Excuse(IF NeedsUpload THEN {local.data} ELSE {}) \/ UNCHANGED seen
          \/ seen' = [seen EXCEPT !.gaps = @ \cup {"left"}]
      BY <1>44 DEF Update
    <3>2. (IF NeedsUpload THEN {local.data} ELSE {}) \in SUBSET Versions
      BY <1>0 DEF TypeLocal
    <3>3. UNCHANGED seen => TypeSeen'
      BY <1>0 DEF TypeSeen
    <3> QED BY <1>0, <3>1, <3>2, <3>3, ExcuseTypes, GapTypes
  <2> QED BY <2>1, <2>2, <2>3, <2>4 DEF TypeOK, TypeLocal, TypeApp, TypeServer, TypeBase, TypeQueue,
    TypeRun, TypePass, TypeSweep, TypeSeen, TypeRest
<1>45. ASSUME Drop PROVE TypeOK'
  <2>1. TypeApp' /\ TypeServer' /\ TypeBase' /\ TypeQueue' /\ TypeRun' /\ TypeSweep' /\ TypeRest'
    BY <1>0, <1>45 DEF Drop, PassOnly, world, TypeApp, TypeServer, TypeBase, TypeQueue, TypeRun,
      TypeSweep, TypeRest
  <2>2. TypeLocal'
    BY <1>0, <1>45, FreedTypes DEF Drop, TypeLocal
  <2>3. TypePass'
    <3>1. "record" \in PassSteps
      BY DEF PassSteps
    <3> QED BY <1>0, <1>45, <3>1, PStepTypes DEF Drop
  <2>4. TypeSeen'
    <3> DEFINE V == (IF Freeable THEN Sending ELSE {})
                 \cup (IF local'.kind = "stub" /\ local'.stamp = pass.list.ver THEN {} ELSE {pass.list.ver})
    <3>1. Excuse(V)
      BY <1>45 DEF Drop
    <3>2. V \in SUBSET Versions
      BY <1>0 DEF Sending, TypeLocal, TypeRun, TypePass, Listing
    <3> HIDE DEF V
    <3> QED BY <1>0, <3>1, <3>2, ExcuseTypes
  <2> QED BY <2>1, <2>2, <2>3, <2>4 DEF TypeOK, TypeLocal, TypeApp, TypeServer, TypeBase, TypeQueue,
    TypeRun, TypePass, TypeSweep, TypeSeen, TypeRest
<1>46. ASSUME RecordToo PROVE TypeOK'
  <2>1. TypeLocal' /\ TypeApp' /\ TypeServer' /\ TypeQueue' /\ TypeRun' /\ TypeSweep' /\ TypeSeen'
        /\ TypeRest'
    BY <1>0, <1>46 DEF RecordToo, PassOnly, world, TypeLocal, TypeApp, TypeServer, TypeQueue, TypeRun,
      TypeSweep, TypeSeen, TypeRest
  <2>2. TypeBase'
    BY <1>0, <1>46, RecordedTypes DEF RecordToo, PStep, Shapes, Going
  <2>3. TypePass'
    <3>1. "pins" \in PassSteps
      BY DEF PassSteps
    <3> QED BY <1>0, <1>46, <3>1, PStepTypes DEF RecordToo
  <2> QED BY <2>1, <2>2, <2>3 DEF TypeOK, TypeLocal, TypeApp, TypeServer, TypeBase, TypeQueue, TypeRun,
    TypePass, TypeSweep, TypeSeen, TypeRest
<1>47. ASSUME End PROVE TypeOK'
  <2>1. TypeLocal' /\ TypeApp' /\ TypeServer' /\ TypeRun' /\ TypeSeen' /\ TypeRest'
    BY <1>0, <1>47 DEF End, PassOnly, world, TypeLocal, TypeApp, TypeServer, TypeRun, TypeSeen, TypeRest
  <2>2. TypeBase'
    BY <1>0, <1>47, Bounds DEF End, TypeBase, TypePass
  <2>3. TypeQueue'
    <3>1. UNCHANGED queue \/ queue' = Asked(queue)
      BY <1>47 DEF End
    <3>2. queue \in Queues
      BY <1>0 DEF TypeQueue, Queues
    <3> QED BY <3>1, <3>2, AskedTypes DEF TypeQueue, Queues
  <2>4. TypeSweep'
    BY <1>0, <1>47, Bounds DEF End, TypeSweep
  <2>5. TypePass'
    BY <1>0, <1>47, NoPassTypes DEF End, TypePass
  <2> QED BY <2>1, <2>2, <2>3, <2>4, <2>5 DEF TypeOK, TypeLocal, TypeApp, TypeServer, TypeBase, TypeQueue,
    TypeRun, TypePass, TypeSweep, TypeSeen, TypeRest
<1>48. ASSUME NEW k \in Kinds, Crash(k) PROVE TypeOK'
  <2>1. TypeApp' /\ TypeServer' /\ TypeBase'
    BY <1>0, <1>48 DEF Crash, sync, TypeApp, TypeServer, TypeBase
  <2>2. TypeLocal'
    BY <1>0, <1>48, Bounds DEF Crash, TypeLocal
  <2>3. TypeRest'
    BY <1>0, <1>48, Bounds DEF Crash, Idle, NoPass, sync, NoListing, TypeRest, TypeLocal, TypeApp,
      TypeServer, TypeBase, TypeQueue, TypeRun, TypePass, TypeSweep, TypeSeen
  <2>4. TypeRun'
    BY <1>0, <1>48, IdleTypes DEF Crash, TypeRun
  <2>5. TypePass'
    BY <1>0, <1>48, NoPassTypes DEF Crash, TypePass
  <2>6. TypeQueue'
    BY <1>0, <1>48, Bounds DEF Crash, TypeQueue
  <2>7. TypeSweep'
    BY <1>0, <1>48, Bounds DEF Crash, Idle, NoPass, sync, NoListing, TypeSweep, TypeLocal, TypeApp,
      TypeServer, TypeBase, TypeQueue, TypeRun, TypePass, TypeSeen
  <2>8. TypeSeen'
    BY <1>0, <1>48, GapTypes DEF Crash, TypeSeen
  <2> QED BY <2>1, <2>2, <2>3, <2>4, <2>5, <2>6, <2>7, <2>8 DEF TypeOK, TypeLocal, TypeApp, TypeServer,
    TypeBase, TypeQueue, TypeRun, TypePass, TypeSweep, TypeSeen, TypeRest
<1>49. ASSUME Calm PROVE TypeOK'
  <2>1. TypeLocal' /\ TypeApp' /\ TypeServer' /\ TypeBase' /\ TypeQueue' /\ TypeRun' /\ TypePass'
        /\ TypeSweep' /\ TypeSeen'
    BY <1>0, <1>49 DEF Calm, file, sync, work, TypeLocal, TypeApp, TypeServer, TypeBase, TypeQueue,
      TypeRun, TypePass, TypeSweep, TypeSeen
  <2>2. TypeRest'
    BY <1>0, <1>49, Bounds DEF Calm, file, sync, work, TypeRest, TypeLocal, TypeApp, TypeServer, TypeBase,
      TypeQueue, TypeRun, TypePass, TypeSweep, TypeSeen
  <2> QED BY <2>1, <2>2 DEF TypeOK, TypeLocal, TypeApp, TypeServer, TypeBase, TypeQueue, TypeRun,
    TypePass, TypeSweep, TypeSeen, TypeRest
<1>50. CASE UNCHANGED vars
  BY <1>50 DEF TypeOK, vars, file, sync, work, world
<1> QED BY <1>1, <1>2, <1>3, <1>4, <1>5, <1>6, <1>7, <1>8, <1>9, <1>10, <1>11, <1>12, <1>13, <1>14, <1>15,
  <1>16, <1>17, <1>18, <1>19, <1>20, <1>21, <1>22, <1>23, <1>24, <1>25, <1>26, <1>27, <1>28, <1>29, <1>30,
  <1>31, <1>32, <1>33, <1>34, <1>35, <1>36, <1>37, <1>38, <1>39, <1>40, <1>41, <1>42, <1>43, <1>44, <1>45,
  <1>46, <1>47, <1>48, <1>49, <1>50 DEF Next, User, Server, Run, Pass

(*************************************************************************)
(* The placeholder keeps its shape, and an upload or a pass what it was  *)
(* begun with.                                                           *)
(*************************************************************************)
LEMMA ShapesNext == TypeOK /\ Shapes /\ Fresh /\ [Next]_vars => Shapes'
<1> SUFFICES ASSUME TypeOK, Shapes, Fresh, [Next]_vars PROVE Shapes'
  OBVIOUS
<1> USE DEF TypeOK, Shapes, Placeholder, Going, Fresh, Made
<1>1. ASSUME NEW b \in BOOLEAN, Opens(b) PROVE Shapes'
  BY <1>1 DEF Opens, CanRead, Fetched, sync, work, world, HasData
<1>2. ASSUME Closes PROVE Shapes'
  BY <1>2 DEF Closes, sync, work, world
<1>3. ASSUME Edit PROVE Shapes'
  BY <1>3 DEF Edit, HasData, Saves, Latest, Write, Shown, Told, sync, Once
<1>4. ASSUME Save PROVE Shapes'
  BY <1>4 DEF Save, Saves, Latest, Write, Shown, Told, sync, Once
<1>5. ASSUME Jostle PROVE Shapes'
  BY <1>5 DEF Jostle, Once, Told, sync
<1>6. ASSUME NEW p \in {"pinned", "unpinned"}, Pins(p) PROVE Shapes'
  BY <1>6 DEF Pins, Told, sync, world
<1>7. ASSUME Theirs PROVE Shapes'
  BY <1>7 DEF Theirs, Once, NewEtags, Changed, Latest, Meanwhile, file, work, Least
<1>8. ASSUME Touch PROVE Shapes'
  BY <1>8 DEF Touch, Once, NewEtags, Changed, file, work, Least
<1>9. ASSUME TheirRemoval PROVE Shapes'
  BY <1>9 DEF TheirRemoval, Changed, file, work, world
<1>10. ASSUME Notice PROVE Shapes'
  BY <1>10 DEF Notice, QueueOnly, file, sync, world
<1>11. ASSUME Overflow PROVE Shapes'
  BY <1>11 DEF Overflow, QueueOnly, file, sync, world
<1>12. ASSUME Expire PROVE Shapes'
  BY <1>12 DEF Expire, QueueOnly, file, sync, world
<1>13. ASSUME Backoff PROVE Shapes'
  BY <1>13 DEF Backoff, QueueOnly, file, sync, world
<1>14. ASSUME Fetch PROVE Shapes'
  <2> HIDE DEF TypeOK
  <2> QED BY <1>14, FetchDoes, FetchedIs
<1>15. ASSUME Fire PROVE Shapes'
  BY <1>15 DEF Fire, RunOnly, world
<1>16. ASSUME LookHushed PROVE Shapes'
  BY <1>16 DEF LookHushed, EndsAfter, NeedsUpload, RunOnly, Ends, world, Idle
<1>17. ASSUME Look PROVE Shapes'
  BY <1>17 DEF Look, EndsAfter, Step, NeedsUpload, RunOnly, Ends, world, Idle
<1>18. ASSUME Restore PROVE Shapes'
  BY <1>18 DEF Restore, Step, Restored, RunOnly, InSync, Excuse, NeedsUpload, world
<1>19. ASSUME Settle PROVE Shapes'
  BY <1>19 DEF Settle, Freeable, Freed, Idle, Asked, RunOnly, world
<1>20. ASSUME Hold PROVE Shapes'
  BY <1>20 DEF Hold, Step, RunOnly, world
<1>21. ASSUME Recheck PROVE Shapes'
  BY <1>21 DEF Recheck, Idle, Released, RunOnly, world
<1>22. ASSUME Refused PROVE Shapes'
  BY <1>22 DEF Refused, Uploading, Fails, RunOnly, Step, Ends, world, Idle
<1>23. ASSUME Check PROVE Shapes'
  BY <1>23 DEF Check, Step, Conflict, Compares, Fetched, RunOnly, EditedSince, SameBytes, world
<1>24. ASSUME Park PROVE Shapes'
  BY <1>24 DEF Park, Fails, Step, Changed, world, Ends, Idle
<1>25. ASSUME Read PROVE Shapes'
  <2> HIDE DEF TypeOK, Made
  <2>1. CASE UNCHANGED local /\ run'.at # "sent"
    BY <1>25, <2>1, ReadDoes DEF RunKeeps, RunStops, RunOver, SameRun
  <2>2. CASE CanRead /\ local' = Fetched /\ run'.at = "sent" /\ run'.data = local'.data
    BY <1>25, <2>2, ReadDoes, FetchedIs DEF RunKeeps, SameRun, CanRead, HasData
  <2> QED BY <1>25, <2>1, <2>2, ReadDoes DEF RunStops, RunOver
<1>26. ASSUME Land PROVE Shapes'
  <2> HIDE DEF TypeOK
  <2> QED BY <1>26, LandDoes DEF RunKeeps, SameRun, RunStops, RunOver, Excused, NewEtag, NewDir
<1>27. ASSUME Record PROVE Shapes'
  BY <1>27 DEF Record, Answered, Ends, Step, RunOnly, Idle, world
<1>28. ASSUME Mark PROVE Shapes'
  BY <1>28 DEF Mark, EndsAfter, InSync, Excuse, RunOnly, Ends, world, Idle
<1>29. ASSUME NEW b \in BOOLEAN, Pause(b) PROVE Shapes'
  BY <1>29 DEF Pause, Once, file, sync, work
<1>30. ASSUME PauseChanged PROVE Shapes'
  BY <1>30 DEF PauseChanged, Uploading, Released, file, sync
<1>31. ASSUME Poll PROVE Shapes'
  BY <1>31 DEF Poll, Released, QueueOnly, file, sync, world
<1>32. ASSUME Begin PROVE Shapes'
  BY <1>32 DEF Begin, NoPass, PassOnly, NoListing, world
<1>33. ASSUME RootFails PROVE Shapes'
  BY <1>33 DEF RootFails, PassOnly, world
<1>34. ASSUME ReadDir PROVE Shapes'
  <2> HIDE DEF TypeOK
  <2> QED BY <1>34, ReadDirDoes DEF PassOver, PassKeeps
<1>35. ASSUME List PROVE Shapes'
  <2> HIDE DEF TypeOK
  <2> QED BY <1>35, ListDoes DEF PassKeeps
<1>36. ASSUME Vanished PROVE Shapes'
  <2> HIDE DEF TypeOK
  <2> QED BY <1>36, VanishedDoes, LeftToDoes, IfIdleDoes DEF PassTo, SamePass, PassKeeps, Looked,
    NeedsUpload
<1>37. ASSUME Remove PROVE Shapes'
  <2> HIDE DEF TypeOK
  <2> QED BY <1>37, RemoveDoes DEF SamePass, Goes, Excused, Shown, Sending, Uploading, PassKeeps
<1>38. ASSUME Create PROVE Shapes'
  <2> HIDE DEF TypeOK
  <2> QED BY <1>38, CreateDoes, RecordedIs DEF SamePass, PassKeeps
<1>39. ASSUME Neither PROVE Shapes'
  BY <1>39 DEF Neither, Here, There, ToEnd, PassOnly, world
<1>40. ASSUME Heal PROVE Shapes'
  <2> HIDE DEF TypeOK, Made
  <2>1. CASE GoesInSync /\ base' = Recorded /\ local.kind # "none"
    BY <1>40, <2>1, HealDoes, RecordedIs DEF PassKeeps, PassTo, SamePass, GoesInSync
  <2>2. CASE UNCHANGED << local, base >>
    BY <1>40, <2>2, HealDoes DEF PassKeeps, PassTo, SamePass
  <2> QED BY <1>40, <2>1, <2>2, HealDoes
<1>41. ASSUME Both PROVE Shapes'
  <2> HIDE DEF TypeOK
  <2> QED BY <1>41, BothDoes, LeftToDoes, IfIdleDoes DEF PassTo, SamePass, PassKeeps, Looked, NeedsUpload
<1>42. ASSUME RestoreToo PROVE Shapes'
  BY <1>42 DEF RestoreToo, PStep, Restored, PassOnly, InSync, Excuse, NeedsUpload, world
<1>43. ASSUME Compare PROVE Shapes'
  <2> HIDE DEF TypeOK
  <2> QED BY <1>43, CompareDoes DEF PassTo, SamePass, PassKeeps
<1>44. ASSUME Update PROVE Shapes'
  <2> HIDE DEF TypeOK
  <2> QED BY <1>44, UpdateDoes DEF PassTo, SamePass, PassKeeps, Excused
<1>45. ASSUME Drop PROVE Shapes'
  BY <1>45 DEF Drop, PStep, Freeable, Freed, Excuse, Sending, PassOnly, Uploading, world
<1>46. ASSUME RecordToo PROVE Shapes'
  BY <1>46 DEF RecordToo, PStep, Recorded, PassOnly, world
<1>47. ASSUME End PROVE Shapes'
  BY <1>47 DEF End, NoPass, Asked, Complete, PassOnly, NoListing, world
<1>48. ASSUME NEW k \in Kinds, Crash(k) PROVE Shapes'
  BY <1>48 DEF Crash, Idle, NoPass, sync, NoListing
<1>49. ASSUME Calm PROVE Shapes'
  BY <1>49 DEF Calm, file, sync, work
<1>50. CASE UNCHANGED vars
  BY <1>50 DEF vars, file, sync, work, world
<1> HIDE DEF TypeOK, Shapes, Placeholder, Going, Fresh, Made
<1> QED BY <1>1, <1>2, <1>3, <1>4, <1>5, <1>6, <1>7, <1>8, <1>9, <1>10, <1>11, <1>12, <1>13, <1>14, <1>15,
  <1>16, <1>17, <1>18, <1>19, <1>20, <1>21, <1>22, <1>23, <1>24, <1>25, <1>26, <1>27, <1>28, <1>29, <1>30,
  <1>31, <1>32, <1>33, <1>34, <1>35, <1>36, <1>37, <1>38, <1>39, <1>40, <1>41, <1>42, <1>43, <1>44, <1>45,
  <1>46, <1>47, <1>48, <1>49, <1>50 DEF Next, User, Server, Run, Pass

(*************************************************************************)
(* A new write is later than every version somebody remembers.           *)
(*************************************************************************)
LEMMA FreshNext == TypeOK /\ Shapes /\ Fresh /\ [Next]_vars => Fresh'
<1> SUFFICES ASSUME TypeOK, Shapes, Fresh, [Next]_vars PROVE Fresh'
  OBVIOUS
<1> USE DEF TypeOK, Shapes, Placeholder, Going, Fresh, Made
<1>1. ASSUME NEW b \in BOOLEAN, Opens(b) PROVE Fresh'
  BY <1>1 DEF Opens, CanRead, Fetched, sync, work, world, HasData
<1>2. ASSUME Closes PROVE Fresh'
  BY <1>2 DEF Closes, sync, work, world
<1>3. ASSUME Edit PROVE Fresh'
  BY <1>3 DEF Edit, HasData, Saves, Latest, Write, Shown, Told, sync, Once
<1>4. ASSUME Save PROVE Fresh'
  BY <1>4 DEF Save, Saves, Latest, Write, Shown, Told, sync, Once
<1>5. ASSUME Jostle PROVE Fresh'
  BY <1>5 DEF Jostle, Once, Told, sync
<1>6. ASSUME NEW p \in {"pinned", "unpinned"}, Pins(p) PROVE Fresh'
  BY <1>6 DEF Pins, Told, sync, world
<1>7. ASSUME Theirs PROVE Fresh'
  BY <1>7 DEF Theirs, Once, NewEtags, Changed, Latest, Meanwhile, file, work, Least
<1>8. ASSUME Touch PROVE Fresh'
  BY <1>8 DEF Touch, Once, NewEtags, Changed, file, work, Least
<1>9. ASSUME TheirRemoval PROVE Fresh'
  BY <1>9 DEF TheirRemoval, Changed, file, work, world
<1>10. ASSUME Notice PROVE Fresh'
  BY <1>10 DEF Notice, QueueOnly, file, sync, world
<1>11. ASSUME Overflow PROVE Fresh'
  BY <1>11 DEF Overflow, QueueOnly, file, sync, world
<1>12. ASSUME Expire PROVE Fresh'
  BY <1>12 DEF Expire, QueueOnly, file, sync, world
<1>13. ASSUME Backoff PROVE Fresh'
  BY <1>13 DEF Backoff, QueueOnly, file, sync, world
<1>14. ASSUME Fetch PROVE Fresh'
  <2>1. Made' = Made /\ 0 \in Made
    BY <1>14, FetchDoes, MadeIs
  <2> HIDE DEF TypeOK, Made
  <2> QED BY <1>14, <2>1, FetchDoes, FetchedIs
<1>15. ASSUME Fire PROVE Fresh'
  BY <1>15 DEF Fire, RunOnly, world
<1>16. ASSUME LookHushed PROVE Fresh'
  BY <1>16 DEF LookHushed, EndsAfter, NeedsUpload, RunOnly, Ends, world, Idle
<1>17. ASSUME Look PROVE Fresh'
  BY <1>17 DEF Look, EndsAfter, Step, NeedsUpload, RunOnly, Ends, world, Idle
<1>18. ASSUME Restore PROVE Fresh'
  BY <1>18 DEF Restore, Step, Restored, RunOnly, InSync, Excuse, NeedsUpload, world
<1>19. ASSUME Settle PROVE Fresh'
  BY <1>19 DEF Settle, Freeable, Freed, Idle, Asked, RunOnly, world
<1>20. ASSUME Hold PROVE Fresh'
  BY <1>20 DEF Hold, Step, RunOnly, world
<1>21. ASSUME Recheck PROVE Fresh'
  BY <1>21 DEF Recheck, Idle, Released, RunOnly, world
<1>22. ASSUME Refused PROVE Fresh'
  BY <1>22 DEF Refused, Uploading, Fails, RunOnly, Step, Ends, world, Idle
<1>23. ASSUME Check PROVE Fresh'
  BY <1>23 DEF Check, Step, Conflict, Compares, Fetched, RunOnly, EditedSince, SameBytes, world
<1>24. ASSUME Park PROVE Fresh'
  BY <1>24 DEF Park, Fails, Step, Changed, world, Ends, Idle
<1>25. ASSUME Read PROVE Fresh'
  <2>1. Made' = Made /\ 0 \in Made
    BY <1>25, ReadDoes, MadeIs DEF RunKeeps
  <2> HIDE DEF TypeOK, Made
  <2> QED BY <1>25, <2>1, ReadDoes, FetchedIs DEF RunKeeps, SameRun, RunStops, RunOver, CanRead
<1>26. ASSUME Land PROVE Fresh'
  <2>1. Made' = Made /\ 0 \in Made
    BY <1>26, LandDoes, MadeIs DEF RunKeeps
  <2> HIDE DEF TypeOK, Made
  <2> QED BY <1>26, <2>1, LandDoes DEF RunKeeps, SameRun, RunStops, RunOver, Excused, NewEtag, NewDir
<1>27. ASSUME Record PROVE Fresh'
  BY <1>27 DEF Record, Answered, Ends, Step, RunOnly, Idle, world
<1>28. ASSUME Mark PROVE Fresh'
  BY <1>28 DEF Mark, EndsAfter, InSync, Excuse, RunOnly, Ends, world, Idle
<1>29. ASSUME NEW b \in BOOLEAN, Pause(b) PROVE Fresh'
  BY <1>29 DEF Pause, Once, file, sync, work
<1>30. ASSUME PauseChanged PROVE Fresh'
  BY <1>30 DEF PauseChanged, Uploading, Released, file, sync
<1>31. ASSUME Poll PROVE Fresh'
  BY <1>31 DEF Poll, Released, QueueOnly, file, sync, world
<1>32. ASSUME Begin PROVE Fresh'
  BY <1>32 DEF Begin, NoPass, PassOnly, NoListing, world
<1>33. ASSUME RootFails PROVE Fresh'
  BY <1>33 DEF RootFails, PassOnly, world
<1>34. ASSUME ReadDir PROVE Fresh'
  <2>1. Made' = Made /\ 0 \in Made
    BY <1>34, ReadDirDoes, MadeIs DEF PassKeeps
  <2> HIDE DEF TypeOK, Made
  <2> QED BY <1>34, <2>1, ReadDirDoes DEF PassOver, PassKeeps
<1>35. ASSUME List PROVE Fresh'
  <2>1. Made' = Made /\ 0 \in Made
    BY <1>35, ListDoes, MadeIs DEF PassKeeps
  <2> HIDE DEF TypeOK, Made
  <2> QED BY <1>35, <2>1, ListDoes DEF PassKeeps
<1>36. ASSUME Vanished PROVE Fresh'
  <2>1. Made' = Made /\ 0 \in Made
    BY <1>36, VanishedDoes, MadeIs DEF PassKeeps
  <2> HIDE DEF TypeOK, Made
  <2> QED BY <1>36, <2>1, VanishedDoes, LeftToDoes, IfIdleDoes DEF PassTo, SamePass, PassKeeps, Looked,
    NeedsUpload
<1>37. ASSUME Remove PROVE Fresh'
  <2>1. Made' = Made /\ 0 \in Made
    BY <1>37, RemoveDoes, MadeIs DEF PassKeeps
  <2> HIDE DEF TypeOK, Made
  <2> QED BY <1>37, <2>1, RemoveDoes DEF SamePass, Goes, Excused, Shown, Sending, Uploading, PassKeeps
<1>38. ASSUME Create PROVE Fresh'
  <2>1. Made' = Made /\ 0 \in Made
    BY <1>38, CreateDoes, MadeIs DEF PassKeeps
  <2> HIDE DEF TypeOK, Made
  <2> QED BY <1>38, <2>1, CreateDoes, RecordedIs DEF SamePass, PassKeeps
<1>39. ASSUME Neither PROVE Fresh'
  BY <1>39 DEF Neither, Here, There, ToEnd, PassOnly, world
<1>40. ASSUME Heal PROVE Fresh'
  <2>1. Made' = Made /\ 0 \in Made
    BY <1>40, HealDoes, MadeIs DEF PassKeeps
  <2> HIDE DEF TypeOK, Made
  <2> QED BY <1>40, <2>1, HealDoes, LeftToDoes, IfIdleDoes, RecordedIs DEF PassTo, SamePass, PassKeeps,
    GoesInSync, Excused, Looked, NeedsUpload
<1>41. ASSUME Both PROVE Fresh'
  <2>1. Made' = Made /\ 0 \in Made
    BY <1>41, BothDoes, MadeIs DEF PassKeeps
  <2> HIDE DEF TypeOK, Made
  <2> QED BY <1>41, <2>1, BothDoes, LeftToDoes, IfIdleDoes DEF PassTo, SamePass, PassKeeps, Looked,
    NeedsUpload
<1>42. ASSUME RestoreToo PROVE Fresh'
  BY <1>42 DEF RestoreToo, PStep, Restored, PassOnly, InSync, Excuse, NeedsUpload, world
<1>43. ASSUME Compare PROVE Fresh'
  <2>1. Made' = Made /\ 0 \in Made
    BY <1>43, CompareDoes, MadeIs DEF PassKeeps
  <2> HIDE DEF TypeOK, Made
  <2> QED BY <1>43, <2>1, CompareDoes DEF PassTo, SamePass, PassKeeps
<1>44. ASSUME Update PROVE Fresh'
  <2>1. Made' = Made /\ 0 \in Made
    BY <1>44, UpdateDoes, MadeIs DEF PassKeeps
  <2> HIDE DEF TypeOK, Made
  <2> QED BY <1>44, <2>1, UpdateDoes DEF PassTo, SamePass, PassKeeps, Excused
<1>45. ASSUME Drop PROVE Fresh'
  BY <1>45 DEF Drop, PStep, Freeable, Freed, Excuse, Sending, PassOnly, Uploading, world
<1>46. ASSUME RecordToo PROVE Fresh'
  BY <1>46 DEF RecordToo, PStep, Recorded, PassOnly, world
<1>47. ASSUME End PROVE Fresh'
  BY <1>47 DEF End, NoPass, Asked, Complete, PassOnly, NoListing, world
<1>48. ASSUME NEW k \in Kinds, Crash(k) PROVE Fresh'
  BY <1>48 DEF Crash, Idle, NoPass, sync, NoListing
<1>49. ASSUME Calm PROVE Fresh'
  BY <1>49 DEF Calm, file, sync, work
<1>50. CASE UNCHANGED vars
  BY <1>50 DEF vars, file, sync, work, world
<1> HIDE DEF TypeOK, Shapes, Placeholder, Going, Fresh, Made
<1> QED BY <1>1, <1>2, <1>3, <1>4, <1>5, <1>6, <1>7, <1>8, <1>9, <1>10, <1>11, <1>12, <1>13, <1>14, <1>15,
  <1>16, <1>17, <1>18, <1>19, <1>20, <1>21, <1>22, <1>23, <1>24, <1>25, <1>26, <1>27, <1>28, <1>29, <1>30,
  <1>31, <1>32, <1>33, <1>34, <1>35, <1>36, <1>37, <1>38, <1>39, <1>40, <1>41, <1>42, <1>43, <1>44, <1>45,
  <1>46, <1>47, <1>48, <1>49, <1>50 DEF Next, User, Server, Run, Pass

(*************************************************************************)
(* ETags are new: the ones somebody remembers go on naming one version.  *)
(*************************************************************************)
LEMMA NamesNext == TypeOK /\ Shapes /\ Fresh /\ Names /\ [Next]_vars => Names'
<1> SUFFICES ASSUME TypeOK, Shapes, Fresh, Names, [Next]_vars PROVE Names'
  OBVIOUS
<1> USE DEF TypeOK, Shapes, Placeholder, Going, Fresh, Made, Names
<1>1. ASSUME NEW b \in BOOLEAN, Opens(b) PROVE Names'
  BY <1>1 DEF Opens, CanRead, Fetched, sync, work, world, HasData
<1>2. ASSUME Closes PROVE Names'
  BY <1>2 DEF Closes, sync, work, world
<1>3. ASSUME Edit PROVE Names'
  BY <1>3 DEF Edit, HasData, Saves, Latest, Write, Shown, Told, sync, Once
<1>4. ASSUME Save PROVE Names'
  BY <1>4 DEF Save, Saves, Latest, Write, Shown, Told, sync, Once
<1>5. ASSUME Jostle PROVE Names'
  BY <1>5 DEF Jostle, Once, Told, sync
<1>6. ASSUME NEW p \in {"pinned", "unpinned"}, Pins(p) PROVE Names'
  BY <1>6 DEF Pins, Told, sync, world
<1>7. ASSUME Theirs PROVE Names'
  BY <1>7 DEF Theirs, Once, NewEtags, Changed, Latest, Meanwhile, file, work, Least
<1>8. ASSUME Touch PROVE Names'
  BY <1>8 DEF Touch, Once, NewEtags, Changed, file, work, Least
<1>9. ASSUME TheirRemoval PROVE Names'
  BY <1>9 DEF TheirRemoval, Changed, file, work, world
<1>10. ASSUME Notice PROVE Names'
  BY <1>10 DEF Notice, QueueOnly, file, sync, world
<1>11. ASSUME Overflow PROVE Names'
  BY <1>11 DEF Overflow, QueueOnly, file, sync, world
<1>12. ASSUME Expire PROVE Names'
  BY <1>12 DEF Expire, QueueOnly, file, sync, world
<1>13. ASSUME Backoff PROVE Names'
  BY <1>13 DEF Backoff, QueueOnly, file, sync, world
<1>14. ASSUME Fetch PROVE Names'
  BY <1>14 DEF Fetch, Fetched, sync, world
<1>15. ASSUME Fire PROVE Names'
  BY <1>15 DEF Fire, RunOnly, world
<1>16. ASSUME LookHushed PROVE Names'
  BY <1>16 DEF LookHushed, EndsAfter, NeedsUpload, RunOnly, Ends, world, Idle
<1>17. ASSUME Look PROVE Names'
  BY <1>17 DEF Look, EndsAfter, Step, NeedsUpload, RunOnly, Ends, world, Idle
<1>18. ASSUME Restore PROVE Names'
  BY <1>18 DEF Restore, Step, Restored, RunOnly, InSync, Excuse, NeedsUpload, world
<1>19. ASSUME Settle PROVE Names'
  BY <1>19 DEF Settle, Freeable, Freed, Idle, Asked, RunOnly, world
<1>20. ASSUME Hold PROVE Names'
  BY <1>20 DEF Hold, Step, RunOnly, world
<1>21. ASSUME Recheck PROVE Names'
  BY <1>21 DEF Recheck, Idle, Released, RunOnly, world
<1>22. ASSUME Refused PROVE Names'
  BY <1>22 DEF Refused, Uploading, Fails, RunOnly, Step, Ends, world, Idle
<1>23. ASSUME Check PROVE Names'
  BY <1>23 DEF Check, Step, Conflict, Compares, Fetched, RunOnly, EditedSince, SameBytes, world
<1>24. ASSUME Park PROVE Names'
  BY <1>24 DEF Park, Fails, Step, Changed, world, Ends, Idle
<1>25. ASSUME Read PROVE Names'
  <2> HIDE DEF TypeOK
  <2> QED BY <1>25, ReadDoes, FetchedIs DEF RunKeeps, SameRun, RunStops, RunOver, CanRead
<1>26. ASSUME Land PROVE Names'
  <2> HIDE DEF TypeOK
  <2> QED BY <1>26, LandDoes DEF RunKeeps, SameRun, RunStops, RunOver, Excused, NewEtag, NewDir
<1>27. ASSUME Record PROVE Names'
  BY <1>27 DEF Record, Answered, Ends, Step, RunOnly, Idle, world
<1>28. ASSUME Mark PROVE Names'
  BY <1>28 DEF Mark, EndsAfter, InSync, Excuse, RunOnly, Ends, world, Idle
<1>29. ASSUME NEW b \in BOOLEAN, Pause(b) PROVE Names'
  BY <1>29 DEF Pause, Once, file, sync, work
<1>30. ASSUME PauseChanged PROVE Names'
  BY <1>30 DEF PauseChanged, Uploading, Released, file, sync
<1>31. ASSUME Poll PROVE Names'
  BY <1>31 DEF Poll, Released, QueueOnly, file, sync, world
<1>32. ASSUME Begin PROVE Names'
  BY <1>32 DEF Begin, NoPass, PassOnly, NoListing, world
<1>33. ASSUME RootFails PROVE Names'
  BY <1>33 DEF RootFails, PassOnly, world
<1>34. ASSUME ReadDir PROVE Names'
  <2> HIDE DEF TypeOK
  <2> QED BY <1>34, ReadDirDoes DEF PassOver, PassKeeps
<1>35. ASSUME List PROVE Names'
  <2> HIDE DEF TypeOK
  <2> QED BY <1>35, ListDoes DEF PassKeeps
<1>36. ASSUME Vanished PROVE Names'
  <2> HIDE DEF TypeOK
  <2> QED BY <1>36, VanishedDoes, LeftToDoes, IfIdleDoes DEF PassTo, SamePass, PassKeeps, Looked,
    NeedsUpload
<1>37. ASSUME Remove PROVE Names'
  <2> HIDE DEF TypeOK
  <2> QED BY <1>37, RemoveDoes DEF SamePass, Goes, Excused, Shown, Sending, Uploading, PassKeeps
<1>38. ASSUME Create PROVE Names'
  <2> HIDE DEF TypeOK
  <2> QED BY <1>38, CreateDoes, RecordedIs DEF SamePass, PassKeeps
<1>39. ASSUME Neither PROVE Names'
  BY <1>39 DEF Neither, Here, There, ToEnd, PassOnly, world
<1>40. ASSUME Heal PROVE Names'
  <2> HIDE DEF TypeOK
  <2> QED BY <1>40, HealDoes, LeftToDoes, IfIdleDoes, RecordedIs DEF PassTo, SamePass, PassKeeps,
    GoesInSync, Excused, Looked, NeedsUpload
<1>41. ASSUME Both PROVE Names'
  <2> HIDE DEF TypeOK
  <2> QED BY <1>41, BothDoes, LeftToDoes, IfIdleDoes DEF PassTo, SamePass, PassKeeps, Looked, NeedsUpload
<1>42. ASSUME RestoreToo PROVE Names'
  BY <1>42 DEF RestoreToo, PStep, Restored, PassOnly, InSync, Excuse, NeedsUpload, world
<1>43. ASSUME Compare PROVE Names'
  <2> HIDE DEF TypeOK
  <2> QED BY <1>43, CompareDoes DEF PassTo, SamePass, PassKeeps
<1>44. ASSUME Update PROVE Names'
  <2> HIDE DEF TypeOK
  <2> QED BY <1>44, UpdateDoes DEF PassTo, SamePass, PassKeeps, Excused
<1>45. ASSUME Drop PROVE Names'
  BY <1>45 DEF Drop, PStep, Freeable, Freed, Excuse, Sending, PassOnly, Uploading, world
<1>46. ASSUME RecordToo PROVE Names'
  BY <1>46 DEF RecordToo, PStep, Recorded, PassOnly, world
<1>47. ASSUME End PROVE Names'
  BY <1>47 DEF End, NoPass, Asked, Complete, PassOnly, NoListing, world
<1>48. ASSUME NEW k \in Kinds, Crash(k) PROVE Names'
  BY <1>48 DEF Crash, Idle, NoPass, sync, NoListing
<1>49. ASSUME Calm PROVE Names'
  BY <1>49 DEF Calm, file, sync, work
<1>50. CASE UNCHANGED vars
  BY <1>50 DEF vars, file, sync, work, world
<1> HIDE DEF TypeOK, Shapes, Placeholder, Going, Fresh, Made, Names
<1> QED BY <1>1, <1>2, <1>3, <1>4, <1>5, <1>6, <1>7, <1>8, <1>9, <1>10, <1>11, <1>12, <1>13, <1>14, <1>15,
  <1>16, <1>17, <1>18, <1>19, <1>20, <1>21, <1>22, <1>23, <1>24, <1>25, <1>26, <1>27, <1>28, <1>29, <1>30,
  <1>31, <1>32, <1>33, <1>34, <1>35, <1>36, <1>37, <1>38, <1>39, <1>40, <1>41, <1>42, <1>43, <1>44, <1>45,
  <1>46, <1>47, <1>48, <1>49, <1>50 DEF Next, User, Server, Run, Pass

(*************************************************************************)
(* No step takes the last copy of a version, unless the version is       *)
(* excused.                                                              *)
(*************************************************************************)
LEMMA KeptNext == TypeOK /\ Shapes /\ Fresh /\ Names /\ Kept /\ [Next]_vars => Kept'
<1> SUFFICES ASSUME TypeOK, Shapes, Fresh, Names, Kept, [Next]_vars PROVE Kept'
  OBVIOUS
<1> USE DEF TypeOK, Shapes, Placeholder, Going, Fresh, Made, Names, Kept, NothingLost, CleanIsSafe,
  ListedIsSafe, SentIsSafe, KnownIsHere, CheckedIsHere, ReadIsHere, LandedIsHere, RecordedIsHere, HasData,
  CleanFull, Safe, Low, Holds, Shows
<1>1. ASSUME NEW b \in BOOLEAN, Opens(b) PROVE Kept'
  BY <1>1 DEF Opens, CanRead, Fetched, sync, work, world
<1>2. ASSUME Closes PROVE Kept'
  BY <1>2 DEF Closes, sync, work, world
<1>3. ASSUME Edit PROVE Kept'
  <2> HIDE DEF TypeOK, Going, Fresh, Made, Names, NothingLost, CleanIsSafe, ListedIsSafe, SentIsSafe,
    KnownIsHere, CheckedIsHere, ReadIsHere, LandedIsHere, RecordedIsHere
  <2>1. NothingLost'
    BY <1>3, EditDoes DEF NothingLost, Fresh, Made
  <2>2. CleanIsSafe'
    BY <1>3, EditDoes DEF CleanIsSafe
  <2>3. ListedIsSafe'
    BY <1>3, EditDoes DEF ListedIsSafe, Fresh, Made
  <2>4. SentIsSafe'
    BY <1>3, EditDoes DEF SentIsSafe, Fresh, Made
  <2>5. KnownIsHere'
    BY <1>3, EditDoes DEF KnownIsHere, Fresh, Made
  <2>6. CheckedIsHere'
    BY <1>3, EditDoes DEF CheckedIsHere, Fresh, Made
  <2>7. ReadIsHere'
    BY <1>3, EditDoes DEF ReadIsHere, Fresh, Made
  <2>8. LandedIsHere'
    BY <1>3, EditDoes DEF LandedIsHere, Fresh, Made
  <2>9. RecordedIsHere'
    BY <1>3, EditDoes DEF RecordedIsHere, Fresh, Made
  <2> QED BY <2>1, <2>2, <2>3, <2>4, <2>5, <2>6, <2>7, <2>8, <2>9
<1>4. ASSUME Save PROVE Kept'
  BY <1>4 DEF Save, Saves, Latest, Write, Shown, Told, sync, Once
<1>5. ASSUME Jostle PROVE Kept'
  BY <1>5 DEF Jostle, Once, Told, sync
<1>6. ASSUME NEW p \in {"pinned", "unpinned"}, Pins(p) PROVE Kept'
  BY <1>6 DEF Pins, Told, sync, world
<1>7. ASSUME Theirs PROVE Kept'
  <2>1. /\ server'.ver = written + 2 /\ seen'.heads = (seen.heads \ {server.ver}) \cup {written + 2}
        /\ seen'.since = (seen.since \/ run.at \in {"put", "sent"}) /\ seen'.excused = seen.excused
        /\ UNCHANGED << local, parked, base, run, pass >>
    BY <1>7, TheirsDoes
  <2>2. /\ written + 2 \notin {server.ver, local.data, base.ver, run.data, pass.list.ver}
        /\ written + 2 \notin parked \cup seen.excused
    BY DEF Fresh, Made
  <2> HIDE DEF TypeOK, Fresh, Made
  <2> QED BY <2>1, <2>2
<1>8. ASSUME Touch PROVE Kept'
  BY <1>8 DEF Touch, Once, NewEtags, Changed, file, work, Least
<1>9. ASSUME TheirRemoval PROVE Kept'
  BY <1>9 DEF TheirRemoval, Changed, file, work, world
<1>10. ASSUME Notice PROVE Kept'
  BY <1>10 DEF Notice, QueueOnly, file, sync, world
<1>11. ASSUME Overflow PROVE Kept'
  BY <1>11 DEF Overflow, QueueOnly, file, sync, world
<1>12. ASSUME Expire PROVE Kept'
  BY <1>12 DEF Expire, QueueOnly, file, sync, world
<1>13. ASSUME Backoff PROVE Kept'
  BY <1>13 DEF Backoff, QueueOnly, file, sync, world
<1>14. ASSUME Fetch PROVE Kept'
  <2> HIDE DEF TypeOK
  <2> QED BY <1>14, FetchDoes, FetchedIs
<1>15. ASSUME Fire PROVE Kept'
  BY <1>15 DEF Fire, RunOnly, world
<1>16. ASSUME LookHushed PROVE Kept'
  BY <1>16 DEF LookHushed, EndsAfter, NeedsUpload, RunOnly, Ends, world, Idle
<1>17. ASSUME Look PROVE Kept'
  BY <1>17 DEF Look, EndsAfter, Step, NeedsUpload, RunOnly, Ends, world, Idle
<1>18. ASSUME Restore PROVE Kept'
  BY <1>18 DEF Restore, Step, Restored, RunOnly, InSync, Excuse, NeedsUpload, world
<1>19. ASSUME Settle PROVE Kept'
  BY <1>19 DEF Settle, Freeable, Freed, Idle, Asked, RunOnly, world
<1>20. ASSUME Hold PROVE Kept'
  BY <1>20 DEF Hold, Step, RunOnly, world
<1>21. ASSUME Recheck PROVE Kept'
  BY <1>21 DEF Recheck, Idle, Released, RunOnly, world
<1>22. ASSUME Refused PROVE Kept'
  BY <1>22 DEF Refused, Uploading, Fails, RunOnly, Step, Ends, world, Idle
<1>23. ASSUME Check PROVE Kept'
  <2>0. local.kind \in {"none", "plain", "stub", "full"}
    BY DEF Kinds
  <2> HIDE DEF TypeOK, Fresh, Made
  <2>1. /\ run.at = "check" /\ seen'.heads = seen.heads /\ seen'.excused = seen.excused
        /\ seen'.since = (local'.kind \in {"none", "stub"}) /\ UNCHANGED << server, parked, base, pass >>
        /\ run'.at = "park" \/ (run'.at = "put" /\ ~Conflict)
    BY <1>23, CheckDoes DEF RunKeeps
  <2>2. CASE Compares /\ local' = Fetched
    <3>1. /\ local.kind = "stub" => local'.kind = "full" /\ local'.data = server.ver
          /\ local.kind # "stub" => local' = local
          /\ local'.mod = local.mod /\ local'.stamp = local.stamp
      BY <2>2, FetchedIs
    <3>2. local.kind # "stub" /\ run'.at = "put" => local.data = server.ver
      BY <2>1, <2>2 DEF Conflict, Compares, SameBytes
    <3>3. CASE local.kind = "stub"
      BY <2>1, <3>1, <3>3
    <3>4. CASE local.kind # "stub"
      BY <2>0, <2>1, <3>1, <3>2, <3>4
    <3> QED BY <3>3, <3>4
  <2>3. CASE ~Compares /\ UNCHANGED local
    <3>1. run'.at = "put" /\ server.ver # 0 => base.ver = server.ver
      BY <2>1, <2>3 DEF Names, Conflict, Compares, EditedSince, SameBytes
    <3> QED BY <2>1, <2>3, <3>1
  <2> QED BY <1>23, <2>2, <2>3, CheckDoes
<1>24. ASSUME Park PROVE Kept'
  BY <1>24 DEF Park, Fails, Step, Changed, world, Ends, Idle
<1>25. ASSUME Read PROVE Kept'
  <2> HIDE DEF TypeOK, Fresh, Made
  <2>1. run.at = "put" /\ UNCHANGED << server, parked, base, pass, seen >>
    BY <1>25, ReadDoes DEF RunKeeps
  <2>2. CASE UNCHANGED local /\ run'.at \in {"hold", "idle"}
    BY <2>1, <2>2
  <2>3. CASE CanRead /\ local' = Fetched /\ run'.at = "sent" /\ run'.data = local'.data
    <3>1. /\ local.kind = "stub" => local'.kind = "full" /\ local'.data = server.ver
          /\ local.kind # "stub" => local' = local
          /\ local'.mod = local.mod /\ local'.stamp = local.stamp
      BY <2>3, FetchedIs
    <3> QED BY <2>1, <2>3, <3>1 DEF CanRead
  <2> QED BY <1>25, <2>2, <2>3, ReadDoes DEF RunStops, RunOver
<1>26. ASSUME Land PROVE Kept'
  <2> HIDE DEF TypeOK, Fresh, Made
  <2>1. /\ run.at = "sent" /\ server'.ver = run.data /\ UNCHANGED << local, parked, base, pass >>
        /\ (run'.at = "landed" /\ run'.data = run.data) \/ run'.at \in {"hold", "idle"}
    BY <1>26, LandDoes DEF RunKeeps, RunStops, RunOver
  <2>2. /\ seen'.heads = seen.heads /\ seen'.since = seen.since /\ seen.excused \subseteq seen'.excused
        /\ seen.since /\ server.ver # 0 => server.ver \in seen'.excused
    BY <1>26, LandDoes DEF Excused
  <2>3. seen.heads \subseteq (Made \ {0})
    BY DEF Fresh
  <2>4. Safe(server.ver)' 
    BY <2>1, <2>2, <2>3
  <2>5. Low(run.data) \/ Holds(run.data)
    BY <2>1
  <2>6. NothingLost' /\ CleanIsSafe' /\ ListedIsSafe' /\ SentIsSafe'
    <3>1. NothingLost'
      <4>1. server.ver \in seen.heads => server.ver \in {server'.ver} \cup parked' \cup seen'.excused
        <5>1. CASE seen.since
          BY <5>1, <2>2, <2>3
        <5>2. CASE ~seen.since
          <6>1. server.ver \in seen.heads => Low(server.ver) \/ run.data = server.ver
            BY <5>2, <2>1, <2>3 DEF ReadIsHere
          <6> QED BY <6>1, <2>1, <2>2 DEF Low
        <5> QED BY <5>1, <5>2
      <4> HIDE DEF CleanIsSafe, ListedIsSafe, SentIsSafe, KnownIsHere, CheckedIsHere, ReadIsHere,
               LandedIsHere, RecordedIsHere
      <4> QED BY <2>1, <2>2, <4>1
    <3>2. CleanIsSafe'
      BY <2>1, <2>2, <2>4
    <3>3. ListedIsSafe' /\ SentIsSafe'
      BY <2>1, <2>2, <2>4
    <3> QED BY <3>1, <3>2, <3>3
  <2>7. KnownIsHere' /\ CheckedIsHere' /\ ReadIsHere' /\ LandedIsHere'
    BY <2>1, <2>2, <2>5
  <2>8. RecordedIsHere'
    <3>1. ASSUME pass.at = "record", pass.list.ver = run.data PROVE Low(run.data) \/ Shows(run.data)
      <4>1. Low(run.data) \/ run.data = server.ver BY <2>1, <3>1 DEF Shapes
      <4> QED BY <3>1, <4>1
    <3> QED BY <2>1, <2>2, <3>1
  <2> QED BY <2>6, <2>7, <2>8
<1>27. ASSUME Record PROVE Kept'
  BY <1>27 DEF Record, Answered, Ends, Step, RunOnly, Idle, world
<1>28. ASSUME Mark PROVE Kept'
  BY <1>28 DEF Mark, EndsAfter, InSync, Excuse, RunOnly, Ends, world, Idle
<1>29. ASSUME NEW b \in BOOLEAN, Pause(b) PROVE Kept'
  BY <1>29 DEF Pause, Once, file, sync, work
<1>30. ASSUME PauseChanged PROVE Kept'
  BY <1>30 DEF PauseChanged, Uploading, Released, file, sync
<1>31. ASSUME Poll PROVE Kept'
  BY <1>31 DEF Poll, Released, QueueOnly, file, sync, world
<1>32. ASSUME Begin PROVE Kept'
  BY <1>32 DEF Begin, NoPass, PassOnly, NoListing, world
<1>33. ASSUME RootFails PROVE Kept'
  BY <1>33 DEF RootFails, PassOnly, world
<1>34. ASSUME ReadDir PROVE Kept'
  <2> HIDE DEF TypeOK, Fresh, Made
  <2>1. /\ UNCHANGED << local, server, parked, base, run, seen >> /\ pass'.at # "record"
        /\ pass'.list.ver = pass.list.ver \/ pass'.list.ver = 0
    BY <1>34, ReadDirDoes DEF PassOver, PassKeeps
  <2> QED BY <2>1
<1>35. ASSUME List PROVE Kept'
  <2> HIDE DEF TypeOK, Fresh, Made
  <2>1. /\ UNCHANGED << local, server, parked, base, run, seen >> /\ pass'.at # "record"
        /\ pass'.list.ver = pass.list.ver \/ pass'.list.ver = server.ver
    BY <1>35, ListDoes DEF PassKeeps
  <2> QED BY <2>1
<1>36. ASSUME Vanished PROVE Kept'
  <2> HIDE DEF TypeOK
  <2> QED BY <1>36, VanishedDoes, LeftToDoes, IfIdleDoes DEF PassTo, SamePass, PassKeeps, Looked,
    NeedsUpload
<1>37. ASSUME Remove PROVE Kept'
  <2> HIDE DEF TypeOK, Fresh, Made
  <2>1. /\ pass'.at = "end" /\ pass'.list = pass.list
        /\ UNCHANGED << server, parked, base, run >>
    BY <1>37, RemoveDoes DEF SamePass, PassKeeps
  <2>2. CASE UNCHANGED << local, seen >>
    BY <2>1, <2>2
  <2>3. CASE Goes /\ Excused(Shown \cup Sending)
    <3>1. /\ seen'.heads = seen.heads /\ seen'.since = seen.since /\ seen.excused \subseteq seen'.excused
          /\ local.data # 0 => local.data \in seen'.excused
          /\ local.kind = "stub" => base.ver \in seen'.excused
      BY <2>3 DEF Excused, Shown
    <3>2. local'.kind = "none"
      BY <2>3 DEF Goes
    <3> QED BY <2>1, <3>1, <3>2
  <2> QED BY <1>37, <2>2, <2>3, RemoveDoes
<1>38. ASSUME Create PROVE Kept'
  <2> HIDE DEF TypeOK, Fresh, Made
  <2>1. pass.at = "act" /\ pass'.at \in {"pins", "end"} /\ pass'.list = pass.list /\ UNCHANGED << server, parked, run, seen >>
    BY <1>38, CreateDoes DEF SamePass, PassKeeps
  <2>2. CASE UNCHANGED << local, base >>
    BY <2>1, <2>2
  <2>3. CASE local.kind = "none" /\ local'.kind = "stub" /\ local'.data = pass.list.ver /\ base' = Recorded
    BY <2>1, <2>3
  <2> QED BY <1>38, <2>2, <2>3, CreateDoes
<1>39. ASSUME Neither PROVE Kept'
  BY <1>39 DEF Neither, Here, There, ToEnd, PassOnly, world
<1>40. ASSUME Heal PROVE Kept'
  <2> HIDE DEF TypeOK, Fresh, Made
  <2>1. pass.at = "act" /\ pass'.at = "end" /\ pass'.list = pass.list /\ UNCHANGED << server, parked, run >>
    BY <1>40, HealDoes DEF PassTo, SamePass, PassKeeps
  <2>2. CASE LeftTo /\ UNCHANGED << local, base >>
    <3>1. seen'.heads = seen.heads /\ seen'.since = seen.since /\ seen.excused \subseteq seen'.excused
      BY <2>2, LeftToDoes
    <3> QED BY <2>1, <2>2, <3>1
  <2>3. CASE /\ GoesInSync /\ local.kind # "none" /\ base' = Recorded
             /\ Excused(IF local.data # pass.list.ver THEN {local.data} ELSE {}) /\ base.etag = pass.list.etag
    <3>1. /\ seen'.heads = seen.heads /\ seen'.since = seen.since /\ seen.excused \subseteq seen'.excused
          /\ local.data # pass.list.ver => local.data \in seen'.excused
      BY <2>3 DEF Excused
    <3>2. local'.data = local.data /\ local.data # 0 /\ (HasData => HasData') /\ (local.kind = "stub" => local'.kind = "stub")
      BY <2>3 DEF GoesInSync
    <3>3. base'.ver = pass.list.ver
      BY <2>3, RecordedIs
    <3>4. base.ver = pass.list.ver
      BY <2>3 DEF Names
    <3> QED BY <2>1, <3>1, <3>2, <3>3, <3>4
  <2> QED BY <1>40, <2>2, <2>3, HealDoes
<1>41. ASSUME Both PROVE Kept'
  <2> HIDE DEF TypeOK
  <2> QED BY <1>41, BothDoes, LeftToDoes, IfIdleDoes DEF PassTo, SamePass, PassKeeps, Looked, NeedsUpload
<1>42. ASSUME RestoreToo PROVE Kept'
  BY <1>42 DEF RestoreToo, PStep, Restored, PassOnly, InSync, Excuse, NeedsUpload, world
<1>43. ASSUME Compare PROVE Kept'
  <2> HIDE DEF TypeOK
  <2> QED BY <1>43, CompareDoes DEF PassTo, SamePass, PassKeeps
<1>44. ASSUME Update PROVE Kept'
  <2> HIDE DEF TypeOK, Fresh, Made
  <2>1. pass.at = "update" /\ pass'.at \in {"drop", "pins"} /\ pass'.list = pass.list /\ UNCHANGED << server, parked, run, base >>
    BY <1>44, UpdateDoes DEF PassTo, SamePass, PassKeeps
  <2>2. CASE UNCHANGED local /\ seen'.heads = seen.heads /\ seen'.since = seen.since /\ seen'.excused = seen.excused
    BY <2>1, <2>2
  <2>3. CASE /\ Placeholder /\ local'.kind = local.kind /\ (local.kind # "stub" => local'.data = local.data)
             /\ Excused(IF NeedsUpload THEN {local.data} ELSE {})
    <3>1. /\ seen'.heads = seen.heads /\ seen'.since = seen.since /\ seen.excused \subseteq seen'.excused
      BY <2>3 DEF Excused
    <3>2. CleanFull' => CleanFull \/ local.data \in seen'.excused
      BY <2>3 DEF Excused, NeedsUpload, Shapes
    <3> QED BY <2>1, <2>3, <3>1, <3>2
  <2> QED BY <1>44, <2>2, <2>3, UpdateDoes
<1>45. ASSUME Drop PROVE Kept'
  BY <1>45 DEF Drop, PStep, Freeable, Freed, Excuse, Sending, PassOnly, Uploading, world
<1>46. ASSUME RecordToo PROVE Kept'
  BY <1>46 DEF RecordToo, PStep, Recorded, PassOnly, world
<1>47. ASSUME End PROVE Kept'
  BY <1>47 DEF End, NoPass, Asked, Complete, PassOnly, NoListing, world
<1>48. ASSUME NEW k \in Kinds, Crash(k) PROVE Kept'
  BY <1>48 DEF Crash, Idle, NoPass, sync, NoListing
<1>49. ASSUME Calm PROVE Kept'
  BY <1>49 DEF Calm, file, sync, work
<1>50. CASE UNCHANGED vars
  BY <1>50 DEF vars, file, sync, work, world
<1> HIDE DEF TypeOK, Shapes, Placeholder, Going, Fresh, Made, Names, Kept, NothingLost, CleanIsSafe,
  ListedIsSafe, SentIsSafe, KnownIsHere, CheckedIsHere, ReadIsHere, LandedIsHere, RecordedIsHere, HasData,
  CleanFull, Safe, Low, Holds, Shows
<1> QED BY <1>1, <1>2, <1>3, <1>4, <1>5, <1>6, <1>7, <1>8, <1>9, <1>10, <1>11, <1>12, <1>13, <1>14, <1>15,
  <1>16, <1>17, <1>18, <1>19, <1>20, <1>21, <1>22, <1>23, <1>24, <1>25, <1>26, <1>27, <1>28, <1>29, <1>30,
  <1>31, <1>32, <1>33, <1>34, <1>35, <1>36, <1>37, <1>38, <1>39, <1>40, <1>41, <1>42, <1>43, <1>44, <1>45,
  <1>46, <1>47, <1>48, <1>49, <1>50 DEF Next, User, Server, Run, Pass

(*************************************************************************)
(* No step records for a clean file a version that the file does not     *)
(* have.                                                                 *)
(*************************************************************************)
LEMMA MirroredNext == TypeOK /\ Shapes /\ Fresh /\ Names /\ Kept /\ Mirrored /\ [Next]_vars => Mirrored'
<1> SUFFICES ASSUME TypeOK, Shapes, Fresh, Names, Kept, Mirrored, [Next]_vars PROVE Mirrored'
  OBVIOUS
<1> USE DEF TypeOK, Shapes, Placeholder, Going, Fresh, Made, Names, Kept, NothingLost, CleanIsSafe,
  ListedIsSafe, SentIsSafe, KnownIsHere, CheckedIsHere, ReadIsHere, LandedIsHere, RecordedIsHere, HasData,
  CleanFull, Safe, Low, Holds, Shows, Mirrored, Agrees, CleanMirrors, RecordedMirrors, SentIsHere,
  EditedIsNew, ListedIsLater, MarkedIsThere, NeedsUpload
<1>1. ASSUME NEW b \in BOOLEAN, Opens(b) PROVE Mirrored'
  BY <1>1 DEF Opens, CanRead, Fetched, sync, work, world
<1>2. ASSUME Closes PROVE Mirrored'
  BY <1>2 DEF Closes, sync, work, world
<1>3. ASSUME Edit PROVE Mirrored'
  <2> HIDE DEF TypeOK, Fresh, Made, Names, Kept, NothingLost, CleanIsSafe, ListedIsSafe, SentIsSafe,
    KnownIsHere, CheckedIsHere, ReadIsHere, LandedIsHere, RecordedIsHere, Safe, Low, Holds, Shows,
    CleanMirrors, RecordedMirrors, SentIsHere, EditedIsNew, ListedIsLater, MarkedIsThere
  <2>1. CleanMirrors'
    BY <1>3, EditDoes DEF CleanMirrors, Fresh, Made
  <2>2. RecordedMirrors'
    BY <1>3, EditDoes DEF RecordedMirrors, Fresh, Made
  <2>3. SentIsHere'
    BY <1>3, EditDoes DEF SentIsHere, Fresh, Made
  <2>4. EditedIsNew'
    BY <1>3, EditDoes DEF EditedIsNew, Fresh, Made
  <2>5. ListedIsLater'
    BY <1>3, EditDoes DEF ListedIsLater, Fresh, Made
  <2>6. MarkedIsThere'
    BY <1>3, EditDoes DEF MarkedIsThere, Fresh, Made
  <2> QED BY <2>1, <2>2, <2>3, <2>4, <2>5, <2>6
<1>4. ASSUME Save PROVE Mirrored'
  BY <1>4 DEF Save, Saves, Latest, Write, Shown, Told, sync, Once
<1>5. ASSUME Jostle PROVE Mirrored'
  BY <1>5 DEF Jostle, Once, Told, sync
<1>6. ASSUME NEW p \in {"pinned", "unpinned"}, Pins(p) PROVE Mirrored'
  BY <1>6 DEF Pins, Told, sync, world
<1>7. ASSUME Theirs PROVE Mirrored'
  BY <1>7 DEF Theirs, Once, NewEtags, Changed, Latest, Meanwhile, file, work, Least
<1>8. ASSUME Touch PROVE Mirrored'
  BY <1>8 DEF Touch, Once, NewEtags, Changed, file, work, Least
<1>9. ASSUME TheirRemoval PROVE Mirrored'
  BY <1>9 DEF TheirRemoval, Changed, file, work, world
<1>10. ASSUME Notice PROVE Mirrored'
  BY <1>10 DEF Notice, QueueOnly, file, sync, world
<1>11. ASSUME Overflow PROVE Mirrored'
  BY <1>11 DEF Overflow, QueueOnly, file, sync, world
<1>12. ASSUME Expire PROVE Mirrored'
  BY <1>12 DEF Expire, QueueOnly, file, sync, world
<1>13. ASSUME Backoff PROVE Mirrored'
  BY <1>13 DEF Backoff, QueueOnly, file, sync, world
<1>14. ASSUME Fetch PROVE Mirrored'
  <2> HIDE DEF TypeOK
  <2> QED BY <1>14, FetchDoes, FetchedIs
<1>15. ASSUME Fire PROVE Mirrored'
  BY <1>15 DEF Fire, RunOnly, world
<1>16. ASSUME LookHushed PROVE Mirrored'
  BY <1>16 DEF LookHushed, EndsAfter, RunOnly, Ends, world, Idle
<1>17. ASSUME Look PROVE Mirrored'
  BY <1>17 DEF Look, EndsAfter, Step, RunOnly, Ends, world, Idle
<1>18. ASSUME Restore PROVE Mirrored'
  BY <1>18 DEF Restore, Step, Restored, RunOnly, InSync, Excuse, world
<1>19. ASSUME Settle PROVE Mirrored'
  BY <1>19 DEF Settle, Freeable, Freed, Idle, Asked, RunOnly, world
<1>20. ASSUME Hold PROVE Mirrored'
  BY <1>20 DEF Hold, Step, RunOnly, world
<1>21. ASSUME Recheck PROVE Mirrored'
  BY <1>21 DEF Recheck, Idle, Released, RunOnly, world
<1>22. ASSUME Refused PROVE Mirrored'
  BY <1>22 DEF Refused, Uploading, Fails, RunOnly, Step, Ends, world, Idle
<1>23. ASSUME Check PROVE Mirrored'
  BY <1>23 DEF Check, Step, Conflict, Compares, Fetched, RunOnly, EditedSince, SameBytes, world
<1>24. ASSUME Park PROVE Mirrored'
  BY <1>24 DEF Park, Fails, Step, Changed, world, Ends, Idle
<1>25. ASSUME Read PROVE Mirrored'
  <2> HIDE DEF TypeOK
  <2> QED BY <1>25, ReadDoes, FetchedIs DEF RunKeeps, SameRun, RunStops, RunOver, CanRead
<1>26. ASSUME Land PROVE Mirrored'
  <2> HIDE DEF TypeOK
  <2> QED BY <1>26, LandDoes DEF RunKeeps, SameRun, RunStops, RunOver, Excused, NewEtag, NewDir
<1>27. ASSUME Record PROVE Mirrored'
  BY <1>27 DEF Record, Answered, Ends, Step, RunOnly, Idle, world
<1>28. ASSUME Mark PROVE Mirrored'
  BY <1>28 DEF Mark, EndsAfter, InSync, Excuse, RunOnly, Ends, world, Idle
<1>29. ASSUME NEW b \in BOOLEAN, Pause(b) PROVE Mirrored'
  BY <1>29 DEF Pause, Once, file, sync, work
<1>30. ASSUME PauseChanged PROVE Mirrored'
  BY <1>30 DEF PauseChanged, Uploading, Released, file, sync
<1>31. ASSUME Poll PROVE Mirrored'
  BY <1>31 DEF Poll, Released, QueueOnly, file, sync, world
<1>32. ASSUME Begin PROVE Mirrored'
  BY <1>32 DEF Begin, NoPass, PassOnly, NoListing, world
<1>33. ASSUME RootFails PROVE Mirrored'
  BY <1>33 DEF RootFails, PassOnly, world
<1>34. ASSUME ReadDir PROVE Mirrored'
  <2> HIDE DEF TypeOK
  <2> QED BY <1>34, ReadDirDoes DEF PassOver, PassKeeps
<1>35. ASSUME List PROVE Mirrored'
  <2> HIDE DEF TypeOK
  <2> QED BY <1>35, ListDoes DEF PassKeeps
<1>36. ASSUME Vanished PROVE Mirrored'
  <2> HIDE DEF TypeOK
  <2> QED BY <1>36, VanishedDoes, LeftToDoes, IfIdleDoes DEF PassTo, SamePass, PassKeeps, Looked
<1>37. ASSUME Remove PROVE Mirrored'
  <2> HIDE DEF TypeOK, Fresh, Made, Names, Kept, NothingLost, CleanIsSafe, ListedIsSafe, SentIsSafe,
    KnownIsHere, CheckedIsHere, ReadIsHere, LandedIsHere, RecordedIsHere, Safe, Low, Holds, Shows,
    CleanMirrors, RecordedMirrors, SentIsHere, EditedIsNew, ListedIsLater, MarkedIsThere
  <2>1. CleanMirrors'
    BY <1>37, RemoveDoes DEF CleanMirrors, SamePass, Goes, Excused, Shown, Sending, Uploading, PassKeeps
  <2>2. RecordedMirrors'
    BY <1>37, RemoveDoes DEF RecordedMirrors, SamePass, Goes, Excused, Shown, Sending, Uploading, PassKeeps
  <2>3. SentIsHere'
    BY <1>37, RemoveDoes DEF SentIsHere, SamePass, Goes, Excused, Shown, Sending, Uploading, PassKeeps
  <2>4. EditedIsNew'
    BY <1>37, RemoveDoes DEF EditedIsNew, SamePass, Goes, Excused, Shown, Sending, Uploading, PassKeeps
  <2>5. ListedIsLater'
    BY <1>37, RemoveDoes DEF ListedIsLater, SamePass, Goes, Excused, Shown, Sending, Uploading, PassKeeps
  <2>6. MarkedIsThere'
    BY <1>37, RemoveDoes DEF MarkedIsThere, SamePass, Goes, Excused, Shown, Sending, Uploading, PassKeeps
  <2> QED BY <2>1, <2>2, <2>3, <2>4, <2>5, <2>6
<1>38. ASSUME Create PROVE Mirrored'
  <2> HIDE DEF TypeOK
  <2> QED BY <1>38, CreateDoes, RecordedIs DEF SamePass, PassKeeps
<1>39. ASSUME Neither PROVE Mirrored'
  BY <1>39 DEF Neither, Here, There, ToEnd, PassOnly, world
<1>40. ASSUME Heal PROVE Mirrored'
  <2> HIDE DEF TypeOK, Fresh, Made, Names, Kept, NothingLost, CleanIsSafe, ListedIsSafe, SentIsSafe,
    KnownIsHere, CheckedIsHere, ReadIsHere, LandedIsHere, RecordedIsHere, Safe, Low, Holds, Shows,
    CleanMirrors, RecordedMirrors, SentIsHere, EditedIsNew, ListedIsLater, MarkedIsThere
  <2>1. CleanMirrors'
    BY <1>40, HealDoes, LeftToDoes, IfIdleDoes, RecordedIs DEF CleanMirrors, PassTo, SamePass, PassKeeps,
      GoesInSync, Excused, Looked
  <2>2. RecordedMirrors'
    BY <1>40, HealDoes, LeftToDoes, IfIdleDoes, RecordedIs DEF RecordedMirrors, PassTo, SamePass,
      PassKeeps, GoesInSync, Excused, Looked
  <2>3. SentIsHere'
    <3>1. CASE GoesInSync /\ local.kind # "none" /\ Excused(IF local.data # pass.list.ver THEN {local.data} ELSE {})
      <4>1. run' = run
        BY <1>40, HealDoes DEF PassKeeps
      <4>2. (HasData => HasData') /\ local'.data = local.data /\ local.data # 0
        BY <3>1 DEF GoesInSync
      <4>3. local.data # pass.list.ver => local.data \in seen'.excused
        BY <3>1, <4>2 DEF Excused
      <4>4. seen.excused \subseteq seen'.excused
        BY <3>1 DEF Excused
      <4> QED BY <4>1, <4>2, <4>3, <4>4 DEF SentIsHere, EditedIsNew
    <3>2. CASE LeftTo /\ UNCHANGED << local, base >>
      BY <1>40, <3>2, HealDoes, LeftToDoes DEF SentIsHere, PassKeeps
    <3> QED BY <1>40, <3>1, <3>2, HealDoes
  <2>4. EditedIsNew'
    BY <1>40, HealDoes, LeftToDoes, IfIdleDoes, RecordedIs DEF EditedIsNew, PassTo, SamePass, PassKeeps,
      GoesInSync, Excused, Looked
  <2>5. ListedIsLater'
    BY <1>40, HealDoes, LeftToDoes, IfIdleDoes, RecordedIs DEF ListedIsLater, PassTo, SamePass, PassKeeps,
      GoesInSync, Excused, Looked
  <2>6. MarkedIsThere'
    BY <1>40, HealDoes, LeftToDoes, IfIdleDoes, RecordedIs DEF MarkedIsThere, PassTo, SamePass, PassKeeps,
      GoesInSync, Excused, Looked
  <2> QED BY <2>1, <2>2, <2>3, <2>4, <2>5, <2>6
<1>41. ASSUME Both PROVE Mirrored'
  <2> HIDE DEF TypeOK
  <2> QED BY <1>41, BothDoes, LeftToDoes, IfIdleDoes DEF PassTo, SamePass, PassKeeps, Looked
<1>42. ASSUME RestoreToo PROVE Mirrored'
  BY <1>42 DEF RestoreToo, PStep, Restored, PassOnly, InSync, Excuse, world
<1>43. ASSUME Compare PROVE Mirrored'
  <2> HIDE DEF TypeOK
  <2> QED BY <1>43, CompareDoes DEF PassTo, SamePass, PassKeeps
<1>44. ASSUME Update PROVE Mirrored'
  <2> HIDE DEF TypeOK
  <2> QED BY <1>44, UpdateDoes DEF PassTo, SamePass, PassKeeps, Excused
<1>45. ASSUME Drop PROVE Mirrored'
  BY <1>45 DEF Drop, PStep, Freeable, Freed, Excuse, Sending, PassOnly, Uploading, world
<1>46. ASSUME RecordToo PROVE Mirrored'
  BY <1>46 DEF RecordToo, PStep, Recorded, PassOnly, world
<1>47. ASSUME End PROVE Mirrored'
  BY <1>47 DEF End, NoPass, Asked, Complete, PassOnly, NoListing, world
<1>48. ASSUME NEW k \in Kinds, Crash(k) PROVE Mirrored'
  BY <1>48 DEF Crash, Idle, NoPass, sync, NoListing
<1>49. ASSUME Calm PROVE Mirrored'
  BY <1>49 DEF Calm, file, sync, work
<1>50. CASE UNCHANGED vars
  BY <1>50 DEF vars, file, sync, work, world
<1> HIDE DEF TypeOK, Shapes, Placeholder, Going, Fresh, Made, Names, Kept, NothingLost, CleanIsSafe,
  ListedIsSafe, SentIsSafe, KnownIsHere, CheckedIsHere, ReadIsHere, LandedIsHere, RecordedIsHere, HasData,
  CleanFull, Safe, Low, Holds, Shows, Mirrored, Agrees, CleanMirrors, RecordedMirrors, SentIsHere,
  EditedIsNew, ListedIsLater, MarkedIsThere, NeedsUpload
<1> QED BY <1>1, <1>2, <1>3, <1>4, <1>5, <1>6, <1>7, <1>8, <1>9, <1>10, <1>11, <1>12, <1>13, <1>14, <1>15,
  <1>16, <1>17, <1>18, <1>19, <1>20, <1>21, <1>22, <1>23, <1>24, <1>25, <1>26, <1>27, <1>28, <1>29, <1>30,
  <1>31, <1>32, <1>33, <1>34, <1>35, <1>36, <1>37, <1>38, <1>39, <1>40, <1>41, <1>42, <1>43, <1>44, <1>45,
  <1>46, <1>47, <1>48, <1>49, <1>50 DEF Next, User, Server, Run, Pass

(*************************************************************************)
(* No step ends what an edit is left to, without something else that     *)
(* brings it up.                                                         *)
(*************************************************************************)
LEMMA OwingNext == TypeOK /\ Shapes /\ Fresh /\ Owing /\ [Next]_vars => Owing'
<1> SUFFICES ASSUME TypeOK, Shapes, Fresh, Owing, [Next]_vars PROVE Owing'
  OBVIOUS
<1> USE DEF TypeOK, Shapes, Placeholder, Going, Fresh, Made, Owing, EditIsOwed, ReadAsIs, DirIsDue,
  HeldIsKnown, IdleIsDone, LeftAlone, Exempt, Noticed, Reads, Coming, NeedsUpload, HasData
<1>1. ASSUME NEW b \in BOOLEAN, Opens(b) PROVE Owing'
  BY <1>1 DEF Opens, CanRead, Fetched, sync, work, world
<1>2. ASSUME Closes PROVE Owing'
  BY <1>2 DEF Closes, sync, work, world
<1>3. ASSUME Edit PROVE Owing'
  BY <1>3 DEF Edit, Saves, Latest, Write, Shown, Told, sync, Once
<1>4. ASSUME Save PROVE Owing'
  BY <1>4 DEF Save, Saves, Latest, Write, Shown, Told, sync, Once
<1>5. ASSUME Jostle PROVE Owing'
  BY <1>5 DEF Jostle, Once, Told, sync
<1>6. ASSUME NEW p \in {"pinned", "unpinned"}, Pins(p) PROVE Owing'
  BY <1>6 DEF Pins, Told, sync, world
<1>7. ASSUME Theirs PROVE Owing'
  <2> HIDE DEF TypeOK
  <2> QED BY <1>7, TheirsDoes DEF NewEtag, NewDir
<1>8. ASSUME Touch PROVE Owing'
  <2> HIDE DEF TypeOK
  <2> QED BY <1>8, TouchDoes DEF NewEtag, NewDir
<1>9. ASSUME TheirRemoval PROVE Owing'
  <2> HIDE DEF TypeOK
  <2> QED BY <1>9, TheirRemovalDoes DEF NewDir
<1>10. ASSUME Notice PROVE Owing'
  BY <1>10 DEF Notice, QueueOnly, file, sync, world
<1>11. ASSUME Overflow PROVE Owing'
  BY <1>11 DEF Overflow, QueueOnly, file, sync, world
<1>12. ASSUME Expire PROVE Owing'
  BY <1>12 DEF Expire, QueueOnly, file, sync, world
<1>13. ASSUME Backoff PROVE Owing'
  BY <1>13 DEF Backoff, QueueOnly, file, sync, world
<1>14. ASSUME Fetch PROVE Owing'
  <2> HIDE DEF TypeOK
  <2> QED BY <1>14, FetchDoes, FetchedIs
<1>15. ASSUME Fire PROVE Owing'
  BY <1>15 DEF Fire, RunOnly, world
<1>16. ASSUME LookHushed PROVE Owing'
  BY <1>16 DEF LookHushed, EndsAfter, RunOnly, Ends, world, Idle
<1>17. ASSUME Look PROVE Owing'
  BY <1>17 DEF Look, EndsAfter, Step, RunOnly, Ends, world, Idle
<1>18. ASSUME Restore PROVE Owing'
  BY <1>18 DEF Restore, Step, Restored, RunOnly, InSync, Excuse, world
<1>19. ASSUME Settle PROVE Owing'
  BY <1>19 DEF Settle, Freeable, Freed, Idle, Asked, RunOnly, world
<1>20. ASSUME Hold PROVE Owing'
  BY <1>20 DEF Hold, Step, RunOnly, world
<1>21. ASSUME Recheck PROVE Owing'
  BY <1>21 DEF Recheck, Idle, Released, RunOnly, world
<1>22. ASSUME Refused PROVE Owing'
  BY <1>22 DEF Refused, Uploading, Fails, RunOnly, Step, Ends, world, Idle
<1>23. ASSUME Check PROVE Owing'
  BY <1>23 DEF Check, Step, Conflict, Compares, Fetched, RunOnly, EditedSince, SameBytes, world
<1>24. ASSUME Park PROVE Owing'
  <2> HIDE DEF TypeOK
  <2> QED BY <1>24, ParkDoes DEF RunKeeps, SameRun, RunStops, RunOver, NewDir
<1>25. ASSUME Read PROVE Owing'
  <2> HIDE DEF TypeOK
  <2> QED BY <1>25, ReadDoes, FetchedIs DEF RunKeeps, SameRun, RunStops, RunOver, CanRead
<1>26. ASSUME Land PROVE Owing'
  <2> HIDE DEF TypeOK
  <2> QED BY <1>26, LandDoes DEF RunKeeps, SameRun, RunStops, RunOver, Excused, NewEtag, NewDir
<1>27. ASSUME Record PROVE Owing'
  BY <1>27 DEF Record, Answered, Ends, Step, RunOnly, Idle, world
<1>28. ASSUME Mark PROVE Owing'
  BY <1>28 DEF Mark, EndsAfter, InSync, Excuse, RunOnly, Ends, world, Idle
<1>29. ASSUME NEW b \in BOOLEAN, Pause(b) PROVE Owing'
  BY <1>29 DEF Pause, Once, file, sync, work
<1>30. ASSUME PauseChanged PROVE Owing'
  <2> HIDE DEF TypeOK
  <2> QED BY <1>30, PauseChangedDoes
<1>31. ASSUME Poll PROVE Owing'
  BY <1>31 DEF Poll, Released, QueueOnly, file, sync, world
<1>32. ASSUME Begin PROVE Owing'
  <2> HIDE DEF TypeOK
  <2> QED BY <1>32, BeginDoes
<1>33. ASSUME RootFails PROVE Owing'
  BY <1>33 DEF RootFails, PassOnly, world
<1>34. ASSUME ReadDir PROVE Owing'
  <2> HIDE DEF TypeOK, Fresh, Made, EditIsOwed, ReadAsIs, DirIsDue, HeldIsKnown, IdleIsDone
  <2>1. EditIsOwed'
    BY <1>34, ReadDirDoes DEF EditIsOwed, Due, DirIsDue, PassOver, PassKeeps
  <2>2. ReadAsIs'
    BY <1>34, ReadDirDoes DEF ReadAsIs, PassOver, PassKeeps
  <2>3. DirIsDue'
    BY <1>34, ReadDirDoes DEF DirIsDue, PassOver, PassKeeps
  <2>4. HeldIsKnown'
    BY <1>34, ReadDirDoes DEF HeldIsKnown, PassOver, PassKeeps
  <2>5. IdleIsDone'
    BY <1>34, ReadDirDoes DEF IdleIsDone, PassOver, PassKeeps
  <2> QED BY <2>1, <2>2, <2>3, <2>4, <2>5
<1>35. ASSUME List PROVE Owing'
  <2> HIDE DEF TypeOK
  <2> QED BY <1>35, ListDoes DEF PassKeeps
<1>36. ASSUME Vanished PROVE Owing'
  <2> HIDE DEF TypeOK, Fresh, Made, EditIsOwed, ReadAsIs, DirIsDue, HeldIsKnown, IdleIsDone
  <2>0. run.at \in RunSteps
    BY DEF TypeOK
  <2>1. EditIsOwed'
    BY <1>36, VanishedDoes, LeftToDoes, IfIdleDoes, <2>0 DEF EditIsOwed, HeldIsKnown, RunSteps, PassTo,
      SamePass, PassKeeps, Looked
  <2>2. ReadAsIs'
    BY <1>36, VanishedDoes, LeftToDoes, IfIdleDoes DEF ReadAsIs, PassTo, SamePass, PassKeeps, Looked
  <2>3. DirIsDue'
    BY <1>36, VanishedDoes, LeftToDoes, IfIdleDoes DEF DirIsDue, PassTo, SamePass, PassKeeps, Looked
  <2>4. HeldIsKnown'
    BY <1>36, VanishedDoes, LeftToDoes, IfIdleDoes DEF HeldIsKnown, PassTo, SamePass, PassKeeps, Looked
  <2>5. IdleIsDone'
    BY <1>36, VanishedDoes, LeftToDoes, IfIdleDoes DEF IdleIsDone, PassTo, SamePass, PassKeeps, Looked
  <2> QED BY <2>1, <2>2, <2>3, <2>4, <2>5
<1>37. ASSUME Remove PROVE Owing'
  <2> HIDE DEF TypeOK
  <2> QED BY <1>37, RemoveDoes DEF SamePass, Goes, Excused, Shown, Sending, Uploading, PassKeeps
<1>38. ASSUME Create PROVE Owing'
  <2> HIDE DEF TypeOK
  <2> QED BY <1>38, CreateDoes, RecordedIs DEF SamePass, PassKeeps
<1>39. ASSUME Neither PROVE Owing'
  BY <1>39 DEF Neither, Here, There, ToEnd, PassOnly, world
<1>40. ASSUME Heal PROVE Owing'
  <2> HIDE DEF TypeOK, Fresh, Made, EditIsOwed, ReadAsIs, DirIsDue, HeldIsKnown, IdleIsDone
  <2>0. run.at \in RunSteps
    BY DEF TypeOK
  <2>1. EditIsOwed'
    <3>1. CASE GoesInSync /\ local.kind # "none"
      BY <3>1 DEF EditIsOwed, GoesInSync
    <3>2. CASE queue' = IfIdle(queue) /\ LeftTo /\ UNCHANGED << local, base >>
      BY <1>40, <3>2, <2>0, HealDoes, LeftToDoes, IfIdleDoes
      DEF EditIsOwed, PassTo, SamePass, PassKeeps, Looked, HeldIsKnown, RunSteps
    <3>3. CASE ~(pass.stamp > pass.list.ver) /\ UNCHANGED queue /\ LeftTo /\ UNCHANGED << local, base >>
      <4>1. pass.kind = "plain" /\ pass.at = "act" /\ pass'.at = "end" /\ SamePass /\ UNCHANGED sweep /\ PassKeeps
        BY <1>40, HealDoes DEF PassTo
      <4>2. local.data \in seen.excused => local.data \in seen'.excused
        BY <3>3, LeftToDoes
      <4>3. seen'.gaps = seen.gaps \/ seen'.gaps = seen.gaps \cup {"left"}
        BY <3>3, LeftToDoes
      <4>4. NeedsUpload => Exempt' \/ Noticed' \/ (local.kind = "plain" /\ local.stamp = pass.stamp)
        BY <3>3, <4>1, <4>2, <4>3 DEF ReadAsIs, PassKeeps
      <4>5. pass.stamp <= pass.list.ver
        BY <3>3 DEF Fresh, Made
      <4>6. pass'.at # "idle" /\ (server'.dir # pass'.known \/ pass.list.ver = server.ver)
        BY <4>1 DEF DirIsDue, SamePass, PassKeeps
      <4> QED BY <3>3, <4>1, <4>4, <4>5, <4>6 DEF EditIsOwed, SamePass, PassKeeps
    <3> QED BY <1>40, <3>1, <3>2, <3>3, HealDoes
  <2>2. ReadAsIs'
    BY <1>40, HealDoes, LeftToDoes, IfIdleDoes, RecordedIs DEF ReadAsIs, PassTo, SamePass, PassKeeps,
      GoesInSync, Excused, Looked
  <2>3. DirIsDue'
    BY <1>40, HealDoes, LeftToDoes, IfIdleDoes, RecordedIs DEF DirIsDue, PassTo, SamePass, PassKeeps,
      GoesInSync, Excused, Looked
  <2>4. HeldIsKnown'
    BY <1>40, HealDoes, LeftToDoes, IfIdleDoes, RecordedIs DEF HeldIsKnown, PassTo, SamePass, PassKeeps,
      GoesInSync, Excused, Looked
  <2>5. IdleIsDone'
    BY <1>40, HealDoes, LeftToDoes, IfIdleDoes, RecordedIs DEF IdleIsDone, PassTo, SamePass, PassKeeps,
      GoesInSync, Excused, Looked
  <2> QED BY <2>1, <2>2, <2>3, <2>4, <2>5
<1>41. ASSUME Both PROVE Owing'
  <2> HIDE DEF TypeOK, Fresh, Made, EditIsOwed, ReadAsIs, DirIsDue, HeldIsKnown, IdleIsDone
  <2>0. run.at \in RunSteps
    BY DEF TypeOK
  <2>1. EditIsOwed'
    BY <1>41, BothDoes, LeftToDoes, IfIdleDoes, <2>0 DEF EditIsOwed, HeldIsKnown, RunSteps, PassTo,
      SamePass, PassKeeps, Looked
  <2>2. ReadAsIs'
    BY <1>41, BothDoes, LeftToDoes, IfIdleDoes DEF ReadAsIs, PassTo, SamePass, PassKeeps, Looked
  <2>3. DirIsDue'
    BY <1>41, BothDoes, LeftToDoes, IfIdleDoes DEF DirIsDue, PassTo, SamePass, PassKeeps, Looked
  <2>4. HeldIsKnown'
    BY <1>41, BothDoes, LeftToDoes, IfIdleDoes DEF HeldIsKnown, PassTo, SamePass, PassKeeps, Looked
  <2>5. IdleIsDone'
    BY <1>41, BothDoes, LeftToDoes, IfIdleDoes DEF IdleIsDone, PassTo, SamePass, PassKeeps, Looked
  <2> QED BY <2>1, <2>2, <2>3, <2>4, <2>5
<1>42. ASSUME RestoreToo PROVE Owing'
  BY <1>42 DEF RestoreToo, PStep, Restored, PassOnly, InSync, Excuse, world
<1>43. ASSUME Compare PROVE Owing'
  <2> HIDE DEF TypeOK
  <2> QED BY <1>43, CompareDoes DEF PassTo, SamePass, PassKeeps
<1>44. ASSUME Update PROVE Owing'
  <2> HIDE DEF TypeOK
  <2> QED BY <1>44, UpdateDoes DEF PassTo, SamePass, PassKeeps, Excused
<1>45. ASSUME Drop PROVE Owing'
  BY <1>45 DEF Drop, PStep, Freeable, Freed, Excuse, Sending, PassOnly, Uploading, world
<1>46. ASSUME RecordToo PROVE Owing'
  BY <1>46 DEF RecordToo, PStep, Recorded, PassOnly, world
<1>47. ASSUME End PROVE Owing'
  BY <1>47 DEF End, NoPass, Asked, Complete, PassOnly, NoListing, world
<1>48. ASSUME NEW k \in Kinds, Crash(k) PROVE Owing'
  BY <1>48 DEF Crash, Idle, NoPass, sync, NoListing
<1>49. ASSUME Calm PROVE Owing'
  BY <1>49 DEF Calm, file, sync, work
<1>50. CASE UNCHANGED vars
  BY <1>50 DEF vars, file, sync, work, world
<1> HIDE DEF TypeOK, Shapes, Placeholder, Going, Fresh, Made, Owing, EditIsOwed, ReadAsIs, DirIsDue,
  HeldIsKnown, IdleIsDone, LeftAlone, Exempt, Noticed, Reads, Coming, NeedsUpload, HasData
<1> QED BY <1>1, <1>2, <1>3, <1>4, <1>5, <1>6, <1>7, <1>8, <1>9, <1>10, <1>11, <1>12, <1>13, <1>14, <1>15,
  <1>16, <1>17, <1>18, <1>19, <1>20, <1>21, <1>22, <1>23, <1>24, <1>25, <1>26, <1>27, <1>28, <1>29, <1>30,
  <1>31, <1>32, <1>33, <1>34, <1>35, <1>36, <1>37, <1>38, <1>39, <1>40, <1>41, <1>42, <1>43, <1>44, <1>45,
  <1>46, <1>47, <1>48, <1>49, <1>50 DEF Next, User, Server, Run, Pass

(*************************************************************************)
(* The invariant of every behaviour.                                     *)
(*************************************************************************)
LEMMA InitInv == Init => Inv
<1> SUFFICES ASSUME Init PROVE Inv
  OBVIOUS
<1>1. TypeOK
  <2>1. can \in Cases /\ can.max \in 0 .. WritesMax /\ 0 \in 0 .. can.max
    BY OnDemandAssumption DEF OnDemandAssumption, Init
  <2>2. 1 \in Etags \ {0} /\ 0 \in Etags
    BY Bounds, OnDemandAssumption DEF OnDemandAssumption, Etags
  <2>3. TypeRun /\ TypePass
    BY IdleTypes, NoPassTypes DEF Init, TypeRun, TypePass
  <2>4. TypeLocal /\ TypeApp /\ TypeServer
    BY <2>2, Bounds DEF Init, TypeLocal, TypeApp, TypeServer, Kinds
  <2>5. TypeBase
    <3> DEFINE k == IF Keys THEN 1 ELSE 0
    <3>1. k \in Versions
      BY Bounds
    <3>2. base = [etag |-> 1, key |-> k, dir |-> 1, ver |-> 1]
      BY DEF Init
    <3> HIDE DEF k
    <3> QED BY <2>2, <3>1, <3>2, Bounds DEF TypeBase
  <2>6. TypeQueue /\ TypeSweep /\ TypeSeen
    BY Bounds DEF Init, TypeQueue, TypeSweep, TypeSeen
  <2>7. TypeRest
    BY <2>1 DEF Init, TypeRest
  <2> QED BY <2>3, <2>4, <2>5, <2>6, <2>7, TypeParts
<1>2. /\ local.kind = "stub" /\ local.data = 1 /\ local.sync /\ ~local.mod /\ local.stamp = 1 /\ app.ver = 0
      /\ server.ver = 1 /\ server.etag = 1 /\ server.dir = 1 /\ parked = {} /\ base.etag = 1 /\ base.ver = 1
      /\ base.dir = 1 /\ base.key \in {0, 1} /\ written = 0
  BY DEF Init
<1>3. /\ run.at = "idle" /\ run.data = 0 /\ run.stamp = 0 /\ run.etag = 0 /\ ~run.again
      /\ pass.at = "idle" /\ pass.stamp = 0 /\ pass.list.ver = 0 /\ pass.list.etag = 0
      /\ seen.heads = {1} /\ seen.excused = {}
  BY DEF Init, Idle, NoPass, NoListing
<1>4. Shapes
  BY <1>2, <1>3 DEF Shapes, Going, Placeholder
<1>5. Fresh
  BY <1>2, <1>3 DEF Fresh, Made
<1>6. Names
  BY <1>2, <1>3 DEF Names
<1>7. Kept
  BY <1>2, <1>3 DEF Kept, NothingLost, CleanIsSafe, ListedIsSafe, SentIsSafe, KnownIsHere, CheckedIsHere,
    ReadIsHere, LandedIsHere, RecordedIsHere, CleanFull, Safe, Low, Holds, Shows, HasData
<1>8. Mirrored
  BY <1>2, <1>3 DEF Mirrored, CleanMirrors, RecordedMirrors, SentIsHere, EditedIsNew, ListedIsLater,
    MarkedIsThere, CleanFull, Going
<1>9. Owing
  BY <1>2, <1>3 DEF Owing, EditIsOwed, ReadAsIs, DirIsDue, HeldIsKnown, IdleIsDone, NeedsUpload, Placeholder
<1> QED BY <1>1, <1>4, <1>5, <1>6, <1>7, <1>8, <1>9 DEF Inv

LEMMA InvNext == Inv /\ [Next]_vars => Inv'
BY TypeNext, ShapesNext, FreshNext, NamesNext, KeptNext, MirroredNext, OwingNext DEF Inv

LEMMA Invariant == LiveSpec => []Inv
<1>1. Inv /\ [Next]_vars => Inv'
  BY InvNext
<1> QED BY InitInv, <1>1, PTL DEF LiveSpec, Spec

(*************************************************************************)
(* What it means.                                                        *)
(*************************************************************************)
LEMMA OwedFollows == Inv => EditsAreOwed
<1> SUFFICES ASSUME Inv, NeedsUpload PROVE Owed \/ LeftAlone \/ Exempt
  BY DEF EditsAreOwed, Exempt
<1>1. LeftAlone \/ Exempt \/ Noticed \/ Coming
  BY DEF Inv, Owing, EditIsOwed
<1>2. CASE Noticed
  BY <1>2 DEF Noticed, Owed, Inv, Owing, IdleIsDone
<1>3. CASE Coming
  BY <1>3 DEF Coming, Reads, Owed, Inv, Owing, DirIsDue
<1> QED BY <1>1, <1>2, <1>3

LEMMA MirrorFollows == Inv => MirrorIsTrue
BY DEF Inv, TypeOK, Shapes, Names, Mirrored, CleanMirrors, MirrorIsTrue, CleanFull, Agrees

(*************************************************************************)
(* Types: every state of the watcher's model is well formed, for any     *)
(* bounds, any troubles, and whatever the server reports.                *)
(*************************************************************************)
THEOREM TypeCorrect == LiveSpec => []TypeOK
<1>1. Inv => TypeOK
  BY DEF Inv
<1> QED BY <1>1, Invariant, PTL

(*************************************************************************)
(* No version that nobody has built upon or removed is lost: through     *)
(* edits and saves, uploads with their conflict check and their parked   *)
(* copies, passes that refresh, free, create and remove the placeholder, *)
(* pauses and restarts, it is on disk, on the server or set aside,       *)
(* except where the code does not look (handleChange,                    *)
(* uploadWithConflictFor, Reconcile; the exceptions are seen.excused).   *)
(*************************************************************************)
THEOREM NothingLostAlways == LiveSpec => []NothingLost
<1>1. Inv => NothingLost
  BY DEF Inv, Kept
<1> QED BY <1>1, Invariant, PTL

(*************************************************************************)
(* As long as the file has unsynced data, a notice, a timer, a held      *)
(* upload, a run, or a pass that will look at its folder stands for it,  *)
(* whatever fails, overflows, is paused or is started again in between   *)
(* (handleChange, reconcilePass with forceFull, reconcileDir's folder    *)
(* ETag).  Not so, and then nothing stands for it: a plain file older    *)
(* than the server's copy (LeftAlone), a change taken for the program's  *)
(* own (muted) or whose sweep a failed root used up (dropped), and a     *)
(* version that came where the code does not look (excused).             *)
(*************************************************************************)
THEOREM EditsAreOwedAlways == LiveSpec => []EditsAreOwed
<1> QED BY OwedFollows, Invariant, PTL

(*************************************************************************)
(* A copy in sync that is recorded under the server's present ETag has   *)
(* the server's content: neither an upload's answer, nor a refresh, nor  *)
(* a repaired bit records a version the file does not have, but for the  *)
(* excused ones (Record in handleChange, RefreshPlaceholderIfInSync,     *)
(* healPlainFile).                                                       *)
(*************************************************************************)
THEOREM MirrorIsTrueAlways == LiveSpec => []MirrorIsTrue
<1> QED BY MirrorFollows, Invariant, PTL

=============================================================================
