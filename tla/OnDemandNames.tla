---------------------------- MODULE OnDemandNames ----------------------------
(***************************************************************************)
(* Files renamed, moved and deleted in a virtual-files mount               *)
(* (internal/vfs/watcher_windows.go).  One rename is reported twice, by    *)
(* the directory watch and by the cloud filter, and a move to another      *)
(* folder shows as a removal and an arrival; a placeholder's identity      *)
(* names the server path it belongs to.  Out of that the watcher makes one *)
(* MOVE, a deletion or an upload, while a pass brings what the server has. *)
(*                                                                         *)
(* A version stands for a file's bytes and its ETag, which a MOVE keeps.   *)
(* How contents are compared, parked and refreshed is in OnDemand; here an *)
(* upload is one step on the server.                                       *)
(***************************************************************************)
EXTENDS Integers, FiniteSets, Sequences

CONSTANTS
  Names,      \* server and local paths: an identity is one of them
  Home,       \* where the file is at first
  ActsMax,    \* bound on what users and other clients do, and on what fails
  FidMax,     \* bound on file ids in use at a time
  TriesMax    \* renameMaxRetries

NoName == "none"

ASSUME OnDemandNamesAssumption ==
  /\ IsFiniteSet(Names) /\ NoName \notin Names /\ Home \in Names
  /\ ActsMax \in Nat /\ FidMax \in Nat \ {0} /\ TriesMax \in Nat

VARIABLES
  local,      \* the files: kind, version, identity, in-sync bit, unsynced data
  server,     \* its files: version (0: none) and file id
  base, fids, \* ETags and file ids recorded
  parked,     \* versions set aside as conflicted copies
  events,     \* notices of the directory watch, in order
  calls,      \* renames the filter is reporting, in order
  queue,      \* names with an armed upload or deletion, a check, a mark, by kind
  marks,      \* claims on renames, and sources whose removal is a move's
  run,        \* uploads
  moves,      \* MOVEs and their retries
  tries,      \* how often a MOVE to a name has failed
  pass,       \* Reconcile, by name
  owed,       \* folders a sweep is owed, or whose ETag is not the one recorded
  apart,      \* whether the names are in different folders
  acts,       \* what has gone on
  seen        \* history, see NothingLost and Settles

disk  == << local, server, base, fids, parked >>
work  == << events, calls, queue, marks, run, moves, tries >>
sweep == << pass, owed >>
world == << acts, apart >>
vars  == << local, server, base, fids, parked, events, calls, queue, marks, run, moves, tries,
            pass, owed, acts, apart, seen >>

Versions == 0 .. ActsMax + 1
Fids     == 0 .. FidMax
NoFile   == [kind |-> "none", data |-> 0, id |-> NoName, sync |-> FALSE, mod |-> FALSE]
Nothing  == [ver |-> 0, fid |-> 0]
NoRun    == [at |-> "idle", data |-> 0, forced |-> FALSE, again |-> FALSE]
NotDue   == [at |-> "none", here |-> FALSE, list |-> Nothing]
NoPass   == [of |-> [n \in Names |-> NotDue], full |-> {}, bad |-> {}, taken |-> {}]
NoQueue  == [up |-> {}, del |-> {}, erase |-> {}, verify |-> {}, forced |-> {}, hushed |-> {}, moving |-> {}]
NoMarks  == [claims |-> {}, sources |-> {}]

Move   == [src: Names, dst: Names, at: {"sent", "landed", "wait"}]
Notice == [kind: {"modified", "added", "renamed", "removed"}, from: Names \cup {NoName}, name: Names]

Gaps   == {"gaveUp", "overtook", "muted", "vacated", "dead", "left", "carried", "stale", "unheard",
           "refused", "mistaken", "undone"}

TypeOK ==
  /\ local \in [Names -> [kind: {"none", "plain", "stub", "full"}, data: Versions,
                          id: Names \cup {NoName}, sync: BOOLEAN, mod: BOOLEAN]]
  /\ \A n \in Names : /\ local[n].kind \in {"none", "plain"} <=> local[n].id = NoName
                      /\ local[n].kind = "none" <=> local[n].data = 0
  /\ server \in [Names -> [ver: Versions, fid: Fids]]
  /\ \A n, o \in Names : server[n].fid # 0 /\ server[n].fid = server[o].fid => n = o
  /\ base \in [Names -> Versions] /\ fids \in [Names -> Fids] /\ parked \subseteq Versions
  /\ events \in Seq(Notice) /\ calls \in Seq(Names \X Names)
  /\ queue \in [up: SUBSET Names, del: SUBSET Names, erase: SUBSET Names, verify: SUBSET Names,
                forced: SUBSET Names, hushed: SUBSET Names, moving: SUBSET Names]
  /\ marks \in [claims: SUBSET (Names \X Names), sources: SUBSET Names]
  /\ run \in [Names -> [at: {"idle", "up"}, data: Versions, forced: BOOLEAN, again: BOOLEAN]]
  /\ moves \subseteq Move /\ tries \in [Names -> 0 .. TriesMax + 1]
  /\ pass \in [of: [Names -> [at: {"none", "due", "read", "listed"}, here: BOOLEAN,
                              list: [ver: Versions, fid: Fids]]],
               full: SUBSET Names, bad: SUBSET Names, taken: SUBSET Names]
  /\ owed \in [full: SUBSET Names, newer: SUBSET Names]
  /\ apart \in BOOLEAN /\ acts \in 0 .. ActsMax
  /\ seen \in [heads: SUBSET Versions, excused: SUBSET Versions, mine: [Names -> Versions],
               alone: BOOLEAN, gaps: SUBSET Gaps]

\* seen.gaps: the ways known to leave the sides apart until a sweep or a user's hand.
\*   gaveUp   a MOVE failed TriesMax + 1 times
\*   undone   one was done again, or its effect mirrored, after its file had been moved on
\*   mistaken one that failed was taken for done: another file was at the destination
\*   overtook a MOVE found nothing: the one that brings the file to its source was under way
\*   dead     it found nothing to an online-only file, which no pass need look at again
\*   vacated  an upload went to a name a MOVE under way, or given up, was to take away
\*   carried  the baseline a MOVE carried was not that of the file moved
\*   stale    a rename pulled of a file changed as well: the baseline is newer than the bytes
\*   left     a changed file not in sync was left, and its folder's ETag recorded
\*   muted    the user's doing was taken for the program's own
\*   unheard  a deletion nobody told of, or forgotten: the file comes back
\*   refused  a DELETE failed in a way that is not tried again: the file comes back

\* One file, in sync; every other name is free.  MOVEs may have failed before: only one that
\* succeeds clears the count.
Init ==
  /\ \E k \in {"stub", "full"} :
       local = [n \in Names |-> IF n = Home THEN [kind |-> k, data |-> 1, id |-> n, sync |-> TRUE, mod |-> FALSE]
                                ELSE NoFile]
  /\ server = [n \in Names |-> IF n = Home THEN [ver |-> 1, fid |-> 1] ELSE Nothing]
  /\ base = [n \in Names |-> server[n].ver] /\ fids = [n \in Names |-> server[n].fid]
  /\ seen = [heads |-> {1}, excused |-> {}, mine |-> base, alone |-> TRUE, gaps |-> {}]
  /\ parked = {} /\ events = << >> /\ calls = << >> /\ queue = NoQueue /\ marks = NoMarks
  /\ run = [n \in Names |-> NoRun] /\ moves = {}
  /\ \E k \in 0 .. TriesMax : tries = [n \in Names |-> k]
  /\ pass = NoPass /\ owed = [full |-> {}, newer |-> {}]
  /\ acts = 0 /\ apart \in BOOLEAN

May == acts < ActsMax /\ acts' = acts + 1 /\ UNCHANGED apart
Latest == acts + 2

Is(n, kinds)   == local[n].kind \in kinds
Exists(n)      == ~Is(n, {"none"})
Placeholder(n) == Is(n, {"stub", "full"})
\* cfapi.Inspect and PlaceholderModified: what the data says.
Unsynced(n)    == Is(n, {"plain"}) \/ local[n].mod
Foreign(n)     == Placeholder(n) /\ local[n].id # n
Beside(n)      == IF apart THEN {n} ELSE Names   \* the names in its folder
Moving(n)      == n \in queue.moving              \* moveInFlight
DeletePending(n) == n \in queue.del \cup queue.erase

\* MarkInSync and SetInSync; UpdateIdentity and UpdateIdentityKeepState, which need a placeholder.
InSync(f, n) == CASE f.kind = "plain" -> [f EXCEPT !.kind = "full", !.id = n, !.sync = TRUE]
                  [] f.kind = "none"  -> f
                  [] OTHER -> [f EXCEPT !.sync = TRUE, !.mod = FALSE]
RepointedAny(f, n) == [f EXCEPT !.id = n, !.sync = TRUE, !.mod = FALSE]   \* mutant
Repointed(f, n) == IF f.kind \in {"none", "plain"} THEN f ELSE [f EXCEPT !.id = n, !.sync = TRUE, !.mod = FALSE]
Renamed(f, n)   == IF f.kind \in {"none", "plain"} THEN f ELSE [f EXCEPT !.id = n]

Least(S) == {n \in S : \A m \in S : n <= m}
NewFids  == Least((1 .. FidMax) \ ({server[n].fid : n \in Names} \cup {fids[n] : n \in Names}
                                    \cup {pass.of[n].list.fid : n \in Names}))
Excuse(V) == seen' = [seen EXCEPT !.excused = @ \cup (V \ {0})]
Tells(s)  == events' = events \o s
Note(kind, from, n) == [kind |-> kind, from |-> from, name |-> n]
\* A deletion the program never heard of, or forgets: the file comes back.
Forgotten(n) == server[n].ver # 0 /\ seen.mine[n] = 0 /\ \A o \in Names : local[o].id # n
Unheard(S) == seen' = [seen EXCEPT !.gaps = IF \E n \in S : Forgotten(n) THEN @ \cup {"unheard"} ELSE @]
\* The folders of S have a new ETag.
Newer(S)  == owed' = [owed EXCEPT !.newer = @ \cup UNION {Beside(n) : n \in S}]

-----------------------------------------------------------------------------
(* Users *)

UserOnly == UNCHANGED << server, base, fids, parked, queue, marks, run, moves, tries, sweep >>

\* Within a folder the watch tells of one pair, across folders of a removal and an arrival;
\* the filter tells of placeholders.  Their in-sync bit is cleared.
Rename(x, y) ==
  /\ May /\ Exists(x) /\ ~Exists(y)
  /\ local' = [local EXCEPT ![x] = NoFile, ![y] = [local[x] EXCEPT !.sync = FALSE]]
  /\ Tells(IF apart THEN << Note("removed", NoName, x), Note("added", NoName, y), Note("modified", NoName, y) >>
                    ELSE << Note("renamed", x, y) >>)
  /\ calls' = IF Placeholder(x) THEN Append(calls, << x, y >>) ELSE calls
  /\ seen' = [seen EXCEPT !.mine[x] = 0, !.mine[y] = seen.mine[x]]
  /\ UserOnly

\* An edit in place; a new file; a file put in the place of the old is OnDemand's Save.
Edit(n) ==
  /\ May /\ Is(n, {"plain", "full"})
  /\ local' = [local EXCEPT ![n].data = Latest, ![n].sync = FALSE, ![n].mod = Is(n, {"full"})]
  /\ Tells(<< Note("modified", NoName, n) >>)
  /\ seen' = [seen EXCEPT !.heads = (@ \ {local[n].data}) \cup {Latest}, !.mine[n] = Latest]
  /\ UNCHANGED calls /\ UserOnly
New(n) ==
  /\ May /\ ~Exists(n)
  /\ local' = [local EXCEPT ![n] = [NoFile EXCEPT !.kind = "plain", !.data = Latest]]
  /\ Tells(<< Note("added", NoName, n) >>)
  /\ seen' = [seen EXCEPT !.heads = @ \cup {Latest}, !.mine[n] = Latest]
  /\ UNCHANGED calls /\ UserOnly
Remove(n) ==
  /\ May /\ Exists(n)
  /\ local' = [local EXCEPT ![n] = NoFile]
  /\ Tells(<< Note("removed", NoName, n) >>)
  /\ seen' = [seen EXCEPT !.heads = @ \ {local[n].data}, !.mine[n] = 0]
  /\ UNCHANGED calls /\ UserOnly

\* The filter fetches what the identity names.
Open(n) ==
  /\ May /\ Is(n, {"stub"}) /\ server[local[n].id].ver # 0
  /\ local' = [local EXCEPT ![n].kind = "full", ![n].data = server[local[n].id].ver]
  /\ UNCHANGED << events, calls, seen >> /\ UserOnly

User == \E n \in Names : (\E o \in Names : Rename(n, o)) \/ Edit(n) \/ New(n) \/ Remove(n) \/ Open(n)

-----------------------------------------------------------------------------
(* Other clients *)

TheirsOnly == UNCHANGED << local, base, fids, parked, work, pass >>

Theirs(n) ==
  /\ May
  /\ \E f \in NewFids : server' = [server EXCEPT ![n] = [ver |-> Latest, fid |-> IF @.ver = 0 THEN f ELSE @.fid]]
  /\ seen' = [seen EXCEPT !.heads = (@ \ {server[n].ver}) \cup {Latest}, !.alone = FALSE]
  /\ Newer({n}) /\ TheirsOnly
TheirRename(x, y) ==
  /\ May /\ server[x].ver # 0 /\ server[y].ver = 0
  /\ server' = [server EXCEPT ![x] = Nothing, ![y] = server[x]]
  /\ seen' = [seen EXCEPT !.alone = FALSE]
  /\ Newer({x, y}) /\ TheirsOnly
TheirRemove(n) ==
  /\ May /\ server[n].ver # 0
  /\ server' = [server EXCEPT ![n] = Nothing]
  /\ seen' = [seen EXCEPT !.heads = @ \ {server[n].ver}, !.alone = FALSE]
  /\ Newer({n}) /\ TheirsOnly
Server == \E n \in Names : Theirs(n) \/ TheirRemove(n) \/ \E o \in Names : TheirRename(n, o)

-----------------------------------------------------------------------------
(* What the watch and the filter tell: parse, NotifyRenamed, handleRename *)

TellOnly == UNCHANGED << disk, tries, sweep, world >>
\* Notices and reports are handled within moments: before a debounce, and before marks expire.
Quick == events = << >> /\ calls = << >>

\* cancelInflight of the old name, then the MOVE; nothing if it was our own rename.
HandleRename(q, x, y) ==
  IF {x, y} \cap q.hushed # {}
  THEN /\ queue' = q /\ UNCHANGED << run, moves >>
       /\ seen' = [seen EXCEPT !.gaps = IF Foreign(y) THEN @ \cup {"muted"} ELSE @]
  ELSE /\ queue' = [q EXCEPT !.up = (@ \ {x}) \cup (IF run[x].again THEN {x} ELSE {}),
                             !.forced = @ \ {x}, !.moving = @ \cup {y}]
       /\ run' = [run EXCEPT ![x] = NoRun]
       /\ moves' = moves \cup {[src |-> x, dst |-> y, at |-> "sent"]}
       /\ UNCHANGED seen
Unverified(q, n) == q   \* mutant: the second report of a rename is passed over
\* verifyPlacement begins: one check answers them all.
Verify(q, n) == IF n \in q.hushed THEN q ELSE [q EXCEPT !.verify = @ \cup {n}]
OnlyVerify(q, n) == queue' = Verify(q, n) /\ UNCHANGED << run, moves, seen >>

Unmarked(x, y) ==   \* mutant: the source is not marked
  LET q == [queue EXCEPT !.del = @ \ {x}]
  IN /\ marks' = [marks EXCEPT !.claims = @ \cup {<< x, y >>}]
     /\ IF << x, y >> \in marks.claims THEN OnlyVerify(q, y) ELSE HandleRename(q, x, y)
\* NotifyRenamed: the first report of a pair is pushed, the source marked if its removal is
\* still to come.
Report(x, y) ==
  LET q == [queue EXCEPT !.del = @ \ {x}]
  IN /\ marks' = [claims |-> marks.claims \cup {<< x, y >>},
                  sources |-> IF x \in queue.del THEN marks.sources \ {x} ELSE marks.sources \cup {x}]
     /\ IF << x, y >> \in marks.claims THEN OnlyVerify(q, y) ELSE HandleRename(q, x, y)
Call ==
  /\ calls # << >> /\ calls' = Tail(calls)
  /\ Report(Head(calls)[1], Head(calls)[2])
  /\ UNCHANGED events /\ TellOnly

\* An arrival whose identity names a removal that waits is a move.
MoveOf(e) == e.kind = "added" /\ Foreign(e.name) /\ local[e.name].id \in queue.del
Parse ==
  /\ events # << >> /\ events' = Tail(events)
  /\ LET e == Head(events) IN
       \/ /\ MoveOf(e) /\ Report(local[e.name].id, e.name)
       \/ /\ e.kind \in {"added", "modified"} /\ ~MoveOf(e)
          /\ queue' = [queue EXCEPT !.del = @ \ {e.name}, !.up = @ \cup {e.name}]
          /\ UNCHANGED << marks, run, moves, seen >>
       \/ /\ e.kind = "removed"
          /\ queue' = [queue EXCEPT !.del = @ \cup {e.name}]
          /\ UNCHANGED << marks, run, moves, seen >>
       \/ /\ e.kind = "renamed"
          /\ LET q == [queue EXCEPT !.del = @ \ {e.from}] IN
               IF << e.from, e.name >> \in marks.claims
               THEN /\ marks' = [marks EXCEPT !.sources = @ \ {e.from}]
                    /\ OnlyVerify(q, e.name)
               ELSE /\ marks' = [marks EXCEPT !.claims = @ \cup {<< e.from, e.name >>}]
                    /\ HandleRename(q, e.from, e.name)
  /\ UNCHANGED calls /\ TellOnly

Overflow ==
  /\ May /\ events # << >> /\ events' = << >>
  /\ owed' = [owed EXCEPT !.full = Names]
  /\ Unheard({events[i].name : i \in {j \in DOMAIN events : events[j].kind = "removed"}})
  /\ UNCHANGED << disk, calls, queue, marks, run, moves, tries, pass >>

\* renameClaimTTL, movedSourceTTL and suppressFor run out, after the timers they are for.
Expire ==
  /\ Quick /\ marks # NoMarks /\ marks.sources \cap queue.del = {}
  /\ marks' = NoMarks
  /\ UNCHANGED << events, calls, queue, run, moves, seen >> /\ TellOnly
Unhush(n) ==
  /\ Quick /\ n \in queue.hushed \ (queue.del \cup queue.up)
  /\ queue' = [queue EXCEPT !.hushed = @ \ {n}]
  /\ UNCHANGED << events, calls, marks, run, moves, seen >> /\ TellOnly

-----------------------------------------------------------------------------
(* handleChange *)

ChangeKeeps == UNCHANGED << events, calls, marks, moves, tries, pass >>
ChangeOnly == ChangeKeeps /\ UNCHANGED world
Later(q, n, forced) == [q EXCEPT !.up = @ \cup {n}, !.forced = IF forced THEN @ \cup {n} ELSE @]
IfIdle(q, n) == [q EXCEPT !.up = IF run[n].at = "idle" THEN @ \cup {n} ELSE @]

\* One run per name; while a MOVE to the name goes on it waits; a file another name's identity
\* is on is left to the placement check; a clean one gets its bit back.
Fire(n) ==
  /\ Quick /\ n \in queue.up
  /\ LET q == [queue EXCEPT !.up = @ \ {n}, !.forced = @ \ {n}]
         forced == n \in queue.forced
     IN \/ /\ run[n].at = "up"
           /\ queue' = q /\ run' = [run EXCEPT ![n].again = TRUE] /\ UNCHANGED << local, seen >>
        \/ /\ run[n].at = "idle" /\ n \in queue.hushed
           /\ queue' = q /\ UNCHANGED << local, run >>
           /\ seen' = [seen EXCEPT !.gaps = IF Exists(n) /\ (Unsynced(n) \/ forced \/ Foreign(n)) THEN @ \cup {"muted"} ELSE @]
        \/ /\ run[n].at = "idle" /\ n \notin queue.hushed /\ ~Exists(n)
           /\ queue' = q /\ UNCHANGED << local, run, seen >>
        \/ /\ run[n].at = "idle" /\ n \notin queue.hushed /\ Exists(n) /\ ~Moving(n)
           /\ UNCHANGED seen
           /\ IF ~forced /\ Foreign(n) /\ ~local[n].sync
              THEN queue' = Verify(q, n) /\ UNCHANGED << local, run >>
              ELSE IF ~forced /\ (~Unsynced(n) \/ Is(n, {"stub"}))
              THEN /\ queue' = q /\ UNCHANGED run
                   /\ local' = IF Unsynced(n) THEN local ELSE [local EXCEPT ![n].sync = TRUE]
              ELSE /\ queue' = q /\ UNCHANGED local
                   /\ run' = [run EXCEPT ![n] = [at |-> "up", data |-> local[n].data, forced |-> forced, again |-> FALSE]]
  /\ UNCHANGED << server, base, fids, parked, owed >> /\ ChangeOnly

\* uploadWithConflictFor in one step: what the baseline does not know is set aside.
\* The bytes are read then, or fetched; of a file gone since, those that were being read.
Sends(n) == IF Is(n, {"none"}) THEN run[n].data ELSE IF Is(n, {"stub"}) THEN server[local[n].id].ver ELSE local[n].data
Clash(n) == server[n].ver \notin {0, Sends(n)} /\ server[n].ver # base[n]
\* A file that belongs to the name is elsewhere here, and its MOVE under way or given up.
Vacated(n) == \/ \E m \in moves : m.src = n
              \/ "gaveUp" \in seen.gaps /\ \E o \in Names \ {n} : local[o].id = n
Put(n) ==
  /\ \E f \in NewFids :
       server' = [server EXCEPT ![n] = [ver |-> Sends(n), fid |-> IF @.ver = 0 \/ Clash(n) THEN f ELSE @.fid]]
  /\ parked' = IF Clash(n) THEN parked \cup {server[n].ver} ELSE parked
  /\ Newer({n})
  /\ seen' = IF Vacated(n)
             THEN [seen EXCEPT !.excused = @ \cup {server[n].ver}, !.gaps = @ \cup {"vacated"}] ELSE seen
Ends(q, n) == /\ run' = [run EXCEPT ![n] = NoRun]
              /\ queue' = [q EXCEPT !.up = IF run[n].again THEN @ \cup {n} ELSE @]
\* Then what was sent is marked in sync; the forced upload of a foreign placeholder makes it ours.
Read(n) == IF Is(n, {"stub"}) THEN [local[n] EXCEPT !.kind = "full", !.data = Sends(n)] ELSE local[n]
Upload(n) ==
  /\ Quick /\ run[n].at = "up" /\ Sends(n) # 0 /\ Put(n)
  /\ base' = [base EXCEPT ![n] = Sends(n)]
  /\ Ends(queue, n)
  /\ local' = [local EXCEPT ![n] = IF run[n].forced /\ Foreign(n) THEN Repointed(Read(n), n) ELSE InSync(Read(n), n)]
  /\ UNCHANGED fids /\ ChangeOnly
\* It fails, with the server's copy written or not.
UploadFails(n) ==
  /\ May /\ Quick /\ run[n].at = "up"
  /\ \/ Sends(n) # 0 /\ Put(n)
     \/ UNCHANGED << server, parked, owed, seen >>
  /\ Ends(Later(queue, n, run[n].forced), n)
  /\ UNCHANGED << local, base, fids >> /\ ChangeKeeps

-----------------------------------------------------------------------------
(* moveServer, finishRename, verifyPlacement *)

MoveKeeps == UNCHANGED << events, calls, marks, run, pass, fids, parked >>
MoveOnly == MoveKeeps /\ UNCHANGED world
Resolves(m, q) == moves' = moves \ {m} /\ queue' = [q EXCEPT !.moving = @ \ {m.dst}]
Gets(m, s) == moves' = (moves \ {m}) \cup {[m EXCEPT !.at = s]}

\* MOVE with Overwrite: T.  Nothing looks whether its file is still there.
Deserted(m) ==
  /\ ~(Exists(m.dst) /\ local[m.dst].id \in {m.src, NoName}) /\ (DeletePending(m.dst) => m.dst \in marks.sources)
  /\ ~\E o \in moves : o.src = m.dst /\ o.at # "landed"
Moved(m, gaps) ==
  /\ server' = [server EXCEPT ![m.src] = Nothing, ![m.dst] = server[m.src]]
  /\ Newer({m.src, m.dst})
  /\ seen' = [seen EXCEPT !.excused = @ \cup ({server[m.dst].ver} \ {0}),
                          !.gaps = @ \cup gaps \cup (IF Deserted(m) THEN {"undone"} ELSE {})]
MoveApplies(m) ==
  /\ Quick /\ m.at = "sent" /\ server[m.src].ver # 0
  /\ Moved(m, {}) /\ Gets(m, "landed")
  /\ UNCHANGED << local, base, queue, tries >> /\ MoveOnly

\* 404: an online-only file is left to the next pass, another is uploaded where it is.
MoveFinds404(m) ==
  /\ Quick /\ m.at = "sent" /\ server[m.src].ver = 0
  /\ IF Is(m.dst, {"stub"})
     THEN /\ local' = [local EXCEPT ![m.dst] = Repointed(@, m.dst)]
          /\ Resolves(m, queue)
     ELSE /\ Resolves(m, [IfIdle(queue, m.dst) EXCEPT !.forced = @ \cup {m.dst}])
          /\ UNCHANGED local
  /\ seen' = [seen EXCEPT !.gaps = @ \cup (IF \E o \in moves \ {m} : o.dst = m.src THEN {"overtook"} ELSE {})
                                      \cup (IF Is(m.dst, {"stub"}) THEN {"dead"} ELSE {})]
  /\ UNCHANGED << server, base, tries, owed >> /\ MoveOnly

\* The answer is lost, or an error: a file at the destination is taken for the MOVE's effect.
\* If there is none, or that cannot be asked either, it is tried again, TriesMax times.
GivesUp(m) == tries[m.dst] >= TriesMax
Believed(m) == server'[m.dst].ver # 0 /\ Gets(m, "landed") /\ UNCHANGED << queue, tries >>
TriedAgain(m) ==
  /\ ~GivesUp(m) /\ Gets(m, "wait") /\ UNCHANGED queue
  /\ tries' = [tries EXCEPT ![m.dst] = @ + 1]
MoveFails(m) ==
  /\ Quick /\ m.at = "sent" /\ May
  /\ \/ server[m.src].ver # 0 /\ Moved(m, {}) /\ (Believed(m) \/ TriedAgain(m))
     \/ TriedAgain(m) /\ UNCHANGED << server, owed, seen >>
  /\ UNCHANGED << local, base >> /\ MoveKeeps
\* It was not done, or not by this attempt: the file there may be another.  No act is counted,
\* so that there may be one that put it there.
MoveMistaken(m) ==
  /\ Quick /\ m.at = "sent" /\ UNCHANGED server /\ Believed(m)
  /\ seen' = [seen EXCEPT !.gaps = IF server[m.src].ver # 0 \/ \E o \in moves : o.src = m.dst
                                   THEN @ \cup {"mistaken"} ELSE @]
  /\ UNCHANGED << local, base, owed >> /\ MoveOnly
MoveGivesUp(m) ==
  /\ Quick /\ m.at = "sent" /\ GivesUp(m) /\ May
  /\ Resolves(m, queue)
  /\ tries' = [tries EXCEPT ![m.dst] = TriesMax + 1]
  /\ \/ server[m.src].ver # 0 /\ Moved(m, {"gaveUp"})
     \/ seen' = [seen EXCEPT !.gaps = @ \cup {"gaveUp"}] /\ UNCHANGED << server, owed >>
  /\ UNCHANGED << local, base >> /\ MoveKeeps
MoveRetries(m) ==
  /\ m.at = "wait" /\ Gets(m, "sent") /\ queue' = [queue EXCEPT !.moving = @ \cup {m.dst}]
  /\ UNCHANGED << local, server, base, tries, owed, seen >> /\ MoveOnly

\* finishRename: the baseline travels, and an edit not yet sent is kept and sent.
Carried(m) == IF base[m.src] = 0 THEN base ELSE [base EXCEPT ![m.dst] = base[m.src], ![m.src] = 0]
MoveFinishes(m) ==
  /\ m.at = "landed"
  /\ IF Exists(m.dst) /\ Unsynced(m.dst)
     THEN local' = [local EXCEPT ![m.dst] = Renamed(@, m.dst)] /\ Resolves(m, IfIdle(queue, m.dst))
     ELSE local' = [local EXCEPT ![m.dst] = Repointed(@, m.dst)] /\ Resolves(m, queue)
  /\ base' = Carried(m) /\ tries' = [tries EXCEPT ![m.dst] = 0]
  /\ seen' = IF base[m.src] \notin {0, local[m.dst].data} /\ ~Unsynced(m.dst)
             THEN [seen EXCEPT !.gaps = @ \cup {"carried"}, !.excused = @ \cup {base[m.src]}] ELSE seen
  /\ UNCHANGED << server, owed >> /\ MoveOnly

\* verifyPlacement, once no MOVE to the name is under way: a foreign placeholder is moved after all.
Placed(n) ==
  /\ Quick /\ n \in queue.verify /\ ~Moving(n)
  /\ LET q == [queue EXCEPT !.verify = @ \ {n}]
     IN IF n \notin queue.hushed /\ Foreign(n)
        THEN /\ queue' = [q EXCEPT !.moving = @ \cup {n}]
             /\ moves' = moves \cup {[src |-> local[n].id, dst |-> n, at |-> "sent"]}
        ELSE queue' = q /\ UNCHANGED moves
  /\ UNCHANGED << local, server, base, tries, owed, seen >> /\ MoveOnly
\* A MOVE being tried again may outlast renameVerifyMax, and is left to itself.
Unplaced(n) ==
  /\ Quick /\ n \in queue.verify /\ \E m \in moves : m.dst = n /\ m.at = "wait"
  /\ queue' = [queue EXCEPT !.verify = @ \ {n}]
  /\ UNCHANGED << local, server, base, moves, tries, owed, seen >> /\ MoveOnly

MoveStep == \E m \in moves : \/ MoveApplies(m) \/ MoveFinds404(m) \/ MoveRetries(m) \/ MoveFinishes(m)

-----------------------------------------------------------------------------
(* handleDelete *)

DeleteKeeps == UNCHANGED << local, base, fids, parked, events, calls, moves, tries, pass >>
DeleteOnly == DeleteKeeps /\ UNCHANGED world

\* Our own removal, a move's, or a name that is taken again: nothing to delete.  An upload for
\* the name is cancelled.
FireDelete(n) ==
  /\ Quick /\ n \in queue.del
  /\ LET q == [queue EXCEPT !.del = @ \ {n}] IN
       \/ /\ n \in queue.hushed
          /\ queue' = q /\ UNCHANGED << marks, run >>
          /\ seen' = IF ~Exists(n) /\ server[n].ver # 0 THEN [seen EXCEPT !.gaps = @ \cup {"muted"}] ELSE seen
       \/ /\ n \notin queue.hushed /\ n \in marks.sources
          /\ queue' = q /\ marks' = [marks EXCEPT !.sources = @ \ {n}] /\ UNCHANGED << run, seen >>
       \/ /\ n \notin queue.hushed \cup marks.sources /\ ~Moving(n)
          /\ run' = [run EXCEPT ![n] = NoRun]
          /\ queue' = [q EXCEPT !.up = (@ \ {n}) \cup (IF run[n].again THEN {n} ELSE {}), !.forced = @ \ {n},
                                !.erase = IF Exists(n) THEN @ ELSE @ \cup {n}]
          /\ UNCHANGED << marks, seen >>
  /\ UNCHANGED << server, owed >> /\ DeleteOnly

\* Judged, looked at once more, and sent.
Drops(n) == queue' = [queue EXCEPT !.erase = @ \ {n}] /\ UNCHANGED << server, owed, seen >>
Deleted(n) ==
  /\ server' = [server EXCEPT ![n] = Nothing] /\ Newer({n})
  /\ Excuse(IF server[n].ver # base[n] THEN {server[n].ver} ELSE {})
Erase(n) ==
  /\ Quick /\ n \in queue.erase
  /\ IF server[n].ver = 0 \/ Exists(n) \/ n \in queue.hushed \cup marks.sources
     THEN Drops(n)
     ELSE IF Moving(n)
     THEN queue' = [queue EXCEPT !.erase = @ \ {n}, !.del = @ \cup {n}] /\ UNCHANGED << server, owed, seen >>
     ELSE /\ Deleted(n)
          /\ queue' = [queue EXCEPT !.erase = @ \ {n}]
  /\ marks' = [marks EXCEPT !.sources = @ \ (IF Exists(n) THEN {} ELSE {n})]
  /\ UNCHANGED run /\ DeleteOnly
\* What could not be judged, or may heal (transport.Retryable), is tried again, whether the
\* server did it or not; what was refused is not.
EraseFails(n) ==
  LET sent == server[n].ver # 0 /\ ~Exists(n) /\ n \notin queue.hushed \cup marks.sources /\ ~Moving(n)
      again == [queue EXCEPT !.erase = @ \ {n}, !.del = @ \cup {n}]
  IN  /\ Quick /\ n \in queue.erase /\ May
      /\ \/ queue' = again /\ UNCHANGED << server, owed, seen >>
         \/ sent /\ queue' = again /\ Deleted(n)
         \/ /\ sent /\ queue' = [queue EXCEPT !.erase = @ \ {n}]
            /\ seen' = [seen EXCEPT !.gaps = @ \cup {"refused"}]
            /\ UNCHANGED << server, owed >>
      /\ UNCHANGED << marks, run >> /\ DeleteKeeps

-----------------------------------------------------------------------------
(* Reconcile, name by name *)

PassOnly == UNCHANGED << server, parked, calls, marks, run, tries, world >>
Kept == UNCHANGED << local, base, fids, events, queue, moves, seen >>

\* The folders whose ETag is new, or that are owed a sweep.
Begin ==
  /\ pass = NoPass /\ owed.full \cup owed.newer # {}
  /\ pass' = [NoPass EXCEPT !.full = owed.full,
                            !.of = [n \in Names |-> [NotDue EXCEPT !.at = IF n \in owed.full \cup owed.newer THEN "due" ELSE "none"]]]
  /\ owed' = [full |-> {}, newer |-> {}]
  /\ Kept /\ PassOnly

\* One folder at a time is read, then listed, then gone through.
ReadDir(n) ==
  /\ pass.of[n].at = "due" /\ \A o \in Names : pass.of[o].at \notin {"read", "listed"}
  /\ pass' = [pass EXCEPT !.of = [o \in Names |-> IF o \in Beside(n) THEN [@[o] EXCEPT !.at = "read", !.here = Exists(o)] ELSE @[o]]]
  /\ UNCHANGED owed /\ Kept /\ PassOnly
List(n) ==
  /\ Quick /\ pass.of[n].at = "read"
  /\ pass' = [pass EXCEPT !.of = [o \in Names |-> IF o \in Beside(n) THEN [@[o] EXCEPT !.at = "listed", !.list = server[o]] ELSE @[o]]]
  /\ UNCHANGED owed /\ Kept /\ PassOnly

\* What is here first, then what is only there.
Turn(n) == /\ pass.of[n].at = "listed"
           /\ pass.of[n].here \/ \A o \in Names : ~(pass.of[o].at = "listed" /\ pass.of[o].here)
Listed(n) == pass.of[n].list
OnlyHere(n) == Turn(n) /\ pass.of[n].here /\ Listed(n).ver = 0
InBoth(n)   == Turn(n) /\ pass.of[n].here /\ Listed(n).ver # 0
OnlyThere(n) == Turn(n) /\ ~pass.of[n].here /\ Listed(n).ver # 0
Goes(n, ok, taken) ==
  pass' = [pass EXCEPT !.of[n] = NotDue, !.bad = IF ok THEN @ ELSE @ \cup Beside(n), !.taken = @ \cup taken]
Done(n, ok) == Goes(n, ok, {}) /\ UNCHANGED owed /\ PassOnly

Passes(n) ==
  /\ \/ Turn(n) /\ ~pass.of[n].here /\ Listed(n).ver = 0
     \/ Turn(n) /\ pass.of[n].here /\ ~Exists(n)
  /\ Done(n, TRUE) /\ Kept

\* A foreign placeholder is moved, unless that is under way.
MovedHere(n) ==
  /\ OnlyHere(n) /\ Foreign(n)
  /\ IF Moving(n) THEN UNCHANGED << queue, moves >>
     ELSE /\ queue' = [queue EXCEPT !.moving = @ \cup {n}]
          /\ moves' = moves \cup {[src |-> local[n].id, dst |-> n, at |-> "sent"]}
  /\ Done(n, FALSE) /\ UNCHANGED << local, base, fids, events, seen >>
\* An edit nobody sent is sent.
Rescue(n) ==
  /\ OnlyHere(n) /\ Exists(n) /\ ~Foreign(n) /\ Unsynced(n)
  /\ queue' = IfIdle(queue, n)
  /\ Done(n, TRUE) /\ UNCHANGED << local, base, fids, events, moves, seen >>

\* Renamed on the server, known by its file id; else removed there, and so here.
Targets(n) == {y \in Names : /\ ~apart /\ ~pass.of[y].here /\ pass.of[y].at = "listed" /\ fids[n] # 0
                             /\ Listed(y).ver # 0 /\ Listed(y).fid = fids[n] /\ y \notin pass.taken /\ ~Exists(y)}
ToMirror(n) == OnlyHere(n) /\ Exists(n) /\ ~Foreign(n) /\ ~Unsynced(n)
\* A MOVE from n, where the file is again, is not known to be done.
Unanswered(n) == \E m \in moves : m.src = n /\ m.at # "landed"
PullRename(n) ==
  /\ ToMirror(n)
  /\ \E y \in Targets(n) :
       /\ local' = [local EXCEPT ![n] = NoFile, ![y] = Repointed(local[n], y)]
       /\ queue' = [queue EXCEPT !.hushed = @ \cup {n, y}]
       /\ base' = [base EXCEPT ![y] = Listed(y).ver]
       /\ fids' = [fids EXCEPT ![y] = fids[n], ![n] = 0]
       /\ Tells(<< Note("renamed", n, y) >>)
       /\ seen' = [seen EXCEPT !.gaps = @ \cup (IF Listed(y).ver # local[n].data THEN {"stale"} ELSE {})
                                          \cup (IF Unanswered(n) THEN {"undone"} ELSE {})]
       /\ Goes(n, TRUE, {y})
  /\ UNCHANGED << moves, owed >> /\ PassOnly
PullRemove(n) ==
  /\ ToMirror(n) /\ Targets(n) = {}
  /\ local' = [local EXCEPT ![n] = NoFile]
  /\ queue' = [queue EXCEPT !.hushed = @ \cup {n}]
  /\ fids' = [fids EXCEPT ![n] = 0]
  /\ Tells(<< Note("removed", NoName, n) >>)
  /\ seen' = [seen EXCEPT !.gaps = IF Unanswered(n) THEN @ \cup {"undone"} ELSE @]
  /\ Done(n, TRUE) /\ UNCHANGED << base, moves >>

\* healPlainFile: unchanged, it is the server's; newer, it is sent.
Plain(n) ==
  /\ InBoth(n) /\ Is(n, {"plain"})
  /\ IF local[n].data = Listed(n).ver /\ base[n] \in {0, Listed(n).ver}
     THEN /\ local' = [local EXCEPT ![n] = InSync(@, n)]
          /\ base' = [base EXCEPT ![n] = Listed(n).ver] /\ fids' = [fids EXCEPT ![n] = Listed(n).fid]
          /\ UNCHANGED queue
     ELSE /\ queue' = IF local[n].data > Listed(n).ver THEN IfIdle(queue, n) ELSE queue
          /\ UNCHANGED << local, base, fids >>
  /\ Done(n, TRUE) /\ UNCHANGED << events, moves, seen >>
RescueBoth(n) ==
  /\ InBoth(n) /\ Placeholder(n) /\ Unsynced(n)
  /\ queue' = IfIdle(queue, n)
  /\ Done(n, TRUE) /\ UNCHANGED << local, base, fids, events, moves, seen >>

\* A clean one: to be checked if it is foreign, else given its bit back; in a sweep repointed;
\* then refreshed if the server's is another version, and only if it is in sync.
Sweeps(n) == n \in pass.full /\ local[n].sync /\ Foreign(n)
Tidied(n) == IF local[n].sync THEN IF Sweeps(n) /\ ~Moving(n) THEN [local[n] EXCEPT !.id = n] ELSE local[n]
             ELSE IF Foreign(n) THEN local[n] ELSE [local[n] EXCEPT !.sync = TRUE]
Changed(n) == IF base[n] # 0 THEN Listed(n).ver # base[n] ELSE Listed(n).ver # local[n].data
Refreshes(n) == Changed(n) /\ Tidied(n).sync
Clean(n) ==
  /\ InBoth(n) /\ Placeholder(n) /\ ~Unsynced(n)
  /\ queue' = IF ~local[n].sync /\ Foreign(n) THEN Verify(queue, n) ELSE queue
  /\ local' = [local EXCEPT ![n] = IF Refreshes(n) THEN [kind |-> "stub", data |-> Listed(n).ver, id |-> n, sync |-> TRUE, mod |-> FALSE]
                                   ELSE Tidied(n)]
  /\ base' = IF Refreshes(n) THEN [base EXCEPT ![n] = Listed(n).ver] ELSE base
  /\ Done(n, ~(Sweeps(n) /\ Moving(n)))
  /\ seen' = [seen EXCEPT !.gaps = IF Changed(n) /\ ~Refreshes(n) THEN @ \cup {"left"} ELSE @]
  /\ UNCHANGED << fids, events, moves >>

\* New there: a placeholder, unless its removal here is on the way to the server.
Waits(n) == DeletePending(n)
Add(n) ==
  /\ OnlyThere(n)
  /\ IF n \in pass.taken THEN Done(n, TRUE) /\ UNCHANGED << local, base, fids, events >>
     ELSE IF Waits(n) \/ Exists(n) THEN Done(n, FALSE) /\ UNCHANGED << local, base, fids, events >>
     ELSE /\ local' = [local EXCEPT ![n] = [kind |-> "stub", data |-> Listed(n).ver, id |-> n, sync |-> TRUE, mod |-> FALSE]]
          /\ base' = [base EXCEPT ![n] = Listed(n).ver] /\ fids' = [fids EXCEPT ![n] = Listed(n).fid]
          /\ Tells(<< Note("added", NoName, n) >>) /\ Done(n, TRUE)
  /\ UNCHANGED << queue, moves, seen >>

\* A folder not all of which went well is come back to, with its sweep.
End ==
  /\ pass # NoPass /\ \A n \in Names : pass.of[n].at = "none"
  /\ pass' = NoPass
  /\ owed' = [full |-> owed.full \cup (pass.full \cap pass.bad), newer |-> owed.newer \cup pass.bad]
  /\ Kept /\ PassOnly

Visit(n) == \/ ReadDir(n) \/ List(n) \/ Passes(n) \/ MovedHere(n) \/ Rescue(n) \/ PullRename(n) \/ PullRemove(n)
            \/ Plain(n) \/ RescueBoth(n) \/ Clean(n) \/ Add(n)
Pass == Begin \/ End \/ \E n \in Names : Visit(n)

-----------------------------------------------------------------------------
(* The program ends and starts: what it had not acted on is for the first pass to find *)

Crash ==
  /\ May
  /\ events' = << >> /\ calls' = << >> /\ queue' = NoQueue /\ marks' = NoMarks
  /\ run' = [n \in Names |-> NoRun] /\ moves' = {} /\ tries' = [n \in Names |-> 0]
  /\ pass' = NoPass /\ owed' = [owed EXCEPT !.full = Names]
  /\ Unheard({n \in Names : ~Exists(n)})
  /\ UNCHANGED disk

Watcher == \/ Call \/ Parse \/ Expire
           \/ \E n \in Names : Unhush(n) \/ Fire(n) \/ Upload(n) \/ Placed(n) \/ FireDelete(n) \/ Erase(n)
           \/ MoveStep \/ Pass
Next == \/ User \/ Server \/ Overflow \/ Crash
        \/ Watcher
        \/ \E n \in Names : UploadFails(n) \/ EraseFails(n) \/ Unplaced(n)
        \/ \E m \in moves : MoveFails(m) \/ MoveMistaken(m) \/ MoveGivesUp(m)

Spec == Init /\ [][Next]_vars
\* Notices come, timers fire, requests are answered, passes are made when the server has news.
Fairness ==
  /\ WF_vars(Call) /\ WF_vars(Parse) /\ WF_vars(Expire) /\ WF_vars(MoveStep) /\ WF_vars(Pass)
  /\ \A n \in Names : /\ WF_vars(Unhush(n)) /\ SF_vars(Fire(n)) /\ WF_vars(Upload(n)) /\ WF_vars(Placed(n))
                      /\ WF_vars(FireDelete(n)) /\ WF_vars(Erase(n))
LiveSpec == Spec /\ Fairness

-----------------------------------------------------------------------------
(* Properties *)

\* A version nobody has built upon or removed is on the server, on disk or set aside.  Excused,
\* and destroyed by the code, are the server's versions that a MOVE overwrites (Overwrite: T), that
\* are newer than the baseline when a deletion is sent, or that an upload overwrites at a name a MOVE
\* was to vacate, under way or given up; and the one whose baseline a MOVE carried onto other bytes.
NothingLost ==
  seen.heads \subseteq {server[n].ver : n \in Names} \cup parked \cup seen.excused
                       \cup {local[n].data : n \in {x \in Names : Is(x, {"plain", "full"})}}

\* Once all is calm both sides hold the same under the same names; and if only the user did
\* anything, it is what the user made of the folder.  Left out is whatever follows one of the
\* gaps: a MOVE given up, a DELETE refused, a deletion not heard of, and the others of seen.gaps.
Agree(n) == IF server[n].ver = 0 THEN ~Exists(n)
            ELSE Placeholder(n) /\ ~Foreign(n) /\ local[n].sync /\ ~local[n].mod /\ local[n].data = server[n].ver
Wished(n) == seen.alone => server[n].ver = seen.mine[n]
Settles  == <>[](seen.gaps # {} \/ \A n \in Names : Agree(n) /\ Wished(n))
=============================================================================
