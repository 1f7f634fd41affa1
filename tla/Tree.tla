-------------------------------- MODULE Tree --------------------------------
(***************************************************************************)
(* A folder's tree and the full pass over it.  A directory's ETag changes  *)
(* with anything beneath it, so the scan (internal/engine/discovery.go)    *)
(* takes a directory whose ETag is its row's over from the baseline, and   *)
(* one the checkpoint of a scan that came to nothing still describes from  *)
(* there (internal/agent/checkpoint.go).  The plan (diff.go) passes        *)
(* the guards (detach.go, damageguard.go, agent.go) and is carried out,    *)
(* folders first, deletions last (internal/transfer/executor.go); then     *)
(* maintainDirBaselines stamps the directories that are settled.  People   *)
(* save and remove on both sides meanwhile, shares are taken back, the     *)
(* local folder goes away and returns, actions fail, the pass is           *)
(* cancelled, the program ends.                                            *)
(*                                                                         *)
(* A content is the number of the write that made it, 0 is nothing; a      *)
(* folder that is there is 1.  A row's ETag is fresh while it is the       *)
(* server's, stale from then on, for an ETag does not come back.           *)
(***************************************************************************)
EXTENDS Integers, FiniteSets

CONSTANTS
  Folders, Files, Root,
  Parent,      \* of each folder and file: a folder or Root
  Above,       \* the folders above each
  Cases,       \* what may go on together, see Case
  ActsMax,     \* bound on what people do
  Floor, Pct,  \* the guards' thresholds: rows, and their share
  HasBin       \* what is removed here is kept in a bin

Nodes   == Folders \cup Files
Trouble == {"save", "remove", "theirs", "theirRemove", "unshare", "resolve",
            "fail", "cut", "crash", "away"}

\* What happens, how often at most, the folders shared by someone else; whether
\* both sides start in step, or a first sync found nothing and others put it there since.
Case == [what: SUBSET Trouble, max: 0 .. ActsMax, shared: SUBSET Folders, full: BOOLEAN]

ASSUME TreeAssumption ==
  /\ Folders \cap Files = {} /\ Root \notin Nodes
  /\ Parent \in [Nodes -> Folders \cup {Root}]
  /\ Above \in [Nodes -> SUBSET Folders]
  /\ \A n \in Nodes :
       /\ n \notin Above[n]
       /\ Above[n] = IF Parent[n] = Root THEN {} ELSE {Parent[n]} \cup Above[Parent[n]]
  /\ IsFiniteSet(Nodes) /\ Cases \subseteq Case
  /\ ActsMax \in Nat /\ Floor \in Nat /\ Pct \in 0 .. 100 /\ HasBin \in BOOLEAN

VARIABLES
  server, disk,   \* what is under each name
  bin,            \* the contents the bin keeps
  row,            \* the file's row: the content both sides had
  dirs,           \* the directory's row: none, or its ETag against the server's
  mounts,         \* directories whose row says share or mount root
  shared,         \* shares, on the server
  parked,         \* detached shares waiting for the user's choice
  saved,          \* the checkpoint: directories' listings, under their ETags
  guard,          \* frozen, or exempt from the guard once
  refused,        \* the last pass would have removed too much from the server
  away,           \* the local folder is not there (not mounted)
  pass,           \* the pass
  can, calm, acts, written,
  dead,           \* history: contents replaced or removed by whoever saw them
  late,           \* history: contents written since the pass began
  asked,          \* history: folders the user removed, not back when a pass looked
  orphans,        \* history: contents whose share was taken back, no pass under way
  hid,            \* history: folders recorded, or above them, with something beneath not looked at
  granted         \* history: the user's approval no pass has used

files == << server, disk, bin >>
rows  == << row, dirs, mounts >>
world == << shared, parked, away >>
guards == << guard, refused, granted >>
fixed == << can, calm, acts, written >>
seen  == << dead, late, asked, orphans, hid >>
vars  == << server, disk, bin, row, dirs, mounts, shared, parked, saved, guard, refused, away,
            pass, can, calm, acts, written, dead, late, asked, orphans, hid, granted >>

Whole(n)    == {n} \cup {m \in Nodes : n \in Above[m]}
Under(f, n) == f = Root \/ f \in Above[n]
Writes      == 0 .. Cardinality(Files) + ActsMax
Contents(t, N) == {t[n] : n \in N \cap Files} \ {0}
Parked      == UNION {Whole(p) : p \in parked}

Kinds == {"none", "mkLocal", "mkRemote", "upload", "download", "conflict",
          "deleteLocal", "deleteRemote"}
NoPlan    == [n \in Nodes |-> "none"]
NoListing == [n \in Nodes |-> 0]
None      == [kids |-> NoListing, now |-> {}]
Idle == [at |-> "idle", queue |-> {}, remote |-> NoListing, same |-> {}, now |-> {}, mount |-> {},
         plan |-> NoPlan, problems |-> {}, cut |-> FALSE, made |-> {}, granted |-> FALSE,
         known |-> {}, hurt |-> {}]

TypeOK ==
  /\ \A f \in Folders : server[f] \in 0 .. 1 /\ disk[f] \in 0 .. 1
  /\ \A f \in Files : server[f] \in Writes /\ disk[f] \in Writes
  /\ bin \subseteq Writes /\ row \in [Files -> Writes]
  /\ dirs \in [Folders -> {"none", "stale", "fresh"}]
  /\ mounts \subseteq {f \in Folders : dirs[f] # "none"}
  /\ shared \subseteq Folders /\ parked \subseteq Folders
  /\ \A f \in Folders : saved[f].now \subseteq Folders
  /\ guard \in {"none", "frozen", "exempt"}
  /\ refused \in BOOLEAN /\ away \in BOOLEAN /\ granted \in BOOLEAN
  /\ pass.at \in {"idle", "scan", "act"} /\ pass.queue \subseteq Folders \cup {Root}
  /\ pass.plan \in [Nodes -> Kinds]
  /\ pass.same \cup pass.now \cup pass.mount \cup pass.made \subseteq Folders
  /\ pass.problems \cup pass.hurt \subseteq Nodes
  /\ can \in Cases /\ calm \in BOOLEAN /\ acts \in 0 .. ActsMax /\ written \in Writes
  /\ dead \cup late \cup orphans \subseteq Writes /\ asked \cup hid \subseteq Folders

\* Every file's first content is a write of its own.
First == CHOOSE t \in [Files -> 1 .. Cardinality(Files)] : \A f, g \in Files : t[f] = t[g] => f = g
Init ==
  /\ can \in Cases
  /\ server = [n \in Nodes |-> IF n \in Files THEN First[n] ELSE 1]
  /\ disk = (IF can.full THEN server ELSE NoListing)
  /\ row  = [f \in Files |-> disk[f]]
  /\ bin = {} /\ saved = [f \in Folders |-> None]
  /\ dirs = [f \in Folders |-> IF can.full THEN "fresh" ELSE "none"]
  /\ shared = can.shared /\ mounts = (IF can.full THEN shared ELSE {}) /\ parked = {}
  /\ guard = "none" /\ refused = FALSE /\ away = FALSE /\ pass = Idle
  /\ calm = FALSE /\ acts = 0 /\ written = Cardinality(Files)
  /\ dead = {} /\ late = {} /\ asked = {} /\ orphans = {} /\ hid = {} /\ granted = FALSE

May(x)  == x \in can.what /\ ~calm
Act(x)  == May(x) /\ acts < can.max /\ acts' = acts + 1
Running == pass.at # "idle"

\* The server's ETags of folders T are others from now on.
Stale(T)   == [f \in Folders |-> IF f \in T /\ dirs[f] = "fresh" THEN "stale" ELSE dirs[f]]
SavedByPath(T) == saved   \* mutant: a listing is found under any ETag
Passed(T)  == [f \in Folders |-> IF saved[f] = None THEN None ELSE [saved[f] EXCEPT !.now = @ \ T]]
Kept(l)    == [f \in Folders |-> IF f \in l[f].now THEN l[f] ELSE None]
Bump(T)    == dirs' = Stale(T) /\ saved' = Kept(Passed(T)) /\ pass' = [pass EXCEPT !.now = @ \ T]

-----------------------------------------------------------------------------
(* People *)

\* A program writes file f here, in a folder that is made if it is not there.
Save(f) ==
  /\ Act("save") /\ ~away /\ written' = written + 1
  /\ disk' = [n \in Nodes |-> IF n = f THEN written' ELSE IF n \in Above[f] THEN 1 ELSE disk[n]]
  /\ dead' = dead \cup (IF disk[f] = 0 THEN {} ELSE {disk[f]})
  /\ late' = (IF Running THEN late \cup {written'} ELSE late)
  /\ UNCHANGED << server, bin, rows, world, saved, guards, pass, can, calm, asked, orphans, hid >>

Remove(n) ==
  /\ Act("remove") /\ ~away /\ disk[n] # 0
  /\ disk' = [m \in Nodes |-> IF m \in Whole(n) THEN 0 ELSE disk[m]]
  /\ dead' = dead \cup Contents(disk, Whole(n))
  /\ asked' = asked \cup (Whole(n) \cap Folders)
  /\ UNCHANGED << server, bin, rows, world, saved, guards, pass, can, calm, written, late, orphans, hid >>

\* Another client does, and sees what it replaces, and what was under the name before; a
\* folder that comes back is nobody's share, and nothing is known of who it belonged to.
TheirSave(f) ==
  /\ Act("theirs") /\ written' = written + 1
  /\ server' = [n \in Nodes |-> IF n = f THEN written' ELSE IF n \in Above[f] THEN 1 ELSE server[n]]
  /\ dead' = dead \cup ((IF server[f] = 0 THEN {row[f], pass.remote[f]} ELSE {server[f]}) \ {0})
                  \cup (IF \E g \in Above[f] : server[g] = 0 THEN orphans ELSE {})
  /\ late' = (IF Running THEN late \cup {written'} ELSE late)
  /\ Bump(Above[f])
  /\ UNCHANGED << disk, bin, row, mounts, world, guards, can, calm, asked, orphans, hid >>

TheirRemove(n) ==
  /\ Act("theirRemove") /\ server[n] # 0
  /\ server' = [m \in Nodes |-> IF m \in Whole(n) THEN 0 ELSE server[m]]
  /\ dead' = dead \cup Contents(server, Whole(n)) \cup (orphans \cap Contents(disk, Whole(n)))
  /\ shared' = shared \ Whole(n)
  /\ Bump(Above[n] \cup (Whole(n) \cap Folders))
  /\ UNCHANGED << disk, bin, row, mounts, parked, away, guards, can, calm, written, late, asked,
                  orphans, hid >>

\* A share is taken back: it vanishes, and nothing of it was removed.  Before a pass has
\* recorded the share as one, it looks like a folder that was removed.
Unshare(d) ==
  /\ Act("unshare") /\ d \in shared
  /\ server' = [m \in Nodes |-> IF m \in Whole(d) THEN 0 ELSE server[m]]
  /\ shared' = shared \ {d}
  /\ orphans' = (IF Running \/ d \notin mounts THEN orphans
                ELSE orphans \cup Contents(disk, {m \in Whole(d) : server[m] # 0}))
  /\ dead' = dead \cup (Contents(server, Whole(d)) \ Contents(disk, Nodes))
                  \cup (IF d \in mounts THEN {} ELSE orphans \cap Contents(disk, Whole(d)))
  /\ Bump(Above[d] \cup (Whole(d) \cap Folders))
  /\ UNCHANGED << disk, bin, row, mounts, parked, away, guards, can, calm, written, late, asked, hid >>

\* ResolveDetached: the copy becomes the user's own, or leaves the folder.  Of a share that was
\* given again meanwhile, listings left out what is in it, and the folders above are recorded.
Resolve(d) ==
  /\ d \in parked /\ parked' = parked \ {d}
  /\ \/ UNCHANGED << disk, dead >>
     \/ /\ disk' = [m \in Nodes |-> IF m \in Whole(d) THEN 0 ELSE disk[m]]
        /\ dead' = dead \cup Contents(disk, Whole(d))
  /\ hid' = (IF server[d] = 1 THEN hid \cup {d} ELSE hid)
  /\ UNCHANGED << server, bin, rows, shared, away, saved, guards, pass, fixed, late, asked, orphans >>

\* clearFreeze: the user has looked, and resumes the folder.
Approve ==
  /\ guard = "frozen" /\ guard' = "exempt" /\ granted' = TRUE
  /\ UNCHANGED << files, rows, world, saved, refused, pass, fixed, seen >>

\* The local folder is unmounted; a pass finds it empty.
Leaves  == Act("away") /\ ~away /\ pass.at # "act" /\ away' = TRUE
           /\ UNCHANGED << files, rows, shared, parked, saved, guards, pass, can, calm, written, seen >>
Returns == away /\ pass.at # "act" /\ away' = FALSE
           /\ UNCHANGED << files, rows, shared, parked, saved, guards, pass, fixed, seen >>

-----------------------------------------------------------------------------
(* The scan *)

\* A pass of a frozen folder is refused at once (ensurePair).
PassBegins ==
  /\ pass.at = "idle" /\ guard # "frozen"
  /\ pass' = [Idle EXCEPT !.at = "scan", !.queue = {Root}] /\ late' = {}
  /\ UNCHANGED << files, rows, world, saved, guards, fixed, dead, asked, orphans, hid >>

\* A listing on a share or mount is not checkpointed: its ETags are less reliable.
Cacheable(f) == f # Root /\ (Above[f] \cup {f}) \cap shared = {}

\* What the listing of f tells without another: of the directories whose ETag is their
\* row's, what has a row, and so has each folder on the way (addBaselineSubtree); or of those
\* whose ETag is the one their children are saved under.
Matches(g)    == dirs[g] = "fresh"
Saved(g)      == g \in saved[g].now
Replayed      == {g \in Folders : ~Matches(g) /\ Cacheable(g) /\ Saved(g)}
Between(f, n) == {k \in Above[n] : Under(f, k)}
Pruned(f, n)  == \E k \in Between(f, n) : Matches(k)
Known(n)      == IF n \in Folders THEN (IF dirs[n] = "none" THEN 0 ELSE 1) ELSE row[n]
Told(f, n) ==
  IF Parent[n] = f THEN server[n]
  ELSE IF Pruned(f, n) THEN Known(n)
  ELSE saved[Parent[n]].kids[n]
IsTold(f, n) ==
  /\ Under(f, n) /\ n \notin Parked
  /\ \A k \in Between(f, n) : IF Pruned(f, k) THEN dirs[k] # "none" ELSE Matches(k) \/ k \in Replayed
  /\ Told(f, n) # 0
Listing(f) == [n \in Nodes |-> IF IsTold(f, n) THEN Told(f, n) ELSE 0]
Children(f) == [n \in Nodes |-> IF Parent[n] = f THEN server[n] ELSE 0]

\* Saved under the ETag the parent's listing gave, which may have been overtaken.
Saves(f) == IF f # Root /\ Cacheable(f) /\ f \in pass.now
            THEN [saved EXCEPT ![f] = [kids |-> Children(f),
                                       now |-> {f} \cup {g \in Folders : Parent[g] = f /\ server[g] = 1}]]
            ELSE saved
List(f) ==
  LET L == Listing(f)
      D == {g \in Folders : L[g] = 1}
  IN /\ pass.at = "scan" /\ f \in pass.queue
     /\ f # Root => server[f] = 1
     /\ pass' = [pass EXCEPT
          !.queue  = (@ \ {f}) \cup {g \in D : ~Matches(g) /\ ~Pruned(f, g) /\ g \notin Replayed},
          !.remote = [n \in Nodes |-> IF L[n] # 0 THEN L[n] ELSE @[n]],
          !.same   = @ \cup {g \in D : Matches(g) \/ Pruned(f, g)},
          !.now    = @ \cup {g \in D : Matches(g) \/ ~Pruned(f, g)},
          !.mount  = @ \cup {g \in D : IF Pruned(f, g) THEN g \in mounts ELSE g \in shared}]
     /\ saved' = Saves(f)
     /\ UNCHANGED << files, rows, world, guards, fixed, seen >>

\* The folder to be listed is gone, or the request fails: so does the pass.
ScanFails ==
  /\ pass.at = "scan" /\ (May("fail") \/ \E f \in pass.queue \ {Root} : server[f] = 0)
  /\ pass' = Idle
  /\ UNCHANGED << files, rows, world, saved, guards, fixed, seen >>

-----------------------------------------------------------------------------
(* The plan and its guards *)

HasR(n) == pass.remote[n] # 0
Here(n) == IF away \/ n \in Parked THEN 0 ELSE disk[n]
HasL(n) == Here(n) # 0
HasB(n) == Known(n) # 0
RemoteChanged(n) == ~HasB(n) \/ pass.remote[n] # row[n]
LocalChanged(n)  == ~HasB(n) \/ Here(n) # row[n]

\* classify, of a file and of a folder
OfFile(n) ==
  CASE HasR(n) /\ HasL(n) ->
         CASE RemoteChanged(n) /\ LocalChanged(n) -> "conflict"
           [] RemoteChanged(n) /\ ~LocalChanged(n) -> "download"
           [] ~RemoteChanged(n) /\ LocalChanged(n) -> "upload"
           [] OTHER -> "none"
    [] HasR(n) /\ ~HasL(n) ->
         IF ~HasB(n) THEN "download" ELSE IF RemoteChanged(n) THEN "conflict" ELSE "deleteRemote"
    [] ~HasR(n) /\ HasL(n) ->
         IF ~HasB(n) THEN "upload" ELSE IF LocalChanged(n) THEN "conflict" ELSE "deleteLocal"
    [] OTHER -> "none"
OfFolder(n) ==
  CASE HasR(n) /\ ~HasL(n) -> IF HasB(n) THEN "deleteRemote" ELSE "mkLocal"
    [] ~HasR(n) /\ HasL(n) -> IF HasB(n) THEN "deleteLocal" ELSE "mkRemote"
    [] OTHER -> "none"
Diff == [n \in Nodes |-> IF n \in Folders THEN OfFolder(n) ELSE OfFile(n)]

\* KeepDetached: a mount root that vanished, and not with a folder above it.
NoneDetached(p) == {}   \* mutant
Detached(p) == {d \in mounts : p[d] = "deleteLocal" /\ \A k \in Above[d] : p[k] # "deleteLocal"}
Spared(p)   == UNION {Whole(d) : d \in Detached(p)}
Remaining(p) == [n \in Nodes |-> IF n \in Spared(p) THEN "none" ELSE p[n]]

\* Rows on neither side (DeadBaselinePaths), and a detached share's, are dropped.
Dead    == {n \in Nodes : ~HasR(n) /\ ~HasL(n)}
Rows(N) == {n \in Nodes \ N : HasB(n)}
DropFlagsStay(N) == \* mutant: the flag of a row outlives it
  /\ row' = [f \in Files |-> IF f \in N THEN 0 ELSE row[f]]
  /\ dirs' = [f \in Folders |-> IF f \in N THEN "none" ELSE dirs[f]]
  /\ mounts' = mounts
Drop(N) == /\ row' = [f \in Files |-> IF f \in N THEN 0 ELSE row[f]]
           /\ dirs' = [f \in Folders |-> IF f \in N THEN "none" ELSE dirs[f]]
           /\ mounts' = mounts \ N

\* deletionWeight: what is deleted, and every row beneath it, once.
ActionsOnly(p, k, R) == Cardinality({n \in Folders : p[n] = k /\ n \in R})   \* mutant
Weight(p, k, R) ==
  LET top == {n \in Nodes : p[n] = k /\ \A m \in Above[n] : p[m] # k}
  IN Cardinality(top \cup {n \in R : Above[n] \cap top # {}})
Overwrites(p) == Cardinality({n \in Nodes : p[n] = "download" /\ HasB(n)})
TooMany(c, known) == known > 0 /\ c >= Floor /\ c * 100 >= known * Pct
GuardApplies == guard # "exempt"
ScanTrips(known) ==
  LET told == Cardinality({n \in Nodes : HasR(n)})
  IN known > 0 /\ (told = 0 \/ told * 100 < known * (100 - Pct))
Trips(p, R) ==
  /\ GuardApplies
  /\ \/ ScanTrips(Cardinality(R))
     \/ TooMany(Weight(p, "deleteLocal", R) + Overwrites(p), Cardinality(R))

\* The local folder is empty, or too much would go from the server.
NeverVanished == FALSE   \* mutant
Vanished == away \/ \A n \in Nodes : disk[n] = 0
Refuses(p, R) ==
  LET c == Weight(p, "deleteRemote", R)
  IN c > 0 /\ (Vanished \/ TooMany(c, Cardinality(R)))

\* maintainDirBaselines: what was listed anew and is settled gets the listing's ETag;
\* rows above a problem lose theirs.  It is told of no listing when the pass was cut.
Dirty(P) == UNION {Above[n] : n \in P}
ListedAll(P) == {f \in Folders : pass.remote[f] = 1} \ (pass.same \cup P)   \* mutant
Listed(P) == {f \in Folders : pass.remote[f] = 1} \ (pass.same \cup Dirty(P) \cup P)
StampOnly(P, S) == \* mutant: rows above a problem keep their ETag
  /\ dirs' = [f \in Folders |-> IF f \in S THEN (IF f \in pass.now THEN "fresh" ELSE "stale") ELSE dirs[f]]
  /\ mounts' = (mounts \ S) \cup (pass.mount \cap S)
Stamp(P, S) ==
  /\ dirs' = [f \in Folders |->
       CASE f \in S -> IF f \in pass.now THEN "fresh" ELSE "stale"
         [] f \in Dirty(P) /\ dirs[f] # "none" -> "stale"
         [] OTHER -> dirs[f]]
  /\ mounts' = (mounts \ (S \cup {f \in Dirty(P) : pass.remote[f] = 1}))
               \cup (pass.mount \cap (S \cup {f \in Dirty(P) : dirs[f] # "none"}))
Clear(P) == IF P = {} THEN [f \in Folders |-> None] ELSE saved

\* computePlan's local scan and diff, and applyPlan up to the executor.  While the folder is
\* not mounted, a pass that would remove nothing from the server is left out: what it writes
\* is under the empty mount point, no part of the folder.
Gone  == {f \in asked : disk[f] = 0}
SpendNothing == guard   \* mutant
Spend == IF guard = "exempt" THEN "none" ELSE guard
Plan ==
  LET p == Remaining(Diff)
      gone == Dead \cup Spared(Diff)
      R == Rows(gone)
      some == \E n \in Nodes : p[n] # "none"
  IN /\ pass.at = "scan" /\ pass.queue = {} /\ some
     /\ Drop(gone)
     /\ parked' = parked \cup Detached(Diff)
     /\ \/ /\ Trips(p, R) /\ guard' = "frozen" /\ pass' = Idle
           /\ UNCHANGED << refused, granted >>
        \/ /\ ~Trips(p, R) /\ (away => Weight(p, "deleteRemote", R) > 0) /\ guard' = Spend /\ granted' = FALSE
           /\ refused' = Refuses(p, R)
           /\ pass' = IF Refuses(p, R) THEN Idle
                      ELSE [pass EXCEPT !.at = "act", !.plan = p, !.known = R,
                                        !.granted = granted]
     /\ asked' = Gone
     /\ UNCHANGED << files, shared, away, saved, fixed, dead, late, orphans, hid >>

\* Nothing to do: the folders listed anew are stamped all the same.
Quiet ==
  LET gone == Dead \cup Spared(Diff)
      left == [f \in Folders |-> IF f \in gone THEN "none" ELSE dirs[f]]
  IN /\ pass.at = "scan" /\ pass.queue = {} /\ \A n \in Nodes : Remaining(Diff)[n] = "none"
     /\ parked' = parked \cup Detached(Diff)
     /\ row' = [f \in Files |-> IF f \in gone THEN 0 ELSE row[f]]
     /\ dirs' = [f \in Folders |-> IF f \in Listed({}) THEN (IF f \in pass.now THEN "fresh" ELSE "stale")
                                   ELSE left[f]]
     /\ mounts' = ((mounts \ gone) \ Listed({})) \cup (pass.mount \cap Listed({}))
     /\ saved' = Clear({}) /\ pass' = Idle /\ refused' = FALSE
     /\ asked' = Gone
     /\ UNCHANGED << files, shared, away, guard, granted, fixed, dead, late, orphans, hid >>

-----------------------------------------------------------------------------
(* The executor *)

Phase == [none |-> 9, mkLocal |-> 1, mkRemote |-> 2, download |-> 3, upload |-> 3,
          conflict |-> 4, deleteLocal |-> 5, deleteRemote |-> 5]
\* Phase by phase; folders before what is in them, deletions after.
Ready(n) ==
  /\ pass.at = "act" /\ pass.plan[n] # "none"
  /\ \A m \in Nodes : Phase[pass.plan[n]] <= Phase[pass.plan[m]]
  /\ pass.plan[n] \in {"mkLocal", "mkRemote"} => \A k \in Above[n] : pass.plan[k] # pass.plan[n]
  /\ pass.plan[n] \in {"deleteLocal", "deleteRemote"} =>
       \A m \in Whole(n) \ {n} : pass.plan[m] \notin {"deleteLocal", "deleteRemote"}
Did(n)  == [pass EXCEPT !.plan[n] = "none"]
Hurt(n, N) == [Did(n) EXCEPT !.hurt = @ \cup {m \in N \cap pass.known : HasB(m)}]

\* Of a conflict: both have the same; or the local file is the later one, or all there is.
Identical(n) == HasR(n) /\ disk[n] = pass.remote[n]
Later(n)     == HasR(n) => disk[n] > server[n]

\* An action fails: the network, or what it needs is not there.
ParentThere(n) == Parent[n] = Root \/ server[Parent[n]] = 1
Remotely(n) == pass.plan[n] \notin {"mkLocal", "deleteLocal"}
Impossible(n) ==
  \/ pass.plan[n] \in {"mkRemote", "upload"} /\ ~ParentThere(n)
  \/ pass.plan[n] = "upload" /\ disk[n] = 0
  \/ pass.plan[n] = "download" /\ server[n] = 0
  \/ /\ pass.plan[n] = "conflict" /\ (HasR(n) \/ disk[n] # 0) /\ ~Identical(n)
     /\ IF Later(n) THEN ~ParentThere(n) ELSE server[n] = 0
Fails(n) ==
  /\ Ready(n) /\ (May("fail") \/ Impossible(n) \/ (pass.cut /\ Remotely(n)))
  /\ pass' = [Did(n) EXCEPT !.problems = @ \cup {n}]
  /\ UNCHANGED << files, rows, world, saved, guards, fixed, seen >>

Makes(n, k) == Ready(n) /\ pass.plan[n] = k /\ ~(pass.cut /\ Remotely(n)) /\ ~Impossible(n)

\* makeLocalDir: the row gets the listing's ETag before anything in it is fetched.
MkLocal(f) ==
  /\ Makes(f, "mkLocal")
  /\ disk' = [n \in Nodes |-> IF n = f \/ n \in Above[f] THEN 1 ELSE disk[n]]
  /\ dirs' = [dirs EXCEPT ![f] = IF f \in pass.now THEN "fresh" ELSE "stale"]
  /\ mounts' = (mounts \ {f}) \cup ({f} \cap pass.mount)
  /\ pass' = [Did(f) EXCEPT !.made = @ \cup {f}]
  /\ UNCHANGED << server, bin, row, world, saved, guards, fixed, seen >>

\* makeRemoteDir: one that is there by now is taken for the own, and rows there may be beneath
\* are older than the ETag that is recorded.
MkRemote(f) ==
  /\ Makes(f, "mkRemote")
  /\ server' = [server EXCEPT ![f] = 1]
  /\ LET T == IF server[f] = 0 THEN Above[f] ELSE {}
     IN /\ dirs' = [Stale(T) EXCEPT ![f] = "fresh"]
        /\ saved' = Kept(Passed(T))
        /\ pass' = [Did(f) EXCEPT !.now = @ \ T,
                     !.made = @ \cup {g \in {f} : \E n \in Whole(f) \ {f} : Known(n) # 0}]
  /\ hid' = (IF server[f] = 1 THEN hid \cup {f} ELSE hid)
  /\ mounts' = mounts \ {f}
  /\ UNCHANGED << disk, bin, row, world, guards, fixed, dead, late, asked, orphans >>

\* An upload replaces what is there by then; so does a download.
Uploads(n, over) ==
  /\ server' = [server EXCEPT ![n] = disk[n]]
  /\ row' = [row EXCEPT ![n] = disk[n]]
  /\ dead' = dead \cup (over \ {0})
  /\ dirs' = Stale(Above[n]) /\ saved' = Kept(Passed(Above[n]))
  /\ pass' = [Did(n) EXCEPT !.now = @ \ Above[n]]
  /\ UNCHANGED << disk, bin, mounts >>
Downloads(n, over) ==
  /\ disk' = [m \in Nodes |-> IF m = n THEN server[n] ELSE IF m \in Above[n] THEN 1 ELSE disk[m]]
  /\ row' = [row EXCEPT ![n] = server[n]]
  /\ dead' = dead \cup (over \ {0})
  /\ pass' = IF pass.plan[n] = "download" THEN Hurt(n, {n}) ELSE Did(n)
  /\ UNCHANGED << server, bin, dirs, mounts, saved >>
Hidden(n) == Above[n] \cap hid # {}
Keeps == UNCHANGED << world, guards, fixed, late, asked, orphans, hid >>
Upload(n) ==
  /\ Makes(n, "upload") /\ Uploads(n, IF Hidden(n) THEN {server[n]} ELSE {server[n]} \cap late)
  /\ Keeps
Download(n) == Makes(n, "download") /\ Downloads(n, {disk[n]} \cap late) /\ Keeps

\* A conflict (PolicyNewest): one side removed it, the other's edit is kept; the same
\* content is no conflict; of two edits the later stays.
Absorb(n) ==
  /\ Ready(n) /\ pass.plan[n] = "conflict"
  /\ Identical(n) \/ (~HasR(n) /\ disk[n] = 0)
  /\ row' = [row EXCEPT ![n] = disk[n]]
  /\ pass' = Did(n)
  /\ UNCHANGED << files, dirs, mounts, saved, dead >> /\ Keeps
Settle(n) ==
  /\ Makes(n, "conflict") /\ (HasR(n) \/ disk[n] # 0) /\ ~Identical(n)
  /\ IF Later(n) THEN Uploads(n, {server[n]}) ELSE Downloads(n, {disk[n]})
  /\ Keeps

\* applyDelete: the tree as it is by then, and the rows of all of it.
DeleteLocal(n) ==
  /\ Makes(n, "deleteLocal")
  /\ disk' = [m \in Nodes |-> IF m \in Whole(n) THEN 0 ELSE disk[m]]
  /\ bin' = (IF HasBin THEN bin \cup Contents(disk, Whole(n)) ELSE bin)
  /\ Drop(Whole(n))
  /\ pass' = Hurt(n, Whole(n))
  /\ UNCHANGED << server, saved, dead >> /\ Keeps

DeleteRemote(n) ==
  LET T == Above[n] \cup (Whole(n) \cap Folders) IN
  /\ Makes(n, "deleteRemote")
  /\ server' = [m \in Nodes |-> IF m \in Whole(n) THEN 0 ELSE server[m]]
  /\ row' = [f \in Files |-> IF f \in Whole(n) THEN 0 ELSE row[f]]
  /\ dirs' = [f \in Folders |-> IF f \in Whole(n) THEN "none" ELSE Stale(T)[f]]
  /\ mounts' = mounts \ Whole(n) /\ shared' = shared \ Whole(n)
  /\ saved' = Kept(Passed(T))
  /\ pass' = [Did(n) EXCEPT !.now = @ \ T]
  /\ dead' = dead \cup (IF n \in asked \/ Hidden(n) THEN Contents(server, Whole(n))
                        ELSE Contents(server, Whole(n)) \cap late)
  /\ UNCHANGED << disk, bin, parked, away, guards, fixed, late, asked, orphans, hid >>

\* The pass is cancelled: transfers are not started, and in no list of problems.
Cut ==
  /\ May("cut") /\ pass.at = "act" /\ ~pass.cut
  /\ pass' = [pass EXCEPT !.cut = TRUE,
       !.plan = [n \in Nodes |-> IF @[n] \in {"upload", "download"} THEN "none" ELSE @[n]]]
  /\ hid' = hid \cup pass.made
  /\ UNCHANGED << files, rows, world, saved, guards, fixed, dead, late, asked, orphans >>

Ends ==
  /\ pass.at = "act" /\ \A n \in Nodes : pass.plan[n] = "none"
  /\ Stamp(pass.problems, IF pass.cut THEN {} ELSE Listed(pass.problems))
  /\ saved' = (IF pass.cut THEN saved ELSE Clear(pass.problems))
  /\ hid' = (IF pass.cut THEN hid \cup pass.made ELSE hid)
  /\ pass' = Idle
  /\ UNCHANGED << files, row, world, guards, fixed, dead, late, asked, orphans >>

\* The program ends in the middle of a pass.
Crash ==
  /\ May("crash") /\ Running /\ pass' = Idle /\ hid' = hid \cup pass.made
  /\ UNCHANGED << files, rows, world, saved, guards, fixed, dead, late, asked, orphans >>

-----------------------------------------------------------------------------

People == \/ \E f \in Files : Save(f) \/ TheirSave(f)
          \/ \E n \in Nodes : Remove(n) \/ TheirRemove(n)
          \/ \E d \in Folders : Unshare(d) \/ (May("resolve") /\ Resolve(d))
          \/ Leaves
Steps  == \/ PassBegins \/ (\E f \in Folders \cup {Root} : List(f)) \/ ScanFails \/ Plan \/ Quiet
          \/ \E n \in Nodes :
               \/ Fails(n) \/ Upload(n) \/ Download(n) \/ Absorb(n) \/ Settle(n)
               \/ DeleteLocal(n) \/ DeleteRemote(n)
          \/ \E f \in Folders : MkLocal(f) \/ MkRemote(f)
          \/ Ends
Next   == People \/ Steps \/ Cut \/ Crash \/ Approve \/ Returns

\* From some time on nobody does anything and nothing fails.
Calms  == ~calm /\ calm' = TRUE
          /\ UNCHANGED << files, rows, world, saved, guards, pass, can, acts, written, seen >>

Spec     == Init /\ [][Next]_vars
LiveSpec == Init /\ [][Next \/ Calms]_vars /\ WF_vars(Steps) /\ WF_vars(Approve) /\ WF_vars(Returns)

-----------------------------------------------------------------------------
(* Properties *)

\* What a scan would take over from a row or the checkpoint is what the server has: a row
\* that is fresh hides nothing, but where it, or one on the way to what is beneath, was
\* recorded before that was looked at.
TakenOverIsTrue ==
  \A f \in Folders :
    /\ dirs[f] = "fresh" /\ f \notin hid \cup pass.made =>
         \A n \in Whole(f) \ ({f} \cup Parked) :
           Known(n) = server[n] \/ (\E g \in {n} \cup Above[n] : g \in hid \cup pass.made)
    /\ f \in saved[f].now => saved[f].kids = Children(f)

\* Nothing anybody wrote is lost, but to who saw it, or in the moment of a transfer; and no
\* pass is about to remove a file from the server that is still here as it was.
NothingLost ==
  /\ 1 .. written \subseteq Contents(disk, Nodes) \cup Contents(server, Nodes) \cup bin \cup dead
  /\ \A f \in Files : pass.plan[f] = "deleteRemote" => disk[f] # row[f]

\* The copy of a share that was taken back stays where it is: no pass removes or replaces it.
CopyStays == orphans \subseteq Contents(disk, Nodes) \cup dead

\* A pass removes or replaces much of what was here only with an approval of its own;
\* conflicts are settled one by one and not weighed.
MuchIsApproved == TooMany(Cardinality(pass.hurt), Cardinality(pass.known)) => pass.granted

InStep == \A n \in Nodes \ Parked : disk[n] = server[n]
\* Once people stop and nothing fails both sides have the same tree, unless a deletion
\* is refused, or a row hides what was not fetched.
Converges == calm ~> [](InStep \/ refused \/ hid # {})

=============================================================================
