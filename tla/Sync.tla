-------------------------------- MODULE Sync --------------------------------
(***************************************************************************)
(* A sync pass over the files of one folder: the three-way diff            *)
(* (internal/engine/diff.go, rename.go), the order in which the executor   *)
(* applies it (internal/transfer/executor.go), transfers (upload.go,       *)
(* download.go) and conflicts (resolve.go), while the user and other       *)
(* clients go on changing files.  Requests, renames and baseline writes    *)
(* are separate steps: anything may happen, or the program end, between.   *)
(*                                                                         *)
(* A file's content is the number of the write that made it; no two writes *)
(* are equal, and size and modified time tell them apart.  0 stands for no *)
(* file, no ETag, no checksum.  Folders are not modelled: the folder's     *)
(* files are in it directly.                                               *)
(***************************************************************************)
EXTENDS Integers, FiniteSets

CONSTANTS
  Paths,      \* names the user and the other clients give to files
  Copies,     \* conflicted-copy names
  Scopes,     \* the sets of names SyncPaths may be called for
  Policies,   \* the conflict policies the folder may have
  Sums,       \* whether the server has a checksum of a file another client wrote
  HasBin,     \* there is a Recycle Bin (or a place beside the folder)
  Omits,      \* the server may leave the ETag out of its answer to a PUT
  Happens,    \* what the world does in this instance, of Outside
  WritesMax,  \* bound on the writes of the user and the other clients
  MovesMax,   \* bound on their renames and on ETag changes without a write, by policy
  EtagMax, IdMax   \* bounds on ETags and file ids in use at a time

Names   == Paths \cup Copies
Outside == {"edit", "remove", "rename", "theirs", "theirRemove", "theirRename", "lock", "fail", "statFails"}

ASSUME SyncAssumption ==
  /\ Paths \cap Copies = {}
  /\ Scopes \subseteq SUBSET Names
  /\ Policies \subseteq {"auto", "ask", "newest"}
  /\ Sums \subseteq BOOLEAN /\ HasBin \in BOOLEAN /\ Omits \in BOOLEAN
  /\ Happens \subseteq Outside
  /\ WritesMax \in Nat /\ MovesMax \in [Policies -> Nat] /\ EtagMax \in Nat /\ IdMax \in Nat

VARIABLES
  local,       \* the folder: what each name holds
  remote,      \* the server's side of it
  base,        \* the baseline rows in state.Store
  bin,         \* contents in the Recycle Bin
  policy,      \* Executor.Policy: keep both, ask the user, keep the newest
  phase,       \* a pass: none, it lists the server or asks for names, its plan applied
  ops,         \* what it found of each name, then the action planned for it
  pending,     \* conflicts shown to the user
  written,     \* how many writes there have been
  moves,       \* how many renames and ETag changes there have been
  superseded,  \* history: contents their user or another client replaced or removed
  raced        \* history: contents a pass replaced, removed or took for synced
               \* that came after the pass had looked

disk == << local, bin >>
user == << policy, pending, written, moves, superseded >>
vars == << local, remote, base, bin, policy, phase, ops, pending, written, moves, superseded, raced >>

Contents == 0 .. WritesMax
Etags    == 0 .. EtagMax
Ids      == 0 .. IdMax
Never    == -1      \* a size no file has

File == [c: Contents, etag: Etags, id: Ids, sum: BOOLEAN]
Gone == [c |-> 0, etag |-> 0, id |-> 0, sum |-> FALSE]

\* BaselineState: l for LocalSize and LocalMTimeNanos, key for ContentKey.
BaseRow == [l: Contents \cup {Never}, etag: Etags, id: Ids, sha: Contents, key: Contents]
NoRow   == [l |-> 0, etag |-> 0, id |-> 0, sha |-> 0, key |-> 0]

Kinds == {"none", "moveLocal", "moveRemote", "download", "upload", "conflict",
          "both", "deleteLocal", "deleteRemote"}
Steps == {"none", "listed", "look", "looked", "seen", "planned", "moved", "fetched", "committed", "read", "put", "compared",
          "aside", "placed", "copied", "deleted", "asked"}

\* r and l are what the pass saw there; got is what a transfer carries, other the
\* name a move comes from, or the conflicted copy.
Op   == [kind: Kinds, step: Steps, r: File, l: Contents, got: File, other: SUBSET Names]
NoOp == [kind |-> "none", step |-> "none", r |-> Gone, l |-> 0, got |-> Gone, other |-> {}]

TypeOK ==
  /\ local \in [Names -> Contents]
  /\ remote \in [Names -> File]
  /\ base \in [Names -> BaseRow]
  /\ bin \subseteq Contents /\ policy \in Policies
  /\ phase \in {"idle", "listed", "asking", "apply"}
  /\ ops \in [Names -> Op]
  /\ pending \subseteq Names
  /\ written \in Contents /\ moves \in 0 .. MovesMax[policy]
  /\ superseded \subseteq Contents /\ raced \subseteq Contents

\* A first clone has ended: the baseline is empty, and so is the folder.
Init ==
  /\ local = [p \in Names |-> 0] /\ remote = [p \in Names |-> Gone]
  /\ base = [p \in Names |-> NoRow]
  /\ bin = {} /\ policy \in Policies /\ phase = "idle"
  /\ ops = [p \in Names |-> NoOp] /\ pending = {}
  /\ written = 0 /\ moves = 0 /\ superseded = {} /\ raced = {}

HasL(p) == local[p] # 0
HasR(p) == remote[p].c # 0
HasB(p) == base[p] # NoRow

\* An ETag and a file id nobody has: the least, so that numbers are used again.
UsedEtags == UNION {{remote[q].etag, base[q].etag, ops[q].r.etag, ops[q].got.etag} : q \in Names}
UsedIds   == UNION {{remote[q].id, base[q].id, ops[q].r.id, ops[q].got.id} : q \in Names}
Least(S)  == {n \in S : \A m \in S : n <= m}
NewEtags  == Least((1 .. EtagMax) \ UsedEtags)
NewIds    == Least((1 .. IdMax) \ UsedIds)

-----------------------------------------------------------------------------
(* The user, the other clients, the server *)

Forget(C) == superseded' = superseded \cup (C \ {0})
Race(C)   == raced' = raced \cup (C \ {0})
Written   == written < WritesMax /\ written' = written + 1 /\ UNCHANGED moves
Moved     == moves < MovesMax[policy] /\ moves' = moves + 1
           /\ UNCHANGED << policy, pending, written, superseded >>

Save(p) ==
  /\ Written /\ Forget({local[p]})
  /\ local' = [local EXCEPT ![p] = written']
  /\ UNCHANGED << remote, base, bin, policy, phase, ops, pending, raced >>
Remove(p) ==
  /\ HasL(p) /\ Forget({local[p]})
  /\ local' = [local EXCEPT ![p] = 0]
  /\ UNCHANGED << remote, base, bin, policy, phase, ops, pending, written, moves, raced >>
\* A file that comes to a name where the pass under way, or a row, has this very
\* version already reads as never moved.
KnownAt(q) == {base[q].l, base[q].key}
              \cup UNION {{ops[p].l, ops[p].r.c, ops[p].got.c} : p \in {x \in Names : q \in {x} \cup ops[x].other}}
Rename(p, q) ==
  /\ Moved /\ HasL(p) /\ ~HasL(q)
  /\ local' = [local EXCEPT ![p] = 0, ![q] = local[p]]
  /\ Race({local[p]} \cap KnownAt(q))
  /\ UNCHANGED << remote, base, bin, phase, ops >>

\* A write keeps the file's id; a new file gets a new one.
Stored(p, c, sum) ==
  {[c |-> c, etag |-> e, id |-> i, sum |-> sum] :
     e \in NewEtags, i \in IF HasR(p) THEN {remote[p].id} ELSE NewIds}
TheirSave(p) ==
  /\ Written /\ Forget({remote[p].c})
  /\ \E sum \in Sums : \E f \in Stored(p, written', sum) : remote' = [remote EXCEPT ![p] = f]
  /\ UNCHANGED << local, base, bin, policy, phase, ops, pending, raced >>
TheirRemove(p) ==
  /\ HasR(p) /\ Forget({remote[p].c})
  /\ remote' = [remote EXCEPT ![p] = Gone]
  /\ UNCHANGED << local, base, bin, policy, phase, ops, pending, written, moves, raced >>
TheirRename(p, q) ==
  /\ Moved /\ HasR(p) /\ ~HasR(q)
  /\ remote' = [remote EXCEPT ![p] = Gone, ![q] = remote[p]]
  /\ Race({remote[p].c} \cap KnownAt(q))
  /\ UNCHANGED << local, base, bin, phase, ops >>
\* files_lock, tags, comments: the ETag changes and the content does not.
Lock(p) ==
  /\ Moved /\ HasR(p)
  /\ \E e \in NewEtags : remote' = [remote EXCEPT ![p].etag = e]
  /\ UNCHANGED << local, base, bin, phase, ops, raced >>

-----------------------------------------------------------------------------
(* Diff *)

\* sameContentAsBaseline: the checksum where both sides have one, else the key.
\* l and r are what a pass found of p here and on the server.
SameContent(p, r) ==
  IF r.sum /\ base[p].sha # 0 THEN r.c = base[p].sha ELSE r.c = base[p].key
RemoteChanged(p, r) == ~HasB(p) \/ (r.etag # base[p].etag /\ ~SameContent(p, r))
LocalChanged(p, l)  == ~HasB(p) \/ l # base[p].l

BothMine(p, l, r) ==   \* mutant: ours is uploaded whatever the server has
  IF LocalChanged(p, l) THEN "upload" ELSE IF RemoteChanged(p, r) THEN "download" ELSE "none"
Both(p, l, r) ==       \* classifyBoth
  IF RemoteChanged(p, r) THEN IF LocalChanged(p, l) THEN "conflict" ELSE "download"
                         ELSE IF LocalChanged(p, l) THEN "upload" ELSE "none"
RemoteOnlyDeletes(p, r) ==   \* mutant: without the ETag check
  IF ~HasB(p) THEN "download" ELSE "deleteRemote"
RemoteOnlyIgnores(p, r) ==   \* mutant: their edit of a file removed here is left alone
  IF ~HasB(p) THEN "download" ELSE IF r.etag # base[p].etag THEN "none" ELSE "deleteRemote"
RemoteOnly(p, r) ==    \* classifyRemoteOnly
  IF ~HasB(p) THEN "download"
  ELSE IF r.etag # base[p].etag THEN "conflict" ELSE "deleteRemote"
LocalOnly(p, l) ==     \* classifyLocalOnly
  IF ~HasB(p) THEN "upload" ELSE IF LocalChanged(p, l) THEN "conflict" ELSE "deleteLocal"
Classify(p, l, r) ==
  IF r # Gone THEN IF l # 0 THEN Both(p, l, r) ELSE RemoteOnly(p, r)
              ELSE IF l # 0 THEN LocalOnly(p, l) ELSE "none"

AnyVersion(row, f) == TRUE   \* mutant: the file id alone makes a rename
\* sameRemoteVersion
SameVersion(row, f) ==
  row.etag = f.etag \/ row.key = f.c \/ (f.sum /\ row.sha = f.c)

\* The view v of a pass: the names it looks at, what it found of them here (l) and on
\* the server (r), and whether it hashes new files to find renames made here.
Planned(v, p) == Classify(p, v.l[p], v.r[p])

\* CoalesceRenames: a delete of x and a transfer to y that are one rename, by the
\* file's id (matchRemoteRename) or its checksum and size (matchLocalRename).
SameKey(v, x, y) ==
  \/ Planned(v, x) = "download" /\ Planned(v, y) = "download" /\ v.r[x].id = v.r[y].id
  \/ Planned(v, x) = "upload" /\ Planned(v, y) = "upload" /\ v.l[x] = v.l[y]
RowsFor(v, y) ==
  {x \in v.names : HasB(x) /\ IF Planned(v, y) = "download" THEN base[x].id = v.r[y].id
                              ELSE base[x].l = v.l[y] /\ base[x].sha = local[y]}
Moves(v, x, y) ==
  /\ x \in RowsFor(v, y) /\ ~HasB(y)
  /\ \/ Planned(v, x) = "deleteLocal" /\ Planned(v, y) = "download" /\ SameVersion(base[x], v.r[y])
     \/ Planned(v, x) = "deleteRemote" /\ Planned(v, y) = "upload" /\ v.hashes

\* Of several rows with one id, or one checksum and size, any may be in the index
\* (a map is walked in no order), and none of the others is found.
Pairs(v) == {m \in v.names \X v.names : Moves(v, m[1], m[2])}
Matchings(v) ==
  {M \in SUBSET Pairs(v) :
     /\ \A m, n \in M : SameKey(v, m[2], n[2]) => m = n
     /\ \A m \in Pairs(v) :
          \/ \E n \in M : SameKey(v, m[2], n[2])
          \/ \E x \in RowsFor(v, m[2]) : \A n \in Pairs(v) : SameKey(v, m[2], n[2]) => n[1] # x}

\* Its plan, with the renames M.
Plan(v, M) ==
  [p \in Names |->
     LET op == [NoOp EXCEPT !.step = "planned"]
         from == {m[1] : m \in {n \in M : n[2] = p}}
     IN  IF p \notin v.names \/ Planned(v, p) = "none" \/ \E m \in M : m[1] = p THEN NoOp
         ELSE IF from = {} THEN [op EXCEPT !.kind = Planned(v, p), !.r = v.r[p], !.l = v.l[p]]
         ELSE IF Planned(v, p) = "download"
         THEN [op EXCEPT !.kind = "moveLocal", !.r = v.r[p],
                         !.l = v.l[CHOOSE x \in from : TRUE], !.other = from]
         ELSE [op EXCEPT !.kind = "moveRemote", !.r = v.r[CHOOSE x \in from : TRUE],
                         !.l = v.l[p], !.other = from]]

\* The rows of names on neither side are pruned (pruneDeadBaselines).  A plan with
\* nothing in it ends the pass.
Decide(v) ==
  /\ base' = [p \in Names |-> IF p \in v.names /\ v.l[p] = 0 /\ v.r[p] = Gone THEN NoRow ELSE base[p]]
  /\ \E M \in Matchings(v) : ops' = Plan(v, M)
  /\ phase' = IF \E p \in Names : ops'[p] # NoOp THEN "apply" ELSE "idle"
  /\ UNCHANGED << local, remote, bin, user, raced >>

\* SyncOnce and syncRemoteDelta list the server first.
List ==
  /\ phase = "idle" /\ phase' = "listed"
  /\ ops' = [p \in Names |-> [NoOp EXCEPT !.step = "listed", !.r = remote[p]]]
  /\ UNCHANGED << disk, remote, base, user, raced >>
Listed == [p \in Names |-> ops[p].r]
\* computePlan: then look at the folder.
Look ==
  /\ phase = "listed"
  /\ Decide([names |-> Names, l |-> local, r |-> Listed, hashes |-> TRUE])
\* syncRemoteDelta: look only at what is not on the server as the rows have it.
LookDelta ==
  /\ phase = "listed"
  /\ Decide([names |-> {p \in Names : IF Listed[p] = Gone THEN HasB(p)
                                      ELSE ~HasB(p) \/ base[p].etag # Listed[p].etag},
             l |-> local, r |-> Listed, hashes |-> FALSE])

\* SyncPaths: look at each name here, then ask the server for it, checksum left out.
SyncPaths(S) ==
  /\ phase = "idle" /\ phase' = "asking"
  /\ ops' = [p \in Names |-> IF p \in S THEN [NoOp EXCEPT !.step = "look"] ELSE NoOp]
  /\ UNCHANGED << disk, remote, base, user, raced >>
LookAt(p) ==
  /\ ops[p].step = "look" /\ \A q \in Names : ops[q].step # "looked"
  /\ ops' = [ops EXCEPT ![p] = [@ EXCEPT !.step = "looked", !.l = local[p]]]
  /\ UNCHANGED << disk, remote, base, phase, user, raced >>
AskFor(p) ==
  /\ ops[p].step = "looked"
  /\ ops' = [ops EXCEPT ![p] = [@ EXCEPT !.step = "seen", !.r = [remote[p] EXCEPT !.sum = FALSE]]]
  /\ UNCHANGED << disk, remote, base, phase, user, raced >>
PlanPaths ==
  /\ phase = "asking" /\ \A p \in Names : ops[p].step \in {"none", "seen"}
  /\ Decide([names |-> {p \in Names : ops[p].step = "seen"},
             l |-> [p \in Names |-> ops[p].l], r |-> Listed, hashes |-> TRUE])

\* A request of the scan fails, and the pass with it.
ScanFails ==
  /\ phase \in {"listed", "asking"} /\ phase' = "idle"
  /\ ops' = [p \in Names |-> NoOp]
  /\ UNCHANGED << disk, remote, base, user, raced >>

-----------------------------------------------------------------------------
(* Executor.Run: moves, transfers, conflicts, deletions, in this order, and *)
(* all but the transfers one at a time                                      *)

Phase(kind) ==
  CASE kind \in {"moveLocal", "moveRemote"} -> 1
    [] kind \in {"download", "upload"}      -> 2
    [] kind \in {"conflict", "both"}         -> 3
    [] OTHER                                -> 4
Active(q) == ops[q].step \notin {"none", "asked"} /\ phase = "apply"

Starts(p, kind) ==
  /\ ops[p].kind = kind /\ ops[p].step = "planned"
  /\ \A q \in Names \ {p} : Active(q) =>
       \/ Phase(ops[q].kind) > Phase(kind)
       \/ Phase(ops[q].kind) = Phase(kind) /\ (Phase(kind) = 2 \/ ops[q].step = "planned")

At(p, step)   == ops[p].step = step
Goto(p, step) == ops' = [ops EXCEPT ![p].step = step]
Ends(p, step) == ops' = [ops EXCEPT ![p] = [NoOp EXCEPT !.kind = ops[p].kind, !.step = step]]
Done(p)       == ops' = [ops EXCEPT ![p] = NoOp]
Record(p, row) == base' = [base EXCEPT ![p] = row]
\* The server's version, where it is not the one the pass saw.
Newer(p)      == IF remote[p].etag = ops[p].r.etag THEN {} ELSE {remote[p].c}

ListedUnknown(p, etag) ==   \* mutant: a key of its own for "unknown"
  IF etag # 0 /\ etag = ops[p].r.etag /\ ops[p].kind # "moveRemote" THEN ops[p].r.c ELSE Never
\* saveFileBaseline, with listedContentKey: the listing's key, if it is of this version.
ListedKey(p, etag) ==
  IF etag # 0 /\ etag = ops[p].r.etag /\ ops[p].kind # "moveRemote" THEN ops[p].r.c ELSE 0
RowOf(p, c, etag, id) == [l |-> c, etag |-> etag, id |-> id, sha |-> c, key |-> ListedKey(p, etag)]

\* Two versions that differ and that one row takes for the same.
Joined(c, d) == IF c = d \/ 0 \in {c, d} THEN {} ELSE {c, d}
\* rebaselineFile: what is there now, on both sides, is taken for synced.  The
\* request may fail, and leaves the ETag out then.
RebaselineFile(p, mine, theirs) ==
  /\ HasL(p)
  /\ \E f \in {remote[p], Gone} : Record(p, RowOf(p, local[p], f.etag, f.id))
  /\ Race(({local[p]} \ {mine}) \cup ({remote[p].c} \ {theirs})
          \cup (IF local[p] = mine /\ remote[p].c = theirs THEN {} ELSE Joined(local[p], remote[p].c)))

(* applyMove *)
MoveHere(p) ==
  /\ Starts(p, "moveLocal")
  /\ \E x \in ops[p].other :
       /\ HasL(x) /\ ~HasL(p)      \* renameNoReplace
       /\ local' = [local EXCEPT ![x] = 0, ![p] = local[x]]
  /\ Goto(p, "moved")
  /\ UNCHANGED << remote, base, bin, phase, user, raced >>
MoveThere(p) ==   \* Overwrite: T
  /\ Starts(p, "moveRemote")
  /\ \E x \in ops[p].other :
       /\ HasR(x)
       /\ remote' = [remote EXCEPT ![x] = Gone, ![p] = remote[x]]
  /\ Race({remote[p].c})
  /\ Goto(p, "moved")
  /\ UNCHANGED << local, base, bin, phase, user >>
MoveForgets(p) ==
  /\ At(p, "moved") /\ ops[p].other # {}
  /\ base' = [q \in Names |-> IF q \in ops[p].other THEN NoRow ELSE base[q]]
  /\ ops' = [ops EXCEPT ![p].other = {}]
  /\ UNCHANGED << disk, remote, phase, user, raced >>
MoveRecords(p) ==
  /\ At(p, "moved") /\ ops[p].other = {}
  /\ RebaselineFile(p, ops[p].l, ops[p].r.c)
  /\ Done(p)
  /\ UNCHANGED << disk, remote, phase, user >>

(* applyTransfer: a download *)
Redundant(p) == ops[p].r.sum /\ local[p] = ops[p].r.c   \* redundantDownload
SkipDownload(p) ==   \* rebaselineUnchanged
  /\ Starts(p, "download") /\ Redundant(p)
  /\ Record(p, RowOf(p, local[p], ops[p].r.etag, ops[p].r.id))
  /\ Done(p)
  /\ UNCHANGED << disk, remote, phase, user, raced >>
Fetching(p, held) ==   \* GET; held is what the folder held when this was decided
  /\ HasR(p)
  /\ ops' = [ops EXCEPT ![p] = [@ EXCEPT !.got = remote[p], !.l = held, !.step = "fetched"]]
Fetch(p) ==
  /\ Starts(p, "download") /\ ~Redundant(p)
  /\ Fetching(p, ops[p].l)
  /\ UNCHANGED << disk, remote, base, phase, user, raced >>
Commit(p) ==     \* os.Rename over whatever is there
  /\ At(p, "fetched")
  /\ Race({local[p]} \ {ops[p].l, ops[p].got.c})
  /\ local' = [local EXCEPT ![p] = ops[p].got.c]
  /\ Goto(p, "committed")
  /\ UNCHANGED << remote, base, bin, phase, user >>
RecordDownload(p) ==
  /\ At(p, "committed")
  /\ Record(p, RowOf(p, ops[p].got.c, ops[p].got.etag, ops[p].got.id))
  /\ Done(p)
  /\ UNCHANGED << disk, remote, phase, user, raced >>

(* applyTransfer: an upload *)
Reading(p, held) ==   \* uploadOnce: one read, hashed and sent; held as above, the server's
  /\ HasL(p)
  /\ ops' = [ops EXCEPT ![p] = [@ EXCEPT !.got = [Gone EXCEPT !.c = local[p]], !.r = held, !.step = "read"]]
Read(p) ==
  /\ Starts(p, "upload") /\ Reading(p, ops[p].r)
  /\ UNCHANGED << disk, remote, base, phase, user, raced >>
Put(p) ==       \* over whatever is there
  /\ At(p, "read")
  /\ \E f \in Stored(p, ops[p].got.c, TRUE) :
       /\ remote' = [remote EXCEPT ![p] = f]
       /\ \E etag \in IF Omits THEN {f.etag, 0} ELSE {f.etag} :
            ops' = [ops EXCEPT ![p] = [NoOp EXCEPT !.kind = ops[p].kind, !.step = "put",
                                                   !.got = [f EXCEPT !.etag = etag]]]
  /\ Race(Newer(p) \ {ops[p].got.c})
  /\ UNCHANGED << disk, base, phase, user >>
RecordUploadNow(p) ==   \* mutant: what the file holds now, not what was sent
  /\ At(p, "put")
  /\ Record(p, RowOf(p, local[p], ops[p].got.etag, ops[p].got.id))
  /\ Done(p)
  /\ UNCHANGED << disk, remote, phase, user, raced >>
\* An ETag the answer left out is asked for.
RecordUpload(p) ==
  /\ At(p, "put")
  /\ LET etag == IF ops[p].got.etag # 0 THEN ops[p].got.etag ELSE remote[p].etag IN
       /\ Record(p, RowOf(p, ops[p].got.c, etag, ops[p].got.id))
       /\ Race(IF ops[p].got.etag # 0 THEN {} ELSE Joined(remote[p].c, ops[p].got.c))
  /\ Done(p)
  /\ UNCHANGED << disk, remote, phase, user >>

-----------------------------------------------------------------------------
(* Conflicts: resolveConflict (auto), classifyConflict (ask, newest) *)

\* Only one side still has the file: it is kept, or the user is asked.
Resurrect(p) ==
  /\ Starts(p, "conflict") /\ policy # "ask"
  /\ IF HasL(p) THEN ops[p].r = Gone /\ Reading(p, Gone)
               ELSE ops[p].r # Gone /\ Fetching(p, 0)
  /\ UNCHANGED << disk, remote, base, phase, user, raced >>
BothGone(p) ==
  /\ Starts(p, "conflict") /\ ~HasL(p) /\ ops[p].r = Gone
  /\ Record(p, NoRow)
  /\ Done(p)
  /\ UNCHANGED << disk, remote, phase, user, raced >>

\* Both have it.  Ask and newest trust a checksum the listing gave; without one,
\* and in auto, ours is hashed and theirs fetched to a file beside it.
BySum(p)     == policy # "auto" /\ ops[p].r.sum
Facing(p)    == Starts(p, "conflict") /\ HasL(p) /\ ops[p].r # Gone
Differ(p)    == \/ Facing(p) /\ BySum(p) /\ local[p] # ops[p].r.c
                \/ At(p, "compared") /\ ops[p].kind = "conflict" /\ ops[p].got.c # ops[p].l
SameSum(p) ==
  /\ Facing(p) /\ BySum(p) /\ local[p] = ops[p].r.c
  /\ Record(p, RowOf(p, local[p], ops[p].r.etag, ops[p].r.id))
  /\ Done(p)
  /\ UNCHANGED << disk, remote, phase, user, raced >>
Compare(p) ==
  /\ Facing(p) /\ ~BySum(p) /\ HasR(p)
  /\ ops' = [ops EXCEPT ![p] = [@ EXCEPT !.l = local[p], !.got = remote[p], !.step = "compared"]]
  /\ UNCHANGED << disk, remote, base, phase, user, raced >>
SameBytes(p) ==
  /\ At(p, "compared") /\ ops[p].kind = "conflict" /\ ops[p].got.c = ops[p].l
  /\ RebaselineFile(p, ops[p].l, ops[p].got.c)
  /\ Done(p)
  /\ UNCHANGED << disk, remote, phase, user >>

\* Executor.Pending: shown to the user when the pass ends.
Ask(p) ==
  /\ policy = "ask"
  /\ \/ Starts(p, "conflict") /\ HasL(p) /\ ops[p].r = Gone
     \/ Starts(p, "conflict") /\ ~HasL(p) /\ ops[p].r # Gone
     \/ Differ(p)
  /\ Ends(p, "asked")
  /\ UNCHANGED << disk, remote, base, phase, user, raced >>

\* Whether the server says it has the file: a request that fails reads as no.
Answers(p) == IF "statFails" \in Happens THEN {HasR(p), FALSE} ELSE {HasR(p)}

\* newestChoice, ApplyChoice: the later write replaces the other.
KeepNewest(p) ==
  /\ policy = "newest" /\ Differ(p) /\ HasL(p)
  /\ \E there \in Answers(p) :
       IF ~there \/ local[p] > remote[p].c
       THEN Reading(p, remote[p]) /\ Forget({remote[p].c})
       ELSE Fetching(p, local[p]) /\ Forget({local[p]})
  /\ UNCHANGED << disk, remote, base, phase, policy, pending, written, moves, raced >>

\* keepBothFrom: ours gets a name of its own (SetAsideAsConflict), theirs the
\* name, and ours is uploaded under the new one.
SetAside(p) ==
  /\ At(p, "compared") /\ HasL(p)
  /\ ops[p].kind = "both" \/ (policy = "auto" /\ Differ(p))
  /\ \E k \in Copies :
       /\ ~HasL(k) /\ ~HasR(k) /\ ~HasB(k) /\ ops[k] = NoOp
       /\ local' = [local EXCEPT ![p] = 0, ![k] = local[p]]
       /\ ops' = [ops EXCEPT ![p] = [@ EXCEPT !.other = {k}, !.step = "aside"]]
  /\ UNCHANGED << remote, base, bin, phase, user, raced >>
Place(p) ==
  /\ At(p, "aside")
  /\ Race({local[p]})
  /\ local' = [local EXCEPT ![p] = ops[p].got.c]
  /\ Goto(p, "placed")
  /\ UNCHANGED << remote, base, bin, phase, user >>
RecordPlaced(p) ==
  /\ At(p, "placed")
  /\ Record(p, RowOf(p, ops[p].got.c, ops[p].got.etag, ops[p].got.id))
  /\ \E k \in ops[p].other : ops' =
       [ops EXCEPT ![p] = NoOp, ![k] = [NoOp EXCEPT !.kind = "both", !.step = "copied"]]
  /\ UNCHANGED << disk, remote, phase, user, raced >>
ReadCopy(k) ==
  /\ At(k, "copied") /\ Reading(k, Gone)
  /\ UNCHANGED << disk, remote, base, phase, user, raced >>

-----------------------------------------------------------------------------
(* applyDelete *)

\* removeMirrored
DeleteHere(p) ==
  /\ Starts(p, "deleteLocal")
  /\ local' = [local EXCEPT ![p] = 0]
  /\ bin' = IF HasBin THEN bin \cup ({local[p]} \ {0}) ELSE bin
  /\ Race(IF HasBin THEN {} ELSE {local[p]} \ {ops[p].l})
  /\ Ends(p, "deleted")
  /\ UNCHANGED << remote, base, phase, user >>
DeleteThere(p) ==
  /\ Starts(p, "deleteRemote")
  /\ remote' = [remote EXCEPT ![p] = Gone]
  /\ Race(Newer(p))
  /\ Ends(p, "deleted")
  /\ UNCHANGED << disk, base, phase, user >>
RecordDeleted(p) ==
  /\ At(p, "deleted")
  /\ Record(p, NoRow)
  /\ Done(p)
  /\ UNCHANGED << disk, remote, phase, user, raced >>

\* setConflicts: the list shown is this pass's.
EndPass ==
  /\ phase = "apply" /\ \A p \in Names : ~Active(p)
  /\ phase' = "idle"
  /\ pending' = {p \in Names : At(p, "asked")}
  /\ ops' = [p \in Names |-> NoOp]
  /\ UNCHANGED << disk, remote, base, policy, written, moves, superseded, raced >>

\* What the next step of an action needs is not there any more.
Refused(p) ==
  \/ ops[p].kind = "moveLocal" /\ At(p, "planned")
     /\ \E x \in ops[p].other : ~HasL(x) \/ HasL(p)
  \/ ops[p].kind = "moveRemote" /\ At(p, "planned") /\ \E x \in ops[p].other : ~HasR(x)
  \/ ops[p].kind = "download" /\ At(p, "planned") /\ ~Redundant(p) /\ ~HasR(p)
  \/ ops[p].kind = "upload" /\ At(p, "planned") /\ ~HasL(p)
  \/ ops[p].kind = "conflict" /\ At(p, "planned") /\ ops[p].r # Gone /\ ~HasR(p)
     /\ IF HasL(p) THEN ~BySum(p) ELSE policy # "ask"
  \/ At(p, "moved") /\ ops[p].other = {} /\ ~HasL(p)
  \/ ops[p].step \in {"compared", "copied"} /\ ~HasL(p)

\* An action that has begun fails, its effect done or not; the others go on.
Fail(p) ==
  /\ Active(p) /\ (ops[p].step # "planned" \/ Starts(p, ops[p].kind))
  /\ "fail" \in Happens \/ Refused(p)
  /\ Done(p)
  /\ UNCHANGED << disk, remote, base, phase, user, raced >>
\* The program ends and starts again.
Crash ==
  /\ phase' = "idle"
  /\ ops' = [p \in Names |-> NoOp] /\ pending' = {}
  /\ UNCHANGED << disk, remote, base, policy, written, moves, superseded, raced >>

-----------------------------------------------------------------------------
(* The user's choice of a conflict: RecordChoice, and ApplyChoice where it   *)
(* deletes or keeps both                                                     *)

\* Not while a pass is at its scan: the rows it has loaded do not change then.
Choose(p) == p \in pending /\ pending' = pending \ {p} /\ phase \notin {"listed", "asking"}

ChooseMine(p) ==
  /\ Choose(p)
  /\ IF HasL(p) /\ HasR(p)
     THEN Record(p, [l |-> Never, etag |-> remote[p].etag, id |-> remote[p].id,
                     sha |-> IF remote[p].sum THEN remote[p].c ELSE 0, key |-> 0])
     ELSE Record(p, NoRow)
  /\ remote' = IF HasL(p) THEN remote ELSE [remote EXCEPT ![p] = Gone]
  /\ Forget({remote[p].c})
  /\ UNCHANGED << disk, policy, phase, ops, written, moves, raced >>
ChooseTheirs(p) ==
  /\ Choose(p)
  /\ IF HasL(p) /\ HasR(p)
     THEN Record(p, [l |-> local[p], etag |-> 0, id |-> remote[p].id, sha |-> 0, key |-> 0])
     ELSE Record(p, NoRow)
  /\ local' = IF HasR(p) THEN local ELSE [local EXCEPT ![p] = 0]
  /\ Forget({local[p]})
  /\ UNCHANGED << remote, bin, policy, phase, ops, written, moves, raced >>
\* ApplyChoice takes a request that fails for a file that is not there.  Keeping
\* both takes the place of a pass here.
ChooseBoth(p) ==
  /\ Choose(p) /\ phase = "idle" /\ phase' = "apply"
  /\ \E there \in Answers(p) :
       LET op == [NoOp EXCEPT !.kind = "both", !.r = remote[p], !.l = local[p]] IN
       ops' = [ops EXCEPT ![p] =
         IF HasL(p) /\ there THEN [op EXCEPT !.got = remote[p], !.step = "compared"]
         ELSE IF HasL(p) THEN [op EXCEPT !.got = [Gone EXCEPT !.c = local[p]], !.step = "read"]
         ELSE IF there THEN [op EXCEPT !.got = remote[p], !.step = "fetched"]
         ELSE [op EXCEPT !.step = "deleted"]]
  /\ UNCHANGED << disk, remote, base, policy, written, moves, superseded, raced >>

-----------------------------------------------------------------------------
World ==
  \E p \in Paths :
    \/ "edit" \in Happens /\ Save(p)
    \/ "remove" \in Happens /\ Remove(p)
    \/ "rename" \in Happens /\ \E q \in Paths : Rename(p, q)
    \/ "theirs" \in Happens /\ TheirSave(p)
    \/ "theirRemove" \in Happens /\ TheirRemove(p)
    \/ "theirRename" \in Happens /\ \E q \in Paths : TheirRename(p, q)
    \/ "lock" \in Happens /\ Lock(p)
Trouble == "fail" \in Happens /\ (Crash \/ ScanFails)
Choices == \E p \in Names : ChooseMine(p) \/ ChooseTheirs(p) \/ ChooseBoth(p)
Act(p) ==
  \/ MoveHere(p) \/ MoveThere(p) \/ MoveForgets(p) \/ MoveRecords(p)
  \/ SkipDownload(p) \/ Fetch(p) \/ Commit(p) \/ RecordDownload(p)
  \/ Read(p) \/ Put(p) \/ RecordUpload(p)
  \/ Resurrect(p) \/ BothGone(p) \/ SameSum(p) \/ Compare(p) \/ SameBytes(p) \/ Ask(p)
  \/ KeepNewest(p) \/ SetAside(p) \/ Place(p) \/ RecordPlaced(p) \/ ReadCopy(p)
  \/ DeleteHere(p) \/ DeleteThere(p) \/ RecordDeleted(p) \/ Fail(p)
Next ==
  \/ World \/ Trouble \/ Choices
  \/ List \/ Look \/ LookDelta
  \/ \E S \in Scopes : SyncPaths(S)
  \/ \E p \in Names : LookAt(p) \/ AskFor(p)
  \/ PlanPaths
  \/ \E p \in Names : Act(p)
  \/ EndPass
Spec == Init /\ [][Next]_vars

\* A pass goes on, and full passes come again and again (Watch: the poll).
Going    == (\E p \in Names : LookAt(p) \/ AskFor(p) \/ Act(p))
            \/ Look \/ LookDelta \/ PlanPaths \/ EndPass
Fairness == WF_vars(Going) /\ SF_vars(List) /\ SF_vars(Look)
LiveSpec == Spec /\ Fairness

-----------------------------------------------------------------------------
(* Safety *)

Kept == superseded \cup raced \cup bin \cup {local[p] : p \in Names}
        \cup {remote[p].c : p \in Names}

\* No version of a file is destroyed unless its own user or another client
\* replaced or removed it: what the client overwrites or deletes is synced, in the
\* Recycle Bin, or came after the pass had looked (raced).
NothingLost == \A c \in 1 .. written : c \in Kept

\* What the diff takes for in sync is the same on both sides.
InSync(p) == HasL(p) /\ HasR(p) /\ Classify(p, local[p], remote[p]) = "none"
Equal(p)  == local[p] = remote[p].c
Absorbed(p) == {local[p], remote[p].c} \cap raced # {}
SyncedIsEqual == \A p \in Names : InSync(p) => Equal(p) \/ Absorbed(p)

-----------------------------------------------------------------------------
(* Liveness *)

\* Once nobody changes anything any more, both sides become the same and stay so,
\* but for a version a race took for synced.
Calm      == [][~World /\ ~Trouble /\ ~Choices]_vars
Settled   == \A p \in Names : Equal(p) \/ Absorbed(p)
Converges == <>Calm => <>[]Settled
=============================================================================
