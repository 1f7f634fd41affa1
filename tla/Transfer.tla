------------------------------ MODULE Transfer ------------------------------
(***************************************************************************)
(* One file going up and down: the single PUT and the chunked upload       *)
(* (internal/transfer/upload.go, internal/transport/chunked.go) with its   *)
(* session on the server, the gate that keeps two uploads of a file apart  *)
(* (oneupload.go), files their writer is caught at (inuse.go), and the     *)
(* download that goes on from a .nimbo-part (download.go).  Meanwhile a    *)
(* program writes into the file or saves a new one over it, another client *)
(* writes to the server, answers are lost or late, and the client ends at  *)
(* any moment.                                                             *)
(*                                                                         *)
(* A content is a sequence of Parts pieces, each the number of the write   *)
(* that made it; a checksum is the content itself.  A stamp stands for     *)
(* size and modified time.  Contents of one file all have the same size,   *)
(* the case in which sizes tell nothing.                                   *)
(***************************************************************************)
EXTENDS Integers, Sequences, FiniteSets

CONSTANTS
  Uploaders,   \* who may upload the file: a pass, the lane, a conflict's choice
  Parts,       \* pieces of a content: the chunks of a large file
  Cases,       \* what may go on together, see Case
  WritesMax,   \* bound on the writes of programs and other clients
  IdMax, StampMax, EtagMax   \* bounds on numbers in use at a time

Trouble == {"inplace", "unseen", "replace", "theirs", "gc", "lost", "refused",
            "crash", "held", "layout"}

(* A server verifies the declared checksum as it assembles; or takes what
   comes and reports the checksum of what it holds; or reports none. *)
Server == {"verifies", "computes", "silent"}

(* Who uploads, files below or above chunkThreshold, on which servers, what
   goes wrong, and how many writes there are at most. *)
Case == [by: SUBSET Uploaders, sizes: SUBSET {"small", "large"}, servers: SUBSET Server,
         what: SUBSET Trouble, max: 0 .. WritesMax]

ASSUME TransferAssumption ==
  /\ Parts \in Nat \ {0} /\ WritesMax \in Nat /\ Cases \subseteq Case
  /\ IdMax \in Nat \ {0} /\ StampMax \in Nat \ {0} /\ EtagMax \in Nat \ {0}

VARIABLES
  disk,      \* files by identity: what each holds, its stamp
  here,      \* the identity under the file's name
  open,      \* a program holds the file open to write
  remote,    \* the server's file
  sessions,  \* upload sessions, by the stamp their id is made of
  landing,   \* assemblies the server goes on with after the answer was lost
  can,       \* what goes on in this behaviour, one of Cases
  size, server,
  up,        \* the uploads
  down,      \* the download
  part,      \* the .nimbo-part
  row,       \* the baseline row
  busy,      \* the file was caught changing (busyWriters)
  calm,      \* trouble has ended for good
  written,   \* how many writes
  had,       \* history: contents the local file has had
  served,    \* history: contents the server's file has had
  unseen,    \* history: a write left the stamp as it was
  spoiled    \* history: the server refused an assembly without such a write

local == << disk, here, open >>
net   == << remote, sessions, landing >>
fixed == << can, size, server, calm >>
seen  == << had, served, unseen, spoiled >>
vars  == << disk, here, open, remote, sessions, landing, can, size, server, up, down, part, row,
            busy, calm, written, had, served, unseen, spoiled >>

Writes == 0 .. WritesMax
Ids    == 1 .. IdMax
Stamps == 1 .. StampMax
Etags  == 0 .. EtagMax        \* 0: none
Pieces == 1 .. Parts
Short   == -1                 \* a chunk of another size than the layout's
Missing == -2
NoSum   == << >>
NoSession == << >>

Chunk   == Writes \cup {Short, Missing}
Content == [Pieces -> Writes]
\* One place beyond the last chunk: what an older layout may have left there.
Session == [1 .. Parts + 1 -> Chunk]
Const(w) == [i \in Pieces |-> w]

Steps == {"idle", "hash", "check", "put", "create", "send", "sending", "compare",
          "move", "poll", "confirm", "row"}
Outside == {"theirs", "late"}
File     == [data: Content, stamp: Stamps, whole: BOOLEAN, unseen: BOOLEAN]
OnServer == [data: Content, etag: Etags \ {0}, sum: Content \cup {NoSum}, ours: BOOLEAN]
Assembly == [stamp: Stamps, data: Content, sum: Content]
Upload   == [at: Steps, id: Ids, stamp: Stamps, src: Ids, read: Seq(Writes),
             sum: Content \cup {NoSum}, have: SUBSET Pieces, pre: Etags \cup {-1}, etag: Etags,
             since: SUBSET Outside]
Download == [at: {"idle", "get", "body", "rename", "row"}, body: Content \cup {<< >>},
             sum: Content \cup {NoSum}, etag: Etags, hashed: Seq(Writes), resumed: BOOLEAN,
             stamp: Stamps]
Row      == [stamp: Stamps, etag: Etags, since: SUBSET Outside, blind: BOOLEAN]
Idle == [at |-> "idle", id |-> 1, stamp |-> 1, src |-> 1, read |-> << >>, sum |-> NoSum,
         have |-> {}, pre |-> -1, etag |-> 0, since |-> {}]
NoDownload == [at |-> "idle", body |-> << >>, sum |-> NoSum, etag |-> 0, hashed |-> << >>,
               resumed |-> FALSE, stamp |-> 1]

TypeOK ==
  /\ disk \in [Ids -> File] /\ here \in Ids /\ open \in BOOLEAN
  /\ remote \in OnServer
  /\ sessions \in [Stamps -> Session \cup {NoSession}] /\ landing \subseteq Assembly
  /\ can \in Cases /\ size \in can.sizes /\ server \in can.servers
  /\ up \in [Uploaders -> Upload] /\ down \in Download
  /\ part \in Seq(Writes) /\ Len(part) <= Parts
  /\ \A u \in Uploaders : Len(up[u].read) <= Parts
  /\ row \in Row /\ written \in Writes /\ had \subseteq Content /\ served \subseteq Content
  /\ busy \in BOOLEAN /\ calm \in BOOLEAN /\ unseen \in BOOLEAN /\ spoiled \in BOOLEAN

\* Both sides are in step; an older version of the app may have left a session behind.
Init ==
  /\ disk = [i \in Ids |-> [data |-> Const(0), stamp |-> 1, whole |-> TRUE, unseen |-> FALSE]]
  /\ here = 1 /\ open = FALSE
  /\ \E s \in {NoSum, Const(0)} : remote = [data |-> Const(0), etag |-> 1, sum |-> s, ours |-> FALSE]
  /\ sessions = [s \in Stamps |-> NoSession] /\ landing = {}
  /\ can \in Cases /\ size \in can.sizes /\ server \in can.servers
  /\ up = [u \in Uploaders |-> Idle] /\ down = NoDownload /\ part = << >>
  /\ row = [stamp |-> 1, etag |-> 1, since |-> {}, blind |-> FALSE]
  /\ busy = FALSE /\ calm = FALSE /\ written = 0
  /\ had = {Const(0)} /\ served = {Const(0)} /\ unseen = FALSE /\ spoiled = FALSE

Local == disk[here]
Synced == Local.stamp = row.stamp /\ remote.etag = row.etag
May(x) == x \in can.what /\ ~calm

\* Numbers nobody remembers: the least, so that they are used again.
Least(S) == {n \in S : \A m \in S : n <= m}
Active    == {u \in Uploaders : up[u].at # "idle"}
NewIds    == Least(Ids \ ({here} \cup UNION {{up[u].id, up[u].src} : u \in Active}))
NewStamps ==
  Least(Stamps \ ({Local.stamp, row.stamp} \cup {up[u].stamp : u \in Active}
                  \cup (IF down.at = "row" THEN {down.stamp} ELSE {})
                  \cup {s \in Stamps : sessions[s] # NoSession} \cup {l.stamp : l \in landing}))
NewEtags ==
  Least((1 .. EtagMax) \ ({remote.etag, row.etag, down.etag}
                          \cup UNION {{up[u].pre, up[u].etag} : u \in Active}))

-----------------------------------------------------------------------------
(* Programs, other clients, the server *)

Write == written < can.max /\ written' = written + 1

Opens  == May("inplace") /\ ~open /\ open' = TRUE
          /\ UNCHANGED << disk, here, net, fixed, up, down, part, row, busy, written, seen >>
Closes == open /\ open' = FALSE
          /\ UNCHANGED << disk, here, net, fixed, up, down, part, row, busy, written, seen >>

\* A program writes pieces I of the file it holds open; s is the stamp then.
WriteInto(I, s) ==
  /\ open /\ Write
  /\ disk' = [disk EXCEPT ![here] =
                [data |-> [i \in Pieces |-> IF i \in I THEN written' ELSE Local.data[i]],
                 stamp |-> s, whole |-> TRUE, unseen |-> Local.unseen \/ s = Local.stamp]]
  /\ had' = had \cup {disk'[here].data}
  /\ unseen' = (unseen \/ s = Local.stamp)
  /\ UNCHANGED << here, open, net, fixed, up, down, part, row, busy, served, spoiled >>
Parcels == SUBSET Pieces \ {{}}
InPlace == May("inplace") /\ \E I \in Parcels, s \in NewStamps : WriteInto(I, s)
\* The modified time of an open file may lag behind, or be put back.
Unseen  == May("unseen") /\ ~unseen /\ \E I \in Parcels : WriteInto(I, Local.stamp)

\* An editor saves by putting a new file under the name.
Replace ==
  /\ May("replace") /\ ~open /\ Write
  /\ \E i \in NewIds, s \in NewStamps :
       /\ disk' = [disk EXCEPT ![i] = [data |-> Const(written'), stamp |-> s,
                                       whole |-> TRUE, unseen |-> FALSE]]
       /\ here' = i
  /\ had' = had \cup {Const(written')}
  /\ UNCHANGED << open, net, fixed, up, down, part, row, busy, served, unseen, spoiled >>

\* What an upload under way cannot tell from its own result: history.
Waits(u) == up[u].at \in {"move", "poll", "confirm"}
Note(w, s) == up' = [u \in Uploaders |->
  IF Waits(u) /\ up[u].stamp # s THEN [up[u] EXCEPT !.since = @ \cup {w}] ELSE up[u]]

\* Another client's write; a browser's comes without a checksum.
Theirs ==
  /\ May("theirs") /\ Write
  /\ \E s \in {NoSum, Const(written')}, e \in NewEtags :
       remote' = [data |-> Const(written'), etag |-> e, sum |-> s, ours |-> FALSE]
  /\ Note("theirs", 0)
  /\ served' = served \cup {Const(written')}
  /\ UNCHANGED << local, sessions, landing, fixed, down, part, row, busy, had, unseen, spoiled >>

\* The server clears away a session nobody has touched.
Collect(s) ==
  /\ May("gc") /\ sessions[s] # NoSession /\ \A l \in landing : l.stamp # s
  /\ sessions' = [sessions EXCEPT ![s] = NoSession]
  /\ UNCHANGED << local, remote, landing, fixed, up, down, part, row, busy, written, seen >>

\* A session of this very file, left by a version of the app with other chunk sizes.
Leftover ==
  /\ May("layout") /\ size = "large" /\ sessions[Local.stamp] = NoSession /\ Active = {}
  /\ Local.stamp # row.stamp
  /\ \E last \in {Missing, 0} :
       sessions' = [sessions EXCEPT ![Local.stamp] =
                      [i \in 1 .. Parts + 1 |-> IF i = Parts + 1 THEN last ELSE Short]]
  /\ UNCHANGED << local, remote, landing, fixed, up, down, part, row, busy, written, seen >>

\* What the server takes an upload for; the new file and its ETag.
Stored(d, sum, e) == [data |-> d, etag |-> e, ours |-> TRUE,
                      sum |-> IF server = "silent" THEN NoSum ELSE IF server = "computes" THEN d ELSE sum]

Land(l) ==
  /\ \E e \in NewEtags : remote' = Stored(l.data, l.sum, e)
  /\ sessions' = [sessions EXCEPT ![l.stamp] = NoSession]
  /\ landing' = landing \ {l} /\ served' = served \cup {l.data}
  /\ Note("late", l.stamp)
  /\ UNCHANGED << local, fixed, down, part, row, busy, written, had, unseen, spoiled >>

-----------------------------------------------------------------------------
(* An upload *)

Alter(u, r) == up' = [up EXCEPT ![u] = r]
Go(u, s)    == Alter(u, [up[u] EXCEPT !.at = s])
\* endUpload, and the mark of a file caught changing.
End(u, caught) == Alter(u, Idle) /\ busy' = (busy \/ caught)
Fail(u) == End(u, FALSE)
UpKeeps == UNCHANGED << local, fixed, down, part, row, written >>

\* beginUpload; the file is stat'ed.  A pass plans it for a new stamp.
UploadDeferred == busy /\ open
AnyTime(u) == TRUE   \* mutant
Gate(u) == Active = {}
Begin(u) ==
  /\ u \in can.by /\ up[u].at = "idle" /\ down.at = "idle" /\ Local.stamp # row.stamp
  /\ Gate(u)
  /\ ~UploadDeferred
  /\ Alter(u, [Idle EXCEPT !.at = "hash", !.id = here, !.stamp = Local.stamp, !.src = here])
  /\ UpKeeps /\ UNCHANGED << net, busy, seen >>

\* The file is opened and read piece by piece, to be hashed.
Hash(u) ==
  LET f == IF up[u].read = << >> THEN here ELSE up[u].src
      r == Append(up[u].read, disk[f].data[Len(up[u].read) + 1])
  IN /\ up[u].at = "hash"
     /\ Alter(u, [up[u] EXCEPT !.src = f, !.read = r,
                               !.at = IF Len(r) = Parts THEN "check" ELSE "hash"])
     /\ UpKeeps /\ UNCHANGED << net, busy, seen >>

\* statUnchanged: the same file, with the same stamp.
SinceRow(u)  == here = up[u].id /\ Local.stamp = row.stamp   \* mutant: against the row
Unchanged(u) == here = up[u].id /\ Local.stamp = up[u].stamp
Check(u) ==
  /\ up[u].at = "check"
  /\ IF Unchanged(u)
     THEN /\ Alter(u, [up[u] EXCEPT !.sum = up[u].read, !.at = IF size = "small" THEN "put" ELSE "create",
                                    !.read = << >>])
          /\ UNCHANGED busy
     ELSE End(u, here = up[u].id)
  /\ UpKeeps /\ UNCHANGED << net, seen >>

\* uploadSingle: the bytes that were hashed.  The answer may lack the ETag, or be lost.
Put(u) ==
  /\ up[u].at = "put"
  /\ \/ \E e \in NewEtags, given \in BOOLEAN :
          /\ remote' = Stored(up[u].sum, up[u].sum, e) /\ served' = served \cup {up[u].sum}
          /\ \/ Alter(u, [up[u] EXCEPT !.etag = IF given THEN e ELSE 0,
                                       !.at = IF given THEN "row" ELSE "confirm"])
                /\ UNCHANGED busy
             \/ May("lost") /\ (Fail(u) \/ UNCHANGED << up, busy >>)
     \/ (May("lost") \/ May("refused")) /\ Fail(u) /\ UNCHANGED << remote, served >>
  /\ UpKeeps /\ UNCHANGED << sessions, landing, had, unseen, spoiled >>

\* MKCOL of a session whose id is made of path, size and modified time, and
\* ListChunks: a chunk counts if it has the size it should; the file is opened again.
EmptySession == [i \in 1 .. Parts + 1 |-> Missing]
SessionOf(u) == up[u].stamp
Uploaded(s) == {i \in Pieces : s[i] # Missing}   \* mutant
Complete(s)  == {i \in Pieces : s[i] \notin {Missing, Short}}
Create(u) ==
  /\ up[u].at = "create"
  /\ \/ /\ sessions' = [sessions EXCEPT ![SessionOf(u)] = IF @ = NoSession THEN EmptySession ELSE @]
        /\ \/ Alter(u, [up[u] EXCEPT !.have = Complete(sessions'[SessionOf(u)]), !.src = here, !.at = "send"])
              /\ UNCHANGED busy
           \/ May("lost") /\ Fail(u)
     \/ May("lost") /\ Fail(u) /\ UNCHANGED sessions
  /\ UpKeeps /\ UNCHANGED << remote, landing, seen >>

Turn(u) == Len(up[u].read) + 1
Read(u) == Append(up[u].read, disk[up[u].src].data[Turn(u)])
AfterRead(u) == IF Turn(u) = Parts THEN "compare" ELSE "send"

\* A chunk the session holds is read and hashed, not sent.
Skip(u) ==
  /\ up[u].at = "send" /\ Turn(u) \in up[u].have
  /\ Alter(u, [up[u] EXCEPT !.read = Read(u), !.at = AfterRead(u)])
  /\ UpKeeps /\ UNCHANGED << net, busy, seen >>

\* PutChunk: for a while the server holds part of it.
StartChunk(u) ==
  /\ up[u].at = "send" /\ Turn(u) \notin up[u].have
  /\ IF sessions[SessionOf(u)] = NoSession
     THEN Fail(u) /\ UNCHANGED sessions
     ELSE /\ sessions' = [sessions EXCEPT ![SessionOf(u)][Turn(u)] = Short]
          /\ Go(u, "sending") /\ UNCHANGED busy
  /\ UpKeeps /\ UNCHANGED << remote, landing, seen >>

\* The rest of it arrives; or the connection breaks, before or after, and it is
\* tried again with its own copy of the hash, or given up.
EndChunk(u) ==
  LET s == SessionOf(u) IN
  /\ up[u].at = "sending"
  /\ \/ /\ sessions[s] # NoSession
        /\ sessions' = [sessions EXCEPT ![s][Turn(u)] = disk[up[u].src].data[Turn(u)]]
        /\ \/ Alter(u, [up[u] EXCEPT !.read = Read(u), !.at = AfterRead(u)]) /\ UNCHANGED busy
           \/ May("lost") /\ (Fail(u) \/ (Go(u, "send") /\ UNCHANGED busy))
     \/ /\ May("lost") \/ sessions[s] = NoSession
        /\ UNCHANGED sessions
        /\ (Fail(u) \/ (May("lost") /\ Go(u, "send") /\ UNCHANGED busy))
  /\ UpKeeps /\ UNCHANGED << remote, landing, seen >>

\* DeleteUpload is tried, and its failure ignored.
Drops(u) == \/ sessions' = [sessions EXCEPT ![SessionOf(u)] = NoSession]
            \/ May("lost") /\ UNCHANGED sessions

\* What was read to be sent has to be what was hashed.
NotCompared(u) == TRUE   \* mutant
Agrees(u) == up[u].read = up[u].sum
Compare(u) ==
  /\ up[u].at = "compare" /\ ~Agrees(u)
  /\ Drops(u) /\ End(u, up[u].id = up[u].src)
  /\ UpKeeps /\ UNCHANGED << remote, landing, seen >>

\* Chunks beyond the last one are removed; then the ETag before the assembly: without it
\* (-1) there is no polling.
NotPruned(s) == s   \* mutant
PrunedTooFar(s) == IF s = NoSession THEN s ELSE SubSeq(s, 1, Parts)   \* mutant
Pruned(s) == IF s = NoSession THEN s ELSE [s EXCEPT ![Parts + 1] = Missing]
Prune(u) ==
  /\ up[u].at = "compare" /\ Agrees(u)
  /\ \/ /\ sessions' = [sessions EXCEPT ![SessionOf(u)] = Pruned(@)]
        /\ \E p \in {remote.etag} \cup (IF May("lost") THEN {-1} ELSE {}) :
             Alter(u, [up[u] EXCEPT !.pre = p, !.at = "move"])
        /\ UNCHANGED busy
     \/ May("lost") /\ Fail(u) /\ UNCHANGED sessions
  /\ UpKeeps /\ UNCHANGED << remote, landing, seen >>

\* The chunks there are, in their order.
Assembled(s) ==
  LET there  == {i \in 1 .. Parts + 1 : sessions[s][i] # Missing}
      nth(k) == CHOOSE i \in there : Cardinality({j \in there : j <= i}) = k
  IN  [k \in 1 .. Cardinality(there) |-> sessions[s][nth(k)]]
Accepts(u)   == server # "verifies" \/ Assembled(SessionOf(u)) = up[u].sum
Lands(u)     == \E l \in landing : l.stamp = SessionOf(u)

\* The server assembles and answers, in time or not (Land); the ETag may be left out.
MoveTaken(u) ==
  LET s == SessionOf(u) IN
  /\ up[u].at = "move" /\ sessions[s] # NoSession /\ ~Lands(u) /\ Accepts(u)
  /\ \/ \E e \in NewEtags, given \in BOOLEAN :
          /\ remote' = Stored(Assembled(s), up[u].sum, e) /\ served' = served \cup {Assembled(s)}
          /\ sessions' = [sessions EXCEPT ![s] = NoSession] /\ UNCHANGED landing
          /\ \/ Alter(u, [up[u] EXCEPT !.etag = IF given THEN e ELSE 0, !.at = "confirm"])
             \/ May("lost") /\ Go(u, "poll")
     \/ /\ May("lost") /\ Go(u, "poll")
        /\ landing' = landing \cup {[stamp |-> s, data |-> Assembled(s), sum |-> up[u].sum]}
        /\ UNCHANGED << remote, sessions, served >>
  /\ UpKeeps /\ UNCHANGED << busy, had, unseen, spoiled >>

\* 400: the content is not what was declared; the session goes.
MovePoisoned(u) ==
  /\ up[u].at = "move" /\ sessions[SessionOf(u)] # NoSession /\ ~Lands(u) /\ ~Accepts(u)
  /\ Drops(u) /\ Fail(u) /\ spoiled' = (spoiled \/ ~unseen)
  /\ UpKeeps /\ UNCHANGED << remote, landing, had, served, unseen >>

\* No session any more (404): it may have been assembled.  Other failures may be
\* the network's or a server that is busy, or a refusal that leaves the session.
MoveFails(u) ==
  /\ up[u].at = "move"
  /\ \/ (sessions[SessionOf(u)] = NoSession \/ Lands(u) \/ May("lost")) /\ Go(u, "poll") /\ UNCHANGED busy
     \/ May("refused") /\ Fail(u)
  /\ UpKeeps /\ UNCHANGED << net, seen >>

\* waitForAssembled: another ETag than before is taken for the upload's.
AnyVersion(u) == up[u].pre # -1   \* mutant
Appeared(u) == up[u].pre # -1 /\ remote.etag # up[u].pre
Poll(u) ==
  /\ up[u].at = "poll"
  /\ \/ Appeared(u) /\ Alter(u, [up[u] EXCEPT !.etag = remote.etag, !.at = "confirm"]) /\ UNCHANGED busy
     \/ ~Appeared(u) /\ (Fail(u) \/ (sessions[SessionOf(u)] # NoSession /\ Go(u, "move") /\ UNCHANGED busy))
  /\ UpKeeps /\ UNCHANGED << net, seen >>

\* The file on the server is looked at: for its checksum, if it has one, and the ETag.
\* A checksum that is the own tells (history) that nothing else was taken for it.
Differs(u) == size = "large" /\ remote.sum # NoSum /\ remote.sum # up[u].sum
Confirm(u) ==
  /\ up[u].at = "confirm"
  /\ \/ Differs(u) /\ Fail(u)
     \/ /\ ~Differs(u) /\ UNCHANGED busy
        /\ Alter(u, [up[u] EXCEPT !.etag = IF @ = 0 THEN remote.etag ELSE @, !.at = "row",
                                  !.since = IF size = "large" /\ remote.sum # NoSum THEN {} ELSE @])
     \/ May("lost") /\ Go(u, "row") /\ UNCHANGED busy
  /\ UpKeeps /\ UNCHANGED << net, seen >>

\* clearBusyWriter, endUpload, and the executor's saveFileBaseline.
Record(u) ==
  /\ up[u].at = "row"
  /\ row' = [stamp |-> up[u].stamp, etag |-> up[u].etag, since |-> up[u].since, blind |-> FALSE]
  /\ Alter(u, Idle) /\ busy' = FALSE
  /\ UNCHANGED << local, net, fixed, down, part, written, seen >>

UploadStep(u) ==
  \/ Hash(u) \/ Check(u) \/ Put(u) \/ Create(u) \/ Skip(u) \/ StartChunk(u) \/ EndChunk(u)
  \/ Compare(u) \/ Prune(u) \/ MoveTaken(u) \/ MovePoisoned(u) \/ MoveFails(u)
  \/ Poll(u) \/ Confirm(u) \/ Record(u)

-----------------------------------------------------------------------------
(* A download *)

DownKeeps == UNCHANGED << net, fixed, up, busy, written >>

\* A pass plans it for a new ETag of a file that has not changed here.
DownBegins ==
  /\ down.at = "idle" /\ Active = {} /\ remote.etag # row.etag /\ Local.stamp = row.stamp
  /\ down' = [NoDownload EXCEPT !.at = "get", !.etag = remote.etag]
  /\ DownKeeps /\ UNCHANGED << local, part, row, seen >>

\* resumeState, then GET from there on.  The body is that of one version; a server
\* that ignores the Range sends all of it; nothing is left to send of a whole part (416).
Beyond(off) == off = Parts
Get ==
  /\ down.at = "get"
  /\ \E whole \in BOOLEAN :
       LET off == IF whole THEN 0 ELSE Len(part) IN
       /\ ~Beyond(off)
       /\ down' = [down EXCEPT !.at = "body", !.body = remote.data, !.sum = remote.sum,
                               !.etag = remote.etag, !.resumed = off > 0, !.hashed = SubSeq(part, 1, off)]
       /\ part' = SubSeq(part, 1, off)
  /\ DownKeeps /\ UNCHANGED << local, row, seen >>
GetRefused ==
  /\ down.at = "get" /\ (Beyond(Len(part)) \/ May("lost")) /\ down' = NoDownload
  /\ DownKeeps /\ UNCHANGED << local, part, row, seen >>

Receive ==
  LET n == Len(part) + 1 IN
  /\ down.at = "body" /\ n <= Parts
  /\ \/ /\ part' = Append(part, down.body[n])
        /\ down' = [down EXCEPT !.hashed = Append(@, down.body[n])]
     \/ May("lost") /\ down' = NoDownload /\ UNCHANGED part
  /\ DownKeeps /\ UNCHANGED << local, row, seen >>

NotVerified == TRUE   \* mutant
Matches == down.sum = NoSum \/ down.hashed = down.sum
Verify ==
  /\ down.at = "body" /\ Len(part) = Parts
  /\ IF Matches THEN down' = [down EXCEPT !.at = "rename"] /\ UNCHANGED part
                ELSE down' = NoDownload /\ part' = << >>
  /\ DownKeeps /\ UNCHANGED << local, row, seen >>

\* The part takes the file's place, with the server's time; not while a program holds it.
Commit ==
  /\ down.at = "rename"
  /\ \/ \E i \in NewIds, s \in NewStamps :
          /\ disk' = [disk EXCEPT ![i] = [data |-> part, stamp |-> s, unseen |-> FALSE,
                                          whole |-> part \in served \/ (down.sum = NoSum /\ down.resumed)]]
          /\ here' = i /\ part' = << >> /\ had' = had \cup {part}
          /\ open' = FALSE
          /\ down' = [down EXCEPT !.at = "row", !.stamp = s]
     \/ /\ open \/ May("held")
        /\ down' = NoDownload /\ UNCHANGED << disk, here, open, part, had >>
  /\ DownKeeps /\ UNCHANGED << row, served, unseen, spoiled >>

\* The row has the time that was set, the ETag of the answer.
DownRecord ==
  /\ down.at = "row"
  /\ row' = [stamp |-> down.stamp, etag |-> down.etag, since |-> {},
             blind |-> down.sum = NoSum /\ down.resumed]
  /\ down' = NoDownload
  /\ DownKeeps /\ UNCHANGED << local, part, seen >>

DownStep == Get \/ GetRefused \/ Receive \/ Verify \/ Commit \/ DownRecord

-----------------------------------------------------------------------------

\* The program ends: sessions and the part stay, what was in memory goes.
Crash ==
  /\ May("crash") /\ (Active # {} \/ down.at # "idle")
  /\ up' = [u \in Uploaders |-> Idle] /\ down' = NoDownload /\ busy' = FALSE
  /\ UNCHANGED << local, net, fixed, part, row, written, seen >>

World == \/ Opens \/ Closes \/ InPlace \/ Unseen \/ Replace \/ Theirs \/ Leftover
         \/ \E s \in Stamps : Collect(s)
Ours  == \/ \E u \in Uploaders : Begin(u) \/ UploadStep(u)
         \/ DownBegins \/ DownStep
\* From some time on nothing goes wrong and nobody writes.
Calms == ~calm /\ calm' = TRUE
         /\ UNCHANGED << local, net, can, size, server, up, down, part, row, busy, written, seen >>
\* In step: the client waits.
Rests   == Synced /\ Active = {} /\ down.at = "idle" /\ UNCHANGED vars
Landing == \E l \in landing : Land(l)
Next  == World \/ Ours \/ Crash \/ Rests \/ Landing

Spec == Init /\ [][Next]_vars
LiveSpec == Init /\ [][Next \/ Calms]_vars /\ WF_vars(Ours) /\ WF_vars(Landing) /\ WF_vars(Closes)

-----------------------------------------------------------------------------
(* Properties *)

\* What the next pass takes for synced is the same on both sides, whatever answers were
\* lost and whoever wrote meanwhile: unless a write left the stamp, or the server had
\* no checksum to tell another's file, or the rest of another version, from the own.
SyncedIsSame == Synced => \/ remote.data = Local.data
                         \/ Local.unseen \/ row.since # {} \/ row.blind

\* What the client puts on the server is what the file was at some moment, never a
\* mixture of two saves or of two attempts.
WholeOnServer == remote.ours /\ ~unseen => remote.data \in had

\* What a download puts under the name is a version the server had, however often it
\* was broken off and gone on with.
WholeOnDisk == Local.whole

\* Of an upload that is resumed, overtaken or tried again, no assembly is refused for its
\* content, unless a write kept the stamp: leftovers are seen to before.
NotSpoiled == ~spoiled

\* Nothing is mixed, whatever was resumed: not on the server, not here, nor in an upload
\* session.
Whole == WholeOnServer /\ WholeOnDisk /\ NotSpoiled

\* Once trouble ends both sides get in step, or a whole part is left for good.
Settles == calm ~> Synced \/ Len(part) = Parts

=============================================================================
