----------------------------- MODULE TransferProofs -----------------------------
(***************************************************************************)
(* What is proved of Transfer, for any number of pieces, of writes, of     *)
(* uploaders and of numbers in use: its type invariant, that what goes     *)
(* either way is whole, that no assembly is refused for leftovers, and     *)
(* that what a pass takes for synced is the same on both sides.            *)
(***************************************************************************)
EXTENDS Transfer, FiniteSetTheorems, TLAPS

-----------------------------------------------------------------------------
(* The inductive invariant *)

\* One transfer at a time.
Alone == /\ \A u, v \in Uploaders : u \in Active /\ v \in Active => u = v
         /\ down.at # "idle" => Active = {}

\* The name's content is on record; a write that kept the stamp is too.
LocalOK == Local.data \in had /\ (Local.unseen => unseen) /\ Local.whole

\* The file is still what an upload, a session or an assembly of stamp s was made of.
Still(s) == Local.stamp = s /\ ~Local.unseen

\* While the stamp is the upload's, so is the file, and the one being read is it.
SourceOK(u) ==
  Local.stamp = up[u].stamp =>
    /\ up[u].at # "idle" => here = up[u].id
    /\ up[u].at = "hash" /\ up[u].read # << >> => up[u].src = here
    /\ up[u].at \in {"check", "send", "sending", "compare"} => up[u].src = here

HashOK(u) ==
  /\ up[u].at = "check" => Len(up[u].read) = Parts
  /\ up[u].at = "hash" => Len(up[u].read) < Parts
  /\ up[u].at \in {"hash", "check"} /\ Still(up[u].stamp) =>
       \A i \in 1 .. Len(up[u].read) : up[u].read[i] = Local.data[i]

Hashed == {"put", "create", "send", "sending", "compare", "move", "poll", "confirm", "row"}
SumOK(u) ==
  up[u].at \in Hashed =>
    /\ up[u].sum \in Content
    /\ ~unseen => up[u].sum \in had
    /\ Still(up[u].stamp) => up[u].sum = Local.data

Good(s, i) == sessions[s][i] \notin {Missing, Short}

\* A session holds chunks of one content, unless a write kept the stamp.
ChunksOK ==
  \A s \in Stamps : sessions[s] # NoSession /\ Still(s) =>
    \A i \in Pieces : Good(s, i) => sessions[s][i] = Local.data[i]

\* And an upload's session the chunks of what was hashed.
SessionOK(u) ==
  LET s == up[u].stamp
      Own(i) == ~unseen => sessions[s][i] = up[u].sum[i]
  IN /\ up[u].at = "create" => up[u].read = << >>
     /\ up[u].at \in {"send", "sending"} => Len(up[u].read) < Parts
     /\ up[u].at = "compare" => Len(up[u].read) = Parts
     /\ up[u].at = "sending" => Len(up[u].read) + 1 \notin up[u].have
     /\ sessions[s] # NoSession =>
          /\ up[u].at = "create" => \A i \in Pieces : Good(s, i) => Own(i)
          /\ up[u].at \in {"send", "sending", "compare"} =>
               /\ \A i \in up[u].have : Good(s, i) /\ Own(i)
               /\ \A i \in 1 .. Len(up[u].read) : i \notin up[u].have =>
                    Good(s, i) /\ sessions[s][i] = up[u].read[i]
          /\ up[u].at \in {"move", "poll"} =>
               /\ sessions[s][Parts + 1] = Missing
               /\ \A i \in Pieces : Good(s, i) /\ Own(i)

LandOK ==
  \A l \in landing : /\ ~unseen => l.data \in had
                     /\ server = "verifies" => l.data = l.sum
                     /\ Still(l.stamp) => l.data = Local.data

RemoteOK == /\ remote.data \in served /\ remote.sum \in {NoSum, remote.data}
            /\ remote.ours /\ ~unseen => remote.data \in had

\* A part that was not resumed is the beginning of the body.
Blind == down.sum = NoSum /\ down.resumed
DownOK ==
  /\ down.at \in {"body", "rename"} =>
       /\ down.hashed = part
       /\ ~down.resumed => \A i \in 1 .. Len(part) : part[i] = down.body[i]
  /\ down.at = "rename" => Len(part) = Parts /\ Matches
  /\ down.at \in {"body", "rename", "row"} =>
       /\ down.body \in Content /\ down.body \in served /\ down.sum \in {NoSum, down.body}
       /\ remote.etag = down.etag => remote.data = down.body
  /\ down.at = "row" /\ Still(down.stamp) /\ ~Blind => Local.data = down.body

\* What an upload takes for its result is the file, unless another's came in between.
Taken(u) ==
  \/ up[u].at \in {"move", "poll"} /\ Appeared(u)
  \/ up[u].at = "confirm" /\ up[u].etag \in {0, remote.etag}
  \/ up[u].at = "row" /\ up[u].etag = remote.etag
TakenOK(u) ==
  Taken(u) /\ Still(up[u].stamp) /\ up[u].since = {} => remote.data = Local.data

UploadOK == \A u \in Uploaders : SourceOK(u) /\ HashOK(u) /\ SumOK(u) /\ SessionOK(u) /\ TakenOK(u)

IInv == TypeOK /\ Alone /\ LocalOK /\ UploadOK /\ ChunksOK /\ LandOK /\ RemoteOK /\ DownOK
        /\ SyncedIsSame /\ NotSpoiled

-----------------------------------------------------------------------------
(* Lemmas about the operators *)

LEMMA Sizes == Parts \in Nat /\ Parts >= 1 /\ Parts + 1 \in 1 .. Parts + 1 /\ Pieces = 1 .. Parts
  BY TransferAssumption DEF Pieces

LEMMA Consts ==
  /\ Const(0) \in Content /\ \A w \in Writes : Const(w) \in Content
  /\ 0 \in Writes /\ 1 \in Ids /\ 1 \in Stamps /\ 1 \in Etags \ {0}
  BY TransferAssumption DEF Const, Content, Writes, Ids, Stamps, Etags

\* A whole sequence of pieces is a content, and a shorter one can be read on.
LEMMA WholeIsContent ==
  ASSUME NEW q \in Seq(Writes), Len(q) = Parts
  PROVE  q \in Content
  BY Sizes DEF Content

LEMMA ReadOn ==
  ASSUME NEW q \in Seq(Writes), Len(q) < Parts, NEW c \in Content
  PROVE  /\ Len(q) + 1 \in Pieces /\ c[Len(q) + 1] \in Writes
         /\ Append(q, c[Len(q) + 1]) \in Seq(Writes)
         /\ Len(Append(q, c[Len(q) + 1])) = Len(q) + 1 /\ Len(q) + 1 <= Parts
<1>1. Len(q) + 1 \in Pieces
  BY Sizes
<1>2. c[Len(q) + 1] \in Writes
  BY <1>1 DEF Content
<1> QED
  BY <1>1, <1>2, Sizes

LEMMA NewIdFacts ==
  ASSUME NEW i \in NewIds
  PROVE  /\ i \in Ids /\ i # here
         /\ \A u \in Uploaders : up[u].at # "idle" => i # up[u].id /\ i # up[u].src
  BY DEF NewIds, Least, Active

LEMMA NewStampFacts ==
  ASSUME NEW s \in NewStamps
  PROVE  /\ s \in Stamps /\ s # Local.stamp /\ s # row.stamp
         /\ \A u \in Uploaders : up[u].at # "idle" => s # up[u].stamp
         /\ down.at = "row" => s # down.stamp
         /\ sessions[s] = NoSession /\ \A l \in landing : s # l.stamp
  BY DEF NewStamps, Least, Active

LEMMA NewEtagFacts ==
  ASSUME NEW e \in NewEtags
  PROVE  /\ e \in Etags \ {0} /\ e # remote.etag /\ e # row.etag /\ e # down.etag
         /\ \A u \in Uploaders : up[u].at # "idle" => e # up[u].pre /\ e # up[u].etag
  BY DEF NewEtags, Least, Active, Etags

\* A session of all chunks and nothing more is assembled as it is.
LEMMA AssembledAll ==
  ASSUME NEW s \in Stamps, sessions[s][Parts + 1] = Missing,
         \A i \in Pieces : sessions[s][i] # Missing
  PROVE  Assembled(s) = [i \in Pieces |-> sessions[s][i]]
<1> DEFINE there  == {i \in 1 .. Parts + 1 : sessions[s][i] # Missing}
           upto(k) == {j \in there : j <= k}
           nth(k) == CHOOSE i \in there : Cardinality(upto(i)) = k
<1>0. \A k \in Nat : Cardinality(1 .. k) = k
  BY FS_Interval
<1>1. there = 1 .. Parts
  BY Sizes
<1>2. \A k \in Pieces : upto(k) = 1 .. k
  BY <1>1, Sizes
<1>5. Assembled(s) = [k \in 1 .. Cardinality(there) |-> sessions[s][nth(k)]]
  BY DEF Assembled
<1> HIDE DEF upto, there
<1>3. \A k \in Pieces : Cardinality(upto(k)) = k
  BY <1>0, <1>2, Sizes
<1>4. Cardinality(there) = Parts
  BY <1>0, <1>1, Sizes
<1>6. ASSUME NEW k \in Pieces
      PROVE  nth(k) = k
  <2>1. k \in there /\ Cardinality(upto(k)) = k
    BY <1>1, <1>3, Sizes
  <2>2. nth(k) \in there /\ Cardinality(upto(nth(k))) = k
    BY <2>1
  <2> QED
    BY <2>2, <1>1, <1>3, Sizes
<1> HIDE DEF nth
<1> QED
  BY <1>4, <1>5, <1>6, Sizes

-----------------------------------------------------------------------------
(* Who changes what *)

LEMMA LocalBy ==
  ASSUME Next
  PROVE  \/ UNCHANGED << disk, here, had, unseen >>
         \/ InPlace \/ Unseen \/ Replace \/ Commit
<1> USE DEF local, net, fixed, seen, UpKeeps, DownKeeps
<1>1. World => UNCHANGED << disk, here, had, unseen >> \/ InPlace \/ Unseen \/ Replace
  BY DEF World, Opens, Closes, Theirs, Leftover, Collect
<1>2. ASSUME NEW u \in Uploaders, Begin(u) \/ UploadStep(u)
      PROVE  UNCHANGED << disk, here, had, unseen >>
  BY <1>2 DEF Begin, UploadStep, Hash, Check, Put, Create, Skip, StartChunk, EndChunk, Compare,
     Prune, MoveTaken, MovePoisoned, MoveFails, Poll, Confirm, Record
<1>3. DownBegins \/ DownStep => UNCHANGED << disk, here, had, unseen >> \/ Commit
  BY DEF DownBegins, DownStep, Get, GetRefused, Receive, Verify, DownRecord
<1>4. Crash \/ Rests => UNCHANGED << disk, here, had, unseen >>
  BY DEF Crash, Rests, vars
<1>5. Landing => UNCHANGED << disk, here, had, unseen >>
  BY DEF Landing, Land
<1> QED
  BY <1>1, <1>2, <1>3, <1>4, <1>5 DEF Next, Ours

LEMMA NetBy ==
  ASSUME Next
  PROVE  \/ UNCHANGED << remote, sessions, landing, served, spoiled >>
         \/ Theirs \/ Leftover \/ (\E s \in Stamps : Collect(s)) \/ Landing
         \/ \E u \in Uploaders : \/ Put(u) \/ Create(u) \/ StartChunk(u) \/ EndChunk(u) \/ Compare(u)
                                 \/ Prune(u) \/ MoveTaken(u) \/ MovePoisoned(u)
<1> USE DEF local, net, fixed, seen, UpKeeps, DownKeeps
<1>1. World => \/ UNCHANGED << remote, sessions, landing, served, spoiled >>
               \/ Theirs \/ Leftover \/ \E s \in Stamps : Collect(s)
  BY DEF World, Opens, Closes, InPlace, Unseen, WriteInto, Replace
<1>2. ASSUME NEW u \in Uploaders, Begin(u) \/ UploadStep(u)
      PROVE  \/ UNCHANGED << remote, sessions, landing, served, spoiled >>
             \/ Put(u) \/ Create(u) \/ StartChunk(u) \/ EndChunk(u) \/ Compare(u)
             \/ Prune(u) \/ MoveTaken(u) \/ MovePoisoned(u)
  BY <1>2 DEF Begin, UploadStep, Hash, Check, Skip, MoveFails, Poll, Confirm, Record
<1>3. DownBegins \/ DownStep => UNCHANGED << remote, sessions, landing, served, spoiled >>
  BY DEF DownBegins, DownStep, Get, GetRefused, Receive, Verify, DownRecord, Commit
<1>4. Crash \/ Rests => UNCHANGED << remote, sessions, landing, served, spoiled >>
  BY DEF Crash, Rests, vars
<1> QED
  BY <1>1, <1>2, <1>3, <1>4 DEF Next, Ours

LEMMA UpBy ==
  ASSUME Next
  PROVE  \/ up' = up \/ Crash \/ Theirs \/ Landing
         \/ \E u \in Uploaders : Begin(u) \/ UploadStep(u)
<1> USE DEF local, net, fixed, seen, UpKeeps, DownKeeps
<1>1. World => up' = up \/ Theirs
  BY DEF World, Opens, Closes, InPlace, Unseen, WriteInto, Replace, Leftover, Collect
<1>2. DownBegins \/ DownStep => up' = up
  BY DEF DownBegins, DownStep, Get, GetRefused, Receive, Verify, DownRecord, Commit
<1>3. Rests => up' = up
  BY DEF Rests, vars
<1> QED
  BY <1>1, <1>2, <1>3 DEF Next, Ours

LEMMA DownBy ==
  ASSUME Next
  PROVE  UNCHANGED << down, part >> \/ Crash \/ DownBegins \/ DownStep
<1> USE DEF local, net, fixed, seen, UpKeeps, DownKeeps
<1>1. World => UNCHANGED << down, part >>
  BY DEF World, Opens, Closes, InPlace, Unseen, WriteInto, Replace, Leftover, Collect, Theirs
<1>2. ASSUME NEW u \in Uploaders, Begin(u) \/ UploadStep(u)
      PROVE  UNCHANGED << down, part >>
  BY <1>2 DEF Begin, UploadStep, Hash, Check, Put, Create, Skip, StartChunk, EndChunk, Compare,
     Prune, MoveTaken, MovePoisoned, MoveFails, Poll, Confirm, Record
<1>3. Rests \/ Landing => UNCHANGED << down, part >>
  BY DEF Rests, vars, Landing, Land
<1> QED
  BY <1>1, <1>2, <1>3 DEF Next, Ours

LEMMA RowBy ==
  ASSUME Next
  PROVE  row' = row \/ DownRecord \/ \E u \in Uploaders : Record(u)
<1> USE DEF local, net, fixed, seen, UpKeeps, DownKeeps
<1>1. World => row' = row
  BY DEF World, Opens, Closes, InPlace, Unseen, WriteInto, Replace, Leftover, Collect, Theirs
<1>2. ASSUME NEW u \in Uploaders, Begin(u) \/ UploadStep(u)
      PROVE  row' = row \/ Record(u)
  BY <1>2 DEF Begin, UploadStep, Hash, Check, Put, Create, Skip, StartChunk, EndChunk, Compare,
     Prune, MoveTaken, MovePoisoned, MoveFails, Poll, Confirm
<1>3. DownBegins \/ DownStep => row' = row \/ DownRecord
  BY DEF DownBegins, DownStep, Get, GetRefused, Receive, Verify, Commit
<1>4. Crash \/ Rests \/ Landing => row' = row
  BY DEF Rests, vars, Landing, Land, Crash
<1> QED
  BY <1>1, <1>2, <1>3, <1>4 DEF Next, Ours

\* The rest: what is fixed for a behaviour, and the flags.
LEMMA RestKeeps ==
  ASSUME Next, TypeOK
  PROVE  /\ UNCHANGED << can, size, server, calm >>
         /\ open' \in BOOLEAN /\ written' \in Writes /\ busy' \in BOOLEAN
         /\ unseen' \in BOOLEAN /\ spoiled' \in BOOLEAN
<1> USE DEF local, net, fixed, seen, UpKeeps, DownKeeps, TypeOK
<1>0. written < can.max => written + 1 \in Writes
  BY TransferAssumption DEF Writes, Case
<1>1. World => /\ UNCHANGED << can, size, server, calm >>
               /\ open' \in BOOLEAN /\ written' \in Writes /\ busy' \in BOOLEAN
               /\ unseen' \in BOOLEAN /\ spoiled' \in BOOLEAN
  BY <1>0 DEF World, Opens, Closes, InPlace, Unseen, WriteInto, Replace, Leftover, Collect, Theirs, Write
<1>2. ASSUME NEW u \in Uploaders, Begin(u) \/ UploadStep(u)
      PROVE  /\ UNCHANGED << can, size, server, calm, open, written, unseen >>
             /\ busy' \in BOOLEAN /\ spoiled' \in BOOLEAN
  BY <1>2 DEF Begin, UploadStep, Hash, Check, Put, Create, Skip, StartChunk, EndChunk, Compare,
     Prune, MoveTaken, MovePoisoned, MoveFails, Poll, Confirm, Record, End, Fail
<1>3. DownBegins \/ DownStep => /\ UNCHANGED << can, size, server, calm, written, unseen, busy, spoiled >>
                                /\ open' \in BOOLEAN
  BY DEF DownBegins, DownStep, Get, GetRefused, Receive, Verify, Commit, DownRecord
<1>4. Crash \/ Rests \/ Landing => /\ UNCHANGED << can, size, server, calm, open, written, unseen, spoiled >>
                                   /\ busy' \in BOOLEAN
  BY DEF Rests, vars, Landing, Land, Crash
<1> QED
  BY <1>1, <1>2, <1>3, <1>4 DEF Next, Ours

-----------------------------------------------------------------------------
(* Types *)

LEMMA WriteFacts ==
  ASSUME TypeOK, Write
  PROVE  written' \in Writes
  BY TransferAssumption DEF Write, Writes, TypeOK, Case

\* A write: what it does to the file, whoever chose the stamp.
LEMMA WriteIntoFacts ==
  ASSUME TypeOK, NEW I \in Parcels, NEW s \in Stamps, WriteInto(I, s)
  PROVE  /\ disk' \in [Ids -> File] /\ here' = here /\ had' \subseteq Content
         /\ disk'[here].stamp = s /\ disk'[here].whole /\ disk'[here].data \in had'
         /\ disk'[here].unseen <=> Local.unseen \/ s = Local.stamp
         /\ had \subseteq had' /\ (unseen' <=> unseen \/ s = Local.stamp)
<1> DEFINE d == [i \in Pieces |-> IF i \in I THEN written' ELSE Local.data[i]]
           x == Local.unseen \/ s = Local.stamp
           r == [data |-> d, stamp |-> s, whole |-> TRUE, unseen |-> x]
<1>1. written' \in Writes
  BY WriteFacts DEF WriteInto
<1>2. Local \in File /\ here \in Ids
  BY DEF TypeOK, Local
<1>3. d \in Content /\ x \in BOOLEAN
  BY <1>1, <1>2 DEF Content, File
<1>4. disk' = [disk EXCEPT ![here] = r] /\ here' = here /\ had' = had \cup {disk'[here].data}
      /\ unseen' = (unseen \/ s = Local.stamp)
  BY DEF WriteInto
<1>5. x <=> Local.unseen \/ s = Local.stamp
  OBVIOUS
<1> HIDE DEF d, x
<1>6. r \in File
  BY <1>3 DEF File
<1>7. disk' \in [Ids -> File] /\ disk'[here] = r
  BY <1>2, <1>4, <1>6 DEF TypeOK
<1>8. disk'[here].data = d /\ disk'[here].stamp = s /\ disk'[here].whole /\ disk'[here].unseen = x
  BY <1>7
<1>9. had' \subseteq Content /\ had \subseteq had' /\ disk'[here].data \in had'
  BY <1>3, <1>4, <1>8 DEF TypeOK
<1> QED
  BY <1>4, <1>5, <1>7, <1>8, <1>9

\* A file put under the name.
LEMMA ReplaceFacts ==
  ASSUME TypeOK, Replace
  PROVE  \E i \in NewIds, s \in NewStamps, w \in Writes :
           /\ disk' = [disk EXCEPT ![i] = [data |-> Const(w), stamp |-> s,
                                           whole |-> TRUE, unseen |-> FALSE]]
           /\ here' = i /\ had' = had \cup {Const(w)} /\ w = written' /\ unseen' = unseen
<1>1. written' \in Writes
  BY WriteFacts DEF Replace
<1> QED
  BY <1>1 DEF Replace

LEMMA CommitFacts ==
  ASSUME Commit
  PROVE  \/ UNCHANGED << disk, here, had, unseen >> /\ down' = NoDownload /\ part' = part
         \/ \E i \in NewIds, s \in NewStamps :
              LET w == part \in served \/ (down.sum = NoSum /\ down.resumed) IN
              /\ disk' = [disk EXCEPT ![i] = [data |-> part, stamp |-> s, unseen |-> FALSE, whole |-> w]]
              /\ here' = i /\ had' = had \cup {part} /\ part' = << >> /\ unseen' = unseen
              /\ down' = [down EXCEPT !.at = "row", !.stamp = s]
  BY DEF Commit

\* Of the new file: the record under the name.
LEMMA NewFile ==
  ASSUME TypeOK, NEW i \in NewIds, NEW s \in NewStamps, NEW c \in Content, NEW w \in BOOLEAN,
         disk' = [disk EXCEPT ![i] = [data |-> c, stamp |-> s, unseen |-> FALSE, whole |-> w]],
         here' = i
  PROVE  /\ disk' \in [Ids -> File] /\ here' \in Ids
         /\ disk'[here'] = [data |-> c, stamp |-> s, unseen |-> FALSE, whole |-> w]
<1>1. [data |-> c, stamp |-> s, unseen |-> FALSE, whole |-> w] \in File
  BY NewStampFacts DEF File
<1> QED
  BY <1>1, NewIdFacts DEF TypeOK

LEMMA LocalType ==
  ASSUME TypeOK, DownOK, Next
  PROVE  disk' \in [Ids -> File] /\ here' \in Ids /\ had' \subseteq Content
<1>0. CASE UNCHANGED << disk, here, had, unseen >>
  BY <1>0 DEF TypeOK
<1>1. CASE InPlace
  BY <1>1, WriteIntoFacts, NewStampFacts DEF InPlace, TypeOK
<1>2. CASE Unseen
  BY <1>2, WriteIntoFacts DEF Unseen, TypeOK, Local, File
<1>3. CASE Replace
  <2>1. PICK i \in NewIds, s \in NewStamps, w \in Writes :
           /\ disk' = [disk EXCEPT ![i] = [data |-> Const(w), stamp |-> s,
                                           whole |-> TRUE, unseen |-> FALSE]]
           /\ here' = i /\ had' = had \cup {Const(w)}
    BY <1>3, ReplaceFacts
  <2> QED
    BY <2>1, NewFile, Consts DEF TypeOK
<1>4. CASE Commit
  <2>1. part \in Content
    BY <1>4, WholeIsContent DEF Commit, DownOK, TypeOK
  <2> DEFINE whole == part \in served \/ (down.sum = NoSum /\ down.resumed)
  <2>2. whole \in BOOLEAN
    OBVIOUS
  <2>3. \/ UNCHANGED << disk, here, had >>
        \/ \E i \in NewIds, s \in NewStamps :
             /\ disk' = [disk EXCEPT ![i] = [data |-> part, stamp |-> s, unseen |-> FALSE, whole |-> whole]]
             /\ here' = i /\ had' = had \cup {part}
    BY <1>4, CommitFacts
  <2> HIDE DEF whole
  <2> QED
    BY <2>1, <2>2, <2>3, NewFile DEF TypeOK
<1> QED
  BY <1>0, <1>1, <1>2, <1>3, <1>4, LocalBy

LEMMA UploadTypes ==
  ASSUME TypeOK, NEW u \in Uploaders
  PROVE  /\ up[u] \in Upload /\ Len(up[u].read) <= Parts /\ up[u].read \in Seq(Writes)
         /\ up[u].at \in Steps /\ up[u].id \in Ids /\ up[u].stamp \in Stamps /\ up[u].src \in Ids
         /\ up[u].sum \in Content \cup {NoSum} /\ up[u].have \subseteq Pieces
         /\ up[u].pre \in Etags \cup {-1} /\ up[u].etag \in Etags /\ up[u].since \subseteq Outside
         /\ disk[up[u].src].data \in Content /\ disk[up[u].src].stamp \in Stamps
         /\ sessions[up[u].stamp] \in Session \cup {NoSession}
<1>1. up[u] \in Upload /\ Len(up[u].read) <= Parts
  BY DEF TypeOK
<1>2. /\ up[u].read \in Seq(Writes)
      /\ up[u].at \in Steps /\ up[u].id \in Ids /\ up[u].stamp \in Stamps /\ up[u].src \in Ids
      /\ up[u].sum \in Content \cup {NoSum} /\ up[u].have \subseteq Pieces
      /\ up[u].pre \in Etags \cup {-1} /\ up[u].etag \in Etags /\ up[u].since \subseteq Outside
  BY <1>1 DEF Upload
<1> QED
  BY <1>1, <1>2 DEF TypeOK, File

LEMMA StoredType ==
  ASSUME TypeOK, NEW d \in Content, NEW s \in Content, NEW e \in NewEtags
  PROVE  /\ Stored(d, s, e) \in OnServer
         /\ Stored(d, s, e).data = d /\ Stored(d, s, e).etag = e /\ Stored(d, s, e).ours
         /\ (server = "verifies" => d = s) => Stored(d, s, e).sum \in {NoSum, d}
<1> DEFINE m == IF server = "silent" THEN NoSum ELSE IF server = "computes" THEN d ELSE s
<1>1. e \in Etags \ {0} /\ m \in Content \cup {NoSum}
  BY NewEtagFacts
<1>2. (server = "verifies" => d = s) => m \in {NoSum, d}
  BY TransferAssumption DEF TypeOK, Case, Server
<1>3. Stored(d, s, e) = [data |-> d, etag |-> e, ours |-> TRUE, sum |-> m]
  BY DEF Stored
<1> HIDE DEF m
<1> QED
  BY <1>1, <1>2, <1>3 DEF OnServer

\* An assembly: all the chunks, one after the other.
LEMMA AssembledFacts ==
  ASSUME TypeOK, NEW u \in Uploaders, SessionOK(u), SumOK(u),
         up[u].at \in {"move", "poll"}, sessions[up[u].stamp] # NoSession
  PROVE  /\ Assembled(up[u].stamp) \in Content
         /\ \A i \in Pieces : Assembled(up[u].stamp)[i] = sessions[up[u].stamp][i]
         /\ ~unseen => Assembled(up[u].stamp) = up[u].sum
<1> DEFINE s == up[u].stamp
<1>1. s \in Stamps /\ sessions[s] \in Session
  BY UploadTypes
<1>2. sessions[s][Parts + 1] = Missing /\ \A i \in Pieces : Good(s, i)
  BY DEF SessionOK
<1>3. Assembled(s) = [i \in Pieces |-> sessions[s][i]]
  BY <1>1, <1>2, AssembledAll DEF Good
<1>4. \A i \in Pieces : sessions[s][i] \in Writes
  BY <1>1, <1>2, Sizes DEF Session, Chunk, Good
<1>5. Assembled(s) \in Content
  BY <1>3, <1>4 DEF Content
<1>6. ASSUME ~unseen PROVE Assembled(s) = up[u].sum
  <2>1. up[u].sum \in Content
    BY DEF SumOK, Hashed
  <2>2. \A i \in Pieces : sessions[s][i] = up[u].sum[i]
    BY <1>6 DEF SessionOK
  <2> QED
    BY <1>3, <2>1, <2>2 DEF Content
<1> QED
  BY <1>3, <1>5, <1>6

LEMMA OneSession ==
  ASSUME TypeOK, NEW s \in Stamps, NEW x \in Session \cup {NoSession}
  PROVE  [sessions EXCEPT ![s] = x] \in [Stamps -> Session \cup {NoSession}]
  BY DEF TypeOK

LEMMA OneChunk ==
  ASSUME TypeOK, NEW s \in Stamps, sessions[s] # NoSession, NEW i \in Pieces, NEW c \in Chunk
  PROVE  /\ [sessions EXCEPT ![s][i] = c] \in [Stamps -> Session \cup {NoSession}]
         /\ [sessions EXCEPT ![s][i] = c][s][i] = c
         /\ \A j \in 1 .. Parts + 1 : j # i => [sessions EXCEPT ![s][i] = c][s][j] = sessions[s][j]
         /\ \A t \in Stamps : t # s => [sessions EXCEPT ![s][i] = c][t] = sessions[t]
         /\ [sessions EXCEPT ![s][i] = c][s] # NoSession
<1>1. sessions[s] \in Session /\ i \in 1 .. Parts + 1
  BY Sizes DEF TypeOK
<1> DEFINE r == [sessions[s] EXCEPT ![i] = c]
<1>2. r \in Session /\ r[i] = c /\ \A j \in 1 .. Parts + 1 : j # i => r[j] = sessions[s][j]
  BY <1>1 DEF Session
<1>3. [sessions EXCEPT ![s][i] = c] = [sessions EXCEPT ![s] = r]
  BY DEF TypeOK
<1>4. r # NoSession
  <2>1. Parts + 1 \in DOMAIN r
    BY <1>1, Sizes DEF Session
  <2> QED
    BY <2>1, Sizes DEF NoSession
<1> HIDE DEF r
<1> QED
  BY <1>2, <1>3, <1>4 DEF TypeOK

\* What an upload does to the session.
LEMMA DropsFacts ==
  ASSUME TypeOK, NEW u \in Uploaders, Drops(u)
  PROVE  /\ sessions' \in [Stamps -> Session \cup {NoSession}]
         /\ \A t \in Stamps : sessions'[t] \in {sessions[t], NoSession}
<1>1. up[u].stamp \in Stamps
  BY UploadTypes
<1> QED
  BY <1>1 DEF Drops, SessionOf, TypeOK

LEMMA CreateFacts ==
  ASSUME TypeOK, NEW u \in Uploaders, Create(u)
  PROVE  /\ sessions' \in [Stamps -> Session \cup {NoSession}]
         /\ UNCHANGED << remote, landing, served, spoiled >>
         /\ \A t \in Stamps : \/ sessions'[t] = sessions[t]
                              \/ t = up[u].stamp /\ sessions[t] = NoSession /\ sessions'[t] = EmptySession
<1>1. up[u].stamp \in Stamps
  BY UploadTypes
<1>2. EmptySession \in Session
  BY DEF EmptySession, Session, Chunk
<1> QED
  BY <1>1, <1>2 DEF Create, SessionOf, TypeOK, seen

LEMMA StartChunkFacts ==
  ASSUME TypeOK, NEW u \in Uploaders, SessionOK(u), StartChunk(u)
  PROVE  /\ up[u].at = "send" /\ Turn(u) \in Pieces /\ Turn(u) \notin up[u].have
         /\ sessions' \in [Stamps -> Session \cup {NoSession}]
         /\ UNCHANGED << remote, landing, served, spoiled >>
         /\ \/ sessions[up[u].stamp] = NoSession /\ sessions' = sessions /\ Fail(u)
            \/ /\ sessions[up[u].stamp] # NoSession
               /\ sessions' = [sessions EXCEPT ![up[u].stamp][Turn(u)] = Short] /\ Go(u, "sending")
<1>1. up[u].stamp \in Stamps /\ Short \in Chunk
  BY UploadTypes DEF Chunk
<1>2. up[u].at = "send" /\ Len(up[u].read) < Parts
  BY DEF StartChunk, SessionOK
<1>3. Turn(u) \in Pieces
  BY <1>2, UploadTypes, Sizes DEF Turn
<1> QED
  BY <1>1, <1>2, <1>3, OneChunk DEF StartChunk, SessionOf, TypeOK, seen

LEMMA EndChunkFacts ==
  ASSUME TypeOK, NEW u \in Uploaders, SessionOK(u), EndChunk(u)
  PROVE  /\ up[u].at = "sending" /\ Turn(u) \in Pieces /\ Len(up[u].read) < Parts
         /\ Turn(u) \notin up[u].have
         /\ disk[up[u].src].data[Turn(u)] \in Writes
         /\ sessions' \in [Stamps -> Session \cup {NoSession}]
         /\ UNCHANGED << remote, landing, served, spoiled >>
         /\ \/ /\ sessions[up[u].stamp] # NoSession
               /\ sessions' = [sessions EXCEPT ![up[u].stamp][Turn(u)] = disk[up[u].src].data[Turn(u)]]
               /\ \/ Alter(u, [up[u] EXCEPT !.read = Read(u), !.at = AfterRead(u)])
                  \/ Fail(u) \/ Go(u, "send")
            \/ sessions' = sessions /\ (Fail(u) \/ Go(u, "send"))
<1>1. up[u].stamp \in Stamps /\ disk[up[u].src].data \in Content
  BY UploadTypes
<1>2. up[u].at = "sending" /\ Len(up[u].read) < Parts /\ Turn(u) \notin up[u].have
  BY DEF EndChunk, SessionOK, Turn
<1>3. Turn(u) \in Pieces
  BY <1>2, UploadTypes, Sizes DEF Turn
<1>4. disk[up[u].src].data[Turn(u)] \in Writes
  BY <1>1, <1>3 DEF Content
<1>5. UNCHANGED << remote, landing, served, spoiled >>
  BY DEF EndChunk, seen
<1>6. CASE /\ sessions[up[u].stamp] # NoSession
           /\ sessions' = [sessions EXCEPT ![up[u].stamp][Turn(u)] = disk[up[u].src].data[Turn(u)]]
           /\ \/ Alter(u, [up[u] EXCEPT !.read = Read(u), !.at = AfterRead(u)])
              \/ Fail(u) \/ Go(u, "send")
  <2>1. disk[up[u].src].data[Turn(u)] \in Chunk
    BY <1>4 DEF Chunk
  <2> QED
    BY <1>1, <1>2, <1>3, <1>4, <1>5, <1>6, <2>1, OneChunk
<1>7. CASE sessions' = sessions /\ (Fail(u) \/ Go(u, "send"))
  BY <1>1, <1>2, <1>3, <1>4, <1>5, <1>7 DEF TypeOK
<1> QED
  BY <1>6, <1>7 DEF EndChunk, SessionOf

LEMMA PruneFacts ==
  ASSUME TypeOK, NEW u \in Uploaders, Prune(u)
  PROVE  /\ up[u].at = "compare" /\ Agrees(u)
         /\ sessions' \in [Stamps -> Session \cup {NoSession}]
         /\ UNCHANGED << remote, landing, served, spoiled >>
         /\ \A t \in Stamps : t # up[u].stamp => sessions'[t] = sessions[t]
         /\ \/ sessions' = sessions /\ Fail(u)
            \/ /\ sessions'[up[u].stamp] = Pruned(sessions[up[u].stamp])
               /\ \E p \in {remote.etag, -1} : Alter(u, [up[u] EXCEPT !.pre = p, !.at = "move"])
         /\ sessions[up[u].stamp] = NoSession <=> sessions'[up[u].stamp] = NoSession
         /\ \A t \in Stamps, i \in Pieces : sessions[t] # NoSession => sessions'[t][i] = sessions[t][i]
<1>1. up[u].stamp \in Stamps /\ sessions[up[u].stamp] \in Session \cup {NoSession}
  BY UploadTypes
<1>2. /\ Pruned(sessions[up[u].stamp]) \in Session \cup {NoSession}
      /\ Pruned(sessions[up[u].stamp]) = NoSession <=> sessions[up[u].stamp] = NoSession
      /\ sessions[up[u].stamp] # NoSession =>
           \A i \in Pieces : Pruned(sessions[up[u].stamp])[i] = sessions[up[u].stamp][i]
  <2>1. CASE sessions[up[u].stamp] = NoSession
    BY <2>1 DEF Pruned
  <2>2. CASE sessions[up[u].stamp] # NoSession
    <3> DEFINE r == [sessions[up[u].stamp] EXCEPT ![Parts + 1] = Missing]
    <3>1. r \in Session /\ \A i \in Pieces : r[i] = sessions[up[u].stamp][i]
      BY <1>1, <2>2, Sizes DEF Session, Chunk
    <3>2. r # NoSession
      <4>1. Parts + 1 \in DOMAIN r
        BY <3>1, Sizes DEF Session
      <4> QED
        BY <4>1, Sizes DEF NoSession
    <3>3. Pruned(sessions[up[u].stamp]) = r
      BY <2>2 DEF Pruned
    <3> QED
      BY <2>2, <3>1, <3>2, <3>3
  <2> QED
    BY <2>1, <2>2
<1>3. UNCHANGED << remote, landing, served, spoiled >> /\ up[u].at = "compare" /\ Agrees(u)
  BY DEF Prune, seen
<1>4. CASE sessions' = sessions /\ Fail(u)
  BY <1>1, <1>3, <1>4 DEF TypeOK
<1>5. CASE /\ sessions' = [sessions EXCEPT ![up[u].stamp] = Pruned(sessions[up[u].stamp])]
           /\ \E p \in {remote.etag, -1} : Alter(u, [up[u] EXCEPT !.pre = p, !.at = "move"])
  <2>1. /\ sessions' \in [Stamps -> Session \cup {NoSession}]
        /\ sessions'[up[u].stamp] = Pruned(sessions[up[u].stamp])
        /\ \A t \in Stamps : t # up[u].stamp => sessions'[t] = sessions[t]
    BY <1>1, <1>2, <1>5 DEF TypeOK
  <2> QED
    BY <1>1, <1>2, <1>3, <1>5, <2>1
<1> QED
  BY <1>4, <1>5 DEF Prune, SessionOf

LEMMA MoveTakenFacts ==
  ASSUME TypeOK, NEW u \in Uploaders, UploadOK, MoveTaken(u)
  PROVE  LET s == up[u].stamp
             d == Assembled(s)
         IN  /\ up[u].at = "move" /\ s \in Stamps /\ sessions[s] # NoSession
             /\ d \in Content /\ up[u].sum \in Content
             /\ server = "verifies" => d = up[u].sum
             /\ \A i \in Pieces : d[i] = sessions[s][i]
             /\ ~unseen => d = up[u].sum
             /\ spoiled' = spoiled
             /\ \/ \E e \in NewEtags :
                     /\ remote' = Stored(d, up[u].sum, e) /\ served' = served \cup {d}
                     /\ sessions' = [sessions EXCEPT ![s] = NoSession] /\ landing' = landing
                     /\ \/ \E x \in {e, 0} : Alter(u, [up[u] EXCEPT !.etag = x, !.at = "confirm"])
                        \/ Go(u, "poll")
                \/ /\ landing' = landing \cup {[stamp |-> s, data |-> d, sum |-> up[u].sum]}
                   /\ UNCHANGED << remote, sessions, served >> /\ Go(u, "poll")
<1>1. up[u].at = "move" /\ sessions[up[u].stamp] # NoSession /\ Accepts(u) /\ spoiled' = spoiled
  BY DEF MoveTaken, SessionOf
<1>2. SessionOK(u) /\ SumOK(u)
  BY DEF UploadOK
<1>3. /\ Assembled(up[u].stamp) \in Content /\ up[u].sum \in Content /\ up[u].stamp \in Stamps
      /\ \A i \in Pieces : Assembled(up[u].stamp)[i] = sessions[up[u].stamp][i]
      /\ ~unseen => Assembled(up[u].stamp) = up[u].sum
  BY <1>1, <1>2, AssembledFacts, UploadTypes DEF SumOK, Hashed
<1>4. server = "verifies" => Assembled(up[u].stamp) = up[u].sum
  BY <1>1 DEF Accepts, SessionOf
<1>5. \/ \E e \in NewEtags :
           /\ remote' = Stored(Assembled(up[u].stamp), up[u].sum, e)
           /\ served' = served \cup {Assembled(up[u].stamp)}
           /\ sessions' = [sessions EXCEPT ![up[u].stamp] = NoSession] /\ landing' = landing
           /\ \/ \E x \in {e, 0} : Alter(u, [up[u] EXCEPT !.etag = x, !.at = "confirm"])
              \/ Go(u, "poll")
      \/ /\ landing' = landing \cup {[stamp |-> up[u].stamp, data |-> Assembled(up[u].stamp),
                                      sum |-> up[u].sum]}
         /\ UNCHANGED << remote, sessions, served >> /\ Go(u, "poll")
  BY DEF MoveTaken, SessionOf
<1> QED
  BY <1>1, <1>3, <1>4, <1>5

LEMMA NetType ==
  ASSUME TypeOK, UploadOK, Next
  PROVE  /\ remote' \in OnServer /\ sessions' \in [Stamps -> Session \cup {NoSession}]
         /\ landing' \subseteq Assembly /\ served' \subseteq Content
<1> DEFINE Goal == /\ remote' \in OnServer /\ sessions' \in [Stamps -> Session \cup {NoSession}]
                   /\ landing' \subseteq Assembly /\ served' \subseteq Content
<1>1. CASE UNCHANGED << remote, sessions, landing, served, spoiled >>
  BY <1>1 DEF TypeOK
<1>2. CASE Theirs
  <2>1. PICK s \in {NoSum, Const(written')}, e \in NewEtags :
          remote' = [data |-> Const(written'), etag |-> e, sum |-> s, ours |-> FALSE]
    BY <1>2 DEF Theirs
  <2>2. Const(written') \in Content
    BY <1>2, WriteFacts, Consts DEF Theirs
  <2>3. remote' \in OnServer
    BY <2>1, <2>2, NewEtagFacts DEF OnServer
  <2> QED
    BY <1>2, <2>2, <2>3 DEF Theirs, TypeOK
<1>3. CASE Leftover
  <2>1. PICK last \in {Missing, 0} :
          sessions' = [sessions EXCEPT ![Local.stamp] =
                        [i \in 1 .. Parts + 1 |-> IF i = Parts + 1 THEN last ELSE Short]]
    BY <1>3 DEF Leftover
  <2>2. Local.stamp \in Stamps
    BY DEF TypeOK, Local, File
  <2>3. [i \in 1 .. Parts + 1 |-> IF i = Parts + 1 THEN last ELSE Short] \in Session
    BY Consts DEF Session, Chunk
  <2> QED
    BY <1>3, <2>1, <2>2, <2>3 DEF Leftover, TypeOK, seen
<1>4. CASE \E s \in Stamps : Collect(s)
  BY <1>4 DEF Collect, TypeOK, seen
<1>5. CASE Landing
  <2>1. PICK l \in landing : Land(l)
    BY <1>5 DEF Landing
  <2>2. l.data \in Content /\ l.sum \in Content /\ l.stamp \in Stamps
    BY <2>1 DEF TypeOK, Assembly
  <2>3. remote' \in OnServer
    BY <2>1, <2>2, StoredType DEF Land
  <2> QED
    BY <2>1, <2>2, <2>3 DEF Land, TypeOK
<1>6. ASSUME NEW u \in Uploaders, Put(u)
      PROVE  Goal
  <2>1. up[u].sum \in Content
    BY <1>6 DEF Put, UploadOK, SumOK, Hashed
  <2>2. remote' \in OnServer /\ served' \subseteq Content
    <3>1. \/ remote' = remote /\ served' = served
          \/ \E e \in NewEtags : /\ remote' = Stored(up[u].sum, up[u].sum, e)
                                 /\ served' = served \cup {up[u].sum}
      BY <1>6 DEF Put
    <3> QED
      BY <2>1, <3>1, StoredType DEF TypeOK
  <2> QED
    BY <1>6, <2>2 DEF Put, TypeOK
<1>7. ASSUME NEW u \in Uploaders, Create(u)
      PROVE  Goal
  BY <1>7, CreateFacts DEF TypeOK
<1>8. ASSUME NEW u \in Uploaders, StartChunk(u)
      PROVE  Goal
  BY <1>8, StartChunkFacts DEF TypeOK, UploadOK
<1>9. ASSUME NEW u \in Uploaders, EndChunk(u)
      PROVE  Goal
  BY <1>9, EndChunkFacts DEF TypeOK, UploadOK
<1>10. ASSUME NEW u \in Uploaders, Compare(u)
       PROVE  Goal
  BY <1>10, DropsFacts DEF TypeOK, Compare, seen
<1>11. ASSUME NEW u \in Uploaders, Prune(u)
       PROVE  Goal
  BY <1>11, PruneFacts DEF TypeOK
<1>12. ASSUME NEW u \in Uploaders, MoveTaken(u)
       PROVE  Goal
  <2> DEFINE s == up[u].stamp
             d == Assembled(s)
             l == [stamp |-> s, data |-> d, sum |-> up[u].sum]
  <2>1. s \in Stamps /\ d \in Content /\ up[u].sum \in Content
    BY <1>12, MoveTakenFacts
  <2>2. \/ \E e \in NewEtags :
             /\ remote' = Stored(d, up[u].sum, e) /\ served' = served \cup {d}
             /\ sessions' = [sessions EXCEPT ![s] = NoSession] /\ landing' = landing
        \/ landing' = landing \cup {l} /\ UNCHANGED << remote, sessions, served >>
    BY <1>12, MoveTakenFacts
  <2>3. l \in Assembly
    BY <2>1 DEF Assembly
  <2> HIDE DEF s, d, l
  <2> QED
    BY <2>1, <2>2, <2>3, StoredType DEF TypeOK
<1>13. ASSUME NEW u \in Uploaders, MovePoisoned(u)
       PROVE  Goal
  BY <1>13, DropsFacts DEF TypeOK, MovePoisoned
<1> QED
  BY <1>1, <1>2, <1>3, <1>4, <1>5, <1>6, <1>7, <1>8, <1>9, <1>10, <1>11, <1>12, <1>13, NetBy

\* One upload's record replaced by another.
LEMMA OneUpload ==
  ASSUME TypeOK, NEW u \in Uploaders, NEW r \in Upload, Len(r.read) <= Parts, Alter(u, r)
  PROVE  /\ up' \in [Uploaders -> Upload] /\ \A v \in Uploaders : Len(up'[v].read) <= Parts
         /\ up'[u] = r /\ \A v \in Uploaders : v # u => up'[v] = up[v]
<1>1. up \in [Uploaders -> Upload] /\ \A v \in Uploaders : Len(up[v].read) <= Parts
  BY DEF TypeOK
<1>2. up' = [up EXCEPT ![u] = r]
  BY DEF Alter
<1> QED
  BY <1>1, <1>2

LEMMA IdleType == Idle \in Upload /\ Idle.read = << >> /\ Len(Idle.read) <= Parts
<1>1. Idle.read = << >> /\ Len(Idle.read) <= Parts
  BY Sizes DEF Idle
<1>2. 0 \in Etags /\ << >> \in Seq(Writes) /\ 1 \in Ids /\ 1 \in Stamps
  BY TransferAssumption, Consts DEF Etags
<1> QED
  BY <1>1, <1>2 DEF Idle, Upload, Steps, NoSum

LEMMA EndFacts ==
  ASSUME TypeOK, NEW u \in Uploaders, Alter(u, Idle)
  PROVE  /\ up' \in [Uploaders -> Upload] /\ \A v \in Uploaders : Len(up'[v].read) <= Parts
         /\ up'[u] = Idle /\ \A v \in Uploaders : v # u => up'[v] = up[v]
  BY OneUpload, IdleType

LEMMA GoFacts ==
  ASSUME TypeOK, NEW u \in Uploaders, NEW s \in Steps, Go(u, s)
  PROVE  /\ up' \in [Uploaders -> Upload] /\ \A v \in Uploaders : Len(up'[v].read) <= Parts
         /\ up'[u] = [up[u] EXCEPT !.at = s] /\ \A v \in Uploaders : v # u => up'[v] = up[v]
<1> DEFINE r == [up[u] EXCEPT !.at = s]
<1>1. r \in Upload /\ Len(r.read) <= Parts
  BY UploadTypes DEF Upload
<1>2. Alter(u, r)
  BY DEF Go
<1> HIDE DEF r
<1> QED
  BY <1>1, <1>2, OneUpload DEF r

LEMMA NoteFacts ==
  ASSUME TypeOK, NEW w \in Outside, NEW s, Note(w, s)
  PROVE  /\ up' \in [Uploaders -> Upload] /\ \A v \in Uploaders : Len(up'[v].read) <= Parts
         /\ \A v \in Uploaders : \/ up'[v] = up[v] /\ ~(Waits(v) /\ up[v].stamp # s)
                                 \/ /\ Waits(v) /\ up[v].stamp # s
                                    /\ up'[v] = [up[v] EXCEPT !.since = @ \cup {w}]
<1>1. ASSUME NEW v \in Uploaders
      PROVE  LET r == [up[v] EXCEPT !.since = @ \cup {w}] IN r \in Upload /\ Len(r.read) <= Parts
  BY <1>1, UploadTypes DEF Upload
<1>2. \A v \in Uploaders : /\ Waits(v) /\ up[v].stamp # s => up'[v] = [up[v] EXCEPT !.since = @ \cup {w}]
                           /\ ~(Waits(v) /\ up[v].stamp # s) => up'[v] = up[v]
  BY DEF Note
<1>3. DOMAIN up' = Uploaders /\ up' = [v \in Uploaders |-> up'[v]]
  BY DEF Note
<1>4. \A v \in Uploaders : up'[v] \in Upload /\ Len(up'[v].read) <= Parts
  BY <1>1, <1>2, UploadTypes
<1> QED
  BY <1>2, <1>3, <1>4

(* What each step makes of the upload's record. *)
UpTyped       == up' \in [Uploaders -> Upload] /\ \A v \in Uploaders : Len(up'[v].read) <= Parts
OthersSame(u) == \A v \in Uploaders : v # u => up'[v] = up[v]

LEMMA BeginFacts ==
  ASSUME TypeOK, NEW u \in Uploaders, Begin(u)
  PROVE  /\ UpTyped /\ OthersSame(u)
         /\ up'[u] = [Idle EXCEPT !.at = "hash", !.id = here, !.stamp = Local.stamp, !.src = here]
<1> DEFINE r == [Idle EXCEPT !.at = "hash", !.id = here, !.stamp = Local.stamp, !.src = here]
<1>1. r \in Upload /\ Len(r.read) <= Parts
  BY IdleType DEF Upload, TypeOK, Local, File, Steps
<1>2. Alter(u, r)
  BY DEF Begin
<1> HIDE DEF r
<1> QED
  BY <1>1, <1>2, OneUpload DEF r, UpTyped, OthersSame

LEMMA HashFacts ==
  ASSUME TypeOK, NEW u \in Uploaders, HashOK(u), Hash(u)
  PROVE  LET f == IF up[u].read = << >> THEN here ELSE up[u].src
             r == Append(up[u].read, disk[f].data[Len(up[u].read) + 1])
         IN  /\ UpTyped /\ OthersSame(u) /\ up[u].at = "hash" /\ Len(up[u].read) < Parts
             /\ f \in Ids /\ disk[f].data \in Content /\ r \in Seq(Writes) /\ Len(r) = Len(up[u].read) + 1
             /\ up'[u] = [up[u] EXCEPT !.src = f, !.read = r,
                                       !.at = IF Len(r) = Parts THEN "check" ELSE "hash"]
<1> DEFINE f == IF up[u].read = << >> THEN here ELSE up[u].src
           r == Append(up[u].read, disk[f].data[Len(up[u].read) + 1])
           a == IF Len(r) = Parts THEN "check" ELSE "hash"
           n == [up[u] EXCEPT !.src = f, !.read = r, !.at = a]
<1>1. up[u].at = "hash" /\ Len(up[u].read) < Parts /\ up[u].read \in Seq(Writes) /\ up[u] \in Upload
  BY UploadTypes DEF Hash, HashOK
<1>2. f \in Ids /\ disk[f].data \in Content
  BY UploadTypes DEF TypeOK, File
<1>3. Alter(u, n)
  BY DEF Hash
<1> HIDE DEF f
<1>4. r \in Seq(Writes) /\ Len(r) = Len(up[u].read) + 1 /\ Len(r) <= Parts
  BY <1>1, <1>2, ReadOn
<1>5. a \in Steps
  BY DEF Steps
<1> HIDE DEF r, a
<1>6. n \in Upload /\ n.read = r
  BY <1>1, <1>2, <1>4, <1>5 DEF Upload
<1>7. UpTyped /\ OthersSame(u) /\ up'[u] = n
  <2> HIDE DEF n
  <2> QED
    BY <1>3, <1>4, <1>6, OneUpload DEF UpTyped, OthersSame
<1> QED
  BY <1>1, <1>2, <1>4, <1>7 DEF f, r, a

LEMMA CheckFacts ==
  ASSUME TypeOK, NEW u \in Uploaders, HashOK(u), Check(u)
  PROVE  /\ UpTyped /\ OthersSame(u) /\ up[u].at = "check" /\ up[u].read \in Content
         /\ \/ up'[u] = Idle
            \/ /\ Unchanged(u)
               /\ \E a \in {"put", "create"} :
                    up'[u] = [up[u] EXCEPT !.sum = up[u].read, !.at = a, !.read = << >>]
<1>1. up[u].at = "check" /\ up[u].read \in Content /\ up[u] \in Upload
  BY UploadTypes, WholeIsContent DEF Check, HashOK
<1>2. CASE Alter(u, Idle)
  BY <1>1, <1>2, EndFacts DEF UpTyped, OthersSame
<1>3. CASE ~Alter(u, Idle)
  <2> DEFINE a == IF size = "small" THEN "put" ELSE "create"
             n == [up[u] EXCEPT !.sum = up[u].read, !.at = a, !.read = << >>]
  <2>1. Unchanged(u) /\ Alter(u, n)
    BY <1>3 DEF Check, End
  <2>2. a \in {"put", "create"}
    OBVIOUS
  <2> HIDE DEF a
  <2>0. << >> \in Seq(Writes) /\ a \in Steps
    BY <2>2 DEF Steps
  <2>3. n \in Upload /\ n.read = << >>
    BY <1>1, <2>0 DEF Upload
  <2>4. Len(n.read) <= Parts
    BY <2>3, Sizes
  <2>5. UpTyped /\ OthersSame(u) /\ up'[u] = n
    <3> HIDE DEF n
    <3> QED
      BY <2>1, <2>3, <2>4, OneUpload DEF UpTyped, OthersSame
  <2> QED
    BY <1>1, <2>1, <2>2, <2>5
<1> QED
  BY <1>2, <1>3

LEMMA EtagAt ==
  ASSUME TypeOK, NEW u \in Uploaders, NEW a \in Steps, NEW e \in Etags,
         Alter(u, [up[u] EXCEPT !.etag = e, !.at = a])
  PROVE  UpTyped /\ OthersSame(u) /\ up'[u] = [up[u] EXCEPT !.etag = e, !.at = a]
<1> DEFINE n == [up[u] EXCEPT !.etag = e, !.at = a]
<1>1. n \in Upload /\ Len(n.read) <= Parts
  BY UploadTypes DEF Upload
<1> HIDE DEF n
<1>2. Alter(u, n)
  BY DEF n
<1> QED
  BY <1>1, <1>2, OneUpload DEF n, UpTyped, OthersSame

LEMMA PreAt ==
  ASSUME TypeOK, NEW u \in Uploaders, NEW a \in Steps, NEW p \in Etags \cup {-1},
         Alter(u, [up[u] EXCEPT !.pre = p, !.at = a])
  PROVE  UpTyped /\ OthersSame(u) /\ up'[u] = [up[u] EXCEPT !.pre = p, !.at = a]
<1> DEFINE n == [up[u] EXCEPT !.pre = p, !.at = a]
<1>1. n \in Upload /\ Len(n.read) <= Parts
  BY UploadTypes DEF Upload
<1> HIDE DEF n
<1>2. Alter(u, n)
  BY DEF n
<1> QED
  BY <1>1, <1>2, OneUpload DEF n, UpTyped, OthersSame

LEMMA PutFacts ==
  ASSUME TypeOK, NEW u \in Uploaders, Put(u)
  PROVE  /\ UpTyped /\ OthersSame(u) /\ up[u].at = "put"
         /\ UNCHANGED << sessions, landing, spoiled >>
         /\ \/ up'[u] = Idle /\ UNCHANGED << remote, served >>
            \/ \E e \in NewEtags :
                 /\ remote' = Stored(up[u].sum, up[u].sum, e) /\ served' = served \cup {up[u].sum}
                 /\ \/ up'[u] = Idle \/ up'[u] = up[u]
                    \/ up'[u] = [up[u] EXCEPT !.etag = e, !.at = "row"]
                    \/ up'[u] = [up[u] EXCEPT !.etag = 0, !.at = "confirm"]
<1>1. up[u].at = "put" /\ UNCHANGED << sessions, landing, spoiled >>
  BY DEF Put
<1>2. CASE Fail(u) /\ UNCHANGED << remote, served >>
  BY <1>1, <1>2, EndFacts DEF Fail, End, UpTyped, OthersSame
<1>3. CASE ~(Fail(u) /\ UNCHANGED << remote, served >>)
  <2>1. PICK e \in NewEtags, given \in BOOLEAN :
          /\ remote' = Stored(up[u].sum, up[u].sum, e) /\ served' = served \cup {up[u].sum}
          /\ \/ Alter(u, [up[u] EXCEPT !.etag = IF given THEN e ELSE 0,
                                       !.at = IF given THEN "row" ELSE "confirm"])
             \/ Fail(u) \/ up' = up
    BY <1>3 DEF Put
  <2>2. e \in Etags /\ 0 \in Etags /\ "row" \in Steps /\ "confirm" \in Steps
    BY NewEtagFacts, TransferAssumption DEF Etags, Steps
  <2> DEFINE Becomes == /\ UpTyped /\ OthersSame(u)
                        /\ \/ up'[u] = Idle \/ up'[u] = up[u]
                           \/ up'[u] = [up[u] EXCEPT !.etag = e, !.at = "row"]
                           \/ up'[u] = [up[u] EXCEPT !.etag = 0, !.at = "confirm"]
  <2>3. Fail(u) => Becomes
    BY EndFacts DEF Fail, End, UpTyped, OthersSame
  <2>4. up' = up => Becomes
    BY DEF TypeOK, UpTyped, OthersSame
  <2>5. Alter(u, [up[u] EXCEPT !.etag = e, !.at = "row"]) => Becomes
    BY <2>2, EtagAt
  <2>6. Alter(u, [up[u] EXCEPT !.etag = 0, !.at = "confirm"]) => Becomes
    BY <2>2, EtagAt
  <2>7. Becomes
    <3>1. CASE given
      BY <2>1, <2>3, <2>4, <2>5, <3>1
    <3>2. CASE ~given
      BY <2>1, <2>3, <2>4, <2>6, <3>2
    <3> QED
      BY <3>1, <3>2
  <2> QED
    BY <1>1, <2>1, <2>7
<1> QED
  BY <1>2, <1>3

LEMMA CreateUp ==
  ASSUME TypeOK, NEW u \in Uploaders, Create(u)
  PROVE  /\ UpTyped /\ OthersSame(u) /\ up[u].at = "create"
         /\ \/ up'[u] = Idle
            \/ /\ sessions'[up[u].stamp] # NoSession
               /\ up'[u] = [up[u] EXCEPT !.have = Complete(sessions'[up[u].stamp]), !.src = here, !.at = "send"]
<1>1. CASE Fail(u)
  BY <1>1, EndFacts DEF Create, Fail, End, UpTyped, OthersSame
<1>2. CASE ~Fail(u)
  <2> DEFINE h == Complete(sessions'[up[u].stamp])
             n == [up[u] EXCEPT !.have = h, !.src = here, !.at = "send"]
  <2>1. /\ sessions' = [sessions EXCEPT ![up[u].stamp] = IF @ = NoSession THEN EmptySession ELSE @]
        /\ Alter(u, n) /\ up[u].at = "create"
    BY <1>2 DEF Create, SessionOf
  <2>2. h \in SUBSET Pieces /\ here \in Ids
    BY DEF Complete, TypeOK
  <2>3. sessions'[up[u].stamp] # NoSession
    <3>1. Parts + 1 \in DOMAIN EmptySession
      BY Sizes DEF EmptySession
    <3>2. EmptySession # NoSession
      BY <3>1, Sizes DEF NoSession
    <3> QED
      BY <2>1, <3>2, UploadTypes DEF TypeOK
  <2> HIDE DEF h
  <2>4. n \in Upload /\ Len(n.read) <= Parts
    BY <2>2, UploadTypes DEF Upload, Steps
  <2>5. UpTyped /\ OthersSame(u) /\ up'[u] = n
    <3> HIDE DEF n
    <3> QED
      BY <2>1, <2>4, OneUpload DEF UpTyped, OthersSame
  <2> QED
    BY <2>1, <2>3, <2>5 DEF h
<1> QED
  BY <1>1, <1>2

\* The next piece is read.
LEMMA ReadFacts ==
  ASSUME TypeOK, NEW u \in Uploaders, Len(up[u].read) < Parts
  PROVE  /\ Read(u) \in Seq(Writes) /\ Len(Read(u)) = Len(up[u].read) + 1 /\ Len(Read(u)) <= Parts
         /\ Turn(u) \in Pieces /\ disk[up[u].src].data[Turn(u)] \in Writes
         /\ Read(u) = Append(up[u].read, disk[up[u].src].data[Turn(u)])
         /\ AfterRead(u) \in {"compare", "send"}
         /\ AfterRead(u) = "compare" <=> Len(Read(u)) = Parts
  BY UploadTypes, ReadOn DEF Read, Turn, AfterRead

LEMMA ReadsUp ==
  ASSUME TypeOK, NEW u \in Uploaders, Len(up[u].read) < Parts,
         Alter(u, [up[u] EXCEPT !.read = Read(u), !.at = AfterRead(u)])
  PROVE  /\ UpTyped /\ OthersSame(u)
         /\ up'[u] = [up[u] EXCEPT !.read = Read(u), !.at = AfterRead(u)]
<1> DEFINE n == [up[u] EXCEPT !.read = Read(u), !.at = AfterRead(u)]
<1>1. n \in Upload /\ n.read = Read(u)
  BY ReadFacts, UploadTypes DEF Upload, Steps
<1>2. Len(n.read) <= Parts
  BY <1>1, ReadFacts
<1>3. Alter(u, n)
  OBVIOUS
<1> HIDE DEF n
<1> QED
  BY <1>1, <1>2, <1>3, OneUpload DEF n, UpTyped, OthersSame

LEMMA SkipUp ==
  ASSUME TypeOK, NEW u \in Uploaders, SessionOK(u), Skip(u)
  PROVE  /\ UpTyped /\ OthersSame(u) /\ up[u].at = "send" /\ Len(up[u].read) < Parts
         /\ Turn(u) \in up[u].have
         /\ up'[u] = [up[u] EXCEPT !.read = Read(u), !.at = AfterRead(u)]
<1>1. Len(up[u].read) < Parts
  BY DEF Skip, SessionOK
<1> QED
  BY <1>1, ReadsUp DEF Skip

LEMMA StartChunkUp ==
  ASSUME TypeOK, NEW u \in Uploaders, SessionOK(u), StartChunk(u)
  PROVE  /\ UpTyped /\ OthersSame(u)
         /\ \/ up'[u] = Idle
            \/ /\ up'[u] = [up[u] EXCEPT !.at = "sending"] /\ sessions[up[u].stamp] # NoSession
               /\ sessions' = [sessions EXCEPT ![up[u].stamp][Turn(u)] = Short]
<1>1. "sending" \in Steps
  BY DEF Steps
<1>2. CASE Fail(u)
  BY <1>2, EndFacts DEF Fail, End, UpTyped, OthersSame
<1>3. CASE /\ Go(u, "sending") /\ sessions[up[u].stamp] # NoSession
           /\ sessions' = [sessions EXCEPT ![up[u].stamp][Turn(u)] = Short]
  BY <1>1, <1>3, GoFacts DEF UpTyped, OthersSame
<1> QED
  BY <1>2, <1>3, StartChunkFacts

LEMMA EndChunkUp ==
  ASSUME TypeOK, NEW u \in Uploaders, SessionOK(u), EndChunk(u)
  PROVE  /\ UpTyped /\ OthersSame(u)
         /\ \/ up'[u] = Idle \/ up'[u] = [up[u] EXCEPT !.at = "send"]
            \/ /\ up'[u] = [up[u] EXCEPT !.read = Read(u), !.at = AfterRead(u)]
               /\ sessions[up[u].stamp] # NoSession
               /\ sessions' = [sessions EXCEPT ![up[u].stamp][Turn(u)] = disk[up[u].src].data[Turn(u)]]
<1>1. "send" \in Steps
  BY DEF Steps
<1>2. CASE Fail(u)
  BY <1>2, EndFacts DEF Fail, End, UpTyped, OthersSame
<1>3. CASE Go(u, "send")
  BY <1>1, <1>3, GoFacts DEF UpTyped, OthersSame
<1>4. CASE ~Fail(u) /\ ~Go(u, "send")
  BY <1>4, EndChunkFacts, ReadsUp
<1> QED
  BY <1>2, <1>3, <1>4

LEMMA CompareUp ==
  ASSUME TypeOK, NEW u \in Uploaders, Compare(u)
  PROVE  UpTyped /\ OthersSame(u) /\ up[u].at = "compare" /\ up'[u] = Idle
  BY EndFacts DEF Compare, End, UpTyped, OthersSame

LEMMA PruneUp ==
  ASSUME TypeOK, NEW u \in Uploaders, Prune(u)
  PROVE  /\ UpTyped /\ OthersSame(u)
         /\ \/ up'[u] = Idle /\ sessions' = sessions
            \/ /\ sessions'[up[u].stamp] = Pruned(sessions[up[u].stamp])
               /\ \E p \in {remote.etag, -1} : up'[u] = [up[u] EXCEPT !.pre = p, !.at = "move"]
<1>1. "move" \in Steps /\ {remote.etag, -1} \subseteq Etags \cup {-1}
  BY DEF Steps, TypeOK, OnServer
<1>2. CASE sessions' = sessions /\ Fail(u)
  BY <1>2, EndFacts DEF Fail, End, UpTyped, OthersSame
<1>3. CASE /\ sessions'[up[u].stamp] = Pruned(sessions[up[u].stamp])
           /\ \E p \in {remote.etag, -1} : Alter(u, [up[u] EXCEPT !.pre = p, !.at = "move"])
  BY <1>1, <1>3, PreAt
<1> QED
  BY <1>2, <1>3, PruneFacts

LEMMA MoveTakenUp ==
  ASSUME TypeOK, NEW u \in Uploaders, UploadOK, MoveTaken(u)
  PROVE  LET s == up[u].stamp
             d == Assembled(s)
         IN  /\ UpTyped /\ OthersSame(u)
             /\ \/ \E e \in NewEtags :
                     /\ remote' = Stored(d, up[u].sum, e) /\ served' = served \cup {d}
                     /\ sessions' = [sessions EXCEPT ![s] = NoSession] /\ landing' = landing
                     /\ \/ \E x \in {e, 0} : up'[u] = [up[u] EXCEPT !.etag = x, !.at = "confirm"]
                        \/ up'[u] = [up[u] EXCEPT !.at = "poll"]
                \/ /\ landing' = landing \cup {[stamp |-> s, data |-> d, sum |-> up[u].sum]}
                   /\ UNCHANGED << remote, sessions, served >> /\ up'[u] = [up[u] EXCEPT !.at = "poll"]
<1>1. "poll" \in Steps /\ "confirm" \in Steps /\ 0 \in Etags
  BY TransferAssumption DEF Steps, Etags
<1>2. Go(u, "poll") => UpTyped /\ OthersSame(u) /\ up'[u] = [up[u] EXCEPT !.at = "poll"]
  BY <1>1, GoFacts DEF UpTyped, OthersSame
<1>3. ASSUME NEW e \in NewEtags, NEW x \in {e, 0}, Alter(u, [up[u] EXCEPT !.etag = x, !.at = "confirm"])
      PROVE  UpTyped /\ OthersSame(u) /\ up'[u] = [up[u] EXCEPT !.etag = x, !.at = "confirm"]
  <2>1. x \in Etags
    BY <1>1, NewEtagFacts
  <2> DEFINE n == [up[u] EXCEPT !.etag = x, !.at = "confirm"]
  <2>2. n \in Upload /\ Len(n.read) <= Parts
    BY <1>1, <2>1, UploadTypes DEF Upload
  <2>3. Alter(u, n)
    BY <1>3
  <2> HIDE DEF n
  <2> QED
    BY <2>2, <2>3, OneUpload DEF n, UpTyped, OthersSame
<1> QED
  BY <1>2, <1>3, MoveTakenFacts

LEMMA MoveFailsUp ==
  ASSUME TypeOK, NEW u \in Uploaders, MovePoisoned(u) \/ MoveFails(u)
  PROVE  /\ UpTyped /\ OthersSame(u) /\ up[u].at = "move"
         /\ up'[u] = Idle \/ (up'[u] = [up[u] EXCEPT !.at = "poll"] /\ MoveFails(u))
<1>1. "poll" \in Steps
  BY DEF Steps
<1>2. CASE Fail(u)
  BY <1>2, EndFacts DEF Fail, End, UpTyped, OthersSame, MovePoisoned, MoveFails
<1>3. CASE MoveFails(u) /\ Go(u, "poll")
  BY <1>1, <1>3, GoFacts DEF UpTyped, OthersSame, MoveFails
<1> QED
  BY <1>2, <1>3 DEF MovePoisoned, MoveFails

LEMMA PollUp ==
  ASSUME TypeOK, NEW u \in Uploaders, Poll(u)
  PROVE  /\ UpTyped /\ OthersSame(u) /\ up[u].at = "poll"
         /\ \/ up'[u] = Idle
            \/ Appeared(u) /\ up'[u] = [up[u] EXCEPT !.etag = remote.etag, !.at = "confirm"]
            \/ ~Appeared(u) /\ sessions[up[u].stamp] # NoSession /\ up'[u] = [up[u] EXCEPT !.at = "move"]
<1>1. "move" \in Steps /\ "confirm" \in Steps /\ remote.etag \in Etags
  BY DEF Steps, TypeOK, OnServer
<1>2. CASE Fail(u)
  BY <1>2, EndFacts DEF Fail, End, UpTyped, OthersSame, Poll
<1>3. CASE ~Appeared(u) /\ sessions[up[u].stamp] # NoSession /\ Go(u, "move")
  BY <1>1, <1>3, GoFacts DEF UpTyped, OthersSame, Poll
<1>4. CASE Appeared(u) /\ Alter(u, [up[u] EXCEPT !.etag = remote.etag, !.at = "confirm"])
  BY <1>1, <1>4, EtagAt DEF Poll
<1> QED
  BY <1>2, <1>3, <1>4 DEF Poll, SessionOf

LEMMA ConfirmUp ==
  ASSUME TypeOK, NEW u \in Uploaders, Confirm(u)
  PROVE  /\ UpTyped /\ OthersSame(u) /\ up[u].at = "confirm"
         /\ \/ up'[u] = Idle \/ up'[u] = [up[u] EXCEPT !.at = "row"]
            \/ /\ ~Differs(u)
               /\ up'[u] = [up[u] EXCEPT !.etag = IF up[u].etag = 0 THEN remote.etag ELSE up[u].etag,
                                         !.at = "row",
                                         !.since = IF size = "large" /\ remote.sum # NoSum
                                                   THEN {} ELSE up[u].since]
<1>1. "row" \in Steps /\ remote.etag \in Etags
  BY DEF Steps, TypeOK, OnServer
<1>2. CASE Fail(u)
  BY <1>2, EndFacts DEF Fail, End, UpTyped, OthersSame, Confirm
<1>3. CASE Go(u, "row")
  BY <1>1, <1>3, GoFacts DEF UpTyped, OthersSame, Confirm
<1>4. CASE ~Fail(u) /\ ~Go(u, "row")
  <2>1. PICK e \in Etags, x \in SUBSET Outside :
          /\ e = IF up[u].etag = 0 THEN remote.etag ELSE up[u].etag
          /\ x = IF size = "large" /\ remote.sum # NoSum THEN {} ELSE up[u].since
          /\ Alter(u, [up[u] EXCEPT !.etag = e, !.at = "row", !.since = x])
    BY <1>1, <1>4, UploadTypes DEF Confirm
  <2>2. ~Differs(u)
    BY <1>4 DEF Confirm
  <2>3. UpTyped /\ OthersSame(u) /\ up'[u] = [up[u] EXCEPT !.etag = e, !.at = "row", !.since = x]
    <3> DEFINE n == [up[u] EXCEPT !.etag = e, !.at = "row", !.since = x]
    <3>1. n \in Upload /\ Len(n.read) <= Parts
      BY <1>1, UploadTypes DEF Upload
    <3>2. Alter(u, n)
      BY <2>1
    <3> HIDE DEF n
    <3> QED
      BY <3>1, <3>2, OneUpload DEF n, UpTyped, OthersSame
  <2> QED
    BY <2>1, <2>2, <2>3 DEF Confirm
<1> QED
  BY <1>2, <1>3, <1>4

LEMMA RecordUp ==
  ASSUME TypeOK, NEW u \in Uploaders, Record(u)
  PROVE  UpTyped /\ OthersSame(u) /\ up[u].at = "row" /\ up'[u] = Idle
  BY EndFacts DEF Record, UpTyped, OthersSame

LEMMA UpType ==
  ASSUME TypeOK, UploadOK, Next
  PROVE  UpTyped
<1>1. CASE up' = up
  BY <1>1 DEF TypeOK, UpTyped
<1>2. CASE Crash
  BY <1>2, IdleType DEF Crash, UpTyped
<1>3. CASE Theirs
  BY <1>3, NoteFacts DEF Theirs, UpTyped, Outside
<1>4. CASE Landing
  BY <1>4, NoteFacts DEF Landing, Land, UpTyped, Outside
<1>5. ASSUME NEW u \in Uploaders, Begin(u) \/ UploadStep(u)
      PROVE  UpTyped
  BY <1>5, BeginFacts, HashFacts, CheckFacts, PutFacts, CreateUp, SkipUp, StartChunkUp, EndChunkUp,
     CompareUp, PruneUp, MoveTakenUp, MoveFailsUp, PollUp, ConfirmUp, RecordUp
     DEF UploadStep, UploadOK
<1> QED
  BY <1>1, <1>2, <1>3, <1>4, <1>5, UpBy

(* The download. *)
DownTyped == down' \in Download /\ part' \in Seq(Writes) /\ Len(part') <= Parts

LEMMA NoDownloadType == NoDownload \in Download
<1>1. 0 \in Etags /\ << >> \in Seq(Writes) /\ 1 \in Stamps
  BY TransferAssumption, Consts DEF Etags
<1> QED
  BY <1>1 DEF NoDownload, Download, NoSum

LEMMA DownTypes ==
  ASSUME TypeOK
  PROVE  /\ down.at \in {"idle", "get", "body", "rename", "row"} /\ down.body \in Content \cup {<< >>}
         /\ down.sum \in Content \cup {NoSum} /\ down.etag \in Etags /\ down.hashed \in Seq(Writes)
         /\ down.resumed \in BOOLEAN /\ down.stamp \in Stamps /\ down \in Download
         /\ part \in Seq(Writes) /\ Len(part) \in Nat /\ Len(part) <= Parts
  BY DEF TypeOK, Download

\* A download starts from nothing, or goes on with the part.
LEMMA GetFacts ==
  ASSUME TypeOK, Get
  PROVE  /\ down.at = "get" /\ DownTyped /\ Len(part') < Parts
         /\ \E b \in BOOLEAN :
              /\ ~b => part' = << >>
              /\ down' = [down EXCEPT !.at = "body", !.body = remote.data, !.sum = remote.sum,
                                      !.etag = remote.etag, !.resumed = b, !.hashed = part']
<1>1. PICK whole \in BOOLEAN :
        LET off == IF whole THEN 0 ELSE Len(part) IN
        /\ ~Beyond(off)
        /\ down' = [down EXCEPT !.at = "body", !.body = remote.data, !.sum = remote.sum,
                                !.etag = remote.etag, !.resumed = off > 0, !.hashed = SubSeq(part, 1, off)]
        /\ part' = SubSeq(part, 1, off)
  BY DEF Get
<1> DEFINE off == IF whole THEN 0 ELSE Len(part)
           b == off > 0
           n == [down EXCEPT !.at = "body", !.body = remote.data, !.sum = remote.sum,
                             !.etag = remote.etag, !.resumed = b, !.hashed = part']
<1>2. off \in Nat /\ off # Parts /\ off <= Len(part) /\ b \in BOOLEAN /\ Len(part) <= Parts
  BY <1>1, DownTypes DEF Beyond
<1>3. part' \in Seq(Writes) /\ Len(part') = off
  <2>1. part' = SubSeq(part, 1, off)
    BY <1>1
  <2> HIDE DEF off
  <2> QED
    BY <1>2, <2>1, DownTypes
<1>4. Len(part') < Parts /\ Len(part') <= Parts
  BY <1>2, <1>3, Sizes
<1>5. ~b => part' = << >>
  BY <1>2, <1>3
<1>6. down' = n
  BY <1>1
<1> HIDE DEF b
<1>7. n \in Download
  BY <1>2, <1>3, DownTypes DEF Download, TypeOK, OnServer
<1>8. down.at = "get"
  BY DEF Get
<1>9. b \in BOOLEAN /\ (~b => part' = << >>)
  BY <1>2, <1>5
<1>10. down' = [down EXCEPT !.at = "body", !.body = remote.data, !.sum = remote.sum,
                            !.etag = remote.etag, !.resumed = b, !.hashed = part']
  BY <1>6
<1> HIDE DEF n
<1>11. DownTyped
  BY <1>3, <1>4, <1>6, <1>7 DEF DownTyped
<1> QED
  BY <1>4, <1>8, <1>9, <1>10, <1>11

LEMMA ReceiveFacts ==
  ASSUME TypeOK, DownOK, Receive
  PROVE  /\ down.at = "body" /\ DownTyped /\ Len(part) < Parts /\ down.body \in Content
         /\ \/ down' = NoDownload
            \/ /\ part' = Append(part, down.body[Len(part) + 1])
               /\ down' = [down EXCEPT !.hashed = Append(@, down.body[Len(part) + 1])]
<1>1. down.at = "body" /\ Len(part) < Parts /\ down.body \in Content
  BY DownTypes, Sizes DEF Receive, DownOK
<1> DEFINE x == down.body[Len(part) + 1]
           n == [down EXCEPT !.hashed = Append(@, x)]
<1>2. x \in Writes /\ Append(part, x) \in Seq(Writes) /\ Len(Append(part, x)) <= Parts
  BY <1>1, ReadOn, DownTypes
<1>3. (part' = Append(part, x) /\ down' = n) \/ (down' = NoDownload /\ part' = part)
  BY DEF Receive
<1> HIDE DEF x
<1>4. Append(down.hashed, x) \in Seq(Writes)
  BY <1>2, DownTypes
<1>5. n \in Download
  BY <1>4, DownTypes DEF Download
<1> HIDE DEF n
<1>6. DownTyped
  BY <1>2, <1>3, <1>5, NoDownloadType, DownTypes DEF DownTyped
<1> QED
  BY <1>1, <1>3, <1>6 DEF n, x

LEMMA DownType ==
  ASSUME TypeOK, DownOK, Next
  PROVE  DownTyped
<1>1. CASE UNCHANGED << down, part >>
  BY <1>1 DEF TypeOK, DownTyped
<1>2. CASE Crash \/ GetRefused
  BY <1>2, NoDownloadType, DownTypes DEF Crash, GetRefused, DownTyped
<1>3. CASE DownBegins
  <2> DEFINE n == [NoDownload EXCEPT !.at = "get", !.etag = remote.etag]
  <2>1. n \in Download
    BY NoDownloadType DEF Download, TypeOK, OnServer
  <2>2. down' = n /\ part' = part
    BY <1>3 DEF DownBegins
  <2> HIDE DEF n
  <2> QED
    BY <2>1, <2>2, DownTypes DEF DownTyped
<1>4. CASE Get
  BY <1>4, GetFacts
<1>5. CASE Receive
  BY <1>5, ReceiveFacts
<1>6. CASE Verify
  <2>1. [down EXCEPT !.at = "rename"] \in Download
    BY DownTypes DEF Download
  <2>2. \/ down' = [down EXCEPT !.at = "rename"] /\ part' = part
        \/ down' = NoDownload /\ part' = << >>
    BY <1>6 DEF Verify
  <2>3. << >> \in Seq(Writes) /\ Len(<< >>) <= Parts
    BY Sizes
  <2> QED
    BY <2>1, <2>2, <2>3, NoDownloadType, DownTypes DEF DownTyped
<1>7. CASE Commit
  <2>1. \A s \in Stamps : [down EXCEPT !.at = "row", !.stamp = s] \in Download
    BY DownTypes DEF Download
  <2>2. \/ down' = NoDownload /\ part' = part
        \/ part' = << >> /\ \E s \in Stamps : down' = [down EXCEPT !.at = "row", !.stamp = s]
    BY <1>7, CommitFacts, NewStampFacts
  <2>3. << >> \in Seq(Writes) /\ Len(<< >>) <= Parts
    BY Sizes
  <2> QED
    BY <2>1, <2>2, <2>3, NoDownloadType, DownTypes DEF DownTyped
<1>8. CASE DownRecord
  BY <1>8, NoDownloadType, DownTypes DEF DownRecord, DownTyped
<1> QED
  BY <1>1, <1>2, <1>3, <1>4, <1>5, <1>6, <1>7, <1>8, DownBy DEF DownStep

LEMMA RowType ==
  ASSUME TypeOK, Next
  PROVE  row' \in Row
<1>1. CASE DownRecord
  <2> DEFINE b == down.sum = NoSum /\ down.resumed
  <2>1. row' = [stamp |-> down.stamp, etag |-> down.etag, since |-> {}, blind |-> b] /\ b \in BOOLEAN
    BY <1>1 DEF DownRecord
  <2> HIDE DEF b
  <2> QED
    BY <2>1, DownTypes DEF Row
<1>2. ASSUME NEW u \in Uploaders, Record(u)
      PROVE  row' \in Row
  BY <1>2, UploadTypes DEF Record, Row
<1> QED
  BY <1>1, <1>2, RowBy DEF TypeOK

LEMMA TypeStep ==
  ASSUME TypeOK, UploadOK, DownOK, Next
  PROVE  TypeOK'
  BY LocalType, NetType, UpType, DownType, RowType, RestKeeps DEF TypeOK, UpTyped, DownTyped

-----------------------------------------------------------------------------
(* What no step does *)

\* Nothing but what an upload cannot tell changes with another's write.
SameBut(u) == /\ up'[u].at = up[u].at /\ up'[u].id = up[u].id /\ up'[u].stamp = up[u].stamp
              /\ up'[u].src = up[u].src /\ up'[u].read = up[u].read /\ up'[u].sum = up[u].sum
              /\ up'[u].have = up[u].have /\ up'[u].pre = up[u].pre /\ up'[u].etag = up[u].etag
              /\ up[u].since \subseteq up'[u].since

LEMMA NoteSame ==
  ASSUME TypeOK, NEW w \in Outside, NEW s, Note(w, s), NEW u \in Uploaders
  PROVE  SameBut(u) /\ (Waits(u) /\ up[u].stamp # s => w \in up'[u].since)
<1>1. CASE up'[u] = up[u] /\ ~(Waits(u) /\ up[u].stamp # s)
  BY <1>1 DEF SameBut
<1>2. CASE up'[u] = [up[u] EXCEPT !.since = @ \cup {w}]
  BY <1>2, UploadTypes DEF SameBut, Upload
<1> QED
  BY <1>1, <1>2, NoteFacts

LEMMA OtherWrites ==
  ASSUME TypeOK, Theirs \/ Landing
  PROVE  down' = down /\ \A u \in Uploaders : SameBut(u)
<1>1. "theirs" \in Outside /\ "late" \in Outside
  BY DEF Outside
<1> QED
  BY <1>1, NoteSame DEF Theirs, Landing, Land

LEMMA OthersIdle ==
  ASSUME Alone, NEW u \in Uploaders, up[u].at # "idle"
  PROVE  down.at = "idle" /\ \A v \in Uploaders : v # u => up[v].at = "idle"
  BY DEF Alone, Active

LEMMA StepIsActive ==
  ASSUME NEW u \in Uploaders, UploadStep(u)
  PROVE  up[u].at # "idle" /\ UNCHANGED << down, disk, here, had, unseen, part >>
  BY DEF UploadStep, Hash, Check, Put, Create, Skip, StartChunk, EndChunk, Compare,
     Prune, MoveTaken, MovePoisoned, MoveFails, Poll, Confirm, Record, UpKeeps, local, seen, net

LEMMA StepUp ==
  ASSUME TypeOK, UploadOK, NEW u \in Uploaders, Begin(u) \/ UploadStep(u)
  PROVE  OthersSame(u)
  BY BeginFacts, HashFacts, CheckFacts, PutFacts, CreateUp, SkipUp, StartChunkUp, EndChunkUp,
     CompareUp, PruneUp, MoveTakenUp, MoveFailsUp, PollUp, ConfirmUp, RecordUp
     DEF UploadStep, UploadOK

LEMMA AloneStep ==
  ASSUME TypeOK, UploadOK, Alone, Next
  PROVE  Alone'
<1> DEFINE One == \A u, v \in Uploaders : up'[u].at # "idle" /\ up'[v].at # "idle" => u = v
           None == \A u \in Uploaders : up'[u].at = "idle"
<1>0. One /\ (down'.at # "idle" => None) => Alone'
  BY DEF Alone, Active
<1>a. Active = {} => \A u \in Uploaders : up[u].at = "idle"
  BY DEF Active
<1>1. CASE Crash
  BY <1>0, <1>1 DEF Crash, Idle
<1>2. CASE Theirs \/ Landing
  <2>1. down' = down /\ \A u \in Uploaders : up'[u].at = up[u].at
    BY <1>2, OtherWrites DEF SameBut
  <2> QED
    BY <1>0, <2>1 DEF Alone, Active
<1>3. ASSUME NEW u \in Uploaders, Begin(u)
      PROVE  Alone'
  <2>1. Active = {} /\ down.at = "idle" /\ down' = down
    BY <1>3 DEF Begin, Gate, UpKeeps
  <2> QED
    BY <1>0, <1>a, <1>3, <2>1, StepUp DEF OthersSame
<1>4. ASSUME NEW u \in Uploaders, UploadStep(u)
      PROVE  Alone'
  <2>1. /\ down.at = "idle" /\ down' = down
        /\ \A v \in Uploaders : v # u => up[v].at = "idle"
    BY <1>4, StepIsActive, OthersIdle
  <2> QED
    BY <1>0, <1>4, <2>1, StepUp DEF OthersSame
<1>5. CASE up' = up /\ UNCHANGED << down, part >>
  BY <1>5 DEF Alone, Active
<1>6. CASE up' = up /\ (DownBegins \/ DownStep)
  <2>1. Active = {}
    BY <1>6 DEF DownBegins, DownStep, Get, GetRefused, Receive, Verify, Commit, DownRecord, Alone
  <2> QED
    BY <1>0, <1>a, <1>6, <2>1
<1> QED
  BY <1>1, <1>2, <1>3, <1>4, <1>5, <1>6, UpBy, DownBy

\* A stamp somebody remembers is given to no other content of the file, but for a write
\* that keeps it.
InUse(s) ==
  \/ \E u \in Uploaders : up[u].at # "idle" /\ up[u].stamp = s
  \/ \E l \in landing : l.stamp = s
  \/ s \in Stamps /\ sessions[s] # NoSession
  \/ s = row.stamp
  \/ down.at = "row" /\ s = down.stamp

LEMMA NewStampUnused ==
  ASSUME NEW s \in NewStamps
  PROVE  ~InUse(s)
  BY NewStampFacts DEF InUse

LEMMA LocalKept ==
  ASSUME TypeOK, DownOK, Next, NEW s, InUse(s), Local'.stamp = s
  PROVE  here' = here /\ Local.stamp = s /\ (~Local'.unseen => ~Local.unseen /\ Local'.data = Local.data)
<1> USE DEF Local
<1>0. CASE UNCHANGED << disk, here, had, unseen >>
  BY <1>0
<1>1. CASE InPlace
  BY <1>1, WriteIntoFacts, NewStampUnused, NewStampFacts DEF InPlace
<1>2. CASE Unseen
  <2>1. Local.stamp \in Stamps
    BY DEF TypeOK, File
  <2> QED
    BY <1>2, <2>1, WriteIntoFacts DEF Unseen
<1>3. CASE Replace
  <2>1. PICK i \in NewIds, t \in NewStamps, w \in Writes :
           /\ disk' = [disk EXCEPT ![i] = [data |-> Const(w), stamp |-> t,
                                           whole |-> TRUE, unseen |-> FALSE]]
           /\ here' = i
    BY <1>3, ReplaceFacts
  <2>2. disk'[here'].stamp = t
    BY <2>1, NewIdFacts DEF TypeOK
  <2> QED
    BY <2>2, NewStampUnused
<1>4. CASE Commit
  <2>1. CASE UNCHANGED << disk, here, had, unseen >>
    BY <2>1
  <2>2. ASSUME NEW i \in NewIds, NEW t \in NewStamps, NEW x,
               disk' = [disk EXCEPT ![i] = [data |-> part, stamp |-> t, unseen |-> FALSE, whole |-> x]],
               here' = i
        PROVE  FALSE
    <3>1. disk'[here'].stamp = t
      BY <2>2, NewIdFacts DEF TypeOK
    <3> QED
      BY <3>1, NewStampUnused
  <2> QED
    BY <1>4, <2>1, <2>2, CommitFacts
<1> QED
  BY <1>0, <1>1, <1>2, <1>3, <1>4, LocalBy

\* The same of the server's versions.
LEMMA RemoteKept ==
  ASSUME TypeOK, UploadOK, Next
  PROVE  remote' = remote \/ remote'.etag \in NewEtags
<1>1. CASE Theirs
  BY <1>1 DEF Theirs
<1>2. CASE Landing
  BY <1>2 DEF Landing, Land, Stored
<1>3. ASSUME NEW u \in Uploaders, Put(u)
      PROVE  remote' = remote \/ remote'.etag \in NewEtags
  <2>1. remote' = remote \/ \E e \in NewEtags : remote' = Stored(up[u].sum, up[u].sum, e)
    BY <1>3, PutFacts
  <2> QED
    BY <2>1 DEF Stored
<1>4. ASSUME NEW u \in Uploaders, MoveTaken(u)
      PROVE  remote' = remote \/ remote'.etag \in NewEtags
  <2>1. remote' = remote \/ \E e \in NewEtags : remote' = Stored(Assembled(up[u].stamp), up[u].sum, e)
    BY <1>4, MoveTakenUp
  <2> QED
    BY <2>1 DEF Stored
<1>5. ASSUME NEW u \in Uploaders, Create(u) \/ StartChunk(u) \/ EndChunk(u) \/ Compare(u)
                                  \/ Prune(u) \/ MovePoisoned(u)
      PROVE  remote' = remote
  BY <1>5 DEF Create, StartChunk, EndChunk, Compare, Prune, MovePoisoned
<1>6. Leftover \/ (\E s \in Stamps : Collect(s)) => remote' = remote
  BY DEF Leftover, Collect
<1> QED
  BY <1>1, <1>2, <1>3, <1>4, <1>5, <1>6, NetBy

\* What has been stays on record.
LEMMA HistoryKept ==
  ASSUME TypeOK, DownOK, Next
  PROVE  had \subseteq had' /\ served \subseteq served' /\ (unseen => unseen')
<1>1. had \subseteq had' /\ (unseen => unseen')
  BY LocalBy, WriteIntoFacts, ReplaceFacts, CommitFacts, NewStampFacts
     DEF InPlace, Unseen, TypeOK, Local, File
<1>2. served \subseteq served'
  <2>1. Leftover \/ (\E s \in Stamps : Collect(s)) => served' = served
    BY DEF Leftover, Collect, seen
  <2>2. Theirs \/ Landing => served \subseteq served'
    BY DEF Theirs, Landing, Land
  <2>3. ASSUME NEW u \in Uploaders, Create(u) \/ StartChunk(u) \/ EndChunk(u) \/ Compare(u)
                                    \/ Prune(u) \/ MovePoisoned(u)
        PROVE  served' = served
    BY <2>3 DEF Create, StartChunk, EndChunk, Compare, Prune, MovePoisoned, seen
  <2>4. ASSUME NEW u \in Uploaders, Put(u) \/ MoveTaken(u)
        PROVE  served \subseteq served'
    BY <2>4 DEF Put, MoveTaken
  <2> QED
    BY <2>1, <2>2, <2>3, <2>4, NetBy
<1> QED
  BY <1>1, <1>2

-----------------------------------------------------------------------------
(* Uploads *)

LEMMA LocalStep ==
  ASSUME TypeOK, DownOK, LocalOK, Next
  PROVE  LocalOK'
<1> USE DEF Local
<1>0. CASE UNCHANGED << disk, here, had, unseen >>
  BY <1>0 DEF LocalOK
<1>1. CASE InPlace
  BY <1>1, WriteIntoFacts, NewStampFacts DEF InPlace, LocalOK
<1>2. CASE Unseen
  <2>1. Local.stamp \in Stamps
    BY DEF TypeOK, File
  <2> QED
    BY <1>2, <2>1, WriteIntoFacts DEF Unseen, LocalOK
<1>3. CASE Replace
  <2>1. PICK i \in NewIds, t \in NewStamps, w \in Writes :
           /\ disk' = [disk EXCEPT ![i] = [data |-> Const(w), stamp |-> t,
                                           whole |-> TRUE, unseen |-> FALSE]]
           /\ here' = i /\ had' = had \cup {Const(w)} /\ unseen' = unseen
    BY <1>3, ReplaceFacts
  <2>2. disk'[here'] = [data |-> Const(w), stamp |-> t, whole |-> TRUE, unseen |-> FALSE]
    BY <2>1, NewIdFacts DEF TypeOK
  <2> QED
    BY <2>1, <2>2 DEF LocalOK
<1>4. CASE Commit
  <2> DEFINE w == part \in served \/ (down.sum = NoSum /\ down.resumed)
  <2>1. down.at = "rename"
    BY <1>4 DEF Commit
  <2>2. w
    <3>1. part \in Content /\ down.body \in Content /\ down.body \in served
      BY <2>1, WholeIsContent, DownTypes DEF DownOK
    <3>2. down.sum # NoSum => part = down.body
      BY <2>1 DEF DownOK, Matches
    <3>3. ~down.resumed => part = down.body
      BY <2>1, <3>1, Sizes DEF DownOK, Content
    <3> QED
      BY <3>1, <3>2, <3>3, DownTypes
  <2>3. w = TRUE
    BY <2>2
  <2>4. \/ UNCHANGED << disk, here, had, unseen >>
        \/ \E i \in NewIds, s \in NewStamps :
             /\ disk' = [disk EXCEPT ![i] = [data |-> part, stamp |-> s, unseen |-> FALSE, whole |-> w]]
             /\ here' = i /\ had' = had \cup {part}
    BY <1>4, CommitFacts
  <2> HIDE DEF w
  <2>5. ASSUME NEW i \in NewIds, NEW s \in NewStamps,
               disk' = [disk EXCEPT ![i] = [data |-> part, stamp |-> s, unseen |-> FALSE, whole |-> TRUE]],
               here' = i, had' = had \cup {part}
        PROVE  LocalOK'
    <3>1. disk'[here'].data = part /\ disk'[here'].unseen = FALSE /\ disk'[here'].whole = TRUE
      BY <2>5, NewIdFacts DEF TypeOK
    <3> QED
      BY <2>5, <3>1 DEF LocalOK
  <2> QED
    BY <1>0, <2>3, <2>4, <2>5
<1> QED
  BY <1>0, <1>1, <1>2, <1>3, <1>4, LocalBy

\* An upload's stamp is in use.
LEMMA StillKept ==
  ASSUME TypeOK, DownOK, Next, NEW s, InUse(s), Local'.stamp = s
  PROVE  /\ here' = here /\ Local.stamp = s
         /\ ~Local'.unseen => Still(s) /\ Local'.data = Local.data
  BY LocalKept DEF Still

EachOK(u) == SourceOK(u) /\ HashOK(u) /\ SumOK(u) /\ SessionOK(u) /\ TakenOK(u)

LEMMA IdleOK ==
  ASSUME NEW u \in Uploaders, up'[u].at = "idle"
  PROVE  EachOK(u)'
  BY DEF EachOK, SourceOK, HashOK, SumOK, SessionOK, TakenOK, Taken, Hashed

\* An upload others' steps go by.
LEMMA KeptSource ==
  ASSUME TypeOK, DownOK, Next, NEW u \in Uploaders, SameBut(u), up[u].at # "idle", SourceOK(u)
  PROVE  SourceOK(u)'
<1>1. ASSUME Local'.stamp = up[u].stamp
      PROVE  here' = here /\ Local.stamp = up[u].stamp
  BY <1>1, StillKept DEF InUse
<1> QED
  BY <1>1 DEF SourceOK, SameBut

LEMMA KeptHash ==
  ASSUME TypeOK, DownOK, Next, NEW u \in Uploaders, SameBut(u), up[u].at # "idle", HashOK(u)
  PROVE  HashOK(u)'
<1>1. ASSUME Local'.stamp = up[u].stamp, ~Local'.unseen
      PROVE  Still(up[u].stamp) /\ Local'.data = Local.data
  BY <1>1, StillKept DEF InUse
<1>2. /\ up'[u].at = "check" => Len(up'[u].read) = Parts
      /\ up'[u].at = "hash" => Len(up'[u].read) < Parts
  BY DEF HashOK, SameBut
<1>3. ASSUME up'[u].at \in {"hash", "check"}, Local'.stamp = up'[u].stamp, ~Local'.unseen
      PROVE  \A i \in 1 .. Len(up'[u].read) : up'[u].read[i] = Local'.data[i]
  BY <1>1, <1>3 DEF HashOK, SameBut
<1> QED
  BY <1>2, <1>3 DEF HashOK, Still

LEMMA KeptSum ==
  ASSUME TypeOK, DownOK, Next, NEW u \in Uploaders, SameBut(u), up[u].at # "idle", SumOK(u)
  PROVE  SumOK(u)'
<1>1. ASSUME Local'.stamp = up[u].stamp, ~Local'.unseen
      PROVE  Still(up[u].stamp) /\ Local'.data = Local.data
  BY <1>1, StillKept DEF InUse
<1> QED
  BY <1>1, HistoryKept DEF SumOK, SameBut, Still

LEMMA KeptSession ==
  ASSUME TypeOK, DownOK, Next, NEW u \in Uploaders, SameBut(u), SessionOK(u),
         sessions'[up[u].stamp] \in {sessions[up[u].stamp], NoSession}
  PROVE  SessionOK(u)'
<1>1. CASE sessions'[up[u].stamp] = NoSession
  BY <1>1 DEF SessionOK, SameBut
<1>2. CASE sessions'[up[u].stamp] = sessions[up[u].stamp]
  BY <1>2, HistoryKept DEF SessionOK, SameBut, Good
<1> QED
  BY <1>1, <1>2

LEMMA KeptTaken ==
  ASSUME TypeOK, DownOK, Next, NEW u \in Uploaders, SameBut(u), up[u].at # "idle", TakenOK(u),
         remote' = remote
  PROVE  TakenOK(u)'
<1>1. ASSUME Local'.stamp = up[u].stamp, ~Local'.unseen
      PROVE  Still(up[u].stamp) /\ Local'.data = Local.data
  BY <1>1, StillKept DEF InUse
<1> QED
  BY <1>1 DEF TakenOK, Taken, Appeared, SameBut, Still

LEMMA OthersKeep ==
  ASSUME TypeOK, DownOK, LandOK, UploadOK, Next, World \/ DownBegins \/ DownStep \/ Rests \/ Landing,
         NEW u \in Uploaders
  PROVE  EachOK(u)'
<1> USE DEF local, net, fixed, seen, DownKeeps
<1>1. EachOK(u)
  BY DEF UploadOK, EachOK
<1>2. SameBut(u)
  <2>1. up' = up \/ Theirs \/ Landing
    BY DEF World, Opens, Closes, InPlace, Unseen, WriteInto, Replace, Leftover, Collect, Rests, vars,
       DownBegins, DownStep, Get, GetRefused, Receive, Verify, Commit, DownRecord
  <2> QED
    BY <2>1, OtherWrites DEF SameBut
<1>3. CASE up[u].at = "idle"
  BY <1>2, <1>3, IdleOK DEF SameBut
<1>4. CASE up[u].at # "idle"
  <2>1. u \in Active /\ up[u].stamp \in Stamps
    BY <1>4, UploadTypes DEF Active
  <2>2. sessions'[up[u].stamp] \in {sessions[up[u].stamp], NoSession}
    <3>1. sessions' = sessions \/ (\E s \in Stamps : Collect(s)) \/ Landing
      BY <2>1 DEF World, Opens, Closes, InPlace, Unseen, WriteInto, Replace, Theirs, Leftover, Rests, vars,
       DownBegins, DownStep, Get, GetRefused, Receive, Verify, Commit, DownRecord
    <3>2. ASSUME NEW s \in Stamps, Collect(s)
          PROVE  sessions'[up[u].stamp] \in {sessions[up[u].stamp], NoSession}
      BY <2>1, <3>2 DEF Collect, TypeOK
    <3>3. ASSUME Landing
          PROVE  sessions'[up[u].stamp] \in {sessions[up[u].stamp], NoSession}
      BY <2>1, <3>3 DEF Landing, Land, TypeOK
    <3> QED
      BY <3>1, <3>2, <3>3
  <2>3. SourceOK(u)' /\ HashOK(u)' /\ SumOK(u)' /\ SessionOK(u)'
    BY <1>1, <1>2, <1>4, <2>2, KeptSource, KeptHash, KeptSum, KeptSession DEF EachOK
  <2>4. TakenOK(u)'
    <3>1. CASE remote' = remote
      BY <1>1, <1>2, <1>4, <3>1, KeptTaken DEF EachOK
    <3>2. CASE Theirs
      <4>1. "theirs" \in Outside /\ up[u].stamp # 0
        BY <2>1 DEF Outside, Stamps
      <4>2. Waits(u) => up'[u].since # {}
        BY <1>2, <3>2, <4>1, NoteSame DEF Theirs
      <4>3. remote'.etag # up[u].etag
        BY <1>4, <3>2, NewEtagFacts DEF Theirs
      <4> QED
        BY <1>2, <4>2, <4>3 DEF TakenOK, Taken, Waits, SameBut
    <3>3. CASE Landing
      <4>1. PICK l \in landing : Land(l)
        BY <3>3 DEF Landing
      <4>2. "late" \in Outside
        BY DEF Outside
      <4>3. CASE up[u].stamp # l.stamp
        <5>1. Waits(u) => up'[u].since # {}
          BY <4>1, <4>2, <4>3, NoteSame DEF Land
        <5>2. remote'.etag # up[u].etag
          BY <1>4, <4>1, NewEtagFacts DEF Land, Stored
        <5> QED
          BY <1>2, <5>1, <5>2 DEF TakenOK, Taken, Waits, SameBut
      <4>4. CASE up[u].stamp = l.stamp
        <5>1. remote'.data = l.data
          BY <4>1 DEF Land, Stored
        <5>2. UNCHANGED << disk, here >>
          BY <4>1 DEF Land
        <5>3. Local.stamp = l.stamp /\ ~Local.unseen => l.data = Local.data
          BY DEF LandOK, Still
        <5> QED
          BY <1>2, <4>4, <5>1, <5>2, <5>3 DEF TakenOK, SameBut, Still, Local
      <4> QED
        BY <4>3, <4>4
    <3> QED
      BY <3>1, <3>2, <3>3 DEF World, Opens, Closes, InPlace, Unseen, WriteInto, Replace, Leftover, Collect,
         Rests, vars, DownBegins, DownStep, Get, GetRefused, Receive, Verify, Commit, DownRecord
  <2> QED
    BY <2>3, <2>4 DEF EachOK
<1> QED
  BY <1>3, <1>4

\* An upload's own steps.  From one stage to the next the file, its stamp and what was
\* hashed of it stay.
Sending == {"send", "sending", "compare"}
LEMMA NextStage ==
  ASSUME NEW u \in Uploaders, SourceOK(u), SumOK(u), UNCHANGED << disk, here, had, unseen >>,
         up'[u].id = up[u].id, up'[u].stamp = up[u].stamp, up'[u].src = up[u].src,
         up'[u].sum = up[u].sum, up[u].at \in Hashed, up'[u].at \in Hashed,
         up'[u].at \in Sending => up[u].at \in Sending
  PROVE  SourceOK(u)' /\ HashOK(u)' /\ SumOK(u)'
<1>1. SourceOK(u)'
  BY DEF SourceOK, Hashed, Sending, Local
<1>2. HashOK(u)'
  BY DEF HashOK, Hashed
<1>3. SumOK(u)'
  BY DEF SumOK, Still, Local
<1> QED
  BY <1>1, <1>2, <1>3

LEMMA NotTaken ==
  ASSUME NEW u \in Uploaders, up'[u].at \notin {"move", "poll", "confirm", "row"}
  PROVE  TakenOK(u)'
  BY DEF TakenOK, Taken

LEMMA BeginStep ==
  ASSUME TypeOK, NEW u \in Uploaders, Begin(u)
  PROVE  EachOK(u)'
<1>1. /\ up'[u].at = "hash" /\ up'[u].id = here /\ up'[u].stamp = Local.stamp /\ up'[u].src = here
      /\ up'[u].read = << >>
  BY BeginFacts DEF Idle
<1>2. UNCHANGED << disk, here >>
  BY DEF Begin, UpKeeps, local
<1>3. SourceOK(u)'
  BY <1>1, <1>2 DEF SourceOK, Local
<1>4. HashOK(u)'
  BY <1>1, Sizes DEF HashOK
<1>5. SumOK(u)' /\ SessionOK(u)' /\ TakenOK(u)'
  BY <1>1, NotTaken DEF SumOK, SessionOK, Hashed
<1> QED
  BY <1>3, <1>4, <1>5 DEF EachOK

LEMMA HashStep ==
  ASSUME TypeOK, NEW u \in Uploaders, EachOK(u), Hash(u)
  PROVE  EachOK(u)'
<1> DEFINE f == IF up[u].read = << >> THEN here ELSE up[u].src
           r == Append(up[u].read, disk[f].data[Len(up[u].read) + 1])
<1>1. /\ up[u].at = "hash" /\ Len(up[u].read) < Parts
      /\ f \in Ids /\ disk[f].data \in Content /\ r \in Seq(Writes) /\ Len(r) = Len(up[u].read) + 1
      /\ up'[u] = [up[u] EXCEPT !.src = f, !.read = r,
                                !.at = IF Len(r) = Parts THEN "check" ELSE "hash"]
  BY HashFacts DEF EachOK
<1>2. UNCHANGED << disk, here >> /\ up[u].read \in Seq(Writes)
  BY UploadTypes DEF Hash, UpKeeps, local
<1>3. \A i \in 1 .. Len(up[u].read) : r[i] = up[u].read[i]
  BY <1>1, <1>2
<1>4. r[Len(up[u].read) + 1] = disk[f].data[Len(up[u].read) + 1]
  BY <1>1, <1>2
<1>5. up[u].stamp = Local.stamp => f = here /\ here = up[u].id
  BY <1>1 DEF EachOK, SourceOK
<1> HIDE DEF f, r
<1>6. /\ up'[u].src = f /\ up'[u].read = r /\ up'[u].stamp = up[u].stamp /\ up'[u].id = up[u].id
      /\ up'[u].at = (IF Len(r) = Parts THEN "check" ELSE "hash")
  BY <1>1, UploadTypes DEF Upload
<1>7. SourceOK(u)'
  BY <1>2, <1>5, <1>6 DEF SourceOK, Local
<1>8. HashOK(u)'
  <2>1. /\ up'[u].at = "check" => Len(up'[u].read) = Parts
        /\ up'[u].at = "hash" => Len(up'[u].read) < Parts
    BY <1>1, <1>6, Sizes
  <2>2. ASSUME Still(up[u].stamp), NEW i \in 1 .. Len(r)
        PROVE  r[i] = Local.data[i]
    <3>1. CASE i = Len(up[u].read) + 1
      BY <1>4, <1>5, <2>2, <3>1 DEF Still, Local
    <3>2. CASE i \in 1 .. Len(up[u].read)
      BY <1>1, <1>3, <2>2, <3>2 DEF EachOK, HashOK
    <3> QED
      BY <1>1, <1>2, <3>1, <3>2
  <2> QED
    BY <1>2, <1>6, <2>1, <2>2 DEF HashOK, Still, Local
<1>9. SumOK(u)' /\ SessionOK(u)' /\ TakenOK(u)'
  BY <1>6, NotTaken DEF SumOK, SessionOK, Hashed
<1> QED
  BY <1>7, <1>8, <1>9 DEF EachOK

LEMMA CheckStep ==
  ASSUME TypeOK, LocalOK, ChunksOK, NEW u \in Uploaders, EachOK(u), Check(u)
  PROVE  EachOK(u)'
<1>1. CASE up'[u] = Idle
  BY <1>1, IdleOK DEF Idle
<1>2. CASE up'[u] # Idle
  <2>1. PICK a \in {"put", "create"} : up'[u] = [up[u] EXCEPT !.sum = up[u].read, !.at = a, !.read = << >>]
    BY <1>2, CheckFacts DEF EachOK
  <2>2. /\ up[u].at = "check" /\ up[u].read \in Content /\ here = up[u].id /\ Local.stamp = up[u].stamp
        /\ Len(up[u].read) = Parts
    BY <1>2, CheckFacts DEF EachOK, Unchanged, HashOK
  <2>3. UNCHANGED << disk, here, had, unseen, sessions >>
    BY DEF Check, UpKeeps, local, net, seen
  <2>4. /\ up'[u].at = a /\ up'[u].sum = up[u].read /\ up'[u].stamp = up[u].stamp
        /\ up'[u].id = up[u].id /\ up'[u].read = << >>
    BY <2>1, UploadTypes DEF Upload
  <2>5. Local.data \in Content /\ up[u].stamp \in Stamps
    BY UploadTypes DEF TypeOK, Local, File
  <2>6. Still(up[u].stamp) => up[u].read = Local.data
    <3>1. Still(up[u].stamp) => \A i \in 1 .. Parts : up[u].read[i] = Local.data[i]
      BY <2>2 DEF EachOK, HashOK
    <3> QED
      BY <2>2, <2>5, <3>1, Sizes DEF Content
  <2>7. ~unseen => Still(up[u].stamp) /\ up[u].read \in had
    BY <2>2, <2>6 DEF LocalOK, Still
  <2>8. SourceOK(u)' /\ HashOK(u)' /\ TakenOK(u)'
    BY <2>2, <2>3, <2>4, NotTaken DEF SourceOK, HashOK, Local
  <2>9. SumOK(u)'
    BY <2>2, <2>3, <2>4, <2>6, <2>7 DEF SumOK, Still, Local
  <2>10. SessionOK(u)'
    <3>1. ASSUME ~unseen, NEW i \in Pieces, sessions[up[u].stamp] # NoSession, Good(up[u].stamp, i)
          PROVE  sessions[up[u].stamp][i] = up[u].read[i]
      BY <2>5, <2>6, <2>7, <3>1 DEF ChunksOK
    <3> QED
      BY <2>3, <2>4, <3>1 DEF SessionOK, Good
  <2> QED
    BY <2>8, <2>9, <2>10 DEF EachOK
<1> QED
  BY <1>1, <1>2

LEMMA PutStep ==
  ASSUME TypeOK, NEW u \in Uploaders, EachOK(u), Put(u)
  PROVE  EachOK(u)'
<1>1. CASE up'[u] = Idle
  BY <1>1, IdleOK DEF Idle
<1>2. CASE up'[u] # Idle
  <2>1. PICK e \in NewEtags :
          /\ remote' = Stored(up[u].sum, up[u].sum, e)
          /\ \/ up'[u] = up[u]
             \/ up'[u] = [up[u] EXCEPT !.etag = e, !.at = "row"]
             \/ up'[u] = [up[u] EXCEPT !.etag = 0, !.at = "confirm"]
    BY <1>2, PutFacts
  <2>2. up[u].at = "put" /\ UNCHANGED << disk, here, had, unseen, sessions >>
    BY DEF Put, UpKeeps, local
  <2>3. /\ up'[u].at \in {"put", "row", "confirm"} /\ up'[u].stamp = up[u].stamp
        /\ up'[u].id = up[u].id /\ up'[u].src = up[u].src /\ up'[u].sum = up[u].sum
    BY <2>1, <2>2, UploadTypes DEF Upload
  <2>4. SourceOK(u)' /\ HashOK(u)' /\ SumOK(u)'
    BY <2>2, <2>3, NextStage DEF EachOK, Hashed, Sending
  <2>5. SessionOK(u)'
    BY <2>3 DEF SessionOK
  <2>6. TakenOK(u)'
    <3>1. remote'.data = up[u].sum
      BY <2>1 DEF Stored
    <3> QED
      BY <2>2, <2>3, <2>4, <3>1 DEF TakenOK, SumOK, Hashed
  <2> QED
    BY <2>4, <2>5, <2>6 DEF EachOK
<1> QED
  BY <1>1, <1>2

LEMMA CreateStep ==
  ASSUME TypeOK, NEW u \in Uploaders, EachOK(u), Create(u)
  PROVE  EachOK(u)'
<1>1. CASE up'[u] = Idle
  BY <1>1, IdleOK DEF Idle
<1>2. CASE up'[u] # Idle
  <2> DEFINE s == up[u].stamp
             h == Complete(sessions'[s])
  <2>1. up'[u] = [up[u] EXCEPT !.have = h, !.src = here, !.at = "send"] /\ up[u].at = "create"
    BY <1>2, CreateUp
  <2>2. UNCHANGED << disk, here, had, unseen >>
    BY DEF Create, UpKeeps, local, seen
  <2>3. /\ up'[u].at = "send" /\ up'[u].stamp = s /\ up'[u].id = up[u].id /\ up'[u].src = here
        /\ up'[u].sum = up[u].sum /\ up'[u].have = h /\ up'[u].read = << >>
    BY <2>1, UploadTypes DEF Upload, EachOK, SessionOK
  <2>4. SourceOK(u)' /\ HashOK(u)' /\ SumOK(u)' /\ TakenOK(u)'
    BY <2>1, <2>2, <2>3, NotTaken DEF EachOK, SourceOK, HashOK, SumOK, Hashed, Still, Local
  <2>5. ASSUME NEW i \in h
        PROVE  /\ sessions'[s][i] \notin {Missing, Short}
               /\ ~unseen => sessions'[s][i] = up[u].sum[i]
    <3>1. i \in Pieces /\ sessions'[s][i] \notin {Missing, Short}
      BY DEF Complete
    <3>2. s \in Stamps
      BY UploadTypes
    <3>3. EmptySession[i] = Missing
      BY <3>1, Sizes DEF EmptySession
    <3>4. sessions'[s] = sessions[s] /\ sessions[s] # NoSession
      <4>1. sessions'[s] # EmptySession
        BY <3>1, <3>3
      <4>2. sessions'[s] # NoSession
        BY <1>2, CreateUp
      <4> QED
        BY <3>2, <4>1, <4>2, CreateFacts
    <3>5. ~unseen => sessions[s][i] = up[u].sum[i]
      BY <2>1, <3>1, <3>4 DEF EachOK, SessionOK, Good
    <3> QED
      BY <3>1, <3>4, <3>5
  <2>6. SessionOK(u)'
    <3> HIDE DEF h
    <3>1. Len(<< >>) = 0 /\ 0 < Parts
      BY Sizes
    <3> QED
      BY <2>2, <2>3, <2>5, <3>1 DEF SessionOK, Good
  <2> QED
    BY <2>4, <2>6 DEF EachOK
<1> QED
  BY <1>1, <1>2

LEMMA SkipStep ==
  ASSUME TypeOK, NEW u \in Uploaders, EachOK(u), Skip(u)
  PROVE  EachOK(u)'
<1>1. /\ up[u].at = "send" /\ Len(up[u].read) < Parts /\ Turn(u) \in up[u].have
      /\ up'[u] = [up[u] EXCEPT !.read = Read(u), !.at = AfterRead(u)]
  BY SkipUp DEF EachOK
<1>2. UNCHANGED << disk, here, had, unseen, sessions >>
  BY DEF Skip, UpKeeps, local, net, seen
<1>3. /\ up'[u].at = AfterRead(u) /\ up'[u].stamp = up[u].stamp /\ up'[u].id = up[u].id
      /\ up'[u].src = up[u].src /\ up'[u].sum = up[u].sum /\ up'[u].have = up[u].have
      /\ up'[u].read = Read(u)
  BY <1>1, UploadTypes DEF Upload
<1>4. /\ up[u].read \in Seq(Writes) /\ Len(Read(u)) = Len(up[u].read) + 1 /\ Len(Read(u)) <= Parts
      /\ AfterRead(u) \in {"compare", "send"} /\ (AfterRead(u) = "compare" <=> Len(Read(u)) = Parts)
      /\ Turn(u) = Len(up[u].read) + 1
      /\ \A i \in 1 .. Len(up[u].read) : Read(u)[i] = up[u].read[i]
  BY <1>1, ReadFacts, UploadTypes DEF Turn
<1>5. SourceOK(u)' /\ HashOK(u)' /\ SumOK(u)' /\ TakenOK(u)'
  BY <1>1, <1>2, <1>3, <1>4, NextStage, NotTaken DEF EachOK, Hashed, Sending
<1>6. SessionOK(u)'
  <2>1. up'[u].at = "send" => Len(Read(u)) < Parts
    BY <1>3, <1>4, Sizes
  <2>2. \A i \in 1 .. Len(Read(u)) : i = Turn(u) \/ i \in 1 .. Len(up[u].read)
    BY <1>4
  <2>3. ASSUME sessions[up[u].stamp] # NoSession
        PROVE  /\ \A i \in up[u].have : /\ Good(up[u].stamp, i)
                                        /\ ~unseen => sessions[up[u].stamp][i] = up[u].sum[i]
               /\ \A i \in 1 .. Len(Read(u)) : i \notin up[u].have =>
                    Good(up[u].stamp, i) /\ sessions[up[u].stamp][i] = Read(u)[i]
    BY <1>1, <1>4, <2>2, <2>3 DEF EachOK, SessionOK
  <2> QED
    BY <1>2, <1>3, <1>4, <2>1, <2>3 DEF SessionOK, Good
<1> QED
  BY <1>5, <1>6 DEF EachOK

LEMMA StartChunkStep ==
  ASSUME TypeOK, NEW u \in Uploaders, EachOK(u), StartChunk(u)
  PROVE  EachOK(u)'
<1>1. CASE up'[u] = Idle
  BY <1>1, IdleOK DEF Idle
<1>2. CASE up'[u] # Idle
  <2> DEFINE s == up[u].stamp
  <2>1. /\ up'[u] = [up[u] EXCEPT !.at = "sending"] /\ sessions[s] # NoSession
        /\ sessions' = [sessions EXCEPT ![s][Turn(u)] = Short] /\ up[u].at = "send"
        /\ Turn(u) \in Pieces /\ Turn(u) \notin up[u].have
    BY <1>2, StartChunkUp, StartChunkFacts DEF EachOK
  <2>2. UNCHANGED << disk, here, had, unseen >>
    BY DEF StartChunk, UpKeeps, local, seen
  <2>3. /\ up'[u].at = "sending" /\ up'[u].stamp = s /\ up'[u].id = up[u].id
        /\ up'[u].src = up[u].src /\ up'[u].sum = up[u].sum /\ up'[u].have = up[u].have
        /\ up'[u].read = up[u].read
    BY <2>1, UploadTypes DEF Upload
  <2>4. SourceOK(u)' /\ HashOK(u)' /\ SumOK(u)' /\ TakenOK(u)'
    BY <2>1, <2>2, <2>3, NextStage, NotTaken DEF EachOK, Hashed, Sending
  <2>5. \A j \in Pieces : j # Turn(u) => sessions'[s][j] = sessions[s][j]
    BY <2>1, OneChunk, UploadTypes, Sizes DEF Chunk
  <2>6. /\ \A i \in 1 .. Len(up[u].read) : i \in Pieces /\ i # Turn(u)
        /\ up[u].have \subseteq Pieces
    BY UploadTypes, Sizes DEF Turn
  <2>7. SessionOK(u)'
    BY <2>1, <2>2, <2>3, <2>5, <2>6 DEF EachOK, SessionOK, Good, Turn
  <2> QED
    BY <2>4, <2>7 DEF EachOK
<1> QED
  BY <1>1, <1>2

LEMMA EndChunkStep ==
  ASSUME TypeOK, NEW u \in Uploaders, EachOK(u), EndChunk(u)
  PROVE  EachOK(u)'
<1> DEFINE s == up[u].stamp
           x == disk[up[u].src].data[Turn(u)]
<1>1. /\ up[u].at = "sending" /\ Turn(u) \in Pieces /\ Len(up[u].read) < Parts
      /\ Turn(u) \notin up[u].have /\ x \in Writes /\ x \in Chunk
      /\ sessions' = sessions \/ (sessions[s] # NoSession /\ sessions' = [sessions EXCEPT ![s][Turn(u)] = x])
  BY EndChunkFacts DEF EachOK, Chunk
<1>2. UNCHANGED << disk, here, had, unseen >>
  BY DEF EndChunk, UpKeeps, local, seen
<1>3. /\ \A j \in Pieces : j # Turn(u) => sessions'[s][j] = sessions[s][j]
      /\ sessions[s] = NoSession => sessions'[s] = NoSession
  <2>0. s \in Stamps
    BY UploadTypes
  <2>1. CASE sessions' = sessions
    BY <2>1
  <2>2. CASE sessions[s] # NoSession /\ sessions' = [sessions EXCEPT ![s][Turn(u)] = x]
    <3>1. \A j \in Pieces : j \in 1 .. Parts + 1
      BY Sizes
    <3> HIDE DEF x, s
    <3> QED
      BY <1>1, <2>0, <2>2, <3>1, OneChunk
  <2> QED
    BY <1>1, <2>1, <2>2
<1>4. /\ \A i \in 1 .. Len(up[u].read) : i \in Pieces /\ i # Turn(u)
      /\ up[u].have \subseteq Pieces /\ up[u].read \in Seq(Writes)
  BY UploadTypes, Sizes DEF Turn
\* What the session had of the other chunks it still has.
<1>5. ASSUME sessions'[s] # NoSession
      PROVE  /\ \A i \in up[u].have : /\ sessions'[s][i] \notin {Missing, Short}
                                      /\ ~unseen => sessions'[s][i] = up[u].sum[i]
             /\ \A i \in 1 .. Len(up[u].read) : i \notin up[u].have =>
                  /\ sessions'[s][i] \notin {Missing, Short}
                  /\ sessions'[s][i] = up[u].read[i]
  BY <1>1, <1>3, <1>4, <1>5 DEF EachOK, SessionOK, Good
<1> HIDE DEF x
<1>6. CASE up'[u] = Idle
  BY <1>6, IdleOK DEF Idle
<1>7. CASE up'[u] = [up[u] EXCEPT !.at = "send"]
  <2>1. /\ up'[u].at = "send" /\ up'[u].stamp = s /\ up'[u].id = up[u].id
        /\ up'[u].src = up[u].src /\ up'[u].sum = up[u].sum /\ up'[u].have = up[u].have
        /\ up'[u].read = up[u].read
    BY <1>7, UploadTypes DEF Upload
  <2>2. SourceOK(u)' /\ HashOK(u)' /\ SumOK(u)' /\ TakenOK(u)'
    BY <1>1, <1>2, <2>1, NextStage, NotTaken DEF EachOK, Hashed, Sending
  <2>3. SessionOK(u)'
    BY <1>1, <1>2, <1>5, <2>1 DEF SessionOK, Good
  <2> QED
    BY <2>2, <2>3 DEF EachOK
<1>8. CASE /\ up'[u] = [up[u] EXCEPT !.read = Read(u), !.at = AfterRead(u)]
           /\ sessions[s] # NoSession
           /\ sessions' = [sessions EXCEPT ![s][Turn(u)] = x]
  <2>1. /\ up'[u].at = AfterRead(u) /\ up'[u].stamp = s /\ up'[u].id = up[u].id
        /\ up'[u].src = up[u].src /\ up'[u].sum = up[u].sum /\ up'[u].have = up[u].have
        /\ up'[u].read = Read(u)
    BY <1>8, UploadTypes DEF Upload
  <2>2. /\ Len(Read(u)) = Len(up[u].read) + 1 /\ Len(Read(u)) <= Parts
        /\ AfterRead(u) \in {"compare", "send"} /\ (AfterRead(u) = "compare" <=> Len(Read(u)) = Parts)
        /\ Turn(u) = Len(up[u].read) + 1 /\ Read(u) = Append(up[u].read, x)
    BY <1>1, ReadFacts DEF Turn, x
  <2>3. /\ \A i \in 1 .. Len(up[u].read) : Read(u)[i] = up[u].read[i]
        /\ Read(u)[Turn(u)] = x
    BY <1>1, <1>4, <2>2
  <2>4. SourceOK(u)' /\ HashOK(u)' /\ SumOK(u)' /\ TakenOK(u)'
    BY <1>1, <1>2, <2>1, <2>2, NextStage, NotTaken DEF EachOK, Hashed, Sending
  <2>5. up'[u].at = "send" => Len(Read(u)) < Parts
    BY <2>1, <2>2, Sizes
  <2>6. sessions'[s][Turn(u)] = x /\ x \notin {Missing, Short} /\ sessions'[s] # NoSession
    <3>1. x \notin {Missing, Short}
      BY <1>1 DEF Writes, Missing, Short
    <3> QED
      BY <1>1, <1>8, <3>1, OneChunk, UploadTypes
  <2>7. \A i \in 1 .. Len(Read(u)) : i = Turn(u) \/ i \in 1 .. Len(up[u].read)
    BY <1>4, <2>2
  <2>8. \A i \in 1 .. Len(Read(u)) : i \notin up[u].have =>
          sessions'[s][i] \notin {Missing, Short} /\ sessions'[s][i] = Read(u)[i]
    BY <1>5, <2>3, <2>6, <2>7
  <2>9. SessionOK(u)'
    BY <1>2, <1>5, <2>1, <2>2, <2>5, <2>6, <2>8 DEF SessionOK, Good
  <2> QED
    BY <2>4, <2>9 DEF EachOK
<1> QED
  BY <1>6, <1>7, <1>8, EndChunkUp DEF EachOK, x

LEMMA PruneStep ==
  ASSUME TypeOK, NEW u \in Uploaders, EachOK(u), Prune(u)
  PROVE  EachOK(u)'
<1>1. CASE up'[u] = Idle
  BY <1>1, IdleOK DEF Idle
<1>2. CASE up'[u] # Idle
  <2> DEFINE s == up[u].stamp
  <2>1. PICK p \in {remote.etag, -1} : up'[u] = [up[u] EXCEPT !.pre = p, !.at = "move"]
    BY <1>2, PruneUp
  <2>2. /\ sessions'[s] = Pruned(sessions[s]) /\ up[u].at = "compare" /\ Agrees(u)
        /\ remote' = remote /\ (sessions[s] = NoSession <=> sessions'[s] = NoSession)
        /\ sessions[s] # NoSession => \A i \in Pieces : sessions'[s][i] = sessions[s][i]
    BY <1>2, PruneUp, PruneFacts, UploadTypes
  <2>3. UNCHANGED << disk, here, had, unseen >>
    BY DEF Prune, UpKeeps, local, seen
  <2>4. /\ up'[u].at = "move" /\ up'[u].stamp = s /\ up'[u].id = up[u].id
        /\ up'[u].src = up[u].src /\ up'[u].sum = up[u].sum /\ up'[u].pre = p
    BY <2>1, UploadTypes DEF Upload
  <2>5. SourceOK(u)' /\ HashOK(u)' /\ SumOK(u)'
    BY <2>2, <2>3, <2>4, NextStage DEF EachOK, Hashed, Sending
  <2>6. TakenOK(u)'
    BY <2>2, <2>4 DEF TakenOK, Taken, Appeared
  <2>7. ASSUME sessions[s] # NoSession
        PROVE  sessions'[s][Parts + 1] = Missing
    <3>1. sessions[s] \in Session
      BY <2>7, UploadTypes
    <3> QED
      BY <2>2, <2>7, <3>1, Sizes DEF Pruned, Session
  <2>8. ASSUME sessions[s] # NoSession, NEW i \in Pieces
        PROVE  /\ sessions[s][i] \notin {Missing, Short}
               /\ ~unseen => sessions[s][i] = up[u].sum[i]
    <3>1. CASE i \in up[u].have
      BY <2>2, <2>8, <3>1 DEF EachOK, SessionOK, Good
    <3>2. CASE i \notin up[u].have
      <4>1. i \in 1 .. Len(up[u].read) /\ up[u].read = up[u].sum
        BY <2>2, <2>8, Sizes DEF EachOK, SessionOK, Agrees
      <4> QED
        BY <2>2, <2>8, <3>2, <4>1 DEF EachOK, SessionOK, Good
    <3> QED
      BY <3>1, <3>2
  <2>9. SessionOK(u)'
    BY <2>2, <2>3, <2>4, <2>7, <2>8 DEF SessionOK, Good
  <2> QED
    BY <2>5, <2>6, <2>9 DEF EachOK
<1> QED
  BY <1>1, <1>2

\* An assembly that is begun and an assembly that is done have the file's content.
LEMMA AssembledIsLocal ==
  ASSUME TypeOK, ChunksOK, NEW u \in Uploaders, SessionOK(u), SumOK(u),
         up[u].at = "move", sessions[up[u].stamp] # NoSession, Still(up[u].stamp)
  PROVE  Assembled(up[u].stamp) = Local.data
<1> DEFINE s == up[u].stamp
<1>1. /\ Assembled(s) \in Content /\ \A i \in Pieces : Assembled(s)[i] = sessions[s][i]
      /\ s \in Stamps
  BY AssembledFacts, UploadTypes
<1>2. \A i \in Pieces : sessions[s][i] = Local.data[i]
  BY <1>1 DEF ChunksOK, SessionOK
<1>3. Local.data \in Content
  BY DEF TypeOK, File, Local
<1> QED
  BY <1>1, <1>2, <1>3 DEF Content

LEMMA MoveTakenStep ==
  ASSUME TypeOK, UploadOK, ChunksOK, NEW u \in Uploaders, EachOK(u), MoveTaken(u)
  PROVE  EachOK(u)'
<1> DEFINE s == up[u].stamp
           d == Assembled(s)
<1>1. up[u].at = "move" /\ s \in Stamps /\ sessions[s] # NoSession
  BY MoveTakenFacts
<1>2. UNCHANGED << disk, here, had, unseen >>
  BY DEF MoveTaken, UpKeeps, local
<1>3. Still(s) => d = Local.data
  BY <1>1, AssembledIsLocal DEF EachOK
<1>4. \/ \E e \in NewEtags :
           /\ remote' = Stored(d, up[u].sum, e)
           /\ sessions' = [sessions EXCEPT ![s] = NoSession]
           /\ \/ \E x \in {e, 0} : up'[u] = [up[u] EXCEPT !.etag = x, !.at = "confirm"]
              \/ up'[u] = [up[u] EXCEPT !.at = "poll"]
      \/ UNCHANGED << remote, sessions >> /\ up'[u] = [up[u] EXCEPT !.at = "poll"]
  BY MoveTakenUp
<1> HIDE DEF d
<1>5. /\ up'[u].at \in {"poll", "confirm"} /\ up'[u].stamp = s /\ up'[u].id = up[u].id
      /\ up'[u].src = up[u].src /\ up'[u].sum = up[u].sum /\ up'[u].pre = up[u].pre
      /\ up'[u].since = up[u].since
  BY <1>4, UploadTypes DEF Upload
<1>6. SourceOK(u)' /\ HashOK(u)' /\ SumOK(u)'
  BY <1>1, <1>2, <1>5, NextStage DEF EachOK, Hashed, Sending
<1>7. sessions'[s] = NoSession \/ (sessions' = sessions /\ up'[u].at = "poll")
  BY <1>1, <1>4, <1>5, UploadTypes DEF TypeOK, Upload
<1>8. SessionOK(u)'
  BY <1>1, <1>2, <1>5, <1>7 DEF EachOK, SessionOK, Good
<1>9. remote'.data = d \/ (remote' = remote /\ up'[u].at = "poll")
  <2>1. CASE \E e \in NewEtags : remote' = Stored(d, up[u].sum, e)
    BY <2>1 DEF Stored
  <2>2. CASE UNCHANGED << remote, sessions >> /\ up'[u] = [up[u] EXCEPT !.at = "poll"]
    BY <2>2, UploadTypes DEF Upload
  <2> QED
    BY <1>4, <2>1, <2>2
<1>10. TakenOK(u)'
  BY <1>1, <1>2, <1>3, <1>5, <1>9 DEF EachOK, TakenOK, Taken, Appeared, Still, Local
<1> QED
  BY <1>6, <1>8, <1>10 DEF EachOK

LEMMA MoveFailsStep ==
  ASSUME TypeOK, NEW u \in Uploaders, EachOK(u), MovePoisoned(u) \/ MoveFails(u)
  PROVE  EachOK(u)'
<1>1. CASE up'[u] = Idle
  BY <1>1, IdleOK DEF Idle
<1>2. CASE up'[u] # Idle
  <2>1. up'[u] = [up[u] EXCEPT !.at = "poll"] /\ MoveFails(u) /\ up[u].at = "move"
    BY <1>2, MoveFailsUp
  <2>2. UNCHANGED << disk, here, had, unseen, sessions, remote >>
    BY <2>1 DEF MoveFails, UpKeeps, local, seen, net
  <2>3. /\ up'[u].at = "poll" /\ up'[u].stamp = up[u].stamp /\ up'[u].id = up[u].id
        /\ up'[u].src = up[u].src /\ up'[u].sum = up[u].sum /\ up'[u].pre = up[u].pre
        /\ up'[u].since = up[u].since
    BY <2>1, UploadTypes DEF Upload
  <2>4. SourceOK(u)' /\ HashOK(u)' /\ SumOK(u)'
    BY <2>1, <2>2, <2>3, NextStage DEF EachOK, Hashed, Sending
  <2>5. SessionOK(u)' /\ TakenOK(u)'
    BY <2>1, <2>2, <2>3 DEF EachOK, SessionOK, Good, TakenOK, Taken, Appeared, Still, Local
  <2> QED
    BY <2>4, <2>5 DEF EachOK
<1> QED
  BY <1>1, <1>2

LEMMA PollStep ==
  ASSUME TypeOK, NEW u \in Uploaders, EachOK(u), Poll(u)
  PROVE  EachOK(u)'
<1>0. UNCHANGED << disk, here, had, unseen, sessions, remote >>
  BY DEF Poll, UpKeeps, local, seen, net
<1>1. CASE up'[u] = Idle
  BY <1>1, IdleOK DEF Idle
<1>2. CASE up[u].at = "poll" /\ up'[u] = [up[u] EXCEPT !.at = "move"]
  <2>1. /\ up'[u].at = "move" /\ up'[u].stamp = up[u].stamp /\ up'[u].id = up[u].id
        /\ up'[u].src = up[u].src /\ up'[u].sum = up[u].sum /\ up'[u].pre = up[u].pre
        /\ up'[u].since = up[u].since
    BY <1>2, UploadTypes DEF Upload
  <2>2. SourceOK(u)' /\ HashOK(u)' /\ SumOK(u)'
    BY <1>0, <1>2, <2>1, NextStage DEF EachOK, Hashed, Sending
  <2>3. SessionOK(u)' /\ TakenOK(u)'
    BY <1>0, <1>2, <2>1 DEF EachOK, SessionOK, Good, TakenOK, Taken, Appeared, Still, Local
  <2> QED
    BY <2>2, <2>3 DEF EachOK
<1>3. CASE /\ up[u].at = "poll" /\ Appeared(u)
           /\ up'[u] = [up[u] EXCEPT !.etag = remote.etag, !.at = "confirm"]
  <2>1. /\ up'[u].at = "confirm" /\ up'[u].stamp = up[u].stamp /\ up'[u].id = up[u].id
        /\ up'[u].src = up[u].src /\ up'[u].sum = up[u].sum /\ up'[u].since = up[u].since
    BY <1>3, UploadTypes DEF Upload
  <2>2. SourceOK(u)' /\ HashOK(u)' /\ SumOK(u)'
    BY <1>0, <1>3, <2>1, NextStage DEF EachOK, Hashed, Sending
  <2>3. SessionOK(u)' /\ TakenOK(u)'
    BY <1>0, <1>3, <2>1 DEF EachOK, SessionOK, TakenOK, Taken, Still, Local
  <2> QED
    BY <2>2, <2>3 DEF EachOK
<1> QED
  BY <1>1, <1>2, <1>3, PollUp

LEMMA ConfirmStep ==
  ASSUME TypeOK, RemoteOK, NEW u \in Uploaders, EachOK(u), Confirm(u)
  PROVE  EachOK(u)'
<1>0. up[u].at = "confirm" /\ UNCHANGED << disk, here, had, unseen, sessions, remote >>
  BY DEF Confirm, UpKeeps, local, seen, net
<1>1. CASE up'[u] = Idle
  BY <1>1, IdleOK DEF Idle
<1>2. CASE up'[u] = [up[u] EXCEPT !.at = "row"]
  <2>1. /\ up'[u].at = "row" /\ up'[u].stamp = up[u].stamp /\ up'[u].id = up[u].id
        /\ up'[u].src = up[u].src /\ up'[u].sum = up[u].sum /\ up'[u].etag = up[u].etag
        /\ up'[u].since = up[u].since
    BY <1>2, UploadTypes DEF Upload
  <2>2. SourceOK(u)' /\ HashOK(u)' /\ SumOK(u)'
    BY <1>0, <2>1, NextStage DEF EachOK, Hashed, Sending
  <2>3. SessionOK(u)' /\ TakenOK(u)'
    BY <1>0, <2>1 DEF EachOK, SessionOK, TakenOK, Taken, Still, Local
  <2> QED
    BY <2>2, <2>3 DEF EachOK
<1>3. CASE /\ ~Differs(u)
           /\ up'[u] = [up[u] EXCEPT !.etag = IF up[u].etag = 0 THEN remote.etag ELSE up[u].etag,
                                     !.at = "row",
                                     !.since = IF size = "large" /\ remote.sum # NoSum
                                               THEN {} ELSE up[u].since]
  <2>1. /\ up'[u].at = "row" /\ up'[u].stamp = up[u].stamp /\ up'[u].id = up[u].id
        /\ up'[u].src = up[u].src /\ up'[u].sum = up[u].sum
        /\ up'[u].etag = IF up[u].etag = 0 THEN remote.etag ELSE up[u].etag
        /\ up'[u].since = IF size = "large" /\ remote.sum # NoSum THEN {} ELSE up[u].since
    BY <1>3, UploadTypes DEF Upload
  <2>2. SourceOK(u)' /\ HashOK(u)' /\ SumOK(u)'
    BY <1>0, <2>1, NextStage DEF EachOK, Hashed, Sending
  <2>3. SessionOK(u)'
    BY <1>0, <2>1 DEF EachOK, SessionOK
  <2>4. TakenOK(u)'
    <3>1. CASE size = "large" /\ remote.sum # NoSum
      <4>1. remote.data = up[u].sum
        BY <1>3, <3>1 DEF Differs, RemoteOK
      <4>2. Still(up[u].stamp) => up[u].sum = Local.data
        BY <1>0 DEF EachOK, SumOK, Hashed
      <4> QED
        BY <1>0, <2>1, <4>1, <4>2 DEF TakenOK, Still, Local
    <3>2. CASE ~(size = "large" /\ remote.sum # NoSum)
      <4>1. up'[u].since = up[u].since
        BY <2>1, <3>2
      <4> QED
        BY <1>0, <2>1, <4>1 DEF EachOK, TakenOK, Taken, Still, Local
    <3> QED
      BY <3>1, <3>2
  <2> QED
    BY <2>2, <2>3, <2>4 DEF EachOK
<1> QED
  BY <1>1, <1>2, <1>3, ConfirmUp

LEMMA UploadOKStep ==
  ASSUME TypeOK, Alone, LocalOK, UploadOK, ChunksOK, LandOK, RemoteOK, DownOK, Next
  PROVE  UploadOK'
<1>0. (\A u \in Uploaders : EachOK(u)') => UploadOK'
  BY DEF UploadOK, EachOK
<1>1. CASE Crash
  <2>1. \A u \in Uploaders : up'[u].at = "idle"
    BY <1>1 DEF Crash, Idle
  <2> QED
    BY <1>0, <2>1, IdleOK
<1>2. CASE World \/ DownBegins \/ DownStep \/ Rests \/ Landing
  BY <1>0, <1>2, OthersKeep
<1>3. ASSUME NEW u \in Uploaders, Begin(u) \/ UploadStep(u)
      PROVE  UploadOK'
  <2>1. ASSUME NEW v \in Uploaders, v # u
        PROVE  EachOK(v)'
    <3>1. up[v].at = "idle"
      BY <1>3, <2>1, StepIsActive, OthersIdle DEF Begin, Gate, Active
    <3>2. up'[v] = up[v]
      BY <1>3, <2>1, StepUp DEF OthersSame
    <3> QED
      BY <3>1, <3>2, IdleOK
  <2>2. EachOK(u)'
    <3>1. EachOK(u)
      BY DEF UploadOK, EachOK
    <3>2. CASE Compare(u) \/ Record(u)
      BY <3>2, CompareUp, RecordUp, IdleOK DEF Idle
    <3> QED
      BY <1>3, <3>1, <3>2, BeginStep, HashStep, CheckStep, PutStep, CreateStep, SkipStep, StartChunkStep,
         EndChunkStep, PruneStep, MoveTakenStep, MoveFailsStep, PollStep, ConfirmStep DEF UploadStep
  <2> QED
    BY <1>0, <2>1, <2>2
<1> QED
  BY <1>1, <1>2, <1>3 DEF Next, Ours

-----------------------------------------------------------------------------
(* The rest of the invariant *)

LEMMA SessionStillKept ==
  ASSUME TypeOK, DownOK, Next, NEW s \in Stamps, sessions[s] # NoSession, Local'.stamp = s, ~Local'.unseen
  PROVE  Still(s) /\ Local'.data = Local.data
  BY StillKept DEF InUse

\* Chunks that go do no harm.
LEMMA FewerChunks ==
  ASSUME TypeOK, DownOK, ChunksOK, Next, NEW s \in Stamps, sessions'[s] # NoSession,
         Local'.stamp = s, ~Local'.unseen, sessions[s] # NoSession,
         NEW i \in Pieces, sessions'[s][i] \notin {Missing, Short}, sessions'[s][i] = sessions[s][i]
  PROVE  sessions'[s][i] = Local'.data[i]
  BY SessionStillKept DEF ChunksOK, Good

LEMMA ChunksStep ==
  ASSUME TypeOK, UploadOK, DownOK, ChunksOK, Next
  PROVE  ChunksOK'
<1> DEFINE New(s, i) == sessions'[s] # NoSession /\ Local'.stamp = s /\ ~Local'.unseen
                        /\ sessions'[s][i] \notin {Missing, Short}
<1>0. SUFFICES ASSUME NEW s \in Stamps, NEW i \in Pieces, New(s, i)
               PROVE  sessions'[s][i] = Local'.data[i]
  BY DEF ChunksOK, Good, Still
<1>1. CASE sessions'[s] = sessions[s]
  BY <1>0, <1>1, FewerChunks
<1>2. CASE Leftover
  <2>1. CASE s = Local.stamp
    <3>1. i # Parts + 1 /\ i \in 1 .. Parts + 1
      BY Sizes
    <3>2. sessions'[s][i] = Short
      BY <1>2, <2>1, <3>1 DEF Leftover, TypeOK
    <3> QED
      BY <1>0, <3>2
  <2>2. CASE s # Local.stamp
    <3>1. sessions'[s] = sessions[s]
      BY <1>2, <2>2 DEF Leftover, TypeOK
    <3> QED
      BY <1>1, <3>1
  <2> QED
    BY <2>1, <2>2
<1>3. CASE (\E t \in Stamps : Collect(t)) \/ Landing
  <2>1. sessions'[s] \in {sessions[s], NoSession}
    BY <1>3 DEF Collect, Landing, Land, TypeOK
  <2> QED
    BY <1>0, <1>1, <2>1
<1>4. ASSUME NEW u \in Uploaders, Create(u)
      PROVE  sessions'[s][i] = Local'.data[i]
  <2>1. sessions'[s] # EmptySession
    BY <1>0, Sizes DEF EmptySession
  <2> QED
    BY <1>1, <1>4, <2>1, CreateFacts
<1>5. ASSUME NEW u \in Uploaders, StartChunk(u)
      PROVE  sessions'[s][i] = Local'.data[i]
  <2>1. CASE sessions' = sessions
    BY <1>1, <2>1
  <2>2. CASE /\ sessions[up[u].stamp] # NoSession
             /\ sessions' = [sessions EXCEPT ![up[u].stamp][Turn(u)] = Short]
    <3>1. up[u].stamp \in Stamps /\ Turn(u) \in Pieces /\ i \in 1 .. Parts + 1 /\ Short \in Chunk
      <4>1. i \in 1 .. Parts + 1
        BY Sizes
      <4>2. Short \in Chunk /\ up[u].stamp \in Stamps
        BY UploadTypes DEF Chunk
      <4>3. Turn(u) \in Pieces
        BY <1>5, StartChunkFacts DEF UploadOK
      <4> QED
        BY <4>1, <4>2, <4>3
    <3>2. CASE s = up[u].stamp /\ i = Turn(u)
      <4>1. sessions'[s][i] = Short
        BY <2>2, <3>1, <3>2, OneChunk
      <4> QED
        BY <1>0, <4>1
    <3>3. CASE s = up[u].stamp /\ i # Turn(u)
      <4>1. sessions'[s][i] = sessions[s][i]
        BY <2>2, <3>1, <3>3, OneChunk
      <4> QED
        BY <1>0, <2>2, <3>3, <4>1, FewerChunks
    <3>4. CASE s # up[u].stamp
      <4>1. sessions'[s] = sessions[s]
        BY <2>2, <3>1, <3>4, OneChunk
      <4> QED
        BY <1>1, <4>1
    <3> QED
      BY <3>2, <3>3, <3>4
  <2> QED
    BY <1>5, <2>1, <2>2, StartChunkFacts DEF UploadOK
<1>6. ASSUME NEW u \in Uploaders, EndChunk(u)
      PROVE  sessions'[s][i] = Local'.data[i]
  <2> DEFINE x == disk[up[u].src].data[Turn(u)]
  <2>1. CASE sessions' = sessions
    BY <1>1, <2>1
  <2>2. CASE sessions[up[u].stamp] # NoSession /\ sessions' = [sessions EXCEPT ![up[u].stamp][Turn(u)] = x]
    <3>1. up[u].stamp \in Stamps /\ Turn(u) \in Pieces /\ i \in 1 .. Parts + 1 /\ x \in Chunk
      <4>1. i \in 1 .. Parts + 1
        BY Sizes
      <4>2. up[u].stamp \in Stamps
        BY UploadTypes
      <4>3. Turn(u) \in Pieces /\ x \in Writes
        BY <1>6, EndChunkFacts DEF UploadOK
      <4>4. x \in Chunk
        BY <4>3 DEF Chunk
      <4> HIDE DEF x
      <4> QED
        BY <4>1, <4>2, <4>3, <4>4
    <3>5. x = disk[up[u].src].data[Turn(u)]
      OBVIOUS
    <3> HIDE DEF x
    <3>2. CASE s = up[u].stamp /\ i = Turn(u)
      <4>1. sessions'[s][i] = x
        BY <2>2, <3>1, <3>2, OneChunk
      <4>2. UNCHANGED << disk, here >> /\ up[u].at = "sending"
        BY <1>6 DEF EndChunk, UpKeeps, local
      <4>3. up[u].src = here
        BY <1>0, <3>2, <4>2 DEF UploadOK, SourceOK, Local
      <4> QED
        BY <3>2, <3>5, <4>1, <4>2, <4>3 DEF Local
    <3>3. CASE s = up[u].stamp /\ i # Turn(u)
      <4>1. sessions'[s][i] = sessions[s][i]
        BY <2>2, <3>1, <3>3, OneChunk
      <4> QED
        BY <1>0, <2>2, <3>3, <4>1, FewerChunks
    <3>4. CASE s # up[u].stamp
      <4>1. sessions'[s] = sessions[s]
        BY <2>2, <3>1, <3>4, OneChunk
      <4> QED
        BY <1>1, <4>1
    <3> QED
      BY <3>2, <3>3, <3>4
  <2> QED
    BY <1>6, <2>1, <2>2, EndChunkFacts DEF UploadOK
<1>7. ASSUME NEW u \in Uploaders, Prune(u)
      PROVE  sessions'[s][i] = Local'.data[i]
  <2>1. sessions[s] # NoSession /\ sessions'[s][i] = sessions[s][i]
    BY <1>0, <1>7, PruneFacts
  <2> QED
    BY <1>0, <2>1, FewerChunks
<1>8. ASSUME NEW u \in Uploaders, Compare(u) \/ MovePoisoned(u)
      PROVE  sessions'[s][i] = Local'.data[i]
  <2>1. sessions'[s] \in {sessions[s], NoSession}
    BY <1>8, DropsFacts DEF Compare, MovePoisoned
  <2> QED
    BY <1>0, <1>1, <2>1
<1>9. ASSUME NEW u \in Uploaders, MoveTaken(u)
      PROVE  sessions'[s][i] = Local'.data[i]
  <2>1. sessions' = sessions \/ sessions' = [sessions EXCEPT ![up[u].stamp] = NoSession]
    BY <1>9, MoveTakenFacts
  <2>2. sessions'[s] \in {sessions[s], NoSession}
    BY <2>1 DEF TypeOK
  <2> QED
    BY <1>0, <1>1, <2>2
<1>10. ASSUME NEW u \in Uploaders, Put(u)
       PROVE  sessions'[s][i] = Local'.data[i]
  BY <1>1, <1>10, PutFacts
<1>11. CASE Theirs
  BY <1>1, <1>11 DEF Theirs
<1> QED
  BY <1>1, <1>2, <1>3, <1>4, <1>5, <1>6, <1>7, <1>8, <1>9, <1>10, <1>11, NetBy

LEMMA LandStep ==
  ASSUME TypeOK, UploadOK, DownOK, ChunksOK, LandOK, Next
  PROVE  LandOK'
<1>0. server' = server
  BY RestKeeps
<1>1. ASSUME NEW l \in landing
      PROVE  /\ ~unseen' => l.data \in had'
             /\ server' = "verifies" => l.data = l.sum
             /\ Local'.stamp = l.stamp /\ ~Local'.unseen => l.data = Local'.data
  <2>1. Local'.stamp = l.stamp /\ ~Local'.unseen => Still(l.stamp) /\ Local'.data = Local.data
    BY StillKept DEF InUse
  <2> QED
    BY <1>0, <2>1, HistoryKept DEF LandOK
<1>2. CASE landing' \subseteq landing
  BY <1>1, <1>2 DEF LandOK, Still
<1>3. ASSUME NEW u \in Uploaders, MoveTaken(u)
      PROVE  LandOK'
  <2> DEFINE s == up[u].stamp
             d == Assembled(s)
             n == [stamp |-> s, data |-> d, sum |-> up[u].sum]
  <2>1. /\ up[u].at = "move" /\ sessions[s] # NoSession /\ SessionOK(u) /\ SumOK(u)
        /\ server = "verifies" => d = up[u].sum
        /\ ~unseen => d = up[u].sum
        /\ landing' \subseteq landing \cup {n}
    BY <1>3, MoveTakenFacts DEF UploadOK
  <2>2. ~unseen => d \in had
    BY <2>1 DEF SumOK, Hashed
  <2>3. Still(s) => d = Local.data
    BY <2>1, AssembledIsLocal
  <2>4. UNCHANGED << disk, here, had, unseen >>
    BY <1>3 DEF MoveTaken, UpKeeps, local
  <2>5. n.stamp = s /\ n.data = d /\ n.sum = up[u].sum
    OBVIOUS
  <2> HIDE DEF n, d, s
  <2>6. /\ ~unseen' => n.data \in had'
        /\ server' = "verifies" => n.data = n.sum
        /\ Local'.stamp = n.stamp /\ ~Local'.unseen => n.data = Local'.data
    BY <1>0, <2>1, <2>2, <2>3, <2>4, <2>5 DEF Still, Local
  <2> QED
    BY <1>1, <2>1, <2>6 DEF LandOK, Still
<1>4. landing' \subseteq landing \/ \E u \in Uploaders : MoveTaken(u)
  <2>1. Theirs \/ Leftover \/ (\E s \in Stamps : Collect(s)) \/ Landing => landing' \subseteq landing
    BY DEF Theirs, Leftover, Collect, Landing, Land
  <2>2. ASSUME NEW u \in Uploaders, Put(u) \/ Create(u) \/ StartChunk(u) \/ EndChunk(u) \/ Compare(u)
                                    \/ Prune(u) \/ MovePoisoned(u)
        PROVE  landing' = landing
    BY <2>2 DEF Put, Create, StartChunk, EndChunk, Compare, Prune, MovePoisoned
  <2> QED
    BY <2>1, <2>2, NetBy
<1> QED
  BY <1>2, <1>3, <1>4

LEMMA RemoteStep ==
  ASSUME TypeOK, UploadOK, DownOK, LandOK, RemoteOK, Next
  PROVE  RemoteOK'
<1>1. CASE remote' = remote
  BY <1>1, HistoryKept DEF RemoteOK
\* What is stored of content d, declared as s.
<1>2. ASSUME NEW d \in Content, NEW s \in Content, NEW e \in NewEtags, remote' = Stored(d, s, e),
             d \in served', server = "verifies" => d = s, ~unseen => d \in had
      PROVE  RemoteOK'
  BY <1>2, StoredType, HistoryKept DEF RemoteOK
<1>3. CASE Theirs
  <2>1. PICK s \in {NoSum, Const(written')}, e \in NewEtags :
          remote' = [data |-> Const(written'), etag |-> e, sum |-> s, ours |-> FALSE]
    BY <1>3 DEF Theirs
  <2> QED
    BY <1>3, <2>1 DEF RemoteOK, Theirs
<1>4. CASE Landing
  <2>1. PICK l \in landing : Land(l)
    BY <1>4 DEF Landing
  <2>2. l.data \in Content /\ l.sum \in Content
    BY <2>1 DEF TypeOK, Assembly
  <2>3. PICK e \in NewEtags : remote' = Stored(l.data, l.sum, e)
    BY <2>1 DEF Land
  <2>4. l.data \in served'
    BY <2>1 DEF Land
  <2>5. (server = "verifies" => l.data = l.sum) /\ (~unseen => l.data \in had)
    BY DEF LandOK
  <2> QED
    BY <1>2, <2>2, <2>3, <2>4, <2>5
<1>5. ASSUME NEW u \in Uploaders, Put(u)
      PROVE  RemoteOK'
  <2>1. up[u].sum \in Content /\ (~unseen => up[u].sum \in had)
    BY <1>5 DEF Put, UploadOK, SumOK, Hashed
  <2>2. remote' = remote \/ \E e \in NewEtags : /\ remote' = Stored(up[u].sum, up[u].sum, e)
                                                /\ up[u].sum \in served'
    BY <1>5, PutFacts
  <2> QED
    BY <1>1, <1>2, <2>1, <2>2
<1>6. ASSUME NEW u \in Uploaders, MoveTaken(u)
      PROVE  RemoteOK'
  <2> DEFINE d == Assembled(up[u].stamp)
  <2>1. /\ up[u].at = "move" /\ d \in Content /\ up[u].sum \in Content
        /\ server = "verifies" => d = up[u].sum
        /\ ~unseen => d = up[u].sum
    BY <1>6, MoveTakenFacts
  <2>2. ~unseen => d \in had
    BY <2>1 DEF UploadOK, SumOK, Hashed
  <2>3. remote' = remote \/ \E e \in NewEtags : remote' = Stored(d, up[u].sum, e) /\ d \in served'
    BY <1>6, MoveTakenFacts
  <2> HIDE DEF d
  <2> QED
    BY <1>1, <1>2, <2>1, <2>2, <2>3
<1>7. Leftover \/ (\E s \in Stamps : Collect(s)) => remote' = remote
  BY DEF Leftover, Collect
<1>8. ASSUME NEW u \in Uploaders, Create(u) \/ StartChunk(u) \/ EndChunk(u) \/ Compare(u)
                                  \/ Prune(u) \/ MovePoisoned(u)
      PROVE  remote' = remote
  BY <1>8 DEF Create, StartChunk, EndChunk, Compare, Prune, MovePoisoned
<1> QED
  BY <1>1, <1>3, <1>4, <1>5, <1>6, <1>7, <1>8, NetBy

LEMMA DownKept ==
  ASSUME TypeOK, UploadOK, DownOK, Next, UNCHANGED << down, part >>
  PROVE  DownOK'
<1>1. down.at \in {"body", "rename"} =>
        /\ down'.hashed = part'
        /\ ~down'.resumed => \A i \in 1 .. Len(part') : part'[i] = down'.body[i]
  BY DEF DownOK
<1>2. down.at = "rename" => Len(part') = Parts /\ Matches'
  BY DEF DownOK, Matches
<1>3. ASSUME down.at \in {"body", "rename", "row"}
      PROVE  /\ down'.body \in Content /\ down'.body \in served' /\ down'.sum \in {NoSum, down'.body}
             /\ remote'.etag = down'.etag => remote'.data = down'.body
  <2>1. /\ down.body \in Content /\ down.body \in served /\ down.sum \in {NoSum, down.body}
        /\ remote.etag = down.etag => remote.data = down.body
    BY <1>3 DEF DownOK
  <2>2. remote' = remote \/ remote'.etag # down.etag
    BY RemoteKept, NewEtagFacts
  <2> QED
    BY <2>1, <2>2, HistoryKept
<1>4. ASSUME down.at = "row", Local'.stamp = down.stamp, ~Local'.unseen, ~Blind
      PROVE  Local'.data = down.body
  <2>1. Still(down.stamp) /\ Local'.data = Local.data
    BY <1>4, StillKept DEF InUse
  <2> QED
    BY <1>4, <2>1 DEF DownOK
<1> QED
  <2>1. down' = down /\ part' = part
    OBVIOUS
  <2>2. (down.at = "row" /\ Still(down.stamp) /\ ~Blind => Local.data = down.body)'
    BY <1>4, <2>1 DEF Still, Blind
  <2>3. (down.at \in {"body", "rename"} =>
          /\ down.hashed = part
          /\ ~down.resumed => \A i \in 1 .. Len(part) : part[i] = down.body[i])'
    BY <1>1, <2>1
  <2>4. (down.at = "rename" => Len(part) = Parts /\ Matches)'
    BY <1>2, <2>1
  <2>5. (down.at \in {"body", "rename", "row"} =>
          /\ down.body \in Content /\ down.body \in served /\ down.sum \in {NoSum, down.body}
          /\ remote.etag = down.etag => remote.data = down.body)'
    BY <1>3, <2>1
  <2> QED
    BY <2>2, <2>3, <2>4, <2>5 DEF DownOK

LEMMA DownOKStep ==
  ASSUME TypeOK, UploadOK, DownOK, RemoteOK, Next
  PROVE  DownOK'
<1>0. down'.at \in {"idle", "get"} => DownOK'
  BY DEF DownOK
<1>1. CASE UNCHANGED << down, part >>
  BY <1>1, DownKept
<1>2. CASE Crash \/ DownBegins \/ GetRefused \/ DownRecord
  <2>1. down' = NoDownload \/ down' = [NoDownload EXCEPT !.at = "get", !.etag = remote.etag]
    BY <1>2 DEF Crash, DownBegins, GetRefused, DownRecord
  <2>2. NoDownload.at = "idle" /\ [NoDownload EXCEPT !.at = "get", !.etag = remote.etag].at = "get"
    BY DEF NoDownload
  <2>3. down'.at \in {"idle", "get"}
    BY <2>1, <2>2
  <2> QED
    BY <1>0, <2>3
<1>3. CASE Get
  <2>1. PICK b \in BOOLEAN :
          /\ ~b => part' = << >>
          /\ down' = [down EXCEPT !.at = "body", !.body = remote.data, !.sum = remote.sum,
                                  !.etag = remote.etag, !.resumed = b, !.hashed = part']
    BY <1>3, GetFacts
  <2>2. /\ down'.at = "body" /\ down'.body = remote.data /\ down'.sum = remote.sum
        /\ down'.hashed = part' /\ down'.resumed = b
    BY <2>1, DownTypes DEF Download
  <2>3. remote' = remote /\ served' = served
    BY <1>3 DEF Get, DownKeeps, net, seen
  <2>4. remote.data \in Content /\ remote.data \in served /\ remote.sum \in {NoSum, remote.data}
    BY DEF TypeOK, OnServer, RemoteOK
  <2>5. ~b => \A i \in 1 .. Len(part') : part'[i] = remote.data[i]
    BY <2>1
  <2> QED
    BY <2>2, <2>3, <2>4, <2>5 DEF DownOK
<1>4. CASE Receive
  <2>1. CASE down' = NoDownload
    BY <1>0, <2>1 DEF NoDownload
  <2>2. CASE down' # NoDownload
    <3> DEFINE x == down.body[Len(part) + 1]
    <3>1. /\ down.at = "body" /\ Len(part) < Parts /\ part' = Append(part, x)
          /\ down' = [down EXCEPT !.hashed = Append(down.hashed, x)]
      BY <1>4, <2>2, ReceiveFacts
    <3>2. /\ down'.at = "body" /\ down'.body = down.body /\ down'.sum = down.sum /\ down'.etag = down.etag
          /\ down'.hashed = Append(down.hashed, x) /\ down'.resumed = down.resumed
      BY <3>1, DownTypes DEF Download
    <3>3. remote' = remote /\ served' = served
      BY <1>4 DEF Receive, DownKeeps, net, seen
    <3>4. down.hashed = part /\ (~down.resumed => \A i \in 1 .. Len(part) : part[i] = down.body[i])
      BY <3>1 DEF DownOK
    <3>5. ASSUME ~down.resumed, NEW i \in 1 .. Len(part')
          PROVE  part'[i] = down.body[i]
      <4>1. CASE i \in 1 .. Len(part)
        BY <3>1, <3>4, <3>5, <4>1, DownTypes
      <4>2. CASE i = Len(part) + 1
        BY <3>1, <4>2, DownTypes
      <4> QED
        BY <3>1, <4>1, <4>2, DownTypes
    <3> HIDE DEF x
    <3> QED
      BY <3>1, <3>2, <3>3, <3>4, <3>5 DEF DownOK
  <2> QED
    BY <2>1, <2>2
<1>5. CASE Verify
  <2>1. CASE down' = NoDownload
    BY <1>0, <2>1 DEF NoDownload
  <2>2. CASE down' # NoDownload
    <3>1. /\ down.at = "body" /\ Len(part) = Parts /\ Matches
          /\ down' = [down EXCEPT !.at = "rename"] /\ part' = part
      BY <1>5, <2>2 DEF Verify
    <3>2. /\ down'.at = "rename" /\ down'.body = down.body /\ down'.sum = down.sum /\ down'.etag = down.etag
          /\ down'.hashed = down.hashed /\ down'.resumed = down.resumed
      BY <3>1, DownTypes DEF Download
    <3>3. remote' = remote /\ served' = served
      BY <1>5 DEF Verify, DownKeeps, net, seen
    <3> QED
      BY <3>1, <3>2, <3>3 DEF DownOK, Matches
  <2> QED
    BY <2>1, <2>2
<1>6. CASE Commit
  <2>1. CASE down' = NoDownload
    BY <1>0, <2>1 DEF NoDownload
  <2>2. CASE down' # NoDownload
    <3>1. PICK i \in NewIds, s \in NewStamps :
             LET w == part \in served \/ (down.sum = NoSum /\ down.resumed) IN
             /\ disk' = [disk EXCEPT ![i] = [data |-> part, stamp |-> s, unseen |-> FALSE, whole |-> w]]
             /\ here' = i /\ down' = [down EXCEPT !.at = "row", !.stamp = s]
      BY <1>6, <2>2, CommitFacts
    <3>2. /\ down'.at = "row" /\ down'.body = down.body /\ down'.sum = down.sum /\ down'.etag = down.etag
          /\ down'.resumed = down.resumed
      BY <3>1, DownTypes DEF Download
    <3>3. remote' = remote /\ served' = served /\ down.at = "rename"
      BY <1>6 DEF Commit, DownKeeps, net
    <3>4. Local'.data = part
      BY <3>1, NewIdFacts DEF Local, TypeOK
    <3>5. ~Blind => part = down.body
      <4>1. part \in Content
        BY <3>3, WholeIsContent, DownTypes DEF DownOK
      <4>2. down.sum # NoSum => part = down.body
        BY <3>3 DEF DownOK, Matches
      <4>3. ~down.resumed => part = down.body
        BY <3>3, <4>1, Sizes DEF DownOK, Content
      <4> QED
        BY <4>2, <4>3 DEF Blind
    <3> QED
      BY <3>2, <3>3, <3>4, <3>5 DEF DownOK, Blind
  <2> QED
    BY <2>1, <2>2
<1> QED
  BY <1>1, <1>2, <1>3, <1>4, <1>5, <1>6, DownBy DEF DownStep

LEMMA SyncedStep ==
  ASSUME TypeOK, UploadOK, DownOK, SyncedIsSame, Next
  PROVE  SyncedIsSame'
<1>1. CASE row' = row
  <2>1. ASSUME Local'.stamp = row.stamp, ~Local'.unseen
        PROVE  Still(row.stamp) /\ Local'.data = Local.data
    BY <2>1, StillKept DEF InUse
  <2>2. remote' = remote \/ remote'.etag # row.etag
    BY RemoteKept, NewEtagFacts
  <2> QED
    BY <1>1, <2>1, <2>2 DEF SyncedIsSame, Synced, Still
<1>2. CASE DownRecord
  <2>1. UNCHANGED << disk, here, remote >> /\ down.at = "row"
    BY <1>2 DEF DownRecord, DownKeeps, local, net
  <2>2. row'.stamp = down.stamp /\ row'.etag = down.etag /\ (row'.blind <=> Blind)
    BY <1>2 DEF DownRecord, Blind
  <2>3. /\ remote.etag = down.etag => remote.data = down.body
        /\ Still(down.stamp) /\ ~Blind => Local.data = down.body
    BY <2>1 DEF DownOK
  <2> QED
    BY <2>1, <2>2, <2>3 DEF SyncedIsSame, Synced, Still, Local
<1>3. ASSUME NEW u \in Uploaders, Record(u)
      PROVE  SyncedIsSame'
  <2>1. UNCHANGED << disk, here, remote >> /\ up[u].at = "row"
    BY <1>3 DEF Record, local, net
  <2>2. row'.stamp = up[u].stamp /\ row'.etag = up[u].etag /\ row'.since = up[u].since
    BY <1>3 DEF Record
  <2>3. TakenOK(u)
    BY DEF UploadOK
  <2> QED
    BY <2>1, <2>2, <2>3 DEF SyncedIsSame, Synced, Still, Local, TakenOK, Taken
<1> QED
  BY <1>1, <1>2, <1>3, RowBy

LEMMA SpoiledStep ==
  ASSUME TypeOK, UploadOK, NotSpoiled, Next
  PROVE  NotSpoiled'
<1>1. ASSUME NEW u \in Uploaders, MovePoisoned(u)
      PROVE  NotSpoiled'
  <2>1. /\ up[u].at = "move" /\ sessions[up[u].stamp] # NoSession
        /\ Assembled(up[u].stamp) # up[u].sum
        /\ spoiled' <=> spoiled \/ ~unseen
    BY <1>1 DEF MovePoisoned, Accepts, SessionOf
  <2>2. unseen
    BY <2>1, AssembledFacts DEF UploadOK
  <2> QED
    BY <2>1, <2>2 DEF NotSpoiled
<1>2. ASSUME NEW u \in Uploaders, Put(u) \/ Create(u) \/ StartChunk(u) \/ EndChunk(u) \/ Compare(u)
                                  \/ Prune(u) \/ MoveTaken(u)
      PROVE  spoiled' = spoiled
  BY <1>2 DEF Put, Create, StartChunk, EndChunk, Compare, Prune, MoveTaken, seen
<1>3. Theirs \/ Leftover \/ (\E s \in Stamps : Collect(s)) \/ Landing => spoiled' = spoiled
  BY DEF Theirs, Leftover, Collect, Landing, Land, seen
<1> QED
  BY <1>1, <1>2, <1>3, NetBy DEF NotSpoiled

-----------------------------------------------------------------------------
(* The theorems *)

LEMMA InitOK == Init => IInv
<1> SUFFICES ASSUME Init PROVE IInv
  OBVIOUS
<1> DEFINE f == [data |-> Const(0), stamp |-> 1, whole |-> TRUE, unseen |-> FALSE]
<1>1. f \in File
  BY Consts DEF File
<1>2. disk = [i \in Ids |-> f] /\ here = 1 /\ Local = f /\ disk \in [Ids -> File] /\ here \in Ids
  BY <1>1, Consts DEF Init, Local
<1>3. \E s \in {NoSum, Const(0)} : remote = [data |-> Const(0), etag |-> 1, sum |-> s, ours |-> FALSE]
  BY DEF Init
<1>4. remote \in OnServer /\ remote.data = Const(0) /\ remote.sum \in {NoSum, Const(0)} /\ ~remote.ours
  BY <1>3, Consts DEF OnServer
<1>5. up \in [Uploaders -> Upload] /\ \A u \in Uploaders : up[u] = Idle /\ Len(up[u].read) <= Parts
  BY IdleType DEF Init
<1>6. down \in Download /\ part \in Seq(Writes) /\ Len(part) <= Parts /\ down.at = "idle"
  BY NoDownloadType, Sizes DEF Init, NoDownload
<1>7. row \in Row /\ had \subseteq Content /\ served \subseteq Content
  BY Consts DEF Init, Row
<1>8. sessions \in [Stamps -> Session \cup {NoSession}] /\ landing = {} /\ \A s \in Stamps : sessions[s] = NoSession
  BY DEF Init
<1>9. TypeOK
  BY <1>2, <1>4, <1>5, <1>6, <1>7, <1>8, Consts DEF Init, TypeOK
<1>10. \A u \in Uploaders : up[u].at = "idle"
  BY <1>5 DEF Idle
<1>11. Alone /\ UploadOK
  BY <1>6, <1>10 DEF Alone, Active, UploadOK, SourceOK, HashOK, SumOK, SessionOK, TakenOK, Taken, Hashed
<1>12. LocalOK /\ ChunksOK /\ LandOK
  BY <1>2, <1>8 DEF Init, LocalOK, ChunksOK, LandOK
<1>13. RemoteOK /\ DownOK
  BY <1>4, <1>6 DEF Init, RemoteOK, DownOK
<1>14. SyncedIsSame /\ NotSpoiled
  BY <1>2, <1>4 DEF Init, SyncedIsSame, NotSpoiled
<1> QED
  BY <1>9, <1>11, <1>12, <1>13, <1>14 DEF IInv

LEMMA StepOK == IInv /\ [Next]_vars => IInv'
<1>1. ASSUME IInv, Next PROVE IInv'
  BY <1>1, TypeStep, AloneStep, LocalStep, UploadOKStep, ChunksStep, LandStep, RemoteStep, DownOKStep,
     SyncedStep, SpoiledStep DEF IInv
<1>2. ASSUME IInv, UNCHANGED vars PROVE IInv'
  <2> USE <1>2 DEF vars
  <2>1. TypeOK'
    BY DEF IInv, TypeOK
  <2>2. Alone' /\ LocalOK'
    BY DEF IInv, Alone, Active, LocalOK, Local
  <2>3. UploadOK'
    BY DEF IInv, UploadOK, SourceOK, HashOK, SumOK, SessionOK, TakenOK, Taken, Appeared, Still, Good, Local
  <2>4. ChunksOK' /\ LandOK' /\ RemoteOK'
    BY DEF IInv, ChunksOK, LandOK, RemoteOK, Still, Good, Local
  <2>5. DownOK'
    BY DEF IInv, DownOK, Matches, Blind, Still, Local
  <2>6. SyncedIsSame' /\ NotSpoiled'
    BY DEF IInv, SyncedIsSame, Synced, NotSpoiled, Local
  <2> QED
    BY <2>1, <2>2, <2>3, <2>4, <2>5, <2>6 DEF IInv
<1> QED
  BY <1>1, <1>2

LEMMA IInvAlways == Spec => []IInv
  BY InitOK, StepOK, PTL DEF Spec

\* The type invariant.
THEOREM TypeCorrect == Spec => []TypeOK
<1>1. IInv => TypeOK
  BY DEF IInv
<1> QED
  BY <1>1, IInvAlways, PTL

\* What either end has of the other is whole: the server a content the file had, the
\* name a version the server had, but for the two cases nobody could tell; and no
\* assembly is refused for what an earlier attempt left in the session.
THEOREM WholeAlways == Spec => []Whole
<1>1. IInv => Whole
  BY DEF IInv, RemoteOK, LocalOK, Whole, WholeOnServer, WholeOnDisk
<1> QED
  BY <1>1, IInvAlways, PTL

\* What the baseline row calls synced is the same on both sides.
THEOREM SyncedIsSameAlways == Spec => []SyncedIsSame
<1>1. IInv => SyncedIsSame
  BY DEF IInv
<1> QED
  BY <1>1, IInvAlways, PTL
=============================================================================
