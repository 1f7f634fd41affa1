----------------------------- MODULE SyncProofs -----------------------------
(***************************************************************************)
(* What is proved of Sync, for any sets of names, any number of writes, of *)
(* ETags and of file ids in use, and any of the troubles in Happens: its   *)
(* type invariant, and that what the diff takes for synced is the same on  *)
(* both sides.  The inductive invariant SyncInv says that an ETag stands   *)
(* for one content wherever it is held (Etagged), what each row of the     *)
(* baseline promises (Rows), and what a step of the pass may count on when *)
(* it makes a row (OpRows).                                                *)
(***************************************************************************)
EXTENDS Sync, FiniteSetTheorems, TLAPS

-----------------------------------------------------------------------------
(* Types *)

LEMMA Numbers == 0 \in Contents /\ 0 \in Etags /\ 0 \in Ids /\ \A x \in Contents : x \in Int /\ x >= 0 /\ x # Never
BY SyncAssumption DEF SyncAssumption, Contents, Etags, Ids, Never

LEMMA GoneIsFile == Gone \in File
BY Numbers DEF Gone, File

LEMMA NoRowIsRow == NoRow \in BaseRow
BY Numbers DEF NoRow, BaseRow

LEMMA NoOpIsOp == NoOp \in Op
BY Numbers, GoneIsFile DEF NoOp, Op, Kinds, Steps

LEMMA AFile == ASSUME NEW f \in File PROVE f.c \in Contents /\ f.etag \in Etags /\ f.id \in Ids /\ f.sum \in BOOLEAN
BY DEF File

LEMMA AnOp == ASSUME NEW o \in Op
  PROVE o.kind \in Kinds /\ o.step \in Steps /\ o.r \in File /\ o.l \in Contents /\ o.got \in File /\ o.other \subseteq Names
BY DEF Op

LEMMA StoredIsFile ==
  ASSUME TypeOK, NEW p \in Names, NEW c \in Contents, NEW sum \in BOOLEAN, NEW f \in Stored(p, c, sum)
  PROVE  f \in File /\ f.c = c /\ f.sum = sum /\ f.etag # 0 /\ f.etag \notin UsedEtags
<1>1. \A e \in NewEtags : e \in Etags /\ e # 0 /\ e \notin UsedEtags
  BY SyncAssumption DEF SyncAssumption, NewEtags, Least, Etags
<1>2. \A i \in NewIds : i \in Ids
  BY SyncAssumption DEF SyncAssumption, NewIds, Least, Ids
<1>3. remote[p].id \in Ids
  BY AFile DEF TypeOK
<1>4. PICK e \in NewEtags, i \in Ids : f = [c |-> c, etag |-> e, id |-> i, sum |-> sum]
  BY <1>2, <1>3 DEF Stored
<1>. QED  BY <1>1, <1>4 DEF File

LEMMA OpWith ==
  ASSUME NEW o \in Op
  PROVE  /\ \A f \in File : [o EXCEPT !.got = f] \in Op /\ [o EXCEPT !.r = f] \in Op
         /\ \A c \in Contents : [o EXCEPT !.l = c] \in Op
         /\ \A s \in Steps : [o EXCEPT !.step = s] \in Op
         /\ \A k \in Kinds : [o EXCEPT !.kind = k] \in Op
         /\ \A S \in SUBSET Names : [o EXCEPT !.other = S] \in Op
BY DEF Op

\* How an action of p changes what the pass knows of p, and of nobody else.
LEMMA GotoIs ==
  ASSUME TypeOK, NEW p \in Names, NEW s \in Steps, Goto(p, s)
  PROVE  /\ ops' \in [Names -> Op]
         /\ \A q \in Names \ {p} : ops'[q] = ops[q]
         /\ ops'[p] = [ops[p] EXCEPT !.step = s]
         /\ ops'[p].step = s /\ ops'[p].kind = ops[p].kind /\ ops'[p].r = ops[p].r
         /\ ops'[p].l = ops[p].l /\ ops'[p].got = ops[p].got /\ ops'[p].other = ops[p].other
BY AnOp DEF TypeOK, Goto, Op

LEMMA EndsIs ==
  ASSUME TypeOK, NEW p \in Names, NEW s \in Steps, Ends(p, s)
  PROVE  /\ ops' \in [Names -> Op]
         /\ \A q \in Names \ {p} : ops'[q] = ops[q]
         /\ ops'[p] = [NoOp EXCEPT !.kind = ops[p].kind, !.step = s]
         /\ ops'[p].step = s /\ ops'[p].kind = ops[p].kind /\ ops'[p].r = Gone
         /\ ops'[p].l = 0 /\ ops'[p].got = Gone /\ ops'[p].other = {}
<1>. DEFINE n == [NoOp EXCEPT !.kind = ops[p].kind, !.step = s]
<1>1. n \in Op
  BY AnOp, NoOpIsOp DEF TypeOK, Op
<1>2. n.step = s /\ n.kind = ops[p].kind /\ n.r = Gone /\ n.l = 0 /\ n.got = Gone /\ n.other = {}
  BY DEF NoOp
<1>3. ops' = [ops EXCEPT ![p] = n]
  BY DEF Ends
<1>. HIDE DEF n
<1>4. ops' \in [Names -> Op] /\ (\A q \in Names \ {p} : ops'[q] = ops[q]) /\ ops'[p] = n
  BY <1>1, <1>3 DEF TypeOK
<1>. QED  BY <1>2, <1>4 DEF n

LEMMA DoneIs ==
  ASSUME TypeOK, NEW p \in Names, Done(p)
  PROVE  /\ ops' \in [Names -> Op]
         /\ \A q \in Names \ {p} : ops'[q] = ops[q]
         /\ ops'[p] = NoOp
BY NoOpIsOp DEF TypeOK, Done

LEMMA RecordIs ==
  ASSUME TypeOK, NEW p \in Names, NEW row \in BaseRow, Record(p, row)
  PROVE  /\ base' \in [Names -> BaseRow]
         /\ \A q \in Names \ {p} : base'[q] = base[q]
         /\ base'[p] = row
BY DEF TypeOK, Record

LEMMA FetchingIs ==
  ASSUME TypeOK, NEW p \in Names, NEW h \in Contents, Fetching(p, h)
  PROVE  /\ ops' \in [Names -> Op]
         /\ \A q \in Names \ {p} : ops'[q] = ops[q]
         /\ ops'[p].step = "fetched" /\ ops'[p].kind = ops[p].kind /\ ops'[p].r = ops[p].r
         /\ ops'[p].l = h /\ ops'[p].got = remote[p] /\ ops'[p].other = ops[p].other
         /\ HasR(p)
<1>. DEFINE n == [ops[p] EXCEPT !.got = remote[p], !.l = h, !.step = "fetched"]
<1>1. n \in Op
  <2>1. "fetched" \in Steps /\ ops[p] \in Op /\ remote[p] \in File
    BY DEF TypeOK, Steps
  <2>. QED  BY <2>1, OpWith
<1>2. n.step = "fetched" /\ n.kind = ops[p].kind /\ n.r = ops[p].r /\ n.l = h /\ n.got = remote[p] /\ n.other = ops[p].other
  BY DEF TypeOK, Op
<1>3. ops' = [ops EXCEPT ![p] = n] /\ HasR(p)
  BY DEF Fetching
<1>. HIDE DEF n
<1>. QED  BY <1>1, <1>2, <1>3 DEF TypeOK

LEMMA ReadingIs ==
  ASSUME TypeOK, NEW p \in Names, NEW h \in File, Reading(p, h)
  PROVE  /\ ops' \in [Names -> Op]
         /\ \A q \in Names \ {p} : ops'[q] = ops[q]
         /\ ops'[p].step = "read" /\ ops'[p].kind = ops[p].kind /\ ops'[p].r = h
         /\ ops'[p].l = ops[p].l /\ ops'[p].got.c = local[p] /\ ops'[p].got.etag = 0
         /\ ops'[p].other = ops[p].other
         /\ HasL(p)
<1>. DEFINE g == [Gone EXCEPT !.c = local[p]]
            n == [ops[p] EXCEPT !.got = g, !.r = h, !.step = "read"]
<1>1. g \in File /\ g.c = local[p] /\ g.etag = 0
  BY GoneIsFile DEF TypeOK, File, Gone
<1>2. ops' = [ops EXCEPT ![p] = n] /\ HasL(p)
  BY DEF Reading
<1>. HIDE DEF g
<1>3. n \in Op
  <2>1. "read" \in Steps /\ ops[p] \in Op
    BY DEF TypeOK, Steps
  <2>. QED  BY <1>1, <2>1, OpWith
<1>4. n.step = "read" /\ n.kind = ops[p].kind /\ n.r = h /\ n.l = ops[p].l /\ n.got = g /\ n.other = ops[p].other
  BY DEF TypeOK, Op
<1>. HIDE DEF n
<1>. QED  BY <1>1, <1>2, <1>3, <1>4 DEF TypeOK

-----------------------------------------------------------------------------
LEMMA OneSource ==
  ASSUME NEW v, NEW M \in Matchings(v), NEW p, NEW x, NEW y,
         << x, p >> \in M, << y, p >> \in M
  PROVE  x = y
<1>1. << x, p >> \in Pairs(v)
  BY DEF Matchings
<1>2. Moves(v, x, p)
  BY <1>1 DEF Pairs
<1>3. SameKey(v, p, p)
  BY <1>2 DEF Moves, SameKey
<1>4. SameKey(v, << x, p >>[2], << y, p >>[2]) => << x, p >> = << y, p >>
  BY DEF Matchings
<1>. QED  BY <1>3, <1>4

LEMMA Classified ==
  ASSUME NEW p, NEW l, NEW r
  PROVE  Classify(p, l, r) \in {"none", "download", "upload", "conflict", "deleteLocal", "deleteRemote"}
BY DEF Classify, Both, RemoteOnly, LocalOnly

\* What a plan has of a name: an action of the diff, or a rename that was matched.
Direct(v, p)    == [kind |-> Planned(v, p), step |-> "planned", r |-> v.r[p], l |-> v.l[p], got |-> Gone, other |-> {}]
MovedHere(v, x, p)  == [kind |-> "moveLocal", step |-> "planned", r |-> v.r[p], l |-> v.l[x], got |-> Gone, other |-> {x}]
MovedThere(v, x, p) == [kind |-> "moveRemote", step |-> "planned", r |-> v.r[x], l |-> v.l[p], got |-> Gone, other |-> {x}]

LEMMA PlanIs ==
  ASSUME NEW v, v.names \subseteq Names, v.l \in [Names -> Contents], v.r \in [Names -> File],
         NEW M \in Matchings(v), NEW p \in Names
  PROVE  \/ Plan(v, M)[p] = NoOp
         \/ /\ p \in v.names /\ Planned(v, p) # "none"
            /\ Plan(v, M)[p] = Direct(v, p)
         \/ \E x \in v.names \ {p} :
              /\ p \in v.names /\ Moves(v, x, p) /\ << x, p >> \in M /\ Plan(v, M)[x] = NoOp
              /\ \/ /\ Planned(v, p) = "download"
                    /\ Plan(v, M)[p] = MovedHere(v, x, p)
                 \/ /\ Planned(v, p) = "upload"
                    /\ Plan(v, M)[p] = MovedThere(v, x, p)
<1>. DEFINE from == {m[1] : m \in {n \in M : n[2] = p}}
<1>1. M \subseteq v.names \X v.names /\ \A m \in M : Moves(v, m[1], m[2])
  BY DEF Matchings, Pairs
<1>2. CASE p \notin v.names \/ Planned(v, p) = "none" \/ \E m \in M : m[1] = p
  BY <1>2 DEF Plan
<1>3. CASE ~(p \notin v.names \/ Planned(v, p) = "none" \/ \E m \in M : m[1] = p) /\ from = {}
  <2>1. Plan(v, M)[p] = [[NoOp EXCEPT !.step = "planned"] EXCEPT !.kind = Planned(v, p), !.r = v.r[p], !.l = v.l[p]]
    BY <1>3 DEF Plan
  <2>2. Plan(v, M)[p] = Direct(v, p)
    BY <2>1 DEF NoOp, Direct
  <2>. QED  BY <1>3, <2>2
<1>4. CASE ~(p \notin v.names \/ Planned(v, p) = "none" \/ \E m \in M : m[1] = p) /\ from # {}
  <2>1. PICK m \in M : m[2] = p
    BY <1>4
  <2>. DEFINE x == m[1]
  <2>2. m = << x, p >> /\ << x, p >> \in M /\ x \in v.names /\ p \in v.names /\ Moves(v, x, p)
    BY <1>1, <2>1
  <2>3. from = {x}
    <3>1. \A n \in M : n[2] = p => n = << n[1], p >>
      BY <1>1
    <3>2. \A n \in M : n[2] = p => n[1] = x
      BY <2>2, <3>1, OneSource
    <3>. QED  BY <2>1, <3>2
  <2>4. x # p
    BY <1>4
  <2>5. Plan(v, M)[x] = NoOp
    BY <2>2, <2>1 DEF Plan
  <2>6. Planned(v, p) \in {"download", "upload"}
    BY <2>2 DEF Moves
  <2>. HIDE DEF x
  <2>7. (CHOOSE z \in from : TRUE) = x
    BY <2>3
  <2>8. CASE Planned(v, p) = "download"
    <3>1. Plan(v, M)[p] = [[NoOp EXCEPT !.step = "planned"] EXCEPT !.kind = "moveLocal", !.r = v.r[p],
                         !.l = v.l[CHOOSE z \in from : TRUE], !.other = from]
      BY <1>4, <2>8 DEF Plan
    <3>. HIDE DEF from
    <3>2. Plan(v, M)[p] = MovedHere(v, x, p)
      BY <3>1, <2>3, <2>7 DEF NoOp, MovedHere
    <3>. QED  BY <2>2, <2>4, <2>5, <2>8, <3>2
  <2>9. CASE Planned(v, p) = "upload"
    <3>1. Plan(v, M)[p] = [[NoOp EXCEPT !.step = "planned"] EXCEPT !.kind = "moveRemote", !.r = v.r[CHOOSE z \in from : TRUE],
                         !.l = v.l[p], !.other = from]
      BY <1>4, <2>9 DEF Plan
    <3>. HIDE DEF from
    <3>2. Plan(v, M)[p] = MovedThere(v, x, p)
      BY <3>1, <2>3, <2>7 DEF NoOp, MovedThere
    <3>. QED  BY <2>2, <2>4, <2>5, <2>9, <3>2
  <2>. QED  BY <2>6, <2>8, <2>9
<1>. QED  BY <1>2, <1>3, <1>4

LEMMA DecideType ==
  ASSUME TypeOK, NEW v, v.names \subseteq Names, v.l \in [Names -> Contents], v.r \in [Names -> File], Decide(v)
  PROVE  TypeOK'
<1>1. PICK M \in Matchings(v) : ops' = Plan(v, M)
  BY DEF Decide
<1>2. \A p \in Names : Plan(v, M)[p] \in Op
  <2>. SUFFICES ASSUME NEW p \in Names PROVE Plan(v, M)[p] \in Op
    OBVIOUS
  <2>1. Planned(v, p) \in Kinds
    BY Classified DEF Planned, Kinds
  <2>2. v.r[p] \in File /\ v.l[p] \in Contents /\ \A x \in v.names : v.r[x] \in File /\ v.l[x] \in Contents
    OBVIOUS
  <2>3. "planned" \in Steps /\ "moveLocal" \in Kinds /\ "moveRemote" \in Kinds /\ {} \in SUBSET Names
    BY DEF Steps, Kinds
  <2>4. \A x \in v.names : {x} \in SUBSET Names
    OBVIOUS
  <2>5. \A k \in Kinds, f \in File, c \in Contents, S \in SUBSET Names :
          [kind |-> k, step |-> "planned", r |-> f, l |-> c, got |-> Gone, other |-> S] \in Op
    BY <2>3, GoneIsFile DEF Op
  <2>6. CASE Plan(v, M)[p] = NoOp
    BY <2>6, NoOpIsOp
  <2>7. CASE Plan(v, M)[p] = Direct(v, p)
    BY <2>7, <2>1, <2>2, <2>3, <2>5 DEF Direct
  <2>8. CASE \E x \in v.names :
               \/ Plan(v, M)[p] = MovedHere(v, x, p)
               \/ Plan(v, M)[p] = MovedThere(v, x, p)
    BY <2>8, <2>2, <2>3, <2>4, <2>5 DEF MovedHere, MovedThere
  <2>9. \/ Plan(v, M)[p] = NoOp
        \/ Plan(v, M)[p] = Direct(v, p)
        \/ \E x \in v.names :
               \/ Plan(v, M)[p] = MovedHere(v, x, p)
               \/ Plan(v, M)[p] = MovedThere(v, x, p)
    BY PlanIs
  <2>. QED  BY <2>6, <2>7, <2>8, <2>9
<1>3. ops' \in [Names -> Op]
  BY <1>1, <1>2 DEF Plan
<1>4. base' \in [Names -> BaseRow]
  BY NoRowIsRow DEF Decide, TypeOK
<1>. QED  BY <1>3, <1>4 DEF TypeOK, Decide, user

LEMMA Views ==
  ASSUME TypeOK, Look \/ LookDelta \/ PlanPaths
  PROVE  \E N \in SUBSET Names, l \in [Names -> Contents], h \in BOOLEAN :
           /\ Decide([names |-> N, l |-> l, r |-> Listed, hashes |-> h])
           /\ \/ phase = "listed" /\ l = local
              \/ /\ phase = "asking" /\ \A p \in Names : ops[p].step \in {"none", "seen"} /\ l[p] = ops[p].l
                 /\ N = {p \in Names : ops[p].step = "seen"}
<1>1. CASE Look
  BY <1>1 DEF Look, TypeOK
<1>2. CASE LookDelta
  BY <1>2 DEF LookDelta, TypeOK
<1>3. CASE PlanPaths
  <2>. DEFINE l == [p \in Names |-> ops[p].l]
  <2>1. l \in [Names -> Contents] /\ \A p \in Names : l[p] = ops[p].l
    BY AnOp DEF TypeOK
  <2>. HIDE DEF l
  <2>2. Decide([names |-> {p \in Names : ops[p].step = "seen"}, l |-> l, r |-> Listed, hashes |-> TRUE])
    BY <1>3 DEF PlanPaths, l
  <2>. QED  BY <1>3, <2>1, <2>2 DEF PlanPaths
<1>. QED  BY <1>1, <1>2, <1>3

LEMMA ListedType == TypeOK => Listed \in [Names -> File]
BY AnOp DEF TypeOK, Listed

LEMMA PlanType ==
  ASSUME TypeOK, Look \/ LookDelta \/ PlanPaths
  PROVE  TypeOK'
<1>1. PICK N \in SUBSET Names, l \in [Names -> Contents], h \in BOOLEAN :
           Decide([names |-> N, l |-> l, r |-> Listed, hashes |-> h])
  BY Views
<1>. DEFINE v == [names |-> N, l |-> l, r |-> Listed, hashes |-> h]
<1>2. v.names \subseteq Names /\ v.l \in [Names -> Contents] /\ v.r \in [Names -> File] /\ Decide(v)
  BY <1>1, ListedType
<1>. HIDE DEF v
<1>. QED  BY <1>2, DecideType

LEMMA ScanType ==
  ASSUME TypeOK,
         \/ List \/ (\E S \in Scopes : SyncPaths(S)) \/ (\E p \in Names : LookAt(p) \/ AskFor(p))
         \/ ScanFails \/ EndPass \/ Crash
  PROVE  TypeOK'
<1>. DEFINE Rest == /\ local' = local /\ remote' = remote /\ base' = base /\ bin' = bin /\ policy' = policy
                    /\ written' = written /\ moves' = moves /\ superseded' = superseded /\ raced' = raced
<1>0. Rest /\ phase' \in {"idle", "listed", "asking", "apply"} /\ pending' \subseteq Names
  BY DEF TypeOK, List, SyncPaths, LookAt, AskFor, ScanFails, EndPass, Crash, disk, user
<1>. SUFFICES ops' \in [Names -> Op]
  BY <1>0 DEF TypeOK
<1>1. CASE List
  <2>1. \A p \in Names : [NoOp EXCEPT !.step = "listed", !.r = remote[p]] \in Op
    BY OpWith, NoOpIsOp DEF TypeOK, Steps
  <2>. QED  BY <1>1, <2>1 DEF List
<1>2. ASSUME NEW S \in Scopes, SyncPaths(S) PROVE ops' \in [Names -> Op]
  <2>1. [NoOp EXCEPT !.step = "look"] \in Op
    BY OpWith, NoOpIsOp DEF Steps
  <2>. QED  BY <1>2, <2>1, NoOpIsOp DEF SyncPaths
<1>3. ASSUME NEW p \in Names, LookAt(p) PROVE ops' \in [Names -> Op]
  <2>1. [ops[p] EXCEPT !.step = "looked", !.l = local[p]] \in Op
    BY OpWith DEF TypeOK, Steps
  <2>. QED  BY <1>3, <2>1 DEF LookAt, TypeOK
<1>4. ASSUME NEW p \in Names, AskFor(p) PROVE ops' \in [Names -> Op]
  <2>1. [remote[p] EXCEPT !.sum = FALSE] \in File
    BY DEF TypeOK, File
  <2>2. [ops[p] EXCEPT !.step = "seen", !.r = [remote[p] EXCEPT !.sum = FALSE]] \in Op
    BY <2>1, OpWith DEF TypeOK, Steps
  <2>. QED  BY <1>4, <2>2 DEF AskFor, TypeOK
<1>5. CASE ScanFails \/ EndPass \/ Crash
  BY <1>5, NoOpIsOp DEF ScanFails, EndPass, Crash
<1>. QED  BY <1>1, <1>2, <1>3, <1>4, <1>5

LEMMA WorldType ==
  ASSUME TypeOK, World
  PROVE  TypeOK'
<1>. PICK p \in Paths :
    \/ "edit" \in Happens /\ Save(p)
    \/ "remove" \in Happens /\ Remove(p)
    \/ "rename" \in Happens /\ \E q \in Paths : Rename(p, q)
    \/ "theirs" \in Happens /\ TheirSave(p)
    \/ "theirRemove" \in Happens /\ TheirRemove(p)
    \/ "theirRename" \in Happens /\ \E q \in Paths : TheirRename(p, q)
    \/ "lock" \in Happens /\ Lock(p)
  BY DEF World
<1>0. p \in Names /\ Paths \subseteq Names /\ 0 \in Contents
  BY Numbers DEF Names
<1>a. Written => written' \in Contents /\ moves' = moves
  BY SyncAssumption DEF SyncAssumption, Written, Contents, TypeOK
<1>b. Moved => moves' \in 0 .. MovesMax[policy'] /\ policy' = policy /\ pending' = pending /\ written' = written
               /\ superseded' = superseded
  BY SyncAssumption DEF SyncAssumption, Moved, TypeOK
<1>c. \A c \in Contents : Forget({c}) => superseded' \subseteq Contents
  BY DEF Forget, TypeOK
<1>d. \A c \in Contents : \A S : Race({c} \cap S) => raced' \subseteq Contents
  BY DEF Race, TypeOK
<1>1. CASE Save(p)
  BY <1>1, <1>0, <1>a, <1>c DEF Save, TypeOK
<1>2. CASE Remove(p)
  BY <1>2, <1>0, <1>c DEF Remove, TypeOK
<1>3. ASSUME NEW q \in Paths, Rename(p, q) PROVE TypeOK'
  BY <1>3, <1>0, <1>b, <1>d DEF Rename, TypeOK
<1>4. CASE TheirSave(p)
  <2>1. written' \in Contents /\ superseded' \subseteq Contents
    BY <1>4, <1>0, <1>a, <1>c, AFile DEF TheirSave, TypeOK
  <2>2. PICK sum \in Sums : \E f \in Stored(p, written', sum) : remote' = [remote EXCEPT ![p] = f]
    BY <1>4 DEF TheirSave
  <2>3. sum \in BOOLEAN
    BY SyncAssumption DEF SyncAssumption
  <2>4. remote' \in [Names -> File]
    BY <2>1, <2>2, <2>3, <1>0, StoredIsFile DEF TypeOK
  <2>. QED  BY <1>4, <1>a, <2>1, <2>4 DEF TheirSave, TypeOK
<1>5. CASE TheirRemove(p)
  BY <1>5, <1>0, <1>c, GoneIsFile, AFile DEF TheirRemove, TypeOK
<1>6. ASSUME NEW q \in Paths, TheirRename(p, q) PROVE TypeOK'
  BY <1>6, <1>0, <1>b, <1>d, GoneIsFile, AFile DEF TheirRename, TypeOK
<1>7. CASE Lock(p)
  <2>1. PICK e \in NewEtags : remote' = [remote EXCEPT ![p].etag = e]
    BY <1>7 DEF Lock
  <2>2. e \in Etags
    BY SyncAssumption DEF SyncAssumption, NewEtags, Least, Etags
  <2>3. [remote[p] EXCEPT !.etag = e] \in File
    BY <1>0, <2>2 DEF TypeOK, File
  <2>4. remote' \in [Names -> File]
    BY <1>0, <2>1, <2>3 DEF TypeOK
  <2>. QED  BY <1>7, <1>b, <2>4 DEF Lock, TypeOK
<1>. QED  BY <1>1, <1>2, <1>3, <1>4, <1>5, <1>6, <1>7

LEMMA ARow ==
  ASSUME TypeOK, NEW p \in Names, NEW c \in Contents, NEW e \in Etags, NEW i \in Ids
  PROVE  /\ RowOf(p, c, e, i) \in BaseRow
         /\ RowOf(p, c, e, i).l = c /\ RowOf(p, c, e, i).sha = c /\ RowOf(p, c, e, i).etag = e
         /\ RowOf(p, c, e, i).key = ListedKey(p, e)
<1>1. ListedKey(p, e) \in Contents
  BY Numbers, AnOp, AFile DEF ListedKey, TypeOK
<1>. QED  BY <1>1 DEF RowOf, BaseRow

LEMMA RebaselineIs ==
  ASSUME TypeOK, NEW p \in Names, NEW mine, NEW theirs, RebaselineFile(p, mine, theirs)
  PROVE  /\ base' \in [Names -> BaseRow] /\ raced' \subseteq Contents
         /\ \A q \in Names \ {p} : base'[q] = base[q]
         /\ \E f \in {remote[p], Gone} : base'[p] = RowOf(p, local[p], f.etag, f.id)
<1>1. \A f \in {remote[p], Gone} : RowOf(p, local[p], f.etag, f.id) \in BaseRow
  BY ARow, GoneIsFile, AFile DEF TypeOK
<1>2. \A c, d \in Contents : Joined(c, d) \subseteq Contents
  BY DEF Joined
<1>3. local[p] \in Contents /\ remote[p].c \in Contents
  BY AFile DEF TypeOK
<1>4. raced' \subseteq Contents
  BY <1>2, <1>3 DEF RebaselineFile, Race, TypeOK
<1>. QED  BY <1>1, <1>4, RecordIs DEF RebaselineFile

\* What the steps of an action leave alone.
Quiet == /\ remote' = remote /\ local' = local /\ bin' = bin /\ phase' = phase /\ policy' = policy
         /\ pending' = pending /\ written' = written /\ moves' = moves

LEMMA MovingType ==
  ASSUME TypeOK, NEW p \in Names, MoveHere(p) \/ MoveThere(p) \/ MoveForgets(p) \/ MoveRecords(p)
  PROVE  TypeOK'
<1>0. "moved" \in Steps /\ ops[p] \in Op /\ ops[p].other \subseteq Names /\ 0 \in Contents /\ remote[p].c \in Contents
  BY AnOp, AFile, Numbers DEF Steps, TypeOK
<1>1. CASE MoveHere(p)
  <2>1. local' \in [Names -> Contents]
    BY <1>0, <1>1 DEF MoveHere, TypeOK
  <2>. QED  BY <1>0, <1>1, <2>1, GotoIs DEF MoveHere, TypeOK, user
<1>2. CASE MoveThere(p)
  <2>1. remote' \in [Names -> File]
    BY <1>0, <1>2, GoneIsFile DEF MoveThere, TypeOK
  <2>2. raced' \subseteq Contents
    BY <1>0, <1>2 DEF MoveThere, TypeOK, Race
  <2>. QED  BY <1>0, <1>2, <2>1, <2>2, GotoIs DEF MoveThere, TypeOK, user
<1>3. CASE MoveForgets(p)
  <2>1. base' \in [Names -> BaseRow]
    BY <1>3, NoRowIsRow DEF MoveForgets, TypeOK
  <2>2. [ops[p] EXCEPT !.other = {}] \in Op
    BY <1>0, OpWith
  <2>3. ops' \in [Names -> Op]
    BY <1>3, <2>2 DEF MoveForgets, TypeOK
  <2>. QED  BY <1>3, <2>1, <2>3 DEF MoveForgets, TypeOK, user, disk
<1>4. CASE MoveRecords(p)
  BY <1>4, RebaselineIs, DoneIs DEF MoveRecords, TypeOK, user, disk
<1>. QED  BY <1>1, <1>2, <1>3, <1>4

LEMMA DownloadType ==
  ASSUME TypeOK, NEW p \in Names, SkipDownload(p) \/ Fetch(p) \/ Commit(p) \/ RecordDownload(p)
  PROVE  TypeOK'
<1>0. /\ ops[p] \in Op /\ ops[p].r \in File /\ ops[p].got \in File /\ ops[p].l \in Contents /\ "committed" \in Steps
      /\ local[p] \in Contents /\ ops[p].got.c \in Contents
  BY AnOp, AFile DEF Steps, TypeOK
<1>1. CASE SkipDownload(p)
  <2>1. RowOf(p, local[p], ops[p].r.etag, ops[p].r.id) \in BaseRow
    BY <1>0, ARow, AFile
  <2>. QED  BY <1>1, <2>1, RecordIs, DoneIs DEF SkipDownload, TypeOK, user, disk
<1>2. CASE Fetch(p)
  BY <1>0, <1>2, FetchingIs DEF Fetch, TypeOK, user, disk
<1>3. CASE Commit(p)
  <2>1. local' \in [Names -> Contents] /\ raced' \subseteq Contents
    BY <1>0, <1>3 DEF Commit, TypeOK, Race
  <2>. QED  BY <1>0, <1>3, <2>1, GotoIs DEF Commit, TypeOK, user
<1>4. CASE RecordDownload(p)
  <2>1. RowOf(p, ops[p].got.c, ops[p].got.etag, ops[p].got.id) \in BaseRow
    BY <1>0, ARow, AFile
  <2>. QED  BY <1>4, <2>1, RecordIs, DoneIs DEF RecordDownload, TypeOK, user, disk
<1>. QED  BY <1>1, <1>2, <1>3, <1>4

LEMMA PutIs ==
  ASSUME TypeOK, NEW p \in Names, Put(p)
  PROVE  \E f \in File, g \in File :
           /\ f.c = ops[p].got.c /\ f.etag # 0 /\ f.etag \notin UsedEtags
           /\ g.c = f.c /\ g.etag \in {0, f.etag}
           /\ remote' = [remote EXCEPT ![p] = f]
           /\ ops' \in [Names -> Op] /\ (\A q \in Names \ {p} : ops'[q] = ops[q])
           /\ ops'[p].kind = ops[p].kind /\ ops'[p].step = "put" /\ ops'[p].r = Gone /\ ops'[p].l = 0
           /\ ops'[p].got = g /\ ops'[p].other = {}
<1>1. PICK f \in Stored(p, ops[p].got.c, TRUE) :
       /\ remote' = [remote EXCEPT ![p] = f]
       /\ \E etag \in IF Omits THEN {f.etag, 0} ELSE {f.etag} :
            ops' = [ops EXCEPT ![p] = [NoOp EXCEPT !.kind = ops[p].kind, !.step = "put",
                                                   !.got = [f EXCEPT !.etag = etag]]]
  BY DEF Put
<1>2. f \in File /\ f.c = ops[p].got.c /\ f.etag # 0 /\ f.etag \notin UsedEtags
  <2>1. ops[p].got.c \in Contents /\ TRUE \in BOOLEAN
    BY AnOp, AFile DEF TypeOK
  <2>2. f \in Stored(p, ops[p].got.c, TRUE)
    BY <1>1
  <2>3. f \in File /\ f.c = ops[p].got.c /\ f.sum = TRUE /\ f.etag # 0 /\ f.etag \notin UsedEtags
    BY <2>1, <2>2, StoredIsFile
  <2>. QED  BY <2>3
<1>3. PICK etag \in {f.etag, 0} : ops' = [ops EXCEPT ![p] = [NoOp EXCEPT !.kind = ops[p].kind, !.step = "put",
                                                   !.got = [f EXCEPT !.etag = etag]]]
  BY <1>1
<1>. DEFINE g == [f EXCEPT !.etag = etag]
<1>4. g \in File /\ g.c = f.c /\ g.etag \in {0, f.etag}
  BY <1>2, <1>3, Numbers DEF File
<1>. HIDE DEF g
<1>. DEFINE n == [NoOp EXCEPT !.kind = ops[p].kind, !.step = "put", !.got = g]
<1>5. ops' = [ops EXCEPT ![p] = n]
  BY <1>3 DEF g
<1>6. n.kind = ops[p].kind /\ n.step = "put" /\ n.r = Gone /\ n.l = 0 /\ n.got = g /\ n.other = {}
  BY DEF NoOp
<1>7. n \in Op
  <2>1. NoOp \in Op /\ ops[p].kind \in Kinds /\ "put" \in Steps
    BY NoOpIsOp, AnOp DEF TypeOK, Steps
  <2>. QED  BY <1>4, <2>1, OpWith
<1>. HIDE DEF n
<1>8. ops' \in [Names -> Op] /\ (\A q \in Names \ {p} : ops'[q] = ops[q]) /\ ops'[p] = n
  BY <1>5, <1>7 DEF TypeOK
<1>. QED  BY <1>1, <1>2, <1>4, <1>6, <1>8

LEMMA UploadType ==
  ASSUME TypeOK, NEW p \in Names, Read(p) \/ Put(p) \/ RecordUpload(p)
  PROVE  TypeOK'
<1>0. /\ ops[p] \in Op /\ ops[p].r \in File /\ ops[p].got \in File
      /\ ops[p].got.c \in Contents /\ remote[p] \in File /\ remote[p].c \in Contents
  BY AnOp, AFile DEF TypeOK
<1>1. CASE Read(p)
  BY <1>0, <1>1, ReadingIs DEF Read, TypeOK, user, disk
<1>2. CASE Put(p)
  <2>1. raced' \subseteq Contents
    BY <1>0, <1>2 DEF Put, Race, Newer, TypeOK
  <2>2. ops' \in [Names -> Op] /\ remote' \in [Names -> File]
    BY <1>2, PutIs DEF TypeOK
  <2>. QED  BY <1>2, <2>1, <2>2 DEF Put, TypeOK, user, disk
<1>3. CASE RecordUpload(p)
  <2>. DEFINE etag == IF ops[p].got.etag # 0 THEN ops[p].got.etag ELSE remote[p].etag
  <2>1. RowOf(p, ops[p].got.c, etag, ops[p].got.id) \in BaseRow
    BY <1>0, ARow, AFile
  <2>2. Record(p, RowOf(p, ops[p].got.c, etag, ops[p].got.id))
    BY <1>3 DEF RecordUpload
  <2>3. raced' \subseteq Contents
    BY <1>0, <1>3 DEF RecordUpload, Race, Joined, TypeOK
  <2>. QED  BY <1>3, <2>1, <2>2, <2>3, RecordIs, DoneIs DEF RecordUpload, TypeOK, user, disk
<1>. QED  BY <1>1, <1>2, <1>3

LEMMA ConflictType ==
  ASSUME TypeOK, NEW p \in Names,
         \/ Resurrect(p) \/ BothGone(p) \/ SameSum(p) \/ Compare(p) \/ SameBytes(p) \/ Ask(p) \/ KeepNewest(p)
  PROVE  TypeOK'
<1>0. /\ ops[p] \in Op /\ ops[p].r \in File /\ ops[p].got \in File /\ "asked" \in Steps /\ "compared" \in Steps
      /\ ops[p].got.c \in Contents /\ remote[p] \in File /\ remote[p].c \in Contents /\ 0 \in Contents /\ local[p] \in Contents
  BY AnOp, AFile, Numbers DEF TypeOK, Steps
<1>1. CASE Resurrect(p)
  <2>1. ops' \in [Names -> Op]
    BY <1>0, <1>1, ReadingIs, FetchingIs, GoneIsFile DEF Resurrect
  <2>. QED  BY <1>1, <2>1 DEF Resurrect, TypeOK, user, disk
<1>2. CASE BothGone(p)
  BY <1>2, RecordIs, DoneIs, NoRowIsRow DEF BothGone, TypeOK, user, disk
<1>3. CASE SameSum(p)
  <2>1. RowOf(p, local[p], ops[p].r.etag, ops[p].r.id) \in BaseRow
    BY <1>0, ARow, AFile
  <2>. QED  BY <1>3, <2>1, RecordIs, DoneIs DEF SameSum, TypeOK, user, disk
<1>4. CASE Compare(p)
  <2>1. [ops[p] EXCEPT !.l = local[p], !.got = remote[p], !.step = "compared"] \in Op
    BY <1>0, OpWith
  <2>2. ops' \in [Names -> Op]
    BY <1>4, <2>1 DEF Compare, TypeOK
  <2>. QED  BY <1>4, <2>2 DEF Compare, TypeOK, user, disk
<1>5. CASE SameBytes(p)
  BY <1>5, RebaselineIs, DoneIs DEF SameBytes, TypeOK, user, disk
<1>6. CASE Ask(p)
  BY <1>0, <1>6, EndsIs DEF Ask, TypeOK, user, disk
<1>7. CASE KeepNewest(p)
  <2>1. ops' \in [Names -> Op] /\ superseded' \subseteq Contents
    BY <1>0, <1>7, ReadingIs, FetchingIs DEF KeepNewest, Forget, TypeOK
  <2>. QED  BY <1>7, <2>1 DEF KeepNewest, TypeOK, disk
<1>. QED  BY <1>1, <1>2, <1>3, <1>4, <1>5, <1>6, <1>7

LEMMA BothType ==
  ASSUME TypeOK, NEW p \in Names,
         \/ SetAside(p) \/ Place(p) \/ RecordPlaced(p) \/ ReadCopy(p)
         \/ DeleteHere(p) \/ DeleteThere(p) \/ RecordDeleted(p) \/ Fail(p)
  PROVE  TypeOK'
<1>0. /\ ops[p] \in Op /\ ops[p].r \in File /\ ops[p].got \in File /\ ops[p].other \subseteq Names
      /\ "aside" \in Steps /\ "placed" \in Steps /\ "copied" \in Steps /\ "deleted" \in Steps /\ "both" \in Kinds
      /\ ops[p].got.c \in Contents /\ remote[p].c \in Contents /\ 0 \in Contents /\ local[p] \in Contents
  BY AnOp, AFile, Numbers DEF TypeOK, Steps, Kinds
<1>1. CASE SetAside(p)
  <2>1. PICK k \in Copies : /\ local' = [local EXCEPT ![p] = 0, ![k] = local[p]]
                            /\ ops' = [ops EXCEPT ![p] = [@ EXCEPT !.other = {k}, !.step = "aside"]]
    BY <1>1 DEF SetAside
  <2>2. k \in Names
    BY DEF Names
  <2>3. [ops[p] EXCEPT !.other = {k}, !.step = "aside"] \in Op
    BY <1>0, <2>2, OpWith
  <2>4. ops' \in [Names -> Op]
    BY <2>1, <2>3 DEF TypeOK
  <2>5. local' \in [Names -> Contents]
    BY <1>0, <2>1, <2>2 DEF TypeOK
  <2>. QED  BY <1>1, <2>4, <2>5 DEF SetAside, TypeOK, user
<1>2. CASE Place(p)
  <2>1. local' \in [Names -> Contents] /\ raced' \subseteq Contents
    BY <1>0, <1>2 DEF Place, TypeOK, Race
  <2>. QED  BY <1>0, <1>2, <2>1, GotoIs DEF Place, TypeOK, user
<1>3. CASE RecordPlaced(p)
  <2>1. RowOf(p, ops[p].got.c, ops[p].got.etag, ops[p].got.id) \in BaseRow
    BY <1>0, ARow, AFile
  <2>2. [NoOp EXCEPT !.kind = "both", !.step = "copied"] \in Op
    BY <1>0, NoOpIsOp, OpWith
  <2>3. ops' \in [Names -> Op]
    BY <1>0, <1>3, <2>2, NoOpIsOp DEF RecordPlaced, TypeOK
  <2>. QED  BY <1>3, <2>1, <2>3, RecordIs DEF RecordPlaced, TypeOK, user, disk
<1>4. CASE ReadCopy(p)
  BY <1>4, ReadingIs, GoneIsFile DEF ReadCopy, TypeOK, user, disk
<1>5. CASE DeleteHere(p)
  <2>1. local' \in [Names -> Contents] /\ raced' \subseteq Contents /\ bin' \subseteq Contents
    BY <1>0, <1>5 DEF DeleteHere, TypeOK, Race
  <2>. QED  BY <1>0, <1>5, <2>1, EndsIs DEF DeleteHere, TypeOK, user
<1>6. CASE DeleteThere(p)
  <2>1. remote' \in [Names -> File] /\ raced' \subseteq Contents
    BY <1>0, <1>6, GoneIsFile DEF DeleteThere, TypeOK, Race, Newer
  <2>. QED  BY <1>0, <1>6, <2>1, EndsIs DEF DeleteThere, TypeOK, user, disk
<1>7. CASE RecordDeleted(p)
  BY <1>7, RecordIs, DoneIs, NoRowIsRow DEF RecordDeleted, TypeOK, user, disk
<1>8. CASE Fail(p)
  BY <1>8, DoneIs DEF Fail, TypeOK, user, disk
<1>. QED  BY <1>1, <1>2, <1>3, <1>4, <1>5, <1>6, <1>7, <1>8

LEMMA ChoiceType ==
  ASSUME TypeOK, NEW p \in Names, ChooseMine(p) \/ ChooseTheirs(p) \/ ChooseBoth(p)
  PROVE  TypeOK'
<1>0. /\ ops[p] \in Op /\ remote[p] \in File /\ remote[p].c \in Contents /\ remote[p].etag \in Etags /\ remote[p].id \in Ids
      /\ 0 \in Contents /\ 0 \in Etags /\ local[p] \in Contents
  BY AFile, Numbers DEF TypeOK
<1>1. CASE ChooseMine(p)
  <2>. DEFINE s == IF remote[p].sum THEN remote[p].c ELSE 0
              row == [l |-> Never, etag |-> remote[p].etag, id |-> remote[p].id, sha |-> s, key |-> 0]
  <2>1. s \in Contents
    BY <1>0
  <2>2. row \in BaseRow
    <3>. HIDE DEF s
    <3>. QED  BY <1>0, <2>1 DEF BaseRow
  <2>3. Record(p, row) \/ Record(p, NoRow)
    BY <1>1 DEF ChooseMine
  <2>. HIDE DEF row
  <2>4. base' \in [Names -> BaseRow]
    BY <2>2, <2>3, RecordIs, NoRowIsRow
  <2>5. remote' \in [Names -> File] /\ superseded' \subseteq Contents
    BY <1>0, <1>1, GoneIsFile DEF ChooseMine, TypeOK, Forget
  <2>. QED  BY <1>1, <2>4, <2>5 DEF ChooseMine, Choose, TypeOK, disk
<1>2. CASE ChooseTheirs(p)
  <2>. DEFINE row == [l |-> local[p], etag |-> 0, id |-> remote[p].id, sha |-> 0, key |-> 0]
  <2>1. row \in BaseRow
    BY <1>0 DEF BaseRow
  <2>2. Record(p, row) \/ Record(p, NoRow)
    BY <1>2 DEF ChooseTheirs
  <2>. HIDE DEF row
  <2>3. base' \in [Names -> BaseRow]
    BY <2>1, <2>2, RecordIs, NoRowIsRow
  <2>4. local' \in [Names -> Contents] /\ superseded' \subseteq Contents
    BY <1>0, <1>2 DEF ChooseTheirs, TypeOK, Forget
  <2>. QED  BY <1>2, <2>3, <2>4 DEF ChooseTheirs, Choose, TypeOK
<1>3. CASE ChooseBoth(p)
  <2>. DEFINE op == [NoOp EXCEPT !.kind = "both", !.r = remote[p], !.l = local[p]]
              g == [Gone EXCEPT !.c = local[p]]
  <2>1. g \in File
    BY <1>0, GoneIsFile DEF File
  <2>2. op \in Op
    BY <1>0, NoOpIsOp, OpWith DEF Kinds
  <2>3. {"compared", "read", "fetched", "deleted"} \subseteq Steps
    BY DEF Steps
  <2>4. /\ [op EXCEPT !.got = remote[p], !.step = "compared"] \in Op
        /\ [op EXCEPT !.got = g, !.step = "read"] \in Op
        /\ [op EXCEPT !.got = remote[p], !.step = "fetched"] \in Op
        /\ [op EXCEPT !.step = "deleted"] \in Op
    <3>. HIDE DEF op, g
    <3>. QED  BY <1>0, <2>1, <2>2, <2>3, OpWith
  <2>5. PICK n \in Op : ops' = [ops EXCEPT ![p] = n]
    BY <1>3, <2>4 DEF ChooseBoth
  <2>6. ops' \in [Names -> Op]
    BY <2>5 DEF TypeOK
  <2>. QED  BY <1>3, <2>6 DEF ChooseBoth, Choose, TypeOK, disk
<1>. QED  BY <1>1, <1>2, <1>3

\* Every step keeps the types.
LEMMA TypeStep == TypeOK /\ [Next]_vars => TypeOK'
<1>. SUFFICES ASSUME TypeOK, [Next]_vars PROVE TypeOK'
  OBVIOUS
<1>1. CASE World
  BY <1>1, WorldType
<1>2. CASE Trouble \/ List \/ (\E S \in Scopes : SyncPaths(S)) \/ (\E p \in Names : LookAt(p) \/ AskFor(p)) \/ EndPass
  BY <1>2, ScanType DEF Trouble
<1>3. CASE Choices
  BY <1>3, ChoiceType DEF Choices
<1>4. CASE Look \/ LookDelta \/ PlanPaths
  BY <1>4, PlanType
<1>5. ASSUME NEW p \in Names, Act(p) PROVE TypeOK'
  BY <1>5, MovingType, DownloadType, UploadType, ConflictType, BothType DEF Act
<1>6. CASE UNCHANGED vars
  BY <1>6 DEF vars, TypeOK
<1>. QED  BY <1>1, <1>2, <1>3, <1>4, <1>5, <1>6 DEF Next

LEMMA TypeInit == Init => TypeOK
<1>. SUFFICES ASSUME Init PROVE TypeOK
  OBVIOUS
<1>1. moves \in 0 .. MovesMax[policy]
  BY SyncAssumption DEF SyncAssumption, Init
<1>. QED  BY <1>1, Numbers, GoneIsFile, NoRowIsRow, NoOpIsOp DEF Init, TypeOK

\* The folder, the server, the baseline and the pass are always well formed.
THEOREM TypeCorrect == Spec => []TypeOK
BY TypeInit, TypeStep, PTL DEF Spec

-----------------------------------------------------------------------------
(* The inductive invariant *)

\* The renames a plan may hold.
MoveKinds == {"moveLocal", "moveRemote"}

\* A file on the server has an ETag and a content, and no two versions one ETag.
Real(f) == (f.etag = 0 <=> f = Gone) /\ (f.c = 0 <=> f = Gone)
Carriers == {remote[q] : q \in Names} \cup {ops[q].r : q \in Names} \cup {ops[q].got : q \in Names}
OneVersion(C) == \A f, g \in C : f.etag = g.etag /\ f.etag # 0 => f.c = g.c

Etagged == /\ OneVersion(Carriers)
           /\ \A p \in Names : Real(remote[p]) /\ Real(ops[p].r)

\* The file here is the version a row, or a planned move, has for the server's, but for
\* two versions a race made one of.
Same(c, d, R) == c = d \/ {c, d} \subseteq R

\* A row is none, or one for a version the name no longer has here (set aside, or replaced),
\* or says what is here: then its key, its checksum and its ETag stand for the same.
RowIs(b, C, S, R) ==
  \/ b = NoRow
  \/ /\ b.l = Never /\ b.key = 0 /\ b.sha \in S \cup {0}
     /\ \A f \in C : f.etag = b.etag /\ f.etag # 0 => f.c \in S
  \/ /\ b.l \notin {0, Never} /\ b.sha \in {0, b.l}
     /\ b.key = 0 \/ Same(b.key, b.l, R)
     /\ \A f \in C : f.etag = b.etag /\ f.etag # 0 => Same(f.c, b.l, R)
Rows == \A p \in Names : RowIs(base[p], Carriers, superseded, raced)


\* What a step has read is there; a planned rename is of one content.
OpIs(o, R) ==
  /\ o.step \in {"fetched", "committed", "compared", "aside", "placed", "read", "put"} => o.got.c # 0
  /\ o.step = "put" => o.r = Gone
  /\ o.kind \in MoveKinds => o.step \in {"planned", "moved"} /\ Same(o.r.c, o.l, R)
  /\ o.step = "moved" => o.kind \in MoveKinds
  /\ o.step = "compared" => o.kind \in {"conflict", "both"}
OpRows == \A p \in Names : OpIs(ops[p], raced)

SyncInv == TypeOK /\ Etagged /\ Rows /\ OpRows

\* Nothing a property excuses is taken back.
Grows == superseded \subseteq superseded' /\ raced \subseteq raced'
\* A version the server, or the pass, already had.
Known(f) == f.etag = 0 \/ \E g \in Carriers : g.etag = f.etag /\ g.c = f.c
\* A step brings at most one new version.
Brings(e, c) == \A q \in Names : \A f \in {remote'[q], ops'[q].r, ops'[q].got} : Known(f) \/ (f.etag = e /\ f.c = c)

LEMMA RowStays ==
  ASSUME NEW b, NEW C, NEW S, NEW R, NEW C2, NEW S2, NEW R2, RowIs(b, C, S, R), S \subseteq S2, R \subseteq R2,
         \A f \in C2 : f.etag = 0 \/ f.etag # b.etag \/ \E g \in C : g.etag = f.etag /\ g.c = f.c
  PROVE  RowIs(b, C2, S2, R2)
BY DEF RowIs, Same

LEMMA OpStays ==
  ASSUME NEW o, NEW R, NEW R2, OpIs(o, R), R \subseteq R2
  PROVE  OpIs(o, R2)
BY DEF OpIs, Same

LEMMA NothingIs == ASSUME NEW R PROVE OpIs(NoOp, R)
BY DEF OpIs, NoOp, MoveKinds

LEMMA KnownNow == Known(Gone) /\ \A q \in Names : Known(remote[q]) /\ Known(ops[q].r) /\ Known(ops[q].got)
BY DEF Known, Gone, Carriers

LEMMA UsedNow ==
  /\ \A f \in Carriers : f.etag \in UsedEtags
  /\ \A q \in Names : base[q].etag \in UsedEtags
BY DEF Carriers, UsedEtags

LEMMA Versions ==
  ASSUME SyncInv, NEW e, NEW c, e = 0 \/ e \notin UsedEtags, Brings(e, c)
  PROVE  OneVersion(Carriers')
<1>1. \A f \in Carriers' : Known(f) \/ (f.etag = e /\ f.c = c)
  BY DEF Brings, Carriers
<1>2. OneVersion(Carriers)
  BY DEF SyncInv, Etagged
<1>. QED  BY <1>1, <1>2, UsedNow DEF OneVersion, Known

LEMMA SyncStep ==
  ASSUME SyncInv, TypeOK', Grows, NEW e, NEW c, e = 0 \/ e \notin UsedEtags, Brings(e, c),
         \A q \in Names : Real(remote'[q]) /\ Real(ops'[q].r) /\ OpIs(ops'[q], raced'),
         \A q \in Names : base'[q] \in {base[q], NoRow} \/ RowIs(base'[q], Carriers', superseded', raced')
  PROVE  SyncInv'
<1>1. Etagged'
  BY Versions DEF Etagged
<1>2. Rows'
  <2>1. \A f \in Carriers' : Known(f) \/ (f.etag = e /\ f.c = c)
    BY DEF Brings, Carriers
  <2>2. ASSUME NEW q \in Names, base'[q] = base[q] PROVE RowIs(base'[q], Carriers', superseded', raced')
    <3>1. RowIs(base'[q], Carriers, superseded, raced)
      BY <2>2 DEF SyncInv, Rows
    <3>2. \A f \in Carriers' : f.etag = 0 \/ f.etag # base'[q].etag \/ \E g \in Carriers : g.etag = f.etag /\ g.c = f.c
      BY <2>1, <2>2, UsedNow DEF Known
    <3>. HIDE DEF Carriers
    <3>. QED  BY <3>1, <3>2, RowStays DEF Grows
  <2>3. ASSUME NEW q \in Names, base'[q] = NoRow PROVE RowIs(base'[q], Carriers', superseded', raced')
    BY <2>3 DEF RowIs
  <2>. QED  BY <2>2, <2>3 DEF Rows
<1>3. OpRows'
  BY DEF OpRows
<1>. QED  BY <1>1, <1>2, <1>3 DEF SyncInv

\* A step of one name's action.
LEMMA OneStep ==
  ASSUME SyncInv, TypeOK', Grows, NEW p \in Names, remote' = remote, \A q \in Names \ {p} : ops'[q] = ops[q],
         Known(ops'[p].r), Known(ops'[p].got), Real(ops'[p].r), OpIs(ops'[p], raced'),
         \A q \in Names : base'[q] \in {base[q], NoRow} \/ RowIs(base'[q], Carriers', superseded', raced')
  PROVE  SyncInv'
<1>1. Brings(0, 0)
  BY KnownNow DEF Brings
<1>2. \A q \in Names : OpIs(ops'[q], raced')
  BY OpStays DEF SyncInv, OpRows, Grows
<1>3. \A q \in Names : Real(remote'[q]) /\ Real(ops'[q].r)
  BY DEF SyncInv, Etagged
<1>. QED  BY <1>1, <1>2, <1>3, SyncStep
LEMMA OneVersionStill ==
  ASSUME SyncInv, NEW p \in Names, remote' = remote, \A q \in Names \ {p} : ops'[q] = ops[q],
         Known(ops'[p].r), Known(ops'[p].got)
  PROVE  OneVersion(Carriers') /\ \A f \in Carriers' : Known(f)
<1>1. Brings(0, 0)
  BY KnownNow DEF Brings
<1>2. \A f \in Carriers' : Known(f)
  BY KnownNow DEF Carriers
<1>. QED  BY <1>1, <1>2, Versions

LEMMA NewRow ==
  ASSUME TypeOK, NEW p \in Names, NEW c \in Contents, NEW e \in Etags, NEW i \in Ids, c # 0,
         NEW C, NEW S, NEW R,
         ListedKey(p, e) = 0 \/ Same(ListedKey(p, e), c, R),
         \A f \in C : f.etag = e /\ f.etag # 0 => Same(f.c, c, R)
  PROVE  RowIs(RowOf(p, c, e, i), C, S, R)
BY Numbers, ARow DEF RowIs

\* A row made of a version f that is known and what is here, which are the same.
LEMMA RowOfVersion ==
  ASSUME SyncInv, NEW p \in Names, NEW f \in Carriers, f \in File, f.c # 0,
         remote' = remote, \A q \in Names \ {p} : ops'[q] = ops[q], Known(ops'[p].r), Known(ops'[p].got)
  PROVE  RowIs(RowOf(p, f.c, f.etag, f.id), Carriers', superseded', raced')
<1>1. OneVersion(Carriers') /\ \A g \in Carriers' : Known(g)
  BY OneVersionStill
<1>2. \A g \in Carriers : g.etag = f.etag /\ f.etag # 0 => g.c = f.c
  BY DEF SyncInv, Etagged, OneVersion
<1>3. \A g \in Carriers' : g.etag = f.etag /\ g.etag # 0 => g.c = f.c
  BY <1>1, <1>2 DEF Known
<1>4. ListedKey(p, f.etag) = 0 \/ ListedKey(p, f.etag) = f.c
  BY <1>2 DEF ListedKey, Carriers
<1>. QED  BY <1>3, <1>4, NewRow, AFile DEF Same, SyncInv

LEMMA Here ==
  ASSUME SyncInv, NEW p \in Names
  PROVE  /\ ops[p] \in Op /\ ops[p].r \in File /\ ops[p].got \in File /\ remote[p] \in File /\ local[p] \in Contents
         /\ ops[p].l \in Contents /\ ops[p].other \subseteq Names
         /\ ops[p].r \in Carriers /\ ops[p].got \in Carriers /\ remote[p] \in Carriers
         /\ Real(remote[p]) /\ Real(ops[p].r) /\ OpIs(ops[p], raced) /\ RowIs(base[p], Carriers, superseded, raced)
         /\ Known(remote[p]) /\ Known(ops[p].r) /\ Known(ops[p].got) /\ Known(Gone) /\ Real(Gone)
<1>1. ops[p] \in Op /\ ops[p].r \in File /\ ops[p].got \in File /\ remote[p] \in File /\ local[p] \in Contents
         /\ ops[p].l \in Contents /\ ops[p].other \subseteq Names
  BY AnOp DEF SyncInv, TypeOK
<1>2. ops[p].r \in Carriers /\ ops[p].got \in Carriers /\ remote[p] \in Carriers
  BY DEF Carriers
<1>3. Real(remote[p]) /\ Real(ops[p].r) /\ OpIs(ops[p], raced) /\ RowIs(base[p], Carriers, superseded, raced)
  BY DEF SyncInv, Etagged, Rows, OpRows
<1>4. Real(Gone)
  BY DEF Real, Gone
<1>. QED  BY <1>1, <1>2, <1>3, <1>4, KnownNow

LEMMA EndStep ==
  ASSUME SyncInv, TypeOK', NEW p \in Names, Done(p), remote' = remote, Grows,
         \A q \in Names : base'[q] \in {base[q], NoRow} \/ RowIs(base'[q], Carriers', superseded', raced')
  PROVE  SyncInv'
<1>1. ops'[p] = NoOp /\ \A q \in Names \ {p} : ops'[q] = ops[q]
  BY DoneIs DEF SyncInv
<1>2. ops'[p].r = Gone /\ ops'[p].got = Gone
  BY <1>1 DEF NoOp
<1>3. OpIs(ops'[p], raced')
  BY <1>1, NothingIs
<1>. QED  BY <1>1, <1>2, <1>3, OneStep, Here

\* rebaselineFile: what is there on both sides is the same, or raced.
LEMMA RebaselineInv ==
  ASSUME SyncInv, TypeOK', NEW p \in Names, NEW mine, NEW theirs, RebaselineFile(p, mine, theirs),
         Done(p), remote' = remote, superseded' = superseded, Same(theirs, mine, raced)
  PROVE  SyncInv'
<1>1. PICK f \in {remote[p], Gone} : Record(p, RowOf(p, local[p], f.etag, f.id))
  BY DEF RebaselineFile
<1>2. ops'[p] = NoOp /\ \A q \in Names \ {p} : ops'[q] = ops[q]
  BY DoneIs DEF SyncInv
<1>3. local[p] # 0 /\ Grows
  BY DEF RebaselineFile, HasL, Grows, Race
<1>4. OneVersion(Carriers') /\ \A g \in Carriers' : Known(g)
  BY <1>2, OneVersionStill, KnownNow DEF NoOp
<1>5. f \in File /\ (f.etag # 0 => f = remote[p] /\ f.c # 0)
  BY Here, GoneIsFile DEF Real, Gone
<1>6. f.etag # 0 => Same(f.c, local[p], raced')
  <2>. SUFFICES ASSUME f.etag # 0 PROVE Same(f.c, local[p], raced')
    OBVIOUS
  <2>1. CASE local[p] = mine /\ remote[p].c = theirs
    BY <1>3, <1>5, <2>1 DEF Same, Grows
  <2>2. CASE ~(local[p] = mine /\ remote[p].c = theirs)
    <3>1. Joined(local[p], remote[p].c) \subseteq raced'
      BY <2>2, <1>3, <1>5 DEF RebaselineFile, Race, Joined
    <3>. QED  BY <1>3, <1>5, <3>1 DEF Joined, Same
  <2>. QED  BY <2>1, <2>2
<1>7. \A g \in Carriers' : g.etag = f.etag /\ g.etag # 0 => Same(g.c, local[p], raced')
  <2>1. remote[p] \in Carriers'
    BY DEF Carriers
  <2>. QED  BY <1>4, <1>5, <1>6, <2>1 DEF OneVersion
<1>8. ListedKey(p, f.etag) = 0 \/ Same(ListedKey(p, f.etag), local[p], raced')
  <2>. SUFFICES ASSUME f.etag # 0, f.etag = ops[p].r.etag, ops[p].kind # "moveRemote" PROVE Same(ops[p].r.c, local[p], raced')
    BY DEF ListedKey
  <2>1. ops[p].r.c = f.c
    BY <1>5, Here DEF SyncInv, Etagged, OneVersion
  <2>. QED  BY <1>6, <2>1
<1>9. RowIs(RowOf(p, local[p], f.etag, f.id), Carriers', superseded', raced')
  BY <1>3, <1>5, <1>7, <1>8, NewRow, Here, AFile DEF SyncInv
<1>10. base'[p] = RowOf(p, local[p], f.etag, f.id) /\ \A q \in Names \ {p} : base'[q] = base[q]
  BY <1>1 DEF Record, SyncInv, TypeOK
<1>11. \A q \in Names : base'[q] \in {base[q], NoRow} \/ RowIs(base'[q], Carriers', superseded', raced')
  BY <1>9, <1>10
<1>. QED  BY <1>3, <1>11, EndStep

LEMMA MovingInv ==
  ASSUME SyncInv, TypeOK', NEW p \in Names, MoveHere(p) \/ MoveThere(p) \/ MoveForgets(p) \/ MoveRecords(p)
  PROVE  SyncInv'
<1>0. TypeOK /\ "moved" \in Steps
  BY DEF SyncInv, Steps
<1>1. CASE MoveHere(p)
  <2>1. /\ ops'[p].r = ops[p].r /\ ops'[p].got = ops[p].got /\ ops'[p].l = ops[p].l
        /\ ops'[p].step = "moved" /\ ops'[p].kind = ops[p].kind /\ \A q \in Names \ {p} : ops'[q] = ops[q]
    BY <1>0, <1>1, GotoIs DEF MoveHere
  <2>2. OpIs(ops'[p], raced')
    BY <1>1, <2>1, Here DEF OpIs, MoveHere, Starts, MoveKinds
  <2>3. remote' = remote /\ base' = base /\ Grows
    BY <1>1 DEF MoveHere, user, Grows
  <2>. QED  BY <2>1, <2>2, <2>3, Here, OneStep
<1>2. CASE MoveThere(p)
  <2>1. /\ ops'[p].r = ops[p].r /\ ops'[p].got = ops[p].got /\ ops'[p].l = ops[p].l
        /\ ops'[p].step = "moved" /\ ops'[p].kind = ops[p].kind /\ \A q \in Names \ {p} : ops'[q] = ops[q]
    BY <1>0, <1>2, GotoIs DEF MoveThere
  <2>2. base' = base /\ Grows
    BY <1>2 DEF MoveThere, user, Grows, Race
  <2>3. OpIs(ops'[p], raced')
    BY <1>2, <2>1, <2>2, Here DEF OpIs, MoveThere, Starts, MoveKinds, Same, Grows
  <2>4. \A q \in Names : Known(remote'[q]) /\ Real(remote'[q])
    BY <1>2, Here DEF MoveThere, SyncInv, TypeOK
  <2>5. Brings(0, 0)
    BY <2>1, <2>4, Here DEF Brings
  <2>6. \A q \in Names : Real(ops'[q].r) /\ OpIs(ops'[q], raced')
    BY <2>1, <2>2, <2>3, Here, OpStays DEF Grows
  <2>. QED  BY <2>2, <2>4, <2>5, <2>6, SyncStep
<1>3. CASE MoveForgets(p)
  <2>1. /\ ops'[p].r = ops[p].r /\ ops'[p].got = ops[p].got /\ ops'[p].l = ops[p].l
        /\ ops'[p].step = ops[p].step /\ ops'[p].kind = ops[p].kind /\ \A q \in Names \ {p} : ops'[q] = ops[q]
    BY <1>0, <1>3, Here DEF MoveForgets, TypeOK, Op
  <2>2. OpIs(ops'[p], raced')
    BY <1>3, <2>1, Here DEF OpIs, MoveForgets, user
  <2>3. remote' = remote /\ (\A q \in Names : base'[q] \in {base[q], NoRow}) /\ Grows
    BY <1>3 DEF MoveForgets, user, Grows
  <2>. QED  BY <2>1, <2>2, <2>3, Here, OneStep
<1>4. CASE MoveRecords(p)
  <2>1. Same(ops[p].r.c, ops[p].l, raced)
    BY <1>4, Here DEF MoveRecords, At, OpIs
  <2>. QED  BY <1>4, <2>1, RebaselineInv DEF MoveRecords, user
<1>. QED  BY <1>1, <1>2, <1>3, <1>4

LEMMA DownloadInv ==
  ASSUME SyncInv, TypeOK', NEW p \in Names, SkipDownload(p) \/ Fetch(p) \/ Commit(p) \/ RecordDownload(p)
  PROVE  SyncInv'
<1>0. TypeOK /\ "committed" \in Steps
  BY DEF SyncInv, Steps
<1>1. CASE SkipDownload(p)
  <2>1. ops'[p] = NoOp /\ \A q \in Names \ {p} : ops'[q] = ops[q]
    BY <1>0, <1>1, DoneIs DEF SkipDownload
  <2>2. local[p] = ops[p].r.c /\ ops[p].r.c # 0
    BY <1>1, Here DEF SkipDownload, Redundant, Real, Gone
  <2>3. RowIs(RowOf(p, local[p], ops[p].r.etag, ops[p].r.id), Carriers', superseded', raced')
    BY <1>1, <2>1, <2>2, Here, RowOfVersion DEF SkipDownload, NoOp
  <2>4. base'[p] = RowOf(p, local[p], ops[p].r.etag, ops[p].r.id) /\ \A q \in Names \ {p} : base'[q] = base[q]
    BY <1>0, <1>1 DEF SkipDownload, Record, TypeOK
  <2>5. remote' = remote /\ Grows
    BY <1>1 DEF SkipDownload, user, Grows
  <2>6. \A q \in Names : base'[q] \in {base[q], NoRow} \/ RowIs(base'[q], Carriers', superseded', raced')
    BY <2>3, <2>4
  <2>. QED  BY <1>1, <2>5, <2>6, EndStep DEF SkipDownload
<1>2. CASE Fetch(p)
  <2>1. /\ ops'[p].r = ops[p].r /\ ops'[p].got = remote[p] /\ HasR(p)
        /\ ops'[p].step = "fetched" /\ ops'[p].kind = "download" /\ \A q \in Names \ {p} : ops'[q] = ops[q]
    BY <1>0, <1>2, FetchingIs, Here DEF Fetch, Starts
  <2>2. OpIs(ops'[p], raced')
    BY <2>1 DEF OpIs, HasR, MoveKinds
  <2>3. remote' = remote /\ base' = base /\ Grows
    BY <1>2 DEF Fetch, user, Grows
  <2>. QED  BY <2>1, <2>2, <2>3, Here, OneStep
<1>3. CASE Commit(p)
  <2>1. /\ ops'[p].r = ops[p].r /\ ops'[p].got = ops[p].got
        /\ ops'[p].step = "committed" /\ ops'[p].kind = ops[p].kind /\ \A q \in Names \ {p} : ops'[q] = ops[q]
    BY <1>0, <1>3, GotoIs DEF Commit
  <2>2. OpIs(ops'[p], raced')
    BY <1>3, <2>1, Here DEF OpIs, Commit, At
  <2>3. remote' = remote /\ base' = base /\ Grows
    BY <1>3 DEF Commit, user, Grows, Race
  <2>. QED  BY <2>1, <2>2, <2>3, Here, OneStep
<1>4. CASE RecordDownload(p)
  <2>1. ops'[p] = NoOp /\ \A q \in Names \ {p} : ops'[q] = ops[q]
    BY <1>0, <1>4, DoneIs DEF RecordDownload
  <2>2. ops[p].got.c # 0
    BY <1>4, Here DEF RecordDownload, At, OpIs
  <2>3. RowIs(RowOf(p, ops[p].got.c, ops[p].got.etag, ops[p].got.id), Carriers', superseded', raced')
    BY <1>4, <2>1, <2>2, Here, RowOfVersion DEF RecordDownload, NoOp
  <2>4. base'[p] = RowOf(p, ops[p].got.c, ops[p].got.etag, ops[p].got.id) /\ \A q \in Names \ {p} : base'[q] = base[q]
    BY <1>0, <1>4 DEF RecordDownload, Record, TypeOK
  <2>5. remote' = remote /\ Grows
    BY <1>4 DEF RecordDownload, user, Grows
  <2>6. \A q \in Names : base'[q] \in {base[q], NoRow} \/ RowIs(base'[q], Carriers', superseded', raced')
    BY <2>3, <2>4
  <2>. QED  BY <1>4, <2>5, <2>6, EndStep DEF RecordDownload
<1>. QED  BY <1>1, <1>2, <1>3, <1>4

LEMMA UploadInv ==
  ASSUME SyncInv, TypeOK', NEW p \in Names, Read(p) \/ Put(p) \/ RecordUpload(p)
  PROVE  SyncInv'
<1>0. TypeOK
  BY DEF SyncInv
<1>1. CASE Read(p)
  <2>1. /\ ops'[p].r = ops[p].r /\ ops'[p].got.etag = 0 /\ ops'[p].got.c # 0
        /\ ops'[p].step = "read" /\ ops'[p].kind = "upload" /\ \A q \in Names \ {p} : ops'[q] = ops[q]
    BY <1>0, <1>1, ReadingIs, Here DEF Read, Starts, HasL
  <2>2. OpIs(ops'[p], raced') /\ Known(ops'[p].got)
    BY <2>1 DEF OpIs, MoveKinds, Known
  <2>3. remote' = remote /\ base' = base /\ Grows
    BY <1>1 DEF Read, user, Grows
  <2>. QED  BY <2>1, <2>2, <2>3, Here, OneStep
<1>2. CASE Put(p)
  <2>1. PICK f \in File, g \in File :
           /\ f.c = ops[p].got.c /\ f.etag # 0 /\ f.etag \notin UsedEtags
           /\ g.c = f.c /\ g.etag \in {0, f.etag}
           /\ remote' = [remote EXCEPT ![p] = f]
           /\ (\A q \in Names \ {p} : ops'[q] = ops[q])
           /\ ops'[p].kind = ops[p].kind /\ ops'[p].step = "put" /\ ops'[p].r = Gone /\ ops'[p].got = g
    BY <1>0, <1>2, PutIs
  <2>2. ops[p].got.c # 0 /\ ops[p].kind \notin MoveKinds
    BY <1>2, Here DEF Put, At, OpIs
  <2>3. /\ remote'[p] = f /\ \A q \in Names \ {p} : remote'[q] = remote[q]
    BY <1>0, <2>1 DEF TypeOK
  <2>4. \A q \in Names : \A h \in {remote'[q], ops'[q].r, ops'[q].got} : Known(h) \/ (h.etag = f.etag /\ h.c = f.c)
    <3>1. ASSUME NEW q \in Names \ {p}
          PROVE  \A h \in {remote'[q], ops'[q].r, ops'[q].got} : Known(h)
      BY <2>1, <2>3, Here
    <3>2. Known(g) \/ (g.etag = f.etag /\ g.c = f.c)
      BY <2>1 DEF Known
    <3>. QED  BY <2>1, <2>3, <3>1, <3>2, Here
  <2>5. Brings(f.etag, f.c)
    BY <2>4 DEF Brings
  <2>6. OpIs(ops'[p], raced')
    BY <2>1, <2>2 DEF OpIs
  <2>7. base' = base /\ Grows
    BY <1>2 DEF Put, user, Grows, Race
  <2>8. Real(f) /\ Real(ops'[p].r)
    BY <2>1, <2>2, Here DEF Real, Gone
  <2>9. \A q \in Names : Real(remote'[q]) /\ Real(ops'[q].r) /\ OpIs(ops'[q], raced')
    BY <2>1, <2>3, <2>6, <2>7, <2>8, Here, OpStays DEF Grows
  <2>. QED  BY <2>1, <2>5, <2>7, <2>9, SyncStep
<1>3. CASE RecordUpload(p)
  <2>. DEFINE e == IF ops[p].got.etag # 0 THEN ops[p].got.etag ELSE remote[p].etag
              row == RowOf(p, ops[p].got.c, e, ops[p].got.id)
  <2>1. ops'[p] = NoOp /\ \A q \in Names \ {p} : ops'[q] = ops[q]
    BY <1>0, <1>3, DoneIs DEF RecordUpload
  <2>2. ops[p].got.c # 0 /\ ops[p].r = Gone
    BY <1>3, Here DEF RecordUpload, At, OpIs
  <2>3. remote' = remote /\ Grows
    BY <1>3 DEF RecordUpload, user, Grows, Race
  <2>4. ListedKey(p, e) = 0
    BY <2>2 DEF ListedKey, Gone
  <2>5. OneVersion(Carriers') /\ \A h \in Carriers' : Known(h)
    BY <2>1, <2>3, OneVersionStill, KnownNow DEF NoOp
  <2>6. \A h \in Carriers' : h.etag = e /\ h.etag # 0 => Same(h.c, ops[p].got.c, raced')
    <3>1. CASE ops[p].got.etag # 0
      BY <2>5, <3>1, Here DEF Known, SyncInv, Etagged, OneVersion, Same
    <3>2. CASE ops[p].got.etag = 0
      <4>1. Joined(remote[p].c, ops[p].got.c) \subseteq raced'
        BY <1>3, <3>2 DEF RecordUpload, Race, Joined
      <4>2. remote[p].etag # 0 => remote[p].c # 0
        BY Here DEF Real
      <4>3. remote[p].etag # 0 => Same(remote[p].c, ops[p].got.c, raced')
        BY <2>2, <4>1, <4>2 DEF Joined, Same
      <4>4. remote[p] \in Carriers'
        BY <2>3 DEF Carriers
      <4>. QED  BY <2>5, <3>2, <4>3, <4>4 DEF OneVersion
    <3>. QED  BY <3>1, <3>2
  <2>7. ops[p].got.c \in Contents /\ e \in Etags /\ ops[p].got.id \in Ids
    BY Here, AFile
  <2>8. Record(p, row)
    BY <1>3 DEF RecordUpload
  <2>. HIDE DEF e
  <2>9. RowIs(row, Carriers', superseded', raced')
    BY <1>0, <2>2, <2>4, <2>6, <2>7, NewRow
  <2>. HIDE DEF row
  <2>10. \A q \in Names : base'[q] \in {base[q], NoRow} \/ RowIs(base'[q], Carriers', superseded', raced')
    BY <1>0, <2>8, <2>9 DEF Record, TypeOK
  <2>. QED  BY <1>3, <2>3, <2>10, EndStep DEF RecordUpload
<1>. QED  BY <1>1, <1>2, <1>3

\* A step that fetches, or reads what is here to send it.
LEMMA FetchingInv ==
  ASSUME SyncInv, TypeOK', NEW p \in Names, NEW h \in Contents, Fetching(p, h), ops[p].kind \notin MoveKinds,
         remote' = remote, base' = base, Grows
  PROVE  SyncInv'
<1>1. /\ ops'[p].r = ops[p].r /\ ops'[p].got = remote[p] /\ HasR(p)
      /\ ops'[p].step = "fetched" /\ ops'[p].kind = ops[p].kind /\ \A q \in Names \ {p} : ops'[q] = ops[q]
  BY FetchingIs DEF SyncInv
<1>2. OpIs(ops'[p], raced')
  BY <1>1 DEF OpIs, HasR
<1>. QED  BY <1>1, <1>2, Here, OneStep

LEMMA ReadingInv ==
  ASSUME SyncInv, TypeOK', NEW p \in Names, NEW f \in File, Real(f), Known(f), Reading(p, f), ops[p].kind \notin MoveKinds,
         remote' = remote, base' = base, Grows
  PROVE  SyncInv'
<1>1. /\ ops'[p].r = f /\ ops'[p].got.etag = 0 /\ ops'[p].got.c # 0
      /\ ops'[p].step = "read" /\ ops'[p].kind = ops[p].kind /\ \A q \in Names \ {p} : ops'[q] = ops[q]
  BY ReadingIs DEF SyncInv, HasL
<1>2. OpIs(ops'[p], raced') /\ Known(ops'[p].got)
  BY <1>1 DEF OpIs, Known
<1>. QED  BY <1>1, <1>2, Here, OneStep

LEMMA EndsInv ==
  ASSUME SyncInv, TypeOK', NEW p \in Names, NEW s \in {"asked", "deleted"}, Ends(p, s), ops[p].kind \notin MoveKinds,
         remote' = remote, base' = base, Grows
  PROVE  SyncInv'
<1>1. /\ ops'[p].r = Gone /\ ops'[p].got = Gone /\ ops'[p].step = s /\ ops'[p].kind = ops[p].kind
      /\ \A q \in Names \ {p} : ops'[q] = ops[q]
  BY EndsIs DEF SyncInv, Steps
<1>2. OpIs(ops'[p], raced')
  BY <1>1 DEF OpIs
<1>. QED  BY <1>1, <1>2, Here, OneStep

LEMMA ConflictInv ==
  ASSUME SyncInv, TypeOK', NEW p \in Names,
         \/ Resurrect(p) \/ BothGone(p) \/ SameSum(p) \/ Compare(p) \/ SameBytes(p) \/ Ask(p) \/ KeepNewest(p)
  PROVE  SyncInv'
<1>0. TypeOK /\ 0 \in Contents /\ Gone \in File
  BY Numbers, GoneIsFile DEF SyncInv
<1>1. CASE Resurrect(p)
  <2>1. Reading(p, Gone) \/ Fetching(p, 0)
    BY <1>1 DEF Resurrect
  <2>2. remote' = remote /\ base' = base /\ Grows /\ ops[p].kind \notin MoveKinds
    BY <1>1 DEF Resurrect, user, Grows, Starts, MoveKinds
  <2>. QED  BY <1>0, <2>1, <2>2, ReadingInv, FetchingInv, Here
<1>2. CASE BothGone(p)
  <2>1. remote' = remote /\ Grows /\ \A q \in Names : base'[q] \in {base[q], NoRow}
    BY <1>0, <1>2, RecordIs, NoRowIsRow DEF BothGone, user, Grows
  <2>. QED  BY <1>2, <2>1, EndStep DEF BothGone
<1>3. CASE SameSum(p)
  <2>1. ops'[p] = NoOp /\ \A q \in Names \ {p} : ops'[q] = ops[q]
    BY <1>0, <1>3, DoneIs DEF SameSum
  <2>2. local[p] = ops[p].r.c /\ ops[p].r.c # 0
    BY <1>3, Here DEF SameSum, Facing, HasL
  <2>3. remote' = remote /\ Grows
    BY <1>3 DEF SameSum, user, Grows
  <2>4. RowIs(RowOf(p, local[p], ops[p].r.etag, ops[p].r.id), Carriers', superseded', raced')
    BY <2>1, <2>2, <2>3, Here, RowOfVersion DEF NoOp
  <2>5. base'[p] = RowOf(p, local[p], ops[p].r.etag, ops[p].r.id) /\ \A q \in Names \ {p} : base'[q] = base[q]
    BY <1>0, <1>3 DEF SameSum, Record, TypeOK
  <2>6. \A q \in Names : base'[q] \in {base[q], NoRow} \/ RowIs(base'[q], Carriers', superseded', raced')
    BY <2>4, <2>5
  <2>. QED  BY <1>3, <2>3, <2>6, EndStep DEF SameSum
<1>4. CASE Compare(p)
  <2>. DEFINE n == [ops[p] EXCEPT !.l = local[p], !.got = remote[p], !.step = "compared"]
  <2>1. n.r = ops[p].r /\ n.got = remote[p] /\ n.step = "compared" /\ n.kind = ops[p].kind
    BY Here DEF Op
  <2>2. ops' = [ops EXCEPT ![p] = n]
    BY <1>4 DEF Compare
  <2>. HIDE DEF n
  <2>3. ops'[p] = n /\ \A q \in Names \ {p} : ops'[q] = ops[q]
    BY <1>0, <2>2 DEF TypeOK
  <2>4. ops[p].kind = "conflict" /\ remote[p].c # 0 /\ remote' = remote /\ base' = base /\ Grows
    BY <1>4 DEF Compare, Facing, Starts, HasR, user, Grows
  <2>5. OpIs(ops'[p], raced')
    BY <2>1, <2>3, <2>4 DEF OpIs, MoveKinds
  <2>. QED  BY <2>1, <2>3, <2>4, <2>5, Here, OneStep
<1>5. CASE SameBytes(p)
  BY <1>5, RebaselineInv DEF SameBytes, user, Same
<1>6. CASE Ask(p)
  <2>1. ops[p].kind \notin MoveKinds /\ remote' = remote /\ base' = base /\ Grows /\ Ends(p, "asked")
    BY <1>6 DEF Ask, Starts, Differ, Facing, MoveKinds, user, Grows
  <2>. QED  BY <2>1, EndsInv
<1>7. CASE KeepNewest(p)
  <2>1. ops[p].kind \notin MoveKinds /\ remote' = remote /\ base' = base /\ Grows
    BY <1>7 DEF KeepNewest, Starts, Differ, Facing, MoveKinds, Grows, Forget
  <2>2. Reading(p, remote[p]) \/ Fetching(p, local[p])
    BY <1>7 DEF KeepNewest
  <2>. QED  BY <2>1, <2>2, ReadingInv, FetchingInv, Here
<1>. QED  BY <1>1, <1>2, <1>3, <1>4, <1>5, <1>6, <1>7

LEMMA BothInv ==
  ASSUME SyncInv, TypeOK', NEW p \in Names,
         \/ SetAside(p) \/ Place(p) \/ RecordPlaced(p) \/ ReadCopy(p)
         \/ DeleteHere(p) \/ DeleteThere(p) \/ RecordDeleted(p) \/ Fail(p)
  PROVE  SyncInv'
<1>0. TypeOK /\ "placed" \in Steps /\ Gone \in File
  BY GoneIsFile DEF SyncInv, Steps
<1>1. CASE SetAside(p)
  <2>1. PICK k \in Copies : ops' = [ops EXCEPT ![p] = [@ EXCEPT !.other = {k}, !.step = "aside"]]
    BY <1>1 DEF SetAside
  <2>. DEFINE n == [ops[p] EXCEPT !.other = {k}, !.step = "aside"]
  <2>2. n.r = ops[p].r /\ n.got = ops[p].got /\ n.step = "aside" /\ n.kind = ops[p].kind
    BY Here DEF Op
  <2>3. ops' = [ops EXCEPT ![p] = n]
    BY <2>1
  <2>. HIDE DEF n
  <2>4. ops'[p] = n /\ \A q \in Names \ {p} : ops'[q] = ops[q]
    BY <1>0, <2>3 DEF TypeOK
  <2>5. remote' = remote /\ base' = base /\ Grows
    BY <1>1 DEF SetAside, user, Grows
  <2>6. OpIs(ops'[p], raced')
    BY <1>1, <2>2, <2>4, Here DEF OpIs, SetAside, At, MoveKinds
  <2>. QED  BY <2>2, <2>4, <2>5, <2>6, Here, OneStep
<1>2. CASE Place(p)
  <2>1. /\ ops'[p].r = ops[p].r /\ ops'[p].got = ops[p].got
        /\ ops'[p].step = "placed" /\ ops'[p].kind = ops[p].kind /\ \A q \in Names \ {p} : ops'[q] = ops[q]
    BY <1>0, <1>2, GotoIs DEF Place
  <2>2. OpIs(ops'[p], raced')
    BY <1>2, <2>1, Here DEF OpIs, Place, At
  <2>3. remote' = remote /\ base' = base /\ Grows
    BY <1>2 DEF Place, user, Grows, Race
  <2>. QED  BY <2>1, <2>2, <2>3, Here, OneStep
<1>3. CASE RecordPlaced(p)
  <2>. DEFINE row == RowOf(p, ops[p].got.c, ops[p].got.etag, ops[p].got.id)
  <2>1. PICK k \in ops[p].other : ops' =
       [ops EXCEPT ![p] = NoOp, ![k] = [NoOp EXCEPT !.kind = "both", !.step = "copied"]]
    BY <1>3 DEF RecordPlaced
  <2>. DEFINE n == [NoOp EXCEPT !.kind = "both", !.step = "copied"]
  <2>2. n.r = Gone /\ n.got = Gone /\ n.step = "copied" /\ n.kind = "both"
    BY DEF NoOp
  <2>3. ops' = [ops EXCEPT ![p] = NoOp, ![k] = n]
    BY <2>1
  <2>. HIDE DEF n
  <2>4. \A q \in Names : ops'[q] \in {NoOp, n, ops[q]}
    BY <1>0, <2>3 DEF TypeOK
  <2>5. NoOp.r = Gone /\ NoOp.got = Gone
    BY DEF NoOp
  <2>6. remote' = remote /\ Grows
    BY <1>3 DEF RecordPlaced, user, Grows
  <2>7. \A q \in Names : Known(remote'[q]) /\ Known(ops'[q].r) /\ Known(ops'[q].got) /\ Real(remote'[q]) /\ Real(ops'[q].r)
    BY <2>2, <2>4, <2>5, <2>6, Here
  <2>8. OpIs(n, raced')
    BY <2>2 DEF OpIs, MoveKinds
  <2>9. \A q \in Names : OpIs(ops'[q], raced')
    BY <2>4, <2>6, <2>8, Here, NothingIs, OpStays DEF Grows
  <2>10. Brings(0, 0)
    BY <2>7 DEF Brings
  <2>11. ops[p].got.c # 0
    BY <1>3, Here DEF RecordPlaced, At, OpIs
  <2>12. OneVersion(Carriers') /\ \A f \in Carriers' : Known(f)
    BY <2>7, <2>10, Versions DEF Carriers
  <2>13. RowIs(row, Carriers', superseded', raced')
    <3>1. \A g \in Carriers : g.etag = ops[p].got.etag /\ g.etag # 0 => g.c = ops[p].got.c
      BY Here DEF SyncInv, Etagged, OneVersion
    <3>2. \A g \in Carriers' : g.etag = ops[p].got.etag /\ g.etag # 0 => g.c = ops[p].got.c
      BY <2>12, <3>1 DEF Known
    <3>3. ListedKey(p, ops[p].got.etag) = 0 \/ ListedKey(p, ops[p].got.etag) = ops[p].got.c
      BY <3>1, Here DEF ListedKey
    <3>. QED  BY <1>0, <2>11, <3>2, <3>3, Here, AFile, NewRow DEF Same
  <2>. HIDE DEF row
  <2>14. \A q \in Names : base'[q] \in {base[q], NoRow} \/ RowIs(base'[q], Carriers', superseded', raced')
    BY <1>0, <1>3, <2>13 DEF RecordPlaced, Record, TypeOK, row
  <2>. QED  BY <2>6, <2>7, <2>9, <2>10, <2>14, SyncStep
<1>4. CASE ReadCopy(p)
  <2>1. ops[p].kind \notin MoveKinds
    BY <1>4, Here DEF ReadCopy, At, OpIs
  <2>. QED  BY <1>0, <1>4, <2>1, ReadingInv, Here DEF ReadCopy, user, Grows
<1>5. CASE DeleteHere(p)
  BY <1>5, EndsInv DEF DeleteHere, Starts, MoveKinds, Grows, Race, user
<1>6. CASE DeleteThere(p)
  <2>1. /\ ops'[p].r = Gone /\ ops'[p].got = Gone /\ ops'[p].step = "deleted" /\ ops'[p].kind = ops[p].kind
        /\ \A q \in Names \ {p} : ops'[q] = ops[q]
    BY <1>0, <1>6, EndsIs DEF DeleteThere, Steps
  <2>2. OpIs(ops'[p], raced')
    BY <1>6, <2>1 DEF OpIs, DeleteThere, Starts, MoveKinds
  <2>3. base' = base /\ Grows
    BY <1>6 DEF DeleteThere, user, Grows, Race, disk
  <2>4. \A q \in Names : remote'[q] \in {remote[q], Gone}
    BY <1>0, <1>6 DEF DeleteThere, TypeOK
  <2>5. \A q \in Names : Known(remote'[q]) /\ Known(ops'[q].r) /\ Known(ops'[q].got) /\ Real(remote'[q]) /\ Real(ops'[q].r)
    BY <2>1, <2>4, Here
  <2>6. Brings(0, 0)
    BY <2>5 DEF Brings
  <2>7. \A q \in Names : OpIs(ops'[q], raced')
    BY <2>1, <2>2, <2>3, Here, OpStays DEF Grows
  <2>. QED  BY <2>3, <2>5, <2>6, <2>7, SyncStep
<1>7. CASE RecordDeleted(p)
  <2>1. remote' = remote /\ Grows /\ \A q \in Names : base'[q] \in {base[q], NoRow}
    BY <1>0, <1>7, RecordIs, NoRowIsRow DEF RecordDeleted, user, Grows
  <2>. QED  BY <1>7, <2>1, EndStep DEF RecordDeleted
<1>8. CASE Fail(p)
  BY <1>8, EndStep DEF Fail, user, Grows
<1>. QED  BY <1>1, <1>2, <1>3, <1>4, <1>5, <1>6, <1>7, <1>8

\* A step of the user's, of a scan or of the world: no row but a choice's changes.
LEMMA ChoiceInv ==
  ASSUME SyncInv, TypeOK', NEW p \in Names, ChooseMine(p) \/ ChooseTheirs(p) \/ ChooseBoth(p)
  PROVE  SyncInv'
<1>0. TypeOK /\ local[p] # Never
  BY Numbers DEF SyncInv, TypeOK
<1>1. CASE ChooseMine(p)
  <2>. DEFINE row == [l |-> Never, etag |-> remote[p].etag, id |-> remote[p].id,
                      sha |-> IF remote[p].sum THEN remote[p].c ELSE 0, key |-> 0]
  <2>1. (base' = [base EXCEPT ![p] = row] /\ HasL(p) /\ HasR(p)) \/ base' = [base EXCEPT ![p] = NoRow]
    BY <1>1 DEF ChooseMine, Record
  <2>2. ops' = ops /\ Grows /\ \A q \in Names : remote'[q] \in {remote[q], Gone}
    BY <1>0, <1>1 DEF ChooseMine, TypeOK, Grows, Forget
  <2>3. \A q \in Names : /\ Known(remote'[q]) /\ Known(ops'[q].r) /\ Known(ops'[q].got)
                         /\ Real(remote'[q]) /\ Real(ops'[q].r) /\ OpIs(ops'[q], raced')
    BY <2>2, Here, OpStays DEF Grows
  <2>4. Brings(0, 0) /\ \A f \in Carriers' : Known(f)
    BY <2>3 DEF Brings, Carriers
  <2>5. ASSUME HasR(p) PROVE RowIs(row, Carriers', superseded', raced')
    <3>1. remote[p].c \in superseded'
      BY <1>1, <2>5 DEF ChooseMine, Forget, HasR
    <3>2. \A f \in Carriers' : f.etag = remote[p].etag /\ f.etag # 0 => f.c = remote[p].c
      BY <2>4, Here DEF SyncInv, Etagged, OneVersion, Known
    <3>3. row.l = Never /\ row.key = 0 /\ row.sha \in {0, remote[p].c} /\ row.etag = remote[p].etag
      OBVIOUS
    <3>. HIDE DEF row
    <3>. QED  BY <3>1, <3>2, <3>3 DEF RowIs
  <2>. HIDE DEF row
  <2>6. \A q \in Names : base'[q] \in {base[q], NoRow} \/ RowIs(base'[q], Carriers', superseded', raced')
    BY <1>0, <2>1, <2>5 DEF TypeOK
  <2>. QED  BY <2>2, <2>3, <2>4, <2>6, SyncStep
<1>2. CASE ChooseTheirs(p)
  <2>. DEFINE row == [l |-> local[p], etag |-> 0, id |-> remote[p].id, sha |-> 0, key |-> 0]
  <2>1. (base' = [base EXCEPT ![p] = row] /\ HasL(p)) \/ base' = [base EXCEPT ![p] = NoRow]
    BY <1>2 DEF ChooseTheirs, Record
  <2>2. ops' = ops /\ Grows /\ remote' = remote
    BY <1>2 DEF ChooseTheirs, Grows, Forget
  <2>3. HasL(p) => RowIs(row, Carriers', superseded', raced')
    <3>1. row.l = local[p] /\ row.etag = 0 /\ row.sha = 0 /\ row.key = 0
      OBVIOUS
    <3>. HIDE DEF row
    <3>. QED  BY <1>0, <3>1 DEF RowIs, HasL
  <2>. HIDE DEF row
  <2>4. \A q \in Names : base'[q] \in {base[q], NoRow} \/ RowIs(base'[q], Carriers', superseded', raced')
    BY <1>0, <2>1, <2>3 DEF TypeOK
  <2>5. Known(ops'[p].r) /\ Known(ops'[p].got) /\ Real(ops'[p].r) /\ OpIs(ops'[p], raced')
    BY <2>2, Here, OpStays DEF Grows
  <2>. QED  BY <2>2, <2>4, <2>5, OneStep
<1>3. CASE ChooseBoth(p)
  <2>. DEFINE op == [NoOp EXCEPT !.kind = "both", !.r = remote[p], !.l = local[p]]
              g == [Gone EXCEPT !.c = local[p]]
  <2>1. op.kind = "both" /\ op.r = remote[p] /\ op.got = Gone /\ g.etag = 0 /\ g.c = local[p]
    BY DEF NoOp, Gone
  <2>2. op \in Op
    BY <1>0, Here, NoOpIsOp, OpWith DEF Kinds
  <2>. HIDE DEF g
  <2>3. PICK there \in Answers(p) : ops' = [ops EXCEPT ![p] =
         IF HasL(p) /\ there THEN [op EXCEPT !.got = remote[p], !.step = "compared"]
         ELSE IF HasL(p) THEN [op EXCEPT !.got = g, !.step = "read"]
         ELSE IF there THEN [op EXCEPT !.got = remote[p], !.step = "fetched"]
         ELSE [op EXCEPT !.step = "deleted"]]
    BY <1>3 DEF ChooseBoth, g
  <2>. DEFINE n == IF HasL(p) /\ there THEN [op EXCEPT !.got = remote[p], !.step = "compared"]
         ELSE IF HasL(p) THEN [op EXCEPT !.got = g, !.step = "read"]
         ELSE IF there THEN [op EXCEPT !.got = remote[p], !.step = "fetched"]
         ELSE [op EXCEPT !.step = "deleted"]
  <2>4. there => HasR(p)
    BY DEF Answers
  <2>5. /\ n.kind = "both" /\ n.r = remote[p] /\ n.got \in {remote[p], g, Gone}
        /\ n.step \in {"compared", "read", "fetched", "deleted"}
        /\ n.step # "deleted" => n.got.c # 0
    <3>. HIDE DEF op
    <3>1. HasL(p) /\ there => n = [op EXCEPT !.got = remote[p], !.step = "compared"]
      OBVIOUS
    <3>2. HasL(p) /\ ~there => n = [op EXCEPT !.got = g, !.step = "read"]
      OBVIOUS
    <3>3. ~HasL(p) /\ there => n = [op EXCEPT !.got = remote[p], !.step = "fetched"]
      OBVIOUS
    <3>4. ~HasL(p) /\ ~there => n = [op EXCEPT !.step = "deleted"]
      OBVIOUS
    <3>. HIDE DEF n
    <3>. QED  BY <2>1, <2>2, <2>4, <3>1, <3>2, <3>3, <3>4 DEF HasL, HasR, Op
  <2>6. ops' = [ops EXCEPT ![p] = n]
    BY <2>3
  <2>. HIDE DEF n, op
  <2>7. ops'[p] = n /\ \A q \in Names \ {p} : ops'[q] = ops[q]
    BY <1>0, <2>6 DEF TypeOK
  <2>8. OpIs(ops'[p], raced')
    BY <2>5, <2>7 DEF OpIs, MoveKinds
  <2>9. Known(g)
    BY <2>1 DEF Known
  <2>10. Known(ops'[p].r) /\ Known(ops'[p].got) /\ Real(ops'[p].r)
    BY <2>5, <2>7, <2>9, Here
  <2>11. remote' = remote /\ base' = base /\ Grows
    BY <1>3 DEF ChooseBoth, disk, Grows
  <2>. QED  BY <2>7, <2>8, <2>10, <2>11, OneStep
<1>. QED  BY <1>1, <1>2, <1>3

\* A step that changes no row and nothing on the server.
LEMMA PassStep ==
  ASSUME SyncInv, TypeOK', Grows, remote' = remote,
         \A q \in Names : base'[q] \in {base[q], NoRow},
         \A q \in Names : Known(ops'[q].r) /\ Known(ops'[q].got) /\ Real(ops'[q].r) /\ OpIs(ops'[q], raced')
  PROVE  SyncInv'
<1>1. Brings(0, 0) /\ \A q \in Names : Real(remote'[q])
  BY Here DEF Brings
<1>. QED  BY <1>1, SyncStep

LEMMA ScanInv ==
  ASSUME SyncInv, TypeOK',
         \/ List \/ (\E S \in Scopes : SyncPaths(S)) \/ (\E p \in Names : LookAt(p) \/ AskFor(p))
         \/ ScanFails \/ EndPass \/ Crash
  PROVE  SyncInv'
<1>0. TypeOK /\ remote' = remote /\ base' = base /\ Grows
  BY DEF SyncInv, List, SyncPaths, LookAt, AskFor, ScanFails, EndPass, Crash, user, Grows
<1>a. NoOp.r = Gone /\ NoOp.got = Gone /\ \A R : OpIs(NoOp, R)
  BY NothingIs DEF NoOp
<1>1. CASE List
  <2>1. ASSUME NEW q \in Names
        PROVE  Known(ops'[q].r) /\ Known(ops'[q].got) /\ Real(ops'[q].r) /\ OpIs(ops'[q], raced')
    <3>. DEFINE n == [NoOp EXCEPT !.step = "listed", !.r = remote[q]]
    <3>1. ops'[q] = n
      BY <1>1 DEF List
    <3>2. n.step = "listed" /\ n.kind = "none" /\ n.r = remote[q] /\ n.got = Gone
      BY DEF NoOp
    <3>. HIDE DEF n
    <3>3. OpIs(n, raced')
      BY <3>2 DEF OpIs, MoveKinds
    <3>. QED  BY <3>1, <3>2, <3>3, Here
  <2>. QED  BY <1>0, <2>1, PassStep
<1>2. ASSUME NEW S \in Scopes, SyncPaths(S) PROVE SyncInv'
  <2>. DEFINE n == [NoOp EXCEPT !.step = "look"]
  <2>1. n.step = "look" /\ n.kind = "none" /\ n.r = Gone /\ n.got = Gone
    BY DEF NoOp
  <2>2. \A q \in Names : ops'[q] \in {n, NoOp}
    BY <1>2 DEF SyncPaths
  <2>. HIDE DEF n
  <2>3. \A R : OpIs(n, R)
    BY <2>1 DEF OpIs, MoveKinds
  <2>. QED  BY <1>0, <1>a, <2>1, <2>2, <2>3, PassStep, KnownNow, Here
<1>3. ASSUME NEW p \in Names, LookAt(p) PROVE SyncInv'
  <2>. DEFINE n == [ops[p] EXCEPT !.step = "looked", !.l = local[p]]
  <2>1. n.step = "looked" /\ n.kind = ops[p].kind /\ n.r = ops[p].r /\ n.got = ops[p].got
    BY Here DEF Op
  <2>2. ops' = [ops EXCEPT ![p] = n]
    BY <1>3 DEF LookAt
  <2>. HIDE DEF n
  <2>3. ops'[p] = n /\ \A q \in Names \ {p} : ops'[q] = ops[q]
    BY <1>0, <2>2 DEF TypeOK
  <2>4. OpIs(n, raced')
    BY <1>3, <2>1, Here DEF OpIs, LookAt
  <2>. QED  BY <1>0, <2>1, <2>3, <2>4, Here, OneStep
<1>4. ASSUME NEW p \in Names, AskFor(p) PROVE SyncInv'
  <2>. DEFINE r == [remote[p] EXCEPT !.sum = FALSE]
              n == [ops[p] EXCEPT !.step = "seen", !.r = r]
  <2>1. r.c = remote[p].c /\ r.etag = remote[p].etag /\ (remote[p] = Gone => r = Gone)
    <3>1. r.c = remote[p].c /\ r.etag = remote[p].etag
      BY Here DEF File
    <3>2. \A f \in File : f.sum = FALSE => [f EXCEPT !.sum = FALSE] = f
      BY DEF File
    <3>3. Gone \in File /\ Gone.sum = FALSE
      BY GoneIsFile DEF Gone
    <3>4. remote[p] = Gone => r = Gone
      BY <3>2, <3>3
    <3>. QED  BY <3>1, <3>4
  <2>2. r = Gone => r.etag = 0
    BY DEF Gone
  <2>3. Known(r) /\ Real(r)
    <3>. HIDE DEF r
    <3>. QED  BY <2>1, <2>2, Here DEF Known, Real
  <2>. HIDE DEF r
  <2>4. n.step = "seen" /\ n.kind = ops[p].kind /\ n.r = r /\ n.got = ops[p].got
    BY Here DEF Op
  <2>5. ops' = [ops EXCEPT ![p] = n]
    BY <1>4 DEF AskFor, r
  <2>. HIDE DEF n
  <2>6. ops'[p] = n /\ \A q \in Names \ {p} : ops'[q] = ops[q]
    BY <1>0, <2>5 DEF TypeOK
  <2>7. OpIs(n, raced')
    BY <1>4, <2>4, Here DEF OpIs, AskFor
  <2>. QED  BY <1>0, <2>3, <2>4, <2>6, <2>7, Here, OneStep
<1>5. CASE ScanFails \/ EndPass \/ Crash
  <2>1. \A q \in Names : ops'[q] = NoOp
    BY <1>5 DEF ScanFails, EndPass, Crash
  <2>. QED  BY <1>0, <1>a, <2>1, PassStep, KnownNow, Here
<1>. QED  BY <1>1, <1>2, <1>3, <1>4, <1>5

\* What a planned move finds in the row it goes by.
LEMMA MoveIsSame ==
  ASSUME SyncInv, NEW N \in SUBSET Names, NEW l \in [Names -> Contents], NEW h \in BOOLEAN, NEW v,
         v = [names |-> N, l |-> l, r |-> Listed, hashes |-> h],
         NEW x \in N, NEW p \in N, Moves(v, x, p)
  PROVE  /\ Planned(v, p) = "download" => Same(ops[p].r.c, l[x], raced) /\ base[x].l = l[x]
         /\ Planned(v, p) = "upload" => Same(ops[x].r.c, l[p], raced) /\ base[x].l = l[p]
<1>0. v.l = l /\ v.r[p] = ops[p].r /\ v.r[x] = ops[x].r /\ v.r = Listed
  BY DEF Listed
<1>1. base[x] \in BaseRow /\ base[x] # NoRow /\ l[x] \in Contents /\ l[p] \in Contents
  BY DEF Moves, RowsFor, HasB, SyncInv, TypeOK
<1>2. CASE Planned(v, p) = "download"
  <2>1. Planned(v, x) = "deleteLocal" /\ SameVersion(base[x], ops[p].r)
    BY <1>0, <1>2 DEF Moves
  <2>2. l[x] # 0 /\ base[x].l = l[x]
    BY <1>0, <2>1 DEF Planned, Classify, LocalOnly, LocalChanged, Both, RemoteOnly
  <2>3. ops[p].r # Gone
    BY <1>0, <1>2 DEF Planned, Classify, LocalOnly, Both, RemoteOnly
  <2>4. ops[p].r.c # 0 /\ ops[p].r.etag # 0
    BY <2>3, Here DEF Real
  <2>5. base[x].l \notin {0, Never}
    BY <1>1, <2>2, Numbers
  <2>6. /\ base[x].sha \in {0, base[x].l}
        /\ base[x].key = 0 \/ Same(base[x].key, base[x].l, raced)
        /\ \A f \in Carriers : f.etag = base[x].etag /\ f.etag # 0 => Same(f.c, base[x].l, raced)
    BY <1>1, <2>5, Here DEF RowIs
  <2>7. Same(ops[p].r.c, base[x].l, raced)
    BY <2>1, <2>4, <2>6, Here DEF SameVersion, Same
  <2>. QED  BY <1>2, <2>2, <2>7
<1>3. CASE Planned(v, p) = "upload"
  <2>1. Planned(v, x) = "deleteRemote" /\ base[x].l = l[p]
    BY <1>0, <1>3 DEF Moves, RowsFor
  <2>2. l[p] # 0
    BY <1>0, <1>3 DEF Planned, Classify, LocalOnly, Both, RemoteOnly
  <2>3. ops[x].r # Gone /\ ops[x].r.etag = base[x].etag
    BY <1>0, <2>1 DEF Planned, Classify, LocalOnly, Both, RemoteOnly
  <2>4. base[x].l \notin {0, Never}
    BY <1>1, <2>1, <2>2, Numbers
  <2>5. \A f \in Carriers : f.etag = base[x].etag /\ f.etag # 0 => Same(f.c, base[x].l, raced)
    BY <1>1, <2>4, Here DEF RowIs
  <2>6. Same(ops[x].r.c, base[x].l, raced)
    BY <2>3, <2>5, Here DEF Real
  <2>. QED  BY <1>3, <2>1, <2>6
<1>. QED  BY <1>2, <1>3

LEMMA PlanInv ==
  ASSUME SyncInv, TypeOK', Look \/ LookDelta \/ PlanPaths
  PROVE  SyncInv'
<1>0. TypeOK
  BY DEF SyncInv
<1>1. PICK N \in SUBSET Names, l \in [Names -> Contents], h \in BOOLEAN :
           Decide([names |-> N, l |-> l, r |-> Listed, hashes |-> h])
  BY <1>0, Views
<1>. DEFINE v == [names |-> N, l |-> l, r |-> Listed, hashes |-> h]
<1>2. v.names = N /\ v.l = l /\ v.r = Listed /\ Decide(v)
  BY <1>1
<1>3. \A p \in Names : Listed[p] = ops[p].r
  BY DEF Listed
<1>4. \A x \in N, p \in N : Moves(v, x, p) =>
         /\ Planned(v, p) = "download" => Same(ops[p].r.c, l[x], raced)
         /\ Planned(v, p) = "upload" => Same(ops[x].r.c, l[p], raced)
  BY MoveIsSame
<1>5. Listed \in [Names -> File]
  BY <1>0, ListedType
<1>. HIDE DEF v
<1>6. PICK M \in Matchings(v) : ops' = Plan(v, M)
  BY <1>2 DEF Decide
<1>7. remote' = remote /\ Grows /\ raced' = raced /\ \A q \in Names : base'[q] \in {base[q], NoRow}
  BY <1>2 DEF Decide, user, Grows
<1>8. ASSUME NEW q \in Names
      PROVE  Known(ops'[q].r) /\ Known(ops'[q].got) /\ Real(ops'[q].r) /\ OpIs(ops'[q], raced')
  <2>1. CASE ops'[q] = NoOp
    <3>1. NoOp.r = Gone /\ NoOp.got = Gone
      BY DEF NoOp
    <3>. QED  BY <2>1, <3>1, NothingIs, Here
  <2>2. CASE Planned(v, q) # "none" /\
             ops'[q] = Direct(v, q)
    <3>1. ops'[q].kind = Planned(v, q) /\ ops'[q].step = "planned" /\ ops'[q].r = ops[q].r /\ ops'[q].got = Gone
      BY <1>2, <1>3, <2>2 DEF Direct
    <3>2. Planned(v, q) \notin MoveKinds
      BY Classified DEF Planned, MoveKinds
    <3>3. OpIs(ops'[q], raced')
      BY <3>1, <3>2 DEF OpIs
    <3>. QED  BY <3>1, <3>3, Here
  <2>3. ASSUME q \in N, NEW x \in N \ {q}, Moves(v, x, q), Planned(v, q) = "download",
               ops'[q] = MovedHere(v, x, q)
        PROVE  Known(ops'[q].r) /\ Known(ops'[q].got) /\ Real(ops'[q].r) /\ OpIs(ops'[q], raced')
    <3>1. /\ ops'[q].kind = "moveLocal" /\ ops'[q].step = "planned" /\ ops'[q].r = ops[q].r /\ ops'[q].got = Gone
          /\ ops'[q].l = l[x]
      BY <1>2, <1>3, <2>3 DEF MovedHere
    <3>2. q \in N
      BY <2>3
    <3>3. OpIs(ops'[q], raced')
      BY <1>4, <1>7, <2>3, <3>1, <3>2 DEF OpIs, MoveKinds
    <3>. QED  BY <3>1, <3>3, Here
  <2>4. ASSUME q \in N, NEW x \in N \ {q}, Moves(v, x, q), Planned(v, q) = "upload",
               ops'[q] = MovedThere(v, x, q)
        PROVE  Known(ops'[q].r) /\ Known(ops'[q].got) /\ Real(ops'[q].r) /\ OpIs(ops'[q], raced')
    <3>1. /\ ops'[q].kind = "moveRemote" /\ ops'[q].step = "planned" /\ ops'[q].r = ops[x].r /\ ops'[q].got = Gone
          /\ ops'[q].l = l[q]
      BY <1>2, <1>3, <2>4 DEF MovedThere
    <3>2. q \in N
      BY <2>4
    <3>3. OpIs(ops'[q], raced')
      BY <1>4, <1>7, <2>4, <3>1, <3>2 DEF OpIs, MoveKinds
    <3>. QED  BY <3>1, <3>3, Here
  <2>. QED  BY <1>2, <1>5, <1>6, <2>1, <2>2, <2>3, <2>4, PlanIs
<1>. QED  BY <1>7, <1>8, PassStep

\* A step of the world: no row and nothing of the pass changes.
LEMMA WorldStep ==
  ASSUME SyncInv, TypeOK', Grows, base' = base, ops' = ops, NEW e, NEW c, e = 0 \/ e \notin UsedEtags,
         \A q \in Names : Real(remote'[q]) /\ (Known(remote'[q]) \/ (remote'[q].etag = e /\ remote'[q].c = c))
  PROVE  SyncInv'
<1>1. Brings(e, c)
  BY Here DEF Brings
<1>2. \A q \in Names : Real(ops'[q].r) /\ OpIs(ops'[q], raced')
  BY Here, OpStays DEF Grows
<1>. QED  BY <1>1, <1>2, SyncStep

LEMMA WorldInv ==
  ASSUME SyncInv, TypeOK', World
  PROVE  SyncInv'
<1>. PICK p \in Paths :
    \/ "edit" \in Happens /\ Save(p)
    \/ "remove" \in Happens /\ Remove(p)
    \/ "rename" \in Happens /\ \E q \in Paths : Rename(p, q)
    \/ "theirs" \in Happens /\ TheirSave(p)
    \/ "theirRemove" \in Happens /\ TheirRemove(p)
    \/ "theirRename" \in Happens /\ \E q \in Paths : TheirRename(p, q)
    \/ "lock" \in Happens /\ Lock(p)
  BY DEF World
<1>0. p \in Names /\ Paths \subseteq Names /\ TypeOK
  BY DEF Names, SyncInv
<1>a. Grows /\ base' = base /\ ops' = ops
  BY DEF Save, Remove, Rename, TheirSave, TheirRemove, TheirRename, Lock, Grows, Forget, Race, Moved
<1>b. ASSUME \A q \in Names : remote'[q] \in {Gone} \cup {remote[x] : x \in Names} PROVE SyncInv'
  <2>1. \A q \in Names : Real(remote'[q]) /\ Known(remote'[q])
    BY <1>b, Here
  <2>. QED  BY <1>a, <2>1, WorldStep
<1>c. ASSUME NEW f \in File, f.etag # 0, f.etag \notin UsedEtags, f.c # 0, remote' = [remote EXCEPT ![p] = f] PROVE SyncInv'
  <2>1. Real(f)
    BY <1>c DEF Real, Gone
  <2>2. remote'[p] = f /\ \A q \in Names \ {p} : remote'[q] = remote[q]
    BY <1>0, <1>c DEF TypeOK
  <2>3. \A q \in Names : Real(remote'[q]) /\ (Known(remote'[q]) \/ (remote'[q].etag = f.etag /\ remote'[q].c = f.c))
    BY <2>1, <2>2, Here
  <2>. QED  BY <1>a, <1>c, <2>3, WorldStep
<1>1. CASE Save(p) \/ Remove(p) \/ \E q \in Paths : Rename(p, q)
  <2>1. remote' = remote
    BY <1>1 DEF Save, Remove, Rename
  <2>. QED  BY <1>b, <2>1
<1>2. CASE TheirSave(p)
  <2>1. PICK sum \in Sums : \E f \in Stored(p, written', sum) : remote' = [remote EXCEPT ![p] = f]
    BY <1>2 DEF TheirSave
  <2>2. sum \in BOOLEAN
    BY SyncAssumption DEF SyncAssumption
  <2>3. written' \in Contents /\ written' # 0
    BY <1>0, <1>2, SyncAssumption DEF TheirSave, Written, SyncAssumption, Contents, TypeOK
  <2>4. PICK f \in Stored(p, written', sum) : remote' = [remote EXCEPT ![p] = f]
    BY <2>1
  <2>5. f \in File /\ f.c = written' /\ f.sum = sum /\ f.etag # 0 /\ f.etag \notin UsedEtags
    BY <1>0, <2>2, <2>3, StoredIsFile
  <2>. QED  BY <1>c, <2>3, <2>4, <2>5
<1>3. CASE TheirRemove(p)
  <2>1. \A q \in Names : remote'[q] \in {Gone, remote[q]}
    BY <1>0, <1>3 DEF TheirRemove, TypeOK
  <2>. QED  BY <1>b, <2>1
<1>4. ASSUME NEW q \in Paths, TheirRename(p, q) PROVE SyncInv'
  <2>1. \A x \in Names : remote'[x] \in {Gone, remote[x], remote[p]}
    BY <1>0, <1>4 DEF TheirRename, TypeOK
  <2>. QED  BY <1>0, <1>b, <2>1
<1>5. CASE Lock(p)
  <2>1. PICK e \in NewEtags : remote' = [remote EXCEPT ![p].etag = e]
    BY <1>5 DEF Lock
  <2>2. e \in Etags /\ e # 0 /\ e \notin UsedEtags
    BY SyncAssumption DEF SyncAssumption, NewEtags, Least, Etags
  <2>. DEFINE f == [remote[p] EXCEPT !.etag = e]
  <2>3. f \in File /\ f.etag = e /\ f.c = remote[p].c
    BY <1>0, <2>2 DEF TypeOK, File
  <2>4. remote' = [remote EXCEPT ![p] = f]
    BY <2>1
  <2>. HIDE DEF f
  <2>5. f.c # 0
    BY <1>5, <2>3 DEF Lock, HasR
  <2>. QED  BY <1>c, <2>2, <2>3, <2>4, <2>5
<1>. QED  BY <1>1, <1>2, <1>3, <1>4, <1>5

LEMMA SyncInvStep == SyncInv /\ [Next]_vars => SyncInv'
<1>. SUFFICES ASSUME SyncInv, [Next]_vars PROVE SyncInv'
  OBVIOUS
<1>0. TypeOK'
  BY TypeStep DEF SyncInv
<1>1. CASE World
  BY <1>0, <1>1, WorldInv
<1>2. CASE Trouble \/ List \/ (\E S \in Scopes : SyncPaths(S)) \/ (\E p \in Names : LookAt(p) \/ AskFor(p)) \/ EndPass
  BY <1>0, <1>2, ScanInv DEF Trouble
<1>3. CASE Choices
  BY <1>0, <1>3, ChoiceInv DEF Choices
<1>4. CASE Look \/ LookDelta \/ PlanPaths
  BY <1>0, <1>4, PlanInv
<1>5. ASSUME NEW p \in Names, Act(p) PROVE SyncInv'
  BY <1>0, <1>5, MovingInv, DownloadInv, UploadInv, ConflictInv, BothInv DEF Act
<1>6. CASE UNCHANGED vars
  <2>1. remote' = remote /\ base' = base /\ ops' = ops /\ raced' = raced /\ superseded' = superseded
    BY <1>6 DEF vars
  <2>. QED  BY <1>0, <2>1 DEF SyncInv, Etagged, Rows, OpRows, Carriers
<1>. QED  BY <1>1, <1>2, <1>3, <1>4, <1>5, <1>6 DEF Next

LEMMA SyncInvInit == Init => SyncInv
<1>. SUFFICES ASSUME Init PROVE SyncInv
  OBVIOUS
<1>1. \A q \in Names : remote[q] = Gone /\ base[q] = NoRow /\ ops[q] = NoOp
  BY DEF Init
<1>2. NoOp.r = Gone /\ NoOp.got = Gone /\ Gone.etag = 0 /\ Gone.c = 0
  BY DEF NoOp, Gone
<1>3. \A f \in Carriers : f = Gone
  BY <1>1, <1>2 DEF Carriers
<1>4. Etagged
  BY <1>1, <1>2, <1>3 DEF Etagged, OneVersion, Real
<1>5. Rows
  BY <1>1 DEF Rows, RowIs
<1>6. OpRows
  BY <1>1, NothingIs DEF OpRows
<1>. QED  BY <1>4, <1>5, <1>6, TypeInit DEF SyncInv

\* What the diff takes for in sync is the same on both sides.
LEMMA SyncedByRows == SyncInv => SyncedIsEqual
<1>. SUFFICES ASSUME SyncInv, NEW p \in Names, InSync(p) PROVE Equal(p) \/ Absorbed(p)
  BY DEF SyncedIsEqual
<1>1. remote[p] # Gone /\ remote[p].etag # 0 /\ remote[p].c # 0 /\ local[p] # 0 /\ local[p] # Never
  BY Here, Numbers DEF InSync, HasL, HasR, Real, Gone
<1>2. ~RemoteChanged(p, remote[p]) /\ ~LocalChanged(p, local[p])
  BY <1>1 DEF InSync, Classify, Both
<1>3. base[p].l = local[p] /\ base[p] # NoRow
  BY <1>2 DEF LocalChanged, HasB
<1>4. /\ base[p].sha \in {0, local[p]}
      /\ base[p].key = 0 \/ Same(base[p].key, local[p], raced)
      /\ \A f \in Carriers : f.etag = base[p].etag /\ f.etag # 0 => Same(f.c, local[p], raced)
  BY <1>1, <1>3, Here DEF RowIs
<1>5. remote[p].etag = base[p].etag \/ remote[p].c = base[p].sha \/ remote[p].c = base[p].key
  BY <1>2 DEF RemoteChanged, SameContent
<1>6. Same(remote[p].c, local[p], raced)
  BY <1>1, <1>4, <1>5, Here DEF Same
<1>. QED  BY <1>6 DEF Same, Equal, Absorbed

\* A file the next pass will leave alone as synced is the same here and on the server,
\* but for versions that a race has made one row of.
THEOREM SyncedIsEqualAlways == Spec => []SyncedIsEqual
BY SyncInvInit, SyncInvStep, SyncedByRows, PTL DEF Spec

=============================================================================
