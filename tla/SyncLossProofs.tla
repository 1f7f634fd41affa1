--------------------------- MODULE SyncLossProofs ---------------------------
(***************************************************************************)
(* That no pass of Sync destroys a version of a file (NothingLost), for    *)
(* any sets of names, any policy, and any number of writes, ETags and ids. *)
(* Every content ever written is on record (Hist), or good at some name    *)
(* (Covered): it is there, and no row of the baseline and nothing the pass *)
(* under way holds takes it for known, or it is on both sides.  The rest   *)
(* of the inductive invariant LossInv is what each step of a pass counts   *)
(* on (OpsOK) when it overwrites or removes what it does take for known.   *)
(***************************************************************************)
EXTENDS SyncProofs

-----------------------------------------------------------------------------
(* The inductive invariant *)

Hist == superseded \cup raced \cup bin

\* A number no write has been given yet is nowhere.
Used(p) == {local[p], remote[p].c, base[p].l, base[p].key, base[p].sha, ops[p].l, ops[p].r.c, ops[p].got.c}
InUse == UNION {Used(q) : q \in Names}
Fresh == InUse \subseteq (0 .. written) \cup {Never}

\* What a pass has of a name at each phase.
JustListed(o) == o.step = "listed" /\ o.kind = "none" /\ o.l = 0 /\ o.got = Gone /\ o.other = {}
Asked(o) == o.step \in {"none", "look", "looked", "seen"} /\ o.kind = "none" /\ o.got = Gone /\ o.other = {}
Acting(o) == o.step \notin {"listed", "look", "looked", "seen"}
PhaseIs(o, ph) ==
  /\ ph = "idle" => o = NoOp
  /\ ph = "listed" => JustListed(o)
  /\ ph = "asking" => Asked(o)
  /\ ph = "apply" => Acting(o)
  /\ o.step = "none" => o = NoOp
  /\ o.step \in {"look", "looked"} => o.r = Gone
  /\ o.step = "look" => o.l = 0
Phases == \A p \in Names : PhaseIs(ops[p], phase)

\* Renames come before everything else; none is to a name another comes from, and no
\* two to the server are of one file.
Moving(o) == o.kind \in MoveKinds
MoveIs(p, O) ==
  Moving(O[p]) =>
    /\ \A x \in O[p].other : x # p /\ O[x] = NoOp
    /\ \A x, y \in O[p].other : x = y
    /\ \A q \in Names : O[q] = NoOp \/ O[q].step = "planned" \/ Moving(O[q])
    /\ \A q \in Names \ {p} : O[p].kind = "moveRemote" /\ O[q].kind = "moveRemote" => O[p].l # O[q].l
Stages == Phases /\ \A p \in Names : MoveIs(p, ops)

Plans(o, K) == o.step = "planned" /\ o.kind \in K

\* The pass knows content c here, version f there: what it will do to it, it may do.
SeenHere(o, c) ==
  \/ c = o.r.c /\ (o.step \in {"listed", "seen", "moved"} \/ Plans(o, {"download", "conflict", "moveLocal"}))
  \/ c = o.l /\ (o.step = "fetched" \/ Plans(o, {"download", "deleteLocal"}))
  \/ c = o.got.c /\ o.step \in {"fetched", "committed", "placed", "compared", "put"}
SeenThere(o, f) ==
  \/ f.etag = o.r.etag /\ (o.step = "read" \/ Plans(o, {"upload", "deleteRemote"}))
  \/ f.c = o.got.c /\ o.step \in {"read", "committed", "placed", "put"}
\* A planned rename brings it from here.
Sent(q, c, O) == \E p \in Names : Plans(O[p], {"moveLocal"}) /\ q \in O[p].other /\ c = O[p].l

\* Content c is good at a name: there, and no row and nothing the pass holds has it for
\* known; or on both sides.
HereNew(c, b, o) == c # b.l /\ ~SeenHere(o, c)
ThereNew(f, b, o) == f.c \notin {b.l, b.key, b.sha} /\ f.etag # b.etag /\ ~SeenThere(o, f)
NewHere(q, c)  == local[q] = c /\ HereNew(c, base[q], ops[q]) /\ ~Sent(q, c, ops)
NewThere(q, c) == remote[q].c = c /\ ThereNew(remote[q], base[q], ops[q])
OnBoth(q, c)   == local[q] = c /\ remote[q].c = c
Good(q, c) == NewHere(q, c) \/ NewThere(q, c) \/ OnBoth(q, c)
Safe(c, X) == c \in Hist \/ \E q \in Names \ X : Good(q, c)
Covered == \A c \in 1 .. written : Safe(c, {})

\* What each step of the pass counts on.  Of what was listed: it is there still, or has
\* been renamed to another name, or is on record.  Of what was looked at here: it is as
\* the row says, or what the row says is not back.  Of an action planned: the version it
\* replaces, where it is the one the action was planned for, is on record or at the new
\* name.
Past(c) == c \in Hist \cup {0}
NotBack(p) == local[p] = base[p].l => Past(local[p])
Near(o, p) == {p} \cup o.other
ListOK(p) ==
  ops[p].step \in {"listed", "seen"} =>
    /\ \/ Past(ops[p].r.c)
       \/ ops[p].r.c = remote[p].c
       \/ \E q \in Names \ {p} : NewThere(q, ops[p].r.c)
    /\ ops[p].r.c = 0 /\ remote[p].c = base[p].l => Past(remote[p].c)
LookOK(p) == ops[p].step \in {"looked", "seen"} => ops[p].l = base[p].l \/ NotBack(p)
PlanOK(p) ==
  /\ Plans(ops[p], {"deleteLocal"}) /\ remote[p].c = ops[p].l => Past(ops[p].l)
  /\ Plans(ops[p], {"upload", "deleteRemote"}) => NotBack(p)
  /\ Plans(ops[p], MoveKinds) => Past(base[p].l) \/ base[p].l = Never
  /\ Plans(ops[p], {"moveLocal"}) => \A x \in ops[p].other : remote[x].c = ops[p].l => Past(ops[p].l)
MoveOK(p) ==
  Plans(ops[p], {"moveRemote"}) =>
    \/ ops[p].r.c \in {0, remote[p].c}
    \/ \E x \in ops[p].other : remote[x].c = ops[p].r.c
    \/ Safe(ops[p].r.c, Near(ops[p], p))
CarryOK(p) ==
  /\ ops[p].step = "read" => Past(ops[p].r.c) \/ NotBack(p)
  /\ ops[p].step = "fetched" /\ remote[p].c = ops[p].l => Past(ops[p].l) \/ ops[p].l = ops[p].got.c
OpOK(p) == ListOK(p) /\ LookOK(p) /\ PlanOK(p) /\ MoveOK(p) /\ CarryOK(p)
OpsOK == \A p \in Names : OpOK(p)

LossInv == SyncInv /\ Fresh /\ Stages /\ Covered /\ OpsOK

-----------------------------------------------------------------------------
(* What a step leaves good *)

HistGrows == Hist \subseteq Hist'
\* What was good at z is on record, or good there still, or at a name that no planned
\* rename of this content is to or from.
Lasts(z, c) ==
  \/ c \in Hist'
  \/ Good(z, c)'
  \/ \E y \in Names :
       /\ Good(y, c)'
       /\ \A w \in Names : Plans(ops'[w], {"moveRemote"}) /\ y \in Near(ops'[w], w) => ops'[w].r.c # c
AllLasts == \A z \in Names, c \in Contents \ {0} : Good(z, c) => Lasts(z, c)

\* The contents an operation, a file and a row hold.
LEMMA OpContents ==
  ASSUME TypeOK, NEW q \in Names
  PROVE  /\ ops[q].r.c \in Contents /\ ops[q].got.c \in Contents /\ ops[q].l \in Contents
         /\ remote[q].c \in Contents /\ local[q] \in Contents /\ ops[q].other \subseteq Names
         /\ base[q].l \in Contents \cup {Never} /\ base[q].key \in Contents /\ base[q].sha \in Contents
BY AnOp, AFile DEF TypeOK, BaseRow

\* A content that was safe stays so.
LEMMA SafeLasts ==
  ASSUME HistGrows, AllLasts, NEW c \in Contents \ {0}, Safe(c, {})
  PROVE  Safe(c, {})'
<1>1. CASE c \in Hist
  BY <1>1 DEF HistGrows, Safe
<1>2. ASSUME NEW z \in Names, Good(z, c) PROVE Safe(c, {})'
  BY <1>2 DEF AllLasts, Lasts, Safe
<1>. QED  BY <1>1, <1>2 DEF Safe

\* So all are, the one just written too.
LEMMA CoveredLasts ==
  ASSUME TypeOK, HistGrows, AllLasts, Covered, NEW n \in Contents, written' = n,
         n = written \/ (n = written + 1 /\ Safe(n, {})')
  PROVE  Covered'
<1>1. WritesMax \in Nat /\ written \in 0 .. WritesMax /\ n \in 0 .. WritesMax
  BY SyncAssumption DEF SyncAssumption, TypeOK, Contents
<1>2. ASSUME NEW c \in 1 .. n PROVE Safe(c, {})'
  <2>1. CASE c \in 1 .. written
    <3>1. c \in Contents \ {0}
      BY <1>1, <2>1 DEF Contents
    <3>. QED  BY <2>1, <3>1, SafeLasts DEF Covered
  <2>2. CASE c \notin 1 .. written
    <3>1. c = n /\ n # written
      BY <1>1, <1>2, <2>2
    <3>. QED  BY <3>1
  <2>. QED  BY <2>1, <2>2
<1>. QED  BY <1>2 DEF Covered

\* What a planned rename on the server counts on lasts, if what it would replace does.
LEMMA MoveLasts ==
  ASSUME TypeOK, HistGrows, AllLasts, NEW w \in Names, ops'[w] = ops[w], MoveOK(w),
         Plans(ops[w], {"moveRemote"}),
         \A y \in Near(ops[w], w) : remote[y].c = ops[w].r.c =>
            \/ ops[w].r.c = 0 \/ remote'[y].c = remote[y].c
            \/ Safe(ops[w].r.c, Near(ops[w], w))'
  PROVE  MoveOK(w)'
<1>. DEFINE c == ops[w].r.c
<1>1. c \in Contents /\ ops'[w].r.c = c
  BY OpContents
<1>2. CASE c = 0
  BY <1>1, <1>2 DEF MoveOK
<1>3. CASE c # 0 /\ Safe(c, Near(ops[w], w))
  <2>1. CASE c \in Hist
    BY <1>1, <2>1 DEF HistGrows, MoveOK, Safe
  <2>2. ASSUME NEW z \in Names \ Near(ops[w], w), Good(z, c) PROVE Safe(c, Near(ops[w], w))'
    <3>1. Lasts(z, c)
      BY <1>1, <1>3, <2>2 DEF AllLasts
    <3>2. \A y \in Names : (\A u \in Names : Plans(ops'[u], {"moveRemote"}) /\ y \in Near(ops'[u], u) => ops'[u].r.c # c)
             => y \notin Near(ops[w], w)
      BY <1>1
    <3>3. c \in Hist' \/ \E y \in Names \ Near(ops[w], w) : Good(y, c)'
      BY <2>2, <3>1, <3>2 DEF Lasts
    <3>. QED  BY <1>1, <3>3 DEF Safe
  <2>3. c \in Hist \/ \E z \in Names \ Near(ops[w], w) : Good(z, c)
    BY <1>3 DEF Safe
  <2>. QED  BY <1>1, <2>1, <2>2, <2>3 DEF MoveOK, Near
<1>4. ASSUME c # 0, NEW y \in Near(ops[w], w), remote[y].c = c PROVE MoveOK(w)'
  BY <1>1, <1>4 DEF MoveOK, Near, Plans
<1>5. c = 0 \/ Safe(c, Near(ops[w], w)) \/ \E y \in Near(ops[w], w) : remote[y].c = c
  BY DEF MoveOK, Near
<1>. QED  BY <1>2, <1>3, <1>4, <1>5

\* A name of which nothing changes.
Same4(z) == local'[z] = local[z] /\ remote'[z] = remote[z] /\ base'[z] = base[z] /\ ops'[z] = ops[z]
SentLess == \A q \in Names, c \in Contents : Sent(q, c, ops') => Sent(q, c, ops)

\* What is good at a name of which nothing changes.
LEMMA Elsewhere ==
  ASSUME NEW z \in Names, Same4(z), NEW c \in Contents
  PROVE  /\ SentLess /\ Good(z, c) => Good(z, c)'
         /\ NewThere(z, c)' <=> NewThere(z, c)
         /\ OnBoth(z, c)' <=> OnBoth(z, c)
BY DEF Same4, SentLess, Good, NewHere, NewThere, OnBoth

\* No step but one that plans makes a planned rename.
LEMMA NoNewSent ==
  ASSUME \A p \in Names : ops'[p] = ops[p] \/ ~Plans(ops'[p], {"moveLocal"})
  PROVE  SentLess
BY DEF SentLess, Sent

-----------------------------------------------------------------------------
(* A step of one name's action, after the renames *)

\* An action is at a step of its own only when the plan is applied.
LEMMA PhaseOf ==
  ASSUME LossInv, NEW p \in Names, ops[p].step \notin {"none", "listed", "look", "looked", "seen"}
  PROVE  phase = "apply"
BY DEF LossInv, Stages, Phases, PhaseIs, JustListed, Asked, SyncInv, TypeOK, NoOp

\* A rename is planned or half done, and the executor sees it.
LEMMA MoverIs ==
  ASSUME LossInv, NEW q \in Names, Moving(ops[q])
  PROVE  phase = "apply" /\ Active(q) /\ ops[q].step \in {"planned", "moved"}
<1>1. ops[q].step \in {"planned", "moved"}
  BY Here DEF LossInv, OpIs, Moving
<1>. QED  BY <1>1, PhaseOf DEF Active

\* No rename is left once anything else is under way.
LEMMA NoMovers ==
  ASSUME LossInv, NEW p \in Names,
         \/ ops[p].step \notin {"none", "listed", "look", "looked", "seen", "planned", "moved"}
         \/ ops[p].kind \notin MoveKinds /\ Starts(p, ops[p].kind)
  PROVE  phase = "apply" /\ \A q \in Names : ~Moving(ops[q])
<1>1. phase = "apply"
  BY PhaseOf DEF Starts
<1>2. CASE ops[p].step \notin {"none", "listed", "look", "looked", "seen", "planned", "moved"}
  <2>. SUFFICES ASSUME NEW q \in Names, Moving(ops[q]) PROVE FALSE
    BY <1>1
  <2>1. ops[p] = NoOp \/ ops[p].step = "planned" \/ Moving(ops[p])
    BY DEF LossInv, Stages, MoveIs
  <2>2. NoOp.step = "none"
    BY DEF NoOp
  <2>. QED  BY <1>2, <2>1, <2>2, MoverIs
<1>3. CASE ops[p].kind \notin MoveKinds /\ Starts(p, ops[p].kind)
  <2>. SUFFICES ASSUME NEW q \in Names, Moving(ops[q]) PROVE FALSE
    BY <1>1
  <2>1. q # p /\ Active(q)
    BY <1>3, MoverIs DEF Moving
  <2>2. Phase(ops[q].kind) = 1 /\ Phase(ops[p].kind) \in {2, 3, 4}
    BY <1>3 DEF Phase, Moving, MoveKinds
  <2>. QED  BY <1>3, <2>1, <2>2 DEF Starts
<1>. QED  BY <1>1, <1>2, <1>3

\* What is good at a name, of what is there, the row and what the pass has.
Fine(l, f, b, o, c) ==
  \/ l = c /\ HereNew(c, b, o)
  \/ f.c = c /\ ThereNew(f, b, o)
  \/ l = c /\ f.c = c

\* Then what is good at a name is told from that name alone.
LEMMA GoodIs ==
  ASSUME NEW p \in Names, NEW c, \A q \in Names : ~Moving(ops[q])
  PROVE  Good(p, c) <=> Fine(local[p], remote[p], base[p], ops[p], c)
BY DEF Good, Fine, NewHere, NewThere, OnBoth, Sent, Plans, Moving, MoveKinds

\* A step that brings no content of its own, but the one just written.
LEMMA FreshLasts ==
  ASSUME TypeOK, Fresh, NEW n \in Nat, written' = n, written <= n,
         \A q \in Names : Used(q)' \subseteq InUse \cup {0, Never, n}
  PROVE  Fresh'
<1>1. written \in Nat
  BY SyncAssumption DEF SyncAssumption, TypeOK, Contents
<1>2. InUse \subseteq (0 .. n) \cup {Never}
  BY <1>1 DEF Fresh
<1>3. {0, Never, n} \subseteq (0 .. n) \cup {Never}
  OBVIOUS
<1>4. InUse' \subseteq (0 .. n) \cup {Never}
  BY <1>2, <1>3 DEF InUse
<1>. QED  BY <1>4 DEF Fresh

LEMMA SameUsed == ASSUME NEW q \in Names, Same4(q) PROVE Used(q)' \subseteq InUse
BY DEF Same4, Used, InUse

LEMMA WrittenNat == TypeOK => written \in Nat /\ written \in Contents
BY SyncAssumption DEF SyncAssumption, TypeOK, Contents

LEMMA NoOpHas == NoOp.step = "none" /\ NoOp.kind = "none" /\ NoOp.r = Gone /\ NoOp.l = 0 /\ NoOp.got = Gone
                 /\ NoOp.other = {} /\ Gone.c = 0 /\ Gone.etag = 0 /\ ~Moving(NoOp)
BY DEF NoOp, Gone, Moving, MoveKinds

\* No planned rename is to or from a name the pass is at.
LEMMA NotNear ==
  ASSUME LossInv, NEW p \in Names, ops[p] # NoOp, NEW q \in Names \ {p}, Moving(ops[q])
  PROVE  p \notin Near(ops[q], q)
BY DEF LossInv, Stages, MoveIs, Near

\* A step of one action that is no rename, or ends one, keeps the invariant.
LEMMA ActStep ==
  ASSUME LossInv, SyncInv', NEW p \in Names, phase = "apply", phase' = phase, written' = written, HistGrows,
         ops[p] # NoOp,
         \A q \in Names \ {p} : Same4(q),
         ops'[p] = NoOp \/ (~Moving(ops'[p]) /\ \A q \in Names : ~Moving(ops[q])),
         ops'[p].step \notin {"planned", "listed", "look", "looked", "seen"},
         ops'[p].step = "none" => ops'[p] = NoOp,
         Used(p)' \subseteq InUse \cup {0, Never},
         \A c \in Contents \ {0} : Fine(local[p], remote[p], base[p], ops[p], c) =>
            c \in Hist' \/ Fine(local'[p], remote'[p], base'[p], ops'[p], c),
         CarryOK(p)'
  PROVE  LossInv'
<1>0. TypeOK
  BY DEF LossInv, SyncInv
<1>1. \A q \in Names : Moving(ops'[q]) => Moving(ops[q]) /\ q # p /\ ops'[q] = ops[q] /\ p \notin Near(ops[q], q)
  BY NotNear, NoOpHas DEF Same4
<1>2. Fresh'
  <2>1. \A q \in Names : Used(q)' \subseteq InUse \cup {0, Never, written}
    BY SameUsed
  <2>. QED  BY <1>0, <2>1, FreshLasts, WrittenNat DEF LossInv
<1>3. Stages'
  <2>1. \A q \in Names : PhaseIs(ops'[q], phase')
    <3>1. ASSUME NEW q \in Names \ {p} PROVE PhaseIs(ops'[q], phase')
      BY DEF Same4, LossInv, Stages, Phases
    <3>2. PhaseIs(ops'[p], phase')
      BY DEF PhaseIs, Acting
    <3>. QED  BY <3>1, <3>2
  <2>2. ASSUME NEW q \in Names, Moving(ops'[q]) PROVE MoveIs(q, ops')
    <3>1. ops'[p] = NoOp /\ MoveIs(q, ops) /\ ops'[q] = ops[q] /\ Moving(ops[q])
      BY <1>1, <2>2 DEF LossInv, Stages
    <3>2. \A x \in Names : ops'[x] \in {ops[x], NoOp}
      BY <3>1 DEF Same4
    <3>3. ops[q].other \subseteq Names
      BY <1>0, OpContents
    <3>4. \A x \in Names : Moving(ops'[x]) => ops'[x] = ops[x]
      BY <1>1
    <3>5. \A x \in Names : x # q /\ ops'[q].kind = "moveRemote" /\ ops'[x].kind = "moveRemote" => ops'[q].l # ops'[x].l
      BY <3>1, <3>4 DEF MoveIs, Moving, MoveKinds
    <3>6. \A x \in Names : ops'[x] = NoOp \/ ops'[x].step = "planned" \/ Moving(ops'[x])
      BY <3>1, <3>2 DEF MoveIs
    <3>. QED  BY <3>1, <3>2, <3>3, <3>5, <3>6 DEF MoveIs
  <2>. QED  BY <2>1, <2>2 DEF Stages, Phases, MoveIs
<1>4. AllLasts
  <2>. SUFFICES ASSUME NEW z \in Names, NEW c \in Contents \ {0}, Good(z, c) PROVE c \in Hist' \/ Good(z, c)'
    BY DEF AllLasts, Lasts
  <2>1. SentLess
    <3>1. \A q \in Names : ops'[q] = ops[q] \/ ~Plans(ops'[q], {"moveLocal"})
      BY DEF Plans, Same4
    <3>. QED  BY <3>1, NoNewSent
  <2>2. CASE z # p
    BY <2>1, <2>2, Elsewhere
  <2>3. CASE z = p
    <3>1. Fine(local[p], remote[p], base[p], ops[p], c)
      BY <2>3 DEF Good, Fine, NewHere, NewThere, OnBoth
    <3>2. ~Sent(p, c, ops')
      BY <1>1 DEF Sent, Plans, Moving, MoveKinds, Near
    <3>. QED  BY <2>3, <3>1, <3>2 DEF Good, Fine, NewHere, NewThere, OnBoth
  <2>. QED  BY <2>2, <2>3
<1>5. Covered'
  BY <1>0, <1>4, CoveredLasts, WrittenNat DEF LossInv
<1>6. OpsOK'
  <2>1. ASSUME NEW q \in Names \ {p} PROVE OpOK(q)'
    <3>1. local'[q] = local[q] /\ remote'[q] = remote[q] /\ base'[q] = base[q] /\ ops'[q] = ops[q] /\ OpOK(q)
      BY DEF Same4, LossInv, OpsOK
    <3>2. \A c : Past(c) => Past(c)'
      BY DEF Past, HistGrows
    <3>3. ops[q].step \notin {"listed", "seen", "looked"}
      BY DEF LossInv, Stages, Phases, PhaseIs, Acting
    <3>4. Moving(ops[q]) => \A x \in Near(ops[q], q) : remote'[x] = remote[x]
      BY <1>0, NotNear, OpContents DEF Same4, Near
    <3>5. PlanOK(q)'
      BY <3>1, <3>2, <3>4 DEF OpOK, PlanOK, NotBack, Plans, Moving, MoveKinds, Near
    <3>6. MoveOK(q)'
      <4>1. CASE Plans(ops[q], {"moveRemote"})
        <5>1. Moving(ops[q])
          BY <4>1 DEF Plans, Moving, MoveKinds
        <5>. QED  BY <1>0, <1>4, <3>1, <3>4, <4>1, <5>1, MoveLasts DEF OpOK
      <4>2. CASE ~Plans(ops[q], {"moveRemote"})
        BY <3>1, <4>2 DEF MoveOK
      <4>. QED  BY <4>1, <4>2
    <3>7. CarryOK(q)'
      BY <3>1, <3>2 DEF OpOK, CarryOK, NotBack
    <3>. QED  BY <3>1, <3>3, <3>5, <3>6, <3>7 DEF OpOK, ListOK, LookOK
  <2>2. OpOK(p)'
    BY DEF OpOK, ListOK, LookOK, PlanOK, MoveOK, Plans
  <2>. QED  BY <2>1, <2>2 DEF OpsOK
<1>. QED  BY <1>2, <1>3, <1>5, <1>6 DEF LossInv

-----------------------------------------------------------------------------
(* Downloads, uploads, conflicts and deletions *)

LEMMA InUseHas ==
  ASSUME NEW q \in Names
  PROVE  /\ local[q] \in InUse /\ remote[q].c \in InUse /\ ops[q].l \in InUse /\ ops[q].r.c \in InUse
         /\ ops[q].got.c \in InUse /\ base[q].l \in InUse /\ base[q].key \in InUse /\ base[q].sha \in InUse
BY DEF InUse, Used

\* One ETag is one content, whoever of the pass and the server has it.
LEMMA OneContent ==
  ASSUME SyncInv, NEW p \in Names
  PROVE  /\ \A f, g \in {remote[p], ops[p].r, ops[p].got} : f.etag = g.etag /\ f.etag # 0 => f.c = g.c
         /\ remote[p].c # 0 <=> remote[p].etag # 0
         /\ remote[p].c # 0 <=> remote[p] # Gone
         /\ ops[p].r.c # 0 <=> ops[p].r.etag # 0
         /\ ops[p].r.c # 0 <=> ops[p].r # Gone
BY Here DEF SyncInv, Etagged, OneVersion, Real

\* An action's last step: the row it makes is of what was on record, or is on both sides.
LEMMA DoneStep ==
  ASSUME LossInv, SyncInv', NEW p \in Names, phase = "apply", phase' = phase, written' = written, HistGrows,
         ops[p] # NoOp,
         local' = local, remote' = remote, ops'[p] = NoOp,
         \A q \in Names \ {p} : ops'[q] = ops[q] /\ base'[q] = base[q],
         {base'[p].l, base'[p].key, base'[p].sha} \subseteq InUse \cup {0, Never},
         \/ local[p] \in Hist' \cup {0, remote[p].c} \/ local[p] # base'[p].l
         \/ SeenHere(ops[p], local[p]) \/ local[p] = base[p].l,
         \/ remote[p].c \in Hist' \cup {0, local[p]}
         \/ remote[p].c \notin {base'[p].l, base'[p].key, base'[p].sha} /\ remote[p].etag # base'[p].etag
         \/ ~ThereNew(remote[p], base[p], ops[p])
  PROVE  LossInv'
<1>1. \A q \in Names \ {p} : Same4(q)
  BY DEF Same4
<1>2. Used(p)' \subseteq InUse \cup {0, Never}
  BY InUseHas, NoOpHas DEF Used
<1>3. ASSUME NEW c \in Contents \ {0}, Fine(local[p], remote[p], base[p], ops[p], c)
      PROVE  c \in Hist' \/ Fine(local'[p], remote'[p], base'[p], ops'[p], c)
  <2>1. ~SeenHere(NoOp, c) /\ ~SeenThere(NoOp, remote[p])
    BY NoOpHas DEF SeenHere, SeenThere, Plans
  <2>2. CASE local[p] = c /\ HereNew(c, base[p], ops[p])
    BY <2>1, <2>2 DEF Fine, HereNew
  <2>3. CASE remote[p].c = c /\ ThereNew(remote[p], base[p], ops[p])
    BY <2>1, <2>3 DEF Fine, ThereNew
  <2>4. CASE local[p] = c /\ remote[p].c = c
    BY <2>4 DEF Fine
  <2>. QED  BY <1>3, <2>2, <2>3, <2>4 DEF Fine
<1>4. CarryOK(p)'
  BY NoOpHas DEF CarryOK
<1>. QED  BY <1>1, <1>2, <1>3, <1>4, NoOpHas, ActStep

LEMMA RowHas ==
  ASSUME SyncInv, NEW p \in Names, NEW c \in Contents, NEW e \in Etags, NEW i \in Ids
  PROVE  /\ RowOf(p, c, e, i).l = c /\ RowOf(p, c, e, i).sha = c /\ RowOf(p, c, e, i).etag = e
         /\ RowOf(p, c, e, i).key = 0 \/ (RowOf(p, c, e, i).key = ops[p].r.c /\ e = ops[p].r.etag /\ e # 0)
         /\ RowOf(p, c, e, i) \in BaseRow
BY ARow DEF SyncInv, ListedKey

\* A download that finds the very file here.
LEMMA SkipDownloadLoss ==
  ASSUME LossInv, SyncInv', NEW p \in Names, SkipDownload(p)
  PROVE  LossInv'
<1>0. SyncInv /\ TypeOK
  BY DEF LossInv, SyncInv
<1>1. ops[p].kind = "download" /\ ops[p].step = "planned" /\ local[p] = ops[p].r.c
  BY DEF SkipDownload, Starts, Redundant
<1>2. phase = "apply" /\ ops[p] # NoOp
  BY <1>1, PhaseOf, NoOpHas
<1>3. HistGrows /\ local' = local /\ remote' = remote /\ phase' = phase /\ written' = written
  BY DEF SkipDownload, HistGrows, Hist, disk, user
<1>4. ops'[p] = NoOp /\ \A q \in Names \ {p} : ops'[q] = ops[q]
  BY <1>0, DoneIs DEF SkipDownload
<1>. DEFINE row == RowOf(p, local[p], ops[p].r.etag, ops[p].r.id)
<1>5. row.l = local[p] /\ row.sha = local[p] /\ row.etag = ops[p].r.etag /\ row.key \in {0, ops[p].r.c} /\ row \in BaseRow
  BY <1>0, Here, AFile, RowHas
<1>6. base'[p] = row /\ \A q \in Names \ {p} : base'[q] = base[q]
  BY <1>0, <1>5, RecordIs DEF SkipDownload
<1>. HIDE DEF row
<1>7. SeenHere(ops[p], local[p])
  BY <1>1 DEF SeenHere, Plans
<1>8. {base'[p].l, base'[p].key, base'[p].sha} \subseteq InUse \cup {0, Never}
  BY <1>5, <1>6, InUseHas
<1>9. \/ remote[p].c \in {0, local[p]}
      \/ remote[p].c \notin {row.l, row.key, row.sha} /\ remote[p].etag # row.etag
  BY <1>0, <1>1, <1>5, OneContent
<1>. QED  BY <1>2, <1>3, <1>4, <1>6, <1>7, <1>8, <1>9, DoneStep

\* The row of a download.
LEMMA RecordDownloadLoss ==
  ASSUME LossInv, SyncInv', NEW p \in Names, RecordDownload(p)
  PROVE  LossInv'
<1>0. SyncInv /\ TypeOK
  BY DEF LossInv, SyncInv
<1>1. ops[p].step = "committed"
  BY DEF RecordDownload, At
<1>2. phase = "apply" /\ ops[p] # NoOp
  BY <1>1, PhaseOf, NoOpHas
<1>3. HistGrows /\ local' = local /\ remote' = remote /\ phase' = phase /\ written' = written
  BY DEF RecordDownload, HistGrows, Hist, disk, user
<1>4. ops'[p] = NoOp /\ \A q \in Names \ {p} : ops'[q] = ops[q]
  BY <1>0, DoneIs DEF RecordDownload
<1>. DEFINE row == RowOf(p, ops[p].got.c, ops[p].got.etag, ops[p].got.id)
<1>5. /\ row.l = ops[p].got.c /\ row.sha = ops[p].got.c /\ row.etag = ops[p].got.etag /\ row \in BaseRow
      /\ row.key = 0 \/ (row.key = ops[p].r.c /\ ops[p].got.etag = ops[p].r.etag /\ ops[p].got.etag # 0)
  BY <1>0, Here, AFile, RowHas
<1>6. base'[p] = row /\ \A q \in Names \ {p} : base'[q] = base[q]
  BY <1>0, <1>5, RecordIs DEF RecordDownload
<1>. HIDE DEF row
<1>7. row.key \in {0, ops[p].got.c}
  BY <1>0, <1>5, OneContent
<1>8. {base'[p].l, base'[p].key, base'[p].sha} \subseteq InUse \cup {0, Never}
  BY <1>5, <1>6, <1>7, InUseHas
<1>9. local[p] = row.l => SeenHere(ops[p], local[p])
  BY <1>1, <1>5 DEF SeenHere
<1>10. \/ remote[p].c = 0
       \/ remote[p].c \notin {row.l, row.key, row.sha} /\ remote[p].etag # row.etag
       \/ ~ThereNew(remote[p], base[p], ops[p])
  <2>1. remote[p].c = ops[p].got.c => ~ThereNew(remote[p], base[p], ops[p])
    BY <1>1 DEF ThereNew, SeenThere
  <2>. QED  BY <1>0, <1>5, <1>7, <2>1, OneContent
<1>. QED  BY <1>2, <1>3, <1>4, <1>6, <1>8, <1>9, <1>10, DoneStep

\* The row of an upload, its ETag asked for where the answer left it out.
LEMMA RecordUploadLoss ==
  ASSUME LossInv, SyncInv', NEW p \in Names, RecordUpload(p)
  PROVE  LossInv'
<1>0. SyncInv /\ TypeOK
  BY DEF LossInv, SyncInv
<1>1. ops[p].step = "put" /\ ops[p].r = Gone /\ ops[p].got.c # 0
  BY <1>0, Here DEF RecordUpload, At, OpIs
<1>2. phase = "apply" /\ ops[p] # NoOp
  BY <1>1, PhaseOf, NoOpHas
<1>3. HistGrows /\ local' = local /\ remote' = remote /\ phase' = phase /\ written' = written
  BY DEF RecordUpload, HistGrows, Hist, disk, user, Race
<1>4. ops'[p] = NoOp /\ \A q \in Names \ {p} : ops'[q] = ops[q]
  BY <1>0, DoneIs DEF RecordUpload
<1>. DEFINE e == IF ops[p].got.etag # 0 THEN ops[p].got.etag ELSE remote[p].etag
            row == RowOf(p, ops[p].got.c, e, ops[p].got.id)
<1>5. e \in Etags
  BY <1>0, Here, AFile
<1>6. Record(p, row)
  BY DEF RecordUpload
<1>7. row.l = ops[p].got.c /\ row.sha = ops[p].got.c /\ row.etag = e /\ row \in BaseRow /\ row.key = 0
  <2>. HIDE DEF e
  <2>1. /\ row.l = ops[p].got.c /\ row.sha = ops[p].got.c /\ row.etag = e /\ row \in BaseRow
        /\ row.key = 0 \/ (e = ops[p].r.etag /\ e # 0)
    BY <1>0, <1>5, Here, AFile, RowHas
  <2>. QED  BY <1>1, <2>1, NoOpHas
<1>. HIDE DEF row
<1>8. base'[p] = row /\ \A q \in Names \ {p} : base'[q] = base[q]
  BY <1>0, <1>6, <1>7, RecordIs
<1>9. {base'[p].l, base'[p].key, base'[p].sha} \subseteq InUse \cup {0, Never}
  BY <1>7, <1>8, InUseHas
<1>10. local[p] = row.l => SeenHere(ops[p], local[p])
  BY <1>1, <1>7 DEF SeenHere
<1>11. \/ remote[p].c \in Hist' \cup {0}
       \/ remote[p].c \notin {row.l, row.key, row.sha} /\ remote[p].etag # row.etag
       \/ ~ThereNew(remote[p], base[p], ops[p])
  <2>1. remote[p].c = ops[p].got.c => ~ThereNew(remote[p], base[p], ops[p])
    BY <1>1 DEF ThereNew, SeenThere
  <2>2. CASE ops[p].got.etag # 0
    BY <1>0, <1>7, <2>1, <2>2, OneContent
  <2>3. CASE ops[p].got.etag = 0
    <3>1. Race(Joined(remote[p].c, ops[p].got.c))
      BY <2>3 DEF RecordUpload
    <3>2. remote[p].c \in {0, ops[p].got.c} \/ remote[p].c \in Hist'
      BY <1>1, <3>1 DEF Race, Joined, Hist
    <3>. QED  BY <2>1, <3>2
  <2>. QED  BY <2>2, <2>3
<1>. QED  BY <1>2, <1>3, <1>4, <1>8, <1>9, <1>10, <1>11, DoneStep

\* A conflict of two equal checksums.
LEMMA SameSumLoss ==
  ASSUME LossInv, SyncInv', NEW p \in Names, SameSum(p)
  PROVE  LossInv'
<1>0. SyncInv /\ TypeOK
  BY DEF LossInv, SyncInv
<1>1. ops[p].kind = "conflict" /\ ops[p].step = "planned" /\ local[p] = ops[p].r.c
  BY DEF SameSum, Facing, Starts
<1>2. phase = "apply" /\ ops[p] # NoOp
  BY <1>1, PhaseOf, NoOpHas
<1>3. HistGrows /\ local' = local /\ remote' = remote /\ phase' = phase /\ written' = written
  BY DEF SameSum, HistGrows, Hist, disk, user
<1>4. ops'[p] = NoOp /\ \A q \in Names \ {p} : ops'[q] = ops[q]
  BY <1>0, DoneIs DEF SameSum
<1>. DEFINE row == RowOf(p, local[p], ops[p].r.etag, ops[p].r.id)
<1>5. row.l = local[p] /\ row.sha = local[p] /\ row.etag = ops[p].r.etag /\ row.key \in {0, ops[p].r.c} /\ row \in BaseRow
  BY <1>0, Here, AFile, RowHas
<1>6. base'[p] = row /\ \A q \in Names \ {p} : base'[q] = base[q]
  BY <1>0, <1>5, RecordIs DEF SameSum
<1>. HIDE DEF row
<1>7. SeenHere(ops[p], local[p])
  BY <1>1 DEF SeenHere, Plans
<1>8. {base'[p].l, base'[p].key, base'[p].sha} \subseteq InUse \cup {0, Never}
  BY <1>5, <1>6, InUseHas
<1>9. \/ remote[p].c \in {0, local[p]}
      \/ remote[p].c \notin {row.l, row.key, row.sha} /\ remote[p].etag # row.etag
  BY <1>0, <1>1, <1>5, OneContent
<1>. QED  BY <1>2, <1>3, <1>4, <1>6, <1>7, <1>8, <1>9, DoneStep

\* rebaselineFile: what is there on both sides was known to be one, or is on record.
LEMMA RebaselineLoss ==
  ASSUME LossInv, SyncInv', NEW p \in Names, NEW mine, NEW theirs, RebaselineFile(p, mine, theirs), Done(p),
         UNCHANGED << disk, remote, phase, user >>,
         phase = "apply", ops[p] # NoOp, Same(mine, theirs, raced), SeenHere(ops[p], theirs)
  PROVE  LossInv'
<1>0. SyncInv /\ TypeOK
  BY DEF LossInv, SyncInv
<1>1. HistGrows /\ local' = local /\ remote' = remote /\ phase' = phase /\ written' = written
  BY DEF RebaselineFile, Race, HistGrows, Hist, disk, user
<1>2. ops'[p] = NoOp /\ \A q \in Names \ {p} : ops'[q] = ops[q]
  BY <1>0, DoneIs
<1>3. PICK f \in {remote[p], Gone} : base'[p] = RowOf(p, local[p], f.etag, f.id)
  BY <1>0, RebaselineIs
<1>4. \A q \in Names \ {p} : base'[q] = base[q]
  BY <1>0, RebaselineIs
<1>5. base'[p].l = local[p] /\ base'[p].sha = local[p] /\ base'[p].key \in {0, ops[p].r.c}
  <2>1. f.etag \in Etags /\ f.id \in Ids /\ local[p] \in Contents
    BY <1>0, Here, AFile, GoneIsFile
  <2>. QED  BY <1>0, <1>3, <2>1, RowHas
<1>6. {base'[p].l, base'[p].key, base'[p].sha} \subseteq InUse \cup {0, Never}
  BY <1>5, InUseHas
<1>7. raced \subseteq raced' /\ raced' \subseteq Hist'
  BY DEF RebaselineFile, Race, Hist
<1>8. /\ local[p] # mine => local[p] \in raced'
      /\ remote[p].c \notin {0, theirs} => remote[p].c \in raced'
      /\ local[p] # mine \/ remote[p].c # theirs => Joined(local[p], remote[p].c) \subseteq raced'
  BY DEF RebaselineFile, Race, HasL, Joined
<1>9. local[p] \in Hist' \/ SeenHere(ops[p], local[p])
  BY <1>7, <1>8 DEF Same
<1>10. remote[p].c \in Hist' \cup {0, local[p]}
  <2>1. local[p] # 0
    BY DEF RebaselineFile, HasL
  <2>. QED  BY <1>7, <1>8, <2>1 DEF Same, Joined
<1>. QED  BY <1>1, <1>2, <1>4, <1>6, <1>9, <1>10, DoneStep

\* A conflict of two equal files.
LEMMA SameBytesLoss ==
  ASSUME LossInv, SyncInv', NEW p \in Names, SameBytes(p)
  PROVE  LossInv'
<1>1. ops[p].step = "compared" /\ ops[p].got.c = ops[p].l
  BY DEF SameBytes, At
<1>2. phase = "apply" /\ ops[p] # NoOp
  BY <1>1, PhaseOf, NoOpHas
<1>3. SeenHere(ops[p], ops[p].got.c) /\ Same(ops[p].l, ops[p].got.c, raced)
  BY <1>1 DEF SeenHere, Same
<1>. QED  BY <1>2, <1>3, RebaselineLoss DEF SameBytes

\* The row of a rename.
LEMMA MoveRecordsLoss ==
  ASSUME LossInv, SyncInv', NEW p \in Names, MoveRecords(p)
  PROVE  LossInv'
<1>1. ops[p].step = "moved"
  BY DEF MoveRecords, At
<1>2. phase = "apply" /\ ops[p] # NoOp
  BY <1>1, PhaseOf, NoOpHas
<1>3. SeenHere(ops[p], ops[p].r.c) /\ Same(ops[p].l, ops[p].r.c, raced)
  BY <1>1, Here DEF SeenHere, Same, LossInv, OpIs
<1>. QED  BY <1>2, <1>3, RebaselineLoss DEF MoveRecords

\* A row dropped.
LEMMA NoRowLoss ==
  ASSUME LossInv, SyncInv', NEW p \in Names, BothGone(p) \/ RecordDeleted(p)
  PROVE  LossInv'
<1>0. SyncInv /\ TypeOK
  BY DEF LossInv, SyncInv
<1>1. ops[p].step \in {"planned", "deleted"}
  BY DEF BothGone, RecordDeleted, Starts, At
<1>2. phase = "apply" /\ ops[p] # NoOp
  BY <1>1, PhaseOf, NoOpHas
<1>3. HistGrows /\ local' = local /\ remote' = remote /\ phase' = phase /\ written' = written
  BY DEF BothGone, RecordDeleted, HistGrows, Hist, disk, user
<1>4. ops'[p] = NoOp /\ \A q \in Names \ {p} : ops'[q] = ops[q]
  BY <1>0, DoneIs DEF BothGone, RecordDeleted
<1>5. base'[p] = NoRow /\ \A q \in Names \ {p} : base'[q] = base[q]
  BY <1>0, NoRowIsRow, RecordIs DEF BothGone, RecordDeleted
<1>6. NoRow.l = 0 /\ NoRow.key = 0 /\ NoRow.sha = 0 /\ NoRow.etag = 0
  BY DEF NoRow
<1>7. remote[p].c = 0 \/ remote[p].etag # 0
  BY <1>0, OneContent
<1>. QED  BY <1>2, <1>3, <1>4, <1>5, <1>6, <1>7, DoneStep

\* An action that fails.
LEMMA FailLoss ==
  ASSUME LossInv, SyncInv', NEW p \in Names, Fail(p)
  PROVE  LossInv'
<1>0. SyncInv /\ TypeOK
  BY DEF LossInv, SyncInv
<1>1. phase = "apply" /\ ops[p] # NoOp
  BY NoOpHas DEF Fail, Active
<1>2. HistGrows /\ local' = local /\ remote' = remote /\ base' = base /\ phase' = phase /\ written' = written
  BY DEF Fail, HistGrows, Hist, disk, user
<1>3. ops'[p] = NoOp /\ \A q \in Names \ {p} : ops'[q] = ops[q]
  BY <1>0, DoneIs DEF Fail
<1>4. {base'[p].l, base'[p].key, base'[p].sha} \subseteq InUse \cup {0, Never}
  BY <1>2, InUseHas
<1>5. \/ remote[p].c \notin {base'[p].l, base'[p].key, base'[p].sha} /\ remote[p].etag # base'[p].etag
      \/ ~ThereNew(remote[p], base[p], ops[p])
  BY <1>2 DEF ThereNew
<1>6. local[p] # base'[p].l \/ local[p] = base[p].l
  BY <1>2
<1>. QED  BY <1>1, <1>2, <1>3, <1>4, <1>5, <1>6, DoneStep

\* A step that fetches the server's version, once ours is known or on record.
LEMMA FetchingLoss ==
  ASSUME LossInv, SyncInv', NEW p \in Names, NEW h \in Contents, Fetching(p, h),
         phase = "apply", ops[p] # NoOp, \A q \in Names : ~Moving(ops[q]),
         local' = local, remote' = remote, base' = base, phase' = phase, written' = written, HistGrows,
         h \in InUse \cup {0}, SeenHere(ops[p], h) \/ Past(h)'
  PROVE  LossInv'
<1>0. SyncInv /\ TypeOK
  BY DEF LossInv, SyncInv
<1>1. /\ \A q \in Names \ {p} : Same4(q)
      /\ ops'[p].step = "fetched" /\ ops'[p].kind = ops[p].kind /\ ops'[p].r = ops[p].r
      /\ ops'[p].l = h /\ ops'[p].got = remote[p]
  BY <1>0, FetchingIs DEF Same4
<1>2. Used(p)' \subseteq InUse \cup {0, Never}
  BY <1>1, InUseHas DEF Used
<1>3. ASSUME NEW c \in Contents \ {0}, Fine(local[p], remote[p], base[p], ops[p], c)
      PROVE  c \in Hist' \/ Fine(local'[p], remote'[p], base'[p], ops'[p], c)
  <2>1. SeenHere(ops'[p], c) => c \in {h, remote[p].c}
    BY <1>1 DEF SeenHere, Plans
  <2>2. ~SeenThere(ops'[p], remote[p])
    BY <1>1 DEF SeenThere, Plans
  <2>3. CASE local[p] = c /\ HereNew(c, base[p], ops[p])
    BY <2>1, <2>3 DEF Fine, HereNew, Past
  <2>4. CASE remote[p].c = c /\ ThereNew(remote[p], base[p], ops[p])
    BY <2>2, <2>4 DEF Fine, ThereNew
  <2>5. CASE local[p] = c /\ remote[p].c = c
    BY <2>5 DEF Fine
  <2>. QED  BY <1>3, <2>3, <2>4, <2>5 DEF Fine
<1>4. CarryOK(p)'
  BY <1>1 DEF CarryOK
<1>5. ~Moving(ops'[p])
  BY <1>1 DEF Moving
<1>. QED  BY <1>1, <1>2, <1>3, <1>4, <1>5, ActStep

\* A step that reads ours to send it, over a version that is known or on record.
LEMMA ReadingLoss ==
  ASSUME LossInv, SyncInv', NEW p \in Names, NEW h \in File, Reading(p, h),
         phase = "apply", ops[p] # NoOp, \A q \in Names : ~Moving(ops[q]),
         local' = local, remote' = remote, base' = base, phase' = phase, written' = written, HistGrows,
         h.c \in InUse \cup {0},
         \/ remote[p].c \in Hist' \cup {0}
         \/ remote[p].etag # h.etag
         \/ ~ThereNew(remote[p], base[p], ops[p]),
         Past(h.c)' \/ NotBack(p)'
  PROVE  LossInv'
<1>0. SyncInv /\ TypeOK
  BY DEF LossInv, SyncInv
<1>1. /\ \A q \in Names \ {p} : Same4(q)
      /\ ops'[p].step = "read" /\ ops'[p].kind = ops[p].kind /\ ops'[p].r = h
      /\ ops'[p].l = ops[p].l /\ ops'[p].got.c = local[p]
  BY <1>0, ReadingIs DEF Same4
<1>2. Used(p)' \subseteq InUse \cup {0, Never}
  BY <1>1, InUseHas DEF Used
<1>3. ASSUME NEW c \in Contents \ {0}, Fine(local[p], remote[p], base[p], ops[p], c)
      PROVE  c \in Hist' \/ Fine(local'[p], remote'[p], base'[p], ops'[p], c)
  <2>1. ~SeenHere(ops'[p], c)
    BY <1>1 DEF SeenHere, Plans
  <2>2. SeenThere(ops'[p], remote[p]) => remote[p].etag = h.etag \/ remote[p].c = local[p]
    BY <1>1 DEF SeenThere, Plans
  <2>3. CASE local[p] = c /\ HereNew(c, base[p], ops[p])
    BY <2>1, <2>3 DEF Fine, HereNew
  <2>4. CASE remote[p].c = c /\ ThereNew(remote[p], base[p], ops[p])
    BY <2>2, <2>4 DEF Fine, ThereNew
  <2>5. CASE local[p] = c /\ remote[p].c = c
    BY <2>5 DEF Fine
  <2>. QED  BY <1>3, <2>3, <2>4, <2>5 DEF Fine
<1>4. CarryOK(p)'
  BY <1>1 DEF CarryOK
<1>5. ~Moving(ops'[p])
  BY <1>1 DEF Moving
<1>. QED  BY <1>1, <1>2, <1>3, <1>4, <1>5, ActStep

\* A download begins.
LEMMA FetchLoss ==
  ASSUME LossInv, SyncInv', NEW p \in Names, Fetch(p)
  PROVE  LossInv'
<1>1. ops[p].kind = "download" /\ ops[p].step = "planned" /\ Starts(p, ops[p].kind) /\ Fetching(p, ops[p].l)
  BY DEF Fetch, Starts
<1>2. phase = "apply" /\ ops[p] # NoOp /\ \A q \in Names : ~Moving(ops[q])
  BY <1>1, NoMovers, NoOpHas DEF MoveKinds
<1>3. HistGrows /\ local' = local /\ remote' = remote /\ base' = base /\ phase' = phase /\ written' = written
  BY DEF Fetch, HistGrows, Hist, disk, user
<1>4. SeenHere(ops[p], ops[p].l)
  BY <1>1 DEF SeenHere, Plans
<1>5. ops[p].l \in Contents /\ ops[p].l \in InUse
  BY InUseHas, Here DEF LossInv
<1>. QED  BY <1>1, <1>2, <1>3, <1>4, <1>5, FetchingLoss

\* An upload begins.
LEMMA ReadLoss ==
  ASSUME LossInv, SyncInv', NEW p \in Names, Read(p)
  PROVE  LossInv'
<1>1. ops[p].kind = "upload" /\ ops[p].step = "planned" /\ Starts(p, ops[p].kind) /\ Reading(p, ops[p].r)
  BY DEF Read, Starts
<1>2. phase = "apply" /\ ops[p] # NoOp /\ \A q \in Names : ~Moving(ops[q])
  BY <1>1, NoMovers, NoOpHas DEF MoveKinds
<1>3. HistGrows /\ local' = local /\ remote' = remote /\ base' = base /\ phase' = phase /\ written' = written
  BY DEF Read, HistGrows, Hist, disk, user
<1>4. remote[p].etag # ops[p].r.etag \/ ~ThereNew(remote[p], base[p], ops[p])
  BY <1>1 DEF ThereNew, SeenThere, Plans
<1>5. ops[p].r \in File /\ ops[p].r.c \in InUse
  BY InUseHas, Here DEF LossInv
<1>6. NotBack(p)
  BY <1>1 DEF LossInv, OpsOK, OpOK, PlanOK, Plans
<1>7. NotBack(p)'
  BY <1>3, <1>6 DEF NotBack, Past, HistGrows
<1>. QED  BY <1>1, <1>2, <1>3, <1>4, <1>5, <1>7, ReadingLoss

\* The upload of a conflicted copy begins.
LEMMA ReadCopyLoss ==
  ASSUME LossInv, SyncInv', NEW p \in Names, ReadCopy(p)
  PROVE  LossInv'
<1>1. ops[p].step = "copied" /\ Reading(p, Gone)
  BY DEF ReadCopy, At
<1>2. phase = "apply" /\ ops[p] # NoOp /\ \A q \in Names : ~Moving(ops[q])
  BY <1>1, NoMovers, NoOpHas
<1>3. HistGrows /\ local' = local /\ remote' = remote /\ base' = base /\ phase' = phase /\ written' = written
  BY DEF ReadCopy, HistGrows, Hist, disk, user
<1>4. remote[p].c = 0 \/ remote[p].etag # Gone.etag
  BY OneContent, NoOpHas DEF LossInv
<1>. QED  BY <1>1, <1>2, <1>3, <1>4, GoneIsFile, NoOpHas, ReadingLoss DEF Past

\* A conflict where only one side has the file.
LEMMA ResurrectLoss ==
  ASSUME LossInv, SyncInv', NEW p \in Names, Resurrect(p)
  PROVE  LossInv'
<1>1. ops[p].kind = "conflict" /\ ops[p].step = "planned" /\ Starts(p, ops[p].kind)
  BY DEF Resurrect, Starts
<1>2. phase = "apply" /\ ops[p] # NoOp /\ \A q \in Names : ~Moving(ops[q])
  BY <1>1, NoMovers, NoOpHas DEF MoveKinds
<1>3. HistGrows /\ local' = local /\ remote' = remote /\ base' = base /\ phase' = phase /\ written' = written
  BY DEF Resurrect, HistGrows, Hist, disk, user
<1>4. remote[p].c = 0 \/ remote[p].etag # Gone.etag
  BY OneContent, NoOpHas DEF LossInv
<1>5. CASE Reading(p, Gone)
  BY <1>2, <1>3, <1>4, <1>5, GoneIsFile, NoOpHas, ReadingLoss DEF Past
<1>6. CASE Fetching(p, 0)
  BY <1>2, <1>3, <1>6, Numbers, FetchingLoss DEF Past
<1>. QED  BY <1>5, <1>6 DEF Resurrect

\* The later write is kept: the other is on record.
LEMMA KeepNewestLoss ==
  ASSUME LossInv, SyncInv', NEW p \in Names, KeepNewest(p)
  PROVE  LossInv'
<1>1. ops[p].kind = "conflict" /\ ((ops[p].step = "planned" /\ Starts(p, ops[p].kind)) \/ ops[p].step = "compared")
  BY DEF KeepNewest, Differ, Facing, Starts, At
<1>2. phase = "apply" /\ ops[p] # NoOp /\ \A q \in Names : ~Moving(ops[q])
  BY <1>1, NoMovers, NoOpHas DEF MoveKinds
<1>3. HistGrows /\ local' = local /\ remote' = remote /\ base' = base /\ phase' = phase /\ written' = written
  BY DEF KeepNewest, HistGrows, Hist, disk, Forget
<1>4. /\ remote[p] \in File /\ remote[p].c \in Contents /\ local[p] \in Contents
      /\ local[p] \in InUse /\ remote[p].c \in InUse
  BY InUseHas, Here, AFile DEF LossInv
<1>5. CASE Reading(p, remote[p]) /\ Forget({remote[p].c})
  <2>1. remote[p].c \in Hist' \cup {0} /\ Past(remote[p].c)'
    BY <1>3, <1>5 DEF Forget, Hist, Past
  <2>. QED  BY <1>2, <1>3, <1>4, <1>5, <2>1, ReadingLoss
<1>6. CASE Fetching(p, local[p]) /\ Forget({local[p]})
  <2>1. Past(local[p])'
    BY <1>3, <1>6 DEF Forget, Hist, Past
  <2>. QED  BY <1>2, <1>3, <1>4, <1>6, <2>1, FetchingLoss
<1>. QED  BY <1>5, <1>6 DEF KeepNewest

\* Both versions of a conflict are at hand.
LEMMA CompareLoss ==
  ASSUME LossInv, SyncInv', NEW p \in Names, Compare(p)
  PROVE  LossInv'
<1>0. SyncInv /\ TypeOK
  BY DEF LossInv, SyncInv
<1>1. ops[p].kind = "conflict" /\ ops[p].step = "planned" /\ Starts(p, ops[p].kind)
  BY DEF Compare, Facing, Starts
<1>2. phase = "apply" /\ ops[p] # NoOp /\ \A q \in Names : ~Moving(ops[q])
  BY <1>1, NoMovers, NoOpHas DEF MoveKinds
<1>3. HistGrows /\ local' = local /\ remote' = remote /\ base' = base /\ phase' = phase /\ written' = written
  BY DEF Compare, HistGrows, Hist, disk, user
<1>4. /\ ops'[p].l = local[p] /\ ops'[p].got = remote[p] /\ ops'[p].step = "compared"
      /\ ops'[p].kind = ops[p].kind /\ ops'[p].r = ops[p].r
      /\ \A q \in Names \ {p} : ops'[q] = ops[q]
  BY <1>0 DEF Compare, TypeOK, Op
<1>5. \A q \in Names \ {p} : Same4(q)
  BY <1>3, <1>4 DEF Same4
<1>6. Used(p)' \subseteq InUse \cup {0, Never}
  BY <1>3, <1>4, InUseHas DEF Used
<1>7. ASSUME NEW c \in Contents \ {0}, Fine(local[p], remote[p], base[p], ops[p], c)
      PROVE  c \in Hist' \/ Fine(local'[p], remote'[p], base'[p], ops'[p], c)
  <2>1. (SeenHere(ops'[p], c) => c = remote[p].c) /\ ~SeenThere(ops'[p], remote[p])
    BY <1>4 DEF SeenHere, SeenThere, Plans
  <2>2. CASE local[p] = c /\ HereNew(c, base[p], ops[p])
    BY <1>3, <2>1, <2>2 DEF Fine, HereNew
  <2>3. CASE remote[p].c = c /\ ThereNew(remote[p], base[p], ops[p])
    BY <1>3, <2>1, <2>3 DEF Fine, ThereNew
  <2>4. CASE local[p] = c /\ remote[p].c = c
    BY <1>3, <2>4 DEF Fine
  <2>. QED  BY <1>7, <2>2, <2>3, <2>4 DEF Fine
<1>8. CarryOK(p)' /\ ~Moving(ops'[p])
  BY <1>2, <1>4 DEF CarryOK, Moving
<1>. QED  BY <1>2, <1>3, <1>4, <1>5, <1>6, <1>7, <1>8, ActStep

\* The conflict is left to the user.
LEMMA AskLoss ==
  ASSUME LossInv, SyncInv', NEW p \in Names, Ask(p)
  PROVE  LossInv'
<1>0. SyncInv /\ TypeOK
  BY DEF LossInv, SyncInv
<1>1. ops[p].kind = "conflict" /\ ((ops[p].step = "planned" /\ Starts(p, ops[p].kind)) \/ ops[p].step = "compared")
  BY DEF Ask, Differ, Facing, Starts, At
<1>2. phase = "apply" /\ ops[p] # NoOp /\ \A q \in Names : ~Moving(ops[q])
  BY <1>1, NoMovers, NoOpHas DEF MoveKinds
<1>3. HistGrows /\ local' = local /\ remote' = remote /\ base' = base /\ phase' = phase /\ written' = written
  BY DEF Ask, HistGrows, Hist, disk, user
<1>4. /\ ops'[p].l = 0 /\ ops'[p].got = Gone /\ ops'[p].step = "asked" /\ ops'[p].kind = ops[p].kind /\ ops'[p].r = Gone
      /\ \A q \in Names \ {p} : ops'[q] = ops[q]
  <2>1. "asked" \in Steps /\ Ends(p, "asked")
    BY DEF Ask, Steps
  <2>. QED  BY <1>0, <2>1, EndsIs
<1>5. \A q \in Names \ {p} : Same4(q)
  BY <1>3, <1>4 DEF Same4
<1>6. Used(p)' \subseteq InUse \cup {0, Never}
  BY <1>3, <1>4, InUseHas, NoOpHas DEF Used
<1>7. ASSUME NEW c \in Contents \ {0}, Fine(local[p], remote[p], base[p], ops[p], c)
      PROVE  c \in Hist' \/ Fine(local'[p], remote'[p], base'[p], ops'[p], c)
  <2>1. ~SeenHere(ops'[p], c) /\ ~SeenThere(ops'[p], remote[p])
    BY <1>4 DEF SeenHere, SeenThere, Plans
  <2>. QED  BY <1>3, <1>7, <2>1 DEF Fine, HereNew, ThereNew
<1>8. CarryOK(p)' /\ ~Moving(ops'[p])
  BY <1>2, <1>4 DEF CarryOK, Moving
<1>. QED  BY <1>2, <1>3, <1>4, <1>5, <1>6, <1>7, <1>8, ActStep

\* What the download replaces was known, or comes after the pass had looked.
LEMMA CommitLoss ==
  ASSUME LossInv, SyncInv', NEW p \in Names, Commit(p)
  PROVE  LossInv'
<1>0. SyncInv /\ TypeOK
  BY DEF LossInv, SyncInv
<1>1. ops[p].step = "fetched"
  BY DEF Commit, At
<1>2. phase = "apply" /\ ops[p] # NoOp /\ \A q \in Names : ~Moving(ops[q])
  BY <1>1, NoMovers, NoOpHas
<1>3. HistGrows /\ remote' = remote /\ base' = base /\ phase' = phase /\ written' = written
  BY DEF Commit, HistGrows, Hist, user, Race
<1>4. /\ ops'[p].l = ops[p].l /\ ops'[p].got = ops[p].got /\ ops'[p].step = "committed" /\ ops'[p].kind = ops[p].kind
      /\ ops'[p].r = ops[p].r
      /\ \A q \in Names \ {p} : ops'[q] = ops[q]
  <2>1. "committed" \in Steps /\ Goto(p, "committed")
    BY DEF Commit, Steps
  <2>. QED  BY <1>0, <2>1, GotoIs
<1>5. local'[p] = ops[p].got.c /\ \A q \in Names \ {p} : local'[q] = local[q]
  BY <1>0 DEF Commit, TypeOK
<1>6. \A q \in Names \ {p} : Same4(q)
  BY <1>3, <1>4, <1>5 DEF Same4
<1>7. Used(p)' \subseteq InUse \cup {0, Never}
  BY <1>3, <1>4, <1>5, InUseHas DEF Used
<1>8. local[p] \in Hist' \cup {0, ops[p].l, ops[p].got.c}
  BY DEF Commit, Race, Hist
<1>9. ASSUME NEW c \in Contents \ {0}, Fine(local[p], remote[p], base[p], ops[p], c)
      PROVE  c \in Hist' \/ Fine(local'[p], remote'[p], base'[p], ops'[p], c)
  <2>1. SeenThere(ops'[p], remote[p]) => remote[p].c = local'[p]
    BY <1>4, <1>5 DEF SeenThere, Plans
  <2>2. CASE local[p] = c /\ HereNew(c, base[p], ops[p])
    <3>1. c \notin {ops[p].l, ops[p].got.c}
      BY <1>1, <2>2 DEF HereNew, SeenHere
    <3>. QED  BY <1>8, <2>2, <3>1
  <2>3. CASE remote[p].c = c /\ ThereNew(remote[p], base[p], ops[p])
    BY <1>3, <2>1, <2>3 DEF Fine, ThereNew
  <2>4. CASE local[p] = c /\ remote[p].c = c
    <3>1. c = ops[p].l => c \in Hist \/ c = ops[p].got.c
      BY <1>1, <2>4 DEF LossInv, OpsOK, OpOK, CarryOK, Past
    <3>. QED  BY <1>3, <1>5, <1>8, <2>4, <3>1 DEF Fine, HistGrows
  <2>. QED  BY <1>9, <2>2, <2>3, <2>4 DEF Fine
<1>10. CarryOK(p)' /\ ~Moving(ops'[p])
  BY <1>2, <1>4 DEF CarryOK, Moving
<1>. QED  BY <1>2, <1>3, <1>4, <1>6, <1>7, <1>9, <1>10, ActStep

\* Theirs takes the name, and what has come there meanwhile is on record.
LEMMA PlaceLoss ==
  ASSUME LossInv, SyncInv', NEW p \in Names, Place(p)
  PROVE  LossInv'
<1>0. SyncInv /\ TypeOK
  BY DEF LossInv, SyncInv
<1>1. ops[p].step = "aside"
  BY DEF Place, At
<1>2. phase = "apply" /\ ops[p] # NoOp /\ \A q \in Names : ~Moving(ops[q])
  BY <1>1, NoMovers, NoOpHas
<1>3. HistGrows /\ remote' = remote /\ base' = base /\ phase' = phase /\ written' = written
  BY DEF Place, HistGrows, Hist, user, Race
<1>4. /\ ops'[p].l = ops[p].l /\ ops'[p].got = ops[p].got /\ ops'[p].step = "placed" /\ ops'[p].kind = ops[p].kind
      /\ ops'[p].r = ops[p].r
      /\ \A q \in Names \ {p} : ops'[q] = ops[q]
  <2>1. "placed" \in Steps /\ Goto(p, "placed")
    BY DEF Place, Steps
  <2>. QED  BY <1>0, <2>1, GotoIs
<1>5. local'[p] = ops[p].got.c /\ \A q \in Names \ {p} : local'[q] = local[q]
  BY <1>0 DEF Place, TypeOK
<1>6. \A q \in Names \ {p} : Same4(q)
  BY <1>3, <1>4, <1>5 DEF Same4
<1>7. Used(p)' \subseteq InUse \cup {0, Never}
  BY <1>3, <1>4, <1>5, InUseHas DEF Used
<1>8. local[p] \in Hist' \cup {0}
  BY DEF Place, Race, Hist
<1>9. ASSUME NEW c \in Contents \ {0}, Fine(local[p], remote[p], base[p], ops[p], c)
      PROVE  c \in Hist' \/ Fine(local'[p], remote'[p], base'[p], ops'[p], c)
  <2>1. SeenThere(ops'[p], remote[p]) => remote[p].c = local'[p]
    BY <1>4, <1>5 DEF SeenThere, Plans
  <2>2. CASE local[p] = c
    BY <1>8, <2>2
  <2>3. CASE remote[p].c = c /\ ThereNew(remote[p], base[p], ops[p])
    BY <1>3, <2>1, <2>3 DEF Fine, ThereNew
  <2>. QED  BY <1>9, <2>2, <2>3 DEF Fine
<1>10. CarryOK(p)' /\ ~Moving(ops'[p])
  BY <1>2, <1>4 DEF CarryOK, Moving
<1>. QED  BY <1>2, <1>3, <1>4, <1>6, <1>7, <1>9, <1>10, ActStep

\* What the upload replaces was known, or comes after the pass had looked.
LEMMA PutLoss ==
  ASSUME LossInv, SyncInv', NEW p \in Names, Put(p)
  PROVE  LossInv'
<1>0. SyncInv /\ TypeOK
  BY DEF LossInv, SyncInv
<1>1. ops[p].step = "read"
  BY DEF Put, At
<1>2. phase = "apply" /\ ops[p] # NoOp /\ \A q \in Names : ~Moving(ops[q])
  BY <1>1, NoMovers, NoOpHas
<1>3. HistGrows /\ local' = local /\ base' = base /\ phase' = phase /\ written' = written
  BY DEF Put, HistGrows, Hist, disk, user, Race
<1>4. PICK f \in File, g \in File :
           /\ f.c = ops[p].got.c /\ f.etag # 0 /\ g.c = f.c /\ remote' = [remote EXCEPT ![p] = f]
           /\ ops'[p].kind = ops[p].kind /\ ops'[p].step = "put" /\ ops'[p].r = Gone /\ ops'[p].l = 0
           /\ ops'[p].got = g
           /\ \A q \in Names \ {p} : ops'[q] = ops[q]
  BY <1>0, PutIs
<1>5. remote'[p] = f /\ \A q \in Names \ {p} : remote'[q] = remote[q]
  BY <1>0, <1>4 DEF TypeOK
<1>6. \A q \in Names \ {p} : Same4(q)
  BY <1>3, <1>4, <1>5 DEF Same4
<1>7. Used(p)' \subseteq InUse \cup {0, Never}
  BY <1>3, <1>4, <1>5, InUseHas, NoOpHas DEF Used
<1>8. remote[p].c \in Hist' \cup {0, ops[p].got.c} \/ remote[p].etag = ops[p].r.etag
  BY DEF Put, Race, Newer, Hist
<1>9. ASSUME NEW c \in Contents \ {0}, Fine(local[p], remote[p], base[p], ops[p], c)
      PROVE  c \in Hist' \/ Fine(local'[p], remote'[p], base'[p], ops'[p], c)
  <2>1. SeenHere(ops'[p], c) => c = ops[p].got.c
    BY <1>4 DEF SeenHere, Plans
  <2>2. local[p] = c /\ c # base[p].l => Fine(local'[p], remote'[p], base'[p], ops'[p], c)
    BY <1>3, <1>4, <1>5, <2>1 DEF Fine, HereNew
  <2>3. CASE local[p] = c /\ HereNew(c, base[p], ops[p])
    BY <2>2, <2>3 DEF HereNew
  <2>4. CASE remote[p].c = c /\ ThereNew(remote[p], base[p], ops[p])
    <3>1. remote[p].etag # ops[p].r.etag /\ c # ops[p].got.c
      BY <1>1, <2>4 DEF ThereNew, SeenThere
    <3>. QED  BY <1>8, <2>4, <3>1
  <2>5. CASE local[p] = c /\ remote[p].c = c
    <3>1. CASE c = ops[p].got.c
      BY <1>3, <1>4, <1>5, <2>5, <3>1 DEF Fine
    <3>2. CASE c # ops[p].got.c /\ remote[p].etag # ops[p].r.etag
      BY <1>8, <2>5, <3>2
    <3>3. CASE remote[p].etag = ops[p].r.etag
      <4>1. c = ops[p].r.c
        BY <1>0, <2>5, <3>3, OneContent
      <4>2. c \in Hist \/ c # base[p].l
        BY <1>1, <2>5, <4>1 DEF LossInv, OpsOK, OpOK, CarryOK, NotBack, Past
      <4>. QED  BY <1>3, <2>2, <2>5, <4>2 DEF HistGrows
    <3>. QED  BY <3>1, <3>2, <3>3
  <2>. QED  BY <1>9, <2>3, <2>4, <2>5 DEF Fine
<1>10. CarryOK(p)' /\ ~Moving(ops'[p])
  BY <1>2, <1>4 DEF CarryOK, Moving
<1>. QED  BY <1>2, <1>3, <1>4, <1>6, <1>7, <1>9, <1>10, ActStep

\* What is removed here is in the Recycle Bin, was known, or is on record.
LEMMA DeleteHereLoss ==
  ASSUME LossInv, SyncInv', NEW p \in Names, DeleteHere(p)
  PROVE  LossInv'
<1>0. SyncInv /\ TypeOK
  BY DEF LossInv, SyncInv
<1>1. ops[p].kind = "deleteLocal" /\ ops[p].step = "planned" /\ Starts(p, ops[p].kind)
  BY DEF DeleteHere, Starts
<1>2. phase = "apply" /\ ops[p] # NoOp /\ \A q \in Names : ~Moving(ops[q])
  BY <1>1, NoMovers, NoOpHas DEF MoveKinds
<1>3. HistGrows /\ remote' = remote /\ base' = base /\ phase' = phase /\ written' = written
  BY DEF DeleteHere, HistGrows, Hist, user, Race
<1>4. /\ ops'[p].l = 0 /\ ops'[p].got = Gone /\ ops'[p].step = "deleted" /\ ops'[p].kind = ops[p].kind /\ ops'[p].r = Gone
      /\ \A q \in Names \ {p} : ops'[q] = ops[q]
  <2>1. "deleted" \in Steps /\ Ends(p, "deleted")
    BY DEF DeleteHere, Steps
  <2>. QED  BY <1>0, <2>1, EndsIs
<1>5. local'[p] = 0 /\ \A q \in Names \ {p} : local'[q] = local[q]
  BY <1>0 DEF DeleteHere, TypeOK
<1>6. \A q \in Names \ {p} : Same4(q)
  BY <1>3, <1>4, <1>5 DEF Same4
<1>7. Used(p)' \subseteq InUse \cup {0, Never}
  BY <1>3, <1>4, <1>5, InUseHas, NoOpHas DEF Used
<1>8. local[p] \in Hist' \cup {0, ops[p].l}
  <2>1. CASE HasBin
    BY <2>1 DEF DeleteHere, Hist
  <2>2. CASE ~HasBin
    BY <2>2 DEF DeleteHere, Race, Hist
  <2>. QED  BY <2>1, <2>2
<1>9. ASSUME NEW c \in Contents \ {0}, Fine(local[p], remote[p], base[p], ops[p], c)
      PROVE  c \in Hist' \/ Fine(local'[p], remote'[p], base'[p], ops'[p], c)
  <2>1. ~SeenThere(ops'[p], remote[p])
    BY <1>4 DEF SeenThere, Plans
  <2>2. CASE local[p] = c /\ HereNew(c, base[p], ops[p])
    <3>1. c # ops[p].l
      BY <1>1, <2>2 DEF HereNew, SeenHere, Plans
    <3>. QED  BY <1>8, <2>2, <3>1
  <2>3. CASE remote[p].c = c /\ ThereNew(remote[p], base[p], ops[p])
    BY <1>3, <2>1, <2>3 DEF Fine, ThereNew
  <2>4. CASE local[p] = c /\ remote[p].c = c
    <3>1. c = ops[p].l => c \in Hist
      BY <1>1, <2>4 DEF LossInv, OpsOK, OpOK, PlanOK, Plans, Past
    <3>. QED  BY <1>3, <1>8, <2>4, <3>1 DEF HistGrows
  <2>. QED  BY <1>9, <2>2, <2>3, <2>4 DEF Fine
<1>10. CarryOK(p)' /\ ~Moving(ops'[p])
  BY <1>2, <1>4 DEF CarryOK, Moving
<1>. QED  BY <1>2, <1>3, <1>4, <1>6, <1>7, <1>9, <1>10, ActStep

\* What is removed there was known, or comes after the pass had looked.
LEMMA DeleteThereLoss ==
  ASSUME LossInv, SyncInv', NEW p \in Names, DeleteThere(p)
  PROVE  LossInv'
<1>0. SyncInv /\ TypeOK
  BY DEF LossInv, SyncInv
<1>1. ops[p].kind = "deleteRemote" /\ ops[p].step = "planned" /\ Starts(p, ops[p].kind)
  BY DEF DeleteThere, Starts
<1>2. phase = "apply" /\ ops[p] # NoOp /\ \A q \in Names : ~Moving(ops[q])
  BY <1>1, NoMovers, NoOpHas DEF MoveKinds
<1>3. HistGrows /\ local' = local /\ base' = base /\ phase' = phase /\ written' = written
  BY DEF DeleteThere, HistGrows, Hist, disk, user, Race
<1>4. /\ ops'[p].l = 0 /\ ops'[p].got = Gone /\ ops'[p].step = "deleted" /\ ops'[p].kind = ops[p].kind /\ ops'[p].r = Gone
      /\ \A q \in Names \ {p} : ops'[q] = ops[q]
  <2>1. "deleted" \in Steps /\ Ends(p, "deleted")
    BY DEF DeleteThere, Steps
  <2>. QED  BY <1>0, <2>1, EndsIs
<1>5. remote'[p] = Gone /\ \A q \in Names \ {p} : remote'[q] = remote[q]
  BY <1>0 DEF DeleteThere, TypeOK
<1>6. \A q \in Names \ {p} : Same4(q)
  BY <1>3, <1>4, <1>5 DEF Same4
<1>7. Used(p)' \subseteq InUse \cup {0, Never}
  BY <1>3, <1>4, <1>5, InUseHas, NoOpHas DEF Used
<1>8. remote[p].c \in Hist' \cup {0} \/ remote[p].etag = ops[p].r.etag
  BY DEF DeleteThere, Race, Newer, Hist
<1>9. ASSUME NEW c \in Contents \ {0}, Fine(local[p], remote[p], base[p], ops[p], c)
      PROVE  c \in Hist' \/ Fine(local'[p], remote'[p], base'[p], ops'[p], c)
  <2>1. ~SeenHere(ops'[p], c)
    BY <1>4 DEF SeenHere, Plans
  <2>2. local[p] = c /\ c # base[p].l => Fine(local'[p], remote'[p], base'[p], ops'[p], c)
    BY <1>3, <2>1 DEF Fine, HereNew
  <2>3. CASE local[p] = c /\ HereNew(c, base[p], ops[p])
    BY <2>2, <2>3 DEF HereNew
  <2>4. CASE remote[p].c = c /\ ThereNew(remote[p], base[p], ops[p])
    <3>1. remote[p].etag # ops[p].r.etag
      BY <1>1, <2>4 DEF ThereNew, SeenThere, Plans
    <3>. QED  BY <1>8, <2>4, <3>1
  <2>5. CASE local[p] = c /\ remote[p].c = c
    <3>1. c \in Hist \/ c # base[p].l
      BY <1>1, <2>5 DEF LossInv, OpsOK, OpOK, PlanOK, Plans, NotBack, Past
    <3>. QED  BY <1>3, <2>2, <2>5, <3>1 DEF HistGrows
  <2>. QED  BY <1>9, <2>3, <2>4, <2>5 DEF Fine
<1>10. CarryOK(p)' /\ ~Moving(ops'[p])
  BY <1>2, <1>4 DEF CarryOK, Moving
<1>. QED  BY <1>2, <1>3, <1>4, <1>6, <1>7, <1>9, <1>10, ActStep

-----------------------------------------------------------------------------
(* Steps of two names: renames, and a conflicted copy *)

\* A step that writes nothing keeps the invariant, its parts given.
LEMMA StepLoss ==
  ASSUME LossInv, SyncInv', HistGrows, written' = written, Fresh', Stages', AllLasts, \A q \in Names : OpOK(q)'
  PROVE  LossInv'
<1>0. TypeOK
  BY DEF LossInv, SyncInv
<1>1. Covered'
  BY <1>0, CoveredLasts, WrittenNat DEF LossInv
<1>. QED  BY <1>1 DEF LossInv, OpsOK

\* An operation that has not changed, at a name of which nothing that it counts on has.
LEMMA OpStill ==
  ASSUME LossInv, HistGrows, AllLasts, NEW q \in Names, ops'[q] = ops[q], phase \notin {"listed", "asking"},
         ops[q] = NoOp \/ Same4(q),
         \A x \in ops[q].other : Moving(ops[q]) =>
            \/ remote'[x] = remote[x]
            \/ remote'[x].c = 0 /\ \A c \in Contents \ {0} : c = remote[x].c => Safe(c, Near(ops[q], q))'
  PROVE  OpOK(q)'
<1>0. TypeOK
  BY DEF LossInv, SyncInv
<1>1. CASE ops[q] = NoOp
  BY <1>1, NoOpHas DEF OpOK, ListOK, LookOK, PlanOK, MoveOK, CarryOK, Plans
<1>2. CASE Same4(q)
  <2>1. local'[q] = local[q] /\ remote'[q] = remote[q] /\ base'[q] = base[q] /\ OpOK(q)
    BY <1>2 DEF Same4, LossInv, OpsOK
  <2>2. \A c : Past(c) => Past(c)'
    BY DEF Past, HistGrows
  <2>3. ops[q].step \notin {"listed", "seen", "looked"}
    BY <1>0, NoOpHas DEF LossInv, Stages, Phases, PhaseIs, Acting, TypeOK
  <2>4. Past(0)'
    BY DEF Past
  <2>5. ASSUME Plans(ops[q], {"moveLocal"}), NEW x \in ops[q].other, remote'[x].c = ops[q].l PROVE Past(ops[q].l)'
    <3>1. Moving(ops[q])
      BY <2>5 DEF Plans, Moving, MoveKinds
    <3>2. CASE remote'[x] = remote[x]
      BY <2>1, <2>2, <2>5, <3>2 DEF OpOK, PlanOK
    <3>3. CASE remote'[x].c = 0
      BY <2>4, <2>5, <3>3
    <3>. QED  BY <3>1, <3>2, <3>3
  <2>6. PlanOK(q)'
    BY <2>1, <2>2, <2>5 DEF OpOK, PlanOK, NotBack
  <2>7. MoveOK(q)'
    <3>1. CASE Plans(ops[q], {"moveRemote"})
      <4>1. Moving(ops[q])
        BY <3>1 DEF Plans, Moving, MoveKinds
      <4>2. ASSUME NEW y \in Near(ops[q], q), remote[y].c = ops[q].r.c, ops[q].r.c # 0, remote'[y].c # remote[y].c
            PROVE  Safe(ops[q].r.c, Near(ops[q], q))'
        <5>1. y # q
          BY <2>1, <4>2
        <5>2. ops[q].r.c \in Contents \ {0}
          BY <1>0, <4>2, OpContents
        <5>3. \A c \in Contents \ {0} : c = remote[y].c => Safe(c, Near(ops[q], q))'
          BY <4>1, <4>2, <5>1 DEF Near
        <5>4. PICK c \in Contents \ {0} : c = ops[q].r.c
          BY <5>2
        <5>5. Safe(c, Near(ops[q], q))'
          BY <4>2, <5>3, <5>4
        <5>. QED  BY <2>1, <5>4, <5>5
      <4>. QED  BY <1>0, <2>1, <3>1, <4>2, MoveLasts DEF OpOK
    <3>2. CASE ~Plans(ops[q], {"moveRemote"})
      BY <3>2 DEF MoveOK
    <3>. QED  BY <3>1, <3>2
  <2>8. CarryOK(q)'
    BY <2>1, <2>2 DEF OpOK, CarryOK, NotBack
  <2>. QED  BY <2>3, <2>6, <2>7, <2>8 DEF OpOK, ListOK, LookOK
<1>. QED  BY <1>1, <1>2

\* The planned rename of p takes a step.
LEMMA MoverSteps ==
  ASSUME LossInv, NEW p \in Names, Moving(ops[p]), phase' = phase,
         \A q \in Names \ {p} : ops'[q] = ops[q],
         ops'[p].step = "moved", ops'[p].kind = ops[p].kind, ops'[p].l = ops[p].l,
         ops'[p].other \subseteq ops[p].other
  PROVE  Stages' /\ SentLess
<1>0. TypeOK
  BY DEF LossInv, SyncInv
<1>1. phase = "apply" /\ ops[p] # NoOp
  BY MoverIs, NoOpHas
<1>2. \A q \in Names : PhaseIs(ops'[q], phase')
  <2>1. ASSUME NEW q \in Names \ {p} PROVE PhaseIs(ops'[q], phase')
    BY DEF LossInv, Stages, Phases
  <2>2. PhaseIs(ops'[p], phase')
    BY <1>1 DEF PhaseIs, Acting
  <2>. QED  BY <2>1, <2>2
<1>3. \A q \in Names : MoveIs(q, ops')
  <2>. SUFFICES ASSUME NEW q \in Names, Moving(ops'[q]) PROVE MoveIs(q, ops')
    BY DEF MoveIs
  <2>1. Moving(ops[q]) /\ MoveIs(q, ops) /\ MoveIs(p, ops) /\ ops[q].other \subseteq Names
        /\ ops'[q].other \subseteq ops[q].other /\ ops'[q].l = ops[q].l /\ ops'[q].kind = ops[q].kind
    BY <1>0, OpContents DEF Moving, LossInv, Stages
  <2>2. \A x \in ops'[q].other : x # q /\ ops[x] = NoOp /\ x # p
    BY <1>1, <2>1 DEF MoveIs
  <2>3. \A x \in Names : ops'[x] = NoOp \/ ops'[x].step = "planned" \/ Moving(ops'[x])
    BY <2>1 DEF MoveIs, Moving
  <2>4. \A x \in Names : ops'[x].kind = ops[x].kind /\ ops'[x].l = ops[x].l
    OBVIOUS
  <2>. QED  BY <2>1, <2>2, <2>3, <2>4 DEF MoveIs
<1>4. \A q \in Names : ops'[q] = ops[q] \/ ~Plans(ops'[q], {"moveLocal"})
  BY DEF Plans
<1>. QED  BY <1>2, <1>3, <1>4, NoNewSent DEF Stages, Phases

\* The old name of a rename loses its row.
LEMMA MoveForgetsLoss ==
  ASSUME LossInv, SyncInv', NEW p \in Names, MoveForgets(p)
  PROVE  LossInv'
<1>0. SyncInv /\ TypeOK
  BY DEF LossInv, SyncInv
<1>1. ops[p].step = "moved" /\ Moving(ops[p])
  BY <1>0, Here DEF MoveForgets, At, OpIs, Moving
<1>2. phase = "apply" /\ ops[p] # NoOp
  BY <1>1, MoverIs, NoOpHas
<1>3. HistGrows /\ local' = local /\ remote' = remote /\ phase' = phase /\ written' = written
  BY DEF MoveForgets, HistGrows, Hist, disk, user
<1>4. /\ \A q \in Names \ {p} : ops'[q] = ops[q]
      /\ ops'[p].step = ops[p].step /\ ops'[p].kind = ops[p].kind /\ ops'[p].l = ops[p].l /\ ops'[p].r = ops[p].r
      /\ ops'[p].got = ops[p].got /\ ops'[p].other = {}
  BY <1>0 DEF MoveForgets, TypeOK, Op
<1>5. \A q \in Names : base'[q] = IF q \in ops[p].other THEN NoRow ELSE base[q]
  BY DEF MoveForgets
<1>6. NoRow.l = 0 /\ NoRow.key = 0 /\ NoRow.sha = 0 /\ NoRow.etag = 0
  BY DEF NoRow
<1>7. Stages' /\ SentLess
  BY <1>1, <1>3, <1>4, MoverSteps
<1>8. Fresh'
  <2>1. ASSUME NEW q \in Names PROVE Used(q)' \subseteq InUse \cup {0, Never, written}
    BY <1>3, <1>4, <1>5, <1>6, InUseHas DEF Used
  <2>. QED  BY <1>0, <1>3, <2>1, FreshLasts, WrittenNat DEF LossInv
<1>9. ASSUME NEW z \in Names, NEW c \in Contents \ {0}, Good(z, c) PROVE Good(z, c)'
  <2>1. SeenHere(ops'[z], c) <=> SeenHere(ops[z], c)
    BY <1>4 DEF SeenHere, Plans
  <2>2. SeenThere(ops'[z], remote[z]) <=> SeenThere(ops[z], remote[z])
    BY <1>4 DEF SeenThere, Plans
  <2>3. ~Sent(z, c, ops) => ~Sent(z, c, ops')
    BY <1>7 DEF SentLess
  <2>4. HereNew(c, base[z], ops[z]) => HereNew(c, base'[z], ops'[z])
    BY <1>5, <1>6, <2>1 DEF HereNew
  <2>5. remote[z].c = c => remote[z].etag # 0
    BY <1>0, OneContent
  <2>6. remote[z].c = c /\ ThereNew(remote[z], base[z], ops[z]) => ThereNew(remote[z], base'[z], ops'[z])
    BY <1>5, <1>6, <2>2, <2>5 DEF ThereNew
  <2>. QED  BY <1>3, <1>9, <2>3, <2>4, <2>6 DEF Good, NewHere, NewThere, OnBoth
<1>10. AllLasts
  BY <1>9 DEF AllLasts, Lasts
<1>11. ASSUME NEW q \in Names PROVE OpOK(q)'
  <2>1. CASE q = p
    BY <1>1, <1>4, <2>1 DEF OpOK, ListOK, LookOK, PlanOK, MoveOK, CarryOK, Plans
  <2>2. CASE q # p
    <3>1. q \in ops[p].other => ops[q] = NoOp
      BY <1>1 DEF LossInv, Stages, MoveIs
    <3>2. ops[q] = NoOp \/ Same4(q)
      BY <1>3, <1>4, <1>5, <2>2, <3>1 DEF Same4
    <3>. QED  BY <1>2, <1>3, <1>4, <1>10, <2>2, <3>2, OpStill
  <2>. QED  BY <2>1, <2>2
<1>. QED  BY <1>3, <1>7, <1>8, <1>10, <1>11, StepLoss

\* A rename here takes along what is at the old name, unless that is known there.
LEMMA MoveHereLoss ==
  ASSUME LossInv, SyncInv', NEW p \in Names, MoveHere(p)
  PROVE  LossInv'
<1>0. SyncInv /\ TypeOK
  BY DEF LossInv, SyncInv
<1>1. ops[p].kind = "moveLocal" /\ ops[p].step = "planned" /\ Moving(ops[p]) /\ Plans(ops[p], {"moveLocal"})
      /\ Plans(ops[p], MoveKinds)
  BY DEF MoveHere, Starts, Moving, MoveKinds, Plans
<1>2. phase = "apply" /\ ops[p] # NoOp
  BY <1>1, MoverIs, NoOpHas
<1>3. HistGrows /\ remote' = remote /\ base' = base /\ phase' = phase /\ written' = written
  BY DEF MoveHere, HistGrows, Hist, user
<1>4. /\ \A q \in Names \ {p} : ops'[q] = ops[q]
      /\ ops'[p].step = "moved" /\ ops'[p].kind = ops[p].kind /\ ops'[p].l = ops[p].l /\ ops'[p].r = ops[p].r
      /\ ops'[p].got = ops[p].got /\ ops'[p].other = ops[p].other
  <2>1. "moved" \in Steps /\ Goto(p, "moved")
    BY DEF MoveHere, Steps
  <2>. QED  BY <1>0, <2>1, GotoIs
<1>5. PICK x \in ops[p].other : local[x] # 0 /\ local[p] = 0 /\ local' = [local EXCEPT ![x] = 0, ![p] = local[x]]
  BY DEF MoveHere, HasL
<1>6. x \in Names /\ x # p /\ ops[x] = NoOp
  BY <1>0, <1>1, <1>5, OpContents DEF LossInv, Stages, MoveIs
<1>7. local'[x] = 0 /\ local'[p] = local[x] /\ \A q \in Names \ {x, p} : local'[q] = local[q]
  BY <1>0, <1>5, <1>6 DEF TypeOK
<1>8. Stages' /\ SentLess
  BY <1>1, <1>3, <1>4, MoverSteps
<1>9. Fresh'
  <2>1. ASSUME NEW q \in Names PROVE Used(q)' \subseteq InUse \cup {0, Never, written}
    BY <1>3, <1>4, <1>6, <1>7, InUseHas DEF Used
  <2>. QED  BY <1>0, <1>3, <2>1, FreshLasts, WrittenNat DEF LossInv
<1>10. \A q \in Names \ {x, p} : Same4(q)
  BY <1>3, <1>4, <1>7 DEF Same4
<1>. PICK d \in Contents : d = local[x]
  BY <1>0, <1>6, OpContents
<1>11. d \in Hist \/ Good(p, d)' \/ ~(NewHere(x, d) \/ OnBoth(x, d))
  <2>. SUFFICES ASSUME NewHere(x, d) \/ OnBoth(x, d), d \notin Hist PROVE Good(p, d)'
    OBVIOUS
  <2>1. d # ops[p].l
    <3>1. CASE NewHere(x, d)
      BY <1>1, <1>5, <3>1 DEF NewHere, Sent
    <3>2. CASE OnBoth(x, d)
      BY <1>1, <1>5, <3>2 DEF LossInv, OpsOK, OpOK, PlanOK, OnBoth, Past
    <3>. QED  BY <3>1, <3>2
  <2>2. d # base[p].l
    <3>1. base[p].l \in Hist \cup {0, Never}
      BY <1>1 DEF LossInv, OpsOK, OpOK, PlanOK, Past
    <3>2. d # Never
      BY Numbers
    <3>. QED  BY <1>5, <3>1, <3>2
  <2>3. d # ops[p].r.c
    BY <1>0, <1>1, <2>1, Here DEF OpIs, Moving, Same, Hist
  <2>4. ~SeenHere(ops'[p], d)
    BY <1>4, <2>3 DEF SeenHere, Plans
  <2>5. ~Sent(p, d, ops')
    <3>. SUFFICES ASSUME NEW q \in Names, Plans(ops'[q], {"moveLocal"}), p \in ops'[q].other PROVE FALSE
      BY DEF Sent
    <3>1. q # p /\ Moving(ops[q]) /\ p \in Near(ops[q], q)
      BY <1>4 DEF Plans, Moving, MoveKinds, Near
    <3>. QED  BY <1>2, <3>1, NotNear
  <2>. QED  BY <1>3, <1>7, <2>2, <2>4, <2>5 DEF Good, NewHere, HereNew
<1>12. \A w \in Names : ~(Plans(ops'[w], {"moveRemote"}) /\ p \in Near(ops'[w], w))
  <2>. SUFFICES ASSUME NEW w \in Names, Plans(ops'[w], {"moveRemote"}), p \in Near(ops'[w], w) PROVE FALSE
    OBVIOUS
  <2>1. w # p /\ Moving(ops[w]) /\ p \in Near(ops[w], w)
    BY <1>4 DEF Plans, Moving, MoveKinds
  <2>. QED  BY <1>2, <2>1, NotNear
<1>13. AllLasts
  <2>. SUFFICES ASSUME NEW z \in Names, NEW c \in Contents \ {0}, Good(z, c) PROVE Lasts(z, c)
    BY DEF AllLasts
  <2>1. CASE z \notin {x, p}
    BY <1>8, <1>10, <2>1, Elsewhere DEF Lasts
  <2>2. CASE z \in {x, p} /\ NewThere(z, c)
    <3>1. ~SeenThere(ops'[p], remote[p])
      BY <1>4 DEF SeenThere, Plans
    <3>2. NewThere(z, c)'
      BY <1>3, <1>4, <1>6, <2>2, <3>1 DEF NewThere, ThereNew
    <3>. QED  BY <3>2 DEF Lasts, Good
  <2>3. CASE z = x /\ ~NewThere(z, c)
    <3>1. c = d /\ (NewHere(x, d) \/ OnBoth(x, d))
      BY <2>3 DEF Good, NewHere, OnBoth
    <3>. QED  BY <1>3, <1>11, <1>12, <3>1 DEF Lasts, HistGrows
  <2>4. CASE z = p /\ ~NewThere(z, c)
    BY <1>5, <2>4 DEF Good, NewHere, OnBoth
  <2>. QED  BY <2>1, <2>2, <2>3, <2>4
<1>14. ASSUME NEW q \in Names PROVE OpOK(q)'
  <2>1. CASE q = p
    BY <1>4, <2>1 DEF OpOK, ListOK, LookOK, PlanOK, MoveOK, CarryOK, Plans
  <2>2. CASE q # p
    <3>1. ops[q] = NoOp \/ Same4(q)
      BY <1>6, <1>10, <2>2
    <3>. QED  BY <1>2, <1>3, <1>4, <1>13, <2>2, <3>1, OpStill
  <2>. QED  BY <2>1, <2>2
<1>. QED  BY <1>3, <1>8, <1>9, <1>13, <1>14, StepLoss

\* What a planned move finds at its new name is no version a row there has.
LEMMA ThereAnew ==
  ASSUME SyncInv, NEW p \in Names, Past(base[p].l) \/ base[p].l = Never, NEW f \in Carriers, f.c \notin Hist \cup {0},
         f.etag # 0
  PROVE  f.c \notin {base[p].l, base[p].key, base[p].sha} /\ f.etag # base[p].etag
<1>1. RowIs(base[p], Carriers, superseded, raced)
  BY Here
<1>2. NoRow.l = 0 /\ NoRow.key = 0 /\ NoRow.sha = 0 /\ NoRow.etag = 0 /\ f.c # Never
  <2>1. f.c \in Contents
    BY Here, AFile DEF Carriers
  <2>. QED  BY <2>1, Numbers DEF NoRow
<1>3. CASE base[p] = NoRow
  BY <1>2, <1>3
<1>4. CASE base[p].l = Never /\ base[p] # NoRow
  <2>1. base[p].key = 0 /\ base[p].sha \in superseded \cup {0} /\ (f.etag = base[p].etag => f.c \in superseded)
    BY <1>1, <1>4 DEF RowIs
  <2>. QED  BY <1>2, <1>4, <2>1 DEF Hist
<1>5. CASE base[p].l \notin {0, Never}
  <2>1. /\ base[p].sha \in {0, base[p].l}
        /\ base[p].key = 0 \/ Same(base[p].key, base[p].l, raced)
        /\ f.etag = base[p].etag => Same(f.c, base[p].l, raced)
    BY <1>1, <1>2, <1>5 DEF RowIs
  <2>2. base[p].l \in Hist
    BY <1>5 DEF Past
  <2>. QED  BY <2>1, <2>2 DEF Same, Hist
<1>. QED  BY <1>1, <1>2, <1>3, <1>4, <1>5 DEF RowIs

\* A rename on the server takes along what is at the old name, and what it replaces is on record.
LEMMA MoveThereLoss ==
  ASSUME LossInv, SyncInv', NEW p \in Names, MoveThere(p)
  PROVE  LossInv'
<1>0. SyncInv /\ TypeOK
  BY DEF LossInv, SyncInv
<1>1. ops[p].kind = "moveRemote" /\ ops[p].step = "planned" /\ Moving(ops[p]) /\ Plans(ops[p], {"moveRemote"})
      /\ Plans(ops[p], MoveKinds)
  BY DEF MoveThere, Starts, Moving, MoveKinds, Plans
<1>2. phase = "apply" /\ ops[p] # NoOp
  BY <1>1, MoverIs, NoOpHas
<1>3. HistGrows /\ local' = local /\ base' = base /\ phase' = phase /\ written' = written
  BY DEF MoveThere, HistGrows, Hist, user, Race
<1>4. /\ \A q \in Names \ {p} : ops'[q] = ops[q]
      /\ ops'[p].step = "moved" /\ ops'[p].kind = ops[p].kind /\ ops'[p].l = ops[p].l /\ ops'[p].r = ops[p].r
      /\ ops'[p].got = ops[p].got /\ ops'[p].other = ops[p].other
  <2>1. "moved" \in Steps /\ Goto(p, "moved")
    BY DEF MoveThere, Steps
  <2>. QED  BY <1>0, <2>1, GotoIs
<1>5. PICK x \in ops[p].other : HasR(x) /\ remote' = [remote EXCEPT ![x] = Gone, ![p] = remote[x]]
  BY DEF MoveThere
<1>6. x \in Names /\ x # p /\ ops[x] = NoOp /\ \A y \in ops[p].other : y = x
  BY <1>0, <1>1, <1>5, OpContents DEF LossInv, Stages, MoveIs
<1>7. remote'[x] = Gone /\ remote'[p] = remote[x] /\ \A q \in Names \ {x, p} : remote'[q] = remote[q]
  BY <1>0, <1>5, <1>6 DEF TypeOK
<1>8. Stages' /\ SentLess
  BY <1>1, <1>3, <1>4, MoverSteps
<1>9. Fresh'
  <2>1. ASSUME NEW q \in Names PROVE Used(q)' \subseteq InUse \cup {0, Never, written}
    BY <1>3, <1>4, <1>6, <1>7, InUseHas, NoOpHas DEF Used
  <2>. QED  BY <1>0, <1>3, <2>1, FreshLasts, WrittenNat DEF LossInv
<1>10. \A q \in Names \ {x, p} : Same4(q)
  BY <1>3, <1>4, <1>7 DEF Same4
<1>. PICK d \in Contents \ {0} : d = remote[x].c
  BY <1>0, <1>5, <1>6, OpContents DEF HasR
<1>11. d \in Hist \/ Good(p, d)'
  <2>. SUFFICES ASSUME d \notin Hist PROVE Good(p, d)'
    OBVIOUS
  <2>1. Past(base[p].l) \/ base[p].l = Never
    BY <1>1 DEF LossInv, OpsOK, OpOK, PlanOK
  <2>2. remote[x] \in Carriers /\ remote[x].etag # 0
    BY <1>0, <1>6, Here, OneContent
  <2>3. d \notin {base[p].l, base[p].key, base[p].sha} /\ remote[x].etag # base[p].etag
    BY <1>0, <2>1, <2>2, ThereAnew
  <2>4. ~SeenThere(ops'[p], remote'[p])
    BY <1>4 DEF SeenThere, Plans
  <2>. QED  BY <1>3, <1>7, <2>3, <2>4 DEF Good, NewThere, ThereNew
<1>12. \A w \in Names : ~(Plans(ops'[w], {"moveRemote"}) /\ p \in Near(ops'[w], w))
  <2>. SUFFICES ASSUME NEW w \in Names, Plans(ops'[w], {"moveRemote"}), p \in Near(ops'[w], w) PROVE FALSE
    OBVIOUS
  <2>1. w # p /\ Moving(ops[w]) /\ p \in Near(ops[w], w)
    BY <1>4 DEF Plans, Moving, MoveKinds
  <2>. QED  BY <1>2, <2>1, NotNear
<1>13. Lasts(x, d)
  BY <1>3, <1>11, <1>12 DEF Lasts, HistGrows
<1>14. remote[p].c \in Hist' \cup {0}
  BY DEF MoveThere, Race, Hist
<1>15. ASSUME NEW c \in Contents \ {0}, NewHere(p, c) PROVE Lasts(p, c)
  <2>1. ~Sent(p, c, ops')
    BY <1>8, <1>15 DEF NewHere, SentLess
  <2>2. CASE c # ops[p].r.c
    <3>1. ~SeenHere(ops'[p], c)
      BY <1>4, <2>2 DEF SeenHere, Plans
    <3>2. NewHere(p, c)'
      BY <1>3, <1>15, <2>1, <3>1 DEF NewHere, HereNew
    <3>. QED  BY <3>2 DEF Lasts, Good
  <2>3. CASE c = ops[p].r.c
    <3>1. CASE c \in Hist
      BY <1>3, <3>1 DEF Lasts, HistGrows
    <3>2. CASE c = remote[p].c
      BY <1>14, <3>2 DEF Lasts
    <3>3. ASSUME NEW y \in ops[p].other, remote[y].c = c PROVE Lasts(p, c)
      <4>1. OnBoth(p, c)'
        BY <1>3, <1>6, <1>7, <1>15, <3>3 DEF OnBoth, NewHere
      <4>. QED  BY <4>1 DEF Lasts, Good
    <3>4. ASSUME c \notin Hist, NEW z \in Names \ Near(ops[p], p), Good(z, c) PROVE Lasts(p, c)
      <4>1. z \notin {x, p}
        BY <1>5 DEF Near
      <4>2. Good(z, c)'
        BY <1>8, <1>10, <3>4, <4>1, Elsewhere
      <4>3. ASSUME NEW w \in Names, Plans(ops'[w], {"moveRemote"}), ops'[w].r.c = c PROVE FALSE
        <5>1. w # p /\ ops'[w] = ops[w]
          BY <1>4, <4>3 DEF Plans
        <5>2. ops[w].kind = "moveRemote" /\ Moving(ops[w])
          BY <4>3, <5>1 DEF Plans, Moving, MoveKinds
        <5>3. Same(c, ops[w].l, raced) /\ Same(c, ops[p].l, raced)
          BY <1>0, <1>1, <2>3, <4>3, <5>1, <5>2, Here DEF OpIs, Moving
        <5>4. ops[p].l # ops[w].l
          BY <1>1, <5>1, <5>2 DEF LossInv, Stages, MoveIs
        <5>. QED  BY <3>4, <5>3, <5>4 DEF Same, Hist
      <4>. QED  BY <4>2, <4>3 DEF Lasts
    <3>. QED  BY <1>1, <2>3, <3>1, <3>2, <3>3, <3>4 DEF LossInv, OpsOK, OpOK, MoveOK, Safe
  <2>. QED  BY <2>2, <2>3
<1>16. AllLasts
  <2>. SUFFICES ASSUME NEW z \in Names, NEW c \in Contents \ {0}, Good(z, c) PROVE Lasts(z, c)
    BY DEF AllLasts
  <2>1. CASE z \notin {x, p}
    BY <1>8, <1>10, <2>1, Elsewhere DEF Lasts
  <2>2. CASE z = x /\ remote[x].c = c
    BY <1>13, <2>2
  <2>3. CASE z = x /\ remote[x].c # c
    <3>1. NewHere(x, c)
      BY <2>3 DEF Good, NewThere, OnBoth
    <3>2. NewHere(x, c)'
      BY <1>3, <1>4, <1>6, <1>8, <3>1 DEF NewHere, SentLess
    <3>. QED  BY <2>3, <3>2 DEF Lasts, Good
  <2>4. CASE z = p /\ remote[p].c = c
    BY <1>14, <2>4 DEF Lasts
  <2>5. CASE z = p /\ remote[p].c # c
    BY <1>15, <2>5 DEF Good, NewThere, OnBoth
  <2>. QED  BY <2>1, <2>2, <2>3, <2>4, <2>5
<1>17. ASSUME NEW q \in Names PROVE OpOK(q)'
  <2>1. CASE q = p
    BY <1>4, <2>1 DEF OpOK, ListOK, LookOK, PlanOK, MoveOK, CarryOK, Plans
  <2>2. CASE q # p
    <3>1. ops[q] = NoOp \/ Same4(q)
      BY <1>6, <1>10, <2>2
    <3>2. ASSUME NEW y \in ops[q].other, Moving(ops[q]), remote'[y] # remote[y]
          PROVE  remote'[y].c = 0 /\ \A c \in Contents \ {0} : c = remote[y].c => Safe(c, Near(ops[q], q))'
      <4>1. y \in Names /\ y # p
        BY <1>0, <1>2, <2>2, <3>2, NotNear, OpContents DEF Near
      <4>2. y = x
        BY <1>7, <3>2, <4>1
      <4>3. p \notin Near(ops'[q], q)
        BY <1>2, <1>4, <2>2, <3>2, NotNear
      <4>4. Safe(d, Near(ops[q], q))'
        BY <1>3, <1>11, <4>3 DEF Safe, HistGrows
      <4>. QED  BY <1>7, <4>2, <4>4, NoOpHas
    <3>. QED  BY <1>2, <1>3, <1>4, <1>16, <2>2, <3>1, <3>2, OpStill
  <2>. QED  BY <2>1, <2>2
<1>. QED  BY <1>3, <1>8, <1>9, <1>16, <1>17, StepLoss

\* Without renames the stages are the phases.
LEMMA NoMoversStages ==
  ASSUME LossInv, phase' = phase, \A q \in Names : ~Moving(ops'[q]), \A q \in Names : PhaseIs(ops'[q], phase)
  PROVE  Stages' /\ SentLess
BY DEF Stages, Phases, MoveIs, SentLess, Sent, Plans, Moving, MoveKinds

\* The file set aside goes on under the copy's name.
LEMMA SetAsideLoss ==
  ASSUME LossInv, SyncInv', NEW p \in Names, SetAside(p)
  PROVE  LossInv'
<1>0. SyncInv /\ TypeOK
  BY DEF LossInv, SyncInv
<1>1. ops[p].step = "compared"
  BY DEF SetAside, At
<1>2. phase = "apply" /\ ops[p] # NoOp /\ \A q \in Names : ~Moving(ops[q])
  BY <1>1, NoMovers, NoOpHas
<1>3. HistGrows /\ remote' = remote /\ base' = base /\ phase' = phase /\ written' = written
  BY DEF SetAside, HistGrows, Hist, user
<1>4. PICK k \in Copies : /\ local[k] = 0 /\ remote[k].c = 0 /\ base[k] = NoRow /\ ops[k] = NoOp
                          /\ local' = [local EXCEPT ![p] = 0, ![k] = local[p]]
                          /\ ops' = [ops EXCEPT ![p] = [@ EXCEPT !.other = {k}, !.step = "aside"]]
  BY DEF SetAside, HasL, HasR, HasB
<1>5. k \in Names /\ k # p
  BY <1>2, <1>4 DEF Names
<1>6. local'[k] = local[p] /\ local'[p] = 0 /\ \A q \in Names \ {k, p} : local'[q] = local[q]
  BY <1>0, <1>4, <1>5 DEF TypeOK
<1>7. /\ \A q \in Names \ {p} : ops'[q] = ops[q]
      /\ ops'[p].step = "aside" /\ ops'[p].kind = ops[p].kind /\ ops'[p].l = ops[p].l /\ ops'[p].r = ops[p].r
      /\ ops'[p].got = ops[p].got
  BY <1>0, <1>4 DEF TypeOK, Op
<1>8. \A q \in Names : ~Moving(ops'[q])
  BY <1>2, <1>7 DEF Moving
<1>9. Stages' /\ SentLess
  <2>1. ASSUME NEW q \in Names PROVE PhaseIs(ops'[q], phase)
    <3>1. PhaseIs(ops[q], phase)
      BY DEF LossInv, Stages, Phases
    <3>. QED  BY <1>2, <1>7, <3>1 DEF PhaseIs, Acting
  <2>. QED  BY <1>3, <1>8, <2>1, NoMoversStages
<1>10. Fresh'
  <2>1. ASSUME NEW q \in Names PROVE Used(q)' \subseteq InUse \cup {0, Never, written}
    BY <1>3, <1>5, <1>6, <1>7, InUseHas DEF Used
  <2>. QED  BY <1>0, <1>3, <2>1, FreshLasts, WrittenNat DEF LossInv
<1>11. \A q \in Names \ {k, p} : Same4(q)
  BY <1>3, <1>6, <1>7 DEF Same4
<1>12. \A w \in Names : ~Plans(ops'[w], {"moveRemote"})
  BY <1>8 DEF Plans, Moving, MoveKinds
<1>13. AllLasts
  <2>. SUFFICES ASSUME NEW z \in Names, NEW c \in Contents \ {0}, Good(z, c) PROVE Lasts(z, c)
    BY DEF AllLasts
  <2>1. CASE z \notin {k, p}
    BY <1>9, <1>11, <2>1, Elsewhere DEF Lasts
  <2>2. CASE z = k
    BY <1>4, <2>2 DEF Good, NewHere, NewThere, OnBoth
  <2>3. CASE z = p /\ NewThere(p, c)
    <3>1. ~SeenThere(ops'[p], remote[p])
      BY <1>7 DEF SeenThere, Plans
    <3>2. NewThere(p, c)'
      BY <1>3, <2>3, <3>1 DEF NewThere, ThereNew
    <3>. QED  BY <2>3, <3>2 DEF Lasts, Good
  <2>4. CASE z = p /\ ~NewThere(p, c)
    <3>1. local[p] = c
      BY <2>4 DEF Good, NewHere, OnBoth
    <3>2. ~SeenHere(ops'[k], c) /\ base'[k].l = 0
      BY <1>3, <1>4, <1>5, <1>7, NoOpHas DEF SeenHere, Plans, NoRow
    <3>3. ~Sent(k, c, ops')
      BY <1>8 DEF Sent, Plans, Moving, MoveKinds
    <3>4. Good(k, c)'
      BY <1>6, <3>1, <3>2, <3>3 DEF Good, NewHere, HereNew
    <3>. QED  BY <1>5, <1>12, <3>4 DEF Lasts
  <2>. QED  BY <2>1, <2>2, <2>3, <2>4
<1>14. ASSUME NEW q \in Names PROVE OpOK(q)'
  <2>1. CASE q = p
    BY <1>7, <2>1 DEF OpOK, ListOK, LookOK, PlanOK, MoveOK, CarryOK, Plans
  <2>2. CASE q # p
    <3>1. ops[q] = NoOp \/ Same4(q)
      BY <1>4, <1>11, <2>2
    <3>. QED  BY <1>2, <1>3, <1>7, <1>13, <2>2, <3>1, OpStill
  <2>. QED  BY <2>1, <2>2
<1>. QED  BY <1>3, <1>9, <1>10, <1>13, <1>14, StepLoss

\* The row of theirs; ours goes on as the upload of its copy.
LEMMA RecordPlacedLoss ==
  ASSUME LossInv, SyncInv', NEW p \in Names, RecordPlaced(p)
  PROVE  LossInv'
<1>0. SyncInv /\ TypeOK
  BY DEF LossInv, SyncInv
<1>1. ops[p].step = "placed"
  BY DEF RecordPlaced, At
<1>2. phase = "apply" /\ ops[p] # NoOp /\ \A q \in Names : ~Moving(ops[q])
  BY <1>1, NoMovers, NoOpHas
<1>3. HistGrows /\ local' = local /\ remote' = remote /\ phase' = phase /\ written' = written
  BY DEF RecordPlaced, HistGrows, Hist, disk, user
<1>. DEFINE copied == [NoOp EXCEPT !.kind = "both", !.step = "copied"]
            row == RowOf(p, ops[p].got.c, ops[p].got.etag, ops[p].got.id)
<1>4. PICK k \in ops[p].other : ops' = [ops EXCEPT ![p] = NoOp, ![k] = copied]
  BY DEF RecordPlaced
<1>5. k \in Names
  BY <1>0, OpContents
<1>6. /\ copied.step = "copied" /\ copied.kind = "both" /\ copied.r = Gone /\ copied.got = Gone /\ copied.l = 0
      /\ copied.other = {}
  BY DEF NoOp
<1>7. /\ row.l = ops[p].got.c /\ row.sha = ops[p].got.c /\ row.etag = ops[p].got.etag /\ row \in BaseRow
      /\ row.key = 0 \/ (row.key = ops[p].r.c /\ ops[p].got.etag = ops[p].r.etag /\ ops[p].got.etag # 0)
  BY <1>0, Here, AFile, RowHas
<1>8. base'[p] = row /\ \A q \in Names \ {p} : base'[q] = base[q]
  BY <1>0, <1>7, RecordIs DEF RecordPlaced
<1>. HIDE DEF copied, row
<1>9. row.key \in {0, ops[p].got.c}
  BY <1>0, <1>7, OneContent
<1>10. ops'[k] = copied /\ ops'[p] \in {NoOp, copied} /\ \A q \in Names \ {k, p} : ops'[q] = ops[q]
  BY <1>0, <1>4, <1>5 DEF TypeOK
<1>11. \A q \in Names : ops'[q] \in {ops[q], NoOp, copied}
  BY <1>10
<1>12. \A q \in Names : ~Moving(ops'[q])
  BY <1>2, <1>6, <1>11, NoOpHas DEF Moving, MoveKinds
<1>13. Stages' /\ SentLess
  <2>1. ASSUME NEW q \in Names PROVE PhaseIs(ops'[q], phase)
    <3>1. PhaseIs(ops[q], phase)
      BY DEF LossInv, Stages, Phases
    <3>. QED  BY <1>2, <1>6, <1>11, <3>1, NoOpHas DEF PhaseIs, Acting
  <2>. QED  BY <1>3, <1>12, <2>1, NoMoversStages
<1>14. Fresh'
  <2>1. ASSUME NEW q \in Names PROVE Used(q)' \subseteq InUse \cup {0, Never, written}
    <3>1. {ops'[q].l, ops'[q].r.c, ops'[q].got.c} \subseteq InUse \cup {0}
      BY <1>6, <1>11, InUseHas, NoOpHas
    <3>2. {base'[q].l, base'[q].key, base'[q].sha} \subseteq InUse \cup {0}
      BY <1>7, <1>8, <1>9, InUseHas
    <3>. QED  BY <1>3, <3>1, <3>2, InUseHas DEF Used
  <2>. QED  BY <1>0, <1>3, <2>1, FreshLasts, WrittenNat DEF LossInv
<1>15. ASSUME NEW z \in Names, NEW c \in Contents \ {0}, Good(z, c) PROVE Good(z, c)'
  <2>1. ~Sent(z, c, ops')
    BY <1>12 DEF Sent, Plans, Moving, MoveKinds
  <2>2. ops'[z] \in {NoOp, copied} => ~SeenHere(ops'[z], c) /\ ~SeenThere(ops'[z], remote[z])
    BY <1>6, NoOpHas DEF SeenHere, SeenThere, Plans
  <2>3. CASE z # p
    BY <1>3, <1>8, <1>11, <1>15, <2>1, <2>2, <2>3 DEF Good, NewHere, NewThere, OnBoth, HereNew, ThereNew
  <2>4. CASE z = p
    <3>1. CASE NewHere(p, c)
      <4>1. c # ops[p].got.c
        BY <1>1, <3>1 DEF NewHere, HereNew, SeenHere
      <4>. QED  BY <1>3, <1>7, <1>8, <1>10, <2>1, <2>2, <2>4, <3>1, <4>1 DEF Good, NewHere, HereNew
    <3>2. CASE NewThere(p, c)
      <4>1. c # ops[p].got.c /\ remote[p].etag # 0
        BY <1>0, <1>1, <3>2, OneContent DEF NewThere, ThereNew, SeenThere
      <4>2. remote[p].etag # ops[p].got.etag
        BY <1>0, <3>2, <4>1, OneContent DEF NewThere
      <4>. QED  BY <1>3, <1>7, <1>8, <1>9, <1>10, <2>2, <2>4, <3>2, <4>1, <4>2 DEF Good, NewThere, ThereNew
    <3>3. CASE OnBoth(p, c)
      BY <1>3, <2>4, <3>3 DEF Good, OnBoth
    <3>. QED  BY <1>15, <2>4, <3>1, <3>2, <3>3 DEF Good
  <2>. QED  BY <2>3, <2>4
<1>16. AllLasts
  BY <1>15 DEF AllLasts, Lasts
<1>17. ASSUME NEW q \in Names PROVE OpOK(q)'
  <2>1. CASE ops'[q] \in {NoOp, copied}
    BY <1>6, <2>1, NoOpHas DEF OpOK, ListOK, LookOK, PlanOK, MoveOK, CarryOK, Plans
  <2>2. CASE ops'[q] \notin {NoOp, copied}
    <3>1. q \notin {k, p} /\ Same4(q)
      BY <1>3, <1>8, <1>10, <2>2 DEF Same4
    <3>. QED  BY <1>2, <1>3, <1>16, <3>1, OpStill DEF Same4
  <2>. QED  BY <2>1, <2>2
<1>. QED  BY <1>3, <1>13, <1>14, <1>16, <1>17, StepLoss

-----------------------------------------------------------------------------
(* The user's choices *)

\* A choice changes one name, and puts on record what it gives up.
LEMMA ChoiceStep ==
  ASSUME LossInv, SyncInv', NEW p \in Names, HistGrows, written' = written, phase' = phase, ops' = ops,
         phase \notin {"listed", "asking"}, \A q \in Names \ {p} : Same4(q), NotBack(p)',
         base'[p].l \in {0, Never, local[p]}, base'[p].l \in Hist' \cup {0, Never},
         {base'[p].key, base'[p].sha} \subseteq {0, remote[p].c},
         local'[p] \in {0, local[p]},
         \/ remote'[p] = remote[p]
         \/ remote'[p] = Gone /\ remote[p].c \in Hist' \cup {0},
         \A c \in Contents \ {0} : Good(p, c) => c \in Hist' \/ Good(p, c)'
  PROVE  LossInv'
<1>0. SyncInv /\ TypeOK
  BY DEF LossInv, SyncInv
<1>1. Stages' /\ SentLess
  BY DEF LossInv, Stages, Phases, SentLess
<1>2. Fresh'
  <2>1. ASSUME NEW q \in Names PROVE Used(q)' \subseteq InUse \cup {0, Never, written}
    <3>1. CASE q = p
      BY <3>1, InUseHas, NoOpHas DEF Used
    <3>. QED  BY <3>1, SameUsed
  <2>. QED  BY <1>0, <2>1, FreshLasts, WrittenNat DEF LossInv
<1>3. AllLasts
  <2>. SUFFICES ASSUME NEW z \in Names, NEW c \in Contents \ {0}, Good(z, c) PROVE c \in Hist' \/ Good(z, c)'
    BY DEF AllLasts, Lasts
  <2>1. CASE z = p
    BY <2>1
  <2>2. CASE z # p
    BY <1>1, <2>2, Elsewhere
  <2>. QED  BY <2>1, <2>2
<1>4. \A x \in Names : remote'[x] = remote[x] \/ (remote'[x].c = 0 /\ remote[x].c \in Hist' \cup {0})
  BY NoOpHas DEF Same4
<1>5. ASSUME NEW q \in Names \ {p} PROVE OpOK(q)'
  <2>1. ASSUME NEW x \in ops[q].other
        PROVE  \/ remote'[x] = remote[x]
               \/ remote'[x].c = 0 /\ \A c \in Contents \ {0} : c = remote[x].c => Safe(c, Near(ops[q], q))'
    <3>1. x \in Names
      BY <1>0, OpContents
    <3>. QED  BY <1>4, <3>1 DEF Safe
  <2>. QED  BY <1>3, <2>1, OpStill
<1>6. OpOK(p)'
  <2>1. ops[p].step \notin {"listed", "seen", "looked"} /\ OpOK(p)
    BY <1>0, NoOpHas DEF LossInv, Stages, Phases, PhaseIs, Acting, TypeOK, OpsOK
  <2>2. (\A c : Past(c) => Past(c)') /\ Past(0)'
    BY DEF Past, HistGrows
  <2>3. ops[p].other \subseteq Names
    BY <1>0, OpContents
  <2>4. \A x \in Names : remote'[x].c \in {0, remote[x].c}
    BY <1>4
  <2>6. base'[p].l = Never \/ base'[p].l \in Hist' \cup {0}
    OBVIOUS
  <2>7. PlanOK(p)'
    <3>1. Plans(ops[p], {"deleteLocal"}) /\ remote'[p].c = ops[p].l => Past(ops[p].l)'
      BY <2>1, <2>2, <2>4 DEF OpOK, PlanOK
    <3>2. Plans(ops[p], {"moveLocal"}) => \A x \in ops[p].other : remote'[x].c = ops[p].l => Past(ops[p].l)'
      BY <2>1, <2>2, <2>3, <2>4 DEF OpOK, PlanOK
    <3>. QED  BY <2>6, <3>1, <3>2 DEF PlanOK, Past
  <2>8. MoveOK(p)'
    <3>1. CASE Plans(ops[p], {"moveRemote"})
      <4>1. \A y \in Near(ops[p], p) : remote[y].c = ops[p].r.c =>
              \/ ops[p].r.c = 0 \/ remote'[y].c = remote[y].c
              \/ Safe(ops[p].r.c, Near(ops[p], p))'
        BY <1>4, <2>3 DEF Near, Safe
      <4>. QED  BY <1>0, <1>3, <2>1, <3>1, <4>1, MoveLasts DEF OpOK
    <3>2. CASE ~Plans(ops[p], {"moveRemote"})
      BY <3>2 DEF MoveOK
    <3>. QED  BY <3>1, <3>2
  <2>9. CarryOK(p)'
    BY <2>1, <2>2, <2>4 DEF OpOK, CarryOK
  <2>. QED  BY <2>1, <2>7, <2>8, <2>9 DEF OpOK, ListOK, LookOK
<1>. QED  BY <1>1, <1>2, <1>3, <1>5, <1>6, StepLoss

\* Mine: theirs is on record.
LEMMA ChooseMineLoss ==
  ASSUME LossInv, SyncInv', NEW p \in Names, ChooseMine(p)
  PROVE  LossInv'
<1>0. SyncInv /\ TypeOK
  BY DEF LossInv, SyncInv
<1>. DEFINE s == IF remote[p].sum THEN remote[p].c ELSE 0
            row == [l |-> Never, etag |-> remote[p].etag, id |-> remote[p].id, sha |-> s, key |-> 0]
<1>1. /\ HistGrows /\ written' = written /\ phase' = phase /\ ops' = ops /\ phase \notin {"listed", "asking"}
      /\ local' = local /\ remote[p].c \in Hist' \cup {0}
  BY DEF ChooseMine, Choose, HistGrows, Hist, Forget, disk
<1>2. base' = [base EXCEPT ![p] = row] \/ base' = [base EXCEPT ![p] = NoRow]
  BY DEF ChooseMine, Record
<1>3. base'[p] \in {row, NoRow} /\ \A q \in Names \ {p} : base'[q] = base[q]
  <2>. HIDE DEF row
  <2>. QED  BY <1>0, <1>2 DEF TypeOK
<1>4. base'[p].l \in {0, Never} /\ {base'[p].key, base'[p].sha} \subseteq {0, remote[p].c}
  BY <1>3 DEF NoRow
<1>. HIDE DEF s, row
<1>5. remote'[p] \in {remote[p], Gone} /\ \A q \in Names \ {p} : remote'[q] = remote[q]
  BY <1>0 DEF ChooseMine, TypeOK
<1>6. \A q \in Names \ {p} : Same4(q)
  BY <1>1, <1>3, <1>5 DEF Same4
<1>7. local[p] # Never
  BY <1>0, Here, Numbers
<1>8. NotBack(p)'
  BY <1>1, <1>4, <1>7 DEF NotBack, Past
<1>9. ASSUME NEW c \in Contents \ {0}, Good(p, c) PROVE c \in Hist' \/ Good(p, c)'
  <2>1. CASE remote[p].c = c
    BY <1>1, <2>1
  <2>2. CASE remote[p].c # c
    <3>1. NewHere(p, c)
      BY <1>9, <2>2 DEF Good, NewThere, OnBoth
    <3>2. NewHere(p, c)'
      BY <1>1, <1>4, <1>7, <3>1 DEF NewHere, HereNew
    <3>. QED  BY <3>2 DEF Good
  <2>. QED  BY <2>1, <2>2
<1>. QED  BY <1>1, <1>4, <1>5, <1>6, <1>8, <1>9, ChoiceStep

\* Theirs: mine is on record.
LEMMA ChooseTheirsLoss ==
  ASSUME LossInv, SyncInv', NEW p \in Names, ChooseTheirs(p)
  PROVE  LossInv'
<1>0. SyncInv /\ TypeOK
  BY DEF LossInv, SyncInv
<1>. DEFINE row == [l |-> local[p], etag |-> 0, id |-> remote[p].id, sha |-> 0, key |-> 0]
<1>1. /\ HistGrows /\ written' = written /\ phase' = phase /\ ops' = ops /\ phase \notin {"listed", "asking"}
      /\ remote' = remote /\ local[p] \in Hist' \cup {0}
  BY DEF ChooseTheirs, Choose, HistGrows, Hist, Forget
<1>2. base' = [base EXCEPT ![p] = row] \/ base' = [base EXCEPT ![p] = NoRow]
  BY DEF ChooseTheirs, Record
<1>3. base'[p] \in {row, NoRow} /\ \A q \in Names \ {p} : base'[q] = base[q]
  <2>. HIDE DEF row
  <2>. QED  BY <1>0, <1>2 DEF TypeOK
<1>4. base'[p].l \in {0, local[p]} /\ base'[p].key = 0 /\ base'[p].sha = 0 /\ base'[p].etag = 0
  BY <1>3 DEF NoRow
<1>. HIDE DEF row
<1>5. local'[p] \in {0, local[p]} /\ \A q \in Names \ {p} : local'[q] = local[q]
  BY <1>0 DEF ChooseTheirs, TypeOK
<1>6. \A q \in Names \ {p} : Same4(q)
  BY <1>1, <1>3, <1>5 DEF Same4
<1>8. NotBack(p)'
  BY <1>1, <1>5 DEF NotBack, Past
<1>9. ASSUME NEW c \in Contents \ {0}, Good(p, c) PROVE c \in Hist' \/ Good(p, c)'
  <2>1. CASE local[p] = c
    BY <1>1, <2>1
  <2>2. CASE local[p] # c
    <3>1. NewThere(p, c) /\ remote[p].etag # 0
      BY <1>0, <1>9, <2>2, OneContent DEF Good, NewHere, OnBoth, NewThere
    <3>2. NewThere(p, c)'
      BY <1>1, <1>4, <2>2, <3>1 DEF NewThere, ThereNew
    <3>. QED  BY <3>2 DEF Good
  <2>. QED  BY <2>1, <2>2
<1>. QED  BY <1>1, <1>4, <1>5, <1>6, <1>8, <1>9, ChoiceStep

\* No pass is on: the choice is one.
LEMMA ChooseBothLoss ==
  ASSUME LossInv, SyncInv', NEW p \in Names, ChooseBoth(p), "statFails" \notin Happens
  PROVE  LossInv'
<1>0. SyncInv /\ TypeOK
  BY DEF LossInv, SyncInv
<1>1. /\ HistGrows /\ written' = written /\ phase = "idle" /\ phase' = "apply"
      /\ local' = local /\ remote' = remote /\ base' = base
  BY DEF ChooseBoth, Choose, HistGrows, Hist, disk
<1>2. \A q \in Names : ops[q] = NoOp
  BY <1>1 DEF LossInv, Stages, Phases, PhaseIs
<1>. DEFINE op == [NoOp EXCEPT !.kind = "both", !.r = remote[p], !.l = local[p]]
            g == [Gone EXCEPT !.c = local[p]]
            n == IF HasL(p) /\ HasR(p) THEN [op EXCEPT !.got = remote[p], !.step = "compared"]
                 ELSE IF HasL(p) THEN [op EXCEPT !.got = g, !.step = "read"]
                 ELSE IF HasR(p) THEN [op EXCEPT !.got = remote[p], !.step = "fetched"]
                 ELSE [op EXCEPT !.step = "deleted"]
<1>3. ops' = [ops EXCEPT ![p] = n]
  BY DEF ChooseBoth, Answers
<1>4. n.kind = "both" /\ n.l = local[p] /\ n.r = remote[p] /\ n.got.c \in {0, local[p], remote[p].c}
      /\ n.step \in {"compared", "read", "fetched", "deleted"}
      /\ (n.step = "compared" => n.got.c = remote[p].c)
      /\ (n.step = "read" => remote[p].c = 0)
      /\ (n.step = "fetched" => local[p] = 0 /\ n.got.c = remote[p].c)
  BY DEF NoOp, Gone, HasL, HasR
<1>. HIDE DEF op, g, n
<1>5. ops'[p] = n /\ \A q \in Names \ {p} : ops'[q] = NoOp
  BY <1>0, <1>2, <1>3 DEF TypeOK
<1>6. \A q \in Names : ~Moving(ops'[q])
  BY <1>4, <1>5, NoOpHas DEF Moving, MoveKinds
<1>7. Stages' /\ SentLess
  <2>1. \A q \in Names : PhaseIs(ops'[q], phase')
    BY <1>1, <1>4, <1>5, NoOpHas DEF PhaseIs, Acting
  <2>. QED  BY <1>6, <2>1 DEF Stages, Phases, MoveIs, SentLess, Sent, Plans, Moving, MoveKinds
<1>8. Fresh'
  <2>1. ASSUME NEW q \in Names PROVE Used(q)' \subseteq InUse \cup {0, Never, written}
    BY <1>1, <1>4, <1>5, InUseHas, NoOpHas DEF Used
  <2>. QED  BY <1>0, <1>1, <2>1, FreshLasts, WrittenNat DEF LossInv
<1>9. ASSUME NEW z \in Names, NEW c \in Contents \ {0}, Good(z, c) PROVE Good(z, c)'
  <2>1. CASE z # p
    BY <1>1, <1>2, <1>5, <1>7, <1>9, <2>1, Elsewhere DEF Same4
  <2>2. CASE z = p /\ OnBoth(p, c)
    BY <1>1, <2>2 DEF Good, OnBoth
  <2>3. CASE z = p /\ NewHere(p, c) /\ remote[p].c # c
    <3>1. ~SeenHere(n, c)
      BY <1>4, <2>3 DEF SeenHere, Plans, NewHere
    <3>2. NewHere(p, c)'
      BY <1>1, <1>5, <1>7, <2>3, <3>1 DEF NewHere, HereNew, SentLess
    <3>. QED  BY <2>3, <3>2 DEF Good
  <2>4. CASE z = p /\ NewThere(p, c)
    <3>1. ~SeenThere(n, remote[p])
      BY <1>4, <2>4 DEF SeenThere, Plans, NewThere
    <3>2. NewThere(p, c)'
      BY <1>1, <1>5, <2>4, <3>1 DEF NewThere, ThereNew
    <3>. QED  BY <2>4, <3>2 DEF Good
  <2>. QED  BY <1>9, <2>1, <2>2, <2>3, <2>4 DEF Good, NewHere, OnBoth
<1>10. AllLasts
  BY <1>9 DEF AllLasts, Lasts
<1>11. ASSUME NEW q \in Names PROVE OpOK(q)'
  <2>1. CASE q # p
    BY <1>5, <2>1, NoOpHas DEF OpOK, ListOK, LookOK, PlanOK, MoveOK, CarryOK, Plans
  <2>2. CASE q = p
    <3>1. CarryOK(p)'
      BY <1>1, <1>4, <1>5 DEF CarryOK, Past
    <3>. QED  BY <1>4, <1>5, <2>2, <3>1 DEF OpOK, ListOK, LookOK, PlanOK, MoveOK, Plans
  <2>. QED  BY <2>1, <2>2
<1>. QED  BY <1>1, <1>7, <1>8, <1>10, <1>11, StepLoss

-----------------------------------------------------------------------------
(* A scan *)

\* A step that only looks.
LEMMA ScanStep ==
  ASSUME LossInv, SyncInv', local' = local, remote' = remote, base' = base, bin' = bin, written' = written,
         superseded' = superseded, raced' = raced,
         \A q \in Names :
           /\ PhaseIs(ops'[q], phase')
           /\ ops'[q].kind = "none" /\ ops'[q].got = Gone
           /\ ops'[q].step \in {"none", "listed", "look", "looked", "seen"}
           /\ \/ ops'[q] = ops[q]
              \/ /\ ops'[q].r.c \in {0, remote[q].c} /\ ops'[q].l \in {0, ops[q].l, local[q]}
                 /\ ops'[q].step \in {"listed", "seen"} => ops'[q].r.c = remote[q].c
                 /\ LookOK(q)'
  PROVE  LossInv'
<1>0. SyncInv /\ TypeOK
  BY DEF LossInv, SyncInv
<1>1. HistGrows /\ \A c : Past(c) => Past(c)'
  BY DEF HistGrows, Hist, Past
<1>2. \A q \in Names : ~Moving(ops'[q])
  BY DEF Moving, MoveKinds
<1>3. Stages' /\ SentLess
  BY <1>2 DEF Stages, Phases, MoveIs, SentLess, Sent, Plans, Moving, MoveKinds
<1>4. Fresh'
  <2>1. ASSUME NEW q \in Names PROVE Used(q)' \subseteq InUse \cup {0, Never, written}
    <3>1. CASE ops'[q] = ops[q]
      BY <3>1, InUseHas DEF Used
    <3>2. CASE ops'[q].r.c \in {0, remote[q].c} /\ ops'[q].l \in {0, ops[q].l, local[q]}
      BY <3>2, InUseHas, NoOpHas DEF Used
    <3>. QED  BY <3>1, <3>2
  <2>. QED  BY <1>0, <2>1, FreshLasts, WrittenNat DEF LossInv
<1>5. \A q \in Names : ~SeenThere(ops'[q], remote[q])
  BY DEF SeenThere, Plans
<1>6. ASSUME NEW z \in Names, NEW c, NewThere(z, c) PROVE NewThere(z, c)'
  BY <1>5, <1>6 DEF NewThere, ThereNew
<1>7. ASSUME NEW z \in Names, NEW c \in Contents \ {0}, Good(z, c) PROVE Good(z, c)'
  <2>1. CASE ops'[z] = ops[z]
    BY <1>3, <1>7, <2>1, Elsewhere DEF Same4
  <2>2. CASE NewThere(z, c) \/ OnBoth(z, c)
    BY <1>6, <2>2 DEF Good, OnBoth
  <2>3. CASE NewHere(z, c) /\ ~OnBoth(z, c) /\ ops'[z] # ops[z]
    <3>1. ~SeenHere(ops'[z], c)
      BY <2>3 DEF SeenHere, Plans, OnBoth, NewHere
    <3>. QED  BY <1>3, <2>3, <3>1 DEF Good, NewHere, HereNew, SentLess
  <2>. QED  BY <1>7, <2>1, <2>2, <2>3 DEF Good
<1>8. AllLasts
  BY <1>7 DEF AllLasts, Lasts
<1>9. ASSUME NEW q \in Names PROVE OpOK(q)'
  <2>1. PlanOK(q)' /\ MoveOK(q)' /\ CarryOK(q)'
    BY DEF PlanOK, MoveOK, CarryOK, Plans
  <2>2. CASE ops'[q] = ops[q]
    <3>1. OpOK(q)
      BY DEF LossInv, OpsOK
    <3>2. ListOK(q)'
      BY <1>1, <1>6, <2>2, <3>1 DEF OpOK, ListOK
    <3>3. LookOK(q)'
      BY <1>1, <2>2, <3>1 DEF OpOK, LookOK, NotBack
    <3>. QED  BY <2>1, <3>2, <3>3 DEF OpOK
  <2>3. CASE ops'[q] # ops[q]
    <3>1. ops'[q].step \in {"listed", "seen"} => ops'[q].r.c = remote[q].c
      BY <2>3
    <3>2. ListOK(q)'
      BY <3>1 DEF ListOK, Past
    <3>. QED  BY <2>1, <2>3, <3>2 DEF OpOK
  <2>. QED  BY <2>2, <2>3
<1>. QED  BY <1>1, <1>3, <1>4, <1>8, <1>9, StepLoss

\* Listing, asking for names, giving up, ending, crashing.
LEMMA ScanLoss ==
  ASSUME LossInv, SyncInv',
         \/ List \/ (\E S \in Scopes : SyncPaths(S)) \/ (\E p \in Names : LookAt(p) \/ AskFor(p))
         \/ ScanFails \/ EndPass \/ Crash
  PROVE  LossInv'
<1>0. SyncInv /\ TypeOK
  BY DEF LossInv, SyncInv
<1>1. /\ local' = local /\ remote' = remote /\ base' = base /\ bin' = bin /\ written' = written
      /\ superseded' = superseded /\ raced' = raced
  BY DEF List, SyncPaths, LookAt, AskFor, ScanFails, EndPass, Crash, disk, user
<1>2. CASE List
  <2>. DEFINE n(q) == [NoOp EXCEPT !.step = "listed", !.r = remote[q]]
  <2>1. phase' = "listed" /\ \A q \in Names : ops'[q] = n(q)
    BY <1>2 DEF List
  <2>2. \A q \in Names : n(q).step = "listed" /\ n(q).kind = "none" /\ n(q).r = remote[q] /\ n(q).l = 0
                         /\ n(q).got = Gone /\ n(q).other = {}
    BY DEF NoOp
  <2>. HIDE DEF n
  <2>3. \A q \in Names : PhaseIs(ops'[q], phase') /\ LookOK(q)'
    BY <2>1, <2>2 DEF PhaseIs, JustListed, LookOK
  <2>. QED  BY <1>1, <2>1, <2>2, <2>3, ScanStep
<1>3. ASSUME NEW S \in Scopes, SyncPaths(S) PROVE LossInv'
  <2>. DEFINE n == [NoOp EXCEPT !.step = "look"]
  <2>1. phase' = "asking" /\ \A q \in Names : ops'[q] \in {n, NoOp}
    BY <1>3 DEF SyncPaths
  <2>2. n.step = "look" /\ n.kind = "none" /\ n.r = Gone /\ n.l = 0 /\ n.got = Gone /\ n.other = {}
    BY DEF NoOp
  <2>. HIDE DEF n
  <2>3. ASSUME NEW q \in Names
        PROVE  /\ ops'[q].step \in {"look", "none"} /\ ops'[q].kind = "none" /\ ops'[q].r = Gone /\ ops'[q].l = 0
               /\ ops'[q].got = Gone /\ PhaseIs(ops'[q], phase')
    BY <2>1, <2>2, NoOpHas DEF PhaseIs, Asked
  <2>4. \A q \in Names : LookOK(q)'
    BY <2>3 DEF LookOK
  <2>. QED  BY <1>1, <2>3, <2>4, ScanStep, NoOpHas
<1>4. ASSUME NEW p \in Names, LookAt(p) PROVE LossInv'
  <2>. DEFINE n == [ops[p] EXCEPT !.step = "looked", !.l = local[p]]
  <2>1. phase' = phase /\ ops[p].step = "look" /\ ops' = [ops EXCEPT ![p] = n]
    BY <1>4 DEF LookAt, user
  <2>2. n.step = "looked" /\ n.kind = ops[p].kind /\ n.r = ops[p].r /\ n.l = local[p] /\ n.got = ops[p].got
        /\ n.other = ops[p].other
    BY <1>0 DEF TypeOK, Op
  <2>. HIDE DEF n
  <2>3. ops'[p] = n /\ \A q \in Names \ {p} : ops'[q] = ops[q]
    BY <1>0, <2>1 DEF TypeOK
  <2>4. phase = "asking"
    BY <1>0, <2>1, NoOpHas DEF LossInv, Stages, Phases, PhaseIs, JustListed, Acting, TypeOK
  <2>5. \A q \in Names : PhaseIs(ops[q], phase) /\ Asked(ops[q])
    BY <2>4 DEF LossInv, Stages, Phases, PhaseIs
  <2>6. PhaseIs(n, phase) /\ n.kind = "none" /\ n.got = Gone /\ n.r.c = 0
    BY <2>1, <2>2, <2>4, <2>5, NoOpHas DEF PhaseIs, Asked
  <2>7. LookOK(p)'
    BY <1>1, <2>2, <2>3 DEF LookOK, NotBack
  <2>. QED  BY <1>1, <2>1, <2>2, <2>3, <2>5, <2>6, <2>7, ScanStep DEF Asked
<1>5. ASSUME NEW p \in Names, AskFor(p) PROVE LossInv'
  <2>. DEFINE f == [remote[p] EXCEPT !.sum = FALSE]
              n == [ops[p] EXCEPT !.step = "seen", !.r = f]
  <2>1. phase' = phase /\ ops[p].step = "looked" /\ ops' = [ops EXCEPT ![p] = n]
    BY <1>5 DEF AskFor, user
  <2>2. f.c = remote[p].c
    BY <1>0 DEF TypeOK, File
  <2>. HIDE DEF f
  <2>3. n.step = "seen" /\ n.kind = ops[p].kind /\ n.r = f /\ n.l = ops[p].l /\ n.got = ops[p].got
        /\ n.other = ops[p].other
    BY <1>0 DEF TypeOK, Op
  <2>. HIDE DEF n
  <2>4. ops'[p] = n /\ \A q \in Names \ {p} : ops'[q] = ops[q]
    BY <1>0, <2>1 DEF TypeOK
  <2>5. phase = "asking"
    BY <1>0, <2>1, NoOpHas DEF LossInv, Stages, Phases, PhaseIs, JustListed, Acting, TypeOK
  <2>6. \A q \in Names : PhaseIs(ops[q], phase) /\ Asked(ops[q])
    BY <2>5 DEF LossInv, Stages, Phases, PhaseIs
  <2>7. PhaseIs(n, phase) /\ n.kind = "none" /\ n.got = Gone
    BY <2>1, <2>3, <2>5, <2>6, NoOpHas DEF PhaseIs, Asked
  <2>8. LookOK(p)'
    <3>1. LookOK(p)
      BY DEF LossInv, OpsOK, OpOK
    <3>. QED  BY <1>1, <2>1, <2>3, <2>4, <3>1 DEF LookOK, NotBack, Past, Hist
  <2>. QED  BY <1>1, <2>1, <2>2, <2>3, <2>4, <2>6, <2>7, <2>8, ScanStep DEF Asked
<1>6. CASE ScanFails \/ EndPass \/ Crash
  <2>1. phase' = "idle" /\ \A q \in Names : ops'[q] = NoOp
    BY <1>6 DEF ScanFails, EndPass, Crash
  <2>2. \A q \in Names : PhaseIs(ops'[q], phase') /\ LookOK(q)'
    BY <2>1, NoOpHas DEF PhaseIs, LookOK
  <2>. QED  BY <1>1, <2>1, <2>2, ScanStep, NoOpHas
<1>. QED  BY <1>2, <1>3, <1>4, <1>5, <1>6

-----------------------------------------------------------------------------
(* The plan *)

\* What the diff must have found for each of its actions.
LEMMA DiffSays ==
  ASSUME NEW v, NEW p
  PROVE  /\ Planned(v, p) = "download" => v.l[p] = 0 \/ v.l[p] = base[p].l
         /\ Planned(v, p) = "deleteLocal" => v.r[p] = Gone /\ HasB(p) /\ v.l[p] = base[p].l
         /\ Planned(v, p) = "deleteRemote" => v.l[p] = 0 /\ HasB(p) /\ v.r[p].etag = base[p].etag
         /\ Planned(v, p) = "upload" =>
              /\ v.l[p] # 0 /\ (~HasB(p) \/ v.l[p] # base[p].l)
              /\ v.r[p] = Gone \/ v.r[p].etag = base[p].etag \/ v.r[p].c \in {base[p].sha, base[p].key}
BY DEF Planned, Classify, Both, RemoteOnly, LocalOnly, LocalChanged, RemoteChanged, SameContent

\* One file here has one new name.
LEMMA TwoMoves ==
  ASSUME NEW v, NEW M \in Matchings(v), NEW p, NEW q, NEW x, NEW y, << x, p >> \in M, << y, q >> \in M,
         Planned(v, p) = "upload", Planned(v, q) = "upload", v.l[p] = v.l[q]
  PROVE  p = q
<1>1. SameKey(v, << x, p >>[2], << y, q >>[2])
  BY DEF SameKey
<1>2. << x, p >> = << y, q >>
  BY <1>1 DEF Matchings
<1>. QED  BY <1>2

\* Whatever renames are matched, the plan does to each name what it may.
LEMMA PlanLoss ==
  ASSUME LossInv, SyncInv', Look \/ LookDelta \/ PlanPaths
  PROVE  LossInv'
<1>0. SyncInv /\ TypeOK
  BY DEF LossInv, SyncInv
<1>1. PICK N \in SUBSET Names, l \in [Names -> Contents], h \in BOOLEAN :
           /\ Decide([names |-> N, l |-> l, r |-> Listed, hashes |-> h])
           /\ \/ phase = "listed" /\ l = local
              \/ /\ phase = "asking" /\ \A p \in Names : ops[p].step \in {"none", "seen"} /\ l[p] = ops[p].l
                 /\ N = {p \in Names : ops[p].step = "seen"}
  BY <1>0, Views
<1>. DEFINE v == [names |-> N, l |-> l, r |-> Listed, hashes |-> h]
<1>2. v.names = N /\ v.l = l /\ v.r = Listed /\ Decide(v)
  BY <1>1
<1>3. \A p \in Names : v.r[p] = ops[p].r
  BY <1>2 DEF Listed
<1>4. Listed \in [Names -> File]
  BY <1>0, ListedType
<1>. HIDE DEF v
<1>5. PICK M \in Matchings(v) : ops' = Plan(v, M)
  BY <1>2 DEF Decide
<1>6. /\ local' = local /\ remote' = remote /\ bin' = bin /\ written' = written /\ superseded' = superseded /\ raced' = raced
      /\ phase' = IF \E p \in Names : ops'[p] # NoOp THEN "apply" ELSE "idle"
  BY <1>2 DEF Decide, user
<1>7. HistGrows /\ \A c : Past(c) => Past(c)'
  BY <1>6 DEF HistGrows, Hist, Past
<1>8. \A q \in Names : base'[q] = base[q] \/ (base'[q] = NoRow /\ l[q] = 0)
  BY <1>2 DEF Decide
<1>9. NoRow.l = 0 /\ NoRow.key = 0 /\ NoRow.sha = 0 /\ NoRow.etag = 0
  BY DEF NoRow
<1>10. ASSUME NEW q \in N
       PROVE  ops[q].step \in {"listed", "seen"} /\ (l[q] = base[q].l \/ NotBack(q)) /\ l[q] \in InUse
  <2>1. CASE phase = "listed" /\ l = local
    <3>1. ops[q].step = "listed"
      BY <2>1 DEF LossInv, Stages, Phases, PhaseIs, JustListed
    <3>. QED  BY <2>1, <3>1, InUseHas DEF NotBack
  <2>2. CASE ops[q].step = "seen" /\ l[q] = ops[q].l
    <3>1. LookOK(q)
      BY DEF LossInv, OpsOK, OpOK
    <3>. QED  BY <2>2, <3>1, InUseHas DEF LookOK
  <2>. QED  BY <1>1, <2>1, <2>2
\* The three kinds of action a name may have.
<1>. DEFINE Straight(q) == /\ q \in N /\ Planned(v, q) \notin MoveKinds \cup {"none"}
                           /\ ops'[q].kind = Planned(v, q) /\ ops'[q].step = "planned" /\ ops'[q].r = ops[q].r
                           /\ ops'[q].l = l[q] /\ ops'[q].got = Gone /\ ops'[q].other = {}
            From(q, x) == /\ q \in N /\ x \in N \ {q} /\ << x, q >> \in M /\ Moves(v, x, q) /\ ops'[x] = NoOp
                          /\ ops'[q].step = "planned" /\ ops'[q].got = Gone /\ ops'[q].other = {x}
            Hither(q, x) == /\ From(q, x) /\ Planned(v, q) = "download" /\ ops'[q].kind = "moveLocal"
                            /\ ops'[q].r = ops[q].r /\ ops'[q].l = l[x]
            Thither(q, x) == /\ From(q, x) /\ Planned(v, q) = "upload" /\ ops'[q].kind = "moveRemote"
                             /\ ops'[q].r = ops[x].r /\ ops'[q].l = l[q]
<1>11. ASSUME NEW q \in Names
       PROVE  ops'[q] = NoOp \/ Straight(q) \/ \E x \in N : Hither(q, x) \/ Thither(q, x)
  <2>1. CASE Plan(v, M)[q] = NoOp
    BY <1>5, <2>1
  <2>2. CASE q \in v.names /\ Planned(v, q) # "none" /\ Plan(v, M)[q] = Direct(v, q)
    <3>1. Planned(v, q) \notin MoveKinds
      BY Classified DEF Planned, MoveKinds
    <3>. QED  BY <1>2, <1>3, <1>5, <2>2, <3>1 DEF Direct
  <2>3. ASSUME NEW x \in v.names \ {q}, q \in v.names, Moves(v, x, q), << x, q >> \in M, Plan(v, M)[x] = NoOp
        PROVE  /\ Planned(v, q) = "download" /\ Plan(v, M)[q] = MovedHere(v, x, q) => Hither(q, x)
               /\ Planned(v, q) = "upload" /\ Plan(v, M)[q] = MovedThere(v, x, q) => Thither(q, x)
    <3>1. x \in N /\ x # q /\ q \in N /\ x \in Names
      BY <1>2, <2>3
    <3>. QED  BY <1>2, <1>3, <1>5, <2>3, <3>1 DEF MovedHere, MovedThere
  <2>4. v.names \subseteq Names /\ v.l \in [Names -> Contents] /\ v.r \in [Names -> File] /\ v.names = N
    BY <1>2, <1>4
  <2>. HIDE DEF Straight, From, Hither, Thither
  <2>5. CASE \E x \in v.names \ {q} :
               /\ q \in v.names /\ Moves(v, x, q) /\ << x, q >> \in M /\ Plan(v, M)[x] = NoOp
               /\ \/ /\ Planned(v, q) = "download"
                     /\ Plan(v, M)[q] = MovedHere(v, x, q)
                  \/ /\ Planned(v, q) = "upload"
                     /\ Plan(v, M)[q] = MovedThere(v, x, q)
    BY <2>3, <2>4, <2>5
  <2>. QED  BY <2>1, <2>2, <2>4, <2>5, PlanIs
<1>12. \A q \in Names, x \in N : Hither(q, x) => Planned(v, x) = "deleteLocal"
  BY DEF Moves
<1>13. \A q \in Names, x \in N : Thither(q, x) => Planned(v, x) = "deleteRemote"
  BY DEF Moves
<1>14. \A q \in Names : ops'[q] = NoOp \/ ops'[q].step = "planned"
  BY <1>11
<1>15. \A q \in Names : Moving(ops'[q]) => \E x \in N : Hither(q, x) \/ Thither(q, x)
  BY <1>11, NoOpHas DEF Moving
<1>16. Stages'
  <2>1. ASSUME NEW q \in Names PROVE PhaseIs(ops'[q], phase')
    BY <1>6, <1>14, NoOpHas DEF PhaseIs, Acting
  <2>2. ASSUME NEW q \in Names, Moving(ops'[q]) PROVE MoveIs(q, ops')
    <3>1. PICK x \in N : Hither(q, x) \/ Thither(q, x)
      BY <1>15, <2>2
    <3>2. ASSUME NEW p \in Names \ {q}, ops'[q].kind = "moveRemote", ops'[p].kind = "moveRemote"
          PROVE  ops'[q].l # ops'[p].l
      <4>1. PICK y \in N : Hither(p, y) \/ Thither(p, y)
        BY <1>15, <3>2 DEF Moving, MoveKinds
      <4>2. Thither(p, y) /\ Thither(q, x)
        BY <3>1, <3>2, <4>1
      <4>3. << x, q >> \in M /\ << y, p >> \in M /\ Planned(v, p) = "upload" /\ Planned(v, q) = "upload"
            /\ ops'[p].l = v.l[p] /\ ops'[q].l = v.l[q]
        BY <1>2, <4>2
      <4>. HIDE DEF Straight, From, Hither, Thither
      <4>. QED  BY <3>2, <4>3, TwoMoves
    <3>3. ops'[q].other = {x} /\ x # q /\ ops'[x] = NoOp
      BY <3>1
    <3>. HIDE DEF Straight, From, Hither, Thither
    <3>. QED  BY <1>14, <3>2, <3>3 DEF MoveIs
  <2>. QED  BY <2>1, <2>2 DEF Stages, Phases, MoveIs
<1>17. Fresh'
  <2>1. ASSUME NEW q \in Names PROVE Used(q)' \subseteq InUse \cup {0, Never, written}
    <3>1. {base'[q].l, base'[q].key, base'[q].sha} \subseteq InUse \cup {0}
      BY <1>8, <1>9, InUseHas
    <3>2. CASE ops'[q] = NoOp
      BY <1>6, <3>1, <3>2, InUseHas, NoOpHas DEF Used
    <3>3. CASE Straight(q)
      BY <1>6, <1>10, <3>1, <3>3, InUseHas, NoOpHas DEF Used
    <3>4. ASSUME NEW x \in N, Hither(q, x) \/ Thither(q, x) PROVE Used(q)' \subseteq InUse \cup {0, Never, written}
      <4>1. /\ ops'[q].l \in {l[x], l[q]} /\ ops'[q].r.c \in {ops[x].r.c, ops[q].r.c} /\ ops'[q].got = Gone
            /\ q \in N /\ x \in Names
        BY <3>4
      <4>2. {ops'[q].l, ops'[q].r.c, ops'[q].got.c} \subseteq InUse \cup {0}
        BY <1>10, <4>1, InUseHas, NoOpHas
      <4>. QED  BY <1>6, <3>1, <4>2, InUseHas DEF Used
    <3>. QED  BY <1>11, <3>2, <3>3, <3>4
  <2>. QED  BY <1>0, <1>6, <2>1, FreshLasts, WrittenNat DEF LossInv
<1>18. ASSUME NEW z \in Names, NEW c \in Contents \ {0}, NewHere(z, c) PROVE NewHere(z, c)'
  <2>1. local[z] = c /\ c # base[z].l /\ ~SeenHere(ops[z], c)
    BY <1>18 DEF NewHere, HereNew
  <2>2. z \in N => c # ops[z].r.c
    BY <1>10, <2>1 DEF SeenHere
  <2>3. ~SeenHere(ops'[z], c)
    <3>1. CASE ops'[z] = NoOp
      BY <3>1, NoOpHas DEF SeenHere, Plans
    <3>2. CASE Straight(z)
      <4>1. ops'[z].kind \in {"download", "deleteLocal"} => ops'[z].l # c
        BY <1>2, <2>1, <3>2, DiffSays
      <4>. QED  BY <2>2, <3>2, <4>1 DEF SeenHere, Plans
    <3>3. ASSUME NEW x \in N, Hither(z, x) \/ Thither(z, x) PROVE ~SeenHere(ops'[z], c)
      BY <2>2, <3>3 DEF SeenHere, Plans
    <3>. QED  BY <1>11, <3>1, <3>2, <3>3
  <2>4. ~Sent(z, c, ops')
    <3>. SUFFICES ASSUME NEW p \in Names, Plans(ops'[p], {"moveLocal"}), z \in ops'[p].other, c = ops'[p].l PROVE FALSE
      BY DEF Sent
    <3>1. PICK x \in N : Hither(p, x)
      BY <1>15 DEF Plans, Moving, MoveKinds
    <3>2. x = z /\ c = l[z] /\ Planned(v, z) = "deleteLocal"
      BY <1>12, <3>1
    <3>. QED  BY <1>2, <2>1, <3>2, DiffSays
  <2>5. c # base'[z].l
    BY <1>8, <1>9, <2>1
  <2>. QED  BY <1>6, <2>1, <2>3, <2>4, <2>5 DEF NewHere, HereNew
<1>19. ASSUME NEW z \in Names, NEW c \in Contents \ {0}, NewThere(z, c) PROVE NewThere(z, c)'
  <2>1. remote[z].c = c /\ c \notin {base[z].l, base[z].key, base[z].sha} /\ remote[z].etag # base[z].etag
        /\ ~SeenThere(ops[z], remote[z]) /\ remote[z].etag # 0
    BY <1>0, <1>19, OneContent DEF NewThere, ThereNew
  <2>2. ~SeenThere(ops'[z], remote[z])
    <3>1. CASE ops'[z] = NoOp
      BY <3>1, NoOpHas DEF SeenThere, Plans
    <3>2. CASE Straight(z)
      <4>. SUFFICES ASSUME Planned(v, z) \in {"upload", "deleteRemote"}, remote[z].etag = ops[z].r.etag PROVE FALSE
        BY <3>2 DEF SeenThere, Plans
      <4>1. ops[z].r.c = c /\ ops[z].r # Gone
        BY <1>0, <2>1, OneContent, NoOpHas
      <4>. QED  BY <1>3, <2>1, <4>1, DiffSays
    <3>3. ASSUME NEW x \in N, Hither(z, x) \/ Thither(z, x) PROVE ~SeenThere(ops'[z], remote[z])
      BY <3>3 DEF SeenThere, Plans
    <3>. QED  BY <1>11, <3>1, <3>2, <3>3
  <2>3. c \notin {base'[z].l, base'[z].key, base'[z].sha} /\ remote[z].etag # base'[z].etag
    BY <1>8, <1>9, <2>1
  <2>. QED  BY <1>6, <2>1, <2>2, <2>3 DEF NewThere, ThereNew
<1>20. \A z \in Names, c \in Contents \ {0} : Good(z, c) => Good(z, c)'
  BY <1>6, <1>18, <1>19 DEF Good, OnBoth
<1>21. AllLasts
  BY <1>20 DEF AllLasts, Lasts
\* What a deletion here, or a rename here, was planned of is not the server's now.
<1>22. ASSUME NEW q \in N, Planned(v, q) = "deleteLocal", remote[q].c = l[q] PROVE Past(l[q])'
  <2>1. l[q] = base[q].l /\ ops[q].r.c = 0
    BY <1>2, <1>3, <1>22, DiffSays, NoOpHas
  <2>2. Past(l[q])
    BY <1>10, <1>22, <2>1 DEF LossInv, OpsOK, OpOK, ListOK
  <2>. QED  BY <1>7, <2>2
<1>23. ASSUME NEW q \in N, Planned(v, q) \in {"upload", "deleteRemote"} PROVE NotBack(q)'
  <2>1. CASE ~HasB(q)
    <3>1. base'[q].l = 0
      BY <1>8, <1>9, <2>1 DEF HasB
    <3>. QED  BY <1>6, <3>1 DEF NotBack, Past
  <2>2. CASE HasB(q)
    <3>1. base[q].l # 0
      BY <1>0, <2>2, Here, Numbers DEF RowIs, HasB, Never
    <3>2. l[q] # base[q].l
      BY <1>2, <1>23, <2>2, <3>1, DiffSays
    <3>3. NotBack(q)
      BY <1>10, <3>2
    <3>4. base'[q].l \in {base[q].l, 0}
      BY <1>8, <1>9
    <3>. QED  BY <1>6, <1>7, <3>3, <3>4 DEF NotBack, Past
  <2>. QED  BY <2>1, <2>2
<1>24. ASSUME NEW q \in Names PROVE OpOK(q)'
  <2>1. CASE ops'[q] = NoOp
    BY <2>1, NoOpHas DEF OpOK, ListOK, LookOK, PlanOK, MoveOK, CarryOK, Plans
  <2>2. CASE Straight(q)
    <3>1. PlanOK(q)'
      <4>1. Plans(ops'[q], {"deleteLocal"}) /\ remote'[q].c = ops'[q].l => Past(l[q])'
        BY <1>6, <1>22, <2>2 DEF Plans
      <4>2. Plans(ops'[q], {"upload", "deleteRemote"}) => NotBack(q)'
        BY <1>23, <2>2 DEF Plans
      <4>3. ~Plans(ops'[q], MoveKinds)
        BY <2>2 DEF Plans
      <4>4. ops'[q].l = l[q]
        BY <2>2
      <4>. HIDE DEF Straight
      <4>. QED  BY <4>1, <4>2, <4>3, <4>4 DEF PlanOK, Plans, MoveKinds, Past
    <3>. QED  BY <2>2, <3>1 DEF OpOK, ListOK, LookOK, MoveOK, CarryOK, Plans, MoveKinds
  <2>3. ASSUME NEW x \in N, Hither(q, x) \/ Thither(q, x) PROVE PlanOK(q)'
    <3>1. base'[q].l = 0
      BY <1>8, <1>9, <2>3 DEF Moves, HasB
    <3>2. Hither(q, x) => (remote'[x].c = l[x] => Past(l[x])')
      BY <1>6, <1>12, <1>22
    <3>3. CASE Hither(q, x)
      <4>1. ops'[q].l = l[x] /\ ops'[q].other = {x} /\ ops'[q].kind = "moveLocal"
        BY <3>3
      <4>2. remote'[x].c = l[x] => l[x] \in (Hist \cup {0})'
        BY <3>2, <3>3 DEF Past
      <4>. HIDE DEF Hither, Thither
      <4>. QED  BY <3>1, <4>1, <4>2 DEF PlanOK, Plans, Past
    <3>4. CASE Thither(q, x)
      <4>1. ops'[q].kind = "moveRemote"
        BY <3>4
      <4>. HIDE DEF Hither, Thither
      <4>. QED  BY <3>1, <4>1 DEF PlanOK, Plans, Past
    <3>. QED  BY <2>3, <3>3, <3>4
  <2>4. ASSUME NEW x \in N, Thither(q, x) PROVE MoveOK(q)'
    <3>1. ops'[q].r = ops[x].r /\ ops'[q].other = {x}
      BY <2>4
    <3>. HIDE DEF Straight, From, Hither, Thither
    <3>. PICK d \in Contents : d = ops[x].r.c
      BY <1>0, OpContents
    <3>2. CASE Past(d)
      BY <1>7, <3>1, <3>2 DEF MoveOK, Safe, Past
    <3>3. CASE d = remote[x].c
      BY <1>6, <3>1, <3>3 DEF MoveOK
    <3>4. ASSUME d # 0, NEW y \in Names \ {x}, NewThere(y, d) PROVE MoveOK(q)'
      <4>1. CASE y = q
        BY <1>6, <3>1, <3>4, <4>1 DEF MoveOK, NewThere
      <4>2. CASE y # q
        <5>1. Good(y, d)'
          BY <1>19, <3>4 DEF Good
        <5>2. Safe(d, {q, x})'
          BY <3>4, <4>2, <5>1 DEF Safe
        <5>. QED  BY <3>1, <5>2 DEF MoveOK, Near
      <4>. QED  BY <4>1, <4>2
    <3>. QED  BY <1>10, <3>2, <3>3, <3>4 DEF LossInv, OpsOK, OpOK, ListOK, Past
  <2>5. ASSUME NEW x \in N, Hither(q, x) \/ Thither(q, x) PROVE OpOK(q)'
    <3>1. ops'[q].step = "planned"
      BY <2>5
    <3>2. MoveOK(q)'
      <4>1. CASE Hither(q, x)
        BY <4>1 DEF MoveOK, Plans
      <4>. QED  BY <2>4, <2>5, <4>1
    <3>. HIDE DEF Straight, From, Hither, Thither
    <3>. QED  BY <2>3, <2>5, <3>1, <3>2 DEF OpOK, ListOK, LookOK, CarryOK
  <2>. QED  BY <1>11, <2>1, <2>2, <2>5
<1>. QED  BY <1>6, <1>7, <1>16, <1>17, <1>21, <1>24, StepLoss

-----------------------------------------------------------------------------
(* The user and the other clients *)

\* What the pass counts on at q still holds: what came here, or there, is not what the
\* pass or the row has, or it is on record; and what went from the server is elsewhere.
HereKept(q)  == local'[q] = local[q] \/ NotBack(q)'
ThereKept(q) == remote'[q].c \in Hist' \cup {0, remote[q].c} \/ remote'[q].c \notin KnownAt(q)
Carried(q)   == \A c \in Contents \ {0} : remote[q].c = c =>
  \/ c \in Hist'
  \/ remote'[q].c = c /\ (NewThere(q, c) => NewThere(q, c)')
  \/ \E y \in Names : NewThere(y, c)'

\* What KnownAt holds of the operations at a name or under way to it.
LEMMA KnownHas ==
  ASSUME NEW q \in Names, NEW w \in Names, q \in Near(ops[w], w)
  PROVE  ops[w].l \in KnownAt(q) /\ ops[w].r.c \in KnownAt(q) /\ ops[w].got.c \in KnownAt(q)
         /\ base[q].l \in KnownAt(q) /\ base[q].key \in KnownAt(q)
BY DEF KnownAt, Near

LEMMA KnownUsed == ASSUME NEW q \in Names PROVE KnownAt(q) \subseteq InUse
BY DEF KnownAt, InUse, Used

\* An operation still holds.
LEMMA WorldOp ==
  ASSUME LossInv, HistGrows, AllLasts, ops' = ops, base' = base,
         \A q \in Names : HereKept(q) /\ ThereKept(q) /\ Carried(q), NEW q \in Names
  PROVE  OpOK(q)'
<1>0. SyncInv /\ TypeOK /\ OpOK(q)
  BY DEF LossInv, SyncInv, OpsOK
<1>1. (\A c : Past(c) => Past(c)') /\ \A c : Past(c)' <=> c \in Hist' \cup {0}
  BY DEF Past, HistGrows
<1>2. NotBack(q) => NotBack(q)'
  BY <1>1 DEF HereKept, NotBack
<1>3. q \in Near(ops[q], q) /\ \A x \in ops[q].other : x \in Near(ops[q], q) /\ x \in Names
  BY <1>0, OpContents DEF Near
<1>4. \A x \in Near(ops[q], q) : \A c \in KnownAt(x) : remote'[x].c = c => c \in Hist' \cup {0} \/ remote[x].c = c
  BY <1>3 DEF ThereKept, Near
<1>5. ListOK(q)'
  <2>. SUFFICES ASSUME ops[q].step \in {"listed", "seen"} PROVE ListOK(q)'
    BY DEF ListOK
  <2>. PICK d \in Contents : d = ops[q].r.c
    BY <1>0, OpContents
  <2>1. d = 0 /\ remote'[q].c = base[q].l => Past(base[q].l)'
    <3>1. base[q].l \in KnownAt(q)
      BY <1>3, KnownHas
    <3>. QED  BY <1>0, <1>1, <1>3, <1>4, <3>1 DEF OpOK, ListOK
  <2>2. \/ Past(d)' \/ d = remote'[q].c
        \/ \E y \in Names \ {q} : NewThere(y, d)'
    <3>1. CASE Past(d)
      BY <1>1, <3>1
    <3>2. ASSUME d # 0, NEW z \in Names, remote[z].c = d, z = q \/ NewThere(z, d)
          PROVE  \/ Past(d)' \/ d = remote'[q].c
                 \/ \E y \in Names \ {q} : NewThere(y, d)'
      <4>1. CASE d \in Hist'
        BY <1>1, <4>1
      <4>2. CASE remote'[z].c = d /\ (NewThere(z, d) => NewThere(z, d)')
        BY <3>2, <4>2
      <4>3. ASSUME NEW y \in Names, NewThere(y, d)'
            PROVE  d = remote'[q].c \/ \E u \in Names \ {q} : NewThere(u, d)'
        BY <4>3 DEF NewThere
      <4>. QED  BY <3>2, <4>1, <4>2, <4>3 DEF Carried
    <3>. QED  BY <1>0, <3>1, <3>2 DEF OpOK, ListOK, Past, NewThere
  <2>. QED  BY <1>1, <2>1, <2>2 DEF ListOK
<1>6. LookOK(q)'
  BY <1>0, <1>2 DEF OpOK, LookOK
<1>7. PlanOK(q)'
  <2>1. \A x \in Near(ops[q], q) : ops[q].l \in KnownAt(x)
    BY <1>3, KnownHas DEF Near
  <2>2. Plans(ops[q], {"deleteLocal"}) /\ remote'[q].c = ops[q].l => Past(ops[q].l)'
    BY <1>0, <1>1, <1>3, <1>4, <2>1 DEF OpOK, PlanOK
  <2>3. Plans(ops[q], {"moveLocal"}) => \A x \in ops[q].other : remote'[x].c = ops[q].l => Past(ops[q].l)'
    BY <1>0, <1>1, <1>3, <1>4, <2>1 DEF OpOK, PlanOK
  <2>. QED  BY <1>0, <1>1, <1>2, <2>2, <2>3 DEF OpOK, PlanOK
<1>8. MoveOK(q)'
  <2>1. CASE Plans(ops[q], {"moveRemote"})
    <3>1. ASSUME NEW y \in Near(ops[q], q), remote[y].c = ops[q].r.c, ops[q].r.c # 0, remote'[y].c # remote[y].c
          PROVE  Safe(ops[q].r.c, Near(ops[q], q))' \/ MoveOK(q)'
      <4>. PICK d \in Contents \ {0} : d = ops[q].r.c
        BY <1>0, <3>1, OpContents
      <4>1. y \in Names
        BY <1>3 DEF Near
      <4>2. CASE d \in Hist'
        BY <4>2 DEF Safe
      <4>3. ASSUME NEW u \in Names, NewThere(u, d)' PROVE Safe(ops[q].r.c, Near(ops[q], q))' \/ MoveOK(q)'
        <5>1. CASE u \in Near(ops[q], q)
          BY <4>3, <5>1 DEF MoveOK, Near, NewThere
        <5>2. CASE u \notin Near(ops[q], q)
          BY <4>3, <5>2 DEF Safe, Good
        <5>. QED  BY <5>1, <5>2
      <4>. QED  BY <3>1, <4>1, <4>2, <4>3 DEF Carried
    <3>. QED  BY <1>0, <2>1, <3>1, MoveLasts DEF OpOK
  <2>2. CASE ~Plans(ops[q], {"moveRemote"})
    BY <2>2 DEF MoveOK
  <2>. QED  BY <2>1, <2>2
<1>9. CarryOK(q)'
  <2>1. ops[q].l \in KnownAt(q)
    BY <1>3, KnownHas
  <2>. QED  BY <1>0, <1>1, <1>2, <1>3, <1>4, <2>1 DEF OpOK, CarryOK
<1>. QED  BY <1>5, <1>6, <1>7, <1>8, <1>9 DEF OpOK

\* A step of the world keeps the invariant, if it keeps what the pass counts on.
LEMMA WorldLoss ==
  ASSUME LossInv, SyncInv', HistGrows, AllLasts, ops' = ops, base' = base, phase' = phase,
         \A q \in Names : HereKept(q) /\ ThereKept(q) /\ Carried(q),
         NEW n \in Contents, written' = n, n = written \/ (n = written + 1 /\ Safe(n, {})'),
         \A q \in Names : local'[q] \in InUse \cup {0, n} /\ remote'[q].c \in InUse \cup {0, n}
  PROVE  LossInv'
<1>0. SyncInv /\ TypeOK
  BY DEF LossInv, SyncInv
<1>1. Stages'
  BY DEF LossInv, Stages, Phases
<1>2. n \in Nat /\ written \in Nat /\ written <= n
  BY <1>0, WrittenNat, SyncAssumption DEF SyncAssumption, Contents
<1>3. Fresh'
  <2>1. ASSUME NEW q \in Names PROVE Used(q)' \subseteq InUse \cup {0, Never, n}
    BY InUseHas DEF Used
  <2>. QED  BY <1>0, <1>2, <2>1, FreshLasts DEF LossInv
<1>4. Covered'
  BY <1>0, CoveredLasts DEF LossInv
<1>5. OpsOK'
  BY WorldOp DEF OpsOK
<1>. QED  BY <1>1, <1>3, <1>4, <1>5 DEF LossInv

\* A new version is nowhere yet.
LEMMA NewIs ==
  ASSUME LossInv, Written, SyncInv'
  PROVE  written' \in Contents \ {0} /\ written' = written + 1 /\ written' \notin InUse
<1>1. TypeOK /\ written' = written + 1 /\ written' \in Contents
  BY DEF LossInv, SyncInv, Written, TypeOK
<1>2. written \in Nat
  BY <1>1, WrittenNat
<1>3. written + 1 \notin (0 .. written) \cup {Never}
  BY <1>2 DEF Never
<1>. QED  BY <1>1, <1>2, <1>3 DEF LossInv, Fresh

\* The user writes a file.
LEMMA SaveLoss ==
  ASSUME LossInv, SyncInv', NEW p \in Names, Save(p)
  PROVE  LossInv'
<1>0. SyncInv /\ TypeOK
  BY DEF LossInv, SyncInv
<1>1. remote' = remote /\ base' = base /\ phase' = phase /\ ops' = ops /\ HistGrows /\ local[p] \in Hist' \cup {0}
  BY DEF Save, HistGrows, Hist, Forget
<1>. PICK n \in Contents \ {0} : written' = n /\ n = written + 1 /\ n \notin InUse
  BY NewIs DEF Save
<1>2. local'[p] = n /\ \A q \in Names \ {p} : local'[q] = local[q]
  BY <1>0 DEF Save, TypeOK
<1>3. NewHere(p, n)'
  <2>1. n # base[p].l /\ ~SeenHere(ops[p], n)
    BY InUseHas DEF SeenHere
  <2>2. ~Sent(p, n, ops)
    BY InUseHas DEF Sent
  <2>. QED  BY <1>1, <1>2, <2>1, <2>2 DEF NewHere, HereNew
<1>4. AllLasts
  <2>. SUFFICES ASSUME NEW z \in Names, NEW c \in Contents \ {0}, Good(z, c) PROVE c \in Hist' \/ Good(z, c)'
    BY DEF AllLasts, Lasts
  <2>1. CASE local'[z] = local[z] \/ NewThere(z, c)
    BY <1>1, <2>1 DEF Good, NewHere, NewThere, OnBoth
  <2>2. CASE z = p /\ local[p] = c
    BY <1>1, <2>2
  <2>. QED  BY <1>2, <2>1, <2>2 DEF Good, NewHere, OnBoth
<1>5. Safe(n, {})'
  BY <1>3 DEF Safe, Good
<1>6. ASSUME NEW q \in Names PROVE HereKept(q) /\ ThereKept(q) /\ Carried(q)
  <2>1. CASE q # p
    BY <1>1, <1>2, <2>1 DEF HereKept, ThereKept, Carried, NewThere
  <2>2. CASE q = p
    <3>1. n # base[p].l
      BY InUseHas
    <3>. QED  BY <1>1, <1>2, <2>2, <3>1 DEF HereKept, NotBack, ThereKept, Carried, NewThere
  <2>. QED  BY <2>1, <2>2
<1>. QED  BY <1>1, <1>2, <1>4, <1>5, <1>6, InUseHas, WorldLoss

\* The user removes a file.
LEMMA RemoveLoss ==
  ASSUME LossInv, SyncInv', NEW p \in Names, Remove(p)
  PROVE  LossInv'
<1>0. SyncInv /\ TypeOK
  BY DEF LossInv, SyncInv
<1>1. remote' = remote /\ base' = base /\ phase' = phase /\ ops' = ops /\ HistGrows /\ local[p] \in Hist' \cup {0}
      /\ written' = written
  BY DEF Remove, HistGrows, Hist, Forget
<1>2. local'[p] = 0 /\ \A q \in Names \ {p} : local'[q] = local[q]
  BY <1>0 DEF Remove, TypeOK
<1>4. AllLasts
  <2>. SUFFICES ASSUME NEW z \in Names, NEW c \in Contents \ {0}, Good(z, c) PROVE c \in Hist' \/ Good(z, c)'
    BY DEF AllLasts, Lasts
  <2>1. CASE local'[z] = local[z] \/ NewThere(z, c)
    BY <1>1, <2>1 DEF Good, NewHere, NewThere, OnBoth
  <2>2. CASE z = p /\ local[p] = c
    BY <1>1, <2>2
  <2>. QED  BY <1>2, <2>1, <2>2 DEF Good, NewHere, OnBoth
<1>6. ASSUME NEW q \in Names PROVE HereKept(q) /\ ThereKept(q) /\ Carried(q)
  BY <1>1, <1>2 DEF HereKept, NotBack, Past, ThereKept, Carried, NewThere
<1>. QED  BY <1>0, <1>1, <1>2, <1>4, <1>6, InUseHas, WrittenNat, WorldLoss

\* Another client writes a file.
LEMMA TheirSaveLoss ==
  ASSUME LossInv, SyncInv', NEW p \in Names, TheirSave(p)
  PROVE  LossInv'
<1>0. SyncInv /\ TypeOK
  BY DEF LossInv, SyncInv
<1>1. local' = local /\ base' = base /\ phase' = phase /\ ops' = ops /\ HistGrows /\ remote[p].c \in Hist' \cup {0}
  BY DEF TheirSave, HistGrows, Hist, Forget
<1>. PICK n \in Contents \ {0} : written' = n /\ n = written + 1 /\ n \notin InUse
  BY NewIs DEF TheirSave
<1>. PICK sum \in Sums : \E g \in Stored(p, n, sum) : remote' = [remote EXCEPT ![p] = g]
  BY DEF TheirSave
<1>2. PICK f \in Stored(p, n, sum) : remote' = [remote EXCEPT ![p] = f]
  OBVIOUS
<1>3. f \in File /\ f.c = n /\ f.etag # 0 /\ f.etag \notin UsedEtags
  BY <1>0, <1>2, StoredIsFile, SyncAssumption DEF SyncAssumption
<1>4. remote'[p] = f /\ \A q \in Names \ {p} : remote'[q] = remote[q]
  BY <1>0, <1>2 DEF TypeOK
<1>5. NewThere(p, n)'
  <2>1. n \notin {base[p].l, base[p].key, base[p].sha, ops[p].got.c}
    BY InUseHas
  <2>2. f.etag # base[p].etag /\ f.etag # ops[p].r.etag
    BY <1>3 DEF UsedEtags
  <2>3. ~SeenThere(ops[p], f)
    BY <1>3, <2>1, <2>2 DEF SeenThere
  <2>. QED  BY <1>1, <1>3, <1>4, <2>1, <2>2, <2>3 DEF NewThere, ThereNew
<1>6. AllLasts
  <2>. SUFFICES ASSUME NEW z \in Names, NEW c \in Contents \ {0}, Good(z, c) PROVE c \in Hist' \/ Good(z, c)'
    BY DEF AllLasts, Lasts
  <2>1. CASE remote'[z] = remote[z] \/ NewHere(z, c)
    BY <1>1, <2>1 DEF Good, NewHere, NewThere, OnBoth
  <2>2. CASE z = p /\ remote[p].c = c
    BY <1>1, <2>2
  <2>. QED  BY <1>4, <2>1, <2>2 DEF Good, NewThere, OnBoth
<1>7. Safe(n, {})'
  BY <1>5 DEF Safe, Good
<1>8. ASSUME NEW q \in Names PROVE HereKept(q) /\ ThereKept(q) /\ Carried(q)
  <2>1. CASE q # p
    BY <1>1, <1>4, <2>1 DEF HereKept, ThereKept, Carried, NewThere
  <2>2. CASE q = p
    <3>1. n \notin KnownAt(p)
      BY KnownUsed
    <3>. QED  BY <1>1, <1>3, <1>4, <2>2, <3>1 DEF HereKept, ThereKept, Carried
  <2>. QED  BY <2>1, <2>2
<1>. QED  BY <1>1, <1>3, <1>4, <1>6, <1>7, <1>8, InUseHas, WorldLoss

\* Another client removes a file.
LEMMA TheirRemoveLoss ==
  ASSUME LossInv, SyncInv', NEW p \in Names, TheirRemove(p)
  PROVE  LossInv'
<1>0. SyncInv /\ TypeOK
  BY DEF LossInv, SyncInv
<1>1. local' = local /\ base' = base /\ phase' = phase /\ ops' = ops /\ HistGrows /\ remote[p].c \in Hist' \cup {0}
      /\ written' = written
  BY DEF TheirRemove, HistGrows, Hist, Forget
<1>2. remote'[p] = Gone /\ \A q \in Names \ {p} : remote'[q] = remote[q]
  BY <1>0 DEF TheirRemove, TypeOK
<1>3. AllLasts
  <2>. SUFFICES ASSUME NEW z \in Names, NEW c \in Contents \ {0}, Good(z, c) PROVE c \in Hist' \/ Good(z, c)'
    BY DEF AllLasts, Lasts
  <2>1. CASE remote'[z] = remote[z] \/ NewHere(z, c)
    BY <1>1, <2>1 DEF Good, NewHere, NewThere, OnBoth
  <2>2. CASE z = p /\ remote[p].c = c
    BY <1>1, <2>2
  <2>. QED  BY <1>2, <2>1, <2>2 DEF Good, NewThere, OnBoth
<1>4. ASSUME NEW q \in Names PROVE HereKept(q) /\ ThereKept(q) /\ Carried(q)
  BY <1>1, <1>2, NoOpHas DEF HereKept, ThereKept, Carried, NewThere
<1>. QED  BY <1>0, <1>1, <1>2, <1>3, <1>4, InUseHas, NoOpHas, WrittenNat, WorldLoss

\* A file that has come from another name here is new, or on record.
LEMMA RenameLoss ==
  ASSUME LossInv, SyncInv', NEW p \in Names, NEW q \in Names, Rename(p, q)
  PROVE  LossInv'
<1>0. SyncInv /\ TypeOK
  BY DEF LossInv, SyncInv
<1>1. remote' = remote /\ base' = base /\ phase' = phase /\ ops' = ops /\ HistGrows /\ written' = written
  BY DEF Rename, HistGrows, Hist, Race, Moved
<1>. PICK d \in Contents \ {0} : d = local[p]
  BY <1>0, OpContents DEF Rename, HasL
<1>2. p # q /\ local[q] = 0 /\ local'[p] = 0 /\ local'[q] = d /\ \A z \in Names \ {p, q} : local'[z] = local[z]
  BY <1>0 DEF Rename, HasL, TypeOK
<1>3. d \in KnownAt(q) => d \in Hist'
  BY DEF Rename, Race, Hist
<1>4. ASSUME d \notin Hist' PROVE NewHere(q, d)' /\ \A w \in Names : q \in Near(ops[w], w) => ops[w].r.c # d
  <2>0. d \notin KnownAt(q)
    BY <1>3, <1>4
  <2>1. d # base[q].l /\ d \notin {ops[q].l, ops[q].r.c, ops[q].got.c}
    BY <2>0, KnownHas DEF Near
  <2>2. ~SeenHere(ops[q], d)
    BY <2>1 DEF SeenHere
  <2>3. \A w \in Names : q \in Near(ops[w], w) => ops[w].r.c # d /\ ops[w].l # d
    BY <2>0, KnownHas
  <2>4. ~Sent(q, d, ops)
    BY <2>3 DEF Sent, Near
  <2>. QED  BY <1>1, <1>2, <2>1, <2>2, <2>3, <2>4 DEF NewHere, HereNew
<1>5. AllLasts
  <2>. SUFFICES ASSUME NEW z \in Names, NEW c \in Contents \ {0}, Good(z, c) PROVE Lasts(z, c)
    BY DEF AllLasts
  <2>1. CASE local'[z] = local[z] \/ NewThere(z, c)
    BY <1>1, <2>1 DEF Good, NewHere, NewThere, OnBoth, Lasts
  <2>2. CASE z = p /\ local[p] = c
    BY <1>1, <1>4, <2>2 DEF Lasts, Good
  <2>3. CASE z = q /\ ~NewThere(z, c)
    BY <1>2, <2>3 DEF Good, NewHere, OnBoth
  <2>. QED  BY <1>2, <2>1, <2>2, <2>3 DEF Good, NewHere, OnBoth
<1>6. ASSUME NEW z \in Names PROVE HereKept(z) /\ ThereKept(z) /\ Carried(z)
  <2>1. ThereKept(z) /\ Carried(z)
    BY <1>1 DEF ThereKept, Carried, NewThere
  <2>2. CASE z # q
    BY <1>2, <2>1, <2>2 DEF HereKept, NotBack, Past
  <2>3. CASE z = q
    <3>1. d = base[q].l => d \in Hist'
      BY <1>3 DEF KnownAt
    <3>. QED  BY <1>1, <1>2, <2>1, <2>3, <3>1 DEF HereKept, NotBack, Past
  <2>. QED  BY <2>2, <2>3
<1>. QED  BY <1>0, <1>1, <1>2, <1>5, <1>6, InUseHas, WrittenNat, WorldLoss

\* A version that comes to a name on the server where neither the pass nor the row has it
\* is new there.
LEMMA ComesNew ==
  ASSUME SyncInv, NEW q \in Names, NEW f \in Carriers, f.c # 0, f.etag # 0, f.c \notin KnownAt(q), f.c \notin Hist
  PROVE  ThereNew(f, base[q], ops[q])
<1>1. f.c \notin {base[q].l, base[q].key, ops[q].l, ops[q].r.c, ops[q].got.c}
  BY KnownHas DEF Near
<1>2. f.etag # ops[q].r.etag
  BY <1>1 DEF SyncInv, Etagged, OneVersion, Carriers
<1>3. f.c # base[q].sha /\ f.etag # base[q].etag
  <2>1. RowIs(base[q], Carriers, superseded, raced)
    BY Here
  <2>. QED  BY <1>1, <2>1 DEF RowIs, Same, Hist, NoRow
<1>. QED  BY <1>1, <1>2, <1>3 DEF ThereNew, SeenThere

\* Another client renames a file.
LEMMA TheirRenameLoss ==
  ASSUME LossInv, SyncInv', NEW p \in Names, NEW q \in Names, TheirRename(p, q)
  PROVE  LossInv'
<1>0. SyncInv /\ TypeOK
  BY DEF LossInv, SyncInv
<1>1. local' = local /\ base' = base /\ phase' = phase /\ ops' = ops /\ HistGrows /\ written' = written
  BY DEF TheirRename, HistGrows, Hist, Race, Moved
<1>. PICK d \in Contents \ {0} : d = remote[p].c
  BY <1>0, OpContents DEF TheirRename, HasR
<1>2. /\ p # q /\ remote[q].c = 0 /\ remote'[p] = Gone /\ remote'[q] = remote[p]
      /\ \A z \in Names \ {p, q} : remote'[z] = remote[z]
  BY <1>0 DEF TheirRename, HasR, TypeOK
<1>3. d \in KnownAt(q) => d \in Hist'
  BY DEF TheirRename, Race, Hist
<1>4. ASSUME d \notin Hist' PROVE NewThere(q, d)' /\ \A w \in Names : q \in Near(ops[w], w) => ops[w].r.c # d
  <2>0. d \notin KnownAt(q) /\ d \notin Hist
    BY <1>1, <1>3, <1>4 DEF HistGrows
  <2>1. remote[p] \in Carriers /\ remote[p].etag # 0
    BY <1>0, Here, OneContent
  <2>2. ThereNew(remote[p], base[q], ops[q])
    BY <1>0, <2>0, <2>1, ComesNew
  <2>3. \A w \in Names : q \in Near(ops[w], w) => ops[w].r.c # d
    BY <2>0, KnownHas
  <2>. QED  BY <1>1, <1>2, <2>2, <2>3 DEF NewThere
<1>5. AllLasts
  <2>. SUFFICES ASSUME NEW z \in Names, NEW c \in Contents \ {0}, Good(z, c) PROVE Lasts(z, c)
    BY DEF AllLasts
  <2>1. CASE remote'[z] = remote[z] \/ NewHere(z, c)
    BY <1>1, <2>1 DEF Good, NewHere, NewThere, OnBoth, Lasts
  <2>2. CASE z = p /\ remote[p].c = c
    BY <1>1, <1>4, <2>2 DEF Lasts, Good
  <2>3. CASE z = q /\ ~NewHere(z, c)
    BY <1>2, <2>3 DEF Good, NewThere, OnBoth
  <2>. QED  BY <1>2, <2>1, <2>2, <2>3 DEF Good, NewThere, OnBoth
<1>6. ASSUME NEW z \in Names PROVE HereKept(z) /\ ThereKept(z) /\ Carried(z)
  <2>1. HereKept(z)
    BY <1>1 DEF HereKept
  <2>2. CASE z \notin {p, q}
    BY <1>1, <1>2, <2>1, <2>2 DEF ThereKept, Carried, NewThere
  <2>3. CASE z = p
    BY <1>2, <1>4, <2>1, <2>3, NoOpHas DEF ThereKept, Carried
  <2>4. CASE z = q
    BY <1>2, <1>3, <2>1, <2>4 DEF ThereKept, Carried
  <2>. QED  BY <2>2, <2>3, <2>4
<1>. QED  BY <1>0, <1>1, <1>2, <1>5, <1>6, InUseHas, NoOpHas, WrittenNat, WorldLoss

\* A change of ETag alone makes nothing known.
LEMMA LockLoss ==
  ASSUME LossInv, SyncInv', NEW p \in Names, Lock(p)
  PROVE  LossInv'
<1>0. SyncInv /\ TypeOK
  BY DEF LossInv, SyncInv
<1>1. local' = local /\ base' = base /\ phase' = phase /\ ops' = ops /\ HistGrows /\ written' = written
  BY DEF Lock, HistGrows, Hist, Moved
<1>2. PICK e \in NewEtags : remote' = [remote EXCEPT ![p].etag = e]
  BY DEF Lock
<1>3. e \notin UsedEtags
  BY <1>2 DEF NewEtags, Least
<1>4. remote'[p].c = remote[p].c /\ remote'[p].etag = e /\ \A z \in Names \ {p} : remote'[z] = remote[z]
  BY <1>0, <1>2 DEF TypeOK, File
<1>5. e # base[p].etag /\ e # ops[p].r.etag
  BY <1>3 DEF UsedEtags
<1>6. \A z \in Names, c \in Contents : NewThere(z, c) => NewThere(z, c)'
  BY <1>1, <1>4, <1>5 DEF NewThere, ThereNew, SeenThere
<1>7. AllLasts
  <2>. SUFFICES ASSUME NEW z \in Names, NEW c \in Contents \ {0}, Good(z, c) PROVE Good(z, c)'
    BY DEF AllLasts, Lasts
  <2>. QED  BY <1>1, <1>4, <1>6 DEF Good, NewHere, OnBoth
<1>8. ASSUME NEW q \in Names PROVE HereKept(q) /\ ThereKept(q) /\ Carried(q)
  BY <1>1, <1>4, <1>6 DEF HereKept, ThereKept, Carried
<1>. QED  BY <1>0, <1>1, <1>4, <1>7, <1>8, InUseHas, WrittenNat, WorldLoss

-----------------------------------------------------------------------------
(* The theorem *)

\* An empty folder and an empty server.
LEMMA LossInit == Init => LossInv
<1>. SUFFICES ASSUME Init PROVE LossInv
  OBVIOUS
<1>0. SyncInv
  BY SyncInvInit
<1>1. written = 0 /\ phase = "idle"
      /\ \A q \in Names : local[q] = 0 /\ remote[q] = Gone /\ base[q] = NoRow /\ ops[q] = NoOp
  BY DEF Init
<1>2. Fresh
  <2>1. \A q \in Names : Used(q) \subseteq {0}
    BY <1>1, NoOpHas DEF Used, NoRow
  <2>2. InUse \subseteq {0}
    BY <2>1 DEF InUse
  <2>. QED  BY <1>1, <2>2 DEF Fresh
<1>3. Stages
  BY <1>1, NoOpHas DEF Stages, Phases, PhaseIs, MoveIs
<1>4. Covered
  BY <1>1 DEF Covered
<1>5. OpsOK
  BY <1>1, NoOpHas DEF OpsOK, OpOK, ListOK, LookOK, PlanOK, MoveOK, CarryOK, Plans
<1>. QED  BY <1>0, <1>2, <1>3, <1>4, <1>5 DEF LossInv

\* Every step of every action.
LEMMA ActLoss ==
  ASSUME LossInv, SyncInv', NEW p \in Names, Act(p)
  PROVE  LossInv'
<1>1. CASE MoveHere(p) \/ MoveThere(p) \/ MoveForgets(p) \/ MoveRecords(p)
  BY <1>1, MoveHereLoss, MoveThereLoss, MoveForgetsLoss, MoveRecordsLoss
<1>2. CASE SkipDownload(p) \/ Fetch(p) \/ Commit(p) \/ RecordDownload(p) \/ Read(p) \/ Put(p) \/ RecordUpload(p)
  BY <1>2, SkipDownloadLoss, FetchLoss, CommitLoss, RecordDownloadLoss, ReadLoss, PutLoss, RecordUploadLoss
<1>3. CASE Resurrect(p) \/ BothGone(p) \/ SameSum(p) \/ Compare(p) \/ SameBytes(p) \/ Ask(p) \/ KeepNewest(p)
  BY <1>3, ResurrectLoss, NoRowLoss, SameSumLoss, CompareLoss, SameBytesLoss, AskLoss, KeepNewestLoss
<1>4. CASE SetAside(p) \/ Place(p) \/ RecordPlaced(p) \/ ReadCopy(p)
  BY <1>4, SetAsideLoss, PlaceLoss, RecordPlacedLoss, ReadCopyLoss
<1>5. CASE DeleteHere(p) \/ DeleteThere(p) \/ RecordDeleted(p) \/ Fail(p)
  BY <1>5, DeleteHereLoss, DeleteThereLoss, NoRowLoss, FailLoss
<1>. QED  BY <1>1, <1>2, <1>3, <1>4, <1>5 DEF Act

\* Every step.
LEMMA LossStep == ASSUME "statFails" \notin Happens PROVE LossInv /\ [Next]_vars => LossInv'
<1>. SUFFICES ASSUME LossInv, [Next]_vars PROVE LossInv'
  OBVIOUS
<1>0. SyncInv'
  BY SyncInvStep DEF LossInv
<1>1. CASE World
  <2>. PICK p \in Paths :
      \/ "edit" \in Happens /\ Save(p)
      \/ "remove" \in Happens /\ Remove(p)
      \/ "rename" \in Happens /\ \E q \in Paths : Rename(p, q)
      \/ "theirs" \in Happens /\ TheirSave(p)
      \/ "theirRemove" \in Happens /\ TheirRemove(p)
      \/ "theirRename" \in Happens /\ \E q \in Paths : TheirRename(p, q)
      \/ "lock" \in Happens /\ Lock(p)
    BY <1>1 DEF World
  <2>1. Paths \subseteq Names
    BY DEF Names
  <2>. QED  BY <1>0, <2>1, SaveLoss, RemoveLoss, RenameLoss, TheirSaveLoss, TheirRemoveLoss, TheirRenameLoss, LockLoss
<1>2. CASE Trouble \/ List \/ (\E S \in Scopes : SyncPaths(S)) \/ (\E p \in Names : LookAt(p) \/ AskFor(p)) \/ EndPass
  BY <1>0, <1>2, ScanLoss DEF Trouble
<1>3. CASE Choices
  BY <1>0, <1>3, ChooseMineLoss, ChooseTheirsLoss, ChooseBothLoss DEF Choices
<1>4. CASE Look \/ LookDelta \/ PlanPaths
  BY <1>0, <1>4, PlanLoss
<1>5. ASSUME NEW p \in Names, Act(p) PROVE LossInv'
  BY <1>0, <1>5, ActLoss
<1>6. CASE UNCHANGED vars
  BY <1>0, <1>6 DEF vars, LossInv, Fresh, InUse, Used, Stages, Phases, Covered, Safe, Hist, Good, NewHere, NewThere, OnBoth,
       OpsOK, OpOK, ListOK, LookOK, PlanOK, MoveOK, CarryOK, NotBack, Past
<1>. QED  BY <1>1, <1>2, <1>3, <1>4, <1>5, <1>6 DEF Next

\* A safe content is kept.
LEMMA LossHolds == LossInv => NothingLost
<1>. SUFFICES ASSUME LossInv, NEW c \in 1 .. written PROVE c \in Kept
  BY DEF NothingLost
<1>1. Safe(c, {})
  BY DEF LossInv, Covered
<1>2. ASSUME NEW q \in Names, Good(q, c) PROVE local[q] = c \/ remote[q].c = c
  BY <1>2 DEF Good, NewHere, NewThere, OnBoth
<1>. QED  BY <1>1, <1>2 DEF Safe, Hist, Kept

\* However passes, the user, the other clients, failures and crashes come between each
\* other's steps, no version of a file is destroyed but by its user or another client, or
\* after it came behind the pass's back; so long as the question ApplyChoice asks the
\* server before it keeps both versions does not fail.
THEOREM NothingLostAlways ==
  ASSUME "statFails" \notin Happens
  PROVE  Spec => []NothingLost
BY LossInit, LossStep, LossHolds, PTL DEF Spec
=============================================================================
