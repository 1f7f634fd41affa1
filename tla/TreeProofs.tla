----------------------------- MODULE TreeProofs -----------------------------
(***************************************************************************)
(* Proofs about Tree: whatever the tree of folders and files, the cases    *)
(* and thresholds, and however much people do.                             *)
(***************************************************************************)
EXTENDS Tree, FiniteSetTheorems, TLAPS

(*************************************************************************)
(* The tree: by the assumption on Parent and Above, the folders above a  *)
(* node form a chain.                                                    *)
(*************************************************************************)
\* What the assumption says of a node, its parent and the folders above it.
LEMMA Kin ==
  ASSUME NEW n \in Nodes
  PROVE  /\ Above[n] \subseteq Folders /\ n \notin Above[n] /\ Parent[n] \in Folders \cup {Root}
         /\ Parent[n] = Root => Above[n] = {}
         /\ Parent[n] # Root => Parent[n] \in Folders /\ Parent[n] \in Nodes /\ Above[n] = {Parent[n]} \cup Above[Parent[n]]
         /\ Root \notin Above[n]
BY TreeAssumption DEF Nodes

\* Of any nodes there is one that is nowhere under another.
LEMMA Least ==
  ASSUME NEW B, B \subseteq Nodes, B # {}
  PROVE  \E n \in B : \A m \in B : Above[m] \subseteq Above[n] => Above[m] = Above[n]
<1> DEFINE T == {Above[n] : n \in B}
           R == StrictSubsetOrdering(Nodes)
<1>1. IsWellFoundedOn(R, SUBSET Nodes)
  <2>1. IsFiniteSet(Nodes) BY TreeAssumption
  <2>2. FiniteSubsetsOf(Nodes) = SUBSET Nodes BY <2>1, FS_FiniteSubsetsOfFinite
  <2> QED BY <2>2, FS_StrictSubsetOrderingWellFounded
<1>2. T \subseteq SUBSET Nodes /\ T # {} BY Kin DEF Nodes
<1>3. \E X \in T : \A Y \in T : <<Y, X>> \notin R
  <2> HIDE DEF T, R
  <2> QED BY <1>1, <1>2, WFMin
<1>4. PICK n \in B : \A Y \in T : <<Y, Above[n]>> \notin R BY <1>3
<1>5. ASSUME NEW m \in B, Above[m] \subseteq Above[n] PROVE Above[m] = Above[n]
  <2>1. Above[m] \in SUBSET Nodes /\ Above[n] \in SUBSET Nodes BY Kin DEF Nodes
  <2> QED BY <1>4, <1>5, <2>1 DEF StrictSubsetOrdering
<1> QED BY <1>4, <1>5

\* What is above a folder above is above.
LEMMA Higher ==
  ASSUME NEW n \in Nodes, NEW k \in Above[n]
  PROVE  Above[k] \subseteq Above[n]
<1> DEFINE B == {m \in Nodes : \E j \in Above[m] : ~(Above[j] \subseteq Above[m])}
<1> SUFFICES ASSUME B # {} PROVE FALSE OBVIOUS
<1>1. PICK m \in B : \A l \in B : Above[l] \subseteq Above[m] => Above[l] = Above[m] BY Least
<1>2. PICK j \in Above[m] : ~(Above[j] \subseteq Above[m]) BY <1>1
<1>3. m \in Nodes /\ Parent[m] \in Nodes /\ Above[m] = {Parent[m]} \cup Above[Parent[m]] BY <1>2, Kin
<1>4. j # Parent[m] BY <1>2, <1>3
<1>5. Parent[m] \in B BY <1>2, <1>3, <1>4
<1> QED BY <1>1, <1>3, <1>5, Kin

\* Of two folders above the same node one is above the other.
LEMMA Chain ==
  ASSUME NEW n \in Nodes, NEW k \in Above[n], NEW m \in Above[n]
  PROVE  k = m \/ k \in Above[m] \/ m \in Above[k]
<1> DEFINE B == {i \in Nodes : \E j, l \in Above[i] : ~(j = l \/ j \in Above[l] \/ l \in Above[j])}
<1> SUFFICES ASSUME B # {} PROVE FALSE OBVIOUS
<1>1. PICK i \in B : \A l \in B : Above[l] \subseteq Above[i] => Above[l] = Above[i] BY Least
<1>2. PICK j \in Above[i], l \in Above[i] : ~(j = l \/ j \in Above[l] \/ l \in Above[j]) BY <1>1
<1>3. i \in Nodes /\ Parent[i] \in Nodes /\ Above[i] = {Parent[i]} \cup Above[Parent[i]] BY <1>2, Kin
<1>4. j # Parent[i] /\ l # Parent[i] BY <1>2, <1>3
<1>5. Parent[i] \in B BY <1>2, <1>3, <1>4
<1> QED BY <1>1, <1>3, <1>5, Kin

\* Every node of a set is one, or is under one, that is topmost in it.
LEMMA Topmost ==
  ASSUME NEW T, T \subseteq Nodes, NEW n \in T
  PROVE  \E k \in T : k \in {n} \cup Above[n] /\ Above[k] \cap T = {}
<1> DEFINE B == T \cap ({n} \cup Above[n])
<1>1. B # {} /\ B \subseteq Nodes OBVIOUS
<1>2. PICK k \in B : \A m \in B : Above[m] \subseteq Above[k] => Above[m] = Above[k] BY <1>1, Least
<1>3. k \in Nodes /\ n \in Nodes /\ (k = n \/ k \in Above[n]) /\ Above[k] \subseteq Above[n] BY <1>2, Higher
<1>4. ASSUME NEW m \in Above[k] \cap T PROVE FALSE
  <2>1. m \in B /\ m \in Nodes BY <1>3, <1>4
  <2>2. Above[m] \subseteq Above[k] /\ m \notin Above[m] BY <1>3, <1>4, <2>1, Higher, Kin
  <2> QED BY <1>2, <1>4, <2>1, <2>2
<1> QED BY <1>2, <1>3, <1>4

(*************************************************************************)
(* Types.  The numbers of contents stay within Writes because people do  *)
(* only so much.                                                         *)
(*************************************************************************)
Sides == {t \in [Nodes -> Nat] : (\A f \in Folders : t[f] \in 0 .. 1) /\ (\A f \in Files : t[f] \in Writes)}
Listings == [kids : Sides, now : SUBSET Folders]
Passes == [at : {"idle", "scan", "act"}, queue : SUBSET (Folders \cup {Root}), remote : Sides,
           same : SUBSET Folders, now : SUBSET Folders, mount : SUBSET Folders,
           plan : [Nodes -> Kinds], problems : SUBSET Nodes, cut : BOOLEAN, made : SUBSET Folders,
           granted : BOOLEAN, known : SUBSET Nodes, hurt : SUBSET Nodes]
FilesOK == server \in Sides /\ disk \in Sides /\ bin \subseteq Writes
RowsOK  == /\ row \in [Files -> Writes] /\ dirs \in [Folders -> {"none", "stale", "fresh"}]
           /\ mounts \subseteq {f \in Folders : dirs[f] # "none"}
SavedOK == saved \in [Folders -> Listings]
PassOK  == pass \in Passes
CountOK == /\ can \in Cases /\ acts \in Nat /\ acts <= can.max
           /\ written \in Nat /\ written <= Cardinality(Files) + acts
RestOK  == /\ shared \subseteq Folders /\ parked \subseteq Folders
           /\ guard \in {"none", "frozen", "exempt"}
           /\ refused \in BOOLEAN /\ away \in BOOLEAN /\ granted \in BOOLEAN /\ calm \in BOOLEAN
           /\ dead \cup late \cup orphans \subseteq Writes /\ asked \cup hid \subseteq Folders
TypeInv == FilesOK /\ RowsOK /\ SavedOK /\ PassOK /\ CountOK /\ RestOK

\* There are finitely many files.
LEMMA FilesCount == IsFiniteSet(Files) /\ Cardinality(Files) \in Nat
<1>1. IsFiniteSet(Nodes) /\ Files \subseteq Nodes BY TreeAssumption DEF Nodes
<1> QED BY <1>1, FS_Subset, FS_CardinalityType

\* The numbers a content may have.
LEMMA WritesIs ==
  /\ \A x : x \in Writes <=> x \in Nat /\ x <= Cardinality(Files) + ActsMax
  /\ 0 \in Writes /\ Writes \subseteq Nat
<1>1. ActsMax \in Nat BY TreeAssumption
<1> QED BY <1>1, FilesCount DEF Writes

\* The invariant of types is the one the run checks.
LEMMA TypeInvOK == TypeInv => TypeOK
<1> SUFFICES ASSUME TypeInv PROVE TypeOK OBVIOUS
<1> USE DEF TypeInv
<1>1. /\ \A f \in Folders : server[f] \in 0 .. 1 /\ disk[f] \in 0 .. 1
      /\ \A f \in Files : server[f] \in Writes /\ disk[f] \in Writes
      /\ bin \subseteq Writes /\ row \in [Files -> Writes]
      /\ dirs \in [Folders -> {"none", "stale", "fresh"}]
      /\ mounts \subseteq {f \in Folders : dirs[f] # "none"}
  BY DEF FilesOK, RowsOK, Sides
<1>2. /\ shared \subseteq Folders /\ parked \subseteq Folders
      /\ guard \in {"none", "frozen", "exempt"}
      /\ refused \in BOOLEAN /\ away \in BOOLEAN /\ granted \in BOOLEAN /\ calm \in BOOLEAN
      /\ dead \cup late \cup orphans \subseteq Writes /\ asked \cup hid \subseteq Folders
  BY DEF RestOK
<1>3. \A f \in Folders : saved[f].now \subseteq Folders BY DEF SavedOK, Listings
<1>4. /\ pass.at \in {"idle", "scan", "act"} /\ pass.queue \subseteq Folders \cup {Root}
      /\ pass.plan \in [Nodes -> Kinds]
      /\ pass.same \cup pass.now \cup pass.mount \cup pass.made \subseteq Folders
      /\ pass.problems \cup pass.hurt \subseteq Nodes
  BY DEF PassOK, Passes
<1>5. can \in Cases /\ acts \in 0 .. ActsMax /\ written \in Writes
  <2>1. can.max \in 0 .. ActsMax /\ ActsMax \in Nat BY TreeAssumption DEF CountOK, Case
  <2>2. acts \in Nat /\ acts <= can.max /\ can \in Cases /\ written \in Nat /\ written <= Cardinality(Files) + acts BY DEF CountOK
  <2>3. acts <= ActsMax BY <2>1, <2>2
  <2>4. written <= Cardinality(Files) + ActsMax BY <2>2, <2>3, <2>1, FilesCount
  <2> QED BY <2>1, <2>2, <2>3, <2>4, WritesIs
<1> QED BY <1>1, <1>2, <1>3, <1>4, <1>5 DEF TypeOK

\* What is a value of each side.
LEMMA InSides ==
  ASSUME NEW t, t = [n \in Nodes |-> t[n]], \A n \in Folders : t[n] \in 0 .. 1, \A n \in Files : t[n] \in Writes
  PROVE  t \in Sides
<1>1. \A n \in Nodes : t[n] \in Nat BY WritesIs DEF Nodes
<1> QED BY <1>1 DEF Sides

\* What a side has under a name.
LEMMA OfSides ==
  ASSUME NEW t \in Sides
  PROVE  /\ \A n \in Folders : t[n] \in 0 .. 1
         /\ \A n \in Files : t[n] \in Writes
         /\ \A n \in Nodes : t[n] \in Nat
         /\ DOMAIN t = Nodes /\ t = [n \in Nodes |-> t[n]]
BY DEF Sides

\* What is empty at the start has its type.
LEMMA EmptySides == NoListing \in Sides /\ None \in Listings /\ Idle \in Passes /\ NoPlan \in [Nodes -> Kinds]
<1>1. NoListing \in Sides
  <2>1. NoListing = [n \in Nodes |-> NoListing[n]] /\ \A n \in Nodes : NoListing[n] = 0 BY DEF NoListing
  <2>2. (\A n \in Folders : NoListing[n] \in 0 .. 1) /\ \A n \in Files : NoListing[n] \in Writes
    <3>1. \A n \in Folders \cup Files : NoListing[n] = 0 BY <2>1 DEF Nodes
    <3> HIDE DEF NoListing
    <3> QED BY <3>1, WritesIs
  <2> QED BY <2>1, <2>2, InSides
<1>2. None \in Listings BY <1>1 DEF None, Listings
<1>3. NoPlan \in [Nodes -> Kinds] BY DEF NoPlan, Kinds
<1> QED BY <1>1, <1>2, <1>3 DEF Idle, Passes

\* Contents are numbers of writes.
LEMMA SomeContents ==
  ASSUME NEW t \in Sides, NEW N
  PROVE  Contents(t, N) \subseteq Writes
BY OfSides DEF Contents

\* Every file's first content is its own.
LEMMA FirstIs == First \in [Files -> 1 .. Cardinality(Files)] /\ \A f, g \in Files : First[f] = First[g] => f = g
<1>1. \E t \in [Files -> 1 .. Cardinality(Files)] : \A f, g \in Files : t[f] = t[g] => f = g
  <2> DEFINE I == 1 .. Cardinality(Files)
  <2>1. ExistsBijection(I, Files) BY FilesCount, FS_CardinalityType
  <2>2. PICK b \in Bijection(I, Files) : TRUE BY <2>1 DEF ExistsBijection
  <2>3. b \in [I -> Files] /\ (\A j, k \in I : b[j] = b[k] => j = k) /\ \A f \in Files : \E j \in I : b[j] = f
    BY <2>2 DEF Bijection, Injection, Surjection, IsInjective
  <2> DEFINE t == [f \in Files |-> CHOOSE j \in I : b[j] = f]
  <2>4. \A f \in Files : t[f] \in I /\ b[t[f]] = f BY <2>3
  <2>5. t \in [Files -> I] BY <2>4
  <2>6. \A f, g \in Files : t[f] = t[g] => f = g BY <2>4
  <2> QED BY <2>5, <2>6
<1> QED BY <1>1 DEF First

\* At the start everything has its type.
LEMMA InitType == Init => TypeInv
<1> SUFFICES ASSUME Init PROVE TypeInv OBVIOUS
<1> USE DEF Init
<1>1. \A f \in Files : First[f] \in Writes
  <2>1. Cardinality(Files) \in Nat /\ ActsMax \in Nat BY FilesCount, TreeAssumption
  <2> QED BY FirstIs, WritesIs, <2>1
<1>2. server \in Sides
  <2>1. \A n \in Folders : server[n] \in 0 .. 1 BY TreeAssumption DEF Nodes
  <2>2. \A n \in Files : server[n] \in Writes BY <1>1 DEF Nodes
  <2>3. server = [n \in Nodes |-> server[n]] OBVIOUS
  <2> HIDE DEF Init
  <2> QED BY <2>1, <2>2, <2>3, InSides
<1>3. disk \in Sides BY <1>2, EmptySides
<1>4. FilesOK BY <1>2, <1>3 DEF FilesOK
<1>5. RowsOK
  <2>1. row \in [Files -> Writes] BY <1>3, OfSides
  <2>2. can.shared \subseteq Folders BY TreeAssumption DEF Case
  <2> QED BY <2>1, <2>2 DEF RowsOK
<1>6. SavedOK BY EmptySides DEF SavedOK
<1>7. PassOK BY EmptySides DEF PassOK
<1>8. CountOK
  <2>1. can \in Cases /\ acts = 0 /\ written = Cardinality(Files) OBVIOUS
  <2>2. can.max \in 0 .. ActsMax BY <2>1, TreeAssumption DEF Case
  <2> QED BY <2>1, <2>2, FilesCount, TreeAssumption DEF CountOK
<1>9. RestOK BY TreeAssumption DEF RestOK, Case
<1> QED BY <1>4, <1>5, <1>6, <1>7, <1>8, <1>9 DEF TypeInv

\* A side of which some names get other values that a side may have.
LEMMA SidesWith ==
  ASSUME NEW t, NEW u \in Sides, t = [n \in Nodes |-> t[n]],
         \A n \in Nodes : t[n] = u[n] \/ t[n] = 0 \/ (n \in Folders /\ t[n] = 1) \/ (n \in Files /\ t[n] \in Writes)
                          \/ \E v \in Sides : t[n] = v[n]
  PROVE  t \in Sides
<1>1. ASSUME NEW n \in Folders PROVE t[n] \in 0 .. 1
  <2>1. n \in Nodes /\ n \notin Files BY TreeAssumption DEF Nodes
  <2>2. \A v \in Sides : v[n] \in 0 .. 1 BY DEF Sides
  <2> QED BY <2>1, <2>2
<1>2. \A n \in Files : t[n] \in Writes BY OfSides, WritesIs, TreeAssumption DEF Nodes
<1> QED BY <1>1, <1>2, InSides

\* ETags that change leave the rows that are there.
LEMMA StaleType ==
  ASSUME RowsOK, NEW T
  PROVE  /\ Stale(T) \in [Folders -> {"none", "stale", "fresh"}]
         /\ \A f \in Folders : Stale(T)[f] = "none" <=> dirs[f] = "none"
BY DEF RowsOK, Stale

\* The checkpoint, after ETags have changed.
LEMMA KeptType ==
  ASSUME SavedOK, NEW T
  PROVE  Kept(Passed(T)) \in [Folders -> Listings]
<1>1. Passed(T) \in [Folders -> Listings] BY EmptySides DEF SavedOK, Passed, Listings
<1> QED BY <1>1, EmptySides DEF Kept

\* Rows, checkpoint and pass, after ETags have changed.
LEMMA BumpType ==
  ASSUME RowsOK, SavedOK, PassOK, NEW T, Bump(T), row' = row, mounts' = mounts
  PROVE  RowsOK' /\ SavedOK' /\ PassOK'
<1> USE DEF Bump
<1>1. RowsOK' BY StaleType DEF RowsOK
<1>2. SavedOK' BY KeptType DEF SavedOK
<1>3. PassOK' BY DEF PassOK, Passes
<1> QED BY <1>1, <1>2, <1>3

\* The number of a write stays in its bound.
LEMMA ActCount ==
  ASSUME CountOK, NEW x, Act(x), can' = can, written' = written \/ written' = written + 1
  PROVE  CountOK' /\ (written' = written + 1 => written' \in Writes)
<1>1. can.max \in 0 .. ActsMax /\ ActsMax \in Nat BY TreeAssumption DEF CountOK, Case
<1>2. acts' = acts + 1 /\ acts < can.max BY DEF Act
<1>3. acts' \in Nat /\ written' \in Nat /\ acts' <= can.max /\ written' <= Cardinality(Files) + acts'
  BY <1>1, <1>2, FilesCount DEF CountOK
<1>4. written' <= Cardinality(Files) + ActsMax BY <1>1, <1>3, FilesCount
<1> QED BY <1>3, <1>4, WritesIs DEF CountOK

\* Save keeps the types; so do the steps that follow.
LEMMA TypeSave == ASSUME TypeInv, NEW f \in Files, Save(f) PROVE TypeInv'
<1> USE DEF TypeInv
<1>1. CountOK' /\ written' \in Writes BY ActCount DEF Save
<1>2. disk' \in Sides
  <2>1. disk' = [n \in Nodes |-> disk'[n]] BY DEF Save
  <2>2. \A n \in Nodes : disk'[n] = disk[n] \/ (n \in Folders /\ disk'[n] = 1) \/ (n \in Files /\ disk'[n] \in Writes)
    BY <1>1, Kin DEF Save, Nodes
  <2> QED BY <2>1, <2>2, SidesWith DEF FilesOK
<1>3. FilesOK' BY <1>2 DEF FilesOK, Save
<1>4. RowsOK' BY DEF RowsOK, Save, rows
<1>5. SavedOK' /\ PassOK' BY DEF SavedOK, PassOK, Save
<1>6. RestOK'
  <2>1. disk[f] \in Writes BY OfSides DEF FilesOK
  <2>2. dead' \cup late' \cup orphans' \subseteq Writes BY <1>1, <2>1 DEF Save, RestOK
  <2> QED BY <2>2 DEF RestOK, Save, world, guards
<1> QED BY <1>1, <1>3, <1>4, <1>5, <1>6

\* A removal here.
LEMMA TypeRemove == ASSUME TypeInv, NEW n \in Nodes, Remove(n) PROVE TypeInv'
<1> USE DEF TypeInv
<1>1. CountOK' BY ActCount DEF Remove
<1>2. disk' \in Sides
  <2>1. disk' = [m \in Nodes |-> disk'[m]] BY DEF Remove
  <2>2. \A m \in Nodes : disk'[m] = disk[m] \/ disk'[m] = 0 BY DEF Remove
  <2> QED BY <2>1, <2>2, SidesWith DEF FilesOK
<1>3. FilesOK' BY <1>2 DEF FilesOK, Remove
<1>4. RowsOK' BY DEF RowsOK, Remove, rows
<1>5. SavedOK' /\ PassOK' BY DEF SavedOK, PassOK, Remove
<1>6. RestOK'
  <2>1. Contents(disk, Whole(n)) \subseteq Writes BY SomeContents DEF FilesOK
  <2>2. dead' \cup late' \cup orphans' \subseteq Writes BY <2>1 DEF Remove, RestOK
  <2> QED BY <2>2 DEF RestOK, Remove, world, guards
<1> QED BY <1>1, <1>3, <1>4, <1>5, <1>6

\* Another client writes.
LEMMA TypeTheirSave == ASSUME TypeInv, NEW f \in Files, TheirSave(f) PROVE TypeInv'
<1> USE DEF TypeInv
<1>1. CountOK' /\ written' \in Writes BY ActCount DEF TheirSave
<1>2. server' \in Sides
  <2>1. server' = [n \in Nodes |-> server'[n]] BY DEF TheirSave
  <2>2. \A n \in Nodes : server'[n] = server[n] \/ (n \in Folders /\ server'[n] = 1) \/ (n \in Files /\ server'[n] \in Writes)
    BY <1>1, Kin DEF TheirSave, Nodes
  <2> QED BY <2>1, <2>2, SidesWith DEF FilesOK
<1>3. FilesOK' BY <1>2 DEF FilesOK, TheirSave
<1>4. RowsOK' /\ SavedOK' /\ PassOK' BY BumpType DEF TheirSave
<1>6. RestOK'
  <2>1. server[f] \in Writes /\ row[f] \in Writes /\ pass.remote[f] \in Writes BY OfSides DEF FilesOK, RowsOK, PassOK, Passes
  <2>2. dead' \cup late' \cup orphans' \subseteq Writes BY <1>1, <2>1 DEF TheirSave, RestOK
  <2> QED BY <2>2 DEF RestOK, TheirSave, world, guards
<1> QED BY <1>1, <1>3, <1>4, <1>6

\* Another client removes.
LEMMA TypeTheirRemove == ASSUME TypeInv, NEW n \in Nodes, TheirRemove(n) PROVE TypeInv'
<1> USE DEF TypeInv
<1>1. CountOK' BY ActCount DEF TheirRemove
<1>2. server' \in Sides
  <2>1. server' = [m \in Nodes |-> server'[m]] BY DEF TheirRemove
  <2>2. \A m \in Nodes : server'[m] = server[m] \/ server'[m] = 0 BY DEF TheirRemove
  <2> QED BY <2>1, <2>2, SidesWith DEF FilesOK
<1>3. FilesOK' BY <1>2 DEF FilesOK, TheirRemove
<1>4. RowsOK' /\ SavedOK' /\ PassOK' BY BumpType DEF TheirRemove
<1>6. RestOK'
  <2>1. Contents(server, Whole(n)) \subseteq Writes BY SomeContents DEF FilesOK
  <2>2. dead' \cup late' \cup orphans' \subseteq Writes BY <2>1 DEF TheirRemove, RestOK
  <2> QED BY <2>2 DEF RestOK, TheirRemove, guards
<1> QED BY <1>1, <1>3, <1>4, <1>6

\* A share is taken back.
LEMMA TypeUnshare == ASSUME TypeInv, NEW d \in Folders, Unshare(d) PROVE TypeInv'
<1> USE DEF TypeInv
<1>1. CountOK' BY ActCount DEF Unshare
<1>2. server' \in Sides
  <2>1. server' = [m \in Nodes |-> server'[m]] BY DEF Unshare
  <2>2. \A m \in Nodes : server'[m] = server[m] \/ server'[m] = 0 BY DEF Unshare
  <2> QED BY <2>1, <2>2, SidesWith DEF FilesOK
<1>3. FilesOK' BY <1>2 DEF FilesOK, Unshare
<1>4. RowsOK' /\ SavedOK' /\ PassOK' BY BumpType DEF Unshare
<1>6. RestOK'
  <2>1. Contents(server, Whole(d)) \subseteq Writes BY SomeContents DEF FilesOK
  <2>2. Contents(disk, {m \in Whole(d) : server[m] # 0}) \subseteq Writes BY SomeContents DEF FilesOK
  <2>3. dead' \cup late' \cup orphans' \subseteq Writes BY <2>1, <2>2 DEF Unshare, RestOK
  <2> QED BY <2>3 DEF RestOK, Unshare, guards
<1> QED BY <1>1, <1>3, <1>4, <1>6

\* The copy of a share is settled.
LEMMA TypeResolve == ASSUME TypeInv, NEW d \in Folders, Resolve(d) PROVE TypeInv'
<1> USE DEF TypeInv
<1>1. CountOK' BY DEF Resolve, fixed, CountOK
<1>2. disk' \in Sides
  <2>1. CASE disk' = disk BY <2>1 DEF FilesOK
  <2>2. CASE disk' = [m \in Nodes |-> IF m \in Whole(d) THEN 0 ELSE disk[m]]
    <3>1. disk' = [m \in Nodes |-> disk'[m]] BY <2>2
    <3>2. \A m \in Nodes : disk'[m] = disk[m] \/ disk'[m] = 0 BY <2>2
    <3> QED BY <3>1, <3>2, SidesWith DEF FilesOK
  <2> QED BY <2>1, <2>2 DEF Resolve
<1>3. FilesOK' BY <1>2 DEF FilesOK, Resolve
<1>4. RowsOK' BY DEF RowsOK, Resolve, rows
<1>5. SavedOK' /\ PassOK' BY DEF SavedOK, PassOK, Resolve
<1>6. RestOK'
  <2>1. Contents(disk, Whole(d)) \subseteq Writes BY SomeContents DEF FilesOK
  <2>2. dead' \cup late' \cup orphans' \subseteq Writes BY <2>1 DEF Resolve, RestOK
  <2> QED BY <2>2 DEF RestOK, Resolve, guards, fixed
<1> QED BY <1>1, <1>3, <1>4, <1>5, <1>6

\* Steps that change little.
LEMMA TypeSmall == ASSUME TypeInv, Approve \/ Leaves \/ Returns \/ PassBegins \/ ScanFails \/ Crash PROVE TypeInv'
<1> USE DEF TypeInv
<1>1. CountOK'
  <2>1. CASE Leaves BY <2>1, ActCount DEF Leaves
  <2> QED BY <2>1 DEF Approve, Returns, PassBegins, ScanFails, Crash, fixed, CountOK
<1>2. FilesOK' BY DEF FilesOK, Approve, Leaves, Returns, PassBegins, ScanFails, Crash, files
<1>4. RowsOK' BY DEF RowsOK, Approve, Leaves, Returns, PassBegins, ScanFails, Crash, rows
<1>5. SavedOK' BY DEF SavedOK, Approve, Leaves, Returns, PassBegins, ScanFails, Crash
<1>6. PassOK'
  <2>1. CASE PassBegins BY <2>1, EmptySides DEF PassOK, PassBegins, Passes
  <2> QED BY <2>1, EmptySides DEF PassOK, Approve, Leaves, Returns, ScanFails, Crash
<1>7. RestOK'
  <2>1. CASE Crash BY <2>1 DEF RestOK, Crash, world, guards, fixed, PassOK, Passes
  <2>2. CASE Approve \/ Leaves \/ Returns BY <2>2 DEF RestOK, Approve, Leaves, Returns, world, guards, fixed, seen
  <2>3. CASE PassBegins \/ ScanFails BY <2>3 DEF RestOK, PassBegins, ScanFails, world, guards, fixed, seen
  <2> QED BY <2>1, <2>2, <2>3
<1> QED BY <1>1, <1>2, <1>4, <1>5, <1>6, <1>7

KnownF == [n \in Nodes |-> Known(n)]

\* What the rows know is a side.
LEMMA KnownType == ASSUME TypeInv PROVE KnownF \in Sides
<1> USE DEF TypeInv
<1>1. KnownF = [n \in Nodes |-> KnownF[n]] BY DEF KnownF
<1>2. \A n \in Folders : KnownF[n] \in 0 .. 1 BY DEF KnownF, Known, Nodes
<1>3. ASSUME NEW n \in Files PROVE KnownF[n] \in Writes
  <2>1. n \in Nodes /\ n \notin Folders BY TreeAssumption DEF Nodes
  <2>2. KnownF[n] = row[n] BY <2>1 DEF KnownF, Known
  <2> QED BY <2>2 DEF RowsOK
<1> QED BY <1>1, <1>2, <1>3, InSides

\* What a listing tells is a side.
LEMMA ListingType ==
  ASSUME TypeInv, NEW f \in Folders \cup {Root}
  PROVE  Listing(f) \in Sides
<1> USE DEF TypeInv
<1>1. Listing(f) = [n \in Nodes |-> Listing(f)[n]] BY DEF Listing
<1>2. ASSUME NEW n \in Nodes, Listing(f)[n] # 0 PROVE \E v \in Sides : Listing(f)[n] = v[n]
  <2>1. IsTold(f, n) /\ Listing(f)[n] = Told(f, n) BY <1>2 DEF Listing
  <2>2. CASE Parent[n] = f BY <2>1, <2>2 DEF Told, FilesOK
  <2>3. CASE Parent[n] # f /\ Pruned(f, n)
    <3>1. Told(f, n) = KnownF[n] BY <2>3 DEF Told, KnownF
    <3> QED BY <2>1, <3>1, KnownType
  <2>4. CASE Parent[n] # f /\ ~Pruned(f, n)
    <3>1. Parent[n] \in Folders
      <4>1. f = Root \/ f \in Above[n] BY <2>1 DEF IsTold, Under
      <4> QED BY <4>1, <2>4, Kin
    <3>2. saved[Parent[n]].kids \in Sides BY <3>1 DEF SavedOK, Listings
    <3>3. Told(f, n) = saved[Parent[n]].kids[n] BY <2>4 DEF Told
    <3> QED BY <2>1, <3>2, <3>3
  <2> QED BY <2>2, <2>3, <2>4
<1>3. \A n \in Nodes : Listing(f)[n] = NoListing[n] \/ \E v \in Sides : Listing(f)[n] = v[n]
  BY <1>2 DEF NoListing
<1> QED BY <1>1, <1>3, EmptySides, SidesWith

\* So is what one listing has in it.
LEMMA ChildrenType ==
  ASSUME TypeInv, NEW f \in Folders
  PROVE  Children(f) \in Sides
<1> USE DEF TypeInv
<1>1. Children(f) = [n \in Nodes |-> Children(f)[n]] BY DEF Children
<1>2. \A n \in Nodes : Children(f)[n] = server[n] \/ Children(f)[n] = 0 BY DEF Children
<1> QED BY <1>1, <1>2, SidesWith DEF FilesOK

\* A listing.
LEMMA TypeList == ASSUME TypeInv, NEW f \in Folders \cup {Root}, List(f) PROVE TypeInv'
<1> USE DEF TypeInv
<1> DEFINE L == Listing(f)
<1>1. L \in Sides BY ListingType
<1>2. Saves(f) \in [Folders -> Listings]
  <2>1. CASE f # Root /\ Cacheable(f) /\ f \in pass.now
    <3>1. f \in Folders BY <2>1
    <3>2. {f} \cup {g \in Folders : Parent[g] = f /\ server[g] = 1} \subseteq Folders BY <3>1
    <3>3. [kids |-> Children(f), now |-> {f} \cup {g \in Folders : Parent[g] = f /\ server[g] = 1}] \in Listings
      BY <3>1, <3>2, ChildrenType DEF Listings
    <3> HIDE DEF TypeInv
    <3>4. saved \in [Folders -> Listings] BY DEF SavedOK, TypeInv
    <3> QED BY <2>1, <3>1, <3>3, <3>4 DEF Saves
  <2>2. CASE ~(f # Root /\ Cacheable(f) /\ f \in pass.now) BY <2>2 DEF Saves, SavedOK
  <2> QED BY <2>1, <2>2
<1>3. CountOK' BY DEF List, fixed, CountOK
<1>4. FilesOK' BY DEF FilesOK, List, files
<1>5. RowsOK' BY DEF RowsOK, List, rows
<1>6. SavedOK' BY <1>2 DEF SavedOK, List
<1>7. PassOK'
  <2> DEFINE D == {g \in Folders : L[g] = 1}
             Q == (pass.queue \ {f}) \cup {g \in D : ~Matches(g) /\ ~Pruned(f, g) /\ g \notin Replayed}
             r == [n \in Nodes |-> IF L[n] # 0 THEN L[n] ELSE pass.remote[n]]
             S == pass.same \cup {g \in D : Matches(g) \/ Pruned(f, g)}
             N == pass.now \cup {g \in D : Matches(g) \/ ~Pruned(f, g)}
             M == pass.mount \cup {g \in D : IF Pruned(f, g) THEN g \in mounts ELSE g \in shared}
  <2>1. pass' = [pass EXCEPT !.queue = Q, !.remote = r, !.same = S, !.now = N, !.mount = M] BY DEF List
  <2>2. r \in Sides
    <3>1. pass.remote \in Sides BY DEF PassOK, Passes
    <3> HIDE DEF L
    <3>2. r = [n \in Nodes |-> r[n]] /\ \A n \in Nodes : r[n] = L[n] \/ r[n] = pass.remote[n] OBVIOUS
    <3> HIDE DEF r
    <3> QED BY <1>1, <3>1, <3>2, SidesWith
  <2>3. Q \subseteq Folders \cup {Root} /\ S \subseteq Folders /\ N \subseteq Folders /\ M \subseteq Folders BY DEF PassOK, Passes
  <2> HIDE DEF Q, r, S, N, M
  <2> QED BY <2>1, <2>2, <2>3 DEF PassOK, Passes
<1>8. RestOK' BY DEF RestOK, List, world, guards, fixed, seen
<1> QED BY <1>3, <1>4, <1>5, <1>6, <1>7, <1>8

\* Rows are dropped.
LEMMA DropType ==
  ASSUME RowsOK, NEW N, Drop(N)
  PROVE  RowsOK'
BY WritesIs DEF RowsOK, Drop


\* What a plan has.
LEMMA DiffType == Diff \in [Nodes -> Kinds] /\ Remaining(Diff) \in [Nodes -> Kinds]
<1>1. \A n \in Nodes : OfFile(n) \in Kinds BY DEF OfFile, Kinds
<1>2. \A n \in Nodes : OfFolder(n) \in Kinds BY DEF OfFolder, Kinds
<1>3. Diff \in [Nodes -> Kinds] BY <1>1, <1>2 DEF Diff
<1> QED BY <1>3 DEF Remaining, Kinds

\* What a pass is when it begins to act.
LEMMA ActType ==
  ASSUME NEW q \in Passes, NEW p \in [Nodes -> Kinds], NEW R \in SUBSET Nodes, NEW b \in BOOLEAN
  PROVE  [q EXCEPT !.at = "act", !.plan = p, !.known = R, !.granted = b] \in Passes
BY DEF Passes

\* The plan and its guards.
LEMMA TypePlan == ASSUME TypeInv, Plan PROVE TypeInv'
<1> USE DEF TypeInv
<1> DEFINE p == Remaining(Diff)
           R == Rows(Dead \cup Spared(Diff))
<1>3. CountOK' BY DEF Plan, fixed, CountOK
<1>4. FilesOK' BY DEF FilesOK, Plan, files
<1>5. RowsOK' BY DropType DEF Plan
<1>6. SavedOK' BY DEF SavedOK, Plan
<1>7. PassOK'
  <2>1. p \in [Nodes -> Kinds] /\ R \in SUBSET Nodes BY DiffType DEF Rows
  <2>2. pass' = Idle \/ pass' = [pass EXCEPT !.at = "act", !.plan = p, !.known = R, !.granted = granted] BY DEF Plan
  <2> HIDE DEF p, R
  <2>3. granted \in BOOLEAN BY DEF RestOK
  <2> HIDE DEF TypeInv
  <2>4. pass \in Passes BY DEF TypeInv, PassOK
  <2>5. [pass EXCEPT !.at = "act", !.plan = p, !.known = R, !.granted = granted] \in Passes
    BY <2>1, <2>3, <2>4, ActType
  <2> QED BY <2>2, <2>5, EmptySides DEF PassOK
<1>8. RestOK'
  <2>1. parked' \subseteq Folders /\ asked' \subseteq Folders BY DEF Plan, Detached, RowsOK, RestOK, Gone
  <2>2. guard' \in {"none", "frozen", "exempt"} /\ refused' \in BOOLEAN /\ granted' \in BOOLEAN
    BY DEF Plan, Spend, RestOK, Refuses
  <2> QED BY <2>1, <2>2 DEF RestOK, Plan, fixed
<1> QED BY <1>3, <1>4, <1>5, <1>6, <1>7, <1>8

\* A pass with nothing to do.
LEMMA TypeQuiet == ASSUME TypeInv, Quiet PROVE TypeInv'
<1> USE DEF TypeInv
<1>3. CountOK' BY DEF Quiet, fixed, CountOK
<1>4. FilesOK' BY DEF FilesOK, Quiet, files
<1>5. RowsOK'
  <2>1. Listed({}) \subseteq Folders BY DEF Listed
  <2>2. pass.mount \subseteq Folders BY DEF PassOK, Passes
  <2>3. row' \in [Files -> Writes] BY WritesIs DEF Quiet, RowsOK
  <2>4. dirs' \in [Folders -> {"none", "stale", "fresh"}] BY DEF Quiet, RowsOK
  <2>5. mounts' \subseteq {f \in Folders : dirs'[f] # "none"} BY <2>1, <2>2 DEF Quiet, RowsOK
  <2> QED BY <2>3, <2>4, <2>5 DEF RowsOK
<1>6. SavedOK' BY EmptySides DEF SavedOK, Quiet, Clear
<1>7. PassOK' BY EmptySides DEF Quiet, PassOK
<1>8. RestOK'
  <2>1. parked' \subseteq Folders /\ asked' \subseteq Folders BY DEF Quiet, Detached, RowsOK, RestOK, Gone
  <2> QED BY <2>1 DEF RestOK, Quiet, fixed
<1> QED BY <1>3, <1>4, <1>5, <1>6, <1>7, <1>8

\* What an action leaves of the pass: its own entry of the plan, and some of the ETags.
LEMMA DidType ==
  ASSUME PassOK, NEW n \in Nodes, NEW T
  PROVE  /\ Did(n) \in Passes
         /\ [Did(n) EXCEPT !.now = @ \ T] \in Passes
         /\ \A N : Hurt(n, N) \in Passes
         /\ [Did(n) EXCEPT !.problems = @ \cup {n}] \in Passes
<1>1. [pass.plan EXCEPT ![n] = "none"] \in [Nodes -> Kinds] BY DEF PassOK, Passes, Kinds
<1>2. Did(n) \in Passes BY <1>1 DEF PassOK, Passes, Did
<1> DEFINE q == Did(n)
<1> HIDE DEF q
<1>3. q \in Passes BY <1>2 DEF q
<1>4. [q EXCEPT !.now = @ \ T] \in Passes BY <1>3 DEF Passes
<1>5. [q EXCEPT !.problems = @ \cup {n}] \in Passes BY <1>3 DEF Passes
<1>6. ASSUME NEW N PROVE [q EXCEPT !.hurt = @ \cup {m \in N \cap pass.known : HasB(m)}] \in Passes
  <2>1. {m \in N \cap pass.known : HasB(m)} \subseteq Nodes BY DEF PassOK, Passes
  <2> QED BY <1>3, <2>1 DEF Passes
<1> QED BY <1>3, <1>4, <1>5, <1>6 DEF q, Hurt

\* What a transfer leaves alone.
LEMMA KeepsType ==
  ASSUME RestOK, CountOK, Keeps, dead' \subseteq Writes
  PROVE  RestOK' /\ CountOK'
<1>1. RestOK' BY DEF RestOK, Keeps, world, guards, fixed
<1>2. CountOK' BY DEF CountOK, Keeps, fixed
<1> QED BY <1>1, <1>2

\* An action fails.
LEMMA TypeFails == ASSUME TypeInv, NEW n \in Nodes, Fails(n) PROVE TypeInv'
<1> USE DEF TypeInv
<1>3. CountOK' BY DEF Fails, fixed, CountOK
<1>4. FilesOK' BY DEF FilesOK, Fails, files
<1>5. RowsOK' BY DEF Fails, RowsOK, rows
<1>6. SavedOK' BY DEF SavedOK, Fails
<1>7. PassOK' BY DidType DEF PassOK, Fails
<1>8. RestOK' BY DEF RestOK, Fails, world, guards, fixed, seen
<1> QED BY <1>3, <1>4, <1>5, <1>6, <1>7, <1>8

\* A folder is made here.
LEMMA TypeMkLocal == ASSUME TypeInv, NEW f \in Folders, MkLocal(f) PROVE TypeInv'
<1> USE DEF TypeInv
<1>3. CountOK' BY DEF MkLocal, fixed, CountOK
<1>4. FilesOK'
  <2>1. disk' = [m \in Nodes |-> disk'[m]] BY DEF MkLocal
  <2>2. \A m \in Nodes : disk'[m] = disk[m] \/ (m \in Folders /\ disk'[m] = 1) BY Kin DEF MkLocal, Nodes
  <2>3. disk' \in Sides BY <2>1, <2>2, SidesWith DEF FilesOK
  <2> QED BY <2>3 DEF FilesOK, MkLocal
<1>5. RowsOK' BY DEF MkLocal, RowsOK
<1>6. SavedOK' BY DEF SavedOK, MkLocal
<1>7. PassOK'
  <2>1. Did(f) \in Passes BY DidType DEF Nodes
  <2>2. [Did(f) EXCEPT !.made = @ \cup {f}] \in Passes BY <2>1 DEF Passes
  <2> QED BY <2>2 DEF MkLocal, PassOK
<1>8. RestOK' BY DEF RestOK, MkLocal, world, guards, fixed, seen
<1> QED BY <1>3, <1>4, <1>5, <1>6, <1>7, <1>8

\* A folder is made on the server.
LEMMA TypeMkRemote == ASSUME TypeInv, NEW f \in Folders, MkRemote(f) PROVE TypeInv'
<1> USE DEF TypeInv
<1> DEFINE T == IF server[f] = 0 THEN Above[f] ELSE {}
<1>3. CountOK' BY DEF MkRemote, fixed, CountOK
<1>4. FilesOK'
  <2>1. server' = [m \in Nodes |-> server'[m]] BY OfSides DEF MkRemote, FilesOK
  <2>2. \A m \in Nodes : server'[m] = server[m] \/ (m \in Folders /\ server'[m] = 1) BY OfSides DEF MkRemote, Nodes, FilesOK
  <2>3. server' \in Sides BY <2>1, <2>2, SidesWith DEF FilesOK
  <2> QED BY <2>3 DEF FilesOK, MkRemote
<1>5. RowsOK'
  <2>1. dirs' = [Stale(T) EXCEPT ![f] = "fresh"] BY DEF MkRemote
  <2> HIDE DEF T
  <2>2. dirs' \in [Folders -> {"none", "stale", "fresh"}] BY <2>1, StaleType
  <2>3. mounts' \subseteq {g \in Folders : dirs'[g] # "none"} BY <2>1, StaleType DEF MkRemote, RowsOK
  <2> QED BY <2>2, <2>3 DEF RowsOK, MkRemote
<1>6. SavedOK'
  <2>1. saved' = Kept(Passed(T)) BY DEF MkRemote
  <2> QED BY <2>1, KeptType DEF SavedOK
<1>7. PassOK'
  <2> DEFINE M == {g \in {f} : \E n \in Whole(f) \ {f} : Known(n) # 0}
  <2>1. Did(f) \in Passes BY DidType DEF Nodes
  <2>2. M \subseteq Folders OBVIOUS
  <2>3. pass' = [Did(f) EXCEPT !.now = @ \ T, !.made = @ \cup M] BY DEF MkRemote
  <2> HIDE DEF T, M
  <2>4. [Did(f) EXCEPT !.now = @ \ T, !.made = @ \cup M] \in Passes BY <2>1, <2>2 DEF Passes
  <2> QED BY <2>3, <2>4 DEF PassOK
<1>8. RestOK' BY DEF RestOK, MkRemote, world, guards, fixed
<1> QED BY <1>3, <1>4, <1>5, <1>6, <1>7, <1>8

\* A file goes up.
LEMMA UploadsType ==
  ASSUME TypeInv, NEW n \in Nodes, NEW over \in SUBSET Writes, Uploads(n, over), Keeps
  PROVE  TypeInv'
<1> USE DEF TypeInv
<1>1. dead' \subseteq Writes BY DEF Uploads, RestOK
<1>2. RestOK' /\ CountOK' BY <1>1, KeepsType
<1>3. server' \in Sides
  <2>1. server' = [m \in Nodes |-> server'[m]] BY OfSides DEF Uploads, FilesOK
  <2>2. \A m \in Nodes : server'[m] = server[m] \/ server'[m] = disk[m] BY OfSides DEF Uploads, FilesOK
  <2> QED BY <2>1, <2>2, SidesWith DEF FilesOK
<1>4. FilesOK' BY <1>3 DEF Uploads, FilesOK
<1>5. RowsOK'
  <2>1. n \in Files => disk[n] \in Writes BY OfSides DEF FilesOK
  <2>2. row' \in [Files -> Writes] BY <2>1 DEF Uploads, RowsOK
  <2> QED BY <2>2, StaleType DEF RowsOK, Uploads
<1>6. SavedOK' BY KeptType DEF Uploads, SavedOK
<1>7. PassOK' BY DidType DEF Uploads, PassOK
<1> QED BY <1>2, <1>4, <1>5, <1>6, <1>7

\* A file comes down.
LEMMA DownloadsType ==
  ASSUME TypeInv, NEW n \in Nodes, NEW over \in SUBSET Writes, Downloads(n, over), Keeps
  PROVE  TypeInv'
<1> USE DEF TypeInv
<1>1. dead' \subseteq Writes BY DEF Downloads, RestOK
<1>2. RestOK' /\ CountOK' BY <1>1, KeepsType
<1>3. disk' \in Sides
  <2>1. disk' = [m \in Nodes |-> disk'[m]] BY DEF Downloads
  <2>2. \A m \in Nodes : disk'[m] = disk[m] \/ disk'[m] = server[m] \/ (m \in Folders /\ disk'[m] = 1)
    BY Kin DEF Downloads, Nodes
  <2> QED BY <2>1, <2>2, SidesWith DEF FilesOK
<1>4. FilesOK' BY <1>3 DEF Downloads, FilesOK
<1>5. RowsOK'
  <2>1. n \in Files => server[n] \in Writes BY OfSides DEF FilesOK
  <2>2. row' \in [Files -> Writes] BY <2>1 DEF Downloads, RowsOK
  <2> QED BY <2>2 DEF RowsOK, Downloads
<1>6. SavedOK' BY DEF Downloads, SavedOK
<1>7. PassOK' BY DidType DEF Downloads, PassOK
<1> QED BY <1>2, <1>4, <1>5, <1>6, <1>7

\* Files are what transfers and conflicts are about: the plan says so (PlanFits).
LEMMA TypeTransfers ==
  ASSUME TypeInv, NEW n \in Files, Upload(n) \/ Download(n) \/ Settle(n) \/ Absorb(n)
  PROVE  TypeInv'
<1> USE DEF TypeInv
<1>1. server[n] \in Writes /\ disk[n] \in Writes /\ n \in Nodes BY OfSides DEF FilesOK, Nodes
<1>2. CASE Upload(n) BY <1>1, <1>2, UploadsType DEF Upload
<1>3. CASE Download(n) BY <1>1, <1>3, DownloadsType DEF Download
<1>4. CASE Settle(n) BY <1>1, <1>4, UploadsType, DownloadsType DEF Settle
<1>5. CASE Absorb(n)
  <2>1. RestOK' /\ CountOK' BY <1>5, KeepsType DEF Absorb, RestOK
  <2>2. FilesOK' BY <1>5 DEF FilesOK, Absorb, files
  <2>3. RowsOK' BY <1>1, <1>5 DEF RowsOK, Absorb
  <2>4. SavedOK' BY <1>5 DEF SavedOK, Absorb
  <2>5. PassOK' BY <1>1, <1>5, DidType DEF PassOK, Absorb
  <2> QED BY <2>1, <2>2, <2>3, <2>4, <2>5
<1> QED BY <1>2, <1>3, <1>4, <1>5

\* A tree is removed here.
LEMMA TypeDeleteLocal == ASSUME TypeInv, NEW n \in Nodes, DeleteLocal(n) PROVE TypeInv'
<1> USE DEF TypeInv
<1>1. RestOK' /\ CountOK' BY KeepsType DEF DeleteLocal, RestOK
<1>2. FilesOK'
  <2>1. disk' = [m \in Nodes |-> disk'[m]] BY DEF DeleteLocal
  <2>2. \A m \in Nodes : disk'[m] = disk[m] \/ disk'[m] = 0 BY DEF DeleteLocal
  <2>3. disk' \in Sides BY <2>1, <2>2, SidesWith DEF FilesOK
  <2>4. Contents(disk, Whole(n)) \subseteq Writes BY SomeContents DEF FilesOK
  <2> QED BY <2>3, <2>4 DEF DeleteLocal, FilesOK
<1>3. RowsOK' BY DropType DEF DeleteLocal
<1>4. SavedOK' BY DEF SavedOK, DeleteLocal
<1>5. PassOK' BY DidType DEF PassOK, DeleteLocal
<1> QED BY <1>1, <1>2, <1>3, <1>4, <1>5

\* A tree is removed on the server.
LEMMA TypeDeleteRemote == ASSUME TypeInv, NEW n \in Nodes, DeleteRemote(n) PROVE TypeInv'
<1> USE DEF TypeInv
<1> DEFINE T == Above[n] \cup (Whole(n) \cap Folders)
<1>3. CountOK' BY DEF DeleteRemote, fixed, CountOK
<1>4. FilesOK'
  <2>1. server' = [m \in Nodes |-> server'[m]] BY DEF DeleteRemote
  <2>2. \A m \in Nodes : server'[m] = server[m] \/ server'[m] = 0 BY DEF DeleteRemote
  <2>3. server' \in Sides BY <2>1, <2>2, SidesWith DEF FilesOK
  <2> QED BY <2>3 DEF FilesOK, DeleteRemote
<1>5. RowsOK'
  <2>1. dirs' = [f \in Folders |-> IF f \in Whole(n) THEN "none" ELSE Stale(T)[f]] BY DEF DeleteRemote
  <2> HIDE DEF T
  <2>2. dirs' \in [Folders -> {"none", "stale", "fresh"}] BY <2>1, StaleType
  <2>3. mounts' \subseteq {g \in Folders : dirs'[g] # "none"} BY <2>1, StaleType DEF DeleteRemote, RowsOK
  <2>4. row' \in [Files -> Writes] BY WritesIs DEF DeleteRemote, RowsOK
  <2> QED BY <2>2, <2>3, <2>4 DEF RowsOK
<1>6. SavedOK'
  <2>1. saved' = Kept(Passed(T)) BY DEF DeleteRemote
  <2> QED BY <2>1, KeptType DEF SavedOK
<1>7. PassOK'
  <2>1. pass' = [Did(n) EXCEPT !.now = @ \ T] BY DEF DeleteRemote
  <2> QED BY <2>1, DidType DEF PassOK
<1>8. RestOK'
  <2>1. Contents(server, Whole(n)) \subseteq Writes BY SomeContents DEF FilesOK
  <2>2. dead' \subseteq Writes BY <2>1 DEF DeleteRemote, RestOK
  <2> QED BY <2>2 DEF RestOK, DeleteRemote, guards, fixed
<1> QED BY <1>3, <1>4, <1>5, <1>6, <1>7, <1>8

\* The pass is cancelled.
LEMMA TypeCut == ASSUME TypeInv, Cut PROVE TypeInv'
<1> USE DEF TypeInv
<1>3. CountOK' BY DEF Cut, fixed, CountOK
<1>4. FilesOK' BY DEF FilesOK, Cut, files
<1>5. RowsOK' BY DEF Cut, RowsOK, rows
<1>6. SavedOK' BY DEF SavedOK, Cut
<1>7. PassOK'
  <2> DEFINE p == [n \in Nodes |-> IF pass.plan[n] \in {"upload", "download"} THEN "none" ELSE pass.plan[n]]
  <2>1. p \in [Nodes -> Kinds] BY DEF PassOK, Passes, Kinds
  <2>2. pass' = [pass EXCEPT !.cut = TRUE, !.plan = p] BY DEF Cut
  <2> HIDE DEF p
  <2>3. [pass EXCEPT !.cut = TRUE, !.plan = p] \in Passes BY <2>1 DEF PassOK, Passes
  <2> QED BY <2>2, <2>3 DEF PassOK
<1>8. RestOK' BY DEF RestOK, Cut, world, guards, fixed, PassOK, Passes
<1> QED BY <1>3, <1>4, <1>5, <1>6, <1>7, <1>8

\* The pass ends.
LEMMA TypeEnds == ASSUME TypeInv, Ends PROVE TypeInv'
<1> USE DEF TypeInv
<1>3. CountOK' BY DEF Ends, fixed, CountOK
<1>4. FilesOK' BY DEF FilesOK, Ends, files
<1>5. RowsOK'
  <2> DEFINE S == IF pass.cut THEN {} ELSE Listed(pass.problems)
  <2>1. Stamp(pass.problems, S) BY DEF Ends
  <2>2. S \subseteq Folders BY DEF Listed
  <2> HIDE DEF S
  <2>3. pass.mount \subseteq Folders BY DEF PassOK, Passes
  <2>4. dirs' \in [Folders -> {"none", "stale", "fresh"}] BY <2>1 DEF Stamp, RowsOK
  <2>5. mounts' \subseteq {f \in Folders : dirs'[f] # "none"} BY <2>1, <2>2, <2>3 DEF Stamp, RowsOK
  <2> QED BY <2>4, <2>5 DEF RowsOK, Ends
<1>6. SavedOK' BY EmptySides DEF SavedOK, Ends, Clear
<1>7. PassOK' BY EmptySides DEF Ends, PassOK
<1>8. RestOK' BY DEF RestOK, Ends, world, guards, fixed, PassOK, Passes
<1> QED BY <1>3, <1>4, <1>5, <1>6, <1>7, <1>8

(*************************************************************************)
(* What is known of the server.  Of a server s: folders are there above  *)
(* what is there (Up); a row that is fresh, an ETag that is current and  *)
(* a checkpoint that applies describe what is there.  Changes(s, t, T):  *)
(* from s to t only the ETags of T change.                               *)
(*************************************************************************)
Hid(n, H) == H \cap ({n} \cup Above[n]) # {}
Waits(Q, n) == \E g \in Q : Under(g, n)

Up(s)             == \A n \in Nodes : s[n] # 0 => \A k \in Above[n] : s[k] = 1
FreshUp(s, d)     == \A f \in Folders : d[f] = "fresh" => s[f] = 1
NowUp(s, now)     == \A f \in now : s[f] = 1
SavedTrue(s, sv)  == \A f \in Folders : f \in sv[f].now =>
                       s[f] = 1 /\ \A n \in Nodes : sv[f].kids[n] = IF Parent[n] = f THEN s[n] ELSE 0
ServerOK(s, d, now, sv) == Up(s) /\ FreshUp(s, d) /\ NowUp(s, now) /\ SavedTrue(s, sv)

Changes(s, t, T) ==
  /\ \A n \in Nodes : t[n] # s[n] => Above[n] \subseteq T
  /\ \A f \in Folders : s[f] = 1 /\ t[f] # 1 => f \in T

\* What is under something hidden is hidden.
LEMMA HidUp == ASSUME NEW n \in Nodes, NEW f \in Above[n], NEW H, Hid(f, H) PROVE Hid(n, H)
BY Higher DEF Hid

\* What is in the tree of a node.
LEMMA InWhole ==
  ASSUME NEW n \in Nodes, NEW m \in Nodes
  PROVE  /\ m \in Whole(n) <=> m = n \/ n \in Above[m]
         /\ m \in Whole(n) => Above[m] \subseteq Above[n] \cup (Whole(n) \cap Folders) /\ Above[n] \subseteq Above[m]
         /\ m \notin Whole(n) => Above[m] \cap Whole(n) = {}
<1>1. m \in Whole(n) <=> m = n \/ n \in Above[m] BY DEF Whole
<1>2. ASSUME m \in Whole(n), NEW k \in Above[m] PROVE k \in Above[n] \cup (Whole(n) \cap Folders)
  BY <1>1, <1>2, Chain, Kin DEF Whole, Nodes
<1>3. m \in Whole(n) => Above[n] \subseteq Above[m] BY <1>1, Higher
<1>4. ASSUME m \notin Whole(n), NEW k \in Above[m], k \in Whole(n) PROVE FALSE
  BY <1>1, <1>4, Higher DEF Whole
<1> QED BY <1>1, <1>2, <1>3, <1>4

\* Where the parent is there, all folders above are.
LEMMA Rooted ==
  ASSUME NEW s, Up(s), NEW n \in Nodes, Parent[n] = Root \/ s[Parent[n]] = 1
  PROVE  \A k \in Above[n] : s[k] = 1
BY Kin DEF Up

\* Something is put under a name, in folders that are there by then.
LEMMA Grown ==
  ASSUME NEW s, Up(s), NEW n \in Nodes, NEW t, NEW v,
         \A m \in Nodes : t[m] = IF m = n THEN v ELSE IF m \in Above[n] THEN 1 ELSE s[m],
         n \in Folders => v = 1
  PROVE  Up(t) /\ Changes(s, t, Above[n])
<1>1. ASSUME NEW m \in Nodes, t[m] # 0, NEW k \in Above[m] PROVE t[k] = 1
  <2>1. k \in Folders /\ k \in Nodes BY Kin DEF Nodes
  <2>2. CASE m = n \/ m \in Above[n] BY <2>1, <2>2, Higher, Kin
  <2>3. CASE ~(m = n \/ m \in Above[n])
    <3>1. s[k] = 1 BY <1>1, <2>3 DEF Up
    <3> QED BY <2>1, <3>1
  <2> QED BY <2>2, <2>3
<1>2. \A m \in Nodes : t[m] # s[m] => Above[m] \subseteq Above[n] BY Higher
<1>3. \A f \in Folders : s[f] = 1 => t[f] = 1 BY DEF Nodes
<1> QED BY <1>1, <1>2, <1>3 DEF Up, Changes

\* A tree is removed.
LEMMA Felled ==
  ASSUME NEW s, Up(s), NEW n \in Nodes, NEW t,
         \A m \in Nodes : t[m] = IF m \in Whole(n) THEN 0 ELSE s[m]
  PROVE  Up(t) /\ Changes(s, t, Above[n] \cup (Whole(n) \cap Folders))
<1>1. ASSUME NEW m \in Nodes, t[m] # 0, NEW k \in Above[m] PROVE t[k] = 1
  <2>1. k \in Nodes BY Kin DEF Nodes
  <2>2. m \notin Whole(n) /\ s[m] # 0 BY <1>1
  <2>3. k \notin Whole(n) BY <2>2, InWhole
  <2> QED BY <1>1, <2>1, <2>2, <2>3 DEF Up
<1>2. \A m \in Nodes : t[m] # s[m] => Above[m] \subseteq Above[n] \cup (Whole(n) \cap Folders) BY InWhole
<1>3. \A f \in Folders : s[f] = 1 /\ t[f] # 1 => f \in Whole(n) \cap Folders BY DEF Nodes
<1> QED BY <1>1, <1>2, <1>3 DEF Up, Changes

\* What a change of the server leaves of what was known of it.
LEMMA KeptTrue ==
  ASSUME SavedOK, NEW s, SavedTrue(s, saved), NEW t, NEW T, Changes(s, t, T)
  PROVE  SavedTrue(t, Kept(Passed(T)))
<1> SUFFICES ASSUME NEW f \in Folders, f \in Kept(Passed(T))[f].now
             PROVE  t[f] = 1 /\ \A n \in Nodes : Kept(Passed(T))[f].kids[n] = IF Parent[n] = f THEN t[n] ELSE 0
  BY DEF SavedTrue
<1>1. f \in saved[f].now /\ f \notin T /\ Kept(Passed(T))[f].kids = saved[f].kids
  <2>1. Kept(Passed(T))[f] = IF f \in Passed(T)[f].now THEN Passed(T)[f] ELSE None BY DEF Kept
  <2>2. f \in Passed(T)[f].now /\ Kept(Passed(T))[f] = Passed(T)[f] BY <2>1 DEF None
  <2>3. saved[f] # None /\ Passed(T)[f] = [saved[f] EXCEPT !.now = saved[f].now \ T] BY <2>2 DEF Passed, None
  <2>4. saved[f] \in Listings BY DEF SavedOK
  <2> QED BY <2>2, <2>3, <2>4 DEF Listings
<1>2. s[f] = 1 /\ \A n \in Nodes : saved[f].kids[n] = IF Parent[n] = f THEN s[n] ELSE 0 BY <1>1 DEF SavedTrue
<1>3. t[f] = 1 BY <1>1, <1>2 DEF Changes
<1>4. ASSUME NEW n \in Nodes, Parent[n] = f PROVE t[n] = s[n]
  <2>1. f \in Above[n] BY <1>4, Kin, TreeAssumption DEF Nodes
  <2> QED BY <1>1, <2>1 DEF Changes
<1> QED BY <1>1, <1>2, <1>3, <1>4

\* A change of the server that changes the ETags above it keeps all that is known of the server true.
LEMMA BumpServer ==
  ASSUME SavedOK, NEW s, NEW d, NEW now, ServerOK(s, d, now, saved),
         NEW t, NEW T, Up(t), Changes(s, t, T),
         NEW e, \A f \in Folders : e[f] = "fresh" => (d[f] = "fresh" /\ f \notin T) \/ t[f] = 1,
         now \subseteq Folders
  PROVE  ServerOK(t, e, now \ T, Kept(Passed(T)))
<1>1. SavedTrue(t, Kept(Passed(T))) BY KeptTrue DEF ServerOK
<1>2. FreshUp(t, e) BY DEF ServerOK, FreshUp, Changes
<1>3. NowUp(t, now \ T) BY DEF ServerOK, NowUp, Changes
<1> QED BY <1>1, <1>2, <1>3 DEF ServerOK

(*************************************************************************)
(* The invariant.  Under a row that is fresh, every row K is what the    *)
(* server has, but for what is hidden or parked (RowsTrue).  What the    *)
(* scan was told, r, is closed upwards and true under ETags that are     *)
(* current, or a listing still waits for it (ScanOK); the plan fits it;  *)
(* and what a pass is done with is known as it was told, unless the      *)
(* folders above will not be stamped (DoneTrue).                         *)
(*************************************************************************)
RowsTrue(s, K, d, P, H) ==
  \A n \in Nodes : \A f \in Above[n] : d[f] = "fresh" => K[n] = s[n] \/ Hid(n, H) \/ Hid(n, P)
ParkedOut(K, P, r, plan) == \A n \in Nodes : Hid(n, P) => K[n] = 0 /\ r[n] = 0 /\ plan[n] = "none"

Closed(r)       == \A n \in Nodes : r[n] # 0 => \A k \in Above[n] : r[k] = 1
NowTold(r, now) == \A f \in now : r[f] = 1
QueueTold(r, Q) ==
  /\ \A g \in Q : g = Root \/ r[g] = 1
  /\ \A n \in Nodes : Waits(Q, n) => r[n] = 0
ToldTrue(s, r, now, Q, H, P) ==
  \A n \in Nodes : \A f \in Above[n] : f \in now => s[n] = r[n] \/ Hid(n, H) \/ Hid(n, P) \/ Waits(Q, n)
FreshNow(d, r, now) == \A f \in Folders : d[f] = "fresh" /\ r[f] = 1 => f \in now
ScanOK(s, d, r, now, Q, H, P) ==
  Closed(r) /\ NowTold(r, now) /\ QueueTold(r, Q) /\ ToldTrue(s, r, now, Q, H, P) /\ FreshNow(d, r, now)
FreshTold(s, d, r, Q, H) ==
  \A f \in Folders : d[f] = "fresh" =>
    r[f] = 1 \/ Waits(Q, f) \/ Hid(f, H) \/ \A n \in Nodes : f \in Above[n] => s[n] = 0
SameKnown(d, same) == \A f \in same : d[f] # "none"

PlanFits(plan, r, same) ==
  \A n \in Nodes :
    /\ plan[n] = "mkLocal" => n \in Folders /\ r[n] = 1 /\ n \notin same
    /\ plan[n] = "mkRemote" => n \in Folders /\ r[n] = 0
    /\ plan[n] \in {"upload", "download", "conflict"} => n \in Files
    /\ plan[n] = "download" => r[n] # 0
    /\ plan[n] = "deleteLocal" => r[n] = 0
    /\ plan[n] = "deleteRemote" => r[n] # 0
Touched(n, d, now, plan) ==
  \A f \in Above[n] : f \notin now /\ d[f] # "fresh" /\ plan[f] \notin {"mkLocal", "mkRemote"}
DoneTrue(K, r, same, H, d, now, plan, problems) ==
  \A n \in Nodes : plan[n] = "none" /\ n \notin problems =>
    K[n] = r[n] \/ (n \in Folders /\ r[n] = 1 /\ n \notin same) \/ Hid(n, H) \/ Touched(n, d, now, plan)

PassShape ==
  /\ pass.at = "idle" => pass = Idle
  /\ pass.at = "scan" => /\ pass.plan = NoPlan /\ pass.problems = {} /\ ~pass.cut
                         /\ pass.made = {} /\ pass.hurt = {} /\ SameKnown(dirs, pass.same)
  /\ pass.at # "scan" => pass.queue = {}
  /\ pass.at # "idle" => FreshTold(server, dirs, pass.remote, pass.queue, hid)
  /\ pass.at = "act" /\ ~pass.cut =>
       DoneTrue(KnownF, pass.remote, pass.same, hid, dirs, pass.now, pass.plan, pass.problems)
TreeInv ==
  /\ ServerOK(server, dirs, pass.now, saved)
  /\ RowsTrue(server, KnownF, dirs, parked, hid \cup pass.made)
  /\ ParkedOut(KnownF, parked, pass.remote, pass.plan)
  /\ ScanOK(server, dirs, pass.remote, pass.now, pass.queue, hid, parked)
  /\ PlanFits(pass.plan, pass.remote, pass.same)
  /\ PassShape

\* More may be hidden.
LEMMA HidMore == ASSUME NEW n, NEW H, NEW G, Hid(n, H), H \subseteq G PROVE Hid(n, G)
BY DEF Hid

\* Hidden by either of two sets.
LEMMA HidEither == ASSUME NEW n, NEW H, NEW G PROVE Hid(n, H \cup G) <=> Hid(n, H) \/ Hid(n, G)
BY DEF Hid

\* A parked node is one under a parked share.
LEMMA Unhidden == ASSUME TypeInv, NEW n \in Nodes PROVE n \in Parked <=> Hid(n, parked)
<1>1. parked \subseteq Nodes BY DEF TypeInv, RestOK, Nodes
<1>2. n \in Parked <=> \E p \in parked : n \in Whole(p) BY DEF Parked
<1> QED BY <1>1, <1>2, InWhole DEF Hid

\* What a change of the server leaves of what the scan was told.
LEMMA BumpScan ==
  ASSUME NEW s, NEW d, NEW r, NEW now, NEW Q, NEW H, NEW P, ScanOK(s, d, r, now, Q, H, P),
         NEW t, NEW T, Changes(s, t, T), NEW G, H \subseteq G,
         NEW e, \A f \in Folders : e[f] = "fresh" /\ r[f] = 1 => (d[f] = "fresh" /\ f \notin T) \/ f \in now \ T
  PROVE  ScanOK(t, e, r, now \ T, Q, G, P)
<1>1. Closed(r) /\ QueueTold(r, Q) /\ NowTold(r, now \ T) BY DEF ScanOK, NowTold
<1>2. ASSUME NEW n \in Nodes, NEW f \in Above[n], f \in now \ T
      PROVE  t[n] = r[n] \/ Hid(n, G) \/ Hid(n, P) \/ Waits(Q, n)
  <2>1. s[n] = r[n] \/ Hid(n, H) \/ Hid(n, P) \/ Waits(Q, n) BY <1>2 DEF ScanOK, ToldTrue
  <2>2. t[n] = s[n] BY <1>2 DEF Changes
  <2> QED BY <2>1, <2>2, HidMore
<1>3. ToldTrue(t, r, now \ T, Q, G, P) BY <1>2 DEF ToldTrue
<1>4. FreshNow(e, r, now \ T) BY DEF ScanOK, FreshNow
<1> QED BY <1>1, <1>3, <1>4 DEF ScanOK

\* A row that stays fresh was looked at, or has nothing beneath it.
LEMMA BumpFresh ==
  ASSUME NEW s, NEW d, NEW r, NEW Q, NEW H, FreshTold(s, d, r, Q, H),
         NEW t, NEW T, Changes(s, t, T), NEW G, H \subseteq G,
         NEW e, \A f \in Folders : e[f] = "fresh" =>
                  \/ d[f] = "fresh" /\ f \notin T
                  \/ r[f] = 1 \/ Hid(f, G) \/ (\A n \in Nodes : f \in Above[n] => t[n] = 0)
  PROVE  FreshTold(t, e, r, Q, G)
<1> SUFFICES ASSUME NEW f \in Folders, e[f] = "fresh", d[f] = "fresh", f \notin T
             PROVE  r[f] = 1 \/ Waits(Q, f) \/ Hid(f, G) \/ \A n \in Nodes : f \in Above[n] => t[n] = 0
  BY DEF FreshTold
<1>1. r[f] = 1 \/ Waits(Q, f) \/ Hid(f, H) \/ \A n \in Nodes : f \in Above[n] => s[n] = 0 BY DEF FreshTold
<1>2. \A n \in Nodes : f \in Above[n] => t[n] = s[n] BY DEF Changes
<1> QED BY <1>1, <1>2, HidMore

\* What is done stays done.
LEMMA BumpDone ==
  ASSUME NEW K, NEW r, NEW same, NEW H, NEW d, NEW now, NEW plan, NEW problems,
         DoneTrue(K, r, same, H, d, now, plan, problems),
         NEW T, NEW e, \A f \in Folders : e[f] = "fresh" => d[f] = "fresh"
  PROVE  DoneTrue(K, r, same, H, e, now \ T, plan, problems)
<1>1. \A n \in Nodes : Touched(n, d, now, plan) => Touched(n, e, now \ T, plan) BY Kin DEF Touched
<1> QED BY <1>1 DEF DoneTrue

\* The server changed under folders T: what the client knows bears it.
LEMMA BumpInv ==
  ASSUME TypeInv, TreeInv, NEW T, Bump(T), Changes(server, server', T), Up(server'),
         UNCHANGED << row, hid, parked >>
  PROVE  TreeInv'
<1> USE DEF Bump
<1>1. pass' = [pass EXCEPT !.now = @ \ T] /\ pass'.now = pass.now \ T BY DEF TypeInv, PassOK, Passes
<1>2. /\ pass'.at = pass.at /\ pass'.queue = pass.queue /\ pass'.remote = pass.remote /\ pass'.same = pass.same
      /\ pass'.plan = pass.plan /\ pass'.problems = pass.problems /\ pass'.cut = pass.cut /\ pass'.made = pass.made
      /\ pass'.hurt = pass.hurt
  BY <1>1 DEF TypeInv, PassOK, Passes
<1>3. \A f \in Folders : dirs'[f] = "fresh" => dirs[f] = "fresh" /\ f \notin T BY DEF Stale
<1>4. KnownF' = KnownF /\ \A f \in Folders : dirs'[f] = "none" <=> dirs[f] = "none"
  <2>1. \A f \in Folders : dirs'[f] = "none" <=> dirs[f] = "none" BY StaleType DEF TypeInv
  <2> QED BY <2>1 DEF KnownF, Known
<1>5. ServerOK(server', dirs', pass'.now, saved')
  <2>1. SavedOK /\ pass.now \subseteq Folders BY DEF TypeInv, PassOK, Passes
  <2> QED BY <1>1, <1>3, <2>1, BumpServer DEF TreeInv
<1>6. RowsTrue(server', KnownF, dirs', parked, hid \cup pass.made)
  <2> SUFFICES ASSUME NEW n \in Nodes, NEW f \in Above[n], dirs'[f] = "fresh"
               PROVE  KnownF[n] = server'[n] \/ Hid(n, hid \cup pass.made) \/ Hid(n, parked)
    BY DEF RowsTrue
  <2>1. dirs[f] = "fresh" /\ f \notin T BY <1>3, Kin
  <2>2. server'[n] = server[n] BY <2>1 DEF Changes
  <2> QED BY <2>1, <2>2 DEF TreeInv, RowsTrue
<1>7. ScanOK(server', dirs', pass'.remote, pass'.now, pass'.queue, hid, parked)
  BY <1>1, <1>2, <1>3, BumpScan DEF TreeInv
<1>8. PassShape'
  <2>1. pass.at = "idle" => pass' = Idle
    <3> SUFFICES ASSUME pass = Idle PROVE pass' = Idle BY DEF TreeInv, PassShape
    <3>1. pass.now \ T = pass.now BY DEF Idle
    <3>2. [Idle EXCEPT !.now = Idle.now] = Idle BY DEF Idle
    <3> QED BY <1>1, <3>1, <3>2
  <2>2. pass.at = "scan" => SameKnown(dirs', pass.same)
    <3>1. pass.same \subseteq Folders BY DEF TypeInv, PassOK, Passes
    <3> QED BY <1>4, <3>1 DEF TreeInv, PassShape, SameKnown
  <2>3. pass.at # "idle" => FreshTold(server', dirs', pass.remote, pass.queue, hid)
    BY <1>3, BumpFresh DEF TreeInv, PassShape
  <2>4. pass.at = "act" /\ ~pass.cut =>
          DoneTrue(KnownF, pass.remote, pass.same, hid, dirs', pass'.now, pass.plan, pass.problems)
    <3> SUFFICES ASSUME pass.at = "act" /\ ~pass.cut
                 PROVE  DoneTrue(KnownF, pass.remote, pass.same, hid, dirs', pass'.now, pass.plan, pass.problems)
      OBVIOUS
    <3>1. DoneTrue(KnownF, pass.remote, pass.same, hid, dirs, pass.now, pass.plan, pass.problems) BY DEF TreeInv, PassShape
    <3>2. \A f \in Folders : dirs'[f] = "fresh" => dirs[f] = "fresh" BY <1>3
    <3>3. DoneTrue(KnownF, pass.remote, pass.same, hid, dirs', pass.now \ T, pass.plan, pass.problems)
      BY <3>1, <3>2, BumpDone
    <3> QED BY <1>1, <3>3
  <2>5. hid' = hid BY DEF TreeInv
  <2> QED BY <1>2, <1>4, <2>1, <2>2, <2>3, <2>4, <2>5 DEF TreeInv, PassShape
<1> QED BY <1>2, <1>4, <1>5, <1>6, <1>7, <1>8 DEF TreeInv

\* A step that changes none of it.
LEMMA SameInv ==
  ASSUME TreeInv, UNCHANGED << server, row, dirs, saved, pass, hid, parked >>
  PROVE  TreeInv'
<1>1. KnownF' = KnownF BY DEF KnownF, Known
<1>2. PassShape' BY <1>1 DEF TreeInv, PassShape
<1> QED BY <1>1, <1>2 DEF TreeInv

\* Somebody writes a file.
LEMMA SavesInv == ASSUME TypeInv, TreeInv, NEW f \in Files, Save(f) \/ TheirSave(f) PROVE TreeInv'
<1>0. Up(server) /\ f \in Nodes /\ f \notin Folders BY TreeAssumption DEF TreeInv, ServerOK, Nodes
<1>1. CASE Save(f) BY <1>1, SameInv DEF Save, rows, world
<1>2. CASE TheirSave(f)
  <2>1. \A m \in Nodes : server'[m] = IF m = f THEN written' ELSE IF m \in Above[f] THEN 1 ELSE server[m]
    BY <1>2 DEF TheirSave
  <2>2. Up(server') /\ Changes(server, server', Above[f]) BY <1>0, <2>1, Grown
  <2>3. Bump(Above[f]) /\ UNCHANGED << row, hid, parked >> BY <1>2 DEF TheirSave, world
  <2> QED BY <2>2, <2>3, BumpInv
<1> QED BY <1>1, <1>2

\* Somebody removes a tree.
LEMMA RemovesInv == ASSUME TypeInv, TreeInv, NEW n \in Nodes, Remove(n) \/ TheirRemove(n) PROVE TreeInv'
<1>0. Up(server) BY DEF TreeInv, ServerOK
<1>1. CASE Remove(n) BY <1>1, SameInv DEF Remove, rows, world
<1>2. CASE TheirRemove(n)
  <2>1. \A m \in Nodes : server'[m] = IF m \in Whole(n) THEN 0 ELSE server[m] BY <1>2 DEF TheirRemove
  <2>2. Up(server') /\ Changes(server, server', Above[n] \cup (Whole(n) \cap Folders)) BY <1>0, <2>1, Felled
  <2>3. Bump(Above[n] \cup (Whole(n) \cap Folders)) /\ UNCHANGED << row, hid, parked >> BY <1>2 DEF TheirRemove
  <2> QED BY <2>2, <2>3, BumpInv
<1> QED BY <1>1, <1>2

\* A share is taken back.
LEMMA UnshareInv == ASSUME TypeInv, TreeInv, NEW d \in Folders, Unshare(d) PROVE TreeInv'
<1>0. Up(server) /\ d \in Nodes BY DEF TreeInv, ServerOK, Nodes
<1>1. \A m \in Nodes : server'[m] = IF m \in Whole(d) THEN 0 ELSE server[m] BY DEF Unshare
<1>2. Up(server') /\ Changes(server, server', Above[d] \cup (Whole(d) \cap Folders)) BY <1>0, <1>1, Felled
<1>3. Bump(Above[d] \cup (Whole(d) \cap Folders)) /\ UNCHANGED << row, hid, parked >> BY DEF Unshare
<1> QED BY <1>2, <1>3, BumpInv

\* Steps that change nothing of it.
LEMMA SmallInv == ASSUME TreeInv, Leaves \/ Returns \/ Approve PROVE TreeInv'
BY SameInv DEF Leaves, Returns, Approve, files, rows, world, seen

\* The copy of a share is settled; a share that is there again is hidden.
LEMMA ResolveInv ==
  ASSUME TypeInv, TreeInv, NEW d \in Folders, Resolve(d)
  PROVE  TreeInv'
<1>1. UNCHANGED << server, row, dirs, saved, pass >> BY DEF Resolve, rows
<1>2. KnownF' = KnownF BY <1>1 DEF KnownF, Known
<1>3. parked' \subseteq parked /\ hid \subseteq hid' BY DEF Resolve
<1>4. ASSUME NEW n \in Nodes, Hid(n, parked)
      PROVE  Hid(n, parked') \/ Hid(n, hid') \/ server[n] = 0
  <2>1. d \in parked /\ parked' = parked \ {d} BY DEF Resolve
  <2>2. CASE d \notin {n} \cup Above[n] BY <1>4, <2>1, <2>2 DEF Hid
  <2>3. CASE d \in {n} \cup Above[n] /\ server[d] = 1 BY <2>3 DEF Resolve, Hid
  <2>4. CASE d \in {n} \cup Above[n] /\ server[d] # 1
    <3>1. server[d] = 0 BY <2>4, OfSides DEF TypeInv, FilesOK
    <3> QED BY <2>4, <3>1 DEF TreeInv, ServerOK, Up
  <2> QED BY <2>2, <2>3, <2>4
<1>5. RowsTrue(server, KnownF, dirs, parked', hid' \cup pass.made)
  <2> SUFFICES ASSUME NEW n \in Nodes, NEW f \in Above[n], dirs[f] = "fresh"
               PROVE  KnownF[n] = server[n] \/ Hid(n, hid' \cup pass.made) \/ Hid(n, parked')
    BY DEF RowsTrue
  <2>1. KnownF[n] = server[n] \/ Hid(n, hid \cup pass.made) \/ Hid(n, parked) BY DEF TreeInv, RowsTrue
  <2>2. Hid(n, hid \cup pass.made) => Hid(n, hid' \cup pass.made) BY <1>3 DEF Hid
  <2>3. Hid(n, hid') => Hid(n, hid' \cup pass.made) BY DEF Hid
  <2>4. Hid(n, parked) => KnownF[n] = 0 BY DEF TreeInv, ParkedOut
  <2> QED BY <2>1, <2>2, <2>3, <2>4, <1>4
<1>6. ParkedOut(KnownF, parked', pass.remote, pass.plan) BY <1>3, HidMore DEF TreeInv, ParkedOut
<1>7. ToldTrue(server, pass.remote, pass.now, pass.queue, hid', parked')
  <2> SUFFICES ASSUME NEW n \in Nodes, NEW f \in Above[n], f \in pass.now
               PROVE  server[n] = pass.remote[n] \/ Hid(n, hid') \/ Hid(n, parked') \/ Waits(pass.queue, n)
    BY DEF ToldTrue
  <2>1. server[n] = pass.remote[n] \/ Hid(n, hid) \/ Hid(n, parked) \/ Waits(pass.queue, n)
    BY DEF TreeInv, ScanOK, ToldTrue
  <2>2. Hid(n, parked) => pass.remote[n] = 0 BY DEF TreeInv, ParkedOut
  <2> QED BY <1>3, <1>4, <2>1, <2>2, HidMore
<1>8. ScanOK(server, dirs, pass.remote, pass.now, pass.queue, hid', parked') BY <1>7 DEF TreeInv, ScanOK
<1>9. FreshTold(server, dirs, pass.remote, pass.queue, hid) => FreshTold(server, dirs, pass.remote, pass.queue, hid')
  BY <1>3, HidMore DEF FreshTold
<1>10. ASSUME DoneTrue(KnownF, pass.remote, pass.same, hid, dirs, pass.now, pass.plan, pass.problems)
       PROVE  DoneTrue(KnownF, pass.remote, pass.same, hid', dirs, pass.now, pass.plan, pass.problems)
  BY <1>3, <1>10, HidMore DEF DoneTrue
<1>11. PassShape' BY <1>1, <1>2, <1>9, <1>10 DEF TreeInv, PassShape
<1> QED BY <1>1, <1>2, <1>5, <1>6, <1>8, <1>11 DEF TreeInv

\* No pass goes on.
LEMMA IdleFacts ==
  /\ ScanOK(server, dirs, Idle.remote, Idle.now, Idle.queue, hid, parked)
  /\ ParkedOut(KnownF, {}, Idle.remote, Idle.plan)
  /\ PlanFits(Idle.plan, Idle.remote, Idle.same)
  /\ \A n \in Nodes : Idle.remote[n] = 0 /\ Idle.plan[n] = "none"
  /\ Idle.now = {} /\ Idle.made = {} /\ Idle.at = "idle" /\ Idle.queue = {}
<1>1. /\ \A n \in Nodes : Idle.remote[n] = 0 /\ Idle.plan[n] = "none"
      /\ Idle.now = {} /\ Idle.made = {} /\ Idle.at = "idle" /\ Idle.queue = {} /\ Idle.same = {}
  BY DEF Idle, NoListing, NoPlan
<1>2. ScanOK(server, dirs, Idle.remote, Idle.now, Idle.queue, hid, parked)
  BY <1>1 DEF ScanOK, Closed, NowTold, QueueTold, ToldTrue, FreshNow, Waits, Nodes
<1>3. ParkedOut(KnownF, {}, Idle.remote, Idle.plan) BY DEF ParkedOut, Hid
<1>4. PlanFits(Idle.plan, Idle.remote, Idle.same) BY <1>1 DEF PlanFits
<1> QED BY <1>1, <1>2, <1>3, <1>4

\* The pass comes to nothing.
LEMMA ToIdle ==
  ASSUME pass' = Idle,
         ServerOK(server', dirs', {}, saved'), RowsTrue(server', KnownF', dirs', parked', hid'),
         \A n \in Nodes : Hid(n, parked') => KnownF'[n] = 0
  PROVE  TreeInv'
<1>1. IdleFacts!1' /\ IdleFacts!3 /\ IdleFacts!4 /\ IdleFacts!5 BY IdleFacts, PTL
<1> QED BY <1>1 DEF TreeInv, ParkedOut, PassShape

\* A pass begins.
LEMMA PassBeginsInv == ASSUME TypeInv, TreeInv, PassBegins PROVE TreeInv'
<1> DEFINE q == [Idle EXCEPT !.at = "scan", !.queue = {Root}]
<1>1. pass = Idle /\ pass' = q BY DEF PassBegins, TreeInv, PassShape
<1>2. UNCHANGED << server, row, dirs, saved, hid, parked >> /\ KnownF' = KnownF
  BY DEF PassBegins, files, rows, world, KnownF, Known
<1>3. /\ q.at = "scan" /\ q.queue = {Root} /\ q.remote = NoListing /\ q.now = {} /\ q.made = {} /\ q.plan = NoPlan
      /\ q.problems = {} /\ q.cut = FALSE /\ q.hurt = {} /\ q.same = {}
  BY DEF Idle
<1>4. pass.now = {} /\ pass.made = {} BY <1>1 DEF Idle
<1> HIDE DEF q
<1>5. \A n \in Nodes : NoListing[n] = 0 /\ NoPlan[n] = "none" BY DEF NoListing, NoPlan
<1>6. \A n \in Nodes : Waits({Root}, n) BY DEF Waits, Under
<1>7. ScanOK(server, dirs, NoListing, {}, {Root}, hid, parked)
  BY <1>5 DEF ScanOK, Closed, NowTold, QueueTold, ToldTrue, FreshNow, Nodes
<1>8. ParkedOut(KnownF, parked, NoListing, NoPlan) BY <1>5 DEF TreeInv, ParkedOut
<1>9. PlanFits(NoPlan, NoListing, {}) BY <1>5 DEF PlanFits
<1>10. FreshTold(server, dirs, NoListing, {Root}, hid) /\ SameKnown(dirs, {})
  BY <1>6 DEF FreshTold, SameKnown, Nodes
<1>11. PassShape' BY <1>1, <1>2, <1>3, <1>10 DEF PassShape
<1>12. ServerOK(server', dirs', pass'.now, saved') /\ RowsTrue(server', KnownF', dirs', parked', hid' \cup pass'.made)
  BY <1>1, <1>2, <1>3, <1>4 DEF TreeInv
<1> QED BY <1>1, <1>2, <1>3, <1>7, <1>8, <1>9, <1>11, <1>12 DEF TreeInv

\* The scan fails, or the program ends.
LEMMA StopsInv == ASSUME TypeInv, TreeInv, ScanFails \/ Crash PROVE TreeInv'
<1>1. UNCHANGED << server, row, dirs, saved, parked >> /\ KnownF' = KnownF /\ pass' = Idle
  BY DEF ScanFails, Crash, files, rows, world, KnownF, Known
<1>2. hid' = hid \cup pass.made
  <2>1. CASE ScanFails
    <3>1. pass.made = {} BY <2>1 DEF ScanFails, TreeInv, PassShape
    <3> QED BY <2>1, <3>1 DEF ScanFails, seen
  <2> QED BY <2>1 DEF Crash
<1>3. ServerOK(server, dirs, {}, saved) BY DEF TreeInv, ServerOK, NowUp
<1> QED BY <1>1, <1>2, <1>3, ToIdle DEF TreeInv, ParkedOut

\* The pass is cancelled.
LEMMA CutInv == ASSUME TypeInv, TreeInv, Cut PROVE TreeInv'
<1> DEFINE p == [n \in Nodes |-> IF pass.plan[n] \in {"upload", "download"} THEN "none" ELSE pass.plan[n]]
<1>1. UNCHANGED << server, row, dirs, saved, parked >> /\ KnownF' = KnownF
      /\ pass' = [pass EXCEPT !.cut = TRUE, !.plan = p] /\ hid' = hid \cup pass.made
  BY DEF Cut, files, rows, world, KnownF, Known
<1>2. \A n \in Nodes : p[n] = pass.plan[n] \/ p[n] = "none" OBVIOUS
<1> HIDE DEF p
<1>3. /\ pass'.at = pass.at /\ pass'.queue = pass.queue /\ pass'.remote = pass.remote /\ pass'.same = pass.same
      /\ pass'.plan = p /\ pass'.cut = TRUE /\ pass'.made = pass.made /\ pass'.now = pass.now /\ pass.at = "act"
  BY <1>1 DEF Cut, TypeInv, PassOK, Passes
<1>4. (hid \cup pass.made) \cup pass.made = hid \cup pass.made OBVIOUS
<1>5. ScanOK(server, dirs, pass.remote, pass.now \ {}, pass.queue, hid', parked)
  <2>1. Changes(server, server, {}) /\ hid \subseteq hid' BY <1>1 DEF Changes
  <2>2. \A f \in Folders : dirs[f] = "fresh" /\ pass.remote[f] = 1 => (dirs[f] = "fresh" /\ f \notin {}) \/ f \in pass.now \ {}
    OBVIOUS
  <2> QED BY <2>1, <2>2, BumpScan DEF TreeInv
<1>6. FreshTold(server, dirs, pass.remote, pass.queue, hid')
  BY <1>1, <1>3, HidMore DEF FreshTold, TreeInv, PassShape
<1>7. ParkedOut(KnownF, parked, pass.remote, p) BY <1>2 DEF TreeInv, ParkedOut
<1>8. PlanFits(p, pass.remote, pass.same) BY <1>2 DEF TreeInv, PlanFits
<1>9. PassShape' BY <1>1, <1>3, <1>6 DEF TreeInv, PassShape
<1>10. pass.now \ {} = pass.now OBVIOUS
<1>11. RowsTrue(server', KnownF', dirs', parked', hid' \cup pass'.made) BY <1>1, <1>3, <1>4 DEF TreeInv
<1> QED BY <1>1, <1>3, <1>5, <1>7, <1>8, <1>9, <1>10, <1>11 DEF TreeInv

\* What Did leaves of the pass.
LEMMA DidHas ==
  ASSUME TypeInv, NEW n \in Nodes
  PROVE  /\ Did(n) \in Passes
         /\ Did(n).at = pass.at /\ Did(n).queue = pass.queue /\ Did(n).remote = pass.remote /\ Did(n).same = pass.same
         /\ Did(n).now = pass.now /\ Did(n).mount = pass.mount /\ Did(n).problems = pass.problems
         /\ Did(n).cut = pass.cut /\ Did(n).made = pass.made /\ Did(n).granted = pass.granted
         /\ Did(n).known = pass.known /\ Did(n).hurt = pass.hurt
         /\ \A m \in Nodes : Did(n).plan[m] = IF m = n THEN "none" ELSE pass.plan[m]
<1>1. Did(n) \in Passes BY DidType DEF TypeInv
<1>2. pass \in Passes BY DEF TypeInv, PassOK
<1>3. pass.plan \in [Nodes -> Kinds] BY <1>2 DEF Passes
<1> DEFINE p == [pass.plan EXCEPT ![n] = "none"]
<1>4. \A m \in Nodes : p[m] = IF m = n THEN "none" ELSE pass.plan[m] BY <1>3
<1>5. Did(n) = [pass EXCEPT !.plan = p] BY DEF Did
<1> HIDE DEF p
<1> QED BY <1>1, <1>2, <1>4, <1>5 DEF Passes

\* What fails is not done.
LEMMA DonePlan ==
  ASSUME NEW K, NEW r, NEW same, NEW H, NEW d, NEW now, NEW plan, NEW problems, NEW p, NEW q, NEW n \in Nodes,
         DoneTrue(K, r, same, H, d, now, plan, problems), problems \subseteq q,
         \A m \in Nodes : p[m] = IF m = n THEN "none" ELSE plan[m],
         n \in q
  PROVE  DoneTrue(K, r, same, H, d, now, p, q)
<1>1. \A m \in Nodes : Touched(m, d, now, plan) => Touched(m, d, now, p) BY Kin DEF Touched, Nodes
<1> QED BY <1>1 DEF DoneTrue

\* An action fails.
LEMMA FailsInv == ASSUME TypeInv, TreeInv, NEW n \in Nodes, Fails(n) PROVE TreeInv'
<1> DEFINE q == [Did(n) EXCEPT !.problems = @ \cup {n}]
<1>1. UNCHANGED << server, row, dirs, saved, parked, hid >> /\ KnownF' = KnownF /\ pass' = q
  BY DEF Fails, files, rows, world, seen, KnownF, Known
<1>2. /\ q.at = pass.at /\ q.queue = pass.queue /\ q.remote = pass.remote /\ q.same = pass.same
      /\ q.now = pass.now /\ q.problems = pass.problems \cup {n} /\ q.cut = pass.cut /\ q.made = pass.made
      /\ \A m \in Nodes : q.plan[m] = IF m = n THEN "none" ELSE pass.plan[m]
      /\ pass.at = "act"
  BY DidHas DEF Passes, Fails, Ready
<1> HIDE DEF q
<1>3. ParkedOut(KnownF, parked, pass.remote, q.plan) BY <1>2 DEF TreeInv, ParkedOut
<1>4. PlanFits(q.plan, pass.remote, pass.same) BY <1>2 DEF TreeInv, PlanFits
<1>5. DoneTrue(KnownF, pass.remote, pass.same, hid, dirs, pass.now, pass.plan, pass.problems)
      => DoneTrue(KnownF, pass.remote, pass.same, hid, dirs, pass.now, q.plan, pass.problems \cup {n})
  BY <1>2, DonePlan
<1>6. PassShape' BY <1>1, <1>2, <1>5 DEF TreeInv, PassShape
<1> QED BY <1>1, <1>2, <1>3, <1>4, <1>6 DEF TreeInv

(*************************************************************************)
(* Listings.  By the checkpoint and the rows that are fresh, what is     *)
(* under a listed folder is told, hidden, or waits for a listing of its  *)
(* own.                                                                  *)
(*************************************************************************)
\* What lies between a listed folder and a node.
LEMMA ParentIn ==
  ASSUME NEW n \in Nodes, NEW f \in Folders \cup {Root}, Under(f, n)
  PROVE  /\ Parent[n] = f => Between(f, n) = {}
         /\ Parent[n] # f => Parent[n] \in Between(f, n) /\ Parent[n] \in Folders
         /\ \A k \in Between(f, n) : k \in Nodes /\ k \in Folders /\ Between(f, k) \subseteq Between(f, n) /\ Under(f, k)
<1>1. ASSUME Parent[n] = f, NEW k \in Between(f, n) PROVE FALSE
  <2>1. k \in Above[n] /\ Under(f, k) /\ f # Root BY <1>1, Kin DEF Between
  <2>2. f \in Above[k] /\ f \in Nodes /\ Above[n] = {f} \cup Above[f] BY <1>1, <2>1, Kin DEF Under
  <2> QED BY <2>1, <2>2, Kin, Higher
<1>2. ASSUME Parent[n] # f PROVE Parent[n] \in Between(f, n) /\ Parent[n] \in Folders
  <2>1. Parent[n] # Root BY <1>2, Kin DEF Under
  <2> QED BY <1>2, <2>1, Kin DEF Between, Under
<1>3. \A k \in Between(f, n) : k \in Nodes /\ k \in Folders /\ Between(f, k) \subseteq Between(f, n) /\ Under(f, k)
  BY Kin, Higher DEF Between, Nodes
<1> QED BY <1>1, <1>2, <1>3

\* A folder taken over from the checkpoint has in it what the server has.
LEMMA ReplayedTrue ==
  ASSUME TreeInv, NEW g \in Replayed
  PROVE  g \in Folders /\ server[g] = 1 /\ \A n \in Nodes : Parent[n] = g => saved[g].kids[n] = server[n]
BY DEF Replayed, Saved, TreeInv, ServerOK, SavedTrue

\* What is told through no row is what the server has.
LEMMA ToldStraight ==
  ASSUME TypeInv, TreeInv, NEW n \in Nodes, NEW f \in Folders \cup {Root}, IsTold(f, n), ~Pruned(f, n)
  PROVE  Told(f, n) = server[n]
<1>1. CASE Parent[n] = f BY <1>1 DEF Told
<1>2. CASE Parent[n] # f
  <2>1. Parent[n] \in Between(f, n) /\ Between(f, Parent[n]) \subseteq Between(f, n) BY <1>2, ParentIn DEF IsTold
  <2>2. ~Matches(Parent[n]) /\ ~Pruned(f, Parent[n]) BY <2>1 DEF Pruned
  <2>3. Parent[n] \in Replayed BY <2>1, <2>2 DEF IsTold
  <2> QED BY <1>2, <2>3, ReplayedTrue DEF Told
<1> QED BY <1>1, <1>2

\* What is told is what the server has, or is hidden.
LEMMA ToldRight ==
  ASSUME TypeInv, TreeInv, NEW n \in Nodes, NEW f \in Folders \cup {Root}, IsTold(f, n)
  PROVE  Told(f, n) = server[n] \/ Hid(n, hid \cup pass.made)
<1>1. CASE ~Pruned(f, n) BY <1>1, ToldStraight
<1>2. CASE Pruned(f, n)
  <2>1. PICK k \in Between(f, n) : Matches(k) BY <1>2 DEF Pruned
  <2>2. Parent[n] # f BY <2>1, ParentIn DEF IsTold
  <2>3. Told(f, n) = KnownF[n] BY <1>2, <2>2 DEF Told, KnownF
  <2>4. ~Hid(n, parked) BY Unhidden DEF IsTold
  <2>5. k \in Above[n] /\ dirs[k] = "fresh" BY <2>1 DEF Between, Matches
  <2> QED BY <2>3, <2>4, <2>5 DEF TreeInv, RowsTrue
<1> QED BY <1>1, <1>2

\* What is under the listed folder is told, or hidden, or waits for a listing of its own.
LEMMA Reached ==
  ASSUME TypeInv, TreeInv, pass.made = {}, NEW n \in Nodes, NEW f \in Folders \cup {Root},
         Under(f, n), n \notin Parked, server[n] # 0, f # Root => server[f] = 1
  PROVE  \/ IsTold(f, n) /\ Told(f, n) = server[n]
         \/ Hid(n, hid)
         \/ \E g \in Folders : /\ g \in Above[n] /\ IsTold(f, g) /\ Told(f, g) = 1
                               /\ ~Matches(g) /\ ~Pruned(f, g) /\ g \notin Replayed
<1> DEFINE X == {k \in Between(f, n) : k \notin Replayed}
<1>0. hid \cup pass.made = hid OBVIOUS
<1>1. \A k \in Between(f, n) : k \in Above[n] /\ k \in Nodes /\ k \in Folders /\ k \notin Parked /\ server[k] = 1
  <2> SUFFICES ASSUME NEW k \in Between(f, n) PROVE k \in Above[n] /\ k \in Nodes /\ k \in Folders /\ k \notin Parked /\ server[k] = 1
    OBVIOUS
  <2>1. k \in Above[n] /\ k \in Nodes /\ k \in Folders BY ParentIn DEF Between
  <2>2. k \notin Parked BY <2>1, Unhidden, HidUp
  <2>3. server[k] = 1 BY <2>1 DEF TreeInv, ServerOK, Up
  <2> QED BY <2>1, <2>2, <2>3
<1>2. CASE X = {}
  <2>1. \A k \in Between(f, n) : k \in Replayed /\ ~Matches(k) BY <1>2 DEF Replayed
  <2>2. ~Pruned(f, n) /\ \A k \in Between(f, n) : ~Pruned(f, k) BY <2>1, ParentIn DEF Pruned
  <2>3. Told(f, n) = server[n]
    <3>1. CASE Parent[n] = f BY <3>1 DEF Told
    <3>2. CASE Parent[n] # f
      <4>1. Parent[n] \in Replayed BY <3>2, <2>1, ParentIn
      <4> QED BY <3>2, <4>1, <2>2, ReplayedTrue DEF Told
    <3> QED BY <3>1, <3>2
  <2> QED BY <2>1, <2>2, <2>3 DEF IsTold
<1>3. CASE X # {}
  <2>1. X \subseteq Nodes BY <1>1
  <2>2. PICK g \in X : Above[g] \cap X = {}
    <3> HIDE DEF X
    <3> QED BY <1>3, <2>1, Topmost
  <2>3. g \in Between(f, n) /\ g \notin Replayed /\ g \in Nodes /\ g \in Folders /\ g \in Above[n] /\ Under(f, g)
        /\ Between(f, g) \subseteq Between(f, n) /\ g \notin Parked /\ server[g] = 1
    BY <2>2, <1>1, ParentIn
  <2>4. \A k \in Between(f, g) : k \in Replayed /\ ~Matches(k)
    BY <2>2, <2>3 DEF Between, Replayed
  <2>5. ~Pruned(f, g) /\ \A k \in Between(f, g) : ~Pruned(f, k)
    BY <2>3, <2>4, ParentIn DEF Pruned
  <2>6. Told(f, g) = 1
    <3>1. CASE Parent[g] = f BY <2>3, <3>1 DEF Told
    <3>2. CASE Parent[g] # f
      <4>1. Parent[g] \in Replayed BY <2>3, <3>2, <2>4, ParentIn
      <4> QED BY <2>3, <3>2, <4>1, <2>5, ReplayedTrue DEF Told
    <3> QED BY <3>1, <3>2
  <2>7. IsTold(f, g) BY <2>3, <2>4, <2>5, <2>6 DEF IsTold
  <2>8. CASE ~Matches(g) BY <2>3, <2>5, <2>6, <2>7, <2>8
  <2>9. CASE Matches(g)
    <3>1. Pruned(f, n) BY <2>3, <2>9 DEF Pruned
    <3>2. CASE Hid(n, hid) BY <3>2
    <3>3. CASE ~Hid(n, hid)
      <4>1. \A m \in Nodes : g \in Above[m] /\ m \notin Parked /\ ~Hid(m, hid) => KnownF[m] = server[m]
        BY <1>0, <2>9, Unhidden DEF TreeInv, RowsTrue, Matches
      <4>2. ASSUME NEW k \in Between(f, n) PROVE IF Pruned(f, k) THEN dirs[k] # "none" ELSE Matches(k) \/ k \in Replayed
        <5>1. k \in Above[n] /\ k \in Nodes /\ k \in Folders /\ k \notin Parked /\ server[k] = 1 /\ Under(f, k) BY <1>1, ParentIn
        <5>2. CASE k = g BY <5>2, <2>5, <2>9
        <5>3. CASE k \in Above[g]
          <6>1. k \in Between(f, g) BY <5>1, <5>3 DEF Between
          <6> QED BY <6>1, <2>4, <2>5
        <5>4. CASE g \in Above[k]
          <6>1. Pruned(f, k) BY <5>4, <2>3, <2>9 DEF Pruned, Between
          <6>2. ~Hid(k, hid) BY <3>3, <5>1, HidUp
          <6>3. KnownF[k] = 1 BY <4>1, <5>1, <5>4, <6>2
          <6>4. dirs[k] # "none" BY <5>1, <6>3 DEF KnownF, Known
          <6> QED BY <6>1, <6>4
        <5> QED BY <5>1, <5>2, <5>3, <5>4, <2>3, Chain
      <4>3. Parent[n] # f BY <2>3, ParentIn
      <4>4. Told(f, n) = KnownF[n] BY <3>1, <4>3 DEF Told, KnownF
      <4>5. KnownF[n] = server[n] BY <2>3, <3>3, <4>1
      <4> QED BY <4>2, <4>4, <4>5 DEF IsTold
    <3> QED BY <3>2, <3>3
  <2> QED BY <2>8, <2>9
<1> QED BY <1>2, <1>3

\* Where a node is told, so are the folders above it.
LEMMA ToldAbove ==
  ASSUME TypeInv, TreeInv, NEW n \in Nodes, NEW f \in Folders \cup {Root}, IsTold(f, n), NEW k \in Between(f, n)
  PROVE  IsTold(f, k)
<1>1. Under(f, n) /\ n \notin Parked BY DEF IsTold
<1>2. k \in Nodes /\ k \in Folders /\ Between(f, k) \subseteq Between(f, n) /\ Under(f, k) /\ k \in Above[n]
  BY <1>1, ParentIn DEF Between
<1>3. k \notin Parked BY <1>1, <1>2, Unhidden, HidUp
<1>4. \A j \in Between(f, k) : IF Pruned(f, j) THEN dirs[j] # "none" ELSE Matches(j) \/ j \in Replayed
  BY <1>2 DEF IsTold
<1>5. Told(f, k) # 0
  <2>1. CASE Pruned(f, k)
    <3>1. dirs[k] # "none" BY <2>1 DEF IsTold
    <3>2. Parent[k] # f BY <1>2, <2>1, ParentIn DEF Pruned
    <3> QED BY <1>2, <2>1, <3>1, <3>2 DEF Told, Known
  <2>2. CASE ~Pruned(f, k)
    <3>1. Matches(k) \/ k \in Replayed BY <2>2 DEF IsTold
    <3>2. server[k] = 1
      <4>1. CASE Matches(k) BY <1>2, <4>1 DEF TreeInv, ServerOK, FreshUp, Matches
      <4> QED BY <3>1, <4>1, ReplayedTrue
    <3>3. CASE Parent[k] = f BY <3>2, <3>3 DEF Told
    <3>4. CASE Parent[k] # f
      <4>1. Parent[k] \in Between(f, k) BY <1>2, <3>4, ParentIn
      <4>2. ~Matches(Parent[k]) /\ ~Pruned(f, Parent[k]) BY <1>2, <2>2, <4>1, ParentIn DEF Pruned
      <4>3. Parent[k] \in Replayed BY <1>4, <4>1, <4>2
      <4> QED BY <1>2, <2>2, <3>2, <3>4, <4>3, ReplayedTrue DEF Told
    <3> QED BY <3>3, <3>4
  <2> QED BY <2>1, <2>2
<1> QED BY <1>2, <1>3, <1>4, <1>5 DEF IsTold

\* A listing has what it tells.
LEMMA ListingHas ==
  ASSUME TypeInv, NEW f \in Folders \cup {Root}, NEW n \in Nodes
  PROVE  /\ Listing(f)[n] # 0 <=> IsTold(f, n)
         /\ IsTold(f, n) => Listing(f)[n] = Told(f, n)
         /\ n \in Folders => Listing(f)[n] \in {0, 1}
<1>1. Listing(f)[n] = IF IsTold(f, n) THEN Told(f, n) ELSE 0 BY DEF Listing
<1>2. n \in Folders => Listing(f)[n] \in 0 .. 1 BY ListingType, OfSides
<1> QED BY <1>1, <1>2 DEF IsTold

\* What a listing makes of the pass.
ListHas(f, q) ==
  LET D == {g \in Folders : Listing(f)[g] = 1}
  IN /\ q.queue = (pass.queue \ {f}) \cup {g \in D : ~Matches(g) /\ ~Pruned(f, g) /\ g \notin Replayed}
     /\ \A n \in Nodes : q.remote[n] = IF Listing(f)[n] # 0 THEN Listing(f)[n] ELSE pass.remote[n]
     /\ q.same = pass.same \cup {g \in D : Matches(g) \/ Pruned(f, g)}
     /\ q.now = pass.now \cup {g \in D : Matches(g) \/ ~Pruned(f, g)}
     /\ q.at = "scan" /\ q.plan = pass.plan /\ q.problems = pass.problems /\ q.cut = pass.cut
     /\ q.made = pass.made /\ q.hurt = pass.hurt

\* What List makes of the pass.
LEMMA ListDoes ==
  ASSUME TypeInv, NEW f \in Folders \cup {Root}, List(f)
  PROVE  ListHas(f, pass')
<1> DEFINE L == Listing(f)
           D == {g \in Folders : L[g] = 1}
           Q == (pass.queue \ {f}) \cup {g \in D : ~Matches(g) /\ ~Pruned(f, g) /\ g \notin Replayed}
           r == [n \in Nodes |-> IF L[n] # 0 THEN L[n] ELSE pass.remote[n]]
           S == pass.same \cup {g \in D : Matches(g) \/ Pruned(f, g)}
           N == pass.now \cup {g \in D : Matches(g) \/ ~Pruned(f, g)}
           M == pass.mount \cup {g \in D : IF Pruned(f, g) THEN g \in mounts ELSE g \in shared}
<1>1. pass' = [pass EXCEPT !.queue = Q, !.remote = r, !.same = S, !.now = N, !.mount = M] /\ pass.at = "scan" BY DEF List
<1>2. \A n \in Nodes : r[n] = IF L[n] # 0 THEN L[n] ELSE pass.remote[n] OBVIOUS
<1> HIDE DEF Q, r, S, N, M
<1>3. /\ pass'.queue = Q /\ pass'.remote = r /\ pass'.same = S /\ pass'.now = N
      /\ pass'.at = "scan" /\ pass'.plan = pass.plan /\ pass'.problems = pass.problems /\ pass'.cut = pass.cut
      /\ pass'.made = pass.made /\ pass'.hurt = pass.hurt
  BY <1>1 DEF TypeInv, PassOK, Passes
<1> QED BY <1>2, <1>3 DEF ListHas, Q, S, N

\* A listing keeps what is known of the scan; what is under the listed folder is told, hidden, or waits.
LEMMA ListScan ==
  ASSUME TypeInv, TreeInv, NEW f \in Folders \cup {Root}, List(f)
  PROVE  /\ NowUp(server, pass'.now)
         /\ ParkedOut(KnownF, parked, pass'.remote, pass.plan)
         /\ ScanOK(server, dirs, pass'.remote, pass'.now, pass'.queue, hid, parked)
         /\ FreshTold(server, dirs, pass'.remote, pass'.queue, hid)
         /\ SameKnown(dirs, pass'.same)
         /\ \A n \in Nodes : Under(f, n) \/ Waits(pass.queue, n) =>
              server[n] = pass'.remote[n] \/ Hid(n, hid) \/ Hid(n, parked) \/ Waits(pass'.queue, n)
<1> DEFINE L == Listing(f)
           r == pass.remote
           Q == pass.queue
           r1 == pass'.remote
           Q1 == pass'.queue
<1>1. /\ pass.at = "scan" /\ pass.made = {} /\ f \in Q /\ (f # Root => server[f] = 1) /\ hid \cup pass.made = hid
      /\ SameKnown(dirs, pass.same) /\ FreshTold(server, dirs, r, Q, hid)
  BY DEF List, TreeInv, PassShape
<1>2. \A n \in Nodes : /\ L[n] # 0 <=> IsTold(f, n)
                       /\ IsTold(f, n) => L[n] = Told(f, n) /\ (L[n] = server[n] \/ Hid(n, hid)) /\ Under(f, n) /\ ~Hid(n, parked)
                       /\ n \in Folders => L[n] \in {0, 1}
  <2> SUFFICES ASSUME NEW n \in Nodes
               PROVE  /\ L[n] # 0 <=> IsTold(f, n)
                      /\ IsTold(f, n) => L[n] = Told(f, n) /\ (L[n] = server[n] \/ Hid(n, hid)) /\ Under(f, n) /\ ~Hid(n, parked)
                      /\ n \in Folders => L[n] \in {0, 1}
    OBVIOUS
  <2>1. /\ L[n] # 0 <=> IsTold(f, n)
        /\ IsTold(f, n) => L[n] = Told(f, n)
        /\ n \in Folders => L[n] \in {0, 1}
    BY ListingHas
  <2>2. IsTold(f, n) => Told(f, n) = server[n] \/ Hid(n, hid) BY <1>1, ToldRight
  <2>3. IsTold(f, n) => Under(f, n) /\ n \notin Parked BY DEF IsTold
  <2> QED BY <2>1, <2>2, <2>3, Unhidden
<1>3. ListHas(f, pass') BY ListDoes
<1> DEFINE D == {g \in Folders : L[g] = 1}
<1>4. /\ Q1 = (Q \ {f}) \cup {g \in D : ~Matches(g) /\ ~Pruned(f, g) /\ g \notin Replayed}
      /\ \A n \in Nodes : r1[n] = IF L[n] # 0 THEN L[n] ELSE r[n]
      /\ pass'.same = pass.same \cup {g \in D : Matches(g) \/ Pruned(f, g)}
      /\ pass'.now = pass.now \cup {g \in D : Matches(g) \/ ~Pruned(f, g)}
  BY <1>3 DEF ListHas
<1>5. Closed(r) /\ NowTold(r, pass.now) /\ QueueTold(r, Q) /\ ToldTrue(server, r, pass.now, Q, hid, parked) /\ FreshNow(dirs, r, pass.now)
  BY DEF TreeInv, ScanOK
<1>6. \A g \in D : g \in Folders /\ g \in Nodes /\ L[g] = 1 /\ IsTold(f, g) BY <1>2 DEF Nodes
<1> HIDE DEF L, D
<1>7. f # Root => f \in Folders /\ f \in Nodes /\ r[f] = 1 BY <1>1, <1>5 DEF QueueTold, Nodes
<1>8. \A n \in Nodes : Under(f, n) => r[n] = 0 BY <1>1, <1>5 DEF QueueTold, Waits
<1>9. NowUp(server, pass'.now)
  <2>1. \A g \in pass.now : server[g] = 1 BY DEF TreeInv, ServerOK, NowUp
  <2>2. ASSUME NEW g \in D, Matches(g) PROVE server[g] = 1
    BY <1>6, <2>2 DEF TreeInv, ServerOK, FreshUp, Matches
  <2>3. ASSUME NEW g \in D, ~Pruned(f, g) PROVE server[g] = 1 BY <1>2, <1>6, <2>3, ToldStraight
  <2> QED BY <1>4, <2>1, <2>2, <2>3 DEF NowUp
<1>10. ParkedOut(KnownF, parked, r1, pass.plan) BY <1>2, <1>4 DEF TreeInv, ParkedOut
<1>11. Closed(r1)
  <2> SUFFICES ASSUME NEW n \in Nodes, r1[n] # 0, NEW k \in Above[n] PROVE r1[k] = 1
    BY DEF Closed
  <2>1. k \in Nodes /\ k \in Folders BY Kin DEF Nodes
  <2>2. CASE r[n] # 0 BY <1>2, <1>4, <1>5, <2>1, <2>2 DEF Closed
  <2>3. CASE IsTold(f, n)
    <3>1. CASE k \in Between(f, n)
      <4>1. IsTold(f, k) BY <2>3, <3>1, ToldAbove
      <4> QED BY <1>2, <1>4, <2>1, <4>1
    <3>2. CASE k \notin Between(f, n)
      <4>1. f # Root /\ f \in Above[n] /\ f \notin Above[k] BY <2>3, <3>2 DEF IsTold, Under, Between
      <4>2. k = f \/ k \in Above[f] BY <4>1, Chain
      <4>3. r[k] = 1 BY <1>5, <1>7, <4>1, <4>2 DEF Closed
      <4> QED BY <1>2, <1>4, <2>1, <4>3
    <3> QED BY <3>1, <3>2
  <2> QED BY <1>2, <1>4, <2>2, <2>3
<1>12. NowTold(r1, pass'.now)
  <2>1. pass.now \subseteq Folders /\ Folders \subseteq Nodes BY DEF TypeInv, PassOK, Passes, Nodes
  <2>2. \A g \in pass.now : r1[g] = 1 BY <1>2, <1>4, <1>5, <2>1 DEF NowTold
  <2> QED BY <1>4, <1>6, <2>2 DEF NowTold
<1>13. QueueTold(r1, Q1)
  <2>1. Q \subseteq Folders \cup {Root} BY DEF TypeInv, PassOK, Passes
  <2>2. \A g \in Q1 : g = Root \/ r1[g] = 1
    <3>1. \A g \in Q : g = Root \/ r1[g] = 1 BY <1>2, <1>4, <1>5, <2>1 DEF QueueTold, Nodes
    <3> QED BY <1>4, <1>6, <3>1
  <2>3. ASSUME NEW n \in Nodes, NEW g \in Q1, Under(g, n) PROVE r1[n] = 0
    <3>1. CASE g \in Q \ {f}
      <4>1. r[n] = 0 BY <2>3, <3>1, <1>5 DEF QueueTold, Waits
      <4>2. ~IsTold(f, n)
        <5> SUFFICES ASSUME Under(f, n) PROVE FALSE BY DEF IsTold
        <5>1. \A m \in Nodes : Under(g, m) => r[m] = 0 BY <3>1, <1>5 DEF QueueTold, Waits
        <5>2. g # Root => g \in Nodes /\ r[g] = 1 BY <2>1, <3>1, <1>5 DEF QueueTold, Nodes
        <5>3. CASE g = Root BY <3>1, <5>1, <5>3, <1>7 DEF Under
        <5>4. CASE f = Root BY <3>1, <5>2, <5>4, <1>8 DEF Under
        <5>5. CASE f # Root /\ g # Root
          <6>1. f \in Above[n] /\ g \in Above[n] BY <2>3, <5>5 DEF Under
          <6>2. f \in Above[g] \/ g \in Above[f] BY <3>1, <6>1, Chain
          <6> QED BY <1>7, <1>8, <5>1, <5>2, <5>5, <6>2 DEF Under
        <5> QED BY <5>3, <5>4, <5>5
      <4> QED BY <1>2, <1>4, <4>1, <4>2
    <3>2. CASE g \in D /\ ~Matches(g) /\ ~Pruned(f, g) /\ g \notin Replayed
      <4>1. g \in Folders /\ IsTold(f, g) /\ g # Root BY <3>2, <1>6, TreeAssumption
      <4>2. g \in Above[n] /\ g \in Nodes BY <2>3, <4>1 DEF Under, Nodes
      <4>3. Under(f, g) BY <4>1 DEF IsTold
      <4>4. Under(f, n) /\ g \in Between(f, n) BY <4>2, <4>3, Higher DEF Under, Between
      <4>5. ~IsTold(f, n) BY <3>2, <4>4 DEF IsTold
      <4> QED BY <1>2, <1>4, <1>8, <4>4, <4>5
    <3> QED BY <1>4, <2>3, <3>1, <3>2
  <2> QED BY <2>2, <2>3 DEF QueueTold, Waits
\* what lies under the listed folder
<1>14. ASSUME NEW n \in Nodes, Under(f, n)
       PROVE  server[n] = r1[n] \/ Hid(n, hid) \/ Hid(n, parked) \/ Waits(Q1, n)
  <2>1. CASE server[n] = 0
    <3>1. CASE IsTold(f, n) BY <1>2, <1>4, <3>1
    <3>2. CASE ~IsTold(f, n) BY <1>2, <1>4, <1>8, <1>14, <2>1, <3>2
    <3> QED BY <3>1, <3>2
  <2>2. CASE n \in Parked BY <2>2, Unhidden
  <2>3. CASE server[n] # 0 /\ n \notin Parked
    <3>1. CASE IsTold(f, n) BY <1>2, <1>4, <3>1
    <3>2. CASE \E g \in Folders : /\ g \in Above[n] /\ IsTold(f, g) /\ Told(f, g) = 1
                               /\ ~Matches(g) /\ ~Pruned(f, g) /\ g \notin Replayed
      <4>1. PICK g \in Folders : /\ g \in Above[n] /\ IsTold(f, g) /\ Told(f, g) = 1
                               /\ ~Matches(g) /\ ~Pruned(f, g) /\ g \notin Replayed
        BY <3>2
      <4>2. L[g] = 1 BY <1>2, <4>1 DEF Nodes
      <4>3. g \in Q1 BY <1>4, <4>1, <4>2 DEF D
      <4> QED BY <4>1, <4>3 DEF Waits, Under
    <3> QED BY <1>1, <1>14, <2>3, <3>1, <3>2, Reached
  <2> QED BY <2>1, <2>2, <2>3
<1>15. ASSUME NEW n \in Nodes, Waits(Q, n)
       PROVE  server[n] = r1[n] \/ Hid(n, hid) \/ Hid(n, parked) \/ Waits(Q1, n)
  <2>1. PICK q \in Q : Under(q, n) BY <1>15 DEF Waits
  <2>2. CASE q = f BY <2>1, <2>2, <1>14
  <2>3. CASE q # f BY <2>1, <2>3, <1>4 DEF Waits
  <2> QED BY <2>2, <2>3
<1>16. ToldTrue(server, r1, pass'.now, Q1, hid, parked)
  <2> SUFFICES ASSUME NEW n \in Nodes, NEW g \in Above[n], g \in pass'.now
               PROVE  server[n] = r1[n] \/ Hid(n, hid) \/ Hid(n, parked) \/ Waits(Q1, n)
    BY DEF ToldTrue
  <2>1. CASE g \in pass.now
    <3>1. server[n] = r[n] \/ Hid(n, hid) \/ Hid(n, parked) \/ Waits(Q, n) BY <1>5, <2>1 DEF ToldTrue
    <3>2. CASE server[n] = r[n] BY <1>2, <1>4, <3>2
    <3> QED BY <3>1, <3>2, <1>15
  <2>2. CASE g \in D
    <3>1. Under(f, g) BY <1>6, <2>2 DEF IsTold
    <3>2. Under(f, n) BY <3>1, Higher DEF Under
    <3> QED BY <3>2, <1>14
  <2> QED BY <1>4, <2>1, <2>2
<1>17. FreshNow(dirs, r1, pass'.now)
  <2> SUFFICES ASSUME NEW g \in Folders, dirs[g] = "fresh", r1[g] = 1 PROVE g \in pass'.now
    BY DEF FreshNow
  <2>1. CASE r[g] = 1 BY <1>4, <1>5, <2>1 DEF FreshNow
  <2>2. CASE L[g] = 1 BY <1>4, <2>2 DEF D, Matches
  <2> QED BY <1>4, <2>1, <2>2 DEF Nodes
<1>18. FreshTold(server, dirs, r1, Q1, hid)
  <2> SUFFICES ASSUME NEW g \in Folders, dirs[g] = "fresh"
               PROVE  r1[g] = 1 \/ Waits(Q1, g) \/ Hid(g, hid) \/ \A n \in Nodes : g \in Above[n] => server[n] = 0
    BY DEF FreshTold
  <2>1. r[g] = 1 \/ Waits(Q, g) \/ Hid(g, hid) \/ \A n \in Nodes : g \in Above[n] => server[n] = 0 BY <1>1 DEF FreshTold
  <2>2. g \in Nodes /\ server[g] = 1 BY DEF TreeInv, ServerOK, FreshUp, Nodes
  <2>3. ~Hid(g, parked)
    <3>1. KnownF[g] = 1 BY <2>2 DEF KnownF, Known
    <3> QED BY <3>1, <2>2 DEF TreeInv, ParkedOut
  <2>4. r[g] = 1 => r1[g] = 1 BY <1>2, <1>4, <2>2
  <2> QED BY <1>15, <2>1, <2>2, <2>3, <2>4
<1>19. SameKnown(dirs, pass'.same)
  <2> SUFFICES ASSUME NEW g \in D, Matches(g) \/ Pruned(f, g) PROVE dirs[g] # "none"
    BY <1>1, <1>4 DEF SameKnown
  <2>1. CASE Matches(g) BY <2>1 DEF Matches
  <2>2. CASE Pruned(f, g)
    <3>1. Parent[g] # f BY <1>6, <2>2, ParentIn DEF Pruned, IsTold
    <3>2. Told(f, g) = Known(g) /\ L[g] = 1 /\ L[g] = Told(f, g) BY <1>2, <1>6, <2>2, <3>1 DEF Told
    <3> QED BY <1>6, <3>2 DEF Known
  <2> QED BY <2>1, <2>2
<1> QED BY <1>9, <1>10, <1>11, <1>12, <1>13, <1>14, <1>15, <1>16, <1>17, <1>18, <1>19 DEF ScanOK

\* What the checkpoint saves is true.
LEMMA SavesTrue ==
  ASSUME TypeInv, TreeInv, NEW f \in Folders \cup {Root}, f # Root => server[f] = 1
  PROVE  SavedTrue(server, Saves(f))
<1>1. SavedTrue(server, saved) BY DEF TreeInv, ServerOK
<1>2. CASE ~(f # Root /\ Cacheable(f) /\ f \in pass.now) BY <1>1, <1>2 DEF Saves
<1>3. CASE f # Root /\ Cacheable(f) /\ f \in pass.now
  <2> DEFINE l == [kids |-> Children(f), now |-> {f} \cup {g \in Folders : Parent[g] = f /\ server[g] = 1}]
  <2>1. Saves(f) = [saved EXCEPT ![f] = l] /\ f \in Folders BY <1>3 DEF Saves
  <2>2. \A n \in Nodes : l.kids[n] = IF Parent[n] = f THEN server[n] ELSE 0 BY DEF Children
  <2> HIDE DEF l
  <2>3. \A g \in Folders : Saves(f)[g] = IF g = f THEN l ELSE saved[g] BY <2>1 DEF TypeInv, SavedOK
  <2> QED BY <1>1, <1>3, <2>1, <2>2, <2>3 DEF SavedTrue
<1> QED BY <1>2, <1>3

\* A listing keeps the invariant.
LEMMA ListInv ==
  ASSUME TypeInv, TreeInv, NEW f \in Folders \cup {Root}, List(f)
  PROVE  TreeInv'
<1>1. UNCHANGED << server, row, dirs, parked, hid >> /\ KnownF' = KnownF /\ saved' = Saves(f)
      /\ pass.at = "scan" /\ (f # Root => server[f] = 1)
  BY DEF List, files, rows, world, seen, KnownF, Known
<1>2. ListHas(f, pass') BY ListDoes
<1>3. /\ pass'.at = "scan" /\ pass'.plan = pass.plan /\ pass'.problems = pass.problems /\ pass'.cut = pass.cut
      /\ pass'.made = pass.made /\ pass'.hurt = pass.hurt
  BY <1>2 DEF ListHas
<1>4. pass.plan = NoPlan /\ pass.problems = {} /\ ~pass.cut /\ pass.made = {} /\ pass.hurt = {}
  BY <1>1 DEF TreeInv, PassShape
<1>5. ServerOK(server, dirs, pass'.now, saved') BY <1>1, ListScan, SavesTrue DEF TreeInv, ServerOK
<1>6. PlanFits(pass'.plan, pass'.remote, pass'.same)
  <2>1. \A n \in Nodes : pass'.plan[n] = "none" BY <1>3, <1>4 DEF NoPlan
  <2> QED BY <2>1 DEF PlanFits
<1>7. PassShape'
  <2>1. FreshTold(server', dirs', pass'.remote, pass'.queue, hid') /\ SameKnown(dirs', pass'.same) BY <1>1, ListScan
  <2> QED BY <1>3, <1>4, <2>1 DEF PassShape
<1>8. ParkedOut(KnownF', parked', pass'.remote, pass'.plan)
      /\ ScanOK(server', dirs', pass'.remote, pass'.now, pass'.queue, hid', parked')
  BY <1>1, <1>3, ListScan
<1>9. RowsTrue(server', KnownF', dirs', parked', hid' \cup pass'.made) BY <1>1, <1>3 DEF TreeInv
<1> QED BY <1>1, <1>5, <1>6, <1>7, <1>8, <1>9 DEF TreeInv

\* The scan is complete: a row that is fresh, and what is under it.
LEMMA Scanned ==
  ASSUME TreeInv, pass.at # "idle", pass.queue = {},
         NEW n \in Nodes, NEW f \in Above[n], dirs[f] = "fresh"
  PROVE  \/ pass.remote[f] = 1 /\ f \in pass.now
         \/ Hid(n, hid)
         \/ server[n] = 0 /\ pass.remote[n] = 0
<1>1. f \in Folders BY Kin
<1>2. pass.remote[f] = 1 \/ Hid(f, hid) \/ \A m \in Nodes : f \in Above[m] => server[m] = 0
  BY <1>1 DEF TreeInv, PassShape, FreshTold, Waits
<1>3. pass.remote[f] = 1 => f \in pass.now BY <1>1 DEF TreeInv, ScanOK, FreshNow
<1>4. Hid(f, hid) => Hid(n, hid) BY HidUp
<1>5. pass.remote[n] # 0 => pass.remote[f] = 1 BY DEF TreeInv, ScanOK, Closed
<1> QED BY <1>2, <1>3, <1>4, <1>5

\* What is under a folder whose ETag is current was told right.
LEMMA ToldNow ==
  ASSUME TreeInv, pass.queue = {}, NEW n \in Nodes, NEW f \in Above[n], f \in pass.now
  PROVE  server[n] = pass.remote[n] \/ Hid(n, hid) \/ Hid(n, parked)
BY DEF TreeInv, ScanOK, ToldTrue, Waits

\* What was told of a name, under a row that is fresh.
LEMMA FreshRight ==
  ASSUME TreeInv, pass.at # "idle", pass.queue = {},
         NEW n \in Nodes, NEW f \in Above[n], dirs[f] = "fresh"
  PROVE  server[n] = pass.remote[n] \/ Hid(n, hid) \/ Hid(n, parked)
BY Scanned, ToldNow

\* When the diff says what.
LEMMA DiffIs ==
  ASSUME TypeInv, NEW n \in Nodes
  PROVE  /\ Diff[n] = "none" => (HasR(n) <=> HasL(n)) /\ (n \in Files /\ HasR(n) => row[n] = pass.remote[n])
         /\ Diff[n] = "mkLocal" => n \in Folders /\ HasR(n) /\ ~HasB(n)
         /\ Diff[n] = "mkRemote" => n \in Folders /\ ~HasR(n)
         /\ Diff[n] \in {"upload", "download", "conflict"} => n \in Files
         /\ Diff[n] = "download" => HasR(n)
         /\ Diff[n] = "deleteLocal" => ~HasR(n) /\ HasB(n)
         /\ Diff[n] = "deleteRemote" => HasR(n) /\ HasB(n) /\ ~HasL(n)
<1>1. CASE n \in Folders
  <2>1. Diff[n] = OfFolder(n) /\ n \notin Files BY <1>1, TreeAssumption DEF Diff
  <2> QED BY <1>1, <2>1 DEF OfFolder
<1>2. CASE n \in Files
  <2>1. Diff[n] = OfFile(n) /\ n \notin Folders BY <1>2, TreeAssumption DEF Diff
  <2> QED BY <1>2, <2>1 DEF OfFile, RemoteChanged, LocalChanged
<1> QED BY <1>1, <1>2 DEF Nodes

\* The copies that are set aside: nothing was told of them.
LEMMA SparedOut ==
  ASSUME TypeInv, TreeInv, NEW n \in Nodes
  PROVE  /\ n \in Spared(Diff) <=> Hid(n, Detached(Diff))
         /\ n \in Spared(Diff) => pass.remote[n] = 0
<1>1. Detached(Diff) \subseteq Nodes /\ \A d \in Detached(Diff) : Diff[d] = "deleteLocal"
  BY DEF TypeInv, RowsOK, Detached, Nodes
<1>2. n \in Spared(Diff) <=> \E d \in Detached(Diff) : n \in Whole(d) BY DEF Spared
<1>3. \A d \in Detached(Diff) : pass.remote[d] = 0 BY <1>1, DiffIs DEF HasR
<1>4. \A d \in Detached(Diff) : n \in Whole(d) => pass.remote[n] = 0
  BY <1>1, <1>3, InWhole DEF TreeInv, ScanOK, Closed
<1> QED BY <1>1, <1>2, <1>4, InWhole DEF Hid

\* What is left of the rows.
LEMMA DropKnown ==
  ASSUME TypeInv, NEW N, Drop(N)
  PROVE  /\ \A n \in Nodes : KnownF'[n] = IF n \in N THEN 0 ELSE KnownF[n]
         /\ \A f \in Folders : dirs'[f] = IF f \in N THEN "none" ELSE dirs[f]
BY TreeAssumption DEF Drop, KnownF, Known, Nodes

\* What is known of the server, when rows are dropped.
LEMMA DropServer ==
  ASSUME TreeInv, NEW e, \A f \in Folders : e[f] = "fresh" => dirs[f] = "fresh", NEW now, now \subseteq pass.now
  PROVE  ServerOK(server, e, now, saved)
BY DEF TreeInv, ServerOK, FreshUp, NowUp

\* A name on neither side is dead.
LEMMA NothingTold ==
  ASSUME NEW n \in Nodes, ~HasR(n), ~HasL(n)
  PROVE  Diff[n] = "none" /\ n \in Dead
<1>1. OfFile(n) = "none" /\ OfFolder(n) = "none" BY DEF OfFile, OfFolder
<1> QED BY <1>1 DEF Diff, Dead

\* What is left of the plan.
LEMMA RemainingIs ==
  ASSUME NEW n \in Nodes
  PROVE  Remaining(Diff)[n] = IF n \in Spared(Diff) THEN "none" ELSE Diff[n]
BY DEF Remaining

\* The scan says nothing of what is set aside, nor of what is parked.
LEMMA ParkedMore ==
  ASSUME TypeInv, TreeInv, NEW n \in Nodes, parked' = parked \cup Detached(Diff)
  PROVE  /\ Hid(n, parked') <=> Hid(n, parked) \/ n \in Spared(Diff)
         /\ Hid(n, parked') => pass.remote[n] = 0 /\ Remaining(Diff)[n] = "none" /\ n \in Dead \cup Spared(Diff)
<1>1. Hid(n, parked') <=> Hid(n, parked) \/ n \in Spared(Diff) BY SparedOut, HidEither
<1>2. ASSUME Hid(n, parked) PROVE pass.remote[n] = 0 /\ Diff[n] = "none" /\ n \in Dead
  <2>1. pass.remote[n] = 0 BY <1>2 DEF TreeInv, ParkedOut
  <2>2. n \in Parked BY <1>2, Unhidden
  <2> QED BY <2>1, <2>2, NothingTold DEF HasR, HasL, Here
<1> QED BY <1>1, <1>2, SparedOut, RemainingIs

\* Under a row that is fresh, rows of names on neither side were true of them.
LEMMA GoneTrue ==
  ASSUME TypeInv, TreeInv, pass.at = "scan", pass.queue = {}, parked' = parked \cup Detached(Diff),
         NEW n \in Nodes, n \in Dead \cup Spared(Diff), NEW f \in Above[n], dirs[f] = "fresh"
  PROVE  server[n] = 0 \/ Hid(n, hid) \/ Hid(n, parked')
<1>1. n \in Spared(Diff) => Hid(n, parked') BY ParkedMore
<1>2. n \in Dead => pass.remote[n] = 0 BY DEF Dead, HasR
<1>3. server[n] = pass.remote[n] \/ Hid(n, hid) \/ Hid(n, parked) BY FreshRight
<1> QED BY <1>1, <1>2, <1>3, ParkedMore

\* What the scan told stays true when rows are dropped and shares parked.
LEMMA ScanOn ==
  ASSUME NEW s, NEW d, NEW r, NEW now, NEW Q, NEW H, NEW P, ScanOK(s, d, r, now, Q, H, P),
         NEW e, \A f \in Folders : e[f] = "fresh" => d[f] = "fresh",
         NEW O, P \subseteq O
  PROVE  ScanOK(s, e, r, now, Q, H, O)
<1>1. ToldTrue(s, r, now, Q, H, O) BY HidMore DEF ScanOK, ToldTrue
<1> QED BY <1>1 DEF ScanOK, FreshNow

\* A plan fits the nodes it is for.
LEMMA PlanShape ==
  ASSUME TypeInv, TreeInv, pass.at = "scan"
  PROVE  PlanFits(Remaining(Diff), pass.remote, pass.same)
<1> SUFFICES ASSUME NEW n \in Nodes
             PROVE  LET p == Remaining(Diff) IN
                    /\ p[n] = "mkLocal" => n \in Folders /\ pass.remote[n] = 1 /\ n \notin pass.same
                    /\ p[n] = "mkRemote" => n \in Folders /\ pass.remote[n] = 0
                    /\ p[n] \in {"upload", "download", "conflict"} => n \in Files
                    /\ p[n] = "download" => pass.remote[n] # 0
                    /\ p[n] = "deleteLocal" => pass.remote[n] = 0
                    /\ p[n] = "deleteRemote" => pass.remote[n] # 0
  BY DEF PlanFits
<1>1. Remaining(Diff)[n] = "none" \/ Remaining(Diff)[n] = Diff[n] BY RemainingIs
<1>2. ASSUME n \in Folders PROVE pass.remote[n] \in {0, 1} /\ (~HasB(n) => n \notin pass.same)
  <2>1. pass.remote[n] \in 0 .. 1 BY <1>2, OfSides DEF TypeInv, PassOK, Passes
  <2>2. SameKnown(dirs, pass.same) BY DEF TreeInv, PassShape
  <2> QED BY <1>2, <2>1, <2>2 DEF SameKnown, HasB, Known
<1> QED BY <1>1, <1>2, DiffIs DEF HasR

\* What there is nothing to do for is as the listings say.
LEMMA NothingToDo ==
  ASSUME TypeInv, TreeInv, pass.at = "scan",
         NEW n \in Nodes, Remaining(Diff)[n] = "none"
  PROVE  \/ n \in Dead \cup Spared(Diff) /\ pass.remote[n] = 0
         \/ n \notin Dead \cup Spared(Diff) /\ n \in Files /\ row[n] = pass.remote[n]
         \/ n \notin Dead \cup Spared(Diff) /\ n \in Folders /\ pass.remote[n] = 1 /\ (n \in pass.same => dirs[n] # "none")
<1>1. CASE n \in Spared(Diff) BY <1>1, SparedOut
<1>2. CASE n \notin Spared(Diff)
  <2>1. (HasR(n) <=> HasL(n)) /\ (n \in Files /\ HasR(n) => row[n] = pass.remote[n]) BY <1>2, RemainingIs, DiffIs
  <2>2. CASE ~HasR(n) BY <2>1, <2>2 DEF Dead, HasR
  <2>3. CASE HasR(n)
    <3>1. n \notin Dead BY <2>3 DEF Dead
    <3>2. CASE n \in Files BY <1>2, <2>1, <2>3, <3>1, <3>2
    <3>3. CASE n \in Folders
      <4>1. pass.remote[n] \in 0 .. 1 BY <3>3, OfSides DEF TypeInv, PassOK, Passes
      <4>2. SameKnown(dirs, pass.same) BY DEF TreeInv, PassShape
      <4>3. pass.remote[n] = 1 BY <2>3, <4>1 DEF HasR
      <4> QED BY <1>2, <3>1, <3>3, <4>2, <4>3 DEF SameKnown
    <3> QED BY <3>2, <3>3 DEF Nodes
  <2> QED BY <2>2, <2>3
<1> QED BY <1>1, <1>2

\* The plan keeps the invariant.
LEMMA PlanInv == ASSUME TypeInv, TreeInv, Plan PROVE TreeInv'
<1> DEFINE gone == Dead \cup Spared(Diff)
           p == Remaining(Diff)
           R == Rows(gone)
<1>1. pass.at = "scan" /\ pass.queue = {} /\ Drop(gone) /\ parked' = parked \cup Detached(Diff)
      /\ UNCHANGED << server, saved, hid >>
  BY DEF Plan, files
<1>2. pass' = Idle \/ pass' = [pass EXCEPT !.at = "act", !.plan = p, !.known = R, !.granted = granted] BY DEF Plan
<1>3. /\ pass.plan = NoPlan /\ pass.problems = {} /\ ~pass.cut /\ pass.made = {} /\ pass.hurt = {}
      /\ FreshTold(server, dirs, pass.remote, {}, hid)
  BY <1>1 DEF TreeInv, PassShape
<1>4. \A n \in Nodes : KnownF'[n] = IF n \in gone THEN 0 ELSE KnownF[n] BY <1>1, DropKnown
<1>5. \A f \in Folders : dirs'[f] = "fresh" => dirs[f] = "fresh" BY <1>1, DropKnown
<1> HIDE DEF gone, p, R
<1>6. RowsTrue(server, KnownF', dirs', parked', hid)
  <2> SUFFICES ASSUME NEW n \in Nodes, NEW f \in Above[n], dirs'[f] = "fresh"
               PROVE  KnownF'[n] = server[n] \/ Hid(n, hid) \/ Hid(n, parked')
    BY DEF RowsTrue
  <2>1. dirs[f] = "fresh" BY <1>5, Kin
  <2>2. CASE n \in gone BY <1>1, <1>4, <2>1, <2>2, GoneTrue DEF gone
  <2>3. CASE n \notin gone
    <3>1. KnownF[n] = server[n] \/ Hid(n, hid \cup pass.made) \/ Hid(n, parked) BY <2>1 DEF TreeInv, RowsTrue
    <3>2. Hid(n, parked) => Hid(n, parked') BY <1>1, ParkedMore
    <3> QED BY <1>3, <1>4, <2>3, <3>1, <3>2
  <2> QED BY <2>2, <2>3
<1>7. \A n \in Nodes : Hid(n, parked') => KnownF'[n] = 0 /\ pass.remote[n] = 0 /\ p[n] = "none"
  BY <1>1, <1>4, ParkedMore DEF gone, p
<1>8. \A now : now \subseteq pass.now => ServerOK(server', dirs', now, saved') BY <1>1, <1>5, DropServer
<1>9. CASE pass' = Idle
  <2>1. ServerOK(server', dirs', {}, saved') BY <1>8
  <2> QED BY <1>1, <1>6, <1>7, <1>9, <2>1, ToIdle
<1>10. CASE pass' = [pass EXCEPT !.at = "act", !.plan = p, !.known = R, !.granted = granted]
  <2>1. /\ pass'.at = "act" /\ pass'.queue = pass.queue /\ pass'.remote = pass.remote /\ pass'.same = pass.same
        /\ pass'.now = pass.now /\ pass'.problems = pass.problems /\ pass'.cut = pass.cut /\ pass'.made = pass.made
        /\ pass'.plan = p
    BY <1>10 DEF TypeInv, PassOK, Passes
  <2>2. ScanOK(server, dirs', pass.remote, pass.now, pass.queue, hid, parked')
    BY <1>1, <1>5, ScanOn DEF TreeInv
  <2>3. FreshTold(server, dirs', pass.remote, {}, hid) BY <1>3, <1>5 DEF FreshTold
  <2>4. PlanFits(p, pass.remote, pass.same) BY <1>1, PlanShape DEF p
  <2>5. ParkedOut(KnownF', parked', pass.remote, p) BY <1>7 DEF ParkedOut
  <2>6. DoneTrue(KnownF', pass.remote, pass.same, hid, dirs', pass.now, p, {})
    <3> SUFFICES ASSUME NEW n \in Nodes, p[n] = "none"
                 PROVE  KnownF'[n] = pass.remote[n] \/ (n \in Folders /\ pass.remote[n] = 1 /\ n \notin pass.same)
      BY DEF DoneTrue
    <3>1. \/ n \in gone /\ pass.remote[n] = 0
          \/ n \notin gone /\ n \in Files /\ row[n] = pass.remote[n]
          \/ n \notin gone /\ n \in Folders /\ pass.remote[n] = 1 /\ (n \in pass.same => dirs[n] # "none")
      BY <1>1, NothingToDo DEF gone, p
    <3>2. n \in Files => KnownF[n] = row[n] BY TreeAssumption DEF KnownF, Known
    <3>3. n \in Folders /\ dirs[n] # "none" => KnownF[n] = 1 BY DEF KnownF, Known
    <3> QED BY <1>4, <3>1, <3>2, <3>3
  <2>7. PassShape' BY <1>1, <1>3, <2>1, <2>3, <2>6 DEF PassShape
  <2>8. ServerOK(server', dirs', pass'.now, saved') BY <1>8, <2>1
  <2>9. RowsTrue(server', KnownF', dirs', parked', hid' \cup pass'.made) BY <1>1, <1>3, <1>6, <2>1
  <2> QED BY <1>1, <2>1, <2>2, <2>4, <2>5, <2>7, <2>8, <2>9 DEF TreeInv
<1> QED BY <1>2, <1>9, <1>10

\* So does a pass with nothing to do.
LEMMA QuietInv == ASSUME TypeInv, TreeInv, Quiet PROVE TreeInv'
<1> DEFINE gone == Dead \cup Spared(Diff)
<1>1. /\ pass.at = "scan" /\ pass.queue = {} /\ parked' = parked \cup Detached(Diff) /\ pass' = Idle
      /\ UNCHANGED << server, hid >> /\ \A n \in Nodes : Remaining(Diff)[n] = "none"
  BY DEF Quiet, files
<1>2. pass.made = {} BY <1>1 DEF TreeInv, PassShape
<1>3. \A f \in Folders : dirs'[f] = IF f \in Listed({}) THEN (IF f \in pass.now THEN "fresh" ELSE "stale")
                                    ELSE IF f \in gone THEN "none" ELSE dirs[f]
  BY DEF Quiet
<1>4. \A n \in Files : row'[n] = IF n \in gone THEN 0 ELSE row[n] BY DEF Quiet
<1>5. \A f \in Folders : f \in Listed({}) <=> pass.remote[f] = 1 /\ f \notin pass.same BY DEF Listed, Dirty
<1> HIDE DEF gone
<1>6. ASSUME NEW n \in Nodes PROVE KnownF'[n] = pass.remote[n] \/ Hid(n, parked')
  <2>1. \/ n \in gone /\ pass.remote[n] = 0
        \/ n \notin gone /\ n \in Files /\ row[n] = pass.remote[n]
        \/ n \notin gone /\ n \in Folders /\ pass.remote[n] = 1 /\ (n \in pass.same => dirs[n] # "none")
    BY <1>1, NothingToDo DEF gone
  <2>2. CASE n \in Files
    <3>1. KnownF'[n] = row'[n] BY <2>2, TreeAssumption DEF KnownF, Known
    <3> QED BY <1>4, <2>1, <2>2, <3>1, TreeAssumption
  <2>3. CASE n \in Folders
    <3>1. KnownF'[n] = IF dirs'[n] = "none" THEN 0 ELSE 1 BY <2>3 DEF KnownF, Known
    <3>2. n \notin Files BY <2>3, TreeAssumption
    <3> QED BY <1>3, <1>5, <2>1, <2>3, <3>1, <3>2
  <2> QED BY <2>2, <2>3 DEF Nodes
<1>7. RowsTrue(server, KnownF', dirs', parked', hid)
  <2> SUFFICES ASSUME NEW n \in Nodes, NEW f \in Above[n], dirs'[f] = "fresh"
               PROVE  KnownF'[n] = server[n] \/ Hid(n, hid) \/ Hid(n, parked')
    BY DEF RowsTrue
  <2>1. f \in Folders BY Kin
  <2>2. f \in pass.now \/ dirs[f] = "fresh" BY <1>3, <2>1
  <2>3. server[n] = pass.remote[n] \/ Hid(n, hid) \/ Hid(n, parked)
    BY <1>1, <2>2, ToldNow, FreshRight
  <2>4. Hid(n, parked) => Hid(n, parked') BY <1>1, ParkedMore
  <2> QED BY <1>6, <2>3, <2>4
<1>8. ASSUME NEW n \in Nodes, Hid(n, parked') PROVE KnownF'[n] = 0
  <2>1. pass.remote[n] = 0 /\ n \in gone BY <1>1, <1>8, ParkedMore DEF gone
  <2>2. CASE n \in Files BY <1>4, <2>1, <2>2, TreeAssumption DEF KnownF, Known
  <2>3. CASE n \in Folders BY <1>3, <1>5, <2>1, <2>3 DEF KnownF, Known
  <2> QED BY <2>2, <2>3 DEF Nodes
<1>9. ServerOK(server, dirs', {}, saved')
  <2>1. FreshUp(server, dirs')
    <3> SUFFICES ASSUME NEW f \in Folders, dirs'[f] = "fresh" PROVE server[f] = 1 BY DEF FreshUp
    <3>1. f \in pass.now \/ dirs[f] = "fresh" BY <1>3
    <3> QED BY <3>1 DEF TreeInv, ServerOK, FreshUp, NowUp
  <2>2. SavedTrue(server, saved')
    <3>1. \A f \in Folders : saved'[f].now = {} BY DEF Quiet, Clear, None
    <3> QED BY <3>1 DEF SavedTrue
  <2> QED BY <2>1, <2>2 DEF TreeInv, ServerOK, NowUp
<1> QED BY <1>1, <1>7, <1>8, <1>9, ToIdle


\* What an action that was carried out leaves of the pass.
ActDid(n, T, q) ==
  /\ q.at = "act" /\ q.queue = {} /\ q.remote = pass.remote /\ q.same = pass.same /\ q.now = pass.now \ T
  /\ q.problems = pass.problems /\ q.cut = pass.cut
  /\ \A m \in Nodes : q.plan[m] = IF m = n THEN "none" ELSE pass.plan[m]

(*************************************************************************)
(* The actions.                                                          *)
(*************************************************************************)
\* What each kind of action leaves of the pass.
LEMMA ActDoes ==
  ASSUME TypeInv, TreeInv, NEW n \in Nodes, Ready(n), NEW T
  PROVE  /\ ActDid(n, {}, Did(n)) /\ ActDid(n, T, [Did(n) EXCEPT !.now = @ \ T])
         /\ \A N : ActDid(n, {}, Hurt(n, N)) /\ Hurt(n, N).made = pass.made
         /\ \A M : ActDid(n, {}, [Did(n) EXCEPT !.made = @ \cup M]) /\ [Did(n) EXCEPT !.made = @ \cup M].made = pass.made \cup M
         /\ Did(n).made = pass.made /\ [Did(n) EXCEPT !.now = @ \ T].made = pass.made
<1> DEFINE q == Did(n)
<1>1. /\ q \in Passes /\ q.at = "act" /\ q.queue = {} /\ q.remote = pass.remote /\ q.same = pass.same /\ q.now = pass.now
      /\ q.problems = pass.problems /\ q.cut = pass.cut /\ q.made = pass.made
      /\ \A m \in Nodes : q.plan[m] = IF m = n THEN "none" ELSE pass.plan[m]
  BY DidHas DEF Ready, TreeInv, PassShape
<1>2. \A N : Hurt(n, N) = [q EXCEPT !.hurt = @ \cup {m \in N \cap pass.known : HasB(m)}] BY DEF Hurt
<1>3. pass.now \ {} = pass.now OBVIOUS
<1> HIDE DEF q
<1>4. ActDid(n, {}, q) /\ ActDid(n, T, [q EXCEPT !.now = @ \ T]) /\ [q EXCEPT !.now = @ \ T].made = pass.made
  BY <1>1, <1>3 DEF Passes, ActDid
<1>5. \A N : ActDid(n, {}, Hurt(n, N)) /\ Hurt(n, N).made = pass.made BY <1>1, <1>2, <1>3 DEF Passes, ActDid
<1>6. \A M : ActDid(n, {}, [q EXCEPT !.made = @ \cup M]) /\ [q EXCEPT !.made = @ \cup M].made = pass.made \cup M
  BY <1>1, <1>3 DEF Passes, ActDid
<1> QED BY <1>1, <1>4, <1>5, <1>6 DEF q

\* So does the making of a folder on the server.
LEMMA ActMakes ==
  ASSUME TypeInv, TreeInv, NEW n \in Nodes, Ready(n), NEW T, NEW M
  PROVE  /\ ActDid(n, T, [Did(n) EXCEPT !.now = @ \ T, !.made = @ \cup M])
         /\ [Did(n) EXCEPT !.now = @ \ T, !.made = @ \cup M].made = pass.made \cup M
<1> DEFINE q == Did(n)
<1>1. /\ q \in Passes /\ q.at = "act" /\ q.queue = {} /\ q.remote = pass.remote /\ q.same = pass.same /\ q.now = pass.now
      /\ q.problems = pass.problems /\ q.cut = pass.cut /\ q.made = pass.made
      /\ \A m \in Nodes : q.plan[m] = IF m = n THEN "none" ELSE pass.plan[m]
  BY DidHas DEF Ready, TreeInv, PassShape
<1> HIDE DEF q
<1>2. /\ ActDid(n, T, [q EXCEPT !.now = @ \ T, !.made = @ \cup M])
      /\ [q EXCEPT !.now = @ \ T, !.made = @ \cup M].made = pass.made \cup M
  BY <1>1 DEF Passes, ActDid
<1> QED BY <1>2 DEF q

\* While the pass acts: what is ready, and what cannot be pending any more.
LEMMA ReadyHas ==
  ASSUME TypeInv, TreeInv, NEW n \in Nodes, Ready(n)
  PROVE  /\ pass.at = "act" /\ pass.queue = {} /\ ~Hid(n, parked)
         /\ FreshTold(server, dirs, pass.remote, {}, hid)
         /\ (~pass.cut => DoneTrue(KnownF, pass.remote, pass.same, hid, dirs, pass.now, pass.plan, pass.problems))
         /\ pass.plan[n] \in {"mkRemote", "download", "upload", "conflict", "deleteLocal", "deleteRemote"} =>
              \A m \in Nodes : pass.plan[m] # "mkLocal"
         /\ pass.plan[n] \in {"download", "upload", "conflict", "deleteLocal", "deleteRemote"} =>
              \A m \in Nodes : pass.plan[m] \notin {"mkLocal", "mkRemote"}
         /\ pass.plan[n] = "mkRemote" => \A k \in Above[n] : pass.plan[k] \notin {"mkLocal", "mkRemote"}
<1>1. pass.at = "act" /\ pass.plan[n] # "none" BY DEF Ready
<1>2. ~Hid(n, parked) BY <1>1 DEF TreeInv, ParkedOut
<1>3. \A m \in Nodes : Phase[pass.plan[n]] <= Phase[pass.plan[m]] BY DEF Ready
<1>4. pass.plan[n] \in {"mkRemote", "download", "upload", "conflict", "deleteLocal", "deleteRemote"} =>
              \A m \in Nodes : pass.plan[m] # "mkLocal"
  BY <1>3 DEF Phase
<1>5. pass.plan[n] \in {"download", "upload", "conflict", "deleteLocal", "deleteRemote"} =>
              \A m \in Nodes : pass.plan[m] \notin {"mkLocal", "mkRemote"}
  BY <1>3 DEF Phase
<1>6. pass.plan[n] = "mkRemote" => \A k \in Above[n] : pass.plan[k] \notin {"mkLocal", "mkRemote"}
  BY <1>4, Kin DEF Ready, Nodes
<1> QED BY <1>1, <1>2, <1>4, <1>5, <1>6 DEF TreeInv, PassShape

\* An action that was carried out keeps the invariant, its parts given.
LEMMA ActStep ==
  ASSUME TypeInv, TreeInv, NEW n \in Nodes, Ready(n), NEW T, ActDid(n, T, pass'),
         UNCHANGED parked, hid \subseteq hid', Changes(server, server', T),
         ServerOK(server', dirs', pass'.now, saved'),
         RowsTrue(server', KnownF', dirs', parked, hid' \cup pass'.made),
         \A m \in Nodes : Hid(m, parked) => KnownF'[m] = KnownF[m] \/ KnownF'[m] = 0,
         \A f \in Folders : dirs'[f] = "fresh" =>
           \/ dirs[f] = "fresh" /\ f \notin T
           \/ pass.remote[f] = 1 /\ f \in pass.now \ T
           \/ pass.remote[f] = 0 /\ (Hid(f, hid') \/ \A m \in Nodes : f \in Above[m] => server'[m] = 0),
         ~pass.cut => DoneTrue(KnownF', pass.remote, pass.same, hid', dirs', pass.now \ T, pass'.plan, pass.problems)
  PROVE  TreeInv'
<1>1. ParkedOut(KnownF', parked, pass.remote, pass'.plan) BY DEF ActDid, TreeInv, ParkedOut
<1>2. PlanFits(pass'.plan, pass.remote, pass.same) BY DEF ActDid, TreeInv, PlanFits
<1>3. pass.queue = {} /\ FreshTold(server, dirs, pass.remote, {}, hid) BY ReadyHas
<1>4. ScanOK(server', dirs', pass.remote, pass.now \ T, {}, hid', parked)
  <2>1. \A f \in Folders : dirs'[f] = "fresh" /\ pass.remote[f] = 1 => (dirs[f] = "fresh" /\ f \notin T) \/ f \in pass.now \ T
    OBVIOUS
  <2>2. ScanOK(server, dirs, pass.remote, pass.now, {}, hid, parked) BY <1>3 DEF TreeInv
  <2> QED BY <2>1, <2>2, BumpScan
<1>5. FreshTold(server', dirs', pass.remote, {}, hid')
  <2>1. \A f \in Folders : dirs'[f] = "fresh" =>
                  \/ dirs[f] = "fresh" /\ f \notin T
                  \/ pass.remote[f] = 1 \/ Hid(f, hid') \/ (\A m \in Nodes : f \in Above[m] => server'[m] = 0)
    OBVIOUS
  <2> QED BY <1>3, <2>1, BumpFresh
<1>6. PassShape' BY <1>5 DEF ActDid, PassShape
<1> QED BY <1>1, <1>2, <1>4, <1>6 DEF ActDid, TreeInv

\* What is known of one name changes.
LEMMA KnownFile ==
  ASSUME TypeInv, NEW n \in Files, NEW v, row' = [row EXCEPT ![n] = v], \A f \in Folders : dirs'[f] = "none" <=> dirs[f] = "none"
  PROVE  \A m \in Nodes : KnownF'[m] = IF m = n THEN v ELSE KnownF[m]
<1>1. \A m \in Files : row'[m] = IF m = n THEN v ELSE row[m] BY DEF TypeInv, RowsOK
<1>2. \A m \in Files : m \notin Folders BY TreeAssumption
<1> QED BY <1>1, <1>2 DEF KnownF, Known, Nodes

\* The row of a folder is made.
LEMMA KnownFolder ==
  ASSUME TypeInv, NEW f \in Folders, row' = row, \A g \in Folders : dirs'[g] = "none" <=> dirs[g] = "none" /\ g # f
  PROVE  \A m \in Nodes : KnownF'[m] = IF m = f THEN 1 ELSE KnownF[m]
BY DEF KnownF, Known

\* Nothing changes on the server.
LEMMA NoChange == ASSUME NEW s PROVE Changes(s, s, {})
BY DEF Changes

\* An action brings what it touched to what the listing said, or leaves the folders above it unstamped.
LEMMA DoneAct ==
  ASSUME TypeInv, TreeInv, NEW n \in Nodes, Ready(n), NEW T, ActDid(n, T, pass'), hid \subseteq hid', ~pass.cut,
         \A f \in Folders : dirs'[f] = "fresh" => dirs[f] = "fresh" \/ pass.plan[f] \in {"mkLocal", "mkRemote"},
         \A m \in Nodes : \/ KnownF'[m] = KnownF[m] \/ KnownF'[m] = pass.remote[m]
                          \/ Hid(m, hid') \/ Touched(m, dirs', pass.now \ T, pass'.plan),
         \/ KnownF'[n] = pass.remote[n] \/ (n \in Folders /\ pass.remote[n] = 1 /\ n \notin pass.same)
         \/ Hid(n, hid') \/ Touched(n, dirs', pass.now \ T, pass'.plan)
  PROVE  DoneTrue(KnownF', pass.remote, pass.same, hid', dirs', pass.now \ T, pass'.plan, pass.problems)
<1>1. DoneTrue(KnownF, pass.remote, pass.same, hid, dirs, pass.now, pass.plan, pass.problems) BY ReadyHas
<1>2. \A m \in Nodes : pass'.plan[m] = IF m = n THEN "none" ELSE pass.plan[m] BY DEF ActDid
<1>3. \A m \in Nodes : Touched(m, dirs, pass.now, pass.plan) => Touched(m, dirs', pass.now \ T, pass'.plan)
  BY <1>2, Kin DEF Touched, Nodes
<1>4. \A m \in Nodes : Hid(m, hid) => Hid(m, hid') BY HidMore
<1> QED BY <1>1, <1>2, <1>3, <1>4 DEF DoneTrue

\* A folder is made here.
LEMMA MkLocalInv == ASSUME TypeInv, TreeInv, NEW f \in Folders, MkLocal(f) PROVE TreeInv'
<1>1. f \in Nodes /\ Ready(f) /\ pass.plan[f] = "mkLocal" BY DEF MkLocal, Makes, Nodes
<1>2. pass.remote[f] = 1 /\ f \notin pass.same BY <1>1 DEF TreeInv, PlanFits
<1>3. UNCHANGED << server, row, saved, parked, hid >> BY DEF MkLocal, world, seen
<1>4. \A g \in Folders : dirs'[g] = IF g = f THEN (IF f \in pass.now THEN "fresh" ELSE "stale") ELSE dirs[g]
  BY DEF MkLocal, TypeInv, RowsOK
<1>5. \A m \in Nodes : KnownF'[m] = IF m = f THEN 1 ELSE KnownF[m] BY <1>3, <1>4, KnownFolder
<1>6. ActDid(f, {}, pass') /\ pass'.made = pass.made \cup {f} BY <1>1, ActDoes DEF MkLocal
<1>7. ServerOK(server', dirs', pass'.now, saved')
  <2>1. pass'.now = pass.now BY <1>6 DEF ActDid
  <2> QED BY <1>3, <1>4, <2>1 DEF TreeInv, ServerOK, FreshUp, NowUp
<1>8. RowsTrue(server', KnownF', dirs', parked, hid' \cup pass'.made)
  <2> SUFFICES ASSUME NEW n \in Nodes, NEW g \in Above[n], dirs'[g] = "fresh"
               PROVE  KnownF'[n] = server[n] \/ Hid(n, hid \cup pass'.made) \/ Hid(n, parked)
    BY <1>3 DEF RowsTrue
  <2>1. CASE n = f \/ g = f BY <1>6, <2>1 DEF Hid
  <2>2. CASE n # f /\ g # f
    <3>1. KnownF[n] = server[n] \/ Hid(n, hid \cup pass.made) \/ Hid(n, parked)
      BY <1>4, <2>2, Kin DEF TreeInv, RowsTrue
    <3>2. Hid(n, hid \cup pass.made) => Hid(n, hid \cup pass'.made) BY <1>6 DEF Hid
    <3> QED BY <1>5, <2>2, <3>1, <3>2
  <2> QED BY <2>1, <2>2
<1>9. \A m \in Nodes : Hid(m, parked) => KnownF'[m] = KnownF[m]
  BY <1>1, <1>5, ReadyHas
<1>10. \A g \in Folders : dirs'[g] = "fresh" =>
           \/ dirs[g] = "fresh" /\ g \notin {}
           \/ pass.remote[g] = 1 /\ g \in pass.now \ {}
  BY <1>2, <1>4
<1>11. ~pass.cut => DoneTrue(KnownF', pass.remote, pass.same, hid', dirs', pass.now \ {}, pass'.plan, pass.problems)
  <2> SUFFICES ASSUME ~pass.cut
               PROVE  DoneTrue(KnownF', pass.remote, pass.same, hid', dirs', pass.now \ {}, pass'.plan, pass.problems)
    OBVIOUS
  <2>1. \A g \in Folders : dirs'[g] = "fresh" => dirs[g] = "fresh" \/ pass.plan[g] \in {"mkLocal", "mkRemote"} BY <1>1, <1>4
  <2>2. \A m \in Nodes : KnownF'[m] = KnownF[m] \/ KnownF'[m] = pass.remote[m] BY <1>2, <1>5
  <2>3. KnownF'[f] = pass.remote[f] BY <1>1, <1>2, <1>5
  <2> QED BY <1>1, <1>3, <1>6, <2>1, <2>2, <2>3, DoneAct
<1> QED BY <1>1, <1>3, <1>6, <1>7, <1>8, <1>9, <1>10, <1>11, NoChange, ActStep

\* A folder is made on the server.
LEMMA MkRemoteInv == ASSUME TypeInv, TreeInv, NEW f \in Folders, MkRemote(f) PROVE TreeInv'
<1> DEFINE T == IF server[f] = 0 THEN Above[f] ELSE {}
           M == {g \in {f} : \E n \in Whole(f) \ {f} : Known(n) # 0}
<1>1. f \in Nodes /\ Ready(f) /\ pass.plan[f] = "mkRemote" /\ ParentThere(f)
  BY DEF MkRemote, Makes, Impossible, Nodes
<1>2. pass.remote[f] = 0 BY <1>1 DEF TreeInv, PlanFits
<1>3. UNCHANGED << row, parked >> /\ server' = [server EXCEPT ![f] = 1] /\ dirs' = [Stale(T) EXCEPT ![f] = "fresh"]
      /\ saved' = Kept(Passed(T)) /\ pass' = [Did(f) EXCEPT !.now = @ \ T, !.made = @ \cup M]
      /\ hid' = (IF server[f] = 1 THEN hid \cup {f} ELSE hid)
  BY DEF MkRemote, world
<1>4. server[f] \in {0, 1} /\ T \subseteq Above[f] /\ (server[f] = 0 => T = Above[f]) /\ f \notin T
  <2>1. server[f] \in 0 .. 1 BY OfSides DEF TypeInv, FilesOK
  <2> QED BY <1>1, <2>1, Kin
<1>5. \A m \in Nodes : server'[m] = IF m = f THEN 1 ELSE server[m] BY <1>3, OfSides DEF TypeInv, FilesOK
<1>6. \A n \in Nodes : f \in Above[n] /\ Known(n) # 0 => M = {f} BY Kin DEF Whole, Nodes
<1> HIDE DEF T, M
<1>7. \A g \in Folders : dirs'[g] = IF g = f THEN "fresh" ELSE IF g \in T /\ dirs[g] = "fresh" THEN "stale" ELSE dirs[g]
  BY <1>3 DEF Stale
<1>8. \A m \in Nodes : KnownF'[m] = IF m = f THEN 1 ELSE KnownF[m] BY <1>3, <1>7, KnownFolder
<1>9. ActDid(f, T, pass') /\ pass'.made = pass.made \cup M
  <2>1. /\ ActDid(f, T, [Did(f) EXCEPT !.now = @ \ T, !.made = @ \cup M])
        /\ [Did(f) EXCEPT !.now = @ \ T, !.made = @ \cup M].made = pass.made \cup M
    BY <1>1, ActMakes
  <2> QED BY <1>3, <2>1
<1>10. Up(server') /\ Changes(server, server', T)
  <2>1. \A k \in Above[f] : server[k] = 1 BY <1>1, Rooted DEF ParentThere, TreeInv, ServerOK
  <2>2. \A m \in Nodes : server'[m] = IF m = f THEN 1 ELSE IF m \in Above[f] THEN 1 ELSE server[m] BY <1>5, <2>1
  <2>3. Up(server') BY <1>1, <2>2, Grown DEF TreeInv, ServerOK
  <2> QED BY <1>4, <1>5, <2>3 DEF Changes, Nodes
<1>11. hid \subseteq hid' BY <1>3
<1>12. ServerOK(server', dirs', pass'.now, saved')
  <2>1. SavedOK /\ pass.now \subseteq Folders BY DEF TypeInv, PassOK, Passes
  <2>2. \A g \in Folders : dirs'[g] = "fresh" => (dirs[g] = "fresh" /\ g \notin T) \/ server'[g] = 1 BY <1>1, <1>5, <1>7
  <2>3. ServerOK(server, dirs, pass.now, saved) BY DEF TreeInv
  <2>4. ServerOK(server', dirs', pass.now \ T, Kept(Passed(T))) BY <1>10, <2>1, <2>2, <2>3, BumpServer
  <2> QED BY <1>3, <1>9, <2>4 DEF ActDid
<1>13. ASSUME NEW n \in Nodes, f \in Above[n]
       PROVE  server[n] = 0 \/ Hid(n, hid')
  <2>1. CASE server[f] = 1 BY <1>3, <1>13, <2>1 DEF Hid
  <2>2. CASE server[f] = 0 BY <1>13, <2>2 DEF TreeInv, ServerOK, Up
  <2> QED BY <1>4, <2>1, <2>2
<1>14. RowsTrue(server', KnownF', dirs', parked, hid' \cup pass'.made)
  <2> SUFFICES ASSUME NEW n \in Nodes, NEW g \in Above[n], dirs'[g] = "fresh"
               PROVE  KnownF'[n] = server'[n] \/ Hid(n, hid' \cup pass'.made) \/ Hid(n, parked)
    BY DEF RowsTrue
  <2>1. CASE n = f BY <1>5, <1>8, <2>1
  <2>2. CASE n # f /\ g = f
    <3>1. CASE Known(n) # 0 BY <1>6, <1>9, <2>2, <3>1 DEF Hid
    <3>2. CASE Known(n) = 0
      <4>1. KnownF'[n] = 0 /\ server'[n] = server[n] BY <1>5, <1>8, <2>2, <3>2 DEF KnownF
      <4> QED BY <1>13, <2>2, <4>1 DEF Hid
    <3> QED BY <3>1, <3>2
  <2>3. CASE n # f /\ g # f
    <3>1. dirs[g] = "fresh" BY <1>7, <2>3, Kin
    <3>2. KnownF[n] = server[n] \/ Hid(n, hid \cup pass.made) \/ Hid(n, parked) BY <3>1 DEF TreeInv, RowsTrue
    <3>3. Hid(n, hid \cup pass.made) => Hid(n, hid' \cup pass'.made) BY <1>9, <1>11 DEF Hid
    <3> QED BY <1>5, <1>8, <2>3, <3>2, <3>3
  <2> QED BY <2>1, <2>2, <2>3
<1>15. \A m \in Nodes : Hid(m, parked) => KnownF'[m] = KnownF[m] BY <1>1, <1>8, ReadyHas
<1>16. \A g \in Folders : dirs'[g] = "fresh" =>
           \/ dirs[g] = "fresh" /\ g \notin T
           \/ pass.remote[g] = 0 /\ (Hid(g, hid') \/ \A m \in Nodes : g \in Above[m] => server'[m] = 0)
  <2>1. server[f] = 1 => Hid(f, hid') BY <1>3 DEF Hid
  <2>2. server[f] = 0 => \A m \in Nodes : f \in Above[m] => server'[m] = 0
    BY <1>1, <1>5, Kin DEF TreeInv, ServerOK, Up
  <2> QED BY <1>2, <1>4, <1>7, <2>1, <2>2
<1>17. ~pass.cut => DoneTrue(KnownF', pass.remote, pass.same, hid', dirs', pass.now \ T, pass'.plan, pass.problems)
  <2> SUFFICES ASSUME ~pass.cut
               PROVE  DoneTrue(KnownF', pass.remote, pass.same, hid', dirs', pass.now \ T, pass'.plan, pass.problems)
    OBVIOUS
  <2>2. \A m \in Nodes : pass'.plan[m] = IF m = f THEN "none" ELSE pass.plan[m] BY <1>9 DEF ActDid
  <2>3. \A g \in Folders : dirs'[g] = "fresh" => dirs[g] = "fresh" \/ pass.plan[g] \in {"mkLocal", "mkRemote"} BY <1>1, <1>7
  <2>4. Hid(f, hid') \/ Touched(f, dirs', pass.now \ T, pass'.plan)
    <3>1. CASE server[f] = 1 BY <1>3, <3>1 DEF Hid
    <3>2. CASE server[f] = 0
      <4>1. \A k \in Above[f] : k \in T /\ k # f /\ k \in Folders /\ k \in Nodes BY <1>1, <1>4, <3>2, Kin DEF Nodes
      <4>2. \A k \in Above[f] : pass.plan[k] \notin {"mkLocal", "mkRemote"} BY <1>1, ReadyHas
      <4> QED BY <1>7, <2>2, <4>1, <4>2 DEF Touched
    <3> QED BY <1>4, <3>1, <3>2
  <2>5. \A m \in Nodes : KnownF'[m] = KnownF[m] \/ Hid(m, hid') \/ Touched(m, dirs', pass.now \ T, pass'.plan)
    BY <1>8, <2>4
  <2> QED BY <1>1, <1>9, <1>11, <2>3, <2>4, <2>5, DoneAct
<1>18. \A m \in Nodes : Hid(m, parked) => KnownF'[m] = KnownF[m] \/ KnownF'[m] = 0 BY <1>15
<1>19. \A g \in Folders : dirs'[g] = "fresh" =>
           \/ dirs[g] = "fresh" /\ g \notin T
           \/ pass.remote[g] = 1 /\ g \in pass.now \ T
           \/ pass.remote[g] = 0 /\ (Hid(g, hid') \/ \A m \in Nodes : g \in Above[m] => server'[m] = 0)
  BY <1>16
<1>20. UNCHANGED parked /\ Ready(f) /\ f \in Nodes BY <1>1, <1>3
<1>21. Changes(server, server', T) BY <1>10
<1> QED BY <1>9, <1>11, <1>12, <1>14, <1>17, <1>18, <1>19, <1>20, <1>21, ActStep

\* Nothing is under a file.
LEMMA FileKin == ASSUME NEW n \in Files PROVE n \in Nodes /\ n \notin Folders /\ \A m \in Nodes : n \notin Above[m]
BY Kin, TreeAssumption DEF Nodes

\* A file goes up.
LEMMA UploadsInv ==
  ASSUME TypeInv, TreeInv, NEW n \in Files, NEW o, Ready(n), pass.plan[n] \in {"upload", "conflict"}, ParentThere(n),
         Uploads(n, o), UNCHANGED << parked, hid >>
  PROVE  TreeInv'
<1> DEFINE T == Above[n]
<1>1. n \in Nodes /\ n \notin Folders /\ \A m \in Nodes : n \notin Above[m] BY FileKin
<1>2. /\ server' = [server EXCEPT ![n] = disk[n]] /\ row' = [row EXCEPT ![n] = disk[n]]
      /\ dirs' = Stale(T) /\ saved' = Kept(Passed(T)) /\ pass' = [Did(n) EXCEPT !.now = @ \ T]
  BY DEF Uploads
<1>3. \A m \in Nodes : server'[m] = IF m = n THEN disk[n] ELSE server[m] BY <1>2, OfSides DEF TypeInv, FilesOK
<1>4. \A f \in Folders : dirs'[f] = "none" <=> dirs[f] = "none" BY <1>2, StaleType DEF TypeInv
<1>5. \A m \in Nodes : KnownF'[m] = IF m = n THEN disk[n] ELSE KnownF[m] BY <1>2, <1>4, KnownFile
<1>6. \A g \in Folders : dirs'[g] = "fresh" => dirs[g] = "fresh" /\ g \notin T BY <1>2 DEF Stale
<1>7. ActDid(n, T, pass') /\ pass'.made = pass.made BY <1>1, <1>2, ActDoes
<1>8. Up(server') /\ Changes(server, server', T)
  <2>1. \A k \in Above[n] : server[k] = 1 BY <1>1, Rooted DEF ParentThere, TreeInv, ServerOK
  <2>2. \A m \in Nodes : server'[m] = IF m = n THEN disk[n] ELSE IF m \in Above[n] THEN 1 ELSE server[m] BY <1>3, <2>1
  <2> QED BY <1>1, <2>2, Grown DEF TreeInv, ServerOK
<1>9. ServerOK(server', dirs', pass'.now, saved')
  <2>1. SavedOK /\ pass.now \subseteq Folders BY DEF TypeInv, PassOK, Passes
  <2>2. \A g \in Folders : dirs'[g] = "fresh" => (dirs[g] = "fresh" /\ g \notin T) \/ server'[g] = 1 BY <1>6
  <2>3. ServerOK(server, dirs, pass.now, saved) BY DEF TreeInv
  <2>4. ServerOK(server', dirs', pass.now \ T, Kept(Passed(T))) BY <1>8, <2>1, <2>2, <2>3, BumpServer
  <2> QED BY <1>2, <1>7, <2>4 DEF ActDid
<1>10. RowsTrue(server', KnownF', dirs', parked', hid' \cup pass'.made)
  <2> SUFFICES ASSUME NEW m \in Nodes, NEW g \in Above[m], dirs'[g] = "fresh"
               PROVE  KnownF'[m] = server'[m] \/ Hid(m, hid' \cup pass'.made) \/ Hid(m, parked')
    BY DEF RowsTrue
  <2>1. dirs[g] = "fresh" /\ g \notin T BY <1>6, Kin
  <2>2. KnownF[m] = server[m] \/ Hid(m, hid \cup pass.made) \/ Hid(m, parked) BY <2>1 DEF TreeInv, RowsTrue
  <2>3. m # n BY <2>1
  <2>4. KnownF'[m] = KnownF[m] /\ server'[m] = server[m] BY <1>3, <1>5, <2>3
  <2> QED BY <1>7, <2>2, <2>4
<1>11. \A m \in Nodes : Hid(m, parked) => KnownF'[m] = KnownF[m] \/ KnownF'[m] = 0 BY <1>1, <1>5, ReadyHas
<1>12. \A g \in Folders : dirs'[g] = "fresh" =>
           \/ dirs[g] = "fresh" /\ g \notin T
           \/ pass.remote[g] = 1 /\ g \in pass.now \ T
           \/ pass.remote[g] = 0 /\ (Hid(g, hid') \/ \A m \in Nodes : g \in Above[m] => server'[m] = 0)
  BY <1>6
<1>13. ~pass.cut => DoneTrue(KnownF', pass.remote, pass.same, hid', dirs', pass.now \ T, pass'.plan, pass.problems)
  <2> SUFFICES ASSUME ~pass.cut
               PROVE  DoneTrue(KnownF', pass.remote, pass.same, hid', dirs', pass.now \ T, pass'.plan, pass.problems)
    OBVIOUS
  <2>1. \A g \in Folders : dirs'[g] = "fresh" => dirs[g] = "fresh" \/ pass.plan[g] \in {"mkLocal", "mkRemote"} BY <1>6
  <2>2. Touched(n, dirs', pass.now \ T, pass'.plan)
    <3>1. \A k \in Above[n] : k \in T /\ k \in Folders /\ k \in Nodes BY <1>1, Kin DEF Nodes
    <3>2. \A k \in Above[n] : pass'.plan[k] \notin {"mkLocal", "mkRemote"} BY <1>1, <1>7, <3>1, ReadyHas DEF ActDid
    <3> QED BY <1>6, <3>1, <3>2 DEF Touched
  <2>3. \A m \in Nodes : KnownF'[m] = KnownF[m] \/ Touched(m, dirs', pass.now \ T, pass'.plan) BY <1>5, <2>2
  <2>4. hid \subseteq hid' OBVIOUS
  <2> QED BY <1>1, <1>7, <2>1, <2>2, <2>3, <2>4, DoneAct
<1>14. UNCHANGED parked /\ hid \subseteq hid' OBVIOUS
<1>15. Changes(server, server', T) BY <1>8
<1> QED BY <1>1, <1>7, <1>9, <1>10, <1>11, <1>12, <1>13, <1>14, <1>15, ActStep

\* A file's row changes and nothing of the server does.
LEMMA SettledInv ==
  ASSUME TypeInv, TreeInv, NEW n \in Files, Ready(n), pass.plan[n] \in {"download", "upload", "conflict"}, NEW v,
         row' = [row EXCEPT ![n] = v], UNCHANGED << server, dirs, saved, parked, hid >>,
         ActDid(n, {}, pass'), pass'.made = pass.made,
         (\E f \in Above[n] : dirs[f] = "fresh") => v = server[n] \/ Hid(n, hid),
         \/ v = pass.remote[n] \/ Hid(n, hid)
         \/ \A f \in Above[n] : f \notin pass.now /\ dirs[f] # "fresh"
  PROVE  TreeInv'
<1>1. n \in Nodes /\ n \notin Folders /\ \A m \in Nodes : n \notin Above[m] BY FileKin
<1>2. \A m \in Nodes : KnownF'[m] = IF m = n THEN v ELSE KnownF[m] BY KnownFile
<1>3. ServerOK(server', dirs', pass'.now, saved')
  <2>1. pass'.now = pass.now BY DEF ActDid
  <2> QED BY <2>1 DEF TreeInv
<1>4. RowsTrue(server', KnownF', dirs', parked', hid' \cup pass'.made)
  <2> SUFFICES ASSUME NEW m \in Nodes, NEW g \in Above[m], dirs[g] = "fresh"
               PROVE  KnownF'[m] = server[m] \/ Hid(m, hid \cup pass.made) \/ Hid(m, parked)
    BY DEF RowsTrue
  <2>1. KnownF[m] = server[m] \/ Hid(m, hid \cup pass.made) \/ Hid(m, parked) BY DEF TreeInv, RowsTrue
  <2>2. m = n => v = server[n] \/ Hid(n, hid \cup pass.made) BY HidEither
  <2> QED BY <1>2, <2>1, <2>2
<1>5. \A m \in Nodes : Hid(m, parked) => KnownF'[m] = KnownF[m] \/ KnownF'[m] = 0 BY <1>1, <1>2, ReadyHas
<1>6. \A g \in Folders : dirs'[g] = "fresh" =>
           \/ dirs[g] = "fresh" /\ g \notin {}
           \/ pass.remote[g] = 1 /\ g \in pass.now \ {}
           \/ pass.remote[g] = 0 /\ (Hid(g, hid') \/ \A m \in Nodes : g \in Above[m] => server'[m] = 0)
  OBVIOUS
<1>7. ~pass.cut => DoneTrue(KnownF', pass.remote, pass.same, hid', dirs', pass.now \ {}, pass'.plan, pass.problems)
  <2> SUFFICES ASSUME ~pass.cut
               PROVE  DoneTrue(KnownF', pass.remote, pass.same, hid', dirs', pass.now \ {}, pass'.plan, pass.problems)
    OBVIOUS
  <2>1. \A g \in Folders : dirs'[g] = "fresh" => dirs[g] = "fresh" \/ pass.plan[g] \in {"mkLocal", "mkRemote"} OBVIOUS
  <2>2. KnownF'[n] = pass.remote[n] \/ Hid(n, hid') \/ Touched(n, dirs', pass.now \ {}, pass'.plan)
    <3>1. \A k \in Above[n] : k \in Folders /\ k \in Nodes BY <1>1, Kin DEF Nodes
    <3>2. \A k \in Above[n] : pass'.plan[k] \notin {"mkLocal", "mkRemote"} BY <1>1, <3>1, ReadyHas DEF ActDid
    <3>3. (\A f \in Above[n] : f \notin pass.now /\ dirs[f] # "fresh") => Touched(n, dirs', pass.now \ {}, pass'.plan)
      BY <3>1, <3>2 DEF Touched
    <3> QED BY <1>1, <1>2, <3>3
  <2>3. \A m \in Nodes : \/ KnownF'[m] = KnownF[m] \/ KnownF'[m] = pass.remote[m]
                         \/ Hid(m, hid') \/ Touched(m, dirs', pass.now \ {}, pass'.plan) BY <1>2, <2>2
  <2>4. hid \subseteq hid' OBVIOUS
  <2> QED BY <1>1, <2>1, <2>2, <2>3, <2>4, DoneAct
<1>8. Changes(server, server', {}) BY NoChange
<1>9. UNCHANGED parked /\ hid \subseteq hid' OBVIOUS
<1>10. n \in Nodes /\ Ready(n) /\ ActDid(n, {}, pass') BY <1>1
<1> QED BY <1>10, <1>3, <1>4, <1>5, <1>6, <1>7, <1>8, <1>9, ActStep

\* A file comes down.
LEMMA DownloadsInv ==
  ASSUME TypeInv, TreeInv, NEW n \in Files, NEW o, Ready(n), pass.plan[n] \in {"download", "conflict"}, HasR(n),
         Downloads(n, o), UNCHANGED << parked, hid >>
  PROVE  TreeInv'
<1>1. n \in Nodes BY DEF Nodes
<1>2. row' = [row EXCEPT ![n] = server[n]] /\ UNCHANGED << server, dirs, saved >> BY DEF Downloads
<1>3. ActDid(n, {}, pass') /\ pass'.made = pass.made
  <2>1. ActDid(n, {}, Hurt(n, {n})) /\ Hurt(n, {n}).made = pass.made /\ ActDid(n, {}, Did(n)) /\ Did(n).made = pass.made
    BY <1>1, ActDoes
  <2> QED BY <2>1 DEF Downloads
<1>4. pass.queue = {} /\ ~Hid(n, parked) BY <1>1, ReadyHas
<1>5. CASE \E f \in Above[n] : f \in pass.now
  <2>1. server[n] = pass.remote[n] \/ Hid(n, hid) BY <1>1, <1>4, <1>5, ToldNow
  <2> QED BY <1>2, <1>3, <2>1, SettledInv
<1>6. CASE \A f \in Above[n] : f \notin pass.now
  <2>1. \A f \in Above[n] : pass.remote[f] = 1 /\ f \in Folders BY <1>1, Kin DEF TreeInv, ScanOK, Closed, HasR
  <2>2. \A f \in Above[n] : dirs[f] # "fresh" BY <1>6, <2>1 DEF TreeInv, ScanOK, FreshNow
  <2> QED BY <1>2, <1>3, <1>6, <2>2, SettledInv
<1> QED BY <1>5, <1>6

\* The transfers keep the invariant.
LEMMA TransfersInv ==
  ASSUME TypeInv, TreeInv, NEW n \in Nodes, Upload(n) \/ Download(n) \/ Settle(n) \/ Absorb(n)
  PROVE  TreeInv'
<1>1. Ready(n) /\ (Upload(n) => pass.plan[n] = "upload") /\ (Download(n) => pass.plan[n] = "download")
      /\ (Settle(n) \/ Absorb(n) => pass.plan[n] = "conflict")
  BY DEF Upload, Download, Settle, Absorb, Makes
<1>2. n \in Files BY <1>1 DEF TreeInv, PlanFits
<1>3. UNCHANGED << parked, hid >> BY DEF Upload, Download, Settle, Absorb, Keeps, world
<1>4. CASE Upload(n)
  <2>1. ParentThere(n) BY <1>1, <1>4 DEF Upload, Makes, Impossible
  <2>2. \E o : Uploads(n, o) BY <1>4 DEF Upload
  <2> QED BY <1>1, <1>2, <1>3, <1>4, <2>1, <2>2, UploadsInv
<1>5. CASE Download(n)
  <2>1. HasR(n) BY <1>1, <1>5 DEF TreeInv, PlanFits, HasR
  <2>2. \E o : Downloads(n, o) BY <1>5 DEF Download
  <2> QED BY <1>1, <1>2, <1>3, <1>5, <2>1, <2>2, DownloadsInv
<1>6. CASE Settle(n)
  <2>1. CASE Later(n)
    <3>1. ParentThere(n) BY <1>1, <1>6, <2>1 DEF Settle, Makes, Impossible
    <3>2. \E o : Uploads(n, o) BY <1>6, <2>1 DEF Settle
    <3> QED BY <1>1, <1>2, <1>3, <1>6, <3>1, <3>2, UploadsInv
  <2>2. CASE ~Later(n)
    <3>1. HasR(n) BY <2>2 DEF Later
    <3>2. \E o : Downloads(n, o) BY <1>6, <2>2 DEF Settle
    <3> QED BY <1>1, <1>2, <1>3, <1>6, <3>1, <3>2, DownloadsInv
  <2> QED BY <2>1, <2>2
<1>7. CASE Absorb(n)
  <2>1. disk[n] = pass.remote[n] BY <1>7 DEF Absorb, Identical, HasR
  <2>2. row' = [row EXCEPT ![n] = disk[n]] /\ UNCHANGED << server, dirs, saved >> /\ pass' = Did(n)
    BY <1>7 DEF Absorb, files
  <2>3. ActDid(n, {}, pass') /\ pass'.made = pass.made BY <1>1, <2>2, ActDoes
  <2>4. pass.queue = {} /\ ~Hid(n, parked) /\ pass.at # "idle" BY <1>1, ReadyHas
  <2>5. (\E f \in Above[n] : dirs[f] = "fresh") => disk[n] = server[n] \/ Hid(n, hid)
    BY <2>1, <2>4, FreshRight
  <2> QED BY <1>1, <1>2, <1>3, <1>7, <2>1, <2>2, <2>3, <2>5, SettledInv
<1> QED BY <1>4, <1>5, <1>6, <1>7

\* A tree is removed here.
LEMMA DeleteLocalInv == ASSUME TypeInv, TreeInv, NEW n \in Nodes, DeleteLocal(n) PROVE TreeInv'
<1>1. Ready(n) /\ pass.plan[n] = "deleteLocal" BY DEF DeleteLocal, Makes
<1>2. UNCHANGED << server, saved, hid, parked >> /\ pass' = Hurt(n, Whole(n)) /\ Drop(Whole(n))
  BY DEF DeleteLocal, Keeps, world
<1>3. \A m \in Nodes : KnownF'[m] = IF m \in Whole(n) THEN 0 ELSE KnownF[m] BY <1>2, DropKnown
<1>4. \A g \in Folders : dirs'[g] = "fresh" => dirs[g] = "fresh" BY <1>2, DropKnown
<1>5. ActDid(n, {}, pass') /\ pass'.made = pass.made BY <1>1, <1>2, ActDoes
<1>6. pass.queue = {} /\ pass.at # "idle" BY <1>1, ReadyHas
<1>7. \A m \in Nodes : m \in Whole(n) => pass.remote[m] = 0
  BY <1>1, InWhole DEF TreeInv, PlanFits, ScanOK, Closed
<1>8. ServerOK(server', dirs', pass'.now, saved') BY <1>2, <1>4, <1>5, DropServer DEF ActDid
<1>9. RowsTrue(server', KnownF', dirs', parked', hid' \cup pass'.made)
  <2> SUFFICES ASSUME NEW m \in Nodes, NEW g \in Above[m], dirs[g] = "fresh"
               PROVE  KnownF'[m] = server[m] \/ Hid(m, hid \cup pass.made) \/ Hid(m, parked)
    BY <1>2, <1>4, <1>5, Kin DEF RowsTrue
  <2>1. CASE m \notin Whole(n) BY <1>3, <2>1 DEF TreeInv, RowsTrue
  <2>2. CASE m \in Whole(n)
    <3>1. server[m] = 0 \/ Hid(m, hid) \/ Hid(m, parked) BY <1>6, <1>7, <2>2, FreshRight
    <3> QED BY <1>3, <2>2, <3>1, HidEither
  <2> QED BY <2>1, <2>2
<1>10. \A m \in Nodes : Hid(m, parked) => KnownF'[m] = KnownF[m] \/ KnownF'[m] = 0 BY <1>3
<1>11. \A g \in Folders : dirs'[g] = "fresh" =>
           \/ dirs[g] = "fresh" /\ g \notin {}
           \/ pass.remote[g] = 1 /\ g \in pass.now \ {}
           \/ pass.remote[g] = 0 /\ (Hid(g, hid') \/ \A m \in Nodes : g \in Above[m] => server'[m] = 0)
  BY <1>4
<1>12. ~pass.cut => DoneTrue(KnownF', pass.remote, pass.same, hid', dirs', pass.now \ {}, pass'.plan, pass.problems)
  <2> SUFFICES ASSUME ~pass.cut
               PROVE  DoneTrue(KnownF', pass.remote, pass.same, hid', dirs', pass.now \ {}, pass'.plan, pass.problems)
    OBVIOUS
  <2>1. \A g \in Folders : dirs'[g] = "fresh" => dirs[g] = "fresh" \/ pass.plan[g] \in {"mkLocal", "mkRemote"} BY <1>4
  <2>2. \A m \in Nodes : KnownF'[m] = KnownF[m] \/ KnownF'[m] = pass.remote[m] BY <1>3, <1>7
  <2>3. KnownF'[n] = pass.remote[n] BY <1>3, <1>7, InWhole
  <2>4. hid \subseteq hid' BY <1>2
  <2> QED BY <1>1, <1>5, <2>1, <2>2, <2>3, <2>4, DoneAct
<1>13. Changes(server, server', {}) BY <1>2, NoChange
<1>14. UNCHANGED parked /\ hid \subseteq hid' BY <1>2
<1>15. Ready(n) /\ ActDid(n, {}, pass') BY <1>1, <1>5
<1> QED BY <1>15, <1>8, <1>9, <1>10, <1>11, <1>12, <1>13, <1>14, ActStep

\* A tree is removed on the server.
LEMMA DeleteRemoteInv == ASSUME TypeInv, TreeInv, NEW n \in Nodes, DeleteRemote(n) PROVE TreeInv'
<1> DEFINE T == Above[n] \cup (Whole(n) \cap Folders)
<1>1. Ready(n) /\ pass.plan[n] = "deleteRemote" BY DEF DeleteRemote, Makes
<1>2. /\ UNCHANGED << hid, parked >> /\ saved' = Kept(Passed(T)) /\ pass' = [Did(n) EXCEPT !.now = @ \ T]
      /\ \A m \in Nodes : server'[m] = IF m \in Whole(n) THEN 0 ELSE server[m]
      /\ \A f \in Files : row'[f] = IF f \in Whole(n) THEN 0 ELSE row[f]
      /\ \A f \in Folders : dirs'[f] = IF f \in Whole(n) THEN "none" ELSE Stale(T)[f]
  BY DEF DeleteRemote
<1>3. \A f \in Folders : Stale(T)[f] = "none" <=> dirs[f] = "none" BY StaleType DEF TypeInv
<1>4. \A m \in Nodes : KnownF'[m] = IF m \in Whole(n) THEN 0 ELSE KnownF[m]
  BY <1>2, <1>3, TreeAssumption DEF KnownF, Known, Nodes
<1>5. \A g \in Folders : dirs'[g] = "fresh" => dirs[g] = "fresh" /\ g \notin T BY <1>2 DEF Stale
<1>6. ActDid(n, T, pass') /\ pass'.made = pass.made BY <1>1, <1>2, ActDoes
<1>7. Up(server') /\ Changes(server, server', T) BY <1>2, Felled DEF TreeInv, ServerOK
<1>8. \A m \in Nodes : m \in Whole(n) => Above[m] \subseteq T BY InWhole
<1> HIDE DEF T
<1>9. ServerOK(server', dirs', pass'.now, saved')
  <2>1. SavedOK /\ pass.now \subseteq Folders BY DEF TypeInv, PassOK, Passes
  <2>2. \A g \in Folders : dirs'[g] = "fresh" => (dirs[g] = "fresh" /\ g \notin T) \/ server'[g] = 1 BY <1>5
  <2>3. ServerOK(server, dirs, pass.now, saved) BY DEF TreeInv
  <2>4. ServerOK(server', dirs', pass.now \ T, Kept(Passed(T))) BY <1>7, <2>1, <2>2, <2>3, BumpServer
  <2> QED BY <1>2, <1>6, <2>4 DEF ActDid
<1>10. RowsTrue(server', KnownF', dirs', parked', hid' \cup pass'.made)
  <2> SUFFICES ASSUME NEW m \in Nodes, NEW g \in Above[m], dirs'[g] = "fresh"
               PROVE  KnownF'[m] = server'[m] \/ Hid(m, hid \cup pass.made) \/ Hid(m, parked)
    BY <1>2, <1>6 DEF RowsTrue
  <2>1. dirs[g] = "fresh" /\ g \notin T BY <1>5, Kin
  <2>2. KnownF[m] = server[m] \/ Hid(m, hid \cup pass.made) \/ Hid(m, parked) BY <2>1 DEF TreeInv, RowsTrue
  <2>3. m \notin Whole(n) BY <1>8, <2>1
  <2> QED BY <1>2, <1>4, <2>2, <2>3
<1>11. \A m \in Nodes : Hid(m, parked) => KnownF'[m] = KnownF[m] \/ KnownF'[m] = 0 BY <1>4
<1>12. \A g \in Folders : dirs'[g] = "fresh" =>
           \/ dirs[g] = "fresh" /\ g \notin T
           \/ pass.remote[g] = 1 /\ g \in pass.now \ T
           \/ pass.remote[g] = 0 /\ (Hid(g, hid') \/ \A m \in Nodes : g \in Above[m] => server'[m] = 0)
  BY <1>5
<1>13. ~pass.cut => DoneTrue(KnownF', pass.remote, pass.same, hid', dirs', pass.now \ T, pass'.plan, pass.problems)
  <2> SUFFICES ASSUME ~pass.cut
               PROVE  DoneTrue(KnownF', pass.remote, pass.same, hid', dirs', pass.now \ T, pass'.plan, pass.problems)
    OBVIOUS
  <2>1. \A g \in Folders : dirs'[g] = "fresh" => dirs[g] = "fresh" \/ pass.plan[g] \in {"mkLocal", "mkRemote"} BY <1>5
  <2>2. \A k \in Folders : pass'.plan[k] \notin {"mkLocal", "mkRemote"} BY <1>1, <1>6, ReadyHas DEF ActDid, Nodes
  <2>3. \A m \in Nodes : m \in Whole(n) => Touched(m, dirs', pass.now \ T, pass'.plan)
    BY <1>5, <1>8, <2>2, Kin DEF Touched
  <2>4. \A m \in Nodes : KnownF'[m] = KnownF[m] \/ Touched(m, dirs', pass.now \ T, pass'.plan) BY <1>4, <2>3
  <2>5. Touched(n, dirs', pass.now \ T, pass'.plan) BY <2>3, InWhole
  <2>6. hid \subseteq hid' BY <1>2
  <2> QED BY <1>1, <1>6, <2>1, <2>4, <2>5, <2>6, DoneAct
<1>14. UNCHANGED parked /\ hid \subseteq hid' BY <1>2
<1>15. Changes(server, server', T) BY <1>7
<1> QED BY <1>1, <1>6, <1>9, <1>10, <1>11, <1>12, <1>13, <1>14, <1>15, ActStep

\* The pass ends.
LEMMA EndsInv == ASSUME TypeInv, TreeInv, Ends PROVE TreeInv'
<1> DEFINE P == pass.problems
           S == IF pass.cut THEN {} ELSE Listed(P)
<1>1. /\ pass.at = "act" /\ (\A n \in Nodes : pass.plan[n] = "none") /\ pass' = Idle
      /\ UNCHANGED << server, row, parked >> /\ saved' = (IF pass.cut THEN saved ELSE Clear(P))
      /\ hid' = (IF pass.cut THEN hid \cup pass.made ELSE hid)
      /\ Stamp(P, S)
  BY DEF Ends, files, world
<1>2. \A f \in Folders : /\ dirs'[f] = "fresh" => (f \in S /\ f \in pass.now) \/ (f \notin Dirty(P) /\ dirs[f] = "fresh")
                         /\ f \notin S => (dirs'[f] = "none" <=> dirs[f] = "none")
                         /\ f \in S => dirs'[f] # "none"
  BY <1>1 DEF Stamp, TypeInv, RowsOK
<1>3. \A f \in Folders : f \in S <=> ~pass.cut /\ pass.remote[f] = 1 /\ f \notin pass.same /\ f \notin Dirty(P) /\ f \notin P
  BY DEF Listed
<1>4. P \subseteq Nodes /\ \A f \in Folders : f \in Dirty(P) <=> \E n \in P : f \in Above[n]
  BY DEF TypeInv, PassOK, Passes, Dirty
<1>5. \A n \in Nodes : KnownF'[n] = IF n \in S THEN 1 ELSE KnownF[n]
  <2>1. S \subseteq Folders BY DEF Listed
  <2> QED BY <1>1, <1>2, <2>1 DEF KnownF, Known
<1> HIDE DEF S, P
<1>6. SavedTrue(server, saved')
  <2>1. SavedTrue(server, saved) BY DEF TreeInv, ServerOK
  <2>2. saved' = saved \/ \A f \in Folders : saved'[f].now = {} BY <1>1 DEF Clear, None
  <2> QED BY <2>1, <2>2 DEF SavedTrue
<1>7. ServerOK(server', dirs', {}, saved') BY <1>1, <1>2, <1>6 DEF TreeInv, ServerOK, FreshUp, NowUp
<1>8. \A n \in Nodes : Hid(n, parked) => KnownF'[n] = 0
  <2> SUFFICES ASSUME NEW n \in Nodes, Hid(n, parked) PROVE KnownF'[n] = 0 OBVIOUS
  <2>1. KnownF[n] = 0 /\ pass.remote[n] = 0 BY DEF TreeInv, ParkedOut
  <2>2. n \notin S
    <3>1. S \subseteq Folders BY DEF S, Listed
    <3> QED BY <1>3, <2>1, <3>1
  <2> QED BY <1>5, <2>1, <2>2
<1>9. RowsTrue(server, KnownF', dirs', parked, hid')
  <2> SUFFICES ASSUME NEW n \in Nodes, NEW f \in Above[n], dirs'[f] = "fresh"
               PROVE  KnownF'[n] = server[n] \/ Hid(n, hid') \/ Hid(n, parked)
    BY DEF RowsTrue
  <2>1. f \in Folders BY Kin
  <2>2. CASE pass.cut
    <3>1. dirs[f] = "fresh" /\ n \notin S /\ hid' = hid \cup pass.made BY <1>1, <1>2, <2>1, <2>2 DEF S
    <3> QED BY <1>5, <3>1 DEF TreeInv, RowsTrue
  <2>3. CASE ~pass.cut
    <3>1. f \notin Dirty(P) /\ (f \in pass.now \/ dirs[f] = "fresh") /\ hid' = hid BY <1>1, <1>2, <1>3, <2>1, <2>3
    <3>2. pass.queue = {} BY <1>1 DEF TreeInv, PassShape
    <3>3. server[n] = pass.remote[n] \/ Hid(n, hid) \/ Hid(n, parked) BY <1>1, <3>1, <3>2, ToldNow, FreshRight
    <3>4. n \notin P BY <1>4, <2>1, <3>1
    <3>5. KnownF[n] = pass.remote[n] \/ (n \in Folders /\ pass.remote[n] = 1 /\ n \notin pass.same) \/ Hid(n, hid)
      <4>1. DoneTrue(KnownF, pass.remote, pass.same, hid, dirs, pass.now, pass.plan, P) BY <1>1, <2>3 DEF TreeInv, PassShape, P
      <4>2. ~Touched(n, dirs, pass.now, pass.plan) BY <3>1 DEF Touched
      <4> QED BY <1>1, <3>4, <4>1, <4>2 DEF DoneTrue
    <3>6. n \in Folders => n \notin Dirty(P) BY <1>4, <2>1, <3>1, Higher
    <3>7. n \in S => pass.remote[n] = 1 BY <1>3 DEF S, Listed
    <3>8. n \in Folders /\ pass.remote[n] = 1 /\ n \notin pass.same => n \in S BY <1>3, <2>3, <3>4, <3>6
    <3> QED BY <1>5, <3>1, <3>3, <3>5, <3>7, <3>8
  <2> QED BY <2>2, <2>3
<1> QED BY <1>1, <1>7, <1>8, <1>9, ToIdle

\* The invariant at the start.
LEMMA InitInv == ASSUME Init PROVE TreeInv
<1>1. server = [n \in Nodes |-> IF n \in Files THEN First[n] ELSE 1] /\ pass = Idle /\ hid = {} /\ parked = {}
      /\ saved = [f \in Folders |-> None] /\ row = [f \in Files |-> disk[f]]
      /\ disk = (IF can.full THEN server ELSE NoListing)
      /\ dirs = [f \in Folders |-> IF can.full THEN "fresh" ELSE "none"]
  BY DEF Init
<1>2. \A f \in Folders : f \in Nodes /\ f \notin Files /\ server[f] = 1 BY <1>1, TreeAssumption DEF Nodes
<1>3. ServerOK(server, dirs, {}, saved)
  <2>1. Up(server) BY <1>2, Kin DEF Up
  <2>2. \A f \in Folders : saved[f].now = {} BY <1>1 DEF None
  <2> QED BY <1>2, <2>1, <2>2 DEF ServerOK, FreshUp, NowUp, SavedTrue
<1>4. \A n \in Nodes : can.full => KnownF[n] = server[n]
  BY <1>1, <1>2, TreeAssumption DEF KnownF, Known, Nodes
<1>5. RowsTrue(server, KnownF, dirs, parked, hid \cup pass.made)
  BY <1>1, <1>4, Kin DEF RowsTrue
<1>6. ParkedOut(KnownF, parked, pass.remote, pass.plan) BY <1>1 DEF ParkedOut, Hid
<1>7. PassShape BY <1>1, IdleFacts DEF PassShape
<1>8. ServerOK(server, dirs, pass.now, saved) BY <1>1, <1>3, IdleFacts
<1> QED BY <1>1, <1>5, <1>6, <1>7, <1>8, IdleFacts DEF TreeInv

(*************************************************************************)
(* The invariant holds.                                                  *)
(*************************************************************************)
IInv == TypeInv /\ TreeInv

\* Nothing changes.
LEMMA IInvSame == ASSUME IInv, UNCHANGED vars PROVE IInv'
<1> USE DEF IInv, vars
<1>2. TreeInv' BY SameInv
<1>3. TypeInv' BY DEF TypeInv, FilesOK, RowsOK, SavedOK, PassOK, CountOK, RestOK
<1> QED BY <1>2, <1>3

\* People stop.
LEMMA IInvCalms == ASSUME IInv, Calms PROVE IInv'
<1> USE DEF IInv
<1>1. UNCHANGED << files, rows, world, saved, guards, pass, can, acts, written, seen >> /\ calm' = TRUE BY DEF Calms
<1>2. TreeInv' BY <1>1, SameInv DEF rows, world, seen, files
<1>3. TypeInv' BY <1>1 DEF TypeInv, FilesOK, RowsOK, SavedOK, PassOK, CountOK, RestOK, files, rows, world, guards, seen
<1> QED BY <1>2, <1>3

\* What people do keeps the invariant.
LEMMA IInvPeople == ASSUME IInv, People PROVE IInv'
<1> USE DEF IInv
<1>1. ASSUME NEW f \in Files, Save(f) \/ TheirSave(f) PROVE IInv' BY <1>1, TypeSave, TypeTheirSave, SavesInv
<1>2. ASSUME NEW n \in Nodes, Remove(n) \/ TheirRemove(n) PROVE IInv' BY <1>2, TypeRemove, TypeTheirRemove, RemovesInv
<1>3. ASSUME NEW d \in Folders, Unshare(d) \/ Resolve(d) PROVE IInv'
  BY <1>3, TypeUnshare, TypeResolve, UnshareInv, ResolveInv
<1>4. CASE Leaves BY <1>4, TypeSmall, SmallInv
<1> QED BY <1>1, <1>2, <1>3, <1>4 DEF People

\* So do the actions of a pass,
LEMMA IInvActs == ASSUME IInv, NEW n \in Nodes,
    Fails(n) \/ Upload(n) \/ Download(n) \/ Absorb(n) \/ Settle(n) \/ DeleteLocal(n) \/ DeleteRemote(n) PROVE IInv'
<1> USE DEF IInv
<1>1. CASE Fails(n) BY <1>1, TypeFails, FailsInv
<1>2. CASE Upload(n) \/ Download(n) \/ Absorb(n) \/ Settle(n)
  <2>1. n \in Files
    <3>1. pass.plan[n] \in {"upload", "download", "conflict"} BY <1>2 DEF Upload, Download, Absorb, Settle, Makes
    <3> QED BY <3>1 DEF TreeInv, PlanFits
  <2> QED BY <1>2, <2>1, TypeTransfers, TransfersInv
<1>3. CASE DeleteLocal(n) BY <1>3, TypeDeleteLocal, DeleteLocalInv
<1>4. CASE DeleteRemote(n) BY <1>4, TypeDeleteRemote, DeleteRemoteInv
<1> QED BY <1>1, <1>2, <1>3, <1>4

\* its other steps,
LEMMA IInvSteps == ASSUME IInv, Steps PROVE IInv'
<1> USE DEF IInv
<1>1. CASE PassBegins BY <1>1, TypeSmall, PassBeginsInv
<1>2. ASSUME NEW f \in Folders \cup {Root}, List(f) PROVE IInv' BY <1>2, TypeList, ListInv
<1>3. CASE ScanFails BY <1>3, TypeSmall, StopsInv
<1>4. CASE Plan BY <1>4, TypePlan, PlanInv
<1>5. CASE Quiet BY <1>5, TypeQuiet, QuietInv
<1>6. ASSUME NEW f \in Folders, MkLocal(f) \/ MkRemote(f) PROVE IInv'
  BY <1>6, TypeMkLocal, TypeMkRemote, MkLocalInv, MkRemoteInv
<1>7. CASE Ends BY <1>7, TypeEnds, EndsInv
<1> QED BY <1>1, <1>2, <1>3, <1>4, <1>5, <1>6, <1>7, IInvActs DEF Steps

\* and every step.
LEMMA IInvNext == ASSUME IInv, [Next \/ Calms]_vars PROVE IInv'
<1>1. CASE People BY <1>1, IInvPeople
<1>2. CASE Steps BY <1>2, IInvSteps
<1>3. CASE Cut BY <1>3, TypeCut, CutInv DEF IInv
<1>4. CASE Crash BY <1>4, TypeSmall, StopsInv DEF IInv
<1>5. CASE Approve \/ Returns BY <1>5, TypeSmall, SmallInv DEF IInv
<1>6. CASE Calms BY <1>6, IInvCalms
<1>7. CASE UNCHANGED vars BY <1>7, IInvSame
<1> QED BY <1>1, <1>2, <1>3, <1>4, <1>5, <1>6, <1>7 DEF Next

\* It holds at the start.
LEMMA IInvInit == Init => IInv
BY InitType, InitInv DEF IInv

\* What the invariant says of rows and of the checkpoint.
LEMMA TakenOver == ASSUME IInv PROVE TakenOverIsTrue
<1> USE DEF IInv
<1> SUFFICES ASSUME NEW f \in Folders
             PROVE  /\ dirs[f] = "fresh" /\ f \notin hid \cup pass.made =>
                         \A n \in Whole(f) \ ({f} \cup Parked) :
                           Known(n) = server[n] \/ (\E g \in {n} \cup Above[n] : g \in hid \cup pass.made)
                    /\ f \in saved[f].now => saved[f].kids = Children(f)
  BY DEF TakenOverIsTrue
<1>1. ASSUME dirs[f] = "fresh", NEW n \in Whole(f) \ ({f} \cup Parked)
      PROVE  Known(n) = server[n] \/ (\E g \in {n} \cup Above[n] : g \in hid \cup pass.made)
  <2>1. n \in Nodes /\ f \in Above[n] BY DEF Whole, Nodes
  <2>2. ~Hid(n, parked) BY <2>1, Unhidden
  <2>3. KnownF[n] = server[n] \/ Hid(n, hid \cup pass.made) BY <1>1, <2>1, <2>2 DEF TreeInv, RowsTrue
  <2> QED BY <2>1, <2>3 DEF KnownF, Hid
<1>2. ASSUME f \in saved[f].now PROVE saved[f].kids = Children(f)
  <2>1. \A n \in Nodes : saved[f].kids[n] = IF Parent[n] = f THEN server[n] ELSE 0
    BY <1>2 DEF TreeInv, ServerOK, SavedTrue
  <2>2. saved[f].kids \in Sides BY DEF TypeInv, SavedOK, Listings
  <2>3. saved[f].kids = [n \in Nodes |-> saved[f].kids[n]] BY <2>2, OfSides
  <2> QED BY <2>1, <2>3 DEF Children
<1> QED BY <1>1, <1>2

\* Every reachable state has the types TypeOK gives, its numbers within their bounds.
THEOREM TypeCorrect == LiveSpec => []TypeOK
<1>1. Init => IInv BY IInvInit
<1>2. IInv /\ [Next \/ Calms]_vars => IInv' BY IInvNext
<1>3. IInv => TypeOK BY TypeInvOK DEF IInv
<1> QED BY <1>1, <1>2, <1>3, PTL DEF LiveSpec

\* What a scan takes over from a row (addBaselineSubtree) or from the checkpoint of an
\* earlier scan is what the server has under that ETag, whatever failed, was cancelled or
\* crashed before; but for the rows listed in hid, which were stamped before what is beneath
\* them was looked at.
THEOREM TakenOverIsTrueAlways == LiveSpec => []TakenOverIsTrue
<1>1. Init => IInv BY IInvInit
<1>2. IInv /\ [Next \/ Calms]_vars => IInv' BY IInvNext
<1>3. IInv => TakenOverIsTrue BY TakenOver
<1> QED BY <1>1, <1>2, <1>3, PTL DEF LiveSpec

\* A bound on what the pass may still remove or replace here, which the guard let pass.
Weighed(W, q) ==
  /\ ~TooMany(Cardinality(W), Cardinality(q.known)) /\ q.hurt \subseteq W
  /\ \A n \in Nodes : /\ q.plan[n] = "deleteLocal" => Whole(n) \cap q.known \subseteq W
                      /\ q.plan[n] = "download" /\ n \in q.known => n \in W
Guarded(q) ==
  /\ q.at # "act" => q.known = {}
  /\ q.at = "act" => q.granted \/ \E W \in SUBSET q.known : Weighed(W, q)
GuardInv == (guard = "exempt" => granted) /\ Guarded(pass)

(*************************************************************************)
(* The guard of much.  What the pass has removed or replaced, and what   *)
(* it still may, was weighed by the plan: the rows hurt so far and those *)
(* of what is pending are within the weight that passed the guard.       *)
(*************************************************************************)
\* Sizes of sets of nodes.
LEMMA Size ==
  ASSUME NEW A \in SUBSET Nodes, NEW B \in SUBSET A
  PROVE  Cardinality(A) \in Nat /\ Cardinality(B) \in Nat /\ Cardinality(B) <= Cardinality(A)
BY FS_Subset, FS_CardinalityType, TreeAssumption

\* What is not too much stays so with less.
LEMMA FewerToo ==
  ASSUME NEW A \in SUBSET Nodes, NEW B \in SUBSET A, NEW k \in Nat, NEW c \in Nat, Cardinality(A) <= c, ~TooMany(c, k)
  PROVE  ~TooMany(Cardinality(B), k)
<1>1. Cardinality(B) \in Nat /\ Cardinality(B) <= c BY Size
<1>2. Floor \in Nat /\ Pct \in Nat BY TreeAssumption
<1>3. k * Pct \in Nat BY <1>2
<1> QED BY <1>1, <1>2, <1>3 DEF TooMany

\* Neither what was hurt nor what was known changes.
LEMMA GuardKept ==
  ASSUME Guarded(pass), NEW q,
         q.at = pass.at, q.known = pass.known, q.granted = pass.granted,
         \A n \in Nodes : q.plan[n] = pass.plan[n] \/ q.plan[n] = "none",
         \/ q.hurt = pass.hurt
         \/ \E n \in Nodes : /\ pass.plan[n] = "deleteLocal" /\ q.hurt \subseteq pass.hurt \cup (Whole(n) \cap pass.known)
         \/ \E n \in Nodes : /\ pass.plan[n] = "download" /\ q.hurt \subseteq pass.hurt \cup ({n} \cap pass.known)
  PROVE  Guarded(q)
<1>1. ASSUME NEW W \in SUBSET pass.known, Weighed(W, pass) PROVE Weighed(W, q)
  <2>1. q.hurt \subseteq W BY <1>1 DEF Weighed
  <2> QED BY <1>1, <2>1 DEF Weighed
<1> QED BY <1>1 DEF Guarded

\* No pass goes on.
LEMMA GuardIdle == Guarded(Idle) /\ Guarded([Idle EXCEPT !.at = "scan", !.queue = {Root}])
BY DEF Guarded, Idle

\* ETags change.
LEMMA GuardBump == ASSUME TypeInv, GuardInv, NEW T, Bump(T), UNCHANGED guards PROVE GuardInv'
<1>1. /\ pass'.at = pass.at /\ pass'.known = pass.known /\ pass'.granted = pass.granted /\ pass'.plan = pass.plan
      /\ pass'.hurt = pass.hurt
  BY DEF Bump, TypeInv, PassOK, Passes
<1>2. Guarded(pass') BY <1>1, GuardKept DEF GuardInv
<1> QED BY <1>2 DEF GuardInv, guards

\* What people do hurts no row of the pass.
LEMMA GuardPeople ==
  ASSUME TypeInv, GuardInv, People \/ Approve \/ Returns \/ Calms \/ UNCHANGED vars PROVE GuardInv'
<1>1. ASSUME NEW f \in Files, Save(f) PROVE GuardInv' BY <1>1 DEF Save, GuardInv, guards
<1>2. ASSUME NEW f \in Files, TheirSave(f) PROVE GuardInv' BY <1>2, GuardBump DEF TheirSave
<1>3. ASSUME NEW n \in Nodes, Remove(n) PROVE GuardInv' BY <1>3 DEF Remove, GuardInv, guards
<1>4. ASSUME NEW n \in Nodes, TheirRemove(n) PROVE GuardInv' BY <1>4, GuardBump DEF TheirRemove
<1>5. ASSUME NEW d \in Folders, Unshare(d) PROVE GuardInv' BY <1>5, GuardBump DEF Unshare
<1>6. ASSUME NEW d \in Folders, Resolve(d) PROVE GuardInv' BY <1>6 DEF Resolve, GuardInv, guards
<1>7. CASE Leaves \/ Returns \/ Calms BY <1>7 DEF Leaves, Returns, Calms, GuardInv, guards
<1>8. CASE Approve BY <1>8 DEF Approve, GuardInv
<1>9. CASE UNCHANGED vars BY <1>9 DEF vars, GuardInv
<1> QED BY <1>1, <1>2, <1>3, <1>4, <1>5, <1>6, <1>7, <1>8, <1>9 DEF People

\* What an action that removes nothing here does to it.
Goes(q) ==
  /\ q.at = pass.at /\ q.known = pass.known /\ q.granted = pass.granted /\ q.hurt = pass.hurt
  /\ \A m \in Nodes : q.plan[m] = pass.plan[m] \/ q.plan[m] = "none"

\* An action that hurts nothing.
LEMMA GuardPlain ==
  ASSUME TypeInv, NEW n \in Nodes
  PROVE  /\ Goes(Did(n)) /\ Goes([Did(n) EXCEPT !.problems = @ \cup {n}])
         /\ \A T : Goes([Did(n) EXCEPT !.now = @ \ T])
         /\ \A M : Goes([Did(n) EXCEPT !.made = @ \cup M])
         /\ \A T, M : Goes([Did(n) EXCEPT !.now = @ \ T, !.made = @ \cup M])
<1>1. /\ Did(n) \in Passes /\ Did(n).at = pass.at /\ Did(n).known = pass.known /\ Did(n).granted = pass.granted
      /\ Did(n).hurt = pass.hurt /\ \A m \in Nodes : Did(n).plan[m] = pass.plan[m] \/ Did(n).plan[m] = "none"
  BY DidHas
<1> QED BY <1>1 DEF Passes, Goes

\* An action that hurts what was weighed for it.
LEMMA GuardHurt ==
  ASSUME TypeInv, NEW n \in Nodes, NEW N
  PROVE  LET q == Hurt(n, N) IN
         /\ q.at = pass.at /\ q.known = pass.known /\ q.granted = pass.granted
         /\ q.hurt \subseteq pass.hurt \cup (N \cap pass.known)
         /\ \A m \in Nodes : q.plan[m] = pass.plan[m] \/ q.plan[m] = "none"
<1>1. /\ Did(n) \in Passes /\ Did(n).at = pass.at /\ Did(n).known = pass.known /\ Did(n).granted = pass.granted
      /\ Did(n).hurt = pass.hurt /\ \A m \in Nodes : Did(n).plan[m] = pass.plan[m] \/ Did(n).plan[m] = "none"
  BY DidHas
<1> DEFINE D == Did(n)
           H == {m \in N \cap pass.known : HasB(m)}
           q == [D EXCEPT !.hurt = D.hurt \cup H]
<1>2. H \subseteq N \cap pass.known OBVIOUS
<1>3. Hurt(n, N) = q BY DEF Hurt
<1> HIDE DEF D, H
<1>4. /\ q.at = D.at /\ q.known = D.known /\ q.granted = D.granted /\ q.plan = D.plan /\ q.hurt = D.hurt \cup H
  BY <1>1 DEF D, Passes
<1> HIDE DEF q
<1> QED BY <1>1, <1>2, <1>3, <1>4 DEF D

\* The actions of a pass.
LEMMA GuardActs ==
  ASSUME TypeInv, GuardInv, NEW n \in Nodes,
    Fails(n) \/ Upload(n) \/ Download(n) \/ Absorb(n) \/ Settle(n) \/ DeleteLocal(n) \/ DeleteRemote(n)
  PROVE  GuardInv'
<1>1. UNCHANGED guards BY DEF Fails, Upload, Download, Absorb, Settle, DeleteLocal, DeleteRemote, Keeps
<1>2. ASSUME NEW T, pass' \in {Did(n), [Did(n) EXCEPT !.now = @ \ T], [Did(n) EXCEPT !.problems = @ \cup {n}]} PROVE GuardInv'
  <2>1. Goes(pass')
    BY <1>2, GuardPlain
  <2>2. Guarded(pass') BY <2>1, GuardKept DEF GuardInv, Goes
  <2> QED BY <1>1, <2>2 DEF GuardInv, guards
<1>3. ASSUME pass' = Hurt(n, Whole(n)), pass.plan[n] = "deleteLocal" PROVE GuardInv'
  <2>1. Guarded(pass') BY <1>3, GuardHurt, GuardKept DEF GuardInv
  <2> QED BY <1>1, <2>1 DEF GuardInv, guards
<1>4. ASSUME pass' = Hurt(n, {n}), pass.plan[n] = "download" PROVE GuardInv'
  <2>1. Guarded(pass') BY <1>4, GuardHurt, GuardKept DEF GuardInv
  <2> QED BY <1>1, <2>1 DEF GuardInv, guards
<1>5. ASSUME NEW o, Uploads(n, o) PROVE GuardInv' BY <1>2, <1>5 DEF Uploads
<1>6. ASSUME NEW o, Downloads(n, o) PROVE GuardInv' BY <1>2, <1>4, <1>6 DEF Downloads
<1>7. CASE Fails(n) BY <1>2, <1>7 DEF Fails
<1>8. CASE Upload(n) BY <1>5, <1>8 DEF Upload
<1>9. CASE Download(n) BY <1>6, <1>9 DEF Download
<1>10. CASE Absorb(n) BY <1>2, <1>10 DEF Absorb
<1>11. CASE Settle(n) BY <1>5, <1>6, <1>11 DEF Settle
<1>12. CASE DeleteLocal(n) BY <1>3, <1>12 DEF DeleteLocal, Makes
<1>13. CASE DeleteRemote(n) BY <1>2, <1>13 DEF DeleteRemote
<1> QED BY <1>7, <1>8, <1>9, <1>10, <1>11, <1>12, <1>13

\* The bound the guard leaves a pass that it lets pass.
LEMMA PlanWeighed ==
  ASSUME TypeInv, NEW p, NEW R \in SUBSET Nodes, ~Trips(p, R), guard # "exempt", \A n \in R : HasB(n),
         NEW q, q.known = R, q.hurt = {}, q.plan = p
  PROVE  \E W \in SUBSET R : Weighed(W, q)
<1> DEFINE top == {n \in Nodes : p[n] = "deleteLocal" /\ \A m \in Above[n] : p[m] # "deleteLocal"}
           A == top \cup {n \in R : Above[n] \cap top # {}}
           B == {n \in Nodes : p[n] = "download" /\ HasB(n)}
           W == R \cap (A \cup B)
<1>1. ~TooMany(Cardinality(A) + Cardinality(B), Cardinality(R))
  BY DEF Trips, GuardApplies, Weight, Overwrites
<1>2. A \in SUBSET Nodes /\ B \in SUBSET Nodes /\ W \in SUBSET (A \cup B) /\ A \cup B \in SUBSET Nodes OBVIOUS
<1>3. ASSUME NEW n \in Nodes, p[n] = "deleteLocal" PROVE Whole(n) \cap R \subseteq W
  <2> DEFINE D == {m \in Nodes : p[m] = "deleteLocal"}
  <2>1. PICK k \in D : k \in {n} \cup Above[n] /\ Above[k] \cap D = {} BY <1>3, Topmost
  <2>2. k \in top BY <2>1, Kin DEF Nodes
  <2>3. ASSUME NEW m \in Whole(n) \cap R PROVE m \in A
    <3>1. m = n \/ n \in Above[m] BY DEF Whole
    <3>2. m = k \/ k \in Above[m] BY <2>1, <3>1, Higher
    <3> QED BY <2>2, <3>2
  <2> QED BY <2>3
<1>4. ASSUME NEW n \in R, p[n] = "download" PROVE n \in W BY <1>4
<1> HIDE DEF A, B, W
<1>5. Cardinality(A \cup B) \in Nat /\ Cardinality(A) \in Nat /\ Cardinality(B) \in Nat
      /\ Cardinality(A \cup B) <= Cardinality(A) + Cardinality(B)
  <2>1. IsFiniteSet(A) /\ IsFiniteSet(B) BY <1>2, FS_Subset, TreeAssumption
  <2>2. IsFiniteSet(A \cap B) /\ IsFiniteSet(A \cup B) BY <1>2, FS_Subset, TreeAssumption
  <2>3. Cardinality(A \cap B) \in Nat /\ Cardinality(A) \in Nat /\ Cardinality(B) \in Nat /\ Cardinality(A \cup B) \in Nat
    BY <2>1, <2>2, FS_CardinalityType
  <2>4. Cardinality(A \cup B) = Cardinality(A) + Cardinality(B) - Cardinality(A \cap B) BY <2>1, FS_Union
  <2> QED BY <2>3, <2>4
<1>6. Cardinality(R) \in Nat BY Size
<1>7. Cardinality(A) + Cardinality(B) \in Nat BY <1>5
<1>8. ~TooMany(Cardinality(W), Cardinality(R)) BY <1>1, <1>2, <1>5, <1>6, <1>7, FewerToo
<1>9. W \in SUBSET R BY DEF W
<1> QED BY <1>3, <1>4, <1>8, <1>9 DEF Weighed

\* The plan that passes the guard.
LEMMA GuardPlan == ASSUME TypeInv, TreeInv, GuardInv, Plan PROVE GuardInv'
<1> DEFINE p == Remaining(Diff)
           R == Rows(Dead \cup Spared(Diff))
           q == [pass EXCEPT !.at = "act", !.plan = p, !.known = R, !.granted = granted]
<1>1. R \in SUBSET Nodes /\ \A n \in R : HasB(n) BY DEF Rows
<1>2. q.at = "act" /\ q.plan = p /\ q.known = R /\ q.granted = granted /\ q.hurt = {}
  <2>1. pass.hurt = {} BY DEF Plan, TreeInv, PassShape
  <2> QED BY <2>1 DEF TypeInv, PassOK, Passes
<1>3. \/ guard' = "frozen" /\ pass' = Idle
      \/ ~Trips(p, R) /\ guard' = Spend /\ (pass' = Idle \/ pass' = q)
  BY DEF Plan
<1> HIDE DEF p, R, q
<1>4. guard' # "exempt" BY <1>3 DEF Spend
<1>5. CASE pass' = Idle BY <1>4, <1>5, GuardIdle DEF GuardInv
<1>6. CASE ~Trips(p, R) /\ pass' = q
  <2>1. granted \/ \E W \in SUBSET R : Weighed(W, q) BY <1>1, <1>2, <1>6, PlanWeighed DEF GuardInv
  <2>2. Guarded(q) BY <1>2, <2>1 DEF Guarded
  <2> QED BY <1>4, <1>6, <2>2 DEF GuardInv
<1> QED BY <1>3, <1>5, <1>6

\* Every step of the pass.
LEMMA GuardSteps == ASSUME TypeInv, TreeInv, GuardInv, Steps \/ Cut \/ Crash PROVE GuardInv'
<1>1. CASE PassBegins BY <1>1, GuardIdle DEF PassBegins, GuardInv, guards
<1>2. ASSUME NEW f \in Folders \cup {Root}, List(f) PROVE GuardInv'
  <2>1. pass'.at = pass.at /\ pass'.known = pass.known /\ pass'.granted = pass.granted /\ pass'.plan = pass.plan
        /\ pass'.hurt = pass.hurt
    BY <1>2 DEF List, TypeInv, PassOK, Passes
  <2>2. Guarded(pass') BY <2>1, GuardKept DEF GuardInv
  <2> QED BY <1>2, <2>2 DEF List, GuardInv, guards
<1>3. CASE ScanFails \/ Crash BY <1>3, GuardIdle DEF ScanFails, Crash, GuardInv, guards
<1>4. CASE Plan BY <1>4, GuardPlan
<1>5. CASE Quiet BY <1>5, GuardIdle DEF Quiet, GuardInv
<1>6. ASSUME NEW f \in Folders, MkLocal(f) PROVE GuardInv'
  <2>1. f \in Nodes /\ pass' = [Did(f) EXCEPT !.made = @ \cup {f}] /\ UNCHANGED guards BY <1>6 DEF MkLocal, Nodes
  <2>2. Goes(pass')
    BY <2>1, GuardPlain
  <2>3. Guarded(pass') BY <2>2, GuardKept DEF GuardInv, Goes
  <2> QED BY <2>1, <2>3 DEF GuardInv, guards
<1>7. ASSUME NEW f \in Folders, MkRemote(f) PROVE GuardInv'
  <2>1. f \in Nodes /\ UNCHANGED guards BY <1>7 DEF MkRemote, Nodes
  <2>2. PICK T, M : pass' = [Did(f) EXCEPT !.now = @ \ T, !.made = @ \cup M] BY <1>7 DEF MkRemote
  <2>3. Goes(pass')
    <3>1. \A N, L : Goes([Did(f) EXCEPT !.now = @ \ N, !.made = @ \cup L]) BY <2>1, GuardPlain
    <3>2. \A L : Goes([Did(f) EXCEPT !.now = @ \ T, !.made = @ \cup L]) BY <3>1
    <3> QED BY <2>2, <3>2
  <2>4. Guarded(pass') BY <2>3, GuardKept DEF GuardInv, Goes
  <2> QED BY <2>1, <2>4 DEF GuardInv, guards
<1>8. CASE Ends BY <1>8, GuardIdle DEF Ends, GuardInv, guards
<1>9. CASE Cut
  <2> DEFINE p == [n \in Nodes |-> IF pass.plan[n] \in {"upload", "download"} THEN "none" ELSE pass.plan[n]]
  <2>1. pass' = [pass EXCEPT !.cut = TRUE, !.plan = p] /\ UNCHANGED guards BY <1>9 DEF Cut
  <2>2. \A n \in Nodes : p[n] = pass.plan[n] \/ p[n] = "none" OBVIOUS
  <2> HIDE DEF p
  <2>3. pass'.at = pass.at /\ pass'.known = pass.known /\ pass'.granted = pass.granted /\ pass'.plan = p
        /\ pass'.hurt = pass.hurt
    BY <2>1 DEF TypeInv, PassOK, Passes
  <2>4. Guarded(pass') BY <2>2, <2>3, GuardKept DEF GuardInv
  <2> QED BY <2>1, <2>4 DEF GuardInv, guards
<1> QED BY <1>1, <1>2, <1>3, <1>4, <1>5, <1>6, <1>7, <1>8, <1>9, GuardActs DEF Steps

\* What was weighed was approved when it is much.
LEMMA GuardMuch == ASSUME TypeInv, TreeInv, GuardInv PROVE MuchIsApproved
<1> SUFFICES ASSUME TooMany(Cardinality(pass.hurt), Cardinality(pass.known)), ~pass.granted PROVE FALSE
  BY DEF MuchIsApproved
<1>1. pass.known \in SUBSET Nodes /\ pass.hurt \in SUBSET Nodes BY DEF TypeInv, PassOK, Passes
<1>2. CASE pass.at # "act"
  <2>1. Cardinality(pass.known) = 0 BY <1>2, FS_EmptySet DEF GuardInv, Guarded
  <2> QED BY <2>1 DEF TooMany
<1>3. CASE pass.at = "act"
  <2>1. PICK W \in SUBSET pass.known : Weighed(W, pass) BY <1>3 DEF GuardInv, Guarded
  <2>2. W \in SUBSET Nodes /\ pass.hurt \in SUBSET W BY <1>1, <2>1 DEF Weighed
  <2>3. Cardinality(W) \in Nat /\ Cardinality(pass.known) \in Nat BY <1>1, <2>2, Size
  <2>4. ~TooMany(Cardinality(W), Cardinality(pass.known)) BY <2>1 DEF Weighed
  <2>5. ~TooMany(Cardinality(pass.hurt), Cardinality(pass.known)) BY <2>2, <2>3, <2>4, FewerToo
  <2> QED BY <2>5
<1> QED BY <1>2, <1>3

\* What a pass removed here or replaced is less than the guard lets through (evaluateDamage,
\* deletionWeight), or the user had approved this one pass.
THEOREM MuchIsApprovedAlways == LiveSpec => []MuchIsApproved
<1> DEFINE I == IInv /\ GuardInv
<1>1. Init => I
  <2>1. Init => GuardInv BY GuardIdle DEF Init, GuardInv
  <2> QED BY <2>1, IInvInit
<1>2. I /\ [Next \/ Calms]_vars => I'
  <2> SUFFICES ASSUME IInv, GuardInv, [Next \/ Calms]_vars PROVE IInv' /\ GuardInv' OBVIOUS
  <2>1. IInv' BY IInvNext
  <2>2. TypeInv /\ TreeInv BY DEF IInv
  <2>3. GuardInv' BY <2>2, GuardPeople, GuardSteps DEF Next
  <2> QED BY <2>1, <2>3
<1>3. I => MuchIsApproved BY GuardMuch DEF IInv
<1> QED BY <1>1, <1>2, <1>3, PTL DEF LiveSpec

(*************************************************************************)
(* No content is lost.  Every content is on a side, in the bin, or on    *)
(* record (Parted); a row whose content one side has replaced is on      *)
(* record; what the plan says of a file was true when the pass looked,   *)
(* and what has come since is late.                                      *)
(*************************************************************************)
\* Contents someone who saw them removed or replaced, or the bin keeps.
Parted == dead \cup bin
Held(c) == (\E n \in Files : disk[n] = c \/ server[n] = c) \/ c \in Parted
Sized == \A n \in Files : row[n] <= written /\ disk[n] <= written /\ server[n] <= written
RowParted == \A n \in Files : row[n] # 0 =>
  /\ disk[n] # row[n] => row[n] \in Parted
  /\ server[n] \notin {0, row[n]} => row[n] \in Parted
AskedTrue == \A f \in Folders : disk[f] = 0 /\ dirs[f] # "none" => f \in asked
DataLoss == (\A c \in 1 .. written : Held(c)) /\ Sized /\ RowParted /\ AskedTrue

RemoteParted == \A n \in Files :
  (pass.at = "scan" \/ pass.plan[n] = "conflict") /\ pass.remote[n] # 0 /\ server[n] \notin {0, pass.remote[n]}
    => pass.remote[n] \in Parted
RemoteTrue == \A n \in Files :
  (pass.at = "scan" \/ pass.plan[n] # "none") /\ server[n] \notin late \cup {0}
    => pass.remote[n] = server[n] \/ Hid(n, hid) \/ Hid(n, parked) \/ Waits(pass.queue, n)
PlanTrue == \A n \in Files :
  /\ pass.plan[n] \in {"upload", "deleteRemote"} => row[n] = pass.remote[n]
  /\ pass.plan[n] = "download" => disk[n] \in {0, row[n]} \cup late
  /\ pass.plan[n] = "deleteRemote" => row[n] # 0 /\ disk[n] # row[n]
AskedPlan == \A f \in Folders :
  /\ disk[f] = 0 /\ pass.plan[f] = "mkRemote" => f \in asked
  /\ disk[f] = 0 /\ pass.at = "act" /\ pass.remote[f] = 1 /\ pass.plan[f] = "none" /\ f \notin pass.problems => f \in asked
  /\ pass.plan[f] = "deleteRemote" => f \in asked
PassLoss == RemoteParted /\ RemoteTrue /\ PlanTrue /\ AskedPlan
LossInv == DataLoss /\ PassLoss

\* What the invariant says of contents.
LEMMA LossHolds ==
  ASSUME TypeInv, LossInv
  PROVE  NothingLost
<1>1. ASSUME NEW c \in 1 .. written, \E n \in Files : disk[n] = c PROVE c \in Contents(disk, Nodes)
  BY <1>1 DEF Contents, Nodes
<1>2. ASSUME NEW c \in 1 .. written, \E n \in Files : server[n] = c PROVE c \in Contents(server, Nodes)
  BY <1>2 DEF Contents, Nodes
<1>3. 1 .. written \subseteq Contents(disk, Nodes) \cup Contents(server, Nodes) \cup bin \cup dead
  BY <1>1, <1>2 DEF LossInv, DataLoss, Held, Parted
<1> QED BY <1>3 DEF NothingLost, LossInv, PassLoss, PlanTrue

\* A file that is there has a content.
LEMMA HasContent ==
  ASSUME NEW t, NEW N, NEW n \in N \cap Files, t[n] # 0
  PROVE  t[n] \in Contents(t, N)
BY DEF Contents

\* What numbers there are.
LEMMA LossNats ==
  ASSUME TypeInv
  PROVE  /\ written \in Nat
         /\ \A n \in Files : row[n] \in Nat /\ disk[n] \in Nat /\ server[n] \in Nat /\ pass.remote[n] \in Nat /\ n \in Nodes /\ n \notin Folders
         /\ \A f \in Folders : f \in Nodes /\ f \notin Files /\ disk[f] \in {0, 1} /\ server[f] \in {0, 1} /\ pass.remote[f] \in {0, 1}
<1>1. \A n \in Nodes : disk[n] \in Nat /\ server[n] \in Nat /\ pass.remote[n] \in Nat
  BY OfSides DEF TypeInv, FilesOK, PassOK, Passes
<1>2. \A f \in Folders : disk[f] \in 0 .. 1 /\ server[f] \in 0 .. 1 /\ pass.remote[f] \in 0 .. 1
  BY OfSides DEF TypeInv, FilesOK, PassOK, Passes
<1>3. \A n \in Files : row[n] \in Nat BY WritesIs DEF TypeInv, RowsOK
<1> QED BY <1>1, <1>2, <1>3, TreeAssumption DEF TypeInv, CountOK, Nodes

\* No pass goes on: nothing is planned and nothing was told.
LEMMA LossIdle == ASSUME pass' = Idle, DataLoss' PROVE LossInv'
<1>1. pass'.at = "idle" /\ \A n \in Nodes : pass'.plan[n] = "none" BY DEF Idle, NoPlan
<1> QED BY <1>1 DEF LossInv, PassLoss, RemoteParted, RemoteTrue, PlanTrue, AskedPlan, Nodes

\* The user writes a file.
LEMMA LossSave == ASSUME TypeInv, TreeInv, LossInv, NEW f \in Files, Save(f) PROVE LossInv'
<1>1. UNCHANGED << server, bin, row, dirs, pass, asked, hid, parked >> BY DEF Save, rows, world
<1>2. /\ written' = written + 1
      /\ \A n \in Nodes : disk'[n] = IF n = f THEN written' ELSE IF n \in Above[f] THEN 1 ELSE disk[n]
      /\ dead' = dead \cup (IF disk[f] = 0 THEN {} ELSE {disk[f]})
      /\ late \subseteq late' /\ (pass.at # "idle" => late' = late \cup {written'})
  BY DEF Save, Running
<1>3. \A n \in Files : disk'[n] = IF n = f THEN written' ELSE disk[n] BY <1>2, Kin, TreeAssumption DEF Nodes
<1>4. \A n \in Folders : disk'[n] = 0 => disk[n] = 0 BY <1>2, TreeAssumption DEF Nodes
<1>5. Parted \subseteq Parted' /\ (disk[f] # 0 => disk[f] \in Parted') BY <1>1, <1>2 DEF Parted
<1>6. \A c \in 1 .. written' : Held(c)'
  <2> SUFFICES ASSUME NEW c \in 1 .. written' PROVE Held(c)' OBVIOUS
  <2>1. CASE c = written' BY <1>3, <2>1 DEF Held
  <2>2. CASE c # written'
    <3>1. c \in 1 .. written BY <1>2, <2>2, LossNats
    <3>2. Held(c) BY <3>1 DEF LossInv, DataLoss
    <3> QED BY <1>1, <1>3, <1>5, <3>1, <3>2, LossNats DEF Held
  <2> QED BY <2>1, <2>2
<1>7. Sized' BY <1>1, <1>2, <1>3, LossNats DEF LossInv, DataLoss, Sized
<1>8. RowParted' BY <1>1, <1>3, <1>5 DEF LossInv, DataLoss, RowParted
<1>9. AskedTrue' BY <1>1, <1>4 DEF LossInv, DataLoss, AskedTrue
<1>10. RemoteParted' BY <1>1, <1>5 DEF LossInv, PassLoss, RemoteParted
<1>11. RemoteTrue' BY <1>1, <1>2 DEF LossInv, PassLoss, RemoteTrue
<1>12. PlanTrue'
  <2>1. \A n \in Files : pass.plan[n] # "none" => pass.at # "idle"
    <3>1. pass.at = "idle" => pass.plan = NoPlan BY DEF TreeInv, PassShape, Idle
    <3> QED BY <3>1 DEF NoPlan, Nodes
  <2>2. row[f] < written' BY <1>2, LossNats DEF LossInv, DataLoss, Sized
  <2>3. \A n \in Files : pass.plan[n] = "deleteRemote" => disk'[n] # row[n]
    BY <1>2, <1>3, <2>2, LossNats DEF LossInv, PassLoss, PlanTrue
  <2> QED BY <1>1, <1>2, <1>3, <2>1, <2>3 DEF LossInv, PassLoss, PlanTrue
<1>13. AskedPlan' BY <1>1, <1>4 DEF LossInv, PassLoss, AskedPlan
<1> QED BY <1>6, <1>7, <1>8, <1>9, <1>10, <1>11, <1>12, <1>13 DEF LossInv, DataLoss, PassLoss

\* The user removes a tree.
LEMMA LossRemove == ASSUME TypeInv, TreeInv, LossInv, NEW n \in Nodes, Remove(n) PROVE LossInv'
<1>1. UNCHANGED << server, bin, row, dirs, pass, hid, parked, late, written >> BY DEF Remove, rows, world
<1>2. /\ \A m \in Nodes : disk'[m] = IF m \in Whole(n) THEN 0 ELSE disk[m]
      /\ dead' = dead \cup Contents(disk, Whole(n)) /\ asked' = asked \cup (Whole(n) \cap Folders)
  BY DEF Remove
<1>3. \A m \in Files : disk'[m] = disk[m] \/ (disk'[m] = 0 /\ (disk[m] # 0 => disk[m] \in Parted'))
  BY <1>2, HasContent DEF Parted, Nodes
<1>4. \A m \in Folders : disk'[m] = 0 => disk[m] = 0 \/ m \in asked' BY <1>2 DEF Nodes
<1>5. Parted \subseteq Parted' /\ asked \subseteq asked' BY <1>1, <1>2 DEF Parted
<1>6. \A c \in 1 .. written' : Held(c)'
  <2> SUFFICES ASSUME NEW c \in 1 .. written PROVE Held(c)' BY <1>1
  <2>1. Held(c) /\ c # 0 BY LossNats DEF LossInv, DataLoss
  <2> QED BY <1>1, <1>3, <1>5, <2>1 DEF Held
<1>7. Sized' BY <1>1, <1>3, LossNats DEF LossInv, DataLoss, Sized
<1>8. RowParted' BY <1>1, <1>3, <1>5 DEF LossInv, DataLoss, RowParted
<1>9. AskedTrue' BY <1>1, <1>4, <1>5 DEF LossInv, DataLoss, AskedTrue
<1>10. RemoteParted' BY <1>1, <1>5 DEF LossInv, PassLoss, RemoteParted
<1>11. RemoteTrue' BY <1>1 DEF LossInv, PassLoss, RemoteTrue
<1>12. PlanTrue'
  BY <1>1, <1>3 DEF LossInv, PassLoss, PlanTrue
<1>13. AskedPlan' BY <1>1, <1>4, <1>5 DEF LossInv, PassLoss, AskedPlan
<1> QED BY <1>6, <1>7, <1>8, <1>9, <1>10, <1>11, <1>12, <1>13 DEF LossInv, DataLoss, PassLoss

\* What ETags that change leave of the pass.
LEMMA BumpKeeps ==
  ASSUME TypeInv, NEW T, Bump(T)
  PROVE  /\ pass'.at = pass.at /\ pass'.remote = pass.remote /\ pass'.plan = pass.plan /\ pass'.queue = pass.queue
         /\ pass'.problems = pass.problems
         /\ \A f \in Folders : dirs'[f] = "none" <=> dirs[f] = "none"
<1>1. pass'.at = pass.at /\ pass'.remote = pass.remote /\ pass'.plan = pass.plan /\ pass'.queue = pass.queue
      /\ pass'.problems = pass.problems
  BY DEF Bump, TypeInv, PassOK, Passes
<1>2. \A f \in Folders : dirs'[f] = "none" <=> dirs[f] = "none" BY StaleType DEF Bump, TypeInv
<1> QED BY <1>1, <1>2

\* Another client writes a file.
LEMMA LossTheirSave == ASSUME TypeInv, TreeInv, LossInv, NEW f \in Files, TheirSave(f) PROVE LossInv'
<1>1. UNCHANGED << disk, bin, row, asked, hid, parked >> BY DEF TheirSave, world
<1>2. /\ written' = written + 1 /\ Bump(Above[f])
      /\ \A n \in Nodes : server'[n] = IF n = f THEN written' ELSE IF n \in Above[f] THEN 1 ELSE server[n]
      /\ dead \cup ((IF server[f] = 0 THEN {row[f], pass.remote[f]} ELSE {server[f]}) \ {0}) \subseteq dead'
      /\ late \subseteq late' /\ (pass.at # "idle" => late' = late \cup {written'})
  BY DEF TheirSave, Running
<1>3. /\ pass'.at = pass.at /\ pass'.remote = pass.remote /\ pass'.plan = pass.plan /\ pass'.queue = pass.queue
      /\ pass'.problems = pass.problems
      /\ \A g \in Folders : dirs'[g] = "none" <=> dirs[g] = "none"
  BY <1>2, BumpKeeps
<1>4. \A n \in Files : server'[n] = IF n = f THEN written' ELSE server[n] BY <1>2, Kin, TreeAssumption DEF Nodes
<1>5. Parted \subseteq Parted' /\ (server[f] # 0 => server[f] \in Parted')
      /\ (server[f] = 0 => (row[f] # 0 => row[f] \in Parted') /\ (pass.remote[f] # 0 => pass.remote[f] \in Parted'))
  BY <1>1, <1>2 DEF Parted
<1>6. \A c \in 1 .. written' : Held(c)'
  <2> SUFFICES ASSUME NEW c \in 1 .. written' PROVE Held(c)' OBVIOUS
  <2>1. CASE c = written' BY <1>4, <2>1 DEF Held
  <2>2. CASE c # written'
    <3>1. c \in 1 .. written BY <1>2, <2>2, LossNats
    <3>2. Held(c) BY <3>1 DEF LossInv, DataLoss
    <3> QED BY <1>1, <1>4, <1>5, <3>1, <3>2, LossNats DEF Held
  <2> QED BY <2>1, <2>2
<1>7. Sized' BY <1>1, <1>2, <1>4, LossNats DEF LossInv, DataLoss, Sized
<1>8. RowParted' BY <1>1, <1>4, <1>5 DEF LossInv, DataLoss, RowParted
<1>9. AskedTrue' BY <1>1, <1>3 DEF LossInv, DataLoss, AskedTrue
<1>10. RemoteParted' BY <1>3, <1>4, <1>5 DEF LossInv, PassLoss, RemoteParted
<1>11. RemoteTrue'
  <2>1. \A n \in Files : pass.plan[n] # "none" => pass.at # "idle"
    <3>1. pass.at = "idle" => pass.plan = NoPlan BY DEF TreeInv, PassShape, Idle
    <3> QED BY <3>1 DEF NoPlan, Nodes
  <2> QED BY <1>1, <1>2, <1>3, <1>4, <2>1 DEF LossInv, PassLoss, RemoteTrue
<1>12. PlanTrue' BY <1>1, <1>2, <1>3 DEF LossInv, PassLoss, PlanTrue
<1>13. AskedPlan' BY <1>1, <1>3 DEF LossInv, PassLoss, AskedPlan
<1> QED BY <1>6, <1>7, <1>8, <1>9, <1>10, <1>11, <1>12, <1>13 DEF LossInv, DataLoss, PassLoss

\* Something is removed from the server by others, or a share is taken back.
LEMMA LossFelled ==
  ASSUME TypeInv, LossInv, UNCHANGED << disk, bin, row, asked, hid, parked, late, written >>, NEW T, Bump(T),
         \A n \in Nodes : server'[n] = server[n] \/ server'[n] = 0,
         dead \subseteq dead',
         \A n \in Files : server'[n] # server[n] =>
           server[n] \in dead' \/ \E m \in Files : disk[m] = server[n]
  PROVE  LossInv'
<1>3. /\ pass'.at = pass.at /\ pass'.remote = pass.remote /\ pass'.plan = pass.plan /\ pass'.queue = pass.queue
      /\ pass'.problems = pass.problems
      /\ \A g \in Folders : dirs'[g] = "none" <=> dirs[g] = "none"
  BY BumpKeeps
<1>4. \A n \in Files : server'[n] = server[n] \/ server'[n] = 0 BY DEF Nodes
<1>5. Parted \subseteq Parted' /\ dead' \subseteq Parted' BY DEF Parted
<1>6. \A c \in 1 .. written' : Held(c)'
  <2> SUFFICES ASSUME NEW c \in 1 .. written PROVE Held(c)' OBVIOUS
  <2>1. Held(c) /\ c # 0 BY LossNats DEF LossInv, DataLoss
  <2> QED BY <1>5, <2>1 DEF Held
<1>7. Sized' BY <1>4, LossNats DEF LossInv, DataLoss, Sized
<1>8. RowParted' BY <1>4, <1>5 DEF LossInv, DataLoss, RowParted
<1>9. AskedTrue' BY <1>3 DEF LossInv, DataLoss, AskedTrue
<1>10. RemoteParted' BY <1>3, <1>4, <1>5 DEF LossInv, PassLoss, RemoteParted
<1>11. RemoteTrue' BY <1>3, <1>4 DEF LossInv, PassLoss, RemoteTrue
<1>12. PlanTrue' BY <1>3 DEF LossInv, PassLoss, PlanTrue
<1>13. AskedPlan' BY <1>3 DEF LossInv, PassLoss, AskedPlan
<1> QED BY <1>6, <1>7, <1>8, <1>9, <1>10, <1>11, <1>12, <1>13 DEF LossInv, DataLoss, PassLoss

\* Another client removes a tree.
LEMMA LossTheirRemove == ASSUME TypeInv, LossInv, NEW n \in Nodes, TheirRemove(n) PROVE LossInv'
<1> DEFINE T == Above[n] \cup (Whole(n) \cap Folders)
<1>1. UNCHANGED << disk, bin, row, asked, hid, parked, late, written >> /\ Bump(T) BY DEF TheirRemove
<1>2. /\ \A m \in Nodes : server'[m] = IF m \in Whole(n) THEN 0 ELSE server[m]
      /\ dead \subseteq dead' /\ Contents(server, Whole(n)) \subseteq dead'
  BY DEF TheirRemove
<1>3. \A m \in Nodes : server'[m] = server[m] \/ server'[m] = 0 BY <1>2
<1>4. \A m \in Files : server'[m] # server[m] => server[m] \in dead' BY <1>2, HasContent DEF Nodes
<1> QED BY <1>1, <1>2, <1>3, <1>4, LossFelled

\* A share is taken back: its files are here, or are on record.
LEMMA LossUnshare == ASSUME TypeInv, LossInv, NEW d \in Folders, Unshare(d) PROVE LossInv'
<1> DEFINE T == Above[d] \cup (Whole(d) \cap Folders)
<1>1. UNCHANGED << disk, bin, row, asked, hid, parked, late, written >> /\ Bump(T) BY DEF Unshare
<1>2. /\ \A m \in Nodes : server'[m] = IF m \in Whole(d) THEN 0 ELSE server[m]
      /\ dead \subseteq dead' /\ Contents(server, Whole(d)) \ Contents(disk, Nodes) \subseteq dead'
  BY DEF Unshare
<1>3. \A m \in Nodes : server'[m] = server[m] \/ server'[m] = 0 BY <1>2
<1>4. \A m \in Files : server'[m] # server[m] => server[m] \in dead' \/ \E k \in Files : disk[k] = server[m]
  <2> SUFFICES ASSUME NEW m \in Files, server'[m] # server[m] PROVE server[m] \in dead' \/ \E k \in Files : disk[k] = server[m]
    OBVIOUS
  <2>1. server[m] \in Contents(server, Whole(d)) BY <1>2, HasContent DEF Nodes
  <2>2. server[m] \in Contents(disk, Nodes) => \E k \in Files : disk[k] = server[m] BY DEF Contents
  <2> QED BY <1>2, <2>1, <2>2
<1> QED BY <1>1, <1>2, <1>3, <1>4, LossFelled

\* The copy of a share is settled.
LEMMA LossResolve == ASSUME TypeInv, TreeInv, LossInv, NEW d \in Folders, Resolve(d) PROVE LossInv'
<1>1. UNCHANGED << server, bin, row, dirs, pass, asked, late, written >> BY DEF Resolve, rows, fixed
<1>2. /\ \A m \in Nodes : disk'[m] = disk[m] \/ (m \in Whole(d) /\ disk'[m] = 0 /\ Contents(disk, Whole(d)) \subseteq dead')
      /\ dead \subseteq dead'
  BY DEF Resolve
<1>3. \A m \in Files : disk'[m] = disk[m] \/ (disk'[m] = 0 /\ (disk[m] # 0 => disk[m] \in Parted'))
  BY <1>2, HasContent DEF Parted, Nodes
<1>4. \A m \in Folders : disk'[m] = disk[m] \/ (dirs[m] = "none" /\ pass.remote[m] = 0 /\ pass.plan[m] = "none")
  <2> SUFFICES ASSUME NEW m \in Folders, m \in Whole(d) PROVE dirs[m] = "none" /\ pass.remote[m] = 0 /\ pass.plan[m] = "none"
    BY <1>2 DEF Nodes
  <2>1. m \in Nodes /\ Hid(m, parked) BY InWhole DEF Resolve, Hid, Nodes
  <2>2. KnownF[m] = 0 /\ pass.remote[m] = 0 /\ pass.plan[m] = "none" BY <2>1 DEF TreeInv, ParkedOut
  <2> QED BY <2>1, <2>2 DEF KnownF, Known
<1>5. Parted \subseteq Parted' BY <1>1, <1>2 DEF Parted
<1>6. \A c \in 1 .. written' : Held(c)'
  <2> SUFFICES ASSUME NEW c \in 1 .. written PROVE Held(c)' BY <1>1
  <2>1. Held(c) /\ c # 0 BY LossNats DEF LossInv, DataLoss
  <2> QED BY <1>1, <1>3, <1>5, <2>1 DEF Held
<1>7. Sized' BY <1>1, <1>3, LossNats DEF LossInv, DataLoss, Sized
<1>8. RowParted' BY <1>1, <1>3, <1>5 DEF LossInv, DataLoss, RowParted
<1>9. AskedTrue' BY <1>1, <1>4 DEF LossInv, DataLoss, AskedTrue
<1>10. RemoteParted' BY <1>1, <1>5 DEF LossInv, PassLoss, RemoteParted
<1>11. RemoteTrue'
  <2> SUFFICES ASSUME NEW n \in Files, pass.at = "scan" \/ pass.plan[n] # "none", server[n] \notin late \cup {0}
               PROVE  pass.remote[n] = server[n] \/ Hid(n, hid') \/ Hid(n, parked') \/ Waits(pass.queue, n)
    BY <1>1 DEF RemoteTrue
  <2>1. pass.remote[n] = server[n] \/ Hid(n, hid) \/ Hid(n, parked) \/ Waits(pass.queue, n)
    BY DEF LossInv, PassLoss, RemoteTrue
  <2>2. Hid(n, hid) => Hid(n, hid') BY DEF Resolve, Hid
  <2>3. Hid(n, parked) => Hid(n, parked') \/ Hid(n, hid')
    <3>1. d \in parked /\ parked' = parked \ {d} /\ hid' = (IF server[d] = 1 THEN hid \cup {d} ELSE hid) BY DEF Resolve
    <3>2. CASE d \notin {n} \cup Above[n] BY <3>1, <3>2 DEF Hid
    <3>3. CASE d \in {n} \cup Above[n]
      <4>1. server[d] = 1 BY <3>3, LossNats DEF TreeInv, ServerOK, Up
      <4> QED BY <3>1, <3>3, <4>1 DEF Hid
    <3> QED BY <3>2, <3>3
  <2> QED BY <2>1, <2>2, <2>3
<1>12. PlanTrue' BY <1>1, <1>3 DEF LossInv, PassLoss, PlanTrue
<1>13. AskedPlan' BY <1>1, <1>4 DEF LossInv, PassLoss, AskedPlan
<1> QED BY <1>6, <1>7, <1>8, <1>9, <1>10, <1>11, <1>12, <1>13 DEF LossInv, DataLoss, PassLoss

\* Nothing moves; rows are made of folders that are there.
LEMMA DataSame ==
  ASSUME DataLoss, UNCHANGED << server, disk, bin, row, dead, asked, written >>,
         \A f \in Folders : dirs'[f] # "none" => dirs[f] # "none" \/ disk[f] # 0 \/ f \in asked
  PROVE  DataLoss'
<1>1. \A c \in 1 .. written' : Held(c)' BY DEF DataLoss, Held, Parted
<1> QED BY <1>1 DEF DataLoss, Parted, Sized, RowParted, AskedTrue

\* Steps that change nothing of it.
LEMMA LossSmall ==
  ASSUME TypeInv, TreeInv, LossInv, Leaves \/ Returns \/ Approve \/ Calms \/ UNCHANGED vars
  PROVE  LossInv'
<1>1. UNCHANGED << server, disk, bin, row, dead, asked, written, dirs, pass, late, hid, parked >>
  BY DEF Leaves, Returns, Approve, Calms, vars, files, rows, world, seen, fixed
<1>2. DataLoss' BY <1>1, DataSame DEF LossInv
<1>3. PassLoss' BY <1>1 DEF LossInv, PassLoss, RemoteParted, Parted, RemoteTrue, PlanTrue, AskedPlan
<1> QED BY <1>2, <1>3 DEF LossInv

\* The scan fails, or the program ends.
LEMMA LossStops == ASSUME TypeInv, TreeInv, LossInv, ScanFails \/ Crash PROVE LossInv'
<1>1. UNCHANGED << server, disk, bin, row, dead, asked, written, dirs >> /\ pass' = Idle
  BY DEF ScanFails, Crash, files, rows, fixed, seen
<1>2. DataLoss' BY <1>1, DataSame DEF LossInv
<1> QED BY <1>1, <1>2, LossIdle

\* A pass begins.
LEMMA LossBegins == ASSUME TypeInv, TreeInv, LossInv, PassBegins PROVE LossInv'
<1> DEFINE q == [Idle EXCEPT !.at = "scan", !.queue = {Root}]
<1>1. UNCHANGED << server, disk, bin, row, dead, asked, written, dirs >> /\ pass' = q
  BY DEF PassBegins, files, rows, fixed
<1>2. DataLoss' BY <1>1, DataSame DEF LossInv
<1>3. q.at = "scan" /\ q.queue = {Root} /\ q.remote = NoListing /\ q.plan = NoPlan BY DEF Idle
<1> HIDE DEF q
<1>4. \A n \in Nodes : Waits(q.queue, n) /\ q.remote[n] = 0 /\ q.plan[n] = "none"
  BY <1>3 DEF Waits, Under, NoListing, NoPlan
<1>5. PassLoss' BY <1>1, <1>3, <1>4 DEF PassLoss, RemoteParted, RemoteTrue, PlanTrue, AskedPlan, Nodes
<1> QED BY <1>2, <1>5 DEF LossInv

\* A listing tells what the server has, or what a row has.
LEMMA LossList == ASSUME TypeInv, TreeInv, LossInv, NEW f \in Folders \cup {Root}, List(f) PROVE LossInv'
<1>1. UNCHANGED << server, disk, bin, row, dirs, dead, late, asked, hid, parked, written >> /\ pass.at = "scan"
  BY DEF List, files, rows, world, fixed, seen
<1>2. /\ \A n \in Nodes : pass'.remote[n] = IF Listing(f)[n] # 0 THEN Listing(f)[n] ELSE pass.remote[n]
      /\ pass'.at = "scan" /\ pass'.plan = pass.plan
  BY ListDoes DEF ListHas
<1>3. \A n \in Nodes : pass'.plan[n] = "none" BY <1>1, <1>2 DEF TreeInv, PassShape, NoPlan
<1>4. DataLoss' BY <1>1, DataSame DEF LossInv
<1>5. \A n \in Nodes : Listing(f)[n] # 0 => IsTold(f, n) /\ Listing(f)[n] = Told(f, n) BY ListingHas
<1>6. RemoteParted'
  <2> SUFFICES ASSUME NEW n \in Files, pass'.remote[n] # 0, server[n] \notin {0, pass'.remote[n]}
               PROVE  pass'.remote[n] \in Parted
    BY <1>1 DEF RemoteParted, Parted
  <2>0. n \in Nodes /\ n \notin Folders BY LossNats
  <2>1. CASE Listing(f)[n] = 0
    BY <1>1, <1>2, <2>0, <2>1 DEF LossInv, PassLoss, RemoteParted
  <2>2. CASE Listing(f)[n] # 0
    <3>1. IsTold(f, n) /\ pass'.remote[n] = Told(f, n) BY <1>2, <1>5, <2>0, <2>2
    <3>2. Pruned(f, n) BY <2>0, <3>1, ToldStraight
    <3>3. Parent[n] # f BY <2>0, <3>1, <3>2, ParentIn DEF Pruned, IsTold
    <3>4. pass'.remote[n] = row[n] BY <2>0, <3>1, <3>2, <3>3 DEF Told, Known
    <3> QED BY <3>4 DEF LossInv, DataLoss, RowParted
  <2> QED BY <2>1, <2>2
<1>7. RemoteTrue'
  <2> SUFFICES ASSUME NEW n \in Files, server[n] \notin late \cup {0}
               PROVE  pass'.remote[n] = server[n] \/ Hid(n, hid) \/ Hid(n, parked) \/ Waits(pass'.queue, n)
    BY <1>1 DEF RemoteTrue
  <2>0. n \in Nodes BY LossNats
  <2>1. CASE Under(f, n) \/ Waits(pass.queue, n) BY <2>0, <2>1, ListScan
  <2>2. CASE ~(Under(f, n) \/ Waits(pass.queue, n))
    <3>1. pass'.remote[n] = pass.remote[n] BY <1>2, <1>5, <2>0, <2>2 DEF IsTold
    <3> QED BY <1>1, <2>2, <3>1 DEF LossInv, PassLoss, RemoteTrue
  <2> QED BY <2>1, <2>2
<1>8. PlanTrue' /\ AskedPlan' BY <1>2, <1>3 DEF PlanTrue, AskedPlan, Nodes
<1> QED BY <1>4, <1>6, <1>7, <1>8 DEF LossInv, PassLoss

\* What the diff says of a file and of a folder.
LEMMA DiffFile ==
  ASSUME NEW n \in Files, TypeInv
  PROVE  /\ Diff[n] = "upload" => HasL(n) /\ (row[n] = pass.remote[n])
         /\ Diff[n] = "download" => Here(n) \in {0, row[n]}
         /\ Diff[n] = "deleteRemote" => row[n] # 0 /\ Here(n) = 0 /\ row[n] = pass.remote[n]
<1>1. Diff[n] = OfFile(n) /\ n \in Nodes /\ n \notin Folders BY TreeAssumption DEF Diff, Nodes
<1>2. HasB(n) <=> row[n] # 0 BY <1>1 DEF HasB, Known
<1> HIDE DEF Diff
<1>3. Diff[n] = "upload" => HasL(n) /\ (row[n] = pass.remote[n])
  BY <1>1, <1>2 DEF OfFile, HasR, HasL, RemoteChanged, LocalChanged
<1>4. Diff[n] = "download" => Here(n) \in {0, row[n]}
  BY <1>1, <1>2 DEF OfFile, HasR, HasL, RemoteChanged, LocalChanged
<1>5. Diff[n] = "deleteRemote" => row[n] # 0 /\ Here(n) = 0 /\ row[n] = pass.remote[n]
  BY <1>1, <1>2 DEF OfFile, HasR, HasL, RemoteChanged, LocalChanged
<1> QED BY <1>3, <1>4, <1>5

\* What the diff says of a folder.
LEMMA DiffFolder ==
  ASSUME NEW n \in Folders, TypeInv
  PROVE  /\ Diff[n] = "mkRemote" => HasL(n)
         /\ Diff[n] = "deleteRemote" => ~HasL(n) /\ dirs[n] # "none"
         /\ Diff[n] = "none" /\ HasR(n) => HasL(n)
<1>1. Diff[n] = OfFolder(n) /\ n \in Nodes BY DEF Diff, Nodes
<1>2. HasB(n) <=> dirs[n] # "none" BY <1>1 DEF HasB, Known
<1> HIDE DEF Diff
<1> QED BY <1>1, <1>2 DEF OfFolder

\* Rows of names on neither side, and of a share that was taken back, are dropped: no content is lost with them.
LEMMA DropLoss ==
  ASSUME TypeInv, DataLoss, UNCHANGED << server, disk, bin, dead, written >>,
         \A n \in Files : row'[n] \in {0, row[n]},
         asked' = Gone,
         \A f \in Folders : dirs'[f] # "none" => dirs[f] # "none" \/ disk[f] # 0
  PROVE  DataLoss'
<1>1. \A c \in 1 .. written' : Held(c)' BY DEF DataLoss, Held, Parted
<1>2. Parted' = Parted BY DEF Parted
<1>3. Sized' BY LossNats DEF DataLoss, Sized
<1>4. RowParted' BY <1>2 DEF DataLoss, RowParted
<1>5. AskedTrue' BY DEF DataLoss, AskedTrue, Gone
<1> QED BY <1>1, <1>3, <1>4, <1>5 DEF DataLoss

\* A pass with nothing to do.
LEMMA LossQuiet == ASSUME TypeInv, TreeInv, LossInv, Quiet PROVE LossInv'
<1>1. UNCHANGED << server, disk, bin, dead, written >> /\ asked' = Gone /\ pass' = Idle /\ pass.at = "scan"
  BY DEF Quiet, files, fixed
<1>2. \A n \in Files : row'[n] \in {0, row[n]} BY DEF Quiet
<1>3. ASSUME NEW f \in Folders, dirs'[f] # "none" PROVE dirs[f] # "none" \/ disk[f] # 0
  <2>0. f \in Nodes BY DEF Nodes
  <2>1. CASE f \in Listed({})
    <3>1. pass.remote[f] = 1 BY <2>1 DEF Listed
    <3>2. Remaining(Diff)[f] = "none" BY <2>0 DEF Quiet
    <3>3. Diff[f] = "none" BY <2>0, <3>1, <3>2, RemainingIs, SparedOut
    <3> QED BY <3>1, <3>3, DiffFolder DEF HasR, HasL, Here
  <2>2. CASE f \notin Listed({}) BY <1>3, <2>2 DEF Quiet
  <2> QED BY <2>1, <2>2
<1>4. DataLoss' BY <1>1, <1>2, <1>3, DropLoss DEF LossInv
<1> QED BY <1>1, <1>4, LossIdle

\* The plan is made of what is here and what was told.
LEMMA LossPlan == ASSUME TypeInv, TreeInv, LossInv, Plan PROVE LossInv'
<1> DEFINE p == Remaining(Diff)
           gone == Dead \cup Spared(Diff)
           R == Rows(gone)
<1>1. UNCHANGED << server, disk, bin, dead, late, hid, written >> /\ asked' = Gone /\ pass.at = "scan"
      /\ Drop(gone) /\ parked' = parked \cup Detached(Diff)
      /\ \/ pass' = Idle
         \/ pass' = [pass EXCEPT !.at = "act", !.plan = p, !.known = R, !.granted = granted] /\ ~away
  BY DEF Plan, Refuses, Vanished, files, fixed
<1>2. /\ \A n \in Files : row'[n] = IF n \in gone THEN 0 ELSE row[n]
      /\ \A f \in Folders : dirs'[f] = IF f \in gone THEN "none" ELSE dirs[f]
  BY <1>1 DEF Drop
<1>3. DataLoss'
  <2>1. \A n \in Files : row'[n] \in {0, row[n]} BY <1>2
  <2>2. \A f \in Folders : dirs'[f] # "none" => dirs[f] # "none" \/ disk[f] # 0 BY <1>2
  <2>3. UNCHANGED << server, disk, bin, dead, written >> BY <1>1
  <2> QED BY <1>1, <2>1, <2>2, <2>3, DropLoss DEF LossInv
<1>4. CASE pass' = Idle BY <1>3, <1>4, LossIdle
<1>5. CASE pass' = [pass EXCEPT !.at = "act", !.plan = p, !.known = R, !.granted = granted] /\ ~away
  <2>1. pass'.at = "act" /\ pass'.plan = p /\ pass'.remote = pass.remote /\ pass'.queue = pass.queue
    <3> HIDE DEF p, R
    <3> QED BY <1>5 DEF TypeInv, PassOK, Passes
  <2>2. ASSUME NEW n \in Nodes, p[n] # "none"
        PROVE  Diff[n] = p[n] /\ n \notin Spared(Diff) /\ (HasR(n) => n \notin Parked /\ n \notin gone /\ Here(n) = disk[n])
    <3>1. Diff[n] = p[n] /\ n \notin Spared(Diff) BY <2>2, RemainingIs
    <3>2. HasR(n) => n \notin Parked BY Unhidden DEF TreeInv, ParkedOut, HasR
    <3>3. HasR(n) => n \notin Dead BY DEF Dead
    <3>4. n \notin Parked => Here(n) = disk[n] BY <1>5 DEF Here
    <3> QED BY <3>1, <3>2, <3>3, <3>4
  <2>3. RemoteParted' BY <1>1, <2>1 DEF LossInv, PassLoss, RemoteParted, Parted
  <2>4. RemoteTrue'
    <3> SUFFICES ASSUME NEW n \in Files, server[n] \notin late \cup {0}
                 PROVE  pass.remote[n] = server[n] \/ Hid(n, hid) \/ Hid(n, parked') \/ Waits(pass.queue, n)
      BY <1>1, <2>1 DEF RemoteTrue
    <3>1. pass.remote[n] = server[n] \/ Hid(n, hid) \/ Hid(n, parked) \/ Waits(pass.queue, n)
      BY <1>1 DEF LossInv, PassLoss, RemoteTrue
    <3> QED BY <1>1, <3>1, HidMore
  <2>5. PlanTrue'
    <3> SUFFICES ASSUME NEW n \in Files
                 PROVE  /\ p[n] \in {"upload", "deleteRemote"} => row'[n] = pass.remote[n]
                        /\ p[n] = "download" => disk[n] \in {0, row'[n]} \cup late
                        /\ p[n] = "deleteRemote" => row'[n] # 0 /\ disk[n] # row'[n]
      BY <1>1, <2>1 DEF PlanTrue
    <3>0. n \in Nodes BY LossNats
    <3>1. CASE p[n] = "upload"
      <4>1. Diff[n] = "upload" /\ n \notin Spared(Diff) BY <2>2, <3>0, <3>1
      <4>2. HasL(n) /\ row[n] = pass.remote[n] BY <4>1, DiffFile
      <4>3. n \notin gone BY <4>1, <4>2 DEF Dead
      <4> QED BY <1>2, <3>1, <4>2, <4>3
    <3>2. CASE p[n] = "download"
      <4>1. Diff[n] = "download" /\ (HasR(n) => n \notin gone /\ Here(n) = disk[n]) BY <2>2, <3>0, <3>2
      <4>2. HasR(n) /\ Here(n) \in {0, row[n]} BY <3>0, <4>1, DiffFile, DiffIs
      <4> QED BY <1>2, <3>2, <4>1, <4>2
    <3>3. CASE p[n] = "deleteRemote"
      <4>1. Diff[n] = "deleteRemote" /\ (HasR(n) => n \notin gone /\ Here(n) = disk[n]) BY <2>2, <3>0, <3>3
      <4>2. HasR(n) /\ row[n] # 0 /\ Here(n) = 0 /\ row[n] = pass.remote[n] BY <3>0, <4>1, DiffFile, DiffIs
      <4> QED BY <1>2, <3>3, <4>1, <4>2
    <3> QED BY <3>1, <3>2, <3>3
  <2>6. AskedPlan'
    <3> SUFFICES ASSUME NEW f \in Folders
                 PROVE  /\ disk[f] = 0 /\ p[f] = "mkRemote" => f \in Gone
                        /\ disk[f] = 0 /\ pass.remote[f] = 1 /\ p[f] = "none" => f \in Gone
                        /\ p[f] = "deleteRemote" => f \in Gone
      BY <1>1, <2>1 DEF AskedPlan
    <3>0. f \in Nodes BY DEF Nodes
    <3>1. CASE p[f] = "mkRemote"
      <4>1. Diff[f] = "mkRemote" BY <2>2, <3>0, <3>1
      <4> QED BY <3>1, <4>1, DiffFolder DEF HasL, Here
    <3>2. CASE p[f] = "none" /\ pass.remote[f] = 1
      <4>1. Diff[f] = "none" BY <3>0, <3>2, RemainingIs, SparedOut
      <4> QED BY <3>2, <4>1, DiffFolder DEF HasR, HasL, Here
    <3>3. CASE p[f] = "deleteRemote"
      <4>1. Diff[f] = "deleteRemote" /\ (HasR(f) => Here(f) = disk[f]) BY <2>2, <3>0, <3>3
      <4>2. ~HasL(f) /\ dirs[f] # "none" /\ HasR(f) BY <3>0, <4>1, DiffFolder, DiffIs
      <4>3. disk[f] = 0 BY <4>1, <4>2 DEF HasL
      <4> QED BY <3>3, <4>2, <4>3 DEF Gone, LossInv, DataLoss, AskedTrue
    <3> QED BY <3>1, <3>2, <3>3
  <2> QED BY <1>3, <2>3, <2>4, <2>5, <2>6 DEF LossInv, PassLoss
<1> QED BY <1>1, <1>4, <1>5

\* What an action carried out leaves as it was planned, for what it does not touch.
LEMMA LossPass ==
  ASSUME TypeInv, TreeInv, LossInv, NEW n \in Nodes, Ready(n), NEW T, ActDid(n, T, pass'),
         UNCHANGED << late, asked, parked, written >>, hid \subseteq hid', Parted \subseteq Parted',
         \A m \in Files : m # n => server'[m] \in {server[m], 0},
         \A m \in Files : pass'.plan[m] \in {"upload", "download", "deleteRemote"} => row'[m] = row[m] /\ disk'[m] = disk[m],
         \A f \in Folders : disk'[f] = 0 => disk[f] = 0 \/ (pass.plan[f] # "mkRemote" /\ pass.remote[f] = 0),
         n \in Folders /\ disk'[n] = 0 /\ pass.remote[n] = 1 => n \in asked
  PROVE  PassLoss'
<1>1. /\ pass.at = "act" /\ pass'.at = "act" /\ pass'.queue = {} /\ pass.queue = {} /\ pass'.remote = pass.remote
      /\ pass'.problems = pass.problems
      /\ \A m \in Nodes : pass'.plan[m] = IF m = n THEN "none" ELSE pass.plan[m]
  BY ReadyHas DEF ActDid, Ready
<1>2. Files \subseteq Nodes /\ Folders \subseteq Nodes BY DEF Nodes
<1>3. RemoteParted'
  <2> SUFFICES ASSUME NEW m \in Files, pass'.plan[m] = "conflict", pass.remote[m] # 0, server'[m] \notin {0, pass.remote[m]}
               PROVE  pass.remote[m] \in Parted'
    BY <1>1 DEF RemoteParted
  <2>1. m # n /\ pass.plan[m] = "conflict" BY <1>1, <1>2
  <2>2. server'[m] = server[m] BY <2>1
  <2> QED BY <2>1, <2>2 DEF LossInv, PassLoss, RemoteParted
<1>4. RemoteTrue'
  <2> SUFFICES ASSUME NEW m \in Files, pass'.plan[m] # "none", server'[m] \notin late \cup {0}
               PROVE  pass.remote[m] = server'[m] \/ Hid(m, hid') \/ Hid(m, parked) \/ Waits(pass.queue, m)
    BY <1>1 DEF RemoteTrue
  <2>1. m # n /\ pass.plan[m] # "none" BY <1>1, <1>2
  <2>2. server'[m] = server[m] BY <2>1
  <2>3. pass.remote[m] = server[m] \/ Hid(m, hid) \/ Hid(m, parked) \/ Waits(pass.queue, m)
    BY <2>1, <2>2 DEF LossInv, PassLoss, RemoteTrue
  <2> QED BY <2>2, <2>3, HidMore
<1>5. PlanTrue'
  <2>1. \A m \in Files : pass'.plan[m] \in {"none", pass.plan[m]} BY <1>1, <1>2
  <2> QED BY <1>1, <2>1 DEF LossInv, PassLoss, PlanTrue
<1>6. AskedPlan'
  <2>1. \A f \in Folders : pass'.plan[f] = IF f = n THEN "none" ELSE pass.plan[f] BY <1>1, <1>2
  <2>2. \A f \in Folders : /\ disk[f] = 0 /\ pass.plan[f] = "mkRemote" => f \in asked
                           /\ disk[f] = 0 /\ pass.remote[f] = 1 /\ pass.plan[f] = "none" /\ f \notin pass.problems => f \in asked
                           /\ pass.plan[f] = "deleteRemote" => f \in asked
    BY <1>1 DEF LossInv, PassLoss, AskedPlan
  <2> SUFFICES ASSUME NEW f \in Folders
               PROVE  /\ disk'[f] = 0 /\ pass'.plan[f] = "mkRemote" => f \in asked
                      /\ disk'[f] = 0 /\ pass.remote[f] = 1 /\ pass'.plan[f] = "none" /\ f \notin pass.problems => f \in asked
                      /\ pass'.plan[f] = "deleteRemote" => f \in asked
    BY <1>1 DEF AskedPlan
  <2>3. CASE f = n BY <2>1, <2>3
  <2>4. CASE f # n BY <2>1, <2>2, <2>4
  <2> QED BY <2>3, <2>4
<1> QED BY <1>3, <1>4, <1>5, <1>6 DEF PassLoss

\* What a transfer leaves under the other names.
LEMMA LossUploads ==
  ASSUME TypeInv, TreeInv, LossInv, NEW n \in Files, NEW o, Ready(n), Uploads(n, o), Keeps,
         server[n] \in {0, disk[n]} \cup Parted'
  PROVE  LossInv'
<1>0. n \in Nodes /\ Files \subseteq Nodes BY DEF Nodes
<1>1. UNCHANGED << disk, bin, late, asked, hid, parked, written >> BY DEF Uploads, Keeps, world, fixed
<1>2. /\ \A m \in Files : server'[m] = IF m = n THEN disk[n] ELSE server[m]
      /\ \A m \in Files : row'[m] = IF m = n THEN disk[n] ELSE row[m]
  BY <1>0, OfSides DEF Uploads, TypeInv, RowsOK, FilesOK
<1>3. \A f \in Folders : dirs'[f] = "none" <=> dirs[f] = "none" BY StaleType DEF Uploads, TypeInv
<1>4. Parted \subseteq Parted' BY <1>1 DEF Parted, Uploads
<1>5. ActDid(n, Above[n], pass') BY <1>0, ActDoes DEF Uploads
<1>6. \A c \in 1 .. written' : Held(c)'
  <2> SUFFICES ASSUME NEW c \in 1 .. written PROVE Held(c)' BY <1>1
  <2>1. Held(c) /\ c # 0 BY LossNats DEF LossInv, DataLoss
  <2> QED BY <1>1, <1>2, <1>4, <2>1 DEF Held
<1>7. Sized' BY <1>1, <1>2, LossNats DEF LossInv, DataLoss, Sized
<1>8. RowParted' BY <1>1, <1>2, <1>4 DEF LossInv, DataLoss, RowParted
<1>9. AskedTrue' BY <1>1, <1>3 DEF LossInv, DataLoss, AskedTrue
<1>10. PassLoss'
  <2>1. \A m \in Files : m # n => server'[m] \in {server[m], 0} BY <1>2
  <2>2. \A m \in Files : pass'.plan[m] \in {"upload", "download", "deleteRemote"} => row'[m] = row[m] /\ disk'[m] = disk[m]
    <3>1. pass'.plan[n] = "none" BY <1>0, <1>5 DEF ActDid
    <3> QED BY <1>1, <1>2, <3>1
  <2>3. \A f \in Folders : disk'[f] = 0 => disk[f] = 0 \/ (pass.plan[f] # "mkRemote" /\ pass.remote[f] = 0) BY <1>1
  <2>4. n \in Folders /\ disk'[n] = 0 /\ pass.remote[n] = 1 => n \in asked BY LossNats
  <2>5. UNCHANGED << late, asked, parked, written >> /\ hid \subseteq hid' BY <1>1
  <2> QED BY <1>0, <1>4, <1>5, <2>1, <2>2, <2>3, <2>4, <2>5, LossPass
<1> QED BY <1>6, <1>7, <1>8, <1>9, <1>10 DEF LossInv, DataLoss

\* A file comes down: what it replaces is on record, or the same.
LEMMA LossDownloads ==
  ASSUME TypeInv, TreeInv, LossInv, NEW n \in Files, NEW o, Ready(n), Downloads(n, o), Keeps,
         disk[n] \in {0, server[n]} \cup Parted'
  PROVE  LossInv'
<1>0. n \in Nodes /\ Files \subseteq Nodes /\ Folders \subseteq Nodes BY DEF Nodes
<1>1. UNCHANGED << server, bin, dirs, late, asked, hid, parked, written >> BY DEF Downloads, Keeps, world, fixed
<1>2. /\ \A m \in Files : disk'[m] = IF m = n THEN server[n] ELSE disk[m]
      /\ \A m \in Files : row'[m] = IF m = n THEN server[n] ELSE row[m]
      /\ \A f \in Folders : disk'[f] = 0 => disk[f] = 0
  <2>1. \A m \in Nodes : disk'[m] = IF m = n THEN server[n] ELSE IF m \in Above[n] THEN 1 ELSE disk[m] BY DEF Downloads
  <2>2. \A m \in Files : m \notin Above[n] BY <1>0, Kin, TreeAssumption
  <2>3. \A f \in Folders : f # n BY LossNats
  <2>4. \A m \in Files : row'[m] = IF m = n THEN server[n] ELSE row[m] BY DEF Downloads, TypeInv, RowsOK
  <2>5. \A m \in Files : disk'[m] = IF m = n THEN server[n] ELSE disk[m] BY <1>0, <2>1, <2>2
  <2>6. \A f \in Folders : disk'[f] = 0 => disk[f] = 0 BY <1>0, <2>1, <2>3
  <2> QED BY <2>4, <2>5, <2>6
<1>4. Parted \subseteq Parted' BY <1>1 DEF Parted, Downloads
<1>5. ActDid(n, {}, pass') BY <1>0, ActDoes DEF Downloads
<1>6. \A c \in 1 .. written' : Held(c)'
  <2> SUFFICES ASSUME NEW c \in 1 .. written PROVE Held(c)' BY <1>1
  <2>1. Held(c) /\ c # 0 BY LossNats DEF LossInv, DataLoss
  <2> QED BY <1>1, <1>2, <1>4, <2>1 DEF Held
<1>7. Sized' BY <1>1, <1>2, LossNats DEF LossInv, DataLoss, Sized
<1>8. RowParted' BY <1>1, <1>2, <1>4 DEF LossInv, DataLoss, RowParted
<1>9. AskedTrue' BY <1>1, <1>2 DEF LossInv, DataLoss, AskedTrue
<1>10. PassLoss'
  <2>1. \A m \in Files : m # n => server'[m] \in {server[m], 0} BY <1>1
  <2>2. \A m \in Files : pass'.plan[m] \in {"upload", "download", "deleteRemote"} => row'[m] = row[m] /\ disk'[m] = disk[m]
    <3>1. pass'.plan[n] = "none" BY <1>0, <1>5 DEF ActDid
    <3> QED BY <1>2, <3>1
  <2>3. \A f \in Folders : disk'[f] = 0 => disk[f] = 0 \/ (pass.plan[f] # "mkRemote" /\ pass.remote[f] = 0) BY <1>2
  <2>4. n \in Folders /\ disk'[n] = 0 /\ pass.remote[n] = 1 => n \in asked BY LossNats
  <2>5. UNCHANGED << late, asked, parked, written >> /\ hid \subseteq hid' BY <1>1
  <2> QED BY <1>0, <1>4, <1>5, <2>1, <2>2, <2>3, <2>4, <2>5, LossPass
<1> QED BY <1>6, <1>7, <1>8, <1>9, <1>10 DEF LossInv, DataLoss

\* An upload replaces what the pass was told of, or what is on record.
LEMMA LossUpload == ASSUME TypeInv, TreeInv, LossInv, NEW n \in Nodes, Upload(n) PROVE LossInv'
<1>1. Ready(n) /\ pass.plan[n] = "upload" BY DEF Upload, Makes
<1>2. n \in Files BY <1>1 DEF TreeInv, PlanFits
<1>3. PICK o : Uploads(n, o) /\ Keeps /\ o = IF Hidden(n) THEN {server[n]} ELSE {server[n]} \cap late BY DEF Upload
<1>4. dead' = dead \cup (o \ {0}) /\ bin' = bin BY <1>3 DEF Uploads
<1>5. server[n] \in {0, disk[n]} \cup Parted'
  <2>1. CASE Hidden(n) \/ server[n] \in late BY <1>3, <1>4, <2>1 DEF Parted
  <2>2. CASE ~Hidden(n) /\ server[n] \notin late \cup {0}
    <3>1. ~Hid(n, hid) BY <1>2, <2>2, LossNats DEF Hid, Hidden, TypeInv, RestOK
    <3>2. ~Hid(n, parked) /\ pass.queue = {} BY <1>1, ReadyHas
    <3>3. pass.remote[n] = server[n]
      BY <1>1, <1>2, <2>2, <3>1, <3>2 DEF LossInv, PassLoss, RemoteTrue, Waits
    <3>4. row[n] = server[n] BY <1>1, <1>2, <3>3 DEF LossInv, PassLoss, PlanTrue
    <3>5. disk[n] = row[n] \/ row[n] \in Parted BY <1>2, <2>2, <3>4 DEF LossInv, DataLoss, RowParted
    <3> QED BY <1>4, <3>4, <3>5 DEF Parted
  <2>3. CASE server[n] = 0 BY <2>3
  <2> QED BY <2>1, <2>2, <2>3
<1> QED BY <1>1, <1>2, <1>3, <1>5, LossUploads

\* A download replaces what the pass had seen here, or what is on record.
LEMMA LossDownload == ASSUME TypeInv, TreeInv, LossInv, NEW n \in Nodes, Download(n) PROVE LossInv'
<1>1. Ready(n) /\ pass.plan[n] = "download" /\ server[n] # 0 BY DEF Download, Makes, Impossible
<1>2. n \in Files BY <1>1 DEF TreeInv, PlanFits
<1>3. PICK o : Downloads(n, o) /\ Keeps /\ o = {disk[n]} \cap late BY DEF Download
<1>4. dead' = dead \cup (o \ {0}) /\ bin' = bin BY <1>3 DEF Downloads
<1>5. disk[n] \in {0, server[n]} \cup Parted'
  <2>1. disk[n] \in {0, row[n]} \cup late BY <1>1, <1>2 DEF LossInv, PassLoss, PlanTrue
  <2>2. CASE disk[n] \in late BY <1>3, <1>4, <2>2 DEF Parted
  <2>3. CASE disk[n] = row[n] /\ row[n] # 0
    <3>1. server[n] = row[n] \/ row[n] \in Parted BY <1>1, <1>2, <2>3 DEF LossInv, DataLoss, RowParted
    <3> QED BY <1>4, <2>3, <3>1 DEF Parted
  <2> QED BY <2>1, <2>2, <2>3
<1> QED BY <1>1, <1>2, <1>3, <1>5, LossDownloads

\* A conflict: what is replaced is on record.
LEMMA LossSettle == ASSUME TypeInv, TreeInv, LossInv, NEW n \in Nodes, Settle(n) PROVE LossInv'
<1>1. Ready(n) /\ pass.plan[n] = "conflict" BY DEF Settle, Makes
<1>2. n \in Files BY <1>1 DEF TreeInv, PlanFits
<1>3. CASE Uploads(n, {server[n]}) /\ Keeps
  <2>1. server[n] \in {0, disk[n]} \cup Parted' BY <1>3 DEF Uploads, Parted
  <2> QED BY <1>1, <1>2, <1>3, <2>1, LossUploads
<1>4. CASE Downloads(n, {disk[n]}) /\ Keeps
  <2>1. disk[n] \in {0, server[n]} \cup Parted' BY <1>4 DEF Downloads, Parted
  <2> QED BY <1>1, <1>2, <1>4, <2>1, LossDownloads
<1> QED BY <1>3, <1>4 DEF Settle

\* A conflict of two equal files, or of none.
LEMMA LossAbsorb == ASSUME TypeInv, TreeInv, LossInv, NEW n \in Nodes, Absorb(n) PROVE LossInv'
<1>1. Ready(n) /\ pass.plan[n] = "conflict" BY DEF Absorb
<1>2. n \in Files /\ Files \subseteq Nodes BY <1>1 DEF TreeInv, PlanFits, Nodes
<1>3. UNCHANGED << server, disk, bin, dead, dirs, late, asked, hid, parked, written >>
  BY DEF Absorb, Keeps, world, fixed, files
<1>4. \A m \in Files : row'[m] = IF m = n THEN disk[n] ELSE row[m] BY DEF Absorb, TypeInv, RowsOK
<1>5. ActDid(n, {}, pass') BY <1>1, ActDoes DEF Absorb
<1>6. Parted' = Parted BY <1>3 DEF Parted
<1>7. \A c \in 1 .. written' : Held(c)' BY <1>3 DEF LossInv, DataLoss, Held, Parted
<1>8. Sized' BY <1>3, <1>4, LossNats DEF LossInv, DataLoss, Sized
<1>9. RowParted'
  <2>1. disk[n] # 0 => disk[n] = pass.remote[n] BY DEF Absorb, Identical
  <2>2. disk[n] # 0 /\ server[n] \notin {0, disk[n]} => disk[n] \in Parted
    BY <1>1, <1>2, <2>1 DEF LossInv, PassLoss, RemoteParted
  <2> QED BY <1>3, <1>4, <1>6, <2>2 DEF LossInv, DataLoss, RowParted
<1>10. AskedTrue' BY <1>3 DEF LossInv, DataLoss, AskedTrue
<1>11. PassLoss'
  <2>1. \A m \in Files : m # n => server'[m] \in {server[m], 0} BY <1>3
  <2>2. \A m \in Files : pass'.plan[m] \in {"upload", "download", "deleteRemote"} => row'[m] = row[m] /\ disk'[m] = disk[m]
    <3>1. pass'.plan[n] = "none" BY <1>2, <1>5 DEF ActDid
    <3> QED BY <1>3, <1>4, <3>1
  <2>3. \A f \in Folders : disk'[f] = 0 => disk[f] = 0 \/ (pass.plan[f] # "mkRemote" /\ pass.remote[f] = 0) BY <1>3
  <2>4. n \in Folders /\ disk'[n] = 0 /\ pass.remote[n] = 1 => n \in asked BY <1>2, LossNats
  <2>5. UNCHANGED << late, asked, parked, written >> /\ hid \subseteq hid' /\ Parted \subseteq Parted' BY <1>3, <1>6
  <2> QED BY <1>1, <1>2, <1>5, <2>1, <2>2, <2>3, <2>4, <2>5, LossPass
<1> QED BY <1>7, <1>8, <1>9, <1>10, <1>11 DEF LossInv, DataLoss

\* When a deletion is due, nothing beneath it is.
LEMMA ReadyBelow ==
  ASSUME TypeInv, NEW n \in Nodes, Ready(n), pass.plan[n] \in {"deleteLocal", "deleteRemote"}
  PROVE  /\ \A m \in Whole(n) \ {n} : pass.plan[m] = "none"
         /\ \A m \in Nodes : pass.plan[m] \in {"none", "deleteLocal", "deleteRemote"}
<1>1. \A m \in Nodes : pass.plan[m] \in Kinds BY DEF TypeInv, PassOK, Passes
<1>2. \A m \in Nodes : Phase[pass.plan[n]] <= Phase[pass.plan[m]] BY DEF Ready
<1>3. Phase[pass.plan[n]] = 5 BY DEF Phase
<1>4. \A m \in Nodes : pass.plan[m] \in {"none", "deleteLocal", "deleteRemote"}
  BY <1>1, <1>2, <1>3 DEF Phase, Kinds
<1>5. \A m \in Whole(n) \ {n} : m \in Nodes /\ pass.plan[m] \notin {"deleteLocal", "deleteRemote"} BY DEF Ready, Whole
<1> QED BY <1>4, <1>5

\* An action fails.
LEMMA LossFails == ASSUME TypeInv, TreeInv, LossInv, NEW n \in Nodes, Fails(n) PROVE LossInv'
<1>1. UNCHANGED << server, disk, bin, row, dead, asked, written, dirs, late, hid, parked >> /\ pass.at = "act"
      /\ pass' = [Did(n) EXCEPT !.problems = @ \cup {n}]
  BY DEF Fails, files, rows, world, fixed, seen, Ready
<1>2. /\ pass'.at = pass.at /\ pass'.queue = pass.queue /\ pass'.remote = pass.remote /\ pass'.problems = pass.problems \cup {n}
      /\ \A m \in Nodes : pass'.plan[m] = IF m = n THEN "none" ELSE pass.plan[m]
  BY <1>1, DidHas DEF Passes
<1>3. DataLoss' BY <1>1, DataSame DEF LossInv
<1>4. Parted' = Parted BY <1>1 DEF Parted
<1>5. \A m \in Files : pass'.plan[m] \in {"none", pass.plan[m]} BY <1>2 DEF Nodes
<1>6. RemoteParted' BY <1>1, <1>2, <1>4, <1>5 DEF LossInv, PassLoss, RemoteParted
<1>7. RemoteTrue' BY <1>1, <1>2, <1>5 DEF LossInv, PassLoss, RemoteTrue
<1>8. PlanTrue' BY <1>1, <1>2, <1>5 DEF LossInv, PassLoss, PlanTrue
<1>9. AskedPlan'
  <2>1. \A f \in Folders : f \notin pass'.problems => f # n /\ f \notin pass.problems BY <1>2
  <2>2. \A f \in Folders : pass'.plan[f] = IF f = n THEN "none" ELSE pass.plan[f] BY <1>2 DEF Nodes
  <2> QED BY <1>1, <1>2, <2>1, <2>2 DEF LossInv, PassLoss, AskedPlan
<1> QED BY <1>3, <1>6, <1>7, <1>8, <1>9 DEF LossInv, PassLoss

\* A folder is made here.
LEMMA LossMkLocal == ASSUME TypeInv, TreeInv, LossInv, NEW f \in Folders, MkLocal(f) PROVE LossInv'
<1>0. f \in Nodes /\ Files \subseteq Nodes /\ Folders \subseteq Nodes BY DEF Nodes
<1>1. UNCHANGED << server, bin, row, dead, late, asked, hid, parked, written >> /\ Ready(f)
  BY DEF MkLocal, Makes, world, fixed, seen
<1>2. /\ \A n \in Nodes : disk'[n] = IF n = f \/ n \in Above[f] THEN 1 ELSE disk[n]
      /\ \A g \in Folders : g # f => dirs'[g] = dirs[g]
  BY DEF MkLocal, TypeInv, RowsOK
<1>3. \A n \in Files : disk'[n] = disk[n] BY <1>0, <1>2, Kin, LossNats
<1>4. \A g \in Folders : disk'[g] = 0 => disk[g] = 0 /\ g # f BY <1>0, <1>2
<1>5. ActDid(f, {}, pass') BY <1>0, <1>1, ActDoes DEF MkLocal
<1>6. Parted' = Parted BY <1>1 DEF Parted
<1>7. \A c \in 1 .. written' : Held(c)' BY <1>1, <1>3, <1>6 DEF LossInv, DataLoss, Held
<1>8. Sized' BY <1>1, <1>3 DEF LossInv, DataLoss, Sized
<1>9. RowParted' BY <1>1, <1>3, <1>6 DEF LossInv, DataLoss, RowParted
<1>10. AskedTrue' BY <1>1, <1>2, <1>4 DEF LossInv, DataLoss, AskedTrue
<1>11. PassLoss'
  <2>1. \A m \in Files : m # f => server'[m] \in {server[m], 0} BY <1>1
  <2>2. \A m \in Files : pass'.plan[m] \in {"upload", "download", "deleteRemote"} => row'[m] = row[m] /\ disk'[m] = disk[m]
    BY <1>1, <1>3
  <2>3. \A g \in Folders : disk'[g] = 0 => disk[g] = 0 \/ (pass.plan[g] # "mkRemote" /\ pass.remote[g] = 0) BY <1>4
  <2>4. f \in Folders /\ disk'[f] = 0 /\ pass.remote[f] = 1 => f \in asked BY <1>4
  <2>5. UNCHANGED << late, asked, parked, written >> /\ hid \subseteq hid' /\ Parted \subseteq Parted' BY <1>1, <1>6
  <2> QED BY <1>0, <1>1, <1>5, <2>1, <2>2, <2>3, <2>4, <2>5, LossPass
<1> QED BY <1>7, <1>8, <1>9, <1>10, <1>11 DEF LossInv, DataLoss

\* A folder is made on the server, or found there.
LEMMA LossMkRemote == ASSUME TypeInv, TreeInv, LossInv, NEW f \in Folders, MkRemote(f) PROVE LossInv'
<1> DEFINE T == IF server[f] = 0 THEN Above[f] ELSE {}
           M == {g \in {f} : \E n \in Whole(f) \ {f} : Known(n) # 0}
<1>0. f \in Nodes /\ Files \subseteq Nodes /\ Folders \subseteq Nodes BY DEF Nodes
<1>1. UNCHANGED << disk, bin, row, dead, late, asked, parked, written >> /\ Ready(f) /\ pass.plan[f] = "mkRemote"
      /\ hid \subseteq hid' /\ dirs' = [Stale(T) EXCEPT ![f] = "fresh"] /\ server' = [server EXCEPT ![f] = 1]
      /\ pass' = [Did(f) EXCEPT !.now = @ \ T, !.made = @ \cup M]
  BY DEF MkRemote, Makes, world, fixed
<1>2. \A m \in Files : server'[m] = server[m] BY <1>0, <1>1, LossNats, OfSides DEF TypeInv, FilesOK
<1>3. \A g \in Folders : g # f => (dirs'[g] = "none" <=> dirs[g] = "none")
  <2> HIDE DEF T
  <2> QED BY <1>1, StaleType DEF TypeInv
<1>5. ActDid(f, T, pass')
  <2> HIDE DEF T, M
  <2> QED BY <1>0, <1>1, ActMakes
<1>6. Parted' = Parted BY <1>1 DEF Parted
<1>7. \A c \in 1 .. written' : Held(c)' BY <1>1, <1>2, <1>6 DEF LossInv, DataLoss, Held
<1>8. Sized' BY <1>1, <1>2 DEF LossInv, DataLoss, Sized
<1>9. RowParted' BY <1>1, <1>2, <1>6 DEF LossInv, DataLoss, RowParted
<1>10. AskedTrue'
  <2>1. disk[f] = 0 => f \in asked BY <1>1 DEF LossInv, PassLoss, AskedPlan
  <2> QED BY <1>1, <1>3, <2>1 DEF LossInv, DataLoss, AskedTrue
<1>11. PassLoss'
  <2>1. \A m \in Files : m # f => server'[m] \in {server[m], 0} BY <1>2
  <2>2. \A m \in Files : pass'.plan[m] \in {"upload", "download", "deleteRemote"} => row'[m] = row[m] /\ disk'[m] = disk[m]
    BY <1>1
  <2>3. \A g \in Folders : disk'[g] = 0 => disk[g] = 0 \/ (pass.plan[g] # "mkRemote" /\ pass.remote[g] = 0) BY <1>1
  <2>4. f \in Folders /\ disk'[f] = 0 /\ pass.remote[f] = 1 => f \in asked BY <1>0, <1>1 DEF TreeInv, PlanFits
  <2>5. UNCHANGED << late, asked, parked, written >> /\ hid \subseteq hid' /\ Parted \subseteq Parted' BY <1>1, <1>6
  <2> HIDE DEF T, M
  <2> QED BY <1>0, <1>1, <1>5, <2>1, <2>2, <2>3, <2>4, <2>5, LossPass
<1> QED BY <1>7, <1>8, <1>9, <1>10, <1>11 DEF LossInv, DataLoss

\* What is removed here is in the bin.
LEMMA LossDeleteLocal == ASSUME HasBin, TypeInv, TreeInv, LossInv, NEW n \in Nodes, DeleteLocal(n) PROVE LossInv'
<1>0. Files \subseteq Nodes /\ Folders \subseteq Nodes BY DEF Nodes
<1>1. UNCHANGED << server, dead, late, asked, hid, parked, written >> /\ Ready(n) /\ pass.plan[n] = "deleteLocal"
      /\ bin' = bin \cup Contents(disk, Whole(n)) /\ Drop(Whole(n)) /\ pass' = Hurt(n, Whole(n))
  BY DEF DeleteLocal, Makes, Keeps, world, fixed
<1>2. /\ \A m \in Nodes : disk'[m] = IF m \in Whole(n) THEN 0 ELSE disk[m]
      /\ \A m \in Files : row'[m] = IF m \in Whole(n) THEN 0 ELSE row[m]
      /\ \A f \in Folders : dirs'[f] = IF f \in Whole(n) THEN "none" ELSE dirs[f]
  BY <1>1 DEF DeleteLocal, Drop
<1>3. Parted \subseteq Parted' BY <1>1 DEF Parted
<1>4. \A m \in Files : disk'[m] = disk[m] \/ (m \in Whole(n) /\ disk'[m] = 0 /\ (disk[m] # 0 => disk[m] \in Parted'))
  BY <1>0, <1>1, <1>2, HasContent DEF Parted
<1>5. ActDid(n, {}, pass') BY <1>1, ActDoes
<1>6. \A c \in 1 .. written' : Held(c)'
  <2> SUFFICES ASSUME NEW c \in 1 .. written PROVE Held(c)' BY <1>1
  <2>1. Held(c) /\ c # 0 BY LossNats DEF LossInv, DataLoss
  <2> QED BY <1>1, <1>3, <1>4, <2>1 DEF Held
<1>7. Sized' BY <1>1, <1>2, <1>4, LossNats DEF LossInv, DataLoss, Sized
<1>8. RowParted' BY <1>1, <1>2, <1>3, <1>4 DEF LossInv, DataLoss, RowParted
<1>9. AskedTrue' BY <1>0, <1>1, <1>2 DEF LossInv, DataLoss, AskedTrue
<1>10. PassLoss'
  <2>0. \A m \in Whole(n) \ {n} : pass.plan[m] = "none" BY <1>1, ReadyBelow
  <2>1. \A m \in Files : m # n => server'[m] \in {server[m], 0} BY <1>1
  <2>2. \A m \in Files : pass'.plan[m] \in {"upload", "download", "deleteRemote"} => row'[m] = row[m] /\ disk'[m] = disk[m]
    <3>1. \A m \in Files : m \in Whole(n) => pass'.plan[m] = "none" BY <1>0, <1>5, <2>0 DEF ActDid
    <3> QED BY <1>0, <1>2, <3>1
  <2>3. \A f \in Folders : disk'[f] = 0 => disk[f] = 0 \/ (pass.plan[f] # "mkRemote" /\ pass.remote[f] = 0)
    <3> SUFFICES ASSUME NEW f \in Folders, f \in Whole(n) PROVE pass.plan[f] # "mkRemote" /\ pass.remote[f] = 0
      BY <1>0, <1>2
    <3>1. pass.plan[f] # "mkRemote" BY <1>1, <2>0
    <3>2. pass.remote[n] = 0 BY <1>1 DEF TreeInv, PlanFits
    <3>3. f = n \/ n \in Above[f] BY <1>0, InWhole
    <3>4. pass.remote[f] = 0
      BY <1>0, <3>2, <3>3 DEF TreeInv, ScanOK, Closed
    <3> QED BY <3>1, <3>4
  <2>4. n \in Folders /\ disk'[n] = 0 /\ pass.remote[n] = 1 => n \in asked BY <1>1 DEF TreeInv, PlanFits
  <2>5. UNCHANGED << late, asked, parked, written >> /\ hid \subseteq hid' BY <1>1
  <2> QED BY <1>1, <1>3, <1>5, <2>1, <2>2, <2>3, <2>4, <2>5, LossPass
<1> QED BY <1>6, <1>7, <1>8, <1>9, <1>10 DEF LossInv, DataLoss

\* What is removed on the server had been removed here, or is on record.
LEMMA LossDeleteRemote == ASSUME TypeInv, TreeInv, LossInv, NEW n \in Nodes, DeleteRemote(n) PROVE LossInv'
<1> DEFINE T == Above[n] \cup (Whole(n) \cap Folders)
<1>0. Files \subseteq Nodes /\ Folders \subseteq Nodes BY DEF Nodes
<1>1. UNCHANGED << disk, bin, late, asked, hid, parked, written >> /\ Ready(n) /\ pass.plan[n] = "deleteRemote"
      /\ pass' = [Did(n) EXCEPT !.now = @ \ T] /\ dead \subseteq dead'
      /\ (n \in asked \/ Hidden(n) => Contents(server, Whole(n)) \subseteq dead')
      /\ Contents(server, Whole(n)) \cap late \subseteq dead'
  BY DEF DeleteRemote, Makes, fixed
<1>2. /\ \A m \in Nodes : server'[m] = IF m \in Whole(n) THEN 0 ELSE server[m]
      /\ \A m \in Files : row'[m] = IF m \in Whole(n) THEN 0 ELSE row[m]
      /\ \A f \in Folders : dirs'[f] = IF f \in Whole(n) THEN "none" ELSE Stale(T)[f]
  BY DEF DeleteRemote
<1>3. Parted \subseteq Parted' BY <1>1 DEF Parted
<1>4. \A f \in Folders : dirs'[f] # "none" => dirs[f] # "none"
  <2> HIDE DEF T
  <2> QED BY <1>2, StaleType DEF TypeInv
<1>5. ActDid(n, T, pass')
  <2> HIDE DEF T
  <2> QED BY <1>1, ActDoes
<1>6. \A m \in Files : server'[m] = server[m] \/ (m \in Whole(n) /\ server'[m] = 0 /\ (server[m] # 0 => server[m] \in Parted'))
  <2> SUFFICES ASSUME NEW m \in Files, m \in Whole(n), server[m] # 0 PROVE server[m] \in Parted'
    BY <1>0, <1>2
  <2>1. server[m] \in Contents(server, Whole(n)) BY HasContent
  <2>2. CASE n \in asked \/ Hidden(n) \/ server[m] \in late BY <1>1, <2>1, <2>2 DEF Parted
  <2>3. CASE ~(n \in asked \/ Hidden(n) \/ server[m] \in late)
    <3>1. n \notin Folders BY <1>1, <2>3 DEF LossInv, PassLoss, AskedPlan
    <3>2. n \in Files BY <3>1 DEF Nodes
    <3>3. m = n BY <1>0, <3>2, FileKin, InWhole
    <3>4. ~Hid(n, hid) BY <2>3, <3>1 DEF Hid, Hidden, TypeInv, RestOK
    <3>5. ~Hid(n, parked) /\ pass.queue = {} BY <1>1, ReadyHas
    <3>6. pass.remote[n] = server[n]
      BY <1>1, <2>3, <3>2, <3>3, <3>4, <3>5 DEF LossInv, PassLoss, RemoteTrue, Waits
    <3>7. row[n] = server[n] /\ row[n] # 0 /\ disk[n] # row[n]
      BY <1>1, <3>2, <3>6 DEF LossInv, PassLoss, PlanTrue
    <3>8. row[n] \in Parted BY <3>2, <3>7 DEF LossInv, DataLoss, RowParted
    <3> QED BY <1>3, <3>3, <3>7, <3>8
  <2> QED BY <2>2, <2>3
<1>7. \A c \in 1 .. written' : Held(c)'
  <2> SUFFICES ASSUME NEW c \in 1 .. written PROVE Held(c)' BY <1>1
  <2>1. Held(c) /\ c # 0 BY LossNats DEF LossInv, DataLoss
  <2> QED BY <1>1, <1>3, <1>6, <2>1 DEF Held
<1>8. Sized' BY <1>1, <1>2, <1>6, LossNats DEF LossInv, DataLoss, Sized
<1>9. RowParted' BY <1>1, <1>2, <1>3, <1>6 DEF LossInv, DataLoss, RowParted
<1>10. AskedTrue' BY <1>1, <1>4 DEF LossInv, DataLoss, AskedTrue
<1>11. PassLoss'
  <2>0. \A m \in Whole(n) \ {n} : pass.plan[m] = "none" BY <1>1, ReadyBelow
  <2>1. \A m \in Files : m # n => server'[m] \in {server[m], 0} BY <1>6
  <2>2. \A m \in Files : pass'.plan[m] \in {"upload", "download", "deleteRemote"} => row'[m] = row[m] /\ disk'[m] = disk[m]
    <3>1. \A m \in Files : m \in Whole(n) => pass'.plan[m] = "none" BY <1>0, <1>5, <2>0 DEF ActDid
    <3> QED BY <1>0, <1>1, <1>2, <3>1
  <2>3. \A f \in Folders : disk'[f] = 0 => disk[f] = 0 \/ (pass.plan[f] # "mkRemote" /\ pass.remote[f] = 0) BY <1>1
  <2>4. n \in Folders /\ disk'[n] = 0 /\ pass.remote[n] = 1 => n \in asked BY <1>1 DEF LossInv, PassLoss, AskedPlan
  <2>5. UNCHANGED << late, asked, parked, written >> /\ hid \subseteq hid' BY <1>1
  <2> HIDE DEF T
  <2> QED BY <1>1, <1>3, <1>5, <2>1, <2>2, <2>3, <2>4, <2>5, LossPass
<1> QED BY <1>7, <1>8, <1>9, <1>10, <1>11 DEF LossInv, DataLoss

\* The pass is cancelled.
LEMMA LossCut == ASSUME TypeInv, TreeInv, LossInv, Cut PROVE LossInv'
<1> DEFINE p == [n \in Nodes |-> IF pass.plan[n] \in {"upload", "download"} THEN "none" ELSE pass.plan[n]]
<1>0. Files \subseteq Nodes /\ Folders \subseteq Nodes BY DEF Nodes
<1>1. UNCHANGED << server, disk, bin, row, dead, asked, written, dirs, late, parked >> /\ pass.at = "act"
      /\ hid \subseteq hid' /\ pass' = [pass EXCEPT !.cut = TRUE, !.plan = p]
  BY DEF Cut, files, rows, world, fixed
<1>2. pass'.at = pass.at /\ pass'.queue = pass.queue /\ pass'.remote = pass.remote /\ pass'.problems = pass.problems /\ pass'.plan = p
  <2> HIDE DEF p
  <2> QED BY <1>1 DEF TypeInv, PassOK, Passes
<1>3. DataLoss' BY <1>1, DataSame DEF LossInv
<1>4. Parted' = Parted BY <1>1 DEF Parted
<1>5. \A m \in Files : p[m] \in {"none", pass.plan[m]} BY <1>0
<1>6. \A f \in Folders : p[f] = pass.plan[f] BY <1>0, LossNats DEF TreeInv, PlanFits
<1> HIDE DEF p
<1>7. RemoteParted' BY <1>1, <1>2, <1>4, <1>5 DEF LossInv, PassLoss, RemoteParted
<1>8. RemoteTrue'
  <2> SUFFICES ASSUME NEW m \in Files, p[m] # "none", server[m] \notin late \cup {0}
               PROVE  pass.remote[m] = server[m] \/ Hid(m, hid') \/ Hid(m, parked) \/ Waits(pass.queue, m)
    BY <1>1, <1>2 DEF RemoteTrue
  <2>1. pass.remote[m] = server[m] \/ Hid(m, hid) \/ Hid(m, parked) \/ Waits(pass.queue, m)
    BY <1>5 DEF LossInv, PassLoss, RemoteTrue
  <2> QED BY <1>1, <2>1, HidMore
<1>9. PlanTrue' BY <1>1, <1>2, <1>5 DEF LossInv, PassLoss, PlanTrue
<1>10. AskedPlan' BY <1>1, <1>2, <1>6 DEF LossInv, PassLoss, AskedPlan
<1> QED BY <1>3, <1>7, <1>8, <1>9, <1>10 DEF LossInv, PassLoss

\* The pass ends, and the folders that are settled are stamped.
LEMMA LossEnds == ASSUME TypeInv, TreeInv, LossInv, Ends PROVE LossInv'
<1>1. UNCHANGED << server, disk, bin, row, dead, asked, written >> /\ pass' = Idle /\ pass.at = "act"
      /\ Stamp(pass.problems, IF pass.cut THEN {} ELSE Listed(pass.problems))
      /\ \A n \in Nodes : pass.plan[n] = "none"
  BY DEF Ends, files, fixed
<1>2. ASSUME NEW f \in Folders, dirs'[f] # "none" PROVE dirs[f] # "none" \/ disk[f] # 0 \/ f \in asked
  <2>1. CASE f \in Listed(pass.problems)
    <3>1. pass.remote[f] = 1 /\ f \notin pass.problems /\ pass.plan[f] = "none" BY <1>1, <2>1 DEF Listed, Nodes
    <3> QED BY <1>1, <3>1 DEF LossInv, PassLoss, AskedPlan
  <2>2. CASE f \notin Listed(pass.problems) BY <1>1, <1>2, <2>2 DEF Stamp
  <2> QED BY <2>1, <2>2
<1>3. DataLoss' BY <1>1, <1>2, DataSame DEF LossInv
<1> QED BY <1>1, <1>3, LossIdle

\* The contents at the start are the first writes, one for each file.
LEMMA FirstAll == \A c \in 1 .. Cardinality(Files) : \E f \in Files : First[f] = c
<1> DEFINE N == Cardinality(Files)
           I == 1 .. N
<1>1. N \in Nat /\ IsFiniteSet(Files) BY FilesCount
<1>2. First \in Injection(Files, I) BY FirstIs DEF Injection, IsInjective
<1>3. IsFiniteSet(I) /\ Cardinality(I) = N BY <1>1, FS_Interval
<1>4. First \in Surjection(Files, I)
  <2> HIDE DEF N, I
  <2>1. N = Cardinality(Files) BY DEF N
  <2> QED BY <1>2, <1>3, <2>1, FS_Injection
<1> QED BY <1>4 DEF Surjection

\* Every content is on the server at the start.
LEMMA LossInit == ASSUME Init PROVE LossInv
<1>1. /\ pass = Idle /\ written = Cardinality(Files) /\ bin = {} /\ dead = {}
      /\ \A n \in Files : server[n] = First[n] /\ row[n] = disk[n] /\ disk[n] \in {0, First[n]}
      /\ \A f \in Folders : dirs[f] # "none" => disk[f] = 1
  BY EmptySides, TreeAssumption DEF Init, NoListing, Nodes
<1>2. \A n \in Files : First[n] \in 1 .. written BY <1>1, FirstIs
<1>3. \A c \in 1 .. written : Held(c) BY <1>1, FirstAll DEF Held
<1>4. Sized BY <1>1, <1>2, FilesCount DEF Sized
<1>5. RowParted BY <1>1 DEF RowParted
<1>6. AskedTrue BY <1>1 DEF AskedTrue
<1>7. pass.at = "idle" /\ \A n \in Nodes : pass.plan[n] = "none" BY <1>1 DEF Idle, NoPlan
<1>8. PassLoss BY <1>7 DEF PassLoss, RemoteParted, RemoteTrue, PlanTrue, AskedPlan, Nodes
<1> QED BY <1>3, <1>4, <1>5, <1>6, <1>8 DEF LossInv, DataLoss

\* What people do keeps the invariant.
LEMMA LossPeople == ASSUME TypeInv, TreeInv, LossInv, People PROVE LossInv'
<1>1. ASSUME NEW f \in Files, Save(f) \/ TheirSave(f) PROVE LossInv' BY <1>1, LossSave, LossTheirSave
<1>2. ASSUME NEW n \in Nodes, Remove(n) \/ TheirRemove(n) PROVE LossInv' BY <1>2, LossRemove, LossTheirRemove
<1>3. ASSUME NEW d \in Folders, Unshare(d) \/ Resolve(d) PROVE LossInv' BY <1>3, LossUnshare, LossResolve
<1>4. CASE Leaves BY <1>4, LossSmall
<1> QED BY <1>1, <1>2, <1>3, <1>4 DEF People

\* So do the actions of a pass, if there is a bin,
LEMMA LossActs ==
  ASSUME HasBin, TypeInv, TreeInv, LossInv, NEW n \in Nodes,
         Fails(n) \/ Upload(n) \/ Download(n) \/ Absorb(n) \/ Settle(n) \/ DeleteLocal(n) \/ DeleteRemote(n)
  PROVE  LossInv'
BY LossFails, LossUpload, LossDownload, LossAbsorb, LossSettle, LossDeleteLocal, LossDeleteRemote

\* its other steps,
LEMMA LossSteps == ASSUME HasBin, TypeInv, TreeInv, LossInv, Steps PROVE LossInv'
<1>1. CASE PassBegins BY <1>1, LossBegins
<1>2. ASSUME NEW f \in Folders \cup {Root}, List(f) PROVE LossInv' BY <1>2, LossList
<1>3. CASE ScanFails BY <1>3, LossStops
<1>4. CASE Plan BY <1>4, LossPlan
<1>5. CASE Quiet BY <1>5, LossQuiet
<1>6. ASSUME NEW f \in Folders, MkLocal(f) \/ MkRemote(f) PROVE LossInv' BY <1>6, LossMkLocal, LossMkRemote
<1>7. CASE Ends BY <1>7, LossEnds
<1> QED BY <1>1, <1>2, <1>3, <1>4, <1>5, <1>6, <1>7, LossActs DEF Steps

\* and every step.
LEMMA LossNext == ASSUME HasBin, TypeInv, TreeInv, LossInv, [Next \/ Calms]_vars PROVE LossInv'
<1>1. CASE People BY <1>1, LossPeople
<1>2. CASE Steps BY <1>2, LossSteps
<1>3. CASE Cut BY <1>3, LossCut
<1>4. CASE Crash BY <1>4, LossStops
<1>5. CASE Approve \/ Returns \/ Calms \/ UNCHANGED vars BY <1>5, LossSmall
<1> QED BY <1>1, <1>2, <1>3, <1>4, <1>5 DEF Next

\* With a bin (trash) nothing anybody wrote is lost: each content is on a side or in the bin,
\* or was replaced or removed by who had seen it; and no pass removes from the server a file
\* that is still here as it was.
THEOREM NothingLostAlways == ASSUME HasBin PROVE LiveSpec => []NothingLost
<1>1. Init => IInv /\ LossInv BY IInvInit, LossInit
<1>2. (IInv /\ LossInv) /\ [Next \/ Calms]_vars => (IInv /\ LossInv)'
  <2> SUFFICES ASSUME IInv, LossInv, [Next \/ Calms]_vars PROVE IInv' /\ LossInv' OBVIOUS
  <2>1. IInv' BY IInvNext
  <2>2. LossInv' BY LossNext DEF IInv
  <2> QED BY <2>1, <2>2
<1>3. IInv /\ LossInv => NothingLost BY LossHolds DEF IInv
<1> QED BY <1>1, <1>2, <1>3, PTL DEF LiveSpec

=============================================================================
