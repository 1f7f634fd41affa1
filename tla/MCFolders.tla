----------------------------- MODULE MCFolders -----------------------------
(* A small instance of Folders for TLC. *)
EXTENDS Folders, TLC
CONSTANTS d1, d2, f, g, l1, l2, l3, k1, k2
\* No action names a local folder or a watcher goroutine.
Alike == {p @@ q @@ r : p \in Permutations({d1, d2}), q \in Permutations({l1, l2}), r \in Permutations({k1, k2})}
=============================================================================
