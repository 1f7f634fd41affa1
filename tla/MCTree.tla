------------------------------- MODULE MCTree -------------------------------
(* A small tree for TLC: folder d with file x and folder e, which has file y. *)
EXTENDS Tree
CONSTANTS d, e, x, y, r

MCParent == [n \in {d, e, x, y} |-> IF n = d THEN r ELSE IF n = y THEN e ELSE d]
MCAbove  == [n \in {d, e, x, y} |-> IF n = d THEN {} ELSE IF n = y THEN {d, e} ELSE {d}]

Do(n, what, s, f) == [what |-> what, max |-> n, shared |-> s, full |-> f]
MCCases == {
  Do(2, {"save", "remove", "theirs", "theirRemove", "fail", "crash", "cut"}, {}, TRUE),
  Do(2, {"save", "theirs", "crash"}, {}, FALSE),
  Do(1, {"save", "remove", "theirs", "fail", "cut"}, {}, FALSE),
  Do(2, {"save", "theirs", "theirRemove", "unshare", "resolve", "crash"}, {d}, TRUE),
  Do(2, {"save", "remove", "theirRemove", "unshare", "resolve", "fail", "cut"}, {e}, TRUE),
  Do(2, {"theirs", "unshare", "resolve"}, {e}, TRUE),
  Do(2, {"save", "theirRemove", "away", "crash"}, {}, TRUE),
  Do(3, {"save", "remove", "theirRemove"}, {}, TRUE)
}
=============================================================================
