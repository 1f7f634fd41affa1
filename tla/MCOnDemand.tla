----------------------------- MODULE MCOnDemand -----------------------------
(* Small instances of OnDemand for TLC. *)
EXTENDS OnDemand

Case(w, n) == [what |-> w \cup {"open"}, max |-> n]
MCCases == {
  Case({"edit", "theirs", "touch", "held"}, 2),
  Case({"theirs", "jostle"}, 2),
  Case({"save", "theirs"}, 2),
  Case({"edit", "pause"}, 2),
  Case({"save", "theirs", "remove"}, 1),
  Case({"edit", "fail"}, 1),
  Case({"save", "overflow"}, 1),
  Case({"save", "edit", "crash", "flatten"}, 1),
  Case({"hold", "theirs", "pin", "unpin", "overflow", "fail"}, 1)}
=============================================================================
