------------------------------- MODULE MCLane -------------------------------
(* Small instances of Lane for TLC. *)
EXTENDS Lane, TLC

CONSTANTS j1, j2, s1

\* Two files of one folder.
TwoPathOf == (j1 :> 1) @@ (j2 :> 2)
MCPaths  == {1, 2}
MCPairs  == {{1, 2}}
NoPairs  == {}
OneScope == {{1}}
=============================================================================
