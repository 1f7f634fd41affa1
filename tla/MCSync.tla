------------------------------- MODULE MCSync -------------------------------
EXTENDS Sync
CONSTANTS a, b, k, m

NoScopes == {}
\* What the watcher reports at once.
Batches  == {Paths}
\* Choices multiply the states: without ETag changes and renames where the user is asked.
AskStill == [p \in Policies |-> IF p = "ask" THEN 0 ELSE 1]
Still    == [p \in Policies |-> 0]
=============================================================================
