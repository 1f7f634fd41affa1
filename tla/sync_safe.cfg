SPECIFICATION Spec
CONSTANTS
  a = a  b = b  k = k  m = m
  Paths = {a}
  Copies = {k}
  Scopes <- Batches
  Policies = {"auto", "ask", "newest"}
  Sums = {TRUE, FALSE}
  HasBin = TRUE
  Omits = FALSE
  Happens = {"edit", "remove", "theirs", "theirRemove", "lock", "fail"}
  WritesMax = 2
  MovesMax <- AskStill
  EtagMax = 8
  IdMax = 6
INVARIANTS TypeOK NothingLost SyncedIsEqual
