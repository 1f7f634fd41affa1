SPECIFICATION LiveSpec
CONSTANTS
  a = a  b = b  k = k  m = m
  Paths = {a, b}
  Copies = {k, m}
  Scopes <- NoScopes
  Policies = {"auto", "newest"}
  Sums = {TRUE}
  HasBin = FALSE
  Omits = TRUE
  Happens = {"edit", "remove", "rename", "theirs", "theirRemove", "theirRename", "lock"}
  WritesMax = 2
  MovesMax <- AskStill
  EtagMax = 8
  IdMax = 6
PROPERTY Converges
