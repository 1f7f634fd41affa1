SPECIFICATION Spec
CONSTANTS
  j1 = j1  j2 = j2  s1 = s1
  Jobs = {j1, j2}
  Paths <- MCPaths
  PathOf <- TwoPathOf
  Pairs <- MCPairs
  Scopes <- OneScope
  Asked <- OneScope
  Untils = {TRUE, FALSE}
  Workers = 1
  PrefsMax = 1
  Stoppers = {s1}
INVARIANTS OnePlace WorkersBusy StopTookTheRest StaysOut
