SPECIFICATION FairSpec
CONSTANTS
  j1 = j1  j2 = j2  s1 = s1
  Jobs = {j1, j2}
  Paths <- MCPaths
  PathOf <- TwoPathOf
  Pairs <- NoPairs
  Scopes <- OneScope
  Asked = {}
  Untils = {TRUE}
  Workers = 1
  PrefsMax = 1
  Stoppers = {s1}
PROPERTIES LivesAsPromised NobodyWaits QueueDrains TimedComesBack
