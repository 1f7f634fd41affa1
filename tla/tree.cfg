SPECIFICATION LiveSpec
CONSTANTS
  d = d  e = e  x = x  y = y  r = r
  Folders = {d, e}
  Files = {x, y}
  Root = r
  Parent <- MCParent
  Above <- MCAbove
  Cases <- MCCases
  ActsMax = 4
  Floor = 3
  Pct = 50
  HasBin = TRUE
INVARIANTS TypeOK TakenOverIsTrue NothingLost MuchIsApproved CopyStays
PROPERTY Converges
