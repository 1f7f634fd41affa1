SPECIFICATION LiveSpec
CONSTANTS
  u1 = u1  u2 = u2
  Uploaders = {u1, u2}
  Parts = 2
  Cases <- MCCases
  WritesMax = 2
  IdMax = 4
  StampMax = 5
  EtagMax = 6
INVARIANTS TypeOK Whole SyncedIsSame
PROPERTY Settles
