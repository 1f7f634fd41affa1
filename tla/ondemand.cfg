SPECIFICATION LiveSpec
CONSTANTS
  Keys = TRUE
  Sums = TRUE
  WritesMax = 2
  EtagMax = 5
  Cases <- MCCases
INVARIANTS TypeOK NothingLost EditsAreOwed MirrorIsTrue
PROPERTIES Settles
CHECK_DEADLOCK FALSE
