SPECIFICATION LiveSpec
CONSTANTS
  a = a  b = b
  Names = {a, b}
  Home = a
  ActsMax = 2
  FidMax = 5
  TriesMax = 1
INVARIANT NothingLost
PROPERTY Settles
CHECK_DEADLOCK FALSE
