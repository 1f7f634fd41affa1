SPECIFICATION FairSpec
CONSTANTS
  p1 = p1  p2 = p2
  Paths = {p1}
  Busy = {}
  Happens = {"edit", "pause", "server"}
  EventsMax = 1
  FailMax = 1
  Base = 1
  Hour = 4
  Width = 5
PROPERTIES EveryChangeArrives FailedIsRetried
