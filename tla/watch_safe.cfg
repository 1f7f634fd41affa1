SPECIFICATION Spec
CONSTANTS
  p1 = p1  p2 = p2
  Paths = {p1}
  Busy = {p1}
  Happens = {"edit", "overflow", "user", "rules", "restart"}
  EventsMax = 1
  FailMax = 1
  Base = 1
  Hour = 4
  Width = 5
INVARIANTS TypeOK ChangesAreOwed AskedIsTried
