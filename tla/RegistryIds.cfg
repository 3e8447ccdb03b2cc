SPECIFICATION Spec
CONSTANTS
  Ids = {i1, i2}
  Clients = {c1, c2}
  Ptys = {p1, p2}
  Nil = Nil
  Main = Main
  Free = Free
  Closed = Closed
  Methods = {"forget", "now"}
  MaxRunning = 1
  QueueDepth = 1
  MaxSignals = 2
SYMMETRY Symmetry
INVARIANTS NoOrphan LeavesNothingRunning RunningLimit
PROPERTIES DrainKeepsRunning
CHECK_DEADLOCK FALSE
