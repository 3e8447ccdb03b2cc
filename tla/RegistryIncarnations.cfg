SPECIFICATION Spec
CONSTANTS
  Ids = {i1}
  Clients = {c1, c2}
  Ptys = {p1, p2, p3}
  Nil = Nil
  Main = Main
  Free = Free
  Closed = Closed
  Methods = {"forget", "now"}
  MaxRunning = 2
  QueueDepth = 1
  MaxSignals = 1
SYMMETRY Symmetry
INVARIANTS IInv OnePtyPerId
CHECK_DEADLOCK FALSE
