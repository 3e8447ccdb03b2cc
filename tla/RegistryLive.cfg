SPECIFICATION FairSpec
CONSTANTS
  Ids = {i1}
  Clients = {c1, c2}
  Ptys = {p1}
  Nil = Nil
  Main = Main
  Free = Free
  Closed = Closed
  Methods = {"forget", "write", "kill", "drain"}
  MaxRunning = 1
  QueueDepth = 1
  MaxSignals = 1
PROPERTIES  ShutdownCompletes
CHECK_DEADLOCK FALSE
