SPECIFICATION FairSpec
CONSTANTS
  Clients = {c1, c2}
  Ids = {i1}
  Runs = {r1}
  Main = Main
  Nil = Nil
  Free = Free
  Capacity = 1
PROPERTIES ShutdownCompletes
CHECK_DEADLOCK FALSE
