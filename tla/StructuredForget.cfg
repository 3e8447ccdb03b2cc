SPECIFICATION Spec
CONSTANTS
  Clients = {c1, c2}
  Ids = {i1}
  Runs = {r1, r2}
  Main = Main
  Nil = Nil
  Free = Free
  Capacity = 1
PROPERTIES InterruptedBeforeReleased
CHECK_DEADLOCK FALSE
