SPECIFICATION Spec
CONSTANTS
  Clients = {c1, c2}
  Ids = {i1, i2}
  Runs = {r1, r2}
  Main = Main
  Nil = Nil
  Free = Free
  Capacity = 1
SYMMETRY Symmetry
INVARIANTS WithinCapacity NowReachesAll ExitLeavesNone
PROPERTIES NeverDisplaced
CHECK_DEADLOCK FALSE
