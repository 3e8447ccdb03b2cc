SPECIFICATION FairSpec
CONSTANTS
  Lengths = {1, 2}
  LogMax = 3
  PageMin = 2
  PageMax = 3
  Depth = 2
  Written <- WrittenHere
  MaxConnects = 2
INVARIANTS TypeOK PagesAreHonest AnswersMoveOn NoGap ExitIsLast
PROPERTIES CatchesUp
CHECK_DEADLOCK FALSE
