SPECIFICATION FairSpec
CONSTANTS
  Conns = {c1}
  Sessions = {s1, s2}
  QueueDepth = 1
  MaxChunks = 2
INVARIANTS  NothingLost 
PROPERTIES PublisherNeverWaits 
CHECK_DEADLOCK FALSE
