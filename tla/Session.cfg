SPECIFICATION FairSpec
CONSTANTS
  Resizers = {r1}
  Sizes = {wide, tall}
  InitialSize = wide
  WindowChars = 2
  PendingMaxChars = 1
  PendingMaxOps = 1
  MaxOutput = 3
  MaxResizes = 1
INVARIANT TypeOK
INVARIANT SnapshotFaithful
INVARIANT JournalContiguous
 
PROPERTY ImplementsStream
PROPERTY SessionEnds
 
CHECK_DEADLOCK FALSE
