SPECIFICATION Spec
CONSTANTS
  Scripts <- SomeScripts
  WindowChars = 4
  MaxSequence = 7
  Meta = 2
  EscWidth = 3
INVARIANTS DecodedWhole MarkerStripped  AutowrapTracked ListIsBounded
CHECK_DEADLOCK FALSE
