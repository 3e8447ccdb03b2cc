SPECIFICATION FairSpec
CONSTANTS
  Daemons = {1, 2, 3}
  Nobody = Nobody
  Empty = Empty
  Overlap = FALSE
  MaxCleans = 2
INVARIANTS OneOwner CredentialsMatch
PROPERTIES OnlyTheCleanerUnlinks RecoversSocket
CHECK_DEADLOCK FALSE
