SPECIFICATION Spec
CONSTANTS
  Daemons = {1, 2, 3}
  Nobody = Nobody
  Empty = Empty
  Overlap = TRUE
  MaxCleans = 0
INVARIANT CredentialsStay
CHECK_DEADLOCK FALSE
