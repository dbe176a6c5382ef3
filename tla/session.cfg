SPECIFICATION FairSpec
CONSTANTS
  a1 = a1  a2 = a2  A = A
  Sockets <- TabSockets
  Spares <- SpareTab
  Users <- AllUsers
  User <- TabOwners
  Lossy = TRUE
  Silences = TRUE
INVARIANTS
  SessionSound
PROPERTY
  GhostsAreEvicted
CHECK_DEADLOCK FALSE
