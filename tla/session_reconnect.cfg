SPECIFICATION Spec
CONSTANTS
  a1 = a1  a2 = a2  A = A
  Sockets <- TabSockets
  Spares <- SpareTab
  Users <- AllUsers
  User <- TabOwners
  Lossy = FALSE
  Silences = FALSE
PROPERTY
  OnlyOthersSupersede
CHECK_DEADLOCK FALSE
