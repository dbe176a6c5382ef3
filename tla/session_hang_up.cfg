SPECIFICATION Spec
CONSTANTS
  a1 = a1  a2 = a2  A = A
  Sockets <- TabSockets
  Spares = {}
  Users <- AllUsers
  User <- TabOwners
  Lossy = FALSE
  Silences = FALSE
PROPERTY
  HangUpIsFinal
CHECK_DEADLOCK FALSE
