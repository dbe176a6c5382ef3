SPECIFICATION Spec
CONSTANTS
  a1 = a1  a2 = a2  A = A
  Sockets <- TabSockets
  Spares = {}
  Users <- AllUsers
  User <- TabOwners
  Lossy = FALSE
  Silences = TRUE
PROPERTY
  SupersededClientStops
CHECK_DEADLOCK FALSE
