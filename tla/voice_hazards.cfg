SPECIFICATION FairSpec
CONSTANTS
  a1 = a1  a2 = a2  b = b  c = c
  A = A  B = B  C = C
  Sockets <- TabSockets
  Users <- TabUsers
  User <- TabOwner
  Moderators <- TabModerators
  Threshold = 2
  MaxSeats = 2
  DropWhileJoining = TRUE
  LateReady = TRUE
INVARIANTS
  RoomSound
PROPERTY
  SwitchResolves
CHECK_DEADLOCK FALSE
