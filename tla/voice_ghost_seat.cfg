SPECIFICATION Spec
CONSTANTS
  a1 = a1  a2 = a2  b = b  c = c
  A = A  B = B  C = C
  Sockets <- PairSockets
  Users <- PairUsers
  User <- PairOwner
  Moderators <- NoModerator
  Threshold = 2
  MaxSeats = 2
  DropWhileJoining = TRUE
  LateReady = FALSE
INVARIANT
  NoGhostSeat
CHECK_DEADLOCK FALSE
