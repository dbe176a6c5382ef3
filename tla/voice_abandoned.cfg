SPECIFICATION SteadySpec
CONSTANTS
  a = a  b = b  c = c  d = d
  Sockets <- Tabs
  Users <- Tabs
  User <- OwnTab
  Moderators <- Moderator
  Threshold = 2
  MaxSeats = 3
  DropWhileJoining = FALSE
  LateReady = FALSE
  Pages <- TwoPages
  MaxMoves = 4
  Aborts = TRUE
  SfuFails = FALSE
  Hasty = FALSE
CHECK_DEADLOCK FALSE
INVARIANT
  AbandonLeavesMesh
