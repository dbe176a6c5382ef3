SPECIFICATION SteadySpec
CONSTANTS
  a = a  b = b  c = c  d = d
  Sockets <- Tabs
  Users <- Tabs
  User <- OwnTab
  Moderators <- Moderator
  Threshold = 2
  MaxSeats = 3
  DropWhileJoining = FALSE
  LateReady = FALSE
  Pages <- ThreePages
  MaxMoves = 4
  Aborts = FALSE
  SfuFails = FALSE
  Hasty = FALSE
SYMMETRY Symmetric
INVARIANTS
  SeatsMatchRoom
  ModeFitsRoom
  CallsAreWhole
PROPERTIES
  CommitNeedsEveryone
  NobodyIsCut
CHECK_DEADLOCK FALSE
