SPECIFICATION Spec
CONSTANTS
  ann = ann  bob = bob  cat = cat
  t1 = t1  t2 = t2
  Participants <- TwoPeople
  Tasks = {t1}
  Evictor = evictor
  MaxSeats = 2
  MeshThreshold = 1
  Ops <- FlowOps
  Serial = TRUE
  Failures = FALSE
  Silences = FALSE
  Resubscribe = TRUE
  MaxRouters = 2
  MaxPairs = 2
  MaxFlows = 2
SYMMETRY Symmetric
INVARIANT
  NoObjectLeak
CHECK_DEADLOCK FALSE
