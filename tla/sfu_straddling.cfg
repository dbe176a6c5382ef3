SPECIFICATION Spec
CONSTANTS
  ann = ann  bob = bob  cat = cat
  t1 = t1  t2 = t2
  Participants <- TwoPeople
  Tasks = {t1, t2}
  Evictor = evictor
  MaxSeats = 2
  MeshThreshold = 1
  Ops <- RosterOps
  Serial = FALSE
  Failures = FALSE
  Silences = FALSE
  Resubscribe = FALSE
  MaxRouters = 3
  MaxPairs = 3
  MaxFlows = 1
SYMMETRY Symmetric
INVARIANT
  NoStraddling
CHECK_DEADLOCK FALSE
