SPECIFICATION Spec
CONSTANTS
  ann = ann  bob = bob  cat = cat
  t1 = t1  t2 = t2
  Participants <- TwoPeople
  Tasks = {t1}
  Evictor = evictor
  MaxSeats = 2
  MeshThreshold = 1
  Ops <- AllOps
  Serial = TRUE
  Failures = TRUE
  Silences = TRUE
  Resubscribe = FALSE
  MaxRouters = 2
  MaxPairs = 2
  MaxFlows = 1
SYMMETRY Symmetric
INVARIANTS
  FlowsAreReal
PROPERTY
  ImplementsRoster
