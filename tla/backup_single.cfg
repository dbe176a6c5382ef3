SPECIFICATION FairSpec
CONSTANTS
  j1 = j1  j2 = j2
  f1 = f1  f2 = f2  f3 = f3
  r1 = r1  r2 = r2  r3 = r3
  Jobs = {j1}
  Files = {f1, f2}
  Rows = {r1, r2}
  Ops <- AllOps
  Slow = FALSE
  LateWrites = FALSE
  MaxWrites = 3
  MaxCrashes = 1
INVARIANTS
  GateCoversWork
  NoOrphanArchive
PROPERTIES
  NoLostWrite
  InstanceRecovers
