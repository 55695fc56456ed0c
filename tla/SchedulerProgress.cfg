CONSTANTS
  Tags = {t1, t2}
  SnapshotIds = {b1}
  RobSize = 3
  OoSlots = 1
  IoSlots = 2
  Ops <- ProgressOps
SPECIFICATION FairSpec
INVARIANTS
  MemoryOrder
  EachPartOnce
PROPERTIES
  HeadLeaves
