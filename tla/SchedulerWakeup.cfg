CONSTANTS
  Tags = {t1, t2, t3}
  SnapshotIds = {b1}
  RobSize = 3
  OoSlots = 3
  IoSlots = 1
  Ops <- WakeupOps
SPECIFICATION Spec
SYMMETRY Renaming
INVARIANTS
  NoLostWakeup
  ReadsFresh
