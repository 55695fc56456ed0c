CONSTANTS
  Accesses = {{1}, {0, 1}}
  AddressSpace = 8
  max_size = 4
  Values = {v1, v2}
  StoreIds = {s1}
  SnapshotIds = {b1}
  Seqs = {q1, q2, q3}
  Delays = {0}
  Kinds = {"load", "store", "branch", "trap"}
SYMMETRY Renaming
SPECIFICATION Spec
INVARIANTS
  TablesHoldOwn
  LoadsReadProgramOrder
