CONSTANTS
  Accesses = {{0}}
  AddressSpace = 8
  max_size = 4
  Values = {v1}
  StoreIds = {s1, s2}
  SnapshotIds = {b1}
  Seqs = {q1, q2}
  Delays = {0, 2}
  Kinds = {"load", "store", "fence", "branch"}
SPECIFICATION FairSpec
INVARIANTS
  AnswersHaveOwners
PROPERTIES
  FenceDrains
  HeadLeaves
