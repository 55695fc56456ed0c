--------------------------- MODULE MCMemorySystem ---------------------------
(* Instances of MemorySystem.                                              *)
EXTENDS MemorySystem, TLC

Renaming ==
  Permutations(StoreIds) \cup Permutations(Seqs) \cup Permutations(Values)
    \cup Permutations(SnapshotIds)
=============================================================================
