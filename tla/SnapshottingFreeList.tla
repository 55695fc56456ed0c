------------------------ MODULE SnapshottingFreeList ------------------------
(***************************************************************************)
(* util/rtl/snapshotting_freelist.py over util/rtl/freelist.py: a list of  *)
(* free slots that remembers, for each snapshot, which slots were handed   *)
(* out since that snapshot was taken, so that a mispredicted branch can    *)
(* give all of them back at once.  Bit vectors are sets of indices.  One   *)
(* step is one clock cycle; the calls of the cycle are the arguments of    *)
(* Cycle, and a method that is not called has the empty set as argument.   *)
(***************************************************************************)
EXTENDS Naturals

CONSTANTS NumSlots,      \* nslots
          NumSnapshots,  \* nsnapshots
          UsedInitially  \* used_slots_initial

VARIABLES free,    \* free_vector: the slots that are free
          tracked  \* snapshots: per snapshot, the slots handed out since then

vars == <<free, tracked>>

Slots       == 0 .. NumSlots - 1
SnapshotIds == 0 .. NumSnapshots - 1

(* The priority decoder: the lowest free slot.                             *)
Lowest(slots) == CHOOSE s \in slots : \A t \in slots : s <= t

alloc_rdy   == free # {}
alloc_index == Lowest(free)

Allocated(alloc) == IF alloc THEN {alloc_index} ELSE {}

Init == /\ free = UsedInitially .. NumSlots - 1
        /\ tracked = [i \in SnapshotIds |-> {}]

(* What a snapshot holds in the middle of the cycle: the register file is  *)
(* dumped after this cycle's allocation has been written into it.          *)
Dump(i, alloc) == tracked[i] \cup Allocated(alloc)

(* Plausible slips, kept to measure the properties against.                *)
TrackOnlyOwn(alloc, reset) ==
  [i \in SnapshotIds |-> IF i \in reset THEN {} ELSE tracked[i]]

FreeNextRevertWins(alloc, freed, reset, revert, set) ==
  IF set # {} THEN UNION set
  ELSE IF revert # {} THEN free \cup UNION {tracked[i] : i \in revert}
  ELSE (free \ Allocated(alloc)) \cup freed

(* handle_revert_alloc: the slots handed out since the snapshot, unless    *)
(* its tracking is being reset in this very cycle.                         *)
Release(alloc, reset, revert) == UNION {Dump(i, alloc) : i \in revert \ reset}

(* The order within the cycle is alloc, then release and free, then set.   *)
FreeNext(alloc, freed, reset, revert, set) ==
  IF set = {} THEN (free \ Allocated(alloc)) \cup Release(alloc, reset, revert) \cup freed
  ELSE UNION set

(* Every allocation is recorded in every snapshot; the snapshot being      *)
(* taken starts out empty.                                                 *)
TrackedNext(alloc, reset) ==
  [i \in SnapshotIds |-> IF i \in reset THEN {} ELSE Dump(i, alloc)]

(* alloc: is alloc called; freed: the indices of the free calls; reset and *)
(* revert: the targets of reset_alloc_tracking and revert_allocs; set: the *)
(* state written by the set call.                                          *)
Cycle(alloc, freed, reset, revert, set) ==
  /\ free'    = FreeNext(alloc, freed, reset, revert, set)
  /\ tracked' = TrackedNext(alloc, reset)

TypeOK == /\ free \subseteq Slots
          /\ tracked \in [SnapshotIds -> SUBSET Slots]
==============================================================================
