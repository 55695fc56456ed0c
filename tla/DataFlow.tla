------------------------------ MODULE DataFlow ------------------------------
(***************************************************************************)
(* core/rtl/dataflow.py: the data flow manager.  It renames registers,     *)
(* hands out store queue and snapshot identifiers, knows which physical    *)
(* registers have been written, and brings all of that back to an earlier  *)
(* point when a branch was mispredicted (restore) or an instruction raised *)
(* an exception (rollback).                                                *)
(*                                                                         *)
(* One step is one clock cycle.  A method that takes arguments is modelled *)
(* by the set of its calls in the cycle, empty when it is not called.      *)
(* Register values are not modelled here, only the ready bits.             *)
(***************************************************************************)
EXTENDS Naturals

CONSTANTS NumAregs,     \* naregs
          NumPregs,     \* npregs, the zero tag included
          NumSnapshots, \* nsnapshots = MAX_SPEC_DEPTH
          NumStores     \* nstore_queue

ASSUME DataFlowAssumption ==
  /\ NumAregs \in Nat \ {0} /\ NumPregs \in Nat /\ NumPregs > NumAregs
  /\ NumSnapshots \in Nat \ {0} /\ NumStores \in Nat \ {0}

VARIABLES snaps_free, snaps_tracked,     \* snapshot_allocator
          regs_free, regs_tracked,       \* free_regs
          stores_free, stores_tracked,   \* store_ids
          rename_table, rename_copies,   \* rename_table
          areg_file,                     \* areg_file
          arch_used_pregs,               \* arch_used_pregs, as a set
          ready_table                    \* ready_table, as a set

dflow == <<snaps_free, snaps_tracked, regs_free, regs_tracked, stores_free,
           stores_tracked, rename_table, rename_copies, areg_file,
           arch_used_pregs, ready_table>>

Aregs       == 0 .. NumAregs - 1
AllocPregs  == 0 .. NumPregs - 2
SnapshotIds == 0 .. NumSnapshots - 1
StoreIds    == 0 .. NumStores - 1

Snaps == INSTANCE SnapshottingFreeList WITH
  NumSlots <- NumSnapshots, UsedInitially <- 0,
  free <- snaps_free, tracked <- snaps_tracked

(* The highest tag is reserved for x0.                                     *)
Regs == INSTANCE SnapshottingFreeList WITH
  NumSlots <- NumPregs - 1, UsedInitially <- NumAregs - 1,
  free <- regs_free, tracked <- regs_tracked

Stores == INSTANCE SnapshottingFreeList WITH
  NumSlots <- NumStores, UsedInitially <- 0,
  free <- stores_free, tracked <- stores_tracked

Rename == INSTANCE RenameTable WITH table <- rename_table, copies <- rename_copies

ZERO_TAG == Rename!ZERO_TAG

(* Reset marks the registers 0 .. naregs - 1 as used by the architecture,  *)
(* one more than initial_map uses.                                         *)
DFInit ==
  /\ Snaps!Init /\ Regs!Init /\ Stores!Init /\ Rename!Init
  /\ areg_file = Rename!InitialMap
  /\ arch_used_pregs = 0 .. NumAregs - 1
  /\ ready_table = 0 .. NumPregs - 1

------------------------------------------------------------------------------
(* The methods that answer.                                                *)
get_dst_rdy      == Regs!alloc_rdy
get_store_id_rdy == Stores!alloc_rdy
snapshot_rdy     == Snaps!alloc_rdy
snapshot_id      == Snaps!alloc_index
get_store_id     == Stores!alloc_index
get_src(areg)    == Rename!Lookup(areg)

get_dst_preg(areg) ==
  IF areg # 0 /\ Regs!alloc_rdy THEN Regs!alloc_index ELSE ZERO_TAG

(* handle_get_dst_allocate: what is written into the rename table.  x0     *)
(* needs no register.                                                      *)
NeedsWriteback(get_dst) ==
  {[areg |-> a, preg |-> get_dst_preg(a)] :
     a \in {b \in get_dst : b # 0 /\ Regs!alloc_rdy}}

(* is_commit_not_zero_tag                                                  *)
NotZeroTag(commit) == {c \in commit : c.tag # ZERO_TAG}

(* The registers a commit frees: those that backed its destination.        *)
FreedRegs(commit) == {areg_file[c.areg] : c \in commit}

(* areg_file and arch_used_pregs as their dump ports show them, that is    *)
(* after the writes of this cycle's commit.                                *)
AregFileDump(commit) ==
  [a \in Aregs |-> IF \E c \in commit : c.areg = a
                     THEN (CHOOSE c \in commit : c.areg = a).tag
                     ELSE areg_file[a]]

ArchUsedDump(commit) ==
  (arch_used_pregs \ FreedRegs(commit)) \cup {c.tag : c \in commit}

(* write marks a register ready, get_dst of the same cycle comes later.    *)
ReadyNext(write, get_dst) ==
  (ready_table \cup (write \ {ZERO_TAG})) \ {u.preg : u \in NeedsWriteback(get_dst)}

(* One cycle, given the record of its calls.  get_dst: architectural       *)
(* destinations; write: physical destinations written back; commit:        *)
(* records of a tag and an areg; free_store, free_snapshot and restore:    *)
(* identifiers; take_store, snapshot and rollback: is the method called.   *)
DFCycle(calls) ==
  LET update  == NeedsWriteback(calls.get_dst)
      retired == NotZeroTag(calls.commit)
      taken   == IF calls.snapshot THEN {snapshot_id} ELSE {}
      Set(state) == IF calls.rollback THEN {state} ELSE {}
  IN  /\ Snaps!Cycle(calls.snapshot, calls.free_snapshot, taken, calls.restore,
                     Set(SnapshotIds))
      /\ Regs!Cycle(update # {}, FreedRegs(retired), taken, calls.restore,
                    Set(AllocPregs \ ArchUsedDump(retired)))
      /\ Stores!Cycle(calls.take_store, calls.free_store, taken, calls.restore,
                      Set(StoreIds))
      /\ Rename!Cycle(update, taken, calls.restore, Set(AregFileDump(retired)))
      /\ areg_file' = AregFileDump(retired)
      /\ arch_used_pregs' = ArchUsedDump(retired)
      /\ ready_table' = ReadyNext(calls.write, calls.get_dst)

DFTypeOK ==
  /\ Snaps!TypeOK /\ Regs!TypeOK /\ Stores!TypeOK
  /\ rename_table \in [Aregs -> 0 .. NumPregs - 1]
  /\ rename_copies \in [SnapshotIds -> [Aregs -> 0 .. NumPregs - 1]]
  /\ areg_file \in [Aregs -> 0 .. NumPregs - 1]
  /\ arch_used_pregs \subseteq AllocPregs
  /\ ready_table \subseteq 0 .. NumPregs - 1
==============================================================================
