---------------------------- MODULE RenameTable ----------------------------
(***************************************************************************)
(* core/rtl/renametable.py over util/rtl/snapshotting_registerfile.py: the *)
(* map from architectural to physical registers, with a copy per snapshot. *)
(* As in SnapshottingFreeList, a method not called in the cycle has the    *)
(* empty set as its argument.                                              *)
(***************************************************************************)
EXTENDS Naturals

CONSTANTS NumAregs, NumPregs, NumSnapshots

VARIABLES table,  \* rename_table.regs
          copies  \* rename_table.snapshots

Aregs       == 0 .. NumAregs - 1
Pregs       == 0 .. NumPregs - 1
SnapshotIds == 0 .. NumSnapshots - 1

(* The highest physical register stands for x0 and is never allocated.     *)
ZERO_TAG == NumPregs - 1

(* initial_map: xn starts in physical register n - 1.                      *)
InitialMap == [a \in Aregs |-> IF a = 0 THEN 0 ELSE a - 1]

Init == /\ table = InitialMap
        /\ copies = [i \in SnapshotIds |-> [a \in Aregs |-> 0]]

(* lookup: x0 always reads as the zero tag.                                *)
Lookup(areg) == IF areg = 0 THEN ZERO_TAG ELSE table[areg]

(* Plausible slips, kept to measure the properties against.                *)
CopyBeforeWrite(update, snapshot) ==
  [i \in SnapshotIds |-> IF i \in snapshot THEN table ELSE copies[i]]

(* after_write: x0 is never written.                                       *)
Written(update) == [a \in Aregs |->
  IF a # 0 /\ \E u \in update : u.areg = a
    THEN (CHOOSE u \in update : u.areg = a).preg ELSE table[a]]

(* handle_snapshot_save: a snapshot sees this cycle's write.               *)
CopiesNext(update, snapshot) ==
  [i \in SnapshotIds |-> IF i \in snapshot THEN Written(update) ELSE copies[i]]

(* A set overrides a restore, a restore overrides the write, and a restore *)
(* of the snapshot being taken does nothing.                               *)
TableNext(update, snapshot, restore, set) ==
  IF set # {} THEN CHOOSE t \in set : TRUE
  ELSE IF restore \ snapshot # {} THEN copies[CHOOSE i \in restore : TRUE]
  ELSE Written(update)

Cycle(update, snapshot, restore, set) ==
  /\ table'  = TableNext(update, snapshot, restore, set)
  /\ copies' = CopiesNext(update, snapshot)
=============================================================================
