---------------------------- MODULE BackendProofs ----------------------------
(* Proofs about Backend, for every size of the machine and every set of    *)
(* instructions.                                                           *)
EXTENDS Backend, WellFoundedInduction, TLAPS

SeqP == INSTANCE SequenceAllocatorProofs WITH NumEntries <- RobSize

------------------------------------------------------------------------------
(****************************************************************************)
(* The data flow manager: a clock cycle keeps the types, whichever methods *)
(* are called in it, as long as they are called when ready.                *)
(****************************************************************************)

(* A set of naturals that is not empty has a least element: no induction   *)
(* principle is needed but that < is well founded.                         *)
LEMMA LowestExists ==
  ASSUME NEW S, S \subseteq Nat, S # {}
  PROVE  \E s \in S : \A t \in S : s <= t
<1> DEFINE R == {ss \in Nat \X Nat : ss[1] < ss[2]}
<1>1. IsWellFoundedOn(R, Nat)
  BY NatLessThanWellFounded DEF OpToRel
<1> HIDE DEF R
<1>2. PICK s \in S : \A t \in S : ~(<<t, s>> \in R)
  BY <1>1, WFMin
<1>3. ASSUME NEW t \in S PROVE s <= t
  <2>1. s \in Nat /\ t \in Nat /\ <<t, s>> \notin R
    BY <1>2
  <2> QED
    BY <2>1 DEF R
<1> QED
  BY <1>3

(* The priority decoder answers with a member of the vector it is given.   *)
LEMMA LowestIsMember ==
  ASSUME NEW S, S \subseteq Nat, S # {}
  PROVE  (CHOOSE s \in S : \A t \in S : s <= t) \in S
  BY LowestExists

(* The architectural registers are never renamed to the zero tag, so that  *)
(* what a commit frees is always a register that can be handed out again.  *)
DFInv == DFTypeOK /\ areg_file \in [Aregs -> AllocPregs]

(* The calls the rest of the back end may make in a cycle.                 *)
CallsOK(calls) ==
  /\ calls.get_dst \subseteq Aregs
  /\ calls.take_store \in BOOLEAN /\ (calls.take_store => get_store_id_rdy)
  /\ calls.write \subseteq 0 .. NumPregs - 1
  /\ calls.commit \subseteq [tag : 0 .. NumPregs - 1, areg : Aregs]
  /\ calls.free_store \subseteq StoreIds
  /\ calls.snapshot \in BOOLEAN /\ (calls.snapshot => snapshot_rdy)
  /\ calls.free_snapshot \subseteq SnapshotIds
  /\ calls.restore \subseteq SnapshotIds
  /\ calls.rollback \in BOOLEAN

(* A cycle of a free list keeps the types, if it is only asked for a slot  *)
(* when it has one: the list of snapshots, that of registers and that of   *)
(* stores.                                                                 *)
LEMMA SnapsCycle ==
  ASSUME Snaps!TypeOK,
         NEW alloc \in BOOLEAN, NEW freed, NEW reset, NEW revert, NEW set,
         alloc => snapshot_rdy, freed \subseteq SnapshotIds,
         revert \subseteq SnapshotIds, set \subseteq SUBSET SnapshotIds,
         Snaps!Cycle(alloc, freed, reset, revert, set)
  PROVE  Snaps!TypeOK'
<1>1. Snaps!Slots = SnapshotIds /\ SnapshotIds \subseteq Nat /\ Snaps!SnapshotIds = SnapshotIds
  BY DataFlowAssumption DEF Snaps!Slots, Snaps!SnapshotIds, SnapshotIds
<1>2. snaps_free \subseteq SnapshotIds /\ snaps_tracked \in [SnapshotIds -> SUBSET SnapshotIds]
  BY <1>1 DEF Snaps!TypeOK
<1>3. Snaps!Allocated(alloc) \subseteq SnapshotIds
  <2>1. alloc => snaps_free # {}
    BY DEF snapshot_rdy, Snaps!alloc_rdy
  <2> QED
    BY <1>1, <1>2, <2>1, LowestIsMember DEF Snaps!Allocated, Snaps!alloc_index, Snaps!Lowest
<1>4. \A i \in SnapshotIds : Snaps!Dump(i, alloc) \subseteq SnapshotIds
  BY <1>2, <1>3 DEF Snaps!Dump
<1>5. snaps_free' \subseteq SnapshotIds
  <2>1. Snaps!Release(alloc, reset, revert) \subseteq SnapshotIds
    BY <1>4 DEF Snaps!Release
  <2> QED
    BY <1>2, <2>1 DEF Snaps!Cycle, Snaps!FreeNext
<1>6. snaps_tracked' \in [SnapshotIds -> SUBSET SnapshotIds]
  BY <1>1, <1>4 DEF Snaps!Cycle, Snaps!TrackedNext
<1> QED
  BY <1>1, <1>5, <1>6 DEF Snaps!TypeOK

LEMMA RegsCycle ==
  ASSUME Regs!TypeOK,
         NEW alloc \in BOOLEAN, NEW freed, NEW reset, NEW revert, NEW set,
         alloc => Regs!alloc_rdy, freed \subseteq AllocPregs,
         revert \subseteq SnapshotIds, set \subseteq SUBSET AllocPregs,
         Regs!Cycle(alloc, freed, reset, revert, set)
  PROVE  Regs!TypeOK'
<1>1. Regs!Slots = AllocPregs /\ AllocPregs \subseteq Nat /\ Regs!SnapshotIds = SnapshotIds
  BY DataFlowAssumption DEF Regs!Slots, AllocPregs, Regs!SnapshotIds, SnapshotIds
<1>2. regs_free \subseteq AllocPregs /\ regs_tracked \in [SnapshotIds -> SUBSET AllocPregs]
  BY <1>1 DEF Regs!TypeOK
<1>3. Regs!Allocated(alloc) \subseteq AllocPregs
  <2>1. alloc => regs_free # {}
    BY DEF Regs!alloc_rdy
  <2> QED
    BY <1>1, <1>2, <2>1, LowestIsMember DEF Regs!Allocated, Regs!alloc_index, Regs!Lowest
<1>4. \A i \in SnapshotIds : Regs!Dump(i, alloc) \subseteq AllocPregs
  BY <1>2, <1>3 DEF Regs!Dump
<1>5. regs_free' \subseteq AllocPregs
  <2>1. Regs!Release(alloc, reset, revert) \subseteq AllocPregs
    BY <1>4 DEF Regs!Release
  <2> QED
    BY <1>2, <2>1 DEF Regs!Cycle, Regs!FreeNext
<1>6. regs_tracked' \in [SnapshotIds -> SUBSET AllocPregs]
  BY <1>1, <1>4 DEF Regs!Cycle, Regs!TrackedNext
<1> QED
  BY <1>1, <1>5, <1>6 DEF Regs!TypeOK

LEMMA StoresCycle ==
  ASSUME Stores!TypeOK,
         NEW alloc \in BOOLEAN, NEW freed, NEW reset, NEW revert, NEW set,
         alloc => get_store_id_rdy, freed \subseteq StoreIds,
         revert \subseteq SnapshotIds, set \subseteq SUBSET StoreIds,
         Stores!Cycle(alloc, freed, reset, revert, set)
  PROVE  Stores!TypeOK'
<1>1. Stores!Slots = StoreIds /\ StoreIds \subseteq Nat /\ Stores!SnapshotIds = SnapshotIds
  BY DataFlowAssumption DEF Stores!Slots, StoreIds, Stores!SnapshotIds, SnapshotIds
<1>2. stores_free \subseteq StoreIds /\ stores_tracked \in [SnapshotIds -> SUBSET StoreIds]
  BY <1>1 DEF Stores!TypeOK
<1>3. Stores!Allocated(alloc) \subseteq StoreIds
  <2>1. alloc => stores_free # {}
    BY DEF get_store_id_rdy, Stores!alloc_rdy
  <2> QED
    BY <1>1, <1>2, <2>1, LowestIsMember DEF Stores!Allocated, Stores!alloc_index, Stores!Lowest
<1>4. \A i \in SnapshotIds : Stores!Dump(i, alloc) \subseteq StoreIds
  BY <1>2, <1>3 DEF Stores!Dump
<1>5. stores_free' \subseteq StoreIds
  <2>1. Stores!Release(alloc, reset, revert) \subseteq StoreIds
    BY <1>4 DEF Stores!Release
  <2> QED
    BY <1>2, <2>1 DEF Stores!Cycle, Stores!FreeNext
<1>6. stores_tracked' \in [SnapshotIds -> SUBSET StoreIds]
  BY <1>1, <1>4 DEF Stores!Cycle, Stores!TrackedNext
<1> QED
  BY <1>1, <1>5, <1>6 DEF Stores!TypeOK

(* What the lists answer when they are ready is one of their slots.        *)
LEMMA Answers ==
  ASSUME DFTypeOK
  PROVE  /\ snapshot_rdy => snapshot_id \in SnapshotIds /\ snapshot_id \in snaps_free
         /\ get_store_id_rdy => get_store_id \in StoreIds /\ get_store_id \in stores_free
         /\ \A a \in Aregs : get_dst_preg(a) \in 0 .. NumPregs - 1
         /\ Regs!alloc_rdy => Regs!alloc_index \in AllocPregs /\ Regs!alloc_index \in regs_free
<1> USE DataFlowAssumption DEF DFTypeOK
<1>1. snapshot_rdy => snapshot_id \in SnapshotIds /\ snapshot_id \in snaps_free
  <2>1. snaps_free \subseteq SnapshotIds /\ SnapshotIds \subseteq Nat
    BY DEF Snaps!TypeOK, Snaps!Slots, SnapshotIds
  <2> QED
    BY <2>1, LowestIsMember
    DEF snapshot_rdy, snapshot_id, Snaps!alloc_rdy, Snaps!alloc_index, Snaps!Lowest
<1>2. get_store_id_rdy => get_store_id \in StoreIds /\ get_store_id \in stores_free
  <2>1. stores_free \subseteq StoreIds /\ StoreIds \subseteq Nat
    BY DEF Stores!TypeOK, Stores!Slots, StoreIds
  <2> QED
    BY <2>1, LowestIsMember
    DEF get_store_id_rdy, get_store_id, Stores!alloc_rdy, Stores!alloc_index,
        Stores!Lowest
<1>3. Regs!alloc_rdy => Regs!alloc_index \in AllocPregs /\ Regs!alloc_index \in regs_free
  <2>1. regs_free \subseteq AllocPregs /\ AllocPregs \subseteq Nat
    BY DEF Regs!TypeOK, Regs!Slots, AllocPregs
  <2> QED
    BY <2>1, LowestIsMember
    DEF Regs!alloc_rdy, Regs!alloc_index, Regs!Lowest
<1>4. \A a \in Aregs : get_dst_preg(a) \in 0 .. NumPregs - 1
  BY <1>3 DEF get_dst_preg, AllocPregs, ZERO_TAG, Rename!ZERO_TAG
<1> QED
  BY <1>1, <1>2, <1>3, <1>4

LEMMA InitDFInv == DFInit => DFInv
<1> SUFFICES ASSUME DFInit PROVE DFInv
  OBVIOUS
<1> USE DataFlowAssumption DEF DFInit
<1>1. Snaps!TypeOK /\ Stores!TypeOK
  BY DEF Snaps!TypeOK, Snaps!Init, Snaps!Slots, Stores!TypeOK, Stores!Init, Stores!Slots
<1>2. Regs!TypeOK
  BY DEF Regs!TypeOK, Regs!Init, Regs!Slots
<1>3. Rename!InitialMap \in [Aregs -> AllocPregs]
  BY DEF Rename!InitialMap, Rename!Aregs, Aregs, AllocPregs
<1>4. AllocPregs \subseteq 0 .. NumPregs - 1
  BY DEF AllocPregs
<1>5. /\ rename_table \in [Aregs -> 0 .. NumPregs - 1]
      /\ areg_file \in [Aregs -> 0 .. NumPregs - 1]
      /\ areg_file \in [Aregs -> AllocPregs]
  BY <1>3, <1>4 DEF Rename!Init
<1>6. rename_copies \in [SnapshotIds -> [Aregs -> 0 .. NumPregs - 1]]
  BY DEF Rename!Init, Rename!SnapshotIds, Rename!Aregs, SnapshotIds, Aregs
<1>7. arch_used_pregs \subseteq AllocPregs /\ ready_table \subseteq 0 .. NumPregs - 1
  BY DEF AllocPregs
<1> QED
  BY <1>1, <1>2, <1>5, <1>6, <1>7 DEF DFInv, DFTypeOK

(* One cycle of calls made when ready keeps the types.                     *)
LEMMA CycleDFInv ==
  ASSUME DFInv, NEW calls, CallsOK(calls), DFCycle(calls)
  PROVE  DFInv'
<1> DEFINE update  == NeedsWriteback(calls.get_dst)
           retired == NotZeroTag(calls.commit)
           taken   == IF calls.snapshot THEN {snapshot_id} ELSE {}
           Set(state) == IF calls.rollback THEN {state} ELSE {}
           Pregs   == 0 .. NumPregs - 1
<1>1. DFTypeOK /\ areg_file \in [Aregs -> AllocPregs] /\ AllocPregs \subseteq Pregs
  BY DataFlowAssumption DEF DFInv, AllocPregs
<1>2. retired \subseteq [tag : AllocPregs, areg : Aregs]
  BY DataFlowAssumption DEF CallsOK, NotZeroTag, ZERO_TAG, Rename!ZERO_TAG, AllocPregs
<1>3. AregFileDump(retired) \in [Aregs -> AllocPregs]
  <2>1. \A a \in Aregs : (\E c \in retired : c.areg = a) =>
          (CHOOSE c \in retired : c.areg = a).tag \in AllocPregs
    BY <1>2
  <2> HIDE DEF retired
  <2> QED
    BY <1>1, <2>1 DEF AregFileDump
<1>4. FreedRegs(retired) \subseteq AllocPregs
  BY <1>1, <1>2 DEF FreedRegs
<1>5. \A u \in update : u.preg \in AllocPregs
  BY <1>1, Answers DEF NeedsWriteback, get_dst_preg, CallsOK
<1>6. /\ Snaps!Cycle(calls.snapshot, calls.free_snapshot, taken, calls.restore,
                     Set(SnapshotIds))
      /\ Regs!Cycle(update # {}, FreedRegs(retired), taken, calls.restore,
                    Set(AllocPregs \ ArchUsedDump(retired)))
      /\ Stores!Cycle(calls.take_store, calls.free_store, taken, calls.restore,
                      Set(StoreIds))
      /\ Rename!Cycle(update, taken, calls.restore, Set(AregFileDump(retired)))
      /\ areg_file' = AregFileDump(retired)
      /\ arch_used_pregs' = ArchUsedDump(retired)
      /\ ready_table' = ReadyNext(calls.write, calls.get_dst)
  BY DEF DFCycle
<1>7. Snaps!TypeOK'
  <2>1. Set(SnapshotIds) \subseteq SUBSET SnapshotIds
    OBVIOUS
  <2> QED
    BY <1>1, <1>6, <2>1, SnapsCycle DEF CallsOK, DFTypeOK
<1>8. Regs!TypeOK'
  <2>1. Set(AllocPregs \ ArchUsedDump(retired)) \subseteq SUBSET AllocPregs
    OBVIOUS
  <2>2. update # {} => Regs!alloc_rdy
    BY DEF NeedsWriteback
  <2>3. calls.restore \subseteq SnapshotIds /\ Regs!TypeOK
    BY <1>1 DEF CallsOK, DFTypeOK
  <2> HIDE DEF update, retired, taken, Set
  <2> QED
    BY <1>4, <1>6, <2>1, <2>2, <2>3, RegsCycle
<1>9. Stores!TypeOK'
  <2>1. Set(StoreIds) \subseteq SUBSET StoreIds
    OBVIOUS
  <2> QED
    BY <1>1, <1>6, <2>1, StoresCycle DEF CallsOK, DFTypeOK
<1>10. Rename!Written(update) \in [Aregs -> Pregs]
  <2>1. \A a \in Aregs : (\E u \in update : u.areg = a) =>
          (CHOOSE u \in update : u.areg = a).preg \in Pregs
    BY <1>1, <1>5
  <2> HIDE DEF update
  <2> QED
    BY <1>1, <2>1 DEF Rename!Written, Rename!Aregs, Aregs, DFTypeOK
<1>11. rename_table' \in [Aregs -> Pregs]
  <2>1. rename_table' = Rename!TableNext(update, taken, calls.restore,
                                         Set(AregFileDump(retired)))
    BY <1>6 DEF Rename!Cycle
  <2>2. AregFileDump(retired) \in [Aregs -> Pregs]
    BY <1>1, <1>3
  <2>3. calls.restore # {} => rename_copies[CHOOSE i \in calls.restore : TRUE] \in [Aregs -> Pregs]
    BY <1>1 DEF CallsOK, DFTypeOK
  <2> HIDE DEF update, retired
  <2> QED
    BY <1>10, <2>1, <2>2, <2>3 DEF Rename!TableNext
<1>12. rename_copies' \in [SnapshotIds -> [Aregs -> Pregs]]
  <2>1. rename_copies' = Rename!CopiesNext(update, taken)
    BY <1>6 DEF Rename!Cycle
  <2> QED
    BY <1>1, <1>10, <2>1 DEF Rename!CopiesNext, Rename!SnapshotIds, SnapshotIds, DFTypeOK
<1>13. areg_file' \in [Aregs -> AllocPregs] /\ areg_file' \in [Aregs -> Pregs]
  BY <1>1, <1>3, <1>6
<1>14. arch_used_pregs' \subseteq AllocPregs
  BY <1>1, <1>2, <1>6 DEF ArchUsedDump, DFTypeOK
<1>15. ready_table' \subseteq Pregs
  BY <1>1, <1>6 DEF ReadyNext, CallsOK, DFTypeOK
<1> QED
  BY <1>7, <1>8, <1>9, <1>11, <1>12, <1>13, <1>14, <1>15 DEF DFInv, DFTypeOK

------------------------------------------------------------------------------
(****************************************************************************)
(* The back end.                                                           *)
(****************************************************************************)

(* What an instruction in the pipe looks like: one that speculates has a   *)
(* snapshot, one that has a destination register names one.                *)
InPipe ==
  [seq : Seq!SeqIdx, mask : SUBSET SnapshotIds, spec : SUBSET SnapshotIds,
   src : SUBSET (0 .. NumPregs - 1), rd : SUBSET (0 .. NumPregs - 1),
   store_id : SUBSET StoreIds, instr : Instrs,
   loc : {"waiting", "resolved", "written", "rob"}, status : Statuses]

Formed(i) ==
  /\ i \in InPipe
  /\ i.instr.speculative => i.spec # {}
  /\ i.rd # {} => i.instr.dst # {}

(* TypeOK is not inductive alone: the count of the allocator stays in      *)
(* range because it agrees with the two pointers, a freed register is one  *)
(* that can be freed because the architectural map never holds the zero    *)
(* tag, and a branch names the snapshot it settles.                        *)
IInv ==
  /\ DFInv
  /\ CFTypeOK /\ Seq!CountAgrees
  /\ \A i \in pipe : Formed(i)

LEMMA IInvTypeOK == IInv => TypeOK
  BY DEF IInv, TypeOK, DFInv, Formed, InPipe

------------------------------------------------------------------------------
(* The control flow manager.                                               *)
RegisterCallType ==
  [speculative : BOOLEAN, store : BOOLEAN, serialize : BOOLEAN, pc_succ : Pcs]

RedirectCallType ==
  [seq : Seq!SeqIdx, spec_idx : SnapshotIds, branch_mask : SUBSET SnapshotIds,
   target : Pcs, force : {FALSE}]

LEMMA SeqCycle ==
  ASSUME Seq!AllocTypeOK, Seq!CountAgrees,
         NEW allocate \in BOOLEAN, NEW free \in BOOLEAN, NEW rollback \in BOOLEAN,
         NEW idx \in Seq!SeqIdx,
         allocate => Seq!allocate_rdy, free => Seq!free_rdy,
         Seq!AllocCycle(allocate, free, rollback, idx)
  PROVE  Seq!AllocTypeOK' /\ Seq!CountAgrees'
<1> USE DEF Seq!SeqIdx, SeqP!SeqIdx
<1>1. SeqP!IInv
  BY DEF SeqP!IInv, SeqP!AllocTypeOK, SeqP!CountAgrees, SeqP!Distance,
         Seq!AllocTypeOK, Seq!CountAgrees, Seq!Distance
<1>2. SeqP!AllocCycle(allocate, free, rollback, idx)
  BY DEF SeqP!AllocCycle, SeqP!TailNext, SeqP!HeadNext, SeqP!NumNext, SeqP!Inc, SeqP!Distance,
         Seq!AllocCycle, Seq!TailNext, Seq!HeadNext, Seq!NumNext, Seq!Inc, Seq!Distance
<1>3. (allocate => SeqP!allocate_rdy) /\ (free => SeqP!free_rdy)
  BY DEF SeqP!allocate_rdy, SeqP!free_rdy, Seq!allocate_rdy, Seq!free_rdy
<1>4. SeqP!IInv'
  BY <1>1, <1>2, <1>3, SeqP!CycleIInv, ControlFlowAssumption
<1> QED
  BY <1>4 DEF SeqP!IInv, SeqP!AllocTypeOK, SeqP!CountAgrees, SeqP!Distance,
              Seq!AllocTypeOK, Seq!CountAgrees, Seq!Distance

(* One cycle of the control flow manager keeps its types, given calls of   *)
(* their types and a commit only when there is something to commit.        *)
LEMMA CycleCF ==
  ASSUME DFTypeOK, CFTypeOK, Seq!CountAgrees,
         NEW register, NEW redirect, NEW commit,
         register \subseteq RegisterCallType, redirect \subseteq RedirectCallType,
         commit # {} => Seq!free_rdy,
         CFCycle(register, redirect, commit)
  PROVE  CFTypeOK' /\ Seq!CountAgrees'
<1> DEFINE rollback == BranchRedirect(redirect) # {} \/ CommitRedirect(commit) # {}
           idx == IF rollback THEN RollbackIdx(redirect, commit) ELSE head
<1>1. idx \in Seq!SeqIdx
  <2>1. head \in Seq!SeqIdx
    BY DEF CFTypeOK, Seq!AllocTypeOK
  <2>2. ASSUME BranchRedirect(redirect) # {}
        PROVE  (CHOOSE s \in {r.seq : r \in redirect} : TRUE) \in Seq!SeqIdx
    <3>1. {r.seq : r \in redirect} # {} /\ {r.seq : r \in redirect} \subseteq Seq!SeqIdx
      BY <2>2 DEF BranchRedirect, RedirectCallType
    <3> QED
      BY <3>1
  <2> QED
    BY <2>1, <2>2 DEF RollbackIdx
<1>2. Seq!AllocTypeOK' /\ Seq!CountAgrees'
  <2>1. Seq!AllocCycle(Registered(register) # {}, commit # {}, rollback, idx)
    BY DEF CFCycle
  <2>2. Registered(register) # {} => Seq!allocate_rdy
    BY DEF Registered, RegisterSuccess
  <2>3. Seq!AllocTypeOK
    BY DEF CFTypeOK
  <2> HIDE DEF rollback, idx
  <2>4. rollback \in BOOLEAN
    BY DEF rollback
  <2> QED
    BY <1>1, <2>1, <2>2, <2>3, <2>4, SeqCycle
<1>3. pc_pred' \in [SnapshotIds -> Pcs]
  <2>1. Registered(register) # {} => (CHOOSE r \in register : TRUE).pc_succ \in Pcs
    BY DEF Registered, RegisterCallType
  <2> QED
    BY <2>1 DEF CFCycle, CFTypeOK
<1>4. KillMask(redirect) \subseteq SnapshotIds /\ ClearMask(redirect) \subseteq SnapshotIds
  BY DEF KillMask, ClearMask, BranchRedirect, RedirectCallType
<1>5. kill_pend' \in BOOLEAN /\ reset_redirect' \in BOOLEAN
  BY DEF CFCycle
<1>6. kill' \in [force : BOOLEAN, kill_mask : SUBSET SnapshotIds,
                 clear_mask : SUBSET SnapshotIds]
  BY <1>4 DEF CFCycle, CFTypeOK, KillNext
<1>7. bmask' \subseteq SnapshotIds
  <2>1. \A r \in Registered(register) : r.speculative => snapshot_id \in SnapshotIds
    BY Answers DEF Registered, RegisterSuccess
  <2> QED
    BY <2>1 DEF CFCycle, CFTypeOK, BmaskNext, BmaskCurr
<1>8. serial' \in BOOLEAN
  BY DEF CFCycle, CFTypeOK, SerialNext
<1> QED
  BY <1>2, <1>3, <1>5, <1>6, <1>7, <1>8 DEF CFTypeOK

------------------------------------------------------------------------------
(* The stages show well-formed instructions, and so do the calls they make.*)
LEMMA KeptFormed == IInv => \A i \in Kept : Formed(i)
<1> SUFFICES ASSUME IInv, NEW j \in pipe
             PROVE  Formed([j EXCEPT !.mask = @ \ kill.clear_mask])
  BY DEF Kept
<1>1. j \in InPipe /\ Formed(j)
  BY DEF IInv, Formed
<1> QED
  BY <1>1 DEF Formed, InPipe

LEMMA RedirectsTyped ==
  ASSUME IInv, NEW resolved \in Resolutions(Kept)
  PROVE  /\ RedirectCalls(resolved) \subseteq RedirectCallType
         /\ UNION {r.instr.spec : r \in resolved} \subseteq SnapshotIds
<1>1. \A r \in resolved : /\ Formed(r.instr) /\ r.target \in Pcs
                          /\ r.instr.instr.speculative
  BY KeptFormed DEF Resolutions, Optional, Resolvable
<1>2. \A r \in resolved : (CHOOSE s \in r.instr.spec : TRUE) \in SnapshotIds
  BY <1>1 DEF Formed, InPipe
<1>3. RedirectCalls(resolved) \subseteq RedirectCallType
  <2> SUFFICES ASSUME NEW r \in resolved
               PROVE  [seq |-> r.instr.seq, spec_idx |-> CHOOSE s \in r.instr.spec : TRUE,
                       branch_mask |-> r.instr.mask, target |-> r.target, force |-> FALSE]
                        \in RedirectCallType
    BY DEF RedirectCalls
  <2>1. r.instr.seq \in Seq!SeqIdx /\ r.instr.mask \in SUBSET SnapshotIds /\ r.target \in Pcs
    BY <1>1 DEF Formed, InPipe
  <2> QED
    BY <1>2, <2>1 DEF RedirectCallType
<1>4. UNION {r.instr.spec : r \in resolved} \subseteq SnapshotIds
  BY <1>1 DEF Formed, InPipe
<1> QED
  BY <1>3, <1>4

LEMMA OffersTyped ==
  ASSUME NEW resolved, NEW committed, NEW offered \in Offers(resolved, committed)
  PROVE  /\ RegisterCalls(offered) \subseteq RegisterCallType
         /\ \A o \in offered : o.instr \in Instrs /\ RegisterCall(o.instr)
         /\ \A o, p \in offered : o = p
<1>1. \A o \in offered : o \in [instr : {d \in Instrs : RegisterCall(d)}, pc_succ : Pcs]
  BY DEF Offers, Optional
<1>2. \A o, p \in offered : o = p
  BY DEF Offers, Optional
<1>3. RegisterCalls(offered) \subseteq RegisterCallType
  BY <1>1, InstrsAssumption DEF RegisterCalls, RegisterCallType
<1> QED
  BY <1>1, <1>2, <1>3

(* What rename accepts it can have: a snapshot and a store identifier are  *)
(* there if they are needed.                                               *)
LEMMA AcceptedReady ==
  ASSUME NEW offered, \A o, p \in offered : o = p,
         Registered(RegisterCalls(offered)) # {}
  PROVE  \A o \in offered : /\ o.instr.speculative => snapshot_rdy
                            /\ o.instr.store => get_store_id_rdy
  BY DEF Registered, RegisterSuccess, RegisterCalls

LEMMA RenamedFormed ==
  ASSUME IInv, NEW d \in Instrs, NEW redirect,
         d.speculative => snapshot_rdy, d.store => get_store_id_rdy
  PROVE  Formed(Renamed(d, redirect))
<1>1. d \in [src : SUBSET Aregs, dst : SUBSET Aregs, speculative : BOOLEAN,
             store : BOOLEAN, serialize : BOOLEAN, results : SUBSET Statuses]
  BY InstrsAssumption
<1>2. DFTypeOK /\ CFTypeOK
  BY DEF IInv, DFInv
<1>3. BmaskCurr(redirect) \subseteq SnapshotIds /\ tail \in Seq!SeqIdx
  BY <1>2 DEF BmaskCurr, CFTypeOK, Seq!AllocTypeOK
<1>4. (IF d.speculative THEN {snapshot_id} ELSE {}) \subseteq SnapshotIds
  BY <1>2, Answers
<1>5. (IF d.store THEN {get_store_id} ELSE {}) \subseteq StoreIds
  BY <1>2, Answers
<1>6. {get_dst_preg(a) : a \in d.dst} \subseteq 0 .. NumPregs - 1
  BY <1>1, <1>2, Answers
<1>7. {get_src(a) : a \in d.src} \subseteq 0 .. NumPregs - 1
  BY <1>1, <1>2, DataFlowAssumption
  DEF get_src, Rename!Lookup, Rename!ZERO_TAG, DFTypeOK
<1>8. "waiting" \in {"waiting", "resolved", "written", "rob"} /\ "valid" \in Statuses
  BY DEF Statuses
<1> QED
  BY <1>1, <1>3, <1>4, <1>5, <1>6, <1>7, <1>8 DEF Renamed, Formed, InPipe

LEMMA MovedFormed ==
  ASSUME NEW i, Formed(i), NEW resolved, NEW finished \in Finishes(Kept)
  PROVE  Formed(Moved(i, resolved, finished))
<1>1. \A f \in finished : f.status \in Statuses
  BY DEF Finishes, Optional
<1>2. finished # {} => (CHOOSE f \in finished : TRUE).status \in Statuses
  BY <1>1
<1> DEFINE st == (CHOOSE f \in finished : TRUE).status
<1> HIDE DEF st
<1>3. i \in InPipe
  BY DEF Formed
<1>4. Formed([i EXCEPT !.loc = "resolved"])
  BY <1>3 DEF Formed, InPipe
<1>5. finished # {} => Formed([i EXCEPT !.loc = "written", !.status = st])
  BY <1>2, <1>3 DEF Formed, InPipe, st
<1>6. Formed([i EXCEPT !.loc = "rob"])
  BY <1>3 DEF Formed, InPipe
<1> QED
  BY <1>4, <1>5, <1>6 DEF Moved, st

(* The calls made of the data flow manager are of the kinds it expects.    *)
LEMMA CycleCallsOK ==
  ASSUME IInv, NEW resolved \in Resolutions(Kept), NEW finished \in Finishes(Kept),
         NEW committed \in Commits(Kept), NEW offered \in Offers(resolved, committed)
  PROVE  CallsOK(DataFlowCalls(Accepted(offered), resolved, finished, committed))
<1> DEFINE accepted == Accepted(offered)
           settled  == UNION {r.instr.spec : r \in resolved}
<1>1. accepted \subseteq Instrs
  BY OffersTyped DEF Accepted
<1>2. \A d \in accepted : /\ d.speculative => snapshot_rdy
                          /\ d.store => get_store_id_rdy
  BY OffersTyped, AcceptedReady DEF Accepted
<1>3. UNION {d.dst : d \in accepted} \subseteq Aregs
  BY <1>1, InstrsAssumption
<1>4. \A f \in finished : Formed(f.instr)
  BY KeptFormed DEF Finishes, Optional, Finishable
<1>5. Written(finished) \subseteq 0 .. NumPregs - 1
  BY <1>4 DEF Written, Formed, InPipe
<1>6. \A i \in committed : Formed(i)
  BY KeptFormed DEF Commits, HeadDone
<1>7. RetiredDsts(committed) \subseteq [tag : 0 .. NumPregs - 1, areg : Aregs]
  <2> DEFINE retiring == {j \in committed : j.status # "exception" /\ j.rd # {}}
             dst(i) == [tag  |-> CHOOSE t \in i.rd : TRUE,
                        areg |-> CHOOSE a \in i.instr.dst : TRUE]
  <2>1. ASSUME NEW i \in retiring
        PROVE  dst(i) \in [tag : 0 .. NumPregs - 1, areg : Aregs]
    <3>1. i.rd # {} /\ i.rd \subseteq 0 .. NumPregs - 1 /\ i.instr \in Instrs
            /\ i.instr.dst # {}
      BY <1>6 DEF Formed, InPipe
    <3>2. i.instr.dst \subseteq Aregs
      BY <3>1, InstrsAssumption
    <3> QED
      BY <3>1, <3>2
  <2>2. RetiredDsts(committed) = {dst(i) : i \in retiring}
    BY DEF RetiredDsts
  <2> HIDE DEF dst, retiring
  <2> QED
    BY <2>1, <2>2
<1>8. RetiredStores(committed) \subseteq StoreIds
  BY <1>6 DEF RetiredStores, Formed, InPipe
<1>9. settled \subseteq SnapshotIds
  BY RedirectsTyped
<1> HIDE DEF accepted, settled
<1> QED
  BY <1>2, <1>3, <1>5, <1>7, <1>8, <1>9 DEF CallsOK, DataFlowCalls, accepted, settled

(* Every cycle keeps the invariant.                                        *)
LEMMA CycleIInv ==
  ASSUME IInv, NEW resolved \in Resolutions(Kept), NEW finished \in Finishes(Kept),
         NEW committed \in Commits(Kept), NEW offered \in Offers(resolved, committed),
         Cycle(Kept, offered, resolved, finished, committed)
  PROVE  IInv'
<1> DEFINE register == RegisterCalls(offered)
           redirect == RedirectCalls(resolved)
           commit   == CommitCalls(committed)
           accepted == Accepted(offered)
<1>1. /\ CFCycle(register, redirect, commit)
      /\ DFCycle(DataFlowCalls(accepted, resolved, finished, committed))
      /\ pipe' = {Moved(i, resolved, finished) : i \in Kept \ committed}
                   \cup {Renamed(d, redirect) : d \in accepted}
  BY DEF Cycle
<1>2. DFInv'
  BY <1>1, CycleCallsOK, CycleDFInv DEF IInv
<1>3. CFTypeOK' /\ Seq!CountAgrees'
  <2>1. commit # {} => Seq!free_rdy
    BY DEF CommitCalls, Commits, HeadDone
  <2>2. register \subseteq RegisterCallType /\ redirect \subseteq RedirectCallType
    BY OffersTyped, RedirectsTyped
  <2>3. DFTypeOK /\ CFTypeOK /\ Seq!CountAgrees
    BY DEF IInv, DFInv
  <2> HIDE DEF register, redirect, commit
  <2> QED
    BY <1>1, <2>1, <2>2, <2>3, CycleCF
<1>4. \A i \in pipe' : Formed(i)
  <2>1. \A i \in Kept : Formed(Moved(i, resolved, finished))
    BY KeptFormed, MovedFormed
  <2>2. \A d \in accepted : /\ d \in Instrs
                            /\ d.speculative => snapshot_rdy
                            /\ d.store => get_store_id_rdy
    BY OffersTyped, AcceptedReady DEF Accepted
  <2>3. \A d \in accepted : Formed(Renamed(d, redirect))
    BY <2>2, RenamedFormed
  <2> QED
    BY <1>1, <2>1, <2>3
<1>5. \A i : Formed(i)' <=> Formed(i)
  BY DEF Formed, InPipe, Seq!SeqIdx
<1> QED
  BY <1>2, <1>3, <1>4, <1>5 DEF IInv

LEMMA InitIInv == Init => IInv
<1> SUFFICES ASSUME Init PROVE IInv
  OBVIOUS
<1>1. DFInv
  BY InitDFInv DEF Init
<1>2. Seq!AllocTypeOK /\ Seq!CountAgrees
  BY ControlFlowAssumption
  DEF Init, CFInit, Seq!AllocInit, Seq!AllocTypeOK, Seq!CountAgrees, Seq!SeqIdx
<1>3. CFTypeOK
  BY <1>2 DEF Init, CFInit, CFTypeOK, NoKill
<1> QED
  BY <1>1, <1>2, <1>3 DEF IInv, Init

LEMMA NextIInv == IInv /\ [Next]_vars => IInv'
<1> SUFFICES ASSUME IInv, [Next]_vars PROVE IInv'
  OBVIOUS
<1>1. CASE Next
  BY <1>1, CycleIInv DEF Next
<1>2. CASE UNCHANGED vars
  BY <1>2
  DEF vars, dflow, cflow, IInv, DFInv, DFTypeOK, CFTypeOK, Formed, InPipe,
      Snaps!TypeOK, Regs!TypeOK, Stores!TypeOK,
      Seq!AllocTypeOK, Seq!CountAgrees, Seq!Distance
<1> QED
  BY <1>1, <1>2

(* Everything the back end keeps stays within its width, whatever is       *)
(* predicted, resolved, flushed and retired, in any order and at once.     *)
THEOREM TypeCorrect == Spec => []TypeOK
  BY InitIInv, NextIInv, IInvTypeOK, PTL DEF Spec

------------------------------------------------------------------------------
(***************************************************************************)
(* How kills, masks, snapshots and slots fit together.                     *)
(*                                                                         *)
(* None of KillExact, SlotsExact, MasksExact and SequenceSpec is inductive *)
(* alone.  A misprediction kills by mask but rolls the allocator back by   *)
(* slot, and the two agree only if the masks hold exactly the unresolved   *)
(* branches that are older; the masks stay exact only if an identifier is  *)
(* reused only when nobody waits for it any more, that is if the free      *)
(* snapshots are those not in bmask, also after a misprediction, which     *)
(* frees what the snapshot has tracked since it was taken.  All of this is *)
(* said of what the stages show, Kept, not of the registers in pipe.       *)
(***************************************************************************)
(* A branch whose prediction has not been settled yet.                     *)
Unres(i) == i.spec # {} /\ i.loc = "waiting"

(* No slot has two instructions, and every slot in use has one.            *)
OneEach == \A i, j \in pipe : ~Killed(i) /\ ~Killed(j) /\ i.seq = j.seq => i = j

SlotsHeld == \A s \in Seq!SeqIdx : Seq!InUse(s) => \E i \in Kept : i.seq = s

(* A mask has the identifiers of the older unresolved branches.            *)
MasksOlder ==
  \A i \in Kept : \A x \in SnapshotIds :
    x \in i.mask <=> \E j \in Kept : Unres(j) /\ Age(j) < Age(i) /\ x \in j.spec

(* No two unresolved branches share an identifier; bmask has all of them.  *)
IdsDistinct ==
  \A i, j \in Kept : Unres(i) /\ Unres(j) => i = j \/ i.spec \cap j.spec = {}

BmaskAll == \A x \in SnapshotIds : x \in bmask <=> \E i \in Kept : Unres(i) /\ x \in i.spec

(* What is free is what bmask has not, and each snapshot tracks exactly    *)
(* the snapshots taken by younger branches.                                *)
SnapsTaken == \A x \in SnapshotIds : x \in snaps_free <=> x \notin bmask

TrackedYounger ==
  \A i, j \in Kept : Unres(i) /\ Unres(j) =>
    \A x \in i.spec, y \in j.spec : y \in snaps_tracked[x] <=> Age(i) < Age(j)

(* When nothing is being shown, the broadcast registers are clear.         *)
KillShown == ~kill_pend => kill = NoKill

(* A jump or a branch has one snapshot, another instruction has none.      *)
SpecOne == \A i \in pipe : /\ i.instr.speculative <=> i.spec # {}
                           /\ \A x, y \in i.spec : x = y

KInv ==
  /\ IInv
  /\ KillExact /\ OneEach /\ SlotsHeld
  /\ MasksOlder /\ IdsDistinct /\ BmaskAll
  /\ SnapsTaken /\ TrackedYounger
  /\ KillShown /\ SpecOne

------------------------------------------------------------------------------
(* What a stage shows of an instruction the broadcast spares.              *)
ShownAs(i) == [i EXCEPT !.mask = @ \ kill.clear_mask]

(* The calls on the allocator: which slots stay, and in which order.       *)
LEMMA SeqStep ==
  ASSUME Seq!AllocTypeOK, Seq!CountAgrees,
         NEW allocate \in BOOLEAN, NEW free \in BOOLEAN, NEW rollback \in BOOLEAN,
         NEW idx \in Seq!SeqIdx,
         Seq!LegalCalls(allocate, free, rollback, idx),
         Seq!AllocCycle(allocate, free, rollback, idx)
  PROVE  /\ \A s \in Seq!SeqIdx :
              Seq!InUse(s)' <=>
                \/ /\ Seq!InUse(s) /\ (free => s # head)
                   /\ rollback => Seq!Distance(s, head) <= Seq!Distance(idx, head)
                \/ allocate /\ s = tail
         /\ \A s, t \in Seq!SeqIdx : (free => s # head /\ t # head) =>
              (Seq!Distance(s, head') < Seq!Distance(t, head')
                 <=> Seq!Distance(s, head) < Seq!Distance(t, head))
         /\ allocate =>
              /\ ~Seq!InUse(tail)
              /\ \A s \in Seq!SeqIdx : Seq!InUse(s) /\ (free => s # head) =>
                   Seq!Distance(s, head') < Seq!Distance(tail, head')
<1> USE ControlFlowAssumption DEF Seq!SeqIdx, Seq!AllocTypeOK, Seq!LegalCalls
<1>1. /\ tail' = Seq!TailNext(allocate, rollback, idx) /\ head' = Seq!HeadNext(free)
      /\ num' = Seq!NumNext(allocate, free, rollback, idx)
  BY DEF Seq!AllocCycle
<1>2. head \in 0 .. RobSize - 1 /\ tail \in 0 .. RobSize - 1 /\ num \in 0 .. RobSize
      /\ RobSize \in Nat /\ RobSize >= 2
  OBVIOUS
<1>3. free => num # 0
  BY DEF Seq!free_rdy
<1>4. allocate => num # RobSize
  BY DEF Seq!allocate_rdy
<1>5. head' = IF free THEN IF head = RobSize - 1 THEN 0 ELSE head + 1 ELSE head
  BY <1>1 DEF Seq!HeadNext, Seq!Inc
<1>6. \A s, t \in Seq!SeqIdx : (free => s # head /\ t # head) =>
              (Seq!Distance(s, head') < Seq!Distance(t, head')
                 <=> Seq!Distance(s, head) < Seq!Distance(t, head))
  BY <1>2, <1>5 DEF Seq!Distance
<1>7. CASE rollback
  <2>1. ~allocate /\ Seq!InUse(idx)
    BY <1>7
  <2>2. CASE free
    BY <1>1, <1>2, <1>5, <1>6, <1>7, <2>1, <2>2
    DEF Seq!InUse, Seq!Distance, Seq!NumNext, Seq!HeadNext, Seq!Inc
  <2>3. CASE ~free
    BY <1>1, <1>2, <1>5, <1>6, <1>7, <2>1, <2>3
    DEF Seq!InUse, Seq!Distance, Seq!NumNext, Seq!HeadNext, Seq!Inc
  <2> QED
    BY <2>2, <2>3
<1>8. CASE ~rollback
  <2>1. num' = IF allocate /\ ~free THEN num + 1
               ELSE IF free /\ ~allocate THEN num - 1 ELSE num
    BY <1>1, <1>8 DEF Seq!NumNext
  <2>2. IF num \in {0, RobSize} THEN tail = head
        ELSE num = IF tail >= head THEN tail - head ELSE tail + RobSize - head
    BY DEF Seq!CountAgrees, Seq!Distance
  <2>3. \A s \in Seq!SeqIdx :
              Seq!InUse(s)' <=>
                \/ Seq!InUse(s) /\ (free => s # head)
                \/ allocate /\ s = tail
    BY <1>2, <1>3, <1>4, <1>5, <2>1, <2>2 DEF Seq!InUse, Seq!Distance
  <2>4. allocate =>
              /\ ~Seq!InUse(tail)
              /\ \A s \in Seq!SeqIdx : Seq!InUse(s) /\ (free => s # head) =>
                   Seq!Distance(s, head') < Seq!Distance(tail, head')
    BY <1>2, <1>3, <1>4, <1>5, <2>2 DEF Seq!InUse, Seq!Distance
  <2> QED
    BY <1>6, <1>8, <2>3, <2>4
<1> QED
  BY <1>7, <1>8

LEMMA KeptOne ==
  ASSUME KInv, NEW k \in Kept
  PROVE  /\ k \in InPipe /\ Formed(k) /\ Seq!InUse(k.seq)
         /\ k.seq \in Seq!SeqIdx /\ k.mask \subseteq SnapshotIds /\ k.spec \subseteq SnapshotIds
         /\ k.instr.speculative <=> k.spec # {}
         /\ \A x, y \in k.spec : x = y
<1>1. PICK i \in pipe : ~Killed(i) /\ k = ShownAs(i)
  BY DEF Kept, ShownAs
<1>2. i \in InPipe
  BY DEF KInv, IInv, Formed
<1>3. k.seq = i.seq /\ k.spec = i.spec /\ k.instr = i.instr
  BY <1>1, <1>2 DEF ShownAs, InPipe
<1>4. Formed(k)
  BY KeptFormed DEF KInv
<1>5. Seq!InUse(i.seq)
  BY <1>1 DEF KInv, KillExact
<1>6. (i.instr.speculative <=> i.spec # {}) /\ \A x, y \in i.spec : x = y
  BY DEF KInv, SpecOne
<1>7. k \in InPipe
  BY <1>4 DEF Formed
<1>8. k.seq \in Seq!SeqIdx /\ k.mask \subseteq SnapshotIds /\ k.spec \subseteq SnapshotIds
  BY <1>7 DEF InPipe
<1> QED
  BY <1>3, <1>4, <1>5, <1>6, <1>7, <1>8

LEMMA KeptDistinct ==
  ASSUME KInv, NEW k \in Kept, NEW l \in Kept
  PROVE  /\ k.seq = l.seq => k = l
         /\ Age(k) \in Nat /\ Age(l) \in Nat
         /\ Age(k) = Age(l) => k = l
<1>1. PICK i \in pipe : ~Killed(i) /\ k = ShownAs(i)
  BY DEF Kept, ShownAs
<1>2. PICK j \in pipe : ~Killed(j) /\ l = ShownAs(j)
  BY DEF Kept, ShownAs
<1>3. i \in InPipe /\ j \in InPipe
  BY DEF KInv, IInv, Formed
<1>4. k.seq = i.seq /\ l.seq = j.seq
  BY <1>1, <1>2, <1>3 DEF ShownAs, InPipe
<1>5. k.seq = l.seq => k = l
  BY <1>1, <1>2, <1>4 DEF KInv, OneEach
<1>6. k.seq \in Seq!SeqIdx /\ l.seq \in Seq!SeqIdx /\ head \in Seq!SeqIdx
  BY KeptOne DEF KInv, IInv, CFTypeOK, Seq!AllocTypeOK
<1>7. /\ Age(k) \in Nat /\ Age(l) \in Nat
      /\ Age(k) = Age(l) => k.seq = l.seq
  BY <1>6, ControlFlowAssumption DEF Age, Seq!Distance, Seq!SeqIdx
<1> QED
  BY <1>5, <1>7

------------------------------------------------------------------------------
(* A cycle, and what its calls come to.                                    *)
Stepping(resolved, finished, committed, offered) ==
  /\ resolved \in Resolutions(Kept) /\ finished \in Finishes(Kept)
  /\ committed \in Commits(Kept) /\ offered \in Offers(resolved, committed)
  /\ Cycle(Kept, offered, resolved, finished, committed)

Bad(resolved) == BranchRedirect(RedirectCalls(resolved)) # {}

Exc(committed) == CommitRedirect(CommitCalls(committed)) # {}

Branches(resolved) == {r.instr : r \in resolved}

(* Which of the instructions shown keep their slots.                       *)
Remains(k, resolved, committed) ==
  /\ k \notin committed /\ ~Exc(committed)
  /\ Bad(resolved) => \A b \in Branches(resolved) : Age(k) <= Age(b)

LEMMA ResolvedOne ==
  ASSUME KInv, NEW resolved \in Resolutions(Kept)
  PROVE  /\ \A b \in Branches(resolved) : b \in Kept /\ Unres(b)
         /\ \A b, c \in Branches(resolved) : b = c
         /\ Branches(resolved) = {} <=> resolved = {}
         /\ Bad(resolved) => resolved # {}
         /\ resolved = {} \/ \E r : resolved = {r}
<1>1. resolved = {} \/ \E r \in [instr : Resolvable(Kept), target : Pcs] : resolved = {r}
  BY DEF Resolutions, Optional
<1>2. \A r \in resolved : r.instr \in Kept /\ r.instr.loc = "waiting" /\ r.instr.instr.speculative
  BY <1>1 DEF Resolvable
<1>3. \A r \in resolved : Unres(r.instr)
  BY <1>2, KeptOne DEF Unres
<1>4. Bad(resolved) => resolved # {}
  BY DEF Bad, BranchRedirect, RedirectCalls
<1> QED
  BY <1>1, <1>2, <1>3, <1>4 DEF Branches

LEMMA CommittedOne ==
  ASSUME KInv, NEW committed \in Commits(Kept)
  PROVE  /\ \A h \in committed : h \in Kept /\ h.seq = head /\ ~Unres(h)
         /\ \A k \in Kept : k \in committed <=> committed # {} /\ k.seq = head
         /\ committed # {} => Seq!free_rdy
         /\ Exc(committed) => committed # {}
         /\ CommitCalls(committed) # {} <=> committed # {}
<1>1. committed = {} \/ committed = HeadDone(Kept)
  BY DEF Commits
<1>2. \A h \in committed : h \in Kept /\ h.seq = head /\ h.loc = "rob" /\ Seq!free_rdy
  BY <1>1 DEF HeadDone
<1>3. \A k \in Kept : k \in committed <=> committed # {} /\ k.seq = head
  BY <1>2, KeptDistinct
<1>4. \A h \in committed : ~Unres(h)
  BY <1>2 DEF Unres
<1>5. (Exc(committed) => committed # {}) /\ (CommitCalls(committed) # {} <=> committed # {})
  BY DEF Exc, CommitRedirect, CommitCalls
<1> QED
  BY <1>2, <1>3, <1>4, <1>5

(* Decode has nothing to offer in the cycle of a redirect, and what rename *)
(* accepts is what the control flow manager has registered.                *)
LEMMA AcceptedOne ==
  ASSUME KInv, NEW resolved, NEW committed, NEW offered \in Offers(resolved, committed)
  PROVE  /\ Accepted(offered) # {} => ~Bad(resolved) /\ ~Exc(committed) /\ ~reset_redirect
         /\ Accepted(offered) # {} <=> Registered(RegisterCalls(offered)) # {}
         /\ \A d, e \in Accepted(offered) : d = e
         /\ \A d \in Accepted(offered) : d \in Instrs /\ (d.speculative => snapshot_rdy)
         /\ Accepted(offered) # {} => Seq!allocate_rdy
         /\ \A x : x \in {snapshot_id : r \in {q \in Registered(RegisterCalls(offered)) : q.speculative}}
                   <=> x = snapshot_id /\ \E d \in Accepted(offered) : d.speculative
<1>1. offered # {} => ~IsRedirect(RedirectCalls(resolved), CommitCalls(committed))
  BY DEF Offers
<1>2. offered = {} \/ \E o \in [instr : {d \in Instrs : RegisterCall(d)}, pc_succ : Pcs] : offered = {o}
  BY DEF Offers, Optional
<1>3. Accepted(offered) # {} => ~Bad(resolved) /\ ~Exc(committed) /\ ~reset_redirect
  BY <1>1 DEF Accepted, Bad, Exc, IsRedirect
<1>4. CASE offered = {}
  BY <1>3, <1>4 DEF Accepted, RegisterCalls, Registered
<1>5. ASSUME NEW o \in [instr : {d \in Instrs : RegisterCall(d)}, pc_succ : Pcs], offered = {o}
      PROVE  /\ Accepted(offered) # {} <=> Registered(RegisterCalls(offered)) # {}
             /\ \A d, e \in Accepted(offered) : d = e
             /\ \A d \in Accepted(offered) : d \in Instrs /\ (d.speculative => snapshot_rdy)
             /\ Accepted(offered) # {} => Seq!allocate_rdy
             /\ \A x : x \in {snapshot_id : r \in {q \in Registered(RegisterCalls(offered)) : q.speculative}}
                   <=> x = snapshot_id /\ \E d \in Accepted(offered) : d.speculative
  <2> DEFINE call == [speculative |-> o.instr.speculative, store |-> o.instr.store,
                      serialize |-> o.instr.serialize, pc_succ |-> o.pc_succ]
  <2>1. RegisterCalls(offered) = {call}
    BY <1>5 DEF RegisterCalls
  <2>2. call.speculative = o.instr.speculative
    OBVIOUS
  <2> HIDE DEF call
  <2>3. Registered(RegisterCalls(offered)) = IF RegisterSuccess(call) THEN {call} ELSE {}
    BY <2>1 DEF Registered
  <2>4. Accepted(offered) = IF RegisterSuccess(call) THEN {o.instr} ELSE {}
    BY <1>5, <2>3 DEF Accepted
  <2>5. RegisterSuccess(call) => Seq!allocate_rdy /\ (o.instr.speculative => snapshot_rdy)
    BY <2>2 DEF RegisterSuccess
  <2>6. o.instr \in Instrs
    OBVIOUS
  <2> QED
    BY <2>2, <2>3, <2>4, <2>5, <2>6
<1> QED
  BY <1>2, <1>3, <1>4, <1>5

(* The allocator as the control flow manager calls it.                     *)
LEMMA AllocatorCalls ==
  ASSUME KInv, NEW resolved, NEW finished, NEW committed, NEW offered,
         Stepping(resolved, finished, committed, offered)
  PROVE  \E idx \in Seq!SeqIdx :
           /\ Bad(resolved) /\ ~Exc(committed) => \A b \in Branches(resolved) : idx = b.seq
           /\ Exc(committed) => idx = head
           /\ Seq!LegalCalls(Accepted(offered) # {}, committed # {},
                             Bad(resolved) \/ Exc(committed), idx)
           /\ Seq!AllocCycle(Accepted(offered) # {}, committed # {},
                             Bad(resolved) \/ Exc(committed), idx)
<1> DEFINE rollback == Bad(resolved) \/ Exc(committed)
           idx == IF rollback THEN RollbackIdx(RedirectCalls(resolved), CommitCalls(committed))
                  ELSE head
<1>1. /\ resolved \in Resolutions(Kept) /\ committed \in Commits(Kept)
      /\ offered \in Offers(resolved, committed)
      /\ CFCycle(RegisterCalls(offered), RedirectCalls(resolved), CommitCalls(committed))
  BY DEF Stepping, Cycle
<1>2. Seq!AllocCycle(Accepted(offered) # {}, committed # {}, rollback, idx)
  <2>1. Seq!AllocCycle(Registered(RegisterCalls(offered)) # {}, CommitCalls(committed) # {},
                       rollback, idx)
    BY <1>1 DEF CFCycle, Bad, Exc
  <2>2. Accepted(offered) # {} <=> Registered(RegisterCalls(offered)) # {}
    BY <1>1, AcceptedOne
  <2>3. CommitCalls(committed) # {} <=> committed # {}
    BY <1>1, CommittedOne
  <2> HIDE DEF rollback, idx
  <2>4. (Accepted(offered) # {}) = (Registered(RegisterCalls(offered)) # {})
    BY <2>2
  <2>5. (CommitCalls(committed) # {}) = (committed # {})
    BY <2>3
  <2> QED
    BY <2>1, <2>4, <2>5
<1>3. ASSUME Bad(resolved), ~Exc(committed)
      PROVE  \E b \in Branches(resolved) : idx = b.seq
  <2>1. PICK r : resolved = {r}
    BY <1>1, <1>3, ResolvedOne
  <2>2. \A c \in RedirectCalls(resolved) : c.seq = r.instr.seq
    BY <2>1 DEF RedirectCalls
  <2>3. RedirectCalls(resolved) # {}
    BY <2>1 DEF RedirectCalls
  <2>4. {c.seq : c \in RedirectCalls(resolved)} = {r.instr.seq}
    BY <2>2, <2>3
  <2>5. RollbackIdx(RedirectCalls(resolved), CommitCalls(committed)) = r.instr.seq
    BY <1>3, <2>4 DEF RollbackIdx, Exc
  <2> QED
    BY <1>3, <2>1, <2>5 DEF Branches
<1>4. Exc(committed) => idx = head
  BY DEF RollbackIdx, Exc
<1>5. Seq!AllocTypeOK /\ head \in Seq!SeqIdx
  BY DEF KInv, IInv, CFTypeOK, Seq!AllocTypeOK
<1>6. idx \in Seq!SeqIdx /\ (rollback => Seq!InUse(idx))
  <2>1. CASE Exc(committed)
    <3>1. Seq!free_rdy
      BY <1>1, <2>1, CommittedOne
    <3>2. Seq!InUse(head)
      BY <1>5, <3>1, ControlFlowAssumption
      DEF Seq!InUse, Seq!Distance, Seq!free_rdy, Seq!SeqIdx, Seq!AllocTypeOK
    <3> QED
      BY <1>4, <1>5, <2>1, <3>2
  <2>2. CASE Bad(resolved) /\ ~Exc(committed)
    <3>1. PICK b \in Branches(resolved) : idx = b.seq
      BY <1>3, <2>2
    <3>2. b \in Kept
      BY <1>1, ResolvedOne
    <3> HIDE DEF idx
    <3> QED
      BY <3>1, <3>2, KeptOne
  <2>3. CASE ~rollback
    BY <1>5, <2>3
  <2> QED
    BY <2>1, <2>2, <2>3
<1>7. Seq!LegalCalls(Accepted(offered) # {}, committed # {}, rollback, idx)
  <2>1. Accepted(offered) # {} => Seq!allocate_rdy /\ ~rollback
    BY <1>1, AcceptedOne
  <2>2. committed # {} => Seq!free_rdy
    BY <1>1, CommittedOne
  <2> HIDE DEF rollback, idx
  <2> QED
    BY <1>6, <2>1, <2>2 DEF Seq!LegalCalls
<1>8. Bad(resolved) /\ ~Exc(committed) => \A b \in Branches(resolved) : idx = b.seq
  <2> HIDE DEF idx
  <2> QED
    BY <1>1, <1>3, ResolvedOne
<1> HIDE DEF rollback, idx
<1>9. /\ Seq!LegalCalls(Accepted(offered) # {}, committed # {}, Bad(resolved) \/ Exc(committed), idx)
      /\ Seq!AllocCycle(Accepted(offered) # {}, committed # {}, Bad(resolved) \/ Exc(committed), idx)
  BY <1>2, <1>7 DEF rollback
<1> QED
  BY <1>4, <1>6, <1>8, <1>9

(* Which slots are in use after a cycle, and in which order they are.      *)
LEMMA SlotsAfter ==
  ASSUME KInv, NEW resolved, NEW finished, NEW committed, NEW offered,
         Stepping(resolved, finished, committed, offered)
  PROVE  /\ \A k \in Kept : Seq!InUse(k.seq)' <=> Remains(k, resolved, committed)
         /\ \A s \in Seq!SeqIdx : Seq!InUse(s)' =>
              \/ \E k \in Kept : k.seq = s /\ Remains(k, resolved, committed)
              \/ Accepted(offered) # {} /\ s = tail
         /\ \A k, l \in Kept : k \notin committed /\ l \notin committed =>
              (Seq!Distance(k.seq, head') < Seq!Distance(l.seq, head') <=> Age(k) < Age(l))
         /\ Accepted(offered) # {} =>
              /\ \A s \in Seq!SeqIdx : s = tail => Seq!InUse(s)'
              /\ \A k \in Kept : k.seq # tail
              /\ \A k \in Kept : k \notin committed =>
                   Seq!Distance(k.seq, head') < Seq!Distance(tail, head')
<1> DEFINE allocate == Accepted(offered) # {}
           free     == committed # {}
           rollback == Bad(resolved) \/ Exc(committed)
<1>1. PICK idx \in Seq!SeqIdx :
           /\ Bad(resolved) /\ ~Exc(committed) => \A b \in Branches(resolved) : idx = b.seq
           /\ Exc(committed) => idx = head
           /\ Seq!LegalCalls(allocate, free, rollback, idx)
           /\ Seq!AllocCycle(allocate, free, rollback, idx)
  BY AllocatorCalls
<1>2. resolved \in Resolutions(Kept) /\ committed \in Commits(Kept)
  BY DEF Stepping
<1>3. Seq!AllocTypeOK /\ Seq!CountAgrees /\ head \in Seq!SeqIdx /\ tail \in Seq!SeqIdx
  BY DEF KInv, IInv, CFTypeOK, Seq!AllocTypeOK
<1>4. allocate \in BOOLEAN /\ free \in BOOLEAN /\ rollback \in BOOLEAN
  OBVIOUS
<1> HIDE DEF allocate, free, rollback
<1>5. /\ \A s \in Seq!SeqIdx :
              Seq!InUse(s)' <=>
                \/ /\ Seq!InUse(s) /\ (free => s # head)
                   /\ rollback => Seq!Distance(s, head) <= Seq!Distance(idx, head)
                \/ allocate /\ s = tail
      /\ \A s, t \in Seq!SeqIdx : (free => s # head /\ t # head) =>
              (Seq!Distance(s, head') < Seq!Distance(t, head')
                 <=> Seq!Distance(s, head) < Seq!Distance(t, head))
      /\ allocate =>
              /\ ~Seq!InUse(tail)
              /\ \A s \in Seq!SeqIdx : Seq!InUse(s) /\ (free => s # head) =>
                   Seq!Distance(s, head') < Seq!Distance(tail, head')
  BY <1>1, <1>3, <1>4, SeqStep
<1>6. ASSUME NEW k \in Kept
      PROVE  /\ k.seq \in Seq!SeqIdx /\ Seq!InUse(k.seq)
             /\ (free => k.seq # head) <=> k \notin committed
             /\ allocate => k.seq # tail
  <2>1. k.seq \in Seq!SeqIdx /\ Seq!InUse(k.seq)
    BY KeptOne
  <2>2. (free => k.seq # head) <=> k \notin committed
    BY <1>2, CommittedOne DEF free
  <2> QED
    BY <1>5, <2>1, <2>2
<1>7. ASSUME NEW k \in Kept, k \notin committed
      PROVE  (rollback => Seq!Distance(k.seq, head) <= Seq!Distance(idx, head))
               <=> Remains(k, resolved, committed)
  <2>1. CASE Exc(committed)
    <3>1. idx = head /\ k.seq # head
      BY <1>1, <1>2, <1>7, <2>1, CommittedOne
    <3>2. ~(Seq!Distance(k.seq, head) <= Seq!Distance(head, head))
      BY <1>3, <1>6, <3>1, ControlFlowAssumption DEF Seq!Distance, Seq!SeqIdx
    <3> QED
      BY <2>1, <3>1, <3>2 DEF rollback, Remains
  <2>2. CASE ~Exc(committed) /\ Bad(resolved)
    <3>1. PICK b \in Branches(resolved) : idx = b.seq
      BY <1>1, <1>2, <2>2, ResolvedOne
    <3>2. \A c \in Branches(resolved) : c = b
      BY <1>2, ResolvedOne
    <3> QED
      BY <1>7, <2>2, <3>1, <3>2 DEF rollback, Remains, Age
  <2>3. CASE ~Exc(committed) /\ ~Bad(resolved)
    BY <1>7, <2>3 DEF rollback, Remains
  <2> QED
    BY <2>1, <2>2, <2>3
<1>8. ASSUME NEW k \in Kept
      PROVE  Seq!InUse(k.seq)' <=> Remains(k, resolved, committed)
  BY <1>5, <1>6, <1>7 DEF Remains
<1>9. ASSUME NEW s \in Seq!SeqIdx, Seq!InUse(s)'
      PROVE  \/ \E k \in Kept : k.seq = s /\ Remains(k, resolved, committed)
             \/ allocate /\ s = tail
  <2>1. CASE Seq!InUse(s)
    <3>1. PICK k \in Kept : k.seq = s
      BY <2>1 DEF KInv, SlotsHeld
    <3> QED
      BY <1>8, <1>9, <3>1
  <2>2. CASE ~Seq!InUse(s)
    BY <1>5, <1>9, <2>2
  <2> QED
    BY <2>1, <2>2
<1>10. ASSUME NEW k \in Kept, NEW l \in Kept, k \notin committed, l \notin committed
       PROVE  Seq!Distance(k.seq, head') < Seq!Distance(l.seq, head') <=> Age(k) < Age(l)
  BY <1>5, <1>6, <1>10 DEF Age
<1>11. ASSUME allocate
       PROVE  /\ \A s \in Seq!SeqIdx : s = tail => Seq!InUse(s)'
              /\ \A k \in Kept : k.seq # tail
              /\ \A k \in Kept : k \notin committed =>
                   Seq!Distance(k.seq, head') < Seq!Distance(tail, head')
  BY <1>3, <1>5, <1>6, <1>11
<1> QED
  BY <1>8, <1>9, <1>10, <1>11 DEF allocate

(* What the broadcast of the next cycle will be.                           *)
LEMMA KillAfter ==
  ASSUME KInv, NEW resolved, NEW finished, NEW committed, NEW offered,
         Stepping(resolved, finished, committed, offered)
  PROVE  /\ kill'.force <=> Exc(committed)
         /\ \A b \in Branches(resolved) :
              /\ Bad(resolved) => \A x \in SnapshotIds :
                   x \in kill'.kill_mask <=> x \in b.spec \/ x \notin b.mask
              /\ ~Bad(resolved) => kill'.clear_mask = b.spec
         /\ ~Bad(resolved) => kill'.kill_mask = {}
         /\ Bad(resolved) \/ resolved = {} => kill'.clear_mask = {}
         /\ KillMask(RedirectCalls(resolved)) = kill'.kill_mask
         /\ ClearMask(RedirectCalls(resolved)) = kill'.clear_mask
<1> DEFINE redirect == RedirectCalls(resolved)
           commit   == CommitCalls(committed)
<1>1. resolved \in Resolutions(Kept) /\ kill' = KillNext(redirect, commit)
  BY DEF Stepping, Cycle, CFCycle
<1>2. \A c \in redirect : c.force = FALSE
  BY DEF RedirectCalls
<1>3. KillMask({}) = {} /\ ClearMask({}) = {} /\ BranchRedirect({}) = {}
  BY DEF KillMask, ClearMask, BranchRedirect
<1>4. resolved = {} => redirect = {}
  BY DEF RedirectCalls
<1>5. /\ kill'.force <=> Exc(committed)
      /\ KillMask(redirect) = kill'.kill_mask /\ ClearMask(redirect) = kill'.clear_mask
  <2> HIDE DEF redirect, commit
  <2>1. CASE kill_pend \/ IsRedirect(redirect, commit) \/ redirect # {}
    BY <1>1, <1>2, <2>1 DEF KillNext, Exc, BranchRedirect, commit
  <2>2. CASE ~(kill_pend \/ IsRedirect(redirect, commit) \/ redirect # {})
    <3>1. kill' = NoKill /\ redirect = {} /\ ~Exc(committed)
      BY <1>1, <2>2 DEF KillNext, KInv, KillShown, IsRedirect, Exc, commit
    <3> QED
      BY <1>3, <3>1 DEF NoKill
  <2> QED
    BY <2>1, <2>2
<1>6. ~Bad(resolved) => KillMask(redirect) = {}
  BY DEF Bad, KillMask
<1>7. resolved = {} => ClearMask(redirect) = {}
  BY <1>3, <1>4
<1>8. ASSUME NEW b \in Branches(resolved)
      PROVE  /\ Bad(resolved) => ClearMask(redirect) = {} /\ \A x \in SnapshotIds :
                   x \in KillMask(redirect) <=> x \in b.spec \/ x \notin b.mask
             /\ ~Bad(resolved) => ClearMask(redirect) = b.spec
  <2>1. PICK r : resolved = {r}
    BY <1>1, <1>8, ResolvedOne DEF Branches
  <2>2. b = r.instr
    BY <2>1 DEF Branches
  <2> DEFINE id == CHOOSE s \in b.spec : TRUE
             call == [seq |-> b.seq, spec_idx |-> id, branch_mask |-> b.mask,
                      target |-> r.target, force |-> FALSE]
  <2>3. redirect = {call}
    BY <2>1, <2>2 DEF RedirectCalls
  <2>4. b.spec = {id}
    <3>1. b \in Kept /\ b.spec # {}
      BY <1>1, ResolvedOne DEF Unres
    <3>2. \A x, y \in b.spec : x = y
      BY <3>1, KeptOne
    <3> QED
      BY <3>1, <3>2
  <2>5. call.spec_idx = id /\ call.branch_mask = b.mask
    OBVIOUS
  <2> HIDE DEF call, id, redirect
  <2>6. CASE Bad(resolved)
    <3>1. BranchRedirect(redirect) = {call}
      BY <2>3, <2>6 DEF Bad, BranchRedirect, redirect
    <3> QED
      BY <2>3, <2>4, <2>5, <2>6, <3>1 DEF KillMask, ClearMask
  <2>7. CASE ~Bad(resolved)
    <3>1. BranchRedirect(redirect) = {}
      BY <2>7 DEF Bad, redirect
    <3> QED
      BY <2>3, <2>4, <2>5, <2>7, <3>1 DEF ClearMask
  <2> QED
    BY <2>6, <2>7
<1>9. Bad(resolved) => resolved # {}
  BY <1>1, ResolvedOne
<1>10. Bad(resolved) => \E b : b \in Branches(resolved)
  BY <1>9 DEF Branches
<1> QED
  BY <1>5, <1>6, <1>7, <1>8, <1>10

(* An instruction whose result has been written, and one whose is now.     *)
Done(i) == i.loc \in {"written", "rob"} /\ i.status # "exception"

FinishesWell(i, finished) == \E f \in finished : f.instr = i /\ f.status # "exception"

(* How units and writeback change an instruction.                          *)
LEMMA MovedFields ==
  ASSUME KInv, NEW resolved \in Resolutions(Kept), NEW finished \in Finishes(Kept), NEW k \in Kept
  PROVE  LET m == Moved(k, resolved, finished)
         IN  /\ m \in InPipe /\ m.seq = k.seq /\ m.mask = k.mask /\ m.spec = k.spec
             /\ m.instr = k.instr /\ m.src = k.src /\ m.rd = k.rd /\ m.store_id = k.store_id
             /\ Unres(m) <=> Unres(k) /\ k \notin Branches(resolved)
             /\ Done(m) <=> Done(k) \/ FinishesWell(k, finished)
<1> DEFINE m == Moved(k, resolved, finished)
           st == (CHOOSE f \in finished : TRUE).status
<1>1. k \in InPipe /\ (k.instr.speculative <=> k.spec # {})
  BY KeptOne
<1>2. m \in InPipe
  BY KeptOne, MovedFormed DEF Formed
<1>3. k \in Branches(resolved) <=> \E r \in resolved : r.instr = k
  BY DEF Branches
<1>4. CASE \E r \in resolved : r.instr = k
  <2>1. m = [k EXCEPT !.loc = "resolved"]
    BY <1>4 DEF Moved
  <2>2. k.loc = "waiting" /\ k.instr.speculative
    BY <1>4 DEF Resolutions, Optional, Resolvable
  <2>3. ~FinishesWell(k, finished)
    BY <2>2 DEF FinishesWell, Finishes, Optional, Finishable
  <2> HIDE DEF m
  <2>4. /\ m.seq = k.seq /\ m.mask = k.mask /\ m.spec = k.spec /\ m.instr = k.instr
        /\ m.src = k.src /\ m.rd = k.rd /\ m.store_id = k.store_id /\ m.loc = "resolved"
    BY <1>1, <2>1 DEF InPipe
  <2> QED
    BY <1>2, <1>3, <1>4, <2>2, <2>3, <2>4 DEF Done, Unres, m
<1>5. CASE /\ ~\E r \in resolved : r.instr = k
           /\ \E f \in finished : f.instr = k
  <2>1. m = [k EXCEPT !.loc = "written", !.status = st]
    BY <1>5 DEF Moved
  <2>2. k.loc = IF k.instr.speculative THEN "resolved" ELSE "waiting"
    BY <1>5 DEF Finishes, Optional, Finishable
  <2>3. ~Unres(k) /\ ~Done(k)
    BY <1>1, <2>2 DEF Unres, Done
  <2>4. FinishesWell(k, finished) <=> st # "exception"
    BY <1>5 DEF FinishesWell, Finishes, Optional
  <2> HIDE DEF m, st
  <2>5. /\ m.seq = k.seq /\ m.mask = k.mask /\ m.spec = k.spec /\ m.instr = k.instr
        /\ m.src = k.src /\ m.rd = k.rd /\ m.store_id = k.store_id
        /\ m.loc = "written" /\ m.status = st
    BY <1>1, <2>1 DEF InPipe
  <2> QED
    BY <1>2, <2>3, <2>4, <2>5 DEF Done, Unres, m
<1>6. CASE /\ ~\E r \in resolved : r.instr = k
           /\ ~\E f \in finished : f.instr = k
  <2>1. m = IF k.loc = "written" THEN [k EXCEPT !.loc = "rob"] ELSE k
    BY <1>6 DEF Moved
  <2> HIDE DEF m
  <2>2. /\ m.seq = k.seq /\ m.mask = k.mask /\ m.spec = k.spec /\ m.instr = k.instr
        /\ m.src = k.src /\ m.rd = k.rd /\ m.store_id = k.store_id
        /\ m.loc = (IF k.loc = "written" THEN "rob" ELSE k.loc) /\ m.status = k.status
    BY <1>1, <2>1 DEF InPipe
  <2>3. ~FinishesWell(k, finished)
    BY <1>6 DEF FinishesWell
  <2> QED
    BY <1>2, <1>3, <1>6, <2>2, <2>3 DEF Done, Unres, m
<1> QED
  BY <1>4, <1>5, <1>6

(* A misprediction kills what is younger than its branch: an older         *)
(* instruction is not speculative on it, nor on anything it is not         *)
(* speculative on itself.                                                  *)
LEMMA YoungerOnes ==
  ASSUME KInv, NEW b \in Kept, Unres(b), NEW k \in Kept
  PROVE  (\E x \in k.mask : x \in b.spec \/ x \notin b.mask) <=> Age(b) < Age(k)
<1>1. /\ k.mask \subseteq SnapshotIds /\ b.spec \subseteq SnapshotIds /\ b.spec # {}
  BY KeptOne DEF Unres
<1>2. ASSUME Age(b) < Age(k)
      PROVE  \E x \in k.mask : x \in b.spec
  BY <1>1, <1>2 DEF KInv, MasksOlder
<1>3. ASSUME NEW x \in k.mask, x \in b.spec \/ x \notin b.mask
      PROVE  Age(b) < Age(k)
  <2>1. x \in SnapshotIds
    BY <1>1
  <2>2. PICK j \in Kept : Unres(j) /\ Age(j) < Age(k) /\ x \in j.spec
    BY <2>1 DEF KInv, MasksOlder
  <2>3. CASE x \in b.spec
    BY <2>2, <2>3 DEF KInv, IdsDistinct
  <2>4. CASE x \notin b.mask
    <3>1. ~(Age(j) < Age(b))
      BY <2>1, <2>2, <2>4 DEF KInv, MasksOlder
    <3>2. Age(j) \in Nat /\ Age(b) \in Nat /\ Age(k) \in Nat
      BY KeptDistinct
    <3> QED
      BY <2>2, <3>1, <3>2
  <2> QED
    BY <1>3, <2>3, <2>4
<1> QED
  BY <1>2, <1>3

LEMMA KillsTheRest ==
  ASSUME KInv, NEW resolved, NEW finished, NEW committed, NEW offered,
         Stepping(resolved, finished, committed, offered),
         NEW k \in Kept, k \notin committed
  PROVE  kill'.force \/ k.mask \cap kill'.kill_mask # {} <=> ~Remains(k, resolved, committed)
<1>1. resolved \in Resolutions(Kept)
  BY DEF Stepping
<1>2. k.mask \subseteq SnapshotIds
  BY KeptOne
<1>3. CASE Exc(committed)
  BY <1>3, KillAfter DEF Remains
<1>4. CASE ~Exc(committed) /\ ~Bad(resolved)
  BY <1>4, KillAfter DEF Remains
<1>5. CASE ~Exc(committed) /\ Bad(resolved)
  <2>1. PICK b : b \in Branches(resolved)
    BY <1>1, <1>5, ResolvedOne
  <2>2. b \in Kept /\ Unres(b) /\ \A c \in Branches(resolved) : c = b
    BY <1>1, <2>1, ResolvedOne
  <2>3. \A x \in SnapshotIds : x \in kill'.kill_mask <=> x \in b.spec \/ x \notin b.mask
    BY <1>5, <2>1, KillAfter
  <2>4. k.mask \cap kill'.kill_mask # {} <=> Age(b) < Age(k)
    BY <1>2, <2>2, <2>3, YoungerOnes
  <2>5. Remains(k, resolved, committed) <=> Age(k) <= Age(b)
    BY <1>5, <2>1, <2>2 DEF Remains
  <2>6. Age(k) \in Nat /\ Age(b) \in Nat
    BY <2>2, KeptDistinct
  <2>7. ~kill'.force
    BY <1>5, KillAfter
  <2> QED
    BY <2>4, <2>5, <2>6, <2>7
<1> QED
  BY <1>3, <1>4, <1>5

(* What the data flow manager answers for the decoded instruction d.       *)
SrcTags(d)   == {get_src(a) : a \in d.src}
DstTags(d)   == {get_dst_preg(a) : a \in d.dst}
StoreTags(d) == IF d.store THEN {get_store_id} ELSE {}

LEMMA RenamedFields ==
  ASSUME KInv, NEW resolved, NEW finished, NEW committed, NEW offered,
         Stepping(resolved, finished, committed, offered), NEW d \in Accepted(offered)
  PROVE  LET m == Renamed(d, RedirectCalls(resolved))
         IN  /\ m \in InPipe /\ m.seq = tail /\ m.mask = BmaskCurr(RedirectCalls(resolved))
             /\ m.spec = (IF d.speculative THEN {snapshot_id} ELSE {})
             /\ m.src = SrcTags(d)
             /\ m.rd = DstTags(d)
             /\ m.store_id = StoreTags(d)
             /\ m.instr = d /\ m.loc = "waiting"
<1>1. offered \in Offers(resolved, committed)
  BY DEF Stepping
<1>2. d \in Instrs /\ (d.speculative => snapshot_rdy) /\ (d.store => get_store_id_rdy)
  BY <1>1, OffersTyped, AcceptedReady DEF Accepted
<1>3. Formed(Renamed(d, RedirectCalls(resolved)))
  BY <1>2, RenamedFormed DEF KInv
<1> QED
  BY <1>3 DEF Renamed, Formed, SrcTags, DstTags, StoreTags

(* Every instruction in the pipe was there or has been renamed.            *)
Moving(i, k, resolved, finished, committed) ==
  k \notin committed /\ i = Moved(k, resolved, finished)

LEMMA PipeAfter ==
  ASSUME KInv, NEW resolved, NEW finished, NEW committed, NEW offered,
         Stepping(resolved, finished, committed, offered)
  PROVE  /\ \A i \in pipe' : \/ \E k \in Kept : Moving(i, k, resolved, finished, committed)
                             \/ \E d \in Accepted(offered) : i = Renamed(d, RedirectCalls(resolved))
         /\ \A k \in Kept : k \notin committed => Moved(k, resolved, finished) \in pipe'
         /\ \A d \in Accepted(offered) : Renamed(d, RedirectCalls(resolved)) \in pipe'
<1>1. pipe' = {Moved(i, resolved, finished) : i \in Kept \ committed}
                   \cup {Renamed(d, RedirectCalls(resolved)) : d \in Accepted(offered)}
  BY DEF Stepping, Cycle
<1> QED
  BY <1>1 DEF Moving

LEMMA KillAndSlots ==
  ASSUME KInv, NEW resolved, NEW finished, NEW committed, NEW offered,
         Stepping(resolved, finished, committed, offered)
  PROVE  KillExact' /\ OneEach' /\ SpecOne'
<1>1. resolved \in Resolutions(Kept) /\ finished \in Finishes(Kept)
      /\ offered \in Offers(resolved, committed)
  BY DEF Stepping
<1>2. tail \in Seq!SeqIdx
  BY DEF KInv, IInv, CFTypeOK, Seq!AllocTypeOK
<1>3. ASSUME NEW i \in pipe', NEW k \in Kept, Moving(i, k, resolved, finished, committed)
      PROVE  /\ i.seq = k.seq /\ i.mask = k.mask /\ i.spec = k.spec /\ i.instr = k.instr
             /\ k \notin committed /\ k.seq \in Seq!SeqIdx
  BY <1>1, <1>3, MovedFields, KeptOne DEF Moving
<1>4. ASSUME NEW i \in pipe', NEW d \in Accepted(offered), i = Renamed(d, RedirectCalls(resolved))
      PROVE  /\ i.seq = tail /\ i.spec = (IF d.speculative THEN {snapshot_id} ELSE {})
             /\ i.instr = d /\ ~Bad(resolved) /\ ~Exc(committed)
  <2>1. ~Bad(resolved) /\ ~Exc(committed)
    BY <1>1, AcceptedOne
  <2> DEFINE m == Renamed(d, RedirectCalls(resolved))
  <2>2. /\ m.seq = tail /\ m.spec = (IF d.speculative THEN {snapshot_id} ELSE {})
        /\ m.instr = d
    BY DEF Renamed
  <2> HIDE DEF m
  <2>3. i = m
    BY <1>4 DEF m
  <2> QED
    BY <2>1, <2>2, <2>3
<1>5. ASSUME NEW i \in pipe'
      PROVE  Killed(i)' <=> ~Seq!InUse(i.seq)'
  <2>1. Killed(i)' <=> kill'.force \/ i.mask \cap kill'.kill_mask # {}
    BY DEF Killed
  <2>2. ASSUME NEW k \in Kept, Moving(i, k, resolved, finished, committed)
        PROVE  Killed(i)' <=> ~Seq!InUse(i.seq)'
    <3>1. i.mask = k.mask /\ k \notin committed /\ i.seq = k.seq
      BY <1>3, <2>2
    <3>2. Killed(i)' <=> ~Remains(k, resolved, committed)
      BY <2>1, <3>1, KillsTheRest
    <3>3. Seq!InUse(k.seq)' <=> Remains(k, resolved, committed)
      BY SlotsAfter
    <3> QED
      BY <3>1, <3>2, <3>3
  <2>3. ASSUME NEW d \in Accepted(offered), i = Renamed(d, RedirectCalls(resolved))
        PROVE  Killed(i)' <=> ~Seq!InUse(i.seq)'
    <3>1. i.seq = tail /\ ~Bad(resolved) /\ ~Exc(committed)
      BY <1>4, <2>3
    <3>2. ~Killed(i)'
      BY <2>1, <3>1, KillAfter
    <3>3. Seq!InUse(i.seq)'
      BY <1>2, <3>1, SlotsAfter
    <3> QED
      BY <3>2, <3>3
  <2> QED
    BY <2>2, <2>3, PipeAfter
<1>6. ASSUME NEW i \in pipe', NEW j \in pipe', i.seq = j.seq, ~Killed(i)', ~Killed(j)'
      PROVE  i = j
  <2>1. ASSUME NEW k \in Kept, Moving(i, k, resolved, finished, committed),
               NEW l \in Kept, Moving(j, l, resolved, finished, committed)
        PROVE  i = j
    <3>1. k = l
      BY <1>3, <1>6, <2>1, KeptDistinct
    <3> QED
      BY <2>1, <3>1 DEF Moving
  <2>2. ASSUME NEW d \in Accepted(offered), NEW e \in Accepted(offered),
               i = Renamed(d, RedirectCalls(resolved)), j = Renamed(e, RedirectCalls(resolved))
        PROVE  i = j
    BY <1>1, <2>2, AcceptedOne
  <2>3. ASSUME NEW m \in pipe', NEW k \in Kept, Moving(m, k, resolved, finished, committed),
               NEW n \in pipe', NEW d \in Accepted(offered), n = Renamed(d, RedirectCalls(resolved))
        PROVE  m.seq # n.seq
    BY <1>3, <1>4, <2>3, SlotsAfter
  <2> QED
    BY <1>6, <2>1, <2>2, <2>3, PipeAfter
<1>7. ASSUME NEW i \in pipe'
      PROVE  (i.instr.speculative <=> i.spec # {}) /\ \A x, y \in i.spec : x = y
  <2>1. ASSUME NEW k \in Kept, Moving(i, k, resolved, finished, committed)
        PROVE  (i.instr.speculative <=> i.spec # {}) /\ \A x, y \in i.spec : x = y
    BY <1>3, <2>1, KeptOne
  <2>2. ASSUME NEW d \in Accepted(offered), i = Renamed(d, RedirectCalls(resolved))
        PROVE  (i.instr.speculative <=> i.spec # {}) /\ \A x, y \in i.spec : x = y
    BY <1>4, <2>2
  <2> QED
    BY <2>1, <2>2, PipeAfter
<1> QED
  BY <1>5, <1>6, <1>7 DEF KillExact, OneEach, SpecOne

------------------------------------------------------------------------------
(* What the stages show in the next cycle: instructions that were shown    *)
(* and remain, and the one that was renamed.                               *)
From(k, m, resolved, finished) ==
  /\ m.seq = k.seq /\ m.spec = k.spec /\ m.instr = k.instr
  /\ m.src = k.src /\ m.rd = k.rd /\ m.store_id = k.store_id
  /\ Done(m) <=> Done(k) \/ FinishesWell(k, finished)
  /\ \A x : x \in m.mask <=> x \in k.mask /\ x \notin kill'.clear_mask
  /\ Unres(m) <=> Unres(k) /\ k \notin Branches(resolved)

New(d, m, resolved) ==
  /\ m.seq = tail /\ m.loc = "waiting" /\ m.instr = d
  /\ m.src = SrcTags(d)
  /\ m.rd = DstTags(d)
  /\ m.store_id = StoreTags(d)
  /\ m.spec = IF d.speculative THEN {snapshot_id} ELSE {}
  /\ \A x : x \in m.mask <=> x \in BmaskCurr(RedirectCalls(resolved))

LEMMA KeptAfter ==
  ASSUME KInv, NEW resolved, NEW finished, NEW committed, NEW offered,
         Stepping(resolved, finished, committed, offered)
  PROVE  /\ \A m \in Kept' :
              \/ \E k \in Kept : Remains(k, resolved, committed) /\ From(k, m, resolved, finished)
              \/ \E d \in Accepted(offered) : New(d, m, resolved)
         /\ \A k \in Kept : Remains(k, resolved, committed) => \E m \in Kept' : From(k, m, resolved, finished)
         /\ \A d \in Accepted(offered) : \E m \in Kept' : New(d, m, resolved)
         /\ \A m, n \in Kept' : m.seq = n.seq => m = n
<1> DEFINE C(i) == [i EXCEPT !.mask = @ \ kill'.clear_mask]
<1>1. resolved \in Resolutions(Kept) /\ finished \in Finishes(Kept)
      /\ offered \in Offers(resolved, committed)
  BY DEF Stepping
<1>2. KillExact' /\ OneEach'
  BY KillAndSlots
<1>3. ASSUME NEW i \in InPipe
      PROVE  /\ C(i).seq = i.seq /\ C(i).spec = i.spec /\ C(i).loc = i.loc
             /\ C(i).status = i.status /\ C(i).instr = i.instr
             /\ C(i).src = i.src /\ C(i).rd = i.rd /\ C(i).store_id = i.store_id
             /\ C(i).mask = i.mask \ kill'.clear_mask
  BY DEF InPipe
<1>4. \A m \in Kept' : \E i \in pipe' : ~Killed(i)' /\ m = C(i)
  BY DEF Kept, Killed
<1>5. \A i \in pipe' : ~Killed(i)' => C(i) \in Kept'
  BY DEF Kept, Killed
<1>6. ASSUME NEW k \in Kept, k \notin committed
      PROVE  /\ Moved(k, resolved, finished) \in InPipe
             /\ Moved(k, resolved, finished) \in pipe'
             /\ From(k, C(Moved(k, resolved, finished)), resolved, finished)
             /\ Killed(Moved(k, resolved, finished))' <=> ~Remains(k, resolved, committed)
  <2> DEFINE m == Moved(k, resolved, finished)
  <2>1. /\ m \in InPipe /\ m.seq = k.seq /\ m.mask = k.mask /\ m.spec = k.spec
        /\ m.instr = k.instr /\ m.src = k.src /\ m.rd = k.rd /\ m.store_id = k.store_id
        /\ Unres(m) <=> Unres(k) /\ k \notin Branches(resolved)
        /\ Done(m) <=> Done(k) \/ FinishesWell(k, finished)
    BY <1>1, MovedFields
  <2>2. m \in pipe'
    BY <1>6, PipeAfter
  <2> HIDE DEF m
  <2>3. From(k, C(m), resolved, finished)
    BY <1>3, <2>1 DEF From, Unres, Done
  <2>4. Killed(m)' <=> ~Seq!InUse(m.seq)'
    BY <1>2, <2>2 DEF KillExact
  <2>5. Seq!InUse(k.seq)' <=> Remains(k, resolved, committed)
    BY SlotsAfter
  <2>6. Killed(m)' <=> ~Remains(k, resolved, committed)
    BY <2>1, <2>4, <2>5
  <2> QED
    BY <2>1, <2>2, <2>3, <2>6 DEF m
<1>7. ASSUME NEW d \in Accepted(offered), NEW i \in pipe', i = Renamed(d, RedirectCalls(resolved))
      PROVE  i \in InPipe /\ New(d, C(i), resolved) /\ ~Killed(i)'
  <2> DEFINE m == Renamed(d, RedirectCalls(resolved))
  <2>1. /\ m \in InPipe /\ m.seq = tail /\ m.mask = BmaskCurr(RedirectCalls(resolved))
        /\ m.spec = (IF d.speculative THEN {snapshot_id} ELSE {})
        /\ m.src = SrcTags(d)
        /\ m.rd = DstTags(d)
        /\ m.store_id = StoreTags(d)
        /\ m.instr = d /\ m.loc = "waiting"
    BY RenamedFields
  <2> HIDE DEF m
  <2>2. i = m
    BY <1>7 DEF m
  <2>3. ClearMask(RedirectCalls(resolved)) = kill'.clear_mask
    BY KillAfter
  <2>4. New(d, C(i), resolved)
    BY <1>3, <2>1, <2>2, <2>3 DEF New, BmaskCurr
  <2>5. Seq!InUse(i.seq)'
    <3>1. i.seq \in Seq!SeqIdx
      BY <2>1, <2>2 DEF InPipe
    <3> QED
      BY <2>1, <2>2, <3>1, SlotsAfter
  <2>6. ~Killed(i)'
    BY <1>2, <2>5 DEF KillExact
  <2> QED
    BY <2>1, <2>2, <2>4, <2>6
<1> HIDE DEF C
<1>8. ASSUME NEW m \in Kept'
      PROVE  \/ \E k \in Kept : Remains(k, resolved, committed) /\ From(k, m, resolved, finished)
             \/ \E d \in Accepted(offered) : New(d, m, resolved)
  <2>1. PICK i \in pipe' : ~Killed(i)' /\ m = C(i)
    BY <1>4
  <2>2. ASSUME NEW k \in Kept, Moving(i, k, resolved, finished, committed)
        PROVE  Remains(k, resolved, committed) /\ From(k, m, resolved, finished)
    BY <1>6, <2>1, <2>2 DEF Moving
  <2>3. ASSUME NEW d \in Accepted(offered), i = Renamed(d, RedirectCalls(resolved))
        PROVE  New(d, m, resolved)
    BY <1>7, <2>1, <2>3
  <2> QED
    BY <2>2, <2>3, PipeAfter
<1>9. ASSUME NEW k \in Kept, Remains(k, resolved, committed)
      PROVE  \E m \in Kept' : From(k, m, resolved, finished)
  <2>1. k \notin committed
    BY <1>9 DEF Remains
  <2>2. ~Killed(Moved(k, resolved, finished))'
    BY <1>6, <1>9, <2>1
  <2> QED
    BY <1>5, <1>6, <2>1, <2>2
<1>10. ASSUME NEW d \in Accepted(offered)
       PROVE  \E m \in Kept' : New(d, m, resolved)
  <2>1. PICK i \in pipe' : i = Renamed(d, RedirectCalls(resolved))
    BY PipeAfter
  <2>2. ~Killed(i)' /\ New(d, C(i), resolved)
    BY <1>7, <2>1
  <2> QED
    BY <1>5, <2>2
<1>11. ASSUME NEW i \in pipe' PROVE i \in InPipe
  BY <1>6, <1>7, PipeAfter DEF Moving
<1>12. ASSUME NEW m \in Kept', NEW n \in Kept', m.seq = n.seq
       PROVE  m = n
  <2>1. PICK i \in pipe' : ~Killed(i)' /\ m = C(i)
    BY <1>4
  <2>2. PICK j \in pipe' : ~Killed(j)' /\ n = C(j)
    BY <1>4
  <2>3. i.seq = j.seq
    BY <1>3, <1>11, <1>12, <2>1, <2>2
  <2>4. i = j
    BY <1>2, <2>1, <2>2, <2>3 DEF OneEach
  <2> QED
    BY <2>1, <2>2, <2>4
<1> QED
  BY <1>8, <1>9, <1>10, <1>12

LEMMA AgesAfter ==
  ASSUME KInv, NEW resolved, NEW finished, NEW committed, NEW offered,
         Stepping(resolved, finished, committed, offered),
         NEW m \in Kept', NEW n \in Kept'
  PROVE  /\ ~(Age(m)' < Age(m)') /\ Age(m)' \in Nat /\ Age(n)' \in Nat
         /\ \A k, l \in Kept :
              /\ Remains(k, resolved, committed) /\ Remains(l, resolved, committed)
              /\ From(k, m, resolved, finished) /\ From(l, n, resolved, finished)
              => (Age(m)' < Age(n)' <=> Age(k) < Age(l))
         /\ \A k \in Kept, d \in Accepted(offered) :
              /\ Remains(k, resolved, committed)
              /\ From(k, m, resolved, finished) /\ New(d, n, resolved)
              => Age(m)' < Age(n)' /\ ~(Age(n)' < Age(m)')
<1>1. /\ resolved \in Resolutions(Kept) /\ finished \in Finishes(Kept)
      /\ committed \in Commits(Kept) /\ offered \in Offers(resolved, committed)
      /\ Cycle(Kept, offered, resolved, finished, committed)
  BY DEF Stepping
<1>2. head' \in Seq!SeqIdx
  <2>1. IInv'
    BY <1>1, CycleIInv DEF KInv
  <2> QED
    BY <2>1 DEF IInv, CFTypeOK, Seq!AllocTypeOK, Seq!SeqIdx
<1>3. tail \in Seq!SeqIdx
  BY DEF KInv, IInv, CFTypeOK, Seq!AllocTypeOK
<1>4. /\ Age(m)' = Seq!Distance(m.seq, head') /\ Age(n)' = Seq!Distance(n.seq, head')
  BY DEF Age, Seq!Distance
<1>5. m.seq \in Seq!SeqIdx /\ n.seq \in Seq!SeqIdx
  BY <1>3, KeptAfter, KeptOne DEF From, New
<1>6. Age(m)' \in Nat /\ Age(n)' \in Nat
  BY <1>2, <1>4, <1>5, ControlFlowAssumption DEF Seq!Distance, Seq!SeqIdx
<1>7. ASSUME NEW k \in Kept, NEW l \in Kept,
             Remains(k, resolved, committed), Remains(l, resolved, committed),
             From(k, m, resolved, finished), From(l, n, resolved, finished)
      PROVE  Age(m)' < Age(n)' <=> Age(k) < Age(l)
  BY <1>4, <1>7, SlotsAfter DEF From, Remains
<1>8. ASSUME NEW k \in Kept, NEW d \in Accepted(offered), Remains(k, resolved, committed),
             From(k, m, resolved, finished), New(d, n, resolved)
      PROVE  Age(m)' < Age(n)' /\ ~(Age(n)' < Age(m)')
  <2>1. Age(m)' < Age(n)'
    BY <1>4, <1>8, SlotsAfter DEF From, New, Remains
  <2> QED
    BY <1>6, <2>1
<1> QED
  BY <1>6, <1>7, <1>8

(* An unresolved branch that is older than one that remains remains too.   *)
LEMMA OlderRemains ==
  ASSUME KInv, NEW resolved, NEW finished, NEW committed, NEW offered,
         Stepping(resolved, finished, committed, offered),
         NEW j \in Kept, Unres(j)
  PROVE  /\ \A k \in Kept : Remains(k, resolved, committed) /\ Age(j) < Age(k)
              => Remains(j, resolved, committed) /\ (Bad(resolved) => j \notin Branches(resolved))
         /\ ~Bad(resolved) /\ ~Exc(committed) => Remains(j, resolved, committed)
         /\ \A x \in j.spec : x \in kill'.clear_mask <=> ~Bad(resolved) /\ j \in Branches(resolved)
<1>1. resolved \in Resolutions(Kept) /\ committed \in Commits(Kept)
  BY DEF Stepping
<1>2. j \notin committed
  BY <1>1, CommittedOne
<1>3. \A b \in Branches(resolved) : b \in Kept /\ Unres(b)
  BY <1>1, ResolvedOne
<1>4. ASSUME NEW k \in Kept, Remains(k, resolved, committed), Age(j) < Age(k)
      PROVE  Remains(j, resolved, committed) /\ (Bad(resolved) => j \notin Branches(resolved))
  <2>1. ~Exc(committed)
    BY <1>4 DEF Remains
  <2>2. ASSUME Bad(resolved), NEW b \in Branches(resolved)
        PROVE  Age(j) <= Age(b) /\ j # b
    <3>1. Age(k) <= Age(b)
      BY <1>4, <2>2 DEF Remains
    <3>2. Age(j) \in Nat /\ Age(k) \in Nat /\ Age(b) \in Nat
      BY <1>3, KeptDistinct
    <3> QED
      BY <1>4, <3>1, <3>2
  <2> QED
    BY <1>2, <2>1, <2>2 DEF Remains
<1>5. ~Bad(resolved) /\ ~Exc(committed) => Remains(j, resolved, committed)
  BY <1>2 DEF Remains
<1>6. ASSUME NEW x \in j.spec
      PROVE  x \in kill'.clear_mask <=> ~Bad(resolved) /\ j \in Branches(resolved)
  <2>1. CASE Bad(resolved) \/ resolved = {}
    <3>1. kill'.clear_mask = {}
      BY <2>1, KillAfter
    <3> QED
      BY <2>1, <3>1 DEF Branches
  <2>2. CASE ~Bad(resolved) /\ resolved # {}
    <3>1. PICK b : b \in Branches(resolved)
      BY <1>1, <2>2, ResolvedOne
    <3>2. kill'.clear_mask = b.spec /\ \A c \in Branches(resolved) : c = b
      BY <1>1, <2>2, <3>1, KillAfter, ResolvedOne
    <3>3. x \in b.spec <=> j = b
      BY <1>3, <3>1 DEF KInv, IdsDistinct
    <3> QED
      BY <2>2, <3>1, <3>2, <3>3
  <2> QED
    BY <2>1, <2>2
<1> QED
  BY <1>4, <1>5, <1>6

(* What the control flow manager's own mask will be.                       *)
LEMMA BmaskCurrIs ==
  ASSUME KInv, NEW resolved, NEW finished, NEW committed, NEW offered,
         Stepping(resolved, finished, committed, offered), ~Exc(committed)
  PROVE  \A x \in SnapshotIds : x \in BmaskCurr(RedirectCalls(resolved)) <=>
           \E j \in Kept : /\ Unres(j) /\ x \in j.spec /\ j \notin Branches(resolved)
                           /\ Remains(j, resolved, committed)
<1>1. resolved \in Resolutions(Kept) /\ committed \in Commits(Kept)
  BY DEF Stepping
<1>2. \A x \in SnapshotIds : x \in BmaskCurr(RedirectCalls(resolved)) <=>
         x \in bmask /\ x \notin kill'.kill_mask /\ x \notin kill'.clear_mask
  BY KillAfter DEF BmaskCurr
<1>3. \A x \in SnapshotIds : x \in bmask <=> \E i \in Kept : Unres(i) /\ x \in i.spec
  BY DEF KInv, BmaskAll
<1>4. CASE ~Bad(resolved)
  BY <1>2, <1>3, <1>4, KillAfter, OlderRemains
<1>5. CASE Bad(resolved)
  <2>1. PICK b : b \in Branches(resolved)
    BY <1>1, <1>5, ResolvedOne
  <2>2. b \in Kept /\ Unres(b) /\ \A c \in Branches(resolved) : c = b
    BY <1>1, <2>1, ResolvedOne
  <2>3. \A x \in SnapshotIds : x \in BmaskCurr(RedirectCalls(resolved)) <=>
          x \in bmask /\ x \notin b.spec /\ x \in b.mask
    BY <1>2, <1>5, <2>1, KillAfter
  <2>4. \A j \in Kept : Unres(j) => (Remains(j, resolved, committed) <=> Age(j) <= Age(b))
    BY <1>1, <1>5, <2>1, <2>2, CommittedOne DEF Remains
  <2>5. ASSUME NEW x \in SnapshotIds, NEW j \in Kept, Unres(j), x \in j.spec
        PROVE  x \notin b.spec /\ x \in b.mask <=> j # b /\ Age(j) <= Age(b)
    <3>1. x \in b.spec <=> j = b
      BY <2>2, <2>5 DEF KInv, IdsDistinct
    <3>2. x \in b.mask <=> Age(j) < Age(b)
      BY <2>2, <2>5 DEF KInv, IdsDistinct, MasksOlder
    <3>3. Age(j) \in Nat /\ Age(b) \in Nat /\ (Age(j) = Age(b) => j = b)
      BY <2>2, KeptDistinct
    <3> QED
      BY <3>1, <3>2, <3>3
  <2> QED
    BY <1>3, <2>1, <2>2, <2>3, <2>4, <2>5
<1> QED
  BY <1>4, <1>5

(* A snapshot that is free belongs to no unresolved branch.                *)
LEMMA FreeIsNobodys ==
  ASSUME KInv, NEW j \in Kept, Unres(j), NEW x \in j.spec
  PROVE  x \in SnapshotIds /\ x \in bmask /\ x \notin snaps_free
<1>1. x \in SnapshotIds
  BY KeptOne
<1> QED
  BY <1>1 DEF KInv, BmaskAll, SnapsTaken

LEMMA NewIsFree ==
  ASSUME KInv, NEW resolved, NEW finished, NEW committed, NEW offered,
         Stepping(resolved, finished, committed, offered),
         NEW d \in Accepted(offered), d.speculative
  PROVE  snapshot_id \in SnapshotIds /\ snapshot_id \in snaps_free
<1>1. snapshot_rdy
  BY AcceptedOne DEF Stepping
<1> QED
  BY <1>1, Answers DEF KInv, IInv, DFInv

LEMMA SlotsHeldAfter ==
  ASSUME KInv, NEW resolved, NEW finished, NEW committed, NEW offered,
         Stepping(resolved, finished, committed, offered)
  PROVE  SlotsHeld'
<1>1. ASSUME NEW s \in Seq!SeqIdx, Seq!InUse(s)'
      PROVE  \E m \in Kept' : m.seq = s
  BY <1>1, SlotsAfter, KeptAfter DEF From, New
<1> QED
  BY <1>1 DEF SlotsHeld, Seq!SeqIdx

LEMMA MasksAfter ==
  ASSUME KInv, NEW resolved, NEW finished, NEW committed, NEW offered,
         Stepping(resolved, finished, committed, offered)
  PROVE  MasksOlder'
<1> DEFINE R(k) == Remains(k, resolved, committed)
<1>1. ASSUME NEW m \in Kept', NEW x \in SnapshotIds, NEW k \in Kept, R(k), From(k, m, resolved, finished)
      PROVE  x \in m.mask <=> \E n \in Kept' : Unres(n) /\ Age(n)' < Age(m)' /\ x \in n.spec
  <2>1. x \in m.mask <=> x \notin kill'.clear_mask /\
          \E j \in Kept : Unres(j) /\ Age(j) < Age(k) /\ x \in j.spec
    BY <1>1 DEF From, KInv, MasksOlder
  <2>2. ASSUME NEW j \in Kept, Unres(j), Age(j) < Age(k), x \in j.spec, x \notin kill'.clear_mask
        PROVE  \E n \in Kept' : Unres(n) /\ Age(n)' < Age(m)' /\ x \in n.spec
    <3>1. R(j) /\ j \notin Branches(resolved)
      BY <1>1, <2>2, OlderRemains
    <3>2. PICK n \in Kept' : From(j, n, resolved, finished)
      BY <3>1, KeptAfter
    <3>3. Age(n)' < Age(m)'
      BY <1>1, <2>2, <3>1, <3>2, AgesAfter
    <3> QED
      BY <2>2, <3>1, <3>2, <3>3 DEF From
  <2>3. ASSUME NEW n \in Kept', Unres(n), Age(n)' < Age(m)', x \in n.spec
        PROVE  \E j \in Kept : /\ Unres(j) /\ Age(j) < Age(k) /\ x \in j.spec
                               /\ x \notin kill'.clear_mask
    <3>1. ASSUME NEW j \in Kept, R(j), From(j, n, resolved, finished)
          PROVE  /\ Unres(j) /\ Age(j) < Age(k) /\ x \in j.spec
                 /\ x \notin kill'.clear_mask
      <4>1. Unres(j) /\ j \notin Branches(resolved) /\ x \in j.spec
        BY <2>3, <3>1 DEF From
      <4>2. Age(j) < Age(k)
        BY <1>1, <2>3, <3>1, AgesAfter
      <4> QED
        BY <4>1, <4>2, OlderRemains
    <3>2. ASSUME NEW d \in Accepted(offered), New(d, n, resolved)
          PROVE  FALSE
      BY <1>1, <2>3, <3>2, AgesAfter
    <3> QED
      BY <3>1, <3>2, KeptAfter
  <2> QED
    BY <2>1, <2>2, <2>3
<1>2. ASSUME NEW m \in Kept', NEW x \in SnapshotIds, NEW d \in Accepted(offered), New(d, m, resolved)
      PROVE  x \in m.mask <=> \E n \in Kept' : Unres(n) /\ Age(n)' < Age(m)' /\ x \in n.spec
  <2>1. ~Exc(committed)
    BY AcceptedOne DEF Stepping
  <2>2. x \in m.mask <=>
          \E j \in Kept : Unres(j) /\ x \in j.spec /\ j \notin Branches(resolved) /\ R(j)
    BY <1>2, <2>1, BmaskCurrIs DEF New
  <2>3. ASSUME NEW j \in Kept, Unres(j), x \in j.spec, j \notin Branches(resolved), R(j)
        PROVE  \E n \in Kept' : Unres(n) /\ Age(n)' < Age(m)' /\ x \in n.spec
    <3>1. PICK n \in Kept' : From(j, n, resolved, finished)
      BY <2>3, KeptAfter
    <3>2. Age(n)' < Age(m)'
      BY <1>2, <2>3, <3>1, AgesAfter
    <3> QED
      BY <2>3, <3>1, <3>2 DEF From
  <2>4. ASSUME NEW n \in Kept', Unres(n), Age(n)' < Age(m)', x \in n.spec
        PROVE  \E j \in Kept : Unres(j) /\ x \in j.spec /\ j \notin Branches(resolved) /\ R(j)
    <3>1. ASSUME NEW e \in Accepted(offered), New(e, n, resolved)
          PROVE  FALSE
      <4>1. n = m
        BY <1>2, <3>1, KeptAfter DEF New
      <4> QED
        BY <2>4, <4>1, AgesAfter
    <3> QED
      BY <2>4, <3>1, KeptAfter DEF From
  <2> QED
    BY <2>2, <2>3, <2>4
<1>3. ASSUME NEW m \in Kept', NEW x \in SnapshotIds
      PROVE  x \in m.mask <=> \E n \in Kept' : Unres(n) /\ Age(n)' < Age(m)' /\ x \in n.spec
  BY <1>1, <1>2, KeptAfter
<1> QED
  BY <1>3 DEF MasksOlder, Unres, SnapshotIds

LEMMA IdsAfter ==
  ASSUME KInv, NEW resolved, NEW finished, NEW committed, NEW offered,
         Stepping(resolved, finished, committed, offered)
  PROVE  IdsDistinct'
<1>1. ASSUME NEW m \in Kept', NEW n \in Kept', Unres(m), Unres(n), NEW x \in m.spec, x \in n.spec
      PROVE  m = n
  <2>1. ASSUME NEW k \in Kept, NEW l \in Kept, From(k, m, resolved, finished), From(l, n, resolved, finished)
        PROVE  m = n
    <3>1. Unres(k) /\ Unres(l) /\ x \in k.spec /\ x \in l.spec
      BY <1>1, <2>1 DEF From
    <3>2. k = l
      BY <3>1 DEF KInv, IdsDistinct
    <3> QED
      BY <2>1, <3>2, KeptAfter DEF From
  <2>2. ASSUME NEW d \in Accepted(offered), NEW e \in Accepted(offered),
               New(d, m, resolved), New(e, n, resolved)
        PROVE  m = n
    BY <2>2, KeptAfter DEF New
  <2>3. ASSUME NEW p, NEW q, x \in p.spec, x \in q.spec, Unres(p),
               NEW k \in Kept, From(k, p, resolved, finished),
               NEW d \in Accepted(offered), New(d, q, resolved)
        PROVE  FALSE
    <3>1. d.speculative /\ x = snapshot_id
      BY <2>3 DEF New
    <3>2. Unres(k) /\ x \in k.spec
      BY <2>3 DEF From
    <3> QED
      BY <3>1, <3>2, NewIsFree, FreeIsNobodys
  <2> QED
    BY <1>1, <2>1, <2>2, <2>3, KeptAfter
<1> QED
  BY <1>1 DEF IdsDistinct, Unres

LEMMA BmaskAfter ==
  ASSUME KInv, NEW resolved, NEW finished, NEW committed, NEW offered,
         Stepping(resolved, finished, committed, offered)
  PROVE  BmaskAll'
<1>1. /\ offered \in Offers(resolved, committed)
      /\ bmask' = BmaskNext(RegisterCalls(offered), RedirectCalls(resolved), CommitCalls(committed))
  BY DEF Stepping, Cycle, CFCycle
<1>2. CASE Exc(committed)
  <2>1. bmask' = {}
    BY <1>1, <1>2 DEF BmaskNext, Exc
  <2>2. Kept' = {}
    <3>1. Accepted(offered) = {}
      BY <1>1, <1>2, AcceptedOne
    <3> QED
      BY <1>2, <3>1, KeptAfter DEF Remains
  <2> QED
    BY <2>1, <2>2 DEF BmaskAll
<1>3. CASE ~Exc(committed)
  <2>1. \A x : x \in bmask' <=>
          \/ x \in BmaskCurr(RedirectCalls(resolved))
          \/ (x = snapshot_id /\ \E d \in Accepted(offered) : d.speculative)
    <3> DEFINE taken == {snapshot_id : r \in {q \in Registered(RegisterCalls(offered)) : q.speculative}}
    <3>1. bmask' = BmaskCurr(RedirectCalls(resolved)) \cup taken
      BY <1>1, <1>3 DEF BmaskNext, Exc
    <3>2. \A x : x \in taken <=> x = snapshot_id /\ \E d \in Accepted(offered) : d.speculative
      BY <1>1, AcceptedOne
    <3> HIDE DEF taken
    <3> QED
      BY <3>1, <3>2
  <2>2. ASSUME NEW x \in SnapshotIds, NEW j \in Kept, Unres(j), x \in j.spec,
               j \notin Branches(resolved), Remains(j, resolved, committed)
        PROVE  \E m \in Kept' : Unres(m) /\ x \in m.spec
    BY <2>2, KeptAfter DEF From
  <2>3. ASSUME NEW d \in Accepted(offered), d.speculative
        PROVE  \E m \in Kept' : Unres(m) /\ snapshot_id \in m.spec
    BY <2>3, KeptAfter DEF New, Unres
  <2>4. ASSUME NEW x \in SnapshotIds, NEW m \in Kept', Unres(m), x \in m.spec
        PROVE  \/ \E j \in Kept : /\ Unres(j) /\ x \in j.spec /\ j \notin Branches(resolved)
                                  /\ Remains(j, resolved, committed)
               \/ x = snapshot_id /\ \E d \in Accepted(offered) : d.speculative
    BY <2>4, KeptAfter DEF From, New
  <2>5. ASSUME NEW x \in SnapshotIds
        PROVE  x \in bmask' <=> \E m \in Kept' : Unres(m) /\ x \in m.spec
    <3>1. x \in BmaskCurr(RedirectCalls(resolved)) <=>
             \E j \in Kept : /\ Unres(j) /\ x \in j.spec /\ j \notin Branches(resolved)
                             /\ Remains(j, resolved, committed)
      BY <1>3, BmaskCurrIs
    <3> QED
      BY <2>1, <2>2, <2>3, <2>4, <3>1
  <2> QED
    BY <2>5 DEF BmaskAll, Unres, SnapshotIds
<1> QED
  BY <1>2, <1>3

Taking(offered) == \E d \in Accepted(offered) : d.speculative

(* What becomes of the snapshots and of what they remember.                *)
LEMMA SnapshotCalls ==
  ASSUME KInv, NEW resolved, NEW finished, NEW committed, NEW offered,
         Stepping(resolved, finished, committed, offered)
  PROVE  /\ Exc(committed) => snaps_free' = SnapshotIds /\ bmask' = {}
         /\ ~Exc(committed) => \A x \in SnapshotIds :
              /\ x \in snaps_free' <=>
                   \/ x \in snaps_free /\ ~(Taking(offered) /\ x = snapshot_id)
                   \/ \E b \in Branches(resolved) :
                        x \in b.spec \/ (Bad(resolved) /\ \E y \in b.spec : x \in snaps_tracked[y])
              /\ x \in bmask' <=>
                   \/ x \in BmaskCurr(RedirectCalls(resolved))
                   \/ (Taking(offered) /\ x = snapshot_id)
         /\ \A x, y \in SnapshotIds : y \in snaps_tracked'[x] <=>
              /\ ~(Taking(offered) /\ x = snapshot_id)
              /\ y \in snaps_tracked[x] \/ (Taking(offered) /\ y = snapshot_id)
<1> DEFINE settled == UNION {r.instr.spec : r \in resolved}
           taken == IF Taking(offered) THEN {snapshot_id} ELSE {}
           restore == IF Bad(resolved) THEN settled ELSE {}
           set == IF Exc(committed) THEN {SnapshotIds} ELSE {}
<1>1. /\ resolved \in Resolutions(Kept) /\ offered \in Offers(resolved, committed)
      /\ bmask' = BmaskNext(RegisterCalls(offered), RedirectCalls(resolved), CommitCalls(committed))
      /\ DFCycle(DataFlowCalls(Accepted(offered), resolved, finished, committed))
  BY DEF Stepping, Cycle, CFCycle
<1>2. Snaps!Cycle(Taking(offered), settled, taken, restore, set)
  BY <1>1 DEF DFCycle, DataFlowCalls, Taking, Bad, Exc
<1>3. Snaps!alloc_index = snapshot_id
  BY DEF snapshot_id
<1>4. \A x : x \in settled <=> \E b \in Branches(resolved) : x \in b.spec
  BY DEF Branches
<1>5. settled \subseteq SnapshotIds
  BY <1>1, RedirectsTyped DEF KInv
<1>6. /\ snaps_free' = Snaps!FreeNext(Taking(offered), settled, taken, restore, set)
      /\ snaps_tracked' = Snaps!TrackedNext(Taking(offered), taken)
  BY <1>2 DEF Snaps!Cycle
<1>7. Snaps!SnapshotIds = SnapshotIds
  BY DEF Snaps!SnapshotIds, SnapshotIds
<1>8. Exc(committed) => snaps_free' = SnapshotIds /\ bmask' = {}
  BY <1>1, <1>6 DEF Snaps!FreeNext, BmaskNext, Exc
<1>9. ASSUME NEW x \in SnapshotIds, NEW y \in SnapshotIds
      PROVE  y \in snaps_tracked'[x] <=>
              /\ ~(Taking(offered) /\ x = snapshot_id)
              /\ y \in snaps_tracked[x] \/ (Taking(offered) /\ y = snapshot_id)
  <2> HIDE DEF settled, restore, set
  <2> QED
    BY <1>3, <1>6, <1>7 DEF Snaps!TrackedNext, Snaps!Dump, Snaps!Allocated
<1>10. ASSUME ~Exc(committed), NEW x \in SnapshotIds
       PROVE  x \in bmask' <=> \/ x \in BmaskCurr(RedirectCalls(resolved))
                               \/ (Taking(offered) /\ x = snapshot_id)
  <2> DEFINE new == {snapshot_id : r \in {q \in Registered(RegisterCalls(offered)) : q.speculative}}
  <2>1. bmask' = BmaskCurr(RedirectCalls(resolved)) \cup new
    BY <1>1, <1>10 DEF BmaskNext, Exc
  <2>2. \A z : z \in new <=> z = snapshot_id /\ \E d \in Accepted(offered) : d.speculative
    BY <1>1, AcceptedOne
  <2> HIDE DEF new
  <2> QED
    BY <2>1, <2>2 DEF Taking
<1>11. ASSUME ~Exc(committed), NEW x \in SnapshotIds
       PROVE  x \in snaps_free' <=>
                   \/ x \in snaps_free /\ ~(Taking(offered) /\ x = snapshot_id)
                   \/ \E b \in Branches(resolved) :
                        x \in b.spec \/ (Bad(resolved) /\ \E y \in b.spec : x \in snaps_tracked[y])
  <2>1. snaps_free' = (snaps_free \ Snaps!Allocated(Taking(offered)))
                        \cup Snaps!Release(Taking(offered), taken, restore) \cup settled
    BY <1>6, <1>11 DEF Snaps!FreeNext
  <2>2. Bad(resolved) => ~Taking(offered)
    BY <1>1, AcceptedOne DEF Taking
  <2>3. ASSUME Bad(resolved)
        PROVE  \A z : z \in Snaps!Release(Taking(offered), taken, restore) <=>
                        \E y \in settled : z \in snaps_tracked[y]
    <3>1. taken = {} /\ restore = settled
      BY <2>2, <2>3
    <3>2. \A y : Snaps!Dump(y, Taking(offered)) = snaps_tracked[y]
      BY <2>2, <2>3 DEF Snaps!Dump, Snaps!Allocated
    <3> HIDE DEF settled, taken, restore
    <3> QED
      BY <3>1, <3>2 DEF Snaps!Release
  <2>4. ~Bad(resolved) => Snaps!Release(Taking(offered), taken, restore) = {}
    BY DEF Snaps!Release
  <2>5. Snaps!Allocated(Taking(offered)) = taken
    BY <1>3 DEF Snaps!Allocated
  <2> HIDE DEF settled, restore
  <2> QED
    BY <1>4, <2>1, <2>3, <2>4, <2>5
<1> QED
  BY <1>8, <1>9, <1>10, <1>11

LEMMA SnapsAfter ==
  ASSUME KInv, NEW resolved, NEW finished, NEW committed, NEW offered,
         Stepping(resolved, finished, committed, offered)
  PROVE  SnapsTaken'
<1>1. resolved \in Resolutions(Kept) /\ offered \in Offers(resolved, committed)
  BY DEF Stepping
<1>2. ASSUME NEW x \in SnapshotIds PROVE x \in snaps_free' <=> x \notin bmask'
  <2>1. CASE Exc(committed)
    BY <2>1, SnapshotCalls
  <2>2. CASE ~Exc(committed)
    <3> DEFINE new == Taking(offered) /\ x = snapshot_id
    <3>1. x \in bmask' <=> x \in BmaskCurr(RedirectCalls(resolved)) \/ new
      BY <2>2, SnapshotCalls
    <3>2. x \in snaps_free' <=>
                   \/ x \in snaps_free /\ ~new
                   \/ \E b \in Branches(resolved) :
                        x \in b.spec \/ (Bad(resolved) /\ \E y \in b.spec : x \in snaps_tracked[y])
      BY <2>2, SnapshotCalls
    <3>3. x \in BmaskCurr(RedirectCalls(resolved)) <=>
            x \in bmask /\ x \notin kill'.kill_mask /\ x \notin kill'.clear_mask
      BY KillAfter DEF BmaskCurr
    <3>4. x \in snaps_free <=> x \notin bmask
      BY DEF KInv, SnapsTaken
    <3>5. new => x \in snaps_free /\ ~Bad(resolved)
      BY <1>1, NewIsFree, AcceptedOne DEF Taking
    <3>6. \A b \in Branches(resolved) : b \in Kept /\ Unres(b) /\ (x \in b.spec => x \in bmask)
      BY <1>1, ResolvedOne, FreeIsNobodys
    <3> HIDE DEF new
    <3>7. CASE resolved = {}
      <4>1. Branches(resolved) = {} /\ ~Bad(resolved)
        BY <1>1, <3>7, ResolvedOne
      <4> QED
        BY <3>1, <3>2, <3>3, <3>4, <3>5, <3>7, <4>1, KillAfter
    <3>8. ASSUME resolved # {} PROVE x \in snaps_free' <=> x \notin bmask'
      <4>1. PICK b \in Branches(resolved) : \A c \in Branches(resolved) : c = b
        BY <1>1, <3>8, ResolvedOne
      <4>2. CASE ~Bad(resolved)
        <5>1. kill'.clear_mask = b.spec /\ kill'.kill_mask = {}
          BY <4>2, KillAfter
        <5> QED
          BY <3>1, <3>2, <3>3, <3>4, <3>5, <3>6, <4>1, <4>2, <5>1
      <4>3. CASE Bad(resolved)
        <5>1. x \in kill'.kill_mask <=> x \in b.spec \/ x \notin b.mask
          BY <4>3, KillAfter
        <5>2. x \notin kill'.clear_mask /\ ~new
          BY <3>5, <4>3, KillAfter
        <5>3. x \in snaps_free' <=>
                x \notin bmask \/ x \in b.spec \/ \E y \in b.spec : x \in snaps_tracked[y]
          BY <3>2, <3>4, <4>1, <4>3, <5>2
        <5>4. x \in bmask' <=> x \in bmask /\ x \notin b.spec /\ x \in b.mask
          BY <3>1, <3>3, <5>1, <5>2
        <5>5. ASSUME x \in bmask
              PROVE  (x \notin b.spec /\ x \in b.mask) <=>
                       ~(x \in b.spec \/ \E y \in b.spec : x \in snaps_tracked[y])
          <6>1. PICK j \in Kept : Unres(j) /\ x \in j.spec
            BY <5>5 DEF KInv, BmaskAll
          <6>2. b \in Kept /\ Unres(b) /\ b.spec # {}
            BY <3>6 DEF Unres
          <6>3. x \in b.spec <=> j = b
            BY <6>1, <6>2 DEF KInv, IdsDistinct
          <6>4. x \in b.mask <=> Age(j) < Age(b)
            BY <6>1, <6>2 DEF KInv, IdsDistinct, MasksOlder
          <6>5. (\E y \in b.spec : x \in snaps_tracked[y]) <=> Age(b) < Age(j)
            BY <6>1, <6>2 DEF KInv, TrackedYounger
          <6>6. Age(j) \in Nat /\ Age(b) \in Nat /\ (Age(j) = Age(b) => j = b)
            BY <6>1, <6>2, KeptDistinct
          <6> QED
            BY <6>3, <6>4, <6>5, <6>6
        <5> QED
          BY <5>3, <5>4, <5>5
      <4> QED
        BY <4>2, <4>3
    <3> QED
      BY <3>7, <3>8
  <2> QED
    BY <2>1, <2>2
<1> QED
  BY <1>2 DEF SnapsTaken, SnapshotIds

(* A snapshot remembers what was handed out after it, and nothing before.  *)
LEMMA TrackedAfter ==
  ASSUME KInv, NEW resolved, NEW finished, NEW committed, NEW offered,
         Stepping(resolved, finished, committed, offered)
  PROVE  TrackedYounger'
<1>1. ASSUME NEW m \in Kept', NEW n \in Kept', Unres(m), Unres(n),
             NEW x \in m.spec, NEW y \in n.spec
      PROVE  y \in snaps_tracked'[x] <=> Age(m)' < Age(n)'
  <2>1. ASSUME NEW k \in Kept, NEW p, From(k, p, resolved, finished), Unres(p), NEW z \in p.spec
        PROVE  /\ Unres(k) /\ z \in k.spec /\ z \in SnapshotIds
               /\ ~(Taking(offered) /\ z = snapshot_id)
    <3>1. Unres(k) /\ z \in k.spec
      BY <2>1 DEF From
    <3> QED
      BY <3>1, FreeIsNobodys, NewIsFree DEF Taking
  <2>2. ASSUME NEW d \in Accepted(offered), NEW p, New(d, p, resolved), NEW z \in p.spec
        PROVE  Taking(offered) /\ z = snapshot_id /\ z \in SnapshotIds
    <3>1. d.speculative /\ z = snapshot_id
      BY <2>2 DEF New
    <3> QED
      BY <3>1, NewIsFree DEF Taking
  <2>3. ASSUME NEW k \in Kept, Remains(k, resolved, committed), From(k, m, resolved, finished),
               NEW l \in Kept, Remains(l, resolved, committed), From(l, n, resolved, finished)
        PROVE  y \in snaps_tracked'[x] <=> Age(m)' < Age(n)'
    <3>1. /\ Unres(k) /\ x \in k.spec /\ x \in SnapshotIds /\ ~(Taking(offered) /\ x = snapshot_id)
          /\ Unres(l) /\ y \in l.spec /\ y \in SnapshotIds /\ ~(Taking(offered) /\ y = snapshot_id)
      BY <1>1, <2>1, <2>3
    <3>2. y \in snaps_tracked'[x] <=> y \in snaps_tracked[x]
      BY <3>1, SnapshotCalls
    <3>3. y \in snaps_tracked[x] <=> Age(k) < Age(l)
      BY <3>1 DEF KInv, TrackedYounger
    <3> QED
      BY <2>3, <3>2, <3>3, AgesAfter
  <2>4. ASSUME NEW k \in Kept, Remains(k, resolved, committed), From(k, m, resolved, finished),
               NEW d \in Accepted(offered), New(d, n, resolved)
        PROVE  y \in snaps_tracked'[x] <=> Age(m)' < Age(n)'
    <3>1. /\ x \in SnapshotIds /\ ~(Taking(offered) /\ x = snapshot_id)
          /\ y \in SnapshotIds /\ Taking(offered) /\ y = snapshot_id
      BY <1>1, <2>1, <2>2, <2>4
    <3>2. y \in snaps_tracked'[x]
      BY <3>1, SnapshotCalls
    <3> QED
      BY <2>4, <3>2, AgesAfter
  <2>5. ASSUME NEW d \in Accepted(offered), New(d, m, resolved)
        PROVE  y \in snaps_tracked'[x] <=> Age(m)' < Age(n)'
    <3>1. x \in SnapshotIds /\ Taking(offered) /\ x = snapshot_id /\ y \in SnapshotIds
      BY <1>1, <2>1, <2>2, <2>5, KeptAfter
    <3>2. y \notin snaps_tracked'[x]
      BY <3>1, SnapshotCalls
    <3>3. ASSUME NEW l \in Kept, Remains(l, resolved, committed), From(l, n, resolved, finished)
          PROVE  ~(Age(m)' < Age(n)')
      BY <2>5, <3>3, AgesAfter
    <3>4. ASSUME NEW e \in Accepted(offered), New(e, n, resolved)
          PROVE  ~(Age(m)' < Age(n)')
      <4>1. m = n
        BY <2>5, <3>4, KeptAfter DEF New
      <4> QED
        BY <4>1, AgesAfter
    <3> QED
      BY <3>2, <3>3, <3>4, KeptAfter
  <2> QED
    BY <2>3, <2>4, <2>5, KeptAfter
<1> QED
  BY <1>1 DEF TrackedYounger, Unres

LEMMA KillShownAfter ==
  ASSUME KInv, NEW resolved, NEW finished, NEW committed, NEW offered,
         Stepping(resolved, finished, committed, offered)
  PROVE  KillShown'
<1> DEFINE redirect == RedirectCalls(resolved)
           commit   == CommitCalls(committed)
<1>1. /\ kill_pend' = (IsRedirect(redirect, commit) \/ redirect # {})
      /\ kill' = KillNext(redirect, commit)
  BY DEF Stepping, Cycle, CFCycle
<1>2. ASSUME ~kill_pend'
      PROVE  kill' = NoKill
  <2>1. redirect = {} /\ ~IsRedirect(redirect, commit)
    BY <1>1, <1>2
  <2>2. CommitRedirect(commit) = {}
    BY <2>1 DEF IsRedirect
  <2>3. BranchRedirect({}) = {} /\ KillMask({}) = {} /\ ClearMask({}) = {}
    BY DEF BranchRedirect, KillMask, ClearMask
  <2> HIDE DEF redirect, commit
  <2>4. CASE kill_pend
    BY <1>1, <2>1, <2>2, <2>3, <2>4 DEF KillNext, NoKill
  <2>5. CASE ~kill_pend
    BY <1>1, <2>1, <2>5 DEF KillNext, KInv, KillShown
  <2> QED
    BY <2>4, <2>5
<1> QED
  BY <1>2 DEF KillShown, NoKill

------------------------------------------------------------------------------
LEMMA CycleKInv ==
  ASSUME KInv, NEW resolved, NEW finished, NEW committed, NEW offered,
         Stepping(resolved, finished, committed, offered)
  PROVE  KInv'
<1>1. IInv'
  BY CycleIInv DEF KInv, Stepping
<1> QED
  BY <1>1, KillAndSlots, SlotsHeldAfter, MasksAfter, IdsAfter, BmaskAfter, SnapsAfter,
     TrackedAfter, KillShownAfter DEF KInv

LEMMA InitKInv == Init => KInv
<1> SUFFICES ASSUME Init PROVE KInv
  OBVIOUS
<1>1. IInv
  BY InitIInv
<1>2. pipe = {} /\ Kept = {}
  BY DEF Init, Kept
<1>3. \A s \in Seq!SeqIdx : ~Seq!InUse(s)
  BY ControlFlowAssumption
  DEF Init, CFInit, Seq!AllocInit, Seq!InUse, Seq!Distance, Seq!SeqIdx
<1>4. bmask = {} /\ kill = NoKill
  BY DEF Init, CFInit
<1>5. snaps_free = SnapshotIds
  BY DEF Init, DFInit, Snaps!Init, SnapshotIds
<1> QED
  BY <1>1, <1>2, <1>3, <1>4, <1>5
  DEF KInv, KillExact, OneEach, SlotsHeld, MasksOlder, IdsDistinct, BmaskAll, SnapsTaken,
      TrackedYounger, KillShown, SpecOne

LEMMA NextKInv == KInv /\ [Next]_vars => KInv'
<1> SUFFICES ASSUME KInv, [Next]_vars PROVE KInv'
  OBVIOUS
<1>1. CASE Next
  <2>1. PICK resolved, finished, committed, offered : Stepping(resolved, finished, committed, offered)
    BY <1>1 DEF Next, Stepping
  <2> QED
    BY <2>1, CycleKInv
<1>2. CASE UNCHANGED vars
  <2>1. IInv'
    BY <1>2, NextIInv DEF KInv
  <2>2. /\ UNCHANGED <<pipe, kill, head, num, tail, bmask, snaps_free, snaps_tracked, kill_pend>>
        /\ Kept' = Kept
    BY <1>2 DEF vars, dflow, cflow, Kept, Killed
  <2>3. KillExact' /\ OneEach' /\ SlotsHeld' /\ KillShown' /\ SpecOne'
    BY <2>2 DEF KInv, KillExact, OneEach, SlotsHeld, KillShown, SpecOne, Killed, NoKill,
                Seq!InUse, Seq!Distance, Seq!SeqIdx
  <2>4. MasksOlder' /\ IdsDistinct' /\ BmaskAll' /\ SnapsTaken' /\ TrackedYounger'
    BY <2>2 DEF KInv, MasksOlder, IdsDistinct, BmaskAll, SnapsTaken, TrackedYounger, Unres,
                Age, Seq!Distance, SnapshotIds
  <2> QED
    BY <2>1, <2>3, <2>4 DEF KInv
<1> QED
  BY <1>1, <1>2

LEMMA SpecKInv == Spec => []KInv
  BY InitKInv, NextKInv, PTL DEF Spec

------------------------------------------------------------------------------
(* What the properties say of the live instructions, said of those shown.  *)
LEMMA LiveShown ==
  ASSUME KInv
  PROVE  /\ \A i \in Live : /\ i \in pipe /\ ~Killed(i) /\ ShownAs(i) \in Kept
                            /\ ShownAs(i).mask = i.mask \ kill.clear_mask
                            /\ ShownAs(i).spec = i.spec /\ ShownAs(i).seq = i.seq
                            /\ i.spec \subseteq SnapshotIds
                            /\ Age(ShownAs(i)) = Age(i)
                            /\ Unres(ShownAs(i)) <=> i \in Unresolved(Live)
         /\ \A k \in Kept : \E i \in Live : k = ShownAs(i)
<1>1. ASSUME NEW i \in Live
      PROVE  /\ i \in pipe /\ ~Killed(i) /\ ShownAs(i) \in Kept
             /\ ShownAs(i).mask = i.mask \ kill.clear_mask
             /\ ShownAs(i).spec = i.spec /\ ShownAs(i).seq = i.seq
             /\ i.spec \subseteq SnapshotIds
             /\ Age(ShownAs(i)) = Age(i)
             /\ Unres(ShownAs(i)) <=> i \in Unresolved(Live)
  <2>1. i \in pipe /\ Seq!InUse(i.seq)
    BY DEF Live
  <2>2. i \in InPipe /\ ~Killed(i)
    BY <2>1 DEF KInv, IInv, Formed, KillExact
  <2>3. ShownAs(i) \in Kept
    BY <2>1, <2>2 DEF Kept, ShownAs
  <2>4. /\ ShownAs(i).mask = i.mask \ kill.clear_mask
        /\ ShownAs(i).spec = i.spec /\ ShownAs(i).seq = i.seq /\ ShownAs(i).loc = i.loc
        /\ i.spec \subseteq SnapshotIds
    BY <2>2 DEF ShownAs, InPipe
  <2> QED
    BY <2>1, <2>2, <2>3, <2>4 DEF Age, Unres, Unresolved
<1>2. ASSUME NEW k \in Kept
      PROVE  \E i \in Live : k = ShownAs(i)
  <2>1. PICK i \in pipe : ~Killed(i) /\ k = ShownAs(i)
    BY DEF Kept, ShownAs
  <2> QED
    BY <2>1 DEF KInv, KillExact, Live
<1> QED
  BY <1>1, <1>2

LEMMA KInvSlots == KInv => SlotsExact
<1> SUFFICES ASSUME KInv, NEW s \in Seq!SeqIdx, Seq!InUse(s)
             PROVE  /\ \E i \in Live : i.seq = s
                    /\ \A i, j \in Live : i.seq = s /\ j.seq = s => i = j
  BY DEF SlotsExact
<1>1. PICK k \in Kept : k.seq = s
  BY DEF KInv, SlotsHeld
<1>2. \E i \in Live : i.seq = s
  BY <1>1, LiveShown
<1>3. \A i, j \in Live : i.seq = s /\ j.seq = s => i = j
  BY LiveShown DEF KInv, OneEach
<1> QED
  BY <1>2, <1>3

LEMMA KInvMasks == KInv => MasksExact
<1> SUFFICES ASSUME KInv PROVE MasksExact
  OBVIOUS
<1>1. ASSUME NEW i \in Live
      PROVE  i.mask \ kill.clear_mask = IdsOf(Unresolved(Older(i)))
  <2>1. ASSUME NEW x \in SnapshotIds
        PROVE  x \in ShownAs(i).mask <=> x \in IdsOf(Unresolved(Older(i)))
    <3>1. x \in ShownAs(i).mask <=>
            \E k \in Kept : Unres(k) /\ Age(k) < Age(i) /\ x \in k.spec
      BY LiveShown DEF KInv, MasksOlder
    <3>2. x \in IdsOf(Unresolved(Older(i))) <=>
            \E j \in Live : j \in Unresolved(Live) /\ Age(j) < Age(i) /\ x \in j.spec
      BY DEF IdsOf, Unresolved, Older
    <3> QED
      BY <3>1, <3>2, LiveShown
  <2>2. ShownAs(i).mask \subseteq SnapshotIds
    BY LiveShown, KeptOne
  <2>3. IdsOf(Unresolved(Older(i))) \subseteq SnapshotIds
    BY LiveShown DEF IdsOf, Unresolved, Older
  <2>4. ShownAs(i).mask = i.mask \ kill.clear_mask
    BY LiveShown
  <2> QED
    BY <2>1, <2>2, <2>3, <2>4
<1>2. ASSUME NEW i \in Unresolved(Live), NEW j \in Unresolved(Live), i.spec = j.spec
      PROVE  i = j
  <2>1. i \in Live /\ j \in Live /\ i.spec # {}
    BY DEF Unresolved
  <2>2. ShownAs(i) = ShownAs(j)
    BY <1>2, <2>1, LiveShown DEF KInv, IdsDistinct
  <2> QED
    BY <2>1, <2>2, LiveShown DEF KInv, OneEach
<1>3. ASSUME NEW x \in SnapshotIds
      PROVE  x \in bmask <=> x \in IdsOf(Unresolved(Live))
  <2>1. x \in bmask <=> \E k \in Kept : Unres(k) /\ x \in k.spec
    BY DEF KInv, BmaskAll
  <2>2. x \in IdsOf(Unresolved(Live)) <=>
          \E j \in Live : j \in Unresolved(Live) /\ x \in j.spec
    BY DEF IdsOf, Unresolved
  <2> QED
    BY <2>1, <2>2, LiveShown
<1>4. bmask \subseteq SnapshotIds /\ IdsOf(Unresolved(Live)) \subseteq SnapshotIds
  BY LiveShown DEF KInv, IInv, CFTypeOK, IdsOf, Unresolved
<1>5. bmask = IdsOf(Unresolved(Live))
  BY <1>3, <1>4
<1>6. SnapshotIds \ snaps_free = bmask
  BY <1>4 DEF KInv, SnapsTaken
<1> QED
  BY <1>1, <1>2, <1>5, <1>6 DEF MasksExact

LEMMA KInvSequence ==
  ASSUME KInv, [Next]_vars
  PROVE  [Seq!AllocNext]_<<tail, head, num>>
<1>1. CASE Next
  <2>1. PICK resolved, finished, committed, offered : Stepping(resolved, finished, committed, offered)
    BY <1>1 DEF Next, Stepping
  <2> DEFINE allocate == Accepted(offered) # {}
             free     == committed # {}
             rollback == Bad(resolved) \/ Exc(committed)
  <2>2. allocate \in BOOLEAN /\ free \in BOOLEAN /\ rollback \in BOOLEAN
    OBVIOUS
  <2>3. \E idx \in Seq!SeqIdx : /\ Seq!LegalCalls(allocate, free, rollback, idx)
                                /\ Seq!AllocCycle(allocate, free, rollback, idx)
    BY <2>1, AllocatorCalls
  <2> HIDE DEF allocate, free, rollback
  <2> QED
    BY <2>2, <2>3 DEF Seq!AllocNext
<1>2. CASE UNCHANGED vars
  BY <1>2 DEF vars, cflow
<1> QED
  BY <1>1, <1>2

(* When the broadcast of a redirect arrives, a cycle late, it kills the    *)
(* instructions that lost their slots and no other.                        *)
THEOREM KillsExactly == Spec => []KillExact
<1>1. KInv => KillExact
  BY DEF KInv
<1> QED
  BY <1>1, SpecKInv, PTL

(* Every slot of the reorder buffer that is in use belongs to exactly one  *)
(* instruction of the pipe.                                                *)
THEOREM SlotsExactly == Spec => []SlotsExact
  BY KInvSlots, SpecKInv, PTL

(* The branch masks of the instructions and of the control flow manager    *)
(* hold the unresolved branches they should, and these are the snapshots   *)
(* that are taken.                                                         *)
THEOREM MasksExactly == Spec => []MasksExact
  BY KInvMasks, SpecKInv, PTL

(* The back end uses the sequence allocator only in the ways it is built   *)
(* for.                                                                    *)
THEOREM UsesAllocator == Spec => SequenceSpec
<1>1. Init => Seq!AllocInit
  BY DEF Init, CFInit
<1> QED
  BY <1>1, KInvSequence, SpecKInv, PTL DEF Spec, SequenceSpec, Seq!AllocSpec, Seq!alloc_vars

------------------------------------------------------------------------------
(***************************************************************************)
(* Renaming.  KInv says which instructions there are and in what order;    *)
(* RInv adds what they hold: registers, store identifiers, ready bits, and *)
(* the maps that name them.  A step is read as calls on the data flow      *)
(* manager, in terms of the instructions that make them (NewDst to         *)
(* ReadyCalls), and each part of RInv is then shown of what remains.       *)
(***************************************************************************)

(* The destination of an instruction in flight, unless it is x0.           *)
Tags(i) == i.rd \ {ZERO_TAG}

(* The registers that are renamed.                                         *)
Regfile == Aregs \ {0}

(* A destination is one register, the zero tag just for x0.                *)
DstFormed ==
  \A i \in Kept : /\ i.rd = {} <=> i.instr.dst = {}
                  /\ \A p, q \in i.rd : p = q
                  /\ \A a \in i.instr.dst, p \in i.rd : a = 0 <=> p = ZERO_TAG

(* A register is free, architectural or one destination, never two of them *)
RegsApart ==
  /\ \A a, b \in Regfile : areg_file[a] = areg_file[b] => a = b
  /\ \A a \in Regfile : areg_file[a] \notin regs_free
  /\ \A i \in Kept : \A p \in Tags(i) :
       /\ p \notin regs_free
       /\ \A a \in Regfile : areg_file[a] # p
       /\ \A j \in Kept : p \in j.rd => i = j

(* and always one of them, but for the register that reset loses.          *)
RegsThere ==
  \A p \in AllocPregs :
    \/ p = NumAregs - 1 \/ p \in regs_free
    \/ \E a \in Regfile : areg_file[a] = p
    \/ \E i \in Kept : p \in i.rd

(* arch_used_pregs is the range of areg_file, with the lost register.      *)
ArchUsed ==
  /\ \A a \in Regfile : areg_file[a] \in arch_used_pregs
  /\ \A p \in arch_used_pregs : p = NumAregs - 1 \/ \E a \in Regfile : areg_file[a] = p

(* The snapshot of an unresolved branch tracks the destinations of what is *)
(* younger, and no other register in use.                                  *)
RegsTracked ==
  \A i \in Kept : Unres(i) => \A x \in i.spec :
    /\ \A j \in Kept : \A p \in Tags(j) : p \in regs_tracked[x] <=> Age(i) < Age(j)
    /\ \A a \in Regfile : areg_file[a] \notin regs_tracked[x]

(* Store identifiers: free, or held once.                                  *)
StoresApart ==
  /\ \A i, j \in Kept : \A s \in i.store_id : s \in j.store_id => i = j
  /\ \A s \in StoreIds : s \in stores_free <=> \A i \in Kept : s \notin i.store_id

(* A snapshot tracks the store identifiers of what is younger.             *)
StoresTracked ==
  \A i \in Kept : Unres(i) => \A x \in i.spec :
    \A j \in Kept : \A s \in j.store_id : s \in stores_tracked[x] <=> Age(i) < Age(j)

(* A destination is ready once its instruction has come back well, and     *)
(* what is architectural is always ready.                                  *)
ReadyWell ==
  /\ ZERO_TAG \in ready_table
  /\ \A a \in Regfile : areg_file[a] \in ready_table
  /\ \A i \in Kept : \A p \in Tags(i) : p \in ready_table <=> Done(i)

(* What a branch leaves in place, and what an instruction reads from.      *)
Upto(i) == {j \in Kept : Age(j) <= Age(i)}

Before(i) == {j \in Kept : Age(j) < Age(i)}

(* The rename table, its copies and the renamed sources name the holders   *)
(* of registers at three points of program order.                          *)
TableMaps == \A a \in Aregs : {get_src(a)} = Holder(Kept, a)

CopyMaps ==
  \A i \in Kept : Unres(i) => \A x \in i.spec : \A a \in Regfile :
    {rename_copies[x][a]} = Holder(Upto(i), a)

SrcMaps == \A i \in Kept : i.src = UNION {Holder(Before(i), a) : a \in i.instr.src}

(* The flag is up while a serialised instruction is there, alone.          *)
SerialOne ==
  /\ serial => \E i \in Kept : i.instr.serialize
  /\ \A i \in Kept : i.instr.serialize => serial /\ \A j \in Kept : j = i

(* The inductive invariant of renaming.                                    *)
RInv ==
  /\ KInv
  /\ DstFormed /\ RegsApart /\ RegsThere /\ ArchUsed /\ RegsTracked
  /\ StoresApart /\ StoresTracked
  /\ ReadyWell
  /\ TableMaps /\ CopyMaps /\ SrcMaps
  /\ SerialOne

(* The register, and the store identifier, that rename hands out.          *)
NewTag == Regs!alloc_index

Allots(offered) == \E d \in Accepted(offered) : \E a \in d.dst : a # 0

Stashes(offered) == \E d \in Accepted(offered) : d.store

(* Commit retires h, whose destination is a.                               *)
Retiring(h, a, committed) ==
  h \in committed /\ h.status # "exception" /\ a \in h.instr.dst /\ a # 0

LEMMA NewDst ==
  ASSUME KInv, NEW resolved, NEW finished, NEW committed, NEW offered,
         Stepping(resolved, finished, committed, offered),
         NEW d \in Accepted(offered)
  PROVE  /\ d \in Instrs /\ d.dst \subseteq Aregs /\ d.src \subseteq Aregs
         /\ \A a, b \in d.dst : a = b
         /\ \A e \in Accepted(offered) : e = d
         /\ \A a \in d.dst : a # 0 => Regs!alloc_rdy /\ get_dst_preg(a) = NewTag
         /\ Allots(offered) => /\ Regs!alloc_rdy
                               /\ NewTag \in AllocPregs /\ NewTag \in regs_free
         /\ d.store => get_store_id \in StoreIds /\ get_store_id \in stores_free
         /\ ~Bad(resolved) /\ ~Exc(committed)
<1>1. offered \in Offers(resolved, committed)
  BY DEF Stepping
<1>2. /\ d \in Instrs /\ RegisterCall(d)
      /\ \A e \in Accepted(offered) : e = d
      /\ ~Bad(resolved) /\ ~Exc(committed)
  BY <1>1, OffersTyped, AcceptedOne DEF Accepted
<1>3. d.dst \subseteq Aregs /\ d.src \subseteq Aregs /\ \A a, b \in d.dst : a = b
  BY <1>2, InstrsAssumption
<1>4. \A a \in d.dst : a # 0 => Regs!alloc_rdy /\ get_dst_preg(a) = NewTag
  BY <1>2 DEF RegisterCall, get_dst_rdy, get_dst_preg, NewTag
<1>5. DFTypeOK
  BY DEF KInv, IInv, DFInv
<1>6. Allots(offered) => /\ Regs!alloc_rdy
                         /\ NewTag \in AllocPregs /\ NewTag \in regs_free
  BY <1>2, <1>4, <1>5, Answers DEF Allots, NewTag
<1>7. d.store => get_store_id_rdy
  BY <1>1, OffersTyped, AcceptedReady DEF Accepted
<1>8. d.store => get_store_id \in StoreIds /\ get_store_id \in stores_free
  BY <1>5, <1>7, Answers
<1> QED
  BY <1>2, <1>3, <1>4, <1>6, <1>8

(* The tags of the instruction that is renamed.                            *)
LEMMA NewTags ==
  ASSUME KInv, NEW resolved, NEW finished, NEW committed, NEW offered,
         Stepping(resolved, finished, committed, offered),
         NEW d \in Accepted(offered), NEW m, New(d, m, resolved)
  PROVE  /\ m.instr = d /\ m.seq = tail /\ ~Done(m)
         /\ \A p : p \in Tags(m) <=> Allots(offered) /\ p = NewTag
         /\ m.rd = {} <=> d.dst = {}
         /\ \A p, q \in m.rd : p = q
         /\ \A a \in d.dst, p \in m.rd : a = 0 <=> p = ZERO_TAG
         /\ \A s : s \in m.store_id <=> Stashes(offered) /\ s = get_store_id
<1>1. /\ m.instr = d /\ m.seq = tail /\ m.loc = "waiting"
      /\ m.rd = DstTags(d) /\ m.store_id = StoreTags(d)
  BY DEF New
<1>2. ~Done(m)
  BY <1>1 DEF Done
<1>3. /\ \A a, b \in d.dst : a = b
      /\ \A e \in Accepted(offered) : e = d
      /\ \A a \in d.dst : a # 0 => get_dst_preg(a) = NewTag
      /\ Allots(offered) => NewTag \in AllocPregs
  BY NewDst
<1>4. \A p : p \in m.rd <=> \E a \in d.dst : p = get_dst_preg(a)
  BY <1>1 DEF DstTags
<1>5. Allots(offered) => NewTag # ZERO_TAG
  BY <1>3, DataFlowAssumption DEF AllocPregs, ZERO_TAG, Rename!ZERO_TAG
<1>6. Allots(offered) <=> \E a \in d.dst : a # 0
  BY <1>3 DEF Allots
<1>7. get_dst_preg(0) = ZERO_TAG
  BY DEF get_dst_preg
<1>8. \A a \in d.dst, p \in m.rd : a = 0 <=> p = ZERO_TAG
  BY <1>3, <1>4, <1>5, <1>6, <1>7
<1>9. \A p : p \in Tags(m) <=> Allots(offered) /\ p = NewTag
  BY <1>3, <1>4, <1>5, <1>6, <1>7 DEF Tags
<1>10. \A s : s \in m.store_id <=> Stashes(offered) /\ s = get_store_id
  BY <1>1, <1>3 DEF StoreTags, Stashes
<1> QED
  BY <1>1, <1>2, <1>3, <1>4, <1>8, <1>9, <1>10

(* The calls of a cycle on the data flow manager, in these terms.          *)
LEMMA UpdateIs ==
  ASSUME KInv, NEW resolved, NEW finished, NEW committed, NEW offered,
         Stepping(resolved, finished, committed, offered)
  PROVE  LET update == NeedsWriteback(UNION {d.dst : d \in Accepted(offered)})
         IN  /\ update # {} <=> Allots(offered)
             /\ \A u \in update : u.preg = NewTag
             /\ \A a \in Regfile : (\E u \in update : u.areg = a)
                                     <=> \E d \in Accepted(offered) : a \in d.dst
<1> DEFINE dsts == UNION {d.dst : d \in Accepted(offered)}
           tag(a) == [areg |-> a, preg |-> get_dst_preg(a)]
           update == NeedsWriteback(dsts)
<1>1. \A a : a \in dsts <=> \E d \in Accepted(offered) : a \in d.dst
  OBVIOUS
<1> HIDE DEF dsts
<1>2. update = {tag(a) : a \in {b \in dsts : b # 0 /\ Regs!alloc_rdy}}
  BY DEF NeedsWriteback
<1>3. \A a \in dsts : a # 0 => Regs!alloc_rdy /\ get_dst_preg(a) = NewTag
  BY <1>1, NewDst
<1>4. \A a : tag(a).areg = a /\ tag(a).preg = get_dst_preg(a)
  OBVIOUS
<1> HIDE DEF tag, update
<1>5. \A u : u \in update <=> \E a \in dsts : a # 0 /\ u = tag(a)
  BY <1>2, <1>3
<1>6. update # {} <=> Allots(offered)
  BY <1>1, <1>5 DEF Allots
<1>7. \A u \in update : u.preg = NewTag
  BY <1>3, <1>4, <1>5
<1>8. \A a \in Regfile : (\E u \in update : u.areg = a)
                                     <=> \E d \in Accepted(offered) : a \in d.dst
  BY <1>1, <1>4, <1>5 DEF Regfile
<1> QED
  BY <1>6, <1>7, <1>8 DEF update, dsts

LEMMA RetiredIs ==
  ASSUME RInv, NEW committed \in Commits(Kept)
  PROVE  LET retired == NotZeroTag(RetiredDsts(committed))
         IN  /\ \A c \in retired : \E h \in committed :
                  Retiring(h, c.areg, committed) /\ h.rd = {c.tag} /\ c.areg \in Regfile
             /\ \A h, a : Retiring(h, a, committed) =>
                  \E c \in retired : c.areg = a /\ h.rd = {c.tag}
             /\ \A c, e \in retired : c = e
<1> DEFINE retiring == {j \in committed : j.status # "exception" /\ j.rd # {}}
           dst(i) == [tag  |-> CHOOSE t \in i.rd : TRUE,
                      areg |-> CHOOSE a \in i.instr.dst : TRUE]
           retired == NotZeroTag(RetiredDsts(committed))
<1>1. RetiredDsts(committed) = {dst(i) : i \in retiring}
  BY DEF RetiredDsts
<1>2. ASSUME NEW h \in retiring
      PROVE  /\ h.rd = {dst(h).tag} /\ h.instr.dst = {dst(h).areg} /\ dst(h).areg \in Aregs
             /\ dst(h).areg = 0 <=> dst(h).tag = ZERO_TAG
  <2>1. h \in Kept /\ h.rd # {}
    BY CommittedOne DEF RInv
  <2>2. h.instr \in Instrs
    BY <2>1, KeptOne DEF RInv, InPipe
  <2>3. h.instr.dst \subseteq Aregs /\ \A a, b \in h.instr.dst : a = b
    BY <2>2, InstrsAssumption
  <2>4. /\ h.instr.dst # {} /\ \A p, q \in h.rd : p = q
        /\ \A a \in h.instr.dst, p \in h.rd : a = 0 <=> p = ZERO_TAG
    BY <2>1 DEF RInv, DstFormed
  <2>5. dst(h).tag \in h.rd /\ dst(h).areg \in h.instr.dst
    BY <2>1, <2>4
  <2> HIDE DEF dst
  <2> QED
    BY <2>3, <2>4, <2>5
<1> HIDE DEF dst
<1>3. \A c : c \in retired <=> \E h \in retiring : c = dst(h) /\ c.tag # ZERO_TAG
  <2> HIDE DEF retiring
  <2> QED
    BY <1>1 DEF NotZeroTag
<1>4. \A c \in retired : \E h \in committed :
                  Retiring(h, c.areg, committed) /\ h.rd = {c.tag} /\ c.areg \in Regfile
  BY <1>2, <1>3 DEF Retiring, Regfile
<1>5. ASSUME NEW h, NEW a, Retiring(h, a, committed)
      PROVE  \E c \in retired : c.areg = a /\ h.rd = {c.tag}
  <2>1. h \in Kept
    BY <1>5, CommittedOne DEF RInv, Retiring
  <2>2. h.rd # {}
    BY <1>5, <2>1 DEF RInv, DstFormed, Retiring
  <2>3. h \in retiring
    BY <1>5, <2>2 DEF Retiring
  <2>4. dst(h).areg = a /\ dst(h).tag # ZERO_TAG /\ h.rd = {dst(h).tag}
    BY <1>2, <1>5, <2>3 DEF Retiring
  <2> QED
    BY <1>3, <2>3, <2>4
<1>6. \A c, e \in retired : c = e
  <2>1. \A h, g \in retiring : h = g
    BY CommittedOne, KeptDistinct DEF RInv
  <2> QED
    BY <1>3, <2>1
<1> QED
  BY <1>4, <1>5, <1>6

(* A retirement frees what backed its destination.                         *)
Frees(p, committed) ==
  \E h \in committed, a \in Regfile : Retiring(h, a, committed) /\ p = areg_file[a]

LEMMA NoTrap ==
  ASSUME NEW committed, ~Exc(committed), NEW h \in committed
  PROVE  h.status # "exception"
<1> DEFINE call(i) == [redirect |-> i.status \in {"exception", "replay"}]
<1>1. CommitCalls(committed) = {call(i) : i \in committed}
  BY DEF CommitCalls
<1>2. call(h).redirect = (h.status \in {"exception", "replay"})
  OBVIOUS
<1> HIDE DEF call
<1>3. ~call(h).redirect
  BY <1>1 DEF Exc, CommitRedirect
<1> QED
  BY <1>2, <1>3

LEMMA ArfCalls ==
  ASSUME RInv, NEW resolved, NEW finished, NEW committed, NEW offered,
         Stepping(resolved, finished, committed, offered)
  PROVE  LET retired == NotZeroTag(RetiredDsts(committed))
         IN  /\ \A p : p \in FreedRegs(retired) <=> Frees(p, committed)
             /\ areg_file' = AregFileDump(retired)
             /\ \A a \in Regfile :
                  /\ \A h : Retiring(h, a, committed) => h.rd = {areg_file'[a]}
                  /\ (\A h : ~Retiring(h, a, committed)) => areg_file'[a] = areg_file[a]
             /\ arch_used_pregs' = ArchUsedDump(retired)
             /\ \A p : p \in arch_used_pregs' <=>
                  \/ p \in arch_used_pregs /\ ~Frees(p, committed)
                  \/ \E a \in Regfile : p = areg_file'[a] /\ \E h : Retiring(h, a, committed)
<1> DEFINE retired == NotZeroTag(RetiredDsts(committed))
<1>1. /\ committed \in Commits(Kept)
      /\ DFCycle(DataFlowCalls(Accepted(offered), resolved, finished, committed))
  BY DEF Stepping, Cycle
<1>2. areg_file' = AregFileDump(retired) /\ arch_used_pregs' = ArchUsedDump(retired)
  BY <1>1 DEF DFCycle, DataFlowCalls
<1>3. /\ \A c \in retired : \E h \in committed :
           Retiring(h, c.areg, committed) /\ h.rd = {c.tag} /\ c.areg \in Regfile
      /\ \A h, a : Retiring(h, a, committed) =>
           \E c \in retired : c.areg = a /\ h.rd = {c.tag}
      /\ \A c, e \in retired : c = e
  BY <1>1, RetiredIs
<1> HIDE DEF retired
<1>4. \A h, a : Retiring(h, a, committed) => h \in committed
  BY DEF Retiring
<1>5. \A p : p \in FreedRegs(retired) <=> Frees(p, committed)
  BY <1>3, <1>4 DEF FreedRegs, Frees
<1>6. ASSUME NEW a \in Regfile
      PROVE  /\ \A h : Retiring(h, a, committed) => h.rd = {areg_file'[a]}
             /\ (\A h : ~Retiring(h, a, committed)) => areg_file'[a] = areg_file[a]
  <2>1. areg_file'[a] = IF \E c \in retired : c.areg = a
                          THEN (CHOOSE c \in retired : c.areg = a).tag
                          ELSE areg_file[a]
    BY <1>2 DEF AregFileDump, Regfile
  <2>2. ASSUME NEW h, Retiring(h, a, committed)
        PROVE  h.rd = {areg_file'[a]}
    <3>1. PICK c \in retired : c.areg = a /\ h.rd = {c.tag}
      BY <1>3, <2>2
    <3>2. (CHOOSE e \in retired : e.areg = a) = c
      BY <1>3, <3>1
    <3> QED
      BY <2>1, <3>1, <3>2
  <2>3. (\A h : ~Retiring(h, a, committed)) => areg_file'[a] = areg_file[a]
    BY <1>3, <2>1
  <2> QED
    BY <2>2, <2>3
<1>7. \A p : p \in {c.tag : c \in retired} <=>
        \E a \in Regfile : p = areg_file'[a] /\ \E h : Retiring(h, a, committed)
  <2>1. ASSUME NEW c \in retired
        PROVE  \E a \in Regfile : c.tag = areg_file'[a] /\ \E h : Retiring(h, a, committed)
    <3>1. PICK h \in committed :
           Retiring(h, c.areg, committed) /\ h.rd = {c.tag} /\ c.areg \in Regfile
      BY <1>3
    <3>2. h.rd = {areg_file'[c.areg]}
      BY <1>6, <3>1
    <3>3. c.tag = areg_file'[c.areg]
      BY <3>1, <3>2
    <3> QED
      BY <3>1, <3>3
  <2>2. ASSUME NEW a \in Regfile, NEW h, Retiring(h, a, committed)
        PROVE  \E c \in retired : c.tag = areg_file'[a]
    <3>1. PICK c \in retired : c.areg = a /\ h.rd = {c.tag}
      BY <1>3, <2>2
    <3>2. h.rd = {areg_file'[a]}
      BY <1>6, <2>2
    <3>3. c.tag = areg_file'[a]
      BY <3>1, <3>2
    <3> QED
      BY <3>3
  <2> QED
    BY <2>1, <2>2
<1>8. \A p : p \in arch_used_pregs' <=>
                  \/ p \in arch_used_pregs /\ ~Frees(p, committed)
                  \/ \E a \in Regfile : p = areg_file'[a] /\ \E h : Retiring(h, a, committed)
  BY <1>2, <1>5, <1>7 DEF ArchUsedDump
<1> QED
  BY <1>2, <1>5, <1>6, <1>8 DEF retired

LEMMA RegCalls ==
  ASSUME RInv, NEW resolved, NEW finished, NEW committed, NEW offered,
         Stepping(resolved, finished, committed, offered)
  PROVE  /\ Exc(committed) => regs_free' = AllocPregs \ arch_used_pregs'
         /\ ~Exc(committed) => \A p : p \in regs_free' <=>
              \/ p \in regs_free /\ ~(Allots(offered) /\ p = NewTag)
              \/ \E b \in Branches(resolved) : Bad(resolved) /\ \E y \in b.spec : p \in regs_tracked[y]
              \/ Frees(p, committed)
         /\ \A x \in SnapshotIds : \A p : p \in regs_tracked'[x] <=>
              /\ ~(Taking(offered) /\ x = snapshot_id)
              /\ p \in regs_tracked[x] \/ (Allots(offered) /\ p = NewTag)
<1> DEFINE settled == UNION {r.instr.spec : r \in resolved}
           taken == IF Taking(offered) THEN {snapshot_id} ELSE {}
           restore == IF Bad(resolved) THEN settled ELSE {}
           retired == NotZeroTag(RetiredDsts(committed))
           update == NeedsWriteback(UNION {d.dst : d \in Accepted(offered)})
           set == IF Exc(committed) THEN {AllocPregs \ ArchUsedDump(retired)} ELSE {}
           freed == FreedRegs(retired)
<1>1. /\ resolved \in Resolutions(Kept) /\ offered \in Offers(resolved, committed)
      /\ DFCycle(DataFlowCalls(Accepted(offered), resolved, finished, committed))
  BY DEF Stepping, Cycle
<1>2. Regs!Cycle(update # {}, freed, taken, restore, set)
  BY <1>1 DEF DFCycle, DataFlowCalls, Taking, Bad, Exc
<1>3. \A p : p \in freed <=> Frees(p, committed)
  BY ArfCalls
<1>4. arch_used_pregs' = ArchUsedDump(retired)
  BY ArfCalls
<1>5. update # {} <=> Allots(offered)
  BY UpdateIs DEF RInv
<1>6. \A x : x \in settled <=> \E b \in Branches(resolved) : x \in b.spec
  BY DEF Branches
<1>7. Bad(resolved) => ~Allots(offered) /\ ~Taking(offered)
  BY <1>1, AcceptedOne DEF Allots, Taking, RInv
<1>8. set = {} <=> ~Exc(committed)
  OBVIOUS
<1>9. Exc(committed) => UNION set = AllocPregs \ arch_used_pregs'
  BY <1>4
<1> HIDE DEF settled, retired, update, set, freed
<1>10. /\ regs_free' = Regs!FreeNext(update # {}, freed, taken, restore, set)
       /\ regs_tracked' = Regs!TrackedNext(update # {}, taken)
  BY <1>2 DEF Regs!Cycle
<1>11. Exc(committed) => regs_free' = AllocPregs \ arch_used_pregs'
  BY <1>8, <1>9, <1>10 DEF Regs!FreeNext
<1>12. \A p : p \in Regs!Allocated(update # {}) <=> Allots(offered) /\ p = NewTag
  BY <1>5 DEF Regs!Allocated, NewTag
<1>13. ASSUME NEW x \in SnapshotIds, NEW p
       PROVE  p \in regs_tracked'[x] <=>
              /\ ~(Taking(offered) /\ x = snapshot_id)
              /\ p \in regs_tracked[x] \/ (Allots(offered) /\ p = NewTag)
  <2>1. regs_tracked'[x] = IF x \in taken THEN {}
                           ELSE regs_tracked[x] \cup Regs!Allocated(update # {})
    BY <1>10 DEF Regs!TrackedNext, Regs!Dump, Regs!SnapshotIds, SnapshotIds
  <2> QED
    BY <1>12, <2>1
<1>14. ASSUME ~Exc(committed), NEW p
       PROVE  p \in regs_free' <=>
              \/ p \in regs_free /\ ~(Allots(offered) /\ p = NewTag)
              \/ \E b \in Branches(resolved) : Bad(resolved) /\ \E y \in b.spec : p \in regs_tracked[y]
              \/ Frees(p, committed)
  <2>1. regs_free' = (regs_free \ Regs!Allocated(update # {}))
                       \cup Regs!Release(update # {}, taken, restore) \cup freed
    BY <1>8, <1>10, <1>14 DEF Regs!FreeNext
  <2>2. p \in Regs!Release(update # {}, taken, restore) <=>
          Bad(resolved) /\ \E y \in settled : p \in regs_tracked[y]
    <3>1. CASE ~Bad(resolved)
      BY <3>1 DEF Regs!Release
    <3>2. CASE Bad(resolved)
      <4>1. taken = {} /\ restore = settled /\ \A q : q \notin Regs!Allocated(update # {})
        BY <1>7, <1>12, <3>2
      <4> HIDE DEF taken, restore
      <4> QED
        BY <3>2, <4>1 DEF Regs!Release, Regs!Dump
    <3> QED
      BY <3>1, <3>2
  <2> HIDE DEF taken, restore
  <2> QED
    BY <1>3, <1>6, <1>12, <2>1, <2>2
<1> QED
  BY <1>11, <1>13, <1>14

LEMMA StoreCalls ==
  ASSUME RInv, NEW resolved, NEW finished, NEW committed, NEW offered,
         Stepping(resolved, finished, committed, offered)
  PROVE  /\ Exc(committed) => stores_free' = StoreIds
         /\ ~Exc(committed) => \A s : s \in stores_free' <=>
              \/ s \in stores_free /\ ~(Stashes(offered) /\ s = get_store_id)
              \/ \E b \in Branches(resolved) : Bad(resolved) /\ \E y \in b.spec : s \in stores_tracked[y]
              \/ \E h \in committed : s \in h.store_id
         /\ \A x \in SnapshotIds : \A s : s \in stores_tracked'[x] <=>
              /\ ~(Taking(offered) /\ x = snapshot_id)
              /\ s \in stores_tracked[x] \/ (Stashes(offered) /\ s = get_store_id)
<1> DEFINE settled == UNION {r.instr.spec : r \in resolved}
           taken == IF Taking(offered) THEN {snapshot_id} ELSE {}
           restore == IF Bad(resolved) THEN settled ELSE {}
           set == IF Exc(committed) THEN {StoreIds} ELSE {}
           freed == RetiredStores(committed)
<1>1. /\ resolved \in Resolutions(Kept) /\ offered \in Offers(resolved, committed)
      /\ DFCycle(DataFlowCalls(Accepted(offered), resolved, finished, committed))
  BY DEF Stepping, Cycle
<1>2. Stores!Cycle(Stashes(offered), freed, taken, restore, set)
  BY <1>1 DEF DFCycle, DataFlowCalls, Taking, Stashes, Bad, Exc
<1>3. ~Exc(committed) => \A s : s \in freed <=> \E h \in committed : s \in h.store_id
  BY NoTrap DEF RetiredStores
<1>4. \A x : x \in settled <=> \E b \in Branches(resolved) : x \in b.spec
  BY DEF Branches
<1>5. Bad(resolved) => ~Stashes(offered) /\ ~Taking(offered)
  BY <1>1, AcceptedOne DEF Stashes, Taking, RInv
<1>6. set = {} <=> ~Exc(committed)
  OBVIOUS
<1>7. Exc(committed) => UNION set = StoreIds
  OBVIOUS
<1> HIDE DEF settled, set, freed
<1>8. /\ stores_free' = Stores!FreeNext(Stashes(offered), freed, taken, restore, set)
      /\ stores_tracked' = Stores!TrackedNext(Stashes(offered), taken)
  BY <1>2 DEF Stores!Cycle
<1>9. Exc(committed) => stores_free' = StoreIds
  BY <1>6, <1>7, <1>8 DEF Stores!FreeNext
<1>10. \A s : s \in Stores!Allocated(Stashes(offered)) <=> Stashes(offered) /\ s = get_store_id
  BY DEF Stores!Allocated, get_store_id
<1>11. ASSUME NEW x \in SnapshotIds, NEW s
       PROVE  s \in stores_tracked'[x] <=>
              /\ ~(Taking(offered) /\ x = snapshot_id)
              /\ s \in stores_tracked[x] \/ (Stashes(offered) /\ s = get_store_id)
  <2>1. stores_tracked'[x] = IF x \in taken THEN {}
                             ELSE stores_tracked[x] \cup Stores!Allocated(Stashes(offered))
    BY <1>8 DEF Stores!TrackedNext, Stores!Dump, Stores!SnapshotIds, SnapshotIds
  <2> QED
    BY <1>10, <2>1
<1>12. ASSUME ~Exc(committed), NEW s
       PROVE  s \in stores_free' <=>
              \/ s \in stores_free /\ ~(Stashes(offered) /\ s = get_store_id)
              \/ \E b \in Branches(resolved) : Bad(resolved) /\ \E y \in b.spec : s \in stores_tracked[y]
              \/ \E h \in committed : s \in h.store_id
  <2>1. stores_free' = (stores_free \ Stores!Allocated(Stashes(offered)))
                         \cup Stores!Release(Stashes(offered), taken, restore) \cup freed
    BY <1>6, <1>8, <1>12 DEF Stores!FreeNext
  <2>2. s \in Stores!Release(Stashes(offered), taken, restore) <=>
          Bad(resolved) /\ \E y \in settled : s \in stores_tracked[y]
    <3>1. CASE ~Bad(resolved)
      BY <3>1 DEF Stores!Release
    <3>2. CASE Bad(resolved)
      <4>1. taken = {} /\ restore = settled /\ \A q : q \notin Stores!Allocated(Stashes(offered))
        BY <1>5, <1>10, <3>2
      <4> HIDE DEF taken, restore
      <4> QED
        BY <3>2, <4>1 DEF Stores!Release, Stores!Dump
    <3> QED
      BY <3>1, <3>2
  <2> HIDE DEF taken, restore
  <2> QED
    BY <1>3, <1>4, <1>10, <1>12, <2>1, <2>2
<1> QED
  BY <1>9, <1>11, <1>12

(* The rename table after the write of rename in this cycle.               *)
LEMMA WrittenIs ==
  ASSUME KInv, NEW resolved, NEW finished, NEW committed, NEW offered,
         Stepping(resolved, finished, committed, offered)
  PROVE  LET update == NeedsWriteback(UNION {d.dst : d \in Accepted(offered)})
         IN  \A a \in Regfile : Rename!Written(update)[a] =
               IF \E d \in Accepted(offered) : a \in d.dst THEN NewTag ELSE rename_table[a]
<1> DEFINE update == NeedsWriteback(UNION {d.dst : d \in Accepted(offered)})
<1>1. /\ \A u \in update : u.preg = NewTag
      /\ \A a \in Regfile : (\E u \in update : u.areg = a)
                              <=> \E d \in Accepted(offered) : a \in d.dst
  BY UpdateIs
<1> HIDE DEF update
<1>2. ASSUME NEW a \in Regfile
      PROVE  Rename!Written(update)[a] =
               IF \E d \in Accepted(offered) : a \in d.dst THEN NewTag ELSE rename_table[a]
  <2>1. Rename!Written(update)[a] =
          IF \E u \in update : u.areg = a THEN (CHOOSE u \in update : u.areg = a).preg
          ELSE rename_table[a]
    BY DEF Rename!Written, Rename!Aregs, Regfile, Aregs
  <2> QED
    BY <1>1, <2>1
<1> QED
  BY <1>2 DEF update

LEMMA TableCalls ==
  ASSUME RInv, NEW resolved, NEW finished, NEW committed, NEW offered,
         Stepping(resolved, finished, committed, offered)
  PROVE  /\ Exc(committed) => rename_table' = areg_file'
         /\ ~Exc(committed) /\ Bad(resolved) =>
              \A b \in Branches(resolved) : \A x \in b.spec : rename_table' = rename_copies[x]
         /\ ~Exc(committed) /\ ~Bad(resolved) =>
              \A a \in Regfile : rename_table'[a] =
                IF \E d \in Accepted(offered) : a \in d.dst THEN NewTag ELSE rename_table[a]
         /\ \A x \in SnapshotIds : \A a \in Regfile : rename_copies'[x][a] =
              IF ~(Taking(offered) /\ x = snapshot_id) THEN rename_copies[x][a]
              ELSE IF \E d \in Accepted(offered) : a \in d.dst THEN NewTag ELSE rename_table[a]
<1> DEFINE settled == UNION {r.instr.spec : r \in resolved}
           taken == IF Taking(offered) THEN {snapshot_id} ELSE {}
           restore == IF Bad(resolved) THEN settled ELSE {}
           retired == NotZeroTag(RetiredDsts(committed))
           update == NeedsWriteback(UNION {d.dst : d \in Accepted(offered)})
           set == IF Exc(committed) THEN {AregFileDump(retired)} ELSE {}
<1>1. /\ resolved \in Resolutions(Kept) /\ offered \in Offers(resolved, committed)
      /\ DFCycle(DataFlowCalls(Accepted(offered), resolved, finished, committed))
  BY DEF Stepping, Cycle
<1>2. Rename!Cycle(update, taken, restore, set)
  BY <1>1 DEF DFCycle, DataFlowCalls, Taking, Bad, Exc
<1>3. /\ rename_table' = Rename!TableNext(update, taken, restore, set)
      /\ rename_copies' = Rename!CopiesNext(update, taken)
  BY <1>2 DEF Rename!Cycle
<1>4. areg_file' = AregFileDump(retired)
  BY ArfCalls
<1>5. \A a \in Regfile : Rename!Written(update)[a] =
         IF \E d \in Accepted(offered) : a \in d.dst THEN NewTag ELSE rename_table[a]
  BY WrittenIs DEF RInv
<1>6. Bad(resolved) => ~Taking(offered)
  BY <1>1, AcceptedOne DEF Taking, RInv
<1> HIDE DEF retired, update
<1>7. Exc(committed) => rename_table' = areg_file'
  BY <1>3, <1>4 DEF Rename!TableNext
<1>8. ASSUME ~Exc(committed), Bad(resolved), NEW b \in Branches(resolved), NEW x \in b.spec
      PROVE  rename_table' = rename_copies[x]
  <2>1. /\ \A c \in Branches(resolved) : c = b
        /\ b \in Kept
    BY <1>1, ResolvedOne DEF RInv
  <2>2. \A y \in b.spec : y = x
    BY <2>1, KeptOne DEF RInv
  <2>3. \A y : y \in settled <=> y = x
    BY <1>8, <2>1, <2>2 DEF Branches
  <2>4. settled = {x} /\ taken = {} /\ set = {}
    BY <1>6, <1>8, <2>3
  <2> HIDE DEF settled, taken, set
  <2>5. restore \ taken # {} /\ (CHOOSE i \in restore : TRUE) = x
    BY <1>8, <2>4
  <2> HIDE DEF restore
  <2> QED
    BY <1>3, <2>4, <2>5 DEF Rename!TableNext
<1>9. ~Exc(committed) /\ ~Bad(resolved) => rename_table' = Rename!Written(update)
  BY <1>3 DEF Rename!TableNext
<1>10. ASSUME NEW x \in SnapshotIds, NEW a \in Regfile
       PROVE  rename_copies'[x][a] =
              IF ~(Taking(offered) /\ x = snapshot_id) THEN rename_copies[x][a]
              ELSE IF \E d \in Accepted(offered) : a \in d.dst THEN NewTag ELSE rename_table[a]
  <2>1. rename_copies'[x] = IF x \in taken THEN Rename!Written(update) ELSE rename_copies[x]
    BY <1>3 DEF Rename!CopiesNext, Rename!SnapshotIds, SnapshotIds
  <2> QED
    BY <1>5, <2>1
<1> QED
  BY <1>5, <1>7, <1>8, <1>9, <1>10

LEMMA ReadyCalls ==
  ASSUME KInv, NEW resolved, NEW finished, NEW committed, NEW offered,
         Stepping(resolved, finished, committed, offered)
  PROVE  \A p : p \in ready_table' <=>
           /\ \/ p \in ready_table
              \/ p # ZERO_TAG /\ \E k \in Kept : FinishesWell(k, finished) /\ p \in k.rd
           /\ ~(Allots(offered) /\ p = NewTag)
<1> DEFINE update == NeedsWriteback(UNION {d.dst : d \in Accepted(offered)})
<1>1. /\ finished \in Finishes(Kept)
      /\ DFCycle(DataFlowCalls(Accepted(offered), resolved, finished, committed))
  BY DEF Stepping, Cycle
<1>2. /\ update # {} <=> Allots(offered)
      /\ \A u \in update : u.preg = NewTag
  BY UpdateIs
<1>3. ready_table' = (ready_table \cup (Written(finished) \ {ZERO_TAG})) \ {u.preg : u \in update}
  BY <1>1 DEF DFCycle, DataFlowCalls, ReadyNext
<1>4. \A f \in finished : f.instr \in Kept
  BY <1>1 DEF Finishes, Optional, Finishable
<1>5. \A p : p \in Written(finished) <=> \E k \in Kept : FinishesWell(k, finished) /\ p \in k.rd
  BY <1>4 DEF Written, FinishesWell
<1> HIDE DEF update
<1>6. \A p : p \in {u.preg : u \in update} <=> Allots(offered) /\ p = NewTag
  BY <1>2
<1> QED
  BY <1>3, <1>5, <1>6

(* What commit retires is the oldest instruction.                          *)
LEMMA HeadFirst ==
  ASSUME KInv, NEW committed \in Commits(Kept), NEW h \in committed, NEW k \in Kept
  PROVE  h \in Kept /\ h.loc = "rob" /\ ~(Age(k) < Age(h)) /\ (k \notin committed => k # h)
<1>1. h \in Kept /\ h.seq = head
  BY CommittedOne
<1>2. h.loc = "rob"
  BY DEF Commits, HeadDone
<1>3. Age(k) \in Nat /\ head \in Seq!SeqIdx
  BY KeptDistinct DEF KInv, IInv, CFTypeOK, Seq!AllocTypeOK
<1>4. Age(h) = 0
  BY <1>1, <1>3, ControlFlowAssumption DEF Age, Seq!Distance, Seq!SeqIdx
<1> QED
  BY <1>1, <1>2, <1>3, <1>4

(* An exception leaves nothing, and a misprediction only what is not       *)
(* younger than its branch.                                                *)
LEMMA Leavers ==
  ASSUME KInv, NEW resolved, NEW finished, NEW committed, NEW offered,
         Stepping(resolved, finished, committed, offered)
  PROVE  /\ Exc(committed) => Kept' = {}
         /\ \A k \in Kept : k \in committed \/ Exc(committed) \/ Remains(k, resolved, committed)
              \/ \E b \in Branches(resolved) :
                   Bad(resolved) /\ b \in Kept /\ Unres(b) /\ b.spec # {} /\ Age(b) < Age(k)
         /\ \A k \in Kept : Remains(k, resolved, committed) =>
              /\ ~Exc(committed) /\ k \notin committed
              /\ Bad(resolved) => \A b \in Branches(resolved) :
                                    b \in Kept /\ Unres(b) /\ ~(Age(b) < Age(k))
<1>1. resolved \in Resolutions(Kept) /\ offered \in Offers(resolved, committed)
  BY DEF Stepping
<1>2. Exc(committed) => Accepted(offered) = {}
  BY <1>1, AcceptedOne
<1>3. Exc(committed) => Kept' = {}
  BY <1>2, KeptAfter DEF Remains
<1>4. \A b \in Branches(resolved) : b \in Kept /\ Unres(b) /\ b.spec # {}
  BY <1>1, ResolvedOne DEF Unres
<1>5. \A k \in Kept : \A b \in Branches(resolved) : ~(Age(k) <= Age(b)) <=> Age(b) < Age(k)
  BY <1>4, KeptDistinct
<1> QED
  BY <1>3, <1>4, <1>5 DEF Remains

(* What the architectural file holds after the commit of a cycle.          *)
LEMMA ArfAfter ==
  ASSUME RInv, NEW resolved, NEW finished, NEW committed, NEW offered,
         Stepping(resolved, finished, committed, offered), NEW a \in Regfile
  PROVE  \/ \E h \in Kept : /\ h \in committed /\ Retiring(h, a, committed)
                            /\ areg_file'[a] \in Tags(h) /\ h.rd = {areg_file'[a]}
                            /\ Done(h)
         \/ areg_file'[a] = areg_file[a] /\ \A h : ~Retiring(h, a, committed)
<1>1. committed \in Commits(Kept)
  BY DEF Stepping
<1>2. ASSUME NEW h, Retiring(h, a, committed)
      PROVE  /\ h \in Kept /\ h \in committed /\ Done(h)
             /\ areg_file'[a] \in Tags(h) /\ h.rd = {areg_file'[a]}
  <2>1. h \in committed /\ h.status # "exception" /\ a \in h.instr.dst /\ a # 0
    BY <1>2 DEF Retiring
  <2>2. h \in Kept
    BY <1>1, <2>1, CommittedOne DEF RInv
  <2>3. h.loc = "rob"
    BY <1>1, <2>1, <2>2, HeadFirst DEF RInv
  <2>4. h.rd = {areg_file'[a]}
    BY <1>2, ArfCalls
  <2>5. areg_file'[a] # ZERO_TAG
    BY <2>1, <2>2, <2>4 DEF RInv, DstFormed
  <2> QED
    BY <2>1, <2>2, <2>3, <2>4, <2>5 DEF Done, Tags
<1>3. (\A h : ~Retiring(h, a, committed)) => areg_file'[a] = areg_file[a]
  BY ArfCalls
<1> QED
  BY <1>2, <1>3

(* Each part of RInv holds of what remains and of what is renamed.         *)
LEMMA DstAfter ==
  ASSUME RInv, NEW resolved, NEW finished, NEW committed, NEW offered,
         Stepping(resolved, finished, committed, offered)
  PROVE  DstFormed'
<1>1. KInv
  BY DEF RInv
<1>2. ASSUME NEW m \in Kept'
      PROVE  /\ m.rd = {} <=> m.instr.dst = {}
             /\ \A p, q \in m.rd : p = q
             /\ \A a \in m.instr.dst, p \in m.rd : a = 0 <=> p = ZERO_TAG
  <2>1. ASSUME NEW k \in Kept, From(k, m, resolved, finished)
        PROVE  m.rd = k.rd /\ m.instr = k.instr
    BY <2>1 DEF From
  <2>2. \A k \in Kept : /\ k.rd = {} <=> k.instr.dst = {}
                        /\ \A p, q \in k.rd : p = q
                        /\ \A a \in k.instr.dst, p \in k.rd : a = 0 <=> p = ZERO_TAG
    BY DEF RInv, DstFormed
  <2>3. CASE \E k \in Kept : From(k, m, resolved, finished)
    BY <2>1, <2>2, <2>3
  <2>4. CASE \E d \in Accepted(offered) : New(d, m, resolved)
    <3>1. PICK d \in Accepted(offered) : New(d, m, resolved)
      BY <2>4
    <3> QED
      BY <1>1, <3>1, NewTags
  <2> QED
    BY <1>1, <2>3, <2>4, KeptAfter
<1> QED
  BY <1>2 DEF DstFormed, ZERO_TAG, Rename!ZERO_TAG

LEMMA ArchUsedAfter ==
  ASSUME RInv, NEW resolved, NEW finished, NEW committed, NEW offered,
         Stepping(resolved, finished, committed, offered)
  PROVE  ArchUsed'
<1>1. ASSUME NEW a \in Regfile
      PROVE  areg_file'[a] \in arch_used_pregs'
  <2>1. CASE \E h : Retiring(h, a, committed)
    BY <2>1, ArfCalls
  <2>2. CASE \A h : ~Retiring(h, a, committed)
    <3>1. areg_file'[a] = areg_file[a]
      BY <2>2, ArfCalls
    <3>2. ~Frees(areg_file[a], committed)
      BY <2>2 DEF Frees, RInv, RegsApart
    <3>3. areg_file[a] \in arch_used_pregs
      BY DEF RInv, ArchUsed
    <3> QED
      BY <3>1, <3>2, <3>3, ArfCalls
  <2> QED
    BY <2>1, <2>2
<1>2. ASSUME NEW p \in arch_used_pregs'
      PROVE  p = NumAregs - 1 \/ \E a \in Regfile : areg_file'[a] = p
  <2>1. CASE p \in arch_used_pregs /\ ~Frees(p, committed)
    <3>1. ASSUME NEW a \in Regfile, areg_file[a] = p
          PROVE  areg_file'[a] = p
      <4>1. \A h : ~Retiring(h, a, committed)
        BY <2>1, <3>1 DEF Frees, Retiring
      <4> QED
        BY <3>1, <4>1, ArfCalls
    <3> QED
      BY <2>1, <3>1 DEF RInv, ArchUsed
  <2> QED
    BY <2>1, ArfCalls
<1> QED
  BY <1>1, <1>2 DEF ArchUsed, Regfile, Aregs

(* What is handed out, or brought back, is held by nobody that remains.    *)
LEMMA RegsApartAfter ==
  ASSUME RInv, NEW resolved, NEW finished, NEW committed, NEW offered,
         Stepping(resolved, finished, committed, offered)
  PROVE  RegsApart'
<1>1. KInv /\ committed \in Commits(Kept)
  BY DEF RInv, Stepping
<1>2. Allots(offered) => NewTag \in regs_free /\ NewTag \in AllocPregs /\ ~Bad(resolved) /\ ~Exc(committed)
  BY <1>1, NewDst DEF Allots
<1>3. /\ \A a, b \in Regfile : areg_file[a] = areg_file[b] => a = b
      /\ \A a \in Regfile : areg_file[a] \notin regs_free
      /\ \A i \in Kept : \A p \in Tags(i) :
           /\ p \notin regs_free
           /\ \A a \in Regfile : areg_file[a] # p
           /\ \A j \in Kept : p \in j.rd => i = j
  BY DEF RInv, RegsApart
<1>4. \A h \in Kept : \A a, b : Retiring(h, a, committed) /\ Retiring(h, b, committed) => a = b
  BY <1>1, KeptOne, InstrsAssumption DEF Retiring, InPipe
<1>5. ASSUME NEW a \in Regfile, NEW b \in Regfile, areg_file'[a] = areg_file'[b]
      PROVE  a = b
  <2>1. \A h, g \in Kept : areg_file'[a] \in Tags(h) /\ areg_file'[b] \in Tags(g) => h = g
    BY <1>3, <1>5 DEF Tags
  <2> QED
    BY <1>3, <1>4, <1>5, <2>1, ArfAfter
<1>6. ASSUME NEW b \in Branches(resolved), NEW y \in b.spec
      PROVE  /\ \A a \in Regfile : areg_file[a] \notin regs_tracked[y]
             /\ \A k \in Kept : \A p \in Tags(k) : p \in regs_tracked[y] <=> Age(b) < Age(k)
  <2>1. b \in Kept /\ Unres(b)
    BY ResolvedOne DEF RInv, Stepping
  <2> QED
    BY <2>1 DEF RInv, RegsTracked
<1>7. ASSUME NEW a \in Regfile
      PROVE  areg_file'[a] \notin regs_free'
  <2>1. CASE Exc(committed)
    <3>1. areg_file'[a] \in arch_used_pregs'
      BY ArchUsedAfter DEF ArchUsed, Regfile, Aregs
    <3> QED
      BY <2>1, <3>1, RegCalls
  <2>2. CASE ~Exc(committed)
    <3>1. ASSUME NEW h \in Kept, h \in committed, areg_file'[a] \in Tags(h)
          PROVE  areg_file'[a] \notin regs_free'
      <4>1. \A k \in Kept : ~(Age(k) < Age(h))
        BY <1>1, <3>1, HeadFirst
      <4>2. \A b \in Branches(resolved) : b \in Kept
        BY ResolvedOne DEF RInv, Stepping
      <4>3. ~Frees(areg_file'[a], committed) /\ areg_file'[a] \notin regs_free
        BY <1>3, <3>1 DEF Frees
      <4> QED
        BY <1>6, <2>2, <3>1, <4>1, <4>2, <4>3, RegCalls
    <3>2. ASSUME areg_file'[a] = areg_file[a], \A h : ~Retiring(h, a, committed)
          PROVE  areg_file'[a] \notin regs_free'
      <4>1. ~Frees(areg_file[a], committed)
        BY <1>3, <3>2 DEF Frees
      <4> QED
        BY <1>3, <1>6, <2>2, <3>2, <4>1, RegCalls
    <3> QED
      BY <3>1, <3>2, ArfAfter
  <2> QED
    BY <2>1, <2>2
<1>8. ASSUME NEW m \in Kept', NEW p \in Tags(m), NEW k \in Kept,
             Remains(k, resolved, committed), From(k, m, resolved, finished)
      PROVE  /\ p \in Tags(k) /\ p \notin regs_free /\ p \notin regs_free'
             /\ \A a \in Regfile : areg_file'[a] # p
  <2>1. p \in Tags(k)
    BY <1>8 DEF From, Tags
  <2>2. /\ ~Exc(committed) /\ k \notin committed
        /\ Bad(resolved) => \A b \in Branches(resolved) : ~(Age(b) < Age(k))
    BY <1>1, <1>8, Leavers
  <2>3. ~Frees(p, committed) /\ p \notin regs_free
    BY <1>3, <2>1 DEF Frees
  <2>4. p \notin regs_free'
    BY <1>6, <2>1, <2>2, <2>3, RegCalls
  <2>5. ASSUME NEW a \in Regfile
        PROVE  areg_file'[a] # p
    <3>1. \A h \in Kept : h \in committed => p \notin Tags(h)
      BY <1>3, <2>1, <2>2 DEF Tags
    <3> QED
      BY <1>3, <2>1, <3>1, ArfAfter
  <2> QED
    BY <2>1, <2>3, <2>4, <2>5
<1>9. ASSUME NEW m \in Kept', NEW p \in Tags(m), NEW d \in Accepted(offered), New(d, m, resolved)
      PROVE  /\ p = NewTag /\ p \in regs_free /\ p \notin regs_free'
             /\ \A a \in Regfile : areg_file'[a] # p
  <2>1. p = NewTag /\ Allots(offered)
    BY <1>1, <1>9, NewTags
  <2>2. p \in regs_free /\ ~Bad(resolved) /\ ~Exc(committed)
    BY <1>2, <2>1
  <2>3. ~Frees(p, committed)
    BY <1>3, <2>2 DEF Frees
  <2>4. p \notin regs_free'
    BY <2>1, <2>2, <2>3, RegCalls
  <2>5. \A a \in Regfile : areg_file'[a] # p
    BY <1>3, <2>2, ArfAfter
  <2> QED
    BY <2>1, <2>2, <2>4, <2>5
<1>10. ASSUME NEW m \in Kept', NEW n \in Kept', NEW p \in Tags(m), p \in n.rd
       PROVE  m = n
  <2>1. p \in Tags(n)
    BY <1>10 DEF Tags
  <2>2. ASSUME NEW k \in Kept, From(k, m, resolved, finished), p \in Tags(k),
               NEW l \in Kept, From(l, n, resolved, finished), p \in Tags(l)
        PROVE  m = n
    <3>1. k = l
      BY <1>3, <2>2 DEF Tags
    <3> QED
      BY <1>1, <2>2, <3>1, KeptAfter DEF From
  <2>3. ASSUME NEW d \in Accepted(offered), NEW e \in Accepted(offered),
               New(d, m, resolved), New(e, n, resolved)
        PROVE  m = n
    BY <1>1, <2>3, KeptAfter DEF New
  <2> QED
    BY <1>1, <1>8, <1>9, <1>10, <2>1, <2>2, <2>3, KeptAfter
<1>11. ASSUME NEW m \in Kept', NEW p \in Tags(m)
       PROVE  p \notin regs_free' /\ \A a \in Regfile : areg_file'[a] # p
  BY <1>1, <1>8, <1>9, KeptAfter
<1> QED
  BY <1>5, <1>7, <1>10, <1>11 DEF RegsApart, Regfile, Aregs, Tags, ZERO_TAG, Rename!ZERO_TAG

(* What is in use stays in use, or is freed by one of three calls.         *)
LEMMA RegsThereAfter ==
  ASSUME RInv, NEW resolved, NEW finished, NEW committed, NEW offered,
         Stepping(resolved, finished, committed, offered)
  PROVE  RegsThere'
<1>1. KInv /\ committed \in Commits(Kept)
  BY DEF RInv, Stepping
<1>2. ASSUME NEW p \in AllocPregs, p # NumAregs - 1,
             p \notin regs_free', \A a \in Regfile : areg_file'[a] # p
      PROVE  \E m \in Kept' : p \in m.rd
  <2>1. ~Exc(committed)
    <3>1. Exc(committed) => p \in arch_used_pregs'
      BY <1>2, RegCalls
    <3>2. p \in arch_used_pregs' => \E a \in Regfile : areg_file'[a] = p
      BY <1>2, ArchUsedAfter DEF ArchUsed, Regfile, Aregs
    <3> QED
      BY <1>2, <3>1, <3>2
  <2>2. p \notin regs_free \/ (Allots(offered) /\ p = NewTag)
    BY <1>2, <2>1, RegCalls
  <2>3. ~Frees(p, committed)
    BY <1>2, <2>1, RegCalls
  <2>4. CASE Allots(offered) /\ p = NewTag
    <3>1. PICK d \in Accepted(offered) : TRUE
      BY <2>4 DEF Allots
    <3>2. PICK m \in Kept' : New(d, m, resolved)
      BY <1>1, KeptAfter
    <3>3. p \in Tags(m)
      BY <1>1, <2>4, <3>2, NewTags
    <3> QED
      BY <3>3 DEF Tags
  <2>5. ASSUME NEW a \in Regfile, areg_file[a] = p
        PROVE  FALSE
    <3>1. \A h : ~Retiring(h, a, committed)
      BY <2>3, <2>5 DEF Frees, Retiring
    <3> QED
      BY <1>2, <2>5, <3>1, ArfCalls
  <2>6. ASSUME NEW k \in Kept, p \in k.rd
        PROVE  \E m \in Kept' : p \in m.rd
    <3>1. p # ZERO_TAG /\ p \in Tags(k)
      BY <2>6, DataFlowAssumption DEF AllocPregs, ZERO_TAG, Rename!ZERO_TAG, Tags
    <3>2. k \notin committed
      <4>1. ASSUME k \in committed
            PROVE  FALSE
        <5>1. k.status # "exception"
          BY <2>1, <4>1, NoTrap
        <5>2. PICK a \in k.instr.dst : a # 0
          BY <2>6, <3>1 DEF RInv, DstFormed
        <5>3. Retiring(k, a, committed)
          BY <4>1, <5>1, <5>2 DEF Retiring
        <5>4. a \in Regfile
          BY <1>1, <5>2, KeptOne, InstrsAssumption DEF Regfile, InPipe
        <5>5. k.rd = {areg_file'[a]}
          BY <5>3, <5>4, ArfCalls
        <5> QED
          BY <1>2, <2>6, <5>4, <5>5
      <4> QED
        BY <4>1
    <3>3. CASE Remains(k, resolved, committed)
      BY <1>1, <2>6, <3>3, KeptAfter DEF From
    <3>4. CASE ~Remains(k, resolved, committed)
      <4>1. PICK b \in Branches(resolved) :
              Bad(resolved) /\ b \in Kept /\ Unres(b) /\ b.spec # {} /\ Age(b) < Age(k)
        BY <1>1, <2>1, <3>2, <3>4, Leavers
      <4>2. PICK y \in b.spec : p \in regs_tracked[y]
        BY <3>1, <4>1 DEF RInv, RegsTracked
      <4> QED
        BY <1>2, <2>1, <4>1, <4>2, RegCalls
    <3> QED
      BY <3>3, <3>4
  <2> QED
    BY <1>2, <2>2, <2>4, <2>5, <2>6 DEF RInv, RegsThere
<1> QED
  BY <1>2 DEF RegsThere, Regfile, Aregs, AllocPregs

(* Both sides of a pair of branches, for what the snapshots track.         *)
LEMMA BranchFrom ==
  ASSUME KInv, NEW resolved, NEW finished, NEW committed, NEW offered,
         Stepping(resolved, finished, committed, offered),
         NEW m \in Kept', Unres(m), NEW x \in m.spec
  PROVE  /\ \A k \in Kept : From(k, m, resolved, finished) =>
              /\ Unres(k) /\ x \in k.spec /\ x \in SnapshotIds
              /\ ~(Taking(offered) /\ x = snapshot_id)
         /\ \A d \in Accepted(offered) : New(d, m, resolved) =>
              Taking(offered) /\ x = snapshot_id /\ x \in SnapshotIds
<1>1. ASSUME NEW k \in Kept, From(k, m, resolved, finished)
      PROVE  /\ Unres(k) /\ x \in k.spec /\ x \in SnapshotIds
             /\ ~(Taking(offered) /\ x = snapshot_id)
  <2>1. Unres(k) /\ x \in k.spec
    BY <1>1 DEF From
  <2> QED
    BY <2>1, FreeIsNobodys, NewIsFree DEF Taking
<1>2. ASSUME NEW d \in Accepted(offered), New(d, m, resolved)
      PROVE  Taking(offered) /\ x = snapshot_id /\ x \in SnapshotIds
  <2>1. d.speculative /\ x = snapshot_id
    BY <1>2 DEF New
  <2> QED
    BY <2>1, NewIsFree DEF Taking
<1> QED
  BY <1>1, <1>2

(* A snapshot goes on tracking what is younger than its branch.            *)
LEMMA RegsTrackedAfter ==
  ASSUME RInv, NEW resolved, NEW finished, NEW committed, NEW offered,
         Stepping(resolved, finished, committed, offered)
  PROVE  RegsTracked'
<1>1. KInv /\ committed \in Commits(Kept)
  BY DEF RInv, Stepping
<1>2. ASSUME NEW m \in Kept', Unres(m), NEW x \in m.spec, NEW n \in Kept', NEW p \in Tags(n)
      PROVE  p \in regs_tracked'[x] <=> Age(m)' < Age(n)'
  <2>1. ASSUME NEW l \in Kept, Remains(l, resolved, committed), From(l, n, resolved, finished)
        PROVE  p \in Tags(l) /\ ~(Allots(offered) /\ p = NewTag)
    <3>1. p \in Tags(l)
      BY <2>1 DEF From, Tags
    <3>2. p \notin regs_free
      BY <3>1 DEF RInv, RegsApart
    <3> QED
      BY <1>1, <3>1, <3>2, NewDst DEF Allots
  <2>2. ASSUME NEW k \in Kept, Remains(k, resolved, committed), From(k, m, resolved, finished),
               NEW l \in Kept, Remains(l, resolved, committed), From(l, n, resolved, finished)
        PROVE  p \in regs_tracked'[x] <=> Age(m)' < Age(n)'
    <3>1. Unres(k) /\ x \in k.spec /\ x \in SnapshotIds /\ ~(Taking(offered) /\ x = snapshot_id)
      BY <1>1, <1>2, <2>2, BranchFrom
    <3>2. p \in Tags(l) /\ ~(Allots(offered) /\ p = NewTag)
      BY <2>1, <2>2
    <3>3. p \in regs_tracked'[x] <=> p \in regs_tracked[x]
      BY <3>1, <3>2, RegCalls
    <3>4. p \in regs_tracked[x] <=> Age(k) < Age(l)
      BY <3>1, <3>2 DEF RInv, RegsTracked
    <3> QED
      BY <1>1, <2>2, <3>3, <3>4, AgesAfter
  <2>3. ASSUME NEW k \in Kept, Remains(k, resolved, committed), From(k, m, resolved, finished),
               NEW d \in Accepted(offered), New(d, n, resolved)
        PROVE  p \in regs_tracked'[x] <=> Age(m)' < Age(n)'
    <3>1. x \in SnapshotIds /\ ~(Taking(offered) /\ x = snapshot_id)
      BY <1>1, <1>2, <2>3, BranchFrom
    <3>2. Allots(offered) /\ p = NewTag
      BY <1>1, <1>2, <2>3, NewTags
    <3>3. p \in regs_tracked'[x]
      BY <3>1, <3>2, RegCalls
    <3> QED
      BY <1>1, <2>3, <3>3, AgesAfter
  <2>4. ASSUME NEW d \in Accepted(offered), New(d, m, resolved)
        PROVE  p \in regs_tracked'[x] <=> Age(m)' < Age(n)'
    <3>1. x \in SnapshotIds /\ Taking(offered) /\ x = snapshot_id
      BY <1>1, <1>2, <2>4, BranchFrom
    <3>2. p \notin regs_tracked'[x]
      BY <3>1, RegCalls
    <3>3. ASSUME NEW l \in Kept, Remains(l, resolved, committed), From(l, n, resolved, finished)
          PROVE  ~(Age(m)' < Age(n)')
      BY <1>1, <2>4, <3>3, AgesAfter
    <3>4. ASSUME NEW e \in Accepted(offered), New(e, n, resolved)
          PROVE  ~(Age(m)' < Age(n)')
      <4>1. m = n
        BY <1>1, <2>4, <3>4, KeptAfter DEF New
      <4> QED
        BY <1>1, <4>1, AgesAfter
    <3> QED
      BY <1>1, <3>2, <3>3, <3>4, KeptAfter
  <2> QED
    BY <1>1, <2>2, <2>3, <2>4, KeptAfter
<1>3. ASSUME NEW m \in Kept', Unres(m), NEW x \in m.spec, NEW a \in Regfile
      PROVE  areg_file'[a] \notin regs_tracked'[x]
  <2>1. ASSUME NEW k \in Kept, Remains(k, resolved, committed), From(k, m, resolved, finished)
        PROVE  areg_file'[a] \notin regs_tracked'[x]
    <3>1. Unres(k) /\ x \in k.spec /\ x \in SnapshotIds
      BY <1>1, <1>3, <2>1, BranchFrom
    <3>2. Allots(offered) => NewTag \in regs_free
      BY <1>1, NewDst DEF Allots
    <3>3. areg_file'[a] \notin regs_tracked[x] /\ areg_file'[a] \notin regs_free
      <4>1. ASSUME NEW h \in Kept, h \in committed, areg_file'[a] \in Tags(h)
            PROVE  areg_file'[a] \notin regs_tracked[x] /\ areg_file'[a] \notin regs_free
        <5>1. ~(Age(k) < Age(h))
          BY <1>1, <4>1, HeadFirst
        <5> QED
          BY <3>1, <4>1, <5>1 DEF RInv, RegsTracked, RegsApart
      <4>2. areg_file[a] \notin regs_tracked[x] /\ areg_file[a] \notin regs_free
        BY <3>1 DEF RInv, RegsTracked, RegsApart
      <4> QED
        BY <4>1, <4>2, ArfAfter
    <3> QED
      BY <3>1, <3>2, <3>3, RegCalls
  <2>2. ASSUME NEW d \in Accepted(offered), New(d, m, resolved)
        PROVE  areg_file'[a] \notin regs_tracked'[x]
    <3>1. x \in SnapshotIds /\ Taking(offered) /\ x = snapshot_id
      BY <1>1, <1>3, <2>2, BranchFrom
    <3> QED
      BY <3>1, RegCalls
  <2> QED
    BY <1>1, <2>1, <2>2, KeptAfter
<1> QED
  BY <1>2, <1>3 DEF RegsTracked, Unres, Regfile, Aregs, Tags, ZERO_TAG, Rename!ZERO_TAG

(* The same of the store identifiers.                                      *)
LEMMA StoresApartAfter ==
  ASSUME RInv, NEW resolved, NEW finished, NEW committed, NEW offered,
         Stepping(resolved, finished, committed, offered)
  PROVE  StoresApart'
<1>1. KInv /\ committed \in Commits(Kept)
  BY DEF RInv, Stepping
<1>2. /\ \A i, j \in Kept : \A s \in i.store_id : s \in j.store_id => i = j
      /\ \A s \in StoreIds : s \in stores_free <=> \A i \in Kept : s \notin i.store_id
      /\ \A i \in Kept : i.store_id \subseteq StoreIds
  BY <1>1, KeptOne DEF RInv, StoresApart, InPipe
<1>3. Stashes(offered) => /\ get_store_id \in StoreIds /\ get_store_id \in stores_free
                          /\ ~Bad(resolved) /\ ~Exc(committed)
  BY <1>1, NewDst DEF Stashes
<1>4. \A h \in committed : h \in Kept
  BY <1>1, CommittedOne
<1>5. ASSUME NEW m \in Kept', NEW s \in m.store_id, NEW k \in Kept,
             Remains(k, resolved, committed), From(k, m, resolved, finished)
      PROVE  s \in k.store_id /\ s \notin stores_free /\ s \notin stores_free' /\ s \in StoreIds
  <2>1. s \in k.store_id
    BY <1>5 DEF From
  <2>2. s \in StoreIds /\ s \notin stores_free
    BY <1>2, <2>1
  <2>3. /\ ~Exc(committed) /\ k \notin committed
        /\ Bad(resolved) => \A b \in Branches(resolved) :
                              b \in Kept /\ Unres(b) /\ ~(Age(b) < Age(k))
    BY <1>1, <1>5, Leavers
  <2>4. \A h \in committed : s \notin h.store_id
    BY <1>2, <1>4, <2>1, <2>3
  <2>5. Bad(resolved) => \A b \in Branches(resolved) : \A y \in b.spec : s \notin stores_tracked[y]
    BY <2>1, <2>3 DEF RInv, StoresTracked
  <2> QED
    BY <2>1, <2>2, <2>3, <2>4, <2>5, StoreCalls
<1>6. ASSUME NEW m \in Kept', NEW s \in m.store_id, NEW d \in Accepted(offered), New(d, m, resolved)
      PROVE  /\ Stashes(offered) /\ s = get_store_id /\ s \in stores_free
             /\ s \notin stores_free' /\ s \in StoreIds
  <2>1. Stashes(offered) /\ s = get_store_id
    BY <1>1, <1>6, NewTags
  <2>2. \A h \in committed : s \notin h.store_id
    BY <1>2, <1>3, <1>4, <2>1
  <2> QED
    BY <1>3, <2>1, <2>2, StoreCalls
<1>7. ASSUME NEW m \in Kept', NEW n \in Kept', NEW s \in m.store_id, s \in n.store_id
      PROVE  m = n
  <2>1. ASSUME NEW k \in Kept, From(k, m, resolved, finished), s \in k.store_id,
               NEW l \in Kept, From(l, n, resolved, finished), s \in l.store_id
        PROVE  m = n
    <3>1. k = l
      BY <1>2, <2>1
    <3> QED
      BY <1>1, <2>1, <3>1, KeptAfter DEF From
  <2>2. ASSUME NEW d \in Accepted(offered), NEW e \in Accepted(offered),
               New(d, m, resolved), New(e, n, resolved)
        PROVE  m = n
    BY <1>1, <2>2, KeptAfter DEF New
  <2> QED
    BY <1>1, <1>5, <1>6, <1>7, <2>1, <2>2, KeptAfter
<1>8. ASSUME NEW s \in StoreIds, \A m \in Kept' : s \notin m.store_id
      PROVE  s \in stores_free'
  <2>1. CASE Exc(committed)
    BY <2>1, StoreCalls
  <2>2. CASE ~Exc(committed) /\ s \in stores_free
    <3>1. ~(Stashes(offered) /\ s = get_store_id)
      <4>1. ASSUME Stashes(offered), s = get_store_id
            PROVE  FALSE
        <5>1. PICK d \in Accepted(offered) : TRUE
          BY <4>1 DEF Stashes
        <5>2. PICK m \in Kept' : New(d, m, resolved)
          BY <1>1, KeptAfter
        <5>3. s \in m.store_id
          BY <1>1, <4>1, <5>2, NewTags
        <5> QED
          BY <1>8, <5>3
      <4> QED
        BY <4>1
    <3> QED
      BY <2>2, <3>1, StoreCalls
  <2>3. CASE ~Exc(committed) /\ s \notin stores_free
    <3>1. PICK k \in Kept : s \in k.store_id
      BY <1>2, <2>3
    <3>2. CASE k \in committed
      BY <2>3, <3>1, <3>2, StoreCalls
    <3>3. CASE Remains(k, resolved, committed)
      BY <1>1, <1>8, <3>1, <3>3, KeptAfter DEF From
    <3>4. CASE k \notin committed /\ ~Remains(k, resolved, committed)
      <4>1. PICK b \in Branches(resolved) :
              Bad(resolved) /\ b \in Kept /\ Unres(b) /\ b.spec # {} /\ Age(b) < Age(k)
        BY <1>1, <2>3, <3>4, Leavers
      <4>2. PICK y \in b.spec : s \in stores_tracked[y]
        BY <3>1, <4>1 DEF RInv, StoresTracked
      <4> QED
        BY <2>3, <4>1, <4>2, StoreCalls
    <3> QED
      BY <3>2, <3>3, <3>4
  <2> QED
    BY <2>1, <2>2, <2>3
<1>9. ASSUME NEW m \in Kept', NEW s \in m.store_id
      PROVE  s \notin stores_free'
  BY <1>1, <1>5, <1>6, KeptAfter
<1> QED
  BY <1>7, <1>8, <1>9 DEF StoresApart, StoreIds

LEMMA StoresTrackedAfter ==
  ASSUME RInv, NEW resolved, NEW finished, NEW committed, NEW offered,
         Stepping(resolved, finished, committed, offered)
  PROVE  StoresTracked'
<1>1. KInv
  BY DEF RInv
<1>2. ASSUME NEW m \in Kept', Unres(m), NEW x \in m.spec, NEW n \in Kept', NEW s \in n.store_id
      PROVE  s \in stores_tracked'[x] <=> Age(m)' < Age(n)'
  <2>1. ASSUME NEW l \in Kept, Remains(l, resolved, committed), From(l, n, resolved, finished)
        PROVE  s \in l.store_id /\ ~(Stashes(offered) /\ s = get_store_id)
    <3>1. s \in l.store_id /\ s \in StoreIds
      BY <1>1, <2>1, KeptOne DEF From, InPipe
    <3>2. s \notin stores_free
      BY <3>1 DEF RInv, StoresApart
    <3> QED
      BY <1>1, <3>1, <3>2, NewDst DEF Stashes
  <2>2. ASSUME NEW k \in Kept, Remains(k, resolved, committed), From(k, m, resolved, finished),
               NEW l \in Kept, Remains(l, resolved, committed), From(l, n, resolved, finished)
        PROVE  s \in stores_tracked'[x] <=> Age(m)' < Age(n)'
    <3>1. Unres(k) /\ x \in k.spec /\ x \in SnapshotIds /\ ~(Taking(offered) /\ x = snapshot_id)
      BY <1>1, <1>2, <2>2, BranchFrom
    <3>2. s \in l.store_id /\ ~(Stashes(offered) /\ s = get_store_id)
      BY <2>1, <2>2
    <3>3. s \in stores_tracked'[x] <=> s \in stores_tracked[x]
      BY <3>1, <3>2, StoreCalls
    <3>4. s \in stores_tracked[x] <=> Age(k) < Age(l)
      BY <3>1, <3>2 DEF RInv, StoresTracked
    <3> QED
      BY <1>1, <2>2, <3>3, <3>4, AgesAfter
  <2>3. ASSUME NEW k \in Kept, Remains(k, resolved, committed), From(k, m, resolved, finished),
               NEW d \in Accepted(offered), New(d, n, resolved)
        PROVE  s \in stores_tracked'[x] <=> Age(m)' < Age(n)'
    <3>1. x \in SnapshotIds /\ ~(Taking(offered) /\ x = snapshot_id)
      BY <1>1, <1>2, <2>3, BranchFrom
    <3>2. Stashes(offered) /\ s = get_store_id
      BY <1>1, <1>2, <2>3, NewTags
    <3>3. s \in stores_tracked'[x]
      BY <3>1, <3>2, StoreCalls
    <3> QED
      BY <1>1, <2>3, <3>3, AgesAfter
  <2>4. ASSUME NEW d \in Accepted(offered), New(d, m, resolved)
        PROVE  s \in stores_tracked'[x] <=> Age(m)' < Age(n)'
    <3>1. x \in SnapshotIds /\ Taking(offered) /\ x = snapshot_id
      BY <1>1, <1>2, <2>4, BranchFrom
    <3>2. s \notin stores_tracked'[x]
      BY <3>1, StoreCalls
    <3>3. ASSUME NEW l \in Kept, Remains(l, resolved, committed), From(l, n, resolved, finished)
          PROVE  ~(Age(m)' < Age(n)')
      BY <1>1, <2>4, <3>3, AgesAfter
    <3>4. ASSUME NEW e \in Accepted(offered), New(e, n, resolved)
          PROVE  ~(Age(m)' < Age(n)')
      <4>1. m = n
        BY <1>1, <2>4, <3>4, KeptAfter DEF New
      <4> QED
        BY <1>1, <4>1, AgesAfter
    <3> QED
      BY <1>1, <3>2, <3>3, <3>4, KeptAfter
  <2> QED
    BY <1>1, <2>2, <2>3, <2>4, KeptAfter
<1> QED
  BY <1>2 DEF StoresTracked, Unres

(* Only its own instruction makes a register ready again.                  *)
LEMMA ReadyAfter ==
  ASSUME RInv, NEW resolved, NEW finished, NEW committed, NEW offered,
         Stepping(resolved, finished, committed, offered)
  PROVE  ReadyWell'
<1>1. KInv /\ committed \in Commits(Kept)
  BY DEF RInv, Stepping
<1>2. Allots(offered) => NewTag \in regs_free /\ NewTag # ZERO_TAG
  <2>1. Allots(offered) => NewTag \in AllocPregs /\ NewTag \in regs_free
    BY <1>1, NewDst DEF Allots
  <2> QED
    BY <2>1, DataFlowAssumption DEF AllocPregs, ZERO_TAG, Rename!ZERO_TAG
<1>3. ZERO_TAG \in ready_table'
  BY <1>1, <1>2, ReadyCalls DEF RInv, ReadyWell
<1>4. ASSUME NEW a \in Regfile
      PROVE  areg_file'[a] \in ready_table'
  <2>1. areg_file'[a] \in ready_table /\ areg_file'[a] \notin regs_free
    BY ArfAfter DEF RInv, ReadyWell, RegsApart
  <2> QED
    BY <1>1, <1>2, <2>1, ReadyCalls
<1>5. ASSUME NEW m \in Kept', NEW p \in Tags(m)
      PROVE  p \in ready_table' <=> Done(m)
  <2>1. ASSUME NEW k \in Kept, From(k, m, resolved, finished)
        PROVE  p \in ready_table' <=> Done(m)
    <3>1. p \in Tags(k) /\ p # ZERO_TAG
      BY <2>1 DEF From, Tags
    <3>2. p \notin regs_free /\ \A j \in Kept : p \in j.rd => k = j
      BY <3>1 DEF RInv, RegsApart
    <3>3. p \in ready_table <=> Done(k)
      BY <3>1 DEF RInv, ReadyWell
    <3>4. p \in ready_table' <=> Done(k) \/ FinishesWell(k, finished)
      BY <1>1, <1>2, <3>1, <3>2, <3>3, ReadyCalls DEF Tags
    <3> QED
      BY <2>1, <3>4 DEF From
  <2>2. ASSUME NEW d \in Accepted(offered), New(d, m, resolved)
        PROVE  p \in ready_table' <=> Done(m)
    BY <1>1, <2>2, NewTags, ReadyCalls
  <2> QED
    BY <1>1, <2>1, <2>2, KeptAfter
<1> QED
  BY <1>3, <1>4, <1>5 DEF ReadyWell, Regfile, Aregs, Tags, Done, ZERO_TAG, Rename!ZERO_TAG

(* What the control flow manager asks of a serialised instruction.         *)
LEMMA SerialCalls ==
  ASSUME KInv, NEW resolved, NEW finished, NEW committed, NEW offered,
         Stepping(resolved, finished, committed, offered)
  PROVE  /\ serial' <=> \/ \E d \in Accepted(offered) : d.serialize
                        \/ serial /\ committed = {}
         /\ \A d \in Accepted(offered) : ~serial /\ (d.serialize => Kept = {})
<1>1. offered \in Offers(resolved, committed) /\ committed \in Commits(Kept)
  BY DEF Stepping
<1>2. serial' = SerialNext(RegisterCalls(offered), CommitCalls(committed)) /\ serial \in BOOLEAN
  BY DEF Stepping, Cycle, CFCycle, KInv, IInv, CFTypeOK
<1>3. CommitCalls(committed) # {} <=> committed # {}
  BY <1>1, CommittedOne
<1>4. ~Seq!free_rdy => Kept = {}
  <2>1. head \in Seq!SeqIdx /\ num \in Nat
    BY DEF KInv, IInv, CFTypeOK, Seq!AllocTypeOK
  <2>2. \A k \in Kept : Age(k) < num /\ Age(k) \in Nat
    BY KeptOne, KeptDistinct DEF Age, Seq!InUse
  <2> QED
    BY <2>1, <2>2 DEF Seq!free_rdy
<1>5. /\ (\E r \in Registered(RegisterCalls(offered)) : r.serialize)
           <=> \E d \in Accepted(offered) : d.serialize
      /\ \A d \in Accepted(offered) : ~serial /\ (d.serialize => ~Seq!free_rdy)
  <2>1. offered = {} \/ \E o \in [instr : {d \in Instrs : RegisterCall(d)}, pc_succ : Pcs] : offered = {o}
    BY <1>1 DEF Offers, Optional
  <2>2. CASE offered = {}
    BY <2>2 DEF Accepted, RegisterCalls, Registered
  <2>3. ASSUME NEW o, offered = {o}
        PROVE  /\ (\E r \in Registered(RegisterCalls(offered)) : r.serialize)
                    <=> \E d \in Accepted(offered) : d.serialize
               /\ \A d \in Accepted(offered) : ~serial /\ (d.serialize => ~Seq!free_rdy)
    <3> DEFINE call == [speculative |-> o.instr.speculative, store |-> o.instr.store,
                        serialize |-> o.instr.serialize, pc_succ |-> o.pc_succ]
    <3>1. RegisterCalls(offered) = {call}
      BY <2>3 DEF RegisterCalls
    <3>2. call.serialize = o.instr.serialize
      OBVIOUS
    <3> HIDE DEF call
    <3>3. Registered(RegisterCalls(offered)) = IF RegisterSuccess(call) THEN {call} ELSE {}
      BY <3>1 DEF Registered
    <3>4. Accepted(offered) = IF RegisterSuccess(call) THEN {o.instr} ELSE {}
      BY <2>3, <3>3 DEF Accepted
    <3>5. RegisterSuccess(call) => ~serial /\ (o.instr.serialize => ~Seq!free_rdy)
      BY <3>2 DEF RegisterSuccess
    <3> QED
      BY <3>2, <3>3, <3>4, <3>5
  <2> QED
    BY <2>1, <2>2, <2>3
<1>6. (\E d \in Accepted(offered) : d.serialize) => serial = FALSE
  BY <1>2, <1>5
<1>7. serial' = IF (\E d \in Accepted(offered) : d.serialize) \/ (serial /\ committed # {})
                  THEN ~serial ELSE serial
  BY <1>2, <1>3, <1>5 DEF SerialNext
<1> QED
  BY <1>2, <1>4, <1>5, <1>6, <1>7

(* Nothing is registered beside a serialised instruction.                  *)
LEMMA SerialAfter ==
  ASSUME RInv, NEW resolved, NEW finished, NEW committed, NEW offered,
         Stepping(resolved, finished, committed, offered)
  PROVE  SerialOne'
<1>1. KInv /\ committed \in Commits(Kept)
  BY DEF RInv, Stepping
<1>2. /\ serial => \E i \in Kept : i.instr.serialize
      /\ \A i \in Kept : i.instr.serialize => serial /\ \A j \in Kept : j = i
  BY DEF RInv, SerialOne
<1>3. \A h \in committed : h \in Kept
  BY <1>1, CommittedOne
<1>4. ASSUME serial'
      PROVE  \E m \in Kept' : m.instr.serialize
  <2>1. CASE \E d \in Accepted(offered) : d.serialize
    <3>1. PICK d \in Accepted(offered) : d.serialize
      BY <2>1
    <3> QED
      BY <1>1, <3>1, KeptAfter DEF New
  <2>2. CASE serial /\ committed = {}
    <3>1. PICK k \in Kept : k.instr.serialize
      BY <1>2, <2>2
    <3>2. ~Exc(committed)
      BY <1>1, <2>2, CommittedOne
    <3>3. Remains(k, resolved, committed)
      <4>1. \A b \in Branches(resolved) : b \in Kept /\ b = k
        BY <1>1, <1>2, <3>1, ResolvedOne DEF Stepping
      <4>2. Age(k) \in Nat
        BY <1>1, KeptDistinct
      <4> QED
        BY <2>2, <3>2, <4>1, <4>2 DEF Remains
    <3> QED
      BY <1>1, <3>1, <3>3, KeptAfter DEF From
  <2> QED
    BY <1>1, <1>4, <2>1, <2>2, SerialCalls
<1>5. ASSUME NEW m \in Kept', m.instr.serialize
      PROVE  serial' /\ \A n \in Kept' : n = m
  <2>1. ASSUME NEW k \in Kept, Remains(k, resolved, committed), From(k, m, resolved, finished)
        PROVE  serial' /\ \A n \in Kept' : n = m
    <3>1. k.instr.serialize /\ k \notin committed
      BY <1>5, <2>1 DEF From, Remains
    <3>2. serial /\ \A j \in Kept : j = k
      BY <1>2, <3>1
    <3>3. committed = {}
      BY <1>3, <3>1, <3>2
    <3>4. serial' /\ Accepted(offered) = {}
      BY <1>1, <3>2, <3>3, SerialCalls
    <3>5. \A n \in Kept' : From(k, n, resolved, finished)
      BY <1>1, <3>2, <3>4, KeptAfter
    <3> QED
      BY <1>1, <2>1, <3>4, <3>5, KeptAfter DEF From
  <2>2. ASSUME NEW d \in Accepted(offered), New(d, m, resolved)
        PROVE  serial' /\ \A n \in Kept' : n = m
    <3>1. d.serialize
      BY <1>5, <2>2 DEF New
    <3>2. serial' /\ Kept = {}
      BY <1>1, <3>1, SerialCalls
    <3>3. \A n \in Kept' : n.seq = tail
      BY <1>1, <3>2, KeptAfter DEF New
    <3> QED
      BY <1>1, <3>2, <3>3, KeptAfter
  <2> QED
    BY <1>1, <2>1, <2>2, KeptAfter
<1> QED
  BY <1>4, <1>5 DEF SerialOne

Writes(i, a) == a \in i.instr.dst

(* Holder, one element at a time.                                          *)
LEMMA HolderIs ==
  ASSUME NEW S, NEW a, a # 0
  PROVE  \A p : p \in Holder(S, a) <=>
           \/ (\A i \in S : ~Writes(i, a)) /\ p = areg_file[a]
           \/ \E i \in S : /\ Writes(i, a) /\ p \in i.rd
                           /\ \A k \in S : Writes(k, a) => Age(k) <= Age(i)
<1> DEFINE writers == {i \in S : a \in i.instr.dst}
           youngest == {j \in writers : \A k \in writers : Age(k) <= Age(j)}
<1>1. Holder(S, a) = IF writers = {} THEN {areg_file[a]} ELSE UNION {i.rd : i \in youngest}
  BY DEF Holder
<1>2. writers = {} <=> \A i \in S : ~Writes(i, a)
  BY DEF Writes
<1>3. \A p : p \in UNION {i.rd : i \in youngest} <=>
             \E i \in S : /\ Writes(i, a) /\ p \in i.rd
                          /\ \A k \in S : Writes(k, a) => Age(k) <= Age(i)
  BY DEF Writes
<1>4. ASSUME NEW i \in S, Writes(i, a)
      PROVE  writers # {}
  BY <1>4 DEF Writes
<1> HIDE DEF writers, youngest
<1>5. CASE writers = {}
  BY <1>1, <1>2, <1>5
<1>6. CASE writers # {}
  BY <1>1, <1>2, <1>3, <1>6
<1> QED
  BY <1>5, <1>6

(* The same of the next state.                                             *)
LEMMA HolderNextIs ==
  ASSUME NEW S, NEW a, a # 0
  PROVE  \A p : p \in Holder(S, a)' <=>
           \/ (\A i \in S : ~Writes(i, a)) /\ p = areg_file'[a]
           \/ \E i \in S : /\ Writes(i, a) /\ p \in i.rd
                           /\ \A k \in S : Writes(k, a) => Age(k)' <= Age(i)'
<1> DEFINE writers == {i \in S : a \in i.instr.dst}
           youngest == {j \in writers : \A k \in writers : Age(k)' <= Age(j)'}
<1>1. Holder(S, a)' = IF writers = {} THEN {areg_file'[a]} ELSE UNION {i.rd : i \in youngest}
  BY DEF Holder
<1>2. writers = {} <=> \A i \in S : ~Writes(i, a)
  BY DEF Writes
<1>3. \A p : p \in UNION {i.rd : i \in youngest} <=>
             \E i \in S : /\ Writes(i, a) /\ p \in i.rd
                          /\ \A k \in S : Writes(k, a) => Age(k)' <= Age(i)'
  BY DEF Writes
<1>4. ASSUME NEW i \in S, Writes(i, a)
      PROVE  writers # {}
  BY <1>4 DEF Writes
<1> HIDE DEF writers, youngest
<1>5. CASE writers = {}
  BY <1>1, <1>2, <1>5
<1>6. CASE writers # {}
  BY <1>1, <1>2, <1>3, <1>6
<1> QED
  BY <1>5, <1>6

(* The instructions that remain keep their order.                          *)
LEMMA OrderAfter ==
  ASSUME KInv, NEW resolved, NEW finished, NEW committed, NEW offered,
         Stepping(resolved, finished, committed, offered),
         NEW m \in Kept', NEW n \in Kept', NEW k \in Kept, NEW l \in Kept,
         Remains(k, resolved, committed), From(k, m, resolved, finished),
         Remains(l, resolved, committed), From(l, n, resolved, finished)
  PROVE  Age(m)' <= Age(n)' <=> Age(k) <= Age(l)
<1>1. Age(n)' < Age(m)' <=> Age(l) < Age(k)
  BY AgesAfter
<1>2. Age(m)' \in Nat /\ Age(n)' \in Nat /\ Age(k) \in Nat /\ Age(l) \in Nat
  BY AgesAfter, KeptDistinct
<1> QED
  BY <1>1, <1>2

(* T is what remains of the oldest instructions S.                         *)
PrefixKept(S, T, resolved, finished, committed) ==
  /\ \A k \in S : k \in Kept
  /\ \A m \in T : m \in Kept' /\ \E k \in S : /\ Remains(k, resolved, committed)
                                              /\ From(k, m, resolved, finished)
  /\ \A k \in S : \/ k \in committed
                  \/ /\ Remains(k, resolved, committed)
                     /\ \E m \in T : From(k, m, resolved, finished)
  /\ \A h \in committed : h \in S

(* A register has the same holder before and after what commit retires.    *)
LEMMA HolderKept ==
  ASSUME RInv, NEW resolved, NEW finished, NEW committed, NEW offered,
         Stepping(resolved, finished, committed, offered), ~Exc(committed),
         NEW S, NEW T, PrefixKept(S, T, resolved, finished, committed), NEW a \in Aregs
  PROVE  Holder(T, a)' = Holder(S, a)
<1>1. KInv /\ committed \in Commits(Kept)
  BY DEF RInv, Stepping
<1>2. CASE a = 0
  BY <1>2 DEF Holder, ZERO_TAG, Rename!ZERO_TAG
<1>3. CASE a # 0
  <2>1. a \in Regfile
    BY <1>3 DEF Regfile
  <2>2. \A h \in committed : /\ h \in S /\ h \in Kept /\ h.status # "exception"
                             /\ \A g \in committed : g = h
                             /\ \A k \in Kept : Age(h) <= Age(k)
                             /\ \A k \in S : ~Remains(h, resolved, committed)
    <3>1. \A h \in committed : h \in S /\ h \in Kept /\ h.seq = head
      BY <1>1, CommittedOne DEF PrefixKept
    <3>2. \A h \in committed : \A k \in Kept : ~(Age(k) < Age(h)) /\ Age(k) \in Nat /\ Age(h) \in Nat
      BY <1>1, <3>1, HeadFirst, KeptDistinct
    <3>3. \A h, g \in committed : g = h
      BY <1>1, <3>1, KeptDistinct
    <3> QED
      BY <3>1, <3>2, <3>3, NoTrap DEF Remains
  <2>3. \A h \in committed : Writes(h, a) => h.rd = {areg_file'[a]}
    BY <1>3, <2>1, <2>2, ArfCalls DEF Retiring, Writes
  <2>4. (\A h \in committed : ~Writes(h, a)) => areg_file'[a] = areg_file[a]
    BY <2>1, ArfCalls DEF Retiring, Writes
  <2>5. \A k \in S, m \in T : From(k, m, resolved, finished) =>
          m.rd = k.rd /\ (Writes(m, a) <=> Writes(k, a))
    BY DEF From, Writes
  <2>6. \A k, l \in S, m, n \in T :
          /\ From(k, m, resolved, finished) /\ From(l, n, resolved, finished)
          /\ Remains(k, resolved, committed) /\ Remains(l, resolved, committed)
          => (Age(m)' <= Age(n)' <=> Age(k) <= Age(l))
    BY <1>1, OrderAfter DEF PrefixKept
  <2>7. /\ \A m \in T : \E k \in S : Remains(k, resolved, committed) /\ From(k, m, resolved, finished)
        /\ \A k \in S : \/ k \in committed
                        \/ /\ Remains(k, resolved, committed)
                           /\ \E m \in T : From(k, m, resolved, finished)
        /\ \A k \in S : k \in Kept
    BY DEF PrefixKept
  <2>8. \A k, l \in S : Age(k) \in Nat /\ (Age(k) = Age(l) => k = l)
    BY <1>1, <2>7, KeptDistinct
  <2>9. \A k \in S : Age(k) <= Age(k)
    BY <2>8
  <2>10. \A k \in S, h \in committed : Age(k) <= Age(h) => k = h
    BY <2>2, <2>7, <2>8
  <2>11. ASSUME NEW p, p \in Holder(T, a)'
         PROVE  p \in Holder(S, a)
    <3>1. CASE (\A m \in T : ~Writes(m, a)) /\ p = areg_file'[a]
      <4>1. \A k \in S : Writes(k, a) => k \in committed
        BY <2>5, <2>7, <3>1
      <4>2. CASE \E h \in committed : Writes(h, a)
        <5>1. PICK h \in committed : Writes(h, a)
          BY <4>2
        <5>2. p \in h.rd /\ h \in S
          BY <2>2, <2>3, <3>1, <5>1
        <5>3. \A k \in S : Writes(k, a) => Age(k) <= Age(h)
          BY <2>2, <2>9, <4>1
        <5> QED
          BY <1>3, <5>1, <5>2, <5>3, HolderIs
      <4>3. CASE \A h \in committed : ~Writes(h, a)
        BY <1>3, <2>4, <3>1, <4>1, <4>3, HolderIs
      <4> QED
        BY <4>2, <4>3
    <3>2. ASSUME NEW m \in T, Writes(m, a), p \in m.rd,
                 \A n \in T : Writes(n, a) => Age(n)' <= Age(m)'
          PROVE  p \in Holder(S, a)
      <4>1. PICK k \in S : Remains(k, resolved, committed) /\ From(k, m, resolved, finished)
        BY <2>7
      <4>2. Writes(k, a) /\ p \in k.rd
        BY <2>5, <3>2, <4>1
      <4>3. \A l \in S : Writes(l, a) => Age(l) <= Age(k)
        BY <2>2, <2>5, <2>6, <2>7, <3>2, <4>1
      <4> QED
        BY <1>3, <4>2, <4>3, HolderIs
    <3> QED
      BY <1>3, <2>11, <3>1, <3>2, HolderNextIs
  <2>12. ASSUME NEW p, p \in Holder(S, a)
         PROVE  p \in Holder(T, a)'
    <3>1. CASE (\A k \in S : ~Writes(k, a)) /\ p = areg_file[a]
      <4>1. \A m \in T : ~Writes(m, a)
        BY <2>5, <2>7, <3>1
      <4>2. p = areg_file'[a]
        BY <2>2, <2>4, <3>1
      <4> QED
        BY <1>3, <4>1, <4>2, HolderNextIs
    <3>2. ASSUME NEW k \in S, Writes(k, a), p \in k.rd,
                 \A l \in S : Writes(l, a) => Age(l) <= Age(k)
          PROVE  p \in Holder(T, a)'
      <4>1. CASE k \in committed
        <5>1. \A l \in S : Writes(l, a) => l = k
          BY <2>10, <3>2, <4>1
        <5>2. \A m \in T : ~Writes(m, a)
          BY <2>2, <2>5, <2>7, <4>1, <5>1
        <5>3. p = areg_file'[a]
          BY <2>3, <3>2, <4>1
        <5> QED
          BY <1>3, <5>2, <5>3, HolderNextIs
      <4>2. CASE k \notin committed
        <5>1. PICK m \in T : From(k, m, resolved, finished)
          BY <2>7, <4>2
        <5>2. Remains(k, resolved, committed) /\ Writes(m, a) /\ p \in m.rd
          BY <2>5, <2>7, <3>2, <4>2, <5>1
        <5>3. \A n \in T : Writes(n, a) => Age(n)' <= Age(m)'
          BY <2>5, <2>6, <2>7, <3>2, <5>1, <5>2
        <5> QED
          BY <1>3, <5>2, <5>3, HolderNextIs
      <4> QED
        BY <4>1, <4>2
    <3> QED
      BY <1>3, <2>12, <3>1, <3>2, HolderIs
  <2> QED
    BY <2>11, <2>12
<1> QED
  BY <1>2, <1>3

(* With the instruction that is renamed, which is the youngest.            *)
LEMMA HolderNew ==
  ASSUME RInv, NEW resolved, NEW finished, NEW committed, NEW offered,
         Stepping(resolved, finished, committed, offered),
         NEW d \in Accepted(offered), NEW n \in Kept', New(d, n, resolved), NEW T,
         \A m \in T : /\ m \in Kept'
                      /\ \E k \in Kept : /\ Remains(k, resolved, committed)
                                         /\ From(k, m, resolved, finished),
         NEW a \in Regfile
  PROVE  Holder(T \cup {n}, a)' = IF a \in d.dst THEN {NewTag} ELSE Holder(T, a)'
<1>1. KInv /\ a # 0
  BY DEF RInv, Regfile
<1>2. \A m \in T : Age(m)' <= Age(n)' /\ ~(Age(n)' <= Age(m)')
  <2>1. ASSUME NEW m \in T
        PROVE  Age(m)' < Age(n)' /\ Age(m)' \in Nat /\ Age(n)' \in Nat
    BY <1>1, AgesAfter
  <2> QED
    BY <2>1
<1>3. Age(n)' <= Age(n)'
  <2>1. Age(n)' \in Nat
    BY <1>1, AgesAfter
  <2> QED
    BY <2>1
<1>4. Writes(n, a) <=> a \in d.dst
  BY DEF New, Writes
<1>5. CASE a \in d.dst
  <2>1. n.rd = {NewTag}
    <3>1. /\ n.rd # {} /\ \A p, q \in n.rd : p = q
          /\ \A p \in n.rd : p # ZERO_TAG
      BY <1>1, <1>5, NewTags
    <3>2. \A p \in n.rd : p = NewTag
      BY <1>1, <3>1, NewTags DEF Tags
    <3> QED
      BY <3>1, <3>2
  <2>2. \A p : p \in Holder(T \cup {n}, a)' <=> p \in n.rd
    BY <1>1, <1>2, <1>3, <1>4, <1>5, HolderNextIs
  <2> QED
    BY <1>5, <2>1, <2>2
<1>6. CASE a \notin d.dst
  <2>1. \A p : p \in Holder(T \cup {n}, a)' <=> p \in Holder(T, a)'
    BY <1>1, <1>4, <1>6, HolderNextIs
  <2> QED
    BY <1>6, <2>1
<1> QED
  BY <1>5, <1>6

(* What remains of the whole pipe, when nothing brings an older map back.  *)
Remaining(resolved, finished, committed) ==
  {m \in Kept' : \E k \in Kept : /\ Remains(k, resolved, committed)
                                 /\ From(k, m, resolved, finished)}

LEMMA AllRemain ==
  ASSUME KInv, NEW resolved, NEW finished, NEW committed, NEW offered,
         Stepping(resolved, finished, committed, offered), ~Exc(committed), ~Bad(resolved),
         NEW T, T = Remaining(resolved, finished, committed)
  PROVE  PrefixKept(Kept, T, resolved, finished, committed)
<1>1. committed \in Commits(Kept)
  BY DEF Stepping
<1>2. \A h \in committed : h \in Kept
  BY <1>1, CommittedOne
<1>3. \A k \in Kept : k \in committed \/ Remains(k, resolved, committed)
  BY Leavers
<1>4. \A m \in T : m \in Kept' /\ \E k \in Kept : /\ Remains(k, resolved, committed)
                                                  /\ From(k, m, resolved, finished)
  BY DEF Remaining
<1>5. \A k \in Kept : Remains(k, resolved, committed) => \E m \in T : From(k, m, resolved, finished)
  BY KeptAfter DEF Remaining
<1> QED
  BY <1>2, <1>3, <1>4, <1>5 DEF PrefixKept

(* The map after a cycle that brings no older one back.                    *)
LEMMA HolderNow ==
  ASSUME RInv, NEW resolved, NEW finished, NEW committed, NEW offered,
         Stepping(resolved, finished, committed, offered), ~Exc(committed), ~Bad(resolved),
         NEW a \in Regfile, NEW S, S = Kept'
  PROVE  Holder(S, a)' = {IF \E d \in Accepted(offered) : a \in d.dst
                            THEN NewTag ELSE rename_table[a]}
<1>1. KInv
  BY DEF RInv
<1> DEFINE T == Remaining(resolved, finished, committed)
<1>2. PICK U : U = T
  OBVIOUS
<1>3. PrefixKept(Kept, U, resolved, finished, committed)
  BY <1>1, <1>2, AllRemain
<1>4. a \in Aregs /\ a # 0
  BY DEF Regfile
<1>5. Holder(U, a)' = Holder(Kept, a)
  BY <1>3, <1>4, HolderKept
<1>6. Holder(Kept, a) = {rename_table[a]}
  BY <1>4 DEF RInv, TableMaps, get_src, Rename!Lookup
<1>7. \A m \in U : /\ m \in Kept'
                   /\ \E k \in Kept : /\ Remains(k, resolved, committed)
                                      /\ From(k, m, resolved, finished)
  BY <1>3 DEF PrefixKept
<1>8. CASE Accepted(offered) = {}
  <2>1. S = U
    BY <1>1, <1>2, <1>8, KeptAfter DEF Remaining
  <2> QED
    BY <1>5, <1>6, <1>8, <2>1
<1>9. ASSUME NEW d \in Accepted(offered)
      PROVE  Holder(S, a)' = {IF \E e \in Accepted(offered) : a \in e.dst
                                THEN NewTag ELSE rename_table[a]}
  <2>1. PICK n \in Kept' : New(d, n, resolved)
    BY <1>1, KeptAfter
  <2>2. \A e \in Accepted(offered) : e = d
    BY <1>1, NewDst
  <2>3. S = U \cup {n}
    <3>1. \A m \in Kept' : \A e \in Accepted(offered) : New(e, m, resolved) => m = n
      BY <1>1, <2>1, KeptAfter DEF New
    <3> QED
      BY <1>1, <1>2, <2>1, <3>1, KeptAfter DEF Remaining
  <2>4. Holder(U \cup {n}, a)' = IF a \in d.dst THEN {NewTag} ELSE Holder(U, a)'
    BY <1>7, <2>1, HolderNew
  <2> QED
    BY <1>5, <1>6, <2>2, <2>3, <2>4
<1> QED
  BY <1>8, <1>9

(* The table is the file, a copy, or itself with the new name.             *)
LEMMA TableAfter ==
  ASSUME RInv, NEW resolved, NEW finished, NEW committed, NEW offered,
         Stepping(resolved, finished, committed, offered)
  PROVE  TableMaps'
<1>1. KInv /\ resolved \in Resolutions(Kept) /\ committed \in Commits(Kept)
  BY DEF RInv, Stepping
<1>2. PICK S : S = Kept'
  OBVIOUS
<1>3. ASSUME NEW a \in Aregs
      PROVE  Holder(S, a)' = {get_src(a)'}
  <2>1. CASE a = 0
    BY <2>1 DEF Holder, get_src, Rename!Lookup, ZERO_TAG, Rename!ZERO_TAG
  <2>2. CASE a # 0
    <3>1. a \in Regfile
      BY <2>2 DEF Regfile
    <3>2. get_src(a)' = rename_table'[a]
      BY <2>2 DEF get_src, Rename!Lookup
    <3>3. CASE Exc(committed)
      <4>1. S = {} /\ rename_table' = areg_file'
        BY <1>1, <1>2, <3>3, Leavers, TableCalls
      <4>2. \A p : p \in Holder(S, a)' <=> p = areg_file'[a]
        BY <2>2, <4>1, HolderNextIs
      <4> QED
        BY <3>2, <4>1, <4>2
    <3>4. CASE ~Exc(committed) /\ Bad(resolved)
      <4>1. PICK b \in Branches(resolved) : b \in Kept /\ Unres(b) /\ \A c \in Branches(resolved) : c = b
        BY <1>1, <3>4, ResolvedOne
      <4>2. PICK x \in b.spec : TRUE
        BY <4>1 DEF Unres
      <4>3. rename_table' = rename_copies[x]
        BY <3>4, TableCalls
      <4>4. {rename_copies[x][a]} = Holder(Upto(b), a)
        BY <3>1, <4>1 DEF RInv, CopyMaps
      <4>5. PrefixKept(Upto(b), S, resolved, finished, committed)
        <5>1. \A k \in Kept : k \in committed => Age(k) <= Age(b)
          BY <1>1, <4>1, HeadFirst, KeptDistinct
        <5>2. Accepted(offered) = {}
          BY <1>1, <3>4, AcceptedOne DEF Stepping
        <5>3. \A k \in Kept : Remains(k, resolved, committed) <=> k \notin committed /\ Age(k) <= Age(b)
          BY <3>4, <4>1 DEF Remains
        <5>4. \A h \in committed : h \in Upto(b)
          BY <1>1, <5>1, CommittedOne DEF Upto
        <5>5. \A m \in S : m \in Kept' /\ \E k \in Upto(b) : /\ Remains(k, resolved, committed)
                                                             /\ From(k, m, resolved, finished)
          BY <1>1, <1>2, <5>2, <5>3, KeptAfter DEF Upto
        <5>6. \A k \in Upto(b) : \/ k \in committed
                                 \/ /\ Remains(k, resolved, committed)
                                    /\ \E m \in S : From(k, m, resolved, finished)
          BY <1>1, <1>2, <5>3, KeptAfter DEF Upto
        <5> QED
          BY <5>4, <5>5, <5>6 DEF PrefixKept, Upto
      <4>6. Holder(S, a)' = Holder(Upto(b), a)
        BY <3>4, <4>5, HolderKept
      <4> QED
        BY <3>2, <4>3, <4>4, <4>6
    <3>5. CASE ~Exc(committed) /\ ~Bad(resolved)
      <4>1. rename_table'[a] = IF \E d \in Accepted(offered) : a \in d.dst
                                 THEN NewTag ELSE rename_table[a]
        BY <3>1, <3>5, TableCalls
      <4>2. Holder(S, a)' = {IF \E d \in Accepted(offered) : a \in d.dst
                               THEN NewTag ELSE rename_table[a]}
        BY <1>2, <3>1, <3>5, HolderNow
      <4> QED
        BY <3>2, <4>1, <4>2
    <3> QED
      BY <3>3, <3>4, <3>5
  <2> QED
    BY <2>1, <2>2
<1>4. ASSUME NEW a \in Aregs
      PROVE  Holder(Kept, a)' = {get_src(a)'}
  BY <1>2, <1>3 DEF Holder
<1> QED
  BY <1>4 DEF TableMaps, Aregs

(* What is older than an instruction that remains.                         *)
LEMMA OlderKept ==
  ASSUME KInv, NEW resolved, NEW finished, NEW committed, NEW offered,
         Stepping(resolved, finished, committed, offered),
         NEW k \in Kept, Remains(k, resolved, committed),
         NEW m \in Kept', From(k, m, resolved, finished)
  PROVE  /\ \A S, T : S = Upto(k) /\ T = Upto(m)'
                      => PrefixKept(S, T, resolved, finished, committed)
         /\ \A S, T : S = Before(k) /\ T = Before(m)'
                      => PrefixKept(S, T, resolved, finished, committed)
<1>1. committed \in Commits(Kept)
  BY DEF Stepping
<1>2. \A h \in committed : h \in Kept /\ Age(h) < Age(k)
  <2>1. ASSUME NEW h \in committed
        PROVE  h \in Kept /\ Age(h) < Age(k)
    <3>1. h \in Kept /\ ~(Age(k) < Age(h)) /\ k # h
      BY <1>1, HeadFirst DEF Remains
    <3>2. Age(h) \in Nat /\ Age(k) \in Nat /\ Age(h) # Age(k)
      BY <3>1, KeptDistinct
    <3> QED
      BY <3>1, <3>2
  <2> QED
    BY <2>1
<1>3. \A l \in Kept : Age(l) <= Age(k) => l \in committed \/ Remains(l, resolved, committed)
  <2>1. ASSUME NEW l \in Kept, Age(l) <= Age(k), l \notin committed
        PROVE  Remains(l, resolved, committed)
    <3>1. Age(l) \in Nat /\ Age(k) \in Nat
      BY KeptDistinct
    <3>2. Bad(resolved) => \A b \in Branches(resolved) : b \in Kept /\ Age(b) \in Nat
      BY Leavers, KeptDistinct
    <3> QED
      BY <2>1, <3>1, <3>2 DEF Remains
  <2> QED
    BY <2>1
<1>4. \A n \in Kept' : Age(n)' <= Age(m)' =>
        \E l \in Kept : Remains(l, resolved, committed) /\ From(l, n, resolved, finished)
  <2>1. ASSUME NEW n \in Kept', NEW d \in Accepted(offered), New(d, n, resolved)
        PROVE  ~(Age(n)' <= Age(m)')
    <3>1. Age(m)' < Age(n)' /\ Age(m)' \in Nat /\ Age(n)' \in Nat
      BY <2>1, AgesAfter
    <3> QED
      BY <3>1
  <2> QED
    BY <2>1, KeptAfter
<1>5. ASSUME NEW n \in Kept', NEW l \in Kept, Remains(l, resolved, committed),
             From(l, n, resolved, finished)
      PROVE  /\ Age(n)' <= Age(m)' <=> Age(l) <= Age(k)
             /\ Age(n)' < Age(m)' <=> Age(l) < Age(k)
  BY <1>5, OrderAfter, AgesAfter
<1>6. \A l \in Kept : Remains(l, resolved, committed) => \E n \in Kept' : From(l, n, resolved, finished)
  BY KeptAfter
<1>7. \A l \in Kept : Age(l) < Age(k) => Age(l) <= Age(k)
  BY KeptDistinct
<1>8. \A n \in Kept' : Age(n)' < Age(m)' => Age(n)' <= Age(m)'
  <2>1. ASSUME NEW n \in Kept'
        PROVE  Age(n)' \in Nat /\ Age(m)' \in Nat
    BY AgesAfter
  <2> QED
    BY <2>1
<1>9. ASSUME NEW S, NEW T, S = Upto(k), T = Upto(m)'
      PROVE  PrefixKept(S, T, resolved, finished, committed)
  <2>1. \A l : l \in S <=> l \in Kept /\ Age(l) <= Age(k)
    BY <1>9 DEF Upto
  <2>2. \A n : n \in T <=> n \in Kept' /\ Age(n)' <= Age(m)'
    BY <1>9 DEF Upto
  <2>3. \A h \in committed : h \in S
    BY <1>2, <1>7, <2>1
  <2>4. \A n \in T : n \in Kept' /\ \E l \in S : /\ Remains(l, resolved, committed)
                                                 /\ From(l, n, resolved, finished)
    BY <1>4, <1>5, <2>1, <2>2
  <2>5. \A l \in S : \/ l \in committed
                     \/ /\ Remains(l, resolved, committed)
                        /\ \E n \in T : From(l, n, resolved, finished)
    BY <1>3, <1>5, <1>6, <2>1, <2>2
  <2> QED
    BY <2>1, <2>3, <2>4, <2>5 DEF PrefixKept
<1>10. ASSUME NEW S, NEW T, S = Before(k), T = Before(m)'
       PROVE  PrefixKept(S, T, resolved, finished, committed)
  <2>1. \A l : l \in S <=> l \in Kept /\ Age(l) < Age(k)
    BY <1>10 DEF Before
  <2>2. \A n : n \in T <=> n \in Kept' /\ Age(n)' < Age(m)'
    BY <1>10 DEF Before
  <2>3. \A h \in committed : h \in S
    BY <1>2, <2>1
  <2>4. \A n \in T : n \in Kept' /\ \E l \in S : /\ Remains(l, resolved, committed)
                                                 /\ From(l, n, resolved, finished)
    BY <1>4, <1>5, <1>8, <2>1, <2>2
  <2>5. \A l \in S : \/ l \in committed
                     \/ /\ Remains(l, resolved, committed)
                        /\ \E n \in T : From(l, n, resolved, finished)
    BY <1>3, <1>5, <1>6, <1>7, <2>1, <2>2
  <2> QED
    BY <2>1, <2>3, <2>4, <2>5 DEF PrefixKept
<1> QED
  BY <1>9, <1>10

(* A copy lasts as long as its branch is unresolved.                       *)
LEMMA CopyAfter ==
  ASSUME RInv, NEW resolved, NEW finished, NEW committed, NEW offered,
         Stepping(resolved, finished, committed, offered)
  PROVE  CopyMaps'
<1>1. KInv
  BY DEF RInv
<1>2. ASSUME NEW m \in Kept', Unres(m), NEW x \in m.spec, NEW a \in Regfile
      PROVE  {rename_copies'[x][a]} = Holder(Upto(m), a)'
  <2>1. PICK T : T = Upto(m)'
    OBVIOUS
  <2>2. a \in Aregs
    BY DEF Regfile
  <2>3. ASSUME NEW k \in Kept, Remains(k, resolved, committed), From(k, m, resolved, finished)
        PROVE  {rename_copies'[x][a]} = Holder(T, a)'
    <3>1. PICK S : S = Upto(k)
      OBVIOUS
    <3>2. Unres(k) /\ x \in k.spec /\ x \in SnapshotIds /\ ~(Taking(offered) /\ x = snapshot_id)
      BY <1>1, <1>2, <2>3, BranchFrom
    <3>3. rename_copies'[x][a] = rename_copies[x][a]
      BY <3>2, TableCalls
    <3>4. {rename_copies[x][a]} = Holder(S, a)
      BY <3>1, <3>2 DEF RInv, CopyMaps
    <3>5. PrefixKept(S, T, resolved, finished, committed)
      BY <1>1, <2>1, <2>3, <3>1, OlderKept
    <3>6. Holder(T, a)' = Holder(S, a)
      BY <2>2, <2>3, <3>5, HolderKept DEF Remains
    <3> QED
      BY <3>3, <3>4, <3>6
  <2>4. ASSUME NEW d \in Accepted(offered), New(d, m, resolved)
        PROVE  {rename_copies'[x][a]} = Holder(T, a)'
    <3>1. x \in SnapshotIds /\ Taking(offered) /\ x = snapshot_id
      BY <1>1, <1>2, <2>4, BranchFrom
    <3>2. rename_copies'[x][a] = IF \E e \in Accepted(offered) : a \in e.dst
                                   THEN NewTag ELSE rename_table[a]
      BY <3>1, TableCalls
    <3>3. ~Exc(committed) /\ ~Bad(resolved)
      BY <1>1, NewDst
    <3>4. \A n \in Kept' : Age(n)' <= Age(m)'
      <4>1. ASSUME NEW n \in Kept'
            PROVE  Age(n)' \in Nat /\ Age(m)' \in Nat
        BY <1>1, AgesAfter
      <4>2. ASSUME NEW n \in Kept', NEW k \in Kept, Remains(k, resolved, committed),
                   From(k, n, resolved, finished)
            PROVE  Age(n)' < Age(m)'
        BY <1>1, <2>4, <4>2, AgesAfter
      <4>3. ASSUME NEW n \in Kept', NEW e \in Accepted(offered), New(e, n, resolved)
            PROVE  n = m
        BY <1>1, <2>4, <4>3, KeptAfter DEF New
      <4> QED
        BY <1>1, <4>1, <4>2, <4>3, KeptAfter
    <3>5. T = Kept'
      BY <2>1, <3>4 DEF Upto
    <3> QED
      BY <3>2, <3>3, <3>5, HolderNow
  <2>5. {rename_copies'[x][a]} = Holder(T, a)'
    BY <1>1, <2>3, <2>4, KeptAfter
  <2> QED
    BY <2>1, <2>5 DEF Holder
<1> QED
  BY <1>2 DEF CopyMaps, Unres, Regfile, Aregs

(* The sources of an instruction keep their holders until it leaves.       *)
LEMMA SrcAfter ==
  ASSUME RInv, NEW resolved, NEW finished, NEW committed, NEW offered,
         Stepping(resolved, finished, committed, offered)
  PROVE  SrcMaps'
<1>1. KInv
  BY DEF RInv
<1>2. ASSUME NEW m \in Kept'
      PROVE  m.src = UNION {Holder(Before(m), a)' : a \in m.instr.src}
  <2>1. PICK T : T = Before(m)'
    OBVIOUS
  <2>2. ASSUME NEW k \in Kept, Remains(k, resolved, committed), From(k, m, resolved, finished)
        PROVE  m.src = UNION {Holder(T, a)' : a \in m.instr.src}
    <3>1. PICK S : S = Before(k)
      OBVIOUS
    <3>2. m.src = k.src /\ m.instr = k.instr
      BY <2>2 DEF From
    <3>3. k.src = UNION {Holder(S, a) : a \in k.instr.src}
      BY <3>1 DEF RInv, SrcMaps
    <3>4. PrefixKept(S, T, resolved, finished, committed)
      BY <1>1, <2>1, <2>2, <3>1, OlderKept
    <3>5. k.instr.src \subseteq Aregs
      BY <1>1, KeptOne, InstrsAssumption DEF InPipe
    <3>6. \A a \in k.instr.src : Holder(T, a)' = Holder(S, a)
      BY <2>2, <3>4, <3>5, HolderKept DEF Remains
    <3> QED
      BY <3>2, <3>3, <3>6
  <2>3. ASSUME NEW d \in Accepted(offered), New(d, m, resolved)
        PROVE  m.src = UNION {Holder(T, a)' : a \in m.instr.src}
    <3>1. m.src = {get_src(a) : a \in d.src} /\ m.instr = d
      BY <2>3 DEF New, SrcTags
    <3>2. ~Exc(committed) /\ ~Bad(resolved) /\ d.src \subseteq Aregs
      BY <1>1, NewDst
    <3>3. T = Remaining(resolved, finished, committed)
      <4>1. ASSUME NEW n \in Kept', NEW k \in Kept, Remains(k, resolved, committed),
                   From(k, n, resolved, finished)
            PROVE  Age(n)' < Age(m)'
        BY <1>1, <2>3, <4>1, AgesAfter
      <4>2. ASSUME NEW n \in Kept', NEW e \in Accepted(offered), New(e, n, resolved)
            PROVE  ~(Age(n)' < Age(m)')
        <5>1. n = m
          BY <1>1, <2>3, <4>2, KeptAfter DEF New
        <5> QED
          BY <1>1, <5>1, AgesAfter
      <4> QED
        BY <1>1, <2>1, <4>1, <4>2, KeptAfter DEF Before, Remaining
    <3>4. PrefixKept(Kept, T, resolved, finished, committed)
      BY <1>1, <3>2, <3>3, AllRemain
    <3>5. \A a \in d.src : Holder(T, a)' = Holder(Kept, a)
      BY <3>2, <3>4, HolderKept
    <3>6. \A a \in d.src : Holder(Kept, a) = {get_src(a)}
      BY <3>2 DEF RInv, TableMaps
    <3> QED
      BY <3>1, <3>5, <3>6
  <2>4. m.src = UNION {Holder(T, a)' : a \in m.instr.src}
    BY <1>1, <2>2, <2>3, KeptAfter
  <2> QED
    BY <2>1, <2>4 DEF Holder
<1> QED
  BY <1>2 DEF SrcMaps

(* All parts together, and the invariant of the specification.             *)
LEMMA CycleRInv ==
  ASSUME RInv, NEW resolved, NEW finished, NEW committed, NEW offered,
         Stepping(resolved, finished, committed, offered)
  PROVE  RInv'
<1>1. KInv'
  BY CycleKInv DEF RInv
<1>2. DstFormed' /\ ArchUsed' /\ RegsApart' /\ RegsThere' /\ RegsTracked'
  BY DstAfter, ArchUsedAfter, RegsApartAfter, RegsThereAfter, RegsTrackedAfter
<1>3. StoresApart' /\ StoresTracked' /\ ReadyWell' /\ SerialOne'
  BY StoresApartAfter, StoresTrackedAfter, ReadyAfter, SerialAfter
<1>4. TableMaps' /\ CopyMaps' /\ SrcMaps'
  BY TableAfter, CopyAfter, SrcAfter
<1> QED
  BY <1>1, <1>2, <1>3, <1>4 DEF RInv

LEMMA InitRInv == Init => RInv
<1> SUFFICES ASSUME Init PROVE RInv
  OBVIOUS
<1>1. KInv
  BY InitKInv
<1>2. pipe = {} /\ Kept = {}
  BY DEF Init, Kept
<1>3. /\ regs_free = NumAregs - 1 .. NumPregs - 2
      /\ stores_free = StoreIds
      /\ ready_table = 0 .. NumPregs - 1 /\ arch_used_pregs = 0 .. NumAregs - 1
      /\ rename_table = areg_file /\ serial = FALSE
  BY DataFlowAssumption
  DEF Init, DFInit, CFInit, Regs!Init, Stores!Init, Rename!Init, StoreIds
<1>4. \A a \in Regfile : areg_file[a] = a - 1 /\ a \in 1 .. NumAregs - 1
  BY DataFlowAssumption DEF Init, DFInit, Rename!InitialMap, Rename!Aregs, Regfile, Aregs
<1>5. \A a \in 1 .. NumAregs - 1 : a \in Regfile
  BY DataFlowAssumption DEF Regfile, Aregs
<1>6. DstFormed /\ StoresApart /\ StoresTracked /\ RegsTracked /\ CopyMaps /\ SrcMaps /\ SerialOne
  BY <1>2, <1>3
  DEF DstFormed, StoresApart, StoresTracked, RegsTracked, CopyMaps, SrcMaps, SerialOne
<1>7. ReadyWell
  BY <1>2, <1>3, <1>4, DataFlowAssumption DEF ReadyWell, ZERO_TAG, Rename!ZERO_TAG
<1>8. RegsApart
  BY <1>2, <1>3, <1>4, DataFlowAssumption DEF RegsApart
<1>9. \A p \in Nat : p < NumAregs - 1 => \E a \in Regfile : areg_file[a] = p
  <2>1. ASSUME NEW p \in Nat, p < NumAregs - 1
        PROVE  p + 1 \in Regfile /\ areg_file[p + 1] = p
    BY <1>4, <1>5, <2>1, DataFlowAssumption
  <2> QED
    BY <2>1
<1>10. RegsThere
  BY <1>3, <1>9, DataFlowAssumption DEF RegsThere, AllocPregs
<1>11. ArchUsed
  BY <1>3, <1>4, <1>9, DataFlowAssumption DEF ArchUsed
<1>12. TableMaps
  <2>1. ASSUME NEW a \in Aregs
        PROVE  {get_src(a)} = Holder(Kept, a)
    <3>1. CASE a = 0
      BY <3>1 DEF Holder, get_src, Rename!Lookup, ZERO_TAG, Rename!ZERO_TAG
    <3>2. CASE a # 0
      <4>1. get_src(a) = areg_file[a]
        BY <1>3, <3>2 DEF get_src, Rename!Lookup
      <4>2. \A p : p \in Holder(Kept, a) <=> p = areg_file[a]
        BY <1>2, <3>2, HolderIs
      <4> QED
        BY <4>1, <4>2
    <3> QED
      BY <3>1, <3>2
  <2> QED
    BY <2>1 DEF TableMaps
<1> QED
  BY <1>1, <1>6, <1>7, <1>8, <1>10, <1>11, <1>12 DEF RInv

LEMMA NextRInv == RInv /\ [Next]_vars => RInv'
<1> SUFFICES ASSUME RInv, [Next]_vars PROVE RInv'
  OBVIOUS
<1>1. CASE Next
  <2>1. PICK resolved, finished, committed, offered : Stepping(resolved, finished, committed, offered)
    BY <1>1 DEF Next, Stepping
  <2> QED
    BY <2>1, CycleRInv
<1>2. CASE UNCHANGED vars
  <2>1. KInv'
    BY <1>2, NextKInv DEF RInv
  <2>2. /\ UNCHANGED <<pipe, kill, head, num, tail, serial>>
        /\ UNCHANGED dflow
        /\ Kept' = Kept
    BY <1>2 DEF vars, cflow, Kept, Killed
  <2>3. UNCHANGED <<regs_free, regs_tracked, stores_free, stores_tracked, rename_table,
                    rename_copies, areg_file, arch_used_pregs, ready_table>>
    BY <2>2 DEF dflow
  <2>4. DstFormed' /\ RegsApart' /\ RegsThere' /\ ArchUsed' /\ StoresApart' /\ ReadyWell' /\ SerialOne'
    BY <2>2, <2>3
    DEF RInv, DstFormed, RegsApart, RegsThere, ArchUsed, StoresApart, ReadyWell, SerialOne,
        Tags, Done, Regfile, Aregs, AllocPregs, StoreIds, ZERO_TAG, Rename!ZERO_TAG
  <2>5. RegsTracked' /\ StoresTracked'
    BY <2>2, <2>3
    DEF RInv, RegsTracked, StoresTracked, Unres, Age, Seq!Distance, Tags, Regfile, Aregs,
        ZERO_TAG, Rename!ZERO_TAG
  <2>6. TableMaps'
    BY <2>2, <2>3
    DEF RInv, TableMaps, Holder, Age, Seq!Distance, get_src, Rename!Lookup, Aregs,
        ZERO_TAG, Rename!ZERO_TAG
  <2>7. ASSUME NEW m, NEW a
        PROVE  /\ Unres(m)' <=> Unres(m)
               /\ Holder(Upto(m), a)' = Holder(Upto(m), a)
               /\ Holder(Before(m), a)' = Holder(Before(m), a)
    BY <2>2, <2>3
    DEF Upto, Before, Holder, Unres, Age, Seq!Distance, ZERO_TAG, Rename!ZERO_TAG
  <2>8. CopyMaps'
    BY <2>2, <2>3, <2>7 DEF RInv, CopyMaps, Regfile, Aregs
  <2>9. SrcMaps'
    BY <2>2, <2>7 DEF RInv, SrcMaps
  <2> QED
    BY <2>1, <2>4, <2>5, <2>6, <2>8, <2>9 DEF RInv
<1> QED
  BY <1>1, <1>2

LEMMA SpecRInv == Spec => []RInv
  BY InitRInv, NextRInv, PTL DEF Spec

------------------------------------------------------------------------------
(* The broadcast changes nothing but masks.                                *)
LEMMA ShownSame ==
  ASSUME KInv
  PROVE  /\ \A i \in Live : /\ ShownAs(i).rd = i.rd /\ ShownAs(i).src = i.src
                            /\ ShownAs(i).store_id = i.store_id /\ ShownAs(i).instr = i.instr
                            /\ Done(ShownAs(i)) <=> Done(i)
                            /\ Tags(ShownAs(i)) = Tags(i)
         /\ \A i, j \in Live : ShownAs(i) = ShownAs(j) => i = j
<1>1. ASSUME NEW i \in Live
      PROVE  /\ ShownAs(i).rd = i.rd /\ ShownAs(i).src = i.src
             /\ ShownAs(i).store_id = i.store_id /\ ShownAs(i).instr = i.instr
             /\ Done(ShownAs(i)) <=> Done(i)
             /\ Tags(ShownAs(i)) = Tags(i)
  <2>1. i \in InPipe
    BY DEF Live, KInv, IInv, Formed
  <2> QED
    BY <2>1 DEF ShownAs, InPipe, Done, Tags
<1>2. ASSUME NEW i \in Live, NEW j \in Live, ShownAs(i) = ShownAs(j)
      PROVE  i = j
  BY <1>2, LiveShown DEF KInv, OneEach
<1> QED
  BY <1>1, <1>2

LEMMA HolderShown ==
  ASSUME KInv, NEW S, NEW T, NEW a \in Aregs,
         \A i \in S : i \in Live /\ ShownAs(i) \in T,
         \A k \in T : \E i \in S : k = ShownAs(i)
  PROVE  Holder(S, a) = Holder(T, a)
<1>1. CASE a = 0
  BY <1>1 DEF Holder
<1>2. CASE a # 0
  <2>1. \A i \in S : /\ Writes(ShownAs(i), a) <=> Writes(i, a)
                     /\ ShownAs(i).rd = i.rd /\ Age(ShownAs(i)) = Age(i)
    BY ShownSame, LiveShown DEF Writes
  <2>2. ASSUME NEW p
        PROVE  p \in Holder(S, a) <=> p \in Holder(T, a)
    <3>1. (\A i \in S : ~Writes(i, a)) <=> (\A k \in T : ~Writes(k, a))
      BY <2>1
    <3>2. (\E i \in S : /\ Writes(i, a) /\ p \in i.rd
                        /\ \A j \in S : Writes(j, a) => Age(j) <= Age(i))
          <=> (\E k \in T : /\ Writes(k, a) /\ p \in k.rd
                            /\ \A l \in T : Writes(l, a) => Age(l) <= Age(k))
      BY <2>1
    <3> QED
      BY <1>2, <3>1, <3>2, HolderIs
  <2> QED
    BY <2>2
<1> QED
  BY <1>1, <1>2

(* RInv, read as the properties of the live instructions.                  *)
LEMMA RInvRegs == RInv => RegsConserved
<1> SUFFICES ASSUME RInv PROVE RegsConserved
  OBVIOUS
<1>1. KInv
  BY DEF RInv
<1>2. \A i \in Live : ShownAs(i) \in Kept /\ ShownAs(i).rd = i.rd /\ Tags(ShownAs(i)) = Tags(i)
  BY <1>1, LiveShown, ShownSame
<1>3. \A a, b \in Aregs \ {0} : areg_file[a] = areg_file[b] => a = b
  BY DEF RInv, RegsApart, Regfile
<1>4. ASSUME NEW i \in Live, NEW p \in Tags(i)
      PROVE  /\ p \notin regs_free /\ p \notin ArchRegs
             /\ \A j \in Live : p \in j.rd => i = j
  <2>1. /\ p \notin regs_free /\ \A a \in Regfile : areg_file[a] # p
        /\ \A k \in Kept : p \in k.rd => ShownAs(i) = k
    BY <1>2 DEF RInv, RegsApart
  <2> QED
    BY <1>1, <1>2, <2>1, ShownSame DEF ArchRegs, Regfile
<1>5. \A i, j \in Live : i.rd \cap j.rd \subseteq {ZERO_TAG} \/ i = j
  BY <1>4 DEF Tags
<1>6. \A p \in LiveRegs : \E i \in Live : p \in Tags(i)
  BY DEF LiveRegs, Tags
<1>7. \A p \in ArchRegs : p \notin regs_free
  BY DEF RInv, RegsApart, ArchRegs, Regfile
<1>8. ASSUME NEW p \in AllocPregs, p \notin regs_free, p \notin ArchRegs, p # NumAregs - 1
      PROVE  p \in LiveRegs
  <2>1. \A a \in Regfile : areg_file[a] # p
    BY <1>8 DEF ArchRegs, Regfile
  <2>2. PICK k \in Kept : p \in k.rd
    BY <1>8, <2>1 DEF RInv, RegsThere
  <2>3. PICK i \in Live : k = ShownAs(i)
    BY <1>1, LiveShown
  <2>4. p # ZERO_TAG
    BY DataFlowAssumption DEF AllocPregs, ZERO_TAG, Rename!ZERO_TAG
  <2> QED
    BY <1>2, <2>2, <2>3, <2>4 DEF LiveRegs
<1>9. regs_free \cap (ArchRegs \cup LiveRegs) = {} /\ ArchRegs \cap LiveRegs = {}
  BY <1>4, <1>6, <1>7
<1>10. AllocPregs \ (regs_free \cup ArchRegs \cup LiveRegs) \subseteq {NumAregs - 1}
  BY <1>8
<1> QED
  BY <1>3, <1>5, <1>9, <1>10 DEF RegsConserved

LEMMA RInvReady == RInv => ReadyExact
<1> SUFFICES ASSUME RInv PROVE ReadyExact
  OBVIOUS
<1>1. ASSUME NEW i \in Live, NEW p \in i.rd \ {ZERO_TAG}
      PROVE  p \in ready_table <=> Done(i)
  <2>1. ShownAs(i) \in Kept /\ Tags(ShownAs(i)) = Tags(i) /\ (Done(ShownAs(i)) <=> Done(i))
    BY LiveShown, ShownSame DEF RInv
  <2>2. p \in Tags(i)
    BY DEF Tags
  <2> QED
    BY <2>1, <2>2 DEF RInv, ReadyWell
<1>2. ArchRegs \cup {ZERO_TAG} \subseteq ready_table
  BY DEF RInv, ReadyWell, ArchRegs, Regfile
<1> QED
  BY <1>1, <1>2 DEF ReadyExact, Done

LEMMA RInvRename == RInv => RenameExact
<1> SUFFICES ASSUME RInv PROVE RenameExact
  OBVIOUS
<1>1. KInv
  BY DEF RInv
<1>2. /\ \A i \in Live : ShownAs(i) \in Kept /\ Age(ShownAs(i)) = Age(i)
      /\ \A k \in Kept : \E i \in Live : k = ShownAs(i)
  BY <1>1, LiveShown
<1>3. ASSUME NEW a \in Aregs
      PROVE  {get_src(a)} = Holder(Live, a)
  <2>1. Holder(Live, a) = Holder(Kept, a)
    BY <1>1, <1>2, HolderShown
  <2> QED
    BY <2>1 DEF RInv, TableMaps
<1>4. ASSUME NEW i \in Live
      PROVE  i.src = UNION {Holder(Older(i), a) : a \in i.instr.src}
  <2>1. i.src = ShownAs(i).src /\ i.instr = ShownAs(i).instr /\ ShownAs(i) \in Kept
    BY <1>1, <1>2, ShownSame
  <2>2. ShownAs(i).src = UNION {Holder(Before(ShownAs(i)), a) : a \in ShownAs(i).instr.src}
    BY <2>1 DEF RInv, SrcMaps
  <2>3. i.instr.src \subseteq Aregs
    BY <1>1, <2>1, KeptOne, InstrsAssumption DEF InPipe
  <2>4. /\ \A j \in Older(i) : j \in Live /\ ShownAs(j) \in Before(ShownAs(i))
        /\ \A k \in Before(ShownAs(i)) : \E j \in Older(i) : k = ShownAs(j)
    BY <1>2 DEF Older, Before
  <2>5. \A a \in i.instr.src : Holder(Older(i), a) = Holder(Before(ShownAs(i)), a)
    BY <1>1, <2>3, <2>4, HolderShown
  <2> QED
    BY <2>1, <2>2, <2>5
<1> QED
  BY <1>3, <1>4 DEF RenameExact

LEMMA RInvSnapshots == RInv => SnapshotsExact
<1> SUFFICES ASSUME RInv, NEW i \in Unresolved(Live), NEW id \in i.spec
             PROVE  LET upto    == Older(i) \cup {i}
                        younger == Live \ upto
                        held    == {areg_file[a] : a \in Aregs \ {0}} \cup UNION {j.rd : j \in upto}
                    IN  /\ \A a \in Aregs \ {0} : {rename_copies[id][a]} = Holder(upto, a)
                        /\ (UNION {j.rd : j \in younger}) \ {ZERO_TAG} \subseteq regs_tracked[id]
                        /\ regs_tracked[id] \cap held = {}
                        /\ UNION {j.store_id : j \in younger} \subseteq stores_tracked[id]
                        /\ stores_tracked[id] \cap UNION {j.store_id : j \in upto} = {}
  BY DEF SnapshotsExact
<1> DEFINE upto    == Older(i) \cup {i}
           younger == Live \ upto
           held    == {areg_file[a] : a \in Aregs \ {0}} \cup UNION {j.rd : j \in upto}
<1>1. KInv
  BY DEF RInv
<1>2. i \in Live /\ ShownAs(i) \in Kept /\ Unres(ShownAs(i)) /\ id \in ShownAs(i).spec
      /\ id \in SnapshotIds
  BY <1>1, LiveShown DEF Unresolved
<1>3. /\ \A j \in Live : /\ ShownAs(j) \in Kept /\ Age(ShownAs(j)) = Age(j) /\ Age(j) \in Nat
                         /\ ShownAs(j).rd = j.rd /\ ShownAs(j).store_id = j.store_id
                         /\ Age(j) = Age(i) => j = i
      /\ \A k \in Kept : \E j \in Live : k = ShownAs(j)
  BY <1>1, <1>2, LiveShown, ShownSame, KeptDistinct
<1>4. \A j \in Live : j \in upto <=> Age(j) <= Age(i)
  BY <1>2, <1>3 DEF Older
<1>5. upto \subseteq Live
  BY <1>2 DEF Older
<1>6. \A j \in Live : j \in younger <=> Age(i) < Age(j)
  BY <1>2, <1>3, <1>4
<1>7. \A j \in upto : ~(Age(i) < Age(j))
  BY <1>2, <1>3, <1>4, <1>5
<1> HIDE DEF upto
<1>8. ASSUME NEW a \in Aregs \ {0}
      PROVE  {rename_copies[id][a]} = Holder(upto, a)
  <2>1. {rename_copies[id][a]} = Holder(Upto(ShownAs(i)), a)
    BY <1>2 DEF RInv, CopyMaps, Regfile
  <2>2. /\ \A j \in upto : j \in Live /\ ShownAs(j) \in Upto(ShownAs(i))
        /\ \A k \in Upto(ShownAs(i)) : \E j \in upto : k = ShownAs(j)
    BY <1>2, <1>3, <1>4, <1>5 DEF Upto
  <2> QED
    BY <1>1, <2>1, <2>2, HolderShown
<1>9. \A j \in Live : \A p \in j.rd \ {ZERO_TAG} : p \in regs_tracked[id] <=> Age(i) < Age(j)
  BY <1>2, <1>3 DEF RInv, RegsTracked, Tags
<1>10. \A a \in Aregs \ {0} : areg_file[a] \notin regs_tracked[id]
  BY <1>2 DEF RInv, RegsTracked, Regfile
<1>11. ZERO_TAG \notin regs_tracked[id]
  <2>1. DFTypeOK
    BY <1>1 DEF KInv, IInv, DFInv
  <2>2. regs_tracked[id] \subseteq Regs!Slots
    BY <1>2, <2>1 DEF DFTypeOK, Regs!TypeOK, Regs!SnapshotIds, SnapshotIds
  <2>3. ZERO_TAG \notin Regs!Slots
    BY DataFlowAssumption DEF Regs!Slots, ZERO_TAG, Rename!ZERO_TAG
  <2> QED
    BY <2>2, <2>3
<1>12. \A j \in Live : \A s \in j.store_id : s \in stores_tracked[id] <=> Age(i) < Age(j)
  BY <1>2, <1>3 DEF RInv, StoresTracked
<1>13. (UNION {j.rd : j \in younger}) \ {ZERO_TAG} \subseteq regs_tracked[id]
  BY <1>6, <1>9
<1>14. regs_tracked[id] \cap held = {}
  BY <1>5, <1>7, <1>9, <1>10, <1>11
<1>15. UNION {j.store_id : j \in younger} \subseteq stores_tracked[id]
  BY <1>6, <1>12
<1>16. stores_tracked[id] \cap UNION {j.store_id : j \in upto} = {}
  BY <1>5, <1>7, <1>12
<1> QED
  BY <1>8, <1>13, <1>14, <1>15, <1>16 DEF upto

LEMMA RInvStores == RInv => StoreIdsExact
<1> SUFFICES ASSUME RInv PROVE StoreIdsExact
  OBVIOUS
<1>1. KInv
  BY DEF RInv
<1>2. /\ \A i \in Live : /\ ShownAs(i) \in Kept /\ ShownAs(i).store_id = i.store_id
                         /\ i.store_id \subseteq StoreIds
      /\ \A k \in Kept : \E i \in Live : k = ShownAs(i)
  BY <1>1, LiveShown, ShownSame, KeptOne DEF InPipe
<1>3. ASSUME NEW s \in StoreIds
      PROVE  s \notin stores_free <=> \E i \in Live : s \in i.store_id
  BY <1>2 DEF RInv, StoresApart
<1>4. StoreIds \ stores_free = UNION {i.store_id : i \in Live}
  BY <1>2, <1>3
<1>5. ASSUME NEW i \in Live, NEW j \in Live, i.store_id \cap j.store_id # {}
      PROVE  i = j
  <2>1. ShownAs(i) = ShownAs(j)
    BY <1>2, <1>5 DEF RInv, StoresApart
  <2> QED
    BY <1>1, <2>1, ShownSame
<1> QED
  BY <1>4, <1>5 DEF StoreIdsExact

LEMMA RInvSerial == RInv => SerialAlone
<1> SUFFICES ASSUME RInv PROVE SerialAlone
  OBVIOUS
<1>1. KInv
  BY DEF RInv
<1>2. /\ \A i \in Live : ShownAs(i) \in Kept /\ ShownAs(i).instr = i.instr
      /\ \A k \in Kept : \E i \in Live : k = ShownAs(i)
      /\ \A i, j \in Live : ShownAs(i) = ShownAs(j) => i = j
  BY <1>1, LiveShown, ShownSame
<1>3. ASSUME NEW i \in Live, i.instr.serialize
      PROVE  serial /\ Live = {i}
  <2>1. serial /\ \A k \in Kept : k = ShownAs(i)
    BY <1>2, <1>3 DEF RInv, SerialOne
  <2> QED
    BY <1>2, <2>1
<1>4. serial => \E i \in Live : i.instr.serialize
  BY <1>2 DEF RInv, SerialOne
<1>5. serial \in BOOLEAN
  BY <1>1 DEF KInv, IInv, CFTypeOK
<1> QED
  BY <1>3, <1>4, <1>5 DEF SerialAlone

(* No physical register is ever lost or has two owners, through            *)
(* mispredictions, exceptions and commits (dataflow.py, the free list and  *)
(* the architectural register file).                                       *)
THEOREM RegistersConserved == Spec => []RegsConserved
  BY SpecRInv, RInvRegs, PTL

(* The ready bits are true of every register that can be read, whatever    *)
(* flushed instructions wrote late (dataflow.py, ready_table).             *)
THEOREM ReadyBitsExact == Spec => []ReadyExact
  BY SpecRInv, RInvReady, PTL

(* Every instruction reads the results of the youngest older writers of    *)
(* its sources (dataflow.py and renametable.py).                           *)
THEOREM RenamingExact == Spec => []RenameExact
  BY SpecRInv, RInvRename, PTL

(* A misprediction brings back exactly the map its branch left, and frees  *)
(* exactly what was handed out after it (snapshotting_registerfile.py and  *)
(* snapshotting_freelist.py).                                              *)
THEOREM CopiesExact == Spec => []SnapshotsExact
  BY SpecRInv, RInvSnapshots, PTL

(* The store identifiers taken are those of the live stores, one each      *)
(* (dataflow.py, store_ids).                                               *)
THEOREM StoresExact == Spec => []StoreIdsExact
  BY SpecRInv, RInvStores, PTL

(* A serialised instruction is alone in the back end, and the flag that    *)
(* keeps the others out is up just then (controlflow.py, set_serial).      *)
THEOREM SerialisedAlone == Spec => []SerialAlone
  BY SpecRInv, RInvSerial, PTL
==============================================================================
