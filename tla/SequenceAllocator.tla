-------------------------- MODULE SequenceAllocator --------------------------
(***************************************************************************)
(* util/rtl/sequence_allocator.py: the circular allocator of reorder       *)
(* buffer slots.  One step is one clock cycle: the methods called in that  *)
(* cycle are the arguments of AllocCycle, the values of the three registers     *)
(* after the clock edge are the primed variables.                          *)
(***************************************************************************)
EXTENDS Naturals, Sequences

CONSTANT NumEntries   \* max_entries = 1 << seqidx_nbits

ASSUME NumEntriesAssumption == NumEntries \in Nat /\ NumEntries >= 2

VARIABLES tail,  \* the slot the next allocation gets
          head,  \* the oldest slot in use
          num    \* how many slots are in use (one bit wider than a slot)

alloc_vars == <<tail, head, num>>

SeqIdx == 0 .. NumEntries - 1

(* Arithmetic of seqidx_nbits-bit wires: the increment and the difference  *)
(* wrap at NumEntries.                                                     *)
Inc(i) == IF i = NumEntries - 1 THEN 0 ELSE i + 1

Distance(to, from) == IF to >= from THEN to - from ELSE to + NumEntries - from

allocate_rdy == num # NumEntries
free_rdy     == num # 0

(* The slots in use are the num slots from head on.                        *)
InUse(i) == Distance(i, head) < num

AllocInit == tail = 0 /\ head = 0 /\ num = 0

(* Plausible slips, kept to measure the properties against.                *)
NumNextForgetsEmpty(allocate, free, rollback, idx) ==
  LET tail_next == Inc(IF rollback THEN idx ELSE tail)
      head_next == IF free THEN Inc(head) ELSE head
      delta     == Distance(tail_next, head_next)
  IN  IF rollback THEN IF delta = 0 THEN NumEntries ELSE delta
      ELSE IF allocate /\ ~free THEN num + 1
      ELSE IF free /\ ~allocate THEN num - 1 ELSE num

(* update_tail: a rollback to idx keeps idx and forgets what follows it.   *)
TailNext(allocate, rollback, idx) ==
  IF rollback THEN Inc(idx) ELSE IF allocate THEN Inc(tail) ELSE tail

(* update_head                                                             *)
HeadNext(free) == IF free THEN Inc(head) ELSE head

(* update_num: a rollback recomputes the count from the distance of the    *)
(* new tail to the new head.  A distance of zero means full, unless the    *)
(* rollback is to the head, as on an exception, which empties the buffer.  *)
NumNext(allocate, free, rollback, idx) ==
  LET tail_next == Inc(IF rollback THEN idx ELSE tail)
      delta     == Distance(tail_next, HeadNext(free))
  IN  IF rollback THEN IF delta = 0 /\ idx # head THEN NumEntries ELSE delta
      ELSE IF allocate /\ ~free THEN num + 1
      ELSE IF free /\ ~allocate THEN num - 1 ELSE num

(* One clock cycle with the given method calls.                            *)
AllocCycle(allocate, free, rollback, idx) ==
  /\ tail' = TailNext(allocate, rollback, idx)
  /\ head' = HeadNext(free)
  /\ num'  = NumNext(allocate, free, rollback, idx)

(* The calls its only client, the control flow manager, may make: allocate *)
(* and free when ready, roll back to a slot in use, and never allocate in  *)
(* the cycle of a rollback, because the redirect that causes the rollback  *)
(* drops the instruction waiting to be registered.                         *)
LegalCalls(allocate, free, rollback, idx) ==
  /\ allocate => allocate_rdy
  /\ free => free_rdy
  /\ rollback => ~allocate /\ InUse(idx)

AllocNext == \E allocate, free, rollback \in BOOLEAN, idx \in SeqIdx :
          /\ LegalCalls(allocate, free, rollback, idx)
          /\ AllocCycle(allocate, free, rollback, idx)

AllocSpec == AllocInit /\ [][AllocNext]_alloc_vars

------------------------------------------------------------------------------
AllocTypeOK == tail \in SeqIdx /\ head \in SeqIdx /\ num \in 0 .. NumEntries

(* The count register is kept apart from the two pointers it counts the    *)
(* distance of, and is the only thing that tells a full buffer from an     *)
(* empty one: after any sequence of allocations, frees and rollbacks it    *)
(* still agrees with them.                                                 *)
CountAgrees == IF num \in {0, NumEntries} THEN tail = head
               ELSE num = Distance(tail, head)

(* The slots in use, oldest first, as the abstract window sees them.       *)
Slot(k) == IF head + k < NumEntries THEN head + k ELSE head + k - NumEntries

InUseOldestFirst == [k \in 1 .. num |-> Slot(k - 1)]

Window == INSTANCE InOrderWindow WITH
            Name <- SeqIdx, Capacity <- NumEntries, live <- InUseOldestFirst

(* The allocator implements the window: a slot handed out is held by       *)
(* nobody, slots leave in the order they were handed out, and a rollback   *)
(* removes exactly what is younger than the slot it names, also in the     *)
(* cycle in which the oldest slot is freed.                                *)
ImplementsWindow == Window!Spec
==============================================================================
