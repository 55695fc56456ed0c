----------------------- MODULE SequenceAllocatorProofs -----------------------
(* Proofs about SequenceAllocator, for every number of entries.            *)
EXTENDS SequenceAllocator, SequenceTheorems, TLAPS

(* AllocTypeOK alone is not inductive: the count register is added to and       *)
(* subtracted from, and only its agreement with the pointers keeps it in   *)
(* range.  Together they are.                                              *)
IInv == AllocTypeOK /\ CountAgrees

LEMMA InitIInv == AllocInit => IInv
  BY NumEntriesAssumption DEF AllocInit, IInv, AllocTypeOK, CountAgrees, SeqIdx

(* One cycle keeps the count in agreement, wherever it rolls back to.      *)
LEMMA CycleIInv ==
  ASSUME IInv, NEW allocate \in BOOLEAN, NEW free \in BOOLEAN,
         NEW rollback \in BOOLEAN, NEW idx \in SeqIdx,
         allocate => allocate_rdy, free => free_rdy,
         AllocCycle(allocate, free, rollback, idx)
  PROVE  IInv'
<1>1. CASE rollback
  <2> DEFINE newTail == Inc(idx)
             newHead == HeadNext(free)
             delta   == Distance(newTail, newHead)
  <2>2. tail' = newTail /\ head' = newHead
    BY <1>1 DEF AllocCycle, TailNext
  <2>3. num' = IF delta = 0 /\ idx # head THEN NumEntries ELSE delta
    BY <1>1 DEF AllocCycle, NumNext
  <2>4. newTail \in SeqIdx /\ newHead \in SeqIdx
    BY NumEntriesAssumption DEF Inc, HeadNext, SeqIdx, IInv, AllocTypeOK
  <2>5. delta \in 0 .. NumEntries - 1 /\ (delta = 0 <=> newTail = newHead)
    BY <2>4, NumEntriesAssumption DEF Distance, SeqIdx
  <2> HIDE DEF newTail, newHead, delta
  <2>6. AllocTypeOK'
    BY <2>2, <2>3, <2>4, <2>5, NumEntriesAssumption DEF AllocTypeOK
  <2>8. CountAgrees'
    BY <2>2, <2>3, <2>4, <2>5, NumEntriesAssumption DEF CountAgrees, delta, Distance
  <2> QED
    BY <2>6, <2>8 DEF IInv
<1>2. CASE ~rollback
  <2> USE NumEntriesAssumption DEF IInv, AllocTypeOK, CountAgrees, SeqIdx, Inc, Distance
  <2>1. /\ tail' = IF allocate THEN Inc(tail) ELSE tail
        /\ head' = IF free THEN Inc(head) ELSE head
        /\ num' = IF allocate /\ ~free THEN num + 1
                  ELSE IF free /\ ~allocate THEN num - 1 ELSE num
    BY <1>2 DEF AllocCycle, TailNext, HeadNext, NumNext
  <2>2. (allocate => num # NumEntries) /\ (free => num # 0)
    BY DEF allocate_rdy, free_rdy
  <2> QED
    BY <2>1, <2>2
<1> QED
  BY <1>1, <1>2

LEMMA NextIInv == IInv /\ [AllocNext]_alloc_vars => IInv'
<1> SUFFICES ASSUME IInv, [AllocNext]_alloc_vars PROVE IInv'
  OBVIOUS
<1>1. CASE AllocNext
  BY <1>1, CycleIInv DEF AllocNext, LegalCalls
<1>2. CASE UNCHANGED alloc_vars
  BY <1>2 DEF alloc_vars, IInv, AllocTypeOK, CountAgrees, Distance
<1> QED
  BY <1>1, <1>2

LEMMA Inductive == AllocSpec => []IInv
  BY InitIInv, NextIInv, PTL DEF AllocSpec

(* The three registers stay within their widths.                           *)
THEOREM TypeCorrect == AllocSpec => []AllocTypeOK
  BY Inductive, PTL DEF IInv

(* The count register agrees with the two pointers after any sequence of   *)
(* allocations, frees and rollbacks, for every size of the buffer.         *)
THEOREM CountCorrect == AllocSpec => []CountAgrees
  BY Inductive, PTL DEF IInv
------------------------------------------------------------------------------
(* The window of n slots from h on, as a constant-level operator, so that  *)
(* what the sequence operators do to it can be stated once.                *)
SlotFrom(h, k) == IF h + k < NumEntries THEN h + k ELSE h + k - NumEntries

WindowFrom(h, n) == [k \in 1 .. n |-> SlotFrom(h, k - 1)]

LEMMA WindowIsSeq ==
  ASSUME NEW h \in SeqIdx, NEW n \in 0 .. NumEntries
  PROVE  /\ WindowFrom(h, n) \in Seq(SeqIdx)
         /\ Len(WindowFrom(h, n)) = n
         /\ \A k \in 1 .. n : WindowFrom(h, n)[k] = SlotFrom(h, k - 1)
<1>1. \A k \in 1 .. n : SlotFrom(h, k - 1) \in SeqIdx
  BY NumEntriesAssumption DEF SlotFrom, SeqIdx
<1>2. WindowFrom(h, n) \in [1 .. n -> SeqIdx]
  BY <1>1 DEF WindowFrom
<1>3. n \in Nat
  BY NumEntriesAssumption
<1>4. WindowFrom(h, n) \in Seq(SeqIdx)
  BY <1>2, <1>3
<1>5. Len(WindowFrom(h, n)) = n
  BY <1>2, <1>3, <1>4
<1> QED
  BY <1>4, <1>5 DEF WindowFrom

(* Different positions of the window hold different slots.                 *)
LEMMA SlotInjective ==
  ASSUME NEW h \in SeqIdx, NEW j \in 0 .. NumEntries - 1, NEW k \in 0 .. NumEntries - 1,
         SlotFrom(h, j) = SlotFrom(h, k)
  PROVE  j = k
  BY NumEntriesAssumption DEF SlotFrom, SeqIdx

LEMMA WindowAppend ==
  ASSUME NEW h \in SeqIdx, NEW n \in 0 .. NumEntries - 1
  PROVE  Append(WindowFrom(h, n), SlotFrom(h, n)) = WindowFrom(h, n + 1)
<1> DEFINE s == Append(WindowFrom(h, n), SlotFrom(h, n))
           t == WindowFrom(h, n + 1)
<1>1. n + 1 \in 0 .. NumEntries /\ n \in 0 .. NumEntries
  BY NumEntriesAssumption
<1>2. SlotFrom(h, n) \in SeqIdx
  BY NumEntriesAssumption DEF SlotFrom, SeqIdx
<1>3. s \in Seq(SeqIdx) /\ Len(s) = n + 1
  BY <1>1, <1>2, WindowIsSeq
<1>4. t \in Seq(SeqIdx) /\ Len(t) = n + 1
  BY <1>1, WindowIsSeq
<1>5. \A i \in 1 .. n + 1 : s[i] = t[i]
  <2> SUFFICES ASSUME NEW i \in 1 .. n + 1 PROVE s[i] = t[i]
    OBVIOUS
  <2>1. t[i] = SlotFrom(h, i - 1)
    BY <1>1, WindowIsSeq
  <2>2. CASE i = n + 1
    BY <2>1, <2>2, <1>1, <1>2, WindowIsSeq
  <2>3. CASE i # n + 1
    <3>1. i \in 1 .. n
      BY <2>3, <1>1
    <3>2. s[i] = WindowFrom(h, n)[i]
      BY <3>1, <1>1, <1>2, WindowIsSeq
    <3> QED
      BY <3>1, <3>2, <2>1, <1>1, WindowIsSeq
  <2> QED
    BY <2>2, <2>3
<1> HIDE DEF s, t
<1> QED
  BY <1>3, <1>4, <1>5, SeqEqual DEF s, t

LEMMA WindowTail ==
  ASSUME NEW h \in SeqIdx, NEW n \in 1 .. NumEntries
  PROVE  Tail(WindowFrom(h, n)) = WindowFrom(Inc(h), n - 1)
<1> DEFINE s == Tail(WindowFrom(h, n))
           t == WindowFrom(Inc(h), n - 1)
<1>1. n \in 0 .. NumEntries /\ n - 1 \in 0 .. NumEntries /\ Inc(h) \in SeqIdx
  BY NumEntriesAssumption DEF Inc, SeqIdx
<1>2. WindowFrom(h, n) \in Seq(SeqIdx) /\ Len(WindowFrom(h, n)) = n
  BY <1>1, WindowIsSeq
<1>3. WindowFrom(h, n) # << >>
  BY <1>2, NumEntriesAssumption
<1>4. s \in Seq(SeqIdx) /\ Len(s) = n - 1
  BY <1>2, <1>3, HeadTailProperties
<1>5. t \in Seq(SeqIdx) /\ Len(t) = n - 1
  BY <1>1, WindowIsSeq
<1>6. \A i \in 1 .. n - 1 : s[i] = t[i]
  <2> SUFFICES ASSUME NEW i \in 1 .. n - 1 PROVE s[i] = t[i]
    OBVIOUS
  <2>1. s[i] = WindowFrom(h, n)[i + 1]
    BY <1>2, <1>3, HeadTailProperties
  <2>2. i + 1 \in 1 .. n /\ (i + 1) - 1 = i
    BY <1>1
  <2>3. WindowFrom(h, n)[i + 1] = SlotFrom(h, i)
    BY <2>2, <1>1, WindowIsSeq
  <2>4. t[i] = SlotFrom(Inc(h), i - 1)
    BY <1>1, WindowIsSeq
  <2>5. SlotFrom(h, i) = SlotFrom(Inc(h), i - 1)
    BY <1>1, NumEntriesAssumption DEF SlotFrom, Inc, SeqIdx
  <2> QED
    BY <2>1, <2>3, <2>4, <2>5
<1> HIDE DEF s, t
<1> QED
  BY <1>4, <1>5, <1>6, SeqEqual DEF s, t

LEMMA WindowPrefix ==
  ASSUME NEW h \in SeqIdx, NEW n \in 0 .. NumEntries, NEW m \in 1 .. n
  PROVE  SubSeq(WindowFrom(h, n), 1, m) = WindowFrom(h, m)
<1> DEFINE s == SubSeq(WindowFrom(h, n), 1, m)
           t == WindowFrom(h, m)
<1>1. m \in 0 .. NumEntries
  BY NumEntriesAssumption
<1>2. WindowFrom(h, n) \in Seq(SeqIdx) /\ Len(WindowFrom(h, n)) = n
  BY WindowIsSeq
<1>3. s \in Seq(SeqIdx) /\ Len(s) = m /\ \A i \in 1 .. m : s[i] = WindowFrom(h, n)[i]
  BY <1>1, <1>2, SubSeqProperties, NumEntriesAssumption
<1>4. t \in Seq(SeqIdx) /\ Len(t) = m
  BY <1>1, WindowIsSeq
<1>5. \A i \in 1 .. m : s[i] = t[i]
  <2> SUFFICES ASSUME NEW i \in 1 .. m PROVE s[i] = t[i]
    OBVIOUS
  <2>1. i \in 1 .. n
    BY <1>1
  <2>2. s[i] = WindowFrom(h, n)[i]
    BY <1>3
  <2> HIDE DEF s
  <2>3. WindowFrom(h, n)[i] = SlotFrom(h, i - 1)
    BY <2>1, WindowIsSeq
  <2>4. t[i] = SlotFrom(h, i - 1)
    BY <1>1, WindowIsSeq
  <2> QED
    BY <2>2, <2>3, <2>4
<1> HIDE DEF s, t
<1> QED
  BY <1>3, <1>4, <1>5, SeqEqual DEF s, t

(* The refinement mapping is such a window, before and after the step.     *)
LEMMA MappedWindow ==
  /\ InUseOldestFirst = WindowFrom(head, num)
  /\ InUseOldestFirst' = WindowFrom(head', num')
  BY DEF InUseOldestFirst, WindowFrom, Slot, SlotFrom

(* A cycle without a rollback is an allocation, a retirement, both or      *)
(* nothing of the abstract window.                                         *)
LEMMA AllocateRefines ==
  ASSUME IInv, NEW allocate \in BOOLEAN, NEW free \in BOOLEAN, NEW idx \in SeqIdx,
         LegalCalls(allocate, free, FALSE, idx), AllocCycle(allocate, free, FALSE, idx)
  PROVE  Window!Next \/ InUseOldestFirst' = InUseOldestFirst
<1> DEFINE live == WindowFrom(head, num)
<1>1. /\ head \in SeqIdx /\ num \in 0 .. NumEntries /\ tail \in SeqIdx
      /\ (allocate => num # NumEntries) /\ (free => num # 0)
  BY DEF IInv, AllocTypeOK, LegalCalls, allocate_rdy, free_rdy
<1>2. /\ head' = IF free THEN Inc(head) ELSE head
      /\ num' = IF allocate /\ ~free THEN num + 1
                ELSE IF free /\ ~allocate THEN num - 1 ELSE num
  BY DEF AllocCycle, HeadNext, NumNext
<1>3. InUseOldestFirst = live /\ InUseOldestFirst' = WindowFrom(head', num')
  BY MappedWindow
<1>4. live \in Seq(SeqIdx) /\ Len(live) = num
  BY <1>1, WindowIsSeq
<1>5. ASSUME allocate PROVE Window!Next
  <2>1. num \in 0 .. NumEntries - 1 /\ num + 1 \in 1 .. NumEntries
    BY <1>1, <1>5, NumEntriesAssumption
  <2>2. tail = SlotFrom(head, num)
    BY <1>1, <2>1, NumEntriesAssumption DEF IInv, CountAgrees, Distance, SlotFrom, SeqIdx
  <2>3. Append(live, tail) = WindowFrom(head, num + 1)
    BY <1>1, <2>1, <2>2, WindowAppend
  <2>4. tail \notin Window!Held
    <3> SUFFICES ASSUME NEW i \in 1 .. num, live[i] = tail PROVE FALSE
      BY <1>3, <1>4 DEF Window!Held
    <3>1. live[i] = SlotFrom(head, i - 1)
      BY <1>1, WindowIsSeq
    <3>2. i - 1 \in 0 .. NumEntries - 1 /\ i - 1 # num
      BY <2>1, NumEntriesAssumption
    <3> HIDE DEF live
    <3> QED
      BY <3>1, <3>2, <2>1, <2>2, <1>1, SlotInjective
  <2>5. InUseOldestFirst' = IF free THEN Tail(Append(live, tail)) ELSE Append(live, tail)
    <3>1. CASE free
      BY <3>1, <1>1, <1>2, <1>3, <1>5, <2>1, <2>3, WindowTail
    <3>2. CASE ~free
      BY <3>2, <1>2, <1>3, <1>5, <2>3
    <3> QED
      BY <3>1, <3>2
  <2>6. Window!Retiring(Window!Grow(tail), free)
    BY <2>5, <1>3 DEF Window!Retiring, Window!Grow
  <2>7. Len(InUseOldestFirst) < NumEntries /\ (free => Len(InUseOldestFirst) > 0)
    BY <1>1, <1>3, <1>4, <2>1, NumEntriesAssumption
  <2>8. Window!AllocateStep(free)
    BY <2>4, <2>6, <2>7, <1>1 DEF Window!AllocateStep
  <2> QED
    BY <2>7, <2>8 DEF Window!Next
<1>6. ASSUME ~allocate, free PROVE Window!Next
  <2>1. num \in 1 .. NumEntries
    BY <1>1, <1>6
  <2>2. InUseOldestFirst' = Tail(live)
    BY <1>1, <1>2, <1>3, <1>6, <2>1, WindowTail
  <2>3. Window!RetireStep
    BY <2>1, <2>2, <1>3, <1>4 DEF Window!RetireStep, Window!Retiring
  <2> QED
    BY <2>3 DEF Window!Next
<1>7. ASSUME ~allocate, ~free PROVE InUseOldestFirst' = InUseOldestFirst
  BY <1>2, <1>3, <1>7
<1> QED
  BY <1>5, <1>6, <1>7

(* A rollback to a slot in use is a flush of what is younger, with or      *)
(* without the retirement of the oldest.                                   *)
LEMMA RollbackRefines ==
  ASSUME IInv, NEW free \in BOOLEAN, NEW idx \in SeqIdx,
         LegalCalls(FALSE, free, TRUE, idx), AllocCycle(FALSE, free, TRUE, idx)
  PROVE  Window!Next
<1> DEFINE live == WindowFrom(head, num)
           kept == Distance(idx, head) + 1
<1>1. head \in SeqIdx /\ num \in 0 .. NumEntries
  BY DEF IInv, AllocTypeOK
<1>2. Distance(idx, head) < num /\ Distance(idx, head) \in 0 .. NumEntries - 1
  BY <1>1, NumEntriesAssumption DEF LegalCalls, InUse, Distance, SeqIdx
<1>3. kept \in 1 .. num /\ kept \in 1 .. NumEntries
  BY <1>1, <1>2, NumEntriesAssumption
<1>4. head' = IF free THEN Inc(head) ELSE head
  BY DEF AllocCycle, HeadNext
<1>5. num' = IF free THEN kept - 1 ELSE kept
  <2>1. num' = LET delta == Distance(Inc(idx), IF free THEN Inc(head) ELSE head)
               IN  IF delta = 0 /\ idx # head THEN NumEntries ELSE delta
    BY DEF AllocCycle, NumNext, HeadNext
  <2> QED
    BY <2>1, <1>1, NumEntriesAssumption DEF Distance, Inc, SeqIdx
<1>6. InUseOldestFirst = live /\ InUseOldestFirst' = WindowFrom(head', num')
  BY MappedWindow
<1>7. live \in Seq(SeqIdx) /\ Len(live) = num
  BY <1>1, WindowIsSeq
<1>8. SubSeq(live, 1, kept) = WindowFrom(head, kept)
  BY <1>1, <1>3, WindowPrefix
<1> HIDE DEF kept
<1>9. InUseOldestFirst' = IF free THEN Tail(SubSeq(live, 1, kept))
                          ELSE SubSeq(live, 1, kept)
  <2>1. CASE free
    BY <2>1, <1>1, <1>3, <1>4, <1>5, <1>6, <1>8, WindowTail
  <2>2. CASE ~free
    BY <2>2, <1>4, <1>5, <1>6, <1>8
  <2> QED
    BY <2>1, <2>2
<1>10. Window!FlushStep(free)
  BY <1>3, <1>6, <1>7, <1>9 DEF Window!FlushStep, Window!Retiring, Window!Flush
<1>11. Len(InUseOldestFirst) > 0
  BY <1>3, <1>6, <1>7
<1> QED
  BY <1>10, <1>11 DEF Window!Next

LEMMA StepRefines ==
  IInv /\ [AllocNext]_alloc_vars => [Window!Next]_InUseOldestFirst
<1> SUFFICES ASSUME IInv, [AllocNext]_alloc_vars
             PROVE  Window!Next \/ InUseOldestFirst' = InUseOldestFirst
  OBVIOUS
<1>1. CASE AllocNext
  <2> PICK allocate, free, rollback \in BOOLEAN, idx \in SeqIdx :
             /\ LegalCalls(allocate, free, rollback, idx)
             /\ AllocCycle(allocate, free, rollback, idx)
    BY <1>1 DEF AllocNext
  <2>1. CASE rollback = TRUE
    <3>1. allocate = FALSE
      BY <2>1 DEF LegalCalls
    <3> QED
      BY <2>1, <3>1, RollbackRefines
  <2>2. CASE rollback = FALSE
    BY <2>2, AllocateRefines
  <2> QED
    BY <2>1, <2>2
<1>2. CASE UNCHANGED alloc_vars
  BY <1>2, MappedWindow DEF alloc_vars
<1> QED
  BY <1>1, <1>2

LEMMA InitRefines == AllocInit => Window!Init
<1> SUFFICES ASSUME AllocInit PROVE InUseOldestFirst = << >>
  BY DEF Window!Init
<1>1. InUseOldestFirst = WindowFrom(0, 0) /\ 0 \in SeqIdx
  BY MappedWindow, NumEntriesAssumption DEF AllocInit, SeqIdx
<1>2. WindowFrom(0, 0) \in Seq(SeqIdx) /\ Len(WindowFrom(0, 0)) = 0
  BY <1>1, WindowIsSeq, NumEntriesAssumption
<1> QED
  BY <1>1, <1>2, EmptySeq

(* The allocator implements the in-order window, for every size of the     *)
(* reorder buffer.                                                         *)
THEOREM AllocatorImplementsWindow == AllocSpec => ImplementsWindow
  BY InitRefines, StepRefines, Inductive, PTL DEF AllocSpec, ImplementsWindow, Window!Spec
==============================================================================
