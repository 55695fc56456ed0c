-------------------------- MODULE IssueQueueProofs --------------------------
(* Proofs about IssueQueue, for every number of slots.                     *)
EXTENDS IssueQueue, TLAPS

(* A notification changes nothing but what an entry waits for.             *)
LEMMA NotifiedType ==
  ASSUME NEW S, NEW tags, S \subseteq EntryType,
         \A d, e \in S : d = e /\ e.waits \subseteq e.srcs
  PROVE  /\ Notified(S, tags) \subseteq EntryType
         /\ \A d, e \in Notified(S, tags) : d = e /\ e.waits \subseteq e.srcs
         /\ Notified(S, tags) = {} <=> S = {}
  <1>1. \A e \in S : [e EXCEPT !.waits = @ \ tags] \in EntryType
    BY DEF EntryType
  <1>2. \A e \in S : [e EXCEPT !.waits = @ \ tags].waits
                       \subseteq [e EXCEPT !.waits = @ \ tags].srcs
    BY DEF EntryType
  <1> QED BY <1>1, <1>2 DEF Notified

(* The drop controller keeps an entry or drops it.                         *)
LEMMA PeekType ==
  ASSUME NEW S, NEW kill, S \subseteq EntryType,
         \A d, e \in S : d = e /\ e.waits \subseteq e.srcs
  PROVE  /\ Peek(S, kill) \subseteq EntryType
         /\ \A d, e \in Peek(S, kill) : d = e /\ e.waits \subseteq e.srcs
  <1>1. \A e \in S : Cleared(e, kill) \in EntryType
    BY DEF EntryType, Cleared
  <1>2. \A e \in S : Cleared(e, kill).waits \subseteq Cleared(e, kill).srcs
    BY DEF EntryType, Cleared
  <1> QED BY <1>1, <1>2 DEF Peek

(* A set of at most one entry, which waits for nothing but its sources.    *)
Good(S) == S \subseteq EntryType /\ \A d, e \in S : d = e /\ e.waits \subseteq e.srcs

(* A cycle keeps the types, whatever is added, removed, notified and       *)
(* killed.                                                                 *)
LEMMA CycleType ==
  ASSUME TypeOK, NEW kill, NEW tags, NEW issued, NEW added, Good(added),
         Cycle(kill, issued, tags, added)
  PROVE  TypeOK'
  <1> DEFINE shown == Shown(kill)
             now   == [k \in Idx |-> Notified(shown[k], tags)]
             taken(k) == TakeCall(shown, issued, k)
             input(k) == SlotInput(now, issued, Arriving(added, tags), k)
  <1>1. \A k \in Idx : Good(shown[k])
    BY PeekType DEF TypeOK, Shown, Good
  <1>2. \A k \in Idx : Good(now[k])
    BY <1>1, NotifiedType DEF Good
  <1>3. Good(Arriving(added, tags))
    BY NotifiedType DEF Arriving, Good
  <1>4. \A k \in Idx : Good(input(k))
    <2> SUFFICES ASSUME NEW k \in Idx PROVE Good(input(k))
      OBVIOUS
    <2>1. CASE k = NumSlots - 1
      BY <1>3, <2>1 DEF SlotInput
    <2>2. CASE k # NumSlots - 1
      <3>1. k + 1 \in Idx
        BY <2>2, IssueQueueAssumption DEF Idx
      <3>2. input(k) \in {{}, now[k + 1]}
        BY <2>2 DEF SlotInput
      <3>3. Good({})
        BY DEF Good
      <3> HIDE DEF now, input
      <3> QED BY <1>2, <3>1, <3>2, <3>3
    <2> QED BY <2>1, <2>2
  <1>5. slots' = [k \in Idx |-> RegNext(now[k], taken(k), input(k))]
    BY DEF Cycle, SlotsNext
  <1> HIDE DEF now, input, taken, shown
  <1>6. \A k \in Idx : Good(slots'[k])
    BY <1>2, <1>4, <1>5 DEF RegNext, Good
  <1> QED BY <1>5, <1>6 DEF TypeOK, Good

(* Each slot is empty or holds one entry, whatever is added, removed,      *)
(* notified and killed.                                                    *)
THEOREM TypeCorrect == Spec => []TypeOK
  <1>1. Init => TypeOK
    BY DEF Init, TypeOK
  <1>2. TypeOK /\ [Next]_slots => TypeOK'
    <2> SUFFICES ASSUME TypeOK, [Next]_slots PROVE TypeOK'
      OBVIOUS
    <2>1. CASE UNCHANGED slots
      BY <2>1 DEF TypeOK
    <2>2. ASSUME NEW kill \in Kills, NEW tags \in SUBSET Tags, NEW issued \in SUBSET Idx,
                 NEW added \in Optional(Entries), Step(kill, issued, tags, added)
          PROVE  TypeOK'
      <3>1. Good(added)
        BY IssueQueueAssumption DEF Optional, Good
      <3> QED BY <2>2, <3>1, CycleType DEF Step
    <2> QED BY <2>1, <2>2 DEF Next
  <1> QED BY <1>1, <1>2, PTL DEF Spec

------------------------------------------------------------------------------
(* In the last slot the two conditions of add_rdy amount to one: some slot *)
(* is invalid or issuing.                                                  *)
LEMMA AddRdyExact ==
  ASSUME NEW kill, NEW issued \in SUBSET Idx
  PROVE  QueueAddRdy(Shown(kill), issued) <=>
           \E k \in Idx : Shown(kill)[k] = {} \/ k \in issued
  <1> DEFINE shown == Shown(kill)
             last  == NumSlots - 1
             hole(k) == shown[k] = {} \/ k \in issued
  <1>1. last \in Idx /\ \A k \in Idx : k = last \/ k \in 0 .. last - 1
    BY IssueQueueAssumption DEF Idx
  <1>2. last > 0 => (last - 1) + 1 = last /\ 0 .. last - 1 \subseteq Idx
    BY IssueQueueAssumption DEF Idx
  <1>3. ~hole(last) /\ last > 0 =>
          (Shifts(shown, issued, last - 1) <=> \E j \in 0 .. last - 1 : hole(j))
    BY <1>2 DEF Shifts
  <1>4. QueueAddRdy(shown, issued) <=>
          hole(last) \/ (last > 0 /\ Shifts(shown, issued, last - 1))
    BY DEF QueueAddRdy, AddRdy, TakeCall
  <1>5. last = 0 \/ last > 0
    BY IssueQueueAssumption
  <1> HIDE DEF shown, last, hole
  <1>6. QueueAddRdy(shown, issued) <=> \E k \in Idx : hole(k)
    <2>1. CASE hole(last)
      BY <1>1, <1>4, <2>1
    <2>2. CASE ~hole(last) /\ last > 0
      BY <1>1, <1>2, <1>3, <1>4, <2>2
    <2>3. CASE ~hole(last) /\ last = 0
      <3>1. \A k \in Idx : k = last
        BY <2>3, IssueQueueAssumption DEF Idx, last
      <3> QED BY <1>4, <2>3, <3>1
    <2> QED BY <1>5, <2>1, <2>2, <2>3
  <1> QED BY <1>6 DEF shown, hole

(* An operation is refused only when the queue is full and nothing leaves. *)
THEOREM RefusalExact == Spec => []RefusedOnlyWhenFull
  <1>1. RefusedOnlyWhenFull
    BY AddRdyExact DEF RefusedOnlyWhenFull, Removable, FirstReady
  <1> QED BY <1>1, PTL

------------------------------------------------------------------------------
(* Where the entry of slot k, if it does not issue, is after the cycle.    *)
Dest(shown, issued, k) ==
  IF k > 0 /\ Shifts(shown, issued, k - 1) THEN k - 1 ELSE k

(* The entries that stay behind.                                           *)
Staying(shown, issued) == {k \in Idx : shown[k] # {} /\ k \notin issued}

(* An entry that is neither dropped nor issued moves down by at most one   *)
(* slot and is not overwritten, and no two of them change places.          *)
LEMMA Compaction ==
  ASSUME TypeOK, NEW kill, NEW tags, NEW issued \in SUBSET Idx, NEW added,
         added # {} => QueueAddRdy(Shown(kill), issued)
  PROVE  LET shown == Shown(kill)
             stays == Staying(shown, issued)
         IN  /\ \A k \in stays :
                  SlotsNext(kill, issued, tags, added)[Dest(shown, issued, k)]
                    = Notified(shown[k], tags)
             /\ \A j, k \in stays :
                  j < k => Dest(shown, issued, j) < Dest(shown, issued, k)
  <1> DEFINE shown == Shown(kill)
             now   == [k \in Idx |-> Notified(shown[k], tags)]
             input(k) == SlotInput(now, issued, Arriving(added, tags), k)
             stays == Staying(shown, issued)
             hole(k) == shown[k] = {} \/ k \in issued
             last  == NumSlots - 1
  <1>1. \A k \in Idx : shown[k] \subseteq EntryType
                        /\ \A d, e \in shown[k] : d = e /\ e.waits \subseteq e.srcs
    BY PeekType DEF TypeOK, Shown
  <1>2. \A k \in Idx : now[k] = {} <=> shown[k] = {}
    BY <1>1, NotifiedType
  <1>3. \A k \in Idx : k < last =>
          /\ k + 1 \in Idx
          /\ Shifts(now, issued, k) <=> Shifts(shown, issued, k)
    <2> SUFFICES ASSUME NEW k \in Idx, k < last
                 PROVE  k + 1 \in Idx /\ (Shifts(now, issued, k) <=> Shifts(shown, issued, k))
      OBVIOUS
    <2>1. k + 1 \in Idx /\ 0 .. k \subseteq Idx
      BY IssueQueueAssumption DEF Idx
    <2> HIDE DEF now, shown
    <2> QED BY <1>2, <2>1 DEF Shifts
  <1>4. \A k \in Idx : SlotsNext(kill, issued, tags, added)[k] =
          RegNext(now[k], TakeCall(shown, issued, k), input(k))
    BY DEF SlotsNext
  \* the slot below an entry that shifts down takes it
  <1>5. ASSUME NEW k \in stays, k > 0, Shifts(shown, issued, k - 1)
        PROVE  SlotsNext(kill, issued, tags, added)[k - 1] = now[k]
    <2>1. k \in Idx /\ k - 1 \in Idx /\ k - 1 < last /\ (k - 1) + 1 = k
      BY <1>5, IssueQueueAssumption DEF Staying, Idx
    <2>2. Shifts(now, issued, k - 1)
      BY <1>3, <1>5, <2>1
    <2>3. k - 1 # NumSlots - 1
      BY <2>1, IssueQueueAssumption DEF Idx
    <2>4. input(k - 1) = now[k]
      <3> HIDE DEF now
      <3> QED BY <2>1, <2>2, <2>3 DEF SlotInput
    <2>5. now[k] # {}
      BY <1>2, <2>1, <1>5 DEF Staying
    <2> HIDE DEF now, input
    <2> QED BY <1>4, <2>1, <2>4, <2>5 DEF RegNext
  \* an entry that does not shift is not overwritten
  <1>6. ASSUME NEW k \in stays, ~(k > 0 /\ Shifts(shown, issued, k - 1))
        PROVE  SlotsNext(kill, issued, tags, added)[k] = now[k]
    <2>1. k \in Idx /\ ~hole(k) /\ k \in Nat
      BY DEF Staying, Idx
    <2>2. ~TakeCall(shown, issued, k)
      BY <1>6, <2>1 DEF TakeCall
    <2>3. \A j \in 0 .. k : ~hole(j)
      <3>1. CASE k = 0
        BY <2>1, <3>1
      <3>2. CASE k > 0
        <4>1. (k - 1) + 1 = k /\ \A j \in 0 .. k : j = k \/ j \in 0 .. k - 1
          BY <2>1
        <4> QED BY <1>6, <2>1, <3>2, <4>1 DEF Shifts
      <3> QED BY <2>1, <3>1, <3>2
    <2>4. input(k) = {}
      <3>1. CASE k = last
        <4>1. added = {}
          <5>1. \A j \in Idx : j \in 0 .. k
            BY <3>1, IssueQueueAssumption DEF Idx
          <5> QED BY <2>3, <5>1, AddRdyExact
        <4> QED BY <3>1, <4>1 DEF SlotInput, Arriving, Notified
      <3>2. CASE k # last
        <4>1. k < last
          BY <2>1, <3>2, IssueQueueAssumption DEF Idx
        <4>2. ~Shifts(shown, issued, k)
          BY <2>3 DEF Shifts
        <4> QED BY <1>3, <2>1, <3>2, <4>1, <4>2 DEF SlotInput
      <3> QED BY <3>1, <3>2
    <2> HIDE DEF now, input
    <2> QED BY <1>4, <2>1, <2>2, <2>4 DEF RegNext
  <1>7. \A k \in stays : now[k] = Notified(shown[k], tags)
    BY DEF Staying
  <1>8. \A k \in stays : SlotsNext(kill, issued, tags, added)[Dest(shown, issued, k)]
                          = Notified(shown[k], tags)
    <2> HIDE DEF now, shown, stays
    <2> QED BY <1>5, <1>6, <1>7 DEF Dest
  \* if the younger of two neighbours moves, so does the older or it leaves
  <1>9. ASSUME NEW j \in stays, NEW k \in stays, j < k
        PROVE  Dest(shown, issued, j) < Dest(shown, issued, k)
    <2>1. j \in Idx /\ k \in Idx /\ j \in Nat /\ k \in Nat /\ k > 0 /\ ~hole(j)
      BY <1>9 DEF Staying, Idx
    <2>2. Dest(shown, issued, j) \in {j, j - 1} /\ Dest(shown, issued, k) \in {k, k - 1}
      BY DEF Dest
    <2>3. CASE j < k - 1
      BY <2>1, <2>2, <2>3
    <2>4. CASE j = k - 1
      <3>1. CASE Shifts(shown, issued, k - 1)
        <4>1. PICK i \in 0 .. k - 1 : hole(i)
          BY <3>1 DEF Shifts
        <4>2. i # j
          BY <2>1, <4>1
        <4>3. j > 0 /\ i \in 0 .. j - 1 /\ (j - 1) + 1 = j
          BY <2>1, <2>4, <4>1, <4>2
        <4>4. Shifts(shown, issued, j - 1)
          BY <2>1, <4>1, <4>3 DEF Shifts
        <4>5. Dest(shown, issued, j) = j - 1
          BY <4>3, <4>4 DEF Dest
        <4> HIDE DEF shown
        <4> QED BY <2>1, <2>2, <2>4, <4>5
      <3>2. CASE ~Shifts(shown, issued, k - 1)
        <4>1. Dest(shown, issued, k) = k
          BY <3>2 DEF Dest
        <4> HIDE DEF shown
        <4> QED BY <2>1, <2>2, <2>4, <4>1
      <3> QED BY <3>1, <3>2
    <2> QED BY <1>9, <2>1, <2>3, <2>4
  <1> QED BY <1>8, <1>9

(* Compaction is sound: an entry that is neither dropped nor issued moves  *)
(* down by at most one slot, is there after the cycle with only its        *)
(* sources updated, and stays in front of those that were behind it.       *)
THEOREM CompactionSound ==
  ASSUME TypeOK, NEW kill, NEW tags \in SUBSET Tags, NEW issued \in SUBSET Idx,
         NEW added \in Optional(Entries),
         added # {} => QueueAddRdy(Shown(kill), issued)
  PROVE  LET shown == Shown(kill)
             stays == Staying(shown, issued)
         IN  /\ \A k \in stays :
                  SlotsNext(kill, issued, tags, added)[Dest(shown, issued, k)]
                    = Notified(shown[k], tags)
             /\ \A j, k \in stays :
                  j < k => Dest(shown, issued, j) < Dest(shown, issued, k)
  BY Compaction

------------------------------------------------------------------------------
(* What becomes of an entry that stays, or that is added: its sources      *)
(* arrive and its branches are cleared.                                    *)
Updated(f, e, tags, cleared) ==
  /\ f.op = e.op /\ f.srcs = e.srcs /\ f.waits = e.waits \ tags
  /\ (f.ordered <=> e.ordered) /\ f.mask = e.mask \ cleared

LEMMA ShownNotified ==
  ASSUME TypeOK, NEW kill, NEW tags, NEW k \in Idx
  PROVE  /\ \A e \in slots[k] : Keep(e, kill) =>
              \E f \in Notified(Shown(kill)[k], tags) : Updated(f, e, tags, kill.clear_mask)
         /\ \A f \in Notified(Shown(kill)[k], tags) :
              \E e \in slots[k] : Keep(e, kill) /\ Updated(f, e, tags, kill.clear_mask)
  <1>1. Shown(kill)[k] = {Cleared(e, kill) : e \in {x \in slots[k] : Keep(x, kill)}}
    BY DEF Shown, Peek
  <1>2. ASSUME NEW e \in slots[k]
        PROVE  Updated([Cleared(e, kill) EXCEPT !.waits = @ \ tags], e, tags, kill.clear_mask)
    <2>1. e \in EntryType
      BY DEF TypeOK
    <2>2. Cleared(e, kill) = [op |-> e.op, srcs |-> e.srcs, waits |-> e.waits,
                              ordered |-> e.ordered, mask |-> e.mask \ kill.clear_mask]
      BY <2>1 DEF EntryType, Cleared
    <2> QED BY <2>2 DEF Updated
  <1>3. Notified(Shown(kill)[k], tags) =
          {[d EXCEPT !.waits = @ \ tags] : d \in Shown(kill)[k]}
    BY DEF Notified
  <1> QED BY <1>1, <1>2, <1>3

(* The contents of the queue after a cycle, entry by entry: those that     *)
(* stay, in their order and on the way towards slot 0, and in the last     *)
(* slot what is added.                                                     *)
LEMMA CycleEntries ==
  ASSUME TypeOK, NEW kill, NEW tags, NEW issued \in SUBSET Idx, NEW added, Good(added),
         added # {} => QueueAddRdy(Shown(kill), issued), Cycle(kill, issued, tags, added)
  PROVE  LET dest(k) == Dest(Shown(kill), issued, k)
         IN  /\ \A k \in Idx : \A e \in slots[k] : Keep(e, kill) /\ k \notin issued =>
                  \E f \in slots'[dest(k)] : Updated(f, e, tags, kill.clear_mask)
             /\ \A a \in added : \E f \in slots'[NumSlots - 1] : Updated(f, a, tags, {})
             /\ \A p \in Idx : \A f \in slots'[p] :
                  \/ \E k \in Idx : \E e \in slots[k] :
                       /\ Keep(e, kill) /\ k \notin issued /\ dest(k) = p
                       /\ Updated(f, e, tags, kill.clear_mask)
                  \/ p = NumSlots - 1 /\ \E a \in added : Updated(f, a, tags, {})
             /\ \A k \in Idx : dest(k) \in Idx /\ dest(k) <= k
             /\ \A j, k \in Idx : \A d \in slots[j], e \in slots[k] :
                  /\ Keep(d, kill) /\ j \notin issued /\ Keep(e, kill) /\ k \notin issued
                  /\ j < k
                  => dest(j) < dest(k)
  <1> DEFINE shown == Shown(kill)
             now   == [k \in Idx |-> Notified(shown[k], tags)]
             input(k) == SlotInput(now, issued, Arriving(added, tags), k)
             dest(k) == Dest(shown, issued, k)
             last == NumSlots - 1
  <1>1. slots' = SlotsNext(kill, issued, tags, added)
    BY DEF Cycle
  <1>2. \A k \in Idx : slots'[k] = RegNext(now[k], TakeCall(shown, issued, k), input(k))
    BY <1>1 DEF SlotsNext
  <1>3. \A k \in Idx : now[k] = {} <=> shown[k] = {}
    <2>1. \A k \in Idx : shown[k] = {} <=> Notified(shown[k], tags) = {}
      BY DEF Notified
    <2> QED BY <2>1
  <1>4. \A k \in Idx : dest(k) \in Idx /\ dest(k) <= k
    BY IssueQueueAssumption DEF Dest, Idx
  <1>5. \A k \in Idx : \A e \in slots[k] : Keep(e, kill) => shown[k] # {}
    BY DEF Shown, Peek
  <1>6. ASSUME NEW k \in Idx, NEW e \in slots[k], Keep(e, kill), k \notin issued
        PROVE  k \in Staying(shown, issued) /\ slots'[dest(k)] = now[k]
    <2>1. k \in Staying(shown, issued)
      BY <1>5, <1>6 DEF Staying
    <2> QED BY <1>1, <2>1, Compaction
  <1>7. ASSUME NEW k \in Idx, NEW e \in slots[k], Keep(e, kill), k \notin issued
        PROVE  \E f \in slots'[dest(k)] : Updated(f, e, tags, kill.clear_mask)
    <2>1. slots'[dest(k)] = Notified(shown[k], tags)
      BY <1>6, <1>7
    <2> QED BY <1>7, <2>1, ShownNotified
  <1>8. ASSUME NEW j \in Idx, NEW k \in Idx, NEW d \in slots[j], NEW e \in slots[k],
               Keep(d, kill), j \notin issued, Keep(e, kill), k \notin issued, j < k
        PROVE  dest(j) < dest(k)
    <2>1. j \in Staying(shown, issued) /\ k \in Staying(shown, issued)
      BY <1>6, <1>8
    <2> QED BY <1>8, <2>1, Compaction
  <1>9. \A a \in added : [a EXCEPT !.waits = @ \ tags] \in Arriving(added, tags)
                          /\ Updated([a EXCEPT !.waits = @ \ tags], a, tags, {})
    <2>1. \A a \in added : a \in EntryType
      BY DEF Good
    <2>2. \A a \in added : Updated([a EXCEPT !.waits = @ \ tags], a, tags, {})
      BY <2>1 DEF Updated, EntryType
    <2> QED BY <2>2 DEF Arriving, Notified
  <1>10. \A f \in Arriving(added, tags) : \E a \in added : Updated(f, a, tags, {})
    BY <1>9 DEF Arriving, Notified
  <1>11. last \in Idx
    BY IssueQueueAssumption DEF Idx
  <1>12. ASSUME NEW a \in added
         PROVE  \E f \in slots'[last] : Updated(f, a, tags, {})
    <2>1. input(last) = Arriving(added, tags)
      BY DEF SlotInput
    <2>2. Arriving(added, tags) # {}
      BY <1>9
    <2>3. slots'[last] = Arriving(added, tags)
      <3> HIDE DEF now, input, shown, last
      <3> QED BY <1>2, <1>11, <2>1, <2>2 DEF RegNext
    <2> QED BY <1>9, <2>3
  <1>13. ASSUME NEW p \in Idx, NEW f \in slots'[p]
         PROVE  \/ \E k \in Idx : \E e \in slots[k] :
                     /\ Keep(e, kill) /\ k \notin issued /\ dest(k) = p
                     /\ Updated(f, e, tags, kill.clear_mask)
                \/ p = last /\ \E a \in added : Updated(f, a, tags, {})
    <2>1. f \in RegNext(now[p], TakeCall(shown, issued, p), input(p))
      BY <1>2
    <2>2. CASE input(p) # {}
      <3>1. f \in input(p)
        <4> HIDE DEF now, input, shown
        <4> QED BY <2>1, <2>2 DEF RegNext
      <3>2. CASE p = last
        BY <1>10, <3>1, <3>2 DEF SlotInput
      <3>3. CASE p # last
        <4>1. p + 1 \in Idx /\ p + 1 > 0 /\ (p + 1) - 1 = p /\ p \in Nat
          BY <3>3, IssueQueueAssumption DEF Idx
        <4>2. Shifts(now, issued, p) /\ f \in now[p + 1]
          <5> HIDE DEF now
          <5> QED BY <3>1, <3>3 DEF SlotInput
        <4>3. 0 .. p \subseteq Idx
          BY IssueQueueAssumption DEF Idx
        <4>4. Shifts(shown, issued, p) /\ p + 1 \notin issued
          <5> HIDE DEF now, shown
          <5> QED BY <1>3, <4>1, <4>2, <4>3 DEF Shifts
        <4>5. dest(p + 1) = p
          BY <4>1, <4>4 DEF Dest
        <4>6. f \in Notified(shown[p + 1], tags)
          BY <4>1, <4>2
        <4>7. PICK e \in slots[p + 1] : Keep(e, kill) /\ Updated(f, e, tags, kill.clear_mask)
          BY <4>1, <4>6, ShownNotified
        <4> HIDE DEF now, shown, dest
        <4> QED BY <4>1, <4>4, <4>5, <4>7
      <3> QED BY <3>2, <3>3
    <2>3. CASE input(p) = {}
      <3>1. ~TakeCall(shown, issued, p) /\ f \in now[p]
        <4> HIDE DEF now, input, shown
        <4> QED BY <2>1, <2>3 DEF RegNext
      <3>2. p \notin issued /\ dest(p) = p
        BY <3>1 DEF TakeCall, Dest
      <3>3. f \in Notified(shown[p], tags)
        BY <3>1
      <3>4. PICK e \in slots[p] : Keep(e, kill) /\ Updated(f, e, tags, kill.clear_mask)
        BY <3>3, ShownNotified
      <3> HIDE DEF now, shown, dest
      <3> QED BY <3>2, <3>4
    <2> QED BY <2>2, <2>3
  <1> HIDE DEF now, shown, input
  <1> QED BY <1>4, <1>7, <1>8, <1>12, <1>13 DEF shown
=============================================================================
