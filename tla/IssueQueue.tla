------------------------------ MODULE IssueQueue ------------------------------
(***************************************************************************)
(* util/rtl/issue_queue.py: the compacting issue queue, with order.  An    *)
(* operation enters the last slot and moves towards slot 0 as room         *)
(* appears; the first slot with all its sources is offered for removal.    *)
(* A slot is a set of at most one entry.  An entry's waits are the sources *)
(* whose ready register is still 0.                                        *)
(***************************************************************************)
EXTENDS Integers, KillUnit

CONSTANTS NumSlots,
          Tags,      \* what sources are named by
          Opaque,    \* the messages that wait
          Branches,  \* what a message can be speculative on
          Entries,   \* what may be added
          Kills      \* the broadcasts

EntryType == [op : Opaque, srcs : SUBSET Tags, waits : SUBSET Tags,
              ordered : BOOLEAN, mask : SUBSET Branches]

ASSUME IssueQueueAssumption ==
  /\ NumSlots \in Nat /\ NumSlots >= 1
  /\ Entries \subseteq EntryType /\ \A e \in Entries : e.waits \subseteq e.srcs

VARIABLE slots

Idx == 0 .. NumSlots - 1

Init == slots = [k \in Idx |-> {}]

------------------------------------------------------------------------------
(* Plausible slips, kept to measure the properties against.                *)
ArrivingLate(added, tags) == added

WaitPredForgetsLoads(shown, k) ==
  \E j \in 0 .. k - 1 : \E p \in shown[j] : p.ordered

ShiftsBlindly(shown, issued, k) ==
  /\ shown[k + 1] # {}
  /\ \E j \in 0 .. k : shown[j] = {} \/ j \in issued

ShiftsOnlyIntoEmpty(shown, issued, k) ==
  /\ shown[k + 1] # {} /\ k + 1 \notin issued
  /\ shown[k] = {} \/ k \in issued

TakeCallOnlyIssued(shown, issued, k) == k \in issued

(* GenericIssueSlot.peek, but for the sources that match in this cycle.    *)
Shown(kill) == [k \in Idx |-> Peek(slots[k], kill)]

(* match_src: the sources that a notification of this cycle completes.     *)
Notified(entries, tags) == {[e EXCEPT !.waits = @ \ tags] : e \in entries}

(* status_ready: only the registers count, not this cycle's matches.       *)
StatusReady(shown, k) == \E e \in shown[k] : e.waits = {}

FirstReady(shown) ==
  {k \in Idx : StatusReady(shown, k) /\ \A j \in 0 .. k - 1 : ~StatusReady(shown, j)}

(* wait_pred: an ordered entry waits for any valid predecessor, the others *)
(* for an ordered one.                                                     *)
WaitPred(shown, k) ==
  \E j \in 0 .. k - 1 : \E p \in shown[j] :
    p.ordered \/ \E e \in shown[k] : e.ordered

(* remove_rdy holds when this is not empty; the slot is the one removed.   *)
Removable(shown) == {k \in FirstReady(shown) : ~WaitPred(shown, k)}

(* do_shift: slot k takes over slot k + 1.  The chain of the code, in      *)
(* which a slot can shift in when it is invalid, issuing or shifting out,  *)
(* starts at a slot that is invalid or issuing.                            *)
Shifts(shown, issued, k) ==
  /\ shown[k + 1] # {} /\ k + 1 \notin issued
  /\ \E j \in 0 .. k : shown[j] = {} \/ j \in issued

TakeCall(shown, issued, k) ==
  k \in issued \/ (k > 0 /\ Shifts(shown, issued, k - 1))

(* add_rdy of the queue.                                                   *)
QueueAddRdy(shown, issued) ==
  AddRdy(shown[NumSlots - 1], TakeCall(shown, issued, NumSlots - 1))

(* What enters slot k: its successor, or for the last slot what is added.  *)
SlotInput(shown, issued, added, k) ==
  IF k = NumSlots - 1 THEN added
  ELSE IF Shifts(shown, issued, k) THEN shown[k + 1] ELSE {}

(* handle_add: what is added also gets the notifications of this cycle.    *)
Arriving(added, tags) == Notified(added, tags)

SlotsNext(kill, issued, tags, added) ==
  LET shown == Shown(kill)
      now   == [k \in Idx |-> Notified(shown[k], tags)]
  IN  [k \in Idx |->
        RegNext(now[k], TakeCall(shown, issued, k),
                SlotInput(now, issued, Arriving(added, tags), k))]

Cycle(kill, issued, tags, added) == slots' = SlotsNext(kill, issued, tags, added)

Optional(S) == {{}} \cup {{s} : s \in S}

(* Add and remove are only called when they are ready.                     *)
Step(kill, issued, tags, added) ==
  /\ issued \in {{}, Removable(Shown(kill))}
  /\ added # {} => QueueAddRdy(Shown(kill), issued)
  /\ Cycle(kill, issued, tags, added)

Next ==
  \E kill \in Kills, tags \in SUBSET Tags, issued \in SUBSET Idx, added \in Optional(Entries) :
    Step(kill, issued, tags, added)

Spec == Init /\ [][Next]_slots

------------------------------------------------------------------------------
(* Each slot is empty or holds one entry, as it came in but for the        *)
(* sources that have arrived and the branches that were cleared.           *)
TypeOK ==
  /\ slots \in [Idx -> SUBSET EntryType]
  /\ \A k \in Idx : \A d, e \in slots[k] : d = e /\ e.waits \subseteq e.srcs

(* An operation is refused only when every slot is taken by one that stays *)
(* behind: an entry that is dropped or issued makes room at the far end in *)
(* the same cycle.                                                         *)
RefusedOnlyWhenFull ==
  \A kill \in Kills :
    LET shown == Shown(kill)
    IN  \A issued \in {{}, Removable(shown)} :
          QueueAddRdy(shown, issued) <=>
            \E k \in Idx : shown[k] = {} \/ k \in issued
=============================================================================
