--------------------------- MODULE IssueQueueList ---------------------------
(* IssueQueue implements WaitingList.                                      *)
EXTENDS IssueQueue, Selection

VARIABLE removed   \* remove_value, when remove is called

QueueInit == Init /\ removed = {}

QueueNext ==
  \E kill \in Kills, tags \in SUBSET Tags, added \in Optional(Entries) :
    \E issued \in {{}, Removable(Shown(kill))} :
      /\ Step(kill, issued, tags, added)
      /\ removed' = UNION {Shown(kill)[k] : k \in issued}

QueueSpec == QueueInit /\ [][QueueNext]_<<slots, removed>>

(* The entries of the occupied slots, slot 0 first.                        *)
Occupants ==
  LET used == {k \in Idx : slots[k] # {}}
  IN  [n \in 1 .. Cardinality(used) |-> CHOOSE e \in slots[Nth(used, n)] : TRUE]

List == INSTANCE WaitingList WITH Capacity <- NumSlots, list <- Occupants, out <- removed

(* The queue is an in-order list of waiting operations: compaction loses   *)
(* and doubles none and never swaps two, and an operation leaves only when *)
(* the order among them allows it.                                         *)
ImplementsList == List!Spec
=============================================================================
