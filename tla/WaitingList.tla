----------------------------- MODULE WaitingList -----------------------------
(***************************************************************************)
(* What an issue queue promises: a bounded list of waiting operations in   *)
(* the order in which they came.  In each cycle those that a kill hits     *)
(* vanish, the oldest one that has all its sources may leave if the order  *)
(* of operations allows it, arriving sources are marked, and an operation  *)
(* may be appended when there is room.                                     *)
(***************************************************************************)
EXTENDS Naturals, Sequences, KillUnit, Selection

CONSTANTS Capacity,  \* how many operations can wait
          Tags,      \* what sources are named by
          Entries,   \* [waits, srcs, mask, ordered, op]: waits is what is missing
          Kills      \* the broadcasts

VARIABLES list,
          out   \* what left in the last cycle

Shown(kill) ==
  LET kept == {i \in DOMAIN list : Keep(list[i], kill)}
  IN  [n \in 1 .. Cardinality(kept) |-> Cleared(list[Nth(kept, n)], kill)]

(* An ordered operation goes only when it is the oldest; the others may    *)
(* pass each other, but none may pass an ordered one.                      *)
MayGo(shown, i) ==
  IF shown[i].ordered THEN i = 1 ELSE \A j \in 1 .. i - 1 : ~shown[j].ordered

OldestReady(shown) ==
  {i \in DOMAIN shown : /\ shown[i].waits = {}
                        /\ \A j \in 1 .. i - 1 : shown[j].waits # {}}

Candidates(shown) == {i \in OldestReady(shown) : MayGo(shown, i)}

Without(shown, going) ==
  LET rest == DOMAIN shown \ going
  IN  [n \in 1 .. Cardinality(rest) |-> shown[Nth(rest, n)]]

Marked(entries, notified) ==
  [i \in DOMAIN entries |-> [entries[i] EXCEPT !.waits = @ \ notified]]

Init == list = <<>> /\ out = {}

Next ==
  \E kill \in Kills :
    LET shown == Shown(kill)
    IN  \E going \in {{}, Candidates(shown)} :
          LET rest == Without(shown, going)
          IN  /\ out' = {shown[i] : i \in going}
              /\ \E notified \in SUBSET Tags :
                   \/ list' = Marked(rest, notified)
                   \/ /\ Len(rest) < Capacity
                      /\ list' \in {Marked(Append(rest, e), notified) : e \in Entries}

Spec == Init /\ [][Next]_<<list, out>>
==============================================================================
