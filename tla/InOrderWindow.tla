---------------------------- MODULE InOrderWindow ----------------------------
(***************************************************************************)
(* What the reorder buffer expects of whoever hands out its slots: the     *)
(* names of the instructions in flight, oldest first.  A name is given to  *)
(* the youngest instruction only while nobody else holds it, names leave   *)
(* at the old end in the order they were given, and a flush removes the    *)
(* instructions younger than a chosen one and nothing else.                *)
(***************************************************************************)
EXTENDS Naturals, Sequences

CONSTANTS Name,     \* the names of the slots
          Capacity  \* how many instructions may be in flight

VARIABLE live       \* the names in flight, oldest first

Held == {live[i] : i \in 1 .. Len(live)}

Init == live = << >>

(* The youngest end: a new name, a flush of everything younger than the    *)
(* k-th oldest instruction, or nothing.                                    *)
Grow(name) == Append(live, name)

Flush(k) == SubSeq(live, 1, k)

(* The oldest end may retire in the same step, after the youngest end has  *)
(* been dealt with.                                                        *)
Retiring(next, retire) == live' = (IF retire THEN Tail(next) ELSE next)

AllocateStep(retire) ==
  /\ Len(live) < Capacity
  /\ \E name \in Name \ Held : Retiring(Grow(name), retire)

FlushStep(retire) ==
  \E k \in 1 .. Len(live) : Retiring(Flush(k), retire)

RetireStep == Len(live) > 0 /\ Retiring(live, TRUE)

Next == \/ \E retire \in BOOLEAN : /\ retire => Len(live) > 0
                                   /\ AllocateStep(retire) \/ FlushStep(retire)
        \/ RetireStep

Spec == Init /\ [][Next]_live
==============================================================================
