---------------------------- MODULE KillableFifo ----------------------------
(***************************************************************************)
(* What a unit of several stages promises to those around it: a bounded    *)
(* queue from which every kill broadcast removes exactly the messages that *)
(* it hits, at once and wherever they are.                                 *)
(***************************************************************************)
EXTENDS Naturals, Sequences, KillUnit, Selection

CONSTANTS Capacity, Messages, Kills

VARIABLES queue,  \* oldest first
          out     \* what left in the last cycle

Shown(kill) ==
  LET kept == {i \in DOMAIN queue : Keep(queue[i], kill)}
  IN  [n \in 1 .. Cardinality(kept) |-> Cleared(queue[Nth(kept, n)], kill)]

Init == queue = <<>> /\ out = {}

Emit(shown) == shown # <<>> /\ out' = {Head(shown)}

Append1(rest, kill) ==
  \/ queue' = rest
  \/ /\ Len(rest) < Capacity
     /\ queue' \in {Append(rest, Cleared(m, kill)) : m \in {x \in Messages : Keep(x, kill)}}

Next ==
  \E kill \in Kills :
    LET shown == Shown(kill)
    IN  \/ out' = {} /\ Append1(shown, kill)
        \/ Emit(shown) /\ Append1(Tail(shown), kill)

Spec == Init /\ [][Next]_<<queue, out>>
=============================================================================
