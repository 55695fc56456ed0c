------------------------- MODULE InstructionStream -------------------------
(***************************************************************************)
(* What a front end promises: instructions are delivered in the order the  *)
(* predictions give, each at the program counter predicted by the one      *)
(* before, until a redirect drops those not delivered yet and names        *)
(* another program counter.  Only if the memory is slow, a redirect may    *)
(* leave an answer to be dropped, after which the stream goes on anywhere. *)
(***************************************************************************)
EXTENDS Naturals, Sequences

CONSTANTS Pcs, Capacity

VARIABLES held,     \* fetched and not delivered
          next,     \* where the stream goes on
          slow,     \* the memory may answer after the next cycle
          dropping  \* a redirect left an answer to be dropped

Init == held = <<>> /\ next \in Pcs /\ slow \in BOOLEAN /\ dropping = FALSE

(* In one step the first may be delivered and one more be fetched.         *)
Advance ==
  /\ ~dropping /\ dropping' = FALSE
  /\ \E rest \in {held} \cup {Tail(s) : s \in {x \in {held} : x # <<>>}} :
       \/ held' = rest /\ UNCHANGED next
       \/ /\ Len(rest) < Capacity
          /\ next' \in Pcs
          /\ held' = Append(rest, [pc |-> next, pc_succ |-> next'])

Redirect == held' = <<>> /\ next' \in Pcs /\ dropping' \in {FALSE, slow}

(* The answer is dropped, and the first instruction is skipped.            *)
Skip == dropping /\ dropping' = FALSE /\ next' \in Pcs /\ UNCHANGED held

Next == (Advance \/ Redirect \/ Skip) /\ UNCHANGED slow

Spec == Init /\ [][Next]_<<held, next, slow, dropping>>
=============================================================================
