------------------------------ MODULE KillUnit ------------------------------
(***************************************************************************)
(* core/rtl/kill_unit.py and the registers of util/rtl/pipeline_stage.py.  *)
(* A pipeline register is a set of at most one message; a message has a    *)
(* field mask, the unresolved branches it is speculative on.  What a       *)
(* register shows has been through the drop controller, so a message that  *)
(* the kill broadcast hits is gone in the very cycle of the broadcast.     *)
(***************************************************************************)

NoKill == [force |-> FALSE, kill_mask |-> {}, clear_mask |-> {}]

(* KillDropController.check: keep, and out.                                *)
Keep(m, kill) == ~kill.force /\ m.mask \cap kill.kill_mask = {}

Cleared(m, kill) == [m EXCEPT !.mask = @ \ kill.clear_mask]

(* ValidValueManager.peek                                                  *)
Peek(reg, kill) == {Cleared(m, kill) : m \in {x \in reg : Keep(x, kill)}}

(* ValidValueManager.add_rdy, where taken says that the message goes on.   *)
AddRdy(shown, taken) == shown = {} \/ taken

(* ValidValueManager: the registers at the next edge.                      *)
RegNext(shown, taken, added) ==
  IF added # {} THEN added ELSE IF taken THEN {} ELSE shown
=============================================================================
