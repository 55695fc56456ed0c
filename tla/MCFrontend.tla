----------------------------- MODULE MCFrontend -----------------------------
(* Frontend, with the target of the last redirect remembered until the     *)
(* instruction that fetch delivers first has been seen.                    *)
EXTENDS Frontend

VARIABLE awaited

MCInit == Init /\ awaited = {}

MCNext ==
  \/ Run /\ awaited' = IF fetched = {} THEN awaited ELSE {}
  \/ \E target \in Pcs : Redirect(target) /\ awaited' = {target}

MCSpec == MCInit /\ [][MCNext]_<<vars, awaited>>

(* "the new PC is the target": the first instruction that is fetched after *)
(* a redirect is the one at its target.                                    *)
RedirectIsFollowed == \A target \in awaited, m \in fetched : m.pc = target
=============================================================================
