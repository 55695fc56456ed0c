----------------------------- MODULE ControlFlow -----------------------------
(***************************************************************************)
(* core/rtl/controlflow.py: the control flow manager.  It registers        *)
(* instructions in program order, resolves the predictions made for        *)
(* speculative ones, and tells the whole back end, one cycle later, which  *)
(* branches of the speculation tree to kill and which to forget.  Branch   *)
(* masks are sets of snapshot identifiers.  It drives the data flow        *)
(* manager, whose calls CFCycle makes are collected by the composition.    *)
(***************************************************************************)
EXTENDS DataFlow

CONSTANTS RobSize,  \* 1 << seqidx_nbits
          Pcs       \* program counters

ASSUME ControlFlowAssumption == RobSize \in Nat /\ RobSize >= 2 /\ Pcs # {}

VARIABLES tail, head, num,  \* seq
          pc_pred,          \* pc_pred: the predicted successor per snapshot
          kill_pend,        \* a broadcast is being shown this cycle
          kill,             \* reg_force, reg_kill, reg_clear
          bmask,            \* the unresolved speculative instructions
          serial,           \* a serialised instruction is in flight
          reset_redirect    \* reset_redirect_valid_

cflow == <<tail, head, num, pc_pred, kill_pend, kill, bmask, serial,
           reset_redirect>>

Seq == INSTANCE SequenceAllocator WITH NumEntries <- RobSize

NoKill == [force |-> FALSE, kill_mask |-> {}, clear_mask |-> {}]

CFInit ==
  /\ Seq!AllocInit
  /\ pc_pred \in [SnapshotIds -> Pcs]   \* a memory without a reset value
  /\ kill_pend = FALSE /\ kill = NoKill
  /\ bmask = {} /\ serial = FALSE
  /\ reset_redirect = TRUE

(***************************************************************************)
(* The calls of a cycle.                                                   *)
(*   register: records of speculative, serialize, store and pc_succ;       *)
(*   redirect: records of seq, spec_idx, branch_mask, target and force;    *)
(*   commit:   records of redirect, whether the commit is an exception.    *)
(* Each is empty or a singleton.                                           *)
(***************************************************************************)

(* handle_branch_redirection: the resolved instruction was mispredicted.   *)
Mispredicted(r) == r.target # pc_pred[r.spec_idx] \/ r.force

BranchRedirect(redirect) == {r \in redirect : Mispredicted(r)}

CommitRedirect(commit) == {c \in commit : c.redirect}

IsRedirect(redirect, commit) ==
  reset_redirect \/ BranchRedirect(redirect) # {} \/ CommitRedirect(commit) # {}

(* Plausible slips, kept to measure the properties against.                *)
KillOnlyOwn(redirect) == {r.spec_idx : r \in BranchRedirect(redirect)}

ClearNothing(redirect) == {r \in {} : r \in redirect}

KillNextSticks(redirect, commit) ==
  IF IsRedirect(redirect, commit) \/ redirect # {}
    THEN [force |-> CommitRedirect(commit) # {},
          kill_mask |-> UNION {{r.spec_idx} \cup (SnapshotIds \ r.branch_mask) :
                                 r \in BranchRedirect(redirect)},
          clear_mask |-> {r.spec_idx : r \in redirect \ BranchRedirect(redirect)}]
    ELSE kill

RegisterIgnoresFull(r) ==
  /\ r.speculative => snapshot_rdy
  /\ r.store => get_store_id_rdy
  /\ r.serialize => ~Seq!free_rdy
  /\ ~serial

RegisterIgnoresSerial(r) ==
  /\ Seq!allocate_rdy
  /\ r.speculative => snapshot_rdy
  /\ r.store => get_store_id_rdy
  /\ r.serialize => ~Seq!free_rdy

(* A misprediction kills everything but what the resolved instruction      *)
(* itself is speculative on.                                               *)
KillMask(redirect) ==
  UNION {{r.spec_idx} \cup (SnapshotIds \ r.branch_mask) : r \in BranchRedirect(redirect)}

(* A correct prediction is forgotten.                                      *)
ClearMask(redirect) == {r.spec_idx : r \in redirect \ BranchRedirect(redirect)}

(* bmask_curr_: what an instruction registered now is speculative on.      *)
BmaskCurr(redirect) == bmask \ (KillMask(redirect) \cup ClearMask(redirect))

(* register_success                                                        *)
RegisterSuccess(r) ==
  /\ Seq!allocate_rdy
  /\ r.speculative => snapshot_rdy
  /\ r.store => get_store_id_rdy
  /\ r.serialize => ~Seq!free_rdy
  /\ ~serial

Registered(register) == {r \in register : RegisterSuccess(r)}

(* handle_bmask                                                            *)
BmaskNext(register, redirect, commit) ==
  IF CommitRedirect(commit) # {} THEN {}
  ELSE BmaskCurr(redirect) \cup
         {snapshot_id : r \in {q \in Registered(register) : q.speculative}}

(* set_kill_pend: the broadcast registers change when there is something   *)
(* to show, or when what was shown has to be withdrawn.                    *)
KillNext(redirect, commit) ==
  IF kill_pend \/ IsRedirect(redirect, commit) \/ redirect # {}
    THEN [force |-> CommitRedirect(commit) # {} \/
                    \E r \in BranchRedirect(redirect) : r.force,
          kill_mask |-> KillMask(redirect),
          clear_mask |-> ClearMask(redirect)]
    ELSE kill

(* update_seq: an exception rolls back to the head, which is being freed.  *)
RollbackIdx(redirect, commit) ==
  IF CommitRedirect(commit) # {} THEN head
  ELSE CHOOSE s \in {r.seq : r \in redirect} : TRUE

(* set_serial                                                              *)
SerialNext(register, commit) ==
  IF (\E r \in Registered(register) : r.serialize) \/ (serial /\ commit # {})
    THEN ~serial ELSE serial

CFCycle(register, redirect, commit) ==
  LET rollback == BranchRedirect(redirect) # {} \/ CommitRedirect(commit) # {}
  IN  /\ Seq!AllocCycle(Registered(register) # {}, commit # {}, rollback,
                   IF rollback THEN RollbackIdx(redirect, commit) ELSE head)
      /\ pc_pred' = [i \in SnapshotIds |->
                       IF \E r \in Registered(register) : r.speculative /\ i = snapshot_id
                         THEN (CHOOSE r \in register : TRUE).pc_succ
                         ELSE pc_pred[i]]
      /\ kill_pend' = (IsRedirect(redirect, commit) \/ redirect # {})
      /\ kill' = KillNext(redirect, commit)
      /\ bmask' = BmaskNext(register, redirect, commit)
      /\ serial' = SerialNext(register, commit)
      /\ reset_redirect' = FALSE

CFTypeOK ==
  /\ Seq!AllocTypeOK
  /\ pc_pred \in [SnapshotIds -> Pcs]
  /\ kill_pend \in BOOLEAN
  /\ kill \in [force : BOOLEAN, kill_mask : SUBSET SnapshotIds,
               clear_mask : SUBSET SnapshotIds]
  /\ bmask \subseteq SnapshotIds
  /\ serial \in BOOLEAN /\ reset_redirect \in BOOLEAN
==============================================================================
