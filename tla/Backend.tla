------------------------------- MODULE Backend -------------------------------
(***************************************************************************)
(* The out-of-order back end, put together as in core/rtl/proc.py: rename  *)
(* registers instructions with the control and the data flow managers, the *)
(* functional units finish them in any order, the branch unit resolves     *)
(* predictions, writeback marks results ready, commit retires from the     *)
(* head of the reorder buffer.  One step is one clock cycle, in which each *)
(* of these stages may act.                                                *)
(*                                                                         *)
(* The queues and pipes between rename and writeback only delay an         *)
(* instruction, so an instruction between the two is "waiting" and may be  *)
(* picked in any cycle.  What matters is that every one of them applies    *)
(* the kill broadcast to what it holds.                                    *)
(***************************************************************************)
EXTENDS ControlFlow

(* What decode hands to rename, together with what executing it may find:  *)
(* src and dst are sets of at most one architectural register, results is  *)
(* the set of statuses it can come back with.                              *)
CONSTANT Instrs

Statuses == {"valid", "exception", "fence", "replay"}

ASSUME InstrsAssumption ==
  /\ Instrs \subseteq [src : SUBSET Aregs, dst : SUBSET Aregs,
                       speculative : BOOLEAN, store : BOOLEAN,
                       serialize : BOOLEAN, results : SUBSET Statuses]
  /\ \A d \in Instrs : \A a, b \in d.dst : a = b

VARIABLE pipe   \* the instructions in rename's output, the issue queues, the
                \* pipes, writeback and the reorder buffer

vars == <<dflow, cflow, pipe>>

Optional(S) == {{}} \cup {{s} : s \in S}

Init == DFInit /\ CFInit /\ pipe = {}

------------------------------------------------------------------------------
(* Plausible slips, kept to measure the properties against.                *)
KilledForgetsForce(i) == i.mask \cap kill.kill_mask # {}

KeptForgetsClear == {i \in pipe : ~(kill.force \/ i.mask \cap kill.kill_mask # {})}

WrittenUnchecked(finished) == UNION {f.instr.rd : f \in finished}

(* KillDropController.                                                     *)
Killed(i) == kill.force \/ i.mask \cap kill.kill_mask # {}

(* What the stages show in this cycle: the instructions the broadcast      *)
(* spares, with the branches it clears taken out of their masks.           *)
Kept == {[i EXCEPT !.mask = @ \ kill.clear_mask] : i \in {j \in pipe : ~Killed(j)}}

(* The branch unit takes jumps and branches once; they go on to writeback  *)
(* like the results of the other units.                                    *)
Resolvable(flowing) == {i \in flowing : i.loc = "waiting" /\ i.instr.speculative}

Finishable(flowing) ==
  {i \in flowing : i.loc = IF i.instr.speculative THEN "resolved" ELSE "waiting"}

(* set_rob_remove, but for the memory system, which may hold stores and    *)
(* fences back.                                                            *)
HeadDone(flowing) ==
  {i \in flowing : i.seq = head /\ i.loc = "rob" /\ Seq!free_rdy}

MayWait(i) == i.status \in {"fence", "replay"} \/ (i.instr.store /\ i.status = "valid")

(* handle_register_call                                                    *)
RegisterCall(d) == d.dst # {} => get_dst_rdy

(* The message rename sends on for the decoded instruction d.              *)
Renamed(d, redirect) ==
  [seq      |-> tail,
   mask     |-> BmaskCurr(redirect),
   spec     |-> IF d.speculative THEN {snapshot_id} ELSE {},
   src      |-> {get_src(a) : a \in d.src},
   rd       |-> {get_dst_preg(a) : a \in d.dst},
   store_id |-> IF d.store THEN {get_store_id} ELSE {},
   instr    |-> d,
   loc      |-> "waiting",
   status   |-> "valid"]

(* Writeback only writes the results of instructions that went well.       *)
Written(finished) ==
  UNION {f.instr.rd : f \in {g \in finished : g.status # "exception"}}

(* From the units to writeback, and from there to the reorder buffer.      *)
Moved(i, resolved, finished) ==
  IF \E r \in resolved : r.instr = i THEN [i EXCEPT !.loc = "resolved"]
  ELSE IF \E f \in finished : f.instr = i
    THEN [i EXCEPT !.loc = "written", !.status = (CHOOSE f \in finished : TRUE).status]
  ELSE IF i.loc = "written" THEN [i EXCEPT !.loc = "rob"]
  ELSE i

(* The calls of the cycle, as the control flow manager sees them.          *)
RegisterCalls(offered) ==
  {[speculative |-> o.instr.speculative, store |-> o.instr.store,
    serialize |-> o.instr.serialize, pc_succ |-> o.pc_succ] : o \in offered}

RedirectCalls(resolved) ==
  {[seq |-> r.instr.seq, spec_idx |-> CHOOSE s \in r.instr.spec : TRUE,
    branch_mask |-> r.instr.mask, target |-> r.target, force |-> FALSE] : r \in resolved}

CommitCalls(committed) ==
  {[redirect |-> i.status \in {"exception", "replay"}] : i \in committed}

(* handle_commit: an exception retires nothing.                            *)
RetiredDsts(committed) ==
  {[tag  |-> CHOOSE t \in i.rd : TRUE, areg |-> CHOOSE a \in i.instr.dst : TRUE] :
     i \in {j \in committed : j.status # "exception" /\ j.rd # {}}}

RetiredStores(committed) ==
  UNION {i.store_id : i \in {j \in committed : j.status # "exception"}}

(* What rename takes of what decode offers.                                *)
Accepted(offered) ==
  IF Registered(RegisterCalls(offered)) # {} THEN {o.instr : o \in offered} ELSE {}

(* The calls of the cycle, as the data flow manager sees them.  A branch   *)
(* that was mispredicted brings back the snapshot it settles.              *)
DataFlowCalls(accepted, resolved, finished, committed) ==
  LET settled == UNION {r.instr.spec : r \in resolved}
  IN  [get_dst       |-> UNION {d.dst : d \in accepted},
       take_store    |-> \E d \in accepted : d.store,
       write         |-> Written(finished),
       commit        |-> RetiredDsts(committed),
       free_store    |-> RetiredStores(committed),
       snapshot      |-> \E d \in accepted : d.speculative,
       free_snapshot |-> settled,
       restore       |-> IF BranchRedirect(RedirectCalls(resolved)) # {} THEN settled ELSE {},
       rollback      |-> CommitRedirect(CommitCalls(committed)) # {}]

(* One cycle, given what the stages show of the pipe: decode offers an     *)
(* instruction with a predicted successor, the branch unit resolves one to *)
(* a target, a unit sends one with its status to writeback, and commit     *)
(* retires the head.                                                       *)
Cycle(flowing, offered, resolved, finished, committed) ==
  LET redirect == RedirectCalls(resolved)
      accepted == Accepted(offered)
  IN  /\ CFCycle(RegisterCalls(offered), redirect, CommitCalls(committed))
      /\ DFCycle(DataFlowCalls(accepted, resolved, finished, committed))
      /\ pipe' = {Moved(i, resolved, finished) : i \in flowing \ committed}
                   \cup {Renamed(d, redirect) : d \in accepted}

(* What each stage may do.  Decode drops what it holds in the cycle of a   *)
(* redirect, and commit takes a finished head unless memory holds it back. *)
Resolutions(flowing) ==
  Optional([instr : Resolvable(flowing), target : Pcs])

Finishes(flowing) ==
  Optional({f \in [instr : Finishable(flowing), status : Statuses] :
              f.status \in f.instr.instr.results})

Commits(flowing) ==
  {c \in {{}, HeadDone(flowing)} : \A i \in HeadDone(flowing) \ c : MayWait(i)}

Offers(resolved, committed) ==
  IF IsRedirect(RedirectCalls(resolved), CommitCalls(committed)) THEN {{}}
  ELSE Optional([instr : {d \in Instrs : RegisterCall(d)}, pc_succ : Pcs])

Next ==
  LET flowing == Kept
  IN  \E resolved \in Resolutions(flowing), finished \in Finishes(flowing),
         committed \in Commits(flowing) :
        \E offered \in Offers(resolved, committed) :
          Cycle(flowing, offered, resolved, finished, committed)

Spec == Init /\ [][Next]_vars

(* The clock goes on.  As all steps are steps of Next, this is weak        *)
(* fairness of Next, in a form that is cheaper to check.                   *)
ClockRuns == []<>(~ENABLED <<Next>>_vars) \/ []<><<TRUE>>_vars

(* The oldest instruction is not passed over for ever: its sources have    *)
(* all been written, the issue queues pick the oldest ready instruction    *)
(* first, and memory answers in the end.                                   *)
HeadWorks ==
  LET flowing == Kept
  IN  \E resolved \in Resolutions(flowing), finished \in Finishes(flowing),
         committed \in Commits(flowing) :
        /\ Seq!free_rdy
        /\ \/ \E r \in resolved : r.instr.seq = head
           \/ \E f \in finished : f.instr.seq = head
           \/ committed # {}
        /\ \E offered \in Offers(resolved, committed) :
             Cycle(flowing, offered, resolved, finished, committed)

FairSpec == Spec /\ ClockRuns /\ WF_vars(HeadWorks)

------------------------------------------------------------------------------
(* An instruction in the pipe is live while it holds a slot of the reorder *)
(* buffer; the others have been flushed and await the broadcast.           *)
Live == {i \in pipe : Seq!InUse(i.seq)}

Age(i) == Seq!Distance(i.seq, head)

Older(i) == {j \in Live : Age(j) < Age(i)}

Unresolved(instrs) == {i \in instrs : i.spec # {} /\ i.loc = "waiting"}

IdsOf(instrs) == UNION {i.spec : i \in instrs}

(* The register that holds the value of areg after the given instructions, *)
(* which are the oldest live ones: the destination of the youngest of them *)
(* that writes areg, else the architectural one.                           *)
Holder(instrs, areg) ==
  LET writers == {i \in instrs : areg \in i.instr.dst}
  IN  IF areg = 0 THEN {ZERO_TAG}
      ELSE IF writers = {} THEN {areg_file[areg]}
      ELSE UNION {i.rd : i \in {j \in writers : \A k \in writers : Age(k) <= Age(j)}}

TypeOK ==
  /\ DFTypeOK /\ CFTypeOK
  /\ pipe \subseteq
       [seq : Seq!SeqIdx, mask : SUBSET SnapshotIds, spec : SUBSET SnapshotIds,
        src : SUBSET (0 .. NumPregs - 1), rd : SUBSET (0 .. NumPregs - 1),
        store_id : SUBSET StoreIds, instr : Instrs,
        loc : {"waiting", "resolved", "written", "rob"}, status : Statuses]

(* The broadcast of a redirect arrives a cycle late.  When it arrives it   *)
(* kills the instructions that lost their slots to the redirect, all of    *)
(* them and no other.                                                      *)
KillExact == \A i \in pipe : Killed(i) <=> ~Seq!InUse(i.seq)

(* Each slot in use belongs to exactly one instruction of the pipe, so no  *)
(* instruction is lost on the way to commit and none is there twice.       *)
SlotsExact ==
  \A s \in Seq!SeqIdx : Seq!InUse(s) =>
    /\ \E i \in Live : i.seq = s
    /\ \A i, j \in Live : i.seq = s /\ j.seq = s => i = j

(* An instruction's branch mask, as the next broadcast will leave it, has  *)
(* exactly the speculative instructions older than it and not resolved;    *)
(* the control flow manager's own mask has those of the whole pipe, and    *)
(* these are the snapshots that are taken.                                 *)
MasksExact ==
  /\ \A i \in Live : i.mask \ kill.clear_mask = IdsOf(Unresolved(Older(i)))
  /\ \A i, j \in Unresolved(Live) : i.spec = j.spec => i = j
  /\ bmask = IdsOf(Unresolved(Live))
  /\ SnapshotIds \ snaps_free = bmask

(* Renaming is exact: each architectural register is mapped to the result  *)
(* of the youngest live instruction that writes it, and each instruction   *)
(* reads the results of the youngest writers older than itself.            *)
RenameExact ==
  /\ \A a \in Aregs : {get_src(a)} = Holder(Live, a)
  /\ \A i \in Live : i.src = UNION {Holder(Older(i), a) : a \in i.instr.src}

(* What a misprediction will bring back: the map as it was just after the  *)
(* instruction, and the registers and store identifiers of all the younger *)
(* instructions, none of an older one.                                     *)
SnapshotsExact ==
  \A i \in Unresolved(Live) : \A id \in i.spec :
    LET upto    == Older(i) \cup {i}
        younger == Live \ upto
        held    == {areg_file[a] : a \in Aregs \ {0}} \cup UNION {j.rd : j \in upto}
    IN  /\ \A a \in Aregs \ {0} : {rename_copies[id][a]} = Holder(upto, a)
        /\ (UNION {j.rd : j \in younger}) \ {ZERO_TAG} \subseteq regs_tracked[id]
        /\ regs_tracked[id] \cap held = {}
        /\ UNION {j.store_id : j \in younger} \subseteq stores_tracked[id]
        /\ stores_tracked[id] \cap UNION {j.store_id : j \in upto} = {}

(* A physical register is free, architectural, or the destination of one   *)
(* live instruction, and never two of these.  At most one register is none *)
(* of them, the one reset marks as used in error.                          *)
ArchRegs == {areg_file[a] : a \in Aregs \ {0}}

LiveRegs == (UNION {i.rd : i \in Live}) \ {ZERO_TAG}

RegsConserved ==
  /\ \A a, b \in Aregs \ {0} : areg_file[a] = areg_file[b] => a = b
  /\ \A i, j \in Live : i.rd \cap j.rd \subseteq {ZERO_TAG} \/ i = j
  /\ regs_free \cap (ArchRegs \cup LiveRegs) = {}
  /\ ArchRegs \cap LiveRegs = {}
  /\ AllocPregs \ (regs_free \cup ArchRegs \cup LiveRegs) \subseteq {NumAregs - 1}

(* The ready bits tell the truth about every register that can be read: a  *)
(* live destination is ready once its own instruction has written it, and  *)
(* not by the late write of an instruction that was flushed; the           *)
(* architectural registers are ready.                                      *)
ReadyExact ==
  /\ \A i \in Live : \A p \in i.rd \ {ZERO_TAG} :
       p \in ready_table <=> i.loc \in {"written", "rob"} /\ i.status # "exception"
  /\ ArchRegs \cup {ZERO_TAG} \subseteq ready_table

(* The store identifiers taken are those of the live stores, one each.     *)
StoreIdsExact ==
  /\ StoreIds \ stores_free = UNION {i.store_id : i \in Live}
  /\ \A i, j \in Live : i.store_id \cap j.store_id # {} => i = j

(* A serialised instruction has the back end to itself, and the flag that  *)
(* holds the others back is up just as long as it is there.                *)
SerialAlone ==
  serial <=> \E i \in Live : i.instr.serialize /\ Live = {i}

(* The back end calls the sequence allocator only in the ways it is built  *)
(* for: it never rolls back to a slot that is not in use, and never hands  *)
(* out a slot or takes one back that is not there.                         *)
SequenceSpec == Seq!AllocSpec

(* The oldest instruction always leaves in the end, whatever is predicted, *)
(* killed and replayed around it.                                          *)
HeadLeaves == \A s \in Seq!SeqIdx : head = s /\ num # 0 ~> head # s

(* dataflow.py, above arch_used_pregs: "arch_used_pregs[i] is 1 if preg i  *)
(* is used by the arf, and 0 otherwise".                                   *)
ArchUsedIsArf == arch_used_pregs = ArchRegs
=============================================================================
