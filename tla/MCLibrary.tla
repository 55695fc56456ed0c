------------------------------ MODULE MCLibrary ------------------------------
(* Components that the rest is built from, side by side: the clock of one  *)
(* of them runs, and the others rest.                                      *)
EXTENDS SequenceAllocator, IssueQueueList, KillablePipelineFifo, Cam, MPipeUnits, OverlapUnit

CONSTANTS Src, Branch, Contents

VARIABLE running

allocator == <<tail, head, num>>
queue     == <<slots, removed>>
pipeline  == <<internal, vvms, delivered>>
cam       == <<entries, overwrite_counter>>
mpipe     == <<stream, kills, units, owed>>

LibraryInit ==
  /\ running \in {"allocator", "queue", "pipeline", "cam", "mpipe", "overlap"}
  /\ AllocInit /\ QueueInit /\ PipelineInit /\ CamInit /\ MInit /\ OverlapInit
  /\ running # "mpipe" => stream = <<>>
  /\ running # "overlap" => check = [base_a |-> 0, size_a |-> 0, base_b |-> 0, size_b |-> 0]

LibraryNext ==
  /\ UNCHANGED running
  /\ \/ running = "allocator" /\ AllocNext /\ UNCHANGED <<queue, pipeline, cam, mpipe, check>>
     \/ running = "queue" /\ QueueNext /\ UNCHANGED <<allocator, pipeline, cam, mpipe, check>>
     \/ running = "pipeline" /\ PipelineNext /\ UNCHANGED <<allocator, queue, cam, mpipe, check>>
     \/ running = "cam" /\ CamNext /\ UNCHANGED <<allocator, queue, pipeline, mpipe, check>>
     \/ running = "mpipe" /\ MNext /\ UNCHANGED <<allocator, queue, pipeline, cam, check>>
     \/ running = "overlap" /\ OverlapNext
        /\ UNCHANGED <<allocator, queue, pipeline, cam, mpipe>>

LibrarySpec ==
  LibraryInit /\ [][LibraryNext]_<<running, allocator, queue, pipeline, cam, mpipe, check>>

(* Ordered operations and others, with or without a source to wait for,    *)
(* under a branch or not.                                                  *)
MCEntries ==
  {[op |-> op, srcs |-> srcs, waits |-> srcs, ordered |-> op = "store", mask |-> mask] :
     op \in {"store", "load"}, srcs \in SUBSET {Src}, mask \in SUBSET {Branch}}

MCPayloads == [data : Contents, mask : SUBSET {Branch}]

(* The broadcasts for that branch and for all.                             *)
MCKills ==
  {NoKill, [NoKill EXCEPT !.kill_mask = {Branch}],
   [NoKill EXCEPT !.clear_mask = {Branch}], [NoKill EXCEPT !.force = TRUE]}

(* Every operation on every pair of operands of four bits, on its own; and *)
(* four of each unit after one another, on and off the branch.             *)
MInst(opcode, funct3) == [opcode |-> opcode, upper |-> 2^5 * funct3 + 2^18]

MInsts ==
  {MInst(Opcode.OP, f) : f \in 0 .. 7} \cup {MInst(Opcode.OP_32, f) : f \in {0, 4, 5, 6, 7}}

Dispatched(insts, as, bs, masks) ==
  [data : [inst : insts, rs1 : as, rs2 : bs], mask : masks]

Lone == {<<m>> : m \in Dispatched(MInsts, Word(XLEN), Word(XLEN), {{}})} \cup {<<>>}

Together ==
  LET one == Dispatched({MInst(Opcode.OP, 1), MInst(Opcode.OP, 6)}, {13}, {3}, SUBSET {Branch})
      two == Dispatched({MInst(Opcode.OP, 0), MInst(Opcode.OP_32, 4)}, {9}, {2}, SUBSET {Branch})
  IN  {<<a, b, c, d>> : a \in one, b \in two, c \in one, d \in two}

MCTraffic ==
  {[streams |-> Lone, kills |-> {NoKill}], [streams |-> Together, kills |-> MCKills]}
==============================================================================
