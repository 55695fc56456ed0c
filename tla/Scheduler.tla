------------------------------ MODULE Scheduler ------------------------------
(***************************************************************************)
(* From rename to writeback, as connected in core/rtl/proc.py: the issue   *)
(* selector, the out-of-order and the memory issue queue, the two dispatch *)
(* stages, the ALU with its forwarder, the other units, the arbiter before *)
(* writeback, and the ready table of the data flow manager.  One step is   *)
(* one clock cycle.                                                        *)
(*                                                                         *)
(* A unit other than the ALU is one pipeline register that may hold an     *)
(* instruction back.  Rename and commit are the environment: they give out *)
(* tags and identifiers, resolve branches when the branch unit runs them,  *)
(* and retire in order.                                                    *)
(***************************************************************************)
EXTENDS Integers, FiniteSets, Sequences, KillUnit

CONSTANTS Tags,         \* physical registers
          SnapshotIds,  \* identifiers of unresolved branches
          RobSize,
          OoSlots,      \* NUM_ISSUE_SLOTS
          IoSlots,      \* NUM_MEM_ISSUE_SLOTS
          Ops           \* what may be renamed

Seqs == 0 .. RobSize - 1

(* unit: where it executes; rs1, rs2, rd: whether it has them; branch: its *)
(* successor was predicted; faults: it raises an exception as it executes. *)
(* Only the branch unit resolves branches, and PipeSelector sends what has *)
(* an exception to the CSR pipe, not to the ALU, which raises none.        *)
ASSUME SchedulerAssumption ==
  /\ RobSize \in Nat /\ RobSize >= 1
  /\ OoSlots \in Nat /\ OoSlots >= 1 /\ IoSlots \in Nat /\ IoSlots >= 1
  /\ Ops \subseteq [unit : {"alu", "other", "load", "store"}, rs1 : BOOLEAN,
                    rs2 : BOOLEAN, rd : BOOLEAN, branch : BOOLEAN, faults : BOOLEAN]
  /\ \A o \in Ops : /\ o.branch => o.unit = "other"
                    /\ o.unit = "alu" => ~o.faults

VARIABLES ready_table,             \* the tags marked ready
          live,                    \* the tags that are not free
          window,                  \* the instructions in flight, oldest first
          kill,                    \* the broadcast of this cycle
          renamed,                 \* the output register of rename
          oo_slots, io_slots,      \* the issue queues
          oo_dispatch, io_dispatch,\* the output registers of dispatch
          units                    \* those of the units: mem, alu, other

sched == <<renamed, oo_slots, io_slots, oo_dispatch, io_dispatch, units>>

vars == <<ready_table, live, window, kill, sched>>

IssueMsg == [seq : Seqs, unit : {"alu", "other", "load", "store"},
             rd : SUBSET Tags, faults : BOOLEAN]

Oo == INSTANCE IssueQueue WITH NumSlots <- OoSlots, slots <- oo_slots,
  Opaque <- IssueMsg, Branches <- SnapshotIds, Entries <- {}, Kills <- {}

Io == INSTANCE IssueQueue WITH NumSlots <- IoSlots, slots <- io_slots,
  Opaque <- IssueMsg, Branches <- SnapshotIds, Entries <- {}, Kills <- {}

Optional(S) == {{}} \cup {{s} : s \in S}

Init ==
  /\ ready_table = Tags /\ live \in {{t} : t \in Tags}
  /\ window = <<>> /\ kill = NoKill
  /\ renamed = {} /\ Oo!Init /\ Io!Init
  /\ oo_dispatch = {} /\ io_dispatch = {}
  /\ units = [u \in {"mem", "alu", "other"} |-> {}]

------------------------------------------------------------------------------
(* Plausible slips, kept to measure the properties against.                *)
MemPeekAlone(shown, oo_can_take, io_can_take) ==
  {IF m.unit = "store" THEN [m EXCEPT !.rs2 = {}] ELSE m :
     m \in {x \in shown : x.unit \in {"load", "store"} /\ io_can_take}}

(* IssueSelector.route: an operation other than a load goes to the normal  *)
(* queue and one on memory to the memory queue.  A store goes to both at   *)
(* the same time, its data to the one and its address to the other, and so *)
(* only if both can take it.                                               *)
DataPart(m) == IF m.unit = "store" THEN [m EXCEPT !.rs1 = {}] ELSE m

AddressPart(m) == IF m.unit = "store" THEN [m EXCEPT !.rs2 = {}] ELSE m

NormalPeek(shown, oo_can_take, io_can_take) ==
  {DataPart(m) :
     m \in {x \in shown : \/ x.unit \notin {"load", "store"}
                          \/ x.unit = "store" /\ oo_can_take /\ io_can_take}}

MemPeek(shown, oo_can_take, io_can_take) ==
  {AddressPart(m) :
     m \in {x \in shown : \/ x.unit = "load"
                          \/ x.unit = "store" /\ oo_can_take /\ io_can_take}}

InTake(shown, normal_take, mem_take) ==
  \E m \in shown : IF m.unit \in {"load", "store"} THEN mem_take ELSE normal_take

(* Issue.handle_input: a source is ready if the ready table says so at the *)
(* start of the cycle.  Stores are ordered in the memory queue alone.      *)
Entry(m, ordered) ==
  [op |-> [seq |-> m.seq, unit |-> m.unit, rd |-> m.rd, faults |-> m.faults],
   srcs |-> m.rs1 \cup m.rs2, waits |-> (m.rs1 \cup m.rs2) \ ready_table,
   ordered |-> ordered, mask |-> m.mask]

(* DispatchStage: the sources are read as it takes the message.  A value   *)
(* that has neither been written nor is forwarded is an old one.           *)
Dispatched(entries, values) ==
  {[seq |-> e.op.seq, unit |-> e.op.unit, mask |-> e.mask, rd |-> e.op.rd,
    faults |-> e.op.faults, stale |-> e.srcs \ values] : e \in entries}

(* PipeSelectorController.handle_sort                                      *)
Pipe(m) == IF m.unit = "alu" THEN "alu" ELSE IF m.unit = "store" THEN "mem_data" ELSE "other"

ToPipe(shown, pipe) == {m \in shown : Pipe(m) = pipe}

(* PipelineArbiter: the first client that has something, in this order.    *)
Granted(shown) ==
  IF shown["mem"] # {} THEN "mem" ELSE IF shown["alu"] # {} THEN "alu" ELSE "other"

(* WritebackStage: it takes what is granted, and writes what went well.    *)
Written(shown) == UNION {m.rd : m \in {x \in shown[Granted(shown)] : ~x.faults}}

(* What the registers before and after the units show in this cycle.       *)
OoOut == Peek(oo_dispatch, kill)

IoOut == Peek(io_dispatch, kill)

Shown == [u \in DOMAIN units |-> Peek(units[u], kill)]

(* PipelineStage: a unit takes what is before it when its register is free *)
(* at the end of the cycle and it accepts.  The ALU accepts everything,    *)
(* and so does the store data pipe, which has no register.                 *)
Clear(u) == AddRdy(Shown[u], u = Granted(Shown))

AluIn == IF Clear("alu") THEN ToPipe(OoOut, "alu") ELSE {}

OtherIn(accepts) ==
  IF Clear("other") /\ "other" \in accepts THEN ToPipe(OoOut, "other") ELSE {}

MemIn(accepts) == IF Clear("mem") /\ "mem" \in accepts THEN IoOut ELSE {}

DataIn == ToPipe(OoOut, "mem_data")

ForwardedOnce == UNION {m.rd : m \in AluIn}

(* Forwarder.handle_forward: what the ALU is computing, else what it holds.*)
Forwarded ==
  UNION {m.rd : m \in IF UNION {x.rd : x \in AluIn} # {} THEN AluIn ELSE Shown["alu"]}

------------------------------------------------------------------------------
(* The environment.  An identifier or a tag is given to a new instruction  *)
(* when it is free.                                                        *)
InWindow(seqs) == {i \in DOMAIN window : window[i].seq \in seqs}

UsedIds == UNION {window[i].spec : i \in DOMAIN window}

NewSeq == CHOOSE s \in Seqs : InWindow({s}) = {}

Renamings ==
  IF Len(window) = RobSize THEN {}
  ELSE [op : Ops, rs1 : Optional(live), rs2 : Optional(live),
        rd : Optional(Tags \ live), spec : Optional(SnapshotIds \ UsedIds)]

WellFormed(r) ==
  /\ r.op.rs1 <=> r.rs1 # {}
  /\ r.op.rs2 <=> r.rs2 # {}
  /\ r.op.rd <=> r.rd # {}
  /\ r.op.branch <=> r.spec # {}

(* The message of an instruction registered now, speculative on the        *)
(* branches that are unresolved after this cycle.                          *)
Message(r, unresolved) ==
  [seq |-> NewSeq, unit |-> r.op.unit, mask |-> unresolved,
   rs1 |-> r.rs1, rs2 |-> r.rs2, rd |-> r.rd, faults |-> r.op.faults]

(* Its entry in the window.  spec is its identifier until it is resolved;  *)
(* todo is what has to happen before it can retire.                        *)
InFlight(r) ==
  [seq |-> NewSeq, unit |-> r.op.unit, spec |-> r.spec, srcs |-> r.rs1 \cup r.rs2, rd |-> r.rd,
   faults |-> r.op.faults,
   todo |-> IF r.op.unit = "store" THEN {"result", "data"} ELSE {"result"}]

(* The window after this cycle: flushed from position cut on, resolved,    *)
(* and with the results and the store data that have arrived.              *)
Progressed(cut, resolved, results, data) ==
  [i \in 1 .. cut |->
     [window[i] EXCEPT
        !.spec = IF window[i].seq \in resolved THEN {} ELSE @,
        !.todo = @ \ ((IF window[i].seq \in results THEN {"result"} ELSE {})
                        \cup (IF window[i].seq \in data THEN {"data"} ELSE {}))]]

TagsOf(instrs) == UNION {instrs[i].rd : i \in DOMAIN instrs}

(* Registers of retired instructions that nobody in flight reads.          *)
Freeable ==
  {t \in live : \A i \in DOMAIN window : t \notin window[i].rd \cup window[i].srcs}

------------------------------------------------------------------------------
(* One cycle.  accepts: which units accept what is before them; mispredict *)
(* says how a branch turns out; retire is what commit does with the head;  *)
(* offered is what rename registers; freed is what retirement frees.       *)
Resolved(accepts) ==
  {m.seq : m \in OtherIn(accepts)} \cap
    {window[i].seq : i \in {j \in DOMAIN window : window[j].spec # {}}}

(* The scheduling proper: the queues, dispatch and the units.              *)
Flow(accepts, added) ==
  LET rename_peek == Peek(renamed, kill)
      oo_shown    == Oo!Shown(kill)
      io_shown    == Io!Shown(kill)
      oo_taken    == AluIn \cup OtherIn(accepts) \cup DataIn # {}
      io_taken    == MemIn(accepts) # {}
      written     == Written(Shown)
      updated     == written \cup Forwarded
      oo_issued   == IF AddRdy(OoOut, oo_taken) THEN Oo!Removable(oo_shown) ELSE {}
      io_issued   == IF AddRdy(IoOut, io_taken) THEN Io!Removable(io_shown) ELSE {}
      oo_rdy      == Oo!QueueAddRdy(oo_shown, oo_issued)
      io_rdy      == Io!QueueAddRdy(io_shown, io_issued)
      oo_added    == IF oo_rdy THEN NormalPeek(rename_peek, oo_rdy, io_rdy) ELSE {}
      io_added    == IF io_rdy THEN MemPeek(rename_peek, oo_rdy, io_rdy) ELSE {}
      in_take     == InTake(rename_peek, oo_added # {}, io_added # {})
      read(slots, issued) ==
        Dispatched(UNION {slots[k] : k \in issued}, ready_table \cup updated)
  IN  /\ added # {} => AddRdy(rename_peek, in_take)
      /\ renamed' = RegNext(rename_peek, in_take, added)
      /\ Oo!Cycle(kill, oo_issued, updated, {Entry(m, FALSE) : m \in oo_added})
      /\ Io!Cycle(kill, io_issued, updated, {Entry(m, m.unit = "store") : m \in io_added})
      /\ oo_dispatch' = RegNext(OoOut, oo_taken, read(oo_shown, oo_issued))
      /\ io_dispatch' = RegNext(IoOut, io_taken, read(io_shown, io_issued))
      /\ units' = [u \in DOMAIN units |->
                     RegNext(Shown[u], u = Granted(Shown),
                             CASE u = "alu"   -> AluIn
                               [] u = "mem"   -> MemIn(accepts)
                               [] u = "other" -> OtherIn(accepts))]
      /\ ready_table' = (ready_table \cup written) \ UNION {m.rd : m \in added}

Retirable(retire) ==
  retire => window # <<>> /\ window[1].todo = {}

Cycle(accepts, mispredict, retire, offered, freed) ==
  LET resolved   == Resolved(accepts)
      missed     == IF mispredict THEN resolved ELSE {}
      exception  == retire /\ window[1].faults
      cut        == IF missed = {} THEN Len(window)
                    ELSE CHOOSE i \in InWindow(missed) : TRUE
      progressed == Progressed(cut, resolved, {m.seq : m \in Shown[Granted(Shown)]},
                               {m.seq : m \in DataIn})
      unresolved == UNION {progressed[i].spec : i \in DOMAIN progressed}
      entered    == progressed \o (IF offered = {} THEN <<>>
                                   ELSE <<InFlight(CHOOSE r \in offered : TRUE)>>)
  IN  /\ Retirable(retire)
      /\ mispredict => resolved # {}
      /\ offered # {} => missed = {} /\ ~exception
      /\ \A r \in offered : (r.rs1 \cup r.rs2) \cap freed = {}
      /\ Flow(accepts, {Message(r, unresolved) : r \in offered})
      /\ kill' = [force      |-> exception,
                  kill_mask  |-> IF missed = {} THEN {}
                                 ELSE SnapshotIds \ UNION {m.mask : m \in OtherIn(accepts)},
                  clear_mask |-> IF missed # {} THEN {}
                                 ELSE UNION {window[i].spec : i \in InWindow(resolved)}]
      /\ window' = IF exception THEN <<>> ELSE IF retire THEN Tail(entered) ELSE entered
      /\ live' = ((live \ freed)
                    \ (TagsOf(window) \ TagsOf(IF exception THEN <<>> ELSE progressed)))
                   \cup UNION {r.rd : r \in offered}

Ticks(accepts, retire) ==
  \E mispredict \in BOOLEAN, freed \in SUBSET Freeable,
     offered \in Optional({r \in Renamings : WellFormed(r)}) :
    Cycle(accepts, mispredict, retire, offered, freed)

Next == \E accepts \in SUBSET {"mem", "other"}, retire \in BOOLEAN : Ticks(accepts, retire)

Spec == Init /\ [][Next]_vars

(* The clock goes on.  As all steps are steps of Next, this is weak        *)
(* fairness of Next, in a form that is cheaper to check.                   *)
ClockRuns == []<>(~ENABLED <<Next>>_vars) \/ []<><<TRUE>>_vars

(* Each unit takes in the end what is before it, and commit retires what   *)
(* can be retired.                                                         *)
OtherTakes == \E accepts \in SUBSET {"mem", "other"}, retire \in BOOLEAN :
                OtherIn(accepts) # {} /\ Ticks(accepts, retire)

MemTakes == \E accepts \in SUBSET {"mem", "other"}, retire \in BOOLEAN :
              MemIn(accepts) # {} /\ Ticks(accepts, retire)

Retires == \E accepts \in SUBSET {"mem", "other"} : Ticks(accepts, TRUE)

FairSpec ==
  Spec /\ ClockRuns /\ SF_vars(OtherTakes) /\ SF_vars(MemTakes) /\ WF_vars(Retires)

------------------------------------------------------------------------------
(* The registers on the way of an instruction, by name.                    *)
RenameReg == {<<"renamed", 0, renamed>>}

QueueRegs(slots, name) ==
  {<<name, k, {[seq |-> e.op.seq, mask |-> e.mask] : e \in slots[k]}>> : k \in DOMAIN slots}

OoRegs == QueueRegs(oo_slots, "oo") \cup {<<"oo_dispatch", 0, oo_dispatch>>}

IoRegs == QueueRegs(io_slots, "io") \cup {<<"io_dispatch", 0, io_dispatch>>}

UnitRegs(names) == {<<u, 0, units[u]>> : u \in names}

ResultPath(unit) ==
  IF unit \in {"load", "store"} THEN RenameReg \cup IoRegs \cup UnitRegs({"mem"})
  ELSE RenameReg \cup OoRegs \cup UnitRegs({"alu", "other"})

Current(m) == Keep(m, kill)

Copies(i, regs) ==
  {r \in regs : \E m \in r[3] : m.seq = window[i].seq /\ Current(m)}

Queued == (UNION {oo_slots[k] : k \in DOMAIN oo_slots}) \cup
          (UNION {io_slots[k] : k \in DOMAIN io_slots})

(* Every instruction in flight has exactly one message on the way to its   *)
(* result, and a store one more on the way of its data, until these have   *)
(* arrived.  Nothing else survives the kill broadcast.                     *)
EachPartOnce ==
  /\ \A i \in DOMAIN window :
       /\ Cardinality(Copies(i, ResultPath(window[i].unit))) =
            (IF "result" \in window[i].todo THEN 1 ELSE 0)
       /\ window[i].unit = "store" =>
            Cardinality(Copies(i, RenameReg \cup OoRegs)) =
              (IF "data" \in window[i].todo THEN 1 ELSE 0)
  /\ \A r \in RenameReg \cup OoRegs \cup IoRegs \cup UnitRegs(DOMAIN units) :
       \A m \in r[3] : Current(m) => InWindow({m.seq}) # {}

(* No wake-up is lost: a queued instruction that still waits for a source  *)
(* waits for a result that has not been written, and an older instruction  *)
(* in flight will write it, or has raised an exception, with which both    *)
(* are flushed when it gets to the head.                                   *)
NoLostWakeup ==
  \A e \in {x \in Queued : Current(x)} : \A t \in e.waits :
    /\ t \notin ready_table
    /\ \E i, j \in DOMAIN window :
         /\ i < j /\ window[j].seq = e.op.seq /\ t \in window[i].rd
         /\ "result" \in window[i].todo \/ window[i].faults

(* No instruction reads a register before its value is there: by the time  *)
(* it is dispatched, every source has been written or is on the bypass.    *)
ReadsFresh ==
  \A m \in oo_dispatch \cup io_dispatch : Current(m) => m.stale = {}

(* Memory operations are not reordered around a store: if one of the two   *)
(* is a store, the younger is not dispatched before the older one.         *)
MemoryOrder ==
  \A i, j \in DOMAIN window :
    (/\ i < j
     /\ {window[i].unit, window[j].unit} \in {{"store"}, {"load", "store"}}
     /\ Copies(i, RenameReg \cup QueueRegs(io_slots, "io")) # {}
     /\ "result" \in window[i].todo)
      => Copies(j, RenameReg \cup QueueRegs(io_slots, "io")) # {}

(* The instruction at the head always leaves in the end.                   *)
HeadLeaves ==
  \A s \in Seqs :
    window # <<>> /\ window[1].seq = s ~> ~(window # <<>> /\ window[1].seq = s)
==============================================================================
