---------------------------- MODULE MemorySystem ----------------------------
(***************************************************************************)
(* Loads, stores and fences from the memory issue queue to retirement, as  *)
(* connected in core/rtl/proc.py: the memory pipe in its killable wrapper, *)
(* the pipe for store data, the memory flow manager with its tables and    *)
(* its arbiter, the part of commit that sends stores and waits for fences, *)
(* and the data port of the memory.  One step is one clock cycle.          *)
(*                                                                         *)
(* The rest of the back end is the environment: it renames instructions,   *)
(* delivers their sources in any order, resolves branches, and retires     *)
(* what commit lets it retire.                                             *)
(***************************************************************************)
EXTENDS Naturals, Sequences, FiniteSets, KillUnit, OverlapChecker

CONSTANTS Accesses,     \* what an access touches: the addresses of its bytes
          Values,       \* what a store writes to each of them
          StoreIds,     \* STORE_QUEUE_SIZE
          SnapshotIds,  \* identifiers of unresolved branches
          Seqs,         \* the slots of the reorder buffer
          Delays,       \* of the memory
          Kinds         \* what may be renamed

ASSUME MemoryAssumption ==
  /\ Delays \subseteq Nat
  /\ \A a \in Accesses : \E base \in Base, size \in Size \ {0} : a = BytesAt(base, size)
  /\ Kinds \subseteq {"load", "store", "fence", "branch", "trap"}

Bytes == UNION Accesses

VARIABLES window,           \* the instructions in flight, oldest first
          kill,             \* the broadcast of this cycle
          queue,            \* the memory issue queue
          data_queue,       \* the halves of stores on the way of their data
          dispatched,       \* the output register of dispatch
          internal, vvms,   \* the memory pipe
          address_table, address_valid, store_data, data_valid,
          store_in_flight,  \* the arbiter's register
          bus,              \* the request that the memory is working on
          memory

pipe == <<dispatched, internal, vvms>>

tables == <<address_table, address_valid, store_data, data_valid>>

vars == <<window, kill, queue, data_queue, pipe, tables, store_in_flight, bus, memory>>

Mem == INSTANCE KillablePipeline WITH
  NStages <- 2, Payloads <- {}, Broadcasts <- {}

(* store_in_flight has no reset value, nor have the tables without a valid *)
(* bit; what those hold does not matter.                                   *)
Init ==
  /\ window = <<>> /\ kill = NoKill
  /\ queue = <<>> /\ data_queue = {} /\ dispatched = {} /\ Mem!PipeInit
  /\ address_table = [s \in StoreIds |-> {}] /\ address_valid = {}
  /\ store_data \in {[s \in StoreIds |-> v] : v \in Values} /\ data_valid = {}
  /\ store_in_flight \in BOOLEAN /\ bus = {}
  /\ memory \in {[b \in Bytes |-> v] : v \in Values}

------------------------------------------------------------------------------
(* The environment: the reorder buffer, the store identifiers in use, and  *)
(* the queues in which memory operations wait for their sources.           *)
UsedSeqs == {window[i].seq : i \in DOMAIN window}

Live == UNION {window[i].sid : i \in DOMAIN window}

UsedSpecs == UNION {window[i].spec : i \in DOMAIN window}

Optional(S) == {{}} \cup {{s} : s \in S}

Renamings ==
  {r \in [seq : Seqs \ UsedSeqs, kind : Kinds, bytes : Accesses \cup {{}},
           val : Optional(Values), sid : Optional(StoreIds \ Live),
           spec : Optional(SnapshotIds \ UsedSpecs)] :
     /\ r.kind \in {"load", "store"} <=> r.bytes # {}
     /\ r.kind = "store" <=> r.sid # {}
     /\ r.kind = "store" <=> r.val # {}
     /\ r.kind = "branch" <=> r.spec # {}}

(* No operation leaves the queue before a store that came before it, nor a *)
(* store before a load.                                                    *)
MayGo(shown, i) ==
  IF shown[i].kind = "store" THEN i = 1 ELSE \A j \in 1 .. i - 1 : shown[j].kind # "store"

(* What the kill spares, in its order.                                     *)
Survivors == {k \in DOMAIN queue : Keep(queue[k], kill)}

Survivor(n) == CHOOSE k \in Survivors : Cardinality({j \in Survivors : j <= k}) = n

ShownQueue ==
  [n \in 1 .. Cardinality(Survivors) |-> Cleared(queue[Survivor(n)], kill)]

Without(list, i) ==
  SubSeq(list, 1, i - 1) \o SubSeq(list, i + 1, Len(list))

------------------------------------------------------------------------------
(* The data port (TestMemoryBusFL): one request at a time, answered when   *)
(* its delay has passed; the delay counts down before the answer is asked  *)
(* for.  Data is read and written as the request is sent.                  *)
RecvRdy == \E r \in bus : r.delay <= 1

(* MemoryArbiter.handle_recv: an acknowledgement is consumed at once; a    *)
(* load's answer waits for the response stage.                             *)
RecvLoadRdy == RecvRdy /\ ~store_in_flight

StoreInFlightAfterRecv == store_in_flight /\ ~RecvRdy

(* The response stage processes what the request stage holds; since what   *)
(* it shows is always taken, its register is always clear.                 *)
InResponse == internal[1]

RecvLoad == RecvLoadRdy /\ \E m \in InResponse : m.kind = "load"

SendRdy == bus = {} \/ (RecvRdy /\ (store_in_flight \/ RecvLoad))

(* Plausible slips, kept to measure the properties against.                *)
PendingIfSame(m) ==
  \E s \in Live \cap address_valid : address_table[s] = m.bytes

(* The checker is given the address and the size of either access.         *)
First(bytes) == CHOOSE b \in bytes : \A c \in bytes : b <= c

Overlap(a, b) == ~Disjoint(First(a), Cardinality(a), First(b), Cardinality(b))

PendingIfUnused(m) == \E s \in address_valid : Overlap(m.bytes, address_table[s])

(* MemoryFlowManager.check_overlapped.                                     *)
StorePending(m) ==
  \E s \in Live \cap address_valid : Overlap(m.bytes, address_table[s])

(* handle_send_rdy: the store that commit sends goes first.                *)
SendLoadRdy(send_store) == SendRdy /\ send_store = {}

(* MemRequestStage.compute_can_send, MemResponseStage.compute_accept.      *)
CanSend(m, send_store) ==
  m.kind = "load" => ~StorePending(m) /\ SendLoadRdy(send_store)

CanAccept(m) == m.kind = "load" => RecvLoadRdy

FenceIgnoresAcks(i) ==
  CASE i.kind = "store"  -> i.done /\ SendRdy /\ i.sid \subseteq data_valid
    [] i.kind = "branch" -> i.spec = {}
    [] i.kind = "load"   -> i.done
    [] OTHER             -> TRUE

(* Commit.set_rob_remove, for what may be at the head.                     *)
RobRemovable(i) ==
  CASE i.kind = "store"  -> i.done /\ SendRdy /\ i.sid \subseteq data_valid
    [] i.kind = "fence"  -> ~StoreInFlightAfterRecv
    [] i.kind = "branch" -> i.spec = {}
    [] i.kind = "load"   -> i.done
    [] OTHER             -> TRUE

(* handle_committing_store and MemoryFlowManager.send_store.               *)
SendStore(retire) ==
  {[bytes |-> address_table[s], val |-> store_data[s]] :
     s \in IF retire THEN window[1].sid ELSE {}}

ReadData(bytes) == [b \in bytes |-> memory[b]]

Written(sent) ==
  [b \in Bytes |-> IF \E r \in sent : b \in r.bytes
                   THEN (CHOOSE r \in sent : b \in r.bytes).val ELSE memory[b]]

KeptByLoads(send_store, loads) == send_store # {} \/ StoreInFlightAfterRecv

(* handle_send: what is sent decides how the answer is taken.              *)
StoreInFlightNext(send_store, loads) ==
  send_store # {} \/ (loads = {} /\ StoreInFlightAfterRecv)

EnteredOnTop(valid, registered, entered) == valid \cup entered

(* register_store, and enter_store_address or enter_store_data, which win. *)
Entered(valid, registered, entered) == (valid \ registered) \cup entered

------------------------------------------------------------------------------
(* One cycle.  issue: the place in the queue of what goes to dispatch;     *)
(* data: the store data that arrive; resolved: the branches that resolve,  *)
(* and whether one was mispredicted; retire: whether commit removes the    *)
(* head; offered: what is renamed; delay: that of a request sent now.      *)
Message(r, unresolved) ==
  [seq |-> r.seq, kind |-> r.kind, bytes |-> r.bytes, sid |-> r.sid, mask |-> unresolved]

DataMessage(r, unresolved) ==
  [seq |-> r.seq, sid |-> r.sid, val |-> r.val, mask |-> unresolved]

InFlight(r) ==
  [seq |-> r.seq, kind |-> r.kind, bytes |-> r.bytes, val |-> r.val, sid |-> r.sid,
   spec |-> r.spec, done |-> FALSE, answer |-> <<>>]

(* What the response stage makes of a load.                                *)
Received(m) ==
  [m EXCEPT !.bytes = IF m.kind = "load" THEN (CHOOSE r \in bus : TRUE).data ELSE @]

(* A result arrives; that of a store is of no use.                         *)
Progressed(cut, resolved, results) ==
  [i \in 1 .. cut |->
     LET mine == {m \in results : m.seq = window[i].seq}
     IN  [window[i] EXCEPT
            !.spec   = IF i \in resolved THEN {} ELSE @,
            !.done   = @ \/ mine # {},
            !.answer = IF mine # {} /\ window[i].kind = "load"
                       THEN (CHOOSE m \in mine : TRUE).bytes ELSE @]]

Flow(issue, data, send_store, offered, unresolved, delay) ==
  LET in_peek  == Peek(dispatched, kill)
      accepts  == (IF \A m \in in_peek : CanSend(m, send_store) THEN {1} ELSE {})
                    \cup (IF \A m \in InResponse : CanAccept(m) THEN {2} ELSE {})
      inputs   == [i \in 1 .. 2 |-> IF i = 1 THEN in_peek
                                    ELSE IF 2 \in accepts THEN {Received(m) : m \in InResponse}
                                    ELSE InResponse]
      take     == Mem!OutPeek(kill) # {}
      taken    == IF Mem!Advances(accepts, inputs, Mem!OutTake(kill, take), 1)
                  THEN in_peek ELSE {}
      loads    == {m \in taken : m.kind = "load"}
      stores   == taken \ loads
      renamed  == {r \in offered : r.kind \in {"load", "store"}}
      new_sids == UNION {r.sid : r \in offered}
      data_in  == Peek(data_queue, kill)
      rest     == IF issue = {} THEN ShownQueue
                  ELSE Without(ShownQueue, CHOOSE i \in issue : TRUE)
  IN  /\ issue # {} => AddRdy(in_peek, taken # {})
      /\ \A i \in issue : i \in DOMAIN ShownQueue /\ MayGo(ShownQueue, i)
      /\ data \subseteq data_in
      /\ dispatched' = RegNext(in_peek, taken # {}, {ShownQueue[i] : i \in issue})
      /\ queue' = rest \o (IF renamed = {} THEN <<>>
                           ELSE <<Message(CHOOSE r \in renamed : TRUE, unresolved)>>)
      /\ data_queue' = (data_in \ data) \cup
                       {DataMessage(r, unresolved) : r \in {x \in renamed : x.kind = "store"}}
      /\ Mem!PipeCycle(kill, accepts, inputs, take)
      /\ address_table' = [s \in StoreIds |-> IF \E m \in stores : s \in m.sid
                                              THEN UNION {m.bytes : m \in stores}
                                              ELSE address_table[s]]
      /\ store_data' = [s \in StoreIds |-> IF \E m \in data : s \in m.sid
                                           THEN CHOOSE v \in UNION {m.val : m \in data} : TRUE
                                           ELSE store_data[s]]
      /\ address_valid' = Entered(address_valid, new_sids, UNION {m.sid : m \in stores})
      /\ data_valid' = Entered(data_valid, new_sids, UNION {m.sid : m \in data})
      /\ memory' = Written(send_store)
      /\ store_in_flight' = StoreInFlightNext(send_store, loads)
      /\ bus' = IF send_store # {} THEN {[type |-> "write", delay |-> delay]}
                ELSE IF loads # {}
                     THEN {[type |-> "read", delay |-> delay,
                            data |-> ReadData(m.bytes)] : m \in loads}
                ELSE IF SendRdy THEN {}
                ELSE {[r EXCEPT !.delay = IF @ = 0 THEN 0 ELSE @ - 1] : r \in bus}

Cycle(issue, data, resolved, mispredict, retire, offered, delay) ==
  LET exception  == retire /\ window[1].kind = "trap"
      missed     == IF mispredict THEN resolved ELSE {}
      cut        == IF missed = {} THEN Len(window) ELSE CHOOSE i \in missed : TRUE
      progressed == Progressed(cut, resolved, Mem!OutPeek(kill))
      unresolved == UNION {progressed[i].spec : i \in DOMAIN progressed}
      entered    == progressed \o (IF offered = {} THEN <<>>
                                   ELSE <<InFlight(CHOOSE r \in offered : TRUE)>>)
  IN  /\ retire => window # <<>> /\ RobRemovable(window[1])
      /\ mispredict => resolved # {}
      /\ offered # {} => missed = {} /\ ~exception
      /\ Flow(issue, data, SendStore(retire), offered, unresolved, delay)
      /\ kill' = [force      |-> exception,
                  kill_mask  |-> IF missed = {} THEN {}
                                 ELSE SnapshotIds \ UNION {window[i].spec : i \in 1 .. cut - 1},
                  clear_mask |-> IF missed # {} THEN {}
                                 ELSE UNION {window[i].spec : i \in resolved}]
      /\ window' = IF exception THEN <<>> ELSE IF retire THEN Tail(entered) ELSE entered

Steps(issues, datas, resolves, retires) ==
  \E issue \in issues, data \in datas, resolved \in resolves, retire \in retires :
    \E mispredict \in BOOLEAN, offered \in Optional(Renamings), delay \in Delays :
      Cycle(issue, data, resolved, mispredict, retire, offered, delay)

Issues == Optional(DOMAIN ShownQueue)

Datas == Optional(Peek(data_queue, kill))

Resolves == Optional({i \in DOMAIN window : window[i].spec # {}})

Next == Steps(Issues, Datas, Resolves, BOOLEAN)

Spec == Init /\ [][Next]_vars

(* The clock goes on.  As all steps are steps of Next, this is weak        *)
(* fairness of Next, in a form that is cheaper to check.                   *)
ClockRuns == []<>(~ENABLED <<Next>>_vars) \/ []<><<TRUE>>_vars

(* What is oldest in a queue gets its sources and goes, branches are       *)
(* resolved, and commit does not wait when it need not.                    *)
OldestIssues == ShownQueue # <<>> /\ Steps({{1}}, Datas, Resolves, BOOLEAN)

HeadDataEnters ==
  \E m \in Peek(data_queue, kill) :
    window # <<>> /\ m.seq = window[1].seq /\ Steps(Issues, {{m}}, Resolves, BOOLEAN)

HeadResolves ==
  window # <<>> /\ window[1].spec # {} /\ Steps(Issues, Datas, {{1}}, BOOLEAN)

Retires == Steps(Issues, Datas, Resolves, {TRUE})

FairSpec ==
  /\ Spec /\ ClockRuns /\ SF_vars(OldestIssues) /\ SF_vars(HeadDataEnters)
  /\ SF_vars(HeadResolves) /\ SF_vars(Retires)

------------------------------------------------------------------------------
(* What each byte that the i-th instruction reads holds in program order:  *)
(* what the last older store in flight writes to it, or the memory has.    *)
WritersOf(b, i) == {j \in 1 .. i - 1 : window[j].kind = "store" /\ b \in window[j].bytes}

ProgramOrder(i) ==
  [b \in window[i].bytes |->
     IF WritersOf(b, i) = {} THEN memory[b]
     ELSE CHOOSE v \in window[CHOOSE j \in WritersOf(b, i) : \A k \in WritersOf(b, i) : k <= j].val : TRUE]

(* Whatever was speculated, killed or delayed: the answer that a load has  *)
(* got is what it reads when instructions run one after the other.         *)
LoadsReadProgramOrder ==
  \A i \in DOMAIN window :
    window[i].kind = "load" /\ window[i].done => window[i].answer = ProgramOrder(i)

(* Every answer on the bus has its load waiting in the request register,   *)
(* dead or alive, and the flag of the arbiter tells answers from           *)
(* acknowledgements.                                                       *)
AnswersHaveOwners ==
  /\ \A r \in bus : store_in_flight <=> r.type = "write"
  /\ \A r \in bus : r.type = "read" =>
       \E m \in InResponse : m.kind = "load" /\ DOMAIN r.data = m.bytes
  /\ \A m \in InResponse : m.kind = "load" => \E r \in bus : r.type = "read"

(* What the tables hold as valid for a store in flight is its own, never   *)
(* that of an earlier or of a killed store with the same identifier.       *)
TablesHoldOwn ==
  \A i \in DOMAIN window : \A s \in window[i].sid :
    /\ s \in address_valid => address_table[s] = window[i].bytes
    /\ s \in data_valid => {store_data[s]} = window[i].val
    /\ window[i].done => s \in address_valid

(* When a fence retires, every store before it has been acknowledged.      *)
FenceDrains ==
  [][(/\ window # <<>> /\ window[1].kind = "fence"
      /\ window' = <<>> \/ window'[1].seq # window[1].seq)
       => \A r \in bus' : r.type # "write"]_vars

(* The instruction at the head leaves in the end.  A fence may wait for    *)
(* the acknowledgement of a store that was never sent if the flag came up  *)
(* set and no access has been sent yet.                                    *)
Unsent == store_in_flight /\ bus = {}

HeadLeaves ==
  \A s \in Seqs :
    (window # <<>> /\ window[1].seq = s /\ ~(window[1].kind = "fence" /\ Unsent))
      ~> ~(window # <<>> /\ window[1].seq = s)
=============================================================================
