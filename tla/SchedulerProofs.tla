---------------------------- MODULE SchedulerProofs ----------------------------
(* No wakeup is lost, operands are read after they are written, each part  *)
(* of an instruction in flight is in one register, and loads keep their    *)
(* place behind older stores: for every set of tags and snapshots, and any *)
(* size of the queues and the reorder buffer.                              *)
EXTENDS Scheduler, SequenceTheorems, FiniteSetTheorems, TLAPS

------------------------------------------------------------------------------
(****************************************************************************)
(* The inductive invariant.  An instruction has parts: its result, and for *)
(* a store also its data.  Each part that is not done goes down a path of  *)
(* registers, from rename to the unit that does it: the out of order path  *)
(* for what the out of order queue takes and for the data of stores, the   *)
(* in order path for loads and the addresses of stores.  PathOK: a message *)
(* on a path belongs to an entry of the window with that part to do, an    *)
(* entry has one message for each part, and the mask of the message,       *)
(* without what has just been resolved, is that of the unresolved branches *)
(* before the entry.                                                       *)
(****************************************************************************)

(* The unresolved branches before an entry.                                *)
Older(i) == UNION {window[j].spec : j \in 1 .. i - 1}

(* The units, entries of the window, and messages.                         *)
Units == {"alu", "other", "load", "store"}

Instr ==
  [seq : Seqs, unit : Units, spec : Optional(SnapshotIds), srcs : SUBSET Tags,
   rd : SUBSET Tags, faults : BOOLEAN, todo : SUBSET {"result", "data"}]

RenMsg ==
  [seq : Seqs, unit : Units, mask : SUBSET SnapshotIds, rs1 : SUBSET Tags,
   rs2 : SUBSET Tags, rd : SUBSET Tags, faults : BOOLEAN]

DisMsg ==
  [seq : Seqs, unit : Units, mask : SUBSET SnapshotIds, rd : SUBSET Tags,
   faults : BOOLEAN, stale : SUBSET Tags]

(* A register has at most one element.                                     *)
Single(S) == \A x, y \in S : x = y

(* The ALU raises no exception.                                            *)
NeverFaults(m) == m.unit = "alu" => ~m.faults

(* The types of the state.                                                 *)
TypeOK ==
  /\ ready_table \subseteq Tags /\ live \subseteq Tags
  /\ \A i \in DOMAIN window : window[i] \in Instr
  /\ Len(window) <= RobSize
  /\ kill \in [force : BOOLEAN, kill_mask : SUBSET SnapshotIds, clear_mask : SUBSET SnapshotIds]
  /\ renamed \subseteq RenMsg /\ Single(renamed)
  /\ oo_dispatch \subseteq DisMsg /\ Single(oo_dispatch)
  /\ io_dispatch \subseteq DisMsg /\ Single(io_dispatch)
  /\ DOMAIN units = {"mem", "alu", "other"}
  /\ \A u \in {"mem", "alu", "other"} : units[u] \subseteq DisMsg /\ Single(units[u])
  /\ Oo!TypeOK /\ Io!TypeOK

(* Which messages each register may have: the routes of the issue selector *)
(* and of dispatch.                                                        *)
Shapes ==
  /\ \A m \in oo_dispatch : m.unit # "load"
  /\ \A m \in io_dispatch : m.unit \in {"load", "store"}
  /\ \A m \in units["alu"] : m.unit = "alu" /\ ~m.faults
  /\ \A m \in units["other"] : m.unit = "other"
  /\ \A m \in units["mem"] : m.unit \in {"load", "store"}
  /\ \A m \in renamed \cup oo_dispatch : NeverFaults(m)
  /\ \A k \in Oo!Idx : \A e \in oo_slots[k] :
       e.op.unit # "load" /\ NeverFaults(e.op) /\ ~e.ordered
  /\ \A k \in Io!Idx : \A e \in io_slots[k] :
       e.op.unit \in {"load", "store"} /\ (e.ordered <=> e.op.unit = "store")

(* Numbers, snapshots and destinations are given once, and only a branch   *)
(* without its result has a snapshot.                                      *)
WindowOK ==
  \A i \in DOMAIN window :
    /\ \A j \in DOMAIN window :
         i # j => /\ window[i].seq # window[j].seq
                  /\ window[i].spec \cap window[j].spec = {}
                  /\ window[i].rd \cap window[j].rd = {}
    /\ window[i].spec # {} => window[i].unit = "other" /\ "result" \in window[i].todo

(* The tags of what is in flight are in use, no instruction reads what it  *)
(* or a younger one writes, and a tag in use is written or will be.        *)
TagsOK ==
  /\ \A i \in DOMAIN window :
       /\ window[i].rd \cup window[i].srcs \subseteq live
       /\ \A j \in DOMAIN window : i <= j => window[j].rd \cap window[i].srcs = {}
       /\ "result" \notin window[i].todo /\ ~window[i].faults => window[i].rd \subseteq ready_table
  /\ \A t \in live :
       \/ t \in ready_table
       \/ \E i \in DOMAIN window :
            t \in window[i].rd /\ ("result" \in window[i].todo \/ window[i].faults)

(* What a path carries, and which part of it.                              *)
Routed(w) == IF w = "oo" THEN {"alu", "other", "store"} ELSE {"load", "store"}

PartName(w, unit) == IF w = "oo" /\ unit = "store" THEN "data" ELSE "result"

Part(w, i) == window[i].unit \in Routed(w) /\ PartName(w, window[i].unit) \in window[i].todo

(* What of a message the invariant is about, for a register and for a slot *)
(* of a queue.                                                             *)
Token(m) ==
  [seq |-> m.seq, unit |-> m.unit, rd |-> m.rd, faults |-> m.faults, mask |-> m.mask]

EntryToken(e) ==
  [seq |-> e.op.seq, unit |-> e.op.unit, rd |-> e.op.rd, faults |-> e.op.faults, mask |-> e.mask]

Tokens(reg) == {Token(m) : m \in reg}

(* The places of the two paths: rename, the slots, dispatch and the units. *)
OoPlaces == -3 .. OoSlots

IoPlaces == -2 .. IoSlots

OoPath ==
  [p \in OoPlaces |->
     IF p = OoSlots THEN Tokens({m \in renamed : m.unit # "load"})
     ELSE IF p = -1 THEN Tokens(oo_dispatch)
     ELSE IF p = -2 THEN Tokens(units["alu"])
     ELSE IF p = -3 THEN Tokens(units["other"])
     ELSE {EntryToken(e) : e \in oo_slots[p]}]

IoPath ==
  [p \in IoPlaces |->
     IF p = IoSlots THEN Tokens({m \in renamed : m.unit \in {"load", "store"}})
     ELSE IF p = -1 THEN Tokens(io_dispatch)
     ELSE IF p = -2 THEN Tokens(units["mem"])
     ELSE {EntryToken(e) : e \in io_slots[p]}]

(* A message belongs to the i-th instruction in flight.                    *)
Owns(t, i) ==
  /\ window[i].seq = t.seq /\ t.mask \ kill.clear_mask = Older(i)
  /\ window[i].unit = t.unit /\ window[i].rd = t.rd /\ (window[i].faults <=> t.faults)

(* Every living message has its instruction, every part that is not done   *)
(* has a message, and no part has two.                                     *)
OwnedOn(path, w) ==
  \A p \in DOMAIN path : \A t \in path[p] :
    Current(t) => \E i \in DOMAIN window : Owns(t, i) /\ Part(w, i)

OnceOn(path) ==
  \A p, q \in DOMAIN path : \A t \in path[p], u \in path[q] :
    Current(t) /\ Current(u) /\ t.seq = u.seq => p = q

SomewhereOn(path, w) ==
  \A i \in DOMAIN window :
    Part(w, i) => \E p \in DOMAIN path : \E t \in path[p] : Current(t) /\ t.seq = window[i].seq

PathOK(path, w) == OwnedOn(path, w) /\ OnceOn(path) /\ SomewhereOn(path, w)

(* A branch in its unit has been resolved.                                 *)
RunningResolved ==
  \A t \in OoPath[-3] : Current(t) =>
    \A i \in DOMAIN window : window[i].seq = t.seq => window[i].spec = {}

(* A message reads no register but those of its instruction.               *)
SourcesOK ==
  /\ \A m \in renamed : Current(m) =>
       \A i \in DOMAIN window : window[i].seq = m.seq => m.rs1 \cup m.rs2 \subseteq window[i].srcs
  /\ \A e \in Queued : Current(e) =>
       \A i \in DOMAIN window : window[i].seq = e.op.seq => e.srcs \subseteq window[i].srcs

(* An entry waits for a register that is not written, and for all of       *)
(* those, but for what the ALU forwards.                                   *)
OnBypass(t) == \E m \in units["alu"] : Current(m) /\ t \in m.rd

Awaited ==
  \A e \in Queued : Current(e) =>
    /\ e.waits \cap ready_table = {}
    /\ \A t \in e.srcs \ e.waits : t \in ready_table \/ OnBypass(t)

(* The memory queue has the order of the window, and a store in it keeps   *)
(* what follows in it: nothing passes a store, and a store passes nothing. *)
Waiting(s) == \E p \in 0 .. IoSlots : \E t \in IoPath[p] : Current(t) /\ t.seq = s

QueueOrder ==
  \A p, q \in 0 .. IoSlots : \A t \in IoPath[p], u \in IoPath[q] :
    Current(t) /\ Current(u) /\ p < q =>
      \A i, j \in DOMAIN window : window[i].seq = t.seq /\ window[j].seq = u.seq => i < j

StoresOrder ==
  \A i, j \in DOMAIN window :
    (/\ i < j
     /\ {window[i].unit, window[j].unit} \in {{"store"}, {"load", "store"}}
     /\ Waiting(window[i].seq))
     => Waiting(window[j].seq)

(* The parts that the window needs.                                        *)
Typed == TypeOK /\ WindowOK /\ window \in Seq(Instr)

(* A number is free when the window is not full.                           *)
LEMMA NewSeqFree ==
  ASSUME Typed, Len(window) # RobSize
  PROVE  NewSeq \in Seqs /\ \A i \in DOMAIN window : window[i].seq # NewSeq
<1> DEFINE n == Len(window)
           used == {window[i].seq : i \in 1 .. n}
<1>1. n \in Nat /\ DOMAIN window = 1 .. n /\ n < RobSize /\ RobSize \in Nat
  BY SchedulerAssumption DEF Typed, TypeOK
<1>2. \A i \in 1 .. n : window[i].seq \in Seqs
  BY <1>1 DEF Typed, TypeOK, Instr
<1> HIDE DEF n
<1>3. IsFiniteSet(1 .. n) /\ Cardinality(1 .. n) = n
  BY <1>1, FS_Interval
<1>4. IsFiniteSet(used) /\ Cardinality(used) <= n
  <2> DEFINE f == [i \in 1 .. n |-> window[i].seq]
  <2>1. f \in Surjection(1 .. n, used)
    BY DEF Surjection
  <2> HIDE DEF f, used
  <2> QED
    BY <1>3, <2>1, FS_Surjection
<1>5. IsFiniteSet(Seqs) /\ Cardinality(Seqs) = RobSize
  <2> DEFINE b == RobSize - 1
  <2>1. 0 \in Int /\ b \in Int /\ ~(0 > b) /\ b - 0 + 1 = RobSize /\ Seqs = 0 .. b
    BY <1>1, SchedulerAssumption DEF Seqs
  <2> HIDE DEF b
  <2>2. IsFiniteSet(0 .. b) /\ Cardinality(0 .. b) = b - 0 + 1
    BY <2>1, FS_Interval
  <2> QED
    BY <2>1, <2>2
<1>6. used \subseteq Seqs
  BY <1>2
<1>7. \E s \in Seqs : s \notin used
  <2> HIDE DEF used
  <2>1. Seqs = used => Cardinality(used) = RobSize
    BY <1>5
  <2>2. Cardinality(used) \in Nat
    BY <1>4, FS_CardinalityType
  <2> QED
    BY <1>1, <1>4, <1>6, <2>1, <2>2
<1>8. \A s : s \notin used <=> InWindow({s}) = {}
  BY <1>1 DEF InWindow
<1>9. NewSeq \in Seqs /\ InWindow({NewSeq}) = {}
  <2> HIDE DEF used
  <2> QED
    BY <1>7, <1>8 DEF NewSeq
<1> QED
  BY <1>9 DEF InWindow

------------------------------------------------------------------------------
(****************************************************************************)
(* One cycle, read as a step of the window, a step of the tags, and        *)
(* (below) a step of the registers.                                        *)
(****************************************************************************)

(* The cycle in terms of the window: the branch that is resolved, where    *)
(* the window is cut, what is done, and what is left.                      *)
Res(accepts) == InWindow(Resolved(accepts))

Missed(accepts, mispredict) == IF mispredict THEN Res(accepts) ELSE {}

Exception(retire) == retire /\ window[1].faults

Cut(accepts, mispredict) ==
  IF Missed(accepts, mispredict) = {} THEN Len(window)
  ELSE CHOOSE i \in Missed(accepts, mispredict) : TRUE

Results == {m.seq : m \in Shown[Granted(Shown)]}

Datas == {m.seq : m \in DataIn}

Now(accepts, mispredict) == Progressed(Cut(accepts, mispredict), Resolved(accepts), Results, Datas)

Unresolved(accepts, mispredict) ==
  UNION {Now(accepts, mispredict)[i].spec : i \in DOMAIN Now(accepts, mispredict)}

Joined(accepts, mispredict, offered) ==
  Now(accepts, mispredict) \o
    (IF offered = {} THEN <<>> ELSE <<InFlight(CHOOSE r \in offered : TRUE)>>)

Offers == Optional({r \in Renamings : WellFormed(r)})

(* At most one branch is resolved, and it has a snapshot.                  *)
ResolvesOne(accepts) ==
  /\ \A i \in DOMAIN window : i \in Res(accepts) <=> window[i].seq \in Resolved(accepts)
  /\ Res(accepts) = {} \/ \E i \in DOMAIN window : Res(accepts) = {i} /\ window[i].spec # {}

(* What a cycle does to the window and what it broadcasts.                 *)
WindowStep(accepts, mispredict, retire, offered) ==
  /\ ResolvesOne(accepts)
  /\ Retirable(retire)
  /\ mispredict => Res(accepts) # {}
  /\ offered # {} => Missed(accepts, mispredict) = {} /\ ~Exception(retire)
  /\ kill' = [force |-> kill'.force, kill_mask |-> kill'.kill_mask, clear_mask |-> kill'.clear_mask]
  /\ kill'.force = Exception(retire)
  /\ kill'.kill_mask = IF Missed(accepts, mispredict) = {} THEN {}
                       ELSE SnapshotIds \ Older(Cut(accepts, mispredict))
  /\ kill'.clear_mask = IF Missed(accepts, mispredict) # {} THEN {}
                        ELSE UNION {window[i].spec : i \in Res(accepts)}
  /\ window' = IF Exception(retire) THEN <<>>
               ELSE IF retire THEN Tail(Joined(accepts, mispredict, offered))
               ELSE Joined(accepts, mispredict, offered)

(* What a cycle does to the tags in use.                                   *)
TagsStep(accepts, mispredict, retire, offered, freed) ==
  /\ freed \subseteq Freeable
  /\ \A r \in offered : (r.rs1 \cup r.rs2) \cap freed = {}
  /\ live' = ((live \ freed)
                \ (TagsOf(window) \ TagsOf(IF Exception(retire) THEN <<>> ELSE Now(accepts, mispredict))))
               \cup UNION {r.rd : r \in offered}

(* The choices of a cycle.                                                 *)
Calls(accepts, mispredict, retire, offered) ==
  /\ accepts \in SUBSET {"mem", "other"} /\ mispredict \in BOOLEAN /\ retire \in BOOLEAN
  /\ offered \in Offers

Turn(accepts, mispredict, retire, offered) ==
  Calls(accepts, mispredict, retire, offered) /\ WindowStep(accepts, mispredict, retire, offered)

(* What the other units take, if anything, is the message in the dispatch  *)
(* register.                                                               *)
LEMMA OtherInIs ==
  ASSUME TypeOK, Shapes, PathOK(OoPath, "oo"), NEW accepts, NEW m \in OtherIn(accepts)
  PROVE  /\ OtherIn(accepts) = {m}
         /\ \E i \in DOMAIN window : window[i].seq = m.seq /\ m.mask = Older(i)
<1>1. m \in OoOut /\ \A n \in OtherIn(accepts) : n \in OoOut
  BY DEF OtherIn, ToPipe
<1>2. \A n \in OoOut : \E x \in oo_dispatch : Keep(x, kill) /\ n = Cleared(x, kill)
  BY DEF OoOut, Peek
<1>3. \A n \in OoOut : n = m
  BY <1>1, <1>2 DEF TypeOK, Single
<1>4. PICK x \in oo_dispatch : Keep(x, kill) /\ m = Cleared(x, kill)
  BY <1>1, <1>2
<1>5. x \in DisMsg
  BY <1>4 DEF TypeOK
<1>6. m.seq = x.seq /\ m.mask = x.mask \ kill.clear_mask
  BY <1>4, <1>5 DEF DisMsg, Cleared
<1>7. -1 \in OoPlaces /\ OoPath[-1] = Tokens(oo_dispatch) /\ DOMAIN OoPath = OoPlaces
  BY SchedulerAssumption DEF OoPlaces, OoPath
<1>8. Token(x) \in OoPath[-1]
  BY <1>4, <1>7 DEF Tokens
<1>9. Current(Token(x)) /\ Token(x).seq = x.seq /\ Token(x).mask = x.mask
  BY <1>4 DEF Token, Current, Keep
<1>10. PICK i \in DOMAIN window : Owns(Token(x), i)
  BY <1>7, <1>8, <1>9 DEF PathOK, OwnedOn
<1>11. window[i].seq = m.seq /\ m.mask = Older(i)
  BY <1>6, <1>9, <1>10 DEF Owns
<1> QED
  BY <1>1, <1>3, <1>11

(* The branch that is resolved is the one that the other units take, and   *)
(* the mask of its message is that of the branches before it.              *)
LEMMA ResIs ==
  ASSUME Typed, Shapes, PathOK(OoPath, "oo"), NEW accepts
  PROVE  /\ \A i \in DOMAIN window : i \in Res(accepts) <=> window[i].seq \in Resolved(accepts)
         /\ Resolved(accepts) = {} <=> Res(accepts) = {}
         /\ \/ Res(accepts) = {}
            \/ \E i \in DOMAIN window :
                 /\ Res(accepts) = {i} /\ window[i].spec # {}
                 /\ UNION {m.mask : m \in OtherIn(accepts)} = Older(i)
<1>1. \A i \in DOMAIN window : i \in Res(accepts) <=> window[i].seq \in Resolved(accepts)
  BY DEF Res, InWindow
<1>2. Resolved(accepts) \subseteq {window[i].seq : i \in {j \in DOMAIN window : window[j].spec # {}}}
  BY DEF Resolved
<1>3. Resolved(accepts) = {} <=> Res(accepts) = {}
  BY <1>1, <1>2 DEF Res, InWindow
<1>4. ASSUME Res(accepts) # {}
      PROVE  \E i \in DOMAIN window :
               /\ Res(accepts) = {i} /\ window[i].spec # {}
               /\ UNION {m.mask : m \in OtherIn(accepts)} = Older(i)
  <2>1. PICK s \in Resolved(accepts) : TRUE
    BY <1>3, <1>4
  <2>2. PICK m \in OtherIn(accepts) : m.seq = s
    BY <2>1 DEF Resolved
  <2>3. OtherIn(accepts) = {m} /\ \E i \in DOMAIN window : window[i].seq = m.seq /\ m.mask = Older(i)
    BY <2>2, OtherInIs DEF Typed
  <2>4. PICK i \in DOMAIN window : window[i].seq = m.seq /\ m.mask = Older(i)
    BY <2>3
  <2>5. PICK j \in DOMAIN window : window[j].spec # {} /\ window[j].seq = s
    BY <1>2, <2>1
  <2>6. i = j
    BY <2>2, <2>4, <2>5 DEF Typed, WindowOK
  <2>7. Resolved(accepts) = {s}
    BY <2>1, <2>2, <2>3 DEF Resolved
  <2>8. Res(accepts) = {i}
    BY <2>2, <2>4, <2>7 DEF Res, InWindow, Typed, WindowOK
  <2>9. UNION {x.mask : x \in OtherIn(accepts)} = m.mask
    BY <2>3
  <2> QED
    BY <2>4, <2>5, <2>6, <2>8, <2>9
<1> QED
  BY <1>1, <1>3, <1>4

(* A cycle is a step of the window, one of the tags and one of the         *)
(* registers.                                                              *)
LEMMA CycleIs ==
  ASSUME Typed, Shapes, PathOK(OoPath, "oo"), NEW accepts \in SUBSET {"mem", "other"},
         NEW mispredict \in BOOLEAN, NEW retire \in BOOLEAN, NEW offered \in Offers,
         NEW freed \in SUBSET Freeable, Cycle(accepts, mispredict, retire, offered, freed)
  PROVE  /\ Turn(accepts, mispredict, retire, offered)
         /\ TagsStep(accepts, mispredict, retire, offered, freed)
         /\ Flow(accepts, {Message(r, Unresolved(accepts, mispredict)) : r \in offered})
<1> DEFINE resolved == Resolved(accepts)
           missed == IF mispredict THEN resolved ELSE {}
           cut == IF missed = {} THEN Len(window) ELSE CHOOSE i \in InWindow(missed) : TRUE
           progressed == Progressed(cut, resolved, Results, Datas)
           entered == progressed \o (IF offered = {} THEN <<>>
                                     ELSE <<InFlight(CHOOSE r \in offered : TRUE)>>)
           unresolved == UNION {progressed[i].spec : i \in DOMAIN progressed}
<1>0. /\ Retirable(retire)
      /\ mispredict => resolved # {}
      /\ offered # {} => missed = {} /\ ~Exception(retire)
      /\ \A r \in offered : (r.rs1 \cup r.rs2) \cap freed = {}
      /\ Flow(accepts, {Message(r, unresolved) : r \in offered})
      /\ kill' = [force      |-> Exception(retire),
                  kill_mask  |-> IF missed = {} THEN {}
                                 ELSE SnapshotIds \ UNION {m.mask : m \in OtherIn(accepts)},
                  clear_mask |-> IF missed # {} THEN {}
                                 ELSE UNION {window[i].spec : i \in InWindow(resolved)}]
      /\ window' = IF Exception(retire) THEN <<>> ELSE IF retire THEN Tail(entered) ELSE entered
      /\ live' = ((live \ freed)
                    \ (TagsOf(window) \ TagsOf(IF Exception(retire) THEN <<>> ELSE progressed)))
                   \cup UNION {r.rd : r \in offered}
  BY DEF Cycle, Exception, Results, Datas
<1> HIDE DEF entered, unresolved, progressed, cut, missed
<1>1. missed = {} <=> Missed(accepts, mispredict) = {}
  BY ResIs DEF Missed, missed
<1>2. missed # {} => InWindow(missed) = Missed(accepts, mispredict)
  BY DEF Missed, Res, missed
<1>3. cut = Cut(accepts, mispredict)
  <2>1. CASE missed = {}
    BY <1>1, <2>1 DEF Cut, cut
  <2>2. CASE missed # {}
    <3>1. Missed(accepts, mispredict) # {} /\ Missed(accepts, mispredict) = Res(accepts)
      BY <1>1, <2>2 DEF Missed
    <3>2. PICK i \in DOMAIN window : Res(accepts) = {i}
      BY <3>1, ResIs
    <3>3. InWindow(missed) = {i}
      BY <1>2, <2>2, <3>1, <3>2
    <3>4. cut \in {i}
      BY <2>2, <3>3 DEF cut
    <3>5. Cut(accepts, mispredict) \in {i}
      BY <3>1, <3>2 DEF Cut
    <3> QED
      BY <3>4, <3>5
  <2> QED
    BY <2>1, <2>2
<1>4. progressed = Now(accepts, mispredict)
  BY <1>3 DEF Now, progressed
<1>4a. unresolved = Unresolved(accepts, mispredict)
  BY <1>4 DEF unresolved, Unresolved
<1>4b. entered = Joined(accepts, mispredict, offered)
  BY <1>4 DEF entered, Joined
<1>5. /\ Retirable(retire)
      /\ mispredict => resolved # {}
      /\ offered # {} => missed = {} /\ ~Exception(retire)
      /\ \A r \in offered : (r.rs1 \cup r.rs2) \cap freed = {}
      /\ Flow(accepts, {Message(r, Unresolved(accepts, mispredict)) : r \in offered})
      /\ kill' = [force      |-> Exception(retire),
                  kill_mask  |-> IF missed = {} THEN {}
                                 ELSE SnapshotIds \ UNION {m.mask : m \in OtherIn(accepts)},
                  clear_mask |-> IF missed # {} THEN {}
                                 ELSE UNION {window[i].spec : i \in InWindow(resolved)}]
      /\ window' = IF Exception(retire) THEN <<>>
                   ELSE IF retire THEN Tail(Joined(accepts, mispredict, offered))
                   ELSE Joined(accepts, mispredict, offered)
      /\ live' = ((live \ freed)
                    \ (TagsOf(window) \ TagsOf(IF Exception(retire) THEN <<>> ELSE Now(accepts, mispredict))))
                   \cup UNION {r.rd : r \in offered}
  BY <1>0, <1>4, <1>4a, <1>4b
<1>6. Missed(accepts, mispredict) # {} =>
        UNION {m.mask : m \in OtherIn(accepts)} = Older(Cut(accepts, mispredict))
  <2>1. ASSUME Missed(accepts, mispredict) # {}
        PROVE  UNION {m.mask : m \in OtherIn(accepts)} = Older(Cut(accepts, mispredict))
    <3>1. Missed(accepts, mispredict) = Res(accepts) /\ Res(accepts) # {}
      BY <2>1 DEF Missed
    <3>2. PICK i \in DOMAIN window :
            Res(accepts) = {i} /\ UNION {m.mask : m \in OtherIn(accepts)} = Older(i)
      BY <3>1, ResIs
    <3>3. Cut(accepts, mispredict) = i
      BY <2>1, <3>1, <3>2 DEF Cut
    <3> QED
      BY <3>2, <3>3
  <2> QED
    BY <2>1
<1>7. mispredict => Res(accepts) # {}
  BY <1>5, ResIs
<1>8. WindowStep(accepts, mispredict, retire, offered)
  <2>1. ResolvesOne(accepts)
    BY ResIs DEF ResolvesOne
  <2> QED
    BY <1>1, <1>5, <1>6, <1>7, <2>1 DEF WindowStep, Res
<1>9. TagsStep(accepts, mispredict, retire, offered, freed)
  BY <1>5 DEF TagsStep
<1> QED
  BY <1>5, <1>8, <1>9 DEF Turn, Calls

------------------------------------------------------------------------------
(****************************************************************************)
(* The window after a cycle, entry by entry, and the masks: what the next  *)
(* kill hits is exactly what the window cuts.                              *)
(****************************************************************************)

(* A sequence that is not empty.                                           *)
LEMMA SeqNotEmpty ==
  ASSUME NEW S, NEW s \in Seq(S), s # <<>>
  PROVE  Len(s) \in Nat /\ Len(s) >= 1
BY EmptySeq, LenProperties

(* Where the window is cut, and what becomes of its entries.               *)
LEMMA NowIs ==
  ASSUME Typed, NEW accepts, ResolvesOne(accepts), NEW mispredict \in BOOLEAN
  PROVE  LET cut == Cut(accepts, mispredict)
             now == Now(accepts, mispredict)
         IN  /\ cut \in Nat /\ cut <= Len(window)
             /\ Missed(accepts, mispredict) # {} =>
                  /\ cut \in DOMAIN window /\ Res(accepts) = {cut} /\ window[cut].spec # {}
             /\ Missed(accepts, mispredict) = {} => cut = Len(window)
             /\ now = [i \in 1 .. cut |-> now[i]]
<1> DEFINE cut == Cut(accepts, mispredict)
<1>1. Len(window) \in Nat /\ DOMAIN window = 1 .. Len(window)
  BY DEF Typed
<1>2. Res(accepts) = {} \/ \E i \in DOMAIN window : Res(accepts) = {i} /\ window[i].spec # {}
  BY DEF ResolvesOne
<1>3. Now(accepts, mispredict) = [i \in 1 .. cut |-> Now(accepts, mispredict)[i]]
  BY DEF Now, Progressed
<1>4. CASE Missed(accepts, mispredict) = {}
  <2>1. cut = Len(window)
    BY <1>4 DEF Cut
  <2> QED
    BY <1>1, <1>3, <1>4, <2>1
<1>5. CASE Missed(accepts, mispredict) # {}
  <2>1. Missed(accepts, mispredict) = Res(accepts)
    BY <1>5 DEF Missed
  <2>2. PICK i \in DOMAIN window : Res(accepts) = {i} /\ window[i].spec # {}
    BY <1>2, <1>5, <2>1
  <2>3. cut = i
    BY <1>5, <2>1, <2>2 DEF Cut
  <2> HIDE DEF cut
  <2>4. cut \in Nat /\ cut <= Len(window) /\ cut \in DOMAIN window
    BY <1>1, <2>2, <2>3
  <2>5. Res(accepts) = {cut} /\ window[cut].spec # {}
    BY <2>2, <2>3
  <2> QED
    BY <1>3, <1>5, <2>4, <2>5 DEF cut
<1> QED
  BY <1>4, <1>5

(* What is done in the cycle.                                              *)
Done(part) == IF part = "data" THEN Datas ELSE Results

Parts == {"result", "data"}

(* An entry of what is left, field by field.                               *)
LEMMA NowFields ==
  ASSUME Typed, NEW accepts, ResolvesOne(accepts), NEW mispredict \in BOOLEAN,
         NEW i \in 1 .. Cut(accepts, mispredict)
  PROVE  LET n == Now(accepts, mispredict)[i]
         IN  /\ i \in DOMAIN window
             /\ n.seq = window[i].seq /\ n.unit = window[i].unit /\ n.srcs = window[i].srcs
             /\ n.rd = window[i].rd /\ n.faults = window[i].faults
             /\ n.spec = IF i \in Res(accepts) THEN {} ELSE window[i].spec
             /\ \A part \in Parts :
                  part \in n.todo <=> part \in window[i].todo /\ window[i].seq \notin Done(part)
             /\ n \in Instr
<1> DEFINE cut == Cut(accepts, mispredict)
           n == Now(accepts, mispredict)[i]
<1>1. cut \in Nat /\ cut <= Len(window)
  BY NowIs
<1>2. i \in DOMAIN window /\ window[i] \in Instr
  BY <1>1 DEF Typed, TypeOK
<1> DEFINE s == IF i \in Res(accepts) THEN {} ELSE window[i].spec
           gone == (IF window[i].seq \in Results THEN {"result"} ELSE {})
                     \cup (IF window[i].seq \in Datas THEN {"data"} ELSE {})
           d == window[i].todo \ gone
<1>3. n = [window[i] EXCEPT !.spec = s, !.todo = d]
  <2>1. window[i].seq \in Resolved(accepts) <=> i \in Res(accepts)
    BY <1>2 DEF ResolvesOne
  <2> QED
    BY <2>1 DEF Now, Progressed
<1>4. d \subseteq {"result", "data"} /\ s \in Optional(SnapshotIds)
  BY <1>2 DEF Instr, Optional
<1>4a. \A part \in Parts : part \in d <=> part \in window[i].todo /\ window[i].seq \notin Done(part)
  BY DEF Parts, Done
<1> HIDE DEF d, s, n
<1>5. /\ n.seq = window[i].seq /\ n.unit = window[i].unit /\ n.srcs = window[i].srcs
      /\ n.rd = window[i].rd /\ n.faults = window[i].faults /\ n.spec = s /\ n.todo = d
  BY <1>2, <1>3 DEF Instr
<1>6. n \in Instr
  BY <1>2, <1>3, <1>4 DEF Instr
<1> QED
  BY <1>2, <1>4a, <1>5, <1>6 DEF s, n

(* The branches among what is left.                                        *)
LEMMA NowSpec ==
  ASSUME Typed, NEW accepts, ResolvesOne(accepts), NEW mispredict \in BOOLEAN,
         NEW i \in 1 .. Cut(accepts, mispredict)
  PROVE  /\ i \in DOMAIN window
         /\ Now(accepts, mispredict)[i].spec = IF i \in Res(accepts) THEN {} ELSE window[i].spec
<1> DEFINE n == Now(accepts, mispredict)[i]
<1>1. i \in DOMAIN window /\ n.spec = IF i \in Res(accepts) THEN {} ELSE window[i].spec
  BY NowFields
<1> QED
  BY <1>1
(* How far the head moves, and how long the window would be if it did not. *)
Skipped(retire) == IF retire THEN 1 ELSE 0

Grown(accepts, mispredict, offered) ==
  Cut(accepts, mispredict) + (IF offered = {} THEN 0 ELSE 1)

(* The window after a cycle, entry by entry.                               *)
LEMMA WindowAfter ==
  ASSUME Typed, NEW accepts, NEW mispredict \in BOOLEAN,
         NEW retire \in BOOLEAN, NEW offered, WindowStep(accepts, mispredict, retire, offered),
         ~Exception(retire)
  PROVE  LET n == Grown(accepts, mispredict, offered) - Skipped(retire)
         IN  /\ n \in Nat /\ Len(window') = n /\ DOMAIN window' = 1 .. n
             /\ \A i \in 1 .. n :
                  window'[i] =
                    IF i + Skipped(retire) <= Cut(accepts, mispredict)
                    THEN Now(accepts, mispredict)[i + Skipped(retire)]
                    ELSE InFlight(CHOOSE r \in offered : TRUE)
             /\ \E T : window' \in Seq(T)
<1> DEFINE cut == Cut(accepts, mispredict)
           now == Now(accepts, mispredict)
           last == InFlight(CHOOSE r \in offered : TRUE)
           T == {now[i] : i \in 1 .. cut} \cup {last}
           tail == IF offered = {} THEN <<>> ELSE <<last>>
           joined == Joined(accepts, mispredict, offered)
           g == Grown(accepts, mispredict, offered)
<1>1. /\ cut \in Nat /\ cut <= Len(window)
      /\ Missed(accepts, mispredict) # {} => cut \in DOMAIN window
      /\ Missed(accepts, mispredict) = {} => cut = Len(window)
      /\ now = [i \in 1 .. cut |-> now[i]]
  BY NowIs DEF WindowStep
<1>2. joined = now \o tail
  BY DEF Joined
<1>3. retire => cut >= 1
  <2>1. retire => Len(window) >= 1 /\ Len(window) \in Nat
    BY SeqNotEmpty DEF WindowStep, Retirable, Typed
  <2> QED
    BY <1>1, <2>1
<1>4. window' = IF retire THEN Tail(joined) ELSE joined
  BY DEF WindowStep
<1>5. g = cut + (IF offered = {} THEN 0 ELSE 1)
  BY DEF Grown
<1> HIDE DEF joined, cut, now, last, g
<1>6. now \in Seq(T) /\ Len(now) = cut
  BY <1>1
<1>7. tail \in Seq(T) /\ Len(tail) = (IF offered = {} THEN 0 ELSE 1) /\ (offered # {} => tail[1] = last)
  <2>1. last \in T
    OBVIOUS
  <2> HIDE DEF T
  <2>2. <<last>> \in Seq(T) /\ Len(<<last>>) = 1 /\ <<last>>[1] = last
    BY <2>1
  <2> QED
    BY <2>2
<1> HIDE DEF T, tail
<1>8. /\ joined \in Seq(T) /\ Len(joined) = g
      /\ \A i \in 1 .. g : joined[i] = IF i <= cut THEN now[i] ELSE last
  <2>1. /\ joined \in Seq(T) /\ Len(joined) = Len(now) + Len(tail)
        /\ \A i \in 1 .. Len(now) + Len(tail) :
             joined[i] = IF i <= Len(now) THEN now[i] ELSE tail[i - Len(now)]
    BY <1>2, <1>6, <1>7, ConcatProperties
  <2>2. Len(now) + Len(tail) = g
    BY <1>5, <1>6, <1>7
  <2>3. ASSUME NEW i \in 1 .. g, ~(i <= cut) PROVE i - cut = 1 /\ offered # {}
    BY <1>1, <1>5, <2>3
  <2> QED
    BY <1>6, <1>7, <2>1, <2>2, <2>3
<1>9. g \in Nat /\ g >= cut
  BY <1>1, <1>5
<1>10. CASE retire
  <2>1. joined # <<>>
    BY <1>3, <1>8, <1>9, <1>10, <1>1
  <2>2. /\ Tail(joined) \in Seq(T) /\ Len(Tail(joined)) = g - 1
        /\ \A i \in 1 .. g - 1 : Tail(joined)[i] = joined[i + 1]
    BY <1>8, <2>1, HeadTailProperties
  <2>3. g - 1 \in Nat
    BY <1>1, <1>3, <1>9, <1>10
  <2>4. \A i \in 1 .. g - 1 : i + 1 \in 1 .. g
    BY <1>9
  <2>5. Skipped(retire) = 1
    BY <1>10 DEF Skipped
  <2>6. window' = Tail(joined)
    BY <1>4, <1>10
  <2>7. DOMAIN Tail(joined) = 1 .. g - 1
    BY <2>2
  <2>8. ASSUME NEW i \in 1 .. g - 1
        PROVE  window'[i] = IF i + Skipped(retire) <= cut THEN now[i + Skipped(retire)] ELSE last
    BY <1>8, <2>2, <2>4, <2>5, <2>6
  <2> QED
    <3> DEFINE n == g - Skipped(retire)
    <3>1. n = g - 1
      BY <2>5
    <3> HIDE DEF n
    <3>2. /\ n \in Nat /\ Len(window') = n /\ DOMAIN window' = 1 .. n
          /\ \A i \in 1 .. n : window'[i] = IF i + Skipped(retire) <= cut
                                           THEN now[i + Skipped(retire)] ELSE last
          /\ window' \in Seq(T)
      BY <2>2, <2>3, <2>6, <2>7, <2>8, <3>1
    <3> QED
      BY <3>2 DEF n, cut, now, last, g
<1>11. CASE ~retire
  <2>1. Skipped(retire) = 0 /\ g - 0 = g /\ \A i \in 1 .. g : i + 0 = i
    BY <1>9, <1>11 DEF Skipped
  <2>2. window' = joined
    BY <1>4, <1>11
  <2>3. DOMAIN joined = 1 .. g
    BY <1>8
  <2>4. ASSUME NEW i \in 1 .. g
        PROVE  window'[i] = IF i + Skipped(retire) <= cut THEN now[i + Skipped(retire)] ELSE last
    BY <1>8, <2>1, <2>2
  <2> QED
    <3> DEFINE n == g - Skipped(retire)
    <3>1. n = g
      BY <2>1
    <3> HIDE DEF n
    <3>2. /\ n \in Nat /\ Len(window') = n /\ DOMAIN window' = 1 .. n
          /\ \A i \in 1 .. n : window'[i] = IF i + Skipped(retire) <= cut
                                           THEN now[i + Skipped(retire)] ELSE last
          /\ window' \in Seq(T)
      BY <1>8, <1>9, <2>2, <2>3, <2>4, <3>1
    <3> QED
      BY <3>2 DEF n, cut, now, last, g
<1> QED
  BY <1>10, <1>11

(* The i-th entry after the cycle is the k-th before it.                   *)
Carried(i, k, accepts) ==
  /\ k \in DOMAIN window
  /\ window'[i].seq = window[k].seq /\ window'[i].unit = window[k].unit
  /\ window'[i].srcs = window[k].srcs /\ window'[i].rd = window[k].rd
  /\ window'[i].faults = window[k].faults
  /\ window'[i].spec = IF k \in Res(accepts) THEN {} ELSE window[k].spec
  /\ \A part \in Parts :
       part \in window'[i].todo <=> part \in window[k].todo /\ window[k].seq \notin Done(part)
  /\ window'[i] \in Instr

(* The i-th entry after the cycle is renamed in it.                        *)
Joins(i, r) ==
  /\ r \in Renamings /\ WellFormed(r)
  /\ window'[i].seq = NewSeq /\ window'[i].unit = r.op.unit /\ window'[i].srcs = r.rs1 \cup r.rs2
  /\ window'[i].rd = r.rd /\ window'[i].faults = r.op.faults /\ window'[i].spec = r.spec
  /\ window'[i].todo = (IF r.op.unit = "store" THEN {"result", "data"} ELSE {"result"})
  /\ window'[i] \in Instr

(* What is renamed, field by field.                                        *)
LEMMA OfferIs ==
  ASSUME Typed, NEW offered \in Offers, NEW r \in offered
  PROVE  /\ offered = {r} /\ r \in Renamings /\ WellFormed(r) /\ Len(window) # RobSize
         /\ r.op \in Ops /\ r.op.unit \in Units /\ r.op.faults \in BOOLEAN
         /\ (r.op.unit = "alu" => ~r.op.faults)
         /\ (r.spec # {} => r.op.unit = "other")
         /\ r.rs1 \subseteq live /\ r.rs2 \subseteq live
         /\ r.rd \subseteq Tags \ live /\ r.spec \subseteq SnapshotIds \ UsedIds
         /\ r.spec \in Optional(SnapshotIds)
         /\ r.rs1 \subseteq Tags /\ r.rs2 \subseteq Tags /\ r.rd \subseteq Tags
<1>1. offered = {r} /\ r \in Renamings /\ WellFormed(r)
  BY DEF Offers, Optional
<1>2. Len(window) # RobSize
  BY <1>1 DEF Renamings
<1>3. r \in [op : Ops, rs1 : Optional(live), rs2 : Optional(live),
              rd : Optional(Tags \ live), spec : Optional(SnapshotIds \ UsedIds)]
  BY <1>1, <1>2 DEF Renamings
<1>4. /\ r.op \in Ops /\ r.rs1 \in Optional(live) /\ r.rs2 \in Optional(live)
      /\ r.rd \in Optional(Tags \ live) /\ r.spec \in Optional(SnapshotIds \ UsedIds)
  BY <1>3
<1>5. r.op.unit \in Units /\ r.op.faults \in BOOLEAN /\ r.op.branch \in BOOLEAN
  BY <1>4, SchedulerAssumption DEF Units
<1>6. (r.op.unit = "alu" => ~r.op.faults) /\ (r.op.branch => r.op.unit = "other")
  BY <1>4, SchedulerAssumption
<1>7. r.spec # {} => r.op.unit = "other"
  BY <1>1, <1>6 DEF WellFormed
<1>8. live \subseteq Tags
  BY DEF Typed, TypeOK
<1>9. /\ r.rs1 \subseteq live /\ r.rs2 \subseteq live
      /\ r.rd \subseteq Tags \ live /\ r.spec \subseteq SnapshotIds \ UsedIds
      /\ r.spec \in Optional(SnapshotIds)
  BY <1>4 DEF Optional
<1> QED
  BY <1>1, <1>2, <1>4, <1>5, <1>6, <1>7, <1>8, <1>9

(* A turn of the window, in numbers.                                       *)
LEMMA TurnIs ==
  ASSUME Typed, NEW accepts, NEW mispredict, NEW retire, NEW offered,
         Turn(accepts, mispredict, retire, offered)
  PROVE  /\ Cut(accepts, mispredict) \in Nat /\ Cut(accepts, mispredict) <= Len(window)
         /\ Len(window) \in Nat /\ DOMAIN window = 1 .. Len(window)
         /\ Skipped(retire) \in {0, 1}
         /\ retire => Skipped(retire) = 1 /\ 1 \in DOMAIN window /\ Cut(accepts, mispredict) >= 1
         /\ retire => window[1].spec = {} /\ window[1].todo = {}
         /\ ~retire => Skipped(retire) = 0
         /\ offered = {} \/ \E r \in Renamings : offered = {r}
         /\ offered # {} => Missed(accepts, mispredict) = {} /\ Cut(accepts, mispredict) = Len(window)
         /\ Missed(accepts, mispredict) # {} =>
              /\ Cut(accepts, mispredict) \in DOMAIN window
              /\ Res(accepts) = {Cut(accepts, mispredict)} /\ window[Cut(accepts, mispredict)].spec # {}
         /\ Res(accepts) = {} \/ \E i \in DOMAIN window : Res(accepts) = {i} /\ window[i].spec # {}
<1>1. /\ Cut(accepts, mispredict) \in Nat /\ Cut(accepts, mispredict) <= Len(window)
      /\ Missed(accepts, mispredict) # {} =>
           /\ Cut(accepts, mispredict) \in DOMAIN window
           /\ Res(accepts) = {Cut(accepts, mispredict)} /\ window[Cut(accepts, mispredict)].spec # {}
      /\ Missed(accepts, mispredict) = {} => Cut(accepts, mispredict) = Len(window)
  BY NowIs DEF Turn, WindowStep, Calls
<1>2. Len(window) \in Nat /\ DOMAIN window = 1 .. Len(window)
  BY DEF Typed
<1>3. Skipped(retire) \in {0, 1} /\ (retire => Skipped(retire) = 1) /\ (~retire => Skipped(retire) = 0)
  BY DEF Skipped
<1>4. offered = {} \/ \E r \in Renamings : offered = {r}
  BY DEF Turn, Calls, Offers, Optional
<1>5. offered # {} => Missed(accepts, mispredict) = {}
  BY DEF Turn, WindowStep
<1>6. Res(accepts) = {} \/ \E i \in DOMAIN window : Res(accepts) = {i} /\ window[i].spec # {}
  BY DEF Turn, WindowStep, ResolvesOne
<1>7. ASSUME retire PROVE 1 \in DOMAIN window /\ window[1].todo = {}
  <2>1. window # <<>> /\ window[1].todo = {}
    BY <1>7 DEF Turn, WindowStep, Retirable
  <2>2. Len(window) >= 1
    BY <2>1, SeqNotEmpty DEF Typed
  <2> QED
    BY <1>2, <2>1, <2>2
<1>8. retire => window[1].spec = {}
  BY <1>7 DEF Typed, WindowOK
<1>9. retire => Cut(accepts, mispredict) >= 1
  BY <1>1, <1>2, <1>7
<1> QED
  BY <1>1, <1>2, <1>3, <1>4, <1>5, <1>6, <1>7, <1>8, <1>9

(* The window after a turn.                                                *)
LEMMA WindowNow ==
  ASSUME Typed, NEW accepts, NEW mispredict, NEW retire, NEW offered,
         Turn(accepts, mispredict, retire, offered), ~Exception(retire)
  PROVE  /\ Len(window') = Grown(accepts, mispredict, offered) - Skipped(retire)
         /\ DOMAIN window' = 1 .. Len(window') /\ Len(window') \in Nat
         /\ \A i \in DOMAIN window' :
              window'[i] =
                IF i + Skipped(retire) <= Cut(accepts, mispredict)
                THEN Now(accepts, mispredict)[i + Skipped(retire)]
                ELSE InFlight(CHOOSE r \in offered : TRUE)
         /\ \E T : window' \in Seq(T)
<1> DEFINE n == Grown(accepts, mispredict, offered) - Skipped(retire)
<1>1. /\ n \in Nat /\ Len(window') = n /\ DOMAIN window' = 1 .. n
      /\ \A i \in 1 .. n :
           window'[i] =
             IF i + Skipped(retire) <= Cut(accepts, mispredict)
             THEN Now(accepts, mispredict)[i + Skipped(retire)]
             ELSE InFlight(CHOOSE r \in offered : TRUE)
      /\ \E T : window' \in Seq(T)
  BY WindowAfter DEF Turn, Calls
<1> QED
  BY <1>1

(* An entry before the cut is carried.                                     *)
LEMMA EntryCarried ==
  ASSUME Typed, NEW accepts, NEW mispredict, NEW retire, NEW offered,
         Turn(accepts, mispredict, retire, offered), ~Exception(retire),
         NEW i \in DOMAIN window', i + Skipped(retire) <= Cut(accepts, mispredict)
  PROVE  Carried(i, i + Skipped(retire), accepts)
<1> DEFINE k == i + Skipped(retire)
           n == Now(accepts, mispredict)[k]
<1>1. window'[i] = n
  BY WindowNow
<1>2. k \in 1 .. Cut(accepts, mispredict)
  BY TurnIs, WindowNow
<1> HIDE DEF k
<1>3. /\ k \in DOMAIN window
      /\ n.seq = window[k].seq /\ n.unit = window[k].unit /\ n.srcs = window[k].srcs
      /\ n.rd = window[k].rd /\ n.faults = window[k].faults
      /\ n.spec = IF k \in Res(accepts) THEN {} ELSE window[k].spec
      /\ \A part \in Parts :
           part \in n.todo <=> part \in window[k].todo /\ window[k].seq \notin Done(part)
      /\ n \in Instr
  BY <1>2, NowFields DEF Turn, WindowStep, Calls
<1> HIDE DEF n
<1>4. Carried(i, k, accepts)
  BY <1>1, <1>3 DEF Carried
<1> QED
  BY <1>4 DEF k

(* The one entry that may come after the cut is renamed.                   *)
LEMMA EntryJoins ==
  ASSUME Typed, NEW accepts, NEW mispredict, NEW retire, NEW offered,
         Turn(accepts, mispredict, retire, offered), ~Exception(retire),
         NEW i \in DOMAIN window', ~(i + Skipped(retire) <= Cut(accepts, mispredict))
  PROVE  /\ i + Skipped(retire) = Cut(accepts, mispredict) + 1
         /\ Cut(accepts, mispredict) = Len(window) /\ Missed(accepts, mispredict) = {}
         /\ i = Len(window')
         /\ \E r \in Renamings : offered = {r} /\ Joins(i, r)
<1>1. window'[i] = InFlight(CHOOSE r \in offered : TRUE)
  BY WindowNow
<1>2. i + Skipped(retire) = Cut(accepts, mispredict) + 1 /\ offered # {} /\ i = Len(window')
  BY TurnIs, WindowNow DEF Grown
<1>3. PICK r \in Renamings : offered = {r}
  BY <1>2, TurnIs
<1>4. window'[i] = InFlight(r)
  BY <1>1, <1>3
<1>5. /\ WellFormed(r) /\ r.op.unit \in Units /\ r.op.faults \in BOOLEAN
      /\ r.rs1 \subseteq Tags /\ r.rs2 \subseteq Tags /\ r.rd \subseteq Tags
      /\ r.spec \in Optional(SnapshotIds) /\ NewSeq \in Seqs
  <2>1. offered \in Offers /\ r \in offered
    BY <1>3 DEF Turn, Calls
  <2> QED
    BY <2>1, OfferIs, NewSeqFree
<1>6. Joins(i, r)
  <2> DEFINE td == IF r.op.unit = "store" THEN {"result", "data"} ELSE {"result"}
             sr == r.rs1 \cup r.rs2
  <2>1. td \in SUBSET {"result", "data"} /\ sr \in SUBSET Tags
    BY <1>5
  <2>2. InFlight(r) = [seq |-> NewSeq, unit |-> r.op.unit, spec |-> r.spec, srcs |-> sr,
                       rd |-> r.rd, faults |-> r.op.faults, todo |-> td]
    BY DEF InFlight
  <2> HIDE DEF td, sr
  <2>3. InFlight(r) \in Instr
    BY <1>5, <2>1, <2>2 DEF Instr
  <2> QED
    BY <1>3, <1>4, <1>5, <2>2, <2>3 DEF Joins, td, sr
<1> QED
  BY <1>2, <1>3, <1>6, TurnIs

(* What is before the cut and does not retire stays.                       *)
LEMMA StaysIn ==
  ASSUME Typed, NEW accepts, NEW mispredict, NEW retire, NEW offered,
         Turn(accepts, mispredict, retire, offered), ~Exception(retire),
         NEW k \in 1 .. Cut(accepts, mispredict), k > Skipped(retire)
  PROVE  /\ k - Skipped(retire) \in DOMAIN window'
         /\ Carried(k - Skipped(retire), k, accepts)
<1>1. Len(window') >= Cut(accepts, mispredict) - Skipped(retire)
  BY TurnIs, WindowNow DEF Grown
<1>2. k - Skipped(retire) \in DOMAIN window'
  BY <1>1, TurnIs, WindowNow
<1>3. (k - Skipped(retire)) + Skipped(retire) = k
  BY TurnIs
<1> DEFINE i == k - Skipped(retire)
<1> HIDE DEF i
<1>4. i \in DOMAIN window' /\ i + Skipped(retire) = k
  BY <1>2, <1>3 DEF i
<1>5. Carried(i, k, accepts)
  BY <1>4, EntryCarried
<1> QED
  BY <1>4, <1>5 DEF i

(* What is renamed is last in the window.                                  *)
LEMMA NewestIn ==
  ASSUME Typed, NEW accepts, NEW mispredict, NEW retire, NEW offered,
         Turn(accepts, mispredict, retire, offered), ~Exception(retire), NEW r, offered = {r}
  PROVE  /\ Len(window') \in DOMAIN window' /\ Joins(Len(window'), r)
         /\ Len(window') + Skipped(retire) = Cut(accepts, mispredict) + 1
         /\ r \in Renamings
<1> DEFINE cut == Cut(accepts, mispredict)
           s == Skipped(retire)
<1>0. /\ Len(window') = Grown(accepts, mispredict, offered) - s
      /\ DOMAIN window' = 1 .. Len(window') /\ Len(window') \in Nat
  BY WindowNow
<1>a. cut \in Nat /\ s \in {0, 1} /\ (s = 1 => cut >= 1)
  BY TurnIs
<1>b. Grown(accepts, mispredict, offered) = cut + 1
  BY DEF Grown
<1> HIDE DEF cut, s
<1>2. Len(window') \in DOMAIN window' /\ Len(window') + s = cut + 1
  BY <1>0, <1>a, <1>b
<1> DEFINE i == Len(window')
<1> HIDE DEF i
<1>3. i \in DOMAIN window' /\ ~(i + Skipped(retire) <= Cut(accepts, mispredict))
  BY <1>2, <1>a DEF i, cut, s
<1>4. \E x \in Renamings : offered = {x} /\ Joins(i, x)
  BY <1>3, EntryJoins
<1>5. r \in Renamings /\ Joins(i, r)
  BY <1>4
<1> QED
  BY <1>2, <1>5 DEF i, cut, s

(* Snapshots are not shared.                                               *)
LEMMA SpecIs ==
  ASSUME Typed, NEW i \in DOMAIN window, NEW j \in DOMAIN window, i # j
  PROVE  window[i].spec \cap window[j].spec = {}
BY DEF Typed, WindowOK

(* A place before the i-th, one lower if the head moves.                   *)
LEMMA Lowered ==
  ASSUME NEW i \in Nat, NEW k \in Nat, NEW z \in {0, 1}, k = i + z, NEW l \in 1 .. k - 1, l > z
  PROVE  l - z \in 1 .. i - 1
OBVIOUS

(* The unresolved branches before an entry, after the cycle.               *)
LEMMA OlderAfter ==
  ASSUME Typed, NEW accepts, NEW mispredict, NEW retire, NEW offered,
         Turn(accepts, mispredict, retire, offered), ~Exception(retire),
         NEW i \in DOMAIN window'
  PROVE  \A x : x \in Older(i)' <=>
           x \in Older(i + Skipped(retire)) /\ \A c \in Res(accepts) : x \notin window[c].spec
<1> DEFINE k == i + Skipped(retire)
           cut == Cut(accepts, mispredict)
<1>1. k <= cut + 1 /\ k \in Nat /\ i \in Nat \ {0} /\ i <= Len(window')
  BY EntryJoins, TurnIs, WindowNow
<1>2. Older(i)' = UNION {window'[j].spec : j \in 1 .. i - 1}
  BY DEF Older
<1>3. ASSUME NEW x, x \in Older(i)'
      PROVE  x \in Older(k) /\ \A c \in Res(accepts) : x \notin window[c].spec
  <2>1. PICK j \in 1 .. i - 1 : x \in window'[j].spec
    BY <1>2, <1>3
  <2>2. j \in DOMAIN window' /\ j + Skipped(retire) <= cut /\ j + Skipped(retire) \in 1 .. k - 1
    BY <1>1, <2>1, WindowNow, TurnIs
  <2> DEFINE l == j + Skipped(retire)
  <2>3. Carried(j, l, accepts)
    BY <2>2, EntryCarried
  <2> HIDE DEF l
  <2>4. x \in window[l].spec /\ l \notin Res(accepts) /\ l \in DOMAIN window
    BY <2>1, <2>3 DEF Carried
  <2>5. l \in 1 .. k - 1
    BY <2>2 DEF l
  <2>6. x \in Older(k)
    BY <2>4, <2>5 DEF Older
  <2>7. ASSUME NEW c \in Res(accepts) PROVE x \notin window[c].spec
    <3>1. c \in DOMAIN window /\ c # l
      BY <2>4, <2>7, TurnIs
    <3> QED
      BY <2>4, <3>1, SpecIs
  <2> QED
    BY <2>6, <2>7
<1>4. ASSUME NEW x, x \in Older(k), \A c \in Res(accepts) : x \notin window[c].spec
      PROVE  x \in Older(i)'
  <2>1. PICK l \in 1 .. k - 1 : x \in window[l].spec
    BY <1>4 DEF Older
  <2>2. l # 1 \/ ~retire
    BY <2>1, TurnIs
  <2>3. l \in 1 .. cut /\ l > Skipped(retire)
    BY <1>1, <2>1, <2>2, TurnIs
  <2> DEFINE j == l - Skipped(retire)
  <2>4. j \in DOMAIN window' /\ Carried(j, l, accepts)
    BY <2>3, StaysIn
  <2>5. j \in 1 .. i - 1
    <3> DEFINE z == Skipped(retire)
    <3>1. z \in {0, 1} /\ l > z
      BY <2>3, TurnIs
    <3>2. k = i + z
      BY DEF k
    <3>3. i \in Nat /\ k \in Nat
      BY <1>1
    <3> HIDE DEF z, k
    <3>4. l - z \in 1 .. i - 1
      BY <2>1, <3>1, <3>2, <3>3, Lowered
    <3> QED
      BY <3>4 DEF z
  <2> HIDE DEF j
  <2>6. l \notin Res(accepts)
    BY <1>4, <2>1
  <2>7. x \in window'[j].spec
    BY <2>1, <2>4, <2>6 DEF Carried
  <2> QED
    BY <1>2, <2>5, <2>7
<1> QED
  BY <1>3, <1>4

(* The kill of the next cycle.                                             *)
LEMMA KillIs ==
  ASSUME Typed, NEW accepts, NEW mispredict, NEW retire, NEW offered,
         Turn(accepts, mispredict, retire, offered)
  PROVE  /\ kill'.force = Exception(retire)
         /\ kill'.kill_mask = IF Missed(accepts, mispredict) = {} THEN {}
                              ELSE SnapshotIds \ Older(Cut(accepts, mispredict))
         /\ kill'.clear_mask = IF Missed(accepts, mispredict) # {} THEN {}
                               ELSE UNION {window[i].spec : i \in Res(accepts)}
BY DEF Turn, WindowStep

(* A message whose mask is that of the k-th entry is killed with it.       *)
LEMMA KeepAfter ==
  ASSUME Typed, NEW accepts, NEW mispredict, NEW retire, NEW offered,
         Turn(accepts, mispredict, retire, offered), NEW k \in DOMAIN window,
         NEW m, m.mask = Older(k)
  PROVE  Keep(m, kill') <=> ~Exception(retire) /\ k <= Cut(accepts, mispredict)
<1> DEFINE cut == Cut(accepts, mispredict)
<1>1. Keep(m, kill') <=> ~Exception(retire) /\ Older(k) \cap kill'.kill_mask = {}
  BY KillIs DEF Keep
<1>2. k \in Nat /\ cut \in Nat
  BY TurnIs
<1>3. CASE Missed(accepts, mispredict) = {}
  <2>1. kill'.kill_mask = {} /\ cut = Len(window)
    BY <1>3, KillIs DEF Cut
  <2>2. k <= cut
    BY <2>1, TurnIs
  <2> QED
    BY <1>1, <2>1, <2>2
<1>4. CASE Missed(accepts, mispredict) # {}
  <2>1. kill'.kill_mask = SnapshotIds \ UNION {window[i].spec : i \in 1 .. cut - 1}
    BY <1>4, KillIs DEF Older
  <2>2. cut \in DOMAIN window /\ window[cut].spec # {}
    BY <1>4, TurnIs
  <2>3. CASE k <= cut
    <3>1. 1 .. k - 1 \subseteq 1 .. cut - 1
      BY <1>2, <2>3
    <3>2. Older(k) \cap kill'.kill_mask = {}
      BY <2>1, <3>1 DEF Older
    <3> QED
      BY <1>1, <2>3, <3>2
  <2>4. CASE ~(k <= cut)
    <3>1. cut \in 1 .. k - 1
      BY <1>2, <2>2, <2>4, TurnIs
    <3>2. PICK x \in window[cut].spec : TRUE
      BY <2>2
    <3>3. x \in Older(k)
      BY <3>1, <3>2 DEF Older
    <3>4. x \in SnapshotIds
      BY <2>2, <3>2 DEF Typed, TypeOK, Instr, Optional
    <3>5. ASSUME NEW i \in 1 .. cut - 1 PROVE x \notin window[i].spec
      <4>1. i \in DOMAIN window /\ i # cut
        BY <1>2, <2>2, TurnIs
      <4> QED
        BY <2>2, <3>2, <4>1, SpecIs
    <3>6. x \in kill'.kill_mask
      BY <2>1, <3>4, <3>5
    <3> QED
      BY <1>1, <2>4, <3>3, <3>6
  <2> QED
    BY <2>3, <2>4
<1> QED
  BY <1>3, <1>4

(* The broadcast clears from the mask of an entry what has Res(accepts).   *)
LEMMA MaskAfter ==
  ASSUME Typed, NEW accepts, NEW mispredict, NEW retire, NEW offered,
         Turn(accepts, mispredict, retire, offered), ~Exception(retire),
         NEW i \in DOMAIN window'
  PROVE  Older(i + Skipped(retire)) \ kill'.clear_mask = Older(i)'
<1> DEFINE k == i + Skipped(retire)
           cut == Cut(accepts, mispredict)
<1>1. \A x : x \in Older(i)' <=> x \in Older(k) /\ \A c \in Res(accepts) : x \notin window[c].spec
  BY OlderAfter
<1>2. CASE Missed(accepts, mispredict) = {}
  <2>1. kill'.clear_mask = UNION {window[c].spec : c \in Res(accepts)}
    BY <1>2, KillIs
  <2> HIDE DEF k
  <2> QED
    BY <1>1, <2>1 DEF k
<1>3. CASE Missed(accepts, mispredict) # {}
  <2>1. kill'.clear_mask = {} /\ Res(accepts) = {cut} /\ cut \in DOMAIN window
    BY <1>3, KillIs, TurnIs
  <2>2. k <= cut /\ k \in Nat
    BY <1>3, EntryJoins, WindowNow, TurnIs
  <2> HIDE DEF k
  <2>3. ASSUME NEW x \in Older(k) PROVE x \notin window[cut].spec
    <3>1. PICK l \in 1 .. k - 1 : x \in window[l].spec
      BY <2>3 DEF Older
    <3>2. l \in DOMAIN window /\ l # cut
      BY <2>2, <3>1, TurnIs
    <3> QED
      BY <2>1, <3>1, <3>2, SpecIs
  <2>4. \A x : x \in Older(i)' <=> x \in Older(k)
    BY <1>1, <2>1, <2>3
  <2> QED
    BY <2>1, <2>4 DEF k
<1> QED
  BY <1>2, <1>3

(* The branches that are not resolved after the cut.                       *)
LEMMA UnresolvedIs ==
  ASSUME Typed, NEW accepts, NEW mispredict, NEW retire, NEW offered,
         Turn(accepts, mispredict, retire, offered)
  PROVE  /\ Unresolved(accepts, mispredict) \subseteq SnapshotIds
         /\ \A x : x \in Unresolved(accepts, mispredict) <=>
              \E k \in 1 .. Cut(accepts, mispredict) : k \notin Res(accepts) /\ x \in window[k].spec
<1> DEFINE cut == Cut(accepts, mispredict)
           now == Now(accepts, mispredict)
<1>1. DOMAIN now = 1 .. cut
  BY NowIs DEF Turn, WindowStep, Calls
<1>2. Unresolved(accepts, mispredict) = UNION {now[i].spec : i \in 1 .. cut}
  BY <1>1 DEF Unresolved
<1>3. ASSUME NEW i \in 1 .. cut
      PROVE  now[i].spec = (IF i \in Res(accepts) THEN {} ELSE window[i].spec) /\ i \in DOMAIN window
  <2>1. ResolvesOne(accepts) /\ mispredict \in BOOLEAN
    BY DEF Turn, Calls, WindowStep
  <2>2. i \in 1 .. Cut(accepts, mispredict)
    OBVIOUS
  <2>3. /\ i \in DOMAIN window
        /\ Now(accepts, mispredict)[i].spec = IF i \in Res(accepts) THEN {} ELSE window[i].spec
    BY <2>1, <2>2, NowSpec
  <2> QED
    BY <2>3
<1>4. \A i \in DOMAIN window : window[i].spec \subseteq SnapshotIds
  BY DEF Typed, TypeOK, Instr, Optional
<1> HIDE DEF now, cut
<1>5. \A x : x \in Unresolved(accepts, mispredict) <=>
        \E k \in 1 .. cut : k \notin Res(accepts) /\ x \in window[k].spec
  BY <1>2, <1>3
<1> QED
  BY <1>3, <1>4, <1>5 DEF cut

(* The mask given to what is renamed is that of its entry.                 *)
LEMMA NewMask ==
  ASSUME Typed, NEW accepts, NEW mispredict, NEW retire, NEW offered,
         Turn(accepts, mispredict, retire, offered), NEW r, offered = {r}
  PROVE  /\ ~Exception(retire) /\ Missed(accepts, mispredict) = {} /\ r \in Renamings
         /\ ~kill'.force /\ kill'.kill_mask = {}
         /\ \E i \in DOMAIN window' :
              /\ i = Len(window') /\ Joins(i, r)
              /\ Unresolved(accepts, mispredict) \ kill'.clear_mask = Older(i)'
<1> DEFINE un == Unresolved(accepts, mispredict)
           cut == Cut(accepts, mispredict)
<1>1. ~Exception(retire) /\ Missed(accepts, mispredict) = {}
  BY DEF Turn, WindowStep
<1>2. PICK i \in DOMAIN window' : i = Len(window') /\ Joins(i, r) /\ i + Skipped(retire) = cut + 1
  BY <1>1, NewestIn
<1>3. kill'.clear_mask = UNION {window[c].spec : c \in Res(accepts)} /\ ~kill'.force /\ kill'.kill_mask = {}
  BY <1>1, KillIs
<1>4. cut \in Nat /\ cut = Len(window) /\ DOMAIN window = 1 .. cut
  BY TurnIs
<1>5. Res(accepts) \subseteq DOMAIN window
  BY TurnIs
<1> HIDE DEF un, cut
<1>6. \A x : x \in Older(i)' <=> x \in Older(cut + 1) /\ \A c \in Res(accepts) : x \notin window[c].spec
  <2>1. \A x : x \in Older(i)' <=>
          x \in Older(i + Skipped(retire)) /\ \A c \in Res(accepts) : x \notin window[c].spec
    BY <1>1, OlderAfter
  <2> QED
    BY <1>2, <2>1
<1>7. \A x : x \in un <=> \E k \in 1 .. cut : k \notin Res(accepts) /\ x \in window[k].spec
  BY UnresolvedIs DEF un, cut
<1>8. \A x : x \in Older(cut + 1) <=> \E k \in 1 .. cut : x \in window[k].spec
  <2>1. 1 .. (cut + 1) - 1 = 1 .. cut
    BY <1>4
  <2> QED
    BY <2>1 DEF Older
<1>9. ASSUME NEW x, x \in Older(cut + 1), \A c \in Res(accepts) : x \notin window[c].spec
      PROVE  x \in un /\ x \notin kill'.clear_mask
  BY <1>3, <1>7, <1>8, <1>9
<1>10. ASSUME NEW x, x \in un, x \notin kill'.clear_mask
       PROVE  x \in Older(cut + 1) /\ \A c \in Res(accepts) : x \notin window[c].spec
  BY <1>3, <1>7, <1>8, <1>10
<1>11. un \ kill'.clear_mask = Older(i)'
  BY <1>6, <1>9, <1>10
<1>12. r \in Renamings
  BY TurnIs
<1> QED
  BY <1>1, <1>2, <1>3, <1>11, <1>12 DEF un

------------------------------------------------------------------------------
(****************************************************************************)
(* The registers.  What a cycle does to them, with the two queues as       *)
(* theorems of IssueQueueProofs.                                           *)
(****************************************************************************)

(* The theorems about the queues.                                          *)
OoP == INSTANCE IssueQueueProofs WITH NumSlots <- OoSlots, slots <- oo_slots,
  Opaque <- IssueMsg, Branches <- SnapshotIds, Entries <- {}, Kills <- {}

IoP == INSTANCE IssueQueueProofs WITH NumSlots <- IoSlots, slots <- io_slots,
  Opaque <- IssueMsg, Branches <- SnapshotIds, Entries <- {}, Kills <- {}

(* The registers as they are shown, and what enters them.                  *)
RenameOut == Peek(renamed, kill)

OoShown == Oo!Shown(kill)

IoShown == Io!Shown(kill)

OoTaken(accepts) == AluIn \cup OtherIn(accepts) \cup DataIn # {}

IoTaken(accepts) == MemIn(accepts) # {}

Broadcast == Written(Shown) \cup Forwarded

OoIssued(accepts) == IF AddRdy(OoOut, OoTaken(accepts)) THEN Oo!Removable(OoShown) ELSE {}

IoIssued(accepts) == IF AddRdy(IoOut, IoTaken(accepts)) THEN Io!Removable(IoShown) ELSE {}

OoReady(accepts) == Oo!QueueAddRdy(OoShown, OoIssued(accepts))

IoReady(accepts) == Io!QueueAddRdy(IoShown, IoIssued(accepts))

OoAdded(accepts) ==
  IF OoReady(accepts) THEN NormalPeek(RenameOut, OoReady(accepts), IoReady(accepts)) ELSE {}

IoAdded(accepts) ==
  IF IoReady(accepts) THEN MemPeek(RenameOut, OoReady(accepts), IoReady(accepts)) ELSE {}

InTaken(accepts) == InTake(RenameOut, OoAdded(accepts) # {}, IoAdded(accepts) # {})

Read(slots, issued) == Dispatched(UNION {slots[k] : k \in issued}, ready_table \cup Broadcast)

OoEntries(accepts) == {Entry(m, FALSE) : m \in OoAdded(accepts)}

IoEntries(accepts) == {Entry(m, m.unit = "store") : m \in IoAdded(accepts)}

UnitIn(accepts, u) ==
  CASE u = "alu" -> AluIn [] u = "mem" -> MemIn(accepts) [] u = "other" -> OtherIn(accepts)

(* What a cycle does to the registers.                                     *)
FlowStep(accepts, added) ==
  /\ added # {} => AddRdy(RenameOut, InTaken(accepts))
  /\ renamed' = RegNext(RenameOut, InTaken(accepts), added)
  /\ Oo!Cycle(kill, OoIssued(accepts), Broadcast, OoEntries(accepts))
  /\ Io!Cycle(kill, IoIssued(accepts), Broadcast, IoEntries(accepts))
  /\ oo_dispatch' = RegNext(OoOut, OoTaken(accepts), Read(OoShown, OoIssued(accepts)))
  /\ io_dispatch' = RegNext(IoOut, IoTaken(accepts), Read(IoShown, IoIssued(accepts)))
  /\ units' = [u \in DOMAIN units |->
                 RegNext(Shown[u], u = Granted(Shown), UnitIn(accepts, u))]
  /\ ready_table' = (ready_table \cup Written(Shown)) \ UNION {m.rd : m \in added}

(* Flow does what FlowStep says.                                           *)
LEMMA FlowIs ==
  ASSUME NEW accepts, NEW added, Flow(accepts, added)
  PROVE  FlowStep(accepts, added)
BY DEF Flow, FlowStep, RenameOut, OoShown, IoShown, OoTaken, IoTaken, Broadcast, OoIssued, IoIssued,
       OoReady, IoReady, OoAdded, IoAdded, InTaken, Read, OoEntries, IoEntries, UnitIn

(* What of a message goes on with it, and what the broadcast clears.       *)
Passed(t, u) ==
  /\ t.seq = u.seq /\ t.unit = u.unit /\ t.rd = u.rd /\ (t.faults <=> u.faults)
  /\ t.mask = u.mask \ kill.clear_mask

(* What a register shows differs from what it has in the mask only.        *)
LEMMA PeekDis ==
  ASSUME NEW reg, reg \subseteq DisMsg, Single(reg)
  PROVE  /\ Peek(reg, kill) \subseteq DisMsg /\ Single(Peek(reg, kill))
         /\ \A m \in Peek(reg, kill) :
              \E x \in reg : Keep(x, kill) /\ Passed(m, x) /\ m.stale = x.stale
         /\ \A x \in reg : Keep(x, kill) =>
              \E m \in Peek(reg, kill) : Passed(m, x) /\ m.stale = x.stale
<1>1. ASSUME NEW x \in reg
      PROVE  /\ Cleared(x, kill) \in DisMsg /\ Passed(Cleared(x, kill), x)
             /\ Cleared(x, kill).stale = x.stale
  <2>1. x \in DisMsg
    OBVIOUS
  <2>2. Cleared(x, kill) \in DisMsg
    BY <2>1 DEF Cleared, DisMsg
  <2>3. Passed(Cleared(x, kill), x) /\ Cleared(x, kill).stale = x.stale
    BY <2>1 DEF Cleared, DisMsg, Passed
  <2> QED
    BY <2>2, <2>3
<1>2. \A m : m \in Peek(reg, kill) <=> \E x \in reg : Keep(x, kill) /\ m = Cleared(x, kill)
  BY DEF Peek
<1> QED
  BY <1>1, <1>2 DEF Single

(* So does what rename shows.                                              *)
LEMMA PeekRen ==
  ASSUME TypeOK
  PROVE  /\ RenameOut \subseteq RenMsg /\ Single(RenameOut)
         /\ \A m \in RenameOut :
              \E x \in renamed : Keep(x, kill) /\ Passed(m, x) /\ m.rs1 = x.rs1 /\ m.rs2 = x.rs2
         /\ \A x \in renamed : Keep(x, kill) =>
              \E m \in RenameOut : Passed(m, x) /\ m.rs1 = x.rs1 /\ m.rs2 = x.rs2
<1>1. ASSUME NEW x \in renamed
      PROVE  /\ Cleared(x, kill) \in RenMsg /\ Passed(Cleared(x, kill), x)
             /\ Cleared(x, kill).rs1 = x.rs1 /\ Cleared(x, kill).rs2 = x.rs2
  <2>1. x \in RenMsg
    BY DEF TypeOK
  <2>2. Cleared(x, kill) \in RenMsg
    BY <2>1 DEF Cleared, RenMsg
  <2>3. Passed(Cleared(x, kill), x) /\ Cleared(x, kill).rs1 = x.rs1 /\ Cleared(x, kill).rs2 = x.rs2
    BY <2>1 DEF Cleared, RenMsg, Passed
  <2> QED
    BY <2>2, <2>3
<1>2. \A m : m \in RenameOut <=> \E x \in renamed : Keep(x, kill) /\ m = Cleared(x, kill)
  BY DEF Peek, RenameOut
<1> QED
  BY <1>1, <1>2 DEF Single, TypeOK

(* What is added to the queues is the renamed message, for a store one     *)
(* source each.                                                            *)
Half(a, m) ==
  /\ a.seq = m.seq /\ a.unit = m.unit /\ a.rd = m.rd /\ (a.faults <=> m.faults) /\ a.mask = m.mask
  /\ a.rs1 \cup a.rs2 \subseteq m.rs1 \cup m.rs2 /\ a \in RenMsg

(* The issue selector splits a store and routes the rest; rename lets go   *)
(* of a message when every queue that is to have it has taken it.          *)
LEMMA AddedIs ==
  ASSUME TypeOK, NEW accepts
  PROVE  /\ Single(OoAdded(accepts)) /\ Single(IoAdded(accepts))
         /\ \A a \in OoAdded(accepts) : \E m \in RenameOut : Half(a, m) /\ m.unit # "load"
         /\ \A a \in IoAdded(accepts) : \E m \in RenameOut : Half(a, m) /\ m.unit \in {"load", "store"}
         /\ \A m \in RenameOut :
              /\ m.unit # "load" /\ InTaken(accepts) => \E a \in OoAdded(accepts) : Half(a, m)
              /\ m.unit \in {"load", "store"} /\ InTaken(accepts) =>
                   \E a \in IoAdded(accepts) : Half(a, m)
         /\ OoAdded(accepts) # {} => InTaken(accepts) /\ OoReady(accepts)
         /\ IoAdded(accepts) # {} => InTaken(accepts) /\ IoReady(accepts)
<1> DEFINE ToOo(m) == OoReady(accepts) /\ (m.unit \notin {"load", "store"} \/ (m.unit = "store" /\ IoReady(accepts)))
           ToIo(m) == IoReady(accepts) /\ (m.unit = "load" \/ (m.unit = "store" /\ OoReady(accepts)))
<1>1. \A m \in RenameOut : Half(DataPart(m), m) /\ Half(AddressPart(m), m) /\ m.unit \in Units
  <2>1. \A m \in RenMsg : Half(DataPart(m), m) /\ Half(AddressPart(m), m) /\ m.unit \in Units
    BY DEF Half, RenMsg, DataPart, AddressPart
  <2> QED
    BY <2>1, PeekRen
<1>2. \A a : a \in OoAdded(accepts) <=> \E m \in RenameOut : ToOo(m) /\ a = DataPart(m)
  BY DEF OoAdded, NormalPeek
<1>3. \A a : a \in IoAdded(accepts) <=> \E m \in RenameOut : ToIo(m) /\ a = AddressPart(m)
  BY DEF IoAdded, MemPeek
<1>4. \A m, n \in RenameOut : m = n
  BY PeekRen DEF Single
<1>5. InTaken(accepts) <=>
        \E m \in RenameOut : IF m.unit \in {"load", "store"} THEN IoAdded(accepts) # {} ELSE OoAdded(accepts) # {}
  BY DEF InTaken, InTake
<1>6. \A m \in RenameOut : OoAdded(accepts) # {} <=> ToOo(m)
  BY <1>2, <1>4
<1>7. \A m \in RenameOut : IoAdded(accepts) # {} <=> ToIo(m)
  BY <1>3, <1>4
<1>8. Single(OoAdded(accepts)) /\ Single(IoAdded(accepts))
  BY <1>2, <1>3, <1>4 DEF Single
<1>9. \A m \in RenameOut : InTaken(accepts) <=>
        IF m.unit \in {"load", "store"} THEN ToIo(m) ELSE ToOo(m)
  BY <1>4, <1>5, <1>6, <1>7
<1>10. ASSUME NEW a \in OoAdded(accepts)
       PROVE  \E m \in RenameOut : Half(a, m) /\ m.unit # "load" /\ InTaken(accepts) /\ OoReady(accepts)
  BY <1>1, <1>2, <1>9
<1>11. ASSUME NEW a \in IoAdded(accepts)
       PROVE  \E m \in RenameOut :
                /\ Half(a, m) /\ m.unit \in {"load", "store"} /\ InTaken(accepts) /\ IoReady(accepts)
  BY <1>1, <1>3, <1>9
<1>12. ASSUME NEW m \in RenameOut
       PROVE  /\ m.unit # "load" /\ InTaken(accepts) => \E a \in OoAdded(accepts) : Half(a, m)
              /\ m.unit \in {"load", "store"} /\ InTaken(accepts) =>
                   \E a \in IoAdded(accepts) : Half(a, m)
  BY <1>1, <1>2, <1>3, <1>9 DEF Units
<1> QED
  BY <1>8, <1>10, <1>11, <1>12

(* The entry made of a message.                                            *)
Enters(e, a, ordered) ==
  /\ e.op = [seq |-> a.seq, unit |-> a.unit, rd |-> a.rd, faults |-> a.faults]
  /\ e.srcs = a.rs1 \cup a.rs2 /\ e.waits = (a.rs1 \cup a.rs2) \ ready_table
  /\ (e.ordered <=> ordered) /\ e.mask = a.mask

(* An entry waits for what it reads and has not been written.              *)
LEMMA EntryIs ==
  ASSUME NEW a \in RenMsg, NEW ordered \in BOOLEAN
  PROVE  /\ Entry(a, ordered) \in Oo!EntryType
         /\ Entry(a, ordered).waits \subseteq Entry(a, ordered).srcs
         /\ Enters(Entry(a, ordered), a, ordered)
<1> DEFINE op == [seq |-> a.seq, unit |-> a.unit, rd |-> a.rd, faults |-> a.faults]
           srcs == a.rs1 \cup a.rs2
<1>1. op \in IssueMsg
  BY DEF IssueMsg, RenMsg, Units
<1>2. srcs \in SUBSET Tags /\ srcs \ ready_table \in SUBSET Tags /\ a.mask \in SUBSET SnapshotIds
  BY DEF RenMsg
<1>3. Entry(a, ordered) = [op |-> op, srcs |-> srcs, waits |-> srcs \ ready_table,
                           ordered |-> ordered, mask |-> a.mask]
  BY DEF Entry
<1>4. Enters(Entry(a, ordered), a, ordered)
  BY <1>3 DEF Enters
<1> HIDE DEF op, srcs
<1>5. Entry(a, ordered) \in Oo!EntryType /\ Entry(a, ordered).waits \subseteq Entry(a, ordered).srcs
  BY <1>1, <1>2, <1>3 DEF Oo!EntryType
<1> QED
  BY <1>4, <1>5

(* What becomes of an entry that stays.                                    *)
Moved(f, e, tags, cleared) ==
  /\ f.op = e.op /\ f.srcs = e.srcs /\ f.waits = e.waits \ tags
  /\ (f.ordered <=> e.ordered) /\ f.mask = e.mask \ cleared

(* What a message becomes as it enters a queue.                            *)
Arrives(f, a, ordered) ==
  /\ f.op = [seq |-> a.seq, unit |-> a.unit, rd |-> a.rd, faults |-> a.faults]
  /\ f.srcs = a.rs1 \cup a.rs2 /\ f.waits = ((a.rs1 \cup a.rs2) \ ready_table) \ Broadcast
  /\ (f.ordered <=> ordered) /\ f.mask = a.mask

(* The two queues have entries of one type.                                *)
LEMMA IoEntryType == Io!EntryType = Oo!EntryType
BY DEF Io!EntryType, Oo!EntryType

(* Where compaction takes a slot of the out of order queue.                *)
OoDest(accepts, k) == OoP!Dest(OoShown, OoIssued(accepts), k)

(* The kill of the queue is that of the scheduler.                         *)
LEMMA OoKill ==
  /\ \A m, k : OoP!Keep(m, k) <=> Keep(m, k)
  /\ \A m, k : OoP!Cleared(m, k) = Cleared(m, k)
  /\ \A S, k : OoP!Peek(S, k) = Peek(S, k)
  /\ \A S, k : Oo!Peek(S, k) = Peek(S, k)
BY DEF OoP!Keep, OoP!Cleared, OoP!Peek, Oo!Peek, Oo!Keep, Oo!Cleared, Keep, Cleared, Peek

(* The queue of the theorems is the queue of the scheduler.                *)
LEMMA OoSame ==
  /\ OoP!Idx = Oo!Idx /\ Oo!Idx = 0 .. OoSlots - 1
  /\ OoP!Shown(kill) = OoShown
  /\ OoP!EntryType = Oo!EntryType
  /\ OoP!TypeOK <=> Oo!TypeOK
  /\ \A issued : OoP!QueueAddRdy(OoShown, issued) <=> Oo!QueueAddRdy(OoShown, issued)
  /\ \A issued, tags, added :
       Oo!Cycle(kill, issued, tags, added) => OoP!Cycle(kill, issued, tags, added)
<1>1. OoP!Idx = Oo!Idx /\ Oo!Idx = 0 .. OoSlots - 1
  BY DEF OoP!Idx, Oo!Idx
<1>2. OoP!Shown(kill) = OoShown
  BY OoKill DEF OoP!Shown, Oo!Shown, OoShown, OoP!Idx, Oo!Idx
<1>3. OoP!EntryType = Oo!EntryType
  BY DEF OoP!EntryType, Oo!EntryType
<1>4. OoP!TypeOK <=> Oo!TypeOK
  BY <1>1, <1>3 DEF OoP!TypeOK, Oo!TypeOK
<1>5. \A issued : OoP!QueueAddRdy(OoShown, issued) <=> Oo!QueueAddRdy(OoShown, issued)
  BY DEF OoP!QueueAddRdy, Oo!QueueAddRdy, OoP!TakeCall, Oo!TakeCall, OoP!Shifts, Oo!Shifts,
         OoP!AddRdy, Oo!AddRdy
<1>6. \A issued, tags, added :
        Oo!Cycle(kill, issued, tags, added) => OoP!Cycle(kill, issued, tags, added)
  BY DEF OoP!Cycle, Oo!Cycle, OoP!SlotsNext, Oo!SlotsNext, OoP!Shown, Oo!Shown, OoP!Idx, Oo!Idx,
         OoP!Notified, Oo!Notified, OoP!TakeCall, Oo!TakeCall, OoP!Shifts, Oo!Shifts,
         OoP!SlotInput, Oo!SlotInput, OoP!Arriving, Oo!Arriving,
         OoP!RegNext, Oo!RegNext, OoP!Peek, Oo!Peek, OoP!Keep, Oo!Keep, OoP!Cleared, Oo!Cleared
<1> QED
  BY <1>1, <1>2, <1>3, <1>4, <1>5, <1>6

(* What is issued waits for nothing and passes no ordered entry.           *)
LEMMA OoIssuedIs ==
  ASSUME NEW accepts
  PROVE  /\ OoIssued(accepts) \subseteq Oo!Idx /\ Single(OoIssued(accepts))
         /\ OoIssued(accepts) # {} => AddRdy(OoOut, OoTaken(accepts))
         /\ \A k \in OoIssued(accepts) :
              /\ \E e \in OoShown[k] : e.waits = {}
              /\ \A j \in 0 .. k - 1 : \A p \in OoShown[j] :
                   ~p.ordered /\ \A e \in OoShown[k] : ~e.ordered
<1>1. OoIssued(accepts) \subseteq Oo!Removable(OoShown)
  BY DEF OoIssued
<1>2. OoIssued(accepts) # {} => AddRdy(OoOut, OoTaken(accepts))
  BY DEF OoIssued
<1>3. \A k \in Oo!Removable(OoShown) :
        /\ k \in Oo!Idx /\ Oo!StatusReady(OoShown, k)
        /\ \A j \in 0 .. k - 1 : ~Oo!StatusReady(OoShown, j)
        /\ ~Oo!WaitPred(OoShown, k)
  BY DEF Oo!Removable, Oo!FirstReady
<1>4. \A k \in Oo!Idx : k \in Nat
  BY SchedulerAssumption DEF Oo!Idx
<1>5. Single(Oo!Removable(OoShown))
  <2> SUFFICES ASSUME NEW j \in Oo!Removable(OoShown), NEW k \in Oo!Removable(OoShown), j # k
               PROVE  FALSE
    BY DEF Single
  <2>1. j \in Nat /\ k \in Nat /\ (j \in 0 .. k - 1 \/ k \in 0 .. j - 1)
    BY <1>3, <1>4
  <2> QED
    BY <1>3, <2>1
<1>6. \A k \in Oo!Removable(OoShown) :
        /\ \E e \in OoShown[k] : e.waits = {}
        /\ \A j \in 0 .. k - 1 : \A p \in OoShown[j] :
             ~p.ordered /\ \A e \in OoShown[k] : ~e.ordered
  BY <1>3 DEF Oo!StatusReady, Oo!WaitPred
<1> QED
  BY <1>1, <1>2, <1>3, <1>5, <1>6 DEF Single

(* What a slot shows is what it has, if the kill spares it.                *)
LEMMA OoShownIs ==
  ASSUME TypeOK, NEW k \in Oo!Idx
  PROVE  /\ \A f \in OoShown[k] : \E e \in oo_slots[k] :
              Keep(e, kill) /\ Moved(f, e, {}, kill.clear_mask)
         /\ \A e \in oo_slots[k] : Keep(e, kill) =>
              \E f \in OoShown[k] : Moved(f, e, {}, kill.clear_mask)
         /\ \A e, f \in OoShown[k] : e = f
<1>1. OoShown[k] = Peek(oo_slots[k], kill)
  BY OoKill DEF OoShown, Oo!Shown
<1>2. \A e \in oo_slots[k] : e \in Oo!EntryType /\ \A f \in oo_slots[k] : e = f
  BY DEF TypeOK, Oo!TypeOK
<1>3. \A e \in oo_slots[k] : Moved(Cleared(e, kill), e, {}, kill.clear_mask)
  BY <1>2 DEF Oo!EntryType, Cleared, Moved
<1> QED
  BY <1>1, <1>2, <1>3 DEF Peek

(* The out of order queue after a cycle: each entry that stays moves down  *)
(* in order, woken by the broadcast, and what is added comes last.         *)
LEMMA OoQueue ==
  ASSUME TypeOK, NEW accepts, NEW added, FlowStep(accepts, added)
  PROVE  /\ Oo!TypeOK'
         /\ \A k \in Oo!Idx : OoDest(accepts, k) \in Oo!Idx /\ OoDest(accepts, k) <= k
         /\ \A k \in Oo!Idx : \A e \in oo_slots[k] : Keep(e, kill) /\ k \notin OoIssued(accepts) =>
              \E f \in oo_slots'[OoDest(accepts, k)] : Moved(f, e, Broadcast, kill.clear_mask)
         /\ \A a \in OoAdded(accepts) : \E f \in oo_slots'[OoSlots - 1] : Arrives(f, a, FALSE)
         /\ \A p \in Oo!Idx : \A f \in oo_slots'[p] :
              \/ \E k \in Oo!Idx : \E e \in oo_slots[k] :
                   /\ Keep(e, kill) /\ k \notin OoIssued(accepts) /\ OoDest(accepts, k) = p
                   /\ Moved(f, e, Broadcast, kill.clear_mask)
              \/ p = OoSlots - 1 /\ \E a \in OoAdded(accepts) : Arrives(f, a, FALSE)
         /\ \A j, k \in Oo!Idx : \A d \in oo_slots[j], e \in oo_slots[k] :
              /\ Keep(d, kill) /\ j \notin OoIssued(accepts)
              /\ Keep(e, kill) /\ k \notin OoIssued(accepts) /\ j < k
              => OoDest(accepts, j) < OoDest(accepts, k)
<1> DEFINE issued == OoIssued(accepts)
           added_entries == OoEntries(accepts)
<1>1. issued \in SUBSET OoP!Idx
  BY OoIssuedIs, OoSame
<1>2. \A a \in OoAdded(accepts) : a \in RenMsg
  BY AddedIs DEF Half
<1>3. \A a \in OoAdded(accepts) : Entry(a, FALSE) \in Oo!EntryType
        /\ Entry(a, FALSE).waits \subseteq Entry(a, FALSE).srcs
        /\ Enters(Entry(a, FALSE), a, FALSE)
  BY <1>2, EntryIs
<1>4. \A a, b \in OoAdded(accepts) : a = b
  BY AddedIs DEF Single
<1>5. OoP!Good(added_entries)
  BY <1>3, <1>4, OoSame DEF OoP!Good, OoEntries
<1>6. added_entries # {} => OoP!QueueAddRdy(OoP!Shown(kill), issued)
  <2>1. added_entries # {} => OoReady(accepts)
    BY AddedIs DEF OoEntries
  <2> QED
    BY <2>1, OoSame DEF OoReady
<1>7. OoP!TypeOK /\ OoP!Cycle(kill, issued, Broadcast, added_entries)
  BY OoSame DEF FlowStep, TypeOK
<1> HIDE DEF issued, added_entries
<1>8. OoP!TypeOK'
  BY <1>5, <1>7, OoP!CycleType, SchedulerAssumption
<1>8a. Oo!TypeOK'
  BY <1>8, OoSame DEF OoP!TypeOK, Oo!TypeOK, OoP!Idx, Oo!Idx
<1>9. LET dest(k) == OoP!Dest(OoP!Shown(kill), issued, k)
      IN  /\ \A k \in OoP!Idx : \A e \in oo_slots[k] : Keep(e, kill) /\ k \notin issued =>
               \E f \in oo_slots'[dest(k)] : OoP!Updated(f, e, Broadcast, kill.clear_mask)
          /\ \A a \in added_entries : \E f \in oo_slots'[OoSlots - 1] : OoP!Updated(f, a, Broadcast, {})
          /\ \A p \in OoP!Idx : \A f \in oo_slots'[p] :
               \/ \E k \in OoP!Idx : \E e \in oo_slots[k] :
                    /\ Keep(e, kill) /\ k \notin issued /\ dest(k) = p
                    /\ OoP!Updated(f, e, Broadcast, kill.clear_mask)
               \/ p = OoSlots - 1 /\ \E a \in added_entries : OoP!Updated(f, a, Broadcast, {})
          /\ \A k \in OoP!Idx : dest(k) \in OoP!Idx /\ dest(k) <= k
          /\ \A j, k \in OoP!Idx : \A d \in oo_slots[j], e \in oo_slots[k] :
               /\ Keep(d, kill) /\ j \notin issued /\ Keep(e, kill) /\ k \notin issued
               /\ j < k
               => dest(j) < dest(k)
  BY <1>1, <1>5, <1>6, <1>7, OoP!CycleEntries, OoKill, SchedulerAssumption
<1>10. \A k : OoP!Dest(OoP!Shown(kill), issued, k) = OoDest(accepts, k)
  BY OoSame DEF OoDest, issued
<1>11. \A f, e, c : OoP!Updated(f, e, Broadcast, c) <=> Moved(f, e, Broadcast, c)
  BY DEF OoP!Updated, Moved
<1>12. ASSUME NEW f, NEW a \in OoAdded(accepts), Moved(f, Entry(a, FALSE), Broadcast, {})
       PROVE  Arrives(f, a, FALSE)
  BY <1>3, <1>12 DEF Moved, Enters, Arrives
<1>13. \A x : x \in added_entries <=> \E a \in OoAdded(accepts) : x = Entry(a, FALSE)
  BY DEF added_entries, OoEntries
<1>14. OoP!Idx = Oo!Idx
  BY OoSame
<1>15. /\ \A k \in Oo!Idx : OoDest(accepts, k) \in Oo!Idx /\ OoDest(accepts, k) <= k
       /\ \A k \in Oo!Idx : \A e \in oo_slots[k] : Keep(e, kill) /\ k \notin issued =>
            \E f \in oo_slots'[OoDest(accepts, k)] : Moved(f, e, Broadcast, kill.clear_mask)
       /\ \A j, k \in Oo!Idx : \A d \in oo_slots[j], e \in oo_slots[k] :
            /\ Keep(d, kill) /\ j \notin issued
            /\ Keep(e, kill) /\ k \notin issued /\ j < k
            => OoDest(accepts, j) < OoDest(accepts, k)
  BY <1>9, <1>10, <1>11, <1>14
<1>16. \A a \in OoAdded(accepts) : \E f \in oo_slots'[OoSlots - 1] : Arrives(f, a, FALSE)
  BY <1>9, <1>11, <1>12, <1>13
<1>17. ASSUME NEW p \in Oo!Idx, NEW f \in oo_slots'[p]
       PROVE  \/ \E k \in Oo!Idx : \E e \in oo_slots[k] :
                   /\ Keep(e, kill) /\ k \notin issued /\ OoDest(accepts, k) = p
                   /\ Moved(f, e, Broadcast, kill.clear_mask)
              \/ p = OoSlots - 1 /\ \E a \in OoAdded(accepts) : Arrives(f, a, FALSE)
  <2>1. CASE \E k \in OoP!Idx : \E e \in oo_slots[k] :
               /\ Keep(e, kill) /\ k \notin issued
               /\ OoP!Dest(OoP!Shown(kill), issued, k) = p
               /\ OoP!Updated(f, e, Broadcast, kill.clear_mask)
    BY <1>10, <1>11, <1>14, <2>1
  <2>2. CASE p = OoSlots - 1 /\ \E a \in added_entries : OoP!Updated(f, a, Broadcast, {})
    BY <1>11, <1>12, <1>13, <2>2
  <2> QED
    BY <1>9, <1>14, <2>1, <2>2
<1> QED
  BY <1>8a, <1>15, <1>16, <1>17 DEF issued

(* Where compaction takes a slot of the memory queue.                      *)
IoDest(accepts, k) == IoP!Dest(IoShown, IoIssued(accepts), k)

(* The same for the memory queue.                                          *)
LEMMA IoKill ==
  /\ \A m, k : IoP!Keep(m, k) <=> Keep(m, k)
  /\ \A m, k : IoP!Cleared(m, k) = Cleared(m, k)
  /\ \A S, k : IoP!Peek(S, k) = Peek(S, k)
  /\ \A S, k : Io!Peek(S, k) = Peek(S, k)
BY DEF IoP!Keep, IoP!Cleared, IoP!Peek, Io!Peek, Io!Keep, Io!Cleared, Keep, Cleared, Peek

(* The same for the memory queue.                                          *)
LEMMA IoSame ==
  /\ IoP!Idx = Io!Idx /\ Io!Idx = 0 .. IoSlots - 1
  /\ IoP!Shown(kill) = IoShown
  /\ IoP!EntryType = Io!EntryType
  /\ IoP!TypeOK <=> Io!TypeOK
  /\ \A issued : IoP!QueueAddRdy(IoShown, issued) <=> Io!QueueAddRdy(IoShown, issued)
  /\ \A issued, tags, added :
       Io!Cycle(kill, issued, tags, added) => IoP!Cycle(kill, issued, tags, added)
<1>1. IoP!Idx = Io!Idx /\ Io!Idx = 0 .. IoSlots - 1
  BY DEF IoP!Idx, Io!Idx
<1>2. IoP!Shown(kill) = IoShown
  BY IoKill DEF IoP!Shown, Io!Shown, IoShown, IoP!Idx, Io!Idx
<1>3. IoP!EntryType = Io!EntryType
  BY DEF IoP!EntryType, Io!EntryType
<1>4. IoP!TypeOK <=> Io!TypeOK
  BY <1>1, <1>3 DEF IoP!TypeOK, Io!TypeOK
<1>5. \A issued : IoP!QueueAddRdy(IoShown, issued) <=> Io!QueueAddRdy(IoShown, issued)
  BY DEF IoP!QueueAddRdy, Io!QueueAddRdy, IoP!TakeCall, Io!TakeCall, IoP!Shifts, Io!Shifts,
         IoP!AddRdy, Io!AddRdy
<1>6. \A issued, tags, added :
        Io!Cycle(kill, issued, tags, added) => IoP!Cycle(kill, issued, tags, added)
  BY DEF IoP!Cycle, Io!Cycle, IoP!SlotsNext, Io!SlotsNext, IoP!Shown, Io!Shown, IoP!Idx, Io!Idx,
         IoP!Notified, Io!Notified, IoP!TakeCall, Io!TakeCall, IoP!Shifts, Io!Shifts,
         IoP!SlotInput, Io!SlotInput, IoP!Arriving, Io!Arriving,
         IoP!RegNext, Io!RegNext, IoP!Peek, Io!Peek, IoP!Keep, Io!Keep, IoP!Cleared, Io!Cleared
<1> QED
  BY <1>1, <1>2, <1>3, <1>4, <1>5, <1>6

(* The same for the memory queue.                                          *)
LEMMA IoIssuedIs ==
  ASSUME NEW accepts
  PROVE  /\ IoIssued(accepts) \subseteq Io!Idx /\ Single(IoIssued(accepts))
         /\ IoIssued(accepts) # {} => AddRdy(IoOut, IoTaken(accepts))
         /\ \A k \in IoIssued(accepts) :
              /\ \E e \in IoShown[k] : e.waits = {}
              /\ \A j \in 0 .. k - 1 : \A p \in IoShown[j] :
                   ~p.ordered /\ \A e \in IoShown[k] : ~e.ordered
<1>1. IoIssued(accepts) \subseteq Io!Removable(IoShown)
  BY DEF IoIssued
<1>2. IoIssued(accepts) # {} => AddRdy(IoOut, IoTaken(accepts))
  BY DEF IoIssued
<1>3. \A k \in Io!Removable(IoShown) :
        /\ k \in Io!Idx /\ Io!StatusReady(IoShown, k)
        /\ \A j \in 0 .. k - 1 : ~Io!StatusReady(IoShown, j)
        /\ ~Io!WaitPred(IoShown, k)
  BY DEF Io!Removable, Io!FirstReady
<1>4. \A k \in Io!Idx : k \in Nat
  BY SchedulerAssumption DEF Io!Idx
<1>5. Single(Io!Removable(IoShown))
  <2> SUFFICES ASSUME NEW j \in Io!Removable(IoShown), NEW k \in Io!Removable(IoShown), j # k
               PROVE  FALSE
    BY DEF Single
  <2>1. j \in Nat /\ k \in Nat /\ (j \in 0 .. k - 1 \/ k \in 0 .. j - 1)
    BY <1>3, <1>4
  <2> QED
    BY <1>3, <2>1
<1>6. \A k \in Io!Removable(IoShown) :
        /\ \E e \in IoShown[k] : e.waits = {}
        /\ \A j \in 0 .. k - 1 : \A p \in IoShown[j] :
             ~p.ordered /\ \A e \in IoShown[k] : ~e.ordered
  BY <1>3 DEF Io!StatusReady, Io!WaitPred
<1> QED
  BY <1>1, <1>2, <1>3, <1>5, <1>6 DEF Single

(* The same for the memory queue.                                          *)
LEMMA IoShownIs ==
  ASSUME TypeOK, NEW k \in Io!Idx
  PROVE  /\ \A f \in IoShown[k] : \E e \in io_slots[k] :
              Keep(e, kill) /\ Moved(f, e, {}, kill.clear_mask)
         /\ \A e \in io_slots[k] : Keep(e, kill) =>
              \E f \in IoShown[k] : Moved(f, e, {}, kill.clear_mask)
         /\ \A e, f \in IoShown[k] : e = f
<1>1. IoShown[k] = Peek(io_slots[k], kill)
  BY IoKill DEF IoShown, Io!Shown
<1>2. \A e \in io_slots[k] : e \in Io!EntryType /\ \A f \in io_slots[k] : e = f
  BY DEF TypeOK, Io!TypeOK
<1>3. \A e \in io_slots[k] : Moved(Cleared(e, kill), e, {}, kill.clear_mask)
  BY <1>2 DEF Io!EntryType, Cleared, Moved
<1> QED
  BY <1>1, <1>2, <1>3 DEF Peek

(* The same for the memory queue.                                          *)
LEMMA IoQueue ==
  ASSUME TypeOK, NEW accepts, NEW added, FlowStep(accepts, added)
  PROVE  /\ Io!TypeOK'
         /\ \A k \in Io!Idx : IoDest(accepts, k) \in Io!Idx /\ IoDest(accepts, k) <= k
         /\ \A k \in Io!Idx : \A e \in io_slots[k] : Keep(e, kill) /\ k \notin IoIssued(accepts) =>
              \E f \in io_slots'[IoDest(accepts, k)] : Moved(f, e, Broadcast, kill.clear_mask)
         /\ \A a \in IoAdded(accepts) : \E f \in io_slots'[IoSlots - 1] : Arrives(f, a, (a.unit = "store"))
         /\ \A p \in Io!Idx : \A f \in io_slots'[p] :
              \/ \E k \in Io!Idx : \E e \in io_slots[k] :
                   /\ Keep(e, kill) /\ k \notin IoIssued(accepts) /\ IoDest(accepts, k) = p
                   /\ Moved(f, e, Broadcast, kill.clear_mask)
              \/ p = IoSlots - 1 /\ \E a \in IoAdded(accepts) : Arrives(f, a, (a.unit = "store"))
         /\ \A j, k \in Io!Idx : \A d \in io_slots[j], e \in io_slots[k] :
              /\ Keep(d, kill) /\ j \notin IoIssued(accepts)
              /\ Keep(e, kill) /\ k \notin IoIssued(accepts) /\ j < k
              => IoDest(accepts, j) < IoDest(accepts, k)
<1> DEFINE issued == IoIssued(accepts)
           added_entries == IoEntries(accepts)
<1>1. issued \in SUBSET IoP!Idx
  BY IoIssuedIs, IoSame
<1>2. \A a \in IoAdded(accepts) : a \in RenMsg
  BY AddedIs DEF Half
<1>3. \A a \in IoAdded(accepts) : Entry(a, (a.unit = "store")) \in Io!EntryType
        /\ Entry(a, (a.unit = "store")).waits \subseteq Entry(a, (a.unit = "store")).srcs
        /\ Enters(Entry(a, (a.unit = "store")), a, (a.unit = "store"))
  BY <1>2, EntryIs, IoEntryType
<1>4. \A a, b \in IoAdded(accepts) : a = b
  BY AddedIs DEF Single
<1>5. IoP!Good(added_entries)
  BY <1>3, <1>4, IoSame DEF IoP!Good, IoEntries
<1>6. added_entries # {} => IoP!QueueAddRdy(IoP!Shown(kill), issued)
  <2>1. added_entries # {} => IoReady(accepts)
    BY AddedIs DEF IoEntries
  <2> QED
    BY <2>1, IoSame DEF IoReady
<1>7. IoP!TypeOK /\ IoP!Cycle(kill, issued, Broadcast, added_entries)
  BY IoSame DEF FlowStep, TypeOK
<1> HIDE DEF issued, added_entries
<1>8. IoP!TypeOK'
  BY <1>5, <1>7, IoP!CycleType, SchedulerAssumption
<1>8a. Io!TypeOK'
  BY <1>8, IoSame DEF IoP!TypeOK, Io!TypeOK, IoP!Idx, Io!Idx
<1>9. LET dest(k) == IoP!Dest(IoP!Shown(kill), issued, k)
      IN  /\ \A k \in IoP!Idx : \A e \in io_slots[k] : Keep(e, kill) /\ k \notin issued =>
               \E f \in io_slots'[dest(k)] : IoP!Updated(f, e, Broadcast, kill.clear_mask)
          /\ \A a \in added_entries : \E f \in io_slots'[IoSlots - 1] : IoP!Updated(f, a, Broadcast, {})
          /\ \A p \in IoP!Idx : \A f \in io_slots'[p] :
               \/ \E k \in IoP!Idx : \E e \in io_slots[k] :
                    /\ Keep(e, kill) /\ k \notin issued /\ dest(k) = p
                    /\ IoP!Updated(f, e, Broadcast, kill.clear_mask)
               \/ p = IoSlots - 1 /\ \E a \in added_entries : IoP!Updated(f, a, Broadcast, {})
          /\ \A k \in IoP!Idx : dest(k) \in IoP!Idx /\ dest(k) <= k
          /\ \A j, k \in IoP!Idx : \A d \in io_slots[j], e \in io_slots[k] :
               /\ Keep(d, kill) /\ j \notin issued /\ Keep(e, kill) /\ k \notin issued
               /\ j < k
               => dest(j) < dest(k)
  BY <1>1, <1>5, <1>6, <1>7, IoP!CycleEntries, IoKill, SchedulerAssumption
<1>10. \A k : IoP!Dest(IoP!Shown(kill), issued, k) = IoDest(accepts, k)
  BY IoSame DEF IoDest, issued
<1>11. \A f, e, c : IoP!Updated(f, e, Broadcast, c) <=> Moved(f, e, Broadcast, c)
  BY DEF IoP!Updated, Moved
<1>12. ASSUME NEW f, NEW a \in IoAdded(accepts), Moved(f, Entry(a, (a.unit = "store")), Broadcast, {})
       PROVE  Arrives(f, a, (a.unit = "store"))
  BY <1>3, <1>12 DEF Moved, Enters, Arrives
<1>13. \A x : x \in added_entries <=> \E a \in IoAdded(accepts) : x = Entry(a, (a.unit = "store"))
  BY DEF added_entries, IoEntries
<1>14. IoP!Idx = Io!Idx
  BY IoSame
<1>15. /\ \A k \in Io!Idx : IoDest(accepts, k) \in Io!Idx /\ IoDest(accepts, k) <= k
       /\ \A k \in Io!Idx : \A e \in io_slots[k] : Keep(e, kill) /\ k \notin issued =>
            \E f \in io_slots'[IoDest(accepts, k)] : Moved(f, e, Broadcast, kill.clear_mask)
       /\ \A j, k \in Io!Idx : \A d \in io_slots[j], e \in io_slots[k] :
            /\ Keep(d, kill) /\ j \notin issued
            /\ Keep(e, kill) /\ k \notin issued /\ j < k
            => IoDest(accepts, j) < IoDest(accepts, k)
  BY <1>9, <1>10, <1>11, <1>14
<1>16. \A a \in IoAdded(accepts) : \E f \in io_slots'[IoSlots - 1] : Arrives(f, a, (a.unit = "store"))
  BY <1>9, <1>11, <1>12, <1>13
<1>17. ASSUME NEW p \in Io!Idx, NEW f \in io_slots'[p]
       PROVE  \/ \E k \in Io!Idx : \E e \in io_slots[k] :
                   /\ Keep(e, kill) /\ k \notin issued /\ IoDest(accepts, k) = p
                   /\ Moved(f, e, Broadcast, kill.clear_mask)
              \/ p = IoSlots - 1 /\ \E a \in IoAdded(accepts) : Arrives(f, a, (a.unit = "store"))
  <2>1. CASE \E k \in IoP!Idx : \E e \in io_slots[k] :
               /\ Keep(e, kill) /\ k \notin issued
               /\ IoP!Dest(IoP!Shown(kill), issued, k) = p
               /\ IoP!Updated(f, e, Broadcast, kill.clear_mask)
    BY <1>10, <1>11, <1>14, <2>1
  <2>2. CASE p = IoSlots - 1 /\ \E a \in added_entries : IoP!Updated(f, a, Broadcast, {})
    BY <1>11, <1>12, <1>13, <2>2
  <2> QED
    BY <1>9, <1>14, <2>1, <2>2
<1> QED
  BY <1>8a, <1>15, <1>16, <1>17 DEF issued

------------------------------------------------------------------------------
(****************************************************************************)
(* Paths.  A register is a place on a path; Move is where a cycle takes    *)
(* the message of each place.                                              *)
(****************************************************************************)

(* Tokens, field by field.                                                 *)
LEMMA TokenIs ==
  /\ \A m : /\ Token(m).seq = m.seq /\ Token(m).unit = m.unit /\ Token(m).rd = m.rd
            /\ Token(m).faults = m.faults /\ Token(m).mask = m.mask
  /\ \A e : /\ EntryToken(e).seq = e.op.seq /\ EntryToken(e).unit = e.op.unit
            /\ EntryToken(e).rd = e.op.rd /\ EntryToken(e).faults = e.op.faults
            /\ EntryToken(e).mask = e.mask
  /\ \A m, k : Keep(Token(m), k) <=> Keep(m, k)
  /\ \A e, k : Keep(EntryToken(e), k) <=> Keep(e, k)
BY DEF Token, EntryToken, Keep

(* What is passed on keeps its token.                                      *)
LEMMA PassedTokens ==
  /\ \A m, x : Passed(m, x) => Passed(Token(m), Token(x))
  /\ \A m, e : Passed(m, EntryToken(e)) => Passed(Token(m), EntryToken(e))
  /\ \A f, e, tags : Moved(f, e, tags, kill.clear_mask) => Passed(EntryToken(f), EntryToken(e))
<1>1. ASSUME NEW m, NEW x, Passed(m, x) PROVE Passed(Token(m), Token(x))
  BY <1>1, TokenIs DEF Passed
<1>2. ASSUME NEW m, NEW e, Passed(m, EntryToken(e)) PROVE Passed(Token(m), EntryToken(e))
  BY <1>2, TokenIs DEF Passed
<1>3. ASSUME NEW f, NEW e, NEW tags, Moved(f, e, tags, kill.clear_mask)
      PROVE  Passed(EntryToken(f), EntryToken(e))
  BY <1>3, TokenIs DEF Passed, Moved
<1> QED
  BY <1>1, <1>2, <1>3

(* What a message dispatched from an entry is.                             *)
Dispatches(m, e) ==
  /\ Passed(m, EntryToken(e)) /\ m.stale = e.srcs \ (ready_table \cup Broadcast)

(* Dispatch reads what was issued, one message at most.                    *)
LEMMA ReadIs ==
  ASSUME NEW shown, NEW issued, Single(issued),
         \A k \in issued : \A e, f \in shown[k] : e = f
  PROVE  /\ Single(Read(shown, issued))
         /\ \A m \in Read(shown, issued) : \E k \in issued : \E e \in shown[k] :
              /\ m = [seq |-> e.op.seq, unit |-> e.op.unit, mask |-> e.mask, rd |-> e.op.rd,
                      faults |-> e.op.faults, stale |-> e.srcs \ (ready_table \cup Broadcast)]
         /\ \A k \in issued : \A e \in shown[k] : \E m \in Read(shown, issued) :
              /\ m.seq = e.op.seq /\ m.unit = e.op.unit /\ m.mask = e.mask /\ m.rd = e.op.rd
              /\ m.faults = e.op.faults
<1> DEFINE D(e) == [seq |-> e.op.seq, unit |-> e.op.unit, mask |-> e.mask, rd |-> e.op.rd,
                    faults |-> e.op.faults, stale |-> e.srcs \ (ready_table \cup Broadcast)]
<1>1. Read(shown, issued) = {D(e) : e \in UNION {shown[k] : k \in issued}}
  BY DEF Read, Dispatched
<1>2. \A e : /\ D(e).seq = e.op.seq /\ D(e).unit = e.op.unit /\ D(e).mask = e.mask
             /\ D(e).rd = e.op.rd /\ D(e).faults = e.op.faults
  OBVIOUS
<1> HIDE DEF D
<1>3. \A m : m \in Read(shown, issued) <=> \E k \in issued : \E e \in shown[k] : m = D(e)
  BY <1>1
<1>4. Single(Read(shown, issued))
  BY <1>3 DEF Single
<1>5. \A m \in Read(shown, issued) : \E k \in issued : \E e \in shown[k] : m = D(e)
  BY <1>3
<1>6. \A k \in issued : \A e \in shown[k] : D(e) \in Read(shown, issued)
  BY <1>3
<1>7. \A k \in issued : \A e \in shown[k] : \E m \in Read(shown, issued) :
        /\ m.seq = e.op.seq /\ m.unit = e.op.unit /\ m.mask = e.mask /\ m.rd = e.op.rd
        /\ m.faults = e.op.faults
  BY <1>2, <1>6
<1> QED
  BY <1>4, <1>5, <1>7 DEF D

(* What dispatch and the units show.                                       *)
LEMMA OutIs ==
  ASSUME TypeOK
  PROVE  /\ OoOut \subseteq DisMsg /\ Single(OoOut)
         /\ \A m \in OoOut : \E x \in oo_dispatch : Keep(x, kill) /\ Passed(m, x) /\ m.stale = x.stale
         /\ \A x \in oo_dispatch : Keep(x, kill) => \E m \in OoOut : Passed(m, x) /\ m.stale = x.stale
         /\ IoOut \subseteq DisMsg /\ Single(IoOut)
         /\ \A m \in IoOut : \E x \in io_dispatch : Keep(x, kill) /\ Passed(m, x) /\ m.stale = x.stale
         /\ \A x \in io_dispatch : Keep(x, kill) => \E m \in IoOut : Passed(m, x) /\ m.stale = x.stale
         /\ \A u \in {"mem", "alu", "other"} :
              /\ Shown[u] \subseteq DisMsg /\ Single(Shown[u])
              /\ \A m \in Shown[u] : \E x \in units[u] : Keep(x, kill) /\ Passed(m, x) /\ m.stale = x.stale
              /\ \A x \in units[u] : Keep(x, kill) => \E m \in Shown[u] : Passed(m, x) /\ m.stale = x.stale
<1>1. OoOut = Peek(oo_dispatch, kill) /\ IoOut = Peek(io_dispatch, kill)
  BY DEF OoOut, IoOut
<1>2. \A u \in {"mem", "alu", "other"} : Shown[u] = Peek(units[u], kill)
  BY DEF Shown, TypeOK
<1>3. oo_dispatch \subseteq DisMsg /\ Single(oo_dispatch) /\ io_dispatch \subseteq DisMsg /\ Single(io_dispatch)
  BY DEF TypeOK
<1>4. \A u \in {"mem", "alu", "other"} : units[u] \subseteq DisMsg /\ Single(units[u])
  BY DEF TypeOK
<1> QED
  BY <1>1, <1>2, <1>3, <1>4, PeekDis

(* What enters the units is what dispatch shows.                           *)
LEMMA UnitInIs ==
  ASSUME TypeOK, NEW accepts
  PROVE  /\ AluIn \subseteq OoOut /\ OtherIn(accepts) \subseteq OoOut /\ DataIn \subseteq OoOut
         /\ MemIn(accepts) \subseteq IoOut /\ (MemIn(accepts) = {} \/ MemIn(accepts) = IoOut)
         /\ \A m \in AluIn : m.unit = "alu"
         /\ \A m \in OtherIn(accepts) : m.unit \notin {"alu", "store"}
         /\ \A m \in DataIn : m.unit = "store"
         /\ AluIn # {} => OtherIn(accepts) = {} /\ DataIn = {} /\ AluIn = OoOut
         /\ OtherIn(accepts) # {} => AluIn = {} /\ DataIn = {} /\ OtherIn(accepts) = OoOut
         /\ DataIn # {} => AluIn = {} /\ OtherIn(accepts) = {} /\ DataIn = OoOut
         /\ AluIn # {} => Shown["alu"] = {} \/ Granted(Shown) = "alu"
         /\ OtherIn(accepts) # {} => Shown["other"] = {} \/ Granted(Shown) = "other"
         /\ MemIn(accepts) # {} => Shown["mem"] = {} \/ Granted(Shown) = "mem"
         /\ Granted(Shown) \in {"mem", "alu", "other"}
<1>1. \A m \in AluIn : m \in OoOut /\ m.unit = "alu"
  BY DEF AluIn, ToPipe, Pipe
<1>2. \A m \in OtherIn(accepts) : m \in OoOut /\ m.unit \notin {"alu", "store"}
  BY DEF OtherIn, ToPipe, Pipe
<1>3. \A m \in DataIn : m \in OoOut /\ m.unit = "store"
  BY DEF DataIn, ToPipe, Pipe
<1>4. \A m, n \in OoOut : m = n
  BY OutIs DEF Single
<1>5. /\ AluIn # {} => Clear("alu") /\ (OtherIn(accepts) # {} => Clear("other"))
      /\ OtherIn(accepts) # {} => Clear("other")
      /\ MemIn(accepts) # {} => Clear("mem")
      /\ MemIn(accepts) = {} \/ MemIn(accepts) = IoOut
  BY DEF AluIn, OtherIn, MemIn
<1>6. Granted(Shown) \in {"mem", "alu", "other"}
  BY DEF Granted
<1>7. \A u : Clear(u) => Shown[u] = {} \/ u = Granted(Shown)
  BY DEF Clear, AddRdy
<1> QED
  BY <1>1, <1>2, <1>3, <1>4, <1>5, <1>6, <1>7

(* The units after a cycle.                                                *)
LEMMA UnitsAfter ==
  ASSUME TypeOK, NEW accepts, NEW added, FlowStep(accepts, added)
  PROVE  /\ DOMAIN units' = {"mem", "alu", "other"}
         /\ \A u \in {"mem", "alu", "other"} :
              units'[u] = RegNext(Shown[u], u = Granted(Shown), UnitIn(accepts, u))
         /\ UnitIn(accepts, "alu") = AluIn /\ UnitIn(accepts, "mem") = MemIn(accepts)
         /\ UnitIn(accepts, "other") = OtherIn(accepts)
BY DEF FlowStep, TypeOK, UnitIn

(* The place of a message that has left its path.                          *)
Gone == -4

(* What dispatch gets from the out of order queue.                         *)
LEMMA OoReadIs ==
  ASSUME TypeOK, NEW accepts
  PROVE  /\ Single(Read(OoShown, OoIssued(accepts))) /\ Read(OoShown, OoIssued(accepts)) \subseteq DisMsg
         /\ \A m \in Read(OoShown, OoIssued(accepts)) :
              \E k \in OoIssued(accepts) : \E e \in oo_slots[k] :
                Keep(e, kill) /\ e.waits = {} /\ Dispatches(m, e)
         /\ \A k \in OoIssued(accepts) : \A e \in oo_slots[k] : Keep(e, kill) =>
              \E m \in Read(OoShown, OoIssued(accepts)) : Passed(m, EntryToken(e))
<1> DEFINE issued == OoIssued(accepts)
<1>1. issued \subseteq Oo!Idx /\ Single(issued) /\ \A k \in issued : \E e \in OoShown[k] : e.waits = {}
  BY OoIssuedIs
<1>2. \A k \in issued : \A e, f \in OoShown[k] : e = f
  BY <1>1, OoShownIs
<1>3. ASSUME NEW k \in issued, NEW f \in OoShown[k], NEW e \in oo_slots[k],
             Moved(f, e, {}, kill.clear_mask)
      PROVE  /\ e.waits = {}
             /\ f.op.seq \in Seqs /\ f.op.unit \in Units /\ f.op.rd \in SUBSET Tags
             /\ f.op.faults \in BOOLEAN /\ f.mask \in SUBSET SnapshotIds /\ f.srcs \in SUBSET Tags
  <2>1. e \in Oo!EntryType
    BY <1>1 DEF TypeOK, Oo!TypeOK
  <2>2. e.op \in IssueMsg /\ e.srcs \in SUBSET Tags /\ e.mask \in SUBSET SnapshotIds
    BY <2>1 DEF Oo!EntryType
  <2>3. f.waits = {}
    BY <1>1, <1>2
  <2> QED
    BY <1>3, <2>2, <2>3 DEF Moved, IssueMsg, Units
<1> HIDE DEF issued
<1>4. /\ Single(Read(OoShown, issued))
      /\ \A m \in Read(OoShown, issued) : \E k \in issued : \E e \in OoShown[k] :
           /\ m = [seq |-> e.op.seq, unit |-> e.op.unit, mask |-> e.mask, rd |-> e.op.rd,
                   faults |-> e.op.faults, stale |-> e.srcs \ (ready_table \cup Broadcast)]
      /\ \A k \in issued : \A e \in OoShown[k] : \E m \in Read(OoShown, issued) :
           /\ m.seq = e.op.seq /\ m.unit = e.op.unit /\ m.mask = e.mask /\ m.rd = e.op.rd
           /\ m.faults = e.op.faults
  BY <1>1, <1>2, ReadIs
<1>5. ASSUME NEW m \in Read(OoShown, issued)
      PROVE  m \in DisMsg /\ \E k \in issued : \E e \in oo_slots[k] :
               Keep(e, kill) /\ e.waits = {} /\ Dispatches(m, e)
  <2>1. PICK k \in issued : \E e \in OoShown[k] :
          m = [seq |-> e.op.seq, unit |-> e.op.unit, mask |-> e.mask, rd |-> e.op.rd,
               faults |-> e.op.faults, stale |-> e.srcs \ (ready_table \cup Broadcast)]
    BY <1>4
  <2>2. PICK f \in OoShown[k] :
          m = [seq |-> f.op.seq, unit |-> f.op.unit, mask |-> f.mask, rd |-> f.op.rd,
               faults |-> f.op.faults, stale |-> f.srcs \ (ready_table \cup Broadcast)]
    BY <2>1
  <2>3. PICK e \in oo_slots[k] : Keep(e, kill) /\ Moved(f, e, {}, kill.clear_mask)
    BY <1>1, <2>2, OoShownIs
  <2>4. /\ e.waits = {}
        /\ f.op.seq \in Seqs /\ f.op.unit \in Units /\ f.op.rd \in SUBSET Tags
        /\ f.op.faults \in BOOLEAN /\ f.mask \in SUBSET SnapshotIds /\ f.srcs \in SUBSET Tags
    BY <1>3, <2>2, <2>3
  <2>5. m \in DisMsg
    BY <2>2, <2>4 DEF DisMsg
  <2>6. Dispatches(m, e)
    BY <2>2, <2>3, TokenIs DEF Dispatches, Passed, Moved
  <2> QED
    BY <2>3, <2>4, <2>5, <2>6
<1>6. ASSUME NEW k \in issued, NEW e \in oo_slots[k], Keep(e, kill)
      PROVE  \E m \in Read(OoShown, issued) : Passed(m, EntryToken(e))
  <2>1. PICK f \in OoShown[k] : Moved(f, e, {}, kill.clear_mask)
    BY <1>1, <1>6, OoShownIs
  <2>2. PICK m \in Read(OoShown, issued) :
          /\ m.seq = f.op.seq /\ m.unit = f.op.unit /\ m.mask = f.mask /\ m.rd = f.op.rd
          /\ m.faults = f.op.faults
    BY <1>4, <2>1
  <2>3. Passed(m, EntryToken(e))
    BY <2>1, <2>2, TokenIs DEF Passed, Moved
  <2> QED
    BY <2>3
<1> QED
  BY <1>4, <1>5, <1>6 DEF issued

(* Where the message of a place goes in this cycle.                        *)
OoSend(accepts) ==
  IF AluIn # {} THEN -2 ELSE IF OtherIn(accepts) # {} THEN -3
  ELSE IF DataIn # {} THEN Gone ELSE -1

OoMove(accepts) ==
  [p \in OoPlaces |->
     IF p = OoSlots THEN (IF InTaken(accepts) THEN OoSlots - 1 ELSE OoSlots)
     ELSE IF p >= 0 THEN (IF p \in OoIssued(accepts) THEN -1 ELSE OoDest(accepts, p))
     ELSE IF p = -1 THEN OoSend(accepts)
     ELSE IF p = -2 THEN (IF Granted(Shown) = "alu" THEN Gone ELSE -2)
     ELSE (IF Granted(Shown) = "other" THEN Gone ELSE -3)]

(* The places of the path, before and after a cycle.                       *)
LEMMA OoPathIs ==
  /\ DOMAIN OoPath = OoPlaces /\ DOMAIN OoPath' = OoPlaces
  /\ OoSlots \in OoPlaces /\ -1 \in OoPlaces /\ -2 \in OoPlaces
  /\ Gone \notin OoPlaces
  /\ \A p \in OoPlaces : p \in {OoSlots, -1, -2, -3} \/ p \in Oo!Idx
  /\ \A p \in Oo!Idx : p \in OoPlaces /\ p \notin {OoSlots, -1, -2, -3}
  /\ OoSlots \notin {-1, -2, -3}
  /\ OoPath[OoSlots] = Tokens({m \in renamed : m.unit # "load"})
  /\ OoPath[-1] = Tokens(oo_dispatch) /\ OoPath[-2] = Tokens(units["alu"])
  /\ OoPath'[OoSlots] = Tokens({m \in renamed' : m.unit # "load"})
  /\ OoPath'[-1] = Tokens(oo_dispatch') /\ OoPath'[-2] = Tokens(units'["alu"])
  /\ \A p \in Oo!Idx : /\ OoPath[p] = {EntryToken(e) : e \in oo_slots[p]}
                       /\ OoPath'[p] = {EntryToken(e) : e \in oo_slots'[p]}
  /\ -3 \in OoPlaces /\ OoPath[-3] = Tokens(units["other"]) /\ OoPath'[-3] = Tokens(units'["other"])
<1>1. OoSlots \in Nat /\ OoSlots >= 1
  BY SchedulerAssumption
<1>2. \A p : p \in Oo!Idx <=> p \in 0 .. OoSlots - 1
  BY DEF Oo!Idx
<1>3. \A p \in OoPlaces : p \in Int /\ p <= OoSlots /\ p >= -3
  BY <1>1 DEF OoPlaces
<1> QED
  BY <1>1, <1>2, <1>3 DEF OoPath, OoPlaces, Gone, Tokens

(* The moves, place by place.                                              *)
LEMMA OoMoveIs ==
  ASSUME NEW accepts
  PROVE  /\ OoMove(accepts)[OoSlots] = IF InTaken(accepts) THEN OoSlots - 1 ELSE OoSlots
         /\ \A k \in Oo!Idx : OoMove(accepts)[k] =
              IF k \in OoIssued(accepts) THEN -1 ELSE OoDest(accepts, k)
         /\ OoMove(accepts)[-1] = OoSend(accepts)
         /\ OoMove(accepts)[-2] = (IF Granted(Shown) = "alu" THEN Gone ELSE -2)
         /\ OoMove(accepts)[-3] = (IF Granted(Shown) = "other" THEN Gone ELSE -3)
<1>1. OoSlots \in Nat /\ OoSlots >= 1
  BY SchedulerAssumption
<1>2. \A p \in Oo!Idx : p \in Int /\ p >= 0
  BY <1>1 DEF Oo!Idx
<1>3. OoSlots \in OoPlaces /\ -1 \in OoPlaces /\ -2 \in OoPlaces /\ -3 \in OoPlaces /\ \A k \in Oo!Idx : k \in OoPlaces /\ k # OoSlots
  BY OoPathIs
<1>4. OoMove(accepts)[OoSlots] = IF InTaken(accepts) THEN OoSlots - 1 ELSE OoSlots
  BY <1>3 DEF OoMove
<1>5. \A k \in Oo!Idx : OoMove(accepts)[k] = IF k \in OoIssued(accepts) THEN -1 ELSE OoDest(accepts, k)
  BY <1>2, <1>3 DEF OoMove
<1>6. OoMove(accepts)[-1] = OoSend(accepts)
  BY <1>1, <1>3 DEF OoMove
<1>7. /\ OoMove(accepts)[-2] = (IF Granted(Shown) = "alu" THEN Gone ELSE -2)
         /\ OoMove(accepts)[-3] = (IF Granted(Shown) = "other" THEN Gone ELSE -3)
  BY <1>1, <1>3 DEF OoMove
<1> QED
  BY <1>4, <1>5, <1>6, <1>7

(* What dispatch gets from the memory queue.                               *)
LEMMA IoReadIs ==
  ASSUME TypeOK, NEW accepts
  PROVE  /\ Single(Read(IoShown, IoIssued(accepts))) /\ Read(IoShown, IoIssued(accepts)) \subseteq DisMsg
         /\ \A m \in Read(IoShown, IoIssued(accepts)) :
              \E k \in IoIssued(accepts) : \E e \in io_slots[k] :
                Keep(e, kill) /\ e.waits = {} /\ Dispatches(m, e)
         /\ \A k \in IoIssued(accepts) : \A e \in io_slots[k] : Keep(e, kill) =>
              \E m \in Read(IoShown, IoIssued(accepts)) : Passed(m, EntryToken(e))
<1> DEFINE issued == IoIssued(accepts)
<1>1. issued \subseteq Io!Idx /\ Single(issued) /\ \A k \in issued : \E e \in IoShown[k] : e.waits = {}
  BY IoIssuedIs
<1>2. \A k \in issued : \A e, f \in IoShown[k] : e = f
  BY <1>1, IoShownIs
<1>3. ASSUME NEW k \in issued, NEW f \in IoShown[k], NEW e \in io_slots[k],
             Moved(f, e, {}, kill.clear_mask)
      PROVE  /\ e.waits = {}
             /\ f.op.seq \in Seqs /\ f.op.unit \in Units /\ f.op.rd \in SUBSET Tags
             /\ f.op.faults \in BOOLEAN /\ f.mask \in SUBSET SnapshotIds /\ f.srcs \in SUBSET Tags
  <2>1. e \in Io!EntryType
    BY <1>1 DEF TypeOK, Io!TypeOK
  <2>2. e.op \in IssueMsg /\ e.srcs \in SUBSET Tags /\ e.mask \in SUBSET SnapshotIds
    BY <2>1 DEF Io!EntryType
  <2>3. f.waits = {}
    BY <1>1, <1>2
  <2> QED
    BY <1>3, <2>2, <2>3 DEF Moved, IssueMsg, Units
<1> HIDE DEF issued
<1>4. /\ Single(Read(IoShown, issued))
      /\ \A m \in Read(IoShown, issued) : \E k \in issued : \E e \in IoShown[k] :
           /\ m = [seq |-> e.op.seq, unit |-> e.op.unit, mask |-> e.mask, rd |-> e.op.rd,
                   faults |-> e.op.faults, stale |-> e.srcs \ (ready_table \cup Broadcast)]
      /\ \A k \in issued : \A e \in IoShown[k] : \E m \in Read(IoShown, issued) :
           /\ m.seq = e.op.seq /\ m.unit = e.op.unit /\ m.mask = e.mask /\ m.rd = e.op.rd
           /\ m.faults = e.op.faults
  BY <1>1, <1>2, ReadIs
<1>5. ASSUME NEW m \in Read(IoShown, issued)
      PROVE  m \in DisMsg /\ \E k \in issued : \E e \in io_slots[k] :
               Keep(e, kill) /\ e.waits = {} /\ Dispatches(m, e)
  <2>1. PICK k \in issued : \E e \in IoShown[k] :
          m = [seq |-> e.op.seq, unit |-> e.op.unit, mask |-> e.mask, rd |-> e.op.rd,
               faults |-> e.op.faults, stale |-> e.srcs \ (ready_table \cup Broadcast)]
    BY <1>4
  <2>2. PICK f \in IoShown[k] :
          m = [seq |-> f.op.seq, unit |-> f.op.unit, mask |-> f.mask, rd |-> f.op.rd,
               faults |-> f.op.faults, stale |-> f.srcs \ (ready_table \cup Broadcast)]
    BY <2>1
  <2>3. PICK e \in io_slots[k] : Keep(e, kill) /\ Moved(f, e, {}, kill.clear_mask)
    BY <1>1, <2>2, IoShownIs
  <2>4. /\ e.waits = {}
        /\ f.op.seq \in Seqs /\ f.op.unit \in Units /\ f.op.rd \in SUBSET Tags
        /\ f.op.faults \in BOOLEAN /\ f.mask \in SUBSET SnapshotIds /\ f.srcs \in SUBSET Tags
    BY <1>3, <2>2, <2>3
  <2>5. m \in DisMsg
    BY <2>2, <2>4 DEF DisMsg
  <2>6. Dispatches(m, e)
    BY <2>2, <2>3, TokenIs DEF Dispatches, Passed, Moved
  <2> QED
    BY <2>3, <2>4, <2>5, <2>6
<1>6. ASSUME NEW k \in issued, NEW e \in io_slots[k], Keep(e, kill)
      PROVE  \E m \in Read(IoShown, issued) : Passed(m, EntryToken(e))
  <2>1. PICK f \in IoShown[k] : Moved(f, e, {}, kill.clear_mask)
    BY <1>1, <1>6, IoShownIs
  <2>2. PICK m \in Read(IoShown, issued) :
          /\ m.seq = f.op.seq /\ m.unit = f.op.unit /\ m.mask = f.mask /\ m.rd = f.op.rd
          /\ m.faults = f.op.faults
    BY <1>4, <2>1
  <2>3. Passed(m, EntryToken(e))
    BY <2>1, <2>2, TokenIs DEF Passed, Moved
  <2> QED
    BY <2>3
<1> QED
  BY <1>4, <1>5, <1>6 DEF issued

(* Where the message of a place goes in this cycle.                        *)
IoSend(accepts) == IF MemIn(accepts) # {} THEN -2 ELSE -1

IoMove(accepts) ==
  [p \in IoPlaces |->
     IF p = IoSlots THEN (IF InTaken(accepts) THEN IoSlots - 1 ELSE IoSlots)
     ELSE IF p >= 0 THEN (IF p \in IoIssued(accepts) THEN -1 ELSE IoDest(accepts, p))
     ELSE IF p = -1 THEN IoSend(accepts)
     ELSE (IF Granted(Shown) = "mem" THEN Gone ELSE -2)]

(* The same for the in order path.                                         *)
LEMMA IoPathIs ==
  /\ DOMAIN IoPath = IoPlaces /\ DOMAIN IoPath' = IoPlaces
  /\ IoSlots \in IoPlaces /\ -1 \in IoPlaces /\ -2 \in IoPlaces
  /\ Gone \notin IoPlaces
  /\ \A p \in IoPlaces : p \in {IoSlots, -1, -2} \/ p \in Io!Idx
  /\ \A p \in Io!Idx : p \in IoPlaces /\ p \notin {IoSlots, -1, -2}
  /\ IoSlots \notin {-1, -2}
  /\ IoPath[IoSlots] = Tokens({m \in renamed : m.unit \in {"load", "store"}})
  /\ IoPath[-1] = Tokens(io_dispatch) /\ IoPath[-2] = Tokens(units["mem"])
  /\ IoPath'[IoSlots] = Tokens({m \in renamed' : m.unit \in {"load", "store"}})
  /\ IoPath'[-1] = Tokens(io_dispatch') /\ IoPath'[-2] = Tokens(units'["mem"])
  /\ \A p \in Io!Idx : /\ IoPath[p] = {EntryToken(e) : e \in io_slots[p]}
                       /\ IoPath'[p] = {EntryToken(e) : e \in io_slots'[p]}
<1>1. IoSlots \in Nat /\ IoSlots >= 1
  BY SchedulerAssumption
<1>2. \A p : p \in Io!Idx <=> p \in 0 .. IoSlots - 1
  BY DEF Io!Idx
<1>3. \A p \in IoPlaces : p \in Int /\ p <= IoSlots /\ p >= -2
  BY <1>1 DEF IoPlaces
<1> QED
  BY <1>1, <1>2, <1>3 DEF IoPath, IoPlaces, Gone, Tokens

(* The same for the in order path.                                         *)
LEMMA IoMoveIs ==
  ASSUME NEW accepts
  PROVE  /\ IoMove(accepts)[IoSlots] = IF InTaken(accepts) THEN IoSlots - 1 ELSE IoSlots
         /\ \A k \in Io!Idx : IoMove(accepts)[k] =
              IF k \in IoIssued(accepts) THEN -1 ELSE IoDest(accepts, k)
         /\ IoMove(accepts)[-1] = IoSend(accepts)
         /\ IoMove(accepts)[-2] = (IF Granted(Shown) = "mem" THEN Gone ELSE -2)
<1>1. IoSlots \in Nat /\ IoSlots >= 1
  BY SchedulerAssumption
<1>2. \A p \in Io!Idx : p \in Int /\ p >= 0
  BY <1>1 DEF Io!Idx
<1>3. IoSlots \in IoPlaces /\ -1 \in IoPlaces /\ -2 \in IoPlaces /\ \A k \in Io!Idx : k \in IoPlaces /\ k # IoSlots
  BY IoPathIs
<1>4. IoMove(accepts)[IoSlots] = IF InTaken(accepts) THEN IoSlots - 1 ELSE IoSlots
  BY <1>3 DEF IoMove
<1>5. \A k \in Io!Idx : IoMove(accepts)[k] = IF k \in IoIssued(accepts) THEN -1 ELSE IoDest(accepts, k)
  BY <1>2, <1>3 DEF IoMove
<1>6. IoMove(accepts)[-1] = IoSend(accepts)
  BY <1>1, <1>3 DEF IoMove
<1>7. /\ IoMove(accepts)[-2] = (IF Granted(Shown) = "mem" THEN Gone ELSE -2)
  BY <1>1, <1>3 DEF IoMove
<1> QED
  BY <1>4, <1>5, <1>6, <1>7

(* The token t at place p comes from a token of the path before.           *)
CameFrom(old, move, t, p) ==
  \E q \in DOMAIN old : \E u \in old[q] : Keep(u, kill) /\ Passed(t, u) /\ move[q] = p

(* A cycle takes the living messages of a path where the moves say, and    *)
(* adds the fresh ones at the top.                                         *)
Follows(old, new, move, top, fresh) ==
  /\ DOMAIN new = DOMAIN old
  /\ \A p \in DOMAIN new : \A t \in new[p] : CameFrom(old, move, t, p) \/ (p = top /\ t \in fresh)
  /\ \A q \in DOMAIN old : \A u \in old[q] : Keep(u, kill) =>
       move[q] = Gone \/ (move[q] \in DOMAIN new /\ \E t \in new[move[q]] : Passed(t, u))
  /\ top \in DOMAIN new /\ fresh \subseteq new[top]

(* The tokens of a register.                                               *)
LEMMA TokensIs ==
  ASSUME NEW reg
  PROVE  /\ \A m \in reg : Token(m) \in Tokens(reg)
         /\ \A t \in Tokens(reg) : \E m \in reg : t = Token(m)
BY DEF Tokens

(* The register of rename after a cycle.                                   *)
LEMMA RenamedAfter ==
  ASSUME TypeOK, NEW accepts, NEW added, FlowStep(accepts, added)
  PROVE  /\ \A m \in renamed' : m \in added \/ (~InTaken(accepts) /\ m \in RenameOut /\ added = {})
         /\ \A m \in added : m \in renamed'
         /\ \A m \in RenameOut : InTaken(accepts) \/ m \in renamed'
<1>1. renamed' = RegNext(RenameOut, InTaken(accepts), added)
  BY DEF FlowStep
<1>2. added # {} => RenameOut = {} \/ InTaken(accepts)
  BY DEF FlowStep, AddRdy
<1> QED
  BY <1>1, <1>2 DEF RegNext

(* What was in rename, and what is in a register, keeps its token.         *)
LEMMA HalfPassed ==
  ASSUME NEW a, NEW m, NEW x, Half(a, m), Passed(m, x)
  PROVE  Passed(Token(a), Token(x)) /\ a.unit = x.unit
BY TokenIs DEF Half, Passed

(* So does what arrives in a queue.                                        *)
LEMMA ArrivesPassed ==
  ASSUME NEW f, NEW a, NEW ordered, Arrives(f, a, ordered), NEW u, Passed(Token(a), u)
  PROVE  Passed(EntryToken(f), u)
<1>1. /\ f.op.seq = a.seq /\ f.op.unit = a.unit /\ f.op.rd = a.rd /\ f.op.faults = a.faults
      /\ f.mask = a.mask
  BY DEF Arrives
<1> QED
  BY <1>1, TokenIs DEF Passed

(* Where the messages of the out of order path come from.                  *)
LEMMA OoFrom ==
  ASSUME TypeOK, NEW accepts, NEW added, FlowStep(accepts, added),
         NEW p \in OoPlaces, NEW t \in OoPath'[p]
  PROVE  \/ CameFrom(OoPath, OoMove(accepts), t, p)
         \/ p = OoSlots /\ t \in Tokens({m \in added : m.unit # "load"})
<1> DEFINE mv == OoMove(accepts)
<1>1. CASE p = OoSlots
  <2>1. PICK m \in renamed' : (m.unit # "load") /\ t = Token(m)
    BY <1>1, OoPathIs, TokensIs
  <2>2. CASE m \in added
    BY <1>1, <2>1, <2>2 DEF Tokens
  <2>3. CASE m \notin added
    <3>1. ~InTaken(accepts) /\ m \in RenameOut
      BY <2>3, RenamedAfter
    <3>2. PICK x \in renamed : Keep(x, kill) /\ Passed(m, x)
      BY <3>1, PeekRen
    <3>3. Token(x) \in OoPath[OoSlots]
      <4>1. x.unit = m.unit
        BY <3>2 DEF Passed
      <4> QED
        BY <2>1, <4>1, OoPathIs, TokensIs
    <3>4. mv[OoSlots] = p
      BY <1>1, <3>1, OoMoveIs
    <3>5. Keep(Token(x), kill) /\ Passed(t, Token(x))
      BY <2>1, <3>2, TokenIs, PassedTokens
    <3> QED
      BY <3>3, <3>4, <3>5, OoPathIs DEF CameFrom
  <2> QED
    BY <2>2, <2>3
<1>2. CASE p \in Oo!Idx
  <2>1. PICK f \in oo_slots'[p] : t = EntryToken(f)
    BY <1>2, OoPathIs
  <2>2. CASE \E k \in Oo!Idx : \E e \in oo_slots[k] :
               /\ Keep(e, kill) /\ k \notin OoIssued(accepts) /\ OoDest(accepts, k) = p
               /\ Moved(f, e, Broadcast, kill.clear_mask)
    <3>0. PICK k \in Oo!Idx : \E e \in oo_slots[k] :
               /\ Keep(e, kill) /\ k \notin OoIssued(accepts) /\ OoDest(accepts, k) = p
               /\ Moved(f, e, Broadcast, kill.clear_mask)
      BY <2>2
    <3>1. PICK e \in oo_slots[k] :
               /\ Keep(e, kill) /\ k \notin OoIssued(accepts) /\ OoDest(accepts, k) = p
               /\ Moved(f, e, Broadcast, kill.clear_mask)
      BY <3>0
    <3>2. EntryToken(e) \in OoPath[k] /\ k \in DOMAIN OoPath
      BY OoPathIs
    <3>3. Keep(EntryToken(e), kill) /\ Passed(t, EntryToken(e))
      BY <2>1, <3>1, TokenIs, PassedTokens
    <3>4. mv[k] = p
      BY <3>1, OoMoveIs
    <3> QED
      BY <3>2, <3>3, <3>4 DEF CameFrom
  <2>3. CASE p = OoSlots - 1 /\ \E a \in OoAdded(accepts) : Arrives(f, a, FALSE)
    <3>1. PICK a \in OoAdded(accepts) : Arrives(f, a, FALSE)
      BY <2>3
    <3>2. PICK m \in RenameOut : Half(a, m) /\ (m.unit # "load")
      BY AddedIs
    <3>3. PICK x \in renamed : Keep(x, kill) /\ Passed(m, x)
      BY <3>2, PeekRen
    <3>4. x.unit = m.unit
      BY <3>3 DEF Passed
    <3>5. Token(x) \in OoPath[OoSlots] /\ OoSlots \in DOMAIN OoPath
      BY <3>2, <3>4, OoPathIs, TokensIs
    <3>6. Keep(Token(x), kill) /\ Passed(t, Token(x))
      BY <2>1, <3>1, <3>2, <3>3, HalfPassed, ArrivesPassed, TokenIs
    <3>7. mv[OoSlots] = p
      BY <2>3, AddedIs, OoMoveIs
    <3> QED
      BY <3>5, <3>6, <3>7 DEF CameFrom
  <2> QED
    BY <1>2, <2>2, <2>3, OoQueue
<1>3. CASE p = -1
  <2>1. PICK m \in oo_dispatch' : t = Token(m)
    BY <1>3, OoPathIs, TokensIs
  <2>2. oo_dispatch' = RegNext(OoOut, OoTaken(accepts), Read(OoShown, OoIssued(accepts)))
    BY DEF FlowStep
  <2>3. CASE m \in Read(OoShown, OoIssued(accepts))
    <3>1. PICK k \in OoIssued(accepts) : \E e \in oo_slots[k] : Keep(e, kill) /\ Dispatches(m, e)
      BY <2>3, OoReadIs
    <3>2. PICK e \in oo_slots[k] : Keep(e, kill) /\ Dispatches(m, e)
      BY <3>1
    <3>3. k \in Oo!Idx
      BY OoIssuedIs
    <3>4. EntryToken(e) \in OoPath[k] /\ k \in DOMAIN OoPath
      BY <3>3, OoPathIs
    <3>5. Keep(EntryToken(e), kill) /\ Passed(t, EntryToken(e))
      BY <2>1, <3>2, TokenIs, PassedTokens DEF Dispatches
    <3>6. mv[k] = p
      BY <1>3, <3>3, OoMoveIs
    <3> QED
      BY <3>4, <3>5, <3>6 DEF CameFrom
  <2>4. CASE m \notin Read(OoShown, OoIssued(accepts))
    <3>1. ~OoTaken(accepts) /\ m \in OoOut
      BY <2>2, <2>4 DEF RegNext
    <3>2. PICK x \in oo_dispatch : Keep(x, kill) /\ Passed(m, x)
      BY <3>1, OutIs
    <3>3. Token(x) \in OoPath[-1] /\ -1 \in DOMAIN OoPath
      BY OoPathIs, TokensIs
    <3>4. Keep(Token(x), kill) /\ Passed(t, Token(x))
      BY <2>1, <3>2, TokenIs, PassedTokens
    <3>5. mv[-1] = p
      BY <1>3, <3>1, OoMoveIs DEF OoTaken, OoSend
    <3> QED
      BY <3>3, <3>4, <3>5 DEF CameFrom
  <2> QED
    BY <2>3, <2>4
<1>4. CASE p = -2
  <2>1. PICK m \in units'["alu"] : t = Token(m)
    BY <1>4, OoPathIs, TokensIs
  <2>2. units'["alu"] = RegNext(Shown["alu"], "alu" = Granted(Shown), AluIn)
    BY UnitsAfter
  <2>3. CASE m \in AluIn
    <3>1. m \in OoOut /\ OoSend(accepts) = -2
      BY <2>3, UnitInIs DEF OoSend
    <3>2. PICK x \in oo_dispatch : Keep(x, kill) /\ Passed(m, x)
      BY <3>1, OutIs
    <3>3. Token(x) \in OoPath[-1] /\ -1 \in DOMAIN OoPath
      BY OoPathIs, TokensIs
    <3>4. Keep(Token(x), kill) /\ Passed(t, Token(x))
      BY <2>1, <3>2, TokenIs, PassedTokens
    <3>5. mv[-1] = p
      BY <1>4, <3>1, OoMoveIs
    <3> QED
      BY <3>3, <3>4, <3>5 DEF CameFrom
  <2>4. CASE m \notin AluIn
    <3>1. Granted(Shown) # "alu" /\ m \in Shown["alu"]
      BY <2>2, <2>4 DEF RegNext
    <3>2. PICK x \in units["alu"] : Keep(x, kill) /\ Passed(m, x)
      BY <3>1, OutIs
    <3>3. Token(x) \in OoPath[-2] /\ -2 \in DOMAIN OoPath
      BY OoPathIs, TokensIs
    <3>4. Keep(Token(x), kill) /\ Passed(t, Token(x))
      BY <2>1, <3>2, TokenIs, PassedTokens
    <3>5. mv[-2] = p
      BY <1>4, <3>1, OoMoveIs
    <3> QED
      BY <3>3, <3>4, <3>5 DEF CameFrom
  <2> QED
    BY <2>3, <2>4
<1>5. CASE p = -3
  <2>1. PICK m \in units'["other"] : t = Token(m)
    BY <1>5, OoPathIs, TokensIs
  <2>2. units'["other"] = RegNext(Shown["other"], "other" = Granted(Shown), OtherIn(accepts))
    BY UnitsAfter
  <2>3. CASE m \in OtherIn(accepts)
    <3>1. m \in OoOut /\ OoSend(accepts) = -3
      BY <2>3, UnitInIs DEF OoSend
    <3>2. PICK x \in oo_dispatch : Keep(x, kill) /\ Passed(m, x)
      BY <3>1, OutIs
    <3>3. Token(x) \in OoPath[-1] /\ -1 \in DOMAIN OoPath
      BY OoPathIs, TokensIs
    <3>4. Keep(Token(x), kill) /\ Passed(t, Token(x))
      BY <2>1, <3>2, TokenIs, PassedTokens
    <3>5. mv[-1] = p
      BY <1>5, <3>1, OoMoveIs
    <3> QED
      BY <3>3, <3>4, <3>5 DEF CameFrom
  <2>4. CASE m \notin OtherIn(accepts)
    <3>1. Granted(Shown) # "other" /\ m \in Shown["other"]
      BY <2>2, <2>4 DEF RegNext
    <3>2. PICK x \in units["other"] : Keep(x, kill) /\ Passed(m, x)
      BY <3>1, OutIs
    <3>3. Token(x) \in OoPath[-3] /\ -3 \in DOMAIN OoPath
      BY OoPathIs, TokensIs
    <3>4. Keep(Token(x), kill) /\ Passed(t, Token(x))
      BY <2>1, <3>2, TokenIs, PassedTokens
    <3>5. mv[-3] = p
      BY <1>5, <3>1, OoMoveIs
    <3> QED
      BY <3>3, <3>4, <3>5 DEF CameFrom
  <2> QED
    BY <2>3, <2>4
<1> QED
  BY <1>1, <1>2, <1>3, <1>4, <1>5, OoPathIs

(* Where they go.                                                          *)
LEMMA OoTo ==
  ASSUME TypeOK, NEW accepts, NEW added, FlowStep(accepts, added),
         NEW q \in OoPlaces, NEW u \in OoPath[q], Keep(u, kill)
  PROVE  \/ OoMove(accepts)[q] = Gone
         \/ OoMove(accepts)[q] \in OoPlaces /\ \E t \in OoPath'[OoMove(accepts)[q]] : Passed(t, u)
<1> DEFINE mv == OoMove(accepts)
<1>1. CASE q = OoSlots
  <2>1. PICK x \in renamed : (x.unit # "load") /\ u = Token(x)
    BY <1>1, OoPathIs, TokensIs
  <2>2. PICK m \in RenameOut : Passed(m, x)
    BY <2>1, PeekRen, TokenIs
  <2>3. m.unit = x.unit
    BY <2>2 DEF Passed
  <2>4. CASE InTaken(accepts)
    <3>1. PICK a \in OoAdded(accepts) : Half(a, m)
      BY <2>1, <2>3, <2>4, AddedIs
    <3>2. PICK f \in oo_slots'[OoSlots - 1] : Arrives(f, a, FALSE)
      BY OoQueue
    <3>3. OoSlots - 1 \in Oo!Idx
      BY SchedulerAssumption DEF Oo!Idx
    <3>4. EntryToken(f) \in OoPath'[OoSlots - 1] /\ OoSlots - 1 \in OoPlaces
      BY <3>3, OoPathIs
    <3>5. Passed(EntryToken(f), u)
      BY <2>1, <2>2, <3>1, <3>2, HalfPassed, ArrivesPassed
    <3>6. mv[q] = OoSlots - 1
      BY <1>1, <2>4, OoMoveIs
    <3> QED
      BY <3>4, <3>5, <3>6
  <2>5. CASE ~InTaken(accepts)
    <3>1. m \in renamed'
      BY <2>5, RenamedAfter
    <3>2. Token(m) \in OoPath'[OoSlots] /\ OoSlots \in OoPlaces
      BY <2>1, <2>3, <3>1, OoPathIs, TokensIs
    <3>3. mv[q] = OoSlots
      BY <1>1, <2>5, OoMoveIs
    <3>4. Passed(Token(m), u)
      BY <2>1, <2>2, PassedTokens
    <3> QED
      BY <3>2, <3>3, <3>4
  <2> QED
    BY <2>4, <2>5
<1>2. CASE q \in Oo!Idx
  <2>1. PICK e \in oo_slots[q] : u = EntryToken(e)
    BY <1>2, OoPathIs
  <2>2. Keep(e, kill)
    BY <2>1, TokenIs
  <2>3. CASE q \in OoIssued(accepts)
    <3>1. PICK m \in Read(OoShown, OoIssued(accepts)) : Passed(m, EntryToken(e))
      BY <2>2, <2>3, OoReadIs
    <3>2. m \in oo_dispatch'
      BY <3>1 DEF FlowStep, RegNext
    <3>3. Token(m) \in OoPath'[-1] /\ -1 \in OoPlaces
      BY <3>2, OoPathIs, TokensIs
    <3>4. mv[q] = -1
      BY <1>2, <2>3, OoMoveIs
    <3>5. Passed(Token(m), u)
      BY <2>1, <3>1, PassedTokens
    <3> QED
      BY <3>3, <3>4, <3>5
  <2>4. CASE q \notin OoIssued(accepts)
    <3>1. PICK f \in oo_slots'[OoDest(accepts, q)] : Moved(f, e, Broadcast, kill.clear_mask)
      BY <1>2, <2>2, <2>4, OoQueue
    <3>2. OoDest(accepts, q) \in Oo!Idx
      BY <1>2, OoQueue
    <3>3. EntryToken(f) \in OoPath'[OoDest(accepts, q)] /\ OoDest(accepts, q) \in OoPlaces
      BY <3>2, OoPathIs
    <3>4. Passed(EntryToken(f), u)
      BY <2>1, <3>1, PassedTokens
    <3>5. mv[q] = OoDest(accepts, q)
      BY <1>2, <2>4, OoMoveIs
    <3> QED
      BY <3>3, <3>4, <3>5
  <2> QED
    BY <2>3, <2>4
<1>3. CASE q = -1
  <2>1. PICK x \in oo_dispatch : u = Token(x)
    BY <1>3, OoPathIs, TokensIs
  <2>2. PICK m \in OoOut : Passed(m, x)
    BY <2>1, OutIs, TokenIs
  <2>3. Passed(Token(m), u)
    BY <2>1, <2>2, PassedTokens
  <2>4. mv[q] = OoSend(accepts)
    BY <1>3, OoMoveIs
  <2>5. CASE ~OoTaken(accepts)
    <3>1. OoIssued(accepts) = {}
      BY <2>2, <2>5, OoIssuedIs DEF AddRdy
    <3>2. Read(OoShown, OoIssued(accepts)) = {}
      BY <3>1, OoReadIs
    <3>3. m \in oo_dispatch'
      BY <2>2, <2>5, <3>2 DEF FlowStep, RegNext
    <3>4. Token(m) \in OoPath'[-1] /\ -1 \in OoPlaces
      BY <3>3, OoPathIs, TokensIs
    <3>5. OoSend(accepts) = -1
      BY <2>5 DEF OoSend, OoTaken
    <3> QED
      BY <2>3, <2>4, <3>4, <3>5
  <2>6. CASE AluIn # {}
    <3>1. m \in AluIn /\ OoSend(accepts) = -2
      BY <2>2, <2>6, OutIs, UnitInIs DEF OoSend
    <3>2. m \in units'["alu"]
      BY <3>1, UnitsAfter DEF RegNext
    <3>3. Token(m) \in OoPath'[-2] /\ -2 \in OoPlaces
      BY <3>2, OoPathIs, TokensIs
    <3> QED
      BY <2>3, <2>4, <3>1, <3>3
  <2>7. CASE OtherIn(accepts) # {}
    <3>1. m \in OtherIn(accepts) /\ OoSend(accepts) = -3
      BY <2>2, <2>7, OutIs, UnitInIs DEF OoSend
    <3>2. m \in units'["other"]
      BY <3>1, UnitsAfter DEF RegNext
    <3>3. Token(m) \in OoPath'[-3] /\ -3 \in OoPlaces
      BY <3>2, OoPathIs, TokensIs
    <3> QED
      BY <2>3, <2>4, <3>1, <3>3
  <2>8. CASE DataIn # {}
    <3>1. OoSend(accepts) = Gone
      BY <2>8, UnitInIs DEF OoSend
    <3> QED
      BY <2>4, <3>1
  <2> QED
    BY <2>5, <2>6, <2>7, <2>8 DEF OoTaken
<1>4. CASE q = -2
  <2>1. PICK x \in units["alu"] : u = Token(x)
    BY <1>4, OoPathIs, TokensIs
  <2>2. PICK m \in Shown["alu"] : Passed(m, x)
    BY <2>1, OutIs, TokenIs
  <2>3. mv[q] = (IF Granted(Shown) = "alu" THEN Gone ELSE -2)
    BY <1>4, OoMoveIs
  <2>4. CASE Granted(Shown) # "alu"
    <3>1. AluIn = {}
      BY <2>2, <2>4, UnitInIs
    <3>2. m \in units'["alu"]
      BY <2>2, <2>4, <3>1, UnitsAfter DEF RegNext
    <3>3. Token(m) \in OoPath'[-2] /\ -2 \in OoPlaces
      BY <3>2, OoPathIs, TokensIs
    <3>4. Passed(Token(m), u)
      BY <2>1, <2>2, PassedTokens
    <3> QED
      BY <2>3, <2>4, <3>3, <3>4
  <2> QED
    BY <2>3, <2>4
<1>5. CASE q = -3
  <2>1. PICK x \in units["other"] : u = Token(x)
    BY <1>5, OoPathIs, TokensIs
  <2>2. PICK m \in Shown["other"] : Passed(m, x)
    BY <2>1, OutIs, TokenIs
  <2>3. mv[q] = (IF Granted(Shown) = "other" THEN Gone ELSE -3)
    BY <1>5, OoMoveIs
  <2>4. CASE Granted(Shown) # "other"
    <3>1. OtherIn(accepts) = {}
      BY <2>2, <2>4, UnitInIs
    <3>2. m \in units'["other"]
      BY <2>2, <2>4, <3>1, UnitsAfter DEF RegNext
    <3>3. Token(m) \in OoPath'[-3] /\ -3 \in OoPlaces
      BY <3>2, OoPathIs, TokensIs
    <3>4. Passed(Token(m), u)
      BY <2>1, <2>2, PassedTokens
    <3> QED
      BY <2>3, <2>4, <3>3, <3>4
  <2> QED
    BY <2>3, <2>4
<1> QED
  BY <1>1, <1>2, <1>3, <1>4, <1>5, OoPathIs

(* So the path moves as it should.                                         *)
LEMMA OoFollows ==
  ASSUME TypeOK, NEW accepts, NEW added, FlowStep(accepts, added)
  PROVE  Follows(OoPath, OoPath', OoMove(accepts), OoSlots, Tokens({m \in added : m.unit # "load"}))
<1>1. DOMAIN OoPath = OoPlaces /\ DOMAIN OoPath' = OoPlaces /\ OoSlots \in OoPlaces
  BY OoPathIs
<1>2. Tokens({m \in added : m.unit # "load"}) \subseteq OoPath'[OoSlots]
  <2>1. \A m \in added : m \in renamed'
    BY RenamedAfter
  <2> QED
    BY <2>1, OoPathIs DEF Tokens
<1> QED
  BY <1>1, <1>2, OoFrom, OoTo DEF Follows

(* Where the messages of the in order path come from.                      *)
LEMMA IoFrom ==
  ASSUME TypeOK, NEW accepts, NEW added, FlowStep(accepts, added),
         NEW p \in IoPlaces, NEW t \in IoPath'[p]
  PROVE  \/ CameFrom(IoPath, IoMove(accepts), t, p)
         \/ p = IoSlots /\ t \in Tokens({m \in added : m.unit \in {"load", "store"}})
<1> DEFINE mv == IoMove(accepts)
<1>1. CASE p = IoSlots
  <2>1. PICK m \in renamed' : (m.unit \in {"load", "store"}) /\ t = Token(m)
    BY <1>1, IoPathIs, TokensIs
  <2>2. CASE m \in added
    BY <1>1, <2>1, <2>2 DEF Tokens
  <2>3. CASE m \notin added
    <3>1. ~InTaken(accepts) /\ m \in RenameOut
      BY <2>3, RenamedAfter
    <3>2. PICK x \in renamed : Keep(x, kill) /\ Passed(m, x)
      BY <3>1, PeekRen
    <3>3. Token(x) \in IoPath[IoSlots]
      <4>1. x.unit = m.unit
        BY <3>2 DEF Passed
      <4> QED
        BY <2>1, <4>1, IoPathIs, TokensIs
    <3>4. mv[IoSlots] = p
      BY <1>1, <3>1, IoMoveIs
    <3>5. Keep(Token(x), kill) /\ Passed(t, Token(x))
      BY <2>1, <3>2, TokenIs, PassedTokens
    <3> QED
      BY <3>3, <3>4, <3>5, IoPathIs DEF CameFrom
  <2> QED
    BY <2>2, <2>3
<1>2. CASE p \in Io!Idx
  <2>1. PICK f \in io_slots'[p] : t = EntryToken(f)
    BY <1>2, IoPathIs
  <2>2. CASE \E k \in Io!Idx : \E e \in io_slots[k] :
               /\ Keep(e, kill) /\ k \notin IoIssued(accepts) /\ IoDest(accepts, k) = p
               /\ Moved(f, e, Broadcast, kill.clear_mask)
    <3>0. PICK k \in Io!Idx : \E e \in io_slots[k] :
               /\ Keep(e, kill) /\ k \notin IoIssued(accepts) /\ IoDest(accepts, k) = p
               /\ Moved(f, e, Broadcast, kill.clear_mask)
      BY <2>2
    <3>1. PICK e \in io_slots[k] :
               /\ Keep(e, kill) /\ k \notin IoIssued(accepts) /\ IoDest(accepts, k) = p
               /\ Moved(f, e, Broadcast, kill.clear_mask)
      BY <3>0
    <3>2. EntryToken(e) \in IoPath[k] /\ k \in DOMAIN IoPath
      BY IoPathIs
    <3>3. Keep(EntryToken(e), kill) /\ Passed(t, EntryToken(e))
      BY <2>1, <3>1, TokenIs, PassedTokens
    <3>4. mv[k] = p
      BY <3>1, IoMoveIs
    <3> QED
      BY <3>2, <3>3, <3>4 DEF CameFrom
  <2>3. CASE p = IoSlots - 1 /\ \E a \in IoAdded(accepts) : Arrives(f, a, (a.unit = "store"))
    <3>1. PICK a \in IoAdded(accepts) : Arrives(f, a, (a.unit = "store"))
      BY <2>3
    <3>2. PICK m \in RenameOut : Half(a, m) /\ (m.unit \in {"load", "store"})
      BY AddedIs
    <3>3. PICK x \in renamed : Keep(x, kill) /\ Passed(m, x)
      BY <3>2, PeekRen
    <3>4. x.unit = m.unit
      BY <3>3 DEF Passed
    <3>5. Token(x) \in IoPath[IoSlots] /\ IoSlots \in DOMAIN IoPath
      BY <3>2, <3>4, IoPathIs, TokensIs
    <3>6. Keep(Token(x), kill) /\ Passed(t, Token(x))
      BY <2>1, <3>1, <3>2, <3>3, HalfPassed, ArrivesPassed, TokenIs
    <3>7. mv[IoSlots] = p
      BY <2>3, AddedIs, IoMoveIs
    <3> QED
      BY <3>5, <3>6, <3>7 DEF CameFrom
  <2> QED
    BY <1>2, <2>2, <2>3, IoQueue
<1>3. CASE p = -1
  <2>1. PICK m \in io_dispatch' : t = Token(m)
    BY <1>3, IoPathIs, TokensIs
  <2>2. io_dispatch' = RegNext(IoOut, IoTaken(accepts), Read(IoShown, IoIssued(accepts)))
    BY DEF FlowStep
  <2>3. CASE m \in Read(IoShown, IoIssued(accepts))
    <3>1. PICK k \in IoIssued(accepts) : \E e \in io_slots[k] : Keep(e, kill) /\ Dispatches(m, e)
      BY <2>3, IoReadIs
    <3>2. PICK e \in io_slots[k] : Keep(e, kill) /\ Dispatches(m, e)
      BY <3>1
    <3>3. k \in Io!Idx
      BY IoIssuedIs
    <3>4. EntryToken(e) \in IoPath[k] /\ k \in DOMAIN IoPath
      BY <3>3, IoPathIs
    <3>5. Keep(EntryToken(e), kill) /\ Passed(t, EntryToken(e))
      BY <2>1, <3>2, TokenIs, PassedTokens DEF Dispatches
    <3>6. mv[k] = p
      BY <1>3, <3>3, IoMoveIs
    <3> QED
      BY <3>4, <3>5, <3>6 DEF CameFrom
  <2>4. CASE m \notin Read(IoShown, IoIssued(accepts))
    <3>1. ~IoTaken(accepts) /\ m \in IoOut
      BY <2>2, <2>4 DEF RegNext
    <3>2. PICK x \in io_dispatch : Keep(x, kill) /\ Passed(m, x)
      BY <3>1, OutIs
    <3>3. Token(x) \in IoPath[-1] /\ -1 \in DOMAIN IoPath
      BY IoPathIs, TokensIs
    <3>4. Keep(Token(x), kill) /\ Passed(t, Token(x))
      BY <2>1, <3>2, TokenIs, PassedTokens
    <3>5. mv[-1] = p
      BY <1>3, <3>1, IoMoveIs DEF IoTaken, IoSend
    <3> QED
      BY <3>3, <3>4, <3>5 DEF CameFrom
  <2> QED
    BY <2>3, <2>4
<1>4. CASE p = -2
  <2>1. PICK m \in units'["mem"] : t = Token(m)
    BY <1>4, IoPathIs, TokensIs
  <2>2. units'["mem"] = RegNext(Shown["mem"], "mem" = Granted(Shown), MemIn(accepts))
    BY UnitsAfter
  <2>3. CASE m \in MemIn(accepts)
    <3>1. m \in IoOut /\ IoSend(accepts) = -2
      BY <2>3, UnitInIs DEF IoSend
    <3>2. PICK x \in io_dispatch : Keep(x, kill) /\ Passed(m, x)
      BY <3>1, OutIs
    <3>3. Token(x) \in IoPath[-1] /\ -1 \in DOMAIN IoPath
      BY IoPathIs, TokensIs
    <3>4. Keep(Token(x), kill) /\ Passed(t, Token(x))
      BY <2>1, <3>2, TokenIs, PassedTokens
    <3>5. mv[-1] = p
      BY <1>4, <3>1, IoMoveIs
    <3> QED
      BY <3>3, <3>4, <3>5 DEF CameFrom
  <2>4. CASE m \notin MemIn(accepts)
    <3>1. Granted(Shown) # "mem" /\ m \in Shown["mem"]
      BY <2>2, <2>4 DEF RegNext
    <3>2. PICK x \in units["mem"] : Keep(x, kill) /\ Passed(m, x)
      BY <3>1, OutIs
    <3>3. Token(x) \in IoPath[-2] /\ -2 \in DOMAIN IoPath
      BY IoPathIs, TokensIs
    <3>4. Keep(Token(x), kill) /\ Passed(t, Token(x))
      BY <2>1, <3>2, TokenIs, PassedTokens
    <3>5. mv[-2] = p
      BY <1>4, <3>1, IoMoveIs
    <3> QED
      BY <3>3, <3>4, <3>5 DEF CameFrom
  <2> QED
    BY <2>3, <2>4
<1> QED
  BY <1>1, <1>2, <1>3, <1>4, IoPathIs

(* Where they go.                                                          *)
LEMMA IoTo ==
  ASSUME TypeOK, NEW accepts, NEW added, FlowStep(accepts, added),
         NEW q \in IoPlaces, NEW u \in IoPath[q], Keep(u, kill)
  PROVE  \/ IoMove(accepts)[q] = Gone
         \/ IoMove(accepts)[q] \in IoPlaces /\ \E t \in IoPath'[IoMove(accepts)[q]] : Passed(t, u)
<1> DEFINE mv == IoMove(accepts)
<1>1. CASE q = IoSlots
  <2>1. PICK x \in renamed : (x.unit \in {"load", "store"}) /\ u = Token(x)
    BY <1>1, IoPathIs, TokensIs
  <2>2. PICK m \in RenameOut : Passed(m, x)
    BY <2>1, PeekRen, TokenIs
  <2>3. m.unit = x.unit
    BY <2>2 DEF Passed
  <2>4. CASE InTaken(accepts)
    <3>1. PICK a \in IoAdded(accepts) : Half(a, m)
      BY <2>1, <2>3, <2>4, AddedIs
    <3>2. PICK f \in io_slots'[IoSlots - 1] : Arrives(f, a, (a.unit = "store"))
      BY IoQueue
    <3>3. IoSlots - 1 \in Io!Idx
      BY SchedulerAssumption DEF Io!Idx
    <3>4. EntryToken(f) \in IoPath'[IoSlots - 1] /\ IoSlots - 1 \in IoPlaces
      BY <3>3, IoPathIs
    <3>5. Passed(EntryToken(f), u)
      BY <2>1, <2>2, <3>1, <3>2, HalfPassed, ArrivesPassed
    <3>6. mv[q] = IoSlots - 1
      BY <1>1, <2>4, IoMoveIs
    <3> QED
      BY <3>4, <3>5, <3>6
  <2>5. CASE ~InTaken(accepts)
    <3>1. m \in renamed'
      BY <2>5, RenamedAfter
    <3>2. Token(m) \in IoPath'[IoSlots] /\ IoSlots \in IoPlaces
      BY <2>1, <2>3, <3>1, IoPathIs, TokensIs
    <3>3. mv[q] = IoSlots
      BY <1>1, <2>5, IoMoveIs
    <3>4. Passed(Token(m), u)
      BY <2>1, <2>2, PassedTokens
    <3> QED
      BY <3>2, <3>3, <3>4
  <2> QED
    BY <2>4, <2>5
<1>2. CASE q \in Io!Idx
  <2>1. PICK e \in io_slots[q] : u = EntryToken(e)
    BY <1>2, IoPathIs
  <2>2. Keep(e, kill)
    BY <2>1, TokenIs
  <2>3. CASE q \in IoIssued(accepts)
    <3>1. PICK m \in Read(IoShown, IoIssued(accepts)) : Passed(m, EntryToken(e))
      BY <2>2, <2>3, IoReadIs
    <3>2. m \in io_dispatch'
      BY <3>1 DEF FlowStep, RegNext
    <3>3. Token(m) \in IoPath'[-1] /\ -1 \in IoPlaces
      BY <3>2, IoPathIs, TokensIs
    <3>4. mv[q] = -1
      BY <1>2, <2>3, IoMoveIs
    <3>5. Passed(Token(m), u)
      BY <2>1, <3>1, PassedTokens
    <3> QED
      BY <3>3, <3>4, <3>5
  <2>4. CASE q \notin IoIssued(accepts)
    <3>1. PICK f \in io_slots'[IoDest(accepts, q)] : Moved(f, e, Broadcast, kill.clear_mask)
      BY <1>2, <2>2, <2>4, IoQueue
    <3>2. IoDest(accepts, q) \in Io!Idx
      BY <1>2, IoQueue
    <3>3. EntryToken(f) \in IoPath'[IoDest(accepts, q)] /\ IoDest(accepts, q) \in IoPlaces
      BY <3>2, IoPathIs
    <3>4. Passed(EntryToken(f), u)
      BY <2>1, <3>1, PassedTokens
    <3>5. mv[q] = IoDest(accepts, q)
      BY <1>2, <2>4, IoMoveIs
    <3> QED
      BY <3>3, <3>4, <3>5
  <2> QED
    BY <2>3, <2>4
<1>3. CASE q = -1
  <2>1. PICK x \in io_dispatch : u = Token(x)
    BY <1>3, IoPathIs, TokensIs
  <2>2. PICK m \in IoOut : Passed(m, x)
    BY <2>1, OutIs, TokenIs
  <2>3. Passed(Token(m), u)
    BY <2>1, <2>2, PassedTokens
  <2>4. mv[q] = IoSend(accepts)
    BY <1>3, IoMoveIs
  <2>5. CASE ~IoTaken(accepts)
    <3>1. IoIssued(accepts) = {}
      BY <2>2, <2>5, IoIssuedIs DEF AddRdy
    <3>2. Read(IoShown, IoIssued(accepts)) = {}
      BY <3>1, IoReadIs
    <3>3. m \in io_dispatch'
      BY <2>2, <2>5, <3>2 DEF FlowStep, RegNext
    <3>4. Token(m) \in IoPath'[-1] /\ -1 \in IoPlaces
      BY <3>3, IoPathIs, TokensIs
    <3>5. IoSend(accepts) = -1
      BY <2>5 DEF IoSend, IoTaken
    <3> QED
      BY <2>3, <2>4, <3>4, <3>5
  <2>6. CASE MemIn(accepts) # {}
    <3>1. m \in MemIn(accepts) /\ IoSend(accepts) = -2
      BY <2>2, <2>6, OutIs, UnitInIs DEF IoSend
    <3>2. m \in units'["mem"]
      BY <3>1, UnitsAfter DEF RegNext
    <3>3. Token(m) \in IoPath'[-2] /\ -2 \in IoPlaces
      BY <3>2, IoPathIs, TokensIs
    <3> QED
      BY <2>3, <2>4, <3>1, <3>3
  <2> QED
    BY <2>5, <2>6 DEF IoTaken
<1>4. CASE q = -2
  <2>1. PICK x \in units["mem"] : u = Token(x)
    BY <1>4, IoPathIs, TokensIs
  <2>2. PICK m \in Shown["mem"] : Passed(m, x)
    BY <2>1, OutIs, TokenIs
  <2>3. mv[q] = (IF Granted(Shown) = "mem" THEN Gone ELSE -2)
    BY <1>4, IoMoveIs
  <2>4. CASE Granted(Shown) # "mem"
    <3>1. MemIn(accepts) = {}
      BY <2>2, <2>4, UnitInIs
    <3>2. m \in units'["mem"]
      BY <2>2, <2>4, <3>1, UnitsAfter DEF RegNext
    <3>3. Token(m) \in IoPath'[-2] /\ -2 \in IoPlaces
      BY <3>2, IoPathIs, TokensIs
    <3>4. Passed(Token(m), u)
      BY <2>1, <2>2, PassedTokens
    <3> QED
      BY <2>3, <2>4, <3>3, <3>4
  <2> QED
    BY <2>3, <2>4
<1> QED
  BY <1>1, <1>2, <1>3, <1>4, IoPathIs

(* So this path moves as it should, too.                                   *)
LEMMA IoFollows ==
  ASSUME TypeOK, NEW accepts, NEW added, FlowStep(accepts, added)
  PROVE  Follows(IoPath, IoPath', IoMove(accepts), IoSlots, Tokens({m \in added : m.unit \in {"load", "store"}}))
<1>1. DOMAIN IoPath = IoPlaces /\ DOMAIN IoPath' = IoPlaces /\ IoSlots \in IoPlaces
  BY IoPathIs
<1>2. Tokens({m \in added : m.unit \in {"load", "store"}}) \subseteq IoPath'[IoSlots]
  <2>1. \A m \in added : m \in renamed'
    BY RenamedAfter
  <2> QED
    BY <2>1, IoPathIs DEF Tokens
<1> QED
  BY <1>1, <1>2, IoFrom, IoTo DEF Follows

(* A message leaves its path when the part it stands for is done.          *)
RemovedOn(path, move, w) ==
  \A q \in DOMAIN path : \A t \in path[q] : Current(t) =>
    \A i \in DOMAIN window : window[i].seq = t.seq =>
      (move[q] = Gone <=> window[i].seq \in Done(PartName(w, window[i].unit)))

(* A number has one owner.                                                 *)
LEMMA OwnerIs ==
  ASSUME Typed, NEW path, NEW w, OwnedOn(path, w), NEW q \in DOMAIN path, NEW t \in path[q], Current(t),
         NEW i \in DOMAIN window, window[i].seq = t.seq
  PROVE  Owns(t, i) /\ Part(w, i)
<1>1. PICK j \in DOMAIN window : Owns(t, j) /\ Part(w, j)
  BY DEF OwnedOn
<1>2. window[j].seq = window[i].seq
  BY <1>1 DEF Owns
<1>3. i = j
  BY <1>2 DEF Typed, WindowOK
<1> QED
  BY <1>1, <1>3

(* What a unit shows is alive.                                             *)
LEMMA ShownToken ==
  ASSUME TypeOK, NEW u \in {"mem", "alu", "other"}, NEW m \in Shown[u]
  PROVE  \E x \in units[u] :
           /\ Token(x) \in Tokens(units[u]) /\ Current(Token(x))
           /\ Token(x).seq = m.seq /\ Token(x).unit = x.unit
<1>1. PICK x \in units[u] : Keep(x, kill) /\ Passed(m, x)
  BY OutIs
<1> QED
  BY <1>1, TokenIs, TokensIs DEF Passed, Current

(* What is alive in a unit is shown.                                       *)
LEMMA TokenShown ==
  ASSUME TypeOK, NEW u \in {"mem", "alu", "other"}, NEW t \in Tokens(units[u]), Current(t)
  PROVE  /\ \E m \in Shown[u] : m.seq = t.seq
         /\ \E x \in units[u] : t.unit = x.unit
<1>1. PICK x \in units[u] : t = Token(x)
  BY TokensIs
<1>2. Keep(x, kill) /\ t.seq = x.seq /\ t.unit = x.unit
  BY <1>1, TokenIs DEF Current
<1>3. \E m \in Shown[u] : Passed(m, x)
  BY <1>2, OutIs
<1> QED
  BY <1>2, <1>3 DEF Passed

(* The message dispatch shows is the one of its token.                     *)
LEMMA OutToken ==
  ASSUME TypeOK
  PROVE  /\ \A t \in Tokens(oo_dispatch) : Current(t) =>
              \E m \in OoOut : m.seq = t.seq /\ m.unit = t.unit
         /\ \A m \in OoOut : \E t \in Tokens(oo_dispatch) :
              Current(t) /\ m.seq = t.seq /\ m.unit = t.unit
<1>1. ASSUME NEW t \in Tokens(oo_dispatch), Current(t)
      PROVE  \E m \in OoOut : m.seq = t.seq /\ m.unit = t.unit
  <2>1. PICK x \in oo_dispatch : t = Token(x)
    BY TokensIs
  <2>2. Keep(x, kill) /\ t.seq = x.seq /\ t.unit = x.unit
    BY <1>1, <2>1, TokenIs DEF Current
  <2>3. \E m \in OoOut : Passed(m, x)
    BY <2>2, OutIs
  <2> QED
    BY <2>2, <2>3 DEF Passed
<1>2. ASSUME NEW m \in OoOut
      PROVE  \E t \in Tokens(oo_dispatch) : Current(t) /\ m.seq = t.seq /\ m.unit = t.unit
  <2>1. PICK x \in oo_dispatch : Keep(x, kill) /\ Passed(m, x)
    BY OutIs
  <2>2. Token(x) \in Tokens(oo_dispatch)
    BY TokensIs
  <2> QED
    BY <2>1, <2>2, TokenIs DEF Passed, Current
<1> QED
  BY <1>1, <1>2

(* A message leaves the out of order path when writeback takes its result, *)
(* or when its data goes to the memory flow.                               *)
LEMMA OoRemoved ==
  ASSUME Typed, Shapes, PathOK(OoPath, "oo"), PathOK(IoPath, "io"), NEW accepts,
         NEW added, FlowStep(accepts, added)
  PROVE  RemovedOn(OoPath, OoMove(accepts), "oo")
<1>0. TypeOK /\ OwnedOn(OoPath, "oo") /\ OwnedOn(IoPath, "io") /\ OnceOn(OoPath)
  BY DEF Typed, PathOK
<1> SUFFICES ASSUME NEW q \in OoPlaces, NEW t \in OoPath[q], Current(t),
                    NEW i \in DOMAIN window, window[i].seq = t.seq
             PROVE  OoMove(accepts)[q] = Gone <=>
                      window[i].seq \in Done(PartName("oo", window[i].unit))
  BY OoPathIs DEF RemovedOn
<1>1. Owns(t, i) /\ Part("oo", i)
  BY <1>0, OwnerIs, OoPathIs
<1>2. t.unit = window[i].unit /\ t.unit \in {"alu", "other", "store"}
  BY <1>1 DEF Owns, Part, Routed
<1>3. /\ -2 \in OoPlaces /\ -3 \in OoPlaces /\ -1 \in OoPlaces
      /\ OoPath[-1] = Tokens(oo_dispatch) /\ OoPath[-2] = Tokens(units["alu"])
      /\ OoPath[-3] = Tokens(units["other"]) /\ DOMAIN OoPath = OoPlaces
      /\ DOMAIN IoPath = IoPlaces /\ -2 \in IoPlaces /\ IoPath[-2] = Tokens(units["mem"])
  BY OoPathIs, IoPathIs
<1>4. OoMove(accepts)[q] = Gone <=>
        \/ q = -2 /\ Granted(Shown) = "alu"
        \/ q = -3 /\ Granted(Shown) = "other"
        \/ q = -1 /\ AluIn = {} /\ OtherIn(accepts) = {} /\ DataIn # {}
  <2>1. CASE q = OoSlots
    BY <2>1, OoMoveIs, OoPathIs, SchedulerAssumption DEF Gone
  <2>2. CASE q \in Oo!Idx
    <3>1. OoMove(accepts)[q] = -1 \/ OoMove(accepts)[q] = OoDest(accepts, q)
      BY <2>2, OoMoveIs
    <3>2. OoMove(accepts)[q] \in OoPlaces \/ OoMove(accepts)[q] = OoDest(accepts, q)
      BY <1>3, <3>1
    <3>3. OoDest(accepts, q) \in OoPlaces
      BY <1>0, <2>2, OoQueue, OoPathIs
    <3> QED
      BY <2>2, <3>2, <3>3, OoPathIs
  <2>3. CASE q = -1
    BY <2>3, OoMoveIs DEF OoSend, Gone
  <2>4. CASE q = -2
    BY <2>4, OoMoveIs DEF Gone
  <2>5. CASE q = -3
    BY <2>5, OoMoveIs DEF Gone
  <2> QED
    BY <2>1, <2>2, <2>3, <2>4, <2>5, OoPathIs
<1>5. \A x \in units["alu"] : x.unit = "alu"
  BY DEF Shapes
<1>6. \A x \in units["other"] : x.unit = "other"
  BY DEF Shapes
<1>7. q = -2 => t.unit = "alu" /\ \E m \in Shown["alu"] : m.seq = t.seq
  BY <1>0, <1>3, <1>5, TokenShown
<1>8. q = -3 => t.unit = "other" /\ \E m \in Shown["other"] : m.seq = t.seq
  BY <1>0, <1>3, <1>6, TokenShown
<1>9. q = -1 => \E m \in OoOut : m.seq = t.seq /\ m.unit = t.unit
  BY <1>0, <1>3, OutToken
<1>10. CASE t.unit # "store"
  <2>1. Done(PartName("oo", window[i].unit)) = Results
    BY <1>2, <1>10 DEF Done, PartName
  <2>2. ASSUME OoMove(accepts)[q] = Gone
        PROVE  window[i].seq \in Results
    <3>1. CASE q = -2 /\ Granted(Shown) = "alu"
      BY <1>7, <3>1 DEF Results
    <3>2. CASE q = -3 /\ Granted(Shown) = "other"
      BY <1>8, <3>2 DEF Results
    <3>3. CASE q = -1 /\ DataIn # {}
      BY <1>0, <1>9, <1>10, <3>3, UnitInIs
    <3> QED
      BY <1>4, <2>2, <3>1, <3>2, <3>3
  <2>3. ASSUME window[i].seq \in Results
        PROVE  OoMove(accepts)[q] = Gone
    <3>1. PICK m \in Shown[Granted(Shown)] : m.seq = t.seq
      BY <2>3 DEF Results
    <3>2. Granted(Shown) \in {"mem", "alu", "other"}
      BY <1>0, UnitInIs
    <3>3. PICK x \in units[Granted(Shown)] :
            /\ Token(x) \in Tokens(units[Granted(Shown)]) /\ Current(Token(x))
            /\ Token(x).seq = t.seq /\ Token(x).unit = x.unit
      BY <1>0, <3>1, <3>2, ShownToken
    <3>4. CASE Granted(Shown) = "alu"
      <4>1. q = -2
        BY <1>0, <1>3, <3>3, <3>4 DEF OnceOn
      <4> QED
        BY <1>4, <3>4, <4>1
    <3>5. CASE Granted(Shown) = "other"
      <4>1. q = -3
        BY <1>0, <1>3, <3>3, <3>5 DEF OnceOn
      <4> QED
        BY <1>4, <3>5, <4>1
    <3>6. CASE Granted(Shown) = "mem"
      <4>1. Part("io", i)
        BY <1>0, <1>3, <3>3, <3>6, OwnerIs
      <4> QED
        BY <1>2, <1>10, <4>1 DEF Part, Routed
    <3> QED
      BY <3>2, <3>4, <3>5, <3>6
  <2> QED
    BY <2>1, <2>2, <2>3
<1>11. CASE t.unit = "store"
  <2>1. Done(PartName("oo", window[i].unit)) = Datas
    BY <1>2, <1>11 DEF Done, PartName
  <2>2. ASSUME OoMove(accepts)[q] = Gone
        PROVE  window[i].seq \in Datas
    <3>1. q = -1 /\ DataIn # {}
      BY <1>4, <1>7, <1>8, <1>11, <2>2
    <3> QED
      BY <1>0, <1>9, <3>1, UnitInIs DEF Datas
  <2>3. ASSUME window[i].seq \in Datas
        PROVE  OoMove(accepts)[q] = Gone
    <3>1. PICK m \in DataIn : m.seq = t.seq
      BY <2>3 DEF Datas
    <3>2. m \in OoOut /\ AluIn = {} /\ OtherIn(accepts) = {}
      BY <1>0, <3>1, UnitInIs
    <3>3. PICK u \in Tokens(oo_dispatch) : Current(u) /\ u.seq = t.seq
      BY <1>0, <3>1, <3>2, OutToken
    <3>4. q = -1
      BY <1>0, <1>3, <3>3 DEF OnceOn
    <3> QED
      BY <1>4, <3>1, <3>2, <3>4
  <2> QED
    BY <2>1, <2>2, <2>3
<1> QED
  BY <1>10, <1>11

(* A message leaves the in order path when writeback takes its result.     *)
LEMMA IoRemoved ==
  ASSUME Typed, Shapes, PathOK(OoPath, "oo"), PathOK(IoPath, "io"), NEW accepts,
         NEW added, FlowStep(accepts, added)
  PROVE  RemovedOn(IoPath, IoMove(accepts), "io")
<1>0. TypeOK /\ OwnedOn(OoPath, "oo") /\ OwnedOn(IoPath, "io") /\ OnceOn(IoPath)
  BY DEF Typed, PathOK
<1> SUFFICES ASSUME NEW q \in IoPlaces, NEW t \in IoPath[q], Current(t),
                    NEW i \in DOMAIN window, window[i].seq = t.seq
             PROVE  IoMove(accepts)[q] = Gone <=>
                      window[i].seq \in Done(PartName("io", window[i].unit))
  BY IoPathIs DEF RemovedOn
<1>1. Owns(t, i) /\ Part("io", i)
  BY <1>0, OwnerIs, IoPathIs
<1>2. t.unit = window[i].unit /\ t.unit \in {"load", "store"}
  BY <1>1 DEF Owns, Part, Routed
<1>3. /\ -2 \in OoPlaces /\ -3 \in OoPlaces
      /\ OoPath[-2] = Tokens(units["alu"])
      /\ OoPath[-3] = Tokens(units["other"]) /\ DOMAIN OoPath = OoPlaces
      /\ DOMAIN IoPath = IoPlaces /\ -2 \in IoPlaces /\ IoPath[-2] = Tokens(units["mem"])
      /\ -1 \in IoPlaces
  BY OoPathIs, IoPathIs
<1>4. IoMove(accepts)[q] = Gone <=> q = -2 /\ Granted(Shown) = "mem"
  <2>1. CASE q = IoSlots
    BY <2>1, IoMoveIs, IoPathIs, SchedulerAssumption DEF Gone
  <2>2. CASE q \in Io!Idx
    <3>1. IoMove(accepts)[q] = -1 \/ IoMove(accepts)[q] = IoDest(accepts, q)
      BY <2>2, IoMoveIs
    <3>3. IoDest(accepts, q) \in IoPlaces
      BY <1>0, <2>2, IoQueue, IoPathIs
    <3> QED
      BY <1>3, <2>2, <3>1, <3>3, IoPathIs
  <2>3. CASE q = -1
    BY <2>3, IoMoveIs DEF IoSend, Gone
  <2>4. CASE q = -2
    BY <2>4, IoMoveIs DEF Gone
  <2> QED
    BY <2>1, <2>2, <2>3, <2>4, IoPathIs
<1>5. Done(PartName("io", window[i].unit)) = Results
  BY DEF Done, PartName
<1>6. ASSUME IoMove(accepts)[q] = Gone
      PROVE  window[i].seq \in Results
  <2>1. \E m \in Shown["mem"] : m.seq = t.seq
    BY <1>0, <1>3, <1>4, <1>6, TokenShown
  <2> QED
    BY <1>4, <1>6, <2>1 DEF Results
<1>7. ASSUME window[i].seq \in Results
      PROVE  IoMove(accepts)[q] = Gone
  <2>1. PICK m \in Shown[Granted(Shown)] : m.seq = t.seq
    BY <1>7 DEF Results
  <2>2. Granted(Shown) \in {"mem", "alu", "other"}
    BY <1>0, UnitInIs
  <2>3. PICK x \in units[Granted(Shown)] :
          /\ Token(x) \in Tokens(units[Granted(Shown)]) /\ Current(Token(x))
          /\ Token(x).seq = t.seq /\ Token(x).unit = x.unit
    BY <1>0, <2>1, <2>2, ShownToken
  <2>4. CASE Granted(Shown) = "mem"
    <3>1. q = -2
      BY <1>0, <1>3, <2>3, <2>4 DEF OnceOn
    <3> QED
      BY <1>4, <2>4, <3>1
  <2>5. CASE Granted(Shown) \in {"alu", "other"}
    <3>1. x.unit \in {"alu", "other"}
      BY <2>3, <2>5 DEF Shapes
    <3>2. Owns(Token(x), i)
      BY <1>0, <1>3, <2>3, <2>5, OwnerIs
    <3> QED
      BY <1>2, <2>3, <3>1, <3>2 DEF Owns
  <2> QED
    BY <2>2, <2>4, <2>5
<1> QED
  BY <1>5, <1>6, <1>7

------------------------------------------------------------------------------
(****************************************************************************)
(* The paths after a cycle: what stays has its entry still, and what is    *)
(* renamed has the new one.                                                *)
(****************************************************************************)

(* The tokens of what is renamed.                                          *)
Fresh(accepts, mispredict, offered, w) ==
  Tokens({m \in {Message(r, Unresolved(accepts, mispredict)) : r \in offered} : m.unit \in Routed(w)})

(* The tokens of what is renamed, field by field.                          *)
LEMMA FreshIs ==
  ASSUME Typed, NEW accepts, NEW mispredict, NEW offered \in Offers, NEW w
  PROVE  /\ \A t \in Fresh(accepts, mispredict, offered, w) : \E r \in offered :
              /\ t.seq = NewSeq /\ t.unit = r.op.unit /\ t.mask = Unresolved(accepts, mispredict)
              /\ t.rd = r.rd /\ t.faults = r.op.faults /\ r.op.unit \in Routed(w)
         /\ \A r \in offered : r.op.unit \in Routed(w) =>
              \E t \in Fresh(accepts, mispredict, offered, w) :
                t.seq = NewSeq /\ t.mask = Unresolved(accepts, mispredict)
<1> DEFINE msgs == {Message(r, Unresolved(accepts, mispredict)) : r \in offered}
           some == {m \in msgs : m.unit \in Routed(w)}
<1>1. Fresh(accepts, mispredict, offered, w) = Tokens(some)
  BY DEF Fresh
<1>2. ASSUME NEW t \in Tokens(some)
      PROVE  \E r \in offered :
              /\ t.seq = NewSeq /\ t.unit = r.op.unit /\ t.mask = Unresolved(accepts, mispredict)
              /\ t.rd = r.rd /\ t.faults = r.op.faults /\ r.op.unit \in Routed(w)
  <2>1. PICK m \in some : t = Token(m)
    BY TokensIs
  <2>2. PICK r \in offered : m = Message(r, Unresolved(accepts, mispredict))
    BY <2>1
  <2>3. /\ m.seq = NewSeq /\ m.unit = r.op.unit /\ m.mask = Unresolved(accepts, mispredict)
        /\ m.rd = r.rd /\ m.faults = r.op.faults
    BY <2>2 DEF Message
  <2>4. m.unit \in Routed(w)
    BY <2>1
  <2> QED
    BY <2>1, <2>3, <2>4, TokenIs
<1>3. ASSUME NEW r \in offered, r.op.unit \in Routed(w)
      PROVE  \E t \in Tokens(some) : t.seq = NewSeq /\ t.mask = Unresolved(accepts, mispredict)
  <2> DEFINE m == Message(r, Unresolved(accepts, mispredict))
  <2>1. m.seq = NewSeq /\ m.unit = r.op.unit /\ m.mask = Unresolved(accepts, mispredict)
    BY DEF Message
  <2>2. m \in some
    BY <1>3, <2>1
  <2> HIDE DEF m, some
  <2>3. Token(m) \in Tokens(some)
    BY <2>2, TokensIs
  <2> QED
    BY <2>1, <2>3, TokenIs
<1> QED
  BY <1>1, <1>2, <1>3

(* What a cycle does with the messages of a path.                          *)
Carries(old, new, move, top, w, accepts, mispredict, offered) ==
  /\ Follows(old, new, move, top, Fresh(accepts, mispredict, offered, w))
  /\ RemovedOn(old, move, w)

(* The owner of a message that stays, and its place after the cycle.       *)
LEMMA OwnerStays ==
  ASSUME Typed, NEW accepts, NEW mispredict, NEW retire, NEW offered,
         Turn(accepts, mispredict, retire, offered),
         NEW w \in {"oo", "io"}, NEW old, NEW move, OwnedOn(old, w), RemovedOn(old, move, w),
         NEW q \in DOMAIN old, NEW u \in old[q], Current(u), move[q] # Gone,
         NEW t, Passed(t, u), Keep(t, kill')
  PROVE  /\ ~Exception(retire)
         /\ \E k \in DOMAIN window :
              /\ Owns(u, k) /\ Part(w, k) /\ k > Skipped(retire) /\ k <= Cut(accepts, mispredict)
              /\ k - Skipped(retire) \in DOMAIN window'
              /\ Carried(k - Skipped(retire), k, accepts)
              /\ window'[k - Skipped(retire)].seq = t.seq
              /\ t.mask \ kill'.clear_mask = Older(k - Skipped(retire))'
              /\ PartName(w, window'[k - Skipped(retire)].unit) \in window'[k - Skipped(retire)].todo
<1>1. PICK k \in DOMAIN window : Owns(u, k) /\ Part(w, k)
  BY DEF OwnedOn
<1>2. t.seq = u.seq /\ t.mask = u.mask \ kill.clear_mask
  BY DEF Passed
<1>3. t.mask = Older(k) /\ window[k].seq = u.seq
  BY <1>1, <1>2 DEF Owns
<1>4. ~Exception(retire) /\ k <= Cut(accepts, mispredict)
  BY <1>3, KeepAfter
<1>5. window[k].seq \notin Done(PartName(w, window[k].unit))
  BY <1>3 DEF RemovedOn
<1>6. PartName(w, window[k].unit) \in window[k].todo /\ PartName(w, window[k].unit) \in Parts
  BY <1>1 DEF Part, PartName, Parts
<1>7. k \in Nat /\ k >= 1 /\ Cut(accepts, mispredict) \in Nat /\ Skipped(retire) \in {0, 1}
  BY TurnIs
<1>8. k > Skipped(retire)
  <2>1. CASE retire
    <3>1. window[1].todo = {}
      BY <2>1, TurnIs
    <3>2. k # 1
      BY <1>6, <3>1
    <3> QED
      BY <1>7, <3>2
  <2>2. CASE ~retire
    BY <1>7, <2>2, TurnIs
  <2> QED
    BY <2>1, <2>2
<1>9. k \in 1 .. Cut(accepts, mispredict)
  BY <1>4, <1>7
<1> DEFINE i == k - Skipped(retire)
<1>10. i \in DOMAIN window' /\ Carried(i, k, accepts)
  BY <1>4, <1>8, <1>9, StaysIn
<1>11. i + Skipped(retire) = k
  BY <1>7
<1> HIDE DEF i
<1>12. t.mask \ kill'.clear_mask = Older(i)'
  BY <1>3, <1>4, <1>10, <1>11, MaskAfter
<1>13. window'[i].seq = t.seq /\ window'[i].unit = window[k].unit
  BY <1>2, <1>3, <1>10 DEF Carried
<1>14. PartName(w, window'[i].unit) \in window'[i].todo
  BY <1>5, <1>6, <1>10, <1>13 DEF Carried
<1> QED
  BY <1>1, <1>4, <1>8, <1>10, <1>12, <1>13, <1>14 DEF i

(* Owns and Part after the cycle.                                          *)
OwnsNext(t, i) ==
  /\ window'[i].seq = t.seq /\ t.mask \ kill'.clear_mask = Older(i)'
  /\ window'[i].unit = t.unit /\ window'[i].rd = t.rd /\ (window'[i].faults <=> t.faults)

PartNext(w, i) ==
  window'[i].unit \in Routed(w) /\ PartName(w, window'[i].unit) \in window'[i].todo

(* The path is as it should be after the cycle.                            *)
PathNext(new, w) ==
  /\ \A p \in DOMAIN new : \A t \in new[p] :
       Keep(t, kill') => \E i \in DOMAIN window' : OwnsNext(t, i) /\ PartNext(w, i)
  /\ \A p, q \in DOMAIN new : \A t \in new[p], u \in new[q] :
       Keep(t, kill') /\ Keep(u, kill') /\ t.seq = u.seq => p = q
  /\ \A i \in DOMAIN window' : PartNext(w, i) =>
       \E p \in DOMAIN new : \E t \in new[p] : Keep(t, kill') /\ t.seq = window'[i].seq

(* The new message belongs to the new entry.                               *)
LEMMA FreshOwned ==
  ASSUME Typed, NEW accepts, NEW mispredict, NEW retire, NEW offered,
         Turn(accepts, mispredict, retire, offered), NEW w \in {"oo", "io"},
         NEW t \in Fresh(accepts, mispredict, offered, w)
  PROVE  /\ t.seq = NewSeq /\ offered # {}
         /\ \E i \in DOMAIN window' : i = Len(window') /\ OwnsNext(t, i) /\ PartNext(w, i)
<1>1. offered \in Offers
  BY DEF Turn, Calls
<1>2. PICK r \in offered :
        /\ t.seq = NewSeq /\ t.unit = r.op.unit /\ t.mask = Unresolved(accepts, mispredict)
        /\ t.rd = r.rd /\ t.faults = r.op.faults /\ r.op.unit \in Routed(w)
  BY <1>1, FreshIs
<1>3. offered = {r}
  BY <1>1, OfferIs
<1>4. PICK i \in DOMAIN window' :
        /\ i = Len(window') /\ Joins(i, r)
        /\ Unresolved(accepts, mispredict) \ kill'.clear_mask = Older(i)'
  BY <1>3, NewMask
<1>5. OwnsNext(t, i)
  BY <1>2, <1>4 DEF OwnsNext, Joins
<1>6. PartNext(w, i)
  <2>1. window'[i].unit = r.op.unit
    BY <1>4 DEF Joins
  <2>2. window'[i].todo = (IF r.op.unit = "store" THEN {"result", "data"} ELSE {"result"})
    BY <1>4 DEF Joins
  <2>3. PartName(w, r.op.unit) \in window'[i].todo
    BY <2>2 DEF PartName
  <2> QED
    BY <1>2, <2>1, <2>3 DEF PartNext
<1> QED
  BY <1>2, <1>4, <1>5, <1>6

(* A message after the cycle was there before it, or is new.               *)
LEMMA StaysOrFresh ==
  ASSUME Typed, NEW accepts, NEW mispredict, NEW retire, NEW offered,
         Turn(accepts, mispredict, retire, offered),
         NEW w \in {"oo", "io"}, NEW old, NEW new, NEW move, NEW top,
         Carries(old, new, move, top, w, accepts, mispredict, offered),
         NEW p \in DOMAIN new, NEW t \in new[p]
  PROVE  \/ \E q \in DOMAIN old : \E u \in old[q] :
              Current(u) /\ Passed(t, u) /\ move[q] = p /\ (Gone \notin DOMAIN new => move[q] # Gone)
         \/ p = top /\ t \in Fresh(accepts, mispredict, offered, w)
<1>1. CameFrom(old, move, t, p) \/ (p = top /\ t \in Fresh(accepts, mispredict, offered, w))
  BY DEF Carries, Follows
<1>2. ASSUME CameFrom(old, move, t, p)
      PROVE  \E q \in DOMAIN old : \E u \in old[q] :
              Current(u) /\ Passed(t, u) /\ move[q] = p /\ (Gone \notin DOMAIN new => move[q] # Gone)
  <2>1. PICK q \in DOMAIN old : \E u \in old[q] : Keep(u, kill) /\ Passed(t, u) /\ move[q] = p
    BY <1>2 DEF CameFrom
  <2> QED
    BY <2>1 DEF Current
<1> QED
  BY <1>1, <1>2

(* Every part that is not done has its message after the cycle.            *)
LEMMA PathAfter ==
  ASSUME Typed, NEW accepts, NEW mispredict, NEW retire, NEW offered,
         Turn(accepts, mispredict, retire, offered),
         NEW w \in {"oo", "io"}, NEW old, NEW new, NEW move, NEW top, PathOK(old, w),
         Carries(old, new, move, top, w, accepts, mispredict, offered), Gone \notin DOMAIN new
  PROVE  PathNext(new, w)
<1>0. OwnedOn(old, w) /\ OnceOn(old) /\ SomewhereOn(old, w) /\ RemovedOn(old, move, w)
  BY DEF PathOK, Carries
<1>1. ASSUME NEW p \in DOMAIN new, NEW t \in new[p], Keep(t, kill')
      PROVE  \E i \in DOMAIN window' : OwnsNext(t, i) /\ PartNext(w, i)
  <2>1. CASE t \in Fresh(accepts, mispredict, offered, w)
    BY <2>1, FreshOwned
  <2>2. ASSUME NEW q \in DOMAIN old, NEW u \in old[q], Current(u), Passed(t, u), move[q] # Gone
        PROVE  \E i \in DOMAIN window' : OwnsNext(t, i) /\ PartNext(w, i)
    <3>1. PICK k \in DOMAIN window :
              /\ Owns(u, k) /\ Part(w, k) /\ k > Skipped(retire) /\ k <= Cut(accepts, mispredict)
              /\ k - Skipped(retire) \in DOMAIN window'
              /\ Carried(k - Skipped(retire), k, accepts)
              /\ window'[k - Skipped(retire)].seq = t.seq
              /\ t.mask \ kill'.clear_mask = Older(k - Skipped(retire))'
              /\ PartName(w, window'[k - Skipped(retire)].unit) \in window'[k - Skipped(retire)].todo
      BY <1>0, <1>1, <2>2, OwnerStays
    <3> DEFINE i == k - Skipped(retire)
    <3>2. /\ i \in DOMAIN window' /\ Carried(i, k, accepts) /\ window'[i].seq = t.seq
          /\ t.mask \ kill'.clear_mask = Older(i)'
          /\ PartName(w, window'[i].unit) \in window'[i].todo
      BY <3>1
    <3> HIDE DEF i
    <3>3. OwnsNext(t, i)
      BY <2>2, <3>1, <3>2 DEF OwnsNext, Owns, Passed, Carried
    <3>4. PartNext(w, i)
      BY <3>1, <3>2 DEF PartNext, Part, Carried
    <3> QED
      BY <3>2, <3>3, <3>4
  <2> QED
    BY <2>1, <2>2, StaysOrFresh
<1>2. ASSUME NEW p \in DOMAIN new, NEW q \in DOMAIN new, NEW t \in new[p], NEW u \in new[q],
             Keep(t, kill'), Keep(u, kill'), t.seq = u.seq
      PROVE  p = q
  <2>1. ASSUME NEW x \in DOMAIN old, NEW v \in old[x], Current(v), offered # {}
        PROVE  v.seq # NewSeq
    <3>1. PICK k \in DOMAIN window : Owns(v, k)
      BY <1>0, <2>1 DEF OwnedOn
    <3>2. Len(window) # RobSize
      <4>1. PICK r \in offered : TRUE
        BY <2>1
      <4> QED
        BY <4>1, OfferIs DEF Turn, Calls
    <3> QED
      BY <3>1, <3>2, NewSeqFree DEF Owns
  <2>2. CASE t \in Fresh(accepts, mispredict, offered, w) /\ p = top
    <3>1. t.seq = NewSeq /\ offered # {}
      BY <2>2, FreshOwned
    <3>2. CASE u \in Fresh(accepts, mispredict, offered, w) /\ q = top
      BY <2>2, <3>2
    <3>3. ASSUME NEW x \in DOMAIN old, NEW v \in old[x], Current(v), Passed(u, v)
          PROVE  FALSE
      BY <1>2, <2>1, <3>1, <3>3 DEF Passed
    <3> QED
      BY <3>2, <3>3, StaysOrFresh
  <2>3. ASSUME NEW y \in DOMAIN old, NEW z \in old[y], Current(z), Passed(t, z), move[y] = p
        PROVE  p = q
    <3>1. CASE u \in Fresh(accepts, mispredict, offered, w) /\ q = top
      <4>1. u.seq = NewSeq /\ offered # {}
        BY <3>1, FreshOwned
      <4> QED
        BY <1>2, <2>1, <2>3, <4>1 DEF Passed
    <3>2. ASSUME NEW x \in DOMAIN old, NEW v \in old[x], Current(v), Passed(u, v), move[x] = q
          PROVE  p = q
      <4>1. z.seq = v.seq
        BY <1>2, <2>3, <3>2 DEF Passed
      <4>2. x = y
        BY <1>0, <2>3, <3>2, <4>1 DEF OnceOn
      <4> QED
        BY <2>3, <3>2, <4>2
    <3> QED
      BY <3>1, <3>2, StaysOrFresh
  <2> QED
    BY <2>2, <2>3, StaysOrFresh
<1>3. ASSUME NEW i \in DOMAIN window', PartNext(w, i)
      PROVE  \E p \in DOMAIN new : \E t \in new[p] : Keep(t, kill') /\ t.seq = window'[i].seq
  <2>1. ~Exception(retire)
    BY <1>3 DEF Turn, WindowStep
  <2>2. CASE i + Skipped(retire) <= Cut(accepts, mispredict)
    <3> DEFINE k == i + Skipped(retire)
    <3>1. Carried(i, k, accepts)
      BY <2>1, <2>2, EntryCarried
    <3>1a. k <= Cut(accepts, mispredict)
      BY <2>2
    <3> HIDE DEF k
    <3>2. k \in DOMAIN window /\ window'[i].unit = window[k].unit /\ window'[i].seq = window[k].seq
      BY <3>1 DEF Carried
    <3>3. PartName(w, window[k].unit) \in Parts
      BY DEF PartName, Parts
    <3>4. /\ PartName(w, window[k].unit) \in window[k].todo
          /\ window[k].seq \notin Done(PartName(w, window[k].unit))
      BY <1>3, <3>1, <3>2, <3>3 DEF PartNext, Carried
    <3>5. Part(w, k)
      BY <1>3, <3>2, <3>4 DEF Part, PartNext
    <3>6. PICK q \in DOMAIN old : \E u \in old[q] : Current(u) /\ u.seq = window[k].seq
      BY <1>0, <3>2, <3>5 DEF SomewhereOn
    <3>7. PICK u \in old[q] : Current(u) /\ u.seq = window[k].seq
      BY <3>6
    <3>8. Owns(u, k)
      BY <1>0, <3>2, <3>7, OwnerIs
    <3>9. move[q] # Gone
      BY <1>0, <3>2, <3>4, <3>7 DEF RemovedOn
    <3>10. move[q] \in DOMAIN new /\ \E t \in new[move[q]] : Passed(t, u)
      BY <3>7, <3>9 DEF Carries, Follows, Current
    <3>11. PICK t \in new[move[q]] : Passed(t, u)
      BY <3>10
    <3>12. t.mask = Older(k) /\ t.seq = window'[i].seq
      BY <3>2, <3>7, <3>8, <3>11 DEF Owns, Passed
    <3>13. Keep(t, kill')
      BY <2>1, <3>1a, <3>2, <3>12, KeepAfter
    <3> QED
      BY <3>10, <3>12, <3>13
  <2>3. CASE ~(i + Skipped(retire) <= Cut(accepts, mispredict))
    <3>1. PICK r \in Renamings : offered = {r} /\ Joins(i, r)
      BY <2>1, <2>3, EntryJoins
    <3>2. offered \in Offers /\ r \in offered
      BY <3>1 DEF Turn, Calls
    <3>3. r.op.unit \in Routed(w) /\ window'[i].seq = NewSeq
      BY <1>3, <3>1 DEF PartNext, Joins
    <3>4. PICK t \in Fresh(accepts, mispredict, offered, w) : t.seq = NewSeq
      BY <3>2, <3>3, FreshIs
    <3>5. top \in DOMAIN new /\ t \in new[top]
      BY <3>4 DEF Carries, Follows
    <3>6. Keep(t, kill')
      <4>1. ~kill'.force /\ kill'.kill_mask = {}
        BY <3>1, NewMask
      <4> QED
        BY <4>1 DEF Keep
    <3> QED
      BY <3>3, <3>4, <3>5, <3>6
  <2> QED
    BY <2>2, <2>3
<1> QED
  BY <1>1, <1>2, <1>3 DEF PathNext

(* The message of what is renamed.                                         *)
Renames(accepts, mispredict, offered) == {Message(r, Unresolved(accepts, mispredict)) : r \in offered}

(* One cycle, in the form the invariants are proved from.                  *)
Step(accepts, mispredict, retire, offered, freed) ==
  /\ Turn(accepts, mispredict, retire, offered)
  /\ TagsStep(accepts, mispredict, retire, offered, freed)
  /\ FlowStep(accepts, Renames(accepts, mispredict, offered))

(* That message, field by field.                                           *)
LEMMA MessageIs ==
  ASSUME Typed, NEW accepts, NEW mispredict, NEW retire, NEW offered,
         Turn(accepts, mispredict, retire, offered),
         NEW m \in Renames(accepts, mispredict, offered)
  PROVE  /\ m \in RenMsg /\ NeverFaults(m)
         /\ \E r \in offered :
              /\ offered = {r} /\ m = Message(r, Unresolved(accepts, mispredict))
              /\ m.seq = NewSeq /\ m.unit = r.op.unit /\ m.mask = Unresolved(accepts, mispredict)
              /\ m.rs1 = r.rs1 /\ m.rs2 = r.rs2 /\ m.rd = r.rd /\ m.faults = r.op.faults
<1>1. PICK r \in offered : m = Message(r, Unresolved(accepts, mispredict))
  BY DEF Renames
<1>2. /\ m.seq = NewSeq /\ m.unit = r.op.unit /\ m.mask = Unresolved(accepts, mispredict)
      /\ m.rs1 = r.rs1 /\ m.rs2 = r.rs2 /\ m.rd = r.rd /\ m.faults = r.op.faults
  BY <1>1 DEF Message
<1>3. /\ offered = {r} /\ Len(window) # RobSize
      /\ r.op.unit \in Units /\ r.op.faults \in BOOLEAN
      /\ (r.op.unit = "alu" => ~r.op.faults)
      /\ r.rs1 \subseteq Tags /\ r.rs2 \subseteq Tags /\ r.rd \subseteq Tags
  BY OfferIs DEF Turn, Calls
<1>4. NewSeq \in Seqs
  BY <1>3, NewSeqFree
<1>5. Unresolved(accepts, mispredict) \subseteq SnapshotIds
  BY UnresolvedIs
<1>6. m \in RenMsg
  BY <1>1, <1>3, <1>4, <1>5 DEF RenMsg, Message
<1> QED
  BY <1>1, <1>2, <1>3, <1>6 DEF NeverFaults

(* It is on the path that its unit says.                                   *)
LEMMA FreshRenamed ==
  ASSUME Typed, NEW accepts, NEW mispredict, NEW retire, NEW offered,
         Turn(accepts, mispredict, retire, offered)
  PROVE  /\ Fresh(accepts, mispredict, offered, "oo") =
              Tokens({m \in Renames(accepts, mispredict, offered) : m.unit # "load"})
         /\ Fresh(accepts, mispredict, offered, "io") =
              Tokens({m \in Renames(accepts, mispredict, offered) : m.unit \in {"load", "store"}})
<1>1. \A m \in Renames(accepts, mispredict, offered) : m.unit \in Units
  BY MessageIs DEF RenMsg
<1>2. {m \in Renames(accepts, mispredict, offered) : m.unit # "load"} =
      {m \in Renames(accepts, mispredict, offered) : m.unit \in Routed("oo")}
  BY <1>1 DEF Units, Routed
<1>3. {m \in Renames(accepts, mispredict, offered) : m.unit \in {"load", "store"}} =
      {m \in Renames(accepts, mispredict, offered) : m.unit \in Routed("io")}
  BY DEF Routed
<1> QED
  BY <1>2, <1>3 DEF Fresh, Renames

(* Both paths are as they should be after a cycle.                         *)
LEMMA PathsNext ==
  ASSUME Typed, Shapes, PathOK(OoPath, "oo"), PathOK(IoPath, "io"),
         NEW accepts, NEW mispredict, NEW retire, NEW offered, NEW freed,
         Step(accepts, mispredict, retire, offered, freed)
  PROVE  /\ Carries(OoPath, OoPath', OoMove(accepts), OoSlots, "oo", accepts, mispredict, offered)
         /\ Carries(IoPath, IoPath', IoMove(accepts), IoSlots, "io", accepts, mispredict, offered)
         /\ PathNext(OoPath', "oo") /\ PathNext(IoPath', "io")
<1>1. /\ TypeOK /\ Turn(accepts, mispredict, retire, offered)
      /\ FlowStep(accepts, Renames(accepts, mispredict, offered))
  BY DEF Step, Typed
<1>2. Carries(OoPath, OoPath', OoMove(accepts), OoSlots, "oo", accepts, mispredict, offered)
  <2>1. Follows(OoPath, OoPath', OoMove(accepts), OoSlots,
                Tokens({m \in Renames(accepts, mispredict, offered) : m.unit # "load"}))
    BY <1>1, OoFollows
  <2>2. Follows(OoPath, OoPath', OoMove(accepts), OoSlots, Fresh(accepts, mispredict, offered, "oo"))
    BY <1>1, <2>1, FreshRenamed
  <2>3. RemovedOn(OoPath, OoMove(accepts), "oo")
    BY <1>1, OoRemoved
  <2> QED
    BY <2>2, <2>3 DEF Carries
<1>3. Carries(IoPath, IoPath', IoMove(accepts), IoSlots, "io", accepts, mispredict, offered)
  <2>1. Follows(IoPath, IoPath', IoMove(accepts), IoSlots,
                Tokens({m \in Renames(accepts, mispredict, offered) : m.unit \in {"load", "store"}}))
    BY <1>1, IoFollows
  <2>2. Follows(IoPath, IoPath', IoMove(accepts), IoSlots, Fresh(accepts, mispredict, offered, "io"))
    BY <1>1, <2>1, FreshRenamed
  <2>3. RemovedOn(IoPath, IoMove(accepts), "io")
    BY <1>1, IoRemoved
  <2> QED
    BY <2>2, <2>3 DEF Carries
<1>4. Gone \notin DOMAIN OoPath' /\ Gone \notin DOMAIN IoPath'
  BY OoPathIs, IoPathIs
<1>5. PathNext(OoPath', "oo")
  BY <1>1, <1>2, <1>4, PathAfter
<1>6. PathNext(IoPath', "io")
  BY <1>1, <1>3, <1>4, PathAfter
<1> QED
  BY <1>2, <1>3, <1>5, <1>6

(* Every part of an instruction in flight stays with exactly one message.  *)
LEMMA PathsOK ==
  ASSUME Typed, Shapes, PathOK(OoPath, "oo"), PathOK(IoPath, "io"),
         NEW accepts, NEW mispredict, NEW retire, NEW offered, NEW freed,
         Step(accepts, mispredict, retire, offered, freed)
  PROVE  PathOK(OoPath, "oo")' /\ PathOK(IoPath, "io")'
<1>1. PathNext(OoPath', "oo") /\ PathNext(IoPath', "io")
  BY PathsNext
<1>2. PathOK(OoPath, "oo")'
  <2>1. OwnedOn(OoPath, "oo")'
    BY <1>1 DEF PathNext, OwnedOn, Current, Keep, OwnsNext, Owns, PartNext, Part
  <2>2. OnceOn(OoPath)'
    BY <1>1 DEF PathNext, OnceOn, Current, Keep
  <2>3. SomewhereOn(OoPath, "oo")'
    BY <1>1 DEF PathNext, SomewhereOn, Current, Keep, PartNext, Part
  <2> QED
    BY <2>1, <2>2, <2>3 DEF PathOK
<1>3. PathOK(IoPath, "io")'
  <2>1. OwnedOn(IoPath, "io")'
    BY <1>1 DEF PathNext, OwnedOn, Current, Keep, OwnsNext, Owns, PartNext, Part
  <2>2. OnceOn(IoPath)'
    BY <1>1 DEF PathNext, OnceOn, Current, Keep
  <2>3. SomewhereOn(IoPath, "io")'
    BY <1>1 DEF PathNext, SomewhereOn, Current, Keep, PartNext, Part
  <2> QED
    BY <2>1, <2>2, <2>3 DEF PathOK
<1> QED
  BY <1>2, <1>3

------------------------------------------------------------------------------
(****************************************************************************)
(* The window and its branches.                                            *)
(****************************************************************************)

(* The window keeps its type.                                              *)
LEMMA WindowTyped ==
  ASSUME Typed, NEW accepts, NEW mispredict, NEW retire, NEW offered,
         Turn(accepts, mispredict, retire, offered)
  PROVE  /\ window' \in Seq(Instr) /\ Len(window') <= RobSize
         /\ \A i \in DOMAIN window' : window'[i] \in Instr
<1>1. CASE Exception(retire)
  <2>1. window' = <<>>
    BY <1>1 DEF Turn, WindowStep
  <2> QED
    BY <2>1, SchedulerAssumption
<1>2. CASE ~Exception(retire)
  <2>1. /\ Len(window') = Grown(accepts, mispredict, offered) - Skipped(retire)
        /\ DOMAIN window' = 1 .. Len(window') /\ Len(window') \in Nat
        /\ \E T : window' \in Seq(T)
    BY <1>2, WindowNow
  <2>2. \A i \in DOMAIN window' : window'[i] \in Instr
    <3>1. ASSUME NEW i \in DOMAIN window'
          PROVE  window'[i] \in Instr
      <4>1. CASE i + Skipped(retire) <= Cut(accepts, mispredict)
        BY <1>2, <4>1, EntryCarried DEF Carried
      <4>2. CASE ~(i + Skipped(retire) <= Cut(accepts, mispredict))
        BY <1>2, <4>2, EntryJoins DEF Joins
      <4> QED
        BY <4>1, <4>2
    <3> QED
      BY <3>1
  <2>3. window' \in Seq(Instr)
    <3>1. PICK T : window' \in Seq(T)
      BY <2>1
    <3>2. window' = [i \in 1 .. Len(window') |-> window'[i]]
      BY <3>1
    <3> QED
      BY <2>1, <2>2, <3>2
  <2>4. Len(window') <= RobSize
    <3>1. /\ Cut(accepts, mispredict) \in Nat /\ Cut(accepts, mispredict) <= Len(window)
          /\ Len(window) \in Nat /\ Skipped(retire) \in {0, 1}
      BY TurnIs
    <3>2. Len(window) <= RobSize /\ RobSize \in Nat
      BY SchedulerAssumption DEF Typed, TypeOK
    <3>3. offered # {} => Len(window) # RobSize
      BY OfferIs DEF Turn, Calls
    <3> QED
      BY <2>1, <3>1, <3>2, <3>3 DEF Grown
  <2> QED
    BY <2>2, <2>3, <2>4
<1> QED
  BY <1>1, <1>2

(* A branch that is not resolved has no result yet.                        *)
LEMMA BranchNotDone ==
  ASSUME Typed, Shapes, PathOK(OoPath, "oo"), PathOK(IoPath, "io"), RunningResolved,
         NEW k \in DOMAIN window, window[k].spec # {}
  PROVE  window[k].unit = "other" /\ "result" \in window[k].todo /\ window[k].seq \notin Results
<1>1. window[k].unit = "other" /\ "result" \in window[k].todo
  BY DEF Typed, WindowOK
<1>2. SUFFICES ASSUME window[k].seq \in Results
               PROVE  FALSE
  BY <1>1
<1>3. PICK m \in Shown[Granted(Shown)] : m.seq = window[k].seq
  BY <1>2 DEF Results
<1>4. TypeOK /\ OwnedOn(OoPath, "oo") /\ OwnedOn(IoPath, "io")
  BY DEF Typed, PathOK
<1>5. Granted(Shown) \in {"mem", "alu", "other"}
  BY <1>4, UnitInIs
<1>6. PICK x \in units[Granted(Shown)] :
        /\ Token(x) \in Tokens(units[Granted(Shown)]) /\ Current(Token(x))
        /\ Token(x).seq = window[k].seq /\ Token(x).unit = x.unit
  BY <1>3, <1>4, <1>5, ShownToken
<1>7. CASE Granted(Shown) = "other"
  BY <1>6, <1>7, OoPathIs DEF RunningResolved
<1>8. CASE Granted(Shown) = "alu"
  <2>1. Token(x) \in OoPath[-2] /\ -2 \in DOMAIN OoPath
    BY <1>6, <1>8, OoPathIs
  <2>2. Owns(Token(x), k)
    BY <1>4, <1>6, <2>1, OwnerIs
  <2>3. x.unit = "alu"
    BY <1>8 DEF Shapes
  <2> QED
    BY <1>1, <1>6, <2>2, <2>3 DEF Owns
<1>9. CASE Granted(Shown) = "mem"
  <2>1. Token(x) \in IoPath[-2] /\ -2 \in DOMAIN IoPath
    BY <1>6, <1>9, IoPathIs
  <2>2. Part("io", k)
    BY <1>4, <1>6, <2>1, OwnerIs
  <2> QED
    BY <1>1, <2>2 DEF Part, Routed
<1> QED
  BY <1>5, <1>7, <1>8, <1>9

(* Nothing in the window is given twice after the cycle.                   *)
LEMMA WindowNext ==
  ASSUME Typed, Shapes, TagsOK, PathOK(OoPath, "oo"), PathOK(IoPath, "io"), RunningResolved,
         NEW accepts, NEW mispredict, NEW retire, NEW offered,
         Turn(accepts, mispredict, retire, offered)
  PROVE  WindowOK'
<1>1. CASE Exception(retire)
  <2>1. window' = <<>>
    BY <1>1 DEF Turn, WindowStep
  <2> QED
    BY <2>1 DEF WindowOK
<1>2. CASE ~Exception(retire)
  <2> DEFINE z == Skipped(retire)
             cut == Cut(accepts, mispredict)
  <2>1. z \in {0, 1} /\ cut \in Nat /\ Len(window') \in Nat /\ DOMAIN window' = 1 .. Len(window')
    BY <1>2, TurnIs, WindowNow
  <2>2. \A i \in DOMAIN window' : i + z <= cut => Carried(i, i + z, accepts)
    BY <1>2, EntryCarried
  <2>3. \A i \in DOMAIN window' : ~(i + z <= cut) =>
          i = Len(window') /\ \E r \in Renamings : offered = {r} /\ Joins(i, r)
    BY <1>2, EntryJoins
  <2> HIDE DEF z, cut
  <2>4. ASSUME NEW i \in DOMAIN window', NEW j \in DOMAIN window', i # j
        PROVE  /\ window'[i].seq # window'[j].seq
               /\ window'[i].spec \cap window'[j].spec = {}
               /\ window'[i].rd \cap window'[j].rd = {}
    <3>0. \A a, b \in DOMAIN window' : a # b /\ a + z <= cut /\ ~(b + z <= cut) =>
            /\ window'[a].seq # window'[b].seq
            /\ window'[a].spec \cap window'[b].spec = {}
            /\ window'[a].rd \cap window'[b].rd = {}
      <4> SUFFICES ASSUME NEW a \in DOMAIN window', NEW b \in DOMAIN window', a # b,
                          a + z <= cut, ~(b + z <= cut)
                   PROVE  /\ window'[a].seq # window'[b].seq
                          /\ window'[a].spec \cap window'[b].spec = {}
                          /\ window'[a].rd \cap window'[b].rd = {}
        OBVIOUS
      <4>1. Carried(a, a + z, accepts)
        BY <2>2
      <4>2. PICK r \in Renamings : offered = {r} /\ Joins(b, r)
        BY <2>3
      <4> DEFINE k == a + z
      <4>3. k \in DOMAIN window /\ window'[a].seq = window[k].seq /\ window'[a].rd = window[k].rd
            /\ window'[a].spec \subseteq window[k].spec
        BY <4>1 DEF Carried
      <4> HIDE DEF k
      <4>4. Len(window) # RobSize /\ r.rd \cap live = {} /\ r.spec \cap UsedIds = {}
        BY <4>2, OfferIs DEF Turn, Calls
      <4>5. window[k].seq # NewSeq
        BY <4>3, <4>4, NewSeqFree
      <4>6. window[k].rd \subseteq live
        BY <4>3 DEF TagsOK
      <4>7. window[k].spec \subseteq UsedIds
        BY <4>3 DEF UsedIds
      <4> QED
        BY <4>2, <4>3, <4>4, <4>5, <4>6, <4>7 DEF Joins
    <3>1. CASE i + z <= cut /\ j + z <= cut
      <4> DEFINE k == i + z
                 l == j + z
      <4>1. Carried(i, k, accepts) /\ Carried(j, l, accepts)
        BY <2>2, <3>1
      <4>2. k # l
        BY <2>1, <2>4
      <4> HIDE DEF k, l
      <4>3. /\ k \in DOMAIN window /\ window'[i].seq = window[k].seq /\ window'[i].rd = window[k].rd
            /\ window'[i].spec \subseteq window[k].spec
        BY <4>1 DEF Carried
      <4>4. /\ l \in DOMAIN window /\ window'[j].seq = window[l].seq /\ window'[j].rd = window[l].rd
            /\ window'[j].spec \subseteq window[l].spec
        BY <4>1 DEF Carried
      <4>5. /\ window[k].seq # window[l].seq /\ window[k].spec \cap window[l].spec = {}
            /\ window[k].rd \cap window[l].rd = {}
        BY <4>2, <4>3, <4>4 DEF Typed, WindowOK
      <4> QED
        BY <4>3, <4>4, <4>5
    <3>2. CASE i + z <= cut /\ ~(j + z <= cut)
      BY <2>4, <3>0, <3>2
    <3>3. CASE ~(i + z <= cut) /\ j + z <= cut
      BY <2>4, <3>0, <3>3
    <3>4. CASE ~(i + z <= cut) /\ ~(j + z <= cut)
      BY <2>3, <2>4, <3>4
    <3> QED
      BY <3>1, <3>2, <3>3, <3>4
  <2>5. ASSUME NEW i \in DOMAIN window', window'[i].spec # {}
        PROVE  window'[i].unit = "other" /\ "result" \in window'[i].todo
    <3>1. CASE i + z <= cut
      <4> DEFINE k == i + z
      <4>1. Carried(i, k, accepts)
        BY <2>2, <3>1
      <4> HIDE DEF k
      <4>2. k \in DOMAIN window /\ window[k].spec # {}
        BY <2>5, <4>1 DEF Carried
      <4>3. window[k].unit = "other" /\ "result" \in window[k].todo /\ window[k].seq \notin Results
        BY <4>2, BranchNotDone
      <4> QED
        BY <4>1, <4>3 DEF Carried, Parts, Done
    <3>2. CASE ~(i + z <= cut)
      <4>1. PICK r \in Renamings : offered = {r} /\ Joins(i, r)
        BY <2>3, <3>2
      <4>2. r.op.unit = "other"
        BY <2>5, <4>1, OfferIs DEF Turn, Calls, Joins
      <4> QED
        BY <4>1, <4>2 DEF Joins
    <3> QED
      BY <3>1, <3>2
  <2> QED
    BY <2>4, <2>5 DEF WindowOK
<1> QED
  BY <1>1, <1>2

(* A branch enters its unit when it is resolved.                           *)
LEMMA RunningNext ==
  ASSUME Typed, Shapes, TagsOK, PathOK(OoPath, "oo"), PathOK(IoPath, "io"), RunningResolved,
         NEW accepts, NEW mispredict, NEW retire, NEW offered, NEW freed,
         Step(accepts, mispredict, retire, offered, freed)
  PROVE  RunningResolved'
<1>1. /\ TypeOK /\ Turn(accepts, mispredict, retire, offered)
      /\ Carries(OoPath, OoPath', OoMove(accepts), OoSlots, "oo", accepts, mispredict, offered)
      /\ OwnedOn(OoPath, "oo") /\ RemovedOn(OoPath, OoMove(accepts), "oo")
  BY PathsNext DEF Step, Typed, PathOK, Carries
<1>2. WindowOK'
  BY <1>1, WindowNext
<1> SUFFICES ASSUME NEW t \in OoPath'[-3], Keep(t, kill'),
                    NEW i \in DOMAIN window', window'[i].seq = t.seq
             PROVE  window'[i].spec = {}
  BY DEF RunningResolved, Current, Keep
<1>3. -3 \in DOMAIN OoPath' /\ -3 # OoSlots /\ DOMAIN OoPath = OoPlaces
  BY OoPathIs
<1>4. PICK q \in DOMAIN OoPath : \E u \in OoPath[q] :
        Current(u) /\ Passed(t, u) /\ OoMove(accepts)[q] = -3
  BY <1>1, <1>3, StaysOrFresh
<1>5. PICK u \in OoPath[q] : Current(u) /\ Passed(t, u)
  BY <1>4
<1>6. OoMove(accepts)[q] # Gone
  BY <1>4 DEF Gone
<1>7. PICK k \in DOMAIN window :
        /\ Owns(u, k) /\ k - Skipped(retire) \in DOMAIN window'
        /\ Carried(k - Skipped(retire), k, accepts)
        /\ window'[k - Skipped(retire)].seq = t.seq
  BY <1>1, <1>4, <1>5, <1>6, OwnerStays
<1>8. i = k - Skipped(retire)
  BY <1>2, <1>7 DEF WindowOK
<1>9. window'[i].spec = IF k \in Res(accepts) THEN {} ELSE window[k].spec
  BY <1>7, <1>8 DEF Carried
<1>10. CASE q = -3
  BY <1>5, <1>7, <1>9, <1>10 DEF RunningResolved, Owns
<1>11. CASE q = -1
  <2>1. OtherIn(accepts) = OoOut
    <3>1. OtherIn(accepts) # {}
      BY <1>4, <1>11, OoMoveIs DEF OoSend, Gone
    <3> QED
      BY <1>1, <3>1, UnitInIs
  <2>2. PICK m \in OoOut : m.seq = u.seq
    BY <1>1, <1>5, <1>11, OutToken, OoPathIs
  <2>3. window[k].seq \in Resolved(accepts) \/ window[k].spec = {}
    BY <1>7, <2>1, <2>2 DEF Resolved, Owns
  <2>4. window[k].seq \in Resolved(accepts) <=> k \in Res(accepts)
    BY <1>1 DEF Turn, WindowStep, ResolvesOne
  <2> QED
    BY <1>9, <2>3, <2>4
<1>12. q \in {-1, -3}
  <2>1. CASE q = OoSlots
    BY <1>4, <2>1, OoMoveIs, OoPathIs, SchedulerAssumption
  <2>2. CASE q \in Oo!Idx
    <3>1. OoMove(accepts)[q] = -1 \/ OoMove(accepts)[q] = OoDest(accepts, q)
      BY <2>2, OoMoveIs
    <3>3. OoDest(accepts, q) \in Oo!Idx
      BY <1>1, <2>2, OoQueue DEF Step
    <3> QED
      BY <1>4, <2>2, <3>1, <3>3, OoPathIs
  <2>3. CASE q = -2
    BY <1>4, <2>3, OoMoveIs DEF Gone
  <2> QED
    BY <1>3, <2>1, <2>2, <2>3, OoPathIs
<1> QED
  BY <1>10, <1>11, <1>12

------------------------------------------------------------------------------
(****************************************************************************)
(* Types.                                                                  *)
(****************************************************************************)

(* The empty register.                                                     *)
LEMMA SingleEmpty == Single({})
BY DEF Single

(* A register after the cycle holds what it took in, or what it held.      *)
LEMMA RegHolds ==
  ASSUME NEW shown, NEW taken \in BOOLEAN, NEW added, NEW S, shown \subseteq S, added \subseteq S,
         Single(shown), Single(added)
  PROVE  /\ RegNext(shown, taken, added) \subseteq S /\ Single(RegNext(shown, taken, added))
         /\ \A m \in RegNext(shown, taken, added) : m \in shown \/ m \in added
BY SingleEmpty DEF RegNext

(* What dispatch reads has the unit of an entry that was queued.           *)
LEMMA OutUnits ==
  ASSUME TypeOK, Shapes, NEW accepts
  PROVE  /\ \A m \in OoOut : m.unit # "load" /\ NeverFaults(m)
         /\ \A m \in IoOut : m.unit \in {"load", "store"}
         /\ \A m \in Read(OoShown, OoIssued(accepts)) : m.unit # "load" /\ NeverFaults(m)
         /\ \A m \in Read(IoShown, IoIssued(accepts)) : m.unit \in {"load", "store"}
<1>1. \A m \in OoOut : m.unit # "load" /\ NeverFaults(m)
  BY OutIs DEF Shapes, Passed, NeverFaults
<1>2. \A m \in IoOut : m.unit \in {"load", "store"}
  BY OutIs DEF Shapes, Passed
<1>3. \A m, e : Passed(m, EntryToken(e)) => m.unit = e.op.unit /\ (m.faults <=> e.op.faults)
  BY TokenIs DEF Passed
<1>4. ASSUME NEW m \in Read(OoShown, OoIssued(accepts))
      PROVE  m.unit # "load" /\ NeverFaults(m)
  <2>1. PICK k \in OoIssued(accepts) : \E e \in oo_slots[k] : Dispatches(m, e)
    BY OoReadIs
  <2>2. PICK e \in oo_slots[k] : Dispatches(m, e)
    BY <2>1
  <2>3. e.op.unit # "load" /\ NeverFaults(e.op)
    BY OoIssuedIs DEF Shapes
  <2> QED
    BY <1>3, <2>2, <2>3 DEF Dispatches, NeverFaults
<1>5. ASSUME NEW m \in Read(IoShown, IoIssued(accepts))
      PROVE  m.unit \in {"load", "store"}
  <2>1. PICK k \in IoIssued(accepts) : \E e \in io_slots[k] : Dispatches(m, e)
    BY IoReadIs
  <2>2. PICK e \in io_slots[k] : Dispatches(m, e)
    BY <2>1
  <2>3. e.op.unit \in {"load", "store"}
    BY IoIssuedIs DEF Shapes
  <2> QED
    BY <1>3, <2>2, <2>3 DEF Dispatches
<1> QED
  BY <1>1, <1>2, <1>4, <1>5

(* The units keep their types.                                             *)
LEMMA UnitsTyped ==
  ASSUME TypeOK, Shapes, NEW accepts, NEW added, FlowStep(accepts, added)
  PROVE  /\ DOMAIN units' = {"mem", "alu", "other"}
         /\ \A u \in {"mem", "alu", "other"} : units'[u] \subseteq DisMsg /\ Single(units'[u])
         /\ \A m \in units'["alu"] : m.unit = "alu" /\ ~m.faults
         /\ \A m \in units'["other"] : m.unit = "other"
         /\ \A m \in units'["mem"] : m.unit \in {"load", "store"}
<1>1. /\ OoOut \subseteq DisMsg /\ Single(OoOut) /\ IoOut \subseteq DisMsg /\ Single(IoOut)
      /\ \A u \in {"mem", "alu", "other"} : Shown[u] \subseteq DisMsg /\ Single(Shown[u])
  BY OutIs
<1>2. /\ AluIn \subseteq DisMsg /\ Single(AluIn) /\ OtherIn(accepts) \subseteq DisMsg
      /\ Single(OtherIn(accepts)) /\ MemIn(accepts) \subseteq DisMsg /\ Single(MemIn(accepts))
  <2>1. AluIn \subseteq OoOut /\ OtherIn(accepts) \subseteq OoOut /\ MemIn(accepts) \subseteq IoOut
    BY UnitInIs
  <2> QED
    BY <1>1, <2>1 DEF Single
<1>3. \A u \in {"mem", "alu", "other"} :
        UnitIn(accepts, u) \subseteq DisMsg /\ Single(UnitIn(accepts, u))
  BY <1>2, UnitsAfter
<1>4. \A u \in {"mem", "alu", "other"} :
        units'[u] = RegNext(Shown[u], u = Granted(Shown), UnitIn(accepts, u))
  BY UnitsAfter
<1>5. ASSUME NEW u \in {"mem", "alu", "other"}
      PROVE  /\ units'[u] \subseteq DisMsg /\ Single(units'[u])
             /\ \A m \in units'[u] : m \in Shown[u] \/ m \in UnitIn(accepts, u)
  <2> DEFINE taken == u = Granted(Shown)
  <2>1. taken \in BOOLEAN
    OBVIOUS
  <2>2. units'[u] = RegNext(Shown[u], taken, UnitIn(accepts, u))
    BY <1>4
  <2> HIDE DEF taken
  <2>3. /\ Shown[u] \subseteq DisMsg /\ Single(Shown[u])
        /\ UnitIn(accepts, u) \subseteq DisMsg /\ Single(UnitIn(accepts, u))
    BY <1>1, <1>3
  <2> QED
    BY <2>1, <2>2, <2>3, RegHolds
<1>6. \A u \in {"mem", "alu", "other"} : \A m \in Shown[u] :
        \E x \in units[u] : m.unit = x.unit /\ (m.faults <=> x.faults)
  BY OutIs DEF Passed
<1>7. \A m \in units'["alu"] : m.unit = "alu" /\ ~m.faults
  <2>1. \A m \in Shown["alu"] : m.unit = "alu" /\ ~m.faults
    BY <1>6 DEF Shapes
  <2>2. \A m \in AluIn : m.unit = "alu" /\ ~m.faults
    BY UnitInIs, OutUnits DEF NeverFaults
  <2>3. UnitIn(accepts, "alu") = AluIn
    BY UnitsAfter
  <2> QED
    BY <1>5, <2>1, <2>2, <2>3
<1>8. \A m \in units'["other"] : m.unit = "other"
  <2>1. \A m \in Shown["other"] : m.unit = "other"
    BY <1>6 DEF Shapes
  <2>2. \A m \in OtherIn(accepts) : m.unit = "other"
    BY <1>2, UnitInIs, OutUnits DEF DisMsg, Units
  <2>3. UnitIn(accepts, "other") = OtherIn(accepts)
    BY UnitsAfter
  <2> QED
    BY <1>5, <2>1, <2>2, <2>3
<1>9. \A m \in units'["mem"] : m.unit \in {"load", "store"}
  <2>1. \A m \in Shown["mem"] : m.unit \in {"load", "store"}
    BY <1>6 DEF Shapes
  <2>2. \A m \in MemIn(accepts) : m.unit \in {"load", "store"}
    BY UnitInIs, OutUnits
  <2>3. UnitIn(accepts, "mem") = MemIn(accepts)
    BY UnitsAfter
  <2> QED
    BY <1>5, <2>1, <2>2, <2>3
<1> QED
  BY <1>5, <1>7, <1>8, <1>9, UnitsAfter

(* The registers keep their types.                                         *)
LEMMA RegistersTyped ==
  ASSUME TypeOK, Shapes, NEW accepts, NEW mispredict, NEW retire, NEW offered, NEW freed, Typed,
         Step(accepts, mispredict, retire, offered, freed)
  PROVE  /\ renamed' \subseteq RenMsg /\ Single(renamed)'
         /\ oo_dispatch' \subseteq DisMsg /\ Single(oo_dispatch)'
         /\ io_dispatch' \subseteq DisMsg /\ Single(io_dispatch)'
         /\ \A m \in oo_dispatch' : m.unit # "load" /\ NeverFaults(m)
         /\ \A m \in io_dispatch' : m.unit \in {"load", "store"}
         /\ \A m \in renamed' : NeverFaults(m)
<1> DEFINE added == Renames(accepts, mispredict, offered)
<1>1. FlowStep(accepts, added) /\ Turn(accepts, mispredict, retire, offered)
  BY DEF Step
<1>2. \A m \in added : m \in RenMsg /\ NeverFaults(m)
  BY <1>1, MessageIs
<1>3. Single(added)
  <2>1. \A m, n \in added : m = n
    BY <1>1, MessageIs
  <2> QED
    BY <2>1 DEF Single
<1> HIDE DEF added
<1>4. RenameOut \subseteq RenMsg /\ Single(RenameOut) /\ \A m \in RenameOut : NeverFaults(m)
  BY PeekRen DEF Shapes, Passed, NeverFaults
<1>5. renamed' = RegNext(RenameOut, InTaken(accepts), added)
  BY <1>1 DEF FlowStep
<1>6. /\ renamed' \subseteq RenMsg /\ Single(renamed')
      /\ \A m \in renamed' : NeverFaults(m)
  BY <1>2, <1>3, <1>4, <1>5, RegHolds DEF InTaken, InTake
<1>7. /\ OoOut \subseteq DisMsg /\ Single(OoOut) /\ IoOut \subseteq DisMsg /\ Single(IoOut)
  BY OutIs
<1>8. /\ Single(Read(OoShown, OoIssued(accepts))) /\ Read(OoShown, OoIssued(accepts)) \subseteq DisMsg
      /\ Single(Read(IoShown, IoIssued(accepts))) /\ Read(IoShown, IoIssued(accepts)) \subseteq DisMsg
  BY OoReadIs, IoReadIs
<1>9. /\ oo_dispatch' = RegNext(OoOut, OoTaken(accepts), Read(OoShown, OoIssued(accepts)))
      /\ io_dispatch' = RegNext(IoOut, IoTaken(accepts), Read(IoShown, IoIssued(accepts)))
  BY <1>1 DEF FlowStep
<1>10. OoTaken(accepts) \in BOOLEAN /\ IoTaken(accepts) \in BOOLEAN
  BY DEF OoTaken, IoTaken
<1>11. /\ oo_dispatch' \subseteq DisMsg /\ Single(oo_dispatch')
       /\ \A m \in oo_dispatch' : m \in OoOut \/ m \in Read(OoShown, OoIssued(accepts))
  BY <1>7, <1>8, <1>9, <1>10, RegHolds
<1>12. /\ io_dispatch' \subseteq DisMsg /\ Single(io_dispatch')
       /\ \A m \in io_dispatch' : m \in IoOut \/ m \in Read(IoShown, IoIssued(accepts))
  BY <1>7, <1>8, <1>9, <1>10, RegHolds
<1> QED
  BY <1>6, <1>11, <1>12, OutUnits DEF Single

(* Only stores are ordered, and only in the memory queue.                  *)
LEMMA QueuesShaped ==
  ASSUME TypeOK, Shapes, NEW accepts, NEW added, FlowStep(accepts, added)
  PROVE  /\ \A p \in Oo!Idx : \A f \in oo_slots'[p] :
              f.op.unit # "load" /\ NeverFaults(f.op) /\ ~f.ordered
         /\ \A p \in Io!Idx : \A f \in io_slots'[p] :
              f.op.unit \in {"load", "store"} /\ (f.ordered <=> f.op.unit = "store")
<1>1. ASSUME NEW p \in Oo!Idx, NEW f \in oo_slots'[p]
      PROVE  f.op.unit # "load" /\ NeverFaults(f.op) /\ ~f.ordered
  <2>1. \/ \E k \in Oo!Idx : \E e \in oo_slots[k] : Moved(f, e, Broadcast, kill.clear_mask)
        \/ \E a \in OoAdded(accepts) : Arrives(f, a, FALSE)
    BY OoQueue
  <2>2. ASSUME NEW k \in Oo!Idx, NEW e \in oo_slots[k], Moved(f, e, Broadcast, kill.clear_mask)
        PROVE  f.op.unit # "load" /\ NeverFaults(f.op) /\ ~f.ordered
    BY <2>2 DEF Shapes, Moved
  <2>3. ASSUME NEW a \in OoAdded(accepts), Arrives(f, a, FALSE)
        PROVE  f.op.unit # "load" /\ NeverFaults(f.op) /\ ~f.ordered
    <3>1. PICK m \in RenameOut : Half(a, m) /\ m.unit # "load"
      BY AddedIs
    <3>2. NeverFaults(m)
      BY PeekRen DEF Shapes, Passed, NeverFaults
    <3>3. f.op.unit = a.unit /\ f.op.faults = a.faults /\ ~f.ordered
      BY <2>3 DEF Arrives
    <3> QED
      BY <3>1, <3>2, <3>3 DEF Half, NeverFaults
  <2> QED
    BY <2>1, <2>2, <2>3
<1>2. ASSUME NEW p \in Io!Idx, NEW f \in io_slots'[p]
      PROVE  f.op.unit \in {"load", "store"} /\ (f.ordered <=> f.op.unit = "store")
  <2>1. \/ \E k \in Io!Idx : \E e \in io_slots[k] : Moved(f, e, Broadcast, kill.clear_mask)
        \/ \E a \in IoAdded(accepts) : Arrives(f, a, (a.unit = "store"))
    BY IoQueue
  <2>2. ASSUME NEW k \in Io!Idx, NEW e \in io_slots[k], Moved(f, e, Broadcast, kill.clear_mask)
        PROVE  f.op.unit \in {"load", "store"} /\ (f.ordered <=> f.op.unit = "store")
    BY <2>2 DEF Shapes, Moved
  <2>3. ASSUME NEW a \in IoAdded(accepts), Arrives(f, a, (a.unit = "store"))
        PROVE  f.op.unit \in {"load", "store"} /\ (f.ordered <=> f.op.unit = "store")
    <3>1. PICK m \in RenameOut : Half(a, m) /\ m.unit \in {"load", "store"}
      BY AddedIs
    <3>3. f.op.unit = a.unit /\ (f.ordered <=> a.unit = "store")
      BY <2>3 DEF Arrives
    <3> QED
      BY <3>1, <3>3 DEF Half
  <2> QED
    BY <2>1, <2>2, <2>3
<1> QED
  BY <1>1, <1>2

(* What writeback writes.                                                  *)
LEMMA WrittenIs ==
  ASSUME TypeOK
  PROVE  /\ Written(Shown) \subseteq Tags
         /\ \A t : t \in Written(Shown) <=>
              \E m \in Shown[Granted(Shown)] : ~m.faults /\ t \in m.rd
<1>1. \A t : t \in Written(Shown) <=> \E m \in Shown[Granted(Shown)] : ~m.faults /\ t \in m.rd
  BY DEF Written
<1>2. Granted(Shown) \in {"mem", "alu", "other"}
  BY UnitInIs
<1>3. \A m \in Shown[Granted(Shown)] : m.rd \subseteq Tags
  BY <1>2, OutIs DEF DisMsg
<1> QED
  BY <1>1, <1>3

(* The types are kept.                                                     *)
LEMMA TypeNext ==
  ASSUME Typed, Shapes, NEW accepts, NEW mispredict, NEW retire, NEW offered, NEW freed,
         Step(accepts, mispredict, retire, offered, freed)
  PROVE  TypeOK' /\ Shapes'
<1> DEFINE added == Renames(accepts, mispredict, offered)
<1>1. TypeOK /\ FlowStep(accepts, added) /\ Turn(accepts, mispredict, retire, offered)
  BY DEF Step, Typed
<1>2. ready_table' \subseteq Tags
  <2>1. ready_table' = (ready_table \cup Written(Shown)) \ UNION {m.rd : m \in added}
    BY <1>1 DEF FlowStep
  <2> QED
    BY <1>1, <2>1, WrittenIs DEF TypeOK
<1>3. live' \subseteq Tags
  <2>1. \A r \in offered : r.rd \subseteq Tags
    BY <1>1, OfferIs DEF Turn, Calls
  <2>2. \A t \in live' : t \in live \/ \E r \in offered : t \in r.rd
    BY DEF Step, TagsStep
  <2> QED
    BY <1>1, <2>1, <2>2 DEF TypeOK
<1>4. kill' \in [force : BOOLEAN, kill_mask : SUBSET SnapshotIds, clear_mask : SUBSET SnapshotIds]
  <2>1. kill' = [force |-> kill'.force, kill_mask |-> kill'.kill_mask, clear_mask |-> kill'.clear_mask]
    BY <1>1 DEF Turn, WindowStep
  <2>2. Exception(retire) \in BOOLEAN
    BY DEF Exception
  <2>3. kill'.force \in BOOLEAN /\ kill'.kill_mask \subseteq SnapshotIds
    BY <1>1, <2>2, KillIs
  <2>4. kill'.clear_mask \subseteq SnapshotIds
    <3>1. \A i \in DOMAIN window : window[i].spec \subseteq SnapshotIds
      BY <1>1 DEF TypeOK, Instr, Optional
    <3>2. Res(accepts) \subseteq DOMAIN window
      BY DEF Res, InWindow
    <3>3. kill'.clear_mask = IF Missed(accepts, mispredict) # {} THEN {}
                             ELSE UNION {window[i].spec : i \in Res(accepts)}
      BY <1>1, KillIs
    <3> QED
      BY <3>1, <3>2, <3>3
  <2> QED
    BY <2>1, <2>3, <2>4
<1>5. /\ renamed' \subseteq RenMsg /\ Single(renamed)'
      /\ oo_dispatch' \subseteq DisMsg /\ Single(oo_dispatch)'
      /\ io_dispatch' \subseteq DisMsg /\ Single(io_dispatch)'
      /\ \A m \in oo_dispatch' : m.unit # "load" /\ NeverFaults(m)
      /\ \A m \in io_dispatch' : m.unit \in {"load", "store"}
      /\ \A m \in renamed' : NeverFaults(m)
  BY <1>1, RegistersTyped
<1>6. /\ DOMAIN units' = {"mem", "alu", "other"}
      /\ \A u \in {"mem", "alu", "other"} : units'[u] \subseteq DisMsg /\ Single(units'[u])
      /\ \A m \in units'["alu"] : m.unit = "alu" /\ ~m.faults
      /\ \A m \in units'["other"] : m.unit = "other"
      /\ \A m \in units'["mem"] : m.unit \in {"load", "store"}
  BY <1>1, UnitsTyped
<1>7. Oo!TypeOK' /\ Io!TypeOK'
  BY <1>1, OoQueue, IoQueue
<1>8. (\A i \in DOMAIN window' : window'[i] \in Instr) /\ Len(window') <= RobSize
  BY <1>1, WindowTyped
<1>9. /\ \A p \in Oo!Idx : \A f \in oo_slots'[p] :
           f.op.unit # "load" /\ NeverFaults(f.op) /\ ~f.ordered
      /\ \A p \in Io!Idx : \A f \in io_slots'[p] :
           f.op.unit \in {"load", "store"} /\ (f.ordered <=> f.op.unit = "store")
  BY <1>1, QueuesShaped
<1> HIDE DEF added
<1>10. TypeOK'
  <2>1. \A u \in {"mem", "alu", "other"} : units'[u] \subseteq DisMsg /\ Single(units[u])'
    BY <1>6 DEF Single
  <2>2. (\A i \in DOMAIN window : window[i] \in Instr)' /\ (Len(window) <= RobSize)'
    BY <1>8
  <2> QED
    BY <1>2, <1>3, <1>4, <1>5, <1>6, <1>7, <2>1, <2>2 DEF TypeOK
<1>11. Shapes'
  <2>1. Oo!Idx' = Oo!Idx /\ Io!Idx' = Io!Idx
    BY OoSame, IoSame DEF Oo!Idx, Io!Idx
  <2> QED
    BY <1>5, <1>6, <1>9, <2>1 DEF Shapes, NeverFaults
<1> QED
  BY <1>10, <1>11

(* So are the parts that the window needs.                                 *)
LEMMA TypedNext ==
  ASSUME Typed, Shapes, TagsOK, PathOK(OoPath, "oo"), PathOK(IoPath, "io"), RunningResolved,
         NEW accepts, NEW mispredict, NEW retire, NEW offered, NEW freed,
         Step(accepts, mispredict, retire, offered, freed)
  PROVE  Typed' /\ Shapes'
<1>1. Turn(accepts, mispredict, retire, offered)
  BY DEF Step
<1> QED
  BY <1>1, TypeNext, WindowNext, WindowTyped DEF Typed

------------------------------------------------------------------------------
(****************************************************************************)
(* Operands.  What waits in a queue came from the queue or from rename,    *)
(* and its sources are those of its entry.                                 *)
(****************************************************************************)

(* What the invariant says before a cycle, and what is known of the cycle. *)
Before ==
  /\ Typed /\ TypeOK /\ Shapes /\ WindowOK /\ TagsOK
  /\ PathOK(OoPath, "oo") /\ PathOK(IoPath, "io")
  /\ RunningResolved

(* What the steps above say of a cycle.                                    *)
LEMMA StepIs ==
  ASSUME Before, NEW accepts, NEW mispredict, NEW retire, NEW offered, NEW freed,
         Step(accepts, mispredict, retire, offered, freed)
  PROVE  /\ Turn(accepts, mispredict, retire, offered) /\ WindowOK'
         /\ FlowStep(accepts, Renames(accepts, mispredict, offered))
         /\ TagsStep(accepts, mispredict, retire, offered, freed)
         /\ RemovedOn(OoPath, OoMove(accepts), "oo") /\ RemovedOn(IoPath, IoMove(accepts), "io")
         /\ OwnedOn(OoPath, "oo") /\ OwnedOn(IoPath, "io")
BY PathsNext, WindowNext DEF Before, Step, Carries, PathOK

(* The i-th entry after the cycle is the k-th before it, and was not cut   *)
(* off.                                                                    *)
Same(i, k, accepts, mispredict, retire) ==
  /\ ~Exception(retire) /\ k \in DOMAIN window /\ k > Skipped(retire)
  /\ k <= Cut(accepts, mispredict) /\ i = k - Skipped(retire) /\ Carried(i, k, accepts)

(* The entry of a message that stays on its way.                           *)
LEMMA Tracked ==
  ASSUME Before, NEW accepts, NEW mispredict, NEW retire, NEW offered, NEW freed,
         Step(accepts, mispredict, retire, offered, freed),
         NEW w \in {"oo", "io"}, NEW old, NEW move, OwnedOn(old, w), RemovedOn(old, move, w),
         NEW q \in DOMAIN old, NEW u \in old[q], Current(u), move[q] # Gone,
         NEW t, Passed(t, u), Keep(t, kill')
  PROVE  \E k \in DOMAIN window, i \in DOMAIN window' :
           /\ Owns(u, k) /\ Same(i, k, accepts, mispredict, retire)
           /\ \A j \in DOMAIN window' : window'[j].seq = t.seq <=> i = j
<1>1. Turn(accepts, mispredict, retire, offered) /\ WindowOK' /\ Typed
  BY StepIs DEF Before
<1>2. /\ ~Exception(retire)
      /\ \E k \in DOMAIN window :
           /\ Owns(u, k) /\ k > Skipped(retire) /\ k <= Cut(accepts, mispredict)
           /\ k - Skipped(retire) \in DOMAIN window'
           /\ Carried(k - Skipped(retire), k, accepts)
           /\ window'[k - Skipped(retire)].seq = t.seq
  BY <1>1, OwnerStays
<1>3. PICK k \in DOMAIN window :
           /\ Owns(u, k) /\ k > Skipped(retire) /\ k <= Cut(accepts, mispredict)
           /\ k - Skipped(retire) \in DOMAIN window'
           /\ Carried(k - Skipped(retire), k, accepts)
           /\ window'[k - Skipped(retire)].seq = t.seq
  BY <1>2
<1> DEFINE i == k - Skipped(retire)
<1>4. Same(i, k, accepts, mispredict, retire)
  BY <1>2, <1>3 DEF Same
<1>5. i \in DOMAIN window' /\ window'[i].seq = t.seq
  BY <1>3
<1> HIDE DEF i
<1>6. \A j \in DOMAIN window' : window'[j].seq = t.seq <=> i = j
  BY <1>1, <1>5 DEF WindowOK
<1> QED
  BY <1>3, <1>4, <1>5, <1>6

(* What comes from where in a queue.                                       *)
QueuedFrom(f, accepts, mispredict, retire) ==
  \E k \in DOMAIN window, i \in DOMAIN window' :
    /\ Same(i, k, accepts, mispredict, retire)
    /\ \A j \in DOMAIN window' : window'[j].seq = f.op.seq <=> i = j
    /\ f.srcs \subseteq window[k].srcs
    /\ \/ \E e \in Queued : /\ Current(e) /\ f.srcs = e.srcs /\ f.waits = e.waits \ Broadcast
       \/ f.waits = (f.srcs \ ready_table) \ Broadcast

(* What rename shows is on its path.                                       *)
LEMMA RenamedToken ==
  ASSUME TypeOK, NEW m \in RenameOut
  PROVE  \E x \in renamed :
           /\ Current(x) /\ Passed(m, x) /\ m.rs1 = x.rs1 /\ m.rs2 = x.rs2
           /\ Current(Token(x)) /\ Token(x).seq = x.seq
           /\ x.unit # "load" => Token(x) \in OoPath[OoSlots]
           /\ x.unit \in {"load", "store"} => Token(x) \in IoPath[IoSlots]
<1>1. PICK x \in renamed : Keep(x, kill) /\ Passed(m, x) /\ m.rs1 = x.rs1 /\ m.rs2 = x.rs2
  BY PeekRen
<1>2. x.unit # "load" => Token(x) \in OoPath[OoSlots]
  BY OoPathIs, TokensIs
<1>3. x.unit \in {"load", "store"} => Token(x) \in IoPath[IoSlots]
  BY IoPathIs, TokensIs
<1> QED
  BY <1>1, <1>2, <1>3, TokenIs DEF Current

(* Only writeback and the store data leave a path.                         *)
LEMMA SlotsGo ==
  ASSUME TypeOK, NEW accepts, NEW added, FlowStep(accepts, added)
  PROVE  /\ OoMove(accepts)[OoSlots] # Gone /\ IoMove(accepts)[IoSlots] # Gone
         /\ \A k \in Oo!Idx : k \notin OoIssued(accepts) => OoMove(accepts)[k] # Gone
         /\ \A k \in Io!Idx : k \notin IoIssued(accepts) => IoMove(accepts)[k] # Gone
<1>1. OoMove(accepts)[OoSlots] # Gone
  BY OoMoveIs, OoPathIs, SchedulerAssumption DEF Gone
<1>2. IoMove(accepts)[IoSlots] # Gone
  BY IoMoveIs, IoPathIs, SchedulerAssumption DEF Gone
<1>3. \A k \in Oo!Idx : k \notin OoIssued(accepts) => OoMove(accepts)[k] # Gone
  <2>1. \A k \in Oo!Idx : OoDest(accepts, k) \in Oo!Idx
    BY OoQueue
  <2>2. \A k \in Oo!Idx : k # Gone
    BY OoPathIs
  <2> QED
    BY <2>1, <2>2, OoMoveIs
<1>4. \A k \in Io!Idx : k \notin IoIssued(accepts) => IoMove(accepts)[k] # Gone
  <2>1. \A k \in Io!Idx : IoDest(accepts, k) \in Io!Idx
    BY IoQueue
  <2>2. \A k \in Io!Idx : k # Gone
    BY IoPathIs
  <2> QED
    BY <2>1, <2>2, IoMoveIs
<1> QED
  BY <1>1, <1>2, <1>3, <1>4

(* Where an entry of the out of order queue comes from.                    *)
LEMMA OoQueuedFrom ==
  ASSUME Before, SourcesOK, NEW accepts, NEW mispredict, NEW retire, NEW offered, NEW freed,
         Step(accepts, mispredict, retire, offered, freed),
         NEW p \in Oo!Idx, NEW f \in oo_slots'[p], Keep(f, kill')
  PROVE  QueuedFrom(f, accepts, mispredict, retire)
<1>1. /\ Turn(accepts, mispredict, retire, offered) /\ TypeOK
      /\ FlowStep(accepts, Renames(accepts, mispredict, offered))
      /\ RemovedOn(OoPath, OoMove(accepts), "oo") /\ OwnedOn(OoPath, "oo")
  BY StepIs DEF Before
<1>2. Keep(EntryToken(f), kill') /\ EntryToken(f).seq = f.op.seq
  BY TokenIs
<1>3. \/ \E k \in Oo!Idx : \E e \in oo_slots[k] :
           /\ Keep(e, kill) /\ k \notin OoIssued(accepts) /\ Moved(f, e, Broadcast, kill.clear_mask)
      \/ \E a \in OoAdded(accepts) : Arrives(f, a, FALSE)
  BY <1>1, OoQueue
<1>4. ASSUME NEW n \in Oo!Idx, NEW e \in oo_slots[n], Keep(e, kill), n \notin OoIssued(accepts),
             Moved(f, e, Broadcast, kill.clear_mask)
      PROVE  QueuedFrom(f, accepts, mispredict, retire)
  <2>1. EntryToken(e) \in OoPath[n] /\ n \in DOMAIN OoPath /\ OoMove(accepts)[n] # Gone
    BY <1>1, <1>4, OoPathIs, SlotsGo
  <2>2. Passed(EntryToken(f), EntryToken(e)) /\ Current(EntryToken(e)) /\ EntryToken(e).seq = e.op.seq
    BY <1>4, PassedTokens, TokenIs DEF Current
  <2>3. PICK k \in DOMAIN window : \E i \in DOMAIN window' :
          /\ Owns(EntryToken(e), k) /\ Same(i, k, accepts, mispredict, retire)
          /\ \A j \in DOMAIN window' : window'[j].seq = EntryToken(f).seq <=> i = j
    BY <1>1, <1>2, <2>1, <2>2, Tracked
  <2>4. e \in Queued /\ Current(e)
    <3>1. n \in DOMAIN oo_slots
      BY <1>1 DEF TypeOK, Oo!TypeOK
    <3> QED
      BY <1>4, <3>1 DEF Queued, Current
  <2>5. e.srcs \subseteq window[k].srcs
    BY <2>2, <2>3, <2>4 DEF SourcesOK, Owns
  <2>6. f.srcs = e.srcs /\ f.waits = e.waits \ Broadcast
    BY <1>4 DEF Moved
  <2> QED
    BY <1>2, <2>3, <2>4, <2>5, <2>6 DEF QueuedFrom
<1>5. ASSUME NEW a \in OoAdded(accepts), Arrives(f, a, FALSE)
      PROVE  QueuedFrom(f, accepts, mispredict, retire)
  <2>1. PICK m \in RenameOut : Half(a, m) /\ m.unit # "load"
    BY <1>1, AddedIs
  <2>2. PICK x \in renamed :
           /\ Current(x) /\ Passed(m, x) /\ m.rs1 = x.rs1 /\ m.rs2 = x.rs2
           /\ Current(Token(x)) /\ Token(x).seq = x.seq
           /\ x.unit # "load" => Token(x) \in OoPath[OoSlots]
    BY <1>1, <2>1, RenamedToken
  <2>3. Token(x) \in OoPath[OoSlots] /\ OoSlots \in DOMAIN OoPath /\ OoMove(accepts)[OoSlots] # Gone
    BY <1>1, <2>1, <2>2, SlotsGo, OoPathIs DEF Passed
  <2>4. Passed(EntryToken(f), Token(x))
    BY <1>5, <2>1, <2>2, HalfPassed, ArrivesPassed
  <2>5. PICK k \in DOMAIN window : \E i \in DOMAIN window' :
          /\ Owns(Token(x), k) /\ Same(i, k, accepts, mispredict, retire)
          /\ \A j \in DOMAIN window' : window'[j].seq = EntryToken(f).seq <=> i = j
    BY <1>1, <1>2, <2>2, <2>3, <2>4, Tracked
  <2>6. f.srcs \subseteq window[k].srcs
    <3>1. x.rs1 \cup x.rs2 \subseteq window[k].srcs
      BY <2>2, <2>5 DEF SourcesOK, Owns
    <3> QED
      BY <1>5, <2>1, <2>2, <3>1 DEF Arrives, Half
  <2>7. f.waits = (f.srcs \ ready_table) \ Broadcast
    BY <1>5 DEF Arrives
  <2> QED
    BY <1>2, <2>5, <2>6, <2>7 DEF QueuedFrom
<1> QED
  BY <1>3, <1>4, <1>5

(* The same for the memory queue.                                          *)
LEMMA IoQueuedFrom ==
  ASSUME Before, SourcesOK, NEW accepts, NEW mispredict, NEW retire, NEW offered, NEW freed,
         Step(accepts, mispredict, retire, offered, freed),
         NEW p \in Io!Idx, NEW f \in io_slots'[p], Keep(f, kill')
  PROVE  QueuedFrom(f, accepts, mispredict, retire)
<1>1. /\ Turn(accepts, mispredict, retire, offered) /\ TypeOK
      /\ FlowStep(accepts, Renames(accepts, mispredict, offered))
      /\ RemovedOn(IoPath, IoMove(accepts), "io") /\ OwnedOn(IoPath, "io")
  BY StepIs DEF Before
<1>2. Keep(EntryToken(f), kill') /\ EntryToken(f).seq = f.op.seq
  BY TokenIs
<1>3. \/ \E k \in Io!Idx : \E e \in io_slots[k] :
           /\ Keep(e, kill) /\ k \notin IoIssued(accepts) /\ Moved(f, e, Broadcast, kill.clear_mask)
      \/ \E a \in IoAdded(accepts) : Arrives(f, a, (a.unit = "store"))
  BY <1>1, IoQueue
<1>4. ASSUME NEW n \in Io!Idx, NEW e \in io_slots[n], Keep(e, kill), n \notin IoIssued(accepts),
             Moved(f, e, Broadcast, kill.clear_mask)
      PROVE  QueuedFrom(f, accepts, mispredict, retire)
  <2>1. EntryToken(e) \in IoPath[n] /\ n \in DOMAIN IoPath /\ IoMove(accepts)[n] # Gone
    BY <1>1, <1>4, IoPathIs, SlotsGo
  <2>2. Passed(EntryToken(f), EntryToken(e)) /\ Current(EntryToken(e)) /\ EntryToken(e).seq = e.op.seq
    BY <1>4, PassedTokens, TokenIs DEF Current
  <2>3. PICK k \in DOMAIN window : \E i \in DOMAIN window' :
          /\ Owns(EntryToken(e), k) /\ Same(i, k, accepts, mispredict, retire)
          /\ \A j \in DOMAIN window' : window'[j].seq = EntryToken(f).seq <=> i = j
    BY <1>1, <1>2, <2>1, <2>2, Tracked
  <2>4. e \in Queued /\ Current(e)
    <3>1. n \in DOMAIN io_slots
      BY <1>1 DEF TypeOK, Io!TypeOK
    <3> QED
      BY <1>4, <3>1 DEF Queued, Current
  <2>5. e.srcs \subseteq window[k].srcs
    BY <2>2, <2>3, <2>4 DEF SourcesOK, Owns
  <2>6. f.srcs = e.srcs /\ f.waits = e.waits \ Broadcast
    BY <1>4 DEF Moved
  <2> QED
    BY <1>2, <2>3, <2>4, <2>5, <2>6 DEF QueuedFrom
<1>5. ASSUME NEW a \in IoAdded(accepts), Arrives(f, a, (a.unit = "store"))
      PROVE  QueuedFrom(f, accepts, mispredict, retire)
  <2>1. PICK m \in RenameOut : Half(a, m) /\ m.unit \in {"load", "store"}
    BY <1>1, AddedIs
  <2>2. PICK x \in renamed :
           /\ Current(x) /\ Passed(m, x) /\ m.rs1 = x.rs1 /\ m.rs2 = x.rs2
           /\ Current(Token(x)) /\ Token(x).seq = x.seq
           /\ x.unit \in {"load", "store"} => Token(x) \in IoPath[IoSlots]
    BY <1>1, <2>1, RenamedToken
  <2>3. Token(x) \in IoPath[IoSlots] /\ IoSlots \in DOMAIN IoPath /\ IoMove(accepts)[IoSlots] # Gone
    BY <1>1, <2>1, <2>2, SlotsGo, IoPathIs DEF Passed
  <2>4. Passed(EntryToken(f), Token(x))
    BY <1>5, <2>1, <2>2, HalfPassed, ArrivesPassed
  <2>5. PICK k \in DOMAIN window : \E i \in DOMAIN window' :
          /\ Owns(Token(x), k) /\ Same(i, k, accepts, mispredict, retire)
          /\ \A j \in DOMAIN window' : window'[j].seq = EntryToken(f).seq <=> i = j
    BY <1>1, <1>2, <2>2, <2>3, <2>4, Tracked
  <2>6. f.srcs \subseteq window[k].srcs
    <3>1. x.rs1 \cup x.rs2 \subseteq window[k].srcs
      BY <2>2, <2>5 DEF SourcesOK, Owns
    <3> QED
      BY <1>5, <2>1, <2>2, <3>1 DEF Arrives, Half
  <2>7. f.waits = (f.srcs \ ready_table) \ Broadcast
    BY <1>5 DEF Arrives
  <2> QED
    BY <1>2, <2>5, <2>6, <2>7 DEF QueuedFrom
<1> QED
  BY <1>3, <1>4, <1>5

(* The same for both.                                                      *)
LEMMA QueuedAfter ==
  ASSUME Before, SourcesOK, NEW accepts, NEW mispredict, NEW retire, NEW offered, NEW freed,
         Step(accepts, mispredict, retire, offered, freed),
         NEW f \in Queued', Keep(f, kill')
  PROVE  QueuedFrom(f, accepts, mispredict, retire)
<1>1. Oo!TypeOK' /\ Io!TypeOK'
  BY StepIs, OoQueue, IoQueue DEF Before
<1>2. DOMAIN oo_slots' = Oo!Idx /\ DOMAIN io_slots' = Io!Idx
  BY <1>1 DEF Oo!TypeOK, Io!TypeOK, Oo!Idx, Io!Idx
<1>3. (\E p \in Oo!Idx : f \in oo_slots'[p]) \/ (\E p \in Io!Idx : f \in io_slots'[p])
  BY <1>2 DEF Queued
<1> QED
  BY <1>3, OoQueuedFrom, IoQueuedFrom

(* What is queued reads the sources of its instruction, after the cycle.   *)
LEMMA SourcesNext ==
  ASSUME Before, SourcesOK, NEW accepts, NEW mispredict, NEW retire, NEW offered, NEW freed,
         Step(accepts, mispredict, retire, offered, freed)
  PROVE  SourcesOK'
<1>1. /\ Turn(accepts, mispredict, retire, offered) /\ TypeOK /\ Typed /\ WindowOK'
      /\ FlowStep(accepts, Renames(accepts, mispredict, offered))
      /\ RemovedOn(OoPath, OoMove(accepts), "oo") /\ OwnedOn(OoPath, "oo")
      /\ RemovedOn(IoPath, IoMove(accepts), "io") /\ OwnedOn(IoPath, "io")
  BY StepIs DEF Before
<1>2. ASSUME NEW m \in renamed', Keep(m, kill'), NEW i \in DOMAIN window', window'[i].seq = m.seq
      PROVE  m.rs1 \cup m.rs2 \subseteq window'[i].srcs
  <2>1. CASE m \in Renames(accepts, mispredict, offered)
    <3>1. PICK r \in offered : offered = {r} /\ m.seq = NewSeq /\ m.rs1 = r.rs1 /\ m.rs2 = r.rs2
      BY <1>1, <2>1, MessageIs
    <3>2. PICK j \in DOMAIN window' : Joins(j, r)
      BY <1>1, <3>1, NewMask
    <3>3. i = j
      BY <1>1, <1>2, <3>1, <3>2 DEF Joins, WindowOK
    <3> QED
      BY <3>1, <3>2, <3>3 DEF Joins
  <2>2. CASE ~InTaken(accepts) /\ m \in RenameOut
    <3>1. PICK x \in renamed :
             /\ Current(x) /\ Passed(m, x) /\ m.rs1 = x.rs1 /\ m.rs2 = x.rs2
             /\ Current(Token(x)) /\ Token(x).seq = x.seq
             /\ x.unit # "load" => Token(x) \in OoPath[OoSlots]
             /\ x.unit \in {"load", "store"} => Token(x) \in IoPath[IoSlots]
      BY <1>1, <2>2, RenamedToken
    <3>2. Passed(Token(m), Token(x)) /\ Token(m).seq = m.seq /\ Keep(Token(m), kill')
      BY <1>2, <3>1, PassedTokens, TokenIs
    <3>3. /\ OoSlots \in DOMAIN OoPath /\ OoMove(accepts)[OoSlots] # Gone
          /\ IoSlots \in DOMAIN IoPath /\ IoMove(accepts)[IoSlots] # Gone
      BY <1>1, SlotsGo, OoPathIs, IoPathIs
    <3>4. \E k \in DOMAIN window, n \in DOMAIN window' :
             /\ Owns(Token(x), k) /\ Same(n, k, accepts, mispredict, retire)
             /\ \A j \in DOMAIN window' : window'[j].seq = Token(m).seq <=> n = j
      <4>1. CASE x.unit # "load"
        BY <1>1, <3>1, <3>2, <3>3, <4>1, Tracked
      <4>2. CASE x.unit = "load"
        BY <1>1, <3>1, <3>2, <3>3, <4>2, Tracked
      <4> QED
        BY <4>1, <4>2
    <3>5. PICK k \in DOMAIN window : \E n \in DOMAIN window' :
             /\ Owns(Token(x), k) /\ Same(n, k, accepts, mispredict, retire)
             /\ \A j \in DOMAIN window' : window'[j].seq = Token(m).seq <=> n = j
      BY <3>4
    <3>6. Same(i, k, accepts, mispredict, retire) /\ window[k].seq = x.seq
      BY <1>2, <3>1, <3>2, <3>5 DEF Owns
    <3>7. x.rs1 \cup x.rs2 \subseteq window[k].srcs
      BY <3>1, <3>6 DEF SourcesOK
    <3> QED
      BY <3>1, <3>6, <3>7 DEF Same, Carried
  <2> QED
    BY <1>1, <2>1, <2>2, RenamedAfter
<1>3. ASSUME NEW f \in Queued', Keep(f, kill'),
             NEW i \in DOMAIN window', window'[i].seq = f.op.seq
      PROVE  f.srcs \subseteq window'[i].srcs
  <2>1. QueuedFrom(f, accepts, mispredict, retire)
    BY <1>3, QueuedAfter
  <2>2. PICK k \in DOMAIN window : Same(i, k, accepts, mispredict, retire) /\ f.srcs \subseteq window[k].srcs
    BY <1>3, <2>1 DEF QueuedFrom
  <2> QED
    BY <2>2 DEF Same, Carried
<1> QED
  BY <1>2, <1>3 DEF SourcesOK, Current, Keep

(* What writeback takes has an owner, and writes what this one is to       *)
(* write.                                                                  *)
LEMMA ResultOwned ==
  ASSUME Before, NEW m \in Shown[Granted(Shown)], NEW k \in DOMAIN window, window[k].seq = m.seq
  PROVE  m.rd = window[k].rd /\ (m.faults <=> window[k].faults)
<1>1. TypeOK /\ Typed /\ OwnedOn(OoPath, "oo") /\ OwnedOn(IoPath, "io")
  BY DEF Before, PathOK
<1>2. Granted(Shown) \in {"mem", "alu", "other"}
  BY <1>1, UnitInIs
<1>3. PICK x \in units[Granted(Shown)] : Keep(x, kill) /\ Passed(m, x)
  BY <1>1, <1>2, OutIs
<1>4. /\ Token(x) \in Tokens(units[Granted(Shown)]) /\ Current(Token(x))
      /\ Token(x).seq = m.seq /\ Token(x).rd = m.rd /\ (Token(x).faults <=> m.faults)
  BY <1>3, TokenIs, TokensIs DEF Passed, Current
<1>5. Owns(Token(x), k)
  <2>1. CASE Granted(Shown) = "mem"
    <3>1. Token(x) \in IoPath[-2] /\ -2 \in DOMAIN IoPath
      BY <1>4, <2>1, IoPathIs
    <3> QED
      BY <1>1, <1>4, <3>1, OwnerIs
  <2>2. CASE Granted(Shown) = "alu"
    <3>1. Token(x) \in OoPath[-2] /\ -2 \in DOMAIN OoPath
      BY <1>4, <2>2, OoPathIs
    <3> QED
      BY <1>1, <1>4, <3>1, OwnerIs
  <2>3. CASE Granted(Shown) = "other"
    <3>1. Token(x) \in OoPath[-3] /\ -3 \in DOMAIN OoPath
      BY <1>4, <2>3, OoPathIs
    <3> QED
      BY <1>1, <1>4, <3>1, OwnerIs
  <2> QED
    BY <1>2, <2>1, <2>2, <2>3
<1> QED
  BY <1>4, <1>5 DEF Owns

(* A result without a fault is written.                                    *)
LEMMA ResultWritten ==
  ASSUME Before, NEW k \in DOMAIN window, window[k].seq \in Results, ~window[k].faults
  PROVE  window[k].rd \subseteq Written(Shown)
<1>1. PICK m \in Shown[Granted(Shown)] : m.seq = window[k].seq
  BY DEF Results
<1>2. m.rd = window[k].rd /\ ~m.faults
  BY <1>1, ResultOwned
<1> QED
  BY <1>1, <1>2 DEF Written

------------------------------------------------------------------------------
(****************************************************************************)
(* Tags: a register in use is written, or whoever writes it is in flight.  *)
(****************************************************************************)

(* The registers of what is flushed are free again.                        *)
LEMMA LiveAfter ==
  ASSUME Before, NEW accepts, NEW mispredict, NEW retire, NEW offered, NEW freed,
         Step(accepts, mispredict, retire, offered, freed)
  PROVE  \A t : t \in live' <=>
           \/ \E r \in offered : t \in r.rd
           \/ /\ t \in live /\ t \notin freed
              /\ \A j \in DOMAIN window : t \in window[j].rd =>
                   ~Exception(retire) /\ \E k \in DOMAIN window :
                                           k <= Cut(accepts, mispredict) /\ t \in window[k].rd
<1>1. /\ Typed /\ Turn(accepts, mispredict, retire, offered)
      /\ TagsStep(accepts, mispredict, retire, offered, freed)
  BY StepIs DEF Before
<1>2. /\ ResolvesOne(accepts) /\ mispredict \in BOOLEAN
  BY <1>1 DEF Turn, WindowStep, Calls
<1>3. /\ Cut(accepts, mispredict) \in Nat /\ Cut(accepts, mispredict) <= Len(window)
      /\ Len(window) \in Nat /\ DOMAIN window = 1 .. Len(window)
  BY <1>1, TurnIs
<1> DEFINE kept == IF Exception(retire) THEN <<>> ELSE Now(accepts, mispredict)
<1>4. live' = ((live \ freed) \ (TagsOf(window) \ TagsOf(kept))) \cup UNION {r.rd : r \in offered}
  BY <1>1 DEF TagsStep
<1>5. \A t : t \in TagsOf(window) <=> \E j \in DOMAIN window : t \in window[j].rd
  BY DEF TagsOf
<1>6. DOMAIN Now(accepts, mispredict) = 1 .. Cut(accepts, mispredict)
  BY DEF Now, Progressed
<1>7. \A k \in 1 .. Cut(accepts, mispredict) :
        k \in DOMAIN window /\ Now(accepts, mispredict)[k].rd = window[k].rd
  BY <1>1, <1>2, NowFields
<1>8. \A t : t \in TagsOf(kept) <=>
        ~Exception(retire) /\ \E k \in DOMAIN window :
                                k <= Cut(accepts, mispredict) /\ t \in window[k].rd
  <2>1. CASE Exception(retire)
    BY <2>1 DEF TagsOf
  <2>2. CASE ~Exception(retire)
    <3>1. kept = Now(accepts, mispredict)
      BY <2>2
    <3> HIDE DEF kept
    <3>2. \A t : t \in TagsOf(kept) <=>
            \E k \in 1 .. Cut(accepts, mispredict) : t \in window[k].rd
      BY <1>6, <1>7, <3>1 DEF TagsOf
    <3>3. \A k : k \in 1 .. Cut(accepts, mispredict) <=>
                   k \in DOMAIN window /\ k <= Cut(accepts, mispredict)
      BY <1>3
    <3> QED
      BY <2>2, <3>2, <3>3
  <2> QED
    BY <2>1, <2>2
<1> HIDE DEF kept
<1> QED
  BY <1>4, <1>5, <1>8

(* A register in use before the cycle is not given out in it.              *)
LEMMA NewTags ==
  ASSUME Before, NEW accepts, NEW mispredict, NEW retire, NEW offered, NEW freed,
         Step(accepts, mispredict, retire, offered, freed)
  PROVE  /\ \A r \in offered : /\ r.rd \cap live = {} /\ r.rs1 \cup r.rs2 \subseteq live
                               /\ (r.rs1 \cup r.rs2) \cap freed = {}
         /\ \A t \in live : t \in ready_table' <=> t \in ready_table \/ t \in Written(Shown)
         /\ \A r \in offered : offered = {r}
<1>1. /\ Typed /\ Turn(accepts, mispredict, retire, offered)
      /\ TagsStep(accepts, mispredict, retire, offered, freed)
      /\ FlowStep(accepts, Renames(accepts, mispredict, offered))
  BY StepIs DEF Before
<1>2. \A r \in offered : /\ r.rd \cap live = {} /\ r.rs1 \cup r.rs2 \subseteq live /\ offered = {r}
                         /\ (r.rs1 \cup r.rs2) \cap freed = {}
  BY <1>1, OfferIs DEF Turn, Calls, TagsStep
<1>3. \A m \in Renames(accepts, mispredict, offered) : m.rd \cap live = {}
  BY <1>1, <1>2, MessageIs
<1>4. ready_table' = (ready_table \cup Written(Shown)) \ UNION {m.rd : m \in Renames(accepts, mispredict, offered)}
  BY <1>1 DEF FlowStep
<1> QED
  BY <1>2, <1>3, <1>4

(* A register that an instruction in flight has stays in use with it.      *)
LEMMA StaysLive ==
  ASSUME Before, NEW accepts, NEW mispredict, NEW retire, NEW offered, NEW freed,
         Step(accepts, mispredict, retire, offered, freed),
         ~Exception(retire), NEW k \in DOMAIN window, k <= Cut(accepts, mispredict)
  PROVE  window[k].rd \cup window[k].srcs \subseteq live'
<1>1. TagsOK /\ Typed /\ freed \subseteq Freeable /\ Turn(accepts, mispredict, retire, offered)
  BY StepIs DEF Before, TagsStep
<1>2. /\ Cut(accepts, mispredict) \in Nat /\ Cut(accepts, mispredict) <= Len(window)
      /\ Len(window) \in Nat /\ DOMAIN window = 1 .. Len(window)
  BY <1>1, TurnIs
<1>3. \A t \in window[k].rd \cup window[k].srcs : t \in live /\ t \notin freed
  BY <1>1 DEF TagsOK, Freeable
<1>4. ASSUME NEW t \in window[k].rd \cup window[k].srcs, NEW j \in DOMAIN window, t \in window[j].rd
      PROVE  j <= Cut(accepts, mispredict)
  <2>1. CASE t \in window[k].rd
    <3>1. j = k
      BY <1>1, <1>4, <2>1 DEF Typed, WindowOK
    <3> QED
      BY <3>1
  <2>2. CASE t \in window[k].srcs
    <3>1. ~(k <= j)
      BY <1>1, <1>4, <2>2 DEF TagsOK
    <3> QED
      BY <1>2, <3>1
  <2> QED
    BY <2>1, <2>2
<1> QED
  BY <1>3, <1>4, LiveAfter

(* Tags stay as they should be: a tag that is freed or flushed has no      *)
(* reader left, one that is given out is not ready.                        *)
LEMMA TagsNext ==
  ASSUME Before, NEW accepts, NEW mispredict, NEW retire, NEW offered, NEW freed,
         Step(accepts, mispredict, retire, offered, freed)
  PROVE  TagsOK'
<1>1. /\ TagsOK /\ Typed /\ Turn(accepts, mispredict, retire, offered)
      /\ TagsStep(accepts, mispredict, retire, offered, freed)
  BY StepIs DEF Before
<1>2. /\ Cut(accepts, mispredict) \in Nat /\ Cut(accepts, mispredict) <= Len(window)
      /\ Len(window) \in Nat /\ DOMAIN window = 1 .. Len(window) /\ Skipped(retire) \in {0, 1}
  BY <1>1, TurnIs
<1>3. /\ DOMAIN window' \subseteq Nat
      /\ \A i \in DOMAIN window' : ~Exception(retire)
      /\ \A i \in DOMAIN window' :
           IF i + Skipped(retire) <= Cut(accepts, mispredict)
           THEN Carried(i, i + Skipped(retire), accepts)
           ELSE i = Len(window') /\ \E r \in Renamings : offered = {r} /\ Joins(i, r)
      /\ DOMAIN window' = 1 .. Len(window') /\ Len(window') \in Nat
  <2>1. CASE Exception(retire)
    <3>1. window' = <<>>
      BY <1>1, <2>1 DEF Turn, WindowStep
    <3> QED
      BY <3>1
  <2>2. CASE ~Exception(retire)
    BY <1>1, <2>2, WindowNow, EntryCarried, EntryJoins
  <2> QED
    BY <2>1, <2>2
<1>4. ASSUME NEW i \in DOMAIN window'
      PROVE  window'[i].rd \cup window'[i].srcs \subseteq live'
  <2>1. CASE i + Skipped(retire) <= Cut(accepts, mispredict)
    <3> DEFINE k == i + Skipped(retire)
    <3>1. Carried(i, k, accepts) /\ k <= Cut(accepts, mispredict)
      BY <1>3, <2>1
    <3> HIDE DEF k
    <3>2. k \in DOMAIN window /\ window'[i].rd = window[k].rd /\ window'[i].srcs = window[k].srcs
      BY <3>1 DEF Carried
    <3>3. window[k].rd \cup window[k].srcs \subseteq live'
      BY <1>3, <3>1, <3>2, StaysLive
    <3> QED
      BY <3>2, <3>3
  <2>2. CASE ~(i + Skipped(retire) <= Cut(accepts, mispredict))
    <3>1. PICK r \in Renamings : offered = {r} /\ Joins(i, r)
      BY <1>3, <2>2
    <3>2. Cut(accepts, mispredict) = Len(window)
      BY <1>1, <3>1, TurnIs
    <3>3. \A t \in r.rs1 \cup r.rs2 : t \in live /\ t \notin freed
      BY <3>1, NewTags
    <3>4. r.rs1 \cup r.rs2 \subseteq live'
      BY <1>2, <1>3, <3>2, <3>3, LiveAfter
    <3>5. r.rd \subseteq live'
      BY <3>1, LiveAfter
    <3> QED
      BY <3>1, <3>4, <3>5 DEF Joins
  <2> QED
    BY <2>1, <2>2
<1>5. ASSUME NEW i \in DOMAIN window', NEW j \in DOMAIN window', i <= j
      PROVE  window'[j].rd \cap window'[i].srcs = {}
  <2>1. CASE i + Skipped(retire) <= Cut(accepts, mispredict)
    <3> DEFINE k == i + Skipped(retire)
    <3>1. Carried(i, k, accepts)
      BY <1>3, <2>1
    <3>2. k \in DOMAIN window /\ window'[i].srcs = window[k].srcs
      BY <3>1 DEF Carried
    <3>3. CASE j + Skipped(retire) <= Cut(accepts, mispredict)
      <4> DEFINE l == j + Skipped(retire)
      <4>1. Carried(j, l, accepts) /\ k <= l
        BY <1>2, <1>3, <1>5, <3>3
      <4> HIDE DEF k, l
      <4>2. l \in DOMAIN window /\ window'[j].rd = window[l].rd
        BY <4>1 DEF Carried
      <4> QED
        BY <1>1, <3>2, <4>1, <4>2 DEF TagsOK
    <3>4. CASE ~(j + Skipped(retire) <= Cut(accepts, mispredict))
      <4>1. PICK r \in Renamings : offered = {r} /\ Joins(j, r)
        BY <1>3, <3>4
      <4> HIDE DEF k
      <4>2. window[k].srcs \subseteq live
        BY <1>1, <3>2 DEF TagsOK
      <4>3. r.rd \cap live = {}
        BY <4>1, NewTags
      <4> QED
        BY <3>2, <4>1, <4>2, <4>3 DEF Joins
    <3> QED
      BY <3>3, <3>4
  <2>2. CASE ~(i + Skipped(retire) <= Cut(accepts, mispredict))
    <3>1. PICK r \in Renamings : offered = {r} /\ Joins(i, r)
      BY <1>3, <2>2
    <3>2. i = j
      BY <1>2, <1>3, <1>5, <2>2
    <3>3. r.rd \cap live = {} /\ r.rs1 \cup r.rs2 \subseteq live
      BY <3>1, NewTags
    <3> QED
      BY <3>1, <3>2, <3>3 DEF Joins
  <2> QED
    BY <2>1, <2>2
<1>6. ASSUME NEW i \in DOMAIN window', "result" \notin window'[i].todo, ~window'[i].faults
      PROVE  window'[i].rd \subseteq ready_table'
  <2>1. CASE i + Skipped(retire) <= Cut(accepts, mispredict)
    <3> DEFINE k == i + Skipped(retire)
    <3>1. Carried(i, k, accepts)
      BY <1>3, <2>1
    <3> HIDE DEF k
    <3>2. /\ k \in DOMAIN window /\ window'[i].rd = window[k].rd
          /\ (window'[i].faults <=> window[k].faults)
      BY <3>1 DEF Carried
    <3>3. "result" \notin window[k].todo \/ window[k].seq \in Results
      BY <1>6, <3>1 DEF Carried, Parts, Done
    <3>4. window[k].rd \subseteq ready_table \/ window[k].rd \subseteq Written(Shown)
      <4>1. CASE "result" \notin window[k].todo
        BY <1>1, <1>6, <3>2, <4>1 DEF TagsOK
      <4>2. CASE window[k].seq \in Results
        BY <1>6, <3>2, <4>2, ResultWritten
      <4> QED
        BY <3>3, <4>1, <4>2
    <3>5. window[k].rd \subseteq live
      BY <1>1, <3>2 DEF TagsOK
    <3> QED
      BY <3>2, <3>4, <3>5, NewTags
  <2>2. CASE ~(i + Skipped(retire) <= Cut(accepts, mispredict))
    <3>1. PICK r \in Renamings : offered = {r} /\ Joins(i, r)
      BY <1>3, <2>2
    <3> QED
      BY <1>6, <3>1 DEF Joins
  <2> QED
    BY <2>1, <2>2
<1>7. ASSUME NEW t \in live'
      PROVE  \/ t \in ready_table'
             \/ \E i \in DOMAIN window' :
                  t \in window'[i].rd /\ ("result" \in window'[i].todo \/ window'[i].faults)
  <2>1. CASE \E r \in offered : t \in r.rd
    <3>1. PICK r \in offered : t \in r.rd
      BY <2>1
    <3>2. offered = {r}
      BY NewTags
    <3>3. PICK i \in DOMAIN window' : Joins(i, r)
      BY <1>1, <3>2, NewMask
    <3> QED
      BY <3>1, <3>3 DEF Joins
  <2>2. CASE ~\E r \in offered : t \in r.rd
    <3>1. /\ t \in live
          /\ \A j \in DOMAIN window : t \in window[j].rd =>
               ~Exception(retire) /\ \E k \in DOMAIN window :
                                       k <= Cut(accepts, mispredict) /\ t \in window[k].rd
      BY <2>2, LiveAfter
    <3>2. CASE t \in ready_table
      BY <3>1, <3>2, NewTags
    <3>3. CASE t \notin ready_table
      <4>1. PICK j \in DOMAIN window : t \in window[j].rd /\ ("result" \in window[j].todo \/ window[j].faults)
        BY <1>1, <3>1, <3>3 DEF TagsOK
      <4>2. ~Exception(retire)
        BY <3>1, <4>1
      <4>3. PICK k \in DOMAIN window : k <= Cut(accepts, mispredict) /\ t \in window[k].rd
        BY <3>1, <4>1
      <4>4. k = j
        BY <1>1, <4>1, <4>3 DEF Typed, WindowOK
      <4>5. j > Skipped(retire)
        <5>1. CASE retire
          <6>1. window[1].todo = {} /\ ~window[1].faults /\ Skipped(retire) = 1
            BY <1>1, <4>2, <5>1, TurnIs DEF Exception
          <6>2. j # 1
            BY <4>1, <6>1
          <6> QED
            BY <1>2, <6>1, <6>2
        <5>2. CASE ~retire
          <6>1. Skipped(retire) = 0
            BY <1>1, <5>2, TurnIs
          <6> QED
            BY <1>2, <6>1
        <5> QED
          BY <5>1, <5>2
      <4> DEFINE i == j - Skipped(retire)
      <4>6. i \in DOMAIN window' /\ Carried(i, j, accepts)
        <5>1. j \in 1 .. Cut(accepts, mispredict)
          BY <1>2, <4>3, <4>4
        <5> QED
          BY <1>1, <4>2, <4>5, <5>1, StaysIn
      <4> HIDE DEF i
      <4>7. window'[i].rd = window[j].rd /\ (window'[i].faults <=> window[j].faults)
        BY <4>6 DEF Carried
      <4>8. CASE window[j].faults
        BY <4>1, <4>6, <4>7, <4>8
      <4>9. CASE ~window[j].faults /\ window[j].seq \in Results
        BY <3>1, <4>1, <4>9, ResultWritten, NewTags
      <4>10. CASE ~window[j].faults /\ window[j].seq \notin Results
        <5>1. "result" \in window'[i].todo
          BY <4>1, <4>6, <4>10 DEF Carried, Parts, Done
        <5> QED
          BY <4>1, <4>6, <4>7, <5>1
      <4> QED
        BY <4>8, <4>9, <4>10
    <3> QED
      BY <3>2, <3>3
  <2> QED
    BY <2>1, <2>2
<1> QED
  BY <1>4, <1>5, <1>6, <1>7 DEF TagsOK

------------------------------------------------------------------------------
(****************************************************************************)
(* Wakeups: what an entry does not wait for is written or on the bypass.   *)
(****************************************************************************)

(* What is on the bypass is broadcast in the next cycle.                   *)
LEMMA BypassReaches ==
  ASSUME Before, NEW t, OnBypass(t)
  PROVE  /\ t \in Broadcast
         /\ \E m \in Shown["alu"] : t \in m.rd
<1>0. TypeOK
  BY DEF Before
<1>1. PICK x \in units["alu"] : Current(x) /\ t \in x.rd
  BY DEF OnBypass
<1>2. PICK m \in Shown["alu"] : Passed(m, x)
  BY <1>0, <1>1, OutIs DEF Current
<1>3. t \in m.rd /\ ~m.faults
  BY <1>1, <1>2 DEF Passed, Before, Shapes
<1>4. CASE UNION {y.rd : y \in AluIn} # {}
  <2>1. Granted(Shown) = "alu"
    BY <1>0, <1>4, UnitInIs
  <2>2. t \in Written(Shown)
    BY <1>0, <1>3, <2>1, WrittenIs
  <2> QED
    BY <1>3, <2>2 DEF Broadcast
<1>5. CASE UNION {y.rd : y \in AluIn} = {}
  <2>1. t \in Forwarded
    BY <1>3, <1>5 DEF Forwarded
  <2> QED
    BY <1>3, <2>1 DEF Broadcast
<1> QED
  BY <1>4, <1>5

(* What the ALU computes or holds is written or on the bypass afterwards,  *)
(* as long as somebody who reads it is in flight.                          *)
LEMMA BypassAfter ==
  ASSUME Before, NEW accepts, NEW mispredict, NEW retire, NEW offered, NEW freed,
         Step(accepts, mispredict, retire, offered, freed), ~Exception(retire),
         NEW k \in DOMAIN window, k <= Cut(accepts, mispredict), NEW t \in window[k].srcs,
         NEW m \in Shown["alu"] \cup AluIn, t \in m.rd
  PROVE  t \in ready_table' \/ OnBypass(t)'
<1>1. /\ TypeOK /\ Typed /\ TagsOK /\ Turn(accepts, mispredict, retire, offered)
      /\ FlowStep(accepts, Renames(accepts, mispredict, offered)) /\ OwnedOn(OoPath, "oo")
  BY StepIs DEF Before
<1>2. /\ Cut(accepts, mispredict) \in Nat /\ Len(window) \in Nat /\ DOMAIN window = 1 .. Len(window)
  BY <1>1, TurnIs
<1>3. \E q \in DOMAIN OoPath : \E u \in OoPath[q] : Current(u) /\ m.rd = u.rd /\ m.mask = u.mask \ kill.clear_mask
  <2>1. CASE m \in Shown["alu"]
    <3>1. PICK x \in units["alu"] : Keep(x, kill) /\ Passed(m, x)
      BY <1>1, <2>1, OutIs
    <3>2. Token(x) \in OoPath[-2] /\ -2 \in DOMAIN OoPath
      BY OoPathIs, TokensIs
    <3>3. Current(Token(x)) /\ m.rd = Token(x).rd /\ m.mask = Token(x).mask \ kill.clear_mask
      BY <3>1, TokenIs DEF Passed, Current
    <3> QED
      BY <3>2, <3>3
  <2>2. CASE m \in AluIn
    <3>1. m \in OoOut
      BY <1>1, <2>2, UnitInIs
    <3>2. PICK x \in oo_dispatch : Keep(x, kill) /\ Passed(m, x)
      BY <1>1, <3>1, OutIs
    <3>3. Token(x) \in OoPath[-1] /\ -1 \in DOMAIN OoPath
      BY OoPathIs, TokensIs
    <3>4. Current(Token(x)) /\ m.rd = Token(x).rd /\ m.mask = Token(x).mask \ kill.clear_mask
      BY <3>2, TokenIs DEF Passed, Current
    <3> QED
      BY <3>3, <3>4
  <2> QED
    BY <2>1, <2>2
<1>4. PICK q \in DOMAIN OoPath : \E u \in OoPath[q] :
        Current(u) /\ m.rd = u.rd /\ m.mask = u.mask \ kill.clear_mask
  BY <1>3
<1>5. PICK u \in OoPath[q] : Current(u) /\ m.rd = u.rd /\ m.mask = u.mask \ kill.clear_mask
  BY <1>4
<1>6. PICK j \in DOMAIN window : Owns(u, j)
  BY <1>1, <1>5 DEF OwnedOn
<1>7. m.mask = Older(j) /\ window[j].rd = m.rd
  BY <1>5, <1>6 DEF Owns
<1>8. ~(k <= j)
  BY <1>1, <1>7 DEF TagsOK
<1>9. j <= Cut(accepts, mispredict)
  BY <1>2, <1>8
<1>10. Keep(m, kill')
  BY <1>1, <1>7, <1>9, KeepAfter
<1>11. units'["alu"] = RegNext(Shown["alu"], "alu" = Granted(Shown), AluIn)
  BY <1>1, UnitsAfter
<1>12. CASE m \in units'["alu"]
  BY <1>10, <1>12 DEF OnBypass, Current, Keep
<1>13. CASE m \notin units'["alu"]
  <2>1. m \in Shown["alu"]
    BY <1>11, <1>13 DEF RegNext
  <2>2. Granted(Shown) = "alu"
    <3>1. CASE AluIn # {}
      BY <1>1, <2>1, <3>1, UnitInIs
    <3>2. CASE AluIn = {}
      BY <1>11, <1>13, <2>1, <3>2 DEF RegNext
    <3> QED
      BY <3>1, <3>2
  <2>3. ~m.faults
    <3>1. PICK x \in units["alu"] : Passed(m, x)
      BY <1>1, <2>1, OutIs
    <3> QED
      BY <3>1 DEF Before, Shapes, Passed
  <2>4. t \in Written(Shown)
    BY <1>1, <2>1, <2>2, <2>3, WrittenIs
  <2>5. t \in live
    BY <1>1 DEF TagsOK
  <2> QED
    BY <2>4, <2>5, NewTags
<1> QED
  BY <1>12, <1>13

(* An entry that no longer waits had its last source broadcast.            *)
LEMMA AwaitedNext ==
  ASSUME Before, SourcesOK, Awaited,
         NEW accepts, NEW mispredict, NEW retire, NEW offered, NEW freed,
         Step(accepts, mispredict, retire, offered, freed)
  PROVE  Awaited'
<1> SUFFICES ASSUME NEW f \in Queued', Keep(f, kill')
             PROVE  /\ f.waits \cap ready_table' = {}
                    /\ \A t \in f.srcs \ f.waits : t \in ready_table' \/ OnBypass(t)'
  BY DEF Awaited, Current, Keep
<1>1. TagsOK /\ FlowStep(accepts, Renames(accepts, mispredict, offered))
  BY StepIs DEF Before
<1>2. QueuedFrom(f, accepts, mispredict, retire)
  BY QueuedAfter
<1>3. PICK k \in DOMAIN window :
        /\ ~Exception(retire) /\ k <= Cut(accepts, mispredict) /\ f.srcs \subseteq window[k].srcs
        /\ \/ \E e \in Queued : /\ Current(e) /\ f.srcs = e.srcs /\ f.waits = e.waits \ Broadcast
           \/ f.waits = (f.srcs \ ready_table) \ Broadcast
  BY <1>2 DEF QueuedFrom, Same
<1>4. /\ f.waits \cap ready_table = {} /\ f.waits \cap Broadcast = {}
      /\ \A t \in f.srcs \ f.waits : t \in ready_table \/ OnBypass(t) \/ t \in Broadcast
  <2>1. ASSUME NEW e \in Queued, Current(e), f.srcs = e.srcs, f.waits = e.waits \ Broadcast
        PROVE  /\ f.waits \cap ready_table = {} /\ f.waits \cap Broadcast = {}
               /\ \A t \in f.srcs \ f.waits : t \in ready_table \/ OnBypass(t) \/ t \in Broadcast
    BY <2>1 DEF Awaited
  <2>2. CASE f.waits = (f.srcs \ ready_table) \ Broadcast
    BY <2>2
  <2> QED
    BY <1>3, <2>1, <2>2
<1>5. \A t \in ready_table' : t \in ready_table \/ t \in Written(Shown)
  BY <1>1 DEF FlowStep
<1>6. f.waits \cap ready_table' = {}
  BY <1>4, <1>5 DEF Broadcast
<1>7. ASSUME NEW t \in f.srcs \ f.waits
      PROVE  t \in ready_table' \/ OnBypass(t)'
  <2>1. t \in live /\ t \in window[k].srcs
    BY <1>1, <1>3 DEF TagsOK
  <2>2. CASE t \in ready_table \/ t \in Written(Shown)
    BY <2>1, <2>2, NewTags
  <2>3. CASE OnBypass(t) \/ t \in Forwarded
    <3>1. \E m \in Shown["alu"] \cup AluIn : t \in m.rd
      <4>1. CASE OnBypass(t)
        BY <4>1, BypassReaches
      <4>2. CASE t \in Forwarded
        BY <4>2 DEF Forwarded
      <4> QED
        BY <2>3, <4>1, <4>2
    <3> QED
      BY <1>3, <2>1, <3>1, BypassAfter
  <2> QED
    BY <1>4, <2>2, <2>3 DEF Broadcast
<1> QED
  BY <1>6, <1>7

(* An instruction is dispatched after what it reads was written or with it *)
(* on the bypass.                                                          *)
LEMMA FreshNext ==
  ASSUME Before, Awaited, ReadsFresh,
         NEW accepts, NEW mispredict, NEW retire, NEW offered, NEW freed,
         Step(accepts, mispredict, retire, offered, freed)
  PROVE  ReadsFresh'
<1>1. TypeOK /\ FlowStep(accepts, Renames(accepts, mispredict, offered))
  BY StepIs DEF Before
<1>2. \A m \in OoOut \cup IoOut : m.stale = {}
  BY <1>1, OutIs DEF ReadsFresh, Current
<1>3. ASSUME NEW e \in Queued, Current(e), e.waits = {}
      PROVE  e.srcs \ (ready_table \cup Broadcast) = {}
  BY <1>3, BypassReaches DEF Awaited
<1>4. \A m \in Read(OoShown, OoIssued(accepts)) : m.stale = {}
  <2>1. ASSUME NEW m \in Read(OoShown, OoIssued(accepts))
        PROVE  m.stale = {}
    <3>1. PICK k \in OoIssued(accepts) : \E e \in oo_slots[k] :
            Keep(e, kill) /\ e.waits = {} /\ Dispatches(m, e)
      BY <1>1, OoReadIs
    <3>2. PICK e \in oo_slots[k] : Keep(e, kill) /\ e.waits = {} /\ Dispatches(m, e)
      BY <3>1
    <3>3. k \in DOMAIN oo_slots
      BY <1>1, OoIssuedIs DEF TypeOK, Oo!TypeOK
    <3>4. e \in Queued /\ Current(e)
      BY <3>2, <3>3 DEF Queued, Current
    <3> QED
      BY <1>3, <3>2, <3>4 DEF Dispatches
  <2> QED
    BY <2>1
<1>5. \A m \in Read(IoShown, IoIssued(accepts)) : m.stale = {}
  <2>1. ASSUME NEW m \in Read(IoShown, IoIssued(accepts))
        PROVE  m.stale = {}
    <3>1. PICK k \in IoIssued(accepts) : \E e \in io_slots[k] :
            Keep(e, kill) /\ e.waits = {} /\ Dispatches(m, e)
      BY <1>1, IoReadIs
    <3>2. PICK e \in io_slots[k] : Keep(e, kill) /\ e.waits = {} /\ Dispatches(m, e)
      BY <3>1
    <3>3. k \in DOMAIN io_slots
      BY <1>1, IoIssuedIs DEF TypeOK, Io!TypeOK
    <3>4. e \in Queued /\ Current(e)
      BY <3>2, <3>3 DEF Queued, Current
    <3> QED
      BY <1>3, <3>2, <3>4 DEF Dispatches
  <2> QED
    BY <2>1
<1>6. \A m \in oo_dispatch' : m \in OoOut \/ m \in Read(OoShown, OoIssued(accepts))
  BY <1>1 DEF FlowStep, RegNext
<1>7. \A m \in io_dispatch' : m \in IoOut \/ m \in Read(IoShown, IoIssued(accepts))
  BY <1>1 DEF FlowStep, RegNext
<1> QED
  BY <1>2, <1>4, <1>5, <1>6, <1>7 DEF ReadsFresh

------------------------------------------------------------------------------
(****************************************************************************)
(* The order of the memory queue.                                          *)
(****************************************************************************)

(* The messages of the memory queue do not pass each other.                *)
LEMMA IoMoves ==
  ASSUME TypeOK, NEW accepts, NEW added, FlowStep(accepts, added)
  PROVE  /\ \A q \in IoPlaces : IoMove(accepts)[q] \in 0 .. IoSlots =>
              q \in 0 .. IoSlots /\ q \notin IoIssued(accepts)
         /\ \A q \in 0 .. IoSlots : q \notin IoIssued(accepts) => IoMove(accepts)[q] \in 0 .. IoSlots
         /\ \A a, b \in 0 .. IoSlots : \A t \in IoPath[a], u \in IoPath[b] :
              /\ Current(t) /\ Current(u) /\ a < b
              /\ a \notin IoIssued(accepts) /\ b \notin IoIssued(accepts)
              => IoMove(accepts)[a] <= IoMove(accepts)[b]
<1>0. /\ IoSlots \in Nat /\ IoSlots >= 1 /\ Io!Idx = 0 .. IoSlots - 1
      /\ IoIssued(accepts) \subseteq Io!Idx
  BY SchedulerAssumption, IoSame, IoIssuedIs
<1>1. /\ IoMove(accepts)[IoSlots] \in {IoSlots - 1, IoSlots}
      /\ \A k \in Io!Idx : IoMove(accepts)[k] = IF k \in IoIssued(accepts) THEN -1 ELSE IoDest(accepts, k)
      /\ IoMove(accepts)[-1] \in {-1, -2} /\ IoMove(accepts)[-2] \in {Gone, -2}
  BY IoMoveIs DEF IoSend
<1>2. \A k \in Io!Idx : IoDest(accepts, k) \in Io!Idx /\ IoDest(accepts, k) <= k
  BY IoQueue
<1>3. ASSUME NEW q \in IoPlaces, IoMove(accepts)[q] \in 0 .. IoSlots
      PROVE  q \in 0 .. IoSlots /\ q \notin IoIssued(accepts)
  <2>1. q \in {IoSlots, -1, -2} \/ q \in Io!Idx
    BY IoPathIs
  <2>2. q # -1 /\ q # -2
    BY <1>0, <1>1, <1>3 DEF Gone
  <2>3. q \notin IoIssued(accepts)
    BY <1>0, <1>1, <1>3
  <2> QED
    BY <1>0, <2>1, <2>2, <2>3
<1>4. ASSUME NEW q \in 0 .. IoSlots, q \notin IoIssued(accepts)
      PROVE  IoMove(accepts)[q] \in 0 .. IoSlots
  <2>1. CASE q = IoSlots
    BY <1>0, <1>1, <2>1
  <2>2. CASE q \in Io!Idx
    <3>1. IoMove(accepts)[q] \in Io!Idx
      BY <1>1, <1>2, <1>4, <2>2
    <3> QED
      BY <1>0, <3>1
  <2> QED
    BY <1>0, <2>1, <2>2
<1>5. ASSUME NEW a \in 0 .. IoSlots, NEW b \in 0 .. IoSlots, NEW t \in IoPath[a], NEW u \in IoPath[b],
             Current(t), Current(u), a < b, a \notin IoIssued(accepts), b \notin IoIssued(accepts)
      PROVE  IoMove(accepts)[a] <= IoMove(accepts)[b]
  <2>1. a \in Io!Idx /\ IoMove(accepts)[a] = IoDest(accepts, a)
    BY <1>0, <1>1, <1>5
  <2>2. CASE b = IoSlots
    <3>1. IoDest(accepts, a) \in 0 .. IoSlots - 1
      BY <1>0, <1>2, <2>1
    <3>2. IoMove(accepts)[b] \in {IoSlots - 1, IoSlots}
      BY <1>1, <2>2
    <3> QED
      BY <1>0, <2>1, <3>1, <3>2
  <2>3. CASE b \in Io!Idx
    <3>1. PICK d \in io_slots[a] : t = EntryToken(d)
      BY <2>1, IoPathIs
    <3>2. PICK e \in io_slots[b] : u = EntryToken(e)
      BY <2>3, IoPathIs
    <3>3. Keep(d, kill) /\ Keep(e, kill)
      BY <1>5, <3>1, <3>2, TokenIs DEF Current
    <3>4. IoDest(accepts, a) < IoDest(accepts, b)
      BY <1>5, <2>1, <2>3, <3>3, IoQueue
    <3>5. IoDest(accepts, a) \in 0 .. IoSlots - 1 /\ IoDest(accepts, b) \in 0 .. IoSlots - 1
      BY <1>0, <1>2, <2>1, <2>3
    <3>6. IoMove(accepts)[b] = IoDest(accepts, b)
      BY <1>1, <1>5, <2>3
    <3> QED
      BY <1>0, <2>1, <3>4, <3>5, <3>6
  <2> QED
    BY <1>0, <2>2, <2>3
<1> QED
  BY <1>3, <1>4, <1>5

(* What is queued after a cycle was queued before it, or is the newest.    *)
LEMMA IoPlaced ==
  ASSUME Before, NEW accepts, NEW mispredict, NEW retire, NEW offered, NEW freed,
         Step(accepts, mispredict, retire, offered, freed),
         NEW p \in 0 .. IoSlots, NEW t \in IoPath'[p], Keep(t, kill'),
         NEW i \in DOMAIN window', window'[i].seq = t.seq
  PROVE  \/ p = IoSlots /\ i = Len(window')
            /\ ~(i + Skipped(retire) <= Cut(accepts, mispredict))
         \/ \E q \in 0 .. IoSlots : \E u \in IoPath[q] :
              /\ Current(u) /\ Passed(t, u) /\ IoMove(accepts)[q] = p /\ q \notin IoIssued(accepts)
              /\ \E k \in DOMAIN window : Owns(u, k) /\ Same(i, k, accepts, mispredict, retire)
<1>1. /\ Turn(accepts, mispredict, retire, offered) /\ TypeOK /\ Typed /\ WindowOK'
      /\ FlowStep(accepts, Renames(accepts, mispredict, offered))
      /\ RemovedOn(IoPath, IoMove(accepts), "io") /\ OwnedOn(IoPath, "io")
  BY StepIs DEF Before
<1>2. Carries(IoPath, IoPath', IoMove(accepts), IoSlots, "io", accepts, mispredict, offered)
  BY PathsNext DEF Before
<1>3. p \in DOMAIN IoPath' /\ DOMAIN IoPath = IoPlaces
  BY IoPathIs, SchedulerAssumption DEF IoPlaces
<1>4. CASE p = IoSlots /\ t \in Fresh(accepts, mispredict, offered, "io")
  <2>1. PICK j \in DOMAIN window' : j = Len(window') /\ OwnsNext(t, j)
    BY <1>1, <1>4, FreshOwned
  <2>2. i = j
    BY <1>1, <2>1 DEF OwnsNext, WindowOK
  <2>3. offered # {} /\ offered \in Offers
    BY <1>1, <1>4, FreshOwned DEF Turn, Calls
  <2>4. PICK r \in offered : offered = {r}
    BY <1>1, <2>3, OfferIs
  <2>5. /\ ~Exception(retire) /\ Len(window') + Skipped(retire) = Cut(accepts, mispredict) + 1
        /\ Cut(accepts, mispredict) \in Nat
    BY <1>1, <2>4, NewMask, NewestIn, TurnIs
  <2> QED
    BY <1>4, <2>1, <2>2, <2>5
<1>5. ASSUME NEW q \in DOMAIN IoPath, NEW u \in IoPath[q], Current(u), Passed(t, u), IoMove(accepts)[q] = p
      PROVE  \E x \in 0 .. IoSlots : \E y \in IoPath[x] :
              /\ Current(y) /\ Passed(t, y) /\ IoMove(accepts)[x] = p /\ x \notin IoIssued(accepts)
              /\ \E k \in DOMAIN window : Owns(y, k) /\ Same(i, k, accepts, mispredict, retire)
  <2>1. q \in 0 .. IoSlots /\ q \notin IoIssued(accepts)
    BY <1>1, <1>3, <1>5, IoMoves
  <2>2. IoMove(accepts)[q] # Gone
    BY <1>5 DEF Gone
  <2>3. PICK k \in DOMAIN window : \E n \in DOMAIN window' :
           /\ Owns(u, k) /\ Same(n, k, accepts, mispredict, retire)
           /\ \A j \in DOMAIN window' : window'[j].seq = t.seq <=> n = j
    BY <1>1, <1>5, <2>2, Tracked
  <2>4. Owns(u, k) /\ Same(i, k, accepts, mispredict, retire)
    BY <2>3
  <2> QED
    BY <1>5, <2>1, <2>4
<1> QED
  BY <1>1, <1>2, <1>3, <1>4, <1>5, StaysOrFresh

(* The memory queue keeps the order of the window.                         *)
LEMMA QueueOrderNext ==
  ASSUME Before, QueueOrder, NEW accepts, NEW mispredict, NEW retire, NEW offered, NEW freed,
         Step(accepts, mispredict, retire, offered, freed)
  PROVE  QueueOrder'
<1>1. /\ Turn(accepts, mispredict, retire, offered) /\ TypeOK /\ Typed
      /\ FlowStep(accepts, Renames(accepts, mispredict, offered))
  BY StepIs DEF Before
<1>2. /\ Len(window) \in Nat /\ DOMAIN window = 1 .. Len(window) /\ Skipped(retire) \in {0, 1}
      /\ Cut(accepts, mispredict) \in Nat
  BY <1>1, TurnIs
<1> SUFFICES ASSUME NEW p \in 0 .. IoSlots, NEW q \in 0 .. IoSlots,
                    NEW t \in IoPath'[p], NEW u \in IoPath'[q],
                    Keep(t, kill'), Keep(u, kill'), p < q,
                    NEW i \in DOMAIN window', NEW j \in DOMAIN window',
                    window'[i].seq = t.seq, window'[j].seq = u.seq
             PROVE  i < j
  BY DEF QueueOrder, Current, Keep
<1>3. p # IoSlots /\ IoSlots \in Nat
  BY SchedulerAssumption
<1>4. PICK a \in 0 .. IoSlots : \E v \in IoPath[a] :
        /\ Current(v) /\ Passed(t, v) /\ IoMove(accepts)[a] = p /\ a \notin IoIssued(accepts)
        /\ \E k \in DOMAIN window : Owns(v, k) /\ Same(i, k, accepts, mispredict, retire)
  BY <1>3, IoPlaced
<1>5. PICK v \in IoPath[a] :
        /\ Current(v) /\ Passed(t, v) /\ IoMove(accepts)[a] = p /\ a \notin IoIssued(accepts)
        /\ \E k \in DOMAIN window : Owns(v, k) /\ Same(i, k, accepts, mispredict, retire)
  BY <1>4
<1>6. PICK k \in DOMAIN window : Owns(v, k) /\ Same(i, k, accepts, mispredict, retire)
  BY <1>5
<1>7. i = k - Skipped(retire) /\ k <= Cut(accepts, mispredict)
  BY <1>6 DEF Same
<1>8. CASE ~(j + Skipped(retire) <= Cut(accepts, mispredict)) /\ j = Len(window')
  <2>1. ~Exception(retire)
    BY <1>6 DEF Same
  <2>2. DOMAIN window' \subseteq Nat
    BY <1>1, <2>1, WindowNow
  <2> QED
    BY <1>2, <1>7, <1>8, <2>2
<1>9. ASSUME NEW b \in 0 .. IoSlots, NEW w \in IoPath[b], Current(w), Passed(u, w),
             IoMove(accepts)[b] = q, b \notin IoIssued(accepts),
             NEW l \in DOMAIN window, Owns(w, l), Same(j, l, accepts, mispredict, retire)
      PROVE  i < j
  <2>1. a < b
    <3>1. a # b
      BY <1>5, <1>9
    <3>2. ~(b < a)
      <4>1. b < a => IoMove(accepts)[b] <= IoMove(accepts)[a]
        BY <1>1, <1>5, <1>9, IoMoves
      <4> QED
        BY <1>5, <1>9, <4>1
    <3> QED
      BY <1>3, <3>1, <3>2
  <2>2. window[k].seq = v.seq /\ window[l].seq = w.seq
    BY <1>6, <1>9 DEF Owns
  <2>3. k < l
    BY <1>5, <1>9, <2>1, <2>2 DEF QueueOrder
  <2>4. j = l - Skipped(retire)
    BY <1>9 DEF Same
  <2> QED
    BY <1>2, <1>7, <2>3, <2>4
<1> QED
  BY <1>8, <1>9, IoPlaced

(* What is issued from behind a place passes no store, and is none.        *)
LEMMA IoOrdered ==
  ASSUME Before, NEW accepts, NEW a \in 0 .. IoSlots, NEW b \in IoIssued(accepts),
         NEW t \in IoPath[a], NEW u \in IoPath[b], Current(t), Current(u), a < b
  PROVE  t.unit # "store" /\ u.unit # "store"
<1>1. TypeOK /\ Shapes
  BY DEF Before
<1>2. /\ IoSlots \in Nat /\ b \in Io!Idx /\ Io!Idx = 0 .. IoSlots - 1
  BY SchedulerAssumption, IoSame, IoIssuedIs
<1>3. a \in Io!Idx /\ a \in 0 .. b - 1
  BY <1>2
<1>4. PICK d \in io_slots[a] : t = EntryToken(d)
  BY <1>3, IoPathIs
<1>5. PICK e \in io_slots[b] : u = EntryToken(e)
  BY <1>2, IoPathIs
<1>6. Keep(d, kill) /\ Keep(e, kill) /\ t.unit = d.op.unit /\ u.unit = e.op.unit
  BY <1>4, <1>5, TokenIs DEF Current
<1>7. PICK f \in IoShown[a] : Moved(f, d, {}, kill.clear_mask)
  BY <1>1, <1>3, <1>6, IoShownIs
<1>8. PICK g \in IoShown[b] : Moved(g, e, {}, kill.clear_mask)
  BY <1>1, <1>2, <1>6, IoShownIs
<1>9. ~f.ordered /\ ~g.ordered
  BY <1>3, IoIssuedIs
<1>10. ~d.ordered /\ ~e.ordered
  BY <1>7, <1>8, <1>9 DEF Moved
<1> QED
  BY <1>1, <1>2, <1>3, <1>6, <1>10 DEF Shapes

(* A store in the queue keeps what follows it there.                       *)
LEMMA StoresOrderNext ==
  ASSUME Before, QueueOrder, StoresOrder,
         NEW accepts, NEW mispredict, NEW retire, NEW offered, NEW freed,
         Step(accepts, mispredict, retire, offered, freed)
  PROVE  StoresOrder'
<1>1. /\ Turn(accepts, mispredict, retire, offered) /\ TypeOK /\ Typed /\ WindowOK'
      /\ FlowStep(accepts, Renames(accepts, mispredict, offered)) /\ OwnedOn(IoPath, "io")
  BY StepIs DEF Before
<1>2. /\ Len(window) \in Nat /\ DOMAIN window = 1 .. Len(window) /\ Skipped(retire) \in {0, 1}
      /\ Cut(accepts, mispredict) \in Nat
  BY <1>1, TurnIs
<1>3. Carries(IoPath, IoPath', IoMove(accepts), IoSlots, "io", accepts, mispredict, offered)
  BY PathsNext DEF Before
<1>4. DOMAIN IoPath = IoPlaces /\ DOMAIN IoPath' = IoPlaces /\ 0 .. IoSlots \subseteq IoPlaces /\ IoSlots \in 0 .. IoSlots
  BY IoPathIs, SchedulerAssumption DEF IoPlaces
<1> DEFINE WaitingNext(s) == \E p \in 0 .. IoSlots : \E t \in IoPath'[p] : Keep(t, kill') /\ t.seq = s
<1> SUFFICES ASSUME NEW i \in DOMAIN window', NEW j \in DOMAIN window', i < j,
                    {window'[i].unit, window'[j].unit} \in {{"store"}, {"load", "store"}},
                    WaitingNext(window'[i].seq)
             PROVE  WaitingNext(window'[j].seq)
  BY DEF StoresOrder, Waiting, Current, Keep
<1>5. window'[j].unit \in {"load", "store"} /\ (window'[i].unit = "store" \/ window'[j].unit = "store")
  OBVIOUS
<1>6. ~Exception(retire)
  BY <1>1 DEF Turn, WindowStep
<1>7. /\ DOMAIN window' = 1 .. Len(window') /\ Len(window') \in Nat
  BY <1>1, <1>6, WindowNow
<1>8. CASE ~(j + Skipped(retire) <= Cut(accepts, mispredict))
  <2>1. PICK r \in Renamings : offered = {r} /\ Joins(j, r)
    BY <1>1, <1>6, <1>8, EntryJoins
  <2>2. offered \in Offers /\ r \in offered
    BY <1>1, <2>1 DEF Turn, Calls
  <2>3. r.op.unit \in Routed("io") /\ window'[j].seq = NewSeq
    BY <1>5, <2>1 DEF Routed, Joins
  <2>4. PICK t \in Fresh(accepts, mispredict, offered, "io") : t.seq = NewSeq
    BY <1>1, <2>2, <2>3, FreshIs
  <2>5. t \in IoPath'[IoSlots]
    BY <1>3, <2>4 DEF Carries, Follows
  <2>6. Keep(t, kill')
    <3>1. ~kill'.force /\ kill'.kill_mask = {}
      BY <1>1, <2>1, NewMask
    <3> QED
      BY <3>1 DEF Keep
  <2> QED
    BY <1>4, <2>3, <2>4, <2>5, <2>6
<1>9. CASE j + Skipped(retire) <= Cut(accepts, mispredict)
  <2> DEFINE l == j + Skipped(retire)
  <2>1. Carried(j, l, accepts) /\ l <= Cut(accepts, mispredict)
    BY <1>1, <1>6, <1>9, EntryCarried
  <2>2. PICK p \in 0 .. IoSlots : \E t \in IoPath'[p] : Keep(t, kill') /\ t.seq = window'[i].seq
    OBVIOUS
  <2>3. PICK t \in IoPath'[p] : Keep(t, kill') /\ t.seq = window'[i].seq
    BY <2>2
  <2>4. i # Len(window')
    BY <1>7
  <2>5. PICK a \in 0 .. IoSlots : \E v \in IoPath[a] :
          /\ Current(v) /\ a \notin IoIssued(accepts)
          /\ \E k \in DOMAIN window : Owns(v, k) /\ Same(i, k, accepts, mispredict, retire)
    BY <2>3, <2>4, IoPlaced
  <2>6. PICK v \in IoPath[a] :
          /\ Current(v) /\ a \notin IoIssued(accepts)
          /\ \E k \in DOMAIN window : Owns(v, k) /\ Same(i, k, accepts, mispredict, retire)
    BY <2>5
  <2>7. PICK k \in DOMAIN window : Owns(v, k) /\ Same(i, k, accepts, mispredict, retire)
    BY <2>6
  <2>8. k < l
    BY <1>2, <1>7, <2>7 DEF Same
  <2> HIDE DEF l
  <2>9. /\ l \in DOMAIN window /\ window'[j].unit = window[l].unit /\ window'[j].seq = window[l].seq
        /\ window'[i].unit = window[k].unit /\ window[k].seq = v.seq /\ window[k].unit = v.unit
    BY <2>1, <2>7 DEF Carried, Same, Owns
  <2>10. Waiting(window[l].seq)
    BY <2>6, <2>8, <2>9 DEF StoresOrder, Waiting
  <2>11. PICK b \in 0 .. IoSlots : \E u \in IoPath[b] : Current(u) /\ u.seq = window[l].seq
    BY <2>10 DEF Waiting
  <2>12. PICK u \in IoPath[b] : Current(u) /\ u.seq = window[l].seq
    BY <2>11
  <2>13. Owns(u, l)
    BY <1>1, <1>4, <2>9, <2>12, OwnerIs
  <2>14. b \notin IoIssued(accepts)
    <3>1. SUFFICES ASSUME b \in IoIssued(accepts)
                   PROVE  FALSE
      OBVIOUS
    <3>2. a # b
      BY <2>6, <3>1
    <3>3. ~(b < a)
      <4>1. b < a => l < k
        BY <2>6, <2>7, <2>9, <2>12 DEF QueueOrder
      <4>2. k \in Nat /\ l \in Nat
        BY <1>2, <2>7, <2>9
      <4> QED
        BY <2>8, <4>1, <4>2
    <3>4. a < b
      BY <3>2, <3>3, SchedulerAssumption
    <3>5. v.unit # "store" /\ u.unit # "store"
      BY <2>6, <2>12, <3>1, <3>4, IoOrdered
    <3> QED
      BY <1>5, <2>9, <2>13, <3>5 DEF Owns
  <2>15. IoMove(accepts)[b] \in 0 .. IoSlots
    BY <1>1, <2>14, IoMoves
  <2>16. PICK w \in IoPath'[IoMove(accepts)[b]] : Passed(w, u)
    <3>1. IoMove(accepts)[b] # Gone
      BY <2>15 DEF Gone
    <3> QED
      BY <1>3, <1>4, <2>12, <3>1 DEF Carries, Follows, Current
  <2>17. w.mask = Older(l) /\ w.seq = window'[j].seq
    BY <2>9, <2>12, <2>13, <2>16 DEF Owns, Passed
  <2>18. Keep(w, kill')
    BY <1>1, <1>6, <2>1, <2>9, <2>17, KeepAfter
  <2> QED
    BY <2>15, <2>17, <2>18
<1> QED
  BY <1>8, <1>9

------------------------------------------------------------------------------
(****************************************************************************)
(* The invariant holds.                                                    *)
(****************************************************************************)

(* The inductive invariant.                                                *)
Inv ==
  /\ Typed /\ Shapes /\ TagsOK /\ PathOK(OoPath, "oo") /\ PathOK(IoPath, "io")
  /\ RunningResolved /\ SourcesOK /\ Awaited /\ QueueOrder /\ StoresOrder /\ ReadsFresh

(* Nothing is in flight at first.                                          *)
LEMMA EmptyPaths ==
  ASSUME Init
  PROVE  /\ \A p \in OoPlaces : OoPath[p] = {}
         /\ \A p \in IoPlaces : IoPath[p] = {}
         /\ Queued = {}
<1>1. /\ renamed = {} /\ oo_dispatch = {} /\ io_dispatch = {} /\ units["mem"] = {}
      /\ units["alu"] = {} /\ units["other"] = {}
  BY DEF Init
<1>2. /\ \A k \in Oo!Idx : oo_slots[k] = {}
      /\ \A k \in Io!Idx : io_slots[k] = {}
      /\ DOMAIN oo_slots = Oo!Idx /\ DOMAIN io_slots = Io!Idx
  BY DEF Init, Oo!Init, Io!Init, Oo!Idx, Io!Idx
<1>3. \A S : S = {} => Tokens(S) = {}
  BY DEF Tokens
<1>4. \A p \in OoPlaces : OoPath[p] = {}
  <2>1. \A p \in Oo!Idx : OoPath[p] = {}
    BY <1>2, OoPathIs
  <2>2. OoPath[OoSlots] = {} /\ OoPath[-1] = {} /\ OoPath[-2] = {} /\ OoPath[-3] = {}
    BY <1>1, <1>3, OoPathIs
  <2> QED
    BY <2>1, <2>2, OoPathIs
<1>5. \A p \in IoPlaces : IoPath[p] = {}
  <2>1. \A p \in Io!Idx : IoPath[p] = {}
    BY <1>2, IoPathIs
  <2>2. IoPath[IoSlots] = {} /\ IoPath[-1] = {} /\ IoPath[-2] = {}
    BY <1>1, <1>3, IoPathIs
  <2> QED
    BY <2>1, <2>2, IoPathIs
<1>6. Queued = {}
  BY <1>2 DEF Queued
<1> QED
  BY <1>4, <1>5, <1>6

(* The invariant holds at first.                                           *)
LEMMA InitInv == Init => Inv
<1> SUFFICES ASSUME Init PROVE Inv
  OBVIOUS
<1>1. window = <<>> /\ DOMAIN window = {} /\ Len(window) = 0 /\ window \in Seq(Instr)
  BY DEF Init
<1>2. live \subseteq Tags /\ ready_table = Tags /\ kill = NoKill
  BY DEF Init
<1>3. /\ renamed = {} /\ oo_dispatch = {} /\ io_dispatch = {}
      /\ DOMAIN units = {"mem", "alu", "other"}
      /\ \A u \in {"mem", "alu", "other"} : units[u] = {}
  BY DEF Init
<1>4. /\ oo_slots = [k \in Oo!Idx |-> {}] /\ io_slots = [k \in Io!Idx |-> {}]
  BY DEF Init, Oo!Init, Io!Init
<1>5. Oo!TypeOK /\ Io!TypeOK
  BY <1>4 DEF Oo!TypeOK, Io!TypeOK
<1>6. NoKill \in [force : BOOLEAN, kill_mask : SUBSET SnapshotIds, clear_mask : SUBSET SnapshotIds]
  BY DEF NoKill
<1>7. TypeOK
  <2>1. \A S : {} \subseteq S
    OBVIOUS
  <2>2. Len(window) <= RobSize
    BY <1>1, SchedulerAssumption
  <2>3. \A u \in {"mem", "alu", "other"} : units[u] \subseteq DisMsg /\ Single(units[u])
    BY <1>3, <2>1, SingleEmpty
  <2>4. /\ renamed \subseteq RenMsg /\ Single(renamed)
        /\ oo_dispatch \subseteq DisMsg /\ Single(oo_dispatch)
        /\ io_dispatch \subseteq DisMsg /\ Single(io_dispatch)
    BY <1>3, <2>1, SingleEmpty
  <2>5. kill \in [force : BOOLEAN, kill_mask : SUBSET SnapshotIds, clear_mask : SUBSET SnapshotIds]
    BY <1>2, <1>6
  <2> QED
    BY <1>1, <1>2, <1>3, <1>5, <2>2, <2>3, <2>4, <2>5 DEF TypeOK
<1>8. Typed /\ TagsOK /\ Shapes
  BY <1>1, <1>2, <1>3, <1>4, <1>7 DEF Typed, WindowOK, TagsOK, Shapes
<1>9. PathOK(OoPath, "oo") /\ PathOK(IoPath, "io")
  BY <1>1, EmptyPaths, OoPathIs, IoPathIs DEF PathOK, OwnedOn, OnceOn, SomewhereOn
<1>10. RunningResolved /\ SourcesOK /\ Awaited /\ QueueOrder /\ StoresOrder /\ ReadsFresh
  BY <1>1, <1>3, EmptyPaths DEF RunningResolved, SourcesOK, Awaited, QueueOrder, StoresOrder, ReadsFresh
<1> QED
  BY <1>8, <1>9, <1>10 DEF Inv

(* Every step is one cycle.                                                *)
LEMMA NextIsStep ==
  ASSUME Inv, Next
  PROVE  \E accepts, mispredict, retire, offered, freed :
           Step(accepts, mispredict, retire, offered, freed)
<1>1. PICK accepts \in SUBSET {"mem", "other"}, retire \in BOOLEAN : Ticks(accepts, retire)
  BY DEF Next
<1>2. PICK mispredict \in BOOLEAN, freed \in SUBSET Freeable, offered \in Offers :
        Cycle(accepts, mispredict, retire, offered, freed)
  BY <1>1 DEF Ticks, Offers
<1>3. /\ Turn(accepts, mispredict, retire, offered)
      /\ TagsStep(accepts, mispredict, retire, offered, freed)
      /\ Flow(accepts, {Message(r, Unresolved(accepts, mispredict)) : r \in offered})
  BY <1>2, CycleIs DEF Inv
<1>4. FlowStep(accepts, Renames(accepts, mispredict, offered))
  BY <1>3, FlowIs DEF Renames
<1> QED
  BY <1>3, <1>4 DEF Step

(* A cycle keeps the invariant.                                            *)
LEMMA StepInv ==
  ASSUME Inv, NEW accepts, NEW mispredict, NEW retire, NEW offered, NEW freed,
         Step(accepts, mispredict, retire, offered, freed)
  PROVE  Inv'
<1>1. Before
  BY DEF Inv, Before, Typed
<1>2. Typed' /\ Shapes'
  BY TypedNext DEF Inv
<1>3. PathOK(OoPath, "oo")' /\ PathOK(IoPath, "io")'
  BY PathsOK DEF Inv
<1>4. RunningResolved'
  BY RunningNext DEF Inv
<1>5. TagsOK' /\ SourcesOK' /\ Awaited' /\ ReadsFresh' /\ QueueOrder' /\ StoresOrder'
  BY <1>1, TagsNext, SourcesNext, AwaitedNext, FreshNext, QueueOrderNext, StoresOrderNext DEF Inv
<1> QED
  BY <1>2, <1>3, <1>4, <1>5 DEF Inv

(* A step that changes nothing keeps it.                                   *)
LEMMA StutterInv ==
  ASSUME Inv, UNCHANGED vars
  PROVE  Inv'
<1>1. /\ ready_table' = ready_table /\ live' = live /\ window' = window /\ kill' = kill
      /\ renamed' = renamed /\ oo_slots' = oo_slots /\ io_slots' = io_slots
      /\ oo_dispatch' = oo_dispatch /\ io_dispatch' = io_dispatch /\ units' = units
  BY DEF vars, sched
<1>2. OoPath' = OoPath /\ IoPath' = IoPath /\ Queued' = Queued
  BY <1>1 DEF OoPath, IoPath, Queued
<1>3. /\ Typed' /\ Shapes' /\ TagsOK'
  BY <1>1 DEF Inv, Typed, TypeOK, WindowOK, Shapes, TagsOK, Single, NeverFaults, Oo!TypeOK, Io!TypeOK
<1>4. PathOK(OoPath, "oo")' /\ PathOK(IoPath, "io")'
  BY <1>1, <1>2 DEF Inv, PathOK, OwnedOn, OnceOn, SomewhereOn, Current, Keep, Owns, Older, Part
<1>5. RunningResolved' /\ SourcesOK'
  BY <1>1, <1>2 DEF Inv, RunningResolved, SourcesOK, Current, Keep
<1>6. Awaited' /\ ReadsFresh'
  BY <1>1, <1>2 DEF Inv, Awaited, ReadsFresh, OnBypass, Current, Keep
<1>7. QueueOrder' /\ StoresOrder'
  BY <1>1, <1>2 DEF Inv, QueueOrder, StoresOrder, Waiting, Current, Keep
<1> QED
  BY <1>3, <1>4, <1>5, <1>6, <1>7 DEF Inv

(* Each part of an instruction in flight has one message, with the mask of *)
(* the unresolved branches before it, through mispredictions, exceptions   *)
(* and full queues (issue.py, issue_selector.py, dispatch.py,              *)
(* pipe_selector.py, writeback.py).                                        *)
THEOREM SchedulerInvariant == Spec => []Inv
<1>1. Inv /\ [Next]_vars => Inv'
  BY NextIsStep, StepInv, StutterInv
<1> QED
  BY <1>1, InitInv, PTL DEF Spec

------------------------------------------------------------------------------
(****************************************************************************)
(* Each part is in one register: the registers of EachPartOnce are the     *)
(* places of the paths.                                                    *)
(****************************************************************************)

(* There is a current message of the instruction s at a place of the path. *)
At(path, p, s) == \E t \in path[p] : Current(t) /\ t.seq = s

(* A part that is not done is at one place, and the registers of the       *)
(* places are distinct.                                                    *)
LEMMA OneCopy ==
  ASSUME Typed, NEW w \in {"oo", "io"}, NEW path, PathOK(path, w), NEW i \in DOMAIN window,
         NEW reg, NEW copies,
         \A c \in copies : \E p \in DOMAIN path : c = reg[p] /\ At(path, p, window[i].seq),
         \A p \in DOMAIN path : At(path, p, window[i].seq) => reg[p] \in copies
  PROVE  Cardinality(copies) = IF Part(w, i) THEN 1 ELSE 0
<1>0. OwnedOn(path, w) /\ OnceOn(path) /\ SomewhereOn(path, w)
  BY DEF PathOK
<1>1. CASE Part(w, i)
  <2>1. PICK p \in DOMAIN path : At(path, p, window[i].seq)
    BY <1>0, <1>1 DEF SomewhereOn, At
  <2>2. \A q \in DOMAIN path : At(path, q, window[i].seq) => q = p
    BY <1>0, <2>1 DEF OnceOn, At
  <2>3. copies = {reg[p]}
    BY <2>1, <2>2
  <2> QED
    BY <1>1, <2>3, FS_Singleton
<1>2. CASE ~Part(w, i)
  <2>1. \A q \in DOMAIN path : ~At(path, q, window[i].seq)
    BY <1>0, <1>2, OwnerIs DEF At
  <2>2. copies = {}
    BY <2>1
  <2> QED
    BY <1>2, <2>2, FS_EmptySet
<1> QED
  BY <1>1, <1>2

(* The registers of the places.                                            *)
SlotMsg(e) == [seq |-> e.op.seq, mask |-> e.mask]

SlotMsgs(slot) == {SlotMsg(e) : e \in slot}

OoReg ==
  [p \in OoPlaces |->
     IF p = OoSlots THEN <<"renamed", 0, renamed>>
     ELSE IF p = -1 THEN <<"oo_dispatch", 0, oo_dispatch>>
     ELSE IF p = -2 THEN <<"alu", 0, units["alu"]>>
     ELSE IF p = -3 THEN <<"other", 0, units["other"]>>
     ELSE <<"oo", p, SlotMsgs(oo_slots[p])>>]

IoReg ==
  [p \in IoPlaces |->
     IF p = IoSlots THEN <<"renamed", 0, renamed>>
     ELSE IF p = -1 THEN <<"io_dispatch", 0, io_dispatch>>
     ELSE IF p = -2 THEN <<"mem", 0, units["mem"]>>
     ELSE <<"io", p, SlotMsgs(io_slots[p])>>]

(* The registers of the out of order path.                                 *)
LEMMA OoRegIs ==
  /\ OoReg[OoSlots] = <<"renamed", 0, renamed>> /\ OoReg[-1] = <<"oo_dispatch", 0, oo_dispatch>>
  /\ OoReg[-2] = <<"alu", 0, units["alu"]>> /\ OoReg[-3] = <<"other", 0, units["other"]>>
  /\ \A p \in Oo!Idx : OoReg[p] = <<"oo", p, SlotMsgs(oo_slots[p])>>
BY OoPathIs, SchedulerAssumption DEF OoReg

(* The registers of the in order path.                                     *)
LEMMA IoRegIs ==
  /\ IoReg[IoSlots] = <<"renamed", 0, renamed>> /\ IoReg[-1] = <<"io_dispatch", 0, io_dispatch>>
  /\ IoReg[-2] = <<"mem", 0, units["mem"]>>
  /\ \A p \in Io!Idx : IoReg[p] = <<"io", p, SlotMsgs(io_slots[p])>>
BY IoPathIs, SchedulerAssumption DEF IoReg

(* A register holds a message of s.                                        *)
Holds(reg, s) == \E m \in reg : m.seq = s /\ Current(m)

(* What a slot holds.                                                      *)
LEMMA SlotHolds ==
  ASSUME NEW slot, NEW s
  PROVE  Holds(SlotMsgs(slot), s) <=> \E t \in {EntryToken(e) : e \in slot} : Current(t) /\ t.seq = s
<1>1. \A e : SlotMsg(e).seq = e.op.seq /\ (Current(SlotMsg(e)) <=> Keep(e, kill))
  BY DEF SlotMsg, Current, Keep
<1>2. \A e : EntryToken(e).seq = e.op.seq /\ (Current(EntryToken(e)) <=> Keep(e, kill))
  BY TokenIs DEF Current
<1>3. Holds(SlotMsgs(slot), s) <=> \E e \in slot : e.op.seq = s /\ Keep(e, kill)
  BY <1>1 DEF Holds, SlotMsgs
<1> QED
  BY <1>2, <1>3

(* What a register holds.                                                  *)
LEMMA RegHoldsToken ==
  ASSUME NEW reg, NEW s
  PROVE  Holds(reg, s) <=> \E t \in Tokens(reg) : Current(t) /\ t.seq = s
<1>1. \A m : Token(m).seq = m.seq /\ (Current(Token(m)) <=> Current(m))
  BY TokenIs DEF Current
<1> QED
  BY <1>1, TokensIs DEF Holds

(* What rename holds for an instruction in flight is on its paths.         *)
LEMMA RenamedHolds ==
  ASSUME Inv, NEW i \in DOMAIN window
  PROVE  /\ window[i].unit # "load" =>
              (Holds(renamed, window[i].seq) <=> At(OoPath, OoSlots, window[i].seq))
         /\ window[i].unit \in {"load", "store"} =>
              (Holds(renamed, window[i].seq) <=> At(IoPath, IoSlots, window[i].seq))
<1>0. Typed /\ OwnedOn(OoPath, "oo") /\ OwnedOn(IoPath, "io")
  BY DEF Inv, PathOK
<1>1. ASSUME NEW m \in renamed, m.seq = window[i].seq, Current(m)
      PROVE  m.unit = window[i].unit
  <2>1. Current(Token(m)) /\ Token(m).seq = m.seq /\ Token(m).unit = m.unit
    BY <1>1, TokenIs DEF Current
  <2>2. CASE m.unit # "load"
    <3>1. Token(m) \in OoPath[OoSlots] /\ OoSlots \in DOMAIN OoPath
      BY <2>2, OoPathIs, TokensIs
    <3>2. Owns(Token(m), i)
      BY <1>0, <1>1, <2>1, <3>1, OwnerIs
    <3> QED
      BY <2>1, <3>2 DEF Owns
  <2>3. CASE m.unit = "load"
    <3>1. Token(m) \in IoPath[IoSlots] /\ IoSlots \in DOMAIN IoPath
      BY <2>3, IoPathIs, TokensIs
    <3>2. Owns(Token(m), i)
      BY <1>0, <1>1, <2>1, <3>1, OwnerIs
    <3> QED
      BY <2>1, <3>2 DEF Owns
  <2> QED
    BY <2>2, <2>3
<1>2. Holds(renamed, window[i].seq) <=>
        Holds({m \in renamed : m.unit = window[i].unit}, window[i].seq)
  BY <1>1 DEF Holds
<1>3. window[i].unit # "load" =>
        (Holds(renamed, window[i].seq) <=> Holds({m \in renamed : m.unit # "load"}, window[i].seq))
  BY <1>2 DEF Holds
<1>4. window[i].unit \in {"load", "store"} =>
        (Holds(renamed, window[i].seq) <=>
           Holds({m \in renamed : m.unit \in {"load", "store"}}, window[i].seq))
  BY <1>2 DEF Holds
<1> QED
  BY <1>3, <1>4, RegHoldsToken, OoPathIs, IoPathIs DEF At

(* The registers of the out of order path hold what is on the path.        *)
LEMMA OoHolds ==
  ASSUME Inv, NEW i \in DOMAIN window, window[i].unit # "load", NEW p \in OoPlaces
  PROVE  Holds(OoReg[p][3], window[i].seq) <=> At(OoPath, p, window[i].seq)
<1>1. CASE p = OoSlots
  BY <1>1, RenamedHolds, OoRegIs
<1>2. CASE p \in Oo!Idx
  <2>1. OoReg[p][3] = SlotMsgs(oo_slots[p]) /\ OoPath[p] = {EntryToken(e) : e \in oo_slots[p]}
    BY <1>2, OoRegIs, OoPathIs
  <2> QED
    BY <2>1, SlotHolds DEF At
<1>3. CASE p = -1
  BY <1>3, OoRegIs, OoPathIs, RegHoldsToken DEF At
<1>4. CASE p = -2
  BY <1>4, OoRegIs, OoPathIs, RegHoldsToken DEF At
<1>5. CASE p = -3
  BY <1>5, OoRegIs, OoPathIs, RegHoldsToken DEF At
<1> QED
  BY <1>1, <1>2, <1>3, <1>4, <1>5, OoPathIs

(* The same for the in order path.                                         *)
LEMMA IoHolds ==
  ASSUME Inv, NEW i \in DOMAIN window, window[i].unit \in {"load", "store"}, NEW p \in IoPlaces
  PROVE  Holds(IoReg[p][3], window[i].seq) <=> At(IoPath, p, window[i].seq)
<1>1. CASE p = IoSlots
  BY <1>1, RenamedHolds, IoRegIs
<1>2. CASE p \in Io!Idx
  <2>1. IoReg[p][3] = SlotMsgs(io_slots[p]) /\ IoPath[p] = {EntryToken(e) : e \in io_slots[p]}
    BY <1>2, IoRegIs, IoPathIs
  <2> QED
    BY <2>1, SlotHolds DEF At
<1>3. CASE p = -1
  BY <1>3, IoRegIs, IoPathIs, RegHoldsToken DEF At
<1>4. CASE p = -2
  BY <1>4, IoRegIs, IoPathIs, RegHoldsToken DEF At
<1> QED
  BY <1>1, <1>2, <1>3, <1>4, IoPathIs

(* The sets of registers of EachPartOnce, by their places.                 *)
LEMMA RegsAre ==
  ASSUME TypeOK
  PROVE  /\ \A r : r \in RenameReg \cup OoRegs <=>
              \E p \in OoPlaces : p \notin {-2, -3} /\ r = OoReg[p]
         /\ \A r : r \in RenameReg \cup OoRegs \cup UnitRegs({"alu", "other"}) <=>
              \E p \in OoPlaces : r = OoReg[p]
         /\ \A r : r \in RenameReg \cup IoRegs \cup UnitRegs({"mem"}) <=>
              \E p \in IoPlaces : r = IoReg[p]
         /\ \A r : r \in RenameReg \cup QueueRegs(io_slots, "io") <=>
              \E p \in 0 .. IoSlots : r = IoReg[p]
<1>1. DOMAIN oo_slots = Oo!Idx /\ DOMAIN io_slots = Io!Idx
  BY DEF TypeOK, Oo!TypeOK, Io!TypeOK
<1>2. \A r : r \in QueueRegs(oo_slots, "oo") <=> \E p \in Oo!Idx : r = OoReg[p]
  BY <1>1, OoRegIs DEF QueueRegs, SlotMsgs, SlotMsg
<1>3. \A r : r \in QueueRegs(io_slots, "io") <=> \E p \in Io!Idx : r = IoReg[p]
  BY <1>1, IoRegIs DEF QueueRegs, SlotMsgs, SlotMsg
<1>4. \A r : r \in RenameReg <=> r = OoReg[OoSlots]
  BY OoRegIs DEF RenameReg
<1>5. \A r : r \in RenameReg <=> r = IoReg[IoSlots]
  BY IoRegIs DEF RenameReg
<1>6. \A r : r \in UnitRegs({"alu", "other"}) <=> r = OoReg[-2] \/ r = OoReg[-3]
  BY OoRegIs DEF UnitRegs
<1>7. \A r : r \in UnitRegs({"mem"}) <=> r = IoReg[-2]
  BY IoRegIs DEF UnitRegs
<1>8. \A r : r \in OoRegs <=> r \in QueueRegs(oo_slots, "oo") \/ r = OoReg[-1]
  BY OoRegIs DEF OoRegs
<1>9. \A r : r \in IoRegs <=> r \in QueueRegs(io_slots, "io") \/ r = IoReg[-1]
  BY IoRegIs DEF IoRegs
<1>10. \A p : p \in 0 .. IoSlots <=> p = IoSlots \/ p \in Io!Idx
  BY IoSame, SchedulerAssumption
<1> QED
  BY <1>2, <1>3, <1>4, <1>5, <1>6, <1>7, <1>8, <1>9, <1>10, OoPathIs, IoPathIs

(* Each part that is not done is in one register, and each that is done in *)
(* none.                                                                   *)
LEMMA EachPart == Inv => EachPartOnce
<1> SUFFICES ASSUME Inv PROVE EachPartOnce
  OBVIOUS
<1>0. Typed /\ TypeOK /\ Shapes /\ PathOK(OoPath, "oo") /\ PathOK(IoPath, "io")
  BY DEF Inv, Typed
<1>1. \A i, regs : Copies(i, regs) = {r \in regs : Holds(r[3], window[i].seq)}
  BY DEF Copies, Holds
<1>2. \A i \in DOMAIN window : window[i].unit \in Units
  BY <1>0 DEF TypeOK, Instr
<1>3. ASSUME NEW i \in DOMAIN window
      PROVE  Cardinality(Copies(i, ResultPath(window[i].unit))) =
               (IF "result" \in window[i].todo THEN 1 ELSE 0)
  <2> DEFINE copies == Copies(i, ResultPath(window[i].unit))
  <2>1. CASE window[i].unit \in {"load", "store"}
    <3>1. ResultPath(window[i].unit) = RenameReg \cup IoRegs \cup UnitRegs({"mem"})
      BY <2>1 DEF ResultPath
    <3>2. \A r : r \in ResultPath(window[i].unit) <=> \E p \in IoPlaces : r = IoReg[p]
      BY <1>0, <3>1, RegsAre
    <3>3. \A c \in copies : \E p \in DOMAIN IoPath : c = IoReg[p] /\ At(IoPath, p, window[i].seq)
      BY <1>1, <2>1, <3>2, IoHolds, IoPathIs
    <3>4. \A p \in DOMAIN IoPath : At(IoPath, p, window[i].seq) => IoReg[p] \in copies
      BY <1>1, <2>1, <3>2, IoHolds, IoPathIs
    <3> HIDE DEF copies
    <3>5. Cardinality(copies) = IF Part("io", i) THEN 1 ELSE 0
      BY <1>0, <3>3, <3>4, OneCopy
    <3>6. Part("io", i) <=> "result" \in window[i].todo
      BY <2>1 DEF Part, Routed, PartName
    <3> QED
      BY <3>5, <3>6 DEF copies
  <2>2. CASE window[i].unit \in {"alu", "other"}
    <3>1. ResultPath(window[i].unit) = RenameReg \cup OoRegs \cup UnitRegs({"alu", "other"})
      BY <2>2 DEF ResultPath
    <3>2. \A r : r \in ResultPath(window[i].unit) <=> \E p \in OoPlaces : r = OoReg[p]
      BY <1>0, <3>1, RegsAre
    <3>3. \A c \in copies : \E p \in DOMAIN OoPath : c = OoReg[p] /\ At(OoPath, p, window[i].seq)
      BY <1>1, <2>2, <3>2, OoHolds, OoPathIs
    <3>4. \A p \in DOMAIN OoPath : At(OoPath, p, window[i].seq) => OoReg[p] \in copies
      BY <1>1, <2>2, <3>2, OoHolds, OoPathIs
    <3> HIDE DEF copies
    <3>5. Cardinality(copies) = IF Part("oo", i) THEN 1 ELSE 0
      BY <1>0, <3>3, <3>4, OneCopy
    <3>6. Part("oo", i) <=> "result" \in window[i].todo
      BY <2>2 DEF Part, Routed, PartName
    <3> QED
      BY <3>5, <3>6 DEF copies
  <2> QED
    BY <1>2, <2>1, <2>2 DEF Units
<1>4. ASSUME NEW i \in DOMAIN window, window[i].unit = "store"
      PROVE  Cardinality(Copies(i, RenameReg \cup OoRegs)) =
               (IF "data" \in window[i].todo THEN 1 ELSE 0)
  <2> DEFINE copies == Copies(i, RenameReg \cup OoRegs)
  <2>1. \A c \in copies : \E p \in DOMAIN OoPath : c = OoReg[p] /\ At(OoPath, p, window[i].seq)
    BY <1>0, <1>1, <1>4, RegsAre, OoHolds, OoPathIs
  <2>2. ~At(OoPath, -2, window[i].seq) /\ ~At(OoPath, -3, window[i].seq)
    <3>1. ASSUME NEW q \in {-2, -3}, At(OoPath, q, window[i].seq)
          PROVE  FALSE
      <4>1. PICK t \in OoPath[q] : Current(t) /\ t.seq = window[i].seq
        BY <3>1 DEF At
      <4>2. q \in DOMAIN OoPath
        BY OoPathIs
      <4>3. t.unit = "store"
        BY <1>0, <1>4, <4>1, <4>2, OwnerIs DEF PathOK, Owns
      <4>4. t.unit \in {"alu", "other"}
        <5>1. CASE q = -2
          <6>1. PICK x \in units["alu"] : t = Token(x)
            BY <5>1, OoPathIs, TokensIs
          <6> QED
            BY <1>0, <6>1, TokenIs DEF Shapes
        <5>2. CASE q = -3
          <6>1. PICK x \in units["other"] : t = Token(x)
            BY <5>2, OoPathIs, TokensIs
          <6> QED
            BY <1>0, <6>1, TokenIs DEF Shapes
        <5> QED
          BY <5>1, <5>2
      <4> QED
        BY <4>3, <4>4
    <3> QED
      BY <3>1
  <2>3. \A p \in DOMAIN OoPath : At(OoPath, p, window[i].seq) => OoReg[p] \in copies
    <3>1. ASSUME NEW p \in DOMAIN OoPath, At(OoPath, p, window[i].seq)
          PROVE  OoReg[p] \in copies
      <4>1. p \in OoPlaces /\ p \notin {-2, -3}
        BY <2>2, <3>1, OoPathIs
      <4>2. OoReg[p] \in RenameReg \cup OoRegs
        BY <1>0, <4>1, RegsAre
      <4>3. Holds(OoReg[p][3], window[i].seq)
        BY <1>4, <3>1, <4>1, OoHolds
      <4> QED
        BY <1>1, <4>2, <4>3
    <3> QED
      BY <3>1
  <2> HIDE DEF copies
  <2>4. Cardinality(copies) = IF Part("oo", i) THEN 1 ELSE 0
    BY <1>0, <2>1, <2>3, OneCopy
  <2>5. Part("oo", i) <=> "data" \in window[i].todo
    BY <1>4 DEF Part, Routed, PartName
  <2> QED
    BY <2>4, <2>5 DEF copies
<1>5. ASSUME NEW r \in RenameReg \cup OoRegs \cup IoRegs \cup UnitRegs(DOMAIN units),
             NEW m \in r[3], Current(m)
      PROVE  InWindow({m.seq}) # {}
  <2>1. \/ \E t \in Tokens(renamed) : Current(t) /\ t.seq = m.seq
        \/ \E p \in DOMAIN OoPath : At(OoPath, p, m.seq)
        \/ \E p \in DOMAIN IoPath : At(IoPath, p, m.seq)
    <3>1. Holds(r[3], m.seq)
      BY <1>5 DEF Holds
    <3>2. CASE r = OoReg[OoSlots]
      BY <3>1, <3>2, OoRegIs, RegHoldsToken
    <3>3. ASSUME NEW p \in Oo!Idx, r = OoReg[p]
          PROVE  At(OoPath, p, m.seq) /\ p \in DOMAIN OoPath
      <4>1. r[3] = SlotMsgs(oo_slots[p]) /\ OoPath[p] = {EntryToken(e) : e \in oo_slots[p]}
        BY <3>3, OoRegIs, OoPathIs
      <4> QED
        BY <3>1, <4>1, SlotHolds, OoPathIs DEF At
    <3>4. ASSUME NEW p \in Io!Idx, r = IoReg[p]
          PROVE  At(IoPath, p, m.seq) /\ p \in DOMAIN IoPath
      <4>1. r[3] = SlotMsgs(io_slots[p]) /\ IoPath[p] = {EntryToken(e) : e \in io_slots[p]}
        BY <3>4, IoRegIs, IoPathIs
      <4> QED
        BY <3>1, <4>1, SlotHolds, IoPathIs DEF At
    <3>5. ASSUME NEW p \in {-1, -2, -3}, r = OoReg[p]
          PROVE  At(OoPath, p, m.seq) /\ p \in DOMAIN OoPath
      BY <3>1, <3>5, OoRegIs, OoPathIs, RegHoldsToken DEF At
    <3>6. ASSUME NEW p \in {-1, -2}, r = IoReg[p]
          PROVE  At(IoPath, p, m.seq) /\ p \in DOMAIN IoPath
      BY <3>1, <3>6, IoRegIs, IoPathIs, RegHoldsToken DEF At
    <3>7. \/ r \in RenameReg \cup OoRegs \cup UnitRegs({"alu", "other"})
          \/ r \in RenameReg \cup IoRegs \cup UnitRegs({"mem"})
      BY <1>0, <1>5 DEF UnitRegs, TypeOK
    <3>8. (\E p \in OoPlaces : r = OoReg[p]) \/ (\E p \in IoPlaces : r = IoReg[p])
      BY <1>0, <3>7, RegsAre
    <3>9. OoReg[OoSlots] = IoReg[IoSlots]
      BY OoRegIs, IoRegIs
    <3> QED
      BY <3>2, <3>3, <3>4, <3>5, <3>6, <3>8, <3>9, OoPathIs, IoPathIs
  <2>2. \A path, w : PathOK(path, w) /\ (\E p \in DOMAIN path : At(path, p, m.seq)) =>
          \E i \in DOMAIN window : window[i].seq = m.seq
    BY DEF PathOK, OwnedOn, Owns, At
  <2>3. ASSUME NEW t \in Tokens(renamed), Current(t), t.seq = m.seq
        PROVE  \E i \in DOMAIN window : window[i].seq = m.seq
    <3>1. PICK x \in renamed : t = Token(x)
      BY TokensIs
    <3>2. x.unit # "load" \/ x.unit \in {"load", "store"}
      OBVIOUS
    <3>3. t \in OoPath[OoSlots] \/ t \in IoPath[IoSlots]
      BY <3>1, <3>2, OoPathIs, IoPathIs, TokensIs
    <3> QED
      BY <1>0, <2>2, <2>3, <3>3, OoPathIs, IoPathIs DEF At
  <2> QED
    BY <1>0, <2>1, <2>2, <2>3 DEF InWindow
<1> QED
  BY <1>3, <1>4, <1>5 DEF EachPartOnce

(* A load in the memory queue or behind it has the older stores before it. *)
LEMMA OrderKept == Inv => MemoryOrder
<1> SUFFICES ASSUME Inv, NEW i \in DOMAIN window, NEW j \in DOMAIN window, i < j,
                    {window[i].unit, window[j].unit} \in {{"store"}, {"load", "store"}},
                    Copies(i, RenameReg \cup QueueRegs(io_slots, "io")) # {}
             PROVE  Copies(j, RenameReg \cup QueueRegs(io_slots, "io")) # {}
  BY DEF MemoryOrder
<1>0. TypeOK /\ StoresOrder
  BY DEF Inv, Typed
<1>1. \A n, regs : Copies(n, regs) = {r \in regs : Holds(r[3], window[n].seq)}
  BY DEF Copies, Holds
<1>2. window[i].unit \in {"load", "store"} /\ window[j].unit \in {"load", "store"}
  OBVIOUS
<1>3. 0 .. IoSlots \subseteq IoPlaces
  BY SchedulerAssumption DEF IoPlaces
<1>4. ASSUME NEW n \in DOMAIN window, window[n].unit \in {"load", "store"}
      PROVE  Copies(n, RenameReg \cup QueueRegs(io_slots, "io")) # {} <=> Waiting(window[n].seq)
  <2>1. \A p \in 0 .. IoSlots : Holds(IoReg[p][3], window[n].seq) <=> At(IoPath, p, window[n].seq)
    BY <1>3, <1>4, IoHolds
  <2>2. Waiting(window[n].seq) <=> \E p \in 0 .. IoSlots : At(IoPath, p, window[n].seq)
    BY DEF Waiting, At
  <2>3. Copies(n, RenameReg \cup QueueRegs(io_slots, "io")) # {} <=>
          \E p \in 0 .. IoSlots : Holds(IoReg[p][3], window[n].seq)
    <3> DEFINE regs == RenameReg \cup QueueRegs(io_slots, "io")
    <3>1. \A r : r \in regs <=> \E p \in 0 .. IoSlots : r = IoReg[p]
      BY <1>0, RegsAre
    <3> HIDE DEF regs
    <3>2. Copies(n, regs) # {} <=> \E r \in regs : Holds(r[3], window[n].seq)
      BY <1>1
    <3>3. Copies(n, regs) # {} <=> \E p \in 0 .. IoSlots : Holds(IoReg[p][3], window[n].seq)
      BY <3>1, <3>2
    <3> QED
      BY <3>3 DEF regs
  <2> QED
    BY <2>1, <2>2, <2>3
<1> QED
  BY <1>0, <1>2, <1>4 DEF StoresOrder

(* What an entry waits for is broadcast later, or its producer faulted and *)
(* the entry will be flushed.                                              *)
LEMMA WakeupsKept == Inv => NoLostWakeup
<1> SUFFICES ASSUME Inv, NEW e \in Queued, Current(e), NEW t \in e.waits
             PROVE  /\ t \notin ready_table
                    /\ \E i, j \in DOMAIN window :
                         /\ i < j /\ window[j].seq = e.op.seq /\ t \in window[i].rd
                         /\ "result" \in window[i].todo \/ window[i].faults
  BY DEF NoLostWakeup
<1>0. /\ TypeOK /\ TagsOK /\ SourcesOK /\ Awaited
      /\ OwnedOn(OoPath, "oo") /\ OwnedOn(IoPath, "io")
  BY DEF Inv, Typed, PathOK
<1>1. t \notin ready_table
  BY <1>0 DEF Awaited
<1>2. PICK k \in DOMAIN window : window[k].seq = e.op.seq
  <2>1. DOMAIN oo_slots = Oo!Idx /\ DOMAIN io_slots = Io!Idx
    BY <1>0 DEF TypeOK, Oo!TypeOK, Io!TypeOK
  <2>2. Current(EntryToken(e)) /\ EntryToken(e).seq = e.op.seq
    BY TokenIs DEF Current
  <2>3. CASE \E p \in Oo!Idx : e \in oo_slots[p]
    <3>1. \E p \in DOMAIN OoPath : EntryToken(e) \in OoPath[p]
      BY <2>3, OoPathIs
    <3> QED
      BY <1>0, <2>2, <3>1 DEF OwnedOn, Owns
  <2>4. CASE \E p \in Io!Idx : e \in io_slots[p]
    <3>1. \E p \in DOMAIN IoPath : EntryToken(e) \in IoPath[p]
      BY <2>4, IoPathIs
    <3> QED
      BY <1>0, <2>2, <3>1 DEF OwnedOn, Owns
  <2> QED
    BY <2>1, <2>3, <2>4 DEF Queued
<1>3. e.waits \subseteq e.srcs
  <2>1. DOMAIN oo_slots = Oo!Idx /\ DOMAIN io_slots = Io!Idx
    BY <1>0 DEF TypeOK, Oo!TypeOK, Io!TypeOK
  <2> QED
    BY <1>0, <2>1 DEF Queued, TypeOK, Oo!TypeOK, Io!TypeOK
<1>4. t \in window[k].srcs /\ t \in live
  BY <1>0, <1>2, <1>3 DEF SourcesOK, TagsOK
<1>5. PICK i \in DOMAIN window :
        t \in window[i].rd /\ ("result" \in window[i].todo \/ window[i].faults)
  BY <1>0, <1>1, <1>4 DEF TagsOK
<1>6. ~(k <= i)
  BY <1>0, <1>4, <1>5 DEF TagsOK
<1>7. i \in Nat /\ k \in Nat
  <2>1. window \in Seq(Instr)
    BY DEF Inv, Typed
  <2> QED
    BY <2>1
<1>8. i < k
  BY <1>6, <1>7
<1> QED
  BY <1>1, <1>2, <1>5, <1>8

(* Each part of an instruction in flight is in exactly one register        *)
(* between rename and writeback, a store's address and data separately     *)
(* (issue_selector.py).                                                    *)
THEOREM EachPartSafe == Spec => []EachPartOnce
BY SchedulerInvariant, EachPart, PTL

(* An entry that waits for a register will see the broadcast of its writer *)
(* (issue.py, notify while the entry is added or moved).                   *)
THEOREM WakeupSafe == Spec => []NoLostWakeup
BY SchedulerInvariant, WakeupsKept, PTL

(* No instruction reads a register before it is written or on the bypass   *)
(* (dispatch.py, dataflow.py).                                             *)
THEOREM FreshSafe == Spec => []ReadsFresh
<1>1. Inv => ReadsFresh
  BY DEF Inv
<1> QED
  BY <1>1, SchedulerInvariant, PTL

(* Stores leave the memory queue in order and nothing younger leaves       *)
(* before them (issue.py, with ordered stores).                            *)
THEOREM MemoryOrderSafe == Spec => []MemoryOrder
BY SchedulerInvariant, OrderKept, PTL
================================================================================
