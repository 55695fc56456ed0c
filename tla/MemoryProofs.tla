----------------------------- MODULE MemoryProofs -----------------------------
(* Loads read in program order, answers go to whom they are for, and the   *)
(* tables hold their own entries, for every set of accesses, values,       *)
(* numbers, snapshots and store identifiers, and any delay of the memory.  *)
EXTENDS MemorySystem, SequenceTheorems, FiniteSetTheorems, TLAPS

------------------------------------------------------------------------------
(****************************************************************************)
(* The inductive invariant.  Everything in flight belongs to an entry of   *)
(* the window: what the queue, the dispatch register and the living        *)
(* messages of the pipe have (MessagesOwned), and what waits in the store  *)
(* data pipe (DataOwned).  A message and its owner agree on the number and *)
(* the identifier, and the mask of the message, without what has just been *)
(* resolved, is that of the unresolved branches before the owner.          *)
(****************************************************************************)

(* The unresolved branches before an entry.                                *)
Older(i) == UNION {window[j].spec : j \in 1 .. i - 1}

(* What is in flight.  An answer is data, or the address that a store      *)
(* passes on.                                                              *)
Data == UNION {[a -> Values] : a \in Accesses}

Entry ==
  [seq : Seqs, kind : Kinds, bytes : Accesses \cup {{}}, val : Optional(Values),
   sid : Optional(StoreIds), spec : Optional(SnapshotIds), done : BOOLEAN,
   answer : Data \cup {<<>>}]

Msg(kinds, contents) ==
  [seq : Seqs, kind : kinds, bytes : contents, sid : Optional(StoreIds),
   mask : SUBSET SnapshotIds]

Sent == Msg({"load", "store"}, Accesses)

Answered == Msg({"load"}, Data) \cup Msg({"store"}, Accesses)

DataMsg ==
  [seq : Seqs, sid : Optional(StoreIds), val : {{v} : v \in Values}, mask : SUBSET SnapshotIds]

Track == [mask : SUBSET SnapshotIds, dead : BOOLEAN]

Request ==
  [type : {"write"}, delay : Nat] \cup [type : {"read"}, delay : Nat, data : Data]

(* A register has at most one element.                                     *)
Single(S, T) == S \subseteq T /\ \A x, y \in S : x = y

(* The types of the state.                                                 *)
TypeOK ==
  /\ \A i \in DOMAIN window : window[i] \in Entry
  /\ kill \in [force : BOOLEAN, kill_mask : SUBSET SnapshotIds, clear_mask : SUBSET SnapshotIds]
  /\ \A k \in DOMAIN queue : queue[k] \in Sent
  /\ data_queue \subseteq DataMsg
  /\ Single(dispatched, Sent) /\ Single(internal[1], Sent) /\ Single(internal[2], Answered)
  /\ Single(vvms[1], Track) /\ Single(vvms[2], Track) /\ Single(bus, Request)
  /\ address_table \in [StoreIds -> Accesses \cup {{}}] /\ address_valid \subseteq StoreIds
  /\ store_data \in [StoreIds -> Values] /\ data_valid \subseteq StoreIds
  /\ store_in_flight \in BOOLEAN
  /\ memory \in [Bytes -> Values]

(* Numbers, identifiers and snapshots are given once.                      *)
WindowOK ==
  \A i \in DOMAIN window :
    /\ \A j \in DOMAIN window :
         i # j => /\ window[i].seq # window[j].seq
                  /\ window[i].sid \cap window[j].sid = {}
                  /\ window[i].spec \cap window[j].spec = {}
    /\ window[i].kind \in {"load", "store"} => window[i].bytes \in Accesses
    /\ window[i].kind = "store" <=> window[i].sid # {}
    /\ window[i].kind = "store" <=> window[i].val # {}
    /\ window[i].spec # {} => window[i].kind = "branch"

(* Where the two rows of the pipe have messages.                           *)
RowsOK ==
  /\ internal[2] # {} => vvms[2] # {}
  /\ internal[1] # {} /\ internal[2] # {} <=> vvms[1] # {} /\ vvms[2] # {}  /\ internal[2] # {}
  /\ internal[1] = {} => vvms[1] = {}
  /\ internal[1] = {} /\ internal[2] = {} => vvms[2] = {}
  /\ internal[1] # {} /\ internal[2] = {} => (vvms[1] = {} <=> vvms[2] # {})

(* The messages that the row beside them has not marked dead, with the     *)
(* mask that it has for them.                                              *)
Living(messages, tracks) ==
  {[m EXCEPT !.mask = v.mask] : m \in messages, v \in {x \in tracks : ~x.dead}}

LivingFirst ==
  Living(internal[1], IF internal[2] = {} /\ vvms[2] # {} THEN vvms[2] ELSE vvms[1])

LivingSecond == Living(internal[2], vvms[2])

(* Message m is on its way for the i-th instruction in flight.             *)
Owns(m, i) ==
  /\ window[i].seq = m.seq /\ window[i].kind = m.kind /\ window[i].sid = m.sid
  /\ m.mask \ kill.clear_mask = Older(i) /\ ~window[i].done

Owned(m) == \E i \in DOMAIN window : Owns(m, i)

OwnedWithBytes(m) == \E i \in DOMAIN window : Owns(m, i) /\ window[i].bytes = m.bytes

(* What waits in the issue queue.                                          *)
QueueMsgs == {queue[k] : k \in DOMAIN queue}

(* Who owns what is in flight.                                             *)
MessagesOwned ==
  /\ \A m \in QueueMsgs \cup dispatched \cup LivingFirst : Keep(m, kill) => OwnedWithBytes(m)
  /\ \A m \in LivingSecond : Keep(m, kill) => Owned(m)

(* The datum of a store that has not reached the table.                    *)
OwnsData(m, i) ==
  /\ window[i].seq = m.seq /\ window[i].sid = m.sid /\ window[i].val = m.val
  /\ window[i].kind = "store" /\ window[i].sid \cap data_valid = {}
  /\ m.mask \ kill.clear_mask = Older(i)

DataOwned ==
  /\ \A m \in data_queue : Keep(m, kill) => \E i \in DOMAIN window : OwnsData(m, i)
  /\ \A m, n \in data_queue : m.seq = n.seq => m = n

(* No instruction is in two places.                                        *)
SeqsOf(S) == {m.seq : m \in S}

Once ==
  /\ \A k, l \in DOMAIN queue : queue[k].seq = queue[l].seq => k = l
  /\ SeqsOf(QueueMsgs) \cap SeqsOf(dispatched \cup LivingFirst \cup LivingSecond) = {}
  /\ SeqsOf(dispatched) \cap SeqsOf(LivingFirst \cup LivingSecond) = {}
  /\ SeqsOf(LivingFirst) \cap SeqsOf(LivingSecond) = {}

(* The queue has the order of the window, and a kill spares a prefix.      *)
QueueOrder ==
  \A k, l \in DOMAIN queue : k < l /\ Keep(queue[l], kill) =>
    /\ Keep(queue[k], kill)
    /\ \A i, j \in DOMAIN window :
         window[i].seq = queue[k].seq /\ window[j].seq = queue[l].seq => i < j

(* A store whose address is not in the table has not been sent.            *)
StoresWait ==
  \A i \in DOMAIN window : window[i].kind = "store" =>
     \/ window[i].sid \subseteq address_valid
     \/ \E m \in QueueMsgs \cup dispatched : m.seq = window[i].seq /\ Keep(m, kill)

(* What is dispatched is older than the stores in the queue.               *)
NoneOvertakes ==
  \A m \in dispatched : Keep(m, kill) =>
    \A k \in DOMAIN queue : Keep(queue[k], kill) /\ queue[k].kind = "store" =>
      \A i, j \in DOMAIN window :
         window[i].seq = m.seq /\ window[j].seq = queue[k].seq => i < j

(* A store in the pipe has its address in the table.                       *)
StoresEntered ==
  \A m \in LivingFirst \cup LivingSecond : m.kind = "store" /\ Keep(m, kill) => m.sid \subseteq address_valid

(* No older store in flight writes a byte that the access reads.           *)
NoOlderStore(i) ==
  \A j \in 1 .. i - 1 : window[j].kind = "store" => window[j].bytes \cap window[i].bytes = {}

(* A load that is answered, on the bus, in the pipe or in the window, has  *)
(* what memory has now, and no store before it will change that.           *)
LoadsFresh ==
  /\ \A m \in LivingFirst : m.kind = "load" /\ Keep(m, kill) =>
       \A i \in DOMAIN window : window[i].seq = m.seq =>
         NoOlderStore(i) /\ \A r \in bus : r.data = ReadData(window[i].bytes)
  /\ \A m \in LivingSecond : m.kind = "load" /\ Keep(m, kill) =>
       \A i \in DOMAIN window : window[i].seq = m.seq =>
         NoOlderStore(i) /\ m.bytes = ReadData(window[i].bytes)
  /\ \A i \in DOMAIN window : window[i].kind = "load" /\ window[i].done =>
         NoOlderStore(i) /\ window[i].answer = ReadData(window[i].bytes)

(* What the dispatch register shows, and which stages take what they are   *)
(* given.                                                                  *)
InPeek == Peek(dispatched, kill)

Accepts(send_store) ==
  (IF \A m \in InPeek : CanSend(m, send_store) THEN {1} ELSE {})
    \cup (IF \A m \in InResponse : CanAccept(m) THEN {2} ELSE {})

PipeInputs(send_store) ==
  [i \in 1 .. 2 |-> IF i = 1 THEN InPeek
                    ELSE IF 2 \in Accepts(send_store) THEN {Received(m) : m \in InResponse}
                    ELSE InResponse]

(* The pipe shows an answer; the request stage can move; the message at    *)
(* the front is sent.                                                      *)
Shows == Mem!OutPeek(kill) # {}

Moves == \A m \in InResponse : CanAccept(m)

Sends(send_store) ==
  /\ InPeek # {} /\ \A m \in InPeek : CanSend(m, send_store)
  /\ internal[1] = {} \/ Moves

Taken(send_store) == IF Sends(send_store) THEN InPeek ELSE {}

------------------------------------------------------------------------------
(****************************************************************************)
(* The pipe.  Of the two rows of the wrapper only the living messages      *)
(* count, and of the wrapper's conditions for two stages only Sends and    *)
(* Moves.                                                                  *)
(****************************************************************************)

(* There are two stages.                                                   *)
LEMMA StagesAre == Mem!Stages = {1, 2}
  BY DEF Mem!Stages

(* What the broadcast makes of a tracking register.                        *)
Marked(v) == [mask |-> v.mask \ kill.clear_mask, dead |-> v.dead \/ ~Keep(v, kill)]

(* Marked, field by field.                                                 *)
LEMMA MarkedFields ==
  ASSUME NEW v
  PROVE  /\ Marked(v).mask = v.mask \ kill.clear_mask
         /\ Marked(v).dead <=> v.dead \/ ~Keep(v, kill)
BY DEF Marked

(* The tracking registers under the broadcast, one stage at a time.        *)
LEMMA TrackedIs ==
  ASSUME NEW i \in {1, 2}
  PROVE  Mem!Tracked(kill)[i] = {Marked(v) : v \in vvms[i]}
<1>1. Mem!Tracked(kill) = [j \in Mem!Stages |-> {Marked(v) : v \in vvms[j]}]
  BY DEF Mem!Tracked, Marked, Mem!Keep, Keep
<1> QED
  BY <1>1, StagesAre

(* What is shown at the end.                                               *)
LEMMA OutIs ==
  ASSUME RowsOK, TypeOK
  PROVE  /\ Mem!OutTake(kill, Shows) <=> internal[2] # {}
         /\ Mem!OutPeek(kill) = Peek(LivingSecond, kill)
<1>1. 2 \in Mem!Stages
  BY StagesAre
<1>2. Mem!Tracked(kill)[2] = {Marked(v) : v \in vvms[2]}
  BY TrackedIs
<1>3. Mem!OutTake(kill, Shows) <=> internal[2] # {}
  <2>1. internal[2] # {} => vvms[2] # {}
    BY DEF RowsOK
  <2>2. Mem!OutTake(kill, Shows) => internal[2] # {}
    BY DEF Mem!OutTake, Mem!Eating, Shows, Mem!OutPeek
  <2>3. ASSUME internal[2] # {} PROVE Mem!OutTake(kill, Shows)
    <3>1. PICK v \in Mem!Tracked(kill)[2] : TRUE
      BY <1>2, <2>1, <2>3
    <3>2. CASE v.dead
      BY <2>3, <3>1, <3>2 DEF Mem!OutTake, Mem!Eating
    <3>3. CASE ~v.dead
      <4>1. PICK m \in internal[2] : TRUE
        BY <2>3
      <4>2. [m EXCEPT !.mask = v.mask] \in Mem!OutPeek(kill)
        BY <3>1, <3>3, <4>1 DEF Mem!OutPeek
      <4> QED
        BY <4>2 DEF Mem!OutTake, Shows
    <3> QED
      BY <3>2, <3>3
  <2> QED
    BY <2>2, <2>3
<1>4. ASSUME NEW p PROVE p \in Mem!OutPeek(kill) <=> p \in Peek(LivingSecond, kill)
  <2>1. ASSUME p \in Mem!OutPeek(kill) PROVE p \in Peek(LivingSecond, kill)
    <3>1. PICK m \in internal[2], w \in Mem!Tracked(kill)[2] :
            ~w.dead /\ p = [m EXCEPT !.mask = w.mask]
      BY <2>1 DEF Mem!OutPeek
    <3>2. PICK v \in vvms[2] : /\ w.mask = v.mask \ kill.clear_mask
                               /\ w.dead <=> v.dead \/ ~Keep(v, kill)
      BY <1>2, <3>1, MarkedFields
    <3>3. m \in Answered
      BY DEF TypeOK, Single
    <3> DEFINE q == [m EXCEPT !.mask = v.mask]
    <3>4. q \in LivingSecond
      BY <3>1, <3>2 DEF LivingSecond, Living
    <3>5. Keep(q, kill)
      BY <3>1, <3>2, <3>3 DEF Keep, Answered, Msg
    <3>6. p = Cleared(q, kill)
      BY <3>1, <3>2, <3>3 DEF Cleared, Answered, Msg
    <3> HIDE DEF q
    <3> QED
      BY <3>4, <3>5, <3>6 DEF Peek
  <2>2. ASSUME p \in Peek(LivingSecond, kill) PROVE p \in Mem!OutPeek(kill)
    <3>1. PICK q \in LivingSecond : Keep(q, kill) /\ p = Cleared(q, kill)
      BY <2>2 DEF Peek
    <3>2. PICK m \in internal[2], v \in vvms[2] : ~v.dead /\ q = [m EXCEPT !.mask = v.mask]
      BY <3>1 DEF LivingSecond, Living
    <3>3. m \in Answered
      BY DEF TypeOK, Single
    <3> DEFINE w == Marked(v)
    <3>4. w \in Mem!Tracked(kill)[2]
      BY <1>2, <3>2
    <3>5. ~w.dead
      BY <3>1, <3>2, <3>3, MarkedFields DEF Keep, Answered, Msg
    <3>6. p = [m EXCEPT !.mask = w.mask]
      BY <3>1, <3>2, <3>3, MarkedFields DEF Cleared, Answered, Msg
    <3> HIDE DEF w
    <3> QED
      BY <3>4, <3>5, <3>6 DEF Mem!OutPeek
  <2> QED
    BY <2>1, <2>2
<1> QED
  BY <1>3, <1>4

(* Advances, for two stages whose end is always taken.                     *)
LEMMA AdvancesIs ==
  ASSUME RowsOK, TypeOK, NEW send_store
  PROVE  LET out == Mem!OutTake(kill, Shows)
         IN /\ Mem!Advances(Accepts(send_store), PipeInputs(send_store), out, 1) <=> Sends(send_store)
            /\ Mem!Advances(Accepts(send_store), PipeInputs(send_store), out, 2) <=> internal[1] # {} /\ Moves
            /\ Mem!Leaves(Accepts(send_store), PipeInputs(send_store), out, 1) <=> internal[1] # {} /\ Moves
            /\ Mem!Leaves(Accepts(send_store), PipeInputs(send_store), out, 2) <=> internal[2] # {}
<1> DEFINE out == Mem!OutTake(kill, Shows)
           A == Accepts(send_store)
           I == PipeInputs(send_store)
<1>1. out <=> internal[2] # {}
  BY OutIs
<1>2. 1 \in A <=> \A m \in InPeek : CanSend(m, send_store)
  BY DEF Accepts
<1>3. 2 \in A <=> Moves
  BY DEF Accepts, Moves
<1>4. I[1] = InPeek /\ (I[2] # {} <=> internal[1] # {})
  BY DEF PipeInputs, InResponse
<1> HIDE DEF out, A, I
<1>5. Mem!Advances(A, I, out, 2) <=> internal[1] # {} /\ Moves
  <2>1. 2 .. 2 = {2} /\ 2 + 1 .. 2 = {}
    OBVIOUS
  <2> QED
    BY <1>1, <1>3, <1>4, <2>1 DEF Mem!Advances
<1>6. Mem!Advances(A, I, out, 1) <=> Sends(send_store)
  <2>1. 1 .. 2 = {1, 2} /\ 1 + 1 .. 1 = {} /\ 1 + 1 .. 2 = {2}
    OBVIOUS
  <2> QED
    BY <1>1, <1>2, <1>3, <1>4, <2>1 DEF Mem!Advances, Sends
<1> QED
  BY <1>1, <1>5, <1>6 DEF Mem!Leaves, out, A, I

(* The tracking register of what the request stage has.                    *)
FirstTrack == IF internal[2] = {} /\ vvms[2] # {} THEN vvms[2] ELSE vvms[1]

(* The tracking register of a message that enters.                         *)
Fresh(m) == [mask |-> m.mask, dead |-> FALSE]

(* What a cycle does to the pipe.                                          *)
PipeStep(send_store) ==
  Mem!PipeCycle(kill, Accepts(send_store), PipeInputs(send_store), Shows)

(* The four registers after the cycle.                                     *)
LEMMA RowsAfter ==
  ASSUME RowsOK, TypeOK, NEW send_store, PipeStep(send_store)
  PROVE  /\ internal'[1] = IF Sends(send_store) THEN InPeek ELSE IF Moves THEN {} ELSE internal[1]
         /\ internal'[2] = IF Moves THEN {Received(m) : m \in internal[1]} ELSE {}
         /\ vvms'[1] = IF Sends(send_store) THEN {Fresh(m) : m \in InPeek} ELSE {}
         /\ vvms'[2] = IF internal[1] # {} THEN {Marked(v) : v \in FirstTrack} ELSE {}
<1> DEFINE out == Mem!OutTake(kill, Shows)
           A == Accepts(send_store)
           I == PipeInputs(send_store)
           T(i) == {Marked(v) : v \in vvms[i]}
           F == {Fresh(m) : m \in InPeek}
           R == {Received(m) : m \in internal[1]}
<1>1. out <=> internal[2] # {}
  BY OutIs
<1>2. /\ Mem!Advances(A, I, out, 1) <=> Sends(send_store)
      /\ Mem!Advances(A, I, out, 2) <=> internal[1] # {} /\ Moves
      /\ Mem!Leaves(A, I, out, 1) <=> internal[1] # {} /\ Moves
      /\ Mem!Leaves(A, I, out, 2) <=> internal[2] # {}
  BY AdvancesIs
<1>3. I[1] = InPeek /\ (Moves => I[2] = R)
  BY DEF PipeInputs, InResponse, Accepts, Moves
<1>4. /\ internal'[1] = Mem!RegNext(internal[1], Mem!Leaves(A, I, out, 1),
                          IF Mem!Advances(A, I, out, 1) THEN I[1] ELSE {})
      /\ internal'[2] = Mem!RegNext(internal[2], Mem!Leaves(A, I, out, 2),
                          IF Mem!Advances(A, I, out, 2) THEN I[2] ELSE {})
  BY StagesAre DEF PipeStep, Mem!PipeCycle
<1> DEFINE shifts == Mem!TrackShifts(out, 1)
           added1 == {[mask |-> m.mask, dead |-> FALSE] :
                        m \in IF Mem!Advances(A, I, out, 1) THEN I[1] ELSE {}}
<1>5. /\ vvms'[1] = Mem!RegNext(Mem!Tracked(kill)[1], shifts, added1)
      /\ vvms'[2] = Mem!RegNext(Mem!Tracked(kill)[2], out,
                      IF shifts THEN Mem!Tracked(kill)[1] ELSE {})
  <2>1. 2 - 1 = 1 /\ 1 # 2
    OBVIOUS
  <2> QED
    BY StagesAre, <2>1 DEF PipeStep, Mem!PipeCycle
<1>6. shifts <=> vvms[1] # {} /\ (internal[2] # {} \/ vvms[2] = {})
  <2>1. 1 + 1 .. 2 = {2}
    OBVIOUS
  <2> QED
    BY <1>1, <2>1 DEF Mem!TrackShifts
<1>7. Mem!Tracked(kill)[1] = T(1) /\ Mem!Tracked(kill)[2] = T(2)
  BY TrackedIs
<1>8. added1 = IF Sends(send_store) THEN F ELSE {}
  BY <1>2, <1>3 DEF Fresh
<1>9. (T(1) = {} <=> vvms[1] = {}) /\ (T(2) = {} <=> vvms[2] = {})
  OBVIOUS
<1>10. Sends(send_store) => InPeek # {} /\ F # {}
  BY DEF Sends
<1>11. R = {} <=> internal[1] = {}
  OBVIOUS
<1>12. Sends(send_store) /\ internal[1] # {} => Moves
  BY DEF Sends
<1> HIDE DEF out, A, I, shifts, added1, T, F, R
<1>13. internal'[1] = IF Sends(send_store) THEN InPeek ELSE IF Moves THEN {} ELSE internal[1]
  BY <1>2, <1>3, <1>4, <1>10, <1>12 DEF Mem!RegNext
<1>14. internal'[2] = IF Moves THEN R ELSE {}
  BY <1>2, <1>3, <1>4, <1>11 DEF Mem!RegNext
<1>15. vvms'[1] = IF Sends(send_store) THEN F ELSE {}
  BY <1>5, <1>6, <1>7, <1>8, <1>9, <1>10 DEF Mem!RegNext, RowsOK
<1>16. vvms'[2] = IF internal[1] # {} THEN {Marked(v) : v \in FirstTrack} ELSE {}
  <2>1. CASE internal[1] = {}
    BY <1>1, <1>5, <1>6, <1>7, <1>9, <2>1 DEF Mem!RegNext, RowsOK
  <2>2. CASE internal[1] # {} /\ internal[2] = {} /\ vvms[2] # {}
    <3>1. vvms'[2] = T(2)
      BY <1>1, <1>5, <1>6, <1>7, <1>9, <2>2 DEF Mem!RegNext, RowsOK
    <3> QED
      BY <3>1, <2>2 DEF T, FirstTrack
  <2>3. CASE internal[1] # {} /\ ~(internal[2] = {} /\ vvms[2] # {})
    <3>1. vvms'[2] = T(1)
      BY <1>1, <1>5, <1>6, <1>7, <1>9, <2>3 DEF Mem!RegNext, RowsOK
    <3> QED
      BY <3>1, <2>3 DEF T, FirstTrack
  <2> QED
    BY <2>1, <2>2, <2>3
<1> QED
  BY <1>13, <1>14, <1>15, <1>16 DEF F, R

(* The rows stay as they are described.                                    *)
LEMMA RowsKept ==
  ASSUME RowsOK, TypeOK, NEW send_store, PipeStep(send_store)
  PROVE  RowsOK'
<1>1. /\ internal'[1] = IF Sends(send_store) THEN InPeek ELSE IF Moves THEN {} ELSE internal[1]
      /\ internal'[2] = IF Moves THEN {Received(m) : m \in internal[1]} ELSE {}
      /\ vvms'[1] = IF Sends(send_store) THEN {Fresh(m) : m \in InPeek} ELSE {}
      /\ vvms'[2] = IF internal[1] # {} THEN {Marked(v) : v \in FirstTrack} ELSE {}
  BY RowsAfter
<1>2. internal[1] # {} => FirstTrack # {}
  BY DEF FirstTrack, RowsOK
<1>3. internal[1] = {} => Moves
  BY DEF Moves, InResponse
<1>4. Sends(send_store) => InPeek # {} /\ (internal[1] = {} \/ Moves)
  BY DEF Sends
<1>5. {Received(m) : m \in internal[1]} = {} <=> internal[1] = {}
  OBVIOUS
<1>6. {Fresh(m) : m \in InPeek} = {} <=> InPeek = {}
  OBVIOUS
<1>7. {Marked(v) : v \in FirstTrack} = {} <=> FirstTrack = {}
  OBVIOUS
<1>8. /\ internal'[1] # {} <=> Sends(send_store) \/ (~Moves /\ internal[1] # {})
      /\ internal'[2] # {} <=> Moves /\ internal[1] # {}
      /\ vvms'[1] # {} <=> Sends(send_store)
      /\ vvms'[2] # {} <=> internal[1] # {}
  BY <1>1, <1>2, <1>4, <1>5, <1>6, <1>7
<1> QED
  BY <1>3, <1>4, <1>8 DEF RowsOK

(* A message beside a tracking register that is not dead is alive.         *)
LEMMA LivingHas ==
  ASSUME NEW M, NEW T, NEW m \in M, NEW v \in T, ~v.dead
  PROVE  [m EXCEPT !.mask = v.mask] \in Living(M, T)
BY DEF Living

(* What is alive in the registers after the cycle.                         *)
LEMMA LivingAfter ==
  ASSUME RowsOK, TypeOK, NEW send_store, PipeStep(send_store)
  PROVE  /\ \A p : p \in LivingFirst' <=>
               IF Sends(send_store) THEN p \in InPeek ELSE ~Moves /\ p \in Peek(LivingFirst, kill)
         /\ \A p : p \in LivingSecond' <=>
               Moves /\ \E q \in Peek(LivingFirst, kill) : p = Received(q)
<1>1. /\ internal'[1] = IF Sends(send_store) THEN InPeek ELSE IF Moves THEN {} ELSE internal[1]
      /\ internal'[2] = IF Moves THEN {Received(m) : m \in internal[1]} ELSE {}
      /\ vvms'[1] = IF Sends(send_store) THEN {Fresh(m) : m \in InPeek} ELSE {}
      /\ vvms'[2] = IF internal[1] # {} THEN {Marked(v) : v \in FirstTrack} ELSE {}
  BY RowsAfter
<1>2. LivingFirst = Living(internal[1], FirstTrack)
  BY DEF LivingFirst, FirstTrack
<1>3. LivingSecond' = Living(internal'[2], vvms'[2])
  BY DEF LivingSecond, Living
<1>4. LivingFirst' = Living(internal'[1],
        IF internal'[2] = {} /\ vvms'[2] # {} THEN vvms'[2] ELSE vvms'[1])
  BY DEF LivingFirst, Living
<1>5. ASSUME NEW m \in Sent, NEW v \in Track
      PROVE  LET q == [m EXCEPT !.mask = v.mask]
             IN  /\ ~Marked(v).dead <=> ~v.dead /\ Keep(q, kill)
                 /\ [m EXCEPT !.mask = Marked(v).mask] = Cleared(q, kill)
  BY MarkedFields DEF Keep, Cleared, Sent, Msg, Track
<1>6. internal[1] \subseteq Sent /\ FirstTrack \subseteq Track
  BY DEF TypeOK, Single, FirstTrack
<1>7. ASSUME NEW p
      PROVE  p \in Living(internal[1], {Marked(v) : v \in FirstTrack})
               <=> p \in Peek(LivingFirst, kill)
  <2>1. ASSUME p \in Living(internal[1], {Marked(v) : v \in FirstTrack})
        PROVE  p \in Peek(LivingFirst, kill)
    <3>1. PICK m \in internal[1], v \in FirstTrack :
            ~Marked(v).dead /\ p = [m EXCEPT !.mask = Marked(v).mask]
      BY <2>1 DEF Living
    <3> DEFINE q == [m EXCEPT !.mask = v.mask]
    <3>2. ~v.dead /\ Keep(q, kill) /\ p = Cleared(q, kill)
      BY <1>5, <1>6, <3>1
    <3>3. q \in LivingFirst
      BY <1>2, <3>1, <3>2, LivingHas
    <3> HIDE DEF q
    <3> QED
      BY <3>2, <3>3 DEF Peek
  <2>2. ASSUME p \in Peek(LivingFirst, kill)
        PROVE  p \in Living(internal[1], {Marked(v) : v \in FirstTrack})
    <3>1. PICK q \in LivingFirst : Keep(q, kill) /\ p = Cleared(q, kill)
      BY <2>2 DEF Peek
    <3>2. PICK m \in internal[1], v \in FirstTrack : ~v.dead /\ q = [m EXCEPT !.mask = v.mask]
      BY <1>2, <3>1 DEF Living
    <3>3. ~Marked(v).dead /\ p = [m EXCEPT !.mask = Marked(v).mask]
      BY <1>5, <1>6, <3>1, <3>2
    <3> QED
      BY <3>3 DEF Living
  <2> QED
    BY <2>1, <2>2
<1>8. ASSUME NEW p
      PROVE  p \in Living(InPeek, {Fresh(m) : m \in InPeek}) <=> p \in InPeek
  <2>1. ASSUME NEW m \in InPeek, NEW n \in InPeek
        PROVE  m = n /\ m \in Sent
    <3>1. PICK x \in dispatched : m = Cleared(x, kill)
      BY DEF InPeek, Peek
    <3>2. PICK y \in dispatched : n = Cleared(y, kill)
      BY DEF InPeek, Peek
    <3>3. x = y /\ x \in Sent
      BY DEF TypeOK, Single
    <3> QED
      BY <3>1, <3>2, <3>3 DEF Cleared, Sent, Msg
  <2>2. ASSUME NEW m \in Sent
        PROVE  [m EXCEPT !.mask = Fresh(m).mask] = m /\ ~Fresh(m).dead
    BY DEF Fresh, Sent, Msg
  <2>3. ASSUME p \in Living(InPeek, {Fresh(m) : m \in InPeek}) PROVE p \in InPeek
    <3>1. PICK m \in InPeek, n \in InPeek : p = [m EXCEPT !.mask = Fresh(n).mask]
      BY <2>3 DEF Living
    <3> QED
      BY <2>1, <2>2, <3>1
  <2>4. ASSUME p \in InPeek PROVE p \in Living(InPeek, {Fresh(m) : m \in InPeek})
    <3>1. ~Fresh(p).dead /\ p = [p EXCEPT !.mask = Fresh(p).mask]
      BY <2>1, <2>2, <2>4
    <3> HIDE DEF Fresh
    <3> QED
      BY <2>4, <3>1 DEF Living
  <2> QED
    BY <2>3, <2>4
<1>9. ASSUME NEW p
      PROVE  p \in Living({Received(m) : m \in internal[1]}, {Marked(v) : v \in FirstTrack})
               <=> \E q \in Peek(LivingFirst, kill) : p = Received(q)
  <2>1. ASSUME NEW m \in internal[1], NEW mask \in SUBSET SnapshotIds
        PROVE  [Received(m) EXCEPT !.mask = mask] = Received([m EXCEPT !.mask = mask])
    <3>1. m \in Sent
      BY <1>6
    <3> DEFINE data == (CHOOSE r \in bus : TRUE).data
    <3>2. ASSUME NEW x \in Sent
          PROVE  Received(x) = [x EXCEPT !.bytes = IF x.kind = "load" THEN data ELSE x.bytes]
      BY DEF Received, Sent, Msg
    <3> HIDE DEF data
    <3>3. [m EXCEPT !.mask = mask] \in Sent
      BY <3>1 DEF Sent, Msg
    <3> QED
      BY <3>1, <3>2, <3>3 DEF Sent, Msg
  <2>0. ASSUME NEW v \in FirstTrack PROVE Marked(v).mask \in SUBSET SnapshotIds
    BY <1>6, MarkedFields DEF Track
  <2>2. ASSUME p \in Living({Received(m) : m \in internal[1]}, {Marked(v) : v \in FirstTrack})
        PROVE  \E q \in Peek(LivingFirst, kill) : p = Received(q)
    <3>1. PICK m \in internal[1], v \in FirstTrack :
            ~Marked(v).dead /\ p = [Received(m) EXCEPT !.mask = Marked(v).mask]
      BY <2>2 DEF Living
    <3> DEFINE q == [m EXCEPT !.mask = Marked(v).mask]
    <3>2. p = Received(q)
      BY <2>0, <2>1, <3>1
    <3>3. q \in Living(internal[1], {Marked(w) : w \in FirstTrack})
      BY <3>1 DEF Living
    <3> HIDE DEF q
    <3> QED
      BY <1>7, <3>2, <3>3
  <2>3. ASSUME NEW q \in Peek(LivingFirst, kill), p = Received(q)
        PROVE  p \in Living({Received(m) : m \in internal[1]}, {Marked(v) : v \in FirstTrack})
    <3>1. q \in Living(internal[1], {Marked(v) : v \in FirstTrack})
      BY <1>7
    <3>2. PICK m \in internal[1], v \in FirstTrack :
            ~Marked(v).dead /\ q = [m EXCEPT !.mask = Marked(v).mask]
      BY <3>1 DEF Living
    <3>3. p = [Received(m) EXCEPT !.mask = Marked(v).mask]
      BY <2>0, <2>1, <2>3, <3>2
    <3> DEFINE n == Received(m)
               w == Marked(v)
    <3>4. n \in {Received(x) : x \in internal[1]}
      BY <3>2
    <3>5. w \in {Marked(y) : y \in FirstTrack} /\ ~w.dead
      BY <3>2
    <3>6. p = [n EXCEPT !.mask = w.mask]
      BY <3>3
    <3> HIDE DEF n, w
    <3> QED
      BY <3>4, <3>5, <3>6, LivingHas
  <2> QED
    BY <2>2, <2>3
<1>10. /\ Sends(send_store) => InPeek # {} /\ (internal[1] = {} \/ Moves)
       /\ internal[1] = {} => Moves
  BY DEF Sends, Moves, InResponse
<1>11. internal[1] # {} => FirstTrack # {}
  BY DEF FirstTrack, RowsOK
<1>12. ASSUME NEW p, Sends(send_store) PROVE p \in LivingFirst' <=> p \in InPeek
  <2>1. internal'[2] # {} \/ vvms'[2] = {}
    BY <1>1, <1>10, <1>12
  <2>2. LivingFirst' = Living(InPeek, {Fresh(m) : m \in InPeek})
    BY <1>1, <1>4, <1>12, <2>1
  <2> QED
    BY <1>8, <2>2
<1>13. ASSUME NEW p, ~Sends(send_store)
       PROVE  p \in LivingFirst' <=> ~Moves /\ p \in Peek(LivingFirst, kill)
  <2>1. CASE Moves
    <3>1. internal'[1] = {}
      BY <1>1, <1>13, <2>1
    <3> QED
      BY <1>4, <2>1, <3>1 DEF Living
  <2>2. CASE ~Moves
    <3>1. internal[1] # {} /\ internal'[1] = internal[1] /\ internal'[2] = {}
      BY <1>1, <1>10, <1>13, <2>2
    <3>2. vvms'[2] = {Marked(v) : v \in FirstTrack} /\ vvms'[2] # {}
      BY <1>1, <1>11, <3>1
    <3>3. LivingFirst' = Living(internal[1], {Marked(v) : v \in FirstTrack})
      BY <1>4, <3>1, <3>2
    <3> QED
      BY <1>7, <2>2, <3>3
  <2> QED
    BY <2>1, <2>2
<1>14. ASSUME NEW p
       PROVE  p \in LivingSecond' <=> Moves /\ \E q \in Peek(LivingFirst, kill) : p = Received(q)
  <2>1. CASE ~Moves
    BY <1>1, <1>3, <2>1 DEF Living
  <2>2. CASE Moves /\ internal[1] = {}
    <3>1. LivingFirst = {}
      BY <1>2, <2>2 DEF Living
    <3>2. internal'[2] = {}
      BY <1>1, <2>2
    <3> QED
      BY <1>3, <3>1, <3>2 DEF Living, Peek
  <2>3. CASE Moves /\ internal[1] # {}
    <3>1. LivingSecond' = Living({Received(m) : m \in internal[1]}, {Marked(v) : v \in FirstTrack})
      BY <1>1, <1>3, <2>3
    <3> QED
      BY <1>9, <2>3, <3>1
  <2> QED
    BY <2>1, <2>2, <2>3
<1> QED
  BY <1>12, <1>13, <1>14

------------------------------------------------------------------------------
(****************************************************************************)
(* One cycle, read as a step of the flow and a step of the window.         *)
(****************************************************************************)

(* What the memory is asked, and what the tables get.                      *)
Loads(send_store) == {m \in Taken(send_store) : m.kind = "load"}

Stores(send_store) == Taken(send_store) \ Loads(send_store)

Read(m, delay) == [type |-> "read", delay |-> delay, data |-> ReadData(m.bytes)]

Waited(r) == [r EXCEPT !.delay = IF @ = 0 THEN 0 ELSE @ - 1]

Rest(issue) ==
  IF issue = {} THEN ShownQueue ELSE Without(ShownQueue, CHOOSE i \in issue : TRUE)

Kept == Peek(data_queue, kill)

MemoryRenamed(offered) == {r \in offered : r.kind \in {"load", "store"}}

(* What a cycle does to the state, with its parts named.                   *)
FlowStep(issue, data, send_store, offered, unresolved, delay) ==
  /\ PipeStep(send_store)
  /\ issue # {} => InPeek = {} \/ Taken(send_store) # {}
  /\ \A i \in issue : i \in DOMAIN ShownQueue /\ MayGo(ShownQueue, i)
  /\ data \subseteq Kept
  /\ dispatched' = RegNext(InPeek, Taken(send_store) # {}, {ShownQueue[i] : i \in issue})
  /\ queue' = Rest(issue) \o
       (IF MemoryRenamed(offered) = {} THEN <<>>
        ELSE <<Message(CHOOSE r \in MemoryRenamed(offered) : TRUE, unresolved)>>)
  /\ data_queue' = (Kept \ data) \cup
       {DataMessage(r, unresolved) : r \in {x \in MemoryRenamed(offered) : x.kind = "store"}}
  /\ address_table' = [s \in StoreIds |->
       IF \E m \in Stores(send_store) : s \in m.sid
       THEN UNION {m.bytes : m \in Stores(send_store)} ELSE address_table[s]]
  /\ store_data' = [s \in StoreIds |->
       IF \E m \in data : s \in m.sid
       THEN CHOOSE v \in UNION {m.val : m \in data} : TRUE ELSE store_data[s]]
  /\ address_valid' = Entered(address_valid, UNION {r.sid : r \in offered},
                              UNION {m.sid : m \in Stores(send_store)})
  /\ data_valid' = Entered(data_valid, UNION {r.sid : r \in offered},
                           UNION {m.sid : m \in data})
  /\ memory' = Written(send_store)
  /\ store_in_flight' = StoreInFlightNext(send_store, Loads(send_store))
  /\ bus' = IF send_store # {} THEN {[type |-> "write", delay |-> delay]}
            ELSE IF Loads(send_store) # {}
                 THEN {Read(m, delay) : m \in Loads(send_store)}
            ELSE IF SendRdy THEN {} ELSE {Waited(r) : r \in bus}

(* Flow does what FlowStep says.                                           *)
LEMMA FlowIs ==
  ASSUME RowsOK, TypeOK, NEW issue, NEW data, NEW send_store, NEW offered, NEW unresolved,
         NEW delay, Flow(issue, data, send_store, offered, unresolved, delay)
  PROVE  FlowStep(issue, data, send_store, offered, unresolved, delay)
<1>1. (IF Mem!Advances(Accepts(send_store), PipeInputs(send_store), Mem!OutTake(kill, Shows), 1)
       THEN InPeek ELSE {}) = Taken(send_store)
  BY AdvancesIs DEF Taken
<1> QED
  BY <1>1 DEF Flow, InPeek, Accepts, PipeInputs, Shows, PipeStep, Loads, Stores, Read, Waited,
              Rest, Kept, MemoryRenamed, AddRdy, FlowStep

(* A cycle of the flow, and what commit does in it.                        *)
CommitOK(retire) == retire => window # <<>> /\ RobRemovable(window[1])

(* What a register shows differs from what it has in the mask only.        *)
LEMMA PeekField ==
  ASSUME NEW m \in Sent, NEW k
  PROVE  /\ Cleared(m, k).seq = m.seq /\ Cleared(m, k).kind = m.kind
         /\ Cleared(m, k).bytes = m.bytes /\ Cleared(m, k).sid = m.sid
         /\ Cleared(m, k).mask = m.mask \ k.clear_mask
         /\ Cleared(m, k) \in Sent
BY DEF Cleared, Sent, Msg

(* The dispatch register shows one message at most.                        *)
LEMMA InPeekIs ==
  ASSUME TypeOK
  PROVE  Single(InPeek, Sent)
<1>1. \A x, y \in dispatched : x = y /\ x \in Sent
  BY DEF TypeOK, Single
<1>2. ASSUME NEW p \in InPeek, NEW q \in InPeek PROVE p = q /\ p \in Sent
  <2>1. PICK x \in dispatched : p = Cleared(x, kill)
    BY DEF InPeek, Peek
  <2>2. PICK y \in dispatched : q = Cleared(y, kill)
    BY DEF InPeek, Peek
  <2> QED
    BY <1>1, <2>1, <2>2, PeekField
<1> QED
  BY <1>2 DEF Single

(* A store is sent only by the retirement of a store at the head.          *)
LEMMA SendStoreIs ==
  ASSUME TypeOK, WindowOK, window \in Seq(Entry), NEW retire \in BOOLEAN, CommitOK(retire)
  PROVE  LET ss == SendStore(retire)
         IN  /\ ss # {} <=> retire /\ window[1].kind = "store"
             /\ ss # {} => SendRdy
<1>1. ASSUME retire PROVE 1 \in DOMAIN window
  BY <1>1 DEF CommitOK
<1>2. SendStore(retire) # {} <=> retire /\ window[1].sid # {}
  BY DEF SendStore
<1>3. retire => (window[1].sid # {} <=> window[1].kind = "store")
  BY <1>1 DEF WindowOK
<1>4. retire /\ window[1].kind = "store" => SendRdy
  BY DEF CommitOK, RobRemovable
<1> QED
  BY <1>2, <1>3, <1>4

(* The bus answers the load in the request stage, or the store that was    *)
(* sent.                                                                   *)
LEMMA AnswersAfter ==
  ASSUME RowsOK, TypeOK, AnswersHaveOwners, NEW issue, NEW data, NEW send_store, NEW offered,
         NEW unresolved, NEW delay, FlowStep(issue, data, send_store, offered, unresolved, delay),
         send_store # {} => SendRdy
  PROVE  AnswersHaveOwners'
<1>1. /\ internal'[1] = IF Sends(send_store) THEN InPeek ELSE IF Moves THEN {} ELSE internal[1]
      /\ store_in_flight' = StoreInFlightNext(send_store, Loads(send_store))
      /\ bus' = IF send_store # {} THEN {[type |-> "write", delay |-> delay]}
                ELSE IF Loads(send_store) # {}
                     THEN {Read(m, delay) : m \in Loads(send_store)}
                ELSE IF SendRdy THEN {} ELSE {Waited(r) : r \in bus}
  <2>1. PipeStep(send_store)
    BY DEF FlowStep
  <2>2. internal'[1] = IF Sends(send_store) THEN InPeek ELSE IF Moves THEN {} ELSE internal[1]
    BY <2>1, RowsAfter
  <2>3. /\ store_in_flight' = StoreInFlightNext(send_store, Loads(send_store))
        /\ bus' = IF send_store # {} THEN {[type |-> "write", delay |-> delay]}
                  ELSE IF Loads(send_store) # {}
                       THEN {Read(m, delay) : m \in Loads(send_store)}
                  ELSE IF SendRdy THEN {} ELSE {Waited(r) : r \in bus}
    BY DEF FlowStep
  <2> QED
    BY <2>2, <2>3
<1>2. Single(InPeek, Sent) /\ Single(internal[1], Sent) /\ Single(bus, Request)
      /\ store_in_flight \in BOOLEAN
  BY InPeekIs DEF TypeOK
<1> DEFINE loads == Loads(send_store)
           NoLoad(S) == \A m \in S : m.kind # "load"
<1>3. loads = {m \in InPeek : Sends(send_store) /\ m.kind = "load"}
  BY DEF Loads, Taken
<1>4. loads # {} => SendRdy /\ send_store = {} /\ Sends(send_store)
  BY <1>3 DEF Sends, CanSend, SendLoadRdy
<1>5. loads # {} => loads = InPeek
  BY <1>2, <1>3 DEF Single
<1>6. InResponse = internal[1] /\ InResponse' = internal'[1]
  BY DEF InResponse
<1>7. ASSUME SendRdy, loads = {} PROVE NoLoad(internal'[1])
  <2>1. CASE bus = {}
    <3>1. NoLoad(internal[1])
      BY <1>6, <2>1 DEF AnswersHaveOwners
    <3> QED
      BY <1>1, <1>3, <1>7, <3>1
  <2>2. CASE RecvRdy /\ store_in_flight
    <3>1. bus # {} /\ \A r \in bus : r.type = "write"
      BY <2>2 DEF RecvRdy, AnswersHaveOwners
    <3>2. NoLoad(internal[1])
      BY <1>6, <3>1 DEF AnswersHaveOwners
    <3> QED
      BY <1>1, <1>3, <1>7, <3>2
  <2>3. CASE RecvRdy /\ RecvLoad
    <3>1. Moves
      BY <2>3 DEF Moves, CanAccept, RecvLoad
    <3> QED
      BY <1>1, <1>3, <1>7, <3>1
  <2> QED
    BY <1>7, <2>1, <2>2, <2>3 DEF SendRdy
<1>8. CASE send_store # {}
  <2>1. loads = {} /\ SendRdy
    BY <1>4, <1>8
  <2>2. NoLoad(internal'[1])
    BY <1>7, <2>1
  <2>3. bus' = {[type |-> "write", delay |-> delay]} /\ store_in_flight' = TRUE
    BY <1>1, <1>8 DEF StoreInFlightNext
  <2> QED
    BY <1>6, <2>2, <2>3 DEF AnswersHaveOwners
<1>9. CASE send_store = {} /\ loads # {}
  <2>1. internal'[1] = InPeek /\ InPeek = loads
    BY <1>1, <1>4, <1>5, <1>9
  <2>2. store_in_flight' = FALSE
    BY <1>1, <1>9 DEF StoreInFlightNext
  <2>3. PICK m \in InPeek : InPeek = {m} /\ m \in Sent /\ m.kind = "load"
    BY <1>2, <1>3, <1>9 DEF Single
  <2>4. bus' = {Read(m, delay)}
    BY <1>1, <1>9, <2>1, <2>3
  <2>5. Read(m, delay).type = "read" /\ DOMAIN Read(m, delay).data = m.bytes
    BY DEF Read, ReadData
  <2> QED
    BY <1>6, <2>1, <2>2, <2>3, <2>4, <2>5 DEF AnswersHaveOwners
<1>10. CASE send_store = {} /\ loads = {} /\ SendRdy
  <2>1. bus' = {}
    BY <1>1, <1>10
  <2> QED
    BY <1>6, <1>7, <1>10, <2>1 DEF AnswersHaveOwners
<1>11. CASE send_store = {} /\ loads = {} /\ ~SendRdy
  <2>1. bus # {} /\ ~(RecvRdy /\ store_in_flight) /\ ~RecvLoad
    BY <1>11 DEF SendRdy, RecvLoad, RecvLoadRdy
  <2>2. PICK r \in bus : bus = {r} /\ r \in Request
    BY <1>2, <2>1 DEF Single
  <2>3. bus' = {Waited(r)}
    BY <1>1, <1>11, <2>2
  <2>4. Waited(r).type = r.type /\ (r.type = "read" => Waited(r).data = r.data)
    BY <2>2 DEF Waited, Request
  <2>5. store_in_flight' <=> store_in_flight
    BY <1>1, <1>11, <2>1 DEF StoreInFlightNext, StoreInFlightAfterRecv
  <2>6. r.type = "write" \/ r.type = "read"
    BY <2>2 DEF Request
  <2>7. CASE r.type = "write"
    <3>1. NoLoad(internal[1])
      BY <1>6, <2>2, <2>7 DEF AnswersHaveOwners
    <3>2. NoLoad(internal'[1])
      BY <1>1, <1>3, <1>11, <3>1
    <3> QED
      BY <1>6, <2>2, <2>3, <2>4, <2>5, <2>7, <3>2 DEF AnswersHaveOwners
  <2>8. CASE r.type = "read"
    <3>1. PICK m \in internal[1] : m.kind = "load" /\ DOMAIN r.data = m.bytes
      BY <1>6, <2>2, <2>8 DEF AnswersHaveOwners
    <3>2. ~RecvLoadRdy
      BY <1>6, <2>1, <3>1 DEF RecvLoad
    <3>3. ~Moves
      BY <1>6, <3>1, <3>2 DEF Moves, CanAccept
    <3>4. ~Sends(send_store)
      BY <3>1, <3>3 DEF Sends
    <3>5. internal'[1] = internal[1]
      BY <1>1, <3>3, <3>4
    <3> QED
      BY <1>6, <2>2, <2>3, <2>4, <2>5, <2>8, <3>1, <3>5 DEF AnswersHaveOwners
  <2> QED
    BY <2>6, <2>7, <2>8
<1> QED
  BY <1>8, <1>9, <1>10, <1>11

(* An exception leaves from the head, a misprediction cuts behind the      *)
(* branch, and what is left stays in order.                                *)
Exception(retire) == retire /\ window[1].kind = "trap"

Missed(resolved, mispredict) == IF mispredict THEN resolved ELSE {}

Cut(resolved, mispredict) ==
  IF Missed(resolved, mispredict) = {} THEN Len(window)
  ELSE CHOOSE i \in Missed(resolved, mispredict) : TRUE

Now(resolved, mispredict) ==
  Progressed(Cut(resolved, mispredict), resolved, Mem!OutPeek(kill))

Unresolved(resolved, mispredict) ==
  UNION {Now(resolved, mispredict)[i].spec : i \in DOMAIN Now(resolved, mispredict)}

Joined(resolved, mispredict, offered) ==
  Now(resolved, mispredict) \o
    (IF offered = {} THEN <<>> ELSE <<InFlight(CHOOSE r \in offered : TRUE)>>)

WindowStep(resolved, mispredict, retire, offered) ==
  /\ retire => window # <<>> /\ RobRemovable(window[1])
  /\ mispredict => resolved # {}
  /\ offered # {} => Missed(resolved, mispredict) = {} /\ ~Exception(retire)
  /\ kill' = [force      |-> Exception(retire),
              kill_mask  |-> IF Missed(resolved, mispredict) = {} THEN {}
                             ELSE SnapshotIds \
                                  UNION {window[i].spec : i \in 1 .. Cut(resolved, mispredict) - 1},
              clear_mask |-> IF Missed(resolved, mispredict) # {} THEN {}
                             ELSE UNION {window[i].spec : i \in resolved}]
  /\ window' = IF Exception(retire) THEN <<>>
               ELSE IF retire THEN Tail(Joined(resolved, mispredict, offered))
               ELSE Joined(resolved, mispredict, offered)

Calls(issue, data, resolved, mispredict, retire, offered, delay) ==
  /\ issue \in Issues /\ data \in Datas /\ resolved \in Resolves
  /\ mispredict \in BOOLEAN /\ retire \in BOOLEAN
  /\ offered \in Optional(Renamings) /\ delay \in Delays

(* A cycle is a step of the flow and one of the window.                    *)
LEMMA CycleIs ==
  ASSUME RowsOK, TypeOK, NEW issue, NEW data, NEW resolved, NEW mispredict, NEW retire,
         NEW offered, NEW delay, Cycle(issue, data, resolved, mispredict, retire, offered, delay)
  PROVE  /\ FlowStep(issue, data, SendStore(retire), offered, Unresolved(resolved, mispredict), delay)
         /\ WindowStep(resolved, mispredict, retire, offered)
<1>1. Flow(issue, data, SendStore(retire), offered, Unresolved(resolved, mispredict), delay)
  BY DEF Cycle, Exception, Missed, Cut, Now, Unresolved
<1>2. WindowStep(resolved, mispredict, retire, offered)
  BY DEF Cycle, Exception, Missed, Cut, Now, Joined, WindowStep
<1> QED
  BY <1>1, <1>2, FlowIs

(* Where the window is cut, and what becomes of its entries.               *)
LEMMA NowIs ==
  ASSUME TypeOK, window \in Seq(Entry), NEW resolved \in Resolves, NEW mispredict \in BOOLEAN,
         mispredict => resolved # {}
  PROVE  LET cut == Cut(resolved, mispredict)
             now == Now(resolved, mispredict)
         IN  /\ cut \in Nat /\ cut <= Len(window)
             /\ Missed(resolved, mispredict) # {} =>
                  /\ cut \in DOMAIN window /\ resolved = {cut} /\ window[cut].spec # {}
             /\ Missed(resolved, mispredict) = {} => cut = Len(window)
             /\ now = [i \in 1 .. cut |-> now[i]]
<1> DEFINE cut == Cut(resolved, mispredict)
<1>1. Len(window) \in Nat /\ DOMAIN window = 1 .. Len(window)
  OBVIOUS
<1>2. resolved = {} \/ \E i \in DOMAIN window : resolved = {i} /\ window[i].spec # {}
  BY DEF Resolves, Optional
<1>3. Now(resolved, mispredict) = [i \in 1 .. cut |-> Now(resolved, mispredict)[i]]
  BY DEF Now, Progressed
<1>4. CASE Missed(resolved, mispredict) = {}
  <2>1. cut = Len(window)
    BY <1>4 DEF Cut
  <2> QED
    BY <1>1, <1>3, <1>4, <2>1
<1>5. CASE Missed(resolved, mispredict) # {}
  <2>1. Missed(resolved, mispredict) = resolved
    BY <1>5 DEF Missed
  <2>2. PICK i \in DOMAIN window : resolved = {i} /\ window[i].spec # {}
    BY <1>2, <1>5, <2>1
  <2>3. cut = i
    BY <1>5, <2>1, <2>2 DEF Cut
  <2> HIDE DEF cut
  <2>4. cut \in Nat /\ cut <= Len(window) /\ cut \in DOMAIN window
    BY <1>1, <2>2, <2>3
  <2>5. resolved = {cut} /\ window[cut].spec # {}
    BY <2>2, <2>3
  <2> QED
    BY <1>3, <1>5, <2>4, <2>5 DEF cut
<1> QED
  BY <1>4, <1>5

(* What comes back in the cycle, and for whom.                             *)
Results == Mem!OutPeek(kill)

Arrived(i) == {m \in Results : m.seq = window[i].seq}

(* An entry of what is left, field by field.                               *)
LEMMA NowFields ==
  ASSUME TypeOK, window \in Seq(Entry), NEW resolved \in Resolves, NEW mispredict \in BOOLEAN,
         mispredict => resolved # {}, NEW i \in 1 .. Cut(resolved, mispredict)
  PROVE  LET n == Now(resolved, mispredict)[i]
         IN  /\ i \in DOMAIN window
             /\ n.seq = window[i].seq /\ n.kind = window[i].kind /\ n.bytes = window[i].bytes
             /\ n.val = window[i].val /\ n.sid = window[i].sid
             /\ n.spec = IF i \in resolved THEN {} ELSE window[i].spec
             /\ n.done <=> window[i].done \/ Arrived(i) # {}
             /\ n.answer = IF Arrived(i) # {} /\ window[i].kind = "load"
                           THEN (CHOOSE m \in Arrived(i) : TRUE).bytes ELSE window[i].answer
             /\ n.done \in BOOLEAN
             /\ (n.answer \in Data \cup {<<>>} => n \in Entry)
<1> DEFINE cut == Cut(resolved, mispredict)
           n == Now(resolved, mispredict)[i]
<1>1. cut \in Nat /\ cut <= Len(window)
  BY NowIs
<1>2. i \in DOMAIN window /\ window[i] \in Entry
  BY <1>1
<1> DEFINE a == IF Arrived(i) # {} /\ window[i].kind = "load"
                THEN (CHOOSE m \in Arrived(i) : TRUE).bytes ELSE window[i].answer
           d == window[i].done \/ Arrived(i) # {}
           s == IF i \in resolved THEN {} ELSE window[i].spec
<1>3. n = [window[i] EXCEPT !.spec = s, !.done = d, !.answer = a]
  BY DEF Now, Progressed, Arrived, Results
<1>4. d \in BOOLEAN /\ s \in Optional(SnapshotIds)
  BY <1>2 DEF Entry, Optional
<1> HIDE DEF a, d, s, n
<1>5. /\ n.seq = window[i].seq /\ n.kind = window[i].kind /\ n.bytes = window[i].bytes
      /\ n.val = window[i].val /\ n.sid = window[i].sid /\ n.spec = s
      /\ n.done = d /\ n.answer = a
  BY <1>2, <1>3 DEF Entry
<1>6. a \in Data \cup {<<>>} => n \in Entry
  BY <1>2, <1>3, <1>4 DEF Entry
<1> QED
  BY <1>2, <1>4, <1>5, <1>6 DEF a, d, s, n

(* The branches among what is left.                                        *)
LEMMA NowSpec ==
  ASSUME TypeOK, window \in Seq(Entry), NEW resolved \in Resolves, NEW mispredict \in BOOLEAN,
         mispredict => resolved # {}, NEW i \in 1 .. Cut(resolved, mispredict)
  PROVE  /\ i \in DOMAIN window
         /\ Now(resolved, mispredict)[i].spec = IF i \in resolved THEN {} ELSE window[i].spec
<1> DEFINE n == Now(resolved, mispredict)[i]
<1>1. i \in DOMAIN window /\ n.spec = IF i \in resolved THEN {} ELSE window[i].spec
  BY NowFields
<1> QED
  BY <1>1

(* How far the head moves, and how long the window would be if it did not. *)
Skipped(retire) == IF retire THEN 1 ELSE 0

Grown(resolved, mispredict, offered) ==
  Cut(resolved, mispredict) + (IF offered = {} THEN 0 ELSE 1)

(* The window after a cycle, entry by entry.                               *)
LEMMA WindowAfter ==
  ASSUME TypeOK, window \in Seq(Entry), NEW resolved \in Resolves, NEW mispredict \in BOOLEAN,
         NEW retire \in BOOLEAN, NEW offered, WindowStep(resolved, mispredict, retire, offered),
         ~Exception(retire)
  PROVE  LET n == Grown(resolved, mispredict, offered) - Skipped(retire)
         IN  /\ n \in Nat /\ Len(window') = n /\ DOMAIN window' = 1 .. n
             /\ \A i \in 1 .. n :
                  window'[i] =
                    IF i + Skipped(retire) <= Cut(resolved, mispredict)
                    THEN Now(resolved, mispredict)[i + Skipped(retire)]
                    ELSE InFlight(CHOOSE r \in offered : TRUE)
             /\ \E T : window' \in Seq(T)
<1> DEFINE cut == Cut(resolved, mispredict)
           now == Now(resolved, mispredict)
           last == InFlight(CHOOSE r \in offered : TRUE)
           T == {now[i] : i \in 1 .. cut} \cup {last}
           tail == IF offered = {} THEN <<>> ELSE <<last>>
           joined == Joined(resolved, mispredict, offered)
           g == Grown(resolved, mispredict, offered)
<1>1. /\ cut \in Nat /\ cut <= Len(window)
      /\ Missed(resolved, mispredict) # {} => cut \in DOMAIN window
      /\ Missed(resolved, mispredict) = {} => cut = Len(window)
      /\ now = [i \in 1 .. cut |-> now[i]]
  BY NowIs DEF WindowStep
<1>2. joined = now \o tail
  BY DEF Joined
<1>3. retire => cut >= 1
  <2>1. retire => Len(window) >= 1 /\ Len(window) \in Nat
    BY DEF WindowStep
  <2> QED
    BY <1>1, <2>1
<1>4. window' = IF retire THEN Tail(joined) ELSE joined
  BY DEF WindowStep
<1>5. g = cut + (IF offered = {} THEN 0 ELSE 1)
  BY DEF Grown
<1> HIDE DEF joined, cut, now, last, g
<1>6. now \in Seq(T) /\ Len(now) = cut
  BY <1>1
<1>7. tail \in Seq(T) /\ Len(tail) = (IF offered = {} THEN 0 ELSE 1) /\ (offered # {} => tail[1] = last)
  <2>1. last \in T
    OBVIOUS
  <2> HIDE DEF T
  <2>2. <<last>> \in Seq(T) /\ Len(<<last>>) = 1 /\ <<last>>[1] = last
    BY <2>1
  <2> QED
    BY <2>2
<1> HIDE DEF T, tail
<1>8. /\ joined \in Seq(T) /\ Len(joined) = g
      /\ \A i \in 1 .. g : joined[i] = IF i <= cut THEN now[i] ELSE last
  <2>1. /\ joined \in Seq(T) /\ Len(joined) = Len(now) + Len(tail)
        /\ \A i \in 1 .. Len(now) + Len(tail) :
             joined[i] = IF i <= Len(now) THEN now[i] ELSE tail[i - Len(now)]
    BY <1>2, <1>6, <1>7, ConcatProperties
  <2>2. Len(now) + Len(tail) = g
    BY <1>5, <1>6, <1>7
  <2>3. ASSUME NEW i \in 1 .. g, ~(i <= cut) PROVE i - cut = 1 /\ offered # {}
    BY <1>1, <1>5, <2>3
  <2> QED
    BY <1>6, <1>7, <2>1, <2>2, <2>3
<1>9. g \in Nat /\ g >= cut
  BY <1>1, <1>5
<1>10. CASE retire
  <2>1. joined # <<>>
    BY <1>3, <1>8, <1>9, <1>10, <1>1
  <2>2. /\ Tail(joined) \in Seq(T) /\ Len(Tail(joined)) = g - 1
        /\ \A i \in 1 .. g - 1 : Tail(joined)[i] = joined[i + 1]
    BY <1>8, <2>1, HeadTailProperties
  <2>3. g - 1 \in Nat
    BY <1>1, <1>3, <1>9, <1>10
  <2>4. \A i \in 1 .. g - 1 : i + 1 \in 1 .. g
    BY <1>9
  <2>5. Skipped(retire) = 1
    BY <1>10 DEF Skipped
  <2>6. window' = Tail(joined)
    BY <1>4, <1>10
  <2>7. DOMAIN Tail(joined) = 1 .. g - 1
    BY <2>2
  <2>8. ASSUME NEW i \in 1 .. g - 1
        PROVE  window'[i] = IF i + Skipped(retire) <= cut THEN now[i + Skipped(retire)] ELSE last
    BY <1>8, <2>2, <2>4, <2>5, <2>6
  <2> QED
    <3> DEFINE n == g - Skipped(retire)
    <3>1. n = g - 1
      BY <2>5
    <3> HIDE DEF n
    <3>2. /\ n \in Nat /\ Len(window') = n /\ DOMAIN window' = 1 .. n
          /\ \A i \in 1 .. n : window'[i] = IF i + Skipped(retire) <= cut
                                           THEN now[i + Skipped(retire)] ELSE last
          /\ window' \in Seq(T)
      BY <2>2, <2>3, <2>6, <2>7, <2>8, <3>1
    <3> QED
      BY <3>2 DEF n, cut, now, last, g
<1>11. CASE ~retire
  <2>1. Skipped(retire) = 0 /\ g - 0 = g /\ \A i \in 1 .. g : i + 0 = i
    BY <1>9, <1>11 DEF Skipped
  <2>2. window' = joined
    BY <1>4, <1>11
  <2>3. DOMAIN joined = 1 .. g
    BY <1>8
  <2>4. ASSUME NEW i \in 1 .. g
        PROVE  window'[i] = IF i + Skipped(retire) <= cut THEN now[i + Skipped(retire)] ELSE last
    BY <1>8, <2>1, <2>2
  <2> QED
    <3> DEFINE n == g - Skipped(retire)
    <3>1. n = g
      BY <2>1
    <3> HIDE DEF n
    <3>2. /\ n \in Nat /\ Len(window') = n /\ DOMAIN window' = 1 .. n
          /\ \A i \in 1 .. n : window'[i] = IF i + Skipped(retire) <= cut
                                           THEN now[i + Skipped(retire)] ELSE last
          /\ window' \in Seq(T)
      BY <1>8, <1>9, <2>2, <2>3, <2>4, <3>1
    <3> QED
      BY <3>2 DEF n, cut, now, last, g
<1> QED
  BY <1>10, <1>11

(* The types, and that there is no double use.                             *)
Typed == TypeOK /\ WindowOK /\ window \in Seq(Entry) /\ queue \in Seq(Sent)

(* What a cycle does to the window.                                        *)
Turn(resolved, mispredict, retire, offered) ==
  /\ resolved \in Resolves /\ mispredict \in BOOLEAN /\ retire \in BOOLEAN
  /\ offered \in Optional(Renamings)
  /\ WindowStep(resolved, mispredict, retire, offered)

(* The i-th entry after the cycle is the k-th before it.                   *)
Carried(i, k, resolved) ==
  /\ k \in DOMAIN window
  /\ window'[i].seq = window[k].seq /\ window'[i].kind = window[k].kind
  /\ window'[i].bytes = window[k].bytes /\ window'[i].val = window[k].val
  /\ window'[i].sid = window[k].sid
  /\ window'[i].spec = IF k \in resolved THEN {} ELSE window[k].spec
  /\ window'[i].done <=> window[k].done \/ Arrived(k) # {}
  /\ window'[i].answer = IF Arrived(k) # {} /\ window[k].kind = "load"
                         THEN (CHOOSE m \in Arrived(k) : TRUE).bytes ELSE window[k].answer
  /\ window'[i].answer \in Data \cup {<<>>} => window'[i] \in Entry

(* The i-th entry after the cycle is renamed in it.                        *)
Joins(i, r) ==
  /\ r \in Renamings
  /\ window'[i].seq = r.seq /\ window'[i].kind = r.kind /\ window'[i].bytes = r.bytes
  /\ window'[i].val = r.val /\ window'[i].sid = r.sid /\ window'[i].spec = r.spec
  /\ window'[i].done = FALSE /\ window'[i] \in Entry

(* A turn of the window, in numbers.                                       *)
LEMMA TurnIs ==
  ASSUME Typed, NEW resolved, NEW mispredict, NEW retire, NEW offered,
         Turn(resolved, mispredict, retire, offered)
  PROVE  /\ Cut(resolved, mispredict) \in Nat /\ Cut(resolved, mispredict) <= Len(window)
         /\ Len(window) \in Nat /\ DOMAIN window = 1 .. Len(window)
         /\ Skipped(retire) \in {0, 1}
         /\ retire => Skipped(retire) = 1 /\ 1 \in DOMAIN window /\ Cut(resolved, mispredict) >= 1
         /\ retire => window[1].spec = {} /\ RobRemovable(window[1])
         /\ ~retire => Skipped(retire) = 0
         /\ offered = {} \/ \E r \in Renamings : offered = {r}
         /\ offered # {} => Missed(resolved, mispredict) = {} /\ Cut(resolved, mispredict) = Len(window)
         /\ Missed(resolved, mispredict) # {} =>
              /\ Cut(resolved, mispredict) \in DOMAIN window
              /\ resolved = {Cut(resolved, mispredict)} /\ window[Cut(resolved, mispredict)].spec # {}
         /\ resolved = {} \/ \E i \in DOMAIN window : resolved = {i} /\ window[i].spec # {}
<1>1. /\ Cut(resolved, mispredict) \in Nat /\ Cut(resolved, mispredict) <= Len(window)
      /\ Missed(resolved, mispredict) # {} =>
           /\ Cut(resolved, mispredict) \in DOMAIN window
           /\ resolved = {Cut(resolved, mispredict)} /\ window[Cut(resolved, mispredict)].spec # {}
      /\ Missed(resolved, mispredict) = {} => Cut(resolved, mispredict) = Len(window)
  BY NowIs DEF Turn, WindowStep, Typed
<1>2. Len(window) \in Nat /\ DOMAIN window = 1 .. Len(window)
  BY DEF Typed
<1>3. Skipped(retire) \in {0, 1} /\ (retire => Skipped(retire) = 1) /\ (~retire => Skipped(retire) = 0)
  BY DEF Skipped
<1>4. offered = {} \/ \E r \in Renamings : offered = {r}
  BY DEF Turn, Optional
<1>5. offered # {} => Missed(resolved, mispredict) = {}
  BY DEF Turn, WindowStep
<1>6. resolved = {} \/ \E i \in DOMAIN window : resolved = {i} /\ window[i].spec # {}
  BY DEF Turn, Resolves, Optional
<1>7. ASSUME retire PROVE 1 \in DOMAIN window /\ RobRemovable(window[1])
  <2>1. window # <<>> /\ RobRemovable(window[1])
    BY <1>7 DEF Turn, WindowStep
  <2> QED
    BY <1>2, <2>1 DEF Typed
<1>8. retire => window[1].spec = {}
  <2>1. retire /\ window[1].kind = "branch" => window[1].spec = {}
    BY <1>7 DEF RobRemovable
  <2>2. retire /\ window[1].spec # {} => window[1].kind = "branch"
    BY <1>7 DEF Typed, WindowOK
  <2> QED
    BY <2>1, <2>2
<1>9. retire => Cut(resolved, mispredict) >= 1
  BY <1>1, <1>2, <1>7
<1> QED
  BY <1>1, <1>2, <1>3, <1>4, <1>5, <1>6, <1>7, <1>8, <1>9

(* The same, for an entry of the new window.                               *)
LEMMA WindowNow ==
  ASSUME Typed, NEW resolved, NEW mispredict, NEW retire, NEW offered,
         Turn(resolved, mispredict, retire, offered), ~Exception(retire)
  PROVE  /\ Len(window') = Grown(resolved, mispredict, offered) - Skipped(retire)
         /\ DOMAIN window' = 1 .. Len(window') /\ Len(window') \in Nat
         /\ \A i \in DOMAIN window' :
              window'[i] =
                IF i + Skipped(retire) <= Cut(resolved, mispredict)
                THEN Now(resolved, mispredict)[i + Skipped(retire)]
                ELSE InFlight(CHOOSE r \in offered : TRUE)
         /\ \E T : window' \in Seq(T)
<1> DEFINE n == Grown(resolved, mispredict, offered) - Skipped(retire)
<1>1. /\ n \in Nat /\ Len(window') = n /\ DOMAIN window' = 1 .. n
      /\ \A i \in 1 .. n :
           window'[i] =
             IF i + Skipped(retire) <= Cut(resolved, mispredict)
             THEN Now(resolved, mispredict)[i + Skipped(retire)]
             ELSE InFlight(CHOOSE r \in offered : TRUE)
      /\ \E T : window' \in Seq(T)
  BY WindowAfter DEF Typed, Turn
<1> QED
  BY <1>1

(* An entry before the cut is carried.                                     *)
LEMMA EntryCarried ==
  ASSUME Typed, NEW resolved, NEW mispredict, NEW retire, NEW offered,
         Turn(resolved, mispredict, retire, offered), ~Exception(retire),
         NEW i \in DOMAIN window', i + Skipped(retire) <= Cut(resolved, mispredict)
  PROVE  Carried(i, i + Skipped(retire), resolved)
<1> DEFINE k == i + Skipped(retire)
           n == Now(resolved, mispredict)[k]
<1>1. window'[i] = n
  BY WindowNow
<1>2. k \in 1 .. Cut(resolved, mispredict)
  BY TurnIs, WindowNow
<1> HIDE DEF k
<1>3. /\ k \in DOMAIN window
      /\ n.seq = window[k].seq /\ n.kind = window[k].kind /\ n.bytes = window[k].bytes
      /\ n.val = window[k].val /\ n.sid = window[k].sid
      /\ n.spec = IF k \in resolved THEN {} ELSE window[k].spec
      /\ n.done <=> window[k].done \/ Arrived(k) # {}
      /\ n.answer = IF Arrived(k) # {} /\ window[k].kind = "load"
                    THEN (CHOOSE m \in Arrived(k) : TRUE).bytes ELSE window[k].answer
      /\ n.done \in BOOLEAN
      /\ (n.answer \in Data \cup {<<>>} => n \in Entry)
  BY <1>2, NowFields DEF Typed, Turn, WindowStep
<1> HIDE DEF n
<1>4. Carried(i, k, resolved)
  BY <1>1, <1>3 DEF Carried
<1> QED
  BY <1>4 DEF k

(* The one entry that may come after the cut is renamed.                   *)
LEMMA EntryJoins ==
  ASSUME Typed, NEW resolved, NEW mispredict, NEW retire, NEW offered,
         Turn(resolved, mispredict, retire, offered), ~Exception(retire),
         NEW i \in DOMAIN window', ~(i + Skipped(retire) <= Cut(resolved, mispredict))
  PROVE  /\ i + Skipped(retire) = Cut(resolved, mispredict) + 1
         /\ Cut(resolved, mispredict) = Len(window) /\ Missed(resolved, mispredict) = {}
         /\ i = Len(window')
         /\ \E r \in Renamings : offered = {r} /\ Joins(i, r)
<1>1. window'[i] = InFlight(CHOOSE r \in offered : TRUE)
  BY WindowNow
<1>2. i + Skipped(retire) = Cut(resolved, mispredict) + 1 /\ offered # {} /\ i = Len(window')
  BY TurnIs, WindowNow DEF Grown
<1>3. PICK r \in Renamings : offered = {r}
  BY <1>2, TurnIs
<1>4. window'[i] = InFlight(r)
  BY <1>1, <1>3
<1>5. /\ r.seq \in Seqs /\ r.kind \in Kinds /\ r.bytes \in Accesses \cup {{}}
      /\ r.val \in Optional(Values) /\ r.sid \in Optional(StoreIds) /\ r.spec \in Optional(SnapshotIds)
  BY <1>3 DEF Renamings, Optional
<1>6. Joins(i, r)
  BY <1>3, <1>4, <1>5 DEF Joins, InFlight, Entry
<1> QED
  BY <1>2, <1>3, <1>6, TurnIs

(* What is before the cut and does not retire stays.                       *)
LEMMA StaysIn ==
  ASSUME Typed, NEW resolved, NEW mispredict, NEW retire, NEW offered,
         Turn(resolved, mispredict, retire, offered), ~Exception(retire),
         NEW k \in 1 .. Cut(resolved, mispredict), k > Skipped(retire)
  PROVE  /\ k - Skipped(retire) \in DOMAIN window'
         /\ Carried(k - Skipped(retire), k, resolved)
<1>1. Len(window') >= Cut(resolved, mispredict) - Skipped(retire)
  BY TurnIs, WindowNow DEF Grown
<1>2. k - Skipped(retire) \in DOMAIN window'
  BY <1>1, TurnIs, WindowNow
<1>3. (k - Skipped(retire)) + Skipped(retire) = k
  BY TurnIs
<1> DEFINE i == k - Skipped(retire)
<1> HIDE DEF i
<1>4. i \in DOMAIN window' /\ i + Skipped(retire) = k
  BY <1>2, <1>3 DEF i
<1>5. Carried(i, k, resolved)
  BY <1>4, EntryCarried
<1> QED
  BY <1>4, <1>5 DEF i

------------------------------------------------------------------------------
(****************************************************************************)
(* Order in the window and the masks: what the next kill hits is exactly   *)
(* what the window cuts.                                                   *)
(****************************************************************************)

(* What is renamed is last in the window.                                  *)
LEMMA NewestIn ==
  ASSUME Typed, NEW resolved, NEW mispredict, NEW retire, NEW offered,
         Turn(resolved, mispredict, retire, offered), ~Exception(retire), NEW r, offered = {r}
  PROVE  /\ Len(window') \in DOMAIN window' /\ Joins(Len(window'), r)
         /\ Len(window') + Skipped(retire) = Cut(resolved, mispredict) + 1
         /\ r \in Renamings
<1> DEFINE cut == Cut(resolved, mispredict)
           s == Skipped(retire)
<1>0. /\ Len(window') = Grown(resolved, mispredict, offered) - s
      /\ DOMAIN window' = 1 .. Len(window') /\ Len(window') \in Nat
  BY WindowNow
<1>a. cut \in Nat /\ s \in {0, 1} /\ (s = 1 => cut >= 1)
  BY TurnIs
<1>b. Grown(resolved, mispredict, offered) = cut + 1
  BY DEF Grown
<1> HIDE DEF cut, s
<1>2. Len(window') \in DOMAIN window' /\ Len(window') + s = cut + 1
  BY <1>0, <1>a, <1>b
<1> DEFINE i == Len(window')
<1> HIDE DEF i
<1>3. i \in DOMAIN window' /\ ~(i + Skipped(retire) <= Cut(resolved, mispredict))
  BY <1>2, <1>a DEF i, cut, s
<1>4. \E x \in Renamings : offered = {x} /\ Joins(i, x)
  BY <1>3, EntryJoins
<1>5. r \in Renamings /\ Joins(i, r)
  BY <1>4
<1> QED
  BY <1>2, <1>5 DEF i, cut, s

(* Snapshots are not shared.                                               *)
LEMMA SpecIs ==
  ASSUME Typed, NEW i \in DOMAIN window, NEW j \in DOMAIN window, i # j
  PROVE  window[i].spec \cap window[j].spec = {}
BY DEF Typed, WindowOK

(* The unresolved branches before an entry, after the cycle.               *)
LEMMA OlderAfter ==
  ASSUME Typed, NEW resolved, NEW mispredict, NEW retire, NEW offered,
         Turn(resolved, mispredict, retire, offered), ~Exception(retire),
         NEW i \in DOMAIN window'
  PROVE  \A x : x \in Older(i)' <=>
           x \in Older(i + Skipped(retire)) /\ \A c \in resolved : x \notin window[c].spec
<1> DEFINE k == i + Skipped(retire)
           cut == Cut(resolved, mispredict)
<1>1. k <= cut + 1 /\ k \in Nat /\ i \in Nat \ {0} /\ i <= Len(window')
  BY EntryJoins, TurnIs, WindowNow
<1>2. Older(i)' = UNION {window'[j].spec : j \in 1 .. i - 1}
  BY DEF Older
<1>3. ASSUME NEW x, x \in Older(i)'
      PROVE  x \in Older(k) /\ \A c \in resolved : x \notin window[c].spec
  <2>1. PICK j \in 1 .. i - 1 : x \in window'[j].spec
    BY <1>2, <1>3
  <2>2. j \in DOMAIN window' /\ j + Skipped(retire) <= cut /\ j + Skipped(retire) \in 1 .. k - 1
    BY <1>1, <2>1, WindowNow, TurnIs
  <2> DEFINE l == j + Skipped(retire)
  <2>3. Carried(j, l, resolved)
    BY <2>2, EntryCarried
  <2> HIDE DEF l
  <2>4. x \in window[l].spec /\ l \notin resolved /\ l \in DOMAIN window
    BY <2>1, <2>3 DEF Carried
  <2>5. l \in 1 .. k - 1
    BY <2>2 DEF l
  <2>6. x \in Older(k)
    BY <2>4, <2>5 DEF Older
  <2>7. ASSUME NEW c \in resolved PROVE x \notin window[c].spec
    <3>1. c \in DOMAIN window /\ c # l
      BY <2>4, <2>7, TurnIs
    <3> QED
      BY <2>4, <3>1, SpecIs
  <2> QED
    BY <2>6, <2>7
<1>4. ASSUME NEW x, x \in Older(k), \A c \in resolved : x \notin window[c].spec
      PROVE  x \in Older(i)'
  <2>1. PICK l \in 1 .. k - 1 : x \in window[l].spec
    BY <1>4 DEF Older
  <2>2. l # 1 \/ ~retire
    BY <2>1, TurnIs
  <2>3. l \in 1 .. cut /\ l > Skipped(retire)
    BY <1>1, <2>1, <2>2, TurnIs
  <2> DEFINE j == l - Skipped(retire)
  <2>4. j \in DOMAIN window' /\ Carried(j, l, resolved)
    BY <2>3, StaysIn
  <2>5. j \in 1 .. i - 1
    BY <1>1, <2>1, <2>3, TurnIs
  <2> HIDE DEF j
  <2>6. l \notin resolved
    BY <1>4, <2>1
  <2>7. x \in window'[j].spec
    BY <2>1, <2>4, <2>6 DEF Carried
  <2> QED
    BY <1>2, <2>5, <2>7
<1> QED
  BY <1>3, <1>4

(* The kill of the next cycle.                                             *)
LEMMA KillIs ==
  ASSUME Typed, NEW resolved, NEW mispredict, NEW retire, NEW offered,
         Turn(resolved, mispredict, retire, offered)
  PROVE  /\ kill'.force = Exception(retire)
         /\ kill'.kill_mask = IF Missed(resolved, mispredict) = {} THEN {}
                              ELSE SnapshotIds \
                                   UNION {window[i].spec : i \in 1 .. Cut(resolved, mispredict) - 1}
         /\ kill'.clear_mask = IF Missed(resolved, mispredict) # {} THEN {}
                               ELSE UNION {window[i].spec : i \in resolved}
         /\ kill' \in [force : BOOLEAN, kill_mask : SUBSET SnapshotIds, clear_mask : SUBSET SnapshotIds]
<1>1. kill' = [force      |-> Exception(retire),
              kill_mask  |-> IF Missed(resolved, mispredict) = {} THEN {}
                             ELSE SnapshotIds \
                                  UNION {window[i].spec : i \in 1 .. Cut(resolved, mispredict) - 1},
              clear_mask |-> IF Missed(resolved, mispredict) # {} THEN {}
                             ELSE UNION {window[i].spec : i \in resolved}]
  BY DEF Turn, WindowStep
<1>2. UNION {window[i].spec : i \in resolved} \subseteq SnapshotIds
  <2>1. \A i \in resolved : i \in DOMAIN window
    BY DEF Turn, Resolves, Optional
  <2>2. \A i \in DOMAIN window : window[i].spec \subseteq SnapshotIds
    BY DEF Typed, TypeOK, Entry, Optional
  <2> QED
    BY <2>1, <2>2
<1>3. Exception(retire) \in BOOLEAN
  BY DEF Turn, Exception
<1> QED
  BY <1>1, <1>2, <1>3

(* A message whose mask is that of the k-th entry is killed with it.       *)
LEMMA KeepAfter ==
  ASSUME Typed, NEW resolved, NEW mispredict, NEW retire, NEW offered,
         Turn(resolved, mispredict, retire, offered), NEW k \in DOMAIN window,
         NEW m, m.mask = Older(k)
  PROVE  Keep(m, kill') <=> ~Exception(retire) /\ k <= Cut(resolved, mispredict)
<1> DEFINE cut == Cut(resolved, mispredict)
<1>1. Keep(m, kill') <=> ~Exception(retire) /\ Older(k) \cap kill'.kill_mask = {}
  BY KillIs DEF Keep
<1>2. k \in Nat /\ cut \in Nat
  BY TurnIs
<1>3. CASE Missed(resolved, mispredict) = {}
  <2>1. kill'.kill_mask = {} /\ cut = Len(window)
    BY <1>3, KillIs DEF Cut
  <2>2. k <= cut
    BY <2>1, TurnIs
  <2> QED
    BY <1>1, <2>1, <2>2
<1>4. CASE Missed(resolved, mispredict) # {}
  <2>1. kill'.kill_mask = SnapshotIds \ UNION {window[i].spec : i \in 1 .. cut - 1}
    BY <1>4, KillIs
  <2>2. cut \in DOMAIN window /\ window[cut].spec # {}
    BY <1>4, TurnIs
  <2>3. CASE k <= cut
    <3>1. 1 .. k - 1 \subseteq 1 .. cut - 1
      BY <1>2, <2>3
    <3>2. Older(k) \cap kill'.kill_mask = {}
      BY <2>1, <3>1 DEF Older
    <3> QED
      BY <1>1, <2>3, <3>2
  <2>4. CASE ~(k <= cut)
    <3>1. cut \in 1 .. k - 1
      BY <1>2, <2>2, <2>4, TurnIs
    <3>2. PICK x \in window[cut].spec : TRUE
      BY <2>2
    <3>3. x \in Older(k)
      BY <3>1, <3>2 DEF Older
    <3>4. x \in SnapshotIds
      BY <2>2, <3>2 DEF Typed, TypeOK, Entry, Optional
    <3>5. ASSUME NEW i \in 1 .. cut - 1 PROVE x \notin window[i].spec
      <4>1. i \in DOMAIN window /\ i # cut
        BY <1>2, <2>2, TurnIs
      <4> QED
        BY <2>2, <3>2, <4>1, SpecIs
    <3>6. x \in kill'.kill_mask
      BY <2>1, <3>4, <3>5
    <3> QED
      BY <1>1, <2>4, <3>3, <3>6
  <2> QED
    BY <2>3, <2>4
<1> QED
  BY <1>3, <1>4

(* The broadcast clears from the mask of an entry what has resolved.       *)
LEMMA MaskAfter ==
  ASSUME Typed, NEW resolved, NEW mispredict, NEW retire, NEW offered,
         Turn(resolved, mispredict, retire, offered), ~Exception(retire),
         NEW i \in DOMAIN window'
  PROVE  Older(i + Skipped(retire)) \ kill'.clear_mask = Older(i)'
<1> DEFINE k == i + Skipped(retire)
           cut == Cut(resolved, mispredict)
<1>1. \A x : x \in Older(i)' <=> x \in Older(k) /\ \A c \in resolved : x \notin window[c].spec
  BY OlderAfter
<1>2. CASE Missed(resolved, mispredict) = {}
  <2>1. kill'.clear_mask = UNION {window[c].spec : c \in resolved}
    BY <1>2, KillIs
  <2> HIDE DEF k
  <2> QED
    BY <1>1, <2>1 DEF k
<1>3. CASE Missed(resolved, mispredict) # {}
  <2>1. kill'.clear_mask = {} /\ resolved = {cut} /\ cut \in DOMAIN window
    BY <1>3, KillIs, TurnIs
  <2>2. k <= cut /\ k \in Nat
    BY <1>3, EntryJoins, WindowNow, TurnIs
  <2> HIDE DEF k
  <2>3. ASSUME NEW x \in Older(k) PROVE x \notin window[cut].spec
    <3>1. PICK l \in 1 .. k - 1 : x \in window[l].spec
      BY <2>3 DEF Older
    <3>2. l \in DOMAIN window /\ l # cut
      BY <2>2, <3>1, TurnIs
    <3> QED
      BY <2>1, <3>1, <3>2, SpecIs
  <2>4. \A x : x \in Older(i)' <=> x \in Older(k)
    BY <1>1, <2>1, <2>3
  <2> QED
    BY <2>1, <2>4 DEF k
<1> QED
  BY <1>2, <1>3

------------------------------------------------------------------------------
(****************************************************************************)
(* The queue: a kill spares a prefix of it, an issue takes one place out,  *)
(* and what is renamed comes last.                                         *)
(****************************************************************************)

(* A message as it is shown has the mask without what has resolved.        *)
LEMMA SentFields ==
  ASSUME NEW m \in Sent
  PROVE  /\ m.seq \in Seqs /\ m.kind \in {"load", "store"} /\ m.bytes \in Accesses
         /\ m.sid \in Optional(StoreIds) /\ m.mask \in SUBSET SnapshotIds
BY DEF Sent, Msg

(* The kill spares a prefix of the queue.                                  *)
LEMMA SurvivorsAre ==
  ASSUME QueueOrder, queue \in Seq(Sent)
  PROVE  /\ Cardinality(Survivors) \in Nat /\ Cardinality(Survivors) <= Len(queue)
         /\ Survivors = 1 .. Cardinality(Survivors)
<1> DEFINE c == Cardinality(Survivors)
<1>1. Len(queue) \in Nat /\ DOMAIN queue = 1 .. Len(queue)
  OBVIOUS
<1>2. IsFiniteSet(DOMAIN queue) /\ Cardinality(DOMAIN queue) = Len(queue)
  BY <1>1, FS_Interval
<1>3. Survivors \subseteq DOMAIN queue
  BY DEF Survivors
<1>4. IsFiniteSet(Survivors) /\ c \in Nat /\ c <= Len(queue)
  BY <1>1, <1>2, <1>3, FS_Subset, FS_CardinalityType
<1>5. ASSUME NEW x \in Survivors PROVE x \in 1 .. c
  <2>1. x \in Nat /\ x >= 1 /\ x <= Len(queue)
    BY <1>1, <1>3
  <2>2. 1 .. x \subseteq Survivors
    <3>1. ASSUME NEW y \in 1 .. x PROVE y \in Survivors
      <4>1. y \in DOMAIN queue /\ (y < x \/ y = x)
        BY <1>1, <2>1
      <4>2. Keep(queue[x], kill) /\ x \in DOMAIN queue
        BY DEF Survivors
      <4>3. Keep(queue[y], kill)
        BY <4>1, <4>2 DEF QueueOrder
      <4> QED
        BY <4>1, <4>3 DEF Survivors
    <3> QED
      BY <3>1
  <2>3. IsFiniteSet(1 .. x) /\ Cardinality(1 .. x) = x
    BY <2>1, FS_Interval
  <2>4. x <= c
    <3>1. 1 .. x \in SUBSET Survivors /\ IsFiniteSet(Survivors)
      BY <1>4, <2>2
    <3>2. Cardinality(1 .. x) <= Cardinality(Survivors)
      BY <3>1, FS_Subset
    <3> QED
      BY <2>3, <3>2
  <2> QED
    BY <1>4, <2>1, <2>4
<1>6. IsFiniteSet(1 .. c) /\ Cardinality(1 .. c) = c
  BY <1>4, FS_Interval
<1>7. Survivors \subseteq 1 .. c
  BY <1>5
<1>8. Survivors = 1 .. c
  BY <1>6, <1>7, FS_Subset
<1> QED
  BY <1>4, <1>8

(* What the queue shows.                                                   *)
LEMMA ShownIs ==
  ASSUME QueueOrder, queue \in Seq(Sent)
  PROVE  /\ ShownQueue \in Seq(Sent) /\ Len(ShownQueue) \in Nat /\ Len(ShownQueue) <= Len(queue)
         /\ \A n \in 1 .. Len(ShownQueue) :
              /\ n \in DOMAIN queue /\ Keep(queue[n], kill)
              /\ ShownQueue[n] = Cleared(queue[n], kill)
         /\ \A n \in DOMAIN queue : Keep(queue[n], kill) => n \in 1 .. Len(ShownQueue)
<1> DEFINE c == Cardinality(Survivors)
<1>1. c \in Nat /\ c <= Len(queue) /\ Survivors = 1 .. c
  BY SurvivorsAre
<1>2. Len(queue) \in Nat /\ DOMAIN queue = 1 .. Len(queue)
  OBVIOUS
<1>3. ASSUME NEW n \in 1 .. c PROVE Survivor(n) = n
  <2>1. ASSUME NEW k \in 1 .. c PROVE Cardinality({j \in Survivors : j <= k}) = k
    <3>1. {j \in Survivors : j <= k} = 1 .. k
      BY <1>1, <2>1
    <3>2. Cardinality(1 .. k) = k
      BY <1>1, <2>1, FS_Interval
    <3> QED
      BY <3>1, <3>2
  <2>2. \A k \in Survivors : Cardinality({j \in Survivors : j <= k}) = n <=> k = n
    BY <1>1, <2>1
  <2>3. n \in Survivors
    BY <1>1
  <2> QED
    BY <2>2, <2>3 DEF Survivor
<1>4. ASSUME NEW n \in 1 .. c
      PROVE  /\ n \in DOMAIN queue /\ Keep(queue[n], kill)
             /\ ShownQueue[n] = Cleared(queue[n], kill) /\ ShownQueue[n] \in Sent
  <2>1. n \in Survivors
    BY <1>1
  <2>2. n \in DOMAIN queue /\ Keep(queue[n], kill)
    BY <2>1 DEF Survivors
  <2>3. ShownQueue[n] = Cleared(queue[n], kill)
    BY <1>3 DEF ShownQueue
  <2>4. queue[n] \in Sent
    BY <2>2
  <2> QED
    BY <2>2, <2>3, <2>4, PeekField
<1>5. ShownQueue = [n \in 1 .. c |-> ShownQueue[n]]
  BY DEF ShownQueue
<1> HIDE DEF c
<1>6. ShownQueue \in Seq(Sent) /\ Len(ShownQueue) = c
  BY <1>1, <1>4, <1>5
<1>7. \A n \in DOMAIN queue : Keep(queue[n], kill) => n \in 1 .. c
  BY <1>1 DEF Survivors
<1> QED
  BY <1>1, <1>4, <1>6, <1>7

(* Where the n-th message after an issue was before it.                    *)
Place(issue, n) == IF \E i \in issue : i <= n THEN n + 1 ELSE n

(* What an issue leaves.                                                   *)
LEMMA RestIs ==
  ASSUME QueueOrder, queue \in Seq(Sent), NEW issue \in Issues
  PROVE  /\ Rest(issue) \in Seq(Sent) /\ Len(Rest(issue)) \in Nat
         /\ Len(Rest(issue)) = Len(ShownQueue) - (IF issue = {} THEN 0 ELSE 1)
         /\ \A n \in 1 .. Len(Rest(issue)) :
              /\ Place(issue, n) \in 1 .. Len(ShownQueue) /\ Place(issue, n) \notin issue
              /\ Rest(issue)[n] = ShownQueue[Place(issue, n)]
         /\ \A k \in 1 .. Len(ShownQueue) :
              k \notin issue => \E n \in 1 .. Len(Rest(issue)) : Place(issue, n) = k
<1> DEFINE list == ShownQueue
<1>1. list \in Seq(Sent) /\ Len(list) \in Nat /\ DOMAIN list = 1 .. Len(list)
  BY ShownIs
<1> HIDE DEF list
<1>2. issue = {} \/ \E i \in DOMAIN list : issue = {i}
  BY DEF Issues, Optional, list
<1>3. CASE issue = {}
  <2>1. Rest(issue) = list /\ \A n : Place(issue, n) = n
    BY <1>3 DEF Rest, Place, list
  <2> QED
    BY <1>1, <1>3, <2>1 DEF list
<1>4. CASE issue # {}
  <2>1. PICK i \in DOMAIN list : issue = {i}
    BY <1>2, <1>4
  <2>2. i \in Nat /\ 1 <= i /\ i <= Len(list)
    BY <1>1
  <2>3. Rest(issue) = SubSeq(list, 1, i - 1) \o SubSeq(list, i + 1, Len(list))
    BY <2>1 DEF Rest, Without, list
  <2> DEFINE left == SubSeq(list, 1, i - 1)
             right == SubSeq(list, i + 1, Len(list))
             rest == Rest(issue)
  <2>4. left \in Seq(Sent) /\ Len(left) = i - 1 /\ \A n \in 1 .. i - 1 : left[n] = list[n]
    <3>1. \A n \in 1 .. i - 1 : list[n] \in Sent
      BY <1>1, <2>2
    <3>2. /\ left \in Seq(Sent) /\ Len(left) = IF 1 <= i - 1 THEN i - 1 - 1 + 1 ELSE 0
          /\ \A n \in 1 .. i - 1 - 1 + 1 : left[n] = list[1 + n - 1]
      BY <2>2, <3>1, SubSeqProperties
    <3> HIDE DEF left
    <3> QED
      BY <2>2, <3>2
  <2>5. /\ right \in Seq(Sent) /\ Len(right) = Len(list) - i
        /\ \A n \in 1 .. Len(list) - i : right[n] = list[i + n]
    <3>1. \A n \in i + 1 .. Len(list) : list[n] \in Sent
      BY <1>1, <2>2
    <3>2. /\ right \in Seq(Sent)
          /\ Len(right) = IF i + 1 <= Len(list) THEN Len(list) - (i + 1) + 1 ELSE 0
          /\ \A n \in 1 .. Len(list) - (i + 1) + 1 : right[n] = list[i + 1 + n - 1]
      BY <1>1, <2>2, <3>1, SubSeqProperties
    <3> HIDE DEF right
    <3> QED
      BY <1>1, <2>2, <3>2
  <2>a. rest = left \o right
    BY <2>3
  <2> HIDE DEF left, right, rest
  <2>6. /\ rest \in Seq(Sent) /\ Len(rest) = Len(left) + Len(right)
        /\ \A n \in 1 .. Len(left) + Len(right) :
             rest[n] = IF n <= Len(left) THEN left[n] ELSE right[n - Len(left)]
    BY <2>a, <2>4, <2>5, ConcatProperties
  <2>7. Len(rest) = Len(list) - 1 /\ Len(rest) \in Nat
    BY <1>1, <2>2, <2>4, <2>5, <2>6
  <2>8. \A n : Place(issue, n) = IF i <= n THEN n + 1 ELSE n
    BY <2>1 DEF Place
  <2>9. ASSUME NEW n \in 1 .. Len(rest)
        PROVE  /\ Place(issue, n) \in 1 .. Len(list) /\ Place(issue, n) # i
               /\ rest[n] = list[Place(issue, n)]
    <3>1. CASE n <= i - 1
      <4>1. Place(issue, n) = n /\ n \in 1 .. Len(list) /\ n # i
        BY <2>2, <2>7, <2>8, <3>1
      <4> QED
        BY <2>2, <2>4, <2>5, <2>6, <2>7, <3>1, <4>1
    <3>2. CASE ~(n <= i - 1)
      <4>1. Place(issue, n) = n + 1 /\ n + 1 \in 1 .. Len(list) /\ n + 1 # i
        BY <2>2, <2>7, <2>8, <3>2
      <4>2. n - (i - 1) \in 1 .. Len(list) - i /\ i + (n - (i - 1)) = n + 1
        BY <1>1, <2>2, <2>7, <3>2
      <4>3. rest[n] = right[n - (i - 1)]
        BY <1>1, <2>2, <2>4, <2>5, <2>6, <2>7, <3>2
      <4> QED
        BY <2>5, <4>1, <4>2, <4>3
    <3> QED
      BY <3>1, <3>2
  <2>10. ASSUME NEW k \in 1 .. Len(list), k # i
         PROVE  \E n \in 1 .. Len(rest) : Place(issue, n) = k
    <3>1. CASE k < i
      <4>1. k \in 1 .. Len(rest) /\ Place(issue, k) = k
        BY <2>2, <2>7, <2>8, <3>1
      <4> QED
        BY <4>1
    <3>2. CASE k > i
      <4>1. k - 1 \in 1 .. Len(rest) /\ Place(issue, k - 1) = k
        BY <2>2, <2>7, <2>8, <3>2
      <4> QED
        BY <4>1
    <3> QED
      BY <2>2, <2>10, <3>1, <3>2
  <2> QED
    BY <1>4, <2>1, <2>6, <2>7, <2>9, <2>10 DEF rest, list
<1> QED
  BY <1>3, <1>4

(* One cycle, as the lemmas above describe it.                             *)
Step(issue, data, resolved, mispredict, retire, offered, delay) ==
  /\ issue \in Issues /\ data \in Datas /\ delay \in Delays
  /\ Turn(resolved, mispredict, retire, offered)
  /\ FlowStep(issue, data, SendStore(retire), offered, Unresolved(resolved, mispredict), delay)

(* The branches that are not resolved after the cut.                       *)
LEMMA UnresolvedIs ==
  ASSUME Typed, NEW resolved, NEW mispredict, NEW retire, NEW offered,
         Turn(resolved, mispredict, retire, offered)
  PROVE  /\ Unresolved(resolved, mispredict) \subseteq SnapshotIds
         /\ \A x : x \in Unresolved(resolved, mispredict) <=>
              \E k \in 1 .. Cut(resolved, mispredict) : k \notin resolved /\ x \in window[k].spec
<1> DEFINE cut == Cut(resolved, mispredict)
           now == Now(resolved, mispredict)
<1>1. DOMAIN now = 1 .. cut
  BY NowIs DEF Typed, Turn, WindowStep
<1>2. Unresolved(resolved, mispredict) = UNION {now[i].spec : i \in 1 .. cut}
  BY <1>1 DEF Unresolved
<1>3. ASSUME NEW i \in 1 .. cut
      PROVE  now[i].spec = (IF i \in resolved THEN {} ELSE window[i].spec) /\ i \in DOMAIN window
  <2>1. TypeOK /\ window \in Seq(Entry) /\ (mispredict => resolved # {})
        /\ resolved \in Resolves /\ mispredict \in BOOLEAN
    BY DEF Typed, Turn, WindowStep
  <2>2. i \in 1 .. Cut(resolved, mispredict)
    OBVIOUS
  <2>3. /\ i \in DOMAIN window
        /\ Now(resolved, mispredict)[i].spec = IF i \in resolved THEN {} ELSE window[i].spec
    BY <2>1, <2>2, NowSpec
  <2> QED
    BY <2>3
<1>4. \A i \in DOMAIN window : window[i].spec \subseteq SnapshotIds
  BY DEF Typed, TypeOK, Entry, Optional
<1> HIDE DEF now, cut
<1>5. \A x : x \in Unresolved(resolved, mispredict) <=>
        \E k \in 1 .. cut : k \notin resolved /\ x \in window[k].spec
  BY <1>2, <1>3
<1> QED
  BY <1>3, <1>4, <1>5 DEF cut

(* The mask given to what is renamed is that of its entry.                 *)
LEMMA NewMask ==
  ASSUME Typed, NEW resolved, NEW mispredict, NEW retire, NEW offered,
         Turn(resolved, mispredict, retire, offered), NEW r, offered = {r}
  PROVE  /\ ~Exception(retire) /\ Missed(resolved, mispredict) = {} /\ r \in Renamings
         /\ ~kill'.force /\ kill'.kill_mask = {}
         /\ \E i \in DOMAIN window' :
              /\ i = Len(window') /\ Joins(i, r)
              /\ Unresolved(resolved, mispredict) \ kill'.clear_mask = Older(i)'
<1> DEFINE un == Unresolved(resolved, mispredict)
           cut == Cut(resolved, mispredict)
<1>1. ~Exception(retire) /\ Missed(resolved, mispredict) = {}
  BY DEF Turn, WindowStep
<1>2. PICK i \in DOMAIN window' : i = Len(window') /\ Joins(i, r) /\ i + Skipped(retire) = cut + 1
  BY <1>1, NewestIn
<1>3. kill'.clear_mask = UNION {window[c].spec : c \in resolved} /\ ~kill'.force /\ kill'.kill_mask = {}
  BY <1>1, KillIs
<1>4. cut \in Nat /\ cut = Len(window) /\ DOMAIN window = 1 .. cut
  BY TurnIs
<1>5. resolved \subseteq DOMAIN window
  BY TurnIs
<1> HIDE DEF un, cut
<1>6. \A x : x \in Older(i)' <=> x \in Older(cut + 1) /\ \A c \in resolved : x \notin window[c].spec
  <2>1. \A x : x \in Older(i)' <=>
          x \in Older(i + Skipped(retire)) /\ \A c \in resolved : x \notin window[c].spec
    BY <1>1, OlderAfter
  <2> QED
    BY <1>2, <2>1
<1>7. \A x : x \in un <=> \E k \in 1 .. cut : k \notin resolved /\ x \in window[k].spec
  BY UnresolvedIs DEF un, cut
<1>8. \A x : x \in Older(cut + 1) <=> \E k \in 1 .. cut : x \in window[k].spec
  <2>1. 1 .. (cut + 1) - 1 = 1 .. cut
    BY <1>4
  <2> QED
    BY <2>1 DEF Older
<1>9. ASSUME NEW x, x \in Older(cut + 1), \A c \in resolved : x \notin window[c].spec
      PROVE  x \in un /\ x \notin kill'.clear_mask
  BY <1>3, <1>7, <1>8, <1>9
<1>10. ASSUME NEW x, x \in un, x \notin kill'.clear_mask
       PROVE  x \in Older(cut + 1) /\ \A c \in resolved : x \notin window[c].spec
  BY <1>3, <1>7, <1>8, <1>10
<1>11. un \ kill'.clear_mask = Older(i)'
  BY <1>6, <1>9, <1>10
<1>12. r \in Renamings
  BY TurnIs
<1> QED
  BY <1>1, <1>2, <1>3, <1>11, <1>12 DEF un

(* What is renamed, as a message.                                          *)
LEMMA NewMessage ==
  ASSUME Typed, NEW resolved, NEW mispredict, NEW retire, NEW offered,
         Turn(resolved, mispredict, retire, offered), NEW r \in Renamings,
         r.kind \in {"load", "store"}
  PROVE  LET m == Message(r, Unresolved(resolved, mispredict))
         IN  /\ m \in Sent
             /\ m.seq = r.seq /\ m.kind = r.kind /\ m.bytes = r.bytes /\ m.sid = r.sid
             /\ m.mask = Unresolved(resolved, mispredict)
<1>1. /\ r.seq \in Seqs /\ r.bytes \in Accesses /\ r.sid \in Optional(StoreIds)
  BY DEF Renamings, Optional
<1>2. Unresolved(resolved, mispredict) \in SUBSET SnapshotIds
  BY UnresolvedIs
<1> QED
  BY <1>1, <1>2 DEF Message, Sent, Msg

(* The queue after a cycle: what stays, and what is renamed.               *)
LEMMA QueueAfter ==
  ASSUME Typed, QueueOrder, NEW issue, NEW data, NEW resolved, NEW mispredict, NEW retire,
         NEW offered, NEW delay,
         Step(issue, data, resolved, mispredict, retire, offered, delay)
  PROVE  /\ queue' \in Seq(Sent) /\ DOMAIN queue' = 1 .. Len(queue') /\ Len(queue') \in Nat
         /\ Len(Rest(issue)) \in Nat
         /\ Len(queue') = Len(Rest(issue)) + (IF MemoryRenamed(offered) = {} THEN 0 ELSE 1)
         /\ \A n \in 1 .. Len(Rest(issue)) :
              /\ Place(issue, n) \in DOMAIN queue /\ Place(issue, n) \notin issue
              /\ Keep(queue[Place(issue, n)], kill)
              /\ queue'[n] = Cleared(queue[Place(issue, n)], kill)
         /\ \A k \in DOMAIN queue : Keep(queue[k], kill) /\ k \notin issue =>
              \E n \in 1 .. Len(Rest(issue)) : Place(issue, n) = k
         /\ MemoryRenamed(offered) # {} =>
              \E r \in Renamings :
                /\ offered = {r} /\ r.kind \in {"load", "store"}
                /\ queue'[Len(Rest(issue)) + 1] = Message(r, Unresolved(resolved, mispredict))
<1> DEFINE un == Unresolved(resolved, mispredict)
           rest == Rest(issue)
           tail == IF MemoryRenamed(offered) = {} THEN <<>>
                   ELSE <<Message(CHOOSE r \in MemoryRenamed(offered) : TRUE, un)>>
<1>1. queue' = rest \o tail
  BY DEF Step, FlowStep
<1>2. queue \in Seq(Sent) /\ issue \in Issues
  BY DEF Typed, Step
<1>3. /\ rest \in Seq(Sent) /\ Len(rest) \in Nat
      /\ \A n \in 1 .. Len(rest) :
           /\ Place(issue, n) \in 1 .. Len(ShownQueue) /\ Place(issue, n) \notin issue
           /\ rest[n] = ShownQueue[Place(issue, n)]
      /\ \A k \in 1 .. Len(ShownQueue) :
           k \notin issue => \E n \in 1 .. Len(rest) : Place(issue, n) = k
  BY <1>2, RestIs
<1>4. /\ \A n \in 1 .. Len(ShownQueue) :
           /\ n \in DOMAIN queue /\ Keep(queue[n], kill)
           /\ ShownQueue[n] = Cleared(queue[n], kill)
      /\ \A n \in DOMAIN queue : Keep(queue[n], kill) => n \in 1 .. Len(ShownQueue)
  BY <1>2, ShownIs
<1>5. ASSUME MemoryRenamed(offered) # {}
      PROVE  \E r \in Renamings :
               /\ offered = {r} /\ r.kind \in {"load", "store"}
               /\ tail = <<Message(r, un)>> /\ Message(r, un) \in Sent
  <2>1. PICK r \in Renamings : offered = {r}
    BY <1>5, TurnIs DEF MemoryRenamed, Step
  <2>2. MemoryRenamed(offered) = {r} /\ r.kind \in {"load", "store"}
    BY <1>5, <2>1 DEF MemoryRenamed
  <2>3. tail = <<Message(r, un)>>
    BY <1>5, <2>2
  <2>4. Message(r, un) \in Sent
    BY <2>2, NewMessage DEF Step
  <2> QED
    BY <2>1, <2>2, <2>3, <2>4
<1> HIDE DEF rest, un
<1>6. /\ tail \in Seq(Sent) /\ Len(tail) = IF MemoryRenamed(offered) = {} THEN 0 ELSE 1
      /\ MemoryRenamed(offered) # {} =>
           \E r \in Renamings :
             offered = {r} /\ r.kind \in {"load", "store"} /\ tail[1] = Message(r, un)
  <2>1. CASE MemoryRenamed(offered) = {}
    BY <2>1
  <2>2. CASE MemoryRenamed(offered) # {}
    <3>1. PICK r \in Renamings : /\ offered = {r} /\ r.kind \in {"load", "store"}
                                 /\ tail = <<Message(r, un)>> /\ Message(r, un) \in Sent
      BY <1>5, <2>2
    <3> DEFINE m == Message(r, un)
    <3> HIDE DEF m
    <3>2. tail = <<m>> /\ m \in Sent
      BY <3>1 DEF m
    <3> HIDE DEF tail
    <3>3. tail \in Seq(Sent) /\ Len(tail) = 1 /\ tail[1] = m
      BY <3>2
    <3> QED
      BY <2>2, <3>1, <3>3 DEF m
  <2> QED
    BY <2>1, <2>2
<1> HIDE DEF tail
<1>7. /\ queue' \in Seq(Sent) /\ Len(queue') = Len(rest) + Len(tail)
      /\ \A n \in 1 .. Len(rest) + Len(tail) :
           queue'[n] = IF n <= Len(rest) THEN rest[n] ELSE tail[n - Len(rest)]
  <2>1. rest \in Seq(Sent) /\ tail \in Seq(Sent)
    BY <1>3, <1>6
  <2>2. /\ rest \o tail \in Seq(Sent) /\ Len(rest \o tail) = Len(rest) + Len(tail)
        /\ \A n \in 1 .. Len(rest) + Len(tail) :
             (rest \o tail)[n] = IF n <= Len(rest) THEN rest[n] ELSE tail[n - Len(rest)]
    BY <2>1, ConcatProperties
  <2> QED
    BY <1>1, <2>2
<1>8. DOMAIN queue' = 1 .. Len(queue') /\ Len(queue') \in Nat
  BY <1>7
<1>12. Len(tail) \in {0, 1} /\ Len(rest) \in Nat
  BY <1>3, <1>6
<1>9. ASSUME NEW n \in 1 .. Len(rest)
      PROVE  /\ Place(issue, n) \in DOMAIN queue /\ Place(issue, n) \notin issue
             /\ Keep(queue[Place(issue, n)], kill)
             /\ queue'[n] = Cleared(queue[Place(issue, n)], kill)
  <2>1. queue'[n] = rest[n]
    <3>1. n \in 1 .. Len(rest) + Len(tail) /\ n <= Len(rest)
      BY <1>12
    <3> QED
      BY <1>7, <3>1
  <2> QED
    BY <1>3, <1>4, <2>1
<1>10. ASSUME MemoryRenamed(offered) # {}
       PROVE  \E r \in Renamings :
                /\ offered = {r} /\ r.kind \in {"load", "store"}
                /\ queue'[Len(rest) + 1] = Message(r, un)
  <2>1. queue'[Len(rest) + 1] = tail[1]
    BY <1>3, <1>6, <1>7, <1>10
  <2> QED
    BY <1>6, <1>10, <2>1
<1>11. \A k \in DOMAIN queue : Keep(queue[k], kill) /\ k \notin issue =>
         \E n \in 1 .. Len(rest) : Place(issue, n) = k
  BY <1>3, <1>4
<1> QED
  BY <1>3, <1>6, <1>7, <1>8, <1>9, <1>10, <1>11 DEF rest, un

(* What is registered for dispatch: what went to it, or what stays.        *)
LEMMA DispatchedAfter ==
  ASSUME Typed, QueueOrder, NEW issue, NEW data, NEW resolved, NEW mispredict, NEW retire,
         NEW offered, NEW delay,
         Step(issue, data, resolved, mispredict, retire, offered, delay)
  PROVE  /\ issue = {} => dispatched' = IF Sends(SendStore(retire)) THEN {} ELSE InPeek
         /\ issue # {} =>
              /\ InPeek = {} \/ Sends(SendStore(retire))
              /\ \E k \in DOMAIN queue :
                   /\ issue = {k} /\ Keep(queue[k], kill) /\ MayGo(ShownQueue, k)
                   /\ k \in DOMAIN ShownQueue
                   /\ dispatched' = {Cleared(queue[k], kill)}
<1> DEFINE ss == SendStore(retire)
<1>1. /\ dispatched' = RegNext(InPeek, Taken(ss) # {}, {ShownQueue[i] : i \in issue})
      /\ issue # {} => InPeek = {} \/ Taken(ss) # {}
      /\ \A i \in issue : i \in DOMAIN ShownQueue /\ MayGo(ShownQueue, i)
  BY DEF Step, FlowStep
<1>2. Taken(ss) # {} <=> Sends(ss)
  BY DEF Taken, Sends
<1>3. issue = {} \/ \E i \in DOMAIN ShownQueue : issue = {i}
  BY DEF Step, Issues, Optional
<1>4. /\ \A n \in 1 .. Len(ShownQueue) :
           /\ n \in DOMAIN queue /\ Keep(queue[n], kill)
           /\ ShownQueue[n] = Cleared(queue[n], kill)
      /\ DOMAIN ShownQueue = 1 .. Len(ShownQueue)
  BY ShownIs DEF Typed
<1> HIDE DEF ss
<1>5. CASE issue = {}
  <2>1. {ShownQueue[i] : i \in issue} = {}
    BY <1>5
  <2> QED
    BY <1>1, <1>2, <1>5, <2>1 DEF RegNext, ss
<1>6. CASE issue # {}
  <2>1. PICK k \in DOMAIN ShownQueue : issue = {k}
    BY <1>3, <1>6
  <2>2. {ShownQueue[i] : i \in issue} = {ShownQueue[k]}
    BY <2>1
  <2>3. dispatched' = {ShownQueue[k]}
    BY <1>1, <2>2 DEF RegNext
  <2>4. MayGo(ShownQueue, k)
    BY <1>1, <2>1
  <2> QED
    BY <1>1, <1>2, <1>4, <1>6, <2>1, <2>3, <2>4 DEF ss
<1> QED
  BY <1>5, <1>6

------------------------------------------------------------------------------
(****************************************************************************)
(* Messages and their owners.  A message that is shown was there before    *)
(* (Old), or it is the one that is renamed.                                *)
(****************************************************************************)

(* The entry of the window that a message, as it is shown, belongs to.     *)
Held(p, k) ==
  /\ k \in DOMAIN window
  /\ window[k].seq = p.seq /\ window[k].kind = p.kind /\ window[k].sid = p.sid
  /\ p.mask = Older(k) /\ ~window[k].done

(* Fields of what the pipe has.                                            *)
LEMMA AnsweredFields ==
  ASSUME NEW m \in Answered
  PROVE  /\ m.seq \in Seqs /\ m.kind \in {"load", "store"} /\ m.sid \in Optional(StoreIds)
         /\ m.kind = "load" => m.bytes \in Data
         /\ \A k : /\ Cleared(m, k).seq = m.seq /\ Cleared(m, k).kind = m.kind
                   /\ Cleared(m, k).bytes = m.bytes /\ Cleared(m, k).sid = m.sid
                   /\ Cleared(m, k).mask = m.mask \ k.clear_mask
                   /\ Cleared(m, k) \in Answered
<1>1. CASE m \in Msg({"load"}, Data)
  BY <1>1 DEF Answered, Msg, Cleared
<1>2. CASE m \in Msg({"store"}, Accesses)
  BY <1>2 DEF Answered, Msg, Cleared
<1> QED
  BY <1>1, <1>2 DEF Answered

(* Living messages are those of the row, but for their masks.              *)
LEMMA LivingOf ==
  ASSUME NEW S, S \in {Sent, Answered}, NEW M \in SUBSET S, NEW T \in SUBSET Track,
         NEW p \in Living(M, T)
  PROVE  /\ p \in S
         /\ \E m \in M : /\ p.seq = m.seq /\ p.kind = m.kind /\ p.sid = m.sid
                         /\ p.bytes = m.bytes
<1>1. PICK m \in M, v \in T : ~v.dead /\ p = [m EXCEPT !.mask = v.mask]
  BY DEF Living
<1>2. v.mask \in SUBSET SnapshotIds
  BY DEF Track
<1>3. m \in Sent \/ m \in Msg({"load"}, Data) \/ m \in Msg({"store"}, Accesses)
  BY DEF Answered
<1>4. p.seq = m.seq /\ p.kind = m.kind /\ p.sid = m.sid /\ p.bytes = m.bytes
  BY <1>1, <1>3 DEF Sent, Msg
<1>5. p \in S
  <2>1. CASE S = Sent
    <3>1. m \in Sent
      BY <2>1
    <3>2. p \in Sent
      BY <1>1, <1>2, <3>1 DEF Sent, Msg
    <3> QED
      BY <2>1, <3>2
  <2>2. CASE S = Answered
    <3>1. m \in Msg({"load"}, Data) \/ m \in Msg({"store"}, Accesses)
      BY <2>2 DEF Answered
    <3>2. p \in Msg({"load"}, Data) \/ p \in Msg({"store"}, Accesses)
      BY <1>1, <1>2, <3>1 DEF Msg
    <3> QED
      BY <2>2, <3>2 DEF Answered
  <2> QED
    BY <2>1, <2>2
<1> QED
  BY <1>4, <1>5

(* What is alive has its type.                                             *)
LEMMA LivingTyped ==
  ASSUME TypeOK
  PROVE  /\ LivingFirst \subseteq Sent /\ LivingSecond \subseteq Answered
         /\ \A p \in LivingFirst : \E m \in internal[1] :
              p.seq = m.seq /\ p.kind = m.kind /\ p.sid = m.sid /\ p.bytes = m.bytes
         /\ \A p \in LivingSecond : \E m \in internal[2] :
              p.seq = m.seq /\ p.kind = m.kind /\ p.sid = m.sid /\ p.bytes = m.bytes
<1> DEFINE T == IF internal[2] = {} /\ vvms[2] # {} THEN vvms[2] ELSE vvms[1]
<1>1. /\ internal[1] \in SUBSET Sent /\ internal[2] \in SUBSET Answered
      /\ vvms[2] \in SUBSET Track /\ T \in SUBSET Track
  BY DEF TypeOK, Single
<1>2. LivingFirst = Living(internal[1], T) /\ LivingSecond = Living(internal[2], vvms[2])
  BY DEF LivingFirst, LivingSecond
<1> HIDE DEF T
<1>3. ASSUME NEW p \in LivingFirst
      PROVE  p \in Sent /\ \E m \in internal[1] :
               p.seq = m.seq /\ p.kind = m.kind /\ p.sid = m.sid /\ p.bytes = m.bytes
  BY <1>1, <1>2, LivingOf
<1>4. ASSUME NEW p \in LivingSecond
      PROVE  p \in Answered /\ \E m \in internal[2] :
               p.seq = m.seq /\ p.kind = m.kind /\ p.sid = m.sid /\ p.bytes = m.bytes
  BY <1>1, <1>2, LivingOf
<1> QED
  BY <1>3, <1>4

(* Each message that a register shows belongs to an entry.                 *)
LEMMA ShownHeld ==
  ASSUME TypeOK, MessagesOwned, NEW m \in QueueMsgs \cup dispatched \cup LivingFirst, Keep(m, kill)
  PROVE  /\ m \in Sent /\ Cleared(m, kill) \in Sent
         /\ Cleared(m, kill).seq = m.seq /\ Cleared(m, kill).kind = m.kind
         /\ Cleared(m, kill).bytes = m.bytes /\ Cleared(m, kill).sid = m.sid
         /\ \E k \in DOMAIN window : Held(Cleared(m, kill), k) /\ window[k].bytes = m.bytes
<1>1. m \in Sent
  BY LivingTyped DEF TypeOK, Single, QueueMsgs
<1>2. PICK k \in DOMAIN window : Owns(m, k) /\ window[k].bytes = m.bytes
  BY DEF MessagesOwned, OwnedWithBytes
<1>3. Held(Cleared(m, kill), k)
  BY <1>1, <1>2, PeekField DEF Owns, Held
<1> QED
  BY <1>1, <1>2, <1>3, PeekField

(* A result belongs to an entry.                                           *)
LEMMA ResultHeld ==
  ASSUME RowsOK, TypeOK, MessagesOwned, NEW p \in Results
  PROVE  /\ p \in Answered
         /\ \E m \in LivingSecond : Keep(m, kill) /\ p = Cleared(m, kill) /\ p.seq = m.seq
                                    /\ p.kind = m.kind /\ p.bytes = m.bytes
         /\ \E k \in DOMAIN window : Held(p, k)
<1>1. Results = Peek(LivingSecond, kill)
  BY OutIs DEF Results
<1>2. PICK m \in LivingSecond : Keep(m, kill) /\ p = Cleared(m, kill)
  BY <1>1 DEF Peek
<1>3. m \in Answered
  BY LivingTyped
<1>4. PICK k \in DOMAIN window : Owns(m, k)
  BY <1>2 DEF MessagesOwned, Owned
<1>5. /\ p.seq = m.seq /\ p.kind = m.kind /\ p.bytes = m.bytes /\ p.sid = m.sid
      /\ p.mask = m.mask \ kill.clear_mask /\ p \in Answered
  BY <1>2, <1>3, AnsweredFields
<1>6. Held(p, k)
  BY <1>4, <1>5 DEF Owns, Held
<1> QED
  BY <1>2, <1>5, <1>6

(* No result arrives for what is still on its way.                         *)
LEMMA NotArrived ==
  ASSUME RowsOK, TypeOK, MessagesOwned, Once,
         NEW m \in QueueMsgs \cup dispatched \cup LivingFirst, NEW k, window[k].seq = m.seq
  PROVE  Arrived(k) = {}
<1>1. SUFFICES ASSUME NEW p \in Results, p.seq = m.seq PROVE FALSE
  BY DEF Arrived
<1>2. PICK n \in LivingSecond : p.seq = n.seq
  BY ResultHeld
<1>3. n.seq \in SeqsOf(LivingSecond) /\ n.seq \in SeqsOf(LivingFirst \cup LivingSecond)
      /\ n.seq \in SeqsOf(dispatched \cup LivingFirst \cup LivingSecond)
  BY DEF SeqsOf
<1>4. m.seq = n.seq
  BY <1>1, <1>2
<1>5. CASE m \in QueueMsgs
  <2>1. m.seq \in SeqsOf(QueueMsgs)
    BY <1>5 DEF SeqsOf
  <2> QED
    BY <1>3, <1>4, <2>1 DEF Once
<1>6. CASE m \in dispatched
  <2>1. m.seq \in SeqsOf(dispatched)
    BY <1>6 DEF SeqsOf
  <2> QED
    BY <1>3, <1>4, <2>1 DEF Once
<1>7. CASE m \in LivingFirst
  <2>1. m.seq \in SeqsOf(LivingFirst)
    BY <1>7 DEF SeqsOf
  <2> QED
    BY <1>3, <1>4, <2>1 DEF Once
<1> QED
  BY <1>5, <1>6, <1>7

(* What the next broadcast spares still has its entry in the window.       *)
LEMMA HeldAfter ==
  ASSUME Typed, NEW resolved, NEW mispredict, NEW retire, NEW offered,
         Turn(resolved, mispredict, retire, offered), NEW p, NEW k, Held(p, k),
         p.kind \in {"load", "store"}, Keep(p, kill')
  PROVE  /\ ~Exception(retire) /\ k \in 1 .. Cut(resolved, mispredict) /\ k > Skipped(retire)
         /\ k - Skipped(retire) \in DOMAIN window'
         /\ Carried(k - Skipped(retire), k, resolved)
         /\ Arrived(k) = {} => \E i \in DOMAIN window' : i = k - Skipped(retire) /\ Owns(p, i)'
<1>1. k \in DOMAIN window /\ p.mask = Older(k) /\ ~window[k].done /\ window[k].kind = p.kind
  BY DEF Held
<1>2. ~Exception(retire) /\ k <= Cut(resolved, mispredict)
  BY <1>1, KeepAfter
<1>3. k \in 1 .. Cut(resolved, mispredict)
  BY <1>1, <1>2, TurnIs
<1>4. k > Skipped(retire)
  <2>1. ASSUME retire PROVE k # 1
    <3>1. RobRemovable(window[1])
      BY <2>1, TurnIs
    <3>2. k = 1 => FALSE
      BY <1>1, <3>1 DEF RobRemovable
    <3> QED
      BY <3>2
  <2> QED
    BY <1>3, <2>1, TurnIs
<1>5. k - Skipped(retire) \in DOMAIN window' /\ Carried(k - Skipped(retire), k, resolved)
  BY <1>2, <1>3, <1>4, StaysIn
<1>6. ASSUME Arrived(k) = {} PROVE \E i \in DOMAIN window' : i = k - Skipped(retire) /\ Owns(p, i)'
  <2>1. PICK i \in DOMAIN window' : i = k - Skipped(retire) /\ Carried(i, k, resolved)
    BY <1>5
  <2>2. i + Skipped(retire) = k
    BY <1>3, <2>1, TurnIs
  <2>3. Older(k) \ kill'.clear_mask = Older(i)'
    <3>1. Older(i + Skipped(retire)) \ kill'.clear_mask = Older(i)'
      BY <1>2, MaskAfter
    <3> QED
      BY <2>2, <3>1
  <2>4. /\ window'[i].seq = p.seq /\ window'[i].kind = p.kind /\ window'[i].sid = p.sid
        /\ ~window'[i].done
    BY <1>6, <2>1 DEF Carried, Held
  <2>5. Owns(p, i)'
    BY <1>1, <2>3, <2>4 DEF Owns
  <2> QED
    BY <2>1, <2>5
<1> QED
  BY <1>2, <1>3, <1>4, <1>5, <1>6

(* A message that some register shows, before the response stage.          *)
Old(p) ==
  \E m \in QueueMsgs \cup dispatched \cup LivingFirst : Keep(m, kill) /\ p = Cleared(m, kill)

(* All that is known before the step about what is in flight.              *)
Flight == Typed /\ RowsOK /\ MessagesOwned /\ Once /\ QueueOrder

(* What the response stage makes of a message.                             *)
LEMMA ReceivedFields ==
  ASSUME NEW m \in Sent
  PROVE  /\ Received(m).seq = m.seq /\ Received(m).kind = m.kind /\ Received(m).sid = m.sid
         /\ Received(m).mask = m.mask
         /\ Received(m).bytes = IF m.kind = "load" THEN (CHOOSE r \in bus : TRUE).data ELSE m.bytes
BY DEF Received, Sent, Msg

(* Where each message comes from.                                          *)
LEMMA Sources ==
  ASSUME Flight, NEW issue, NEW data, NEW resolved, NEW mispredict, NEW retire,
         NEW offered, NEW delay,
         Step(issue, data, resolved, mispredict, retire, offered, delay)
  PROVE  /\ \A p \in QueueMsgs' :
              \/ Old(p)
              \/ \E r \in Renamings : /\ offered = {r} /\ r.kind \in {"load", "store"}
                                      /\ p = Message(r, Unresolved(resolved, mispredict))
         /\ \A p \in dispatched' : Old(p)
         /\ \A p \in LivingFirst' : Old(p)
         /\ \A p \in LivingSecond' : \E q \in Peek(LivingFirst, kill) : Old(q) /\ p = Received(q)
<1>1. ASSUME NEW p \in QueueMsgs'
      PROVE  \/ Old(p)
             \/ \E r \in Renamings : /\ offered = {r} /\ r.kind \in {"load", "store"}
                                     /\ p = Message(r, Unresolved(resolved, mispredict))
  <2>1. PICK n \in DOMAIN queue' : p = queue'[n]
    BY DEF QueueMsgs
  <2>2. /\ DOMAIN queue' = 1 .. Len(queue') /\ Len(queue') \in Nat /\ Len(Rest(issue)) \in Nat
        /\ Len(queue') = Len(Rest(issue)) + (IF MemoryRenamed(offered) = {} THEN 0 ELSE 1)
        /\ \A l \in 1 .. Len(Rest(issue)) :
             /\ Place(issue, l) \in DOMAIN queue /\ Keep(queue[Place(issue, l)], kill)
             /\ queue'[l] = Cleared(queue[Place(issue, l)], kill)
        /\ MemoryRenamed(offered) # {} =>
             \E r \in Renamings :
               /\ offered = {r} /\ r.kind \in {"load", "store"}
               /\ queue'[Len(Rest(issue)) + 1] = Message(r, Unresolved(resolved, mispredict))
    BY QueueAfter DEF Flight
  <2>3. CASE n \in 1 .. Len(Rest(issue))
    <3>1. queue[Place(issue, n)] \in QueueMsgs
      BY <2>2, <2>3 DEF QueueMsgs
    <3> QED
      BY <2>1, <2>2, <2>3, <3>1 DEF Old
  <2>4. CASE n \notin 1 .. Len(Rest(issue))
    <3>1. n = Len(Rest(issue)) + 1 /\ MemoryRenamed(offered) # {}
      BY <2>2, <2>4
    <3> QED
      BY <2>1, <2>2, <3>1
  <2> QED
    BY <2>3, <2>4
<1>2. ASSUME NEW p \in InPeek PROVE Old(p)
  BY DEF InPeek, Peek, Old
<1>3. ASSUME NEW p \in Peek(LivingFirst, kill) PROVE Old(p)
  BY DEF Peek, Old
<1>4. ASSUME NEW p \in dispatched' PROVE Old(p)
  <2>1. CASE issue = {}
    <3>1. p \in InPeek
      BY <1>4, <2>1, DispatchedAfter DEF Flight
    <3> QED
      BY <1>2, <3>1
  <2>2. CASE issue # {}
    <3>1. PICK k \in DOMAIN queue : Keep(queue[k], kill) /\ dispatched' = {Cleared(queue[k], kill)}
      BY <2>2, DispatchedAfter DEF Flight
    <3>2. queue[k] \in QueueMsgs
      BY DEF QueueMsgs
    <3> QED
      BY <1>4, <3>1, <3>2 DEF Old
  <2> QED
    BY <2>1, <2>2
<1>5. /\ \A p : p \in LivingFirst' <=>
           IF Sends(SendStore(retire)) THEN p \in InPeek ELSE ~Moves /\ p \in Peek(LivingFirst, kill)
      /\ \A p : p \in LivingSecond' <=>
           Moves /\ \E q \in Peek(LivingFirst, kill) : p = Received(q)
  BY LivingAfter DEF Flight, Typed, Step, FlowStep
<1> QED
  BY <1>1, <1>2, <1>3, <1>4, <1>5

(* What was there before has an owner, which has no result yet.            *)
LEMMA OldHeld ==
  ASSUME Flight, NEW p, Old(p)
  PROVE  /\ p \in Sent
         /\ \E k \in DOMAIN window : Held(p, k) /\ window[k].bytes = p.bytes /\ Arrived(k) = {}
<1>1. PICK m \in QueueMsgs \cup dispatched \cup LivingFirst : Keep(m, kill) /\ p = Cleared(m, kill)
  BY DEF Old
<1>2. PICK k \in DOMAIN window : Held(p, k) /\ window[k].bytes = m.bytes
  BY <1>1, ShownHeld DEF Flight, Typed
<1>3. p \in Sent /\ p.seq = m.seq /\ p.bytes = m.bytes
  BY <1>1, ShownHeld DEF Flight, Typed
<1>4. window[k].seq = m.seq
  BY <1>2, <1>3 DEF Held
<1>5. Arrived(k) = {}
  BY <1>4, NotArrived DEF Flight, Typed
<1> QED
  BY <1>2, <1>3, <1>5

(* It has one still, after the cycle.                                      *)
LEMMA OldOwned ==
  ASSUME Flight, NEW resolved, NEW mispredict, NEW retire, NEW offered,
         Turn(resolved, mispredict, retire, offered), NEW p, Old(p), Keep(p, kill')
  PROVE  \E i \in DOMAIN window' : Owns(p, i)' /\ window'[i].bytes = p.bytes
<1>1. PICK k \in DOMAIN window : Held(p, k) /\ window[k].bytes = p.bytes /\ Arrived(k) = {}
  BY OldHeld
<1>2. p.kind \in {"load", "store"}
  BY OldHeld, SentFields
<1>3. /\ Carried(k - Skipped(retire), k, resolved)
      /\ \E i \in DOMAIN window' : i = k - Skipped(retire) /\ Owns(p, i)'
  BY <1>1, <1>2, HeldAfter DEF Flight
<1> QED
  BY <1>1, <1>3 DEF Carried

(* Everything in flight stays owned.                                       *)
LEMMA OwnedAfter ==
  ASSUME Flight, NEW issue, NEW data, NEW resolved, NEW mispredict, NEW retire,
         NEW offered, NEW delay,
         Step(issue, data, resolved, mispredict, retire, offered, delay)
  PROVE  MessagesOwned'
<1>0. Turn(resolved, mispredict, retire, offered) /\ Typed
  BY DEF Step, Flight
<1>1. ASSUME NEW p, Old(p), Keep(p, kill') PROVE OwnedWithBytes(p)'
  BY <1>0, <1>1, OldOwned DEF OwnedWithBytes
<1>2. ASSUME NEW r \in Renamings, offered = {r}, r.kind \in {"load", "store"}, NEW p,
             p = Message(r, Unresolved(resolved, mispredict))
      PROVE  OwnedWithBytes(p)'
  <2>1. PICK i \in DOMAIN window' :
          /\ i = Len(window') /\ Joins(i, r)
          /\ Unresolved(resolved, mispredict) \ kill'.clear_mask = Older(i)'
    BY <1>0, <1>2, NewMask
  <2>2. /\ p.seq = r.seq /\ p.kind = r.kind /\ p.bytes = r.bytes /\ p.sid = r.sid
        /\ p.mask = Unresolved(resolved, mispredict)
    BY <1>0, <1>2, NewMessage
  <2>3. Owns(p, i)' /\ window'[i].bytes = p.bytes
    BY <2>1, <2>2 DEF Owns, Joins
  <2> QED
    BY <2>3 DEF OwnedWithBytes
<1>3. ASSUME NEW p \in (QueueMsgs \cup dispatched \cup LivingFirst)', Keep(p, kill')
      PROVE  OwnedWithBytes(p)'
  <2>1. \/ Old(p)
        \/ \E r \in Renamings : /\ offered = {r} /\ r.kind \in {"load", "store"}
                                /\ p = Message(r, Unresolved(resolved, mispredict))
    BY Sources
  <2> QED
    BY <1>1, <1>2, <1>3, <2>1
<1>4. ASSUME NEW p \in LivingSecond', Keep(p, kill') PROVE Owned(p)'
  <2>1. PICK q \in Peek(LivingFirst, kill) : Old(q) /\ p = Received(q)
    BY Sources
  <2>2. q \in Sent
    BY <2>1, OldHeld
  <2>3. p.seq = q.seq /\ p.kind = q.kind /\ p.sid = q.sid /\ p.mask = q.mask
    BY <2>1, <2>2, ReceivedFields
  <2>4. Keep(q, kill')
    BY <1>4, <2>3 DEF Keep
  <2>5. PICK i \in DOMAIN window' : Owns(q, i)'
    BY <1>0, <2>1, <2>4, OldOwned
  <2>6. Owns(p, i)'
    BY <2>3, <2>5 DEF Owns
  <2> QED
    BY <2>6 DEF Owned
<1> QED
  BY <1>3, <1>4 DEF MessagesOwned

(* The entries of the window stay apart.                                   *)
LEMMA WindowKept ==
  ASSUME Typed, NEW resolved, NEW mispredict, NEW retire, NEW offered,
         Turn(resolved, mispredict, retire, offered)
  PROVE  WindowOK'
<1>1. CASE Exception(retire)
  <2>1. window' = <<>>
    BY <1>1 DEF Turn, WindowStep
  <2> QED
    BY <2>1 DEF WindowOK
<1>2. CASE ~Exception(retire)
  <2> DEFINE s == Skipped(retire)
             cut == Cut(resolved, mispredict)
  <2>1. ASSUME NEW i \in DOMAIN window', i + s <= cut
        PROVE  /\ i + s \in DOMAIN window /\ Carried(i, i + s, resolved)
    BY <1>2, <2>1, EntryCarried DEF Carried
  <2>2. ASSUME NEW i \in DOMAIN window', ~(i + s <= cut)
        PROVE  i = Len(window') /\ \E r \in Renamings : Joins(i, r)
    BY <1>2, <2>2, EntryJoins
  <2>3. ASSUME NEW i \in DOMAIN window'
        PROVE  /\ window'[i].kind \in {"load", "store"} => window'[i].bytes \in Accesses
               /\ window'[i].kind = "store" <=> window'[i].sid # {}
               /\ window'[i].kind = "store" <=> window'[i].val # {}
               /\ window'[i].spec # {} => window'[i].kind = "branch"
    <3>1. CASE i + s <= cut
      <4>1. i + s \in DOMAIN window /\ Carried(i, i + s, resolved)
        BY <2>1, <3>1
      <4> QED
        BY <4>1 DEF Carried, Typed, WindowOK
    <3>2. CASE ~(i + s <= cut)
      <4>1. PICK r \in Renamings : Joins(i, r)
        BY <2>2, <3>2
      <4>2. /\ r.kind \in {"load", "store"} <=> r.bytes # {}
            /\ r.kind = "store" <=> r.sid # {}
            /\ r.kind = "store" <=> r.val # {}
            /\ r.kind = "branch" <=> r.spec # {}
            /\ r.bytes \in Accesses \cup {{}}
        BY DEF Renamings
      <4> QED
        BY <4>1, <4>2 DEF Joins
    <3> QED
      BY <3>1, <3>2
  <2> DEFINE Apart(i, j) ==
               /\ window'[i].seq # window'[j].seq
               /\ window'[i].sid \cap window'[j].sid = {}
               /\ window'[i].spec \cap window'[j].spec = {}
  <2>4. ASSUME NEW i \in DOMAIN window', NEW j \in DOMAIN window', i + s <= cut, j + s <= cut, i # j
        PROVE  Apart(i, j)
    <3> DEFINE k == i + s
               l == j + s
    <3>1. k # l
      BY <1>2, <2>4, WindowNow, TurnIs
    <3>2. k \in DOMAIN window /\ l \in DOMAIN window /\ Carried(i, k, resolved) /\ Carried(j, l, resolved)
      BY <2>1, <2>4
    <3> HIDE DEF k, l
    <3>3. /\ window[k].seq # window[l].seq
          /\ window[k].sid \cap window[l].sid = {}
          /\ window[k].spec \cap window[l].spec = {}
      BY <3>1, <3>2 DEF Typed, WindowOK
    <3> QED
      BY <3>2, <3>3 DEF Carried
  <2>5. ASSUME NEW i \in DOMAIN window', NEW j \in DOMAIN window', i + s <= cut, ~(j + s <= cut)
        PROVE  Apart(i, j) /\ Apart(j, i)
    <3> DEFINE k == i + s
    <3>1. k \in DOMAIN window /\ Carried(i, k, resolved)
      BY <2>1, <2>5
    <3> HIDE DEF k
    <3>2. PICK r \in Renamings : Joins(j, r)
      BY <2>2, <2>5
    <3>3. r.seq \notin UsedSeqs /\ r.sid \cap Live = {} /\ r.spec \cap UsedSpecs = {}
      BY DEF Renamings, Optional
    <3>4. window[k].seq # r.seq /\ window[k].sid \cap r.sid = {} /\ window[k].spec \cap r.spec = {}
      BY <3>1, <3>3 DEF UsedSeqs, Live, UsedSpecs
    <3> QED
      BY <3>1, <3>2, <3>4 DEF Carried, Joins
  <2>6. ASSUME NEW i \in DOMAIN window', NEW j \in DOMAIN window', i # j PROVE Apart(i, j)
    BY <2>2, <2>4, <2>5, <2>6
  <2> HIDE DEF s, cut
  <2> QED
    BY <2>3, <2>6 DEF WindowOK
<1> QED
  BY <1>1, <1>2

(* What is shown has a number in use.                                      *)
LEMMA OldSeq ==
  ASSUME Flight, NEW m \in QueueMsgs \cup dispatched \cup LivingFirst, Keep(m, kill)
  PROVE  Old(Cleared(m, kill)) /\ Cleared(m, kill).seq = m.seq /\ m.seq \in UsedSeqs
<1>1. Old(Cleared(m, kill))
  BY DEF Old
<1>2. /\ Cleared(m, kill).seq = m.seq
      /\ \E k \in DOMAIN window : Held(Cleared(m, kill), k)
  BY ShownHeld DEF Flight, Typed
<1> QED
  BY <1>1, <1>2 DEF Held, UsedSeqs

(* An issue changes no order.                                              *)
LEMMA PlaceGrows ==
  ASSUME NEW issue, issue = {} \/ \E i \in Nat : issue = {i}, NEW k \in Nat, NEW l \in Nat, k < l
  PROVE  Place(issue, k) < Place(issue, l) /\ Place(issue, k) \in Nat /\ Place(issue, l) \in Nat
<1>1. CASE issue = {}
  BY <1>1 DEF Place
<1>2. ASSUME NEW i \in Nat, issue = {i} PROVE Place(issue, k) < Place(issue, l)
                                              /\ Place(issue, k) \in Nat /\ Place(issue, l) \in Nat
  <2>1. \A n : Place(issue, n) = IF i <= n THEN n + 1 ELSE n
    BY <1>2 DEF Place
  <2> QED
    BY <2>1
<1> QED
  BY <1>1, <1>2

(* Nothing is in two places after the cycle.                               *)
LEMMA OnceAfter ==
  ASSUME Flight, NEW issue, NEW data, NEW resolved, NEW mispredict, NEW retire,
         NEW offered, NEW delay,
         Step(issue, data, resolved, mispredict, retire, offered, delay)
  PROVE  Once'
<1> DEFINE un == Unresolved(resolved, mispredict)
           rest == Rest(issue)
           ss == SendStore(retire)
<1>1. /\ DOMAIN queue' = 1 .. Len(queue') /\ Len(queue') \in Nat /\ Len(rest) \in Nat
      /\ Len(queue') = Len(rest) + (IF MemoryRenamed(offered) = {} THEN 0 ELSE 1)
      /\ \A n \in 1 .. Len(rest) :
           /\ Place(issue, n) \in DOMAIN queue /\ Place(issue, n) \notin issue
           /\ Keep(queue[Place(issue, n)], kill)
           /\ queue'[n] = Cleared(queue[Place(issue, n)], kill)
      /\ MemoryRenamed(offered) # {} =>
           \E r \in Renamings :
             /\ offered = {r} /\ r.kind \in {"load", "store"}
             /\ queue'[Len(rest) + 1] = Message(r, un)
  BY QueueAfter DEF Flight
<1>2. issue = {} \/ \E i \in Nat : issue = {i}
  <2>1. ShownQueue \in Seq(Sent)
    BY ShownIs DEF Flight, Typed
  <2>2. DOMAIN ShownQueue \subseteq Nat
    BY <2>1
  <2> QED
    BY <2>2 DEF Step, Issues, Optional
<1> HIDE DEF un, rest, ss
<1>3. ASSUME NEW n \in 1 .. Len(rest)
      PROVE  /\ queue'[n].seq = queue[Place(issue, n)].seq /\ queue'[n].seq \in UsedSeqs
             /\ queue'[n].seq \in SeqsOf(QueueMsgs)
  <2>1. queue[Place(issue, n)] \in QueueMsgs
    BY <1>1 DEF QueueMsgs
  <2>2. Cleared(queue[Place(issue, n)], kill).seq = queue[Place(issue, n)].seq
        /\ queue[Place(issue, n)].seq \in UsedSeqs
    BY <1>1, <2>1, OldSeq
  <2> QED
    BY <1>1, <2>1, <2>2 DEF SeqsOf
<1>4. ASSUME NEW n \in DOMAIN queue', n \notin 1 .. Len(rest)
      PROVE  n = Len(rest) + 1 /\ queue'[n].seq \notin UsedSeqs
  <2>1. n = Len(rest) + 1 /\ MemoryRenamed(offered) # {}
    BY <1>1, <1>4
  <2>2. PICK r \in Renamings : queue'[n] = Message(r, un)
    BY <1>1, <2>1
  <2>3. queue'[n].seq = r.seq
    BY <2>2 DEF Message
  <2> QED
    BY <2>1, <2>3 DEF Renamings
<1>5. ASSUME NEW k \in DOMAIN queue', NEW l \in DOMAIN queue', k < l
      PROVE  queue'[k].seq # queue'[l].seq
  <2>1. CASE l \in 1 .. Len(rest)
    <3>1. k \in 1 .. Len(rest)
      BY <1>1, <1>5, <2>1
    <3>2. Place(issue, k) # Place(issue, l)
      <4>1. k \in Nat /\ l \in Nat
        BY <1>1
      <4>2. Place(issue, k) < Place(issue, l) /\ Place(issue, k) \in Nat /\ Place(issue, l) \in Nat
        BY <1>2, <1>5, <4>1, PlaceGrows
      <4> QED
        BY <4>2
    <3> QED
      BY <1>1, <1>3, <2>1, <3>1, <3>2 DEF Flight, Once
  <2>2. CASE l \notin 1 .. Len(rest)
    <3>1. k \in 1 .. Len(rest)
      BY <1>1, <1>4, <1>5, <2>2
    <3> QED
      BY <1>3, <1>4, <2>2, <3>1
  <2> QED
    BY <2>1, <2>2
<1>6. \A k, l \in DOMAIN queue' : queue'[k].seq = queue'[l].seq => k = l
  BY <1>1, <1>5
<1> DEFINE D == SeqsOf(dispatched)
           F == SeqsOf(LivingFirst)
           Q == SeqsOf(QueueMsgs)
<1>7. Q \cap D = {} /\ Q \cap F = {} /\ D \cap F = {}
  BY DEF Flight, Once, SeqsOf
<1>8. \A p \in InPeek : p.seq \in D /\ p.seq \in UsedSeqs
  <2>1. ASSUME NEW m \in dispatched, Keep(m, kill)
        PROVE  Cleared(m, kill).seq \in D /\ Cleared(m, kill).seq \in UsedSeqs
    BY <2>1, OldSeq DEF SeqsOf
  <2> QED
    BY <2>1 DEF InPeek, Peek
<1>9. \A p \in Peek(LivingFirst, kill) : p.seq \in F /\ p.seq \in UsedSeqs
  <2>1. ASSUME NEW m \in LivingFirst, Keep(m, kill)
        PROVE  Cleared(m, kill).seq \in F /\ Cleared(m, kill).seq \in UsedSeqs
    BY <2>1, OldSeq DEF SeqsOf
  <2> QED
    BY <2>1 DEF Peek
<1>10. /\ \A p : p \in LivingFirst' <=>
            IF Sends(ss) THEN p \in InPeek ELSE ~Moves /\ p \in Peek(LivingFirst, kill)
       /\ \A p : p \in LivingSecond' <=>
            Moves /\ \E q \in Peek(LivingFirst, kill) : p = Received(q)
  BY LivingAfter DEF Flight, Typed, Step, FlowStep, ss
<1>11. \A p \in LivingSecond' : p.seq \in F /\ p.seq \in UsedSeqs /\ Moves
  <2>1. ASSUME NEW q \in Peek(LivingFirst, kill) PROVE Received(q).seq = q.seq
    <3>1. Old(q)
      BY DEF Old, Peek
    <3> QED
      BY <3>1, OldHeld, ReceivedFields
  <2> QED
    BY <1>9, <1>10, <2>1
<1>12. \A p \in LivingFirst' : /\ p.seq \in UsedSeqs
                               /\ Sends(ss) => p.seq \in D
                               /\ ~Sends(ss) => p.seq \in F /\ ~Moves
  BY <1>8, <1>9, <1>10
<1>13. /\ issue = {} => dispatched' = IF Sends(ss) THEN {} ELSE InPeek
       /\ issue # {} =>
            \E k \in DOMAIN queue :
              /\ issue = {k} /\ Keep(queue[k], kill) /\ dispatched' = {Cleared(queue[k], kill)}
  BY DispatchedAfter DEF Flight, ss
<1>14. ASSUME NEW p \in dispatched'
       PROVE  /\ p.seq \in UsedSeqs
              /\ \/ p.seq \in D /\ ~Sends(ss) /\ issue = {}
                 \/ \E k \in DOMAIN queue : issue = {k} /\ p.seq = queue[k].seq /\ p.seq \in Q
  <2>1. CASE issue = {}
    BY <1>8, <1>13, <1>14, <2>1
  <2>2. CASE issue # {}
    <3>1. PICK k \in DOMAIN queue : issue = {k} /\ Keep(queue[k], kill) /\ p = Cleared(queue[k], kill)
      BY <1>13, <1>14, <2>2
    <3>2. queue[k] \in QueueMsgs
      BY DEF QueueMsgs
    <3>3. p.seq = queue[k].seq /\ p.seq \in UsedSeqs
      BY <3>1, <3>2, OldSeq
    <3> QED
      BY <3>1, <3>2, <3>3 DEF SeqsOf
  <2> QED
    BY <2>1, <2>2
<1> HIDE DEF D, F, Q
<1>15. ASSUME NEW n \in DOMAIN queue', NEW p \in (dispatched \cup LivingFirst \cup LivingSecond)'
       PROVE  queue'[n].seq # p.seq
  <2>1. p.seq \in UsedSeqs
    BY <1>11, <1>12, <1>14
  <2>2. CASE n \in 1 .. Len(rest)
    <3>1. queue'[n].seq \in Q /\ queue'[n].seq = queue[Place(issue, n)].seq
          /\ Place(issue, n) \in DOMAIN queue /\ Place(issue, n) \notin issue
      BY <1>1, <1>3, <2>2 DEF Q
    <3>2. CASE p \in dispatched'
      <4>1. CASE p.seq \in D
        BY <1>7, <3>1, <4>1
      <4>2. ASSUME NEW k \in DOMAIN queue, issue = {k}, p.seq = queue[k].seq
            PROVE  queue'[n].seq # p.seq
        <5>1. k # Place(issue, n)
          BY <3>1, <4>2
        <5> QED
          BY <3>1, <4>2, <5>1 DEF Flight, Once
      <4> QED
        BY <1>14, <3>2, <4>1, <4>2
    <3>3. CASE p \in LivingFirst' \cup LivingSecond'
      <4>1. p.seq \in D \/ p.seq \in F
        BY <1>11, <1>12, <3>3
      <4> QED
        BY <1>7, <3>1, <4>1
    <3> QED
      BY <3>2, <3>3
  <2>3. CASE n \notin 1 .. Len(rest)
    BY <1>4, <2>1, <2>3
  <2> QED
    BY <2>2, <2>3
<1>16. SeqsOf(QueueMsgs)' \cap SeqsOf(dispatched \cup LivingFirst \cup LivingSecond)' = {}
  BY <1>15 DEF SeqsOf, QueueMsgs
<1>17. ASSUME NEW p \in dispatched', NEW q \in (LivingFirst \cup LivingSecond)' PROVE p.seq # q.seq
  <2>1. CASE p.seq \in Q
    <3>1. q.seq \in D \/ q.seq \in F
      BY <1>11, <1>12
    <3> QED
      BY <1>7, <2>1, <3>1
  <2>2. CASE p.seq \in D /\ ~Sends(ss)
    <3>1. q.seq \in F
      BY <1>11, <1>12, <2>2
    <3> QED
      BY <1>7, <2>2, <3>1
  <2> QED
    BY <1>14, <2>1, <2>2
<1>18. ASSUME NEW p \in LivingFirst', NEW q \in LivingSecond' PROVE p.seq # q.seq
  <2>1. q.seq \in F /\ Moves
    BY <1>11
  <2>2. p.seq \in D
    BY <1>12, <2>1
  <2> QED
    BY <1>7, <2>1, <2>2
<1>19. SeqsOf(dispatched)' \cap SeqsOf(LivingFirst \cup LivingSecond)' = {}
  BY <1>17 DEF SeqsOf
<1>20. SeqsOf(LivingFirst)' \cap SeqsOf(LivingSecond)' = {}
  BY <1>18 DEF SeqsOf
<1> QED
  BY <1>6, <1>16, <1>19, <1>20 DEF Once

(* The queue stays in the order of the window.                             *)
LEMMA OrderAfter ==
  ASSUME Flight, NEW issue, NEW data, NEW resolved, NEW mispredict, NEW retire,
         NEW offered, NEW delay,
         Step(issue, data, resolved, mispredict, retire, offered, delay)
  PROVE  QueueOrder'
<1> DEFINE un == Unresolved(resolved, mispredict)
           rest == Rest(issue)
           cut == Cut(resolved, mispredict)
           s == Skipped(retire)
<1>1. /\ DOMAIN queue' = 1 .. Len(queue') /\ Len(queue') \in Nat /\ Len(rest) \in Nat
      /\ Len(queue') = Len(rest) + (IF MemoryRenamed(offered) = {} THEN 0 ELSE 1)
      /\ \A n \in 1 .. Len(rest) :
           /\ Place(issue, n) \in DOMAIN queue /\ Place(issue, n) \notin issue
           /\ Keep(queue[Place(issue, n)], kill)
           /\ queue'[n] = Cleared(queue[Place(issue, n)], kill)
      /\ MemoryRenamed(offered) # {} =>
           \E r \in Renamings :
             /\ offered = {r} /\ r.kind \in {"load", "store"}
             /\ queue'[Len(rest) + 1] = Message(r, un)
  BY QueueAfter DEF Flight
<1>2. issue = {} \/ \E i \in Nat : issue = {i}
  <2>1. ShownQueue \in Seq(Sent)
    BY ShownIs DEF Flight, Typed
  <2>2. DOMAIN ShownQueue \subseteq Nat
    BY <2>1
  <2> QED
    BY <2>2 DEF Step, Issues, Optional
<1>3. Turn(resolved, mispredict, retire, offered) /\ Typed /\ WindowOK'
  BY WindowKept DEF Step, Flight
<1>4. ASSUME NEW n \in 1 .. Len(rest)
      PROVE  /\ queue'[n].seq = queue[Place(issue, n)].seq
             /\ queue'[n].kind \in {"load", "store"}
             /\ \E k \in DOMAIN window : Held(queue'[n], k) /\ Arrived(k) = {}
  <2>1. queue[Place(issue, n)] \in QueueMsgs
    BY <1>1 DEF QueueMsgs
  <2>2. Old(queue'[n]) /\ queue'[n].seq = queue[Place(issue, n)].seq
    BY <1>1, <2>1, OldSeq
  <2> QED
    BY <2>2, OldHeld, SentFields
<1> HIDE DEF un, rest
(* Where the owner of a message goes.                                      *)
<1>5. ASSUME NEW n \in 1 .. Len(rest), NEW k \in DOMAIN window, Held(queue'[n], k),
             Keep(queue'[n], kill'), NEW i \in DOMAIN window', window'[i].seq = queue'[n].seq
      PROVE  i = k - s
  <2> DEFINE p == queue'[n]
  <2>1. p.kind \in {"load", "store"}
    BY <1>4
  <2> HIDE DEF p
  <2>2. Held(p, k) /\ Keep(p, kill')
    BY <1>5 DEF p
  <2>3. k - s \in DOMAIN window' /\ Carried(k - s, k, resolved)
    BY <1>3, <2>1, <2>2, HeldAfter
  <2>4. window'[k - s].seq = window'[i].seq
    BY <1>5, <2>2, <2>3 DEF Carried, Held, p
  <2> HIDE DEF s
  <2> QED
    BY <1>3, <2>3, <2>4 DEF WindowOK
<1>6. ASSUME NEW k \in DOMAIN queue', NEW l \in DOMAIN queue', k < l, Keep(queue'[l], kill')
      PROVE  /\ Keep(queue'[k], kill')
             /\ \A i, j \in DOMAIN window' :
                  window'[i].seq = queue'[k].seq /\ window'[j].seq = queue'[l].seq => i < j
  <2>0. k \in 1 .. Len(rest)
    BY <1>1, <1>6
  <2>a. PICK a \in DOMAIN window : Held(queue'[k], a) /\ Arrived(a) = {}
    BY <1>4, <2>0
  <2>1. CASE l \in 1 .. Len(rest)
    <3>1. PICK b \in DOMAIN window : Held(queue'[l], b) /\ Arrived(b) = {}
      BY <1>4, <2>1
    <3>2. Place(issue, k) < Place(issue, l)
      <4>1. k \in Nat /\ l \in Nat
        BY <1>1
      <4> QED
        BY <1>2, <1>6, <4>1, PlaceGrows
    <3>3. a < b
      <4>1. /\ Place(issue, k) \in DOMAIN queue /\ Place(issue, l) \in DOMAIN queue
            /\ Keep(queue[Place(issue, l)], kill)
            /\ window[a].seq = queue[Place(issue, k)].seq
            /\ window[b].seq = queue[Place(issue, l)].seq
        BY <1>1, <1>4, <2>0, <2>1, <2>a, <3>1 DEF Held
      <4> QED
        BY <3>2, <4>1 DEF Flight, QueueOrder
    <3>4. ~Exception(retire) /\ b <= cut
      <4>1. queue'[l].mask = Older(b)
        BY <3>1 DEF Held
      <4> QED
        BY <1>3, <1>6, <4>1, KeepAfter
    <3>5. Keep(queue'[k], kill')
      <4>1. a <= cut
        BY <1>3, <3>3, <3>4, TurnIs
      <4>2. queue'[k].mask = Older(a)
        BY <2>a DEF Held
      <4> QED
        BY <1>3, <3>4, <4>1, <4>2, KeepAfter
    <3>6. ASSUME NEW i \in DOMAIN window', NEW j \in DOMAIN window',
                 window'[i].seq = queue'[k].seq, window'[j].seq = queue'[l].seq
          PROVE  i < j
      <4>1. i = a - s /\ j = b - s
        BY <1>5, <1>6, <2>0, <2>1, <2>a, <3>1, <3>5, <3>6
      <4>2. a \in Nat /\ b \in Nat /\ s \in Nat
        BY <1>3, TurnIs
      <4> HIDE DEF s
      <4> QED
        BY <3>3, <4>1, <4>2
    <3> QED
      BY <3>5, <3>6
  <2>2. CASE l \notin 1 .. Len(rest)
    <3>1. l = Len(rest) + 1 /\ MemoryRenamed(offered) # {}
      BY <1>1, <2>2
    <3>2. PICK r \in Renamings : offered = {r} /\ queue'[l] = Message(r, un)
      BY <1>1, <3>1
    <3>3. /\ ~Exception(retire) /\ Missed(resolved, mispredict) = {}
          /\ \E i \in DOMAIN window' : i = Len(window') /\ Joins(i, r)
      BY <1>3, <3>2, NewMask
    <3>4. Keep(queue'[k], kill')
      <4>1. a <= cut
        BY <1>3, <3>3, TurnIs DEF Cut
      <4>2. queue'[k].mask = Older(a)
        BY <2>a DEF Held
      <4> QED
        BY <1>3, <3>3, <4>1, <4>2, KeepAfter
    <3>5. ASSUME NEW i \in DOMAIN window', NEW j \in DOMAIN window',
                 window'[i].seq = queue'[k].seq, window'[j].seq = queue'[l].seq
          PROVE  i < j
      <4>1. j = Len(window')
        <5>1. queue'[l].seq = r.seq
          BY <3>2 DEF Message
        <5>2. PICK x \in DOMAIN window' : x = Len(window') /\ Joins(x, r)
          BY <3>3
        <5>3. window'[x].seq = window'[j].seq
          BY <3>5, <5>1, <5>2 DEF Joins
        <5>4. x = j
          BY <1>3, <5>3 DEF WindowOK
        <5> QED
          BY <5>2, <5>4
      <4>2. i # j
        <5>1. queue'[k].seq \in UsedSeqs
          BY <2>a DEF Held, UsedSeqs
        <5>2. queue'[l].seq = r.seq /\ r.seq \notin UsedSeqs
          BY <3>2 DEF Message, Renamings
        <5> QED
          BY <3>5, <5>1, <5>2
      <4>3. DOMAIN window' = 1 .. Len(window') /\ Len(window') \in Nat
        BY <1>3, <3>3, WindowNow
      <4> QED
        BY <4>1, <4>2, <4>3
    <3> QED
      BY <3>4, <3>5
  <2> QED
    BY <2>1, <2>2
<1> QED
  BY <1>6 DEF QueueOrder

------------------------------------------------------------------------------
(****************************************************************************)
(* Types.                                                                  *)
(****************************************************************************)

(* One element or none.                                                    *)
LEMMA OneOf ==
  ASSUME NEW T, NEW S, Single(S, T), S # {}
  PROVE  \E m \in T : S = {m}
BY DEF Single

(* A set of one element, and the empty set.                                *)
LEMMA OneIs ==
  ASSUME NEW T, NEW m \in T
  PROVE  Single({m}, T) /\ Single({}, T)
BY DEF Single

(* The answer that a load gets is data.                                    *)
LEMMA ArrivedIs ==
  ASSUME Flight, NEW k \in DOMAIN window, Arrived(k) # {}
  PROVE  \E p \in Results :
           /\ (CHOOSE m \in Arrived(k) : TRUE) = p
           /\ Held(p, k) /\ p \in Answered
           /\ window[k].kind = "load" => p.bytes \in Data
<1> DEFINE p == CHOOSE m \in Arrived(k) : TRUE
<1>1. p \in Arrived(k)
  OBVIOUS
<1> HIDE DEF p
<1>2. p \in Results /\ p.seq = window[k].seq
  BY <1>1 DEF Arrived
<1>3. p \in Answered /\ \E l \in DOMAIN window : Held(p, l)
  BY <1>2, ResultHeld DEF Flight, Typed
<1>4. PICK l \in DOMAIN window : Held(p, l)
  BY <1>3
<1>5. l = k
  BY <1>2, <1>4 DEF Held, Flight, Typed, WindowOK
<1>6. window[k].kind = "load" => p.bytes \in Data
  BY <1>3, <1>4, <1>5, AnsweredFields DEF Held
<1> QED
  BY <1>2, <1>3, <1>4, <1>5, <1>6 DEF p

(* The window keeps its type.                                              *)
LEMMA EntriesTyped ==
  ASSUME Flight, NEW resolved, NEW mispredict, NEW retire, NEW offered,
         Turn(resolved, mispredict, retire, offered)
  PROVE  window' \in Seq(Entry) /\ \A i \in DOMAIN window' : window'[i] \in Entry
<1>0. Typed
  BY DEF Flight
<1>1. CASE Exception(retire)
  <2>1. window' = <<>>
    BY <1>1 DEF Turn, WindowStep
  <2> QED
    BY <2>1
<1>2. CASE ~Exception(retire)
  <2>1. ASSUME NEW i \in DOMAIN window' PROVE window'[i] \in Entry
    <3>1. CASE i + Skipped(retire) <= Cut(resolved, mispredict)
      <4> DEFINE k == i + Skipped(retire)
      <4>1. k \in DOMAIN window /\ Carried(i, k, resolved)
        BY <1>0, <1>2, <3>1, EntryCarried DEF Carried
      <4> HIDE DEF k
      <4>2. window[k].answer \in Data \cup {<<>>}
        BY <1>0, <4>1 DEF Typed, TypeOK, Entry
      <4>3. window'[i].answer \in Data \cup {<<>>}
        <5>1. CASE Arrived(k) # {} /\ window[k].kind = "load"
          <6>1. (CHOOSE m \in Arrived(k) : TRUE).bytes \in Data
            BY <4>1, <5>1, ArrivedIs
          <6> QED
            BY <4>1, <5>1, <6>1 DEF Carried
        <5>2. CASE ~(Arrived(k) # {} /\ window[k].kind = "load")
          BY <4>1, <4>2, <5>2 DEF Carried
        <5> QED
          BY <5>1, <5>2
      <4> QED
        BY <4>1, <4>3 DEF Carried
    <3>2. CASE ~(i + Skipped(retire) <= Cut(resolved, mispredict))
      BY <1>0, <1>2, <3>2, EntryJoins DEF Joins
    <3> QED
      BY <3>1, <3>2
  <2>2. PICK T : window' \in Seq(T)
    BY <1>0, <1>2, WindowNow
  <2>3. window' \in Seq(Entry)
    BY <2>1, <2>2
  <2> QED
    BY <2>1, <2>3
<1> QED
  BY <1>1, <1>2

(* The store that is sent.                                                 *)
LEMMA SentStoreIs ==
  ASSUME Typed, NEW retire \in BOOLEAN, CommitOK(retire)
  PROVE  \/ SendStore(retire) = {}
         \/ \E s \in StoreIds :
              /\ retire /\ window[1].sid = {s} /\ 1 \in DOMAIN window
              /\ SendStore(retire) = {[bytes |-> address_table[s], val |-> store_data[s]]}
<1>1. CASE ~retire
  BY <1>1 DEF SendStore
<1>2. CASE retire
  <2>1. 1 \in DOMAIN window
    BY <1>2 DEF CommitOK, Typed
  <2>2. window[1].sid = {} \/ \E s \in StoreIds : window[1].sid = {s}
    BY <2>1 DEF Typed, TypeOK, Entry, Optional
  <2>3. CASE window[1].sid = {}
    BY <1>2, <2>3 DEF SendStore
  <2>4. ASSUME NEW s \in StoreIds, window[1].sid = {s}
        PROVE  SendStore(retire) = {[bytes |-> address_table[s], val |-> store_data[s]]}
    BY <1>2, <2>4 DEF SendStore
  <2> QED
    BY <1>2, <2>1, <2>2, <2>3, <2>4
<1> QED
  BY <1>1, <1>2

(* Memory keeps its type.                                                  *)
LEMMA MemoryTyped ==
  ASSUME Typed, NEW retire \in BOOLEAN, CommitOK(retire)
  PROVE  Written(SendStore(retire)) \in [Bytes -> Values]
<1> DEFINE ss == SendStore(retire)
<1>1. \A r \in ss : r.val \in Values
  <2>1. CASE ss = {}
    BY <2>1
  <2>2. ASSUME NEW s \in StoreIds, ss = {[bytes |-> address_table[s], val |-> store_data[s]]}
        PROVE  \A r \in ss : r.val \in Values
    BY <2>2 DEF Typed, TypeOK
  <2> QED
    BY <2>1, <2>2, SentStoreIs
<1> HIDE DEF ss
<1>2. ASSUME NEW b \in Bytes
      PROVE  (IF \E r \in ss : b \in r.bytes THEN (CHOOSE r \in ss : b \in r.bytes).val ELSE memory[b])
               \in Values
  <2>1. memory[b] \in Values
    BY DEF Typed, TypeOK
  <2> QED
    BY <1>1, <2>1
<1>3. Written(ss) \in [Bytes -> Values]
  BY <1>2 DEF Written
<1> QED
  BY <1>3 DEF ss

(* The pipe keeps its type.                                                *)
LEMMA PipeTyped ==
  ASSUME Typed, RowsOK, AnswersHaveOwners, NEW send_store, PipeStep(send_store)
  PROVE  /\ Single(internal'[1], Sent) /\ Single(internal'[2], Answered)
         /\ Single(vvms'[1], Track) /\ Single(vvms'[2], Track)
<1>1. /\ internal'[1] = IF Sends(send_store) THEN InPeek ELSE IF Moves THEN {} ELSE internal[1]
      /\ internal'[2] = IF Moves THEN {Received(m) : m \in internal[1]} ELSE {}
      /\ vvms'[1] = IF Sends(send_store) THEN {Fresh(m) : m \in InPeek} ELSE {}
      /\ vvms'[2] = IF internal[1] # {} THEN {Marked(v) : v \in FirstTrack} ELSE {}
  BY RowsAfter DEF Typed
<1>2. /\ Single(InPeek, Sent) /\ Single(internal[1], Sent)
      /\ Single(vvms[1], Track) /\ Single(vvms[2], Track) /\ Single(bus, Request)
  BY InPeekIs DEF Typed, TypeOK
<1>3. Single({}, Sent) /\ Single({}, Answered) /\ Single({}, Track)
  BY DEF Single
<1>4. Single(internal'[1], Sent)
  BY <1>1, <1>2, <1>3
<1>5. ASSUME NEW m \in internal[1], Moves PROVE Received(m) \in Answered
  <2>1. m \in Sent
    BY <1>2 DEF Single
  <2>2. CASE m.kind = "load"
    <3>1. PICK r \in bus : r.type = "read"
      BY <2>2 DEF AnswersHaveOwners, InResponse
    <3>2. r \in Request /\ (CHOOSE x \in bus : TRUE) = r
      BY <1>2, <3>1 DEF Single
    <3>3. r.data \in Data
      BY <3>1, <3>2 DEF Request
    <3>4. Received(m) \in Msg({"load"}, Data)
      BY <2>1, <2>2, <3>2, <3>3 DEF Received, Sent, Msg
    <3> QED
      BY <3>4 DEF Answered
  <2>3. CASE m.kind = "store"
    <3>1. Received(m) \in Msg({"store"}, Accesses)
      BY <2>1, <2>3 DEF Received, Sent, Msg
    <3> QED
      BY <3>1 DEF Answered
  <2> QED
    BY <2>1, <2>2, <2>3, SentFields
<1>6. Single(internal'[2], Answered)
  <2>1. CASE Moves
    <3>1. internal'[2] = {Received(m) : m \in internal[1]}
      BY <1>1, <2>1
    <3> QED
      BY <1>2, <1>5, <2>1, <3>1 DEF Single
  <2>2. CASE ~Moves
    BY <1>1, <1>3, <2>2
  <2> QED
    BY <2>1, <2>2
<1>7. ASSUME NEW m \in Sent PROVE Fresh(m) \in Track
  BY SentFields DEF Fresh, Track
<1>8. ASSUME NEW v \in Track PROVE Marked(v) \in Track
  <2>1. Keep(v, kill) \in BOOLEAN
    BY DEF Keep
  <2>2. v.mask \ kill.clear_mask \in SUBSET SnapshotIds /\ v.dead \in BOOLEAN
    BY DEF Track
  <2> QED
    BY <2>1, <2>2 DEF Marked, Track
<1>9. Single(vvms'[1], Track)
  <2>1. Single({Fresh(m) : m \in InPeek}, Track)
    BY <1>2, <1>7 DEF Single
  <2> QED
    BY <1>1, <1>3, <2>1
<1>10. Single(vvms'[2], Track)
  <2>1. Single(FirstTrack, Track)
    BY <1>2 DEF FirstTrack
  <2>2. Single({Marked(v) : v \in FirstTrack}, Track)
    BY <1>8, <2>1 DEF Single
  <2> QED
    BY <1>1, <1>3, <2>2
<1> QED
  BY <1>4, <1>6, <1>9, <1>10

(* What is read is data.                                                   *)
LEMMA ReadTyped ==
  ASSUME Typed, NEW a \in Accesses
  PROVE  ReadData(a) \in Data
<1>1. a \subseteq Bytes
  BY DEF Bytes
<1>2. ReadData(a) \in [a -> Values]
  BY <1>1 DEF ReadData, Typed, TypeOK
<1> QED
  BY <1>2 DEF Data

(* The bus has one request at most.                                        *)
LEMMA BusTyped ==
  ASSUME Typed, NEW send_store, NEW delay \in Delays,
         bus' = IF send_store # {} THEN {[type |-> "write", delay |-> delay]}
                ELSE IF Loads(send_store) # {}
                     THEN {Read(m, delay) : m \in Loads(send_store)}
                ELSE IF SendRdy THEN {} ELSE {Waited(r) : r \in bus}
  PROVE  Single(bus', Request)
<1>1. delay \in Nat
  BY MemoryAssumption
<1>2. Single(InPeek, Sent) /\ Single(bus, Request)
  BY InPeekIs DEF Typed, TypeOK
<1>3. [type |-> "write", delay |-> delay] \in Request
  BY <1>1 DEF Request
<1>4. ASSUME NEW m \in InPeek PROVE Read(m, delay) \in Request
  <2>1. m.bytes \in Accesses
    BY <1>2, SentFields DEF Single
  <2>2. ReadData(m.bytes) \in Data
    BY <2>1, ReadTyped
  <2> QED
    BY <1>1, <2>2 DEF Read, Request
<1>5. Single({Read(m, delay) : m \in Loads(send_store)}, Request)
  <2>1. Loads(send_store) \subseteq InPeek
    BY DEF Loads, Taken
  <2> HIDE DEF Loads
  <2> QED
    BY <1>2, <1>4, <2>1 DEF Single
<1>6. ASSUME NEW r \in Request PROVE Waited(r) \in Request
  <2>1. r.delay \in Nat
    BY DEF Request
  <2> DEFINE d == IF r.delay = 0 THEN 0 ELSE r.delay - 1
  <2>2. d \in Nat /\ Waited(r) = [r EXCEPT !.delay = d]
    BY <2>1 DEF Waited
  <2> HIDE DEF d
  <2> QED
    BY <2>2 DEF Request
<1>7. Single({Waited(r) : r \in bus}, Request)
  BY <1>2, <1>6 DEF Single
<1>8. Single({[type |-> "write", delay |-> delay]}, Request) /\ Single({}, Request)
  BY <1>3 DEF Single
<1> QED
  BY <1>5, <1>7, <1>8

(* The tables keep their types.                                            *)
LEMMA TablesTyped ==
  ASSUME Typed, NEW issue, NEW data, NEW resolved, NEW mispredict, NEW retire,
         NEW offered, NEW delay,
         Step(issue, data, resolved, mispredict, retire, offered, delay)
  PROVE  /\ address_table' \in [StoreIds -> Accesses \cup {{}}] /\ address_valid' \subseteq StoreIds
         /\ store_data' \in [StoreIds -> Values] /\ data_valid' \subseteq StoreIds
         /\ store_in_flight' \in BOOLEAN /\ data_queue' \subseteq DataMsg
<1> DEFINE ss == SendStore(retire)
           un == Unresolved(resolved, mispredict)
           stores == Stores(ss)
<1>1. /\ data \subseteq Kept
      /\ data_queue' = (Kept \ data) \cup
           {DataMessage(r, un) : r \in {x \in MemoryRenamed(offered) : x.kind = "store"}}
      /\ address_table' = [s \in StoreIds |->
           IF \E m \in stores : s \in m.sid THEN UNION {m.bytes : m \in stores} ELSE address_table[s]]
      /\ store_data' = [s \in StoreIds |->
           IF \E m \in data : s \in m.sid
           THEN CHOOSE v \in UNION {m.val : m \in data} : TRUE ELSE store_data[s]]
      /\ address_valid' = Entered(address_valid, UNION {r.sid : r \in offered},
                                  UNION {m.sid : m \in stores})
      /\ data_valid' = Entered(data_valid, UNION {r.sid : r \in offered},
                               UNION {m.sid : m \in data})
      /\ store_in_flight' = StoreInFlightNext(ss, Loads(ss))
  BY DEF Step, FlowStep
<1>2. /\ address_table \in [StoreIds -> Accesses \cup {{}}] /\ address_valid \subseteq StoreIds
      /\ store_data \in [StoreIds -> Values] /\ data_valid \subseteq StoreIds
      /\ store_in_flight \in BOOLEAN /\ data_queue \subseteq DataMsg
  BY DEF Typed, TypeOK
<1>3. Single(stores, Sent)
  <2>1. stores \subseteq InPeek
    BY DEF Stores, Loads, Taken
  <2> QED
    BY <2>1, InPeekIs DEF Single, Typed
<1>4. Kept \subseteq DataMsg
  <2>1. ASSUME NEW m \in DataMsg PROVE Cleared(m, kill) \in DataMsg
    BY DEF Cleared, DataMsg
  <2> QED
    BY <1>2, <2>1 DEF Kept, Peek
<1>5. data = {} \/ \E m \in DataMsg : data = {m}
  <2>1. data \in Optional(Kept)
    BY DEF Step, Datas, Kept
  <2> QED
    BY <1>4, <2>1 DEF Optional
<1> HIDE DEF ss, un, stores
<1>6. address_table' \in [StoreIds -> Accesses \cup {{}}]
  <2>1. ASSUME NEW s \in StoreIds, \E m \in stores : s \in m.sid
        PROVE  UNION {m.bytes : m \in stores} \in Accesses
    <3>1. PICK m \in Sent : stores = {m}
      BY <1>3, <2>1, OneOf
    <3>2. UNION {x.bytes : x \in stores} = m.bytes
      BY <3>1
    <3> QED
      BY <3>2, SentFields
  <2> QED
    BY <1>1, <1>2, <2>1
<1>7. store_data' \in [StoreIds -> Values]
  <2>1. ASSUME NEW s \in StoreIds, \E m \in data : s \in m.sid
        PROVE  (CHOOSE v \in UNION {m.val : m \in data} : TRUE) \in Values
    <3>1. PICK m \in DataMsg : data = {m}
      BY <1>5, <2>1
    <3>2. PICK v \in Values : m.val = {v}
      BY DEF DataMsg
    <3>3. UNION {x.val : x \in data} = {v}
      BY <3>1, <3>2
    <3> QED
      BY <3>3
  <2> QED
    BY <1>1, <1>2, <2>1
<1>8. UNION {m.sid : m \in stores} \subseteq StoreIds
  <2>1. \A m \in stores : m.sid \subseteq StoreIds
    BY <1>3, SentFields DEF Single, Optional
  <2> QED
    BY <2>1
<1>9. UNION {m.sid : m \in data} \subseteq StoreIds
  <2>1. \A m \in DataMsg : m.sid \subseteq StoreIds
    BY DEF DataMsg, Optional
  <2> QED
    BY <1>5, <2>1
<1>10. store_in_flight' \in BOOLEAN
  BY <1>1 DEF StoreInFlightNext
<1>11. ASSUME NEW r \in MemoryRenamed(offered), r.kind = "store" PROVE DataMessage(r, un) \in DataMsg
  <2>1. r \in Renamings
    BY TurnIs DEF Step, MemoryRenamed
  <2>2. /\ r.seq \in Seqs /\ r.sid \in Optional(StoreIds) /\ r.val \in Optional(Values) /\ r.val # {}
    BY <1>11, <2>1 DEF Renamings, Optional
  <2>3. r.val \in {{v} : v \in Values}
    BY <2>2 DEF Optional
  <2>4. un \in SUBSET SnapshotIds
    BY UnresolvedIs DEF Step, un
  <2> QED
    BY <2>2, <2>3, <2>4 DEF DataMessage, DataMsg
<1>12. data_queue' \subseteq DataMsg
  BY <1>1, <1>4, <1>11
<1> QED
  BY <1>1, <1>2, <1>6, <1>7, <1>8, <1>9, <1>10, <1>12 DEF Entered

(* The parts of the invariant that say nothing of owners.                  *)
LEMMA TypeKept ==
  ASSUME Flight, AnswersHaveOwners, NEW issue, NEW data, NEW resolved, NEW mispredict, NEW retire,
         NEW offered, NEW delay,
         Step(issue, data, resolved, mispredict, retire, offered, delay)
  PROVE  Typed' /\ RowsOK' /\ AnswersHaveOwners'
<1> DEFINE ss == SendStore(retire)
<1>0. /\ Typed /\ RowsOK /\ TypeOK /\ WindowOK /\ window \in Seq(Entry) /\ QueueOrder
      /\ Turn(resolved, mispredict, retire, offered) /\ delay \in Delays /\ retire \in BOOLEAN
      /\ FlowStep(issue, data, ss, offered, Unresolved(resolved, mispredict), delay)
      /\ PipeStep(ss) /\ CommitOK(retire)
  BY DEF Flight, Typed, Step, FlowStep, Turn, WindowStep, CommitOK
<1>1. window' \in Seq(Entry) /\ \A i \in DOMAIN window' : window'[i] \in Entry
  BY <1>0, EntriesTyped
<1>2. WindowOK'
  BY <1>0, WindowKept
<1>3. kill' \in [force : BOOLEAN, kill_mask : SUBSET SnapshotIds, clear_mask : SUBSET SnapshotIds]
  BY <1>0, KillIs
<1>4. queue' \in Seq(Sent)
  BY <1>0, QueueAfter
<1>5. \A k \in DOMAIN queue' : queue'[k] \in Sent
  BY <1>4
<1>6. Single(dispatched', Sent)
  <2>1. CASE issue = {}
    <3>1. dispatched' = InPeek \/ dispatched' = {}
      BY <1>0, <2>1, DispatchedAfter
    <3> QED
      BY <1>0, <3>1, InPeekIs DEF Single
  <2>2. CASE issue # {}
    <3>1. PICK k \in DOMAIN queue : dispatched' = {Cleared(queue[k], kill)}
      BY <1>0, <2>2, DispatchedAfter
    <3>2. queue[k] \in Sent
      BY <1>0 DEF TypeOK
    <3>3. Cleared(queue[k], kill) \in Sent
      BY <3>2, PeekField
    <3> QED
      BY <3>1, <3>3, OneIs
  <2> QED
    BY <2>1, <2>2
<1>7. /\ Single(internal'[1], Sent) /\ Single(internal'[2], Answered)
      /\ Single(vvms'[1], Track) /\ Single(vvms'[2], Track)
  BY <1>0, PipeTyped
<1>8. Single(bus', Request)
  <2>1. bus' = IF ss # {} THEN {[type |-> "write", delay |-> delay]}
               ELSE IF Loads(ss) # {} THEN {Read(m, delay) : m \in Loads(ss)}
               ELSE IF SendRdy THEN {} ELSE {Waited(r) : r \in bus}
    BY <1>0 DEF FlowStep
  <2> HIDE DEF ss
  <2> QED
    BY <1>0, <2>1, BusTyped
<1>9. /\ address_table' \in [StoreIds -> Accesses \cup {{}}] /\ address_valid' \subseteq StoreIds
      /\ store_data' \in [StoreIds -> Values] /\ data_valid' \subseteq StoreIds
      /\ store_in_flight' \in BOOLEAN /\ data_queue' \subseteq DataMsg
  BY <1>0, TablesTyped
<1>10. memory' \in [Bytes -> Values]
  <2>1. memory' = Written(ss)
    BY <1>0 DEF FlowStep
  <2> QED
    BY <1>0, <2>1, MemoryTyped
<1>11. RowsOK'
  BY <1>0, RowsKept
<1>12. AnswersHaveOwners'
  <2>1. ss # {} => SendRdy
    BY <1>0, SendStoreIs
  <2> HIDE DEF ss
  <2> QED
    BY <1>0, <2>1, AnswersAfter
<1>13. TypeOK'
  BY <1>1, <1>3, <1>5, <1>6, <1>7, <1>8, <1>9, <1>10 DEF TypeOK
<1> QED
  BY <1>1, <1>2, <1>4, <1>11, <1>12, <1>13 DEF Typed

------------------------------------------------------------------------------
(****************************************************************************)
(* Addresses.  Away from the end of the address space the checker sees     *)
(* every byte that two accesses share.                                     *)
(****************************************************************************)

(* No access reaches the last byte of the address space.                   *)
AwayFromTheEnd ==
  \A a \in Accesses : \E base \in Base, size \in Size \ {0} :
    a = BytesAt(base, size) /\ base + size < AddressSpace

(* An end that does not wrap.                                              *)
LEMMA EndInside ==
  ASSUME NEW base \in Base, NEW size \in Size, base + size < AddressSpace
  PROVE  End(base, size) = base + size
<1>1. /\ base \in Int /\ base >= 0 /\ size \in Int /\ size >= 0 /\ AddressSpace \in Nat
  BY OverlapAssumption DEF Base, Size
<1>2. base + size \in 0 .. AddressSpace - 1
  BY <1>1
<1>3. \A x \in 0 .. AddressSpace - 1 : x % AddressSpace = x
  BY <1>1
<1> QED
  BY <1>2, <1>3 DEF End

(* An access is its first byte and its size.                               *)
LEMMA IntervalIs ==
  ASSUME NEW base \in Nat, NEW size \in Nat \ {0}
  PROVE  First(BytesAt(base, size)) = base /\ Cardinality(BytesAt(base, size)) = size
<1>1. base + size - 1 \in Int /\ base <= base + size - 1
  OBVIOUS
<1>2. Cardinality(base .. base + size - 1) = base + size - 1 - base + 1
  BY <1>1, FS_Interval
<1>3. \A b \in base .. base + size - 1 :
        (\A c \in base .. base + size - 1 : b <= c) <=> b = base
  BY <1>1
<1>4. base \in base .. base + size - 1
  BY <1>1
<1> QED
  BY <1>2, <1>3, <1>4 DEF First, BytesAt

(* The checker sees every byte that two accesses share.                    *)
LEMMA OverlapSees ==
  ASSUME AwayFromTheEnd, NEW a \in Accesses, NEW b \in Accesses, ~Overlap(a, b)
  PROVE  a \cap b = {}
<1>1. PICK base_a \in Base, size_a \in Size \ {0} :
        a = BytesAt(base_a, size_a) /\ base_a + size_a < AddressSpace
  BY DEF AwayFromTheEnd
<1>2. PICK base_b \in Base, size_b \in Size \ {0} :
        b = BytesAt(base_b, size_b) /\ base_b + size_b < AddressSpace
  BY DEF AwayFromTheEnd
<1>3. /\ base_a \in Nat /\ size_a \in Nat \ {0} /\ base_b \in Nat /\ size_b \in Nat \ {0}
      /\ size_a \in Size /\ size_b \in Size
  BY OverlapAssumption DEF Base, Size
<1>4. /\ First(a) = base_a /\ Cardinality(a) = size_a
      /\ First(b) = base_b /\ Cardinality(b) = size_b
  BY <1>1, <1>2, <1>3, IntervalIs
<1>5. End(base_a, size_a) = base_a + size_a /\ End(base_b, size_b) = base_b + size_b
  BY <1>1, <1>2, <1>3, EndInside
<1>6. Disjoint(base_a, size_a, base_b, size_b)
  BY <1>4 DEF Overlap
<1>7. /\ ~(base_a >= base_b /\ base_a < base_b + size_b)
      /\ ~(base_b >= base_a /\ base_b < base_a + size_a)
  BY <1>5, <1>6 DEF Disjoint
<1> QED
  BY <1>1, <1>2, <1>3, <1>7 DEF BytesAt

------------------------------------------------------------------------------
(****************************************************************************)
(* The tables.  An entry is valid only for the store that has the          *)
(* identifier, which had none of it when it was renamed.                   *)
(****************************************************************************)

(* What is known of the tables.                                            *)
Tables == DataOwned /\ TablesHoldOwn /\ StoresEntered

(* An identifier has one owner.                                            *)
LEMMA SidIs ==
  ASSUME Typed, NEW i \in DOMAIN window, NEW j \in DOMAIN window,
         NEW s \in window[i].sid, s \in window[j].sid
  PROVE  i = j
BY DEF Typed, WindowOK

(* A number has one owner.                                                 *)
LEMMA SeqIs ==
  ASSUME Typed, NEW i \in DOMAIN window, NEW j \in DOMAIN window, window[i].seq = window[j].seq
  PROVE  i = j
BY DEF Typed, WindowOK

(* The store whose address enters the table.                               *)
LEMMA StoresAre ==
  ASSUME Flight, NEW send_store, Stores(send_store) # {}
  PROVE  \E m \in InPeek : \E k \in DOMAIN window :
           /\ Stores(send_store) = {m} /\ m.kind = "store" /\ Old(m)
           /\ Held(m, k) /\ window[k].bytes = m.bytes
<1>1. Single(InPeek, Sent)
  BY InPeekIs DEF Flight, Typed
<1>2. PICK m \in Stores(send_store) : TRUE
  OBVIOUS
<1>3. m \in InPeek /\ m.kind # "load" /\ Stores(send_store) \subseteq InPeek
  BY <1>2 DEF Stores, Loads, Taken
<1>4. Stores(send_store) = {m}
  BY <1>1, <1>2, <1>3 DEF Single
<1>5. m.kind = "store"
  BY <1>1, <1>3, SentFields DEF Single
<1>6. Old(m)
  BY <1>3 DEF InPeek, Peek, Old
<1>7. \E k \in DOMAIN window : Held(m, k) /\ window[k].bytes = m.bytes
  BY <1>6, OldHeld
<1> QED
  BY <1>3, <1>4, <1>5, <1>6, <1>7

(* The data that enter, and whose they are.                                *)
LEMMA DataAre ==
  ASSUME Typed, DataOwned, NEW data \in Datas, data # {}
  PROVE  \E n \in data_queue, k \in DOMAIN window :
           /\ Keep(n, kill) /\ OwnsData(n, k) /\ data = {Cleared(n, kill)}
           /\ Cleared(n, kill).seq = n.seq /\ Cleared(n, kill).sid = n.sid
           /\ Cleared(n, kill).val = n.val
<1>1. PICK m \in Kept : data = {m}
  BY DEF Datas, Optional, Kept
<1>2. PICK n \in data_queue : Keep(n, kill) /\ m = Cleared(n, kill)
  BY <1>1 DEF Kept, Peek
<1>3. PICK k \in DOMAIN window : OwnsData(n, k)
  BY <1>2 DEF DataOwned
<1>4. n \in DataMsg
  BY DEF Typed, TypeOK
<1>5. m.seq = n.seq /\ m.sid = n.sid /\ m.val = n.val
  BY <1>2, <1>4 DEF Cleared, DataMsg
<1> QED
  BY <1>1, <1>2, <1>3, <1>5

(* The tables after a cycle.                                               *)
LEMMA ValidIs ==
  ASSUME NEW issue, NEW data, NEW resolved, NEW mispredict, NEW retire, NEW offered, NEW delay,
         Step(issue, data, resolved, mispredict, retire, offered, delay)
  PROVE  /\ \A s : s \in address_valid' <=>
              \/ \E m \in Stores(SendStore(retire)) : s \in m.sid
              \/ s \in address_valid /\ \A r \in offered : s \notin r.sid
         /\ \A s : s \in data_valid' <=>
              \/ \E m \in data : s \in m.sid
              \/ s \in data_valid /\ \A r \in offered : s \notin r.sid
         /\ \A s \in StoreIds :
              address_table'[s] = IF \E m \in Stores(SendStore(retire)) : s \in m.sid
                                  THEN UNION {m.bytes : m \in Stores(SendStore(retire))}
                                  ELSE address_table[s]
         /\ \A s \in StoreIds :
              store_data'[s] = IF \E m \in data : s \in m.sid
                               THEN CHOOSE v \in UNION {m.val : m \in data} : TRUE
                               ELSE store_data[s]
<1> DEFINE stores == Stores(SendStore(retire))
<1>1. /\ address_table' = [s \in StoreIds |->
           IF \E m \in stores : s \in m.sid THEN UNION {m.bytes : m \in stores} ELSE address_table[s]]
      /\ store_data' = [s \in StoreIds |->
           IF \E m \in data : s \in m.sid
           THEN CHOOSE v \in UNION {m.val : m \in data} : TRUE ELSE store_data[s]]
      /\ address_valid' = Entered(address_valid, UNION {r.sid : r \in offered},
                                  UNION {m.sid : m \in stores})
      /\ data_valid' = Entered(data_valid, UNION {r.sid : r \in offered},
                               UNION {m.sid : m \in data})
  BY DEF Step, FlowStep
<1> HIDE DEF stores
<1>2. \A s : s \in address_valid' <=>
        (\E m \in stores : s \in m.sid) \/ (s \in address_valid /\ \A r \in offered : s \notin r.sid)
  BY <1>1 DEF Entered
<1>3. \A s : s \in data_valid' <=>
        (\E m \in data : s \in m.sid) \/ (s \in data_valid /\ \A r \in offered : s \notin r.sid)
  BY <1>1 DEF Entered
<1> QED
  BY <1>1, <1>2, <1>3 DEF stores

(* What the tables hold for a store that was in the window.                *)
LEMMA HoldsOn ==
  ASSUME Flight, Tables, NEW issue, NEW data, NEW resolved, NEW mispredict, NEW retire,
         NEW offered, NEW delay,
         Step(issue, data, resolved, mispredict, retire, offered, delay),
         NEW k \in DOMAIN window, NEW s \in window[k].sid
  PROVE  /\ s \in address_valid => s \in address_valid'
         /\ s \in address_valid' => address_table'[s] = window[k].bytes
         /\ s \in data_valid' => {store_data'[s]} = window[k].val
         /\ s \in StoreIds /\ s \in Live /\ \A r \in offered : s \notin r.sid
<1> DEFINE stores == Stores(SendStore(retire))
<1>0. Typed /\ RowsOK /\ DataOwned /\ TablesHoldOwn /\ data \in Datas
      /\ Turn(resolved, mispredict, retire, offered)
  BY DEF Flight, Tables, Step
<1>1. s \in StoreIds /\ s \in Live
  BY <1>0 DEF Typed, TypeOK, Entry, Optional, Live
<1>2. \A r \in offered : s \notin r.sid
  <2>1. \A r \in Renamings : r.sid \cap Live = {}
    BY DEF Renamings, Optional
  <2> QED
    BY <1>0, <1>1, <2>1, TurnIs
<1>3. s \in address_valid => s \in address_valid'
  BY <1>2, ValidIs
<1>6. address_table'[s] = IF \E m \in stores : s \in m.sid
                          THEN UNION {m.bytes : m \in stores} ELSE address_table[s]
  <2>1. address_table' = [t \in StoreIds |->
          IF \E m \in stores : t \in m.sid
          THEN UNION {m.bytes : m \in stores} ELSE address_table[t]]
    BY DEF Step, FlowStep
  <2> HIDE DEF stores
  <2> QED
    BY <1>1, <2>1
<1>7. s \in address_valid' => (\E m \in stores : s \in m.sid) \/ s \in address_valid
  BY ValidIs
<1>8. stores # {} => \E m \in InPeek : \E k_1 \in DOMAIN window :
                       stores = {m} /\ Held(m, k_1) /\ window[k_1].bytes = m.bytes
  BY StoresAre
<1> HIDE DEF stores
<1>4. ASSUME s \in address_valid' PROVE address_table'[s] = window[k].bytes
  <2>1. CASE \E m \in stores : s \in m.sid
    <3>1. stores # {}
      BY <2>1
    <3>2. PICK m \in InPeek, l \in DOMAIN window :
            stores = {m} /\ Held(m, l) /\ window[l].bytes = m.bytes
      BY <1>8, <3>1
    <3>3. s \in m.sid /\ l = k
      BY <1>0, <2>1, <3>2, SidIs DEF Held
    <3>4. UNION {x.bytes : x \in stores} = m.bytes
      BY <3>2
    <3>5. address_table'[s] = UNION {x.bytes : x \in stores}
      BY <1>6, <2>1
    <3> QED
      BY <3>2, <3>3, <3>4, <3>5
  <2>2. CASE ~\E m \in stores : s \in m.sid
    <3>1. s \in address_valid
      BY <1>4, <1>7, <2>2
    <3>2. address_table'[s] = address_table[s]
      BY <1>6, <2>2
    <3> QED
      BY <1>0, <3>1, <3>2 DEF TablesHoldOwn
  <2> QED
    BY <2>1, <2>2
<1>5. ASSUME s \in data_valid' PROVE {store_data'[s]} = window[k].val
  <2>1. CASE \E m \in data : s \in m.sid
    <3>1. data # {}
      BY <2>1
    <3> DEFINE m(n) == Cleared(n, kill)
    <3>2. PICK n \in data_queue, l \in DOMAIN window :
            OwnsData(n, l) /\ data = {m(n)} /\ m(n).sid = n.sid /\ m(n).val = n.val
      BY <1>0, <3>1, DataAre
    <3> HIDE DEF m
    <3>3. s \in m(n).sid /\ l = k
      BY <1>0, <2>1, <3>2, SidIs DEF OwnsData
    <3>4. n \in DataMsg
      BY <1>0 DEF Typed, TypeOK
    <3>5. PICK v \in Values : m(n).val = {v}
      BY <3>2, <3>4 DEF DataMsg
    <3>6. UNION {x.val : x \in data} = {v}
      BY <3>2, <3>5
    <3>7. store_data'[s] = CHOOSE w \in UNION {x.val : x \in data} : TRUE
      BY <1>1, <2>1, ValidIs
    <3>8. store_data'[s] = v
      BY <3>6, <3>7
    <3> QED
      BY <3>2, <3>3, <3>5, <3>8 DEF OwnsData
  <2>2. CASE ~\E m \in data : s \in m.sid
    <3>1. s \in data_valid /\ store_data'[s] = store_data[s]
      BY <1>1, <1>5, <2>2, ValidIs
    <3> QED
      BY <1>0, <3>1 DEF TablesHoldOwn
  <2> QED
    BY <2>1, <2>2
<1> QED
  BY <1>1, <1>2, <1>3, <1>4, <1>5

(* What is renamed has nothing in the tables.                              *)
LEMMA StartsEmpty ==
  ASSUME Flight, DataOwned, NEW issue, NEW data, NEW resolved, NEW mispredict, NEW retire,
         NEW offered, NEW delay,
         Step(issue, data, resolved, mispredict, retire, offered, delay),
         NEW r \in Renamings, offered = {r}, NEW s \in r.sid
  PROVE  s \notin address_valid' /\ s \notin data_valid'
<1>1. s \notin Live
  BY DEF Renamings, Optional
<1>2. ASSUME NEW m \in Stores(SendStore(retire)) PROVE s \notin m.sid
  <2>1. PICK x \in InPeek, k \in DOMAIN window : Stores(SendStore(retire)) = {x} /\ Held(x, k)
    BY StoresAre
  <2> QED
    BY <1>1, <2>1 DEF Held, Live
<1>3. ASSUME NEW m \in data PROVE s \notin m.sid
  <2>1. PICK n \in data_queue, k \in DOMAIN window :
          OwnsData(n, k) /\ data = {Cleared(n, kill)} /\ Cleared(n, kill).sid = n.sid
    BY DataAre DEF Flight, Step
  <2> QED
    BY <1>1, <2>1 DEF OwnsData, Live
<1> QED
  BY <1>2, <1>3, ValidIs

(* What arrives is a store whose address has entered.                      *)
LEMMA ResultEntered ==
  ASSUME Flight, Tables, NEW k \in DOMAIN window, Arrived(k) # {}, window[k].kind = "store"
  PROVE  window[k].sid \subseteq address_valid
<1>1. PICK p \in Results : Held(p, k)
  BY ArrivedIs
<1>2. PICK m \in LivingSecond : Keep(m, kill) /\ p = Cleared(m, kill) /\ p.kind = m.kind
  BY ResultHeld DEF Flight, Typed
<1>3. m \in Answered
  BY LivingTyped DEF Flight, Typed
<1>4. p.sid = m.sid
  BY <1>2, <1>3, AnsweredFields
<1>5. m.kind = "store" /\ m.sid = window[k].sid
  BY <1>1, <1>2, <1>4 DEF Held
<1> QED
  BY <1>2, <1>5 DEF Tables, StoresEntered

(* The tables hold their own entries after the cycle.                      *)
LEMMA TablesAfter ==
  ASSUME Flight, Tables, NEW issue, NEW data, NEW resolved, NEW mispredict, NEW retire,
         NEW offered, NEW delay,
         Step(issue, data, resolved, mispredict, retire, offered, delay)
  PROVE  TablesHoldOwn'
<1>0. Typed /\ Turn(resolved, mispredict, retire, offered) /\ TablesHoldOwn /\ DataOwned
  BY DEF Flight, Step, Tables
<1>1. CASE Exception(retire)
  <2>1. window' = <<>>
    BY <1>0, <1>1 DEF Turn, WindowStep
  <2> QED
    BY <2>1 DEF TablesHoldOwn
<1>2. CASE ~Exception(retire)
  <2>1. ASSUME NEW i \in DOMAIN window', NEW s \in window'[i].sid
        PROVE  /\ s \in address_valid' => address_table'[s] = window'[i].bytes
               /\ s \in data_valid' => {store_data'[s]} = window'[i].val
               /\ window'[i].done => s \in address_valid'
    <3>1. CASE i + Skipped(retire) <= Cut(resolved, mispredict)
      <4> DEFINE k == i + Skipped(retire)
      <4>1. k \in DOMAIN window /\ Carried(i, k, resolved)
        BY <1>0, <1>2, <3>1, EntryCarried DEF Carried
      <4> HIDE DEF k
      <4>2. s \in window[k].sid
        BY <2>1, <4>1 DEF Carried
      <4>3. /\ s \in address_valid => s \in address_valid'
            /\ s \in address_valid' => address_table'[s] = window[k].bytes
            /\ s \in data_valid' => {store_data'[s]} = window[k].val
        BY <4>1, <4>2, HoldsOn
      <4>4. window'[i].done => s \in address_valid
        <5>1. window[k].kind = "store"
          BY <1>0, <4>1, <4>2 DEF Typed, WindowOK
        <5>2. window[k].done => s \in address_valid
          BY <1>0, <4>1, <4>2 DEF TablesHoldOwn
        <5>3. Arrived(k) # {} => s \in address_valid
          BY <4>1, <4>2, <5>1, ResultEntered
        <5> QED
          BY <4>1, <5>2, <5>3 DEF Carried
      <4> QED
        BY <4>1, <4>3, <4>4 DEF Carried
    <3>2. CASE ~(i + Skipped(retire) <= Cut(resolved, mispredict))
      <4>1. PICK r \in Renamings : offered = {r} /\ Joins(i, r)
        BY <1>0, <1>2, <3>2, EntryJoins
      <4>2. s \in r.sid /\ ~window'[i].done
        BY <2>1, <4>1 DEF Joins
      <4>3. s \notin address_valid' /\ s \notin data_valid'
        BY <1>0, <4>1, <4>2, StartsEmpty
      <4> QED
        BY <4>2, <4>3
    <3> QED
      BY <3>1, <3>2
  <2> QED
    BY <2>1 DEF TablesHoldOwn
<1> QED
  BY <1>1, <1>2

(* A store enters the pipe and the table together.                         *)
LEMMA EnteredAfter ==
  ASSUME Flight, Tables, NEW issue, NEW data, NEW resolved, NEW mispredict, NEW retire,
         NEW offered, NEW delay,
         Step(issue, data, resolved, mispredict, retire, offered, delay)
  PROVE  StoresEntered'
<1> DEFINE ss == SendStore(retire)
<1>0. Typed /\ TypeOK /\ RowsOK /\ PipeStep(ss) /\ StoresEntered
  BY DEF Flight, Typed, Step, FlowStep, Tables
<1>1. /\ \A p : p \in LivingFirst' <=>
           IF Sends(ss) THEN p \in InPeek ELSE ~Moves /\ p \in Peek(LivingFirst, kill)
      /\ \A p : p \in LivingSecond' <=>
           Moves /\ \E q \in Peek(LivingFirst, kill) : p = Received(q)
  BY <1>0, LivingAfter
<1>2. ASSUME NEW p \in Peek(LivingFirst, kill), p.kind = "store"
      PROVE  p.sid \subseteq address_valid' /\ p \in Sent
  <2>1. PICK m \in LivingFirst : Keep(m, kill) /\ p = Cleared(m, kill)
    BY DEF Peek
  <2>2. Old(p)
    BY <2>1 DEF Old
  <2>3. PICK k \in DOMAIN window : Held(p, k)
    BY <2>2, OldHeld
  <2>4. p.sid = m.sid /\ p.kind = m.kind /\ m.sid = window[k].sid /\ p \in Sent
    BY <1>0, <2>1, <2>3, ShownHeld DEF Held, Flight
  <2>5. m.sid \subseteq address_valid
    BY <1>0, <1>2, <2>1, <2>4 DEF StoresEntered
  <2>6. \A s \in window[k].sid : s \in address_valid => s \in address_valid'
    BY HoldsOn
  <2> QED
    BY <2>4, <2>5, <2>6
<1>3. ASSUME NEW p \in LivingFirst', p.kind = "store" PROVE p.sid \subseteq address_valid'
  <2>1. CASE Sends(ss)
    <3>1. p \in Stores(ss)
      BY <1>1, <1>3, <2>1 DEF Stores, Loads, Taken
    <3> QED
      BY <3>1, ValidIs
  <2>2. CASE ~Sends(ss)
    BY <1>1, <1>2, <1>3, <2>2
  <2> QED
    BY <2>1, <2>2
<1>4. ASSUME NEW p \in LivingSecond', p.kind = "store" PROVE p.sid \subseteq address_valid'
  <2>1. PICK q \in Peek(LivingFirst, kill) : p = Received(q)
    BY <1>1
  <2>2. Old(q)
    BY DEF Peek, Old
  <2>3. p.kind = q.kind /\ p.sid = q.sid
    BY <2>1, <2>2, OldHeld, ReceivedFields
  <2> QED
    BY <1>2, <1>4, <2>3
<1> QED
  BY <1>3, <1>4 DEF StoresEntered

(* The data of a store that the next broadcast spares still has its store. *)
LEMMA DataHeldAfter ==
  ASSUME Flight, Tables, NEW issue, NEW data, NEW resolved, NEW mispredict, NEW retire,
         NEW offered, NEW delay,
         Step(issue, data, resolved, mispredict, retire, offered, delay),
         NEW n \in data_queue, Keep(n, kill), NEW p, p = Cleared(n, kill), p \notin data,
         Keep(p, kill')
  PROVE  \E i \in DOMAIN window' : OwnsData(p, i)'
<1>0. /\ Typed /\ Turn(resolved, mispredict, retire, offered) /\ DataOwned /\ data \in Datas
      /\ TypeOK
  BY DEF Flight, Step, Tables, Typed
<1>1. PICK k \in DOMAIN window : OwnsData(n, k)
  BY <1>0 DEF DataOwned
<1>2. n \in DataMsg
  BY <1>0 DEF TypeOK
<1>3. /\ p.seq = n.seq /\ p.sid = n.sid /\ p.val = n.val /\ p.mask = n.mask \ kill.clear_mask
  BY <1>2 DEF Cleared, DataMsg
<1>4. p.mask = Older(k)
  BY <1>1, <1>3 DEF OwnsData
<1>5. ~Exception(retire) /\ k <= Cut(resolved, mispredict)
  BY <1>0, <1>4, KeepAfter
<1>6. k \in 1 .. Cut(resolved, mispredict)
  BY <1>0, <1>5, TurnIs
<1>7. k > Skipped(retire)
  <2>1. ASSUME retire PROVE k # 1
    <3>1. RobRemovable(window[1])
      BY <1>0, <2>1, TurnIs
    <3>2. window[k].sid # {} /\ window[k].sid \cap data_valid = {} /\ window[k].kind = "store"
      BY <1>0, <1>1 DEF OwnsData, Typed, WindowOK
    <3>3. k = 1 => window[k].sid \subseteq data_valid
      BY <3>1, <3>2 DEF RobRemovable
    <3> QED
      BY <3>2, <3>3
  <2> QED
    BY <1>0, <1>6, <2>1, TurnIs
<1>8. PICK i \in DOMAIN window' : i = k - Skipped(retire) /\ Carried(i, k, resolved)
  BY <1>0, <1>5, <1>6, <1>7, StaysIn
<1>9. i + Skipped(retire) = k
  BY <1>0, <1>6, <1>8, TurnIs
<1>10. Older(k) \ kill'.clear_mask = Older(i)'
  <2>1. Older(i + Skipped(retire)) \ kill'.clear_mask = Older(i)'
    BY <1>0, <1>5, MaskAfter
  <2> QED
    BY <1>9, <2>1
<1>11. window[k].sid \cap data_valid' = {}
  <2> SUFFICES ASSUME NEW s \in window[k].sid PROVE s \notin data_valid'
    OBVIOUS
  <2>1. s \notin data_valid
    BY <1>1 DEF OwnsData
  <2>2. ASSUME NEW m \in data PROVE s \notin m.sid
    <3>1. PICK x \in data_queue, l \in DOMAIN window :
            /\ OwnsData(x, l) /\ data = {Cleared(x, kill)} /\ Cleared(x, kill).sid = x.sid
      BY <1>0, <2>2, DataAre
    <3>2. l # k
      <4>1. ASSUME l = k PROVE FALSE
        <5>1. x.seq = n.seq
          BY <1>1, <3>1, <4>1 DEF OwnsData
        <5>2. x = n
          BY <1>0, <5>1 DEF DataOwned
        <5> QED
          BY <3>1, <5>2
      <4> QED
        BY <4>1
    <3>3. s \notin window[l].sid
      BY <1>0, <3>2, SidIs
    <3>4. m.sid = window[l].sid
      BY <2>2, <3>1 DEF OwnsData
    <3> QED
      BY <3>3, <3>4
  <2> QED
    BY <2>1, <2>2, ValidIs
<1>12. OwnsData(p, i)'
  BY <1>1, <1>3, <1>4, <1>8, <1>10, <1>11 DEF OwnsData, Carried
<1> QED
  BY <1>12

(* The store data pipe after the cycle.                                    *)
LEMMA DataAfter ==
  ASSUME Flight, Tables, NEW issue, NEW data, NEW resolved, NEW mispredict, NEW retire,
         NEW offered, NEW delay,
         Step(issue, data, resolved, mispredict, retire, offered, delay)
  PROVE  DataOwned'
<1> DEFINE un == Unresolved(resolved, mispredict)
<1>0. /\ Typed /\ Turn(resolved, mispredict, retire, offered) /\ DataOwned /\ TypeOK
  BY DEF Flight, Step, Tables, Typed
<1>1. data_queue' = (Kept \ data) \cup
        {DataMessage(r, un) : r \in {x \in MemoryRenamed(offered) : x.kind = "store"}}
  BY DEF Step, FlowStep
<1> HIDE DEF un
<1>2. ASSUME NEW p \in data_queue'
      PROVE  \/ \E n \in data_queue : Keep(n, kill) /\ p = Cleared(n, kill) /\ p \notin data
             \/ \E r \in Renamings : offered = {r} /\ r.kind = "store" /\ p = DataMessage(r, un)
  <2>1. CASE p \in Kept \ data
    BY <2>1 DEF Kept, Peek
  <2>2. CASE p \in {DataMessage(r, un) : r \in {x \in MemoryRenamed(offered) : x.kind = "store"}}
    <3>1. PICK r \in offered : r.kind = "store" /\ p = DataMessage(r, un)
      BY <2>2 DEF MemoryRenamed
    <3>2. r \in Renamings /\ offered = {r}
      BY <1>0, <3>1, TurnIs
    <3> QED
      BY <3>1, <3>2
  <2> QED
    BY <1>1, <2>1, <2>2
<1>3. ASSUME NEW p \in data_queue', Keep(p, kill') PROVE \E i \in DOMAIN window' : OwnsData(p, i)'
  <2>1. CASE \E n \in data_queue : Keep(n, kill) /\ p = Cleared(n, kill) /\ p \notin data
    BY <1>3, <2>1, DataHeldAfter
  <2>2. ASSUME NEW r \in Renamings, offered = {r}, r.kind = "store", p = DataMessage(r, un)
        PROVE  \E i \in DOMAIN window' : OwnsData(p, i)'
    <3>1. PICK i \in DOMAIN window' : Joins(i, r) /\ un \ kill'.clear_mask = Older(i)'
      BY <1>0, <2>2, NewMask DEF un
    <3>2. p.seq = r.seq /\ p.sid = r.sid /\ p.val = r.val /\ p.mask = un
      BY <2>2 DEF DataMessage
    <3>3. \A s \in r.sid : s \notin data_valid'
      BY <1>0, <2>2, StartsEmpty
    <3>4. OwnsData(p, i)'
      BY <2>2, <3>1, <3>2, <3>3 DEF OwnsData, Joins
    <3> QED
      BY <3>4
  <2> QED
    BY <1>2, <2>1, <2>2
<1>4. ASSUME NEW n \in data_queue, Keep(n, kill)
      PROVE  Cleared(n, kill).seq = n.seq /\ n.seq \in UsedSeqs
  <2>1. n \in DataMsg /\ \E k \in DOMAIN window : OwnsData(n, k)
    BY <1>0, <1>4 DEF TypeOK, DataOwned
  <2>2. Cleared(n, kill).seq = n.seq
    BY <2>1 DEF Cleared, DataMsg
  <2> QED
    BY <2>1, <2>2 DEF OwnsData, UsedSeqs
<1>5. ASSUME NEW p \in data_queue', NEW q \in data_queue', p.seq = q.seq PROVE p = q
  <2>1. ASSUME NEW n \in data_queue, Keep(n, kill), p = Cleared(n, kill),
               NEW m \in data_queue, Keep(m, kill), q = Cleared(m, kill)
        PROVE  p = q
    <3>1. m.seq = n.seq
      BY <1>4, <1>5, <2>1
    <3> QED
      BY <1>0, <2>1, <3>1 DEF DataOwned
  <2>2. \A r \in Renamings : DataMessage(r, un).seq = r.seq /\ r.seq \notin UsedSeqs
    BY DEF DataMessage, Renamings
  <2> QED
    BY <1>2, <1>4, <1>5, <2>1, <2>2
<1> QED
  BY <1>3, <1>5 DEF DataOwned

(* A store whose address has not entered is still on its way.              *)
LEMMA WaitAfter ==
  ASSUME Flight, Tables, StoresWait, NEW issue, NEW data, NEW resolved, NEW mispredict,
         NEW retire, NEW offered, NEW delay,
         Step(issue, data, resolved, mispredict, retire, offered, delay)
  PROVE  StoresWait'
<1> DEFINE ss == SendStore(retire)
           un == Unresolved(resolved, mispredict)
<1>0. /\ Typed /\ Turn(resolved, mispredict, retire, offered) /\ TypeOK /\ RowsOK /\ MessagesOwned
      /\ QueueOrder
  BY DEF Flight, Step, Typed
<1>1. CASE Exception(retire)
  <2>1. window' = <<>>
    BY <1>0, <1>1 DEF Turn, WindowStep
  <2> QED
    BY <2>1 DEF StoresWait
<1>2. CASE ~Exception(retire)
  <2>1. ASSUME NEW i \in DOMAIN window', window'[i].kind = "store"
        PROVE  \/ window'[i].sid \subseteq address_valid'
               \/ \E m \in QueueMsgs' \cup dispatched' : m.seq = window'[i].seq /\ Keep(m, kill')
    <3>1. CASE i + Skipped(retire) <= Cut(resolved, mispredict)
      <4> DEFINE k == i + Skipped(retire)
      <4>1. k \in DOMAIN window /\ Carried(i, k, resolved) /\ k <= Cut(resolved, mispredict)
        BY <1>0, <1>2, <3>1, EntryCarried DEF Carried
      <4> HIDE DEF k
      <4>2. CASE window[k].sid \subseteq address_valid
        <5>1. window[k].sid \subseteq address_valid'
          BY <4>1, <4>2, HoldsOn
        <5> QED
          BY <4>1, <5>1 DEF Carried
      <4>3. ASSUME NEW m \in QueueMsgs \cup dispatched, m.seq = window[k].seq, Keep(m, kill)
            PROVE  \/ window'[i].sid \subseteq address_valid'
                   \/ \E x \in QueueMsgs' \cup dispatched' : x.seq = window'[i].seq /\ Keep(x, kill')
        <5> DEFINE p == Cleared(m, kill)
        <5>1. /\ p.seq = m.seq /\ p.kind = m.kind /\ p.sid = m.sid
              /\ \E l \in DOMAIN window : Held(p, l)
          BY <1>0, <4>3, ShownHeld
        <5> HIDE DEF p
        <5>2. Held(p, k)
          BY <1>0, <4>1, <4>3, <5>1, SeqIs DEF Held
        <5>3. Keep(p, kill')
          <6>1. p.mask = Older(k)
            BY <5>2 DEF Held
          <6> QED
            BY <1>0, <1>2, <4>1, <6>1, KeepAfter
        <5>4. p.seq = window'[i].seq /\ p.sid = window'[i].sid /\ p.kind = "store"
          BY <2>1, <4>1, <5>2 DEF Held, Carried
        <5>5. CASE \E a \in DOMAIN queue : m = queue[a]
          <6>1. PICK a \in DOMAIN queue : m = queue[a]
            BY <5>5
          <6>2. CASE a \notin issue
            <7>1. PICK n \in 1 .. Len(Rest(issue)) : Place(issue, n) = a
              BY <1>0, <4>3, <6>1, <6>2, QueueAfter
            <7>2. /\ DOMAIN queue' = 1 .. Len(queue') /\ Len(queue') \in Nat /\ Len(Rest(issue)) \in Nat
                  /\ Len(queue') = Len(Rest(issue)) + (IF MemoryRenamed(offered) = {} THEN 0 ELSE 1)
                  /\ queue'[n] = Cleared(queue[Place(issue, n)], kill)
              BY <1>0, QueueAfter
            <7>3. n \in DOMAIN queue' /\ queue'[n] = p
              BY <6>1, <7>1, <7>2 DEF p
            <7>4. p \in QueueMsgs'
              BY <7>3 DEF QueueMsgs
            <7> QED
              BY <5>3, <5>4, <7>4
          <6>3. CASE a \in issue
            <7>1. PICK b \in DOMAIN queue : issue = {b} /\ dispatched' = {Cleared(queue[b], kill)}
              BY <1>0, <6>3, DispatchedAfter
            <7>2. p \in dispatched'
              BY <6>1, <6>3, <7>1 DEF p
            <7> QED
              BY <5>3, <5>4, <7>2
          <6> QED
            BY <6>2, <6>3
        <5>6. CASE m \in dispatched
          <6>1. p \in InPeek
            BY <4>3, <5>6 DEF p, InPeek, Peek
          <6>2. CASE Sends(ss)
            <7>1. p \in Stores(ss)
              BY <5>4, <6>1, <6>2 DEF Stores, Loads, Taken
            <7>2. p.sid \subseteq address_valid'
              BY <7>1, ValidIs
            <7> QED
              BY <5>4, <7>2
          <6>3. CASE ~Sends(ss)
            <7>1. issue = {}
              BY <1>0, <6>1, <6>3, DispatchedAfter
            <7>2. p \in dispatched'
              BY <1>0, <6>1, <6>3, <7>1, DispatchedAfter
            <7> QED
              BY <5>3, <5>4, <7>2
          <6> QED
            BY <6>2, <6>3
        <5> QED
          BY <4>3, <5>5, <5>6 DEF QueueMsgs
      <4>4. window[k].kind = "store"
        BY <2>1, <4>1 DEF Carried
      <4> QED
        BY <4>1, <4>2, <4>3, <4>4 DEF StoresWait
    <3>2. CASE ~(i + Skipped(retire) <= Cut(resolved, mispredict))
      <4>1. PICK r \in Renamings : offered = {r} /\ Joins(i, r)
        BY <1>0, <1>2, <3>2, EntryJoins
      <4>2. r.kind = "store" /\ MemoryRenamed(offered) # {}
        BY <2>1, <4>1 DEF Joins, MemoryRenamed
      <4>3. PICK x \in Renamings : offered = {x} /\ queue'[Len(Rest(issue)) + 1] = Message(x, un)
        BY <1>0, <4>2, QueueAfter
      <4>4. /\ DOMAIN queue' = 1 .. Len(queue') /\ Len(Rest(issue)) \in Nat
            /\ Len(queue') = Len(Rest(issue)) + (IF MemoryRenamed(offered) = {} THEN 0 ELSE 1)
        BY <1>0, QueueAfter
      <4>a. x = r
        BY <4>1, <4>3
      <4>b. Len(Rest(issue)) + 1 \in DOMAIN queue'
        BY <4>2, <4>4
      <4>5. x = r /\ Len(Rest(issue)) + 1 \in DOMAIN queue'
        BY <4>a, <4>b
      <4>6. Message(r, un) \in QueueMsgs'
        BY <4>3, <4>5 DEF QueueMsgs
      <4>7. Message(r, un).seq = window'[i].seq /\ Message(r, un).mask = un
        BY <4>1 DEF Message, Joins
      <4>8. ~kill'.force /\ kill'.kill_mask = {}
        BY <1>0, <4>1, NewMask
      <4>9. Keep(Message(r, un), kill')
        BY <4>8 DEF Keep
      <4> QED
        BY <4>6, <4>7, <4>9
    <3> QED
      BY <3>1, <3>2
  <2> QED
    BY <2>1 DEF StoresWait
<1> QED
  BY <1>1, <1>2

------------------------------------------------------------------------------
(****************************************************************************)
(* Loads.  When a load is sent no older store waits: such a store would    *)
(* still be in the queue behind the load, which is against the order of    *)
(* the queue, or its address is in the table and the checker has seen it.  *)
(****************************************************************************)

(* The owner of a spared message, found by its number, moves with it.      *)
LEMMA OwnerMoves ==
  ASSUME Flight, NEW resolved, NEW mispredict, NEW retire, NEW offered,
         Turn(resolved, mispredict, retire, offered), NEW p, NEW k, Held(p, k),
         p.kind \in {"load", "store"}, Keep(p, kill'),
         NEW i \in DOMAIN window', window'[i].seq = p.seq
  PROVE  /\ i = k - Skipped(retire) /\ i + Skipped(retire) = k /\ Carried(i, k, resolved)
         /\ ~Exception(retire) /\ k \in 1 .. Cut(resolved, mispredict)
<1>0. Typed /\ WindowOK'
  BY WindowKept DEF Flight
<1>1. /\ k - Skipped(retire) \in DOMAIN window' /\ Carried(k - Skipped(retire), k, resolved)
      /\ ~Exception(retire) /\ k \in 1 .. Cut(resolved, mispredict)
  BY <1>0, HeldAfter
<1> DEFINE j == k - Skipped(retire)
<1>2. j + Skipped(retire) = k
  BY <1>0, <1>1, TurnIs
<1> HIDE DEF j
<1>3. j \in DOMAIN window' /\ Carried(j, k, resolved)
  BY <1>1 DEF j
<1>4. window'[j].seq = window'[i].seq
  BY <1>3 DEF Carried, Held
<1>5. i = j
  BY <1>0, <1>3, <1>4 DEF WindowOK
<1>6. i + Skipped(retire) = k /\ Carried(i, k, resolved)
  BY <1>2, <1>3, <1>5
<1> QED
  BY <1>1, <1>5, <1>6 DEF j

(* Nothing overtakes a store in the queue.                                 *)
LEMMA OvertakesAfter ==
  ASSUME Flight, NoneOvertakes, NEW issue, NEW data, NEW resolved, NEW mispredict,
         NEW retire, NEW offered, NEW delay,
         Step(issue, data, resolved, mispredict, retire, offered, delay)
  PROVE  NoneOvertakes'
<1> DEFINE ss == SendStore(retire)
           un == Unresolved(resolved, mispredict)
           s == Skipped(retire)
           rest == Rest(issue)
<1>0. /\ Typed /\ Turn(resolved, mispredict, retire, offered) /\ TypeOK /\ RowsOK /\ MessagesOwned
      /\ QueueOrder /\ queue \in Seq(Sent)
  BY DEF Flight, Step, Typed
<1>1. /\ DOMAIN queue' = 1 .. Len(queue') /\ Len(queue') \in Nat /\ Len(rest) \in Nat
      /\ Len(queue') = Len(rest) + (IF MemoryRenamed(offered) = {} THEN 0 ELSE 1)
      /\ \A n \in 1 .. Len(rest) :
           /\ Place(issue, n) \in DOMAIN queue /\ Place(issue, n) \notin issue
           /\ Keep(queue[Place(issue, n)], kill)
           /\ queue'[n] = Cleared(queue[Place(issue, n)], kill)
      /\ MemoryRenamed(offered) # {} =>
           \E r \in Renamings :
             /\ offered = {r} /\ r.kind \in {"load", "store"}
             /\ queue'[Len(rest) + 1] = Message(r, un)
  BY <1>0, QueueAfter
<1>2. s \in {0, 1}
  BY <1>0, TurnIs
<1> HIDE DEF s, rest, un
<1>3. ASSUME NEW p \in dispatched', Keep(p, kill'), NEW n \in DOMAIN queue', Keep(queue'[n], kill'),
             queue'[n].kind = "store", NEW i \in DOMAIN window', NEW j \in DOMAIN window',
             window'[i].seq = p.seq, window'[j].seq = queue'[n].seq
      PROVE  i < j
  <2>1. Old(p)
    BY Sources
  <2>2. PICK k \in DOMAIN window : Held(p, k)
    BY <2>1, OldHeld
  <2>3. p.kind \in {"load", "store"}
    BY <2>1, OldHeld, SentFields
  <2>4. i + s = k /\ ~Exception(retire)
    BY <1>0, <1>3, <2>2, <2>3, OwnerMoves DEF s
  <2>5. i \in Nat /\ j \in Nat /\ DOMAIN window' = 1 .. Len(window') /\ Len(window') \in Nat
    BY <1>0, <2>4, WindowNow
  <2>6. CASE n \in 1 .. Len(rest)
    <3> DEFINE a == Place(issue, n)
               q == queue'[n]
    <3>1. a \in DOMAIN queue /\ a \notin issue /\ Keep(queue[a], kill) /\ q = Cleared(queue[a], kill)
      BY <1>1, <2>6
    <3>2. queue[a] \in QueueMsgs
      BY <3>1 DEF QueueMsgs
    <3> HIDE DEF a, q
    <3>3. q.seq = queue[a].seq /\ q.kind = queue[a].kind /\ \E l \in DOMAIN window : Held(q, l)
      BY <1>0, <3>1, <3>2, ShownHeld
    <3>4. PICK l \in DOMAIN window : Held(q, l)
      BY <3>3
    <3>5. j + s = l
      <4>1. Keep(q, kill') /\ q.kind \in {"load", "store"} /\ window'[j].seq = q.seq
        BY <1>3 DEF q
      <4> QED
        BY <1>0, <3>4, <4>1, OwnerMoves DEF s
    <3>6. queue[a].kind = "store"
      BY <1>3, <3>3 DEF q
    <3>7. window[k].seq = p.seq /\ window[l].seq = queue[a].seq
      BY <2>2, <3>3, <3>4 DEF Held
    <3>8. k < l
      <4>1. CASE issue = {}
        <5>1. p \in InPeek
          BY <1>0, <1>3, <4>1, DispatchedAfter
        <5>2. PICK m \in dispatched : Keep(m, kill) /\ p = Cleared(m, kill)
          BY <5>1 DEF InPeek, Peek
        <5>3. p.seq = m.seq
          BY <1>0, <5>2, ShownHeld
        <5> QED
          BY <3>1, <3>6, <3>7, <5>2, <5>3 DEF NoneOvertakes
      <4>2. CASE issue # {}
        <5>1. PICK b \in DOMAIN queue :
                /\ issue = {b} /\ Keep(queue[b], kill) /\ MayGo(ShownQueue, b)
                /\ b \in DOMAIN ShownQueue /\ p = Cleared(queue[b], kill)
          BY <1>0, <1>3, <4>2, DispatchedAfter
        <5>2. queue[b] \in QueueMsgs
          BY DEF QueueMsgs
        <5>3. p.seq = queue[b].seq
          BY <1>0, <5>1, <5>2, ShownHeld
        <5>4. /\ \A x \in 1 .. Len(ShownQueue) :
                   /\ x \in DOMAIN queue /\ Keep(queue[x], kill)
                   /\ ShownQueue[x] = Cleared(queue[x], kill)
              /\ \A x \in DOMAIN queue : Keep(queue[x], kill) => x \in 1 .. Len(ShownQueue)
              /\ DOMAIN ShownQueue = 1 .. Len(ShownQueue) /\ Len(ShownQueue) \in Nat
          BY <1>0, ShownIs
        <5>5. a \in 1 .. Len(ShownQueue) /\ b \in 1 .. Len(ShownQueue) /\ a # b
          BY <3>1, <5>1, <5>4
        <5>6. ShownQueue[a].kind = "store"
          BY <3>1, <3>3, <3>6, <5>4, <5>5
        <5>7. b < a
          <6>1. CASE ShownQueue[b].kind = "store"
            BY <5>1, <5>5, <5>4, <6>1 DEF MayGo
          <6>2. CASE ShownQueue[b].kind # "store"
            <7>1. \A x \in 1 .. b - 1 : ShownQueue[x].kind # "store"
              BY <5>1, <6>2 DEF MayGo
            <7>2. a \notin 1 .. b - 1
              BY <5>6, <7>1
            <7> QED
              BY <5>4, <5>5, <7>2
          <6> QED
            BY <6>1, <6>2
        <5> QED
          BY <1>0, <3>1, <3>7, <5>1, <5>3, <5>7 DEF QueueOrder
      <4> QED
        BY <4>1, <4>2
    <3> QED
      BY <1>2, <2>4, <2>5, <3>5, <3>8
  <2>7. CASE n \notin 1 .. Len(rest)
    <3>1. n = Len(rest) + 1 /\ MemoryRenamed(offered) # {}
      BY <1>1, <2>7
    <3>2. PICK r \in Renamings : offered = {r} /\ queue'[n] = Message(r, un)
      BY <1>1, <3>1
    <3>3. PICK x \in DOMAIN window' : x = Len(window') /\ Joins(x, r)
      BY <1>0, <3>2, NewMask
    <3>4. window'[x].seq = window'[j].seq
      BY <1>3, <3>2, <3>3 DEF Message, Joins
    <3>5. j = Len(window')
      <4>1. WindowOK'
        BY <1>0, WindowKept
      <4> QED
        BY <3>3, <3>4, <4>1 DEF WindowOK
    <3>6. p.seq \in UsedSeqs /\ r.seq \notin UsedSeqs
      BY <2>2 DEF Held, UsedSeqs, Renamings
    <3>7. i # j
      BY <1>3, <3>2, <3>6 DEF Message
    <3> QED
      BY <2>5, <3>5, <3>7
  <2> QED
    BY <2>6, <2>7
<1> QED
  BY <1>3 DEF NoneOvertakes

(* No store that is sent writes what a younger load with no older store    *)
(* in.                                                                     *)
(* Its way reads.                                                          *)
LEMMA BytesStay ==
  ASSUME Flight, Tables, NEW issue, NEW data, NEW resolved, NEW mispredict, NEW retire,
         NEW offered, NEW delay,
         Step(issue, data, resolved, mispredict, retire, offered, delay),
         NEW k \in DOMAIN window, window[k].kind = "load", NoOlderStore(k), k > Skipped(retire)
  PROVE  \A b \in window[k].bytes : memory'[b] = memory[b]
<1> DEFINE ss == SendStore(retire)
<1>0. /\ Typed /\ Turn(resolved, mispredict, retire, offered) /\ CommitOK(retire) /\ retire \in BOOLEAN
      /\ TablesHoldOwn
  BY DEF Flight, Step, Turn, WindowStep, CommitOK, Tables
<1>1. memory' = Written(ss)
  BY DEF Step, FlowStep
<1>2. window[k].bytes \subseteq Bytes
  BY <1>0 DEF Typed, WindowOK, Bytes
<1>3. ASSUME NEW r \in ss, NEW b \in window[k].bytes PROVE b \notin r.bytes
  <2>1. PICK s \in StoreIds :
          /\ retire /\ window[1].sid = {s} /\ 1 \in DOMAIN window
          /\ ss = {[bytes |-> address_table[s], val |-> store_data[s]]}
    BY <1>0, <1>3, SentStoreIs
  <2>2. window[1].kind = "store"
    BY <1>0, <2>1 DEF Typed, WindowOK
  <2>b. retire
    BY <2>1
  <2>c. RobRemovable(window[1])
    BY <1>0, <2>b DEF CommitOK
  <2>a. RobRemovable(window[1]) /\ Skipped(retire) = 1
    BY <2>b, <2>c DEF Skipped
  <2>3. window[1].done
    BY <2>2, <2>a DEF RobRemovable
  <2>4. s \in address_valid /\ address_table[s] = window[1].bytes
    BY <1>0, <2>1, <2>3 DEF TablesHoldOwn
  <2>5. 1 \in 1 .. k - 1
    <3>1. k \in Nat /\ k > 1
      BY <1>0, <2>a DEF Typed
    <3> QED
      BY <3>1
  <2>6. window[1].bytes \cap window[k].bytes = {}
    BY <2>2, <2>5 DEF NoOlderStore
  <2>7. r.bytes = address_table[s]
    <3>1. r = [bytes |-> address_table[s], val |-> store_data[s]]
      BY <1>3, <2>1
    <3> QED
      BY <3>1
  <2> QED
    BY <1>3, <2>4, <2>6, <2>7
<1> HIDE DEF ss
<1> QED
  BY <1>1, <1>2, <1>3 DEF Written

(* What a load reads stays what it is as the load moves up.                *)
LEMMA LoadMoves ==
  ASSUME Flight, Tables, NEW issue, NEW data, NEW resolved, NEW mispredict, NEW retire,
         NEW offered, NEW delay,
         Step(issue, data, resolved, mispredict, retire, offered, delay), ~Exception(retire),
         NEW i \in DOMAIN window', NEW k, k = i + Skipped(retire), k <= Cut(resolved, mispredict),
         window[k].kind = "load", NoOlderStore(k)
  PROVE  NoOlderStore(i)' /\ ReadData(window[i].bytes)' = ReadData(window[k].bytes)
<1>0. Typed /\ Turn(resolved, mispredict, retire, offered)
  BY DEF Flight, Step
<1>1. k \in DOMAIN window /\ Carried(i, k, resolved)
  BY <1>0, EntryCarried DEF Carried
<1>2. i \in Nat \ {0} /\ k > Skipped(retire) /\ k \in Nat /\ DOMAIN window' = 1 .. Len(window')
      /\ Len(window') \in Nat
  BY <1>0, WindowNow, TurnIs
<1>3. \A b \in window[k].bytes : memory'[b] = memory[b]
  BY <1>1, <1>2, BytesStay
<1>4. window'[i].bytes = window[k].bytes
  BY <1>1 DEF Carried
<1>5. ReadData(window[i].bytes)' = ReadData(window[k].bytes)
  <2>1. ReadData(window[i].bytes)' = [b \in window'[i].bytes |-> memory'[b]]
    BY DEF ReadData
  <2>2. ReadData(window[k].bytes) = [b \in window[k].bytes |-> memory[b]]
    BY DEF ReadData
  <2> QED
    BY <1>3, <1>4, <2>1, <2>2
<1>6. ASSUME NEW j \in 1 .. i - 1, window'[j].kind = "store"
      PROVE  window'[j].bytes \cap window'[i].bytes = {}
  <2> DEFINE l == j + Skipped(retire)
  <2>1. j \in DOMAIN window' /\ l <= Cut(resolved, mispredict) /\ l \in 1 .. k - 1
    BY <1>0, <1>2, TurnIs
  <2>2. Carried(j, l, resolved)
    BY <1>0, <2>1, EntryCarried
  <2> HIDE DEF l
  <2>3. window[l].kind = "store" /\ window'[j].bytes = window[l].bytes
    BY <1>6, <2>2 DEF Carried
  <2> QED
    BY <1>4, <2>1, <2>3 DEF NoOlderStore
<1>7. NoOlderStore(i)'
  BY <1>6 DEF NoOlderStore
<1> QED
  BY <1>5, <1>7

(* A load is sent only when no older store in flight writes what it reads. *)
LEMMA SendSafe ==
  ASSUME AwayFromTheEnd, Flight, Tables, StoresWait, NoneOvertakes,
         NEW p \in InPeek, p.kind = "load", ~StorePending(p),
         NEW k \in DOMAIN window, Held(p, k), window[k].bytes = p.bytes
  PROVE  NoOlderStore(k)
<1>0. Typed /\ TypeOK /\ MessagesOwned /\ TablesHoldOwn
  BY DEF Flight, Typed, Tables
<1>1. PICK m \in dispatched : Keep(m, kill) /\ p = Cleared(m, kill)
  BY DEF InPeek, Peek
<1>2. m.seq = p.seq /\ p \in Sent
  BY <1>0, <1>1, ShownHeld
<1> SUFFICES ASSUME NEW j \in 1 .. k - 1, window[j].kind = "store"
             PROVE  window[j].bytes \cap window[k].bytes = {}
  BY DEF NoOlderStore
<1>3. j \in DOMAIN window /\ ~(k < j) /\ j # k
  BY <1>0 DEF Typed
<1>4. \A x \in QueueMsgs \cup dispatched : x.seq = window[j].seq => ~Keep(x, kill)
  <2> SUFFICES ASSUME NEW x \in QueueMsgs \cup dispatched, x.seq = window[j].seq, Keep(x, kill)
               PROVE  FALSE
    OBVIOUS
  <2>1. CASE x \in dispatched
    <3>1. x = m
      BY <1>0, <2>1 DEF TypeOK, Single
    <3>2. window[j].seq = window[k].seq
      BY <1>2, <3>1 DEF Held
    <3> QED
      BY <1>0, <1>3, <3>2, SeqIs
  <2>2. ASSUME NEW a \in DOMAIN queue, x = queue[a] PROVE FALSE
    <3>1. PICK l \in DOMAIN window : Held(Cleared(x, kill), l)
      BY <1>0, ShownHeld
    <3>2. Cleared(x, kill).seq = x.seq /\ Cleared(x, kill).kind = x.kind
      BY <1>0, ShownHeld
    <3>3. l = j
      BY <1>0, <1>3, <3>1, <3>2, SeqIs DEF Held
    <3>4. x.kind = "store"
      BY <3>1, <3>2, <3>3 DEF Held
    <3>5. k < j
      BY <1>1, <1>2, <1>3, <2>2, <3>4 DEF NoneOvertakes, Held
    <3> QED
      BY <1>3, <3>5
  <2> QED
    BY <2>1, <2>2 DEF QueueMsgs
<1>5. window[j].sid \subseteq address_valid
  BY <1>3, <1>4 DEF StoresWait
<1>6. PICK s \in window[j].sid : s \in address_valid
  BY <1>0, <1>3, <1>5 DEF Typed, WindowOK
<1>7. address_table[s] = window[j].bytes /\ s \in Live
  BY <1>0, <1>3, <1>6 DEF TablesHoldOwn, Live
<1>8. ~Overlap(p.bytes, window[j].bytes)
  BY <1>6, <1>7 DEF StorePending
<1>9. p.bytes \in Accesses /\ window[j].bytes \in Accesses
  BY <1>0, <1>2, <1>3, SentFields DEF Typed, WindowOK
<1>10. p.bytes \cap window[j].bytes = {}
  BY <1>8, <1>9, OverlapSees
<1> QED
  BY <1>10

(* The answer to a load that stays in the request register stays on the    *)
(* bus.                                                                    *)
LEMMA AnswerStays ==
  ASSUME Flight, AnswersHaveOwners, NEW issue, NEW data, NEW resolved, NEW mispredict, NEW retire,
         NEW offered, NEW delay,
         Step(issue, data, resolved, mispredict, retire, offered, delay),
         ~Sends(SendStore(retire)), ~Moves, NEW m \in internal[1], m.kind = "load"
  PROVE  \A r \in bus' : \E x \in bus : r.data = x.data
<1> DEFINE ss == SendStore(retire)
<1>0. /\ Typed /\ TypeOK /\ CommitOK(retire) /\ retire \in BOOLEAN /\ WindowOK /\ window \in Seq(Entry)
  BY DEF Flight, Step, Turn, WindowStep, CommitOK, Typed
<1>1. bus' = IF ss # {} THEN {[type |-> "write", delay |-> delay]}
             ELSE IF Loads(ss) # {} THEN {Read(x, delay) : x \in Loads(ss)}
             ELSE IF SendRdy THEN {} ELSE {Waited(r) : r \in bus}
  BY DEF Step, FlowStep
<1>2. m \in InResponse
  BY DEF InResponse
<1>3. PICK r \in bus : r.type = "read"
  BY <1>2 DEF AnswersHaveOwners
<1>4. bus = {r} /\ r \in Request /\ ~store_in_flight
  BY <1>0, <1>3 DEF TypeOK, Single, AnswersHaveOwners
<1>5. ~SendRdy
  <2>1. ASSUME RecvRdy, RecvLoad PROVE FALSE
    <3>1. Moves
      BY <2>1 DEF RecvLoad, Moves, CanAccept
    <3> QED
      BY <3>1
  <2> QED
    BY <1>4, <2>1 DEF SendRdy
<1>6. ss = {}
  BY <1>0, <1>5, SendStoreIs
<1>7. Loads(ss) = {}
  BY DEF Loads, Taken
<1> HIDE DEF ss
<1>8. bus' = {Waited(r)}
  BY <1>1, <1>4, <1>5, <1>6, <1>7
<1>9. Waited(r).data = r.data
  BY <1>3, <1>4 DEF Waited, Request
<1> QED
  BY <1>8, <1>9

(* Loads that are answered have what memory has, after the cycle.          *)
LEMMA FreshAfter ==
  ASSUME AwayFromTheEnd, Flight, AnswersHaveOwners, Tables, StoresWait, NoneOvertakes, LoadsFresh,
         NEW issue, NEW data, NEW resolved, NEW mispredict, NEW retire, NEW offered, NEW delay,
         Step(issue, data, resolved, mispredict, retire, offered, delay)
  PROVE  LoadsFresh'
<1> DEFINE ss == SendStore(retire)
           s == Skipped(retire)
<1>0. /\ Typed /\ TypeOK /\ RowsOK /\ Turn(resolved, mispredict, retire, offered) /\ PipeStep(ss)
      /\ MessagesOwned /\ retire \in BOOLEAN /\ CommitOK(retire)
  BY DEF Flight, Step, Typed, FlowStep, Turn, WindowStep, CommitOK
<1>1. /\ \A p : p \in LivingFirst' <=>
           IF Sends(ss) THEN p \in InPeek ELSE ~Moves /\ p \in Peek(LivingFirst, kill)
      /\ \A p : p \in LivingSecond' <=>
           Moves /\ \E q \in Peek(LivingFirst, kill) : p = Received(q)
  BY <1>0, LivingAfter
(* What holds of a load in the request register.                           *)
<1>2. ASSUME NEW q \in Peek(LivingFirst, kill), q.kind = "load", NEW k, Held(q, k)
      PROVE  /\ NoOlderStore(k) /\ \A r \in bus : r.data = ReadData(window[k].bytes)
             /\ \E m \in internal[1] : m.kind = "load"
  <2>1. PICK m \in LivingFirst : Keep(m, kill) /\ q = Cleared(m, kill)
    BY DEF Peek
  <2>2. m.seq = q.seq /\ m.kind = q.kind
    BY <1>0, <2>1, ShownHeld
  <2>3. k \in DOMAIN window /\ window[k].seq = m.seq
    BY <1>2, <2>2 DEF Held
  <2>4. \E x \in internal[1] : x.kind = m.kind
    BY <1>0, LivingTyped
  <2> QED
    BY <1>2, <2>1, <2>2, <2>3, <2>4 DEF LoadsFresh
<1>3. ASSUME NEW p, Old(p), p.kind = "load", Keep(p, kill'), NEW i \in DOMAIN window',
             window'[i].seq = p.seq
      PROVE  \E k \in DOMAIN window :
               /\ Held(p, k) /\ window[k].bytes = p.bytes /\ k = i + s /\ window[k].kind = "load"
               /\ ~Exception(retire) /\ k <= Cut(resolved, mispredict) /\ Carried(i, k, resolved)
  <2>1. PICK k \in DOMAIN window : Held(p, k) /\ window[k].bytes = p.bytes
    BY <1>3, OldHeld
  <2>2. /\ i + s = k /\ Carried(i, k, resolved) /\ ~Exception(retire)
        /\ k \in 1 .. Cut(resolved, mispredict)
    BY <1>0, <1>3, <2>1, OwnerMoves
  <2>3. k <= Cut(resolved, mispredict)
    BY <1>0, <2>2, TurnIs
  <2> HIDE DEF s
  <2> QED
    BY <1>3, <2>1, <2>2, <2>3 DEF Held
<1> HIDE DEF ss
<1>4. ASSUME NEW p \in LivingFirst', p.kind = "load", Keep(p, kill'), NEW i \in DOMAIN window',
             window'[i].seq = p.seq
      PROVE  NoOlderStore(i)' /\ \A r \in bus' : r.data = ReadData(window[i].bytes)'
  <2>1. Old(p)
    BY Sources
  <2>2. PICK k \in DOMAIN window :
               /\ Held(p, k) /\ window[k].bytes = p.bytes /\ k = i + s /\ window[k].kind = "load"
               /\ ~Exception(retire) /\ k <= Cut(resolved, mispredict)
    BY <1>3, <1>4, <2>1
  <2>3. NoOlderStore(k) /\ \A r \in bus' : r.data = ReadData(window[k].bytes)
    <3>1. CASE Sends(ss)
      <4>1. p \in InPeek /\ CanSend(p, ss)
        BY <1>1, <3>1 DEF Sends
      <4>2. ~StorePending(p) /\ SendRdy /\ ss = {}
        BY <1>4, <4>1 DEF CanSend, SendLoadRdy
      <4>3. NoOlderStore(k)
        BY <1>4, <2>2, <4>1, <4>2, SendSafe
      <4>4. Loads(ss) = {p}
        <5>1. InPeek = {p}
          BY <1>0, <4>1, InPeekIs DEF Single
        <5> QED
          BY <1>4, <3>1, <5>1 DEF Loads, Taken
      <4>5. bus' = {Read(p, delay)}
        <5>1. bus' = IF ss # {} THEN {[type |-> "write", delay |-> delay]}
                     ELSE IF Loads(ss) # {} THEN {Read(x, delay) : x \in Loads(ss)}
                     ELSE IF SendRdy THEN {} ELSE {Waited(r) : r \in bus}
          BY DEF Step, FlowStep, ss
        <5> QED
          BY <4>2, <4>4, <5>1
      <4>6. Read(p, delay).data = ReadData(p.bytes)
        BY DEF Read
      <4> QED
        BY <2>2, <4>3, <4>5, <4>6
    <3>2. CASE ~Sends(ss)
      <4>1. ~Moves /\ p \in Peek(LivingFirst, kill)
        BY <1>1, <3>2
      <4>2. /\ NoOlderStore(k) /\ \A r \in bus : r.data = ReadData(window[k].bytes)
            /\ \E m \in internal[1] : m.kind = "load"
        BY <1>2, <1>4, <2>2, <4>1
      <4>3. \A r \in bus' : \E x \in bus : r.data = x.data
        BY <3>2, <4>1, <4>2, AnswerStays DEF ss
      <4> QED
        BY <4>2, <4>3
    <3> QED
      BY <3>1, <3>2
  <2>4. NoOlderStore(i)' /\ ReadData(window[i].bytes)' = ReadData(window[k].bytes)
    BY <2>2, <2>3, LoadMoves
  <2> QED
    BY <2>3, <2>4
<1>5. ASSUME NEW p \in LivingSecond', p.kind = "load", Keep(p, kill'), NEW i \in DOMAIN window',
             window'[i].seq = p.seq
      PROVE  NoOlderStore(i)' /\ p.bytes = ReadData(window[i].bytes)'
  <2>1. PICK q \in Peek(LivingFirst, kill) : p = Received(q)
    BY <1>1
  <2>2. Old(q) /\ q \in Sent
    <3>1. Old(q)
      BY DEF Peek, Old
    <3> QED
      BY <3>1, OldHeld
  <2>3. /\ p.seq = q.seq /\ p.kind = q.kind /\ p.mask = q.mask
        /\ p.bytes = IF q.kind = "load" THEN (CHOOSE r \in bus : TRUE).data ELSE q.bytes
    BY <2>1, <2>2, ReceivedFields
  <2>4. Keep(q, kill')
    BY <1>5, <2>3 DEF Keep
  <2>5. PICK k \in DOMAIN window :
               /\ Held(q, k) /\ window[k].bytes = q.bytes /\ k = i + s /\ window[k].kind = "load"
               /\ ~Exception(retire) /\ k <= Cut(resolved, mispredict)
    BY <1>3, <1>5, <2>2, <2>3, <2>4
  <2>6. /\ NoOlderStore(k) /\ \A r \in bus : r.data = ReadData(window[k].bytes)
        /\ \E m \in internal[1] : m.kind = "load"
    BY <1>2, <1>5, <2>3, <2>5
  <2>7. bus # {}
    BY <2>6 DEF AnswersHaveOwners, InResponse
  <2>8. p.bytes = ReadData(window[k].bytes)
    <3>1. (CHOOSE r \in bus : TRUE) \in bus
      BY <2>7
    <3> QED
      BY <1>5, <2>3, <2>6, <3>1
  <2>9. NoOlderStore(i)' /\ ReadData(window[i].bytes)' = ReadData(window[k].bytes)
    BY <2>5, <2>6, LoadMoves
  <2> QED
    BY <2>8, <2>9
<1>6. ASSUME NEW i \in DOMAIN window', window'[i].kind = "load", window'[i].done
      PROVE  NoOlderStore(i)' /\ window'[i].answer = ReadData(window[i].bytes)'
  <2>1. ~Exception(retire)
    <3>1. Exception(retire) => window' = <<>>
      BY <1>0 DEF Turn, WindowStep
    <3> QED
      BY <3>1
  <2>2. i + s <= Cut(resolved, mispredict)
    <3>1. ~(i + s <= Cut(resolved, mispredict)) => \E r \in Renamings : Joins(i, r)
      BY <1>0, <2>1, EntryJoins
    <3> QED
      BY <1>6, <3>1 DEF Joins
  <2> DEFINE k == i + s
  <2>3. k \in DOMAIN window /\ Carried(i, k, resolved)
    BY <1>0, <2>1, <2>2, EntryCarried DEF Carried
  <2> HIDE DEF k
  <2>4. window[k].kind = "load"
    BY <1>6, <2>3 DEF Carried
  <2>5. NoOlderStore(k) /\ window'[i].answer = ReadData(window[k].bytes)
    <3>1. CASE Arrived(k) = {}
      <4>1. window[k].done /\ window'[i].answer = window[k].answer
        BY <1>6, <2>3, <3>1 DEF Carried
      <4> QED
        BY <2>3, <2>4, <4>1 DEF LoadsFresh
    <3>2. CASE Arrived(k) # {}
      <4>1. PICK p \in Results : (CHOOSE m \in Arrived(k) : TRUE) = p /\ Held(p, k)
        BY <2>3, <3>2, ArrivedIs
      <4>2. PICK m \in LivingSecond :
              Keep(m, kill) /\ p.seq = m.seq /\ p.kind = m.kind /\ p.bytes = m.bytes
        BY <1>0, ResultHeld
      <4>3. m.kind = "load" /\ window[k].seq = m.seq
        BY <2>4, <4>1, <4>2 DEF Held
      <4>4. NoOlderStore(k) /\ m.bytes = ReadData(window[k].bytes)
        BY <2>3, <4>2, <4>3 DEF LoadsFresh
      <4>5. window'[i].answer = p.bytes
        BY <2>3, <2>4, <3>2, <4>1 DEF Carried
      <4> QED
        BY <4>2, <4>4, <4>5
    <3> QED
      BY <3>1, <3>2
  <2>6. k = i + Skipped(retire) /\ k <= Cut(resolved, mispredict)
    BY <2>2 DEF k
  <2>7. NoOlderStore(i)' /\ ReadData(window[i].bytes)' = ReadData(window[k].bytes)
    BY <2>1, <2>4, <2>5, <2>6, LoadMoves
  <2> QED
    BY <2>5, <2>7
<1>7. ASSUME NEW p \in LivingFirst', p.kind = "load", Keep(p, kill'), NEW i \in DOMAIN window',
             window'[i].seq = p.seq, NEW r \in bus'
      PROVE  r.data = ReadData(window[i].bytes)'
  BY <1>4, <1>7
<1> QED
  BY <1>4, <1>5, <1>6, <1>7 DEF LoadsFresh

------------------------------------------------------------------------------
(****************************************************************************)
(* The theorems.                                                           *)
(****************************************************************************)

(* The inductive invariant.                                                *)
MemoryInv == Flight /\ AnswersHaveOwners /\ Tables

FreshInv == MemoryInv /\ StoresWait /\ NoneOvertakes /\ LoadsFresh

(* Nothing is in flight at first.                                          *)
LEMMA InitInv == Init => FreshInv
<1> SUFFICES ASSUME Init PROVE FreshInv
  OBVIOUS
<1>1. /\ window = <<>> /\ kill = NoKill /\ queue = <<>> /\ data_queue = {} /\ dispatched = {}
      /\ internal[1] = {} /\ internal[2] = {} /\ vvms[1] = {} /\ vvms[2] = {}
      /\ address_table = [s \in StoreIds |-> {}] /\ address_valid = {} /\ data_valid = {}
      /\ store_in_flight \in BOOLEAN /\ bus = {}
  BY StagesAre DEF Init, Mem!PipeInit
<1>2. store_data \in [StoreIds -> Values] /\ memory \in [Bytes -> Values]
  BY DEF Init
<1>3. LivingFirst = {} /\ LivingSecond = {} /\ QueueMsgs = {}
  BY <1>1 DEF LivingFirst, LivingSecond, Living, QueueMsgs
<1>4. TypeOK
  <2>1. kill \in [force : BOOLEAN, kill_mask : SUBSET SnapshotIds, clear_mask : SUBSET SnapshotIds]
    BY <1>1 DEF NoKill
  <2>2. address_table \in [StoreIds -> Accesses \cup {{}}]
    BY <1>1
  <2> QED
    BY <1>1, <1>2, <2>1, <2>2 DEF TypeOK, Single
<1>5. Typed
  BY <1>1, <1>4 DEF Typed, WindowOK
<1>6. RowsOK
  BY <1>1 DEF RowsOK
<1>7. MessagesOwned
  BY <1>1, <1>3 DEF MessagesOwned
<1>8. Once
  BY <1>1, <1>3 DEF Once, SeqsOf
<1>9. QueueOrder
  BY <1>1 DEF QueueOrder
<1>10. AnswersHaveOwners
  BY <1>1 DEF AnswersHaveOwners, InResponse
<1>11. Tables
  BY <1>1, <1>3 DEF Tables, DataOwned, TablesHoldOwn, StoresEntered
<1>12. StoresWait /\ NoneOvertakes /\ LoadsFresh
  BY <1>1, <1>3 DEF StoresWait, NoneOvertakes, LoadsFresh
<1> QED
  BY <1>5, <1>6, <1>7, <1>8, <1>9, <1>10, <1>11, <1>12 DEF FreshInv, MemoryInv, Flight

(* Every step of the system is one cycle.                                  *)
LEMMA StepIs ==
  ASSUME Typed, RowsOK, Next
  PROVE  \E issue, data, resolved, mispredict, retire, offered, delay :
           Step(issue, data, resolved, mispredict, retire, offered, delay)
<1>1. PICK issue \in Issues, data \in Datas, resolved \in Resolves, retire \in BOOLEAN,
           mispredict \in BOOLEAN, offered \in Optional(Renamings), delay \in Delays :
             Cycle(issue, data, resolved, mispredict, retire, offered, delay)
  BY DEF Next, Steps
<1>2. /\ FlowStep(issue, data, SendStore(retire), offered, Unresolved(resolved, mispredict), delay)
      /\ WindowStep(resolved, mispredict, retire, offered)
  BY <1>1, CycleIs DEF Typed
<1>3. Step(issue, data, resolved, mispredict, retire, offered, delay)
  BY <1>2 DEF Step, Turn
<1> QED
  BY <1>3

(* A cycle keeps the invariant.                                            *)
LEMMA StepInv ==
  ASSUME MemoryInv, NEW issue, NEW data, NEW resolved, NEW mispredict, NEW retire, NEW offered,
         NEW delay, Step(issue, data, resolved, mispredict, retire, offered, delay)
  PROVE  MemoryInv'
<1>1. Flight /\ AnswersHaveOwners /\ Tables
  BY DEF MemoryInv
<1>2. Typed' /\ RowsOK' /\ AnswersHaveOwners'
  BY <1>1, TypeKept
<1>3. MessagesOwned' /\ Once' /\ QueueOrder'
  BY <1>1, OwnedAfter, OnceAfter, OrderAfter
<1>4. DataOwned' /\ TablesHoldOwn' /\ StoresEntered'
  BY <1>1, DataAfter, TablesAfter, EnteredAfter
<1> QED
  BY <1>2, <1>3, <1>4 DEF MemoryInv, Flight, Tables

(* A step that changes nothing keeps it.                                   *)
LEMMA StutterInv ==
  ASSUME UNCHANGED vars
  PROVE  (MemoryInv => MemoryInv') /\ (FreshInv => FreshInv')
<1>1. /\ window' = window /\ kill' = kill /\ queue' = queue /\ data_queue' = data_queue
      /\ dispatched' = dispatched /\ internal' = internal /\ vvms' = vvms
      /\ address_table' = address_table /\ address_valid' = address_valid
      /\ store_data' = store_data /\ data_valid' = data_valid
      /\ store_in_flight' = store_in_flight /\ bus' = bus /\ memory' = memory
  BY DEF vars, pipe, tables
<1>2. /\ LivingFirst' = LivingFirst /\ LivingSecond' = LivingSecond /\ QueueMsgs' = QueueMsgs
  BY <1>1 DEF LivingFirst, LivingSecond, QueueMsgs
<1>3. (TypeOK' <=> TypeOK) /\ (WindowOK' <=> WindowOK) /\ (RowsOK' <=> RowsOK)
  BY <1>1 DEF TypeOK, WindowOK, RowsOK
<1>4. (MessagesOwned' <=> MessagesOwned)
  BY <1>1, <1>2 DEF MessagesOwned, Owned, OwnedWithBytes, Owns, Older
<1>5. (Once' <=> Once) /\ (QueueOrder' <=> QueueOrder)
  BY <1>1, <1>2 DEF Once, QueueOrder
<1>6. AnswersHaveOwners' <=> AnswersHaveOwners
  BY <1>1 DEF AnswersHaveOwners, InResponse
<1>7. (DataOwned' <=> DataOwned) /\ (TablesHoldOwn' <=> TablesHoldOwn) /\ (StoresEntered' <=> StoresEntered)
  BY <1>1, <1>2 DEF DataOwned, OwnsData, Older, TablesHoldOwn, StoresEntered
<1>8. (StoresWait' <=> StoresWait) /\ (NoneOvertakes' <=> NoneOvertakes) /\ (LoadsFresh' <=> LoadsFresh)
  BY <1>1, <1>2 DEF StoresWait, NoneOvertakes, LoadsFresh, NoOlderStore, ReadData
<1> QED
  BY <1>1, <1>3, <1>4, <1>5, <1>6, <1>7, <1>8 DEF MemoryInv, FreshInv, Flight, Typed, Tables

(* So every step does.                                                     *)
LEMMA NextInv == MemoryInv /\ [Next]_vars => MemoryInv'
<1> SUFFICES ASSUME MemoryInv, [Next]_vars PROVE MemoryInv'
  OBVIOUS
<1>1. CASE Next
  <2>1. PICK issue, data, resolved, mispredict, retire, offered, delay :
          Step(issue, data, resolved, mispredict, retire, offered, delay)
    BY <1>1, StepIs DEF MemoryInv, Flight
  <2> QED
    BY <2>1, StepInv
<1>2. CASE UNCHANGED vars
  BY <1>2, StutterInv
<1> QED
  BY <1>1, <1>2

(* The same, with the loads.                                               *)
LEMMA NextFresh ==
  ASSUME AwayFromTheEnd
  PROVE  FreshInv /\ [Next]_vars => FreshInv'
<1> SUFFICES ASSUME FreshInv, [Next]_vars PROVE FreshInv'
  OBVIOUS
<1>1. CASE Next
  <2>1. /\ Flight /\ AnswersHaveOwners /\ Tables /\ StoresWait /\ NoneOvertakes /\ LoadsFresh
        /\ MemoryInv
    BY DEF FreshInv, MemoryInv
  <2>2. PICK issue, data, resolved, mispredict, retire, offered, delay :
          Step(issue, data, resolved, mispredict, retire, offered, delay)
    BY <1>1, <2>1, StepIs DEF Flight
  <2>3. MemoryInv'
    BY <2>1, <2>2, StepInv
  <2>4. StoresWait' /\ NoneOvertakes'
    BY <2>1, <2>2, WaitAfter, OvertakesAfter
  <2>5. LoadsFresh'
    BY <2>1, <2>2, FreshAfter
  <2> QED
    BY <2>3, <2>4, <2>5 DEF FreshInv
<1>2. CASE UNCHANGED vars
  BY <1>2, StutterInv
<1> QED
  BY <1>1, <1>2

(* A load that has nothing older to wait for has what program order gives  *)
(* it.                                                                     *)
LEMMA FreshIsOrder == FreshInv => LoadsReadProgramOrder
<1> SUFFICES ASSUME FreshInv, NEW i \in DOMAIN window, window[i].kind = "load", window[i].done
             PROVE  window[i].answer = ProgramOrder(i)
  BY DEF LoadsReadProgramOrder
<1>1. NoOlderStore(i) /\ window[i].answer = ReadData(window[i].bytes)
  BY DEF FreshInv, LoadsFresh
<1>2. \A b \in window[i].bytes : WritersOf(b, i) = {}
  BY <1>1 DEF WritersOf, NoOlderStore
<1>3. ProgramOrder(i) = [b \in window[i].bytes |-> memory[b]]
  BY <1>2 DEF ProgramOrder
<1> QED
  BY <1>1, <1>3 DEF ReadData

(* What FenceDrains says of one step.                                      *)
Drains ==
  (/\ window # <<>> /\ window[1].kind = "fence"
   /\ window' = <<>> \/ window'[1].seq # window[1].seq)
    => \A r \in bus' : r.type # "write"

(* A sequence that is not empty.                                           *)
LEMMA SeqNotEmpty ==
  ASSUME NEW S, NEW s \in Seq(S), s # <<>>
  PROVE  Len(s) \in Nat /\ Len(s) >= 1 /\ DOMAIN s = 1 .. Len(s)
<1>1. Len(s) \in Nat /\ DOMAIN s = 1 .. Len(s) /\ Len(s) # 0
  BY LenProperties, EmptySeq
<1> QED
  BY <1>1

(* A fence retires from the head only when no store is on its way, and     *)
(* none is sent with it.                                                   *)
LEMMA StepDrains ==
  ASSUME MemoryInv, [Next]_vars
  PROVE  Drains
<1> SUFFICES ASSUME window # <<>>, window[1].kind = "fence",
                    window' = <<>> \/ window'[1].seq # window[1].seq
             PROVE  \A r \in bus' : r.type # "write"
  BY DEF Drains
<1>1. CASE Next
  <2>1. PICK issue, data, resolved, mispredict, retire, offered, delay :
          Step(issue, data, resolved, mispredict, retire, offered, delay)
    BY <1>1, StepIs DEF MemoryInv, Flight
  <2> DEFINE ss == SendStore(retire)
             cut == Cut(resolved, mispredict)
  <2>2. Typed /\ Turn(resolved, mispredict, retire, offered) /\ CommitOK(retire) /\ WindowOK
        /\ retire \in BOOLEAN /\ window \in Seq(Entry) /\ TypeOK
    BY <2>1 DEF MemoryInv, Flight, Step, Typed, Turn, WindowStep, CommitOK
  <2>3. ~Exception(retire)
    BY DEF Exception
  <2>4. 1 \in DOMAIN window /\ cut >= 1 /\ cut \in Nat
    <3>1. Len(window) \in Nat /\ Len(window) >= 1 /\ DOMAIN window = 1 .. Len(window)
      BY <2>2, SeqNotEmpty
    <3>2. cut \in DOMAIN window \/ cut = Len(window)
      BY <2>2, TurnIs DEF Cut
    <3> HIDE DEF cut
    <3> QED
      BY <3>1, <3>2
  <2>5. retire
    <3> SUFFICES ASSUME ~retire PROVE FALSE
      OBVIOUS
    <3>1. Skipped(retire) = 0
      BY DEF Skipped
    <3>2. 1 \in 1 .. cut /\ 1 > Skipped(retire) /\ 1 - Skipped(retire) = 1
      BY <2>4, <3>1
    <3>3. 1 \in DOMAIN window' /\ Carried(1, 1, resolved)
      BY <2>2, <2>3, <3>2, StaysIn
    <3>4. window'[1].seq = window[1].seq /\ window' # <<>>
      BY <3>3 DEF Carried
    <3> QED
      BY <3>4
  <2>6. ~StoreInFlightAfterRecv
    BY <2>2, <2>5 DEF CommitOK, RobRemovable
  <2>7. ss = {}
    BY <2>2, SendStoreIs
  <2>8. store_in_flight' = FALSE
    <3>1. store_in_flight' = StoreInFlightNext(ss, Loads(ss))
      BY <2>1 DEF Step, FlowStep
    <3> HIDE DEF ss
    <3> QED
      BY <2>6, <2>7, <3>1 DEF StoreInFlightNext
  <2>9. AnswersHaveOwners'
    BY <2>1, TypeKept DEF MemoryInv
  <2> QED
    BY <2>8, <2>9 DEF AnswersHaveOwners
<1>2. CASE UNCHANGED vars
  <2>1. window' = window
    BY <1>2 DEF vars
  <2> QED
    BY <2>1
<1> QED
  BY <1>1, <1>2

(* Everything in flight has one owner in the reorder buffer, the right     *)
(* mask and its type, through mispredictions, exceptions and any delay of  *)
(* the memory (memoryflow.py, memory_arbiter.py, mem_pipe.py).             *)
THEOREM MemoryInvariant == Spec => []MemoryInv
<1>1. Init => MemoryInv
  BY InitInv DEF FreshInv
<1> QED
  BY <1>1, NextInv, PTL DEF Spec

(* Every answer on the bus has its load waiting in the response stage, and *)
(* the flag of the arbiter tells answers from acknowledgements             *)
(* (memory_arbiter.py, store_in_flight).                                   *)
THEOREM AnswersSafe == Spec => []AnswersHaveOwners
<1>1. MemoryInv => AnswersHaveOwners
  BY DEF MemoryInv
<1> QED
  BY <1>1, MemoryInvariant, PTL

(* An entry of the store tables is that of the live store that has the     *)
(* identifier, whatever flushed stores wrote late (memoryflow.py).         *)
THEOREM TablesSafe == Spec => []TablesHoldOwn
<1>1. MemoryInv => TablesHoldOwn
  BY DEF MemoryInv, Tables
<1> QED
  BY <1>1, MemoryInvariant, PTL

(* After a fence has left the head, no store is on its way to memory       *)
(* (commit.py, set_rob_remove).                                            *)
THEOREM FenceSafe == Spec => FenceDrains
<1>1. MemoryInv /\ [Next]_vars => [Drains]_vars
  BY StepDrains
<1>2. [][Drains]_vars => FenceDrains
  BY PTL DEF FenceDrains, Drains
<1> QED
  BY <1>1, <1>2, MemoryInvariant, PTL DEF Spec

(* A load gets the bytes of the youngest older stores, if no access        *)
(* reaches the last byte of the address space, where the end of an access  *)
(* wraps to 0 (overlap_checker.py) and the property is false.              *)
THEOREM OrderSafe ==
  ASSUME AwayFromTheEnd
  PROVE  Spec => []LoadsReadProgramOrder
<1>1. FreshInv /\ [Next]_vars => FreshInv'
  BY NextFresh
<1> QED
  BY <1>1, InitInv, FreshIsOrder, PTL DEF Spec
===============================================================================
