--------------------------- MODULE FrontendProofs ---------------------------
(* Proofs about Frontend, for every memory delay and every size.           *)
EXTENDS Frontend, SequenceTheorems, TLAPS

(* Messages carry the right instruction because the outstanding request is *)
(* for pc, unless its answer is going to be dropped.                       *)
IInv ==
  /\ RequestOutstanding
  /\ AddressIsPc
  /\ drop_pending => in_flight
  /\ ~drop_pending => \A r \in imem : r.addr = pc

LEMMA InitIInv == Init => IInv
  BY DEF Init, IInv, RequestOutstanding, AddressIsPc

(* The request that the memory has after a cycle.                          *)
LEMMA RequestAfter ==
  ASSUME IInv, NEW redirect, NEW taken, NEW write, NEW clear,
         FrontendCycle(redirect, taken, write, clear)
  PROVE  /\ RequestOutstanding'
         /\ drop_pending' => in_flight'
         /\ ~drop_pending' => \A r \in imem' : r.addr = pc'
<1> DEFINE took   == DecodeTakes(redirect, taken)
           target == Target(redirect)
<1>1. /\ pc' = IF redirect # {} \/ AdvanceF0(redirect, took) THEN target ELSE pc
      /\ in_flight' = (in_flight \/ AdvanceF0(redirect, took))
      /\ drop_pending' = (DropPendingCurr(redirect) /\ ~InputRdy)
      /\ imem' = ImemNext(redirect, took)
  BY DEF FrontendCycle
<1>2. in_flight <=> imem # {}
  BY DEF IInv, RequestOutstanding
<1>3. InputRdy => in_flight
  BY <1>2 DEF InputRdy
<1> HIDE DEF took, target
(* A new request is sent: there was none, or its answer is received.       *)
<1>4. CASE AdvanceF0(redirect, took)
  <2>1. imem = {} \/ DropOccurred(redirect) \/ (redirect = {} /\ AdvanceF1(redirect, took))
    <3>1. AdvanceF1(redirect, took) /\ redirect # {} => imem = {}
      BY <1>2, <1>3 DEF AdvanceF1, OutputRdy, DropPendingCurr
    <3> QED
      BY <3>1, <1>2, <1>4 DEF AdvanceF0
  <2>2. imem' = {[addr |-> target, branch |-> target \in branches, delay |-> imem_delay]}
    BY <1>1, <1>4, <2>1 DEF ImemNext, target
  <2>3. pc' = target /\ in_flight'
    BY <1>1, <1>4
  <2> QED
    BY <2>2, <2>3 DEF RequestOutstanding
(* The request stays.                                                      *)
<1>5. CASE ~AdvanceF0(redirect, took)
  <2>1. in_flight /\ ~DropOccurred(redirect) /\ ~AdvanceF1(redirect, took)
    BY <1>5 DEF AdvanceF0
  <2>2. imem' = {[addr |-> r.addr, branch |-> r.branch,
                  delay |-> IF r.delay = 0 THEN 0 ELSE r.delay - 1] : r \in imem}
    BY <1>1, <1>2, <1>5, <2>1 DEF ImemNext
  <2>3. in_flight' /\ imem' # {}
    BY <1>1, <1>2, <2>1, <2>2
  <2>4. \A r \in imem' : \E q \in imem : r.addr = q.addr
    BY <2>2
  <2>5. ASSUME ~drop_pending' PROVE redirect = {} /\ ~drop_pending
    BY <1>1, <2>1, <2>5 DEF DropOccurred, DropPendingCurr
  <2>6. ~drop_pending' => \A r \in imem' : r.addr = pc'
    BY <1>1, <1>5, <2>4, <2>5 DEF IInv
  <2> QED
    BY <2>3, <2>6 DEF RequestOutstanding
<1> QED
  BY <1>4, <1>5

(* What fetch and decode hold after a cycle.                               *)
LEMMA MessagesAfter ==
  ASSUME IInv, NEW redirect, NEW taken, NEW write, NEW clear,
         FrontendCycle(redirect, taken, write, clear)
  PROVE  AddressIsPc'
<1> DEFINE took == DecodeTakes(redirect, taken)
<1>1. fetched' = FetchedNext(redirect, took) /\ decoded' = DecodedNext(redirect, took, taken)
  BY DEF FrontendCycle
<1>2. took \subseteq fetched
  BY DEF DecodeTakes, FetchPeek
<1> HIDE DEF took
<1>3. \A m \in decoded' : m.addr = m.pc
  BY <1>1, <1>2 DEF DecodedNext, IInv, AddressIsPc
<1>4. ASSUME AdvanceF1(redirect, took) PROVE \A r \in imem : r.addr = pc
  BY <1>4 DEF AdvanceF1, OutputRdy, DropPendingCurr, IInv
<1>5. \A m \in FetchMsgs(redirect) : \E r \in imem : m.addr = r.addr /\ m.pc = pc
  BY DEF FetchMsgs
<1>6. \A m \in fetched' : m.addr = m.pc
  BY <1>1, <1>4, <1>5 DEF FetchedNext, IInv, AddressIsPc
<1> QED
  BY <1>3, <1>6 DEF AddressIsPc

LEMMA NextIInv == IInv /\ [Next]_vars => IInv'
<1> SUFFICES ASSUME IInv, [Next]_vars PROVE IInv'
  OBVIOUS
<1> DEFINE Step == \E redirect, taken, resolved, killed, clear :
                     Cycle(redirect, taken, resolved, killed, clear)
<1>1. ASSUME NEW redirect, NEW taken, NEW resolved, NEW killed, NEW clear,
             Cycle(redirect, taken, resolved, killed, clear)
      PROVE  IInv'
  <2>1. FrontendCycle(redirect, taken, WritesOf(resolved), clear)
    BY <1>1 DEF Cycle
  <2> QED
    BY <2>1, RequestAfter, MessagesAfter DEF IInv
<1>2. CASE Run
  <2>1. Step
    BY <1>2 DEF Run
  <2> QED
    BY <2>1, <1>1
<1>3. ASSUME NEW target \in Pcs, Redirect(target) PROVE IInv'
  <2>1. CASE ResetRedirect(target)
    BY <2>1, <1>1 DEF ResetRedirect
  <2>2. CASE BranchRedirect(target)
    BY <2>2, <1>1 DEF BranchRedirect
  <2>3. CASE CommitRedirect(target)
    BY <2>3, <1>1 DEF CommitRedirect
  <2> QED
    BY <1>3, <2>1, <2>2, <2>3 DEF Redirect
<1>4. CASE UNCHANGED vars
  BY <1>4 DEF vars, fetch, IInv, RequestOutstanding, AddressIsPc
<1> QED
  BY <1>2, <1>3, <1>4 DEF Next

LEMMA SpecIInv == Spec => []IInv
  BY InitIInv, NextIInv, PTL DEF Spec

(* Fetch never loses a request, although it does not look at whether the   *)
(* memory takes it: it sends only when the memory is free.                 *)
THEOREM FrontendRequestOutstanding == Spec => []RequestOutstanding
<1>1. IInv => RequestOutstanding
  BY DEF IInv
<1> QED
  BY SpecIInv, <1>1, PTL

(* No message ever carries the instruction of another program counter,     *)
(* however late the memory answers and however often fetch is redirected.  *)
THEOREM FrontendAddressIsPc == Spec => []AddressIsPc
<1>1. IInv => AddressIsPc
  BY DEF IInv
<1> QED
  BY SpecIInv, <1>1, PTL

------------------------------------------------------------------------------
(* A register holds one message at most.                                   *)
Single(reg) == \A x, y \in reg : x = y

BtbTargets == \A i \in Btb!Regs : \A e \in entries[i] : e.value \in Pcs

(* Once the first redirect is over a request is always out, nothing is     *)
(* held while an answer is to be dropped, and the memory needs no longer   *)
(* than its delay.                                                         *)
SInv ==
  /\ IInv
  /\ pc \in Pcs /\ BtbTargets
  /\ drop_pending \in BOOLEAN
  /\ Single(fetched) /\ Single(decoded) /\ Single(imem)
  /\ drop_pending => fetched = {} /\ decoded = {}
  /\ ~reset_redirect => in_flight
  /\ imem_delay \in Nat
  /\ \A r \in imem : r.delay \in Nat /\ r.delay <= imem_delay

(* The calls of one cycle: a redirect to a program counter or none, and    *)
(* what branches write.                                                    *)
Redirects == {{}} \cup {{t} : t \in Pcs}

Calls(redirect, taken, write) ==
  /\ redirect \in Redirects
  /\ redirect # {} => ~taken
  /\ redirect = {} => in_flight
  /\ \A w \in write : w.value \in Pcs

LEMMA TargetInPcs ==
  ASSUME SInv, NEW redirect \in Redirects
  PROVE  Target(redirect) \in Pcs
<1>1. CASE redirect # {}
  BY <1>1 DEF Redirects, Target
<1>2. CASE redirect = {} /\ Btb!Read(pc) # {}
  <2>1. Btb!Read(pc) \subseteq Pcs
    BY DEF Btb!Read, Btb!LastOf, Btb!Matches, SInv, BtbTargets
  <2> QED
    BY <1>2, <2>1 DEF Target
<1>3. CASE redirect = {} /\ Btb!Read(pc) = {}
  BY <1>3, FrontendAssumption DEF Target, Succ, Pcs, SInv
<1> QED
  BY <1>1, <1>2, <1>3

(* What the buffer holds after a cycle was in it or is written.            *)
LEMMA BtbAfter ==
  ASSUME BtbTargets, NEW write, NEW clear, \A w \in write : w.value \in Pcs,
         Btb!CamCycle(write, clear)
  PROVE  BtbTargets'
<1>1. entries' = [i \in Btb!Regs |-> Btb!EntryNext(write, clear, i)]
  BY DEF Btb!CamCycle
<1>2. ASSUME NEW i \in Btb!Regs, NEW e \in Btb!EntryNext(write, clear, i)
      PROVE  e.value \in Pcs
  BY <1>2 DEF Btb!EntryNext, Btb!Stored, BtbTargets
<1> QED
  BY <1>1, <1>2 DEF BtbTargets, Btb!Regs

(* The registers behind fetch and decode, and the request, after a cycle.  *)
LEMMA SingleAfter ==
  ASSUME SInv, NEW redirect, NEW taken, NEW write, NEW clear,
         Calls(redirect, taken, write), FrontendCycle(redirect, taken, write, clear)
  PROVE  /\ Single(fetched') /\ Single(decoded') /\ Single(imem')
         /\ drop_pending' => fetched' = {} /\ decoded' = {}
         /\ imem_delay' = imem_delay
         /\ \A r \in imem' : r.delay \in Nat /\ r.delay <= imem_delay'
<1> DEFINE took == DecodeTakes(redirect, taken)
<1>1. /\ fetched' = FetchedNext(redirect, took)
      /\ decoded' = DecodedNext(redirect, took, taken)
      /\ imem' = ImemNext(redirect, took) /\ imem_delay' = imem_delay
      /\ drop_pending' = (DropPendingCurr(redirect) /\ ~InputRdy)
  BY DEF FrontendCycle
<1>2. Single(took) /\ (redirect # {} => took = {}) /\ (fetched = {} => took = {})
  BY DEF DecodeTakes, FetchPeek, SInv, Single
<1> HIDE DEF took
<1>3. Single(FetchMsgs(redirect))
  BY DEF FetchMsgs, SInv, Single
<1>4. Single(fetched') /\ Single(decoded')
  BY <1>1, <1>2, <1>3 DEF FetchedNext, DecodedNext, SInv, Single
<1>5. ASSUME drop_pending' PROVE fetched' = {} /\ decoded' = {}
  <2>1. CASE redirect # {}
    BY <1>1, <1>2, <2>1 DEF FetchedNext, DecodedNext
  <2>2. CASE redirect = {}
    <3>1. drop_pending /\ ~OutputRdy(redirect)
      BY <1>1, <1>5, <2>2 DEF DropPendingCurr, OutputRdy
    <3>2. fetched = {} /\ decoded = {} /\ took = {}
      BY <3>1, <1>2 DEF SInv
    <3> QED
      BY <1>1, <2>2, <3>1, <3>2 DEF FetchedNext, DecodedNext, AdvanceF1
  <2> QED
    BY <2>1, <2>2
<1>6. CASE imem' = {[addr |-> Target(redirect), branch |-> Target(redirect) \in branches,
                     delay |-> imem_delay]}
  BY <1>1, <1>4, <1>5, <1>6 DEF SInv, Single
<1>7. CASE imem' = {}
  BY <1>1, <1>4, <1>5, <1>7 DEF Single
<1>8. CASE imem' = {[addr |-> r.addr, branch |-> r.branch,
                     delay |-> IF r.delay = 0 THEN 0 ELSE r.delay - 1] : r \in imem}
  <2>1. Single(imem')
    BY <1>8 DEF SInv, Single
  <2>2. ASSUME NEW q \in imem' PROVE q.delay \in Nat /\ q.delay <= imem_delay
    <3>1. PICK r \in imem : q.delay = IF r.delay = 0 THEN 0 ELSE r.delay - 1
      BY <1>8
    <3>2. r.delay \in Nat /\ r.delay <= imem_delay /\ imem_delay \in Nat
      BY DEF SInv
    <3> QED
      BY <3>1, <3>2
  <2> QED
    BY <1>1, <1>4, <1>5, <2>1, <2>2
<1> QED
  BY <1>1, <1>6, <1>7, <1>8 DEF ImemNext

LEMMA CycleSInv ==
  ASSUME SInv, NEW redirect, NEW taken, NEW write, NEW clear,
         Calls(redirect, taken, write), FrontendCycle(redirect, taken, write, clear)
  PROVE  /\ pc' \in Pcs /\ BtbTargets' /\ drop_pending' \in BOOLEAN
         /\ in_flight'
<1>1. redirect \in Redirects /\ \A w \in write : w.value \in Pcs
  BY DEF Calls
<1>2. pc' \in Pcs
  BY <1>1, TargetInPcs DEF FrontendCycle, SInv
<1>3. BtbTargets'
  BY <1>1, BtbAfter DEF FrontendCycle, SInv
<1>4. drop_pending' \in BOOLEAN
  BY DEF FrontendCycle, DropPendingCurr, InputRdy
<1>5. in_flight'
  BY DEF FrontendCycle, AdvanceF0
<1> QED
  BY <1>2, <1>3, <1>4, <1>5

(* Every step of the front end with its back end is such a cycle.          *)
LEMMA StepsAreCycles ==
  ASSUME SInv, Next
  PROVE  /\ \E redirect, taken, write, clear :
              Calls(redirect, taken, write) /\ FrontendCycle(redirect, taken, write, clear)
         /\ ~reset_redirect'
<1>1. ASSUME NEW resolved \in SUBSET Resolutions, NEW w \in WritesOf(resolved)
      PROVE  w.value \in Pcs
  BY <1>1 DEF WritesOf, Resolutions, Resolved
<1>2. CASE Run
  <2>1. PICK taken, clear \in BOOLEAN,
             resolved \in Optional({r \in Resolutions : ~Mispredicted(r)}) :
               Cycle({}, taken, resolved, {}, clear)
    BY <1>2 DEF Run
  <2>2. resolved \in SUBSET Resolutions
    BY DEF Optional
  <2>3. Calls({}, taken, WritesOf(resolved))
    BY <1>1, <1>2, <2>2 DEF Calls, Redirects, Run, SInv
  <2> QED
    BY <2>1, <2>3 DEF Cycle
<1>3. ASSUME NEW target \in Pcs, NEW resolved \in SUBSET Resolutions, NEW killed, NEW clear,
             Cycle({target}, FALSE, resolved, killed, clear)
      PROVE  /\ Calls({target}, FALSE, WritesOf(resolved))
             /\ FrontendCycle({target}, FALSE, WritesOf(resolved), clear)
             /\ ~reset_redirect'
  BY <1>1, <1>3 DEF Calls, Redirects, Cycle
<1>4. ASSUME NEW target \in Pcs, Redirect(target)
      PROVE  \E resolved \in SUBSET Resolutions : \E killed, clear :
               Cycle({target}, FALSE, resolved, killed, clear)
  <2>1. CASE ResetRedirect(target)
    BY <2>1 DEF ResetRedirect
  <2>2. CASE BranchRedirect(target)
    <3>1. PICK r \in Resolutions, clear \in BOOLEAN, killed \in SUBSET executing :
            Cycle({target}, FALSE, {r}, killed, clear)
      BY <2>2 DEF BranchRedirect
    <3> QED
      BY <3>1
  <2>3. CASE CommitRedirect(target)
    <3>1. PICK fence_i \in BOOLEAN, resolved \in Optional(Resolutions) :
            Cycle({target}, FALSE, resolved, executing, fence_i)
      BY <2>3 DEF CommitRedirect
    <3>2. resolved \in SUBSET Resolutions
      BY DEF Optional
    <3> QED
      BY <3>1, <3>2
  <2> QED
    BY <1>4, <2>1, <2>2, <2>3 DEF Redirect
<1> QED
  BY <1>2, <1>3, <1>4 DEF Next

LEMMA NextSInv == SInv /\ [Next]_vars => SInv'
<1> SUFFICES ASSUME SInv, [Next]_vars PROVE SInv'
  OBVIOUS
<1>1. IInv'
  BY NextIInv DEF SInv
<1>2. CASE Next
  <2>1. PICK redirect, taken, write, clear :
          Calls(redirect, taken, write) /\ FrontendCycle(redirect, taken, write, clear)
    BY <1>2, StepsAreCycles
  <2> QED
    BY <1>1, <2>1, CycleSInv, SingleAfter DEF SInv
<1>3. CASE UNCHANGED vars
  BY <1>1, <1>3 DEF vars, fetch, SInv, Single, BtbTargets, Btb!Regs
<1> QED
  BY <1>2, <1>3

LEMMA InitSInv == Init => SInv
<1> SUFFICES ASSUME Init PROVE SInv
  OBVIOUS
<1>1. BtbTargets
  BY DEF Init, Btb!CamInit, BtbTargets
<1>2. pc \in Pcs
  BY FrontendAssumption DEF Init, Pcs
<1>3. imem_delay \in Nat
  BY FrontendAssumption DEF Init
<1>4. fetched = {} /\ decoded = {} /\ imem = {} /\ drop_pending = FALSE /\ reset_redirect = TRUE
  BY DEF Init
<1>5. Single(fetched) /\ Single(decoded) /\ Single(imem)
  BY <1>4 DEF Single
<1> QED
  BY <1>1, <1>2, <1>3, <1>4, <1>5, InitIInv DEF SInv

LEMMA SpecSInv == Spec => []SInv
  BY InitSInv, NextSInv, PTL DEF Spec

------------------------------------------------------------------------------
(* What the stream sees of a message.                                      *)
Shown(m) == [pc |-> m.pc, pc_succ |-> m.pc_succ]

LEMMA HoldingOne == ASSUME NEW m PROVE Holding({m}) = <<Shown(m)>> /\ Holding({}) = <<>>
  BY DEF Holding, Shown

(* A redirect drops everything; it leaves an answer to be dropped only if  *)
(* the memory takes more than one cycle.                                   *)
LEMMA RedirectRefines ==
  ASSUME SInv, NEW redirect, NEW taken, NEW write, NEW clear, redirect # {},
         Calls(redirect, taken, write), FrontendCycle(redirect, taken, write, clear)
  PROVE  S!Redirect
<1> DEFINE took == DecodeTakes(redirect, taken)
<1>1. took = {}
  BY DEF DecodeTakes, FetchPeek
<1>2. fetched' = {} /\ decoded' = {}
  BY <1>1 DEF FrontendCycle, FetchedNext, DecodedNext
<1>3. Stream' = <<>>
  <2>1. Holding(fetched') = <<>> /\ Holding(decoded') = <<>>
    BY <1>2, HoldingOne
  <2> QED
    BY <2>1 DEF Stream, Holding
<1>4. pc' \in Pcs
  BY CycleSInv
<1>5. drop_pending' \in {FALSE, imem_delay > 1}
  <2>1. SUFFICES ASSUME drop_pending' PROVE imem_delay > 1
    BY CycleSInv
  <2>2. in_flight /\ ~InputRdy
    BY <2>1 DEF FrontendCycle, DropPendingCurr, SInv, IInv
  <2>3. PICK r \in imem : ~(r.delay <= 1)
    BY <2>2 DEF InputRdy, SInv, IInv, RequestOutstanding
  <2> QED
    BY <2>3 DEF SInv
<1> QED
  BY <1>3, <1>4, <1>5 DEF S!Redirect

(* What a register that holds one message at most adds to the stream.      *)
LEMMA HoldingShort ==
  ASSUME NEW reg, Single(reg)
  PROVE  /\ reg = {} => Holding(reg) = <<>>
         /\ reg # {} => \E m \in reg : Holding(reg) = <<Shown(m)>>
<1>1. ASSUME NEW m \in reg PROVE Holding(reg) = <<Shown(m)>>
  <2>1. reg = {m}
    BY DEF Single
  <2> QED
    BY <2>1, HoldingOne
<1> QED
  BY <1>1, HoldingOne

LEMMA PairOfSingles == ASSUME NEW a, NEW b PROVE <<a>> \o <<b>> = <<a, b>>
<1> DEFINE both  == <<a>> \o <<b>>
           pair  == <<a, b>>
           Items == {a, b}
<1>1. <<a>> \in Seq(Items) /\ <<b>> \in Seq(Items) /\ pair \in Seq(Items)
  OBVIOUS
<1>2. both \in Seq(Items) /\ Len(both) = 2 /\ both[1] = a /\ both[2] = b
  BY <1>1
<1>3. Len(pair) = 2 /\ pair[1] = a /\ pair[2] = b
  OBVIOUS
<1> HIDE DEF both, pair, Items
<1>4. ASSUME NEW i \in 1 .. Len(both) PROVE both[i] = pair[i]
  <2>1. i = 1 \/ i = 2
    BY <1>2
  <2> QED
    BY <2>1, <1>2, <1>3
<1>5. both = pair
  BY <1>1, <1>2, <1>3, <1>4, SeqEqual
<1> QED
  BY <1>5 DEF both, pair

LEMMA ShortSequences ==
  ASSUME NEW a, NEW b
  PROVE  /\ <<>> \o <<>> = <<>>
         /\ <<>> \o <<a>> = <<a>> /\ <<a>> \o <<>> = <<a>> /\ <<a>> \o <<b>> = <<a, b>>
         /\ Tail(<<a>>) = <<>> /\ Tail(<<a, b>>) = <<b>>
         /\ Append(<<>>, b) = <<b>> /\ Append(<<a>>, b) = <<a>> \o <<b>>
         /\ Len(<<>>) = 0 /\ Len(<<a>>) = 1
<1>1. <<>> \o <<>> = <<>> /\ <<>> \o <<a>> = <<a>> /\ <<a>> \o <<>> = <<a>>
  OBVIOUS
<1>2. Tail(<<a>>) = <<>> /\ Tail(<<a, b>>) = <<b>> /\ Append(<<>>, b) = <<b>>
  OBVIOUS
<1>3. Append(<<a>>, b) = <<a>> \o <<b>>
  <2> DEFINE Items == {a, b}
  <2>1. <<a>> \in Seq(Items) /\ b \in Items
    OBVIOUS
  <2> HIDE DEF Items
  <2> QED
    BY <2>1, AppendIsConcat
<1>4. Len(<<>>) = 0 /\ Len(<<a>>) = 1
  OBVIOUS
<1> QED
  BY <1>1, <1>2, <1>3, <1>4, PairOfSingles

(* What is left of the stream when decode has taken from fetch and the     *)
(* back end from decode.                                                   *)
LEMMA RestOfStream ==
  ASSUME SInv, NEW taken, NEW took,
         took = DecodeTakes({}, taken), taken => decoded # {}
  PROVE  LET rest == Holding(DecodedNext({}, took, taken))
                       \o Holding(IF took # {} THEN {} ELSE fetched)
         IN  rest = IF taken THEN Tail(Stream) ELSE Stream
<1> DEFINE decodedNext == DecodedNext({}, took, taken)
           kept        == IF took # {} THEN {} ELSE fetched
<1>1. /\ Single(fetched) /\ Single(decoded)
      /\ took = IF decoded = {} \/ taken THEN fetched ELSE {}
      /\ decodedNext = IF took # {} THEN took ELSE IF taken THEN {} ELSE decoded
  BY DEF SInv, DecodeTakes, DecodePeek, FetchPeek, DecodedNext
<1>2. Holding({}) = <<>>
  BY HoldingOne
<1> HIDE DEF decodedNext, kept
<1>3. CASE taken
  <2>1. PICK m \in decoded : Holding(decoded) = <<Shown(m)>>
    BY <1>1, <1>3, HoldingShort
  <2>2. CASE fetched = {}
    <3>1. decodedNext = {} /\ kept = {}
      BY <1>1, <1>3, <2>2 DEF kept
    <3> QED
      BY <1>2, <1>3, <2>1, <2>2, <3>1, ShortSequences DEF Stream, decodedNext, kept
  <2>3. CASE fetched # {}
    <3>1. decodedNext = fetched /\ kept = {}
      BY <1>1, <1>3, <2>3 DEF kept
    <3>2. PICK n \in fetched : Holding(fetched) = <<Shown(n)>>
      BY <1>1, <2>3, HoldingShort
    <3>3. Stream = <<Shown(m), Shown(n)>>
      BY <2>1, <3>2, PairOfSingles DEF Stream
    <3>4. Holding(fetched) \o Holding({}) = Tail(Stream)
      BY <1>2, <3>2, <3>3, ShortSequences
    <3> QED
      BY <1>3, <3>1, <3>4 DEF decodedNext, kept
  <2> QED
    BY <2>2, <2>3
<1>4. CASE ~taken /\ decoded # {}
  <2>1. decodedNext = decoded /\ kept = fetched
    BY <1>1, <1>4 DEF kept
  <2> QED
    BY <1>4, <2>1 DEF Stream, decodedNext, kept
<1>5. CASE ~taken /\ decoded = {} /\ fetched = {}
  <2>1. decodedNext = {} /\ kept = {}
    BY <1>1, <1>5 DEF kept
  <2> QED
    BY <1>5, <2>1 DEF Stream, decodedNext, kept
<1>6. CASE ~taken /\ decoded = {} /\ fetched # {}
  <2>1. decodedNext = fetched /\ kept = {}
    BY <1>1, <1>6 DEF kept
  <2>2. PICK n \in fetched : Holding(fetched) = <<Shown(n)>>
    BY <1>1, <1>6, HoldingShort
  <2> QED
    BY <1>2, <1>6, <2>1, <2>2, ShortSequences DEF Stream, decodedNext, kept
<1> QED
  BY <1>3, <1>4, <1>5, <1>6

(* Without a redirect and with no answer to be dropped, the first message  *)
(* may be delivered and the one at pc be fetched.                          *)
LEMMA AdvanceRefines ==
  ASSUME SInv, NEW taken, NEW write, NEW clear, ~drop_pending,
         Calls({}, taken, write), FrontendCycle({}, taken, write, clear)
  PROVE  S!Advance
<1> DEFINE took == DecodeTakes({}, taken)
           kept == IF took # {} THEN {} ELSE fetched
           rest == Holding(DecodedNext({}, took, taken)) \o Holding(kept)
           left == {Stream} \cup {Tail(s) : s \in {x \in {Stream} : x # <<>>}}
<1>1. /\ in_flight /\ ~DropPendingCurr({}) /\ ~DropOccurred({})
      /\ taken => decoded # {}
      /\ decoded' = DecodedNext({}, took, taken) /\ fetched' = FetchedNext({}, took)
      /\ drop_pending' = FALSE
      /\ pc' = IF AdvanceF1({}, took) THEN Target({}) ELSE pc
  BY DEF Calls, FrontendCycle, DropPendingCurr, DropOccurred, DecodePeek, AdvanceF0
<1>2. rest \in left
  <2>1. CASE taken
    <3>1. PICK m \in decoded : Holding(decoded) = <<Shown(m)>>
      BY <1>1, <2>1, HoldingShort DEF SInv
    <3>2. Holding(fetched) = <<>> \/ \E n : Holding(fetched) = <<Shown(n)>>
      BY HoldingShort DEF SInv
    <3>3. Stream # <<>>
      BY <3>1, <3>2, ShortSequences DEF Stream
    <3>4. rest = Tail(Stream)
      BY <1>1, <2>1, RestOfStream
    <3> QED
      BY <3>3, <3>4
  <2>2. CASE ~taken
    <3>1. rest = IF taken THEN Tail(Stream) ELSE Stream
      BY <1>1, RestOfStream
    <3> QED
      BY <2>2, <3>1
  <2> QED
    BY <2>1, <2>2
<1>3. Single(decoded') /\ pc' \in Pcs
  BY SingleAfter, CycleSInv
<1> HIDE DEF took, left
<1>4. CASE AdvanceF1({}, took)
  <2>1. kept = {}
    BY <1>4 DEF AdvanceF1
  <2>2. PICK r \in imem : TRUE
    BY <1>4 DEF AdvanceF1, OutputRdy, InputRdy
  <2>3. imem = {r}
    BY DEF SInv, Single
  <2> DEFINE m == [pc |-> pc, pc_succ |-> Target({}), addr |-> r.addr, branch |-> r.branch]
  <2>4. fetched' = {m}
    BY <1>1, <1>4, <2>3 DEF FetchedNext, FetchMsgs
  <2>5. Shown(m) = [pc |-> pc, pc_succ |-> pc']
    BY <1>1, <1>4 DEF Shown
  <2> HIDE DEF m
  <2>6. Holding(fetched') = <<[pc |-> pc, pc_succ |-> pc']>>
    BY <2>4, <2>5, HoldingOne
  <2>7. Holding(decoded') = <<>> \/ \E n : Holding(decoded') = <<Shown(n)>>
    BY <1>3, HoldingShort
  <2>8. rest = Holding(decoded') /\ Len(rest) < 2
    <3>1. Holding(kept) = <<>>
      BY <2>1, HoldingOne
    <3>2. rest = Holding(decoded')
      <4>1. rest = Holding(decoded') \o <<>>
        BY <1>1, <3>1
      <4> HIDE DEF rest
      <4> QED
        BY <4>1, <2>7, ShortSequences
    <3>3. Len(Holding(decoded')) < 2
      <4>1. CASE Holding(decoded') = <<>>
        BY <4>1
      <4>2. ASSUME NEW n, Holding(decoded') = <<Shown(n)>> PROVE Len(Holding(decoded')) < 2
        BY <4>2
      <4> QED
        BY <4>1, <4>2, <2>7
    <3> QED
      BY <3>2, <3>3
  <2>9. Stream' = Append(rest, [pc |-> pc, pc_succ |-> pc'])
    BY <2>6, <2>7, <2>8, ShortSequences DEF Stream, Holding
  <2> QED
    BY <1>1, <1>2, <1>3, <2>8, <2>9 DEF S!Advance, left
<1>5. CASE ~AdvanceF1({}, took)
  <2>1. fetched' = kept /\ pc' = pc
    BY <1>1, <1>5 DEF FetchedNext
  <2>2. Stream' = Holding(decoded') \o Holding(fetched')
    BY DEF Stream, Holding
  <2>3. Stream' = rest
    BY <1>1, <2>1, <2>2
  <2> QED
    BY <1>1, <1>2, <2>1, <2>3 DEF S!Advance, left
<1> QED
  BY <1>4, <1>5

(* While an answer is to be dropped nothing is delivered or fetched.       *)
LEMMA SkipRefines ==
  ASSUME SInv, NEW taken, NEW write, NEW clear, drop_pending,
         Calls({}, taken, write), FrontendCycle({}, taken, write, clear)
  PROVE  S!Skip \/ UNCHANGED <<Stream, pc, drop_pending>>
<1> DEFINE took == DecodeTakes({}, taken)
<1>1. fetched = {} /\ decoded = {} /\ in_flight
  BY DEF SInv, Calls
<1>2. took = {} /\ ~AdvanceF1({}, took)
  BY <1>1 DEF DecodeTakes, FetchPeek, AdvanceF1, OutputRdy, DropPendingCurr
<1>3. fetched' = {} /\ decoded' = {}
  BY <1>1, <1>2 DEF FrontendCycle, FetchedNext, DecodedNext
<1>4. Stream' = Stream
  BY <1>1, <1>3 DEF Stream, Holding
<1>5. drop_pending' = ~InputRdy
  BY DEF FrontendCycle, DropPendingCurr
<1>6. CASE InputRdy
  BY <1>4, <1>5, <1>6, CycleSInv DEF S!Skip
<1>7. CASE ~InputRdy
  <2>1. pc' = pc
    BY <1>1, <1>2, <1>7 DEF FrontendCycle, AdvanceF0, DropOccurred
  <2> QED
    BY <1>4, <1>5, <1>7, <2>1 DEF SInv
<1> QED
  BY <1>6, <1>7

(* The front end implements the instruction stream: whatever the memory    *)
(* needs and whenever it is redirected, it skips and repeats nothing,      *)
(* except the first instruction after a redirect that left an answer to be *)
(* dropped.                                                                *)
THEOREM FrontendImplementsStream == Spec => ImplementsStream
<1>1. Init => S!Init
  <2> SUFFICES ASSUME Init PROVE S!Init
    OBVIOUS
  <2>1. Stream = <<>>
    BY HoldingOne, ShortSequences DEF Init, Stream
  <2>2. pc \in Pcs /\ (imem_delay > 1) \in BOOLEAN
    BY InitSInv DEF SInv
  <2> QED
    BY <2>1, <2>2 DEF Init, S!Init
<1>2. SInv /\ [Next]_vars => [S!Next]_<<Stream, pc, imem_delay > 1, drop_pending>>
  <2> SUFFICES ASSUME SInv, [Next]_vars
               PROVE  [S!Next]_<<Stream, pc, imem_delay > 1, drop_pending>>
    OBVIOUS
  <2>1. CASE Next
    <3>1. PICK redirect, taken, write, clear :
            Calls(redirect, taken, write) /\ FrontendCycle(redirect, taken, write, clear)
      BY <2>1, StepsAreCycles
    <3>2. imem_delay' = imem_delay
      BY <3>1 DEF FrontendCycle
    <3>3. CASE redirect # {}
      BY <3>1, <3>2, <3>3, RedirectRefines DEF S!Next
    <3>4. CASE redirect = {} /\ ~drop_pending
      BY <3>1, <3>2, <3>4, AdvanceRefines DEF S!Next
    <3>5. CASE redirect = {} /\ drop_pending
      BY <3>1, <3>2, <3>5, SkipRefines DEF S!Next
    <3> QED
      BY <3>3, <3>4, <3>5
  <2>2. CASE UNCHANGED vars
    BY <2>2 DEF vars, fetch, Stream, Holding
  <2> QED
    BY <2>1, <2>2
<1> QED
  BY <1>1, <1>2, SpecSInv, PTL DEF Spec, ImplementsStream, S!Spec

------------------------------------------------------------------------------
(* What the front end knows of the program: a message has the mark of a    *)
(* branch if there is one, and goes on elsewhere only behind a branch.     *)
Right(m) ==
  /\ m.branch <=> m.pc \in branches
  /\ m.pc_succ # Succ(m.pc) => m.pc \in branches

MarkRight == \A r \in imem : r.branch <=> r.addr \in branches

ProgramKnown ==
  /\ \A i \in Btb!Regs : \A e \in entries[i] : e.key \in branches
  /\ \A b \in executing : b.pc \in branches
  /\ ~drop_pending => MarkRight
  /\ \A m \in fetched \cup decoded : Right(m)

(* The program is known unless it was modified.                            *)
PInv == IInv /\ modified \in BOOLEAN /\ (~modified => ProgramKnown)

(* What the memory is asked next has the mark of the program.  A redirect  *)
(* drops the answer to an older request.                                   *)
LEMMA MarkAfter ==
  ASSUME IInv, NEW redirect, NEW taken, NEW write, NEW clear,
         FrontendCycle(redirect, taken, write, clear), branches' = branches,
         redirect = {} /\ ~drop_pending => MarkRight
  PROVE  ~drop_pending' => MarkRight'
<1> DEFINE took   == DecodeTakes(redirect, taken)
           target == Target(redirect)
<1>1. /\ in_flight' = (in_flight \/ AdvanceF0(redirect, took))
      /\ drop_pending' = (DropPendingCurr(redirect) /\ ~InputRdy)
      /\ imem' = ImemNext(redirect, took)
  BY DEF FrontendCycle
<1>2. in_flight <=> imem # {}
  BY DEF IInv, RequestOutstanding
<1> HIDE DEF took
<1>3. CASE imem' = {[addr |-> target, branch |-> target \in branches, delay |-> imem_delay]}
  <2> DEFINE mark == target \in branches
  <2>1. \A r \in imem' : r.addr = target /\ r.branch = mark
    <3> HIDE DEF mark
    <3>1. imem' = {[addr |-> target, branch |-> mark, delay |-> imem_delay]}
      BY <1>3 DEF mark
    <3> QED
      BY <3>1
  <2> QED
    BY <2>1 DEF MarkRight
<1>4. CASE imem' = {}
  BY <1>4 DEF MarkRight
<1>5. CASE /\ ~(DropOccurred(redirect) \/ (redirect = {} /\ AdvanceF1(redirect, took)))
           /\ imem' = {[addr |-> r.addr, branch |-> r.branch,
                        delay |-> IF r.delay = 0 THEN 0 ELSE r.delay - 1] : r \in imem}
  <2>1. CASE imem = {}
    BY <1>5, <2>1 DEF MarkRight
  <2>2. CASE imem # {}
    <3>1. SUFFICES ASSUME ~drop_pending' PROVE MarkRight'
      OBVIOUS
    <3>2. redirect = {} /\ ~drop_pending
      BY <1>1, <1>2, <1>5, <2>2, <3>1 DEF DropOccurred, DropPendingCurr
    <3>3. \A r \in imem' : \E q \in imem : r.addr = q.addr /\ r.branch = q.branch
      BY <1>5
    <3> QED
      BY <3>2, <3>3 DEF MarkRight
  <2> QED
    BY <2>1, <2>2
<1> QED
  BY <1>1, <1>3, <1>4, <1>5 DEF ImemNext, target

(* Fetch joins the answer with its program counter, and looks the next one *)
(* up in the buffer, which has only branches.                              *)
LEMMA FetchedRight ==
  ASSUME IInv, ProgramKnown, NEW redirect, NEW took, took \subseteq fetched
  PROVE  \A m \in FetchedNext(redirect, took) : Right(m)
<1> SUFFICES ASSUME redirect = {}, AdvanceF1(redirect, took), NEW m \in FetchMsgs(redirect)
             PROVE  Right(m)
  BY DEF FetchedNext, ProgramKnown
<1>1. ~drop_pending
  BY DEF AdvanceF1, OutputRdy, DropPendingCurr
<1>2. PICK r \in imem : m = [pc |-> pc, pc_succ |-> Target(redirect), addr |-> r.addr,
                             branch |-> r.branch]
  BY DEF FetchMsgs
<1>3. r.addr = pc /\ (r.branch <=> pc \in branches)
  BY <1>1 DEF IInv, ProgramKnown, MarkRight
<1>4. ASSUME Target(redirect) # Succ(pc) PROVE pc \in branches
  <2>1. Btb!Read(pc) # {}
    BY <1>4 DEF Target
  <2>2. PICK i \in Btb!Regs : \E e \in entries[i] : e.key = pc
    BY <2>1 DEF Btb!Read, Btb!LastOf, Btb!Matches
  <2> QED
    BY <2>2 DEF ProgramKnown
<1> QED
  BY <1>2, <1>3, <1>4 DEF Right

(* A cycle in which the program stays as it is.                            *)
LEMMA KnownAfter ==
  ASSUME IInv, ProgramKnown, NEW redirect, NEW taken, NEW resolved \in SUBSET Resolutions,
         NEW killed, NEW clear, Cycle(redirect, taken, resolved, killed, clear),
         branches' = branches
  PROVE  ProgramKnown'
<1> DEFINE took  == DecodeTakes(redirect, taken)
           write == WritesOf(resolved)
<1>1. /\ FrontendCycle(redirect, taken, write, clear)
      /\ executing' = (executing \ ({r.branch : r \in resolved} \cup killed))
                        \cup Accepted(redirect, taken)
  BY DEF Cycle
<1>2. /\ fetched' = FetchedNext(redirect, took) /\ decoded' = DecodedNext(redirect, took, taken)
      /\ entries' = [i \in Btb!Regs |-> Btb!EntryNext(write, clear, i)]
  BY <1>1 DEF FrontendCycle, Btb!CamCycle
<1>3. took \subseteq fetched
  BY DEF DecodeTakes, FetchPeek
<1>4. \A w \in write : w.key \in branches
  BY DEF WritesOf, Resolutions, Resolved, ProgramKnown
<1> HIDE DEF took, write
<1>5. \A i \in Btb!Regs : \A e \in entries'[i] : e.key \in branches'
  <2> SUFFICES ASSUME NEW i \in Btb!Regs, NEW e \in Btb!EntryNext(write, clear, i)
               PROVE  e.key \in branches
    BY <1>2
  <2> QED
    BY <1>4 DEF Btb!EntryNext, Btb!Stored, ProgramKnown
<1>6. \A b \in executing' : b.pc \in branches'
  <2> SUFFICES ASSUME NEW b \in executing' PROVE b.pc \in branches
    OBVIOUS
  <2>1. CASE b \in executing
    BY <2>1 DEF ProgramKnown
  <2>2. CASE b \in Accepted(redirect, taken)
    BY <2>2 DEF Accepted, DecodePeek, ProgramKnown, Right
  <2> QED
    BY <1>1, <2>1, <2>2
<1>7. ~drop_pending' => MarkRight'
  BY <1>1, MarkAfter DEF ProgramKnown
<1>8. \A m \in fetched' \cup decoded' : Right(m)
  <2>1. \A m \in decoded' : Right(m)
    BY <1>2, <1>3 DEF DecodedNext, ProgramKnown
  <2>2. \A m \in fetched' : Right(m)
    BY <1>2, <1>3, FetchedRight
  <2> QED
    BY <2>1, <2>2
<1>9. \A m \in fetched' \cup decoded' : Right(m)'
  BY <1>8 DEF Right
<1> QED
  BY <1>5, <1>6, <1>7, <1>9, <1>2 DEF ProgramKnown, Btb!Regs

(* After a FENCE.I nothing of the old program is left.                     *)
LEMMA FenceForgets ==
  ASSUME IInv, NEW target, NEW resolved, Cycle({target}, FALSE, resolved, executing, TRUE),
         branches' = branches
  PROVE  ProgramKnown'
<1>1. /\ FrontendCycle({target}, FALSE, WritesOf(resolved), TRUE)
      /\ executing' = (executing \ ({r.branch : r \in resolved} \cup executing))
                        \cup Accepted({target}, FALSE)
  BY DEF Cycle
<1>2. executing' = {}
  BY <1>1 DEF Accepted
<1>3. \A i \in Btb!Regs : entries'[i] = {}
  BY <1>1 DEF FrontendCycle, Btb!CamCycle, Btb!EntryNext
<1>4. DecodeTakes({target}, FALSE) = {}
  BY DEF DecodeTakes, FetchPeek
<1>5. fetched' = {} /\ decoded' = {}
  BY <1>1, <1>4 DEF FrontendCycle, FetchedNext, DecodedNext
<1>6. ~drop_pending' => MarkRight'
  BY <1>1, MarkAfter
<1> QED
  BY <1>2, <1>3, <1>5, <1>6 DEF ProgramKnown, Btb!Regs

(* Every step keeps what is known of the program: the buffer and the      *)
(* messages change by FrontendCycle only, and a FENCE.I empties both.      *)
LEMMA NextPInv == PInv /\ [Next]_vars => PInv'
<1> SUFFICES ASSUME PInv, [Next]_vars PROVE PInv'
  OBVIOUS
<1>1. IInv /\ IInv' /\ modified \in BOOLEAN /\ (~modified => ProgramKnown)
  BY NextIInv DEF PInv
<1>2. ASSUME NEW redirect, NEW taken, NEW resolved \in SUBSET Resolutions, NEW killed, NEW clear,
             Cycle(redirect, taken, resolved, killed, clear), branches' = branches,
             ~modified
      PROVE  ProgramKnown'
  BY <1>1, <1>2, KnownAfter
<1>3. CASE Run
  <2>1. PICK taken, clear \in BOOLEAN,
             resolved \in Optional({r \in Resolutions : ~Mispredicted(r)}) :
               Cycle({}, taken, resolved, {}, clear)
    BY <1>3 DEF Run
  <2>2. resolved \in SUBSET Resolutions
    BY DEF Optional
  <2>3. CASE modified' = TRUE
    BY <1>1, <2>3 DEF PInv
  <2>4. CASE UNCHANGED <<branches, modified>>
    BY <1>1, <1>2, <2>1, <2>2, <2>4 DEF PInv
  <2> QED
    BY <1>3, <2>3, <2>4 DEF Run
<1>4. ASSUME NEW target \in Pcs, ResetRedirect(target) PROVE PInv'
  <2>1. Cycle({target}, FALSE, {}, {}, FALSE) /\ UNCHANGED <<branches, modified>>
    BY <1>4 DEF ResetRedirect
  <2> QED
    BY <1>1, <1>2, <2>1 DEF PInv
<1>5. ASSUME NEW target \in Pcs, BranchRedirect(target) PROVE PInv'
  <2>1. PICK r \in Resolutions, clear \in BOOLEAN, killed \in SUBSET executing :
          Cycle({target}, FALSE, {r}, killed, clear)
    BY <1>5 DEF BranchRedirect
  <2>2. UNCHANGED <<branches, modified>>
    BY <1>5 DEF BranchRedirect
  <2>3. {r} \in SUBSET Resolutions
    OBVIOUS
  <2>4. ~modified => ProgramKnown'
    BY <1>2, <2>1, <2>2, <2>3
  <2> QED
    BY <1>1, <2>2, <2>4 DEF PInv
<1>6. ASSUME NEW target \in Pcs, CommitRedirect(target) PROVE PInv'
  <2>1. PICK fence_i \in BOOLEAN, resolved \in Optional(Resolutions) :
          /\ Cycle({target}, FALSE, resolved, executing, fence_i)
          /\ modified' = (modified /\ ~fence_i)
    BY <1>6 DEF CommitRedirect
  <2>2. resolved \in SUBSET Resolutions /\ branches' = branches
    BY <1>6 DEF Optional, CommitRedirect
  <2>3. CASE fence_i = TRUE
    BY <1>1, <2>1, <2>2, <2>3, FenceForgets DEF PInv
  <2>4. CASE fence_i = FALSE
    <3>1. ~modified => ProgramKnown'
      BY <1>2, <2>1, <2>2
    <3>2. modified' = modified
      BY <1>1, <2>1, <2>4
    <3> QED
      BY <1>1, <3>1, <3>2 DEF PInv
  <2> QED
    BY <2>3, <2>4
<1>7. CASE UNCHANGED vars
  <2>1. UNCHANGED <<modified, branches, entries, executing, drop_pending, imem, fetched, decoded>>
    BY <1>7 DEF vars, fetch
  <2>2. ProgramKnown => ProgramKnown'
    BY <2>1 DEF ProgramKnown, MarkRight, Right, Btb!Regs
  <2> QED
    BY <1>1, <2>1, <2>2 DEF PInv
<1> QED
  BY <1>3, <1>4, <1>5, <1>6, <1>7 DEF Next, Redirect

(* Nothing is in flight after reset.                                       *)
LEMMA InitPInv == Init => PInv
<1> SUFFICES ASSUME Init PROVE PInv
  OBVIOUS
<1>1. /\ fetched = {} /\ decoded = {} /\ imem = {} /\ executing = {} /\ modified = FALSE
      /\ \A i \in Btb!Regs : entries[i] = {}
  BY DEF Init, Btb!CamInit
<1> QED
  BY <1>1, InitIInv DEF PInv, ProgramKnown, MarkRight

(* Only branches are predicted to go elsewhere, for every size of the      *)
(* buffer and any delay of the memory, until the program is modified and   *)
(* again after a FENCE.I (fetch.py, cam.py, controlflow.py).               *)
THEOREM FrontendPredictsOnlyBranches == Spec => []PredictsOnlyBranches
<1>1. PInv => PredictsOnlyBranches
  BY DEF PInv, ProgramKnown, Right, PredictsOnlyBranches
<1> QED
  BY InitPInv, NextPInv, <1>1, PTL DEF Spec
=============================================================================
