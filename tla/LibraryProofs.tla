---------------------------- MODULE LibraryProofs ----------------------------
(* Proofs about the components the core is built from: the target buffer,  *)
(* for every number of entries and all keys; the overlap checker, for      *)
(* every width of addresses and every longest access; what the issue       *)
(* queue promises to those around it, a list, for every number of slots;   *)
(* and the multiply and divide pipe, for every number of stages and of     *)
(* cycles, and whatever its units do with their registers.                 *)
EXTENDS Cam, OverlapUnit, PipelineProofs, IssueQueueList, IssueQueueProofs, MPipe

IInv == CamTypeOK /\ NoDuplicates

(* The writes that one cycle may see.                                      *)
Calls == {{}} \cup {{w} : w \in Writes}

(* An empty buffer has no key twice.                                       *)
LEMMA InitIInv == CamInit => IInv
  BY CamAssumption DEF CamInit, IInv, CamTypeOK, NoDuplicates, Regs

(* The last of a set of entries is one entry.                              *)
LEMMA LastIsOne ==
  ASSUME NEW S \in SUBSET Regs, NEW i \in LastOf(S), NEW j \in LastOf(S)
  PROVE  i = j /\ i \in S
  BY DEF LastOf, Regs

(* A write goes to one entry, and no other entry has its key.              *)
LEMMA WrittenIsOnly ==
  ASSUME IInv, NEW w \in Writes, NEW i \in WrittenRegs(w)
  PROVE  /\ i \in Regs
         /\ \A j \in WrittenRegs(w) : j = i
         /\ \A j \in Regs : \A e \in entries[j] : e.key = w.key => j = i
<1>1. Matches(w.key) \in SUBSET Regs /\ Invalid \in SUBSET Regs
  BY DEF Matches, Invalid
<1>2. CASE Overwrites(w)
  <2>1. WrittenRegs(w) = {overwrite_counter} /\ Matches(w.key) = {}
    BY <1>2 DEF WrittenRegs, Overwrites
  <2> QED
    BY <2>1 DEF IInv, CamTypeOK, Matches
<1>3. CASE ~Overwrites(w) /\ Matches(w.key) # {}
  <2>1. WrittenRegs(w) = LastOf(Matches(w.key))
    BY <1>3 DEF WrittenRegs
  <2>2. i \in Matches(w.key) /\ \A j \in WrittenRegs(w) : j = i
    BY <1>1, <2>1, LastIsOne
  <2>3. PICK d \in entries[i] : d.key = w.key
    BY <2>2 DEF Matches
  <2> QED
    BY <1>1, <2>2, <2>3 DEF IInv, NoDuplicates
<1>4. CASE ~Overwrites(w) /\ Matches(w.key) = {}
  <2>1. WrittenRegs(w) = LastOf(Invalid)
    BY <1>4 DEF WrittenRegs, LastOf
  <2>2. i \in Invalid /\ \A j \in WrittenRegs(w) : j = i
    BY <1>1, <2>1, LastIsOne
  <2> QED
    BY <1>1, <1>4, <2>2 DEF Matches
<1> QED
  BY <1>2, <1>3, <1>4

(* What a cycle leaves in an entry was in it before or is what is written. *)
LEMMA CycleIInv ==
  ASSUME IInv, NEW write \in Calls, NEW clear \in BOOLEAN, CamCycle(write, clear)
  PROVE  IInv'
<1>1. entries' = [i \in Regs |-> EntryNext(write, clear, i)]
  BY DEF CamCycle
<1>2. overwrite_counter' \in Regs
  BY CamAssumption DEF CamCycle, CounterNext, IInv, CamTypeOK, Regs
<1>3. CASE clear
  BY <1>1, <1>2, <1>3 DEF EntryNext, IInv, CamTypeOK, NoDuplicates
<1>4. CASE ~clear /\ write = {}
  <2>1. entries' = [i \in Regs |-> entries[i]]
    BY <1>1, <1>4 DEF EntryNext
  <2>2. entries' = entries
    BY <2>1 DEF IInv, CamTypeOK
  <2> QED
    BY <2>2, <1>2 DEF IInv, CamTypeOK, NoDuplicates
<1>5. CASE ~clear /\ write # {}
  <2>1. PICK w \in Writes : write = {w}
    BY <1>5 DEF Calls
  <2>2. \A i \in Regs : entries'[i] = IF i \in WrittenRegs(w) THEN Stored(w) ELSE entries[i]
    BY <1>1, <1>5, <2>1 DEF EntryNext
  <2>3. [key |-> w.key, value |-> w.value] \in Pairs
    BY DEF Writes, Pairs
  <2>4. Stored(w) \in {{}} \cup {{p} : p \in Pairs} /\ \A e \in Stored(w) : e.key = w.key
    BY <2>3 DEF Stored
  <2>5. entries' \in [Regs -> {{}} \cup {{p} : p \in Pairs}]
    BY <1>1, <2>2, <2>4 DEF IInv, CamTypeOK
  <2>6. ASSUME NEW i \in Regs, NEW j \in Regs, NEW d \in entries'[i], NEW e \in entries'[j],
               d.key = e.key
        PROVE  i = j
    <3>1. CASE i \in WrittenRegs(w) /\ j \in WrittenRegs(w)
      BY <3>1, WrittenIsOnly
    <3>2. CASE i \in WrittenRegs(w) /\ j \notin WrittenRegs(w)
      BY <3>2, <2>2, <2>4, <2>6, WrittenIsOnly
    <3>3. CASE i \notin WrittenRegs(w) /\ j \in WrittenRegs(w)
      BY <3>3, <2>2, <2>4, <2>6, WrittenIsOnly
    <3>4. CASE i \notin WrittenRegs(w) /\ j \notin WrittenRegs(w)
      BY <3>4, <2>2, <2>6 DEF IInv, NoDuplicates
    <3> QED
      BY <3>1, <3>2, <3>3, <3>4
  <2> QED
    BY <1>2, <2>5, <2>6 DEF IInv, CamTypeOK, NoDuplicates
<1> QED
  BY <1>3, <1>4, <1>5

(* The invariant of the buffer.                                            *)
LEMMA SpecIInv == CamSpec => []IInv
<1>1. IInv /\ [CamNext]_<<entries, overwrite_counter>> => IInv'
  <2> SUFFICES ASSUME IInv, [CamNext]_<<entries, overwrite_counter>> PROVE IInv'
    OBVIOUS
  <2>1. CASE CamNext
    BY <2>1, CycleIInv DEF CamNext, Calls
  <2>2. CASE UNCHANGED <<entries, overwrite_counter>>
    BY <2>2 DEF IInv, CamTypeOK, NoDuplicates, Regs, Pairs
  <2> QED
    BY <2>1, <2>2
<1> QED
  BY InitIInv, <1>1, PTL DEF CamSpec

(* No key is ever in two entries of the branch target buffer, whatever is  *)
(* written, removed and cleared in which order.                            *)
THEOREM CamNoDuplicates == CamSpec => []NoDuplicates
<1>1. IInv => NoDuplicates
  BY DEF IInv
<1> QED
  BY SpecIInv, <1>1, PTL

(* Each entry holds at most one pair, and the counter names an entry.      *)
THEOREM CamTypeCorrect == CamSpec => []CamTypeOK
<1>1. IInv => CamTypeOK
  BY DEF IInv
<1> QED
  BY SpecIInv, <1>1, PTL

(* When no entry is invalid, there are as many pairs as entries.           *)
LEMMA FullWhenAllValid ==
  ASSUME IInv, Invalid = {}
  PROVE  Cardinality(Cached) = NRegs
<1> DEFINE pair == [i \in Regs |-> CHOOSE p \in Pairs : entries[i] = {p}]
<1>1. \A i \in Regs : \E p \in Pairs : entries[i] = {p}
  BY DEF IInv, CamTypeOK, Invalid
<1>2. \A i \in Regs : pair[i] \in Pairs /\ entries[i] = {pair[i]}
  BY <1>1
<1> HIDE DEF pair
<1>3. pair \in Bijection(Regs, Cached)
  <2>1. pair \in [Regs -> Cached]
    BY <1>2 DEF Cached, pair
  <2>2. ASSUME NEW i \in Regs, NEW j \in Regs, pair[i] = pair[j] PROVE i = j
    BY <1>2, <2>2 DEF IInv, NoDuplicates
  <2>3. ASSUME NEW p \in Cached PROVE \E i \in Regs : pair[i] = p
    BY <1>2, <2>3 DEF Cached
  <2> QED
    BY <2>1, <2>2, <2>3 DEF Bijection, Injection, Surjection, IsInjective
<1>4. IsFiniteSet(Regs) /\ Cardinality(Regs) = NRegs
  <2>1. 0 \in Int /\ NRegs - 1 \in Int /\ NRegs >= 1 /\ NRegs \in Nat
    BY CamAssumption
  <2> QED
    BY <2>1, FS_Interval DEF Regs
<1> QED
  BY <1>3, <1>4, FS_Bijection DEF ExistsBijection

(* A write replaces what is in the entry that it goes to, and nothing else *)
(* has its key.                                                            *)
LEMMA WriteReplaces ==
  ASSUME IInv, NEW w \in Writes, NEW r \in WrittenRegs(w), CamCycle({w}, FALSE)
  PROVE  /\ Cached' = (Cached \ entries[r]) \cup Stored(w)
         /\ C!Others(w.key) \ entries[r] = Cached \ entries[r]
<1>1. /\ r \in Regs
      /\ \A j \in WrittenRegs(w) : j = r
      /\ \A j \in Regs : \A e \in entries[j] : e.key = w.key => j = r
  BY WrittenIsOnly
<1>2. \A i \in Regs : entries'[i] = IF i = r THEN Stored(w) ELSE entries[i]
  BY <1>1 DEF CamCycle, EntryNext
<1>3. \A i \in Regs : i # r => entries[i] \ entries[r] = entries[i]
  BY <1>1 DEF IInv, NoDuplicates
<1>4. Cached' = UNION {entries'[i] : i \in Regs}
  BY DEF Cached, Regs
<1>5. Cached' = (Cached \ entries[r]) \cup Stored(w)
  BY <1>1, <1>2, <1>3, <1>4 DEF Cached
<1>6. \A p \in Cached \ entries[r] : p.key # w.key
  BY <1>1 DEF Cached
<1> QED
  BY <1>5, <1>6 DEF C!Others

(* The cache counts as we do.                                              *)
LEMMA SameCount == ASSUME NEW S PROVE C!Cardinality(S) = Cardinality(S)
  BY DEF C!Cardinality, Cardinality

(* One cycle is one step of the cache, or none.                            *)
LEMMA CycleIsCacheStep ==
  ASSUME IInv, NEW write \in Calls, NEW clear \in BOOLEAN, CamCycle(write, clear)
  PROVE  C!Next \/ Cached' = Cached
<1>1. entries' = [i \in Regs |-> EntryNext(write, clear, i)]
  BY DEF CamCycle
<1>2. Cached' = UNION {entries'[i] : i \in Regs}
  BY DEF Cached, Regs
<1>3. CASE clear
  <2>1. Cached' = {}
    BY <1>1, <1>2, <1>3 DEF EntryNext
  <2> QED
    BY <2>1 DEF C!Next, C!Clear
<1>4. CASE ~clear /\ \A w \in write : WrittenRegs(w) = {}
  <2>1. \A i \in Regs : entries'[i] = entries[i]
    BY <1>1, <1>4 DEF EntryNext
  <2>2. Cached' = Cached
    BY <2>1, <1>2 DEF Cached
  <2> QED
    BY <2>2
<1>5. CASE ~clear /\ \E w \in write : WrittenRegs(w) # {}
  <2>1. PICK w \in Writes : write = {w} /\ WrittenRegs(w) # {}
    BY <1>5 DEF Calls
  <2>2. PICK r \in WrittenRegs(w) : TRUE
    BY <2>1
  <2>3. CamCycle({w}, FALSE)
    BY <1>5, <2>1
  <2>4. /\ Cached' = (Cached \ entries[r]) \cup Stored(w)
        /\ C!Others(w.key) \ entries[r] = Cached \ entries[r]
    BY <2>2, <2>3, WriteReplaces
  <2>5. r \in Regs /\ w.key \in Keys /\ w.value \in Values /\ w.remove \in BOOLEAN
    BY <2>2, WrittenIsOnly DEF Writes
  <2>6. ASSUME NEW p \in entries[r], p.key = w.key
        PROVE  C!Others(w.key) = Cached \ entries[r]
    <3>1. entries[r] = {p} /\ p \notin C!Others(w.key)
      BY <2>5, <2>6 DEF IInv, CamTypeOK, C!Others
    <3> QED
      BY <3>1, <2>4
  <2>7. CASE w.remove
    <3>1. Matches(w.key) # {} /\ r \in LastOf(Matches(w.key))
      BY <2>1, <2>2, <2>7 DEF WrittenRegs, Overwrites
    <3>2. PICK p \in entries[r] : p.key = w.key
      BY <3>1 DEF LastOf, Matches
    <3>3. Cached' = C!Others(w.key)
      BY <2>4, <2>6, <2>7, <3>2 DEF Stored
    <3> QED
      BY <2>5, <3>3 DEF C!Next, C!Remove
  <2>8. CASE ~w.remove
    <3>1. Stored(w) = {[key |-> w.key, value |-> w.value]}
      BY <2>8 DEF Stored
    <3>2. SUFFICES C!Write(w.key, w.value)
      BY <2>5 DEF C!Next
    <3>3. C!Cardinality({}) = 0
      BY FS_EmptySet, SameCount
    <3>4. CASE Matches(w.key) # {}
      <4>1. r \in LastOf(Matches(w.key))
        BY <2>2, <3>4 DEF WrittenRegs, Overwrites
      <4>2. PICK p \in entries[r] : p.key = w.key
        BY <4>1 DEF LastOf, Matches
      <4>3. Cached' = (C!Others(w.key) \ {}) \cup {[key |-> w.key, value |-> w.value]}
        BY <2>4, <2>6, <3>1, <4>2
      <4> QED
        BY <4>3, <3>3 DEF C!Write
    <3>5. CASE Matches(w.key) = {}
      <4>1. C!Others(w.key) = Cached
        BY <3>5 DEF C!Others, Cached, Matches
      <4>2. CASE Invalid # {}
        <5>1. r \in LastOf(Invalid)
          BY <2>2, <2>8, <3>5, <4>2 DEF WrittenRegs, Overwrites
        <5>2. entries[r] = {}
          BY <5>1 DEF LastOf, Invalid
        <5>3. Cached' = (C!Others(w.key) \ {}) \cup {[key |-> w.key, value |-> w.value]}
          BY <2>4, <3>1, <4>1, <5>2
        <5> QED
          BY <5>3, <3>3 DEF C!Write
      <4>3. CASE Invalid = {}
        <5>1. PICK p \in Pairs : entries[r] = {p}
          BY <2>5, <4>3 DEF IInv, CamTypeOK, Invalid
        <5>2. C!Cardinality({p}) = 1 /\ C!Cardinality(Cached) = NRegs
          BY <4>3, FullWhenAllValid, FS_Singleton, SameCount
        <5>3. {p} \in SUBSET C!Others(w.key)
          BY <2>5, <4>1, <5>1 DEF Cached
        <5>4. Cached' = (C!Others(w.key) \ {p}) \cup {[key |-> w.key, value |-> w.value]}
          BY <2>4, <3>1, <4>1, <5>1
        <5> QED
          BY <4>1, <5>2, <5>3, <5>4 DEF C!Write
      <4> QED
        BY <4>2, <4>3
    <3> QED
      BY <3>4, <3>5
  <2> QED
    BY <2>7, <2>8
<1> QED
  BY <1>3, <1>4, <1>5

LEMMA CamStepRefines ==
  IInv /\ [CamNext]_<<entries, overwrite_counter>> => [C!Next]_Cached
<1> SUFFICES ASSUME IInv, [CamNext]_<<entries, overwrite_counter>>
             PROVE  C!Next \/ Cached' = Cached
  OBVIOUS
<1>1. CASE CamNext
  BY <1>1, CycleIsCacheStep DEF CamNext, Calls
<1>2. CASE UNCHANGED <<entries, overwrite_counter>>
  BY <1>2 DEF Cached, Regs
<1> QED
  BY <1>1, <1>2

LEMMA CamInitRefines == CamInit => C!Init
  BY DEF CamInit, C!Init, Cached

(* The branch target buffer is a cache, for every number of entries: what  *)
(* it holds was written last for its key, and a write makes it forget one  *)
(* other key at most, and that only when every entry is taken.             *)
THEOREM BufferImplementsCache == CamSpec => ImplementsCache
  BY CamInitRefines, CamStepRefines, SpecIInv, PTL DEF CamSpec, ImplementsCache, C!Spec

------------------------------------------------------------------------------
(* The arguments are within their widths.                                  *)
OverlapTypeOK == check \in [base_a : Base, size_a : Size, base_b : Base, size_b : Size]

(* An end that stays within the address space is not cut.                  *)
LEMMA EndIsExact ==
  ASSUME NEW base \in Base, NEW size \in Size, base + size < AddressSpace
  PROVE  End(base, size) = base + size
<1>1. AddressSpace \in Nat /\ max_size \in Nat
  BY OverlapAssumption
<1>2. base \in Nat /\ size \in Nat
  BY <1>1 DEF Base, Size
<1>3. DEFINE n == base + size
<1>4. n \in Nat /\ n < AddressSpace
  BY <1>2
<1>5. n % AddressSpace = n
  BY <1>1, <1>4
<1> QED
  BY <1>5 DEF End

(* Two accesses share a byte exactly if the first byte of one of them is   *)
(* a byte of the other.                                                    *)
LEMMA BytesMeet ==
  ASSUME NEW base_a \in Nat, NEW base_b \in Nat,
         NEW size_a \in Nat \ {0}, NEW size_b \in Nat \ {0}
  PROVE  BytesAt(base_a, size_a) \cap BytesAt(base_b, size_b) # {}
           <=> \/ base_a >= base_b /\ base_a < base_b + size_b
               \/ base_b >= base_a /\ base_b < base_a + size_a
<1>1. ASSUME NEW x \in BytesAt(base_a, size_a) \cap BytesAt(base_b, size_b)
      PROVE  \/ base_a >= base_b /\ base_a < base_b + size_b
             \/ base_b >= base_a /\ base_b < base_a + size_a
  <2>1. /\ x \in Int /\ base_a <= x /\ x <= base_a + size_a - 1
        /\ base_b <= x /\ x <= base_b + size_b - 1
    BY <1>1 DEF BytesAt
  <2> QED
    BY <2>1
<1>2. ASSUME base_a >= base_b, base_a < base_b + size_b
      PROVE  base_a \in BytesAt(base_a, size_a) \cap BytesAt(base_b, size_b)
  BY <1>2 DEF BytesAt
<1>3. ASSUME base_b >= base_a, base_b < base_a + size_a
      PROVE  base_b \in BytesAt(base_a, size_a) \cap BytesAt(base_b, size_b)
  BY <1>3 DEF BytesAt
<1> QED
  BY <1>1, <1>2, <1>3

(* One call, whatever its arguments.                                       *)
LEMMA TypesImplyExact == OverlapTypeOK => OverlapExact
<1> SUFFICES ASSUME OverlapTypeOK PROVE OverlapExact
  OBVIOUS
<1> DEFINE base_a == check.base_a
           size_a == check.size_a
           base_b == check.base_b
           size_b == check.size_b
<1>1. base_a \in Base /\ base_b \in Base /\ size_a \in Size /\ size_b \in Size
  BY DEF OverlapTypeOK
<1>2. SUFFICES ASSUME size_a # 0, size_b # 0,
                      base_a + size_a < AddressSpace, base_b + size_b < AddressSpace
               PROVE  /\ Disjoint(base_a, size_a, base_b, size_b)
                           <=> BytesAt(base_a, size_a) \cap BytesAt(base_b, size_b) = {}
                      /\ DisjointFL(base_a, size_a, base_b, size_b)
                           <=> Disjoint(base_a, size_a, base_b, size_b)
  BY DEF OverlapExact
<1>3. /\ base_a \in Nat /\ base_b \in Nat
      /\ size_a \in Nat \ {0} /\ size_b \in Nat \ {0}
  BY <1>1, <1>2, OverlapAssumption DEF Base, Size
<1> HIDE DEF base_a, size_a, base_b, size_b
<1>4. End(base_a, size_a) = base_a + size_a /\ End(base_b, size_b) = base_b + size_b
  BY <1>1, <1>2, EndIsExact
<1>5. Disjoint(base_a, size_a, base_b, size_b)
        <=> BytesAt(base_a, size_a) \cap BytesAt(base_b, size_b) = {}
  BY <1>3, <1>4, BytesMeet DEF Disjoint
<1>6. DisjointFL(base_a, size_a, base_b, size_b)
        <=> Disjoint(base_a, size_a, base_b, size_b)
  BY <1>3, <1>4 DEF Disjoint, DisjointFL
<1> QED
  BY <1>5, <1>6

(* The checker of overlap_checker.py answers exactly, whatever the width   *)
(* of the addresses, for all accesses that end within the address space.   *)
THEOREM CheckerExact == OverlapSpec => []OverlapExact
<1>1. OverlapInit => OverlapTypeOK
  BY DEF OverlapInit, OverlapTypeOK
<1>2. OverlapTypeOK /\ [OverlapNext]_check => OverlapTypeOK'
  BY DEF OverlapTypeOK, OverlapNext
<1> QED
  BY <1>1, <1>2, TypesImplyExact, PTL DEF OverlapSpec

------------------------------------------------------------------------------
(* The issue queue is a list.                                              *)

(* What the slots hold, slot 0 first.                                      *)
Used(sl) == {k \in Idx : sl[k] # {}}

Contents(sl) == [i \in 1 .. Cardinality(Used(sl)) |-> The(sl[Nth(Used(sl), i)])]

OneEach(sl) == \A k \in Idx : Good(sl[k])

(* The used slots are finitely many.                                       *)
LEMMA UsedType ==
  ASSUME NEW sl
  PROVE  /\ Used(sl) \in SUBSET Int /\ IsFiniteSet(Used(sl))
         /\ Cardinality(Used(sl)) \in Nat
<1>1. Idx \in SUBSET Int /\ IsFiniteSet(Idx)
  <2>1. NumSlots \in Int
    BY IssueQueueAssumption
  <2>2. IsFiniteSet(0 .. NumSlots - 1) /\ 0 .. NumSlots - 1 \in SUBSET Int
    BY <2>1, FS_Interval
  <2> QED
    BY <2>2 DEF Idx
<1>2. Used(sl) \in SUBSET Idx
  BY DEF Used
<1> QED
  BY <1>1, <1>2, FS_Subset, FS_CardinalityType

(* The contents are given by any enumeration of the used slots.            *)
LEMMA ContentsIs ==
  ASSUME NEW sl, NEW n, NEW g, Enumerates(g, n, Used(sl))
  PROVE  Contents(sl) = [i \in 1 .. n |-> The(sl[g[i]])]
<1>1. Cardinality(Used(sl)) = n /\ \A i \in 1 .. n : Nth(Used(sl), i) = g[i]
  BY EnumeratesNth, UsedType
<1> QED
  BY <1>1, Zenon DEF Contents

(* What refines the list is the contents of the slots.                     *)
LEMMA OccupantsAre == Occupants = Contents(slots)
BY Zenon DEF Occupants, Contents, Used, The

(* The one entry of a slot, and what it is under a kill and a notification. *)
LEMMA TheIs ==
  ASSUME NEW S, Good(S), NEW e \in S
  PROVE  The(S) = e /\ S = {e} /\ e \in EntryType
BY DEF Good, The

Mark(e, tags) == [e EXCEPT !.waits = @ \ tags]

(* A notification marks the one entry of a slot.                           *)
LEMMA TheNotified ==
  ASSUME NEW S, Good(S), S # {}, NEW tags
  PROVE  The(Notified(S, tags)) = Mark(The(S), tags) /\ Notified(S, tags) # {}
<1>1. PICK e \in S : TRUE
  OBVIOUS
<1>2. The(S) = e /\ S = {e}
  BY <1>1, TheIs
<1>3. Notified(S, tags) = {Mark(e, tags)}
  BY <1>2 DEF Notified, Mark
<1> QED
  BY <1>2, <1>3 DEF The

(* A kill hides the one entry of a slot, or clears its mask.               *)
LEMMA ThePeeked ==
  ASSUME NEW S, Good(S), S # {}, NEW kill
  PROVE  /\ Peek(S, kill) # {} <=> Keep(The(S), kill)
         /\ Keep(The(S), kill) => The(Peek(S, kill)) = Cleared(The(S), kill)
<1>1. PICK e \in S : TRUE
  OBVIOUS
<1>2. The(S) = e /\ S = {e}
  BY <1>1, TheIs
<1>3. Peek(S, kill) = {Cleared(x, kill) : x \in {y \in {e} : Keep(y, kill)}}
  BY <1>2 DEF Peek
<1>4. Keep(e, kill) => Peek(S, kill) = {Cleared(e, kill)}
  BY <1>3
<1>5. ~Keep(e, kill) => Peek(S, kill) = {}
  BY <1>3
<1> QED
  BY <1>2, <1>4, <1>5 DEF The

(* A slot, shown or not, holds one entry at most.                          *)
LEMMA SlotsGood == TypeOK => OneEach(slots) /\ \A kill : OneEach(Shown(kill))
BY PeekType DEF TypeOK, OneEach, Shown, Good

(* The operators of the list are those of the queue.                       *)
LEMMA ListOperators ==
  /\ \A m, kill : List!Keep(m, kill) = Keep(m, kill) /\ List!Cleared(m, kill) = Cleared(m, kill)
  /\ \A P, n : List!Nth(P, n) = Nth(P, n)
  /\ \A S : List!Cardinality(S) = Cardinality(S)
<1>1. \A m, kill : List!Keep(m, kill) = Keep(m, kill) /\ List!Cleared(m, kill) = Cleared(m, kill)
  BY DEF List!Keep, Keep, List!Cleared, Cleared
<1>2. \A S : List!Cardinality(S) = Cardinality(S)
  BY Zenon DEF List!Cardinality, Cardinality
<1>3. \A P, n : List!Nth(P, n) = Nth(P, n)
  BY <1>2 DEF List!Nth, Nth
<1> QED
  BY <1>1, <1>2, <1>3

(* What the list shows under a kill is what the slots show.                *)
LEMMA ListShown ==
  ASSUME TypeOK, NEW kill
  PROVE  List!Shown(kill) = Contents(Shown(kill))
<1> DEFINE U == Used(slots)
           c == Cardinality(U)
           list == Contents(slots)
           Q == {i \in DOMAIN list : Keep(list[i], kill)}
           d == Cardinality(Q)
           V == Used(Shown(kill))
           g == [n \in 1 .. d |-> Nth(U, Nth(Q, n))]
<1>1. /\ U \in SUBSET Int /\ IsFiniteSet(U) /\ c \in Nat
      /\ \A n \in 1 .. c : Nth(U, n) \in U
      /\ \A k \in U : \E n \in 1 .. c : Nth(U, n) = k
  BY UsedType, NthIs
<1>2. DOMAIN list = 1 .. c /\ \A i \in 1 .. c : list[i] = The(slots[Nth(U, i)])
  BY DEF Contents
<1>3. \A k \in U : /\ k \in V <=> Keep(The(slots[k]), kill)
                   /\ k \in V => The(Shown(kill)[k]) = Cleared(The(slots[k]), kill)
  <2> SUFFICES ASSUME NEW k \in U
               PROVE  /\ k \in V <=> Keep(The(slots[k]), kill)
                      /\ k \in V => The(Shown(kill)[k]) = Cleared(The(slots[k]), kill)
    OBVIOUS
  <2>1. k \in Idx /\ slots[k] # {} /\ Good(slots[k]) /\ Shown(kill)[k] = Peek(slots[k], kill)
    BY SlotsGood DEF Used, OneEach, Shown
  <2> QED
    BY <2>1, ThePeeked DEF Used
<1>4. V \subseteq U
  BY DEF Used, Shown, Peek
<1> HIDE DEF U, V, list, c
<1>5. Q \in SUBSET (1 .. c)
  BY <1>2
<1>6. V = {Nth(U, i) : i \in Q}
  <2>1. \A i \in Q : i \in 1 .. c /\ Nth(U, i) \in V
    BY <1>1, <1>2, <1>3
  <2>2. ASSUME NEW k \in V PROVE \E i \in Q : Nth(U, i) = k
    <3>1. PICK i \in 1 .. c : Nth(U, i) = k
      BY <1>1, <1>4
    <3>2. i \in Q
      BY <1>2, <1>3, <1>4, <3>1
    <3> QED
      BY <3>1, <3>2
  <2> HIDE DEF Q
  <2> QED
    BY <2>1, <2>2
<1>7. /\ Q \in SUBSET Int /\ IsFiniteSet(Q) /\ d \in Nat
      /\ Enumerates(g, d, V)
  BY <1>1, <1>5, <1>6, SelectionOfSelection DEF c
<1>8. \A n \in 1 .. d : Nth(Q, n) \in Q
  BY <1>7, NthIs
<1>9. Contents(Shown(kill)) = [n \in 1 .. d |-> The(Shown(kill)[g[n]])]
  <2>1. Enumerates(g, d, Used(Shown(kill)))
    BY <1>7 DEF V
  <2> HIDE DEF g, d
  <2> QED
    BY <2>1, ContentsIs
<1>10. \A n \in 1 .. d : The(Shown(kill)[g[n]]) = Cleared(list[Nth(Q, n)], kill)
  <2> SUFFICES ASSUME NEW n \in 1 .. d
               PROVE  The(Shown(kill)[g[n]]) = Cleared(list[Nth(Q, n)], kill)
    OBVIOUS
  <2>1. Nth(Q, n) \in 1 .. c /\ g[n] = Nth(U, Nth(Q, n))
    BY <1>5, <1>8
  <2>2. g[n] \in V
    BY <1>7 DEF Enumerates
  <2> QED
    BY <1>2, <1>3, <1>4, <2>1, <2>2
<1>11. Occupants = list
  BY OccupantsAre DEF list
<1>14. List!Shown(kill) = [n \in 1 .. d |-> Cleared(list[Nth(Q, n)], kill)]
  <2> DEFINE kept == {i \in DOMAIN Occupants : List!Keep(Occupants[i], kill)}
  <2>1. kept = Q
    BY <1>11, ListOperators, Zenon
  <2>2. List!Shown(kill) = [n \in 1 .. List!Cardinality(kept) |->
                              List!Cleared(Occupants[List!Nth(kept, n)], kill)]
    BY Zenon DEF List!Shown
  <2> HIDE DEF kept, Q
  <2> QED
    BY <1>11, <2>1, <2>2, ListOperators, Zenon
<1> HIDE DEF Q, d, g
<1> QED
  BY <1>9, <1>10, <1>14

(* The queue removes what the list lets go.                                *)
LEMMA ListCandidates ==
  ASSUME TypeOK, NEW kill, NEW i \in 1 .. Cardinality(Used(Shown(kill)))
  PROVE  i \in List!Candidates(Contents(Shown(kill)))
           <=> Nth(Used(Shown(kill)), i) \in Removable(Shown(kill))
<1> DEFINE sh == Shown(kill)
           V == Used(sh)
           c == Cardinality(V)
           s == Contents(sh)
           k == Nth(V, i)
<1>1. /\ c \in Nat
      /\ \A n \in 1 .. c : Nth(V, n) \in V
      /\ \A v \in V : \E n \in 1 .. c : Nth(V, n) = v
      /\ \A m, n \in 1 .. c : m < n <=> Nth(V, m) < Nth(V, n)
  BY UsedType, NthIs
<1>2. DOMAIN s = 1 .. c /\ \A n \in 1 .. c : s[n] = The(sh[Nth(V, n)])
  BY DEF Contents
<1>3. \A v \in V : v \in Idx /\ sh[v] = {The(sh[v])} /\ The(sh[v]) \in EntryType
  <2>1. OneEach(sh)
    BY SlotsGood
  <2> QED
    BY <2>1, TheIs DEF Used, OneEach
<1>4. \A v \in Idx : v \notin V => sh[v] = {}
  BY DEF Used
<1> HIDE DEF sh, V, c, s
<1>5. i \in 1 .. c /\ k \in V /\ i \in Int /\ k \in Idx
  BY <1>1, <1>3 DEF V, c, sh
<1> HIDE DEF k
\* what is in the slots before slot k is what is before i in the list
<1>6. ASSUME NEW n \in 1 .. i - 1
      PROVE  /\ n \in 1 .. c /\ Nth(V, n) \in 0 .. k - 1
             /\ s[n] = The(sh[Nth(V, n)]) /\ sh[Nth(V, n)] = {s[n]}
  <2>1. n \in 1 .. c /\ n < i
    BY <1>1, <1>5
  <2>2. Nth(V, n) < k /\ Nth(V, n) \in V
    BY <1>1, <1>5, <2>1 DEF k
  <2>3. Nth(V, n) \in 0 .. k - 1
    <3>1. Nth(V, n) \in Idx
      BY <1>3, <2>2
    <3> QED
      BY <1>5, <2>2, <3>1, IssueQueueAssumption DEF Idx
  <2> QED
    BY <1>2, <1>3, <2>1, <2>2, <2>3
<1>7. ASSUME NEW j \in 0 .. k - 1, NEW p \in sh[j]
      PROVE  \E n \in 1 .. i - 1 : Nth(V, n) = j /\ s[n] = p
  <2>1. j \in Idx /\ j < k
    BY <1>5, IssueQueueAssumption DEF Idx
  <2>2. j \in V
    BY <1>4, <2>1
  <2>3. PICK n \in 1 .. c : Nth(V, n) = j
    BY <1>1, <2>2
  <2>4. n < i
    BY <1>1, <1>5, <2>1, <2>3 DEF k
  <2>5. n \in 1 .. i - 1
    BY <1>1, <1>5, <2>4
  <2> QED
    BY <1>2, <1>3, <2>2, <2>3, <2>5
<1>8. sh[k] = {s[i]}
  BY <1>2, <1>3, <1>5 DEF k
<1>9. StatusReady(sh, k) <=> s[i].waits = {}
  BY <1>8 DEF StatusReady
<1>10. (\A j \in 0 .. k - 1 : ~StatusReady(sh, j)) <=> \A n \in 1 .. i - 1 : s[n].waits # {}
  <2>1. ASSUME \A j \in 0 .. k - 1 : ~StatusReady(sh, j), NEW n \in 1 .. i - 1
        PROVE  s[n].waits # {}
    BY <1>6, <2>1 DEF StatusReady
  <2>2. ASSUME \A n \in 1 .. i - 1 : s[n].waits # {}, NEW j \in 0 .. k - 1
        PROVE  ~StatusReady(sh, j)
    BY <1>7, <2>2 DEF StatusReady
  <2> QED
    BY <2>1, <2>2
<1>11. k \in FirstReady(sh) <=> i \in List!OldestReady(s)
  <2>1. i \in List!OldestReady(s) <=> /\ s[i].waits = {}
                                      /\ \A n \in 1 .. i - 1 : s[n].waits # {}
    BY <1>2, <1>5 DEF List!OldestReady
  <2> QED
    BY <1>5, <1>9, <1>10, <2>1 DEF FirstReady
<1>12. ~WaitPred(sh, k) <=> List!MayGo(s, i)
  <2> DEFINE ord == s[i].ordered
  <2>1. WaitPred(sh, k) <=> \E n \in 1 .. i - 1 : s[n].ordered \/ ord
    <3>1. ASSUME WaitPred(sh, k) PROVE \E n \in 1 .. i - 1 : s[n].ordered \/ ord
      <4>1. PICK j \in 0 .. k - 1 : \E p \in sh[j] : p.ordered \/ \E e \in sh[k] : e.ordered
        BY <3>1 DEF WaitPred
      <4>2. PICK p \in sh[j] : p.ordered \/ \E e \in sh[k] : e.ordered
        BY <4>1
      <4>3. PICK n \in 1 .. i - 1 : s[n] = p
        BY <1>7
      <4> QED
        BY <1>8, <4>2, <4>3
    <3>2. ASSUME NEW n \in 1 .. i - 1, s[n].ordered \/ ord PROVE WaitPred(sh, k)
      <4>1. s[n] \in sh[Nth(V, n)] /\ Nth(V, n) \in 0 .. k - 1 /\ s[i] \in sh[k]
        BY <1>6, <1>8
      <4> QED
        BY <3>2, <4>1 DEF WaitPred
    <3> QED
      BY <3>1, <3>2
  <2>2. (\E n \in 1 .. i - 1 : TRUE) <=> i # 1
    <3>1. i # 1 => 1 \in 1 .. i - 1
      BY <1>1, <1>5
    <3>2. i = 1 => 1 .. i - 1 = {}
      OBVIOUS
    <3> QED
      BY <3>1, <3>2
  <2>3. List!MayGo(s, i) <=> IF ord THEN i = 1 ELSE \A n \in 1 .. i - 1 : ~s[n].ordered
    BY DEF List!MayGo
  <2> HIDE DEF ord
  <2>4. CASE ord
    BY <2>1, <2>2, <2>3, <2>4
  <2>5. CASE ~ord
    BY <2>1, <2>3, <2>5
  <2> QED
    BY <2>4, <2>5
<1>13. i \in List!Candidates(s) <=> i \in List!OldestReady(s) /\ List!MayGo(s, i)
  BY DEF List!Candidates
<1>14. k \in Removable(sh) <=> k \in FirstReady(sh) /\ ~WaitPred(sh, k)
  BY DEF Removable
<1> QED
  BY <1>11, <1>12, <1>13, <1>14 DEF k, s, V, sh

(* The places in the list of what is issued.  Taking these from the list what the queue issues leaves what stays.           *)
Going(sh, issued) == {i \in 1 .. Cardinality(Used(sh)) : Nth(Used(sh), i) \in issued}

(* The list without what goes is the contents of the slots that stay.      *)
LEMMA ListWithout ==
  ASSUME TypeOK, NEW kill, NEW issued
  PROVE  /\ Staying(Shown(kill), issued) \in SUBSET Int
         /\ IsFiniteSet(Staying(Shown(kill), issued))
         /\ List!Without(Contents(Shown(kill)), Going(Shown(kill), issued)) =
              [n \in 1 .. Cardinality(Staying(Shown(kill), issued)) |->
                 The(Shown(kill)[Nth(Staying(Shown(kill), issued), n)])]
<1> DEFINE sh == Shown(kill)
           V == Used(sh)
           c == Cardinality(V)
           s == Contents(sh)
           stay == Staying(sh, issued)
           going == Going(sh, issued)
           Q == DOMAIN s \ going
           d == Cardinality(Q)
           g == [n \in 1 .. d |-> Nth(V, Nth(Q, n))]
<1>1. /\ V \in SUBSET Int /\ IsFiniteSet(V) /\ c \in Nat
      /\ \A n \in 1 .. c : Nth(V, n) \in V
      /\ \A v \in V : \E n \in 1 .. c : Nth(V, n) = v
  BY UsedType, NthIs
<1>2. DOMAIN s = 1 .. c /\ \A n \in 1 .. c : s[n] = The(sh[Nth(V, n)])
  BY DEF Contents
<1>3. stay = V \ issued
  BY DEF Staying, Used
<1>4. going = {i \in 1 .. c : Nth(V, i) \in issued}
  BY DEF Going
<1> HIDE DEF sh, V, c, s, stay, going
<1>5. Q \in SUBSET (1 .. c) /\ \A i \in 1 .. c : i \in Q <=> Nth(V, i) \notin issued
  BY <1>2, <1>4
<1> HIDE DEF Q
<1>6. stay = {Nth(V, i) : i \in Q}
  BY <1>1, <1>3, <1>5
<1>7. /\ Q \in SUBSET Int /\ IsFiniteSet(Q) /\ d \in Nat /\ Enumerates(g, d, stay)
  BY <1>1, <1>5, <1>6, SelectionOfSelection DEF c
<1>8. stay \in SUBSET Int /\ IsFiniteSet(stay)
  BY <1>1, <1>3, FS_Subset
<1>9. Cardinality(stay) = d /\ \A n \in 1 .. d : Nth(stay, n) = g[n]
  BY <1>7, <1>8, EnumeratesNth
<1>10. \A n \in 1 .. d : Nth(Q, n) \in Q
  BY <1>7, NthIs
<1>11. List!Without(s, going) = [n \in 1 .. d |-> s[Nth(Q, n)]]
  <2>1. List!Without(s, going) = [n \in 1 .. List!Cardinality(Q) |-> s[List!Nth(Q, n)]]
    BY Zenon DEF List!Without, Q
  <2> QED
    BY <2>1, ListOperators
<1>12. \A n \in 1 .. d : s[Nth(Q, n)] = The(sh[Nth(stay, n)])
  BY <1>2, <1>5, <1>9, <1>10
<1> HIDE DEF d, g
<1>13. List!Without(s, going) = [n \in 1 .. Cardinality(stay) |-> The(sh[Nth(stay, n)])]
  BY <1>9, <1>11, <1>12
<1> QED
  BY <1>8, <1>13 DEF s, sh, stay, going

(* The slots in use after a cycle, in order: those of what stays, moved,   *)
(* and the last one for what is added.                                     *)
LEMMA UsedAfter ==
  ASSUME TypeOK, NEW kill, NEW tags, NEW issued \in SUBSET Idx, NEW added, Good(added),
         added # {} => QueueAddRdy(Shown(kill), issued), Cycle(kill, issued, tags, added)
  PROVE  LET sh   == Shown(kill)
             stay == Staying(sh, issued)
             d    == Cardinality(stay)
             g    == [n \in 1 .. d |-> Dest(sh, issued, Nth(stay, n))]
             g1   == [n \in 1 .. d + 1 |-> IF n <= d THEN g[n] ELSE NumSlots - 1]
         IN  /\ d \in Nat
             /\ added = {} => Enumerates(g, d, Used(slots'))
             /\ added # {} => Enumerates(g1, d + 1, Used(slots')) /\ d < NumSlots
             /\ \A n \in 1 .. d : Nth(stay, n) \in stay
                  /\ slots'[Dest(sh, issued, Nth(stay, n))] = Notified(sh[Nth(stay, n)], tags)
             /\ added # {} => slots'[NumSlots - 1] = Notified(added, tags)
<1> DEFINE sh   == Shown(kill)
           stay == Staying(sh, issued)
           d    == Cardinality(stay)
           dest(k) == Dest(sh, issued, k)
           g    == [n \in 1 .. d |-> dest(Nth(stay, n))]
           top == NumSlots - 1
           g1   == [n \in 1 .. d + 1 |-> IF n <= d THEN g[n] ELSE top]
           U    == Used(slots')
<1>1. /\ stay \in SUBSET Idx /\ Idx \in SUBSET Int
      /\ IsFiniteSet(stay) /\ IsFiniteSet(Idx) /\ Cardinality(Idx) = NumSlots
  <2>1. IsFiniteSet(Idx) /\ Cardinality(Idx) = NumSlots /\ Idx \in SUBSET Int
    BY IssueQueueAssumption, FS_Interval DEF Idx
  <2>2. stay \in SUBSET Idx
    BY DEF Staying
  <2> QED
    BY <2>1, <2>2, FS_Subset
<1>2. /\ d \in Nat
      /\ \A n \in 1 .. d : Nth(stay, n) \in stay
      /\ \A k \in stay : \E n \in 1 .. d : Nth(stay, n) = k
      /\ \A m, n \in 1 .. d : m < n <=> Nth(stay, m) < Nth(stay, n)
  <2>1. stay \in SUBSET Int
    BY <1>1
  <2> QED
    BY <1>1, <2>1, NthIs
<1>3. /\ \A k \in stay : slots'[dest(k)] = Notified(sh[k], tags)
      /\ \A j, k \in stay : j < k => dest(j) < dest(k)
  BY Compaction DEF Cycle
<1>4. \A k \in Idx : dest(k) \in Idx
  BY IssueQueueAssumption DEF Dest, Idx
<1>5. \A k \in stay : Notified(sh[k], tags) # {}
  <2>1. \A k \in stay : k \in Idx /\ sh[k] # {}
    BY DEF Staying
  <2>2. \A k \in Idx : Good(sh[k])
    BY SlotsGood DEF OneEach
  <2> QED
    BY <2>1, <2>2, TheNotified
<1>6. top \in Idx /\ top \in Int
  BY IssueQueueAssumption DEF Idx
<1>7. \A p \in U : (\E k \in stay : dest(k) = p) \/ (added # {} /\ p = top)
  <2> SUFFICES ASSUME NEW p \in U
               PROVE  (\E k \in stay : dest(k) = p) \/ (added # {} /\ p = top)
    OBVIOUS
  <2>1. PICK f \in slots'[p] : p \in Idx
    BY DEF Used, Idx
  <2>2. \/ \E k \in Idx : \E e \in slots[k] :
             /\ Keep(e, kill) /\ k \notin issued /\ dest(k) = p
             /\ Updated(f, e, tags, kill.clear_mask)
        \/ p = top /\ \E a \in added : Updated(f, a, tags, {})
    BY <2>1, CycleEntries
  <2>3. ASSUME NEW k \in Idx, NEW e \in slots[k], Keep(e, kill), k \notin issued
        PROVE  k \in stay
    BY <2>3 DEF Staying, Shown, Peek
  <2> QED
    BY <2>2, <2>3
<1>8. ASSUME added # {}
      PROVE  /\ slots'[top] = Notified(added, tags) /\ slots'[top] # {}
             /\ \A k \in stay : dest(k) < top
             /\ d < NumSlots
  <2>1. QueueAddRdy(sh, issued)
    BY <1>8
  <2>2. Arriving(added, tags) = Notified(added, tags) /\ Notified(added, tags) # {}
    BY <1>8, TheNotified DEF Arriving
  <2>3. slots'[top] = Notified(added, tags)
    <3> DEFINE now == [k \in Idx |-> Notified(sh[k], tags)]
               input(k) == SlotInput(now, issued, Arriving(added, tags), k)
    <3>1. slots'[top] = RegNext(now[top], TakeCall(sh, issued, top), input(top))
      BY <1>6 DEF Cycle, SlotsNext
    <3>2. input(top) = Notified(added, tags)
      BY <2>2 DEF SlotInput
    <3> HIDE DEF now, input, sh
    <3> QED
      BY <2>2, <3>1, <3>2 DEF RegNext
  <2>4. ASSUME NEW k \in stay PROVE dest(k) < top
    <3>1. k \in Idx /\ sh[k] # {} /\ k \notin issued
      BY DEF Staying
    <3>2. CASE k = top
      <4>1. TakeCall(sh, issued, top)
        BY <2>1, <3>1, <3>2 DEF QueueAddRdy, AddRdy
      <4>2. top > 0 /\ Shifts(sh, issued, top - 1)
        BY <3>1, <3>2, <4>1 DEF TakeCall
      <4> QED
        BY <1>6, <3>2, <4>2 DEF Dest
    <3>3. CASE k # top
      <4>1. k < top /\ k \in Int
        BY <3>1, <3>3, IssueQueueAssumption DEF Idx
      <4>2. dest(k) = k \/ dest(k) = k - 1
        BY DEF Dest
      <4> HIDE DEF dest
      <4> QED
        BY <1>6, <4>1, <4>2
    <3> QED
      BY <3>2, <3>3
  <2>5. d < NumSlots
    <3>1. \E k \in Idx : sh[k] = {} \/ k \in issued
      BY <2>1, AddRdyExact
    <3>2. stay # Idx
      BY <3>1 DEF Staying
    <3>3. d <= NumSlots /\ (d = NumSlots => stay = Idx)
      BY <1>1, FS_Subset
    <3> QED
      BY <1>2, <3>2, <3>3, IssueQueueAssumption
  <2> QED
    BY <2>2, <2>3, <2>4, <2>5
<1> HIDE DEF sh, stay, d, dest, U, top
<1>9. g \in [1 .. d -> U]
  <2> SUFFICES ASSUME NEW n \in 1 .. d PROVE dest(Nth(stay, n)) \in U
    OBVIOUS
  <2>1. Nth(stay, n) \in stay /\ Nth(stay, n) \in Idx
    BY <1>1, <1>2
  <2> QED
    BY <1>3, <1>4, <1>5, <2>1 DEF U, Used, Idx
<1>10. \A i, j \in 1 .. d : i < j => g[i] < g[j]
  BY <1>2, <1>3
<1>11. \A k \in stay : \E n \in 1 .. d : g[n] = dest(k)
  BY <1>2
<1>12. added = {} => Enumerates(g, d, U)
  BY <1>2, <1>7, <1>9, <1>10, <1>11 DEF Enumerates
<1>g. \A n \in 1 .. d : g[n] \in U /\ \E k \in stay : g[n] = dest(k)
  BY <1>2, <1>9
<1> HIDE DEF g
<1>13. ASSUME added # {} PROVE Enumerates(g1, d + 1, U)
  <2>1. top \in U
    BY <1>6, <1>8, <1>13 DEF U, Used, Idx
  <2>2. /\ \A n \in 1 .. d : n \in 1 .. d + 1 /\ g1[n] = g[n]
        /\ d + 1 \in 1 .. d + 1 /\ g1[d + 1] = top
        /\ \A n \in 1 .. d + 1 : n \in 1 .. d \/ n = d + 1
    BY <1>2
  <2>3. g1 \in [1 .. d + 1 -> U]
    <3>1. \A n \in 1 .. d + 1 : g1[n] \in U
      BY <1>g, <2>1, <2>2
    <3> QED
      BY <3>1
  <2>4. ASSUME NEW i \in 1 .. d + 1, NEW j \in 1 .. d + 1, i < j PROVE g1[i] < g1[j]
    <3>1. i \in 1 .. d
      BY <1>2, <2>4
    <3>2. CASE j \in 1 .. d
      BY <1>10, <2>2, <2>4, <3>1, <3>2
    <3>3. CASE j = d + 1
      <4>1. g[i] < top
        BY <1>g, <1>8, <1>13, <3>1
      <4> QED
        BY <2>2, <3>1, <3>3, <4>1
    <3> QED
      BY <2>2, <3>2, <3>3
  <2>5. \A k \in U : \E n \in 1 .. d + 1 : g1[n] = k
    BY <1>7, <1>11, <2>2
  <2> HIDE DEF g1
  <2> QED
    BY <1>2, <2>3, <2>4, <2>5 DEF Enumerates
<1> QED
  BY <1>2, <1>3, <1>8, <1>12, <1>13 DEF g, g1, sh, stay, d, dest, U, top

(* The contents after a cycle.                                             *)
LEMMA OccupantsAfter == Occupants' = Contents(slots')
BY Zenon DEF Occupants, Contents, Used, The, Idx

(* A cycle of the queue is a step of the list.                             *)
LEMMA StepRefines ==
  ASSUME TypeOK, NEW kill \in Kills, NEW tags \in SUBSET Tags, NEW added \in Optional(Entries),
         NEW issued \in {{}, Removable(Shown(kill))},
         Step(kill, issued, tags, added),
         removed' = UNION {Shown(kill)[k] : k \in issued}
  PROVE  List!Next
<1> DEFINE sh    == Shown(kill)
           V     == Used(sh)
           c     == Cardinality(V)
           s     == Contents(sh)
           going == {i \in 1 .. c : Nth(V, i) \in issued}
           stay  == Staying(sh, issued)
           d     == Cardinality(stay)
           rest  == List!Without(s, going)
           new   == Occupants'
<1>1. Cycle(kill, issued, tags, added) /\ (added # {} => QueueAddRdy(sh, issued))
  BY DEF Step
<1>2. Removable(sh) \in SUBSET Idx
  BY DEF Removable, FirstReady
<1>3. issued \in SUBSET Idx
  BY <1>2
<1>4. Good(added)
  BY IssueQueueAssumption DEF Optional, Good
<1>5. /\ c \in Nat
      /\ \A n \in 1 .. c : Nth(V, n) \in V
      /\ \A v \in V : \E n \in 1 .. c : Nth(V, n) = v
  BY UsedType, NthIs
<1>6. DOMAIN s = 1 .. c /\ \A n \in 1 .. c : s[n] = The(sh[Nth(V, n)])
  BY DEF Contents
<1>7. \A v \in V : sh[v] = {The(sh[v])} /\ The(sh[v]) \in EntryType
  <2>1. OneEach(sh)
    BY SlotsGood
  <2> QED
    BY <2>1, TheIs DEF Used, OneEach
<1>8. List!Shown(kill) = s
  BY ListShown
<1>9. going \in {{}, List!Candidates(s)}
  <2>1. CASE issued = {}
    BY <2>1
  <2>2. CASE issued = Removable(sh)
    <3>1. \A i \in List!Candidates(s) : i \in 1 .. c
      BY <1>6 DEF List!Candidates, List!OldestReady
    <3>2. \A i \in 1 .. c : i \in List!Candidates(s) <=> Nth(V, i) \in Removable(sh)
      BY ListCandidates
    <3>3. going = List!Candidates(s)
      <4> HIDE DEF s, V, c, sh
      <4> QED
        BY <2>2, <3>1, <3>2
    <3> QED
      BY <3>3
  <2> QED
    BY <2>1, <2>2
<1>10. \A k \in issued : k \in V \/ sh[k] = {}
  BY <1>3 DEF Used
<1>11. removed' = {s[i] : i \in going}
  <2> HIDE DEF sh, V, c, s
  <2>1. \A i \in going : Nth(V, i) \in issued /\ s[i] \in sh[Nth(V, i)]
    BY <1>5, <1>6, <1>7
  <2>2. ASSUME NEW k \in issued, NEW e \in sh[k] PROVE \E i \in going : s[i] = e
    <3>1. k \in V
      BY <1>10
    <3>2. PICK i \in 1 .. c : Nth(V, i) = k
      BY <1>5, <3>1
    <3> QED
      BY <1>6, <1>7, <3>1, <3>2
  <2>3. removed' = UNION {sh[k] : k \in issued}
    BY DEF sh
  <2> HIDE DEF going
  <2>4. \A e : e \in UNION {sh[k] : k \in issued} <=> \E i \in going : s[i] = e
    <3>1. \A e : e \in UNION {sh[k] : k \in issued} <=> \E k \in issued : e \in sh[k]
      OBVIOUS
    <3> QED
      BY <2>1, <2>2, <3>1
  <2>5. UNION {sh[k] : k \in issued} = {s[i] : i \in going}
    BY <2>4
  <2> QED
    BY <2>3, <2>5
<1>12. /\ stay \in SUBSET Int /\ IsFiniteSet(stay)
       /\ rest = [n \in 1 .. d |-> The(sh[Nth(stay, n)])]
  <2>1. going = Going(sh, issued)
    BY DEF Going
  <2> HIDE DEF going
  <2> QED
    BY <2>1, ListWithout
<1> DEFINE g  == [n \in 1 .. d |-> Dest(sh, issued, Nth(stay, n))]
           g1 == [n \in 1 .. d + 1 |-> IF n <= d THEN g[n] ELSE NumSlots - 1]
<1>13. /\ d \in Nat
       /\ added = {} => Enumerates(g, d, Used(slots'))
       /\ added # {} => Enumerates(g1, d + 1, Used(slots')) /\ d < NumSlots
       /\ \A n \in 1 .. d : Nth(stay, n) \in stay
            /\ slots'[Dest(sh, issued, Nth(stay, n))] = Notified(sh[Nth(stay, n)], tags)
       /\ added # {} => slots'[NumSlots - 1] = Notified(added, tags)
  BY <1>1, <1>3, <1>4, UsedAfter
<1>14. stay \in SUBSET V
  BY DEF Staying, Used
<1>15. \A n \in 1 .. d : /\ The(slots'[g[n]]) = Mark(rest[n], tags)
                         /\ rest[n] \in EntryType
  <2> SUFFICES ASSUME NEW n \in 1 .. d
               PROVE  The(slots'[g[n]]) = Mark(rest[n], tags) /\ rest[n] \in EntryType
    OBVIOUS
  <2>1. /\ Nth(stay, n) \in V /\ rest[n] = The(sh[Nth(stay, n)])
        /\ slots'[g[n]] = Notified(sh[Nth(stay, n)], tags)
    BY <1>12, <1>13, <1>14
  <2>2. Good(sh[Nth(stay, n)]) /\ sh[Nth(stay, n)] # {}
    BY <2>1, SlotsGood DEF Used, OneEach
  <2> QED
    BY <1>7, <2>1, <2>2, TheNotified
<1>16. \A f : List!Marked(f, tags) = [i \in DOMAIN f |-> Mark(f[i], tags)]
  BY DEF List!Marked, Mark
<1> HIDE DEF sh, V, c, s, going, stay, d, rest
<1>17. \/ new = List!Marked(rest, tags)
       \/ Len(rest) < NumSlots /\ \E e \in Entries : new = List!Marked(Append(rest, e), tags)
  <2>1. CASE added = {}
    <3>1. new = [n \in 1 .. d |-> The(slots'[g[n]])]
      BY <1>13, <2>1, ContentsIs, OccupantsAfter
    <3>2. List!Marked(rest, tags) = [n \in 1 .. d |-> Mark(rest[n], tags)]
      BY <1>12, <1>16
    <3> HIDE DEF new, g
    <3> QED
      BY <1>15, <3>1, <3>2
  <2>2. CASE added # {}
    <3>1. PICK e \in Entries : added = {e}
      BY <2>2 DEF Optional
    <3>2. new = [n \in 1 .. d + 1 |-> The(slots'[g1[n]])]
      BY <1>13, <2>2, ContentsIs, OccupantsAfter
    <3>3. The(slots'[NumSlots - 1]) = Mark(e, tags)
      <4>1. The(added) = e
        BY <3>1 DEF The
      <4> QED
        BY <1>4, <1>13, <2>2, <4>1, TheNotified
    <3>4. rest \in Seq(EntryType) /\ Len(rest) = d /\ DOMAIN rest = 1 .. d
      BY <1>12, <1>13, <1>15
    <3>5. e \in EntryType
      BY IssueQueueAssumption
    <3>6. /\ DOMAIN Append(rest, e) = 1 .. d + 1
          /\ \A n \in 1 .. d : Append(rest, e)[n] = rest[n]
          /\ Append(rest, e)[d + 1] = e
      BY <1>13, <3>4, <3>5
    <3>7. List!Marked(Append(rest, e), tags) = [n \in 1 .. d + 1 |-> Mark(Append(rest, e)[n], tags)]
      BY <1>16, <3>6
    <3>8. \A n \in 1 .. d + 1 : n \in 1 .. d \/ n = d + 1
      BY <1>13
    <3>9. \A n \in 1 .. d + 1 : The(slots'[g1[n]]) = Mark(Append(rest, e)[n], tags)
      <4>1. \A n \in 1 .. d : g1[n] = g[n]
        BY <1>13
      <4>2. g1[d + 1] = NumSlots - 1
        BY <1>13
      <4> HIDE DEF g1, g
      <4> QED
        BY <1>15, <3>3, <3>6, <3>8, <4>1, <4>2
    <3>10. new = List!Marked(Append(rest, e), tags)
      <4> HIDE DEF new, g1
      <4> QED
        BY <3>2, <3>7, <3>9
    <3> QED
      BY <1>13, <2>2, <3>4, <3>10
  <2> QED
    BY <2>1, <2>2
<1> QED
  <2> HIDE DEF new
  <2>1. Occupants' = new
    BY DEF new
  <2>2. \/ Occupants' = List!Marked(rest, tags)
        \/ /\ Len(rest) < NumSlots
           /\ Occupants' \in {List!Marked(Append(rest, e), tags) : e \in Entries}
    BY <1>17, <2>1
  <2> DEFINE grown(r, notified) == {List!Marked(Append(r, e), notified) : e \in Entries}
  <2>5. \/ Occupants' = List!Marked(rest, tags)
        \/ Len(rest) < NumSlots /\ Occupants' \in grown(rest, tags)
    BY <2>2
  <2> HIDE DEF grown
  <2>3. LET shown == List!Shown(kill)
        IN  /\ going \in {{}, List!Candidates(shown)}
            /\ removed' = {shown[i] : i \in going}
            /\ rest = List!Without(shown, going)
    BY <1>8, <1>9, <1>11, Zenon DEF rest
  <2>4. LET shown == List!Shown(kill)
        IN  \E x \in {{}, List!Candidates(shown)} :
              LET r == List!Without(shown, x)
              IN  /\ removed' = {shown[i] : i \in x}
                  /\ \E notified \in SUBSET Tags :
                       \/ Occupants' = List!Marked(r, notified)
                       \/ Len(r) < NumSlots /\ Occupants' \in grown(r, notified)
    BY <2>3, <2>5, Zenon
  <2> QED
    BY <2>4, Zenon DEF List!Next, grown

(* The issue queues of util/rtl/issue_queue.py are in-order lists of       *)
(* waiting operations, for any number of slots: compaction loses, doubles  *)
(* and swaps none, also in the cycle of a kill, a notification, an         *)
(* addition or a removal.                                                  *)
THEOREM QueueImplementsList == QueueSpec => ImplementsList
<1>1. QueueInit => TypeOK /\ List!Init
  <2> SUFFICES ASSUME QueueInit PROVE TypeOK /\ List!Init
    OBVIOUS
  <2>1. slots = [k \in Idx |-> {}] /\ removed = {}
    BY DEF QueueInit, Init
  <2>2. Used(slots) = {}
    BY <2>1 DEF Used
  <2>3. Occupants = <<>>
    <3>1. Cardinality(Used(slots)) = 0
      BY <2>2, FS_EmptySet
    <3>2. Contents(slots) = [i \in {} |-> The(slots[Nth(Used(slots), i)])]
      BY <3>1 DEF Contents
    <3>3. Contents(slots) = <<>>
      BY <3>2
    <3> QED
      BY <3>3, OccupantsAre
  <2> QED
    BY <2>1, <2>3 DEF TypeOK, List!Init
<1>2. TypeOK /\ [QueueNext]_<<slots, removed>> => TypeOK' /\ [List!Next]_<<Occupants, removed>>
  <2> SUFFICES ASSUME TypeOK, [QueueNext]_<<slots, removed>>
               PROVE  TypeOK' /\ [List!Next]_<<Occupants, removed>>
    OBVIOUS
  <2>1. CASE UNCHANGED <<slots, removed>>
    <3>1. slots' = slots /\ removed' = removed
      BY <2>1
    <3>2. TypeOK'
      BY <3>1 DEF TypeOK, Idx, EntryType
    <3>3. Occupants' = Occupants
      BY <3>1, OccupantsAre, OccupantsAfter
    <3> QED
      BY <3>1, <3>2, <3>3
  <2>2. CASE QueueNext
    <3>1. PICK kill \in Kills, tags \in SUBSET Tags, added \in Optional(Entries) :
            \E issued \in {{}, Removable(Shown(kill))} :
              /\ Step(kill, issued, tags, added)
              /\ removed' = UNION {Shown(kill)[k] : k \in issued}
      BY <2>2 DEF QueueNext
    <3>2. PICK issued \in {{}, Removable(Shown(kill))} :
              /\ Step(kill, issued, tags, added)
              /\ removed' = UNION {Shown(kill)[k] : k \in issued}
      BY <3>1
    <3>3. Good(added)
      BY IssueQueueAssumption DEF Optional, Good
    <3>4. TypeOK'
      BY <3>2, <3>3, CycleType DEF Step
    <3>5. List!Next
      BY <3>2, StepRefines
    <3> QED
      BY <3>4, <3>5
  <2> QED
    BY <2>1, <2>2
<1> QED
  BY <1>1, <1>2, PTL DEF QueueSpec, ImplementsList, List!Spec
------------------------------------------------------------------------------
(***************************************************************************)
(* The multiply and divide pipe.  The registers of the multiplier hold     *)
(* more than the operation that is in them, so the theorems about the      *)
(* wrapper are taken for a row that holds the operations themselves: the   *)
(* two rows move alike, and what a register holds beside its operation is  *)
(* what the stages so far have made of that operation.                     *)
(***************************************************************************)
(* The row of the operations themselves, and the theorems about the        *)
(* wrapper for that row.                                                   *)
OpOf(r) == [data |-> r.data.op, mask |-> r.mask]

OpsRow == [i \in 1 .. last |-> {OpOf(r) : r \in multiplier[i]}]

W == INSTANCE PipelineProofs WITH
  NStages <- MUL_NSTAGES, Payloads <- {}, Broadcasts <- {},
  internal <- OpsRow, vvms <- mult_vvms, delivered <- {}

(* What is assumed of a wrapper holds of this one.                         *)
LEMMA WrapperAssumed ==
  /\ W!NStagesAssumption /\ W!PayloadsAssumption
  /\ last \in Nat /\ last >= 1 /\ last = MUL_NSTAGES
  /\ W!Stages = 1 .. last /\ Wrapper!Stages = 1 .. last
BY UnitsAssumption DEF W!NStagesAssumption, W!PayloadsAssumption, last, W!Stages, Wrapper!Stages

(* The operators of the kill unit are the same everywhere.                 *)
LEMMA SameKill ==
  /\ \A m, kill : W!Keep(m, kill) <=> Keep(m, kill)
  /\ \A m, kill : Wrapper!Keep(m, kill) <=> Keep(m, kill)
  /\ \A m, kill : W!Cleared(m, kill) = Cleared(m, kill)
  /\ \A s, t, a : W!RegNext(s, t, a) = RegNext(s, t, a)
  /\ \A s, t, a : Wrapper!RegNext(s, t, a) = RegNext(s, t, a)
  /\ \A m : W!Message(m) <=> Message(m)
  /\ \A S : W!The(S) = The(S)
BY DEF W!Keep, Wrapper!Keep, Keep, W!Cleared, Cleared, W!RegNext, Wrapper!RegNext, RegNext,
       W!Message, Message, W!The, The

(* What a queue shows under a kill, here and in the wrapper.               *)
LEMMA SparedIs == ASSUME NEW q, NEW kill PROVE W!ShownOf(q, kill) = Spared(q, kill)
<1>1. \A S : W!Cardinality(S) = Cardinality(S)
  BY Zenon DEF W!Cardinality, Cardinality
<1>2. \A P, n : W!Nth(P, n) = Nth(P, n)
  BY <1>1 DEF W!Nth, Nth
<1> DEFINE kept == {i \in DOMAIN q : Keep(q[i], kill)}
<1>3. W!Kept(q, kill) = kept
  BY SameKill DEF W!Kept
<1>4. Spared(q, kill) = [n \in 1 .. Cardinality(kept) |-> Cleared(q[Nth(kept, n)], kill)]
  BY Zenon DEF Spared
<1> HIDE DEF kept
<1> QED
  BY <1>1, <1>2, <1>3, <1>4, SameKill DEF W!ShownOf

(* A recursive function on the first naturals is defined.                  *)
LEMMA MulAfterIs ==
  ASSUME NEW op
  PROVE  /\ MulAfter(op)[0] = MulLoad(op)
         /\ \A i \in 1 .. last : MulAfter(op)[i] = MulStage(MulAfter(op)[i - 1], i)
<1> DEFINE Runs(f, k) == f = [i \in 0 .. k |-> IF i = 0 THEN MulLoad(op) ELSE MulStage(f[i - 1], i)]
<1>1. last \in Nat
  BY WrapperAssumed
<1>2. ASSUME NEW k \in Nat, NEW f, Runs(f, k) PROVE \E g : Runs(g, k + 1)
  <2> DEFINE g == [i \in 0 .. k + 1 |-> IF i <= k THEN f[i] ELSE MulStage(f[k], k + 1)]
  <2>1. ASSUME NEW i \in 0 .. k + 1
        PROVE  g[i] = IF i = 0 THEN MulLoad(op) ELSE MulStage(g[i - 1], i)
    <3>1. CASE i <= k
      <4>1. i \in 0 .. k /\ (i # 0 => i - 1 \in 0 .. k + 1 /\ i - 1 <= k)
        BY <3>1
      <4>2. f[i] = IF i = 0 THEN MulLoad(op) ELSE MulStage(f[i - 1], i)
        BY <1>2, <4>1
      <4> QED
        BY <3>1, <4>1, <4>2
    <3>2. CASE i = k + 1
      <4>1. i # 0 /\ ~(i <= k) /\ i - 1 = k /\ k \in 0 .. k + 1
        BY <3>2
      <4> QED
        BY <3>2, <4>1
    <3> QED
      BY <3>1, <3>2
  <2>2. Runs(g, k + 1)
    BY <2>1
  <2> QED
    BY <2>2
<1>3. \E f : Runs(f, 0)
  <2> DEFINE f == [i \in 0 .. 0 |-> MulLoad(op)]
  <2>1. f = [i \in 0 .. 0 |-> IF i = 0 THEN MulLoad(op) ELSE MulStage(f[i - 1], i)]
    BY \A i \in 0 .. 0 : i = 0
  <2> QED
    BY <2>1
<1> HIDE DEF Runs
<1>4. \A k \in Nat : \E f : Runs(f, k)
  <2> DEFINE S == {k \in Nat : ~\E f : Runs(f, k)}
  <2>1. CASE S # {}
    <3>1. PICK k \in S : \A t \in S : k <= t
      BY <2>1, LeastExists
    <3>2. k # 0 /\ k \in Nat
      BY <1>3
    <3>3. k - 1 \in Nat /\ k - 1 \notin S
      BY <3>1, <3>2
    <3>4. \E f : Runs(f, k - 1)
      BY <3>3
    <3>5. \E f : Runs(f, k - 1 + 1)
      BY <1>2, <3>3, <3>4
    <3>6. k - 1 + 1 = k
      BY <3>2
    <3> QED
      BY <3>1, <3>5, <3>6
  <2> QED
    BY <2>1
<1>5. MulAfter(op) = CHOOSE f : Runs(f, last)
  BY Zenon DEF MulAfter, Runs
<1>6. Runs(MulAfter(op), last)
  BY <1>1, <1>4, <1>5, Zenon
<1>7. MulAfter(op) = [i \in 0 .. last |-> IF i = 0 THEN MulLoad(op)
                                          ELSE MulStage(MulAfter(op)[i - 1], i)]
  BY <1>6, Zenon DEF Runs
<1>8. 0 \in 0 .. last /\ \A i \in 1 .. last : i \in 0 .. last /\ i # 0
  BY <1>1
<1> QED
  BY <1>7, <1>8

(* The divider likewise.                                                   *)
LEMMA DivAfterIs ==
  ASSUME NEW op
  PROVE  /\ DivAfter(op)[0] = DivLoad(op)
         /\ \A i \in 1 .. DIV_NSTEPS : DivAfter(op)[i] = DivUnit(DivAfter(op)[i - 1])
<1> DEFINE Runs(f, k) == f = [i \in 0 .. k |-> IF i = 0 THEN DivLoad(op) ELSE DivUnit(f[i - 1])]
<1>1. DIV_NSTEPS \in Nat
  BY UnitsAssumption
<1>2. ASSUME NEW k \in Nat, NEW f, Runs(f, k) PROVE \E g : Runs(g, k + 1)
  <2> DEFINE g == [i \in 0 .. k + 1 |-> IF i <= k THEN f[i] ELSE DivUnit(f[k])]
  <2>1. ASSUME NEW i \in 0 .. k + 1
        PROVE  g[i] = IF i = 0 THEN DivLoad(op) ELSE DivUnit(g[i - 1])
    <3>1. CASE i <= k
      <4>1. i \in 0 .. k /\ (i # 0 => i - 1 \in 0 .. k + 1 /\ i - 1 <= k)
        BY <3>1
      <4>2. f[i] = IF i = 0 THEN DivLoad(op) ELSE DivUnit(f[i - 1])
        BY <1>2, <4>1
      <4> QED
        BY <3>1, <4>1, <4>2
    <3>2. CASE i = k + 1
      <4>1. i # 0 /\ ~(i <= k) /\ i - 1 = k /\ k \in 0 .. k + 1
        BY <3>2
      <4> QED
        BY <3>2, <4>1
    <3> QED
      BY <3>1, <3>2
  <2>2. Runs(g, k + 1)
    BY <2>1
  <2> QED
    BY <2>2
<1>3. \E f : Runs(f, 0)
  <2> DEFINE f == [i \in 0 .. 0 |-> DivLoad(op)]
  <2>1. f = [i \in 0 .. 0 |-> IF i = 0 THEN DivLoad(op) ELSE DivUnit(f[i - 1])]
    BY \A i \in 0 .. 0 : i = 0
  <2> QED
    BY <2>1
<1> HIDE DEF Runs
<1>4. \A k \in Nat : \E f : Runs(f, k)
  <2> DEFINE S == {k \in Nat : ~\E f : Runs(f, k)}
  <2>1. CASE S # {}
    <3>1. PICK k \in S : \A t \in S : k <= t
      BY <2>1, LeastExists
    <3>2. k # 0 /\ k \in Nat
      BY <1>3
    <3>3. k - 1 \in Nat /\ k - 1 \notin S
      BY <3>1, <3>2
    <3>4. \E f : Runs(f, k - 1)
      BY <3>3
    <3>5. \E f : Runs(f, k - 1 + 1)
      BY <1>2, <3>3, <3>4
    <3>6. k - 1 + 1 = k
      BY <3>2
    <3> QED
      BY <3>1, <3>5, <3>6
  <2> QED
    BY <2>1
<1>5. DivAfter(op) = CHOOSE f : Runs(f, DIV_NSTEPS)
  BY Zenon DEF DivAfter, Runs
<1>6. Runs(DivAfter(op), DIV_NSTEPS)
  BY <1>1, <1>4, <1>5, Zenon
<1>7. DivAfter(op) = [i \in 0 .. DIV_NSTEPS |-> IF i = 0 THEN DivLoad(op)
                                                ELSE DivUnit(DivAfter(op)[i - 1])]
  BY <1>6, Zenon DEF Runs
<1>8. 0 \in 0 .. DIV_NSTEPS /\ \A i \in 1 .. DIV_NSTEPS : i \in 0 .. DIV_NSTEPS /\ i # 0
  BY <1>1
<1> QED
  BY <1>7, <1>8

(* The register of stage i that holds the operation of a message.          *)
Reg(m, i) == [data |-> [op |-> m.data, regs |-> MulAfter(m.data)[i]], mask |-> m.mask]

RegsExact ==
  /\ multiplier = [i \in 1 .. last |-> {Reg(m, i) : m \in OpsRow[i]}]
  /\ \A i \in 1 .. last : \A m \in OpsRow[i] : m.data \in Operated /\ IsMul(m.data)

(* The wrapper is aligned, its registers are those of the operations in    *)
(* it, and these are in order the operations owed.                         *)
MultInv == RegsExact /\ W!FInv /\ owed.mult = W!Joined

(* A register that a stage has written, and the operation that is in it.   *)
LEMMA RegIs ==
  ASSUME NEW m, Message(m)
  PROVE  /\ \A i : OpOf(Reg(m, i)) = m /\ Reg(m, i).mask = m.mask
         /\ \A i : Reg(m, i).data.op = m.data /\ Reg(m, i).data.regs = MulAfter(m.data)[i]
         /\ [MultEnters(m) EXCEPT !.data.regs = MulStage(@, 1)] = Reg(m, 1)
         /\ \A i \in 1 .. last : i # 1 =>
              [Reg(m, i - 1) EXCEPT !.data.regs = MulStage(@, i)] = Reg(m, i)
<1>1. \A i : OpOf(Reg(m, i)) = m /\ Reg(m, i).mask = m.mask
  BY DEF OpOf, Reg, Message
<1>2. \A i : Reg(m, i).data.op = m.data /\ Reg(m, i).data.regs = MulAfter(m.data)[i]
  BY DEF Reg
<1>3. ASSUME NEW r, NEW i
      PROVE  [[data |-> [op |-> m.data, regs |-> r], mask |-> m.mask]
                EXCEPT !.data.regs = MulStage(@, i)]
               = [data |-> [op |-> m.data, regs |-> MulStage(r, i)], mask |-> m.mask]
  OBVIOUS
<1>4. [MultEnters(m) EXCEPT !.data.regs = MulStage(@, 1)] = Reg(m, 1)
  <2>1. MulAfter(m.data)[1] = MulStage(MulLoad(m.data), 1)
    <3>1. 1 \in 1 .. last /\ 1 - 1 = 0
      BY WrapperAssumed
    <3> QED
      BY <3>1, MulAfterIs
  <2> QED
    BY <1>3, <2>1 DEF MultEnters, Reg
<1>5. ASSUME NEW i \in 1 .. last, i # 1
      PROVE  [Reg(m, i - 1) EXCEPT !.data.regs = MulStage(@, i)] = Reg(m, i)
  <2>1. MulAfter(m.data)[i] = MulStage(MulAfter(m.data)[i - 1], i)
    BY MulAfterIs
  <2> QED
    BY <1>3, <2>1 DEF Reg
<1> QED
  BY <1>1, <1>2, <1>4, <1>5

(* The operations in the registers are messages, one in each at most.      *)
LEMMA RowsAre ==
  ASSUME MultInv
  PROVE  /\ \A i \in 1 .. last : OpsRow[i] = {} \/ \E m : OpsRow[i] = {m} /\ Message(m)
         /\ \A i \in 1 .. last : \A m \in OpsRow[i] : Message(m)
         /\ \A i \in 1 .. last : multiplier[i] = {Reg(m, i) : m \in OpsRow[i]}
<1>1. \A i \in 1 .. last : OpsRow[i] = {} \/ \E m : OpsRow[i] = {m} /\ Message(m)
  BY WrapperAssumed, SameKill DEF MultInv, W!FInv, W!RowsTyped
<1> QED
  BY <1>1 DEF MultInv, RegsExact

(* What the stages write are the registers of the operations before them.  *)
LEMMA InputsAre ==
  ASSUME MultInv, NEW incoming, \A m \in incoming : Message(m), NEW i \in 1 .. last
  PROVE  /\ MultInputs(incoming)[i] = {Reg(m, i) : m \in W!Inputs(incoming)[i]}
         /\ \A m \in W!Inputs(incoming)[i] : Message(m)
         /\ W!Inputs(incoming)[i] = IF i = 1 THEN incoming ELSE OpsRow[i - 1]
<1> DEFINE before == IF i = 1 THEN {MultEnters(m) : m \in incoming} ELSE multiplier[i - 1]
           Staged(r) == [r EXCEPT !.data.regs = MulStage(@, i)]
<1>1. MultInputs(incoming)[i] = {Staged(r) : r \in before}
  BY Zenon DEF MultInputs
<1>2. W!Inputs(incoming)[i] = IF i = 1 THEN incoming ELSE OpsRow[i - 1]
  BY WrapperAssumed DEF W!Inputs
<1>3. CASE i = 1
  <2>1. \A m \in incoming : Staged(MultEnters(m)) = Reg(m, 1)
    BY <1>3, RegIs
  <2>2. before = {MultEnters(m) : m \in incoming}
    BY <1>3
  <2> HIDE DEF Staged, before
  <2>3. {Staged(r) : r \in before} = {Reg(m, 1) : m \in incoming}
    BY <2>1, <2>2
  <2> QED
    BY <1>1, <1>2, <1>3, <2>3
<1>4. CASE i # 1
  <2>1. i - 1 \in 1 .. last
    BY <1>4, WrapperAssumed
  <2>2. \A m \in OpsRow[i - 1] : Message(m) /\ Staged(Reg(m, i - 1)) = Reg(m, i)
    BY <1>4, <2>1, RowsAre, RegIs
  <2>3. before = {Reg(m, i - 1) : m \in OpsRow[i - 1]}
    BY <1>4, <2>1, RowsAre
  <2> HIDE DEF Staged, before
  <2>4. {Staged(r) : r \in before} = {Reg(m, i) : m \in OpsRow[i - 1]}
    BY <2>2, <2>3
  <2> QED
    BY <1>1, <1>2, <1>4, <2>2, <2>4
<1> QED
  BY <1>3, <1>4

(* Both rows move alike.                                                   *)
LEMMA MovesAlike ==
  ASSUME MultInv, NEW kill, NEW take \in BOOLEAN, NEW incoming, \A m \in incoming : Message(m)
  PROVE  /\ Wrapper!Tracked(kill) = W!Tracked(kill)
         /\ Wrapper!Eating(kill) <=> W!Eating(kill)
         /\ Wrapper!OutTake(kill, take) <=> W!OutTake(kill, take)
         /\ \A out, i : Wrapper!TrackShifts(out, i) <=> W!TrackShifts(out, i)
         /\ \A out, i : i \in 1 .. last =>
              (Wrapper!Advances(1 .. last, MultInputs(incoming), out, i)
                <=> W!Advances(1 .. last, W!Inputs(incoming), out, i))
         /\ \A out, i : i \in 1 .. last =>
              (Wrapper!Leaves(1 .. last, MultInputs(incoming), out, i)
                <=> W!Leaves(1 .. last, W!Inputs(incoming), out, i))
<1>1. /\ last \in Nat /\ last >= 1 /\ last = MUL_NSTAGES
      /\ W!Stages = 1 .. last /\ Wrapper!Stages = 1 .. last
  BY WrapperAssumed
<1>2. \A i \in 1 .. last : multiplier[i] = {} <=> OpsRow[i] = {}
  BY RowsAre
<1>3. \A i \in 1 .. last : MultInputs(incoming)[i] = {} <=> W!Inputs(incoming)[i] = {}
  BY InputsAre
<1>4. Wrapper!Tracked(kill) = W!Tracked(kill)
  BY <1>1, SameKill DEF Wrapper!Tracked, W!Tracked
<1>5. Wrapper!Eating(kill) <=> W!Eating(kill)
  BY <1>1, <1>2, <1>4 DEF Wrapper!Eating, W!Eating
<1>6. Wrapper!OutTake(kill, take) <=> W!OutTake(kill, take)
  BY <1>5 DEF Wrapper!OutTake, W!OutTake
<1>7. \A out, i : Wrapper!TrackShifts(out, i) <=> W!TrackShifts(out, i)
  BY DEF Wrapper!TrackShifts, W!TrackShifts
<1>8. ASSUME NEW out, NEW i \in 1 .. last
      PROVE  Wrapper!Advances(1 .. last, MultInputs(incoming), out, i)
               <=> W!Advances(1 .. last, W!Inputs(incoming), out, i)
  <2>1. \A j \in i .. MUL_NSTAGES : multiplier[j] = {} <=> OpsRow[j] = {}
    <3>1. \A j \in i .. MUL_NSTAGES : j \in 1 .. last
      BY <1>1
    <3> QED
      BY <1>2, <3>1
  <2> QED
    BY <1>3, <2>1 DEF Wrapper!Advances, W!Advances
<1>9. ASSUME NEW out, NEW i \in 1 .. last
      PROVE  Wrapper!Leaves(1 .. last, MultInputs(incoming), out, i)
               <=> W!Leaves(1 .. last, W!Inputs(incoming), out, i)
  <2>1. i # MUL_NSTAGES => i + 1 \in 1 .. last
    BY <1>1
  <2> QED
    BY <1>8, <2>1 DEF Wrapper!Leaves, W!Leaves
<1> QED
  BY <1>4, <1>5, <1>6, <1>7, <1>8, <1>9

(* A cycle of the multiplier, seen on the operations: the wrapper moves    *)
(* them, and the registers stay those of the operations.                   *)
LEMMA CycleRows ==
  ASSUME MultInv, NEW kill, NEW take \in BOOLEAN, NEW incoming,
         \A m \in incoming : Message(m) /\ m.data \in Operated /\ IsMul(m.data),
         MultCycle(kill, take, incoming)
  PROVE  W!PipeCycle(kill, 1 .. last, W!Inputs(incoming), take) /\ RegsExact'
<1> DEFINE inputs == MultInputs(incoming)
           ops == W!Inputs(incoming)
           out == W!OutTake(kill, take)
           next(i) == RegNext(OpsRow[i], W!Leaves(1 .. last, ops, out, i),
                              IF W!Advances(1 .. last, ops, out, i) THEN ops[i] ELSE {})
           enter(row) == {[mask |-> m.mask, dead |-> FALSE] :
                            m \in IF W!Advances(1 .. last, ops, out, 1) THEN row[1] ELSE {}}
           tadded(row, i) == IF i = 1 THEN enter(row)
                             ELSE IF W!TrackShifts(out, i - 1) THEN W!Tracked(kill)[i - 1] ELSE {}
           ttaken(i) == IF i = last THEN out ELSE W!TrackShifts(out, i)
<1>1. /\ last \in Nat /\ last >= 1 /\ last = MUL_NSTAGES /\ 1 \in 1 .. last
      /\ W!Stages = 1 .. last /\ Wrapper!Stages = 1 .. last
  BY WrapperAssumed
<1>2. \A i \in 1 .. last : /\ inputs[i] = {Reg(m, i) : m \in ops[i]}
                           /\ ops[i] = IF i = 1 THEN incoming ELSE OpsRow[i - 1]
                           /\ \A m \in ops[i] : Message(m)
  BY InputsAre
<1>3. /\ Wrapper!Tracked(kill) = W!Tracked(kill)
      /\ Wrapper!OutTake(kill, take) = out
      /\ \A o, i : Wrapper!TrackShifts(o, i) = W!TrackShifts(o, i)
      /\ \A o, i : i \in 1 .. last =>
           (Wrapper!Advances(1 .. last, inputs, o, i) = W!Advances(1 .. last, ops, o, i))
      /\ \A o, i : i \in 1 .. last =>
           (Wrapper!Leaves(1 .. last, inputs, o, i) <=> W!Leaves(1 .. last, ops, o, i))
  <2>1. /\ Wrapper!OutTake(kill, take) \in BOOLEAN /\ out \in BOOLEAN
        /\ \A o, i : Wrapper!TrackShifts(o, i) \in BOOLEAN /\ W!TrackShifts(o, i) \in BOOLEAN
        /\ \A o, i : Wrapper!Advances(1 .. last, inputs, o, i) \in BOOLEAN
                     /\ W!Advances(1 .. last, ops, o, i) \in BOOLEAN
    BY Zenon DEF Wrapper!OutTake, W!OutTake, Wrapper!TrackShifts, W!TrackShifts,
                 Wrapper!Advances, W!Advances
  <2>2. /\ Wrapper!Tracked(kill) = W!Tracked(kill)
        /\ Wrapper!OutTake(kill, take) <=> out
        /\ \A o, i : Wrapper!TrackShifts(o, i) <=> W!TrackShifts(o, i)
        /\ \A o, i : i \in 1 .. last =>
             (Wrapper!Advances(1 .. last, inputs, o, i) <=> W!Advances(1 .. last, ops, o, i))
        /\ \A o, i : i \in 1 .. last =>
             (Wrapper!Leaves(1 .. last, inputs, o, i) <=> W!Leaves(1 .. last, ops, o, i))
    BY MovesAlike, Zenon
  <2> HIDE DEF inputs, ops, out
  <2> QED
    BY <2>1, <2>2
<1> HIDE DEF inputs, ops, out
<1>4. multiplier' = [i \in Wrapper!Stages |->
         Wrapper!RegNext(multiplier[i], Wrapper!Leaves(1 .. last, inputs, Wrapper!OutTake(kill, take), i),
           IF Wrapper!Advances(1 .. last, inputs, Wrapper!OutTake(kill, take), i) THEN inputs[i] ELSE {})]
  BY Zenon DEF MultCycle, Wrapper!PipeCycle, inputs
<1>5. mult_vvms' = [i \in 1 .. last |-> RegNext(W!Tracked(kill)[i], ttaken(i), tadded(inputs, i))]
  BY <1>1, <1>3, SameKill, Zenon DEF MultCycle, Wrapper!PipeCycle, inputs
<1>6. \A i \in 1 .. last : next(i) = {} \/ \A m \in next(i) : Message(m)
  BY <1>2, RowsAre DEF RegNext
<1>7. ASSUME NEW i \in 1 .. last
      PROVE  multiplier'[i] = {Reg(m, i) : m \in next(i)}
  <2> DEFINE goes == W!Leaves(1 .. last, ops, out, i)
             comes == W!Advances(1 .. last, ops, out, i)
  <2>1. multiplier'[i] = RegNext(multiplier[i], Wrapper!Leaves(1 .. last, inputs, out, i),
                                 IF Wrapper!Advances(1 .. last, inputs, out, i) THEN inputs[i] ELSE {})
    BY <1>1, <1>3, <1>4, SameKill, Zenon
  <2>2. multiplier'[i] = RegNext(multiplier[i], goes, IF comes THEN inputs[i] ELSE {})
    BY <1>3, <2>1 DEF RegNext
  <2>3. multiplier[i] = {Reg(m, i) : m \in OpsRow[i]} /\ inputs[i] = {Reg(m, i) : m \in ops[i]}
    BY <1>2, RowsAre
  <2> HIDE DEF goes, comes
  <2>4. next(i) = RegNext(OpsRow[i], goes, IF comes THEN ops[i] ELSE {})
    BY DEF goes, comes
  <2> HIDE DEF next
  <2> QED
    BY <2>2, <2>3, <2>4 DEF RegNext
<1>8. OpsRow' = [i \in 1 .. last |-> next(i)]
  <2>1. ASSUME NEW i \in 1 .. last PROVE {OpOf(r) : r \in multiplier'[i]} = next(i)
    <3>1. \A m \in next(i) : OpOf(Reg(m, i)) = m
      BY <1>6, RegIs
    <3> HIDE DEF next
    <3> QED
      BY <1>7, <3>1
  <2> HIDE DEF next
  <2> QED
    BY <2>1 DEF OpsRow, last
<1>9. mult_vvms' = [i \in 1 .. last |-> RegNext(W!Tracked(kill)[i], ttaken(i), tadded(ops, i))]
  <2>1. enter(inputs) = enter(ops)
    <3>1. \A m \in ops[1] : Reg(m, 1).mask = m.mask
      BY <1>1, <1>2, RegIs
    <3> QED
      BY <1>1, <1>2, <3>1
  <2> HIDE DEF enter
  <2> QED
    BY <1>5, <2>1
<1>10. W!PipeCycle(kill, 1 .. last, ops, take)
  BY <1>1, <1>8, <1>9, SameKill, Zenon DEF W!PipeCycle, out
<1>11. RegsExact'
  <2>1. last' = last
    BY DEF last
  <2>2. multiplier' = [i \in 1 .. last |-> {Reg(m, i) : m \in next(i)}]
    <3>1. multiplier' = [i \in 1 .. last |-> multiplier'[i]]
      BY <1>1, <1>4
    <3> HIDE DEF next
    <3> QED
      BY <1>7, <3>1
  <2>3. \A i \in 1 .. last : \A m \in next(i) : m.data \in Operated /\ IsMul(m.data)
    <3>1. \A i \in 1 .. last : \A m \in OpsRow[i] : m.data \in Operated /\ IsMul(m.data)
      BY DEF MultInv, RegsExact
    <3>2. \A i \in 1 .. last : i # 1 => i - 1 \in 1 .. last
      BY <1>1
    <3>3. \A i \in 1 .. last : \A m \in ops[i] : m.data \in Operated /\ IsMul(m.data)
      BY <1>2, <3>1, <3>2
    <3> QED
      BY <3>1, <3>3 DEF RegNext
  <2>4. \A i \in 1 .. last : OpsRow'[i] = next(i)
    BY <1>8
  <2> HIDE DEF next
  <2>5. multiplier' = [i \in 1 .. last |-> {Reg(m, i) : m \in OpsRow'[i]}]
    BY <2>2, <2>4
  <2>6. \A m, i : Reg(m, i)' = Reg(m, i)
    BY DEF Reg, MulAfter, last
  <2> QED
    BY <2>1, <2>3, <2>4, <2>5, <2>6 DEF RegsExact, Reg
<1> QED
  BY <1>10, <1>11 DEF ops

(* A cycle of the multiplier keeps its invariant: what the wrapper's queue *)
(* loses and gains is what the operations owed lose and gain.              *)
LEMMA MultMoves ==
  ASSUME MultInv, NEW kill, NEW take \in BOOLEAN, NEW incoming, W!OneMessage(incoming),
         \A m \in incoming : m.data \in Operated /\ IsMul(m.data),
         take => W!OutPeek(kill) # {},
         MultCycle(kill, take, incoming), NEW taken,
         taken = IF MultTakes(kill, take, incoming) THEN incoming ELSE {},
         owed'.mult = OwedNext(owed.mult, kill, take, taken)
  PROVE  MultInv'
<1> DEFINE ops == W!Inputs(incoming)
           entering == W!Admitted(1 .. last, ops, W!OutTake(kill, take), incoming)
<1>1. \A m \in incoming : Message(m)
  BY SameKill DEF W!OneMessage
<1>2. W!PipeCycle(kill, 1 .. last, ops, take) /\ RegsExact'
  BY <1>1, CycleRows
<1>3. W!FInv /\ W!Aligned /\ W!RowsTyped
  BY DEF MultInv, W!FInv
<1>4. W!Fed(ops)
  BY Zenon DEF W!Fed, W!Inputs
<1>5. W!Aligned'
  BY <1>2, <1>3, <1>4, WrapperAssumed, W!CycleAligned
<1>6. W!RowsTyped'
  BY <1>2, <1>3, WrapperAssumed, W!RowsTypedAfter
<1>7. W!QueueMoves(kill, take, entering)
  BY <1>2, <1>3, WrapperAssumed, W!CycleMovesQueue
<1>8. entering = taken
  <2>1. MultTakes(kill, take, incoming) <=> W!Advances(1 .. last, ops, W!OutTake(kill, take), 1)
    <3>1. 1 \in 1 .. last
      BY WrapperAssumed
    <3>2. Wrapper!OutTake(kill, take) \in BOOLEAN /\ W!OutTake(kill, take) \in BOOLEAN
      BY Zenon DEF Wrapper!OutTake, W!OutTake
    <3>3. Wrapper!OutTake(kill, take) <=> W!OutTake(kill, take)
      BY <1>1, MovesAlike, Zenon
    <3>4. Wrapper!OutTake(kill, take) = W!OutTake(kill, take)
      BY <3>2, <3>3
    <3> QED
      BY <1>1, <3>1, <3>4, MovesAlike, Zenon DEF MultTakes
  <2> QED
    BY <2>1 DEF W!Admitted
<1>9. owed.mult = W!Joined
  BY DEF MultInv
<1>10. W!Joined' = OwedNext(owed.mult, kill, take, taken)
  <2>1. W!ShownOf(W!Joined, kill) = Spared(owed.mult, kill)
    BY <1>9, SparedIs
  <2> HIDE DEF entering
  <2>2. W!Rest(Spared(owed.mult, kill), take)
          = IF take THEN Tail(Spared(owed.mult, kill)) ELSE Spared(owed.mult, kill)
    BY Zenon DEF W!Rest
  <2>3. W!The(taken) = CHOOSE m \in taken : TRUE
    BY DEF W!The
  <2> QED
    BY <1>7, <1>8, <2>1, <2>2, <2>3 DEF W!QueueMoves, OwedNext
<1> QED
  BY <1>2, <1>5, <1>6, <1>10 DEF MultInv, W!FInv

(* What the multiplier shows is the operation the wrapper shows, with what *)
(* its last register makes of it.                                          *)
LEMMA MultShows ==
  ASSUME MultInv, NEW kill
  PROVE  /\ MultPeek(kill) = {Shows(m.data, m.mask, MulResult(m.data, MulAfter(m.data)[last])) :
                                m \in W!OutPeek(kill)}
         /\ \A m \in W!OutPeek(kill) : m.data \in Operated /\ IsMul(m.data)
<1>1. last \in 1 .. last /\ last = MUL_NSTAGES
  BY WrapperAssumed
<1>2. Wrapper!Tracked(kill) = W!Tracked(kill)
  BY WrapperAssumed, SameKill DEF Wrapper!Tracked, W!Tracked
<1> DEFINE V == {x \in W!Tracked(kill)[last] : ~x.dead}
           R == multiplier[last]
           O == OpsRow[last]
           result(r) == Shows(r.data.op, r.mask, MulResult(r.data.op, r.data.regs))
<1>3. Wrapper!OutPeek(kill) = {[r EXCEPT !.mask = v.mask] : r \in R, v \in V}
  <2>1. Wrapper!OutPeek(kill) =
          {[r EXCEPT !.mask = v.mask] : r \in multiplier[last],
                                        v \in {x \in Wrapper!Tracked(kill)[last] : ~x.dead}}
    BY DEF Wrapper!OutPeek, last
  <2> QED
    BY <1>2, <2>1
<1>4. W!OutPeek(kill) = {[m EXCEPT !.mask = v.mask] : m \in O, v \in V}
  BY DEF W!OutPeek, last
<1>5. MultPeek(kill) = {result(r) : r \in Wrapper!OutPeek(kill)}
  BY Zenon DEF MultPeek
<1>6. R = {Reg(m, last) : m \in O} /\ \A m \in O : Message(m) /\ m.data \in Operated /\ IsMul(m.data)
  BY <1>1, RowsAre DEF MultInv, RegsExact
<1> HIDE DEF V, R, O, result
<1>7. ASSUME NEW m \in O, NEW v \in V
      PROVE  /\ [Reg(m, last) EXCEPT !.mask = v.mask] = Reg([data |-> m.data, mask |-> v.mask], last)
             /\ [m EXCEPT !.mask = v.mask] = [data |-> m.data, mask |-> v.mask]
  <2>1. Message(m)
    BY <1>6
  <2> QED
    BY <2>1, WithMask DEF Reg
<1>8. \A m : result(Reg(m, last)) = Shows(m.data, m.mask, MulResult(m.data, MulAfter(m.data)[last]))
  BY DEF Reg, result
<1> DEFINE withMask(m, v) == [data |-> m.data, mask |-> v.mask]
<1>9. Wrapper!OutPeek(kill) = {Reg(withMask(m, v), last) : m \in O, v \in V}
  <2> DEFINE f(r, v) == [r EXCEPT !.mask = v.mask]
  <2>1. \A m \in O, v \in V : f(Reg(m, last), v) = Reg(withMask(m, v), last)
    BY <1>7
  <2>2. Wrapper!OutPeek(kill) = {f(r, v) : r \in R, v \in V}
    BY <1>3
  <2> HIDE DEF f, withMask
  <2> QED
    BY <1>6, <2>1, <2>2
<1>10. W!OutPeek(kill) = {withMask(m, v) : m \in O, v \in V}
  <2> DEFINE f(m, v) == [m EXCEPT !.mask = v.mask]
  <2>1. \A m \in O, v \in V : f(m, v) = withMask(m, v)
    BY <1>7
  <2>2. W!OutPeek(kill) = {f(m, v) : m \in O, v \in V}
    BY <1>4
  <2> HIDE DEF f, withMask
  <2> QED
    BY <2>1, <2>2
<1>11. \A m \in W!OutPeek(kill) : m.data \in Operated /\ IsMul(m.data)
  <2>1. \A m \in O, v \in V : withMask(m, v).data = m.data
    OBVIOUS
  <2> HIDE DEF withMask
  <2> QED
    BY <1>6, <1>10, <2>1
<1> HIDE DEF withMask
<1>12. MultPeek(kill) = {Shows(m.data, m.mask, MulResult(m.data, MulAfter(m.data)[last])) :
                           m \in W!OutPeek(kill)}
  BY <1>5, <1>8, <1>9, <1>10
<1> QED
  BY <1>11, <1>12

(* If the multiplier computes the answer, that of the oldest operation it  *)
(* owes is what it shows.                                                  *)
LEMMA MultExact ==
  ASSUME UnitsExact, MultInv, NEW kill, NEW r \in MultPeek(kill)
  PROVE  IsAnswer(r, Spared(owed.mult, kill))
<1> DEFINE s == Spared(owed.mult, kill)
<1>1. PICK m \in W!OutPeek(kill) :
        /\ r = Shows(m.data, m.mask, MulResult(m.data, MulAfter(m.data)[last]))
        /\ m.data \in Operated /\ IsMul(m.data)
  BY MultShows
<1>2. W!ShownOf(W!Joined, kill) = s
  BY SparedIs DEF MultInv
<1>3. s # <<>> /\ W!OutPeek(kill) = {Head(s)}
  BY <1>1, <1>2, WrapperAssumed, W!ShownFirst DEF MultInv
<1> HIDE DEF s
<1>4. m = Head(s)
  BY <1>3
<1>5. MulResult(m.data, MulAfter(m.data)[last]) = Answer(m.data)
  BY <1>1 DEF UnitsExact
<1> QED
  BY <1>1, <1>3, <1>4, <1>5 DEF IsAnswer, s

(* What is left of a division is in the divider: its registers when so     *)
(* many cycles are still to come.                                          *)
DivRegs(op, left) ==
  IF left = 0 THEN DivLast(DivAfter(op)[DIV_NSTEPS]) ELSE DivAfter(op)[DIV_NSTEPS - left]

Idle(d, reg, queue) == ~d.busy /\ reg = {} /\ queue = <<>>

Dividing(d, reg, queue, m) ==
  /\ Message(m) /\ m.data \in Operated /\ ~IsMul(m.data)
  /\ d.busy /\ reg = {m} /\ queue = <<m>>
  /\ d.regs = DivRegs(m.data, d.counter)

DivTyped(d) ==
  /\ d = [regs |-> d.regs, counter |-> d.counter, busy |-> d.busy]
  /\ d.counter \in 0 .. DIV_NSTEPS /\ d.busy \in BOOLEAN

(* The divider is idle, or busy with the one operation it owes.            *)
DivOK(d, reg, queue) ==
  DivTyped(d) /\ (Idle(d, reg, queue) \/ \E m : Dividing(d, reg, queue, m))

DivInv == DivOK(divider, div_vvm, owed.div)

(* What a kill leaves of a message, of none, and of one in a queue.        *)
LEMMA SparedOne ==
  ASSUME NEW kill
  PROVE  /\ Spared(<<>>, kill) = <<>> /\ Peek({}, kill) = {}
         /\ \A m : Peek({m}, kill) = IF Keep(m, kill) THEN {Cleared(m, kill)} ELSE {}
         /\ \A m : Spared(<<m>>, kill) = IF Keep(m, kill) THEN <<Cleared(m, kill)>> ELSE <<>>
         /\ \A m : Message(m) => Message(Cleared(m, kill)) /\ Cleared(m, kill).data = m.data
<1> DEFINE kept(s) == {i \in DOMAIN s : Keep(s[i], kill)}
           spared(s) == [n \in 1 .. Cardinality(kept(s)) |-> Cleared(s[Nth(kept(s), n)], kill)]
<1>1. \A s : Spared(s, kill) = spared(s)
  BY Zenon DEF Spared
<1>2. ASSUME NEW s, kept(s) = {} PROVE spared(s) = <<>>
  <2>1. Cardinality(kept(s)) = 0 /\ 1 .. 0 = {}
    BY <1>2, FS_EmptySet
  <2>2. DOMAIN spared(s) = {}
    BY <2>1
  <2>3. spared(s) = [n \in {} |-> spared(s)[n]]
    BY <2>1
  <2> HIDE DEF spared
  <2> QED
    BY <2>3
<1>3. kept(<<>>) = {}
  OBVIOUS
<1>4. ASSUME NEW m, ~Keep(m, kill) PROVE kept(<<m>>) = {}
  BY <1>4
<1>5. ASSUME NEW m, Keep(m, kill) PROVE spared(<<m>>) = <<Cleared(m, kill)>>
  <2>1. kept(<<m>>) = {1}
    BY <1>5
  <2>2. Cardinality({1}) = 1
    BY FS_Singleton
  <2>3. Nth({1}, 1) = 1
    <3>1. {1} \in SUBSET (1 .. 1) /\ 1 \in {1} /\ 1 \in Nat
      OBVIOUS
    <3> QED
      BY <3>1, FirstPlace
  <2>4. spared(<<m>>) = [n \in 1 .. 1 |-> Cleared(<<m>>[Nth({1}, n)], kill)]
    BY <2>1, <2>2
  <2>5. \A n \in 1 .. 1 : Cleared(<<m>>[Nth({1}, n)], kill) = Cleared(m, kill)
    <3>1. \A n \in 1 .. 1 : n = 1
      OBVIOUS
    <3> QED
      BY <2>3, <3>1
  <2> DEFINE c == Cleared(m, kill)
  <2>6. spared(<<m>>) = [n \in 1 .. 1 |-> c]
    BY <2>4, <2>5
  <2> HIDE DEF c, spared
  <2>7. [n \in 1 .. 1 |-> c] = <<c>>
    OBVIOUS
  <2> QED
    BY <2>6, <2>7 DEF c
<1>6. ASSUME NEW m, Message(m)
      PROVE  Message(Cleared(m, kill)) /\ Cleared(m, kill).data = m.data
  <2>1. Cleared(m, kill) = [data |-> m.data, mask |-> m.mask \ kill.clear_mask]
    BY <1>6, WithMask DEF Cleared
  <2> QED
    BY <2>1 DEF Message
<1> HIDE DEF kept, spared
<1>7. \A m : Peek({m}, kill) = IF Keep(m, kill) THEN {Cleared(m, kill)} ELSE {}
  <2> SUFFICES ASSUME NEW m PROVE Peek({m}, kill) = IF Keep(m, kill) THEN {Cleared(m, kill)} ELSE {}
    OBVIOUS
  <2>1. {x \in {m} : Keep(x, kill)} = IF Keep(m, kill) THEN {m} ELSE {}
    OBVIOUS
  <2> QED
    BY <2>1 DEF Peek
<1>8. Peek({}, kill) = {}
  BY DEF Peek
<1> QED
  BY <1>1, <1>2, <1>3, <1>4, <1>5, <1>6, <1>7, <1>8

(* A cycle of the divider keeps it idle, or busy with what it owes.        *)
LEMMA DivMoves ==
  ASSUME DivInv, NEW kill, NEW take \in BOOLEAN, NEW incoming, W!OneMessage(incoming),
         \A m \in incoming : m.data \in Operated /\ ~IsMul(m.data),
         take => DivPeek(kill) # {},
         DivCycle(kill, take, incoming), NEW taken,
         taken = IF DivTakes(take, incoming) THEN incoming ELSE {},
         owed'.div = OwedNext(owed.div, kill, take, taken)
  PROVE  DivInv'
<1>1. /\ divider' = DividerNext(taken, take, Preempt(kill))
      /\ div_vvm' = RegNext(Peek(div_vvm, kill), take, taken)
  BY Zenon DEF DivCycle
<1>2. DIV_NSTEPS \in Nat /\ DIV_NSTEPS > 0 /\ divider.counter \in 0 .. DIV_NSTEPS
      /\ divider.busy \in BOOLEAN
      /\ divider = [regs |-> divider.regs, counter |-> divider.counter, busy |-> divider.busy]
  BY UnitsAssumption DEF DivInv, DivOK, DivTyped
<1> DEFINE runs == DividerRuns
           c == divider.counter
<1>3. /\ runs.busy = divider.busy /\ DivTyped(runs)
      /\ runs.counter = IF c = 0 THEN 0 ELSE c - 1
      /\ runs.regs = IF c = 0 THEN divider.regs
                     ELSE IF c = 1 THEN DivLast(DivUnit(divider.regs)) ELSE DivUnit(divider.regs)
  <2> DEFINE g == IF c = 1 THEN DivLast(DivUnit(divider.regs)) ELSE DivUnit(divider.regs)
  <2>1. CASE c = 0
    BY <1>2, <2>1 DEF DividerRuns, DivTyped
  <2>2. CASE c # 0
    <3>1. runs = [divider EXCEPT !.regs = g, !.counter = c - 1]
      BY <2>2 DEF DividerRuns
    <3>2. runs = [regs |-> g, counter |-> c - 1, busy |-> divider.busy]
      BY <1>2, <3>1
    <3>3. c - 1 \in 0 .. DIV_NSTEPS
      BY <1>2, <2>2
    <3> HIDE DEF runs, g
    <3>4. DivTyped(runs) /\ runs.busy = divider.busy /\ runs.counter = c - 1 /\ runs.regs = g
      BY <1>2, <3>2, <3>3 DEF DivTyped
    <3> QED
      BY <2>2, <3>4 DEF g
  <2> QED
    BY <2>1, <2>2
<1> HIDE DEF runs, c
\* one comes in
<1>4. CASE taken # {}
  <2>1. PICK m : taken = {m} /\ Message(m) /\ m.data \in Operated /\ ~IsMul(m.data)
    BY <1>4, SameKill DEF W!OneMessage
  <2>2. (CHOOSE x \in taken : TRUE) = m
    BY <2>1
  <2>3. divider' = [regs |-> DivLoad(m.data), counter |-> DIV_NSTEPS, busy |-> TRUE]
    BY <1>1, <1>4, <2>2 DEF DividerNext, DividerLoaded
  <2>4. div_vvm' = {m}
    BY <1>1, <1>4, <2>1 DEF RegNext
  <2>5. (IF take THEN Tail(Spared(owed.div, kill)) ELSE Spared(owed.div, kill)) = <<>>
    <3>1. divider.busy => take
      BY <1>4 DEF DivTakes
    <3>2. CASE Idle(divider, div_vvm, owed.div)
      <4>1. ~take
        BY <1>2, <3>2 DEF Idle, DivPeek
      <4> QED
        BY <3>2, <4>1, SparedOne DEF Idle
    <3>3. ASSUME NEW x, Dividing(divider, div_vvm, owed.div, x)
          PROVE  Tail(Spared(owed.div, kill)) = <<>>
      <4>1. take
        BY <3>1, <3>3 DEF Dividing
      <4>2. Keep(x, kill)
        <5>1. Peek(div_vvm, kill) # {}
          BY <4>1 DEF DivPeek
        <5> QED
          BY <3>3, <5>1, SparedOne DEF Dividing
      <4>3. Spared(owed.div, kill) = <<Cleared(x, kill)>>
        BY <3>3, <4>2, SparedOne DEF Dividing
      <4> QED
        BY <4>3
    <3> QED
      BY <3>1, <3>2, <3>3 DEF DivInv, DivOK, Dividing
  <2>6. owed'.div = <<m>>
    <3>1. owed'.div = Append(<<>>, m)
      BY <1>4, <2>2, <2>5, Zenon DEF OwedNext
    <3> QED
      BY <3>1
  <2>7. DivRegs(m.data, DIV_NSTEPS) = DivLoad(m.data)
    BY <1>2, DivAfterIs DEF DivRegs
  <2>8. DivTyped(divider') /\ Dividing(divider', div_vvm', owed'.div, m)
    BY <1>2, <2>1, <2>3, <2>4, <2>6, <2>7 DEF DivTyped, Dividing
  <2> QED
    BY <2>8 DEF DivInv, DivOK, DivTyped, Idle, Dividing, DivRegs, DivAfter
\* none comes in
<1>5. CASE taken = {}
  <2> DEFINE busy == runs.busy /\ ~take /\ ~Preempt(kill)
  <2>1. divider' = [runs EXCEPT !.busy = busy]
    BY <1>1, <1>5 DEF DividerNext, runs
  <2>2. busy \in BOOLEAN
    BY <1>3 DEF DivTyped
  <2>3. divider' = [regs |-> runs.regs, counter |-> runs.counter, busy |-> busy]
    <3> HIDE DEF busy
    <3> QED
      BY <1>3, <2>1 DEF DivTyped
  <2>4. DivTyped(divider') /\ divider'.busy = busy /\ divider'.counter = runs.counter
        /\ divider'.regs = runs.regs
    <3> HIDE DEF busy
    <3> QED
      BY <1>3, <2>2, <2>3 DEF DivTyped
  <2>5. /\ div_vvm' = IF take THEN {} ELSE Peek(div_vvm, kill)
        /\ owed'.div = IF take THEN Tail(Spared(owed.div, kill)) ELSE Spared(owed.div, kill)
    BY <1>1, <1>5, Zenon DEF RegNext, OwedNext
  <2>6. CASE Idle(divider, div_vvm, owed.div)
    <3>1. ~take
      BY <1>2, <2>6 DEF Idle, DivPeek
    <3>2. Idle(divider', div_vvm', owed'.div)
      BY <1>3, <2>4, <2>5, <2>6, <3>1, SparedOne DEF Idle
    <3> QED
      BY <2>4, <3>2 DEF DivInv, DivOK, DivTyped, Idle, Dividing, DivRegs, DivAfter
  <2>7. ASSUME NEW m, Dividing(divider, div_vvm, owed.div, m)
        PROVE  DivInv'
    <3>0. Message(m) /\ divider.busy /\ div_vvm = {m} /\ owed.div = <<m>>
      BY <2>7 DEF Dividing
    <3>1. CASE ~Keep(m, kill)
      <4>1. Peek(div_vvm, kill) = {} /\ Spared(owed.div, kill) = <<>>
        BY <3>0, <3>1, SparedOne
      <4>2. ~take /\ Preempt(kill)
        BY <3>0, <4>1 DEF DivPeek, Preempt
      <4>3. Idle(divider', div_vvm', owed'.div)
        BY <2>4, <2>5, <4>1, <4>2 DEF Idle
      <4> QED
        BY <2>4, <4>3 DEF DivInv, DivOK, DivTyped, Idle, Dividing, DivRegs, DivAfter
    <3>2. CASE Keep(m, kill) /\ take
      <4>1. Spared(owed.div, kill) = <<Cleared(m, kill)>>
        BY <3>0, <3>2, SparedOne
      <4>2. owed'.div = <<>>
        <5>1. Tail(<<Cleared(m, kill)>>) = <<>>
          OBVIOUS
        <5> QED
          BY <2>5, <3>2, <4>1, <5>1
      <4>3. Idle(divider', div_vvm', owed'.div)
        BY <2>4, <2>5, <3>2, <4>2 DEF Idle
      <4> QED
        BY <2>4, <4>3 DEF DivInv, DivOK, DivTyped, Idle, Dividing, DivRegs, DivAfter
    <3>3. CASE Keep(m, kill) /\ ~take
      <4> DEFINE k == Cleared(m, kill)
      <4>1. Spared(owed.div, kill) = <<k>> /\ Peek(div_vvm, kill) = {k}
            /\ Message(k) /\ k.data = m.data
        BY <3>0, <3>3, SparedOne
      <4> HIDE DEF k
      <4>2. ~Preempt(kill)
        BY <4>1 DEF Preempt
      <4>3. divider'.busy /\ div_vvm' = {k} /\ owed'.div = <<k>>
        BY <1>3, <2>4, <2>5, <3>0, <3>3, <4>1, <4>2
      <4>4. runs.regs = DivRegs(m.data, runs.counter)
        <5>1. divider.regs = DivRegs(m.data, c)
          BY <2>7 DEF Dividing, c
        <5>2. c \in 0 .. DIV_NSTEPS
          BY <1>2 DEF c
        <5>3. CASE c = 0
          BY <1>3, <5>1, <5>3
        <5>4. CASE c # 0
          <6>1. DIV_NSTEPS - c + 1 \in 1 .. DIV_NSTEPS /\ DIV_NSTEPS - c + 1 - 1 = DIV_NSTEPS - c
            BY <1>2, <5>2, <5>4
          <6>2. DivUnit(divider.regs) = DivAfter(m.data)[DIV_NSTEPS - c + 1]
            <7> DEFINE i == DIV_NSTEPS - c + 1
            <7>1. DivAfter(m.data)[i] = DivUnit(DivAfter(m.data)[i - 1])
              BY <6>1, DivAfterIs
            <7>2. divider.regs = DivAfter(m.data)[DIV_NSTEPS - c]
              BY <5>1, <5>4, Zenon DEF DivRegs
            <7>3. i - 1 = DIV_NSTEPS - c
              <8>1. DIV_NSTEPS \in Int /\ c \in Int
                BY <1>2, <5>2
              <8> QED
                BY <8>1
            <7>4. DivAfter(m.data)[i] = DivUnit(divider.regs)
              BY <7>1, <7>2, <7>3, Zenon
            <7> QED
              BY <7>4
          <6>3. c = 1 => DIV_NSTEPS - c + 1 = DIV_NSTEPS
            BY <1>2
          <6>4. DIV_NSTEPS - (c - 1) = DIV_NSTEPS - c + 1 /\ (c # 1 => c - 1 # 0)
            BY <1>2, <5>2
          <6> QED
            BY <1>3, <5>4, <6>2, <6>3, <6>4 DEF DivRegs
        <5> QED
          BY <5>3, <5>4
      <4>5. Dividing(divider', div_vvm', owed'.div, k)
        BY <2>4, <2>7, <4>1, <4>3, <4>4 DEF Dividing
      <4> QED
        BY <2>4, <4>5 DEF DivInv, DivOK, DivTyped, Idle, Dividing, DivRegs, DivAfter
    <3> QED
      BY <3>1, <3>2, <3>3
  <2> QED
    BY <2>6, <2>7 DEF DivInv, DivOK
<1> QED
  BY <1>4, <1>5

(* If the divider computes the answer, that of the operation it owes is    *)
(* what it shows.                                                          *)
LEMMA DivExact ==
  ASSUME UnitsExact, DivInv, NEW kill, NEW r \in DivPeek(kill)
  PROVE  IsAnswer(r, Spared(owed.div, kill))
<1>1. divider.busy /\ divider.counter = 0 /\ Peek(div_vvm, kill) # {}
  BY DEF DivPeek
<1>2. PICK m : Dividing(divider, div_vvm, owed.div, m)
  BY <1>1 DEF DivInv, DivOK, Idle
<1>3. Message(m) /\ m.data \in Operated /\ ~IsMul(m.data) /\ div_vvm = {m} /\ owed.div = <<m>>
      /\ divider.regs = DivLast(DivAfter(m.data)[DIV_NSTEPS])
  BY <1>1, <1>2 DEF Dividing, DivRegs
<1> DEFINE k == Cleared(m, kill)
<1>4. Peek(div_vvm, kill) = {k} /\ Spared(owed.div, kill) = <<k>> /\ k.data = m.data
  BY <1>1, <1>3, SparedOne
<1> HIDE DEF k
<1>5. r = Shows(k.data, k.mask, DivResult(k.data, divider.regs))
  BY <1>1, <1>4 DEF DivPeek
<1>6. Answer(m.data) = DivResult(m.data, divider.regs)
  BY <1>3 DEF UnitsExact
<1> QED
  BY <1>4, <1>5, <1>6 DEF IsAnswer

(* What is still to come are dispatched messages.                          *)
StreamOK(s) ==
  \E n \in Nat : /\ s = [i \in 1 .. n |-> s[i]]
                 /\ \A i \in 1 .. n : Message(s[i]) /\ s[i].data \in Operated

(* Taking the first away, or a kill, leaves it so.                         *)
LEMMA StreamKept ==
  ASSUME NEW s, StreamOK(s), NEW kill
  PROVE  StreamOK(Spared(s, kill)) /\ (s # <<>> => StreamOK(Tail(s)))
<1>1. PICK n \in Nat : /\ s = [i \in 1 .. n |-> s[i]]
                       /\ \A i \in 1 .. n : Message(s[i]) /\ s[i].data \in Operated
  BY DEF StreamOK
<1> DEFINE kept == {i \in DOMAIN s : Keep(s[i], kill)}
           next == Spared(s, kill)
<1>2. kept \in SUBSET (1 .. n) /\ kept \in SUBSET Int
  BY <1>1
<1>3. IsFiniteSet(kept) /\ Cardinality(kept) \in Nat
  <2>1. IsFiniteSet(1 .. n)
    BY FS_Interval
  <2>2. IsFiniteSet(kept)
    BY <1>2, <2>1, FS_Subset
  <2> QED
    BY <2>2, FS_CardinalityType
<1>4. next = [i \in 1 .. Cardinality(kept) |-> Cleared(s[Nth(kept, i)], kill)]
  BY Zenon DEF Spared
<1> HIDE DEF kept, next
<1>5. \A i \in 1 .. Cardinality(kept) : Nth(kept, i) \in 1 .. n
  BY <1>2, <1>3, NthIs
<1>6. \A i \in 1 .. Cardinality(kept) : Message(next[i]) /\ next[i].data \in Operated
  BY <1>1, <1>4, <1>5, SparedOne
<1>7. next = [i \in 1 .. Cardinality(kept) |-> next[i]]
  BY <1>4
<1>8. StreamOK(next)
  BY <1>3, <1>6, <1>7 DEF StreamOK
<1>9. ASSUME s # <<>> PROVE StreamOK(Tail(s))
  <2>1. n >= 1
    <3>1. CASE n = 0
      <4>1. s = [i \in {} |-> s[i]]
        BY <1>1, <3>1
      <4> QED
        BY <1>9, <4>1
    <3> QED
      BY <3>1
  <2>2. Tail(s) = [i \in 1 .. n - 1 |-> s[i + 1]]
    BY <1>1, <2>1, SeqForms
  <2>3. \A i \in 1 .. n - 1 : i + 1 \in 1 .. n
    BY <2>1
  <2>4. \A i \in 1 .. n - 1 : Message(Tail(s)[i]) /\ Tail(s)[i].data \in Operated
    BY <1>1, <2>2, <2>3
  <2>5. n - 1 \in Nat /\ Tail(s) = [i \in 1 .. n - 1 |-> Tail(s)[i]]
    BY <2>1, <2>2
  <2> QED
    BY <2>4, <2>5 DEF StreamOK
<1> QED
  BY <1>8, <1>9 DEF next

(* The first of it, if a kill does not hit it, is one message.             *)
LEMMA StreamHead ==
  ASSUME NEW s, StreamOK(s), s # <<>>, NEW kill
  PROVE  /\ W!OneMessage(Peek({Head(s)}, kill))
         /\ \A m \in Peek({Head(s)}, kill) : m.data \in Operated
<1>1. PICK n \in Nat : /\ s = [i \in 1 .. n |-> s[i]]
                       /\ \A i \in 1 .. n : Message(s[i]) /\ s[i].data \in Operated
  BY DEF StreamOK
<1>2. n >= 1
  <2>1. CASE n = 0
    <3>1. s = [i \in {} |-> s[i]]
      BY <1>1, <2>1
    <3> QED
      BY <3>1
  <2> QED
    BY <2>1
<1>3. Head(s) = s[1] /\ 1 \in 1 .. n
  BY <1>1, <1>2, SeqForms
<1> DEFINE h == Head(s)
<1>4. Message(h) /\ h.data \in Operated
  BY <1>1, <1>3
<1> HIDE DEF h
<1>5. Peek({h}, kill) = {} \/ Peek({h}, kill) = {Cleared(h, kill)}
  BY SparedOne
<1>6. Message(Cleared(h, kill)) /\ Cleared(h, kill).data = h.data
  BY <1>4, SparedOne
<1>7. /\ W!OneMessage(Peek({h}, kill))
      /\ \A m \in Peek({h}, kill) : m.data \in Operated
  BY <1>4, <1>5, <1>6, SameKill DEF W!OneMessage
<1> QED
  BY <1>7 DEF h

(* The inductive invariant of the pipe.                                    *)
MInv == MultInv /\ DivInv /\ StreamOK(stream)

(* Empty units and what is dispatched.                                     *)
LEMMA MInitInv == MInit => MInv
<1> SUFFICES ASSUME MInit PROVE MInv
  OBVIOUS
<1>1. owed.mult = <<>> /\ owed.div = <<>>
  BY DEF MInit
<1>2. /\ multiplier = [i \in 1 .. last |-> {}] /\ mult_vvms = [i \in 1 .. last |-> {}]
  BY WrapperAssumed, Zenon DEF MInit, Wrapper!PipeInit
<1>3. OpsRow = [i \in 1 .. last |-> {}]
  BY <1>2 DEF OpsRow
<1>4. RegsExact
  BY <1>2, <1>3 DEF RegsExact
<1>5. W!PipeInit
  BY <1>2, <1>3, WrapperAssumed DEF W!PipeInit
<1>6. W!FInv /\ W!Joined = <<>>
  BY <1>5, WrapperAssumed, W!EmptyQueue
<1>7. DivInv
  <2>1. divider = [regs |-> DivUnset, counter |-> 0, busy |-> FALSE] /\ div_vvm = {}
    BY DEF MInit
  <2>2. 0 \in 0 .. DIV_NSTEPS
    BY UnitsAssumption
  <2> QED
    BY <1>1, <2>1, <2>2 DEF DivInv, DivOK, DivTyped, Idle
<1>8. StreamOK(stream)
  <2>1. PICK t \in Traffic : stream \in t.streams
    BY DEF MInit
  <2>2. stream \in Seq(Dispatches)
    BY <2>1, UnitsAssumption
  <2> DEFINE n == Len(stream)
  <2>3. n \in Nat /\ stream = [i \in 1 .. n |-> stream[i]] /\ \A i \in 1 .. n : stream[i] \in Dispatches
    BY <2>2
  <2>4. \A m \in Dispatches : Message(m) /\ m.data \in Operated
    BY UnitsAssumption DEF Message, Operated
  <2> HIDE DEF n
  <2> QED
    BY <2>3, <2>4 DEF StreamOK
<1> QED
  BY <1>1, <1>4, <1>6, <1>7, <1>8 DEF MInv, MultInv

(* Every cycle keeps it: the one message that may come in goes to one of   *)
(* the units, and the one that is taken comes from one of them.            *)
LEMMA MCycleInv ==
  ASSUME MInv, NEW kill, NEW offered \in BOOLEAN, NEW take \in BOOLEAN,
         offered => stream # <<>>, MCycle(kill, offered, take)
  PROVE  MInv'
<1> DEFINE incoming  == IF offered THEN Peek({Head(stream)}, kill) ELSE {}
           to_mult   == {m \in incoming : IsMul(m.data)}
           to_div    == incoming \ to_mult
           take_div  == take /\ DivPeek(kill) # {}
           take_mult == take /\ DivPeek(kill) = {}
           mult_took == IF MultTakes(kill, take_mult, to_mult) THEN to_mult ELSE {}
           div_took  == IF DivTakes(take_div, to_div) THEN to_div ELSE {}
           left      == IF mult_took \cup div_took = {} THEN stream ELSE Tail(stream)
           queues    == [mult |-> OwedNext(owed.mult, kill, take_mult, mult_took),
                         div |-> OwedNext(owed.div, kill, take_div, div_took)]
<1>1. /\ take => DivPeek(kill) \cup MultPeek(kill) # {}
      /\ MultCycle(kill, take_mult, to_mult)
      /\ DivCycle(kill, take_div, to_div)
      /\ stream' = Spared(left, kill)
      /\ owed' = queues
  BY Zenon DEF MCycle
<1>2. W!OneMessage(incoming) /\ \A m \in incoming : m.data \in Operated
  <2>1. W!OneMessage({})
    BY DEF W!OneMessage
  <2> QED
    BY <2>1, StreamHead DEF MInv
<1>3. mult_took \cup div_took # {} => stream # <<>>
  <2> HIDE DEF mult_took, div_took
  <2>1. mult_took \in SUBSET incoming /\ div_took \in SUBSET incoming
    BY DEF mult_took, div_took
  <2>2. incoming # {} => stream # <<>>
    OBVIOUS
  <2> HIDE DEF incoming
  <2> QED
    BY <2>1, <2>2
<1> HIDE DEF incoming
<1>4. /\ W!OneMessage(to_mult) /\ W!OneMessage(to_div)
      /\ \A m \in to_mult : m.data \in Operated /\ IsMul(m.data)
      /\ \A m \in to_div : m.data \in Operated /\ ~IsMul(m.data)
  <2>1. CASE incoming = {}
    BY <2>1 DEF W!OneMessage
  <2>2. ASSUME NEW m, incoming = {m}, W!Message(m) PROVE W!OneMessage(to_mult) /\ W!OneMessage(to_div)
    <3>1. (to_mult = {} /\ to_div = {m}) \/ (to_mult = {m} /\ to_div = {})
      BY <2>2
    <3> HIDE DEF to_mult, to_div
    <3> QED
      BY <2>2, <3>1 DEF W!OneMessage
  <2>3. W!OneMessage(to_mult) /\ W!OneMessage(to_div)
    BY <1>2, <2>1, <2>2, Zenon DEF W!OneMessage
  <2> QED
    BY <1>2, <2>3
<1> HIDE DEF to_mult, to_div
<1>5. take_mult \in BOOLEAN /\ take_div \in BOOLEAN
  OBVIOUS
<1>6. take_mult => W!OutPeek(kill) # {}
  <2>1. take_mult => MultPeek(kill) # {}
    BY <1>1
  <2>2. W!OutPeek(kill) = {} => MultPeek(kill) = {}
    <3>1. MultPeek(kill) = {Shows(m.data, m.mask, MulResult(m.data, MulAfter(m.data)[last])) :
                               m \in W!OutPeek(kill)}
      BY MultShows DEF MInv
    <3> QED
      BY <3>1
  <2> QED
    BY <2>1, <2>2
<1>7. take_div => DivPeek(kill) # {}
  OBVIOUS
<1>8. /\ owed'.mult = OwedNext(owed.mult, kill, take_mult, mult_took)
      /\ owed'.div = OwedNext(owed.div, kill, take_div, div_took)
  <2> HIDE DEF mult_took, div_took, take_mult, take_div
  <2> QED
    BY <1>1
<1> HIDE DEF take_mult, take_div
<1>9. MultInv'
  BY <1>1, <1>4, <1>5, <1>6, <1>8, MultMoves DEF MInv
<1>10. DivInv'
  BY <1>1, <1>4, <1>5, <1>7, <1>8, DivMoves DEF MInv
<1>11. StreamOK(stream')
  <2> HIDE DEF mult_took, div_took
  <2>1. StreamOK(left)
    BY <1>3, StreamKept DEF MInv
  <2> HIDE DEF left
  <2> QED
    BY <1>1, <2>1, StreamKept
<1>12. StreamOK(stream)'
  BY <1>11 DEF StreamOK
<1> QED
  BY <1>9, <1>10, <1>12 DEF MInv

(* So does a step in which nothing happens.                                *)
LEMMA MIdleInv ==
  ASSUME MInv, UNCHANGED <<stream, kills, units, owed>>
  PROVE  MInv'
<1>1. /\ stream' = stream /\ multiplier' = multiplier /\ mult_vvms' = mult_vvms
      /\ divider' = divider /\ div_vvm' = div_vvm /\ owed' = owed /\ last' = last
  BY DEF units, last
<1>2. OpsRow' = OpsRow
  BY <1>1 DEF OpsRow
<1>3. W!Joined' = W!Joined
  <2>1. W!Joined = W!JoinRows(W!InOrder(OpsRow), W!InOrder(mult_vvms))
    BY Zenon DEF W!Joined, W!InOrder
  <2>2. W!Joined' = W!JoinRows(W!InOrder(OpsRow'), W!InOrder(mult_vvms'))
    BY Zenon DEF W!Joined, W!InOrder
  <2> QED
    BY <1>1, <1>2, <2>1, <2>2, Zenon
<1>4. W!FInv'
  BY <1>1, <1>2 DEF MInv, MultInv, W!FInv, W!Aligned, W!Occupied, W!RowsTyped
<1>5. RegsExact'
  <2>1. \A m, i : Reg(m, i)' = Reg(m, i)
    BY DEF Reg, MulAfter, last
  <2> QED
    BY <1>1, <1>2, <2>1 DEF MInv, MultInv, RegsExact, Reg
<1>6. DivInv'
  BY <1>1 DEF MInv, DivInv
<1>7. StreamOK(stream)'
  BY <1>1 DEF MInv, StreamOK
<1> QED
  BY <1>1, <1>3, <1>4, <1>5, <1>6, <1>7 DEF MInv, MultInv

(* It always holds.                                                        *)
LEMMA MInvAlways == MSpec => []MInv
<1>1. MInv /\ [MNext]_<<stream, kills, units, owed>> => MInv'
  <2> SUFFICES ASSUME MInv, [MNext]_<<stream, kills, units, owed>> PROVE MInv'
    OBVIOUS
  <2>1. CASE MNext
    <3>1. PICK kill \in kills, offered \in BOOLEAN, take \in BOOLEAN :
            (offered => stream # <<>>) /\ MCycle(kill, offered, take)
      BY <2>1 DEF MNext
    <3> QED
      BY <3>1, MCycleInv
  <2>2. CASE UNCHANGED <<stream, kills, units, owed>>
    BY <2>2, MIdleInv
  <2> QED
    BY <2>1, <2>2
<1> QED
  BY <1>1, MInitInv, PTL DEF MSpec

(* Nothing is lost, for any number of stages and of steps, any units, any  *)
(* traffic and any broadcasts.                                             *)
THEOREM MPipeNothingLost == MSpec => []NothingLost
<1>1. MInv => NothingLost
  <2> SUFFICES ASSUME MInv PROVE NothingLost
    OBVIOUS
  <2>1. /\ divider.busy = (div_vvm # {}) /\ divider.busy = (owed.div # <<>>)
        /\ {v.mask : v \in div_vvm} = {owed.div[i].mask : i \in DOMAIN owed.div}
    <3>1. CASE Idle(divider, div_vvm, owed.div)
      <4>1. divider.busy = FALSE /\ div_vvm = {} /\ owed.div = <<>>
        BY <3>1 DEF Idle, MInv, DivInv, DivOK, DivTyped
      <4>2. {v.mask : v \in {}} = {<<>>[i].mask : i \in DOMAIN <<>>}
        <5>1. DOMAIN <<>> = {}
          OBVIOUS
        <5> QED
          BY <5>1
      <4> QED
        BY <4>1, <4>2
    <3>2. ASSUME NEW m, Dividing(divider, div_vvm, owed.div, m)
          PROVE  /\ divider.busy = (div_vvm # {}) /\ divider.busy = (owed.div # <<>>)
                 /\ {v.mask : v \in div_vvm} = {owed.div[i].mask : i \in DOMAIN owed.div}
      <4>1. divider.busy = TRUE /\ div_vvm = {m} /\ owed.div = <<m>>
        BY <3>2 DEF Dividing, MInv, DivInv, DivOK, DivTyped
      <4>2. DOMAIN <<m>> = {1} /\ <<m>>[1] = m
        OBVIOUS
      <4>3. {<<m>>[i].mask : i \in DOMAIN <<m>>} = {m.mask}
        BY <4>2
      <4>4. {v.mask : v \in {m}} = {m.mask}
        OBVIOUS
      <4>5. <<m>> # <<>>
        OBVIOUS
      <4> QED
        BY <4>1, <4>3, <4>4, <4>5
    <3> QED
      BY <3>1, <3>2 DEF MInv, DivInv, DivOK
  <2>2. Len(owed.mult) = Cardinality({i \in 1 .. last : \E v \in mult_vvms[i] : ~v.dead})
    <3>1. \A S : W!Cardinality(S) = Cardinality(S)
      BY Zenon DEF W!Cardinality, Cardinality
    <3>3. W!FInv /\ owed.mult = W!Joined
      BY DEF MInv, MultInv
    <3>4. Len(W!Joined) = W!Cardinality({i \in W!Stages : \E v \in mult_vvms[i] : ~v.dead})
      BY <3>3, WrapperAssumed, W!QueueLength
    <3> QED
      BY <3>1, <3>3, <3>4, WrapperAssumed
  <2> QED
    BY <2>1, <2>2 DEF NothingLost
<1> QED
  BY <1>1, MInvAlways, PTL

(* If a multiplication and a division that run alone compute their answer, *)
(* nothing else is ever shown, whatever else runs, is killed, waits or is  *)
(* taken.                                                                  *)
THEOREM MPipeAnswersExact == UnitsExact => (MSpec => []AnswersExact)
<1> SUFFICES ASSUME UnitsExact PROVE MSpec => []AnswersExact
  OBVIOUS
<1>1. MInv => AnswersExact
  BY MultExact, DivExact DEF MInv, AnswersExact
<1> QED
  BY <1>1, MInvAlways, PTL
=============================================================================
