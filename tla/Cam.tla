-------------------------------- MODULE Cam --------------------------------
(***************************************************************************)
(* util/rtl/cam.py: RandomReplacementCAM, the branch target buffer.  Keys  *)
(* are found by comparing every entry; a new key goes to an invalid entry, *)
(* or else to the entry whose turn it is.                                  *)
(***************************************************************************)
EXTENDS Naturals

CONSTANTS NRegs, Keys, Values

ASSUME CamAssumption == NRegs \in Nat /\ NRegs >= 1 /\ Keys # {} /\ Values # {}

VARIABLES
  entries,           \* each holds at most one pair
  overwrite_counter  \* whose turn it is

Regs == 0 .. NRegs - 1

CamInit == entries = [i \in Regs |-> {}] /\ overwrite_counter = 0

(* The chains end with the last entry that has the key, or is invalid.     *)
Matches(key) == {i \in Regs : \E e \in entries[i] : e.key = key}

Invalid == {i \in Regs : entries[i] = {}}

LastOf(S) == {i \in S : \A j \in S : j <= i}

(* read: the value, if it is valid.                                        *)
Read(key) == {e.value : e \in UNION {entries[i] : i \in LastOf(Matches(key))}}

(* compute_overwrite                                                       *)
Overwrites(w) == ~w.remove /\ Matches(w.key) = {} /\ Invalid = {}

(* Plausible slips, kept to measure the properties against.                *)
WrittenFreeFirst(w) ==
  IF Overwrites(w) THEN {overwrite_counter}
  ELSE IF w.remove THEN LastOf(Matches(w.key))
  ELSE IF Invalid # {} THEN LastOf(Invalid) ELSE LastOf(Matches(w.key))

(* handle_write: the entries that are written.                             *)
WrittenRegs(w) ==
  IF Overwrites(w) THEN {overwrite_counter}
  ELSE IF Matches(w.key) # {} THEN LastOf(Matches(w.key))
  ELSE IF w.remove THEN {} ELSE LastOf(Invalid)

Stored(w) == IF w.remove THEN {} ELSE {[key |-> w.key, value |-> w.value]}

WriteFirst(write, clear, i) ==
  IF \E w \in write : i \in WrittenRegs(w)
    THEN UNION {Stored(w) : w \in write}
  ELSE IF clear THEN {} ELSE entries[i]

(* The entry after the cycle; clear goes before write.                     *)
EntryNext(write, clear, i) ==
  IF clear THEN {}
  ELSE IF \E w \in write : i \in WrittenRegs(w)
    THEN UNION {Stored(w) : w \in write} ELSE entries[i]

(* update_overwrite_counter: it moves also if the write is lost to a clear. *)
CounterNext(write) ==
  IF \E w \in write : Overwrites(w)
    THEN IF overwrite_counter = NRegs - 1 THEN 0 ELSE overwrite_counter + 1
  ELSE overwrite_counter

(* One cycle; write is empty or one write.                                 *)
CamCycle(write, clear) ==
  /\ entries' = [i \in Regs |-> EntryNext(write, clear, i)]
  /\ overwrite_counter' = CounterNext(write)

Writes == [key : Keys, value : Values, remove : BOOLEAN]

CamNext == \E write \in {{}} \cup {{w} : w \in Writes}, clear \in BOOLEAN : CamCycle(write, clear)

CamSpec == CamInit /\ [][CamNext]_<<entries, overwrite_counter>>

------------------------------------------------------------------------------
Pairs == [key : Keys, value : Values]

(* Each entry is invalid or holds one pair.                                *)
CamTypeOK ==
  /\ entries \in [Regs -> {{}} \cup {{p} : p \in Pairs}]
  /\ overwrite_counter \in Regs

(* No key is in two entries.                                               *)
NoDuplicates ==
  \A i, j \in Regs : \A d \in entries[i], e \in entries[j] : d.key = e.key => i = j

(* The contents, seen as a cache.                                          *)
Cached == UNION {entries[i] : i \in Regs}

C == INSTANCE Cache WITH Capacity <- NRegs, cached <- Cached

(* A lookup finds the value last written for a key or nothing: a key is    *)
(* never in two entries, and another is only given up when all are taken.  *)
ImplementsCache == C!Spec
=============================================================================
