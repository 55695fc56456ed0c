--------------------------- MODULE OverlapChecker ---------------------------
(***************************************************************************)
(* util/rtl/overlap_checker.py, which compares a load with the stores in   *)
(* flight, and util/fl/overlap_checker.py, which it is tested against.     *)
(* Addresses have a fixed width, and so have the ends of the accesses: an  *)
(* access that reaches the end of the address space ends at 0.             *)
(***************************************************************************)
EXTENDS Integers

CONSTANTS AddressSpace,  \* 2^interface.Base.nbits
          max_size       \* the longest access

ASSUME OverlapAssumption ==
  AddressSpace \in Nat /\ max_size \in Nat /\ AddressSpace > max_size

Base == 0 .. AddressSpace - 1

Size == 0 .. max_size

(* compute_ends: the end is exclusive.                                     *)
End(base, size) == (base + size) % AddressSpace

(* A plausible slip, kept to measure the properties against.               *)
DisjointOneSided(base_a, size_a, base_b, size_b) ==
  ~(base_a >= base_b /\ base_a < End(base_b, size_b))

(* compute_disjoint                                                        *)
Disjoint(base_a, size_a, base_b, size_b) ==
  ~(\/ base_a >= base_b /\ base_a < End(base_b, size_b)
    \/ base_b >= base_a /\ base_b < End(base_a, size_a))

(* OverlapCheckerFL.check                                                  *)
DisjointFL(base_a, size_a, base_b, size_b) ==
  IF size_a = 0 \/ size_b = 0 THEN Disjoint(base_a, size_a, base_b, size_b)
  ELSE IF base_a < base_b THEN End(base_a, size_a) <= base_b
  ELSE End(base_b, size_b) <= base_a

(* The addresses of the bytes of an access.                                *)
BytesAt(base, size) == base .. base + size - 1
=============================================================================
