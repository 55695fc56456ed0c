----------------------------- MODULE OverlapUnit -----------------------------
(* The overlap checker on its own: its inputs take any values, one after   *)
(* the other.                                                              *)
EXTENDS OverlapChecker

VARIABLE check   \* the arguments of the method

OverlapInit == check \in [base_a : Base, size_a : Size, base_b : Base, size_b : Size]

OverlapNext ==
  \/ \E base \in Base : check' = [check EXCEPT !.base_a = base]
  \/ \E base \in Base : check' = [check EXCEPT !.base_b = base]
  \/ \E size \in Size : check' = [check EXCEPT !.size_a = size]
  \/ \E size \in Size : check' = [check EXCEPT !.size_b = size]

OverlapSpec == OverlapInit /\ [][OverlapNext]_check

(* Away from the end of the address space, the four comparisons of ends    *)
(* that are cut to the width of an address answer whether two accesses     *)
(* share a byte, and so does the model that the tests compare them with.   *)
OverlapExact ==
  LET disjoint == Disjoint(check.base_a, check.size_a, check.base_b, check.size_b)
      fl       == DisjointFL(check.base_a, check.size_a, check.base_b, check.size_b)
      a        == BytesAt(check.base_a, check.size_a)
      b        == BytesAt(check.base_b, check.size_b)
  IN  (/\ check.size_a # 0 /\ check.size_b # 0
       /\ check.base_a + check.size_a < AddressSpace
       /\ check.base_b + check.size_b < AddressSpace)
      => (disjoint <=> a \cap b = {}) /\ (fl <=> disjoint)
=============================================================================
