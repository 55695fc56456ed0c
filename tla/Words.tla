------------------------------- MODULE Words -------------------------------
(***************************************************************************)
(* pymtl.Bits: a word of n bits is the natural it stands for.              *)
(***************************************************************************)
EXTENDS Integers, Bitwise

Word(n) == 0 .. 2^n - 1

Trunc(v, n) == v % 2^n

Bit(v, k) == (v \div 2^k) % 2

(* v[lo:hi]: the bit hi is not part of it.                                 *)
Slice(v, lo, hi) == (v \div 2^lo) % 2^(hi - lo)

(* Bits.int, and sext to m bits                                            *)
Signed(v, n) == IF Bit(v, n - 1) = 1 THEN v - 2^n ELSE v

SExt(v, n, m) == Trunc(Signed(v, n), m)

(* Shifts: what leaves the word is lost.                                   *)
ShiftLeft(v, k, n) == IF k >= n THEN 0 ELSE (v % 2^(n - k)) * 2^k

ShiftRight(v, k) == v \div 2^k
=============================================================================
