----------------------------- MODULE Operations -----------------------------
(***************************************************************************)
(* util/arch/semantics.py: the value an instruction computes from its two  *)
(* operands, the second of them a register or the immediate.               *)
(***************************************************************************)
EXTENDS Encoding

BoolBit(b) == IF b THEN 1 ELSE 0

(* Bits of n, +, -, <<, >>, ^, | and &; int() where the code takes int().   *)
Arithmetic(op, x, y, n) ==
  CASE op = "add"  -> Trunc(x + y, n)
    [] op = "sub"  -> Trunc(x - y, n)
    [] op = "sll"  -> ShiftLeft(x, y, n)
    [] op = "srl"  -> ShiftRight(x, y)
    [] op = "sra"  -> Trunc(Signed(x, n) \div 2^y, n)
    [] op = "slt"  -> BoolBit(Signed(x, n) < Signed(y, n))
    [] op = "sltu" -> BoolBit(x < y)
    [] op = "xor"  -> x ^^ y
    [] op = "or"   -> x | y
    [] op = "and"  -> x & y

(* The instructions on whole registers, and those on their low halves.     *)
Whole ==
  [add |-> "add", sub |-> "sub", sll |-> "sll", srl |-> "srl", sra |-> "sra", slt |-> "slt",
   sltu |-> "sltu", xor |-> "xor", or |-> "or", and |-> "and", addi |-> "add", slti |-> "slt",
   sltiu |-> "sltu", xori |-> "xor", ori |-> "or", andi |-> "and", slli |-> "sll",
   srli |-> "srl", srai |-> "sra"]

Halves ==
  [addw |-> "add", subw |-> "sub", sllw |-> "sll", srlw |-> "srl", sraw |-> "sra",
   addiw |-> "add", slliw |-> "sll", srliw |-> "srl", sraiw |-> "sra"]

Low(x) == Trunc(x, HALF)

HalfSext(x) == SExt(Trunc(x, HALF), HALF, XLEN)

(* & 0x3F and & 0x1F.                                                      *)
ShiftAmount(op, y, n) == IF op \in {"sll", "srl", "sra"} THEN y % n ELSE y

Computed(name, x, y) ==
  IF name \in DOMAIN Halves
  THEN HalfSext(Arithmetic(Halves[name], Low(x), ShiftAmount(Halves[name], Low(y), HALF), HALF))
  ELSE Arithmetic(Whole[name], x, ShiftAmount(Whole[name], y, XLEN), XLEN)

------------------------------------------------------------------------------
Sign(a) == IF a < 0 THEN -1 ELSE 1

Abs(a) == Sign(a) * a

SaneDivide(a, b, n) ==
  IF b = 0 THEN -1
  ELSE IF a = -2^(n - 1) /\ b = -1 THEN a
  ELSE (Abs(a) \div Abs(b)) * Sign(a) * Sign(b)

SaneRem(a, b, n) ==
  IF b = 0 THEN a
  ELSE IF a = -2^(n - 1) /\ b = -1 THEN 0
  ELSE (Abs(a) % Abs(b)) * Sign(a)

SignedX(x) == Signed(x, XLEN)

SignedH(x) == Signed(Low(x), HALF)

(* The upper half of a product.                                            *)
High(p) == Trunc(p \div 2^XLEN, XLEN)

MulDivNames ==
  {"mul", "mulh", "mulhsu", "mulhu", "mulw", "div", "divu", "divw", "divuw", "rem", "remu",
   "remw", "remuw"}

MulDiv(name, x, y) ==
  CASE name = "mul"    -> Trunc(x * y, XLEN)
    [] name = "mulh"   -> High(SignedX(x) * SignedX(y))
    [] name = "mulhsu" -> High(SignedX(x) * y)
    [] name = "mulhu"  -> High(x * y)
    [] name = "mulw"   -> HalfSext(SignedH(x) * SignedH(y))
    [] name = "div"    -> Trunc(SaneDivide(SignedX(x), SignedX(y), XLEN), XLEN)
    [] name = "divu"   -> Trunc(SaneDivide(x, y, XLEN), XLEN)
    [] name = "divw"   -> HalfSext(SaneDivide(SignedH(x), SignedH(y), HALF))
    [] name = "divuw"  -> HalfSext(SaneDivide(Low(x), Low(y), HALF))
    [] name = "rem"    -> Trunc(SaneRem(SignedX(x), SignedX(y), XLEN), XLEN)
    [] name = "remu"   -> Trunc(SaneRem(x, y, XLEN), XLEN)
    [] name = "remw"   -> HalfSext(SaneRem(SignedH(x), SignedH(y), HALF))
    [] name = "remuw"  -> HalfSext(SaneRem(Low(x), Low(y), HALF))
=============================================================================
