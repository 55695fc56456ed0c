----------------------------- MODULE MPipeUnits -----------------------------
(***************************************************************************)
(* What the multiplier and the divider of MPipe do with their registers:   *)
(* backend/multiply.py and util/rtl/multiply.py, a product of magnitudes,  *)
(* one digit a stage; backend/divide.py and util/rtl/divide.py, a division *)
(* without restoring.  An operation is [inst, rs1, rs2].                   *)
(***************************************************************************)
EXTENDS Operations, Decoder, MPipe

ASSUME StepsAssumption == XLEN % MUL_NSTAGES = 0 /\ XLEN % DIV_NSTEPS = 0

Decode(i) == (CHOOSE d \in MOpDecoder(i) \cup MOp32Decoder(i) : TRUE).msg

ForMultiplier(op) == Decode(op.inst).func = "MUL"

(* The instruction by its definition.                                      *)
Defined(op) == MulDiv(InstName(op.inst), op.rs1, op.rs2)

Sext32(v) == SExt(Trunc(v, HALF), HALF, XLEN)

Complement(v, n) == Trunc(-v, n)

IsNegative(v, signed) == signed /\ Bit(v, XLEN - 1) = 1

Unsigned(v, signed) == IF IsNegative(v, signed) THEN Complement(v, XLEN) ELSE v

------------------------------------------------------------------------------
Digit == XLEN \div MUL_NSTAGES

(* Stage i adds the product of src1 with the next digit of src2.           *)
Partial(r, i) ==
  [r EXCEPT !.val = Trunc(@ + r.src1 * Trunc(r.src2, Digit) * 2^(Digit * (i - 1)), 2 * XLEN),
            !.src2 = ShiftRight(@, Digit)]

(* A plausible slip, kept to measure the properties against.               *)
StageNeverNegates(r, i) == Partial(r, i)

Stage(r, i) ==
  IF i = last /\ r.sign THEN [Partial(r, i) EXCEPT !.val = Complement(@, 2 * XLEN)]
  ELSE Partial(r, i)

MultStart(op) ==
  LET msg == Decode(op.inst)
      src1 == IF msg.op32 = 1 THEN Sext32(op.rs1) ELSE op.rs1
      src2 == IF msg.op32 = 1 THEN Sext32(op.rs2) ELSE op.rs2
      src1_signed == msg.variant \notin {"U", "HU"}
      src2_signed == msg.variant \in {"N", "H"}
  IN  [val |-> 0, src1 |-> Unsigned(src1, src1_signed), src2 |-> Unsigned(src2, src2_signed),
       sign |-> IsNegative(src1, src1_signed) # IsNegative(src2, src2_signed)]

MultResult(op, r) ==
  LET msg == Decode(op.inst)
  IN  IF msg.op32 = 1 THEN Sext32(r.val)
      ELSE IF msg.variant \in {"N", "U"} THEN Trunc(r.val, XLEN)
      ELSE Slice(r.val, XLEN, 2 * XLEN)

------------------------------------------------------------------------------
(* acc has one bit more.                                                   *)
AccNegative(s) == Bit(s.acc, XLEN) = 1

DividerStep(s) ==
  LET acc_shift == 2 * s.acc + Bit(s.dividend, XLEN - 1)
      acc_next == Trunc(IF AccNegative(s) THEN acc_shift + s.divisor ELSE acc_shift - s.divisor,
                        XLEN + 1)
  IN  [s EXCEPT !.acc = acc_next,
                !.dividend = Trunc(2 * @ + 1 - Bit(acc_next, XLEN), XLEN)]

DividerUnit(s) ==
  LET after[n \in 0 .. XLEN \div DIV_NSTEPS] == IF n = 0 THEN s ELSE DividerStep(after[n - 1])
  IN  after[XLEN \div DIV_NSTEPS]

(* Special case last cycle.  The quotient by zero is not complemented.     *)
LastCycle(s) ==
  LET rem == IF AccNegative(s) THEN s.acc + s.divisor ELSE s.acc
  IN  [s EXCEPT !.acc = Trunc(IF s.negate_rem THEN -rem ELSE rem, XLEN + 1),
                !.dividend = IF s.negate /\ s.divisor # 0 THEN Complement(@, XLEN) ELSE @]

DividerStart(op) ==
  LET msg == Decode(op.inst)
      signed == msg.variant = "N"
      op32(v) == IF msg.op32 = 0 THEN v ELSE IF signed THEN Sext32(v) ELSE Trunc(v, HALF)
      negative(v) == IsNegative(op32(v), signed)
  IN  [acc |-> 0, dividend |-> Unsigned(op32(op.rs1), signed),
       divisor |-> Unsigned(op32(op.rs2), signed),
       negate |-> negative(op.rs1) # negative(op.rs2), negate_rem |-> negative(op.rs1)]

DividerUnset == [acc |-> 0, dividend |-> 0, divisor |-> 0, negate |-> FALSE, negate_rem |-> FALSE]

DividerResult(op, s) ==
  LET msg == Decode(op.inst)
      res == IF msg.func = "REM" THEN Trunc(s.acc, XLEN) ELSE s.dividend
  IN  IF msg.op32 = 1 THEN Sext32(res) ELSE res
=============================================================================
