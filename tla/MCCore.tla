------------------------------- MODULE MCCore -------------------------------
(* Core on words of 16 bits: what is run, and on what.                     *)
EXTENDS Core

I(opcode, upper) == [opcode |-> opcode, upper |-> upper]

RType(opcode, f3, f7, r2, r1, d) == I(opcode, d + 2^5 * f3 + 2^8 * r1 + 2^13 * r2 + 2^18 * f7)

IType(opcode, f3, imm, r1, d) == I(opcode, d + 2^5 * f3 + 2^8 * r1 + 2^13 * imm)

Regs(a, b) == [r \in 0 .. 3 |-> CASE r = 0 -> 0 [] r = 1 -> a [] OTHER -> b]

Memory == [c \in 0 .. MemBytes - 1 |-> (3 * c + 1) % 2^BYTE]

Case(programs, as, bs, messages) ==
  [programs |-> programs, aregs |-> {Regs(a, b) : a \in as, b \in bs}, mem |-> Memory,
   messages |-> messages]

One(insts, as, bs) == Case({<<i>> : i \in insts}, as, bs, {<<5>>})

(* Every opcode, and three that are none, with the fields at their edges.  *)
Encodings ==
  {RType(op, f3, f7, r2, r1, d) :
     op \in {Opcode[x] : x \in DOMAIN Opcode} \cup {0, 7, 127}, f3 \in 0 .. 7,
     f7 \in {0, 1, 2, 4, 8, 16, 32, 33}, r2 \in 0 .. 2, r1 \in {0, 1}, d \in {0, 1}}

Words16 == {0, 1, 2, 5, 7, 8, 16, 127, 128, 129, 255, 256, 32767, 32768, 43981, 65535}

Few == {0, 1, 6, 255, 32768, 65535}

RegisterOps ==
  {RType(op, f3, f7, 2, 1, 3) : op \in {Opcode.OP, Opcode.OP_32}, f3 \in 0 .. 7, f7 \in {0, 32}}

ImmediateOps ==
  {IType(op, f3, imm, 1, 3) : op \in {Opcode.OP_IMM, Opcode.OP_IMM_32}, f3 \in {0, 2, 3, 4, 6, 7},
                             imm \in {0, 1, 2047, 2048, 4095}}
  \cup {RType(op, f3, f7, shamt, 1, 3) : op \in {Opcode.OP_IMM, Opcode.OP_IMM_32}, f3 \in {1, 5},
                                         f7 \in {0, 1, 32, 33}, shamt \in 0 .. 2^LG - 1}
  \cup {I(op, 3 + 2^5 * imm) : op \in {Opcode.LUI, Opcode.AUIPC}, imm \in {0, 1, 15, 524288}}

Transfers ==
  {RType(Opcode.BRANCH, f3, f7, 2, 1, d) : f3 \in 0 .. 7, f7 \in {0, 64, 127}, d \in {1, 8}}
  \cup {I(Opcode.JAL, d + 2^5 * imm) : imm \in {0, 8, 256, 1048575}, d \in {0, 3}}
  \cup {IType(Opcode.JALR, 0, imm, 1, d) : imm \in {0, 1, 4095}, d \in {1, 3}}
  \cup {IType(Opcode.LOAD, f3, imm, 1, 3) : f3 \in 0 .. 7, imm \in {0, 3, 4095}}
  \cup {RType(Opcode.STORE, f3, f7, 2, 1, 4) : f3 \in 0 .. 7, f7 \in {0, 127}}

CsrInst(f3, name, r1, d) == IType(Opcode.SYSTEM, f3, CsrRegisters[name], r1, d)

Illegals == {I(0, 0), IType(Opcode.SYSTEM, 1, 291, 1, 3), IType(Opcode.SYSTEM, 1, 768, 1, 3)}

(* The CSRs by all their operations, and what may come between.            *)
Between ==
  {I(Opcode.SYSTEM, 0), I(Opcode.SYSTEM, 2^13), I(Opcode.MISC_MEM, 2^5),
   RType(Opcode.OP, 0, 0, 3, 1, 1), RType(Opcode.STORE, 1, 0, 3, 1, 0)} \cup Illegals

CsrInsts ==
  {CsrInst(f3, name, r1, 3) : f3 \in {1, 2, 3, 5, 6, 7}, r1 \in {0, 1},
     name \in {"mtvec", "mepc", "mcause", "mcycle", "mimpid", "proc2mngr", "mngr2proc"}}

Sequences2 == {<<x, y>> : x \in CsrInsts \cup Between, y \in CsrInsts \cup Between}

Sequences3 ==
  LET some == Between \cup {CsrInst(1, "mtvec", 1, 3), CsrInst(2, "mepc", 0, 2),
                            CsrInst(1, "proc2mngr", 3, 0), CsrInst(2, "mngr2proc", 0, 1),
                            CsrInst(6, "mcause", 1, 3)}
  IN  {<<x, y, z>> : x \in some, y \in some, z \in some}

MCCases ==
  {One(Encodings, {5}, {65535}), One(RegisterOps, Words16, Words16), One(ImmediateOps, Words16, {0}),
   One(Transfers, Few, Few), Case(Sequences2, {33}, {7}, {<<5, 9>>, <<>>}),
   Case(Sequences3, {32, 33, 34}, {7}, {<<5, 9>>})}
=============================================================================
