------------------------------ MODULE Encoding ------------------------------
(***************************************************************************)
(* msg/codes.py: the numbers the processor and its specification share;    *)
(* util/arch/rv64g.py and util/arch/isa.py: the fields of an instruction   *)
(* and the table that gives it its name.  An instruction is its opcode     *)
(* and the 25 bits above it.  Words of XLEN bits are halved by the         *)
(* instructions that work on 32 of 64: HALF stands for the 32, and LG for  *)
(* the five bits that count to it.                                         *)
(***************************************************************************)
EXTENDS Words, FiniteSetsExt, TLC

CONSTANTS XLEN,    \* the width of a register, 64
          LG       \* log2(XLEN) - 1, 5

ASSUME WidthAssumption == LG \in Nat \ {0} /\ XLEN = 2 * 2^LG

HALF == 2^LG

------------------------------------------------------------------------------
(* From bit, to bit.                                                       *)
RVInstMask ==
  [FUNCT3 |-> <<12, 15>>, FUNCT7 |-> <<25, 32>>, FUNCT7_SHFT64 |-> <<26, 32>>,
   RD |-> <<7, 12>>, RS1 |-> <<15, 20>>, RS2 |-> <<20, 25>>,
   I_IMM |-> <<20, 32>>, S_IMM0 |-> <<7, 12>>, S_IMM1 |-> <<25, 32>>,
   B_IMM0 |-> <<8, 12>>, B_IMM1 |-> <<25, 31>>, B_IMM2 |-> <<7, 8>>, B_IMM3 |-> <<31, 32>>,
   U_IMM |-> <<12, 32>>,
   J_IMM0 |-> <<21, 31>>, J_IMM1 |-> <<20, 21>>, J_IMM2 |-> <<12, 20>>, J_IMM3 |-> <<31, 32>>,
   CSRNUM |-> <<20, 32>>, C_IMM |-> <<15, 20>>, FENCE_UPPER |-> <<28, 32>>]

Opcode ==
  [LOAD |-> 3, MISC_MEM |-> 15, OP_IMM |-> 19, AUIPC |-> 23, OP_IMM_32 |-> 27, STORE |-> 35,
   AMO |-> 47, OP |-> 51, LUI |-> 55, OP_32 |-> 59, BRANCH |-> 99, JALR |-> 103,
   JAL |-> 111, SYSTEM |-> 115]

(* The CSRs the code calls by their names.                                 *)
CsrRegisters ==
  [mtvec |-> 773, mepc |-> 833, mcause |-> 834, mtval |-> 835, mcycle |-> 2816,
   minstret |-> 2818, mvendorid |-> 3857, marchid |-> 3858, mimpid |-> 3859,
   mhartid |-> 3860, proc2mngr |-> 1984, mngr2proc |-> 4032]

(* CsrRegisters.contains                                                   *)
CsrContains(n) ==
  \/ n \in (0 .. 5) \cup (64 .. 66) \cup {68} \cup (3072 .. 3103)
  \/ n \in {256} \cup (258 .. 262) \cup (320 .. 324) \cup {384}
  \/ n \in (3857 .. 3860) \cup (768 .. 774) \cup (832 .. 836)
  \/ n \in {928, 930} \cup (944 .. 959) \cup {2816} \cup (2818 .. 2847) \cup (803 .. 831)
  \/ n \in (1952 .. 1955) \cup (1968 .. 1970) \cup {1984, 4032}

MtvecMode == [MTVEC_MODE_DIRECT |-> 0, MTVEC_MODE_VECTORED |-> 1]

ExceptionCode ==
  [ILLEGAL_INSTRUCTION |-> 2, BREAKPOINT |-> 3, ENVIRONMENT_CALL_FROM_U |-> 8,
   ENVIRONMENT_CALL_FROM_M |-> 11]

------------------------------------------------------------------------------
(* Bits lo to hi - 1 of an instruction, all of them above the opcode.      *)
InstBits(i, lo, hi) == Slice(i.upper, lo - 7, hi - 7)

(* Where the parts of a field are: from bit, to bit, place in the field.   *)
FieldParts ==
  [rd |-> {<<7, 12, 0>>}, funct3 |-> {<<12, 15, 0>>}, rs1 |-> {<<15, 20, 0>>},
   rs2 |-> {<<20, 25, 0>>}, funct7 |-> {<<25, 32, 0>>},
   shamt32 |-> {<<20, 20 + LG, 0>>}, shamt64 |-> {<<20, 20 + LG, 0>>, <<25, 26, LG>>},
   i_imm |-> {<<20, 32, 0>>}, csrnum |-> {<<20, 32, 0>>}, c_imm |-> {<<15, 20, 0>>},
   s_imm |-> {<<7, 12, 0>>, <<25, 32, 5>>}, u_imm |-> {<<12, 32, 0>>},
   b_imm |-> {<<31, 32, 12>>, <<7, 8, 11>>, <<25, 31, 5>>, <<8, 12, 1>>},
   j_imm |-> {<<31, 32, 20>>, <<12, 20, 12>>, <<20, 21, 11>>, <<21, 31, 1>>}]

FieldWidth == [i_imm |-> 12, s_imm |-> 12, b_imm |-> 13, u_imm |-> 20, j_imm |-> 21]

Disassemble(f, i) ==
  MapThenSumSet(LAMBDA p : InstBits(i, p[1], p[2]) * 2^p[3], FieldParts[f])

(* The instruction as a word of XLEN bits.                                 *)
InstWord(i) == i.opcode + 2^7 * Trunc(i.upper, XLEN - 7)

(* sext(field)                                                             *)
Immediate(f, i) == SExt(Disassemble(f, i), FieldWidth[f], XLEN)

------------------------------------------------------------------------------
(* encoding_table: a row is a name and what the masked bits have to be.    *)
ByOpcode(name, opcode) == {[name |-> name, fixed |-> [opcode |-> opcode]]}

ByFunct3(names, opcode) ==
  {[name |-> names[f], fixed |-> [opcode |-> opcode, funct3 |-> f]] : f \in DOMAIN names}

ByFunct7(names, opcode) ==
  {[name |-> names[f], fixed |-> [opcode |-> opcode, funct7 |-> f[1], funct3 |-> f[2]]] :
     f \in DOMAIN names}

(* The masks of the 64 bit shifts leave out bit 25.                        *)
ByFunct6(names, opcode) ==
  UNION {ByFunct7((<<f[1], f[2]>> :> names[f]) @@ (<<f[1] + 1, f[2]>> :> names[f]), opcode) :
           f \in DOMAIN names}

Exactly(name, opcode, upper) ==
  {[name |-> name, fixed |-> [opcode |-> opcode, upper |-> upper]]}

BranchNames == 0 :> "beq" @@ 1 :> "bne" @@ 4 :> "blt" @@ 5 :> "bge" @@ 6 :> "bltu" @@ 7 :> "bgeu"

Loads == 0 :> "lb" @@ 1 :> "lh" @@ 2 :> "lw" @@ 3 :> "ld" @@ 4 :> "lbu" @@ 5 :> "lhu" @@ 6 :> "lwu"

Stores == 0 :> "sb" @@ 1 :> "sh" @@ 2 :> "sw" @@ 3 :> "sd"

OpImms == 0 :> "addi" @@ 2 :> "slti" @@ 3 :> "sltiu" @@ 4 :> "xori" @@ 6 :> "ori" @@ 7 :> "andi"

Shifts64 == <<0, 1>> :> "slli" @@ <<0, 5>> :> "srli" @@ <<32, 5>> :> "srai"

Shifts32 == <<0, 1>> :> "slliw" @@ <<0, 5>> :> "srliw" @@ <<32, 5>> :> "sraiw"

Ops ==
  <<0, 0>> :> "add" @@ <<32, 0>> :> "sub" @@ <<0, 1>> :> "sll" @@ <<0, 2>> :> "slt" @@
  <<0, 3>> :> "sltu" @@ <<0, 4>> :> "xor" @@ <<0, 5>> :> "srl" @@ <<32, 5>> :> "sra" @@
  <<0, 6>> :> "or" @@ <<0, 7>> :> "and" @@
  <<1, 0>> :> "mul" @@ <<1, 1>> :> "mulh" @@ <<1, 2>> :> "mulhsu" @@ <<1, 3>> :> "mulhu" @@
  <<1, 4>> :> "div" @@ <<1, 5>> :> "divu" @@ <<1, 6>> :> "rem" @@ <<1, 7>> :> "remu"

Ops32 ==
  <<0, 0>> :> "addw" @@ <<32, 0>> :> "subw" @@ <<0, 1>> :> "sllw" @@ <<0, 5>> :> "srlw" @@
  <<32, 5>> :> "sraw" @@ <<1, 0>> :> "mulw" @@ <<1, 4>> :> "divw" @@ <<1, 5>> :> "divuw" @@
  <<1, 6>> :> "remw" @@ <<1, 7>> :> "remuw"

Csrs ==
  1 :> "csrrw" @@ 2 :> "csrrs" @@ 3 :> "csrrc" @@ 5 :> "csrrwi" @@ 6 :> "csrrsi" @@ 7 :> "csrrci"

(* gen_amo_width_variants, gen_amo_consistency_variants: every one of them *)
(* for words and double words, with and without aq and rl.                 *)
Amos ==
  0 :> "amoadd" @@ 1 :> "amoswap" @@ 3 :> "sc" @@ 4 :> "amoxor" @@ 8 :> "amoor" @@
  12 :> "amoand" @@ 16 :> "amomin" @@ 20 :> "amomax" @@ 24 :> "amominu" @@ 28 :> "amomaxu"

AmoRows ==
  {[name |-> Amos[f], fixed |-> [opcode |-> Opcode.AMO, funct3 |-> w, funct7 |-> 4 * f + c]] :
     f \in DOMAIN Amos, w \in {2, 3}, c \in 0 .. 3}
  \cup {[name |-> "lr", fixed |-> [opcode |-> Opcode.AMO, funct3 |-> w, funct7 |-> 8 + c, rs2 |-> 0]] :
          w \in {2, 3}, c \in 0 .. 3}

EncodingTable ==
  UNION {ByOpcode("lui", Opcode.LUI), ByOpcode("auipc", Opcode.AUIPC), ByOpcode("jal", Opcode.JAL),
         ByFunct3(0 :> "jalr", Opcode.JALR), ByFunct3(BranchNames, Opcode.BRANCH),
         ByFunct3(Loads, Opcode.LOAD), ByFunct3(Stores, Opcode.STORE),
         ByFunct3(OpImms, Opcode.OP_IMM), ByFunct3(0 :> "addiw", Opcode.OP_IMM_32),
         ByFunct6(Shifts64, Opcode.OP_IMM), ByFunct7(Shifts32, Opcode.OP_IMM_32),
         ByFunct7(Ops, Opcode.OP), ByFunct7(Ops32, Opcode.OP_32),
         {[name |-> "fence",
           fixed |-> [opcode |-> Opcode.MISC_MEM, rd |-> 0, funct3 |-> 0, rs1 |-> 0, funct4 |-> 0]]},
         Exactly("fence_i", Opcode.MISC_MEM, 2^5),
         Exactly("ecall", Opcode.SYSTEM, 0), Exactly("ebreak", Opcode.SYSTEM, 2^13),
         ByFunct3(Csrs, Opcode.SYSTEM), AmoRows}

Masked(i, f) ==
  IF f = "opcode" THEN i.opcode
  ELSE IF f = "upper" THEN i.upper
  ELSE IF f = "funct4" THEN InstBits(i, 28, 32) ELSE Disassemble(f, i)

Rows == [op \in 0 .. 127 |-> {r \in EncodingTable : r.fixed.opcode = op}]

(* decode_inst_name goes through the table in no particular order.         *)
MatchingRows(i) == {r \in Rows[i.opcode] : \A f \in DOMAIN r.fixed : Masked(i, f) = r.fixed[f]}

InstName(i) == IF MatchingRows(i) = {} THEN "invld" ELSE (CHOOSE r \in MatchingRows(i) : TRUE).name
=============================================================================
