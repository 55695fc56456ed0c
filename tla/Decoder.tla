------------------------------ MODULE Decoder -------------------------------
(***************************************************************************)
(* core/rtl/frontend: the decoder, a row of generated decoders of which    *)
(* the first that succeeds is taken, and the immediate decoder.  What a    *)
(* decoder makes of an instruction is a set: one record, or nothing.       *)
(***************************************************************************)
EXTENDS Messages, SequencesExt

Mask(f) == RVInstMask[f]

(* InstMsg                                                                 *)
Field(i, f) == IF f = "OPCODE" THEN i.opcode ELSE InstBits(i, Mask(f)[1], Mask(f)[2])

FieldLen(f) == IF f = "OPCODE" THEN 7 ELSE Mask(f)[2] - Mask(f)[1]

(* GenDecoder: the fixed fields have to be equal, the others are looked up. *)
GenDecoder(i, fixed, fields, map, control) ==
  LET key == [k \in DOMAIN fields |-> Field(i, fields[k])]
  IN  IF (\A f \in DOMAIN fixed : Field(i, f) = fixed[f]) /\ key \in DOMAIN map
      THEN {[control EXCEPT !.msg = map[key]]} ELSE {}

(* What the decoder says of every instruction it takes; the flags are      *)
(* serialize, speculative, store, rs1_val, rs2_val and rd_val.             *)
Control(op_class, flags, imm) ==
  [op_class |-> op_class, flags |-> flags, imm_type |-> imm, imm_val |-> imm # "none", msg |-> <<>>]

------------------------------------------------------------------------------
alu_msg(func, unsigned, op32) == [func |-> func, unsigned |-> unsigned, op32 |-> op32]

OpMap ==
  <<0, 0>> :> alu_msg("ADD", 0, 0) @@ <<32, 0>> :> alu_msg("SUB", 0, 0) @@
  <<0, 1>> :> alu_msg("SLL", 0, 0) @@ <<0, 2>> :> alu_msg("SLT", 0, 0) @@
  <<0, 3>> :> alu_msg("SLT", 1, 0) @@ <<0, 4>> :> alu_msg("XOR", 0, 0) @@
  <<0, 5>> :> alu_msg("SRL", 0, 0) @@ <<32, 5>> :> alu_msg("SRA", 0, 0) @@
  <<0, 6>> :> alu_msg("OR", 0, 0) @@ <<0, 7>> :> alu_msg("AND", 0, 0)

OpDecoder(i) ==
  GenDecoder(i, [OPCODE |-> Opcode.OP], <<"FUNCT7", "FUNCT3">>, OpMap,
             Control("ALU", {"rs1_val", "rs2_val", "rd_val"}, "none"))

Op32Map ==
  <<0, 0>> :> alu_msg("ADD", 0, 1) @@ <<32, 0>> :> alu_msg("SUB", 0, 1) @@
  <<0, 1>> :> alu_msg("SLL", 0, 1) @@ <<0, 5>> :> alu_msg("SRL", 0, 1) @@
  <<32, 5>> :> alu_msg("SRA", 0, 1)

Op32Decoder(i) ==
  GenDecoder(i, [OPCODE |-> Opcode.OP_32], <<"FUNCT7", "FUNCT3">>, Op32Map,
             Control("ALU", {"rs1_val", "rs2_val", "rd_val"}, "none"))

OpImmMap ==
  <<0>> :> alu_msg("ADD", 0, 0) @@ <<2>> :> alu_msg("SLT", 0, 0) @@ <<3>> :> alu_msg("SLT", 1, 0) @@
  <<4>> :> alu_msg("XOR", 0, 0) @@ <<6>> :> alu_msg("OR", 0, 0) @@ <<7>> :> alu_msg("AND", 0, 0)

OpImmDecoder(i) ==
  GenDecoder(i, [OPCODE |-> Opcode.OP_IMM], <<"FUNCT3">>, OpImmMap,
             Control("ALU", {"rs1_val", "rd_val"}, "I"))

OpImmShiftMap ==
  <<0, 1>> :> alu_msg("SLL", 0, 0) @@ <<0, 5>> :> alu_msg("SRL", 0, 0) @@
  <<16, 5>> :> alu_msg("SRA", 0, 0)

OpImmShiftDecoder(i) ==
  GenDecoder(i, [OPCODE |-> Opcode.OP_IMM], <<"FUNCT7_SHFT64", "FUNCT3">>, OpImmShiftMap,
             Control("ALU", {"rs1_val", "rd_val"}, "SHAMT64"))

OpImm32Decoder(i) ==
  GenDecoder(i, [OPCODE |-> Opcode.OP_IMM_32], <<"FUNCT3">>, <<0>> :> alu_msg("ADD", 0, 1),
             Control("ALU", {"rs1_val", "rd_val"}, "I"))

OpImm32ShiftMap ==
  <<0, 1>> :> alu_msg("SLL", 0, 1) @@ <<0, 5>> :> alu_msg("SRL", 0, 1) @@
  <<32, 5>> :> alu_msg("SRA", 0, 1)

OpImm32ShiftDecoder(i) ==
  GenDecoder(i, [OPCODE |-> Opcode.OP_IMM_32], <<"FUNCT7", "FUNCT3">>, OpImm32ShiftMap,
             Control("ALU", {"rs1_val", "rd_val"}, "SHAMT64"))

MiscDecoder(i) ==
  GenDecoder(i, <<>>, <<"OPCODE">>,
             <<Opcode.LUI>> :> alu_msg("LUI", 0, 0) @@ <<Opcode.AUIPC>> :> alu_msg("AUIPC", 0, 0),
             Control("ALU", {"rd_val"}, "U"))

------------------------------------------------------------------------------
csr_msg(i, func, rs1_is_x0) ==
  [func |-> func, csr_num |-> Field(i, "CSRNUM"), rs1_is_x0 |-> rs1_is_x0]

CsrRDecoder(i) ==
  LET x0 == Field(i, "RS1") = 0
  IN  GenDecoder(i, [OPCODE |-> Opcode.SYSTEM], <<"FUNCT3">>,
                 <<1>> :> csr_msg(i, "READ_WRITE", x0) @@ <<2>> :> csr_msg(i, "READ_SET", x0) @@
                 <<3>> :> csr_msg(i, "READ_CLEAR", x0),
                 Control("CSR", {"serialize", "rs1_val", "rd_val"}, "none"))

CsrIDecoder(i) ==
  GenDecoder(i, [OPCODE |-> Opcode.SYSTEM], <<"FUNCT3">>,
             <<5>> :> csr_msg(i, "READ_WRITE", FALSE) @@ <<6>> :> csr_msg(i, "READ_SET", FALSE) @@
             <<7>> :> csr_msg(i, "READ_CLEAR", FALSE),
             Control("CSR", {"serialize", "rd_val"}, "C"))

branch_msg(type_, unsigned) == [type_ |-> type_, unsigned |-> unsigned]

BranchMap ==
  <<0>> :> branch_msg("EQ", 0) @@ <<1>> :> branch_msg("NE", 0) @@ <<4>> :> branch_msg("LT", 0) @@
  <<5>> :> branch_msg("GE", 0) @@ <<6>> :> branch_msg("LT", 1) @@ <<7>> :> branch_msg("GE", 1)

BranchDecoder(i) ==
  GenDecoder(i, [OPCODE |-> Opcode.BRANCH], <<"FUNCT3">>, BranchMap,
             Control("BRANCH", {"speculative", "rs1_val", "rs2_val"}, "B"))

JALDecoder(i) ==
  GenDecoder(i, [OPCODE |-> Opcode.JAL], <<>>, <<>> :> [bogus |-> 0],
             Control("JUMP", {"speculative", "rd_val"}, "J"))

JALRDecoder(i) ==
  GenDecoder(i, [OPCODE |-> Opcode.JALR, FUNCT3 |-> 0], <<>>, <<>> :> [bogus |-> 0],
             Control("JUMP", {"speculative", "rd_val", "rs1_val"}, "I"))

------------------------------------------------------------------------------
(* MemPayloadGenerator: what the three bits say, and whether they may.     *)
mem_msg(func, funct3) == [func |-> func, unsigned |-> Bit(funct3, 2), width |-> funct3 % 4]

gen_valid(msg) ==
  IF msg.func = "LOAD" THEN ~(msg.width = 3 /\ msg.unsigned = 1) ELSE msg.unsigned = 0

LoadDecoder(i) ==
  {d \in GenDecoder(i, [OPCODE |-> Opcode.LOAD], <<>>, <<>> :> mem_msg("LOAD", Field(i, "FUNCT3")),
                    Control("MEM", {"rs1_val", "rd_val"}, "I")) : gen_valid(d.msg)}

StoreDecoder(i) ==
  {d \in GenDecoder(i, [OPCODE |-> Opcode.STORE], <<>>, <<>> :> mem_msg("STORE", Field(i, "FUNCT3")),
                    Control("MEM", {"store", "rs1_val", "rs2_val"}, "S")) : gen_valid(d.msg)}

m_msg(func, variant, op32) == [func |-> func, variant |-> variant, op32 |-> op32]

MOpMap ==
  <<1, 0>> :> m_msg("MUL", "N", 0) @@ <<1, 1>> :> m_msg("MUL", "H", 0) @@
  <<1, 2>> :> m_msg("MUL", "HSU", 0) @@ <<1, 3>> :> m_msg("MUL", "HU", 0) @@
  <<1, 4>> :> m_msg("DIV", "N", 0) @@ <<1, 5>> :> m_msg("DIV", "U", 0) @@
  <<1, 6>> :> m_msg("REM", "N", 0) @@ <<1, 7>> :> m_msg("REM", "U", 0)

MOpDecoder(i) ==
  GenDecoder(i, [OPCODE |-> Opcode.OP], <<"FUNCT7", "FUNCT3">>, MOpMap,
             Control("MUL", {"rs1_val", "rs2_val", "rd_val"}, "none"))

MOp32Map ==
  <<1, 0>> :> m_msg("MUL", "N", 1) @@ <<1, 4>> :> m_msg("DIV", "N", 1) @@
  <<1, 5>> :> m_msg("DIV", "U", 1) @@ <<1, 6>> :> m_msg("REM", "N", 1) @@
  <<1, 7>> :> m_msg("REM", "U", 1)

MOp32Decoder(i) ==
  GenDecoder(i, [OPCODE |-> Opcode.OP_32], <<"FUNCT7", "FUNCT3">>, MOp32Map,
             Control("MUL", {"rs1_val", "rs2_val", "rd_val"}, "none"))

SystemCallDecoder(i) ==
  GenDecoder(i, [OPCODE |-> Opcode.SYSTEM, RD |-> 0, FUNCT3 |-> 0, RS1 |-> 0, FUNCT7 |-> 0],
             <<"RS2">>, <<0>> :> [func |-> "ECALL"] @@ <<1>> :> [func |-> "EBREAK"],
             Control("SYSTEM", {}, "none"))

FenceDecoder(i) ==
  GenDecoder(i, [OPCODE |-> Opcode.MISC_MEM, RD |-> 0, FUNCT3 |-> 0, RS1 |-> 0, FENCE_UPPER |-> 0],
             <<>>, <<>> :> [func |-> "FENCE"], Control("SYSTEM", {}, "none"))

FenceIDecoder(i) ==
  GenDecoder(i, [OPCODE |-> Opcode.MISC_MEM, RD |-> 0, FUNCT3 |-> 1, RS1 |-> 0, RS2 |-> 0, FUNCT7 |-> 0],
             <<>>, <<>> :> [func |-> "FENCE_I"], Control("SYSTEM", {}, "none"))

------------------------------------------------------------------------------
(* CompositeDecoder: the first child that succeeds.                        *)
CompositeDecoder(children) ==
  LET hits == {k \in DOMAIN children : children[k] # {}}
  IN  IF hits = {} THEN {} ELSE children[Min(hits)]

SubDecoders(i) ==
  <<OpDecoder(i), Op32Decoder(i), OpImmDecoder(i), OpImm32Decoder(i), OpImmShiftDecoder(i),
    OpImm32ShiftDecoder(i), MiscDecoder(i), CsrRDecoder(i), CsrIDecoder(i), BranchDecoder(i),
    JALDecoder(i), JALRDecoder(i), LoadDecoder(i), StoreDecoder(i), MOpDecoder(i), MOp32Decoder(i),
    SystemCallDecoder(i), FenceDecoder(i), FenceIDecoder(i)>>

ComposedDecoder(i) == CompositeDecoder(SubDecoders(i))

(* ImmDecoder: the first slice of a concatenation is the highest.          *)
Concat(i, slices) ==
  FoldLeft(LAMBDA v, f : v * 2^FieldLen(f) + Field(i, f), 0, slices)

ImmSlicesSwapped ==
  [I |-> <<"I_IMM">>, S |-> <<"S_IMM1", "S_IMM0">>, B |-> <<"B_IMM3", "B_IMM2", "B_IMM1", "B_IMM0">>,
   U |-> <<"U_IMM">>, J |-> <<"J_IMM3", "J_IMM1", "J_IMM2", "J_IMM0">>, C |-> <<"C_IMM">>]

ImmSlices ==
  [I |-> <<"I_IMM">>, S |-> <<"S_IMM1", "S_IMM0">>, B |-> <<"B_IMM3", "B_IMM2", "B_IMM1", "B_IMM0">>,
   U |-> <<"U_IMM">>, J |-> <<"J_IMM3", "J_IMM2", "J_IMM1", "J_IMM0">>, C |-> <<"C_IMM">>]

(* The offsets of branches and jumps are even.                             *)
ImmZeros == [I |-> 0, S |-> 0, B |-> 1, U |-> 0, J |-> 1, C |-> 0]

ImmLen(type_) ==
  FoldLeft(LAMBDA n, f : n + FieldLen(f), ImmZeros[type_], ImmSlices[type_])

ImmDecoder(i, type_) ==
  CASE type_ = "SHAMT64" -> InstBits(i, 20, 20 + LG) + 2^LG * InstBits(i, 25, 26)
    [] type_ = "C" -> Concat(i, ImmSlices.C)
    [] type_ \in {"I", "S", "B", "U", "J"} ->
         SExt(Concat(i, ImmSlices[type_]) * 2^ImmZeros[type_], ImmLen(type_), DECODED_IMM_LEN)
    [] type_ = "none" -> 0

(* DecodeStage: the record, or the exception that says it is illegal.      *)
Decoded(i) ==
  IF ComposedDecoder(i) = {}
  THEN [status |-> "EXCEPTION_RAISED", mcause |-> ExceptionCode.ILLEGAL_INSTRUCTION,
        mtval |-> InstWord(i)]
  ELSE LET d == CHOOSE d \in ComposedDecoder(i) : TRUE
       IN  [status |-> "VALID", rs1 |-> Field(i, "RS1"), rs2 |-> Field(i, "RS2"),
            rd |-> Field(i, "RD"), imm |-> ImmDecoder(i, d.imm_type), control |-> d]
=============================================================================
