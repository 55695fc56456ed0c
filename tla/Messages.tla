------------------------------ MODULE Messages ------------------------------
(***************************************************************************)
(* core/rtl/messages.py: what the decoder hands to the stages behind it.   *)
(* Of a union there is the member that the status and the class name.      *)
(***************************************************************************)
EXTENDS Encoding

CONSTANT DECODED_IMM_LEN

OpClass == {"ALU", "MUL", "BRANCH", "JUMP", "CSR", "SYSTEM", "MEM"}

AluFunc == {"ADD", "SUB", "SLL", "SLT", "XOR", "SRL", "SRA", "OR", "AND", "LUI", "AUIPC"}
MFunc == {"MUL", "DIV", "REM"}
MVariant == {"N", "H", "HSU", "HU", "U"}
CsrFunc == {"READ_WRITE", "READ_SET", "READ_CLEAR"}
BranchType == {"EQ", "NE", "LT", "GE"}
MemFunc == {"LOAD", "STORE"}
SystemFunc == {"FENCE", "FENCE_I", "ECALL", "EBREAK"}

AluMsg    == [func : AluFunc, op32 : Word(1), unsigned : Word(1)]
MMsg      == [func : MFunc, variant : MVariant, op32 : Word(1)]
CsrMsg    == [func : CsrFunc, csr_num : Word(12), rs1_is_x0 : BOOLEAN]
BranchMsg == [type_ : BranchType, unsigned : Word(1)]
JumpMsg   == [bogus : Word(1)]
MemMsg    == [func : MemFunc, unsigned : Word(1), width : Word(2)]
SystemMsg == [func : SystemFunc]

(* The member of the union that each class has.                            *)
PipeMsg ==
  [ALU |-> AluMsg, MUL |-> MMsg, CSR |-> CsrMsg, BRANCH |-> BranchMsg, JUMP |-> JumpMsg,
   MEM |-> MemMsg, SYSTEM |-> SystemMsg]

ImmType == {"I", "S", "B", "U", "J", "C", "SHAMT32", "SHAMT64"}

Flags == {"serialize", "speculative", "store", "rs1_val", "rs2_val", "rd_val"}

(* What a decoder says of the instructions it takes.                       *)
Controls(op_class) ==
  [op_class : {op_class}, flags : SUBSET Flags, imm_type : ImmType \cup {"none"},
   imm_val : BOOLEAN, msg : PipeMsg[op_class]]

ExceptionInfo == [status : {"EXCEPTION_RAISED"}, mcause : Word(4), mtval : Word(XLEN)]

DecodePayload(op_class) ==
  [status : {"VALID"}, rs1 : Word(5), rs2 : Word(5), rd : Word(5),
   imm : Word(DECODED_IMM_LEN), control : Controls(op_class)]

IsDecodeMsg(m) == m \in ExceptionInfo \/ \E c \in OpClass : m \in DecodePayload(c)
=============================================================================
