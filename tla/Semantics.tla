----------------------------- MODULE Semantics ------------------------------
(***************************************************************************)
(* util/arch/semantics.py: the functional processor, one instruction after *)
(* the other.  The two queues hold what the manager has sent and received; *)
(* CSR holds the registers that were chosen to be kept.                    *)
(***************************************************************************)
EXTENDS Operations, Sequences

CONSTANT ILEN_BYTES

VARIABLES PC, R, CSR, M, mngr2proc_queue, proc2mngr_queue

queues == <<mngr2proc_queue, proc2mngr_queue>>

rd(i)  == Disassemble("rd", i)
rs1(i) == Disassemble("rs1", i)
rs2(i) == Disassemble("rs2", i)

(* RegisterFile: register 0 reads as 0 and is not written.                 *)
Read(r) == IF r = 0 THEN 0 ELSE R[r]

Written(r, v) == [x \in DOMAIN R |-> IF x = r /\ r # 0 THEN v ELSE R[x]]

Advance == PC' = Trunc(PC + ILEN_BYTES, XLEN)

------------------------------------------------------------------------------
Shamt ==
  [slli |-> "shamt64", srli |-> "shamt64", srai |-> "shamt64",
   slliw |-> "shamt32", srliw |-> "shamt32", sraiw |-> "shamt32"]

ImmNames == {"addi", "slti", "sltiu", "xori", "ori", "andi", "addiw"}

Operand2(name, i) ==
  IF name \in DOMAIN Shamt THEN Disassemble(Shamt[name], i)
  ELSE IF name \in ImmNames THEN Immediate("i_imm", i) ELSE Read(rs2(i))

(* augment_u_imm                                                           *)
UpperImm(i) == ShiftLeft(Disassemble("u_imm", i), 12, XLEN)

Compute(name, i) ==
  /\ \/ /\ name \in DOMAIN Whole \cup DOMAIN Halves
        /\ R' = Written(rd(i), Computed(name, Read(rs1(i)), Operand2(name, i)))
     \/ /\ name \in MulDivNames
        /\ R' = Written(rd(i), MulDiv(name, Read(rs1(i)), Read(rs2(i))))
     \/ /\ name = "lui"
        /\ R' = Written(rd(i), UpperImm(i))
     \/ /\ name = "auipc"
        /\ R' = Written(rd(i), Trunc(UpperImm(i) + PC, XLEN))
  /\ Advance
  /\ UNCHANGED <<CSR, M, queues>>

------------------------------------------------------------------------------
(* How many bytes, of XLEN / 8 bits each.                                  *)
LoadBytes == [lb |-> 1, lh |-> 2, lw |-> 4, ld |-> 8, lbu |-> 1, lhu |-> 2, lwu |-> 4]

StoreBytes == [sb |-> 1, sh |-> 2, sw |-> 4, sd |-> 8]

BYTE == XLEN \div 8

(* The memory is smaller than what a register can address.                 *)
Cell(addr, k) == (addr + k) % Cardinality(DOMAIN M)

Bytes(mem, addr, n) == MapThenSumSet(LAMBDA k : mem[Cell(addr, k)] * 2^(BYTE * k), 0 .. n - 1)

Stored(mem, addr, n, v) ==
  [c \in DOMAIN mem |->
     LET k == (c - addr) % Cardinality(DOMAIN mem)
     IN  IF k < n THEN Slice(v, BYTE * k, BYTE * (k + 1)) ELSE mem[c]]

LoadStore(name, i) ==
  /\ \/ \E n \in {LoadBytes[x] : x \in DOMAIN LoadBytes \cap {name}} :
          LET data == Bytes(M, Read(rs1(i)) + Immediate("i_imm", i), n)
          IN  /\ R' = Written(rd(i), IF name \in {"lbu", "lhu", "lwu"} THEN data
                                     ELSE SExt(data, BYTE * n, XLEN))
              /\ M' = M
     \/ \E n \in {StoreBytes[x] : x \in DOMAIN StoreBytes \cap {name}} :
          /\ M' = Stored(M, Read(rs1(i)) + Immediate("s_imm", i), n, Read(rs2(i)))
          /\ R' = R
  /\ Advance
  /\ UNCHANGED <<CSR, queues>>

------------------------------------------------------------------------------
Fence(name) == name \in {"fence", "fence_i"} /\ Advance /\ UNCHANGED <<R, CSR, M, queues>>

(* ProcRedirect.  temp & 0xFFFFFFFE keeps the low half of the sum only.    *)
Jump(name, i) ==
  /\ \/ /\ name = "jal"
        /\ PC' = Trunc(PC + Immediate("j_imm", i), XLEN)
     \/ /\ name = "jalr"
        /\ LET temp == Trunc(Read(rs1(i)) + Immediate("i_imm", i), XLEN)
           IN  PC' = Low(temp) - Bit(temp, 0)
  /\ R' = Written(rd(i), Trunc(PC + ILEN_BYTES, XLEN))
  /\ UNCHANGED <<CSR, M, queues>>

Taken(name, x, y) ==
  CASE name = "beq"  -> x = y
    [] name = "bne"  -> x # y
    [] name = "blt"  -> SignedX(x) < SignedX(y)
    [] name = "bge"  -> SignedX(x) >= SignedX(y)
    [] name = "bltu" -> x < y
    [] name = "bgeu" -> x >= y

Branch(name, i) ==
  /\ name \in {"beq", "bne", "blt", "bge", "bltu", "bgeu"}
  /\ IF Taken(name, Read(rs1(i)), Read(rs2(i)))
     THEN PC' = Trunc(PC + Immediate("b_imm", i), XLEN) ELSE Advance
  /\ UNCHANGED <<R, CSR, M, queues>>

------------------------------------------------------------------------------
(* handle_exception; with a bad mode of mtvec it fails.                    *)
Raise(i, mcause) ==
  LET mtvec == CSR[CsrRegisters.mtvec]
      base == mtvec - (mtvec % 4)
  IN  /\ CSR' = [c \in DOMAIN CSR |->
                   CASE c = CsrRegisters.mtval -> InstWord(i)
                     [] c = CsrRegisters.mcause -> mcause
                     [] c = CsrRegisters.mepc -> PC
                     [] OTHER -> CSR[c]]
      /\ \/ mtvec % 4 = MtvecMode.MTVEC_MODE_DIRECT /\ PC' = base
         \/ mtvec % 4 = MtvecMode.MTVEC_MODE_VECTORED /\ PC' = Trunc(base + 4 * mcause, XLEN)
      /\ UNCHANGED <<R, M, queues>>

Exception(name, i) ==
  \/ name = "invld" /\ Raise(i, ExceptionCode.ILLEGAL_INSTRUCTION)
  \/ name = "ecall" /\ Raise(i, ExceptionCode.ENVIRONMENT_CALL_FROM_U)
  \/ name = "ebreak" /\ Raise(i, ExceptionCode.BREAKPOINT)

(* CsrRegisterFile: every read of mngr2proc takes a message.               *)
CsrRead(csr, k) ==
  IF csr = CsrRegisters.mngr2proc THEN mngr2proc_queue[k]
  ELSE IF csr \in DOMAIN CSR THEN CSR[csr] ELSE 0

CsrWrite(csr, v) ==
  IF csr = CsrRegisters.proc2mngr
  THEN proc2mngr_queue' = Append(proc2mngr_queue, v) /\ CSR' = CSR
  ELSE /\ CSR' = [c \in DOMAIN CSR |-> IF c = csr THEN v ELSE CSR[c]]
       /\ UNCHANGED proc2mngr_queue

(* The op each instruction hands to csr_func: csrrsi hands csrrw_op.       *)
CsrOps ==
  [csrrw |-> "rw", csrrs |-> "rs", csrrc |-> "rc", csrrwi |-> "rw", csrrsi |-> "rw", csrrci |-> "rc"]

CsrImms == {"csrrwi", "csrrsi", "csrrci"}

CsrFunc(name, i) ==
  LET csr == Disassemble("csrnum", i)
      rs1_is_x0 == name \notin CsrImms /\ rs1(i) = 0
      value == IF name \in CsrImms THEN rs1(i) ELSE Read(rs1(i))
      op == CsrOps[name]
      writes == op = "rw" \/ ~rs1_is_x0
      reads == IF op # "rw" /\ writes THEN 2 ELSE 1
      new == CASE op = "rw" -> value
               [] op = "rs" -> CsrRead(csr, 2) | value
               [] op = "rc" -> CsrRead(csr, 2) & BoolBit(value = 0)
  IN  IF ~CsrContains(csr) THEN Raise(i, ExceptionCode.ILLEGAL_INSTRUCTION)
      ELSE /\ R' = Written(rd(i), CsrRead(csr, 1))
           /\ IF writes THEN CsrWrite(csr, new) ELSE UNCHANGED <<CSR, proc2mngr_queue>>
           /\ IF csr # CsrRegisters.mngr2proc THEN UNCHANGED mngr2proc_queue
              ELSE /\ Len(mngr2proc_queue) >= reads
                   /\ mngr2proc_queue' = SubSeq(mngr2proc_queue, reads + 1, Len(mngr2proc_queue))
           /\ Advance
           /\ UNCHANGED M

Csr(name, i) == name \in DOMAIN CsrOps /\ CsrFunc(name, i)

------------------------------------------------------------------------------
(* execute                                                                 *)
Execute(i) ==
  LET name == InstName(i)
  IN  \/ Compute(name, i)
      \/ LoadStore(name, i)
      \/ Fence(name)
      \/ Jump(name, i)
      \/ Branch(name, i)
      \/ Csr(name, i)
      \/ Exception(name, i)
=============================================================================
