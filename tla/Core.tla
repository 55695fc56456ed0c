-------------------------------- MODULE Core --------------------------------
(***************************************************************************)
(* What the stages of core/rtl do to the architectural state: decoding,    *)
(* the ALU, branches, loads and stores, the CSR manager and the commit.    *)
(* One step is one instruction, from its decoding to its commit; Backend   *)
(* and MemorySystem show that the pipeline lets every instruction see what *)
(* the earlier ones left.  MULs and DIVs are those of MPipe.               *)
(***************************************************************************)
EXTENDS Decoder

CONSTANTS MemBytes, ILEN_BYTES, RESET_VECTOR,
          Cases      \* what is run: programs, with the registers, the memory
                     \* and the messages each of them may start with

VARIABLES program,            \* the instructions the front end has yet to deliver
          pc, aregs, csr_file, mem,
          output_messages,    \* of the debug bus, to the processor
          received_messages   \* from the processor

inst == Head(program)

bus == <<output_messages, received_messages>>
vars == <<program, pc, aregs, csr_file, mem, bus>>

Mod(v) == Trunc(v, XLEN)

Imm(d) == SExt(d.imm, DECODED_IMM_LEN, XLEN)

RegRead(r) == IF r = 0 THEN 0 ELSE aregs[r]

(* process_in_.rs1 and rs2: not driven unless the instruction reads them.  *)
Src1(d) == IF "rs1_val" \in d.control.flags THEN RegRead(d.rs1) ELSE 0
Src2(d) == IF "rs2_val" \in d.control.flags THEN RegRead(d.rs2) ELSE 0

(* The upper most bit is flipped if the comparison is signed.              *)
Ordered(v, unsigned) == IF unsigned = 1 THEN v ELSE v ^^ (2^(XLEN - 1))

------------------------------------------------------------------------------
(* util/rtl/alu.py                                                         *)
ALU(func, unsigned, s0, s1) ==
  LET shamt == s1 % XLEN
  IN  CASE func \in {"ADD", "AUIPC"} -> Mod(s0 + s1)
        [] func = "SUB" -> Mod(s0 - s1)
        [] func = "AND" -> s0 & s1
        [] func \in {"OR", "LUI"} -> s0 | s1
        [] func = "XOR" -> s0 ^^ s1
        [] func = "SLL" -> ShiftLeft(s0, shamt, XLEN)
        [] func = "SRL" -> ShiftRight(s0, shamt)
        [] func = "SRA" -> Mod(Signed(s0, XLEN) \div 2^shamt)
        [] func = "SLT" -> IF Ordered(s0, unsigned) < Ordered(s1, unsigned) THEN 1 ELSE 0

(* backend/alu.py                                                          *)
Narrowed(m, v) ==
  IF m.unsigned = 1 \/ m.func = "SRL" THEN Trunc(v, HALF) ELSE SExt(Trunc(v, HALF), HALF, XLEN)

(* A plausible slip, kept to measure the properties against.               *)
WithBit5(m, v) == v

(* If op32 shift w, need to ignore bit 5.                                  *)
WithoutBit5(m, v) == IF m.func \in {"SLL", "SRL", "SRA"} THEN v - 2^LG * Bit(v, LG) ELSE v

AluResult(d) ==
  LET m == d.control.msg
      imm == IF m.func \in {"AUIPC", "LUI"} THEN ShiftLeft(Imm(d), 12, XLEN) ELSE Imm(d)
      src1 == IF m.op32 = 1 THEN Narrowed(m, Src1(d))
              ELSE IF m.func = "AUIPC" THEN pc ELSE IF m.func = "LUI" THEN 0 ELSE Src1(d)
      src2 == IF m.op32 = 1 THEN WithoutBit5(m, Narrowed(m, Src2(d))) ELSE Src2(d)
      res == ALU(m.func, m.unsigned, src1, IF "rs2_val" \in d.control.flags THEN src2 ELSE imm)
  IN  IF m.op32 = 0 THEN res
      ELSE IF m.unsigned = 1 THEN Trunc(res, HALF) ELSE SExt(Trunc(res, HALF), HALF, XLEN)

(* util/rtl/comparator.py                                                  *)
Comparator(func, unsigned, src0, src1) ==
  LET s0 == Ordered(src0, unsigned)
      s1 == Ordered(src1, unsigned)
  IN  CASE func = "EQ" -> s0 = s1
        [] func = "NE" -> s0 # s1
        [] func = "LT" -> s0 < s1
        [] func = "GE" -> ~(s0 < s1) \/ s0 = s1

(* backend/branch.py                                                       *)
TakeBranch(d) ==
  \/ d.control.op_class = "JUMP"
  \/ Comparator(d.control.msg.type_, d.control.msg.unsigned, Src1(d), Src2(d))

BranchTarget(d) ==
  LET rs1imm == Mod(Src1(d) + Imm(d))
  IN  IF ~TakeBranch(d) THEN Mod(pc + ILEN_BYTES)
      ELSE IF d.control.op_class = "BRANCH" \/ "rs1_val" \notin d.control.flags THEN Mod(pc + Imm(d))
      ELSE rs1imm - (rs1imm % 2)

------------------------------------------------------------------------------
(* backend/mem_pipe.py, and the bytes of XLEN / 8 bits behind the bus.     *)
BYTE == XLEN \div 8

MemAddr(d) == Mod(Src1(d) + Imm(d))
MemLen(d) == 2^d.control.msg.width

BusRead(addr, len) == MapThenSumSet(LAMBDA k : mem[(addr + k) % MemBytes] * 2^(BYTE * k), 0 .. len - 1)

BusWrite(addr, len, data) ==
  [c \in DOMAIN mem |->
     LET k == (c - addr) % MemBytes
     IN  IF k < len THEN Slice(data, BYTE * k, BYTE * (k + 1)) ELSE mem[c]]

LoadResult(d) ==
  LET data == BusRead(MemAddr(d), MemLen(d))
      width == d.control.msg.width
      bits == BYTE * 2^(IF d.control.msg.unsigned = 1 /\ width > 2 THEN 2 ELSE width)
  IN  IF d.control.msg.unsigned = 1 THEN Trunc(data, bits) ELSE SExt(Trunc(data, bits), bits, XLEN)

------------------------------------------------------------------------------
(* csr_manager.py and lookup_registerfile.py: the ports that write in one  *)
(* clock, the last over the earlier ones; a key it does not have is        *)
(* dropped.                                                                *)
CsrKeys == {"mtvec", "mepc", "mcause", "mtval", "mcycle", "minstret", "mvendorid", "marchid",
            "mimpid", "mhartid"}

CsrReset == [k \in {CsrRegisters[n] : n \in CsrKeys} |->
               CASE k = CsrRegisters.mvendorid -> Mod(48879)     \* ...beef
                 [] k = CsrRegisters.marchid -> Mod(16962)       \* ...4242
                 [] k = CsrRegisters.mimpid -> 1
                 [] OTHER -> 0]

WritePorts(file, writes) ==
  FoldLeft(LAMBDA f, w : [k \in DOMAIN f |-> IF k = w[1] THEN w[2] ELSE f[k]], file, writes)

(* handle_mcycle_minstret: a port of its own in every clock.               *)
Mcycle(file) == <<CsrRegisters.mcycle, Mod(file[CsrRegisters.mcycle] + 1)>>

OpValue(d) == IF d.control.imm_val THEN Mod(d.imm) ELSE Src1(d)

Combined(op, value, old) ==
  CASE op = "READ_WRITE" -> value
    [] op = "READ_SET" -> value | old
    [] op = "READ_CLEAR" -> value & ((2^XLEN - 1) - old)

SendCall(m) == m.csr_num = CsrRegisters.proc2mngr /\ m.func = "READ_WRITE"

RecvCall(m) ==
  /\ m.csr_num = CsrRegisters.mngr2proc /\ m.func # "READ_WRITE"
  /\ output_messages # <<>> /\ m.rs1_is_x0

(* A plausible slip, kept to measure the properties against.               *)
ReceivedUnasked(m, value) ==
  IF m.csr_num = CsrRegisters.proc2mngr THEN Append(received_messages, value) ELSE received_messages

Received(m, value) == IF SendCall(m) THEN Append(received_messages, value) ELSE received_messages

(* The operation in its clock: whether it succeeds, the old value, and the *)
(* file and the messages it leaves.                                        *)
CsrOp(m, value) ==
  LET known == m.csr_num \in DOMAIN csr_file
      old == IF RecvCall(m) THEN Head(output_messages)
             ELSE IF known THEN csr_file[m.csr_num] ELSE 0
  IN  [success |-> SendCall(m) \/ RecvCall(m) \/ known,
       old |-> old,
       file |-> WritePorts(csr_file, <<Mcycle(csr_file),
                                       <<m.csr_num, Combined(m.func, value, old)>>>>),
       output |-> IF RecvCall(m) THEN Tail(output_messages) ELSE output_messages,
       received |-> Received(m, value)]

(* backend/commit.py                                                       *)
TrapWrites(mcause, mtval) ==
  <<<<CsrRegisters.mcause, mcause>>, <<CsrRegisters.mtval, mtval>>, <<CsrRegisters.mepc, pc>>>>

Minstret(file) == <<CsrRegisters.minstret, Mod(file[CsrRegisters.minstret] + 1)>>

ExceptionTarget(file, mcause) ==
  LET mtvec == file[CsrRegisters.mtvec]
      base == mtvec - (mtvec % 4)
  IN  IF mtvec % 4 = MtvecMode.MTVEC_MODE_VECTORED THEN Mod(base + 4 * mcause) ELSE base

Retire(file, rd_val, rd, result, target) ==
  /\ aregs' = [r \in DOMAIN aregs |-> IF rd_val /\ r = rd /\ r # 0 THEN result ELSE aregs[r]]
  /\ csr_file' = WritePorts(file, <<Mcycle(file), Minstret(file)>>)
  /\ pc' = target

Trap(file, mcause, mtval) ==
  /\ csr_file' = WritePorts(file, TrapWrites(mcause, mtval) \o <<Mcycle(file), Minstret(file)>>)
  /\ pc' = ExceptionTarget(file, mcause)
  /\ UNCHANGED aregs

PcSucc == Mod(pc + ILEN_BYTES)

------------------------------------------------------------------------------
Illegal(d) ==
  /\ d.status = "EXCEPTION_RAISED"
  /\ Trap(csr_file, d.mcause, d.mtval)
  /\ UNCHANGED <<mem, bus>>

Class(d, op_class) == d.status = "VALID" /\ d.control.op_class = op_class

Alu(d) ==
  /\ Class(d, "ALU")
  /\ Retire(csr_file, TRUE, d.rd, AluResult(d), PcSucc)
  /\ UNCHANGED <<mem, bus>>

BranchJump(d) ==
  /\ Class(d, "BRANCH") \/ Class(d, "JUMP")
  /\ Retire(csr_file, "rd_val" \in d.control.flags, d.rd, PcSucc, BranchTarget(d))
  /\ UNCHANGED <<mem, bus>>

Load(d) ==
  /\ Class(d, "MEM") /\ d.control.msg.func = "LOAD"
  /\ Retire(csr_file, TRUE, d.rd, LoadResult(d), PcSucc)
  /\ UNCHANGED <<mem, bus>>

Store(d) ==
  /\ Class(d, "MEM") /\ d.control.msg.func = "STORE"
  /\ mem' = BusWrite(MemAddr(d), MemLen(d), Src2(d))
  /\ Retire(csr_file, FALSE, d.rd, 0, PcSucc)
  /\ UNCHANGED bus

(* The operation in its clock, and the commit in a later one.              *)
Csr(d) ==
  /\ Class(d, "CSR")
  /\ LET op == CsrOp(d.control.msg, OpValue(d))
     IN  /\ IF op.success THEN Retire(op.file, TRUE, d.rd, op.old, PcSucc)
            ELSE Trap(op.file, ExceptionCode.ILLEGAL_INSTRUCTION, 0)
         /\ output_messages' = op.output
         /\ received_messages' = op.received
  /\ UNCHANGED mem

(* A fence.i replays from the next instruction.                            *)
System(d) ==
  /\ Class(d, "SYSTEM")
  /\ CASE d.control.msg.func = "ECALL" -> Trap(csr_file, ExceptionCode.ENVIRONMENT_CALL_FROM_M, 0)
       [] d.control.msg.func = "EBREAK" -> Trap(csr_file, ExceptionCode.BREAKPOINT, 0)
       [] OTHER -> Retire(csr_file, FALSE, d.rd, 0, PcSucc)
  /\ UNCHANGED <<mem, bus>>

Init ==
  \E c \in Cases :
     /\ program \in c.programs
     /\ pc = RESET_VECTOR
     /\ aregs \in c.aregs
     /\ csr_file = CsrReset
     /\ mem = c.mem
     /\ output_messages \in c.messages
     /\ received_messages = <<>>

Next ==
  /\ program # <<>>
  /\ program' = Tail(program)
  /\ LET d == Decoded(inst)
     IN  Illegal(d) \/ Alu(d) \/ BranchJump(d) \/ Load(d) \/ Store(d) \/ Csr(d) \/ System(d)

Spec == Init /\ [][Next]_vars

------------------------------------------------------------------------------
(* The instructions the table has a name for and the decoder knows.        *)
Amo(i) == i.opcode = Opcode.AMO

(* The field of the table the immediate of a decoded instruction is.       *)
ImmFields ==
  [I |-> "i_imm", S |-> "s_imm", B |-> "b_imm", U |-> "u_imm", J |-> "j_imm", C |-> "c_imm",
   SHAMT64 |-> "shamt64"]

(* The decoder and the table of the instruction set were written apart:    *)
(* one is a priority chain of matchers on slices, the other a dictionary   *)
(* of masks that is searched in no order.  No instruction has two readings *)
(* in either, the decoder takes exactly the instructions that have a name, *)
(* but for the atomic ones, makes a message that the back end knows of each, *)
(* and cuts out the immediate that the table describes, all bits of it.    *)
DecodeExact ==
  program # <<>> =>
    LET children == SubDecoders(inst)
        taken == {k \in DOMAIN children : children[k] # {}}
        names == MatchingRows(inst)
        d == Decoded(inst)
    IN  /\ IsDecodeMsg(d)
        /\ Cardinality(taken) <= 1
        /\ Cardinality(names) <= 1
        /\ taken # {} <=> names # {} /\ ~Amo(inst)
        /\ taken # {} /\ d.control.imm_val =>
             LET f == ImmFields[d.control.imm_type]
             IN  Signed(d.imm, DECODED_IMM_LEN) =
                   IF f \in DOMAIN FieldWidth
                   THEN Signed(Disassemble(f, inst), FieldWidth[f]) ELSE Disassemble(f, inst)

------------------------------------------------------------------------------
(* The CSRs both processors keep and agree on.                             *)
SharedCsrs == {CsrRegisters[n] : n \in {"mtvec", "mepc", "mcause"}}

FL == INSTANCE Semantics WITH
        PC <- pc, R <- aregs, CSR <- [c \in SharedCsrs |-> csr_file[c]], M <- mem,
        mngr2proc_queue <- output_messages, proc2mngr_queue <- received_messages

CsrNumber(i) == Disassemble("csrnum", i)

CsrAgrees(i, name) ==
  LET source == Disassemble("rs1", i)
  IN  \/ CsrNumber(i) \in SharedCsrs /\ name \in {"csrrw", "csrrs", "csrrwi"}
      \/ CsrNumber(i) = CsrRegisters.proc2mngr /\ name \in {"csrrw", "csrrwi"}
      \/ /\ CsrNumber(i) = CsrRegisters.mngr2proc
         /\ name \in {"csrrs", "csrrc"} /\ source = 0 /\ output_messages # <<>>
      \/ ~CsrContains(CsrNumber(i))

(* Where the two are meant to agree: the README lists the rest.            *)
Comparable(i) ==
  LET name == InstName(i)
  IN  /\ ~Amo(i) /\ name # "ecall"
      /\ name = "jalr" =>
           Mod(RegRead(Disassemble("rs1", i)) + Immediate("i_imm", i)) < 2^HALF
      /\ name \in DOMAIN FL!CsrOps => CsrAgrees(i, name)
      /\ csr_file[CsrRegisters.mtvec] % 4 < 2

(* Every instruction the hardware completes is a step of the functional    *)
(* processor: the same value in the same register, the same bytes in       *)
(* memory, the same messages, the same trap and the same next instruction. *)
ImplementsSemantics == [][Comparable(inst) => FL!Execute(inst)]_vars

Traps(d) ==
  IF d.status # "VALID" THEN TRUE
  ELSE \/ d.control.op_class = "SYSTEM" /\ d.control.msg.func \in {"ECALL", "EBREAK"}
       \/ d.control.op_class = "CSR" /\ ~CsrOp(d.control.msg, OpValue(d)).success

Reported == {CsrRegisters[n] : n \in {"mcause", "mtval", "mepc", "mcycle", "minstret"}}

(* An instruction that traps, wherever the exception is found, at the      *)
(* decoder, in the CSR manager whose operation has been called by then, or *)
(* at the commit, leaves nothing behind but what the handler reads: no     *)
(* register, no byte of memory, no message taken or sent, no other CSR.    *)
TrapLeavesNoTrace ==
  [][Traps(Decoded(inst)) =>
       /\ UNCHANGED <<aregs, mem, bus>>
       /\ \A k \in DOMAIN csr_file \ Reported : csr_file'[k] = csr_file[k]
       /\ csr_file'[CsrRegisters.mepc] = pc]_vars

(* csrrs and csrrc that name register 0 only read: the functional          *)
(* processor leaves the CSR alone.                                         *)
CsrReadOnlyReads ==
  [][(/\ InstName(inst) \in {"csrrs", "csrrc"}
      /\ Disassemble("rs1", inst) = 0
      /\ CsrNumber(inst) \in SharedCsrs)
     => csr_file'[CsrNumber(inst)] = csr_file[CsrNumber(inst)]]_vars
=============================================================================
