----------------------------- MODULE CpuProofs -----------------------------
(***************************************************************************)
(* The interpreter keeps every value within its C type and register $0 at  *)
(* zero, its branch-delay pipeline implements DelaySlot, its services      *)
(* write nothing but their results, and its arithmetic, loads and stores   *)
(* do what Instructions says, for every word width, program, entry point,  *)
(* input and instruction encoding.                                         *)
(***************************************************************************)
EXTENDS Instructions, WordLemmas

(* TypeOK without the coprocessor's registers, and these.                  *)
IntegerOK ==
  /\ reg \in [Reg -> Word]
  /\ hi \in Word /\ lo \in Word
  /\ memory \in [Word -> Byte]
  /\ pc \in Word
  /\ branch_pending \in BOOLEAN
  /\ branch_target \in Word
  /\ last_key \in Byte
  /\ status \in {"run", "stop", "error", "crash"}

FpuOK == fpr \in [FpReg -> Word]

Inv == IntegerOK /\ ZeroRegister

(* The parts of IntegerOK that the end of step_instruction decides, and the   *)
(* part that an instruction decides.                                       *)
PipelineOK ==
  /\ pc \in Word
  /\ branch_pending \in BOOLEAN
  /\ branch_target \in Word
  /\ status \in {"run", "stop", "error", "crash"}

DataOK ==
  /\ reg \in [Reg -> Word]
  /\ hi \in Word /\ lo \in Word
  /\ memory \in [Word -> Byte]
  /\ last_key \in Byte
  /\ reg[R0] = 0

(* The inductive invariant splits into what a step does to the pipeline    *)
(* and to the data.                                                        *)
LEMMA InvParts == Inv <=> PipelineOK /\ DataOK
BY DEF Inv, IntegerOK, ZeroRegister, PipelineOK, DataOK

(* The same split in the next state.                                       *)
LEMMA InvPartsNext == Inv' <=> PipelineOK' /\ DataOK'
BY DEF Inv, IntegerOK, ZeroRegister, PipelineOK, DataOK

(* The fetched word decodes to an instruction.                             *)
LEMMA InstructionType == Inv => Instruction \in Instr
<1> SUFFICES ASSUME Inv PROVE Instruction \in Instr
  OBVIOUS
<1>1. pc \in Word /\ memory \in [Word -> Byte]
  BY DEF Inv, IntegerOK
<1>2. pc - (pc % 4) \in Word
  <2>1. pc \in Nat /\ pc % 4 \in 0..3 /\ pc % 4 <= pc
    BY <1>1 DEF Word
  <2> QED BY <2>1, <1>1, Widths DEF Word
<1>3. WordAt(memory, pc - (pc % 4)) \in Word
  BY <1>1, <1>2, LoadTypes
<1> QED BY <1>3, MachineAssumption DEF Instruction

(* The fields of the fetched instruction have the types of the accessors   *)
(* of decode.h.                                                            *)
LEMMA Fields ==
  ASSUME NEW i \in Instr
  PROVE  /\ i.op \in Ops /\ i.rs \in Reg /\ i.rt \in Reg /\ i.rd \in Reg
         /\ i.shamt \in 0..(WBITS - 1) /\ i.fd \in Reg /\ i.imm \in Half
         /\ i.target \in 0..((JREGION \div 4) - 1)
BY DEF Instr

(* The registers with a role of their own exist and are not $0.            *)
LEMMA Registers ==
  /\ R0 \in Reg /\ V0 \in Reg /\ A0 \in Reg /\ A1 \in Reg /\ A2 \in Reg
  /\ K0 \in Reg /\ SP \in Reg /\ RA \in Reg
  /\ R0 # V0 /\ R0 # K0 /\ R0 # RA /\ R0 # SP
BY DEF R0, V0, A0, A1, A2, K0, SP, RA, Reg, NB_REG

(* The pipeline moves to an address, and stops with a status.              *)
LEMMA AdvanceType ==
  ASSUME Inv, NEW taken \in BOOLEAN, NEW target, taken => target \in Word,
         Advance(taken, target)
  PROVE  PipelineOK'
<1>1. pc \in Int
  BY DEF Inv, IntegerOK, Word
<1>2. U32(pc + 4) \in Word
  BY <1>1, U32Type
<1> QED BY <1>2 DEF Inv, IntegerOK, PipelineOK, Advance

(* Falling through keeps the pipeline part of the invariant.               *)
LEMMA ContinueType == Inv /\ Continue => PipelineOK'
BY AdvanceType DEF Continue

(* So does stopping, with one of the statuses of a stopped machine.        *)
LEMMA HaltType ==
  ASSUME Inv, NEW s \in {"stop", "error", "crash"}, Halt(s)
  PROVE  PipelineOK'
BY DEF Inv, IntegerOK, PipelineOK, Halt

(* An update of one register, followed by the clearing of $0.              *)
LEMMA ClearType ==
  ASSUME NEW f \in [Reg -> Word]
  PROVE  ClearR0(f) \in [Reg -> Word] /\ ClearR0(f)[R0] = 0
BY Registers, Widths DEF ClearR0, Word

(* An instruction that only writes a word to a register keeps the          *)
(* invariant.                                                              *)
LEMMA WriteType ==
  ASSUME Inv, NEW r \in Reg, NEW v \in Word, Write(r, v)
  PROVE  Inv'
<1>1. PipelineOK'
  BY ContinueType DEF Write
<1>2. [reg EXCEPT ![r] = v] \in [Reg -> Word]
  BY DEF Inv, IntegerOK
<1>3. DataOK'
  BY <1>2, ClearType DEF Write, DataOK, Inv, IntegerOK
<1> QED BY <1>1, <1>3, InvPartsNext

(* An instruction that only writes words to hi and lo keeps the invariant. *)
LEMMA SetHiLoType ==
  ASSUME Inv, NEW h \in Word, NEW l \in Word, SetHiLo(h, l)
  PROVE  Inv'
<1>1. PipelineOK'
  BY ContinueType DEF SetHiLo
<1>2. DataOK'
  BY ClearType DEF SetHiLo, DataOK, Inv, IntegerOK
<1> QED BY <1>1, <1>2, InvPartsNext

(* A crash keeps the invariant: it changes the status only.                *)
LEMMA CrashType == Inv /\ Crash => Inv'
<1> SUFFICES ASSUME Inv, Crash PROVE Inv'
  OBVIOUS
<1>1. PipelineOK'
  BY HaltType DEF Crash
<1>2. DataOK'
  BY DEF Crash, DataOK, Inv, IntegerOK, ZeroRegister
<1> QED BY <1>1, <1>2, InvPartsNext

(* A service that only prints keeps the invariant.                         *)
LEMMA OutputType == Inv /\ Output => Inv'
<1> SUFFICES ASSUME Inv, Output PROVE Inv'
  OBVIOUS
<1>1. PipelineOK'
  BY ContinueType DEF Output
<1>2. DataOK'
  BY DEF Output, DataOK, Inv, IntegerOK, ZeroRegister
<1> QED BY <1>1, <1>2, InvPartsNext

(* A service that returns a word in $v0 keeps the invariant.               *)
LEMMA ResultType == ASSUME Inv, NEW v \in Word, Result(v) PROVE Inv'
<1>1. PipelineOK'
  BY ContinueType DEF Result
<1>2. DataOK'
  BY Registers DEF Result, DataOK, Inv, IntegerOK, ZeroRegister
<1> QED BY <1>1, <1>2, InvPartsNext

(***************************************************************************)
(* The initial state.                                                      *)
(***************************************************************************)
LEMMA InitInv == Init => Inv
<1> SUFFICES ASSUME Init PROVE Inv
  OBVIOUS
<1>1. U32(WORD - 4) \in Word /\ 0 \in Word /\ 0 \in Byte
  BY U32Type, Widths DEF Word, Byte
<1>2. reg \in [Reg -> Word] /\ reg[R0] = 0
  BY <1>1, Registers DEF Init
<1> QED BY <1>1, <1>2, MachineAssumption DEF Init, Inv, IntegerOK, ZeroRegister

(* The coprocessor's registers are words initially.                        *)
LEMMA InitFpu == Init => FpuOK
<1>1. 0 \in Word
  BY Widths DEF Word
<1> QED BY <1>1 DEF Init, FpuOK

(***************************************************************************)
(* The services of syscalls.c.                                             *)
(***************************************************************************)
LEMMA StrncpyType ==
  ASSUME NEW m \in [Word -> Byte], NEW a \in Word, NEW s \in Seq(Byte), NEW n \in Word
  PROVE  Strncpy(m, a, s, n) \in [Word -> Byte]
<1> SUFFICES ASSUME NEW k \in Word
             PROVE  (IF a <= k /\ k < a + n
                     THEN IF k - a < Len(s) /\ \A j \in 1..(k - a + 1) : s[j] # 0
                          THEN s[k - a + 1] ELSE 0
                     ELSE m[k]) \in Byte
  BY DEF Strncpy
<1>1. 0 \in Byte /\ m[k] \in Byte
  BY Widths DEF Byte
<1>2. ASSUME a <= k, k - a < Len(s) PROVE s[k - a + 1] \in Byte
  <2>1. a \in Nat /\ k \in Nat /\ Len(s) \in Nat
    BY DEF Word
  <2>2. k - a + 1 \in 1..Len(s)
    BY <1>2, <2>1
  <2> QED BY <2>2
<1> QED BY <1>1, <1>2

(* Every service of call_syscall keeps the invariant, whatever the world   *)
(* answers.                                                                *)
LEMMA SyscallInv == Inv /\ call_syscall => Inv'
<1> SUFFICES ASSUME Inv, call_syscall PROVE Inv'
  OBVIOUS
<1>1. /\ reg \in [Reg -> Word] /\ memory \in [Word -> Byte]
      /\ reg[A0] \in Word /\ reg[A1] \in Word /\ reg[A2] \in Word
  BY Registers DEF Inv, IntegerOK
<1>2. CASE PrintValue \/ PrintString \/ ReadStringFails
  BY <1>2, OutputType DEF PrintValue, PrintString, ReadStringFails
<1>3. CASE PrintOverrun \/ ReadStringOverrun \/ ReadStringNull
  BY <1>3, CrashType DEF PrintOverrun, ReadStringOverrun, ReadStringNull
<1>4. CASE ReadInt
  <2>1. PICK v \in Ints \cup {0} : Result(v)
    BY <1>4 DEF ReadInt
  <2>2. v \in Word
    BY SyscallAssumption, Widths DEF Word
  <2> QED BY <2>1, <2>2, ResultType
<1>5. CASE ReadChar
  <2>1. PICK b \in Byte : Result(U32(S8(b)))
    BY <1>5 DEF ReadChar
  <2>2. U32(S8(b)) \in Word
    BY SignedTypes, U32Type
  <2> QED BY <2>1, <2>2, ResultType
<1>6. CASE ReadString
  <2>1. PICK s \in Inputs : memory' = Strncpy(memory, reg[A0], s, reg[A1])
    BY <1>6 DEF ReadString
  <2>2. memory' \in [Word -> Byte]
    BY <2>1, <1>1, StrncpyType, SyscallAssumption
  <2>3. PipelineOK'
    BY <1>6, ContinueType DEF ReadString
  <2>4. DataOK'
    BY <1>6, <2>2 DEF ReadString, DataOK, Inv, IntegerOK, ZeroRegister
  <2> QED BY <2>3, <2>4, InvPartsNext
<1>7. CASE Open
  <2>1. PICK v \in Ints \cup {U32(-1)} : Result(v)
    BY <1>7 DEF Open
  <2>2. v \in Word
    BY SyscallAssumption, U32Type
  <2> QED BY <2>1, <2>2, ResultType
<1>8. CASE Read
  <2>1. PICK s \in Inputs :
          /\ Len(s) <= reg[A2]
          /\ memory' = [k \in Word |-> IF reg[A1] <= k /\ k < reg[A1] + Len(s)
                                       THEN s[k - reg[A1] + 1] ELSE memory[k]]
          /\ reg' = [reg EXCEPT ![V0] = Len(s)]
    BY <1>8 DEF Read
  <2>2. s \in Seq(Byte) /\ Len(s) \in Nat
    BY SyscallAssumption
  <2>3. Len(s) \in Word
    BY <2>1, <2>2, <1>1, Widths DEF Word
  <2>4. ASSUME NEW k \in Word, reg[A1] <= k, k < reg[A1] + Len(s)
        PROVE  s[k - reg[A1] + 1] \in Byte
    <3>1. k \in Nat /\ reg[A1] \in Nat
      BY <1>1 DEF Word
    <3>2. k - reg[A1] + 1 \in 1..Len(s)
      BY <3>1, <2>2, <2>4
    <3> QED BY <3>2, <2>2
  <2>5. memory' \in [Word -> Byte]
    BY <2>1, <2>4, <1>1
  <2>6. PipelineOK'
    BY <1>8, ContinueType DEF Read
  <2>7. DataOK'
    BY <1>8, <2>1, <2>3, <2>5, Registers DEF Read, DataOK, Inv, IntegerOK, ZeroRegister
  <2> QED BY <2>6, <2>7, InvPartsNext
<1>9. CASE ReadFails
  BY <1>9, U32Type, ResultType DEF ReadFails
<1>10. CASE WriteFile
  <2>1. PICK v \in 0..reg[A2] \cup {U32(-1)} : Result(v)
    BY <1>10 DEF WriteFile
  <2>2. U32(-1) \in Word
    BY U32Type
  <2>3. 0..reg[A2] \subseteq Word
    BY <1>1, Widths DEF Word
  <2> QED BY <2>1, <2>2, <2>3, ResultType
<1>11. CASE Exit
  <2>1. PipelineOK'
    BY <1>11, HaltType DEF Exit
  <2>2. DataOK'
    BY <1>11 DEF Exit, DataOK, Inv, IntegerOK, ZeroRegister
  <2> QED BY <2>1, <2>2, InvPartsNext
<1> QED
  BY <1>2, <1>3, <1>4, <1>5, <1>6, <1>7, <1>8, <1>9, <1>10, <1>11 DEF call_syscall

(***************************************************************************)
(* The instructions of cpu.c.                                              *)
(***************************************************************************)
LEMMA OpSets ==
  /\ RegisterOps = {"ADDU", "SUBU", "AND", "OR", "XOR", "NOR", "SLT", "SLTU", "SLL",
                    "SRL", "SRA", "SLLV", "SRLV", "SRAV", "MUL", "CLZ", "CLO"}
  /\ ImmediateOps = {"ADDIU", "ANDI", "ORI", "XORI", "SLTI", "SLTIU", "LUI"}
  /\ TrapOps = {"ADD", "SUB", "ADDI"}
  /\ MultiplyOps = {"MULT", "MULTU", "MADD", "MADDU", "MSUB", "MSUBU"}
BY DEF RegisterOps, ImmediateOps, TrapOps, MultiplyOps

(* The arithmetic, logic, shift, move, multiply and divide instructions    *)
(* keep the invariant.                                                     *)
LEMMA ArithmeticInv ==
  ASSUME Inv,
         \/ exec_alu \/ exec_alu_immediate \/ AddNoOverflow \/ AddOverflow
         \/ Multiply \/ DivByZero \/ Divu \/ Div \/ DivOverflow
         \/ MoveFrom \/ MoveTo \/ MoveIf
  PROVE  Inv'
<1> DEFINE i == Instruction
           a == reg[i.rs]
           b == reg[i.rt]
<1>1. /\ i.op \in Ops /\ i.rs \in Reg /\ i.rt \in Reg /\ i.rd \in Reg
      /\ i.shamt \in 0..(WBITS - 1) /\ i.imm \in Half
  BY InstructionType, Fields
<1>2. /\ reg \in [Reg -> Word] /\ hi \in Word /\ lo \in Word
      /\ a \in Word /\ b \in Word /\ reg[i.rd] \in Word
      /\ S32(a) \in Int /\ S32(b) \in Int
  BY <1>1, SignedTypes DEF Inv, IntegerOK
<1>3. 1 \in Word /\ 0 \in Word
  BY Widths DEF Word
<1>4. CASE exec_alu
  <2>1. AluR(i.op, a, b, i.shamt) \in Word
    BY <1>1, <1>2, <1>4, AluRType, OpSets DEF exec_alu
  <2> QED BY <2>1, <1>1, <1>4, WriteType DEF exec_alu
<1>5. CASE exec_alu_immediate
  <2>1. AluI(i.op, a, i.imm) \in Word
    BY <1>1, <1>2, <1>5, AluIType, OpSets DEF exec_alu_immediate
  <2> QED BY <2>1, <1>1, <1>5, WriteType DEF exec_alu_immediate
<1>6. CASE AddNoOverflow
  <2>1. TrapResult(i) \in Int
    BY <1>1, <1>2, <1>6, ExactType, OpSets DEF AddNoOverflow, TrapResult
  <2>2. TrapDest(i) \in Reg /\ U32(TrapResult(i)) \in Word
    BY <1>1, <2>1, U32Type DEF TrapDest
  <2>3. [reg EXCEPT ![K0] = 0, ![TrapDest(i)] = U32(TrapResult(i))] \in [Reg -> Word]
    BY <1>2, <1>3, <2>2
  <2>4. PipelineOK'
    BY <1>6, ContinueType DEF AddNoOverflow
  <2>5. DataOK'
    BY <1>6, <2>3, ClearType DEF AddNoOverflow, DataOK, Inv, IntegerOK
  <2> QED BY <2>4, <2>5, InvPartsNext
<1>7. CASE AddOverflow
  BY <1>3, <1>7, Registers, WriteType DEF AddOverflow
<1>8. CASE Multiply
  <2> DEFINE p == Product(i.op, a, b, hi, lo)
  <2>1. p \in Int /\ p \div WORD \in Int
    BY <1>2, <1>8, ProductType, OpSets DEF Multiply
  <2>2. U32(p) \in Word /\ U32(p \div WORD) \in Word
    BY <2>1, U32Type
  <2> QED BY <2>2, <1>8, SetHiLoType DEF Multiply
<1>9. CASE DivByZero
  BY <1>2, <1>9, SetHiLoType DEF DivByZero
<1>10. CASE Divu
  <2>1. a \in Nat /\ b \in Nat /\ b > 0
    BY <1>2, <1>10 DEF Word, Divu
  <2>2. a \div b \in 0..a /\ a % b \in 0..(b - 1)
    <3> HIDE DEF a, b
    <3>1. a \div b \in 0..a
      BY <2>1, QuotientType
    <3>2. a % b \in 0..(b - 1)
      BY <2>1, ModType
    <3> QED BY <3>1, <3>2
  <2>3. a \div b \in Word /\ a % b \in Word
    BY <2>1, <2>2, <1>2, Widths DEF Word
  <2> QED BY <2>3, <1>10, SetHiLoType DEF Divu
<1>11. CASE Div
  <2>1. Quot(S32(a), S32(b)) \in Int /\ Rem(S32(a), S32(b)) \in Int
    BY <1>2, <1>11, DivisionTypes DEF Div
  <2>2. U32(Quot(S32(a), S32(b))) \in Word /\ U32(Rem(S32(a), S32(b))) \in Word
    BY <2>1, U32Type
  <2> QED BY <2>2, <1>11, SetHiLoType DEF Div
<1>12. CASE DivOverflow
  BY <1>12, CrashType DEF DivOverflow
<1>13. CASE MoveFrom
  BY <1>1, <1>2, <1>13, WriteType DEF MoveFrom
<1>14. CASE MoveTo
  BY <1>2, <1>14, SetHiLoType DEF MoveTo
<1>15. CASE MoveIf
  BY <1>1, <1>2, <1>15, WriteType DEF MoveIf
<1> QED
  BY <1>4, <1>5, <1>6, <1>7, <1>8, <1>9, <1>10, <1>11, <1>12, <1>13, <1>14, <1>15

(* Whether a branch is taken is a Boolean.                                 *)
LEMMA BranchTakenType ==
  ASSUME NEW i, i.op \in BranchOps PROVE BranchTaken(i) \in BOOLEAN
BY DEF BranchTaken

(* Where branches and jumps go, and what they link, are addresses.         *)
LEMMA TargetTypes ==
  ASSUME Inv
  PROVE  branch_dest \in Word /\ jump_target \in Word /\ U32(pc + 8) \in Word
<1>1. /\ pc \in Word /\ pc \in Nat
      /\ Instruction.imm \in Half /\ Instruction.target \in 0..((JREGION \div 4) - 1)
  BY InstructionType, Fields DEF Inv, IntegerOK, Word
<1>2. branch_dest \in Word
  <2>1. S16(Instruction.imm) \in Int
    BY <1>1, SignedTypes
  <2>2. pc + 4 + 4 * S16(Instruction.imm) \in Int
    BY <1>1, <2>1
  <2> QED BY <2>2, U32Type DEF branch_dest
<1>3. U32(pc + 8) \in Word
  BY <1>1, U32Type
<1>4. jump_target \in Word
  <2>1. JREGION \in Nat /\ JREGION > 0 /\ WORD % JREGION = 0 /\ JREGION % 4 = 0
    BY MachineAssumption
  <2>2. /\ Instruction.target \in Nat
        /\ 4 * Instruction.target <= JREGION - 4
    BY <1>1, <2>1
  <2>3. pc \in Nat /\ WORD \in Nat /\ pc < WORD
    BY <1>1, Widths DEF Word
  <2>4. pc - (pc % JREGION) \in Nat /\ (pc - (pc % JREGION)) + JREGION <= WORD
    BY <2>1, <2>3, RegionFits
  <2> QED BY <2>1, <2>2, <2>4, Widths DEF jump_target, Word
<1> QED BY <1>2, <1>3, <1>4

(* Branches and jumps keep the invariant, linking through any register     *)
(* included.                                                               *)
LEMMA ControlInv ==
  ASSUME Inv, Branch \/ JumpRegister \/ JumpAndLinkRegister \/ exec_jump
  PROVE  Inv'
<1> DEFINE i == Instruction
           linked == [reg EXCEPT ![i.rd] = U32(pc + 8)]
<1>1. i.rs \in Reg /\ i.rd \in Reg
  BY InstructionType, Fields
<1>2. /\ reg \in [Reg -> Word] /\ reg[R0] = 0 /\ reg[i.rs] \in Word
      /\ linked \in [Reg -> Word] /\ linked[i.rs] \in Word
      /\ [reg EXCEPT ![RA] = U32(pc + 8)] \in [Reg -> Word]
  BY <1>1, TargetTypes DEF Inv, IntegerOK, ZeroRegister
<1>3. branch_dest \in Word /\ jump_target \in Word
  BY TargetTypes
<1>4. CASE Branch
  <2>1. PipelineOK'
    BY <1>4, <1>3, BranchTakenType, AdvanceType DEF Branch
  <2>2. DataOK'
    BY <1>4, <1>2, ClearType DEF Branch, DataOK, Inv, IntegerOK
  <2> QED BY <2>1, <2>2, InvPartsNext
<1>5. CASE JumpRegister
  <2>1. PipelineOK'
    BY <1>5, <1>2, AdvanceType DEF JumpRegister
  <2>2. DataOK'
    BY <1>5, <1>2, ClearType DEF JumpRegister, DataOK, Inv, IntegerOK
  <2> QED BY <2>1, <2>2, InvPartsNext
<1>6. CASE JumpAndLinkRegister
  <2>1. PipelineOK'
    BY <1>6, <1>2, AdvanceType DEF JumpAndLinkRegister
  <2>2. DataOK'
    BY <1>6, <1>2, ClearType DEF JumpAndLinkRegister, DataOK, Inv, IntegerOK
  <2> QED BY <2>1, <2>2, InvPartsNext
<1>7. CASE exec_jump
  <2>1. PipelineOK'
    BY <1>7, <1>3, AdvanceType DEF exec_jump
  <2>2. reg' \in [Reg -> Word] /\ reg'[R0] = 0
    BY <1>7, <1>2, Registers DEF exec_jump
  <2>3. DataOK'
    BY <1>7, <2>2 DEF exec_jump, DataOK, Inv, IntegerOK
  <2> QED BY <2>1, <2>3, InvPartsNext
<1> QED BY <1>4, <1>5, <1>6, <1>7

(* Loads and stores of all widths, through the device too, keep the        *)
(* invariant.                                                              *)
LEMMA MemoryInv ==
  ASSUME Inv, LoadNarrow \/ LoadWide \/ StoreNarrow \/ StoreWide
  PROVE  Inv'
<1> DEFINE i == Instruction
           a == mem_addr
           al == Aligned(i, a)
           w == LoadWord(memory, last_key, al)
<1>1. i.rs \in Reg /\ i.rt \in Reg /\ i.imm \in Half
  BY InstructionType, Fields
<1>2. /\ reg \in [Reg -> Word] /\ memory \in [Word -> Byte] /\ last_key \in Byte
      /\ reg[i.rs] \in Word /\ reg[i.rt] \in Word /\ reg[R0] = 0
  BY <1>1 DEF Inv, IntegerOK, ZeroRegister
<1>3. a \in Word /\ a \in Nat
  <2>1. reg[i.rs] \in Int /\ S16(i.imm) \in Int
    BY <1>1, <1>2, SignedTypes DEF Word
  <2>2. a \in Word
    BY <2>1, U32Type DEF mem_addr
  <2> QED BY <2>2 DEF Word
<1>4. al \in Word
  <2>1. a % 4 \in 0..3 /\ a % 4 <= a
    BY <1>3
  <2>2. a - (a % 4) \in Word
    BY <2>1, <1>3, Widths DEF Word
  <2> QED BY <2>2, <1>3 DEF Aligned
<1>5. w \in Word /\ 0 \in Byte
  BY <1>2, <1>4, LoadTypes, Widths DEF LoadWord, Byte
<1>6. CASE LoadNarrow
  <2>1. /\ memory[a] \in Byte /\ memory[a] \in Word
        /\ HalfAt(memory, a) \in Half /\ HalfAt(memory, a) \in Word
    BY <1>2, <1>3, LoadTypes, Widths
  <2>2. U32(S8(memory[a])) \in Word /\ U32(S16(HalfAt(memory, a))) \in Word
    BY <2>1, SignedTypes, U32Type
  <2>3. (CASE i.op = "LB"  -> U32(S8(memory[a]))
           [] i.op = "LBU" -> memory[a]
           [] i.op = "LH"  -> U32(S16(HalfAt(memory, a)))
           [] i.op = "LHU" -> HalfAt(memory, a)) \in Word
    BY <2>1, <2>2, <1>6 DEF LoadNarrow, NarrowLoadOps
  <2> QED BY <2>3, <1>1, <1>6, WriteType DEF LoadNarrow
<1>7. CASE LoadWide
  <2>1. LoadedValue(i, a, w) \in Word
    BY <1>2, <1>3, <1>5, <1>7, UnalignedTypes DEF LoadWide, WordLoadOps, LoadedValue
  <2>2. [reg EXCEPT ![i.rt] = LoadedValue(i, a, w)] \in [Reg -> Word]
    BY <2>1, <1>2
  <2>3. PipelineOK'
    BY <1>7, ContinueType DEF LoadWide
  <2>4. last_key' \in Byte
    BY <1>2, <1>5, <1>7 DEF LoadWide, KeyAfterLoad
  <2>5. DataOK'
    BY <1>7, <2>2, <2>4, ClearType DEF LoadWide, DataOK, Inv, IntegerOK
  <2> QED BY <2>3, <2>5, InvPartsNext
<1>8. CASE StoreNarrow
  <2>1. memory' \in [Word -> Byte]
    BY <1>2, <1>8, StoreTypes DEF StoreNarrow
  <2>2. PipelineOK'
    BY <1>8, ContinueType DEF StoreNarrow
  <2>3. DataOK'
    BY <1>2, <1>8, <2>1, ClearType DEF StoreNarrow, DataOK, Inv, IntegerOK
  <2> QED BY <2>2, <2>3, InvPartsNext
<1>9. CASE StoreWide
  <2>1. StoredValue(i, a, w) \in Word
    BY <1>2, <1>3, <1>5, <1>9, UnalignedTypes DEF StoreWide, WordStoreOps, StoredValue
  <2>2. memory' \in [Word -> Byte]
    BY <1>2, <1>9, <2>1, StoreTypes DEF StoreWide, StoreWord
  <2>3. last_key' \in Byte
    BY <1>2, <1>5, <1>9, MachineAssumption DEF StoreWide, KeysAfterStore, KeyAfterLoad
  <2>4. PipelineOK'
    BY <1>9, ContinueType DEF StoreWide
  <2>5. DataOK'
    BY <1>2, <1>9, <2>2, <2>3, ClearType DEF StoreWide, DataOK, Inv, IntegerOK
  <2> QED BY <2>4, <2>5, InvPartsNext
<1> QED BY <1>6, <1>7, <1>8, <1>9

(* break and illegal instructions keep the invariant.                      *)
LEMMA StopInv == ASSUME Inv, Break \/ Illegal PROVE Inv'
<1>1. 1 \in Word
  BY Widths DEF Word
<1>2. CASE Break
  <2>1. PipelineOK'
    BY <1>2, HaltType DEF Break
  <2>2. DataOK'
    BY <1>1, <1>2, Registers DEF Break, DataOK, Inv, IntegerOK, ZeroRegister
  <2> QED BY <2>1, <2>2, InvPartsNext
<1>3. CASE Illegal
  <2>1. PipelineOK'
    BY <1>3, HaltType DEF Illegal
  <2>2. DataOK'
    BY <1>3 DEF Illegal, DataOK, Inv, IntegerOK, ZeroRegister
  <2> QED BY <2>1, <2>2, InvPartsNext
<1> QED BY <1>2, <1>3

(* nop keeps the invariant.                                                *)
LEMMA NopInv == ASSUME Inv, Nop PROVE Inv'
BY OutputType DEF Nop, Output

(***************************************************************************)
(* The coprocessor of fpu.c.                                               *)
(***************************************************************************)
(* A register number n of an instruction and n + 1, where the second half  *)
(* of a pair is, are cells of fpr.                                         *)
LEMMA PairCells ==
  ASSUME NEW n \in Reg
  PROVE  n \in FpReg /\ n + 1 \in FpReg /\ FP_COND \in FpReg
BY DEF Reg, FpReg, FP_COND, NB_REG

(* Moves, comparisons, arithmetic and branches of the coprocessor keep the *)
(* invariant, whatever its arithmetic computes, doubles in register 31     *)
(* included.                                                               *)
LEMMA CoprocessorInv ==
  ASSUME Inv, FpuOK, exec_cop1
  PROVE  Inv' /\ FpuOK'
<1> DEFINE i == Instruction
<1>1. i.rs \in Reg /\ i.rt \in Reg /\ i.rd \in Reg /\ i.fd \in Reg
  BY InstructionType, Fields
<1>2. /\ reg[i.rt] \in Word /\ fpr \in [FpReg -> Word]
      /\ i.rd \in FpReg /\ i.fd \in FpReg /\ i.fd + 1 \in FpReg /\ FP_COND \in FpReg
  BY <1>1, PairCells DEF Inv, IntegerOK, FpuOK
<1>3. CASE MoveFromFpu
  <2>1. fpr[i.rd] \in Word
    BY <1>2
  <2>2. Inv'
    BY <1>1, <1>3, <2>1, WriteType DEF MoveFromFpu
  <2> QED BY <1>3, <2>2 DEF MoveFromFpu, FpuOK
<1>4. CASE MoveToFpu
  BY <1>2, <1>4, OutputType DEF MoveToFpu, setf, FpuOK
<1>5. CASE BranchFpu
  <2>1. PipelineOK'
    BY <1>5, TargetTypes, AdvanceType DEF BranchFpu
  <2>2. DataOK'
    BY <1>5 DEF BranchFpu, DataOK, Inv, IntegerOK, ZeroRegister
  <2> QED BY <1>5, <2>1, <2>2, InvPartsNext DEF BranchFpu, FpuOK
<1>6. CASE Compare
  <2>1. 0 \in Word /\ 1 \in Word
    BY Widths DEF Word
  <2> QED BY <1>2, <1>6, <2>1, OutputType DEF Compare, setf, Flag, FpuOK
<1>7. CASE ComputeSingle
  BY <1>2, <1>7, OutputType DEF ComputeSingle, setf, Single, FpuOK
<1>8. CASE ComputeDouble
  <2> DEFINE v == Computed(i)
  <2>1. v \in Int /\ v \div WORD \in Int
    BY <1>8, Widths DEF ComputeDouble, Double
  <2>2. U32(v) \in Word /\ U32(v \div WORD) \in Word
    BY <2>1, U32Type
  <2>3. fpr' = [fpr EXCEPT ![i.fd] = U32(v), ![i.fd + 1] = U32(v \div WORD)] /\ Output
    BY <1>8 DEF ComputeDouble, setd
  <2>4. fpr' \in [FpReg -> Word]
    BY <1>2, <2>2, <2>3
  <2> QED BY <2>3, <2>4, OutputType DEF FpuOK
<1>9. CASE NoSuchOperation
  <2>1. PipelineOK'
    BY <1>9, HaltType DEF NoSuchOperation
  <2>2. DataOK'
    BY <1>9 DEF NoSuchOperation, DataOK, Inv, IntegerOK, ZeroRegister
  <2> QED BY <1>9, <2>1, <2>2, InvPartsNext DEF NoSuchOperation, FpuOK
<1> QED BY <1>3, <1>4, <1>5, <1>6, <1>7, <1>8, <1>9 DEF exec_cop1

(* So do its loads and stores.                                             *)
LEMMA CoprocessorMemoryInv ==
  ASSUME Inv, FpuOK, exec_cop1_ldst
  PROVE  Inv' /\ FpuOK'
<1> DEFINE i == Instruction
           a == mem_addr
           b == U32(a + 4)
           key == KeyAfterLoad(last_key, a)
<1>1. i.rs \in Reg /\ i.rt \in Reg /\ i.imm \in Half
  BY InstructionType, Fields
<1>2. /\ reg \in [Reg -> Word] /\ memory \in [Word -> Byte] /\ last_key \in Byte
      /\ reg[i.rs] \in Word /\ reg[R0] = 0 /\ fpr \in [FpReg -> Word]
      /\ i.rt \in FpReg /\ i.rt + 1 \in FpReg
  BY <1>1, PairCells DEF Inv, IntegerOK, ZeroRegister, FpuOK
<1>3. a \in Word /\ b \in Word
  <2>1. reg[i.rs] \in Int /\ S16(i.imm) \in Int
    BY <1>1, <1>2, SignedTypes DEF Word
  <2>2. a \in Word
    BY <2>1, U32Type DEF mem_addr
  <2>3. a + 4 \in Int
    BY <2>2 DEF Word
  <2> QED BY <2>2, <2>3, U32Type
<1>4. key \in Byte /\ KeyAfterLoad(key, b) \in Byte
  BY <1>2, Widths DEF KeyAfterLoad, Byte
<1>5. CASE LoadFpu
  <2>1. LoadWord(memory, last_key, a) \in Word /\ LoadWord(memory, key, b) \in Word
    BY <1>2, <1>3, <1>4, LoadTypes, Widths DEF LoadWord
  <2>2. fpr' \in [FpReg -> Word] /\ last_key' \in Byte
    BY <1>2, <1>4, <1>5, <2>1 DEF LoadFpu, setf
  <2>3. PipelineOK'
    BY <1>5, ContinueType DEF LoadFpu
  <2>4. DataOK'
    BY <1>2, <1>5, <2>2 DEF LoadFpu, DataOK, Inv, IntegerOK
  <2> QED BY <2>2, <2>3, <2>4, InvPartsNext DEF FpuOK
<1>6. CASE StoreFpu
  <2> DEFINE m == StoreWord(memory, a, fpr[i.rt])
  <2>1. m \in [Word -> Byte] /\ StoreWord(m, b, fpr[i.rt + 1]) \in [Word -> Byte]
    BY <1>2, <1>3, StoreTypes DEF StoreWord
  <2>2. memory' \in [Word -> Byte]
    BY <1>6, <2>1 DEF StoreFpu
  <2>3. last_key' \in Byte
    BY <1>2, <1>6, MachineAssumption DEF StoreFpu, KeysAfterStore
  <2>4. PipelineOK'
    BY <1>6, ContinueType DEF StoreFpu
  <2>5. DataOK'
    BY <1>2, <1>6, <2>2, <2>3 DEF StoreFpu, DataOK, Inv, IntegerOK
  <2> QED BY <1>6, <2>4, <2>5, InvPartsNext DEF StoreFpu, FpuOK
<1> QED BY <1>5, <1>6 DEF exec_cop1_ldst

(* Every instruction keeps the invariant.                                  *)
LEMMA StepInv == Inv /\ FpuOK /\ exec_inst => Inv' /\ FpuOK'
<1> SUFFICES ASSUME Inv, FpuOK, exec_inst PROVE Inv' /\ FpuOK'
  OBVIOUS
<1>1. CASE exec_integer /\ UNCHANGED fpr
  <2>1. Inv'
    BY <1>1, NopInv, SyscallInv, StopInv, ArithmeticInv, ControlInv, MemoryInv DEF exec_integer
  <2> QED BY <1>1, <2>1 DEF FpuOK
<1>2. CASE exec_cop1
  BY <1>2, CoprocessorInv
<1>3. CASE exec_cop1_ldst
  BY <1>3, CoprocessorMemoryInv
<1> QED BY <1>1, <1>2, <1>3 DEF exec_inst

(* The invariant is inductive.                                             *)
LEMMA NextInv == Inv /\ FpuOK /\ [Next]_vars => Inv' /\ FpuOK'
<1> SUFFICES ASSUME Inv, FpuOK, [Next]_vars PROVE Inv' /\ FpuOK'
  OBVIOUS
<1>1. CASE step_instruction
  BY <1>1, StepInv DEF step_instruction
<1>2. CASE UNCHANGED vars
  BY <1>2 DEF vars, Inv, IntegerOK, ZeroRegister, FpuOK
<1> QED BY <1>1, <1>2 DEF Next, Stopped

(* So it holds in every state of every behaviour.                          *)
LEMMA InvHolds == Spec => [](Inv /\ FpuOK)
BY InitInv, InitFpu, NextInv, PTL DEF Spec

(***************************************************************************)
(* Every value stays within its C type, whatever the program, the inputs   *)
(* and the widths: no instruction computes a register, address or byte     *)
(* that the conversions of the code do not bring back into range.          *)
(***************************************************************************)
THEOREM TypeCorrect == Spec => []TypeOK
<1>1. Inv /\ FpuOK => TypeOK
  BY DEF Inv, IntegerOK, FpuOK, TypeOK
<1> QED BY <1>1, InvHolds, PTL

(* Register $0 is 0 before every instruction of every program.             *)
THEOREM ZeroRegisterHolds == Spec => []ZeroRegister
<1>1. Inv => ZeroRegister
  BY DEF Inv
<1> QED BY <1>1, InvHolds, PTL

(***************************************************************************)
(* The pipeline implements DelaySlot.  Every instruction ends in Advance   *)
(* or in Halt; those that schedule a branch are branches and jumps, those  *)
(* that halt are not and leave the memory, so that pc still names them.    *)
(***************************************************************************)
LEMMA AdvanceMaps ==
  ASSUME Inv, status = "run", NEW taken \in BOOLEAN, NEW target,
         taken => control /\ target \in Word, Advance(taken, target)
  PROVE  Pipeline!Sequential \/ Pipeline!Transfer
<1>1. pc' = npc /\ status' = "run" /\ control' \in BOOLEAN
  BY DEF Advance, npc, control
<1>2. CASE taken
  <2>1. npc' = target
    BY <1>2 DEF Advance, npc
  <2> QED BY <1>1, <1>2, <2>1 DEF Pipeline!Transfer
<1>3. CASE ~ taken
  <2>1. npc' = After(pc')
    BY <1>3 DEF Advance, npc, After
  <2> QED BY <1>1, <2>1 DEF Pipeline!Sequential
<1> QED BY <1>2, <1>3

(* Stopping at an instruction that is no branch or jump is a Stop of       *)
(* DelaySlot.                                                              *)
LEMMA HaltMaps ==
  ASSUME Inv, status = "run", NEW s \in {"stop", "error", "crash"}, Halt(s),
         ~ control, memory' = memory
  PROVE  Pipeline!Stop
<1>1. pc' = pc /\ ~ branch_pending' /\ status' # "run"
  BY DEF Halt
<1>2. npc' = After(pc)
  BY <1>1 DEF npc, After
<1>3. control' = control
  BY <1>1 DEF control, Instruction
<1> QED BY <1>1, <1>2, <1>3 DEF Pipeline!Stop

(* The two ends of an instruction, per action.                             *)
LEMMA SyscallEnds ==
  ASSUME call_syscall
  PROVE  /\ ~ control
         /\ Continue \/ ((Halt("stop") \/ Halt("crash")) /\ memory' = memory)
<1>1. ~ control
  BY DEF call_syscall, control, BranchOps, JumpOps
<1>2. CASE PrintValue \/ PrintString \/ ReadStringFails
  BY <1>1, <1>2 DEF PrintValue, PrintString, ReadStringFails, Output
<1>3. CASE PrintOverrun \/ ReadStringOverrun \/ ReadStringNull \/ Exit
  BY <1>1, <1>3 DEF PrintOverrun, ReadStringOverrun, ReadStringNull, Exit, Crash
<1>4. CASE ReadInt \/ ReadChar \/ Open \/ ReadFails \/ WriteFile
  BY <1>1, <1>4 DEF ReadInt, ReadChar, Open, ReadFails, WriteFile, Result
<1>5. CASE ReadString \/ Read
  BY <1>1, <1>5 DEF ReadString, Read
<1> QED BY <1>2, <1>3, <1>4, <1>5 DEF call_syscall

(* An instruction that neither transfers control nor stops falls through.  *)
LEMMA StraightEnds ==
  ASSUME \/ Nop \/ exec_alu \/ exec_alu_immediate \/ AddNoOverflow \/ AddOverflow
         \/ Multiply \/ DivByZero \/ Divu \/ Div \/ MoveFrom \/ MoveTo \/ MoveIf
         \/ LoadNarrow \/ LoadWide \/ StoreNarrow \/ StoreWide
  PROVE  Continue
BY DEF Nop, exec_alu, exec_alu_immediate, AddNoOverflow, AddOverflow, Multiply, DivByZero,
       Divu, Div, MoveFrom, MoveTo, MoveIf, LoadNarrow, LoadWide, StoreNarrow, StoreWide,
       Write, SetHiLo

(* Every instruction is a step of DelaySlot.                               *)
LEMMA StepMaps ==
  ASSUME Inv, step_instruction
  PROVE  Pipeline!Next
<1>1. status = "run" /\ exec_inst
  BY DEF step_instruction
<1>2. ASSUME Continue PROVE Pipeline!Next
  BY <1>1, <1>2, AdvanceMaps DEF Continue, Pipeline!Next
<1>3. CASE call_syscall
  BY <1>1, <1>2, <1>3, SyscallEnds, HaltMaps DEF Pipeline!Next
<1>4. CASE Break \/ Illegal \/ DivOverflow
  <2>1. ~ control /\ memory' = memory
    BY <1>4 DEF Break, Illegal, DivOverflow, Crash, control, BranchOps, JumpOps
  <2>2. Halt("stop") \/ Halt("error") \/ Halt("crash")
    BY <1>4 DEF Break, Illegal, DivOverflow, Crash
  <2> QED BY <1>1, <2>1, <2>2, HaltMaps DEF Pipeline!Next
<1>5. CASE Branch
  <2>1. control /\ Instruction.op \in BranchOps
    BY <1>5 DEF Branch, control
  <2>2. BranchTaken(Instruction) \in BOOLEAN /\ branch_dest \in Word
    BY <2>1, BranchTakenType, TargetTypes
  <2> QED BY <1>1, <1>5, <2>1, <2>2, AdvanceMaps DEF Branch, Pipeline!Next
<1>6. CASE JumpRegister
  <2>1. control /\ reg[Instruction.rs] \in Word
    BY <1>6, InstructionType, Fields DEF JumpRegister, control, JumpOps, Inv, IntegerOK
  <2> QED BY <1>1, <1>6, <2>1, AdvanceMaps DEF JumpRegister, Pipeline!Next
<1>7. CASE JumpAndLinkRegister
  <2> DEFINE linked == [reg EXCEPT ![Instruction.rd] = U32(pc + 8)]
  <2>1. control /\ linked[Instruction.rs] \in Word
    BY <1>7, InstructionType, Fields, TargetTypes
       DEF JumpAndLinkRegister, control, JumpOps, Inv, IntegerOK
  <2>2. Advance(TRUE, linked[Instruction.rs])
    BY <1>7 DEF JumpAndLinkRegister
  <2> QED BY <1>1, <2>1, <2>2, AdvanceMaps DEF Pipeline!Next
<1>8. CASE exec_jump
  <2>1. control /\ jump_target \in Word
    BY <1>8, TargetTypes DEF exec_jump, control, JumpOps
  <2> QED BY <1>1, <1>8, <2>1, AdvanceMaps DEF exec_jump, Pipeline!Next
<1>9. CASE BranchFpu
  <2>1. control /\ branch_dest \in Word
    BY <1>9, TargetTypes DEF BranchFpu, control
  <2> QED BY <1>1, <1>9, <2>1, AdvanceMaps DEF BranchFpu, Pipeline!Next
<1>10. CASE NoSuchOperation
  <2>1. ~ control /\ memory' = memory /\ Halt("error")
    BY <1>10 DEF NoSuchOperation, control, BranchOps, JumpOps, FpArithmeticOps,
                 FpCompareOps, ConvertOps
  <2> QED BY <1>1, <2>1, HaltMaps DEF Pipeline!Next
<1>11. CASE \/ MoveFromFpu \/ MoveToFpu \/ Compare \/ ComputeSingle \/ ComputeDouble
            \/ LoadFpu \/ StoreFpu
  BY <1>2, <1>11 DEF MoveFromFpu, MoveToFpu, Compare, ComputeSingle, ComputeDouble,
                     LoadFpu, StoreFpu, Write, Output
<1>12. ASSUME exec_integer PROVE Pipeline!Next
  BY <1>12, <1>2, <1>3, <1>4, <1>5, <1>6, <1>7, <1>8, StraightEnds DEF exec_integer
<1> QED BY <1>1, <1>9, <1>10, <1>11, <1>12 DEF exec_inst, exec_cop1, exec_cop1_ldst

(***************************************************************************)
(* Every behaviour of the interpreter is one of the architecture's delayed *)
(* branches: after a taken branch exactly one more instruction runs before *)
(* the target, branches in delay slots included, only branches and jumps   *)
(* transfer control, and stops are precise.                                *)
(***************************************************************************)
THEOREM PipelineRefinement == Spec => DelaySlotSpec
<1>1. Init => Pipeline!Init
  BY DEF Init, Pipeline!Init, npc, After, control
<1>2. Inv /\ [Next]_vars => [Pipeline!Next]_Pipeline!vars
  <2> SUFFICES ASSUME Inv, [Next]_vars PROVE [Pipeline!Next]_Pipeline!vars
    OBVIOUS
  <2>1. CASE step_instruction
    BY <2>1, StepMaps
  <2>2. CASE UNCHANGED vars
    BY <2>2 DEF vars, Pipeline!vars, npc, control, Instruction
  <2> QED BY <2>1, <2>2 DEF Next, Stopped
<1> QED BY <1>1, <1>2, InvHolds, PTL DEF Spec, DelaySlotSpec, Pipeline!Spec

(***************************************************************************)
(* What a system call does to the program's data.                          *)
(***************************************************************************)
(* Only call_syscall executes a syscall instruction: the dispatch of       *)
(* exec_inst tells the instructions apart.                                 *)
LEMMA ServiceStep ==
  ASSUME Serving, [Next]_vars
  PROVE  call_syscall \/ UNCHANGED vars
<1>1. Instruction.op = "SYSCALL"
  BY DEF Serving
<1>2. ~ exec_cop1 /\ ~ exec_cop1_ldst
  BY <1>1 DEF exec_cop1, exec_cop1_ldst, MoveFromFpu, MoveToFpu, BranchFpu, Compare,
              ComputeSingle, ComputeDouble, NoSuchOperation, LoadFpu, StoreFpu,
              FpArithmeticOps, FpCompareOps, ConvertOps
<1>3. /\ ~ Nop /\ ~ Break /\ ~ Illegal /\ ~ exec_alu /\ ~ exec_alu_immediate
      /\ ~ AddNoOverflow /\ ~ AddOverflow
  BY <1>1 DEF Nop, Break, Illegal, exec_alu, exec_alu_immediate, AddNoOverflow, AddOverflow,
              RegisterOps, ImmediateOps, TrapOps
<1>4. /\ ~ Multiply /\ ~ DivByZero /\ ~ Divu /\ ~ Div /\ ~ DivOverflow
      /\ ~ MoveFrom /\ ~ MoveTo /\ ~ MoveIf
  BY <1>1 DEF Multiply, DivByZero, Divu, Div, DivOverflow, MoveFrom, MoveTo, MoveIf,
              MultiplyOps
<1>5. /\ ~ Branch /\ ~ JumpRegister /\ ~ JumpAndLinkRegister /\ ~ exec_jump
      /\ ~ LoadNarrow /\ ~ LoadWide /\ ~ StoreNarrow /\ ~ StoreWide
  BY <1>1 DEF Branch, JumpRegister, JumpAndLinkRegister, exec_jump, LoadNarrow, LoadWide,
              StoreNarrow, StoreWide, BranchOps, NarrowLoadOps, WordLoadOps,
              NarrowStoreOps, WordStoreOps
<1> QED
  BY <1>2, <1>3, <1>4, <1>5 DEF Next, Stopped, step_instruction, exec_inst, exec_integer

(* The services but read_string and read leave the memory, all but those   *)
(* with a result leave the registers.                                      *)
LEMMA ServiceEffects ==
  ASSUME call_syscall
  PROVE  \/ memory' = memory /\ (reg' = reg \/ \E v : reg' = [reg EXCEPT ![V0] = v])
         \/ reg' = reg /\ ReadString
         \/ Read
<1>1. CASE PrintValue \/ PrintString \/ ReadStringFails
  BY <1>1 DEF PrintValue, PrintString, ReadStringFails, Output
<1>2. CASE PrintOverrun \/ ReadStringOverrun \/ ReadStringNull \/ Exit
  BY <1>2 DEF PrintOverrun, ReadStringOverrun, ReadStringNull, Exit, Crash
<1>3. ASSUME NEW v, Result(v)
      PROVE  memory' = memory /\ \E w : reg' = [reg EXCEPT ![V0] = w]
  BY <1>3 DEF Result
<1>4. CASE ReadInt \/ ReadChar \/ Open \/ ReadFails \/ WriteFile
  BY <1>3, <1>4 DEF ReadInt, ReadChar, Open, ReadFails, WriteFile
<1>5. CASE ReadString
  BY <1>5 DEF ReadString
<1> QED BY <1>1, <1>2, <1>4, <1>5 DEF call_syscall

(* strncpy writes inside its n bytes, and after a zero byte only zeros.    *)
LEMMA StrncpyEffect ==
  ASSUME NEW m \in [Word -> Byte], NEW a \in Word, NEW s \in Seq(Byte), NEW n \in Word
  PROVE  /\ \A k \in Word : Strncpy(m, a, s, n)[k] # m[k] => k \in a..(a + n - 1)
         /\ \A j, k \in a..(a + n - 1) :
              j < k /\ k < WORD /\ Strncpy(m, a, s, n)[j] = 0 => Strncpy(m, a, s, n)[k] = 0
<1> DEFINE Copied(k) == k - a < Len(s) /\ \A i \in 1..(k - a + 1) : s[i] # 0
<1>1. a \in Nat /\ n \in Nat /\ WORD \in Nat /\ Len(s) \in Nat
  BY Widths DEF Word
<1>2. ASSUME NEW k \in Word PROVE Strncpy(m, a, s, n)[k] # m[k] => k \in a..(a + n - 1)
  <2>1. k \in Nat
    BY DEF Word
  <2> QED BY <1>1, <2>1 DEF Strncpy
<1>3. ASSUME NEW k \in a..(a + n - 1), k < WORD
      PROVE  Strncpy(m, a, s, n)[k] = IF Copied(k) THEN s[k - a + 1] ELSE 0
  <2>1. k \in Word /\ a <= k /\ k < a + n
    BY <1>1, <1>3 DEF Word
  <2> QED BY <2>1 DEF Strncpy
<1>4. ASSUME NEW j \in a..(a + n - 1), NEW k \in a..(a + n - 1), j < k, k < WORD,
             Copied(k)
      PROVE  Copied(j) /\ s[j - a + 1] # 0
  <2>1. j - a < Len(s) /\ 1..(j - a + 1) \subseteq 1..(k - a + 1)
    BY <1>1, <1>4
  <2>2. j - a + 1 \in 1..(j - a + 1)
    BY <1>1
  <2> QED BY <1>4, <2>1, <2>2
<1> HIDE DEF Copied
<1>5. ASSUME NEW j \in a..(a + n - 1), NEW k \in a..(a + n - 1), j < k, k < WORD,
             Strncpy(m, a, s, n)[j] = 0
      PROVE  Strncpy(m, a, s, n)[k] = 0
  <2>1. j < WORD
    BY <1>1, <1>5
  <2>2. ~ Copied(k)
    BY <2>1, <1>3, <1>4, <1>5
  <2> QED BY <2>2, <1>3, <1>5
<1> QED BY <1>2, <1>5

(***************************************************************************)
(* A service writes no register but $v0 and no memory but the buffer of    *)
(* its arguments, whatever the world answers; in particular nothing is     *)
(* written after a buffer that ends with the memory.                       *)
(***************************************************************************)
THEOREM ServicesKeepToTheirBuffer == Spec => ServiceFootprint
<1> DEFINE Kept ==
      Serving =>
        /\ \A r \in Reg \ {V0} : reg'[r] = reg[r]
        /\ \A a \in Word : memory'[a] # memory[a] =>
             \/ reg[V0] = 8 /\ a \in reg[A0]..(reg[A0] + reg[A1] - 1)
             \/ reg[V0] = 14 /\ a \in reg[A1]..(reg[A1] + reg[A2] - 1)
<1>1. Inv /\ [Next]_vars => [Kept]_vars
  <2> SUFFICES ASSUME Inv, [Next]_vars, Serving, vars' # vars PROVE Kept
    OBVIOUS
  <2>1. call_syscall
    BY ServiceStep
  <2>2. /\ reg \in [Reg -> Word] /\ memory \in [Word -> Byte] /\ V0 \in Reg
        /\ reg[A0] \in Word /\ reg[A1] \in Word /\ reg[A2] \in Word
    BY Registers DEF Inv, IntegerOK
  <2>3. CASE memory' = memory /\ (reg' = reg \/ \E v : reg' = [reg EXCEPT ![V0] = v])
    BY <2>2, <2>3
  <2>4. CASE reg' = reg /\ ReadString
    <3>1. PICK s \in Inputs : memory' = Strncpy(memory, reg[A0], s, reg[A1])
      BY <2>4 DEF ReadString
    <3>2. \A a \in Word : memory'[a] # memory[a] => a \in reg[A0]..(reg[A0] + reg[A1] - 1)
      BY <3>1, <2>2, StrncpyEffect, SyscallAssumption
    <3> QED BY <3>2, <2>4 DEF ReadString
  <2>5. CASE Read
    <3>1. PICK s \in Inputs :
            /\ Len(s) <= reg[A2]
            /\ memory' = [k \in Word |-> IF reg[A1] <= k /\ k < reg[A1] + Len(s)
                                         THEN s[k - reg[A1] + 1] ELSE memory[k]]
            /\ reg' = [reg EXCEPT ![V0] = Len(s)]
      BY <2>5 DEF Read
    <3>2. \A r \in Reg \ {V0} : reg'[r] = reg[r]
      BY <3>1, <2>2
    <3>3. ASSUME NEW a \in Word, memory'[a] # memory[a]
          PROVE  a \in reg[A1]..(reg[A1] + reg[A2] - 1)
      <4>1. Len(s) \in Nat /\ reg[A1] \in Nat /\ reg[A2] \in Nat /\ a \in Nat
        BY <2>2, SyscallAssumption DEF Word
      <4>2. reg[A1] <= a /\ a < reg[A1] + Len(s)
        BY <3>1, <3>3
      <4> QED BY <3>1, <4>1, <4>2
    <3> QED BY <3>2, <3>3, <2>5 DEF Read
  <2> QED BY <2>1, <2>3, <2>4, <2>5, ServiceEffects
<1> QED BY <1>1, InvHolds, PTL DEF Spec, ServiceFootprint

(***************************************************************************)
(* The string that read_string stores is the rest of its buffer: after its *)
(* terminator there is nothing of what was there before.                   *)
(***************************************************************************)
THEOREM StringsHideTheOld == Spec => NoStaleTail
<1> DEFINE Hidden ==
      Serving /\ reg[V0] = 8 /\ memory' # memory =>
        \A j, k \in reg[A0]..(reg[A0] + reg[A1] - 1) :
          j < k /\ k < WORD /\ memory'[j] = 0 => memory'[k] = 0
<1>1. Inv /\ [Next]_vars => [Hidden]_vars
  <2> SUFFICES ASSUME Inv, [Next]_vars, Serving, reg[V0] = 8, memory' # memory PROVE Hidden
    OBVIOUS
  <2>1. call_syscall
    BY ServiceStep DEF vars
  <2>2. ReadString
    BY <2>1, ServiceEffects DEF Read
  <2>3. PICK s \in Inputs : memory' = Strncpy(memory, reg[A0], s, reg[A1])
    BY <2>2 DEF ReadString
  <2>4. memory \in [Word -> Byte] /\ reg[A0] \in Word /\ reg[A1] \in Word /\ s \in Seq(Byte)
    BY Registers, SyscallAssumption DEF Inv, IntegerOK
  <2> QED BY <2>3, <2>4, StrncpyEffect
<1> QED BY <1>1, InvHolds, PTL DEF Spec, NoStaleTail

(***************************************************************************)
(* The number that read leaves in $v0 bounds what it stored, and -1 means  *)
(* nothing.                                                                *)
(***************************************************************************)
THEOREM ReadTellsItsLength == Spec => ReadReportsLength
<1> DEFINE Told ==
      Serving /\ reg[V0] = 14 =>
        \A a \in Word : memory'[a] # memory[a] =>
          reg'[V0] # U32(-1) /\ a < reg[A1] + reg'[V0]
<1>1. Inv /\ [Next]_vars => [Told]_vars
  <2> SUFFICES ASSUME Inv, [Next]_vars, Serving, reg[V0] = 14,
                      NEW a \in Word, memory'[a] # memory[a]
               PROVE  reg'[V0] # U32(-1) /\ a < reg[A1] + reg'[V0]
    OBVIOUS
  <2>1. call_syscall
    BY ServiceStep DEF vars
  <2>2. Read
    BY <2>1, ServiceEffects DEF ReadString
  <2>3. PICK s \in Inputs :
          /\ memory' = [k \in Word |-> IF reg[A1] <= k /\ k < reg[A1] + Len(s)
                                       THEN s[k - reg[A1] + 1] ELSE memory[k]]
          /\ reg' = [reg EXCEPT ![V0] = Len(s)]
    BY <2>2 DEF Read
  <2>4. a < reg[A1] + Len(s)
    BY <2>3
  <2>5. reg \in [Reg -> Word] /\ V0 \in Reg
    BY Registers DEF Inv, IntegerOK
  <2>6. reg'[V0] = Len(s)
    BY <2>3, <2>5
  <2>7. Len(s) \in Nat /\ Len(s) < WORD \div 2
    BY SyscallAssumption
  <2>8. U32(-1) = WORD - 1 /\ WORD \div 2 <= WORD - 1
    BY Widths DEF U32
  <2> QED BY <2>4, <2>6, <2>7, <2>8, Widths
<1> QED BY <1>1, InvHolds, PTL DEF Spec, ReadReportsLength

-----------------------------------------------------------------------------
(* The instructions that Instructions specifies, and the actions that      *)
(* execute others.                                                         *)
Specified == RegisterOps \cup TrapOps \cup MultiplyOps \cup {"DIV", "DIVU"}
               \cup NarrowLoadOps \cup WordLoadOps \cup NarrowStoreOps \cup WordStoreOps

(* No other action executes them: the coprocessor ...                      *)
LEMMA CoprocessorElsewhere ==
  ASSUME Instruction.op \in Specified PROVE ~ exec_cop1 /\ ~ exec_cop1_ldst
BY DEF Specified, RegisterOps, TrapOps, MultiplyOps, NarrowLoadOps, WordLoadOps,
       NarrowStoreOps, WordStoreOps, exec_cop1, exec_cop1_ldst, MoveFromFpu, MoveToFpu,
       BranchFpu, Compare, ComputeSingle, ComputeDouble, NoSuchOperation, LoadFpu, StoreFpu,
       FpArithmeticOps, FpCompareOps, ConvertOps

(* ... and the instructions for moves, control and services.               *)
LEMMA OthersElsewhere ==
  ASSUME Instruction.op \in Specified
  PROVE  /\ ~ Nop /\ ~ call_syscall /\ ~ Break /\ ~ Illegal /\ ~ exec_alu_immediate
         /\ ~ MoveFrom /\ ~ MoveTo /\ ~ MoveIf
         /\ ~ Branch /\ ~ JumpRegister /\ ~ JumpAndLinkRegister /\ ~ exec_jump
<1>1. Instruction.op \notin ImmediateOps \cup BranchOps \cup JumpOps \cup
        {"NOP", "SYSCALL", "BREAK", "ILLEGAL", "MFHI", "MFLO", "MTHI", "MTLO", "MOVZ", "MOVN"}
  BY DEF Specified, RegisterOps, TrapOps, MultiplyOps, NarrowLoadOps, WordLoadOps,
         NarrowStoreOps, WordStoreOps, ImmediateOps, BranchOps, JumpOps
<1> QED
  BY <1>1 DEF Nop, call_syscall, Break, Illegal, exec_alu_immediate, MoveFrom, MoveTo, MoveIf,
              Branch, JumpRegister, JumpAndLinkRegister, exec_jump, JumpOps

(* The action that executes an instruction is the one of its kind.         *)
LEMMA Dispatch ==
  ASSUME status = "run", Instruction.op \in Specified, [Next]_vars, vars' # vars
  PROVE  /\ Instruction.op \in RegisterOps => exec_alu
         /\ Instruction.op \in TrapOps => AddNoOverflow \/ AddOverflow
         /\ Instruction.op \in MultiplyOps => Multiply
         /\ Instruction.op = "DIVU" => DivByZero \/ Divu
         /\ Instruction.op = "DIV" => DivByZero \/ Div \/ DivOverflow
         /\ Instruction.op \in NarrowLoadOps => LoadNarrow
         /\ Instruction.op \in WordLoadOps => LoadWide
         /\ Instruction.op \in NarrowStoreOps => StoreNarrow
         /\ Instruction.op \in WordStoreOps => StoreWide
<1>1. exec_integer
  BY CoprocessorElsewhere DEF Next, Stopped, step_instruction, exec_inst
<1>2. \/ exec_alu \/ AddNoOverflow \/ AddOverflow
      \/ Multiply \/ DivByZero \/ Divu \/ Div \/ DivOverflow
      \/ LoadNarrow \/ LoadWide \/ StoreNarrow \/ StoreWide
  BY <1>1, OthersElsewhere DEF exec_integer
<1>3. /\ exec_alu => Instruction.op \in RegisterOps
      /\ AddNoOverflow \/ AddOverflow => Instruction.op \in TrapOps
      /\ Multiply => Instruction.op \in MultiplyOps
      /\ DivByZero => Instruction.op \in {"DIV", "DIVU"}
      /\ Divu => Instruction.op = "DIVU"
      /\ Div \/ DivOverflow => Instruction.op = "DIV"
  BY DEF exec_alu, AddNoOverflow, AddOverflow, Multiply, DivByZero, Divu, Div, DivOverflow
<1>4. /\ LoadNarrow => Instruction.op \in NarrowLoadOps
      /\ LoadWide => Instruction.op \in WordLoadOps
      /\ StoreNarrow => Instruction.op \in NarrowStoreOps
      /\ StoreWide => Instruction.op \in WordStoreOps
  BY DEF LoadNarrow, LoadWide, StoreNarrow, StoreWide
<1> QED
  BY <1>2, <1>3, <1>4 DEF RegisterOps, TrapOps, MultiplyOps, NarrowLoadOps, WordLoadOps,
                          NarrowStoreOps, WordStoreOps

(* The operands are words.                                                 *)
LEMMA OperandTypes ==
  ASSUME Inv
  PROVE  /\ reg \in [Reg -> Word] /\ Rs \in Word /\ Rt \in Word /\ hi \in Word /\ lo \in Word
         /\ memory \in [Word -> Byte]
         /\ Instruction.rs \in Reg /\ Instruction.rt \in Reg /\ Instruction.rd \in Reg
         /\ Instruction.shamt \in 0..(WBITS - 1) /\ Instruction.imm \in Half
<1>1. /\ Instruction.rs \in Reg /\ Instruction.rt \in Reg /\ Instruction.rd \in Reg
      /\ Instruction.shamt \in 0..(WBITS - 1) /\ Instruction.imm \in Half
  BY InstructionType, Fields
<1>2. /\ reg \in [Reg -> Word] /\ hi \in Word /\ lo \in Word /\ memory \in [Word -> Byte]
  BY DEF Inv, IntegerOK
<1> QED BY <1>1, <1>2 DEF Rs, Rt

(* A written register has the value, unless it is $0.                      *)
LEMMA WrittenValue ==
  ASSUME Inv, NEW r \in Reg, NEW v, Write(r, v), r # R0 PROVE reg'[r] = v
BY Registers DEF Write, ClearR0, Inv, IntegerOK

(***************************************************************************)
(* Division: quotient and remainder rebuild the dividend.                  *)
(***************************************************************************)
THEOREM DivisionIsExact == Spec => DivisionRebuilds
<1> DEFINE Unsigned == Executes({"DIVU"}) /\ Rt # 0 => Rs = lo' * Rt + hi' /\ hi' < Rt
           Signed ==
             Executes({"DIV"}) /\ Rt # 0 =>
               LET a == S32(Rs)
                   b == S32(Rt)
                   q == S32(lo')
                   r == S32(hi')
               IN IF a = -(WORD \div 2) /\ b = -1
                  THEN status' = "crash"
                  ELSE /\ a = q * b + r /\ Abs(r) < Abs(b)
                       /\ r # 0 => (r < 0 <=> a < 0)
<1>1. Inv /\ [Next]_vars => [Unsigned]_vars
  <2> SUFFICES ASSUME Inv, [Next]_vars, vars' # vars, Executes({"DIVU"}), Rt # 0
               PROVE  Rs = lo' * Rt + hi' /\ hi' < Rt
    OBVIOUS
  <2>1. Divu
    BY Dispatch DEF Executes, Specified, DivByZero, Rt
  <2>2. Rs \in Nat /\ Rt \in Nat
    BY OperandTypes DEF Word
  <2>3. hi' = Rs % Rt /\ lo' = Rs \div Rt
    BY <2>1 DEF Divu, SetHiLo, Rs, Rt
  <2>4. Rs \div Rt \in Int /\ Rs = Rt * (Rs \div Rt) + (Rs % Rt) /\ Rs % Rt \in 0..(Rt - 1)
    BY <2>2
  <2>5. Rt * (Rs \div Rt) = (Rs \div Rt) * Rt
    BY <2>2, <2>4
  <2> QED BY <2>2, <2>3, <2>4, <2>5
<1>2. Inv /\ [Next]_vars => [Signed]_vars
  <2> SUFFICES ASSUME Inv, [Next]_vars, vars' # vars, Executes({"DIV"}), Rt # 0
               PROVE  Signed
    OBVIOUS
  <2> DEFINE a == S32(Rs)
             b == S32(Rt)
  <2>1. Div \/ DivOverflow
    BY Dispatch DEF Executes, Specified, DivByZero, Rt
  <2>2. a \in Int /\ b \in Int /\ FitsInt32(a) /\ FitsInt32(b) /\ b # 0
    BY OperandTypes, SignedRange
  <2>3. /\ Quot(a, b) \in Int /\ Rem(a, b) \in Int /\ FitsInt32(Rem(a, b))
        /\ ~ FitsInt32(Quot(a, b)) <=> a = -(WORD \div 2) /\ b = -1
    BY <2>2, DivisionTypes, QuotientFits
  <2>4. CASE DivOverflow
    <3>1. ~ FitsInt32(Quot(a, b)) /\ status' = "crash"
      BY <2>4 DEF DivOverflow, Crash, Halt, Rs, Rt
    <3> QED BY <2>3, <3>1
  <2>5. CASE Div
    <3>1. FitsInt32(Quot(a, b)) /\ hi' = U32(Rem(a, b)) /\ lo' = U32(Quot(a, b))
      BY <2>5 DEF Div, SetHiLo, Rs, Rt
    <3>2. S32(hi') = Rem(a, b) /\ S32(lo') = Quot(a, b)
      BY <2>3, <3>1, SignedRoundTrip
    <3> HIDE DEF a, b
    <3>3. /\ a = Quot(a, b) * b + Rem(a, b) /\ Abs(Rem(a, b)) < Abs(b)
          /\ Rem(a, b) # 0 => (Rem(a, b) < 0 <=> a < 0)
      BY <2>2, DivisionRule
    <3> QED BY <2>3, <3>1, <3>2, <3>3 DEF a, b
  <2> QED BY <2>1, <2>4, <2>5
<1> QED BY <1>1, <1>2, InvHolds, PTL DEF Spec, DivisionRebuilds

(* Integers that differ by a multiple of 2^64 are congruent.               *)
LEMMA CongruentBy ==
  ASSUME NEW m \in Int, NEW n \in Int, NEW k \in Int, m = n + (WORD * WORD) * k
  PROVE  Congruent(m, n)
<1> DEFINE M == WORD * WORD
<1>1. WORD \in Nat /\ WORD > 0
  BY Widths
<1>2. M \in Nat /\ M > 0
  <2>1. WORD * 1 <= WORD * WORD
    BY <1>1, MultipleMonotone
  <2>2. WORD * WORD \in Nat /\ WORD * 1 = WORD
    BY <1>1
  <2> QED BY <1>1, <2>1, <2>2
<1> HIDE DEF M
<1>3. m = n + M * k
  BY DEF M
<1>4. M * k \in Int
  BY <1>2
<1>5. m - n = M * k + 0 /\ m - n \in Int
  BY <1>3, <1>4
<1>6. (m - n) % M = 0
  <2> DEFINE d == m - n
  <2>1. d \in Int /\ d = M * k + 0 /\ 0 \in 0..(M - 1)
    BY <1>2, <1>5
  <2> HIDE DEF d
  <2>2. d % M = 0
    BY <1>2, <2>1, ModUnique
  <2> QED BY <2>2 DEF d
<1> QED BY <1>6 DEF Congruent, M

(* The halves of a 64-bit value: what is cut off is a multiple of 2^64.    *)
LEMMA SplitProduct ==
  ASSUME NEW p \in Int
  PROVE  \E k \in Int : Pair(U32(p \div WORD), U32(p)) = p + (WORD * WORD) * k
<1> DEFINE q == p \div WORD
           l == p % WORD
           h == q % WORD
<1>1. WORD \in Nat /\ WORD > 0
  BY Widths
<1>2. q \in Int /\ l \in Int /\ h \in Int /\ p = WORD * q + l
  BY <1>1, ModType
<1>3. PICK k \in Int : q = WORD * k + h
  BY <1>1, <1>2, EuclidDivision
<1> HIDE DEF q, l, h
<1>4. WORD * (WORD * k + h) = (WORD * WORD) * k + h * WORD
  BY <1>1, <1>2
<1>5. (WORD * WORD) * (-k) = -((WORD * WORD) * k) /\ (WORD * WORD) * k \in Int
  BY <1>1
<1>6. h * WORD \in Int
  BY <1>1, <1>2
<1>7. h * WORD + l = p + (WORD * WORD) * (-k)
  BY <1>2, <1>3, <1>4, <1>5, <1>6
<1> QED BY <1>7 DEF Pair, U32, q, l, h

(* Read as signed or as unsigned, a pair is the same up to 2^64.           *)
LEMMA SignedPair ==
  ASSUME NEW h \in Word, NEW l \in Int
  PROVE  /\ Pair(h, l) \in Int /\ Pair(S32(h), l) \in Int
         /\ \E j \in Int : Pair(S32(h), l) = Pair(h, l) + (WORD * WORD) * j
<1>1. WORD \in Nat /\ h \in Int /\ S32(h) \in Int
  BY Widths, SignedTypes DEF Word
<1>2. h * WORD \in Int /\ S32(h) * WORD \in Int /\ WORD * WORD \in Int
  BY <1>1
<1>3. Pair(h, l) \in Int /\ Pair(S32(h), l) \in Int
  BY <1>2 DEF Pair
<1>4. CASE S32(h) = h
  <2>1. (WORD * WORD) * 0 = 0
    BY <1>2
  <2> QED BY <1>3, <1>4, <2>1
<1>5. CASE S32(h) = h - WORD
  <2>1. (h - WORD) * WORD = h * WORD + (WORD * WORD) * (-1)
    BY <1>1
  <2> QED BY <1>2, <1>3, <1>5, <2>1 DEF Pair
<1> QED BY <1>3, <1>4, <1>5 DEF S32

(* A product of two integers of at most n is at most n * n.                *)
LEMMA ProductBound ==
  ASSUME NEW n \in Nat, NEW a \in Int, NEW b \in Int,
         -n <= a, a <= n, -n <= b, b <= n
  PROVE  a * b \in Int /\ -(n * n) <= a * b /\ a * b <= n * n
<1>1. /\ (n - a) * (n + b) >= 0 /\ (n + a) * (n - b) >= 0
      /\ (n - a) * (n - b) >= 0 /\ (n + a) * (n + b) >= 0
  <2>1. ASSUME NEW x \in Nat, NEW y \in Nat PROVE x * y >= 0
    BY <2>1
  <2>2. n - a \in Nat /\ n + a \in Nat /\ n - b \in Nat /\ n + b \in Nat
    OBVIOUS
  <2> QED BY <2>1, <2>2
<1>2. a * b \in Int /\ n * n \in Int /\ n * a \in Int /\ n * b \in Int
  OBVIOUS
<1>3. /\ (n - a) * (n + b) = n * n + n * b - n * a - a * b
      /\ (n + a) * (n - b) = n * n - n * b + n * a - a * b
      /\ (n - a) * (n - b) = n * n - n * b - n * a + a * b
      /\ (n + a) * (n + b) = n * n + n * b + n * a + a * b
  OBVIOUS
<1> QED BY <1>1, <1>2, <1>3

(* The product of two int32_t fits in the pair ...                         *)
LEMMA SignedProduct ==
  ASSUME NEW a \in Int, NEW b \in Int, FitsInt32(a), FitsInt32(b)
  PROVE  Pair(S32(U32((a * b) \div WORD)), U32(a * b)) = a * b
<1> DEFINE h == WORD \div 2
           p == a * b
           q == p \div WORD
           l == p % WORD
<1>1. WORD \in Nat /\ WORD > 0 /\ h \in Nat /\ h >= 8 /\ WORD = 2 * h
  BY Widths, Halves
<1>2. p \in Int /\ -(h * h) <= p /\ p <= h * h
  <2>1. -h <= a /\ a <= h /\ -h <= b /\ b <= h
    BY <1>1 DEF FitsInt32
  <2> HIDE DEF h
  <2> QED BY <1>1, <2>1, ProductBound
<1>3. q \in Int /\ l \in 0..(WORD - 1) /\ p = WORD * q + l
  BY <1>1, <1>2, ModType
<1> HIDE DEF h, p, q, l
<1>4. -h <= q /\ q < h
  <2>1. WORD * h = 2 * (h * h) /\ h * h > 0 /\ WORD * (-h) = -(2 * (h * h)) /\ h * h \in Int
    <3>1. h * h >= h * 1 /\ h * h \in Int
      BY <1>1, MultipleMonotone
    <3>2. WORD * h = 2 * (h * h) /\ WORD * (-h) = -(2 * (h * h))
      BY <1>1
    <3> QED BY <1>1, <3>1, <3>2
  <2>2. ~ (h <= q)
    <3> SUFFICES ASSUME h <= q PROVE FALSE
      BY <1>1, <1>3
    <3>1. WORD * h <= WORD * q /\ WORD * q \in Int
      BY <1>1, <1>3, MultipleMonotone
    <3> QED BY <1>1, <1>2, <1>3, <2>1, <3>1
  <2>3. ~ (q <= -h - 1)
    <3> SUFFICES ASSUME q <= -h - 1 PROVE FALSE
      BY <1>1, <1>3
    <3>1. WORD * q <= WORD * (-h - 1) /\ WORD * (-h - 1) = WORD * (-h) - WORD /\ WORD * q \in Int
      BY <1>1, <1>3, MultipleMonotone
    <3> QED BY <1>1, <1>2, <1>3, <2>1, <3>1
  <2> QED BY <1>1, <1>3, <2>2, <2>3
<1>5. S32(U32(q)) = q
  BY <1>3, <1>4, SignedRoundTrip DEF FitsInt32, h
<1>6. q * WORD + l = p
  BY <1>1, <1>3
<1> QED BY <1>5, <1>6 DEF Pair, U32, p, q, l

(* ... and so does that of two uint32_t.                                   *)
LEMMA UnsignedProduct ==
  ASSUME NEW a \in Word, NEW b \in Word
  PROVE  Pair(U32((a * b) \div WORD), U32(a * b)) = a * b
<1> DEFINE p == a * b
           q == p \div WORD
           l == p % WORD
<1>1. WORD \in Nat /\ WORD > 0 /\ a \in Nat /\ b \in Nat /\ a < WORD /\ b < WORD
  BY Widths DEF Word
<1>2. p \in Nat /\ p < WORD * WORD
  <2>1. a * b <= a * WORD
    BY <1>1, MultipleMonotone
  <2>2. WORD * a <= WORD * (WORD - 1) /\ WORD * (WORD - 1) = WORD * WORD - WORD /\ WORD * a = a * WORD
    BY <1>1, MultipleMonotone
  <2>3. a * b \in Nat /\ a * WORD \in Nat /\ WORD * WORD \in Nat
    BY <1>1
  <2> QED BY <1>1, <2>1, <2>2, <2>3
<1>3. q \in Nat /\ l \in 0..(WORD - 1) /\ p = WORD * q + l
  <2> HIDE DEF p
  <2>1. q \in 0..p
    BY <1>1, <1>2, QuotientType
  <2> QED BY <1>1, <1>2, <2>1, ModType
<1> HIDE DEF p, q, l
<1>4. q \in Word
  <2> SUFFICES ASSUME WORD <= q PROVE FALSE
    BY <1>1, <1>3 DEF Word
  <2>1. WORD * WORD <= WORD * q /\ WORD * q \in Int /\ WORD * WORD \in Int
    BY <1>1, <1>3, MultipleMonotone
  <2> QED BY <1>1, <1>2, <1>3, <2>1
<1>5. U32(q) = q
  BY <1>4, U32Same
<1>6. q * WORD + l = p
  BY <1>1, <1>3
<1> QED BY <1>5, <1>6 DEF Pair, U32, p, q, l

(***************************************************************************)
(* Multiplication: the pair (hi, lo) holds the product, or what is left of *)
(* the accumulated sum below 2^64.                                         *)
(***************************************************************************)
THEOREM ProductsAreExact == Spec => ProductInPair
<1> DEFINE Multiplies ==
             /\ Executes({"MULT"}) => Pair(S32(hi'), lo') = S32(Rs) * S32(Rt)
             /\ Executes({"MULTU"}) => Pair(hi', lo') = Rs * Rt
           Accumulates ==
             /\ Executes({"MADD"}) => Congruent(Pair(hi', lo'), Pair(hi, lo) + S32(Rs) * S32(Rt))
             /\ Executes({"MADDU"}) => Congruent(Pair(hi', lo'), Pair(hi, lo) + Rs * Rt)
             /\ Executes({"MSUB"}) => Congruent(Pair(hi', lo'), Pair(hi, lo) - S32(Rs) * S32(Rt))
             /\ Executes({"MSUBU"}) => Congruent(Pair(hi', lo'), Pair(hi, lo) - Rs * Rt)
<1>1. Inv /\ [Next]_vars => [Multiplies /\ Accumulates]_vars
  <2> SUFFICES ASSUME Inv, [Next]_vars, vars' # vars, Executes(MultiplyOps)
               PROVE  Multiplies /\ Accumulates
    BY DEF Executes, MultiplyOps
  <2> DEFINE op == Instruction.op
             a == S32(Rs)
             b == S32(Rt)
             p == Product(op, Rs, Rt, hi, lo)
  <2>1. hi' = U32(p \div WORD) /\ lo' = U32(p) /\ op \in MultiplyOps
    <3>1. Multiply
      BY Dispatch DEF Executes, Specified
    <3> QED BY <3>1 DEF Multiply, SetHiLo, Rs, Rt
  <2>2. /\ Rs \in Word /\ Rt \in Word /\ hi \in Word /\ lo \in Word
        /\ a \in Int /\ b \in Int /\ FitsInt32(a) /\ FitsInt32(b)
    BY OperandTypes, SignedRange
  <2>3. p \in Int
    BY <2>1, <2>2, ProductType DEF MultiplyOps
  <2>4. /\ op = "MULT" => p = a * b
        /\ op = "MULTU" => p = Rs * Rt
        /\ op = "MADD" => p = Pair(S32(hi), lo) + a * b
        /\ op = "MADDU" => p = Pair(hi, lo) + Rs * Rt
        /\ op = "MSUB" => p = Pair(S32(hi), lo) - a * b
        /\ op = "MSUBU" => p = Pair(hi, lo) - Rs * Rt
    <3>1. CASE op \in {"MULT", "MULTU"}
      BY <3>1 DEF Product
    <3>2. CASE op \in {"MADD", "MADDU"}
      BY <3>2 DEF Product, Pair
    <3>3. CASE op \in {"MSUB", "MSUBU"}
      <4>1. /\ a * b \in Int /\ Rs * Rt \in Int
            /\ S32(hi) * WORD \in Int /\ hi * WORD \in Int /\ lo \in Int
        BY <2>2, Widths, SignedTypes DEF Word
      <4>2. /\ op = "MSUB" => p = S32(hi) * WORD + (lo - a * b)
            /\ op = "MSUBU" => p = hi * WORD + (lo - Rs * Rt)
        BY DEF Product
      <4> HIDE DEF p, a, b
      <4> QED BY <3>3, <4>1, <4>2 DEF Pair
    <3> QED BY <2>1, <3>1, <3>2, <3>3 DEF MultiplyOps
  <2> HIDE DEF p, a, b
  <2>5. Multiplies
    <3>1. ASSUME op = "MULT" PROVE Pair(S32(hi'), lo') = a * b
      BY <3>1, <2>1, <2>2, <2>3, <2>4, SignedProduct
    <3>2. ASSUME op = "MULTU" PROVE Pair(hi', lo') = Rs * Rt
      BY <3>2, <2>1, <2>2, <2>3, <2>4, UnsignedProduct
    <3> QED BY <3>1, <3>2 DEF Executes, a, b
  <2>6. Accumulates
    <3>1. PICK k \in Int : Pair(hi', lo') = p + (WORD * WORD) * k
      BY <2>1, <2>3, SplitProduct
    <3>2. PICK j \in Int : Pair(S32(hi), lo) = Pair(hi, lo) + (WORD * WORD) * j
      BY <2>2, SignedPair DEF Word
    <3>3. Pair(hi, lo) \in Int /\ Pair(S32(hi), lo) \in Int /\ Rs \in Int /\ Rt \in Int /\ WORD \in Int
      BY <2>2, SignedPair, Widths DEF Word
    <3>4. ASSUME NEW x \in Int, p = Pair(hi, lo) + x \/ p = Pair(S32(hi), lo) + x
          PROVE  Congruent(Pair(hi', lo'), Pair(hi, lo) + x)
      <4>1. /\ (WORD * WORD) * k \in Int /\ (WORD * WORD) * j \in Int
            /\ (WORD * WORD) * (j + k) = (WORD * WORD) * j + (WORD * WORD) * k
        BY <3>3
      <4>2. Pair(hi', lo') = (Pair(hi, lo) + x) + (WORD * WORD) * k
              \/ Pair(hi', lo') = (Pair(hi, lo) + x) + (WORD * WORD) * (j + k)
        BY <3>1, <3>2, <3>3, <3>4, <4>1
      <4>3. Pair(hi, lo) + x \in Int /\ Pair(hi', lo') \in Int /\ j + k \in Int
        BY <2>3, <3>1, <3>3, <4>1
      <4> QED BY <4>2, <4>3, CongruentBy
    <3>5. a * b \in Int /\ Rs * Rt \in Int /\ -(a * b) \in Int /\ -(Rs * Rt) \in Int
      BY <2>2, <3>3
    <3>6. op = "MADD" => Congruent(Pair(hi', lo'), Pair(hi, lo) + a * b)
      BY <2>4, <3>4, <3>5
    <3>7. op = "MADDU" => Congruent(Pair(hi', lo'), Pair(hi, lo) + Rs * Rt)
      BY <2>4, <3>4, <3>5
    <3>8. /\ Pair(hi, lo) - a * b = Pair(hi, lo) + -(a * b)
          /\ Pair(hi, lo) - Rs * Rt = Pair(hi, lo) + -(Rs * Rt)
          /\ Pair(S32(hi), lo) - a * b = Pair(S32(hi), lo) + -(a * b)
      BY <3>3, <3>5
    <3>9. op = "MSUB" => Congruent(Pair(hi', lo'), Pair(hi, lo) - a * b)
      BY <2>4, <3>4, <3>5, <3>8
    <3>10. op = "MSUBU" => Congruent(Pair(hi', lo'), Pair(hi, lo) - Rs * Rt)
      BY <2>4, <3>4, <3>5, <3>8
    <3> QED BY <3>6, <3>7, <3>9, <3>10 DEF Executes, a, b
  <2> QED BY <2>5, <2>6
<1> QED BY <1>1, InvHolds, PTL DEF Spec, ProductInPair

(***************************************************************************)
(* The trapping sums flag exactly the overflows, and write nothing else    *)
(* then.                                                                   *)
(***************************************************************************)
THEOREM OverflowIsFlagged == Spec => OverflowFlag
<1> DEFINE d == TrapDest(Instruction)
           Flagged ==
             Executes(TrapOps) =>
               IF Overflows
               THEN reg' = [reg EXCEPT ![K0] = 1]
               ELSE /\ d # K0 => reg'[K0] = 0
                    /\ d # R0 => reg'[d] = Truncated
                    /\ \A r \in Reg \ {K0, d} : reg'[r] = reg[r]
<1>1. Inv /\ [Next]_vars => [Flagged]_vars
  <2> SUFFICES ASSUME Inv, [Next]_vars, vars' # vars, Executes(TrapOps) PROVE Flagged
    OBVIOUS
  <2> DEFINE op == Instruction.op
             e == TrapResult(Instruction)
  <2>1. AddNoOverflow \/ AddOverflow
    BY Dispatch DEF Executes, Specified
  <2>2. /\ reg \in [Reg -> Word] /\ Rs \in Word /\ Rt \in Word /\ Instruction.imm \in Half
        /\ d \in Reg /\ K0 \in Reg /\ R0 \in Reg /\ R0 # K0 /\ reg[R0] = 0
    BY OperandTypes, Registers DEF TrapDest, Inv, ZeroRegister
  <2>3. Second \in Word
    <3>1. S16(Instruction.imm) \in Int
      BY <2>2, SignedTypes
    <3> QED BY <2>2, <3>1, U32Type DEF Second
  <2>4. op \in TrapOps /\ (op = "ADDI" => S32(Second) = S16(Instruction.imm))
    BY <2>2, SignExtension DEF Executes, Second
  <2>5. e = IF op = "SUB" THEN S32(Rs) - S32(Second) ELSE S32(Rs) + S32(Second)
    <3>1. CASE op = "ADD"
      BY <3>1 DEF TrapResult, Exact, Second, Rs, Rt
    <3>2. CASE op = "SUB"
      BY <3>2 DEF TrapResult, Exact, Second, Rs, Rt
    <3>3. CASE op = "ADDI"
      BY <3>3, <2>4 DEF TrapResult, Exact, Rs
    <3> QED BY <2>4, <3>1, <3>2, <3>3 DEF TrapOps
  <2>6. U32(e) = Truncated /\ (~ FitsInt32(e) <=> Overflows)
    <3>1. CASE op = "SUB"
      BY <2>2, <2>3, <2>5, <3>1, DifferenceOverflow DEF Truncated, Overflows
    <3>2. CASE op # "SUB"
      BY <2>2, <2>3, <2>5, <3>2, SumOverflow DEF Truncated, Overflows
    <3> QED BY <3>1, <3>2
  <2>7. CASE AddOverflow
    <3>1. ~ FitsInt32(e) /\ reg' = [[reg EXCEPT ![K0] = 1] EXCEPT ![R0] = 0]
      BY <2>7 DEF AddOverflow, Write, ClearR0
    <3>2. reg' = [reg EXCEPT ![K0] = 1]
      BY <2>2, <3>1
    <3> QED BY <2>6, <3>1, <3>2
  <2>8. CASE AddNoOverflow
    <3>1. /\ FitsInt32(e)
          /\ reg' = [[reg EXCEPT ![K0] = 0, ![d] = U32(e)] EXCEPT ![R0] = 0]
      BY <2>8 DEF AddNoOverflow, ClearR0
    <3>2. \A r \in Reg : reg'[r] = IF r = R0 THEN 0 ELSE IF r = d THEN U32(e)
                                   ELSE IF r = K0 THEN 0 ELSE reg[r]
      BY <2>2, <3>1
    <3> HIDE DEF d, e
    <3>3. /\ d # K0 => reg'[K0] = 0
          /\ d # R0 => reg'[d] = U32(e)
          /\ \A r \in Reg \ {K0, d} : reg'[r] = reg[r]
      BY <2>2, <3>2
    <3> QED BY <2>6, <3>1, <3>3
  <2> QED BY <2>1, <2>7, <2>8
<1> QED BY <1>1, InvHolds, PTL DEF Spec, OverflowFlag

(***************************************************************************)
(* sra and srav fill with the sign.                                        *)
(***************************************************************************)
THEOREM ShiftsKeepTheSign == Spec => ArithmeticShift
<1> DEFINE Shifts ==
      Executes({"SRA", "SRAV"}) /\ Instruction.rd # R0 =>
        LET n == IF Instruction.op = "SRA" THEN Instruction.shamt ELSE Rs % WBITS
        IN reg'[Instruction.rd] = IF TopBit(Rt) = 0 THEN Shr(Rt, n)
                                                    ELSE Not(Shr(Not(Rt), n))
<1>1. Inv /\ [Next]_vars => [Shifts]_vars
  <2> SUFFICES ASSUME Inv, [Next]_vars, vars' # vars, Executes({"SRA", "SRAV"}),
                      Instruction.rd # R0
               PROVE  Shifts
    OBVIOUS
  <2> DEFINE n == IF Instruction.op = "SRA" THEN Instruction.shamt ELSE Rs % WBITS
  <2>1. exec_alu
    BY Dispatch DEF Executes, Specified, RegisterOps
  <2>2. Rt \in Word /\ n \in 0..WBITS
    <3>1. WBITS \in Nat /\ WBITS > 0 /\ Rs \in Int
      BY WidthAssumption, OperandTypes DEF WBITS, Word
    <3>2. Rs % WBITS \in 0..WBITS
      BY <3>1, ModType
    <3> QED BY <3>1, <3>2, OperandTypes
  <2>3. reg'[Instruction.rd] = AluR(Instruction.op, Rs, Rt, Instruction.shamt)
    <3>1. Write(Instruction.rd, AluR(Instruction.op, Rs, Rt, Instruction.shamt))
      BY <2>1 DEF exec_alu, Rs, Rt
    <3> QED BY <3>1, WrittenValue, OperandTypes
  <2>4. AluR(Instruction.op, Rs, Rt, Instruction.shamt) = Sar(Rt, n)
    BY DEF AluR, Executes
  <2> HIDE DEF n
  <2>5. Sar(Rt, n) = IF TopBit(Rt) = 0 THEN Shr(Rt, n) ELSE Not(Shr(Not(Rt), n))
    BY <2>2, ArithmeticShiftRule
  <2> QED BY <2>3, <2>4, <2>5 DEF n
<1> QED BY <1>1, InvHolds, PTL DEF Spec, ArithmeticShift

(***************************************************************************)
(* clz and clo count the leading zeros and ones.                           *)
(***************************************************************************)
THEOREM CountsAreExact == Spec => LeadingCounts
<1> DEFINE v == IF Instruction.op = "CLZ" THEN Rs ELSE Not(Rs)
           n == reg'[Instruction.rd]
           Counts == Executes({"CLZ", "CLO"}) /\ Instruction.rd # R0 =>
                       /\ n \in 0..WBITS
                       /\ v \div 2 ^ (WBITS - n) = 0
                       /\ n < WBITS => v \div 2 ^ (WBITS - n - 1) = 1
<1>1. Inv /\ [Next]_vars => [Counts]_vars
  <2> SUFFICES ASSUME Inv, [Next]_vars, vars' # vars, Executes({"CLZ", "CLO"}),
                      Instruction.rd # R0
               PROVE  Counts
    OBVIOUS
  <2>1. exec_alu
    BY Dispatch DEF Executes, Specified, RegisterOps
  <2>2. n = AluR(Instruction.op, Rs, Rt, Instruction.shamt)
    <3>1. Write(Instruction.rd, AluR(Instruction.op, Rs, Rt, Instruction.shamt))
      BY <2>1 DEF exec_alu, Rs, Rt
    <3> QED BY <3>1, WrittenValue, OperandTypes
  <2>3. v \in Word
    BY OperandTypes, NotType
  <2>4. n = CountLeading(v, 0)
    BY <2>2, LeadingOnes, OperandTypes DEF AluR, Executes
  <2> HIDE DEF n, v
  <2> QED BY <2>3, <2>4, LeadingZeros
<1> QED BY <1>1, InvHolds, PTL DEF Spec, LeadingCounts

-----------------------------------------------------------------------------
(* The bytes of a word.                                                    *)
LEMMA LanePower ==
  ASSUME NEW k \in 0..4
  PROVE  BITS * k \in 0..WBITS /\ 2 ^ (BITS * k) \in Nat /\ 2 ^ (BITS * k) > 0
<1>1. BITS * 0 <= BITS * k /\ BITS * k <= BITS * 4 /\ BITS \in Nat
  BY WidthAssumption, MultipleMonotone
<1>2. BITS * k \in 0..WBITS
  BY <1>1 DEF WBITS
<1> QED BY <1>2, PowerSplit

(* Their weights multiply.                                                 *)
LEMMA LanePowers ==
  ASSUME NEW j \in 0..4, NEW k \in 0..4, j + k <= 4
  PROVE  2 ^ (BITS * (j + k)) = 2 ^ (BITS * j) * 2 ^ (BITS * k)
<1>1. BITS * j \in 0..WBITS /\ BITS * k \in 0..WBITS /\ BITS * (j + k) \in 0..WBITS
  BY LanePower
<1>2. BITS * (j + k) = BITS * j + BITS * k
  BY WidthAssumption
<1> QED BY <1>1, <1>2, PowerAssumption, Widths

(* Two divisions are one.                                                  *)
LEMMA TwoDivisions ==
  ASSUME NEW x \in Nat, NEW m \in Nat, m > 0, NEW n \in Nat, n > 0
  PROVE  (x \div m) \div n = x \div (m * n)
<1> DEFINE q == x \div m
           r == x % m
           z == q \div n
           t == q % n
<1>1. q \in Int /\ r \in 0..(m - 1) /\ x = m * q + r
  BY ModType
<1> HIDE DEF q, r
<1>2. z \in Int /\ t \in 0..(n - 1) /\ q = n * z + t
  BY <1>1, ModType
<1> HIDE DEF z, t
<1>3. x = (m * n) * z + (m * t + r)
  <2>1. m * (n * z + t) = (m * n) * z + m * t
    BY <1>2
  <2>2. (m * n) * z \in Int /\ m * t \in Int
    BY <1>2
  <2> QED BY <1>1, <1>2, <2>1, <2>2
<1>4. m * t + r \in 0..(m * n - 1)
  <2>1. m * t <= m * (n - 1) /\ m * 0 <= m * t
    BY <1>2, MultipleMonotone
  <2>2. m * (n - 1) = m * n - m /\ m * 0 = 0 /\ m * t \in Int /\ m * n \in Int
    BY <1>2
  <2> QED BY <1>1, <2>1, <2>2
<1>5. m * n \in Nat /\ m * n > 0
  <2>1. m * 1 <= m * n /\ m * 1 = m /\ m * n \in Int
    BY MultipleMonotone
  <2> QED BY <2>1
<1>6. x \div (m * n) = z
  BY <1>2, <1>3, <1>4, <1>5, DivUnique
<1> QED BY <1>6 DEF z, q

(* The bytes of a word that is shifted right.                              *)
LEMMA LaneShift ==
  ASSUME NEW x \in Nat, NEW j \in 0..4, NEW k \in 0..4, j + k <= 4
  PROVE  Lane(x \div 2 ^ (BITS * j), k) = Lane(x, j + k)
<1>1. (x \div 2 ^ (BITS * j)) \div 2 ^ (BITS * k) = x \div (2 ^ (BITS * j) * 2 ^ (BITS * k))
  BY LanePower, TwoDivisions
<1>2. 2 ^ (BITS * (j + k)) = 2 ^ (BITS * j) * 2 ^ (BITS * k)
  BY LanePowers
<1> QED BY <1>1, <1>2 DEF Lane

(* Adding a multiple does not change a remainder.                          *)
LEMMA ModAdd ==
  ASSUME NEW m \in Nat, m > 0, NEW x \in Int, NEW y \in Int
  PROVE  (x + m * y) % m = x % m
<1> DEFINE q == x \div m
           r == x % m
<1>1. q \in Int /\ r \in 0..(m - 1) /\ x = m * q + r
  BY ModType
<1> HIDE DEF q, r
<1>2. m * (q + y) = m * q + m * y /\ m * q \in Int /\ m * y \in Int
  BY <1>1
<1>3. x + m * y = m * (q + y) + r /\ x + m * y \in Int /\ q + y \in Int
  BY <1>1, <1>2
<1>4. (x + m * y) % m = r
  BY <1>1, <1>3, ModUnique
<1> QED BY <1>4 DEF r

(* What is below a byte boundary and what is above it.                     *)
LEMMA LaneSplit ==
  ASSUME NEW j \in 0..4, NEW low \in Nat, low < 2 ^ (BITS * j), NEW high \in Nat, NEW k \in 0..3
  PROVE  Lane(low + high * 2 ^ (BITS * j), k) = IF k < j THEN Lane(low, k) ELSE Lane(high, k - j)
<1> DEFINE P == 2 ^ (BITS * j)
           x == low + high * P
<1>1. P \in Nat /\ P > 0 /\ high * P \in Nat
  <2>1. P \in Nat /\ P > 0
    BY LanePower
  <2> HIDE DEF P
  <2> QED BY <2>1
<1>2. x \in Nat
  BY <1>1
<1>3. CASE k < j
  <2> DEFINE M == 2 ^ (BITS * k)
             T == 2 ^ (BITS * (j - k - 1))
             q == low \div M
             r == low % M
  <2>1. M \in Nat /\ M > 0 /\ T \in Nat /\ BYTE \in Nat /\ BYTE > 0
    <3>1. k \in 0..4 /\ j - k - 1 \in 0..4
      BY <1>3
    <3> QED BY <3>1, LanePower, Widths
  <2>2. P = M * (BYTE * T)
    <3>1. /\ k \in 0..4 /\ j - k \in 0..4 /\ k + (j - k) = j /\ k + (j - k) <= 4
          /\ 1 \in 0..4 /\ j - k - 1 \in 0..4 /\ 1 + (j - k - 1) = j - k /\ 1 + (j - k - 1) <= 4
      BY <1>3
    <3>2. 2 ^ (BITS * (k + (j - k))) = M * 2 ^ (BITS * (j - k))
      BY <3>1, LanePowers
    <3>3. 2 ^ (BITS * (1 + (j - k - 1))) = 2 ^ (BITS * 1) * T
      BY <3>1, LanePowers
    <3> QED BY <3>1, <3>2, <3>3, BytePowers
  <2> HIDE DEF M, T, P
  <2>3. q \in Int /\ r \in 0..(M - 1) /\ low = M * q + r
    BY <2>1, ModType
  <2> HIDE DEF q, r
  <2>4. high * (M * (BYTE * T)) = M * (BYTE * (high * T)) /\ high * T \in Int /\ BYTE * (high * T) \in Int
    BY <2>1
  <2> DEFINE y == BYTE * (high * T)
  <2>5. M * (q + y) = M * q + M * y /\ M * q \in Int /\ M * y \in Int
    BY <2>1, <2>3, <2>4
  <2>6. x = M * (q + y) + r /\ q + y \in Int /\ x \in Int
    <3> HIDE DEF y
    <3>1. x = low + M * y
      BY <2>2, <2>4 DEF y
    <3>2. y \in Int
      BY <2>4 DEF y
    <3> QED BY <1>2, <2>3, <2>5, <3>1, <3>2
  <2> HIDE DEF y, x
  <2>7. x \div M = q + y
    BY <2>1, <2>3, <2>6, DivUnique
  <2>8. (q + y) % BYTE = q % BYTE
    BY <2>1, <2>3, <2>4, ModAdd DEF y
  <2>9. Lane(x, k) = Lane(low, k)
    BY <2>7, <2>8 DEF Lane, q, M
  <2> QED BY <1>3, <2>9 DEF x, P
<1>4. CASE ~ (k < j)
  <2>1. j \in 0..4 /\ k - j \in 0..4 /\ j + (k - j) = k /\ j + (k - j) <= 4
    BY <1>4
  <2>2. x \div P = high
    <3> HIDE DEF P
    <3>1. x = P * high + low /\ low \in 0..(P - 1) /\ x \in Int
      BY <1>1, <1>2 DEF P
    <3> HIDE DEF x
    <3> QED BY <1>1, <3>1, DivUnique
  <2> HIDE DEF x
  <2>3. Lane(x \div P, k - j) = Lane(x, j + (k - j))
    BY <1>2, <2>1, LaneShift
  <2>4. Lane(high, k - j) = Lane(x, k)
    BY <2>1, <2>2, <2>3
  <2> QED BY <1>4, <2>4 DEF x, P
<1> QED BY <1>3, <1>4

(* The low bytes of a word.                                                *)
LEMMA LaneLow ==
  ASSUME NEW x \in Nat, NEW j \in 0..4, NEW k \in 0..3, k < j
  PROVE  Lane(x % 2 ^ (BITS * j), k) = Lane(x, k)
<1> DEFINE P == 2 ^ (BITS * j)
<1>1. P \in Nat /\ P > 0
  BY LanePower
<1> HIDE DEF P
<1>2. x % P \in Nat /\ x % P < P /\ x \div P \in Nat /\ x = P * (x \div P) + (x % P)
  <2>1. x \div P \in 0..x
    BY <1>1, QuotientType
  <2> QED BY <1>1, <2>1, ModType
<1>3. x = (x % P) + (x \div P) * P
  BY <1>1, <1>2
<1>4. Lane((x % P) + (x \div P) * P, k) = Lane(x % P, k)
  BY <1>2, LaneSplit DEF P
<1> QED BY <1>3, <1>4 DEF P

(* A shift to the left over the low bytes of another word: lwl and swr.    *)
LEMMA MergeLow ==
  ASSUME NEW x \in Word, NEW y \in Word, NEW j \in 0..3, NEW k \in 0..3
  PROVE  Lane(Or(Shl(x, BITS * j), And(y, 2 ^ (BITS * j) - 1)), k)
           = IF k < j THEN Lane(y, k) ELSE Lane(x, k - j)
<1> DEFINE s == BITS * j
           P == 2 ^ s
           Q == 2 ^ (WBITS - s)
           low == y % P
           high == x % Q
<1>1. /\ s \in 0..WBITS /\ P \in Nat /\ P > 0 /\ Q \in Nat /\ Q > 0
      /\ WORD = P * Q /\ x \in Nat /\ y \in Nat /\ WORD \in Nat /\ WORD > 0
  <2>1. s \in 0..WBITS
    BY LanePower
  <2> HIDE DEF s
  <2> QED BY <2>1, PowerSplit, Widths DEF Word
<1>2. low \in 0..(P - 1) /\ high \in 0..(Q - 1)
  <2> HIDE DEF P, Q
  <2> QED BY <1>1, ModType
<1>3. And(y, P - 1) = low
  BY <1>1, MaskAssumption
<1>4. Shl(x, s) = high * P
  <2> HIDE DEF P, Q
  <2> DEFINE q == x \div Q
  <2>1. q \in Int /\ x = Q * q + high
    BY <1>1
  <2> HIDE DEF q, high
  <2>2. (Q * q + high) * P = (P * Q) * q + high * P /\ high * P \in Int /\ x * P \in Int
    BY <1>1, <1>2, <2>1
  <2>3. x * P = WORD * q + high * P
    BY <1>1, <2>1, <2>2
  <2>4. high * P \in 0..(WORD - 1)
    <3>1. P * high <= P * (Q - 1) /\ P * 0 <= P * high
      BY <1>1, <1>2, MultipleMonotone
    <3>2. P * (Q - 1) = P * Q - P /\ P * 0 = 0 /\ P * high = high * P
      BY <1>1, <1>2
    <3> QED BY <1>1, <2>2, <3>1, <3>2
  <2>5. (x * P) % WORD = high * P
    BY <1>1, <2>1, <2>2, <2>3, <2>4, ModUnique
  <2> QED BY <2>5 DEF Shl, U32, P
<1>5. Or(high * P, low) = low + high * P
  <2> HIDE DEF s, low, high
  <2> QED BY <1>1, <1>2, MaskAssumption
<1>6. Lane(low + high * P, k) = IF k < j THEN Lane(low, k) ELSE Lane(high, k - j)
  <2>1. low \in Nat /\ high \in Nat /\ low < P /\ j \in 0..4
    <3> HIDE DEF low, high, P, Q
    <3> QED BY <1>1, <1>2
  <2> HIDE DEF low, high
  <2> QED BY <2>1, LaneSplit
<1>7. k < j => Lane(low, k) = Lane(y, k)
  BY <1>1, LaneLow
<1>8. ~ (k < j) => Lane(high, k - j) = Lane(x, k - j)
  <2>1. 4 - j \in 0..4 /\ WBITS - s = BITS * (4 - j)
    BY WidthAssumption DEF WBITS
  <2>2. ~ (k < j) => k - j \in 0..3 /\ k - j < 4 - j
    OBVIOUS
  <2> QED BY <1>1, <2>1, <2>2, LaneLow
<1> QED BY <1>3, <1>4, <1>5, <1>6, <1>7, <1>8

(* A shift to the right under the high bytes of another word: lwr and swl. *)
LEMMA MergeHigh ==
  ASSUME NEW x \in Word, NEW y \in Word, NEW j \in 0..3, NEW k \in 0..3
  PROVE  Lane(Or(Shr(x, BITS * j), And(y, Not(Shr(WORD - 1, BITS * j)))), k)
           = IF k < 4 - j THEN Lane(x, k + j) ELSE Lane(y, k)
<1> DEFINE s == BITS * j
           P == 2 ^ s
           Q == 2 ^ (WBITS - s)
           low == x \div P
           high == y \div Q
<1>1. /\ s \in 0..WBITS /\ P \in Nat /\ P > 0 /\ Q \in Nat /\ Q > 0 /\ WBITS - s \in 0..WBITS
      /\ WBITS - (WBITS - s) = s
      /\ WORD = P * Q /\ x \in Nat /\ y \in Nat /\ WORD \in Nat /\ x < WORD /\ y < WORD
  <2>1. s \in 0..WBITS
    BY LanePower
  <2> HIDE DEF s
  <2> QED BY <2>1, PowerSplit, Widths DEF Word
<1>2. ASSUME NEW m \in Nat, NEW n \in Nat, m > 0, WORD = m * n, NEW v \in Nat, v < WORD
      PROVE  v \div m \in 0..(n - 1)
  <2>1. v \div m \in 0..v /\ v = m * (v \div m) + (v % m) /\ v % m \in 0..(m - 1)
    BY <1>2, QuotientType, ModType
  <2> SUFFICES ASSUME n <= v \div m PROVE FALSE
    BY <1>2, <2>1
  <2>2. m * n <= m * (v \div m) /\ m * (v \div m) \in Int
    BY <1>2, <2>1, MultipleMonotone
  <2> QED BY <1>1, <1>2, <2>1, <2>2
<1>3. low \in 0..(Q - 1) /\ high \in 0..(P - 1)
  <2> HIDE DEF P, Q
  <2>1. WORD = Q * P
    BY <1>1
  <2> QED BY <1>1, <1>2, <2>1
<1>4. Not(Shr(WORD - 1, s)) = WORD - Q
  <2> HIDE DEF P, Q
  <2>1. WORD - 1 = P * (Q - 1) + (P - 1) /\ P - 1 \in 0..(P - 1) /\ WORD - 1 \in Int /\ Q - 1 \in Int
    <3>1. P * (Q - 1) = P * Q - P
      BY <1>1
    <3> QED BY <1>1, <3>1
  <2>2. (WORD - 1) \div P = Q - 1
    BY <1>1, <2>1, DivUnique
  <2>3. Shr(WORD - 1, s) = Q - 1
    BY <2>2 DEF Shr, P
  <2> QED BY <1>1, <2>3 DEF Not
<1>5. And(y, WORD - Q) = high * Q
  <2>1. And(y, WORD - Q) = y - (y % Q)
    BY <1>1, MaskAssumption
  <2> HIDE DEF P, Q
  <2>2. y = Q * high + (y % Q) /\ y % Q \in Int /\ high \in Int
    BY <1>1, ModType
  <2> HIDE DEF high
  <2>3. Q * high = high * Q /\ Q * high \in Int
    BY <1>1, <2>2
  <2> QED BY <1>1, <2>1, <2>2, <2>3
<1>6. Or(low, high * Q) = low + high * Q
  <2> HIDE DEF low, high
  <2> QED BY <1>1, <1>3, MaskAssumption
<1>7. WBITS - s = BITS * (4 - j) /\ 4 - j \in 0..4 /\ j \in 0..4
  BY WidthAssumption DEF WBITS
<1>8. Lane(low + high * Q, k) = IF k < 4 - j THEN Lane(low, k) ELSE Lane(high, k - (4 - j))
  <2>1. low \in Nat /\ high \in Nat /\ low < Q
    <3> HIDE DEF low, high, P, Q
    <3> QED BY <1>1, <1>3
  <2> HIDE DEF low, high
  <2> QED BY <2>1, <1>7, LaneSplit
<1>9. k < 4 - j => Lane(low, k) = Lane(x, k + j)
  <2>1. k < 4 - j => j + k <= 4 /\ j + k = k + j /\ k \in 0..4
    OBVIOUS
  <2> QED BY <1>1, <1>7, <2>1, LaneShift
<1>10. ~ (k < 4 - j) => Lane(high, k - (4 - j)) = Lane(y, k)
  <2>1. ~ (k < 4 - j) => /\ k - (4 - j) \in 0..4 /\ (4 - j) + (k - (4 - j)) = k
                         /\ (4 - j) + (k - (4 - j)) <= 4
    OBVIOUS
  <2>2. ~ (k < 4 - j) =>
          Lane(y \div 2 ^ (BITS * (4 - j)), k - (4 - j)) = Lane(y, (4 - j) + (k - (4 - j)))
    BY <1>1, <1>7, <2>1, LaneShift
  <2> QED BY <1>7, <2>1, <2>2
<1> QED BY <1>4, <1>5, <1>6, <1>8, <1>9, <1>10 DEF Shr

(* The bytes of a word that is put together from bytes.                    *)
LEMMA Digits ==
  ASSUME NEW b0 \in Byte, NEW b1 \in Byte, NEW b2 \in Byte, NEW b3 \in Byte
  PROVE  LET w == b0 + BYTE * b1 + HALF * b2 + HALF * BYTE * b3
         IN /\ Lane(w, 0) = b0 /\ Lane(w, 1) = b1 /\ Lane(w, 2) = b2 /\ Lane(w, 3) = b3
            /\ w \in Nat
<1> DEFINE x2 == b2 + b3 * BYTE
           x1 == b1 + x2 * BYTE
           x0 == b0 + x1 * BYTE
<1>1. /\ BYTE \in Nat /\ BYTE > 0 /\ HALF = BYTE * BYTE
      /\ b0 \in Nat /\ b1 \in Nat /\ b2 \in Nat /\ b3 \in Nat
      /\ b0 < BYTE /\ b1 < BYTE /\ b2 < BYTE /\ b3 < BYTE
  BY Widths DEF Byte, HALF
<1>2. x2 \in Nat /\ x1 \in Nat /\ x0 \in Nat
  <2>1. x2 \in Nat
    BY <1>1
  <2> HIDE DEF x2
  <2>2. x1 \in Nat
    BY <1>1, <2>1
  <2> HIDE DEF x1
  <2> QED BY <1>1, <2>1, <2>2
<1>3. b0 + BYTE * b1 + HALF * b2 + HALF * BYTE * b3 = x0
  BY <1>1
<1>4. ASSUME NEW b \in Nat, b < BYTE, NEW x \in Nat
      PROVE  Lane(b + x * BYTE, 0) = b /\ \A k \in 1..3 : Lane(b + x * BYTE, k) = Lane(x, k - 1)
  <2>1. 2 ^ (BITS * 1) = BYTE /\ 2 ^ (BITS * 0) = 1 /\ 1 \in 0..4
    BY BytePowers
  <2>2. \A k \in 0..3 : Lane(b + x * BYTE, k) = IF k < 1 THEN Lane(b, k) ELSE Lane(x, k - 1)
    BY <1>4, <2>1, LaneSplit
  <2>3. Lane(b, 0) = b
    <3>1. b \div 1 = b /\ b % BYTE = b
      <4>1. b = 1 * b + 0 /\ b = BYTE * 0 + b /\ b \in Int
        BY <1>1, <1>4
      <4>2. b \div 1 = b
        BY <1>4
      <4>3. b \in 0..(BYTE - 1)
        BY <1>1, <1>4
      <4>4. b % BYTE = b
        BY <1>1, <4>1, <4>3, ModUnique
      <4> QED BY <4>2, <4>4
    <3> QED BY <2>1, <3>1 DEF Lane
  <2> QED BY <2>2, <2>3
<1> HIDE DEF x0, x1, x2
<1>5. Lane(x0, 0) = b0 /\ Lane(x0, 1) = Lane(x1, 0) /\ Lane(x0, 2) = Lane(x1, 1) /\ Lane(x0, 3) = Lane(x1, 2)
  BY <1>1, <1>2, <1>4 DEF x0
<1>6. Lane(x1, 0) = b1 /\ Lane(x1, 1) = Lane(x2, 0) /\ Lane(x1, 2) = Lane(x2, 1)
  BY <1>1, <1>2, <1>4 DEF x1
<1>7. Lane(x2, 0) = b2 /\ Lane(x2, 1) = Lane(b3, 0)
  BY <1>1, <1>4 DEF x2
<1>8. Lane(b3, 0) = b3
  <2>1. Lane(b3 + 0 * BYTE, 0) = b3 /\ b3 + 0 * BYTE = b3
    BY <1>1, <1>4
  <2> QED BY <2>1
<1> QED BY <1>2, <1>3, <1>5, <1>6, <1>7, <1>8

-----------------------------------------------------------------------------
(* Neighbouring addresses differ, also across the end of memory.           *)
LEMMA Neighbours ==
  ASSUME NEW a \in Word
  PROVE  /\ \A k \in 0..3 : U32(a + k) \in Word
         /\ \A j, k \in 0..3 : U32(a + j) = U32(a + k) => j = k
         /\ U32(a + 0) = a /\ \A k \in 1..3 : U32(a + k) # a
<1>1. a \in Nat /\ a < WORD /\ WORD \in Nat /\ WORD >= 16
  BY Widths DEF Word
<1>2. ASSUME NEW k \in 0..3 PROVE U32(a + k) = IF a + k < WORD THEN a + k ELSE a + k - WORD
  BY <1>1, U32Near
<1>3. \A k \in 0..3 : U32(a + k) \in Word
  BY <1>1, U32Type
<1>4. ASSUME NEW j \in 0..3, NEW k \in 0..3, U32(a + j) = U32(a + k) PROVE j = k
  BY <1>1, <1>2, <1>4
<1>5. U32(a + 0) = a
  BY <1>1, U32Same
<1>6. ASSUME NEW k \in 1..3 PROVE U32(a + k) # a
  BY <1>1, <1>2
<1> QED BY <1>3, <1>4, <1>5, <1>6

(* The bytes of a loaded word are those of memory.                         *)
LEMMA LoadedLanes ==
  ASSUME NEW m \in [Word -> Byte], NEW a \in Word, NEW k \in 0..3
  PROVE  Lane(WordAt(m, a), k) = m[U32(a + k)]
<1>1. m[a] \in Byte /\ m[U32(a + 1)] \in Byte /\ m[U32(a + 2)] \in Byte /\ m[U32(a + 3)] \in Byte
  BY Neighbours
<1>2. /\ Lane(WordAt(m, a), 0) = m[a] /\ Lane(WordAt(m, a), 1) = m[U32(a + 1)]
      /\ Lane(WordAt(m, a), 2) = m[U32(a + 2)] /\ Lane(WordAt(m, a), 3) = m[U32(a + 3)]
  BY <1>1, Digits DEF WordAt
<1>3. k = 0 \/ k = 1 \/ k = 2 \/ k = 3
  OBVIOUS
<1> QED BY <1>2, <1>3, Neighbours

(* The bytes that storing a value leaves in memory.                        *)
LEMMA StoredLanes ==
  ASSUME NEW m \in [Word -> Byte], NEW a \in Word, NEW v \in Word
  PROVE  /\ \A k \in 0..3 : PutWord(m, a, v)[U32(a + k)] = Lane(v, k)
         /\ \A x \in Word : (\A k \in 0..3 : x # U32(a + k)) => PutWord(m, a, v)[x] = m[x]
<1> DEFINE a0 == a
           a1 == U32(a + 1)
           a2 == U32(a + 2)
           a3 == U32(a + 3)
           p == PutWord(m, a, v)
<1>1. /\ Lane(v, 0) = v % BYTE /\ Lane(v, 1) = (v \div BYTE) % BYTE
      /\ Lane(v, 2) = (v \div HALF) % BYTE /\ Lane(v, 3) = (v \div (HALF * BYTE)) % BYTE
  <2>1. v \div 1 = v
    BY DEF Word
  <2> QED BY <2>1, BytePowers DEF Lane
<1>2. /\ a0 \in Word /\ a1 \in Word /\ a2 \in Word /\ a3 \in Word /\ U32(a + 0) = a
      /\ a0 # a1 /\ a0 # a2 /\ a0 # a3 /\ a1 # a2 /\ a1 # a3 /\ a2 # a3
  <2>1. a1 \in Word /\ a2 \in Word /\ a3 \in Word /\ U32(a + 0) = a
    BY Neighbours
  <2>2. a0 # a1 /\ a0 # a2 /\ a0 # a3
    BY Neighbours
  <2>3. 1 \in 0..3 /\ 2 \in 0..3 /\ 3 \in 0..3 /\ 1 # 2 /\ 1 # 3 /\ 2 # 3
    OBVIOUS
  <2>4. a1 # a2 /\ a1 # a3 /\ a2 # a3
    BY <2>3, Neighbours
  <2> QED BY <2>1, <2>2, <2>4
<1>3. p = [m EXCEPT ![a0] = Lane(v, 0), ![a1] = Lane(v, 1), ![a2] = Lane(v, 2), ![a3] = Lane(v, 3)]
  BY <1>1 DEF PutWord
<1> HIDE DEF a0, a1, a2, a3, p
<1>4. p[a0] = Lane(v, 0) /\ p[a1] = Lane(v, 1) /\ p[a2] = Lane(v, 2) /\ p[a3] = Lane(v, 3)
  BY <1>2, <1>3
<1>5. ASSUME NEW k \in 0..3 PROVE p[U32(a + k)] = Lane(v, k)
  <2>1. k = 0 \/ k = 1 \/ k = 2 \/ k = 3
    OBVIOUS
  <2> QED BY <1>2, <1>4, <2>1 DEF a0, a1, a2, a3
<1>6. ASSUME NEW x \in Word, \A k \in 0..3 : x # U32(a + k) PROVE p[x] = m[x]
  <2>1. x # a0 /\ x # a1 /\ x # a2 /\ x # a3
    <3>1. 0 \in 0..3 /\ 1 \in 0..3 /\ 2 \in 0..3 /\ 3 \in 0..3
      OBVIOUS
    <3> QED BY <1>2, <1>6, <3>1 DEF a0, a1, a2, a3
  <2> QED BY <1>3, <2>1
<1> QED BY <1>5, <1>6 DEF p

(* The bytes that loading a byte or a halfword leaves in a register.       *)
LEMMA NarrowLanes ==
  ASSUME NEW b0 \in Byte, NEW b1 \in Byte, NEW k \in 0..3
  PROVE  LET h == b0 + BYTE * b1
         IN /\ Lane(b0, k) = IF k = 0 THEN b0 ELSE 0
            /\ Lane(U32(S8(b0)), k) = IF k = 0 THEN b0 ELSE Sign(b0)
            /\ Lane(h, k) = IF k = 0 THEN b0 ELSE IF k = 1 THEN b1 ELSE 0
            /\ Lane(U32(S16(h)), k) = IF k = 0 THEN b0 ELSE IF k = 1 THEN b1 ELSE Sign(b1)
<1> DEFINE h == b0 + BYTE * b1
           top == BYTE - 1
<1>1. /\ BYTE \in Nat /\ BYTE >= 2 /\ HALF \in Nat /\ HALF = BYTE * BYTE
      /\ WORD \in Nat /\ WORD = HALF * HALF /\ HALF * 2 <= WORD /\ BYTE <= HALF
      /\ b0 \in Nat /\ b0 < BYTE /\ b1 \in Nat /\ b1 < BYTE /\ 0 \in Byte /\ top \in Byte
  <2>1. HALF * 2 <= HALF * HALF
    BY Widths, MultipleMonotone
  <2> QED BY <2>1, Widths DEF Byte, HALF, WORD
<1>2. /\ b0 = b0 + BYTE * 0 + HALF * 0 + HALF * BYTE * 0
      /\ h = b0 + BYTE * b1 + HALF * 0 + HALF * BYTE * 0
  BY <1>1
<1>3. HALF * BYTE * top = WORD - HALF * BYTE /\ HALF * top = HALF * BYTE - HALF
        /\ BYTE * top = HALF - BYTE /\ HALF * BYTE \in Int
  BY <1>1
<1>4. /\ WORD + (b0 - BYTE) = b0 + BYTE * top + HALF * top + HALF * BYTE * top
      /\ WORD + (h - HALF) = b0 + BYTE * b1 + HALF * top + HALF * BYTE * top
  <2>1. BYTE * b1 \in Int
    BY <1>1
  <2> QED BY <1>1, <1>3, <2>1
<1>5. k = 0 \/ k = 1 \/ k = 2 \/ k = 3
  OBVIOUS
<1> HIDE DEF h, top
<1>6. /\ Lane(b0, k) = IF k = 0 THEN b0 ELSE 0
      /\ Lane(h, k) = IF k = 0 THEN b0 ELSE IF k = 1 THEN b1 ELSE 0
  BY <1>1, <1>2, <1>5, Digits
<1>7. /\ Lane(WORD + (b0 - BYTE), k) = IF k = 0 THEN b0 ELSE top
      /\ Lane(WORD + (h - HALF), k) = IF k = 0 THEN b0 ELSE IF k = 1 THEN b1 ELSE top
  <2> DEFINE u == b0 + BYTE * top + HALF * top + HALF * BYTE * top
             w == b0 + BYTE * b1 + HALF * top + HALF * BYTE * top
  <2>1. Lane(u, 0) = b0 /\ Lane(u, 1) = top /\ Lane(u, 2) = top /\ Lane(u, 3) = top
    BY <1>1, Digits
  <2>2. Lane(w, 0) = b0 /\ Lane(w, 1) = b1 /\ Lane(w, 2) = top /\ Lane(w, 3) = top
    BY <1>1, Digits
  <2>3. WORD + (b0 - BYTE) = u /\ WORD + (h - HALF) = w
    BY <1>4
  <2> HIDE DEF u, w
  <2> QED BY <1>5, <2>1, <2>2, <2>3
<1>8. U32(S8(b0)) = IF b0 < BYTE \div 2 THEN b0 ELSE WORD + (b0 - BYTE)
  <2>1. CASE b0 < BYTE \div 2
    BY <1>1, <2>1, U32Same DEF S8, Word
  <2>2. CASE ~ (b0 < BYTE \div 2)
    <3>1. S8(b0) = b0 - BYTE /\ -WORD <= b0 - BYTE /\ b0 - BYTE < 0 /\ b0 - BYTE \in Int
      BY <1>1, <2>2 DEF S8
    <3>2. U32(b0 - BYTE) = (b0 - BYTE) + WORD
      BY <3>1, U32Near
    <3> QED BY <1>1, <2>2, <3>1, <3>2
  <2> QED BY <2>1, <2>2
<1>9. /\ h \in Nat /\ h < HALF
      /\ h < HALF \div 2 <=> b1 < BYTE \div 2
  <2> DEFINE c == BYTE \div 2
  <2>1. c \in Nat /\ BYTE = 2 * c
    <3>1. PICK e \in Int : BYTE = 2 * e
      BY EvenByte
    <3> QED BY <1>1, <3>1
  <2>2. HALF \div 2 = BYTE * c /\ BYTE * c \in Int
    <3> HIDE DEF c
    <3>1. HALF = 2 * (BYTE * c) /\ BYTE * c \in Int
      BY <1>1, <2>1
    <3> QED BY <3>1
  <2> HIDE DEF c
  <2>3. BYTE * b1 \in Nat /\ BYTE * b1 <= BYTE * (BYTE - 1) /\ BYTE * (BYTE - 1) = HALF - BYTE
    BY <1>1, MultipleMonotone
  <2>4. h \in Nat /\ h < HALF
    BY <1>1, <2>3 DEF h
  <2>5. CASE b1 < c
    <3>1. BYTE * (b1 + 1) <= BYTE * c /\ BYTE * (b1 + 1) = BYTE * b1 + BYTE
      BY <1>1, <2>1, <2>5, MultipleMonotone
    <3> QED BY <1>1, <2>2, <2>3, <2>4, <2>5, <3>1 DEF h, c
  <2>6. CASE ~ (b1 < c)
    <3>1. BYTE * c <= BYTE * b1
      BY <1>1, <2>1, <2>6, MultipleMonotone
    <3> QED BY <1>1, <2>2, <2>3, <2>4, <2>6, <3>1 DEF h, c
  <2> QED BY <2>5, <2>6
<1>10. U32(S16(h)) = IF b1 < BYTE \div 2 THEN h ELSE WORD + (h - HALF)
  <2>1. CASE b1 < BYTE \div 2
    <3>1. h \in Word /\ S16(h) = h
      BY <1>1, <1>9, <2>1 DEF S16, Word
    <3> QED BY <2>1, <3>1, U32Same
  <2>2. CASE ~ (b1 < BYTE \div 2)
    <3>1. S16(h) = h - HALF /\ -WORD <= h - HALF /\ h - HALF < 0 /\ h - HALF \in Int
      BY <1>1, <1>9, <2>2 DEF S16
    <3>2. U32(h - HALF) = (h - HALF) + WORD
      BY <3>1, U32Near
    <3> QED BY <1>1, <2>2, <3>1, <3>2
  <2> QED BY <2>1, <2>2
<1>11. /\ Lane(U32(S8(b0)), k) = IF k = 0 THEN b0 ELSE Sign(b0)
       /\ Lane(U32(S16(h)), k) = IF k = 0 THEN b0 ELSE IF k = 1 THEN b1 ELSE Sign(b1)
  <2>1. Sign(b0) = (IF b0 < BYTE \div 2 THEN 0 ELSE top) /\ Sign(b1) = (IF b1 < BYTE \div 2 THEN 0 ELSE top)
    BY DEF Sign, top
  <2> QED BY <1>6, <1>7, <1>8, <1>10, <2>1
<1> QED BY <1>6, <1>11 DEF h

(* The address of a load or a store, and of the aligned word around it.    *)
LEMMA Addresses ==
  ASSUME Inv
  PROVE  mem_addr \in Word /\ Aligned(Instruction, mem_addr) \in Word
<1>1. reg[Instruction.rs] \in Int /\ S16(Instruction.imm) \in Int
  BY OperandTypes, SignedTypes DEF Word, Rs
<1>2. mem_addr \in Word
  BY <1>1, U32Type DEF mem_addr
<1> DEFINE a == mem_addr
<1>3. a \in Nat /\ a < WORD /\ a % 4 \in 0..3 /\ a % 4 <= a /\ WORD \in Nat
  BY <1>2, Widths DEF Word
<1>4. a - (a % 4) \in Word
  BY <1>3 DEF Word
<1> QED BY <1>2, <1>4 DEF Aligned

(* The bytes that the four unaligned accesses leave in what they write.    *)
LEMMA UnalignedLanes ==
  ASSUME NEW r \in Word, NEW w \in Word, NEW a \in Word, NEW k \in 0..3,
         NEW j, j = a % 4
  PROVE  /\ Lane(LeftLoad(r, w, a), k) = IF k < 3 - j THEN Lane(r, k) ELSE Lane(w, k - (3 - j))
         /\ Lane(RightLoad(r, w, a), k) = IF k < 4 - j THEN Lane(w, k + j) ELSE Lane(r, k)
         /\ Lane(LeftStore(r, w, a), k)
              = IF k < 4 - (3 - j) THEN Lane(r, k + (3 - j)) ELSE Lane(w, k)
         /\ Lane(RightStore(r, w, a), k) = IF k < j THEN Lane(w, k) ELSE Lane(r, k - j)
<1>1. j \in 0..3 /\ 3 - j \in 0..3
  BY DEF Word
<1>2. /\ LeftLoad(r, w, a) = Or(Shl(w, BITS * (3 - j)), And(r, 2 ^ (BITS * (3 - j)) - 1))
      /\ RightLoad(r, w, a) = Or(Shr(w, BITS * j), And(r, Not(Shr(WORD - 1, BITS * j))))
      /\ LeftStore(r, w, a) = Or(Shr(r, BITS * (3 - j)), And(w, Not(Shr(WORD - 1, BITS * (3 - j)))))
      /\ RightStore(r, w, a) = Or(Shl(r, BITS * j), And(w, 2 ^ (BITS * j) - 1))
  BY DEF LeftLoad, RightLoad, LeftStore, RightStore, LeftShift, RightShift
<1>3. Lane(LeftLoad(r, w, a), k) = IF k < 3 - j THEN Lane(r, k) ELSE Lane(w, k - (3 - j))
  BY <1>1, <1>2, MergeLow
<1>4. Lane(RightLoad(r, w, a), k) = IF k < 4 - j THEN Lane(w, k + j) ELSE Lane(r, k)
  BY <1>1, <1>2, MergeHigh
<1>5. Lane(LeftStore(r, w, a), k) = IF k < 4 - (3 - j) THEN Lane(r, k + (3 - j)) ELSE Lane(w, k)
  BY <1>1, <1>2, MergeHigh
<1>6. Lane(RightStore(r, w, a), k) = IF k < j THEN Lane(w, k) ELSE Lane(r, k - j)
  BY <1>1, <1>2, MergeLow
<1> QED BY <1>3, <1>4, <1>5, <1>6

(* Where the bytes of an aligned word are that an unaligned access names.  *)
LEMMA UnalignedPlaces ==
  ASSUME NEW a \in Word
  PROVE  LET j == a % 4
             al == a - (a % 4)
         IN /\ j \in 0..3 /\ al \in Word /\ a \in Int
            /\ \A k \in Int : al + (k - (3 - j)) = a + k - 3 /\ al + (k + j) = a + k
<1>1. a \in Nat /\ a < WORD /\ a % 4 \in 0..3 /\ a % 4 <= a /\ WORD \in Nat
  BY Widths DEF Word
<1> QED BY <1>1 DEF Word

(* What a byte or halfword load leaves in a register.                      *)
LEMMA NarrowLoadBytes ==
  ASSUME Inv, LoadNarrow, Instruction.rt # R0, NEW k \in 0..3
  PROVE  Lane(reg'[Instruction.rt], k)
           = IF k \in Lanes(Instruction.op, mem_addr)
             THEN memory[Place(Instruction.op, mem_addr, k)]
             ELSE Filling(Instruction.op, mem_addr, k)
<1> DEFINE op == Instruction.op
           a == mem_addr
           b0 == memory[a]
           b1 == memory[U32(a + 1)]
           h == b0 + BYTE * b1
           v == reg'[Instruction.rt]
<1>1. /\ op \in NarrowLoadOps
      /\ v = (CASE op = "LB"  -> U32(S8(b0))
                [] op = "LBU" -> b0
                [] op = "LH"  -> U32(S16(h))
                [] op = "LHU" -> h)
  <2>1. op \in NarrowLoadOps
    BY DEF LoadNarrow
  <2>2. Write(Instruction.rt, CASE op = "LB"  -> U32(S8(b0))
                                [] op = "LBU" -> b0
                                [] op = "LH"  -> U32(S16(h))
                                [] op = "LHU" -> h)
    BY DEF LoadNarrow, HalfAt
  <2> HIDE DEF b0, h
  <2> QED BY <2>1, <2>2, WrittenValue, OperandTypes
<1>2. a \in Word /\ b0 \in Byte /\ b1 \in Byte /\ U32(a + 0) = a /\ 0 \in Int
  BY Addresses, OperandTypes, Neighbours
<1>3. /\ Lane(b0, k) = IF k = 0 THEN b0 ELSE 0
      /\ Lane(U32(S8(b0)), k) = IF k = 0 THEN b0 ELSE Sign(b0)
      /\ Lane(h, k) = IF k = 0 THEN b0 ELSE IF k = 1 THEN b1 ELSE 0
      /\ Lane(U32(S16(h)), k) = IF k = 0 THEN b0 ELSE IF k = 1 THEN b1 ELSE Sign(b1)
  <2> HIDE DEF b0, b1
  <2> QED BY <1>2, NarrowLanes
<1>4. k = 0 => memory[U32(a + k)] = b0
  BY <1>2
<1>5. k = 1 => memory[U32(a + k)] = b1
  OBVIOUS
<1>6. Place(op, a, k) = U32(a + k)
  BY <1>1 DEF Place, NarrowLoadOps
<1> HIDE DEF b0, b1, h, v
<1>7. CASE op = "LB"
  <2>1. v = U32(S8(b0)) /\ Lanes(op, a) = {0} /\ Filling(op, a, k) = Sign(b0)
    BY <1>1, <1>7 DEF Lanes, Filling, b0
  <2> QED BY <1>3, <1>4, <1>6, <2>1 DEF v
<1>8. CASE op = "LBU"
  <2>1. v = b0 /\ Lanes(op, a) = {0} /\ Filling(op, a, k) = 0
    BY <1>1, <1>8 DEF Lanes, Filling
  <2> QED BY <1>3, <1>4, <1>6, <2>1 DEF v
<1>9. CASE op = "LH"
  <2>1. v = U32(S16(h)) /\ Lanes(op, a) = 0..1 /\ Filling(op, a, k) = Sign(b1)
    BY <1>1, <1>9 DEF Lanes, Filling, b1
  <2> QED BY <1>3, <1>4, <1>5, <1>6, <2>1 DEF v
<1>10. CASE op = "LHU"
  <2>1. v = h /\ Lanes(op, a) = 0..1 /\ Filling(op, a, k) = 0
    BY <1>1, <1>10 DEF Lanes, Filling
  <2> QED BY <1>3, <1>4, <1>5, <1>6, <2>1 DEF v
<1> QED BY <1>1, <1>7, <1>8, <1>9, <1>10 DEF NarrowLoadOps

(* What a word load leaves there.                                          *)
LEMMA WideLoadBytes ==
  ASSUME Inv, LoadWide, Instruction.rt # R0, Aligned(Instruction, mem_addr) # GPU_INPUT,
         NEW k \in 0..3
  PROVE  Lane(reg'[Instruction.rt], k)
           = IF k \in Lanes(Instruction.op, mem_addr)
             THEN memory[Place(Instruction.op, mem_addr, k)]
             ELSE Filling(Instruction.op, mem_addr, k)
<1> DEFINE op == Instruction.op
           a == mem_addr
           al == Aligned(Instruction, a)
           w == WordAt(memory, al)
           j == a % 4
           v == reg'[Instruction.rt]
<1>1. /\ a \in Word /\ al \in Word /\ memory \in [Word -> Byte] /\ Rt \in Word
      /\ reg \in [Reg -> Word] /\ Instruction.rt \in Reg
  BY Addresses, OperandTypes
<1>2. op \in WordLoadOps /\ v = LoadedValue(Instruction, a, w)
  <2>1. /\ op \in WordLoadOps
        /\ reg' = [[reg EXCEPT ![Instruction.rt] = LoadedValue(Instruction, a, w)] EXCEPT ![R0] = 0]
    BY DEF LoadWide, LoadWord, ClearR0
  <2> QED BY <1>1, <2>1
<1>3. w \in Word /\ \A n \in 0..3 : Lane(w, n) = memory[U32(al + n)]
  BY <1>1, LoadTypes, LoadedLanes
<1>4. /\ j \in 0..3 /\ a \in Int
      /\ \A n \in Int : (a - j) + (n - (3 - j)) = a + n - 3 /\ (a - j) + (n + j) = a + n
  BY <1>1, UnalignedPlaces
<1>5. /\ Lane(LeftLoad(Rt, w, a), k) = IF k < 3 - j THEN Lane(Rt, k) ELSE Lane(w, k - (3 - j))
      /\ Lane(RightLoad(Rt, w, a), k) = IF k < 4 - j THEN Lane(w, k + j) ELSE Lane(Rt, k)
  <2> HIDE DEF w, a, al
  <2>1. w \in Word
    BY <1>3
  <2> HIDE DEF j
  <2> QED BY <1>1, <2>1, UnalignedLanes DEF j
<1> HIDE DEF w, v
<1>6. CASE op = "LW"
  <2>1. v = w /\ al = a /\ Lanes(op, a) = 0..3 /\ Place(op, a, k) = U32(a + k)
    BY <1>2, <1>6 DEF LoadedValue, Aligned, Lanes, Place
  <2> QED BY <1>3, <2>1 DEF v
<1>7. CASE op = "LWL"
  <2>1. /\ v = LeftLoad(Rt, w, a) /\ al = a - j /\ Lanes(op, a) = (3 - j)..3
        /\ Place(op, a, k) = U32(a + k - 3) /\ Filling(op, a, k) = Lane(Rt, k)
    BY <1>2, <1>7 DEF LoadedValue, Aligned, Lanes, Place, Filling, Rt
  <2> HIDE DEF j, a, al
  <2>2. CASE k < 3 - j
    BY <1>4, <1>5, <2>1, <2>2 DEF v, a
  <2>3. CASE ~ (k < 3 - j)
    <3>1. k - (3 - j) \in 0..3 /\ k \in (3 - j)..3 /\ k \in Int
      BY <1>4, <2>3
    <3>2. Lane(w, k - (3 - j)) = memory[U32(al + (k - (3 - j)))]
      BY <1>3, <3>1
    <3>3. al + (k - (3 - j)) = a + k - 3
      BY <1>4, <2>1, <3>1
    <3> QED BY <1>5, <2>1, <2>3, <3>1, <3>2, <3>3 DEF v, a
  <2> QED BY <2>2, <2>3
<1>8. CASE op = "LWR"
  <2>1. /\ v = RightLoad(Rt, w, a) /\ al = a - j /\ Lanes(op, a) = 0..(3 - j)
        /\ Place(op, a, k) = U32(a + k) /\ Filling(op, a, k) = Lane(Rt, k)
    BY <1>2, <1>8 DEF LoadedValue, Aligned, Lanes, Place, Filling, Rt
  <2> HIDE DEF j, a, al
  <2>2. CASE ~ (k < 4 - j)
    BY <1>4, <1>5, <2>1, <2>2 DEF v, a
  <2>3. CASE k < 4 - j
    <3>1. k + j \in 0..3 /\ k \in 0..(3 - j) /\ k \in Int
      BY <1>4, <2>3
    <3>2. Lane(w, k + j) = memory[U32(al + (k + j))]
      BY <1>3, <3>1
    <3>3. al + (k + j) = a + k
      BY <1>4, <2>1, <3>1
    <3> QED BY <1>5, <2>1, <2>3, <3>1, <3>2, <3>3 DEF v, a
  <2> QED BY <2>2, <2>3
<1> QED BY <1>2, <1>6, <1>7, <1>8 DEF WordLoadOps

(* A stored word changes no other byte, whatever is stored.                *)
LEMMA PutFootprint ==
  ASSUME NEW m \in [Word -> Byte], NEW a \in Word, NEW v, NEW x \in Word,
         PutWord(m, a, v)[x] # m[x]
  PROVE  \E k \in 0..3 : x = U32(a + k)
<1>1. x = a \/ x = U32(a + 1) \/ x = U32(a + 2) \/ x = U32(a + 3)
  BY DEF PutWord
<1>2. U32(a + 0) = a /\ 0 \in 0..3 /\ 1 \in 0..3 /\ 2 \in 0..3 /\ 3 \in 0..3
  BY Neighbours
<1> QED BY <1>1, <1>2

(* What a byte or halfword store leaves in memory.                         *)
LEMMA NarrowStoreBytes ==
  ASSUME Inv, StoreNarrow
  PROVE  /\ \A k \in Lanes(Instruction.op, mem_addr) :
              memory'[Place(Instruction.op, mem_addr, k)] = Lane(Rt, k)
         /\ \A x \in Word : memory'[x] # memory[x] =>
              \E k \in Lanes(Instruction.op, mem_addr) : x = Place(Instruction.op, mem_addr, k)
<1> DEFINE op == Instruction.op
           a == mem_addr
           a1 == U32(a + 1)
<1>1. /\ a \in Word /\ memory \in [Word -> Byte] /\ Rt \in Word
      /\ a1 \in Word /\ a1 # a /\ U32(a + 0) = a
  BY Addresses, OperandTypes, Neighbours
<1>2. Lane(Rt, 0) = Rt % BYTE /\ Lane(Rt, 1) = (Rt \div BYTE) % BYTE
  <2>1. Rt \div 1 = Rt
    BY <1>1 DEF Word
  <2> QED BY <2>1, BytePowers DEF Lane
<1>3. op \in NarrowStoreOps
  BY DEF StoreNarrow
<1>4. \A k \in 0..1 : Place(op, a, k) = U32(a + k)
  BY <1>3 DEF Place, NarrowStoreOps
<1>5. CASE op = "SB"
  <2>1. memory' = [memory EXCEPT ![a] = Lane(Rt, 0)] /\ Lanes(op, a) = {0}
    BY <1>2, <1>5 DEF StoreNarrow, PutByte, Lanes, Rt
  <2>2. Place(op, a, 0) = a
    BY <1>1, <1>4
  <2> HIDE DEF op, a
  <2> QED BY <1>1, <2>1, <2>2 DEF op, a
<1>6. CASE op = "SH"
  <2>1. memory' = [memory EXCEPT ![a] = Lane(Rt, 0), ![a1] = Lane(Rt, 1)] /\ Lanes(op, a) = 0..1
    BY <1>2, <1>6 DEF StoreNarrow, PutHalf, Lanes, Rt
  <2>2. Place(op, a, 0) = a /\ Place(op, a, 1) = a1 /\ 0 \in 0..1 /\ 1 \in 0..1
    BY <1>1, <1>4
  <2> HIDE DEF op, a, a1
  <2>3. memory'[a] = Lane(Rt, 0) /\ memory'[a1] = Lane(Rt, 1)
    BY <1>1, <2>1
  <2>4. \A k \in 0..1 : k = 0 \/ k = 1
    OBVIOUS
  <2>5. \A k \in Lanes(op, a) : memory'[Place(op, a, k)] = Lane(Rt, k)
    BY <2>1, <2>2, <2>3, <2>4
  <2>6. \A x \in Word : memory'[x] # memory[x] => x = a \/ x = a1
    BY <1>1, <2>1
  <2>7. \A x \in Word : memory'[x] # memory[x] => \E k \in Lanes(op, a) : x = Place(op, a, k)
    BY <2>1, <2>2, <2>6
  <2> QED BY <2>5, <2>7 DEF op, a
<1> QED BY <1>3, <1>5, <1>6 DEF NarrowStoreOps

(* What a word store leaves there.                                         *)
LEMMA WideStoreBytes ==
  ASSUME Inv, StoreWide, Aligned(Instruction, mem_addr) # GPU_FLUSH
  PROVE  /\ \A k \in Lanes(Instruction.op, mem_addr) :
              memory'[Place(Instruction.op, mem_addr, k)] = Lane(Rt, k)
         /\ Instruction.op = "SW" \/ Aligned(Instruction, mem_addr) # GPU_INPUT =>
              \A x \in Word : memory'[x] # memory[x] =>
                \E k \in Lanes(Instruction.op, mem_addr) : x = Place(Instruction.op, mem_addr, k)
         /\ \A x \in Word : memory'[x] # memory[x] =>
              \E k \in 0..3 : x = U32(Aligned(Instruction, mem_addr) + k)
<1> DEFINE op == Instruction.op
           a == mem_addr
           al == Aligned(Instruction, a)
           w == LoadWord(memory, last_key, al)
           j == a % 4
           v == StoredValue(Instruction, a, w)
<1>1. /\ a \in Word /\ al \in Word /\ memory \in [Word -> Byte] /\ Rt \in Word
      /\ Instruction.rt \in Reg /\ last_key \in Byte
  BY Addresses, OperandTypes DEF Inv, IntegerOK
<1>2. op \in WordStoreOps /\ memory' = PutWord(memory, al, v)
  BY DEF StoreWide, StoreWord
<1>3. w \in Word
  BY <1>1, LoadTypes, Widths DEF LoadWord
<1>4. /\ j \in 0..3 /\ a \in Int
      /\ \A n \in Int : (a - j) + (n - (3 - j)) = a + n - 3 /\ (a - j) + (n + j) = a + n
  BY <1>1, UnalignedPlaces
<1>5. al # GPU_INPUT => \A n \in 0..3 : Lane(w, n) = memory[U32(al + n)]
  BY <1>1, LoadedLanes DEF LoadWord
<1>6. v \in Word
  <2> HIDE DEF w, a, al
  <2>1. /\ op = "SW" => v = Rt
        /\ op = "SWL" => v = LeftStore(Rt, w, a)
        /\ op = "SWR" => v = RightStore(Rt, w, a)
    BY DEF StoredValue, Rt
  <2>2. LeftStore(Rt, w, a) \in Word /\ RightStore(Rt, w, a) \in Word
    BY <1>1, <1>3, UnalignedTypes
  <2> QED BY <1>1, <1>2, <2>1, <2>2 DEF WordStoreOps
<1>7. \A n \in 0..3 :
        /\ Lane(LeftStore(Rt, w, a), n)
             = IF n < 4 - (3 - j) THEN Lane(Rt, n + (3 - j)) ELSE Lane(w, n)
        /\ Lane(RightStore(Rt, w, a), n) = IF n < j THEN Lane(w, n) ELSE Lane(Rt, n - j)
  <2> HIDE DEF w, a, al, j
  <2> QED BY <1>1, <1>3, UnalignedLanes DEF j
<1>8. \A n \in 0..3 : memory'[U32(al + n)] = Lane(v, n)
  <2> HIDE DEF al, v
  <2> QED BY <1>1, <1>2, <1>6, StoredLanes
<1>9. \A x \in Word : memory'[x] # memory[x] => \E n \in 0..3 : x = U32(al + n)
  <2> HIDE DEF al, v
  <2> QED BY <1>1, <1>2, PutFootprint
<1>10. CASE op = "SW"
  <2>1. /\ v = Rt /\ al = a /\ Lanes(op, a) = 0..3
        /\ \A k \in 0..3 : Place(op, a, k) = U32(a + k)
    BY <1>10 DEF StoredValue, Aligned, Lanes, Place, Rt
  <2> HIDE DEF a, al, v, op
  <2>2. /\ \A k \in Lanes(op, a) : memory'[Place(op, a, k)] = Lane(Rt, k)
        /\ \A x \in Word : memory'[x] # memory[x] => \E k \in Lanes(op, a) : x = Place(op, a, k)
    BY <1>8, <1>9, <2>1
  <2> QED BY <1>9, <2>2 DEF a, al, op
<1>11. CASE op = "SWL"
  <2>1. /\ v = LeftStore(Rt, w, a) /\ al = a - j /\ Lanes(op, a) = (3 - j)..3
        /\ \A k \in 0..3 : Place(op, a, k) = U32(a + k - 3)
    BY <1>11 DEF StoredValue, Aligned, Lanes, Place, Rt
  <2> HIDE DEF a, al, v, w, j, op
  <2>2. ASSUME NEW n \in 0..3, n < 4 - (3 - j)
        PROVE  LET k == n + (3 - j) IN
               k \in (3 - j)..3 /\ Place(op, a, k) = U32(al + n) /\ Lane(v, n) = Lane(Rt, k)
    <3> DEFINE k == n + (3 - j)
    <3>1. k \in (3 - j)..3 /\ k \in 0..3 /\ k \in Int /\ k - (3 - j) = n
      BY <1>4, <2>2
    <3>2. al + n = a + k - 3
      BY <1>4, <2>1, <3>1
    <3>3. Place(op, a, k) = U32(al + n)
      BY <2>1, <3>1, <3>2
    <3> QED BY <1>7, <2>1, <2>2, <3>1, <3>3
  <2>3. ASSUME NEW k \in Lanes(op, a) PROVE memory'[Place(op, a, k)] = Lane(Rt, k)
    <3> DEFINE n == k - (3 - j)
    <3>1. n \in 0..3 /\ n < 4 - (3 - j) /\ n + (3 - j) = k
      BY <1>4, <2>1
    <3> HIDE DEF n
    <3>2. Place(op, a, k) = U32(al + n) /\ Lane(v, n) = Lane(Rt, k)
      BY <2>2, <3>1
    <3> QED BY <1>8, <3>1, <3>2
  <2>4. ASSUME al # GPU_INPUT, NEW x \in Word, memory'[x] # memory[x]
        PROVE  \E k \in Lanes(op, a) : x = Place(op, a, k)
    <3>1. PICK n \in 0..3 : x = U32(al + n)
      BY <1>9, <2>4
    <3>2. Lane(v, n) # Lane(w, n)
      BY <1>5, <1>8, <2>4, <3>1
    <3>3. n < 4 - (3 - j)
      BY <1>7, <2>1, <3>2
    <3> QED BY <2>1, <2>2, <3>1, <3>3
  <2> QED BY <1>9, <1>11, <2>3, <2>4 DEF a, al, op
<1>12. CASE op = "SWR"
  <2>1. /\ v = RightStore(Rt, w, a) /\ al = a - j /\ Lanes(op, a) = 0..(3 - j)
        /\ \A k \in 0..3 : Place(op, a, k) = U32(a + k)
    BY <1>12 DEF StoredValue, Aligned, Lanes, Place, Rt
  <2> HIDE DEF a, al, v, w, j, op
  <2>2. ASSUME NEW n \in 0..3, ~ (n < j)
        PROVE  LET k == n - j IN
               k \in 0..(3 - j) /\ Place(op, a, k) = U32(al + n) /\ Lane(v, n) = Lane(Rt, k)
    <3> DEFINE k == n - j
    <3>1. k \in 0..(3 - j) /\ k \in 0..3 /\ k \in Int /\ k + j = n
      BY <1>4, <2>2
    <3>2. al + n = a + k
      BY <1>4, <2>1, <3>1
    <3>3. Place(op, a, k) = U32(al + n)
      BY <2>1, <3>1, <3>2
    <3> QED BY <1>7, <2>1, <2>2, <3>1, <3>3
  <2>3. ASSUME NEW k \in Lanes(op, a) PROVE memory'[Place(op, a, k)] = Lane(Rt, k)
    <3> DEFINE n == k + j
    <3>1. n \in 0..3 /\ ~ (n < j) /\ n - j = k
      BY <1>4, <2>1
    <3> HIDE DEF n
    <3>2. Place(op, a, k) = U32(al + n) /\ Lane(v, n) = Lane(Rt, k)
      BY <2>2, <3>1
    <3> QED BY <1>8, <3>1, <3>2
  <2>4. ASSUME al # GPU_INPUT, NEW x \in Word, memory'[x] # memory[x]
        PROVE  \E k \in Lanes(op, a) : x = Place(op, a, k)
    <3>1. PICK n \in 0..3 : x = U32(al + n)
      BY <1>9, <2>4
    <3>2. Lane(v, n) # Lane(w, n)
      BY <1>5, <1>8, <2>4, <3>1
    <3>3. ~ (n < j)
      BY <1>7, <2>1, <3>2
    <3> QED BY <2>1, <2>2, <3>1, <3>3
  <2> QED BY <1>9, <1>12, <2>3, <2>4 DEF a, al, op
<1> QED BY <1>2, <1>10, <1>11, <1>12 DEF WordStoreOps

(***************************************************************************)
(* Loads and stores move the bytes they name.                              *)
(***************************************************************************)
THEOREM BytesAreInPlace == Spec => BytesInPlace
<1> DEFINE op == Instruction.op
           a == mem_addr
           Device(ops, register) == op \in ops /\ Aligned(Instruction, a) = register
           Loads ==
             Executes(NarrowLoadOps \cup WordLoadOps) /\ Instruction.rt # R0
               /\ ~ Device(WordLoadOps, GPU_INPUT) =>
               \A k \in 0..3 :
                 Lane(reg'[Instruction.rt], k) =
                   IF k \in Lanes(op, a) THEN memory[Place(op, a, k)] ELSE Filling(op, a, k)
           Stores ==
             Executes(NarrowStoreOps \cup WordStoreOps) /\ ~ Device(WordStoreOps, GPU_FLUSH) =>
               \A k \in Lanes(op, a) : memory'[Place(op, a, k)] = Lane(Rt, k)
<1>1. Inv /\ [Next]_vars => [Loads]_vars
  <2> SUFFICES ASSUME Inv, [Next]_vars, vars' # vars,
                      Executes(NarrowLoadOps \cup WordLoadOps), Instruction.rt # R0,
                      ~ Device(WordLoadOps, GPU_INPUT), NEW k \in 0..3
               PROVE  Lane(reg'[Instruction.rt], k) =
                        IF k \in Lanes(op, a) THEN memory[Place(op, a, k)]
                                              ELSE Filling(op, a, k)
    OBVIOUS
  <2>1. LoadNarrow \/ (LoadWide /\ Aligned(Instruction, a) # GPU_INPUT)
    <3>1. op \in NarrowLoadOps => LoadNarrow
      BY Dispatch DEF Executes, Specified
    <3>2. op \in WordLoadOps => LoadWide
      BY Dispatch DEF Executes, Specified
    <3>3. op \in NarrowLoadOps \/ (op \in WordLoadOps /\ Aligned(Instruction, a) # GPU_INPUT)
      BY DEF Executes
    <3> QED BY <3>1, <3>2, <3>3
  <2> QED BY <2>1, NarrowLoadBytes, WideLoadBytes
<1>2. Inv /\ [Next]_vars => [Stores]_vars
  <2> SUFFICES ASSUME Inv, [Next]_vars, vars' # vars,
                      Executes(NarrowStoreOps \cup WordStoreOps),
                      ~ Device(WordStoreOps, GPU_FLUSH)
               PROVE  \A k \in Lanes(op, a) : memory'[Place(op, a, k)] = Lane(Rt, k)
    OBVIOUS
  <2>1. StoreNarrow \/ (StoreWide /\ Aligned(Instruction, a) # GPU_FLUSH)
    <3>1. op \in NarrowStoreOps => StoreNarrow
      BY Dispatch DEF Executes, Specified
    <3>2. op \in WordStoreOps => StoreWide
      BY Dispatch DEF Executes, Specified
    <3>3. op \in NarrowStoreOps \/ (op \in WordStoreOps /\ Aligned(Instruction, a) # GPU_FLUSH)
      BY DEF Executes
    <3> QED BY <3>1, <3>2, <3>3
  <2> QED BY <2>1, NarrowStoreBytes, WideStoreBytes
<1> QED BY <1>1, <1>2, InvHolds, PTL DEF Spec, BytesInPlace

-----------------------------------------------------------------------------
(* Only stores and services write memory.                                  *)
LEMMA MemoryKept ==
  ASSUME exec_inst, Instruction.op # "SYSCALL"
  PROVE  memory' = memory \/ StoreNarrow \/ StoreWide \/ StoreFpu
<1>1. exec_integer => memory' = memory \/ StoreNarrow \/ StoreWide
  BY DEF exec_integer, Nop, call_syscall, Break, Illegal, exec_alu, exec_alu_immediate,
         AddNoOverflow, AddOverflow, Multiply, DivByZero, Divu, Div, DivOverflow, MoveFrom,
         MoveTo, MoveIf, Branch, JumpRegister, JumpAndLinkRegister, exec_jump, LoadNarrow,
         LoadWide, Write, SetHiLo, Crash
<1>2. exec_cop1 => memory' = memory
  BY DEF exec_cop1, MoveFromFpu, MoveToFpu, BranchFpu, Compare, ComputeSingle,
         ComputeDouble, NoSuchOperation, Write, Output
<1>3. exec_cop1_ldst => memory' = memory \/ StoreFpu
  BY DEF exec_cop1_ldst, LoadFpu
<1> QED BY <1>1, <1>2, <1>3 DEF exec_inst

(* A word store writes its four bytes or, to the device, none.             *)
LEMMA StoreWordFootprint ==
  ASSUME NEW m \in [Word -> Byte], NEW a \in Word, NEW v, NEW x \in Word,
         StoreWord(m, a, v)[x] # m[x]
  PROVE  \E k \in 0..3 : x = U32(a + k)
BY PutFootprint DEF StoreWord

(* The coprocessor's stores write the one or two words they name.          *)
LEMMA FpuStoreBytes ==
  ASSUME Inv, FpuOK, StoreFpu, NEW x \in Word, memory'[x] # memory[x]
  PROVE  x \in Named(Instruction, mem_addr)
<1> DEFINE i == Instruction
           a == mem_addr
           b == U32(a + 4)
           m == StoreWord(memory, a, fpr[i.rt])
<1>1. a \in Word /\ a \in Int /\ b \in Word
  <2>1. a \in Word /\ a \in Int /\ a + 4 \in Int
    BY Addresses DEF Word
  <2> QED BY <2>1, U32Type
<1>2. memory \in [Word -> Byte] /\ m \in [Word -> Byte]
  <2>1. memory \in [Word -> Byte] /\ i.rt \in Reg
    BY OperandTypes
  <2>2. fpr[i.rt] \in Word
    BY <2>1, PairCells DEF FpuOK
  <2> HIDE DEF a
  <2> QED BY <1>1, <2>1, <2>2, StoreTypes DEF StoreWord
<1>3. CASE i.op = "SWC1"
  <2>1. memory' = m
    BY <1>3 DEF StoreFpu
  <2>2. \E k \in 0..3 : x = U32(a + k)
    <3> HIDE DEF a
    <3> QED BY <1>1, <1>2, <2>1, StoreWordFootprint
  <2>3. Named(i, a) = Bytes(a, 4)
    BY <1>3 DEF Named, NarrowStoreOps, WordStoreOps
  <2> QED BY <2>2, <2>3 DEF Bytes
<1>4. CASE i.op = "SDC1"
  <2>1. memory' = StoreWord(m, b, fpr[i.rt + 1])
    BY <1>4 DEF StoreFpu
  <2>2. (\E k \in 0..3 : x = U32(a + k)) \/ (\E k \in 0..3 : x = U32(b + k))
    <3>1. m[x] # memory[x] \/ memory'[x] # m[x]
      OBVIOUS
    <3>2. m[x] # memory[x] => \E k \in 0..3 : x = U32(a + k)
      <4> HIDE DEF a
      <4> QED BY <1>1, <1>2, StoreWordFootprint
    <3>3. memory'[x] # m[x] => \E k \in 0..3 : x = U32(b + k)
      <4> HIDE DEF b, m
      <4> QED BY <1>1, <1>2, <2>1, StoreWordFootprint
    <3> QED BY <3>1, <3>2, <3>3
  <2>3. ASSUME NEW k \in 0..3 PROVE U32(b + k) = U32(a + (k + 4)) /\ k + 4 \in 0..7
    <3> HIDE DEF a
    <3>1. U32(k + U32(a + 4)) = U32(k + (a + 4))
      BY <1>1, U32Sum
    <3>2. k + U32(a + 4) = U32(a + 4) + k /\ k + (a + 4) = a + (k + 4)
      BY <1>1 DEF Word
    <3> QED BY <3>1, <3>2
  <2>4. \E k \in 0..7 : x = U32(a + k)
    <3>1. CASE \E k \in 0..3 : x = U32(a + k)
      BY <3>1
    <3>2. CASE \E k \in 0..3 : x = U32(b + k)
      <4>1. PICK k \in 0..3 : x = U32(b + k)
        BY <3>2
      <4> HIDE DEF a, b
      <4> QED BY <2>3, <4>1
    <3> QED BY <2>2, <3>1, <3>2
  <2>5. Named(i, a) = Bytes(a, 8)
    BY <1>4 DEF Named, NarrowStoreOps, WordStoreOps
  <2> QED BY <2>4, <2>5 DEF Bytes
<1> QED BY <1>3, <1>4 DEF StoreFpu

(***************************************************************************)
(* No instruction writes memory outside the bytes it names.                *)
(***************************************************************************)
THEOREM StoresKeepToTheirBytes == Spec => StoreFootprint
<1> DEFINE op == Instruction.op
           a == mem_addr
           al == Aligned(Instruction, a)
           Footprint == op # "SYSCALL" =>
             \A x \in Word : memory'[x] # memory[x] => x \in Named(Instruction, a)
<1>1. Inv /\ FpuOK /\ [Next]_vars => [Footprint]_vars
  <2> SUFFICES ASSUME Inv, FpuOK, [Next]_vars, vars' # vars, op # "SYSCALL",
                      NEW x \in Word, memory'[x] # memory[x]
               PROVE  x \in Named(Instruction, a)
    OBVIOUS
  <2>1. StoreNarrow \/ StoreWide \/ StoreFpu
    <3>1. exec_inst
      BY DEF Next, Stopped, step_instruction
    <3> QED BY <3>1, MemoryKept
  <2>2. CASE StoreNarrow
    <3>1. op \in NarrowStoreOps
      BY <2>2 DEF StoreNarrow
    <3>2. Named(Instruction, a) = {Place(op, a, k) : k \in Lanes(op, a)}
      BY <3>1 DEF Named, NarrowStoreOps
    <3>3. \E k \in Lanes(op, a) : x = Place(op, a, k)
      BY <2>2, NarrowStoreBytes
    <3> QED BY <3>2, <3>3
  <2>3. CASE StoreWide
    <3>1. op \in WordStoreOps /\ al # GPU_FLUSH
      BY <2>3 DEF StoreWide, StoreWord
    <3>2. CASE op = "SW" \/ al # GPU_INPUT
      <4>1. Named(Instruction, a) = {Place(op, a, k) : k \in Lanes(op, a)}
        BY <3>1, <3>2 DEF Named, WordStoreOps
      <4>2. \E k \in Lanes(op, a) : x = Place(op, a, k)
        BY <2>3, <3>1, <3>2, WideStoreBytes
      <4> QED BY <4>1, <4>2
    <3>3. CASE ~ (op = "SW" \/ al # GPU_INPUT)
      <4>1. Named(Instruction, a) = Bytes(GPU_INPUT, 4)
        <5>1. op \in {"SWL", "SWR"} /\ Aligned(Instruction, a) = GPU_INPUT
          BY <3>1, <3>3 DEF WordStoreOps
        <5> HIDE DEF a
        <5> QED BY <5>1 DEF Named
      <4>2. \E k \in 0..3 : x = U32(al + k)
        BY <2>3, <3>1, WideStoreBytes
      <4> QED BY <3>3, <4>1, <4>2 DEF Bytes
    <3> QED BY <3>2, <3>3
  <2>4. CASE StoreFpu
    BY <2>4, FpuStoreBytes
  <2> QED BY <2>1, <2>2, <2>3, <2>4
<1> QED BY <1>1, InvHolds, PTL DEF Spec, StoreFootprint
=============================================================================
