------------------------------ MODULE Machine ------------------------------
(***************************************************************************)
(* The emulated machine: the registers and memory of struct global, the    *)
(* branch-delay pipeline of cpu.c, the memory accessors of functions.c and *)
(* the memory-mapped device of device.c.  Cpu and Syscalls say what one    *)
(* instruction does with them.                                             *)
(***************************************************************************)
EXTENDS Words, Sequences

CONSTANTS
  Decode,      \* the instruction that each word encodes
  Programs,    \* the contents memory may have once a file is loaded
  Entries,     \* the first pc: 0 for a flat binary, e_entry for an ELF
  JREGION,     \* bytes reached by the target of j and jal: 2^28
  GPU_FLUSH,   \* device register: a word store presents a frame
  GPU_INPUT,   \* device register: a word load pops the pressed key
  Keys         \* keys a flush may collect; {} in a build without SDL

NB_REG == 32
Reg == 0..(NB_REG - 1)
R0 == 0
V0 == 2
A0 == 4
A1 == 5
A2 == 6
K0 == 26
SP == 29
RA == 31

(* Selectors in field rt of the REGIMM branches.                           *)
BGEZ == 1
BLTZAL == 16
BGEZAL == 17

RegisterOps == {"ADDU", "SUBU", "AND", "OR", "XOR", "NOR", "SLT", "SLTU",
                "SLL", "SRL", "SRA", "SLLV", "SRLV", "SRAV", "MUL", "CLZ", "CLO"}
ImmediateOps == {"ADDIU", "ANDI", "ORI", "XORI", "SLTI", "SLTIU", "LUI"}
TrapOps == {"ADD", "SUB", "ADDI"}
MultiplyOps == {"MULT", "MULTU", "MADD", "MADDU", "MSUB", "MSUBU"}
BranchOps == {"BEQ", "BNE", "BGTZ", "BLEZ", "REGIMM"}
JumpOps == {"J", "JAL", "JR", "JALR"}
NarrowLoadOps == {"LB", "LBU", "LH", "LHU"}
WordLoadOps == {"LW", "LWL", "LWR"}
NarrowStoreOps == {"SB", "SH"}
WordStoreOps == {"SW", "SWL", "SWR"}
FpArithmeticOps == {"FADD", "FSUB", "FMUL", "FDIV", "FSQRT", "FABS", "FMOV", "FNEG"}
FpCompareOps == {"C_EQ", "C_LT", "C_LE"}
ConvertOps == {"CVT_S", "CVT_D", "CVT_W"}
FpuOps == FpArithmeticOps \cup FpCompareOps \cup ConvertOps
            \cup {"MFC1", "MTC1", "BC1", "LWC1", "LDC1", "SWC1", "SDC1"}
Ops == RegisterOps \cup ImmediateOps \cup TrapOps \cup MultiplyOps \cup BranchOps
         \cup JumpOps \cup NarrowLoadOps \cup WordLoadOps \cup NarrowStoreOps
         \cup WordStoreOps \cup FpuOps
         \cup {"NOP", "DIV", "DIVU", "MFHI", "MFLO", "MTHI", "MTLO", "MOVZ",
               "MOVN", "SYSCALL", "BREAK", "ILLEGAL"}

(* The floating-point registers, and behind them fp_cond: the two are      *)
(* neighbours in struct global.                                            *)
FP_COND == NB_REG
FpReg == 0..FP_COND

(* An instruction word by its fields.  fd is the field shamt where it      *)
(* names a floating-point register.                                        *)
Instr == [op : Ops, rs : Reg, rt : Reg, rd : Reg, shamt : 0..(WBITS - 1), fd : Reg,
          imm : Half, target : 0..((JREGION \div 4) - 1)]

ASSUME MachineAssumption ==
  /\ Decode \in [Word -> Instr]
  /\ Decode[0].op = "NOP"
  /\ Programs \subseteq [Word -> Byte]
  /\ Entries \subseteq Word
  /\ JREGION \in Nat \ {0} /\ WORD % JREGION = 0 /\ JREGION % 4 = 0
  /\ GPU_FLUSH \in Word
  /\ GPU_INPUT \in Word
  /\ Keys \subseteq Byte

VARIABLES
  reg,            \* glob->reg
  hi, lo,         \* glob->hi, glob->lo
  fpr,            \* glob->fpr and glob->fp_cond
  memory,         \* glob->memory
  pc,             \* glob->pc
  branch_pending, \* the previous instruction scheduled a branch ...
  branch_target,  \* ... to this address
  last_key,       \* the key the device has not reported yet
  status          \* "run"; "stop", "error": execute() returned 0, 1;
                  \* "crash": a signal killed the emulator

vars == <<reg, hi, lo, fpr, memory, pc, branch_pending, branch_target, last_key, status>>

(* init_global: registers cleared, the stack pointer at the last word of   *)
(* memory, the program loaded.                                             *)
Init ==
  /\ reg = [r \in Reg |-> IF r = SP THEN U32(WORD - 4) ELSE 0]
  /\ hi = 0
  /\ lo = 0
  /\ fpr = [r \in FpReg |-> 0]
  /\ memory \in Programs
  /\ pc \in Entries
  /\ branch_pending = FALSE
  /\ branch_target = 0
  /\ last_key = 0
  /\ status = "run"

(* The instruction step_instruction() fetches: pc / 4 drops the low bits.  *)
Instruction == Decode[WordAt(memory, pc - (pc % 4))]

(* Mutant of branch_dest: the sum is not truncated to 32 bits.             *)
branch_dest_Unwrapped == pc + 4 + 4 * S16(Instruction.imm)

(* Target of a taken branch: relative to the delay slot.                   *)
branch_dest == U32(pc + 4 + 4 * S16(Instruction.imm))

(* Effective address of a load or a store.                                 *)
mem_addr == U32(reg[Instruction.rs] + S16(Instruction.imm))

-----------------------------------------------------------------------------
(* Mutant of Advance: branch_pending is not reset before the instruction.  *)
Advance_NoReset(taken, target) ==
  /\ pc' = IF branch_pending THEN branch_target ELSE U32(pc + 4)
  /\ branch_pending' = (branch_pending \/ taken)
  /\ branch_target' = IF taken THEN target ELSE branch_target
  /\ UNCHANGED status

(* The end of step_instruction() for an instruction that returned 0: the   *)
(* branch of the previous instruction, if any, takes effect now; taken     *)
(* says whether this instruction called schedule_branch(target).           *)
Advance(taken, target) ==
  /\ pc' = IF branch_pending THEN branch_target ELSE U32(pc + 4)
  /\ branch_pending' = taken
  /\ branch_target' = IF taken THEN target ELSE branch_target
  /\ UNCHANGED status

Continue == Advance(FALSE, 0)

(* ... and for one that returned 1 or 2, or never returned: pc stays and   *)
(* the pending branch is dropped.                                          *)
Halt(s) ==
  /\ status' = s
  /\ branch_pending' = FALSE
  /\ UNCHANGED <<pc, branch_target>>

(* Mutant of ClearR0: the statement is missing.                            *)
ClearR0_Missing(f) == f

(* The statement that ends exec_register, exec_immediate, exec_special2.   *)
ClearR0(f) == [f EXCEPT ![R0] = 0]

(* An instruction of those groups that only writes register r.             *)
Write(r, v) ==
  /\ reg' = ClearR0([reg EXCEPT ![r] = v])
  /\ Continue
  /\ UNCHANGED <<hi, lo, memory, last_key>>

-----------------------------------------------------------------------------
(* Mutant of LoadWord: the device is not asked.                            *)
LoadWord_NoDevice(m, key, a) == WordAt(m, a)

(* load_word and store_word, which ask the device first.  KeyAfterLoad and *)
(* KeysAfterStore are what the access leaves in last_key: a load of        *)
(* GPU_INPUT takes the key, a flush keeps it or replaces it by the last    *)
(* key event that pump_events found.                                       *)
LoadWord(m, key, a) == IF a = GPU_INPUT THEN key ELSE WordAt(m, a)
KeyAfterLoad(key, a) == IF a = GPU_INPUT THEN 0 ELSE key

StoreWord(m, a, v) == IF a = GPU_FLUSH THEN m ELSE PutWord(m, a, v)
KeysAfterStore(key, a) == IF a = GPU_FLUSH THEN {key} \cup Keys ELSE {key}
=============================================================================
