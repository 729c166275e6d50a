-------------------------------- MODULE Cpu --------------------------------
(***************************************************************************)
(* The interpreter: one action per kind of instruction, each the whole of  *)
(* one call of step_instruction() (cpu.c).  The branches of exec_inst and  *)
(* of the exec_* functions are the guards on Instruction.op; what they     *)
(* compute is in Words.                                                    *)
(***************************************************************************)
EXTENDS Fpu

(* The word 0 is tested before everything else.                            *)
Nop ==
  /\ Instruction.op = "NOP"
  /\ Continue
  /\ UNCHANGED <<reg, hi, lo, memory, last_key>>

exec_alu ==
  LET i == Instruction IN
  /\ i.op \in RegisterOps
  /\ Write(i.rd, AluR(i.op, reg[i.rs], reg[i.rt], i.shamt))

exec_alu_immediate ==
  LET i == Instruction IN
  /\ i.op \in ImmediateOps
  /\ Write(i.rt, AluI(i.op, reg[i.rs], i.imm))

(* add, sub, addi: $k0 tells whether the signed result overflowed; it is   *)
(* written before the destination, which only a representable result       *)
(* reaches.                                                                *)
TrapDest(i) == IF i.op = "ADDI" THEN i.rt ELSE i.rd
TrapResult(i) == Exact(i.op, reg[i.rs], reg[i.rt], i.imm)

AddNoOverflow ==
  LET i == Instruction IN
  /\ i.op \in TrapOps
  /\ FitsInt32(TrapResult(i))
  /\ reg' = ClearR0([reg EXCEPT ![K0] = 0, ![TrapDest(i)] = U32(TrapResult(i))])
  /\ Continue
  /\ UNCHANGED <<hi, lo, memory, last_key>>

AddOverflow ==
  /\ Instruction.op \in TrapOps
  /\ ~ FitsInt32(TrapResult(Instruction))
  /\ Write(K0, 1)

SetHiLo(h, l) ==
  /\ hi' = h
  /\ lo' = l
  /\ reg' = ClearR0(reg)
  /\ Continue
  /\ UNCHANGED <<memory, last_key>>

(* Mutant of Multiply: the halves of the product are swapped.              *)
Multiply_Swapped ==
  LET i == Instruction
      p == Product(i.op, reg[i.rs], reg[i.rt], hi, lo)
  IN /\ i.op \in MultiplyOps
     /\ SetHiLo(U32(p), U32(p \div WORD))

Multiply ==
  LET i == Instruction
      p == Product(i.op, reg[i.rs], reg[i.rt], hi, lo)
  IN /\ i.op \in MultiplyOps
     /\ SetHiLo(U32(p \div WORD), U32(p))

DivByZero ==
  LET i == Instruction IN
  /\ i.op \in {"DIV", "DIVU"}
  /\ reg[i.rt] = 0
  /\ SetHiLo(hi, lo)

Divu ==
  LET i == Instruction IN
  /\ i.op = "DIVU"
  /\ reg[i.rt] # 0
  /\ SetHiLo(reg[i.rs] % reg[i.rt], reg[i.rs] \div reg[i.rt])

Div ==
  LET i == Instruction
      a == S32(reg[i.rs])
      b == S32(reg[i.rt])
  IN /\ i.op = "DIV"
     /\ b # 0
     /\ FitsInt32(Quot(a, b))
     /\ SetHiLo(U32(Rem(a, b)), U32(Quot(a, b)))

(* INT_MIN / -1: the x86 division raises SIGFPE.                           *)
DivOverflow ==
  LET i == Instruction IN
  /\ i.op = "DIV"
  /\ reg[i.rt] # 0
  /\ ~ FitsInt32(Quot(S32(reg[i.rs]), S32(reg[i.rt])))
  /\ Crash

MoveFrom ==
  LET i == Instruction IN
  \/ i.op = "MFHI" /\ Write(i.rd, hi)
  \/ i.op = "MFLO" /\ Write(i.rd, lo)

MoveTo ==
  LET i == Instruction IN
  \/ i.op = "MTHI" /\ SetHiLo(reg[i.rs], lo)
  \/ i.op = "MTLO" /\ SetHiLo(hi, reg[i.rs])

(* movz, movn.                                                             *)
MoveIf ==
  LET i == Instruction IN
  /\ i.op \in {"MOVZ", "MOVN"}
  /\ Write(i.rd, IF (i.op = "MOVZ") = (reg[i.rt] = 0) THEN reg[i.rs] ELSE reg[i.rd])

-----------------------------------------------------------------------------
(* Branches and jumps.                                                     *)
BranchTaken(i) ==
  LET v == S32(reg[i.rs]) IN
  \/ i.op = "BEQ"  /\ reg[i.rs] = reg[i.rt]
  \/ i.op = "BNE"  /\ reg[i.rs] # reg[i.rt]
  \/ i.op = "BGTZ" /\ v > 0
  \/ i.op = "BLEZ" /\ v <= 0
  \/ i.op = "REGIMM" /\ IF i.rt \in {BGEZ, BGEZAL} THEN v >= 0 ELSE v < 0

Links(i) == i.op = "REGIMM" /\ i.rt \in {BLTZAL, BGEZAL}

Branch ==
  LET i == Instruction IN
  /\ i.op \in BranchOps
  /\ reg' = ClearR0(IF Links(i) THEN [reg EXCEPT ![RA] = U32(pc + 8)] ELSE reg)
  /\ Advance(BranchTaken(i), branch_dest)
  /\ UNCHANGED <<hi, lo, memory, last_key>>

JumpRegister ==
  LET i == Instruction IN
  /\ i.op = "JR"
  /\ reg' = ClearR0(reg)
  /\ Advance(TRUE, reg[i.rs])
  /\ UNCHANGED <<hi, lo, memory, last_key>>

(* jalr writes the link register before it reads the target.               *)
JumpAndLinkRegister ==
  LET i == Instruction
      linked == [reg EXCEPT ![i.rd] = U32(pc + 8)]
  IN /\ i.op = "JALR"
     /\ reg' = ClearR0(linked)
     /\ Advance(TRUE, linked[i.rs])
     /\ UNCHANGED <<hi, lo, memory, last_key>>

(* j, jal: the target lies in the region of the jump itself.               *)
jump_target == (pc - (pc % JREGION)) + 4 * Instruction.target

exec_jump ==
  LET i == Instruction IN
  /\ i.op \in {"J", "JAL"}
  /\ reg' = IF i.op = "JAL" THEN [reg EXCEPT ![RA] = U32(pc + 8)] ELSE reg
  /\ Advance(TRUE, jump_target)
  /\ UNCHANGED <<hi, lo, memory, last_key>>

-----------------------------------------------------------------------------
(* Loads and stores.  Bytes and halfwords go straight to memory; words,    *)
(* and the aligned words of the unaligned accesses, ask the device.        *)
LoadNarrow ==
  LET i == Instruction
      a == mem_addr
  IN /\ i.op \in NarrowLoadOps
     /\ Write(i.rt, CASE i.op = "LB"  -> U32(S8(memory[a]))
                      [] i.op = "LBU" -> memory[a]
                      [] i.op = "LH"  -> U32(S16(HalfAt(memory, a)))
                      [] i.op = "LHU" -> HalfAt(memory, a))

Aligned(i, a) == IF i.op \in {"LW", "SW"} THEN a ELSE a - (a % 4)

LoadedValue(i, a, w) ==
  CASE i.op = "LW"  -> w
    [] i.op = "LWL" -> LeftLoad(reg[i.rt], w, a)
    [] i.op = "LWR" -> RightLoad(reg[i.rt], w, a)

LoadWide ==
  LET i == Instruction
      a == mem_addr
      w == LoadWord(memory, last_key, Aligned(i, a))
  IN /\ i.op \in WordLoadOps
     /\ reg' = ClearR0([reg EXCEPT ![i.rt] = LoadedValue(i, a, w)])
     /\ last_key' = KeyAfterLoad(last_key, Aligned(i, a))
     /\ Continue
     /\ UNCHANGED <<hi, lo, memory>>

StoreNarrow ==
  LET i == Instruction
      a == mem_addr
  IN /\ i.op \in NarrowStoreOps
     /\ memory' = IF i.op = "SB" THEN PutByte(memory, a, reg[i.rt])
                                 ELSE PutHalf(memory, a, reg[i.rt])
     /\ reg' = ClearR0(reg)
     /\ Continue
     /\ UNCHANGED <<hi, lo, last_key>>

(* swl and swr load the word they merge into, key included.                *)
StoredValue(i, a, w) ==
  CASE i.op = "SW"  -> reg[i.rt]
    [] i.op = "SWL" -> LeftStore(reg[i.rt], w, a)
    [] i.op = "SWR" -> RightStore(reg[i.rt], w, a)

StoreWide ==
  LET i == Instruction
      a == mem_addr
      al == Aligned(i, a)
      w == LoadWord(memory, last_key, al)
      key == IF i.op = "SW" THEN last_key ELSE KeyAfterLoad(last_key, al)
  IN /\ i.op \in WordStoreOps
     /\ memory' = StoreWord(memory, al, StoredValue(i, a, w))
     /\ last_key' \in KeysAfterStore(key, al)
     /\ reg' = ClearR0(reg)
     /\ Continue
     /\ UNCHANGED <<hi, lo>>

-----------------------------------------------------------------------------
Break ==
  /\ Instruction.op = "BREAK"
  /\ reg' = [reg EXCEPT ![K0] = 1]
  /\ Halt("stop")
  /\ UNCHANGED <<hi, lo, memory, last_key>>

(* The default cases of the dispatch.                                      *)
Illegal ==
  /\ Instruction.op = "ILLEGAL"
  /\ Halt("error")
  /\ UNCHANGED <<reg, hi, lo, memory, last_key>>

(* The instructions that do not know of the coprocessor.                   *)
exec_integer ==
  \/ Nop \/ call_syscall \/ Break \/ Illegal
  \/ exec_alu \/ exec_alu_immediate \/ AddNoOverflow \/ AddOverflow
  \/ Multiply \/ DivByZero \/ Divu \/ Div \/ DivOverflow
  \/ MoveFrom \/ MoveTo \/ MoveIf
  \/ Branch \/ JumpRegister \/ JumpAndLinkRegister \/ exec_jump
  \/ LoadNarrow \/ LoadWide \/ StoreNarrow \/ StoreWide

exec_inst ==
  \/ exec_integer /\ UNCHANGED fpr
  \/ exec_cop1
  \/ exec_cop1_ldst

step_instruction == status = "run" /\ exec_inst

(* The machine has stopped.  This step keeps a stopped machine from being  *)
(* a deadlock, so that a deadlock is an instruction no action executes.    *)
Stopped == status # "run" /\ UNCHANGED vars

Next == step_instruction \/ Stopped

Spec == Init /\ [][Next]_vars

-----------------------------------------------------------------------------
(* Every register, memory cell and pc holds a value of its C type, and the *)
(* link, trap and result values the instructions write fit in it.          *)
TypeOK ==
  /\ reg \in [Reg -> Word]
  /\ hi \in Word /\ lo \in Word
  /\ fpr \in [FpReg -> Word]
  /\ memory \in [Word -> Byte]
  /\ pc \in Word
  /\ branch_pending \in BOOLEAN
  /\ branch_target \in Word
  /\ last_key \in Byte
  /\ status \in {"run", "stop", "error", "crash"}

(* Register $0 reads as 0 between any two instructions, whatever they      *)
(* write: jumps, syscalls and break return without the final clearing of   *)
(* reg[R0] that the other groups end with.                                 *)
ZeroRegister == reg[R0] = 0

(* The state of the pipeline as the architecture sees it.                  *)
npc == IF branch_pending THEN branch_target ELSE U32(pc + 4)
control == Instruction.op \in BranchOps \cup JumpOps \cup {"BC1"}
After(a) == U32(a + 4)

Pipeline == INSTANCE DelaySlot WITH Address <- Word, running <- status = "run"

(* A taken branch takes effect after exactly one more instruction, also    *)
(* when that one is itself a branch, a call or a stop; only branches and   *)
(* jumps transfer control; a stop leaves pc on its instruction and forgets *)
(* the branch (step_instruction).                                          *)
DelaySlotSpec == Pipeline!Spec

-----------------------------------------------------------------------------
Serving == status = "run" /\ Instruction.op = "SYSCALL"

(* A service writes no register but $v0 and no memory but the buffer that  *)
(* the program passed, the bytes of $a0 .. $a0 + $a1 - 1 for read_string   *)
(* and $a1 .. $a1 + $a2 - 1 for read.                                      *)
ServiceFootprint ==
  [][Serving =>
       /\ \A r \in Reg \ {V0} : reg'[r] = reg[r]
       /\ \A a \in Word : memory'[a] # memory[a] =>
            \/ reg[V0] = 8 /\ a \in reg[A0]..(reg[A0] + reg[A1] - 1)
            \/ reg[V0] = 14 /\ a \in reg[A1]..(reg[A1] + reg[A2] - 1)]_vars

(* A string that read_string stores hides what the buffer held before: no  *)
(* byte of an earlier, longer input follows its terminator.                *)
NoStaleTail ==
  [][Serving /\ reg[V0] = 8 /\ memory' # memory =>
       \A j, k \in reg[A0]..(reg[A0] + reg[A1] - 1) :
         j < k /\ k < WORD /\ memory'[j] = 0 => memory'[k] = 0]_vars

(* A read stores no more than it reports: what follows the number of bytes *)
(* in $v0 is untouched, and a read that returns -1 has stored nothing      *)
(* (_read).                                                                *)
ReadReportsLength ==
  [][Serving /\ reg[V0] = 14 =>
       \A a \in Word : memory'[a] # memory[a] =>
         reg'[V0] # U32(-1) /\ a < reg[A1] + reg'[V0]]_vars
=============================================================================
