-------------------------------- MODULE Jit --------------------------------
(***************************************************************************)
(* The JIT (jit.c): execute_jit() runs the interpreter of Cpu, but for     *)
(* runs of simple arithmetic instructions, which it compiles to x86-64     *)
(* code once and keeps in a direct-mapped cache.  A native block executes  *)
(* here one guest instruction at a time, so that its steps can be compared *)
(* with the interpreter's; glob->pc only moves when it returns.            *)
(***************************************************************************)
EXTENDS Cpu

CONSTANTS
  CACHE_SIZE,  \* entries of the block cache: 2^16
  MAX_BLOCK,   \* instructions in a block: 1024
  RESERVE,     \* bytes compile_block wants free before it starts: 8192
  CODE_CAP     \* bytes of the code buffer: 2^24

ASSUME JitAssumption ==
  /\ CACHE_SIZE \in Nat \ {0}
  /\ MAX_BLOCK \in Nat \ {0}
  /\ RESERVE \in Nat
  /\ CODE_CAP \in Nat

VARIABLES
  mode,        \* "dispatch", "compile" (in compile_block) or "native" (in fn)
  code_buf,    \* the code buffer could be mapped
  code_off,    \* bytes of it in use
  cur,         \* the emit cursor, an offset in it
  cache,       \* block cache; fn stands for the native code it points to,
               \* by the instructions it was compiled from
  block,       \* the block being compiled or run: its first pc, its code
  at           \* the instruction of a running block to execute next

jitVars == <<mode, code_buf, code_off, cur, cache, block, at>>
allVars == <<vars, jitVars>>

-----------------------------------------------------------------------------
(* The x86-64 emitter.  Each function that emits an instruction is given   *)
(* by what that instruction does to the native state x: the scratch        *)
(* registers, the flags that cmp and test set, the guest state at r15, and *)
(* n, the bytes emitted so far.                                            *)
X86(r, h, l) ==
  [eax |-> 0, ecx |-> 0, edx |-> 0, less |-> FALSE, below |-> FALSE, zero |-> FALSE,
   reg |-> r, hi |-> h, lo |-> l, n |-> 0]

ld(x, x86reg, m) == [x EXCEPT ![x86reg] = x.reg[m], !.n = @ + 4]

st(x, m) == IF m = 0 THEN x ELSE [x EXCEPT !.reg[m] = x.eax, !.n = @ + 4]
ld_off(x, field) == [x EXCEPT !.eax = x[field], !.n = @ + 7]
st_off(x, field) == [x EXCEPT ![field] = x.eax, !.n = @ + 7]

(* An operation of opcode on eax and v, of the given number of bytes.      *)
Operate(x, opcode, v, bytes) ==
  [x EXCEPT !.eax = CASE opcode = "add" -> U32(x.eax + v)
                      [] opcode = "sub" -> U32(x.eax - v)
                      [] opcode = "and" -> And(x.eax, v)
                      [] opcode = "or"  -> Or(x.eax, v)
                      [] opcode = "xor" -> Xor(x.eax, v)
                      [] opcode = "cmp" -> x.eax,
            !.less = S32(x.eax) < S32(v),
            !.below = x.eax < v,
            !.n = @ + bytes]

alu_rr(x, opcode, m) == Operate(x, opcode, x.reg[m], 4)
alu_imm(x, opcode, v) == Operate(x, opcode, v, 5)
not_eax(x) == [x EXCEPT !.eax = Not(x.eax), !.n = @ + 2]
set_flag(x, flag) == [x EXCEPT !.eax = Flag(x[flag]), !.n = @ + 6]

(* The processor takes the shift count modulo the width of the operand.    *)
shift(x, opcode, count, bytes) ==
  LET s == count % WBITS IN
  [x EXCEPT !.eax = CASE opcode = "shl" -> Shl(x.eax, s)
                      [] opcode = "shr" -> Shr(x.eax, s)
                      [] opcode = "sar" -> Sar(x.eax, s),
            !.n = @ + bytes]

test_ecx(x) == [x EXCEPT !.zero = (x.ecx = 0), !.n = @ + 2]

(* Mutant of cmov: cmove and cmovne exchanged.                             *)
cmov_Swapped(x, ifZero) == [x EXCEPT !.eax = IF x.zero # ifZero THEN x.edx ELSE @, !.n = @ + 3]

cmov(x, ifZero) == [x EXCEPT !.eax = IF x.zero = ifZero THEN x.edx ELSE @, !.n = @ + 3]
mov_imm(x, m, v) == IF m = 0 THEN x ELSE [x EXCEPT !.reg[m] = v, !.n = @ + 8]

InlineOps == {"NOP", "ADDU", "SUBU", "AND", "OR", "XOR", "NOR", "SLT", "SLTU",
              "SLL", "SRL", "SRA", "SLLV", "SRLV", "SRAV",
              "MFHI", "MFLO", "MTHI", "MTLO", "MOVZ", "MOVN"} \cup ImmediateOps

(* The native code of instruction i, run in state x.  The word 0 is        *)
(* compiled as the shift sll $0, $0, 0.                                    *)
jit_emit(i, x) ==
  CASE i.op = "ADDU" -> st(alu_rr(ld(x, "eax", i.rs), "add", i.rt), i.rd)
    [] i.op = "SUBU" -> st(alu_rr(ld(x, "eax", i.rs), "sub", i.rt), i.rd)
    [] i.op = "AND"  -> st(alu_rr(ld(x, "eax", i.rs), "and", i.rt), i.rd)
    [] i.op = "OR"   -> st(alu_rr(ld(x, "eax", i.rs), "or", i.rt), i.rd)
    [] i.op = "XOR"  -> st(alu_rr(ld(x, "eax", i.rs), "xor", i.rt), i.rd)
    [] i.op = "NOR"  -> st(not_eax(alu_rr(ld(x, "eax", i.rs), "or", i.rt)), i.rd)
    [] i.op = "SLT"  -> st(set_flag(alu_rr(ld(x, "eax", i.rs), "cmp", i.rt), "less"), i.rd)
    [] i.op = "SLTU" -> st(set_flag(alu_rr(ld(x, "eax", i.rs), "cmp", i.rt), "below"), i.rd)
    [] i.op = "NOP"  -> st(shift(ld(x, "eax", R0), "shl", 0, 3), R0)
    [] i.op = "SLL"  -> st(shift(ld(x, "eax", i.rt), "shl", i.shamt, 3), i.rd)
    [] i.op = "SRL"  -> st(shift(ld(x, "eax", i.rt), "shr", i.shamt, 3), i.rd)
    [] i.op = "SRA"  -> st(shift(ld(x, "eax", i.rt), "sar", i.shamt, 3), i.rd)
    [] i.op = "SLLV" -> LET y == ld(ld(x, "eax", i.rt), "ecx", i.rs)
                        IN st(shift(y, "shl", y.ecx, 2), i.rd)
    [] i.op = "SRLV" -> LET y == ld(ld(x, "eax", i.rt), "ecx", i.rs)
                        IN st(shift(y, "shr", y.ecx, 2), i.rd)
    [] i.op = "SRAV" -> LET y == ld(ld(x, "eax", i.rt), "ecx", i.rs)
                        IN st(shift(y, "sar", y.ecx, 2), i.rd)
    [] i.op = "MFHI" -> st(ld_off(x, "hi"), i.rd)
    [] i.op = "MFLO" -> st(ld_off(x, "lo"), i.rd)
    [] i.op = "MTHI" -> st_off(ld(x, "eax", i.rs), "hi")
    [] i.op = "MTLO" -> st_off(ld(x, "eax", i.rs), "lo")
    [] i.op \in {"MOVZ", "MOVN"} ->
         LET y == ld(ld(ld(x, "eax", i.rd), "edx", i.rs), "ecx", i.rt)
         IN st(cmov(test_ecx(y), i.op = "MOVZ"), i.rd)
    [] i.op = "ADDIU" -> st(alu_imm(ld(x, "eax", i.rs), "add", U32(S16(i.imm))), i.rt)
    [] i.op = "ANDI"  -> st(alu_imm(ld(x, "eax", i.rs), "and", i.imm), i.rt)
    [] i.op = "ORI"   -> st(alu_imm(ld(x, "eax", i.rs), "or", i.imm), i.rt)
    [] i.op = "XORI"  -> st(alu_imm(ld(x, "eax", i.rs), "xor", i.imm), i.rt)
    [] i.op = "SLTI"  -> st(set_flag(alu_imm(ld(x, "eax", i.rs), "cmp", U32(S16(i.imm))), "less"), i.rt)
    [] i.op = "SLTIU" -> st(set_flag(alu_imm(ld(x, "eax", i.rs), "cmp", U32(S16(i.imm))), "below"), i.rt)
    [] i.op = "LUI"   -> mov_imm(x, i.rt, U32(i.imm * HALF))

EmittedBytes(i) == jit_emit(i, X86([r \in Reg |-> 0], 0, 0)).n
PROLOGUE == 12
EPILOGUE == 19

-----------------------------------------------------------------------------
(* emit_init: without a buffer every instruction is interpreted.           *)
JitInit ==
  /\ Init
  /\ mode = "dispatch"
  /\ code_buf \in BOOLEAN
  /\ code_off = 0
  /\ cur = 0
  /\ cache = [k \in 0..(CACHE_SIZE - 1) |-> [pc |-> 0, fn |-> <<>>, valid |-> FALSE]]
  /\ block = [pc |-> 0, code |-> <<>>]
  /\ at = 0

Slot(a) == (a \div 4) % CACHE_SIZE

(* Mutant of Hit: the tag is not compared.                                 *)
Hit_NoTag(a) == cache[Slot(a)].valid

Hit(a) == cache[Slot(a)].valid /\ cache[Slot(a)].pc = a      \* cache_lookup

(* Mutant of Dispatching: the dispatcher forgets branch_is_pending().      *)
Dispatching_InDelaySlot == mode = "dispatch" /\ status = "run"

(* The dispatcher reaches the cache when the machine runs and no branch    *)
(* waits for its delay slot.                                               *)
Dispatching == mode = "dispatch" /\ status = "run" /\ ~ branch_pending

(* Mutant of RoomForBlock: no reserve.                                     *)
RoomForBlock_NoReserve == code_buf /\ code_off <= CODE_CAP

RoomForBlock == code_buf /\ code_off + RESERVE <= CODE_CAP

(* The instruction compile_block reads next.                               *)
CompilePc == U32(block.pc + 4 * Len(block.code))
NextToCompile == Decode[WordAt(memory, CompilePc - (CompilePc % 4))]

(* Mutant of Compilable: one instruction too many.                         *)
Compilable_OffByOne == Len(block.code) <= MAX_BLOCK /\ NextToCompile.op \in InlineOps

Compilable == Len(block.code) < MAX_BLOCK /\ NextToCompile.op \in InlineOps

(* A delay slot, and an instruction there is no room to compile.           *)
Interpret ==
  /\ mode = "dispatch"
  /\ branch_pending \/ (~ Hit(pc) /\ ~ RoomForBlock)
  /\ step_instruction
  /\ UNCHANGED jitVars

EnterBlock ==
  /\ Dispatching
  /\ Hit(pc)
  /\ block' = [pc |-> pc, code |-> cache[Slot(pc)].fn]
  /\ mode' = "native"
  /\ at' = 1
  /\ UNCHANGED <<vars, code_buf, code_off, cur, cache>>

StartBlock ==
  /\ Dispatching
  /\ ~ Hit(pc)
  /\ RoomForBlock
  /\ mode' = "compile"
  /\ cur' = code_off + PROLOGUE
  /\ block' = [pc |-> pc, code |-> <<>>]
  /\ UNCHANGED <<vars, code_buf, code_off, cache, at>>

EmitInstruction ==
  /\ mode = "compile"
  /\ status = "run"
  /\ Compilable
  /\ cur' = cur + EmittedBytes(NextToCompile)
  /\ block' = [block EXCEPT !.code = Append(@, NextToCompile)]
  /\ UNCHANGED <<vars, mode, code_buf, code_off, cache, at>>

(* Mutant of FinishBlock: the tag is the pc after the loop.                *)
FinishBlock_WrongTag ==
  /\ mode = "compile"
  /\ status = "run"
  /\ ~ Compilable
  /\ block.code # <<>>
  /\ cur' = cur + EPILOGUE
  /\ code_off' = cur'
  /\ cache' = [cache EXCEPT ![Slot(block.pc)] =
                  [pc |-> CompilePc, fn |-> block.code, valid |-> TRUE]]
  /\ mode' = "native"
  /\ at' = 1
  /\ UNCHANGED <<vars, code_buf, block>>

(* The block is complete: it enters the cache, over whatever block its     *)
(* slot held, and runs.                                                    *)
FinishBlock ==
  /\ mode = "compile"
  /\ status = "run"
  /\ ~ Compilable
  /\ block.code # <<>>
  /\ cur' = cur + EPILOGUE
  /\ code_off' = cur'
  /\ cache' = [cache EXCEPT ![Slot(block.pc)] =
                  [pc |-> block.pc, fn |-> block.code, valid |-> TRUE]]
  /\ mode' = "native"
  /\ at' = 1
  /\ UNCHANGED <<vars, code_buf, block>>

(* Not even the first instruction can be compiled: rewind and interpret.   *)
RewindBlock ==
  /\ mode = "compile"
  /\ ~ Compilable
  /\ block.code = <<>>
  /\ cur' = code_off
  /\ mode' = "dispatch"
  /\ step_instruction
  /\ UNCHANGED <<code_buf, code_off, cache, block, at>>

(* e8 never checks the cursor.  Past the end of the buffer the emulator is *)
(* killed, unless something else happens to be mapped there.               *)
EmitOutside ==
  /\ mode = "compile"
  /\ status = "run"
  /\ \/ Compilable /\ cur + EmittedBytes(NextToCompile) > CODE_CAP
     \/ ~ Compilable /\ block.code # <<>> /\ cur + EPILOGUE > CODE_CAP
  /\ Crash
  /\ UNCHANGED <<fpr, jitVars>>

(* Mutant of NativeStep: the block jumps back to where it is.              *)
NativeStep_Repeats ==
  /\ mode = "native"
  /\ at <= Len(block.code)
  /\ LET x == jit_emit(block.code[at], X86(reg, hi, lo)) IN
       reg' = x.reg /\ hi' = x.hi /\ lo' = x.lo
  /\ UNCHANGED <<fpr, memory, pc, branch_pending, branch_target, last_key, status, jitVars>>

NativeStep ==
  /\ mode = "native"
  /\ at <= Len(block.code)
  /\ LET x == jit_emit(block.code[at], X86(reg, hi, lo)) IN
       reg' = x.reg /\ hi' = x.hi /\ lo' = x.lo
  /\ at' = at + 1
  /\ UNCHANGED <<fpr, memory, pc, branch_pending, branch_target, last_key, status,
                 mode, code_buf, code_off, cur, cache, block>>

(* The epilogue stores the pc of the instruction after the block.          *)
NativeReturn ==
  /\ mode = "native"
  /\ at = Len(block.code) + 1
  /\ pc' = U32(block.pc + 4 * Len(block.code))
  /\ mode' = "dispatch"
  /\ UNCHANGED <<reg, hi, lo, fpr, memory, branch_pending, branch_target, last_key,
                 status, code_buf, code_off, cur, cache, block, at>>

JitStopped == status # "run" /\ UNCHANGED allVars

JitNext ==
  \/ Interpret \/ EnterBlock
  \/ StartBlock \/ EmitInstruction \/ FinishBlock \/ RewindBlock \/ EmitOutside
  \/ NativeStep \/ NativeReturn \/ JitStopped

(* The emulator is one thread in an endless loop: it keeps taking steps.   *)
JitSpec == JitInit /\ [][JitNext]_allVars /\ WF_allVars(JitNext)

-----------------------------------------------------------------------------
(* The machine's pc while a block runs is the instruction it has reached.  *)
machine_pc == IF mode = "native" THEN U32(block.pc + 4 * (at - 1)) ELSE pc

Interpreter == INSTANCE Cpu WITH pc <- machine_pc

(* The machine's types survive native code, the cache holds decoded        *)
(* instructions only, and no block is longer than MAX_BLOCK (jit.c).       *)
JitTypeOK ==
  /\ TypeOK
  /\ mode \in {"dispatch", "compile", "native"}
  /\ code_buf \in BOOLEAN
  /\ code_off \in Nat /\ cur \in Nat
  /\ cache \in [0..(CACHE_SIZE - 1) -> [pc : Word, fn : Seq(Instr), valid : BOOLEAN]]
  /\ block \in [pc : Word, code : Seq(Instr)]
  /\ at \in 0..(MAX_BLOCK + 1)

(* Running with -j does what the interpreter does, step by step: the same  *)
(* registers, memory and control flow, whatever is compiled, evicted from  *)
(* the cache, or left to the interpreter.                                  *)
ImplementsInterpreter == Interpreter!Spec

(* A block in the cache is what compiling its first pc again would give:   *)
(* the memory it was compiled from still decodes to its instructions.      *)
CompiledFrom(start, code) ==
  \A k \in 1..Len(code) :
    LET a == U32(start + 4 * (k - 1)) IN code[k] = Decode[WordAt(memory, a - (a % 4))]
CacheCoherent ==
  \A k \in DOMAIN cache : cache[k].valid => CompiledFrom(cache[k].pc, cache[k].fn)

(* The only way to a stale block is a store: compiling, evicting, running  *)
(* and rewinding leave a coherent cache coherent (compile_block,           *)
(* cache_lookup, execute_jit).                                             *)
StaleByStore == [][CacheCoherent /\ memory' = memory => CacheCoherent']_allVars

(* jit.c:24 "current emit cursor inside code_buf".                         *)
CursorInside == cur <= CODE_CAP

(* No native code runs between a branch and its delay slot, where nobody   *)
(* would apply the branch (execute_jit).                                   *)
NoBlockInDelaySlot == mode # "dispatch" => ~ branch_pending

(* Control comes back to the dispatcher from every block, and from every   *)
(* attempt to compile one.                                                 *)
DispatcherReturns == (mode # "dispatch") ~> (mode = "dispatch" \/ status = "crash")
=============================================================================
