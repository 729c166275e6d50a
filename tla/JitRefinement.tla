---------------------------- MODULE JitRefinement ----------------------------
(***************************************************************************)
(* execute_jit() implements the interpreter.  Interpreter is a copy of Cpu *)
(* in which machine_pc stands for pc; the first part shows that the copy   *)
(* of every operator is the operator, and the copy of every action the     *)
(* action when machine_pc is pc before and after it.                       *)
(***************************************************************************)
EXTENDS JitProofs

(* The widths and the types of the machine.                                *)
LEMMA SameWidths ==
  /\ Interpreter!WBITS = WBITS
  /\ Interpreter!BYTE = BYTE
  /\ Interpreter!HALF = HALF
  /\ Interpreter!WORD = WORD
  /\ Interpreter!Byte = Byte
  /\ Interpreter!Half = Half
  /\ Interpreter!Word = Word
BY DEF Interpreter!WBITS, WBITS, Interpreter!BYTE, BYTE, Interpreter!HALF, HALF,
     Interpreter!WORD, WORD, Interpreter!Byte, Byte, Interpreter!Half, Half,
     Interpreter!Word, Word

(* The conversions.                                                        *)
LEMMA SameConversions ==
  /\ \A n : Interpreter!U32(n) = U32(n)
  /\ \A n : Interpreter!S32(n) = S32(n)
  /\ \A n : Interpreter!S16(n) = S16(n)
  /\ \A n : Interpreter!S8(n) = S8(n)
  /\ \A n : Interpreter!Flag(n) = Flag(n)
  /\ \A n : Interpreter!Not(n) = Not(n)
  /\ \A n : Interpreter!FitsInt32(n) = FitsInt32(n)
  /\ \A n : Interpreter!Abs(n) = Abs(n)
BY SameWidths DEF Interpreter!U32, U32, Interpreter!S32, S32, Interpreter!S16, S16,
     Interpreter!S8, S8, Interpreter!Flag, Flag, Interpreter!Not, Not,
     Interpreter!FitsInt32, FitsInt32, Interpreter!Abs, Abs

(* Shifts and C division.                                                  *)
LEMMA SameShifts ==
  /\ \A w, s : Interpreter!Shl(w, s) = Shl(w, s)
  /\ \A w, s : Interpreter!Shr(w, s) = Shr(w, s)
  /\ \A w, s : Interpreter!Sar(w, s) = Sar(w, s)
  /\ \A w : Interpreter!TopBit(w) = TopBit(w)
BY SameWidths, SameConversions DEF Interpreter!Shl, Shl, Interpreter!Shr, Shr,
     Interpreter!Sar, Sar, Interpreter!TopBit, TopBit

(* C division.                                                             *)
LEMMA SameDivision ==
  /\ \A a, b : Interpreter!Quot(a, b) = Quot(a, b)
BY SameConversions DEF Interpreter!Quot, Quot

(* C remainder.                                                            *)
LEMMA SameRemainder ==
  /\ \A a, b : Interpreter!Rem(a, b) = Rem(a, b)
BY SameDivision DEF Interpreter!Rem, Rem

(* The number of elements of a set.                                        *)
LEMMA SameCardinality == \A S : Interpreter!Cardinality(S) = Cardinality(S)
BY DEF Interpreter!Cardinality, Cardinality

(* The loops of clz and clo.                                               *)
LEMMA SameCount ==
  /\ \A v, bit : Interpreter!CountLeading(v, bit) = CountLeading(v, bit)
BY SameWidths, SameShifts, SameCardinality DEF Interpreter!CountLeading, CountLeading

(* Memory accesses.                                                        *)
LEMMA SameMemory ==
  /\ \A m, a : Interpreter!HalfAt(m, a) = HalfAt(m, a)
  /\ \A m, a : Interpreter!WordAt(m, a) = WordAt(m, a)
  /\ \A m, a, v : Interpreter!PutByte(m, a, v) = PutByte(m, a, v)
  /\ \A m, a, v : Interpreter!PutHalf(m, a, v) = PutHalf(m, a, v)
  /\ \A m, a, v : Interpreter!PutWord(m, a, v) = PutWord(m, a, v)
BY SameWidths, SameConversions DEF Interpreter!HalfAt, HalfAt, Interpreter!WordAt, WordAt,
     Interpreter!PutByte, PutByte, Interpreter!PutHalf, PutHalf, Interpreter!PutWord,
     PutWord

(* The shifts of the unaligned accesses.                                   *)
LEMMA SameMergeShifts ==
  /\ \A a : Interpreter!LeftShift(a) = LeftShift(a)
  /\ \A a : Interpreter!RightShift(a) = RightShift(a)
BY DEF Interpreter!LeftShift, LeftShift, Interpreter!RightShift, RightShift

(* The merges of the unaligned accesses.                                   *)
LEMMA SameMerges ==
  /\ \A r, w, a : Interpreter!LeftLoad(r, w, a) = LeftLoad(r, w, a)
  /\ \A r, w, a : Interpreter!RightLoad(r, w, a) = RightLoad(r, w, a)
  /\ \A r, w, a : Interpreter!LeftStore(r, w, a) = LeftStore(r, w, a)
  /\ \A r, w, a : Interpreter!RightStore(r, w, a) = RightStore(r, w, a)
BY SameWidths, SameConversions, SameShifts, SameMergeShifts DEF Interpreter!LeftLoad,
     LeftLoad, Interpreter!RightLoad, RightLoad, Interpreter!LeftStore, LeftStore,
     Interpreter!RightStore, RightStore

(* The registers.                                                          *)
LEMMA SameRegisters ==
  /\ Interpreter!NB_REG = NB_REG
  /\ Interpreter!Reg = Reg
  /\ Interpreter!R0 = R0
  /\ Interpreter!V0 = V0
  /\ Interpreter!A0 = A0
  /\ Interpreter!A1 = A1
  /\ Interpreter!A2 = A2
  /\ Interpreter!K0 = K0
  /\ Interpreter!SP = SP
  /\ Interpreter!RA = RA
  /\ Interpreter!BGEZ = BGEZ
  /\ Interpreter!BLTZAL = BLTZAL
  /\ Interpreter!BGEZAL = BGEZAL
  /\ Interpreter!FP_COND = FP_COND
  /\ Interpreter!FpReg = FpReg
BY DEF Interpreter!NB_REG, NB_REG, Interpreter!Reg, Reg, Interpreter!R0, R0, Interpreter!V0,
     V0, Interpreter!A0, A0, Interpreter!A1, A1, Interpreter!A2, A2, Interpreter!K0, K0,
     Interpreter!SP, SP, Interpreter!RA, RA, Interpreter!BGEZ, BGEZ, Interpreter!BLTZAL,
     BLTZAL, Interpreter!BGEZAL, BGEZAL, Interpreter!FP_COND, FP_COND, Interpreter!FpReg,
     FpReg

(* The kinds of instructions.                                              *)
LEMMA SameOps ==
  /\ Interpreter!RegisterOps = RegisterOps
  /\ Interpreter!ImmediateOps = ImmediateOps
  /\ Interpreter!TrapOps = TrapOps
  /\ Interpreter!MultiplyOps = MultiplyOps
  /\ Interpreter!BranchOps = BranchOps
  /\ Interpreter!JumpOps = JumpOps
  /\ Interpreter!NarrowLoadOps = NarrowLoadOps
  /\ Interpreter!WordLoadOps = WordLoadOps
  /\ Interpreter!NarrowStoreOps = NarrowStoreOps
  /\ Interpreter!WordStoreOps = WordStoreOps
  /\ Interpreter!FpArithmeticOps = FpArithmeticOps
  /\ Interpreter!FpCompareOps = FpCompareOps
  /\ Interpreter!ConvertOps = ConvertOps
BY DEF Interpreter!RegisterOps, RegisterOps, Interpreter!ImmediateOps, ImmediateOps,
     Interpreter!TrapOps, TrapOps, Interpreter!MultiplyOps, MultiplyOps,
     Interpreter!BranchOps, BranchOps, Interpreter!JumpOps, JumpOps,
     Interpreter!NarrowLoadOps, NarrowLoadOps, Interpreter!WordLoadOps, WordLoadOps,
     Interpreter!NarrowStoreOps, NarrowStoreOps, Interpreter!WordStoreOps, WordStoreOps,
     Interpreter!FpArithmeticOps, FpArithmeticOps, Interpreter!FpCompareOps, FpCompareOps,
     Interpreter!ConvertOps, ConvertOps

(* What the arithmetic instructions compute.                               *)
LEMMA SameAlu ==
  /\ \A op \in RegisterOps : \A a, b, s : Interpreter!AluR(op, a, b, s) = AluR(op, a, b, s)
  /\ \A op \in ImmediateOps : \A a, imm : Interpreter!AluI(op, a, imm) = AluI(op, a, imm)
  /\ \A op \in TrapOps : \A a, b, imm : Interpreter!Exact(op, a, b, imm) = Exact(op, a, b, imm)
  /\ \A op \in MultiplyOps : \A a, b, h, l :
       Interpreter!Product(op, a, b, h, l) = Product(op, a, b, h, l)
<1>1. ASSUME NEW op \in RegisterOps, NEW a, NEW b, NEW s
      PROVE  Interpreter!AluR(op, a, b, s) = AluR(op, a, b, s)
  BY <1>1, OpSets, SameWidths, SameConversions, SameShifts, SameCount DEF Interpreter!AluR, AluR
<1>2. ASSUME NEW op \in ImmediateOps, NEW a, NEW imm
      PROVE  Interpreter!AluI(op, a, imm) = AluI(op, a, imm)
  BY <1>2, OpSets, SameWidths, SameConversions DEF Interpreter!AluI, AluI
<1>3. ASSUME NEW op \in TrapOps, NEW a, NEW b, NEW imm
      PROVE  Interpreter!Exact(op, a, b, imm) = Exact(op, a, b, imm)
  BY <1>3, OpSets, SameConversions DEF Interpreter!Exact, Exact
<1>4. ASSUME NEW op \in MultiplyOps, NEW a, NEW b, NEW h, NEW l
      PROVE  Interpreter!Product(op, a, b, h, l) = Product(op, a, b, h, l)
  BY <1>4, OpSets, SameWidths, SameConversions DEF Interpreter!Product, Product
<1> QED BY <1>1, <1>2, <1>3, <1>4

(* The device accesses.                                                    *)
LEMMA SameDevice ==
  /\ \A m, key, a : Interpreter!LoadWord(m, key, a) = LoadWord(m, key, a)
  /\ \A key, a : Interpreter!KeyAfterLoad(key, a) = KeyAfterLoad(key, a)
  /\ \A m, a, v : Interpreter!StoreWord(m, a, v) = StoreWord(m, a, v)
  /\ \A key, a : Interpreter!KeysAfterStore(key, a) = KeysAfterStore(key, a)
  /\ \A f : Interpreter!ClearR0(f) = ClearR0(f)
BY SameMemory, SameRegisters DEF Interpreter!LoadWord, LoadWord, Interpreter!KeyAfterLoad,
     KeyAfterLoad, Interpreter!StoreWord, StoreWord, Interpreter!KeysAfterStore,
     KeysAfterStore, Interpreter!ClearR0, ClearR0

(* The coprocessor.                                                        *)
LEMMA SameFpu ==
  /\ Interpreter!FMT_S = FMT_S
  /\ Interpreter!FMT_D = FMT_D
  /\ Interpreter!FMT_W = FMT_W
  /\ Interpreter!Single = Single
  /\ Interpreter!Double = Double
BY SameWidths DEF Interpreter!FMT_S, FMT_S, Interpreter!FMT_D, FMT_D, Interpreter!FMT_W,
     FMT_W, Interpreter!Single, Single, Interpreter!Double, Double

(* Its registers.                                                          *)
LEMMA SamePairs ==
  /\ \A n : Interpreter!getd(n) = getd(n)
  /\ \A n, v : Interpreter!setf(n, v) = setf(n, v)
  /\ \A n, v : Interpreter!setd(n, v) = setd(n, v)
BY SameWidths, SameConversions DEF Interpreter!getd, getd, Interpreter!setf, setf,
     Interpreter!setd, setd

(* Its operands.                                                           *)
LEMMA SameOperands ==
  /\ \A i, n : Interpreter!Operand(i, n) = Operand(i, n)
  /\ \A i : Interpreter!HasOp(i) = HasOp(i)
  /\ \A i : Interpreter!GivesDouble(i) = GivesDouble(i)
BY SameFpu, SameOps, SamePairs DEF Interpreter!Operand, Operand, Interpreter!HasOp, HasOp,
     Interpreter!GivesDouble, GivesDouble

(* Its results.                                                            *)
LEMMA SameResult ==
  /\ \A i : Interpreter!Computed(i) = Computed(i)
BY SameWidths, SameFpu, SamePairs, SameOperands DEF Interpreter!Computed, Computed

(* strncpy.                                                                *)
LEMMA SameStrncpy ==
  /\ \A m, a, s, n : Interpreter!Strncpy(m, a, s, n) = Strncpy(m, a, s, n)
  /\ \A a : Interpreter!Unterminated(a) = Unterminated(a)
BY SameWidths DEF Interpreter!Strncpy, Strncpy, Interpreter!Unterminated, Unterminated

(***************************************************************************)
(* The actions, where the machine's pc is pc.                              *)
(***************************************************************************)
AtPc == machine_pc = pc /\ machine_pc' = pc'

(* The instruction at pc.                                                  *)
LEMMA SameInstruction ==
  ASSUME AtPc
  PROVE
  /\ Interpreter!Instruction = Instruction
BY SameMemory DEF Interpreter!Instruction, Instruction, AtPc

(* The addresses an instruction refers to.                                 *)
LEMMA SameAddresses ==
  ASSUME AtPc
  PROVE
  /\ Interpreter!branch_dest = branch_dest
  /\ Interpreter!mem_addr = mem_addr
  /\ Interpreter!jump_target = jump_target
BY SameInstruction, SameConversions DEF Interpreter!branch_dest, branch_dest,
     Interpreter!mem_addr, mem_addr, Interpreter!jump_target, jump_target, AtPc

(* The ends of an instruction.                                             *)
LEMMA SameEnds ==
  ASSUME AtPc
  PROVE
    /\ \A taken, target : Advance(taken, target) => Interpreter!Advance(taken, target)
    /\ \A s : Halt(s) => Interpreter!Halt(s)
<1>1. \A taken, target : Advance(taken, target) => Interpreter!Advance(taken, target)
  BY SameConversions DEF Interpreter!Advance, Advance, AtPc
<1>2. \A s : Halt(s) => Interpreter!Halt(s)
  BY SameConversions DEF Interpreter!Halt, Halt, AtPc
<1> QED BY <1>1, <1>2

(* Falling through.                                                        *)
LEMMA SameContinue ==
  ASSUME AtPc
  PROVE
    /\ Continue => Interpreter!Continue
<1>1. Continue => Interpreter!Continue
  BY SameEnds DEF Interpreter!Continue, Continue, AtPc
<1> QED BY <1>1

(* Writing a register.                                                     *)
LEMMA SameWrites ==
  ASSUME AtPc
  PROVE
    /\ \A r, v : Write(r, v) => Interpreter!Write(r, v)
    /\ \A h, l : SetHiLo(h, l) => Interpreter!SetHiLo(h, l)
    /\ \A v : Result(v) => Interpreter!Result(v)
    /\ Output => Interpreter!Output
    /\ Crash => Interpreter!Crash
<1>1. \A r, v : Write(r, v) => Interpreter!Write(r, v)
  BY SameContinue, SameEnds, SameDevice, SameRegisters DEF Interpreter!Write, Write, AtPc
<1>2. \A h, l : SetHiLo(h, l) => Interpreter!SetHiLo(h, l)
  BY SameContinue, SameEnds, SameDevice, SameRegisters DEF Interpreter!SetHiLo, SetHiLo, AtPc
<1>3. \A v : Result(v) => Interpreter!Result(v)
  BY SameContinue, SameEnds, SameDevice, SameRegisters DEF Interpreter!Result, Result, AtPc
<1>4. Output => Interpreter!Output
  BY SameContinue, SameEnds, SameDevice, SameRegisters DEF Interpreter!Output, Output, AtPc
<1>5. Crash => Interpreter!Crash
  BY SameContinue, SameEnds, SameDevice, SameRegisters DEF Interpreter!Crash, Crash, AtPc
<1> QED BY <1>1, <1>2, <1>3, <1>4, <1>5

(* Services.                                                               *)
LEMMA SameServices ==
  ASSUME AtPc
  PROVE
    /\ PrintValue => Interpreter!PrintValue
    /\ PrintString => Interpreter!PrintString
    /\ PrintOverrun => Interpreter!PrintOverrun
    /\ ReadInt => Interpreter!ReadInt
    /\ ReadChar => Interpreter!ReadChar
    /\ ReadString => Interpreter!ReadString
    /\ ReadStringFails => Interpreter!ReadStringFails
    /\ ReadStringOverrun => Interpreter!ReadStringOverrun
    /\ ReadStringNull => Interpreter!ReadStringNull
    /\ Open => Interpreter!Open
    /\ Read => Interpreter!Read
    /\ ReadFails => Interpreter!ReadFails
    /\ WriteFile => Interpreter!WriteFile
    /\ Exit => Interpreter!Exit
<1>1. PrintValue => Interpreter!PrintValue
  BY SameWrites, SameContinue, SameEnds, SameRegisters, SameConversions, SameWidths,
     SameStrncpy DEF Interpreter!PrintValue, PrintValue, AtPc
<1>2. PrintString => Interpreter!PrintString
  BY SameWrites, SameContinue, SameEnds, SameRegisters, SameConversions, SameWidths,
     SameStrncpy DEF Interpreter!PrintString, PrintString, AtPc
<1>3. PrintOverrun => Interpreter!PrintOverrun
  BY SameWrites, SameContinue, SameEnds, SameRegisters, SameConversions, SameWidths,
     SameStrncpy DEF Interpreter!PrintOverrun, PrintOverrun, AtPc
<1>4. ReadInt => Interpreter!ReadInt
  BY SameWrites, SameContinue, SameEnds, SameRegisters, SameConversions, SameWidths,
     SameStrncpy DEF Interpreter!ReadInt, ReadInt, AtPc
<1>5. ReadChar => Interpreter!ReadChar
  BY SameWrites, SameContinue, SameEnds, SameRegisters, SameConversions, SameWidths,
     SameStrncpy DEF Interpreter!ReadChar, ReadChar, AtPc
<1>6. ReadString => Interpreter!ReadString
  BY SameWrites, SameContinue, SameEnds, SameRegisters, SameConversions, SameWidths,
     SameStrncpy DEF Interpreter!ReadString, ReadString, AtPc
<1>7. ReadStringFails => Interpreter!ReadStringFails
  BY SameWrites, SameContinue, SameEnds, SameRegisters, SameConversions, SameWidths,
     SameStrncpy DEF Interpreter!ReadStringFails, ReadStringFails, AtPc
<1>8. ReadStringOverrun => Interpreter!ReadStringOverrun
  BY SameWrites, SameContinue, SameEnds, SameRegisters, SameConversions, SameWidths,
     SameStrncpy DEF Interpreter!ReadStringOverrun, ReadStringOverrun, AtPc
<1>9. Open => Interpreter!Open
  BY SameWrites, SameContinue, SameEnds, SameRegisters, SameConversions, SameWidths,
     SameStrncpy DEF Interpreter!Open, Open, AtPc
<1>10. Read => Interpreter!Read
  BY SameWrites, SameContinue, SameEnds, SameRegisters, SameConversions, SameWidths,
     SameStrncpy DEF Interpreter!Read, Read, AtPc
<1>11. ReadFails => Interpreter!ReadFails
  BY SameWrites, SameContinue, SameEnds, SameRegisters, SameConversions, SameWidths,
     SameStrncpy DEF Interpreter!ReadFails, ReadFails, AtPc
<1>12. WriteFile => Interpreter!WriteFile
  BY SameWrites, SameContinue, SameEnds, SameRegisters, SameConversions, SameWidths,
     SameStrncpy DEF Interpreter!WriteFile, WriteFile, AtPc
<1>13. Exit => Interpreter!Exit
  BY SameWrites, SameContinue, SameEnds, SameRegisters, SameConversions, SameWidths,
     SameStrncpy DEF Interpreter!Exit, Exit, AtPc
<1>14. ReadStringNull => Interpreter!ReadStringNull
  BY SameWrites, SameRegisters DEF Interpreter!ReadStringNull, ReadStringNull, AtPc
<1> QED
  BY <1>1, <1>2, <1>3, <1>4, <1>5, <1>6, <1>7, <1>8, <1>9, <1>10, <1>11, <1>12, <1>13, <1>14

(* The trapping additions, and which branches are taken and link.          *)
LEMMA SameHelpers ==
  ASSUME AtPc
  PROVE  /\ \A i : Interpreter!TrapDest(i) = TrapDest(i)
         /\ \A i : i.op \in TrapOps => Interpreter!TrapResult(i) = TrapResult(i)
         /\ \A i : Interpreter!BranchTaken(i) = BranchTaken(i)
         /\ \A i : Interpreter!Links(i) <=> Links(i)
         /\ \A i, a : Interpreter!Aligned(i, a) = Aligned(i, a)
         /\ \A i, a, w : i.op \in WordLoadOps =>
              Interpreter!LoadedValue(i, a, w) = LoadedValue(i, a, w)
         /\ \A i, a, w : i.op \in WordStoreOps =>
              Interpreter!StoredValue(i, a, w) = StoredValue(i, a, w)
<1>1. \A i : Interpreter!TrapDest(i) = TrapDest(i)
  BY DEF Interpreter!TrapDest, TrapDest
<1>2. ASSUME NEW i, i.op \in TrapOps PROVE Interpreter!TrapResult(i) = TrapResult(i)
  BY <1>2, SameAlu DEF Interpreter!TrapResult, TrapResult
<1>3. \A i : Interpreter!BranchTaken(i) = BranchTaken(i)
  BY SameConversions, SameRegisters DEF Interpreter!BranchTaken, BranchTaken
<1>4. \A i : Interpreter!Links(i) <=> Links(i)
  BY SameRegisters DEF Interpreter!Links, Links
<1>5. \A i, a : Interpreter!Aligned(i, a) = Aligned(i, a)
  BY DEF Interpreter!Aligned, Aligned
<1>6. ASSUME NEW i, NEW a, NEW w, i.op \in WordLoadOps
      PROVE  Interpreter!LoadedValue(i, a, w) = LoadedValue(i, a, w)
  BY <1>6, SameMerges DEF Interpreter!LoadedValue, LoadedValue, WordLoadOps
<1>7. ASSUME NEW i, NEW a, NEW w, i.op \in WordStoreOps
      PROVE  Interpreter!StoredValue(i, a, w) = StoredValue(i, a, w)
  BY <1>7, SameMerges DEF Interpreter!StoredValue, StoredValue, WordStoreOps
<1> QED BY <1>1, <1>2, <1>3, <1>4, <1>5, <1>6, <1>7

(* The arithmetic instructions.                                            *)
LEMMA SameArithmetic ==
  ASSUME AtPc
  PROVE
    /\ Nop => Interpreter!Nop
    /\ exec_alu => Interpreter!exec_alu
    /\ exec_alu_immediate => Interpreter!exec_alu_immediate
    /\ AddNoOverflow => Interpreter!AddNoOverflow
    /\ AddOverflow => Interpreter!AddOverflow
    /\ Multiply => Interpreter!Multiply
    /\ DivByZero => Interpreter!DivByZero
    /\ Divu => Interpreter!Divu
    /\ Div => Interpreter!Div
    /\ DivOverflow => Interpreter!DivOverflow
    /\ MoveFrom => Interpreter!MoveFrom
    /\ MoveTo => Interpreter!MoveTo
    /\ MoveIf => Interpreter!MoveIf
<1>1. Nop => Interpreter!Nop
  BY SameInstruction, SameWrites, SameContinue, SameOps, SameAlu, SameHelpers,
     SameConversions, SameWidths, SameRegisters, SameDevice, SameDivision, SameRemainder DEF
     Interpreter!Nop, Nop, AtPc
<1>2. exec_alu => Interpreter!exec_alu
  BY SameInstruction, SameWrites, SameContinue, SameOps, SameAlu, SameHelpers,
     SameConversions, SameWidths, SameRegisters, SameDevice, SameDivision, SameRemainder DEF
     Interpreter!exec_alu, exec_alu, AtPc
<1>3. exec_alu_immediate => Interpreter!exec_alu_immediate
  BY SameInstruction, SameWrites, SameContinue, SameOps, SameAlu, SameHelpers,
     SameConversions, SameWidths, SameRegisters, SameDevice, SameDivision, SameRemainder DEF
     Interpreter!exec_alu_immediate, exec_alu_immediate, AtPc
<1>4. AddNoOverflow => Interpreter!AddNoOverflow
  BY SameInstruction, SameWrites, SameContinue, SameOps, SameAlu, SameHelpers,
     SameConversions, SameWidths, SameRegisters, SameDevice, SameDivision, SameRemainder DEF
     Interpreter!AddNoOverflow, AddNoOverflow, AtPc
<1>5. AddOverflow => Interpreter!AddOverflow
  BY SameInstruction, SameWrites, SameContinue, SameOps, SameAlu, SameHelpers,
     SameConversions, SameWidths, SameRegisters, SameDevice, SameDivision, SameRemainder DEF
     Interpreter!AddOverflow, AddOverflow, AtPc
<1>6. Multiply => Interpreter!Multiply
  BY SameInstruction, SameWrites, SameContinue, SameOps, SameAlu, SameHelpers,
     SameConversions, SameWidths, SameRegisters, SameDevice, SameDivision, SameRemainder DEF
     Interpreter!Multiply, Multiply, AtPc
<1>7. DivByZero => Interpreter!DivByZero
  BY SameInstruction, SameWrites, SameContinue, SameOps, SameAlu, SameHelpers,
     SameConversions, SameWidths, SameRegisters, SameDevice, SameDivision, SameRemainder DEF
     Interpreter!DivByZero, DivByZero, AtPc
<1>8. Divu => Interpreter!Divu
  BY SameInstruction, SameWrites, SameContinue, SameOps, SameAlu, SameHelpers,
     SameConversions, SameWidths, SameRegisters, SameDevice, SameDivision, SameRemainder DEF
     Interpreter!Divu, Divu, AtPc
<1>9. Div => Interpreter!Div
  BY SameInstruction, SameWrites, SameContinue, SameOps, SameAlu, SameHelpers,
     SameConversions, SameWidths, SameRegisters, SameDevice, SameDivision, SameRemainder DEF
     Interpreter!Div, Div, AtPc
<1>10. DivOverflow => Interpreter!DivOverflow
  BY SameInstruction, SameWrites, SameContinue, SameOps, SameAlu, SameHelpers,
     SameConversions, SameWidths, SameRegisters, SameDevice, SameDivision, SameRemainder DEF
     Interpreter!DivOverflow, DivOverflow, AtPc
<1>11. MoveFrom => Interpreter!MoveFrom
  BY SameInstruction, SameWrites, SameContinue, SameOps, SameAlu, SameHelpers,
     SameConversions, SameWidths, SameRegisters, SameDevice, SameDivision, SameRemainder DEF
     Interpreter!MoveFrom, MoveFrom, AtPc
<1>12. MoveTo => Interpreter!MoveTo
  BY SameInstruction, SameWrites, SameContinue, SameOps, SameAlu, SameHelpers,
     SameConversions, SameWidths, SameRegisters, SameDevice, SameDivision, SameRemainder DEF
     Interpreter!MoveTo, MoveTo, AtPc
<1>13. MoveIf => Interpreter!MoveIf
  BY SameInstruction, SameWrites, SameContinue, SameOps, SameAlu, SameHelpers,
     SameConversions, SameWidths, SameRegisters, SameDevice, SameDivision, SameRemainder DEF
     Interpreter!MoveIf, MoveIf, AtPc
<1> QED BY <1>1, <1>2, <1>3, <1>4, <1>5, <1>6, <1>7, <1>8, <1>9, <1>10, <1>11, <1>12, <1>13

(* Branches, jumps, break and illegal instructions.                        *)
LEMMA SameControl ==
  ASSUME AtPc
  PROVE
    /\ Branch => Interpreter!Branch
    /\ JumpRegister => Interpreter!JumpRegister
    /\ JumpAndLinkRegister => Interpreter!JumpAndLinkRegister
    /\ exec_jump => Interpreter!exec_jump
    /\ Break => Interpreter!Break
    /\ Illegal => Interpreter!Illegal
<1>1. ASSUME Branch PROVE Interpreter!Branch
  <2> DEFINE i == Instruction
  <2>1. Advance(BranchTaken(i), branch_dest)
    BY <1>1 DEF Branch
  <2>2. Interpreter!Advance(BranchTaken(i), Interpreter!branch_dest)
    BY <2>1, SameEnds, SameAddresses
  <2>3. Interpreter!Advance(Interpreter!BranchTaken(i), Interpreter!branch_dest)
    BY <2>2, SameHelpers
  <2>4. reg' = Interpreter!ClearR0(IF Interpreter!Links(i)
                                   THEN [reg EXCEPT ![Interpreter!RA] = Interpreter!U32(machine_pc + 8)]
                                   ELSE reg)
    BY <1>1, SameHelpers, SameDevice, SameRegisters, SameConversions DEF Branch, AtPc
  <2> QED BY <1>1, <2>3, <2>4, SameInstruction, SameOps DEF Branch, Interpreter!Branch
<1>2. JumpRegister => Interpreter!JumpRegister
  BY SameInstruction, SameAddresses, SameEnds, SameOps, SameHelpers, SameConversions,
     SameRegisters, SameDevice DEF Interpreter!JumpRegister, JumpRegister, AtPc
<1>3. JumpAndLinkRegister => Interpreter!JumpAndLinkRegister
  BY SameInstruction, SameAddresses, SameEnds, SameOps, SameHelpers, SameConversions,
     SameRegisters, SameDevice DEF Interpreter!JumpAndLinkRegister, JumpAndLinkRegister,
     AtPc
<1>4. exec_jump => Interpreter!exec_jump
  BY SameInstruction, SameAddresses, SameEnds, SameOps, SameHelpers, SameConversions,
     SameRegisters, SameDevice DEF Interpreter!exec_jump, exec_jump, AtPc
<1>5. Break => Interpreter!Break
  BY SameInstruction, SameAddresses, SameEnds, SameOps, SameHelpers, SameConversions,
     SameRegisters, SameDevice DEF Interpreter!Break, Break, AtPc
<1>6. Illegal => Interpreter!Illegal
  BY SameInstruction, SameAddresses, SameEnds, SameOps, SameHelpers, SameConversions,
     SameRegisters, SameDevice DEF Interpreter!Illegal, Illegal, AtPc
<1> QED BY <1>1, <1>2, <1>3, <1>4, <1>5, <1>6

(* Loads and stores.                                                       *)
LEMMA SameAccesses ==
  ASSUME AtPc
  PROVE
    /\ LoadNarrow => Interpreter!LoadNarrow
    /\ LoadWide => Interpreter!LoadWide
    /\ StoreNarrow => Interpreter!StoreNarrow
    /\ StoreWide => Interpreter!StoreWide
<1>1. LoadNarrow => Interpreter!LoadNarrow
  BY SameInstruction, SameAddresses, SameContinue, SameWrites, SameOps, SameHelpers,
     SameConversions, SameMemory, SameDevice DEF Interpreter!LoadNarrow, LoadNarrow, AtPc
<1>2. ASSUME LoadWide PROVE Interpreter!LoadWide
  <2> DEFINE i == Instruction
             w == LoadWord(memory, last_key, Aligned(i, mem_addr))
  <2>1. i.op \in WordLoadOps /\ reg' = ClearR0([reg EXCEPT ![i.rt] = LoadedValue(i, mem_addr, w)])
    BY <1>2 DEF LoadWide
  <2>2. reg' = Interpreter!ClearR0([reg EXCEPT ![i.rt] = Interpreter!LoadedValue(i, mem_addr, w)])
    BY <2>1, SameHelpers, SameDevice
  <2>3. w = Interpreter!LoadWord(memory, last_key, Interpreter!Aligned(i, mem_addr))
    BY SameHelpers, SameDevice
  <2> QED
    BY <1>2, <2>1, <2>2, <2>3, SameInstruction, SameAddresses, SameContinue, SameOps, SameHelpers,
       SameDevice
    DEF Interpreter!LoadWide, LoadWide
<1>3. StoreNarrow => Interpreter!StoreNarrow
  BY SameInstruction, SameAddresses, SameContinue, SameWrites, SameOps, SameHelpers,
     SameConversions, SameMemory, SameDevice DEF Interpreter!StoreNarrow, StoreNarrow, AtPc
<1>4. StoreWide => Interpreter!StoreWide
  BY SameInstruction, SameAddresses, SameContinue, SameWrites, SameOps, SameHelpers,
     SameConversions, SameMemory, SameDevice DEF Interpreter!StoreWide, StoreWide, AtPc
<1> QED BY <1>1, <1>2, <1>3, <1>4

(* The coprocessor.                                                        *)
LEMMA SameCoprocessor ==
  ASSUME AtPc
  PROVE
    /\ MoveFromFpu => Interpreter!MoveFromFpu
    /\ MoveToFpu => Interpreter!MoveToFpu
    /\ BranchFpu => Interpreter!BranchFpu
    /\ Compare => Interpreter!Compare
    /\ ComputeSingle => Interpreter!ComputeSingle
    /\ ComputeDouble => Interpreter!ComputeDouble
    /\ NoSuchOperation => Interpreter!NoSuchOperation
    /\ LoadFpu => Interpreter!LoadFpu
    /\ StoreFpu => Interpreter!StoreFpu
<1>1. MoveFromFpu => Interpreter!MoveFromFpu
  BY SameInstruction, SameAddresses, SameContinue, SameEnds, SameWrites, SameOps,
     SameConversions, SameRegisters, SameFpu, SamePairs, SameOperands, SameResult,
     SameDevice DEF Interpreter!MoveFromFpu, MoveFromFpu, AtPc
<1>2. MoveToFpu => Interpreter!MoveToFpu
  BY SameInstruction, SameAddresses, SameContinue, SameEnds, SameWrites, SameOps,
     SameConversions, SameRegisters, SameFpu, SamePairs, SameOperands, SameResult,
     SameDevice DEF Interpreter!MoveToFpu, MoveToFpu, AtPc
<1>3. BranchFpu => Interpreter!BranchFpu
  BY SameInstruction, SameAddresses, SameContinue, SameEnds, SameWrites, SameOps,
     SameConversions, SameRegisters, SameFpu, SamePairs, SameOperands, SameResult,
     SameDevice DEF Interpreter!BranchFpu, BranchFpu, AtPc
<1>4. Compare => Interpreter!Compare
  BY SameInstruction, SameAddresses, SameContinue, SameEnds, SameWrites, SameOps,
     SameConversions, SameRegisters, SameFpu, SamePairs, SameOperands, SameResult,
     SameDevice DEF Interpreter!Compare, Compare, AtPc
<1>5. ComputeSingle => Interpreter!ComputeSingle
  BY SameInstruction, SameAddresses, SameContinue, SameEnds, SameWrites, SameOps,
     SameConversions, SameRegisters, SameFpu, SamePairs, SameOperands, SameResult,
     SameDevice DEF Interpreter!ComputeSingle, ComputeSingle, AtPc
<1>6. ComputeDouble => Interpreter!ComputeDouble
  BY SameInstruction, SameAddresses, SameContinue, SameEnds, SameWrites, SameOps,
     SameConversions, SameRegisters, SameFpu, SamePairs, SameOperands, SameResult,
     SameDevice DEF Interpreter!ComputeDouble, ComputeDouble, AtPc
<1>7. NoSuchOperation => Interpreter!NoSuchOperation
  BY SameInstruction, SameAddresses, SameContinue, SameEnds, SameWrites, SameOps,
     SameConversions, SameRegisters, SameFpu, SamePairs, SameOperands, SameResult,
     SameDevice DEF Interpreter!NoSuchOperation, NoSuchOperation, AtPc
<1>8. LoadFpu => Interpreter!LoadFpu
  BY SameInstruction, SameAddresses, SameContinue, SameEnds, SameWrites, SameOps,
     SameConversions, SameRegisters, SameFpu, SamePairs, SameOperands, SameResult,
     SameDevice DEF Interpreter!LoadFpu, LoadFpu, AtPc
<1>9. StoreFpu => Interpreter!StoreFpu
  BY SameInstruction, SameAddresses, SameContinue, SameEnds, SameWrites, SameOps,
     SameConversions, SameRegisters, SameFpu, SamePairs, SameOperands, SameResult,
     SameDevice DEF Interpreter!StoreFpu, StoreFpu, AtPc
<1> QED BY <1>1, <1>2, <1>3, <1>4, <1>5, <1>6, <1>7, <1>8, <1>9

(* Whatever the interpreter executes at pc, its copy executes.             *)
LEMMA SameStep ==
  ASSUME AtPc, exec_inst
  PROVE  Interpreter!exec_inst
<1>1. call_syscall => Interpreter!call_syscall
  BY SameInstruction, SameServices DEF Interpreter!call_syscall, call_syscall
<1>2. exec_cop1 => Interpreter!exec_cop1
  BY SameCoprocessor DEF Interpreter!exec_cop1, exec_cop1
<1>3. exec_cop1_ldst => Interpreter!exec_cop1_ldst
  BY SameCoprocessor DEF Interpreter!exec_cop1_ldst, exec_cop1_ldst
<1>4. exec_integer => Interpreter!exec_integer
  BY <1>1, SameArithmetic, SameControl, SameAccesses DEF Interpreter!exec_integer, exec_integer
<1>5. exec_inst => Interpreter!exec_inst
  BY <1>2, <1>3, <1>4 DEF Interpreter!exec_inst, exec_inst
<1> QED BY <1>5

(***************************************************************************)
(* Native code.  The instructions of a running block are those the memory  *)
(* holds, because it was coherent when it was entered and nothing stores   *)
(* while it runs.                                                          *)
(***************************************************************************)
RunningOK == mode = "native" => CompiledFrom(block.pc, block.code)

(* The pc of the first instruction of a block, and of the one after the    *)
(* instruction a block has reached.                                        *)
LEMMA BlockPc ==
  ASSUME NEW start \in Word, NEW k \in Nat \ {0}
  PROVE  /\ U32(start + 4 * (1 - 1)) = start
         /\ U32(start + 4 * ((k + 1) - 1)) = U32(U32(start + 4 * (k - 1)) + 4)
<1>1. start \in Int /\ start + 4 * (1 - 1) = start
  BY DEF Word
<1>2. /\ start + 4 * (k - 1) \in Int
      /\ 4 + (start + 4 * (k - 1)) = start + 4 * ((k + 1) - 1)
  BY <1>1
<1>3. U32(4 + U32(start + 4 * (k - 1))) = U32(start + 4 * ((k + 1) - 1))
  BY <1>2, U32Sum
<1>4. U32(start + 4 * (k - 1)) \in Int
  BY <1>2, U32Type DEF Word
<1> QED BY <1>1, <1>3, <1>4, U32Same

(* The instruction that a block has reached is the one the interpreter     *)
(* would fetch.                                                            *)
LEMMA NativeInstruction ==
  ASSUME JitInv, RunningOK, NativeStep
  PROVE  /\ Interpreter!Instruction = block.code[at]
         /\ block.code[at] \in Instr /\ block.code[at].op \in InlineOps
         /\ at \in Nat \ {0} /\ block.pc \in Word
<1>1. /\ block.code \in Seq(Instr) /\ Len(block.code) \in Nat /\ block.pc \in Word
      /\ \A k \in 1..Len(block.code) : block.code[k].op \in InlineOps
  BY DEF JitInv, BlocksOK, Code
<1>2. at \in 1..Len(block.code)
  BY <1>1 DEF JitInv, ModeOK, NativeStep
<1>3. machine_pc = U32(block.pc + 4 * (at - 1))
  BY DEF machine_pc, NativeStep
<1>4. block.code[at] = Decode[WordAt(memory, machine_pc - (machine_pc % 4))]
  BY <1>2, <1>3 DEF RunningOK, NativeStep, CompiledFrom
<1>5. Interpreter!Instruction = block.code[at]
  BY <1>4, SameMemory DEF Interpreter!Instruction
<1> QED BY <1>1, <1>2, <1>5

(* A native instruction is the interpreter's instruction.                  *)
LEMMA NativeMaps ==
  ASSUME JitInv, RunningOK, NativeStep
  PROVE  Interpreter!step_instruction
<1> DEFINE i == block.code[at]
           x == jit_emit(i, X86(reg, hi, lo))
<1>1. /\ Interpreter!Instruction = i /\ i \in Instr /\ i.op \in InlineOps
      /\ at \in Nat \ {0} /\ block.pc \in Word
  BY NativeInstruction
<1>2. Interpreter!Continue
  <2>1. machine_pc = U32(block.pc + 4 * (at - 1))
    BY DEF machine_pc, NativeStep
  <2>2. machine_pc' = U32(block.pc + 4 * ((at + 1) - 1))
    BY DEF machine_pc, NativeStep
  <2>3. machine_pc' = Interpreter!U32(machine_pc + 4)
    BY <1>1, <2>1, <2>2, BlockPc, SameConversions
  <2>4. branch_pending = FALSE /\ branch_pending' = FALSE
    BY DEF JitInv, ModeOK, NativeStep
  <2> QED BY <2>3, <2>4 DEF NativeStep, Interpreter!Continue, Interpreter!Advance
<1>3. reg \in [Reg -> Word] /\ reg[R0] = 0 /\ hi \in Word /\ lo \in Word /\ R0 \in Reg
  BY Registers DEF JitInv, Inv, IntegerOK, ZeroRegister
<1>4. reg' = x.reg /\ hi' = x.hi /\ lo' = x.lo
  BY DEF NativeStep
<1> HIDE DEF i
<1>5. SameEffect(i, reg, hi, lo, x)
  BY <1>1, <1>3, EmitRight
<1> HIDE DEF x
<1>6. UNCHANGED <<memory, last_key, fpr>> /\ status = "run"
  BY DEF NativeStep, JitInv, ModeOK
<1>7. ASSUME i.op \notin {"MTHI", "MTLO"} PROVE hi' = hi /\ lo' = lo
  BY <1>4, <1>5, <1>7 DEF SameEffect
<1>8. ASSUME NEW r, NEW v, i.op \notin {"MTHI", "MTLO"}, reg' = ClearR0([reg EXCEPT ![r] = v])
      PROVE  Interpreter!Write(r, v)
  BY <1>2, <1>6, <1>7, <1>8, SameDevice DEF Interpreter!Write
<1>9. Interpreter!exec_integer
  <2>1. CASE i.op \in RegisterOps
    <3>1. reg' = ClearR0([reg EXCEPT ![i.rd] = AluR(i.op, reg[i.rs], reg[i.rt], i.shamt)])
      BY <1>4, <1>5, <2>1 DEF SameEffect
    <3>2. i.op \notin {"MTHI", "MTLO"}
      BY <2>1 DEF RegisterOps
    <3>3. Interpreter!Write(i.rd, Interpreter!AluR(i.op, reg[i.rs], reg[i.rt], i.shamt))
      BY <1>8, <2>1, <3>1, <3>2, SameAlu
    <3>4. Interpreter!exec_alu
      BY <1>1, <2>1, <3>3, SameOps DEF Interpreter!exec_alu
    <3> QED BY <3>4 DEF Interpreter!exec_integer
  <2>2. CASE i.op \in ImmediateOps
    <3>1. reg' = ClearR0([reg EXCEPT ![i.rt] = AluI(i.op, reg[i.rs], i.imm)])
      BY <1>4, <1>5, <2>2 DEF SameEffect
    <3>2. i.op \notin {"MTHI", "MTLO"}
      BY <2>2 DEF ImmediateOps
    <3>3. Interpreter!Write(i.rt, Interpreter!AluI(i.op, reg[i.rs], i.imm))
      BY <1>8, <2>2, <3>1, <3>2, SameAlu
    <3>4. Interpreter!exec_alu_immediate
      BY <1>1, <2>2, <3>3, SameOps DEF Interpreter!exec_alu_immediate
    <3> QED BY <3>4 DEF Interpreter!exec_integer
  <2>3. CASE i.op = "MFHI"
    <3>1. Interpreter!Write(i.rd, hi)
      BY <1>4, <1>5, <1>8, <2>3 DEF SameEffect
    <3>2. Interpreter!MoveFrom
      BY <1>1, <2>3, <3>1 DEF Interpreter!MoveFrom
    <3> QED BY <3>2 DEF Interpreter!exec_integer
  <2>4. CASE i.op = "MFLO"
    <3>1. Interpreter!Write(i.rd, lo)
      BY <1>4, <1>5, <1>8, <2>4 DEF SameEffect
    <3>2. Interpreter!MoveFrom
      BY <1>1, <2>4, <3>1 DEF Interpreter!MoveFrom
    <3> QED BY <3>2 DEF Interpreter!exec_integer
  <2>5. CASE i.op \in {"MOVZ", "MOVN"}
    <3> DEFINE v == IF (i.op = "MOVZ") = (reg[i.rt] = 0) THEN reg[i.rs] ELSE reg[i.rd]
    <3>1. reg' = ClearR0([reg EXCEPT ![i.rd] = v])
      BY <1>4, <1>5, <2>5 DEF SameEffect
    <3>2. i.op \notin {"MTHI", "MTLO"}
      BY <2>5
    <3> HIDE DEF v
    <3>3. Interpreter!Write(i.rd, v)
      BY <1>8, <3>1, <3>2
    <3>4. Interpreter!MoveIf
      BY <1>1, <2>5, <3>3 DEF Interpreter!MoveIf, v
    <3> QED BY <3>4 DEF Interpreter!exec_integer
  <2>6. CASE i.op = "NOP"
    <3>1. reg' = reg /\ hi' = hi /\ lo' = lo
      BY <1>4, <1>5, <2>6 DEF SameEffect
    <3>2. Interpreter!Nop
      BY <1>1, <1>2, <1>6, <2>6, <3>1 DEF Interpreter!Nop
    <3> QED BY <3>2 DEF Interpreter!exec_integer
  <2>7. CASE i.op \in {"MTHI", "MTLO"}
    <3>1. /\ reg' = reg
          /\ hi' = (IF i.op = "MTHI" THEN reg[i.rs] ELSE hi)
          /\ lo' = (IF i.op = "MTLO" THEN reg[i.rs] ELSE lo)
      BY <1>4, <1>5, <2>7 DEF SameEffect
    <3>2. reg = ClearR0(reg)
      BY <1>3 DEF ClearR0
    <3>3. Interpreter!SetHiLo(hi', lo')
      BY <1>2, <1>6, <3>1, <3>2, SameDevice DEF Interpreter!SetHiLo
    <3>4. Interpreter!MoveTo
      <4>1. CASE i.op = "MTHI"
        <5>1. hi' = reg[i.rs] /\ lo' = lo
          BY <3>1, <4>1
        <5> QED BY <1>1, <3>3, <4>1, <5>1 DEF Interpreter!MoveTo, Interpreter!SetHiLo
      <4>2. CASE i.op = "MTLO"
        <5>1. hi' = hi /\ lo' = reg[i.rs]
          BY <3>1, <4>2
        <5> QED BY <1>1, <3>3, <4>2, <5>1 DEF Interpreter!MoveTo, Interpreter!SetHiLo
      <4> QED BY <2>7, <4>1, <4>2
    <3> QED BY <3>4 DEF Interpreter!exec_integer
  <2> QED BY <1>1, <2>1, <2>2, <2>3, <2>4, <2>5, <2>6, <2>7, InlineKinds
<1> QED BY <1>6, <1>9 DEF Interpreter!step_instruction, Interpreter!exec_inst

(* A running block stays what the memory holds: it is entered from a       *)
(* coherent cache or straight from the compiler.                           *)
LEMMA RunningStep ==
  ASSUME JitInv, CompilingOK, RunningOK, CacheCoherent, JitNext \/ UNCHANGED allVars
  PROVE  RunningOK'
<1>1. CASE EnterBlock
  <2>1. /\ Slot(pc) \in DOMAIN cache /\ cache[Slot(pc)].valid /\ cache[Slot(pc)].pc = pc
    <3>1. pc \in Word /\ DOMAIN cache = 0..(CACHE_SIZE - 1)
      BY DEF JitInv, Inv, IntegerOK, BlocksOK
    <3> QED BY <1>1, <3>1, SlotType DEF EnterBlock, Hit
  <2>2. CompiledFrom(pc, cache[Slot(pc)].fn)
    BY <2>1 DEF CacheCoherent
  <2>3. block'.pc = pc /\ block'.code = cache[Slot(pc)].fn /\ memory' = memory
    BY <1>1 DEF EnterBlock, vars
  <2> QED BY <2>2, <2>3 DEF RunningOK, CompiledFrom
<1>2. CASE FinishBlock
  <2>1. CompiledFrom(block.pc, block.code) /\ memory' = memory /\ block' = block
    BY <1>2 DEF FinishBlock, CompilingOK, vars
  <2> QED BY <2>1 DEF RunningOK, CompiledFrom
<1>3. CASE NativeStep \/ EmitOutside \/ UNCHANGED allVars
  <2>1. memory' = memory /\ block' = block /\ mode' = mode
    BY <1>3 DEF NativeStep, EmitOutside, Crash, jitVars, allVars, vars
  <2> QED BY <2>1 DEF RunningOK, CompiledFrom
<1>4. CASE Interpret \/ StartBlock \/ EmitInstruction \/ RewindBlock \/ NativeReturn
  <2>1. mode' # "native"
    BY <1>4 DEF Interpret, StartBlock, EmitInstruction, RewindBlock, NativeReturn, jitVars
  <2> QED BY <2>1 DEF RunningOK
<1> QED BY <1>1, <1>2, <1>3, <1>4 DEF JitNext, JitStopped

(* Every step of execute_jit is a step of the interpreter, or leaves the   *)
(* machine as it is.                                                       *)
LEMMA JitStepMaps ==
  ASSUME ShortRuns, JitInv, RunningOK, CursorOK, JitNext \/ UNCHANGED allVars
  PROVE  Interpreter!Next \/ UNCHANGED Interpreter!vars
<1>1. ASSUME UNCHANGED vars, machine_pc' = machine_pc PROVE UNCHANGED Interpreter!vars
  BY <1>1 DEF vars, Interpreter!vars
<1>2. /\ pc \in Word /\ block.pc \in Word
      /\ block.code \in Seq(Instr) /\ Len(block.code) \in Nat
  BY CompileTypes DEF JitInv, Inv, IntegerOK
<1>3. U32(pc + 4 * (1 - 1)) = pc /\ U32(block.pc + 4 * (1 - 1)) = block.pc
  <2>1. 1 \in Nat \ {0}
    OBVIOUS
  <2> QED BY <1>2, <2>1, BlockPc
<1>4. CASE Interpret \/ RewindBlock
  <2>1. AtPc
    BY <1>4 DEF AtPc, machine_pc, Interpret, RewindBlock, jitVars
  <2>2. status = "run" /\ exec_inst
    BY <1>4 DEF Interpret, RewindBlock, step_instruction
  <2>3. Interpreter!exec_inst
    BY <2>1, <2>2, SameStep
  <2> QED BY <2>2, <2>3 DEF Interpreter!Next, Interpreter!step_instruction
<1>5. CASE EnterBlock
  <2>1. mode = "dispatch" /\ mode' = "native" /\ block'.pc = pc /\ at' = 1 /\ UNCHANGED vars
    BY <1>5 DEF EnterBlock, Dispatching
  <2>2. machine_pc' = machine_pc
    BY <1>3, <2>1 DEF machine_pc
  <2> QED BY <1>1, <2>1, <2>2
<1>6. CASE StartBlock \/ EmitInstruction
  <2>1. mode # "native" /\ mode' # "native" /\ UNCHANGED vars
    BY <1>6 DEF StartBlock, EmitInstruction, Dispatching
  <2>2. machine_pc' = machine_pc
    BY <2>1 DEF machine_pc, vars
  <2> QED BY <1>1, <2>1, <2>2
<1>7. CASE FinishBlock
  <2>1. mode = "compile" /\ mode' = "native" /\ block' = block /\ at' = 1 /\ UNCHANGED vars
    BY <1>7 DEF FinishBlock
  <2>2. block.pc = pc
    BY <2>1 DEF JitInv, ModeOK
  <2>3. machine_pc' = machine_pc
    BY <1>3, <2>1, <2>2 DEF machine_pc
  <2> QED BY <1>1, <2>1, <2>3
<1>8. CASE EmitOutside
  <2>1. /\ mode = "compile"
        /\ \/ Compilable /\ cur + EmittedBytes(NextToCompile) > CODE_CAP
           \/ cur + EPILOGUE > CODE_CAP
    BY <1>8 DEF EmitOutside
  <2>2. /\ Compilable => cur + EmittedBytes(NextToCompile) <= CODE_CAP
        /\ cur + EPILOGUE <= CODE_CAP
    BY <2>1, RoomLeft
  <2>3. /\ Compilable => cur + EmittedBytes(NextToCompile) \in Nat
        /\ cur + EPILOGUE \in Nat /\ CODE_CAP \in Nat
    BY NextBytes, JitAssumption DEF JitInv, CursorOK, EPILOGUE, MAX_EMITTED
  <2> QED BY <2>1, <2>2, <2>3
<1>9. CASE NativeStep
  BY <1>9, NativeMaps DEF Interpreter!Next
<1>10. CASE NativeReturn
  <2>1. /\ mode = "native" /\ mode' = "dispatch" /\ at = Len(block.code) + 1
        /\ pc' = U32(block.pc + 4 * Len(block.code))
    BY <1>10 DEF NativeReturn
  <2>2. at - 1 = Len(block.code)
    BY <1>2, <2>1
  <2>3. machine_pc' = machine_pc
    BY <2>1, <2>2 DEF machine_pc
  <2> QED BY <1>10, <2>3 DEF NativeReturn, Interpreter!vars
<1>11. CASE UNCHANGED allVars
  <2>1. UNCHANGED vars /\ machine_pc' = machine_pc
    BY <1>11 DEF allVars, jitVars, vars, machine_pc
  <2> QED BY <1>1, <2>1
<1> QED
  BY <1>4, <1>5, <1>6, <1>7, <1>8, <1>9, <1>10, <1>11 DEF JitNext, JitStopped

(* The machine starts alike.                                               *)
LEMMA JitInitMaps == JitInit => Interpreter!Init
<1> SUFFICES ASSUME JitInit PROVE Interpreter!Init
  OBVIOUS
<1>1. Init /\ machine_pc = pc
  BY DEF JitInit, machine_pc
<1> QED BY <1>1, SameRegisters, SameWidths, SameConversions DEF Init, Interpreter!Init

(***************************************************************************)
(* Running with -j does what the interpreter does, instruction by          *)
(* instruction, for every program, word width, cache and block size, as    *)
(* long as no store makes a cached block stale and no run of compiled      *)
(* instructions outgrows the reserve (more than 388 of them in jit.c).     *)
(* Both conditions are needed: execute_jit() neither invalidates blocks    *)
(* nor checks the cursor.                                                  *)
(***************************************************************************)
THEOREM JitRefinesInterpreter ==
  JitSpec /\ []ShortRuns /\ []CacheCoherent => ImplementsInterpreter
<1> DEFINE RefInv == JitInv /\ CompilingOK /\ RunningOK /\ CursorOK
<1>1. JitInit => RefInv /\ Interpreter!Init
  <2> SUFFICES ASSUME JitInit PROVE RefInv /\ Interpreter!Init
    OBVIOUS
  <2>1. JitInv /\ CursorOK
    BY JitInitInv, JitAssumption DEF JitInit, CursorOK
  <2>2. CompilingOK /\ RunningOK
    BY DEF JitInit, CompilingOK, RunningOK
  <2> QED BY <2>1, <2>2, JitInitMaps
<1>2. RefInv /\ CacheCoherent /\ ShortRuns /\ ShortRuns' /\ [JitNext]_allVars => RefInv'
  BY JitStepInv, CompilingStep, RunningStep, CursorStep
<1>3. RefInv /\ ShortRuns /\ [JitNext]_allVars => [Interpreter!Next]_(Interpreter!vars)
  BY JitStepMaps
<1> QED BY <1>1, <1>2, <1>3, PTL DEF JitSpec, ImplementsInterpreter, Interpreter!Spec

(***************************************************************************)
(* The same as conditions on the program: under -j a program without long  *)
(* compiled runs that never overwrites an instruction of a cached block,   *)
(* whatever else it stores, behaves as under the interpreter.              *)
(***************************************************************************)
THEOREM UnmodifiedProgramsRefine ==
  JitSpec /\ []ShortRuns /\ [][CodeUntouched]_allVars => ImplementsInterpreter
BY JitRefinesInterpreter, CoherentUnlessOverwritten, PTL
=============================================================================
