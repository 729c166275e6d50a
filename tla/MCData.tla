------------------------------- MODULE MCData -------------------------------
(***************************************************************************)
(* Three programs in words of 8 bits (BITS = 2).                           *)
(*                                                                         *)
(* The first divides, multiplies, accumulates, counts, adds and shifts two *)
(* operands x and y, which it loads from the top of memory, for all pairs  *)
(* of boundary values.                                                     *)
(*                                                                         *)
(* The second copies a word between two addresses of any alignment, the    *)
(* end of memory and the device's registers included, with the pairs       *)
(* lwl/lwr and swl/swr, and then its halves and bytes.                     *)
(*                                                                         *)
(* The third moves a double through registers, pairs and memory, converts, *)
(* compares and branches on the result.                                    *)
(***************************************************************************)
EXTENDS Instructions, Assembler

CONSTANTS
  Operands,          \* values of x and y in the arithmetic program
  FewOperands,       \* ... and in the floating-point one
  Sources, Targets   \* addresses to copy from and to

X == 8
Y == 9

Src == 8
Dst == 9
Val == 10

Arithmetic == <<
  AsmI("LW", X, SP, 0), AsmI("LW", Y, SP, -4),
  AsmR("DIVU", R0, X, Y), AsmR("MFLO", 10, R0, R0), AsmR("MFHI", 11, R0, R0),
  AsmR("MULT", R0, X, Y), AsmR("MADD", R0, X, Y), AsmR("MADDU", R0, X, Y),
  AsmR("MTHI", R0, X, R0), AsmR("MTLO", R0, Y, R0), AsmR("MSUB", R0, X, Y),
  AsmR("MSUBU", R0, X, Y), AsmR("MULTU", R0, X, Y),
  AsmR("CLZ", 17, X, R0), AsmR("CLO", 18, X, R0),
  AsmR("ADD", 19, X, Y), AsmR("SUB", 20, X, Y), AsmR("ADD", K0, Y, Y),
  AsmI("ADDI", 21, X, 7), AsmI("ADDI", 22, Y, -8), AsmR("SUB", R0, Y, X),
  AsmR("SRAV", 27, Y, X), AsmShift("SRA", 28, Y, 3),
  \* signed division last: it may kill the emulator
  AsmR("DIV", R0, X, Y), Asm("BREAK")
>>

Copying == <<
  AsmI("LB", Src, SP, -1), AsmI("LW", Src, R0, -8), AsmI("LW", Dst, R0, -4),
  AsmI("LWL", Val, Src, 3), AsmI("LWR", Val, Src, 0),
  AsmI("SWL", Val, Dst, 3), AsmI("SWR", Val, Dst, 0),
  AsmI("LHU", 11, Src, 0), AsmI("LH", 12, Src, 2), AsmI("LBU", 13, Src, 3),
  AsmI("LB", 14, Src, 3),
  AsmI("SH", 11, Dst, 4), AsmI("SB", 12, Dst, 6), AsmI("SB", 14, Dst, 7),
  Asm("BREAK")
>>

FloatingPoint == <<
  AsmI("LW", X, SP, 0), AsmI("LW", Y, SP, -4),
  \* the double with low word x and high word y, to memory, to the pair
  \* that starts at the odd register 3, and to the one that overlaps it
  AsmM("MTC1", X, 0), AsmM("MTC1", Y, 1), AsmI("SDC1", 0, SP, -8),
  AsmI("LDC1", 3, SP, -8), AsmF("FMOV", FMT_D, 4, 3, 0),
  AsmM("MFC1", 10, 4), AsmM("MFC1", 11, 5),
  AsmF("FNEG", FMT_D, 6, 4, 0), AsmF("FABS", FMT_D, 6, 6, 0),
  AsmM("MFC1", 12, 6), AsmM("MFC1", 13, 7),
  \* the integers x and y as doubles, and back
  AsmF("CVT_D", FMT_W, 8, 0, 0), AsmF("CVT_D", FMT_W, 12, 1, 0),
  AsmF("CVT_W", FMT_D, 10, 8, 0), AsmM("MFC1", 14, 10),
  \* $16 = 1 unless x < y, $17 = 1 in the delay slot, $18 = 1 if x < y,
  \* $19 = 1 if y <= x
  AsmR("SLT", 15, X, Y),
  AsmC("C_LT", FMT_D, 8, 12), AsmI("BC1", 1, R0, 2), AsmI("ADDIU", 17, R0, 1),
  AsmI("ADDIU", 16, R0, 1), AsmI("BC1", 0, R0, 2), Asm("NOP"), AsmI("ADDIU", 18, R0, 1),
  AsmC("C_LE", FMT_D, 12, 8), AsmI("BC1", 0, R0, 2), Asm("NOP"), AsmI("ADDIU", 19, R0, 1),
  \* the same double in the pair of register 31
  AsmI("LDC1", 31, SP, -8), AsmI("BC1", 1, R0, 2), AsmM("MFC1", 22, 31),
  AsmI("ADDIU", 21, R0, 1),
  \* a single to memory and back; $20 = 1 if it equals itself
  AsmF("FADD", FMT_S, 14, 0, 1), AsmI("SWC1", 14, SP, -4), AsmI("LWC1", 15, SP, -4),
  AsmC("C_EQ", FMT_S, 14, 15), AsmI("BC1", 0, R0, 2), AsmM("MFC1", R0, 0),
  AsmI("ADDIU", 20, R0, 1),
  \* there is no cvt.s.s
  AsmF("CVT_S", FMT_S, 0, 0, 0)
>>

MCDecode == Assemble(Arithmetic \o Copying \o FloatingPoint)

(* The first word of each program, and its code.                           *)
FirstCopying == Len(Arithmetic) + 1
FirstFloatingPoint == FirstCopying + Len(Copying)
Code(listing, first) == [k \in 0..(Len(listing) - 1) |-> first + k]

(* The operands, and the two addresses, are in the last words of memory.   *)
(* Two fillings of the memory after the copying code, so that neighbouring *)
(* bytes differ.                                                           *)
MCPrograms ==
  LET arithmetic == Image(Code(Arithmetic, 1))
      copying == Image(Code(Copying, FirstCopying))
      floating == Image(Code(FloatingPoint, FirstFloatingPoint))
      Filled(k) == [a \in Word |-> IF a < 64 THEN copying[a] ELSE (a * k + 1) % BYTE]
  IN {PutWord(PutWord(arithmetic, WORD - 4, x), WORD - 8, y) :
        x \in Operands, y \in Operands}
     \cup
     {PutWord(PutWord(floating, WORD - 4, x), WORD - 8, y) :
        x \in FewOperands, y \in FewOperands}
     \cup
     {PutWord(PutWord(Filled(k), WORD - 8, s), WORD - 4, d) :
        k \in {1, 3}, s \in Sources, d \in Targets}

(* The boundary values of an 8-bit word.                                   *)
MCOperands == {0, 1, 2, 3, 5, 16, 100, 127, 128, 129, 131, 200, 253, 254, 255}
MCFewOperands == {0, 1, 2, 7, 8, 127, 128, 129, 253, 255}
MCSources == 100..103 \cup 252..255 \cup {193}
MCTargets == 128..131 \cup 241..244 \cup {193}

DoneFloatingPoint == status # "run" /\ WordAt(memory, 0) = FirstFloatingPoint

(* A double keeps its bits through sdc1, ldc1, mov.d between overlapping   *)
(* pairs and mfc1, the low word in the lower register (fpu.c:15), and      *)
(* abs.d of its negation only clears the sign bit of the high word.  The   *)
(* high half of the pair of register 31 is fp_cond: a double loaded there  *)
(* decides the next bc1t.                                                  *)
FpuPairs ==
  DoneFloatingPoint =>
    /\ reg[10] = reg[X] /\ reg[11] = reg[Y]
    /\ reg[12] = reg[X] /\ reg[13] = reg[Y] % (WORD \div 2)
    /\ reg[22] = reg[X] /\ reg[21] = Flag(reg[Y] # 1)

(* Integers survive the conversion to double and back, their doubles       *)
(* compare as slt compares them, bc1t and bc1f take opposite ways after    *)
(* one delay slot, and the program stops with an error at the operation    *)
(* that does not exist (fp_double, fp_word, exec_cop1).                    *)
FpuBranches ==
  DoneFloatingPoint =>
    /\ reg[14] = reg[X] /\ reg[17] = 1
    /\ reg[18] = reg[15] /\ reg[16] = 1 - reg[15] /\ reg[19] = 1 - reg[15]
    /\ reg[20] = Flag(~ IsNan(FMT_S, fpr[14]))
    /\ status = "error"

(* README:78 "a trap writes 1 to $k0 on overflow and 0 otherwise instead   *)
(* of raising a real exception": no operands of an arithmetic instruction  *)
(* kill the emulator.                                                      *)
NoRealException == status # "crash"
=============================================================================
