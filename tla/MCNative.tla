------------------------------ MODULE MCNative ------------------------------
(***************************************************************************)
(* One program of every instruction that the compiler translates, on two   *)
(* operands x and y that it loads from the top of memory, in words of 8    *)
(* bits (BITS = 2).  It runs under -j: the emitted x86-64 code computes    *)
(* what the interpreter computes.                                          *)
(***************************************************************************)
EXTENDS Jit, Assembler

CONSTANT Operands    \* values of x and y

X == 8
Y == 9

Compiled == <<
  AsmI("LW", X, SP, 0), AsmI("LW", Y, SP, -4),
  AsmR("ADDU", 10, X, Y), AsmR("SUBU", 11, X, Y), AsmR("AND", 12, X, Y),
  AsmR("OR", 13, X, Y), AsmR("XOR", 14, X, Y), AsmR("NOR", 15, X, Y),
  AsmR("SLT", 16, X, Y), AsmR("SLTU", 17, X, Y),
  AsmShift("SLL", 18, X, 3), AsmShift("SRL", 19, X, 7), AsmShift("SRA", 20, X, 5),
  AsmR("SLLV", 21, X, Y), AsmR("SRLV", 22, X, Y), AsmR("SRAV", 23, X, Y),
  AsmR("MTHI", R0, X, R0), AsmR("MTLO", R0, Y, R0),
  AsmR("MFHI", 24, R0, R0), AsmR("MFLO", 25, R0, R0),
  AsmR("MOVZ", X, Y, 17), AsmR("MOVN", X, Y, 16), AsmR("MOVN", R0, Y, Y),
  AsmI("ADDIU", 26, X, -3), AsmI("ANDI", 27, X, -3), AsmI("ORI", 28, X, -3),
  AsmI("XORI", 30, X, -3), AsmI("SLTI", 31, X, -3), AsmI("SLTIU", 7, X, -3),
  AsmI("LUI", 6, R0, -3), AsmI("LUI", R0, R0, 5), AsmR("ADDU", R0, X, Y),
  AsmI("SLTIU", R0, X, -3), Asm("BREAK")
>>

MCDecode == Assemble(Compiled)

(* The operands are in the last words of memory.                           *)
MCPrograms ==
  LET image == Image([k \in 0..(Len(Compiled) - 1) |-> k + 1])
  IN {PutWord(PutWord(image, WORD - 4, x), WORD - 8, y) : x \in Operands, y \in Operands}

(* The boundary values of an 8-bit word.                                   *)
MCOperands == {0, 1, 2, 7, 8, 127, 128, 129, 253, 255}
=============================================================================
