------------------------------- MODULE MCJit -------------------------------
(***************************************************************************)
(* Every program of CodeWords instructions of a listing that mixes         *)
(* compiled arithmetic with branches, calls and a trapping add, run by the *)
(* JIT, zeros (nops) behind it.                                            *)
(* BITS = 1; blocks of at most MAX_BLOCK instructions, a cache whose slots *)
(* several blocks compete for, a buffer that fills up.  The listing has no *)
(* store: the programs leave their code alone.                             *)
(***************************************************************************)
EXTENDS Jit, Assembler

CONSTANT CodeWords    \* words of a program that hold instructions

T0 == 8

MCListing == <<
  AsmI("ADDIU", T0, T0, -1),          \* addiu $t0, $t0, -1
  AsmR("SRAV", T0, RA, T0),           \* srav $t0, $t0, $ra
  AsmR("SLT", R0, R0, T0),            \* slt $0, $0, $t0
  AsmR("MOVN", T0, SP, T0),           \* movn $t0, $sp, $t0
  AsmI("BNE", T0, R0, -2),            \* bne $0, $t0, -2
  AsmI("REGIMM", BGEZAL, T0, 1),      \* bgezal $t0, 1
  AsmR("JR", R0, T0, R0),             \* jr $t0
  AsmI("ADDI", T0, T0, 1),            \* addi $t0, $t0, 1
  Asm("BREAK")                        \* break
>>

MCDecode == Assemble(MCListing)

MCPrograms == {Image(ws) : ws \in [0..(CodeWords - 1) -> 0..Len(MCListing)]}
=============================================================================
