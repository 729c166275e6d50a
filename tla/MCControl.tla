----------------------------- MODULE MCControl -----------------------------
(***************************************************************************)
(* Every program of four instructions drawn from a listing of branches,    *)
(* jumps, calls and traps, in a machine whose memory is those four words   *)
(* (BITS = 1), started at each of them: branches in delay slots, calls in  *)
(* delay slots, jumps to odd addresses and falling off the end of memory   *)
(* all happen.                                                             *)
(***************************************************************************)
EXTENDS Cpu, Assembler

T0 == 8

MCListing == <<
  AsmI("BNE", T0, R0, -2),            \* bne $0, $t0, -2
  AsmI("BGTZ", R0, T0, 1),            \* bgtz $t0, 1
  AsmI("BLEZ", R0, T0, 2),            \* blez $t0, 2
  AsmI("REGIMM", BLTZAL, T0, -1),     \* bltzal $t0, -1
  AsmI("REGIMM", BGEZAL, R0, 1),      \* bal 1
  AsmJ("JAL", 1),                     \* jal
  AsmR("JR", R0, RA, R0),             \* jr $ra
  AsmR("JALR", R0, T0, R0),           \* jalr $0, $t0
  AsmI("ADDI", T0, T0, -1),           \* addi $t0, $t0, -1
  AsmC("C_EQ", FMT_S, 0, 1),          \* c.eq.s $f0, $f1
  AsmI("BC1", 1, R0, -1),             \* bc1t -1
  Asm("BREAK")                        \* break
>>

MCDecode == Assemble(MCListing)

(* All the memories made of four words of the listing, nop or illegal.     *)
MCPrograms == {Image(ws) : ws \in [0..3 -> 0..(Len(MCListing) + 1)]}
=============================================================================
