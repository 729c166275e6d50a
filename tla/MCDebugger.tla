----------------------------- MODULE MCDebugger -----------------------------
(***************************************************************************)
(* Debugger sessions on programs of four words that loop, trap, divide     *)
(* INT_MIN by -1 and end, with more addresses to break at than the table   *)
(* has room for (BITS = 1).                                                *)
(***************************************************************************)
EXTENDS Debugger, Assembler

T0 == 8
T1 == 9

MCListing == <<
  AsmI("ADDIU", T0, T0, 1),           \* addiu $t0, $t0, 1
  AsmI("BNE", T0, R0, -2),            \* bne $0, $t0, -2
  AsmJ("J", 0),                       \* j 0
  AsmI("LUI", T1, R0, 2),             \* lui $t1, INT_MIN
  AsmI("ADDIU", T0, R0, -1),          \* addiu $t0, $0, -1
  AsmR("DIV", R0, T1, T0),            \* div $t1, $t0
  Asm("BREAK"),                       \* break
  Asm("ILLEGAL")
>>

MCDecode == Assemble(MCListing)

(* A counting loop, a loop that jumps, an exit, an error and a kill.       *)
MCPrograms ==
  {Image([k \in 0..3 |-> ws[k + 1]]) :
     ws \in {<<1, 2, 0, 7>>, <<3, 1, 1, 8>>, <<1, 1, 7, 0>>, <<4, 5, 6, 7>>}}

MCStepCounts == {-1, 1, 2}
=============================================================================
