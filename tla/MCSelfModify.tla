---------------------------- MODULE MCSelfModify ----------------------------
(***************************************************************************)
(* Programs that store into their own code, run by the JIT with a reserve  *)
(* that is smaller than the largest block, as in the code.  BITS = 1.      *)
(***************************************************************************)
EXTENDS Jit, Assembler

T0 == 8

MCListing == <<
  AsmI("ADDIU", T0, T0, 1),           \* addiu $t0, $t0, 1
  AsmI("SW", T0, R0, 0),              \* sw $t0, 0($0)
  AsmJ("J", 0),                       \* j 0
  AsmI("LW", RA, R0, 0),              \* lw $ra, 0($0)
  Asm("BREAK")                        \* break
>>

MCDecode == Assemble(MCListing)

MCPrograms == {Image(ws) : ws \in [0..3 -> 0..Len(MCListing)]}
=============================================================================
