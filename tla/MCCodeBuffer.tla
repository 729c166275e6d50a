---------------------------- MODULE MCCodeBuffer ----------------------------
(***************************************************************************)
(* Two long runs of compiled instructions, one after the other, with the   *)
(* block limit and the reserve of the code divided by 32 (MAX_BLOCK = 32   *)
(* for 1024, RESERVE = 256 for 8192) and a buffer that the first block     *)
(* nearly fills.                                                           *)
(***************************************************************************)
EXTENDS Jit, Assembler

T0 == 8

MCListing == <<AsmR("ADDU", T0, T0, SP), AsmJ("J", 0)>>

MCDecode == Assemble(MCListing)

(* 62 times addu, then j and its delay slot.                               *)
MCPrograms == {Image([k \in 0..62 |-> IF k < 62 THEN 1 ELSE 2])}
=============================================================================
