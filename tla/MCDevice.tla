------------------------------ MODULE MCDevice ------------------------------
(***************************************************************************)
(* Frames, polls and up to three events, with a letter, 'q', an arrow key  *)
(* that shares the low byte of a letter, and a symbol whose low byte is 0. *)
(***************************************************************************)
EXTENDS Device

MCSyms == {97, 113, 1073741824 + 97, 1073741824 + 256}
=============================================================================
