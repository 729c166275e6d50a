------------------------------ MODULE MCConsole -----------------------------
(***************************************************************************)
(* Sessions at a terminal and at a pipe, of up to six characters, line     *)
(* ends and ends of input, with a vec that starts with one byte and a      *)
(* stdio that reads ahead up to three.                                     *)
(***************************************************************************)
EXTENDS Console
=============================================================================
