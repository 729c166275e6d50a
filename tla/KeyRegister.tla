---------------------------- MODULE KeyRegister ----------------------------
(***************************************************************************)
(* What the emulated machine relies on of its keyboard register: polling   *)
(* takes the key, presenting a frame keeps it or replaces it.  These are   *)
(* KeyAfterLoad and KeysAfterStore of Machine, as a specification.         *)
(***************************************************************************)
CONSTANT Keys    \* what a key press can leave in the register

VARIABLES
  key,           \* the register; 0 when no key waits
  answer         \* what the last poll returned

Init == key = 0 /\ answer = 0

Poll == answer' = key /\ key' = 0

Present == key' \in Keys \cup {key} /\ UNCHANGED answer

Spec == Init /\ [][Poll \/ Present]_<<key, answer>>
=============================================================================
