----------------------------- MODULE DelaySlot -----------------------------
(***************************************************************************)
(* What the branch-delay pipeline promises: the architecture's pair of     *)
(* program counters.  The instruction at pc executes, the one at npc comes *)
(* next whatever it does, and all it can decide is the one after that, if  *)
(* it is a branch or a jump.                                               *)
(***************************************************************************)
EXTENDS Integers

CONSTANTS
  Address,      \* the addresses
  After(_),     \* the address of the next instruction in memory
  Entries       \* where a program may start

VARIABLES
  pc, npc,      \* the instruction to execute, and the one after it
  control,      \* the instruction at pc is a branch or a jump
  running       \* FALSE once the machine has stopped

vars == <<pc, npc, control, running>>

Init ==
  /\ pc \in Entries
  /\ npc = After(pc)
  /\ control \in BOOLEAN
  /\ running = TRUE

(* Fall through: the instruction after the next one follows it in memory.  *)
Sequential ==
  /\ running
  /\ pc' = npc
  /\ npc' = After(npc)
  /\ control' \in BOOLEAN
  /\ UNCHANGED running

(* A taken branch: the delay slot at npc still executes first.             *)
Transfer ==
  /\ running
  /\ control
  /\ pc' = npc
  /\ npc' \in Address
  /\ control' \in BOOLEAN
  /\ UNCHANGED running

(* Stopping is precise: pc still names the instruction that stopped the    *)
(* machine, and a branch scheduled before it is forgotten.  Branches and   *)
(* jumps themselves never stop it.                                         *)
Stop ==
  /\ running
  /\ ~ control
  /\ running' = FALSE
  /\ npc' = After(pc)
  /\ UNCHANGED <<pc, control>>

Next == Sequential \/ Transfer \/ Stop

Spec == Init /\ [][Next]_vars
=============================================================================
