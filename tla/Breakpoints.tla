---------------------------- MODULE Breakpoints ----------------------------
(***************************************************************************)
(* What the debugger promises about breakpoints: they are a set of at most *)
(* MAX addresses, its replies tell the truth about that set, a program     *)
(* that was continued stops at the first breakpoint it reaches, having     *)
(* executed at least one instruction, and one that has ended never moves.  *)
(***************************************************************************)
EXTENDS FiniteSets, Integers

CONSTANTS Address, MAX

VARIABLES
  set,        \* the breakpoints
  pc,         \* where the program is
  running,    \* it was continued and has not stopped since
  ended,      \* it has exited or failed
  reply       \* what the last command said, and about which address

vars == <<set, pc, running, ended, reply>>

Endings == {<<"stop">>, <<"error">>, <<>>}

Init ==
  /\ set = {}
  /\ pc \in Address
  /\ running = FALSE
  /\ ended = FALSE
  /\ reply = <<>>

Add(a) ==
  /\ a \notin set
  /\ IF Cardinality(set) < MAX
       THEN set' = set \cup {a} /\ reply' = <<"set", a>>
       ELSE set' = set /\ reply' = <<"full">>

(* Adding a breakpoint that is there says nothing.                         *)
AddAgain(a) == a \in set /\ set' = set /\ reply' = <<>>

Delete(a) ==
  /\ set' = set \ {a}
  /\ reply' = IF a \in set THEN <<"removed", a>> ELSE <<"missing", a>>

Edit ==
  /\ ~ running
  /\ \E a \in Address : Add(a) \/ AddAgain(a) \/ Delete(a)
  /\ UNCHANGED <<pc, running, ended>>

(* The program ends, at the instruction that ended it.                     *)
End ==
  /\ ~ ended
  /\ ended' = TRUE
  /\ running' = FALSE
  /\ reply' \in Endings
  /\ UNCHANGED <<set, pc>>

(* A single step, which ignores breakpoints.                               *)
Step ==
  /\ ~ running /\ ~ ended
  /\ pc' \in Address
  /\ reply' = <<>>
  /\ UNCHANGED <<set, running, ended>>

(* A command that finds nothing to do.                                     *)
Idle ==
  /\ ~ running
  /\ reply' \in {<<>>} \cup (IF ended THEN {<<"finished">>} ELSE {})
  /\ UNCHANGED <<set, pc, running, ended>>

Resume ==
  /\ ~ running /\ ~ ended
  /\ running' = TRUE
  /\ reply' = <<>>
  /\ UNCHANGED <<set, pc, ended>>

Pass ==
  /\ running
  /\ pc' \in Address \ set
  /\ UNCHANGED <<set, running, ended, reply>>

Reach ==
  /\ running
  /\ running' = FALSE
  /\ pc' \in set
  /\ reply' = <<"breakpoint", pc'>>
  /\ UNCHANGED <<set, ended>>

Next == Edit \/ End \/ Step \/ Idle \/ Resume \/ Pass \/ Reach

Spec == Init /\ [][Next]_vars
=============================================================================
