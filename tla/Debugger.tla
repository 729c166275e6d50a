------------------------------ MODULE Debugger ------------------------------
(***************************************************************************)
(* The integrated debugger (dbg.c, flag -d): it reads commands and steps   *)
(* the interpreter of Cpu itself, so that only its own flag halted keeps   *)
(* it from stepping a program that has ended.  The commands that only      *)
(* print (breakpoints, registers, print, memory, code, help) and lines     *)
(* that are not a command change nothing.                                  *)
(***************************************************************************)
EXTENDS Cpu

CONSTANTS
  MAX_BREAKPOINTS,   \* 128
  BreakAddresses,    \* addresses the user types
  StepCounts         \* arguments of step; strtol may make them negative

ASSUME DebuggerAssumption ==
  /\ MAX_BREAKPOINTS \in Nat
  /\ BreakAddresses \subseteq Word
  /\ StepCounts \subseteq Int

VARIABLES
  breakpoints,  \* the first nbreakpoints cells of the array
  halted,       \* the program has exited or failed
  command,      \* "prompt", or the command in progress: "step", "continue";
                \* "quit" once the debugger has returned
  todo,         \* iterations left in the loop of step
  reply         \* the message of the last command and the address in it

dbgVars == <<breakpoints, halted, command, todo, reply>>
debugVars == <<vars, dbgVars>>

DebugInit ==
  /\ Init
  /\ breakpoints = <<>>
  /\ halted = FALSE
  /\ command = "prompt"
  /\ todo = 0
  /\ reply = <<>>

bp_contains(a) == \E k \in DOMAIN breakpoints : breakpoints[k] = a

(* At the prompt of a debugger that is alive.                              *)
Prompt == command = "prompt" /\ status # "crash"

(* Mutant of bp_add: the table is not checked for room.                    *)
bp_add_NoLimit ==
  /\ Prompt
  /\ \E a \in BreakAddresses :
       IF bp_contains(a) THEN breakpoints' = breakpoints /\ reply' = <<>>
       ELSE breakpoints' = Append(breakpoints, a) /\ reply' = <<"set", a>>
  /\ UNCHANGED <<vars, halted, command, todo>>

bp_add ==
  /\ Prompt
  /\ \E a \in BreakAddresses :
       \/ bp_contains(a) /\ breakpoints' = breakpoints /\ reply' = <<>>
       \/ /\ ~ bp_contains(a) /\ Len(breakpoints) >= MAX_BREAKPOINTS
          /\ breakpoints' = breakpoints /\ reply' = <<"full">>
       \/ /\ ~ bp_contains(a) /\ Len(breakpoints) < MAX_BREAKPOINTS
          /\ breakpoints' = Append(breakpoints, a) /\ reply' = <<"set", a>>
  /\ UNCHANGED <<vars, halted, command, todo>>

(* Mutant of RemoveAt: the last breakpoint is dropped, not moved.          *)
RemoveAt_DropsLast(s, k) == SubSeq(s, 1, Len(s) - 1)

(* The last breakpoint moves into the place of the first match.            *)
RemoveAt(s, k) == SubSeq([s EXCEPT ![k] = s[Len(s)]], 1, Len(s) - 1)

bp_delete ==
  /\ Prompt
  /\ \E a \in BreakAddresses :
       \/ \E k \in DOMAIN breakpoints :
            /\ breakpoints[k] = a
            /\ \A j \in 1..(k - 1) : breakpoints[j] # a
            /\ breakpoints' = RemoveAt(breakpoints, k)
            /\ reply' = <<"removed", a>>
       \/ /\ ~ bp_contains(a)
          /\ breakpoints' = breakpoints /\ reply' = <<"missing", a>>
  /\ UNCHANGED <<vars, halted, command, todo>>

(* do_step: one instruction, and halted when it did not return 0.          *)
do_step ==
  /\ exec_inst
  /\ halted' = (status' # "run")

(* What do_step says of the instruction it has executed.                   *)
Verdict == IF status' \in {"stop", "error"} THEN <<status'>> ELSE <<>>

StepCommand ==
  /\ Prompt
  /\ command' = "step"
  /\ todo' \in StepCounts
  /\ reply' = <<>>
  /\ UNCHANGED <<vars, breakpoints, halted>>

(* Mutant of StepOnce: the loop does not count.                            *)
StepOnce_NoCount ==
  /\ command = "step"
  /\ status # "crash"
  /\ todo > 0
  /\ ~ halted
  /\ do_step
  /\ reply' = Verdict
  /\ UNCHANGED <<breakpoints, command, todo>>

StepOnce ==
  /\ command = "step"
  /\ status # "crash"
  /\ todo > 0
  /\ ~ halted
  /\ do_step
  /\ reply' = Verdict
  /\ todo' = todo - 1
  /\ UNCHANGED <<breakpoints, command>>

(* Mutant of StepDone: the delay-slot pipeline ends with the command.      *)
StepDone_DropsBranch ==
  /\ command = "step"
  /\ todo <= 0 \/ halted
  /\ command' = "prompt"
  /\ todo' = 0
  /\ branch_pending' = FALSE
  /\ UNCHANGED <<reg, hi, lo, fpr, memory, pc, branch_target, last_key, status,
                 breakpoints, halted, reply>>

StepDone ==
  /\ command = "step"
  /\ todo <= 0 \/ halted
  /\ command' = "prompt"
  /\ todo' = 0
  /\ UNCHANGED <<vars, breakpoints, halted, reply>>

ContinueCommand ==
  /\ Prompt
  /\ \/ halted /\ command' = command /\ reply' = <<"finished">>
     \/ ~ halted /\ command' = "continue" /\ reply' = <<>>
  /\ UNCHANGED <<vars, breakpoints, halted, todo>>

(* One turn of the loop of do_continue.                                    *)
ContinueOnce ==
  /\ command = "continue"
  /\ status # "crash"
  /\ do_step
  /\ \/ halted' /\ command' = "prompt" /\ reply' = Verdict
     \/ ~ halted' /\ (\E k \in DOMAIN breakpoints : breakpoints[k] = pc')
          /\ command' = "prompt" /\ reply' = <<"breakpoint", pc'>>
     \/ ~ halted' /\ (\A k \in DOMAIN breakpoints : breakpoints[k] # pc')
          /\ command' = "continue" /\ reply' = Verdict
  /\ UNCHANGED <<breakpoints, todo>>

(* exit, end of input, an empty line, or ctrl-C at the prompt.             *)
Quit ==
  /\ Prompt
  /\ command' = "quit"
  /\ UNCHANGED <<vars, breakpoints, halted, todo, reply>>

DebugStopped ==
  /\ command = "quit" \/ status = "crash"
  /\ UNCHANGED debugVars

DebugNext ==
  \/ bp_add \/ bp_delete
  \/ StepCommand \/ StepOnce \/ StepDone
  \/ ContinueCommand \/ ContinueOnce
  \/ Quit \/ DebugStopped

(* A command that runs is not interrupted; the user may stop typing.       *)
DebugSpec ==
  /\ DebugInit /\ [][DebugNext]_debugVars
  /\ WF_debugVars(StepOnce \/ StepDone \/ ContinueOnce)

-----------------------------------------------------------------------------
(* The breakpoint table never holds more entries than the array has cells, *)
(* and the counter of step stays in the range of its type (dbg.c).         *)
DebugTypeOK ==
  /\ TypeOK
  /\ breakpoints \in Seq(Word)
  /\ Len(breakpoints) <= MAX_BREAKPOINTS
  /\ halted \in BOOLEAN
  /\ command \in {"prompt", "step", "continue", "quit"}
  /\ todo \in StepCounts \cup Nat
  /\ \/ reply \in {<<>>, <<"full">>, <<"finished">>, <<"stop">>, <<"error">>}
     \/ reply \in {"set", "removed", "missing", "breakpoint"} \X Word

BreakpointSet ==
  INSTANCE Breakpoints WITH
    Address <- Word, MAX <- MAX_BREAKPOINTS,
    set <- {breakpoints[k] : k \in DOMAIN breakpoints},
    running <- command = "continue" /\ ~ halted,
    ended <- halted

(* The array is a set: an address that was deleted is gone, no add or      *)
(* delete loses another one, and each reply is true; continue stops at the   *)
(* first breakpoint it reaches after leaving the one it may have started   *)
(* from.                                                                   *)
ImplementsBreakpoints == BreakpointSet!Spec

(* cpu.c:320 "Shared by execute() and the integrated debugger so both step *)
(* identically": what a session does to the machine is a run of the        *)
(* interpreter, however the commands cut it (a branch scheduled by one     *)
(* command takes effect in the next), and nothing moves once it has ended. *)
ImplementsCpu == Spec

(* step always gives the prompt back, however large its argument and       *)
(* whatever the program does, unless the program kills the emulator.       *)
StepReturns == (command = "step") ~> (command = "prompt" \/ status = "crash")
=============================================================================
