--------------------------- MODULE DebuggerProofs ---------------------------
(***************************************************************************)
(* A debugger session is a run of the interpreter, its breakpoint array is *)
(* a set, and its variables stay within their types, for every size of the *)
(* array, every address and step count the user types, and every program.  *)
(***************************************************************************)
EXTENDS Debugger, CpuProofs, SequenceTheorems

(* halted tells that the program has ended, and a program that continues   *)
(* has not.  This is what stands between a session and a machine that is   *)
(* stepped after its end: ContinueOnce and do_step test nothing.           *)
HaltedInv ==
  /\ halted \in BOOLEAN
  /\ halted <=> status # "run"
  /\ command = "continue" => ~ halted /\ reply = <<>>

(* The cells of the array that are in use hold different addresses.        *)
BreakpointsOK ==
  /\ breakpoints \in Seq(Word)
  /\ Len(breakpoints) <= MAX_BREAKPOINTS
  /\ \A j, k \in 1..Len(breakpoints) : breakpoints[j] = breakpoints[k] => j = k

(* The invariant holds initially.                                          *)
LEMMA HaltedInit == DebugInit => HaltedInv
BY DEF DebugInit, Init, HaltedInv

(* Every step of the debugger keeps it, and steps the machine only while   *)
(* it runs.                                                                *)
LEMMA HaltedNext ==
  ASSUME HaltedInv, [DebugNext]_debugVars
  PROVE  HaltedInv' /\ [Next]_vars
<1>1. CASE bp_add \/ bp_delete
  <2>1. UNCHANGED <<vars, halted, command>> /\ command = "prompt"
    BY <1>1 DEF bp_add, bp_delete, Prompt
  <2> QED BY <2>1 DEF HaltedInv, vars
<1>2. CASE StepCommand \/ StepDone \/ Quit
  BY <1>2 DEF StepCommand, StepDone, Quit, HaltedInv, vars
<1>3. CASE StepOnce
  <2>1. status = "run"
    BY <1>3 DEF StepOnce, HaltedInv
  <2>2. step_instruction
    BY <1>3, <2>1 DEF StepOnce, do_step, step_instruction
  <2>3. command' = "step" /\ halted' = (status' # "run")
    BY <1>3 DEF StepOnce, do_step
  <2> QED BY <2>2, <2>3 DEF HaltedInv, Next
<1>4. CASE ContinueCommand
  BY <1>4 DEF ContinueCommand, Prompt, HaltedInv, vars
<1>5. CASE ContinueOnce
  <2>1. status = "run"
    BY <1>5 DEF ContinueOnce, HaltedInv
  <2>2. step_instruction
    BY <1>5, <2>1 DEF ContinueOnce, do_step, step_instruction
  <2>3. halted' = (status' # "run")
    BY <1>5 DEF ContinueOnce, do_step
  <2>4. command' = "continue" => ~ halted' /\ reply' = <<>>
    BY <1>5, <2>3 DEF ContinueOnce, Verdict
  <2> QED BY <2>2, <2>3, <2>4 DEF HaltedInv, Next
<1>6. CASE UNCHANGED debugVars
  BY <1>6 DEF debugVars, dbgVars, vars, HaltedInv
<1> QED
  BY <1>1, <1>2, <1>3, <1>4, <1>5, <1>6 DEF DebugNext, DebugStopped

(***************************************************************************)
(* cpu.c:320: the debugger steps the machine as execute() does.  However   *)
(* the commands cut the run, what they do to the machine is a behaviour of *)
(* the interpreter, and nothing moves once it has ended.                   *)
(***************************************************************************)
THEOREM SessionIsRun == DebugSpec => ImplementsCpu
<1>1. DebugInit => Init
  BY DEF DebugInit
<1>2. HaltedInv /\ [DebugNext]_debugVars => HaltedInv' /\ [Next]_vars
  BY HaltedNext
<1> QED BY <1>1, <1>2, HaltedInit, PTL DEF DebugSpec, Spec, ImplementsCpu

(* The machine's invariant and halted's hold throughout a session.         *)
LEMMA SessionInv == DebugSpec => [](Inv /\ FpuOK /\ HaltedInv)
<1>1. HaltedInv /\ [DebugNext]_debugVars => HaltedInv'
  BY HaltedNext
<1> QED BY <1>1, HaltedInit, SessionIsRun, InvHolds, PTL DEF DebugSpec, ImplementsCpu

(***************************************************************************)
(* The breakpoint array.                                                   *)
(***************************************************************************)
Cells(s) == {s[k] : k \in DOMAIN s}

(* Adding an address that is not in the array.                             *)
LEMMA AppendCell ==
  ASSUME NEW s \in Seq(Word), NEW a \in Word,
         \A j, k \in 1..Len(s) : s[j] = s[k] => j = k,
         \A k \in 1..Len(s) : s[k] # a
  PROVE  /\ Append(s, a) \in Seq(Word) /\ Len(Append(s, a)) = Len(s) + 1
         /\ \A j, k \in 1..Len(Append(s, a)) : Append(s, a)[j] = Append(s, a)[k] => j = k
         /\ Cells(Append(s, a)) = Cells(s) \cup {a}
<1> DEFINE t == Append(s, a)
<1>1. /\ t \in Seq(Word) /\ Len(t) = Len(s) + 1 /\ Len(s) \in Nat
      /\ \A k \in 1..Len(s) : t[k] = s[k]
      /\ t[Len(s) + 1] = a
      /\ DOMAIN t = 1..Len(t) /\ DOMAIN s = 1..Len(s)
  BY AppendProperties, LenProperties
<1> HIDE DEF t
<1>2. \A j, k \in 1..Len(t) : t[j] = t[k] => j = k
  BY <1>1
<1>3. Cells(t) = Cells(s) \cup {a}
  BY <1>1 DEF Cells
<1> QED BY <1>1, <1>2, <1>3 DEF t

(* Removing a cell by moving the last one into its place removes its       *)
(* address and no other one.                                               *)
LEMMA RemoveCell ==
  ASSUME NEW s \in Seq(Word), NEW n \in 1..Len(s),
         \A j, k \in 1..Len(s) : s[j] = s[k] => j = k
  PROVE  /\ RemoveAt(s, n) \in Seq(Word) /\ Len(RemoveAt(s, n)) = Len(s) - 1
         /\ \A j, k \in 1..Len(RemoveAt(s, n)) :
              RemoveAt(s, n)[j] = RemoveAt(s, n)[k] => j = k
         /\ Cells(RemoveAt(s, n)) = Cells(s) \ {s[n]}
<1> DEFINE e == [s EXCEPT ![n] = s[Len(s)]]
           t == RemoveAt(s, n)
<1>1. Len(s) \in Nat /\ Len(s) >= 1 /\ s[Len(s)] \in Word /\ DOMAIN s = 1..Len(s)
  BY LenProperties
<1>2. \A j \in 1..Len(s) : e[j] \in Word /\ e[j] = IF j = n THEN s[Len(s)] ELSE s[j]
  BY <1>1, ExceptSeq, ElementOfSeq
<1> HIDE DEF e
<1>3. /\ t \in Seq(Word) /\ Len(t) = Len(s) - 1
      /\ \A j \in 1..(Len(s) - 1) : t[j] = e[j]
  <2>1. \A j \in 1..(Len(s) - 1) : e[j] \in Word
    BY <1>1, <1>2
  <2>2. /\ SubSeq(e, 1, Len(s) - 1) \in Seq(Word)
        /\ Len(SubSeq(e, 1, Len(s) - 1)) = IF 1 <= Len(s) - 1 THEN Len(s) - 1 - 1 + 1 ELSE 0
        /\ \A j \in 1..(Len(s) - 1 - 1 + 1) : SubSeq(e, 1, Len(s) - 1)[j] = e[1 + j - 1]
    BY <1>1, <2>1, SubSeqProperties
  <2> QED BY <1>1, <2>2 DEF RemoveAt, e
<1> HIDE DEF t
<1>4. \A j \in 1..Len(t) : t[j] = IF j = n THEN s[Len(s)] ELSE s[j]
  BY <1>1, <1>2, <1>3
<1>5. DOMAIN t = 1..Len(t)
  BY <1>3, LenProperties
<1>6. \A j, k \in 1..Len(t) : t[j] = t[k] => j = k
  BY <1>1, <1>3, <1>4
<1>7. Cells(t) = Cells(s) \ {s[n]}
  <2>0. Len(s) \in Nat /\ Len(t) = Len(s) - 1 /\ n \in 1..Len(s)
    BY <1>1, <1>3
  <2>1. ASSUME NEW j \in 1..Len(t) PROVE t[j] \in Cells(s) \ {s[n]}
    <3>1. j \in 1..Len(s) /\ Len(s) \in 1..Len(s) /\ j # Len(s)
      BY <2>0
    <3>2. CASE j = n
      BY <1>1, <1>4, <3>1, <3>2 DEF Cells
    <3>3. CASE j # n
      BY <1>1, <1>4, <3>1, <3>3 DEF Cells
    <3> QED BY <3>2, <3>3
  <2>2. ASSUME NEW k \in 1..Len(s), k # n PROVE \E j \in 1..Len(t) : t[j] = s[k]
    <3>1. CASE k = Len(s)
      <4>1. n \in 1..Len(t)
        BY <2>0, <2>2, <3>1
      <4>2. t[n] = s[k]
        BY <1>4, <3>1, <4>1
      <4> QED BY <4>1, <4>2
    <3>2. CASE k # Len(s)
      <4>1. k \in 1..Len(t)
        BY <2>0, <2>2, <3>2
      <4>2. t[k] = s[k]
        BY <1>4, <2>2, <4>1
      <4> QED BY <4>1, <4>2
    <3> QED BY <3>1, <3>2
  <2>3. \A v : v \in Cells(t) <=> \E j \in 1..Len(t) : v = t[j]
    BY <1>5 DEF Cells
  <2>4. \A v : v \in Cells(s) <=> \E k \in 1..Len(s) : v = s[k]
    BY <1>1 DEF Cells
  <2>5. ASSUME NEW v \in Cells(t) PROVE v \in Cells(s) \ {s[n]}
    <3>1. PICK j \in 1..Len(t) : v = t[j]
      BY <2>3
    <3> QED BY <2>1, <3>1
  <2>6. ASSUME NEW v \in Cells(s) \ {s[n]} PROVE v \in Cells(t)
    <3>1. PICK k \in 1..Len(s) : v = s[k]
      BY <2>4
    <3>2. k # n
      BY <3>1
    <3>3. PICK j \in 1..Len(t) : t[j] = s[k]
      BY <2>2, <3>2
    <3> QED BY <2>3, <3>1, <3>3
  <2> HIDE DEF Cells
  <2> QED BY <2>5, <2>6
<1> QED BY <1>3, <1>6, <1>7 DEF t

(* The array has as many cells as its set has elements.                    *)
LEMMA CellCount ==
  ASSUME NEW s \in Seq(Word), \A j, k \in 1..Len(s) : s[j] = s[k] => j = k
  PROVE  Cardinality(Cells(s)) = Len(s)
<1>1. Len(s) \in Nat /\ DOMAIN s = 1..Len(s)
  BY LenProperties
<1>2. s \in [1..Len(s) -> Cells(s)]
  BY <1>1, LenProperties DEF Cells
<1>3. s \in Bijection(1..Len(s), Cells(s))
  BY <1>1, <1>2 DEF Bijection, Injection, Surjection, IsInjective, Cells
<1>4. IsFiniteSet(1..Len(s)) /\ Cardinality(1..Len(s)) = Len(s)
  BY <1>1, FS_Interval
<1> QED BY <1>3, <1>4, FS_Bijection DEF ExistsBijection

(* The empty array.                                                        *)
LEMMA BreakpointsInit == DebugInit => BreakpointsOK
BY DebuggerAssumption DEF DebugInit, BreakpointsOK

(* No command lets the array outgrow its size or hold an address twice,    *)
(* and only the commands of breakpoints touch it.                          *)
LEMMA BreakpointsNext ==
  ASSUME BreakpointsOK, [DebugNext]_debugVars
  PROVE  BreakpointsOK'
<1>1. CASE bp_add
  <2>1. PICK a \in BreakAddresses :
          \/ breakpoints' = breakpoints
          \/ /\ ~ bp_contains(a) /\ Len(breakpoints) < MAX_BREAKPOINTS
             /\ breakpoints' = Append(breakpoints, a)
    BY <1>1 DEF bp_add
  <2>2. CASE breakpoints' = breakpoints
    BY <2>2 DEF BreakpointsOK
  <2>3. CASE /\ ~ bp_contains(a) /\ Len(breakpoints) < MAX_BREAKPOINTS
             /\ breakpoints' = Append(breakpoints, a)
    <3>1. a \in Word /\ Len(breakpoints) \in Nat /\ MAX_BREAKPOINTS \in Nat
          /\ \A k \in 1..Len(breakpoints) : breakpoints[k] # a
      BY <2>3, LenProperties, DebuggerAssumption DEF bp_contains, BreakpointsOK
    <3> QED BY <2>3, <3>1, AppendCell DEF BreakpointsOK
  <2> QED BY <2>1, <2>2, <2>3
<1>2. CASE bp_delete
  <2>1. CASE breakpoints' = breakpoints
    BY <2>1 DEF BreakpointsOK
  <2>2. CASE \E k \in DOMAIN breakpoints : breakpoints' = RemoveAt(breakpoints, k)
    <3>1. Len(breakpoints) \in Nat /\ DOMAIN breakpoints = 1..Len(breakpoints)
      BY LenProperties DEF BreakpointsOK
    <3> QED BY <2>2, <3>1, RemoveCell, DebuggerAssumption DEF BreakpointsOK
  <2> QED BY <1>2, <2>1, <2>2 DEF bp_delete
<1>3. CASE UNCHANGED breakpoints
  BY <1>3 DEF BreakpointsOK
<1> QED
  BY <1>1, <1>2, <1>3 DEF DebugNext, StepCommand, StepOnce, StepDone, ContinueCommand,
     ContinueOnce, Quit, DebugStopped, debugVars, dbgVars

(* The array is within its size, without repetitions, in every session.    *)
LEMMA BreakpointsHold == DebugSpec => []BreakpointsOK
<1>1. BreakpointsOK /\ [DebugNext]_debugVars => BreakpointsOK'
  BY BreakpointsNext
<1> QED BY <1>1, BreakpointsInit, PTL DEF DebugSpec

(***************************************************************************)
(* What a session promises.                                                *)
(***************************************************************************)
(* The variables of the debugger other than the array and halted.          *)
SessionTypes ==
  /\ command \in {"prompt", "step", "continue", "quit"}
  /\ todo \in StepCounts \cup Nat
  /\ \/ reply \in {<<>>, <<"full">>, <<"finished">>, <<"stop">>, <<"error">>}
     \/ reply \in {"set", "removed", "missing", "breakpoint"} \X Word

(* What do_step says of an instruction.                                    *)
LEMMA VerdictType == Verdict \in {<<>>, <<"stop">>, <<"error">>}
BY DEF Verdict

(* Every step keeps the types; a breakpoint that is reached is a pc.       *)
LEMMA SessionTypesNext ==
  ASSUME SessionTypes, pc' \in Word, [DebugNext]_debugVars
  PROVE  SessionTypes'
<1> USE DEF SessionTypes
<1>1. CASE bp_add
  <2>1. PICK a \in BreakAddresses : reply' \in {<<>>, <<"full">>, <<"set", a>>}
    BY <1>1 DEF bp_add
  <2>2. a \in Word
    BY DebuggerAssumption
  <2>3. UNCHANGED <<command, todo>>
    BY <1>1 DEF bp_add
  <2> QED BY <2>1, <2>2, <2>3
<1>2. CASE bp_delete
  <2>1. PICK a \in BreakAddresses : reply' \in {<<"removed", a>>, <<"missing", a>>}
    BY <1>2 DEF bp_delete
  <2>2. a \in Word
    BY DebuggerAssumption
  <2>3. UNCHANGED <<command, todo>>
    BY <1>2 DEF bp_delete
  <2> QED BY <2>1, <2>2, <2>3
<1>3. CASE StepCommand
  BY <1>3 DEF StepCommand
<1>4. CASE StepOnce
  <2>1. UNCHANGED command /\ todo' = todo - 1 /\ todo > 0
    BY <1>4 DEF StepOnce
  <2>2. todo' \in Nat
    BY <2>1, DebuggerAssumption
  <2>3. reply' = Verdict
    BY <1>4 DEF StepOnce
  <2> QED BY <2>1, <2>2, <2>3, VerdictType
<1>5. CASE StepDone
  BY <1>5 DEF StepDone
<1>6. CASE ContinueCommand
  BY <1>6 DEF ContinueCommand
<1>7. CASE ContinueOnce
  <2>1. /\ command' \in {"prompt", "continue"}
        /\ reply' = Verdict \/ reply' = <<"breakpoint", pc'>>
        /\ todo' = todo
    BY <1>7 DEF ContinueOnce
  <2> QED BY <2>1, VerdictType
<1>8. CASE Quit
  BY <1>8 DEF Quit
<1>9. CASE UNCHANGED debugVars
  BY <1>9 DEF debugVars, dbgVars
<1> QED
  BY <1>1, <1>2, <1>3, <1>4, <1>5, <1>6, <1>7, <1>8, <1>9 DEF DebugNext, DebugStopped

(***************************************************************************)
(* The machine's types survive any session, the array never outgrows its   *)
(* cells, and the counter of step stays an int.                            *)
(***************************************************************************)
THEOREM SessionTypeCorrect == DebugSpec => []DebugTypeOK
<1>1. DebugInit => SessionTypes
  BY DEF DebugInit, SessionTypes
<1>2. Inv' /\ SessionTypes /\ [DebugNext]_debugVars => SessionTypes'
  BY SessionTypesNext DEF Inv, IntegerOK
<1>3. DebugSpec => []SessionTypes
  BY <1>1, <1>2, SessionInv, PTL DEF DebugSpec
<1>4. Inv /\ FpuOK /\ HaltedInv /\ BreakpointsOK /\ SessionTypes => DebugTypeOK
  BY DEF Inv, IntegerOK, FpuOK, TypeOK, HaltedInv, BreakpointsOK, SessionTypes, DebugTypeOK
<1> QED BY <1>3, <1>4, SessionInv, BreakpointsHold, PTL

(* An instruction that ends the program leaves pc on it.                   *)
LEMMA EndsInPlace ==
  ASSUME Inv, status = "run", exec_inst, status' # "run"
  PROVE  pc' = pc
<1>1. Pipeline!Next
  BY StepMaps DEF step_instruction
<1> QED BY <1>1 DEF Pipeline!Next, Pipeline!Sequential, Pipeline!Transfer, Pipeline!Stop

(* Breakpoints counts as this module does.                                 *)
LEMMA SameCardinality == \A S : BreakpointSet!Cardinality(S) = Cardinality(S)
BY DEF BreakpointSet!Cardinality, Cardinality, BreakpointSet!IsFiniteSet, IsFiniteSet

(* A command of breakpoints edits the set, and its reply is true.          *)
LEMMA EditMaps ==
  ASSUME BreakpointsOK, HaltedInv, bp_add \/ bp_delete
  PROVE  BreakpointSet!Edit
<1> DEFINE set == Cells(breakpoints)
<1>1. command = "prompt" /\ UNCHANGED <<vars, halted, command>>
  BY DEF bp_add, bp_delete, Prompt
<1>2. /\ DOMAIN breakpoints = 1..Len(breakpoints)
      /\ \A a : bp_contains(a) <=> a \in set
      /\ Cardinality(set) = Len(breakpoints)
  BY LenProperties, CellCount DEF BreakpointsOK, bp_contains, Cells
<1> DEFINE AddTo(a) ==
             /\ a \notin set
             /\ IF Cardinality(set) < MAX_BREAKPOINTS
                THEN set' = set \cup {a} /\ reply' = <<"set", a>>
                ELSE set' = set /\ reply' = <<"full">>
           DeleteFrom(a) ==
             /\ set' = set \ {a}
             /\ reply' = IF a \in set THEN <<"removed", a>> ELSE <<"missing", a>>
<1>3. ASSUME NEW a PROVE /\ AddTo(a) => BreakpointSet!Add(a)
                         /\ DeleteFrom(a) => BreakpointSet!Delete(a)
  <2>1. /\ set = {breakpoints[k] : k \in DOMAIN breakpoints}
        /\ set' = {breakpoints[k] : k \in DOMAIN breakpoints}'
    BY DEF Cells
  <2>2. AddTo(a) => BreakpointSet!Add(a)
    BY <2>1, SameCardinality DEF BreakpointSet!Add
  <2>3. DeleteFrom(a) => BreakpointSet!Delete(a)
    BY <2>1 DEF BreakpointSet!Delete
  <2> QED BY <2>2, <2>3
<1>4. \E a \in Word : BreakpointSet!Add(a) \/ BreakpointSet!AddAgain(a) \/ BreakpointSet!Delete(a)
  <2>1. CASE bp_add
    <3>1. PICK a \in BreakAddresses :
            \/ bp_contains(a) /\ breakpoints' = breakpoints /\ reply' = <<>>
            \/ /\ ~ bp_contains(a) /\ Len(breakpoints) >= MAX_BREAKPOINTS
               /\ breakpoints' = breakpoints /\ reply' = <<"full">>
            \/ /\ ~ bp_contains(a) /\ Len(breakpoints) < MAX_BREAKPOINTS
               /\ breakpoints' = Append(breakpoints, a) /\ reply' = <<"set", a>>
      BY <2>1 DEF bp_add
    <3>2. a \in Word /\ Len(breakpoints) \in Nat /\ MAX_BREAKPOINTS \in Nat
      BY DebuggerAssumption, LenProperties DEF BreakpointsOK
    <3>3. CASE bp_contains(a) /\ breakpoints' = breakpoints /\ reply' = <<>>
      <4>1. a \in set /\ set' = set
        BY <1>2, <3>3
      <4> QED BY <3>2, <3>3, <4>1 DEF BreakpointSet!AddAgain, Cells
    <3>4. CASE /\ ~ bp_contains(a) /\ Len(breakpoints) >= MAX_BREAKPOINTS
               /\ breakpoints' = breakpoints /\ reply' = <<"full">>
      <4>1. a \notin set /\ set' = set /\ ~ (Cardinality(set) < MAX_BREAKPOINTS)
        BY <1>2, <3>2, <3>4
      <4> QED BY <1>3, <3>2, <3>4, <4>1
    <3>5. CASE /\ ~ bp_contains(a) /\ Len(breakpoints) < MAX_BREAKPOINTS
               /\ breakpoints' = Append(breakpoints, a) /\ reply' = <<"set", a>>
      <4>1. a \notin set /\ Cardinality(set) < MAX_BREAKPOINTS
        BY <1>2, <3>5
      <4>2. \A k \in 1..Len(breakpoints) : breakpoints[k] # a
        BY <1>2, <4>1 DEF Cells
      <4>3. Cells(Append(breakpoints, a)) = set \cup {a}
        BY <3>2, <4>2, AppendCell DEF BreakpointsOK
      <4>4. set' = set \cup {a}
        BY <3>5, <4>3
      <4> QED BY <1>3, <3>2, <3>5, <4>1, <4>4
    <3> QED BY <3>1, <3>3, <3>4, <3>5
  <2>2. CASE bp_delete
    <3>1. PICK a \in BreakAddresses :
            \/ \E k \in DOMAIN breakpoints :
                 /\ breakpoints[k] = a
                 /\ breakpoints' = RemoveAt(breakpoints, k)
                 /\ reply' = <<"removed", a>>
            \/ ~ bp_contains(a) /\ breakpoints' = breakpoints /\ reply' = <<"missing", a>>
      BY <2>2 DEF bp_delete
    <3>2. a \in Word
      BY DebuggerAssumption
    <3>3. ASSUME NEW k \in DOMAIN breakpoints, breakpoints[k] = a,
                 breakpoints' = RemoveAt(breakpoints, k), reply' = <<"removed", a>>
          PROVE  BreakpointSet!Delete(a)
      <4>1. k \in 1..Len(breakpoints) /\ a \in set
        BY <1>2, <3>3 DEF Cells
      <4>2. Cells(RemoveAt(breakpoints, k)) = set \ {a}
        BY <3>3, <4>1, RemoveCell DEF BreakpointsOK
      <4>3. set' = set \ {a}
        BY <3>3, <4>2
      <4> QED BY <1>3, <3>3, <4>1, <4>3
    <3>4. CASE ~ bp_contains(a) /\ breakpoints' = breakpoints /\ reply' = <<"missing", a>>
      <4>1. a \notin set /\ set' = set
        BY <1>2, <3>4
      <4>2. set' = set \ {a}
        BY <4>1
      <4>3. DeleteFrom(a)
        BY <3>4, <4>1, <4>2
      <4> QED BY <1>3, <3>2, <4>3
    <3> QED BY <3>1, <3>2, <3>3, <3>4
  <2> QED BY <2>1, <2>2
<1> QED BY <1>1, <1>4 DEF BreakpointSet!Edit, vars

(* Every step of a session is a step of Breakpoints, or none.              *)
LEMMA SessionMaps ==
  ASSUME Inv, HaltedInv, BreakpointsOK, pc' \in Word, [DebugNext]_debugVars
  PROVE  [BreakpointSet!Next]_(BreakpointSet!vars)
<1> DEFINE set == Cells(breakpoints)
<1> USE DEF BreakpointSet!Next
<1>1. CASE bp_add \/ bp_delete
  BY <1>1, EditMaps
<1>2. CASE StepCommand \/ ContinueCommand
  <2>1. command = "prompt" /\ UNCHANGED <<vars, breakpoints, halted>>
    BY <1>2 DEF StepCommand, ContinueCommand, Prompt
  <2>2. CASE command' # "continue"
    BY <1>2, <2>1, <2>2 DEF StepCommand, ContinueCommand, BreakpointSet!Idle, vars
  <2>3. CASE command' = "continue"
    BY <1>2, <2>1, <2>3 DEF StepCommand, ContinueCommand, BreakpointSet!Resume, vars
  <2> QED BY <2>2, <2>3
<1>3. CASE StepDone \/ Quit
  BY <1>3 DEF StepDone, Quit, Prompt, BreakpointSet!vars, vars
<1>4. CASE StepOnce
  <2>1. /\ status = "run" /\ ~ halted /\ command = "step" /\ command' = "step"
        /\ exec_inst /\ halted' = (status' # "run") /\ reply' = Verdict
        /\ UNCHANGED breakpoints
    BY <1>4 DEF StepOnce, do_step, HaltedInv
  <2>2. CASE status' = "run"
    <3>1. halted = FALSE /\ halted' = FALSE /\ reply' = <<>>
      BY <2>1, <2>2 DEF HaltedInv, Verdict
    <3>2. /\ (command = "continue" /\ ~ halted) = FALSE
          /\ (command' = "continue" /\ ~ halted') = FALSE
      BY <2>1
    <3> QED BY <2>1, <3>1, <3>2 DEF BreakpointSet!Step
  <2>3. CASE status' # "run"
    BY <2>1, <2>3, EndsInPlace, VerdictType DEF BreakpointSet!End, BreakpointSet!Endings
  <2> QED BY <2>2, <2>3
<1>5. CASE ContinueOnce
  <2>1. /\ status = "run" /\ ~ halted /\ command = "continue" /\ reply = <<>>
        /\ exec_inst /\ halted' = (status' # "run") /\ UNCHANGED breakpoints
    BY <1>5 DEF ContinueOnce, do_step, HaltedInv
  <2>2. CASE halted'
    <3>1. reply' = Verdict /\ status' # "run"
      BY <1>5, <2>1, <2>2 DEF ContinueOnce
    <3> QED BY <2>1, <2>2, <3>1, EndsInPlace, VerdictType DEF BreakpointSet!End, BreakpointSet!Endings
  <2>3. CASE ~ halted' /\ \E k \in DOMAIN breakpoints : breakpoints[k] = pc'
    <3>1. command' = "prompt" /\ reply' = <<"breakpoint", pc'>>
      BY <1>5, <2>3 DEF ContinueOnce
    <3>2. halted = FALSE /\ halted' = FALSE
      BY <2>1, <2>3 DEF HaltedInv
    <3>3. (command' = "continue" /\ ~ halted') = FALSE
      BY <3>1
    <3> QED BY <2>1, <2>3, <3>1, <3>2, <3>3 DEF BreakpointSet!Reach
  <2>4. CASE ~ halted' /\ \A k \in DOMAIN breakpoints : breakpoints[k] # pc'
    <3>1. command' = "continue" /\ reply' = Verdict
      BY <1>5, <2>4 DEF ContinueOnce
    <3>2. reply' = <<>>
      BY <2>1, <2>4, <3>1 DEF Verdict
    <3>3. halted = FALSE /\ halted' = FALSE
      BY <2>1, <2>4 DEF HaltedInv
    <3>4. (command' = "continue" /\ ~ halted') = (command = "continue" /\ ~ halted)
      BY <2>1, <3>1, <3>3
    <3> QED BY <2>1, <2>4, <3>1, <3>2, <3>3, <3>4 DEF BreakpointSet!Pass
  <2> QED BY <2>2, <2>3, <2>4
<1>6. CASE UNCHANGED debugVars
  BY <1>6 DEF debugVars, dbgVars, vars, BreakpointSet!vars
<1> QED
  BY <1>1, <1>2, <1>3, <1>4, <1>5, <1>6 DEF DebugNext, DebugStopped

(***************************************************************************)
(* The array is a set of at most MAX_BREAKPOINTS addresses: deleting one   *)
(* removes it and no other, each reply is true, a program that continues   *)
(* stops at the first breakpoint it reaches and at no other address, and   *)
(* one that has ended never moves.                                         *)
(***************************************************************************)
THEOREM BreakpointsRefinement == DebugSpec => ImplementsBreakpoints
<1>1. DebugInit => BreakpointSet!Init
  BY MachineAssumption DEF DebugInit, Init, BreakpointSet!Init
<1>2. /\ Inv /\ Inv' /\ HaltedInv /\ BreakpointsOK /\ [DebugNext]_debugVars
      => [BreakpointSet!Next]_(BreakpointSet!vars)
  BY SessionMaps DEF Inv, IntegerOK
<1> QED
  BY <1>1, <1>2, SessionInv, BreakpointsHold, PTL
     DEF DebugSpec, ImplementsBreakpoints, BreakpointSet!Spec
=============================================================================
