---------------------------- MODULE DeviceProofs ----------------------------
(***************************************************************************)
(* The key register of the device, for every set of key symbols and any    *)
(* number of events and attempts to open the window: a key that waits is   *)
(* the most recent one, keys are reported once and in order, the window    *)
(* and its exit handler agree, and a flush is one step of KeyRegister.     *)
(***************************************************************************)
EXTENDS Device, TLAPS

(* The types the proofs need.                                              *)
DeviceTypeOK ==
  /\ at \in {"run", "pump", "exit"}
  /\ log \in Seq(Event)
  /\ polled \in 0..Len(log)
  /\ from \in Nat
  /\ got \in Seq(Nat)
  /\ windows \in Nat /\ handlers \in Nat

(* ReadyOnce says nothing of a window while the program runs: that it      *)
(* stays open until the exit is what the next flush relies on.             *)
WindowInv == ReadyOnce /\ (ready /\ at # "exit" => windows > 0)

(* What was reported lies before what waits, and both were polled.         *)
ReportedBefore ==
  \A j \in 1..Len(got) : got[j] <= polled /\ (last_key # 0 => got[j] < from)

(* A flush in progress keeps the key it found or has replaced it.          *)
RegisterKeys == {KeyOf(e) : e \in Event}
FlushInv == at = "pump" => last_key \in RegisterKeys \cup {before}

(* The types hold initially and are kept by every step.                    *)
LEMMA DeviceTypes == Spec => []DeviceTypeOK
<1>1. Init => DeviceTypeOK
  BY DEF Init, DeviceTypeOK
<1>2. DeviceTypeOK /\ [Next]_vars => DeviceTypeOK'
  <2> SUFFICES ASSUME DeviceTypeOK, [Next]_vars PROVE DeviceTypeOK'
    OBVIOUS
  <2>1. ASSUME NEW e \in Event, Occurs(e) PROVE DeviceTypeOK'
    <3>1. /\ log' \in Seq(Event) /\ Len(log') = Len(log) + 1
          /\ UNCHANGED <<at, polled, from, got, windows, handlers>>
      BY <2>1 DEF Occurs, DeviceTypeOK, sdl, keyboard
    <3> QED BY <3>1 DEF DeviceTypeOK
  <2>2. CASE UserPresses
    <3>1. PICK s \in Syms : Occurs([type |-> "key", sym |-> s])
      BY <2>2 DEF UserPresses
    <3> QED BY <3>1, <2>1 DEF Event
  <2>3. CASE UserQuits \/ UserMoves
    <3>1. /\ [type |-> "quit", sym |-> 0] \in Event
          /\ [type |-> "other", sym |-> 0] \in Event
      BY DEF Event
    <3> QED BY <3>1, <2>3, <2>1 DEF UserQuits, UserMoves
  <2>4. CASE gpu_flush \/ flushed \/ gpu_shutdown
    BY <2>4 DEF gpu_flush, flushed, gpu_shutdown, DeviceTypeOK, sdl, keyboard
  <2>5. CASE gpu_init
    BY <2>5 DEF gpu_init, DeviceTypeOK
  <2>6. CASE pump_events
    BY <2>6 DEF pump_events, DeviceTypeOK, sdl
  <2>7. CASE device_load_word
    <3>1. got' \in Seq(Nat)
      BY <2>7 DEF device_load_word, DeviceTypeOK
    <3> QED BY <3>1, <2>7 DEF device_load_word, DeviceTypeOK, sdl
  <2>8. CASE UNCHANGED vars
    BY <2>8 DEF vars, sdl, keyboard, DeviceTypeOK
  <2> QED
    BY <2>2, <2>3, <2>4, <2>5, <2>6, <2>7, <2>8 DEF Next, gpu_init_sdl_fails, exited
<1> QED BY <1>1, <1>2, PTL DEF Spec

(***************************************************************************)
(* A frame is only presented with a window, a renderer and a texture, and  *)
(* the window counts; gpu_shutdown is registered once, whatever gpu_init   *)
(* had to be called for, so that the exit leaves no window.                *)
(***************************************************************************)
THEOREM WindowLife == Spec => []ReadyOnce
<1>1. Init => WindowInv
  BY DEF Init, WindowInv, ReadyOnce
<1>2. DeviceTypeOK /\ WindowInv /\ [Next]_vars => WindowInv'
  <2> SUFFICES ASSUME DeviceTypeOK, WindowInv, [Next]_vars PROVE WindowInv'
    OBVIOUS
  <2> USE DEF WindowInv, ReadyOnce
  <2>1. ASSUME UNCHANGED <<at, sdl>> PROVE WindowInv'
    BY <2>1 DEF sdl
  <2>2. CASE UserPresses \/ UserQuits \/ UserMoves \/ pump_events \/ device_load_word
    BY <2>1, <2>2 DEF UserPresses, UserQuits, UserMoves, Occurs, pump_events, device_load_word
  <2>3. CASE gpu_flush \/ flushed
    BY <2>3 DEF gpu_flush, flushed, sdl
  <2>4. CASE gpu_init
    <3>1. PICK w, r, t \in BOOLEAN :
            /\ window' = w /\ renderer' = r /\ texture' = t
            /\ windows' = windows + (IF w THEN 1 ELSE 0)
            /\ IF w /\ r /\ t
               THEN handlers' = handlers + 1 /\ ready' = TRUE /\ at' = "pump"
               ELSE UNCHANGED <<handlers, ready, at>>
      BY <2>4 DEF gpu_init
    <3>2. at = "run" /\ ~ ready /\ handlers = 0
      BY <2>4 DEF gpu_init
    <3>3. windows \in Nat
      BY DEF DeviceTypeOK
    <3>4. CASE w /\ r /\ t
      BY <3>1, <3>2, <3>3, <3>4
    <3>5. CASE ~ (w /\ r /\ t)
      BY <3>1, <3>2, <3>5
    <3> QED BY <3>4, <3>5
  <2>5. CASE gpu_shutdown
    BY <2>5 DEF gpu_shutdown
  <2>6. CASE UNCHANGED vars
    BY <2>1, <2>6 DEF vars
  <2> QED
    BY <2>2, <2>3, <2>4, <2>5, <2>6 DEF Next, gpu_init_sdl_fails, exited
<1> QED BY <1>1, <1>2, DeviceTypes, PTL DEF Spec, WindowInv

(***************************************************************************)
(* A key that waits in the register is the one of the last key or quit     *)
(* event that was polled, with the low byte of its symbol.                 *)
(***************************************************************************)
THEOREM KeyIsMostRecent == Spec => []MostRecentKey
<1>1. Init => MostRecentKey
  BY DEF Init, MostRecentKey
<1>2. DeviceTypeOK /\ MostRecentKey /\ [Next]_vars => MostRecentKey'
  <2> SUFFICES ASSUME DeviceTypeOK, MostRecentKey, [Next]_vars PROVE MostRecentKey'
    OBVIOUS
  <2> USE DEF MostRecentKey
  <2>1. ASSUME UNCHANGED <<log, polled, last_key, from>> PROVE MostRecentKey'
    BY <2>1
  <2>2. ASSUME NEW e \in Event, Occurs(e) PROVE MostRecentKey'
    <3>1. /\ polled \in Nat /\ polled <= Len(log)
          /\ UNCHANGED <<polled, last_key, from>>
      BY <2>2 DEF Occurs, DeviceTypeOK, keyboard
    <3>2. \A k \in 1..Len(log) : log'[k] = log[k]
      BY <2>2 DEF Occurs, DeviceTypeOK
    <3>3. from \in Nat
      BY DEF DeviceTypeOK
    <3>4. last_key # 0 => \A k \in from..polled : log'[k] = log[k]
      BY <3>1, <3>2, <3>3
    <3> QED BY <3>1, <3>3, <3>4
  <2>3. CASE UserPresses \/ UserQuits \/ UserMoves
    BY <2>2, <2>3 DEF UserPresses, UserQuits, UserMoves, Event
  <2>4. CASE pump_events
    <3>1. polled \in Nat /\ polled' = polled + 1 /\ log' = log
      BY <2>4 DEF pump_events, DeviceTypeOK
    <3>2. CASE log[polled + 1].type = "other"
      <4>1. last_key' = last_key /\ from' = from
        BY <2>4, <3>2 DEF pump_events
      <4>2. from \in Nat
        BY DEF DeviceTypeOK
      <4> SUFFICES ASSUME last_key # 0
                   PROVE  /\ from \in 1..(polled + 1)
                          /\ last_key = KeyOf(log[from])
                          /\ \A e \in (from + 1)..(polled + 1) : log[e].type = "other"
        BY <3>1, <4>1
      <4>3. \A e \in (from + 1)..(polled + 1) : e \in (from + 1)..polled \/ e = polled + 1
        BY <3>1, <4>2
      <4> QED BY <3>1, <3>2, <4>2, <4>3
    <3>3. CASE log[polled + 1].type # "other"
      <4>1. last_key' = KeyOf(log[polled + 1]) /\ from' = polled + 1
        BY <2>4, <3>3 DEF pump_events
      <4>2. from' \in 1..polled' /\ (from' + 1)..polled' = {}
        BY <3>1, <4>1
      <4>3. last_key' = KeyOf(log'[from'])
        BY <3>1, <4>1
      <4> QED BY <4>2, <4>3
    <3> QED BY <3>2, <3>3
  <2>5. CASE device_load_word
    BY <2>5 DEF device_load_word
  <2>6. CASE gpu_flush \/ gpu_init \/ flushed \/ gpu_shutdown \/ UNCHANGED vars
    BY <2>1, <2>6 DEF gpu_flush, gpu_init, flushed, gpu_shutdown, vars, keyboard
  <2> QED
    BY <2>3, <2>4, <2>5, <2>6 DEF Next, gpu_init_sdl_fails, exited
<1> QED BY <1>1, <1>2, DeviceTypes, PTL DEF Spec

(***************************************************************************)
(* The events the program reads are in the order in which they happened,   *)
(* none twice: what it has read lies before what waits.                    *)
(***************************************************************************)
THEOREM KeysInOrder == Spec => []ReportedInOrder
<1>1. Init => ReportedBefore /\ ReportedInOrder
  BY DEF Init, ReportedBefore, ReportedInOrder
<1>2. /\ DeviceTypeOK /\ MostRecentKey /\ ReportedBefore /\ ReportedInOrder
      /\ [Next]_vars
      => ReportedBefore' /\ ReportedInOrder'
  <2> SUFFICES ASSUME DeviceTypeOK, MostRecentKey, ReportedBefore, ReportedInOrder, [Next]_vars
               PROVE  ReportedBefore' /\ ReportedInOrder'
    OBVIOUS
  <2> USE DEF ReportedBefore, ReportedInOrder
  <2>1. ASSUME UNCHANGED <<polled, last_key, from, got>>
        PROVE  ReportedBefore' /\ ReportedInOrder'
    BY <2>1
  <2>2. CASE \/ UserPresses \/ UserQuits \/ UserMoves \/ gpu_flush \/ gpu_init
             \/ flushed \/ gpu_shutdown \/ UNCHANGED vars
    BY <2>1, <2>2 DEF UserPresses, UserQuits, UserMoves, Occurs, gpu_flush, gpu_init,
                      flushed, gpu_shutdown, vars, keyboard
  <2>3. CASE pump_events
    BY <2>3 DEF pump_events, DeviceTypeOK
  <2>4. CASE device_load_word
    <3>1. /\ last_key' = 0 /\ polled' = polled
          /\ got' = IF last_key = 0 THEN got ELSE Append(got, from)
      BY <2>4 DEF device_load_word
    <3>2. CASE last_key = 0
      BY <3>1, <3>2
    <3>3. CASE last_key # 0
      <4>1. from <= polled /\ from \in Nat
        BY <3>3 DEF MostRecentKey, DeviceTypeOK
      <4>2. /\ Len(got') = Len(got) + 1 /\ Len(got) \in Nat
            /\ got'[Len(got) + 1] = from
            /\ \A j \in 1..Len(got) : got'[j] = got[j]
        BY <3>1, <3>3, <4>1 DEF DeviceTypeOK
      <4> QED BY <3>1, <3>3, <4>1, <4>2
    <3> QED BY <3>2, <3>3
  <2> QED
    BY <2>2, <2>3, <2>4 DEF Next, gpu_init_sdl_fails, exited
<1> QED BY <1>1, <1>2, DeviceTypes, KeyIsMostRecent, PTL DEF Spec

(***************************************************************************)
(* The device implements the register the machine is modelled with: a      *)
(* flush, with all the events it polls, is one Present; a load of          *)
(* GPU_INPUT is a Poll; the user and the window never touch it.            *)
(***************************************************************************)
THEOREM RegisterRefinement == Spec => ImplementsRegister
<1> DEFINE key == IF at = "pump" THEN before ELSE last_key
<1>1. Init => Register!Init /\ FlushInv
  BY DEF Init, Register!Init, FlushInv
<1>2. DeviceTypeOK /\ FlushInv /\ [Next]_vars
      => FlushInv' /\ [Register!Poll \/ Register!Present]_<<key, answer>>
  <2> SUFFICES ASSUME DeviceTypeOK, FlushInv, [Next]_vars
               PROVE  FlushInv' /\ [Register!Poll \/ Register!Present]_<<key, answer>>
    OBVIOUS
  <2> USE DEF FlushInv
  <2>1. CASE UserPresses \/ UserQuits \/ UserMoves \/ UNCHANGED vars
    BY <2>1 DEF UserPresses, UserQuits, UserMoves, Occurs, vars, keyboard
  <2>2. CASE gpu_flush \/ gpu_init
    BY <2>2 DEF gpu_flush, gpu_init
  <2>3. CASE pump_events
    <3>1. UNCHANGED <<at, before, answer>> /\ at = "pump"
      BY <2>3 DEF pump_events
    <3>2. log[polled + 1] \in Event
      BY <2>3 DEF pump_events, DeviceTypeOK
    <3>3. last_key' \in RegisterKeys \cup {last_key}
      BY <2>3, <3>2 DEF pump_events, RegisterKeys
    <3> QED BY <3>1, <3>3
  <2>4. CASE flushed
    BY <2>4 DEF flushed, keyboard, Register!Present, RegisterKeys
  <2>5. CASE device_load_word
    BY <2>5 DEF device_load_word, Register!Poll
  <2>6. CASE gpu_shutdown
    BY <2>6 DEF gpu_shutdown, keyboard
  <2> QED
    BY <2>1, <2>2, <2>3, <2>4, <2>5, <2>6 DEF Next, gpu_init_sdl_fails, exited
<1> QED BY <1>1, <1>2, DeviceTypes, PTL DEF Spec, ImplementsRegister, Register!Spec
=============================================================================
