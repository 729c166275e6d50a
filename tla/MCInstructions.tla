--------------------------- MODULE MCInstructions ---------------------------
(***************************************************************************)
(* The programs of MCData, and two about services and the device.          *)
(*                                                                         *)
(* The first of these takes $v0, $a0, $a1 and $a2 from memory and makes    *)
(* the same system call twice, for every service and for buffers in the    *)
(* middle of memory and at its end.  The second call finds what the first  *)
(* one left in the buffer.                                                 *)
(*                                                                         *)
(* The second is the loop of a graphical program: present a frame, poll    *)
(* the keyboard twice, count what was found.  The events of a frame may    *)
(* leave any of Keys, one of them 0 in its low byte, or the key of an      *)
(* earlier frame.  It first stores to GPU_INPUT as if it were memory.      *)
(***************************************************************************)
EXTENDS MCData

CONSTANTS
  Services, Addresses, Lengths, MaxInput,
  Frames           \* frames the last program presents

T0 == 8

Dev == 7           \* address of GPU_FLUSH
Flushes == 8       \* frames presented
Key == 9           \* the last poll
Found == 10        \* polls that found a key
T1 == 11

CallTwice == <<
  AsmI("ADDIU", T0, SP, -4),
  AsmI("LW", V0, T0, -8), AsmI("LW", A1, T0, -4), AsmI("LW", A2, T0, 0),
  AsmI("LW", A0, SP, 0),
  Asm("SYSCALL"), AsmI("LW", V0, T0, -8), Asm("SYSCALL"),
  Asm("BREAK")
>>

Poll == <<
  AsmI("LUI", Dev, R0, 12), AsmI("SW", SP, Dev, 4), AsmI("LW", Key, Dev, 4),
  \* one frame: flush, poll with lw, poll with lwr
  AsmI("SW", SP, Dev, 0), AsmI("ADDIU", Flushes, Flushes, 1),
  AsmI("LW", Key, Dev, 4), AsmR("SLTU", T1, R0, Key), AsmR("ADDU", Found, Found, T1),
  AsmI("LWR", Key, Dev, 4), AsmR("SLTU", T1, R0, Key), AsmR("ADDU", Found, Found, T1),
  AsmI("SLTI", T1, Flushes, Frames),
  AsmI("BEQ", T1, R0, 3), AsmI("LBU", T1, Dev, 4), AsmJ("J", 3), AsmI("SB", T1, Dev, 4),
  Asm("BREAK")
>>

AllDecode == Assemble(Arithmetic \o Copying \o FloatingPoint \o CallTwice \o Poll)

FirstCallTwice == FirstFloatingPoint + Len(FloatingPoint)
FirstPoll == FirstCallTwice + Len(CallTwice)

(* The arguments, in the last four words: the service, $a1, $a2 and, last, *)
(* $a0.                                                                    *)
Arguments(v0, a0, a1, a2) ==
  PutWord(PutWord(PutWord(PutWord(Image(Code(CallTwice, FirstCallTwice)),
                                  WORD - 16, v0), WORD - 12, a1),
                  WORD - 8, a2), WORD - 4, a0)

AllPrograms ==
  MCPrograms
    \cup {Arguments(v, a, n, n) : v \in Services, a \in Addresses, n \in Lengths}
    \cup {Arguments(v, a, a, n) : v \in Services, a \in Addresses, n \in Lengths}
    \cup {Image(Code(Poll, FirstPoll))}

MCServiceNumbers == 0..18
MCAddresses == {200, 254}
MCLengths == {0, 2, 3}
MCInputs == UNION {[1..n -> 0..2] : n \in 0..MaxInput}

Polling == WordAt(memory, 0) = FirstPoll

(* However often the program polls, and with whichever load, it finds at   *)
(* most one key per frame (device.c:91 "a key is reported once"), and what *)
(* it finds came from the keyboard, never from a store to that address     *)
(* (load_word and store_word ask the device before memory).                *)
InputIsKey == Polling => reg[Found] <= reg[Flushes] /\ reg[Key] \in Keys \cup {0}
=============================================================================
