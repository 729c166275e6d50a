------------------------------ MODULE Syscalls ------------------------------
(***************************************************************************)
(* syscalls.c: the services a program asks for with the number in $v0.     *)
(* What the outside world answers is nondeterministic.  The C library and  *)
(* the kernel are used with host pointers into the emulated memory, which  *)
(* nothing bounds: an access past its last byte is undefined behaviour,    *)
(* and either kills the emulator or touches memory that is not the         *)
(* machine's and goes on.                                                  *)
(***************************************************************************)
EXTENDS Machine

CONSTANTS
  Ints,     \* values that scanf("%d") and open may deliver
  Inputs    \* byte sequences that one read() may deliver: Linux transfers
            \* fewer than 2^31 bytes, whatever the caller asks for

ASSUME SyscallAssumption ==
  /\ Ints \subseteq Word
  /\ Inputs \subseteq Seq(Byte)
  /\ \A s \in Inputs : Len(s) < WORD \div 2

Result(v) ==
  /\ reg' = [reg EXCEPT ![V0] = v]
  /\ Continue
  /\ UNCHANGED <<hi, lo, memory, last_key>>

Output ==
  /\ Continue
  /\ UNCHANGED <<reg, hi, lo, memory, last_key>>

Crash ==
  /\ Halt("crash")
  /\ UNCHANGED <<reg, hi, lo, memory, last_key>>

(* print_int (1), print_char (11) and close (16) change nothing here.      *)
PrintValue == reg[V0] \in {1, 11, 16} /\ Output

(* print_string (4) reads up to the first zero byte.                       *)
PrintString == reg[V0] = 4 /\ Output

Unterminated(a) == \A k \in a..(WORD - 1) : memory[k] # 0

PrintOverrun == reg[V0] = 4 /\ Unterminated(reg[A0]) /\ Crash

(* read_int (5): 0 when scanf matches nothing.                             *)
ReadInt == reg[V0] = 5 /\ \E v \in Ints \cup {0} : Result(v)

(* read_char (12): a plain char, sign-extended; 0 at the end of input.     *)
ReadChar == reg[V0] = 12 /\ \E b \in Byte : Result(U32(S8(b)))

(* Mutant of Strncpy: a terminator after the last byte.                    *)
Strncpy_OffByOne(m, a, s, n) ==
  [k \in Word |-> IF a <= k /\ k <= a + n
                  THEN IF k - a < Len(s) /\ \A j \in 1..(k - a + 1) : s[j] # 0
                       THEN s[k - a + 1] ELSE 0
                  ELSE m[k]]

(* Mutant of Strncpy: the bytes read, without the padding.                 *)
Strncpy_NoPadding(m, a, s, n) ==
  [k \in Word |-> IF a <= k /\ k < a + n /\ k - a < Len(s) THEN s[k - a + 1] ELSE m[k]]

(* What strncpy(a, s, n) leaves in memory: s up to its first zero byte,    *)
(* then zero bytes up to n.                                                *)
Strncpy(m, a, s, n) ==
  [k \in Word |-> IF a <= k /\ k < a + n
                  THEN IF k - a < Len(s) /\ \A j \in 1..(k - a + 1) : s[j] # 0
                       THEN s[k - a + 1] ELSE 0
                  ELSE m[k]]

(* read_string (8): a buffer of $a1 bytes is filled from standard input    *)
(* and copied to address $a0; a failing read changes nothing, nor does one *)
(* into the NULL of a failing calloc, which the kernel refuses.            *)
ReadString ==
  /\ reg[V0] = 8
  /\ \E s \in Inputs :
       /\ Len(s) <= reg[A1]
       /\ memory' = Strncpy(memory, reg[A0], s, reg[A1])
  /\ Continue
  /\ UNCHANGED <<reg, hi, lo, last_key>>

ReadStringFails == reg[V0] = 8 /\ Output

ReadStringOverrun == reg[V0] = 8 /\ reg[A0] + reg[A1] > WORD /\ Crash

(* Without a buffer, because calloc failed, a read at the end of the input *)
(* succeeds all the same, and strncpy copies from NULL.                    *)
ReadStringNull == reg[V0] = 8 /\ reg[A1] # 0 /\ Crash

(* open (13): a descriptor, or -1.                                         *)
Open == reg[V0] = 13 /\ \E fd \in Ints \cup {U32(-1)} : Result(fd)

(* Mutant of Read: $v0 is a status instead of the length.                  *)
Read_Status ==
  /\ reg[V0] = 14
  /\ \E s \in Inputs :
       /\ Len(s) <= reg[A2]
       /\ memory' = [k \in Word |-> IF reg[A1] <= k /\ k < reg[A1] + Len(s)
                                    THEN s[k - reg[A1] + 1] ELSE memory[k]]
       /\ reg' = [reg EXCEPT ![V0] = 0]
  /\ Continue
  /\ UNCHANGED <<hi, lo, last_key>>

(* read (14): the kernel writes at address $a1 what it returns the length  *)
(* of, or fails with -1.                                                   *)
Read ==
  /\ reg[V0] = 14
  /\ \E s \in Inputs :
       /\ Len(s) <= reg[A2]
       /\ memory' = [k \in Word |-> IF reg[A1] <= k /\ k < reg[A1] + Len(s)
                                    THEN s[k - reg[A1] + 1] ELSE memory[k]]
       /\ reg' = [reg EXCEPT ![V0] = Len(s)]
  /\ Continue
  /\ UNCHANGED <<hi, lo, last_key>>

ReadFails == reg[V0] = 14 /\ Result(U32(-1))

(* write (15): the number of bytes written, or -1.                         *)
WriteFile == reg[V0] = 15 /\ \E n \in 0..reg[A2] \cup {U32(-1)} : Result(n)

(* exit (10), exit2 (17) and every unknown number stop the machine.        *)
Exit ==
  /\ reg[V0] \notin {1, 4, 5, 8, 11, 12, 13, 14, 15, 16}
  /\ Halt("stop")
  /\ UNCHANGED <<reg, hi, lo, memory, last_key>>

call_syscall ==
  /\ Instruction.op = "SYSCALL"
  /\ \/ PrintValue \/ PrintString \/ PrintOverrun \/ ReadInt \/ ReadChar
     \/ ReadString \/ ReadStringFails \/ ReadStringOverrun \/ ReadStringNull
     \/ Open \/ Read \/ ReadFails \/ WriteFile \/ Exit
=============================================================================
