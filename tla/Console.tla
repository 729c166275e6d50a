------------------------------ MODULE Console -------------------------------
(***************************************************************************)
(* How the debugger comes by its commands: debug() and read_line (dbg.c),  *)
(* the streams (cstream*.c), the prompt that SIGINT may interrupt          *)
(* (interruptible_readline.c) and the growing line (vec.c).                *)
(*                                                                         *)
(* Descriptor 0 has three readers: readline at a terminal, stdio, which    *)
(* reads ahead, for a pipe and for the scanf of the debugged program, and  *)
(* the read() of read_string and read.  Characters are named by their      *)
(* place in the input, so that it shows who took them and in which order.  *)
(***************************************************************************)
EXTENDS Integers, Sequences, Functions

CONSTANTS
  VEC_FIRST,   \* bytes of the first allocation of a vec: 10
  BLOCK,       \* bytes stdio reads ahead at most
  MAX_KEYS     \* bound: characters of the input

ASSUME ConsoleAssumption ==
  VEC_FIRST \in Nat \ {0} /\ BLOCK \in Nat \ {0} /\ MAX_KEYS \in Nat

GARBAGE == 0   \* what malloc left in the buffer field of a stream
NEWLINE == -1  \* the end of a line, as the streams deliver it
EOF == -2
NUL == -3

VARIABLES
  tty,         \* isatty(STDIN_FILENO)
  at,          \* "pop", in the prompt "loop", "select", "ready", "check"; "run", "over", "killed"
  input,       \* the input so far; descriptor 0 delivers what follows taken
  taken,
  ahead,       \* stdin's buffer
  edited,      \* the line readline is editing
  current,     \* current_line from line_position on; set: not NULL
  has_buffer,  \* of the stream; a TRUE that was never assigned hides the garbage
  buffer,      \*   character it was allocated with
  interrupted,
  caught,      \* SIGINT has a handler
  line,        \* the vec of debug()
  commands,    \* characters of the lines handed to run_command, one line after the other
  program      \* characters the debugged program has read

prompt == <<edited, current, interrupted>>
stdio == <<input, taken, ahead>>
stream == <<has_buffer, buffer>>
history == <<commands, program>>
vars == <<tty, at, stdio, prompt, stream, caught, line, history>>

Chars == {"x", "NL", "EOF"}
NoLine == [set |-> FALSE, rest |-> <<>>]
Prompting == at \in {"loop", "select", "ready", "check"}

-----------------------------------------------------------------------------
(* vec.c: the capacity doubles when the vec is full.                       *)
vec_init == [data |-> <<>>, capacity |-> 0]
vec_grow(capacity) == IF capacity = 0 THEN VEC_FIRST ELSE 2 * capacity

vec_push(v, c) ==
  [data |-> Append(v.data, c),
   capacity |-> IF Len(v.data) = v.capacity THEN vec_grow(v.capacity) ELSE v.capacity]

(* debug() creates the stream: that of a terminal comes from malloc and    *)
(* installs the handler of SIGINT, that of a pipe comes from calloc.       *)
Init ==
  /\ tty \in BOOLEAN
  /\ at = "pop"
  /\ input = <<>> /\ taken = 0 /\ ahead = <<>>
  /\ edited = <<>> /\ current = NoLine /\ interrupted = FALSE
  /\ has_buffer \in IF tty THEN BOOLEAN ELSE {FALSE}
  /\ buffer \in IF has_buffer THEN Chars ELSE {"EOF"}
  /\ caught = tty
  /\ line = vec_init
  /\ commands = <<>> /\ program = {}

-----------------------------------------------------------------------------
(* The user, or the other end of the pipe.                                 *)
Types(c) ==
  /\ at \notin {"over", "killed"}
  /\ Len(input) < MAX_KEYS
  /\ ~ tty => \A k \in DOMAIN input : input[k] # "EOF"
  /\ input' = Append(input, c)
  /\ UNCHANGED <<tty, at, taken, ahead, prompt, stream, caught, line, history>>

(* SIGINT.  signal() without BSD semantics (-std=c99 and _POSIX_C_SOURCE)  *)
(* resets the handler when it runs: the next one kills the emulator, like  *)
(* the first one at a pipe.  select() fails with EINTR only if it was      *)
(* waiting.                                                                *)
sigint_handler ==
  /\ at \notin {"over", "killed"}
  /\ caught
  /\ interrupted' = TRUE
  /\ caught' = FALSE
  /\ at' = IF at = "select" THEN "check" ELSE at
  /\ UNCHANGED <<tty, stdio, edited, current, stream, line, history>>

killed_by_sigint ==
  /\ at \notin {"over", "killed"}
  /\ ~ caught
  /\ at' = "killed"
  /\ UNCHANGED <<tty, stdio, prompt, stream, caught, line, history>>

-----------------------------------------------------------------------------
Available == taken < Len(input)

(* What one read() of descriptor 0 may deliver: at most n characters.      *)
Delivery(n) == {k \in 1..n : /\ taken + k <= Len(input)
                             /\ \A j \in 1..k : input[taken + j] # "EOF"}
Positions(k) == [j \in 1..k |-> taken + j]

(* Mutant of ends_line: only EOF ends a line.                              *)
ends_line_AtEof(c) == c = EOF

ends_line(c) == c \in {NEWLINE, EOF} \/ (c = GARBAGE /\ buffer # "x")

(* read_line receives c from cstream_pop; when that ends the line, debug() *)
(* runs it, or ends because it is empty.                                   *)
read_line(c) ==
  IF ends_line(c)
  THEN /\ line' = vec_push(line, NUL)
       /\ at' = IF Len(line'.data) <= 1 THEN "over" ELSE "run"
       /\ commands' = IF at' = "run" THEN commands \o line.data ELSE commands
  ELSE line' = vec_push(line, c) /\ UNCHANGED <<at, commands>>

(* Mutant of cstream_pop_buffer: the character stays.                      *)
cstream_pop_buffer_Kept ==
  /\ at = "pop" /\ has_buffer
  /\ Len(line.data) <= MAX_KEYS
  /\ read_line(GARBAGE)
  /\ UNCHANGED <<tty, stdio, prompt, stream, caught, program>>

cstream_pop_buffer ==
  /\ at = "pop" /\ has_buffer
  /\ has_buffer' = FALSE
  /\ read_line(GARBAGE)
  /\ UNCHANGED <<tty, stdio, prompt, buffer, caught, program>>

(* cstream_file_read: fgetc, which blocks while there is nothing to read.  *)
cstream_file_read ==
  /\ at = "pop" /\ ~ has_buffer /\ ~ tty
  /\ IF ahead # <<>>
     THEN ahead' = Tail(ahead) /\ UNCHANGED taken
          /\ read_line(IF input[ahead[1]] = "NL" THEN NEWLINE ELSE ahead[1])
     ELSE \E k \in Delivery(BLOCK) :
            /\ taken' = taken + k
            /\ ahead' = Tail(Positions(k))
            /\ read_line(IF input[taken + 1] = "NL" THEN NEWLINE ELSE taken + 1)
  /\ UNCHANGED <<tty, input, prompt, stream, caught, program>>

cstream_file_eof ==
  /\ at = "pop" /\ ~ has_buffer /\ ~ tty
  /\ ahead = <<>>
  /\ Available /\ input[taken + 1] = "EOF"
  /\ read_line(EOF)
  /\ UNCHANGED <<tty, stdio, prompt, stream, caught, program>>

(* A read error ends the session.                                          *)
cstream_file_fails ==
  /\ at = "pop" /\ ~ has_buffer /\ ~ tty
  /\ ahead = <<>>
  /\ at' = "over"
  /\ UNCHANGED <<tty, stdio, prompt, stream, caught, line, history>>

(* cstream_readline_read with a line at hand.                              *)
cstream_readline_read ==
  /\ at = "pop" /\ ~ has_buffer /\ tty
  /\ current.set
  /\ IF current.rest = <<>>
     THEN current' = NoLine /\ read_line(NEWLINE)
     ELSE current' = [current EXCEPT !.rest = Tail(@)] /\ read_line(current.rest[1])
  /\ UNCHANGED <<tty, stdio, edited, interrupted, stream, caught, program>>

(* interruptible_readline, called for a new line.                          *)
interruptible_readline ==
  /\ at = "pop" /\ ~ has_buffer /\ tty
  /\ ~ current.set
  /\ interrupted' = FALSE
  /\ edited' = <<>>
  /\ at' = "loop"
  /\ UNCHANGED <<tty, stdio, current, stream, caught, line, history>>

select ==
  /\ at \in {"loop", "select"}
  /\ at = "select" => Available
  /\ at' = IF Available THEN "ready" ELSE "select"
  /\ UNCHANGED <<tty, stdio, prompt, stream, caught, line, history>>

select_fails ==
  /\ at = "loop"
  /\ at' = "over"
  /\ UNCHANGED <<tty, stdio, prompt, stream, caught, line, history>>

(* rl_callback_read_char: a character of the line, or a ^D that readline   *)
(* ignores because the line is not empty.                                  *)
rl_callback_read_char ==
  /\ at = "ready"
  /\ LET c == input[taken + 1] IN
       /\ c = "EOF" => edited # <<>>
       /\ c # "NL"
       /\ edited' = IF c = "x" THEN Append(edited, taken + 1) ELSE edited
  /\ taken' = taken + 1
  /\ at' = "check"
  /\ UNCHANGED <<tty, input, ahead, current, interrupted, stream, caught, line, history>>

(* Mutant of readline_callback: user_input_complete is tested before the   *)
(* character is read.                                                      *)
readline_callback_Late ==
  /\ at = "ready"
  /\ input[taken + 1] = "NL"
  /\ taken' = taken + 1
  /\ current' = [set |-> TRUE, rest |-> edited]
  /\ at' = "check"
  /\ UNCHANGED <<tty, input, ahead, edited, interrupted, stream, caught, line, history>>

(* The line is complete; an interrupt before the Enter goes unnoticed.     *)
readline_callback ==
  /\ at = "ready"
  /\ input[taken + 1] = "NL"
  /\ taken' = taken + 1
  /\ current' = [set |-> TRUE, rest |-> edited]
  /\ at' = "pop"
  /\ UNCHANGED <<tty, input, ahead, edited, interrupted, stream, caught, line, history>>

(* ^D on an empty line: readline's line is NULL, which is read as EOF.     *)
readline_callback_null ==
  /\ at = "ready"
  /\ input[taken + 1] = "EOF" /\ edited = <<>>
  /\ taken' = taken + 1
  /\ read_line(EOF)
  /\ UNCHANGED <<tty, input, ahead, prompt, stream, caught, program>>

(* check_interrupt: the error goes up to debug(), which ends the session;  *)
(* the comment at the head of the file has it redraw the prompt.           *)
check_interrupt ==
  /\ at = "check"
  /\ interrupted' = FALSE
  /\ at' = IF interrupted THEN "over" ELSE "loop"
  /\ UNCHANGED <<tty, stdio, edited, current, stream, caught, line, history>>

-----------------------------------------------------------------------------
(* run_command: the program may read, through scanf, which consumes what   *)
(* it matches, which may be nothing, and leaves the rest in stdin's        *)
(* buffer, ...                                                             *)
scanf ==
  /\ at = "run"
  /\ \E k \in IF ahead = <<>> THEN Delivery(BLOCK) ELSE {0} :
       LET buffered == ahead \o Positions(k) IN
       \E n \in 0..Len(buffered) :
         /\ taken' = taken + k
         /\ ahead' = SubSeq(buffered, n + 1, Len(buffered))
         /\ program' = program \cup {buffered[j] : j \in 1..n}
  /\ UNCHANGED <<tty, at, input, prompt, stream, caught, line, commands>>

(* ... or from the descriptor.                                             *)
read ==
  /\ at = "run"
  /\ \E k \in Delivery(MAX_KEYS) :
       /\ taken' = taken + k
       /\ program' = program \cup Range(Positions(k))
  /\ UNCHANGED <<tty, at, input, ahead, prompt, stream, caught, line, commands>>

(* The program takes a ^D as the end of its input; stdio remembers nothing *)
(* that readline would see.                                                *)
read_eof ==
  /\ at = "run" /\ tty
  /\ Available /\ input[taken + 1] = "EOF"
  /\ taken' = taken + 1
  /\ UNCHANGED <<tty, at, input, ahead, prompt, stream, caught, line, history>>

CommandReturns ==
  /\ at = "run"
  /\ line' = vec_init
  /\ at' = "pop"
  /\ UNCHANGED <<tty, stdio, prompt, stream, caught, history>>

Quits ==
  /\ at = "run"
  /\ at' = "over"
  /\ UNCHANGED <<tty, stdio, prompt, stream, caught, line, history>>

Ended == at \in {"over", "killed"} /\ UNCHANGED vars

DebuggerStep ==
  \/ cstream_pop_buffer
  \/ cstream_file_read \/ cstream_file_eof \/ cstream_file_fails
  \/ cstream_readline_read \/ interruptible_readline
  \/ select \/ select_fails \/ rl_callback_read_char
  \/ readline_callback \/ readline_callback_null \/ check_interrupt

Next ==
  \/ \E c \in Chars : Types(c)
  \/ sigint_handler \/ killed_by_sigint
  \/ DebuggerStep
  \/ scanf \/ read \/ read_eof \/ CommandReturns \/ Quits
  \/ Ended

(* The debugger goes on while it need not wait; the user, the program and  *)
(* signals owe nothing.                                                    *)
Spec == Init /\ [][Next]_vars /\ WF_vars(DebuggerStep)

-----------------------------------------------------------------------------
Delivered == commands \o (IF at = "run" THEN <<>> ELSE line.data) \o current.rest

(* Every character taken from descriptor 0 reaches the debugger or the     *)
(* program, once and in order, or still waits with stdio or readline; the  *)
(* only character that was never typed is the first one (cstream_pop,      *)
(* cstream_file_read, cstream_readline_read, read_line).                   *)
InputOnce ==
  at \notin {"over", "killed"} =>
    /\ \A j, k \in DOMAIN Delivered : j < k => Delivered[j] < Delivered[k]
    /\ Range(Delivered) \cap (program \cup Range(ahead)) = {}
    /\ program \cap Range(ahead) = {}
    /\ \A p \in 1..taken : input[p] = "x" =>
         p \in Range(Delivered) \cup program \cup Range(ahead)
               \cup (IF Prompting THEN Range(edited) ELSE {})

(* What run_command gets is one line of the input, inside its allocation:  *)
(* between two characters of it that were typed there are only others of   *)
(* its own, a ^D that readline ignored, and what the program took by going *)
(* past stdio (read_line, vec_push).                                       *)
CommandIsLine ==
  /\ Len(line.data) <= line.capacity
  /\ at = "run" =>
       \A j, k \in DOMAIN line.data : line.data[j] > 0 =>
         \A p \in (line.data[j] + 1)..(line.data[k] - 1) :
           p \in Range(line.data) \cup program \/ input[p] = "EOF"

(* A line that was typed is read: a debugger that wants a command does not *)
(* wait in select() or fgetc() for input it already has, whatever signal   *)
(* came between its check of the flag and its wait; it gets to a command,  *)
(* or the session ends (interruptible_readline, cstream_file_read).        *)
Unread == {p \in DOMAIN input : p > taken \/ (~ tty /\ p \in Range(ahead))}
LineComes ==
  ((at = "pop" \/ Prompting) /\ \E p \in Unread : input[p] = "NL")
    ~> at \in {"run", "over", "killed"}
=============================================================================
