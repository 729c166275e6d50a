---------------------------- MODULE ConsoleProofs ---------------------------
(***************************************************************************)
(* The input of the debugger, for every session: with any number of        *)
(* characters, any read-ahead of stdio and any first allocation of a vec,  *)
(* every character reaches one reader, in order, and a command is one line *)
(* of the input.                                                           *)
(***************************************************************************)
EXTENDS Console, SequenceTheorems, TLAPS

-----------------------------------------------------------------------------
(* What the operations on sequences do to the set of elements and to their *)
(* order.                                                                  *)
Increasing(s) == \A j, k \in DOMAIN s : j < k => s[j] < s[k]

LEMMA AppendRange ==
  ASSUME NEW s \in Seq(Int), NEW c \in Int
  PROVE  /\ Append(s, c) \in Seq(Int)
         /\ Range(Append(s, c)) = Range(s) \cup {c}
         /\ Increasing(s) /\ (\A p \in Range(s) : p < c) => Increasing(Append(s, c))
<1>1. /\ Append(s, c) \in Seq(Int) /\ Len(Append(s, c)) = Len(s) + 1 /\ Len(s) \in Nat
      /\ \A i \in 1..Len(s) : Append(s, c)[i] = s[i]
      /\ Append(s, c)[Len(s) + 1] = c
  OBVIOUS
<1>2. DOMAIN s = 1..Len(s) /\ DOMAIN Append(s, c) = 1..(Len(s) + 1)
  BY <1>1
<1>3. Range(Append(s, c)) \subseteq Range(s) \cup {c}
  BY <1>1, <1>2 DEF Range
<1>4. Range(s) \cup {c} \subseteq Range(Append(s, c))
  BY <1>1, <1>2 DEF Range
<1>5. Increasing(s) /\ (\A p \in Range(s) : p < c) => Increasing(Append(s, c))
  BY <1>1, <1>2 DEF Increasing, Range
<1> QED
  BY <1>1, <1>3, <1>4, <1>5

Joined(s, a, t, b, u) ==
  /\ a \in Nat /\ b \in Nat
  /\ s \in [1..a -> Int] /\ t \in [1..b -> Int] /\ u \in [1..(a + b) -> Int]
  /\ \A i \in 1..(a + b) : u[i] = IF i <= a THEN s[i] ELSE t[i - a]

LEMMA JoinRange ==
  ASSUME NEW s, NEW a, NEW t, NEW b, NEW u, Joined(s, a, t, b, u)
  PROVE  /\ Range(u) = Range(s) \cup Range(t)
         /\ Increasing(s) /\ Increasing(t) /\ (\A p \in Range(s), q \in Range(t) : p < q)
              => Increasing(u)
<1>0. /\ a \in Nat /\ b \in Nat
      /\ s \in [1..a -> Int] /\ t \in [1..b -> Int] /\ u \in [1..(a + b) -> Int]
      /\ \A i \in 1..(a + b) : u[i] = IF i <= a THEN s[i] ELSE t[i - a]
  BY DEF Joined
<1> USE <1>0
<1>1. Range(u) \subseteq Range(s) \cup Range(t)
  <2> SUFFICES ASSUME NEW i \in 1..(a + b) PROVE u[i] \in Range(s) \cup Range(t)
    BY DEF Range
  <2>1. CASE i <= a
    BY <2>1 DEF Range
  <2>2. CASE ~ (i <= a)
    <3>1. i - a \in 1..b /\ u[i] = t[i - a]
      BY <2>2
    <3> QED
      BY <3>1 DEF Range
  <2> QED
    BY <2>1, <2>2
<1>2. Range(s) \subseteq Range(u)
  <2> SUFFICES ASSUME NEW i \in 1..a PROVE s[i] \in Range(u)
    BY DEF Range
  <2>1. i \in 1..(a + b) /\ u[i] = s[i]
    OBVIOUS
  <2> QED
    BY <2>1 DEF Range
<1>3. Range(t) \subseteq Range(u)
  <2> SUFFICES ASSUME NEW i \in 1..b PROVE t[i] \in Range(u)
    BY DEF Range
  <2>1. a + i \in 1..(a + b) /\ u[a + i] = t[i]
    OBVIOUS
  <2> QED
    BY <2>1 DEF Range
<1>4. ASSUME Increasing(s), Increasing(t), \A p \in Range(s), q \in Range(t) : p < q
      PROVE  Increasing(u)
  <2> SUFFICES ASSUME NEW j \in 1..(a + b), NEW k \in 1..(a + b), j < k PROVE u[j] < u[k]
    BY DEF Increasing
  <2>1. CASE k <= a
    <3>1. j \in 1..a /\ k \in 1..a /\ u[j] = s[j] /\ u[k] = s[k]
      BY <2>1
    <3> QED
      BY <1>4, <3>1 DEF Increasing
  <2>2. CASE j <= a /\ ~ (k <= a)
    <3>1. j \in 1..a /\ k - a \in 1..b /\ u[j] = s[j] /\ u[k] = t[k - a]
      BY <2>2
    <3>2. s[j] \in Range(s) /\ t[k - a] \in Range(t)
      BY <3>1 DEF Range
    <3> QED
      BY <1>4, <3>1, <3>2
  <2>3. CASE ~ (j <= a)
    <3>1. j - a \in 1..b /\ k - a \in 1..b /\ j - a < k - a /\ u[j] = t[j - a] /\ u[k] = t[k - a]
      BY <2>3
    <3> QED
      BY <1>4, <3>1 DEF Increasing
  <2> QED
    BY <2>1, <2>2, <2>3
<1> QED
  BY <1>1, <1>2, <1>3, <1>4

LEMMA ConcatRange ==
  ASSUME NEW s \in Seq(Int), NEW t \in Seq(Int)
  PROVE  /\ s \o t \in Seq(Int)
         /\ Range(s \o t) = Range(s) \cup Range(t)
         /\ Increasing(s) /\ Increasing(t) /\ (\A p \in Range(s), q \in Range(t) : p < q)
              => Increasing(s \o t)
<1> DEFINE a == Len(s)
           b == Len(t)
           u == s \o t
<1>1. /\ u \in Seq(Int) /\ Len(u) = a + b
      /\ \A i \in 1..(a + b) : u[i] = IF i <= a THEN s[i] ELSE t[i - a]
  BY ConcatProperties
<1>2. a \in Nat /\ b \in Nat /\ s \in [1..a -> Int] /\ t \in [1..b -> Int]
  BY LenProperties
<1>3. u \in [1..(a + b) -> Int]
  BY <1>1, LenProperties
<1> HIDE DEF a, b, u
<1>4. Joined(s, a, t, b, u)
  BY <1>1, <1>2, <1>3 DEF Joined
<1> QED
  BY <1>1, <1>4, JoinRange DEF u

LEMMA EmptyRange == Range(<<>>) = {} /\ Increasing(<<>>) /\ <<>> \in Seq(Int)
  BY DEF Range, Increasing

(* A sequence that is cut after its first n elements is joined from them   *)
(* and the rest.                                                           *)
FirstOf(s, n) == {s[j] : j \in 1..n}
Cut(s, n, t) == s \in Seq(Int) /\ n \in 0..Len(s) /\ t = SubSeq(s, n + 1, Len(s))

LEMMA CutRange ==
  ASSUME NEW s, NEW n, NEW t, Cut(s, n, t), Increasing(s)
  PROVE  /\ t \in Seq(Int) /\ Increasing(t)
         /\ Range(s) = FirstOf(s, n) \cup Range(t)
         /\ \A p \in FirstOf(s, n), q \in Range(t) : p < q
<1>0. s \in Seq(Int) /\ n \in 0..Len(s) /\ t = SubSeq(s, n + 1, Len(s))
  BY DEF Cut
<1> DEFINE a == Len(s)
<1>1. a \in Nat /\ s \in [1..a -> Int] /\ n \in 0..a
  BY <1>0, LenProperties
<1> DEFINE m == n + 1
<1> HIDE DEF a
<1> USE DEF FirstOf
<1>2. m \in Int /\ a \in Int /\ \A i \in m..a : s[i] \in Int
  BY <1>1
<1> HIDE DEF m
<1>3. /\ SubSeq(s, m, a) \in Seq(Int)
      /\ Len(SubSeq(s, m, a)) = (IF m <= a THEN a - m + 1 ELSE 0)
      /\ \A i \in 1..(a - m + 1) : SubSeq(s, m, a)[i] = s[m + i - 1]
  BY <1>2, SubSeqProperties
<1>4. /\ t \in Seq(Int) /\ Len(t) = (IF m <= a THEN a - m + 1 ELSE 0)
      /\ \A i \in 1..(a - m + 1) : t[i] = s[m + i - 1]
  BY <1>0, <1>3 DEF m, a
<1>5. t \in [1..(a - n) -> Int]
  <2>1. Len(t) = a - n
    BY <1>1, <1>4 DEF m
  <2> QED
    BY <1>4, <2>1, LenProperties
<1>6. \A i \in 1..(a - n) : t[i] = s[n + i]
  BY <1>1, <1>4 DEF m
<1>7. Increasing(t)
  <2> SUFFICES ASSUME NEW j \in 1..(a - n), NEW k \in 1..(a - n), j < k PROVE t[j] < t[k]
    BY <1>5 DEF Increasing
  <2>1. n + j \in 1..a /\ n + k \in 1..a /\ n + j < n + k
    BY <1>1
  <2> QED
    BY <1>1, <1>6, <2>1 DEF Increasing
<1>8. Range(t) \subseteq Range(s) /\ {s[j] : j \in 1..n} \subseteq Range(s)
  <2>1. \A i \in 1..(a - n) : n + i \in 1..a
    BY <1>1
  <2>2. 1..n \subseteq 1..a
    BY <1>1
  <2> QED
    BY <1>1, <1>5, <1>6, <2>1, <2>2 DEF Range
<1>9. ASSUME NEW i \in 1..a, ~ (i \in 1..n) PROVE s[i] \in Range(t)
  <2>1. i - n \in 1..(a - n) /\ t[i - n] = s[i]
    BY <1>1, <1>6, <1>9
  <2> QED
    BY <1>5, <2>1 DEF Range
<1>10. Range(s) \subseteq {s[j] : j \in 1..n} \cup Range(t)
  BY <1>1, <1>9 DEF Range
<1>11. \A p \in FirstOf(s, n), q \in Range(t) : p < q
  <2>1. \A j \in 1..n, i \in 1..(a - n) : j \in 1..a /\ n + i \in 1..a /\ j < n + i
    BY <1>1
  <2>2. \A j \in 1..n, i \in 1..(a - n) : s[j] < t[i]
    BY <1>1, <1>6, <2>1 DEF Increasing
  <2> QED
    BY <1>5, <2>2 DEF Range
<1> QED
  BY <1>4, <1>7, <1>8, <1>10, <1>11

(* The head and the tail are such a cut.                                   *)
LEMMA TailRange ==
  ASSUME NEW s \in Seq(Int), s # <<>>, Increasing(s)
  PROVE  /\ s[1] \in Int /\ Tail(s) \in Seq(Int) /\ Increasing(Tail(s))
         /\ Range(s) = {s[1]} \cup Range(Tail(s))
         /\ \A p \in Range(Tail(s)) : s[1] < p
<1>1. 1 \in 1..Len(s) /\ s[1] \in Int /\ Tail(s) = SubSeq(s, 1 + 1, Len(s))
  BY TailIsSubSeq, EmptySeq
<1> DEFINE t == Tail(s)
<1>2. PICK n \in 1..Len(s) : n = 1
  BY <1>1
<1>3. Cut(s, n, t)
  BY <1>1, <1>2 DEF Cut
<1> HIDE DEF t
<1>4. /\ t \in Seq(Int) /\ Increasing(t)
      /\ Range(s) = FirstOf(s, n) \cup Range(t)
      /\ \A p \in FirstOf(s, n), q \in Range(t) : p < q
  BY <1>3, CutRange
<1>5. FirstOf(s, n) = {s[1]}
  BY <1>2 DEF FirstOf
<1> QED
  BY <1>1, <1>4, <1>5, Zenon DEF t

(* What a read() delivers are the characters that follow.                  *)
LEMMA PositionsRange ==
  ASSUME taken \in Nat, NEW k \in Nat
  PROVE  /\ Positions(k) \in Seq(Int) /\ Increasing(Positions(k)) /\ Len(Positions(k)) = k
         /\ Range(Positions(k)) = (taken + 1)..(taken + k)
         /\ k > 0 => Positions(k) # <<>> /\ Positions(k)[1] = taken + 1
<1>1. DOMAIN Positions(k) = 1..k /\ \A j \in 1..k : Positions(k)[j] = taken + j
  BY DEF Positions
<1>2. Positions(k) \in Seq(Int) /\ Len(Positions(k)) = k
  BY <1>1 DEF Positions
<1>3. Increasing(Positions(k))
  BY <1>1 DEF Increasing
<1>4. Range(Positions(k)) \subseteq (taken + 1)..(taken + k)
  BY <1>1 DEF Range
<1>5. ASSUME NEW p \in (taken + 1)..(taken + k) PROVE p \in Range(Positions(k))
  <2>1. p - taken \in 1..k /\ Positions(k)[p - taken] = p
    BY <1>1
  <2> QED
    BY <1>1, <2>1 DEF Range
<1>6. k > 0 => Positions(k) # <<>> /\ Positions(k)[1] = taken + 1
  BY <1>1, <1>2
<1> QED
  BY <1>2, <1>3, <1>4, <1>5, <1>6

-----------------------------------------------------------------------------
(***************************************************************************)
(* The session: the prompt runs at a terminal and without a line at hand,  *)
(* the vec stays inside its allocation, and the character that malloc left *)
(* in the stream is there only before anything has been read.              *)
(***************************************************************************)
SessionOK ==
  /\ tty \in BOOLEAN
  /\ at \in {"pop", "loop", "select", "ready", "check", "run", "over", "killed"}
  /\ input \in Seq(Chars) /\ taken \in Nat /\ taken <= Len(input)
  /\ ahead \in Seq(Int) /\ edited \in Seq(Int)
  /\ current \in [set : BOOLEAN, rest : Seq(Int)]
  /\ current.set = FALSE => current = NoLine
  /\ tty = FALSE => current = NoLine
  /\ Prompting => tty = TRUE /\ current = NoLine
  /\ at = "ready" => taken < Len(input)
  /\ line \in [data : Seq(Int), capacity : Nat] /\ Len(line.data) <= line.capacity
  /\ commands \in Seq(Int)
  /\ has_buffer \in BOOLEAN
  /\ has_buffer = TRUE =>
       /\ at \in {"pop", "over", "killed"} /\ taken = 0
       /\ line = vec_init /\ commands = <<>> /\ current = NoLine /\ ahead = <<>>

(* What the debugger has read, and the characters that are with it, with   *)
(* readline, with stdio, and in the line that is being read.               *)
Heard == commands \o (IF at = "run" THEN <<>> ELSE line.data)
AtDebugger == Range(Heard)
AtPrompt == Range(current.rest)
InEditor == IF Prompting THEN Range(edited) ELSE {}
AtStdio == Range(ahead)
InLine == Range(line.data)

(* The characters of lines, and the ^Ds, that have been taken.             *)
Typed == {p \in 1..taken : input[p] = "x"}
Ignored == {p \in 1..taken : input[p] = "EOF"}

LEMMA HeardSeq ==
  ASSUME SessionOK
  PROVE  /\ Heard \in Seq(Int)
         /\ at # "run" => InLine \subseteq AtDebugger
<1>1. CASE at = "run"
  BY <1>1, ConcatEmptySeq DEF SessionOK, Heard
<1>2. CASE at # "run"
  <2>1. commands \in Seq(Int) /\ line.data \in Seq(Int) /\ Heard = commands \o line.data
    BY <1>2 DEF SessionOK, Heard
  <2> QED
    BY <2>1, ConcatRange DEF InLine, AtDebugger
<1> QED
  BY <1>1, <1>2

(* An element is appended to the second of two sequences that are joined.  *)
LEMMA AppendToJoin ==
  ASSUME NEW s \in Seq(Int), NEW t \in Seq(Int), NEW c \in Int
  PROVE  s \o Append(t, c) = Append(s \o t, c)
<1>1. \A u \in Seq(Int) : Append(u, c) = u \o <<c>>
  BY AppendIsConcat
<1>2. <<c>> \in Seq(Int) /\ s \o t \in Seq(Int)
  BY ConcatRange
<1> QED
  BY <1>1, <1>2, ConcatAssociative

(* read_line either ends the session, ends the line, which leaves what was *)
(* read as it is, or adds the character.                                   *)
LEMMA ReadLineEffect ==
  ASSUME SessionOK, at # "run", NEW c \in Int, read_line(c)
  PROVE  /\ line' \in [data : Seq(Int), capacity : Nat] /\ Len(line'.data) <= line'.capacity
         /\ commands' \in Seq(Int)
         /\ \/ ends_line(c) /\ at' = "over"
            \/ ends_line(c) /\ at' = "run" /\ Heard' = Heard /\ InLine' = InLine \cup {NUL}
            \/ ~ ends_line(c) /\ at' = at /\ Heard' = Append(Heard, c)
                              /\ InLine' = InLine \cup {c}
<1>1. /\ line \in [data : Seq(Int), capacity : Nat] /\ Len(line.data) <= line.capacity
      /\ commands \in Seq(Int) /\ line.data \in Seq(Int) /\ Heard = commands \o line.data
  BY DEF SessionOK, Heard
<1>2. ASSUME NEW x \in Int
      PROVE  /\ vec_push(line, x) \in [data : Seq(Int), capacity : Nat]
             /\ Len(vec_push(line, x).data) <= vec_push(line, x).capacity
             /\ vec_push(line, x).data = Append(line.data, x)
  BY <1>1, ConsoleAssumption DEF vec_push, vec_grow
<1>3. CASE ends_line(c)
  <2>1. /\ line' = vec_push(line, NUL) /\ at' \in {"over", "run"}
        /\ commands' = IF at' = "run" THEN commands \o line.data ELSE commands
    BY <1>3 DEF read_line
  <2>2. NUL \in Int
    BY DEF NUL
  <2>3. commands' \in Seq(Int)
    BY <1>1, <2>1, ConcatRange
  <2>4. InLine' = InLine \cup {NUL}
    BY <1>1, <1>2, <2>1, <2>2, AppendRange DEF InLine
  <2>5. at' = "run" => Heard' = Heard
    BY <1>1, <2>1, <2>3, ConcatEmptySeq DEF Heard
  <2> QED
    BY <1>2, <1>3, <2>1, <2>2, <2>3, <2>4, <2>5
<1>4. CASE ~ ends_line(c)
  <2>1. line' = vec_push(line, c) /\ at' = at /\ commands' = commands
    BY <1>4 DEF read_line
  <2>2. InLine' = InLine \cup {c}
    BY <1>1, <1>2, <2>1, AppendRange DEF InLine
  <2>3. Heard' = commands \o Append(line.data, c)
    BY <1>2, <2>1 DEF Heard
  <2> QED
    BY <1>1, <1>2, <1>4, <2>1, <2>2, <2>3, AppendToJoin
<1> QED
  BY <1>3, <1>4

(* What a delivery leaves to know.                                         *)
LEMMA DeliveryBound ==
  ASSUME SessionOK, NEW n, NEW k \in Delivery(n)
  PROVE  /\ k \in Nat /\ k > 0 /\ taken + k <= Len(input)
         /\ \A j \in 1..k : input[taken + j] # "EOF"
BY DEF Delivery

(* SessionOK holds at every step.                                          *)
LEMMA SessionStep == SessionOK /\ [Next]_vars => SessionOK'
<1> SUFFICES ASSUME SessionOK, [Next]_vars PROVE SessionOK'
  OBVIOUS
<1>r. ASSUME NEW c \in Int, at # "run", read_line(c)
      PROVE  /\ line' \in [data : Seq(Int), capacity : Nat] /\ Len(line'.data) <= line'.capacity
             /\ commands' \in Seq(Int) /\ at' \in {at, "run", "over"}
             /\ ends_line(c) => at' # at \/ at = "over"
  BY <1>r, ReadLineEffect
<1>v. vec_init \in [data : Seq(Int), capacity : Nat] /\ Len(vec_init.data) <= vec_init.capacity
  BY DEF vec_init
<1>d. ASSUME NEW n, NEW k \in Delivery(n)
      PROVE  k \in Nat /\ k > 0 /\ taken + k <= Len(input)
  BY DeliveryBound
<1> USE DEF SessionOK, Prompting, NoLine
<1>0. NEWLINE \in Int /\ EOF \in Int /\ GARBAGE \in Int /\ <<>> \in Seq(Int)
  BY DEF NEWLINE, EOF, GARBAGE
<1>1. ASSUME NEW c \in Chars, Types(c) PROVE SessionOK'
  <2>1. input' \in Seq(Chars) /\ Len(input') = Len(input) + 1
    BY <1>1 DEF Types
  <2> QED
    BY <1>1, <2>1 DEF Types, prompt, stream, history
<1>2. CASE sigint_handler \/ killed_by_sigint
  BY <1>2 DEF sigint_handler, killed_by_sigint, stdio, prompt, stream, history
<1>3. CASE cstream_pop_buffer
  BY <1>0, <1>3, <1>r DEF cstream_pop_buffer, stdio, prompt
<1>4. CASE cstream_file_read
  <2>1. CASE ahead # <<>>
    <3>1. ahead[1] \in Int /\ Tail(ahead) \in Seq(Int)
      BY <2>1
    <3>2. PICK c \in Int : read_line(c)
      BY <1>0, <1>4, <2>1, <3>1 DEF cstream_file_read
    <3>3. ahead' = Tail(ahead) /\ taken' = taken
      BY <1>4, <2>1 DEF cstream_file_read
    <3> QED
      BY <1>4, <3>1, <3>2, <3>3, <1>r DEF cstream_file_read, prompt, stream
  <2>2. CASE ahead = <<>>
    <3>1. PICK k \in Delivery(BLOCK) :
            /\ taken' = taken + k /\ ahead' = Tail(Positions(k))
            /\ read_line(IF input[taken + 1] = "NL" THEN NEWLINE ELSE taken + 1)
      BY <1>4, <2>2 DEF cstream_file_read
    <3>2. k \in Nat /\ k > 0 /\ taken + k <= Len(input)
      BY <1>d
    <3>3. Tail(Positions(k)) \in Seq(Int)
      BY <3>2, PositionsRange, HeadTailProperties
    <3>4. PICK c \in Int : read_line(c)
      BY <1>0, <3>1
    <3>5. /\ at = "pop" /\ has_buffer = FALSE
          /\ UNCHANGED <<tty, input, edited, current, has_buffer>>
      BY <1>4 DEF cstream_file_read, prompt, stream
    <3>6. /\ line' \in [data : Seq(Int), capacity : Nat] /\ Len(line'.data) <= line'.capacity
          /\ commands' \in Seq(Int) /\ at' \in {"pop", "run", "over"}
      BY <3>4, <3>5, <1>r
    <3>7. taken' \in Nat /\ taken' <= Len(input)
      <4>1. taken' = taken + k
        BY <3>1, Zenon
      <4> QED
        BY <3>2, <4>1
    <3>8. ahead' \in Seq(Int)
      BY <3>1, <3>3, Zenon
    <3> QED
      BY <3>5, <3>6, <3>7, <3>8
  <2> QED
    BY <2>1, <2>2
<1>5. CASE cstream_file_eof
  BY <1>0, <1>5, <1>r DEF cstream_file_eof, stdio, prompt, stream
<1>6. CASE cstream_file_fails \/ select_fails \/ check_interrupt
  BY <1>0, <1>6
  DEF cstream_file_fails, select_fails, check_interrupt, stdio, prompt, stream, history
<1>16. CASE select
  BY <1>0, <1>16 DEF select, Available, stdio, prompt, stream, history
<1>17. CASE interruptible_readline
  BY <1>0, <1>17 DEF interruptible_readline, stdio, stream, history
<1>7. CASE cstream_readline_read
  <2>1. CASE current.rest = <<>>
    <3>1. current' = NoLine /\ read_line(NEWLINE)
      BY <1>7, <2>1 DEF cstream_readline_read
    <3> QED
      BY <1>0, <1>7, <3>1, <1>r DEF cstream_readline_read, stdio, stream
  <2>2. CASE current.rest # <<>>
    <3>1. /\ current.rest[1] \in Int /\ Tail(current.rest) \in Seq(Int)
          /\ current' = [current EXCEPT !.rest = Tail(@)] /\ read_line(current.rest[1])
      BY <1>7, <2>2 DEF cstream_readline_read
    <3> QED
      BY <1>7, <3>1, <1>r DEF cstream_readline_read, stdio, stream
  <2> QED
    BY <2>1, <2>2
<1>8. CASE rl_callback_read_char
  <2>1. edited' \in Seq(Int)
    BY <1>8 DEF rl_callback_read_char
  <2>2. /\ at = "ready" /\ at' = "check" /\ taken' = taken + 1
        /\ UNCHANGED <<tty, input, ahead, current, has_buffer, line, commands>>
    BY <1>8 DEF rl_callback_read_char, stream, history
  <2>3. taken' \in Nat /\ taken' <= Len(input)
    BY <2>2
  <2>4. tty = TRUE /\ current = NoLine /\ has_buffer = FALSE
    BY <2>2
  <2> QED
    BY <2>1, <2>2, <2>3, <2>4
<1>9. CASE readline_callback
  BY <1>9 DEF readline_callback, stream, history
<1>10. CASE readline_callback_null
  <2>1. at' \in {"run", "over"}
    BY <1>0, <1>10, <1>r DEF readline_callback_null, ends_line
  <2> QED
    BY <1>0, <1>10, <2>1, <1>r DEF readline_callback_null, prompt, stream
<1>11. CASE scanf
  <2>1. PICK k \in (IF ahead = <<>> THEN Delivery(BLOCK) ELSE {0}) :
          \E n \in 0..Len(ahead \o Positions(k)) :
            /\ taken' = taken + k
            /\ ahead' = SubSeq(ahead \o Positions(k), n + 1, Len(ahead \o Positions(k)))
    BY <1>11 DEF scanf
  <2>2. k \in Nat /\ taken + k <= Len(input)
    <3>1. CASE ahead = <<>>
      BY <2>1, <3>1, <1>d
    <3>2. CASE ahead # <<>>
      BY <2>1, <3>2
    <3> QED
      BY <3>1, <3>2
  <2>3. ahead \o Positions(k) \in Seq(Int)
    BY <2>2, PositionsRange, ConcatRange
  <2>4. PICK n \in 0..Len(ahead \o Positions(k)) :
          ahead' = SubSeq(ahead \o Positions(k), n + 1, Len(ahead \o Positions(k)))
    BY <2>1
  <2>5. ASSUME NEW b \in Seq(Int), NEW j \in 0..Len(b) PROVE SubSeq(b, j + 1, Len(b)) \in Seq(Int)
    OBVIOUS
  <2>6. ahead' \in Seq(Int)
    BY <2>3, <2>4, <2>5
  <2>7. taken' = taken + k
    BY <2>1
  <2>8. UNCHANGED <<tty, at, input, edited, current, has_buffer, line, commands>> /\ at = "run"
    BY <1>11 DEF scanf, prompt, stream
  <2> QED
    BY <2>2, <2>6, <2>7, <2>8
<1>12. CASE read
  <2>1. PICK k \in Delivery(MAX_KEYS) : taken' = taken + k
    BY <1>12 DEF read
  <2>2. k \in Nat /\ taken + k <= Len(input)
    BY <2>1, <1>d
  <2> QED
    BY <1>12, <2>1, <2>2 DEF read, prompt, stream
<1>13. CASE read_eof
  BY <1>13 DEF read_eof, Available, prompt, stream, history
<1>14. CASE CommandReturns \/ Quits
  BY <1>v, <1>14 DEF CommandReturns, Quits, stdio, prompt, stream, history
<1>15. CASE UNCHANGED vars
  BY <1>15 DEF vars, stdio, prompt, stream, history
<1> QED
  BY <1>1, <1>2, <1>3, <1>4, <1>5, <1>6, <1>7, <1>8, <1>9, <1>10, <1>11, <1>12, <1>13,
     <1>14, <1>15, <1>16, <1>17 DEF Next, DebuggerStep, Ended

-----------------------------------------------------------------------------
(***************************************************************************)
(* Who has which character.  The debugger takes its characters in order,   *)
(* before those that readline holds for it and, at a pipe, before those in *)
(* stdin's buffer; what the program took and what stdio holds are other    *)
(* ones; and nothing that was typed is lost.                               *)
(***************************************************************************)
InOrder == Increasing(Heard) /\ Increasing(current.rest) /\ Increasing(ahead) /\ Increasing(edited)

Within ==
  /\ AtDebugger \subseteq 0..taken
  /\ AtPrompt \subseteq 1..taken /\ InEditor \subseteq 1..taken
  /\ AtStdio \subseteq 1..taken /\ program \subseteq 1..taken

Ahead ==
  /\ \A p \in AtDebugger, q \in AtPrompt : p < q
  /\ \A p \in AtDebugger, q \in InEditor : p < q
  /\ tty = FALSE => \A p \in AtDebugger, q \in AtStdio : p < q

Disjoint ==
  /\ \A p \in program : /\ p \notin AtDebugger /\ p \notin AtPrompt
                        /\ p \notin InEditor /\ p \notin AtStdio
  /\ \A p \in AtStdio : p \notin AtDebugger /\ p \notin AtPrompt /\ p \notin InEditor

NoneLost == Typed \subseteq AtDebugger \cup AtPrompt \cup InEditor \cup AtStdio \cup program

Apart == InOrder /\ Within /\ Ahead /\ Disjoint /\ NoneLost

(* Between two characters of S that were typed lies nothing but S and T.   *)
Closed(S, T) ==
  \A c, d \in S : c > 0 => \A p \in (c + 1)..(d - 1) : p \in S \cup T

(***************************************************************************)
(* The line that is being read.  At a terminal it comes whole from         *)
(* readline, which drops only ^D; at a pipe everything that was taken      *)
(* after its first character is in it, waits in stdin's buffer, or went to *)
(* the program.                                                            *)
(***************************************************************************)
TerminalLine ==
  /\ tty = TRUE /\ at # "run" /\ current.set = FALSE => \A c \in InLine : c <= 0
  /\ tty = TRUE /\ at # "run" /\ current.set = TRUE =>
       Closed(InLine \cup AtPrompt, program \cup Ignored)
  /\ \A c \in InEditor : \A p \in (c + 1)..taken : p \in InEditor \cup Ignored

PipeLine ==
  tty = FALSE =>
    /\ \A c \in AtStdio : \A p \in (c + 1)..taken : p \in AtStdio \cup program
    /\ at # "run" => \A c \in InLine : c > 0 =>
         \A p \in (c + 1)..taken : p \in InLine \cup AtStdio \cup program

WholeLine == at = "run" => current = NoLine /\ Closed(InLine, program \cup Ignored)

LineInv == TerminalLine /\ PipeLine /\ WholeLine

Alive == at \notin {"over", "killed"}
LiveInv == Alive => Apart /\ LineInv

(* A step that moves no character keeps both.                              *)
LEMMA NothingMoves ==
  ASSUME SessionOK, Apart, LineInv,
         UNCHANGED <<tty, taken, ahead, edited, current, line, commands, program>>,
         \A p \in 1..taken : input'[p] = input[p],
         at' = "run" <=> at = "run", Prompting' <=> Prompting
  PROVE  Apart' /\ LineInv'
<1>1. /\ Heard' = Heard /\ AtDebugger' = AtDebugger /\ AtPrompt' = AtPrompt
      /\ InEditor' = InEditor /\ AtStdio' = AtStdio /\ InLine' = InLine
  BY DEF Heard, AtDebugger, AtPrompt, InEditor, AtStdio, InLine
<1>2. Typed' = Typed /\ Ignored' = Ignored
  BY DEF Typed, Ignored
<1>3. Apart'
  BY <1>1, <1>2 DEF Apart, InOrder, Within, Ahead, Disjoint, NoneLost
<1>4. LineInv'
  BY <1>1, <1>2 DEF LineInv, TerminalLine, PipeLine, WholeLine, Closed
<1> QED
  BY <1>3, <1>4

(* read_line, as far as it concerns who has which character.               *)
LEMMA HearStep ==
  ASSUME SessionOK, Apart, at # "run", NEW c \in Int, read_line(c), at' # "over",
         ends_line(c) \/ \A p \in AtDebugger : p < c
  PROVE  /\ Increasing(Heard)'
         /\ \/ ends_line(c) /\ at' = "run" /\ AtDebugger' = AtDebugger
                            /\ InLine' = InLine \cup {NUL}
            \/ ~ ends_line(c) /\ at' = at /\ AtDebugger' = AtDebugger \cup {c}
                              /\ InLine' = InLine \cup {c}
<1>1. Heard \in Seq(Int) /\ Increasing(Heard)
  BY HeardSeq DEF Apart, InOrder, Within, Ahead, Disjoint, NoneLost
<1>2. CASE ends_line(c) /\ at' = "run" /\ Heard' = Heard /\ InLine' = InLine \cup {NUL}
  BY <1>1, <1>2 DEF AtDebugger, Increasing
<1>3. CASE ~ ends_line(c) /\ at' = at /\ Heard' = Append(Heard, c) /\ InLine' = InLine \cup {c}
  <2>1. AtDebugger' = AtDebugger \cup {c}
    BY <1>1, <1>3, AppendRange DEF AtDebugger
  <2>2. Increasing(Append(Heard, c))
    BY <1>1, <1>3, AppendRange DEF AtDebugger
  <2>3. Increasing(Heard)'
    BY <1>3, <2>2 DEF Increasing
  <2> QED
    BY <1>3, <2>1, <2>3
<1> QED
  BY <1>2, <1>3, ReadLineEffect

(* The character that was never typed comes first.                         *)
LEMMA PopBufferMoves ==
  ASSUME SessionOK, Apart, LineInv, cstream_pop_buffer, Alive'
  PROVE  Apart' /\ LineInv'
<1>1. /\ at = "pop" /\ taken = 0 /\ line = vec_init /\ commands = <<>>
      /\ current = NoLine /\ ahead = <<>> /\ has_buffer = TRUE
  BY DEF SessionOK, cstream_pop_buffer
<1>2. /\ UNCHANGED <<tty, input, taken, ahead, edited, current, program>> /\ read_line(GARBAGE)
      /\ at' # "over"
  BY DEF cstream_pop_buffer, stdio, prompt, Alive
<1>3. Heard = <<>> /\ InLine = {} /\ AtDebugger = {} /\ AtPrompt = {} /\ AtStdio = {}
  BY <1>1, ConcatEmptySeq, EmptyRange DEF Heard, InLine, AtDebugger, AtPrompt, AtStdio, vec_init, NoLine
<1>4. /\ Increasing(Heard)'
      /\ \/ at' = "run" /\ AtDebugger' = {} /\ InLine' = {NUL}
         \/ at' = "pop" /\ AtDebugger' = {0} /\ InLine' = {0}
  BY <1>1, <1>2, <1>3, HearStep DEF GARBAGE
<1>5. AtPrompt' = {} /\ InEditor' = {} /\ AtStdio' = {}
  BY <1>2, <1>3, <1>4 DEF AtPrompt, InEditor, AtStdio, Prompting
<1>6. Typed' = {} /\ program \subseteq {} /\ taken' = 0
  BY <1>1, <1>2 DEF Typed, Apart, InOrder, Within, Ahead, Disjoint, NoneLost
<1>7. Apart'
  BY <1>1, <1>2, <1>4, <1>5, <1>6 DEF Apart, InOrder, Within, Ahead, Disjoint, NoneLost, Increasing
<1>8. LineInv'
  BY <1>1, <1>2, <1>4, <1>5, <1>6 DEF LineInv, TerminalLine, PipeLine, WholeLine, Closed, NUL, NoLine
<1> QED
  BY <1>7, <1>8

(* fgetc: the oldest character of stdin's buffer, ...                      *)
LEMMA FileReadMoves ==
  ASSUME SessionOK, Apart, LineInv, cstream_file_read, ahead # <<>>, Alive'
  PROVE  Apart' /\ LineInv'
<1> DEFINE h == ahead[1]
           c == IF input[h] = "NL" THEN NEWLINE ELSE h
<1>1. /\ at = "pop" /\ tty = FALSE /\ ahead' = Tail(ahead) /\ read_line(c) /\ at' # "over"
      /\ UNCHANGED <<tty, input, taken, edited, current, program>>
  BY DEF cstream_file_read, prompt, Alive, SessionOK
<1>2. current = NoLine /\ taken \in Nat /\ ahead \in Seq(Int)
  BY <1>1 DEF SessionOK
<1>3. /\ h \in Int /\ AtStdio = {h} \cup AtStdio' /\ Increasing(ahead)'
      /\ \A p \in AtStdio' : h < p
  <2>1. /\ h \in Int /\ Increasing(Tail(ahead))
        /\ Range(ahead) = {h} \cup Range(Tail(ahead)) /\ \A p \in Range(Tail(ahead)) : h < p
    BY <1>2, TailRange DEF Apart, InOrder, Within, Ahead, Disjoint, NoneLost
  <2> QED
    BY <1>1, <2>1 DEF AtStdio, Increasing
<1>4. h \in 1..taken /\ \A p \in AtDebugger : p < h
  BY <1>1, <1>3 DEF Apart, InOrder, Within, Ahead, Disjoint, NoneLost
<1> HIDE DEF h
<1>5. c \in Int /\ (ends_line(c) \/ c = h) /\ (ends_line(c) => input[h] = "NL")
  BY <1>2, <1>3, <1>4 DEF ends_line, NEWLINE, EOF, GARBAGE
<1> HIDE DEF c
<1>6. /\ Increasing(Heard)'
      /\ \/ at' = "run" /\ input[h] = "NL" /\ AtDebugger' = AtDebugger /\ InLine' = InLine \cup {NUL}
         \/ at' = "pop" /\ AtDebugger' = AtDebugger \cup {h} /\ InLine' = InLine \cup {h}
  <2>1. ends_line(c) \/ \A p \in AtDebugger : p < c
    BY <1>4, <1>5
  <2> QED
    BY <1>1, <1>5, <2>1, HearStep
<1>7. AtPrompt' = {} /\ AtPrompt = {} /\ InEditor' = {} /\ InEditor = {}
  BY <1>1, <1>2, <1>6, EmptyRange DEF AtPrompt, InEditor, Prompting, NoLine
<1>8. Typed' = Typed /\ Ignored' = Ignored /\ (input[h] = "NL" => h \notin Typed)
  BY <1>1 DEF Typed, Ignored
<1>9. Apart'
  <2>0. /\ AtStdio' \subseteq AtStdio /\ h \in AtStdio /\ h \notin AtStdio'
        /\ taken' = taken /\ program' = program /\ AtPrompt' = {} /\ InEditor' = {}
        /\ AtDebugger' \subseteq AtDebugger \cup {h} /\ tty = FALSE
    BY <1>1, <1>3, <1>6, <1>7
  <2>1. InOrder'
    BY <1>1, <1>3, <1>6 DEF Apart, InOrder, Increasing
  <2>2. Within'
    BY <1>2, <1>4, <2>0 DEF Apart, Within
  <2>3. Ahead'
    BY <1>3, <2>0 DEF Apart, Ahead
  <2>4. Disjoint'
    BY <2>0 DEF Apart, Disjoint
  <2>5. NoneLost'
    BY <1>1, <1>3, <1>6, <1>7, <1>8 DEF Apart, NoneLost
  <2> QED
    BY <2>1, <2>2, <2>3, <2>4, <2>5 DEF Apart
<1>10. InLine \subseteq AtDebugger
  BY <1>1, HeardSeq
<1>11. at' = "run" => Closed(InLine, program \cup Ignored)'
  <2> SUFFICES ASSUME at' = "run", NEW x \in InLine', NEW d \in InLine', x > 0,
                      NEW p \in (x + 1)..(d - 1)
               PROVE  p \in InLine' \cup program' \cup Ignored'
    BY DEF Closed
  <2>1. InLine' = InLine \cup {NUL}
    BY <1>6
  <2>2. x \in InLine /\ d \in InLine /\ x \in Int /\ d \in Int /\ d <= taken
    BY <1>2, <1>10, <2>1 DEF Apart, InOrder, Within, Ahead, Disjoint, NoneLost, NUL
  <2>3. p \in InLine \cup AtStdio \cup program
    BY <1>1, <1>2, <2>2 DEF LineInv, TerminalLine, PipeLine, WholeLine
  <2>4. p \notin AtStdio
    BY <1>1, <1>10, <2>2 DEF Apart, InOrder, Within, Ahead, Disjoint, NoneLost
  <2> QED
    BY <1>1, <2>1, <2>3, <2>4
<1>12. PipeLine'
  <2>1. \A x \in AtStdio' : \A p \in (x + 1)..taken' : p \in AtStdio' \cup program'
    BY <1>1, <1>3, <1>4 DEF LineInv, PipeLine, Apart, Within
  <2>2. ASSUME at' = "pop", NEW x \in InLine', x > 0, NEW p \in (x + 1)..taken'
        PROVE  p \in InLine' \cup AtStdio' \cup program'
    <3>1. InLine' = InLine \cup {h}
      BY <1>6, <2>2
    <3>2. CASE x \in InLine
      BY <1>1, <1>3, <2>2, <3>1, <3>2 DEF LineInv, PipeLine
    <3>3. CASE x = h
      BY <1>1, <1>3, <1>4, <2>2, <3>1, <3>3 DEF LineInv, PipeLine
    <3> QED
      BY <3>1, <3>2, <3>3
  <2> QED
    BY <1>6, <2>1, <2>2 DEF PipeLine
<1>13. LineInv'
  BY <1>1, <1>2, <1>7, <1>11, <1>12 DEF LineInv, TerminalLine, WholeLine
<1> QED
  BY <1>9, <1>13

(* What is taken is either no line's character, or among what was taken.   *)
LEMMA TakenGrows ==
  ASSUME SessionOK, NEW k \in Nat, taken' = taken + k, input' = input
  PROVE  /\ Typed' \subseteq Typed \cup (taken + 1)..(taken + k)
         /\ Ignored \subseteq Ignored'
         /\ \A p \in (taken + 1)..(taken + k) :
              /\ p \in Typed' <=> input[p] = "x"
              /\ p \in Ignored' <=> input[p] = "EOF"
BY DEF SessionOK, Typed, Ignored

LEMMA WithoutFirst ==
  ASSUME NEW a \in Nat, NEW b \in Nat, NEW V, a..b = {a} \cup V, \A p \in V : a < p
  PROVE  V = (a + 1)..b
<1>1. \A p : p \in V => p \in a..b
  OBVIOUS
<1>2. \A p : p \in a..b => p = a \/ p \in V
  OBVIOUS
<1>3. \A p : p \in V <=> p \in (a + 1)..b
  BY <1>1, <1>2
<1> QED
  BY <1>3

(* ... or, when the buffer is empty, what a read() delivers.               *)
LEMMA FileDeliveryMoves ==
  ASSUME SessionOK, Apart, LineInv, cstream_file_read, ahead = <<>>, Alive'
  PROVE  Apart' /\ LineInv'
<1>1. PICK k \in Delivery(BLOCK) :
        /\ taken' = taken + k /\ ahead' = Tail(Positions(k))
        /\ read_line(IF input[taken + 1] = "NL" THEN NEWLINE ELSE taken + 1)
  BY DEF cstream_file_read
<1>2. k \in Nat /\ k > 0 /\ taken + k <= Len(input) /\ taken \in Nat
  BY DeliveryBound DEF SessionOK
<1> DEFINE h == taken + 1
           n == taken + k
           c == IF input[h] = "NL" THEN NEWLINE ELSE h
<1>3. /\ at = "pop" /\ tty = FALSE /\ read_line(c) /\ at' # "over" /\ taken' = n
      /\ UNCHANGED <<tty, input, edited, current, program>>
  BY <1>1, Zenon DEF cstream_file_read, prompt, Alive, SessionOK
<1>4. current = NoLine /\ AtStdio = {}
  BY <1>3, EmptyRange DEF SessionOK, AtStdio
<1>5. h \in Nat /\ n \in Nat /\ taken < h /\ h <= n /\ \A p \in AtDebugger : p \in Int /\ p < h
  BY <1>2 DEF Apart, Within
<1>6. Increasing(ahead)' /\ AtStdio' = (h + 1)..n
  <2> DEFINE w == Positions(k)
             v == Tail(w)
  <2>1. w \in Seq(Int) /\ Increasing(w) /\ Range(w) = h..n /\ w # <<>> /\ w[1] = h
    BY <1>2, PositionsRange
  <2> HIDE DEF w
  <2>2. /\ Increasing(v) /\ Range(w) = {h} \cup Range(v) /\ \A p \in Range(v) : h < p
    BY <2>1, TailRange
  <2> HIDE DEF v
  <2>3. Range(v) = (h + 1)..n
    BY <1>5, <2>1, <2>2, WithoutFirst
  <2>4. ahead' = v
    BY <1>1, Zenon DEF v, w
  <2> QED
    BY <2>2, <2>3, <2>4 DEF AtStdio, Increasing
<1>7. /\ Typed' \subseteq Typed \cup h..n
      /\ \A p \in h..n : p \in Typed' <=> input[p] = "x"
  BY <1>2, <1>3, TakenGrows
<1> HIDE DEF h, n
<1>8. c \in Int /\ (ends_line(c) \/ c = h) /\ (ends_line(c) => input[h] = "NL")
  BY <1>2, <1>5 DEF ends_line, NEWLINE, EOF, GARBAGE
<1> HIDE DEF c
<1>9. /\ Increasing(Heard)'
      /\ \/ at' = "run" /\ input[h] = "NL" /\ AtDebugger' = AtDebugger /\ InLine' = InLine \cup {NUL}
         \/ at' = "pop" /\ AtDebugger' = AtDebugger \cup {h} /\ InLine' = InLine \cup {h}
  <2>1. ends_line(c) \/ \A p \in AtDebugger : p < c
    BY <1>5, <1>8
  <2> QED
    BY <1>3, <1>8, <2>1, HearStep
<1>10. AtPrompt' = {} /\ AtPrompt = {} /\ InEditor' = {} /\ InEditor = {}
  BY <1>3, <1>4, <1>9, EmptyRange DEF AtPrompt, InEditor, Prompting, NoLine
<1>11. Apart'
  <2>0. AtDebugger' \subseteq AtDebugger \cup {h} /\ program' = program /\ taken' = n
    BY <1>3, <1>9
  <2>1. InOrder'
    BY <1>3, <1>6, <1>9 DEF Apart, InOrder, Increasing
  <2>2. Within'
    <3>1. (h + 1)..n \subseteq 1..n /\ {h} \subseteq 0..n /\ 0..taken \subseteq 0..n
          /\ 1..taken \subseteq 1..n
      BY <1>2, <1>5
    <3> QED
      BY <1>6, <1>10, <2>0, <3>1 DEF Apart, Within
  <2>3. Ahead'
    BY <1>5, <1>6, <1>10, <2>0 DEF Ahead
  <2>4. \A p \in program : p <= taken /\ p \in Int /\ p \notin AtDebugger
    BY <1>2 DEF Apart, Within, Disjoint
  <2>5. Disjoint'
    BY <1>2, <1>5, <1>6, <1>10, <2>0, <2>4 DEF Disjoint
  <2>6. NoneLost'
    <3> SUFFICES ASSUME NEW p \in Typed' PROVE p \in AtDebugger' \cup AtStdio' \cup program'
      BY DEF NoneLost
    <3>1. CASE p \in Typed
      BY <1>4, <1>9, <1>10, <2>0, <3>1 DEF Apart, NoneLost
    <3>2. CASE p = h
      BY <1>5, <1>7, <1>9, <3>2
    <3>3. CASE p \in (h + 1)..n
      BY <1>6, <3>3
    <3> QED
      BY <1>5, <1>7, <3>1, <3>2, <3>3
  <2> QED
    BY <2>1, <2>2, <2>3, <2>5, <2>6 DEF Apart
<1>12. InLine \subseteq AtDebugger
  BY <1>3, HeardSeq
<1>13. at' = "run" => Closed(InLine, program \cup Ignored)'
  <2> SUFFICES ASSUME at' = "run", NEW x \in InLine', NEW d \in InLine', x > 0,
                      NEW p \in (x + 1)..(d - 1)
               PROVE  p \in InLine' \cup program' \cup Ignored'
    BY DEF Closed
  <2>1. InLine' = InLine \cup {NUL}
    BY <1>9
  <2>2. x \in InLine /\ d \in InLine /\ x \in Int /\ d \in Int /\ d <= taken
    BY <1>2, <1>12, <2>1 DEF Apart, Within, NUL
  <2>3. p \in InLine \cup program
    BY <1>2, <1>3, <1>4, <2>2 DEF LineInv, PipeLine
  <2> QED
    BY <1>3, <2>1, <2>3
<1>14. PipeLine'
  <2>1. \A x \in AtStdio' : \A p \in (x + 1)..taken' : p \in AtStdio'
    BY <1>3, <1>5, <1>6
  <2>2. ASSUME at' = "pop", NEW x \in InLine', x > 0, NEW p \in (x + 1)..taken'
        PROVE  p \in InLine' \cup AtStdio' \cup program'
    <3>1. InLine' = InLine \cup {h} /\ x \in Int /\ p \in Int
      BY <1>5, <1>9, <1>12, <2>2
    <3>2. CASE p <= taken
      <4>1. x \in InLine /\ p \in (x + 1)..taken
        BY <1>2, <1>5, <2>2, <3>1, <3>2
      <4> QED
        BY <1>3, <1>4, <2>2, <3>1, <4>1 DEF LineInv, PipeLine
    <3>3. CASE p > taken
      <4>1. p \in h..n
        BY <1>2, <1>3, <2>2, <3>1, <3>3 DEF h
      <4> QED
        BY <1>5, <1>6, <3>1, <4>1
    <3> QED
      BY <1>2, <3>1, <3>2, <3>3
  <2> QED
    BY <1>9, <2>1, <2>2 DEF PipeLine
<1>15. LineInv'
  BY <1>3, <1>4, <1>10, <1>13, <1>14 DEF LineInv, TerminalLine, WholeLine
<1> QED
  BY <1>11, <1>15

(* The end of a pipe ends the line.                                        *)
LEMMA FileEofMoves ==
  ASSUME SessionOK, Apart, LineInv, cstream_file_eof, Alive'
  PROVE  Apart' /\ LineInv'
<1>1. /\ at = "pop" /\ tty = FALSE /\ read_line(EOF) /\ at' # "over"
      /\ UNCHANGED <<tty, input, taken, ahead, edited, current, program>>
  BY DEF cstream_file_eof, stdio, prompt, Alive, SessionOK
<1>2. current = NoLine /\ AtStdio = {} /\ taken \in Nat
  BY <1>1, EmptyRange DEF SessionOK, AtStdio, cstream_file_eof
<1>3. EOF \in Int /\ ends_line(EOF)
  BY DEF ends_line, EOF
<1>4. /\ Increasing(Heard)' /\ at' = "run" /\ AtDebugger' = AtDebugger
      /\ InLine' = InLine \cup {NUL}
  BY <1>1, <1>3, HearStep
<1>5. /\ AtPrompt' = {} /\ AtPrompt = {} /\ InEditor' = {} /\ InEditor = {} /\ AtStdio' = {}
      /\ Typed' = Typed /\ Ignored' = Ignored
  BY <1>1, <1>2, <1>4, EmptyRange
  DEF AtPrompt, InEditor, AtStdio, Prompting, NoLine, Typed, Ignored
<1>6. InOrder'
  BY <1>1, <1>4 DEF Apart, InOrder, Increasing
<1>7. Within' /\ Ahead' /\ Disjoint' /\ NoneLost'
  BY <1>1, <1>2, <1>4, <1>5 DEF Apart, Within, Ahead, Disjoint, NoneLost
<1>8. InLine \subseteq AtDebugger
  BY <1>1, HeardSeq
<1>9. Closed(InLine, program \cup Ignored)'
  <2> SUFFICES ASSUME NEW x \in InLine', NEW d \in InLine', x > 0, NEW p \in (x + 1)..(d - 1)
               PROVE  p \in InLine' \cup program' \cup Ignored'
    BY DEF Closed
  <2>1. x \in InLine /\ d \in InLine /\ x \in Int /\ d \in Int /\ d <= taken
    BY <1>2, <1>4, <1>8 DEF Apart, Within, NUL
  <2>2. p \in InLine \cup program
    BY <1>1, <1>2, <2>1 DEF LineInv, PipeLine
  <2> QED
    BY <1>1, <1>4, <2>2
<1>10. LineInv'
  BY <1>1, <1>2, <1>4, <1>5, <1>9 DEF LineInv, TerminalLine, PipeLine, WholeLine
<1> QED
  BY <1>6, <1>7, <1>10 DEF Apart

(* At a terminal, the next character of readline's line, or its end.       *)
LEMMA ReadlineReadMoves ==
  ASSUME SessionOK, Apart, LineInv, cstream_readline_read, Alive'
  PROVE  Apart' /\ LineInv'
<1>1. /\ at = "pop" /\ tty = TRUE /\ current.set = TRUE /\ at' # "over"
      /\ UNCHANGED <<tty, input, taken, ahead, edited, program>>
      /\ current.rest \in Seq(Int) /\ taken \in Nat
  BY DEF cstream_readline_read, stdio, Alive, SessionOK
<1>2. AtStdio' = AtStdio /\ Typed' = Typed /\ Ignored' = Ignored /\ InEditor = {}
  BY <1>1 DEF AtStdio, Typed, Ignored, InEditor, Prompting
<1>3. CASE current.rest = <<>>
  <2>1. read_line(NEWLINE) /\ current' = NoLine /\ AtPrompt = {} /\ AtPrompt' = {}
    BY <1>3, EmptyRange DEF cstream_readline_read, AtPrompt, NoLine
  <2>2. NEWLINE \in Int /\ ends_line(NEWLINE)
    BY DEF ends_line, NEWLINE
  <2>3. /\ Increasing(Heard)' /\ at' = "run" /\ AtDebugger' = AtDebugger
        /\ InLine' = InLine \cup {NUL} /\ InEditor' = {}
    BY <1>1, <2>1, <2>2, HearStep DEF InEditor, Prompting
  <2>4. InOrder'
    BY <1>1, <2>1, <2>3, EmptyRange DEF Apart, InOrder, Increasing, NoLine
  <2>5. Within' /\ Ahead' /\ Disjoint' /\ NoneLost'
    BY <1>1, <1>2, <2>1, <2>3 DEF Apart, Within, Ahead, Disjoint, NoneLost
  <2>6. Closed(InLine, program \cup Ignored)
    BY <1>1, <2>1 DEF LineInv, TerminalLine
  <2>7. InLine \subseteq Int
    <3>1. InLine \subseteq AtDebugger
      BY <1>1, HeardSeq
    <3> QED
      BY <1>1, <3>1 DEF Apart, Within
  <2>8. Closed(InLine, program \cup Ignored)'
    BY <1>1, <1>2, <2>3, <2>6, <2>7 DEF Closed, NUL
  <2>9. LineInv'
    BY <1>1, <2>1, <2>3, <2>8 DEF LineInv, TerminalLine, PipeLine, WholeLine
  <2> QED
    BY <2>4, <2>5, <2>9 DEF Apart
<1>4. CASE current.rest # <<>>
  <2> DEFINE c == current.rest[1]
  <2>1. read_line(c) /\ current'.rest = Tail(current.rest) /\ current'.set = TRUE
    BY <1>1, <1>4 DEF cstream_readline_read, SessionOK
  <2>2. /\ c \in Int /\ Increasing(current.rest)' /\ AtPrompt = {c} \cup AtPrompt'
        /\ \A p \in AtPrompt' : c < p
    <3>1. /\ c \in Int /\ Increasing(Tail(current.rest))
          /\ Range(current.rest) = {c} \cup Range(Tail(current.rest))
          /\ \A p \in Range(Tail(current.rest)) : c < p
      BY <1>1, <1>4, TailRange DEF Apart, InOrder
    <3> QED
      BY <2>1, <3>1 DEF AtPrompt, Increasing
  <2> HIDE DEF c
  <2>3. c \in 1..taken /\ \A p \in AtDebugger : p < c
    BY <2>2 DEF Apart, Within, Ahead
  <2>4. ~ ends_line(c)
    BY <1>1, <2>3 DEF ends_line, NEWLINE, EOF, GARBAGE
  <2>5. /\ Increasing(Heard)' /\ at' = "pop" /\ AtDebugger' = AtDebugger \cup {c}
        /\ InLine' = InLine \cup {c} /\ InEditor' = {}
    BY <1>1, <2>1, <2>2, <2>3, <2>4, HearStep DEF InEditor, Prompting
  <2>6. InOrder'
    BY <1>1, <2>2, <2>5 DEF Apart, InOrder, Increasing
  <2>7. AtPrompt' \subseteq AtPrompt /\ c \in AtPrompt
    BY <2>2
  <2>8. Within'
    BY <1>1, <1>2, <2>3, <2>5, <2>7 DEF Apart, Within
  <2>9. Ahead'
    BY <1>1, <2>2, <2>5, <2>7 DEF Apart, Ahead
  <2>10. Disjoint'
    BY <1>1, <1>2, <2>5, <2>7 DEF Apart, Disjoint
  <2>11. NoneLost'
    BY <1>1, <1>2, <2>2, <2>5 DEF Apart, NoneLost
  <2>12. InLine' \cup AtPrompt' = InLine \cup AtPrompt
    BY <2>2, <2>5
  <2>13. LineInv'
    BY <1>1, <1>2, <2>1, <2>5, <2>12 DEF LineInv, TerminalLine, PipeLine, WholeLine
  <2> QED
    BY <2>6, <2>8, <2>9, <2>10, <2>11, <2>13 DEF Apart
<1> QED
  BY <1>3, <1>4

(* A new prompt.                                                           *)
LEMMA PromptMoves ==
  ASSUME SessionOK, Apart, LineInv, interruptible_readline
  PROVE  Apart' /\ LineInv'
<1>1. /\ at = "pop" /\ at' = "loop" /\ edited' = <<>>
      /\ UNCHANGED <<tty, input, taken, ahead, current, line, commands, program>>
  BY DEF interruptible_readline, stdio, history
<1>2. /\ Heard' = Heard /\ AtDebugger' = AtDebugger /\ AtPrompt' = AtPrompt
      /\ AtStdio' = AtStdio /\ InLine' = InLine /\ Typed' = Typed /\ Ignored' = Ignored
  BY <1>1 DEF Heard, AtDebugger, AtPrompt, AtStdio, InLine, Typed, Ignored
<1>3. InEditor = {} /\ InEditor' = {}
  BY <1>1, EmptyRange DEF InEditor, Prompting
<1>4. InOrder'
  BY <1>1, <1>2, EmptyRange DEF Apart, InOrder, Increasing
<1>5. Apart'
  BY <1>1, <1>2, <1>3, <1>4 DEF Apart, Within, Ahead, Disjoint, NoneLost
<1>6. LineInv'
  BY <1>1, <1>2, <1>3 DEF LineInv, TerminalLine, PipeLine, WholeLine, Closed
<1> QED
  BY <1>5, <1>6

(* readline takes a character for the line it edits, or ignores a ^D.      *)
LEMMA EditMoves ==
  ASSUME SessionOK, Apart, LineInv, rl_callback_read_char
  PROVE  Apart' /\ LineInv'
<1> DEFINE h == taken + 1
<1>1. /\ at = "ready" /\ at' = "check" /\ taken' = h /\ input[h] # "NL"
      /\ edited' = IF input[h] = "x" THEN Append(edited, h) ELSE edited
      /\ UNCHANGED <<tty, input, ahead, current, line, commands, program>>
  BY DEF rl_callback_read_char, history
<1>2. /\ taken \in Nat /\ h \in 1..Len(input) /\ tty = TRUE /\ current = NoLine
      /\ edited \in Seq(Int) /\ h \in Nat
  BY <1>1 DEF SessionOK, Prompting
<1>3. input[h] \in {"x", "EOF"}
  BY <1>1, <1>2 DEF SessionOK, Chars
<1>4. /\ Typed' \subseteq Typed \cup {h} /\ Ignored \subseteq Ignored'
      /\ (h \in Typed' <=> input[h] = "x") /\ (h \in Ignored' <=> input[h] = "EOF")
  BY <1>1, <1>2, TakenGrows
<1>5. taken < h /\ 0..taken \subseteq 0..h /\ 1..taken \subseteq 1..h /\ h \in 1..h
      /\ \A p \in 1..h : p \in 1..taken \/ p = h
  BY <1>2
<1> HIDE DEF h
<1>6. /\ Heard' = Heard /\ AtDebugger' = AtDebugger /\ AtPrompt' = AtPrompt
      /\ AtStdio' = AtStdio /\ InLine' = InLine
  BY <1>1 DEF Heard, AtDebugger, AtPrompt, AtStdio, InLine
<1>7. InEditor = Range(edited) /\ InEditor' = Range(edited')
  BY <1>1 DEF InEditor, Prompting
<1>8. AtPrompt = {}
  BY <1>2, EmptyRange DEF AtPrompt, NoLine
<1>9. /\ Increasing(edited')
      /\ InEditor' = IF input[h] = "x" THEN InEditor \cup {h} ELSE InEditor
  <2>1. \A p \in InEditor : p < h
    BY <1>2, <1>5 DEF Apart, Within
  <2>2. CASE input[h] = "x"
    BY <1>1, <1>2, <1>7, <2>1, <2>2, AppendRange DEF Apart, InOrder
  <2>3. CASE input[h] # "x"
    BY <1>1, <1>7, <2>3 DEF Apart, InOrder
  <2> QED
    BY <2>2, <2>3
<1>10. InOrder'
  BY <1>1, <1>6, <1>9 DEF Apart, InOrder, Increasing
<1>11. Within'
  BY <1>1, <1>5, <1>6, <1>9 DEF Apart, Within
<1>12. /\ \A p \in AtDebugger : p \in Int /\ p < h
       /\ h \notin program /\ h \notin AtStdio /\ h \in Int
  BY <1>2, <1>5 DEF Apart, Within
<1>13. Ahead'
  BY <1>1, <1>2, <1>6, <1>8, <1>9, <1>12 DEF Apart, Ahead
<1>14. Disjoint'
  BY <1>1, <1>6, <1>9, <1>12 DEF Apart, Disjoint
<1>15. NoneLost'
  BY <1>1, <1>4, <1>6, <1>9 DEF Apart, NoneLost
<1>16. ASSUME NEW c \in InEditor', NEW p \in (c + 1)..taken' PROVE p \in InEditor' \cup Ignored'
  <2>1. c \in 1..h /\ p \in 1..h /\ c < p
    BY <1>1, <1>2, <1>11 DEF Within
  <2>2. CASE p = h
    BY <1>3, <1>4, <1>9, <2>2
  <2>3. CASE p # h
    <3>1. p \in (c + 1)..taken /\ c # h
      BY <1>2, <1>5, <2>1, <2>3
    <3>2. p \in InEditor \cup Ignored
      BY <1>9, <3>1 DEF LineInv, TerminalLine
    <3> QED
      BY <1>4, <1>9, <3>2
  <2> QED
    BY <2>2, <2>3
<1>17. LineInv'
  BY <1>1, <1>2, <1>6, <1>16 DEF LineInv, TerminalLine, PipeLine, WholeLine, NoLine
<1> QED
  BY <1>10, <1>11, <1>13, <1>14, <1>15, <1>17 DEF Apart

(* The line is complete: it goes to the stream.                            *)
LEMMA LineMoves ==
  ASSUME SessionOK, Apart, LineInv, readline_callback
  PROVE  Apart' /\ LineInv'
<1> DEFINE h == taken + 1
<1>1. /\ at = "ready" /\ at' = "pop" /\ taken' = h /\ input[h] = "NL"
      /\ current'.rest = edited /\ current'.set = TRUE
      /\ UNCHANGED <<tty, input, ahead, edited, line, commands, program>>
  BY DEF readline_callback, history
<1>2. /\ taken \in Nat /\ h \in Nat /\ tty = TRUE /\ current = NoLine
  BY <1>1 DEF SessionOK, Prompting
<1>3. /\ Typed' \subseteq Typed \cup {h} /\ Ignored \subseteq Ignored' /\ h \notin Typed'
  BY <1>1, <1>2, TakenGrows
<1>4. 0..taken \subseteq 0..h /\ 1..taken \subseteq 1..h
  BY <1>2
<1> HIDE DEF h
<1>5. /\ Heard' = Heard /\ AtDebugger' = AtDebugger /\ AtStdio' = AtStdio /\ InLine' = InLine
  BY <1>1 DEF Heard, AtDebugger, AtStdio, InLine
<1>6. AtPrompt = {} /\ AtPrompt' = InEditor /\ InEditor' = {}
  BY <1>1, <1>2, EmptyRange DEF AtPrompt, InEditor, Prompting, NoLine
<1>7. InOrder'
  BY <1>1, <1>5 DEF Apart, InOrder, Increasing
<1>8. Within'
  BY <1>1, <1>4, <1>5, <1>6 DEF Apart, Within
<1>9. Ahead' /\ Disjoint' /\ NoneLost'
  BY <1>1, <1>2, <1>3, <1>5, <1>6 DEF Apart, Ahead, Disjoint, NoneLost
<1>10. Closed(InLine \cup AtPrompt, program \cup Ignored)'
  <2> SUFFICES ASSUME NEW x \in InLine' \cup AtPrompt', NEW d \in InLine' \cup AtPrompt', x > 0,
                      NEW p \in (x + 1)..(d - 1)
               PROVE  p \in InLine' \cup AtPrompt' \cup program' \cup Ignored'
    BY DEF Closed
  <2>1. InLine \subseteq AtDebugger /\ \A c \in InLine : c <= 0
    BY <1>1, <1>2, HeardSeq DEF LineInv, TerminalLine, NoLine
  <2>2. x \in InEditor /\ x \in Int
    BY <1>2, <1>5, <1>6, <2>1 DEF Apart, Within
  <2>3. d \in Int /\ d <= taken
    BY <1>2, <1>5, <1>6, <2>1 DEF Apart, Within
  <2>4. p \in (x + 1)..taken
    BY <1>2, <2>2, <2>3
  <2>5. p \in InEditor \cup Ignored
    BY <2>2, <2>4 DEF LineInv, TerminalLine
  <2> QED
    BY <1>3, <1>6, <2>5
<1>11. LineInv'
  BY <1>1, <1>2, <1>6, <1>10 DEF LineInv, TerminalLine, PipeLine, WholeLine
<1> QED
  BY <1>7, <1>8, <1>9, <1>11 DEF Apart

(* ^D on an empty line.                                                    *)
LEMMA NullLineMoves ==
  ASSUME SessionOK, Apart, LineInv, readline_callback_null, Alive'
  PROVE  Apart' /\ LineInv'
<1> DEFINE h == taken + 1
<1>1. /\ at = "ready" /\ taken' = h /\ input[h] = "EOF" /\ edited = <<>>
      /\ read_line(EOF) /\ at' # "over"
      /\ UNCHANGED <<tty, input, ahead, edited, current, program>>
  BY DEF readline_callback_null, prompt, Alive
<1>2. /\ taken \in Nat /\ h \in Nat /\ tty = TRUE /\ current = NoLine
  BY <1>1 DEF SessionOK, Prompting
<1>3. /\ Typed' \subseteq Typed \cup {h} /\ Ignored \subseteq Ignored' /\ h \notin Typed'
  BY <1>1, <1>2, TakenGrows
<1>4. 0..taken \subseteq 0..h /\ 1..taken \subseteq 1..h
  BY <1>2
<1> HIDE DEF h
<1>5. EOF \in Int /\ ends_line(EOF)
  BY DEF ends_line, EOF
<1>6. /\ Increasing(Heard)' /\ at' = "run" /\ AtDebugger' = AtDebugger
      /\ InLine' = InLine \cup {NUL}
  BY <1>1, <1>5, HearStep
<1>7. /\ AtStdio' = AtStdio /\ AtPrompt = {} /\ AtPrompt' = {} /\ InEditor = {} /\ InEditor' = {}
  BY <1>1, <1>2, <1>6, EmptyRange DEF AtPrompt, InEditor, AtStdio, Prompting, NoLine
<1>8. InOrder'
  BY <1>1, <1>6 DEF Apart, InOrder, Increasing
<1>9. Within'
  BY <1>1, <1>4, <1>6, <1>7 DEF Apart, Within
<1>10. Ahead' /\ Disjoint' /\ NoneLost'
  BY <1>1, <1>2, <1>3, <1>6, <1>7 DEF Apart, Ahead, Disjoint, NoneLost
<1>11. \A c \in InLine' : ~ (c > 0)
  <2>1. InLine \subseteq AtDebugger /\ \A c \in InLine : c <= 0
    BY <1>1, <1>2, HeardSeq DEF LineInv, TerminalLine, NoLine
  <2>2. \A c \in InLine : c \in Int
    BY <1>2, <2>1 DEF Apart, Within
  <2> QED
    BY <1>6, <2>1, <2>2 DEF NUL
<1>12. LineInv'
  BY <1>1, <1>2, <1>6, <1>7, <1>11 DEF LineInv, TerminalLine, PipeLine, WholeLine, Closed
<1> QED
  BY <1>8, <1>9, <1>10, <1>12 DEF Apart

(* The program takes F out of stdin's buffer and what was delivered.       *)
LEMMA ProgramTakes ==
  ASSUME SessionOK, Apart, LineInv, at = "run",
         UNCHANGED <<tty, at, input, edited, current, line, commands>>,
         NEW k \in Nat, taken' = taken + k, NEW F, program' = program \cup F,
         AtStdio \cup (taken + 1)..(taken + k) = F \cup AtStdio',
         \A p \in F : p \notin AtStdio', Increasing(ahead')
  PROVE  Apart' /\ LineInv'
<1> DEFINE n == taken + k
           new == (taken + 1)..n
<1>1. /\ Heard' = Heard /\ AtDebugger' = AtDebugger /\ AtPrompt' = AtPrompt
      /\ InLine' = InLine /\ InEditor = {} /\ InEditor' = {}
  BY DEF Heard, AtDebugger, AtPrompt, InLine, InEditor, Prompting
<1>2. taken \in Nat /\ n \in Nat /\ current = NoLine
  BY DEF SessionOK, LineInv, WholeLine
<1>3. AtPrompt = {}
  BY <1>2, EmptyRange DEF AtPrompt, NoLine
<1>4. Typed' \subseteq Typed \cup new /\ Ignored \subseteq Ignored'
  BY TakenGrows
<1>5. 0..taken \subseteq 0..n /\ 1..taken \subseteq 1..n /\ new \subseteq 1..n
      /\ \A p \in new : p > taken
  BY <1>2
<1>6. taken' = n
  OBVIOUS
<1>7. /\ \A p \in F \cup AtStdio' : p \in AtStdio \/ p \in new
      /\ \A p \in AtStdio : p \in F \cup AtStdio'
      /\ \A p \in new : p \in F \cup AtStdio'
  OBVIOUS
<1>8. \A p \in 0..taken : p \notin new
  BY <1>2, <1>5
<1> HIDE DEF n, new
<1>9. InOrder'
  BY <1>1 DEF Apart, InOrder, Increasing
<1>10. Within'
  BY <1>1, <1>3, <1>5, <1>6, <1>7 DEF Apart, Within
<1>11. Ahead'
  <2>1. ASSUME tty = FALSE, NEW p \in AtDebugger, NEW q \in AtStdio' PROVE p < q
    <3>1. CASE q \in AtStdio
      BY <2>1, <3>1 DEF Apart, Ahead
    <3>2. CASE q \in new
      <4>1. p \in Int /\ p <= taken /\ q \in Int /\ q > taken
        BY <1>2, <1>5, <3>2 DEF Apart, Within
      <4> QED
        BY <1>2, <4>1
    <3> QED
      BY <1>7, <3>1, <3>2
  <2> QED
    BY <1>1, <1>3, <2>1 DEF Ahead
<1>12. Disjoint'
  <2>1. \A p \in AtDebugger \cup program : p \in 0..taken
    BY <1>2 DEF Apart, Within
  <2>2. \A p \in F \cup AtStdio' : p \notin AtDebugger /\ p \notin program
    BY <1>7, <1>8, <2>1 DEF Apart, Disjoint
  <2> QED
    BY <1>1, <1>3, <2>2 DEF Apart, Disjoint
<1>13. NoneLost'
  BY <1>1, <1>3, <1>4, <1>7 DEF Apart, NoneLost
<1>14. Closed(InLine, program \cup Ignored)'
  BY <1>1, <1>4 DEF LineInv, WholeLine, Closed
<1>15. PipeLine'
  <2> SUFFICES ASSUME tty = FALSE, NEW c \in AtStdio', NEW p \in (c + 1)..n
               PROVE  p \in AtStdio' \cup program \cup F
    BY <1>6 DEF PipeLine
  <2>1. c \in Int /\ (c \in AtStdio \/ c > taken) /\ p \in Int /\ p <= n
    BY <1>2, <1>5, <1>6, <1>7, <1>10 DEF Within
  <2>2. CASE p <= taken
    <3>1. c \in AtStdio /\ p \in (c + 1)..taken
      BY <1>2, <2>1, <2>2
    <3> QED
      BY <1>7, <3>1 DEF LineInv, PipeLine
  <2>3. CASE p > taken
    BY <1>2, <1>7, <2>1, <2>3 DEF new
  <2> QED
    BY <1>2, <2>1, <2>2, <2>3
<1>16. LineInv'
  BY <1>1, <1>2, <1>14, <1>15 DEF LineInv, TerminalLine, WholeLine
<1> QED
  BY <1>9, <1>10, <1>11, <1>12, <1>13, <1>16 DEF Apart

(* scanf takes the first characters of the buffer.                         *)
LEMMA ScanfMoves ==
  ASSUME SessionOK, Apart, LineInv, scanf
  PROVE  Apart' /\ LineInv'
<1>1. PICK k \in (IF ahead = <<>> THEN Delivery(BLOCK) ELSE {0}) :
        \E n \in 0..Len(ahead \o Positions(k)) :
          /\ taken' = taken + k
          /\ ahead' = SubSeq(ahead \o Positions(k), n + 1, Len(ahead \o Positions(k)))
          /\ program' = program \cup {(ahead \o Positions(k))[j] : j \in 1..n}
  BY DEF scanf
<1> DEFINE b == ahead \o Positions(k)
<1>2. PICK n \in 0..Len(b) : /\ taken' = taken + k
                             /\ ahead' = SubSeq(b, n + 1, Len(b))
                             /\ program' = program \cup FirstOf(b, n)
  BY <1>1 DEF FirstOf
<1>3. k \in Nat /\ taken \in Nat /\ ahead \in Seq(Int)
  <2>1. CASE ahead = <<>>
    BY <1>1, <2>1, DeliveryBound DEF SessionOK
  <2>2. CASE ahead # <<>>
    BY <1>1, <2>2 DEF SessionOK
  <2> QED
    BY <2>1, <2>2
<1>4. /\ Positions(k) \in Seq(Int) /\ Increasing(Positions(k))
      /\ Range(Positions(k)) = (taken + 1)..(taken + k)
  BY <1>3, PositionsRange
<1>5. Increasing(ahead) /\ \A p \in Range(ahead), q \in (taken + 1)..(taken + k) : p < q
  BY <1>3 DEF Apart, InOrder, Within, AtStdio
<1>6. b \in Seq(Int) /\ Increasing(b) /\ Range(b) = AtStdio \cup (taken + 1)..(taken + k)
  BY <1>3, <1>4, <1>5, ConcatRange DEF AtStdio
<1> HIDE DEF b
<1>7. Cut(b, n, ahead')
  BY <1>2, <1>6 DEF Cut
<1>8. /\ ahead' \in Seq(Int) /\ Increasing(ahead')
      /\ Range(b) = FirstOf(b, n) \cup Range(ahead')
      /\ \A p \in FirstOf(b, n), q \in Range(ahead') : p < q
  BY <1>6, <1>7, CutRange
<1>9. AtStdio' = Range(ahead')
  BY DEF AtStdio
<1>10. \A p \in FirstOf(b, n) : p \notin AtStdio'
  <2>1. \A p \in Range(b) : p \in Int
    BY <1>6 DEF Range
  <2> QED
    BY <1>8, <1>9, <2>1
<1>11. at = "run" /\ UNCHANGED <<tty, at, input, edited, current, line, commands>>
  BY DEF scanf, prompt
<1>12. AtStdio \cup (taken + 1)..(taken + k) = FirstOf(b, n) \cup AtStdio'
  BY <1>6, <1>8, <1>9
<1> QED
  BY <1>2, <1>3, <1>8, <1>10, <1>11, <1>12, ProgramTakes

(* read() takes what descriptor 0 delivers.                                *)
LEMMA ReadMoves ==
  ASSUME SessionOK, Apart, LineInv, read
  PROVE  Apart' /\ LineInv'
<1>1. PICK k \in Delivery(MAX_KEYS) :
        taken' = taken + k /\ program' = program \cup Range(Positions(k))
  BY DEF read
<1>2. k \in Nat /\ taken \in Nat
  BY DeliveryBound DEF SessionOK
<1> DEFINE F == (taken + 1)..(taken + k)
<1>3. program' = program \cup F
  BY <1>1, <1>2, PositionsRange
<1>4. at = "run" /\ UNCHANGED <<tty, at, input, ahead, edited, current, line, commands>>
  BY DEF read, prompt
<1>5. AtStdio' = AtStdio /\ Increasing(ahead')
  BY <1>4 DEF AtStdio, Apart, InOrder
<1>6. \A p \in F : p \notin AtStdio'
  BY <1>2, <1>5 DEF Apart, Within
<1>7. AtStdio \cup (taken + 1)..(taken + k) = F \cup AtStdio'
  BY <1>5
<1>8. taken' = taken + k
  BY <1>1
<1> HIDE DEF F
<1> QED
  BY <1>2, <1>3, <1>4, <1>5, <1>6, <1>7, <1>8, ProgramTakes

(* The program takes a ^D at a terminal.                                   *)
LEMMA ReadEofMoves ==
  ASSUME SessionOK, Apart, LineInv, read_eof
  PROVE  Apart' /\ LineInv'
<1> DEFINE h == taken + 1
<1>1. /\ at = "run" /\ tty = TRUE /\ input[h] = "EOF" /\ taken' = h
      /\ UNCHANGED <<tty, at, input, ahead, edited, current, line, commands, program>>
  BY DEF read_eof, prompt, history, SessionOK
<1>2. taken \in Nat /\ h \in Nat /\ current = NoLine
  BY <1>1 DEF SessionOK, LineInv, WholeLine
<1>3. /\ Typed' \subseteq Typed \cup {h} /\ Ignored \subseteq Ignored' /\ h \notin Typed'
  BY <1>1, <1>2, TakenGrows
<1>4. 0..taken \subseteq 0..h /\ 1..taken \subseteq 1..h
  BY <1>2
<1> HIDE DEF h
<1>5. /\ Heard' = Heard /\ AtDebugger' = AtDebugger /\ AtStdio' = AtStdio /\ InLine' = InLine
      /\ AtPrompt' = AtPrompt /\ InEditor = {} /\ InEditor' = {}
  BY <1>1 DEF Heard, AtDebugger, AtStdio, InLine, AtPrompt, InEditor, Prompting
<1>6. InOrder'
  BY <1>1, <1>5 DEF Apart, InOrder, Increasing
<1>7. Within'
  BY <1>1, <1>4, <1>5 DEF Apart, Within
<1>8. Ahead' /\ Disjoint' /\ NoneLost'
  BY <1>1, <1>3, <1>5 DEF Apart, Ahead, Disjoint, NoneLost
<1>9. LineInv'
  BY <1>1, <1>3, <1>5 DEF LineInv, TerminalLine, PipeLine, WholeLine, Closed
<1> QED
  BY <1>6, <1>7, <1>8, <1>9 DEF Apart

(* The next line begins.                                                   *)
LEMMA ReturnMoves ==
  ASSUME SessionOK, Apart, LineInv, CommandReturns
  PROVE  Apart' /\ LineInv'
<1>1. /\ at = "run" /\ at' = "pop" /\ line'.data = <<>>
      /\ UNCHANGED <<tty, input, taken, ahead, edited, current, commands, program>>
  BY DEF CommandReturns, vec_init, stdio, prompt, history
<1>2. current = NoLine /\ commands \in Seq(Int)
  BY <1>1 DEF LineInv, WholeLine, SessionOK
<1>3. Heard' = Heard
  BY <1>1, <1>2 DEF Heard
<1>4. /\ AtDebugger' = AtDebugger /\ AtStdio' = AtStdio /\ InLine' = {} /\ AtPrompt' = AtPrompt
      /\ InEditor = {} /\ InEditor' = {} /\ Typed' = Typed /\ Ignored' = Ignored
  BY <1>1, <1>3, EmptyRange
  DEF AtDebugger, AtStdio, InLine, AtPrompt, InEditor, Prompting, Typed, Ignored
<1>5. InOrder'
  BY <1>1, <1>3 DEF Apart, InOrder, Increasing
<1>6. Within' /\ Ahead' /\ Disjoint' /\ NoneLost'
  BY <1>1, <1>4 DEF Apart, Within, Ahead, Disjoint, NoneLost
<1>7. LineInv'
  BY <1>1, <1>2, <1>4 DEF LineInv, TerminalLine, PipeLine, WholeLine, NoLine
<1> QED
  BY <1>5, <1>6, <1>7 DEF Apart

(* LiveInv holds at every step.                                            *)
LEMMA LiveStep == SessionOK /\ LiveInv /\ [Next]_vars => LiveInv'
<1> SUFFICES ASSUME SessionOK, LiveInv, [Next]_vars, Alive' PROVE Apart' /\ LineInv'
  BY DEF LiveInv
<1>1. CASE UNCHANGED vars
  <2>1. Alive /\ UNCHANGED <<at, input, tty, taken, ahead, edited, current, line, commands, program>>
    BY <1>1 DEF Alive, vars, stdio, prompt, history
  <2> QED
    BY <2>1, NothingMoves DEF LiveInv, Prompting
<1>2. CASE Next /\ at \in {"over", "killed"}
  BY <1>1, <1>2
  DEF Next, DebuggerStep, Types, sigint_handler, killed_by_sigint, cstream_pop_buffer,
      cstream_file_read, cstream_file_eof, cstream_file_fails, cstream_readline_read,
      interruptible_readline, select, select_fails, rl_callback_read_char, readline_callback,
      readline_callback_null, check_interrupt, scanf, read, read_eof, CommandReturns, Quits,
      Ended, Alive
<1>3. CASE Next /\ Alive
  <2>0. Apart /\ LineInv
    BY <1>3 DEF LiveInv
  <2>1. ASSUME NEW c \in Chars, Types(c) PROVE Apart' /\ LineInv'
    <3>1. /\ input' = Append(input, c)
          /\ UNCHANGED <<tty, at, taken, ahead, edited, current, line, commands, program>>
      BY <2>1 DEF Types, prompt, history
    <3>2. \A p \in 1..taken : input'[p] = input[p]
      BY <3>1 DEF SessionOK
    <3> QED
      BY <2>0, <3>1, <3>2, NothingMoves DEF Prompting
  <2>2. CASE sigint_handler \/ select \/ check_interrupt
    <3>1. /\ UNCHANGED <<tty, input, taken, ahead, edited, current, line, commands, program>>
          /\ at' = "run" <=> at = "run"
          /\ Prompting' <=> Prompting
      BY <2>2
      DEF sigint_handler, select, check_interrupt, stdio, prompt, history, Prompting, Alive
    <3> QED
      BY <2>0, <3>1, NothingMoves
  <2>3. CASE killed_by_sigint \/ cstream_file_fails \/ select_fails \/ Quits
    BY <2>3 DEF killed_by_sigint, cstream_file_fails, select_fails, Quits, Alive
  <2>4. CASE cstream_pop_buffer
    BY <2>0, <2>4, PopBufferMoves
  <2>5. CASE cstream_file_read
    BY <2>0, <2>5, FileReadMoves, FileDeliveryMoves
  <2>6. CASE cstream_file_eof
    BY <2>0, <2>6, FileEofMoves
  <2>7. CASE cstream_readline_read
    BY <2>0, <2>7, ReadlineReadMoves
  <2>8. CASE interruptible_readline
    BY <2>0, <2>8, PromptMoves
  <2>9. CASE rl_callback_read_char
    BY <2>0, <2>9, EditMoves
  <2>10. CASE readline_callback
    BY <2>0, <2>10, LineMoves
  <2>11. CASE readline_callback_null
    BY <2>0, <2>11, NullLineMoves
  <2>12. CASE scanf
    BY <2>0, <2>12, ScanfMoves
  <2>13. CASE read
    BY <2>0, <2>13, ReadMoves
  <2>14. CASE read_eof
    BY <2>0, <2>14, ReadEofMoves
  <2>15. CASE CommandReturns
    BY <2>0, <2>15, ReturnMoves
  <2>16. CASE Ended
    BY <1>1, <2>16 DEF Ended
  <2> QED
    BY <1>3, <2>1, <2>2, <2>3, <2>4, <2>5, <2>6, <2>7, <2>8, <2>9, <2>10, <2>11, <2>12,
       <2>13, <2>14, <2>15, <2>16 DEF Next, DebuggerStep
<1> QED
  BY <1>1, <1>2, <1>3 DEF Alive

LEMMA ConsoleInit == Init => SessionOK /\ LiveInv
<1> SUFFICES ASSUME Init PROVE SessionOK /\ LiveInv
  OBVIOUS
<1>1. SessionOK
  <2>1. NoLine \in [set : BOOLEAN, rest : Seq(Int)]
    BY DEF NoLine
  <2>2. vec_init \in [data : Seq(Int), capacity : Nat] /\ Len(vec_init.data) <= vec_init.capacity
    BY DEF vec_init
  <2>3. tty \in BOOLEAN /\ has_buffer \in BOOLEAN
    BY DEF Init
  <2>4. <<>> \in Seq(Chars) /\ Len(<<>>) = 0 /\ <<>> \in Seq(Int)
    OBVIOUS
  <2> QED
    BY <2>1, <2>2, <2>3, <2>4 DEF Init, SessionOK, Prompting
<1>2. Heard = <<>> /\ current.rest = <<>> /\ ahead = <<>> /\ edited = <<>> /\ line.data = <<>>
  BY DEF Init, Heard, NoLine, vec_init
<1>3. /\ AtDebugger = {} /\ AtPrompt = {} /\ InEditor = {} /\ AtStdio = {} /\ InLine = {}
      /\ Typed = {} /\ program = {}
  BY <1>2, EmptyRange DEF Init, AtDebugger, AtPrompt, InEditor, AtStdio, InLine, Typed, Prompting
<1>4. Apart
  BY <1>2, <1>3, EmptyRange DEF Apart, InOrder, Within, Ahead, Disjoint, NoneLost
<1>5. LineInv
  BY <1>3 DEF Init, LineInv, TerminalLine, PipeLine, WholeLine, NoLine
<1> QED
  BY <1>1, <1>4, <1>5 DEF LiveInv

LEMMA ConsoleInv == Spec => [](SessionOK /\ LiveInv)
BY ConsoleInit, SessionStep, LiveStep, PTL DEF Spec

(* Every character taken from descriptor 0 reaches one reader, in order,   *)
(* or waits with stdio or readline, however the reads of the debugger, of  *)
(* stdio and of the debugged program interleave.                           *)
THEOREM EveryCharacterOnce == Spec => []InputOnce
<1>1. SessionOK /\ LiveInv => InputOnce
  <2> SUFFICES ASSUME SessionOK, LiveInv, Alive PROVE InputOnce
    BY DEF InputOnce, Alive
  <2>1. Heard \in Seq(Int) /\ current.rest \in Seq(Int) /\ Delivered = Heard \o current.rest
    BY HeardSeq DEF SessionOK, Delivered, Heard
  <2>2. Apart
    BY DEF LiveInv
  <2>3. Increasing(Delivered) /\ Range(Delivered) = AtDebugger \cup AtPrompt
    BY <2>1, <2>2, ConcatRange DEF Apart, InOrder, Ahead, AtDebugger, AtPrompt
  <2>4. \A j, k \in DOMAIN Delivered : j < k => Delivered[j] < Delivered[k]
    BY <2>3 DEF Increasing
  <2>5. /\ Range(Delivered) \cap (program \cup Range(ahead)) = {}
        /\ program \cap Range(ahead) = {}
    BY <2>2, <2>3 DEF Apart, Disjoint, AtStdio
  <2>6. \A p \in 1..taken : input[p] = "x" =>
          p \in Range(Delivered) \cup program \cup Range(ahead)
                \cup (IF Prompting THEN Range(edited) ELSE {})
    BY <2>2, <2>3 DEF Apart, NoneLost, Typed, InEditor, AtStdio
  <2> QED
    BY <2>4, <2>5, <2>6 DEF InputOnce
<1> QED BY <1>1, ConsoleInv, PTL

(* What run_command gets is one line of the input, inside its allocation,  *)
(* however long it is.                                                     *)
THEOREM CommandsAreLines == Spec => []CommandIsLine
<1>1. SessionOK /\ LiveInv => CommandIsLine
  <2> SUFFICES ASSUME SessionOK, LiveInv PROVE CommandIsLine
    OBVIOUS
  <2>1. Len(line.data) <= line.capacity /\ line.data \in Seq(Int)
    BY DEF SessionOK
  <2>2. ASSUME at = "run", NEW j \in DOMAIN line.data, NEW k \in DOMAIN line.data,
               line.data[j] > 0, NEW p \in (line.data[j] + 1)..(line.data[k] - 1)
        PROVE  p \in Range(line.data) \cup program \/ input[p] = "EOF"
    <3>1. Closed(InLine, program \cup Ignored)
      BY <2>2 DEF LiveInv, Alive, LineInv, WholeLine
    <3>2. line.data[j] \in InLine /\ line.data[k] \in InLine
      BY <2>2 DEF InLine, Range
    <3>3. p \in InLine \cup program \cup Ignored
      BY <2>2, <3>1, <3>2 DEF Closed
    <3> QED
      BY <3>3 DEF InLine, Ignored
  <2> QED
    BY <2>1, <2>2 DEF CommandIsLine
<1> QED BY <1>1, ConsoleInv, PTL
=============================================================================
