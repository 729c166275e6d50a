---------------------------- MODULE Instructions ----------------------------
(***************************************************************************)
(* What single instructions promise a program, stated apart from how       *)
(* cpu.c and functions.c compute it: divisions by what rebuilds the        *)
(* dividend, trapping sums by the rule on signs, loads and stores byte by  *)
(* byte instead of by shifts and masks.  The properties are about every    *)
(* step that executes such an instruction, in any program.                 *)
(***************************************************************************)
EXTENDS Cpu

Executes(ops) == status = "run" /\ Instruction.op \in ops

Rs == reg[Instruction.rs]
Rt == reg[Instruction.rt]

(* Quotient and remainder rebuild the dividend, the remainder is smaller   *)
(* than the divisor and has the sign of the dividend, and the only signed  *)
(* division that does not end is that of INT_MIN by -1                     *)
(* (functions.c:div, divu).                                                *)
DivisionRebuilds ==
  [][/\ Executes({"DIVU"}) /\ Rt # 0 => Rs = lo' * Rt + hi' /\ hi' < Rt
     /\ Executes({"DIV"}) /\ Rt # 0 =>
          LET a == S32(Rs)
              b == S32(Rt)
              q == S32(lo')
              r == S32(hi')
          IN IF a = -(WORD \div 2) /\ b = -1
             THEN status' = "crash"
             ELSE /\ a = q * b + r /\ Abs(r) < Abs(b)
                  /\ r # 0 => (r < 0 <=> a < 0)]_vars

(* The pair (hi, lo) holds the exact signed or unsigned product, and the   *)
(* accumulating instructions carry and borrow through all of it, whichever *)
(* sign they read it with (mult, multu, exec_special2).                    *)
Pair(h, l) == h * WORD + l
Congruent(m, n) == (m - n) % (WORD * WORD) = 0

ProductInPair ==
  [][/\ Executes({"MULT"}) => Pair(S32(hi'), lo') = S32(Rs) * S32(Rt)
     /\ Executes({"MULTU"}) => Pair(hi', lo') = Rs * Rt
     /\ Executes({"MADD"}) => Congruent(Pair(hi', lo'), Pair(hi, lo) + S32(Rs) * S32(Rt))
     /\ Executes({"MADDU"}) => Congruent(Pair(hi', lo'), Pair(hi, lo) + Rs * Rt)
     /\ Executes({"MSUB"}) => Congruent(Pair(hi', lo'), Pair(hi, lo) - S32(Rs) * S32(Rt))
     /\ Executes({"MSUBU"}) => Congruent(Pair(hi', lo'), Pair(hi, lo) - Rs * Rt)]_vars

(* clz is the number of leading zeros, which tells the position of the     *)
(* most significant one; clo is the same of the complement (exec_special2).*)
LeadingCounts ==
  [][Executes({"CLZ", "CLO"}) /\ Instruction.rd # R0 =>
       LET v == IF Instruction.op = "CLZ" THEN Rs ELSE Not(Rs)
           n == reg'[Instruction.rd]
       IN /\ n \in 0..WBITS
          /\ v \div 2 ^ (WBITS - n) = 0
          /\ n < WBITS => v \div 2 ^ (WBITS - n - 1) = 1]_vars

(* add, addi and sub overflow when the sign of the truncated result is one *)
(* that the signs of the operands rule out.  Then $k0 is 1 and nothing     *)
(* else is written; otherwise $k0 is 0, unless it is the destination, and  *)
(* the destination has the result (functions.c:add, sub, addi).            *)
Second == IF Instruction.op = "ADDI" THEN U32(S16(Instruction.imm)) ELSE Rt
Truncated == IF Instruction.op = "SUB" THEN U32(Rs - Second) ELSE U32(Rs + Second)
Overflows ==
  /\ (TopBit(Rs) = TopBit(Second)) = (Instruction.op # "SUB")
  /\ TopBit(Truncated) # TopBit(Rs)

OverflowFlag ==
  [][Executes(TrapOps) =>
       LET d == TrapDest(Instruction) IN
       IF Overflows
       THEN reg' = [reg EXCEPT ![K0] = 1]
       ELSE /\ d # K0 => reg'[K0] = 0
            /\ d # R0 => reg'[d] = Truncated
            /\ \A r \in Reg \ {K0, d} : reg'[r] = reg[r]]_vars

(* sra and srav fill with the sign: they are srl of a non-negative word,   *)
(* and the complement of srl of the complement otherwise (exec_register).  *)
ArithmeticShift ==
  [][Executes({"SRA", "SRAV"}) /\ Instruction.rd # R0 =>
       LET n == IF Instruction.op = "SRA" THEN Instruction.shamt ELSE Rs % WBITS
       IN reg'[Instruction.rd] = IF TopBit(Rt) = 0 THEN Shr(Rt, n)
                                                   ELSE Not(Shr(Not(Rt), n))]_vars

-----------------------------------------------------------------------------
(* Byte k of a word, the bytes of the register that an access moves, and   *)
(* the address where byte k is.                                            *)
Lane(w, k) == (w \div 2 ^ (BITS * k)) % BYTE

Lanes(op, a) ==
  CASE op \in {"LB", "LBU", "SB"} -> {0}
    [] op \in {"LH", "LHU", "SH"} -> 0..1
    [] op \in {"LW", "SW"}        -> 0..3
    [] op \in {"LWL", "SWL"}      -> (3 - (a % 4))..3
    [] op \in {"LWR", "SWR"}      -> 0..(3 - (a % 4))

Place(op, a, k) == U32(IF op \in {"LWL", "SWL"} THEN a + k - 3 ELSE a + k)

(* What a load leaves in a byte of the register that it does not move.     *)
Sign(b) == IF b < BYTE \div 2 THEN 0 ELSE BYTE - 1
Filling(op, a, k) ==
  CASE op \in {"LWL", "LWR"} -> Lane(Rt, k)
    [] op \in {"LBU", "LHU"} -> 0
    [] op = "LB"             -> Sign(memory[a])
    [] op = "LH"             -> Sign(memory[U32(a + 1)])

(* A load or store moves exactly the bytes it names, each between its      *)
(* place in memory and its place in the register, at every alignment and   *)
(* across the end of memory; lwl and lwr keep the other bytes of the       *)
(* register.  A word load of GPU_INPUT and a word store to GPU_FLUSH are   *)
(* the device's (exec_immediate, load_word, store_word).                   *)
BytesInPlace ==
  [][LET op == Instruction.op
         a == mem_addr
         Asks(ops, register) == op \in ops /\ Aligned(Instruction, a) = register
     IN /\ Executes(NarrowLoadOps \cup WordLoadOps) /\ Instruction.rt # R0
             /\ ~ Asks(WordLoadOps, GPU_INPUT) =>
             \A k \in 0..3 :
               Lane(reg'[Instruction.rt], k) =
                 IF k \in Lanes(op, a) THEN memory[Place(op, a, k)] ELSE Filling(op, a, k)
        /\ Executes(NarrowStoreOps \cup WordStoreOps) /\ ~ Asks(WordStoreOps, GPU_FLUSH) =>
             \A k \in Lanes(op, a) : memory'[Place(op, a, k)] = Lane(Rt, k)]_vars

(* No instruction writes memory outside the bytes it names: the merged     *)
(* words that swl and swr write back leave the bytes before and after as   *)
(* they were, and what is not a store writes nothing.  At the word of      *)
(* GPU_INPUT the merge is with the key, and all of it is written.  What a  *)
(* system call writes is the subject of ServiceFootprint.                  *)
Bytes(a, n) == {U32(a + k) : k \in 0..(n - 1)}

Named(i, a) ==
  IF i.op \in {"SWL", "SWR"} /\ Aligned(i, a) = GPU_INPUT THEN Bytes(GPU_INPUT, 4)
  ELSE CASE i.op \in NarrowStoreOps \cup WordStoreOps ->
              {Place(i.op, a, k) : k \in Lanes(i.op, a)}
         [] i.op = "SWC1" -> Bytes(a, 4)
         [] i.op = "SDC1" -> Bytes(a, 8)
         [] OTHER -> {}

StoreFootprint ==
  [][Instruction.op # "SYSCALL" =>
       \A x \in Word : memory'[x] # memory[x] => x \in Named(Instruction, mem_addr)]_vars
=============================================================================
