-------------------------------- MODULE Fpu --------------------------------
(***************************************************************************)
(* fpu.c: the floating-point coprocessor.  Registers hold raw bits; a      *)
(* double is a pair, the lower register with the low word.  The code does  *)
(* not check that the pair starts at an even register: the pair of         *)
(* register 31 ends in the cell after the array, which is fp_cond.  What   *)
(* the host's arithmetic makes of two operands is a parameter.             *)
(***************************************************************************)
EXTENDS Syscalls

CONSTANTS
  FpResult(_, _, _, _),    \* the bits of op on operands a, b of a format
  FpRelation(_, _, _, _)   \* whether the comparison op holds of them

(* The format in field rs.                                                 *)
FMT_S == 16
FMT_D == 17
FMT_W == 20

Single == Word
Double == 0..(WORD * WORD - 1)

getd(n) == fpr[n] + WORD * fpr[n + 1]

setf(n, v) == [fpr EXCEPT ![n] = v]

(* Mutant of setd: the halves of the pair are swapped.                     *)
setd_Swapped(n, v) == [fpr EXCEPT ![n] = U32(v \div WORD), ![n + 1] = U32(v)]

setd(n, v) == [fpr EXCEPT ![n] = U32(v), ![n + 1] = U32(v \div WORD)]

Operand(i, n) == IF i.rs = FMT_D THEN getd(n) ELSE fpr[n]

(* The cases of fp_single, fp_double and fp_word.                          *)
HasOp(i) ==
  \/ i.rs \in {FMT_S, FMT_D} /\ i.op \in FpArithmeticOps \cup FpCompareOps \cup {"CVT_W"}
  \/ i.rs \in {FMT_S, FMT_W} /\ i.op = "CVT_D"
  \/ i.rs \in {FMT_D, FMT_W} /\ i.op = "CVT_S"

GivesDouble(i) == i.op = "CVT_D" \/ (i.rs = FMT_D /\ i.op \in FpArithmeticOps)

(* mov copies the bits, neg and abs flip and clear the sign bit.  The rest *)
(* is FpResult, of which the guards of ComputeSingle and ComputeDouble say *)
(* all that is assumed: it is a float or a double.                         *)
Computed(i) ==
  LET a == Operand(i, i.rd)
      sign == (IF i.rs = FMT_D THEN WORD * WORD ELSE WORD) \div 2
  IN CASE i.op = "FMOV" -> a
       [] i.op = "FNEG" -> (a + sign) % (2 * sign)
       [] i.op = "FABS" -> a % sign
       [] OTHER -> FpResult(i.op, i.rs, a, Operand(i, i.rt))

-----------------------------------------------------------------------------
(* exec_cop1.                                                              *)
MoveFromFpu ==
  /\ Instruction.op = "MFC1"
  /\ Write(Instruction.rt, fpr[Instruction.rd])
  /\ UNCHANGED fpr

MoveToFpu ==
  LET i == Instruction IN
  /\ i.op = "MTC1"
  /\ fpr' = setf(i.rd, reg[i.rt])
  /\ Output

(* Mutant of BranchFpu: bc1f and bc1t exchanged.                           *)
BranchFpu_Swapped ==
  LET i == Instruction IN
  /\ i.op = "BC1"
  /\ Advance(fpr[FP_COND] # i.rt % 2, branch_dest)
  /\ UNCHANGED <<reg, hi, lo, memory, last_key, fpr>>

(* bc1f, bc1t: the low bit of rt tells which.                              *)
BranchFpu ==
  LET i == Instruction IN
  /\ i.op = "BC1"
  /\ Advance(fpr[FP_COND] = i.rt % 2, branch_dest)
  /\ UNCHANGED <<reg, hi, lo, memory, last_key, fpr>>

Compare ==
  LET i == Instruction IN
  /\ i.op \in FpCompareOps
  /\ HasOp(i)
  /\ fpr' = setf(FP_COND, Flag(FpRelation(i.op, i.rs, Operand(i, i.rd), Operand(i, i.rt))))
  /\ Output

ComputeSingle ==
  LET i == Instruction IN
  /\ i.op \in FpArithmeticOps \cup ConvertOps
  /\ HasOp(i) /\ ~ GivesDouble(i)
  /\ Computed(i) \in Single
  /\ fpr' = setf(i.fd, Computed(i))
  /\ Output

ComputeDouble ==
  LET i == Instruction IN
  /\ i.op \in FpArithmeticOps \cup ConvertOps
  /\ HasOp(i) /\ GivesDouble(i)
  /\ Computed(i) \in Double
  /\ fpr' = setd(i.fd, Computed(i))
  /\ Output

NoSuchOperation ==
  /\ Instruction.op \in FpArithmeticOps \cup FpCompareOps \cup ConvertOps
  /\ ~ HasOp(Instruction)
  /\ Halt("error")
  /\ UNCHANGED <<reg, hi, lo, memory, last_key, fpr>>

-----------------------------------------------------------------------------
(* exec_cop1_ldst: words through the device, one after the other.          *)
LoadFpu ==
  LET i == Instruction
      a == mem_addr
      b == U32(a + 4)
      key == KeyAfterLoad(last_key, a)
      low == LoadWord(memory, last_key, a)
  IN /\ \/ i.op = "LWC1" /\ fpr' = setf(i.rt, low) /\ last_key' = key
        \/ /\ i.op = "LDC1"
           /\ fpr' = [fpr EXCEPT ![i.rt] = low, ![i.rt + 1] = LoadWord(memory, key, b)]
           /\ last_key' = KeyAfterLoad(key, b)
     /\ Continue
     /\ UNCHANGED <<reg, hi, lo, memory>>

StoreFpu ==
  LET i == Instruction
      a == mem_addr
      b == U32(a + 4)
      m == StoreWord(memory, a, fpr[i.rt])
  IN /\ \/ i.op = "SWC1" /\ memory' = m /\ last_key' \in KeysAfterStore(last_key, a)
        \/ /\ i.op = "SDC1"
           /\ memory' = StoreWord(m, b, fpr[i.rt + 1])
           /\ \E k \in KeysAfterStore(last_key, a) : last_key' \in KeysAfterStore(k, b)
     /\ Continue
     /\ UNCHANGED <<reg, hi, lo, fpr>>

exec_cop1 ==
  \/ MoveFromFpu \/ MoveToFpu \/ BranchFpu \/ Compare
  \/ ComputeSingle \/ ComputeDouble \/ NoSuchOperation

exec_cop1_ldst == LoadFpu \/ StoreFpu
=============================================================================
