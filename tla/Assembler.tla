----------------------------- MODULE Assembler -----------------------------
(***************************************************************************)
(* How the models write programs.  A listing is a sequence of              *)
(* instructions; the word n encodes its n-th one, the word 0 is nop and    *)
(* every other word is illegal.  The layout of the bits in a word is       *)
(* abstracted, which word an instruction has is not: programs can read,    *)
(* copy and overwrite the words of their code.                             *)
(***************************************************************************)
EXTENDS Words, Sequences

LOCAL B == INSTANCE Bitwise

MCAnd(a, b) == B!&(a, b)
MCOr(a, b)  == B!|(a, b)
MCXor(a, b) == B!^^(a, b)

Asm(o) == [op |-> o, rs |-> 0, rt |-> 0, rd |-> 0, shamt |-> 0, fd |-> 0,
           imm |-> 0, target |-> 0]

(* rd <- rs op rt, with a shift amount; rt <- rs op imm; a store or load   *)
(* of rt at imm(rs); a branch on rs (and rt); a jump.                      *)
AsmR(o, rd, rs, rt) == [Asm(o) EXCEPT !.rd = rd, !.rs = rs, !.rt = rt]
AsmShift(o, rd, rt, n) == [Asm(o) EXCEPT !.rd = rd, !.rt = rt, !.shamt = n]
AsmI(o, rt, rs, n) == [Asm(o) EXCEPT !.rt = rt, !.rs = rs, !.imm = n % HALF]
AsmJ(o, t) == [Asm(o) EXCEPT !.target = t]

(* fd <- fs op ft in a format; a comparison; a move between rt and fs.     *)
AsmF(o, fmt, fd, fs, ft) == [Asm(o) EXCEPT !.rs = fmt, !.fd = fd, !.rd = fs, !.rt = ft]
AsmC(o, fmt, fs, ft) == AsmF(o, fmt, 0, fs, ft)
AsmM(o, rt, fs) == [Asm(o) EXCEPT !.rt = rt, !.rd = fs]

Assemble(listing) ==
  [w \in Word |-> IF w = 0 THEN Asm("NOP")
                  ELSE IF w <= Len(listing) THEN listing[w] ELSE Asm("ILLEGAL")]

(* The byte of word w that address a selects, and the memory that holds    *)
(* the words ws[0], ws[1], ... from address 0 on.                          *)
ByteOf(w, a) == (w \div BYTE ^ (a % 4)) % BYTE
Image(ws) == [a \in Word |-> IF (a \div 4) \in DOMAIN ws THEN ByteOf(ws[a \div 4], a) ELSE 0]

-----------------------------------------------------------------------------
(* A host's floating-point unit for small words.  A number has a sign bit  *)
(* and a magnitude that counts units, the largest magnitude is not a       *)
(* number; results are rounded down and saturate.                          *)
FpIsDouble(fmt) == fmt = 17
FpIsWord(fmt) == fmt = 20
FpSign(fmt) == (IF FpIsDouble(fmt) THEN WORD * WORD ELSE WORD) \div 2
FpNan(fmt) == FpSign(fmt) - 1

IsNan(fmt, a) == ~ FpIsWord(fmt) /\ a % FpSign(fmt) = FpNan(fmt)
FpValue(fmt, a) == IF FpIsWord(fmt) THEN S32(a)
                   ELSE IF a < FpSign(fmt) THEN a ELSE FpSign(fmt) - a

FpEncode(fmt, v) ==
  LET m == IF Abs(v) < FpNan(fmt) THEN Abs(v) ELSE FpNan(fmt) - 1
  IN IF v < 0 THEN FpSign(fmt) + m ELSE m

ResultFormat(op, fmt) ==
  CASE op = "CVT_S" -> 16 [] op = "CVT_D" -> 17 [] op = "CVT_W" -> 20 [] OTHER -> fmt

FpRoot(v) == CHOOSE r \in 0..WORD : r * r <= v /\ v < (r + 1) * (r + 1)

(* An out-of-range conversion to a word gives the most negative one.       *)
MCFpResult(op, fmt, a, b) ==
  LET x == FpValue(fmt, a)
      y == FpValue(fmt, b)
      f == ResultFormat(op, fmt)
      nan == \/ IsNan(fmt, a)
             \/ op \in {"FADD", "FSUB", "FMUL", "FDIV"} /\ IsNan(fmt, b)
             \/ op = "FSQRT" /\ x < 0
             \/ op = "FDIV" /\ y = 0
      v == CASE op = "FADD" -> x + y
             [] op = "FSUB" -> x - y
             [] op = "FMUL" -> x * y
             [] op = "FDIV" -> Quot(x, y)
             [] op = "FSQRT" -> FpRoot(x)
             [] OTHER -> x
  IN IF FpIsWord(f)
     THEN IF ~ nan /\ FitsInt32(v) THEN U32(v) ELSE WORD \div 2
     ELSE IF nan THEN FpNan(f) ELSE FpEncode(f, v)

(* Comparisons with what is not a number are false.                        *)
MCFpRelation(op, fmt, a, b) ==
  LET x == FpValue(fmt, a)
      y == FpValue(fmt, b)
  IN /\ ~ IsNan(fmt, a) /\ ~ IsNan(fmt, b)
     /\ CASE op = "C_EQ" -> x = y [] op = "C_LT" -> x < y [] op = "C_LE" -> x <= y
=============================================================================
