------------------------------- MODULE Words -------------------------------
(***************************************************************************)
(* The C integer types the emulator computes with, at any width.  The code *)
(* has BITS = 8: a uint8_t has 8 bits, a uint32_t four times as many.  A   *)
(* model takes BITS = 1 or 2, so that a word has 4 or 8 bits and the       *)
(* memory 16 or 256 bytes; every boundary of the arithmetic (sign, carry,  *)
(* wrap-around, the four bytes of a word) keeps its place.                 *)
(***************************************************************************)
EXTENDS Integers, FiniteSets

CONSTANTS
  BITS,                          \* number of bits of a uint8_t
  And(_, _), Or(_, _), Xor(_, _) \* C's &, | and ^ on two uint32_t

WBITS == 4 * BITS
BYTE == 2 ^ BITS
HALF == BYTE * BYTE
WORD == HALF * HALF              \* 2^32; also MEM_SIZE, the emulated memory

Byte == 0..(BYTE - 1)
Half == 0..(HALF - 1)
Word == 0..(WORD - 1)

(* The last two conjuncts are arithmetic: powers of two grow up to 2^WBITS *)
(* = WORD, and a bit count fits in a word.                                 *)
ASSUME WidthAssumption ==
  /\ BITS \in Nat \ {0}
  /\ BYTE \in Nat /\ BYTE >= 2
  /\ \A s \in 0..WBITS : 2 ^ s \in 1..WORD
  /\ WBITS < WORD

(* Arithmetic as well: exponents add.                                      *)
ASSUME PowerAssumption ==
  /\ 2 ^ 0 = 1 /\ 2 ^ 1 = 2
  /\ \A s, t \in 0..WBITS : s + t <= WBITS => 2 ^ (s + t) = 2 ^ s * 2 ^ t

ASSUME BitwiseAssumption ==
  \A a, b \in Word : And(a, b) \in Word /\ Or(a, b) \in Word /\ Xor(a, b) \in Word

(* And of C's & and |: a mask of low or of high bits splits a word at bit  *)
(* s, and words without a common bit are put together.                     *)
ASSUME MaskAssumption ==
  \A s \in 0..WBITS :
    /\ \A w \in Word :
         And(w, 2 ^ s - 1) = w % 2 ^ s /\ And(w, WORD - 2 ^ s) = w - (w % 2 ^ s)
    /\ \A a \in 0..(2 ^ s - 1), b \in 0..(2 ^ (WBITS - s) - 1) :
         Or(a, b * 2 ^ s) = a + b * 2 ^ s /\ Or(b * 2 ^ s, a) = a + b * 2 ^ s

-----------------------------------------------------------------------------
(* Conversions.  U32 is the conversion to uint32_t that every assignment   *)
(* to a register, to hi, lo or pc performs; the others are the casts       *)
(* (int32_t), (int16_t) and (int8_t).                                      *)
U32(n) == n % WORD
S32(w) == IF w < WORD \div 2 THEN w ELSE w - WORD
S16(h) == IF h < HALF \div 2 THEN h ELSE h - HALF
S8(b)  == IF b < BYTE \div 2 THEN b ELSE b - BYTE

(* Mutant of FitsInt32: INT_MIN counts as an overflow.                     *)
FitsInt32_OffByOne(n) == -(WORD \div 2) < n /\ n < WORD \div 2

FitsInt32(n) == -(WORD \div 2) <= n /\ n < WORD \div 2

Not(w) == WORD - 1 - w                      \* C's ~ on a uint32_t

Shl(w, s) == U32(w * 2 ^ s)
Shr(w, s) == w \div 2 ^ s

(* Mutant of Sar: the cast to int32_t is forgotten.                        *)
Sar_Logical(w, s) == Shr(w, s)

Sar(w, s) == U32(S32(w) \div 2 ^ s)         \* >> of a negative int32_t

Flag(p) == IF p THEN 1 ELSE 0

(* C division truncates towards zero; \div of TLA+ rounds down.            *)
Abs(n) == IF n < 0 THEN -n ELSE n

(* Mutant of Quot: the quotient is rounded down.                           *)
Quot_Floor(a, b) == IF b < 0 THEN (-a) \div (-b) ELSE a \div b

Quot(a, b) == IF (a < 0) = (b < 0) THEN Abs(a) \div Abs(b)
                                   ELSE -(Abs(a) \div Abs(b))
Rem(a, b) == a - b * Quot(a, b)

(* The loops of CLZ and CLO: the steps for which the top bit of the        *)
(* shifted operand is 0 (respectively 1) before the loop stops.            *)
TopBit(w) == w \div (WORD \div 2)

(* Mutant of CountLeading: the loop stops one bit early.                   *)
CountLeading_Short(v, bit) ==
  Cardinality({n \in 1..(WBITS - 1) : \A k \in 0..(n - 1) : TopBit(Shl(v, k)) = bit})

CountLeading(v, bit) ==
  Cardinality({n \in 1..WBITS : \A k \in 0..(n - 1) : TopBit(Shl(v, k)) = bit})

(***************************************************************************)
(* The value the arithmetic, logic and shift instructions write to their   *)
(* destination: a is the operand in rs, b the one in rt.                   *)
(***************************************************************************)
AluR(op, a, b, shamt) ==
  CASE op = "ADDU" -> U32(a + b)
    [] op = "SUBU" -> U32(a - b)
    [] op = "AND"  -> And(a, b)
    [] op = "OR"   -> Or(a, b)
    [] op = "XOR"  -> Xor(a, b)
    [] op = "NOR"  -> Not(Or(a, b))
    [] op = "SLT"  -> Flag(S32(a) < S32(b))
    [] op = "SLTU" -> Flag(a < b)
    [] op = "SLL"  -> Shl(b, shamt)
    [] op = "SRL"  -> Shr(b, shamt)
    [] op = "SRA"  -> Sar(b, shamt)
    [] op = "SLLV" -> Shl(b, a % WBITS)
    [] op = "SRLV" -> Shr(b, a % WBITS)
    [] op = "SRAV" -> Sar(b, a % WBITS)
    [] op = "MUL"  -> U32(S32(a) * S32(b))
    [] op = "CLZ"  -> CountLeading(a, 0)
    [] op = "CLO"  -> CountLeading(a, 1)

AluI(op, a, imm) ==
  CASE op = "ADDIU" -> U32(a + S16(imm))
    [] op = "ANDI"  -> And(a, imm)
    [] op = "ORI"   -> Or(a, imm)
    [] op = "XORI"  -> Xor(a, imm)
    [] op = "SLTI"  -> Flag(S32(a) < S16(imm))
    [] op = "SLTIU" -> Flag(a < U32(S16(imm)))
    [] op = "LUI"   -> U32(imm * HALF)

(* The exact result of the trapping instructions, before it is truncated.  *)
Exact(op, a, b, imm) ==
  CASE op = "ADD"  -> S32(a) + S32(b)
    [] op = "SUB"  -> S32(a) - S32(b)
    [] op = "ADDI" -> S32(a) + S16(imm)

(* The 64-bit value that the multiplications leave in the pair (hi, lo).   *)
Product(op, a, b, hi, lo) ==
  CASE op = "MULT"  -> S32(a) * S32(b)
    [] op = "MULTU" -> a * b
    [] op = "MADD"  -> S32(hi) * WORD + lo + S32(a) * S32(b)
    [] op = "MADDU" -> hi * WORD + lo + a * b
    [] op = "MSUB"  -> S32(hi) * WORD + lo - S32(a) * S32(b)
    [] op = "MSUBU" -> hi * WORD + lo - a * b

(***************************************************************************)
(* Byte-addressed little-endian memory: m is a function from addresses to  *)
(* bytes, and addresses wrap around like the uint32_t that holds them.     *)
(***************************************************************************)
HalfAt(m, a) == m[a] + BYTE * m[U32(a + 1)]
WordAt(m, a) == m[a] + BYTE * m[U32(a + 1)] + HALF * m[U32(a + 2)]
                     + HALF * BYTE * m[U32(a + 3)]

PutByte(m, a, v) == [m EXCEPT ![a] = v % BYTE]

PutHalf(m, a, v) == [m EXCEPT ![a] = v % BYTE,
                              ![U32(a + 1)] = (v \div BYTE) % BYTE]
PutWord(m, a, v) == [m EXCEPT ![a] = v % BYTE,
                              ![U32(a + 1)] = (v \div BYTE) % BYTE,
                              ![U32(a + 2)] = (v \div HALF) % BYTE,
                              ![U32(a + 3)] = (v \div (HALF * BYTE)) % BYTE]

(* Unaligned accesses: w is the aligned word around address a, r the       *)
(* register.  LeftLoad and RightLoad merge w into r (lwl, lwr); LeftStore  *)
(* and RightStore merge r into w (swl, swr).                               *)
LeftShift(a)  == BITS * (3 - (a % 4))
RightShift(a) == BITS * (a % 4)

LeftLoad(r, w, a) ==
  Or(Shl(w, LeftShift(a)), And(r, 2 ^ LeftShift(a) - 1))

(* Mutant of RightLoad: the bytes the register keeps are lost.             *)
RightLoad_NoMerge(r, w, a) == Shr(w, RightShift(a))

RightLoad(r, w, a) ==
  Or(Shr(w, RightShift(a)), And(r, Not(Shr(WORD - 1, RightShift(a)))))

(* Mutant of LeftStore: the bytes the memory keeps are lost.               *)
LeftStore_NoMerge(r, w, a) == Shr(r, LeftShift(a))

LeftStore(r, w, a) ==
  Or(Shr(r, LeftShift(a)), And(w, Not(Shr(WORD - 1, LeftShift(a)))))
RightStore(r, w, a) ==
  Or(Shl(r, RightShift(a)), And(w, 2 ^ RightShift(a) - 1))
=============================================================================
