---------------------------- MODULE WordLemmas ----------------------------
(***************************************************************************)
(* The operators of Words return values of the C types they are declared   *)
(* with, at every width.                                                   *)
(***************************************************************************)
EXTENDS Words, FiniteSetTheorems, TLAPS

(* The widths are positive and the types nest: a byte is a half, a half a  *)
(* word.                                                                   *)
LEMMA Widths ==
  /\ BYTE \in Nat /\ BYTE >= 2
  /\ HALF \in Nat /\ HALF >= 4 /\ BYTE <= HALF
  /\ WORD \in Nat /\ WORD >= 16 /\ HALF <= WORD
  /\ WBITS \in Nat /\ WBITS < WORD
  /\ Byte \subseteq Half /\ Half \subseteq Word
<1>1. BYTE \in Nat /\ BYTE >= 2 /\ BITS \in Nat
  BY WidthAssumption
<1>2. ASSUME NEW b \in Nat, NEW m \in Nat, b >= m, m >= 2
      PROVE  b * b \in Nat /\ b * b >= m * m /\ b * b >= b
  <2>1. b * b >= m * b /\ m * b >= m * m /\ b * b >= b
    BY <1>2
  <2> QED BY <2>1, <1>2
<1>3. HALF \in Nat /\ HALF >= 2 * 2 /\ HALF >= BYTE
  BY <1>1, <1>2 DEF HALF
<1>4. WORD \in Nat /\ WORD >= 4 * 4 /\ WORD >= HALF
  BY <1>3, <1>2 DEF WORD
<1>5. WBITS \in Nat /\ WBITS < WORD
  BY <1>1, WidthAssumption DEF WBITS
<1> QED
  BY <1>1, <1>3, <1>4, <1>5 DEF Byte, Half, Word

(* The conversion to uint32_t gives a word, and the conversions to signed  *)
(* types give integers.                                                    *)
LEMMA U32Type == ASSUME NEW n \in Int PROVE U32(n) \in Word
BY Widths DEF U32, Word

(* A remainder by a positive number is below it.                           *)
LEMMA ModType == ASSUME NEW n \in Int, NEW m \in Nat, m > 0 PROVE n % m \in 0..(m - 1)
OBVIOUS

(* The casts to signed types give integers.                                *)
LEMMA SignedTypes ==
  /\ \A w \in Word : S32(w) \in Int
  /\ \A h \in Half : S16(h) \in Int
  /\ \A b \in Byte : S8(b) \in Int
BY Widths DEF S32, S16, S8, Word, Half, Byte

(* Complement and shifts of a word are words.                              *)
LEMMA PowerType == ASSUME NEW s \in 0..WBITS PROVE 2 ^ s \in 1..WORD
BY WidthAssumption

(* The complement of a word is a word.                                     *)
LEMMA NotType == ASSUME NEW w \in Word PROVE Not(w) \in Word
BY Widths DEF Not, Word

(* A quotient of naturals is at most the dividend.                         *)
LEMMA QuotientType ==
  ASSUME NEW a \in Nat, NEW b \in Nat, b > 0 PROVE a \div b \in 0..a
<1>1. a \div b \in Int /\ a = b * (a \div b) + (a % b) /\ a % b \in 0..(b - 1)
  OBVIOUS
<1>2. a \div b >= 0
  BY <1>1
<1>3. a \div b <= a
  <2>1. b * (a \div b) >= a \div b
    BY <1>1, <1>2
  <2> QED BY <2>1, <1>1
<1> QED BY <1>1, <1>2, <1>3

(* The three shifts of a word by less than its width are words.            *)
LEMMA ShiftTypes ==
  ASSUME NEW w \in Word, NEW s \in 0..WBITS
  PROVE  Shl(w, s) \in Word /\ Shr(w, s) \in Word /\ Sar(w, s) \in Word
<1>1. 2 ^ s \in 1..WORD /\ w \in Nat /\ WORD \in Nat
  BY PowerType, Widths DEF Word
<1>2. Shl(w, s) \in Word
  <2>1. w * 2 ^ s \in Int
    BY <1>1
  <2> QED BY <2>1, U32Type DEF Shl
<1>3. Shr(w, s) \in Word
  <2>1. w \div 2 ^ s \in 0..w
    BY <1>1, QuotientType
  <2> QED BY <2>1, <1>1, Widths DEF Shr, Word
<1>4. Sar(w, s) \in Word
  <2>1. S32(w) \in Int
    BY SignedTypes
  <2>2. S32(w) \div 2 ^ s \in Int
    BY <2>1, <1>1
  <2> QED BY <2>2, U32Type DEF Sar
<1> QED BY <1>2, <1>3, <1>4

(* The loops of clz and clo count at most the bits of a word.              *)
LEMMA CountType == ASSUME NEW v, NEW bit PROVE CountLeading(v, bit) \in Word
<1> DEFINE N == {n \in 1..WBITS : \A k \in 0..(n - 1) : TopBit(Shl(v, k)) = bit}
<1>1. IsFiniteSet(1..WBITS) /\ Cardinality(1..WBITS) = WBITS
  BY Widths, FS_Interval
<1>2. N \subseteq 1..WBITS
  OBVIOUS
<1>3. IsFiniteSet(N) /\ Cardinality(N) <= WBITS
  BY <1>1, <1>2, FS_Subset
<1>4. Cardinality(N) \in Nat
  BY <1>3, FS_CardinalityType
<1> QED BY <1>3, <1>4, Widths DEF CountLeading, Word

(* What an arithmetic or logic instruction computes is a word.             *)
LEMMA AluRType ==
  ASSUME NEW op \in {"ADDU", "SUBU", "AND", "OR", "XOR", "NOR", "SLT", "SLTU", "SLL",
                     "SRL", "SRA", "SLLV", "SRLV", "SRAV", "MUL", "CLZ", "CLO"},
         NEW a \in Word, NEW b \in Word, NEW shamt \in 0..(WBITS - 1)
  PROVE  AluR(op, a, b, shamt) \in Word
<1>1. a \in Int /\ b \in Int /\ S32(a) \in Int /\ S32(b) \in Int
  BY SignedTypes DEF Word
<1>2. /\ U32(a + b) \in Word
      /\ U32(a - b) \in Word
      /\ U32(S32(a) * S32(b)) \in Word
  BY <1>1, U32Type
<1>3. /\ And(a, b) \in Word /\ Xor(a, b) \in Word
      /\ Or(a, b) \in Word /\ Not(Or(a, b)) \in Word
  BY BitwiseAssumption, NotType
<1>4. Flag(S32(a) < S32(b)) \in Word /\ Flag(a < b) \in Word
  BY Widths DEF Flag, Word
<1>5. shamt \in 0..WBITS /\ a % WBITS \in 0..WBITS
  <2>1. WBITS \in Nat /\ WBITS > 0
    BY WidthAssumption DEF WBITS
  <2> QED BY <2>1, <1>1, ModType
<1>6. /\ Shl(b, shamt) \in Word /\ Shr(b, shamt) \in Word /\ Sar(b, shamt) \in Word
      /\ Shl(b, a % WBITS) \in Word /\ Shr(b, a % WBITS) \in Word
      /\ Sar(b, a % WBITS) \in Word
  BY <1>5, ShiftTypes
<1>7. CountLeading(a, 0) \in Word /\ CountLeading(a, 1) \in Word
  BY CountType
<1> QED BY <1>2, <1>3, <1>4, <1>6, <1>7 DEF AluR

(* The same for the immediate instructions.                                *)
LEMMA AluIType ==
  ASSUME NEW op \in {"ADDIU", "ANDI", "ORI", "XORI", "SLTI", "SLTIU", "LUI"},
         NEW a \in Word, NEW imm \in Half
  PROVE  AluI(op, a, imm) \in Word
<1>1. a \in Int /\ S32(a) \in Int /\ imm \in Word /\ imm \in Int /\ S16(imm) \in Int
  BY SignedTypes, Widths DEF Word
<1>2. U32(a + S16(imm)) \in Word /\ U32(imm * HALF) \in Word /\ U32(S16(imm)) \in Int
  BY <1>1, U32Type, Widths DEF Word
<1>3. And(a, imm) \in Word /\ Or(a, imm) \in Word /\ Xor(a, imm) \in Word
  BY <1>1, BitwiseAssumption
<1>4. Flag(S32(a) < S16(imm)) \in Word /\ Flag(a < U32(S16(imm))) \in Word
  BY Widths DEF Flag, Word
<1> QED BY <1>2, <1>3, <1>4 DEF AluI

(* The exact results are integers.                                         *)
LEMMA ExactType ==
  ASSUME NEW op \in {"ADD", "SUB", "ADDI"},
         NEW a \in Word, NEW b \in Word, NEW imm \in Half
  PROVE  Exact(op, a, b, imm) \in Int
BY SignedTypes DEF Exact

(* The 64-bit products are integers.                                       *)
LEMMA ProductType ==
  ASSUME NEW op \in {"MULT", "MULTU", "MADD", "MADDU", "MSUB", "MSUBU"},
         NEW a \in Word, NEW b \in Word, NEW h \in Word, NEW l \in Word
  PROVE  /\ Product(op, a, b, h, l) \in Int
         /\ Product(op, a, b, h, l) \div WORD \in Int
<1>1. /\ S32(a) \in Int /\ S32(b) \in Int /\ S32(h) \in Int
      /\ a \in Int /\ b \in Int /\ h \in Int /\ l \in Int
      /\ WORD \in Nat /\ WORD > 0
  BY SignedTypes, Widths DEF Word
<1>2. /\ S32(a) * S32(b) \in Int /\ a * b \in Int
      /\ S32(h) * WORD \in Int /\ h * WORD \in Int
  BY <1>1
<1>3. Product(op, a, b, h, l) \in Int
  BY <1>1, <1>2 DEF Product
<1> QED BY <1>3, <1>1

(* C's quotient and remainder are integers.                                *)
LEMMA DivisionTypes ==
  ASSUME NEW a \in Int, NEW b \in Int, b # 0
  PROVE  Quot(a, b) \in Int /\ Rem(a, b) \in Int
<1>1. Abs(a) \in Nat /\ Abs(b) \in Nat /\ Abs(b) > 0
  BY DEF Abs
<1>2. Abs(a) \div Abs(b) \in Int
  BY <1>1, QuotientType
<1>3. Quot(a, b) \in Int
  BY <1>2 DEF Quot
<1>4. b * Quot(a, b) \in Int
  BY <1>3
<1> QED BY <1>3, <1>4 DEF Rem

(* What memory holds at any address is a half or a word, and storing keeps *)
(* memory made of bytes.                                                   *)
LEMMA LoadTypes ==
  ASSUME NEW m \in [Word -> Byte], NEW a \in Word
  PROVE  m[a] \in Word /\ HalfAt(m, a) \in Half /\ WordAt(m, a) \in Word
<1>1. a \in Int
  BY DEF Word
<1>2. U32(a + 1) \in Word /\ U32(a + 2) \in Word /\ U32(a + 3) \in Word
  BY <1>1, U32Type
<1>3. PICK b0 \in Byte : m[a] = b0
  OBVIOUS
<1>4. PICK b1 \in Byte : m[U32(a + 1)] = b1
  BY <1>2
<1>5. PICK b2 \in Byte : m[U32(a + 2)] = b2
  BY <1>2
<1>6. PICK b3 \in Byte : m[U32(a + 3)] = b3
  BY <1>2
<1>7. ASSUME NEW x \in Byte, NEW y \in Byte PROVE x + BYTE * y \in Half
  <2>1. /\ BYTE \in Nat /\ x \in Nat /\ y \in Nat /\ HALF = BYTE * BYTE
        /\ x <= BYTE - 1 /\ y <= BYTE - 1
    BY <1>7, Widths DEF Byte, HALF
  <2>2. BYTE * y \in Nat /\ BYTE * y <= BYTE * (BYTE - 1)
    BY <2>1
  <2>3. BYTE * (BYTE - 1) = HALF - BYTE
    BY <2>1
  <2> QED BY <2>1, <2>2, <2>3, Widths DEF Half
<1>8. ASSUME NEW x \in Half, NEW y \in Half PROVE x + HALF * y \in Word
  <2>1. /\ HALF \in Nat /\ x \in Nat /\ y \in Nat /\ WORD = HALF * HALF
        /\ x <= HALF - 1 /\ y <= HALF - 1
    BY <1>8, Widths DEF Half, WORD
  <2>2. HALF * y \in Nat /\ HALF * y <= HALF * (HALF - 1)
    BY <2>1
  <2>3. HALF * (HALF - 1) = WORD - HALF
    BY <2>1
  <2> QED BY <2>1, <2>2, <2>3, Widths DEF Word
<1>9. m[a] \in Word
  BY <1>3, Widths
<1>10. HalfAt(m, a) \in Half
  BY <1>3, <1>4, <1>7 DEF HalfAt
<1>11. WordAt(m, a) \in Word
  <2> DEFINE low == b0 + BYTE * b1
             high == b2 + BYTE * b3
  <2>1. low \in Half /\ high \in Half
    BY <1>7
  <2>2. low + HALF * high \in Word
    BY <2>1, <1>8
  <2>3. b0 \in Int /\ b1 \in Int /\ b2 \in Int /\ b3 \in Int /\ BYTE \in Int /\ HALF \in Int
    BY Widths DEF Byte
  <2>4. HALF * (b2 + BYTE * b3) = HALF * b2 + HALF * BYTE * b3
    BY <2>3
  <2>5. WordAt(m, a) = b0 + BYTE * b1 + HALF * b2 + HALF * BYTE * b3
    BY <1>3, <1>4, <1>5, <1>6 DEF WordAt
  <2>6. WordAt(m, a) = low + HALF * high
    BY <2>3, <2>4, <2>5
  <2> QED BY <2>2, <2>6
<1> QED BY <1>9, <1>10, <1>11

(* The low byte of an integer is a byte.                                   *)
LEMMA ByteMod == ASSUME NEW n \in Int PROVE n % BYTE \in Byte
BY ModType, Widths DEF Byte

(* Stores keep a memory made of bytes.                                     *)
LEMMA StoreTypes ==
  ASSUME NEW m \in [Word -> Byte], NEW a, NEW v \in Word
  PROVE  /\ PutByte(m, a, v) \in [Word -> Byte]
         /\ PutHalf(m, a, v) \in [Word -> Byte]
         /\ PutWord(m, a, v) \in [Word -> Byte]
<1>1. v \in Nat /\ BYTE \in Nat \ {0} /\ HALF \in Nat \ {0} /\ HALF * BYTE \in Nat \ {0}
  BY Widths DEF Word
<1>2. v \div BYTE \in Int /\ v \div HALF \in Int /\ v \div (HALF * BYTE) \in Int
  BY <1>1
<1>3. /\ v % BYTE \in Byte /\ (v \div BYTE) % BYTE \in Byte
      /\ (v \div HALF) % BYTE \in Byte /\ (v \div (HALF * BYTE)) % BYTE \in Byte
  BY <1>1, <1>2, ByteMod
<1> QED BY <1>3 DEF PutByte, PutHalf, PutWord

(* The merged words of the unaligned accesses are words.                   *)
LEMMA UnalignedTypes ==
  ASSUME NEW r \in Word, NEW w \in Word, NEW a \in Word
  PROVE  /\ LeftLoad(r, w, a) \in Word /\ RightLoad(r, w, a) \in Word
         /\ LeftStore(r, w, a) \in Word /\ RightStore(r, w, a) \in Word
<1>1. BITS \in Nat /\ a \in Nat /\ a % 4 \in 0..3 /\ WBITS = 4 * BITS
  BY WidthAssumption, ModType DEF Word, WBITS
<1>2. LeftShift(a) \in 0..WBITS /\ RightShift(a) \in 0..WBITS
  BY <1>1 DEF LeftShift, RightShift
<1>3. ASSUME NEW s \in 0..WBITS PROVE 2 ^ s - 1 \in Word /\ Not(Shr(WORD - 1, s)) \in Word
  <2>1. 2 ^ s \in 1..WORD
    BY PowerType
  <2>2. WORD - 1 \in Word
    BY Widths DEF Word
  <2> QED BY <2>1, <2>2, Widths, ShiftTypes, NotType DEF Word
<1>4. ASSUME NEW x \in Word, NEW y \in Word, NEW z \in Word PROVE Or(x, And(y, z)) \in Word
  BY BitwiseAssumption
<1>5. LeftLoad(r, w, a) \in Word
  BY <1>2, <1>3, <1>4, ShiftTypes DEF LeftLoad
<1>6. RightLoad(r, w, a) \in Word
  BY <1>2, <1>3, <1>4, ShiftTypes DEF RightLoad
<1>7. LeftStore(r, w, a) \in Word
  BY <1>2, <1>3, <1>4, ShiftTypes DEF LeftStore
<1>8. RightStore(r, w, a) \in Word
  BY <1>2, <1>3, <1>4, ShiftTypes DEF RightStore
<1> QED BY <1>5, <1>6, <1>7, <1>8

(* An address and the end of its region, when regions divide the memory.   *)
LEMMA MultipleMonotone ==
  ASSUME NEW r \in Nat, NEW x \in Int, NEW y \in Int, x <= y PROVE r * x <= r * y
<1>1. r * (y - x) >= 0
  OBVIOUS
<1> QED BY <1>1

(* A jump inside the region of an address stays below the end of memory.   *)
LEMMA RegionFits ==
  ASSUME NEW a \in Nat, NEW r \in Nat, NEW w \in Nat, r > 0, w % r = 0, a < w
  PROVE  a - (a % r) \in Nat /\ (a - (a % r)) + r <= w
<1>1. PICK q \in Int : a = r * q + (a % r)
  OBVIOUS
<1>2. PICK n \in Int : w = r * n
  <2>1. w = r * (w \div r) + (w % r) /\ w \div r \in Int
    OBVIOUS
  <2>2. w = r * (w \div r)
    BY <2>1
  <2> QED BY <2>1, <2>2
<1>3. a % r \in 0..(r - 1)
  OBVIOUS
<1>4. q < n
  <2> SUFFICES ASSUME n <= q PROVE FALSE
    OBVIOUS
  <2>1. r * n <= r * q
    BY MultipleMonotone
  <2> QED BY <2>1, <1>1, <1>2, <1>3
<1>5. q >= 0
  <2> SUFFICES ASSUME q <= -1 PROVE FALSE
    OBVIOUS
  <2>1. r * q <= r * (-1)
    BY MultipleMonotone
  <2>2. r * (-1) = -r
    OBVIOUS
  <2> QED BY <2>1, <2>2, <1>1, <1>3
<1>6. r * (q + 1) <= r * n /\ r * 0 <= r * q
  BY <1>4, <1>5, MultipleMonotone
<1>7. r * (q + 1) = r * q + r
  OBVIOUS
<1> QED BY <1>1, <1>2, <1>3, <1>6, <1>7

(* Division of an integer by a positive number.                            *)
LEMMA EuclidDivision ==
  ASSUME NEW m \in Nat, m > 0, NEW n \in Int
  PROVE  \E k \in Int : n = m * k + (n % m)
<1>1. n \div m \in Int /\ n = m * (n \div m) + (n % m)
  OBVIOUS
<1> QED BY <1>1

(* A remainder is the only one: n = m * q + r with r below m.              *)
LEMMA ModUnique ==
  ASSUME NEW m \in Nat, m > 0, NEW n \in Int, NEW q \in Int, NEW r \in 0..(m - 1),
         n = m * q + r
  PROVE  n % m = r
<1>1. PICK k \in Int : n = m * k + (n % m)
  BY EuclidDivision
<1>2. n % m \in 0..(m - 1)
  BY ModType
<1>3. ~ (k < q)
  <2> SUFFICES ASSUME k < q PROVE FALSE
    OBVIOUS
  <2>1. m * (k + 1) <= m * q /\ m * (k + 1) = m * k + m
    BY MultipleMonotone
  <2> QED BY <2>1, <1>1, <1>2
<1>4. ~ (q < k)
  <2> SUFFICES ASSUME q < k PROVE FALSE
    OBVIOUS
  <2>1. m * (q + 1) <= m * k /\ m * (q + 1) = m * q + m
    BY MultipleMonotone
  <2> QED BY <2>1, <1>1, <1>2
<1>5. k = q
  BY <1>3, <1>4
<1> QED BY <1>1, <1>2, <1>5

(* Converting a word to uint32_t changes nothing.                          *)
LEMMA U32Same == ASSUME NEW w \in Word PROVE U32(w) = w
<1>1. WORD \in Nat /\ WORD > 0 /\ w \in 0..(WORD - 1) /\ w = WORD * 0 + w
  BY Widths DEF Word
<1> QED BY <1>1, ModUnique DEF U32

(* A conversion inside a sum that is converted anyway may be dropped.      *)
LEMMA U32Sum ==
  ASSUME NEW a \in Int, NEW n \in Int PROVE U32(a + U32(n)) = U32(a + n)
<1> DEFINE r == n % WORD
           s == (a + r) % WORD
<1>1. WORD \in Nat /\ WORD > 0
  BY Widths
<1>2. r \in Int /\ s \in 0..(WORD - 1) /\ s \in Int
  BY <1>1, ModType
<1>3. PICK k \in Int : n = WORD * k + r
  BY <1>1, EuclidDivision
<1>4. PICK q \in Int : a + r = WORD * q + s
  BY <1>1, <1>2, EuclidDivision
<1> HIDE DEF r, s
<1>5. WORD * (q + k) = WORD * q + WORD * k
  BY <1>1
<1>6. a + n = WORD * (q + k) + s
  <2>1. WORD * q \in Int /\ WORD * k \in Int
    BY <1>1
  <2>2. a + n = (a + r) + WORD * k
    BY <1>2, <1>3, <2>1
  <2> QED BY <1>2, <1>4, <1>5, <2>1, <2>2
<1>7. (a + n) % WORD = s
  <2>1. a + n \in Int /\ q + k \in Int
    OBVIOUS
  <2> QED BY <1>1, <1>2, <1>6, <2>1, ModUnique
<1> QED BY <1>7 DEF U32, r, s

(* A shift count below the width is its own remainder.                     *)
LEMMA ShiftCount == ASSUME NEW s \in 0..(WBITS - 1) PROVE s % WBITS = s
<1>1. WBITS \in Nat /\ WBITS > 0 /\ s = WBITS * 0 + s
  BY WidthAssumption DEF WBITS
<1> QED BY <1>1, ModUnique

(* The sign extension of a halfword to a word keeps its value.             *)
LEMMA SignExtension == ASSUME NEW h \in Half PROVE S32(U32(S16(h))) = S16(h)
<1>1. /\ HALF \in Nat /\ HALF >= 4 /\ WORD \in Nat /\ WORD >= 4 * HALF
      /\ h \in Nat /\ h <= HALF - 1
  <2>1. HALF * 4 <= HALF * HALF
    BY Widths, MultipleMonotone
  <2> QED BY <2>1, Widths DEF WORD, Half
<1>2. CASE h < HALF \div 2
  <2>1. S16(h) = h /\ h \in Word /\ h < WORD \div 2
    BY <1>1, <1>2 DEF S16, Word
  <2> QED BY <2>1, U32Same DEF S32
<1>3. CASE ~ (h < HALF \div 2)
  <2>1. /\ S16(h) = h - HALF
        /\ WORD + (h - HALF) \in 0..(WORD - 1) /\ ~ (WORD + (h - HALF) < WORD \div 2)
    BY <1>1, <1>3 DEF S16
  <2>2. WORD > 0 /\ h - HALF = WORD * (-1) + (WORD + (h - HALF))
    BY <1>1
  <2>3. U32(h - HALF) = WORD + (h - HALF)
    BY <1>1, <2>1, <2>2, ModUnique DEF U32
  <2> QED BY <1>1, <2>1, <2>3 DEF S32
<1> QED BY <1>2, <1>3

-----------------------------------------------------------------------------
(* A quotient is the only one, too.                                        *)
LEMMA DivUnique ==
  ASSUME NEW m \in Nat, m > 0, NEW n \in Int, NEW q \in Int, NEW r \in 0..(m - 1),
         n = m * q + r
  PROVE  n \div m = q
<1>1. n \div m \in Int /\ n = m * (n \div m) + (n % m) /\ n % m = r
  BY ModUnique
<1>2. m * (n \div m) = m * q
  BY <1>1
<1>3. ~ (n \div m < q)
  <2> SUFFICES ASSUME n \div m < q PROVE FALSE
    OBVIOUS
  <2>1. m * (n \div m + 1) <= m * q /\ m * (n \div m + 1) = m * (n \div m) + m
    BY <1>1, MultipleMonotone
  <2> QED BY <2>1, <1>2
<1>4. ~ (q < n \div m)
  <2> SUFFICES ASSUME q < n \div m PROVE FALSE
    OBVIOUS
  <2>1. m * (q + 1) <= m * (n \div m) /\ m * (q + 1) = m * q + m
    BY <1>1, MultipleMonotone
  <2> QED BY <2>1, <1>2
<1> QED BY <1>1, <1>3, <1>4

(* A byte has an even number of values ...                                 *)
LEMMA EvenByte == \E k \in Int : BYTE = 2 * k
<1>1. BITS - 1 \in 0..WBITS /\ 1 \in 0..WBITS /\ 1 + (BITS - 1) = BITS /\ BITS <= WBITS
  BY WidthAssumption DEF WBITS
<1>2. 2 ^ BITS = 2 * 2 ^ (BITS - 1)
  BY <1>1, PowerAssumption
<1>3. 2 ^ (BITS - 1) \in Int
  BY <1>1, PowerType
<1> QED BY <1>2, <1>3 DEF BYTE

(* ... and so has a word, in which aligned words fit without a rest.       *)
LEMMA Halves ==
  /\ WORD \div 2 \in Nat /\ WORD \div 2 >= 8 /\ WORD = 2 * (WORD \div 2)
  /\ WORD % 4 = 0
<1>1. PICK k \in Int : BYTE = 2 * k
  BY EvenByte
<1>2. HALF = 4 * (k * k)
  BY <1>1 DEF HALF
<1>3. PICK h \in Int : HALF = 4 * h
  BY <1>2
<1>4. WORD = 4 * (h * HALF) /\ h * HALF \in Int
  BY <1>3, Widths DEF WORD
<1> QED BY <1>4, Widths

(* A signed value survives the conversion to uint32_t and back.            *)
LEMMA SignedRoundTrip ==
  ASSUME NEW n \in Int, FitsInt32(n) PROVE S32(U32(n)) = n
<1>1. WORD \in Nat /\ WORD > 0 /\ -(WORD \div 2) <= n /\ n < WORD \div 2
  BY Widths DEF FitsInt32
<1>2. CASE n >= 0
  <2>1. n \in Word
    BY <1>1, <1>2, Halves DEF Word
  <2> QED BY <1>1, <2>1, U32Same DEF S32
<1>3. CASE n < 0
  <2>1. n + WORD \in 0..(WORD - 1) /\ n = WORD * (-1) + (n + WORD)
    BY <1>1, <1>3, Halves
  <2>2. U32(n) = n + WORD
    BY <1>1, <2>1, ModUnique DEF U32
  <2> QED BY <1>1, <1>3, <2>1, <2>2, Halves DEF S32
<1> QED BY <1>2, <1>3

(* The top bit is the sign, and the cast subtracts its weight.             *)
LEMMA TopBitRule ==
  ASSUME NEW w \in Word
  PROVE  /\ w < WORD \div 2 => TopBit(w) = 0 /\ S32(w) = w
         /\ ~ (w < WORD \div 2) => TopBit(w) = 1 /\ S32(w) = w - WORD
<1>1. S32(w) = (IF w < WORD \div 2 THEN w ELSE w - WORD) /\ w \in Nat /\ w < WORD
  BY Widths DEF S32, Word
<1>2. w < WORD \div 2 => TopBit(w) = 0
  <2> SUFFICES ASSUME w < WORD \div 2 PROVE TopBit(w) = 0
    OBVIOUS
  <2> DEFINE h == WORD \div 2
  <2>1. h \in Nat /\ h > 0 /\ w = h * 0 + w /\ w \in 0..(h - 1) /\ w \in Int
    BY <1>1, Halves
  <2> HIDE DEF h
  <2>2. w \div h = 0
    BY <2>1, DivUnique
  <2> QED BY <2>2 DEF TopBit, h
<1>3. ~ (w < WORD \div 2) => TopBit(w) = 1
  <2> SUFFICES ASSUME ~ (w < WORD \div 2) PROVE TopBit(w) = 1
    OBVIOUS
  <2> DEFINE h == WORD \div 2
  <2>1. /\ h \in Nat /\ h > 0 /\ w = h * 1 + (w - h) /\ w - h \in 0..(h - 1)
        /\ w \in Int /\ w - h \in Int
    BY <1>1, Halves
  <2> HIDE DEF h
  <2>2. w \div h = 1
    BY <2>1, DivUnique
  <2> QED BY <2>2 DEF TopBit, h
<1> QED BY <1>1, <1>2, <1>3

(* The values of an int32_t.                                               *)
LEMMA SignedRange ==
  ASSUME NEW w \in Word
  PROVE  S32(w) \in Int /\ FitsInt32(S32(w)) /\ (S32(w) = 0 <=> w = 0)
<1>1. w \in Nat /\ w < WORD
  BY Widths DEF Word
<1> QED BY <1>1, TopBitRule, Halves DEF FitsInt32

(* The conversion of what one addition or subtraction can give.            *)
LEMMA U32Near ==
  ASSUME NEW n \in Int
  PROVE  /\ -WORD <= n /\ n < 0 => U32(n) = n + WORD
         /\ 0 <= n /\ n < WORD => U32(n) = n
         /\ WORD <= n /\ n < 2 * WORD => U32(n) = n - WORD
<1>1. WORD \in Nat /\ WORD > 0
  BY Widths
<1>2. ASSUME -WORD <= n, n < 0 PROVE U32(n) = n + WORD
  <2>1. n = WORD * (-1) + (n + WORD) /\ n + WORD \in 0..(WORD - 1)
    BY <1>1, <1>2
  <2> QED BY <1>1, <2>1, ModUnique DEF U32
<1>3. ASSUME 0 <= n, n < WORD PROVE U32(n) = n
  BY <1>1, <1>3, U32Same DEF Word
<1>4. ASSUME WORD <= n, n < 2 * WORD PROVE U32(n) = n - WORD
  <2>1. n = WORD * 1 + (n - WORD) /\ n - WORD \in 0..(WORD - 1)
    BY <1>1, <1>4
  <2> QED BY <1>1, <2>1, ModUnique DEF U32
<1> QED BY <1>2, <1>3, <1>4

(* The rule of signs: a sum overflows when both operands have the other    *)
(* sign than the truncated sum.                                            *)
LEMMA SumOverflow ==
  ASSUME NEW a \in Word, NEW b \in Word
  PROVE  /\ U32(S32(a) + S32(b)) = U32(a + b)
         /\ ~ FitsInt32(S32(a) + S32(b)) <=>
              TopBit(a) = TopBit(b) /\ TopBit(U32(a + b)) # TopBit(a)
<1> DEFINE h == WORD \div 2
           t == U32(a + b)
<1>1. h \in Nat /\ WORD = 2 * h /\ a \in 0..(WORD - 1) /\ b \in 0..(WORD - 1) /\ h > 0
  BY Halves DEF Word
<1>2. t \in Word /\ a + b \in Int
  BY <1>1, U32Type
<1>3. t = IF a + b < WORD THEN a + b ELSE a + b - WORD
  BY <1>1, U32Near
<1>4. \A w \in Word : TopBit(w) = (IF w < h THEN 0 ELSE 1) /\ S32(w) = (IF w < h THEN w ELSE w - WORD)
  BY TopBitRule
<1>5. U32(S32(a) + S32(b)) = t
  <2>1. S32(a) + S32(b) \in Int /\ -WORD <= S32(a) + S32(b) /\ S32(a) + S32(b) < WORD
    BY <1>1, <1>4
  <2> HIDE DEF t, h
  <2>2. U32(S32(a) + S32(b)) = IF S32(a) + S32(b) < 0 THEN S32(a) + S32(b) + WORD
                                                     ELSE S32(a) + S32(b)
    BY <1>1, <2>1, U32Near
  <2>3. U32(S32(a) + S32(b)) \in Word
    BY <2>1, U32Type
  <2> QED BY <1>1, <1>2, <1>3, <1>4, <2>1, <2>2, <2>3 DEF Word
<1> HIDE DEF t
<1>6. ~ FitsInt32(S32(a) + S32(b)) <=> TopBit(a) = TopBit(b) /\ TopBit(t) # TopBit(a)
  <2>1. FitsInt32(S32(a) + S32(b)) <=> -h <= S32(a) + S32(b) /\ S32(a) + S32(b) < h
    BY DEF FitsInt32
  <2> HIDE DEF h
  <2> QED BY <1>1, <1>2, <1>3, <1>4, <2>1
<1> QED BY <1>5, <1>6 DEF t

(* A difference overflows when the operands differ in sign and the         *)
(* truncated difference has not that of the first.                         *)
LEMMA DifferenceOverflow ==
  ASSUME NEW a \in Word, NEW b \in Word
  PROVE  /\ U32(S32(a) - S32(b)) = U32(a - b)
         /\ ~ FitsInt32(S32(a) - S32(b)) <=>
              TopBit(a) # TopBit(b) /\ TopBit(U32(a - b)) # TopBit(a)
<1> DEFINE h == WORD \div 2
           t == U32(a - b)
<1>1. h \in Nat /\ WORD = 2 * h /\ a \in 0..(WORD - 1) /\ b \in 0..(WORD - 1) /\ h > 0
  BY Halves DEF Word
<1>2. t \in Word /\ a - b \in Int
  BY <1>1, U32Type
<1>3. t = IF a - b < 0 THEN a - b + WORD ELSE a - b
  BY <1>1, U32Near
<1>4. \A w \in Word : TopBit(w) = (IF w < h THEN 0 ELSE 1) /\ S32(w) = (IF w < h THEN w ELSE w - WORD)
  BY TopBitRule
<1>5. U32(S32(a) - S32(b)) = t
  <2>1. S32(a) - S32(b) \in Int /\ -WORD <= S32(a) - S32(b) /\ S32(a) - S32(b) < WORD
    BY <1>1, <1>4
  <2> HIDE DEF t, h
  <2>2. U32(S32(a) - S32(b)) = IF S32(a) - S32(b) < 0 THEN S32(a) - S32(b) + WORD
                                                     ELSE S32(a) - S32(b)
    BY <1>1, <2>1, U32Near
  <2>3. U32(S32(a) - S32(b)) \in Word
    BY <2>1, U32Type
  <2> QED BY <1>1, <1>2, <1>3, <1>4, <2>1, <2>2, <2>3 DEF Word
<1> HIDE DEF t
<1>6. ~ FitsInt32(S32(a) - S32(b)) <=> TopBit(a) # TopBit(b) /\ TopBit(t) # TopBit(a)
  <2>1. FitsInt32(S32(a) - S32(b)) <=> -h <= S32(a) - S32(b) /\ S32(a) - S32(b) < h
    BY DEF FitsInt32
  <2> HIDE DEF h
  <2> QED BY <1>1, <1>2, <1>3, <1>4, <2>1
<1> QED BY <1>5, <1>6 DEF t

(* C's division: the quotient rounds towards zero.                         *)
LEMMA DivisionRule ==
  ASSUME NEW a \in Int, NEW b \in Int, b # 0
  PROVE  /\ a = Quot(a, b) * b + Rem(a, b) /\ Abs(Rem(a, b)) < Abs(b)
         /\ Rem(a, b) # 0 => (Rem(a, b) < 0 <=> a < 0)
         /\ Abs(Quot(a, b)) = Abs(a) \div Abs(b)
<1> DEFINE m == Abs(a)
           n == Abs(b)
           q == m \div n
           r == m % n
<1>1. m \in Nat /\ n \in Nat /\ n > 0
  BY DEF Abs
<1>2. q \in Nat /\ r \in 0..(n - 1) /\ m = n * q + r
  <2>1. m \div n \in 0..m
    BY <1>1, QuotientType
  <2> QED BY <1>1, <2>1, ModType
<1>3. /\ a = (IF a < 0 THEN -m ELSE m) /\ b = (IF b < 0 THEN -n ELSE n)
      /\ Quot(a, b) = (IF (a < 0) = (b < 0) THEN q ELSE -q)
  BY DEF Abs, Quot
<1>4. Quot(a, b) \in Int /\ Rem(a, b) \in Int /\ a = Quot(a, b) * b + Rem(a, b)
  <2>1. Quot(a, b) \in Int /\ Rem(a, b) \in Int
    BY DivisionTypes
  <2>2. b * Quot(a, b) = Quot(a, b) * b /\ b * Quot(a, b) \in Int
    BY <2>1
  <2> QED BY <2>1, <2>2 DEF Rem
<1> HIDE DEF m, n, q, r
<1>5. b * Quot(a, b) = (IF a < 0 THEN -(n * q) ELSE n * q)
  <2>1. n * (-q) = -(n * q) /\ (-n) * q = -(n * q) /\ (-n) * (-q) = n * q
    BY <1>1, <1>2
  <2>2. CASE a < 0 /\ b < 0
    BY <2>1, <2>2, <1>3
  <2>3. CASE a < 0 /\ ~ (b < 0)
    BY <2>1, <2>3, <1>3
  <2>4. CASE ~ (a < 0) /\ b < 0
    BY <2>1, <2>4, <1>3
  <2>5. CASE ~ (a < 0) /\ ~ (b < 0)
    BY <2>1, <2>5, <1>3
  <2> QED BY <2>2, <2>3, <2>4, <2>5
<1>6. Rem(a, b) = (IF a < 0 THEN -r ELSE r)
  <2>1. n * q \in Int
    BY <1>1, <1>2
  <2> QED BY <1>1, <1>2, <1>3, <1>5, <2>1 DEF Rem
<1>7. Abs(Rem(a, b)) = r /\ Abs(Quot(a, b)) = q
  BY <1>2, <1>3, <1>6 DEF Abs
<1>8. Abs(Rem(a, b)) < n /\ (Rem(a, b) # 0 => (Rem(a, b) < 0 <=> a < 0))
  BY <1>1, <1>2, <1>6, <1>7
<1> QED BY <1>4, <1>7, <1>8 DEF m, n, q

(* The only quotient of int32_t values that is none is INT_MIN / -1.       *)
LEMMA QuotientFits ==
  ASSUME NEW a \in Int, NEW b \in Int, b # 0, FitsInt32(a), FitsInt32(b)
  PROVE  /\ ~ FitsInt32(Quot(a, b)) <=> a = -(WORD \div 2) /\ b = -1
         /\ FitsInt32(Rem(a, b))
<1> DEFINE q == Quot(a, b)
           h == WORD \div 2
<1>1. q \in Int /\ h \in Nat /\ h >= 8 /\ Abs(q) = Abs(a) \div Abs(b) /\ Rem(a, b) \in Int
  BY DivisionTypes, DivisionRule, Halves
<1>2. -h <= a /\ a < h /\ -h <= b /\ b < h
  BY DEF FitsInt32
<1> HIDE DEF q, h
<1>3. FitsInt32(Rem(a, b))
  <2>1. Abs(Rem(a, b)) < Abs(b)
    BY DivisionRule
  <2>2. Abs(b) <= h /\ Abs(b) \in Int /\ Abs(Rem(a, b)) \in Int
    BY <1>1, <1>2 DEF Abs
  <2>3. Abs(Rem(a, b)) < h
    BY <1>1, <2>1, <2>2
  <2>4. -h <= Rem(a, b) /\ Rem(a, b) < h
    BY <1>1, <2>3 DEF Abs
  <2> QED BY <2>4 DEF FitsInt32, h
<1>4. Abs(q) <= Abs(a)
  BY <1>1, QuotientType DEF Abs
<1>5. CASE Abs(a) < h
  <2>1. Abs(q) < h /\ a # -h
    BY <1>1, <1>4, <1>5 DEF Abs
  <2>2. -h <= q /\ q < h
    BY <1>1, <2>1 DEF Abs
  <2> QED BY <1>3, <2>1, <2>2 DEF FitsInt32, q, h
<1>6. CASE a = -h
  <2>1. CASE b = 1
    <3>1. Abs(a) = 1 * h + 0 /\ Abs(b) = 1 /\ Abs(a) \in Int
      BY <1>1, <1>6, <2>1 DEF Abs
    <3>2. Quot(a, b) = -(Abs(a) \div 1) /\ Abs(a) \div 1 = Abs(a)
      BY <1>1, <1>6, <2>1, <3>1, DivUnique DEF Quot
    <3> QED BY <1>1, <1>3, <1>6, <2>1, <3>1, <3>2 DEF FitsInt32, h, Abs
  <2>2. CASE b = -1
    <3>1. Abs(a) = 1 * h + 0 /\ Abs(b) = 1 /\ Abs(a) \in Int
      <4>1. Abs(a) = h
        <5>1. a < 0 /\ -a = h
          BY <1>1, <1>6
        <5> QED BY <5>1 DEF Abs
      <4>2. Abs(b) = 1
        <5>1. b < 0 /\ b + 1 = 0
          BY <2>2
        <5> QED BY <5>1 DEF Abs
      <4> QED BY <1>1, <4>1, <4>2
    <3>2. Quot(a, b) = Abs(a) \div 1 /\ Abs(a) \div 1 = Abs(a)
      BY <1>1, <1>6, <2>2, <3>1, DivUnique DEF Quot
    <3> QED BY <1>1, <1>3, <1>6, <2>2, <3>1, <3>2 DEF FitsInt32, h, Abs
  <2>3. CASE b # 1 /\ b # -1
    <3>1. Abs(b) \in Nat /\ Abs(b) >= 2 /\ Abs(a) \in Nat /\ Abs(a) = h
      BY <2>3, <1>1, <1>6 DEF Abs
    <3>0. Abs(a) \div Abs(b) \in 0..Abs(a)
      BY <3>1, QuotientType
    <3>2. /\ Abs(q) \in Nat /\ Abs(a) = Abs(b) * Abs(q) + (Abs(a) % Abs(b))
          /\ Abs(a) % Abs(b) \in 0..(Abs(b) - 1)
      BY <1>1, <3>1, <3>0
    <3>3. Abs(q) * 2 <= Abs(q) * Abs(b) /\ Abs(q) * Abs(b) = Abs(b) * Abs(q)
      BY <3>1, <3>2, MultipleMonotone
    <3>4. 2 * Abs(q) <= h
      BY <3>1, <3>2, <3>3
    <3>5. -h <= q /\ q < h
      BY <1>1, <3>4 DEF Abs
    <3> QED BY <1>3, <2>3, <3>5 DEF FitsInt32, q, h
  <2> QED BY <2>1, <2>2, <2>3
<1> QED BY <1>1, <1>2, <1>3, <1>5, <1>6 DEF Abs

(* The arithmetic shift of a negative value is a logical one between two   *)
(* complements.                                                            *)
LEMMA ArithmeticShiftRule ==
  ASSUME NEW w \in Word, NEW s \in 0..WBITS
  PROVE  Sar(w, s) = IF TopBit(w) = 0 THEN Shr(w, s) ELSE Not(Shr(Not(w), s))
<1> DEFINE P == 2 ^ s
<1>1. P \in Nat /\ P > 0 /\ WORD \in Nat /\ w \in Nat
  BY PowerType, Widths DEF Word
<1>2. Shr(w, s) \in Word /\ Not(w) \in Word /\ Shr(Not(w), s) \in Word
  BY ShiftTypes, NotType
<1>3. CASE w < WORD \div 2
  <2>1. S32(w) = w /\ TopBit(w) = 0
    BY <1>3, TopBitRule
  <2> QED BY <1>2, <2>1, U32Same DEF Sar, Shr
<1>4. CASE ~ (w < WORD \div 2)
  <2>1. S32(w) = w - WORD /\ TopBit(w) = 1
    BY <1>4, TopBitRule
  <2> DEFINE v == Not(w)
             q == v \div P
             r == v % P
  <2>2. v \in Nat /\ w - WORD = -(v + 1) /\ q \in Word
    BY <1>1, <1>2 DEF Not, Word, Shr
  <2> HIDE DEF v, P
  <2>3. q \in Int /\ r \in 0..(P - 1) /\ v = P * q + r
    BY <1>1, <2>2, ModType
  <2> HIDE DEF q, r
  <2>4. P * (-q - 1) = -(P * q) - P /\ P * q \in Int
    BY <1>1, <2>3
  <2>5. -(v + 1) = P * (-q - 1) + (P - 1 - r) /\ P - 1 - r \in 0..(P - 1)
    BY <1>1, <2>2, <2>3, <2>4
  <2>6. (-(v + 1)) \div P = -q - 1
    <3>1. -(v + 1) \in Int /\ -q - 1 \in Int
      BY <2>2, <2>3
    <3> QED BY <1>1, <2>5, <3>1, DivUnique
  <2>7. U32(-q - 1) = WORD - 1 - q
    <3>1. -q - 1 \in Int /\ -WORD <= -q - 1 /\ -q - 1 < 0 /\ (-q - 1) + WORD = WORD - 1 - q
      BY <1>1, <2>2 DEF Word
    <3> QED BY <3>1, U32Near
  <2>8. Sar(w, s) = WORD - 1 - q
    BY <2>1, <2>2, <2>6, <2>7 DEF Sar, P
  <2> QED BY <2>1, <2>8 DEF Not, Shr, q, v, P
<1> QED BY <1>3, <1>4

(* The powers of two of the byte boundaries.                               *)
LEMMA BytePowers ==
  /\ 2 ^ (BITS * 0) = 1 /\ 2 ^ (BITS * 1) = BYTE /\ 2 ^ (BITS * 2) = HALF
  /\ 2 ^ (BITS * 3) = HALF * BYTE /\ 2 ^ WBITS = WORD
<1>1. /\ BITS \in Nat /\ BITS \in 0..WBITS /\ 2 * BITS \in 0..WBITS /\ BITS + BITS <= WBITS
      /\ 2 * BITS + BITS <= WBITS /\ 2 * BITS + 2 * BITS <= WBITS
      /\ BITS * 0 = 0 /\ BITS * 1 = BITS /\ BITS * 2 = BITS + BITS /\ BITS + BITS = 2 * BITS
      /\ BITS * 3 = 2 * BITS + BITS /\ WBITS = 2 * BITS + 2 * BITS
  BY WidthAssumption DEF WBITS
<1>2. 2 ^ BITS = BYTE
  BY DEF BYTE
<1>3. 2 ^ (BITS + BITS) = BYTE * BYTE
  BY <1>1, <1>2, PowerAssumption
<1>4. 2 ^ (2 * BITS) = HALF
  BY <1>1, <1>3 DEF HALF
<1>5. 2 ^ (2 * BITS + BITS) = HALF * BYTE
  BY <1>1, <1>2, <1>4, PowerAssumption
<1>6. 2 ^ (2 * BITS + 2 * BITS) = HALF * HALF
  BY <1>1, <1>4, PowerAssumption
<1> QED BY <1>1, <1>2, <1>4, <1>5, <1>6, PowerAssumption DEF WORD

(* A word is as many copies of its low bits as its high bits have values.  *)
LEMMA PowerSplit ==
  ASSUME NEW s \in 0..WBITS
  PROVE  /\ WBITS - s \in 0..WBITS /\ 2 ^ s \in Nat /\ 2 ^ s > 0
         /\ 2 ^ (WBITS - s) \in Nat /\ 2 ^ (WBITS - s) > 0
         /\ WORD = 2 ^ s * 2 ^ (WBITS - s)
<1>1. WBITS \in Nat /\ WBITS - s \in 0..WBITS /\ s + (WBITS - s) = WBITS
  BY Widths
<1>2. 2 ^ s \in 1..WORD /\ 2 ^ (WBITS - s) \in 1..WORD /\ WORD \in Nat
  BY <1>1, PowerType, Widths
<1>3. 2 ^ (s + (WBITS - s)) = 2 ^ s * 2 ^ (WBITS - s)
  BY <1>1, PowerAssumption
<1> QED BY <1>1, <1>2, <1>3, BytePowers

(* The same around one bit.                                                *)
LEMMA BitSplit ==
  ASSUME NEW k \in 0..(WBITS - 1)
  PROVE  /\ 2 ^ k \in Nat /\ 2 ^ k > 0
         /\ 2 ^ (WBITS - k - 1) \in Nat /\ 2 ^ (WBITS - k - 1) > 0
         /\ 2 ^ (WBITS - k) = 2 * 2 ^ (WBITS - k - 1)
         /\ WORD = 2 * (2 ^ (WBITS - k - 1) * 2 ^ k)
         /\ WORD \div 2 = 2 ^ (WBITS - k - 1) * 2 ^ k
<1> DEFINE P == 2 ^ k
           R == 2 ^ (WBITS - k - 1)
           Q == 2 ^ (WBITS - k)
<1>1. /\ WBITS \in Nat /\ k \in 0..WBITS /\ WBITS - k - 1 \in 0..WBITS /\ 1 \in 0..WBITS
      /\ 1 + (WBITS - k - 1) = WBITS - k /\ WBITS - k <= WBITS
  BY Widths
<1>2. P \in Nat /\ P > 0 /\ Q \in Nat /\ WORD = P * Q
  BY <1>1, PowerSplit
<1>3. R \in 1..WORD /\ WORD \in Nat
  BY <1>1, PowerType, Widths
<1>4. 2 ^ (1 + (WBITS - k - 1)) = 2 ^ 1 * R
  BY <1>1, PowerAssumption
<1>5. Q = 2 * R
  BY <1>1, <1>4, PowerAssumption
<1> HIDE DEF P, Q, R
<1>6. P * (2 * R) = 2 * (R * P) /\ R * P \in Int
  BY <1>2, <1>3
<1>7. WORD = 2 * (R * P)
  BY <1>2, <1>5, <1>6
<1>8. WORD \div 2 = R * P
  BY <1>3, <1>6, <1>7, Halves
<1> QED BY <1>2, <1>3, <1>5, <1>7, <1>8 DEF P, Q, R

(* Powers of two grow.                                                     *)
LEMMA PowerMonotone ==
  ASSUME NEW s \in 0..WBITS, NEW t \in 0..WBITS, s <= t PROVE 2 ^ s <= 2 ^ t
<1>1. t - s \in 0..WBITS /\ s + (t - s) = t /\ t <= WBITS
  BY Widths
<1>2. 2 ^ s \in 1..WORD /\ 2 ^ (t - s) \in 1..WORD /\ WORD \in Nat
  BY <1>1, PowerType, Widths
<1>3. 2 ^ (s + (t - s)) = 2 ^ s * 2 ^ (t - s)
  BY <1>1, PowerAssumption
<1>4. 2 ^ s * 1 <= 2 ^ s * 2 ^ (t - s)
  BY <1>2, MultipleMonotone
<1> QED BY <1>1, <1>2, <1>3, <1>4

(* Shifted k to the left, a word has in its top bit the bit k places below.*)
LEMMA ShiftedTopBit ==
  ASSUME NEW v \in Word, NEW k \in 0..(WBITS - 1)
  PROVE  TopBit(Shl(v, k)) = (v \div 2 ^ (WBITS - k - 1)) % 2
<1> DEFINE P == 2 ^ k
           R == 2 ^ (WBITS - k - 1)
           x == v \div R
           y == v % R
           z == x \div 2
           t == x % 2
           low == R * t + y
<1>1. /\ P \in Nat /\ P > 0 /\ R \in Nat /\ R > 0 /\ v \in Nat /\ WORD \in Nat /\ WORD > 0
      /\ WORD = 2 * (R * P) /\ WORD \div 2 = R * P
  BY BitSplit, Widths DEF Word
<1> HIDE DEF P, R
<1>2. x \in Int /\ y \in 0..(R - 1) /\ v = R * x + y
  BY <1>1, ModType
<1> HIDE DEF x, y
<1>3. z \in Int /\ t \in 0..1 /\ x = 2 * z + t
  BY <1>2
<1> HIDE DEF z, t
<1>4. low \in 0..(2 * R - 1)
  <2>1. t = 0 => R * t = 0
    BY <1>1
  <2>2. t = 1 => R * t = R
    BY <1>1
  <2>3. t = 0 \/ t = 1
    BY <1>3
  <2> QED BY <1>1, <1>2, <2>1, <2>2, <2>3
<1>5. v = (2 * R) * z + low
  <2>1. R * (2 * z + t) = (2 * R) * z + R * t
    BY <1>1, <1>3
  <2>2. R * t \in Int /\ (2 * R) * z \in Int
    BY <1>1, <1>3
  <2> QED BY <1>2, <1>3, <2>1, <2>2
<1>6. v * P = WORD * z + low * P
  <2>1. low \in Int
    BY <1>1, <1>4
  <2> HIDE DEF low
  <2>2. ((2 * R) * z + low) * P = (2 * (R * P)) * z + low * P
    BY <1>1, <1>3, <2>1
  <2> QED BY <1>1, <1>5, <2>2
<1>7. low * P = (R * P) * t + y * P
  <2>1. (R * t + y) * P = (R * P) * t + y * P
    BY <1>1, <1>2, <1>3
  <2> QED BY <2>1
<1> HIDE DEF low
<1>8. low * P \in 0..(WORD - 1)
  <2>1. P * low <= P * (2 * R - 1) /\ P * 0 <= P * low
    BY <1>1, <1>4, MultipleMonotone
  <2>2. P * (2 * R - 1) = 2 * (R * P) - P /\ P * 0 = 0 /\ P * low = low * P /\ low * P \in Int
    BY <1>1, <1>4
  <2> QED BY <1>1, <2>1, <2>2
<1>9. Shl(v, k) = low * P
  <2>1. v * P \in Int
    BY <1>1
  <2>2. (v * P) % WORD = low * P
    BY <1>1, <1>3, <1>6, <1>8, <2>1, ModUnique
  <2> QED BY <2>2 DEF Shl, U32, P
<1>10. y * P \in 0..(R * P - 1)
  <2>1. P * y <= P * (R - 1) /\ P * 0 <= P * y
    BY <1>1, <1>2, MultipleMonotone
  <2>2. P * (R - 1) = R * P - P /\ P * 0 = 0 /\ P * y = y * P /\ y * P \in Int /\ R * P \in Int
    BY <1>1, <1>2
  <2> QED BY <1>1, <2>1, <2>2
<1>11. (low * P) \div (R * P) = t
  <2> DEFINE h == R * P
             u == low * P
  <2>1. h \in Nat /\ h > 0 /\ u \in Int /\ u = h * t + y * P
    BY <1>1, <1>7, <1>8, Halves
  <2>2. y * P \in 0..(h - 1) /\ t \in Int
    BY <1>3, <1>10
  <2> HIDE DEF h, u
  <2>3. u \div h = t
    BY <2>1, <2>2, DivUnique
  <2> QED BY <2>3 DEF h, u
<1> QED BY <1>1, <1>9, <1>11 DEF TopBit, t, x, R

(* A set of numbers that has, with each, all the smaller ones, is an       *)
(* interval from 1 to its cardinality.                                     *)
LEMMA InitialSegment ==
  ASSUME NEW n \in Nat, NEW M \in SUBSET (1..n), \A i \in M : 1..i \subseteq M
  PROVE  Cardinality(M) \in 0..n /\ M = 1..Cardinality(M)
<1> DEFINE c == Cardinality(M)
<1>1. IsFiniteSet(1..n) /\ Cardinality(1..n) = n
  BY FS_Interval
<1>2. IsFiniteSet(M) /\ c <= n
  BY <1>1, FS_Subset
<1>3. c \in Nat
  BY <1>2, FS_CardinalityType
<1>4. \A i \in M : i <= c
  <2> SUFFICES ASSUME NEW i \in M PROVE i <= c
    OBVIOUS
  <2>1. i \in Nat /\ i >= 1 /\ 1..i \in SUBSET M
    OBVIOUS
  <2>2. Cardinality(1..i) = i
    BY <2>1, FS_Interval
  <2>3. Cardinality(1..i) <= c
    BY <1>2, <2>1, FS_Subset
  <2> QED BY <2>2, <2>3
<1>5. IsFiniteSet(1..c) /\ Cardinality(1..c) = c
  BY <1>3, FS_Interval
<1>6. M \in SUBSET (1..c)
  <2> HIDE DEF c
  <2> QED BY <1>3, <1>4
<1>7. 1..c = M
  BY <1>5, <1>6, FS_Subset
<1> QED BY <1>2, <1>3, <1>7

(* The loop of clz counts the zeros above the highest one.                 *)
LEMMA LeadingZeros ==
  ASSUME NEW v \in Word
  PROVE  LET n == CountLeading(v, 0)
         IN /\ n \in 0..WBITS
            /\ v \div 2 ^ (WBITS - n) = 0
            /\ n < WBITS => v \div 2 ^ (WBITS - n - 1) = 1
<1> DEFINE M == {n \in 1..WBITS : v < 2 ^ (WBITS - n)}
           N == {n \in 1..WBITS : \A k \in 0..(n - 1) : TopBit(Shl(v, k)) = 0}
           m == Cardinality(M)
<1>1. WBITS \in Nat /\ v \in Nat /\ v < WORD
  BY Widths DEF Word
<1>2. \A s \in 0..WBITS : 2 ^ s \in Nat /\ 2 ^ s > 0
  BY PowerSplit
<1>3. m \in 0..WBITS /\ M = 1..m
  <2>1. ASSUME NEW i \in M, NEW j \in 1..i PROVE j \in M
    <3>1. i \in 1..WBITS /\ v < 2 ^ (WBITS - i)
      OBVIOUS
    <3>2. j \in 1..WBITS /\ WBITS - i \in 0..WBITS /\ WBITS - j \in 0..WBITS /\ WBITS - i <= WBITS - j
      BY <1>1, <3>1
    <3>3. 2 ^ (WBITS - i) <= 2 ^ (WBITS - j)
      BY <3>2, PowerMonotone
    <3>4. v < 2 ^ (WBITS - j)
      BY <1>1, <1>2, <3>1, <3>2, <3>3
    <3> QED BY <3>2, <3>4
  <2>2. M \in SUBSET (1..WBITS) /\ \A i \in M : 1..i \subseteq M
    BY <2>1
  <2> HIDE DEF M
  <2> QED BY <1>1, <2>2, InitialSegment
<1>4. v < 2 ^ (WBITS - m)
  <2>1. CASE m = 0
    BY <1>1, <2>1, BytePowers
  <2>2. CASE m > 0
    <3>1. m \in M
      <4> HIDE DEF m, M
      <4> QED BY <1>3, <2>2
    <3> QED BY <3>1
  <2> QED BY <1>3, <2>1, <2>2
<1>5. m < WBITS => 2 ^ (WBITS - m - 1) <= v
  <2> SUFFICES ASSUME m < WBITS PROVE 2 ^ (WBITS - m - 1) <= v
    OBVIOUS
  <2>1. m + 1 \in 1..WBITS /\ m + 1 \notin M /\ WBITS - (m + 1) = WBITS - m - 1
    <3> HIDE DEF m, M
    <3> QED BY <1>1, <1>3
  <2>2. WBITS - m - 1 \in 0..WBITS
    <3> HIDE DEF m
    <3> QED BY <1>1, <1>3
  <2>3. ~ (v < 2 ^ (WBITS - m - 1))
    BY <2>1
  <2> HIDE DEF m
  <2> QED BY <1>1, <1>2, <2>2, <2>3
<1> HIDE DEF m
<1>6. ASSUME NEW n \in M PROVE n \in N
  <2> SUFFICES ASSUME NEW k \in 0..(n - 1) PROVE TopBit(Shl(v, k)) = 0
    OBVIOUS
  <2>1. n \in 1..WBITS /\ v < 2 ^ (WBITS - n)
    OBVIOUS
  <2>2. /\ k \in 0..(WBITS - 1) /\ WBITS - n \in 0..WBITS /\ WBITS - k - 1 \in 0..WBITS
        /\ WBITS - n <= WBITS - k - 1
    BY <1>1, <2>1
  <2>3. v < 2 ^ (WBITS - k - 1)
    <3>1. 2 ^ (WBITS - n) <= 2 ^ (WBITS - k - 1)
      BY <2>2, PowerMonotone
    <3> QED BY <1>1, <1>2, <2>1, <2>2, <3>1
  <2>4. v \div 2 ^ (WBITS - k - 1) = 0
    <3> DEFINE R == 2 ^ (WBITS - k - 1)
    <3>1. R \in Nat /\ R > 0 /\ v = R * 0 + v /\ v \in 0..(R - 1) /\ v \in Int
      BY <1>1, <1>2, <2>2, <2>3
    <3> HIDE DEF R
    <3>2. v \div R = 0
      BY <3>1, DivUnique
    <3> QED BY <3>2 DEF R
  <2> QED BY <2>2, <2>4, ShiftedTopBit
<1>7. m < WBITS => v \div 2 ^ (WBITS - m - 1) = 1
  <2> SUFFICES ASSUME m < WBITS PROVE v \div 2 ^ (WBITS - m - 1) = 1
    OBVIOUS
  <2> DEFINE R == 2 ^ (WBITS - m - 1)
  <2>1. m \in 0..(WBITS - 1)
    BY <1>1, <1>3
  <2>2. R \in Nat /\ R > 0 /\ 2 ^ (WBITS - m) = 2 * R
    BY <2>1, BitSplit
  <2>3. v = R * 1 + (v - R) /\ v - R \in 0..(R - 1)
    <3> HIDE DEF R
    <3>1. R <= v /\ v < 2 * R
      BY <1>4, <1>5, <2>2 DEF R
    <3> QED BY <1>1, <2>2, <3>1
  <2> HIDE DEF R
  <2>4. v \div R = 1
    BY <1>1, <2>2, <2>3, DivUnique
  <2> QED BY <2>4 DEF R
<1>8. ASSUME NEW n \in N PROVE n \in M
  <2>1. n \in 1..WBITS /\ \A k \in 0..(n - 1) : TopBit(Shl(v, k)) = 0
    OBVIOUS
  <2>2. n <= m
    <3> SUFFICES ASSUME m < n PROVE FALSE
      BY <1>3, <2>1
    <3>1. m \in 0..(WBITS - 1) /\ m \in 0..(n - 1)
      BY <1>1, <1>3, <2>1
    <3>2. TopBit(Shl(v, m)) = (v \div 2 ^ (WBITS - m - 1)) % 2 /\ m < WBITS
      BY <1>1, <3>1, ShiftedTopBit
    <3>3. TopBit(Shl(v, m)) = 1
      BY <1>7, <3>2
    <3> QED BY <2>1, <3>1, <3>3
  <2> HIDE DEF M, N
  <2> QED BY <1>3, <2>1, <2>2
<1>9. CountLeading(v, 0) = m
  <2>1. M = N
    BY <1>6, <1>8
  <2>2. CountLeading(v, 0) = Cardinality(N)
    BY DEF CountLeading
  <2> QED BY <2>1, <2>2 DEF m
<1>10. v \div 2 ^ (WBITS - m) = 0
  <2> DEFINE Q == 2 ^ (WBITS - m)
  <2>1. WBITS - m \in 0..WBITS
    BY <1>1, <1>3
  <2>2. Q \in Nat /\ Q > 0 /\ v = Q * 0 + v /\ v \in 0..(Q - 1) /\ v \in Int
    BY <1>1, <1>2, <1>4, <2>1
  <2> HIDE DEF Q
  <2>3. v \div Q = 0
    BY <2>2, DivUnique
  <2> QED BY <2>3 DEF Q
<1> QED BY <1>3, <1>7, <1>9, <1>10

(* The loop of clo is that of clz on the complement.                       *)
LEMMA LeadingOnes ==
  ASSUME NEW v \in Word PROVE CountLeading(v, 1) = CountLeading(Not(v), 0)
<1>1. ASSUME NEW k \in 0..(WBITS - 1)
      PROVE  TopBit(Shl(v, k)) = 1 <=> TopBit(Shl(Not(v), k)) = 0
  <2> DEFINE P == 2 ^ k
             R == 2 ^ (WBITS - k - 1)
             x == v \div R
             y == v % R
             X == 2 * P - 1 - x
  <2>1. /\ P \in Nat /\ R \in Nat /\ R > 0 /\ v \in Nat
        /\ WORD = 2 * (R * P)
    BY BitSplit DEF Word
  <2>2. Not(v) \in Word /\ Not(v) = WORD - 1 - v
    BY NotType DEF Not
  <2> HIDE DEF P, R
  <2>3. x \in Int /\ y \in 0..(R - 1) /\ v = R * x + y
    BY <2>1, ModType
  <2> HIDE DEF x, y
  <2>4. X \in Int /\ R * X = 2 * (R * P) - R - R * x /\ R * x \in Int /\ R * P \in Int
    BY <2>1, <2>3
  <2> HIDE DEF X
  <2>5. Not(v) = R * X + (R - 1 - y) /\ R - 1 - y \in 0..(R - 1) /\ Not(v) \in Int
    BY <2>1, <2>2, <2>3, <2>4
  <2>6. Not(v) \div R = X
    BY <2>1, <2>4, <2>5, DivUnique
  <2>7. x % 2 = 1 <=> X % 2 = 0
    BY <2>1, <2>3 DEF X
  <2> QED BY <1>1, <2>2, <2>6, <2>7, ShiftedTopBit DEF x, R
<1>2. {n \in 1..WBITS : \A k \in 0..(n - 1) : TopBit(Shl(v, k)) = 1}
        = {n \in 1..WBITS : \A k \in 0..(n - 1) : TopBit(Shl(Not(v), k)) = 0}
  <2>1. ASSUME NEW n \in 1..WBITS
        PROVE  (\A k \in 0..(n - 1) : TopBit(Shl(v, k)) = 1)
                 <=> (\A k \in 0..(n - 1) : TopBit(Shl(Not(v), k)) = 0)
    <3>1. \A k \in 0..(n - 1) : k \in 0..(WBITS - 1)
      BY <2>1, Widths
    <3> QED BY <1>1, <3>1
  <2> QED BY <2>1
<1> QED BY <1>2 DEF CountLeading
=============================================================================
