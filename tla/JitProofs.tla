----------------------------- MODULE JitProofs -----------------------------
(***************************************************************************)
(* The JIT: what the emitted x86-64 code computes, what holds of the block *)
(* cache and of the code buffer, and that execute_jit() does what the      *)
(* interpreter does, for every word width, program and cache size.         *)
(***************************************************************************)
EXTENDS Jit, CpuProofs, SequenceTheorems

(***************************************************************************)
(* The emitter.  A native state has these fields; most emitted             *)
(* instructions only touch scratch registers and leave the guest alone.    *)
(***************************************************************************)
NativeState(x) ==
  /\ {"eax", "ecx", "edx", "less", "below", "zero", "reg", "hi", "lo", "n"} \subseteq DOMAIN x
  /\ x.n \in Nat

Scratch(x, y, bytes) ==
  /\ NativeState(y)
  /\ y.reg = x.reg /\ y.hi = x.hi /\ y.lo = x.lo
  /\ y.n = x.n + bytes

(* The state a block is entered with.                                      *)
LEMMA X86State ==
  ASSUME NEW r, NEW h, NEW l
  PROVE  LET x == X86(r, h, l) IN
         NativeState(x) /\ x.reg = r /\ x.hi = h /\ x.lo = l /\ x.n = 0
BY DEF X86, NativeState

(* ld loads a guest register into one scratch register.                    *)
LEMMA LdEax ==
  ASSUME NEW x, NativeState(x), NEW m
  PROVE  LET y == ld(x, "eax", m) IN
         Scratch(x, y, 4) /\ y.eax = x.reg[m] /\ y.ecx = x.ecx /\ y.edx = x.edx
BY DEF ld, NativeState, Scratch

(* The same for the count register.                                        *)
LEMMA LdEcx ==
  ASSUME NEW x, NativeState(x), NEW m
  PROVE  LET y == ld(x, "ecx", m) IN
         Scratch(x, y, 4) /\ y.eax = x.eax /\ y.ecx = x.reg[m] /\ y.edx = x.edx
BY DEF ld, NativeState, Scratch

(* The same for the second operand of a conditional move.                  *)
LEMMA LdEdx ==
  ASSUME NEW x, NativeState(x), NEW m
  PROVE  LET y == ld(x, "edx", m) IN
         Scratch(x, y, 4) /\ y.eax = x.eax /\ y.ecx = x.ecx /\ y.edx = x.reg[m]
BY DEF ld, NativeState, Scratch

(* hi and lo are loaded through eax.                                       *)
LEMMA LdOff ==
  ASSUME NEW x, NativeState(x)
  PROVE  /\ Scratch(x, ld_off(x, "hi"), 7) /\ ld_off(x, "hi").eax = x.hi
         /\ Scratch(x, ld_off(x, "lo"), 7) /\ ld_off(x, "lo").eax = x.lo
BY DEF ld_off, NativeState, Scratch

(* ... and stored from it.                                                 *)
LEMMA StOff ==
  ASSUME NEW x, NativeState(x)
  PROVE  /\ LET y == st_off(x, "hi") IN
            y.reg = x.reg /\ y.hi = x.eax /\ y.lo = x.lo /\ y.n = x.n + 7
         /\ LET y == st_off(x, "lo") IN
            y.reg = x.reg /\ y.hi = x.hi /\ y.lo = x.eax /\ y.n = x.n + 7
BY DEF st_off, NativeState

(* Arithmetic and logic on eax, whatever the encoding of the operand.      *)
LEMMA OperateEax ==
  ASSUME NEW x, NativeState(x), NEW v, NEW bytes \in Nat
  PROVE  /\ \A opcode \in {"add", "sub", "and", "or", "xor"} :
              Scratch(x, Operate(x, opcode, v, bytes), bytes)
         /\ Operate(x, "add", v, bytes).eax = U32(x.eax + v)
         /\ Operate(x, "sub", v, bytes).eax = U32(x.eax - v)
         /\ Operate(x, "and", v, bytes).eax = And(x.eax, v)
         /\ Operate(x, "or", v, bytes).eax = Or(x.eax, v)
         /\ Operate(x, "xor", v, bytes).eax = Xor(x.eax, v)
BY DEF Operate, NativeState, Scratch

(* The complement of eax.                                                  *)
LEMMA NotEax ==
  ASSUME NEW x, NativeState(x)
  PROVE  Scratch(x, not_eax(x), 2) /\ not_eax(x).eax = Not(x.eax)
BY DEF not_eax, NativeState, Scratch

(* cmp followed by setcc: the comparison as 0 or 1.                        *)
LEMMA CompareEax ==
  ASSUME NEW x, NativeState(x), NEW v, NEW bytes \in Nat
  PROVE  LET y == Operate(x, "cmp", v, bytes) IN
         /\ Scratch(x, set_flag(y, "less"), bytes + 6)
         /\ set_flag(y, "less").eax = Flag(S32(x.eax) < S32(v))
         /\ Scratch(x, set_flag(y, "below"), bytes + 6)
         /\ set_flag(y, "below").eax = Flag(x.eax < v)
<1> DEFINE y == Operate(x, "cmp", v, bytes)
<1>1. Scratch(x, y, bytes)
  BY DEF Operate, NativeState, Scratch
<1>2. y.less = (S32(x.eax) < S32(v)) /\ y.below = (x.eax < v)
  BY Zenon DEF Operate, NativeState
<1> HIDE DEF y
<1>3. ASSUME NEW flag \in {"less", "below"}
      PROVE  Scratch(x, set_flag(y, flag), bytes + 6)
  BY <1>1 DEF set_flag, NativeState, Scratch
<1>4. set_flag(y, "less").eax = Flag(y.less) /\ set_flag(y, "below").eax = Flag(y.below)
  BY <1>1 DEF set_flag, NativeState, Scratch
<1>5. Flag(y.less) = Flag(S32(x.eax) < S32(v)) /\ Flag(y.below) = Flag(x.eax < v)
  BY <1>2, Zenon
<1> QED BY <1>3, <1>4, <1>5 DEF y

(* Shifts by a constant or by cl.                                          *)
LEMMA ShiftEax ==
  ASSUME NEW x, NativeState(x), NEW count, NEW bytes \in Nat
  PROVE  /\ \A opcode \in {"shl", "shr", "sar"} :
              Scratch(x, shift(x, opcode, count, bytes), bytes)
         /\ shift(x, "shl", count, bytes).eax = Shl(x.eax, count % WBITS)
         /\ shift(x, "shr", count, bytes).eax = Shr(x.eax, count % WBITS)
         /\ shift(x, "sar", count, bytes).eax = Sar(x.eax, count % WBITS)
BY DEF shift, NativeState, Scratch

(* test and cmov: eax becomes edx when ecx is zero, or when it is not.     *)
LEMMA MoveEax ==
  ASSUME NEW x, NativeState(x), NEW ifZero \in BOOLEAN
  PROVE  LET y == cmov(test_ecx(x), ifZero) IN
         /\ Scratch(x, y, 5)
         /\ y.eax = IF (x.ecx = 0) = ifZero THEN x.edx ELSE x.eax
<1> DEFINE y == test_ecx(x)
<1>1. Scratch(x, y, 2) /\ y.eax = x.eax /\ y.edx = x.edx
  BY DEF test_ecx, NativeState, Scratch
<1>2. y.zero = (x.ecx = 0)
  BY DEF test_ecx, NativeState
<1> HIDE DEF y
<1>3. Scratch(x, cmov(y, ifZero), 5)
  BY <1>1 DEF cmov, NativeState, Scratch
<1>4. cmov(y, ifZero).eax = IF y.zero = ifZero THEN x.edx ELSE x.eax
  BY <1>1 DEF cmov, NativeState, Scratch
<1> QED BY <1>2, <1>3, <1>4 DEF y

(* st writes eax to a guest register, and never to $0: what the            *)
(* interpreter gets by clearing $0 afterwards.                             *)
LEMMA StEax ==
  ASSUME NEW x, NativeState(x), NEW m \in Reg, x.reg \in [Reg -> Word], x.reg[R0] = 0
  PROVE  LET y == st(x, m) IN
         /\ y.reg = ClearR0([x.reg EXCEPT ![m] = x.eax])
         /\ y.hi = x.hi /\ y.lo = x.lo
         /\ y.n \in Nat /\ y.n <= x.n + 4
<1>1. CASE m = 0
  <2>1. x.reg = [[x.reg EXCEPT ![0] = x.eax] EXCEPT ![0] = 0]
    BY DEF Reg, R0, NB_REG
  <2> QED BY <1>1, <2>1 DEF st, NativeState, ClearR0, R0
<1>2. CASE m # 0
  <2>1. [x.reg EXCEPT ![m] = x.eax] = [[x.reg EXCEPT ![m] = x.eax] EXCEPT ![0] = 0]
    BY <1>2 DEF Reg, R0, NB_REG
  <2> QED BY <1>2, <2>1 DEF st, NativeState, ClearR0, R0
<1> QED BY <1>1, <1>2

(* The registers r, h, l after the interpreter executed i are those of y.  *)
SameEffect(i, r, h, l, y) ==
  /\ i.op \in RegisterOps =>
       y.reg = ClearR0([r EXCEPT ![i.rd] = AluR(i.op, r[i.rs], r[i.rt], i.shamt)])
  /\ i.op \in ImmediateOps =>
       y.reg = ClearR0([r EXCEPT ![i.rt] = AluI(i.op, r[i.rs], i.imm)])
  /\ i.op = "MFHI" => y.reg = ClearR0([r EXCEPT ![i.rd] = h])
  /\ i.op = "MFLO" => y.reg = ClearR0([r EXCEPT ![i.rd] = l])
  /\ i.op \in {"MOVZ", "MOVN"} =>
       y.reg = ClearR0([r EXCEPT ![i.rd] =
                          IF (i.op = "MOVZ") = (r[i.rt] = 0) THEN r[i.rs] ELSE r[i.rd]])
  /\ i.op \in {"NOP", "MTHI", "MTLO"} => y.reg = r
  /\ y.hi = IF i.op = "MTHI" THEN r[i.rs] ELSE h
  /\ y.lo = IF i.op = "MTLO" THEN r[i.rs] ELSE l

MAX_EMITTED == 21

(* The native code of an instruction computes what the interpreter         *)
(* computes, and takes at most 21 bytes: those of movz and movn.           *)
LEMMA EmitRight ==
  ASSUME NEW i \in Instr, i.op \in InlineOps,
         NEW r \in [Reg -> Word], r[R0] = 0, NEW h \in Word, NEW l \in Word
  PROVE  LET y == jit_emit(i, X86(r, h, l)) IN
         SameEffect(i, r, h, l, y) /\ y.n \in 0..MAX_EMITTED
<1> DEFINE x == X86(r, h, l)
           y == jit_emit(i, x)
           a == r[i.rs]
           b == r[i.rt]
           Right == SameEffect(i, r, h, l, y) /\ y.n \in 0..MAX_EMITTED
<1> SUFFICES Right
  OBVIOUS
<1>1. /\ i.rs \in Reg /\ i.rt \in Reg /\ i.rd \in Reg /\ R0 \in Reg
      /\ i.shamt \in 0..(WBITS - 1) /\ i.imm \in Half
      /\ a \in Word /\ b \in Word
  BY Fields, Registers
<1>2. NativeState(x) /\ x.reg = r /\ x.hi = h /\ x.lo = l /\ x.n = 0
  BY X86State
<1> HIDE DEF x
(* Loading a first operand, and working on it.                             *)
<1>3. ASSUME NEW m \in Reg
      PROVE  LET z == ld(x, "eax", m) IN
             NativeState(z) /\ Scratch(x, z, 4) /\ z.eax = r[m] /\ z.reg = r /\ z.n = 4
  BY <1>2, <1>3, LdEax DEF Scratch
<1>4. ASSUME NEW z, NEW w, NEW k \in Nat, NEW bytes \in Nat,
             Scratch(x, z, k), Scratch(z, w, bytes)
      PROVE  NativeState(w) /\ Scratch(x, w, k + bytes)
  BY <1>4, <1>2 DEF Scratch
(* An instruction that computes eax in scratch and stores it.              *)
<1>5. ASSUME NEW z, NEW m \in Reg, NEW bytes \in 0..17, Scratch(x, z, bytes)
      PROVE  /\ st(z, m).reg = ClearR0([r EXCEPT ![m] = z.eax])
             /\ st(z, m).hi = h /\ st(z, m).lo = l /\ st(z, m).n \in 0..MAX_EMITTED
  <2>1. NativeState(z) /\ z.reg = r /\ z.hi = h /\ z.lo = l /\ z.n = bytes
    BY <1>2, <1>5 DEF Scratch
  <2>2. z.reg \in [Reg -> Word] /\ z.reg[R0] = 0
    BY <2>1
  <2>3. /\ st(z, m).reg = ClearR0([z.reg EXCEPT ![m] = z.eax])
        /\ st(z, m).hi = z.hi /\ st(z, m).lo = z.lo
        /\ st(z, m).n \in Nat /\ st(z, m).n <= z.n + 4
    BY <2>1, <2>2, StEax
  <2>4. st(z, m).n \in 0..MAX_EMITTED
    BY <2>1, <2>3 DEF MAX_EMITTED
  <2> QED BY <2>1, <2>3, <2>4
(* The register instructions store the value of AluR, the immediate ones   *)
(* that of AluI.                                                           *)
<1>6. ASSUME i.op \in RegisterOps, NEW z, NEW bytes \in 0..17, Scratch(x, z, bytes),
             y = st(z, i.rd), z.eax = AluR(i.op, a, b, i.shamt)
      PROVE  Right
  <2>1. /\ y.reg = ClearR0([r EXCEPT ![i.rd] = AluR(i.op, a, b, i.shamt)])
        /\ y.hi = h /\ y.lo = l /\ y.n \in 0..MAX_EMITTED
    <3> HIDE DEF y
    <3> QED BY <1>1, <1>5, <1>6
  <2>2. /\ i.op \notin ImmediateOps
        /\ i.op \notin {"MFHI", "MFLO", "MOVZ", "MOVN", "NOP", "MTHI", "MTLO"}
    BY <1>6 DEF RegisterOps, ImmediateOps
  <2> HIDE DEF y
  <2> QED BY <1>6, <2>1, <2>2 DEF SameEffect
<1>7. ASSUME i.op \in ImmediateOps, NEW z, NEW bytes \in 0..17, Scratch(x, z, bytes),
             y = st(z, i.rt), z.eax = AluI(i.op, a, i.imm)
      PROVE  Right
  <2>1. /\ y.reg = ClearR0([r EXCEPT ![i.rt] = AluI(i.op, a, i.imm)])
        /\ y.hi = h /\ y.lo = l /\ y.n \in 0..MAX_EMITTED
    <3> HIDE DEF y
    <3> QED BY <1>1, <1>5, <1>7
  <2>2. /\ i.op \notin RegisterOps
        /\ i.op \notin {"MFHI", "MFLO", "MOVZ", "MOVN", "NOP", "MTHI", "MTLO"}
    BY <1>7 DEF RegisterOps, ImmediateOps
  <2> HIDE DEF y
  <2> QED BY <1>7, <2>1, <2>2 DEF SameEffect
(* The sign-extended immediate.                                            *)
<1>im. U32(a + U32(S16(i.imm))) = U32(a + S16(i.imm)) /\ S32(U32(S16(i.imm))) = S16(i.imm)
  <2>1. a \in Int /\ S16(i.imm) \in Int
    BY <1>1, SignedTypes DEF Word
  <2> QED BY <1>1, <2>1, U32Sum, SignExtension
<1>8. CASE i.op \in {"ADDU", "SUBU", "AND", "OR", "XOR"}
  <2> DEFINE z == ld(x, "eax", i.rs)
  <2>1. NativeState(z) /\ Scratch(x, z, 4) /\ z.eax = r[i.rs] /\ z.reg = r
    BY <1>1, <1>3
  <2> HIDE DEF z
  <2>2. PICK w : /\ y = st(w, i.rd)
                 /\ Scratch(z, w, 4) /\ w.eax = AluR(i.op, a, b, i.shamt)
    <3>1. CASE i.op = "ADDU"
      <4>1. y = st(Operate(z, "add", b, 4), i.rd)
        BY <2>1, <3>1 DEF jit_emit, alu_rr, z
      <4> QED BY <2>1, <3>1, <4>1, OperateEax DEF AluR
    <3>2. CASE i.op = "SUBU"
      <4>1. y = st(Operate(z, "sub", b, 4), i.rd)
        BY <2>1, <3>2 DEF jit_emit, alu_rr, z
      <4> QED BY <2>1, <3>2, <4>1, OperateEax DEF AluR
    <3>3. CASE i.op = "AND"
      <4>1. y = st(Operate(z, "and", b, 4), i.rd)
        BY <2>1, <3>3 DEF jit_emit, alu_rr, z
      <4> QED BY <2>1, <3>3, <4>1, OperateEax DEF AluR
    <3>4. CASE i.op = "OR"
      <4>1. y = st(Operate(z, "or", b, 4), i.rd)
        BY <2>1, <3>4 DEF jit_emit, alu_rr, z
      <4> QED BY <2>1, <3>4, <4>1, OperateEax DEF AluR
    <3>5. CASE i.op = "XOR"
      <4>1. y = st(Operate(z, "xor", b, 4), i.rd)
        BY <2>1, <3>5 DEF jit_emit, alu_rr, z
      <4> QED BY <2>1, <3>5, <4>1, OperateEax DEF AluR
    <3> QED BY <1>8, <3>1, <3>2, <3>3, <3>4, <3>5
  <2> HIDE DEF y, Right
  <2>3. Scratch(x, w, 8) /\ 8 \in 0..17
    BY <2>1, <2>2, <1>4
  <2>4. i.op \in RegisterOps
    BY <1>8 DEF RegisterOps
  <2> QED BY <1>6, <2>2, <2>3, <2>4
<1>9. CASE i.op \in {"SLT", "SLTU"}
  <2> DEFINE z == ld(x, "eax", i.rs)
  <2>1. NativeState(z) /\ Scratch(x, z, 4) /\ z.eax = r[i.rs] /\ z.reg = r
    BY <1>1, <1>3
  <2> HIDE DEF z
  <2>2. PICK w : /\ y = st(w, i.rd)
                 /\ Scratch(z, w, 10) /\ w.eax = AluR(i.op, a, b, i.shamt)
    <3>1. CASE i.op = "SLT"
      <4>1. y = st(set_flag(Operate(z, "cmp", b, 4), "less"), i.rd)
        BY <2>1, <3>1 DEF jit_emit, alu_rr, z
      <4> QED BY <2>1, <3>1, <4>1, CompareEax DEF AluR
    <3>2. CASE i.op = "SLTU"
      <4>1. y = st(set_flag(Operate(z, "cmp", b, 4), "below"), i.rd)
        BY <2>1, <3>2 DEF jit_emit, alu_rr, z
      <4> QED BY <2>1, <3>2, <4>1, CompareEax DEF AluR
    <3> QED BY <1>9, <3>1, <3>2
  <2> HIDE DEF y, Right
  <2>3. Scratch(x, w, 14) /\ 14 \in 0..17
    BY <2>1, <2>2, <1>4
  <2>4. i.op \in RegisterOps
    BY <1>9 DEF RegisterOps
  <2> QED BY <1>6, <2>2, <2>3, <2>4
<1>10. CASE i.op \in {"SLL", "SRL", "SRA"}
  <2> DEFINE z == ld(x, "eax", i.rt)
  <2>1. NativeState(z) /\ Scratch(x, z, 4) /\ z.eax = r[i.rt] /\ z.reg = r
    BY <1>1, <1>3
  <2> HIDE DEF z
  <2>2. PICK w : /\ y = st(w, i.rd)
                 /\ Scratch(z, w, 3) /\ w.eax = AluR(i.op, a, b, i.shamt)
    <3>1. CASE i.op = "SLL"
      <4>1. y = st(shift(z, "shl", i.shamt, 3), i.rd)
        BY <2>1, <3>1 DEF jit_emit, z
      <4> QED BY <1>1, ShiftCount, <2>1, <3>1, <4>1, ShiftEax DEF AluR
    <3>2. CASE i.op = "SRL"
      <4>1. y = st(shift(z, "shr", i.shamt, 3), i.rd)
        BY <2>1, <3>2 DEF jit_emit, z
      <4> QED BY <1>1, ShiftCount, <2>1, <3>2, <4>1, ShiftEax DEF AluR
    <3>3. CASE i.op = "SRA"
      <4>1. y = st(shift(z, "sar", i.shamt, 3), i.rd)
        BY <2>1, <3>3 DEF jit_emit, z
      <4> QED BY <1>1, ShiftCount, <2>1, <3>3, <4>1, ShiftEax DEF AluR
    <3> QED BY <1>10, <3>1, <3>2, <3>3
  <2> HIDE DEF y, Right
  <2>3. Scratch(x, w, 7) /\ 7 \in 0..17
    BY <2>1, <2>2, <1>4
  <2>4. i.op \in RegisterOps
    BY <1>10 DEF RegisterOps
  <2> QED BY <1>6, <2>2, <2>3, <2>4
<1>11. CASE i.op \in {"ADDIU", "ANDI", "ORI", "XORI"}
  <2> DEFINE z == ld(x, "eax", i.rs)
  <2>1. NativeState(z) /\ Scratch(x, z, 4) /\ z.eax = r[i.rs] /\ z.reg = r
    BY <1>1, <1>3
  <2> HIDE DEF z
  <2>2. PICK w : /\ y = st(w, i.rt)
                 /\ Scratch(z, w, 5) /\ w.eax = AluI(i.op, a, i.imm)
    <3>1. CASE i.op = "ADDIU"
      <4>1. y = st(Operate(z, "add", U32(S16(i.imm)), 5), i.rt)
        BY <2>1, <3>1 DEF jit_emit, alu_imm, z
      <4> QED BY <1>im, <2>1, <3>1, <4>1, OperateEax DEF AluI
    <3>2. CASE i.op = "ANDI"
      <4>1. y = st(Operate(z, "and", i.imm, 5), i.rt)
        BY <2>1, <3>2 DEF jit_emit, alu_imm, z
      <4> QED BY <1>im, <2>1, <3>2, <4>1, OperateEax DEF AluI
    <3>3. CASE i.op = "ORI"
      <4>1. y = st(Operate(z, "or", i.imm, 5), i.rt)
        BY <2>1, <3>3 DEF jit_emit, alu_imm, z
      <4> QED BY <1>im, <2>1, <3>3, <4>1, OperateEax DEF AluI
    <3>4. CASE i.op = "XORI"
      <4>1. y = st(Operate(z, "xor", i.imm, 5), i.rt)
        BY <2>1, <3>4 DEF jit_emit, alu_imm, z
      <4> QED BY <1>im, <2>1, <3>4, <4>1, OperateEax DEF AluI
    <3> QED BY <1>11, <3>1, <3>2, <3>3, <3>4
  <2> HIDE DEF y, Right
  <2>3. Scratch(x, w, 9) /\ 9 \in 0..17
    BY <2>1, <2>2, <1>4
  <2>4. i.op \in ImmediateOps
    BY <1>11 DEF ImmediateOps
  <2> QED BY <1>7, <2>2, <2>3, <2>4
<1>12. CASE i.op \in {"SLTI", "SLTIU"}
  <2> DEFINE z == ld(x, "eax", i.rs)
  <2>1. NativeState(z) /\ Scratch(x, z, 4) /\ z.eax = r[i.rs] /\ z.reg = r
    BY <1>1, <1>3
  <2> HIDE DEF z
  <2>2. PICK w : /\ y = st(w, i.rt)
                 /\ Scratch(z, w, 11) /\ w.eax = AluI(i.op, a, i.imm)
    <3>1. CASE i.op = "SLTI"
      <4>1. y = st(set_flag(Operate(z, "cmp", U32(S16(i.imm)), 5), "less"), i.rt)
        BY <2>1, <3>1 DEF jit_emit, alu_imm, z
      <4> QED BY <1>im, <2>1, <3>1, <4>1, CompareEax DEF AluI
    <3>2. CASE i.op = "SLTIU"
      <4>1. y = st(set_flag(Operate(z, "cmp", U32(S16(i.imm)), 5), "below"), i.rt)
        BY <2>1, <3>2 DEF jit_emit, alu_imm, z
      <4> QED BY <1>im, <2>1, <3>2, <4>1, CompareEax DEF AluI
    <3> QED BY <1>12, <3>1, <3>2
  <2> HIDE DEF y, Right
  <2>3. Scratch(x, w, 15) /\ 15 \in 0..17
    BY <2>1, <2>2, <1>4
  <2>4. i.op \in ImmediateOps
    BY <1>12 DEF ImmediateOps
  <2> QED BY <1>7, <2>2, <2>3, <2>4
<1>13. CASE i.op = "NOR"
  <2> DEFINE z == ld(x, "eax", i.rs)
             w == Operate(z, "or", b, 4)
             v == not_eax(w)
  <2>1. NativeState(z) /\ Scratch(x, z, 4) /\ z.eax = a /\ z.reg = r
    BY <1>1, <1>3
  <2>2. y = st(v, i.rd)
    BY <1>13, <2>1 DEF jit_emit, alu_rr
  <2> HIDE DEF z, y, Right
  <2>3. Scratch(z, w, 4) /\ w.eax = Or(a, b)
    BY <2>1, OperateEax
  <2> HIDE DEF w
  <2>4. NativeState(w) /\ Scratch(x, w, 8)
    BY <2>1, <2>3, <1>4
  <2>5. Scratch(w, v, 2) /\ v.eax = AluR(i.op, a, b, i.shamt)
    BY <1>13, <2>3, <2>4, NotEax DEF AluR
  <2> HIDE DEF v
  <2>6. Scratch(x, v, 10) /\ 10 \in 0..17 /\ i.op \in RegisterOps
    BY <1>13, <2>4, <2>5, <1>4 DEF RegisterOps
  <2> QED BY <1>6, <2>2, <2>5, <2>6
<1>14. CASE i.op \in {"SLLV", "SRLV", "SRAV"}
  <2> DEFINE u == ld(x, "eax", i.rt)
             z == ld(u, "ecx", i.rs)
  <2>1. NativeState(u) /\ Scratch(x, u, 4) /\ u.eax = b /\ u.reg = r
    BY <1>1, <1>3
  <2> HIDE DEF u
  <2>2. Scratch(u, z, 4) /\ z.eax = b /\ z.ecx = a
    BY <2>1, LdEcx
  <2> HIDE DEF z
  <2>3. NativeState(z) /\ Scratch(x, z, 8)
    BY <2>1, <2>2, <1>4
  <2>4. PICK w : /\ y = st(w, i.rd)
                 /\ Scratch(z, w, 2) /\ w.eax = AluR(i.op, a, b, i.shamt)
    <3>1. CASE i.op = "SLLV"
      <4>1. y = st(shift(z, "shl", z.ecx, 2), i.rd)
        BY <3>1 DEF jit_emit, z, u
      <4> QED BY <2>2, <2>3, <3>1, <4>1, ShiftEax DEF AluR
    <3>2. CASE i.op = "SRLV"
      <4>1. y = st(shift(z, "shr", z.ecx, 2), i.rd)
        BY <3>2 DEF jit_emit, z, u
      <4> QED BY <2>2, <2>3, <3>2, <4>1, ShiftEax DEF AluR
    <3>3. CASE i.op = "SRAV"
      <4>1. y = st(shift(z, "sar", z.ecx, 2), i.rd)
        BY <3>3 DEF jit_emit, z, u
      <4> QED BY <2>2, <2>3, <3>3, <4>1, ShiftEax DEF AluR
    <3> QED BY <1>14, <3>1, <3>2, <3>3
  <2> HIDE DEF y, Right
  <2>5. Scratch(x, w, 10) /\ 10 \in 0..17 /\ i.op \in RegisterOps
    BY <1>14, <2>3, <2>4, <1>4 DEF RegisterOps
  <2> QED BY <1>6, <2>4, <2>5
<1>15. CASE i.op \in {"MFHI", "MFLO"}
  <2> DEFINE w == ld_off(x, IF i.op = "MFHI" THEN "hi" ELSE "lo")
  <2>1. y = st(w, i.rd)
    BY <1>15 DEF jit_emit
  <2>2. Scratch(x, w, 7) /\ w.eax = (IF i.op = "MFHI" THEN h ELSE l) /\ 7 \in 0..17
    BY <1>2, <1>15, LdOff
  <2> HIDE DEF w, y
  <2>3. /\ y.reg = ClearR0([r EXCEPT ![i.rd] = w.eax])
        /\ y.hi = h /\ y.lo = l /\ y.n \in 0..MAX_EMITTED
    BY <1>1, <1>5, <2>1, <2>2
  <2>4. i.op \notin RegisterOps /\ i.op \notin ImmediateOps
    BY <1>15 DEF RegisterOps, ImmediateOps
  <2> QED BY <1>15, <2>2, <2>3, <2>4 DEF SameEffect
<1>16. CASE i.op \in {"MTHI", "MTLO"}
  <2> DEFINE z == ld(x, "eax", i.rs)
  <2>1. NativeState(z) /\ Scratch(x, z, 4) /\ z.eax = a /\ z.reg = r /\ z.n = 4
    BY <1>1, <1>3
  <2>2. y = IF i.op = "MTHI" THEN st_off(z, "hi") ELSE st_off(z, "lo")
    BY <1>16 DEF jit_emit
  <2> HIDE DEF z, y
  <2>3. /\ y.reg = r /\ y.n \in 0..MAX_EMITTED
        /\ y.hi = (IF i.op = "MTHI" THEN a ELSE h)
        /\ y.lo = (IF i.op = "MTLO" THEN a ELSE l)
    <3>1. z.hi = h /\ z.lo = l
      BY <1>2, <2>1 DEF Scratch
    <3>2. CASE i.op = "MTHI"
      <4>1. y.reg = r /\ y.hi = a /\ y.lo = l /\ y.n = 11
        BY <2>1, <2>2, <3>1, <3>2, StOff
      <4> QED BY <3>2, <4>1 DEF MAX_EMITTED
    <3>3. CASE i.op = "MTLO"
      <4>1. y.reg = r /\ y.hi = h /\ y.lo = a /\ y.n = 11
        BY <2>1, <2>2, <3>1, <3>3, StOff
      <4> QED BY <3>3, <4>1 DEF MAX_EMITTED
    <3> QED BY <1>16, <3>2, <3>3
  <2>4. i.op \notin RegisterOps /\ i.op \notin ImmediateOps
    BY <1>16 DEF RegisterOps, ImmediateOps
  <2> QED BY <1>16, <2>3, <2>4 DEF SameEffect
<1>17. CASE i.op \in {"MOVZ", "MOVN"}
  <2> DEFINE u == ld(x, "eax", i.rd)
             v == ld(u, "edx", i.rs)
             z == ld(v, "ecx", i.rt)
             w == cmov(test_ecx(z), i.op = "MOVZ")
  <2>1. y = st(w, i.rd)
    BY <1>17 DEF jit_emit
  <2> HIDE DEF y
  <2>2. NativeState(u) /\ Scratch(x, u, 4) /\ u.eax = r[i.rd] /\ u.reg = r
    BY <1>1, <1>3
  <2> HIDE DEF u
  <2>3. Scratch(u, v, 4) /\ v.eax = r[i.rd] /\ v.edx = a
    BY <2>2, LdEdx
  <2> HIDE DEF v
  <2>4. NativeState(v) /\ Scratch(x, v, 8) /\ v.reg = r
    BY <1>2, <2>2, <2>3, <1>4 DEF Scratch
  <2>5. Scratch(v, z, 4) /\ z.eax = r[i.rd] /\ z.edx = a /\ z.ecx = b
    BY <2>3, <2>4, LdEcx
  <2> HIDE DEF z
  <2>6. NativeState(z) /\ Scratch(x, z, 12)
    BY <2>4, <2>5, <1>4
  <2>7. Scratch(z, w, 5) /\ w.eax = IF (z.ecx = 0) = (i.op = "MOVZ") THEN z.edx ELSE z.eax
    BY <2>6, MoveEax
  <2> HIDE DEF w
  <2>8. Scratch(x, w, 17) /\ 17 \in 0..17
    BY <2>6, <2>7, <1>4
  <2>9. w.eax = IF (i.op = "MOVZ") = (b = 0) THEN a ELSE r[i.rd]
    BY <2>5, <2>7
  <2>10. /\ y.reg = ClearR0([r EXCEPT ![i.rd] = w.eax])
         /\ y.hi = h /\ y.lo = l /\ y.n \in 0..MAX_EMITTED
    BY <1>1, <1>5, <2>1, <2>8
  <2>11. i.op \notin RegisterOps /\ i.op \notin ImmediateOps
    BY <1>17 DEF RegisterOps, ImmediateOps
  <2> QED BY <1>17, <2>9, <2>10, <2>11 DEF SameEffect
<1>18. CASE i.op = "LUI"
  <2>1. y = mov_imm(x, i.rt, U32(i.imm * HALF))
    BY <1>18 DEF jit_emit
  <2>2. y.hi = h /\ y.lo = l /\ y.n \in 0..MAX_EMITTED
    BY <1>2, <2>1 DEF mov_imm, NativeState, MAX_EMITTED
  <2>3. y.reg = ClearR0([r EXCEPT ![i.rt] = AluI(i.op, a, i.imm)])
    <3> DEFINE v == U32(i.imm * HALF)
    <3>1. v = AluI(i.op, a, i.imm)
      BY <1>18 DEF AluI
    <3>2. y.reg = IF i.rt = 0 THEN r ELSE [r EXCEPT ![i.rt] = v]
      BY <1>2, <2>1 DEF mov_imm, NativeState
    <3> HIDE DEF v, y
    <3>3. ClearR0([r EXCEPT ![i.rt] = v]) = IF i.rt = 0 THEN r ELSE [r EXCEPT ![i.rt] = v]
      <4>1. CASE i.rt = 0
        BY <1>1, <4>1 DEF ClearR0, R0
      <4>2. CASE i.rt # 0
        BY <1>1, <4>2 DEF ClearR0, R0
      <4> QED BY <4>1, <4>2
    <3> QED BY <3>1, <3>2, <3>3
  <2>4. i.op \in ImmediateOps /\ i.op \notin RegisterOps
    BY <1>18 DEF RegisterOps, ImmediateOps
  <2> HIDE DEF y
  <2> QED BY <1>18, <2>2, <2>3, <2>4 DEF SameEffect
<1>19. CASE i.op = "NOP"
  <2> DEFINE z == ld(x, "eax", R0)
             w == shift(z, "shl", 0, 3)
  <2>1. NativeState(z) /\ Scratch(x, z, 4)
    BY <1>1, <1>3
  <2>2. y = st(w, R0)
    BY <1>19 DEF jit_emit
  <2>3. Scratch(z, w, 3)
    BY <2>1, ShiftEax
  <2> HIDE DEF w, z, y
  <2>4. Scratch(x, w, 7)
    BY <2>1, <2>3, <1>4
  <2>5. y = w
    BY <2>2 DEF st, R0
  <2>6. y.reg = r /\ y.hi = h /\ y.lo = l /\ y.n \in 0..MAX_EMITTED
    BY <1>2, <2>4, <2>5 DEF Scratch, MAX_EMITTED
  <2>7. i.op \notin RegisterOps /\ i.op \notin ImmediateOps
    BY <1>19 DEF RegisterOps, ImmediateOps
  <2> QED BY <1>19, <2>6, <2>7 DEF SameEffect
<1> QED
  BY <1>8, <1>9, <1>10, <1>11, <1>12, <1>13, <1>14, <1>15, <1>16, <1>17, <1>18, <1>19
  DEF InlineOps, ImmediateOps

(***************************************************************************)
(* The dispatcher and the compiler.  A block holds at most MAX_BLOCK       *)
(* instructions, all of which the emitter knows.                           *)
(***************************************************************************)
Code == {c \in Seq(Instr) :
           Len(c) <= MAX_BLOCK /\ \A k \in 1..Len(c) : c[k].op \in InlineOps}

Entry == [pc : Word, fn : Code, valid : BOOLEAN]

BlocksOK ==
  /\ cache \in [0..(CACHE_SIZE - 1) -> Entry]
  /\ block \in [pc : Word, code : Code]
  /\ at \in 0..(MAX_BLOCK + 1)

(* Between EnterBlock or StartBlock and the return to the dispatcher, pc   *)
(* stays on the block's first instruction and no branch is pending.        *)
ModeOK ==
  /\ mode \in {"dispatch", "compile", "native"}
  /\ mode # "dispatch" => block.pc = pc /\ branch_pending = FALSE
  /\ mode = "native" => status = "run" /\ at \in 1..(Len(block.code) + 1)

BufferOK == code_buf \in BOOLEAN /\ code_off \in Nat /\ cur \in Nat

JitInv == Inv /\ FpuOK /\ BlocksOK /\ ModeOK

(* The word at any address decodes to an instruction.                      *)
LEMMA FetchType ==
  ASSUME NEW m \in [Word -> Byte], NEW a \in Word
  PROVE  Decode[WordAt(m, a - (a % 4))] \in Instr
<1>1. a - (a % 4) \in Word
  <2>1. a \in Nat /\ a % 4 \in 0..3 /\ a % 4 <= a
    BY DEF Word
  <2> QED BY <2>1, Widths DEF Word
<1>2. WordAt(m, a - (a % 4)) \in Word
  BY <1>1, LoadTypes
<1> QED BY <1>2, MachineAssumption

(* The compiler reads an instruction, and a block can be appended to.      *)
LEMMA CompileTypes ==
  ASSUME Inv, BlocksOK
  PROVE  /\ block.pc \in Word /\ block.code \in Code /\ block.code \in Seq(Instr)
         /\ Len(block.code) \in Nat /\ CompilePc \in Word /\ NextToCompile \in Instr
<1>1. /\ block.pc \in Word /\ block.code \in Code /\ block.code \in Seq(Instr)
      /\ memory \in [Word -> Byte]
  BY DEF Inv, IntegerOK, BlocksOK, Code
<1>2. Len(block.code) \in Nat /\ block.pc \in Int
  BY <1>1 DEF Word
<1>3. CompilePc \in Word
  BY <1>2, U32Type DEF CompilePc
<1> QED BY <1>1, <1>2, <1>3, FetchType DEF NextToCompile

(* Every inline instruction is an instruction the interpreter knows too.   *)
LEMMA InlineKinds ==
  ASSUME NEW op \in InlineOps
  PROVE  \/ op \in RegisterOps \/ op \in ImmediateOps \/ op = "MFHI" \/ op = "MFLO"
         \/ op \in {"MOVZ", "MOVN"} \/ op \in {"NOP", "MTHI", "MTLO"}
BY DEF InlineOps, RegisterOps

(* Native code leaves words in the guest's registers, and 0 in $0.         *)
LEMMA EffectType ==
  ASSUME NEW i \in Instr, i.op \in InlineOps,
         NEW r \in [Reg -> Word], r[R0] = 0, NEW h \in Word, NEW l \in Word,
         NEW y, SameEffect(i, r, h, l, y)
  PROVE  y.reg \in [Reg -> Word] /\ y.reg[R0] = 0 /\ y.hi \in Word /\ y.lo \in Word
<1>1. /\ i.rs \in Reg /\ i.rt \in Reg /\ i.rd \in Reg
      /\ i.shamt \in 0..(WBITS - 1) /\ i.imm \in Half
  BY Fields
<1>2. r[i.rs] \in Word /\ r[i.rt] \in Word /\ r[i.rd] \in Word
  BY <1>1
<1>3. y.hi \in Word /\ y.lo \in Word
  BY <1>2 DEF SameEffect
<1>4. ASSUME NEW m \in Reg, NEW v \in Word, y.reg = ClearR0([r EXCEPT ![m] = v])
      PROVE  y.reg \in [Reg -> Word] /\ y.reg[R0] = 0
  <2>1. [r EXCEPT ![m] = v] \in [Reg -> Word]
    OBVIOUS
  <2> QED BY <1>4, <2>1, ClearType
<1>5. CASE i.op \in RegisterOps
  <2>1. AluR(i.op, r[i.rs], r[i.rt], i.shamt) \in Word
    BY <1>1, <1>2, <1>5, AluRType, OpSets
  <2> QED BY <1>1, <1>3, <1>4, <1>5, <2>1 DEF SameEffect
<1>6. CASE i.op \in ImmediateOps
  <2>1. AluI(i.op, r[i.rs], i.imm) \in Word
    BY <1>1, <1>2, <1>6, AluIType, OpSets
  <2> QED BY <1>1, <1>3, <1>4, <1>6, <2>1 DEF SameEffect
<1>7. CASE i.op = "MFHI"
  BY <1>1, <1>3, <1>4, <1>7 DEF SameEffect
<1>8. CASE i.op = "MFLO"
  BY <1>1, <1>3, <1>4, <1>8 DEF SameEffect
<1>9. CASE i.op \in {"MOVZ", "MOVN"}
  <2> DEFINE v == IF (i.op = "MOVZ") = (r[i.rt] = 0) THEN r[i.rs] ELSE r[i.rd]
  <2>1. v \in Word
    BY <1>2
  <2>2. y.reg = ClearR0([r EXCEPT ![i.rd] = v])
    BY <1>9 DEF SameEffect
  <2> HIDE DEF v
  <2> QED BY <1>1, <1>3, <1>4, <2>1, <2>2
<1>10. CASE i.op \in {"NOP", "MTHI", "MTLO"}
  BY <1>3, <1>10 DEF SameEffect
<1> QED BY <1>5, <1>6, <1>7, <1>8, <1>9, <1>10, InlineKinds

(* What is emitted for an instruction fits in 21 bytes.                    *)
LEMMA EmittedBound ==
  ASSUME NEW i \in Instr, i.op \in InlineOps
  PROVE  EmittedBytes(i) \in 0..MAX_EMITTED
<1> DEFINE r == [k \in Reg |-> 0]
<1>1. 0 \in Word
  BY Widths DEF Word
<1>2. r \in [Reg -> Word] /\ r[R0] = 0
  BY <1>1, Registers
<1> HIDE DEF r
<1>3. jit_emit(i, X86(r, 0, 0)).n \in 0..MAX_EMITTED
  BY <1>1, <1>2, EmitRight
<1> QED BY <1>3 DEF EmittedBytes, r

(* A native instruction keeps the machine's invariant.                     *)
LEMMA NativeInv ==
  ASSUME JitInv, NativeStep
  PROVE  Inv' /\ FpuOK'
<1> DEFINE i == block.code[at]
           x == jit_emit(i, X86(reg, hi, lo))
<1>1. i \in Instr /\ i.op \in InlineOps
  <2>1. /\ block.code \in Seq(Instr) /\ Len(block.code) \in Nat
        /\ \A k \in 1..Len(block.code) : block.code[k].op \in InlineOps
    BY DEF JitInv, BlocksOK, Code
  <2>2. at \in 1..Len(block.code)
    BY <2>1 DEF JitInv, ModeOK, NativeStep
  <2> QED BY <2>1, <2>2
<1>2. reg \in [Reg -> Word] /\ reg[R0] = 0 /\ hi \in Word /\ lo \in Word
  BY DEF JitInv, Inv, IntegerOK, ZeroRegister
<1> HIDE DEF i
<1>3. SameEffect(i, reg, hi, lo, x)
  BY <1>1, <1>2, EmitRight
<1>4. reg' = x.reg /\ hi' = x.hi /\ lo' = x.lo
  BY DEF NativeStep, i
<1> HIDE DEF x
<1>5. reg' \in [Reg -> Word] /\ reg'[R0] = 0 /\ hi' \in Word /\ lo' \in Word
  BY <1>1, <1>2, <1>3, <1>4, EffectType
<1> QED BY <1>5 DEF NativeStep, JitInv, Inv, IntegerOK, ZeroRegister, FpuOK

(* An empty sequence, and an instruction appended to a block that is not   *)
(* full, are code.                                                         *)
LEMMA CodeGrows ==
  /\ <<>> \in Code
  /\ \A c \in Code, i \in Instr :
       Len(c) < MAX_BLOCK /\ i.op \in InlineOps => Append(c, i) \in Code
<1>1. <<>> \in Code
  BY JitAssumption DEF Code
<1>2. ASSUME NEW c \in Code, NEW i \in Instr, Len(c) < MAX_BLOCK, i.op \in InlineOps
      PROVE  Append(c, i) \in Code
  <2> DEFINE d == Append(c, i)
  <2>1. c \in Seq(Instr) /\ \A k \in 1..Len(c) : c[k].op \in InlineOps
    BY DEF Code
  <2>2. d \in Seq(Instr) /\ Len(d) = Len(c) + 1 /\ Len(c) \in Nat
    BY <2>1
  <2>3. ASSUME NEW k \in 1..Len(d) PROVE d[k].op \in InlineOps
    <3>1. CASE k \in 1..Len(c)
      <4>1. d[k] = c[k]
        BY <2>1, <3>1
      <4> QED BY <2>1, <3>1, <4>1
    <3>2. CASE k = Len(c) + 1
      <4>1. d[k] = i
        BY <2>1, <3>2
      <4> QED BY <1>2, <4>1
    <3> QED BY <2>2, <3>1, <3>2
  <2>4. Len(d) <= MAX_BLOCK
    BY <1>2, <2>2, JitAssumption
  <2> HIDE DEF d
  <2>5. d \in Code
    BY <2>2, <2>3, <2>4 DEF Code
  <2> QED BY <2>5 DEF d
<1> QED BY <1>1, <1>2

(* A slot is an index of the cache.                                        *)
LEMMA SlotType == ASSUME NEW a \in Word PROVE Slot(a) \in 0..(CACHE_SIZE - 1)
<1>1. a \div 4 \in Int /\ CACHE_SIZE \in Nat /\ CACHE_SIZE > 0
  BY JitAssumption DEF Word
<1> QED BY <1>1, ModType DEF Slot

(* The invariant holds when the emulator enters execute_jit.               *)
LEMMA JitInitInv == JitInit => JitInv /\ BufferOK
<1> SUFFICES ASSUME JitInit PROVE JitInv /\ BufferOK
  OBVIOUS
<1>1. Inv /\ FpuOK
  BY InitInv, InitFpu DEF JitInit
<1>2. 0 \in Word /\ <<>> \in Code
  BY Widths, CodeGrows DEF Word
<1>3. [pc |-> 0, fn |-> <<>>, valid |-> FALSE] \in Entry
  BY <1>2 DEF Entry
<1>4. BlocksOK
  <2>1. at \in 0..(MAX_BLOCK + 1)
    BY JitAssumption DEF JitInit
  <2>2. cache \in [0..(CACHE_SIZE - 1) -> Entry]
    BY <1>3 DEF JitInit
  <2> QED BY <1>2, <2>1, <2>2 DEF JitInit, BlocksOK
<1>5. ModeOK
  BY DEF JitInit, ModeOK
<1> QED BY <1>1, <1>4, <1>5 DEF JitInit, JitInv, BufferOK

(* Every step of execute_jit keeps the invariant.                          *)
LEMMA JitStepInv ==
  ASSUME JitInv, JitNext \/ UNCHANGED allVars
  PROVE  JitInv'
<1>1. /\ Inv /\ FpuOK /\ BlocksOK /\ ModeOK /\ pc \in Word
  BY DEF JitInv, Inv, IntegerOK
<1>2. /\ block.pc \in Word /\ block.code \in Code
      /\ Len(block.code) \in Nat /\ NextToCompile \in Instr
  BY <1>1, CompileTypes
<1>3. CASE Interpret
  <2>1. Inv' /\ FpuOK'
    BY <1>1, <1>3, StepInv DEF Interpret, step_instruction
  <2>2. BlocksOK' /\ ModeOK'
    BY <1>1, <1>3 DEF Interpret, jitVars, BlocksOK, ModeOK
  <2> QED BY <2>1, <2>2 DEF JitInv
<1>4. CASE EnterBlock
  <2>1. Inv' /\ FpuOK'
    BY <1>1, <1>4 DEF EnterBlock, vars, Inv, IntegerOK, ZeroRegister, FpuOK
  <2>2. cache[Slot(pc)].fn \in Code
    BY <1>1, SlotType DEF BlocksOK, Entry
  <2>3. Len(cache[Slot(pc)].fn) \in Nat
    BY <2>2 DEF Code
  <2>4. BlocksOK'
    <3>1. at' \in 0..(MAX_BLOCK + 1)
      BY <1>4, JitAssumption DEF EnterBlock
    <3> QED BY <1>1, <1>4, <2>2, <3>1 DEF EnterBlock, BlocksOK
  <2>5. ModeOK'
    <3>1. block'.pc = pc' /\ block'.code = cache[Slot(pc)].fn /\ at' = 1
      BY <1>4 DEF EnterBlock, vars
    <3>2. at' \in 1..(Len(block'.code) + 1)
      BY <2>3, <3>1
    <3>3. status' = "run" /\ branch_pending' = FALSE /\ mode' = "native"
      BY <1>1, <1>4 DEF EnterBlock, Dispatching, vars, Inv, IntegerOK
    <3> QED BY <3>1, <3>2, <3>3 DEF ModeOK
  <2> QED BY <2>1, <2>4, <2>5 DEF JitInv
<1>5. CASE StartBlock
  <2>1. Inv' /\ FpuOK'
    BY <1>1, <1>5 DEF StartBlock, vars, Inv, IntegerOK, ZeroRegister, FpuOK
  <2>2. BlocksOK'
    BY <1>1, <1>5, CodeGrows DEF StartBlock, BlocksOK
  <2>3. ModeOK'
    <3>1. block'.pc = pc' /\ branch_pending' = FALSE /\ mode' = "compile"
      BY <1>1, <1>5 DEF StartBlock, Dispatching, vars, Inv, IntegerOK
    <3> QED BY <3>1 DEF ModeOK
  <2> QED BY <2>1, <2>2, <2>3 DEF JitInv
<1>6. CASE EmitInstruction
  <2>1. Inv' /\ FpuOK'
    BY <1>1, <1>6 DEF EmitInstruction, vars, Inv, IntegerOK, ZeroRegister, FpuOK
  <2>2. Append(block.code, NextToCompile) \in Code
    BY <1>2, <1>6, CodeGrows DEF EmitInstruction, Compilable
  <2>3. block' = [block EXCEPT !.code = Append(block.code, NextToCompile)]
    BY <1>6 DEF EmitInstruction
  <2>4. BlocksOK'
    BY <1>1, <1>6, <2>2, <2>3 DEF EmitInstruction, BlocksOK
  <2>5. block'.pc = block.pc
    BY <1>1, <2>3 DEF BlocksOK
  <2>6. ModeOK'
    BY <1>1, <1>6, <2>5 DEF EmitInstruction, ModeOK, vars
  <2> QED BY <2>1, <2>4, <2>6 DEF JitInv
<1>7. CASE FinishBlock
  <2>1. Inv' /\ FpuOK'
    BY <1>1, <1>7 DEF FinishBlock, vars, Inv, IntegerOK, ZeroRegister, FpuOK
  <2>2. [pc |-> block.pc, fn |-> block.code, valid |-> TRUE] \in Entry
    BY <1>2 DEF Entry
  <2>3. BlocksOK'
    <3>1. at' \in 0..(MAX_BLOCK + 1)
      BY <1>7, JitAssumption DEF FinishBlock
    <3>2. cache' \in [0..(CACHE_SIZE - 1) -> Entry]
      BY <1>1, <1>7, <2>2 DEF FinishBlock, BlocksOK
    <3> QED BY <1>1, <1>7, <3>1, <3>2 DEF FinishBlock, BlocksOK
  <2>4. ModeOK'
    <3>1. at' \in 1..(Len(block'.code) + 1)
      BY <1>2, <1>7 DEF FinishBlock
    <3>2. status' = "run" /\ mode' = "native" /\ block'.pc = pc' /\ branch_pending' = FALSE
      BY <1>1, <1>7 DEF FinishBlock, vars, ModeOK
    <3> QED BY <3>1, <3>2 DEF ModeOK
  <2> QED BY <2>1, <2>3, <2>4 DEF JitInv
<1>8. CASE RewindBlock
  <2>1. Inv' /\ FpuOK'
    BY <1>1, <1>8, StepInv DEF RewindBlock, step_instruction
  <2>2. BlocksOK' /\ ModeOK'
    BY <1>1, <1>8 DEF RewindBlock, BlocksOK, ModeOK
  <2> QED BY <2>1, <2>2 DEF JitInv
<1>9. CASE EmitOutside
  <2>1. Inv' /\ FpuOK'
    BY <1>1, <1>9, CrashType DEF EmitOutside, FpuOK
  <2>2. BlocksOK'
    BY <1>1, <1>9 DEF EmitOutside, jitVars, BlocksOK
  <2>3. ModeOK'
    BY <1>1, <1>9 DEF EmitOutside, jitVars, Crash, Halt, ModeOK
  <2> QED BY <2>1, <2>2, <2>3 DEF JitInv
<1>10. CASE NativeStep
  <2>1. Inv' /\ FpuOK'
    BY <1>10, NativeInv
  <2>2. at \in 1..Len(block.code) /\ Len(block.code) <= MAX_BLOCK
    BY <1>1, <1>2, <1>10 DEF NativeStep, ModeOK, Code
  <2>3. at' \in 0..(MAX_BLOCK + 1) /\ at' \in 1..(Len(block.code) + 1)
    BY <1>2, <1>10, <2>2, JitAssumption DEF NativeStep
  <2>4. BlocksOK'
    BY <1>1, <1>10, <2>3 DEF NativeStep, BlocksOK
  <2>5. ModeOK'
    BY <1>1, <1>10, <2>3 DEF NativeStep, ModeOK
  <2> QED BY <2>1, <2>4, <2>5 DEF JitInv
<1>11. CASE NativeReturn
  <2>1. pc' \in Word
    <3>1. block.pc + 4 * Len(block.code) \in Int
      BY <1>2 DEF Word
    <3> QED BY <1>11, <3>1, U32Type DEF NativeReturn
  <2>2. Inv' /\ FpuOK'
    BY <1>1, <1>11, <2>1 DEF NativeReturn, Inv, IntegerOK, ZeroRegister, FpuOK
  <2>3. BlocksOK' /\ ModeOK'
    BY <1>1, <1>11 DEF NativeReturn, BlocksOK, ModeOK
  <2> QED BY <2>2, <2>3 DEF JitInv
<1>12. CASE UNCHANGED allVars
  <2>1. Inv' /\ FpuOK'
    BY <1>1, <1>12 DEF allVars, vars, Inv, IntegerOK, ZeroRegister, FpuOK
  <2>2. BlocksOK' /\ ModeOK'
    BY <1>1, <1>12 DEF allVars, vars, jitVars, BlocksOK, ModeOK
  <2> QED BY <2>1, <2>2 DEF JitInv
<1> QED
  BY <1>3, <1>4, <1>5, <1>6, <1>7, <1>8, <1>9, <1>10, <1>11, <1>12 DEF JitNext, JitStopped

(* The invariant holds in every state of every run with -j.                *)
LEMMA JitInvHolds == JitSpec => []JitInv
<1>1. JitInit => JitInv
  BY JitInitInv
<1>2. JitInv /\ [JitNext]_allVars => JitInv'
  BY JitStepInv
<1> QED BY <1>1, <1>2, PTL DEF JitSpec

(* The bytes of the instruction to compile.                                *)
LEMMA NextBytes ==
  ASSUME Inv, BlocksOK, Compilable PROVE EmittedBytes(NextToCompile) \in 0..MAX_EMITTED
BY CompileTypes, EmittedBound DEF Compilable

(* The buffer's offsets are numbers.                                       *)
LEMMA BufferStep ==
  ASSUME JitInv, BufferOK, JitNext \/ UNCHANGED allVars
  PROVE  BufferOK'
<1>1. CASE EmitInstruction
  <2>1. EmittedBytes(NextToCompile) \in 0..MAX_EMITTED
    BY <1>1, NextBytes DEF JitInv, EmitInstruction
  <2>2. cur' = cur + EmittedBytes(NextToCompile)
    BY <1>1 DEF EmitInstruction
  <2>3. cur' \in Nat
    BY <2>1, <2>2 DEF BufferOK, MAX_EMITTED
  <2> QED BY <1>1, <2>3 DEF EmitInstruction, BufferOK
<1>2. CASE ~ EmitInstruction
  BY <1>2 DEF BufferOK, JitNext, Interpret, EnterBlock, StartBlock, FinishBlock, RewindBlock,
     EmitOutside, NativeStep, NativeReturn, JitStopped, jitVars, allVars, PROLOGUE, EPILOGUE
<1> QED BY <1>1, <1>2

(***************************************************************************)
(* The machine's types survive native code: whatever the emitter writes is *)
(* a word, the cache only ever holds decoded instructions, and a block     *)
(* never exceeds MAX_BLOCK.                                                *)
(***************************************************************************)
THEOREM JitTypeCorrect == JitSpec => []JitTypeOK
<1>1. JitInit => JitInv /\ BufferOK
  BY JitInitInv
<1>2. JitInv /\ BufferOK /\ [JitNext]_allVars => JitInv' /\ BufferOK'
  BY JitStepInv, BufferStep
<1>3. JitInv /\ BufferOK => JitTypeOK
  <2> SUFFICES ASSUME JitInv, BufferOK PROVE JitTypeOK
    OBVIOUS
  <2>1. TypeOK
    BY DEF JitInv, Inv, IntegerOK, FpuOK, TypeOK
  <2>2. Code \subseteq Seq(Instr)
    BY DEF Code
  <2>3. Entry \subseteq [pc : Word, fn : Seq(Instr), valid : BOOLEAN]
    BY <2>2 DEF Entry
  <2>4. cache \in [0..(CACHE_SIZE - 1) -> [pc : Word, fn : Seq(Instr), valid : BOOLEAN]]
    BY <2>3 DEF JitInv, BlocksOK
  <2>5. block \in [pc : Word, code : Seq(Instr)]
    BY <2>2 DEF JitInv, BlocksOK
  <2> QED BY <2>1, <2>4, <2>5 DEF JitInv, BlocksOK, ModeOK, BufferOK, JitTypeOK
<1> QED BY <1>1, <1>2, <1>3, PTL DEF JitSpec

(* No native code runs between a branch and its delay slot: the dispatcher *)
(* reaches the cache and the compiler only when no branch is pending, and  *)
(* nothing they do schedules one.                                          *)
THEOREM DelaySlotInterpreted == JitSpec => []NoBlockInDelaySlot
<1>1. JitInv => NoBlockInDelaySlot
  BY DEF JitInv, ModeOK, NoBlockInDelaySlot
<1> QED BY <1>1, JitInvHolds, PTL

(***************************************************************************)
(* Coherence of the cache.  While a block is compiled the memory does not  *)
(* change, so that what enters the cache is what the memory holds.         *)
(***************************************************************************)
CompilingOK == mode = "compile" => CompiledFrom(block.pc, block.code)

(* Appending the instruction at the address after a block's code.          *)
LEMMA CompiledGrows ==
  ASSUME Inv, BlocksOK, CompiledFrom(block.pc, block.code),
         NEW b, b = Append(block.code, NextToCompile)
  PROVE  CompiledFrom(block.pc, b)
<1>1. block.code \in Seq(Instr) /\ Len(block.code) \in Nat /\ block.pc \in Int
  BY CompileTypes DEF Word
<1>2. Len(b) = Len(block.code) + 1
  BY <1>1
<1> SUFFICES ASSUME NEW k \in 1..Len(b)
             PROVE  LET a == U32(block.pc + 4 * (k - 1)) IN
                    b[k] = Decode[WordAt(memory, a - (a % 4))]
  BY DEF CompiledFrom
<1>3. CASE k \in 1..Len(block.code)
  <2>1. b[k] = block.code[k]
    BY <1>1, <1>3
  <2> QED BY <1>3, <2>1 DEF CompiledFrom
<1>4. CASE k = Len(block.code) + 1
  <2>1. b[k] = NextToCompile
    BY <1>1, <1>4
  <2>2. block.pc + 4 * (k - 1) = block.pc + 4 * Len(block.code)
    BY <1>1, <1>4
  <2> QED BY <2>1, <2>2 DEF NextToCompile, CompilePc
<1> QED BY <1>1, <1>2, <1>3, <1>4

(* The block under construction is what the memory holds at every step.    *)
LEMMA CompilingStep ==
  ASSUME JitInv, CompilingOK, JitNext \/ UNCHANGED allVars
  PROVE  CompilingOK'
<1>1. CASE StartBlock
  <2>1. block'.code = <<>>
    BY <1>1 DEF StartBlock
  <2>2. Len(block'.code) = 0
    BY <2>1
  <2> QED BY <2>2 DEF CompilingOK, CompiledFrom
<1>2. CASE EmitInstruction
  <2>1. CompiledFrom(block.pc, Append(block.code, NextToCompile))
    BY <1>2, CompiledGrows DEF JitInv, CompilingOK, EmitInstruction
  <2>2. /\ block'.pc = block.pc /\ block'.code = Append(block.code, NextToCompile)
        /\ memory' = memory
    BY <1>2 DEF EmitInstruction, JitInv, BlocksOK, vars
  <2> QED BY <2>1, <2>2 DEF CompilingOK, CompiledFrom
<1>3. CASE EmitOutside \/ UNCHANGED allVars
  <2>1. memory' = memory /\ block' = block /\ mode' = mode
    BY <1>3 DEF EmitOutside, Crash, jitVars, allVars, vars
  <2> QED BY <2>1 DEF CompilingOK, CompiledFrom
<1>4. CASE Interpret
  BY <1>4 DEF Interpret, CompilingOK, jitVars
<1>5. CASE EnterBlock \/ FinishBlock \/ RewindBlock \/ NativeStep \/ NativeReturn
  <2>1. mode' # "compile"
    BY <1>5 DEF EnterBlock, FinishBlock, RewindBlock, NativeStep, NativeReturn
  <2> QED BY <2>1 DEF CompilingOK
<1> QED BY <1>1, <1>2, <1>3, <1>4, <1>5 DEF JitNext, JitStopped

(* Without a store a coherent cache stays coherent: the block that enters  *)
(* it is the one just compiled, and the others do not change.              *)
LEMMA CoherentStep ==
  ASSUME JitInv, CompilingOK, JitNext \/ UNCHANGED allVars, CacheCoherent, memory' = memory
  PROVE  CacheCoherent'
<1>1. CASE FinishBlock
  <2>1. CompiledFrom(block.pc, block.code)
    BY <1>1 DEF FinishBlock, CompilingOK
  <2>2. cache' = [cache EXCEPT ![Slot(block.pc)] =
                     [pc |-> block.pc, fn |-> block.code, valid |-> TRUE]]
    BY <1>1 DEF FinishBlock
  <2> SUFFICES ASSUME NEW k \in DOMAIN cache, cache'[k].valid
               PROVE  CompiledFrom(cache[k].pc, cache[k].fn)'
    BY <2>2 DEF CacheCoherent
  <2>3. CompiledFrom(cache'[k].pc, cache'[k].fn)
    <3>1. CASE k = Slot(block.pc)
      <4>1. cache'[k].pc = block.pc /\ cache'[k].fn = block.code
        BY <2>2, <3>1
      <4> QED BY <2>1, <4>1
    <3>2. CASE k # Slot(block.pc)
      <4>1. cache'[k] = cache[k]
        BY <2>2, <3>2
      <4> QED BY <4>1 DEF CacheCoherent
    <3> QED BY <3>1, <3>2
  <2> QED BY <2>3 DEF CompiledFrom
<1>2. CASE ~ FinishBlock
  <2>1. cache' = cache
    BY <1>2 DEF JitNext, Interpret, EnterBlock, StartBlock, EmitInstruction, RewindBlock,
       EmitOutside, NativeStep, NativeReturn, JitStopped, jitVars, allVars
  <2> QED BY <2>1 DEF CacheCoherent, CompiledFrom
<1> QED BY <1>1, <1>2

(* Compiling, evicting, running and rewinding leave a coherent cache       *)
(* coherent, whatever slot a block lands in and whatever it evicts: only a *)
(* store can make a block stale.                                           *)
THEOREM StaleOnlyByStore == JitSpec => StaleByStore
<1>1. JitInit => JitInv /\ CompilingOK
  BY JitInitInv DEF JitInit, CompilingOK
<1>2. JitInv /\ CompilingOK /\ [JitNext]_allVars => JitInv' /\ CompilingOK'
  BY JitStepInv, CompilingStep
<1>3. JitInv /\ CompilingOK /\ [JitNext]_allVars
      => (CacheCoherent /\ memory' = memory => CacheCoherent')
  BY CoherentStep
<1> QED BY <1>1, <1>2, <1>3, PTL DEF JitSpec, StaleByStore

(* A step leaves the words that the cached blocks were compiled from.      *)
CodeUntouched ==
  \A k \in DOMAIN cache : cache[k].valid =>
    \A j \in 1..Len(cache[k].fn) :
      LET a == U32(cache[k].pc + 4 * (j - 1)) IN
      WordAt(memory', a - (a % 4)) = WordAt(memory, a - (a % 4))

(* A program that never overwrites an instruction it has compiled          *)
(* never meets a stale block, wherever else it stores.                     *)
THEOREM CoherentUnlessOverwritten ==
  JitSpec /\ [][CodeUntouched]_allVars => []CacheCoherent
<1>1. JitInit => JitInv /\ CompilingOK /\ CacheCoherent
  BY JitInitInv DEF JitInit, CompilingOK, CacheCoherent
<1>2. JitInv /\ CompilingOK /\ [JitNext]_allVars => JitInv' /\ CompilingOK'
  BY JitStepInv, CompilingStep
<1>3. ASSUME JitInv, CompilingOK, JitNext \/ UNCHANGED allVars, CacheCoherent,
             CodeUntouched \/ UNCHANGED allVars
      PROVE  CacheCoherent'
  <2>1. CASE memory' = memory
    BY <1>3, <2>1, CoherentStep
  <2>2. CASE memory' # memory
    <3>1. cache' = cache /\ CodeUntouched
      BY <1>3, <2>2 DEF JitNext, Interpret, EnterBlock, StartBlock, EmitInstruction, FinishBlock,
         RewindBlock, EmitOutside, NativeStep, NativeReturn, JitStopped, jitVars, allVars, vars
    <3> SUFFICES ASSUME NEW k \in DOMAIN cache, cache[k].valid
                 PROVE  CompiledFrom(cache[k].pc, cache[k].fn)'
      BY <3>1 DEF CacheCoherent
    <3>2. CompiledFrom(cache[k].pc, cache[k].fn)
      BY <1>3 DEF CacheCoherent
    <3> QED BY <3>1, <3>2 DEF CompiledFrom, CodeUntouched
  <2> QED BY <2>1, <2>2
<1>4. JitInv /\ CompilingOK /\ CacheCoherent /\ [JitNext]_allVars /\ [CodeUntouched]_allVars
      => CacheCoherent'
  BY <1>3
<1> QED BY <1>1, <1>2, <1>4, PTL DEF JitSpec

(***************************************************************************)
(* The code buffer.  compile_block checks once, before the prologue, that  *)
(* RESERVE bytes are free; e8 never checks.  That is enough for a program  *)
(* whose runs of compiled instructions are short: at 21 bytes for the      *)
(* longest instruction the 8192 bytes of jit.c hold a block of 388, where  *)
(* the block limit of 1024 would need 21535.                               *)
(***************************************************************************)
BlockBytes(n) == PROLOGUE + MAX_EMITTED * n + EPILOGUE

(* The block in compile_block fits in the reserve, with the instruction    *)
(* that is about to be added, however long its instructions are.           *)
ShortRuns ==
  mode = "compile" => /\ BlockBytes(Len(block.code)) <= RESERVE
                      /\ Compilable => BlockBytes(Len(block.code) + 1) <= RESERVE

CursorOK ==
  /\ code_off \in Nat /\ cur \in Nat
  /\ code_off <= CODE_CAP /\ cur <= CODE_CAP
  /\ mode = "compile" =>
       /\ code_off + RESERVE <= CODE_CAP
       /\ cur <= code_off + PROLOGUE + MAX_EMITTED * Len(block.code)

(* The arithmetic of it, for a block of len instructions and a next one of *)
(* n bytes.                                                                *)
LEMMA Budget ==
  ASSUME NEW len \in Nat, NEW off \in Nat, NEW c \in Nat,
         NEW res \in Nat, NEW cap \in Nat, NEW n \in 0..21,
         off + res <= cap, c <= off + 12 + 21 * len
  PROVE  /\ 12 + 21 * len + 19 <= res => c + 19 <= cap
         /\ 12 + 21 * (len + 1) + 19 <= res => c + n <= cap
         /\ c + n <= off + 12 + 21 * (len + 1)
OBVIOUS

(* The cursor then has room for the next instruction and for the epilogue. *)
LEMMA RoomLeft ==
  ASSUME ShortRuns, JitInv, CursorOK, mode = "compile"
  PROVE  /\ Compilable => cur + EmittedBytes(NextToCompile) <= CODE_CAP
         /\ cur + EPILOGUE <= CODE_CAP
<1>1. Len(block.code) \in Nat
  BY CompileTypes DEF JitInv
<1>2. /\ RESERVE \in Nat /\ CODE_CAP \in Nat
      /\ code_off \in Nat /\ cur \in Nat
      /\ code_off + RESERVE <= CODE_CAP /\ cur <= code_off + 12 + 21 * Len(block.code)
  BY JitAssumption DEF CursorOK, PROLOGUE, MAX_EMITTED
<1>3. cur + EPILOGUE <= CODE_CAP
  <2>1. 0 \in 0..21
    OBVIOUS
  <2>2. 12 + 21 * Len(block.code) + 19 <= RESERVE
    BY DEF ShortRuns, BlockBytes, PROLOGUE, EPILOGUE, MAX_EMITTED
  <2> QED BY <1>1, <1>2, <2>1, <2>2, Budget DEF EPILOGUE
<1>4. ASSUME Compilable PROVE cur + EmittedBytes(NextToCompile) <= CODE_CAP
  <2>1. EmittedBytes(NextToCompile) \in 0..21
    BY <1>4, NextBytes DEF JitInv, MAX_EMITTED
  <2>2. 12 + 21 * (Len(block.code) + 1) + 19 <= RESERVE
    BY <1>4 DEF ShortRuns, BlockBytes, PROLOGUE, EPILOGUE, MAX_EMITTED
  <2> QED BY <1>1, <1>2, <2>1, <2>2, Budget
<1> QED BY <1>3, <1>4

(* Each step keeps the cursor within the room compile_block asked for.     *)
LEMMA CursorStep ==
  ASSUME ShortRuns, ShortRuns', JitInv, CursorOK, JitNext \/ UNCHANGED allVars
  PROVE  CursorOK'
<1>1. RESERVE \in Nat /\ CODE_CAP \in Nat
  BY JitAssumption
<1>2. CASE StartBlock
  <2>1. code_off + RESERVE <= CODE_CAP /\ cur' = code_off + 12 /\ code_off' = code_off
    BY <1>2 DEF StartBlock, RoomForBlock, PROLOGUE
  <2>2. Len(block'.code) = 0
    BY <1>2 DEF StartBlock
  <2>3. 12 <= RESERVE
    <3>1. BlockBytes(Len(block'.code)) <= RESERVE
      BY <1>2 DEF ShortRuns, StartBlock, BlockBytes
    <3> QED BY <1>1, <2>2, <3>1 DEF BlockBytes, PROLOGUE, EPILOGUE, MAX_EMITTED
  <2>4. cur' \in Nat /\ cur' <= CODE_CAP
    BY <1>1, <2>1, <2>3 DEF CursorOK
  <2>5. cur' <= code_off' + PROLOGUE + MAX_EMITTED * Len(block'.code)
    BY <2>1, <2>2 DEF CursorOK, PROLOGUE, MAX_EMITTED
  <2> QED BY <2>1, <2>4, <2>5 DEF CursorOK
<1>3. CASE EmitInstruction
  <2>1. EmittedBytes(NextToCompile) \in 0..21
    BY <1>3, NextBytes DEF JitInv, EmitInstruction, MAX_EMITTED
  <2>2. /\ cur' = cur + EmittedBytes(NextToCompile) /\ code_off' = code_off
        /\ cur' <= CODE_CAP
    BY <1>3, RoomLeft DEF EmitInstruction
  <2>3. Len(block'.code) = Len(block.code) + 1 /\ Len(block.code) \in Nat
    BY <1>3, CompileTypes DEF EmitInstruction, JitInv, BlocksOK
  <2>4. cur <= code_off + 12 + 21 * Len(block.code) /\ code_off + RESERVE <= CODE_CAP
    BY <1>3 DEF CursorOK, EmitInstruction, PROLOGUE, MAX_EMITTED
  <2>5. cur' \in Nat /\ cur' <= code_off' + 12 + 21 * Len(block'.code)
    <3>1. cur \in Nat /\ code_off \in Nat
      BY DEF CursorOK
    <3> DEFINE len == Len(block.code)
               n == EmittedBytes(NextToCompile)
    <3>2. len \in Nat /\ n \in 0..21 /\ cur <= code_off + 12 + 21 * len
      BY <2>1, <2>3, <2>4
    <3> HIDE DEF len, n
    <3>3. cur + n <= code_off + 12 + 21 * (len + 1)
      BY <1>1, <2>4, <3>1, <3>2, Budget
    <3>4. cur + n \in Nat
      BY <3>1, <3>2
    <3>5. cur' = cur + n /\ code_off' = code_off /\ Len(block'.code) = len + 1
      BY <2>2, <2>3 DEF len, n
    <3> QED BY <3>3, <3>4, <3>5
  <2> QED BY <2>2, <2>4, <2>5 DEF CursorOK, PROLOGUE, MAX_EMITTED
<1>4. CASE FinishBlock
  <2>1. cur' = cur + EPILOGUE /\ code_off' = cur' /\ mode' = "native" /\ cur' <= CODE_CAP
    BY <1>4, RoomLeft DEF FinishBlock
  <2> QED BY <2>1 DEF CursorOK, EPILOGUE
<1>5. CASE RewindBlock
  BY <1>5 DEF RewindBlock, CursorOK
<1>6. CASE Interpret \/ EnterBlock \/ NativeStep \/ NativeReturn
  <2>1. cur' = cur /\ code_off' = code_off /\ mode' # "compile"
    BY <1>6 DEF Interpret, EnterBlock, NativeStep, NativeReturn, jitVars
  <2> QED BY <2>1 DEF CursorOK
<1>7. CASE EmitOutside \/ UNCHANGED allVars
  BY <1>7 DEF EmitOutside, CursorOK, jitVars, allVars
<1> QED BY <1>2, <1>3, <1>4, <1>5, <1>6, <1>7 DEF JitNext, JitStopped

(* jit.c:24 "current emit cursor inside code_buf" holds for every program  *)
(* whose compiled runs are short, with the 2^24 and 8192 bytes of jit.c    *)
(* those of at most 388 instructions, however many blocks it has.  Longer  *)
(* runs leave the buffer: the run code_buffer.                             *)
THEOREM CursorStaysInside == JitSpec /\ []ShortRuns => []CursorInside
<1>1. JitInit => JitInv /\ CursorOK
  BY JitInitInv, JitAssumption DEF JitInit, CursorOK
<1>2. JitInv /\ CursorOK /\ ShortRuns /\ ShortRuns' /\ [JitNext]_allVars => JitInv' /\ CursorOK'
  BY JitStepInv, CursorStep
<1>3. CursorOK => CursorInside
  BY DEF CursorOK, CursorInside
<1> QED BY <1>1, <1>2, <1>3, PTL DEF JitSpec
=============================================================================
