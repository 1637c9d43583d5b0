-------------------------------- MODULE Isa --------------------------------
(* The integer instructions of RiscVCPU: the expansion of compressed ones    *)
(* (RvcDecode.h), the decoding of fields and immediates, and what each does  *)
(* to a register and the pc.  Instructions and parcels are the sets of their *)
(* bits that are one; registers are numbers of IsaBits bits, and the words,  *)
(* half-words and bytes in them are as much narrower as they are in the core.*)
EXTENDS Integers, FiniteSets, Sequences, FiniteSetsExt, Bitwise

CONSTANTS IsaBits,     \* bits of a register: what is 32 or 64 in the code
          IsaValues,   \* bound: the register contents tried
          IsaImms,     \* bound: the immediates tried
          Shamts,      \* bound: the distances tried
          Parcels      \* bound: the compressed instructions tried

VARIABLE core   \* the part of CpuState that an instruction works on

BitSet(v) == {i \in 0..20 : (v \div 2^i) % 2 = 1}
BitsOf(v, n) == {i \in 0 .. (n - 1) : (v \div 2^i) % 2 = 1}
FromBits(s) == MapThenSumSet(LAMBDA i : 2^i, s)
Field(w, low, n) == FromBits({i \in 0 .. (n - 1) : low + i \in w})
At(v, low) == {low + i : i \in BitSet(v)}
SignedBits(v, n) == IF v >= 2^(n - 1) THEN v - 2^n ELSE v

-----------------------------------------------------------------------------
(* RvcDecode.h.                                                              *)

ILLEGAL == {}
R3(v) == (v % 8) + 8
\* Mutant: the six bits are not extended by their sign.
ImmCi_Unsigned(c) == Field(c, 2, 5) + 32 * Field(c, 12, 1)
ImmCi(c) == SignedBits(Field(c, 2, 5) + 32 * Field(c, 12, 1), 6)
ImmB(c) == SignedBits(256 * Field(c, 12, 1) + 64 * Field(c, 5, 2) + 32 * Field(c, 2, 1)
                        + 8 * Field(c, 10, 2) + 2 * Field(c, 3, 2), 9)
ImmJ(c) == SignedBits(2048 * Field(c, 12, 1) + 1024 * Field(c, 8, 1) + 256 * Field(c, 9, 2)
                        + 128 * Field(c, 6, 1) + 64 * Field(c, 7, 1) + 32 * Field(c, 2, 1)
                        + 16 * Field(c, 11, 1) + 2 * Field(c, 3, 3), 12)

EncR(op, rd, f3, rs1, rs2, f7) ==
  At(f7, 25) \cup At(rs2, 20) \cup At(rs1, 15) \cup At(f3, 12) \cup At(rd, 7) \cup At(op, 0)
EncI(op, rd, f3, rs1, imm) ==
  At(imm % 4096, 20) \cup At(rs1, 15) \cup At(f3, 12) \cup At(rd, 7) \cup At(op, 0)
EncS(op, f3, rs1, rs2, imm) ==
  At((imm \div 32) % 128, 25) \cup At(rs2, 20) \cup At(rs1, 15) \cup At(f3, 12)
    \cup At(imm % 32, 7) \cup At(op, 0)
EncB(f3, rs1, rs2, imm) ==
  At((imm \div 4096) % 2, 31) \cup At((imm \div 32) % 64, 25) \cup At(rs2, 20) \cup At(rs1, 15)
    \cup At(f3, 12) \cup At((imm \div 2) % 16, 8) \cup At((imm \div 2048) % 2, 7) \cup At(99, 0)
EncJ(rd, imm) ==
  At((imm \div 2^20) % 2, 31) \cup At((imm \div 2) % 1024, 21) \cup At((imm \div 2048) % 2, 20)
    \cup At((imm \div 4096) % 256, 12) \cup At(rd, 7) \cup At(111, 0)
EncU(op, rd, imm) == At((imm \div 4096) % 2^20, 12) \cup At(rd, 7) \cup At(op, 0)

Quadrant0(c, rv) ==
  LET w == 8 * Field(c, 10, 3) + 4 * Field(c, 6, 1) + 64 * Field(c, 5, 1)
      d == 8 * Field(c, 10, 3) + 64 * Field(c, 5, 2)
      u == 16 * Field(c, 11, 2) + 64 * Field(c, 7, 4) + 4 * Field(c, 6, 1) + 8 * Field(c, 5, 1)
      low == R3(Field(c, 2, 3))
      rs1 == R3(Field(c, 7, 3))
      f3 == Field(c, 13, 3)
  IN CASE f3 = 0 -> IF u = 0 THEN ILLEGAL ELSE EncI(19, low, 0, 2, u)
       [] f3 = 1 -> EncI(7, low, 3, rs1, d)
       [] f3 = 2 -> EncI(3, low, 2, rs1, w)
       [] f3 = 3 -> IF rv = 32 THEN EncI(7, low, 2, rs1, w) ELSE EncI(3, low, 3, rs1, d)
       [] f3 = 5 -> EncS(39, 3, rs1, low, d)
       [] f3 = 6 -> EncS(35, 2, rs1, low, w)
       [] f3 = 7 -> IF rv = 32 THEN EncS(39, 2, rs1, low, w) ELSE EncS(35, 3, rs1, low, d)
       [] OTHER -> ILLEGAL

Arithmetic(c, rv) ==
  LET rd == R3(Field(c, 7, 3))
      rs2 == R3(Field(c, 2, 3))
      shamt == 32 * Field(c, 12, 1) + Field(c, 2, 5)
      which == Field(c, 5, 2)
  IN CASE Field(c, 10, 2) = 0 -> EncI(19, rd, 5, rd, shamt)
       [] Field(c, 10, 2) = 1 -> EncI(19, rd, 5, rd, 1024 + shamt)
       [] Field(c, 10, 2) = 2 -> EncI(19, rd, 7, rd, ImmCi(c))
       [] 12 \notin c -> EncR(51, rd, <<0, 4, 6, 7>>[which + 1], rd, rs2, IF which = 0 THEN 32 ELSE 0)
       [] rv = 64 /\ which = 0 -> EncR(59, rd, 0, rd, rs2, 32)
       [] rv = 64 /\ which = 1 -> EncR(59, rd, 0, rd, rs2, 0)
       [] OTHER -> ILLEGAL

Quadrant1(c, rv) ==
  LET rd == Field(c, 7, 5)
      f3 == Field(c, 13, 3)
      sp == SignedBits(512 * Field(c, 12, 1) + 16 * Field(c, 6, 1) + 64 * Field(c, 5, 1)
                         + 128 * Field(c, 3, 2) + 32 * Field(c, 2, 1), 10)
  IN CASE f3 = 0 -> EncI(19, rd, 0, rd, ImmCi(c))
       [] f3 = 1 -> IF rv = 32 THEN EncJ(1, ImmJ(c))
                    ELSE IF rd = 0 THEN ILLEGAL ELSE EncI(27, rd, 0, rd, ImmCi(c))
       [] f3 = 2 -> EncI(19, rd, 0, 0, ImmCi(c))
       [] f3 = 3 /\ rd = 2 -> IF sp = 0 THEN ILLEGAL ELSE EncI(19, 2, 0, 2, sp)
       [] f3 = 3 /\ rd /= 2 -> IF ImmCi(c) = 0 THEN ILLEGAL ELSE EncU(55, rd, 4096 * ImmCi(c))
       [] f3 = 4 -> Arithmetic(c, rv)
       [] f3 = 5 -> EncJ(0, ImmJ(c))
       [] f3 = 6 -> EncB(0, R3(Field(c, 7, 3)), 0, ImmB(c))
       [] OTHER -> EncB(1, R3(Field(c, 7, 3)), 0, ImmB(c))

Quadrant2(c, rv) ==
  LET rd == Field(c, 7, 5)
      rs2 == Field(c, 2, 5)
      f3 == Field(c, 13, 3)
      high == 32 * Field(c, 12, 1)
      loadW == high + 4 * Field(c, 4, 3) + 64 * Field(c, 2, 2)
      loadD == high + 8 * Field(c, 5, 2) + 64 * Field(c, 2, 3)
      storeW == 4 * Field(c, 9, 4) + 64 * Field(c, 7, 2)
      storeD == 8 * Field(c, 10, 3) + 64 * Field(c, 7, 3)
  IN CASE f3 = 0 -> IF 12 \notin c /\ rd = 0 THEN ILLEGAL ELSE EncI(19, rd, 1, rd, high + rs2)
       [] f3 = 1 -> EncI(7, rd, 3, 2, loadD)
       [] f3 = 2 -> IF rd = 0 THEN ILLEGAL ELSE EncI(3, rd, 2, 2, loadW)
       [] f3 = 3 -> IF rv = 32 THEN EncI(7, rd, 2, 2, loadW)
                    ELSE IF rd = 0 THEN ILLEGAL ELSE EncI(3, rd, 3, 2, loadD)
       [] f3 = 4 /\ 12 \notin c -> IF rs2 /= 0 THEN EncR(51, rd, 0, 0, rs2, 0)
                                  ELSE IF rd = 0 THEN ILLEGAL ELSE EncI(103, 0, 0, rd, 0)
       [] f3 = 4 /\ 12 \in c -> IF rs2 /= 0 THEN EncR(51, rd, 0, rd, rs2, 0)
                               ELSE IF rd = 0 THEN EncI(115, 0, 0, 0, 1) ELSE EncI(103, 1, 0, rd, 0)
       [] f3 = 5 -> EncS(39, 3, 2, rs2, storeD)
       [] f3 = 6 -> EncS(35, 2, 2, rs2, storeW)
       [] OTHER -> IF rv = 32 THEN EncS(39, 2, 2, rs2, storeW) ELSE EncS(35, 3, 2, rs2, storeD)

ExpandParcel(c, rv) ==
  CASE Field(c, 0, 2) = 0 -> Quadrant0(c, rv)
    [] Field(c, 0, 2) = 1 -> Quadrant1(c, rv)
    [] OTHER -> Quadrant2(c, rv)

-----------------------------------------------------------------------------
(* Registers.                                                                *)

Mod(v) == v % 2^IsaBits
IsaByte(rv) == IsaBits \div (rv \div 8)
HalfLength(rv) == 2 * IsaByte(rv)
WordLength(rv) == 4 * IsaByte(rv)
AsSigned(v) == SignedBits(v, IsaBits)
\* The low n bits of v, extended by their sign.
Widened(v, n) == Mod(SignedBits(v % 2^n, n))
Flip(v, n) == 2^n - 1 - v
ShiftL(v, k, n) == (v * 2^(k % n)) % 2^n
Sra(v, k, n) == (SignedBits(v, n) \div 2^k) % 2^n
RotL(v, k, n) == ShiftL(v, k, n) | (v \div 2^((n - k) % n))
RotR(v, k, n) == (v \div 2^k) | ShiftL(v, n - k, n)
Clz(v, n) == Cardinality({b \in 0 .. (n - 1) : v \div 2^b = 0})
Ctz(v, n) == Cardinality({b \in 1 .. n : v % 2^b = 0})
Cpop(v, n) == Cardinality(BitsOf(v, n))
AbsInt(a) == IF a < 0 THEN -a ELSE a
TruncDiv(a, b) == IF (a < 0) = (b < 0) THEN AbsInt(a) \div AbsInt(b) ELSE -(AbsInt(a) \div AbsInt(b))
Div(a, b, n) ==
  IF b = 0 THEN -1
  ELSE IF a = -(2^(n - 1)) /\ b = -1 THEN a ELSE TruncDiv(a, b)
Rem(a, b, n) ==
  IF b = 0 THEN a
  ELSE IF a = -(2^(n - 1)) /\ b = -1 THEN 0 ELSE a - b * TruncDiv(a, b)
\* High half of an unsigned product, by halves of a.
MulHigh(a, b) ==
  LET half == 2^(IsaBits \div 2)
  IN ((a \div half) * b + ((a % half) * b) \div half) \div half
MulHighSU(a, b) == IF AsSigned(a) < 0 THEN Mod(MulHigh(a, b) - b) ELSE MulHigh(a, b)
\* U128: v shifted by each set bit of w, without carries.
Carryless(v, w) ==
  FoldSet(LAMBDA b, acc : LET term == {i + b : i \in BitsOf(v, IsaBits)}
                          IN (acc \ term) \cup (term \ acc),
          {}, BitsOf(w, IsaBits))

-----------------------------------------------------------------------------
(* do_execute.  An instruction's result is a register value, or Trap.        *)

Trap == -1
DecodeWord(w) ==
  [op |-> Field(w, 0, 7), rd |-> Field(w, 7, 5), f3 |-> Field(w, 12, 3), rs1 |-> Field(w, 15, 5),
   rs2 |-> Field(w, 20, 5), f7 |-> Field(w, 25, 7),
   ii |-> SignedBits(Field(w, 20, 12), 12),
   ib |-> SignedBits(2 * Field(w, 8, 4) + 32 * Field(w, 25, 6) + 2048 * Field(w, 7, 1)
                       + 4096 * Field(w, 31, 1), 13),
   iu |-> 4096 * SignedBits(Field(w, 12, 20), 20),
   ij |-> SignedBits(2 * Field(w, 21, 10) + 2048 * Field(w, 20, 1) + 4096 * Field(w, 12, 8)
                       + 2^20 * Field(w, 31, 1), 21)]

Even(f7) == 2 * (f7 \div 2)
\* A distance in the immediate: 5 bits, and the sixth in funct7 on 64 bits.
Shamt(d, rv) == IF rv = 64 THEN (IsaBits \div 2) * (d.f7 % 2) + (d.rs2 % (IsaBits \div 2))
                ELSE d.rs2 % IsaBits
ReservedShift(d, rv) ==
  LET top == IF rv = 64 THEN Even(d.f7) ELSE d.f7
  IN (d.f3 = 1 /\ top /= 0) \/ (d.f3 = 5 /\ top \notin {0, 32})

OpImm(d, v, rv) ==
  LET bit == 2^Shamt(d, rv)
      imm == Mod(d.ii)
      bytes == 0 .. (rv \div 8 - 1)
      b == IsaByte(rv)
      h == IsaBits \div 2
      s == BitsOf(v, IsaBits)
      shift == d.f3 \in {1, 5}
  IN CASE d.f7 = 4 /\ shift /\ d.rs2 = 15 ->
            IF d.f3 = 1 THEN FromBits({2 * i : i \in s \cap 0 .. (h - 1)} \cup {2 * i + 1 - 2 * h : i \in s \cap h .. (IsaBits - 1)})
            ELSE FromBits({i \in 0 .. (IsaBits - 1) : IF i < h THEN 2 * i \in s ELSE 2 * (i - h) + 1 \in s})
       [] Even(d.f7) = 48 /\ d.f3 = 1 ->
            (CASE d.rs2 = 0 -> Clz(v, IsaBits)
               [] d.rs2 = 1 -> Ctz(v, IsaBits)
               [] d.rs2 = 2 -> Cpop(v, IsaBits)
               [] d.rs2 = 4 -> Widened(v, b)
               [] d.rs2 = 5 -> Widened(v, 2 * b)
               [] OTHER -> Trap)
       [] Even(d.f7) = 48 /\ d.f3 = 5 -> RotR(v, Shamt(d, rv), IsaBits)
       [] Even(d.f7) = 20 /\ d.f3 = 5 ->
            IF d.rs2 /= 7 THEN Trap
            ELSE FromBits({i \in 0 .. (IsaBits - 1) : (v \div 2^(b * (i \div b))) % 2^b /= 0})
       [] Even(d.f7) = 20 /\ d.f3 = 1 -> v | bit
       [] Even(d.f7) = 36 /\ d.f3 = 1 -> v & Flip(bit, IsaBits)
       [] Even(d.f7) = 36 /\ d.f3 = 5 -> (v \div bit) % 2
       [] Even(d.f7) = 52 /\ d.f3 = 1 -> v ^^ bit
       [] Even(d.f7) = 52 /\ d.f3 = 5 /\ d.rs2 = 24 ->
            MapThenSumSet(LAMBDA i : ((v \div 2^(IsaBits - b - b * i)) % 2^b) * 2^(b * i), bytes)
       [] Even(d.f7) = 52 /\ d.f3 = 5 /\ d.rs2 = 7 ->
            FromBits({b * i + (b - 1 - j) : <<i, j>> \in {p \in bytes \X (0 .. (b - 1)) : b * p[1] + p[2] \in s}})
       [] Even(d.f7) = 52 /\ d.f3 = 5 /\ d.rs2 \notin {7, 24} -> Trap
       [] OTHER ->
            IF ReservedShift(d, rv) THEN Trap
            ELSE CASE d.f3 = 0 -> Mod(v + imm)
                   [] d.f3 = 1 -> ShiftL(v, Shamt(d, rv), IsaBits)
                   [] d.f3 = 2 -> IF AsSigned(v) < AsSigned(imm) THEN 1 ELSE 0
                   [] d.f3 = 3 -> IF v < imm THEN 1 ELSE 0
                   [] d.f3 = 4 -> v ^^ imm
                   [] d.f3 = 5 -> IF Even(d.f7) = 32 THEN Sra(v, Shamt(d, rv), IsaBits)
                                  ELSE v \div 2^Shamt(d, rv)
                   [] d.f3 = 6 -> v | imm
                   [] OTHER -> v & imm

Multiply(f3, v1, v2, rv) ==
  LET s1 == AsSigned(v1)
      s2 == AsSigned(v2)
  IN CASE f3 = 0 -> Mod(s1 * s2)
       [] f3 = 1 -> Mod((s1 * s2) \div 2^IsaBits)
       [] f3 = 2 -> IF rv = 64 THEN MulHighSU(v1, v2) ELSE Mod((s1 * v2) \div 2^IsaBits)
       [] f3 = 3 -> MulHigh(v1, v2)
       [] f3 = 4 -> Mod(Div(s1, s2, IsaBits))
       [] f3 = 5 -> IF v2 = 0 THEN Mod(-1) ELSE v1 \div v2
       [] f3 = 6 -> Mod(Rem(s1, s2, IsaBits))
       [] OTHER -> IF v2 = 0 THEN v1 ELSE v1 % v2

Op(d, v1, v2, rv) ==
  LET s1 == AsSigned(v1)
      s2 == AsSigned(v2)
      sh == v2 % IsaBits
      product == Carryless(v1, v2)
      half == 2^(IsaBits \div 2)
      byte == 2^IsaByte(rv)
  IN CASE d.f7 = 5 /\ d.f3 = 6 -> IF s1 > s2 THEN v1 ELSE v2
       [] d.f7 = 5 /\ d.f3 = 4 -> IF s1 < s2 THEN v1 ELSE v2
       [] d.f7 = 5 /\ d.f3 = 7 -> IF v1 > v2 THEN v1 ELSE v2
       [] d.f7 = 5 /\ d.f3 = 5 -> IF v1 < v2 THEN v1 ELSE v2
       [] d.f7 = 5 /\ d.f3 = 1 -> FromBits(product \cap 0 .. (IsaBits - 1))
       [] d.f7 = 5 /\ d.f3 = 3 -> FromBits({i \in 0 .. (IsaBits - 1) : i + IsaBits \in product})
       [] d.f7 = 5 /\ d.f3 = 2 -> FromBits({i \in 0 .. (IsaBits - 1) : i + IsaBits - 1 \in product})
       [] d.f7 = 16 /\ d.f3 \in {2, 4, 6} -> Mod(v1 * 2^(d.f3 \div 2) + v2)
       [] d.f7 = 20 /\ d.f3 = 1 -> v1 | (2^sh)
       [] d.f7 = 36 /\ d.f3 = 1 -> v1 & Flip(2^sh, IsaBits)
       [] d.f7 = 52 /\ d.f3 = 1 -> v1 ^^ (2^sh)
       [] d.f7 = 36 /\ d.f3 = 5 -> (v1 \div 2^sh) % 2
       [] d.f7 = 32 /\ d.f3 = 7 -> v1 & Flip(v2, IsaBits)
       [] d.f7 = 32 /\ d.f3 = 6 -> v1 | Flip(v2, IsaBits)
       [] d.f7 = 32 /\ d.f3 = 4 -> Flip(v1 ^^ v2, IsaBits)
       [] d.f7 = 48 /\ d.f3 = 1 -> RotL(v1, sh, IsaBits)
       [] d.f7 = 48 /\ d.f3 = 5 -> RotR(v1, sh, IsaBits)
       [] d.f7 = 7 /\ d.f3 = 5 -> IF v2 = 0 THEN 0 ELSE v1
       [] d.f7 = 7 /\ d.f3 = 7 -> IF v2 /= 0 THEN 0 ELSE v1
       [] d.f7 = 4 /\ d.f3 = 4 -> (v1 % half) + (v2 % half) * half
       [] d.f7 = 4 /\ d.f3 = 7 -> (v1 % byte) + (v2 % byte) * byte
       [] d.f7 = 1 -> Multiply(d.f3, v1, v2, rv)
       [] d.f7 = 32 /\ d.f3 = 0 -> Mod(v1 - v2)
       [] d.f7 = 32 /\ d.f3 = 5 -> Sra(v1, sh, IsaBits)
       [] d.f7 = 0 ->
            (CASE d.f3 = 0 -> Mod(v1 + v2)
               [] d.f3 = 1 -> ShiftL(v1, sh, IsaBits)
               [] d.f3 = 2 -> IF s1 < s2 THEN 1 ELSE 0
               [] d.f3 = 3 -> IF v1 < v2 THEN 1 ELSE 0
               [] d.f3 = 4 -> v1 ^^ v2
               [] d.f3 = 5 -> v1 \div 2^sh
               [] d.f3 = 6 -> v1 | v2
               [] OTHER -> v1 & v2)
       [] OTHER -> Trap

\* slli.uw and the word shifts share the immediates of addiw.
\* Mutant: any immediate that looks like it is taken for slli.uw.
IsSlliUw_AnyF3(d) == Even(d.f7) = 4
IsSlliUw(d) == d.f3 = 1 /\ Even(d.f7) = 4
OpImm32(d, v) ==
  LET n == WordLength(64)
      lo == v % 2^n
      sh == d.rs2 % n
  IN CASE IsSlliUw(d) -> Mod(lo * 2^Shamt(d, 64))
       [] Even(d.f7) = 48 /\ d.f3 = 1 ->
            (CASE d.rs2 = 0 -> Clz(lo, n)
               [] d.rs2 = 1 -> Ctz(lo, n)
               [] d.rs2 = 2 -> Cpop(lo, n)
               [] OTHER -> Trap)
       [] Even(d.f7) = 48 /\ d.f3 = 5 -> Widened(RotR(lo, sh, n), n)
       [] d.f3 = 0 -> Widened(lo + d.ii, n)
       [] d.f3 = 1 /\ d.f7 \in {0, 32} -> Widened(ShiftL(lo, sh, n), n)
       [] d.f3 = 5 /\ d.f7 = 0 -> Widened(lo \div 2^sh, n)
       [] d.f3 = 5 /\ d.f7 = 32 -> Widened(Sra(lo, sh, n), n)
       [] OTHER -> Trap

Op32(d, v1, v2) ==
  LET n == WordLength(64)
      lo1 == v1 % 2^n
      lo2 == v2 % 2^n
      half == 2^HalfLength(64)
      sl1 == SignedBits(lo1, n)
      sl2 == SignedBits(lo2, n)
      sh == lo2 % n
  IN CASE d.f7 = 4 /\ d.f3 = 4 -> IF d.rs2 = 0 THEN v1 % half
                                 ELSE Widened((lo1 % half) + (lo2 % half) * half, n)
       [] d.f7 = 4 /\ d.f3 = 0 -> Mod(lo1 + v2)
       [] d.f7 = 16 /\ d.f3 \in {2, 4, 6} -> Mod(lo1 * 2^(d.f3 \div 2) + v2)
       [] d.f7 = 48 /\ d.f3 = 1 -> Widened(RotL(lo1, sh, n), n)
       [] d.f7 = 48 /\ d.f3 = 5 -> Widened(RotR(lo1, sh, n), n)
       [] d.f7 = 1 /\ d.f3 = 0 -> Widened(lo1 * lo2, n)
       [] d.f7 = 1 /\ d.f3 = 4 -> Mod(Div(sl1, sl2, n))
       [] d.f7 = 1 /\ d.f3 = 5 -> IF lo2 = 0 THEN Mod(-1) ELSE Widened(lo1 \div lo2, n)
       [] d.f7 = 1 /\ d.f3 = 6 -> Mod(Rem(sl1, sl2, n))
       [] d.f7 = 1 /\ d.f3 = 7 -> IF lo2 = 0 THEN Mod(sl1) ELSE Widened(lo1 % lo2, n)
       [] d.f3 = 0 /\ d.f7 = 0 -> Widened(lo1 + lo2, n)
       [] d.f3 = 0 /\ d.f7 = 32 -> Widened(lo1 - lo2, n)
       [] d.f3 = 1 /\ d.f7 \in {0, 32} -> Widened(ShiftL(lo1, sh, n), n)
       [] d.f3 = 5 /\ d.f7 = 0 -> Widened(lo1 \div 2^sh, n)
       [] d.f3 = 5 /\ d.f7 = 32 -> Widened(Sra(lo1, sh, n), n)
       [] OTHER -> Trap

BranchTaken(f3, v1, v2) ==
  \/ f3 = 0 /\ v1 = v2
  \/ f3 = 1 /\ v1 /= v2
  \/ f3 = 4 /\ AsSigned(v1) < AsSigned(v2)
  \/ f3 = 5 /\ AsSigned(v1) >= AsSigned(v2)
  \/ f3 = 6 /\ v1 < v2
  \/ f3 = 7 /\ v1 >= v2

\* The result of an instruction, and where the next one is.
Result(d, s) ==
  LET v1 == s.x[d.rs1]
      v2 == s.x[d.rs2]
  IN CASE d.op = 19 -> OpImm(d, v1, s.rv)
       [] d.op = 51 -> Op(d, v1, v2, s.rv)
       [] d.op = 27 -> IF s.rv = 64 THEN OpImm32(d, v1) ELSE Trap
       [] d.op = 59 -> IF s.rv = 64 THEN Op32(d, v1, v2) ELSE Trap
       [] d.op = 55 -> Mod(d.iu)
       [] d.op = 23 -> Mod(s.pc + d.iu)
       [] d.op = 111 \/ (d.op = 103 /\ d.f3 = 0) -> Mod(s.pc + s.len)
       [] d.op = 99 /\ d.f3 \notin {2, 3} -> s.x[d.rd]
       [] OTHER -> Trap
NextPc(d, s) ==
  CASE d.op = 111 -> Mod(s.pc + d.ij)
    [] d.op = 103 -> 2 * (Mod(s.x[d.rs1] + d.ii) \div 2)
    [] d.op = 99 /\ BranchTaken(d.f3, s.x[d.rs1], s.x[d.rs2]) -> Mod(s.pc + d.ib)
    [] OTHER -> Mod(s.pc + s.len)
ExecuteWord(s) ==
  LET d == DecodeWord(s.word)
      r == Result(d, s)
  IN IF r = Trap THEN [s EXCEPT !.at = "trapped"]
     ELSE [s EXCEPT !.at = "retired", !.pc = NextPc(d, s),
                    !.x = IF d.op = 99 \/ d.rd = 0 THEN @ ELSE [@ EXCEPT ![d.rd] = r]]
=============================================================================
