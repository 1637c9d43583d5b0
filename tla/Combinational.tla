--------------------------- MODULE Combinational ---------------------------
(***************************************************************************)
(* The combinational components, each as the function of its input wires   *)
(* that the C it emits computes.  The source computes on 64-bit words made *)
(* of 8-bit bytes; here a word has WordBits bits and a byte ByteBits, so   *)
(* that every width up to the word's, the word's own included, can be      *)
(* evaluated.  A bit vector is the natural number it encodes, w is always  *)
(* the bit_width parameter of the component.                               *)
(***************************************************************************)
EXTENDS Wires, Integers, Sequences, SequencesExt, Bitwise

CONSTANTS
    WordBits,    \* 64 in the source
    ByteBits     \* 8 in the source

ASSUME WordAssumption ==
    /\ ByteBits \in Nat \ {0}
    /\ WordBits \in {ByteBits * 2^k : k \in 1..3}

Word(n) == n % 2^WordBits
Bits(w) == 0..(w - 1)
BitOf(v, i) == (v \div 2^i) % 2
Number(f, w) == MapThenFoldSet(+, 0, LAMBDA i : 2^i * f[i], LAMBDA S : CHOOSE i \in S : TRUE, Bits(w))

-----------------------------------------------------------------------------
(* How pins read and drive wires.                                          *)

Mask(v, w) == v % 2^w
CTypeBits(w) ==
    CHOOSE t \in {ByteBits * 2^k : k \in 0..3} :
        /\ w <= t
        /\ \A u \in {ByteBits * 2^k : k \in 0..3} : w <= u => t <= u
ByteCount(w) == (w + ByteBits - 1) \div ByteBits

\* A pin of width w on a net of width netW: whole bytes are copied, and what
\* exceeds the pin is cleared only when the net is the wider of the two.
ReadWire(v, w, netW) ==
    LET copied == v % 2^(ByteBits * ByteCount(w))
    IN IF netW > w THEN Mask(copied, w) ELSE copied

\* Whole bytes again: a value with bits above its pin leaves them on the net.
WriteWire(v, w) == v % 2^(ByteBits * ByteCount(w))

\* Words whose bits above w copy bit w-1 (_ua |= ~mask), and the signed
\* number a word stands for.
SignExtended(v, w) ==
    IF BitOf(v, w - 1) = 1 THEN Word(2^WordBits - 2^w + v) ELSE v
Signed(u) == IF u >= 2^(WordBits - 1) THEN u - 2^WordBits ELSE u
Inverted(u) == 2^WordBits - 1 - u
Magnitude(s) == IF s < 0 THEN -s ELSE s

-----------------------------------------------------------------------------
(* Gates.cpp                                                               *)

\* Mutant: inverted gates leave the bits above their width set.
LogicGate_Unmasked(op, ins, w) ==
    LET join(Op(_, _)) == FoldFunctionOnSet(Op, ins[1], ins, 2..Len(ins))
        r == CASE op \in {"and", "nand"} -> join(LAMBDA x, y : x & y)
               [] op \in {"or", "nor"}   -> join(LAMBDA x, y : x | y)
               [] op \in {"xor", "xnor"} -> join(LAMBDA x, y : x ^^ y)
    IN WriteWire(IF op \in {"nand", "nor", "xnor"} THEN Inverted(r) ELSE r, w)

LogicGate(op, ins, w) ==
    LET join(Op(_, _)) == FoldFunctionOnSet(Op, ins[1], ins, 2..Len(ins))
        r == CASE op \in {"and", "nand"} -> join(LAMBDA x, y : x & y)
               [] op \in {"or", "nor"}   -> join(LAMBDA x, y : x | y)
               [] op \in {"xor", "xnor"} -> join(LAMBDA x, y : x ^^ y)
    IN WriteWire(IF op \in {"nand", "nor", "xnor"} THEN Mask(Inverted(r), w) ELSE r, w)

UnaryGate(invert, v, w) == WriteWire(IF invert THEN Mask(Inverted(v), w) ELSE v, w)

\* A three-state output: the value and whether it is driven at all.
GateTSBUF(v, oe, w) == [value |-> WriteWire(v, w), driven |-> oe = 1]

-----------------------------------------------------------------------------
(* Arithmetic.cpp                                                          *)

\* sels[i] is select line i, ins[k] the k-th data input.
Mux(sels, ins, nSelects, w) == WriteWire(ins[Number(sels, nSelects)], w)

\* With signed, cout reports overflow, otherwise the carry.  Narrow adders
\* find the carry above their width, full-word ones by comparing.
Adder(a, b, cin, signed, w) ==
    LET full == Word(a + b + cin)
        sum  == Mask(full, w)
        msb  == w - 1
        cout == IF signed
                THEN BitOf(a, msb) = BitOf(b, msb) /\ BitOf(sum, msb) # BitOf(a, msb)
                ELSE IF w < WordBits
                THEN full \div 2^w # 0
                ELSE full < a \/ (cin = 1 /\ full = a)
    IN [sum |-> WriteWire(sum, w), cout |-> Bool(cout)]

Compare(op, x, y) ==
    CASE op = "eq" -> x = y [] op = "ne" -> x # y
      [] op = "lt" -> x < y [] op = "gt" -> x > y
      [] op = "le" -> x <= y [] op = "ge" -> x >= y

Comparator(op, a, b, signed, w) ==
    Bool(IF signed THEN Compare(op, Signed(SignExtended(a, w)), Signed(SignExtended(b, w)))
                   ELSE Compare(op, a, b))

Decoder(sels, nSelects) == [i \in 0..(2^nSelects - 1) |-> Bool(Number(sels, nSelects) = i)]

\* The first input that is 1 wins; none at all reads as input 0.
Encoder(ins, nSelects) ==
    LET set == {i \in DOMAIN ins : ins[i] = 1}
        idx == IF set = {} THEN 0 ELSE CHOOSE i \in set : \A j \in set : i <= j
    IN [i \in Bits(nSelects) |-> BitOf(idx, i)]

Subtractor(a, b, bin, w) ==
    LET full == Word(a - b - bin)
        bout == IF w < WordBits THEN full \div 2^w # 0 ELSE a < b \/ (bin = 1 /\ a = b)
    IN [diff |-> WriteWire(Mask(full, w), w), bout |-> Bool(bout)]

\* Mutant: the carry of the second partial sum is forgotten.
WideProduct_OneCarry(ua, ub) ==
    LET half == 2^(WordBits \div 2)
        al == ua % half   ah == ua \div half
        bl == ub % half   bh == ub \div half
        lo1 == Word(al * bl + Word(((ah * bl) % half) * half))
        lo2 == Word(lo1 + Word(((al * bh) % half) * half))
    IN [lo |-> lo2,
        hi |-> Word(ah * bh + (ah * bl) \div half + (al * bh) \div half + Bool(lo1 < al * bl))]

\* A double word from four half-word products, each partial sum kept to a
\* word with its carry counted by hand.
WideProduct(ua, ub) ==
    LET half == 2^(WordBits \div 2)
        al == ua % half   ah == ua \div half
        bl == ub % half   bh == ub \div half
        p0 == al * bl
        p1 == ah * bl
        p2 == al * bh
        p3 == ah * bh
        lo1 == Word(p0 + Word((p1 % half) * half))
        lo2 == Word(lo1 + Word((p2 % half) * half))
        cy  == Bool(lo1 < p0) + Bool(lo2 < lo1)
    IN [lo |-> lo2, hi |-> Word(p3 + p1 \div half + p2 \div half + cy)]

Negated(p) ==
    LET lo == Word(Inverted(p.lo) + 1)
    IN [lo |-> lo, hi |-> Word(Inverted(p.hi) + Bool(lo = 0))]

Multiplier(a, b, signed, w) ==
    LET sa == Signed(SignExtended(a, w))
        sb == Signed(SignExtended(b, w))
        p  == IF signed THEN LET m == WideProduct(Magnitude(sa), Magnitude(sb))
                             IN IF (sa < 0) # (sb < 0) THEN Negated(m) ELSE m
                        ELSE WideProduct(a, b)
        hi == IF w = WordBits THEN p.hi
              ELSE Mask(Word(p.hi * 2^(WordBits - w)) | (p.lo \div 2^w), w)
    IN [lo |-> WriteWire(Mask(p.lo, w), w), hi |-> WriteWire(hi, w)]

\* Mutant: narrow signed operands are not sign-extended.
Divider_ZeroExtends(a, b, signed, w) ==
    IF b = 0 THEN [quot |-> 0, rem |-> 0]
    ELSE [quot |-> WriteWire(a \div b, w), rem |-> WriteWire(a % b, w)]

\* Division by zero gives 0 and 0; magnitudes are divided and the signs put
\* back, which is how the most negative number over -1 stays defined.
Divider(a, b, signed, w) ==
    LET ua == IF signed THEN SignExtended(a, w) ELSE a
        ub == IF signed THEN SignExtended(b, w) ELSE b
        na == signed /\ Signed(ua) < 0
        nb == signed /\ Signed(ub) < 0
        qa == IF na THEN Magnitude(Signed(ua)) ELSE ua
        qb == IF nb THEN Magnitude(Signed(ub)) ELSE ub
        q  == IF na # nb THEN Word(-(qa \div qb)) ELSE qa \div qb
        r  == IF na THEN Word(-(qa % qb)) ELSE qa % qb
        cut(v) == IF signed /\ w < WordBits THEN Mask(v, w) ELSE v
    IN IF ub = 0 THEN [quot |-> 0, rem |-> 0]
       ELSE [quot |-> WriteWire(cut(q), w), rem |-> WriteWire(cut(r), w)]

Abs(v, w) == WriteWire(IF BitOf(v, w - 1) = 1 THEN Mask(Word(Inverted(v) + 1), w) ELSE v, w)

MinMax(a, b, isMax, signed, w) ==
    LET x == IF signed THEN Signed(SignExtended(a, w)) ELSE a
        y == IF signed THEN Signed(SignExtended(b, w)) ELSE b
    IN WriteWire(IF (isMax /\ x > y) \/ (~isMax /\ x < y) THEN a ELSE b, w)

-----------------------------------------------------------------------------
(* Alu.cpp                                                                 *)

Alu(a, b, op, w) ==
    LET sa == Signed(SignExtended(Mask(a, w), w))
        sb == Signed(SignExtended(Mask(b, w), w))
        count == b % WordBits
        r == CASE op = 0 -> Word(a + b)
               [] op = 1 -> Word(a - b)
               [] op = 2 -> a & b
               [] op = 3 -> a | b
               [] op = 4 -> a ^^ b
               [] op = 5 -> Word(a * 2^count)
               [] op = 6 -> a \div 2^count
               [] op = 7 -> Word(sa \div 2^count)
               [] op = 8 -> Bool(sa < sb)
               [] op = 9 -> Bool(a < b)
               [] op = 10 -> Bool(a = b)
               [] op = 11 -> Bool(a # b)
               [] op = 12 -> Word(a * b)
               [] op = 13 -> IF b = 0 THEN 2^w - 1 ELSE a \div b
               [] op = 14 -> a
               [] op = 15 -> Inverted(a)
        out == Mask(r, w)
    IN [out |-> WriteWire(out, w), zero |-> Bool(out = 0)]

-----------------------------------------------------------------------------
(* Shifter.cpp and BarrelShifter.cpp                                       *)

\* ceil(log2(w)), at least 1: the width of the shift amount's pin.
ShiftBits(w) == CHOOSE n \in 1..WordBits : w <= 2^n /\ \A m \in 1..(n - 1) : 2^m < w

Shifter(mode, v, amount, w) ==
    WriteWire(
        CASE mode = "lsl" -> Mask(Word(v * 2^amount), w)
          [] mode = "lsr" -> v \div 2^amount
          [] mode = "asr" -> IF BitOf(v, w - 1) = 1
                             THEN Mask(Word(Signed(SignExtended(v, w)) \div 2^amount), w)
                             ELSE v \div 2^amount,
        w)

\* Mutant: amounts beyond the width are cut to one less than it.
BarrelShifter_CutsShort(v, amount, dir, arith, w) ==
    LET masked == Mask(amount, ShiftBits(w))
        amt == IF masked > w THEN w - 1 ELSE masked
    IN WriteWire(
        CASE dir = 0 -> Mask(Word(v * 2^amt), w)
          [] dir = 1 /\ arith = 1 /\ v \div 2^(w - 1) # 0 ->
                IF amt = 0 THEN v ELSE (v \div 2^amt) | Mask(Word((2^w - 1) * 2^(w - amt)), w)
          [] OTHER -> v \div 2^amt,
        w)

\* An amount beyond the data width, possible when the width is not a power
\* of two, is first cut to the width.
BarrelShifter(v, amount, dir, arith, w) ==
    LET masked == Mask(amount, ShiftBits(w))
        amt == IF masked > w THEN w ELSE masked
    IN WriteWire(
        CASE dir = 0 -> Mask(Word(v * 2^amt), w)
          [] dir = 1 /\ arith = 1 /\ v \div 2^(w - 1) # 0 ->
                IF amt = 0 THEN v ELSE (v \div 2^amt) | Mask(Word((2^w - 1) * 2^(w - amt)), w)
          [] OTHER -> v \div 2^amt,
        w)

-----------------------------------------------------------------------------
(* Reduction.cpp, Parity.cpp, PriorityEncoder.cpp, SignExt.cpp, Misc.cpp,  *)
(* Bcd2Seg.cpp                                                             *)

Reduction(op, v, w) ==
    LET join(Op(_, _)) == FoldFunctionOnSet(Op, BitOf(v, 0), [i \in 1..(w - 1) |-> BitOf(v, i)], 1..(w - 1))
    IN CASE op = "redand" -> join(LAMBDA x, y : x * y)
         [] op = "redor"  -> join(LAMBDA x, y : IF x + y = 0 THEN 0 ELSE 1)
         [] op = "redxor" -> join(LAMBDA x, y : (x + y) % 2)

\* Mutant: the first fold, of the whole word's halves, is missing.
Parity_LowHalf(v, odd) ==
    LET shifts == [k \in 1..(ShiftBits(WordBits) - 1) |-> WordBits \div 2^(k + 1)]
        x == FoldLeft(LAMBDA acc, n : acc ^^ (acc \div 2^n), v, shifts) % 2
    IN IF odd THEN 1 - x ELSE x

\* The word is folded onto itself, half its length at a time.
Parity(v, odd) ==
    LET shifts == [k \in 1..(ShiftBits(WordBits)) |-> WordBits \div 2^k]
        x == FoldLeft(LAMBDA acc, n : acc ^^ (acc \div 2^n), v, shifts) % 2
    IN IF odd THEN 1 - x ELSE x

PriorityEncoder(ins) ==
    LET set == {i \in DOMAIN ins : ins[i] = 1}
    IN IF set = {} THEN [out |-> 0, valid |-> 0]
       ELSE [out |-> CHOOSE i \in set : \A j \in set : j <= i, valid |-> 1]

SignExt(v, src, dst) ==
    WriteWire(IF BitOf(v, src - 1) = 1 THEN Mask(v | (2^dst - 2^src), dst) ELSE v, dst)

Constant(value, w) == WriteWire(Mask(value, w), w)
Switch(v, en, w) == [value |-> WriteWire(IF en = 1 THEN v ELSE 0, w), driven |-> en = 1]
Merge(ins, w) == WriteWire(Number(ins, w), w)
Split(v, w) == [i \in Bits(w) |-> BitOf(v, i)]

SegTable == << 63, 6, 91, 79, 102, 109, 125, 7, 127, 111, 119, 124, 57, 94, 121, 113 >>
Bcd2Seg(digit, dp, hex, activeLow) ==
    LET lit == IF ~hex /\ digit > 9 THEN 0 ELSE SegTable[digit + 1]
        s   == IF activeLow THEN 255 - lit ELSE lit
    IN (s % 128) + (IF (dp = 1) # activeLow THEN 128 ELSE 0)

-----------------------------------------------------------------------------
(* FloatPoint.cpp.  A float is NaN or a number of halves: its fraction     *)
(* matters only to the truncation, its infinities behave as any value      *)
(* beyond the words' range.                                                *)

CONSTANT NaN
Truncated(h) == IF h >= 0 THEN h \div 2 ELSE -((-h) \div 2)
TwoTo(n) == 2 * 2^n

\* Every comparison with NaN is false but "ne".
FloatCmp(op, x, y) ==
    IF NaN \in {x, y} THEN Bool(op = "ne") ELSE Bool(Compare(op, x, y))

FloatToInt(h, signed, w) ==
    LET ival ==
          CASE h = NaN -> 0
            [] h # NaN /\ signed ->
                IF h >= TwoTo(WordBits - 1) THEN 2^(WordBits - 1) - 1
                ELSE IF h < -TwoTo(WordBits - 1) THEN 2^(WordBits - 1)
                ELSE Word(Truncated(h))
            [] h # NaN /\ ~signed ->
                IF h < 0 THEN 0
                ELSE IF h >= TwoTo(WordBits) THEN 2^WordBits - 1
                ELSE IF h >= TwoTo(WordBits - 1)
                THEN Truncated(h - TwoTo(WordBits - 1)) + 2^(WordBits - 1)
                ELSE Truncated(h)
    IN WriteWire(IF w < WordBits THEN Mask(ival, w) ELSE ival, w)

\* The nearest number of at most p significant bits, of two equally near ones
\* the one whose last bit is 0: what a C cast to float or double does.
Rounded(v, p) ==
    LET m    == Magnitude(v)
        ulp  == 2^(CHOOSE k \in 0..WordBits : m < 2^(p + k) /\ (k > 0 => m >= 2^(p + k - 1)))
        down == m \div ulp
        rest == 2 * (m % ulp)
        near == (down + Bool(rest > ulp \/ (rest = ulp /\ down % 2 = 1))) * ulp
    IN IF v < 0 THEN -near ELSE near

\* Mutant: full-width unsigned words are cast as if they were signed.
IntToFloat_ViaSigned(v, signed, w, p) ==
    2 * Rounded(IF signed THEN Signed(SignExtended(v, w)) ELSE Signed(v), p)

\* Full-width unsigned words with the top bit set are converted by halves,
\* each of which is rounded, and so is their sum.  p is the length of the
\* mantissa: 24 or 53 in the source.
IntToFloat(v, signed, w, p) ==
    LET half == 2^(WordBits \div 2)
    IN 2 * (IF signed THEN Rounded(Signed(SignExtended(v, w)), p)
            ELSE IF w < WordBits - 1 \/ v < 2^(WordBits - 1) THEN Rounded(v, p)
            ELSE Rounded(Rounded(v \div half, p) * half + Rounded(v % half, p), p))
=============================================================================
