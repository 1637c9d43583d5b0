----------------------------- MODULE Datapath ------------------------------
(***************************************************************************)
(* The combinational components of Combinational evaluated on the values   *)
(* their input nets take, one net changing at a time, and what a designer  *)
(* relies on when connecting them: exact arithmetic, no bits outside the   *)
(* pins, shifters that agree and codecs that undo each other.              *)
(***************************************************************************)
EXTENDS Combinational

CONSTANTS
    Values(_),   \* the values a net of the given width takes
    Floats,      \* the finite floats, in halves
    Mantissas    \* the significant bits of a float and of a double

\* w: the components' bit_width; n: the width of the nets on a and b, which
\* may be narrower or wider; c is a one-bit net.  A width of 0 stands for no
\* component.
VARIABLE pins

pinsVars == <<pins>>

PinsInit == \E w, n \in 1..WordBits :
    /\ n \in (w - 1)..(w + 1)
    /\ pins = [w |-> w, n |-> n, a |-> 0, b |-> 0, c |-> 0]

SetA == \E v \in Values(pins.n) : pins' = [pins EXCEPT !.a = v]
SetB == \E v \in Values(pins.n) : pins' = [pins EXCEPT !.b = v]
SetC == \E v \in Bit : pins' = [pins EXCEPT !.c = v]
PinsNext == SetA \/ SetB \/ SetC

-----------------------------------------------------------------------------
w == pins.w
A == ReadWire(pins.a, w, pins.n)
B == ReadWire(pins.b, w, pins.n)
C == pins.c

Ints == -(2^(w - 1))..(2^(w - 1) - 1)
IntOf(v) == IF v >= 2^(w - 1) THEN v - 2^w ELSE v
SA == IntOf(A)
SB == IntOf(B)

\* The adder, the subtractor and the multiplier lose nothing: result and
\* carry, borrow, overflow or high half together determine the exact
\* integer, signed and unsigned, up to the full word whose carries C cannot
\* hold.
SumsAreExact ==
    LET add  == Adder(A, B, C, FALSE, w)
        sadd == Adder(A, B, C, TRUE, w)
        sub  == Subtractor(A, B, C, w)
        mul  == Multiplier(A, B, FALSE, w)
        smul == Multiplier(A, B, TRUE, w)
        alu(op) == Alu(A, B, op, w).out
    IN /\ add.sum + 2^w * add.cout = A + B + C
       /\ IntOf(sadd.sum) = SA + SB + C <=> sadd.cout = 0
       /\ (sadd.cout = 0) <=> (SA + SB + C \in Ints)
       /\ sub.diff - 2^w * sub.bout = A - B - C
       /\ mul.lo + 2^w * mul.hi = A * B
       /\ smul.lo + 2^w * IntOf(smul.hi) = SA * SB
       /\ C = 0 => alu(0) = add.sum /\ alu(1) = sub.diff
       /\ alu(12) = mul.lo

\* Quotient and remainder reconstruct the dividend, the remainder is smaller
\* than the divisor and has the dividend's sign; dividing the most negative
\* number by -1 wraps to itself; a zero divisor gives zeros here and all ones
\* in the ALU.
Euclid(a, b, q, r) ==
    /\ a = q * b + r
    /\ Magnitude(r) < Magnitude(b)
    /\ r # 0 => (r < 0 <=> a < 0)
DivisionIsExact ==
    LET div  == Divider(A, B, FALSE, w)
        sdiv == Divider(A, B, TRUE, w)
    IN IF B = 0
       THEN /\ <<0, 0, 0, 0>> = <<div.quot, div.rem, sdiv.quot, sdiv.rem>>
            /\ Alu(A, B, 13, w).out = 2^w - 1
       ELSE /\ Euclid(A, B, div.quot, div.rem)
            /\ Alu(A, B, 13, w).out = div.quot
            /\ IF SA = -(2^(w - 1)) /\ SB = -1
               THEN sdiv.quot = A /\ sdiv.rem = 0
               ELSE Euclid(SA, SB, IntOf(sdiv.quot), IntOf(sdiv.rem))

\* Comparators, minimum and maximum, the ALU's comparisons and its flag agree
\* on one order of the integers, whichever width the nets have; Abs is the
\* distance from zero, which for the most negative number is the number itself.
OneOrder ==
    LET cmp(op, s) == Comparator(op, A, B, s, w) = 1
        alu(op)    == Alu(A, B, op, w).out
    IN /\ \A s \in BOOLEAN :
            LET x == IF s THEN SA ELSE A
                y == IF s THEN SB ELSE B
            IN /\ cmp("lt", s) <=> x < y
               /\ cmp("gt", s) <=> y < x
               /\ cmp("eq", s) <=> x = y
               /\ cmp("ne", s) <=> x # y
               /\ cmp("le", s) <=> ~cmp("gt", s)
               /\ cmp("ge", s) <=> ~cmp("lt", s)
               /\ {MinMax(A, B, FALSE, s, w), MinMax(A, B, TRUE, s, w)} = {A, B}
               /\ MinMax(A, B, TRUE, s, w) = A <=> x >= y
       /\ alu(8) = Bool(cmp("lt", TRUE)) /\ alu(9) = Bool(cmp("lt", FALSE))
       /\ alu(10) = Bool(cmp("eq", FALSE)) /\ alu(11) = Bool(cmp("ne", FALSE))
       /\ Alu(A, B, 1, w).zero = Bool(cmp("eq", TRUE))
       /\ Abs(A, w) = Magnitude(SA)

-----------------------------------------------------------------------------
Gates == {"and", "or", "nand", "nor", "xor", "xnor"}
Amounts == 0..(2^ShiftBits(w) - 1)

\* No component leaves a bit above its pin's width on a net.  The next
\* component on a net of the same width reads it without masking, so a single
\* dirty bit would travel on and change what it computes.
NoDirtyBits ==
    LET fits(v) == v \in 0..(2^w - 1)
        add(s) == Adder(A, B, C, s, w)
        mul(s) == Multiplier(A, B, s, w)
        div(s) == Divider(A, B, s, w)
    IN /\ \A g \in Gates : fits(LogicGate(g, <<A, B>>, w)) /\ fits(LogicGate(g, <<A, B, A>>, w))
       /\ \A i \in BOOLEAN : fits(UnaryGate(i, A, w))
       /\ fits(GateTSBUF(A, C, w).value) /\ fits(Switch(A, C, w).value)
       /\ \A s \in BOOLEAN :
            /\ fits(add(s).sum) /\ fits(mul(s).lo) /\ fits(mul(s).hi)
            /\ fits(div(s).quot) /\ fits(div(s).rem)
            /\ fits(MinMax(A, B, s, s, w)) /\ fits(FloatToInt(2 * SA + C, s, w))
       /\ fits(Subtractor(A, B, C, w).diff) /\ fits(Abs(A, w)) /\ fits(Constant(pins.a, w))
       /\ \A op \in 0..15 : fits(Alu(A, B, op, w).out)
       /\ \A amt \in Amounts :
            /\ \A m \in {"lsl", "lsr", "asr"} : fits(Shifter(m, A, amt, w))
            /\ w > 1 => \A d, r \in Bit : fits(BarrelShifter(A, amt, d, r, w))

\* All arithmetic together: exact sums and products, exact division, one order
\* that comparators, minimum, maximum and the ALU share, and clean pins.
ArithmeticIsExact == SumsAreExact /\ DivisionIsExact /\ OneOrder /\ NoDirtyBits

\* The shifters, the barrel shifter and the ALU give one answer for every
\* amount the pin can carry, the ones beyond a width that is not a power of
\* two included: a left shift multiplies, a logical right shift divides, an
\* arithmetic one divides the signed number, rounding down.
ShiftersAgree == \A amt \in Amounts :
    LET lsl == Mask(A * 2^amt, w)
        lsr == A \div 2^amt
        asr == Mask(2^WordBits + SA \div 2^amt, w)
    IN /\ Shifter("lsl", A, amt, w) = lsl
       /\ Shifter("lsr", A, amt, w) = lsr
       /\ Shifter("asr", A, amt, w) = asr
       /\ w > 1 => /\ BarrelShifter(A, amt, 0, C, w) = lsl
                   /\ BarrelShifter(A, amt, 1, 0, w) = lsr
                   /\ BarrelShifter(A, amt, 1, 1, w) = asr
       /\ Alu(A, amt, 5, w).out = lsl
       /\ Alu(A, amt, 6, w).out = lsr
       /\ Alu(A, amt, 7, w).out = asr

\* An integer becomes the nearest float, of two equally near ones the even one,
\* but for a full-width unsigned word with the top bit set in a mantissa
\* shorter than half a word: it is rounded by halves, to one of the two floats
\* around it.  Conversions never decrease, and a value that fits the mantissa
\* comes back unharmed.
FloatsOf(p) == {m * 2^e : m \in -(2^p)..(2^p), e \in 0..(WordBits - p)}
IntegersBecomeFloats == \A p \in Mantissas, s \in BOOLEAN :
    LET number(v) == IF s THEN IntOf(v) ELSE v
        float(v)  == IntToFloat(v, s, w, p) \div 2
        apart(v)  == Magnitude(float(v) - number(v))
    IN \A v \in 0..(2^w - 1) :
         /\ float(v) \in FloatsOf(p)
         /\ \A f \in FloatsOf(p) :
              /\ ~(number(v) < f /\ f < float(v)) /\ ~(float(v) < f /\ f < number(v))
              /\ s \/ v < 2^(WordBits - 1) \/ 2 * p >= WordBits =>
                   \/ apart(v) < Magnitude(f - number(v)) \/ f = float(v)
                   \/ apart(v) = Magnitude(f - number(v)) /\ float(v) \div 2 \in FloatsOf(p - 1) /\ float(v) % 2 = 0
         /\ number(v) \in FloatsOf(p) => float(v) = number(v) /\ FloatToInt(2 * float(v), s, w) = v
         /\ number(v) + 1 \in {number(u) : u \in 0..(2^w - 1)} => float(v) <= float((v + 1) % 2^w)

\* Conversions undo each other: split and merge, decoder and encoder, sign
\* extension and truncation; integers become floats and floats integers in
\* order.  The priority encoder finds the top bit, the parity bit makes the
\* count of ones even, a mux selects what its select lines spell, and the
\* seven-segment patterns are distinct.
ConversionsInvert ==
    LET bits == Split(A, w)
        sel  == Split(A % 4, 2)
        seg(hex, low) == {Bcd2Seg(d, C, hex, low) : d \in 0..15}
    IN /\ Merge(bits, w) = A
       /\ LET back == Encoder(Decoder(sel, 2), 2) IN \A i \in Bits(2) : back[i] = sel[i]
       /\ Mux(sel, [k \in 0..3 |-> k], 2, 2) = A % 4
       /\ \A dst \in (w + 1)..WordBits :
            Signed(SignExtended(SignExt(A, w, dst), dst)) = SA
       /\ LET enc == PriorityEncoder(bits)
          IN /\ enc.valid = Reduction("redor", A, w)
             /\ enc.valid = 1 => 2^enc.out <= A /\ A < 2^(enc.out + 1)
       /\ Parity(A, FALSE) = Reduction("redxor", A, w)
       /\ Parity(A, FALSE) + Parity(A, TRUE) = 1
       /\ Reduction("redand", A, w) = Bool(A = 2^w - 1)
       /\ \A low \in BOOLEAN : Cardinality(seg(TRUE, low)) = 16 /\ Cardinality(seg(FALSE, low)) = 11
       /\ <<A, B, C>> = <<0, 0, 0>> => IntegersBecomeFloats
       /\ LogicGate("nand", <<A, B>>, w) = UnaryGate(TRUE, LogicGate("and", <<A, B>>, w), w)
       /\ LogicGate("xnor", <<A, B>>, w) = LogicGate("xor", <<UnaryGate(TRUE, A, w), B>>, w)
       /\ LogicGate("nor", <<A, B>>, w)
            = LogicGate("and", <<UnaryGate(TRUE, A, w), UnaryGate(TRUE, B, w)>>, w)
       /\ A = 0 => \A x \in Floats, s \in BOOLEAN :
            LET value(v) == IF s THEN Signed(v) ELSE v
            IN /\ FloatToInt(NaN, s, WordBits) = 0
               /\ \A y \in Floats : FloatCmp("le", x, y) = 1 =>
                    value(FloatToInt(x, s, WordBits)) <= value(FloatToInt(y, s, WordBits))
               /\ \A op \in {"eq", "lt", "gt", "le", "ge"} : FloatCmp(op, x, NaN) = 0

\* Arithmetic is exact, shifters agree with each other, conversions undo each
\* other.
DatapathIsExact == w > 0 => ArithmeticIsExact /\ ShiftersAgree /\ ConversionsInvert
=============================================================================
