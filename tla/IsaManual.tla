----------------------------- MODULE IsaManual -----------------------------
(* Isa against the instruction-set manual: its opcode tables, its immediate  *)
(* formats as lists of which bit goes where, and the arithmetic its names    *)
(* stand for.  A behaviour expands one compressed instruction, or executes   *)
(* one of 32 bits.                                                           *)
EXTENDS Isa, TLC

-----------------------------------------------------------------------------
(* What the instructions compute, on n bits.                                 *)

\* Of a division towards zero.
Remainder(a, b) ==
  LET r == a % AbsInt(b) IN IF a < 0 /\ r /= 0 THEN r - AbsInt(b) ELSE r
Quotient(a, b) ==
  LET exact == a - Remainder(a, b)
  IN IF b < 0 THEN (-exact) \div (-b) ELSE exact \div b

\* The operand a, and b: a register, an immediate or a distance.
Meaning(name, n, a, b, byte) ==
  LET sa == SignedBits(a, n)
      sb == SignedBits(b, n)
      A == BitsOf(a, n)
      B == BitsOf(b, n)
      k == b % n
      all == 0 .. (n - 1)
      \* The polynomial product, coefficient by coefficient.
      P(i) == Cardinality({j \in A : i - j \in B}) % 2 = 1
  IN CASE name = "add" -> (a + b) % 2^n
       [] name = "sub" -> (a - b) % 2^n
       [] name = "sll" -> FromBits({i + k : i \in A} \cap all)
       [] name = "srl" -> FromBits({i - k : i \in A} \cap all)
       [] name = "sra" -> FromBits({i \in all : i + k \in A \/ (i + k >= n /\ sa < 0)})
       [] name = "slt" -> IF sa < sb THEN 1 ELSE 0
       [] name = "sltu" -> IF a < b THEN 1 ELSE 0
       [] name = "xor" -> FromBits((A \ B) \cup (B \ A))
       [] name = "xnor" -> FromBits((all \ (A \cup B)) \cup (A \cap B))
       [] name = "or" -> FromBits(A \cup B)
       [] name = "orn" -> FromBits(A \cup (all \ B))
       [] name = "and" -> FromBits(A \cap B)
       [] name = "andn" -> FromBits(A \ B)
       [] name = "mul" -> (sa * sb) % 2^n
       [] name = "mulh" -> ((sa * sb) \div 2^n) % 2^n
       [] name = "mulhsu" -> ((sa * b) \div 2^n) % 2^n
       [] name = "mulhu" -> ((sa * b) \div 2^n + (IF sa < 0 THEN b ELSE 0)) % 2^n
       [] name = "div" -> IF b = 0 THEN 2^n - 1 ELSE Quotient(sa, sb) % 2^n
       [] name = "rem" -> IF b = 0 THEN a ELSE Remainder(sa, sb) % 2^n
       [] name = "divu" -> IF b = 0 THEN 2^n - 1 ELSE a \div b
       [] name = "remu" -> IF b = 0 THEN a ELSE a % b
       [] name = "min" -> IF sa <= sb THEN a ELSE b
       [] name = "minu" -> IF a <= b THEN a ELSE b
       [] name = "max" -> IF sa <= sb THEN b ELSE a
       [] name = "maxu" -> IF a <= b THEN b ELSE a
       [] name = "clmul" -> FromBits({i \in all : P(i)})
       [] name = "clmulh" -> FromBits({i \in all : P(i + n)})
       [] name = "clmulr" -> FromBits({i \in all : P(i + n - 1)})
       [] name = "sh1add" -> (2 * a + b) % 2^n
       [] name = "sh2add" -> (4 * a + b) % 2^n
       [] name = "sh3add" -> (8 * a + b) % 2^n
       [] name = "bset" -> FromBits(A \cup {k})
       [] name = "bclr" -> FromBits(A \ {k})
       [] name = "binv" -> FromBits((A \ {k}) \cup ({k} \ A))
       [] name = "bext" -> IF k \in A THEN 1 ELSE 0
       [] name = "rol" -> FromBits({(i + k) % n : i \in A})
       [] name = "ror" -> FromBits({(i - k) % n : i \in A})
       [] name = "czero.eqz" -> IF b = 0 THEN 0 ELSE a
       [] name = "czero.nez" -> IF b = 0 THEN a ELSE 0
       [] name = "pack" -> FromBits({i \in A : 2 * i < n} \cup {i + n \div 2 : i \in {i \in B : 2 * i < n}})
       [] name = "packh" -> FromBits({i \in A : i < byte} \cup {i + byte : i \in {i \in B : i < byte}})
       [] name = "clz" -> IF A = {} THEN n ELSE n - 1 - Max(A)
       [] name = "ctz" -> IF A = {} THEN n ELSE Min(A)
       [] name = "cpop" -> Cardinality(A)
       [] name = "sext.b" -> FromBits({i \in all : IF i < byte THEN i \in A ELSE byte - 1 \in A})
       [] name = "sext.h" -> FromBits({i \in all : IF i < 2 * byte THEN i \in A ELSE 2 * byte - 1 \in A})
       [] name = "zext.h" -> FromBits({i \in A : i < 2 * byte})
       [] name = "orc.b" -> FromBits({i \in all : \E j \in A : i \div byte = j \div byte})
       [] name = "rev8" -> FromBits({(n - byte * (i \div byte + 1)) + (i % byte) : i \in A})
       [] name = "brev8" -> FromBits({byte * (i \div byte) + (byte - 1 - (i % byte)) : i \in A})
       [] name = "zip" -> FromBits({IF 2 * i < n THEN 2 * i ELSE 2 * i + 1 - n : i \in A})
       [] name = "unzip" -> FromBits({IF i % 2 = 0 THEN i \div 2 ELSE (i - 1 + n) \div 2 : i \in A})

\* A form: on the register; on its low word, and sign-extended; or with the
\* low word as the first operand.
Computed(e, a, b, byte) ==
  LET w == IsaBits \div 2
  IN CASE e.form = "plain" -> Meaning(e.name, IsaBits, a, b, byte)
       [] e.form = "word" -> Widened(Meaning(e.name, w, a % 2^w, b % 2^w, byte), w)
       [] e.form = "uw" -> Meaning(e.name, IsaBits, a % 2^w, b, byte)

-----------------------------------------------------------------------------
(* The opcode tables: by funct3, from 0 to 7.                                *)

Family(form, op, f7, names) ==
  {[form |-> form, op |-> op, f7 |-> f7, f3 |-> i - 1, name |-> names[i]] :
     i \in {i \in 1..8 : names[i] /= ""}}
Registers(rv) ==
  UNION ({Family("plain", 51, 0, <<"add", "sll", "slt", "sltu", "xor", "srl", "or", "and">>),
          Family("plain", 51, 32, <<"sub", "", "", "", "xnor", "sra", "orn", "andn">>),
          Family("plain", 51, 1, <<"mul", "mulh", "mulhsu", "mulhu", "div", "divu", "rem", "remu">>),
          Family("plain", 51, 5, <<"", "clmul", "clmulr", "clmulh", "min", "minu", "max", "maxu">>),
          Family("plain", 51, 16, <<"", "", "sh1add", "", "sh2add", "", "sh3add", "">>),
          Family("plain", 51, 20, <<"", "bset", "", "", "", "", "", "">>),
          Family("plain", 51, 36, <<"", "bclr", "", "", "", "bext", "", "">>),
          Family("plain", 51, 52, <<"", "binv", "", "", "", "", "", "">>),
          Family("plain", 51, 48, <<"", "rol", "", "", "", "ror", "", "">>),
          Family("plain", 51, 7, <<"", "", "", "", "", "czero.eqz", "", "czero.nez">>),
          Family("plain", 51, 4, <<"", "", "", "", "pack", "", "", "packh">>)}
    \cup IF rv = 32 THEN {} ELSE
         {Family("word", 59, 0, <<"add", "sll", "", "", "", "srl", "", "">>),
          Family("word", 59, 32, <<"sub", "", "", "", "", "sra", "", "">>),
          Family("word", 59, 1, <<"mul", "", "", "", "div", "divu", "rem", "remu">>),
          Family("word", 59, 48, <<"", "rol", "", "", "", "ror", "", "">>),
          Family("word", 59, 4, <<"", "", "", "", "pack", "", "", "">>),
          Family("uw", 59, 4, <<"add", "", "", "", "", "", "", "">>),
          Family("uw", 59, 16, <<"", "", "sh1add", "", "sh2add", "", "sh3add", "">>)})
Immediates(rv) ==
  Family("plain", 19, 0, <<"add", "", "slt", "sltu", "xor", "", "or", "and">>)
    \cup IF rv = 32 THEN {} ELSE Family("word", 27, 0, <<"add", "", "", "", "", "", "", "">>)
Distances(rv) ==
  UNION ({Family("plain", 19, 0, <<"", "sll", "", "", "", "srl", "", "">>),
          Family("plain", 19, 32, <<"", "", "", "", "", "sra", "", "">>),
          Family("plain", 19, 48, <<"", "", "", "", "", "ror", "", "">>),
          Family("plain", 19, 20, <<"", "bset", "", "", "", "", "", "">>),
          Family("plain", 19, 36, <<"", "bclr", "", "", "", "bext", "", "">>),
          Family("plain", 19, 52, <<"", "binv", "", "", "", "", "", "">>)}
    \cup IF rv = 32 THEN {} ELSE
         {Family("word", 27, 0, <<"", "sll", "", "", "", "srl", "", "">>),
          Family("word", 27, 32, <<"", "", "", "", "", "sra", "", "">>),
          Family("word", 27, 48, <<"", "", "", "", "", "ror", "", "">>),
          Family("uw", 27, 4, <<"", "sll", "", "", "", "", "", "">>)})
\* With what is in the place of rs2.
Unary(rv) ==
  LET Row(form, op, f7, f3, sub, name) ==
        [form |-> form, op |-> op, f7 |-> f7, f3 |-> f3, name |-> name, sub |-> sub]
  IN {Row("plain", 19, 48, 1, 0, "clz"), Row("plain", 19, 48, 1, 1, "ctz"),
      Row("plain", 19, 48, 1, 2, "cpop"), Row("plain", 19, 48, 1, 4, "sext.b"),
      Row("plain", 19, 48, 1, 5, "sext.h"), Row("plain", 19, 20, 5, 7, "orc.b"),
      Row("plain", 19, 52, 5, 7, "brev8"),
      Row("plain", 19, IF rv = 64 THEN 53 ELSE 52, 5, 24, "rev8"),
      Row("plain", IF rv = 64 THEN 59 ELSE 51, 4, 4, 0, "zext.h")}
     \cup IF rv = 32 THEN {Row("plain", 19, 4, 1, 15, "zip"), Row("plain", 19, 4, 5, 15, "unzip")}
          ELSE {Row("word", 27, 48, 1, 0, "clz"), Row("word", 27, 48, 1, 1, "ctz"),
                Row("word", 27, 48, 1, 2, "cpop")}
Branches == <<"beq", "bne", "", "", "blt", "bge", "bltu", "bgeu">>

-----------------------------------------------------------------------------
(* The formats: what immediate bits there are from the bit first on down.    *)

Down(a, b) == [i \in 1 .. (a - b + 1) |-> a - i + 1]
Lay(imm, first, s) == {first - i + 1 : i \in {i \in DOMAIN s : s[i] \in imm}}
Spread(c, first, s) == {s[i] : i \in {i \in DOMAIN s : first - i + 1 \in c}}
Extend(imm, sign) == imm \cup (IF sign \in imm THEN sign .. 31 ELSE {})
Twos(v) == Extend(BitsOf(v % 2^21, 21), 20)

Fields(op, f3, rd, rs1, rs2) == At(op, 0) \cup At(rd, 7) \cup At(f3, 12) \cup At(rs1, 15) \cup At(rs2, 20)
RForm(op, f7, f3, rd, rs1, rs2) == Fields(op, f3, rd, rs1, rs2) \cup At(f7, 25)
IForm(op, f3, rd, rs1, imm) == Fields(op, f3, rd, rs1, 0) \cup Lay(imm, 31, Down(11, 0))
SForm(op, f3, rs1, rs2, imm) ==
  Fields(op, f3, 0, rs1, rs2) \cup Lay(imm, 31, Down(11, 5)) \cup Lay(imm, 11, Down(4, 0))
BForm(f3, rs1, rs2, imm) ==
  Fields(99, f3, 0, rs1, rs2) \cup Lay(imm, 31, <<12>> \o Down(10, 5)) \cup Lay(imm, 11, Down(4, 1) \o <<11>>)
UForm(op, rd, imm) == Fields(op, 0, rd, 0, 0) \cup Lay(imm, 31, Down(31, 12))
JForm(rd, imm) == Fields(111, 0, rd, 0, 0) \cup Lay(imm, 31, <<20>> \o Down(10, 1) \o <<11>> \o Down(19, 12))

-----------------------------------------------------------------------------
(* The compressed instructions, as the manual tabulates them.                *)

Small(c, first) == 8 + Field(c, first, 3)
CI(c) == Extend(Spread(c, 12, <<5>>) \cup Spread(c, 6, Down(4, 0)), 5)
CB(c) == Extend(Spread(c, 12, <<8, 4, 3>>) \cup Spread(c, 6, <<7, 6, 2, 1, 5>>), 8)
CJ(c) == Extend(Spread(c, 12, <<11, 4, 9, 8, 10, 6, 7, 3, 2, 1, 5>>), 11)
Sp16(c) == Extend(Spread(c, 12, <<9>>) \cup Spread(c, 6, <<4, 6, 8, 7, 5>>), 9)
LuiBits(c) == Extend(Spread(c, 12, <<17>>) \cup Spread(c, 6, Down(16, 12)), 17)
Shift6(c) == Spread(c, 12, <<5>>) \cup Spread(c, 6, Down(4, 0))

\* The instruction c stands for.
StandsFor(c, rv) ==
  LET q == Field(c, 0, 2)
      f3 == Field(c, 13, 3)
      r == Field(c, 7, 5)
      t == Field(c, 2, 5)
      ra == Small(c, 7)
      rb == Small(c, 2)
      word == Spread(c, 12, <<5, 4, 3>>) \cup Spread(c, 6, <<2, 6>>)
      double == Spread(c, 12, <<5, 4, 3>>) \cup Spread(c, 6, <<7, 6>>)
      wordSp == Spread(c, 12, <<5>>) \cup Spread(c, 6, <<4, 3, 2, 7, 6>>)
      doubleSp == Spread(c, 12, <<5>>) \cup Spread(c, 6, <<4, 3, 8, 7, 6>>)
      wordSs == Spread(c, 12, <<5, 4, 3, 2, 7, 6>>)
      doubleSs == Spread(c, 12, <<5, 4, 3, 8, 7, 6>>)
      narrow == rv = 32
  IN CASE q = 0 /\ f3 = 0 -> IForm(19, 0, rb, 2, Spread(c, 12, <<5, 4, 9, 8, 7, 6, 2, 3>>))
       [] q = 0 /\ f3 = 1 -> IForm(7, 3, rb, ra, double)
       [] q = 0 /\ f3 = 2 -> IForm(3, 2, rb, ra, word)
       [] q = 0 /\ f3 = 3 -> IF narrow THEN IForm(7, 2, rb, ra, word) ELSE IForm(3, 3, rb, ra, double)
       [] q = 0 /\ f3 = 5 -> SForm(39, 3, ra, rb, double)
       [] q = 0 /\ f3 = 6 -> SForm(35, 2, ra, rb, word)
       [] q = 0 /\ f3 = 7 -> IF narrow THEN SForm(39, 2, ra, rb, word) ELSE SForm(35, 3, ra, rb, double)
       [] q = 1 /\ f3 = 0 -> IForm(19, 0, r, r, CI(c))
       [] q = 1 /\ f3 = 1 -> IF narrow THEN JForm(1, CJ(c)) ELSE IForm(27, 0, r, r, CI(c))
       [] q = 1 /\ f3 = 2 -> IForm(19, 0, r, 0, CI(c))
       [] q = 1 /\ f3 = 3 -> IF r = 2 THEN IForm(19, 0, 2, 2, Sp16(c)) ELSE UForm(55, r, LuiBits(c))
       [] q = 1 /\ f3 = 4 ->
            (CASE {10, 11} \cap c = {} -> IForm(19, 5, ra, ra, Shift6(c))
               [] {10, 11} \cap c = {10} -> IForm(19, 5, ra, ra, Shift6(c) \cup {10})
               [] {10, 11} \cap c = {11} -> IForm(19, 7, ra, ra, CI(c))
               [] 12 \in c -> RForm(59, IF 5 \in c THEN 0 ELSE 32, 0, ra, ra, rb)
               [] {5, 6, 12} \cap c = {} -> RForm(51, 32, 0, ra, ra, rb)
               [] OTHER -> RForm(51, 0, IF 6 \in c THEN 4 + Field(c, 5, 2) ELSE 4, ra, ra, rb))
       [] q = 1 /\ f3 = 5 -> JForm(0, CJ(c))
       [] q = 1 /\ f3 = 6 -> BForm(0, ra, 0, CB(c))
       [] q = 1 /\ f3 = 7 -> BForm(1, ra, 0, CB(c))
       [] q = 2 /\ f3 = 0 -> IForm(19, 1, r, r, Shift6(c))
       [] q = 2 /\ f3 = 1 -> IForm(7, 3, r, 2, doubleSp)
       [] q = 2 /\ f3 = 2 -> IForm(3, 2, r, 2, wordSp)
       [] q = 2 /\ f3 = 3 -> IF narrow THEN IForm(7, 2, r, 2, wordSp) ELSE IForm(3, 3, r, 2, doubleSp)
       [] q = 2 /\ f3 = 4 ->
            (CASE t = 0 /\ r = 0 -> IForm(115, 0, 0, 0, {0})
               [] t = 0 /\ r /= 0 -> IForm(103, 0, IF 12 \in c THEN 1 ELSE 0, r, {})
               [] OTHER -> RForm(51, 0, 0, r, IF 12 \in c THEN r ELSE 0, t))
       [] q = 2 /\ f3 = 5 -> SForm(39, 3, 2, t, doubleSs)
       [] q = 2 /\ f3 = 6 -> SForm(35, 2, 2, t, wordSs)
       [] q = 2 /\ f3 = 7 -> IF narrow THEN SForm(39, 2, 2, t, wordSs) ELSE SForm(35, 3, 2, t, doubleSs)

ReservedParcel(c, rv) ==
  LET q == Field(c, 0, 2)
      f3 == Field(c, 13, 3)
      r == Field(c, 7, 5)
  IN \/ q = 0 /\ f3 = 0 /\ c \cap 5..12 = {}
     \/ q = 0 /\ f3 = 4
     \/ q = 1 /\ f3 = 1 /\ r = 0 /\ rv = 64
     \/ q = 1 /\ f3 = 3 /\ c \cap {2, 3, 4, 5, 6, 12} = {}
     \/ q = 1 /\ f3 = 4 /\ {10, 11, 12} \subseteq c /\ (rv = 32 \/ 6 \in c)
     \/ q = 2 /\ r = 0 /\ (f3 = 2 \/ (f3 = 3 /\ rv = 64))
     \/ q = 2 /\ f3 = 4 /\ r = 0 /\ c \cap {2, 3, 4, 5, 6, 12} = {}
\* Hints: the code traps on those without bit 12 (README).
HintParcel(c) == Field(c, 0, 2) = 2 /\ Field(c, 13, 3) = 0 /\ Field(c, 7, 5) = 0

-----------------------------------------------------------------------------
(* The behaviours.                                                           *)

Pc0 == 100
CoreWith(rv, len, x, word) ==
  [at |-> "word", rv |-> rv, len |-> len, pc |-> Pc0, x |-> x, was |-> x, word |-> word]
\* x5 and x6 hold the operands; the result goes to x7, onto the first, or nowhere.
X(a, b) == [r \in 0..31 |-> CASE r = 5 -> a [] r = 6 -> b [] OTHER -> 0]
Rds == {0, 5, 7}

InitParcel ==
  \E rv \in {32, 64} : \E c \in Parcels :
    core = [at |-> "parcel", rv |-> rv, code |-> c, word |-> {}]
InitComputation ==
  \E rv \in {32, 64} : \E a \in IsaValues :
    \/ \E e \in Registers(rv) : \E b \in IsaValues : \E rd \in Rds :
         core = CoreWith(rv, 4, X(a, b), RForm(e.op, e.f7, e.f3, rd, 5, 6)) @@ [e |-> e, rd |-> rd, b |-> b]
    \/ \E e \in Immediates(rv) : \E k \in IsaImms : \E rd \in Rds :
         core = CoreWith(rv, 4, X(a, 0), IForm(e.op, e.f3, rd, 5, Twos(k))) @@ [e |-> e, rd |-> rd, b |-> Mod(k)]
    \/ \E e \in Distances(rv) : \E k \in Shamts : \E rd \in Rds :
         LET half == IsaBits \div 2
             wide == rv = 64 /\ e.form /= "word"
         IN /\ e.form = "word" => k < half
            /\ core = CoreWith(rv, 4, X(a, 0),
                 RForm(e.op, IF wide /\ k >= half THEN e.f7 + 1 ELSE e.f7, e.f3, rd, 5,
                       IF wide THEN k % half ELSE k)) @@ [e |-> e, rd |-> rd, b |-> k]
    \/ \E e \in Unary(rv) : \E rd \in Rds :
         core = CoreWith(rv, 4, X(a, 0), RForm(e.op, e.f7, e.f3, rd, 5, e.sub)) @@ [e |-> e, rd |-> rd, b |-> 0]
InitJump ==
  \E rv \in {32, 64} : \E len \in {2, 4} : \E k \in IsaImms : \E rd \in Rds :
    \/ core = CoreWith(rv, len, X(0, 0), JForm(rd, Twos(2 * k))) @@ [e |-> [name |-> "jal"], rd |-> rd, b |-> 2 * k]
    \/ \E a \in IsaValues :
         core = CoreWith(rv, len, X(a, 0), IForm(103, 0, rd, 5, Twos(k))) @@ [e |-> [name |-> "jalr"], rd |-> rd, b |-> k]
    \/ \E u \in {"lui", "auipc"} :
         core = CoreWith(rv, len, X(0, 0), UForm(IF u = "lui" THEN 55 ELSE 23, rd, {i + 12 : i \in BitsOf(k % 2^20, 20)}))
                  @@ [e |-> [name |-> u], rd |-> rd, b |-> 4096 * k]
    \/ \E a, b \in IsaValues : \E i \in {i \in 1..8 : Branches[i] /= ""} :
         /\ rd = 0
         /\ core = CoreWith(rv, len, X(a, b), BForm(i - 1, 5, 6, Twos(2 * k)))
                     @@ [e |-> [name |-> Branches[i]], rd |-> 0, b |-> 2 * k]
IsaInit == InitParcel \/ InitComputation \/ InitJump

ExpandIt == core.at = "parcel" /\ core' = [core EXCEPT !.at = "expanded", !.word = ExpandParcel(core.code, core.rv)]
ExecuteIt == core.at = "word" /\ core' = ExecuteWord(core)
Rest == core.at \notin {"parcel", "word"} /\ UNCHANGED core
IsaNext == ExpandIt \/ ExecuteIt \/ Rest
-----------------------------------------------------------------------------
\* What the instruction leaves in its destination, and where it goes.
Wanted ==
  LET name == core.e.name
  IN CASE name \in {"jal", "jalr"} -> Pc0 + core.len
       [] name = "lui" -> core.b % 2^IsaBits
       [] name = "auipc" -> (Pc0 + core.b) % 2^IsaBits
       [] OTHER -> Computed(core.e, core.was[5], core.b, IsaByte(core.rv))
WantedPc ==
  LET name == core.e.name
      a == core.was[5]
      b == core.was[6]
      taken == CASE name = "beq" -> a = b
                 [] name = "bne" -> a /= b
                 [] name = "bltu" -> a < b
                 [] name = "bgeu" -> a >= b
                 [] name = "blt" -> SignedBits(a, IsaBits) < SignedBits(b, IsaBits)
                 [] name = "bge" -> SignedBits(a, IsaBits) >= SignedBits(b, IsaBits)
                 [] OTHER -> FALSE
      target == (a + core.b) % 2^IsaBits
  IN CASE name = "jal" \/ taken -> (Pc0 + core.b) % 2^IsaBits
       [] name = "jalr" -> 2 * (target \div 2)
       [] OTHER -> Pc0 + core.len

\* Every instruction the manual defines has its encoding accepted, computes
\* what its name stands for, writes no other register and goes on where it
\* should; every compressed one is expanded to the one it stands for, and what
\* is reserved is refused.
InstructionsAreExact ==
  /\ core.at /= "trapped"
  /\ core.at = "expanded" =>
       \/ HintParcel(core.code)
       \/ core.word = IF ReservedParcel(core.code, core.rv) THEN ILLEGAL ELSE StandsFor(core.code, core.rv)
  /\ core.at = "retired" =>
       /\ core.x = IF core.rd = 0 THEN core.was ELSE [core.was EXCEPT ![core.rd] = Wanted]
       /\ core.pc = WantedPc
=============================================================================
