----------------------------- MODULE HartAccess -----------------------------
(* Loads, stores and atomics of RiscVCPU (64 bits) on its 32-bit port: up to *)
(* three beats for what lies across words, two reads and two writes for a    *)
(* double-word atomic.  The port goes through the interconnect to a          *)
(* WishboneMemory; with one master the interconnect passes the lines on and  *)
(* answers while it holds the grant and stb is up.  An action is a clock     *)
(* cycle: rising tick, in the order of insertion, then falling tick.  Bytes  *)
(* have ByteBits bits; page tables, when on, swap the pages of the memory.   *)
EXTENDS Integers, FiniteSets, Sequences, SequencesExt, Bitwise

CONSTANTS ByteBits,    \* bits of a byte
          PageBytes,   \* bytes of a page; the memory has two
          Fill,        \* what is in memory at first
          Accesses     \* bound: the accesses that may come first, second, ...

Byte == 0 .. (2^ByteBits - 1)
Space == 2 * PageBytes
Zeros(k) == [i \in 1..k |-> 0]
Ones(k) == [i \in 1..k |-> 2^ByteBits - 1]
AlignedDown(a, k) == k * (a \div k)
Phys(access, va) == IF access.paging THEN (va + PageBytes) % Space ELSE va

VARIABLES hart,   \* CpuState: phase, acc_*, bus_*, amo_*, lr_*
          regs,   \* the destination registers
          trap,   \* the cause of the last access, if it trapped
          wire,   \* the lines of the port
          link,   \* interconnect and memory
          cells,  \* the bytes
          done,   \* accesses begun
          want    \* (history) what the accesses so far should have done
accessVars == <<hart, regs, trap, wire, link, cells, done, want>>

Low == [stb |-> FALSE, adr |-> 0, we |-> FALSE, sel |-> {}, dat |-> Zeros(4)]
LinesOf(h) == [stb |-> TRUE, adr |-> h.adr, we |-> h.we, sel |-> h.sel, dat |-> h.dat]
AllLanes == 0..3

AccessInit ==
  /\ hart = [phase |-> "FETCH", stage |-> 0, adr |-> 0, we |-> FALSE, sel |-> {},
             dat |-> Zeros(4), pa |-> 0, n |-> 4, sx |-> FALSE, fp |-> FALSE,
             raw |-> Zeros(8), wide |-> Zeros(12), amo |-> "none", double |-> FALSE,
             rs2 |-> Zeros(8), lo |-> Zeros(4), hi |-> Zeros(4),
             hiDone |-> FALSE, hiWrite |-> FALSE, lr |-> -1]
  /\ regs = [x |-> Zeros(8), f |-> Zeros(8)] /\ trap = "none"
  /\ wire = Low /\ cells = Fill /\ done = 0
  /\ link \in [icFirst : BOOLEAN, memoryFirst : BOOLEAN, grant : {FALSE}, line : {Low},
              prev : {FALSE}, prevWe : {FALSE}, pending : {FALSE}, adr : {0}, dat : {Zeros(4)}]
  /\ want = [ram |-> Fill, x |-> Zeros(8), f |-> Zeros(8), trap |-> "none", lr |-> -1]

-----------------------------------------------------------------------------
(* Bytes of a little-endian word.                                            *)

Shr(s, k, m) == [i \in 1..m |-> IF i + k \in DOMAIN s THEN s[i + k] ELSE 0]
Shl(s, k) == [i \in 1..4 |-> IF i - k \in DOMAIN s THEN s[i - k] ELSE 0]
Num(s) == FoldRight(LAMBDA b, high : b + 2^ByteBits * high, s, 0)
Bytes(v, k) == [i \in 1..k |-> (v \div 2^(ByteBits * (i - 1))) % 2^ByteBits]
Negative(s) == s[Len(s)] >= 2^(ByteBits - 1)
SignedNum(s) == IF Negative(s) THEN Num(s) - 2^(ByteBits * Len(s)) ELSE Num(s)
Extended(s, signed) == s \o (IF signed /\ Negative(s) THEN Ones(8 - Len(s)) ELSE Zeros(8 - Len(s)))
Boxed(s) == s \o Ones(8 - Len(s))
WordAt(a) == [i \in 1..4 |-> cells[a + i - 1]]

-----------------------------------------------------------------------------
(* The cycle.                                                                *)

\* The lines after the falling tick follow the phase the rising one reached.
HoldOff == {2, 3, 4, 7, 8}
Falling(h) ==
  CASE h.phase = "WAIT_MEM" /\ h.stage \notin HoldOff -> LinesOf(h)
    [] h.phase = "AMO_WRITE" -> [LinesOf(h) EXCEPT !.we = TRUE, !.sel = AllLanes]
    [] OTHER -> Low

Ack == link.grant /\ wire.stb /\ link.pending
Answer == link.dat

\* The hart reaches h, and drives l in the rising tick.
Cycle(h, l) ==
  LET seen == IF link.icFirst THEN wire ELSE l
      passed == IF seen.stb THEN seen ELSE Low
      at == IF link.memoryFirst THEN link.line ELSE passed
      rise == at.stb /\ ~link.prev
      werise == at.stb /\ at.we /\ ~link.prevWe
      adr == IF rise THEN at.adr ELSE link.adr
  IN /\ hart' = h
     /\ wire' = Falling(h)
     /\ link' = [link EXCEPT !.grant = seen.stb, !.line = passed, !.prev = at.stb,
                           !.prevWe = at.stb /\ at.we, !.adr = adr,
                           !.dat = IF ~rise THEN link.dat ELSE IF at.we THEN Zeros(4) ELSE WordAt(adr),
                           !.pending = at.stb /\ (rise \/ link.pending)]
     /\ cells' = [a \in DOMAIN cells |->
                  IF at.we /\ (rise \/ werise) /\ a - adr \in at.sel THEN at.dat[a - adr + 1] ELSE cells[a]]

AccessEnds(h) == Cycle([h EXCEPT !.phase = "FETCH", !.stage = 0], Low)

-----------------------------------------------------------------------------
(* What an access promises: its bytes, one by one, at their own addresses.   *)

Misaligned(a) ==
  CASE a.op = "amo" -> a.va % a.n /= 0
    [] a.op \in {"fload", "fstore"} -> Phys(a, a.va) % (IF a.n = 2 THEN 2 ELSE 4) /= 0
    [] OTHER -> FALSE
AcrossPages(a) == a.paging /\ (a.va % PageBytes) + a.n > PageBytes
PastTheEnd(a) == Phys(a, a.va) + a.n > Space
ReadsOnly(a) == a.op \in {"load", "fload"} \/ (a.op = "amo" /\ a.f5 = "LR")
Cause(a) ==
  IF Misaligned(a) \/ AcrossPages(a) \/ PastTheEnd(a) THEN (IF ReadsOnly(a) THEN "LAM" ELSE "SAM")
  ELSE "none"
Old(a) == [i \in 1..a.n |-> want.ram[Phys(a, a.va + i - 1)]]
Stored(a, s) == [b \in DOMAIN cells |->
  IF \E i \in 1..a.n : b = Phys(a, a.va + i - 1)
  THEN s[CHOOSE i \in 1..a.n : b = Phys(a, a.va + i - 1)] ELSE want.ram[b]]
Breaks(a) == \E i \in 1..a.n : Phys(a, a.va + i - 1) \in want.lr .. (want.lr + 3)
Combined(f5, s, t) ==
  CASE f5 \in {"SWAP", "SC"} -> t
    [] f5 = "ADD" -> Bytes((Num(s) + Num(t)) % 2^(ByteBits * Len(s)), Len(s))
    [] f5 = "XOR" -> [i \in DOMAIN s |-> s[i] ^^ t[i]]
    [] f5 = "AND" -> [i \in DOMAIN s |-> s[i] & t[i]]
    [] f5 = "OR"  -> [i \in DOMAIN s |-> s[i] | t[i]]
    [] f5 = "MIN" -> IF SignedNum(s) < SignedNum(t) THEN s ELSE t
    [] f5 = "MAX" -> IF SignedNum(s) > SignedNum(t) THEN s ELSE t
    [] f5 = "MINU" -> IF Num(s) < Num(t) THEN s ELSE t
    [] f5 = "MAXU" -> IF Num(s) > Num(t) THEN s ELSE t
Promised(a) ==
  LET w == [want EXCEPT !.trap = Cause(a)]
      lr == IF Breaks(a) THEN -1 ELSE want.lr
      pa == Phys(a, a.va)
  IN CASE Cause(a) /= "none" -> w
       [] a.op = "load" -> [w EXCEPT !.x = Extended(Old(a), a.sx)]
       [] a.op = "fload" -> [w EXCEPT !.f = Boxed(Old(a))]
       [] a.op \in {"store", "fstore"} -> [w EXCEPT !.ram = Stored(a, a.v2), !.lr = lr]
       [] a.op = "amo" /\ a.f5 = "LR" -> [w EXCEPT !.x = Extended(Old(a), TRUE), !.lr = pa]
       [] a.op = "amo" /\ a.f5 = "SC" ->
            [w EXCEPT !.lr = -1, !.x = Bytes(IF want.lr = pa THEN 0 ELSE 1, 8),
                      !.ram = IF want.lr = pa THEN Stored(a, a.v2) ELSE @]
       [] OTHER -> [w EXCEPT !.x = Extended(Old(a), TRUE), !.lr = lr,
                             !.ram = Stored(a, Combined(a.f5, Old(a), Shr(a.v2, 0, a.n)))]

-----------------------------------------------------------------------------
(* The instructions.                                                         *)

Offset(h) == h.pa % 4
Issue(h) == Cycle([h EXCEPT !.phase = "WAIT_MEM"], LinesOf(h))
FaultAt(h, cause) ==
  /\ trap' = cause /\ Cycle(h, Low)
\* Words that do not exist: the second or third beat would be past the top.
Wraps(pa, n) == \/ (pa % 4) + n > 4 /\ AlignedDown(pa, 4) + 4 >= Space
                \/ (pa % 4) + n > 8 /\ AlignedDown(pa, 4) + 8 >= Space
OffPage(a) == a.paging /\ (a.va % PageBytes) + a.n > PageBytes
Rejected(a, pa) == Wraps(pa, a.n) \/ OffPage(a)
FpRejected(a, pa) == pa % (IF a.n = 2 THEN 2 ELSE 4) /= 0 \/ Wraps(pa, a.n)
\* Mutant: only the first two words are looked at.
Covers_TwoWords(pa, n) == {AlignedDown(pa, 4), AlignedDown(pa, 4) + 4}
\* The words from the first on that a store of n bytes covers.
Covers(pa, n) == {AlignedDown(pa, 4) + 4 * k : k \in 0 .. (((pa % 4) + n + 3) \div 4 - 1)}
Kept(lr, words) == IF lr \in words THEN -1 ELSE lr

Load(a, pa) ==
  IF Rejected(a, pa) THEN FaultAt([hart EXCEPT !.stage = IF Wraps(pa, a.n) THEN @ ELSE 0], "LAM")
  ELSE /\ trap' = "none"
       /\ Issue([hart EXCEPT !.adr = AlignedDown(pa, 4), !.we = FALSE, !.sel = AllLanes, !.dat = Zeros(4),
                             !.n = a.n, !.sx = a.sx, !.fp = FALSE, !.pa = pa,
                             !.stage = IF (pa % 4) + a.n > 4 THEN 1 ELSE 0])
Store(a, pa) ==
  LET p == pa % 4
      first == IF p + a.n > 4 THEN 4 - p ELSE a.n
  IN IF Rejected(a, pa) THEN FaultAt([hart EXCEPT !.stage = IF Wraps(pa, a.n) THEN @ ELSE 0], "SAM")
     ELSE /\ trap' = "none"
          /\ Issue([hart EXCEPT !.adr = AlignedDown(pa, 4), !.we = TRUE, !.sel = p .. (p + first - 1),
                                !.dat = Shl(a.v2, p), !.raw = a.v2, !.n = a.n, !.pa = pa,
                                !.stage = IF a.n > first THEN 1 ELSE 0,
                                !.lr = Kept(@, Covers(pa, a.n))])
LoadFp(a, pa) ==
  IF FpRejected(a, pa) THEN FaultAt(hart, "LAM")
  ELSE /\ trap' = "none"
       /\ Issue([hart EXCEPT !.adr = AlignedDown(pa, 4), !.we = FALSE, !.sel = AllLanes, !.dat = Zeros(4),
                             !.n = a.n, !.fp = TRUE, !.pa = pa, !.stage = IF a.n = 8 THEN 1 ELSE 0])
StoreFp(a, pa) ==
  IF FpRejected(a, pa) THEN FaultAt(hart, "SAM")
  ELSE /\ trap' = "none"
       /\ Issue([hart EXCEPT !.adr = AlignedDown(pa, 4), !.we = TRUE,
                             !.sel = (pa % 4) .. (IF a.n = 2 THEN (pa % 4) + 1 ELSE 3),
                             !.dat = Shl(IF a.n = 2 THEN Shr(a.v2, 0, 2) ELSE a.v2, pa % 4), !.fp = FALSE,
                             !.lr = Kept(@, {AlignedDown(pa, 4)} \cup (IF a.n = 8 THEN {AlignedDown(pa, 4) + 4} ELSE {})),
                             !.pa = IF a.n = 8 THEN pa ELSE @, !.raw = IF a.n = 8 THEN a.v2 ELSE @,
                             !.n = IF a.n = 8 THEN 8 ELSE @, !.stage = IF a.n = 8 THEN 1 ELSE 0])
Amo(a, pa) ==
  LET plain == [hart EXCEPT !.stage = 0, !.fp = FALSE]
  IN IF a.va % a.n /= 0 THEN FaultAt(plain, IF a.f5 = "LR" THEN "LAM" ELSE "SAM")
     ELSE /\ trap' = "none"
          /\ Issue([plain EXCEPT !.adr = pa, !.we = FALSE, !.sel = AllLanes, !.amo = a.f5,
                                 !.dat = Shr(a.v2, 0, 4), !.rs2 = a.v2, !.double = a.n = 8,
                                 !.hi = Zeros(4), !.hiDone = FALSE, !.hiWrite = FALSE,
                                 !.lr = IF a.f5 \in {"LR", "SC"} THEN @
                                        ELSE Kept(@, {pa} \cup (IF a.n = 8 THEN {pa + 4} ELSE {}))])

Execute ==
  /\ hart.phase = "FETCH" /\ done < Len(Accesses)
  /\ \E a \in Accesses[done + 1] :
       LET pa == Phys(a, a.va)
       IN /\ \/ a.op = "load" /\ Load(a, pa)
             \/ a.op = "store" /\ Store(a, pa)
             \/ a.op = "fload" /\ LoadFp(a, pa)
             \/ a.op = "fstore" /\ StoreFp(a, pa)
             \/ a.op = "amo" /\ Amo(a, pa)
          /\ want' = Promised(a)
  /\ done' = done + 1 /\ UNCHANGED regs
FetchOn ==
  /\ hart.phase = "FETCH" /\ Cycle(hart, Low)
  /\ UNCHANGED <<regs, trap, done, want>>

-----------------------------------------------------------------------------
(* WAIT_MEM.                                                                 *)

Waits(stages) == hart.phase = "WAIT_MEM" /\ hart.stage \in stages
Else == UNCHANGED <<trap, done, want>>
\* Mutant: eight bytes are taken for four.
Span_Word == 4
Span == IF hart.n = 8 THEN 8 ELSE 4
MoreThanTwo == Offset(hart) + Span > 8
BeatAt(k, sel, dat) == [hart EXCEPT !.adr = AlignedDown(hart.pa, 4) + k, !.dat = dat, !.sel = sel]

WaitAck == Waits({0, 1, 6, 10}) /\ ~Ack /\ Cycle(hart, LinesOf(hart)) /\ UNCHANGED regs /\ Else
Lower == Waits({2, 3}) /\ Cycle([hart EXCEPT !.stage = @ + 1], Low) /\ UNCHANGED regs /\ Else
Second ==
  LET first == 4 - Offset(hart)
      rest == IF hart.n - first < 4 THEN hart.n - first ELSE 4
      h == [BeatAt(4, IF hart.we THEN 0 .. (rest - 1) ELSE AllLanes,
                   IF hart.we THEN Shr(hart.raw, first, 4) ELSE Zeros(4)) EXCEPT !.stage = 5]
  IN Waits({4}) /\ Cycle(h, LinesOf(h)) /\ UNCHANGED regs /\ Else
SkipAck == Waits({5}) /\ Cycle([hart EXCEPT !.stage = 6], LinesOf(hart)) /\ UNCHANGED regs /\ Else
Third ==
  LET rest == Offset(hart) + Span - 8
      h == BeatAt(8, IF hart.we THEN 0 .. (rest - 1) ELSE AllLanes,
                  IF hart.we THEN Shr(hart.raw, 8 - Offset(hart), 4) ELSE Zeros(4))
  IN /\ Waits({7, 8})
     /\ Cycle([h EXCEPT !.stage = IF @ = 7 THEN 8 ELSE IF Ack THEN 8 ELSE 9], Low)
     /\ UNCHANGED regs /\ Else
ThirdRaised == Waits({9}) /\ Cycle([hart EXCEPT !.stage = 10], LinesOf(hart)) /\ UNCHANGED regs /\ Else

Responds(write) == Waits({0, 1, 6, 10}) /\ Ack /\ hart.we = write
\* The bytes collected, each word where it is in memory.
Collected ==
  CASE hart.stage = 1 -> Answer \o Zeros(8)
    [] hart.stage = 6 -> [i \in 1..12 |-> IF i \in 5..8 THEN Answer[i - 4] ELSE hart.wide[i]]
    [] hart.stage = 10 -> [i \in 1..12 |-> IF i > 8 THEN Answer[i - 8] ELSE hart.wide[i]]
    [] OTHER -> hart.wide
Value == Shr(IF hart.stage = 0 THEN Answer ELSE Collected, Offset(hart), 8)
Loaded ==
  IF hart.fp THEN [regs EXCEPT !.f = Boxed(Shr(Value, 0, hart.n))]
  ELSE [regs EXCEPT !.x = Extended(Shr(Value, 0, hart.n), hart.sx)]
ReadBack ==
  /\ Responds(FALSE) /\ hart.amo = "none"
  /\ LET h == [hart EXCEPT !.wide = Collected]
     IN CASE hart.stage = 1 -> Cycle([h EXCEPT !.stage = 2, !.raw = Extended(Answer, FALSE)], Low) /\ UNCHANGED regs
          [] hart.stage = 6 /\ MoreThanTwo -> Cycle([h EXCEPT !.stage = 7], LinesOf(hart)) /\ UNCHANGED regs
          [] OTHER -> AccessEnds(h) /\ regs' = Loaded
  /\ Else
Written ==
  /\ Responds(TRUE)
  /\ CASE hart.stage = 1 /\ hart.amo = "none" -> Cycle([hart EXCEPT !.stage = 2], Low)
       [] hart.stage = 6 /\ MoreThanTwo -> Cycle([hart EXCEPT !.stage = 7], LinesOf(hart))
       [] OTHER -> AccessEnds([hart EXCEPT !.amo = "none"])
  /\ UNCHANGED regs /\ Else

-----------------------------------------------------------------------------
(* Atomics.                                                                  *)

OldValue == IF hart.double THEN hart.lo \o Answer ELSE Answer
Operand == IF hart.double THEN hart.rs2 ELSE hart.dat
\* Mutant: the address of the half that was read last.
Base_AsRead == hart.adr
Base == IF hart.double THEN AlignedDown(hart.adr, 8) ELSE hart.adr
\* .D: the high half is read in a transaction of its own.
AmoLow ==
  /\ Responds(FALSE) /\ hart.amo /= "none" /\ hart.double /\ ~hart.hiDone
  /\ Cycle([hart EXCEPT !.lo = Answer, !.hiDone = TRUE, !.adr = AlignedDown(@, 8) + 4,
                        !.phase = "AMO_READ_HI"], Low)
  /\ UNCHANGED regs /\ Else
AmoReadHi ==
  /\ hart.phase = "AMO_READ_HI" /\ Cycle([hart EXCEPT !.phase = "WAIT_MEM"], Low)
  /\ UNCHANGED regs /\ Else
Failed == hart.amo = "SC" /\ hart.lr /= Base
AmoValue ==
  /\ Responds(FALSE) /\ hart.amo /= "none" /\ (hart.double => hart.hiDone)
  /\ LET h == [hart EXCEPT !.lr = IF hart.amo = "LR" THEN Base ELSE IF hart.amo = "SC" THEN -1 ELSE @]
         new == Combined(hart.amo, OldValue, Operand)
     IN IF hart.amo = "LR" \/ Failed THEN Cycle([h EXCEPT !.amo = "none", !.phase = "FETCH"], Low)
        ELSE Cycle([h EXCEPT !.dat = Shr(new, 0, 4), !.hi = Shr(new, 4, 4), !.adr = Base,
                             !.we = TRUE, !.phase = "AMO_GAP"], LinesOf(hart))
  /\ regs' = [regs EXCEPT !.x = IF hart.amo = "SC" THEN Bytes(IF Failed THEN 1 ELSE 0, 8)
                                ELSE Extended(OldValue, TRUE)]
  /\ Else
AmoGap ==
  /\ hart.phase = "AMO_GAP" /\ Cycle([hart EXCEPT !.phase = "AMO_WRITE"], Low)
  /\ UNCHANGED regs /\ Else
AmoWrite ==
  /\ hart.phase = "AMO_WRITE"
  /\ IF ~Ack THEN Cycle(hart, [LinesOf(hart) EXCEPT !.we = TRUE, !.sel = AllLanes])
     ELSE IF hart.double /\ ~hart.hiWrite
     THEN Cycle([hart EXCEPT !.hiWrite = TRUE, !.adr = AlignedDown(@, 8) + 4, !.dat = hart.hi,
                             !.phase = "AMO_GAP"], Low)
     ELSE AccessEnds([hart EXCEPT !.amo = "none"])
  /\ UNCHANGED regs /\ Else

AccessNext ==
  \/ Execute \/ FetchOn \/ WaitAck \/ Lower \/ Second \/ SkipAck \/ Third \/ ThirdRaised
  \/ ReadBack \/ Written \/ AmoLow \/ AmoReadHi \/ AmoValue \/ AmoGap \/ AmoWrite

-----------------------------------------------------------------------------
(* Whatever came before it and wherever it lies, an access has done, once    *)
(* the next instruction begins, what its bytes one by one would have done;   *)
(* and SC succeeds exactly if nothing of the hart's own came in between.     *)
AccessesAreExact ==
  hart.phase = "FETCH" =>
    /\ trap = want.trap
    /\ cells = want.ram
    /\ regs.x = want.x /\ regs.f = want.f /\ hart.lr = want.lr
=============================================================================
