------------------------------ MODULE Clocked ------------------------------
(***************************************************************************)
(* The clocked components of the library: for each, the state after one    *)
(* tick as a function of the state before it and of the pins the generated *)
(* C reads.  in.rising is the edge flag of the component's clock pin.  A   *)
(* pin that is not connected reads 0, an enable that is not connected 1.   *)
(***************************************************************************)
EXTENDS Combinational

-----------------------------------------------------------------------------
(* Sequential.cpp.  State is kept in whole bytes.                          *)

AllOnes(w) == 2^(ByteBits * ByteCount(w)) - 1

\* Mutant: the mask of the last byte is the mask of the whole width.
TailMasked_NotCut(v, w) == v

\* Clears what lies above the width in the last byte.
TailMasked(v, w) == IF w % ByteBits = 0 THEN v ELSE Mask(v, w)

DFlipFlop(q, in, w) ==
    IF in.rst = 1 THEN 0
    ELSE IF in.pre = 1 THEN TailMasked(AllOnes(w), w)
    ELSE IF in.rising /\ in.en = 1 THEN WriteWire(in.d, w) ELSE q

TFlipFlop(q, in, w) ==
    IF in.rising /\ in.t = 1 THEN TailMasked(AllOnes(w) - q, w) ELSE q

JKFlipFlop(q, in, w) ==
    CASE ~in.rising \/ (in.j = 0 /\ in.k = 0) -> q
      [] in.rising /\ in.j = 1 /\ in.k = 1    -> TailMasked(AllOnes(w) - q, w)
      [] in.rising /\ in.j = 1 /\ in.k = 0    -> TailMasked(AllOnes(w), w)
      [] in.rising /\ in.j = 0 /\ in.k = 1    -> 0

Register(q, in, w) ==
    IF in.rst = 1 THEN 0 ELSE IF in.rising /\ in.en = 1 THEN WriteWire(in.d, w) ELSE q

Latch(q, in, w) == IF in.en = 1 THEN WriteWire(in.d, w) ELSE q

ByteOf(v, i) == (v \div 2^(ByteBits * i)) % 2^ByteBits
FromBytes(b, n) ==
    MapThenFoldSet(+, 0, LAMBDA i : 2^(ByteBits * i) * b[i], LAMBDA S : CHOOSE i \in S : TRUE, 0..(n - 1))

\* Adds step, 1 or -1, byte by byte with a carry or a borrow.
Ripple(v, w, step) ==
    LET n == ByteCount(w)
        carry[i \in 0..n] ==
            IF i = 0 THEN 1 ELSE Bool(ByteOf(v, i - 1) + step * carry[i - 1] \notin 0..(2^ByteBits - 1))
    IN FromBytes([i \in 0..(n - 1) |-> (ByteOf(v, i) + step * carry[i]) % 2^ByteBits], n)

Counter(q, in, w) ==
    IF in.clr = 1 THEN 0
    ELSE IF ~(in.rising /\ in.en = 1) THEN q
    ELSE IF in.load = 1 THEN WriteWire(in.din, w)
    ELSE TailMasked(Ripple(q, w, IF in.updown = 1 THEN -1 ELSE 1), w)

ShiftRegister(q, in, len) ==
    IF in.clr = 1 THEN 0
    ELSE IF ~in.rising THEN q
    ELSE IF in.dir = 1 THEN Mask(q \div 2 + in.sin * 2^(len - 1), len)
    ELSE Mask(2 * q + in.sin, len)

\* A clock of one high and one low tick is kept in one bit, others count.
ClockGen(s, high, low) ==
    IF high = 1 /\ low = 1 THEN [s EXCEPT !.clk = 1 - s.clk]
    ELSE [cnt |-> IF s.cnt + 1 >= high + low THEN 0 ELSE s.cnt + 1, clk |-> Bool(s.cnt < high)]

EdgeDetect(s, in, kind) ==
    IF ~in.rising THEN s
    ELSE [prev |-> in.d,
          out  |-> Bool(CASE kind = "rise" -> in.d = 1 /\ s.prev = 0
                          [] kind = "fall" -> in.d = 0 /\ s.prev = 1
                          [] kind = "both" -> in.d # s.prev)]

\* It finds the edges of its clock itself, from the level.
ClockDivider(s, clk, divisor) ==
    LET counter == IF clk = 1 /\ s.prev = 0 THEN (s.counter + 1) % divisor ELSE s.counter
    IN [prev |-> clk, counter |-> counter, out |-> Bool(counter < divisor \div 2)]

-----------------------------------------------------------------------------
(* DelayLine.cpp, RingCounter.cpp, Debounce.cpp, Sync2FF.cpp               *)

\* Mutant: the new value is written before the old one is put out.
DelayLine_WriteFirst(s, in, depth, useClock) ==
    IF useClock /\ ~in.rising THEN s
    ELSE [slots |-> [s.slots EXCEPT ![s.pos] = in.d],
          pos   |-> (s.pos + 1) % depth,
          out   |-> in.d]

DelayLine(s, in, depth, useClock) ==
    IF useClock /\ ~in.rising THEN s
    ELSE [slots |-> [s.slots EXCEPT ![s.pos] = in.d],
          pos   |-> IF s.pos + 1 >= depth THEN 0 ELSE s.pos + 1,
          out   |-> s.slots[s.pos]]

\* in.rst acts at once; johnson (0 or 1) inverts what is fed back.
RingCounter(q, in, len, johnson) ==
    IF in.rst = 1 THEN 1 - johnson
    ELSE IF in.rising /\ in.en = 1
    THEN Mask(2 * q + ((BitOf(q, len - 1) + johnson) % 2), len) ELSE q

\* Mutant: a bounce back to the stable value does not restart the count.
Debounce_KeepsCount(s, in, w, stableTicks) ==
    LET v == Mask(in.d, w)
    IN IF ~in.rising \/ v = s.stable THEN s
       ELSE IF s.cnt + 1 >= stableTicks THEN [stable |-> v, cnt |-> 0]
       ELSE [s EXCEPT !.cnt = s.cnt + 1]

Debounce(s, in, w, stableTicks) ==
    LET v == Mask(in.d, w)
    IN IF ~in.rising THEN s
       ELSE IF v = s.stable THEN [s EXCEPT !.cnt = 0]
       ELSE IF s.cnt + 1 >= stableTicks THEN [stable |-> v, cnt |-> 0]
       ELSE [s EXCEPT !.cnt = s.cnt + 1]

Sync2FF(s, in, w) == IF in.rising THEN [s1 |-> Mask(in.d, w), s2 |-> s.s1] ELSE s

-----------------------------------------------------------------------------
(* FIFO.cpp, RegFile.cpp, Memory.cpp, MultiPortRAM.cpp, ROM.cpp            *)

\* Within one edge the read comes first, so a full FIFO read and written at
\* once accepts the word; a reset clears the pointers at once.
SyncFifo(s, in, depth) ==
    LET pop  == in.re = 1 /\ s.count > 0
        left == s.count - Bool(pop)
        push == in.we = 1 /\ left < depth
    IN IF in.rst = 1 THEN [s EXCEPT !.wr = 0, !.rd = 0, !.count = 0]
       ELSE IF ~in.rising THEN s
       ELSE [mem   |-> IF push THEN [s.mem EXCEPT ![s.wr] = in.din] ELSE s.mem,
             wr    |-> (s.wr + Bool(push)) % depth,
             rd    |-> (s.rd + Bool(pop)) % depth,
             count |-> left + Bool(push)]

\* First-word fall-through: the output is the word at the read pointer.
FifoOut(s, depth) ==
    [dout |-> s.mem[s.rd], full |-> Bool(s.count >= depth), empty |-> Bool(s.count = 0)]

RegRead(regs, a) == IF a \in DOMAIN regs THEN regs[a] ELSE 0

\* writes: the write ports in order, a later one overwrites an earlier one.
RegWrite(regs, in, w) ==
    LET port(r, p) == IF p.we = 1 /\ p.addr \in DOMAIN r THEN [r EXCEPT ![p.addr] = Mask(p.data, w)] ELSE r
    IN IF in.rising THEN FoldLeft(port, regs, in.writes) ELSE regs

\* Byte addresses, not aligned; what would cross the end reads 0 and is not
\* written.
ReadAt(mem, a, n, size) ==
    IF a + n <= size THEN FromBytes([i \in 0..(n - 1) |-> mem[a + i]], n) ELSE 0
WriteAt(mem, a, d, n, size) ==
    IF a + n <= size THEN [i \in DOMAIN mem |-> IF i \in a..(a + n - 1) THEN ByteOf(d, i - a) ELSE mem[i]]
                     ELSE mem

Shifted(pipe, x) == [i \in DOMAIN pipe |-> IF i = 0 THEN x ELSE pipe[i - 1]]

\* ra: the read addresses, wr: the writes, each a pipeline with one stage more
\* than its latency.  The read sees the memory before this tick's write; a
\* write is sampled, the last stage committed, then all are shifted, which
\* leaves the sampled one in stage 0 as well until the next tick.
Memory(s, in, n, rl, wl) ==
    LET size  == Cardinality(DOMAIN s.mem)
        ra    == Shifted(s.ra, in.addr)
        takes == in.rising /\ in.we = 1
        new   == IF takes THEN [addr |-> in.addr, data |-> in.data, pend |-> 1]
                          ELSE [s.wr[0] EXCEPT !.pend = 0]
        last  == s.wr[wl]
    IN [ra   |-> ra,
        dout |-> ReadAt(s.mem, ra[rl], n, size),
        mem  |-> IF wl = 0
                 THEN IF takes THEN WriteAt(s.mem, in.addr, in.data, n, size) ELSE s.mem
                 ELSE IF last.pend = 1 THEN WriteAt(s.mem, last.addr, last.data, n, size) ELSE s.mem,
        wr   |-> IF wl = 0 THEN s.wr
                 ELSE [i \in 0..wl |-> IF i \in {0, 1} THEN new ELSE s.wr[i - 1]]]
MemoryBusy(s) == Bool(\E i \in DOMAIN s.wr : s.wr[i].pend = 1)

\* Mutant: the writes come before the reads.
MultiPortRAM_WriteFirst(s, in, n, rl) ==
    LET size == Cardinality(DOMAIN s.mem)
        port(m, p) == IF p.we = 1 THEN WriteAt(m, p.addr, p.data, n, size) ELSE m
        mem  == IF in.rising THEN FoldLeft(port, s.mem, in.writes) ELSE s.mem
    IN [dout  |-> ReadAt(mem, IF rl = 0 THEN in.addr ELSE s.ra[rl - 1], n, size),
        valid |-> Bool(s.tick >= rl),
        mem   |-> mem,
        ra    |-> IF rl = 0 THEN s.ra ELSE Shifted(s.ra, in.addr),
        tick  |-> IF s.tick < rl THEN s.tick + 1 ELSE s.tick]

\* The outputs first, from the last stage, then the write ports in order, then
\* the pipeline of read addresses; tick stops counting once it is full.
MultiPortRAM(s, in, n, rl) ==
    LET size == Cardinality(DOMAIN s.mem)
        port(m, p) == IF p.we = 1 THEN WriteAt(m, p.addr, p.data, n, size) ELSE m
    IN [dout  |-> ReadAt(s.mem, IF rl = 0 THEN in.addr ELSE s.ra[rl - 1], n, size),
        valid |-> Bool(s.tick >= rl),
        mem   |-> IF in.rising THEN FoldLeft(port, s.mem, in.writes) ELSE s.mem,
        ra    |-> IF rl = 0 THEN s.ra ELSE Shifted(s.ra, in.addr),
        tick  |-> IF s.tick < rl THEN s.tick + 1 ELSE s.tick]

\* No clock: the pipeline moves every tick.  A file may hold fewer than the
\* addressable bytes.
ROM(s, addr, n, rl) ==
    LET ra == Shifted(s.ra, addr)
    IN [s EXCEPT !.ra = ra, !.dout = ReadAt(s.mem, ra[rl], n, Cardinality(DOMAIN s.mem))]
=============================================================================
