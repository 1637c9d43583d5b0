---------------------------- MODULE Sequencing -----------------------------
(***************************************************************************)
(* Test benches for the clocked components of Clocked.  One component, or  *)
(* a few that share their pins, is ticked with any inputs; expected keeps  *)
(* what went in, in the terms a designer thinks in: numbers, bits in a     *)
(* row, the last samples, a queue, the writes still on their way.          *)
(***************************************************************************)
EXTENDS Clocked, TLC

CONSTANTS
    Widths,      \* of counters and flip-flops
    Lengths,     \* of shift registers, ring counters, delay lines and queues
    Latencies    \* of memories, in ticks

VARIABLES
    bench,       \* [dev, p: its parameters, s: its state]
    expected     \* the record of the inputs the component should reflect

benchVars == <<bench, expected>>

Kinds == {"rise", "fall", "both"}
Zeros(n) == [i \in 1..n |-> 0]
Recorded(window, x) == <<x>> \o SubSeq(window, 1, Len(window) - 1)
Newest(window, n) == {window[i] : i \in 1..n}

-----------------------------------------------------------------------------
(* Counters, toggles, rings and clocks                                     *)

CountInit == \E w \in Widths :
    /\ bench = [dev |-> "count", p |-> [w |-> w], s |-> [q |-> 0]]
    /\ expected = [n |-> 0]

CountTick == bench.dev = "count" /\ LET w == bench.p.w IN
    \E in \in [rising : BOOLEAN, clr : Bit, en : Bit, load : Bit, updown : Bit, din : {1, 2^w - 1}] :
        /\ bench' = [bench EXCEPT !.s.q = Counter(bench.s.q, in, w)]
        /\ expected' = [n |-> IF in.clr = 1 THEN 0
                         ELSE IF ~(in.rising /\ in.en = 1) THEN expected.n
                         ELSE IF in.load = 1 THEN in.din ELSE expected.n + 1 - 2 * in.updown]
        /\ expected'.n \in -(2^(w + 1))..2^(w + 1)    \* bound on the exact count

\* A toggle in four forms (one a flip-flop fed with its own inverse), a ring
\* and a Johnson counter, all enabled by t and reset by rst.
ToggleInit == \E w \in Widths \ {1} :
    /\ bench = [dev |-> "toggle", p |-> [w |-> w],
                s |-> [tff |-> 0, jk |-> 0, dff |-> 0, reg |-> 0, pre |-> 0, ring |-> 1, john |-> 0]]
    /\ expected = [n |-> 0, sinceReset |-> 0, preset |-> FALSE]

ToggleTick == bench.dev = "toggle" /\ LET w == bench.p.w   s == bench.s IN
    \E rising \in BOOLEAN, t, rst, pre \in Bit :
        LET in(d) == [rising |-> rising, t |-> t, j |-> t, k |-> t, en |-> t, rst |-> rst, pre |-> pre, d |-> d]
            counts == rising /\ t = 1
        IN /\ bench' = [bench EXCEPT !.s =
                  [tff  |-> TFlipFlop(s.tff, in(0), w),
                   jk   |-> JKFlipFlop(s.jk, in(0), w),
                   dff  |-> DFlipFlop(s.dff, [in(UnaryGate(TRUE, s.dff, w)) EXCEPT !.pre = 0, !.rst = 0], w),
                   reg  |-> Register(s.reg, in(UnaryGate(TRUE, s.reg, w)), w),
                   pre  |-> DFlipFlop(s.pre, in(UnaryGate(TRUE, s.pre, w)), w),
                   ring |-> RingCounter(s.ring, in(0), w, 0),
                   john |-> RingCounter(s.john, in(0), w, 1)]]
           /\ expected' = [n |-> (expected.n + Bool(counts)) % 2,
                      sinceReset |-> IF rst = 1 THEN 0 ELSE (expected.sinceReset + Bool(counts)) % (2 * w),
                      preset |-> IF rst = 1 THEN FALSE ELSE IF pre = 1 THEN TRUE ELSE expected.preset /\ ~counts]

ClockInit == \E high, low \in {1, 2, 3}, divisor \in {2, 3, 4} :
    /\ bench = [dev |-> "clock", p |-> [high |-> high, low |-> low, divisor |-> divisor],
                s |-> [gen |-> [cnt |-> 0, clk |-> 0],
                       div |-> [prev |-> 0, counter |-> 0, out |-> 0]]]
    /\ expected = [tick |-> 0]    \* ticks so far, modulo the divider's period

ClockTick == bench.dev = "clock" /\
    LET p == bench.p
        gen == ClockGen(bench.s.gen, p.high, p.low)
    IN /\ bench' = [bench EXCEPT !.s = [gen |-> gen, div |-> ClockDivider(bench.s.div, gen.clk, p.divisor)]]
       /\ expected' = [tick |-> (expected.tick % ((p.high + p.low) * p.divisor)) + 1]

-----------------------------------------------------------------------------
(* Shift registers and samplers                                            *)

ShiftInit == \E len \in Lengths :
    /\ bench = [dev |-> "shift", p |-> [len |-> len], s |-> [q |-> 0]]
    /\ expected = [row |-> Zeros(len)]    \* the stages, row[1] is bit 0

ShiftTick == bench.dev = "shift" /\ LET len == bench.p.len IN
    \E in \in [rising : BOOLEAN, clr : Bit, dir : Bit, sin : Bit] :
        /\ bench' = [bench EXCEPT !.s.q = ShiftRegister(bench.s.q, in, len)]
        /\ expected' = [row |-> IF in.clr = 1 THEN Zeros(len)
                           ELSE IF ~in.rising THEN expected.row
                           ELSE IF in.dir = 1 THEN Append(Tail(expected.row), in.sin) ELSE Recorded(expected.row, in.sin)]

\* window: the input at the last edges, newest first; deb: the debounced value,
\* which gives way when all of the last p.n inputs differed from it.
SampleInit == \E w \in {1, 2}, n \in Lengths :
    /\ bench = [dev |-> "sample", p |-> [w |-> w, n |-> n],
                s |-> [sync |-> [s1 |-> 0, s2 |-> 0],
                       edge |-> [k \in Kinds |-> [prev |-> 0, out |-> 0]],
                       deb  |-> [stable |-> 0, cnt |-> 0],
                       line |-> [slots |-> [i \in 0..(n - 1) |-> 0], pos |-> 0, out |-> 0]]]
    /\ expected = [window |-> Zeros(n + 1), deb |-> 0]

SampleTick == bench.dev = "sample" /\ LET p == bench.p   s == bench.s IN
    \E rising \in BOOLEAN, d \in 0..(2^p.w - 1) :
        LET in == [rising |-> rising, d |-> d]
            window == IF rising THEN Recorded(expected.window, d) ELSE expected.window
        IN /\ bench' = [bench EXCEPT !.s =
                  [sync |-> Sync2FF(s.sync, in, p.w),
                   edge |-> [k \in Kinds |-> EdgeDetect(s.edge[k], in, k)],
                   deb  |-> Debounce(s.deb, in, p.w, p.n),
                   line |-> DelayLine(s.line, in, p.n, TRUE)]]
           /\ expected' = [window |-> window,
                      deb |-> IF rising /\ expected.deb \notin Newest(window, p.n) THEN d ELSE expected.deb]

\* Without a clock: window holds the input at the last ticks.
LevelInit == \E n \in Lengths :
    /\ bench = [dev |-> "level", p |-> [w |-> 2, n |-> n],
                s |-> [latch |-> 0, line |-> [slots |-> [i \in 0..(n - 1) |-> 0], pos |-> 0, out |-> 0]]]
    /\ expected = [window |-> Zeros(n + 1), latched |-> 0]

LevelTick == bench.dev = "level" /\ LET p == bench.p   s == bench.s IN
    \E en \in Bit, d \in 0..(2^p.w - 1) :
        LET in == [rising |-> FALSE, en |-> en, d |-> d]
        IN /\ bench' = [bench EXCEPT !.s = [latch |-> Latch(s.latch, in, p.w),
                                            line  |-> DelayLine(s.line, in, p.n, FALSE)]]
           /\ expected' = [window |-> Recorded(expected.window, d),
                      latched |-> IF en = 1 THEN d ELSE expected.latched]

-----------------------------------------------------------------------------
(* Queues and memories                                                     *)

Erased(n) == [i \in 0..(n - 1) |-> 0]
Data(n) == {1, 2^(ByteBits * n) - 2}
Port(size, n) == [we : Bit, addr : 0..(size - 1), data : Data(n)]

FifoInit == \E depth \in {2, 4} :
    /\ bench = [dev |-> "fifo", p |-> [depth |-> depth],
                s |-> [mem |-> Erased(depth), wr |-> 0, rd |-> 0, count |-> 0]]
    /\ expected = [queue |-> <<>>]

FifoTick == bench.dev = "fifo" /\ LET depth == bench.p.depth IN
    \E in \in [rising : BOOLEAN, rst : Bit, we : Bit, re : Bit, din : Data(1)] :
        LET popped == IF in.re = 1 /\ expected.queue # <<>> THEN Tail(expected.queue) ELSE expected.queue
        IN /\ bench' = [bench EXCEPT !.s = SyncFifo(bench.s, in, depth)]
           /\ expected' = [queue |-> IF in.rst = 1 THEN <<>>
                                ELSE IF ~in.rising THEN expected.queue
                                ELSE IF in.we = 1 /\ Len(popped) < depth THEN Append(popped, in.din) ELSE popped]

\* base: the memory with every write older than the latency; window: what
\* the pins were at the last ticks.
NoWrite == [takes |-> FALSE, addr |-> 0, data |-> 0]
Applied(mem, x, n) == IF x.takes THEN WriteAt(mem, x.addr, x.data, n, Cardinality(DOMAIN mem)) ELSE mem

MemoryInit == \E rl, wl \in Latencies, n \in {1, 2} :
    /\ bench = [dev |-> "memory", p |-> [rl |-> rl, wl |-> wl, n |-> n, size |-> 2],
                s |-> [mem |-> Erased(2), dout |-> 0, ra |-> [i \in 0..rl |-> 0],
                       wr |-> [i \in 0..wl |-> [addr |-> 0, data |-> 0, pend |-> 0]]]]
    /\ expected = [base |-> Erased(2), window |-> [i \in 1..(IF rl > wl THEN rl ELSE wl) + 1 |-> NoWrite]]

MemoryTick == bench.dev = "memory" /\ LET p == bench.p IN
    \E rising \in BOOLEAN, x \in Port(p.size, p.n) :
        LET in == [rising |-> rising] @@ x
            takes   == rising /\ x.we = 1
            request == [takes |-> takes, addr |-> x.addr, data |-> IF takes THEN x.data ELSE 0]
        IN /\ bench' = [bench EXCEPT !.s = Memory(bench.s, in, p.n, p.rl, p.wl)]
           /\ expected' = [base |-> Applied(expected.base, expected.window[p.wl + 1], p.n),
                      window |-> Recorded(expected.window, request)]

MultiPortInit == \E rl \in Latencies, n \in {1, 2} :
    /\ bench = [dev |-> "mpram", p |-> [rl |-> rl, n |-> n, size |-> 2],
                s |-> [mem |-> Erased(2), dout |-> 0, valid |-> 0, tick |-> 0, ra |-> [i \in 0..(rl - 1) |-> 0]]]
    /\ expected = [before |-> Erased(2), mem |-> Erased(2), window |-> <<>>]

MultiPortTick == bench.dev = "mpram" /\ LET p == bench.p IN
    \E rising \in BOOLEAN, x, y \in Port(p.size, p.n), a \in 0..(p.size - 1) :
        LET takes(z) == [takes |-> rising /\ z.we = 1, addr |-> z.addr, data |-> z.data]
        IN /\ bench' = [bench EXCEPT !.s =
                  MultiPortRAM(bench.s, [rising |-> rising, addr |-> a, writes |-> <<x, y>>], p.n, p.rl)]
           /\ expected' = [before |-> expected.mem,
                      mem |-> Applied(Applied(expected.mem, takes(x), p.n), takes(y), p.n),
                      window |-> IF Len(expected.window) <= p.rl THEN <<a>> \o expected.window ELSE Recorded(expected.window, a)]

\* wins: for each register the data of the last write it accepted.
RegFileInit == \E w \in {1, 2} :
    /\ bench = [dev |-> "regfile", p |-> [w |-> w], s |-> [regs |-> Erased(3)]]
    /\ expected = [wins |-> Erased(4)]

RegFileTick == bench.dev = "regfile" /\ LET p == bench.p IN
    \E rising \in BOOLEAN, x, y \in [we : Bit, addr : 0..3, data : 0..(2^p.w - 1)] :
        /\ bench' = [bench EXCEPT !.s.regs = RegWrite(bench.s.regs, [rising |-> rising, writes |-> <<x, y>>], p.w)]
        /\ expected' = [wins |-> [a \in 0..3 |->
              IF ~rising \/ a = 3 THEN expected.wins[a]
              ELSE IF y.we = 1 /\ y.addr = a THEN y.data
              ELSE IF x.we = 1 /\ x.addr = a THEN x.data ELSE expected.wins[a]]]

\* A file of size bytes behind addresses of two bits.
RomInit == \E rl \in Latencies, n \in {1, 2}, size \in 1..4 :
    /\ bench = [dev |-> "rom", p |-> [rl |-> rl, n |-> n],
                s |-> [mem |-> [i \in 0..(size - 1) |-> i % 2^ByteBits], dout |-> 0, ra |-> [i \in 0..rl |-> 0]]]
    /\ expected = [window |-> Zeros(rl + 1), ticked |-> FALSE]

RomTick == bench.dev = "rom" /\ \E a \in 0..3 :
    /\ bench' = [bench EXCEPT !.s = ROM(bench.s, a, bench.p.n, bench.p.rl)]
    /\ expected' = [window |-> Recorded(expected.window, a), ticked |-> TRUE]

-----------------------------------------------------------------------------
BenchInit ==
    \/ CountInit \/ ToggleInit \/ ClockInit \/ ShiftInit \/ SampleInit \/ LevelInit
    \/ FifoInit \/ MemoryInit \/ MultiPortInit \/ RegFileInit \/ RomInit
BenchNext ==
    \/ CountTick \/ ToggleTick \/ ClockTick \/ ShiftTick \/ SampleTick \/ LevelTick
    \/ FifoTick \/ MemoryTick \/ MultiPortTick \/ RegFileTick \/ RomTick

-----------------------------------------------------------------------------
Of(dev) == bench.dev = dev
S == bench.s
P == bench.p

\* Counters keep the exact number modulo 2^w through loads, borrows across
\* bytes and the last partial byte; the four toggles are one; the ring has its
\* bit where the enabled edges since the reset put it and the Johnson counter
\* is at that place of its cycle of twice its length; clocks are high for
\* exactly their share of each period, and a divider for half (rounded down) of
\* every `divisor` cycles of its clock: that is its whole period.
CountsAreExact ==
    /\ Of("count") => S.q = (expected.n % 2^P.w)
    /\ Of("toggle") =>
         /\ {S.tff, S.jk, S.dff} = {expected.n * (2^P.w - 1)}
         /\ S.reg \in {0, 2^P.w - 1} /\ S.pre \in {0, 2^P.w - 1}
         /\ expected.preset => S.pre = 2^P.w - 1
         /\ S.ring = 2^(expected.sinceReset % P.w)
         /\ \A i \in Bits(P.w) : BitOf(S.john, i) = Bool(i < expected.sinceReset /\ expected.sinceReset <= i + P.w)
    /\ Of("clock") /\ expected.tick > 0 =>
         LET period == P.high + P.low
             edges  == (expected.tick + period - 1) \div period
         IN /\ S.gen.clk = Bool((expected.tick - 1) % period < P.high)
            /\ S.div.out = Bool(edges % P.divisor < P.divisor \div 2)

\* A shift register holds the bits in the order they came, from either side;
\* a delay line gives the input of exactly depth edges (or ticks) ago; the
\* synchroniser the sample before the last; an edge detector the difference of
\* the last two samples; a latch what came while it was open.  A debouncer
\* takes the newest input when the last n of them differed from what it shows,
\* and not before: a value that stayed for n edges is never ignored, but of a
\* bus any n values it has moved through let the last of them out.
SamplesAreKept ==
    /\ Of("shift") => \A i \in Bits(P.len) : BitOf(S.q, i) = expected.row[i + 1] /\ S.q < 2^P.len
    /\ Of("sample") =>
         LET now == expected.window[1]   was == expected.window[2]
         IN /\ S.line.out = expected.window[P.n + 1]
            /\ S.sync.s2 = was
            /\ P.w = 1 => /\ S.edge["rise"].out - S.edge["fall"].out = now - was
                          /\ S.edge["rise"].out + S.edge["fall"].out = S.edge["both"].out
            /\ S.deb.stable = expected.deb
            /\ Newest(expected.window, P.n) = {now} => S.deb.stable = now
    /\ Of("level") => S.line.out = expected.window[P.n + 1] /\ S.latch = expected.latched

\* What a clocked component without a memory shows is what its inputs have been.
HistoryIsKept == CountsAreExact /\ SamplesAreKept

\* What was written is what is read, no sooner and no later than the latencies
\* say: the queue's head and flags are those of the words accepted and not yet
\* read; a memory's output is the memory at the address presented rl ticks
\* ago, before this tick's commit and with every write older than wl ticks,
\* and busy is up exactly while a write is on its way; of two ports the later
\* wins and a read in the same tick sees neither; rd_valid says that the
\* pipeline is full; a word across the end reads 0.
MemoriesRemember ==
    /\ Of("fifo") =>
         LET o == FifoOut(S, P.depth)
         IN /\ o.empty = Bool(expected.queue = <<>>) /\ o.full = Bool(Len(expected.queue) = P.depth)
            /\ expected.queue # <<>> => o.dout = Head(expected.queue)
            /\ \A i \in 1..Len(expected.queue) : S.mem[(S.rd + i - 1) % P.depth] = expected.queue[i]
    /\ Of("memory") =>
         /\ S.dout = ReadAt(expected.base, expected.window[P.rl + 1].addr, P.n, P.size)
         /\ S.mem = Applied(expected.base, expected.window[P.wl + 1], P.n)
         /\ MemoryBusy(S) = Bool(\E i \in 1..P.wl : expected.window[i].takes)
    /\ Of("mpram") /\ expected.window # <<>> =>
         /\ S.mem = expected.mem
         /\ S.valid = Bool(Len(expected.window) > P.rl)
         /\ S.valid = 1 => S.dout = ReadAt(expected.before, expected.window[P.rl + 1], P.n, P.size)
    /\ Of("regfile") => \A a \in 0..3 : RegRead(S.regs, a) = expected.wins[a]
    /\ Of("rom") /\ expected.ticked =>
         LET a == expected.window[P.rl + 1]   size == Cardinality(DOMAIN S.mem)
         IN S.dout = IF a + P.n > size THEN 0 ELSE FromBytes([i \in 0..(P.n - 1) |-> S.mem[a + i]], P.n)

\* What any clocked component shows is what went into it.
StateIsExact == HistoryIsKept /\ MemoriesRemember
=============================================================================
