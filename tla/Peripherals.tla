---------------------------- MODULE Peripherals ----------------------------
(***************************************************************************)
(* The serial devices, the timers and the bus adapters, each as a function *)
(* from its state and its pins to its state one rising clock edge later    *)
(* (between two edges the generated C returns at once; the CLINT, which    *)
(* looks at every tick, is the exception).  A device's outputs are fields  *)
(* of its state, under the names of the pins.                              *)
(***************************************************************************)
EXTENDS Wires, Integers, Sequences, SequencesExt, FiniteSetsExt

CONSTANTS
    DataBits,    \* bits of a serial byte; 8 in the code
    FifoDepth,   \* words of the UART's receive queue; 16 in the code
    RingCap,     \* slots of a feeder's ring, one of which stays free; 64 in UartIn, CAP in UartFeed
    PollEvery,   \* POLL_INTERVAL of UartIn
    LaneBits,    \* bits of a byte lane of a timer register
    Lanes,       \* byte lanes of a register; 4 in the code
    None         \* no value, distinct from every value

ASSUME SizeAssumption == /\ DataBits \in Nat \ {0, 1} /\ FifoDepth \in Nat \ {0} /\ RingCap \in Nat \ {0, 1}
                         /\ PollEvery \in Nat \ {0} /\ LaneBits \in Nat \ {0} /\ Lanes \in Nat \ {0}

Low(v, n) == v % 2^n
BitAt(v, i) == (v \div 2^i) % 2

(* A request as a slave sees it: Idle, or an operation held until the answer *)
(* was seen.  A slave acts on the first edge that shows the request.         *)
Idle == [op |-> None]
Rd(reg) == [op |-> "rd", reg |-> reg]
Wr(reg, v) == [op |-> "wr", reg |-> reg, v |-> v]
Active(bus) == bus.op # None
Rises(s, bus) == Active(bus) /\ ~s.prev

\* The read data is latched while the request stays and 0 without one.
Answered(s, bus, out) ==
    [s EXCEPT !.prev = Active(bus), !.ack = Bool(Active(bus)),
              !.dat = IF ~Active(bus) THEN 0 ELSE IF Rises(s, bus) THEN out ELSE @]

-----------------------------------------------------------------------------
(* The 8N1 line: UartIn.cpp, UartFeed.cpp, UartTerm.cpp                     *)

\* A start bit, the data bits lowest first, a stop bit.
LevelOf(busy, bit, byte) ==
    IF ~busy \/ bit > DataBits THEN 1 ELSE IF bit = 0 THEN 0 ELSE BitAt(byte, bit - 1)

\* Mutant: a byte that does not fit overwrites the newest one.
Pushed_Overwrites(ring, byte) == IF Len(ring) = RingCap - 1 THEN Append(Front(ring), byte) ELSE Append(ring, byte)

\* UartFeed.push answers false and UartIn.pushByte drops when the ring is full.
Pushed(ring, byte) == IF Len(ring) = RingCap - 1 THEN ring ELSE Append(ring, byte)

SenderInit == [busy |-> FALSE, bit |-> 0, cnt |-> 0, byte |-> 0, poll |-> 0, line |-> 1, ring |-> <<>>]

\* Puts out the level of the current bit, then counts.
Shifting(s, cpb) ==
    LET next == s.cnt + 1 >= cpb
        over == next /\ s.bit = DataBits + 1
    IN IF ~s.busy THEN [s EXCEPT !.line = 1]
       ELSE [s EXCEPT !.line = LevelOf(TRUE, s.bit, s.byte),
                      !.cnt  = IF next THEN 0 ELSE @ + 1,
                      !.bit  = IF next THEN @ + 1 ELSE @,
                      !.busy = ~over]

Loaded(s, byte) == [s EXCEPT !.busy = TRUE, !.bit = 0, !.cnt = 0, !.byte = byte]

UartFeed(s, cpb) ==
    Shifting(IF ~s.busy /\ s.ring # <<>> THEN [Loaded(s, Head(s.ring)) EXCEPT !.ring = Tail(@)] ELSE s, cpb)

\* typed: what the input source would answer now.  The ring goes first, and
\* the source is asked only every PollEvery edges of an idle line.
UartIn(s, typed, cpb) ==
    Shifting(IF s.busy THEN s
             ELSE IF s.ring # <<>> THEN [Loaded(s, Head(s.ring)) EXCEPT !.ring = Tail(@), !.poll = 0]
             ELSE IF s.poll + 1 < PollEvery THEN [s EXCEPT !.poll = @ + 1]
             ELSE IF typed = None THEN [s EXCEPT !.poll = 0]
             ELSE [Loaded(s, typed) EXCEPT !.poll = 0], cpb)

\* The receiver of UartTerm and UART: from a falling edge to the middle of the
\* start bit, then from middle to middle.
ReceiverInit == [active |-> FALSE, confirm |-> FALSE, bit |-> 0, cnt |-> 0, shift |-> 0, prev |-> 1]

Due(r, cpb) == r.active /\ r.cnt + 1 >= (IF r.confirm THEN cpb \div 2 ELSE cpb)
AtStop(r, cpb) == Due(r, cpb) /\ ~r.confirm /\ r.bit = DataBits

Receive(r, rx, cpb) ==
    IF ~r.active
    THEN IF r.prev = 1 /\ rx = 0
         THEN [ReceiverInit EXCEPT !.active = TRUE, !.confirm = TRUE, !.prev = rx]
         ELSE [r EXCEPT !.prev = rx]
    ELSE IF ~Due(r, cpb) THEN [r EXCEPT !.cnt = @ + 1, !.prev = rx]
    ELSE IF r.confirm THEN [r EXCEPT !.confirm = FALSE, !.active = (rx = 0), !.cnt = 0, !.prev = rx]
    ELSE [r EXCEPT !.cnt = 0, !.prev = rx,
                   !.active = r.bit < DataBits,
                   !.shift  = IF r.bit < DataBits THEN @ + rx * 2^r.bit ELSE @,
                   !.bit    = IF r.bit < DataBits THEN @ + 1 ELSE @]

UartTermInit == [r |-> ReceiverInit, data |-> 0, valid |-> 0, errors |-> 0]

UartTerm(s, rx, cpb) ==
    LET whole == AtStop(s.r, cpb) /\ rx = 1
    IN [r |-> Receive(s.r, rx, cpb),
        data   |-> IF whole THEN s.r.shift ELSE s.data,
        valid  |-> Bool(whole),
        errors |-> IF AtStop(s.r, cpb) /\ rx = 0 THEN 1 ELSE s.errors]    \* saturates

-----------------------------------------------------------------------------
(* UART.cpp                                                                *)

UartInit ==
    [busy |-> FALSE, bit |-> 0, cnt |-> 0, byte |-> 0, r |-> ReceiverInit, fifo |-> <<>>,
     oe |-> 0, fe |-> 0, thre |-> 1, ier |-> 0, dlab |-> FALSE, dll |-> 0, dlm |-> 0,
     prev |-> FALSE, dat |-> 0, ack |-> 0, tx |-> 1, irq |-> 0]

\* The transmitter counts first; the line shows the bit it has come to.
UartSending(s, cpb) ==
    LET next == s.cnt + 1 >= cpb
        over == next /\ s.bit = DataBits + 1
    IN IF ~s.busy THEN s
       ELSE [s EXCEPT !.cnt = IF next THEN 0 ELSE @ + 1, !.bit = IF next THEN @ + 1 ELSE @,
                      !.busy = ~over, !.thre = IF over THEN 1 ELSE @]

\* A byte without a stop bit is a framing error, one without room an overrun.
UartReceiving(s, rx, cpb) ==
    LET stop == AtStop(s.r, cpb)
    IN [s EXCEPT !.r = Receive(s.r, rx, cpb),
                 !.fifo = IF stop /\ rx = 1 /\ Len(@) < FifoDepth THEN Append(@, s.r.shift) ELSE @,
                 !.oe = IF stop /\ rx = 1 /\ Len(s.fifo) = FifoDepth THEN 1 ELSE @,
                 !.fe = IF stop /\ rx = 0 THEN 1 ELSE @]

RxPending(s) == s.fifo # <<>> /\ BitAt(s.ier, 0) = 1
TxPending(s) == s.thre = 1 /\ BitAt(s.ier, 1) = 1

UartReads(s, reg) ==
    CASE reg = "RBR" /\ s.dlab       -> s.dll
      [] reg = "RBR" /\ ~s.dlab      -> IF s.fifo = <<>> THEN 0 ELSE Head(s.fifo)
      [] reg = "IER"                 -> IF s.dlab THEN s.dlm ELSE s.ier
      [] reg = "IIR"                 -> IF RxPending(s) THEN 4 ELSE IF TxPending(s) THEN 2 ELSE 1
      [] reg = "LSR"                 -> Bool(s.fifo # <<>>) + 2 * s.oe + 8 * s.fe + (IF s.busy THEN 0 ELSE 96)

\* Mutant: reading IIR acknowledges the transmitter even when it reports a
\* received byte.
UartEffect_ClearsAlways(s, bus) ==
    CASE bus.reg = "RBR" /\ ~s.dlab /\ s.fifo # <<>> -> [s EXCEPT !.fifo = Tail(@)]
      [] bus.reg = "IIR"                             -> [s EXCEPT !.thre = 0]
      [] bus.reg = "LSR"                             -> [s EXCEPT !.oe = 0, !.fe = 0]
      [] OTHER                                       -> s

\* What a read changes: RBR takes the byte, IIR acknowledges the transmitter
\* when it is what it reports, LSR clears the error flags.
UartEffect(s, bus) ==
    CASE bus.reg = "RBR" /\ ~s.dlab /\ s.fifo # <<>>         -> [s EXCEPT !.fifo = Tail(@)]
      [] bus.reg = "IIR" /\ ~RxPending(s) /\ TxPending(s)    -> [s EXCEPT !.thre = 0]
      [] bus.reg = "LSR"                                     -> [s EXCEPT !.oe = 0, !.fe = 0]
      [] OTHER                                               -> s

\* There is one transmit register: a byte written while it is busy is dropped.
UartWrite(s, bus) ==
    CASE bus.reg = "RBR" /\ s.dlab             -> [s EXCEPT !.dll = bus.v]
      [] bus.reg = "RBR" /\ ~s.dlab /\ ~s.busy ->
             [s EXCEPT !.busy = TRUE, !.bit = 0, !.cnt = 0, !.byte = Low(bus.v, DataBits), !.thre = 0]
      [] bus.reg = "IER" /\ s.dlab             -> [s EXCEPT !.dlm = bus.v]
      [] bus.reg = "IER" /\ ~s.dlab            -> [s EXCEPT !.ier = Low(bus.v, 4)]
      [] bus.reg = "LCR"                       -> [s EXCEPT !.dlab = bus.v >= 128]
      [] OTHER                                 -> s

\* Mutant: the fast path does not look at the receive line.
UartIdle_Deaf(s, rx, bus) == ~Active(bus) /\ ~s.prev /\ ~s.busy /\ ~s.r.active

\* The fast path: an edge on which nothing can happen leaves the pins alone.
UartIdle(s, rx, bus) == ~Active(bus) /\ ~s.prev /\ ~s.busy /\ ~s.r.active /\ rx = s.r.prev

UART(s, rx, bus, cpb) ==
    LET moved == UartReceiving(UartSending(s, cpb), rx, cpb)
        rises == Rises(s, bus)
        after == IF ~rises THEN moved ELSE IF bus.op = "rd" THEN UartEffect(moved, bus) ELSE UartWrite(moved, bus)
        out   == IF rises /\ bus.op = "rd" THEN UartReads(moved, bus.reg) ELSE 0
    IN IF UartIdle(s, rx, bus) THEN s
       ELSE [Answered(after, bus, out) EXCEPT !.tx  = LevelOf(after.busy, after.bit, after.byte),
                                              !.irq = Bool(RxPending(after) \/ TxPending(after))]

-----------------------------------------------------------------------------
(* SPI.cpp: mode 0, highest bit first                                      *)

SpiInit(clkdiv) ==
    [busy |-> FALSE, div |-> 0, bits |-> 0, tx |-> 0, rx |-> 0, rxdata |-> 0, done |-> 0, clkdiv |-> clkdiv,
     prev |-> FALSE, dat |-> 0, ack |-> 0, sclk |-> 0, mosi |-> 0, cs |-> 1]

\* Mutant: the input is sampled on the falling edge.
SpiBit_SamplesLate(s, miso) ==
    IF s.sclk = 0 THEN [s EXCEPT !.sclk = 1]
    ELSE LET rx == Low(2 * s.rx + miso, DataBits)
         IN IF s.bits > 1 THEN [s EXCEPT !.sclk = 0, !.bits = @ - 1, !.rx = rx]
            ELSE [s EXCEPT !.sclk = 0, !.bits = 0, !.rx = rx, !.busy = FALSE, !.done = 1, !.rxdata = s.rx]

\* One turn of sclk: a rise samples, a fall moves on to the next bit.
SpiBit(s, miso) ==
    IF s.sclk = 0 THEN [s EXCEPT !.sclk = 1, !.rx = 2 * @ + miso]
    ELSE IF s.bits > 1 THEN [s EXCEPT !.sclk = 0, !.bits = @ - 1]
    ELSE [s EXCEPT !.sclk = 0, !.bits = 0, !.busy = FALSE, !.done = 1, !.rxdata = Low(s.rx, DataBits)]

SpiReads(s, reg) ==
    CASE reg = "RXDATA" -> s.rxdata
      [] reg = "STATUS" -> Bool(s.busy) + 2 * s.done
      [] OTHER          -> 0

\* A transfer under way lets neither its byte nor its clock be changed.
SpiWrite(s, bus) ==
    CASE s.busy                                -> s
      [] ~s.busy /\ bus.reg = "TXDATA"         -> [s EXCEPT !.tx = Low(bus.v, DataBits)]
      [] ~s.busy /\ bus.reg = "CLKDIV"         -> [s EXCEPT !.clkdiv = IF bus.v = 0 THEN @ ELSE bus.v]
      [] ~s.busy /\ bus.reg = "CONTROL"        ->
             IF BitAt(bus.v, 0) = 0 THEN s
             ELSE [s EXCEPT !.busy = TRUE, !.done = 0, !.bits = DataBits, !.rx = 0, !.div = 0, !.sclk = 0]

SPI(s, miso, bus) ==
    LET moved == IF ~s.busy THEN s
                 ELSE IF s.div + 1 < s.clkdiv THEN [s EXCEPT !.div = @ + 1]
                 ELSE SpiBit([s EXCEPT !.div = 0], miso)
        after == IF ~Rises(s, bus) THEN moved
                 ELSE IF bus.op = "wr" THEN SpiWrite(moved, bus)
                 ELSE IF bus.reg = "RXDATA" THEN [moved EXCEPT !.done = 0] ELSE moved
        out   == IF Rises(s, bus) /\ bus.op = "rd" THEN SpiReads(moved, bus.reg) ELSE 0
    IN [Answered(after, bus, out) EXCEPT
           !.mosi = IF after.busy THEN BitAt(after.tx, after.bits - 1) ELSE 0,
           !.cs   = Bool(~after.busy)]

-----------------------------------------------------------------------------
(* I2C.cpp.  The phases: idle, start, addr (the address bits), addrAck,     *)
(* data, dataAck, stopLow (SDA held low, SCL low), stop (SCL high), done.   *)

I2cInit(clkdiv) ==
    [phase |-> "idle", div |-> 0, shift |-> 0, tx |-> 0, addr |-> 0, idx |-> 0, clkdiv |-> clkdiv,
     nack |-> 0, done |-> 0, sampled |-> FALSE, value |-> 0,
     prev |-> FALSE, dat |-> 0, ack |-> 0, scl |-> 1, low |-> 0]

Resting(s) == s.phase \in {"idle", "done"}
SdaFor(byte, k) == 1 - BitAt(byte, DataBits - 1 - k)    \* 1 pulls the line low

\* The line is sampled once in the second half of an SCL high.
I2cSample(s, sda) ==
    IF s.scl = 1 /\ ~s.sampled /\ s.phase \in {"addrAck", "dataAck"} /\ s.div >= s.clkdiv \div 2
    THEN [s EXCEPT !.value = sda, !.sampled = TRUE] ELSE s

I2cRise(s) ==
    CASE s.phase = "stopLow"               -> [s EXCEPT !.scl = 1, !.phase = "stop"]
      [] s.phase \in {"addrAck", "dataAck"} -> [s EXCEPT !.scl = 1, !.low = 0, !.sampled = FALSE]
      [] OTHER                             -> [s EXCEPT !.scl = 1]

\* Bit number idx goes out; after the last one comes the acknowledge phase.
NextBit(s, then) ==
    [s EXCEPT !.scl = 0, !.low = SdaFor(s.shift, s.idx), !.idx = @ + 1,
              !.phase = IF s.idx + 1 >= DataBits THEN then ELSE @]
FirstBit(s, byte, phase) ==
    [s EXCEPT !.scl = 0, !.phase = phase, !.shift = byte, !.low = SdaFor(byte, 0), !.idx = 1]


I2cFall(s) ==
    CASE s.phase = "start"   -> FirstBit(s, 2 * Low(s.addr, DataBits - 1), "addr")
      [] s.phase = "addr"    -> NextBit(s, "addrAck")
      [] s.phase = "addrAck" -> IF s.value = 1 THEN [s EXCEPT !.scl = 0, !.nack = 1, !.low = 1, !.phase = "stopLow"]
                                ELSE FirstBit(s, s.tx, "data")
      [] s.phase = "data"    -> NextBit(s, "dataAck")
      [] s.phase = "dataAck" -> [s EXCEPT !.scl = 0, !.nack = IF s.value = 1 THEN 1 ELSE @, !.low = 1, !.phase = "stopLow"]

\* A half period of SCL is over.
I2cHalf(s) ==
    CASE s.phase = "stop"                -> [s EXCEPT !.low = 0, !.phase = "done", !.done = 1]
      [] s.phase # "stop" /\ s.scl = 0   -> I2cRise(s)
      [] s.phase # "stop" /\ s.scl = 1   -> I2cFall(s)

I2cReads(s, reg) ==
    CASE reg = "STATUS" -> Bool(~Resting(s)) + 2 * s.done + 4 * s.nack
      [] reg = "ADDR"   -> s.addr
      [] OTHER          -> 0

\* The byte can be written in the idle phase, which no transaction returns to;
\* a new transaction can start from the done phase.
I2cWrite(s, bus) ==
    CASE bus.reg = "TXDATA"  -> IF s.phase = "idle" THEN [s EXCEPT !.tx = Low(bus.v, DataBits)] ELSE s
      [] bus.reg = "ADDR"    -> [s EXCEPT !.addr = Low(bus.v, DataBits - 1)]
      [] bus.reg = "CLKDIV"  -> IF Resting(s) /\ bus.v # 0 THEN [s EXCEPT !.clkdiv = bus.v] ELSE s
      [] bus.reg = "CONTROL" -> IF Resting(s) /\ BitAt(bus.v, 0) = 1
                                THEN [s EXCEPT !.phase = "start", !.nack = 0, !.done = 0, !.div = 0, !.scl = 1, !.low = 1]
                                ELSE s

I2C(s, sda, bus) ==
    LET seen  == I2cSample(s, sda)
        moved == IF Resting(s) THEN seen
                 ELSE IF s.div + 1 < s.clkdiv THEN [seen EXCEPT !.div = @ + 1]
                 ELSE I2cHalf([seen EXCEPT !.div = 0])
        after == IF Rises(s, bus) /\ bus.op = "wr" THEN I2cWrite(moved, bus) ELSE moved
        out   == IF Rises(s, bus) /\ bus.op = "rd" THEN I2cReads(moved, bus.reg) ELSE 0
    IN Answered(after, bus, out)

-----------------------------------------------------------------------------
(* Timer registers: words of Lanes byte lanes, time in two words            *)

HalfBits == LaneBits * Lanes
Half == 2^HalfBits
Lo(t) == t % Half
Hi(t) == t \div Half
Lane(v, i) == (v \div 2^(LaneBits * i)) % 2^LaneBits

\* The word with the selected lanes replaced.
Merged(old, v, sel) ==
    MapThenSumSet(LAMBDA i : 2^(LaneBits * i) * Lane(IF i \in sel THEN v ELSE old, i), 0..(Lanes - 1))

(* CLINT.cpp, one tick                                                      *)

ClintInit == [mtime |-> 0, cmp |-> Half * Half - 1, msip |-> 0, prev |-> FALSE, dat |-> 0, ack |-> 0, mti |-> 0, msi |-> 0]

ClintReads(s, reg) ==
    CASE reg = "msip"  -> s.msip
      [] reg = "cmp"   -> Lo(s.cmp)
      [] reg = "cmph"  -> Hi(s.cmp)
      [] reg = "time"  -> Lo(s.mtime)
      [] reg = "timeh" -> Hi(s.mtime)

\* Mutant: writing one half of the comparator clears the other.
ClintWrite_ClearsOther(s, bus) ==
    CASE bus.reg = "msip" -> [s EXCEPT !.msip = Merged(s.msip, bus.v, bus.sel)]
      [] bus.reg = "cmp"  -> [s EXCEPT !.cmp = Merged(Lo(s.cmp), bus.v, bus.sel)]
      [] bus.reg = "cmph" -> [s EXCEPT !.cmp = Half * Merged(Hi(s.cmp), bus.v, bus.sel)]
      [] OTHER            -> s

ClintWrite(s, bus) ==
    CASE bus.reg = "msip" -> [s EXCEPT !.msip = Merged(s.msip, bus.v, bus.sel)]
      [] bus.reg = "cmp"  -> [s EXCEPT !.cmp = Half * Hi(s.cmp) + Merged(Lo(s.cmp), bus.v, bus.sel)]
      [] bus.reg = "cmph" -> [s EXCEPT !.cmp = Half * Merged(Hi(s.cmp), bus.v, bus.sel) + Lo(s.cmp)]
      [] OTHER            -> s

\* A read is answered at every tick of the request, a write at its first only.
CLINT(s, rising, bus) ==
    LET timed == IF rising THEN [s EXCEPT !.mtime = (@ + 1) % (Half * Half)] ELSE s
        write == Rises(s, bus) /\ bus.op = "wr"
        read  == bus.op = "rd"
        after == IF write THEN ClintWrite(timed, bus) ELSE timed
    IN IF ~rising /\ ~Active(bus) /\ ~s.prev THEN s
       ELSE [after EXCEPT !.prev = Active(bus), !.ack = Bool(write \/ read),
                          !.dat = IF read THEN ClintReads(timed, bus.reg) ELSE 0,
                          !.mti = Bool(after.mtime >= after.cmp), !.msi = BitAt(after.msip, 0)]
-----------------------------------------------------------------------------
(* Devices behind a register interface: in.en, in.we, in.reg, in.v.  A write *)
(* counts on the first edge of in.en; what is read is what it left.          *)

Strobes(s, in) == in.en = 1 /\ in.we = 1 /\ ~s.prev
Served(s, in, out) == [s EXCEPT !.prev = in.en = 1, !.ready = in.en, !.rd = out]

(* Watchdog.cpp *)
WatchdogInit == [ctrl |-> 0, timeout |-> 0, cnt |-> 0, fired |-> 0, prev |-> FALSE, rd |-> 0, ready |-> 0, irq |-> 0]

WatchdogWrite(s, in) ==
    CASE in.reg = "CTRL" /\ Low(in.v, 1) = 1 -> [s EXCEPT !.ctrl = 1]
      [] in.reg = "CTRL" /\ Low(in.v, 1) = 0 -> [s EXCEPT !.ctrl = 0, !.cnt = 0, !.fired = 0]
      [] in.reg = "TIMEOUT"                  -> [s EXCEPT !.timeout = in.v]
      [] in.reg = "FEED"                     -> [s EXCEPT !.cnt = 0, !.fired = 0]
      [] OTHER                               -> s

\* Mutant: the count is compared before it is advanced.
WatchdogCount_Late(s) ==
    IF s.ctrl = 0 \/ s.fired = 1 \/ s.timeout = 0 THEN s
    ELSE [s EXCEPT !.cnt = @ + 1, !.fired = Bool(s.cnt >= s.timeout)]

WatchdogCount(s) ==
    IF s.ctrl = 0 \/ s.fired = 1 \/ s.timeout = 0 THEN s
    ELSE [s EXCEPT !.cnt = @ + 1, !.fired = Bool(s.cnt + 1 >= s.timeout)]

Watchdog(s, in) ==
    LET written == IF Strobes(s, in) THEN WatchdogWrite(s, in) ELSE s
        out     == CASE in.reg = "CTRL" -> written.ctrl [] in.reg = "TIMEOUT" -> written.timeout
                     [] in.reg = "STATUS" -> written.fired [] OTHER -> 0
        counted == WatchdogCount(written)
    IN [Served(counted, in, out) EXCEPT !.irq = counted.fired]

(* RTC.cpp: nspt nanoseconds an edge *)
RtcInit(base) == [now |-> base, alarm |-> 0, irqen |-> 0, prev |-> FALSE, rd |-> 0, ready |-> 0, irq |-> 0]

RtcWrite(s, in) ==
    CASE in.reg = "ALARM_LO" -> [s EXCEPT !.alarm = Half * Hi(@) + in.v]
      [] in.reg = "ALARM_HI" -> [s EXCEPT !.alarm = Half * in.v + Lo(@)]
      [] in.reg = "IRQ_EN"   -> [s EXCEPT !.irqen = Low(in.v, 1)]
      [] in.reg = "CLEAR"    -> [s EXCEPT !.irqen = 0, !.alarm = 0]
      [] OTHER               -> s

RTC(s, in, nspt) ==
    LET timed   == [s EXCEPT !.now = (@ + nspt) % (Half * Half)]
        written == IF Strobes(s, in) THEN RtcWrite(timed, in) ELSE timed
        out     == CASE in.reg = "TIME_LO" -> Lo(written.now)    [] in.reg = "TIME_HI"  -> Hi(written.now)
                     [] in.reg = "ALARM_LO" -> Lo(written.alarm) [] in.reg = "ALARM_HI" -> Hi(written.alarm)
                     [] in.reg = "IRQ_EN" -> written.irqen       [] OTHER -> 0
    IN [Served(written, in, out) EXCEPT !.irq = Bool(written.irqen = 1 /\ written.now >= written.alarm)]

(* Pwm.cpp *)
PwmInit == [period |-> 0, duty |-> 0, ctrl |-> 0, cnt |-> 0, prev |-> FALSE, rd |-> 0, ready |-> 0, pwm |-> 0]

PwmWrite(s, in) ==
    CASE in.reg = "PERIOD" -> [s EXCEPT !.period = in.v]
      [] in.reg = "DUTY"   -> [s EXCEPT !.duty = in.v]
      [] in.reg = "CTRL"   -> [s EXCEPT !.ctrl = Low(in.v, 1)]
      [] OTHER             -> s

Pwm(s, in) ==
    LET written == IF Strobes(s, in) THEN PwmWrite(s, in) ELSE s
        out     == CASE in.reg = "PERIOD" -> written.period [] in.reg = "DUTY" -> written.duty
                     [] in.reg = "CTRL" -> written.ctrl [] OTHER -> 0
        runs    == written.ctrl = 1 /\ written.period # 0
        cnt     == IF ~runs \/ written.cnt + 1 >= written.period THEN 0 ELSE written.cnt + 1
    IN [Served(written, in, out) EXCEPT !.cnt = cnt, !.pwm = Bool(runs /\ cnt < written.duty)]

(* Gpio.cpp: only the bits whose direction is 1 are driven, one bit a pin.  *)
GpioInit == [dir |-> {}, out |-> {}, prev |-> FALSE, rd |-> {}, ready |-> 0, gout |-> {}]

Gpio(s, in, pins) ==
    LET written == IF ~Strobes(s, in) THEN s
                   ELSE CASE in.reg = "DIR" -> [s EXCEPT !.dir = in.v] [] in.reg = "OUT" -> [s EXCEPT !.out = in.v]
                          [] OTHER -> s
        out     == CASE in.reg = "DIR" -> written.dir [] in.reg = "OUT" -> written.out
                     [] in.reg = "IN" -> pins [] OTHER -> {}
    IN [Served(written, in, out) EXCEPT !.gout = written.out \cap written.dir]

-----------------------------------------------------------------------------
(* WallClock.cpp: a date from the number of days since 1970-01-01           *)

\* Mutant: every fourth year of the era is a leap year.
YearOfEra_Julian(doe) == (4 * doe) \div 1461

YearOfEra(doe) == (doe - doe \div 1460 + doe \div 36524 - doe \div 146096) \div 365

\* The year begins on the first of March here.
CivilDate(days) ==
    LET z   == days + 719468
        doe == z % 146097
        yoe == YearOfEra(doe)
        doy == doe - (365 * yoe + yoe \div 4 - yoe \div 100)
        mp  == (5 * doy + 2) \div 153
        m   == IF mp < 10 THEN mp + 3 ELSE mp - 9
    IN [y  |-> yoe + 400 * (z \div 146097) + Bool(m <= 2), mo |-> m,
        d  |-> doy - (153 * mp + 2) \div 5 + 1, wd |-> (days + 4) % 7]

TimeOfDay(rem) == [h |-> rem \div 3600, mi |-> (rem \div 60) % 60, s |-> rem % 60]

-----------------------------------------------------------------------------
(* RegBridge.cpp: one Wishbone request becomes one pulse of en               *)

BridgeInit == [busy |-> FALSE, ack |-> 0, ready |-> 0, dat |-> 0, reg |-> None, we |-> 0, v |-> 0, en |-> 0]

\* The data counts on the first edge of ready.
Taking(s, in) == in.ready = 1 /\ s.ready = 0 /\ s.ack = 0

RegBridge(s, bus, in) ==
    CASE ~s.busy /\ ~Active(bus) -> [s EXCEPT !.en = 0]
      [] ~s.busy /\ Active(bus)  ->
             [s EXCEPT !.busy = TRUE, !.ack = 0, !.ready = 0, !.en = 1,
                       !.reg = bus.reg, !.we = Bool(bus.op = "wr"), !.v = IF bus.op = "wr" THEN bus.v ELSE 0]
      [] s.busy /\ Active(bus)   ->
             [s EXCEPT !.en = 0, !.ready = in.ready,
                       !.dat = IF Taking(s, in) THEN in.rd ELSE @, !.ack = IF Taking(s, in) THEN 1 ELSE @]
      [] s.busy /\ ~Active(bus)  ->
             [s EXCEPT !.en = 0, !.ready = 0, !.busy = FALSE, !.ack = 0,
                       !.dat = IF Taking(s, in) THEN in.rd ELSE @]

-----------------------------------------------------------------------------
(* AxiLiteBridge.cpp.  in: awvalid, awaddr, wvalid, wdata, bready, arvalid,  *)
(* araddr, rready of the AXI side, ack and dat of the Wishbone side; a       *)
(* transfer's strobes go with its data.                                      *)

AxiInit ==
    [st |-> "idle", aw |-> None, w |-> None, adr |-> None, wdat |-> None, we |-> 0, stb |-> 0,
     awready |-> 0, wready |-> 0, arready |-> 0, bvalid |-> 0, rvalid |-> 0, rdata |-> None]

\* Mutant: the data is taken in every state.
Accepts_Always(s, valid, slot) == valid = 1 /\ slot = None

Accepts(s, valid, slot) == valid = 1 /\ slot = None /\ s.st = "idle"

AxiLiteBridge(s, in) ==
    LET takesA == Accepts(s, in.awvalid, s.aw)
        takesW == Accepts(s, in.wvalid, s.w)
        t == [s EXCEPT !.aw = IF takesA THEN in.awaddr ELSE @, !.w = IF takesW THEN in.wdata ELSE @,
                       !.awready = Bool(takesA), !.wready = Bool(takesW), !.arready = 0]
    IN CASE t.st = "idle" /\ t.aw # None /\ t.w # None ->
              [t EXCEPT !.adr = t.aw, !.wdat = t.w, !.we = 1, !.stb = 1, !.st = "writing", !.aw = None, !.w = None]
         [] t.st = "idle" /\ ~(t.aw # None /\ t.w # None) /\ in.arvalid = 1 ->
              [t EXCEPT !.adr = in.araddr, !.we = 0, !.stb = 1, !.arready = 1, !.st = "reading"]
         [] t.st = "writing" /\ in.ack = 1 -> [t EXCEPT !.stb = 0, !.bvalid = 1, !.st = "written"]
         [] t.st = "written" /\ in.bready = 1 -> [t EXCEPT !.bvalid = 0, !.st = "idle"]
         [] t.st = "reading" /\ in.ack = 1 -> [t EXCEPT !.rdata = in.dat, !.stb = 0, !.rvalid = 1, !.st = "read"]
         [] t.st = "read" /\ in.rready = 1 -> [t EXCEPT !.rvalid = 0, !.st = "idle"]
         [] OTHER -> t

-----------------------------------------------------------------------------
(* WishboneROM.cpp, the adapter: wait is NoWait or the edges left            *)

NoWait == 0 - 1
RomAdapterInit == [prev |-> FALSE, wait |-> NoWait, adr |-> 0, ack |-> 0, dat |-> 0]

\* Mutant: the wait is the latency alone.
RomWait_Short(latency) == latency

RomWait(latency) == latency + 2

\* data: what the ROM's output shows.  A request withdrawn is forgotten.
RomAdapter(s, active, adr, data, latency) ==
    LET counted == IF s.wait > 0 THEN s.wait - 1 ELSE s.wait
        starts  == active /\ ~s.prev /\ counted < 0
        wait    == IF starts THEN RomWait(latency) ELSE counted
    IN [prev |-> active,
        adr  |-> IF starts THEN adr ELSE s.adr,
        dat  |-> IF wait = 0 THEN data ELSE s.dat,
        wait |-> IF active THEN wait ELSE NoWait,
        ack  |-> IF ~active \/ starts THEN 0 ELSE IF wait = 0 THEN 1 ELSE s.ack]

-----------------------------------------------------------------------------
(* DMA.cpp: addresses count words                                           *)

DmaInit == [src |-> 0, dst |-> 0, len |-> 0, remain |-> 0, val |-> None, busy |-> FALSE, done |-> 0, st |-> "idle",
            stb |-> 0, we |-> 0, adr |-> 0, mdat |-> None, prev |-> FALSE, dat |-> 0, ack |-> 0]

\* Mutant: the source can be moved under a running transfer.
DmaWrite_Unlocked(s, bus) ==
    CASE bus.reg = "SRC" -> [s EXCEPT !.src = bus.v]
      [] bus.reg = "DST" /\ ~s.busy -> [s EXCEPT !.dst = bus.v]
      [] bus.reg = "LEN" /\ ~s.busy -> [s EXCEPT !.len = bus.v]
      [] bus.reg = "CTRL" /\ ~s.busy /\ BitAt(bus.v, 0) = 1 /\ s.len # 0 ->
             [s EXCEPT !.remain = s.len, !.busy = TRUE, !.done = 0, !.st = "read"]
      [] OTHER -> s

DmaWrite(s, bus) ==
    CASE bus.reg = "SRC" /\ ~s.busy -> [s EXCEPT !.src = bus.v]
      [] bus.reg = "DST" /\ ~s.busy -> [s EXCEPT !.dst = bus.v]
      [] bus.reg = "LEN" /\ ~s.busy -> [s EXCEPT !.len = bus.v]
      [] bus.reg = "CTRL" /\ ~s.busy /\ BitAt(bus.v, 0) = 1 /\ s.len # 0 ->
             [s EXCEPT !.remain = s.len, !.busy = TRUE, !.done = 0, !.st = "read"]
      [] OTHER -> s

DmaReads(s, reg) ==
    CASE reg = "SRC" -> s.src [] reg = "DST" -> s.dst [] reg = "LEN" -> s.len
      [] reg = "STATUS" -> Bool(s.busy) + 2 * s.done [] OTHER -> 0

\* One word is read, then written; the request rests an edge between them.
DmaMove(s, mack, mdat) ==
    CASE s.st = "read"    -> [s EXCEPT !.adr = s.src, !.we = 0, !.stb = 1, !.st = "reading"]
      [] s.st = "write"   -> [s EXCEPT !.adr = s.dst, !.mdat = s.val, !.we = 1, !.stb = 1, !.st = "writing"]
      [] s.st = "reading" /\ mack = 1 -> [s EXCEPT !.val = mdat, !.stb = 0, !.st = "write"]
      [] s.st = "writing" /\ mack = 1 ->
             IF s.remain = 1
             THEN [s EXCEPT !.stb = 0, !.src = @ + 1, !.dst = @ + 1, !.remain = 0,
                            !.busy = FALSE, !.done = 1, !.st = "idle"]
             ELSE [s EXCEPT !.stb = 0, !.src = @ + 1, !.dst = @ + 1, !.remain = @ - 1, !.st = "read"]
      [] OTHER -> s

DMA(s, bus, mack, mdat) ==
    LET set == IF Rises(s, bus) /\ bus.op = "wr" THEN DmaWrite(s, bus) ELSE s
        out == IF Rises(s, bus) /\ bus.op = "rd" THEN DmaReads(s, bus.reg) ELSE 0
    IN Answered(DmaMove(set, mack, mdat), bus, out)
=============================================================================
