---------------------------- MODULE DeviceBench ----------------------------
(***************************************************************************)
(* Test benches for the devices of Peripherals: a device with what stands   *)
(* at its pins (another device, a bus master, a memory, a wire), stepped a  *)
(* clock edge at a time.  ref records what a driver's author counts on.    *)
(* Of two devices in one tick the later one sees the other's new output:    *)
(* p.first says which way round the circuit was built.                      *)
(***************************************************************************)
EXTENDS Peripherals, TLC

CONSTANTS
    Serials,     \* [kind: "feed" or "in", cpb: clock cycles a bit, first: BOOLEAN]
    Bytes,       \* bytes sent on serial lines
    Clocks,      \* [high, low: the ticks of a clock period]
    Years        \* years the calendar is checked for

VARIABLES
    dut,         \* [dev, p: parameters, bus: the request held, s: the device, and what else there is]
    ref

dutVars == <<dut, ref>>

\* What a master may do next: hold a request it still has or take it back, or
\* start one.
Moves(prev, bus, requests) == IF prev THEN {bus, Idle} ELSE {Idle} \cup requests

-----------------------------------------------------------------------------
(* Serial lines: a feeder and the UART; the UART and a terminal.            *)

RxRequests == {Rd(r) : r \in {"RBR", "IIR", "LSR"}} \cup {Wr("IER", v) : v \in {0, 3}} \cup {Wr("LCR", v) : v \in {0, 128}}
TxRequests == {Rd("IIR")} \cup {Wr("RBR", v) : v \in Bytes} \cup {Wr("IER", v) : v \in {0, 2}}

\* sent: accepted by the feeder and not in the UART's queue yet; queue: what
\* the driver has still to read; told: the driver was told of the idle
\* transmitter; lost: bytes overran and the driver has not read LSR since.
RxInit == \E p \in Serials :
    /\ dut = [dev |-> "rx", p |-> p, bus |-> Idle, snd |-> SenderInit, s |-> UartInit]
    /\ ref = [sent |-> <<>>, queue |-> <<>>, told |-> FALSE, lost |-> FALSE]

RxPush == dut.dev = "rx" /\ \E b \in Bytes :
    /\ Len(dut.snd.ring) < RingCap
    /\ dut' = [dut EXCEPT !.snd.ring = Pushed(dut.snd.ring, b)]
    /\ ref' = [ref EXCEPT !.sent = IF Len(dut.snd.ring) < RingCap - 1 THEN Append(@, b) ELSE @]

RxEdge == dut.dev = "rx" /\ LET p == dut.p IN
    \E bus \in Moves(dut.s.prev, dut.bus, RxRequests), typed \in (IF p.kind = "in" THEN Bytes ELSE {}) \cup {None} :
        LET snd   == IF p.kind = "feed" THEN UartFeed(dut.snd, p.cpb) ELSE UartIn(dut.snd, typed, p.cpb)
            s     == UART(dut.s, IF p.first THEN snd.line ELSE dut.snd.line, bus, p.cpb)
            sent  == IF ~dut.snd.busy /\ snd.busy /\ dut.snd.ring = <<>> THEN Append(ref.sent, snd.byte) ELSE ref.sent
            came  == AtStop(dut.s.r, p.cpb)
            fits  == Len(ref.queue) < FifoDepth
            reads == Rises(dut.s, bus) /\ bus.op = "rd"
            taken == reads /\ bus.reg = "RBR" /\ ~dut.s.dlab
            queue == IF came /\ fits THEN Append(ref.queue, IF sent = <<>> THEN None ELSE Head(sent)) ELSE ref.queue
        IN /\ dut' = [dut EXCEPT !.bus = bus, !.snd = snd, !.s = s]
           /\ ref' = [sent  |-> IF came /\ sent # <<>> THEN Tail(sent) ELSE sent,
                      queue |-> IF taken /\ queue # <<>> THEN Tail(queue) ELSE queue,
                      told  |-> ref.told \/ (reads /\ bus.reg = "IIR" /\ s.dat = 2),
                      lost  |-> IF reads /\ bus.reg = "LSR" THEN FALSE ELSE ref.lost \/ (came /\ ~fits)]

\* sent: written to THR while it was empty and not at the terminal yet.
TxInit == \E p \in {q \in Serials : q.kind = "feed"} :
    /\ dut = [dev |-> "tx", p |-> p, bus |-> Idle, s |-> UartInit, term |-> UartTermInit]
    /\ ref = [sent |-> <<>>, last |-> 0, told |-> FALSE]

TxEdge == dut.dev = "tx" /\ LET p == dut.p IN
    \E bus \in Moves(dut.s.prev, dut.bus, TxRequests) :
        LET s     == UART(dut.s, 1, bus, p.cpb)
            term  == UartTerm(dut.term, IF p.first THEN s.tx ELSE dut.s.tx, p.cpb)
            wrote == Rises(dut.s, bus) /\ bus.op = "wr" /\ bus.reg = "RBR" /\ (~dut.s.busy \/ UartSending(dut.s, p.cpb).busy = FALSE)
            sent  == IF wrote THEN Append(ref.sent, bus.v) ELSE ref.sent
        IN /\ dut' = [dut EXCEPT !.bus = bus, !.s = s, !.term = term]
           /\ ref' = [sent |-> IF term.valid = 1 /\ sent # <<>> THEN Tail(sent) ELSE sent,
                      last |-> IF term.valid = 1 THEN (IF sent = <<>> THEN None ELSE Head(sent)) ELSE ref.last,
                      told |-> ~wrote /\ (ref.told \/ (Rises(dut.s, bus) /\ bus = Rd("IIR") /\ s.dat = 2))]

-----------------------------------------------------------------------------
(* SPI with a slave of mode 0; I2C with any line.                           *)

SpiRequests == {Wr("TXDATA", v) : v \in Bytes} \cup {Wr("CONTROL", 1), Rd("RXDATA"), Rd("STATUS")} \cup {Wr("CLKDIV", v) : v \in {1, 2}}

\* ref: the byte on its way, the slave's byte, what the slave has sampled and
\* how many of its own bits have gone by.
SpiBenchInit == \E clkdiv \in {1, 2} :
    /\ dut = [dev |-> "spi", p |-> [none |-> 0], bus |-> Idle, s |-> SpiInit(clkdiv)]
    /\ ref = [byte |-> 0, reply |-> 0, seen |-> <<>>, gone |-> 0, runs |-> FALSE]

SpiEdge == dut.dev = "spi" /\ \E bus \in Moves(dut.s.prev, dut.bus, SpiRequests), reply \in Bytes :
    LET miso  == IF ref.gone < DataBits THEN BitAt(ref.reply, DataBits - 1 - ref.gone) ELSE 0
        s     == SPI(dut.s, miso, bus)
        rises == dut.s.sclk = 0 /\ s.sclk = 1
        falls == dut.s.sclk = 1 /\ s.sclk = 0
        starts == Rises(dut.s, bus) /\ bus = Wr("CONTROL", 1) /\ s.busy /\ s.bits = DataBits /\ s.done = 0 /\ s.sclk = 0
    IN /\ reply # ref.reply => starts
       /\ dut' = [dut EXCEPT !.bus = bus, !.s = s]
       /\ ref' = IF starts THEN [byte |-> s.tx, reply |-> reply, seen |-> <<>>, gone |-> 0, runs |-> TRUE]
                 ELSE [ref EXCEPT !.seen = IF rises THEN Append(@, s.mosi) ELSE @, !.gone = IF falls THEN @ + 1 ELSE @]

I2cRequests == {Wr("TXDATA", v) : v \in Bytes} \cup {Wr("CONTROL", 1), Wr("ADDR", 2), Rd("STATUS")}

\* bits: the master's level of SDA at each rise of SCL since the start; moved:
\* SDA changed while SCL stayed high, other than to start or to stop; stopped:
\* SDA rose while SCL was high; naks:
\* an acknowledge was sampled high; want: the byte the driver wrote last with
\* no transaction under way; byte: what it was when this transaction started,
\* and first when the first one did.
I2cBenchInit == \E clkdiv \in {1, 2} :
    /\ dut = [dev |-> "i2c", p |-> [none |-> 0], bus |-> Idle, s |-> I2cInit(clkdiv)]
    /\ ref = [bits |-> <<>>, addr |-> 0, byte |-> 0, want |-> 0, first |-> 0, moved |-> FALSE, stopped |-> FALSE, naks |-> FALSE, ran |-> FALSE]

I2cEdge == dut.dev = "i2c" /\ \E bus \in Moves(dut.s.prev, dut.bus, I2cRequests), sda \in Bit :
    LET s      == I2C(dut.s, sda, bus)
        writes == Rises(dut.s, bus) /\ bus.op = "wr"
        want   == IF writes /\ bus.reg = "TXDATA" /\ Resting(dut.s) THEN bus.v ELSE ref.want
        starts == dut.s.phase # "start" /\ s.phase = "start"
    IN /\ dut.s.low = 1 => sda = 0
       /\ writes /\ bus.reg = "ADDR" => Resting(dut.s)
       /\ dut' = [dut EXCEPT !.bus = bus, !.s = s]
       /\ ref' = IF starts THEN [bits |-> <<>>, addr |-> s.addr, byte |-> want, want |-> want,
                                 first |-> IF ref.ran THEN ref.first ELSE want,
                                 moved |-> dut.s.scl = 0, stopped |-> FALSE, naks |-> FALSE, ran |-> TRUE]
                 ELSE [ref EXCEPT !.want  = want,
                                  !.bits  = IF dut.s.scl = 0 /\ s.scl = 1 THEN Append(@, 1 - s.low) ELSE @,
                                  !.moved = @ \/ (dut.s.scl = 1 /\ s.scl = 1 /\ s.low # dut.s.low /\ s.phase # "done"),
                                  !.stopped = @ \/ (dut.s.scl = 1 /\ s.scl = 1 /\ dut.s.low = 1 /\ s.low = 0),
                                  !.naks  = @ \/ (s.sampled /\ ~dut.s.sampled /\ s.value = 1)]

-----------------------------------------------------------------------------
(* Timers                                                                  *)

\* A tick.  The master acts on rising edges, where it sees the acknowledge as
\* the last tick left it; its request reaches the CLINT a tick later.
ClintRequests == {[Wr(r, v) EXCEPT !.op = "wr"] @@ [sel |-> l] : r \in {"cmp", "cmph"}, v \in {0, 1, Half - 2}, l \in SUBSET (0..(Lanes - 1)) \ {{}}}
                 \cup {Rd("time"), Rd("timeh"), Wr("msip", 1) @@ [sel |-> {0}]}

ClintBenchInit == \E p \in Clocks :
    /\ dut = [dev |-> "clint", p |-> p, bus |-> Idle, s |-> ClintInit, tick |-> 0]
    /\ ref = [edges |-> 0, cmp |-> <<Half - 1, Half - 1>>, waited |-> 0]

ClintTick == dut.dev = "clint" /\
    LET p      == dut.p
        rising == dut.tick = 0
    IN \E bus \in (IF ~rising THEN {dut.bus}
                   ELSE IF dut.bus = Idle THEN {Idle} \cup ClintRequests
                   ELSE IF dut.s.ack = 1 THEN {Idle} ELSE {dut.bus}) :
        LET s    == CLINT(dut.s, rising, dut.bus)
            half == IF bus.reg = "cmp" THEN 1 ELSE 2
        IN /\ dut' = [dut EXCEPT !.bus = bus, !.s = s, !.tick = (@ + 1) % (p.high + p.low)]
           /\ ref' = [edges  |-> (ref.edges + Bool(rising)) % (Half * Half),
                      cmp    |-> IF Rises(dut.s, dut.bus) /\ bus.op = "wr" /\ bus.reg \in {"cmp", "cmph"}
                                 THEN [ref.cmp EXCEPT ![half] = Merged(@, bus.v, bus.sel)] ELSE ref.cmp,
                      waited |-> IF bus = Idle THEN 0 ELSE IF rising /\ ref.waited < 4 THEN ref.waited + 1 ELSE ref.waited]

\* The register devices are written at any time.
Strobe(reg, v) == [en |-> 1, we |-> 1, reg |-> reg, v |-> v]
NoStrobe == [en |-> 0, we |-> 0, reg |-> "STATUS", v |-> 0]

\* n: edges counted since the last feed or start (up to the longest timeout).
WatchdogBenchInit ==
    /\ dut = [dev |-> "watchdog", p |-> [none |-> 0], bus |-> Idle, s |-> WatchdogInit]
    /\ ref = [n |-> 0, on |-> FALSE, fired |-> FALSE]

WatchdogEdge == dut.dev = "watchdog" /\
    \E in \in {NoStrobe, Strobe("CTRL", 0), Strobe("CTRL", 1), Strobe("FEED", 0)} \cup {Strobe("TIMEOUT", v) : v \in 0..3} :
        LET s      == Watchdog(dut.s, in)
            writes == Strobes(dut.s, in)
            clears == writes /\ (in.reg = "FEED" \/ (in.reg = "CTRL" /\ in.v = 0))
            on     == IF writes /\ in.reg = "CTRL" THEN in.v = 1 ELSE ref.on
            was    == ref.fired /\ ~clears
            n      == (IF clears THEN 0 ELSE ref.n) + Bool(on /\ ~was /\ s.timeout # 0)
        IN /\ dut' = [dut EXCEPT !.s = s]
           /\ ref' = [n |-> n, on |-> on, fired |-> was \/ (on /\ s.timeout # 0 /\ n >= s.timeout)]

RtcBenchInit == \E base \in {0, Half * Half - 3} :
    /\ dut = [dev |-> "rtc", p |-> [base |-> base], bus |-> Idle, s |-> RtcInit(base)]
    /\ ref = [edges |-> 0, alarm |-> <<0, 0>>, on |-> FALSE]

RtcEdge == dut.dev = "rtc" /\
    \E in \in {NoStrobe, Strobe("CLEAR", 0), Strobe("IRQ_EN", 1)} \cup {Strobe(r, v) : r \in {"ALARM_LO", "ALARM_HI"}, v \in {0, 1, Half - 1}} :
        LET w == Strobes(dut.s, in)
        IN /\ dut' = [dut EXCEPT !.s = RTC(dut.s, in, 3)]
           /\ ref' = [edges |-> (ref.edges + 1) % (Half * Half),
                      alarm |-> CASE w /\ in.reg = "CLEAR"    -> <<0, 0>>
                                  [] w /\ in.reg = "ALARM_LO" -> <<in.v, ref.alarm[2]>>
                                  [] w /\ in.reg = "ALARM_HI" -> <<ref.alarm[1], in.v>>
                                  [] OTHER                    -> ref.alarm,
                      on |-> IF w /\ in.reg \in {"CLEAR", "IRQ_EN"} THEN in.reg = "IRQ_EN" ELSE ref.on]

\* levels: the output since the last write.
PwmBenchInit ==
    /\ dut = [dev |-> "pwm", p |-> [none |-> 0], bus |-> Idle, s |-> PwmInit]
    /\ ref = [levels |-> <<>>]

PwmEdge == dut.dev = "pwm" /\
    \E in \in {NoStrobe, Strobe("CTRL", 0), Strobe("CTRL", 1)} \cup {Strobe("PERIOD", v) : v \in 0..3} \cup {Strobe("DUTY", v) : v \in 0..4} :
        LET s == Pwm(dut.s, in)
        IN /\ dut' = [dut EXCEPT !.s = s]
           /\ ref' = [levels |-> IF Strobes(dut.s, in) THEN <<s.pwm>>
                                 ELSE IF Len(ref.levels) < 6 THEN Append(ref.levels, s.pwm) ELSE Append(Tail(ref.levels), s.pwm)]

\* A year at a time; first is the number of its first day.
IsLeap(y) == (y % 4 = 0 /\ y % 100 # 0) \/ y % 400 = 0
DaysIn(y, m) == IF m = 2 THEN 28 + Bool(IsLeap(y)) ELSE IF m \in {4, 6, 9, 11} THEN 30 ELSE 31

CalendarInit == dut = [dev |-> "calendar", p |-> [none |-> 0], bus |-> Idle] /\ ref = [y |-> 1970, m |-> 1, first |-> 0]

CalendarMonth == dut.dev = "calendar" /\ ref.y \in Years /\ UNCHANGED dut
    /\ ref' = [y |-> ref.y + Bool(ref.m = 12), m |-> (ref.m % 12) + 1, first |-> ref.first + DaysIn(ref.y, ref.m)]

-----------------------------------------------------------------------------
(* Bus adapters                                                            *)

\* A master, RegBridge and a GPIO.  dir, out: what the driver wrote and had
\* acknowledged; got: the pins at the edge the device served a read.
BridgeRequests == {Wr(r, v) : r \in {"DIR", "OUT"}, v \in {{}, {1}, {1, 2}}} \cup {Rd("IN"), Rd("OUT")}

BridgeBenchInit == \E first \in BOOLEAN :
    /\ dut = [dev |-> "bridge", p |-> [first |-> first], bus |-> Idle, s |-> BridgeInit, gpio |-> GpioInit]
    /\ ref = [dir |-> {}, out |-> {}, got |-> {}, served |-> 0, pins |-> {}]

BridgeEdge == dut.dev = "bridge" /\
    \E bus \in IF ~Active(dut.bus) THEN IF dut.s.ack = 0 /\ ~dut.s.busy THEN {Idle} \cup BridgeRequests ELSE {Idle}
               ELSE IF dut.s.ack = 1 THEN {dut.bus, Idle} ELSE {dut.bus},
      pins \in {{}, {1}, {2}} :
        LET pulse(s) == [en |-> s.en, we |-> s.we, reg |-> s.reg, v |-> s.v]
            early == Gpio(dut.gpio, pulse(dut.s), pins)    \* the device runs first
            s     == RegBridge(dut.s, bus, IF dut.p.first THEN [ready |-> early.ready, rd |-> early.rd]
                                           ELSE [ready |-> dut.gpio.ready, rd |-> dut.gpio.rd])
            gpio  == IF dut.p.first THEN early ELSE Gpio(dut.gpio, pulse(s), pins)
        IN /\ dut' = [dut EXCEPT !.bus = bus, !.s = s, !.gpio = gpio]
           /\ ref' = [ref EXCEPT !.served = IF ~Active(bus) THEN 0 ELSE @ + gpio.ready,
                                 !.got    = IF gpio.ready = 1 THEN gpio.rd ELSE @,
                                 !.pins   = pins,
                                 !.dir    = IF bus.op = "wr" /\ bus.reg = "DIR" /\ s.ack = 1 THEN bus.v ELSE @,
                                 !.out    = IF bus.op = "wr" /\ bus.reg = "OUT" /\ s.ack = 1 THEN bus.v ELSE @]

\* An AXI master that keeps a valid up until it saw the ready, the bridge and
\* a memory that answers when it likes.  aw, w, ar: accepted and not done.
\* Writes go to one of two addresses, reads to either.
Words == {"v1", "v2"}
AxiBenchInit == \E first \in BOOLEAN :
    /\ dut = [dev |-> "axi", p |-> [first |-> first], bus |-> Idle, s |-> AxiInit,
              m |-> [aw |-> None, w |-> None, ar |-> None, ready |-> 0],
              mem |-> [a \in 0..1 |-> None], ack |-> 0]
    /\ ref = [aw |-> None, w |-> None, ar |-> None, wrote |-> 0]

Offer(was, ready, values) == IF was # None THEN IF ready = 1 THEN {None} ELSE {was} ELSE {None} \cup values

AxiEdge == dut.dev = "axi" /\ LET old == dut.m   was == dut.s IN
    \E aw \in Offer(old.aw, was.awready, {1}), w \in Offer(old.w, was.wready, Words), ar \in Offer(old.ar, was.arready, 0..1),
      ready \in Bit, answers \in {FALSE, was.stb = 1} :
        LET new == [aw |-> aw, w |-> w, ar |-> ar, ready |-> ready]    \* of whichever answer comes
            m   == IF dut.p.first THEN new ELSE old    \* what the bridge sees
            s   == AxiLiteBridge(was, [awvalid |-> Bool(m.aw # None), awaddr |-> m.aw, wvalid |-> Bool(m.w # None), wdata |-> m.w,
                                       arvalid |-> Bool(m.ar # None), araddr |-> m.ar, bready |-> m.ready, rready |-> m.ready,
                                       ack |-> dut.ack, dat |-> IF was.adr = None THEN None ELSE dut.mem[was.adr]])
            does == s.stb = 1 /\ was.stb = 1 /\ (dut.ack = 1 \/ answers)
            act  == does /\ dut.ack = 0 /\ s.we = 1
        IN /\ aw = None \/ ref.aw = None \/ aw = old.aw    \* one write at a time
           /\ ref.wrote = 1 => w = None \/ w = old.w
           /\ dut' = [dut EXCEPT !.s = s, !.m = new, !.ack = Bool(does),
                                 !.mem = IF act THEN [@ EXCEPT ![s.adr] = s.wdat] ELSE @]
           /\ ref' = [aw |-> IF s.awready = 1 THEN m.aw ELSE IF was.bvalid = 1 /\ s.bvalid = 0 THEN None ELSE ref.aw,
                      w  |-> IF s.wready = 1 THEN m.w ELSE IF was.bvalid = 1 /\ s.bvalid = 0 THEN None ELSE ref.w,
                      ar |-> IF s.arready = 1 THEN m.ar ELSE ref.ar,
                      wrote |-> IF was.bvalid = 1 /\ s.bvalid = 0 THEN 0 ELSE ref.wrote + Bool(act)]

\* The adapter and a ROM of the given latency, which answers its address with
\* the address; the ROM may run before or after the adapter in a tick.
RomBenchInit == \E latency \in 0..2, first \in BOOLEAN :
    /\ dut = [dev |-> "rom", p |-> [latency |-> latency, first |-> first], bus |-> Idle,
              s |-> RomAdapterInit, pipe |-> [i \in 0..latency |-> 0]]
    /\ ref = [asked |-> 0, waited |-> 0]

RomEdge == dut.dev = "rom" /\ LET p == dut.p IN
    \E bus \in IF Active(dut.bus) THEN {dut.bus, Idle} ELSE {Idle, Rd(1), Rd(2)} :
        LET steps(pipe, adr) == [i \in 0..p.latency |-> IF i = 0 THEN adr ELSE pipe[i - 1]]
            early == steps(dut.pipe, dut.s.adr)
            s     == RomAdapter(dut.s, Active(bus), IF Active(bus) THEN bus.reg ELSE 0,
                                (IF p.first THEN early ELSE dut.pipe)[p.latency], p.latency)
        IN /\ dut' = [dut EXCEPT !.bus = bus, !.s = s, !.pipe = IF p.first THEN early ELSE steps(@, s.adr)]
           /\ ref' = [asked  |-> IF Active(bus) THEN bus.reg ELSE 0,
                      waited |-> IF ~Active(bus) THEN 0 ELSE IF ref.waited > p.latency + 3 THEN ref.waited ELSE ref.waited + 1]

\* The driver writes at any time; the memory answers when it likes.
DmaRequests == {Wr("SRC", 0), Wr("SRC", 1), Wr("DST", 2), Wr("DST", 1), Wr("LEN", 2), Wr("LEN", 0), Wr("CTRL", 1), Rd("STATUS")}

DmaBenchInit ==
    /\ dut = [dev |-> "dma", p |-> [none |-> 0], bus |-> Idle, s |-> DmaInit, mem |-> <<"a", "b", "c", "d", "e", "f">>, mack |-> 0]
    /\ ref = [src |-> 0, dst |-> 0, len |-> 0, mem |-> <<"a", "b", "c", "d", "e", "f">>]

DmaEdge == dut.dev = "dma" /\ dut.s.src < 4 /\ dut.s.dst < 4    \* bound: within the memory
    /\ \E bus \in Moves(dut.s.prev, dut.bus, DmaRequests), answers \in BOOLEAN :
        LET s    == DMA(dut.s, bus, dut.mack, IF dut.s.st = "reading" THEN dut.mem[dut.s.adr + 1] ELSE None)
            does == s.stb = 1 /\ dut.s.stb = 1 /\ (dut.mack = 1 \/ answers)
        IN /\ dut' = [dut EXCEPT !.bus = bus, !.s = s, !.mack = Bool(does),
                                 !.mem = IF does /\ dut.mack = 0 /\ s.we = 1 THEN [@ EXCEPT ![s.adr + 1] = s.mdat] ELSE @]
           /\ ref' = IF ~dut.s.busy /\ s.busy THEN [src |-> dut.s.src, dst |-> dut.s.dst, len |-> dut.s.len, mem |-> dut.mem]
                     ELSE ref

-----------------------------------------------------------------------------
DeviceInit ==
    \/ RxInit \/ TxInit \/ SpiBenchInit \/ I2cBenchInit \/ ClintBenchInit \/ WatchdogBenchInit \/ RtcBenchInit
    \/ PwmBenchInit \/ CalendarInit \/ BridgeBenchInit \/ AxiBenchInit \/ RomBenchInit \/ DmaBenchInit
DeviceNext ==
    \/ RxPush \/ RxEdge \/ TxEdge \/ SpiEdge \/ I2cEdge \/ ClintTick \/ WatchdogEdge \/ RtcEdge
    \/ PwmEdge \/ CalendarMonth \/ BridgeEdge \/ AxiEdge \/ RomEdge \/ DmaEdge

-----------------------------------------------------------------------------
Tests(dev) == dut.dev = dev
ValueOf(bits) == MapThenSumSet(LAMBDA i : bits[i] * 2^(Len(bits) - i), 1..Len(bits))

\* Every byte a feeder accepted reaches the driver, and every byte put into an
\* empty transmitter reaches the terminal, once, whole and in order, whichever
\* of the two components runs first and whatever the driver does meanwhile; a
\* byte is lost only in an overrun, which LSR tells until it is read.  The
\* interrupt wire shows pending data and an idle transmitter the driver has
\* not been told of, although idle edges do not refresh it.
LinesAreLossless ==
    /\ Tests("rx") =>
         /\ dut.s.fifo = ref.queue
         /\ dut.s.oe = Bool(ref.lost) /\ dut.s.fe = 0
         /\ ~dut.snd.busy /\ ~dut.s.r.active /\ dut.snd.line = 1 /\ dut.s.r.prev = 1 => ref.sent = dut.snd.ring
         /\ dut.s.irq = Bool((ref.queue # <<>> \/ (~ref.told /\ BitAt(dut.s.ier, 1) = 1)) /\ dut.s.ier # 0)
    /\ Tests("tx") =>
         /\ dut.term.valid = 1 => dut.term.data = ref.last
         /\ dut.term.errors = 0
         /\ ~dut.s.busy /\ ~dut.term.r.active /\ dut.s.tx = 1 => ref.sent = <<>>
         /\ dut.s.irq = Bool(~dut.s.busy /\ ~ref.told /\ BitAt(dut.s.ier, 1) = 1)

\* What a byte looks like at the rises of SCL: its last bit gives way to the
\* line released for the acknowledgement, which has no rise of its own.
OnTheWire(byte) == [k \in 1..DataBits |-> IF k = DataBits THEN 1 ELSE BitAt(byte, DataBits - k)]

\* A slave that samples MOSI on rises and moves MISO on falls exchanges exactly
\* its byte for the master's.  On the I2C wires SDA is still while SCL is high,
\* but for the start and the stop; a rise of SCL shows, bit by bit but the last,
\* the address and the byte written before the first transaction, for later
\* ones are refused; NACK is reported exactly when an acknowledge was high.
WiresCarryBytes ==
    /\ Tests("spi") /\ ref.runs /\ ~dut.s.busy =>
         ValueOf(ref.seen) = ref.byte /\ Len(ref.seen) = DataBits /\ dut.s.rxdata = ref.reply /\ dut.s.sclk = 0
    /\ Tests("i2c") /\ ref.ran =>
         /\ ~ref.moved
         /\ dut.s.nack = 1 => ref.naks
         /\ Resting(dut.s) =>
              /\ dut.s.done = 1 /\ dut.s.nack = Bool(ref.naks) /\ dut.s.scl = 1 /\ ref.stopped
              /\ Len(ref.bits) \in {2 * DataBits + 1} \cup (IF ref.naks THEN {DataBits + 1} ELSE {})
         /\ \A k \in 1..DataBits :
              /\ k <= Len(ref.bits) => ref.bits[k] = OnTheWire(2 * ref.addr)[k]
              /\ k + DataBits < Len(ref.bits) => ref.bits[DataBits + k] = OnTheWire(ref.first)[k]

\* An I2C transaction sends the byte written to TXDATA last before it started
\* (as far as its bits reach the wire).  The code keeps the first one.
I2cSendsWhatWasWritten ==
    Tests("i2c") /\ ref.ran =>
        \A k \in 1..DataBits :
            k + DataBits < Len(ref.bits) => ref.bits[DataBits + k] = OnTheWire(ref.byte)[k]


\* Interrupts come when the registers, written a half or a lane at a time, say:
\* the timer from mtime = mtimecmp on (and a master of the CLINT is answered
\* within two clock periods), the watchdog at the edge that completes
\* its timeout and until it is fed or stopped, the alarm while it is due.  A
\* running PWM is high for exactly its share of any period.  The date is the
\* one a calendar shows.
TimersAreExact ==
    /\ Tests("clint") =>
         /\ dut.s.mtime = ref.edges /\ dut.s.cmp = ref.cmp[1] + Half * ref.cmp[2]
         /\ dut.s.mti = Bool(ref.edges >= ref.cmp[1] + Half * ref.cmp[2])
         /\ ref.waited <= 3
    /\ Tests("watchdog") => dut.s.irq = Bool(ref.fired)
    /\ Tests("rtc") /\ ref.edges > 0 =>
         dut.s.irq = Bool(ref.on /\ (dut.p.base + 3 * ref.edges) % (Half * Half) >= ref.alarm[1] + Half * ref.alarm[2])
    /\ Tests("pwm") =>
         LET n == dut.s.period   l == ref.levels
         IN Len(l) > n + 1 =>
              MapThenSumSet(LAMBDA i : l[Len(l) + 1 - i], 1..n)
                = IF dut.s.ctrl = 0 THEN 0 ELSE IF dut.s.duty < n THEN dut.s.duty ELSE n
    /\ Tests("calendar") => \A k \in 1..DaysIn(ref.y, ref.m) :
         CivilDate(ref.first + k - 1) = [y |-> ref.y, mo |-> ref.m, d |-> k, wd |-> (ref.first + k + 3) % 7]

\* Each request is carried out once and answered with what it found: through
\* the register bridge the device is strobed once and its answer is the one of
\* that edge; a write over AXI puts its own data at its own address once before
\* it is answered, in whichever order the two came, and a read returns what is
\* there; the ROM adapter's data is of the address asked, after withdrawals
\* too, and comes in time; the DMA copies what was programmed when it started.
AdaptersAreExact ==
    /\ Tests("bridge") =>
         /\ ref.served <= 1
         /\ dut.s.ack = 1 => ref.served = 1 /\ dut.s.dat = ref.got
         /\ ~Active(dut.bus) => dut.gpio.gout = ref.out \cap ref.dir /\ dut.gpio.dir = ref.dir
    /\ Tests("axi") =>
         /\ ref.wrote <= 1
         /\ dut.s.stb = 1 /\ dut.s.we = 1 => dut.s.adr = ref.aw /\ dut.s.wdat = ref.w
         /\ dut.s.stb = 1 /\ dut.s.we = 0 => dut.s.adr = ref.ar
         /\ dut.s.bvalid = 1 => ref.wrote = 1 /\ dut.mem[ref.aw] = ref.w
         /\ dut.s.rvalid = 1 => dut.s.rdata = dut.mem[ref.ar]
    /\ Tests("rom") =>
         /\ dut.s.ack = 1 => Active(dut.bus) /\ dut.s.dat = ref.asked
         /\ ref.waited > dut.p.latency + 3 => dut.s.ack = 1
    /\ Tests("dma") =>
         LET moved == [i \in 1..6 |-> LET k == i - 1 - ref.dst IN
                          IF k \in 0..(ref.len - 1) THEN ref.mem[ref.src + k + 1] ELSE ref.mem[i]]
         IN ~dut.s.busy /\ (ref.dst >= ref.src + ref.len \/ ref.dst <= ref.src) => dut.mem = moved
=============================================================================
