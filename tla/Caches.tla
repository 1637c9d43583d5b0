-------------------------------- MODULE Caches --------------------------------
(***************************************************************************)
(* The two data caches between a CPU and the memory.  WishboneDcache sits   *)
(* before the interconnect, answers hits in the combinational phase, writes *)
(* through and watches the memory's wires for the writes of others.         *)
(* WishboneCache fills whole lines and has the memory to itself.            *)
(*                                                                          *)
(* One step is a rising clock edge: the combinational phase of its tick,    *)
(* then each sequential part once.  The lines of a cache do not touch each  *)
(* other: one is modelled.  An address is <<tag, word of the line>>.        *)
(***************************************************************************)
EXTENDS Integers, FiniteSets

CONSTANTS
    Addrs,        \* addresses used
    Cacheable,    \* those in [base, base + size) of the WishboneDcache
    LineWords,    \* words of a line, from 0; 4 in the code
    ByteOf,       \* values of a byte, 0 among them
    Lanes,        \* byte lanes of a word; 4 in the code
    Writes,       \* [a: address, sel: lanes]: the CPU's writes
    Foreign,      \* addresses another master of the interconnect writes
    Nil           \* no operation, no holder, no address

ASSUME AddrAssumption ==
    /\ Addrs \subseteq Nat \X (0..(LineWords - 1)) /\ Cacheable \subseteq Addrs /\ Foreign \subseteq Addrs
    /\ LineWords \in Nat \ {0} /\ 0 \in ByteOf
ASSUME WritesAssumption == Writes \subseteq [a : Addrs, sel : SUBSET Lanes]
ASSUME NilAssumption == Nil \notin {"rd", "wr", "cache", "other"} /\ Nil \notin Addrs

Word == [Lanes -> ByteOf]
Zero == [b \in Lanes |-> 0]
Merge(old, new, sel) == [b \in Lanes |-> IF b \in sel THEN new[b] ELSE old[b]]

Idle == [op |-> Nil]
Active(req) == req # Idle
Reads == {[op |-> "rd", a |-> a] : a \in Addrs}
\* What the lanes that are not selected carry is not the memory's first value.
CpuWrites == UNION {{[op |-> "wr", a |-> w.a, sel |-> w.sel, v |-> v] :
    v \in {x \in Word : \A b \in Lanes \ w.sel : x[b] # 0}} : w \in Writes}
ForeignWrites == {[op |-> "wr", a |-> a, sel |-> Lanes, v |-> v] : a \in Foreign, v \in Word}
NoAnswer == [ack |-> FALSE, dat |-> Zero]

VARIABLES
    kind,     \* which cache the circuit has: "dcache" or "cache"
    cpuFirst, \* whether the CPU's sequential part runs before the others
    cpu,      \* the request the CPU holds
    seen,     \* values its word has had in the memory since it was asked for
    c,        \* the cache
    up,       \* WishboneCache: its answer wires to the CPU
    bus,      \* the interconnect: [holder, last, gap, line: what it shows the memory]
    other,    \* the other master's request
    ram,      \* [prev, ack, dat] of the memory's port
    dram

cacheVars == <<kind, cpuFirst, cpu, seen, c, up, bus, other, ram, dram>>

-----------------------------------------------------------------------------
(* WishboneDcache *)

DcInit == [tag |-> 0, v |-> {}, data |-> [w \in 0..(LineWords - 1) |-> Zero], busy |-> "no", req |-> Idle,
           rsp |-> FALSE, done |-> FALSE, rdat |-> Zero, snprev |-> FALSE, abort |-> FALSE, hold |-> FALSE, own |-> Nil]

Hit(a) == c.tag = a[1] /\ a[2] \in c.v

\* The combinational phase.  The port to the interconnect: a request under
\* way, or the CPU's own unless it is a hit, answered, or due for a pause.
DcRequest ==
    CASE c.busy # "no" -> c.req
      [] c.busy = "no" /\ Active(cpu) /\ ~c.rsp /\ ~c.hold
         /\ ~(cpu.op = "rd" /\ cpu.a \in Cacheable /\ Hit(cpu.a)) -> cpu
      [] OTHER -> Idle

\* The answer to the CPU, given the interconnect's answer.
DcAnswer(ret) ==
    CASE ~Active(cpu) -> NoAnswer
      [] Active(cpu) /\ cpu.a \notin Cacheable -> ret
      [] Active(cpu) /\ cpu.a \in Cacheable /\ cpu.op = "rd" ->
           IF Hit(cpu.a) THEN [ack |-> TRUE, dat |-> c.data[cpu.a[2]]]
           ELSE IF c.rsp THEN [ack |-> TRUE, dat |-> c.rdat] ELSE NoAnswer
      [] Active(cpu) /\ cpu.a \in Cacheable /\ cpu.op = "wr" -> [ack |-> c.rsp, dat |-> Zero]

\* A request of the segment that went up in this tick enters the machine; a
\* write changes its line on the way.
DcStart(s, m) ==
    IF s.busy # "no" \/ ~Active(m) \/ m.a \notin Cacheable THEN s
    ELSE IF m.op = "rd" THEN [s EXCEPT !.busy = "fill", !.req = m, !.abort = FALSE]
    ELSE LET here == s.tag = m.a[1]   w == m.a[2]
         IN [s EXCEPT !.busy = "write", !.req = m, !.abort = FALSE, !.own = m.a,
                      !.data = IF here THEN [@ EXCEPT ![w] = Merge(s.data[w], m.v, m.sel)] ELSE @,
                      !.v    = IF here /\ m.sel = Lanes THEN @ \cup {w} ELSE @]

\* Mutant: the address of the last write is remembered after its end.
DcFinish_KeepsOwn(s, m, ret) ==
    CASE ~Active(m) -> [s EXCEPT !.done = FALSE]
      [] Active(m) /\ m.a \in Cacheable /\ ret.ack /\ ~s.done ->
           IF s.busy = "fill" /\ s.abort THEN [s EXCEPT !.abort = FALSE, !.hold = TRUE, !.busy = "no"]
           ELSE LET w == s.req.a[2]   filled == s.busy = "fill"
                IN [s EXCEPT !.busy = "no", !.rsp = TRUE, !.done = TRUE,
                             !.tag  = IF filled THEN s.req.a[1] ELSE @,
                             !.v    = IF ~filled THEN @ ELSE IF s.tag = s.req.a[1] THEN @ \cup {w} ELSE {w},
                             !.data = IF filled THEN [@ EXCEPT ![w] = ret.dat] ELSE @,
                             !.rdat = IF filled THEN ret.dat ELSE @]
      [] OTHER -> s

\* What the memory answered is put into the line and kept for the CPU, unless
\* the line was written by another meanwhile: then the read is begun again.
DcFinish(s, m, ret) ==
    CASE ~Active(m) -> [s EXCEPT !.done = FALSE, !.own = Nil]
      [] Active(m) /\ m.a \in Cacheable /\ ret.ack /\ ~s.done ->
           IF s.busy = "fill" /\ s.abort THEN [s EXCEPT !.abort = FALSE, !.hold = TRUE, !.busy = "no"]
           ELSE LET w == s.req.a[2]   filled == s.busy = "fill"
                IN [s EXCEPT !.busy = "no", !.rsp = TRUE, !.done = TRUE,
                             !.tag  = IF filled THEN s.req.a[1] ELSE @,
                             !.v    = IF ~filled THEN @ ELSE IF s.tag = s.req.a[1] THEN @ \cup {w} ELSE {w},
                             !.data = IF filled THEN [@ EXCEPT ![w] = ret.dat] ELSE @,
                             !.rdat = IF filled THEN ret.dat ELSE @]
      [] OTHER -> s

\* A write begins on the memory's wires.  The cache's own is told by its
\* address; another's empties the line, and spoils a fill of it.
DcSnoop(s, line) ==
    IF ~(Active(line) /\ ~s.snprev /\ line.op = "wr" /\ line.a \in Cacheable /\ s.own # line.a) THEN s
    ELSE [s EXCEPT !.abort = @ \/ (s.busy = "fill" /\ s.req.a[1] = line.a[1]),
                   !.v     = IF s.tag = line.a[1] THEN {} ELSE @]

\* m, ret: this tick's combinational wires; line: what the interconnect has
\* just put out; active: the CPU's stb as it is now.
DcEdge(m, ret, line, active) ==
    LET s == DcSnoop(DcFinish(DcStart([c EXCEPT !.hold = FALSE], m), m, ret), line)
    IN [s EXCEPT !.snprev = Active(line), !.rsp = @ /\ active]

-----------------------------------------------------------------------------
(* The interconnect with two masters, as in WishboneBus, and the memory.    *)

BusTurn(m, f) ==
    LET wants  == (IF Active(m) THEN {"cache"} ELSE {}) \cup (IF Active(f) THEN {"other"} ELSE {})
        holders == IF bus.holder \in wants THEN {bus.holder} ELSE IF wants = {} THEN {Nil} ELSE wants
    IN {[holder |-> h,
         last   |-> IF h = Nil THEN bus.last ELSE h,
         gap    |-> h \notin {Nil, bus.holder, bus.last} /\ bus.last # Nil,
         line   |-> IF h = Nil \/ (h # bus.holder /\ bus.last \notin {Nil, h}) THEN Idle
                    ELSE IF h = "cache" THEN m ELSE f] : h \in holders}

Serve(line) ==
    LET rise == Active(line) /\ ~ram.prev
    IN /\ ram' = [prev |-> Active(line), ack |-> Active(line),
                  dat  |-> IF rise /\ line.op = "rd" THEN dram[line.a] ELSE ram.dat]
       /\ dram' = IF rise /\ line.op = "wr" THEN [dram EXCEPT ![line.a] = Merge(@, line.v, line.sel)] ELSE dram

-----------------------------------------------------------------------------
(* The CPU holds a request until it sees the ack and then rests an edge.    *)

CpuTurn(answer, withdraws) ==
    IF Active(cpu) THEN (IF answer.ack \/ withdraws THEN {Idle} ELSE {cpu}) ELSE {Idle} \cup Reads \cup CpuWrites

\* What the interconnect passes on to the WishboneDcache.
MemoryAnswer == IF bus.holder = "cache" /\ ~bus.gap /\ Active(DcRequest) /\ ram.ack
                THEN [ack |-> TRUE, dat |-> ram.dat] ELSE NoAnswer

\* Values of the word since the request: now, and after this edge.
Watch == seen' = CASE ~Active(cpu') -> {}
                   [] Active(cpu') /\ ~Active(cpu) -> {dram[cpu'.a], dram'[cpu'.a]}
                   [] Active(cpu') /\ Active(cpu) -> seen \cup {dram'[cpu.a]}

\* The CPU takes ret's word: the order of the parts is CPU, interconnect,
\* cache, memory, or the CPU last.
Dcache ==
    /\ kind = "dcache"
    /\ LET m   == DcRequest
           ret == MemoryAnswer
       IN /\ cpu' \in CpuTurn(DcAnswer(ret), FALSE)
          /\ other' \in IF ~Active(other) THEN {Idle} \cup ForeignWrites
                        ELSE IF bus.holder = "other" /\ ~bus.gap /\ ram.ack THEN {Idle} ELSE {other}
          /\ bus' \in BusTurn(m, other)
          /\ c' = DcEdge(m, ret, bus'.line, Active(IF cpuFirst THEN cpu' ELSE cpu))
          /\ Serve(bus'.line)
          /\ Watch
    /\ UNCHANGED <<kind, cpuFirst, up>>

-----------------------------------------------------------------------------
(* WishboneCache *)

WcInit == [valid |-> FALSE, tag |-> 0, data |-> [w \in 0..(LineWords - 1) |-> Zero], st |-> "idle", req |-> Idle,
           ftag |-> 0, word |-> 0, we |-> "no", low |-> FALSE, held |-> FALSE, latched |-> Zero, prev |-> FALSE, dn |-> Idle]

Has(s, a) == s.valid /\ s.tag = a[1]

\* Mutant: a write changes every lane of its word.
WcTake_WholeWord(s, req) ==
    IF s.st # "idle" \/ s.prev \/ ~Active(req) \/ s.we # "no" \/ (req.op = "rd" /\ Has(s, req.a)) THEN s
    ELSE IF req.op = "rd" THEN [s EXCEPT !.req = req, !.ftag = req.a[1], !.word = 0, !.st = "ask"]
    ELSE [s EXCEPT !.req = req, !.we = "send",
                   !.data = IF Has(s, req.a) THEN [@ EXCEPT ![req.a[2]] = req.v] ELSE @]

\* A new request that is not a hit: a read begins a fill, a write changes its
\* line, if it is there, and is sent on.
WcTake(s, req) ==
    IF s.st # "idle" \/ s.prev \/ ~Active(req) \/ s.we # "no" \/ (req.op = "rd" /\ Has(s, req.a)) THEN s
    ELSE IF req.op = "rd" THEN [s EXCEPT !.req = req, !.ftag = req.a[1], !.word = 0, !.st = "ask"]
    ELSE [s EXCEPT !.req = req, !.we = "send",
                   !.data = IF Has(s, req.a)
                          THEN [@ EXCEPT ![req.a[2]] = Merge(s.data[req.a[2]], req.v, req.sel)] ELSE @]

\* One step of a fill.
WcFill(s, ack, dat) ==
    CASE s.st = "ask" -> [s EXCEPT !.dn = [op |-> "rd", a |-> <<s.ftag, s.word>>], !.st = "wait"]
      [] s.st = "wait" /\ ack ->
           IF s.word + 1 < LineWords
           THEN [s EXCEPT !.data[s.word] = dat, !.dn = Idle, !.word = @ + 1, !.st = "ask"]
           ELSE [s EXCEPT !.data[s.word] = dat, !.dn = Idle, !.word = 0, !.st = "idle",
                          !.valid = TRUE, !.tag = s.ftag]
      [] OTHER -> s

WcSend(s, ack) ==
    CASE s.we = "send"         -> [s EXCEPT !.dn = s.req, !.we = "sent"]
      [] s.we = "sent" /\ ack  -> [s EXCEPT !.dn = Idle, !.we = "no"]
      [] OTHER                 -> s

\* Mutant: a request taken back during a fill is answered by it all the same.
WcGivenUp_Never(s, req) == FALSE

\* The request of the fill was taken back, and another one stands there now.
WcGivenUp(s, req) == (s.low \/ (s.st # "idle" /\ ~Active(req))) /\ Active(req)

\* The answer, and the machine after an edge.
WcEdge(req, ack, dat) ==
    LET low    == c.low \/ (c.st # "idle" /\ ~Active(req))
        hit    == c.st = "idle" /\ ~c.prev /\ c.we = "no" /\ req.op = "rd" /\ Has(c, req.a)
        filled == IF c.st = "idle" THEN WcTake(c, req) ELSE WcFill(c, ack, dat)
        s      == WcSend(filled, ack)
        ends   == c.st # "idle" /\ filled.st = "idle"
        wrote  == c.we = "sent" /\ s.we = "no"
        gives  == ((hit \/ ends) /\ ~WcGivenUp(c, req)) \/ wrote \/ (Active(req) /\ c.held)
        out    == IF Active(req) /\ c.held THEN c.latched
                  ELSE IF hit THEN c.data[req.a[2]] ELSE IF ends THEN filled.data[c.req.a[2]] ELSE Zero
    IN [answer |-> [ack |-> gives, dat |-> out],
        after  |-> [s EXCEPT !.latched = IF gives THEN out ELSE @,
                             !.held = Active(req) /\ (gives \/ @),
                             !.prev = Active(req) /\ ~low,
                             !.low  = low /\ s.st # "idle"]]

\* The memory's answer comes when it likes; the CPU may take a read back while
\* the line is being filled.
Cache ==
    /\ kind = "cache"
    /\ \E next \in {Idle, cpu} \cup Reads \cup CpuWrites : \E withdraws \in {FALSE, c.st # "idle"} :
       LET e == WcEdge(IF cpuFirst THEN next ELSE cpu, ram.ack, ram.dat)
       IN /\ next \in CpuTurn(IF cpuFirst THEN up ELSE e.answer, withdraws)
          /\ cpu' = next /\ up' = e.answer /\ c' = e.after
          /\ \/ Serve(e.after.dn)
             \/ ~ram.prev /\ UNCHANGED <<ram, dram>>
    /\ Watch
    /\ UNCHANGED <<kind, cpuFirst, bus, other>>

-----------------------------------------------------------------------------
CacheInit ==
    /\ kind \in {"dcache", "cache"} /\ cpuFirst \in BOOLEAN
    /\ cpu = Idle /\ seen = {} /\ c = (IF kind = "dcache" THEN DcInit ELSE WcInit) /\ up = NoAnswer
    /\ bus = [holder |-> Nil, last |-> Nil, gap |-> FALSE, line |-> Idle] /\ other = Idle
    /\ ram = [prev |-> FALSE, ack |-> FALSE, dat |-> Zero] /\ dram = [a \in {x[1] : x \in Addrs} \X (0..(LineWords - 1)) |-> Zero]
CacheNext == Dcache \/ Cache
CacheSpec == CacheInit /\ [][CacheNext]_cacheVars

-----------------------------------------------------------------------------
\* The answer the CPU takes in this step, if it takes one.
Taken == CASE kind = "dcache" -> DcAnswer(MemoryAnswer)
           [] kind = "cache"  -> IF cpuFirst THEN up ELSE up'

\* WishboneDcache.h: "another master's write to the memory empties the line,
\* the CPU's next read goes to the memory again".  A word the CPU is given is
\* one the memory had there while it was asking, whatever another master
\* writes and whenever; when a write is acknowledged it has been made.
ReadsAreCurrent == [][
    Active(cpu) /\ ~Active(cpu') /\ Taken.ack =>
        IF cpu.op = "rd" THEN Taken.dat \in seen
        ELSE \E x \in seen : \A b \in cpu.sel : x[b] = cpu.v[b]]_cacheVars
=============================================================================
