----------------------------- MODULE TickEngine -----------------------------
(***************************************************************************)
(* The simulation loop of the digital circuit simulator: the C function    *)
(* circuit_tick that CodeGen.cpp generates for a netlist, the loops around *)
(* it (tick, tick_cycles, tick_batch, tick_forever), and the calls of      *)
(* class Circuit that start, interrupt, clear and reset them.              *)
(*                                                                         *)
(* A netlist is a sequence of components in insertion order.  A component  *)
(* has a kind, a sequence of input nets (net 0 is the constant-zero slot   *)
(* that an unconnected pin reads) and one output net (0: unconnected).     *)
(* Wires carry one bit: wider values are copied whole by the same code.    *)
(*                                                                         *)
(* The stop flag is the only state another thread writes                   *)
(* (interruptTickForever), so a tick is cut into actions at the places     *)
(* where the generated code reads that flag.                               *)
(***************************************************************************)
EXTENDS Integers, Sequences, FiniteSets, SequencesExt

CONSTANTS
    NetCount,    \* the nets are 1..NetCount; 0 stands for slot _w[-1]
    Netlists,    \* the netlists the circuit may be compiled from
    StopEvery,   \* a batch reads the stop flag every StopEvery ticks (16, 256)
    MaxBatch,    \* the largest n given to tickBatch and tickCycles
    ClockNet     \* the net tickCycles drives

ASSUME ConstantsAssumption ==
    /\ NetCount \in Nat \ {0}
    /\ StopEvery \in Nat \ {0}
    /\ MaxBatch \in Nat \ {0}
    /\ ClockNet \in 1..NetCount

Nets == 1..NetCount
Bit == {0, 1}
CombKinds == {"buf", "not", "and", "tsbuf"}
ClockKinds == {"clkgen", "clkdiv"}
SeqKinds == ClockKinds \cup {"dff", "treg"}
TriKinds == {"tsbuf", "treg"}

\* A component has the input pins its kind reads; a pin may be unconnected.
PinCount(kind) ==
    IF kind = "clkgen" THEN 0 ELSE IF kind \in {"buf", "not", "clkdiv"} THEN 1 ELSE 2
Components == [kind : CombKinds \cup SeqKinds, ins : Seq(0..NetCount), out : 0..NetCount]

ASSUME NetlistsAssumption ==
    \A n \in Netlists : n \in Seq(Components) /\ \A c \in DOMAIN n : Len(n[c].ins) = PinCount(n[c].kind)

VARIABLES
    nl,       \* the netlist, fixed once compiled
    gen,      \* what the generator derived from it: see Generate
    w,        \* the wires _w
    cout, oe, \* the output latch _c_out and enable _c_oe of each component
    q,        \* the state of each sequential component
    edgePrev, \* _dcs_edge_prev: the level each net had at the last sampling
    err,      \* _tick_error: "OK", "BUS_CONFLICT" or "BUS_OSCILLATION"
    stop,     \* _stop_flag
    pc,       \* where the simulation thread is
    round,    \* rounds of phase 2b done in this tick
    call      \* the call in progress: its operation and its loop counters

vars == <<nl, gen, w, cout, oe, q, edgePrev, err, stop, pc, round, call>>

-----------------------------------------------------------------------------
(* The generator: what generateCircuitC derives from a netlist. *)

Comps(n) == DOMAIN n
OfKind(n, kinds) == {c \in Comps(n) : n[c].kind \in kinds}
Ins(n, c) == {n[c].ins[k] : k \in DOMAIN n[c].ins} \ {0}
Outs(n, set) == {n[c].out : c \in set} \ {0}

\* The elements of seq that are in set, in their order.
Among(seq, set) ==
    LET kept[i \in 0..Len(seq)] ==
            IF i = 0 THEN <<>>
            ELSE IF seq[i] \in set THEN Append(kept[i - 1], seq[i]) ELSE kept[i - 1]
    IN  kept[Len(seq)]
Select(n, kinds) == Among([c \in Comps(n) |-> c], OfKind(n, kinds))

\* net_writer: the last component of nodes that drives the net, if any.
Writer(n, nodes, net) ==
    LET d == {i \in DOMAIN nodes : n[nodes[i]].out = net}
    IN  IF d = {} THEN {} ELSE {nodes[CHOOSE i \in d : \A j \in d : j <= i]}

\* Kahn's algorithm with a stack (topoOrder): the nodes no cycle holds back.
Preds(n, nodes, c) == (UNION {Writer(n, nodes, net) : net \in Ins(n, c)}) \ {c}
KahnStart(n, nodes) ==
    [order |-> <<>>, stack |-> Among(nodes, {c \in Comps(n) : Preds(n, nodes, c) = {}})]
KahnPop(n, nodes, st) ==
    IF st.stack = <<>> THEN st
    ELSE LET u == Last(st.stack)
             done == ToSet(st.order) \cup {u}
             ready == {c \in Comps(n) : u \in Preds(n, nodes, c) /\ Preds(n, nodes, c) \subseteq done}
         IN  [order |-> Append(st.order, u), stack |-> Front(st.stack) \o Among(nodes, ready)]
Sorted(n, nodes) ==
    LET kahn[k \in 0..Len(nodes)] ==
            IF k = 0 THEN KahnStart(n, nodes) ELSE KahnPop(n, nodes, kahn[k - 1])
    IN  kahn[Len(nodes)].order

\* What is left on a cycle, or behind one, keeps its insertion order.
TopoOrder(n, nodes) ==
    LET sorted == Sorted(n, nodes)
    IN  sorted \o Among(nodes, Comps(n) \ ToSet(sorted))

Drivers(n, net) == {c \in Comps(n) : n[c].out = net}
BusNets(n) == {net \in Nets : \E c, d \in Drivers(n, net) : c # d}

TriOuts(n) == Outs(n, OfKind(n, TriKinds))

\* Mutant: only the direct readers of a tri-state net are re-run.
TriAffected_Direct(n) == {c \in OfKind(n, CombKinds) : Ins(n, c) \cap TriOuts(n) # {}}

\* computeTriAffected: the combinational components that read, directly or
\* through others, a net some tri-state output drives: the least set closed
\* under the search.
Closed(n, set) ==
    \A c \in OfKind(n, CombKinds) : Ins(n, c) \cap (TriOuts(n) \cup Outs(n, set)) # {} => c \in set
TriAffected(n) ==
    {c \in OfKind(n, CombKinds) : \A set \in SUBSET OfKind(n, CombKinds) : Closed(n, set) => c \in set}

\* A loop: every one of its components reads the output of another.
Loop(n, set) == set # {} /\ \A c \in set : Ins(n, c) \cap Outs(n, set) # {}

\* getCombinationalDeps and dfsCycle: a loop of outputs that are neither
\* tri-state nor sequential.
StaticCycle(n) == \E set \in SUBSET OfKind(n, CombKinds \ TriKinds) : Loop(n, set)

ClockOrder(n) == Select(n, CombKinds) \o Select(n, ClockKinds)

\* The netlists check() and topologicalSortWithClocks accept.
Compiles(n) ==
    /\ \A net \in BusNets(n) : \A c \in Drivers(n, net) : n[c].kind \in TriKinds
    /\ ~StaticCycle(n)
    /\ OfKind(n, ClockKinds) \subseteq ToSet(Sorted(n, ClockOrder(n)))

\* Mutant: all clock sources before all combinational components.
Generate_ClocksFirst(n) ==
    [stage    |-> Select(n, ClockKinds) \o TopoOrder(n, Select(n, CombKinds)),
     sorted   |-> TopoOrder(n, Select(n, CombKinds)),
     affected |-> TriAffected(n),
     buses    |-> BusNets(n)]

Generate(n) ==
    [stage    |-> TopoOrder(n, ClockOrder(n)),
     sorted   |-> TopoOrder(n, Select(n, CombKinds)),
     affected |-> TriAffected(n),
     buses    |-> BusNets(n)]

\* The nets the host drives with setWire: those no component drives.
HostNets == {net \in Nets : Drivers(nl, net) = {}}

-----------------------------------------------------------------------------
(* One component's generated function.  s is the part of the state a phase  *)
(* reads and writes: [w, cout, oe, q].                                      *)

In(s, c, k) == s.w[nl[c].ins[k]]

Value(s, c) ==
    CASE nl[c].kind \in {"buf", "tsbuf"} -> In(s, c, 1)
      [] nl[c].kind = "not" -> 1 - In(s, c, 1)
      [] nl[c].kind = "and" -> In(s, c, 1) * In(s, c, 2)

\* genOutputWrite: a plain output goes straight to its wire, a tri-state one
\* to its latch, with the enable.
Drive(s, c, v) ==
    IF nl[c].out = 0 THEN s ELSE [s EXCEPT !.w[nl[c].out] = v]
Latch(s, c, v, en) == [s EXCEPT !.cout[c] = v, !.oe[c] = en]

\* A tri-state output alone on its net is copied to the wire, or 0 if disabled.
CopyTri(s, c) ==
    IF nl[c].out \in gen.buses THEN s
    ELSE Drive(s, c, IF s.oe[c] THEN s.cout[c] ELSE 0)

ClkGen(s, c) ==
    LET v == 1 - s.q[c].v IN Drive([s EXCEPT !.q[c].v = v], c, v)

\* Divisor 2: the counter is v, the output is high while it is below 1.
ClkDiv(s, c) ==
    LET rising == In(s, c, 1) = 1 /\ s.q[c].prev = 0
        v == IF rising THEN 1 - s.q[c].v ELSE s.q[c].v
    IN  Drive([s EXCEPT !.q[c] = [v |-> v, prev |-> In(s, c, 1)]], c, 1 - v)

\* One step of emitCombStage.
ExecComb(s, c) ==
    CASE nl[c].kind = "clkgen" -> ClkGen(s, c)
      [] nl[c].kind = "clkdiv" -> ClkDiv(s, c)
      [] nl[c].kind = "tsbuf" -> CopyTri(Latch(s, c, In(s, c, 1), In(s, c, 2) = 1), c)
      [] OTHER -> Drive(s, c, Value(s, c))

\* The states of a stage: run[k] is the one after its first k components.
CombRun(s, order) ==
    LET run[k \in 0..Len(order)] == IF k = 0 THEN s ELSE ExecComb(run[k - 1], order[k]) IN run
CombStage(s, order) == CombRun(s, order)[Len(order)]

Enabled(s, net) == {c \in Drivers(nl, net) : s.oe[c]}
InConflict(s, net) == \E c, d \in Enabled(s, net) : c # d

\* emitBusResolution: a conflicting bus keeps its wire, one nobody drives reads
\* 0.  A tri-state output alone on its net is copied, or 0 if disabled.
Level(s, net) ==
    IF InConflict(s, net) THEN s.w[net]
    ELSE IF Enabled(s, net) = {} THEN 0 ELSE s.cout[CHOOSE c \in Enabled(s, net) : TRUE]
Resolve(s, nets) ==
    [s EXCEPT !.w = [net \in DOMAIN s.w |-> IF net \in nets THEN Level(s, net) ELSE s.w[net]]]

\* emitPropagation: every bus, then every other tri-state output.
TriNets == TriOuts(nl)
Propagate(s) == Resolve(s, TriNets)

\* emitSeqTriPropagation: phase 4, the buses a register drives and the
\* tri-state outputs of the other registers.
SeqNets == {net \in TriNets : \E c \in Drivers(nl, net) : nl[c].kind \in SeqKinds}
\* Mutant: phase 4 taken for redundant.
SeqTriPropagation_None(s) == s
SeqTriPropagation(s) == Resolve(s, SeqNets)

State == [w |-> w, cout |-> cout, oe |-> oe, q |-> q]
Store(s) == w' = s.w /\ cout' = s.cout /\ oe' = s.oe /\ q' = s.q

\* onBusConflict: the first error stays, and the stop flag is raised.
BusError(s, nets) == IF \E net \in nets : InConflict(s, net) THEN "BUS_CONFLICT" ELSE "OK"
Report(e) ==
    /\ err' = IF err = "OK" THEN e ELSE err
    /\ stop' = (stop \/ e # "OK")

-----------------------------------------------------------------------------
Idle == [op |-> "none", left |-> 0, i |-> 0, low |-> FALSE]

Cleared ==
    [w    |-> [n \in 0..NetCount |-> 0],
     cout |-> [c \in Comps(nl) |-> 0],
     oe   |-> [c \in Comps(nl) |-> nl[c].kind \notin TriKinds],
     q    |-> [c \in Comps(nl) |-> [v |-> 0, prev |-> 0]]]

\* The state after compile() and init().
Init ==
    /\ nl \in {n \in Netlists : Compiles(n)}
    /\ gen = Generate(nl)
    /\ w = Cleared.w /\ cout = Cleared.cout /\ oe = Cleared.oe /\ q = Cleared.q
    /\ edgePrev = [n \in Nets |-> 0]
    /\ err = "OK" /\ stop = FALSE
    /\ pc = "idle" /\ round = 0 /\ call = Idle

(* Calls of the host. *)

SetWire(net, v) ==
    /\ pc = "idle"
    /\ w[net] # v
    /\ w' = [w EXCEPT ![net] = v]
    /\ UNCHANGED <<nl, gen, cout, oe, q, edgePrev, err, stop, pc, round, call>>

\* tick, tickCycles, tickBatch and tickForever refuse to run on an error.
Begin(c) ==
    /\ pc = "idle" /\ err = "OK"
    /\ call' = c
    /\ pc' = "start"
    /\ UNCHANGED <<nl, gen, w, cout, oe, q, edgePrev, err, stop, round>>

Tick == Begin([Idle EXCEPT !.op = "tick", !.left = 1])
TickBatch(n) == Begin([Idle EXCEPT !.op = "batch", !.left = n])
TickCycles(n) == Begin([Idle EXCEPT !.op = "cycles", !.left = n, !.low = TRUE])
TickForever == Begin([Idle EXCEPT !.op = "forever"])

\* From any thread, at any time.
InterruptTickForever ==
    /\ stop' = TRUE
    /\ UNCHANGED <<nl, gen, w, cout, oe, q, edgePrev, err, pc, round, call>>

ClearError ==
    /\ pc = "idle" /\ err # "OK"
    /\ err' = "OK"
    /\ UNCHANGED <<nl, gen, w, cout, oe, q, edgePrev, stop, pc, round, call>>

\* reset(), and init() again: everything back to zero, the flag included.
Reset ==
    /\ pc = "idle"
    /\ Store(Cleared)
    /\ edgePrev' = [n \in Nets |-> 0]
    /\ err' = "OK" /\ stop' = FALSE
    /\ UNCHANGED <<nl, gen, pc, round, call>>

(* The simulation thread. *)

\* Phases 1 and 2; circuit_tick_cycle first writes its clock net.
Combinational ==
    /\ pc = "start"
    /\ LET s0 == IF call.op = "cycles"
                 THEN [State EXCEPT !.w[ClockNet] = IF call.low THEN 0 ELSE 1] ELSE State
           s == Propagate(CombStage(s0, gen.stage))
       IN  /\ Store(s)
           /\ Report(BusError(s, gen.buses))
    /\ round' = 0
    /\ pc' = "resolved"
    /\ UNCHANGED <<nl, gen, edgePrev, call>>

\* Mutant: the flag is not read before phase 2b.
StopAfterResolution_Unread ==
    /\ pc = "resolved"
    /\ pc' = IF gen.affected # {} THEN "settling" ELSE "sequential"
    /\ UNCHANGED <<nl, gen, w, cout, oe, q, edgePrev, err, stop, round, call>>

\* The flag is read here only in circuits with a bus.
StopAfterResolution ==
    /\ pc = "resolved"
    /\ pc' = IF gen.buses # {} /\ stop THEN "returned"
             ELSE IF gen.affected # {} THEN "settling" ELSE "sequential"
    /\ UNCHANGED <<nl, gen, w, cout, oe, q, edgePrev, err, stop, round, call>>

\* Phase 2b runs at most components + 1 rounds.
\* Mutant: one round for each component that is re-run.
RoundLimit_Affected == Cardinality(gen.affected)
RoundLimit == Len(nl) + 1

\* One round of phase 2b.  A conflict is reported but the rounds go on.
Settle ==
    /\ pc = "settling"
    /\ LET order == Among(gen.sorted, gen.affected)
           s1 == CombStage(State, order)
           s == Propagate(s1)
           tracked == Outs(nl, {c \in ToSet(order) : nl[c].kind = "tsbuf"})
           changed == \/ \E n \in tracked \ gen.buses : s1.w[n] # w[n]
                      \/ \E n \in gen.buses : s.w[n] # s1.w[n]
           last == round + 1 = RoundLimit
       IN  /\ Store(s)
           /\ Report(IF BusError(s, gen.buses) = "OK" /\ changed /\ last
                     THEN "BUS_OSCILLATION" ELSE BusError(s, gen.buses))
           /\ round' = IF changed /\ ~last THEN round + 1 ELSE 0
           /\ pc' = IF changed /\ ~last THEN "settling" ELSE "settled"
    /\ UNCHANGED <<nl, gen, edgePrev, call>>

StopAfterSettling ==
    /\ pc = "settled"
    /\ pc' = IF stop THEN "returned" ELSE "sequential"
    /\ UNCHANGED <<nl, gen, w, cout, oe, q, edgePrev, err, stop, round, call>>

EdgeNets == {nl[c].ins[2] : c \in OfKind(nl, {"dff"})} \ {0}

\* dff: latches on the flag of its clock net.  treg: a tri-state register, as
\* a DLL exports one, that keeps its own copy of the clock and always drives.
ExecSeq(rising, s, c) ==
    IF nl[c].kind = "dff"
    THEN LET v == IF nl[c].ins[2] \in rising THEN In(s, c, 1) ELSE s.q[c].v
         IN  Drive([s EXCEPT !.q[c].v = v], c, v)
    ELSE LET clk == In(s, c, 2)
             v == IF clk = 1 /\ s.q[c].prev = 0 THEN In(s, c, 1) ELSE s.q[c].v
         IN  Latch([s EXCEPT !.q[c] = [v |-> v, prev |-> clk]], c, v, TRUE)

\* Phase 3: a component sees what the ones inserted before it wrote.
SeqOrder == Select(nl, SeqKinds \ ClockKinds)
SeqRun(s, rising) ==
    LET run[k \in 0..Len(SeqOrder)] ==
            IF k = 0 THEN s ELSE ExecSeq(rising, run[k - 1], SeqOrder[k])
    IN  run
SeqStage(s, rising) == SeqRun(s, rising)[Len(SeqOrder)]

\* Edge detection, then phases 3 and 4.
Sequential ==
    /\ pc = "sequential"
    /\ LET rising == {n \in EdgeNets : w[n] = 1 /\ edgePrev[n] = 0}
           s1 == SeqStage(State, rising)
       IN  /\ Store(SeqTriPropagation(s1))
           /\ Report(BusError(s1, SeqNets \cap gen.buses))
    /\ edgePrev' = [n \in Nets |-> IF n \in EdgeNets THEN w[n] ELSE edgePrev[n]]
    /\ pc' = "returned"
    /\ UNCHANGED <<nl, gen, round, call>>

\* The stop flag is looked at on every StopEvery-th pass of a loop.
\* Mutant: only a run-time error ends the loop.
StopSeen_ErrorsOnly == call.i = StopEvery - 1 /\ err # "OK"
StopSeen == call.i = StopEvery - 1 /\ stop

\* The loops around circuit_tick.  A cycle is a low tick and a high one.
NextTick ==
    /\ pc = "returned"
    /\ LET over == \/ call.op = "tick"
                   \/ call.op # "forever" /\ call.left = 1
                   \/ StopSeen
       IN  IF call.op = "cycles" /\ call.low
           THEN call' = [call EXCEPT !.low = FALSE] /\ pc' = "start"
           ELSE IF over THEN call' = Idle /\ pc' = "idle"
           ELSE /\ call' = [call EXCEPT !.i = (call.i + 1) % StopEvery,
                                        !.left = IF call.op = "forever" THEN 0 ELSE call.left - 1,
                                        !.low = call.op = "cycles"]
                /\ pc' = "start"
    /\ UNCHANGED <<nl, gen, w, cout, oe, q, edgePrev, err, stop, round>>

Host ==
    \/ \E net \in HostNets, v \in Bit : SetWire(net, v)
    \/ Tick
    \/ \E n \in 1..MaxBatch : TickBatch(n)
    \/ \E n \in 1..MaxBatch : TickCycles(n)
    \/ TickForever
    \/ InterruptTickForever
    \/ ClearError
    \/ Reset

Engine ==
    \/ Combinational \/ StopAfterResolution \/ Settle \/ StopAfterSettling
    \/ Sequential \/ NextTick

Next == Host \/ Engine
Spec == Init /\ [][Next]_vars

\* A thread inside a tick function keeps running.
FairSpec == Spec /\ WF_vars(Engine)
-----------------------------------------------------------------------------
(* Properties. *)

TypeOK ==
    /\ w \in [0..NetCount -> Bit] /\ w[0] = 0
    /\ cout \in [Comps(nl) -> Bit]
    /\ oe \in [Comps(nl) -> BOOLEAN]
    /\ q \in [Comps(nl) -> [v : Bit, prev : Bit]]
    /\ edgePrev \in [Nets -> Bit]
    /\ err \in {"OK", "BUS_CONFLICT", "BUS_OSCILLATION"}
    /\ stop \in BOOLEAN
    /\ pc \in {"idle", "start", "resolved", "settling", "settled", "sequential", "returned"}
    /\ round \in 0..Len(nl)
    /\ call \in [op : {"none", "tick", "batch", "cycles", "forever"},
                 left : 0..MaxBatch, i : 0..(StopEvery - 1), low : BOOLEAN]

\* The reference: the zero-delay solution.  Every combinational component
\* agrees with its inputs, every tri-state net carries its one enabled driver.
Resolved == \A net \in TriNets :
    \/ Enabled(State, net) = {} /\ w[net] = 0
    \/ \E c \in Comps(nl) : Enabled(State, net) = {c} /\ w[net] = cout[c]
CombAgree == \A c \in Comps(nl) :
    /\ nl[c].kind \in CombKinds \ TriKinds => nl[c].out = 0 \/ w[nl[c].out] = Value(State, c)
    /\ nl[c].kind = "tsbuf" => cout[c] = In(State, c, 1) /\ oe[c] = (In(State, c, 2) = 1)

\* When phase 3 starts, the wires are the zero-delay solution of this tick's
\* inputs and registers, in whatever order the components were inserted.
SettledIsFixpoint == pc = "sequential" => CombAgree /\ Resolved

\* A netlist without a loop is never reported as oscillating: the
\* components + 1 rounds of phase 2b are enough for the longest cascade.
NoFalseOscillation == err # "BUS_OSCILLATION"

\* In a netlist without a combinational loop, the ones through tri-state nets
\* included, a tick reaches the zero-delay solution or reports a real conflict.
LoopFree(n) == \A set \in SUBSET OfKind(n, CombKinds) : ~Loop(n, set)
SettlesExactly == LoopFree(nl) => SettledIsFixpoint /\ NoFalseOscillation

\* Registers never advance on the wires of a circuit that has reported an
\* error, in this tick, an earlier one of the batch, or in phase 4 of that.
NoAdvanceAfterError == pc = "sequential" => err = "OK"

\* When circuit_tick returns without an error every tri-state net shows the
\* latches of its drivers, those phase 3 has just written included.
BusesCurrentAtReturn == pc = "returned" /\ err = "OK" => Resolved

\* A clock source samples its input at this tick's level, not the last one's:
\* it runs after the combinational components that feed it.  (One behind a
\* tri-state net, or fed by itself, runs before its input has its last level.)
Unsettled(n, c) == TriOuts(n) \cup Outs(n, TriAffected(n) \cup {c})
ClockSourcesInPhase == pc = "sequential" =>
    \A c \in OfKind(nl, {"clkdiv"}) :
        Ins(nl, c) \cap Unsettled(nl, c) = {} => q[c].prev = In(State, c, 1)

\* The endless loop does return: after an interrupt, and after an error.
StopEndsTheLoop == stop /\ pc # "idle" ~> pc = "idle"
=============================================================================
