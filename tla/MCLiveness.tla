----------------------------- MODULE MCLiveness -----------------------------
(* What must go on happening: words through the dual-clock FIFO, requests   *)
(* through the interconnect, the end of a loop over circuit_tick, and the   *)
(* thread of the network back end.  One of the four is under test, and the  *)
(* others stay as they began.                                               *)
EXTENDS MCAsyncFifo, SlirpBackend

CONSTANT None
VARIABLES subject,
  order, at, phase, line, ret, got, acked, grant, last, next, gap, si, wsi, mlast, sline, out, slv, words,
  nl, gen, w, cout, oe, q, edgePrev, err, stop, pc, round, call
busVars == <<order, at, phase, line, ret, got, acked, grant, last, next, gap, si, wsi, mlast, sline, out, slv, words>>
tickVars == <<nl, gen, w, cout, oe, q, edgePrev, err, stop, pc, round, call>>
mcVars == <<subject, vars, busVars, tickVars, slirpVars>>

\* A CPU, a DMA engine and a virtio port on one memory of one word, in every
\* order of insertion up to swapping neighbours other than the interconnect,
\* which read and write wires of their own only.
Inserted == <<<<"master", 0>>, <<"master", 1>>, <<"master", 2>>, <<"slave", 0>>>>
InsertionOrders ==
  {SelectSeq(Inserted, LAMBDA p : p \in early) \o <<<<"ic", 0>>>>
     \o SelectSeq(Inserted, LAMBDA p : p \notin early) : early \in SUBSET ToSet(Inserted)}
Bus == INSTANCE WishboneBus WITH
  Cpus <- {0}, Dmas <- {1}, Virtios <- {2}, Slaves <- {0}, Words <- {0}, Values <- {0},
  SlaveOf <- [a \in {0} |-> 0], Orders <- InsertionOrders, WalkOrders <- {}, mem <- words

\* A bus that only registers read, and a tri-state buffer fed by its own inverse.
Part(kind, ins, o) == [kind |-> kind, ins |-> ins, out |-> o]
RegistersOnly ==
    <<Part("tsbuf", <<1, 1>>, 3), Part("treg", <<1, 7>>, 3), Part("dff", <<3, 7>>, 4)>>
RingOscillator == <<Part("tsbuf", <<4, 1>>, 3), Part("not", <<3>>, 4)>>
Engine == INSTANCE TickEngine WITH
  NetCount <- 7, StopEvery <- 2, MaxBatch <- 1, ClockNet <- 7, Netlists <- {RegistersOnly, RingOscillator}

FifoTurns(A) == subject = "fifo" /\ A /\ UNCHANGED <<subject, busVars, tickVars, slirpVars>>
BusTurns(A) == subject = "bus" /\ A /\ UNCHANGED <<subject, vars, tickVars, slirpVars>>
EngineTurns(A) == subject = "engine" /\ A /\ UNCHANGED <<subject, vars, busVars, slirpVars>>
SlirpTurns(A) == subject = "slirp" /\ A /\ UNCHANGED <<subject, vars, busVars, tickVars>>

\* What is not under test has the first order of insertion, or the first netlist.
SomeOrder == CHOOSE o \in InsertionOrders : TRUE
MCInit ==
  /\ Init /\ Bus!Init /\ Engine!Init /\ SlirpInit
  /\ \/ subject \in {"fifo", "slirp"} /\ order = SomeOrder /\ nl = RegistersOnly
     \/ subject = "bus" /\ nl = RegistersOnly
     \/ subject = "engine" /\ order = SomeOrder
MCNext ==
  FifoTurns(Next) \/ BusTurns(Bus!Next) \/ EngineTurns(Engine!Next) \/ SlirpTurns(SlirpNext)

\* A step of the thread inside a tick function, and no other, goes on from where
\* the thread is or to another round of phase 2b; and it is possible whenever there
\* is such a thread.  WF of the steps of Engine!Engine is therefore WF of this.
ThreadMoves ==
  /\ subject = "engine" /\ pc # "idle"
  /\ pc' \in {"idle", "start", "resolved", "settling", "settled", "sequential", "returned"}
  /\ round' \in 0..Len(nl)

\* Both clocks of the FIFO run, the host goes on calling tick, a thread inside a
\* tick function keeps running, and so does that of the back end, which a wait for a
\* socket holds for a second at most; a thread that has ended is joined.
MCSpec ==
  /\ MCInit /\ [][MCNext]_mcVars
  /\ WF_mcVars(FifoTurns(WriteClockTurns))
  /\ WF_mcVars(FifoTurns(ReadClockTurns))
  /\ WF_mcVars(BusTurns(Bus!Next))
  /\ WF_<<pc, round>>(ThreadMoves)
  /\ WF_mcVars(SlirpTurns(WorkerRuns))
  /\ WF_mcVars(SlirpTurns(Destroyed))

\* See WishboneBus and TickEngine.
EveryRequestAnswered == Bus!EveryRequestAnswered
StopEndsTheLoop == Engine!StopEndsTheLoop
=============================================================================
