----------------------------- MODULE SlirpBackend -----------------------------
(* The network card's back end: a thread that simInit starts and simDeinit   *)
(* joins, fed through the packet rings and woken through a pair of sockets.  *)
(* Between two waits it pops what the guest sent, calls the timers that are  *)
(* due, and lets libslirp look at its sockets.  libslirp itself, which may   *)
(* free, make and set timers in any of its calls, is external.               *)
(*                                                                           *)
(* A packet is the number of the simulation's run it was made in.  Timers    *)
(* are named by their addresses, which are used again.                       *)
EXTENDS Integers, Sequences, SequencesExt

CONSTANTS
    Addresses,      \* where a timer may be allocated
    TxRing, RxRing, \* packets the rings take
    SocketMax,      \* wake-ups the socket takes
    MaxRuns,        \* runs are numbered modulo this
    MaxPackets, MaxTimers, MaxSets,  \* bounds per run
    NoTimer

VARIABLES
    \* the simulation's thread: the call it is in, the run, whether the card has
    \* a back end and may kick it, the packets sent in the run
    host, run, ctx, kickFn, sent,
    txRing, rxRing,
    \* the back end: its stop flag, the wake-ups in its socket, its timers
    quit, wakes, timers, gens, sets,
    \* its thread: where it is, the timers it found due and the one it calls
    worker, due, calling

card == <<host, run, ctx, kickFn, sent>>
backend == <<quit, wakes, timers, gens, sets>>
loop == <<worker, due, calling>>
slirpVars == <<card, txRing, rxRing, backend, loop>>

Live == DOMAIN timers
SlirpInit ==
    /\ host = "idle" /\ run = 0 /\ ctx = FALSE /\ kickFn = FALSE /\ sent = 0
    /\ txRing = <<>> /\ rxRing = <<>>
    /\ quit = FALSE /\ wakes = 0 /\ timers = <<>> /\ gens = 0 /\ sets = 0
    /\ worker = "none" /\ due = <<>> /\ calling = NoTimer

-----------------------------------------------------------------------------
(* The simulation's thread. *)

\* The send does not block: it fails if the socket is full, and may be lost.
Kicked == {wakes, IF wakes < SocketMax THEN wakes + 1 ELSE wakes}

\* simInit begins with the end of the last run's back end, if there is one, and
\* is what simDeinit is: stop, wake, join, free.
BeginDestroy(call) ==
    /\ host = "running" /\ ctx
    /\ host' = call /\ quit' = TRUE /\ wakes' \in Kicked
    /\ UNCHANGED <<run, ctx, kickFn, sent, txRing, rxRing, timers, gens, sets, loop>>

\* Mutant: the thread is not waited for.
Joins_Not == TRUE
Joins == worker = "ended"
Destroyed ==
    /\ host \in {"init", "deinit"} /\ Joins
    /\ ctx' = FALSE /\ timers' = <<>> /\ wakes' = 0
    /\ worker' = (IF worker = "ended" THEN "none" ELSE worker)
    /\ due' = <<>> /\ calling' = NoTimer
    /\ host' = (IF host = "init" THEN "creating" ELSE "idle")
    /\ UNCHANGED <<run, kickFn, sent, txRing, rxRing, quit, gens, sets>>

BeginInit ==
    /\ host \in {"idle", "running"} /\ ~ctx /\ host' = "creating"
    /\ UNCHANGED <<run, ctx, kickFn, sent, txRing, rxRing, backend, loop>>

DeinitWithout ==
    /\ host = "running" /\ ~ctx /\ host' = "idle"
    /\ UNCHANGED <<run, ctx, kickFn, sent, txRing, rxRing, backend, loop>>

\* A cold start: both rings are emptied.  Creation fails at the socket, in
\* libslirp or at the thread.
Create(works) ==
    /\ host = "creating"
    /\ host' = "running" /\ run' = (run % MaxRuns) + 1 /\ sent' = 0
    /\ txRing' = <<>> /\ rxRing' = <<>>
    /\ ctx' = works /\ kickFn' = works
    /\ quit' = FALSE /\ wakes' = 0 /\ timers' = <<>> /\ gens' = 0 /\ sets' = 0
    /\ worker' = (IF works THEN "top" ELSE "none") /\ due' = <<>> /\ calling' = NoTimer

\* The card commits a packet of the guest, and kicks.
Send ==
    /\ host = "running" /\ sent < MaxPackets /\ Len(txRing) < TxRing
    /\ txRing' = Append(txRing, run) /\ sent' = sent + 1
    /\ wakes' \in IF kickFn /\ ctx THEN Kicked ELSE {wakes}
    /\ UNCHANGED <<host, run, ctx, kickFn, rxRing, quit, timers, gens, sets, loop>>

\* The card gives the guest a packet.
Receive ==
    /\ host = "running" /\ rxRing # <<>>
    /\ rxRing' = Tail(rxRing)
    /\ UNCHANGED <<card, txRing, backend, loop>>

-----------------------------------------------------------------------------
(* The back end's thread. *)

Goes(from, to) == worker = from /\ worker' = to

\* What libslirp may do in a call: nothing, one call of timer_new, timer_free or
\* timer_mod, or a packet for the guest, which is dropped if the ring is full.
NewTimer(a) ==
    /\ a \notin Live /\ gens < MaxTimers /\ gens' = gens + 1
    /\ timers' = [b \in Live \cup {a} |->
                   IF b = a THEN [expired |-> FALSE, fired |-> FALSE, gen |-> gens + 1] ELSE timers[b]]
    /\ UNCHANGED <<rxRing, sets>>
FreeTimer(a) ==
    /\ a \in Live /\ timers' = [b \in Live \ {a} |-> timers[b]]
    /\ UNCHANGED <<rxRing, gens, sets>>
SetTimer(a, past) ==
    /\ a \in Live /\ sets < MaxSets /\ sets' = sets + 1
    /\ timers' = [timers EXCEPT ![a].expired = past, ![a].fired = FALSE]
    /\ UNCHANGED <<rxRing, gens>>
Deliver ==
    /\ rxRing' = IF Len(rxRing) < RxRing - 1 THEN Append(rxRing, run) ELSE rxRing
    /\ UNCHANGED <<timers, gens, sets>>
Nothing == UNCHANGED <<timers, rxRing, gens, sets>>
LibslirpActs ==
    \/ Nothing \/ Deliver
    \/ \E a \in Addresses : NewTimer(a) \/ FreeTimer(a) \/ \E past \in BOOLEAN : SetTimer(a, past)

\* The stop flag is read once a round.
Top ==
    /\ Goes("top", IF quit THEN "ended" ELSE "pop")
    /\ UNCHANGED <<card, txRing, rxRing, backend, due, calling>>

PopPacket ==
    /\ txRing # <<>> /\ Goes("pop", "pop")
    /\ txRing' = Tail(txRing) /\ LibslirpActs
    /\ UNCHANGED <<card, quit, wakes, due, calling>>

\* Those that are due are marked and noted, with their generation.
IsDue(a) == timers[a].expired /\ ~timers[a].fired
CollectDue ==
    /\ txRing = <<>> /\ Goes("pop", "call")
    /\ due' = SetToSeq({[at |-> a, gen |-> timers[a].gen] : a \in {b \in Live : IsDue(b)}})
    /\ timers' = [a \in Live |-> [timers[a] EXCEPT !.fired = @ \/ IsDue(a)]]
    /\ UNCHANGED <<card, txRing, rxRing, quit, wakes, gens, sets, calling>>

\* One that was freed since, replaced at its address, or set again is passed over.
\* Mutant: the mark is not tested again.
StillDue_Unmarked(d) == d.at \in Live /\ timers[d.at].gen = d.gen
StillDue(d) == d.at \in Live /\ timers[d.at].gen = d.gen /\ timers[d.at].fired
CallTimer ==
    /\ due # <<>> /\ calling = NoTimer /\ worker = "call"
    /\ calling' = IF StillDue(Head(due)) THEN Head(due) ELSE NoTimer
    /\ due' = Tail(due)
    /\ UNCHANGED <<card, txRing, rxRing, backend, worker>>
TimerActs ==
    /\ calling # NoTimer /\ calling' = NoTimer
    /\ LibslirpActs
    /\ UNCHANGED <<card, txRing, quit, wakes, worker, due>>

\* The sockets are collected; short of memory, the round ends here.
CollectSockets ==
    /\ due = <<>> /\ calling = NoTimer
    /\ Goes("call", "wait") \/ Goes("call", "top")
    /\ UNCHANGED <<card, txRing, rxRing, backend, due, calling>>

\* poll returns because it was woken, because a socket of libslirp is ready, or
\* after a second, whether anything came or not.
\* Mutant: it waits for as long as libslirp lets it.
WaitEnds_Woken == wakes > 0
WaitEnds == TRUE
Wait ==
    /\ WaitEnds
    /\ Goes("wait", IF wakes > 0 THEN "drain" ELSE "look")
    /\ UNCHANGED <<card, txRing, rxRing, backend, due, calling>>

\* recv blocks, and takes one wake-up.
Drain ==
    /\ wakes > 0 /\ Goes("drain", "look") /\ wakes' = wakes - 1
    /\ UNCHANGED <<card, txRing, rxRing, quit, timers, gens, sets, due, calling>>

Look ==
    /\ Goes("look", "top") /\ LibslirpActs
    /\ UNCHANGED <<card, txRing, quit, wakes, due, calling>>

\* Out of memory: the thread ends, and stays to be joined.
Escape ==
    /\ worker \in {"pop", "wait"} /\ worker' = "ended"
    /\ UNCHANGED <<card, txRing, rxRing, backend, due, calling>>

\* Time passes for the timers.
Expire(a) ==
    /\ a \in Live /\ ~timers[a].expired /\ timers' = [timers EXCEPT ![a].expired = TRUE]
    /\ UNCHANGED <<card, txRing, rxRing, quit, wakes, gens, sets, loop>>

-----------------------------------------------------------------------------
WorkerRuns ==
    \/ Top \/ PopPacket \/ CollectDue \/ CallTimer \/ TimerActs \/ CollectSockets
    \/ Wait \/ Drain \/ Look
Host ==
    \/ \E call \in {"init", "deinit"} : BeginDestroy(call)
    \/ BeginInit \/ DeinitWithout \/ \E works \in BOOLEAN : Create(works)
    \/ Destroyed \/ Send \/ Receive
SlirpNext == WorkerRuns \/ Host \/ Escape \/ \E a \in Addresses : Expire(a)

\* A thread that can go on does; the wait for a socket ends after a second.
Fairness == WF_slirpVars(WorkerRuns) /\ WF_slirpVars(Destroyed)
SlirpSpec == SlirpInit /\ [][SlirpNext]_slirpVars /\ Fairness
-----------------------------------------------------------------------------
(* Properties. *)

\* A timer's callback is called only for the timer that was found due, not for
\* one that was made at its address or set again since.
CallsAreDue == calling # NoTimer =>
    /\ calling.at \in Live /\ timers[calling.at].gen = calling.gen
    /\ timers[calling.at].fired /\ timers[calling.at].expired

\* Neither side gets a packet of an earlier run, and there is never a thread at
\* the rings but that of the card's own back end.
Alive == worker \notin {"none", "ended"}
RunsAreApart == Range(txRing) \cup Range(rxRing) \subseteq {run} /\ (Alive => ctx)

\* Timers and runs of the back end are never mistaken for one another.
BackendIsSafe == CallsAreDue /\ RunsAreApart

\* destroy returns, whatever wake-ups were lost; and the guest's packets are taken
\* unless the thread ends.
DestroyReturns == (host \in {"init", "deinit"}) ~> (host \notin {"init", "deinit"})
SentIsTaken == (Alive /\ txRing # <<>>) ~> (txRing = <<>> \/ ~Alive)

\* The back end's thread always gets on, and can be ended at any time.
BackendKeepsGoing == DestroyReturns /\ SentIsTaken
=============================================================================
