-------------------------------- MODULE Plic --------------------------------
(* The platform interrupt controller, a Wishbone slave: levels arrive on the *)
(* irq_src wire, handlers in two contexts enable, claim and complete them    *)
(* through its registers, and one irq wire says that there is work.          *)
(*                                                                           *)
(* One step is one rising clock edge; between two edges the sources and the  *)
(* bus may change.  Sources are numbered from 1; a set of them is the bit    *)
(* map of the code.  Of the words read only the claimed number is kept.      *)
EXTENDS Integers

CONSTANTS
    N,              \* sources
    Contexts,       \* one for machine mode, one for supervisor mode
    Levels,         \* the priorities, and thresholds, software writes
    NoAccess        \* the bus is idle

Sources == 1..N

ASSUME SizesAssumption == N \in Nat /\ Levels \subseteq 0..7 /\ 0 \in Levels
ASSUME ContextsAssumption == "idle" \notin Contexts /\ "waiting" \notin Contexts

\* A register access, with its data.  Reads other than of claim, and accesses
\* to what is not there, are acknowledged and change nothing.
Requests ==
    [op : {"priority"}, at : Sources, val : Levels]
    \cup [op : {"threshold"}, at : Contexts, val : Levels]
    \cup [op : {"enable"}, at : Contexts, val : SUBSET Sources]
    \cup [op : {"complete"}, at : Contexts, val : 0..(N + 1)]
    \cup [op : {"claim", "other"}, at : Contexts, val : {0}]

VARIABLES
    src,        \* the sources whose level is up
    busReq,     \* the access on the bus, or NoAccess
    prio,       \* register files
    thr,
    en,
    pending,    \* sources that wait
    insvc,      \* of each context, the sources it has claimed
    latched,    \* what a claim answered, until the end of the access
    prevStb,    \* was the bus active at the last edge?
    lastSrc,    \* src at the last edge that was worked on
    busAck, busDat, irq

plicVars ==
    <<src, busReq, prio, thr, en, pending, insvc, latched, prevStb, lastSrc, busAck, busDat, irq>>

InService(sv) == UNION {sv[c] : c \in Contexts}
NoSources == [c \in Contexts |-> {}]

PlicInit ==
    /\ src = {} /\ busReq = NoAccess
    /\ prio = [s \in Sources |-> 0] /\ thr = [c \in Contexts |-> 0] /\ en = NoSources
    /\ pending = {} /\ insvc = NoSources
    /\ latched = 0 /\ prevStb = FALSE /\ lastSrc = {}
    /\ busAck = FALSE /\ busDat = 0 /\ irq = FALSE

-----------------------------------------------------------------------------
(* The wires. *)

Level == \E S \in SUBSET Sources : S # src /\ src' = S /\ UNCHANGED busReq

\* A master starts an access once its last low cycle has been seen, and ends it
\* on the ack.
Request ==
    /\ busReq = NoAccess /\ ~prevStb
    /\ busReq' \in Requests /\ UNCHANGED src
Release == busReq # NoAccess /\ busAck /\ prevStb /\ busReq' = NoAccess /\ UNCHANGED src

Bus ==
    /\ Level \/ Request \/ Release
    /\ UNCHANGED <<prio, thr, en, pending, insvc, latched, prevStb, lastSrc, busAck, busDat, irq>>

-----------------------------------------------------------------------------
(* A rising edge. *)

\* Nothing to do: no access now or before, and the sources are as they were.
\* Mutant: the edge at which an access has ended is not looked at.
Quiet_IgnoresEnd == busReq = NoAccess /\ src = lastSrc
Quiet == busReq = NoAccess /\ ~prevStb /\ src = lastSrc

\* Sources that come up wait, unless somebody is still serving them.
\* Mutant: a source that is being served waits as well.
Waiting_Always == pending \cup src
Waiting == pending \cup (src \ InService(insvc))

\* s is what a claim by c takes: the highest priority above 0, the lowest
\* number among equals.  The threshold is not asked.
Candidates(c) == {s \in Waiting \cap en[c] : prio[s] > 0}
IsBest(c, s) ==
    /\ s \in Candidates(c)
    /\ \A t \in Candidates(c) : prio[t] < prio[s] \/ (prio[t] = prio[s] /\ s <= t)

\* The irq wire: in some context an enabled source waits above the threshold.
Wanted(p, t, e, pend) ==
    \E c \in Contexts : \E s \in pend \cap e[c] : p[s] > t[c]

\* What every edge that is not quiet does around the access: the outputs are
\* those of the state it leaves behind.
\* Mutant: the irq wire is decided before the access.
Outputs_Early(d) ==
    /\ busDat' = d /\ busAck' = (busReq # NoAccess)
    /\ irq' = Wanted(prio, thr, en, Waiting)
Outputs(d) ==
    /\ busDat' = d /\ busAck' = (busReq # NoAccess)
    /\ irq' = Wanted(prio', thr', en', pending')

RisingEdge ==
    /\ ~Quiet
    /\ prevStb' = (busReq # NoAccess) /\ lastSrc' = src
    /\ UNCHANGED <<src, busReq>>

\* The first edge of an access of the kind given.
FirstEdge(op) == busReq # NoAccess /\ ~prevStb /\ busReq.op = op /\ RisingEdge

\* No access, or one that has been served: its answer is held.
Hold ==
    /\ RisingEdge /\ (busReq = NoAccess \/ prevStb)
    /\ pending' = Waiting
    /\ latched' = IF busReq = NoAccess THEN 0 ELSE latched
    /\ UNCHANGED <<prio, thr, en, insvc>>
    /\ Outputs(latched')

WritePriority ==
    /\ FirstEdge("priority")
    /\ prio' = [prio EXCEPT ![busReq.at] = busReq.val]
    /\ pending' = Waiting /\ latched' = 0 /\ UNCHANGED <<thr, en, insvc>>
    /\ Outputs(0)

WriteThreshold ==
    /\ FirstEdge("threshold")
    /\ thr' = [thr EXCEPT ![busReq.at] = busReq.val]
    /\ pending' = Waiting /\ latched' = 0 /\ UNCHANGED <<prio, en, insvc>>
    /\ Outputs(0)

WriteEnable ==
    /\ FirstEdge("enable")
    /\ en' = [en EXCEPT ![busReq.at] = busReq.val]
    /\ pending' = Waiting /\ latched' = 0 /\ UNCHANGED <<prio, thr, insvc>>
    /\ Outputs(0)

Other ==
    /\ FirstEdge("other")
    /\ pending' = Waiting /\ latched' = 0 /\ UNCHANGED <<prio, thr, en, insvc>>
    /\ Outputs(0)

\* Mutant: the source goes on waiting while it is served.
Claimed_KeepsPending(s) ==
    /\ IsBest(busReq.at, s)
    /\ pending' = Waiting
    /\ insvc' = [insvc EXCEPT ![busReq.at] = @ \cup {s}]
Claimed(s) ==
    /\ IsBest(busReq.at, s)
    /\ pending' = Waiting \ {s}
    /\ insvc' = [insvc EXCEPT ![busReq.at] = @ \cup {s}]

Claim ==
    /\ FirstEdge("claim")
    /\ UNCHANGED <<prio, thr, en>>
    /\ \E s \in Sources : Claimed(s) /\ latched' = s /\ Outputs(s)

ClaimNothing ==
    /\ FirstEdge("claim") /\ Candidates(busReq.at) = {}
    /\ pending' = Waiting /\ latched' = 0 /\ UNCHANGED <<prio, thr, en, insvc>>
    /\ Outputs(0)

\* A completion counts only of a source that is enabled now in that context.
Completed == IF busReq.val \in en[busReq.at] THEN {busReq.val} ELSE {}
Complete ==
    /\ FirstEdge("complete")
    /\ insvc' = [insvc EXCEPT ![busReq.at] = @ \ Completed]
    /\ pending' = Waiting /\ latched' = 0 /\ UNCHANGED <<prio, thr, en>>
    /\ Outputs(0)

\* circuit_reset: the wires are cleared as well.
PlicReset ==
    /\ src' = {} /\ busReq' = NoAccess
    /\ prio' = [s \in Sources |-> 0] /\ thr' = [c \in Contexts |-> 0] /\ en' = NoSources
    /\ pending' = {} /\ insvc' = NoSources
    /\ latched' = 0 /\ prevStb' = FALSE /\ lastSrc' = {}
    /\ busAck' = FALSE /\ busDat' = 0 /\ irq' = FALSE

PlicNext ==
    \/ Bus \/ Hold \/ PlicReset
    \/ WritePriority \/ WriteThreshold \/ WriteEnable \/ Other
    \/ Claim \/ ClaimNothing \/ Complete

PlicSpec == PlicInit /\ [][PlicNext]_plicVars

-----------------------------------------------------------------------------
(* Properties. *)

PlicTypeOK ==
    /\ src \in SUBSET Sources /\ lastSrc \in SUBSET Sources /\ pending \in SUBSET Sources
    /\ busReq \in Requests \cup {NoAccess}
    /\ prio \in [Sources -> Levels] /\ thr \in [Contexts -> Levels]
    /\ en \in [Contexts -> SUBSET Sources] /\ insvc \in [Contexts -> SUBSET Sources]
    /\ latched \in 0..N /\ busDat \in 0..N
    /\ prevStb \in BOOLEAN /\ busAck \in BOOLEAN /\ irq \in BOOLEAN

\* A source is never in the hands of two handlers, nor offered to a second one
\* while the first is at work.
OneHandler ==
    /\ pending \cap InService(insvc) = {}
    /\ \A c, d \in Contexts : c # d => insvc[c] \cap insvc[d] = {}

\* The quiet path loses no interrupt: once the controller no longer looks at
\* its inputs, every level that is up is waiting or being served, also one that
\* stayed up while it was served.
NoLevelLost == Quiet => src \subseteq pending \cup InService(insvc)

\* The irq wire never outlives its reason, nor is late, whatever register has
\* just been written and however long the controller has been quiet.
WireIsCurrent == irq = Wanted(prio, thr, en, pending)

\* No interrupt gets lost on its way through the controller.
NothingIsLost == NoLevelLost /\ WireIsCurrent

\* While a claim is being answered, the number on the wire is of a source that
\* is in the hands of the one who asked.
AnswerIsServed ==
    busReq # NoAccess /\ busAck /\ busReq.op = "claim" /\ busDat # 0 => busDat \in insvc[busReq.at]

\* Each source goes through the stages of a gateway.
Stage(s) == IF s \in pending THEN "waiting"
            ELSE IF s \in InService(insvc) THEN CHOOSE c \in Contexts : s \in insvc[c]
            ELSE "idle"
G == INSTANCE Gateway WITH stage <- [s \in Sources |-> Stage(s)]
ImplementsGateway == G!Spec
=============================================================================
