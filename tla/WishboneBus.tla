----------------------------- MODULE WishboneBus -----------------------------
(***************************************************************************)
(* One clock domain around a WishboneInterconnect: masters (the bus side   *)
(* of RiscVCPU, DMA and the virtio devices), the interconnect, and memory  *)
(* slaves, one step of the circuit after another.                          *)
(*                                                                         *)
(* A cycle is the falling tick, in which only a CPU rewrites its lines;    *)
(* the combinational phase of the rising tick, which passes acknowledges   *)
(* on; and its sequential phase, in which every component runs once, in    *)
(* the order of insertion, and writes straight to the wires the next one   *)
(* reads.  (The combinational phase of the falling tick is left out: it    *)
(* computes what the next one computes again, and nobody samples it.)      *)
(* A grant is held while busy, so busy is grant # NoMaster; the pointer to *)
(* the holder's stb wire is line[grant].stb.                               *)
(***************************************************************************)
EXTENDS Integers, Sequences, FiniteSets

CONSTANTS
    Cpus, Dmas, Virtios,   \* the master ports, numbered from 0
    Slaves,                \* the slave ports, numbered from 0
    Words, Values,         \* from 0
    SlaveOf,               \* the slave that serves each word
    Orders,                \* the orders of insertion
    WalkOrders,            \* the orders in which the CPUs walk page tables
    None                   \* no request

Masters == Cpus \cup Dmas \cup Virtios
MasterCount == Cardinality(Masters)
NoMaster == -1
NoSlave == -1
Parts == ({"master"} \X Masters) \cup ({"slave"} \X Slaves) \cup {<<"ic", 0>>}

ASSUME PortsAssumption ==
    /\ MasterCount \in Nat \ {0} /\ Masters = 0..(MasterCount - 1)
    /\ Cardinality(Slaves) \in Nat /\ Slaves = 0..(Cardinality(Slaves) - 1)
    /\ Cpus \cap Dmas = {} /\ Virtios \cap (Cpus \cup Dmas) = {}
ASSUME WordsAssumption == 0 \in Words /\ 0 \in Values /\ SlaveOf \in [Words -> Slaves]
\* Every component is inserted once.
ASSUME OrdersAssumption == \A o \in Orders :
    /\ o \in Seq(Parts)
    /\ \A p \in Parts : \E i \in DOMAIN o : \A j \in DOMAIN o : o[j] = p <=> j = i
ASSUME NoneAssumption ==
    None \notin Values \cup [adr : Words, we : BOOLEAN, dat : Values]
ASSUME OptionsAssumption == WalkOrders \subseteq Orders

VARIABLES
    order,      \* the order of insertion
    at,         \* whose turn it is: 0 is before the sequential phase
    phase,      \* the state machine of each master
    line,       \* the wires from each master
    ret,        \* the wires back to each master
    got,        \* the word each master last read
    acked,      \* the ack a virtio port saw last (ackp)
    grant, last, next, gap,    \* the interconnect: holder, holder before, scan
    si, wsi, mlast,            \* from, and the handover cycle; selected slave,
                               \* slave and master driven
    sline,      \* the wires to each slave
    out,        \* the wires back from each slave
    slv,        \* the state of each slave
    mem         \* all words of all slaves

master == <<phase, line, got, acked>>
ic == <<grant, last, next, gap, si, wsi, sline>>
slave == <<out, slv, mem>>
vars == <<order, at, master, ret, mlast, ic, slave>>

Quiet == [adr |-> 0, we |-> FALSE, dat |-> 0, stb |-> FALSE, cyc |-> FALSE]
Off == [adr |-> 0, we |-> FALSE, dat |-> 0, stb |-> FALSE]
NoReply == [ack |-> FALSE, dat |-> 0]

Init ==
    /\ order \in Orders /\ at = 0
    /\ phase = [m \in Masters |-> "free"]
    /\ line = [m \in Masters |-> Quiet] /\ ret = [m \in Masters |-> NoReply]
    /\ got = [m \in Masters |-> 0] /\ acked = [m \in Masters |-> FALSE]
    /\ grant = NoMaster /\ last = NoMaster /\ next = 0 /\ gap = FALSE
    /\ si = 0 /\ wsi = NoSlave /\ mlast = NoMaster
    /\ sline = [s \in Slaves |-> Off] /\ out = [s \in Slaves |-> NoReply]
    /\ slv = [s \in Slaves |-> [prev |-> FALSE, prevWe |-> FALSE, pending |-> FALSE,
                                adr |-> 0, dat |-> 0]]
    /\ mem = [w \in Words |-> 0]

\* The sequential phase comes to p.
Turn(p) ==
    /\ at # 0 /\ order[at] = p
    /\ at' = IF at = Len(order) THEN 0 ELSE at + 1
    /\ UNCHANGED order

-----------------------------------------------------------------------------
(* The masters. *)

Drive(m, l) == line' = [line EXCEPT ![m] = l]
Raise(m, w, we, v) ==
    Drive(m, [adr |-> w, we |-> we, dat |-> v, stb |-> TRUE, cyc |-> TRUE])
Become(m, p) == phase' = [phase EXCEPT ![m] = p]
Acked(m) == ret[m].ack
Take(m) == got' = IF line[m].we THEN got ELSE [got EXCEPT ![m] = ret[m].dat]
MasterTurn(m) == Turn(<<"master", m>>) /\ UNCHANGED <<ret, mlast, ic, slave>>

\* A master with nothing to do, or one still waiting.
Stay(m) ==
    /\ MasterTurn(m)
    /\ \/ phase[m] = "free" /\ (m \in Virtios => ~line[m].stb)
       \/ phase[m] \in {"access", "amo_read", "amo_write", "wait_walk", "dma_read", "dma_write"}
            /\ ~Acked(m)
    /\ UNCHANGED master

(* RiscVCPU: "access" is any single read or write (WAIT_FETCH, WAIT_MEM). *)

\* A fetch, load or store; the read half of an AMO; the first entry of a walk.
CpuStart(m) ==
    /\ MasterTurn(m) /\ phase[m] = "free"
    /\ \E w \in Words :
         \/ \E v \in Values : Raise(m, w, TRUE, v) /\ Become(m, "access")
         \/ Raise(m, w, FALSE, 0)
              /\ \/ Become(m, "access") \/ Become(m, "amo_read")
                 \/ order \in WalkOrders /\ Become(m, "wait_walk")
    /\ UNCHANGED <<got, acked>>

CpuDone(m) ==
    /\ MasterTurn(m) /\ phase[m] \in {"access", "amo_write"} /\ Acked(m)
    /\ Take(m) /\ Drive(m, Quiet) /\ Become(m, "free")
    /\ UNCHANGED acked

\* The old word arrives; stb goes low in the falling tick.
CpuAmoRead(m) ==
    /\ MasterTurn(m) /\ phase[m] = "amo_read" /\ Acked(m)
    /\ Take(m) /\ Become(m, "amo_gap")
    /\ UNCHANGED <<line, acked>>

CpuAmoGap(m) ==
    /\ MasterTurn(m) /\ phase[m] = "amo_gap"
    /\ Become(m, "amo_write")
    /\ UNCHANGED <<line, got, acked>>

\* A page table entry arrives: the last one, or the way to another.
CpuWalk(m) ==
    /\ MasterTurn(m) /\ phase[m] = "wait_walk" /\ Acked(m)
    /\ Take(m) /\ Drive(m, Quiet)
    /\ Become(m, "free") \/ Become(m, "walk")
    /\ UNCHANGED acked

CpuWalkOn(m) ==
    /\ MasterTurn(m) /\ phase[m] = "walk"
    /\ Become(m, "wait_walk")
    /\ UNCHANGED <<line, got, acked>>

\* The falling tick: the lines follow the phase the rising one has reached.
MustFall(m) ==
    \/ phase[m] = "amo_gap" /\ line[m].stb
    \/ phase[m] \in {"amo_write", "walk"} /\ ~line[m].stb
CpuFall(m) ==
    /\ at = 0 /\ MustFall(m)
    /\ CASE phase[m] = "amo_gap" -> Drive(m, [line[m] EXCEPT !.stb = FALSE])
         [] phase[m] = "amo_write" -> \E v \in Values : Raise(m, line[m].adr, TRUE, v)
         [] phase[m] = "walk" -> \E w \in Words : Raise(m, w, FALSE, 0)
    /\ UNCHANGED <<order, at, phase, got, acked, ret, mlast, ic, slave>>

(* DMA: read a word, write it to another place. *)

DmaRead(m) ==
    /\ MasterTurn(m) /\ phase[m] = "free"
    /\ \E w \in Words : Raise(m, w, FALSE, 0)
    /\ Become(m, "dma_read")
    /\ UNCHANGED <<got, acked>>

DmaHave(m) ==
    /\ MasterTurn(m) /\ phase[m] = "dma_read" /\ Acked(m)
    /\ Take(m) /\ Drive(m, Quiet) /\ Become(m, "dma_have")
    /\ UNCHANGED acked

DmaWrite(m) ==
    /\ MasterTurn(m) /\ phase[m] = "dma_have"
    /\ \E w \in Words : Raise(m, w, TRUE, got[m])
    /\ Become(m, "dma_write")
    /\ UNCHANGED <<got, acked>>

DmaDone(m) ==
    /\ MasterTurn(m) /\ phase[m] = "dma_write" /\ Acked(m)
    /\ Drive(m, Quiet) /\ Become(m, "free")
    /\ UNCHANGED <<got, acked>>

(* A virtio device: one beat after another, a low cycle between them. *)

VirtioBeat(m) ==
    /\ MasterTurn(m) /\ phase[m] = "free"
    /\ IF line[m].stb THEN UNCHANGED line
       ELSE \E w \in Words : \/ Raise(m, w, FALSE, 0)
                             \/ \E v \in Values : Raise(m, w, TRUE, v)
    /\ acked' = [acked EXCEPT ![m] = Acked(m)]
    /\ IF Acked(m) /\ ~acked[m]
       THEN Become(m, "gap")
              /\ got' = IF line'[m].we THEN got ELSE [got EXCEPT ![m] = ret[m].dat]
       ELSE UNCHANGED <<phase, got>>

VirtioGap(m) ==
    /\ MasterTurn(m) /\ phase[m] = "gap"
    /\ Drive(m, Quiet) /\ Become(m, "free")
    /\ acked' = [acked EXCEPT ![m] = FALSE]
    /\ UNCHANGED got

-----------------------------------------------------------------------------
(* The interconnect. *)

\* The combinational phase: the answer of the selected slave goes to the holder.
Comb ==
    /\ at = 0 /\ \A m \in Cpus : ~MustFall(m)
    /\ at' = 1
    /\ LET answers == grant # NoMaster /\ ~gap /\ line[grant].stb IN
       /\ ret' = [m \in Masters |-> IF answers /\ m = grant THEN out[si]
                                    ELSE IF m = mlast THEN NoReply ELSE ret[m]]
       /\ mlast' = IF answers THEN grant ELSE NoMaster
    /\ UNCHANGED <<order, master, ic, slave>>

Requesting == {m \in Masters : line[m].stb /\ line[m].cyc}

\* Mutants: the scan always starts at port 0; a new holder is passed on at once.
Scan_Fixed(R) == CHOOSE m \in R : \A j \in R : m <= j
Handover_None(g) == FALSE

\* The first that requests, from next on.
Scan(R) == CHOOSE m \in R : \A j \in R : (m - next) % MasterCount <= (j - next) % MasterCount
NextPort(m) == IF m + 1 = MasterCount THEN 0 ELSE m + 1
\* Another master than before: the slaves are shown a cycle without stb.
Handover(g) == last # NoMaster /\ last # g
\* The slave driven so far is another than s (or none is any more).
LeftBehind(s) == s = wsi

Interconnect ==
    /\ Turn(<<"ic", 0>>)
    /\ IF grant = NoMaster /\ Requesting = {} THEN UNCHANGED ic
       ELSE LET g == IF grant \in Requesting THEN grant
                     ELSE IF Requesting = {} THEN NoMaster ELSE Scan(Requesting)
                new == g # NoMaster /\ g # grant
                hand == new /\ Handover(g)
                s == IF g = NoMaster THEN SlaveOf[0] ELSE SlaveOf[line[g].adr]
            IN /\ grant' = g /\ gap' = hand /\ si' = s
               /\ last' = IF new THEN g ELSE last
               /\ next' = IF new THEN NextPort(g) ELSE next
               /\ sline' = [k \in Slaves |->
                    IF g # NoMaster /\ k = s
                      THEN [adr |-> line[g].adr, we |-> line[g].we,
                            dat |-> line[g].dat, stb |-> ~hand]
                    ELSE IF LeftBehind(k) THEN Off ELSE sline[k]]
               /\ wsi' = IF g = NoMaster THEN NoSlave ELSE s
    /\ UNCHANGED <<master, ret, mlast, slave>>

-----------------------------------------------------------------------------
(* WishboneMemory. *)

Memory(s) ==
    LET in == sline[s]
        old == slv[s]
        rise == in.stb /\ ~old.prev
        weRise == in.stb /\ in.we /\ ~old.prevWe
        adr == IF rise THEN in.adr ELSE old.adr
        dat == IF rise THEN (IF in.we THEN 0 ELSE mem[in.adr]) ELSE old.dat
        answers == in.stb /\ (rise \/ old.pending)
    IN
    /\ Turn(<<"slave", s>>)
    /\ slv' = [slv EXCEPT ![s] = [prev |-> in.stb, prevWe |-> in.stb /\ in.we,
                                  pending |-> answers, adr |-> adr, dat |-> dat]]
    /\ mem' = IF in.we /\ (rise \/ weRise) THEN [mem EXCEPT ![adr] = in.dat] ELSE mem
    /\ out' = [out EXCEPT ![s] = IF answers THEN [ack |-> TRUE, dat |-> dat] ELSE NoReply]
    /\ UNCHANGED <<master, ret, mlast, ic>>

-----------------------------------------------------------------------------
Next ==
    \/ Comb \/ Interconnect
    \/ \E s \in Slaves : Memory(s)
    \/ \E m \in Masters : Stay(m)
    \/ \E m \in Cpus : \/ CpuStart(m) \/ CpuDone(m) \/ CpuAmoRead(m) \/ CpuAmoGap(m)
                       \/ CpuWalk(m) \/ CpuWalkOn(m) \/ CpuFall(m)
    \/ \E m \in Dmas : DmaRead(m) \/ DmaHave(m) \/ DmaWrite(m) \/ DmaDone(m)
    \/ \E m \in Virtios : VirtioBeat(m) \/ VirtioGap(m)

Spec == Init /\ [][Next]_vars
\* The host goes on calling tick.
LiveSpec == Spec /\ WF_vars(Next)

-----------------------------------------------------------------------------
(* Properties. *)

TypeOK ==
    /\ order \in Orders /\ at \in 0..Len(order)
    /\ phase \in [Masters -> {"free", "access", "amo_read", "amo_gap", "amo_write", "walk",
                              "wait_walk", "dma_read", "dma_have", "dma_write", "gap"}]
    /\ line \in [Masters -> [adr : Words, we : BOOLEAN, dat : Values,
                             stb : BOOLEAN, cyc : BOOLEAN]]
    /\ ret \in [Masters -> [ack : BOOLEAN, dat : Values]]
    /\ got \in [Masters -> Values] /\ acked \in [Masters -> BOOLEAN]
    /\ grant \in Masters \cup {NoMaster} /\ last \in Masters \cup {NoMaster}
    /\ mlast \in Masters \cup {NoMaster} /\ next \in Masters
    /\ gap \in BOOLEAN
    /\ si \in Slaves /\ wsi \in Slaves \cup {NoSlave}
    /\ sline \in [Slaves -> [adr : Words, we : BOOLEAN, dat : Values, stb : BOOLEAN]]
    /\ out \in [Slaves -> [ack : BOOLEAN, dat : Values]]
    /\ slv \in [Slaves -> [prev : BOOLEAN, prevWe : BOOLEAN, pending : BOOLEAN,
                           adr : Words, dat : Values]]
    /\ mem \in [Words -> Values]

\* m has asked for something it has not taken the answer of.
Waiting(m) == line[m].stb /\ phase[m] \notin {"amo_gap", "gap"}
\* The slave has done it.
Served(m) == Waiting(m) /\ grant = m /\ ~gap /\ slv[si].pending

\* Whatever the order of insertion, the wires add up to a shared memory: no
\* request is done twice or skipped, no ack of one request, and no word it
\* brought, is taken for the answer to another.
Shared == INSTANCE SharedMemory WITH
    req <- [m \in Masters |-> IF Waiting(m)
              THEN [adr |-> line[m].adr, we |-> line[m].we, dat |-> line[m].dat] ELSE None],
    resp <- [m \in Masters |-> IF Served(m) THEN slv[si].dat ELSE None]
IsSharedMemory == Shared!Spec

\* Every request is answered, however the other masters compete.
EveryRequestAnswered == \A m \in Masters : Waiting(m) ~> ~Waiting(m)

\* RiscVCPU keeps cyc up between the two halves of an AMO so that no other
\* device gets in: nobody else changes the word meanwhile.
MidAmo(m, w) == line[m].adr = w /\ phase[m] \in {"amo_gap", "amo_write"} /\ ~Served(m)
AmoAtomic == [][\A w \in Words, m \in Cpus :
    mem'[w] # mem[w] /\ MidAmo(m, w) => grant = m]_vars
=============================================================================
