------------------------------ MODULE VirtioNet ------------------------------
(* The virtio network card between a guest driver and the thread of a host   *)
(* back end: the state machine that walks both virtqueues through the card's *)
(* bus port, and the two packet rings it shares with the thread.             *)
(*                                                                           *)
(* A transfer of the bus port is begun in one step and done in a later one.  *)
(* Its effect on the guest's memory is in the later step: the interconnect   *)
(* lets no access of the driver in between a beat and its ack, and the       *)
(* driver keeps off what it has handed over until it gets it back.           *)
(*                                                                           *)
(* A packet is a sequence of chunks, the pieces the card moves at a time.  A *)
(* transmit request is a chain of descriptors, each given by how many chunks *)
(* it has behind the header, or by Bad if it lies beyond the address space   *)
(* of the port; a receive buffer is given by the chunks it takes behind the  *)
(* header, by Tiny if it cannot even take that, or by Bad.                   *)
EXTENDS Integers, Sequences, SequencesExt

CONSTANTS
    Chains,         \* transmit requests: sequences of chunk counts and Bad
    Buffers,        \* receive buffers: chunk counts, Tiny or Bad
    Lengths,        \* of the packets the back end delivers
    RxRing, TxRing, \* slots of the packet rings: PKT_RING in the code, both
    PktMax,         \* chunks a slot takes
    MaxPosts,       \* bounds: requests in either queue,
    MaxPackets,     \*         packets received,
    MaxResets,      \*         queues disabled and cards reset
    Bad, Tiny, None

ASSUME RingAssumption == RxRing \in Nat \ {0, 1} /\ TxRing \in Nat \ {0} /\ PktMax \in Nat \ {0}
ASSUME KindsAssumption ==
    /\ \A c \in Chains : c \in Seq(Nat \cup {Bad}) /\ c # <<>>
    /\ \A b \in Buffers \ {Bad, Tiny} : b \in Nat
    /\ Bad \notin Nat /\ None \notin {"rx", "tx"}
\* pushRxPacket refuses an empty packet and one that is larger than a slot.
ASSUME LengthsAssumption == Lengths \subseteq 1..PktMax

Queues == {"rx", "tx"}
RxSlots == 0..(RxRing - 1)
TxSlots == 0..(TxRing - 1)

VARIABLES
    \* the driver, and what it shares with the card in the guest's memory
    ok,         \* DRIVER_OK is set
    ready,      \* of each queue: QueueReady
    posts,      \* how many requests the driver has made in each queue
    avail,      \* of each queue: the requests it has made since the last reset
    used,       \* of each queue: those the card has given back, with a length
    seen,       \* how many of those the driver has collected
    acked,      \* its interrupt handler has acknowledged and not yet looked
    kicked,     \* how many transmit requests its last heeded notification covered
    resets,
    \* the card
    phase, last, cur, mp, int,
    \* the rings; a slot holds chunks
    rxSlot, rxHead, rxTail, txSlot, txLen, txHead, txTail,
    \* the back end's thread
    pushing, popping,
    \* history: how many packets were pushed; those received by the guest, the
    \* requests whose packet was sent, the packets popped by the back end;
    \* whether a chunk to transmit has ever found the packet ring full
    pushed, received, sent, popped, overran

guest == <<ok, ready, posts, avail, used, seen, acked, kicked, resets>>
card == <<phase, last, cur, mp, int>>
rxRing == <<rxSlot, rxHead, rxTail>>
txRing == <<txSlot, txLen, txHead, txTail>>
rings == <<rxRing, txRing>>
thread == <<pushing, popping>>
history == <<pushed, received, sent, popped, overran>>
vars == <<guest, card, rxRing, txRing, thread, history>>

\* A request being walked: its number, the descriptor the card is at and the
\* chunks done of it, the length of the packet received, what the card will
\* report, the chunk it holds, and what it has put into the guest's buffer.
Fresh == [id |-> 0, desc |-> 1, off |-> 0, pkt |-> 0, written |-> 0, chunk |-> None, got |-> <<>>]

Init ==
    /\ ok = FALSE /\ ready = [q \in Queues |-> FALSE]
    /\ posts = [q \in Queues |-> 0]
    /\ avail = [q \in Queues |-> <<>>] /\ used = [q \in Queues |-> <<>>]
    /\ seen = [q \in Queues |-> 0] /\ acked = FALSE /\ kicked = 0 /\ resets = 0
    /\ phase = [q \in Queues |-> "idle"] /\ last = [q \in Queues |-> 0]
    /\ cur = [q \in Queues |-> Fresh] /\ mp = None /\ int = FALSE
    /\ rxSlot = [i \in RxSlots |-> <<>>] /\ rxHead = 0 /\ rxTail = 0
    /\ txSlot = [i \in TxSlots |-> [k \in 1..PktMax |-> None]] /\ txLen = [i \in TxSlots |-> 0]
    /\ txHead = 0 /\ txTail = 0
    /\ pushing = FALSE /\ popping = FALSE
    /\ pushed = 0 /\ received = <<>> /\ sent = <<>> /\ popped = <<>> /\ overran = FALSE

-----------------------------------------------------------------------------
(* The driver. *)

StartOver(q) ==
    /\ phase' = [phase EXCEPT ![q] = "idle"] /\ last' = [last EXCEPT ![q] = 0]
    /\ avail' = [avail EXCEPT ![q] = <<>>] /\ used' = [used EXCEPT ![q] = <<>>]
    /\ seen' = [seen EXCEPT ![q] = 0]
    /\ kicked' = IF q = "tx" THEN 0 ELSE kicked

EnableQueue(q) ==
    /\ ~ready[q] /\ ready' = [ready EXCEPT ![q] = TRUE]
    /\ StartOver(q)
    /\ UNCHANGED <<ok, posts, acked, resets, cur, mp, int, rings, thread, history>>

\* The queue's transfer, if it has one, is aborted.
DisableQueue(q) ==
    /\ ready[q] /\ resets < MaxResets
    /\ resets' = resets + 1
    /\ ready' = [ready EXCEPT ![q] = FALSE]
    /\ StartOver(q) /\ mp' = IF mp = q THEN None ELSE mp
    /\ UNCHANGED <<ok, posts, acked, cur, int, rings, thread, history>>

DriverOk ==
    /\ ~ok /\ ok' = TRUE
    /\ UNCHANGED <<ready, posts, avail, used, seen, acked, kicked, resets, card, rings,
                   thread, history>>

\* The status register is written with 0.  The packet rings stay.
ResetCard ==
    /\ ok /\ resets < MaxResets
    /\ resets' = resets + 1
    /\ ok' = FALSE /\ ready' = [q \in Queues |-> FALSE] /\ int' = FALSE /\ mp' = None
    /\ phase' = [q \in Queues |-> "idle"] /\ last' = [q \in Queues |-> 0]
    /\ cur' = [q \in Queues |-> Fresh]
    /\ avail' = [q \in Queues |-> <<>>] /\ used' = [q \in Queues |-> <<>>]
    /\ seen' = [q \in Queues |-> 0] /\ kicked' = 0
    /\ UNCHANGED <<posts, acked, rings, thread, history>>

Post(q, what) ==
    /\ ready[q] /\ posts[q] < MaxPosts
    /\ posts' = [posts EXCEPT ![q] = @ + 1]
    /\ avail' = [avail EXCEPT ![q] = Append(@, [id |-> posts[q] + 1, what |-> what])]
    /\ UNCHANGED <<ok, ready, used, seen, acked, kicked, resets, card, rings, thread, history>>

\* Only the transmit queue heeds a notification, and only when it is idle.
Kicked(ph) == IF ph = "idle" THEN "avail_idx" ELSE ph
Notify ==
    /\ ok /\ ready["tx"] /\ kicked # Len(avail["tx"])
    /\ kicked' = Len(avail["tx"])
    /\ phase' = [phase EXCEPT !["tx"] = Kicked(@)]
    /\ UNCHANGED <<ok, ready, posts, avail, used, seen, acked, resets, last, cur, mp, int,
                   rings, thread, history>>

\* The interrupt handler: acknowledge, and then look at the used rings.
AckInterrupt ==
    /\ int /\ int' = FALSE /\ acked' = TRUE
    /\ UNCHANGED <<ok, ready, posts, avail, used, seen, kicked, resets, phase, last, cur, mp,
                   rings, thread, history>>

Collect ==
    /\ acked /\ acked' = FALSE
    /\ seen' = [q \in Queues |-> Len(used[q])]
    /\ UNCHANGED <<ok, ready, posts, avail, used, kicked, resets, card, rings, thread, history>>

-----------------------------------------------------------------------------
(* The card. *)

Lesser(a, b) == IF a < b THEN a ELSE b
What(q) == avail[q][last[q] + 1].what

\* The receive queue is looked at on every tick: a packet wakes it.
WakesUp == phase["rx"] = "idle" /\ ready["rx"] /\ ok /\ rxHead # rxTail
Wake ==
    /\ WakesUp
    /\ phase' = [phase EXCEPT !["rx"] = "avail_idx"]
    /\ UNCHANGED <<guest, last, cur, mp, int, rings, thread, history>>

\* What the card takes from the packet it is about to move.
Loaded(q) ==
    LET slot == rxSlot[rxTail % RxRing] IN
    IF q = "rx" /\ phase[q] = "header"
    THEN LET n == Lesser(Len(slot), What(q)) IN [cur[q] EXCEPT !.pkt = n, !.written = n + 1]
    ELSE IF q = "rx" /\ phase[q] = "body" THEN [cur[q] EXCEPT !.chunk = slot[cur[q].off + 1]]
    ELSE cur[q]

\* Begin a transfer; the receive queue goes first.  (A tick looks for a packet
\* before it begins one; a packet that comes in between could as well have come
\* in after the tick began to transmit.)
Start(q) ==
    /\ mp = None /\ phase[q] # "idle"
    /\ q = "tx" => phase["rx"] = "idle" /\ ~WakesUp
    /\ mp' = q
    /\ cur' = [cur EXCEPT ![q] = Loaded(q)]
    /\ UNCHANGED <<guest, phase, last, int, rings, thread, history>>

\* The transfer of q is done; go on to the phase given.
Finish(q, at, to) ==
    /\ mp = q /\ phase[q] = at
    /\ mp' = None /\ phase' = [phase EXCEPT ![q] = to]

ReadAvailIdx(q) ==
    /\ Finish(q, "avail_idx", IF Len(avail[q]) = last[q] THEN "idle" ELSE "ring")
    /\ UNCHANGED <<guest, last, cur, int, rings, thread, history>>

\* Mutant: the length of the last request is carried into the next.
Taken_Carried(q) == [Fresh EXCEPT !.id = avail[q][last[q] + 1].id, !.written = cur[q].written]
Taken(q) == [Fresh EXCEPT !.id = avail[q][last[q] + 1].id]
ReadRing(q) ==
    /\ Finish(q, "ring", "desc")
    /\ cur' = [cur EXCEPT ![q] = Taken(q)]
    /\ UNCHANGED <<guest, last, int, rings, thread, history>>

\* An address beyond the port is not followed, and the request ends there, with
\* the length of what has been read of it.
Descriptor(q) == IF q = "tx" THEN What(q)[cur[q].desc] ELSE What(q)
ReadBadDesc(q) ==
    /\ Finish(q, "desc", "used_elem") /\ Descriptor(q) = Bad
    /\ UNCHANGED <<guest, last, cur, int, rings, thread, history>>

\* A buffer is used only for a packet; one too small for the header goes back.
BufferFor(b) ==
    IF rxHead = rxTail THEN "idle" ELSE IF b = Tiny THEN "used_elem" ELSE "header"
ReadRxDesc ==
    /\ mp = "rx" /\ phase["rx"] = "desc" /\ Descriptor("rx") # Bad
    /\ Finish("rx", "desc", BufferFor(What("rx")))
    /\ cur' = [cur EXCEPT !["rx"].off = 0]
    /\ UNCHANGED <<guest, last, int, rings, thread, history>>

\* An empty descriptor, one with the header only for instance, is stepped over;
\* if it is the last of the chain nothing is sent, whatever has been read.
ReadTxDesc ==
    LET chain == What("tx")
        d == cur["tx"].desc
        empty == chain[d] = 0
        more == d < Len(chain)
    IN
    /\ mp = "tx" /\ phase["tx"] = "desc" /\ Descriptor("tx") # Bad
    /\ Finish("tx", "desc", IF ~empty THEN "body" ELSE IF more THEN "desc" ELSE "used_elem")
    /\ cur' = [cur EXCEPT !["tx"].off = 0, !["tx"].desc = IF empty /\ more THEN d + 1 ELSE d]
    /\ UNCHANGED <<guest, last, int, rings, thread, history>>

WriteHeader ==
    /\ Finish("rx", "header", IF cur["rx"].pkt = 0 THEN "used_elem" ELSE "body")
    /\ UNCHANGED <<guest, last, cur, int, rings, thread, history>>

\* Mutant: what the buffer had no room for is left for the next buffer.
NextTail_Whole(over) ==
    IF over /\ cur["rx"].off + 1 = Len(rxSlot[rxTail % RxRing]) THEN rxTail + 1 ELSE rxTail
NextTail(over) == IF over THEN rxTail + 1 ELSE rxTail

\* A chunk is in the guest's buffer; after the last the packet leaves the ring.
WriteRxChunk ==
    LET c == cur["rx"]
        over == c.off + 1 >= c.pkt
    IN
    /\ Finish("rx", "body", IF over THEN "used_elem" ELSE "body")
    /\ cur' = [cur EXCEPT !["rx"].off = @ + 1, !["rx"].got = Append(@, c.chunk)]
    /\ rxTail' = NextTail(over)
    /\ UNCHANGED <<guest, last, int, rxSlot, rxHead, txRing, thread, history>>

\* A chunk has been read: into the ring, if there is room in slot and ring.
\* The end of the chain commits the packet, if there is room in the ring.
\* Mutant: a packet that is dropped is reported as sent.
Reported_Dropped(written, room) == written
Reported(written, room) == IF room THEN Lesser(written, PktMax) ELSE 0
HasRoom == txHead - txTail < TxRing
ReadTxChunk ==
    LET c == cur["tx"]
        fits == c.written < PktMax
        written == IF fits THEN c.written + 1 ELSE c.written
        over == c.off + 1 >= What("tx")[c.desc]
        more == c.desc < Len(What("tx"))
        commit == over /\ ~more
        h == txHead % TxRing
    IN
    /\ mp = "tx" /\ phase["tx"] = "body"
    /\ Finish("tx", "body", IF ~over THEN "body" ELSE IF more THEN "desc" ELSE "used_elem")
    /\ txSlot' = IF HasRoom /\ fits
                 THEN [txSlot EXCEPT ![h][written] = <<c.id, c.desc, c.off + 1>>] ELSE txSlot
    /\ txLen' = IF commit /\ HasRoom THEN [txLen EXCEPT ![h] = Lesser(written, PktMax)] ELSE txLen
    /\ txHead' = IF commit /\ HasRoom THEN txHead + 1 ELSE txHead
    /\ sent' = IF commit /\ HasRoom THEN Append(sent, [id |-> c.id, what |-> What("tx")]) ELSE sent
    /\ cur' = [cur EXCEPT !["tx"].off = IF over THEN 0 ELSE @ + 1,
                          !["tx"].desc = IF over /\ more THEN @ + 1 ELSE @,
                          !["tx"].written = IF commit THEN Reported(written, HasRoom) ELSE written]
    /\ overran' = (overran \/ ~HasRoom)
    /\ UNCHANGED <<guest, last, int, rxRing, txTail, thread, pushed, received, popped>>

\* The element is in the used ring; the driver sees it with the index.
\* Mutant: the interrupt is raised already.
Raised_Early(q, at) == IF at = "used_elem" THEN TRUE ELSE int
Raised(q, at) == IF at = "used_idx" THEN TRUE ELSE int
WriteUsedElem(q) ==
    /\ Finish(q, "used_elem", "used_idx")
    /\ int' = Raised(q, "used_elem")
    /\ UNCHANGED <<guest, last, cur, rings, thread, history>>

\* Mutants: the queue goes to sleep after one request; the place in the avail
\* ring is not moved on for a request that was given back unused.
After_Sleeps == "idle"
After == "avail_idx"
Advance_IfWritten(q) == IF cur[q].written > 0 THEN last[q] + 1 ELSE last[q]
Advance(q) == last[q] + 1
WriteUsedIdx(q) ==
    /\ Finish(q, "used_idx", After)
    /\ used' = [used EXCEPT ![q] = Append(@, [id |-> cur[q].id, len |-> cur[q].written])]
    /\ last' = [last EXCEPT ![q] = Advance(q)]
    /\ int' = Raised(q, "used_idx")
    /\ received' = IF q = "rx" /\ cur[q].got # <<>> THEN Append(received, cur[q].got) ELSE received
    /\ UNCHANGED <<ok, ready, posts, avail, seen, acked, kicked, resets, cur, rings, thread,
                   pushed, sent, popped, overran>>

-----------------------------------------------------------------------------
(* The back end's thread. *)

\* pushRxPacket: the slot, and then the head.  A packet that finds no room is
\* refused.
Push(n) ==
    /\ ~pushing /\ pushed < MaxPackets /\ rxHead - rxTail < RxRing - 1
    /\ pushing' = TRUE
    /\ rxSlot' = [rxSlot EXCEPT ![rxHead % RxRing] = [k \in 1..n |-> <<pushed + 1, k>>]]
    /\ pushed' = pushed + 1
    /\ UNCHANGED <<guest, card, rxHead, rxTail, txRing, popping, received, sent, popped, overran>>

Pushed ==
    /\ pushing /\ pushing' = FALSE
    /\ rxHead' = rxHead + 1
    /\ UNCHANGED <<guest, card, rxSlot, rxTail, txRing, popping, history>>

\* popTxPacket: the slot is copied, and then given back.
Pop ==
    /\ ~popping /\ txHead # txTail
    /\ popping' = TRUE
    /\ UNCHANGED <<guest, card, rings, pushing, history>>

Popped ==
    /\ popping /\ popping' = FALSE
    /\ popped' = Append(popped, SubSeq(txSlot[txTail % TxRing], 1, txLen[txTail % TxRing]))
    /\ txTail' = txTail + 1
    /\ UNCHANGED <<guest, card, rxRing, txSlot, txLen, txHead, pushing, pushed, received, sent, overran>>

-----------------------------------------------------------------------------
Driver ==
    \/ DriverOk \/ ResetCard \/ Notify \/ AckInterrupt \/ Collect
    \/ \E q \in Queues : EnableQueue(q) \/ DisableQueue(q)
    \/ \E b \in Buffers : Post("rx", b)
    \/ \E c \in Chains : Post("tx", c)

Tick ==
    \/ Wake \/ ReadRxDesc \/ ReadTxDesc \/ WriteHeader \/ WriteRxChunk \/ ReadTxChunk
    \/ \E q \in Queues : \/ Start(q) \/ ReadAvailIdx(q) \/ ReadRing(q) \/ ReadBadDesc(q)
                         \/ WriteUsedElem(q) \/ WriteUsedIdx(q)

Thread == Pushed \/ Pop \/ Popped \/ \E n \in Lengths : Push(n)

Next == Driver \/ Tick \/ Thread
Spec == Init /\ [][Next]_vars
-----------------------------------------------------------------------------
(* Properties. *)

Phases == {"idle", "avail_idx", "ring", "desc", "header", "body", "used_elem", "used_idx"}

TypeOK ==
    /\ ok \in BOOLEAN /\ ready \in [Queues -> BOOLEAN]
    /\ int \in BOOLEAN /\ acked \in BOOLEAN
    /\ phase \in [Queues -> Phases] /\ mp \in Queues \cup {None}
    /\ last \in [Queues -> 0..MaxPosts] /\ seen \in [Queues -> 0..MaxPosts]
    /\ kicked \in 0..MaxPosts /\ posts \in [Queues -> 0..MaxPosts]
    /\ rxHead - rxTail \in 0..(RxRing - 1) /\ txHead - txTail \in 0..TxRing
    /\ txLen \in [TxSlots -> 0..PktMax]
    /\ \A q \in Queues : cur[q].written \in 0..(PktMax + 1)

\* The driver gets every request back once, in the order it made them, and none
\* of an earlier life of the queue.
UsedInOrder == \A q \in Queues :
    /\ Len(used[q]) <= Len(avail[q])
    /\ \A i \in DOMAIN used[q] : used[q][i].id = avail[q][i].id

\* The transmit queue does not fall asleep over a request it was notified of,
\* although it heeds no notification while it is busy.
NoLostKick == phase["tx"] = "idle" => last["tx"] >= kicked

\* A request given back is announced: the interrupt is up, or the handler is
\* about to look, or has looked.
NoLostInterrupt == \A q \in Queues : seen[q] < Len(used[q]) => int \/ acked

\* Neither side waits for a signal the other has given.
SignalsArrive == NoLostKick /\ NoLostInterrupt

\* The guest receives the packets in the order they were pushed, none twice,
\* none mixed with another, cut off only at the end of its buffer; and none is
\* lost unless the driver has reset something.
PacketOf(r) == r[1][1]
RxInOrder ==
    /\ \A i \in DOMAIN received :
         /\ \A k \in DOMAIN received[i] : received[i][k] = <<PacketOf(received[i]), k>>
         /\ PacketOf(received[i]) <= pushed
         /\ resets = 0 => PacketOf(received[i]) = i
    /\ \A i, j \in DOMAIN received : i < j => PacketOf(received[i]) < PacketOf(received[j])

\* Requests and packets keep their order.
InOrder == UsedInOrder /\ RxInOrder

\* A chain that is cut short behind data: by a descriptor beyond the address
\* space, or by an empty one at its end.
CutShort(chain) == \E d \in DOMAIN chain :
    /\ chain[d] = Bad \/ (d = Len(chain) /\ chain[d] = 0)
    /\ \A e \in 1..(d - 1) : chain[e] # Bad
    /\ \E e \in 1..(d - 1) : chain[e] # 0

\* A transmit request comes back with a length if its packet was handed to the
\* back end, and without one if it was dropped or there was none; but one that
\* was cut short behind data also has a length, although nothing was sent of it.
\* None is handed over twice.
SentIsReported ==
    /\ \A i \in DOMAIN used["tx"] : LET u == used["tx"][i] IN
         u.len > 0 <=> \/ \E k \in DOMAIN sent : sent[k].id = u.id
                       \/ CutShort(avail["tx"][i].what)
    /\ \A k \in DOMAIN sent : ~CutShort(sent[k].what)
    /\ \A i, j \in DOMAIN sent : i < j => sent[i].id < sent[j].id

\* What the back end pops is what the driver sent, up to the size of a slot, in
\* the order it was sent.
DataOf(s) == FlattenSeq([d \in DOMAIN s.what |-> [k \in 1..s.what[d] |-> <<s.id, d, k>>]])
TxIntact == \A i \in DOMAIN popped :
    LET data == DataOf(sent[i]) IN popped[i] = SubSeq(data, 1, Lesser(Len(data), PktMax))
\* It is, as long as every chunk has found room in the ring.
IntactUnlessOverrun == ~overran => TxIntact
=============================================================================
