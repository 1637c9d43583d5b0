--------------------------- MODULE VirtioNet_proofs ---------------------------
(* Proofs about VirtioNet, for every number of requests, packets and resets, *)
(* every size of the rings, and every set of chains, buffers and packets.    *)
EXTENDS VirtioNet, WellFoundedInduction, TLAPS

USE DEF Queues

-----------------------------------------------------------------------------
(* The strengthening. *)

Chunk == (Nat \X Nat) \cup {None}
Request == [id : Nat, what : Buffers \cup Chains]
Walk == [id : Nat, desc : Nat, off : Nat, pkt : Nat, written : Nat, chunk : Chunk,
         got : Seq(Chunk)]

\* A chain without a descriptor beyond the address space, and a packet sent.
Whole == {c \in Chains : \A d \in 1..Len(c) : c[d] # Bad}
Sendable == [id : Nat, what : Whole]

GuestTypes ==
    /\ ready \in [Queues -> BOOLEAN] /\ posts \in [Queues -> Nat]
    /\ avail \in [Queues -> Seq(Request)]
    /\ \A i \in 1..Len(avail["rx"]) : avail["rx"][i].what \in Buffers
    /\ \A i \in 1..Len(avail["tx"]) : avail["tx"][i].what \in Chains
    /\ used \in [Queues -> Seq([id : Nat, len : Nat])]
    /\ seen \in [Queues -> Nat] /\ kicked \in Nat /\ resets \in Nat
CardTypes ==
    /\ phase \in [Queues -> Phases] /\ last \in [Queues -> Nat] /\ cur \in [Queues -> Walk]
RingTypes ==
    /\ rxSlot \in [RxSlots -> Seq(Chunk)] /\ rxHead \in Nat /\ rxTail \in Nat
    /\ pushing \in BOOLEAN /\ pushed \in Nat
    /\ received \in Seq(Seq(Chunk)) /\ sent \in Seq(Sendable)
Types == GuestTypes /\ CardTypes /\ RingTypes

\* The card gives back the requests one by one, and holds the one it is at.
Walking == {"desc", "header", "body", "used_elem", "used_idx"}
Ending == {"used_elem", "used_idx"}
QueueInOrder(q) ==
    /\ last[q] <= Len(avail[q]) /\ Len(used[q]) = last[q]
    /\ \A i \in 1..last[q] : used[q][i].id = avail[q][i].id
    /\ phase[q] = "ring" \/ phase[q] \in Walking => last[q] < Len(avail[q])
    /\ phase[q] \in Walking => cur[q].id = avail[q][last[q] + 1].id
    /\ ~ready[q] => phase[q] = "idle"
QueuesInOrder == \A q \in Queues : QueueInOrder(q)

\* The notification that was heeded covers requests the driver has made.
Signals == kicked <= Len(avail["tx"]) /\ SignalsArrive

\* The slots between tail and head hold the packets of their numbers; so does
\* the one that is being filled.
IsPacket(s, n) == Len(s) > 0 /\ \A k \in 1..Len(s) : s[k] = <<n, k>>
RxCounts ==
    /\ pushed = rxHead + (IF pushing THEN 1 ELSE 0)
    /\ rxTail <= rxHead /\ pushed - rxTail <= RxRing - 1
RxPackets == \A t \in rxTail..(pushed - 1) : IsPacket(rxSlot[t % RxRing], t + 1)
RxRingInv == RxCounts /\ RxPackets

\* The packet at the tail is moved chunk by chunk, and leaves the ring before
\* its buffer is given back.
Slot == rxSlot[rxTail % RxRing]
RxWalkInv ==
    /\ phase["rx"] \in {"desc", "header"} => cur["rx"].off = 0 /\ cur["rx"].got = <<>>
    /\ phase["rx"] \in {"header", "body"} => rxTail < rxHead
    /\ phase["rx"] = "header" =>
         What("rx") \in Nat /\ (mp = "rx" => cur["rx"].pkt <= Len(Slot))
    /\ phase["rx"] = "body" =>
         /\ cur["rx"].off < cur["rx"].pkt /\ cur["rx"].pkt <= Len(Slot)
         /\ Len(cur["rx"].got) = cur["rx"].off
         /\ \A k \in 1..cur["rx"].off : cur["rx"].got[k] = <<rxTail + 1, k>>
         /\ mp = "rx" => cur["rx"].chunk = <<rxTail + 1, cur["rx"].off + 1>>
    /\ phase["rx"] \in Ending /\ cur["rx"].got # <<>> =>
         rxTail > 0 /\ IsPacket(cur["rx"].got, rxTail)

\* The packets received, up to the one whose buffer is about to be given back.
Holding == phase["rx"] \in Ending /\ cur["rx"].got # <<>>
Consumed == IF Holding THEN rxTail - 1 ELSE rxTail
ReceivedInv ==
    /\ \A i \in 1..Len(received) : \E n \in 1..Consumed : IsPacket(received[i], n)
    /\ \A i, j \in 1..Len(received) :
         i < j => received[i][1][1] < received[j][1][1]
    /\ resets = 0 =>
         /\ Len(received) = Consumed
         /\ \A i \in 1..Len(received) : IsPacket(received[i], i)

\* A packet can have been sent only for the requests up to the one the card is
\* done with, and of chains that are not cut short; and the card reports a length
\* exactly if it has been sent or was cut short.  Up to there a chain has data
\* behind it exactly if the card has read some.
Settled == last["tx"] + (IF phase["tx"] \in Ending THEN 1 ELSE 0)
WasSent(id) == \E k \in 1..Len(sent) : sent[k].id = id
IdsInv ==
    /\ \A i \in 1..Len(avail["tx"]) : avail["tx"][i].id <= posts["tx"]
    /\ \A i, j \in 1..Len(avail["tx"]) : i < j => avail["tx"][i].id < avail["tx"][j].id
SentInv ==
    /\ \A k \in 1..Len(sent) :
         /\ sent[k].id <= posts["tx"]
         /\ \A j \in 1..Len(avail["tx"]) : j > Settled => sent[k].id < avail["tx"][j].id
    /\ \A i, j \in 1..Len(sent) : i < j => sent[i].id < sent[j].id
    /\ \A k \in 1..Len(sent) : ~CutShort(sent[k].what)
Said(id, len, chain) == len > 0 <=> WasSent(id) \/ CutShort(chain)
ReportInv ==
    /\ \A i \in 1..Len(used["tx"]) :
         Said(used["tx"][i].id, used["tx"][i].len, avail["tx"][i].what)
    /\ phase["tx"] \in Ending => Said(cur["tx"].id, cur["tx"].written, What("tx"))
DataUpTo(chain, n) == \E e \in 1..n : chain[e] # 0
TxWalkInv ==
    /\ phase["tx"] \in {"desc", "body"} =>
         /\ cur["tx"].desc \in 1..Len(What("tx"))
         /\ \A e \in 1..(cur["tx"].desc - 1) : What("tx")[e] # Bad
    /\ phase["tx"] = "desc" =>
         (cur["tx"].written > 0 <=> DataUpTo(What("tx"), cur["tx"].desc - 1))
    /\ phase["tx"] = "body" => What("tx")[cur["tx"].desc] \notin {0, Bad}

TxInv == SentInv /\ ReportInv /\ TxWalkInv

IInv ==
    /\ Types /\ QueuesInOrder /\ Signals
    /\ RxRingInv /\ RxWalkInv /\ ReceivedInv
    /\ IdsInv /\ TxInv

-----------------------------------------------------------------------------
(* Arithmetic of the rings. *)

LEMMA DivMod ==
    ASSUME NEW n \in Nat \ {0}, NEW a \in Nat
    PROVE  a % n \in 0..(n - 1) /\ a \div n \in Nat /\ a = n * (a \div n) + (a % n)
OBVIOUS

LEMMA AtLeastOnce == ASSUME NEW n \in Nat \ {0}, NEW x \in Int, x >= 1 PROVE n * x >= n
OBVIOUS

LEMMA NotOnce == ASSUME NEW n \in Nat \ {0}, NEW x \in Int, x <= 0 PROVE n * x <= 0
OBVIOUS

\* Two packets that are less than a round apart are in different slots.
LEMMA SlotsDiffer ==
    ASSUME NEW n \in Nat \ {0}, NEW a \in Nat, NEW b \in Nat, a > b, a - b < n
    PROVE  a % n # b % n
<1> SUFFICES ASSUME a % n = b % n PROVE FALSE
    OBVIOUS
<1> DEFINE x == a \div n
           y == b \div n
<1>1. x \in Int /\ y \in Int /\ a = n * x + (a % n) /\ b = n * y + (b % n)
    BY DivMod
<1> HIDE DEF x, y
<1>2. a - b = n * (x - y)
    <2>1. a - b = n * x - n * y
        BY <1>1
    <2>2. n * x - n * y = n * (x - y)
        BY <1>1
    <2> QED
        BY <2>1, <2>2
<1>3. CASE x - y >= 1
    BY <1>1, <1>2, <1>3, AtLeastOnce
<1>4. CASE x - y <= 0
    BY <1>1, <1>2, <1>4, NotOnce
<1> QED
    BY <1>1, <1>3, <1>4

LEMMA SlotIsOne == \A t \in Nat : t % RxRing \in RxSlots
BY DivMod, RingAssumption DEF RxSlots

-----------------------------------------------------------------------------
(* Types. *)

\* What the card loads from the ring before it moves it.
LEMMA SlotType == IInv => Slot \in Seq(Chunk)
BY SlotIsOne DEF IInv, Types, RingTypes, Slot

LEMMA WalkKeeps ==
    ASSUME NEW c \in Walk
    PROVE  /\ \A o \in Nat : [c EXCEPT !.off = o] \in Walk
           /\ \A o \in Nat : \A g \in Seq(Chunk) : [c EXCEPT !.off = o, !.got = g] \in Walk
           /\ \A o, d \in Nat : [c EXCEPT !.off = o, !.desc = d] \in Walk
           /\ \A o, d, w \in Nat : [c EXCEPT !.off = o, !.desc = d, !.written = w] \in Walk
           /\ \A p, w \in Nat : [c EXCEPT !.pkt = p, !.written = w] \in Walk
           /\ \A k \in Chunk : [c EXCEPT !.chunk = k] \in Walk
BY DEF Walk

LEMMA CurKeeps ==
    ASSUME cur \in [Queues -> Walk], NEW q \in Queues, NEW c \in Walk, cur' = [cur EXCEPT ![q] = c]
    PROVE  cur' \in [Queues -> Walk]
OBVIOUS

LEMMA LoadedType ==
    ASSUME IInv, NEW q \in Queues PROVE Loaded(q) \in Walk
<1>1. cur[q] \in Walk
    BY DEF IInv, Types, CardTypes
<1>2. CASE q = "rx" /\ phase[q] = "header"
    <2> DEFINE n == Lesser(Len(Slot), What(q))
    <2>1. Len(Slot) \in Nat
        BY SlotType
    <2>2. What("rx") \in Nat
        BY <1>2 DEF IInv, RxWalkInv
    <2>3. n \in Nat /\ n + 1 \in Nat
        BY <1>2, <2>1, <2>2 DEF Lesser
    <2>4. Loaded(q) = [cur[q] EXCEPT !.pkt = n, !.written = n + 1]
        BY <1>2 DEF Loaded, Slot
    <2> HIDE DEF n
    <2>5. [cur[q] EXCEPT !.pkt = n, !.written = n + 1] \in Walk
        BY <1>1, <2>3 DEF Walk
    <2> QED
        BY <2>4, <2>5
<1>3. CASE q = "rx" /\ phase[q] = "body"
    <2>1. cur["rx"].off + 1 \in 1..Len(Slot)
        BY <1>1, <1>3, SlotType DEF IInv, RxWalkInv, Walk
    <2>2. Slot[cur[q].off + 1] \in Chunk
        BY <1>3, <2>1, SlotType
    <2>3. Loaded(q) = [cur[q] EXCEPT !.chunk = Slot[cur[q].off + 1]]
        BY <1>3 DEF Loaded, Slot
    <2> QED
        BY <1>1, <2>2, <2>3, WalkKeeps
<1> QED
    BY <1>1, <1>2, <1>3 DEF Loaded

LEMMA AppendKeeps ==
    ASSUME NEW S, NEW s \in Seq(S), NEW r \in S
    PROVE  /\ Append(s, r) \in Seq(S) /\ Append(s, r) # <<>>
           /\ Len(Append(s, r)) = Len(s) + 1 /\ Append(s, r)[Len(s) + 1] = r
           /\ \A i \in 1..Len(s) : Append(s, r)[i] = s[i]
OBVIOUS

LEMMA ElementIs ==
    ASSUME NEW S, NEW s \in Seq(S), NEW i \in 1..Len(s) PROVE s[i] \in S
OBVIOUS

LEMMA FreshType == Fresh \in Walk
BY DEF Fresh, Walk, Chunk

\* The transmit request the card is at.
LEMMA ChainType ==
    ASSUME IInv, phase["tx"] \in Walking
    PROVE  What("tx") \in Chains /\ What("tx") \in Seq(Nat \cup {Bad})
<1>1. What("tx") \in Chains
    BY DEF IInv, Types, GuestTypes, CardTypes, QueuesInOrder, QueueInOrder, What
<1> QED
    BY <1>1, KindsAssumption

\* Where a chain ends that has nothing unreachable before: it is cut short
\* exactly if it has data before, or it is whole.
LEMMA CutIs ==
    ASSUME NEW chain \in Seq(Nat \cup {Bad}), NEW n \in 1..Len(chain),
           \A e \in 1..(n - 1) : chain[e] # Bad,
           chain[n] = Bad \/ (n = Len(chain) /\ chain[n] = 0)
    PROVE  CutShort(chain) <=> DataUpTo(chain, n - 1)
<1>1. DOMAIN chain = 1..Len(chain) /\ Len(chain) \in Nat /\ Bad # 0
    BY KindsAssumption
<1>2. ASSUME DataUpTo(chain, n - 1) PROVE CutShort(chain)
    BY <1>1, <1>2 DEF CutShort, DataUpTo
<1>3. ASSUME CutShort(chain) PROVE DataUpTo(chain, n - 1)
    <2>1. PICK d \in 1..Len(chain) :
             /\ chain[d] = Bad \/ (d = Len(chain) /\ chain[d] = 0)
             /\ \A e \in 1..(d - 1) : chain[e] # Bad
             /\ \E e \in 1..(d - 1) : chain[e] # 0
        BY <1>1, <1>3 DEF CutShort
    <2>2. PICK m \in Nat : m = Len(chain)
        BY <1>1
    <2>3. d \in 1..m /\ n \in 1..m
        BY <2>1, <2>2
    <2>5. CASE d < n
        <3>1. d \in 1..(n - 1)
            BY <2>3, <2>5
        <3>2. d = m
            BY <2>1, <2>2, <3>1
        <3> QED
            BY <2>3, <2>5, <3>2
    <2>6. CASE n < d
        <3>1. n \in 1..(d - 1)
            BY <2>3, <2>6
        <3>2. n = m
            BY <2>1, <2>2, <3>1
        <3> QED
            BY <2>3, <2>6, <3>2
    <2>4. CASE d = n
        BY <2>1, <2>4 DEF DataUpTo
    <2> QED
        BY <2>3, <2>4, <2>5, <2>6
<1> QED
    BY <1>2, <1>3

LEMMA WholeIs ==
    ASSUME NEW chain \in Chains, chain[Len(chain)] \notin {0, Bad},
           \A e \in 1..(Len(chain) - 1) : chain[e] # Bad
    PROVE  chain \in Whole /\ ~CutShort(chain)
<1>1. DOMAIN chain = 1..Len(chain) /\ Len(chain) \in Nat
    BY KindsAssumption
<1>2. ASSUME NEW n \in Nat PROVE \A e \in 1..n : e \in 1..(n - 1) \/ e = n
    OBVIOUS
<1>5. \A e \in 1..Len(chain) : e \in 1..(Len(chain) - 1) \/ e = Len(chain)
    BY <1>1, <1>2
<1>3. \A e \in 1..Len(chain) : chain[e] # Bad
    BY <1>5
<1>4. ~CutShort(chain)
    BY <1>1, <1>3 DEF CutShort
<1> QED
    BY <1>3, <1>4 DEF Whole

\* The last chunk of the last descriptor is one of a whole chain.
LEMMA LastOfWhole ==
    ASSUME IInv, phase["tx"] = "body", ~(cur["tx"].desc < Len(What("tx")))
    PROVE  What("tx") \in Whole /\ ~CutShort(What("tx"))
<1>1. What("tx") \in Chains /\ Len(What("tx")) \in Nat
    BY ChainType DEF Walking
<1>2. /\ cur["tx"].desc \in 1..Len(What("tx")) /\ What("tx")[cur["tx"].desc] \notin {0, Bad}
      /\ \A e \in 1..(cur["tx"].desc - 1) : What("tx")[e] # Bad
    BY DEF IInv, TxInv, TxWalkInv
<1>3. cur["tx"].desc = Len(What("tx"))
    BY <1>1, <1>2
<1> QED
    BY <1>1, <1>2, <1>3, WholeIs

\* Types are kept: what the driver shares, the card, and the rings.
LEMMA GuestTypesKept == IInv /\ Next => GuestTypes'
<1> SUFFICES ASSUME IInv, Next PROVE GuestTypes'
    OBVIOUS
<1>0. GuestTypes
    BY DEF IInv, Types
<1>1. ASSUME UNCHANGED guest PROVE GuestTypes'
    BY <1>0, <1>1 DEF GuestTypes, guest
<1>2. ASSUME NEW q \in Queues, EnableQueue(q) \/ DisableQueue(q) PROVE GuestTypes'
    <2>a. ready \in [Queues -> BOOLEAN] /\ resets \in Nat
        BY <1>0 DEF GuestTypes
    <2>b. ready' \in [Queues -> BOOLEAN]
        BY <2>a, <1>2 DEF EnableQueue, DisableQueue
    <2>c. resets' \in Nat
        BY <2>a, <1>2 DEF EnableQueue, DisableQueue
    <2>1. /\ posts' = posts
          /\ avail' = [avail EXCEPT ![q] = <<>>] /\ used' = [used EXCEPT ![q] = <<>>]
          /\ seen' = [seen EXCEPT ![q] = 0] /\ kicked' \in {0, kicked}
        BY <1>2 DEF EnableQueue, DisableQueue, StartOver
    <2>2. avail'["rx"] \in {<<>>, avail["rx"]} /\ avail'["tx"] \in {<<>>, avail["tx"]}
        BY <1>0, <2>1 DEF GuestTypes
    <2> QED
        BY <1>0, <2>b, <2>c, <2>1, <2>2 DEF GuestTypes
<1>3. CASE ResetCard
    BY <1>0, <1>3 DEF GuestTypes, ResetCard
<1>4. CASE DriverOk \/ AckInterrupt
    BY <1>0, <1>4 DEF GuestTypes, DriverOk, AckInterrupt
<1>5. CASE Notify
    <2>1. Len(avail["tx"]) \in Nat
        BY <1>0 DEF GuestTypes
    <2> QED
        BY <1>0, <1>5, <2>1 DEF GuestTypes, Notify
<1>11. CASE Collect
    <2>1. \A q \in Queues : Len(used[q]) \in Nat
        BY <1>0 DEF GuestTypes
    <2>2. seen' = [q \in Queues |-> Len(used[q])]
        BY <1>11 DEF Collect
    <2>3. seen' \in [Queues -> Nat]
        BY <2>1, <2>2
    <2> QED
        BY <1>0, <1>11, <2>3 DEF GuestTypes, Collect
<1>6. ASSUME NEW q \in Queues, NEW what \in Buffers \cup Chains, Post(q, what),
             q = "rx" => what \in Buffers, q = "tx" => what \in Chains
      PROVE  GuestTypes'
    <2> DEFINE r == [id |-> posts[q] + 1, what |-> what]
    <2>1. r \in Request /\ r.what = what
        BY <1>0 DEF GuestTypes, Request
    <2>2. avail' = [avail EXCEPT ![q] = Append(@, r)] /\ posts' = [posts EXCEPT ![q] = @ + 1]
          /\ UNCHANGED <<ready, used, seen, kicked, resets>>
        BY <1>6 DEF Post
    <2> HIDE DEF r
    <2>3. avail[q] \in Seq(Request) /\ Append(avail[q], r) \in Seq(Request)
        BY <1>0, <2>1 DEF GuestTypes
    <2>4. avail' \in [Queues -> Seq(Request)] /\ avail'[q] = Append(avail[q], r)
        BY <1>0, <2>2, <2>3 DEF GuestTypes
    <2>5. \A i \in 1..Len(avail'[q]) :
             (i \in 1..Len(avail[q]) /\ avail'[q][i] = avail[q][i]) \/ avail'[q][i] = r
        BY <2>1, <2>3, <2>4
    <2>6. \A p \in Queues : p # q => avail'[p] = avail[p]
        BY <1>0, <2>2 DEF GuestTypes
    <2>7. posts' \in [Queues -> Nat]
        BY <1>0, <2>2 DEF GuestTypes
    <2>8. CASE q = "rx"
        BY <1>0, <1>6, <2>1, <2>2, <2>4, <2>5, <2>6, <2>7, <2>8 DEF GuestTypes
    <2>9. CASE q = "tx"
        BY <1>0, <1>6, <2>1, <2>2, <2>4, <2>5, <2>6, <2>7, <2>9 DEF GuestTypes
    <2> QED
        BY <2>8, <2>9
<1>7. ASSUME NEW q \in Queues, WriteUsedIdx(q) PROVE GuestTypes'
    <2>1. [id |-> cur[q].id, len |-> cur[q].written] \in [id : Nat, len : Nat]
        BY DEF IInv, Types, CardTypes, Walk
    <2> QED
        BY <1>0, <1>7, <2>1 DEF GuestTypes, WriteUsedIdx
<1>8. CASE Driver
    BY <1>2, <1>3, <1>4, <1>5, <1>11, <1>6, <1>8 DEF Driver
<1>9. CASE Tick
    BY <1>1, <1>7, <1>9 DEF Tick, Wake, Start, ReadAvailIdx, ReadRing, ReadBadDesc, ReadRxDesc,
        ReadTxDesc, WriteHeader, WriteRxChunk, ReadTxChunk, WriteUsedElem
<1>10. CASE Thread
    BY <1>1, <1>10 DEF Thread, Push, Pushed, Pop, Popped
<1> QED
    BY <1>8, <1>9, <1>10 DEF Next

LEMMA CardTypesKept == IInv /\ Next => CardTypes'
<1> SUFFICES ASSUME IInv, Next PROVE CardTypes'
    OBVIOUS
<1>0. CardTypes
    BY DEF IInv, Types
<1> USE DEF Phases
<1>1. ASSUME UNCHANGED <<phase, last, cur>> PROVE CardTypes'
    BY <1>0, <1>1 DEF CardTypes
<1>2. CASE Driver
    <2>1. CASE ResetCard
        BY <1>0, <2>1, FreshType DEF CardTypes, ResetCard
    <2>2. ASSUME NEW q \in Queues, EnableQueue(q) \/ DisableQueue(q) PROVE CardTypes'
        BY <1>0, <2>2 DEF CardTypes, EnableQueue, DisableQueue, StartOver
    <2>3. CASE Notify
        BY <1>0, <2>3 DEF CardTypes, Notify, Kicked
    <2> QED
        BY <1>1, <1>2, <2>1, <2>2, <2>3 DEF Driver, DriverOk, AckInterrupt, Collect, Post, card
<1>3. ASSUME NEW q \in Queues, Start(q) PROVE CardTypes'
    BY <1>0, <1>3, LoadedType DEF CardTypes, Start
<1>4. CASE Wake
    BY <1>0, <1>4 DEF CardTypes, Wake
<1>5. ASSUME NEW q \in Queues, ReadAvailIdx(q) \/ ReadBadDesc(q) \/ WriteUsedElem(q)
      PROVE  CardTypes'
    BY <1>0, <1>5 DEF CardTypes, ReadAvailIdx, ReadBadDesc, WriteUsedElem, Finish
<1>6. ASSUME NEW q \in Queues, ReadRing(q) PROVE CardTypes'
    <2>1. avail[q] \in Seq(Request) /\ last[q] + 1 \in 1..Len(avail[q])
        BY <1>0, <1>6 DEF CardTypes, ReadRing, Finish, IInv, QueuesInOrder, QueueInOrder, Types,
            GuestTypes
    <2>2. avail[q][last[q] + 1] \in Request
        BY <2>1
    <2>3. Taken(q) \in Walk
        BY <2>2, FreshType DEF Taken, Walk, Request
    <2> QED
        BY <1>0, <1>6, <2>3 DEF CardTypes, ReadRing, Finish
<1>7. CASE ReadRxDesc
    <2>1. phase' \in [Queues -> Phases] /\ last' = last
        BY <1>0, <1>7 DEF CardTypes, ReadRxDesc, BufferFor, Finish
    <2>2. cur' = [cur EXCEPT !["rx"] = [cur["rx"] EXCEPT !.off = 0]]
        BY <1>7 DEF ReadRxDesc
    <2> QED
        BY <1>0, <2>1, <2>2, WalkKeeps, CurKeeps DEF CardTypes
<1>8. CASE WriteHeader
    BY <1>0, <1>8 DEF CardTypes, WriteHeader, Finish
<1>9. CASE ReadTxDesc
    <2>1. phase' \in [Queues -> Phases] /\ last' = last
        BY <1>0, <1>9 DEF CardTypes, ReadTxDesc, Finish
    <2>2. cur["tx"] \in Walk /\ cur["tx"].desc \in Nat
        BY <1>0 DEF CardTypes, Walk
    <2> DEFINE d == cur["tx"].desc
               next == IF What("tx")[d] = 0 /\ d < Len(What("tx")) THEN d + 1 ELSE d
    <2>3. next \in Nat
        BY <2>2
    <2>4. cur' = [cur EXCEPT !["tx"] = [cur["tx"] EXCEPT !.off = 0, !.desc = next]]
        BY <1>9 DEF ReadTxDesc
    <2> HIDE DEF next
    <2> QED
        BY <1>0, <2>1, <2>2, <2>3, <2>4, WalkKeeps, CurKeeps DEF CardTypes
<1>10. CASE WriteRxChunk
    <2>1. phase' \in [Queues -> Phases] /\ last' = last
        BY <1>0, <1>10 DEF CardTypes, WriteRxChunk, Finish
    <2>2. cur["rx"] \in Walk /\ cur["rx"].off + 1 \in Nat
          /\ Append(cur["rx"].got, cur["rx"].chunk) \in Seq(Chunk)
        BY <1>0 DEF CardTypes, Walk
    <2>3. cur' = [cur EXCEPT !["rx"] = [cur["rx"] EXCEPT
                     !.off = cur["rx"].off + 1, !.got = Append(cur["rx"].got, cur["rx"].chunk)]]
        BY <1>10 DEF WriteRxChunk
    <2> QED
        BY <1>0, <2>1, <2>2, <2>3, WalkKeeps, CurKeeps DEF CardTypes
<1>11. CASE ReadTxChunk
    <2>1. phase' \in [Queues -> Phases] /\ last' = last
        BY <1>0, <1>11 DEF CardTypes, ReadTxChunk, Finish
    <2>2. /\ cur["tx"] \in Walk /\ cur["tx"].written \in Nat /\ cur["tx"].off \in Nat
          /\ cur["tx"].desc \in Nat
        BY <1>0 DEF CardTypes, Walk
    <2>3. PICK o, d, w \in Nat :
             cur' = [cur EXCEPT !["tx"] = [cur["tx"] EXCEPT !.off = o, !.desc = d, !.written = w]]
        <3> DEFINE c == cur["tx"]
                   fits == c.written < PktMax
                   written == IF fits THEN c.written + 1 ELSE c.written
                   over == c.off + 1 >= What("tx")[c.desc]
                   more == c.desc < Len(What("tx"))
                   o == IF over THEN 0 ELSE c.off + 1
                   d == IF over /\ more THEN c.desc + 1 ELSE c.desc
                   w == IF over /\ ~more THEN Reported(written, HasRoom) ELSE written
        <3>1. cur' = [cur EXCEPT !["tx"] = [cur["tx"] EXCEPT !.off = o, !.desc = d, !.written = w]]
            BY <1>11 DEF ReadTxChunk
        <3>2. written \in Nat
            BY <2>2
        <3> HIDE DEF written, over, more
        <3>3. o \in Nat /\ d \in Nat
            BY <2>2
        <3>4. w \in Nat
            BY <3>2, RingAssumption DEF Reported, Lesser
        <3> HIDE DEF o, d, w
        <3> QED
            BY <3>1, <3>3, <3>4
    <2> QED
        BY <1>0, <2>1, <2>2, <2>3, WalkKeeps, CurKeeps DEF CardTypes
<1>12. ASSUME NEW q \in Queues, WriteUsedIdx(q) PROVE CardTypes'
    BY <1>0, <1>12 DEF CardTypes, WriteUsedIdx, After, Advance, Finish
<1>13. CASE Thread
    BY <1>1, <1>13 DEF Thread, Push, Pushed, Pop, Popped, card
<1> QED
    BY <1>2, <1>3, <1>4, <1>5, <1>6, <1>7, <1>8, <1>9, <1>10, <1>11, <1>12, <1>13 DEF Next, Tick

LEMMA RingTypesKept == IInv /\ Next => RingTypes'
<1> SUFFICES ASSUME IInv, Next PROVE RingTypes'
    OBVIOUS
<1>0. RingTypes
    BY DEF IInv, Types
<1>1. ASSUME UNCHANGED <<rxRing, pushing, pushed, received, sent>> PROVE RingTypes'
    BY <1>0, <1>1 DEF RingTypes, rxRing
<1>2. CASE Driver
    BY <1>1, <1>2 DEF Driver, EnableQueue, DisableQueue, DriverOk, ResetCard, Notify, AckInterrupt,
        Collect, Post, rings, thread, history
<1>3. CASE WriteRxChunk
    BY <1>0, <1>3 DEF RingTypes, WriteRxChunk, NextTail, thread, history
<1>4. CASE ReadTxChunk
    <2> DEFINE r == [id |-> cur["tx"].id, what |-> What("tx")]
    <2>1. sent' = sent \/ (sent' = Append(sent, r) /\ ~(cur["tx"].desc < Len(What("tx"))))
        BY <1>4 DEF ReadTxChunk
    <2>2. UNCHANGED <<rxRing, pushing, pushed, received>> /\ phase["tx"] = "body"
        BY <1>4 DEF ReadTxChunk, thread
    <2>3. ~(cur["tx"].desc < Len(What("tx"))) => r \in Sendable
        BY <2>2, LastOfWhole DEF IInv, Types, CardTypes, Walk, Sendable
    <2> HIDE DEF r
    <2>4. sent \in Seq(Sendable)
        BY <1>0 DEF RingTypes
    <2>5. r \in Sendable => Append(sent, r) \in Seq(Sendable)
        BY <2>4, AppendKeeps
    <2>6. sent' \in Seq(Sendable)
        BY <2>1, <2>3, <2>4, <2>5
    <2> QED
        BY <1>0, <2>2, <2>6 DEF RingTypes, rxRing
<1>5. ASSUME NEW q \in Queues, WriteUsedIdx(q) PROVE RingTypes'
    <2>1. cur["rx"].got \in Seq(Chunk)
        BY DEF IInv, Types, CardTypes, Walk
    <2>2. received' \in {received, Append(received, cur["rx"].got)}
          /\ UNCHANGED <<rxRing, pushing, pushed, sent>>
        BY <1>5 DEF WriteUsedIdx, rings, thread
    <2>3. received \in Seq(Seq(Chunk))
        BY <1>0 DEF RingTypes
    <2>4. received' \in Seq(Seq(Chunk))
        BY <2>1, <2>2, <2>3
    <2> QED
        BY <1>0, <2>2, <2>4 DEF RingTypes, rxRing
<1>6. CASE Tick
    BY <1>1, <1>3, <1>4, <1>5, <1>6 DEF Tick, Wake, Start, ReadAvailIdx, ReadRing, ReadBadDesc,
        ReadRxDesc, ReadTxDesc, WriteHeader, WriteUsedElem, rings, thread, history
<1>7. ASSUME NEW n \in Lengths, Push(n) PROVE RingTypes'
    <2> DEFINE s == [k \in 1..n |-> <<pushed + 1, k>>]
    <2>1. n \in Nat /\ \A k \in 1..n : <<pushed + 1, k>> \in Chunk
        BY <1>0, LengthsAssumption, RingAssumption DEF RingTypes, Chunk
    <2>2. s \in [1..n -> Chunk]
        BY <2>1
    <2>3. s \in Seq(Chunk)
        BY <2>1, <2>2
    <2>4. /\ rxSlot' = [rxSlot EXCEPT ![rxHead % RxRing] = s]
          /\ pushing' = TRUE /\ pushed' = pushed + 1 /\ UNCHANGED <<rxHead, rxTail, received, sent>>
        BY <1>7 DEF Push
    <2> HIDE DEF s
    <2>5. rxSlot' \in [RxSlots -> Seq(Chunk)]
        BY <1>0, <2>3, <2>4 DEF RingTypes
    <2>6. pushed' \in Nat
        BY <1>0, <2>4 DEF RingTypes
    <2>7. rxHead' \in Nat /\ rxTail' \in Nat /\ pushing' \in BOOLEAN
        BY <1>0, <2>4 DEF RingTypes
    <2>8. received' \in Seq(Seq(Chunk)) /\ sent' \in Seq(Sendable)
        BY <1>0, <2>4 DEF RingTypes
    <2> QED
        BY <2>5, <2>6, <2>7, <2>8 DEF RingTypes
<1>8. CASE Pushed
    <2>1. rxHead' = rxHead + 1 /\ pushing' = FALSE /\ UNCHANGED <<rxSlot, rxTail, history>>
        BY <1>8 DEF Pushed
    <2>a. rxHead \in Nat
        BY <1>0 DEF RingTypes
    <2>2. rxHead' \in Nat
        BY <2>1, <2>a
    <2>4. pushing' \in BOOLEAN
        BY <2>1, Zenon
    <2>3. UNCHANGED <<rxSlot, rxTail, pushed, received, sent>>
        BY <2>1 DEF history
    <2> QED
        BY <1>0, <2>2, <2>3, <2>4 DEF RingTypes
<1>9. CASE Pop \/ Popped
    BY <1>1, <1>9 DEF Pop, Popped, rings, history
<1> QED
    BY <1>2, <1>6, <1>7, <1>8, <1>9 DEF Next, Thread

-----------------------------------------------------------------------------
(* The queues. *)

\* The steps of the card in the midst of a request.
Move(q) ==
    \/ ReadBadDesc(q) \/ WriteUsedElem(q)
    \/ q = "rx" /\ (ReadRxDesc \/ WriteHeader \/ WriteRxChunk)
    \/ q = "tx" /\ (ReadTxDesc \/ ReadTxChunk)

\* They leave the requests alone, and the walk at its request.
LEMMA MoveStays ==
    ASSUME IInv, NEW q \in Queues, Move(q)
    PROVE  /\ UNCHANGED guest /\ last' = last
           /\ phase[q] \in Walking /\ phase'[q] \in Walking \cup {"idle"}
           /\ q = "tx" => phase'[q] # "idle"
           /\ \A p \in Queues : p # q => phase'[p] = phase[p] /\ cur'[p] = cur[p]
           /\ cur'[q].id = cur[q].id
<1>0. CardTypes
    BY DEF IInv, Types
<1>1. CASE ReadBadDesc(q) \/ WriteUsedElem(q)
    BY <1>0, <1>1 DEF CardTypes, ReadBadDesc, WriteUsedElem, Finish, Walking
<1>2. CASE q = "rx" /\ ReadRxDesc
    <2>1. cur' = [cur EXCEPT !["rx"] = [cur["rx"] EXCEPT !.off = 0]]
        BY <1>2 DEF ReadRxDesc
    <2>2. cur["rx"] \in Walk
        BY <1>0 DEF CardTypes
    <2>3. [cur["rx"] EXCEPT !.off = 0].id = cur["rx"].id
        BY <2>2 DEF Walk
    <2>4. cur'["rx"].id = cur["rx"].id /\ \A p \in Queues : p # "rx" => cur'[p] = cur[p]
        BY <1>0, <2>1, <2>3 DEF CardTypes
    <2> QED
        BY <1>0, <1>2, <2>4 DEF CardTypes, ReadRxDesc, BufferFor, Finish, Walking
<1>3. CASE q = "rx" /\ WriteHeader
    BY <1>0, <1>3 DEF CardTypes, WriteHeader, Finish, Walking
<1>4. CASE q = "rx" /\ WriteRxChunk
    <2> DEFINE o == cur["rx"].off + 1
               g == Append(cur["rx"].got, cur["rx"].chunk)
    <2>1. cur' = [cur EXCEPT !["rx"] = [cur["rx"] EXCEPT !.off = o, !.got = g]]
        BY <1>4 DEF WriteRxChunk
    <2> HIDE DEF o, g
    <2>2. cur["rx"] \in Walk
        BY <1>0 DEF CardTypes
    <2>3. [cur["rx"] EXCEPT !.off = o, !.got = g].id = cur["rx"].id
        BY <2>2 DEF Walk
    <2>4. cur'["rx"].id = cur["rx"].id /\ \A p \in Queues : p # "rx" => cur'[p] = cur[p]
        BY <1>0, <2>1, <2>3 DEF CardTypes
    <2> QED
        BY <1>0, <1>4, <2>4 DEF CardTypes, WriteRxChunk, Finish, Walking
<1>5. CASE q = "tx" /\ ReadTxDesc
    <2> DEFINE d == cur["tx"].desc
               next == IF What("tx")[d] = 0 /\ d < Len(What("tx")) THEN d + 1 ELSE d
    <2>1. cur' = [cur EXCEPT !["tx"] = [cur["tx"] EXCEPT !.off = 0, !.desc = next]]
        BY <1>5 DEF ReadTxDesc
    <2> HIDE DEF next
    <2>2. cur["tx"] \in Walk
        BY <1>0 DEF CardTypes
    <2>3. [cur["tx"] EXCEPT !.off = 0, !.desc = next].id = cur["tx"].id
        BY <2>2 DEF Walk
    <2>4. cur'["tx"].id = cur["tx"].id /\ \A p \in Queues : p # "tx" => cur'[p] = cur[p]
        BY <1>0, <2>1, <2>3 DEF CardTypes
    <2> QED
        BY <1>0, <1>5, <2>4 DEF CardTypes, ReadTxDesc, Finish, Walking
<1>6. CASE q = "tx" /\ ReadTxChunk
    <2>1. PICK c : cur' = [cur EXCEPT !["tx"] = c] /\ c.id = cur["tx"].id
        <3> DEFINE c == cur["tx"]
                   fits == c.written < PktMax
                   written == IF fits THEN c.written + 1 ELSE c.written
                   over == c.off + 1 >= What("tx")[c.desc]
                   more == c.desc < Len(What("tx"))
                   o == IF over THEN 0 ELSE c.off + 1
                   d == IF over /\ more THEN c.desc + 1 ELSE c.desc
                   w == IF over /\ ~more THEN Reported(written, HasRoom) ELSE written
        <3>1. cur' = [cur EXCEPT !["tx"] = [cur["tx"] EXCEPT !.off = o, !.desc = d, !.written = w]]
            BY <1>6 DEF ReadTxChunk
        <3> HIDE DEF o, d, w
        <3>2. cur["tx"] \in Walk
            BY <1>0 DEF CardTypes
        <3>3. [cur["tx"] EXCEPT !.off = o, !.desc = d, !.written = w].id = cur["tx"].id
            BY <3>2 DEF Walk
        <3> QED
            BY <3>1, <3>3
    <2>2. cur'["tx"].id = cur["tx"].id /\ \A p \in Queues : p # "tx" => cur'[p] = cur[p]
        BY <1>0, <2>1 DEF CardTypes
    <2> QED
        BY <1>0, <1>6, <2>2 DEF CardTypes, ReadTxChunk, Finish, Walking
<1> QED
    BY <1>1, <1>2, <1>3, <1>4, <1>5, <1>6 DEF Move

\* What the card loads leaves the walk at its request, too.
LEMMA StartStays ==
    ASSUME IInv, NEW q \in Queues, Start(q)
    PROVE  /\ UNCHANGED <<guest, phase, last, rings, thread, history>>
           /\ \A p \in Queues : cur'[p].id = cur[p].id /\ cur'[p].got = cur[p].got
           /\ \A p \in Queues : p # q => cur'[p] = cur[p]
           /\ cur'[q] = Loaded(q)
<1>0. cur \in [Queues -> Walk]
    BY DEF IInv, Types, CardTypes
<1>1. \A n : LET c == [cur[q] EXCEPT !.pkt = n, !.written = n + 1] IN
              c.id = cur[q].id /\ c.got = cur[q].got
    BY <1>0 DEF Walk
<1>2. \A s : LET c == [cur[q] EXCEPT !.chunk = s] IN c.id = cur[q].id /\ c.got = cur[q].got
    BY <1>0 DEF Walk
<1>3. Loaded(q).id = cur[q].id /\ Loaded(q).got = cur[q].got
    BY <1>1, <1>2 DEF Loaded
<1>4. cur' = [cur EXCEPT ![q] = Loaded(q)]
    BY DEF Start
<1> QED
    BY <1>0, <1>3, <1>4 DEF Start

LEMMA QueueStays ==
    ASSUME IInv, NEW q \in Queues, UNCHANGED <<ready, avail, used, last>>,
           cur'[q].id = cur[q].id,
           \/ phase'[q] = phase[q]
           \/ phase[q] \in Walking /\ phase'[q] \in Walking \cup {"idle"}
    PROVE  QueueInOrder(q)'
BY DEF IInv, QueuesInOrder, QueueInOrder, Walking

LEMMA QueuesKept == IInv /\ Next => QueuesInOrder'
<1> SUFFICES ASSUME IInv, Next, NEW q \in Queues PROVE QueueInOrder(q)'
    BY DEF QueuesInOrder
<1>0. QueueInOrder(q)
    BY DEF IInv, QueuesInOrder
<1>t. GuestTypes /\ CardTypes
    BY DEF IInv, Types
<1>1. ASSUME UNCHANGED <<ready, avail, used, last, phase, cur>> PROVE QueueInOrder(q)'
    BY <1>1, QueueStays
<1>2. CASE ResetCard
    BY <1>2 DEF ResetCard, QueueInOrder, Walking
<1>3. ASSUME NEW p \in Queues, EnableQueue(p) \/ DisableQueue(p) PROVE QueueInOrder(q)'
    <2>1. cur' = cur /\ StartOver(p) /\ (p # q => ready'[q] = ready[q])
        BY <1>3, <1>t DEF EnableQueue, DisableQueue, GuestTypes
    <2>2. CASE p = q
        <3>1. phase'[q] = "idle" /\ last'[q] = 0 /\ avail'[q] = <<>> /\ used'[q] = <<>>
            BY <2>1, <2>2, <1>t DEF StartOver, CardTypes, GuestTypes
        <3> QED
            BY <3>1 DEF QueueInOrder, Walking
    <2>3. CASE p # q
        <3>1. phase'[q] = phase[q] /\ last'[q] = last[q] /\ avail'[q] = avail[q]
              /\ used'[q] = used[q] /\ ready'[q] = ready[q] /\ cur'[q] = cur[q]
            BY <2>1, <2>3, <1>t DEF StartOver, CardTypes, GuestTypes
        <3> QED
            BY <1>0, <3>1 DEF QueueInOrder, Walking
    <2> QED
        BY <2>2, <2>3
<1>4. ASSUME NEW p \in Queues, NEW what, Post(p, what) PROVE QueueInOrder(q)'
    <2>1. /\ avail' = [avail EXCEPT ![p] = Append(avail[p], [id |-> posts[p] + 1, what |-> what])]
          /\ UNCHANGED <<ready, used, last, phase, cur>> /\ ready[p]
        BY <1>4 DEF Post, card
    <2>2. avail[q] \in Seq(Request) /\ last[q] \in Nat
        BY <1>t DEF GuestTypes, CardTypes
    <2>3. Len(avail'[q]) >= Len(avail[q])
          /\ \A i \in 1..Len(avail[q]) : avail'[q][i] = avail[q][i]
        BY <1>t, <2>1, <2>2 DEF GuestTypes
    <2>4. Len(avail'[q]) \in Nat
        BY <1>t, <2>1, <2>2 DEF GuestTypes
    <2> QED
        BY <1>0, <2>1, <2>2, <2>3, <2>4 DEF QueueInOrder, Walking
<1>5. CASE Notify
    BY <1>0, <1>t, <1>5 DEF Notify, Kicked, QueueInOrder, Walking, CardTypes
<1>6. CASE Wake
    BY <1>0, <1>t, <1>6 DEF Wake, WakesUp, QueueInOrder, Walking, CardTypes, guest
<1>7. ASSUME NEW p \in Queues, Start(p) PROVE QueueInOrder(q)'
    BY <1>7, StartStays, QueueStays DEF guest
<1>8. ASSUME NEW p \in Queues, Move(p) PROVE QueueInOrder(q)'
    BY <1>8, MoveStays, QueueStays DEF guest
<1>9. ASSUME NEW p \in Queues, ReadAvailIdx(p) PROVE QueueInOrder(q)'
    <2>1. UNCHANGED <<ready, avail, used, last, cur>> /\ (p # q => phase'[q] = phase[q])
          /\ phase[p] = "avail_idx"
          /\ phase'[p] = IF Len(avail[p]) = last[p] THEN "idle" ELSE "ring"
        BY <1>9, <1>t DEF ReadAvailIdx, Finish, CardTypes, guest
    <2>2. Len(avail[q]) \in Nat /\ last[q] \in Nat
        BY <1>t DEF GuestTypes, CardTypes
    <2> QED
        BY <1>0, <2>1, <2>2 DEF QueueInOrder, Walking
<1>10. ASSUME NEW p \in Queues, ReadRing(p) PROVE QueueInOrder(q)'
    <2>1. UNCHANGED <<ready, avail, used, last>> /\ (p # q => phase'[q] = phase[q])
          /\ phase[p] = "ring" /\ phase'[p] = "desc" /\ (p # q => cur'[q] = cur[q])
          /\ cur'[p] = Taken(p)
        BY <1>10, <1>t DEF ReadRing, Finish, CardTypes, guest
    <2>2. Taken(p).id = avail[p][last[p] + 1].id
        BY DEF Taken, Fresh
    <2> QED
        BY <1>0, <2>1, <2>2 DEF QueueInOrder, Walking
<1>11. ASSUME NEW p \in Queues, WriteUsedIdx(p) PROVE QueueInOrder(q)'
    <2> DEFINE u == [id |-> cur[p].id, len |-> cur[p].written]
    <2>0. u \in [id : Nat, len : Nat] /\ u.id = cur[p].id
        BY <1>t DEF CardTypes, Walk
    <2>1. /\ UNCHANGED <<ready, avail, cur>> /\ phase[p] = "used_idx"
          /\ phase' = [phase EXCEPT ![p] = "avail_idx"]
          /\ used' = [used EXCEPT ![p] = Append(used[p], u)]
          /\ last' = [last EXCEPT ![p] = last[p] + 1]
        BY <1>11 DEF WriteUsedIdx, Finish, After, Advance
    <2> HIDE DEF u
    <2>2. CASE p # q
        <3>1. used'[q] = used[q] /\ last'[q] = last[q] /\ phase'[q] = phase[q]
            BY <1>t, <2>1, <2>2 DEF GuestTypes, CardTypes
        <3> QED
            BY <1>0, <2>1, <3>1 DEF QueueInOrder, Walking
    <2>3. CASE p = q
        <3>1. used'[q] = Append(used[q], u) /\ last'[q] = last[q] + 1
              /\ phase'[q] = "avail_idx"
            BY <1>t, <2>1, <2>3 DEF GuestTypes, CardTypes
        <3>2. used[q] \in Seq([id : Nat, len : Nat]) /\ last[q] \in Nat /\ Len(avail[q]) \in Nat
            BY <1>t DEF GuestTypes, CardTypes
        <3>3. last[q] < Len(avail[q]) /\ u.id = avail[q][last[q] + 1].id
              /\ Len(used[q]) = last[q] /\ ready[q]
            BY <1>0, <2>0, <2>1, <2>3 DEF QueueInOrder, Walking
        <3>4. Len(used'[q]) = last'[q] /\ last'[q] <= Len(avail[q])
            BY <3>1, <3>2, <3>3, <2>0
        <3>5. \A i \in 1..last'[q] : used'[q][i].id = avail[q][i].id
            <4>1. \A i \in 1..last[q] : used'[q][i] = used[q][i]
                BY <3>1, <3>2, <3>3, <2>0
            <4>2. used'[q][last[q] + 1] = u
                BY <3>1, <3>2, <3>3, <2>0
            <4>3. \A i \in 1..last[q] : used[q][i].id = avail[q][i].id
                BY <1>0 DEF QueueInOrder
            <4>4. \A i \in 1..last'[q] : i \in 1..last[q] \/ i = last[q] + 1
                BY <3>1, <3>2
            <4> QED
                BY <2>0, <3>3, <4>1, <4>2, <4>3, <4>4
        <3> QED
            BY <2>1, <3>1, <3>3, <3>4, <3>5 DEF QueueInOrder, Walking
    <2> QED
        BY <2>2, <2>3
<1>12. CASE Thread
    BY <1>1, <1>12 DEF Thread, Push, Pushed, Pop, Popped, guest, card
<1>13. CASE DriverOk \/ AckInterrupt \/ Collect
    BY <1>1, <1>13 DEF DriverOk, AckInterrupt, Collect, card
<1> QED
    BY <1>2, <1>3, <1>4, <1>5, <1>6, <1>7, <1>8, <1>9, <1>10, <1>11, <1>12, <1>13
    DEF Next, Driver, Tick, Move

-----------------------------------------------------------------------------
(* The signals. *)

LEMMA SignalsStay ==
    ASSUME Signals, UNCHANGED <<kicked, avail, last, seen, used, int, acked>>,
           phase'["tx"] = "idle" => phase["tx"] = "idle"
    PROVE  Signals'
BY DEF Signals, SignalsArrive, NoLostKick, NoLostInterrupt

LEMMA SignalsKept == IInv /\ Next => Signals'
<1> SUFFICES ASSUME IInv, Next PROVE Signals'
    OBVIOUS
<1>0. Signals /\ GuestTypes /\ CardTypes
    BY DEF IInv, Types
<1>l. Len(avail["tx"]) \in Nat /\ last["tx"] \in Nat /\ kicked \in Nat
      /\ \A q \in Queues : Len(used[q]) \in Nat /\ seen[q] \in Nat
    BY <1>0 DEF GuestTypes, CardTypes
<1>1. ASSUME UNCHANGED <<kicked, avail, last, seen, used, int, acked, phase>> PROVE Signals'
    BY <1>0, <1>1, SignalsStay
<1>2. CASE ResetCard
    BY <1>2 DEF ResetCard, Signals, SignalsArrive, NoLostKick, NoLostInterrupt
<1>3. ASSUME NEW p \in Queues, EnableQueue(p) \/ DisableQueue(p) PROVE Signals'
    <2>1. /\ UNCHANGED <<int, acked>> /\ StartOver(p)
        BY <1>3 DEF EnableQueue, DisableQueue
    <2>2. /\ used'[p] = <<>> /\ seen'[p] = 0
          /\ \A q \in Queues : q # p => used'[q] = used[q] /\ seen'[q] = seen[q]
        BY <2>1, <1>0 DEF StartOver, GuestTypes
    <2>3. NoLostInterrupt'
        <3>1. ASSUME NEW q \in Queues PROVE (seen[q] < Len(used[q]) => int \/ acked)'
            <4>1. CASE q = p
                BY <2>2, <4>1
            <4>2. CASE q # p
                <5>1. used'[q] = used[q] /\ seen'[q] = seen[q]
                    BY <2>2, <4>2
                <5>2. seen[q] < Len(used[q]) => int \/ acked
                    BY <1>0 DEF Signals, SignalsArrive, NoLostInterrupt
                <5> QED
                    BY <2>1, <5>1, <5>2
            <4> QED
                BY <4>1, <4>2
        <3> QED
            BY <3>1 DEF NoLostInterrupt
    <2>4. CASE p = "tx"
        <3>1. kicked' = 0 /\ last'["tx"] = 0 /\ avail'["tx"] = <<>>
            BY <2>1, <2>4, <1>0 DEF StartOver, GuestTypes, CardTypes
        <3> QED
            BY <2>3, <3>1 DEF Signals, SignalsArrive, NoLostKick
    <2>5. CASE p # "tx"
        <3>1. kicked' = kicked /\ last'["tx"] = last["tx"] /\ avail'["tx"] = avail["tx"]
              /\ phase'["tx"] = phase["tx"]
            BY <2>1, <2>5, <1>0 DEF StartOver, GuestTypes, CardTypes
        <3> QED
            BY <1>0, <2>3, <3>1 DEF Signals, SignalsArrive, NoLostKick
    <2> QED
        BY <2>4, <2>5
<1>4. ASSUME NEW p \in Queues, NEW what, Post(p, what) PROVE Signals'
    <2>1. UNCHANGED <<kicked, last, seen, used, int, acked, phase>>
        BY <1>4 DEF Post, card
    <2>2. NoLostKick' /\ NoLostInterrupt'
        BY <1>0, <2>1 DEF Signals, SignalsArrive, NoLostKick, NoLostInterrupt
    <2>3. avail' = [avail EXCEPT ![p] = Append(avail[p], [id |-> posts[p] + 1, what |-> what])]
        BY <1>4 DEF Post
    <2>4. avail["tx"] \in Seq(Request)
        BY <1>0 DEF GuestTypes
    <2>5. Len(avail'["tx"]) \in {Len(avail["tx"]), Len(avail["tx"]) + 1}
        BY <1>0, <2>3, <2>4 DEF GuestTypes
    <2> QED
        BY <1>0, <1>l, <2>1, <2>2, <2>5 DEF Signals, SignalsArrive
<1>5. CASE Notify
    <2>1. /\ kicked' = Len(avail["tx"]) /\ UNCHANGED <<avail, last, seen, used, int, acked>>
          /\ phase'["tx"] # "idle"
        BY <1>0, <1>5 DEF Notify, Kicked, CardTypes
    <2> QED
        BY <1>0, <1>l, <2>1 DEF Signals, SignalsArrive, NoLostKick, NoLostInterrupt
<1>6. CASE AckInterrupt
    BY <1>0, <1>6 DEF AckInterrupt, Signals, SignalsArrive, NoLostKick, NoLostInterrupt
<1>7. CASE Collect
    <2>1. UNCHANGED <<kicked, avail, last, used, phase>>
          /\ \A q \in Queues : seen'[q] = Len(used[q])
        BY <1>7 DEF Collect, card
    <2> QED
        BY <1>0, <1>l, <2>1 DEF Signals, SignalsArrive, NoLostKick, NoLostInterrupt
<1>8. CASE Wake
    <2>1. UNCHANGED <<kicked, avail, last, seen, used, int, acked>>
          /\ phase'["tx"] = phase["tx"]
        BY <1>0, <1>8 DEF Wake, CardTypes, guest
    <2> QED
        BY <1>0, <2>1, SignalsStay
<1>9. ASSUME NEW p \in Queues, Start(p) PROVE Signals'
    BY <1>1, <1>9 DEF Start, guest
<1>10. ASSUME NEW p \in Queues, Move(p) PROVE Signals'
    <2>1. int' = int
        BY <1>10 DEF Move, ReadBadDesc, WriteUsedElem, Raised, ReadRxDesc, WriteHeader,
            WriteRxChunk, ReadTxDesc, ReadTxChunk
    <2>2. UNCHANGED <<kicked, avail, last, seen, used, acked>>
          /\ (phase'["tx"] = "idle" => phase["tx"] = "idle")
        BY <1>10, MoveStays DEF guest, Walking
    <2> QED
        BY <1>0, <2>1, <2>2, SignalsStay
<1>11. ASSUME NEW p \in Queues, ReadAvailIdx(p) PROVE Signals'
    <2>1. /\ UNCHANGED <<kicked, avail, last, seen, used, int, acked>>
          /\ phase'["tx"] = "idle" => \/ phase["tx"] = "idle"
                                      \/ Len(avail["tx"]) = last["tx"]
        BY <1>0, <1>11 DEF ReadAvailIdx, Finish, CardTypes, guest
    <2> QED
        BY <1>0, <1>l, <2>1 DEF Signals, SignalsArrive, NoLostKick, NoLostInterrupt
<1>12. ASSUME NEW p \in Queues, ReadRing(p) PROVE Signals'
    <2>1. UNCHANGED <<kicked, avail, last, seen, used, int, acked>>
          /\ (phase'["tx"] = "idle" => phase["tx"] = "idle")
        BY <1>0, <1>12 DEF ReadRing, Finish, CardTypes, guest
    <2> QED
        BY <1>0, <2>1, SignalsStay
<1>13. ASSUME NEW p \in Queues, WriteUsedIdx(p) PROVE Signals'
    <2>1. /\ UNCHANGED <<kicked, avail, seen, acked>> /\ int' = TRUE
          /\ phase'["tx"] = "idle" => phase["tx"] = "idle"
          /\ last'["tx"] \in {last["tx"], last["tx"] + 1}
        BY <1>0, <1>13 DEF WriteUsedIdx, Finish, After, Advance, Raised, CardTypes
    <2> QED
        BY <1>0, <1>l, <2>1 DEF Signals, SignalsArrive, NoLostKick, NoLostInterrupt
<1>14. CASE Thread
    BY <1>1, <1>14 DEF Thread, Push, Pushed, Pop, Popped, guest, card
<1>15. CASE DriverOk
    BY <1>1, <1>15 DEF DriverOk, card
<1> QED
    BY <1>2, <1>3, <1>4, <1>5, <1>6, <1>7, <1>8, <1>9, <1>10, <1>11, <1>12, <1>13, <1>14, <1>15
    DEF Next, Driver, Tick, Move

-----------------------------------------------------------------------------
(* The ring of the received packets. *)

\* The slot the thread fills is not one of those in use.
LEMMA SlotsStay ==
    ASSUME IInv, NEW n \in Lengths, Push(n), NEW t \in rxTail..(rxHead - 1)
    PROVE  rxSlot'[t % RxRing] = rxSlot[t % RxRing]
<1>1. rxSlot \in [RxSlots -> Seq(Chunk)] /\ rxHead \in Nat /\ rxTail \in Nat
    BY DEF IInv, Types, RingTypes
<1>2. t \in Nat /\ rxHead > t /\ rxHead - t < RxRing /\ RxRing \in Nat \ {0}
    BY <1>1, RingAssumption DEF Push
<1> DEFINE i == t % RxRing
           j == rxHead % RxRing
<1>3. i \in RxSlots /\ j \in RxSlots /\ i # j
    BY <1>1, <1>2, SlotIsOne, SlotsDiffer
<1>4. PICK s : rxSlot' = [rxSlot EXCEPT ![j] = s]
    BY DEF Push
<1> HIDE DEF i, j
<1>5. rxSlot'[i] = rxSlot[i]
    BY <1>1, <1>3, <1>4
<1> QED
    BY <1>5 DEF i

\* What the thread puts into it is the packet of the next number.
LEMMA SlotIsFilled ==
    ASSUME IInv, NEW n \in Lengths, Push(n)
    PROVE  IsPacket(rxSlot'[rxHead % RxRing], pushed + 1)
<1> DEFINE s == [k \in 1..n |-> <<pushed + 1, k>>]
           j == rxHead % RxRing
<1>1. rxSlot \in [RxSlots -> Seq(Chunk)] /\ rxHead \in Nat
    BY DEF IInv, Types, RingTypes
<1>2. j \in RxSlots
    BY <1>1, SlotIsOne
<1>3. n \in Nat /\ n > 0
    BY LengthsAssumption, RingAssumption
<1>4. Len(s) = n /\ \A k \in 1..n : s[k] = <<pushed + 1, k>>
    BY <1>3
<1>5. rxSlot' = [rxSlot EXCEPT ![j] = s]
    BY DEF Push
<1> HIDE DEF s, j
<1>6. rxSlot'[j] = s
    BY <1>1, <1>2, <1>5
<1> QED
    BY <1>3, <1>4, <1>6 DEF j, IsPacket

LEMMA RxRingStays ==
    ASSUME RxRingInv, UNCHANGED <<pushed, pushing, rxHead, rxTail, rxSlot>>
    PROVE  RxRingInv'
BY DEF RxRingInv, RxCounts, RxPackets

LEMMA RxRingKept == IInv /\ Next => RxRingInv'
<1> SUFFICES ASSUME IInv, Next PROVE RxRingInv'
    OBVIOUS
<1>0. RxRingInv /\ RxCounts /\ RxPackets
    BY DEF IInv, RxRingInv
<1>t. rxHead \in Nat /\ rxTail \in Nat /\ pushed \in Nat /\ RxRing \in Nat
    BY RingAssumption DEF IInv, Types, RingTypes
<1>1. ASSUME UNCHANGED <<pushed, pushing, rxRing>> PROVE RxRingInv'
    BY <1>0, <1>1, RxRingStays DEF rxRing
<1>2. CASE Driver
    BY <1>1, <1>2 DEF Driver, EnableQueue, DisableQueue, DriverOk, ResetCard, Notify, AckInterrupt,
        Collect, Post, rings, thread, history
<1>3. CASE WriteRxChunk
    <2>1. phase["rx"] = "body" /\ UNCHANGED <<pushed, pushing, rxHead, rxSlot>>
          /\ rxTail' \in {rxTail, rxTail + 1}
        BY <1>3 DEF WriteRxChunk, Finish, NextTail, thread, history
    <2>2. rxTail < rxHead
        BY <2>1 DEF IInv, RxWalkInv
    <2>3. RxCounts'
        <3>1. pushed' = rxHead' + (IF pushing' THEN 1 ELSE 0)
            BY <1>0, <2>1 DEF RxCounts
        <3>2. rxTail <= rxHead /\ pushed - rxTail <= RxRing - 1
            BY <1>0 DEF RxCounts
        <3>3. pushed' = pushed /\ rxHead' = rxHead /\ rxTail' \in {rxTail, rxTail + 1}
            BY <2>1
        <3>4. rxTail' <= rxHead'
            BY <1>t, <2>2, <3>2, <3>3
        <3>5. pushed' - rxTail' <= RxRing - 1
            <4>1. CASE rxTail' = rxTail
                BY <1>t, <3>2, <3>3, <4>1
            <4>2. CASE rxTail' = rxTail + 1
                <5>1. pushed - (rxTail + 1) <= RxRing - 1
                    BY <1>t, <3>2
                <5> QED
                    BY <3>3, <4>2, <5>1
            <4> QED
                BY <3>3, <4>1, <4>2
        <3> QED
            BY <3>1, <3>4, <3>5 DEF RxCounts
    <2>4. \A t \in rxTail'..(pushed' - 1) : t \in rxTail..(pushed - 1)
        BY <1>t, <2>1
    <2> QED
        BY <1>0, <2>1, <2>3, <2>4 DEF RxRingInv, RxPackets
<1>4. CASE Tick
    BY <1>1, <1>3, <1>4 DEF Tick, Wake, Start, ReadAvailIdx, ReadRing, ReadBadDesc, ReadTxChunk,
        ReadRxDesc, ReadTxDesc, WriteHeader, WriteUsedElem, WriteUsedIdx, rings, thread, history
<1>5. ASSUME NEW n \in Lengths, Push(n) PROVE RxRingInv'
    <2>1. /\ pushed = rxHead /\ pushed' = pushed + 1 /\ pushing' = TRUE
          /\ UNCHANGED <<rxHead, rxTail>> /\ rxHead - rxTail < RxRing - 1
        <3>1. ~pushing /\ pushed = rxHead + (IF pushing THEN 1 ELSE 0)
            BY <1>0, <1>5 DEF Push, RxCounts
        <3>2. pushed = rxHead
            BY <1>t, <3>1
        <3> QED
            BY <1>5, <3>2 DEF Push
    <2>2. ASSUME NEW t \in rxTail'..(pushed' - 1) PROVE IsPacket(rxSlot'[t % RxRing], t + 1)
        <3>1. CASE t = rxHead
            BY <1>5, <2>1, <3>1, SlotIsFilled
        <3>2. CASE t # rxHead
            <4>1. t \in rxTail..(rxHead - 1) /\ t \in rxTail..(pushed - 1)
                BY <1>t, <2>1, <3>2
            <4>2. rxSlot'[t % RxRing] = rxSlot[t % RxRing]
                BY <1>5, <4>1, SlotsStay
            <4> QED
                BY <1>0, <4>1, <4>2 DEF RxPackets
        <3> QED
            BY <3>1, <3>2
    <2>3. pushed' = rxHead' + 1 /\ pushed' - rxTail' <= RxRing - 1 /\ rxTail' <= rxHead'
        BY <1>0, <1>t, <2>1 DEF RxCounts
    <2> QED
        BY <2>1, <2>2, <2>3 DEF RxRingInv, RxCounts, RxPackets
<1>6. CASE Pushed
    <2>1. /\ pushed = rxHead + 1 /\ rxHead' = rxHead + 1 /\ pushing' = FALSE
          /\ UNCHANGED <<pushed, rxTail, rxSlot>>
        BY <1>0, <1>6 DEF Pushed, RxCounts, history
    <2>2. RxCounts'
        BY <1>0, <1>t, <2>1 DEF RxCounts
    <2> QED
        BY <1>0, <2>1, <2>2 DEF RxRingInv, RxPackets
<1>7. CASE Pop \/ Popped
    BY <1>1, <1>7 DEF Pop, Popped, rings, history
<1> QED
    BY <1>2, <1>4, <1>5, <1>6, <1>7 DEF Next, Thread

-----------------------------------------------------------------------------
(* The packet at the tail, on its way into a buffer. *)

LEMMA RxWalkStays ==
    ASSUME RxWalkInv, phase'["rx"] = phase["rx"], cur'["rx"] = cur["rx"], rxTail' = rxTail,
           phase["rx"] \in {"header", "body"} => rxTail < rxHead' /\ Slot' = Slot,
           phase["rx"] = "header" => What("rx")' = What("rx"),
           mp' = "rx" => mp = "rx"
    PROVE  RxWalkInv'
BY DEF RxWalkInv, Ending

\* Most steps leave the receive queue and the ring alone.
LEMMA RxWalkFrame ==
    ASSUME RxWalkInv, phase'["rx"] = phase["rx"], cur'["rx"] = cur["rx"], mp' = "rx" => mp = "rx",
           UNCHANGED rxRing, avail'["rx"] = avail["rx"], last'["rx"] = last["rx"]
    PROVE  RxWalkInv'
<1>1. UNCHANGED <<rxSlot, rxHead, rxTail>>
    BY DEF rxRing
<1>2. Slot' = Slot /\ What("rx")' = What("rx")
    BY <1>1 DEF Slot, What
<1>3. phase["rx"] \in {"header", "body"} => rxTail < rxHead'
    BY <1>1 DEF RxWalkInv
<1> QED
    BY <1>1, <1>2, <1>3, RxWalkStays

\* A queue that is not at a request has nothing to keep.
LEMMA RxWalkRests == phase'["rx"] \in {"idle", "avail_idx", "ring"} => RxWalkInv'
BY DEF RxWalkInv, Ending

\* The packet at the tail.
LEMMA TailPacket ==
    ASSUME IInv, rxTail < rxHead
    PROVE  /\ IsPacket(Slot, rxTail + 1)
           /\ \A n \in Lengths : Push(n) => Slot' = Slot
<1>1. rxHead \in Nat /\ rxTail \in Nat /\ pushed \in Nat
    BY DEF IInv, Types, RingTypes
<1>2. RxPackets /\ pushed = rxHead + (IF pushing THEN 1 ELSE 0)
    BY DEF IInv, RxRingInv, RxCounts
<1>3. rxTail \in rxTail..(pushed - 1) /\ rxTail \in rxTail..(rxHead - 1)
    BY <1>1, <1>2
<1>4. IsPacket(Slot, rxTail + 1)
    BY <1>2, <1>3 DEF RxPackets, Slot
<1>5. ASSUME NEW n \in Lengths, Push(n) PROVE Slot' = Slot
    <2>1. rxSlot'[rxTail % RxRing] = rxSlot[rxTail % RxRing] /\ rxTail' = rxTail
        BY <1>3, <1>5, SlotsStay DEF Push
    <2> QED
        BY <2>1 DEF Slot
<1> QED
    BY <1>4, <1>5

LEMMA RxWalkOfDriver == IInv /\ Driver => RxWalkInv'
<1> SUFFICES ASSUME IInv, Driver PROVE RxWalkInv'
    OBVIOUS
<1>0. RxWalkInv /\ GuestTypes /\ CardTypes
    BY DEF IInv, Types
<1>1. CASE ResetCard
    BY <1>1, RxWalkRests DEF ResetCard
<1>2. ASSUME NEW q \in Queues, EnableQueue(q) \/ DisableQueue(q) PROVE RxWalkInv'
    <2>1. /\ UNCHANGED <<cur, rxRing>> /\ StartOver(q) /\ (mp' = "rx" => mp = "rx")
        BY <1>2, KindsAssumption DEF EnableQueue, DisableQueue, rings
    <2>2. CASE q = "rx"
        BY <1>0, <2>1, <2>2, RxWalkRests DEF StartOver, CardTypes
    <2>3. CASE q = "tx"
        <3>1. /\ phase'["rx"] = phase["rx"] /\ last'["rx"] = last["rx"]
              /\ avail'["rx"] = avail["rx"]
            BY <1>0, <2>1, <2>3 DEF StartOver, CardTypes, GuestTypes
        <3> QED
            BY <1>0, <2>1, <3>1, RxWalkFrame
    <2> QED
        BY <2>2, <2>3
<1>3. ASSUME NEW q \in Queues, NEW what, Post(q, what) PROVE RxWalkInv'
    <2>1. /\ avail' = [avail EXCEPT ![q] = Append(avail[q], [id |-> posts[q] + 1, what |-> what])]
          /\ UNCHANGED <<phase, last, cur, mp, rxSlot, rxHead, rxTail>>
        BY <1>3 DEF Post, card, rings, rxRing
    <2>2. avail["rx"] \in Seq(Request) /\ last["rx"] \in Nat
        BY <1>0 DEF GuestTypes, CardTypes
    <2>3. ASSUME phase["rx"] = "header" PROVE What("rx")' = What("rx")
        <3>1. last["rx"] + 1 \in 1..Len(avail["rx"])
            BY <2>2, <2>3 DEF IInv, QueuesInOrder, QueueInOrder, Walking
        <3>2. avail'["rx"][last["rx"] + 1] = avail["rx"][last["rx"] + 1]
            BY <1>0, <2>1, <2>2, <3>1 DEF GuestTypes
        <3> QED
            BY <2>1, <3>2 DEF What
    <2>4. Slot' = Slot
        BY <2>1 DEF Slot
    <2>5. phase["rx"] \in {"header", "body"} => rxTail < rxHead'
        BY <1>0, <2>1 DEF RxWalkInv
    <2> QED
        BY <1>0, <2>1, <2>3, <2>4, <2>5, RxWalkStays
<1>4. CASE Notify
    BY <1>0, <1>4, RxWalkFrame DEF Notify, CardTypes, rings
<1>5. CASE DriverOk \/ AckInterrupt \/ Collect
    BY <1>0, <1>5, RxWalkFrame DEF DriverOk, AckInterrupt, Collect, rings, card
<1> QED
    BY <1>1, <1>2, <1>3, <1>4, <1>5 DEF Driver

LEMMA RxWalkOfStart == \A q \in Queues : IInv /\ Start(q) => RxWalkInv'
<1> SUFFICES ASSUME NEW q \in Queues, IInv, Start(q) PROVE RxWalkInv'
    OBVIOUS
<1>0. RxWalkInv /\ cur \in [Queues -> Walk] /\ phase \in [Queues -> Phases]
    BY DEF IInv, Types, CardTypes
<1>1. UNCHANGED <<avail, phase, last, rxSlot, rxHead, rxTail>> /\ UNCHANGED rxRing /\ mp' = q
      /\ phase[q] # "idle"
    BY DEF Start, guest, rings, rxRing
<1>2. CASE q = "tx"
    BY <1>0, <1>1, <1>2, StartStays, RxWalkFrame
<1>3. CASE q = "rx"
    <2>1. cur'["rx"] = Loaded("rx")
        BY <1>3, StartStays
    <2>2. Slot' = Slot /\ What("rx")' = What("rx")
        BY <1>1 DEF Slot, What
    <2>3. CASE phase["rx"] \notin {"header", "body"}
        <3>1. cur'["rx"] = cur["rx"]
            BY <2>1, <2>3 DEF Loaded
        <3> QED
            BY <1>0, <1>1, <2>3, <3>1 DEF RxWalkInv, Ending
    <2>4. CASE phase["rx"] = "header"
        <3> DEFINE n == Lesser(Len(Slot), What("rx"))
        <3>1. cur'["rx"] = [cur["rx"] EXCEPT !.pkt = n, !.written = n + 1]
            BY <2>1, <2>4 DEF Loaded, Slot
        <3>2. Len(Slot) \in Nat /\ What("rx") \in Nat
            BY <1>0, <2>4, SlotType DEF RxWalkInv
        <3>3. n <= Len(Slot)
            BY <3>2 DEF Lesser
        <3> HIDE DEF n
        <3>4. cur'["rx"].pkt = n /\ cur'["rx"].off = cur["rx"].off /\ cur'["rx"].got = cur["rx"].got
            BY <1>0, <3>1 DEF Walk
        <3>5. cur["rx"].off = 0 /\ cur["rx"].got = <<>> /\ rxTail < rxHead
            BY <1>0, <2>4 DEF RxWalkInv
        <3> QED
            BY <1>1, <2>2, <2>4, <3>2, <3>3, <3>4, <3>5 DEF RxWalkInv, Ending
    <2>5. CASE phase["rx"] = "body"
        <3> DEFINE o == cur["rx"].off
                   k == Slot[o + 1]
        <3>1. cur'["rx"] = [cur["rx"] EXCEPT !.chunk = k]
            BY <2>1, <2>5 DEF Loaded, Slot
        <3>2. o \in Nat /\ cur["rx"].pkt \in Nat /\ Len(Slot) \in Nat
            BY <1>0, SlotType DEF Walk
        <3>3. /\ o < cur["rx"].pkt /\ cur["rx"].pkt <= Len(Slot) /\ rxTail < rxHead
              /\ Len(cur["rx"].got) = o
              /\ \A i \in 1..o : cur["rx"].got[i] = <<rxTail + 1, i>>
            BY <1>0, <2>5 DEF RxWalkInv
        <3>4. k = <<rxTail + 1, o + 1>>
            <4>1. o + 1 \in 1..Len(Slot)
                BY <3>2, <3>3
            <4>2. IsPacket(Slot, rxTail + 1)
                BY <3>3, TailPacket
            <4> QED
                BY <4>1, <4>2 DEF IsPacket
        <3> HIDE DEF k
        <3>5. /\ cur'["rx"].pkt = cur["rx"].pkt /\ cur'["rx"].off = o
              /\ cur'["rx"].got = cur["rx"].got /\ cur'["rx"].chunk = k
            BY <1>0, <3>1 DEF Walk
        <3> HIDE DEF o
        <3> QED
            BY <1>1, <2>2, <2>5, <3>3, <3>4, <3>5 DEF RxWalkInv, Ending
    <2> QED
        BY <2>3, <2>4, <2>5
<1> QED
    BY <1>2, <1>3

\* A chunk moved is the next of the packet; the last takes it out of the ring.
LEMMA RxWalkOfChunk == IInv /\ WriteRxChunk => RxWalkInv'
<1> SUFFICES ASSUME IInv, WriteRxChunk PROVE RxWalkInv'
    OBVIOUS
<1> DEFINE c == cur["rx"]
           o == c.off
           g == Append(c.got, c.chunk)
           over == o + 1 >= c.pkt
<1>0. RxWalkInv /\ cur \in [Queues -> Walk] /\ phase \in [Queues -> Phases]
    BY DEF IInv, Types, CardTypes
<1>t. /\ o \in Nat /\ c.pkt \in Nat /\ c.got \in Seq(Chunk) /\ c.chunk \in Chunk
      /\ Len(Slot) \in Nat /\ rxTail \in Nat
    BY <1>0, SlotType DEF Walk, IInv, Types, RingTypes
<1>1. /\ mp = "rx" /\ mp' # "rx" /\ phase["rx"] = "body"
      /\ phase'["rx"] = (IF over THEN "used_elem" ELSE "body")
      /\ cur' = [cur EXCEPT !["rx"] = [c EXCEPT !.off = o + 1, !.got = g]]
      /\ rxTail' = (IF over THEN rxTail + 1 ELSE rxTail)
      /\ UNCHANGED <<rxSlot, rxHead>>
    BY <1>0, KindsAssumption DEF WriteRxChunk, Finish, NextTail
<1>2. /\ o < c.pkt /\ c.pkt <= Len(Slot) /\ rxTail < rxHead /\ Len(c.got) = o
      /\ \A k \in 1..o : c.got[k] = <<rxTail + 1, k>>
      /\ c.chunk = <<rxTail + 1, o + 1>>
    BY <1>0, <1>1 DEF RxWalkInv
<1>3. cur'["rx"].off = o + 1 /\ cur'["rx"].got = g /\ cur'["rx"].pkt = c.pkt
    BY <1>0, <1>1 DEF Walk
<1>4. Len(g) = o + 1 /\ g # <<>>
    <2>1. c.got \in Seq(Chunk) /\ c.chunk \in Chunk /\ Len(c.got) = o
        BY <1>t, <1>2
    <2> HIDE DEF c, o
    <2>2. Len(g) = Len(c.got) + 1 /\ g \in Seq(Chunk)
        BY <2>1, AppendKeeps
    <2>3. Len(c.got) \in Nat
        BY <2>1
    <2> QED
        BY <2>1, <2>2, <2>3
<1>5. ASSUME NEW k \in 1..(o + 1) PROVE g[k] = <<rxTail + 1, k>>
    <2>1. CASE k = o + 1
        <3>1. g[Len(c.got) + 1] = c.chunk
            BY <1>t, AppendKeeps
        <3> QED
            BY <1>2, <2>1, <3>1
    <2>2. CASE k \in 1..o
        <3>1. \A i \in 1..Len(c.got) : g[i] = c.got[i]
            BY <1>t, AppendKeeps
        <3> QED
            BY <1>2, <2>2, <3>1
    <2>3. k = o + 1 \/ k \in 1..o
        BY <1>t
    <2> QED
        BY <2>1, <2>2, <2>3
<1> HIDE DEF g
<1>6. CASE over
    <2>1. rxTail + 1 > 0 /\ IsPacket(g, rxTail + 1)
        BY <1>t, <1>4, <1>5 DEF IsPacket
    <2> QED
        BY <1>1, <1>3, <1>6, <2>1 DEF RxWalkInv, Ending
<1>7. CASE ~over
    <2>1. o + 1 < c.pkt /\ rxTail' = rxTail /\ phase'["rx"] = "body"
        BY <1>t, <1>1, <1>7
    <2>2. Slot' = Slot
        BY <1>1, <2>1 DEF Slot
    <2> QED
        BY <1>1, <1>2, <1>3, <1>4, <1>5, <2>1, <2>2 DEF RxWalkInv, Ending
<1> QED
    BY <1>6, <1>7

LEMMA RxWalkOfDesc == IInv /\ (ReadRxDesc \/ WriteHeader) => RxWalkInv'
<1> SUFFICES ASSUME IInv, ReadRxDesc \/ WriteHeader PROVE RxWalkInv'
    OBVIOUS
<1>0. RxWalkInv /\ CardTypes /\ GuestTypes
    BY DEF IInv, Types
<1>1. CASE ReadRxDesc
    <2>1. /\ phase["rx"] = "desc" /\ What("rx") # Bad /\ mp' # "rx"
          /\ phase'["rx"] = BufferFor(What("rx"))
          /\ cur' = [cur EXCEPT !["rx"] = [cur["rx"] EXCEPT !.off = 0]]
          /\ UNCHANGED <<avail, last, rxHead, rxTail>>
        BY <1>0, <1>1, KindsAssumption
        DEF ReadRxDesc, Descriptor, Finish, CardTypes, guest, rings, rxRing
    <2>2. cur["rx"].got = <<>>
        BY <1>0, <2>1 DEF RxWalkInv
    <2>3. cur'["rx"].off = 0 /\ cur'["rx"].got = <<>>
        BY <1>0, <2>1, <2>2 DEF CardTypes, Walk
    <2>4. What("rx")' = What("rx")
        BY <2>1 DEF What
    <2>5. ASSUME phase'["rx"] = "header" PROVE rxTail < rxHead /\ What("rx") \in Nat
        <3>1. rxHead # rxTail /\ What("rx") # Tiny
            BY <2>1, <2>5 DEF BufferFor
        <3>2. rxTail <= rxHead /\ rxTail \in Nat /\ rxHead \in Nat
            BY DEF IInv, RxRingInv, RxCounts, Types, RingTypes
        <3>3. last["rx"] + 1 \in 1..Len(avail["rx"])
            BY <1>0, <2>1 DEF IInv, QueuesInOrder, QueueInOrder, Walking, GuestTypes, CardTypes
        <3>4. What("rx") \in Buffers
            BY <1>0, <3>3 DEF GuestTypes, What
        <3>5. What("rx") \in Nat
            BY <2>1, <3>1, <3>4, KindsAssumption
        <3> QED
            BY <3>1, <3>2, <3>5
    <2>6. phase'["rx"] \in {"idle", "used_elem", "header"}
        BY <2>1 DEF BufferFor
    <2> QED
        BY <2>1, <2>3, <2>4, <2>5, <2>6 DEF RxWalkInv, Ending
<1>2. CASE WriteHeader
    <2>1. /\ mp = "rx" /\ phase["rx"] = "header" /\ mp' # "rx"
          /\ phase'["rx"] = (IF cur["rx"].pkt = 0 THEN "used_elem" ELSE "body")
          /\ UNCHANGED <<cur, rxSlot, rxHead, rxTail>>
        BY <1>0, <1>2, KindsAssumption DEF WriteHeader, Finish, CardTypes, rings, rxRing
    <2>2. /\ cur["rx"].off = 0 /\ cur["rx"].got = <<>> /\ rxTail < rxHead
          /\ cur["rx"].pkt <= Len(Slot)
        BY <1>0, <2>1 DEF RxWalkInv
    <2>3. cur["rx"].pkt \in Nat
        BY <1>0 DEF CardTypes, Walk
    <2>4. Slot' = Slot
        BY <2>1 DEF Slot
    <2>5. CASE cur["rx"].pkt = 0
        BY <2>1, <2>2, <2>5 DEF RxWalkInv, Ending
    <2>6. CASE cur["rx"].pkt # 0
        <3>1. cur["rx"].off < cur["rx"].pkt /\ Len(cur["rx"].got) = cur["rx"].off
            BY <2>2, <2>3, <2>6
        <3>2. \A k \in 1..cur["rx"].off : cur["rx"].got[k] = <<rxTail + 1, k>>
            BY <2>2
        <3> QED
            BY <2>1, <2>2, <2>4, <2>6, <3>1, <3>2 DEF RxWalkInv, Ending
    <2> QED
        BY <2>5, <2>6
<1> QED
    BY <1>1, <1>2

LEMMA RxWalkKept == IInv /\ Next => RxWalkInv'
<1> SUFFICES ASSUME IInv, Next PROVE RxWalkInv'
    OBVIOUS
<1>0. RxWalkInv /\ CardTypes /\ GuestTypes
    BY DEF IInv, Types
<1>1. CASE Wake
    BY <1>0, <1>1, RxWalkRests DEF Wake, CardTypes
<1>2. ASSUME NEW q \in Queues, ReadAvailIdx(q) \/ WriteUsedIdx(q) PROVE RxWalkInv'
    <2>1. CASE q = "rx"
        BY <1>0, <1>2, <2>1, RxWalkRests DEF ReadAvailIdx, WriteUsedIdx, Finish, After, CardTypes
    <2>2. CASE q = "tx"
        BY <1>0, <1>2, <2>2, RxWalkFrame, KindsAssumption
        DEF ReadAvailIdx, WriteUsedIdx, Finish, Advance, CardTypes, guest, rings
    <2> QED
        BY <2>1, <2>2
<1>3. ASSUME NEW q \in Queues, ReadRing(q) PROVE RxWalkInv'
    <2>1. CASE q = "rx"
        <3>1. phase'["rx"] = "desc" /\ cur'["rx"] = Taken("rx")
            BY <1>0, <1>3, <2>1 DEF ReadRing, Finish, CardTypes
        <3>2. Taken("rx").off = 0 /\ Taken("rx").got = <<>>
            BY DEF Taken, Fresh
        <3> QED
            BY <3>1, <3>2 DEF RxWalkInv, Ending
    <2>2. CASE q = "tx"
        BY <1>0, <1>3, <2>2, RxWalkFrame, KindsAssumption DEF ReadRing, Finish, CardTypes, guest,
            rings
    <2> QED
        BY <2>1, <2>2
<1>4. ASSUME NEW q \in Queues, ReadBadDesc(q) \/ WriteUsedElem(q) PROVE RxWalkInv'
    <2>1. /\ UNCHANGED <<cur, rxRing, avail, last>> /\ mp' # "rx"
          /\ phase' = [phase EXCEPT ![q] = IF phase[q] = "desc" THEN "used_elem" ELSE "used_idx"]
          /\ phase[q] \in {"desc", "used_elem"}
        BY <1>4, KindsAssumption DEF ReadBadDesc, WriteUsedElem, Finish, guest, rings
    <2>2. CASE q = "rx"
        <3>1. phase'["rx"] \in Ending /\ (phase["rx"] = "desc" \/ phase["rx"] \in Ending)
            BY <1>0, <2>1, <2>2 DEF CardTypes, Ending
        <3> QED
            BY <1>0, <2>1, <3>1 DEF RxWalkInv, Ending, rxRing
    <2>3. CASE q = "tx"
        BY <1>0, <2>1, <2>3, RxWalkFrame DEF CardTypes
    <2> QED
        BY <2>2, <2>3
<1>5. CASE ReadTxDesc \/ ReadTxChunk
    <2>1. Move("tx")
        BY <1>5 DEF Move
    <2>2. /\ phase'["rx"] = phase["rx"] /\ cur'["rx"] = cur["rx"] /\ UNCHANGED guest
          /\ last' = last
        BY <2>1, MoveStays
    <2>3. UNCHANGED rxRing /\ mp' # "rx"
        BY <1>5, KindsAssumption DEF ReadTxDesc, ReadTxChunk, Finish, rings
    <2> QED
        BY <1>0, <2>2, <2>3, RxWalkFrame DEF guest
<1>6. ASSUME NEW n \in Lengths, Push(n) PROVE RxWalkInv'
    <2>1. UNCHANGED <<phase, cur, rxTail, rxHead, avail, last, mp>>
        BY <1>6 DEF Push, guest, card
    <2>2. What("rx")' = What("rx")
        BY <2>1 DEF What
    <2>3. phase["rx"] \in {"header", "body"} => rxTail < rxHead /\ Slot' = Slot
        BY <1>0, <1>6, TailPacket DEF RxWalkInv
    <2> QED
        BY <1>0, <2>1, <2>2, <2>3, RxWalkStays
<1>7. CASE Pushed
    <2>1. UNCHANGED <<phase, cur, rxTail, rxSlot, avail, last, mp>> /\ rxHead' = rxHead + 1
        BY <1>7 DEF Pushed, guest, card
    <2>2. What("rx")' = What("rx") /\ Slot' = Slot
        BY <2>1 DEF What, Slot
    <2>3. rxHead \in Nat /\ rxTail \in Nat
        BY DEF IInv, Types, RingTypes
    <2>4. phase["rx"] \in {"header", "body"} => rxTail < rxHead'
        BY <1>0, <2>1, <2>3 DEF RxWalkInv
    <2> QED
        BY <1>0, <2>1, <2>2, <2>4, RxWalkStays
<1>8. CASE Pop \/ Popped
    BY <1>0, <1>8, RxWalkFrame DEF Pop, Popped, guest, card, rings
<1> QED
    BY <1>1, <1>2, <1>3, <1>4, <1>5, <1>6, <1>7, <1>8, RxWalkOfDriver, RxWalkOfStart,
        RxWalkOfChunk, RxWalkOfDesc DEF Next, Tick, Thread

-----------------------------------------------------------------------------
(* The packets received. *)

LEMMA ReceivedStays ==
    ASSUME IInv, received' = received, Consumed' \in {Consumed, Consumed + 1},
           resets' = 0 => resets = 0 /\ Consumed' = Consumed
    PROVE  ReceivedInv'
<1>1. ReceivedInv /\ rxTail \in Nat
    BY DEF IInv, Types, RingTypes
<1>2. Consumed \in Int
    BY <1>1 DEF Consumed
<1>3. 1..Consumed \subseteq 1..Consumed'
    BY <1>2
<1> QED
    BY <1>1, <1>3 DEF ReceivedInv

\* The card holds a packet only when it is about to give back its buffer.
LEMMA HoldingStays ==
    ASSUME rxTail' = rxTail, phase'["rx"] \in Ending <=> phase["rx"] \in Ending,
           cur'["rx"].got = cur["rx"].got
    PROVE  Consumed' = Consumed
BY DEF Consumed, Holding

LEMMA NotHolding ==
    ASSUME rxTail' = rxTail, phase["rx"] \notin Ending, phase'["rx"] \notin Ending
    PROVE  Consumed' = Consumed
BY DEF Consumed, Holding

LEMMA EmptyHanded ==
    ASSUME rxTail' = rxTail, phase["rx"] \notin Ending, cur'["rx"].got = <<>>
    PROVE  Consumed' = Consumed
BY DEF Consumed, Holding

LEMMA ReceivedOfDriver == IInv /\ Driver => ReceivedInv'
<1> SUFFICES ASSUME IInv, Driver PROVE ReceivedInv'
    OBVIOUS
<1>0. CardTypes /\ rxTail \in Nat /\ resets \in Nat
    BY DEF IInv, Types, RingTypes, GuestTypes
<1>1. received' = received /\ rxTail' = rxTail
    BY DEF Driver, EnableQueue, DisableQueue, DriverOk, ResetCard, Notify, AckInterrupt, Collect,
        Post, rings, rxRing, history
\* A queue that is shut down may lose the packet it holds.
<1>2. ASSUME phase'["rx"] = "idle", resets' = resets + 1 PROVE ReceivedInv'
    <2>1. Consumed' = rxTail
        BY <1>1, <1>2 DEF Consumed, Holding, Ending
    <2>2. Consumed \in {rxTail, rxTail - 1}
        BY DEF Consumed
    <2>3. Consumed' \in {Consumed, Consumed + 1}
        BY <1>0, <2>1, <2>2
    <2> QED
        BY <1>0, <1>1, <1>2, <2>3, ReceivedStays
<1>3. ASSUME resets' = resets, phase'["rx"] \in Ending <=> phase["rx"] \in Ending,
             cur'["rx"] = cur["rx"]
      PROVE  ReceivedInv'
    BY <1>1, <1>3, HoldingStays, ReceivedStays
<1>4. CASE ResetCard
    BY <1>2, <1>4 DEF ResetCard
<1>5. ASSUME NEW q \in Queues, DisableQueue(q) PROVE ReceivedInv'
    <2>1. StartOver(q) /\ resets' = resets + 1 /\ cur' = cur
        BY <1>5 DEF DisableQueue
    <2>2. CASE q = "rx"
        BY <1>0, <1>2, <2>1, <2>2 DEF StartOver, CardTypes
    <2>3. CASE q = "tx"
        <3>1. phase'["rx"] = phase["rx"]
            BY <1>0, <2>1, <2>3 DEF StartOver, CardTypes
        <3>2. Consumed' = Consumed
            BY <1>1, <2>1, <3>1, HoldingStays
        <3> QED
            BY <1>0, <1>1, <2>1, <3>2, ReceivedStays
    <2> QED
        BY <2>2, <2>3
<1>6. ASSUME NEW q \in Queues, EnableQueue(q) PROVE ReceivedInv'
    <2>1. StartOver(q) /\ resets' = resets /\ cur' = cur /\ ~ready[q]
        BY <1>6 DEF EnableQueue
    <2>2. phase[q] = "idle"
        BY <2>1 DEF IInv, QueuesInOrder, QueueInOrder
    <2>3. phase'["rx"] = phase["rx"]
        BY <1>0, <2>1, <2>2 DEF StartOver, CardTypes
    <2> QED
        BY <1>3, <2>1, <2>3
<1>7. CASE Notify
    <2>1. phase'["rx"] = phase["rx"]
        BY <1>0, <1>7 DEF Notify, CardTypes
    <2> QED
        BY <1>3, <1>7, <2>1 DEF Notify
<1>8. CASE DriverOk \/ AckInterrupt \/ Collect \/ \E q \in Queues : \E w : Post(q, w)
    BY <1>3, <1>8 DEF DriverOk, AckInterrupt, Collect, Post, card
<1> QED
    BY <1>4, <1>5, <1>6, <1>7, <1>8 DEF Driver

\* The buffer given back holds the next packet.
LEMMA ReceivedOfIdx == IInv /\ WriteUsedIdx("rx") => ReceivedInv'
<1> SUFFICES ASSUME IInv, WriteUsedIdx("rx") PROVE ReceivedInv'
    OBVIOUS
<1> DEFINE g == cur["rx"].got
<1>0. ReceivedInv /\ RxWalkInv /\ CardTypes
    BY DEF IInv, Types
<1>t. rxTail \in Nat /\ received \in Seq(Seq(Chunk)) /\ g \in Seq(Chunk)
    BY DEF IInv, Types, RingTypes, CardTypes, Walk
<1>1. /\ phase["rx"] = "used_idx" /\ phase'["rx"] = "avail_idx" /\ cur' = cur
      /\ resets' = resets /\ rxTail' = rxTail
      /\ received' = (IF g # <<>> THEN Append(received, g) ELSE received)
    BY <1>0 DEF WriteUsedIdx, Finish, After, CardTypes, rings, rxRing
<1>2. Consumed' = rxTail
    BY <1>1 DEF Consumed, Holding, Ending
<1>3. CASE g = <<>>
    <2>1. Consumed = rxTail
        BY <1>3 DEF Consumed, Holding
    <2> QED
        BY <1>1, <1>2, <1>3, <2>1, ReceivedStays
<1>4. CASE g # <<>>
    <2>1. Consumed = rxTail - 1
        BY <1>1, <1>4 DEF Consumed, Holding, Ending
    <2>2. rxTail > 0 /\ IsPacket(g, rxTail)
        BY <1>0, <1>1, <1>4 DEF RxWalkInv, Ending
    <2>3. g[1][1] = rxTail
        <3>1. 1 \in 1..Len(g)
            BY <1>t, <2>2 DEF IsPacket
        <3>2. g[1] = <<rxTail, 1>>
            BY <2>2, <3>1 DEF IsPacket
        <3> QED
            BY <3>2
    <2> DEFINE n == Len(received)
    <2>4. /\ received' = Append(received, g) /\ Len(received') = n + 1 /\ n \in Nat
          /\ received'[n + 1] = g /\ \A i \in 1..n : received'[i] = received[i]
        BY <1>t, <1>1, <1>4, AppendKeeps
    <2> HIDE DEF g, n
    <2>5. ASSUME NEW i \in 1..n
          PROVE  /\ \E m \in 1..(rxTail - 1) : IsPacket(received[i], m)
                 /\ received[i][1][1] < rxTail
        <3>1. PICK m \in 1..(rxTail - 1) : IsPacket(received[i], m)
            BY <1>0, <2>1, <2>5 DEF ReceivedInv, n
        <3>2. received[i] \in Seq(Chunk)
            BY <1>t, <2>5 DEF n
        <3>3. 1 \in 1..Len(received[i])
            BY <3>1, <3>2 DEF IsPacket
        <3>4. received[i][1] = <<m, 1>>
            BY <3>1, <3>3 DEF IsPacket
        <3>5. received[i][1][1] = m
            BY <3>4
        <3> QED
            BY <1>t, <3>1, <3>5
    <2>6. \A i \in 1..(n + 1) : i \in 1..n \/ i = n + 1
        BY <2>4
    <2>7. \A i \in 1..n : \E m \in 1..Consumed' : IsPacket(received'[i], m)
        <3>1. 1..(rxTail - 1) \subseteq 1..Consumed'
            BY <1>t, <1>2
        <3> QED
            BY <2>4, <2>5, <3>1
    <2>8. IsPacket(received'[n + 1], Consumed')
        BY <1>2, <2>2, <2>4
    <2>9. Consumed' \in 1..Consumed'
        BY <1>t, <1>2, <2>2
    <2>10. \A i, j \in 1..(n + 1) : i < j => received'[i][1][1] < received'[j][1][1]
        <3> SUFFICES ASSUME NEW i \in 1..(n + 1), NEW j \in 1..(n + 1), i < j
                     PROVE  received'[i][1][1] < received'[j][1][1]
            OBVIOUS
        <3>1. i \in 1..n
            BY <2>4
        <3>2. CASE j = n + 1
            BY <2>3, <2>4, <2>5, <3>1, <3>2
        <3>3. CASE j \in 1..n
            BY <1>0, <2>4, <3>1, <3>3 DEF ReceivedInv, n
        <3> QED
            BY <2>6, <3>2, <3>3
    <2>11. ASSUME resets' = 0
           PROVE  Len(received') = Consumed' /\ \A i \in 1..(n + 1) : IsPacket(received'[i], i)
        <3>1. n = rxTail - 1 /\ \A i \in 1..n : IsPacket(received[i], i)
            BY <1>0, <1>1, <2>1, <2>11 DEF ReceivedInv, n
        <3>2. n + 1 = rxTail
            BY <1>t, <3>1
        <3> QED
            BY <1>2, <2>2, <2>4, <2>6, <3>1, <3>2
    <2> QED
        BY <2>4, <2>6, <2>7, <2>8, <2>9, <2>10, <2>11 DEF ReceivedInv
<1> QED
    BY <1>3, <1>4

LEMMA ReceivedOfTick == IInv /\ Tick => ReceivedInv'
<1> SUFFICES ASSUME IInv, Tick PROVE ReceivedInv'
    OBVIOUS
<1>0. CardTypes /\ RxWalkInv /\ rxTail \in Nat
    BY DEF IInv, Types, RingTypes
<1>1. ASSUME received' = received, resets' = resets, Consumed' = Consumed PROVE ReceivedInv'
    BY <1>1, ReceivedStays
<1>2. CASE Wake
    <2>1. UNCHANGED <<received, resets, rxTail, cur>>
        BY <1>2 DEF Wake, rings, rxRing, history, guest
    <2>2. phase["rx"] = "idle" /\ phase'["rx"] = "avail_idx"
        BY <1>0, <1>2 DEF Wake, WakesUp, CardTypes
    <2>3. Consumed' = Consumed
        BY <2>1, <2>2, NotHolding DEF Ending
    <2> QED
        BY <1>1, <2>1, <2>3
<1>3. ASSUME NEW q \in Queues, Start(q) PROVE ReceivedInv'
    <2>1. UNCHANGED <<received, resets, rxTail, phase>> /\ cur'["rx"].got = cur["rx"].got
        BY <1>3, StartStays DEF rings, rxRing, history, guest
    <2>2. Consumed' = Consumed
        BY <2>1, HoldingStays
    <2> QED
        BY <1>1, <2>1, <2>2
\* The steps on the transmit queue.
<1>4. ASSUME phase'["rx"] = phase["rx"], cur'["rx"] = cur["rx"],
             UNCHANGED <<received, resets, rxTail>>
      PROVE  ReceivedInv'
    BY <1>1, <1>4, HoldingStays
<1>5. ASSUME NEW q \in Queues, ReadAvailIdx(q) \/ ReadRing(q) PROVE ReceivedInv'
    <2>1. UNCHANGED <<received, resets, rxTail>> /\ phase[q] \in {"avail_idx", "ring"}
          /\ phase'[q] \in {"idle", "ring", "desc"}
        BY <1>0, <1>5 DEF ReadAvailIdx, ReadRing, Finish, CardTypes, rings, rxRing, history, guest
    <2>2. CASE q = "rx"
        <3>1. Consumed' = Consumed
            BY <2>1, <2>2, NotHolding DEF Ending
        <3> QED
            BY <1>1, <2>1, <3>1
    <2>3. CASE q = "tx"
        <3>1. phase'["rx"] = phase["rx"] /\ cur'["rx"] = cur["rx"]
            BY <1>0, <1>5, <2>3 DEF ReadAvailIdx, ReadRing, Finish, CardTypes
        <3> QED
            BY <1>4, <2>1, <3>1
    <2> QED
        BY <2>2, <2>3
<1>6. ASSUME NEW q \in Queues, ReadBadDesc(q) \/ WriteUsedElem(q) PROVE ReceivedInv'
    <2>1. UNCHANGED <<received, resets, rxTail, cur>>
        BY <1>6 DEF ReadBadDesc, WriteUsedElem, rings, rxRing, history, guest
    <2>2. CASE q = "rx" /\ ReadBadDesc(q)
        <3>1. phase["rx"] = "desc"
            BY <2>2 DEF ReadBadDesc, Finish
        <3>2. Consumed' = Consumed
            BY <1>0, <2>1, <3>1, EmptyHanded DEF RxWalkInv, Ending
        <3> QED
            BY <1>1, <2>1, <3>2
    <2>3. CASE q = "rx" /\ WriteUsedElem(q)
        <3>1. phase["rx"] = "used_elem" /\ phase'["rx"] = "used_idx"
            BY <1>0, <2>3 DEF WriteUsedElem, Finish, CardTypes
        <3>2. Consumed' = Consumed
            BY <2>1, <3>1, HoldingStays DEF Ending
        <3> QED
            BY <1>1, <2>1, <3>2
    <2>4. CASE q = "tx"
        <3>1. phase'["rx"] = phase["rx"]
            BY <1>0, <1>6, <2>4 DEF ReadBadDesc, WriteUsedElem, Finish, CardTypes
        <3> QED
            BY <1>4, <2>1, <3>1
    <2> QED
        BY <1>6, <2>2, <2>3, <2>4
<1>7. CASE ReadRxDesc \/ WriteHeader
    <2>1. UNCHANGED <<received, resets, rxTail>>
        BY <1>7 DEF ReadRxDesc, WriteHeader, rings, rxRing, history, guest
    <2>2. phase["rx"] \in {"desc", "header"}
        BY <1>7 DEF ReadRxDesc, WriteHeader, Finish
    <2>3. cur'["rx"].got = cur["rx"].got
        <3>1. CASE ReadRxDesc
            <4>1. cur' = [cur EXCEPT !["rx"] = [cur["rx"] EXCEPT !.off = 0]]
                BY <3>1 DEF ReadRxDesc
            <4> QED
                BY <1>0, <4>1 DEF CardTypes, Walk
        <3>2. CASE WriteHeader
            BY <3>2 DEF WriteHeader
        <3> QED
            BY <1>7, <3>1, <3>2
    <2>4. Consumed' = Consumed
        BY <1>0, <2>1, <2>2, <2>3, EmptyHanded DEF RxWalkInv, Ending
    <2> QED
        BY <1>1, <2>1, <2>4
<1>8. CASE WriteRxChunk
    <2>1. UNCHANGED <<received, resets>> /\ phase["rx"] = "body"
          /\ \/ phase'["rx"] = "body" /\ rxTail' = rxTail
             \/ phase'["rx"] = "used_elem" /\ rxTail' = rxTail + 1
        BY <1>0, <1>8 DEF WriteRxChunk, Finish, NextTail, CardTypes, history, guest
    <2>2. cur'["rx"].got # <<>>
        <3> DEFINE o == cur["rx"].off + 1
                   g == Append(cur["rx"].got, cur["rx"].chunk)
        <3>1. g # <<>>
            <4>1. cur["rx"].got \in Seq(Chunk) /\ cur["rx"].chunk \in Chunk
                BY <1>0 DEF CardTypes, Walk
            <4> QED
                BY <4>1, AppendKeeps
        <3>2. cur' = [cur EXCEPT !["rx"] = [cur["rx"] EXCEPT !.off = o, !.got = g]]
            BY <1>8 DEF WriteRxChunk
        <3> HIDE DEF o, g
        <3>3. cur'["rx"].got = g
            BY <1>0, <3>2 DEF CardTypes, Walk
        <3> QED
            BY <3>1, <3>3
    <2>3. Consumed = rxTail
        BY <2>1 DEF Consumed, Holding, Ending
    <2>4. CASE phase'["rx"] = "body" /\ rxTail' = rxTail
        <3>1. Consumed' = Consumed
            BY <2>1, <2>4, NotHolding DEF Ending
        <3> QED
            BY <1>1, <2>1, <3>1
    <2>5. CASE phase'["rx"] = "used_elem" /\ rxTail' = rxTail + 1
        <3>1. Consumed' = rxTail' - 1
            BY <2>2, <2>5 DEF Consumed, Holding, Ending
        <3>2. Consumed' = Consumed
            BY <1>0, <2>3, <2>5, <3>1
        <3> QED
            BY <1>1, <2>1, <3>2
    <2> QED
        BY <2>1, <2>4, <2>5
<1>9. CASE ReadTxDesc \/ ReadTxChunk
    <2>1. UNCHANGED <<received, resets, rxTail>>
        BY <1>9 DEF ReadTxDesc, ReadTxChunk, rings, rxRing, history, guest
    <2>2. phase'["rx"] = phase["rx"] /\ cur'["rx"] = cur["rx"]
        BY <1>9, MoveStays DEF Move
    <2> QED
        BY <1>4, <2>1, <2>2
<1>10. CASE WriteUsedIdx("tx")
    <2>1. UNCHANGED <<received, resets, rxTail, cur>> /\ phase'["rx"] = phase["rx"]
        BY <1>0, <1>10 DEF WriteUsedIdx, Finish, CardTypes, rings, rxRing
    <2> QED
        BY <1>4, <2>1
<1>11. CASE WriteUsedIdx("rx")
    BY <1>11, ReceivedOfIdx
<1> QED
    BY <1>2, <1>3, <1>5, <1>6, <1>7, <1>8, <1>9, <1>10, <1>11 DEF Tick

LEMMA ReceivedKept == IInv /\ Next => ReceivedInv'
<1> SUFFICES ASSUME IInv, Thread PROVE ReceivedInv'
    BY ReceivedOfDriver, ReceivedOfTick DEF Next
<1>1. UNCHANGED <<received, resets, rxTail, cur, phase>>
    BY DEF Thread, Push, Pushed, Pop, Popped, guest, card, rings, rxRing, history
<1>2. Consumed' = Consumed
    BY <1>1, HoldingStays
<1> QED
    BY <1>1, <1>2, ReceivedStays

-----------------------------------------------------------------------------
(* The packets sent. *)

\* The requests are numbered in the order they are made.
LEMMA IdsKept == IInv /\ Next => IdsInv'
<1> SUFFICES ASSUME IInv, Next PROVE IdsInv'
    OBVIOUS
<1>0. IdsInv /\ GuestTypes
    BY DEF IInv, Types
<1>1. ASSUME avail'["tx"] = avail["tx"], posts'["tx"] = posts["tx"] PROVE IdsInv'
    BY <1>0, <1>1 DEF IdsInv
<1>2. ASSUME avail'["tx"] = <<>> PROVE IdsInv'
    BY <1>2 DEF IdsInv
<1>3. ASSUME NEW q \in Queues, EnableQueue(q) \/ DisableQueue(q) PROVE IdsInv'
    <2>1. posts' = posts /\ avail' = [avail EXCEPT ![q] = <<>>]
        BY <1>3 DEF EnableQueue, DisableQueue, StartOver
    <2>2. avail'["tx"] = avail["tx"] \/ avail'["tx"] = <<>>
        BY <1>0, <2>1 DEF GuestTypes
    <2> QED
        BY <1>1, <1>2, <2>1, <2>2
<1>4. CASE ResetCard
    BY <1>2, <1>4 DEF ResetCard
<1>5. ASSUME NEW q \in Queues, NEW what \in Buffers \cup Chains, Post(q, what) PROVE IdsInv'
    <2>1. /\ avail' = [avail EXCEPT ![q] = Append(avail[q], [id |-> posts[q] + 1, what |-> what])]
          /\ posts' = [posts EXCEPT ![q] = posts[q] + 1]
        BY <1>5 DEF Post
    <2>2. CASE q = "rx"
        BY <1>0, <1>1, <2>1, <2>2 DEF GuestTypes
    <2>3. CASE q = "tx"
        <3> DEFINE a == avail["tx"]
                   r == [id |-> posts["tx"] + 1, what |-> what]
        <3>1. a \in Seq(Request) /\ posts["tx"] \in Nat
            BY <1>0 DEF GuestTypes
        <3>2. r \in Request /\ r.id = posts["tx"] + 1
            BY <3>1 DEF Request
        <3>3. avail'["tx"] = Append(a, r) /\ posts'["tx"] = posts["tx"] + 1
            BY <1>0, <2>1, <2>3 DEF GuestTypes
        <3> HIDE DEF r
        <3>4. /\ Len(avail'["tx"]) = Len(a) + 1 /\ avail'["tx"][Len(a) + 1] = r
              /\ \A i \in 1..Len(a) : avail'["tx"][i] = a[i]
            BY <3>1, <3>2, <3>3, AppendKeeps
        <3>5. \A i \in 1..Len(a) : a[i].id \in Nat /\ a[i].id <= posts["tx"]
            <4>1. \A i \in 1..Len(a) : a[i] \in Request
                BY <3>1
            <4>2. \A i \in 1..Len(a) : a[i].id \in Nat
                BY <4>1 DEF Request
            <4>3. \A i \in 1..Len(a) : a[i].id <= posts["tx"]
                BY <1>0 DEF IdsInv
            <4> QED
                BY <4>2, <4>3
        <3>6. \A i \in 1..(Len(a) + 1) : i \in 1..Len(a) \/ i = Len(a) + 1
            BY <3>1
        <3>7. \A i, j \in 1..Len(a) : i < j => a[i].id < a[j].id
            BY <1>0 DEF IdsInv
        <3>8. \A i \in 1..(Len(a) + 1) : avail'["tx"][i].id <= posts'["tx"]
            BY <3>1, <3>2, <3>3, <3>4, <3>5, <3>6
        <3>9. ASSUME NEW i \in 1..(Len(a) + 1), NEW j \in 1..(Len(a) + 1), i < j
              PROVE  avail'["tx"][i].id < avail'["tx"][j].id
            <4>1. i \in 1..Len(a)
                BY <3>1, <3>9
            <4>2. CASE j = Len(a) + 1
                <5>1. avail'["tx"][i] = a[i] /\ avail'["tx"][j] = r
                    BY <3>4, <4>1, <4>2
                <5>2. a[i].id \in Nat /\ a[i].id < posts["tx"] + 1
                    BY <3>1, <3>5, <4>1
                <5> QED
                    BY <3>2, <5>1, <5>2
            <4>3. CASE j \in 1..Len(a)
                BY <3>4, <3>7, <3>9, <4>1, <4>3
            <4> QED
                BY <3>6, <4>2, <4>3
        <3> QED
            BY <3>4, <3>8, <3>9 DEF IdsInv
    <2> QED
        BY <2>2, <2>3
<1>6. CASE Tick \/ Thread
    BY <1>1, <1>6 DEF Tick, Thread, Wake, Start, ReadAvailIdx, ReadRing, ReadBadDesc, ReadRxDesc,
        ReadTxDesc, WriteHeader, WriteRxChunk, ReadTxChunk, WriteUsedElem, WriteUsedIdx,
        Push, Pushed, Pop, Popped, guest
<1>7. CASE DriverOk \/ Notify \/ AckInterrupt \/ Collect
    BY <1>1, <1>7 DEF DriverOk, Notify, AckInterrupt, Collect
<1> QED
    BY <1>3, <1>4, <1>5, <1>6, <1>7 DEF Next, Driver

\* What is known of the transmit queue.
LEMMA TxFacts ==
    ASSUME IInv
    PROVE  /\ TxInv /\ SentInv /\ ReportInv /\ TxWalkInv /\ IdsInv /\ QueueInOrder("tx")
           /\ avail["tx"] \in Seq(Request) /\ used["tx"] \in Seq([id : Nat, len : Nat])
           /\ cur["tx"] \in Walk /\ last["tx"] \in Nat /\ posts["tx"] \in Nat
           /\ sent \in Seq(Sendable)
           /\ phase \in [Queues -> Phases] /\ cur \in [Queues -> Walk]
           /\ last \in [Queues -> Nat]
BY DEF IInv, TxInv, QueuesInOrder, Types, GuestTypes, CardTypes, RingTypes

LEMMA SentIds == ASSUME IInv PROVE \A k \in 1..Len(sent) : sent[k].id \in Nat
<1>1. \A k \in 1..Len(sent) : sent[k] \in Sendable
    <2>1. sent \in Seq(Sendable)
        BY TxFacts
    <2> QED
        BY <2>1, ElementIs
<1> QED
    BY <1>1 DEF Sendable

\* The packet of the request the card is at is not among those sent.
LEMMA NotYetSent ==
    ASSUME IInv, phase["tx"] \in {"desc", "body"}
    PROVE  /\ cur["tx"].id = avail["tx"][last["tx"] + 1].id
           /\ last["tx"] + 1 \in 1..Len(avail["tx"])
           /\ \A k \in 1..Len(sent) : sent[k].id < cur["tx"].id
           /\ ~WasSent(cur["tx"].id)
<1>1. /\ cur["tx"].id = avail["tx"][last["tx"] + 1].id /\ last["tx"] < Len(avail["tx"])
      /\ last["tx"] \in Nat /\ Len(avail["tx"]) \in Nat
    BY TxFacts DEF QueueInOrder, Walking
<1>2. last["tx"] + 1 \in 1..Len(avail["tx"])
    BY <1>1
<1>3. Settled = last["tx"]
    BY <1>1 DEF Settled, Ending
<1>4. \A k \in 1..Len(sent) : sent[k].id < avail["tx"][last["tx"] + 1].id
    <2>1. last["tx"] + 1 > Settled
        BY <1>1, <1>3
    <2>2. SentInv
        BY TxFacts
    <2> QED
        BY <1>2, <2>1, <2>2 DEF SentInv
<1>5. cur["tx"].id \in Nat
    BY TxFacts DEF Walk
<1> QED
    BY <1>1, <1>2, <1>4, <1>5, SentIds DEF WasSent

LEMMA TxStays ==
    ASSUME TxInv, sent' = sent, avail'["tx"] = avail["tx"], used'["tx"] = used["tx"],
           posts'["tx"] = posts["tx"], last'["tx"] = last["tx"], cur'["tx"] = cur["tx"],
           phase'["tx"] = phase["tx"]
    PROVE  TxInv'
<1>1. What("tx")' = What("tx") /\ Settled' = Settled
    BY DEF What, Settled
<1>2. \A id, len, chain : Said(id, len, chain)' <=> Said(id, len, chain)
    BY DEF Said, WasSent
<1>3. SentInv'
    BY <1>1 DEF TxInv, SentInv
<1>4. ReportInv'
    BY <1>1, <1>2 DEF TxInv, ReportInv
<1>5. TxWalkInv'
    BY <1>1 DEF TxInv, TxWalkInv
<1> QED
    BY <1>3, <1>4, <1>5 DEF TxInv

\* The queue is shut down, or started over.
LEMMA TxGone ==
    ASSUME IInv, sent' = sent, avail'["tx"] = <<>>, used'["tx"] = <<>>,
           posts'["tx"] = posts["tx"], phase'["tx"] = "idle"
    PROVE  TxInv'
<1>3. 1..Len(avail'["tx"]) = {}
    OBVIOUS
<1>1. SentInv'
    BY <1>3, TxFacts DEF SentInv
<1>2. ReportInv' /\ TxWalkInv'
    BY DEF ReportInv, TxWalkInv, Ending
<1> QED
    BY <1>1, <1>2 DEF TxInv

\* The queue is not at a request, before or after.
LEMMA TxRests ==
    ASSUME IInv, sent' = sent, avail'["tx"] = avail["tx"], used'["tx"] = used["tx"],
           posts'["tx"] = posts["tx"], last'["tx"] = last["tx"],
           phase["tx"] \notin Walking, phase'["tx"] \notin Walking
    PROVE  TxInv'
<1>1. Settled' = Settled
    BY DEF Settled, Walking, Ending
<1>2. \A id, len, chain : Said(id, len, chain)' <=> Said(id, len, chain)
    BY DEF Said, WasSent
<1>3. SentInv'
    BY <1>1, TxFacts DEF SentInv
<1>4. ReportInv'
    BY <1>2, TxFacts DEF ReportInv, Walking, Ending
<1>5. TxWalkInv'
    BY DEF TxWalkInv, Walking
<1> QED
    BY <1>3, <1>4, <1>5 DEF TxInv

\* The card is at the request still, and sends nothing.
LEMMA TxGoesOn ==
    ASSUME IInv, sent' = sent, avail'["tx"] = avail["tx"], used'["tx"] = used["tx"],
           posts'["tx"] = posts["tx"], last'["tx"] = last["tx"],
           phase["tx"] \notin Ending, phase'["tx"] \notin Ending, TxWalkInv'
    PROVE  TxInv'
<1>1. Settled' = Settled
    BY DEF Settled
<1>2. \A id, len, chain : Said(id, len, chain)' <=> Said(id, len, chain)
    BY DEF Said, WasSent
<1>3. SentInv'
    BY <1>1, TxFacts DEF SentInv
<1>4. ReportInv'
    BY <1>2, TxFacts DEF ReportInv
<1> QED
    BY <1>3, <1>4 DEF TxInv

\* The card is done with the request, has sent nothing, and reports a length
\* only if the chain is cut short.
LEMMA TxDropped ==
    ASSUME IInv, sent' = sent, avail'["tx"] = avail["tx"], used'["tx"] = used["tx"],
           posts'["tx"] = posts["tx"], last'["tx"] = last["tx"],
           phase["tx"] \in {"desc", "body"}, phase'["tx"] = "used_elem",
           cur'["tx"].id = cur["tx"].id, cur'["tx"].written > 0 <=> CutShort(What("tx"))
    PROVE  TxInv'
<1>1. Settled = last["tx"] /\ Settled' = last["tx"] + 1
    BY TxFacts DEF Settled, Ending
<1>2. \A id, len, chain : Said(id, len, chain)' <=> Said(id, len, chain)
    BY DEF Said, WasSent
<1>3. SentInv'
    <2>1. \A j \in 1..Len(avail["tx"]) : j > last["tx"] + 1 => j > last["tx"]
        BY TxFacts
    <2> QED
        BY <1>1, <2>1, TxFacts DEF SentInv
<1>4. Said(cur["tx"].id, cur'["tx"].written, What("tx"))
    BY NotYetSent DEF Said
<1>7. What("tx")' = What("tx")
    BY DEF What
<1>5. ReportInv'
    BY <1>2, <1>4, <1>7, TxFacts DEF ReportInv, Ending
<1>6. TxWalkInv'
    BY DEF TxWalkInv
<1> QED
    BY <1>3, <1>5, <1>6 DEF TxInv

\* The card is done with the request, and its packet is in the ring.
LEMMA TxSent ==
    ASSUME IInv, NEW r \in Sendable, ~CutShort(r.what), sent' = Append(sent, r),
           avail'["tx"] = avail["tx"], used'["tx"] = used["tx"],
           posts'["tx"] = posts["tx"], last'["tx"] = last["tx"],
           phase["tx"] \in {"desc", "body"}, phase'["tx"] = "used_elem",
           r.id = cur["tx"].id, cur'["tx"].id = cur["tx"].id, cur'["tx"].written > 0
    PROVE  TxInv'
<1> DEFINE a == avail["tx"]
           n == Len(sent)
           x == r.id
<1>1. Settled = last["tx"] /\ Settled' = last["tx"] + 1
    BY TxFacts DEF Settled, Ending
<1>2. /\ Len(sent') = n + 1 /\ sent'[n + 1] = r /\ n \in Nat
      /\ \A k \in 1..n : sent'[k] = sent[k]
    BY TxFacts, AppendKeeps
<1>3. /\ x = a[last["tx"] + 1].id /\ last["tx"] + 1 \in 1..Len(a)
      /\ \A k \in 1..n : sent[k].id < x
    BY NotYetSent
<1>4. \A k \in 1..(n + 1) : k \in 1..n \/ k = n + 1
    BY <1>2
<1>t. x \in Nat /\ \A k \in 1..n : sent[k].id \in Nat
    BY SentIds DEF Sendable
<1> HIDE DEF n, x
<1>5. SentInv'
    <2>1. \A k \in 1..(n + 1) : sent'[k].id <= posts["tx"]
        BY <1>2, <1>3, <1>4, TxFacts DEF SentInv, IdsInv, n, x
    <2>2. ASSUME NEW k \in 1..(n + 1), NEW j \in 1..Len(a), j > last["tx"] + 1
          PROVE  sent'[k].id < a[j].id
        <3>1. CASE k \in 1..n
            <4>1. j > last["tx"]
                BY <2>2, TxFacts
            <4>2. sent[k].id < a[j].id
                BY <1>1, <3>1, <4>1, TxFacts DEF SentInv, n
            <4> QED
                BY <1>2, <3>1, <4>2
        <3>2. CASE k = n + 1
            <4>1. a[last["tx"] + 1].id < a[j].id
                BY <1>3, <2>2, TxFacts DEF IdsInv
            <4> QED
                BY <1>2, <1>3, <3>2, <4>1 DEF x
        <3> QED
            BY <1>4, <3>1, <3>2
    <2>3. ASSUME NEW i \in 1..(n + 1), NEW j \in 1..(n + 1), i < j
          PROVE  sent'[i].id < sent'[j].id
        <3>1. i \in 1..n
            BY <1>2, <2>3
        <3>2. CASE j \in 1..n
            BY <1>2, <2>3, <3>1, <3>2, TxFacts DEF SentInv, n
        <3>3. CASE j = n + 1
            BY <1>2, <1>3, <3>1, <3>3 DEF x
        <3> QED
            BY <1>4, <3>2, <3>3
    <2>4. ASSUME NEW k \in 1..(n + 1) PROVE ~CutShort(sent'[k].what)
        <3>1. CASE k \in 1..n
            <4>1. sent'[k] = sent[k]
                BY <1>2, <3>1
            <4> QED
                BY <3>1, <4>1, TxFacts DEF SentInv, n
        <3>2. CASE k = n + 1
            BY <1>2, <3>2
        <3> QED
            BY <1>4, <3>1, <3>2
    <2> QED
        BY <1>1, <1>2, <2>1, <2>2, <2>3, <2>4 DEF SentInv
<1>6. WasSent(cur["tx"].id)'
    <2>1. n + 1 \in 1..(n + 1)
        BY <1>2
    <2> QED
        BY <1>2, <2>1 DEF WasSent
<1>7. ReportInv'
    <2>1. ASSUME NEW i \in 1..Len(used["tx"])
          PROVE  Said(used["tx"][i].id, used["tx"][i].len, avail["tx"][i].what)'
        <3> DEFINE u == used["tx"][i]
        <3>1. i \in 1..last["tx"] /\ u.id = a[i].id /\ i \in 1..Len(a)
            BY TxFacts DEF QueueInOrder
        <3>2. i < last["tx"] + 1
            BY <3>1, TxFacts
        <3>3. u.id < x
            BY <1>3, <3>1, <3>2, TxFacts DEF IdsInv
        <3>4. u.id \in Nat
            <4>1. u \in [id : Nat, len : Nat]
                <5>1. used["tx"] \in Seq([id : Nat, len : Nat])
                    BY TxFacts
                <5> QED
                    BY <5>1, ElementIs
            <4> QED
                BY <4>1
        <3>5. u.id # x
            BY <1>t, <3>3, <3>4
        <3> HIDE DEF u
        <3>6. ASSUME NEW y, y # x PROVE WasSent(y)' <=> WasSent(y)
            <4>1. ASSUME NEW k \in 1..n, sent[k].id = y PROVE WasSent(y)'
                <5>1. k \in 1..(n + 1) /\ sent'[k].id = y
                    BY <1>2, <4>1
                <5> QED
                    BY <1>2, <5>1 DEF WasSent
            <4>2. ASSUME NEW k \in 1..(n + 1), sent'[k].id = y PROVE WasSent(y)
                <5>1. k \in 1..n
                    BY <1>2, <1>4, <3>6, <4>2 DEF x
                <5>2. sent[k].id = y
                    BY <1>2, <4>2, <5>1
                <5> QED
                    BY <5>1, <5>2 DEF WasSent, n
            <4> QED
                BY <1>2, <4>1, <4>2 DEF WasSent, n
        <3>7. Said(u.id, u.len, a[i].what)
            BY TxFacts DEF ReportInv, u
        <3>8. PICK y, len, chain : y = u.id /\ len = u.len /\ chain = a[i].what
            OBVIOUS
        <3>9. Said(y, len, chain)'
            BY <3>5, <3>6, <3>7, <3>8 DEF Said
        <3>10. /\ used'["tx"][i].id = y /\ used'["tx"][i].len = len
               /\ avail'["tx"][i].what = chain
            BY <3>8 DEF u
        <3> QED
            BY <3>9, <3>10
    <2>2. Said(cur["tx"].id, cur["tx"].written, What("tx"))'
        BY <1>6 DEF Said
    <2> QED
        BY <2>1, <2>2 DEF ReportInv
<1>8. TxWalkInv'
    BY DEF TxWalkInv
<1> QED
    BY <1>5, <1>7, <1>8 DEF TxInv

LEMMA TxOfDriver == IInv /\ Driver => TxInv'
<1> SUFFICES ASSUME IInv, Driver PROVE TxInv'
    OBVIOUS
<1>0. TxInv /\ GuestTypes /\ CardTypes
    BY DEF IInv, Types
<1>1. sent' = sent
    BY DEF Driver, EnableQueue, DisableQueue, DriverOk, ResetCard, Notify, AckInterrupt, Collect,
        Post, history
<1>2. CASE ResetCard
    BY <1>1, <1>2, TxGone DEF ResetCard
<1>3. ASSUME NEW q \in Queues, EnableQueue(q) \/ DisableQueue(q) PROVE TxInv'
    <2>1. StartOver(q) /\ posts' = posts /\ cur' = cur
        BY <1>3 DEF EnableQueue, DisableQueue
    <2>2. CASE q = "tx"
        <3>1. avail'["tx"] = <<>> /\ used'["tx"] = <<>> /\ phase'["tx"] = "idle"
            BY <1>0, <2>1, <2>2 DEF StartOver, GuestTypes, CardTypes
        <3> QED
            BY <1>1, <2>1, <3>1, TxGone
    <2>3. CASE q = "rx"
        <3>1. /\ avail'["tx"] = avail["tx"] /\ used'["tx"] = used["tx"]
              /\ phase'["tx"] = phase["tx"] /\ last'["tx"] = last["tx"]
            BY <1>0, <2>1, <2>3 DEF StartOver, GuestTypes, CardTypes
        <3> QED
            BY <1>0, <1>1, <2>1, <3>1, TxStays
    <2> QED
        BY <2>2, <2>3
<1>4. ASSUME NEW q \in Queues, NEW what \in Buffers \cup Chains, Post(q, what) PROVE TxInv'
    <2>1. /\ avail' = [avail EXCEPT ![q] = Append(avail[q], [id |-> posts[q] + 1, what |-> what])]
          /\ posts' = [posts EXCEPT ![q] = posts[q] + 1]
          /\ UNCHANGED <<used, phase, last, cur>>
        BY <1>4 DEF Post, card
    <2>2. CASE q = "rx"
        <3>1. avail'["tx"] = avail["tx"] /\ posts'["tx"] = posts["tx"]
            BY <1>0, <2>1, <2>2 DEF GuestTypes
        <3> QED
            BY <1>0, <1>1, <2>1, <3>1, TxStays
    <2>3. CASE q = "tx"
        <3> DEFINE a == avail["tx"]
                   r == [id |-> posts["tx"] + 1, what |-> what]
        <3>1. a \in Seq(Request) /\ posts["tx"] \in Nat /\ last["tx"] \in Nat
            BY TxFacts
        <3>2. r \in Request /\ r.id = posts["tx"] + 1
            BY <3>1 DEF Request
        <3>3. avail'["tx"] = Append(a, r) /\ posts'["tx"] = posts["tx"] + 1
            BY <1>0, <2>1, <2>3 DEF GuestTypes
        <3> HIDE DEF r
        <3>4. /\ Len(avail'["tx"]) = Len(a) + 1 /\ avail'["tx"][Len(a) + 1] = r
              /\ \A i \in 1..Len(a) : avail'["tx"][i] = a[i]
            BY <3>1, <3>2, <3>3, AppendKeeps
        <3>5. \A i \in 1..(Len(a) + 1) : i \in 1..Len(a) \/ i = Len(a) + 1
            BY <3>1
        <3>6. Settled' = Settled
            BY <2>1 DEF Settled
        <3>7. SentInv'
            <4>1. ASSUME NEW k \in 1..Len(sent)
                  PROVE  /\ sent[k].id <= posts'["tx"]
                         /\ \A j \in 1..(Len(a) + 1) : j > Settled => sent[k].id < avail'["tx"][j].id
                <5>1. sent[k].id \in Nat /\ sent[k].id <= posts["tx"]
                      /\ \A j \in 1..Len(a) : j > Settled => sent[k].id < a[j].id
                    BY SentIds, TxFacts DEF SentInv
                <5>2. sent[k].id < r.id /\ sent[k].id <= posts'["tx"]
                    BY <3>1, <3>2, <3>3, <5>1
                <5> QED
                    BY <3>4, <3>5, <5>1, <5>2
            <4>2. \A i, j \in 1..Len(sent) : i < j => sent[i].id < sent[j].id
                BY TxFacts DEF SentInv
            <4>3. \A k \in 1..Len(sent) : ~CutShort(sent[k].what)
                BY TxFacts DEF SentInv
            <4> QED
                BY <1>1, <3>4, <3>6, <4>1, <4>2, <4>3 DEF SentInv
        <3>8. \A id, len, chain : Said(id, len, chain)' <=> Said(id, len, chain)
            BY <1>1 DEF Said, WasSent
        <3>11. Len(used["tx"]) = last["tx"] /\ last["tx"] <= Len(a) /\ Len(a) \in Nat
            BY TxFacts DEF QueueInOrder
        <3>12. \A i \in 1..Len(used["tx"]) : avail'["tx"][i] = a[i]
            BY <3>4, <3>11
        <3>13. phase["tx"] \in Ending => What("tx")' = What("tx")
            <4>1. phase["tx"] \in Ending => last["tx"] + 1 \in 1..Len(a)
                BY <3>11, TxFacts DEF QueueInOrder, Walking, Ending
            <4> QED
                BY <2>1, <3>4, <4>1 DEF What
        <3>9. ReportInv'
            BY <2>1, <3>8, <3>12, <3>13, TxFacts DEF ReportInv
        <3>10. TxWalkInv'
            <4>1. CASE phase["tx"] \in {"desc", "body"}
                <5>1. last["tx"] + 1 \in 1..Len(a)
                    BY <4>1, NotYetSent
                <5>2. What("tx")' = What("tx")
                    BY <2>1, <3>4, <5>1 DEF What
                <5> QED
                    BY <2>1, <5>2, TxFacts DEF TxWalkInv
            <4>2. CASE phase["tx"] \notin {"desc", "body"}
                BY <2>1, <4>2 DEF TxWalkInv
            <4> QED
                BY <4>1, <4>2
        <3> QED
            BY <3>7, <3>9, <3>10 DEF TxInv
    <2> QED
        BY <2>2, <2>3
<1>5. CASE Notify
    <2>1. /\ UNCHANGED <<avail, used, posts, last, cur>> /\ phase'["tx"] = Kicked(phase["tx"])
        BY <1>0, <1>5 DEF Notify, CardTypes
    <2>2. CASE phase["tx"] = "idle"
        BY <1>1, <2>1, <2>2, TxRests DEF Kicked, Walking
    <2>3. CASE phase["tx"] # "idle"
        BY <1>0, <1>1, <2>1, <2>3, TxStays DEF Kicked
    <2> QED
        BY <2>2, <2>3
<1>6. CASE DriverOk \/ AckInterrupt \/ Collect
    BY <1>0, <1>1, <1>6, TxStays DEF DriverOk, AckInterrupt, Collect, card
<1> QED
    BY <1>2, <1>3, <1>4, <1>5, <1>6 DEF Driver

\* The chain at the place the card is at is one with a descriptor there.
LEMMA TxChain ==
    ASSUME IInv, phase["tx"] \in {"desc", "body"}
    PROVE  /\ What("tx") \in Chains /\ What("tx") \in Seq(Nat \cup {Bad})
           /\ cur["tx"].desc \in 1..Len(What("tx")) /\ Len(What("tx")) \in Nat
           /\ \A e \in 1..(cur["tx"].desc - 1) : What("tx")[e] # Bad
BY ChainType, TxFacts DEF Walking, TxWalkInv

LEMMA TxOfRing == IInv /\ ReadRing("tx") => TxInv'
<1> SUFFICES ASSUME IInv, ReadRing("tx") PROVE TxInv'
    OBVIOUS
<1>1. /\ UNCHANGED <<sent, avail, used, posts, last>> /\ phase["tx"] = "ring"
      /\ phase'["tx"] = "desc" /\ cur'["tx"] = Taken("tx")
    BY TxFacts DEF ReadRing, Finish, guest, history
<1>2. Taken("tx").desc = 1 /\ Taken("tx").written = 0
    BY DEF Taken, Fresh
<1>3. What("tx")' = What("tx")
    BY <1>1 DEF What
<1>4. 1 \in 1..Len(What("tx"))
    <2>1. last["tx"] + 1 \in 1..Len(avail["tx"])
        BY <1>1, TxFacts DEF QueueInOrder
    <2>2. What("tx") \in Chains
        BY <2>1 DEF What, IInv, Types, GuestTypes
    <2> QED
        BY <2>2, KindsAssumption
<1>5. TxWalkInv'
    BY <1>1, <1>2, <1>3, <1>4 DEF TxWalkInv, DataUpTo
<1> QED
    BY <1>1, <1>5, TxGoesOn DEF Ending

LEMMA TxOfDesc == IInv /\ ReadTxDesc => TxInv'
<1> SUFFICES ASSUME IInv, ReadTxDesc PROVE TxInv'
    OBVIOUS
<1> DEFINE chain == What("tx")
           d == cur["tx"].desc
           empty == chain[d] = 0
           more == d < Len(chain)
           next == IF empty /\ more THEN d + 1 ELSE d
<1>1. /\ UNCHANGED <<sent, avail, used, posts, last>> /\ phase["tx"] = "desc" /\ chain[d] # Bad
      /\ phase'["tx"] = (IF ~empty THEN "body" ELSE IF more THEN "desc" ELSE "used_elem")
      /\ cur' = [cur EXCEPT !["tx"] = [cur["tx"] EXCEPT !.off = 0, !.desc = next]]
    BY TxFacts DEF ReadTxDesc, Descriptor, Finish, guest, history
<1>2. /\ chain \in Seq(Nat \cup {Bad}) /\ d \in 1..Len(chain) /\ Len(chain) \in Nat
      /\ \A e \in 1..(d - 1) : chain[e] # Bad
    BY <1>1, TxChain
<1>3. chain' = chain
    BY <1>1 DEF What
<1> HIDE DEF next
<1>4. /\ cur'["tx"].desc = next /\ cur'["tx"].written = cur["tx"].written
      /\ cur'["tx"].id = cur["tx"].id
    BY <1>1, TxFacts DEF Walk
<1>6. cur["tx"].written > 0 <=> DataUpTo(chain, d - 1)
    BY <1>1, TxFacts DEF TxWalkInv
<1> HIDE DEF chain
<1>7. CASE ~empty
    <2>1. phase'["tx"] = "body" /\ next = d
        BY <1>1, <1>7 DEF next
    <2>2. TxWalkInv'
        BY <1>1, <1>2, <1>3, <1>4, <1>7, <2>1 DEF TxWalkInv, chain
    <2> QED
        BY <1>1, <2>1, <2>2, TxGoesOn DEF Ending
<1>8. CASE empty /\ more
    <2>1. phase'["tx"] = "desc" /\ next = d + 1
        BY <1>1, <1>8 DEF next
    <2>2. next \in 1..Len(chain) /\ next - 1 = d
        BY <1>2, <1>8, <2>1
    <2>3. \A e \in 1..d : e \in 1..(d - 1) \/ e = d
        BY <1>2
    <2>4. \A e \in 1..d : chain[e] # Bad
        BY <1>1, <1>2, <2>3
    <2>5. DataUpTo(chain, d) <=> DataUpTo(chain, d - 1)
        <3>1. \A e \in 1..(d - 1) : e \in 1..d
            BY <1>2
        <3> QED
            BY <1>8, <2>3, <3>1 DEF DataUpTo
    <2>6. TxWalkInv'
        <3>1. chain' = chain /\ cur'["tx"].desc \in 1..Len(chain) /\ cur'["tx"].desc - 1 = d
            BY <1>3, <1>4, <2>2
        <3>2. cur'["tx"].written > 0 <=> DataUpTo(chain, d)
            BY <1>4, <1>6, <2>5
        <3> QED
            BY <2>1, <2>4, <3>1, <3>2 DEF TxWalkInv, chain, DataUpTo
    <2> QED
        BY <1>1, <2>1, <2>6, TxGoesOn DEF Ending
<1>9. CASE empty /\ ~more
    <2>1. phase'["tx"] = "used_elem" /\ d = Len(chain)
        BY <1>1, <1>2, <1>9
    <2>2. CutShort(chain) <=> DataUpTo(chain, d - 1)
        BY <1>2, <1>9, <2>1, CutIs
    <2>3. cur'["tx"].written > 0 <=> CutShort(chain)
        BY <1>4, <1>6, <2>2
    <2> QED
        BY <1>1, <1>4, <2>1, <2>3, TxDropped DEF chain
<1> QED
    BY <1>7, <1>8, <1>9

\* The last chunk of a packet is sent and reported, or neither.
LEMMA TxOfChunk == IInv /\ ReadTxChunk => TxInv'
<1> SUFFICES ASSUME IInv, ReadTxChunk PROVE TxInv'
    OBVIOUS
<1> DEFINE c == cur["tx"]
           fits == c.written < PktMax
           written == IF fits THEN c.written + 1 ELSE c.written
           over == c.off + 1 >= What("tx")[c.desc]
           more == c.desc < Len(What("tx"))
           commit == over /\ ~more
           r == [id |-> c.id, what |-> What("tx")]
           o == IF over THEN 0 ELSE c.off + 1
           d == IF over /\ more THEN c.desc + 1 ELSE c.desc
           w == IF commit THEN Reported(written, HasRoom) ELSE written
<1>1. /\ UNCHANGED <<avail, used, posts, last>> /\ phase["tx"] = "body"
      /\ phase'["tx"] = (IF ~over THEN "body" ELSE IF more THEN "desc" ELSE "used_elem")
      /\ sent' = (IF commit /\ HasRoom THEN Append(sent, r) ELSE sent)
      /\ cur' = [cur EXCEPT !["tx"] = [c EXCEPT !.off = o, !.desc = d, !.written = w]]
    BY TxFacts DEF ReadTxChunk, Finish, guest
<1>2. What("tx")[c.desc] \notin {0, Bad}
    BY <1>1, TxFacts DEF TxWalkInv
<1>3. /\ c.desc \in 1..Len(What("tx")) /\ Len(What("tx")) \in Nat
      /\ \A e \in 1..(c.desc - 1) : What("tx")[e] # Bad
    BY <1>1, TxChain
<1>4. What("tx")' = What("tx")
    BY <1>1 DEF What
<1>5. c.written \in Nat /\ c.id \in Nat
    BY TxFacts DEF Walk
<1>6. written \in Nat /\ written > 0
    BY <1>5, RingAssumption
<1>7. ~more => r \in Sendable /\ r.id = c.id /\ r.what = What("tx") /\ ~CutShort(What("tx"))
    BY <1>1, <1>5, LastOfWhole DEF Sendable
<1> HIDE DEF o, d, w, r
<1>8. cur'["tx"].desc = d /\ cur'["tx"].written = w /\ cur'["tx"].id = c.id
    BY <1>1, TxFacts DEF Walk
<1> HIDE DEF fits, written, over, more, commit
<1>9. CASE ~commit
    <2>1. phase'["tx"] \in {"desc", "body"} /\ (phase'["tx"] = "body" => ~over) /\ sent' = sent
        BY <1>1, <1>9 DEF commit
    <2>2. /\ d \in 1..Len(What("tx")) /\ (phase'["tx"] = "body" => d = c.desc)
          /\ \A e \in 1..(d - 1) : What("tx")[e] # Bad
        <3>1. CASE over /\ more
            <4>1. d = c.desc + 1 /\ d \in 1..Len(What("tx"))
                BY <1>3, <3>1 DEF d, more
            <4>2. \A e \in 1..(d - 1) : e \in 1..(c.desc - 1) \/ e = c.desc
                BY <1>3, <4>1
            <4> QED
                BY <1>2, <1>3, <2>1, <3>1, <4>1, <4>2
        <3>2. CASE ~(over /\ more)
            BY <1>3, <3>2 DEF d
        <3> QED
            BY <3>1, <3>2
    <2>3. phase'["tx"] = "desc" => w > 0 /\ DataUpTo(What("tx"), d - 1)
        <3>1. SUFFICES ASSUME phase'["tx"] = "desc" PROVE w > 0 /\ DataUpTo(What("tx"), d - 1)
            OBVIOUS
        <3>2. over /\ more
            BY <1>1, <3>1
        <3>3. c.desc \in 1..(d - 1)
            BY <1>3, <3>2 DEF d
        <3>4. w > 0
            BY <1>6, <1>9 DEF w
        <3> QED
            BY <1>2, <3>3, <3>4 DEF DataUpTo
    <2>5. TxWalkInv'
        BY <1>2, <1>4, <1>8, <2>1, <2>2, <2>3 DEF TxWalkInv, DataUpTo
    <2> QED
        BY <1>1, <2>1, <2>5, TxGoesOn DEF Ending
<1>10. CASE commit /\ HasRoom
    <2>1. phase'["tx"] = "used_elem" /\ sent' = Append(sent, r)
        BY <1>1, <1>10 DEF commit
    <2>2. w > 0
        BY <1>6, <1>10, RingAssumption DEF w, Reported, Lesser
    <2>3. r \in Sendable /\ r.id = c.id /\ ~CutShort(r.what)
        BY <1>7, <1>10 DEF commit
    <2> QED
        BY <1>1, <1>8, <2>1, <2>2, <2>3, TxSent
<1>11. CASE commit /\ ~HasRoom
    <2>1. phase'["tx"] = "used_elem" /\ sent' = sent /\ w = 0
        BY <1>1, <1>11 DEF commit, w, Reported
    <2>2. ~CutShort(What("tx"))
        BY <1>7, <1>11 DEF commit
    <2> QED
        BY <1>1, <1>8, <2>1, <2>2, TxDropped
<1> QED
    BY <1>9, <1>10, <1>11

LEMMA TxOfIdx == IInv /\ WriteUsedIdx("tx") => TxInv'
<1> SUFFICES ASSUME IInv, WriteUsedIdx("tx") PROVE TxInv'
    OBVIOUS
<1> DEFINE u == [id |-> cur["tx"].id, len |-> cur["tx"].written]
           n == Len(used["tx"])
<1>1. /\ UNCHANGED <<sent, avail, posts, cur>> /\ phase["tx"] = "used_idx"
      /\ phase'["tx"] = "avail_idx" /\ last'["tx"] = last["tx"] + 1
      /\ used'["tx"] = Append(used["tx"], u)
    BY TxFacts DEF WriteUsedIdx, Finish, After, Advance, IInv, Types, GuestTypes
<1>2. u \in [id : Nat, len : Nat] /\ u.id = cur["tx"].id /\ u.len = cur["tx"].written
    BY TxFacts DEF Walk
<1> HIDE DEF u
<1>3. /\ Len(used'["tx"]) = n + 1 /\ used'["tx"][n + 1] = u /\ n \in Nat
      /\ \A i \in 1..n : used'["tx"][i] = used["tx"][i]
    <2>1. used["tx"] \in Seq([id : Nat, len : Nat])
        BY TxFacts
    <2> QED
        BY <1>1, <1>2, <2>1, AppendKeeps
<1>4. Settled' = Settled
    BY <1>1, TxFacts DEF Settled, Ending
<1>5. SentInv'
    BY <1>1, <1>4, TxFacts DEF SentInv
<1>6. ReportInv'
    <2>1. \A id, len, chain : Said(id, len, chain)' <=> Said(id, len, chain)
        BY <1>1 DEF Said, WasSent
    <2>2. Said(u.id, u.len, What("tx"))
        BY <1>1, <1>2, TxFacts DEF ReportInv, Ending
    <2>3. What("tx") = avail["tx"][n + 1].what
        BY TxFacts DEF What, QueueInOrder
    <2>4. \A i \in 1..n : Said(used["tx"][i].id, used["tx"][i].len, avail["tx"][i].what)
        BY TxFacts DEF ReportInv
    <2>5. \A i \in 1..(n + 1) : i \in 1..n \/ i = n + 1
        BY <1>3
    <2>6. \A i \in 1..(n + 1) : Said(used'["tx"][i].id, used'["tx"][i].len, avail["tx"][i].what)
        BY <1>3, <2>2, <2>3, <2>4, <2>5
    <2> QED
        BY <1>1, <1>3, <2>1, <2>6 DEF ReportInv, Ending
<1>7. TxWalkInv'
    BY <1>1 DEF TxWalkInv
<1> QED
    BY <1>5, <1>6, <1>7 DEF TxInv

LEMMA TxOfElem == IInv /\ WriteUsedElem("tx") => TxInv'
<1> SUFFICES ASSUME IInv, WriteUsedElem("tx") PROVE TxInv'
    OBVIOUS
<1>1. /\ UNCHANGED <<sent, avail, posts, used, last, cur>> /\ phase["tx"] = "used_elem"
      /\ phase'["tx"] = "used_idx"
    BY TxFacts DEF WriteUsedElem, Finish, guest, history
<1>2. Settled' = Settled
    BY <1>1 DEF Settled, Ending
<1>3. \A id, len, chain : Said(id, len, chain)' <=> Said(id, len, chain)
    BY <1>1 DEF Said, WasSent
<1>4. SentInv'
    BY <1>1, <1>2, TxFacts DEF SentInv
<1>7. What("tx")' = What("tx")
    BY <1>1 DEF What
<1>5. ReportInv'
    BY <1>1, <1>3, <1>7, TxFacts DEF ReportInv, Ending
<1>6. TxWalkInv'
    BY <1>1 DEF TxWalkInv
<1> QED
    BY <1>4, <1>5, <1>6 DEF TxInv

LEMMA TxOfBadDesc == IInv /\ ReadBadDesc("tx") => TxInv'
<1> SUFFICES ASSUME IInv, ReadBadDesc("tx") PROVE TxInv'
    OBVIOUS
<1>1. /\ UNCHANGED <<sent, avail, posts, used, last, cur>> /\ phase["tx"] = "desc"
      /\ phase'["tx"] = "used_elem" /\ What("tx")[cur["tx"].desc] = Bad
    BY TxFacts DEF ReadBadDesc, Descriptor, Finish, guest, history
<1>2. CutShort(What("tx")) <=> DataUpTo(What("tx"), cur["tx"].desc - 1)
    BY <1>1, TxChain, CutIs
<1>3. cur'["tx"].written > 0 <=> CutShort(What("tx"))
    BY <1>1, <1>2, TxFacts DEF TxWalkInv
<1> QED
    BY <1>1, <1>3, TxDropped

LEMMA TxKept == IInv /\ Next => TxInv'
<1> SUFFICES ASSUME IInv, Next PROVE TxInv'
    OBVIOUS
<1>0. TxInv /\ GuestTypes /\ CardTypes
    BY DEF IInv, Types
\* The steps on the receive queue, and those of the thread.
<1>1. ASSUME UNCHANGED <<sent, posts>>, avail'["tx"] = avail["tx"], used'["tx"] = used["tx"],
             last'["tx"] = last["tx"], phase'["tx"] = phase["tx"], cur'["tx"] = cur["tx"]
      PROVE  TxInv'
    BY <1>0, <1>1, TxStays
<1>2. CASE Wake
    BY <1>0, <1>1, <1>2 DEF Wake, CardTypes, guest, history
<1>3. ASSUME NEW q \in Queues, Start(q) PROVE TxInv'
    <2>1. UNCHANGED <<sent, posts, avail, used, last, phase>>
        BY <1>3, StartStays DEF guest, history
    <2>2. cur'["tx"] = cur["tx"]
        BY <1>3, StartStays DEF Loaded
    <2> QED
        BY <1>1, <2>1, <2>2
<1>4. CASE ReadAvailIdx("tx")
    <2>1. /\ UNCHANGED <<sent, posts, avail, used, last>> /\ phase["tx"] = "avail_idx"
          /\ phase'["tx"] \in {"idle", "ring"}
        BY <1>0, <1>4 DEF ReadAvailIdx, Finish, CardTypes, guest, history
    <2> QED
        BY <2>1, TxRests DEF Walking
<1>5. CASE ReadAvailIdx("rx") \/ ReadRing("rx")
    BY <1>0, <1>1, <1>5 DEF ReadAvailIdx, ReadRing, Finish, CardTypes, guest, history
<1>6. CASE Move("rx")
    <2>1. UNCHANGED <<guest, last>> /\ phase'["tx"] = phase["tx"] /\ cur'["tx"] = cur["tx"]
        BY <1>6, MoveStays
    <2>2. sent' = sent
        BY <1>6 DEF Move, ReadBadDesc, WriteUsedElem, ReadRxDesc, WriteHeader, WriteRxChunk, history
    <2> QED
        BY <1>1, <2>1, <2>2 DEF guest
<1>7. CASE WriteUsedIdx("rx")
    <2>1. UNCHANGED <<sent, posts, avail, cur>> /\ phase'["tx"] = phase["tx"]
          /\ used'["tx"] = used["tx"] /\ last'["tx"] = last["tx"]
        BY <1>0, <1>7 DEF WriteUsedIdx, Finish, CardTypes, GuestTypes
    <2> QED
        BY <1>1, <2>1
<1>8. CASE Thread
    BY <1>1, <1>8 DEF Thread, Push, Pushed, Pop, Popped, guest, card, history
<1> QED
    BY <1>2, <1>3, <1>4, <1>5, <1>6, <1>7, <1>8, TxOfDriver, TxOfRing, TxOfDesc, TxOfChunk,
        TxOfIdx, TxOfElem, TxOfBadDesc DEF Next, Tick, Move

-----------------------------------------------------------------------------
(* The theorems. *)

LEMMA StrengtheningStarts == Init => IInv
<1> SUFFICES ASSUME Init PROVE IInv
    OBVIOUS
<1>1. \A q \in Queues : /\ ready[q] = FALSE /\ phase[q] = "idle" /\ last[q] = 0 /\ cur[q] = Fresh
                        /\ avail[q] = <<>> /\ used[q] = <<>> /\ seen[q] = 0 /\ posts[q] = 0
    BY DEF Init
<1>2. GuestTypes
    BY DEF Init, GuestTypes
<1>3. CardTypes
    BY FreshType DEF Init, CardTypes, Phases
<1>4. RingTypes
    <2>1. rxSlot = [i \in RxSlots |-> <<>>] /\ <<>> \in Seq(Chunk)
        BY DEF Init
    <2>2. rxSlot \in [RxSlots -> Seq(Chunk)]
        BY <2>1
    <2>3. /\ rxHead = 0 /\ rxTail = 0 /\ pushing = FALSE /\ pushed = 0
          /\ received = <<>> /\ sent = <<>>
        BY DEF Init
    <2>4. <<>> \in Seq(Seq(Chunk)) /\ <<>> \in Seq(Sendable)
        OBVIOUS
    <2>5. received \in Seq(Seq(Chunk)) /\ sent \in Seq(Sendable)
        BY <2>3, <2>4
    <2>6. pushing \in BOOLEAN
        BY <2>3, Zenon
    <2> QED
        BY <2>2, <2>3, <2>5, <2>6 DEF RingTypes
<1>5. QueuesInOrder
    BY <1>1 DEF QueuesInOrder, QueueInOrder, Walking
<1>6. Signals
    BY <1>1 DEF Init, Signals, SignalsArrive, NoLostKick, NoLostInterrupt
<1>7. RxRingInv
    <2>1. pushed = 0 /\ rxHead = 0 /\ rxTail = 0 /\ pushing = FALSE
        BY DEF Init
    <2> QED
        BY <2>1, RingAssumption DEF RxRingInv, RxCounts, RxPackets
<1>8. RxWalkInv
    BY <1>1 DEF RxWalkInv, Ending
<1>9. ReceivedInv
    <2>1. Consumed = 0
        BY <1>1 DEF Consumed, Holding, Ending, Init
    <2> QED
        BY <2>1 DEF ReceivedInv, Init
<1>10. IdsInv
    BY <1>1 DEF IdsInv
<1>11. TxInv
    <2>1. sent = <<>>
        BY DEF Init
    <2> QED
        BY <1>1, <2>1 DEF TxInv, SentInv, ReportInv, TxWalkInv, Ending
<1> QED
    BY <1>2, <1>3, <1>4, <1>5, <1>6, <1>7, <1>8, <1>9, <1>10, <1>11 DEF IInv, Types

LEMMA StrengtheningStays == IInv /\ UNCHANGED vars => IInv'
<1> SUFFICES ASSUME IInv, UNCHANGED vars PROVE IInv'
    OBVIOUS
<1>1. UNCHANGED <<ready, posts, avail, used, seen, acked, kicked, resets, phase, last, cur, mp, int,
                  rxSlot, rxHead, rxTail, pushing, pushed, received, sent>>
    BY DEF vars, guest, card, rxRing, thread, history
<1>2. Types'
    BY <1>1 DEF IInv, Types, GuestTypes, CardTypes, RingTypes
<1>3. QueuesInOrder'
    BY <1>1 DEF IInv, QueuesInOrder, QueueInOrder
<1>4. Signals'
    BY <1>1, SignalsStay DEF IInv
<1>5. RxRingInv'
    BY <1>1, RxRingStays DEF IInv
<1>6. RxWalkInv'
    BY <1>1, RxWalkFrame DEF IInv, rxRing
<1>7. ReceivedInv'
    BY <1>1, HoldingStays, ReceivedStays
<1>8. IdsInv'
    BY <1>1 DEF IInv, IdsInv
<1>9. TxInv'
    BY <1>1, TxStays DEF IInv
<1> QED
    BY <1>2, <1>3, <1>4, <1>5, <1>6, <1>7, <1>8, <1>9 DEF IInv

LEMMA Strengthening == Spec => []IInv
<1>1. IInv /\ [Next]_vars => IInv'
    <2>1. IInv /\ Next => IInv'
        BY GuestTypesKept, CardTypesKept, RingTypesKept, QueuesKept, SignalsKept, RxRingKept,
            RxWalkKept, ReceivedKept, IdsKept, TxKept DEF IInv, Types
    <2> QED
        BY <2>1, StrengtheningStays
<1> QED
    BY <1>1, StrengtheningStarts, PTL DEF Spec

\* Neither side of a queue waits for a signal the other has given: a notified
\* request is taken up although the card heeds no notification while it is busy
\* (VirtioCommon.cpp:60-72), and one that is given back is announced (265-278).
THEOREM NoSignalIsLost == Spec => []SignalsArrive
<1>1. IInv => SignalsArrive
    BY DEF IInv, Signals
<1> QED
    BY <1>1, Strengthening, PTL

LEMMA UsedFollows == IInv => UsedInOrder
<1> SUFFICES ASSUME IInv, NEW q \in Queues
             PROVE  /\ Len(used[q]) <= Len(avail[q])
                    /\ \A i \in DOMAIN used[q] : used[q][i].id = avail[q][i].id
    BY DEF UsedInOrder
<1>1. QueueInOrder(q)
    BY DEF IInv, QueuesInOrder
<1>2. used[q] \in Seq([id : Nat, len : Nat])
    BY DEF IInv, Types, GuestTypes
<1>3. DOMAIN used[q] = 1..Len(used[q])
    BY <1>2
<1> QED
    BY <1>1, <1>3 DEF QueueInOrder

\* What is known of a packet received.
LEMMA ReceivedIs ==
    ASSUME IInv, NEW i \in DOMAIN received
    PROVE  /\ PacketOf(received[i]) <= pushed
           /\ \A k \in DOMAIN received[i] : received[i][k] = <<PacketOf(received[i]), k>>
           /\ resets = 0 => PacketOf(received[i]) = i
<1> DEFINE r == received[i]
<1>1. received \in Seq(Seq(Chunk)) /\ i \in 1..Len(received)
    BY DEF IInv, Types, RingTypes
<1>2. r \in Seq(Chunk)
    BY <1>1, ElementIs
<1>3. ReceivedInv
    BY DEF IInv
<1>4. PICK n \in 1..Consumed : IsPacket(r, n)
    BY <1>1, <1>3 DEF ReceivedInv
<1>5. resets = 0 => IsPacket(r, i)
    BY <1>1, <1>3 DEF ReceivedInv
<1>6. ASSUME NEW m, IsPacket(r, m)
      PROVE  PacketOf(r) = m /\ \A k \in DOMAIN r : r[k] = <<m, k>>
    <2>1. DOMAIN r = 1..Len(r) /\ 1 \in 1..Len(r)
        BY <1>2, <1>6 DEF IsPacket
    <2>2. \A k \in 1..Len(r) : r[k] = <<m, k>>
        BY <1>6 DEF IsPacket
    <2>3. r[1] = <<m, 1>>
        BY <2>1, <2>2
    <2> HIDE DEF r
    <2>4. r[1][1] = m
        BY <2>3
    <2> QED
        BY <2>1, <2>2, <2>4 DEF PacketOf
<1>7. Consumed \in Int /\ Consumed <= pushed
    <2>1. rxTail \in Nat /\ rxHead \in Nat /\ pushed \in Nat
        BY DEF IInv, Types, RingTypes
    <2>2. rxTail <= rxHead /\ pushed = rxHead + (IF pushing THEN 1 ELSE 0)
        BY DEF IInv, RxRingInv, RxCounts
    <2>3. Consumed = rxTail \/ Consumed = rxTail - 1
        BY DEF Consumed
    <2>4. rxHead <= pushed
        BY <2>1, <2>2
    <2>5. pushed \in Nat /\ rxTail <= pushed
        BY <2>1, <2>2, <2>4
    <2> QED
        BY <2>1, <2>3, <2>5
<1>8. n <= pushed
    <2>1. pushed \in Nat
        BY DEF IInv, Types, RingTypes
    <2> QED
        BY <1>4, <1>7, <2>1
<1> HIDE DEF r
<1>9. PacketOf(r) <= pushed /\ \A k \in DOMAIN r : r[k] = <<PacketOf(r), k>>
    BY <1>4, <1>6, <1>8
<1>10. resets = 0 => PacketOf(r) = i
    BY <1>5, <1>6
<1> QED
    BY <1>9, <1>10 DEF r

\* The driver gets its requests back one by one in the order it made them, and
\* the guest the packets in the order the back end pushed them, whatever either
\* side disables or resets meanwhile (VirtioNet.cpp:277-351, rx.done and tx.done).
THEOREM RequestsKeepOrder == Spec => []InOrder
<1>1. IInv => InOrder
    <2> SUFFICES ASSUME IInv PROVE RxInOrder
        BY UsedFollows DEF InOrder
    <2>1. ReceivedInv /\ received \in Seq(Seq(Chunk))
        BY DEF IInv, Types, RingTypes
    <2>2. DOMAIN received = 1..Len(received)
        BY <2>1
    <2>3. \A i, j \in DOMAIN received : i < j => PacketOf(received[i]) < PacketOf(received[j])
        BY <2>1, <2>2 DEF ReceivedInv, PacketOf
    <2> QED
        BY <2>3, ReceivedIs DEF RxInOrder
<1> QED
    BY <1>1, Strengthening, PTL

\* A transmit request is reported with a length exactly if its packet was handed
\* to the back end or the chain was cut short behind data; nothing is sent of a
\* chain that is cut short, and no packet is handed over twice
\* (VirtioCommon.cpp:231-278; VirtioNet.cpp:295-351, tx.desc and tx.done).
THEOREM ReportsAreTrue == Spec => []SentIsReported
<1>1. IInv => SentIsReported
    <2> SUFFICES ASSUME IInv PROVE SentIsReported
        OBVIOUS
    <2>1. DOMAIN used["tx"] = 1..Len(used["tx"]) /\ DOMAIN sent = 1..Len(sent)
        BY TxFacts
    <2>2. ReportInv /\ SentInv
        BY TxFacts
    <2>3. \A i \in DOMAIN used["tx"] : LET u == used["tx"][i] IN
            u.len > 0 <=> \/ \E k \in DOMAIN sent : sent[k].id = u.id
                          \/ CutShort(avail["tx"][i].what)
        BY <2>1, <2>2 DEF ReportInv, Said, WasSent
    <2> QED
        BY <2>1, <2>2, <2>3 DEF SentIsReported, SentInv
<1> QED
    BY <1>1, Strengthening, PTL

-----------------------------------------------------------------------------
(* What the back end pops is what the driver sent. *)

\* A piece of a packet to transmit, and those of one descriptor of a request.
Piece == Nat \X Nat \X Nat
Chunks(d) == IF d = Bad THEN 0 ELSE d
DataOfDesc(s, d) == [k \in 1..Chunks(s.what[d]) |-> <<s.id, d, k>>]
TxRequests == [id : Nat, what : Chains]

\* F[d] is the data of the first d descriptors.
Parts(s, F) ==
    /\ F \in [0..Len(s.what) -> Seq(Piece)] /\ F[0] = <<>>
    /\ \A d \in 1..Len(s.what) : F[d] = F[d - 1] \o DataOfDesc(s, d)

\* The first n pieces of the data, or as many as a slot takes, are in the slot.
Prefix(slot, len, data, n) ==
    len = Lesser(n, PktMax) /\ \A k \in 1..len : slot[k] = data[k]

\* The slots between tail and head hold the packets sent, in turn.
TxRingInv ==
    /\ txSlot \in [TxSlots -> [1..PktMax -> Piece \cup {None}]] /\ txLen \in [TxSlots -> 0..PktMax]
    /\ txHead \in Nat /\ txTail \in Nat /\ popping \in BOOLEAN /\ overran \in BOOLEAN
    /\ txTail <= txHead /\ txHead - txTail <= TxRing
    /\ popping => txTail < txHead
    /\ sent \in Seq(Sendable) /\ Len(sent) = txHead
    /\ popped \in Seq(Seq(Piece \cup {None})) /\ Len(popped) = txTail
SlotInv(t) == \A F : Parts(sent[t + 1], F) =>
    LET data == F[Len(sent[t + 1].what)]
    IN  Prefix(txSlot[t % TxRing], txLen[t % TxRing], data, Len(data))
PoppedInv(i) == \A F : Parts(sent[i], F) =>
    LET data == F[Len(sent[i].what)] IN popped[i] = SubSeq(data, 1, Lesser(Len(data), PktMax))

\* The slot at the head holds what the card has done of its request.
AtHead == [id |-> cur["tx"].id, what |-> What("tx")]
HeadInv == phase["tx"] \in {"desc", "body"} =>
    LET c == cur["tx"] IN
    /\ phase["tx"] = "desc" => c.off = 0
    /\ phase["tx"] = "body" => c.off < What("tx")[c.desc]
    /\ \A F : Parts(AtHead, F) =>
         Prefix(txSlot[txHead % TxRing], c.written, F[c.desc], Len(F[c.desc - 1]) + c.off)

IntactInv ==
    /\ TxRingInv
    /\ ~overran => /\ \A t \in txTail..(txHead - 1) : SlotInv(t)
                   /\ \A i \in 1..txTail : PoppedInv(i)
                   /\ HeadInv

\* Induction over 0..n, for one set of numbers at a time.
LEMMA Steps ==
    ASSUME NEW n \in Nat, NEW T, 0 \in T, \A k \in 1..n : k - 1 \in T => k \in T
    PROVE  \A k \in 0..n : k \in T
<1> DEFINE B == {k \in 0..n : k \notin T}
<1> SUFFICES ASSUME B # {} PROVE FALSE
    OBVIOUS
<1>1. B \in SUBSET Nat
    OBVIOUS
<1>2. PICK x \in B : \A y \in B : ~(<<y, x>> \in OpToRel(<, Nat))
    BY <1>1, WFMin, NatLessThanWellFounded
<1>3. \A y \in B : ~(y < x)
    BY <1>1, <1>2 DEF OpToRel
<1>4. x \in 1..n /\ x - 1 \in 0..n /\ x - 1 < x
    OBVIOUS
<1>5. x - 1 \in T
    BY <1>3, <1>4
<1> QED
    BY <1>2, <1>4, <1>5

\* The data of a request can be put together descriptor by descriptor.
PartsTo(s, m, F) ==
    /\ F \in [0..m -> Seq(Piece)] /\ F[0] = <<>>
    /\ \A d \in 1..m : F[d] = F[d - 1] \o DataOfDesc(s, d)

LEMMA DescType ==
    ASSUME NEW s \in TxRequests, NEW d \in 1..Len(s.what)
    PROVE  /\ s.what \in Seq(Nat \cup {Bad}) /\ Chunks(s.what[d]) \in Nat
           /\ DataOfDesc(s, d) \in Seq(Piece) /\ Len(DataOfDesc(s, d)) = Chunks(s.what[d])
<1>1. s.what \in Seq(Nat \cup {Bad}) /\ s.id \in Nat
    BY KindsAssumption DEF TxRequests
<1>2. Chunks(s.what[d]) \in Nat
    BY <1>1 DEF Chunks
<1>3. PICK n \in Nat : n = Chunks(s.what[d])
    BY <1>2
<1>4. \A k \in 1..n : <<s.id, d, k>> \in Piece
    BY <1>1 DEF Piece
<1>5. /\ [k \in 1..n |-> <<s.id, d, k>>] \in Seq(Piece)
      /\ Len([k \in 1..n |-> <<s.id, d, k>>]) = n
    BY <1>4
<1> QED
    BY <1>1, <1>2, <1>3, <1>5 DEF DataOfDesc

LEMMA PartsExist ==
    ASSUME NEW s \in TxRequests PROVE \E F : PartsTo(s, Len(s.what), F)
<1>1. s.what \in Seq(Nat \cup {Bad})
    BY KindsAssumption DEF TxRequests
<1>2. PICK n \in Nat : n = Len(s.what)
    BY <1>1
<1> DEFINE T == {m \in 0..n : \E F : PartsTo(s, m, F)}
<1>3. 0 \in T
    <2> DEFINE F == [k \in 0..0 |-> <<>>]
    <2>1. F \in [0..0 -> Seq(Piece)] /\ F[0] = <<>> /\ \A d \in 1..0 : F[d] = F[d - 1] \o DataOfDesc(s, d)
        OBVIOUS
    <2> HIDE DEF F
    <2>2. PartsTo(s, 0, F)
        BY <2>1 DEF PartsTo
    <2> QED
        BY <2>2
<1>4. ASSUME NEW m \in 1..n, m - 1 \in T PROVE m \in T
    <2>1. PICK F : PartsTo(s, m - 1, F)
        BY <1>4
    <2> DEFINE G == [k \in 0..m |-> IF k = m THEN F[m - 1] \o DataOfDesc(s, m) ELSE F[k]]
    <2>2. F \in [0..(m - 1) -> Seq(Piece)] /\ F[0] = <<>>
        BY <2>1 DEF PartsTo
    <2>3. F[m - 1] \o DataOfDesc(s, m) \in Seq(Piece)
        BY <1>2, <2>2, DescType
    <2>4. G \in [0..m -> Seq(Piece)] /\ G[0] = <<>>
        BY <2>2, <2>3
    <2>5. ASSUME NEW d \in 1..m PROVE G[d] = G[d - 1] \o DataOfDesc(s, d)
        <3>1. G[d - 1] = F[d - 1]
            OBVIOUS
        <3>2. G[m] = F[m - 1] \o DataOfDesc(s, m)
            OBVIOUS
        <3>3. CASE d = m
            BY <3>1, <3>2, <3>3
        <3>4. CASE d # m
            <4>1. G[d] = F[d] /\ d \in 1..(m - 1)
                BY <3>4
            <4>2. F[d] = F[d - 1] \o DataOfDesc(s, d)
                BY <2>1, <4>1 DEF PartsTo
            <4> HIDE DEF G
            <4> QED
                BY <3>1, <4>1, <4>2
        <3> QED
            BY <3>3, <3>4
    <2> HIDE DEF G
    <2>6. PartsTo(s, m, G)
        BY <2>4, <2>5 DEF PartsTo
    <2> QED
        BY <2>6
<1>5. n \in T
    <2>1. n \in 0..n
        OBVIOUS
    <2> HIDE DEF T
    <2> QED
        BY <1>3, <1>4, <2>1, Steps
<1> QED
    BY <1>2, <1>5

\* What FlattenSeq makes of a request are its parts.
LEMMA DataIsParts ==
    ASSUME NEW s \in Sendable PROVE \E F : Parts(s, F) /\ DataOf(s) = F[Len(s.what)]
<1>1. /\ s.what \in Seq(Nat \cup {Bad}) /\ s.what # <<>> /\ s \in TxRequests
      /\ \A d \in 1..Len(s.what) : Chunks(s.what[d]) = s.what[d]
    BY KindsAssumption DEF Sendable, Whole, TxRequests, Chunks
<1>2. PICK n \in Nat \ {0} : n = Len(s.what)
    BY <1>1
<1>3. PICK F : PartsTo(s, n, F)
    BY <1>1, <1>2, PartsExist
<1> DEFINE seqs == [d \in DOMAIN s.what |-> [k \in 1..s.what[d] |-> <<s.id, d, k>>]]
           Flat(g) == g = [i \in 1..Len(seqs) |-> IF i = 1 THEN seqs[i] ELSE g[i - 1] \o seqs[i]]
           flatten == CHOOSE g : Flat(g)
<1>4. DOMAIN s.what = 1..n
    BY <1>1, <1>2
<1>5. Len(seqs) = n
    BY <1>4
<1>6. \A d \in 1..n : seqs[d] = DataOfDesc(s, d) /\ seqs[d] \in Seq(Piece)
    BY <1>1, <1>2, <1>4, DescType DEF DataOfDesc
<1>7. DataOf(s) = flatten[n]
    BY <1>5 DEF DataOf, FlattenSeq
<1> HIDE DEF seqs
<1>8. /\ F[0] = <<>> /\ F[1] = seqs[1]
      /\ \A d \in 1..n : F[d] \in Seq(Piece) /\ F[d] = F[d - 1] \o seqs[d]
    <2>1. ASSUME NEW d \in 1..n PROVE F[d] \in Seq(Piece) /\ F[d] = F[d - 1] \o seqs[d]
        <3>1. F[d] = F[d - 1] \o DataOfDesc(s, d)
            BY <1>3 DEF PartsTo
        <3>2. F \in [0..n -> Seq(Piece)] /\ d \in 0..n
            BY <1>3 DEF PartsTo
        <3>3. seqs[d] = DataOfDesc(s, d)
            BY <1>6
        <3> QED
            BY <3>1, <3>2, <3>3
    <2>2. F[0] = <<>>
        BY <1>3 DEF PartsTo
    <2>3. 1 \in 1..n /\ 1 - 1 = 0
        OBVIOUS
    <2>4. F[1] = <<>> \o seqs[1] /\ seqs[1] \in Seq(Piece)
        BY <1>6, <2>1, <2>2, <2>3
    <2>5. <<>> \o seqs[1] = seqs[1]
        BY <2>4
    <2> QED
        BY <2>1, <2>2, <2>4, <2>5
<1>9. \E g : Flat(g)
    <2> DEFINE G == [i \in 1..n |-> F[i]]
    <2>1. ASSUME NEW i \in 1..n PROVE G[i] = IF i = 1 THEN seqs[i] ELSE G[i - 1] \o seqs[i]
        <3>1. CASE i = 1
            BY <1>8, <3>1
        <3>2. CASE i # 1
            <4>1. G[i] = F[i] /\ G[i - 1] = F[i - 1]
                BY <3>2
            <4> HIDE DEF G
            <4> QED
                BY <1>8, <3>2, <4>1
        <3> QED
            BY <3>1, <3>2
    <2>2. Flat(G)
        BY <1>5, <2>1
    <2> QED
        BY <2>2
<1>10. Flat(flatten)
    <2> HIDE DEF Flat
    <2> QED
        BY <1>9
<1> HIDE DEF flatten
<1>11. flatten[n] = F[n]
    <2> DEFINE T == {i \in 0..n : i = 0 \/ flatten[i] = F[i]}
    <2>1. 0 \in T
        OBVIOUS
    <2>2. ASSUME NEW i \in 1..n, i - 1 \in T PROVE i \in T
        <3>1. flatten[i] = IF i = 1 THEN seqs[i] ELSE flatten[i - 1] \o seqs[i]
            BY <1>5, <1>10
        <3>2. CASE i = 1
            BY <1>8, <3>1, <3>2
        <3>3. CASE i # 1
            <4>1. flatten[i - 1] = F[i - 1] /\ i \in 0..n
                BY <2>2, <3>3
            <4>2. flatten[i] = F[i]
                BY <1>8, <3>1, <3>3, <4>1
            <4> QED
                BY <4>1, <4>2
        <3> QED
            BY <3>2, <3>3
    <2> HIDE DEF T
    <2>3. n \in T
        BY <2>1, <2>2, Steps
    <2> QED
        BY <2>3 DEF T
<1>12. Parts(s, F)
    BY <1>2, <1>3 DEF Parts, PartsTo
<1> QED
    BY <1>2, <1>7, <1>11, <1>12

\* What one descriptor adds to the data.
LEMMA NextPart ==
    ASSUME NEW s \in TxRequests, NEW F, Parts(s, F), NEW d \in 1..Len(s.what)
    PROVE  /\ F[d] \in Seq(Piece) /\ F[d - 1] \in Seq(Piece)
           /\ Len(F[d]) = Len(F[d - 1]) + Chunks(s.what[d])
           /\ \A k \in 1..Len(F[d - 1]) : F[d][k] = F[d - 1][k]
           /\ \A k \in 1..Chunks(s.what[d]) : F[d][Len(F[d - 1]) + k] = <<s.id, d, k>>
<1>1. s.what \in Seq(Nat \cup {Bad})
    BY DescType
<1>2. d - 1 \in 0..Len(s.what) /\ d \in 0..Len(s.what)
    BY <1>1
<1>3. F[d] \in Seq(Piece) /\ F[d - 1] \in Seq(Piece)
    BY <1>2 DEF Parts
<1> DEFINE p == F[d - 1]
           q == DataOfDesc(s, d)
<1>4. F[d] = p \o q
    BY DEF Parts
<1>5. q \in Seq(Piece) /\ Len(q) = Chunks(s.what[d]) /\ Chunks(s.what[d]) \in Nat
    BY DescType
<1>6. \A k \in 1..Chunks(s.what[d]) : q[k] = <<s.id, d, k>>
    BY DEF DataOfDesc
<1> HIDE DEF q
<1>7. p \in Seq(Piece)
    BY <1>3
<1> HIDE DEF p
<1>8. /\ Len(p \o q) = Len(p) + Len(q)
      /\ \A k \in 1..Len(p) : (p \o q)[k] = p[k]
      /\ \A k \in 1..Len(q) : (p \o q)[Len(p) + k] = q[k]
    BY <1>5, <1>7
<1> QED
    BY <1>3, <1>4, <1>5, <1>6, <1>8 DEF p

\* What is known of the request the card is at.
LEMMA AtHeadType ==
    ASSUME IInv, phase["tx"] \in {"desc", "body"}
    PROVE  /\ AtHead \in TxRequests /\ AtHead.what = What("tx") /\ AtHead.id = cur["tx"].id
           /\ cur["tx"].desc \in 1..Len(What("tx")) /\ Len(What("tx")) \in Nat
           /\ What("tx")[cur["tx"].desc] \in Nat \cup {Bad}
           /\ cur["tx"].off \in Nat /\ cur["tx"].written \in Nat
<1>1. /\ What("tx") \in Chains /\ What("tx") \in Seq(Nat \cup {Bad})
      /\ cur["tx"].desc \in 1..Len(What("tx")) /\ Len(What("tx")) \in Nat
    BY TxChain
<1>2. cur["tx"].id \in Nat /\ cur["tx"].off \in Nat /\ cur["tx"].written \in Nat
    BY TxFacts DEF Walk
<1> QED
    BY <1>1, <1>2 DEF AtHead, TxRequests

\* A lesser that stays under its bound is the other number.
LEMMA LesserUnder ==
    ASSUME NEW a \in Nat, NEW b \in Nat, Lesser(a, b) < b
    PROVE  Lesser(a, b) = a
<1> QED
    BY DEF Lesser

\* A chunk goes behind those of its packet that are in the slot already, unless
\* the slot is full.
LEMMA ChunkPut ==
    ASSUME NEW s \in TxRequests, NEW F, Parts(s, F), NEW d \in 1..Len(s.what),
           NEW off \in Nat, off < Chunks(s.what[d]), NEW slot, NEW slot2, NEW len \in Nat, NEW len2,
           Prefix(slot, len, F[d], Len(F[d - 1]) + off),
           len < PktMax => /\ len2 = len + 1 /\ slot2[len2] = <<s.id, d, off + 1>>
                           /\ \A k \in 1..len : slot2[k] = slot[k],
           len >= PktMax => len2 = len /\ slot2 = slot
    PROVE  Prefix(slot2, len2, F[d], Len(F[d - 1]) + (off + 1))
<1>1. /\ F[d] \in Seq(Piece) /\ F[d - 1] \in Seq(Piece)
      /\ \A k \in 1..Chunks(s.what[d]) : F[d][Len(F[d - 1]) + k] = <<s.id, d, k>>
    BY NextPart
<1>2. PICK m \in Nat : m = Len(F[d - 1])
    BY <1>1
<1>3. off + 1 \in 1..Chunks(s.what[d])
    BY DescType
<1>4. F[d][m + (off + 1)] = <<s.id, d, off + 1>>
    BY <1>1, <1>2, <1>3
<1>5. PktMax \in Nat \ {0}
    BY RingAssumption
<1>6. len = Lesser(m + off, PktMax) /\ \A k \in 1..len : slot[k] = F[d][k]
    BY <1>2 DEF Prefix
<1>10. len = Lesser(m + off, PktMax)
    BY <1>6
<1>7. CASE len < PktMax
    <2>1. len = m + off /\ len2 = len + 1 /\ len2 = Lesser(m + (off + 1), PktMax)
        <3>1. len = m + off
            BY <1>5, <1>7, <1>10, LesserUnder
        <3>2. len2 = len + 1 /\ m + (off + 1) <= PktMax
            BY <1>5, <1>7, <3>1
        <3>3. m + (off + 1) = len2
            BY <3>1, <3>2
        <3>4. Lesser(m + (off + 1), PktMax) = m + (off + 1)
            BY <1>5, <3>2 DEF Lesser
        <3> QED
            BY <3>1, <3>2, <3>3, <3>4
    <2>2. \A k \in 1..len2 : k \in 1..len \/ k = len2
        BY <2>1
    <2>3. slot2[len2] = F[d][len2]
        <3>1. len2 = m + (off + 1)
            BY <2>1
        <3> QED
            BY <1>4, <1>7, <3>1
    <2>4. \A k \in 1..len2 : slot2[k] = F[d][k]
        BY <1>6, <1>7, <2>2, <2>3
    <2> QED
        BY <1>2, <2>1, <2>4 DEF Prefix
<1>8. CASE len >= PktMax
    <2>1. len2 = Lesser(m + (off + 1), PktMax)
        BY <1>5, <1>6, <1>8 DEF Lesser
    <2> QED
        BY <1>2, <1>6, <1>8, <2>1 DEF Prefix
<1>9. len < PktMax \/ len >= PktMax
    BY <1>5
<1> QED
    BY <1>7, <1>8, <1>9

\* What of the ring, the packets sent and the packets popped a step leaves alone.
txSide == <<txRing, popping, sent, popped, overran>>

\* The card is at the same place of the same request.
LEMMA HeadStays ==
    ASSUME HeadInv, UNCHANGED <<txSlot, txHead>>, phase'["tx"] = phase["tx"],
           cur'["tx"] = cur["tx"], phase["tx"] \in {"desc", "body"} => What("tx")' = What("tx")
    PROVE  HeadInv'
<1>1. CASE phase["tx"] \in {"desc", "body"}
    <2>1. AtHead' = AtHead /\ What("tx")' = What("tx")
        BY <1>1 DEF AtHead
    <2> QED
        BY <2>1 DEF HeadInv
<1>2. CASE phase["tx"] \notin {"desc", "body"}
    BY <1>2 DEF HeadInv
<1> QED
    BY <1>1, <1>2

LEMMA HeadRests == phase'["tx"] \notin {"desc", "body"} => HeadInv'
BY DEF HeadInv

\* A step beside the ring.
LEMMA IntactStays ==
    ASSUME IntactInv, UNCHANGED txSide, HeadInv => HeadInv'
    PROVE  IntactInv'
<1>1. UNCHANGED <<txSlot, txLen, txHead, txTail, popping, sent, popped, overran>>
    BY DEF txSide, txRing
<1>2. TxRingInv'
    BY <1>1 DEF IntactInv, TxRingInv
<1>3. \A t : SlotInv(t) => SlotInv(t)'
    BY <1>1 DEF SlotInv
<1>4. \A i : PoppedInv(i) => PoppedInv(i)'
    BY <1>1 DEF PoppedInv
<1> QED
    BY <1>1, <1>2, <1>3, <1>4 DEF IntactInv

LEMMA IntactOfRing == IInv /\ IntactInv /\ ReadRing("tx") => IntactInv'
<1> SUFFICES ASSUME IInv, IntactInv, ReadRing("tx") PROVE IntactInv'
    OBVIOUS
<1>1. /\ UNCHANGED txSide /\ phase'["tx"] = "desc" /\ cur'["tx"] = Taken("tx")
      /\ UNCHANGED <<avail, last>>
    BY TxFacts DEF ReadRing, Finish, guest, history, rings, thread, txSide
<1>2. Taken("tx").desc = 1 /\ Taken("tx").written = 0 /\ Taken("tx").off = 0
    BY DEF Taken, Fresh
<1>3. ASSUME NEW F, Parts(AtHead, F)' PROVE Prefix(txSlot[txHead % TxRing], 0, F[1], Len(F[0]) + 0)
    <2>1. F[0] = <<>>
        BY <1>3 DEF Parts
    <2>2. Lesser(0, PktMax) = 0
        BY RingAssumption DEF Lesser
    <2> QED
        BY <2>1, <2>2 DEF Prefix
<1>4. HeadInv'
    <2>1. UNCHANGED <<txSlot, txHead>>
        BY <1>1 DEF txSide, txRing
    <2> QED
        BY <1>1, <1>2, <1>3, <2>1 DEF HeadInv
<1> QED
    BY <1>1, <1>4, IntactStays

LEMMA IntactOfDesc == IInv /\ IntactInv /\ ReadTxDesc => IntactInv'
<1> SUFFICES ASSUME IInv, IntactInv, ReadTxDesc PROVE IntactInv'
    OBVIOUS
<1> DEFINE chain == What("tx")
           c == cur["tx"]
           d == c.desc
           empty == chain[d] = 0
           more == d < Len(chain)
           next == IF empty /\ more THEN d + 1 ELSE d
<1>1. /\ UNCHANGED txSide /\ UNCHANGED <<avail, last>> /\ phase["tx"] = "desc" /\ chain[d] # Bad
      /\ phase'["tx"] = (IF ~empty THEN "body" ELSE IF more THEN "desc" ELSE "used_elem")
      /\ cur' = [cur EXCEPT !["tx"] = [c EXCEPT !.off = 0, !.desc = next]]
    BY TxFacts DEF ReadTxDesc, Descriptor, Finish, guest, history, rings, thread, txSide
<1>2. /\ AtHead \in TxRequests /\ AtHead.what = chain /\ d \in 1..Len(chain) /\ Len(chain) \in Nat
      /\ chain[d] \in Nat
    BY <1>1, AtHeadType
<1>6. empty => Chunks(AtHead.what[d]) = 0
    BY <1>1, <1>2 DEF Chunks
<1> HIDE DEF next
<1>3. /\ cur'["tx"].desc = next /\ cur'["tx"].off = 0 /\ cur'["tx"].written = c.written
      /\ cur'["tx"].id = c.id
    BY <1>1, TxFacts DEF Walk
<1>4. chain' = chain /\ AtHead' = AtHead /\ UNCHANGED <<txSlot, txHead>>
    BY <1>1, <1>3 DEF What, AtHead, txSide, txRing
<1>5. ASSUME HeadInv PROVE HeadInv'
    <2>1. c.off = 0
        BY <1>1, <1>5 DEF HeadInv
    <2>2. ASSUME NEW F, Parts(AtHead, F), phase'["tx"] \in {"desc", "body"}
          PROVE  Prefix(txSlot[txHead % TxRing], c.written, F[next], Len(F[next - 1]) + 0)
        <3>1. Prefix(txSlot[txHead % TxRing], c.written, F[d], Len(F[d - 1]) + 0)
            BY <1>1, <1>5, <2>1, <2>2 DEF HeadInv
        <3>2. CASE ~empty
            BY <3>1, <3>2 DEF next
        <3>3. CASE empty
            <4>1. more /\ next = d + 1 /\ next - 1 = d /\ next \in 1..Len(chain)
                BY <1>1, <1>2, <2>2, <3>3 DEF next
            <4>2. /\ F[d] \in Seq(Piece) /\ F[d - 1] \in Seq(Piece) /\ Len(F[d]) = Len(F[d - 1]) + 0
                BY <1>2, <1>6, <2>2, <3>3, NextPart
            <4>3. \A k \in 1..Len(F[d]) : F[next][k] = F[d][k]
                <5>1. next \in 1..Len(AtHead.what)
                    BY <1>2, <4>1
                <5>2. \A k \in 1..Len(F[next - 1]) : F[next][k] = F[next - 1][k]
                    BY <1>2, <2>2, <5>1, NextPart
                <5> QED
                    BY <4>1, <5>2
            <4>4. PICK m \in Nat : m = Len(F[d]) /\ m = Len(F[d - 1])
                BY <4>2
            <4>5. c.written = Lesser(m + 0, PktMax) /\ \A k \in 1..c.written : txSlot[txHead % TxRing][k] = F[d][k]
                BY <3>1, <4>4 DEF Prefix
            <4>6. \A k \in 1..c.written : k \in 1..m
                BY <4>5, RingAssumption DEF Lesser
            <4>7. \A k \in 1..c.written : txSlot[txHead % TxRing][k] = F[next][k]
                BY <4>3, <4>4, <4>5, <4>6
            <4> QED
                BY <4>1, <4>4, <4>5, <4>7 DEF Prefix
        <3> QED
            BY <3>2, <3>3
    <2>3. phase'["tx"] = "body" => chain[next] > 0
        BY <1>1, <1>2 DEF next
    <2> QED
        BY <1>3, <1>4, <2>2, <2>3 DEF HeadInv
<1> QED
    BY <1>1, <1>5, IntactStays

\* A slot that is not the head's keeps its packet when the head's is written.
LEMMA OtherSlots ==
    ASSUME TxRingInv, HasRoom, NEW t \in txTail..(txHead - 1)
    PROVE  t % TxRing # txHead % TxRing /\ t % TxRing \in TxSlots /\ t + 1 \in 1..Len(sent)
<1>1. /\ txHead \in Nat /\ txTail \in Nat /\ TxRing \in Nat \ {0} /\ txHead - txTail < TxRing
      /\ Len(sent) = txHead /\ txTail <= txHead
    BY RingAssumption DEF TxRingInv, HasRoom
<1>2. t \in Nat /\ txHead > t /\ txHead - t < TxRing /\ t + 1 \in 1..Len(sent)
    BY <1>1
<1>3. t % TxRing # txHead % TxRing
    BY <1>1, <1>2, SlotsDiffer
<1> QED
    BY <1>1, <1>2, <1>3, DivMod DEF TxSlots

LEMMA IntactOfChunk == IInv /\ IntactInv /\ ReadTxChunk => IntactInv'
<1> SUFFICES ASSUME IInv, IntactInv, ReadTxChunk PROVE IntactInv'
    OBVIOUS
<1> DEFINE chain == What("tx")
           c == cur["tx"]
           fits == c.written < PktMax
           written == IF fits THEN c.written + 1 ELSE c.written
           over == c.off + 1 >= chain[c.desc]
           more == c.desc < Len(chain)
           commit == over /\ ~more
           h == txHead % TxRing
           piece == <<c.id, c.desc, c.off + 1>>
           o == IF over THEN 0 ELSE c.off + 1
           d == IF over /\ more THEN c.desc + 1 ELSE c.desc
           w == IF commit THEN Reported(written, HasRoom) ELSE written
<1>1. /\ UNCHANGED <<avail, last, txTail, popping, popped>> /\ phase["tx"] = "body"
      /\ phase'["tx"] = (IF ~over THEN "body" ELSE IF more THEN "desc" ELSE "used_elem")
      /\ sent' = (IF commit /\ HasRoom THEN Append(sent, AtHead) ELSE sent)
      /\ txSlot' = (IF HasRoom /\ fits THEN [txSlot EXCEPT ![h][written] = piece] ELSE txSlot)
      /\ txLen' = (IF commit /\ HasRoom THEN [txLen EXCEPT ![h] = Lesser(written, PktMax)] ELSE txLen)
      /\ txHead' = (IF commit /\ HasRoom THEN txHead + 1 ELSE txHead)
      /\ overran' = (overran \/ ~HasRoom)
      /\ cur' = [cur EXCEPT !["tx"] = [c EXCEPT !.off = o, !.desc = d, !.written = w]]
    BY TxFacts DEF ReadTxChunk, Finish, guest, thread, AtHead
<1>2. chain[c.desc] # Bad
    BY <1>1, TxFacts DEF TxWalkInv
<1>3. /\ AtHead \in TxRequests /\ AtHead.what = chain /\ AtHead.id = c.id
      /\ c.desc \in 1..Len(chain) /\ Len(chain) \in Nat /\ chain[c.desc] \in Nat
      /\ c.off \in Nat /\ c.written \in Nat
    BY <1>1, <1>2, AtHeadType
<1>12. Chunks(AtHead.what[c.desc]) = chain[c.desc]
    BY <1>2, <1>3 DEF Chunks
<1>13. ~more => AtHead \in Sendable
    BY <1>1, <1>3, LastOfWhole, TxFacts DEF AtHead, Sendable, Walk
<1>4. TxRingInv
    BY DEF IntactInv
<1>5. /\ PktMax \in Nat \ {0} /\ TxRing \in Nat \ {0} /\ txHead \in Nat /\ txTail \in Nat
      /\ txTail <= txHead /\ h \in TxSlots
    BY <1>4, RingAssumption, DivMod DEF TxRingInv, TxSlots
<1>6. /\ piece \in Piece /\ written \in Nat \ {0} /\ (fits => written \in 1..PktMax)
      /\ Lesser(written, PktMax) \in 0..PktMax
    <2>1. c.id \in Nat
        BY TxFacts DEF Walk
    <2>2. c.desc \in Nat /\ c.off + 1 \in Nat
        BY <1>3
    <2>3. piece \in Piece
        BY <2>1, <2>2 DEF Piece
    <2>4. written \in Nat /\ (fits => written \in 1..PktMax) /\ (~fits => written >= PktMax)
        BY <1>3, <1>5
    <2> HIDE DEF written, fits
    <2>5. written \in Nat \ {0}
        BY <1>5, <2>4
    <2>6. Lesser(written, PktMax) \in 0..PktMax
        BY <1>5, <2>5 DEF Lesser
    <2> HIDE DEF piece
    <2> QED
        BY <2>3, <2>4, <2>5, <2>6
<1> HIDE DEF o, d, w, piece
<1>7. /\ cur'["tx"].off = o /\ cur'["tx"].desc = d /\ cur'["tx"].written = w
      /\ cur'["tx"].id = c.id
    BY <1>1, TxFacts DEF Walk
<1>8. chain' = chain /\ AtHead' = AtHead
    BY <1>1, <1>7 DEF What, AtHead
<1> HIDE DEF fits, written, over, more, h
<1>9. TxRingInv'
    <2>1. txSlot' \in [TxSlots -> [1..PktMax -> Piece \cup {None}]]
        <3>1. CASE HasRoom /\ fits
            <4>1. txSlot[h] \in [1..PktMax -> Piece \cup {None}]
                BY <1>4, <1>5 DEF TxRingInv
            <4>2. PICK slot : slot = [txSlot[h] EXCEPT ![written] = piece]
                OBVIOUS
            <4>3. slot \in [1..PktMax -> Piece \cup {None}]
                BY <1>6, <4>1, <4>2
            <4>4. txSlot' = [txSlot EXCEPT ![h] = slot]
                BY <1>1, <3>1, <4>2
            <4> QED
                BY <1>4, <1>5, <4>3, <4>4 DEF TxRingInv
        <3>2. CASE ~(HasRoom /\ fits)
            BY <1>1, <1>4, <3>2 DEF TxRingInv
        <3> QED
            BY <3>1, <3>2
    <2>2. txLen' \in [TxSlots -> 0..PktMax]
        BY <1>1, <1>4, <1>5, <1>6 DEF TxRingInv
    <2>3. /\ txHead' \in Nat /\ txTail' \in Nat /\ txTail' <= txHead' /\ txHead' - txTail' <= TxRing
          /\ (popping' => txTail' < txHead') /\ popping' \in BOOLEAN /\ overran' \in BOOLEAN
        <3>1. CASE commit /\ HasRoom
            BY <1>1, <1>4, <1>5, <3>1 DEF TxRingInv, HasRoom
        <3>2. CASE ~(commit /\ HasRoom)
            BY <1>1, <1>4, <1>5, <3>2 DEF TxRingInv
        <3> QED
            BY <3>1, <3>2
    <2>4. sent' \in Seq(Sendable) /\ Len(sent') = txHead'
        BY <1>1, <1>4, <1>13, AppendKeeps DEF TxRingInv
    <2> QED
        BY <1>1, <1>4, <2>1, <2>2, <2>3, <2>4 DEF TxRingInv
<1>10. CASE overran'
    BY <1>9, <1>10 DEF IntactInv
<1>11. CASE ~overran'
    <2>1. ~overran /\ HasRoom
        BY <1>1, <1>4, <1>11 DEF TxRingInv
    <2>2. /\ \A t \in txTail..(txHead - 1) : SlotInv(t)
          /\ \A i \in 1..txTail : PoppedInv(i)
          /\ HeadInv
        BY <2>1 DEF IntactInv
    <2>3. /\ c.off < chain[c.desc]
          /\ \A F : Parts(AtHead, F) =>
               Prefix(txSlot[h], c.written, F[c.desc], Len(F[c.desc - 1]) + c.off)
        BY <1>1, <1>2, <2>2 DEF HeadInv, h
    <2>4. /\ fits => /\ written = c.written + 1 /\ txSlot'[h][written] = piece
                     /\ \A k \in 1..c.written : txSlot'[h][k] = txSlot[h][k]
          /\ ~fits => written = c.written /\ txSlot' = txSlot
        <3>1. CASE fits
            <4>1. txSlot[h] \in [1..PktMax -> Piece \cup {None}] /\ written = c.written + 1
                BY <1>4, <1>5, <3>1 DEF TxRingInv, written
            <4>2. txSlot' = [txSlot EXCEPT ![h] = [txSlot[h] EXCEPT ![written] = piece]]
                BY <1>1, <2>1, <3>1
            <4>3. txSlot'[h] = [txSlot[h] EXCEPT ![written] = piece]
                BY <1>4, <1>5, <4>2 DEF TxRingInv
            <4>4. \A k \in 1..c.written : k \in 1..PktMax /\ k # written
                BY <1>3, <1>5, <3>1, <4>1 DEF fits
            <4> QED
                BY <1>6, <3>1, <4>1, <4>3, <4>4
        <3>2. CASE ~fits
            BY <1>1, <3>2 DEF written
        <3> QED
            BY <3>1, <3>2
    <2>5. ASSUME NEW F, Parts(AtHead, F)
          PROVE  Prefix(txSlot'[h], written, F[c.desc], Len(F[c.desc - 1]) + (c.off + 1))
        <3>1. Prefix(txSlot[h], c.written, F[c.desc], Len(F[c.desc - 1]) + c.off)
            BY <2>3, <2>5
        <3>2. c.written < PktMax =>
                /\ written = c.written + 1 /\ txSlot'[h][written] = <<AtHead.id, c.desc, c.off + 1>>
                /\ \A k \in 1..c.written : txSlot'[h][k] = txSlot[h][k]
            BY <1>3, <2>4 DEF fits, piece
        <3>3. c.written >= PktMax => written = c.written /\ txSlot'[h] = txSlot[h]
            BY <1>3, <1>5, <2>4 DEF fits
        <3>4. c.desc \in 1..Len(AtHead.what) /\ c.off < Chunks(AtHead.what[c.desc])
            BY <1>3, <1>12, <2>3
        <3>5. PICK desc \in 1..Len(AtHead.what) : desc = c.desc
            BY <3>4
        <3>6. PICK off \in Nat : off = c.off
            BY <1>3
        <3>7. PICK len \in Nat : len = c.written
            BY <1>3
        <3> QED
            BY <1>3, <2>5, <3>1, <3>2, <3>3, <3>4, <3>5, <3>6, <3>7, ChunkPut
    <2>6. ASSUME NEW t \in txTail..(txHead - 1) PROVE SlotInv(t)'
        <3>1. t % TxRing # h /\ t % TxRing \in TxSlots /\ t + 1 \in 1..Len(sent)
            BY <1>4, <2>1, OtherSlots DEF h
        <3>2. txSlot'[t % TxRing] = txSlot[t % TxRing] /\ txLen'[t % TxRing] = txLen[t % TxRing]
            BY <1>1, <1>4, <3>1 DEF TxRingInv
        <3>3. sent'[t + 1] = sent[t + 1]
            BY <1>1, <1>4, <1>13, <3>1, AppendKeeps DEF TxRingInv
        <3> QED
            BY <2>2, <3>2, <3>3 DEF SlotInv
    <2>7. ASSUME NEW i \in 1..txTail PROVE PoppedInv(i)'
        <3>1. i \in 1..Len(sent)
            BY <1>4, <1>5 DEF TxRingInv
        <3>2. sent'[i] = sent[i]
            BY <1>1, <1>4, <1>13, <3>1, AppendKeeps DEF TxRingInv
        <3> QED
            BY <1>1, <2>2, <3>2 DEF PoppedInv
    <2>8. CASE commit
        <3>1. c.desc = Len(chain) /\ chain[c.desc] = c.off + 1
            BY <1>3, <2>3, <2>8 DEF commit, over, more
        <3>2. txHead' = txHead + 1 /\ sent'[txHead + 1] = AtHead /\ txLen'[h] = Lesser(written, PktMax)
            BY <1>1, <1>4, <1>5, <1>13, <2>1, <2>8, AppendKeeps DEF TxRingInv
        <3>3. ASSUME NEW t, t = txHead PROVE SlotInv(t)'
            <4>1. ASSUME NEW F, Parts(AtHead, F)
                  PROVE  Prefix(txSlot'[h], txLen'[h], F[Len(chain)], Len(F[Len(chain)]))
                <5>1. c.desc \in 1..Len(AtHead.what) /\ Chunks(AtHead.what[c.desc]) = c.off + 1
                    BY <1>3, <1>12, <3>1
                <5>2. Len(F[c.desc]) = Len(F[c.desc - 1]) + (c.off + 1) /\ F[c.desc] \in Seq(Piece)
                    BY <1>3, <4>1, <5>1, NextPart
                <5>3. Prefix(txSlot'[h], written, F[c.desc], Len(F[c.desc]))
                    BY <2>5, <4>1, <5>2
                <5>4. PICK m \in Nat : m = Len(F[c.desc])
                    BY <5>2
                <5>5. written = Lesser(m, PktMax)
                    BY <5>3, <5>4 DEF Prefix
                <5>6. Lesser(written, PktMax) = written
                    BY <1>5, <5>4, <5>5 DEF Lesser
                <5> QED
                    BY <3>1, <3>2, <5>3, <5>6
            <4>2. sent'[t + 1] = AtHead /\ t % TxRing = h
                BY <3>2, <3>3 DEF h
            <4>3. AtHead.what = chain
                BY <1>3
            <4> QED
                BY <4>1, <4>2, <4>3 DEF SlotInv
        <3>4. HeadInv'
            BY <1>1, <2>8, HeadRests DEF commit
        <3>5. \A t \in txTail..(txHead' - 1) : t \in txTail..(txHead - 1) \/ t = txHead
            BY <1>5, <3>2
        <3> QED
            BY <1>1, <1>9, <2>6, <2>7, <3>3, <3>4, <3>5 DEF IntactInv
    <2>9. CASE ~commit
        <3>1. txHead' = txHead /\ w = written
            BY <1>1, <2>9 DEF w
        <3>2. ASSUME NEW F, Parts(AtHead, F)
              PROVE  Prefix(txSlot'[h], written, F[d], Len(F[d - 1]) + o)
            <4>1. Prefix(txSlot'[h], written, F[c.desc], Len(F[c.desc - 1]) + (c.off + 1))
                BY <2>5, <3>2
            <4>2. CASE ~over
                BY <4>1, <4>2 DEF o, d
            <4>3. CASE over
                <5>1. /\ d = c.desc + 1 /\ d - 1 = c.desc /\ d \in 1..Len(AtHead.what) /\ o = 0
                      /\ chain[c.desc] = c.off + 1
                    BY <1>3, <2>3, <2>9, <4>3 DEF commit, d, o, more, over
                <5>9. c.desc \in 1..Len(AtHead.what) /\ Chunks(AtHead.what[c.desc]) = c.off + 1
                    BY <1>3, <1>12, <5>1
                <5>2. Len(F[c.desc]) = Len(F[c.desc - 1]) + (c.off + 1) /\ F[c.desc] \in Seq(Piece)
                    BY <1>3, <3>2, <5>9, NextPart
                <5>3. \A k \in 1..Len(F[d - 1]) : F[d][k] = F[d - 1][k]
                    <6>1. PICK e \in 1..Len(AtHead.what) : e = d
                        BY <5>1
                    <6>2. \A k \in 1..Len(F[e - 1]) : F[e][k] = F[e - 1][k]
                        BY <1>3, <3>2, NextPart
                    <6> QED
                        BY <6>1, <6>2
                <5>4. PICK m \in Nat : m = Len(F[c.desc])
                    BY <5>2
                <5>5. written = Lesser(m, PktMax) /\ \A k \in 1..written : txSlot'[h][k] = F[c.desc][k]
                    BY <4>1, <5>2, <5>4 DEF Prefix
                <5>6. \A k \in 1..written : k \in 1..m
                    BY <1>5, <5>4, <5>5 DEF Lesser
                <5>7. \A k \in 1..written : txSlot'[h][k] = F[d][k]
                    BY <5>1, <5>3, <5>4, <5>5, <5>6
                <5>8. Len(F[d - 1]) + o = m
                    BY <5>1, <5>4
                <5> QED
                    BY <5>5, <5>7, <5>8 DEF Prefix
            <4> QED
                BY <4>2, <4>3
        <3>3. HeadInv'
            <4>1. phase'["tx"] = "desc" => o = 0
                BY <1>1 DEF o
            <4>2. phase'["tx"] = "body" => o < chain[d]
                BY <1>1, <1>3 DEF o, d, over
            <4>3. \A F : Parts(AtHead, F)' =>
                    Prefix(txSlot'[txHead' % TxRing], cur'["tx"].written, F[cur'["tx"].desc],
                           Len(F[cur'["tx"].desc - 1]) + cur'["tx"].off)
                BY <1>7, <1>8, <3>1, <3>2 DEF h
            <4> QED
                BY <1>7, <1>8, <4>1, <4>2, <4>3 DEF HeadInv
        <3> QED
            BY <1>1, <1>9, <2>6, <2>7, <3>1, <3>3 DEF IntactInv
    <2> QED
        BY <2>8, <2>9
<1> QED
    BY <1>10, <1>11

\* The back end gets a copy of the slot at the tail.
LEMMA IntactOfPopped == IInv /\ IntactInv /\ Popped => IntactInv'
<1> SUFFICES ASSUME IInv, IntactInv, Popped PROVE IntactInv'
    OBVIOUS
<1> DEFINE h == txTail % TxRing
           copy == SubSeq(txSlot[h], 1, txLen[h])
<1>1. /\ UNCHANGED <<avail, last, cur, phase, txSlot, txLen, txHead, sent, overran>>
      /\ popping /\ popping' = FALSE /\ popped' = Append(popped, copy) /\ txTail' = txTail + 1
    BY DEF Popped, guest, card
<1>2. TxRingInv
    BY DEF IntactInv
<1>3. /\ txTail < txHead /\ txTail \in Nat /\ txHead \in Nat /\ TxRing \in Nat \ {0} /\ PktMax \in Nat \ {0}
      /\ h \in TxSlots /\ Len(popped) = txTail /\ Len(sent) = txHead /\ txHead - txTail <= TxRing
    BY <1>1, <1>2, RingAssumption, DivMod DEF TxRingInv, TxSlots
<1>4. txSlot[h] \in [1..PktMax -> Piece \cup {None}] /\ txLen[h] \in 0..PktMax
    BY <1>2, <1>3 DEF TxRingInv
<1> HIDE DEF h
<1>5. copy \in Seq(Piece \cup {None}) /\ copy = [k \in 1..txLen[h] |-> txSlot[h][k]]
    <2>1. PICK n \in 0..PktMax : n = txLen[h]
        BY <1>4
    <2>2. PICK slot \in [1..PktMax -> Piece \cup {None}] : slot = txSlot[h]
        BY <1>4
    <2>3. slot \in Seq(Piece \cup {None}) /\ Len(slot) = PktMax
        BY <1>3, <2>2
    <2>4. SubSeq(slot, 1, n) = [k \in 1..n |-> slot[k]]
        BY <1>3, <2>1, <2>3
    <2>5. [k \in 1..n |-> slot[k]] \in Seq(Piece \cup {None})
        BY <1>3, <2>1, <2>2
    <2> QED
        BY <2>1, <2>2, <2>4, <2>5
<1> HIDE DEF copy
<1>6. /\ popped' \in Seq(Seq(Piece \cup {None})) /\ Len(popped') = txTail + 1
      /\ popped'[txTail + 1] = copy /\ \A i \in 1..txTail : popped'[i] = popped[i]
    <2>1. popped \in Seq(Seq(Piece \cup {None}))
        BY <1>2 DEF TxRingInv
    <2> QED
        BY <1>1, <1>3, <1>5, <2>1, AppendKeeps
<1>7. TxRingInv'
    <2>1. /\ txTail' \in Nat /\ txTail' <= txHead' /\ txHead' - txTail' <= TxRing
        BY <1>1, <1>3
    <2>2. Len(popped') = txTail'
        BY <1>1, <1>6
    <2>3. popping' = FALSE
        BY <1>1
    <2> QED
        BY <1>1, <1>2, <1>6, <2>1, <2>2, <2>3 DEF TxRingInv
<1>8. CASE overran
    BY <1>1, <1>7, <1>8 DEF IntactInv
<1>9. CASE ~overran
    <2>1. /\ \A t \in txTail..(txHead - 1) : SlotInv(t)
          /\ \A i \in 1..txTail : PoppedInv(i)
          /\ HeadInv
        BY <1>9 DEF IntactInv
    <2>2. HeadInv'
        BY <1>1, <2>1, HeadStays DEF What
    <2>3. \A t \in txTail'..(txHead' - 1) : SlotInv(t)'
        <3>1. \A t \in txTail'..(txHead' - 1) : t \in txTail..(txHead - 1)
            BY <1>1, <1>3
        <3> QED
            BY <1>1, <2>1, <3>1 DEF SlotInv
    <2>4. \A i \in 1..txTail : PoppedInv(i)'
        BY <1>1, <1>6, <2>1 DEF PoppedInv
    <2>5. ASSUME NEW F, Parts(sent[txTail + 1], F)
          PROVE  LET data == F[Len(sent[txTail + 1].what)]
                 IN  copy = SubSeq(data, 1, Lesser(Len(data), PktMax))
        <3> DEFINE s == sent[txTail + 1]
        <3>1. SlotInv(txTail)
            BY <1>3, <2>1
        <3>2. s \in Sendable
            <4>1. sent \in Seq(Sendable) /\ txTail + 1 \in 1..Len(sent)
                BY <1>2, <1>3 DEF TxRingInv
            <4> QED
                BY <4>1, ElementIs
        <3> HIDE DEF s
        <3>3. PICK data : data = F[Len(s.what)]
            OBVIOUS
        <3>4. data \in Seq(Piece)
            <4>1. s.what \in Seq(Nat \cup {Bad})
                BY <3>2, KindsAssumption DEF Sendable, Whole
            <4>2. Len(s.what) \in 0..Len(s.what)
                BY <4>1
            <4>3. F \in [0..Len(s.what) -> Seq(Piece)]
                BY <2>5 DEF Parts, s
            <4> QED
                BY <3>3, <4>2, <4>3
        <3>5. Prefix(txSlot[h], txLen[h], data, Len(data))
            BY <2>5, <3>1, <3>3 DEF SlotInv, h, s
        <3>6. PICK n \in 0..PktMax : n = txLen[h]
            BY <1>4
        <3>7. n = Lesser(Len(data), PktMax) /\ \A k \in 1..n : txSlot[h][k] = data[k]
            BY <3>5, <3>6 DEF Prefix
        <3>8. n <= Len(data)
            BY <1>3, <3>4, <3>7 DEF Lesser
        <3>9. SubSeq(data, 1, n) = [k \in 1..n |-> data[k]]
            BY <3>4, <3>6, <3>8
        <3>10. copy = SubSeq(data, 1, n)
            BY <1>5, <3>6, <3>7, <3>9
        <3> QED
            BY <3>3, <3>7, <3>10 DEF s
    <2>6. ASSUME NEW i, i = txTail + 1 PROVE PoppedInv(i)'
        <3>1. popped'[i] = copy /\ sent'[i] = sent[txTail + 1]
            BY <1>1, <1>6, <2>6
        <3> QED
            BY <2>5, <3>1 DEF PoppedInv
    <2>7. \A i \in 1..txTail' : i \in 1..txTail \/ i = txTail + 1
        BY <1>1, <1>3
    <2> QED
        BY <1>7, <2>2, <2>3, <2>4, <2>6, <2>7 DEF IntactInv
<1> QED
    BY <1>8, <1>9


\* A pop is begun only when there is a packet.
LEMMA IntactOfPop == IInv /\ IntactInv /\ Pop => IntactInv'
<1> SUFFICES ASSUME IInv, IntactInv, Pop PROVE IntactInv'
    OBVIOUS
<1>1. /\ UNCHANGED <<avail, last, cur, phase, txSlot, txLen, txHead, txTail, sent, popped, overran>>
      /\ txHead # txTail /\ popping' = TRUE
    BY DEF Pop, guest, card, rings, txRing, history
<1>2. TxRingInv'
    <2>1. TxRingInv
        BY DEF IntactInv
    <2>2. txTail < txHead
        BY <1>1, <2>1 DEF TxRingInv
    <2> QED
        BY <1>1, <2>1, <2>2 DEF TxRingInv
<1>3. HeadInv => HeadInv'
    BY <1>1, HeadStays DEF What
<1>4. \A t : SlotInv(t) => SlotInv(t)'
    BY <1>1 DEF SlotInv
<1>5. \A i : PoppedInv(i) => PoppedInv(i)'
    BY <1>1 DEF PoppedInv
<1> QED
    BY <1>1, <1>2, <1>3, <1>4, <1>5 DEF IntactInv

\* The driver may shut the queue down in the middle of a packet: the slot at
\* the head is then written from its start by the next request.
LEMMA IntactOfDriver == IInv /\ IntactInv /\ Driver => IntactInv'
<1> SUFFICES ASSUME IInv, IntactInv, Driver PROVE IntactInv'
    OBVIOUS
<1>0. GuestTypes /\ CardTypes
    BY DEF IInv, Types
<1>1. UNCHANGED txSide /\ UNCHANGED <<txSlot, txHead>>
    BY DEF Driver, EnableQueue, DisableQueue, DriverOk, ResetCard, Notify, AckInterrupt, Collect,
        Post, rings, thread, history, txSide, txRing
<1>2. CASE ResetCard
    <2>1. phase'["tx"] = "idle"
        BY <1>2 DEF ResetCard
    <2> QED
        BY <1>1, <2>1, HeadRests, IntactStays
<1>3. ASSUME NEW q \in Queues, EnableQueue(q) \/ DisableQueue(q) PROVE HeadInv => HeadInv'
    <2>1. StartOver(q) /\ cur' = cur
        BY <1>3 DEF EnableQueue, DisableQueue
    <2>2. CASE q = "tx"
        <3>1. phase'["tx"] = "idle"
            BY <1>0, <2>1, <2>2 DEF StartOver, CardTypes
        <3> QED
            BY <3>1, HeadRests
    <2>3. CASE q = "rx"
        <3>1. /\ avail'["tx"] = avail["tx"] /\ phase'["tx"] = phase["tx"]
              /\ last'["tx"] = last["tx"]
            BY <1>0, <2>1, <2>3 DEF StartOver, GuestTypes, CardTypes
        <3> QED
            BY <1>1, <2>1, <3>1, HeadStays DEF What
    <2> QED
        BY <2>2, <2>3
<1>4. ASSUME NEW q \in Queues, NEW what \in Buffers \cup Chains, Post(q, what)
      PROVE  HeadInv => HeadInv'
    <2>1. /\ avail' = [avail EXCEPT ![q] = Append(avail[q], [id |-> posts[q] + 1, what |-> what])]
          /\ UNCHANGED <<phase, last, cur>>
        BY <1>4 DEF Post, card
    <2>2. CASE q = "rx"
        <3>1. avail'["tx"] = avail["tx"]
            BY <1>0, <2>1, <2>2 DEF GuestTypes
        <3> QED
            BY <1>1, <2>1, <3>1, HeadStays DEF What
    <2>3. CASE q = "tx"
        <3> DEFINE r == [id |-> posts["tx"] + 1, what |-> what]
        <3>1. avail'["tx"] = Append(avail["tx"], r) /\ avail["tx"] \in Seq(Request)
            BY <1>0, <2>1, <2>3 DEF GuestTypes
        <3>2. r \in Request
            BY TxFacts DEF Request
        <3> HIDE DEF r
        <3>3. \A i \in 1..Len(avail["tx"]) : avail'["tx"][i] = avail["tx"][i]
            BY <3>1, <3>2, AppendKeeps
        <3>4. phase["tx"] \in {"desc", "body"} => What("tx")' = What("tx")
            BY <2>1, <3>3, NotYetSent DEF What
        <3> QED
            BY <1>1, <2>1, <3>4, HeadStays
    <2> QED
        BY <2>2, <2>3
<1>5. CASE Notify
    <2>1. UNCHANGED <<avail, last, cur>> /\ phase'["tx"] = Kicked(phase["tx"])
        BY <1>0, <1>5 DEF Notify, CardTypes
    <2>2. CASE phase["tx"] = "idle"
        BY <1>1, <2>1, <2>2, HeadRests, IntactStays DEF Kicked
    <2>3. CASE phase["tx"] # "idle"
        <3>1. HeadInv => HeadInv'
            BY <1>1, <2>1, <2>3, HeadStays DEF Kicked, What
        <3> QED
            BY <1>1, <3>1, IntactStays
    <2> QED
        BY <2>2, <2>3
<1>6. CASE DriverOk \/ AckInterrupt \/ Collect
    <2>1. UNCHANGED <<avail, last, cur, phase>>
        BY <1>6 DEF DriverOk, AckInterrupt, Collect, card
    <2>2. HeadInv => HeadInv'
        BY <1>1, <2>1, HeadStays DEF What
    <2> QED
        BY <1>1, <2>2, IntactStays
<1> QED
    BY <1>1, <1>2, <1>3, <1>4, <1>5, <1>6, IntactStays DEF Driver

\* The steps that leave the place of the transmit queue alone, and those that
\* take it to a phase in which the slot at the head says nothing.
LEMMA IntactOfTick == IInv /\ IntactInv /\ Tick => IntactInv'
<1> SUFFICES ASSUME IInv, IntactInv, Tick PROVE IntactInv'
    OBVIOUS
<1>0. CardTypes /\ GuestTypes
    BY DEF IInv, Types
<1>1. ASSUME UNCHANGED txSide, avail'["tx"] = avail["tx"], last'["tx"] = last["tx"],
             phase'["tx"] = phase["tx"], cur'["tx"] = cur["tx"]
      PROVE  IntactInv'
    <2>1. UNCHANGED <<txSlot, txHead>> /\ What("tx")' = What("tx")
        BY <1>1 DEF txSide, txRing, What
    <2> QED
        BY <1>1, <2>1, HeadStays, IntactStays
<1>2. ASSUME UNCHANGED txSide, phase'["tx"] \notin {"desc", "body"} PROVE IntactInv'
    BY <1>2, HeadRests, IntactStays
<1>3. CASE Wake
    BY <1>0, <1>1, <1>3 DEF Wake, CardTypes, guest, rings, thread, history, txSide
<1>4. ASSUME NEW q \in Queues, Start(q) PROVE IntactInv'
    <2>1. UNCHANGED <<avail, last, phase>> /\ UNCHANGED txSide
        BY <1>4 DEF Start, guest, rings, thread, history, txSide
    <2>2. cur'["tx"] = cur["tx"]
        BY <1>4, StartStays DEF Loaded
    <2> QED
        BY <1>1, <2>1, <2>2
<1>5. CASE ReadAvailIdx("tx") \/ ReadBadDesc("tx") \/ WriteUsedElem("tx") \/ WriteUsedIdx("tx")
    <2>1. /\ UNCHANGED txSide
          /\ phase'["tx"] \in {"idle", "avail_idx", "ring", "used_elem", "used_idx"}
        BY <1>0, <1>5 DEF ReadAvailIdx, ReadBadDesc, WriteUsedElem, WriteUsedIdx, After, Finish,
            CardTypes, guest, rings, thread, history, txSide
    <2> QED
        BY <1>2, <2>1
<1>6. CASE ReadAvailIdx("rx") \/ ReadRing("rx")
    BY <1>0, <1>1, <1>6 DEF ReadAvailIdx, ReadRing, Finish, CardTypes, guest, rings, thread,
        history, txSide
<1>7. CASE Move("rx")
    <2>1. UNCHANGED <<avail, last>> /\ phase'["tx"] = phase["tx"] /\ cur'["tx"] = cur["tx"]
        BY <1>7, MoveStays DEF guest
    <2>2. UNCHANGED txSide
        BY <1>7 DEF Move, ReadBadDesc, WriteUsedElem, ReadRxDesc, WriteHeader, WriteRxChunk,
            rings, thread, history, txSide
    <2> QED
        BY <1>1, <2>1, <2>2
<1>8. CASE WriteUsedIdx("rx")
    <2>1. /\ UNCHANGED <<avail, cur>> /\ phase'["tx"] = phase["tx"] /\ last'["tx"] = last["tx"]
          /\ UNCHANGED txSide
        BY <1>0, <1>8 DEF WriteUsedIdx, Finish, CardTypes, rings, thread, txSide
    <2> QED
        BY <1>1, <2>1
<1> QED
    BY <1>3, <1>4, <1>5, <1>6, <1>7, <1>8, IntactOfRing, IntactOfDesc, IntactOfChunk
       DEF Tick, Move

LEMMA IntactOfThread == IInv /\ IntactInv /\ Thread => IntactInv'
<1> SUFFICES ASSUME IInv, IntactInv, Thread PROVE IntactInv'
    OBVIOUS
<1>1. CASE Pushed \/ \E n \in Lengths : Push(n)
    <2>1. UNCHANGED <<avail, last, phase, cur, txSlot, txHead>> /\ UNCHANGED txSide
        BY <1>1 DEF Push, Pushed, guest, card, history, txSide, txRing
    <2>2. HeadInv => HeadInv'
        BY <2>1, HeadStays DEF What
    <2> QED
        BY <2>1, <2>2, IntactStays
<1> QED
    BY <1>1, IntactOfPop, IntactOfPopped DEF Thread

LEMMA IntactStarts == Init => IntactInv
<1> SUFFICES ASSUME Init PROVE IntactInv
    OBVIOUS
<1>1. /\ txHead = 0 /\ txTail = 0 /\ popping = FALSE /\ overran = FALSE
      /\ sent = <<>> /\ popped = <<>> /\ phase["tx"] = "idle"
      /\ txSlot = [i \in TxSlots |-> [k \in 1..PktMax |-> None]] /\ txLen = [i \in TxSlots |-> 0]
    BY DEF Init
<1>2. TxRingInv
    <2>1. txSlot \in [TxSlots -> [1..PktMax -> Piece \cup {None}]] /\ txLen \in [TxSlots -> 0..PktMax]
        BY <1>1, RingAssumption
    <2>2. sent \in Seq(Sendable) /\ Len(sent) = 0
        BY <1>1
    <2>3. popped \in Seq(Seq(Piece \cup {None})) /\ Len(popped) = 0
        BY <1>1
    <2>4. popping \in BOOLEAN /\ overran \in BOOLEAN /\ ~popping
        BY <1>1, Zenon
    <2> QED
        BY <1>1, <2>1, <2>2, <2>3, <2>4, RingAssumption DEF TxRingInv
<1>3. HeadInv
    BY <1>1 DEF HeadInv
<1> QED
    BY <1>1, <1>2, <1>3 DEF IntactInv

LEMMA IntactRests == IInv /\ IntactInv /\ UNCHANGED vars => IntactInv'
<1> SUFFICES ASSUME IInv, IntactInv, UNCHANGED vars PROVE IntactInv'
    OBVIOUS
<1>1. UNCHANGED <<avail, last, phase, cur, txSlot, txHead>> /\ UNCHANGED txSide
    BY DEF vars, guest, card, thread, history, txSide, txRing
<1>2. HeadInv => HeadInv'
    BY <1>1, HeadStays DEF What
<1> QED
    BY <1>1, <1>2, IntactStays

LEMMA IntactAlways == Spec => []IntactInv
<1>1. IInv /\ IntactInv /\ [Next]_vars => IntactInv'
    BY IntactOfDriver, IntactOfTick, IntactOfThread, IntactRests DEF Next
<1> QED
    BY <1>1, IntactStarts, Strengthening, PTL DEF Spec

\* As long as every chunk finds room in the packet ring, what the back end pops
\* is what the driver sent, up to the size of a slot and in the order it was
\* sent: no packet is mixed with another, and none is popped before all of it is
\* there, whatever the driver disables or resets meanwhile (VirtioNet.cpp, the
\* transmit walk and popTxPacket).
THEOREM PacketsAreIntact == Spec => []IntactUnlessOverrun
<1>1. IntactInv => IntactUnlessOverrun
    <2> SUFFICES ASSUME IntactInv, ~overran, NEW i \in DOMAIN popped
                 PROVE  LET data == DataOf(sent[i])
                        IN  popped[i] = SubSeq(data, 1, Lesser(Len(data), PktMax))
        BY DEF IntactUnlessOverrun, TxIntact
    <2>1. TxRingInv /\ \A k \in 1..txTail : PoppedInv(k)
        BY DEF IntactInv
    <2>2. i \in 1..txTail /\ i \in 1..Len(sent)
        <3>1. popped \in Seq(Seq(Piece \cup {None})) /\ Len(popped) = txTail
            BY <2>1 DEF TxRingInv
        <3>2. i \in 1..txTail
            BY <3>1
        <3> QED
            BY <2>1, <3>2 DEF TxRingInv
    <2>3. sent[i] \in Sendable
        BY <2>1, <2>2, ElementIs DEF TxRingInv
    <2>4. PICK F : Parts(sent[i], F) /\ DataOf(sent[i]) = F[Len(sent[i].what)]
        BY <2>3, DataIsParts
    <2> QED
        BY <2>1, <2>2, <2>4 DEF PoppedInv
<1> QED
    BY <1>1, IntactAlways, PTL
=============================================================================
