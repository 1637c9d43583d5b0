---------------------------- MODULE VirtioDevices ----------------------------
(* The other virtio devices: the block device before its medium, the source  *)
(* of entropy, and the input device with the two event rings it shares with  *)
(* host threads.  The initial state chooses one (`dev`).  All three walk     *)
(* their queues as VirtioNet's card does; interrupts are shown there.        *)
(*                                                                           *)
(* The unit of data is the piece a device moves at a time: 64 bytes of a     *)
(* block or of entropy, one event of input.  A request is a sequence of      *)
(* descriptors, each with its length and what comes next, and for the block  *)
(* device the type and sector its header holds.  A length of 0 stands for    *)
(* one that is too short: of a header, of an event, of a status byte.        *)
EXTENDS Integers, Sequences, SequencesExt

CONSTANTS
    Devices,        \* among "blk", "rng", "input"
    Blocks,         \* requests to the block device
    Reads,          \* to the source of entropy
    EventBuffers, StatusChains,  \* to the two queues of the input device
    SectorSize,     \* pieces in a sector
    Size, Top,      \* pieces on the medium, and the highest address: 2^64 - 1
    Ring,           \* slots of either event ring
    Batch,          \* events the port's buffer takes
    MaxPosts, MaxEvents, MaxResets,  \* bounds
    Junk, Nothing

QueuesOf == [blk |-> {"req"}, rng |-> {"req"}, input |-> {"event", "status"}]
AllQueues == {"req", "event", "status"}
Slots == 0..(Ring - 1)

\* What the constants may be.  A chain ends with its one descriptor that does not
\* lead to another; and only the last buffer for entropy may be empty.
Descriptor == [len : Nat, next : {"next", "none", "stray"}]
IsChain(c) ==
    /\ c \in Seq(Descriptor) /\ c # <<>>
    /\ \A d \in 1..Len(c) : c[d].next = "next" <=> d < Len(c)
RequestsAssumption ==
    /\ Devices \subseteq {"blk", "rng", "input"}
    /\ \A r \in Blocks : IsChain(r.chain) /\ r.sector \in Nat
    /\ \A r \in Reads : IsChain(r.chain) /\ \A d \in 1..(Len(r.chain) - 1) : r.chain[d].len > 0
    /\ \A r \in EventBuffers \cup StatusChains : IsChain(r.chain)
RingsAssumption ==
    /\ SectorSize \in Nat \ {0} /\ Size \in Nat /\ Top \in Nat /\ Size <= Top + 1
    /\ Ring \in Nat \ {0} /\ Batch \in Nat
    /\ Nothing \notin AllQueues

VARIABLES
    dev,
    \* the driver, and what it shares with the device in the guest's memory
    ok, ready, posts, avail, used, resets,
    \* the device
    phase, last, cur, mp,
    \* the block device: its registers, and its medium
    type, sector, st, readOnly, medium,
    draws,      \* how often the source of entropy has drawn
    \* the event rings and their host threads
    evSlot, evHead, evTail, stSlot, stHead, stTail, pushing, popping,
    \* history: the medium when the request was taken, events pushed, those the
    \* guest received, events of the guest put in the ring, and popped from it;
    \* whether one found the ring full
    shadow, pushed, received, accepted, popped, overran

driver == <<ok, ready, posts, avail, used, resets>>
walk == <<phase, last, cur, mp>>
block == <<type, sector, st, readOnly, medium, shadow>>
evRing == <<evSlot, evHead, evTail, pushing, pushed>>
stRing == <<stSlot, stHead, stTail, popping, accepted, popped, overran>>
devicesVars == <<dev, driver, walk, block, draws, evRing, stRing, received>>

Fresh == [id |-> 0, desc |-> 1, off |-> 0, written |-> 0, parsed |-> FALSE, chunk |-> <<>>,
          step |-> 0, got |-> <<>>, status |-> Nothing]

DevicesInit ==
    /\ dev \in Devices /\ readOnly \in IF dev = "blk" THEN BOOLEAN ELSE {FALSE}
    /\ ok = FALSE /\ ready = [q \in AllQueues |-> FALSE] /\ posts = [q \in AllQueues |-> 0]
    /\ avail = [q \in AllQueues |-> <<>>] /\ used = [q \in AllQueues |-> <<>>] /\ resets = 0
    /\ phase = [q \in AllQueues |-> "idle"] /\ last = [q \in AllQueues |-> 0]
    /\ cur = [q \in AllQueues |-> Fresh] /\ mp = Nothing
    /\ type = "in" /\ sector = 0 /\ st = "ok" /\ draws = 0
    /\ medium = [p \in 0..(Size - 1) |-> <<0, p>>] /\ shadow = medium
    /\ evSlot = [i \in Slots |-> 0] /\ evHead = 0 /\ evTail = 0 /\ pushing = FALSE
    /\ stSlot = [i \in Slots |-> 0] /\ stHead = 0 /\ stTail = 0 /\ popping = FALSE
    /\ pushed = 0 /\ received = <<>> /\ accepted = <<>> /\ popped = <<>> /\ overran = FALSE

-----------------------------------------------------------------------------
(* The driver. *)

Queues == QueuesOf[dev]
StartOver(q) ==
    /\ phase' = [phase EXCEPT ![q] = "idle"] /\ last' = [last EXCEPT ![q] = 0]
    /\ avail' = [avail EXCEPT ![q] = <<>>] /\ used' = [used EXCEPT ![q] = <<>>]
Elsewhere == UNCHANGED <<dev, block, draws, evRing, stRing, received>>

EnableQueue(q) ==
    /\ ~ready[q] /\ ready' = [ready EXCEPT ![q] = TRUE] /\ StartOver(q)
    /\ UNCHANGED <<ok, posts, resets, cur, mp>> /\ Elsewhere

\* What the queue has on the bus is let go.
DisableQueue(q) ==
    /\ ready[q] /\ resets < MaxResets /\ resets' = resets + 1
    /\ ready' = [ready EXCEPT ![q] = FALSE] /\ StartOver(q)
    /\ mp' = IF mp = q THEN Nothing ELSE mp
    /\ UNCHANGED <<ok, posts, cur>> /\ Elsewhere

DriverOk == ~ok /\ ok' = TRUE /\ UNCHANGED <<ready, posts, avail, used, resets, walk>> /\ Elsewhere

\* The rings, the medium and the registers of the last request stay.
ResetDevice ==
    /\ ok /\ resets < MaxResets /\ resets' = resets + 1
    /\ ok' = FALSE /\ ready' = [q \in AllQueues |-> FALSE] /\ mp' = Nothing
    /\ phase' = [q \in AllQueues |-> "idle"] /\ last' = [q \in AllQueues |-> 0]
    /\ cur' = [q \in AllQueues |-> Fresh]
    /\ avail' = [q \in AllQueues |-> <<>>] /\ used' = [q \in AllQueues |-> <<>>]
    /\ UNCHANGED posts /\ Elsewhere

Offers(q) ==
    CASE q = "event" -> EventBuffers [] q = "status" -> StatusChains
      [] OTHER -> IF dev = "blk" THEN Blocks ELSE Reads
Post(q) ==
    /\ ready[q] /\ posts[q] < MaxPosts /\ posts' = [posts EXCEPT ![q] = @ + 1]
    /\ \E r \in Offers(q) : avail' = [avail EXCEPT ![q] = Append(@, [id |-> posts'[q], what |-> r])]
    /\ UNCHANGED <<ok, ready, used, resets, walk>> /\ Elsewhere

\* The event queue heeds no notification.
Notify(q) ==
    /\ q # "event" /\ ok /\ ready[q] /\ phase[q] = "idle"
    /\ phase' = [phase EXCEPT ![q] = "avail_idx"]
    /\ UNCHANGED <<driver, last, cur, mp>> /\ Elsewhere

-----------------------------------------------------------------------------
(* Walking a queue. *)

Lesser(a, b) == IF a < b THEN a ELSE b
Current(q) == avail[q][last[q] + 1]
Chain(q) == Current(q).what.chain
Desc(q) == Chain(q)[cur[q].desc]

WakesUp == dev = "input" /\ phase["event"] = "idle" /\ ready["event"] /\ ok /\ evHead # evTail
Wake ==
    /\ WakesUp /\ phase' = [phase EXCEPT !["event"] = "avail_idx"]
    /\ UNCHANGED <<driver, last, cur, mp>> /\ Elsewhere

\* The events a buffer gets: as many as there are, as fit, as the port takes.
Backlog == Lesser(evHead - evTail, Lesser(Desc("event").len, Batch))

\* Where a piece of the request lies on the medium.  An address beyond the top is
\* refused before the multiplication can wrap.
\* Mutant: the multiplication wraps.
InReach_Any(w) == TRUE
InReach(w) == sector <= (Top - w) \div SectorSize
Place(w) == (sector * SectorSize + w) % (Top + 1)
\* The back end: in memory or a mapped file.
\* Mutant: the last piece of the medium is refused.
OnMedium_ButLast(p) == p < Size - 1
OnMedium(p) == p < Size
CanRead(w) == InReach(w) /\ OnMedium(Place(w))
CanWrite(w) == InReach(w) /\ ~readOnly /\ OnMedium(Place(w))

\* What a device takes into its buffer as it begins a transfer.
Loads(q) == phase[q] = "data" /\ (dev = "rng" \/ q = "event" \/ (dev = "blk" /\ type = "in"))
Buffered(q) ==
    IF ~Loads(q) THEN cur[q]
    ELSE IF q = "event"
    THEN [cur[q] EXCEPT !.step = evTail,
                        !.chunk = [k \in 1..Backlog |-> evSlot[(evTail + k - 1) % Ring]]]
    ELSE IF dev = "rng" THEN [cur[q] EXCEPT !.chunk = <<draws + 1>>]
    ELSE [cur[q] EXCEPT !.chunk = <<IF CanRead(cur[q].written) THEN medium[Place(cur[q].written)] ELSE Junk>>]

\* A buffer for which there is no event yet is kept, and the other queue goes on.
Begins(q) == phase[q] # "idle" /\ (q = "event" /\ phase[q] = "data" => Backlog > 0)
Start(q) ==
    /\ mp = Nothing /\ Begins(q)
    /\ q = "status" => ~Begins("event") /\ ~WakesUp
    /\ mp' = q /\ cur' = [cur EXCEPT ![q] = Buffered(q)]
    /\ st' = IF dev = "blk" /\ Loads(q) /\ ~CanRead(cur[q].written) THEN "ioerr" ELSE st
    /\ draws' = IF dev = "rng" /\ Loads(q) THEN draws + 1 ELSE draws
    /\ UNCHANGED <<dev, driver, phase, last, type, sector, readOnly, medium, shadow, evRing, stRing, received>>

Finish(q, at, to) ==
    /\ mp = q /\ phase[q] = at
    /\ mp' = Nothing /\ phase' = [phase EXCEPT ![q] = to]

ReadAvailIdx(q) ==
    /\ Finish(q, "avail_idx", IF Len(avail[q]) = last[q] THEN "idle" ELSE "ring")
    /\ UNCHANGED <<driver, last, cur>> /\ Elsewhere

\* Mutant: the queue remembers that it has parsed a header.
Taken_Parsed(q) == [Fresh EXCEPT !.id = Current(q).id, !.parsed = cur[q].parsed]
Taken(q) == [Fresh EXCEPT !.id = Current(q).id]
ReadRing(q) ==
    /\ Finish(q, "ring", "desc") /\ cur' = [cur EXCEPT ![q] = Taken(q)]
    /\ shadow' = medium
    /\ UNCHANGED <<driver, last, dev, type, sector, st, readOnly, medium, draws, evRing, stRing, received>>

\* Where the walk goes behind a descriptor, and the one it comes to.
Behind(q, end) == CASE Desc(q).next = "none" -> end [] Desc(q).next = "stray" -> "used_elem" [] OTHER -> "desc"
Onward(q) == IF Desc(q).next = "next" THEN cur[q].desc + 1 ELSE cur[q].desc

\* What a descriptor is for.  Only the block device tells them apart by place;
\* one that is empty is stepped over, or ends the request.
BlockPhase ==
    IF ~cur["req"].parsed THEN IF Desc("req").len = 0 THEN "used_elem" ELSE "header"
    ELSE IF Desc("req").next = "none" THEN IF Desc("req").len = 0 THEN "used_elem" ELSE "status_byte"
    ELSE IF Desc("req").len = 0 THEN Behind("req", "") ELSE "data"
ReadBlockDesc ==
    /\ dev = "blk" /\ Finish("req", "desc", BlockPhase)
    /\ cur' = [cur EXCEPT !["req"].off = 0,
                          !["req"].desc = IF cur["req"].parsed /\ BlockPhase = "desc" THEN Onward("req") ELSE @,
                          !["req"].parsed = @ \/ Desc("req").len > 0]
    /\ UNCHANGED <<driver, last>> /\ Elsewhere

ReadDesc(q) ==
    LET skipped == q = "status" /\ Desc(q).next = "next" IN
    /\ dev # "blk"
    /\ Finish(q, "desc", IF skipped THEN "desc" ELSE IF Desc(q).len = 0 THEN "used_elem" ELSE "data")
    /\ cur' = [cur EXCEPT ![q].off = 0, ![q].desc = IF skipped THEN @ + 1 ELSE @]
    /\ UNCHANGED <<driver, last>> /\ Elsewhere

\* The header; one that is the whole chain has no status byte to come.
\* Mutant: the status of the last request stays.
Status_Sticky == st
Status == "ok"
ReadHeader ==
    /\ Finish("req", "header", Behind("req", "used_elem"))
    /\ IF Desc("req").next = "none" THEN UNCHANGED <<type, sector, st, cur>>
       ELSE /\ type' = Current("req").what.type /\ sector' = Current("req").what.sector /\ st' = Status
            /\ cur' = [cur EXCEPT !["req"].written = 0, !["req"].desc = Onward("req")]
    /\ UNCHANGED <<driver, last, dev, readOnly, medium, shadow, draws, evRing, stRing, received>>

\* A piece has been moved.  `written` is both the length that is reported and the
\* place on the medium: it goes on from one descriptor to the next.
\* Mutant: each descriptor begins at the sector again.
Offset_OfDesc(c) == c.off
Offset(c) == c.written
MoveBlock ==
    LET c == cur["req"]
        over == c.off + 1 >= Desc("req").len
        saves == type = "out" /\ CanWrite(Offset(c))
        piece == <<c.id, c.desc, c.off + 1>>
    IN
    /\ dev = "blk" /\ mp = "req" /\ phase["req"] = "data"
    /\ Finish("req", "data", IF over THEN Behind("req", "status_byte") ELSE "data")
    /\ cur' = [cur EXCEPT
        !["req"].off = @ + 1,
        !["req"].written = IF type \in {"in", "out"} THEN @ + 1 ELSE @,
        !["req"].got = IF type = "in" THEN Append(@, [at |-> piece, is |-> c.chunk[1]]) ELSE @,
        !["req"].desc = IF over THEN Onward("req") ELSE @]
    /\ medium' = IF saves THEN [medium EXCEPT ![Place(Offset(c))] = piece] ELSE medium
    /\ st' = CASE type = "out" /\ ~saves -> "ioerr" [] type = "other" -> "unsupp" [] OTHER -> st
    /\ UNCHANGED <<driver, last, dev, type, sector, readOnly, shadow, draws, evRing, stRing, received>>

\* The device writes nothing to the guest's buffers for a write request.
WriteStatusByte ==
    /\ Finish("req", "status_byte", "used_elem")
    /\ cur' = [cur EXCEPT !["req"].status = st,
                          !["req"].written = IF type = "in" THEN @ ELSE 0]
    /\ UNCHANGED <<driver, last>> /\ Elsewhere

MoveEntropy ==
    LET c == cur["req"]
        over == c.off + 1 >= Desc("req").len
    IN
    /\ dev = "rng" /\ mp = "req" /\ phase["req"] = "data"
    /\ Finish("req", "data", IF over THEN Behind("req", "used_elem") ELSE "data")
    /\ cur' = [cur EXCEPT !["req"].off = @ + 1, !["req"].written = @ + 1, !["req"].got = @ \o c.chunk,
                          !["req"].desc = IF over THEN Onward("req") ELSE @]
    /\ UNCHANGED <<driver, last>> /\ Elsewhere

\* The events are in the guest's buffer, and leave the ring only now.
\* Mutant: the ring is taken to be empty then.
NextTail_All(c) == evHead
NextTail(c) == c.step + Len(c.chunk)
MoveEvents ==
    LET c == cur["event"] IN
    /\ Finish("event", "data", "used_elem")
    /\ evTail' = NextTail(c)
    /\ cur' = [cur EXCEPT !["event"].written = Len(c.chunk), !["event"].got = c.chunk]
    /\ UNCHANGED <<dev, driver, last, block, draws, evSlot, evHead, pushing, pushed, stRing, received>>

\* An event of the guest is dropped if the ring is full.
HasRoom == stHead - stTail < Ring
MoveStatus ==
    /\ Finish("status", "data", "used_elem")
    /\ cur' = [cur EXCEPT !["status"].written = 0]
    /\ IF HasRoom
       THEN /\ stSlot' = [stSlot EXCEPT ![stHead % Ring] = cur["status"].id] /\ stHead' = stHead + 1
            /\ accepted' = Append(accepted, cur["status"].id) /\ UNCHANGED overran
       ELSE overran' = TRUE /\ UNCHANGED <<stSlot, stHead, accepted>>
    /\ UNCHANGED <<dev, driver, last, block, draws, evRing, stTail, popping, popped, received>>

WriteUsedElem(q) ==
    /\ Finish(q, "used_elem", "used_idx")
    /\ UNCHANGED <<driver, last, cur>> /\ Elsewhere

WriteUsedIdx(q) ==
    /\ Finish(q, "used_idx", "avail_idx")
    /\ used' = [used EXCEPT ![q] = Append(@, [id |-> cur[q].id, len |-> cur[q].written])]
    /\ last' = [last EXCEPT ![q] = @ + 1]
    /\ received' = IF q \in {"req", "event"} /\ dev # "blk" THEN received \o cur[q].got ELSE received
    /\ UNCHANGED <<dev, ok, ready, posts, avail, resets, cur, block, draws, evRing, stRing>>

-----------------------------------------------------------------------------
(* The host threads at the event rings. *)

\* pushInputEvent: the slot, and then the head.  One slot stays free, and an
\* event that finds no other is refused.
Push ==
    /\ dev = "input" /\ ~pushing /\ pushed < MaxEvents /\ evHead - evTail < Ring - 1
    /\ pushing' = TRUE /\ pushed' = pushed + 1
    /\ evSlot' = [evSlot EXCEPT ![evHead % Ring] = pushed + 1]
    /\ UNCHANGED <<dev, driver, walk, block, draws, evHead, evTail, stRing, received>>

PushDone ==
    /\ pushing /\ pushing' = FALSE /\ evHead' = evHead + 1
    /\ UNCHANGED <<dev, driver, walk, block, draws, evSlot, evTail, pushed, stRing, received>>

\* popStatusEvent: the slot is copied, and then given back.
Pop ==
    /\ ~popping /\ stHead # stTail /\ popping' = TRUE
    /\ popped' = Append(popped, stSlot[stTail % Ring])
    /\ UNCHANGED <<dev, driver, walk, block, draws, evRing, stSlot, stHead, stTail, accepted, overran, received>>

PopDone ==
    /\ popping /\ popping' = FALSE /\ stTail' = stTail + 1
    /\ UNCHANGED <<dev, driver, walk, block, draws, evRing, stSlot, stHead, accepted, popped, overran, received>>

-----------------------------------------------------------------------------
Walk(q) ==
    \/ Start(q) \/ ReadAvailIdx(q) \/ ReadRing(q) \/ ReadDesc(q)
    \/ WriteUsedElem(q) \/ WriteUsedIdx(q)
DevicesNext ==
    \/ DriverOk \/ ResetDevice \/ Wake
    \/ \E q \in Queues : EnableQueue(q) \/ DisableQueue(q) \/ Post(q) \/ Notify(q) \/ Walk(q)
    \/ ReadBlockDesc \/ ReadHeader \/ MoveBlock \/ WriteStatusByte
    \/ MoveEntropy \/ MoveEvents \/ MoveStatus
    \/ Push \/ PushDone \/ Pop \/ PopDone

DevicesSpec == DevicesInit /\ [][DevicesNext]_devicesVars
-----------------------------------------------------------------------------
(* Properties. *)

\* A request for blocks as a driver should make it: a whole header, data, and a
\* status byte.
WellFormed(r) ==
    /\ Len(r.chain) > 1 /\ r.chain[1].len > 0 /\ Last(r.chain).next = "none" /\ Last(r.chain).len > 0
    /\ \A d \in 1..(Len(r.chain) - 1) : r.chain[d].next = "next"
\* Its pieces, and where each belongs.
DataOf(q) == LET r == Current(q) IN
    FlattenSeq([d \in DOMAIN r.what.chain |->
        IF d = 1 \/ r.what.chain[d].next = "none" THEN <<>>
        ELSE [k \in 1..r.what.chain[d].len |-> <<r.id, d, k>>]])
Home(r, k) == r.sector * SectorSize + k - 1
Answer(r, n) ==
    IF r.type = "other" /\ n > 0 THEN "unsupp"
    ELSE IF (r.type = "out" /\ readOnly /\ n > 0) \/ (r.type \in {"in", "out"} /\ \E k \in 1..n : Home(r, k) >= Size)
    THEN "ioerr" ELSE "ok"

\* A request to the block device is answered for the sectors it names: each piece
\* is at its own place in the medium or the guest's buffers, nothing else has
\* changed, and the status is that of this request alone.
BlocksAreExact ==
    dev = "blk" /\ phase["req"] \in {"used_elem", "used_idx"} =>
        LET r == Current("req").what
            c == cur["req"]
            data == DataOf("req")
            n == Len(data)
        IN
        IF WellFormed(r)
        THEN /\ c.status = Answer(r, n)
             /\ c.written = IF r.type = "in" THEN n ELSE 0
             /\ c.got = IF r.type = "in"
                  THEN [k \in 1..n |-> [at |-> data[k],
                        is |-> IF Home(r, k) < Size THEN shadow[Home(r, k)] ELSE Junk]] ELSE <<>>
             /\ medium = [p \in DOMAIN medium |->
                  IF r.type = "out" /\ ~readOnly /\ \E k \in 1..n : Home(r, k) = p
                  THEN data[p - Home(r, 1) + 1] ELSE shadow[p]]
        ELSE /\ c.status = Nothing
             /\ \A p \in DOMAIN medium : medium[p] # shadow[p] => r.type = "out" /\ p >= Home(r, 1)

\* The guest receives the events in the order they were pushed, none twice, and
\* none is lost unless the driver has reset something; no two pieces of entropy
\* are the same.
RisesAlways(s) == \A i, j \in DOMAIN s : i < j => s[i] < s[j]
EventsInOrder ==
    /\ RisesAlways(received) /\ \A i \in DOMAIN received : received[i] <= (IF dev = "rng" THEN draws ELSE pushed)
    /\ resets = 0 => received = [i \in DOMAIN received |-> i]

\* The host reads what the guest reported, in order, and all of it if the ring
\* has always had room.
StatusInOrder ==
    /\ RisesAlways(accepted) /\ popped = SubSeq(accepted, 1, Len(popped))
    /\ ~overran /\ resets = 0 => \A i \in DOMAIN used["status"] : LET r == avail["status"][i] IN
         Last(r.what.chain).len > 0 => \E k \in DOMAIN accepted : accepted[k] = r.id

\* Every request comes back once and in order, entropy with the length filled.
LengthOf(chain) ==
    LET upTo[d \in 0..Len(chain)] == IF d = 0 THEN 0 ELSE upTo[d - 1] + chain[d].len
    IN  upTo[Len(chain)]
GivenBackInOrder == \A q \in Queues :
    /\ Len(used[q]) <= Len(avail[q])
    /\ \A i \in DOMAIN used[q] : used[q][i].id = avail[q][i].id
    /\ dev = "rng" => \A i \in DOMAIN used[q] :
         used[q][i].len = LengthOf(avail[q][i].what.chain)

\* What each device promises its driver and its host.
DevicesAreExact == BlocksAreExact /\ EventsInOrder /\ StatusInOrder /\ GivenBackInOrder
=============================================================================
