------------------------------ MODULE AsyncFifo ------------------------------
(***************************************************************************)
(* The dual-clock FIFO of AsyncFifo.cpp.  Each side keeps a binary pointer *)
(* one bit wider than an address and sees the other side's pointer, Gray   *)
(* coded, through a two-stage synchroniser clocked by its own clock.       *)
(*                                                                         *)
(* One step is one simulation tick: the code reads both clock levels, the  *)
(* enables and the data, works out full and empty from the state before    *)
(* the tick, and serves the read clock's edge before the write clock's.    *)
(***************************************************************************)
EXTENDS Integers, Sequences

CONSTANTS
    Depth,   \* slots, a power of two; pointers count modulo 2 * Depth
    Data,    \* the words
    Zero,    \* the word memory is cleared to
    Gray,    \* the Gray code of each pointer: p ^ (p >> 1)
    Flip     \* a code with its two top bits inverted: g ^ (3 << (pw - 2))

Ptr == 0..(2 * Depth - 1)

\* The pointer half a turn away.
Opposite(p) == IF p < Depth THEN p + Depth ELSE p - Depth

ASSUME DepthAssumption == Depth \in Nat \ {0}
ASSUME DataAssumption == Zero \in Data
\* Distinct pointers have distinct codes, and inverting the two top bits of a
\* code gives the code of the pointer half a turn away.
ASSUME GrayAssumption ==
    /\ \A p \in Ptr : \A r \in Ptr : Gray[p] = Gray[r] => p = r
    /\ \A p \in Ptr : Flip[Gray[p]] = Gray[Opposite(p)]

VARIABLES
    mem,                    \* the slots
    wbin, rbin,             \* binary write and read pointers
    wg_s1, wg_s2,           \* the write pointer's code, in the read domain
    rg_s1, rg_s2,           \* the read pointer's code, in the write domain
    rdata,                  \* the last word read, which drives rd_data
    prev_wclk, prev_rclk,   \* the clock levels of the last tick
    wr_full, rd_empty,      \* the flag wires
    ticked                  \* a tick has run since the last reset

vars == <<mem, wbin, rbin, wg_s1, wg_s2, rg_s1, rg_s2, rdata,
          prev_wclk, prev_rclk, wr_full, rd_empty, ticked>>

-----------------------------------------------------------------------------
Advance(p) == IF p = 2 * Depth - 1 THEN 0 ELSE p + 1    \* (p + 1) & pmask
Slot(p) == IF p < Depth THEN p ELSE p - Depth           \* p & amask

Full == Gray[wbin] = Flip[rg_s2]
Empty == Gray[rbin] = wg_s2

Init ==
    /\ mem = [s \in 0..(Depth - 1) |-> Zero]
    /\ wbin = 0 /\ rbin = 0
    /\ wg_s1 = Gray[0] /\ wg_s2 = Gray[0]
    /\ rg_s1 = Gray[0] /\ rg_s2 = Gray[0]
    /\ rdata = Zero
    /\ prev_wclk = FALSE /\ prev_rclk = FALSE
    /\ wr_full = FALSE /\ rd_empty = FALSE
    /\ ticked = FALSE

\* Mutants: a read that does not look at empty; one that advances first; a
\* synchroniser that shifts only when a word is read.
ReadSide_IgnoresEmpty(edge, ren) ==
    IF edge
    THEN /\ IF ren
            THEN rdata' = mem[Slot(rbin)] /\ rbin' = Advance(rbin)
            ELSE UNCHANGED <<rdata, rbin>>
         /\ wg_s2' = wg_s1
         /\ wg_s1' = Gray[wbin]
    ELSE UNCHANGED <<rdata, rbin, wg_s1, wg_s2>>
ReadSide_AdvancesFirst(edge, ren) ==
    IF edge
    THEN /\ IF ren /\ ~Empty
            THEN rdata' = mem[Slot(Advance(rbin))] /\ rbin' = Advance(rbin)
            ELSE UNCHANGED <<rdata, rbin>>
         /\ wg_s2' = wg_s1
         /\ wg_s1' = Gray[wbin]
    ELSE UNCHANGED <<rdata, rbin, wg_s1, wg_s2>>
ReadSide_ShiftsOnRead(edge, ren) ==
    IF edge /\ ren /\ ~Empty
    THEN /\ rdata' = mem[Slot(rbin)] /\ rbin' = Advance(rbin)
         /\ wg_s2' = wg_s1 /\ wg_s1' = Gray[wbin]
    ELSE UNCHANGED <<rdata, rbin, wg_s1, wg_s2>>

\* On a rising edge of the read clock: a read if one is asked for and there
\* is something, and the synchroniser shifts.
ReadSide(edge, ren) ==
    IF edge
    THEN /\ IF ren /\ ~Empty
            THEN rdata' = mem[Slot(rbin)] /\ rbin' = Advance(rbin)
            ELSE UNCHANGED <<rdata, rbin>>
         /\ wg_s2' = wg_s1
         /\ wg_s1' = Gray[wbin]
    ELSE UNCHANGED <<rdata, rbin, wg_s1, wg_s2>>

\* Mutant: a synchroniser that shifts only when a word is written.
WriteSide_ShiftsOnWrite(edge, wen, din) ==
    IF edge /\ wen /\ ~Full
    THEN /\ mem' = [mem EXCEPT ![Slot(wbin)] = din] /\ wbin' = Advance(wbin)
         /\ rg_s2' = rg_s1 /\ rg_s1' = Gray[rbin]
    ELSE UNCHANGED <<mem, wbin, rg_s1, rg_s2>>

WriteSide(edge, wen, din) ==
    IF edge
    THEN /\ IF wen /\ ~Full
            THEN mem' = [mem EXCEPT ![Slot(wbin)] = din] /\ wbin' = Advance(wbin)
            ELSE UNCHANGED <<mem, wbin>>
         /\ rg_s2' = rg_s1
         /\ rg_s1' = Gray[rbin]
    ELSE UNCHANGED <<mem, wbin, rg_s1, rg_s2>>

\* Mutant: the flags are registered on the edge that uses them.
Tick_FlagsOnEdge(wclk, wen, din, rclk, ren) ==
    /\ ReadSide(rclk /\ ~prev_rclk, ren)
    /\ WriteSide(wclk /\ ~prev_wclk, wen, din)
    /\ prev_wclk' = wclk /\ prev_rclk' = rclk
    /\ wr_full' = IF wclk /\ ~prev_wclk THEN Full ELSE wr_full
    /\ rd_empty' = IF rclk /\ ~prev_rclk THEN Empty ELSE rd_empty
    /\ ticked' = TRUE

\* The generated function: the flags written are those the tick began with.
Tick(wclk, wen, din, rclk, ren) ==
    /\ ReadSide(rclk /\ ~prev_rclk, ren)
    /\ WriteSide(wclk /\ ~prev_wclk, wen, din)
    /\ prev_wclk' = wclk /\ prev_rclk' = rclk
    /\ wr_full' = Full /\ rd_empty' = Empty
    /\ ticked' = TRUE

\* circuit_reset and circuit_init clear the state and every wire.
Reset ==
    /\ mem' = [s \in 0..(Depth - 1) |-> Zero]
    /\ wbin' = 0 /\ rbin' = 0
    /\ wg_s1' = Gray[0] /\ wg_s2' = Gray[0]
    /\ rg_s1' = Gray[0] /\ rg_s2' = Gray[0]
    /\ rdata' = Zero
    /\ prev_wclk' = FALSE /\ prev_rclk' = FALSE
    /\ wr_full' = FALSE /\ rd_empty' = FALSE
    /\ ticked' = FALSE

Next ==
    \/ \E wclk, wen, rclk, ren \in BOOLEAN, din \in Data : Tick(wclk, wen, din, rclk, ren)
    \/ Reset

Spec == Init /\ [][Next]_vars

\* Both clocks keep running.
WriteClockTurns == \E wen, rclk, ren \in BOOLEAN, din \in Data :
    Tick(~prev_wclk, wen, din, rclk, ren)
ReadClockTurns == \E wclk, wen, ren \in BOOLEAN, din \in Data :
    Tick(wclk, wen, din, ~prev_rclk, ren)
FairSpec == Spec /\ WF_vars(WriteClockTurns) /\ WF_vars(ReadClockTurns)

-----------------------------------------------------------------------------
\* How far p is ahead of r, going round.
Dist(p, r) == IF p >= r THEN p - r ELSE p - r + 2 * Depth
Occupancy == Dist(wbin, rbin)
UnGray(g) == CHOOSE p \in Ptr : Gray[p] = g

Codes == {Gray[p] : p \in Ptr}

TypeOK ==
    /\ mem \in [0..(Depth - 1) -> Data]
    /\ wbin \in Ptr /\ rbin \in Ptr
    /\ wg_s1 \in Codes /\ wg_s2 \in Codes
    /\ rg_s1 \in Codes /\ rg_s2 \in Codes
    /\ rdata \in Data
    /\ prev_wclk \in BOOLEAN /\ prev_rclk \in BOOLEAN
    /\ wr_full \in BOOLEAN /\ rd_empty \in BOOLEAN
    /\ ticked \in BOOLEAN

\* The delayed pointers never overtake the true ones: going back from the
\* write pointer one meets its two copies, then the read pointer, then its
\* two copies, all within one depth.  Hence nothing unread is overwritten and
\* nothing unwritten is read, whatever the two clocks do.
PointersInOrder ==
    Dist(wbin, UnGray(wg_s1)) + Dist(UnGray(wg_s1), UnGray(wg_s2))
      + Dist(UnGray(wg_s2), rbin)
      + Dist(rbin, UnGray(rg_s1)) + Dist(UnGray(rg_s1), UnGray(rg_s2)) <= Depth

\* The flags err on the safe side: a full buffer always says so on the write
\* side, an empty one on the read side.
NoOverrun == Occupancy <= Depth /\ (Occupancy = Depth => Full)
NoUnderrun == Occupancy = 0 => Empty

\* The flag wires say, at a clock edge, what the code will decide: a producer
\* or consumer that trusts them loses nothing.  (full and empty change only
\* at an edge of their own clock, and an edge needs a low tick before it.)
FlagsHonestOnceTicked ==
    /\ ticked /\ ~prev_wclk => (wr_full <=> Full)
    /\ ticked /\ ~prev_rclk => (rd_empty <=> Empty)

\* A word written shows up on the read side, a slot freed on the write side.
WordsFlow ==
    /\ Occupancy > 0 ~> ~Empty \/ Occupancy = 0
    /\ Occupancy < Depth ~> ~Full

\* The FIFO it implements: the slots from the read pointer on.
Ahead(p, k) == IF p + k < 2 * Depth THEN p + k ELSE p + k - 2 * Depth
Window(m, r, n) == [i \in 1..n |-> m[Slot(Ahead(r, i - 1))]]
Contents == Window(mem, rbin, Occupancy)
Abstract == INSTANCE Fifo WITH
    Item <- Data, Capacity <- Depth, NoItem <- Zero, queue <- Contents, out <- rdata
ImplementsFifo == Abstract!Spec
=============================================================================
