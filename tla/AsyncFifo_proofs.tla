-------------------------- MODULE AsyncFifo_proofs --------------------------
(* Proofs about AsyncFifo, for every depth, word set and Gray code.          *)
EXTENDS AsyncFifo, SequenceTheorems, TLAPS

-----------------------------------------------------------------------------
(* Pointers going round a ring of 2 * Depth. *)

\* The six pointers in order, going back from the write pointer.
Chain(w, w1, w2, r, r1, r2) ==
    Dist(w, w1) + Dist(w1, w2) + Dist(w2, r) + Dist(r, r1) + Dist(r1, r2) <= Depth

\* A distance is a number of steps of less than one turn.
LEMMA DistType == ASSUME NEW p \in Ptr, NEW r \in Ptr
                  PROVE  Dist(p, r) \in 0..(2 * Depth - 1)
BY DepthAssumption DEF Dist, Ptr

\* Advancing stays on the ring and moves one step away from where it was.
LEMMA AdvanceType == ASSUME NEW p \in Ptr
                     PROVE  /\ Advance(p) \in Ptr
                            /\ Dist(Advance(p), p) = 1
                            /\ Opposite(p) \in Ptr
                            /\ Slot(p) \in 0..(Depth - 1)
BY DepthAssumption DEF Advance, Ptr, Dist, Opposite, Slot

\* Distances add up as long as they make less than a turn.
LEMMA DistAdds == ASSUME NEW a \in Ptr, NEW b \in Ptr, NEW c \in Ptr,
                         Dist(a, b) + Dist(b, c) < 2 * Depth
                  PROVE  Dist(a, c) = Dist(a, b) + Dist(b, c)
BY DepthAssumption DEF Dist, Ptr

\* A pointer that advances towards another gets one step closer.
LEMMA DistCloser == ASSUME NEW a \in Ptr, NEW b \in Ptr, a # b
                    PROVE  Dist(a, Advance(b)) = Dist(a, b) - 1
BY DepthAssumption DEF Dist, Ptr, Advance

\* A write pointer not half a turn ahead of r has room for one step.
LEMMA DistRoom == ASSUME NEW a \in Ptr, NEW b \in Ptr, a # Opposite(b), Dist(a, b) <= Depth
                  PROVE  Dist(Advance(a), b) = Dist(a, b) + 1 /\ Dist(a, b) < Depth
BY DepthAssumption DEF Dist, Ptr, Advance, Opposite

\* Distance zero is equality.
LEMMA DistZero == ASSUME NEW a \in Ptr, NEW b \in Ptr
                  PROVE  /\ Dist(a, a) = 0
                         /\ Dist(a, b) = 0 => a = b
                         /\ a = Opposite(b) => Dist(a, b) = Depth
                         /\ Dist(a, b) = Depth => a = Opposite(b)
BY DepthAssumption DEF Dist, Ptr, Opposite

\* An edge of the read clock keeps the pointers in order.
LEMMA ReadKeepsChain ==
    ASSUME NEW w \in Ptr, NEW w1 \in Ptr, NEW w2 \in Ptr,
           NEW r \in Ptr, NEW r1 \in Ptr, NEW r2 \in Ptr, NEW rn \in Ptr,
           Chain(w, w1, w2, r, r1, r2),
           rn = r \/ (r # w2 /\ rn = Advance(r))
    PROVE  Chain(w, w, w1, rn, r1, r2)
BY DepthAssumption DEF Chain, Dist, Ptr, Advance

\* An edge of the write clock keeps the pointers in order.
LEMMA WriteKeepsChain ==
    ASSUME NEW w \in Ptr, NEW w1 \in Ptr, NEW w2 \in Ptr,
           NEW r \in Ptr, NEW r1 \in Ptr, NEW r2 \in Ptr, NEW wn \in Ptr,
           Chain(w, w1, w2, r, r1, r2),
           wn = w \/ (w # Opposite(r2) /\ wn = Advance(w))
    PROVE  Chain(wn, w1, w2, r, r, r1)
BY DepthAssumption DEF Chain, Dist, Ptr, Advance, Opposite

\* Both at once, each side working from the pointers before the tick.
LEMMA BothKeepChain ==
    ASSUME NEW w \in Ptr, NEW w1 \in Ptr, NEW w2 \in Ptr,
           NEW r \in Ptr, NEW r1 \in Ptr, NEW r2 \in Ptr,
           NEW wn \in Ptr, NEW rn \in Ptr,
           Chain(w, w1, w2, r, r1, r2),
           rn = r \/ (r # w2 /\ rn = Advance(r)),
           wn = w \/ (w # Opposite(r2) /\ wn = Advance(w))
    PROVE  Chain(wn, w, w1, rn, r, r1)
BY DepthAssumption DEF Chain, Dist, Ptr, Advance, Opposite

-----------------------------------------------------------------------------
(* Gray codes: a synchronised code stands for exactly one pointer. *)

\* Decoding undoes encoding.
LEMMA UnGrayOfGray == ASSUME NEW p \in Ptr PROVE UnGray(Gray[p]) = p
BY GrayAssumption DEF UnGray

\* A code that was stored decodes to a pointer it is the code of.
LEMMA UnGrayType == ASSUME NEW g \in Codes
                    PROVE  UnGray(g) \in Ptr /\ Gray[UnGray(g)] = g
BY DEF UnGray, Codes

\* full and empty, read off the codes, say what they mean of the pointers.
LEMMA FullMeaning == TypeOK => (Full <=> wbin = Opposite(UnGray(rg_s2)))
<1> SUFFICES ASSUME TypeOK PROVE Full <=> wbin = Opposite(UnGray(rg_s2))
  OBVIOUS
<1> DEFINE r == UnGray(rg_s2)
<1>1. r \in Ptr /\ Gray[r] = rg_s2
  BY UnGrayType DEF TypeOK
<1>2. Flip[rg_s2] = Gray[Opposite(r)]
  BY <1>1, GrayAssumption
<1>3. Opposite(r) \in Ptr /\ wbin \in Ptr
  BY <1>1, AdvanceType DEF TypeOK
<1>4. Gray[wbin] = Gray[Opposite(r)] <=> wbin = Opposite(r)
  BY <1>3, GrayAssumption
<1> QED
  BY <1>2, <1>4 DEF Full

\* The same for empty, against the write pointer the read side has seen.
LEMMA EmptyMeaning == TypeOK => (Empty <=> rbin = UnGray(wg_s2))
<1> SUFFICES ASSUME TypeOK PROVE Empty <=> rbin = UnGray(wg_s2)
  OBVIOUS
<1> DEFINE w == UnGray(wg_s2)
<1>1. w \in Ptr /\ Gray[w] = wg_s2 /\ rbin \in Ptr
  BY UnGrayType DEF TypeOK
<1>2. Gray[rbin] = Gray[w] <=> rbin = w
  BY <1>1, GrayAssumption
<1> QED
  BY <1>1, <1>2 DEF Empty

-----------------------------------------------------------------------------
(* The inductive invariant: types, and the six pointers in order. *)

IInv == TypeOK /\ PointersInOrder

\* The pointer everything is cleared to is on the ring.
LEMMA ZeroPtr == 0 \in Ptr /\ Gray[0] \in Codes
BY DepthAssumption DEF Ptr, Codes

\* A cleared buffer satisfies the invariant.
LEMMA InitIInv == Init => IInv
<1> SUFFICES ASSUME Init PROVE IInv
  OBVIOUS
<1>1. TypeOK
  BY ZeroPtr, DataAssumption, DepthAssumption DEF Init, TypeOK
<1>2. UnGray(Gray[0]) = 0 /\ Dist(0, 0) = 0
  BY ZeroPtr, UnGrayOfGray, DistZero
<1>3. PointersInOrder
  BY <1>2, DepthAssumption DEF Init, PointersInOrder
<1> QED
  BY <1>1, <1>3 DEF IInv

\* A tick keeps the types.
LEMMA TickType ==
    ASSUME TypeOK,
           NEW wclk \in BOOLEAN, NEW wen \in BOOLEAN, NEW din \in Data,
           NEW rclk \in BOOLEAN, NEW ren \in BOOLEAN,
           Tick(wclk, wen, din, rclk, ren)
    PROVE  TypeOK'
<1> USE DEF TypeOK
<1>1. wbin' \in Ptr /\ rbin' \in Ptr
  BY AdvanceType DEF Tick, ReadSide, WriteSide
<1>2. rdata' \in Data
  BY AdvanceType DEF Tick, ReadSide
<1>3. mem' \in [0..(Depth - 1) -> Data]
  BY AdvanceType DEF Tick, WriteSide
<1>4. wg_s1' \in Codes /\ wg_s2' \in Codes
  BY DEF Tick, ReadSide, Codes
<1>5. rg_s1' \in Codes /\ rg_s2' \in Codes
  BY DEF Tick, WriteSide, Codes
<1>6. /\ prev_wclk' \in BOOLEAN /\ prev_rclk' \in BOOLEAN
      /\ wr_full' \in BOOLEAN /\ rd_empty' \in BOOLEAN /\ ticked' \in BOOLEAN
  BY DEF Tick, Full, Empty
<1> QED
  BY <1>1, <1>2, <1>3, <1>4, <1>5, <1>6

\* A tick keeps the pointers in order.
LEMMA TickChain ==
    ASSUME IInv,
           NEW wclk \in BOOLEAN, NEW wen \in BOOLEAN, NEW din \in Data,
           NEW rclk \in BOOLEAN, NEW ren \in BOOLEAN,
           Tick(wclk, wen, din, rclk, ren)
    PROVE  PointersInOrder'
<1> DEFINE w1 == UnGray(wg_s1)
           w2 == UnGray(wg_s2)
           r1 == UnGray(rg_s1)
           r2 == UnGray(rg_s2)
           redge == rclk /\ ~prev_rclk
           wedge == wclk /\ ~prev_wclk
<1>1. TypeOK /\ TypeOK'
  BY TickType DEF IInv
<1>2. /\ wbin \in Ptr /\ rbin \in Ptr /\ wbin' \in Ptr /\ rbin' \in Ptr
      /\ w1 \in Ptr /\ w2 \in Ptr /\ r1 \in Ptr /\ r2 \in Ptr
  BY <1>1, UnGrayType DEF TypeOK
<1>3. Chain(wbin, w1, w2, rbin, r1, r2)
  BY DEF IInv, PointersInOrder, Chain
<1>4. rbin' = rbin \/ (rbin # w2 /\ rbin' = Advance(rbin))
  BY <1>1, EmptyMeaning DEF Tick, ReadSide
<1>5. wbin' = wbin \/ (wbin # Opposite(r2) /\ wbin' = Advance(wbin))
  BY <1>1, FullMeaning DEF Tick, WriteSide
<1>6. IF redge THEN UnGray(wg_s1') = wbin /\ UnGray(wg_s2') = w1
               ELSE UnGray(wg_s1') = w1 /\ UnGray(wg_s2') = w2 /\ rbin' = rbin
  BY <1>2, UnGrayOfGray DEF Tick, ReadSide
<1>7. IF wedge THEN UnGray(rg_s1') = rbin /\ UnGray(rg_s2') = r1
               ELSE UnGray(rg_s1') = r1 /\ UnGray(rg_s2') = r2 /\ wbin' = wbin
  BY <1>2, UnGrayOfGray DEF Tick, WriteSide
<1> HIDE DEF w1, w2, r1, r2
<1>8. Chain(wbin', UnGray(wg_s1'), UnGray(wg_s2'), rbin', UnGray(rg_s1'), UnGray(rg_s2'))
  <2>1. CASE redge /\ wedge
    <3>1. Chain(wbin', wbin, w1, rbin', rbin, r1)
      BY <1>2, <1>3, <1>4, <1>5, BothKeepChain
    <3> QED
      BY <3>1, <2>1, <1>6, <1>7
  <2>2. CASE redge /\ ~wedge
    <3>1. Chain(wbin, wbin, w1, rbin', r1, r2)
      BY <1>2, <1>3, <1>4, ReadKeepsChain
    <3> QED
      BY <3>1, <2>2, <1>6, <1>7
  <2>3. CASE ~redge /\ wedge
    <3>1. Chain(wbin', w1, w2, rbin, rbin, r1)
      BY <1>2, <1>3, <1>5, WriteKeepsChain
    <3> QED
      BY <3>1, <2>3, <1>6, <1>7
  <2>4. CASE ~redge /\ ~wedge
    BY <2>4, <1>3, <1>6, <1>7
  <2> QED
    BY <2>1, <2>2, <2>3, <2>4
<1>9. UnGray(wg_s1)' = UnGray(wg_s1') /\ UnGray(wg_s2)' = UnGray(wg_s2')
   /\ UnGray(rg_s1)' = UnGray(rg_s1') /\ UnGray(rg_s2)' = UnGray(rg_s2')
  BY DEF UnGray
<1> QED
  BY <1>8, <1>9 DEF Chain, PointersInOrder, Dist

\* Every step of the buffer, reset included, keeps the invariant.
LEMMA NextIInv == IInv /\ [Next]_vars => IInv'
<1> SUFFICES ASSUME IInv, [Next]_vars PROVE IInv'
  OBVIOUS
<1>1. CASE \E wclk, wen, rclk, ren \in BOOLEAN, din \in Data : Tick(wclk, wen, din, rclk, ren)
  BY <1>1, TickType, TickChain DEF IInv
<1>2. CASE Reset
  <2>1. Init'
    BY <1>2 DEF Reset, Init
  <2> QED
    BY <2>1, InitIInv, PTL
<1>3. CASE UNCHANGED vars
  BY <1>3 DEF IInv, TypeOK, PointersInOrder, vars, Dist, UnGray, Codes
<1> QED
  BY <1>1, <1>2, <1>3 DEF Next

\* The pointers stay in order and the state well typed, whatever the clocks.
THEOREM PointersStayInOrder == Spec => []IInv
BY InitIInv, NextIInv, PTL DEF Spec

\* The state keeps its types: pointers stay on the ring, codes stay codes.
THEOREM TypesHold == Spec => []TypeOK
<1>1. IInv => TypeOK
  BY DEF IInv
<1> QED
  BY <1>1, PointersStayInOrder, PTL

\* The synchronised copies never overtake the pointers they copy.
THEOREM OrderHolds == Spec => []PointersInOrder
<1>1. IInv => PointersInOrder
  BY DEF IInv
<1> QED
  BY <1>1, PointersStayInOrder, PTL

\* Nothing unread is overwritten, and a full buffer is seen to be full.
LEMMA IInvNoOverrun == IInv => NoOverrun
<1> SUFFICES ASSUME IInv PROVE NoOverrun
  OBVIOUS
<1> DEFINE w1 == UnGray(wg_s1)
           w2 == UnGray(wg_s2)
           r1 == UnGray(rg_s1)
           r2 == UnGray(rg_s2)
<1>1. /\ wbin \in Ptr /\ rbin \in Ptr
      /\ w1 \in Ptr /\ w2 \in Ptr /\ r1 \in Ptr /\ r2 \in Ptr
  BY UnGrayType DEF IInv, TypeOK
<1>2. Dist(wbin, w1) + Dist(w1, w2) + Dist(w2, rbin) + Dist(rbin, r1) + Dist(r1, r2) <= Depth
  BY DEF IInv, PointersInOrder
<1>3. Full <=> wbin = Opposite(r2)
  BY FullMeaning DEF IInv
<1> HIDE DEF w1, w2, r1, r2
<1>4. Dist(wbin, rbin) <= Depth
  BY <1>1, <1>2, DepthAssumption DEF Dist, Ptr
<1>5. Dist(wbin, rbin) = Depth => wbin = Opposite(r2)
  BY <1>1, <1>2, DepthAssumption DEF Dist, Ptr, Opposite
<1> QED
  BY <1>3, <1>4, <1>5 DEF NoOverrun, Occupancy

\* An empty buffer is seen to be empty.
LEMMA IInvNoUnderrun == IInv => NoUnderrun
<1> SUFFICES ASSUME IInv PROVE NoUnderrun
  OBVIOUS
<1> DEFINE w1 == UnGray(wg_s1)
           w2 == UnGray(wg_s2)
           r1 == UnGray(rg_s1)
           r2 == UnGray(rg_s2)
<1>1. /\ wbin \in Ptr /\ rbin \in Ptr
      /\ w1 \in Ptr /\ w2 \in Ptr /\ r1 \in Ptr /\ r2 \in Ptr
  BY UnGrayType DEF IInv, TypeOK
<1>2. Dist(wbin, w1) + Dist(w1, w2) + Dist(w2, rbin) + Dist(rbin, r1) + Dist(r1, r2) <= Depth
  BY DEF IInv, PointersInOrder
<1>3. Empty <=> rbin = w2
  BY EmptyMeaning DEF IInv
<1> HIDE DEF w1, w2, r1, r2
<1>4. Dist(wbin, rbin) = 0 => rbin = w2
  BY <1>1, <1>2, DepthAssumption DEF Dist, Ptr
<1> QED
  BY <1>3, <1>4 DEF NoUnderrun, Occupancy

\* No word is overwritten before it is read: the write side knows when full.
THEOREM NeverOverruns == Spec => []NoOverrun
BY PointersStayInOrder, IInvNoOverrun, PTL

\* No slot is read before it is written: the read side knows when empty.
THEOREM NeverUnderruns == Spec => []NoUnderrun
BY PointersStayInOrder, IInvNoUnderrun, PTL

-----------------------------------------------------------------------------
(* The flag wires. *)

\* At an edge, each flag wire says what the code will decide.
THEOREM FlagWiresAreHonest == Spec => []FlagsHonestOnceTicked
<1>1. Init => FlagsHonestOnceTicked
  BY DEF Init, FlagsHonestOnceTicked
<1>2. FlagsHonestOnceTicked /\ [Next]_vars => FlagsHonestOnceTicked'
  <2> SUFFICES ASSUME FlagsHonestOnceTicked, [Next]_vars PROVE FlagsHonestOnceTicked'
    OBVIOUS
  <2>1. ASSUME NEW wclk \in BOOLEAN, NEW wen \in BOOLEAN, NEW din \in Data,
               NEW rclk \in BOOLEAN, NEW ren \in BOOLEAN,
               Tick(wclk, wen, din, rclk, ren)
        PROVE  FlagsHonestOnceTicked'
    BY <2>1 DEF Tick, ReadSide, WriteSide, FlagsHonestOnceTicked, Full, Empty
  <2>2. CASE Reset
    BY <2>2 DEF Reset, FlagsHonestOnceTicked
  <2>3. CASE UNCHANGED vars
    BY <2>3 DEF vars, FlagsHonestOnceTicked, Full, Empty
  <2> QED
    BY <2>1, <2>2, <2>3 DEF Next
<1> QED
  BY <1>1, <1>2, PTL DEF Spec

-----------------------------------------------------------------------------
(* Refinement: the slots from the read pointer on are the queue of Fifo. *)

\* A function on 1..n into S is a sequence over S of length n.
LEMMA FunctionIsSeq == ASSUME NEW n \in Nat, NEW S, NEW f \in [1..n -> S]
                       PROVE  f \in Seq(S) /\ Len(f) = n
OBVIOUS

\* A place k < 2 * Depth steps ahead is on the ring.
LEMMA AheadType == ASSUME NEW p \in Ptr, NEW k \in 0..(2 * Depth - 1)
                   PROVE  Ahead(p, k) \in Ptr /\ Slot(Ahead(p, k)) \in 0..(Depth - 1)
BY DepthAssumption DEF Ptr, Ahead, Slot

\* A window of n slots is a sequence of n words.
LEMMA WindowType ==
    ASSUME NEW m \in [0..(Depth - 1) -> Data], NEW r \in Ptr, NEW n \in 0..Depth
    PROVE  /\ Window(m, r, n) \in Seq(Data)
           /\ Len(Window(m, r, n)) = n
           /\ \A i \in 1..n : Window(m, r, n)[i] = m[Slot(Ahead(r, i - 1))]
<1>1. \A i \in 1..n : m[Slot(Ahead(r, i - 1))] \in Data
  BY AheadType, DepthAssumption
<1>2. Window(m, r, n) \in [1..n -> Data]
  BY <1>1 DEF Window
<1>3. n \in Nat
  BY DepthAssumption
<1> QED
  BY <1>2, <1>3, FunctionIsSeq DEF Window

\* Reading the first word of a window leaves the window one step on.
LEMMA WindowTail ==
    ASSUME NEW m \in [0..(Depth - 1) -> Data], NEW r \in Ptr, NEW n \in 1..Depth
    PROVE  /\ Window(m, r, n) # <<>>
           /\ Head(Window(m, r, n)) = m[Slot(r)]
           /\ Tail(Window(m, r, n)) = Window(m, Advance(r), n - 1)
<1> DEFINE s == Window(m, r, n)
           t == Window(m, Advance(r), n - 1)
<1>10. n \in 0..Depth /\ n - 1 \in 0..Depth /\ Advance(r) \in Ptr
  BY AdvanceType, DepthAssumption
<1>1. s \in Seq(Data) /\ Len(s) = n /\ \A i \in 1..n : s[i] = m[Slot(Ahead(r, i - 1))]
  BY <1>10, WindowType
<1>2. /\ t \in Seq(Data) /\ Len(t) = n - 1
      /\ \A i \in 1..(n - 1) : t[i] = m[Slot(Ahead(Advance(r), i - 1))]
  BY <1>10, WindowType
<1>3. \A i \in 1..(n - 1) : Ahead(Advance(r), i - 1) = Ahead(r, i)
  BY DepthAssumption DEF Ahead, Advance, Ptr
<1>4. Ahead(r, 0) = r
  BY DepthAssumption DEF Ahead, Ptr
<1> HIDE DEF s, t
<1>5. s # <<>> /\ Head(s) = m[Slot(r)]
  BY <1>1, <1>4
<1>6. /\ Tail(s) \in Seq(Data) /\ Len(Tail(s)) = n - 1
      /\ \A i \in 1..(n - 1) : Tail(s)[i] = s[i + 1]
  BY <1>1, <1>5, HeadTailProperties
<1>7. \A i \in 1..(n - 1) : Tail(s)[i] = t[i]
  BY <1>1, <1>2, <1>3, <1>6
<1>8. Tail(s) = t
  BY <1>2, <1>6, <1>7, SeqEqual
<1> QED
  BY <1>5, <1>8 DEF s, t

\* Writing the slot behind a window that is not full lengthens the window.
LEMMA WindowAppend ==
    ASSUME NEW m \in [0..(Depth - 1) -> Data], NEW r \in Ptr, NEW n \in 0..(Depth - 1),
           NEW d \in Data
    PROVE  Append(Window(m, r, n), d)
             = Window([m EXCEPT ![Slot(Ahead(r, n))] = d], r, n + 1)
<1> DEFINE k == Slot(Ahead(r, n))
           m2 == [m EXCEPT ![k] = d]
           s == Window(m, r, n)
           t == Window(m2, r, n + 1)
<1>1. k \in 0..(Depth - 1) /\ m2 \in [0..(Depth - 1) -> Data]
  BY AheadType, DepthAssumption
<1>10. n \in 0..Depth /\ n + 1 \in 0..Depth /\ n \in Nat
  BY DepthAssumption
<1>11. \A i \in 1..n : i \in 1..(n + 1)
  BY <1>10
<1>2. s \in Seq(Data) /\ Len(s) = n /\ \A i \in 1..n : s[i] = m[Slot(Ahead(r, i - 1))]
  BY <1>10, WindowType
<1>3. /\ t \in Seq(Data) /\ Len(t) = n + 1
      /\ \A i \in 1..(n + 1) : t[i] = m2[Slot(Ahead(r, i - 1))]
  BY <1>1, <1>10, WindowType
<1>4. \A i \in 1..n : /\ Slot(Ahead(r, i - 1)) # k
                      /\ Slot(Ahead(r, i - 1)) \in 0..(Depth - 1)
  BY DepthAssumption DEF Ahead, Slot, Ptr
<1>5. \A i \in 1..n : t[i] = s[i]
  <2> TAKE i \in 1..n
  <2>1. t[i] = m2[Slot(Ahead(r, i - 1))]
    BY <1>3, <1>11
  <2>2. m2[Slot(Ahead(r, i - 1))] = m[Slot(Ahead(r, i - 1))]
    BY <1>4
  <2> QED
    BY <1>2, <2>1, <2>2
<1>6. t[n + 1] = d
  <2>1. (n + 1) - 1 = n /\ n + 1 \in 1..(n + 1)
    BY DepthAssumption
  <2>2. t[n + 1] = m2[k]
    BY <1>3, <2>1
  <2> QED
    BY <1>1, <2>2
<1> HIDE DEF k, m2, s, t
<1>7. /\ Append(s, d) \in Seq(Data) /\ Len(Append(s, d)) = n + 1
      /\ \A i \in 1..n : Append(s, d)[i] = s[i]
      /\ Append(s, d)[n + 1] = d
  BY <1>2
<1>8. \A i \in 1..(n + 1) : Append(s, d)[i] = t[i]
  BY <1>5, <1>6, <1>7, DepthAssumption
<1>9. Append(s, d) = t
  BY <1>3, <1>7, <1>8, SeqEqual
<1> QED
  BY <1>9 DEF s, t, m2, k

\* What one side's part of a tick does to the window, seen from the pointers.
LEMMA OccupancyFacts ==
    ASSUME IInv
    PROVE  /\ Occupancy \in 0..Depth
           /\ wbin = Ahead(rbin, Occupancy)
           /\ rbin \in Ptr /\ wbin \in Ptr
           /\ ~Empty => Occupancy > 0 /\ Dist(wbin, Advance(rbin)) = Occupancy - 1
                        /\ wbin = Ahead(Advance(rbin), Occupancy - 1)
           /\ ~Full => Occupancy < Depth /\ Dist(Advance(wbin), rbin) = Occupancy + 1
<1> DEFINE w1 == UnGray(wg_s1)
           w2 == UnGray(wg_s2)
           r1 == UnGray(rg_s1)
           r2 == UnGray(rg_s2)
<1>1. /\ wbin \in Ptr /\ rbin \in Ptr
      /\ w1 \in Ptr /\ w2 \in Ptr /\ r1 \in Ptr /\ r2 \in Ptr
  BY UnGrayType DEF IInv, TypeOK
<1>2. Dist(wbin, w1) + Dist(w1, w2) + Dist(w2, rbin) + Dist(rbin, r1) + Dist(r1, r2) <= Depth
  BY DEF IInv, PointersInOrder
<1>3. (Empty <=> rbin = w2) /\ (Full <=> wbin = Opposite(r2))
  BY EmptyMeaning, FullMeaning DEF IInv
<1> HIDE DEF w1, w2, r1, r2
<1>4. Occupancy \in 0..Depth /\ wbin = Ahead(rbin, Occupancy)
  BY <1>1, <1>2, DepthAssumption DEF Occupancy, Dist, Ptr, Ahead
<1>5. rbin # w2 => Occupancy > 0
  BY <1>1, <1>2, DepthAssumption DEF Occupancy, Dist, Ptr
<1>6. Occupancy > 0 => /\ Dist(wbin, Advance(rbin)) = Occupancy - 1
                       /\ wbin = Ahead(Advance(rbin), Occupancy - 1)
  BY <1>1, DepthAssumption DEF Occupancy, Dist, Ptr, Ahead, Advance
<1>7. wbin # Opposite(r2) => Occupancy < Depth
  BY <1>1, <1>2, DepthAssumption DEF Occupancy, Dist, Ptr, Opposite
<1>8. Occupancy < Depth => Dist(Advance(wbin), rbin) = Occupancy + 1
  BY <1>1, DepthAssumption DEF Occupancy, Dist, Ptr, Advance
<1> QED
  BY <1>1, <1>3, <1>4, <1>5, <1>6, <1>7, <1>8

\* Every tick is a step of the FIFO, or leaves it alone.
LEMMA TickRefines ==
    ASSUME IInv,
           NEW wclk \in BOOLEAN, NEW wen \in BOOLEAN, NEW din \in Data,
           NEW rclk \in BOOLEAN, NEW ren \in BOOLEAN,
           Tick(wclk, wen, din, rclk, ren)
    PROVE  Abstract!Next \/ Abstract!Idle
<1> DEFINE n == Occupancy
           reads == rclk /\ ~prev_rclk /\ ren /\ ~Empty
           writes == wclk /\ ~prev_wclk /\ wen /\ ~Full
           mem2 == [mem EXCEPT ![Slot(wbin)] = din]
<1>1. /\ n \in 0..Depth /\ wbin = Ahead(rbin, n)
      /\ rbin \in Ptr /\ wbin \in Ptr
      /\ ~Empty => n > 0 /\ Dist(wbin, Advance(rbin)) = n - 1
                   /\ wbin = Ahead(Advance(rbin), n - 1)
      /\ ~Full => n < Depth /\ Dist(Advance(wbin), rbin) = n + 1
  BY OccupancyFacts
<1>2. mem \in [0..(Depth - 1) -> Data] /\ Advance(rbin) \in Ptr /\ Advance(wbin) \in Ptr
  BY <1>1, AdvanceType DEF IInv, TypeOK
<1>3. IF reads THEN rdata' = mem[Slot(rbin)] /\ rbin' = Advance(rbin)
               ELSE rdata' = rdata /\ rbin' = rbin
  BY DEF Tick, ReadSide
<1>4. IF writes THEN mem' = mem2 /\ wbin' = Advance(wbin)
                ELSE mem' = mem /\ wbin' = wbin
  BY DEF Tick, WriteSide
<1>5. Contents = Window(mem, rbin, n) /\ n = Dist(wbin, rbin)
  BY DEF Contents, Occupancy
<1>6. Contents' = Window(mem', rbin', Dist(wbin', rbin'))
  BY DEF Contents, Occupancy, Window, Dist, Slot, Ahead
<1>7. Len(Contents) = n
  BY <1>1, <1>2, <1>5, WindowType
<1> HIDE DEF n
<1>8. CASE reads /\ writes
  <2>1. n \in 1..Depth /\ n - 1 \in 0..(Depth - 1)
    BY <1>8, <1>1, DepthAssumption
  <2>2. Dist(wbin', rbin') = n
    <3>1. Advance(rbin) = rbin' /\ Advance(wbin) = wbin'
      BY <1>8, <1>3, <1>4
    <3>2. Dist(wbin, Advance(rbin)) = n - 1 /\ n - 1 < Depth /\ n \in Int
      BY <1>8, <1>1, <2>1, DepthAssumption
    <3>3. Dist(Advance(wbin), Advance(rbin)) = n
      BY <1>2, <1>1, <3>2, DepthAssumption DEF Dist, Ptr, Advance
    <3> QED
      BY <3>1, <3>3
  <2>3. /\ Contents # <<>> /\ Head(Contents) = mem[Slot(rbin)]
        /\ Tail(Contents) = Window(mem, Advance(rbin), n - 1)
    BY <2>1, <1>1, <1>2, <1>5, WindowTail
  <2>4. Append(Window(mem, Advance(rbin), n - 1), din)
          = Window([mem EXCEPT ![Slot(Ahead(Advance(rbin), n - 1))] = din],
                   Advance(rbin), (n - 1) + 1)
    BY <2>1, <1>2, WindowAppend
  <2>5. Contents' = Append(Tail(Contents), din)
    <3>1. (n - 1) + 1 = n
      BY <2>1, DepthAssumption
    <3>2. mem' = [mem EXCEPT ![Slot(Ahead(Advance(rbin), n - 1))] = din]
      BY <1>1, <1>4, <1>8
    <3>3. rbin' = Advance(rbin)
      BY <1>3, <1>8
    <3>4. Contents' = Window(mem', Advance(rbin), n)
      BY <1>6, <2>2, <3>3
    <3> QED
      BY <2>3, <2>4, <3>1, <3>2, <3>4
  <2>6. Abstract!Pass(din)
    BY <2>3, <2>5, <1>3, <1>8 DEF Abstract!Pass
  <2> QED
    BY <2>6 DEF Abstract!Next
<1>9. CASE reads /\ ~writes
  <2>1. n \in 1..Depth
    BY <1>9, <1>1, DepthAssumption
  <2>2. Dist(wbin', rbin') = n - 1
    BY <1>9, <1>1, <1>3, <1>4
  <2>3. /\ Contents # <<>> /\ Head(Contents) = mem[Slot(rbin)]
        /\ Tail(Contents) = Window(mem, Advance(rbin), n - 1)
    BY <2>1, <1>1, <1>2, <1>5, WindowTail
  <2>4. Abstract!Get
    BY <2>2, <2>3, <1>3, <1>4, <1>6, <1>9 DEF Abstract!Get
  <2> QED
    BY <2>4 DEF Abstract!Next
<1>10. CASE ~reads /\ writes
  <2>1. n \in 0..(Depth - 1) /\ n < Depth
    BY <1>10, <1>1, DepthAssumption
  <2>2. Dist(wbin', rbin') = n + 1
    BY <1>10, <1>1, <1>3, <1>4
  <2>3. Append(Contents, din) = Window(mem2, rbin, n + 1)
    <3>1. Append(Window(mem, rbin, n), din)
            = Window([mem EXCEPT ![Slot(Ahead(rbin, n))] = din], rbin, n + 1)
      BY <2>1, <1>1, <1>2, WindowAppend
    <3>2. mem2 = [mem EXCEPT ![Slot(Ahead(rbin, n))] = din]
      BY <1>1
    <3> QED
      BY <3>1, <3>2, <1>5
  <2>4. Contents' = Append(Contents, din)
    BY <2>2, <2>3, <1>3, <1>4, <1>6, <1>10
  <2>5. Abstract!Put(din)
    BY <2>1, <2>4, <1>3, <1>7, <1>10 DEF Abstract!Put
  <2> QED
    BY <2>5 DEF Abstract!Next
<1>11. CASE ~reads /\ ~writes
  <2>1. Contents' = Contents /\ rdata' = rdata
    BY <1>11, <1>3, <1>4, <1>5, <1>6
  <2> QED
    BY <2>1 DEF Abstract!Idle
<1> QED
  BY <1>8, <1>9, <1>10, <1>11

\* After a reset the queue is empty.
LEMMA EmptyContents == wbin = 0 /\ rbin = 0 => Contents = <<>>
<1> SUFFICES ASSUME wbin = 0, rbin = 0 PROVE Contents = <<>>
  OBVIOUS
<1>1. Occupancy = 0
  BY DepthAssumption DEF Occupancy, Dist
<1> QED
  BY <1>1 DEF Contents, Window

\* The dual-clock FIFO is a FIFO of the given depth: words come out once, in
\* the order they went in, for every depth, clock ratio and pattern of enables.
THEOREM AsyncFifoIsFifo == Spec => ImplementsFifo
<1>1. Init => Abstract!Init
  BY EmptyContents DEF Init, Abstract!Init
<1>2. IInv /\ [Next]_vars => [Abstract!Next]_<<Contents, rdata>>
  <2> SUFFICES ASSUME IInv, [Next]_vars
               PROVE  Abstract!Next \/ UNCHANGED <<Contents, rdata>>
    OBVIOUS
  <2>1. ASSUME NEW wclk \in BOOLEAN, NEW wen \in BOOLEAN, NEW din \in Data,
               NEW rclk \in BOOLEAN, NEW ren \in BOOLEAN,
               Tick(wclk, wen, din, rclk, ren)
        PROVE  Abstract!Next \/ UNCHANGED <<Contents, rdata>>
    BY <2>1, TickRefines DEF Abstract!Idle
  <2>2. CASE Reset
    <3>1. Contents' = <<>>
      <4>1. wbin' = 0 /\ rbin' = 0
        BY <2>2 DEF Reset
      <4> QED
        BY <4>1, DepthAssumption DEF Contents, Window, Occupancy, Dist
    <3> QED
      BY <3>1, <2>2 DEF Reset, Abstract!Next, Abstract!Reset
  <2>3. CASE UNCHANGED vars
    BY <2>3 DEF vars, Contents, Window, Occupancy, Dist, Slot, Ahead
  <2> QED
    BY <2>1, <2>2, <2>3 DEF Next
<1> QED
  BY <1>1, <1>2, PointersStayInOrder, PTL DEF Spec, ImplementsFifo, Abstract!Spec
=============================================================================
