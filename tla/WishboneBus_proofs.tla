------------------------- MODULE WishboneBus_proofs -------------------------
(* Proofs about WishboneBus, for any number of masters, slaves and words and  *)
(* every order of insertion: the wires add up to one shared memory.           *)
EXTENDS WishboneBus, WellFoundedInduction, TLAPS

-----------------------------------------------------------------------------
(* The order of insertion as time. *)

Ic == <<"ic", 0>>
MasterPart(m) == <<"master", m>>
SlavePart(s) == <<"slave", s>>
Pos(p) == CHOOSE i \in DOMAIN order : order[i] = p

\* p has had its turn since q had its last.
Since(p, q) ==
    IF Pos(q) < Pos(p) THEN at = 0 \/ at > Pos(p) \/ at <= Pos(q)
    ELSE Pos(p) < at /\ at <= Pos(q)
\* p has not had its turn in this cycle yet, whose combinational phase has begun.
Upcoming(p) == at # 0 /\ at <= Pos(p)
\* p has not had its turn in this cycle.
Ahead(p) == at = 0 \/ at <= Pos(p)

Ordered == order \in Orders /\ at \in 0..Len(order)

\* Every part is at one place.
LEMMA Places ==
    ASSUME Ordered, NEW p \in Parts
    PROVE  Pos(p) \in 1..Len(order) /\ \A i \in 1..Len(order) : order[i] = p <=> i = Pos(p)
<1>1. order \in Seq(Parts) /\ DOMAIN order = 1..Len(order)
  BY OrdersAssumption DEF Ordered
<1>2. PICK i \in DOMAIN order : \A j \in DOMAIN order : order[j] = p <=> j = i
  BY OrdersAssumption DEF Ordered
<1>3. Pos(p) = i
  BY <1>2 DEF Pos
<1> QED
  BY <1>1, <1>2, <1>3

\* A turn, in places.
LEMMA TurnIs ==
    ASSUME Ordered, NEW p \in Parts, Turn(p)
    PROVE  /\ at = Pos(p) /\ at \in 1..Len(order) /\ Len(order) \in Nat
           /\ at' = (IF at = Len(order) THEN 0 ELSE at + 1)
           /\ order' = order /\ Ordered'
<1>1. order \in Seq(Parts) /\ Len(order) \in Nat /\ at \in 0..Len(order)
  BY OrdersAssumption DEF Ordered
<1>2. at \in 1..Len(order) /\ order[at] = p
  BY <1>1 DEF Turn
<1>3. at = Pos(p)
  BY <1>2, Places
<1>4. at' = (IF at = Len(order) THEN 0 ELSE at + 1) /\ order' = order
  BY DEF Turn
<1>5. at' \in 0..Len(order)
  BY <1>1, <1>2, <1>4
<1> QED
  BY <1>1, <1>2, <1>3, <1>4, <1>5 DEF Ordered

\* What a turn changes in who has been since whom.
LEMMA TurnSince ==
    ASSUME Ordered, NEW r \in Parts, Turn(r), NEW p \in Parts, NEW q \in Parts, p # q
    PROVE  /\ r = p => ~Since(p, q) /\ Since(p, q)'
           /\ r = q => Since(p, q) /\ ~Since(p, q)'
           /\ r \notin {p, q} => (Since(p, q)' <=> Since(p, q))
<1>1. /\ at = Pos(r) /\ at \in 1..Len(order) /\ Len(order) \in Nat
      /\ at' = (IF at = Len(order) THEN 0 ELSE at + 1) /\ order' = order
  BY TurnIs
<1>2. Pos(p)' = Pos(p) /\ Pos(q)' = Pos(q)
  BY <1>1 DEF Pos
<1>3. Pos(p) \in 1..Len(order) /\ Pos(q) \in 1..Len(order) /\ Pos(p) # Pos(q)
  BY Places
<1>4. (r = p <=> at = Pos(p)) /\ (r = q <=> at = Pos(q))
  BY <1>1, Places DEF Turn
<1> QED
  BY <1>1, <1>2, <1>3, <1>4 DEF Since

LEMMA TurnAhead ==
    ASSUME Ordered, NEW r \in Parts, Turn(r), NEW p \in Parts
    PROVE  /\ r = p => Upcoming(p) /\ ~Upcoming(p)'
           /\ Upcoming(p)' => Upcoming(p)
           /\ r # p /\ Ahead(p) => Ahead(p)'
           /\ Pos(p)' = Pos(p) /\ (Pos(r) < Pos(p) => Ahead(p)) /\ (Ahead(p) => Pos(r) <= Pos(p))
<1>1. /\ at = Pos(r) /\ at \in 1..Len(order) /\ Len(order) \in Nat
      /\ at' = (IF at = Len(order) THEN 0 ELSE at + 1) /\ order' = order
  BY TurnIs
<1>2. Pos(p)' = Pos(p)
  BY <1>1 DEF Pos
<1>3. Pos(p) \in 1..Len(order)
  BY Places
<1>4. r = p <=> at = Pos(p)
  BY <1>1, Places DEF Turn
<1> QED
  BY <1>1, <1>2, <1>3, <1>4 DEF Upcoming, Ahead

\* The combinational phase comes between the cycles.
LEMMA CombAhead ==
    ASSUME Ordered, at = 0, at' = 1, order' = order, NEW p \in Parts
    PROVE  Ahead(p)' /\ Pos(p)' = Pos(p) /\ Ordered'
<1>1. Pos(p)' = Pos(p) /\ Pos(p) \in 1..Len(order) /\ Len(order) \in Nat
  BY Places, OrdersAssumption DEF Pos, Ordered
<1> QED
  BY <1>1 DEF Ahead, Ordered

LEMMA CombSince ==
    ASSUME Ordered, at = 0, at' = 1, order' = order,
           NEW p \in Parts, NEW q \in Parts, p # q
    PROVE  Since(p, q)' <=> Since(p, q)
<1>1. Pos(p)' = Pos(p) /\ Pos(q)' = Pos(q)
  BY DEF Pos
<1>2. Pos(p) \in 1..Len(order) /\ Pos(q) \in 1..Len(order) /\ Pos(p) # Pos(q)
  BY Places
<1>3. Len(order) \in Nat
  BY OrdersAssumption DEF Ordered
<1> QED
  BY <1>1, <1>2, <1>3 DEF Since

\* The parts are different ones.
LEMMA PartsDiffer ==
    /\ Ic \in Parts /\ \A m \in Masters : MasterPart(m) \in Parts /\ MasterPart(m) # Ic
    /\ \A s \in Slaves : SlavePart(s) \in Parts /\ SlavePart(s) # Ic
    /\ \A m \in Masters, s \in Slaves : MasterPart(m) # SlavePart(s)
    /\ \A m, n \in Masters : MasterPart(m) = MasterPart(n) => m = n
    /\ \A s, k \in Slaves : SlavePart(s) = SlavePart(k) => s = k
BY DEF Parts, Ic, MasterPart, SlavePart

-----------------------------------------------------------------------------
(* The inductive invariant. *)

\* A page walk raises stb for its next entry in the falling tick, so the
\* interconnect must have had its turn since the CPU took the last one down.
CpusFirst == \A m \in Cpus : order \in WalkOrders => Pos(MasterPart(m)) < Pos(Ic)

Asking == {"access", "amo_read", "wait_walk", "dma_read", "dma_write", "gap"}
OfCpus == {"amo_gap", "amo_write", "walk", "wait_walk"}
Paused == {"amo_gap", "gap"}

\* What the wires of m may be in each phase of m.
Fits(m, p, l, a) ==
    /\ p \in Asking => l.stb
    /\ p = "free" /\ l.stb => m \in Virtios
    /\ p = "dma_have" => ~l.stb
    /\ p = "dma_write" => l.we
    /\ p \in OfCpus => m \in Cpus
    /\ p \in {"walk", "wait_walk"} => Pos(MasterPart(m)) < Pos(Ic)
    /\ a => p = "gap"
    /\ l.stb => l.cyc

\* The falling tick has brought the lines of a CPU in line with its phase.
Fallen(m) ==
    /\ phase[m] = "amo_gap" => ~line[m].stb
    /\ phase[m] \in {"amo_write", "walk"} => line[m].stb
LineOfPhase(m) ==
    /\ Fits(m, phase[m], line[m], acked[m])
    /\ Upcoming(MasterPart(m)) => Fallen(m)

\* The interconnect passes m on, and the slave has its request.
Holding(m) == grant = m /\ ~gap
Answered(m) == Holding(m) /\ slv[si].prev

\* Between two requests of one master the interconnect sees stb low: it takes
\* the grant back before the next.
GrantLapses(m) == ~line[m].stb /\ grant = m =>
    \/ phase[m] = "amo_gap" /\ Ahead(Ic)
    \/ /\ Since(MasterPart(m), Ic)
       /\ phase[m] \in {"free", "dma_have"} \/ Pos(MasterPart(m)) < Pos(Ic)

\* An ack a master is about to see is that of its request.
AckIsOwn(m) ==
    /\ Upcoming(MasterPart(m)) /\ ret[m].ack =>
         line[m].stb /\ Answered(m) /\ ret[m].dat = slv[si].dat
    /\ ret[m].ack => m = mlast

\* A master that has taken its answer and still holds stb up has been served.
PausedIsAnswered(m) == line[m].stb /\ phase[m] \in Paused => Answered(m)

MasterInv(m) == LineOfPhase(m) /\ GrantLapses(m) /\ AckIsOwn(m) /\ PausedIsAnswered(m)

\* The wires to the slaves are the holder's, and only its slave sees stb.
OneDriven ==
    /\ grant # NoMaster => last = grant
    /\ wsi = (IF grant = NoMaster THEN NoSlave ELSE si)
    /\ \A k \in Slaves : sline[k].stb <=> k = si /\ grant # NoMaster /\ ~gap
Matches == grant # NoMaster /\ line[grant].stb =>
    /\ si = SlaveOf[line[grant].adr]
    /\ sline[si].adr = line[grant].adr /\ sline[si].we = line[grant].we
    /\ sline[si].dat = line[grant].dat

\* A slave that has not begun is shown a request somebody waits for.
BeginsForSomeone == grant # NoMaster /\ ~gap /\ ~slv[si].prev => Waiting(grant)

SlaveInv(s) ==
    /\ slv[s].pending = slv[s].prev
    /\ out[s] = (IF slv[s].prev THEN [ack |-> TRUE, dat |-> slv[s].dat] ELSE NoReply)
    /\ Since(SlavePart(s), Ic) => slv[s].prev = sline[s].stb
    /\ slv[s].prev /\ sline[s].stb => slv[s].prevWe = sline[s].we

Inv ==
    /\ TypeOK /\ CpusFirst
    /\ \A m \in Masters : MasterInv(m)
    /\ OneDriven /\ Matches /\ BeginsForSomeone
    /\ \A s \in Slaves : SlaveInv(s)

-----------------------------------------------------------------------------
(* The turn of a master. *)

Phases == {"free", "access", "amo_read", "amo_gap", "amo_write", "walk",
           "wait_walk", "dma_read", "dma_have", "dma_write", "gap"}
Lines == [adr : Words, we : BOOLEAN, dat : Values, stb : BOOLEAN, cyc : BOOLEAN]

\* m has gone to phase p, with the lines l.
Went(m, p, l, a) ==
    /\ MasterTurn(m) /\ p \in Phases /\ l \in Lines /\ a \in BOOLEAN
    /\ phase' = [phase EXCEPT ![m] = p] /\ line' = [line EXCEPT ![m] = l]
    /\ acked' = [acked EXCEPT ![m] = a] /\ got' \in [Masters -> Values]
    /\ Fits(m, p, l, a)
    /\ p \in Paused /\ l.stb => Answered(m)
    /\ grant = m /\ ~l.stb => p \in {"free", "dma_have"} \/ Pos(MasterPart(m)) < Pos(Ic)
Kept(m, l) == l = line[m]
Raised(m, l) == l.stb /\ ~line[m].stb /\ grant # m
Lowered(m, l) == ~l.stb /\ line[m].stb /\ Answered(m)

\* Ports are numbers from 0, and there is one of each.
LEMMA MastersAre ==
    /\ MasterCount \in Nat \ {0} /\ Masters = 0..(MasterCount - 1) /\ 0 \in Masters /\ NoMaster \notin Masters
    /\ Slaves \subseteq Nat /\ NoSlave \notin Slaves
BY PortsAssumption DEF NoMaster, NoSlave

\* A master touches its own lines; a request it raises finds the grant gone,
\* and one it takes down has been answered.
LEMMA MasterKeeps ==
    ASSUME Inv, NEW m \in Masters, NEW p, NEW l, NEW a, Went(m, p, l, a),
           Kept(m, l) \/ Raised(m, l) \/ Lowered(m, l)
    PROVE  Inv'
<1>1. /\ Turn(MasterPart(m)) /\ UNCHANGED <<ret, mlast, grant, last, next, gap, si, wsi, sline>>
      /\ UNCHANGED <<out, slv, mem>>
  BY DEF Went, MasterTurn, ic, slave, MasterPart
<1>2. /\ p \in Phases /\ l \in Lines /\ a \in BOOLEAN
      /\ phase' = [phase EXCEPT ![m] = p] /\ line' = [line EXCEPT ![m] = l]
      /\ acked' = [acked EXCEPT ![m] = a] /\ got' \in [Masters -> Values]
  BY DEF Went
<1>3. Ordered /\ Ordered' /\ order' = order
  BY <1>1, PartsDiffer, TurnIs DEF Inv, TypeOK, Ordered
<1>4. TypeOK'
  BY <1>1, <1>2, <1>3 DEF Inv, TypeOK, Phases, Lines, Ordered
<1>5. /\ phase'[m] = p /\ line'[m] = l /\ acked'[m] = a
      /\ \A n \in Masters \ {m} : phase'[n] = phase[n] /\ line'[n] = line[n] /\ acked'[n] = acked[n]
  BY <1>2 DEF Inv, TypeOK
<1>6. \A n \in Masters : /\ MasterPart(n) \in Parts /\ MasterPart(n) # Ic
                         /\ Pos(MasterPart(n))' = Pos(MasterPart(n))
                         /\ Upcoming(MasterPart(n))' => Upcoming(MasterPart(n)) /\ n # m
  BY <1>1, <1>3, PartsDiffer, TurnAhead
<1>7. Pos(Ic)' = Pos(Ic) /\ (Ahead(Ic) => Ahead(Ic)')
  BY <1>1, <1>3, PartsDiffer, TurnAhead
<1>8. CpusFirst'
  BY <1>3, <1>6, <1>7 DEF Inv, CpusFirst, PortsAssumption, Masters
<1>9. ASSUME NEW n \in Masters PROVE MasterInv(n)'
  <2>1. MasterInv(n)
    BY DEF Inv
  <2>2. LineOfPhase(n)'
    <3>1. CASE n = m
      BY <3>1, <1>5, <1>6, <1>7 DEF LineOfPhase, Went, Fits
    <3>2. CASE n # m
      BY <3>2, <2>1, <1>5, <1>6, <1>7 DEF MasterInv, LineOfPhase, Fits, Fallen
    <3> QED
      BY <3>1, <3>2
  <2>3. GrantLapses(n)'
    <3>1. CASE n = m
      <4>1. Since(MasterPart(m), Ic)'
        BY <1>1, <1>3, <1>6, PartsDiffer, TurnSince
      <4> QED
        BY <3>1, <4>1, <1>1, <1>5, <1>6, <1>7 DEF GrantLapses, Went
    <3>2. CASE n # m
      <4>1. Since(MasterPart(n), Ic)' <=> Since(MasterPart(n), Ic)
        BY <3>2, <1>1, <1>3, PartsDiffer, TurnSince
      <4> QED
        BY <3>2, <4>1, <2>1, <1>1, <1>5, <1>6, <1>7 DEF MasterInv, GrantLapses
    <3> QED
      BY <3>1, <3>2
  <2>4. AckIsOwn(n)'
    BY <2>1, <1>1, <1>5, <1>6 DEF MasterInv, AckIsOwn, Answered, Holding
  <2>5. PausedIsAnswered(n)'
    BY <2>1, <1>1, <1>5 DEF MasterInv, PausedIsAnswered, Answered, Holding, Went
  <2> QED
    BY <2>2, <2>3, <2>4, <2>5 DEF MasterInv
<1>10. OneDriven'
  BY <1>1 DEF Inv, OneDriven
<1>11. Matches'
  <2>1. grant \in Masters \/ grant = NoMaster
    BY DEF Inv, TypeOK
  <2> QED
    BY <2>1, <1>1, <1>5 DEF Inv, Matches, Kept, Raised, Lowered
<1>12. BeginsForSomeone'
  <2>1. grant \in Masters \/ grant = NoMaster
    BY DEF Inv, TypeOK
  <2>2. CASE grant # m
    BY <2>1, <2>2, <1>1, <1>5 DEF Inv, BeginsForSomeone, Waiting
  <2>3. CASE grant = m
    <3>1. grant # NoMaster
      BY <2>3, MastersAre
    <3>2. ~gap /\ ~slv[si].prev => line[m].stb
      BY <2>3, <3>1 DEF Inv, BeginsForSomeone, Waiting
    <3>3. ~gap /\ ~slv[si].prev => l.stb
      BY <2>3, <3>2 DEF Kept, Raised, Lowered, Answered
    <3>4. p \in Paused /\ l.stb => ~gap /\ slv[si].prev
      BY DEF Went, Answered, Holding
    <3> QED
      BY <2>3, <3>3, <3>4, <1>1, <1>5 DEF BeginsForSomeone, Waiting, Paused
  <2> QED
    BY <2>2, <2>3
<1>13. ASSUME NEW s \in Slaves PROVE SlaveInv(s)'
  <2>1. Since(SlavePart(s), Ic)' <=> Since(SlavePart(s), Ic)
    BY <1>1, <1>3, PartsDiffer, TurnSince
  <2>2. SlaveInv(s)
    BY DEF Inv
  <2> QED
    BY <2>1, <2>2, <1>1 DEF SlaveInv
<1> QED
  BY <1>4, <1>8, <1>9, <1>10, <1>11, <1>12, <1>13 DEF Inv

\* What the turn of m is to a user of the bus: nothing, a new request, or the
\* end of one, with the word it was served.
Idles(m, l) ==
    /\ Kept(m, l) \/ (phase[m] \in Paused /\ Lowered(m, l))
    /\ (Waiting(m)' <=> Waiting(m)) /\ got' = got
Asks(m, l) == Raised(m, l) /\ phase'[m] \notin Paused /\ got' = got
Takes(m, l) ==
    /\ Kept(m, l) \/ Lowered(m, l)
    /\ Waiting(m) /\ ~Waiting(m)' /\ Answered(m)
    /\ got' = (IF line[m].we THEN got ELSE [got EXCEPT ![m] = slv[si].dat])
Turned(m) == \E p, l, a :
    Went(m, p, l, a) /\ (Idles(m, l) \/ Asks(m, l) \/ Takes(m, l))

\* What m finds when its turn comes.
LEMMA AtTurn ==
    ASSUME Inv, NEW m \in Masters, MasterTurn(m)
    PROVE  /\ Fits(m, phase[m], line[m], acked[m]) /\ Fallen(m)
           /\ ret[m].ack => line[m].stb /\ Answered(m) /\ ret[m].dat = slv[si].dat
           /\ grant = m /\ ~line[m].stb =>
                phase[m] = "amo_gap" /\ Pos(MasterPart(m)) < Pos(Ic)
           /\ line[m].stb /\ phase[m] \in Paused => Answered(m)
           /\ phase[m] \in Phases /\ line[m] \in Lines /\ acked[m] \in BOOLEAN
           /\ phase = [phase EXCEPT ![m] = phase[m]] /\ line = [line EXCEPT ![m] = line[m]]
           /\ acked = [acked EXCEPT ![m] = acked[m]] /\ got \in [Masters -> Values]
           /\ ret[m].dat \in Values
           /\ \A p : phase' = [phase EXCEPT ![m] = p] => phase'[m] = p
           /\ \A l : line' = [line EXCEPT ![m] = l] => line'[m] = l
<1>1. Turn(MasterPart(m)) /\ Ordered /\ MasterInv(m) /\ TypeOK
  BY DEF Inv, TypeOK, MasterTurn, MasterPart, Ordered
<1>2. /\ Upcoming(MasterPart(m)) /\ ~Since(MasterPart(m), Ic)
      /\ (Ahead(Ic) => Pos(MasterPart(m)) <= Pos(Ic))
  BY <1>1, PartsDiffer, TurnAhead, TurnSince
<1>3. Pos(MasterPart(m)) # Pos(Ic) /\ Pos(MasterPart(m)) \in Int /\ Pos(Ic) \in Int
  BY <1>1, PartsDiffer, Places
<1>4. phase[m] \in Phases /\ line[m] \in Lines /\ acked[m] \in BOOLEAN
  BY <1>1 DEF TypeOK, Phases, Lines
<1>5. /\ phase = [phase EXCEPT ![m] = phase[m]] /\ line = [line EXCEPT ![m] = line[m]]
      /\ acked = [acked EXCEPT ![m] = acked[m]] /\ got \in [Masters -> Values]
      /\ ret[m].dat \in Values
      /\ \A p : phase' = [phase EXCEPT ![m] = p] => phase'[m] = p
      /\ \A l : line' = [line EXCEPT ![m] = l] => line'[m] = l
  BY <1>1 DEF TypeOK
<1>6. /\ Fits(m, phase[m], line[m], acked[m]) /\ Fallen(m)
      /\ ret[m].ack => line[m].stb /\ Answered(m) /\ ret[m].dat = slv[si].dat
      /\ line[m].stb /\ phase[m] \in Paused => Answered(m)
  BY <1>1, <1>2 DEF MasterInv, LineOfPhase, AckIsOwn, PausedIsAnswered
<1>7. grant = m /\ ~line[m].stb => phase[m] = "amo_gap" /\ Pos(MasterPart(m)) < Pos(Ic)
  BY <1>1, <1>2, <1>3 DEF MasterInv, GrantLapses
<1> QED
  BY <1>4, <1>5, <1>6, <1>7

\* A word and a value make a request.
LEMMA RaiseIs ==
    ASSUME NEW w \in Words, NEW v \in Values, NEW we \in BOOLEAN
    PROVE  /\ [adr |-> w, we |-> we, dat |-> v, stb |-> TRUE, cyc |-> TRUE] \in Lines
           /\ Quiet \in Lines /\ 0 \in Values
BY WordsAssumption DEF Lines, Quiet

LEMMA StayTurns == ASSUME Inv, NEW m \in Masters, Stay(m) PROVE Turned(m)
<1>1. MasterTurn(m) /\ UNCHANGED <<phase, line, got, acked>>
  BY DEF Stay, master
<1>2. Went(m, phase[m], line[m], acked[m])
  BY <1>1, AtTurn DEF Went
<1>3. Idles(m, line[m])
  BY <1>1 DEF Idles, Kept, Waiting, Paused, master
<1> QED
  BY <1>2, <1>3 DEF Turned

\* A first request, of a CPU or a DMA.
LEMMA AskTurns ==
    ASSUME Inv, NEW m \in Masters, MasterTurn(m), NEW w \in Words, NEW v \in Values,
           NEW we \in BOOLEAN, NEW p, Raise(m, w, we, v), Become(m, p), UNCHANGED <<got, acked>>,
           \/ phase[m] = "free" /\ m \notin Virtios
           \/ phase[m] = "dma_have",
           \/ p \in {"access", "amo_read", "dma_read"}
           \/ p = "dma_write" /\ we
           \/ p = "wait_walk" /\ m \in Cpus /\ Pos(MasterPart(m)) < Pos(Ic)
    PROVE  Turned(m)
<1> DEFINE l == [adr |-> w, we |-> we, dat |-> v, stb |-> TRUE, cyc |-> TRUE]
<1>1. line' = [line EXCEPT ![m] = l] /\ phase' = [phase EXCEPT ![m] = p]
  BY DEF Raise, Drive, Become
<1>2. l \in Lines /\ l.stb /\ l.cyc /\ l.we = we
  BY RaiseIs
<1> HIDE DEF l
<1>3. ~line[m].stb /\ ~acked[m]
  BY AtTurn DEF Fits
<1>4. grant # m
  BY <1>3, AtTurn
<1>5. Fits(m, p, l, acked[m]) /\ p \in Phases /\ p \notin Paused
  BY <1>2, <1>3 DEF Fits, Phases, OfCpus, Paused
<1>6. Went(m, p, l, acked[m])
  BY <1>1, <1>2, <1>4, <1>5, AtTurn DEF Went
<1>7. Asks(m, l)
  BY <1>1, <1>2, <1>3, <1>4, <1>5, AtTurn DEF Asks, Raised
<1> QED
  BY <1>6, <1>7 DEF Turned

\* An answer that lets go of the bus.
LEMMA DoneTurns ==
    ASSUME Inv, NEW m \in Masters, MasterTurn(m), NEW p, Drive(m, Quiet), Become(m, p), Acked(m),
           UNCHANGED acked, Take(m) \/ (got' = got /\ line[m].we),
           phase[m] \in (Asking \ Paused) \cup {"amo_write"},
           \/ p \in {"free", "dma_have"}
           \/ p = "walk" /\ phase[m] = "wait_walk"
    PROVE  Turned(m)
<1>1. line' = [line EXCEPT ![m] = Quiet] /\ phase' = [phase EXCEPT ![m] = p]
  BY DEF Drive, Become
<1>2. Quiet \in Lines /\ ~Quiet.stb
  BY RaiseIs, WordsAssumption DEF Quiet
<1>3. ret[m].ack /\ line[m].stb /\ Answered(m) /\ ret[m].dat = slv[si].dat /\ ret[m].dat \in Values
  BY AtTurn DEF Acked
<1>4. phase[m] \notin Paused /\ ~acked[m]
  BY AtTurn DEF Fits, Paused, Asking
<1>5. got' = (IF line[m].we THEN got ELSE [got EXCEPT ![m] = slv[si].dat])
  BY <1>3 DEF Take
<1>6. got' \in [Masters -> Values]
  BY <1>3, <1>5, AtTurn
<1>7. p = "walk" => Pos(MasterPart(m)) < Pos(Ic) /\ m \in Cpus
  BY AtTurn DEF Fits, OfCpus
<1>8. Fits(m, p, Quiet, acked[m]) /\ p \in Phases
  BY <1>2, <1>4, <1>7 DEF Fits, Phases, Asking, OfCpus
<1>9. Went(m, p, Quiet, acked[m])
  BY <1>1, <1>2, <1>6, <1>7, <1>8, AtTurn DEF Went
<1>10. Takes(m, Quiet)
  BY <1>1, <1>2, <1>3, <1>4, <1>5, AtTurn DEF Takes, Lowered, Waiting, Paused
<1> QED
  BY <1>9, <1>10 DEF Turned

LEMMA CpuTurns ==
    ASSUME Inv, NEW m \in Cpus,
           CpuStart(m) \/ CpuDone(m) \/ CpuAmoRead(m) \/ CpuAmoGap(m) \/ CpuWalk(m) \/ CpuWalkOn(m)
    PROVE  Turned(m)
<1> m \in Masters /\ m \notin Virtios
  BY PortsAssumption DEF Masters
<1>1. CASE CpuStart(m)
  <2>1. PICK w \in Words :
           \/ \E v \in Values : Raise(m, w, TRUE, v) /\ Become(m, "access")
           \/ Raise(m, w, FALSE, 0)
                /\ \/ Become(m, "access") \/ Become(m, "amo_read")
                   \/ order \in WalkOrders /\ Become(m, "wait_walk")
    BY <1>1 DEF CpuStart
  <2>2. PICK v \in Values, we \in BOOLEAN, p \in {"access", "amo_read", "wait_walk"} :
           /\ Raise(m, w, we, v) /\ Become(m, p)
           /\ p = "wait_walk" => Pos(MasterPart(m)) < Pos(Ic)
    <3>1. ASSUME NEW v \in Values, Raise(m, w, TRUE, v) /\ Become(m, "access")
          PROVE  \E x \in Values, we \in BOOLEAN, p \in {"access", "amo_read", "wait_walk"} :
                   /\ Raise(m, w, we, x) /\ Become(m, p)
                   /\ p = "wait_walk" => Pos(MasterPart(m)) < Pos(Ic)
      BY <3>1
    <3>2. CASE Raise(m, w, FALSE, 0) /\ (Become(m, "access") \/ Become(m, "amo_read"))
      BY <3>2, WordsAssumption
    <3>3. CASE Raise(m, w, FALSE, 0) /\ order \in WalkOrders /\ Become(m, "wait_walk")
      BY <3>3, WordsAssumption DEF Inv, CpusFirst
    <3> QED
      BY <2>1, <3>1, <3>2, <3>3
  <2> QED
    BY <1>1, <2>2, AskTurns DEF CpuStart
<1>2. CASE CpuDone(m)
  BY <1>2, DoneTurns DEF CpuDone, Asking, Paused
<1>3. CASE CpuWalk(m)
  BY <1>3, DoneTurns DEF CpuWalk, Asking, Paused
<1>4. CASE CpuAmoRead(m)
  <2>1. /\ phase' = [phase EXCEPT ![m] = "amo_gap"] /\ UNCHANGED <<line, acked>> /\ MasterTurn(m)
        /\ phase[m] = "amo_read" /\ ret[m].ack
    BY <1>4 DEF CpuAmoRead, Become, Acked
  <2>2. line[m].stb /\ Answered(m) /\ ret[m].dat = slv[si].dat /\ ret[m].dat \in Values
    BY <2>1, AtTurn
  <2>3. got' = (IF line[m].we THEN got ELSE [got EXCEPT ![m] = slv[si].dat])
    BY <1>4, <2>2 DEF CpuAmoRead, Take
  <2>4. got' \in [Masters -> Values]
    BY <2>1, <2>2, <2>3, AtTurn
  <2>5. Fits(m, "amo_gap", line[m], acked[m])
    BY <2>1, AtTurn DEF Fits, Asking
  <2>6. Went(m, "amo_gap", line[m], acked[m])
    BY <2>1, <2>2, <2>4, <2>5, AtTurn DEF Went, Phases
  <2>7. Takes(m, line[m])
    BY <2>1, <2>2, <2>3, AtTurn DEF Takes, Kept, Waiting
  <2> QED
    BY <2>6, <2>7 DEF Turned
<1>5. CASE CpuAmoGap(m)
  <2>1. /\ phase' = [phase EXCEPT ![m] = "amo_write"] /\ UNCHANGED <<line, got, acked>>
        /\ phase[m] = "amo_gap" /\ MasterTurn(m)
    BY <1>5 DEF CpuAmoGap, Become
  <2>2. ~line[m].stb /\ ~acked[m]
    BY <2>1, AtTurn DEF Fallen, Fits
  <2>3. Fits(m, "amo_write", line[m], acked[m])
    BY <2>1, <2>2, AtTurn DEF Fits, Asking
  <2>4. Went(m, "amo_write", line[m], acked[m])
    BY <2>1, <2>2, <2>3, AtTurn DEF Went, Phases, Paused
  <2>5. Idles(m, line[m])
    BY <2>1, <2>2 DEF Idles, Kept, Waiting
  <2> QED
    BY <2>4, <2>5 DEF Turned
<1>6. CASE CpuWalkOn(m)
  <2>1. /\ phase' = [phase EXCEPT ![m] = "wait_walk"] /\ UNCHANGED <<line, got, acked>>
        /\ phase[m] = "walk" /\ MasterTurn(m)
    BY <1>6 DEF CpuWalkOn, Become
  <2>2. line[m].stb /\ ~acked[m]
    BY <2>1, AtTurn DEF Fallen, Fits
  <2>3. Fits(m, "wait_walk", line[m], acked[m])
    BY <2>1, <2>2, AtTurn DEF Fits, Asking
  <2>4. Went(m, "wait_walk", line[m], acked[m])
    BY <2>1, <2>2, <2>3, AtTurn DEF Went, Phases, Paused
  <2>5. Idles(m, line[m])
    BY <2>1, <2>2, AtTurn DEF Idles, Kept, Waiting
  <2> QED
    BY <2>4, <2>5 DEF Turned
<1> QED
  BY <1>1, <1>2, <1>3, <1>4, <1>5, <1>6

LEMMA DmaTurns ==
    ASSUME Inv, NEW m \in Dmas, DmaRead(m) \/ DmaHave(m) \/ DmaWrite(m) \/ DmaDone(m)
    PROVE  Turned(m)
<1> m \in Masters /\ m \notin Virtios /\ m \notin Cpus
  BY PortsAssumption DEF Masters
<1>1. CASE DmaRead(m)
  <2>1. PICK w \in Words : Raise(m, w, FALSE, 0)
    BY <1>1 DEF DmaRead
  <2> QED
    BY <1>1, <2>1, AskTurns, WordsAssumption DEF DmaRead
<1>2. CASE DmaHave(m)
  <2>1. /\ MasterTurn(m) /\ phase[m] \in (Asking \ Paused) \cup {"amo_write"} /\ Acked(m)
        /\ Take(m) /\ Drive(m, Quiet) /\ Become(m, "dma_have") /\ UNCHANGED acked
    BY <1>2 DEF DmaHave, Asking, Paused
  <2> QED
    BY <2>1, DoneTurns
<1>3. CASE DmaWrite(m)
  <2>1. got[m] \in Values
    BY <1>3, AtTurn DEF DmaWrite
  <2> QED
    BY <1>3, <2>1, AskTurns DEF DmaWrite
<1>4. CASE DmaDone(m)
  <2>1. line[m].we
    BY <1>4, AtTurn DEF DmaDone, Fits
  <2> QED
    BY <1>4, <2>1, DoneTurns DEF DmaDone, Asking, Paused
<1> QED
  BY <1>1, <1>2, <1>3, <1>4

LEMMA VirtioTurns ==
    ASSUME Inv, NEW m \in Virtios, VirtioBeat(m) \/ VirtioGap(m)
    PROVE  Turned(m)
<1> m \in Masters /\ m \notin Cpus
  BY PortsAssumption DEF Masters
<1>1. CASE VirtioBeat(m)
  <2>1. MasterTurn(m) /\ phase[m] = "free" /\ ~acked[m] /\ acked' = [acked EXCEPT ![m] = ret[m].ack]
    BY <1>1, AtTurn DEF VirtioBeat, Fits, Acked
  <2>2. CASE ret[m].ack
    <3>1. line[m].stb /\ Answered(m) /\ ret[m].dat = slv[si].dat /\ ret[m].dat \in Values
      BY <2>1, <2>2, AtTurn
    <3>2. /\ line' = line /\ phase' = [phase EXCEPT ![m] = "gap"]
          /\ got' = (IF line[m].we THEN got ELSE [got EXCEPT ![m] = slv[si].dat])
      BY <1>1, <2>1, <2>2, <3>1 DEF VirtioBeat, Acked, Become
    <3>3. got' \in [Masters -> Values]
      BY <2>1, <3>1, <3>2, AtTurn
    <3>4. Fits(m, "gap", line[m], TRUE)
      BY <2>1, <3>1, AtTurn DEF Fits, OfCpus
    <3>5. Went(m, "gap", line[m], TRUE)
      BY <2>1, <2>2, <3>1, <3>2, <3>3, <3>4, AtTurn DEF Went, Phases
    <3>6. Takes(m, line[m])
      BY <2>1, <3>1, <3>2, AtTurn DEF Takes, Kept, Waiting
    <3> QED
      BY <3>5, <3>6 DEF Turned
  <2>3. CASE ~ret[m].ack
    <3>1. UNCHANGED <<phase, got>> /\ acked' = [acked EXCEPT ![m] = FALSE]
      <4>1. ret[m].ack = FALSE
        BY <2>3 DEF Inv, TypeOK
      <4> QED
        BY <1>1, <2>1, <4>1 DEF VirtioBeat, Acked
    <3>2. CASE line[m].stb
      <4>1. line' = line
        BY <1>1, <3>2 DEF VirtioBeat
      <4>2. Fits(m, "free", line[m], FALSE)
        BY <2>1, <3>2, AtTurn DEF Fits
      <4>3. Went(m, "free", line[m], FALSE)
        BY <2>1, <3>1, <3>2, <4>1, <4>2, AtTurn DEF Went, Phases, Paused
      <4>4. Idles(m, line[m])
        BY <3>1, <4>1 DEF Idles, Kept, Waiting
      <4> QED
        BY <4>3, <4>4 DEF Turned
    <3>3. CASE ~line[m].stb
      <4>1. PICK w \in Words, v \in Values, we \in BOOLEAN : Raise(m, w, we, v)
        <5>1. PICK w \in Words : Raise(m, w, FALSE, 0) \/ \E v \in Values : Raise(m, w, TRUE, v)
          BY <1>1, <3>3 DEF VirtioBeat
        <5> QED
          BY <5>1, WordsAssumption
      <4> DEFINE l == [adr |-> w, we |-> we, dat |-> v, stb |-> TRUE, cyc |-> TRUE]
      <4>2. line' = [line EXCEPT ![m] = l]
        BY <4>1 DEF Raise, Drive
      <4>3. l \in Lines /\ l.stb /\ l.cyc
        BY RaiseIs
      <4> HIDE DEF l
      <4>4. grant # m
        BY <2>1, <3>3, AtTurn
      <4>5. Fits(m, "free", l, FALSE)
        BY <2>1, <4>3, AtTurn DEF Fits, Asking, OfCpus
      <4>6. Went(m, "free", l, FALSE)
        BY <2>1, <3>1, <4>2, <4>3, <4>4, <4>5, AtTurn DEF Went, Phases, Paused
      <4>7. Asks(m, l)
        BY <2>1, <3>1, <3>3, <4>3, <4>4 DEF Asks, Raised, Paused
      <4> QED
        BY <4>6, <4>7 DEF Turned
    <3> QED
      BY <3>2, <3>3
  <2> QED
    BY <2>2, <2>3
<1>2. CASE VirtioGap(m)
  <2>1. /\ MasterTurn(m) /\ phase[m] = "gap" /\ got' = got /\ line' = [line EXCEPT ![m] = Quiet]
        /\ phase' = [phase EXCEPT ![m] = "free"] /\ acked' = [acked EXCEPT ![m] = FALSE]
    BY <1>2 DEF VirtioGap, Drive, Become
  <2>2. line[m].stb /\ Answered(m)
    BY <2>1, AtTurn DEF Fits, Asking, Paused
  <2>3. Quiet \in Lines /\ ~Quiet.stb
    BY RaiseIs, WordsAssumption DEF Quiet
  <2>4. Fits(m, "free", Quiet, FALSE)
    BY <2>3 DEF Fits, Asking, OfCpus
  <2>5. Went(m, "free", Quiet, FALSE)
    BY <2>1, <2>3, <2>4, AtTurn DEF Went, Phases, Paused
  <2>6. Idles(m, Quiet)
    BY <2>1, <2>2, <2>3, AtTurn DEF Idles, Lowered, Waiting, Paused
  <2> QED
    BY <2>5, <2>6 DEF Turned
<1> QED
  BY <1>1, <1>2

LEMMA TurnedKeeps == ASSUME Inv, NEW m \in Masters, Turned(m) PROVE Inv'
BY MasterKeeps DEF Turned, Idles, Asks, Takes

-----------------------------------------------------------------------------
(* The other steps. *)

\* The falling tick: a CPU takes stb down between the halves of an AMO, and
\* raises it for the second half, or for the next entry of a walk.
FallenOne(m, l) ==
    /\ at = 0 /\ l \in Lines /\ line' = [line EXCEPT ![m] = l]
    /\ l.stb => l.cyc
    /\ UNCHANGED <<order, at, phase, got, acked, ret, mlast, ic, slave>>
    /\ \/ phase[m] = "amo_gap" /\ ~l.stb
       \/ phase[m] \in {"amo_write", "walk"} /\ l.stb /\ ~line[m].stb /\ grant # m

LEMMA FallIs ==
    ASSUME Inv, NEW m \in Cpus, CpuFall(m)
    PROVE  \E l : FallenOne(m, l)
<1>1. m \in Masters /\ MasterInv(m) /\ line[m] \in Lines
  BY DEF Masters, Inv, TypeOK, Lines
<1>2. at = 0 /\ MustFall(m) /\ UNCHANGED <<order, at, phase, got, acked, ret, mlast, ic, slave>>
  BY DEF CpuFall
<1>3. CASE phase[m] = "amo_gap"
  <2>1. line' = [line EXCEPT ![m] = [line[m] EXCEPT !.stb = FALSE]]
    BY <1>3 DEF CpuFall, Drive
  <2>2. [line[m] EXCEPT !.stb = FALSE] \in Lines /\ ~[line[m] EXCEPT !.stb = FALSE].stb
    BY <1>1 DEF Lines
  <2> QED
    BY <1>2, <1>3, <2>1, <2>2 DEF FallenOne
<1>4. CASE phase[m] \in {"amo_write", "walk"}
  <2>1. PICK w \in Words, we \in BOOLEAN, v \in Values : Raise(m, w, we, v)
    <3>1. line[m].adr \in Words
      BY <1>1 DEF Lines
    <3>2. CASE phase[m] = "amo_write"
      BY <3>1, <3>2 DEF CpuFall
    <3>3. CASE phase[m] = "walk"
      BY <3>3, WordsAssumption DEF CpuFall
    <3> QED
      BY <1>4, <3>2, <3>3
  <2> DEFINE l == [adr |-> w, we |-> we, dat |-> v, stb |-> TRUE, cyc |-> TRUE]
  <2>2. line' = [line EXCEPT ![m] = l]
    BY <2>1 DEF Raise, Drive
  <2>3. l \in Lines /\ l.stb /\ l.cyc
    BY RaiseIs
  <2> HIDE DEF l
  <2>4. ~line[m].stb
    BY <1>2, <1>4 DEF MustFall
  <2>5. grant # m
    <3>1. Ordered
      BY DEF Inv, TypeOK, Ordered
    <3>2. Pos(MasterPart(m)) \in 1..Len(order) /\ Pos(Ic) \in 1..Len(order) /\ Len(order) \in Nat
      BY <1>1, <3>1, PartsDiffer, Places, OrdersAssumption DEF Ordered
    <3> QED
      BY <1>1, <1>2, <1>4, <2>4, <3>2 DEF MasterInv, GrantLapses, Since
  <2> QED
    BY <1>2, <1>4, <2>2, <2>3, <2>4, <2>5 DEF FallenOne
<1> QED
  BY <1>2, <1>3, <1>4 DEF MustFall

LEMMA FallKeeps ==
    ASSUME Inv, NEW m \in Cpus, NEW l, FallenOne(m, l)
    PROVE  Inv'
<1>1. /\ at = 0 /\ l \in Lines /\ line' = [line EXCEPT ![m] = l] /\ m \in Masters
      /\ UNCHANGED <<order, at, phase, got, acked, ret, mlast, grant, last, next, gap, si, wsi, sline>>
      /\ UNCHANGED <<out, slv, mem>>
  BY DEF FallenOne, ic, slave, Masters
<1>2. TypeOK'
  BY <1>1 DEF Inv, TypeOK, Lines
<1>3. line'[m] = l /\ \A n \in Masters \ {m} : line'[n] = line[n]
  BY <1>1 DEF Inv, TypeOK
<1>4. /\ \A p : Pos(p)' = Pos(p) /\ Upcoming(p)' = FALSE /\ (Ahead(p)' <=> Ahead(p)) /\ Ahead(p)
      /\ \A p, q : Since(p, q)' <=> Since(p, q)
  BY <1>1 DEF Pos, Upcoming, Ahead, Since
<1>5. CpusFirst'
  BY <1>1, <1>4 DEF Inv, CpusFirst
<1>6. ASSUME NEW n \in Masters PROVE MasterInv(n)'
  <2>1. MasterInv(n)
    BY DEF Inv
  <2>2. LineOfPhase(n)'
    <3>1. CASE n = m
      BY <3>1, <2>1, <1>1, <1>3, <1>4
      DEF MasterInv, LineOfPhase, Fits, FallenOne, Asking
    <3>2. CASE n # m
      BY <3>2, <2>1, <1>1, <1>3, <1>4 DEF MasterInv, LineOfPhase, Fits
    <3> QED
      BY <3>1, <3>2
  <2>3. GrantLapses(n)'
    <3>1. CASE n = m
      BY <3>1, <1>1, <1>3, <1>4 DEF GrantLapses, FallenOne
    <3>2. CASE n # m
      BY <3>2, <2>1, <1>1, <1>3, <1>4 DEF MasterInv, GrantLapses
    <3> QED
      BY <3>1, <3>2
  <2>4. AckIsOwn(n)'
    BY <2>1, <1>1, <1>4 DEF MasterInv, AckIsOwn
  <2>5. PausedIsAnswered(n)'
    BY <2>1, <1>1, <1>3 DEF MasterInv, PausedIsAnswered, Answered, Holding, FallenOne, Paused
  <2> QED
    BY <2>2, <2>3, <2>4, <2>5 DEF MasterInv
<1>7. OneDriven'
  BY <1>1 DEF Inv, OneDriven
<1>8. grant \in Masters \/ grant = NoMaster
  BY DEF Inv, TypeOK
<1>9. Matches'
  BY <1>1, <1>3, <1>8 DEF Inv, Matches, FallenOne
<1>10. BeginsForSomeone'
  BY <1>1, <1>3, <1>8, MastersAre DEF Inv, BeginsForSomeone, Waiting, FallenOne
<1>11. \A s \in Slaves : SlaveInv(s)'
  BY <1>1, <1>4 DEF Inv, SlaveInv
<1> QED
  BY <1>2, <1>5, <1>6, <1>7, <1>9, <1>10, <1>11 DEF Inv

\* The combinational phase: the holder gets what its slave answers, and the
\* holder before it gets nothing.
LEMMA CombKeeps == ASSUME Inv, Comb PROVE Inv'
<1> DEFINE answers == grant # NoMaster /\ ~gap /\ line[grant].stb
<1>1. /\ at = 0 /\ at' = 1 /\ \A m \in Cpus : ~MustFall(m)
      /\ ret' = [m \in Masters |-> IF answers /\ m = grant THEN out[si]
                                   ELSE IF m = mlast THEN NoReply ELSE ret[m]]
      /\ mlast' = IF answers THEN grant ELSE NoMaster
      /\ UNCHANGED <<order, phase, line, got, acked, grant, last, next, gap, si, wsi, sline>>
      /\ UNCHANGED <<out, slv, mem>>
  BY DEF Comb, master, ic, slave
<1> HIDE DEF answers
<1>2. answers => grant \in Masters
  BY DEF answers, Inv, TypeOK
<1>3. Ordered
  BY DEF Inv, TypeOK, Ordered
<1>4. NoReply \in [ack : BOOLEAN, dat : Values] /\ out[si] \in [ack : BOOLEAN, dat : Values]
  BY WordsAssumption DEF NoReply, Inv, TypeOK
<1>5. TypeOK'
  <2>1. ret' \in [Masters -> [ack : BOOLEAN, dat : Values]]
    BY <1>1, <1>4 DEF Inv, TypeOK
  <2>2. mlast' \in Masters \cup {NoMaster}
    BY <1>1, <1>2
  <2>3. at' \in 0..Len(order)'
    BY <1>1, <1>3, PartsDiffer, CombAhead DEF Ordered
  <2> QED
    BY <1>1, <2>1, <2>2, <2>3 DEF Inv, TypeOK
<1>6. \A p \in Parts : /\ Pos(p)' = Pos(p) /\ Ahead(p)'
                       /\ p # Ic => (Since(p, Ic)' <=> Since(p, Ic))
  BY <1>1, <1>3, PartsDiffer, CombAhead, CombSince
<1>7. CpusFirst'
  BY <1>1, <1>6, PartsDiffer DEF Inv, CpusFirst, Masters
<1>8. ASSUME NEW m \in Masters PROVE MasterInv(m)'
  <2>1. MasterInv(m) /\ phase[m] \in Phases
    BY DEF Inv, TypeOK, Phases
  <2>2. LineOfPhase(m)'
    <3>1. Fits(m, phase[m], line[m], acked[m])'
      BY <2>1, <1>1, <1>6, PartsDiffer DEF MasterInv, LineOfPhase, Fits
    <3>2. Fallen(m)
      BY <2>1, <1>1 DEF MasterInv, LineOfPhase, Fits, OfCpus, MustFall, Fallen
    <3> QED
      BY <3>1, <3>2, <1>1 DEF LineOfPhase, Fallen
  <2>3. GrantLapses(m)'
    BY <2>1, <1>1, <1>6, PartsDiffer DEF MasterInv, GrantLapses
  <2>4. AckIsOwn(m)'
    <3>1. CASE answers /\ m = grant
      <4>1. ret'[m] = out[si] /\ mlast' = m
        BY <1>1, <3>1
      <4>2. out[si] = (IF slv[si].prev THEN [ack |-> TRUE, dat |-> slv[si].dat] ELSE NoReply)
        BY DEF Inv, SlaveInv, TypeOK
      <4> QED
        BY <3>1, <4>1, <4>2, <1>1 DEF answers, AckIsOwn, Answered, Holding, NoReply
    <3>2. CASE ~(answers /\ m = grant)
      <4>1. ret'[m] = (IF m = mlast THEN NoReply ELSE ret[m])
        BY <1>1, <3>2
      <4>2. ~ret'[m].ack
        BY <2>1, <4>1 DEF MasterInv, AckIsOwn, NoReply
      <4> QED
        BY <4>2 DEF AckIsOwn
    <3> QED
      BY <3>1, <3>2
  <2>5. PausedIsAnswered(m)'
    BY <2>1, <1>1 DEF MasterInv, PausedIsAnswered, Answered, Holding
  <2> QED
    BY <2>2, <2>3, <2>4, <2>5 DEF MasterInv
<1>9. OneDriven' /\ Matches' /\ BeginsForSomeone'
  BY <1>1 DEF Inv, OneDriven, Matches, BeginsForSomeone, Waiting
<1>10. \A s \in Slaves : SlaveInv(s)'
  BY <1>1, <1>6, PartsDiffer DEF Inv, SlaveInv
<1> QED
  BY <1>5, <1>7, <1>8, <1>9, <1>10 DEF Inv

LEMMA NatMin ==
    ASSUME NEW T \in SUBSET Nat, T # {}
    PROVE  \E x \in T : \A y \in T : x <= y
<1>1. PICK x \in T : \A y \in T : ~(<<y, x>> \in OpToRel(<, Nat))
  BY WFMin, NatLessThanWellFounded
<1>2. \A y \in T : ~(y < x)
  BY <1>1 DEF OpToRel
<1> QED
  BY <1>2

\* The scan finds one of the ports that request.
LEMMA ScanFinds ==
    ASSUME NEW R, R \subseteq Masters, R # {}, next \in Masters
    PROVE  Scan(R) \in R
<1> DEFINE d(m) == (m - next) % MasterCount
           D == {d(m) : m \in R}
<1>1. \A m \in R : d(m) \in Nat
  BY MastersAre
<1>2. D \in SUBSET Nat /\ D # {}
  BY <1>1
<1>3. PICK x \in D : \A y \in D : x <= y
  <2> HIDE DEF D, d
  <2> QED
    BY <1>2, NatMin
<1>4. PICK m \in R : \A j \in R : (m - next) % MasterCount <= (j - next) % MasterCount
  BY <1>3
<1> QED
  BY <1>4 DEF Scan

\* What the interconnect has done, when it does anything: the holder g it has
\* found, and the slave s of the request g makes.
Passes(g, s) ==
    /\ IF grant \in Requesting THEN g = grant
       ELSE g = NoMaster \/ g \in Requesting
    /\ g # NoMaster => g \in Requesting /\ s = SlaveOf[line[g].adr]
    /\ grant' = g /\ si' = s
    /\ gap' = (g # NoMaster /\ g # grant /\ last # NoMaster /\ last # g)
    /\ last' = (IF g # NoMaster /\ g # grant THEN g ELSE last)
    /\ sline' = [k \in Slaves |->
         IF g # NoMaster /\ k = s
           THEN [adr |-> line[g].adr, we |-> line[g].we, dat |-> line[g].dat, stb |-> ~gap']
         ELSE IF k = wsi THEN Off ELSE sline[k]]
    /\ wsi' = IF g = NoMaster THEN NoSlave ELSE s

LEMMA InterconnectIs ==
    ASSUME Inv, Interconnect
    PROVE  /\ Turn(Ic) /\ UNCHANGED <<phase, line, got, acked, ret, mlast, out, slv, mem>>
           /\ \/ grant = NoMaster /\ UNCHANGED ic
              \/ /\ \E g \in Masters \cup {NoMaster}, s \in Slaves : Passes(g, s)
                 /\ next' \in Masters
<1>1. Turn(Ic) /\ UNCHANGED <<phase, line, got, acked, ret, mlast, out, slv, mem>>
  BY DEF Interconnect, Ic, master, slave
<1>2. ASSUME ~(grant = NoMaster /\ Requesting = {})
      PROVE  /\ \E g \in Masters \cup {NoMaster}, s \in Slaves : Passes(g, s)
             /\ next' \in Masters
  <2> DEFINE g == IF grant \in Requesting THEN grant
                  ELSE IF Requesting = {} THEN NoMaster ELSE Scan(Requesting)
             new == g # NoMaster /\ g # grant
             hand == new /\ Handover(g)
             s == IF g = NoMaster THEN SlaveOf[0] ELSE SlaveOf[line[g].adr]
  <2>1. /\ grant' = g /\ gap' = hand /\ si' = s
        /\ last' = IF new THEN g ELSE last
        /\ next' = IF new THEN NextPort(g) ELSE next
        /\ sline' = [k \in Slaves |->
             IF g # NoMaster /\ k = s
               THEN [adr |-> line[g].adr, we |-> line[g].we,
                     dat |-> line[g].dat, stb |-> ~hand]
             ELSE IF LeftBehind(k) THEN Off ELSE sline[k]]
        /\ wsi' = IF g = NoMaster THEN NoSlave ELSE s
    BY <1>2 DEF Interconnect
  <2>2. Requesting \subseteq Masters /\ next \in Masters
    BY DEF Requesting, Inv, TypeOK
  <2>3. /\ IF grant \in Requesting THEN g = grant ELSE g = NoMaster \/ g \in Requesting
        /\ g # NoMaster => g \in Requesting
    BY <2>2, ScanFinds
  <2> HIDE DEF g
  <2>4. g \in Masters \cup {NoMaster}
    BY <2>2, <2>3
  <2>5. s \in Slaves
    BY <2>4, WordsAssumption DEF Inv, TypeOK
  <2>6. next' \in Masters
    BY <2>1, <2>2, <2>4, MastersAre DEF NextPort
  <2>7. g # NoMaster => s = SlaveOf[line[g].adr]
    OBVIOUS
  <2> HIDE DEF s
  <2>8. Passes(g, s)
    BY <2>1, <2>3, <2>7 DEF Passes, Handover, LeftBehind
  <2> QED
    BY <2>4, <2>5, <2>6, <2>8
<1> QED
  BY <1>1, <1>2 DEF Interconnect

\* A master whose slave has its request stays the holder; and only of a
\* holder that stays can the slave shown the request have begun before.
LEMMA PassedOn ==
    ASSUME Inv, Turn(Ic), NEW g \in Masters \cup {NoMaster}, NEW s \in Slaves, Passes(g, s)
    PROVE  /\ \A m \in Masters : line[m].stb /\ Answered(m) =>
                g = m /\ s = si /\ ~gap' /\ m # NoMaster
           /\ g # NoMaster /\ ~gap' /\ slv[s].prev =>
                grant = g /\ si = s /\ ~gap /\ sline[s].we = line[g].we
<1>1. Ordered
  BY DEF Inv, TypeOK, Ordered
<1>2. \A k \in Slaves : slv[k].prev = sline[k].stb
  <2>1. \A p \in Parts : p # Ic => Since(p, Ic)
    BY <1>1, PartsDiffer, TurnSince
  <2> QED
    BY <2>1, PartsDiffer DEF Inv, SlaveInv
<1>3. g # NoMaster => g \in Masters /\ line[g].stb
  BY DEF Passes, Requesting
<1>4. ASSUME NEW m \in Masters, line[m].stb, Answered(m)
      PROVE  g = m /\ s = si /\ ~gap' /\ m # NoMaster
  <2>1. grant = m /\ m \in Requesting /\ m # NoMaster
    BY <1>4, MastersAre DEF Answered, Holding, Requesting, Inv, MasterInv, LineOfPhase, Fits
  <2>2. si = SlaveOf[line[m].adr]
    BY <1>4, <2>1 DEF Inv, Matches
  <2> QED
    BY <2>1, <2>2 DEF Passes
<1>5. ASSUME g # NoMaster, ~gap', slv[s].prev
      PROVE  grant = g /\ si = s /\ ~gap /\ sline[s].we = line[g].we
  <2>1. s = si /\ grant # NoMaster /\ ~gap
    BY <1>2, <1>5 DEF Inv, OneDriven
  <2>2. grant = g
    BY <2>1, <1>5 DEF Inv, OneDriven, Passes
  <2>3. sline[s].we = line[g].we
    BY <2>1, <2>2, <1>3, <1>5 DEF Inv, Matches
  <2> QED
    BY <2>1, <2>2, <2>3
<1> QED
  BY <1>4, <1>5

\* The holder is kept as long as it holds stb up, and a new one is shown to a
\* slave that has seen stb low.
LEMMA PassesKeeps ==
    ASSUME Inv, Turn(Ic), UNCHANGED <<phase, line, got, acked, ret, mlast, out, slv, mem>>,
           NEW g \in Masters \cup {NoMaster}, NEW s \in Slaves, Passes(g, s), next' \in Masters
    PROVE  Inv'
<1>1. Ordered /\ Ordered' /\ order' = order
  BY PartsDiffer, TurnIs DEF Inv, TypeOK, Ordered
<1>2. /\ grant' = g /\ si' = s /\ gap' \in BOOLEAN
      /\ last' = (IF g # NoMaster /\ g # grant THEN g ELSE last)
      /\ wsi' = IF g = NoMaster THEN NoSlave ELSE s
  BY DEF Passes
<1>3. /\ \A k \in Slaves \ {s} : sline'[k] = IF k = wsi THEN Off ELSE sline[k]
      /\ g = NoMaster => \A k \in Slaves : sline'[k] = IF k = wsi THEN Off ELSE sline[k]
  BY DEF Passes
<1> DEFINE shown == ~gap'
<1>4. shown \in BOOLEAN /\ (shown <=> ~gap')
  OBVIOUS
<1>5. g # NoMaster => sline'[s] = [adr |-> line[g].adr, we |-> line[g].we,
                                    dat |-> line[g].dat, stb |-> shown]
  BY DEF Passes
<1> HIDE DEF shown
<1>6. g # NoMaster =>
         /\ sline'[s].adr = line[g].adr /\ sline'[s].we = line[g].we
         /\ sline'[s].dat = line[g].dat /\ (sline'[s].stb <=> ~gap')
  BY <1>4, <1>5
<1>7. Off \in [adr : Words, we : BOOLEAN, dat : Values, stb : BOOLEAN] /\ ~Off.stb
  BY WordsAssumption DEF Off
<1>8. TypeOK'
  <2>1. sline' \in [Slaves -> [adr : Words, we : BOOLEAN, dat : Values, stb : BOOLEAN]]
    <3>1. \A k \in Slaves : sline'[k] \in [adr : Words, we : BOOLEAN, dat : Values, stb : BOOLEAN]
      <4> SUFFICES ASSUME NEW k \in Slaves
                   PROVE  sline'[k] \in [adr : Words, we : BOOLEAN, dat : Values, stb : BOOLEAN]
        OBVIOUS
      <4>1. Off \in [adr : Words, we : BOOLEAN, dat : Values, stb : BOOLEAN]
        BY <1>7
      <4>2. sline[k] \in [adr : Words, we : BOOLEAN, dat : Values, stb : BOOLEAN]
        BY DEF Inv, TypeOK
      <4>3. CASE g # NoMaster /\ k = s
        <5>1. line[g] \in Lines
          BY <4>3 DEF Inv, TypeOK, Lines
        <5> QED
          BY <4>3, <5>1, <1>4, <1>5 DEF Lines
      <4>4. CASE ~(g # NoMaster /\ k = s)
        BY <4>1, <4>2, <4>4, <1>3
      <4> QED
        BY <4>3, <4>4
    <3> QED
      BY <3>1 DEF Passes
  <2> QED
    BY <1>1, <1>2, <2>1 DEF Inv, TypeOK, Ordered
<1>9. /\ \A p \in Parts : /\ Pos(p)' = Pos(p) /\ (Upcoming(p)' => Upcoming(p))
                          /\ p # Ic => Since(p, Ic)
  BY <1>1, PartsDiffer, TurnAhead, TurnSince
<1>10. CpusFirst'
  BY <1>1, <1>9, PartsDiffer DEF Inv, CpusFirst, Masters
<1>11. g # NoMaster => g \in Masters /\ line[g].stb
  BY DEF Passes, Requesting
<1>12. ASSUME NEW m \in Masters, line[m].stb, Answered(m)
      PROVE  g = m /\ s = si /\ ~gap' /\ m # NoMaster
  BY <1>12, PassedOn
<1>13. ASSUME NEW m \in Masters PROVE MasterInv(m)'
  <2>1. MasterInv(m)
    BY DEF Inv
  <2>2. LineOfPhase(m)'
    BY <2>1, <1>9, PartsDiffer DEF MasterInv, LineOfPhase, Fits, Fallen
  <2>3. GrantLapses(m)'
    BY <1>2, <1>11, MastersAre DEF GrantLapses
  <2>4. AckIsOwn(m)'
    BY <2>1, <1>2, <1>9, <1>12, PartsDiffer DEF MasterInv, AckIsOwn, Answered, Holding
  <2>5. PausedIsAnswered(m)'
    BY <2>1, <1>2, <1>12 DEF MasterInv, PausedIsAnswered, Answered, Holding
  <2> QED
    BY <2>2, <2>3, <2>4, <2>5 DEF MasterInv
<1>14. OneDriven'
  <2>1. grant' # NoMaster => last' = grant'
    BY <1>2 DEF Inv, OneDriven
  <2>2. \A k \in Slaves : sline'[k].stb <=> k = si' /\ grant' # NoMaster /\ ~gap'
    <3> SUFFICES ASSUME NEW k \in Slaves
                 PROVE  sline'[k].stb <=> k = s /\ g # NoMaster /\ ~gap'
      BY <1>2
    <3>1. CASE g # NoMaster /\ k = s
      BY <3>1, <1>6
    <3>2. CASE ~(g # NoMaster /\ k = s)
      <4>1. sline'[k] = IF k = wsi THEN Off ELSE sline[k]
        BY <3>2, <1>3
      <4>2. ~sline'[k].stb
        BY <4>1, <1>7, MastersAre DEF Inv, OneDriven
      <4> QED
        BY <3>2, <4>2
    <3> QED
      BY <3>1, <3>2
  <2> QED
    BY <1>2, <2>1, <2>2 DEF OneDriven
<1>15. Matches'
  BY <1>2, <1>11, <1>6 DEF Matches, Passes
<1>16. \A k \in Slaves : slv[k].prev = sline[k].stb
  BY <1>9, PartsDiffer DEF Inv, SlaveInv
<1>17. ASSUME g # NoMaster, ~gap', slv[s].prev
       PROVE  grant = g /\ si = s /\ ~gap /\ sline'[s].we = sline[s].we
  BY <1>17, <1>6, PassedOn
<1>18. BeginsForSomeone'
  <2> SUFFICES ASSUME g # NoMaster, ~gap', ~slv[s].prev PROVE Waiting(g)'
    BY <1>2 DEF BeginsForSomeone
  <2>1. line[g].stb /\ g \in Masters
    BY <1>11
  <2>2. phase[g] \notin Paused
    BY <2>1, <1>12 DEF Inv, MasterInv, PausedIsAnswered, Answered
  <2> QED
    BY <2>1, <2>2 DEF Waiting, Paused
<1>19. ASSUME NEW k \in Slaves PROVE SlaveInv(k)'
  <2>1. SlaveInv(k) /\ SlavePart(k) \in Parts /\ SlavePart(k) # Ic
    BY PartsDiffer DEF Inv
  <2>2. ~Since(SlavePart(k), Ic)'
    BY <2>1, <1>1, PartsDiffer, TurnSince
  <2>3. ASSUME slv[k].prev, sline'[k].stb PROVE slv[k].prevWe = sline'[k].we
    <3>1. k = s /\ g # NoMaster /\ ~gap'
      BY <2>3, <1>14, <1>2 DEF OneDriven
    <3>2. sline'[k].we = sline[k].we /\ sline[k].stb
      BY <2>3, <3>1, <1>16, <1>17
    <3> QED
      BY <2>1, <2>3, <3>2 DEF SlaveInv
  <2> QED
    BY <2>1, <2>2, <2>3 DEF SlaveInv
<1> QED
  BY <1>8, <1>10, <1>13, <1>14, <1>15, <1>18, <1>19 DEF Inv

\* Nobody requests, and nobody did: only time passes.
LEMMA IdleKeeps ==
    ASSUME Inv, Turn(Ic), UNCHANGED <<phase, line, got, acked, ret, mlast, out, slv, mem>>,
           grant = NoMaster, UNCHANGED ic
    PROVE  Inv'
<1>1. UNCHANGED <<grant, last, next, gap, si, wsi, sline>>
  BY DEF ic
<1>2. Ordered /\ Ordered' /\ order' = order
  BY PartsDiffer, TurnIs DEF Inv, TypeOK, Ordered
<1>3. TypeOK'
  BY <1>1, <1>2 DEF Inv, TypeOK, Ordered
<1>4. /\ \A p \in Parts : /\ Pos(p)' = Pos(p) /\ (Upcoming(p)' => Upcoming(p))
                          /\ p # Ic => ~Since(p, Ic)'
  BY <1>2, PartsDiffer, TurnAhead, TurnSince
<1>5. CpusFirst'
  BY <1>2, <1>4, PartsDiffer DEF Inv, CpusFirst, Masters
<1>6. ASSUME NEW m \in Masters PROVE MasterInv(m)'
  <2>1. MasterInv(m) /\ m # NoMaster
    BY MastersAre DEF Inv
  <2>2. LineOfPhase(m)'
    BY <2>1, <1>4, PartsDiffer DEF MasterInv, LineOfPhase, Fits, Fallen
  <2>3. GrantLapses(m)' /\ PausedIsAnswered(m)'
    BY <2>1, <1>1 DEF MasterInv, GrantLapses, PausedIsAnswered, Answered, Holding
  <2>4. AckIsOwn(m)'
    BY <2>1, <1>1, <1>4, PartsDiffer DEF MasterInv, AckIsOwn, Answered, Holding
  <2> QED
    BY <2>2, <2>3, <2>4 DEF MasterInv
<1>7. OneDriven' /\ Matches' /\ BeginsForSomeone'
  BY <1>1 DEF Inv, OneDriven, Matches, BeginsForSomeone
<1>8. \A s \in Slaves : SlaveInv(s)'
  BY <1>1, <1>4, PartsDiffer DEF Inv, SlaveInv
<1> QED
  BY <1>3, <1>5, <1>6, <1>7, <1>8 DEF Inv

LEMMA InterconnectKeeps == ASSUME Inv, Interconnect PROVE Inv'
BY InterconnectIs, PassesKeeps, IdleKeeps

\* What a slave does with the request on its wires: nothing without stb, the
\* request when stb has come up, and after that only keep the answer up.
SlaveStates == [prev : BOOLEAN, prevWe : BOOLEAN, pending : BOOLEAN, adr : Words, dat : Values]
Serves(s, r) ==
    /\ slv' = [slv EXCEPT ![s] = r]
    /\ out' = [out EXCEPT ![s] = IF r.prev THEN [ack |-> TRUE, dat |-> r.dat] ELSE NoReply]
    /\ r.prev = sline[s].stb /\ r.pending = r.prev
    /\ sline[s].stb => r.prevWe = sline[s].we
    /\ IF sline[s].stb /\ ~slv[s].prev
       THEN /\ r.dat = (IF sline[s].we THEN 0 ELSE mem[sline[s].adr])
            /\ mem' = IF sline[s].we THEN [mem EXCEPT ![sline[s].adr] = sline[s].dat] ELSE mem
       ELSE r.dat = slv[s].dat /\ mem' = mem

LEMMA MemoryIs ==
    ASSUME Inv, NEW s \in Slaves, Memory(s)
    PROVE  /\ Turn(SlavePart(s)) /\ UNCHANGED <<phase, line, got, acked, ret, mlast>>
           /\ UNCHANGED <<grant, last, next, gap, si, wsi, sline>>
           /\ \E r \in SlaveStates : Serves(s, r)
<1> DEFINE in == sline[s]
           old == slv[s]
           rise == in.stb /\ ~old.prev
           weRise == in.stb /\ in.we /\ ~old.prevWe
           adr == IF rise THEN in.adr ELSE old.adr
           dat == IF rise THEN (IF in.we THEN 0 ELSE mem[in.adr]) ELSE old.dat
           answers == in.stb /\ (rise \/ old.pending)
           r == [prev |-> in.stb, prevWe |-> in.stb /\ in.we, pending |-> answers,
                 adr |-> adr, dat |-> dat]
<1>1. /\ Turn(SlavePart(s)) /\ UNCHANGED <<phase, line, got, acked, ret, mlast>>
      /\ UNCHANGED <<grant, last, next, gap, si, wsi, sline>>
  BY DEF Memory, SlavePart, master, ic
<1>2. /\ slv' = [slv EXCEPT ![s] = r]
      /\ mem' = IF in.we /\ (rise \/ weRise) THEN [mem EXCEPT ![adr] = in.dat] ELSE mem
      /\ out' = [out EXCEPT ![s] = IF answers THEN [ack |-> TRUE, dat |-> dat] ELSE NoReply]
  BY DEF Memory
<1>3. /\ in.stb \in BOOLEAN /\ in.we \in BOOLEAN /\ in.adr \in Words /\ in.dat \in Values
      /\ old.prev \in BOOLEAN /\ old.prevWe \in BOOLEAN /\ old.pending \in BOOLEAN
      /\ old.adr \in Words /\ old.dat \in Values /\ mem[in.adr] \in Values /\ 0 \in Values
  BY WordsAssumption DEF Inv, TypeOK
<1>4. old.pending = old.prev /\ (old.prev /\ in.stb => old.prevWe = in.we)
  BY DEF Inv, SlaveInv
<1>5. answers <=> in.stb
  BY <1>3, <1>4
<1>6. (in.stb /\ in.we) \in BOOLEAN /\ answers \in BOOLEAN /\ adr \in Words /\ dat \in Values
  BY <1>3
<1>7. in.we /\ (rise \/ weRise) <=> in.we /\ rise
  BY <1>3, <1>4
<1>8. rise => adr = in.adr
  OBVIOUS
<1>9. dat = (IF rise THEN (IF in.we THEN 0 ELSE mem[in.adr]) ELSE old.dat)
  OBVIOUS
<1>10. /\ mem' = IF in.we /\ rise THEN [mem EXCEPT ![in.adr] = in.dat] ELSE mem
       /\ out' = [out EXCEPT ![s] = IF in.stb THEN [ack |-> TRUE, dat |-> dat] ELSE NoReply]
  BY <1>2, <1>5, <1>7, <1>8
<1> DEFINE b == in.stb /\ in.we
<1>11. r = [prev |-> in.stb, prevWe |-> b, pending |-> answers, adr |-> adr, dat |-> dat]
  OBVIOUS
<1>12. b \in BOOLEAN /\ (in.stb => b = in.we)
  BY <1>3
<1>13. answers = in.stb
  BY <1>3, <1>5, <1>6
<1> HIDE DEF answers, adr, dat, b, r
<1>14. r \in SlaveStates /\ r.prev = in.stb /\ r.pending = in.stb /\ r.prevWe = b /\ r.dat = dat
  BY <1>3, <1>6, <1>11, <1>12, <1>13 DEF SlaveStates
<1>15. Serves(s, r)
  BY <1>2, <1>9, <1>10, <1>12, <1>14 DEF Serves
<1> QED
  BY <1>1, <1>14, <1>15

LEMMA MemoryKeeps == ASSUME Inv, NEW s \in Slaves, Memory(s) PROVE Inv'
<1>1. /\ Turn(SlavePart(s)) /\ UNCHANGED <<phase, line, got, acked, ret, mlast>>
      /\ UNCHANGED <<grant, last, next, gap, si, wsi, sline>>
  BY MemoryIs
<1>2. PICK r \in SlaveStates : Serves(s, r)
  BY MemoryIs
<1>3. Ordered /\ Ordered' /\ order' = order
  BY <1>1, PartsDiffer, TurnIs DEF Inv, TypeOK, Ordered
<1>4. slv'[s] = r /\ \A k \in Slaves \ {s} : slv'[k] = slv[k] /\ out'[k] = out[k]
  BY <1>2 DEF Serves, Inv, TypeOK
<1>5. out'[s] = (IF r.prev THEN [ack |-> TRUE, dat |-> r.dat] ELSE NoReply)
  BY <1>2 DEF Serves, Inv, TypeOK
<1>6. TypeOK'
  <2>1. slv' \in [Slaves -> SlaveStates]
    BY <1>2 DEF Serves, Inv, TypeOK, SlaveStates
  <2>2. out' \in [Slaves -> [ack : BOOLEAN, dat : Values]]
    <3>1. r.dat \in Values /\ NoReply \in [ack : BOOLEAN, dat : Values]
      BY WordsAssumption DEF NoReply, SlaveStates
    <3> QED
      BY <1>2, <3>1 DEF Serves, Inv, TypeOK
  <2>3. mem' \in [Words -> Values]
    BY <1>2 DEF Serves, Inv, TypeOK
  <2> QED
    BY <1>1, <1>3, <2>1, <2>2, <2>3 DEF Inv, TypeOK, Ordered, SlaveStates
<1>7. /\ \A p \in Parts : /\ Pos(p)' = Pos(p) /\ (Upcoming(p)' => Upcoming(p))
                          /\ p \notin {SlavePart(s), Ic} => (Since(p, Ic)' <=> Since(p, Ic))
      /\ Ahead(Ic) => Ahead(Ic)'
  BY <1>1, <1>3, PartsDiffer, TurnAhead, TurnSince
<1>8. CpusFirst'
  BY <1>3, <1>7, PartsDiffer DEF Inv, CpusFirst, Masters
<1>9. ASSUME NEW m \in Masters, Answered(m)
      PROVE  Answered(m)' /\ slv'[si].dat = slv[si].dat
  <2>1. sline[si].stb /\ m # NoMaster /\ si \in Slaves
    BY <1>9, MastersAre DEF Answered, Holding, Inv, OneDriven, TypeOK
  <2>2. slv[si].prev
    BY <1>9 DEF Answered
  <2>3. CASE si = s
    BY <2>1, <2>2, <2>3, <1>1, <1>2, <1>4, <1>9 DEF Serves, Answered, Holding
  <2>4. CASE si # s
    BY <2>1, <2>4, <1>1, <1>4, <1>9 DEF Answered, Holding
  <2> QED
    BY <2>3, <2>4
<1>10. ASSUME NEW m \in Masters PROVE MasterInv(m)'
  <2>1. MasterInv(m) /\ MasterPart(m) \in Parts \ {SlavePart(s), Ic}
    BY PartsDiffer DEF Inv
  <2>2. LineOfPhase(m)'
    BY <2>1, <1>1, <1>7, PartsDiffer DEF MasterInv, LineOfPhase, Fits, Fallen
  <2>3. GrantLapses(m)'
    BY <2>1, <1>1, <1>7, PartsDiffer DEF MasterInv, GrantLapses
  <2>4. AckIsOwn(m)'
    BY <2>1, <1>1, <1>7, <1>9, PartsDiffer DEF MasterInv, AckIsOwn
  <2>5. PausedIsAnswered(m)'
    BY <2>1, <1>1, <1>9 DEF MasterInv, PausedIsAnswered
  <2> QED
    BY <2>2, <2>3, <2>4, <2>5 DEF MasterInv
<1>11. OneDriven' /\ Matches'
  BY <1>1 DEF Inv, OneDriven, Matches
<1>12. BeginsForSomeone'
  <2> SUFFICES ASSUME grant # NoMaster, ~gap, ~slv'[si].prev PROVE Waiting(grant)
    BY <1>1 DEF BeginsForSomeone, Waiting
  <2>1. sline[si].stb /\ si \in Slaves
    BY DEF Inv, OneDriven, TypeOK
  <2>2. si # s
    BY <2>1, <1>2, <1>4 DEF Serves
  <2> QED
    BY <2>1, <2>2, <1>4 DEF Inv, BeginsForSomeone
<1>13. ASSUME NEW k \in Slaves PROVE SlaveInv(k)'
  <2>1. CASE k = s
    BY <2>1, <1>1, <1>2, <1>4, <1>5 DEF SlaveInv, Serves
  <2>2. CASE k # s
    BY <2>2, <1>1, <1>4, <1>7, PartsDiffer DEF Inv, SlaveInv
  <2> QED
    BY <2>1, <2>2
<1> QED
  BY <1>6, <1>8, <1>10, <1>11, <1>12, <1>13 DEF Inv

-----------------------------------------------------------------------------
\* At the start nothing is on the wires.
LEMMA InitInv == Init /\ CpusFirst => Inv
<1> SUFFICES ASSUME Init, CpusFirst PROVE Inv
  OBVIOUS
<1>1. Len(order) \in Nat
  BY OrdersAssumption DEF Init
<1>2. /\ Quiet \in Lines /\ NoReply \in [ack : BOOLEAN, dat : Values]
      /\ Off \in [adr : Words, we : BOOLEAN, dat : Values, stb : BOOLEAN] /\ 0 \in Values
      /\ 0 \in Words /\ 0 \in Slaves
  BY WordsAssumption, PortsAssumption DEF Quiet, NoReply, Off, Lines
<1>3. TypeOK
  <2> DEFINE r == [prev |-> FALSE, prevWe |-> FALSE, pending |-> FALSE, adr |-> 0, dat |-> 0]
  <2>1. r \in SlaveStates
    BY <1>2 DEF SlaveStates
  <2>2. slv = [s \in Slaves |-> r]
    BY DEF Init
  <2> HIDE DEF r
  <2>3. slv \in [Slaves -> SlaveStates]
    BY <2>1, <2>2
  <2>4. phase \in [Masters -> Phases] /\ acked \in [Masters -> BOOLEAN]
    BY DEF Init, Phases
  <2>5. line \in [Masters -> Lines] /\ ret \in [Masters -> [ack : BOOLEAN, dat : Values]]
    BY <1>2 DEF Init
  <2>6. got \in [Masters -> Values] /\ mem \in [Words -> Values]
    BY <1>2 DEF Init
  <2>7. /\ sline \in [Slaves -> [adr : Words, we : BOOLEAN, dat : Values, stb : BOOLEAN]]
        /\ out \in [Slaves -> [ack : BOOLEAN, dat : Values]]
    BY <1>2 DEF Init
  <2>8. /\ order \in Orders /\ at \in 0..Len(order) /\ gap \in BOOLEAN
        /\ grant \in Masters \cup {NoMaster} /\ last \in Masters \cup {NoMaster}
        /\ mlast \in Masters \cup {NoMaster} /\ next \in Masters
        /\ si \in Slaves /\ wsi \in Slaves \cup {NoSlave}
    <3>1. /\ order \in Orders /\ at = 0 /\ gap = FALSE /\ grant = NoMaster /\ last = NoMaster
          /\ mlast = NoMaster /\ next = 0 /\ si = 0 /\ wsi = NoSlave
      BY DEF Init
    <3>2. at \in 0..Len(order)
      BY <3>1, <1>1
    <3>3. next \in Masters /\ si \in Slaves /\ gap \in BOOLEAN
      BY <3>1, <1>2, MastersAre
    <3> QED
      BY <3>1, <3>2, <3>3
  <2> QED
    BY <2>3, <2>4, <2>5, <2>6, <2>7, <2>8 DEF TypeOK, Lines, Phases, SlaveStates
<1>4. \A m \in Masters : MasterInv(m)
  BY MastersAre DEF Init, MasterInv, LineOfPhase, Fits, Fallen, GrantLapses, AckIsOwn,
     PausedIsAnswered, Quiet, NoReply, Asking, OfCpus, Paused, Upcoming
<1>5. OneDriven /\ Matches /\ BeginsForSomeone
  BY DEF Init, OneDriven, Matches, BeginsForSomeone, Off
<1>6. \A s \in Slaves : SlaveInv(s)
  BY DEF Init, SlaveInv, Off
<1> QED
  BY <1>3, <1>4, <1>5, <1>6 DEF Inv

\* Every step keeps the invariant.
LEMMA NextInv == Inv /\ [Next]_vars => Inv'
<1> SUFFICES ASSUME Inv, [Next]_vars PROVE Inv'
  OBVIOUS
<1>1. CASE Comb \/ Interconnect \/ \E s \in Slaves : Memory(s)
  BY <1>1, CombKeeps, InterconnectKeeps, MemoryKeeps
<1>2. ASSUME NEW m \in Masters, Stay(m) PROVE Inv'
  BY <1>2, StayTurns, TurnedKeeps
<1>3. ASSUME NEW m \in Cpus, \/ CpuStart(m) \/ CpuDone(m) \/ CpuAmoRead(m) \/ CpuAmoGap(m)
                             \/ CpuWalk(m) \/ CpuWalkOn(m)
      PROVE  Inv'
  BY <1>3, CpuTurns, TurnedKeeps DEF Masters
<1>4. ASSUME NEW m \in Cpus, CpuFall(m) PROVE Inv'
  BY <1>4, FallIs, FallKeeps
<1>5. ASSUME NEW m \in Dmas, DmaRead(m) \/ DmaHave(m) \/ DmaWrite(m) \/ DmaDone(m) PROVE Inv'
  BY <1>5, DmaTurns, TurnedKeeps DEF Masters
<1>6. ASSUME NEW m \in Virtios, VirtioBeat(m) \/ VirtioGap(m) PROVE Inv'
  BY <1>6, VirtioTurns, TurnedKeeps DEF Masters
<1>7. CASE UNCHANGED vars
  <2>1. /\ UNCHANGED <<order, at, phase, line, got, acked, ret, mlast>>
        /\ UNCHANGED <<grant, last, next, gap, si, wsi, sline, out, slv, mem>>
    BY <1>7 DEF vars, master, ic, slave
  <2>2. \A p : Pos(p)' = Pos(p) /\ (Upcoming(p)' <=> Upcoming(p)) /\ (Ahead(p)' <=> Ahead(p))
    BY <2>1 DEF Pos, Upcoming, Ahead
  <2>3. \A p, q : Since(p, q)' <=> Since(p, q)
    BY <2>1, <2>2 DEF Since
  <2>4. TypeOK'
    BY <2>1 DEF Inv, TypeOK
  <2>5. CpusFirst'
    BY <2>1, <2>2 DEF Inv, CpusFirst
  <2>6. ASSUME NEW m \in Masters PROVE MasterInv(m)'
    <3>1. MasterInv(m)
      BY DEF Inv
    <3>2. LineOfPhase(m)'
      BY <3>1, <2>1, <2>2 DEF MasterInv, LineOfPhase, Fits, Fallen
    <3>3. GrantLapses(m)'
      BY <3>1, <2>1, <2>2, <2>3 DEF MasterInv, GrantLapses
    <3>4. AckIsOwn(m)' /\ PausedIsAnswered(m)'
      BY <3>1, <2>1, <2>2 DEF MasterInv, AckIsOwn, PausedIsAnswered, Answered, Holding
    <3> QED
      BY <3>2, <3>3, <3>4 DEF MasterInv
  <2>7. OneDriven' /\ Matches' /\ BeginsForSomeone'
    BY <2>1 DEF Inv, OneDriven, Matches, BeginsForSomeone, Waiting
  <2>8. \A s \in Slaves : SlaveInv(s)'
    BY <2>1, <2>3 DEF Inv, SlaveInv
  <2> QED
    BY <2>4, <2>5, <2>6, <2>7, <2>8 DEF Inv
<1> QED
  BY <1>1, <1>2, <1>3, <1>4, <1>5, <1>6, <1>7 DEF Next
-----------------------------------------------------------------------------
(* The refinement: what the masters and the memory see of it all. *)

\* The request on m's wires, and what it has been served with.
Asked(m) == [adr |-> line[m].adr, we |-> line[m].we, dat |-> line[m].dat]
ReqOf(m) == IF Waiting(m) THEN Asked(m) ELSE None
RespOf(m) == IF Served(m) THEN slv[si].dat ELSE None
Same(m) == ReqOf(m)' = ReqOf(m) /\ RespOf(m)' = RespOf(m)

LEMMA StutterIs ==
    ASSUME UNCHANGED <<mem, got>>, \A m \in Masters : Same(m)
    PROVE  UNCHANGED Shared!vars
BY DEF Shared!vars, Same, ReqOf, RespOf, Asked

LEMMA IssueIs ==
    ASSUME NEW m \in Masters, UNCHANGED <<mem, got>>, \A n \in Masters \ {m} : Same(n),
           ReqOf(m) = None, ReqOf(m)' \in Shared!Request, RespOf(m)' = RespOf(m)
    PROVE  Shared!Issue(m)
<1> DEFINE req == [n \in Masters |-> ReqOf(n)]
           resp == [n \in Masters |-> RespOf(n)]
<1>1. /\ req' = [req EXCEPT ![m] = ReqOf(m)'] /\ resp' = resp /\ req[m] = None
  BY DEF Same
<1>2. req'[m] # None
  BY <1>1, NoneAssumption DEF Shared!Request
<1> QED
  BY <1>1, <1>2 DEF Shared!Issue, ReqOf, RespOf, Asked

LEMMA ReturnIs ==
    ASSUME NEW m \in Masters, mem' = mem, \A n \in Masters \ {m} : Same(n),
           ReqOf(m) # None, RespOf(m) # None, ReqOf(m)' = None, RespOf(m)' = None,
           got' = IF ReqOf(m).we THEN got ELSE [got EXCEPT ![m] = RespOf(m)]
    PROVE  Shared!Return(m)
<1> DEFINE req == [n \in Masters |-> ReqOf(n)]
           resp == [n \in Masters |-> RespOf(n)]
<1>1. /\ req' = [req EXCEPT ![m] = None] /\ resp' = [resp EXCEPT ![m] = None]
      /\ req[m] = ReqOf(m) /\ resp[m] = RespOf(m)
  BY DEF Same
<1> QED
  BY <1>1 DEF Shared!Return, ReqOf, RespOf, Asked

LEMMA ServeIs ==
    ASSUME NEW m \in Masters, got' = got, \A n \in Masters \ {m} : Same(n),
           ReqOf(m) # None, RespOf(m) = None, ReqOf(m)' = ReqOf(m),
           mem' = IF ReqOf(m).we THEN [mem EXCEPT ![ReqOf(m).adr] = ReqOf(m).dat] ELSE mem,
           RespOf(m)' = IF ReqOf(m).we THEN 0 ELSE mem[ReqOf(m).adr]
    PROVE  Shared!Serve(m)
<1> DEFINE req == [n \in Masters |-> ReqOf(n)]
           resp == [n \in Masters |-> RespOf(n)]
<1>1. /\ req' = req /\ resp' = [resp EXCEPT ![m] = RespOf(m)']
      /\ req[m] = ReqOf(m) /\ resp[m] = RespOf(m)
  BY DEF Same
<1> QED
  BY <1>1 DEF Shared!Serve, ReqOf, RespOf, Asked

\* A request is not None, and neither is a word.
LEMMA NotNone ==
    ASSUME Inv, NEW m \in Masters
    PROVE  /\ Asked(m) \in Shared!Request /\ Asked(m) # None
           /\ slv[si].dat \in Values /\ slv[si].dat # None
<1>1. Asked(m) \in [adr : Words, we : BOOLEAN, dat : Values] /\ slv[si].dat \in Values
  BY DEF Inv, TypeOK, Asked
<1> QED
  BY <1>1, NoneAssumption DEF Shared!Request
\* The turn of a master: nothing, a new request, or the end of one, which has
\* been served.
LEMMA TurnedRefines ==
    ASSUME Inv, NEW m \in Masters, Turned(m)
    PROVE  Shared!Issue(m) \/ Shared!Return(m) \/ UNCHANGED Shared!vars
<1>1. PICK p, l, a : Went(m, p, l, a) /\ (Idles(m, l) \/ Asks(m, l) \/ Takes(m, l))
  BY DEF Turned
<1>2. /\ UNCHANGED <<grant, gap, si, slv, mem>> /\ l \in Lines
      /\ phase' = [phase EXCEPT ![m] = p] /\ line' = [line EXCEPT ![m] = l]
  BY <1>1 DEF Went, MasterTurn, ic, slave
<1>3. /\ phase'[m] = p /\ line'[m] = l
      /\ \A n \in Masters \ {m} : phase'[n] = phase[n] /\ line'[n] = line[n]
  BY <1>2 DEF Inv, TypeOK
<1>4. \A n \in Masters \ {m} : Same(n)
  BY <1>2, <1>3 DEF Same, ReqOf, RespOf, Asked, Waiting, Served
<1>5. Asked(m) \in Shared!Request /\ Asked(m) # None /\ slv[si].dat # None
  BY NotNone
<1>6. CASE Idles(m, l)
  <2>1. (Waiting(m)' <=> Waiting(m)) /\ (Waiting(m) => l = line[m]) /\ got' = got
    BY <1>3, <1>6 DEF Idles, Kept, Lowered, Waiting
  <2>2. Same(m)
    BY <2>1, <1>2, <1>3 DEF Same, ReqOf, RespOf, Asked, Served
  <2> QED
    BY <2>1, <2>2, <1>2, <1>4, StutterIs
<1>7. CASE Asks(m, l)
  <2>1. ~Waiting(m) /\ Waiting(m)' /\ ~Served(m) /\ ~Served(m)' /\ got' = got
    BY <1>2, <1>3, <1>7 DEF Asks, Raised, Waiting, Served, Paused
  <2>2. ReqOf(m) = None /\ RespOf(m)' = RespOf(m)
    BY <2>1 DEF ReqOf, RespOf
  <2>3. ReqOf(m)' \in Shared!Request
    BY <2>1, <1>2, <1>3 DEF ReqOf, Asked, Lines, Shared!Request
  <2> QED
    BY <2>1, <2>2, <2>3, <1>2, <1>4, IssueIs
<1>8. CASE Takes(m, l)
  <2>1. /\ Waiting(m) /\ ~Waiting(m)' /\ ~Served(m)' /\ Answered(m)
        /\ got' = (IF line[m].we THEN got ELSE [got EXCEPT ![m] = slv[si].dat])
    BY <1>8 DEF Takes, Served
  <2>2. Served(m)
    BY <2>1 DEF Served, Answered, Holding, Inv, TypeOK, SlaveInv
  <2>3. /\ ReqOf(m) = Asked(m) /\ ReqOf(m)' = None /\ RespOf(m) = slv[si].dat /\ RespOf(m)' = None
    BY <2>1, <2>2 DEF ReqOf, RespOf
  <2>4. ReqOf(m).we = line[m].we
    BY <2>3 DEF Asked
  <2>5. got' = IF ReqOf(m).we THEN got ELSE [got EXCEPT ![m] = RespOf(m)]
    BY <2>1, <2>3, <2>4
  <2> QED
    BY <2>3, <2>5, <1>2, <1>4, <1>5, ReturnIs
<1> QED
  BY <1>1, <1>6, <1>7, <1>8

\* The falling tick: the second half of an AMO, or the next entry of a walk, is
\* a request of its own.
LEMMA FallRefines ==
    ASSUME Inv, NEW m \in Masters, NEW l, FallenOne(m, l)
    PROVE  Shared!Issue(m) \/ UNCHANGED Shared!vars
<1>1. /\ l \in Lines /\ line' = [line EXCEPT ![m] = l]
      /\ UNCHANGED <<phase, got, grant, gap, si, slv, mem>>
  BY DEF FallenOne, ic, slave
<1>2. line'[m] = l /\ \A n \in Masters \ {m} : line'[n] = line[n]
  BY <1>1 DEF Inv, TypeOK
<1>3. \A n \in Masters \ {m} : Same(n)
  BY <1>1, <1>2 DEF Same, ReqOf, RespOf, Asked, Waiting, Served
<1>4. CASE phase[m] = "amo_gap"
  <2>1. Same(m)
    BY <1>1, <1>4 DEF Same, ReqOf, RespOf, Waiting, Served
  <2> QED
    BY <2>1, <1>1, <1>3, StutterIs
<1>5. CASE phase[m] \in {"amo_write", "walk"} /\ l.stb /\ ~line[m].stb /\ grant # m
  <2>1. ~Waiting(m) /\ Waiting(m)' /\ ~Served(m) /\ ~Served(m)'
    BY <1>1, <1>2, <1>5 DEF Waiting, Served
  <2>2. ReqOf(m) = None /\ RespOf(m)' = RespOf(m)
    BY <2>1 DEF ReqOf, RespOf
  <2>3. ReqOf(m)' \in Shared!Request
    BY <2>1, <1>1, <1>2 DEF ReqOf, Asked, Lines, Shared!Request
  <2> QED
    BY <2>2, <2>3, <1>1, <1>3, IssueIs
<1> QED
  BY <1>4, <1>5 DEF FallenOne

\* The interconnect decides who is served, and takes no answer away.
LEMMA InterconnectRefines ==
    ASSUME Inv, Interconnect
    PROVE  UNCHANGED Shared!vars
<1>1. /\ Turn(Ic) /\ UNCHANGED <<phase, line, got, slv, mem>>
      /\ \/ grant = NoMaster /\ UNCHANGED ic
         \/ \E g \in Masters \cup {NoMaster}, s \in Slaves : Passes(g, s)
  BY InterconnectIs
<1>2. \A m \in Masters : Waiting(m)' = Waiting(m) /\ Asked(m)' = Asked(m)
  BY <1>1 DEF Waiting, Asked
<1>3. \A m \in Masters : (Served(m)' <=> Served(m)) /\ (Served(m) => si' = si)
  <2>1. CASE UNCHANGED ic
    BY <2>1, <1>1, <1>2 DEF Served, ic
  <2>2. ASSUME NEW g \in Masters \cup {NoMaster}, NEW s \in Slaves, Passes(g, s)
        PROVE  \A m \in Masters : (Served(m)' <=> Served(m)) /\ (Served(m) => si' = si)
    <3> SUFFICES ASSUME NEW m \in Masters
                 PROVE  (Served(m)' <=> Served(m)) /\ (Served(m) => si' = si)
      OBVIOUS
    <3>1. grant' = g /\ si' = s
      BY <2>2 DEF Passes
    <3>2. slv[s].pending = slv[s].prev /\ slv[si].pending = slv[si].prev
      BY DEF Inv, TypeOK, SlaveInv
    <3>3. ASSUME Served(m) PROVE Served(m)' /\ si' = si
      <4>1. line[m].stb /\ Answered(m)
        BY <3>2, <3>3 DEF Served, Answered, Holding, Waiting
      <4>2. g = m /\ s = si /\ ~gap'
        BY <4>1, <1>1, <2>2, PassedOn
      <4> QED
        BY <3>1, <3>3, <4>2, <1>1, <1>2 DEF Served
    <3>4. ASSUME Served(m)' PROVE Served(m)
      <4>1. g = m /\ g # NoMaster /\ ~gap' /\ slv[s].prev /\ Waiting(m)
        BY <3>1, <3>2, <3>4, <1>1, <1>2, MastersAre DEF Served
      <4>2. grant = g /\ si = s /\ ~gap
        BY <4>1, <1>1, <2>2, PassedOn
      <4> QED
        BY <3>2, <4>1, <4>2 DEF Served
    <3> QED
      BY <3>3, <3>4
  <2> QED
    BY <1>1, <2>1, <2>2
<1>4. \A m \in Masters : Same(m)
  BY <1>1, <1>2, <1>3 DEF Same, ReqOf, RespOf
<1> QED
  BY <1>1, <1>4, StutterIs

\* The slave serves the request it has just been shown; after that it only
\* repeats the answer.
LEMMA MemoryRefines ==
    ASSUME Inv, NEW s \in Slaves, Memory(s)
    PROVE  (\E m \in Masters : Shared!Serve(m)) \/ UNCHANGED Shared!vars
<1>1. UNCHANGED <<phase, line, got, grant, gap, si>>
  BY MemoryIs
<1>2. PICK r \in SlaveStates : Serves(s, r)
  BY MemoryIs
<1>3. slv'[s] = r /\ \A k \in Slaves \ {s} : slv'[k] = slv[k]
  BY <1>2 DEF Serves, Inv, TypeOK
<1>4. \A m \in Masters : Waiting(m)' = Waiting(m) /\ Asked(m)' = Asked(m)
  BY <1>1 DEF Waiting, Asked
<1>5. si \in Slaves /\ slv[si].pending = slv[si].prev
  BY DEF Inv, TypeOK, SlaveInv
<1>6. \A m \in Masters : grant = m /\ ~gap => sline[si].stb
  BY <1>5, MastersAre DEF Inv, OneDriven
<1>7. CASE sline[s].stb /\ ~slv[s].prev
  <2>1. s = si /\ grant # NoMaster /\ ~gap
    BY <1>7 DEF Inv, OneDriven
  <2>2. Waiting(grant) /\ grant \in Masters /\ line[grant].stb
    BY <2>1, <1>7 DEF Inv, BeginsForSomeone, TypeOK, Waiting
  <2>3. PICK m \in Masters : m = grant
    BY <2>2
  <2>4. /\ ~Served(m) /\ Served(m)' /\ \A n \in Masters \ {m} : ~Served(n) /\ ~Served(n)'
    BY <2>1, <2>2, <2>3, <1>1, <1>2, <1>3, <1>4, <1>5, <1>7 DEF Served, Serves
  <2>5. \A n \in Masters \ {m} : Same(n)
    BY <2>4, <1>4 DEF Same, ReqOf, RespOf
  <2>6. /\ ReqOf(m) = Asked(m) /\ ReqOf(m)' = Asked(m) /\ RespOf(m) = None /\ RespOf(m)' = r.dat
    BY <2>1, <2>2, <2>4, <2>3, <1>1, <1>3, <1>4 DEF ReqOf, RespOf
  <2>7. /\ Asked(m).adr = sline[s].adr /\ Asked(m).we = sline[s].we /\ Asked(m).dat = sline[s].dat
    BY <2>1, <2>2, <2>3 DEF Inv, Matches, Asked
  <2>8. /\ r.dat = (IF sline[s].we THEN 0 ELSE mem[sline[s].adr])
        /\ mem' = IF sline[s].we THEN [mem EXCEPT ![sline[s].adr] = sline[s].dat] ELSE mem
    BY <1>2, <1>7 DEF Serves
  <2>9. Asked(m) # None
    BY NotNone
  <2>10. Shared!Serve(m)
    <3>1. /\ ReqOf(m) # None /\ RespOf(m) = None /\ ReqOf(m)' = ReqOf(m)
          /\ ReqOf(m).adr = sline[s].adr /\ ReqOf(m).we = sline[s].we /\ ReqOf(m).dat = sline[s].dat
      BY <2>6, <2>7, <2>9
    <3>2. /\ mem' = IF ReqOf(m).we THEN [mem EXCEPT ![ReqOf(m).adr] = ReqOf(m).dat] ELSE mem
          /\ RespOf(m)' = IF ReqOf(m).we THEN 0 ELSE mem[ReqOf(m).adr]
      BY <2>6, <2>8, <3>1
    <3> QED
      BY <2>5, <2>3, <3>1, <3>2, <1>1, ServeIs
  <2> QED
    BY <2>3, <2>10
<1>8. CASE ~(sline[s].stb /\ ~slv[s].prev)
  <2>1. mem' = mem /\ r.dat = slv[s].dat /\ r.prev = sline[s].stb /\ r.pending = r.prev
    BY <1>2, <1>8 DEF Serves
  <2>2. ASSUME NEW m \in Masters PROVE (Served(m)' <=> Served(m)) /\ slv'[si].dat = slv[si].dat
    <3>1. CASE si = s
      BY <3>1, <2>1, <1>1, <1>3, <1>4, <1>5, <1>6, <1>8 DEF Served
    <3>2. CASE si # s
      BY <3>2, <1>1, <1>3, <1>4, <1>5 DEF Served
    <3> QED
      BY <3>1, <3>2
  <2>3. \A m \in Masters : Same(m)
    BY <2>2, <1>1, <1>4 DEF Same, ReqOf, RespOf
  <2> QED
    BY <2>1, <2>3, <1>1, StutterIs
<1> QED
  BY <1>7, <1>8

LEMMA NextRefines ==
    Inv /\ [Next]_vars => [Shared!Next]_Shared!vars
<1> SUFFICES ASSUME Inv, [Next]_vars PROVE Shared!Next \/ UNCHANGED Shared!vars
  OBVIOUS
<1>1. CASE Comb
  <2>1. UNCHANGED <<phase, line, got, grant, gap, si, slv, mem>>
    BY <1>1 DEF Comb, master, ic, slave
  <2>2. \A m \in Masters : Same(m)
    BY <2>1 DEF Same, ReqOf, RespOf, Asked, Waiting, Served
  <2> QED
    BY <2>1, <2>2, StutterIs
<1>2. CASE Interconnect
  BY <1>2, InterconnectRefines
<1>3. ASSUME NEW s \in Slaves, Memory(s) PROVE Shared!Next \/ UNCHANGED Shared!vars
  BY <1>3, MemoryRefines DEF Shared!Next
<1>4. ASSUME NEW m \in Masters, Turned(m) PROVE Shared!Next \/ UNCHANGED Shared!vars
  BY <1>4, TurnedRefines DEF Shared!Next
<1>5. ASSUME NEW m \in Masters, Stay(m) PROVE Shared!Next \/ UNCHANGED Shared!vars
  BY <1>4, <1>5, StayTurns
<1>6. ASSUME NEW m \in Cpus, \/ CpuStart(m) \/ CpuDone(m) \/ CpuAmoRead(m) \/ CpuAmoGap(m)
                             \/ CpuWalk(m) \/ CpuWalkOn(m)
      PROVE  Shared!Next \/ UNCHANGED Shared!vars
  BY <1>4, <1>6, CpuTurns DEF Masters
<1>7. ASSUME NEW m \in Cpus, CpuFall(m) PROVE Shared!Next \/ UNCHANGED Shared!vars
  <2>1. m \in Masters
    BY DEF Masters
  <2> QED
    BY <2>1, <1>7, FallIs, FallRefines DEF Shared!Next
<1>8. ASSUME NEW m \in Dmas, DmaRead(m) \/ DmaHave(m) \/ DmaWrite(m) \/ DmaDone(m)
      PROVE  Shared!Next \/ UNCHANGED Shared!vars
  BY <1>4, <1>8, DmaTurns DEF Masters
<1>9. ASSUME NEW m \in Virtios, VirtioBeat(m) \/ VirtioGap(m)
      PROVE  Shared!Next \/ UNCHANGED Shared!vars
  BY <1>4, <1>9, VirtioTurns DEF Masters
<1>10. CASE UNCHANGED vars
  <2>1. UNCHANGED <<phase, line, got, grant, gap, si, slv, mem>>
    BY <1>10 DEF vars, master, ic, slave
  <2>2. \A m \in Masters : Same(m)
    BY <2>1 DEF Same, ReqOf, RespOf, Asked, Waiting, Served
  <2> QED
    BY <2>1, <2>2, StutterIs
<1> QED
  BY <1>1, <1>2, <1>3, <1>5, <1>6, <1>7, <1>8, <1>9, <1>10 DEF Next

LEMMA InitRefines == Init => Shared!Init
<1> SUFFICES ASSUME Init PROVE Shared!Init
  OBVIOUS
<1>1. \A m \in Masters : ~Waiting(m) /\ ~Served(m)
  BY DEF Init, Waiting, Served, Quiet
<1> QED
  BY <1>1 DEF Init, Shared!Init
-----------------------------------------------------------------------------
\* A page walk keeps cyc low for one cycle and raises stb in the falling tick:
\* wherever a CPU walks, it is inserted before the interconnect.
WalkersFirst == \A o \in WalkOrders, m \in Cpus : \A i, j \in DOMAIN o :
    o[i] = MasterPart(m) /\ o[j] = Ic => i < j

LEMMA WalkersAreFirst == ASSUME WalkersFirst, Ordered PROVE CpusFirst
<1> SUFFICES ASSUME NEW m \in Cpus, order \in WalkOrders PROVE Pos(MasterPart(m)) < Pos(Ic)
  BY DEF CpusFirst
<1>1. MasterPart(m) \in Parts /\ Ic \in Parts
  BY PartsDiffer DEF Masters
<1>2. /\ Pos(MasterPart(m)) \in 1..Len(order) /\ order[Pos(MasterPart(m))] = MasterPart(m)
      /\ Pos(Ic) \in 1..Len(order) /\ order[Pos(Ic)] = Ic
  BY <1>1, Places
<1>3. DOMAIN order = 1..Len(order)
  BY OrdersAssumption DEF Ordered
<1> QED
  BY <1>2, <1>3 DEF WalkersFirst

\* The whole bus, the masters of RiscVCPU, DMA and the virtio devices with
\* WishboneInterconnect and WishboneMemory, is one shared memory: whatever the
\* number of ports, the words and the order of insertion, every request is
\* served once, between its start and its end, no ack of one is taken for that
\* of another, and a read brings the word it was served.  Page walks are
\* covered where the CPUs come before the interconnect.
THEOREM BusIsSharedMemory == WalkersFirst => (Spec => IsSharedMemory)
<1> SUFFICES ASSUME WalkersFirst PROVE Spec => IsSharedMemory
  OBVIOUS
<1>1. Init => Inv /\ Shared!Init
  <2>1. Init => Ordered
    BY OrdersAssumption DEF Init, Ordered
  <2> QED
    BY <2>1, WalkersAreFirst, InitInv, InitRefines
<1>2. Inv /\ [Next]_vars => Inv' /\ [Shared!Next]_Shared!vars
  BY NextInv, NextRefines
<1> QED
  BY <1>1, <1>2, PTL DEF Spec, IsSharedMemory, Shared!Spec

=============================================================================
