------------------------- MODULE TickEngine_proofs -------------------------
(* Proofs about TickEngine, for every set of netlists and every batch length. *)
EXTENDS TickEngine, FiniteSetTheorems, WellFoundedInduction, TLAPS

-----------------------------------------------------------------------------
(* Where a run-time error leaves the simulation thread. *)

\* An error has always raised the stop flag; one that only a netlist with a
\* bus, or with tri-state readers, can raise tells which return the thread is
\* bound to take: the one behind the resolution, or the one behind phase 2b.
ErrorInv ==
    /\ err \in {"OK", "BUS_CONFLICT", "BUS_OSCILLATION"}
    /\ err # "OK" => stop /\ pc # "sequential"
    /\ err = "BUS_CONFLICT" => gen.buses # {}
    /\ err = "BUS_OSCILLATION" \/ pc = "settling" => gen.affected # {}

\* Only a bus is ever in conflict.
LEMMA ConflictHasBus ==
    ASSUME NEW s, NEW nets, BusError(s, nets) # "OK"
    PROVE  BusError(s, nets) = "BUS_CONFLICT" /\ nets # {}
BY DEF BusError

\* A report outside phase 3, of an error the netlist can have, keeps it.
LEMMA ReportKeeps ==
    ASSUME ErrorInv, gen' = gen, NEW e, Report(e),
           pc' # "sequential", pc' = "settling" => gen.affected # {},
           e \in {"OK", "BUS_CONFLICT", "BUS_OSCILLATION"},
           e = "BUS_CONFLICT" => gen.buses # {}, e = "BUS_OSCILLATION" => gen.affected # {}
    PROVE  ErrorInv'
<1>1. err' \in {err, e} /\ (err' # "OK" => stop')
  BY DEF ErrorInv, Report
<1> QED
  BY <1>1 DEF ErrorInv

\* At the start there is no error.
LEMMA ErrorInit == Init => ErrorInv
BY DEF Init, ErrorInv

\* Every call and every step of the thread keeps it.
LEMMA ErrorNext == ErrorInv /\ [Next]_vars => ErrorInv'
<1> SUFFICES ASSUME ErrorInv, [Next]_vars PROVE ErrorInv'
  OBVIOUS
<1>1. CASE Host
  BY <1>1 DEF Host, SetWire, Tick, TickBatch, TickCycles, TickForever, Begin, InterruptTickForever,
     ClearError, Reset, ErrorInv
<1>2. CASE Combinational
  <2>1. PICK s : Report(BusError(s, gen.buses))
    BY <1>2 DEF Combinational
  <2>2. gen' = gen /\ pc' = "resolved"
    BY <1>2 DEF Combinational
  <2> DEFINE e == BusError(s, gen.buses)
  <2>3. e = "OK" \/ (e = "BUS_CONFLICT" /\ gen.buses # {})
    BY ConflictHasBus
  <2>4. Report(e)
    BY <2>1
  <2> HIDE DEF e
  <2> QED
    BY <2>2, <2>3, <2>4, ReportKeeps
<1>3. CASE StopAfterResolution
  BY <1>3 DEF StopAfterResolution, ErrorInv
<1>4. CASE Settle
  <2>1. PICK s, changed, last :
          Report(IF BusError(s, gen.buses) = "OK" /\ changed /\ last
                 THEN "BUS_OSCILLATION" ELSE BusError(s, gen.buses))
    BY <1>4 DEF Settle
  <2>2. gen' = gen /\ pc' \in {"settling", "settled"} /\ gen.affected # {}
    BY <1>4 DEF Settle, ErrorInv
  <2> DEFINE e == IF BusError(s, gen.buses) = "OK" /\ changed /\ last
                  THEN "BUS_OSCILLATION" ELSE BusError(s, gen.buses)
  <2>3. e \in {"OK", "BUS_OSCILLATION"} \/ (e = "BUS_CONFLICT" /\ gen.buses # {})
    BY ConflictHasBus
  <2>4. Report(e)
    BY <2>1
  <2> HIDE DEF e
  <2> QED
    BY <2>2, <2>3, <2>4, ReportKeeps
<1>5. CASE StopAfterSettling
  BY <1>5 DEF StopAfterSettling, ErrorInv
<1>6. CASE Sequential
  <2>1. PICK s : Report(BusError(s, SeqNets \cap gen.buses))
    BY <1>6 DEF Sequential
  <2>3. gen' = gen /\ pc' = "returned"
    BY <1>6 DEF Sequential
  <2> DEFINE e == BusError(s, SeqNets \cap gen.buses)
  <2>4. e = "OK" \/ (e = "BUS_CONFLICT" /\ gen.buses # {})
    BY ConflictHasBus
  <2>5. Report(e)
    BY <2>1
  <2> HIDE DEF e
  <2> QED
    BY <2>3, <2>4, <2>5, ReportKeeps
<1>7. CASE NextTick
  BY <1>7 DEF NextTick, ErrorInv
<1>8. CASE UNCHANGED vars
  BY <1>8 DEF vars, ErrorInv
<1> QED
  BY <1>1, <1>2, <1>3, <1>4, <1>5, <1>6, <1>7, <1>8 DEF Next, Engine

\* In any netlist, in any call, the registers never advance on the wires of a
\* circuit that has reported an error: not in the tick that reports it, nor in
\* the ticks a batch still runs until it looks at the stop flag.
THEOREM RegistersStopAtError == Spec => []NoAdvanceAfterError
<1>1. ErrorInv => NoAdvanceAfterError
  BY DEF ErrorInv, NoAdvanceAfterError
<1> QED
  BY <1>1, ErrorInit, ErrorNext, PTL DEF Spec

-----------------------------------------------------------------------------
(* Loops over a sequence. *)

\* Induction over 0..n, for one set of numbers at a time.
LEMMA Steps ==
    ASSUME NEW n \in Nat, NEW T, 0 \in T, \A k \in 1..n : k - 1 \in T => k \in T
    PROVE  \A k \in 0..n : k \in T
<1> DEFINE B == {k \in 0..n : k \notin T}
<1> SUFFICES ASSUME B # {} PROVE FALSE
  OBVIOUS
<1>1. B \in SUBSET Nat
  OBVIOUS
<1>2. PICK x \in B : \A y \in B : ~(<<y, x>> \in OpToRel(<, Nat))
  BY <1>1, WFMin, NatLessThanWellFounded
<1>3. \A y \in B : ~(y < x)
  BY <1>1, <1>2 DEF OpToRel
<1>4. x \in 1..n
  OBVIOUS
<1>5. x - 1 \in 0..n /\ x - 1 < x
  BY <1>4
<1>6. x - 1 \in T
  BY <1>3, <1>5
<1> QED
  BY <1>2, <1>4, <1>6

\* A function whose value at k is computed by G from the one at k - 1 exists.
Computes(G, S, n, s0, f) ==
    f \in [0..n -> S] /\ f[0] = s0 /\ \A k \in 1..n : f[k] = G[k][f[k - 1]]

\* A loop of n steps, each a function on the states, has a run.
LEMMA RunExists ==
    ASSUME NEW S, NEW n \in Nat, NEW s0 \in S, NEW G \in [1..n -> [S -> S]]
    PROVE  \E f : Computes(G, S, n, s0, f)
<1> USE DEF Computes
<1> DEFINE T == {m \in 0..n : \E f : Computes(G, S, m, s0, f)}
<1>1. 0 \in T
  <2> DEFINE f == [k \in 0..0 |-> s0]
  <2>1. f \in [0..0 -> S] /\ f[0] = s0 /\ \A k \in 1..0 : f[k] = G[k][f[k - 1]]
    OBVIOUS
  <2> HIDE DEF f
  <2> QED
    BY <2>1
<1>2. ASSUME NEW m \in 1..n, m - 1 \in T PROVE m \in T
  <2>1. PICK f : Computes(G, S, m - 1, s0, f)
    BY <1>2
  <2> DEFINE g == [k \in 0..m |-> IF k = m THEN G[m][f[m - 1]] ELSE f[k]]
  <2>2. f[m - 1] \in S
    BY <2>1
  <2>3. G[m][f[m - 1]] \in S
    BY <2>2
  <2>4. g \in [0..m -> S] /\ g[0] = s0
    BY <2>1, <2>3
  <2>5. ASSUME NEW k \in 1..m PROVE g[k] = G[k][g[k - 1]]
    <3>1. g[k - 1] = f[k - 1]
      OBVIOUS
    <3>2. CASE k = m
      BY <3>1, <3>2
    <3>3. CASE k # m
      BY <3>1, <3>3, <2>1
    <3> QED
      BY <3>2, <3>3
  <2>6. m \in 0..n
    OBVIOUS
  <2> HIDE DEF g
  <2> QED
    BY <2>4, <2>5, <2>6
<1>3. n \in T
  <2>1. n \in 0..n
    OBVIOUS
  <2> HIDE DEF T
  <2> QED
    BY <1>1, <1>2, <2>1, Steps
<1> QED
  BY <1>3

\* What does not change from one position to the next does not change at all.
LEMMA Unchanging ==
    ASSUME NEW i \in Nat, NEW j \in Nat, i <= j, NEW g,
           \A k \in (i + 1)..j : g[k] = g[k - 1]
    PROVE  g[j] = g[i]
<1> DEFINE T == {m \in Nat : g[i + m] = g[i]}
<1>1. 0 \in T
  OBVIOUS
<1>2. ASSUME NEW m \in 1..(j - i), m - 1 \in T PROVE m \in T
  <2>1. i + m \in (i + 1)..j /\ (i + m) - 1 = i + (m - 1)
    OBVIOUS
  <2>2. g[i + m] = g[i + (m - 1)]
    BY <2>1
  <2> QED
    BY <1>2, <2>2
<1>3. j - i \in T
  <2>1. j - i \in Nat
    OBVIOUS
  <2> HIDE DEF T
  <2> QED
    BY <1>1, <1>2, <2>1, Steps
<1>4. i + (j - i) = j
  OBVIOUS
<1> QED
  BY <1>3, <1>4

\* How the elements of t are found in s: at increasing places, all of set's.
Picks(s, t, set, m, h) ==
    /\ h \in [1..Len(t) -> 1..m]
    /\ \A a, b \in 1..Len(t) : a < b => h[a] < h[b]
    /\ \A a \in 1..Len(t) : t[a] = s[h[a]] /\ t[a] \in set
    /\ \A j \in 1..m : s[j] \in set => \E a \in 1..Len(t) : h[a] = j

\* One more element of s, kept or not.
LEMMA PicksNext ==
    ASSUME NEW V, NEW s \in Seq(V), NEW t \in Seq(V), NEW set, NEW m \in 1..Len(s), NEW h,
           Picks(s, t, set, m - 1, h)
    PROVE  LET u == IF s[m] \in set THEN Append(t, s[m]) ELSE t
           IN  u \in Seq(V) /\ \E g : Picks(s, u, set, m, g)
<1>1. CASE s[m] \notin set
  <2>1. Picks(s, t, set, m, h)
    <3>1. h \in [1..Len(t) -> 1..m]
      BY DEF Picks
    <3>2. \A j \in 1..m : s[j] \in set => j \in 1..(m - 1)
      BY <1>1
    <3> QED
      BY <3>1, <3>2 DEF Picks
  <2> QED
    BY <1>1, <2>1
<1>2. CASE s[m] \in set
  <2> DEFINE u == Append(t, s[m])
             g == [a \in 1..(Len(t) + 1) |-> IF a = Len(t) + 1 THEN m ELSE h[a]]
  <2>1. /\ u \in Seq(V) /\ Len(t) \in Nat /\ Len(u) = Len(t) + 1
        /\ u[Len(t) + 1] = s[m] /\ \A a \in 1..Len(t) : u[a] = t[a]
    OBVIOUS
  <2>2. \A a \in 1..Len(t) : h[a] \in 1..(m - 1) /\ g[a] = h[a]
    <3>1. \A a \in 1..Len(t) : a \in 1..(Len(t) + 1) /\ a # Len(t) + 1
      BY <2>1
    <3>2. h \in [1..Len(t) -> 1..(m - 1)]
      BY DEF Picks
    <3> HIDE DEF u
    <3> QED
      BY <3>1, <3>2
  <2>3. g[Len(t) + 1] = m
    BY <2>1
  <2> HIDE DEF g, u
  <2>4. \A a \in 1..Len(u) : a \in 1..Len(t) \/ a = Len(t) + 1
    BY <2>1
  <2>5. g \in [1..Len(u) -> 1..m]
    BY <2>1, <2>2, <2>3, <2>4 DEF g
  <2>6. \A a, b \in 1..Len(u) : a < b => g[a] < g[b]
    <3> SUFFICES ASSUME NEW a \in 1..Len(u), NEW b \in 1..Len(u), a < b PROVE g[a] < g[b]
      OBVIOUS
    <3>1. a \in 1..Len(t)
      BY <2>1
    <3>2. CASE b \in 1..Len(t)
      BY <3>1, <3>2, <2>2 DEF Picks
    <3>3. CASE b = Len(t) + 1
      BY <3>1, <3>3, <2>2, <2>3
    <3> QED
      BY <3>2, <3>3, <2>4
  <2>7. \A a \in 1..Len(u) : u[a] = s[g[a]] /\ u[a] \in set
    <3> SUFFICES ASSUME NEW a \in 1..Len(u) PROVE u[a] = s[g[a]] /\ u[a] \in set
      OBVIOUS
    <3>1. CASE a \in 1..Len(t)
      BY <3>1, <2>1, <2>2 DEF Picks
    <3>2. CASE a = Len(t) + 1
      BY <3>2, <2>1, <2>3, <1>2
    <3> QED
      BY <3>1, <3>2, <2>4
  <2>8. ASSUME NEW j \in 1..m, s[j] \in set PROVE \E a \in 1..Len(u) : g[a] = j
    <3>1. CASE j = m
      BY <3>1, <2>1, <2>3
    <3>2. CASE j \in 1..(m - 1)
      <4>1. PICK a \in 1..Len(t) : h[a] = j
        BY <3>2, <2>8 DEF Picks
      <4> QED
        BY <4>1, <2>1, <2>2
    <3> QED
      BY <3>1, <3>2
  <2>9. Picks(s, u, set, m, g)
    BY <2>5, <2>6, <2>7, <2>8 DEF Picks
  <2> QED
    BY <1>2, <2>1, <2>9 DEF u
<1> QED
  BY <1>1, <1>2

\* Among, unfolded.
Filters(s, set, n, kept) ==
    /\ kept[0] = <<>>
    /\ \A k \in 1..n : kept[k] = IF s[k] \in set THEN Append(kept[k - 1], s[k]) ELSE kept[k - 1]

\* Among goes through the sequence element by element.
LEMMA AmongUnfolds ==
    ASSUME NEW V, NEW s \in Seq(V), NEW set, NEW n \in Nat, n = Len(s)
    PROVE  \E kept : Among(s, set) = kept[n] /\ Filters(s, set, n, kept)
<1> DEFINE G == [k \in 1..n |-> [t \in Seq(V) |-> IF s[k] \in set THEN Append(t, s[k]) ELSE t]]
           Kept(f) == f = [i \in 0..n |-> IF i = 0 THEN <<>>
                             ELSE IF s[i] \in set THEN Append(f[i - 1], s[i]) ELSE f[i - 1]]
           kept == CHOOSE f : Kept(f)
<1>1. \A i \in 1..n : s[i] \in V
  OBVIOUS
<1>2. G \in [1..n -> [Seq(V) -> Seq(V)]]
  BY <1>1
<1>3. \E f : Kept(f)
  <2>1. <<>> \in Seq(V)
    OBVIOUS
  <2>2. PICK f : Computes(G, Seq(V), n, <<>>, f)
    <3> HIDE DEF G
    <3> QED
      BY <1>2, <2>1, RunExists
  <2>3. ASSUME NEW k \in 1..n
        PROVE  f[k] = IF s[k] \in set THEN Append(f[k - 1], s[k]) ELSE f[k - 1]
    <3>1. f[k - 1] \in Seq(V)
      BY <2>2 DEF Computes
    <3> QED
      BY <2>2, <3>1 DEF Computes
  <2>4. \A k \in 0..n : k = 0 \/ k \in 1..n
    OBVIOUS
  <2>5. Kept(f)
    BY <2>2, <2>3, <2>4 DEF Computes
  <2> QED
    BY <2>5
<1>4. Kept(kept)
  <2> HIDE DEF Kept
  <2> QED
    BY <1>3
<1>5. Among(s, set) = kept[n]
  BY DEF Among
<1> HIDE DEF kept
<1>6. Filters(s, set, n, kept)
  <2>1. kept = [i \in 0..n |-> IF i = 0 THEN <<>>
                  ELSE IF s[i] \in set THEN Append(kept[i - 1], s[i]) ELSE kept[i - 1]]
    BY <1>4
  <2>2. 0 \in 0..n /\ \A k \in 1..n : k \in 0..n /\ k # 0
    OBVIOUS
  <2> QED
    BY <2>1, <2>2 DEF Filters
<1> QED
  BY <1>5, <1>6

\* Among keeps the elements of a set, in their order.
LEMMA AmongPicks ==
    ASSUME NEW V, NEW s \in Seq(V), NEW set
    PROVE  Among(s, set) \in Seq(V) /\ \E h : Picks(s, Among(s, set), set, Len(s), h)
<1>1. PICK n \in Nat : n = Len(s)
  OBVIOUS
<1>2. PICK kept : Among(s, set) = kept[n] /\ Filters(s, set, n, kept)
  BY <1>1, AmongUnfolds
<1> DEFINE T == {i \in 0..n : kept[i] \in Seq(V) /\ \E h : Picks(s, kept[i], set, i, h)}
<1>3. 0 \in T
  <2>1. Picks(s, <<>>, set, 0, <<>>)
    BY DEF Picks
  <2>2. <<>> \in Seq(V) /\ 0 \in 0..n
    OBVIOUS
  <2> QED
    BY <1>2, <2>1, <2>2, Zenon DEF Filters
<1>4. ASSUME NEW m \in 1..n, m - 1 \in T PROVE m \in T
  <2>1. PICK h : Picks(s, kept[m - 1], set, m - 1, h)
    BY <1>4
  <2>2. kept[m - 1] \in Seq(V) /\ m \in 0..n
    BY <1>4
  <2> DEFINE t == kept[m - 1]
             u == IF s[m] \in set THEN Append(t, s[m]) ELSE t
  <2>3. t \in Seq(V) /\ m \in 1..Len(s) /\ Picks(s, t, set, m - 1, h)
    BY <1>1, <2>1, <2>2
  <2> HIDE DEF t
  <2>4. u \in Seq(V) /\ \E g : Picks(s, u, set, m, g)
    BY <2>3, PicksNext
  <2>5. kept[m] = u
    BY <1>2 DEF t, Filters
  <2> QED
    BY <2>2, <2>4, <2>5
<1>5. n \in T
  <2>1. n \in 0..n
    OBVIOUS
  <2> HIDE DEF T
  <2> QED
    BY <1>3, <1>4, <2>1, Steps
<1> QED
  BY <1>1, <1>2, <1>5

-----------------------------------------------------------------------------
(* The elements of a sequence. *)

\* A sequence, its indices and its set of elements.
LEMMA Elements ==
    ASSUME NEW V, NEW s \in Seq(V)
    PROVE  /\ Len(s) \in Nat /\ DOMAIN s = 1..Len(s)
           /\ \A i \in 1..Len(s) : s[i] \in V
           /\ ToSet(s) = {s[i] : i \in 1..Len(s)}
           /\ ToSet(s) \subseteq V
BY DEF ToSet

\* What appending one element adds.
LEMMA AppendElements ==
    ASSUME NEW V, NEW s \in Seq(V), NEW x \in V
    PROVE  /\ Append(s, x) \in Seq(V) /\ Len(Append(s, x)) = Len(s) + 1
           /\ \A i \in 1..Len(s) : Append(s, x)[i] = s[i]
           /\ Append(s, x)[Len(s) + 1] = x
           /\ ToSet(Append(s, x)) = ToSet(s) \cup {x}
           /\ IsInjective(s) /\ x \notin ToSet(s) => IsInjective(Append(s, x))
<1> DEFINE t == Append(s, x)
<1>1. /\ t \in Seq(V) /\ Len(t) = Len(s) + 1 /\ Len(s) \in Nat
      /\ \A i \in 1..Len(s) : t[i] = s[i]
      /\ t[Len(s) + 1] = x
  OBVIOUS
<1>2. DOMAIN t = 1..(Len(s) + 1) /\ DOMAIN s = 1..Len(s)
  OBVIOUS
<1> HIDE DEF t
<1>3. 1..(Len(s) + 1) = (1..Len(s)) \cup {Len(s) + 1}
  BY <1>1
<1>4. ToSet(t) = ToSet(s) \cup {x}
  BY <1>1, <1>2, <1>3 DEF ToSet
<1>5. IsInjective(s) /\ x \notin ToSet(s) => IsInjective(t)
  BY <1>1, <1>2, <1>3 DEF ToSet, IsInjective
<1> QED
  BY <1>1, <1>4, <1>5 DEF t

\* The elements of two sequences put together.
LEMMA JoinElements ==
    ASSUME NEW V, NEW s \in Seq(V), NEW t \in Seq(V)
    PROVE  /\ s \o t \in Seq(V) /\ Len(s \o t) = Len(s) + Len(t)
           /\ \A i \in 1..Len(s) : (s \o t)[i] = s[i]
           /\ ToSet(s \o t) = ToSet(s) \cup ToSet(t)
           /\ IsInjective(s) /\ IsInjective(t) /\ ToSet(s) \cap ToSet(t) = {} => IsInjective(s \o t)
<1> DEFINE r == s \o t
<1>1. /\ r \in Seq(V) /\ Len(r) = Len(s) + Len(t) /\ Len(s) \in Nat /\ Len(t) \in Nat
      /\ \A i \in 1..Len(s) : r[i] = s[i]
      /\ \A i \in 1..Len(t) : r[Len(s) + i] = t[i]
  OBVIOUS
<1>2. DOMAIN r = 1..(Len(s) + Len(t)) /\ DOMAIN s = 1..Len(s) /\ DOMAIN t = 1..Len(t)
  OBVIOUS
<1> HIDE DEF r
<1>3. \A i \in 1..(Len(s) + Len(t)) : i \in 1..Len(s) \/ \E j \in 1..Len(t) : i = Len(s) + j
  <2> SUFFICES ASSUME NEW i \in 1..(Len(s) + Len(t)), i \notin 1..Len(s)
               PROVE  \E j \in 1..Len(t) : i = Len(s) + j
    OBVIOUS
  <2>1. i - Len(s) \in 1..Len(t) /\ i = Len(s) + (i - Len(s))
    BY <1>1
  <2> QED
    BY <2>1
<1>4. \A i \in 1..Len(s) : i \in DOMAIN r
  BY <1>1, <1>2
<1>5. \A j \in 1..Len(t) : Len(s) + j \in DOMAIN r
  BY <1>1, <1>2
<1>6. ToSet(r) = ToSet(s) \cup ToSet(t)
  <2>1. ASSUME NEW x \in ToSet(r) PROVE x \in ToSet(s) \cup ToSet(t)
    <3>1. PICK i \in 1..(Len(s) + Len(t)) : x = r[i]
      BY <1>2, <2>1 DEF ToSet
    <3>2. CASE i \in 1..Len(s)
      BY <3>1, <3>2, <1>1, <1>2 DEF ToSet
    <3>3. ASSUME NEW j \in 1..Len(t), i = Len(s) + j PROVE x \in ToSet(t)
      BY <3>1, <3>3, <1>1, <1>2 DEF ToSet
    <3> QED
      BY <3>2, <3>3, <1>3
  <2>2. ToSet(s) \subseteq ToSet(r)
    BY <1>1, <1>2, <1>4 DEF ToSet
  <2>3. ToSet(t) \subseteq ToSet(r)
    BY <1>1, <1>2, <1>5 DEF ToSet
  <2> QED
    BY <2>1, <2>2, <2>3
<1>7. ASSUME IsInjective(s), IsInjective(t), ToSet(s) \cap ToSet(t) = {},
             NEW a \in DOMAIN r, NEW b \in DOMAIN r, r[a] = r[b]
      PROVE  a = b
  <2>1. CASE a \in 1..Len(s) /\ b \in 1..Len(s)
    BY <1>1, <1>2, <1>7, <2>1 DEF IsInjective
  <2>2. CASE a \in 1..Len(s) /\ b \notin 1..Len(s)
    <3>1. PICK j \in 1..Len(t) : b = Len(s) + j
      BY <1>2, <1>3, <2>2
    <3>2. s[a] = t[j]
      BY <1>1, <1>7, <2>2, <3>1
    <3>3. s[a] \in ToSet(s) /\ t[j] \in ToSet(t)
      BY <1>2, <2>2 DEF ToSet
    <3> QED
      BY <1>7, <3>2, <3>3
  <2>3. CASE a \notin 1..Len(s) /\ b \in 1..Len(s)
    <3>1. PICK j \in 1..Len(t) : a = Len(s) + j
      BY <1>2, <1>3, <2>3
    <3>2. s[b] = t[j]
      BY <1>1, <1>7, <2>3, <3>1
    <3>3. s[b] \in ToSet(s) /\ t[j] \in ToSet(t)
      BY <1>2, <2>3 DEF ToSet
    <3> QED
      BY <1>7, <3>2, <3>3
  <2>4. CASE a \notin 1..Len(s) /\ b \notin 1..Len(s)
    <3>1. PICK i \in 1..Len(t), j \in 1..Len(t) : a = Len(s) + i /\ b = Len(s) + j
      BY <1>2, <1>3, <2>4
    <3>2. t[i] = t[j]
      BY <1>1, <1>7, <3>1
    <3> QED
      BY <1>2, <1>7, <3>1, <3>2 DEF IsInjective
  <2> QED
    BY <2>1, <2>2, <2>3, <2>4
<1>8. IsInjective(s) /\ IsInjective(t) /\ ToSet(s) \cap ToSet(t) = {} => IsInjective(r)
  BY <1>7, Zenon DEF IsInjective
<1> QED
  BY <1>1, <1>6, <1>8 DEF r

\* A stack without duplicates, its top and the rest.
LEMMA LastElement ==
    ASSUME NEW V, NEW s \in Seq(V), s # <<>>, IsInjective(s)
    PROVE  /\ Last(s) \in ToSet(s) /\ Last(s) \in V
           /\ Front(s) \in Seq(V) /\ IsInjective(Front(s))
           /\ ToSet(Front(s)) = ToSet(s) \ {Last(s)}
<1>1. Len(s) \in Nat /\ Len(s) # 0 /\ DOMAIN s = 1..Len(s) /\ \A i \in 1..Len(s) : s[i] \in V
  OBVIOUS
<1> DEFINE n == Len(s)
           f == Front(s)
<1>2. /\ f \in Seq(V) /\ Len(f) = n - 1 /\ DOMAIN f = 1..(n - 1)
      /\ \A i \in 1..(n - 1) : f[i] = s[i]
  BY <1>1 DEF Front
<1>3. Last(s) = s[n]
  BY DEF Last
<1>4. n \in Nat /\ n # 0 /\ DOMAIN s = 1..n
  BY <1>1
<1> HIDE DEF n, f
<1>5. n \in 1..n /\ \A i \in 1..n : i # n => i \in 1..(n - 1)
  BY <1>4
<1>6. \A i \in 1..(n - 1) : i \in 1..n /\ i # n
  BY <1>4
<1>7. \A i \in 1..n, j \in 1..n : s[i] = s[j] => i = j
  BY <1>4 DEF IsInjective
<1>8. ToSet(f) = ToSet(s) \ {s[n]}
  BY <1>2, <1>4, <1>5, <1>6, <1>7 DEF ToSet
<1>9. IsInjective(f)
  BY <1>2, <1>6, <1>7 DEF IsInjective
<1>10. s[n] \in ToSet(s) /\ s[n] \in V
  BY <1>1, <1>4, <1>5 DEF ToSet, n
<1> QED
  BY <1>2, <1>3, <1>8, <1>9, <1>10 DEF f

\* What Among keeps, and in which order.
LEMMA AmongKeeps ==
    ASSUME NEW V, NEW s \in Seq(V), NEW set
    PROVE  /\ Among(s, set) \in Seq(V)
           /\ ToSet(Among(s, set)) = ToSet(s) \cap set
           /\ IsInjective(s) => IsInjective(Among(s, set))
<1>1. PICK t : t = Among(s, set)
  OBVIOUS
<1>2. PICK h : t \in Seq(V) /\ Picks(s, t, set, Len(s), h)
  BY <1>1, AmongPicks
<1>3. DOMAIN t = 1..Len(t) /\ DOMAIN s = 1..Len(s) /\ Len(t) \in Nat /\ Len(s) \in Nat
  BY <1>2
<1>4. ToSet(t) = ToSet(s) \cap set
  <2>1. \A a \in 1..Len(t) : t[a] = s[h[a]] /\ t[a] \in set /\ h[a] \in 1..Len(s)
    BY <1>2 DEF Picks
  <2>2. \A j \in 1..Len(s) : s[j] \in set => \E a \in 1..Len(t) : t[a] = s[j]
    BY <1>2 DEF Picks
  <2> QED
    BY <1>3, <2>1, <2>2 DEF ToSet
<1>5. ASSUME IsInjective(s) PROVE IsInjective(t)
  <2> SUFFICES ASSUME NEW a \in 1..Len(t), NEW b \in 1..Len(t), t[a] = t[b] PROVE a = b
    BY <1>3 DEF IsInjective
  <2>1. h[a] = h[b] /\ h[a] \in 1..Len(s) /\ h[b] \in 1..Len(s)
    BY <1>2, <1>3, <1>5 DEF Picks, IsInjective
  <2>2. ~(h[a] < h[b]) /\ ~(h[b] < h[a])
    BY <2>1, <1>3
  <2> QED
    BY <1>2, <1>3, <2>2 DEF Picks
<1> QED
  BY <1>1, <1>2, <1>4, <1>5

\* Filtering keeps the order of the elements that stay.
LEMMA AmongOrder ==
    ASSUME NEW V, NEW s \in Seq(V), NEW set, IsInjective(s),
           NEW t, t = Among(s, set), NEW a \in 1..Len(t), NEW i \in 1..Len(s), s[i] \in set,
           NEW j \in 1..Len(s), i < j, s[j] = t[a]
    PROVE  \E b \in 1..(a - 1) : t[b] = s[i]
<1>1. PICK h : t \in Seq(V) /\ Picks(s, t, set, Len(s), h)
  BY AmongPicks
<1>2. Len(t) \in Nat /\ Len(s) \in Nat /\ DOMAIN s = 1..Len(s) /\ a \in 1..Len(t)
  BY <1>1
<1>3. h[a] = j
  <2>1. h[a] \in 1..Len(s) /\ s[h[a]] = t[a]
    BY <1>1, <1>2 DEF Picks
  <2> QED
    BY <1>2, <2>1 DEF IsInjective
<1>4. PICK b \in 1..Len(t) : h[b] = i
  BY <1>1 DEF Picks
<1>5. b < a
  <2>1. ~(a < b) /\ a # b
    <3>1. a < b => h[a] < h[b]
      BY <1>1, <1>2 DEF Picks
    <3> QED
      BY <1>2, <1>3, <1>4, <3>1
  <2> QED
    BY <2>1, <1>2
<1>6. t[b] = s[i] /\ b \in 1..(a - 1)
  BY <1>1, <1>2, <1>4, <1>5 DEF Picks
<1> QED
  BY <1>6

-----------------------------------------------------------------------------
(* The generator's order. *)

Netlist(n) ==
    n \in Seq(Components) /\ \A c \in DOMAIN n : Len(n[c].ins) = PinCount(n[c].kind)

\* A list of components, each once.
Nodes(n, nodes) == nodes \in Seq(Comps(n)) /\ IsInjective(nodes)

\* Kahn's net_writer is a node that drives the net.
LEMMA WriterDrives ==
    ASSUME NEW n, NEW nodes, Nodes(n, nodes), NEW net, NEW d \in Writer(n, nodes, net)
    PROVE  d \in ToSet(nodes) /\ n[d].out = net
<1> DEFINE D == {i \in DOMAIN nodes : n[nodes[i]].out = net}
<1>2. D # {} /\ d = nodes[CHOOSE i \in D : \A j \in D : j <= i]
  BY DEF Writer
<1>3. \E i \in D : \A j \in D : j <= i
  <2> DEFINE K == {k \in Nat : \A j \in D : j <= k}
  <2>1. DOMAIN nodes = 1..Len(nodes) /\ Len(nodes) \in Nat
    BY DEF Nodes
  <2>2. K \in SUBSET Nat /\ Len(nodes) \in K
    BY <2>1
  <2>3. PICK m \in K : \A y \in K : ~(<<y, m>> \in OpToRel(<, Nat))
    BY <2>2, WFMin, NatLessThanWellFounded
  <2>4. \A y \in K : ~(y < m)
    BY <2>2, <2>3 DEF OpToRel
  <2>5. ASSUME m \notin D PROVE FALSE
    <3>1. PICK i \in D : TRUE
      BY <1>2
    <3>2. i \in 1..Len(nodes) /\ i <= m /\ m # i
      BY <2>1, <2>5, <3>1
    <3>3. m - 1 \in Nat /\ \A j \in D : j <= m - 1
      BY <2>1, <2>5, <3>2
    <3> QED
      BY <2>4, <3>2, <3>3
  <2> QED
    BY <2>3, <2>5
<1>4. (CHOOSE i \in D : \A j \in D : j <= i) \in D
  BY <1>3
<1> QED
  BY <1>2, <1>4 DEF ToSet

\* What topoOrder counts as a node's predecessor drives one of its inputs.
LEMMA PredsAre ==
    ASSUME NEW n, NEW nodes, Nodes(n, nodes), NEW c, NEW d \in Preds(n, nodes, c)
    PROVE  /\ d \in ToSet(nodes) /\ d # c
           /\ n[d].out \in Ins(n, c)
<1>1. PICK net \in Ins(n, c) : d \in Writer(n, nodes, net) /\ d # c
  BY DEF Preds
<1> QED
  BY <1>1, WriterDrives

\* The stack algorithm after k pops: what it has popped comes after all it
\* depends on, and what no longer waits for anything has been pushed.
Ordered(n, nodes, order) ==
    /\ order \in Seq(Comps(n)) /\ IsInjective(order) /\ ToSet(order) \subseteq ToSet(nodes)
    /\ \A i \in 1..Len(order) : \A d \in Preds(n, nodes, order[i]) : \E j \in 1..(i - 1) : order[j] = d
Pushed(n, nodes, order, stack) ==
    /\ stack \in Seq(Comps(n)) /\ IsInjective(stack) /\ ToSet(stack) \subseteq ToSet(nodes)
    /\ ToSet(order) \cap ToSet(stack) = {}
    /\ \A c \in ToSet(stack) : Preds(n, nodes, c) \subseteq ToSet(order)
    /\ \A c \in ToSet(nodes) :
         Preds(n, nodes, c) \subseteq ToSet(order) => c \in ToSet(order) \cup ToSet(stack)
KahnInv(n, nodes, st, k) ==
    /\ Ordered(n, nodes, st.order) /\ Pushed(n, nodes, st.order, st.stack)
    /\ st.stack = <<>> \/ Len(st.order) = k

\* The stack starts with the nodes that wait for nothing.
LEMMA KahnBegins ==
    ASSUME NEW n, NEW nodes, Nodes(n, nodes)
    PROVE  KahnInv(n, nodes, KahnStart(n, nodes), 0)
<1> DEFINE A == {c \in Comps(n) : Preds(n, nodes, c) = {}}
<1>1. PICK t : t = Among(nodes, A)
  OBVIOUS
<1>2. t \in Seq(Comps(n)) /\ IsInjective(t) /\ ToSet(t) = ToSet(nodes) \cap A
  BY <1>1, AmongKeeps DEF Nodes
<1>3. KahnStart(n, nodes).order = <<>> /\ KahnStart(n, nodes).stack = t
  BY <1>1 DEF KahnStart
<1>4. ToSet(<<>>) = {} /\ <<>> \in Seq(Comps(n)) /\ IsInjective(<<>>) /\ Len(<<>>) = 0
  BY DEF ToSet, IsInjective
<1>5. ToSet(nodes) \subseteq Comps(n)
  BY Elements DEF Nodes
<1>6. Ordered(n, nodes, <<>>)
  BY <1>4 DEF Ordered
<1>7. Pushed(n, nodes, <<>>, t)
  BY <1>2, <1>4, <1>5 DEF Pushed
<1> QED
  BY <1>3, <1>4, <1>6, <1>7 DEF KahnInv

\* Each pop of topoOrder keeps the order and pushes what has become ready.
LEMMA KahnPops ==
    ASSUME NEW n, NEW nodes, Nodes(n, nodes), NEW st, NEW k \in Nat, KahnInv(n, nodes, st, k)
    PROVE  KahnInv(n, nodes, KahnPop(n, nodes, st), k + 1)
<1> DEFINE P(c) == Preds(n, nodes, c)
<1>1. PICK order, stack : order = st.order /\ stack = st.stack
  OBVIOUS
<1>2. Ordered(n, nodes, order) /\ Pushed(n, nodes, order, stack)
  BY <1>1 DEF KahnInv
<1>3. CASE stack = <<>>
  <2>1. KahnPop(n, nodes, st) = st
    BY <1>1, <1>3 DEF KahnPop
  <2> QED
    BY <1>1, <1>2, <1>3, <2>1 DEF KahnInv
<1>4. CASE stack # <<>>
  <2>1. PICK u : u = Last(stack)
    OBVIOUS
  <2>2. PICK f : f = Front(stack)
    OBVIOUS
  <2>3. /\ u \in ToSet(stack) /\ u \in Comps(n) /\ f \in Seq(Comps(n)) /\ IsInjective(f)
        /\ ToSet(f) = ToSet(stack) \ {u}
    BY <1>2, <1>4, <2>1, <2>2, LastElement DEF Pushed
  <2> DEFINE done == ToSet(order) \cup {u}
             ready == {c \in Comps(n) : u \in P(c) /\ P(c) \subseteq done}
  <2>4. PICK r : r = Among(nodes, ready)
    OBVIOUS
  <2>5. r \in Seq(Comps(n)) /\ IsInjective(r) /\ ToSet(r) = ToSet(nodes) \cap ready
    BY <2>4, AmongKeeps DEF Nodes
  <2>6. KahnPop(n, nodes, st) = [order |-> Append(order, u), stack |-> f \o r]
    BY <1>1, <1>4, <2>1, <2>2, <2>4 DEF KahnPop
  <2>7. PICK o : o = Append(order, u)
    OBVIOUS
  <2>8. /\ o \in Seq(Comps(n)) /\ Len(o) = Len(order) + 1 /\ Len(order) \in Nat
        /\ \A i \in 1..Len(order) : o[i] = order[i]
        /\ o[Len(order) + 1] = u /\ ToSet(o) = ToSet(order) \cup {u} /\ IsInjective(o)
    <3>1. u \notin ToSet(order) /\ order \in Seq(Comps(n)) /\ IsInjective(order)
      BY <1>2, <2>3 DEF Ordered, Pushed
    <3> QED
      BY <2>3, <2>7, <3>1, AppendElements
  <2>9. ASSUME NEW c \in ToSet(order) PROVE u \notin P(c) /\ P(c) \subseteq ToSet(order)
    <3>1. order \in Seq(Comps(n))
      BY <1>2 DEF Ordered
    <3>2. PICK i \in 1..Len(order) : order[i] = c
      BY <3>1, <2>9, Elements
    <3>3. \A d \in P(c) : \E j \in 1..(i - 1) : order[j] = d
      BY <1>2, <3>2 DEF Ordered
    <3>4. Len(order) \in Nat /\ ToSet(order) = {order[j] : j \in 1..Len(order)}
      BY <3>1, Elements
    <3>5. \A j \in 1..(i - 1) : j \in 1..Len(order)
      BY <3>4
    <3>6. P(c) \subseteq ToSet(order)
      BY <3>3, <3>4, <3>5
    <3> QED
      BY <3>6, <1>2, <2>3 DEF Pushed
  <2>10. ToSet(f) \cap ToSet(r) = {} /\ ToSet(o) \cap ToSet(f) = {} /\ ToSet(o) \cap ToSet(r) = {}
    <3>1. \A c \in ToSet(stack) : u \notin P(c)
      BY <1>2, <2>3 DEF Pushed
    <3>2. \A c \in ToSet(r) : u \in P(c)
      BY <2>5
    <3>3. u \notin P(u)
      BY PredsAre, Zenon
    <3> QED
      BY <1>2, <2>3, <2>8, <2>9, <3>1, <3>2, <3>3 DEF Pushed
  <2>11. PICK t : t = f \o r
    OBVIOUS
  <2>12. t \in Seq(Comps(n)) /\ IsInjective(t) /\ ToSet(t) = ToSet(f) \cup ToSet(r)
    BY <2>3, <2>5, <2>10, <2>11, JoinElements
  <2>13. Ordered(n, nodes, o)
    <3>1. ToSet(o) \subseteq ToSet(nodes)
      BY <1>2, <2>3, <2>8 DEF Ordered, Pushed
    <3>2. ASSUME NEW i \in 1..Len(o), NEW d \in P(o[i]) PROVE \E j \in 1..(i - 1) : o[j] = d
      <4>1. CASE i \in 1..Len(order)
        <5>1. PICK j \in 1..(i - 1) : order[j] = d
          BY <1>2, <2>8, <3>2, <4>1 DEF Ordered
        <5>2. j \in 1..Len(order)
          BY <2>8, <4>1
        <5> QED
          BY <2>8, <5>1, <5>2
      <4>2. CASE i = Len(order) + 1
        <5>1. d \in ToSet(order)
          BY <1>2, <2>3, <2>8, <3>2, <4>2 DEF Pushed
        <5>2. order \in Seq(Comps(n))
          BY <1>2 DEF Ordered
        <5>3. PICK j \in 1..Len(order) : order[j] = d
          BY <5>1, <5>2, Elements
        <5>4. j \in 1..(i - 1)
          BY <2>8, <4>2
        <5> QED
          BY <2>8, <5>3, <5>4
      <4> QED
        BY <2>8, <4>1, <4>2
    <3> QED
      BY <2>8, <3>1, <3>2 DEF Ordered
  <2>14. Pushed(n, nodes, o, t)
    <3>1. ToSet(t) \subseteq ToSet(nodes)
      BY <1>2, <2>3, <2>5, <2>12 DEF Pushed
    <3>2. ToSet(o) \cap ToSet(t) = {}
      BY <2>10, <2>12
    <3>3. ASSUME NEW c \in ToSet(t) PROVE P(c) \subseteq ToSet(o)
      <4>1. CASE c \in ToSet(f)
        BY <1>2, <2>3, <2>8, <4>1 DEF Pushed
      <4>2. CASE c \in ToSet(r)
        BY <2>5, <2>8, <4>2
      <4> QED
        BY <2>12, <3>3, <4>1, <4>2
    <3>4. ASSUME NEW c \in ToSet(nodes), P(c) \subseteq ToSet(o)
          PROVE  c \in ToSet(o) \cup ToSet(t)
      <4>1. CASE u \in P(c)
        <5>1. c \in Comps(n)
          BY Elements DEF Nodes
        <5> QED
          BY <2>5, <2>8, <2>12, <3>4, <4>1, <5>1
      <4>2. CASE u \notin P(c)
        <5>1. P(c) \subseteq ToSet(order)
          BY <2>8, <3>4, <4>2
        <5>2. c \in ToSet(order) \cup ToSet(stack)
          BY <1>2, <5>1 DEF Pushed
        <5> QED
          BY <2>3, <2>8, <2>12, <5>2
      <4> QED
        BY <4>1, <4>2
    <3> QED
      BY <2>12, <3>1, <3>2, <3>3, <3>4 DEF Pushed
  <2>15. Len(o) = k + 1
    BY <1>1, <1>4, <2>8 DEF KahnInv
  <2>16. KahnPop(n, nodes, st).order = o /\ KahnPop(n, nodes, st).stack = t
    BY <2>6, <2>7, <2>11
  <2> QED
    BY <2>13, <2>14, <2>15, <2>16 DEF KahnInv
<1> QED
  BY <1>3, <1>4

\* Sorted, unfolded: the states of the stack algorithm.
KahnRun(n, nodes, m, run) ==
    run[0] = KahnStart(n, nodes) /\ \A k \in 1..m : run[k] = KahnPop(n, nodes, run[k - 1])

\* Sorted is the last of the states the stack algorithm goes through.
LEMMA SortedUnfolds ==
    ASSUME NEW n, NEW nodes, Nodes(n, nodes), NEW m \in Nat, m = Len(nodes)
    PROVE  \E run : Sorted(n, nodes) = run[m].order /\ KahnRun(n, nodes, m, run)
<1> DEFINE R == [order : Seq(Comps(n)), stack : Seq(Comps(n))]
           S == {st \in R : \E k \in Nat : KahnInv(n, nodes, st, k)}
           G == [k \in 1..m |-> [st \in S |-> KahnPop(n, nodes, st)]]
           Def(f) == f = [k \in 0..m |-> IF k = 0 THEN KahnStart(n, nodes)
                                         ELSE KahnPop(n, nodes, f[k - 1])]
           run == CHOOSE f : Def(f)
<1>1. KahnStart(n, nodes) \in S
  <2>1. KahnInv(n, nodes, KahnStart(n, nodes), 0)
    BY KahnBegins
  <2>2. KahnStart(n, nodes).order \in Seq(Comps(n)) /\ KahnStart(n, nodes).stack \in Seq(Comps(n))
    BY <2>1 DEF KahnInv, Ordered, Pushed
  <2>3. KahnStart(n, nodes) \in R
    BY <2>2 DEF KahnStart
  <2> QED
    BY <2>1, <2>3
<1>2. ASSUME NEW st \in S PROVE KahnPop(n, nodes, st) \in S
  <2>1. PICK k \in Nat : KahnInv(n, nodes, st, k)
    BY <1>2
  <2>2. PICK t : t = KahnPop(n, nodes, st)
    OBVIOUS
  <2>3. KahnInv(n, nodes, t, k + 1)
    BY <2>1, <2>2, KahnPops
  <2>4. t.order \in Seq(Comps(n)) /\ t.stack \in Seq(Comps(n))
    BY <2>3 DEF KahnInv, Ordered, Pushed
  <2>5. t = st \/ t = [order |-> t.order, stack |-> t.stack]
    BY <2>2 DEF KahnPop
  <2>6. t \in R
    BY <1>2, <2>4, <2>5
  <2> QED
    BY <2>2, <2>3, <2>6
<1>3. G \in [1..m -> [S -> S]]
  BY <1>2
<1>4. \E f : Def(f)
  <2>1. PICK f : Computes(G, S, m, KahnStart(n, nodes), f)
    <3> HIDE DEF G, S
    <3> QED
      BY <1>1, <1>3, RunExists
  <2>2. ASSUME NEW k \in 1..m PROVE f[k] = KahnPop(n, nodes, f[k - 1])
    <3>1. f[k - 1] \in S
      <4>1. f \in [0..m -> S] /\ k - 1 \in 0..m
        BY <2>1 DEF Computes
      <4> HIDE DEF S
      <4> QED
        BY <4>1
    <3>2. f[k] = G[k][f[k - 1]]
      BY <2>1 DEF Computes
    <3> HIDE DEF S
    <3> QED
      BY <3>1, <3>2
  <2>3. \A k \in 0..m : k = 0 \/ k \in 1..m
    OBVIOUS
  <2>4. f \in [0..m -> S] /\ f[0] = KahnStart(n, nodes)
    BY <2>1 DEF Computes
  <2> HIDE DEF S
  <2>5. Def(f)
    BY <2>2, <2>3, <2>4
  <2> QED
    BY <2>5
<1>5. Def(run)
  <2> HIDE DEF Def
  <2> QED
    BY <1>4
<1>6. Sorted(n, nodes) = run[m].order
  BY DEF Sorted
<1> HIDE DEF run
<1>7. KahnRun(n, nodes, m, run)
  <2>1. 0 \in 0..m /\ \A k \in 1..m : k \in 0..m /\ k # 0
    OBVIOUS
  <2>2. run = [k \in 0..m |-> IF k = 0 THEN KahnStart(n, nodes) ELSE KahnPop(n, nodes, run[k - 1])]
    BY <1>5
  <2> QED
    BY <2>1, <2>2 DEF KahnRun
<1> QED
  BY <1>6, <1>7

\* Kahn's algorithm sorts, and leaves only nodes that wait for one it leaves.
LEMMA SortedIs ==
    ASSUME NEW n, NEW nodes, Nodes(n, nodes)
    PROVE  /\ Ordered(n, nodes, Sorted(n, nodes))
           /\ \A c \in ToSet(nodes) :
                Preds(n, nodes, c) \subseteq ToSet(Sorted(n, nodes)) => c \in ToSet(Sorted(n, nodes))
<1>1. PICK m \in Nat : m = Len(nodes)
  BY DEF Nodes
<1>2. PICK run : Sorted(n, nodes) = run[m].order /\ KahnRun(n, nodes, m, run)
  BY <1>1, SortedUnfolds
<1> DEFINE T == {k \in Nat : KahnInv(n, nodes, run[k], k)}
<1>3. m \in T
  <2>1. 0 \in T
    BY <1>2, KahnBegins DEF KahnRun
  <2>2. ASSUME NEW k \in 1..m, k - 1 \in T PROVE k \in T
    <3>1. k - 1 \in Nat /\ (k - 1) + 1 = k /\ k \in Nat
      OBVIOUS
    <3>2. KahnInv(n, nodes, run[k - 1], k - 1)
      BY <2>2
    <3>3. KahnInv(n, nodes, KahnPop(n, nodes, run[k - 1]), (k - 1) + 1)
      BY <3>1, <3>2, KahnPops
    <3> QED
      BY <3>1, <3>3, <1>2 DEF KahnRun
  <2>3. m \in 0..m
    OBVIOUS
  <2> HIDE DEF T
  <2> QED
    BY <2>1, <2>2, <2>3, Steps
<1>4. PICK order, stack : order = run[m].order /\ stack = run[m].stack
  OBVIOUS
<1>5. /\ Ordered(n, nodes, order) /\ Pushed(n, nodes, order, stack)
      /\ stack = <<>> \/ Len(order) = m
  BY <1>3, <1>4 DEF KahnInv
<1>6. ToSet(stack) = {}
  <2>1. CASE stack = <<>>
    BY <2>1 DEF ToSet
  <2>2. CASE Len(order) = m
    <3>1. /\ order \in Seq(Comps(n)) /\ nodes \in Seq(Comps(n)) /\ IsInjective(nodes)
          /\ IsInjective(order) /\ ToSet(order) \subseteq ToSet(nodes)
      BY <1>5 DEF Ordered, Nodes
    <3>2. /\ DOMAIN order = 1..m /\ DOMAIN nodes = 1..m
          /\ ToSet(order) = {order[i] : i \in 1..m} /\ ToSet(nodes) = {nodes[i] : i \in 1..m}
      BY <1>1, <2>2, <3>1, Elements
    <3>3. order \in Bijection(1..m, ToSet(order)) /\ nodes \in Bijection(1..m, ToSet(nodes))
      BY <3>1, <3>2 DEF Bijection, Injection, Surjection, IsInjective
    <3>4. IsFiniteSet(1..m) /\ Cardinality(1..m) = m
      BY FS_Interval
    <3>5. /\ IsFiniteSet(ToSet(order)) /\ Cardinality(ToSet(order)) = m
          /\ IsFiniteSet(ToSet(nodes)) /\ Cardinality(ToSet(nodes)) = m
      <4>1. ExistsBijection(1..m, ToSet(order)) /\ ExistsBijection(1..m, ToSet(nodes))
        BY <3>3 DEF ExistsBijection
      <4> QED
        BY <3>4, <4>1, FS_Bijection
    <3>6. ToSet(order) = ToSet(nodes)
      BY <3>1, <3>5, FS_Subset
    <3> QED
      BY <1>5, <3>6 DEF Pushed
  <2> QED
    BY <1>5, <2>1, <2>2
<1> QED
  BY <1>2, <1>4, <1>5, <1>6 DEF Pushed

\* In an order, what the algorithm has sorted comes after its predecessors.
Follows(n, nodes, order) ==
    \A i \in 1..Len(order) : order[i] \in ToSet(Sorted(n, nodes)) =>
        \A d \in Preds(n, nodes, order[i]) : \E j \in 1..(i - 1) : order[j] = d

\* The order the code is generated in: every node once, and what Kahn's
\* algorithm could sort behind all it depends on.
LEMMA TopoOrderIs ==
    ASSUME NEW n, NEW nodes, Nodes(n, nodes)
    PROVE  /\ Nodes(n, TopoOrder(n, nodes)) /\ ToSet(TopoOrder(n, nodes)) = ToSet(nodes)
           /\ Follows(n, nodes, TopoOrder(n, nodes))
<1>1. PICK s : s = Sorted(n, nodes)
  OBVIOUS
<1>2. Ordered(n, nodes, s)
  BY <1>1, SortedIs
<1>3. PICK r : r = Among(nodes, Comps(n) \ ToSet(s))
  OBVIOUS
<1>4. r \in Seq(Comps(n)) /\ IsInjective(r) /\ ToSet(r) = ToSet(nodes) \cap (Comps(n) \ ToSet(s))
  BY <1>3, AmongKeeps DEF Nodes
<1>5. PICK o : o = s \o r
  OBVIOUS
<1>6. TopoOrder(n, nodes) = o
  BY <1>1, <1>3, <1>5 DEF TopoOrder
<1>7. /\ s \in Seq(Comps(n)) /\ IsInjective(s) /\ ToSet(s) \subseteq ToSet(nodes)
      /\ Len(s) \in Nat /\ DOMAIN s = 1..Len(s)
  BY <1>2 DEF Ordered
<1>8. /\ o \in Seq(Comps(n)) /\ IsInjective(o) /\ ToSet(o) = ToSet(s) \cup ToSet(r)
      /\ Len(o) = Len(s) + Len(r) /\ \A i \in 1..Len(s) : o[i] = s[i]
  <2>1. ToSet(s) \cap ToSet(r) = {}
    BY <1>4
  <2> QED
    BY <1>4, <1>5, <1>7, <2>1, JoinElements
<1>9. ToSet(nodes) \subseteq Comps(n)
  BY Elements DEF Nodes
<1>10. ToSet(o) = ToSet(nodes)
  BY <1>4, <1>7, <1>8, <1>9
<1>11. ASSUME NEW i \in 1..Len(o), o[i] \in ToSet(s), NEW d \in Preds(n, nodes, o[i])
       PROVE  \E j \in 1..(i - 1) : o[j] = d
  <2>1. PICK a \in 1..Len(s) : s[a] = o[i]
    BY <1>7, <1>11 DEF ToSet
  <2>2. a = i
    <3>1. Len(r) \in Nat /\ DOMAIN o = 1..Len(o)
      BY <1>4, <1>8
    <3>2. o[a] = o[i] /\ a \in DOMAIN o /\ i \in DOMAIN o
      BY <1>7, <1>8, <2>1, <3>1
    <3> QED
      BY <1>8, <3>2 DEF IsInjective
  <2>3. PICK j \in 1..(i - 1) : s[j] = d
    BY <1>2, <1>11, <2>1, <2>2 DEF Ordered
  <2>4. j \in 1..Len(s)
    BY <1>7, <2>1, <2>2
  <2> QED
    BY <1>8, <2>3, <2>4
<1>12. Follows(n, nodes, o)
  BY <1>1, <1>11 DEF Follows
<1> QED
  BY <1>6, <1>8, <1>10, <1>12 DEF Nodes

-----------------------------------------------------------------------------
(* What the generator knows of a netlist. *)

\* How the sets of kinds overlap.
LEMMA Kinds ==
    /\ CombKinds \cap SeqKinds = {} /\ ClockKinds \subseteq SeqKinds
    /\ ClockKinds \cap TriKinds = {} /\ "dff" \notin TriKinds
    /\ TriKinds \subseteq CombKinds \cup SeqKinds
    /\ CombKinds = {"buf", "not", "and", "tsbuf"} /\ ClockKinds = {"clkgen", "clkdiv"}
    /\ SeqKinds = {"clkgen", "clkdiv", "dff", "treg"} /\ TriKinds = {"tsbuf", "treg"}
BY DEF CombKinds, SeqKinds, ClockKinds, TriKinds

\* The components of a netlist and the pins of each.
LEMMA ComponentsAre ==
    ASSUME NEW n, Netlist(n)
    PROVE  /\ Comps(n) = 1..Len(n) /\ Len(n) \in Nat
           /\ IsFiniteSet(Comps(n)) /\ Cardinality(Comps(n)) = Len(n)
           /\ \A c \in Comps(n) :
                /\ n[c].kind \in CombKinds \cup SeqKinds /\ n[c].out \in 0..NetCount
                /\ DOMAIN n[c].ins = 1..PinCount(n[c].kind)
                /\ \A k \in 1..PinCount(n[c].kind) : n[c].ins[k] \in 0..NetCount
<1>1. n \in Seq(Components) /\ Len(n) \in Nat /\ Comps(n) = 1..Len(n)
  BY DEF Netlist, Comps
<1>2. IsFiniteSet(1..Len(n)) /\ Cardinality(1..Len(n)) = Len(n)
  BY <1>1, FS_Interval
<1>3. ASSUME NEW c \in Comps(n)
      PROVE  /\ n[c].kind \in CombKinds \cup SeqKinds /\ n[c].out \in 0..NetCount
             /\ DOMAIN n[c].ins = 1..PinCount(n[c].kind)
             /\ \A k \in 1..PinCount(n[c].kind) : n[c].ins[k] \in 0..NetCount
  <2>1. n[c] \in Components /\ c \in DOMAIN n
    BY <1>1
  <2>2. n[c].kind \in CombKinds \cup SeqKinds /\ n[c].out \in 0..NetCount /\ n[c].ins \in Seq(0..NetCount)
    BY <2>1 DEF Components
  <2>3. Len(n[c].ins) = PinCount(n[c].kind)
    BY <2>1 DEF Netlist
  <2>4. PICK s : s = n[c].ins
    OBVIOUS
  <2>5. DOMAIN s = 1..Len(s) /\ \A k \in 1..Len(s) : s[k] \in 0..NetCount
    <3>1. s \in Seq(0..NetCount)
      BY <2>2, <2>4
    <3> QED
      BY <3>1, Elements
  <2> QED
    BY <2>2, <2>3, <2>4, <2>5
<1> QED
  BY <1>1, <1>2, <1>3

\* Select lists the components of the kinds, each once.
LEMMA SelectIs ==
    ASSUME NEW n, Netlist(n), NEW kinds
    PROVE  Nodes(n, Select(n, kinds)) /\ ToSet(Select(n, kinds)) = OfKind(n, kinds)
<1>1. PICK s : s = [c \in Comps(n) |-> c]
  OBVIOUS
<1>2. Comps(n) = 1..Len(n) /\ Len(n) \in Nat
  BY ComponentsAre
<1>3. s \in Seq(Comps(n)) /\ IsInjective(s) /\ ToSet(s) = Comps(n)
  <2>1. DOMAIN s = 1..Len(n) /\ \A i \in 1..Len(n) : s[i] = i /\ s[i] \in Comps(n)
    BY <1>1, <1>2
  <2>2. s \in [1..Len(n) -> Comps(n)]
    BY <1>1, <1>2
  <2> QED
    BY <1>2, <2>1, <2>2 DEF IsInjective, ToSet
<1>4. Select(n, kinds) = Among(s, OfKind(n, kinds))
  BY <1>1 DEF Select
<1>5. OfKind(n, kinds) \subseteq Comps(n)
  BY DEF OfKind
<1>6. PICK t : t = Among(s, OfKind(n, kinds))
  OBVIOUS
<1>7. t \in Seq(Comps(n)) /\ ToSet(t) = ToSet(s) \cap OfKind(n, kinds) /\ IsInjective(t)
  BY <1>3, <1>6, AmongKeeps
<1> QED
  BY <1>3, <1>4, <1>5, <1>6, <1>7 DEF Nodes

\* The list topologicalSortWithClocks sorts: combinational components, then clock sources.
LEMMA ClockOrderIs ==
    ASSUME NEW n, Netlist(n)
    PROVE  /\ Nodes(n, ClockOrder(n))
           /\ ToSet(ClockOrder(n)) = OfKind(n, CombKinds \cup ClockKinds)
<1>1. PICK s, t : s = Select(n, CombKinds) /\ t = Select(n, ClockKinds)
  OBVIOUS
<1>2. /\ Nodes(n, s) /\ ToSet(s) = OfKind(n, CombKinds)
      /\ Nodes(n, t) /\ ToSet(t) = OfKind(n, ClockKinds)
  BY <1>1, SelectIs
<1>3. /\ OfKind(n, CombKinds) \cap OfKind(n, ClockKinds) = {}
      /\ OfKind(n, CombKinds) \cup OfKind(n, ClockKinds) = OfKind(n, CombKinds \cup ClockKinds)
  BY Kinds DEF OfKind
<1>4. ClockOrder(n) = s \o t
  BY <1>1 DEF ClockOrder
<1>5. s \in Seq(Comps(n)) /\ t \in Seq(Comps(n)) /\ IsInjective(s) /\ IsInjective(t)
  BY <1>2 DEF Nodes
<1>6. ToSet(s) \cap ToSet(t) = {}
  BY <1>2, <1>3
<1>7. /\ s \o t \in Seq(Comps(n)) /\ IsInjective(s \o t)
      /\ ToSet(s \o t) = ToSet(s) \cup ToSet(t)
  BY <1>5, <1>6, JoinElements
<1> QED
  BY <1>2, <1>3, <1>4, <1>7 DEF Nodes

\* A net that is no bus has one driver, and Kahn's algorithm knows it.
LEMMA OneDriver ==
    ASSUME NEW n, NEW net \in Nets \ BusNets(n), NEW c \in Drivers(n, net), NEW d \in Drivers(n, net)
    PROVE  c = d
BY DEF BusNets

\* The driver of an input that is no bus is a predecessor in topoOrder.
LEMMA DriverIsPred ==
    ASSUME NEW n, Netlist(n), NEW nodes, Nodes(n, nodes), NEW c \in Comps(n),
           NEW net \in Ins(n, c) \ BusNets(n), NEW d \in Drivers(n, net), d # c, d \in ToSet(nodes)
    PROVE  d \in Preds(n, nodes, c)
<1>1. net \in Nets
  <2>1. PICK k \in 1..PinCount(n[c].kind) : net = n[c].ins[k] /\ net # 0
    BY ComponentsAre DEF Ins
  <2> QED
    BY <2>1, ComponentsAre, ConstantsAssumption DEF Nets
<1>2. Writer(n, nodes, net) # {}
  <2>1. \E i \in DOMAIN nodes : n[nodes[i]].out = net
    BY DEF ToSet, Drivers
  <2> QED
    BY <2>1 DEF Writer
<1>3. PICK e \in Writer(n, nodes, net) : TRUE
  BY <1>2
<1>4. e \in Drivers(n, net)
  <2>1. e \in ToSet(nodes) /\ n[e].out = net
    BY WriterDrives
  <2>2. ToSet(nodes) \subseteq Comps(n)
    BY Elements DEF Nodes
  <2> QED
    BY <2>1, <2>2 DEF Drivers
<1>5. e = d
  BY <1>1, <1>4, OneDriver
<1>6. d \in UNION {Writer(n, nodes, m) : m \in Ins(n, c)}
  BY <1>3, <1>5
<1> QED
  BY <1>6 DEF Preds

\* The components phase 2b runs again are closed under reading.
LEMMA AffectedIs ==
    ASSUME NEW n
    PROVE  /\ TriAffected(n) \subseteq OfKind(n, CombKinds)
           /\ \A c \in OfKind(n, CombKinds) :
                Ins(n, c) \cap (TriOuts(n) \cup Outs(n, TriAffected(n))) # {} => c \in TriAffected(n)
<1>1. TriAffected(n) \subseteq OfKind(n, CombKinds)
  BY DEF TriAffected
<1>2. ASSUME NEW c \in OfKind(n, CombKinds),
             Ins(n, c) \cap (TriOuts(n) \cup Outs(n, TriAffected(n))) # {},
             NEW set \in SUBSET OfKind(n, CombKinds), Closed(n, set)
      PROVE  c \in set
  <2>1. TriAffected(n) \subseteq set
    BY <1>2 DEF TriAffected
  <2>2. Outs(n, TriAffected(n)) \subseteq Outs(n, set)
    BY <2>1 DEF Outs
  <2>3. Ins(n, c) \cap (TriOuts(n) \cup Outs(n, set)) # {}
    BY <1>2, <2>2
  <2> QED
    BY <1>2, <2>3 DEF Closed
<1>3. \A c \in OfKind(n, CombKinds) :
        Ins(n, c) \cap (TriOuts(n) \cup Outs(n, TriAffected(n))) # {} => c \in TriAffected(n)
  BY <1>2 DEF TriAffected
<1> QED
  BY <1>1, <1>3

\* In a netlist without a loop Kahn's algorithm sorts every component.
LEMMA SortsAll ==
    ASSUME NEW n, LoopFree(n), NEW nodes, Nodes(n, nodes),
           ToSet(nodes) \ ToSet(Sorted(n, nodes)) \subseteq OfKind(n, CombKinds)
    PROVE  ToSet(nodes) \subseteq ToSet(Sorted(n, nodes))
<1> DEFINE rest == ToSet(nodes) \ ToSet(Sorted(n, nodes))
<1> SUFFICES ASSUME rest # {} PROVE FALSE
  OBVIOUS
<1>1. PICK c \in rest : Ins(n, c) \cap Outs(n, rest) = {}
  <2>1. ~Loop(n, rest)
    BY DEF LoopFree
  <2> QED
    BY <2>1 DEF Loop
<1>2. ASSUME NEW d \in Preds(n, nodes, c) PROVE d \in ToSet(Sorted(n, nodes))
  <2>1. d \in ToSet(nodes) /\ n[d].out \in Ins(n, c)
    BY PredsAre
  <2>2. n[d].out # 0
    BY <2>1 DEF Ins
  <2>3. d \notin rest
    BY <1>1, <2>1, <2>2 DEF Outs
  <2> QED
    BY <2>1, <2>3
<1>3. c \in ToSet(Sorted(n, nodes))
  BY <1>2, SortedIs
<1> QED
  BY <1>1, <1>3

\* Of an order: the i-th component comes after the other ones of the order that
\* drive the nets it reads, the buses aside.
Behind(n, order, i) ==
    \A net \in Ins(n, order[i]) \ BusNets(n) : \A d \in Drivers(n, net) :
        d # order[i] /\ d \in ToSet(order) => \E j \in 1..(i - 1) : order[j] = d

\* The stage of phase 2 runs a clock source after what feeds it, and without a
\* loop every component.
LEMMA StageIs ==
    ASSUME NEW n, Netlist(n), Compiles(n), NEW order, order = TopoOrder(n, ClockOrder(n))
    PROVE  /\ Nodes(n, order) /\ ToSet(order) = OfKind(n, CombKinds \cup ClockKinds)
           /\ \A i \in 1..Len(order) :
                LoopFree(n) \/ n[order[i]].kind \in ClockKinds => Behind(n, order, i)
<1>1. PICK nodes : nodes = ClockOrder(n)
  OBVIOUS
<1>2. Nodes(n, nodes) /\ ToSet(nodes) = OfKind(n, CombKinds \cup ClockKinds)
  BY <1>1, ClockOrderIs
<1>3. Nodes(n, order) /\ ToSet(order) = ToSet(nodes) /\ Follows(n, nodes, order)
  BY <1>1, <1>2, TopoOrderIs
<1>4. ASSUME NEW i \in 1..Len(order), LoopFree(n) \/ n[order[i]].kind \in ClockKinds
      PROVE  Behind(n, order, i)
  <2>1. order[i] \in ToSet(nodes) /\ order[i] \in Comps(n)
    <3>1. order \in Seq(Comps(n))
      BY <1>3 DEF Nodes
    <3> QED
      BY <1>3, <3>1, Elements
  <2>2. OfKind(n, ClockKinds) \subseteq ToSet(Sorted(n, nodes))
    BY <1>1 DEF Compiles
  <2>3. order[i] \in ToSet(Sorted(n, nodes))
    <3>1. CASE LoopFree(n)
      <4>1. ToSet(nodes) \ ToSet(Sorted(n, nodes)) \subseteq OfKind(n, CombKinds)
        BY <1>2, <2>2 DEF OfKind
      <4> QED
        BY <1>2, <2>1, <3>1, <4>1, SortsAll
    <3>2. CASE n[order[i]].kind \in ClockKinds
      BY <2>1, <2>2, <3>2 DEF OfKind
    <3> QED
      BY <1>4, <3>1, <3>2
  <2>4. ASSUME NEW net \in Ins(n, order[i]) \ BusNets(n), NEW d \in Drivers(n, net),
               d # order[i], d \in ToSet(order)
        PROVE  d \in Preds(n, nodes, order[i])
    BY <1>2, <1>3, <2>1, <2>4, DriverIsPred
  <2> QED
    BY <1>3, <2>3, <2>4 DEF Behind, Follows
<1> QED
  BY <1>2, <1>3, <1>4

\* Without a loop the order phase 2b filters runs every component after what feeds it.
LEMMA SortedOrderIs ==
    ASSUME NEW n, Netlist(n), NEW order, order = TopoOrder(n, Select(n, CombKinds))
    PROVE  /\ Nodes(n, order) /\ ToSet(order) = OfKind(n, CombKinds)
           /\ LoopFree(n) => \A i \in 1..Len(order) : Behind(n, order, i)
<1>1. PICK nodes : nodes = Select(n, CombKinds)
  OBVIOUS
<1>2. Nodes(n, nodes) /\ ToSet(nodes) = OfKind(n, CombKinds)
  BY <1>1, SelectIs
<1>3. Nodes(n, order) /\ ToSet(order) = ToSet(nodes) /\ Follows(n, nodes, order)
  BY <1>1, <1>2, TopoOrderIs
<1>4. ASSUME NEW i \in 1..Len(order), LoopFree(n)
      PROVE  Behind(n, order, i)
  <2>1. order[i] \in ToSet(nodes) /\ order[i] \in Comps(n)
    <3>1. order \in Seq(Comps(n))
      BY <1>3 DEF Nodes
    <3> QED
      BY <1>3, <3>1, Elements
  <2>2. order[i] \in ToSet(Sorted(n, nodes))
    <3>1. ToSet(nodes) \ ToSet(Sorted(n, nodes)) \subseteq OfKind(n, CombKinds)
      BY <1>2
    <3> QED
      BY <1>2, <1>4, <2>1, <3>1, SortsAll
  <2>3. ASSUME NEW net \in Ins(n, order[i]) \ BusNets(n), NEW d \in Drivers(n, net),
               d # order[i], d \in ToSet(order)
        PROVE  d \in Preds(n, nodes, order[i])
    BY <1>2, <1>3, <2>1, <2>3, DriverIsPred
  <2> QED
    BY <1>3, <2>2, <2>3 DEF Behind, Follows
<1> QED
  BY <1>2, <1>3, <1>4

\* The components phase 2b runs again, in the order it runs them in.
LEMMA AffectedOrderIs ==
    ASSUME NEW n, Netlist(n), NEW sorted, sorted = TopoOrder(n, Select(n, CombKinds)),
           NEW order, order = Among(sorted, TriAffected(n))
    PROVE  /\ Nodes(n, order) /\ ToSet(order) = TriAffected(n)
           /\ LoopFree(n) => \A i \in 1..Len(order) : Behind(n, order, i)
<1>1. /\ Nodes(n, sorted) /\ ToSet(sorted) = OfKind(n, CombKinds)
      /\ LoopFree(n) => \A i \in 1..Len(sorted) : Behind(n, sorted, i)
  BY SortedOrderIs
<1>2. TriAffected(n) \subseteq OfKind(n, CombKinds)
  BY AffectedIs
<1>3. sorted \in Seq(Comps(n)) /\ IsInjective(sorted)
  BY <1>1 DEF Nodes
<1>4. /\ order \in Seq(Comps(n)) /\ IsInjective(order)
      /\ ToSet(order) = ToSet(sorted) \cap TriAffected(n)
  BY <1>3, AmongKeeps
<1>5. ToSet(order) = TriAffected(n)
  BY <1>1, <1>2, <1>4
<1>6. ASSUME LoopFree(n), NEW i \in 1..Len(order),
             NEW net \in Ins(n, order[i]) \ BusNets(n), NEW d \in Drivers(n, net),
             d # order[i], d \in ToSet(order)
      PROVE  \E b \in 1..(i - 1) : order[b] = d
  <2>1. order[i] \in ToSet(sorted) /\ d \in ToSet(sorted) /\ d \in TriAffected(n)
    <3>1. order[i] \in ToSet(order)
      BY <1>4, Elements
    <3> QED
      BY <1>4, <1>6, <3>1
  <2>2. PICK j \in 1..Len(sorted) : sorted[j] = order[i]
    BY <1>3, <2>1, Elements
  <2>3. PICK k \in 1..(j - 1) : sorted[k] = d
    BY <1>1, <1>6, <2>1, <2>2 DEF Behind
  <2>4. k \in 1..Len(sorted) /\ k < j
    BY <1>3, <2>2, <2>3, Elements
  <2>5. sorted[k] \in TriAffected(n) /\ sorted[j] = order[i]
    BY <2>1, <2>2, <2>3
  <2>6. \E b \in 1..(i - 1) : order[b] = sorted[k]
    <3>1. PICK set : set = TriAffected(n) /\ order = Among(sorted, set)
      OBVIOUS
    <3>2. PICK V : V = Comps(n)
      OBVIOUS
    <3>3. sorted \in Seq(V) /\ IsInjective(sorted) /\ order = Among(sorted, set) /\ i \in 1..Len(order)
      BY <1>3, <3>1, <3>2
    <3>4. /\ k \in 1..Len(sorted) /\ j \in 1..Len(sorted) /\ k < j
          /\ sorted[k] \in set /\ sorted[j] = order[i]
      BY <2>4, <2>5, <3>1
    <3> QED
      BY <3>3, <3>4, AmongOrder
  <2> QED
    BY <2>3, <2>6
<1>7. LoopFree(n) => \A i \in 1..Len(order) : Behind(n, order, i)
  BY <1>6 DEF Behind
<1> QED
  BY <1>4, <1>5, <1>7 DEF Nodes

-----------------------------------------------------------------------------
(* What one component's function does to the state. *)

States == [w : [0..NetCount -> Bit], cout : [Comps(nl) -> Bit], oe : [Comps(nl) -> BOOLEAN],
           q : [Comps(nl) -> [v : Bit, prev : Bit]]]

\* The circuit as compiled.
Compiled == Netlist(nl) /\ Compiles(nl) /\ gen = Generate(nl)

\* A pin reads a bit, that of its net.
LEMMA InIsBit ==
    ASSUME Netlist(nl), NEW s \in States, NEW c \in Comps(nl), NEW k \in 1..PinCount(nl[c].kind)
    PROVE  In(s, c, k) \in Bit /\ nl[c].ins[k] \in 0..NetCount
<1>1. nl[c].ins[k] \in 0..NetCount
  BY ComponentsAre
<1>2. s.w \in [0..NetCount -> Bit]
  BY DEF States
<1> QED
  BY <1>1, <1>2 DEF In

\* The pins of each kind.
LEMMA PinCounts ==
    /\ PinCount("clkgen") = 0 /\ PinCount("clkdiv") = 1 /\ PinCount("buf") = 1 /\ PinCount("not") = 1
    /\ PinCount("and") = 2 /\ PinCount("tsbuf") = 2 /\ PinCount("dff") = 2 /\ PinCount("treg") = 2
BY DEF PinCount

\* A combinational component computes a bit.
LEMMA ValueIsBit ==
    ASSUME Netlist(nl), NEW s \in States, NEW c \in Comps(nl), nl[c].kind \in CombKinds
    PROVE  Value(s, c) \in Bit
<1>1. \A k \in 1..PinCount(nl[c].kind) : In(s, c, k) \in Bit
  BY InIsBit
<1>2. nl[c].kind \in {"buf", "not", "and", "tsbuf"}
  BY Kinds
<1>3. CASE nl[c].kind \in {"buf", "tsbuf"}
  <2>1. 1 \in 1..PinCount(nl[c].kind)
    BY <1>3, PinCounts
  <2>2. Value(s, c) = In(s, c, 1)
    BY <1>3 DEF Value
  <2> QED
    BY <1>1, <2>1, <2>2
<1>4. CASE nl[c].kind = "not"
  <2>1. 1 \in 1..PinCount(nl[c].kind)
    BY <1>4, PinCounts
  <2>2. Value(s, c) = 1 - In(s, c, 1)
    BY <1>4 DEF Value
  <2>3. In(s, c, 1) \in Bit
    BY <1>1, <2>1
  <2> QED
    BY <2>2, <2>3 DEF Bit
<1>5. CASE nl[c].kind = "and"
  <2>1. 1 \in 1..PinCount(nl[c].kind) /\ 2 \in 1..PinCount(nl[c].kind)
    BY <1>5, PinCounts
  <2>2. Value(s, c) = In(s, c, 1) * In(s, c, 2)
    BY <1>5 DEF Value
  <2>3. In(s, c, 1) \in Bit /\ In(s, c, 2) \in Bit
    BY <1>1, <2>1
  <2> QED
    BY <2>2, <2>3 DEF Bit
<1> QED
  BY <1>2, <1>3, <1>4, <1>5

\* Driving an output writes its net and nothing else, or nothing at all.
LEMMA DriveIs ==
    ASSUME Netlist(nl), NEW s \in States, NEW c \in Comps(nl), NEW v \in Bit,
           NEW t, t = Drive(s, c, v)
    PROVE  /\ t \in States /\ t.cout = s.cout /\ t.oe = s.oe /\ t.q = s.q
           /\ \A net \in 0..NetCount : net # nl[c].out \/ net = 0 => t.w[net] = s.w[net]
           /\ nl[c].out # 0 => t.w[nl[c].out] = v
<1>1. nl[c].out \in 0..NetCount
  BY ComponentsAre
<1>2. CASE nl[c].out = 0
  BY <1>2 DEF Drive
<1>3. CASE nl[c].out # 0
  <2>1. t = [s EXCEPT !.w[nl[c].out] = v]
    BY <1>3 DEF Drive
  <2>2. /\ t.w = [s.w EXCEPT ![nl[c].out] = v] /\ t.cout = s.cout /\ t.oe = s.oe /\ t.q = s.q
        /\ t = [w |-> t.w, cout |-> s.cout, oe |-> s.oe, q |-> s.q]
    BY <2>1 DEF States
  <2>3. s.w \in [0..NetCount -> Bit]
    BY DEF States
  <2>4. t.w \in [0..NetCount -> Bit]
    BY <2>2, <2>3, <1>1
  <2>5. t \in States
    BY <2>2, <2>4 DEF States
  <2> QED
    BY <1>1, <1>3, <2>2, <2>3, <2>5
<1> QED
  BY <1>2, <1>3

\* Latching an output writes its own latch and enable.
LEMMA LatchIs ==
    ASSUME NEW s \in States, NEW c \in Comps(nl), NEW v \in Bit, NEW en \in BOOLEAN,
           NEW t, t = Latch(s, c, v, en)
    PROVE  /\ t \in States /\ t.w = s.w /\ t.q = s.q
           /\ t.cout[c] = v /\ t.oe[c] = en
           /\ \A d \in Comps(nl) \ {c} : t.cout[d] = s.cout[d] /\ t.oe[d] = s.oe[d]
<1>1. s.cout \in [Comps(nl) -> Bit] /\ s.oe \in [Comps(nl) -> BOOLEAN]
  BY DEF States
<1>2. /\ t.cout = [s.cout EXCEPT ![c] = v] /\ t.oe = [s.oe EXCEPT ![c] = en]
      /\ t.w = s.w /\ t.q = s.q /\ t = [w |-> s.w, cout |-> t.cout, oe |-> t.oe, q |-> s.q]
  BY DEF Latch, States
<1>3. t.cout \in [Comps(nl) -> Bit] /\ t.oe \in [Comps(nl) -> BOOLEAN]
  BY <1>1, <1>2
<1>4. t \in States
  BY <1>2, <1>3 DEF States
<1> QED
  BY <1>1, <1>2, <1>4

\* A sequential component's own state.
Keep(s, c, x) == [s EXCEPT !.q[c] = x]
\* Writing a component's own state leaves the others'.
LEMMA KeepIs ==
    ASSUME NEW s \in States, NEW c \in Comps(nl), NEW x \in [v : Bit, prev : Bit],
           NEW t, t = Keep(s, c, x)
    PROVE  /\ t \in States /\ t.w = s.w /\ t.cout = s.cout /\ t.oe = s.oe
           /\ t.q[c] = x /\ \A d \in Comps(nl) \ {c} : t.q[d] = s.q[d]
<1>1. s.q \in [Comps(nl) -> [v : Bit, prev : Bit]]
  BY DEF States
<1>2. /\ t.q = [s.q EXCEPT ![c] = x] /\ t.w = s.w /\ t.cout = s.cout /\ t.oe = s.oe
      /\ t = [w |-> s.w, cout |-> s.cout, oe |-> s.oe, q |-> t.q]
  BY DEF Keep, States
<1>3. t.q \in [Comps(nl) -> [v : Bit, prev : Bit]]
  BY <1>1, <1>2
<1>4. t \in States
  BY <1>2, <1>3 DEF States
<1> QED
  BY <1>1, <1>2, <1>4

\* c's function leaves alone what belongs to others, a bus included.
Frame(s, t, c) ==
    /\ t \in States
    /\ \A net \in 0..NetCount :
         net # nl[c].out \/ net = 0 \/ (nl[c].kind \in TriKinds /\ net \in gen.buses) =>
           t.w[net] = s.w[net]
    /\ \A d \in Comps(nl) : d # c \/ nl[c].kind \notin TriKinds =>
         t.cout[d] = s.cout[d] /\ t.oe[d] = s.oe[d]
    /\ \A d \in Comps(nl) : d # c \/ nl[c].kind \notin SeqKinds => t.q[d] = s.q[d]

\* What the function of a combinational component computes.
Computed(s, t, c) ==
    IF nl[c].kind = "tsbuf"
    THEN /\ t.cout[c] = In(s, c, 1) /\ t.oe[c] = (In(s, c, 2) = 1)
         /\ nl[c].out \notin gen.buses \cup {0} =>
              t.w[nl[c].out] = IF t.oe[c] THEN t.cout[c] ELSE 0
    ELSE nl[c].out # 0 => t.w[nl[c].out] = Value(s, c)

\* A tri-state buffer writes its latch, and its wire when it is alone on it.
LEMMA TriBufferDoes ==
    ASSUME Compiled, NEW s \in States, NEW c \in Comps(nl), nl[c].kind = "tsbuf",
           NEW t, t = ExecComb(s, c)
    PROVE  Frame(s, t, c) /\ Computed(s, t, c)
<1>1. In(s, c, 1) \in Bit /\ In(s, c, 2) \in Bit
  <2>1. 1 \in 1..PinCount(nl[c].kind) /\ 2 \in 1..PinCount(nl[c].kind)
    BY PinCounts
  <2> QED
    BY <2>1, InIsBit DEF Compiled
<1> DEFINE en == In(s, c, 2) = 1
<1>2. en \in BOOLEAN
  OBVIOUS
<1>3. PICK u : u = Latch(s, c, In(s, c, 1), en)
  OBVIOUS
<1>4. t = CopyTri(u, c)
  BY <1>3 DEF ExecComb
<1>5. /\ u \in States /\ u.w = s.w /\ u.q = s.q /\ u.cout[c] = In(s, c, 1) /\ u.oe[c] = en
      /\ \A d \in Comps(nl) \ {c} : u.cout[d] = s.cout[d] /\ u.oe[d] = s.oe[d]
  <2> HIDE DEF en
  <2> QED
    BY <1>1, <1>2, <1>3, LatchIs
<1> HIDE DEF en
<1>6. nl[c].kind \in TriKinds /\ nl[c].kind \notin SeqKinds
  BY DEF TriKinds, SeqKinds, ClockKinds
<1>7. CASE nl[c].out \in gen.buses
  <2>1. t = u
    BY <1>4, <1>7 DEF CopyTri
  <2>2. Frame(s, t, c)
    BY <1>5, <1>6, <1>7, <2>1 DEF Frame
  <2>3. Computed(s, t, c)
    BY <1>5, <1>7, <2>1 DEF Computed, en
  <2> QED
    BY <2>2, <2>3
<1>8. CASE nl[c].out \notin gen.buses
  <2> DEFINE v == IF u.oe[c] THEN u.cout[c] ELSE 0
  <2>1. v \in Bit
    BY <1>1, <1>5 DEF Bit
  <2>2. t = Drive(u, c, v)
    BY <1>4, <1>8 DEF CopyTri
  <2>3. /\ t \in States /\ t.cout = u.cout /\ t.oe = u.oe /\ t.q = u.q
        /\ \A net \in 0..NetCount : net # nl[c].out \/ net = 0 => t.w[net] = u.w[net]
        /\ nl[c].out # 0 => t.w[nl[c].out] = v
    <3> HIDE DEF v
    <3> QED
      BY <1>5, <2>1, <2>2, DriveIs DEF Compiled
  <2>4. Frame(s, t, c)
    <3> HIDE DEF v
    <3>1. \A net \in 0..NetCount : net # nl[c].out \/ net = 0 \/ net \in gen.buses => t.w[net] = s.w[net]
      BY <1>5, <1>8, <2>3
    <3> QED
      BY <1>5, <1>6, <2>3, <3>1 DEF Frame
  <2>5. Computed(s, t, c)
    BY <1>5, <1>8, <2>3 DEF Computed, en
  <2> QED
    BY <2>4, <2>5
<1> QED
  BY <1>7, <1>8

\* No component but a tri-state one drives a bus.
LEMMA PlainOffBus ==
    ASSUME Compiled, NEW c \in Comps(nl), nl[c].kind \notin TriKinds
    PROVE  nl[c].out \notin gen.buses
BY DEF Compiled, Compiles, Generate, BusNets, Drivers

\* A plain gate writes the value of its inputs to its wire.
LEMMA PlainDoes ==
    ASSUME Compiled, NEW s \in States, NEW c \in Comps(nl), nl[c].kind \in CombKinds \ TriKinds,
           NEW t, t = ExecComb(s, c)
    PROVE  Frame(s, t, c) /\ Computed(s, t, c)
<1>1. nl[c].kind \notin SeqKinds /\ nl[c].kind \notin TriKinds /\ nl[c].kind # "tsbuf"
      /\ nl[c].kind # "clkgen" /\ nl[c].kind # "clkdiv"
  BY Kinds
<1>2. PICK v \in Bit : v = Value(s, c)
  BY ValueIsBit DEF Compiled
<1>3. t = Drive(s, c, v)
  BY <1>1, <1>2 DEF ExecComb
<1>4. /\ t \in States /\ t.cout = s.cout /\ t.oe = s.oe /\ t.q = s.q
      /\ \A net \in 0..NetCount : net # nl[c].out \/ net = 0 => t.w[net] = s.w[net]
      /\ nl[c].out # 0 => t.w[nl[c].out] = v
  BY <1>3, DriveIs DEF Compiled
<1> QED
  BY <1>1, <1>2, <1>4 DEF Frame, Computed

\* A clock source writes its state and its wire; a divider samples its input.
LEMMA ClockSourceDoes ==
    ASSUME Compiled, NEW s \in States, NEW c \in Comps(nl), nl[c].kind \in ClockKinds,
           NEW t, t = ExecComb(s, c)
    PROVE  Frame(s, t, c) /\ (nl[c].kind = "clkdiv" => t.q[c].prev = In(s, c, 1))
<1>1. nl[c].kind \in SeqKinds /\ nl[c].kind \notin TriKinds /\ nl[c].kind \in {"clkgen", "clkdiv"}
  BY Kinds
<1>2. s.q[c] \in [v : Bit, prev : Bit]
  BY DEF States
<1>3. PICK x, v :
        /\ x \in [v : Bit, prev : Bit] /\ v \in Bit
        /\ t = Drive(Keep(s, c, x), c, v)
        /\ nl[c].kind = "clkdiv" => x.prev = In(s, c, 1)
  <2>1. CASE nl[c].kind = "clkgen"
    <3>1. PICK v : v = 1 - s.q[c].v
      OBVIOUS
    <3>2. v \in Bit
      BY <1>2, <3>1 DEF Bit
    <3>3. PICK x : x = [s.q[c] EXCEPT !.v = v]
      OBVIOUS
    <3>4. x \in [v : Bit, prev : Bit]
      BY <1>2, <3>2, <3>3
    <3>5. [s EXCEPT !.q[c].v = v] = Keep(s, c, x)
      BY <3>3 DEF Keep
    <3>6. t = Drive([s EXCEPT !.q[c].v = v], c, v)
      BY <2>1, <3>1 DEF ExecComb, ClkGen
    <3> QED
      BY <2>1, <3>2, <3>4, <3>5, <3>6
  <2>2. CASE nl[c].kind = "clkdiv"
    <3>1. 1 \in 1..PinCount(nl[c].kind)
      BY <2>2, PinCounts
    <3>2. PICK i \in Bit : i = In(s, c, 1)
      BY <3>1, InIsBit DEF Compiled
    <3>3. PICK v : v = IF i = 1 /\ s.q[c].prev = 0 THEN 1 - s.q[c].v ELSE s.q[c].v
      OBVIOUS
    <3>4. v \in Bit /\ 1 - v \in Bit
      BY <1>2, <3>3 DEF Bit
    <3>5. PICK x : x = [v |-> v, prev |-> i]
      OBVIOUS
    <3>6. x \in [v : Bit, prev : Bit] /\ x.prev = i
      BY <3>4, <3>5
    <3>7. t = Drive(Keep(s, c, x), c, 1 - v)
      BY <2>2, <3>2, <3>3, <3>5 DEF ExecComb, ClkDiv, Keep
    <3> QED
      BY <3>2, <3>4, <3>6, <3>7
  <2> QED
    BY <1>1, <2>1, <2>2
<1>4. PICK u : u = Keep(s, c, x)
  OBVIOUS
<1>5. /\ u \in States /\ u.w = s.w /\ u.cout = s.cout /\ u.oe = s.oe
      /\ u.q[c] = x /\ \A d \in Comps(nl) \ {c} : u.q[d] = s.q[d]
  BY <1>3, <1>4, KeepIs
<1>6. t = Drive(u, c, v)
  BY <1>3, <1>4
<1>7. /\ t \in States /\ t.cout = u.cout /\ t.oe = u.oe /\ t.q = u.q
      /\ \A net \in 0..NetCount : net # nl[c].out \/ net = 0 => t.w[net] = u.w[net]
  BY <1>3, <1>5, <1>6, DriveIs DEF Compiled
<1> QED
  BY <1>1, <1>3, <1>5, <1>7 DEF Frame

\* One step of emitCombStage.
LEMMA CombStep ==
    ASSUME Compiled, NEW s \in States, NEW c \in OfKind(nl, CombKinds \cup ClockKinds)
    PROVE  /\ Frame(s, ExecComb(s, c), c)
           /\ nl[c].kind \in CombKinds => Computed(s, ExecComb(s, c), c)
           /\ nl[c].kind = "clkdiv" => ExecComb(s, c).q[c].prev = In(s, c, 1)
<1>1. PICK t : t = ExecComb(s, c)
  OBVIOUS
<1>2. c \in Comps(nl) /\ nl[c].kind \in CombKinds \cup ClockKinds
  BY DEF OfKind
<1>3. CASE nl[c].kind = "tsbuf"
  BY <1>1, <1>2, <1>3, TriBufferDoes
<1>4. CASE nl[c].kind \in CombKinds \ TriKinds
  BY <1>1, <1>2, <1>4, PlainDoes, Kinds
<1>5. CASE nl[c].kind \in ClockKinds
  BY <1>1, <1>2, <1>5, ClockSourceDoes, Kinds
<1>6. nl[c].kind = "tsbuf" \/ nl[c].kind \in CombKinds \ TriKinds \/ nl[c].kind \in ClockKinds
  BY <1>2, Kinds
<1> QED
  BY <1>3, <1>4, <1>5, <1>6

-----------------------------------------------------------------------------
(* A run through the components of an order. *)

\* A list of components emitCombStage can call.
Stage(order) ==
    order \in Seq(Comps(nl)) /\ IsInjective(order)
    /\ ToSet(order) \subseteq OfKind(nl, CombKinds \cup ClockKinds)

Runs(run, s, order, m) ==
    /\ run[0] = s /\ \A k \in 0..m : run[k] \in States
    /\ \A k \in 1..m :
         /\ Frame(run[k - 1], run[k], order[k])
         /\ nl[order[k]].kind \in CombKinds => Computed(run[k - 1], run[k], order[k])
         /\ nl[order[k]].kind = "clkdiv" => run[k].q[order[k]].prev = In(run[k - 1], order[k], 1)

\* A stage is a run of such steps.
LEMMA CombRunIs ==
    ASSUME Compiled, NEW s, s \in States, NEW order, Stage(order), NEW m \in Nat, m = Len(order)
    PROVE  \E run : CombStage(s, order) = run[m] /\ Runs(run, s, order, m)
<1>1. PICK S : S = States
  OBVIOUS
<1> DEFINE G == [k \in 1..m |-> [x \in S |-> ExecComb(x, order[k])]]
           Def(f) == f = [k \in 0..m |-> IF k = 0 THEN s ELSE ExecComb(f[k - 1], order[k])]
           run == CHOOSE f : Def(f)
<1>2. \A k \in 1..m : order[k] \in OfKind(nl, CombKinds \cup ClockKinds)
  <2>1. order \in Seq(Comps(nl)) /\ ToSet(order) \subseteq OfKind(nl, CombKinds \cup ClockKinds)
    BY DEF Stage
  <2>2. \A k \in 1..m : order[k] \in ToSet(order)
    BY <2>1, Elements
  <2> QED
    BY <2>1, <2>2
<1>3. ASSUME NEW k \in 1..m, NEW x \in S
      PROVE  /\ ExecComb(x, order[k]) \in S
             /\ Frame(x, ExecComb(x, order[k]), order[k])
             /\ nl[order[k]].kind \in CombKinds => Computed(x, ExecComb(x, order[k]), order[k])
             /\ nl[order[k]].kind = "clkdiv" =>
                  ExecComb(x, order[k]).q[order[k]].prev = In(x, order[k], 1)
  <2>1. PICK c \in OfKind(nl, CombKinds \cup ClockKinds) : c = order[k]
    BY <1>2
  <2>2. /\ Frame(x, ExecComb(x, c), c)
        /\ nl[c].kind \in CombKinds => Computed(x, ExecComb(x, c), c)
        /\ nl[c].kind = "clkdiv" => ExecComb(x, c).q[c].prev = In(x, c, 1)
    BY <1>1, CombStep
  <2> QED
    BY <1>1, <2>1, <2>2 DEF Frame
<1>4. G \in [1..m -> [S -> S]]
  BY <1>3
<1>5. PICK f : Computes(G, S, m, s, f)
  <2> HIDE DEF G
  <2> QED
    BY <1>1, <1>4, RunExists
<1>6. f \in [0..m -> S] /\ f[0] = s /\ \A k \in 1..m : f[k] = G[k][f[k - 1]]
  BY <1>5 DEF Computes
<1>7. ASSUME NEW k \in 1..m PROVE f[k - 1] \in S /\ f[k] = ExecComb(f[k - 1], order[k])
  <2>1. k - 1 \in 0..m
    OBVIOUS
  <2>2. f[k - 1] \in S
    BY <1>6, <2>1
  <2> QED
    BY <1>6, <2>2
<1>8. Def(f)
  <2>1. \A k \in 0..m : k = 0 \/ k \in 1..m
    OBVIOUS
  <2> HIDE DEF G
  <2> QED
    BY <1>6, <1>7, <2>1
<1>9. Def(run)
  <2> HIDE DEF Def
  <2> QED
    BY <1>8
<1>10. CombStage(s, order) = run[m]
  BY DEF CombStage, CombRun
<1> HIDE DEF run
<1>11. run[0] = s /\ \A k \in 1..m : run[k] = ExecComb(run[k - 1], order[k])
  <2>1. 0 \in 0..m /\ \A k \in 1..m : k \in 0..m /\ k # 0
    OBVIOUS
  <2>2. run = [k \in 0..m |-> IF k = 0 THEN s ELSE ExecComb(run[k - 1], order[k])]
    BY <1>9
  <2> QED
    BY <2>1, <2>2
<1>12. \A k \in 0..m : run[k] \in S
  <2> DEFINE T == {k \in Nat : run[k] \in S}
  <2>1. 0 \in T
    BY <1>1, <1>11
  <2>2. ASSUME NEW k \in 1..m, k - 1 \in T PROVE k \in T
    BY <1>3, <1>11, <2>2
  <2> HIDE DEF T
  <2>3. \A k \in 0..m : k \in T
    BY <2>1, <2>2, Steps
  <2> QED
    BY <2>3 DEF T
<1>13. ASSUME NEW k \in 1..m
       PROVE  /\ Frame(run[k - 1], run[k], order[k])
              /\ nl[order[k]].kind \in CombKinds => Computed(run[k - 1], run[k], order[k])
              /\ nl[order[k]].kind = "clkdiv" => run[k].q[order[k]].prev = In(run[k - 1], order[k], 1)
  <2>1. run[k - 1] \in S
    BY <1>12
  <2> QED
    BY <1>3, <1>11, <2>1
<1>14. Runs(run, s, order, m)
  BY <1>1, <1>11, <1>12, <1>13 DEF Runs
<1> QED
  BY <1>10, <1>14

\* A component no step of a stretch writes keeps what it has.
Untouched(order, i, j, net) == \A k \in (i + 1)..j :
    net # nl[order[k]].out \/ net = 0 \/ (nl[order[k]].kind \in TriKinds /\ net \in gen.buses)
NotRun(order, i, j, c) == \A k \in (i + 1)..j : order[k] # c

\* A net no step of a stretch writes keeps its level.
LEMMA RunKeepsNet ==
    ASSUME NEW run, NEW s, NEW order, NEW m \in Nat, Runs(run, s, order, m),
           NEW i \in 0..m, NEW j \in 0..m, i <= j, NEW net \in 0..NetCount,
           Untouched(order, i, j, net)
    PROVE  run[j].w[net] = run[i].w[net]
<1> DEFINE g == [k \in Nat |-> run[k].w[net]]
<1>1. ASSUME NEW k \in (i + 1)..j PROVE g[k] = g[k - 1]
  <2>1. k \in 1..m /\ k \in Nat /\ k - 1 \in Nat
    OBVIOUS
  <2>2. run[k].w[net] = run[k - 1].w[net]
    BY <2>1 DEF Runs, Frame, Untouched
  <2> QED
    BY <2>1, <2>2
<1>2. i \in Nat /\ j \in Nat
  OBVIOUS
<1>3. g[j] = g[i]
  <2> HIDE DEF g
  <2> QED
    BY <1>1, <1>2, Unchanging
<1> QED
  BY <1>2, <1>3

\* A component no step of a stretch runs keeps its latch and its state.
LEMMA RunKeepsLatch ==
    ASSUME NEW run, NEW s, NEW order, NEW m \in Nat, Runs(run, s, order, m),
           NEW i \in 0..m, NEW j \in 0..m, i <= j, NEW c \in Comps(nl),
           NotRun(order, i, j, c)
    PROVE  run[j].cout[c] = run[i].cout[c] /\ run[j].oe[c] = run[i].oe[c] /\ run[j].q[c] = run[i].q[c]
<1> DEFINE g == [k \in Nat |-> <<run[k].cout[c], run[k].oe[c], run[k].q[c]>>]
<1>1. ASSUME NEW k \in (i + 1)..j PROVE g[k] = g[k - 1]
  <2>1. k \in 1..m /\ k \in Nat /\ k - 1 \in Nat
    OBVIOUS
  <2>2. /\ run[k].cout[c] = run[k - 1].cout[c] /\ run[k].oe[c] = run[k - 1].oe[c]
        /\ run[k].q[c] = run[k - 1].q[c]
    BY <2>1 DEF Runs, Frame, NotRun
  <2> QED
    BY <2>1, <2>2
<1>2. i \in Nat /\ j \in Nat
  OBVIOUS
<1>3. g[j] = g[i]
  <2> HIDE DEF g
  <2> QED
    BY <1>1, <1>2, Unchanging
<1>4. <<run[j].cout[c], run[j].oe[c], run[j].q[c]>> = <<run[i].cout[c], run[i].oe[c], run[i].q[c]>>
  BY <1>2, <1>3
<1> QED
  BY <1>4

\* What a combinational component computes depends on its inputs only.
SameInputs(s, t, c) == \A k \in 1..PinCount(nl[c].kind) : In(s, c, k) = In(t, c, k)

\* Equal inputs give equal values.
LEMMA ComputedSame ==
    ASSUME NEW c \in OfKind(nl, CombKinds), NEW s, NEW t, SameInputs(s, t, c)
    PROVE  /\ Value(s, c) = Value(t, c)
           /\ nl[c].kind = "tsbuf" => In(s, c, 1) = In(t, c, 1) /\ In(s, c, 2) = In(t, c, 2)
<1>1. nl[c].kind \in {"buf", "not", "and", "tsbuf"}
  BY Kinds DEF OfKind
<1>2. CASE nl[c].kind \in {"buf", "not"}
  <2>1. In(s, c, 1) = In(t, c, 1)
    BY <1>2, PinCounts DEF SameInputs
  <2> QED
    BY <1>2, <2>1 DEF Value
<1>3. CASE nl[c].kind \in {"and", "tsbuf"}
  <2>1. In(s, c, 1) = In(t, c, 1) /\ In(s, c, 2) = In(t, c, 2)
    BY <1>3, PinCounts DEF SameInputs
  <2> QED
    BY <1>3, <2>1 DEF Value
<1> QED
  BY <1>1, <1>2, <1>3

\* The inputs a component has read are still there when the run ends.
LEMMA InputStays ==
    ASSUME Compiled, NEW order, Stage(order), NEW m \in Nat, m = Len(order),
           NEW run, NEW s, Runs(run, s, order, m), NEW i \in 1..m, Behind(nl, order, i),
           NEW net \in Ins(nl, order[i]), order[i] \notin Drivers(nl, net)
    PROVE  run[i - 1].w[net] = run[m].w[net]
<1>1. order[i] \in Comps(nl) /\ DOMAIN order = 1..m
  BY Elements DEF Stage
<1>2. net \in 0..NetCount /\ net # 0
  <2>1. PICK a \in DOMAIN nl[order[i]].ins : net = nl[order[i]].ins[a] /\ net # 0
    BY DEF Ins
  <2>2. Netlist(nl)
    BY DEF Compiled
  <2>3. a \in 1..PinCount(nl[order[i]].kind) /\ nl[order[i]].ins[a] \in 0..NetCount
    BY <1>1, <2>1, <2>2, ComponentsAre
  <2> QED
    BY <2>1, <2>3
<1>3. ASSUME NEW k \in i..m, nl[order[k]].out = net
      PROVE  nl[order[k]].kind \in TriKinds /\ net \in gen.buses
  <2>1. order[k] \in Comps(nl) /\ order[k] \in ToSet(order)
    BY <1>1, Elements DEF Stage
  <2>2. order[k] \in Drivers(nl, net) /\ order[k] # order[i]
    BY <1>3, <2>1 DEF Drivers
  <2>3. net \in BusNets(nl)
    <3> SUFFICES ASSUME net \notin BusNets(nl) PROVE FALSE
      OBVIOUS
    <3>1. PICK j \in 1..(i - 1) : order[j] = order[k]
      BY <2>1, <2>2 DEF Behind
    <3>2. j \in 1..m /\ k \in 1..m /\ j # k
      OBVIOUS
    <3> QED
      BY <1>1, <3>1, <3>2 DEF Stage, IsInjective
  <2> QED
    BY <2>2, <2>3 DEF Compiled, Compiles, Generate
<1>4. Untouched(order, i - 1, m, net)
  BY <1>3 DEF Untouched
<1>5. i - 1 \in 0..m /\ m \in 0..m /\ i - 1 <= m
  OBVIOUS
<1> QED
  BY <1>2, <1>4, <1>5, RunKeepsNet

\* What a component computes from inputs that stay, stays.
LEMMA OutputStays ==
    ASSUME Compiled, NEW order, Stage(order), NEW m \in Nat, m = Len(order),
           NEW run, NEW s, Runs(run, s, order, m), NEW i \in 1..m,
           SameInputs(run[i - 1], run[m], order[i])
    PROVE  /\ nl[order[i]].kind \in CombKinds => Computed(run[m], run[m], order[i])
           /\ nl[order[i]].kind = "clkdiv" => run[m].q[order[i]].prev = In(run[m], order[i], 1)
<1>1. PICK c : c = order[i]
  OBVIOUS
<1>2. c \in Comps(nl) /\ DOMAIN order = 1..m /\ \A k \in 1..m : order[k] \in Comps(nl)
  BY <1>1, Elements DEF Stage
<1>3. nl[c].out \in 0..NetCount
  BY <1>2, ComponentsAre DEF Compiled
<1>4. \A k \in (i + 1)..m : order[k] # c /\ k \in 1..m
  BY <1>1, <1>2 DEF Stage, IsInjective
<1>5. i \in 0..m /\ m \in 0..m /\ i <= m /\ NotRun(order, i, m, c)
  BY <1>4 DEF NotRun
<1>6. /\ run[m].cout[c] = run[i].cout[c] /\ run[m].oe[c] = run[i].oe[c]
      /\ run[m].q[c] = run[i].q[c]
  BY <1>2, <1>5, RunKeepsLatch
<1>7. run[m].w[nl[c].out] = run[i].w[nl[c].out]
  <2>1. ASSUME NEW k \in (i + 1)..m, nl[order[k]].out = nl[c].out, nl[c].out # 0
        PROVE  nl[order[k]].kind \in TriKinds /\ nl[c].out \in gen.buses
    <3>1. order[k] \in Drivers(nl, nl[c].out) /\ c \in Drivers(nl, nl[c].out) /\ order[k] # c
      BY <1>2, <1>4, <2>1 DEF Drivers
    <3>2. nl[c].out \in Nets
      BY <1>3, <2>1, ConstantsAssumption DEF Nets
    <3>3. nl[c].out \in BusNets(nl)
      BY <3>1, <3>2 DEF BusNets
    <3> QED
      BY <3>1, <3>3 DEF Compiled, Compiles, Generate
  <2>2. Untouched(order, i, m, nl[c].out)
    BY <2>1 DEF Untouched
  <2> QED
    BY <1>3, <1>5, <2>2, RunKeepsNet
<1>8. SameInputs(run[i - 1], run[m], c)
  BY <1>1
<1>9. ASSUME nl[c].kind \in CombKinds PROVE Computed(run[m], run[m], c)
  <2>1. Computed(run[i - 1], run[i], c)
    BY <1>1, <1>9 DEF Runs
  <2>2. c \in OfKind(nl, CombKinds)
    BY <1>2, <1>9 DEF OfKind
  <2>3. /\ Value(run[i - 1], c) = Value(run[m], c)
        /\ nl[c].kind = "tsbuf" =>
             In(run[i - 1], c, 1) = In(run[m], c, 1) /\ In(run[i - 1], c, 2) = In(run[m], c, 2)
    BY <1>8, <2>2, ComputedSame
  <2>4. CASE nl[c].kind = "tsbuf"
    <3>1. /\ run[i].cout[c] = In(run[m], c, 1) /\ run[i].oe[c] = (In(run[m], c, 2) = 1)
          /\ nl[c].out \notin gen.buses \cup {0} =>
               run[i].w[nl[c].out] = IF run[i].oe[c] THEN run[i].cout[c] ELSE 0
      BY <2>1, <2>3, <2>4 DEF Computed
    <3> QED
      BY <1>6, <1>7, <2>4, <3>1 DEF Computed
  <2>5. CASE nl[c].kind # "tsbuf"
    BY <1>7, <2>1, <2>3, <2>5 DEF Computed
  <2> QED
    BY <2>4, <2>5
<1>10. ASSUME nl[c].kind = "clkdiv" PROVE run[m].q[c].prev = In(run[m], c, 1)
  <2>1. run[i].q[c].prev = In(run[i - 1], c, 1)
    BY <1>1, <1>10 DEF Runs
  <2>2. 1 \in 1..PinCount(nl[c].kind)
    BY <1>10, PinCounts
  <2> QED
    BY <1>6, <1>8, <2>1, <2>2 DEF SameInputs
<1> QED
  BY <1>1, <1>9, <1>10

-----------------------------------------------------------------------------
(* Bus resolution and propagation. *)

\* A tri-state net is a net that tri-state outputs drive, and no others do.
LEMMA TriNetsAre ==
    ASSUME Compiled
    PROVE  /\ TriNets \subseteq Nets /\ TriNets \subseteq 0..NetCount /\ 0 \notin TriNets
           /\ \A c \in Comps(nl) : nl[c].kind \in TriKinds /\ nl[c].out # 0 => nl[c].out \in TriNets
           /\ \A c \in Comps(nl) : nl[c].kind \notin TriKinds => nl[c].out \notin TriNets
<1>1. \A c \in Comps(nl) : nl[c].out \in 0..NetCount
  BY ComponentsAre DEF Compiled
<1>2. TriNets = {nl[c].out : c \in OfKind(nl, TriKinds)} \ {0}
  BY DEF TriNets, TriOuts, Outs
<1>3. \A net \in TriNets : net \in Nets /\ net \in 0..NetCount /\ net # 0
  <2> SUFFICES ASSUME NEW net \in TriNets PROVE net \in Nets /\ net \in 0..NetCount /\ net # 0
    OBVIOUS
  <2>1. PICK c \in OfKind(nl, TriKinds) : net = nl[c].out /\ net # 0
    BY <1>2
  <2>2. net \in 0..NetCount
    BY <1>1, <2>1 DEF OfKind
  <2> QED
    BY <2>1, <2>2, ConstantsAssumption DEF Nets
<1>4. \A c \in Comps(nl) : nl[c].kind \in TriKinds /\ nl[c].out # 0 => nl[c].out \in TriNets
  BY <1>2 DEF OfKind
<1>5. ASSUME NEW c \in Comps(nl), nl[c].kind \notin TriKinds, nl[c].out \in TriNets PROVE FALSE
  <2>1. PICK d \in OfKind(nl, TriKinds) : nl[c].out = nl[d].out
    BY <1>2, <1>5
  <2>2. d # c /\ c \in Drivers(nl, nl[c].out) /\ d \in Drivers(nl, nl[c].out)
    BY <1>5, <2>1 DEF OfKind, Drivers
  <2>3. nl[c].out \in BusNets(nl)
    BY <1>3, <1>5, <2>2 DEF BusNets
  <2> QED
    BY <1>5, <2>2, <2>3 DEF Compiled, Compiles
<1> QED
  BY <1>3, <1>4, <1>5

\* A resolved net carries a bit.
LEMMA LevelIsBit ==
    ASSUME NEW s \in States, NEW net \in 0..NetCount
    PROVE  Level(s, net) \in Bit
<1>1. s.w[net] \in Bit /\ \A c \in Comps(nl) : s.cout[c] \in Bit
  BY DEF States
<1>2. CASE InConflict(s, net)
  BY <1>1, <1>2 DEF Level
<1>3. CASE ~InConflict(s, net) /\ Enabled(s, net) = {}
  BY <1>3 DEF Level, Bit
<1>4. CASE ~InConflict(s, net) /\ Enabled(s, net) # {}
  <2>1. PICK c : c = CHOOSE d \in Enabled(s, net) : TRUE
    OBVIOUS
  <2>2. c \in Enabled(s, net)
    BY <1>4, <2>1
  <2>3. c \in Comps(nl)
    BY <2>2 DEF Enabled, Drivers
  <2> QED
    BY <1>1, <1>4, <2>1, <2>3 DEF Level
<1> QED
  BY <1>2, <1>3, <1>4

\* Resolution writes the resolved nets and nothing else.
LEMMA ResolveIs ==
    ASSUME NEW s \in States, NEW nets, NEW t, t = Resolve(s, nets)
    PROVE  /\ t \in States /\ t.cout = s.cout /\ t.oe = s.oe /\ t.q = s.q
           /\ \A net \in 0..NetCount \ nets : t.w[net] = s.w[net]
           /\ \A net \in 0..NetCount : net \in nets => t.w[net] = Level(s, net)
<1>1. s.w \in [0..NetCount -> Bit] /\ DOMAIN s.w = 0..NetCount
  BY DEF States
<1>2. /\ t.w = [net \in DOMAIN s.w |-> IF net \in nets THEN Level(s, net) ELSE s.w[net]]
      /\ t.cout = s.cout /\ t.oe = s.oe /\ t.q = s.q
      /\ t = [w |-> t.w, cout |-> s.cout, oe |-> s.oe, q |-> s.q]
  BY DEF Resolve, States
<1>3. \A net \in 0..NetCount : t.w[net] = IF net \in nets THEN Level(s, net) ELSE s.w[net]
  BY <1>1, <1>2
<1>4. t.w \in [0..NetCount -> Bit]
  BY <1>1, <1>2, LevelIsBit
<1>5. t \in States
  BY <1>2, <1>4 DEF States
<1> QED
  BY <1>2, <1>3, <1>5

\* A net's level depends on the latches of its drivers and, in a conflict, on
\* the wire.
SameLatches(s, t, net) == \A c \in Drivers(nl, net) : s.cout[c] = t.cout[c] /\ s.oe[c] = t.oe[c]

\* Resolution depends on the latches of the net's drivers and, in a conflict, on the wire.
LEMMA LevelSame ==
    ASSUME NEW s, NEW t, NEW net, SameLatches(s, t, net)
    PROVE  /\ Enabled(s, net) = Enabled(t, net) /\ (InConflict(s, net) <=> InConflict(t, net))
           /\ s.w[net] = t.w[net] \/ ~InConflict(s, net) => Level(s, net) = Level(t, net)
           /\ t.w[net] = Level(s, net) => t.w[net] = Level(t, net)
<1>1. Enabled(s, net) = Enabled(t, net)
  BY DEF Enabled, SameLatches
<1>2. InConflict(s, net) <=> InConflict(t, net)
  BY <1>1 DEF InConflict
<1>3. CASE InConflict(s, net)
  BY <1>1, <1>2, <1>3 DEF Level
<1>4. CASE ~InConflict(s, net) /\ Enabled(s, net) = {}
  BY <1>1, <1>2, <1>4 DEF Level
<1>5. CASE ~InConflict(s, net) /\ Enabled(s, net) # {}
  <2>1. PICK c : c = CHOOSE d \in Enabled(s, net) : TRUE
    OBVIOUS
  <2>2. c \in Drivers(nl, net)
    BY <1>5, <2>1 DEF Enabled
  <2>3. Level(s, net) = s.cout[c]
    BY <1>5, <2>1 DEF Level
  <2>4. Level(t, net) = t.cout[c]
    BY <1>1, <1>2, <1>5, <2>1 DEF Level
  <2> QED
    BY <1>1, <1>2, <1>5, <2>2, <2>3, <2>4 DEF SameLatches
<1> QED
  BY <1>1, <1>2, <1>3, <1>4, <1>5

\* The only driver of its net.
LEMMA LevelAlone ==
    ASSUME NEW s, NEW net \in Nets \ BusNets(nl), NEW c \in Drivers(nl, net)
    PROVE  Level(s, net) = IF s.oe[c] THEN s.cout[c] ELSE 0
<1>1. \A d \in Drivers(nl, net) : d = c
  BY OneDriver
<1>2. ~InConflict(s, net)
  BY <1>1 DEF InConflict, Enabled
<1>3. CASE s.oe[c]
  <2>1. Enabled(s, net) = {c}
    BY <1>1, <1>3 DEF Enabled
  <2> QED
    BY <1>2, <1>3, <2>1 DEF Level
<1>4. CASE ~s.oe[c]
  <2>1. Enabled(s, net) = {}
    BY <1>1, <1>4 DEF Enabled
  <2> QED
    BY <1>2, <1>4, <2>1 DEF Level
<1> QED
  BY <1>3, <1>4

\* The wire of the net shows its drivers' latches.
Quiet(s) == \A net \in TriNets : s.w[net] = Level(s, net)
ResolvedNet(s, net) ==
    \/ Enabled(s, net) = {} /\ s.w[net] = 0
    \/ \E c \in Comps(nl) : Enabled(s, net) = {c} /\ s.w[net] = s.cout[c]

\* A net without a conflict that shows its level is resolved.
LEMMA ResolvedOne ==
    ASSUME NEW s, NEW net, s.w[net] = Level(s, net), ~InConflict(s, net)
    PROVE  ResolvedNet(s, net)
<1>1. CASE Enabled(s, net) = {}
  BY <1>1 DEF Level, ResolvedNet
<1>2. CASE Enabled(s, net) # {}
  <2>1. PICK c : c = CHOOSE d \in Enabled(s, net) : TRUE
    OBVIOUS
  <2>2. c \in Enabled(s, net) /\ c \in Comps(nl)
    BY <1>2, <2>1 DEF Enabled, Drivers
  <2>3. s.w[net] = s.cout[c]
    BY <1>2, <2>1 DEF Level
  <2>4. Enabled(s, net) = {c}
    BY <2>2 DEF InConflict
  <2> QED
    BY <2>2, <2>3, <2>4 DEF ResolvedNet
<1> QED
  BY <1>1, <1>2

\* A net that is no bus has no conflict.
LEMMA ConflictIsBus ==
    ASSUME Compiled, NEW s, NEW net \in TriNets, InConflict(s, net)
    PROVE  net \in gen.buses
<1>1. net \in Nets
  BY TriNetsAre
<1> QED
  BY <1>1 DEF InConflict, Enabled, Compiled, Generate, BusNets

\* Without a reported conflict every tri-state net is resolved.
LEMMA QuietResolves ==
    ASSUME Compiled, NEW s, Quiet(s), BusError(s, gen.buses) = "OK"
    PROVE  \A net \in TriNets : ResolvedNet(s, net)
<1> SUFFICES ASSUME NEW net \in TriNets PROVE ResolvedNet(s, net)
  OBVIOUS
<1>1. ~InConflict(s, net)
  BY ConflictIsBus DEF BusError
<1> QED
  BY <1>1, ResolvedOne DEF Quiet

\* What propagation does to the state a stage leaves behind.
LEMMA PropagateIs ==
    ASSUME Compiled, NEW s \in States, NEW t, t = Propagate(s)
    PROVE  /\ t \in States /\ t.cout = s.cout /\ t.oe = s.oe /\ t.q = s.q
           /\ \A net \in 0..NetCount \ TriNets : t.w[net] = s.w[net]
           /\ \A net \in TriNets : t.w[net] = Level(s, net)
           /\ Quiet(t)
<1>1. t = Resolve(s, TriNets)
  BY DEF Propagate
<1>2. /\ t \in States /\ t.cout = s.cout /\ t.oe = s.oe /\ t.q = s.q
      /\ \A net \in 0..NetCount \ TriNets : t.w[net] = s.w[net]
      /\ \A net \in 0..NetCount : net \in TriNets => t.w[net] = Level(s, net)
  BY <1>1, ResolveIs
<1>3. \A net \in TriNets : t.w[net] = Level(s, net)
  BY <1>2, TriNetsAre
<1>4. \A net \in TriNets : t.w[net] = Level(t, net)
  <2> SUFFICES ASSUME NEW net \in TriNets PROVE t.w[net] = Level(t, net)
    OBVIOUS
  <2>1. SameLatches(s, t, net)
    BY <1>2 DEF SameLatches
  <2> QED
    BY <1>3, <2>1, LevelSame
<1> QED
  BY <1>2, <1>3, <1>4 DEF Quiet

\* A component whose inputs propagation leaves alone still agrees with them.
LEMMA ComputedThrough ==
    ASSUME Compiled, NEW s \in States, NEW t, t = Propagate(s),
           NEW c \in OfKind(nl, CombKinds), Computed(s, s, c), SameInputs(s, t, c)
    PROVE  Computed(t, t, c)
<1>1. /\ t \in States /\ t.cout = s.cout /\ t.oe = s.oe
      /\ \A net \in 0..NetCount \ TriNets : t.w[net] = s.w[net]
      /\ \A net \in TriNets : t.w[net] = Level(s, net)
  BY PropagateIs
<1>2. c \in Comps(nl) /\ nl[c].out \in 0..NetCount
  BY ComponentsAre DEF OfKind, Compiled
<1>3. /\ Value(s, c) = Value(t, c)
      /\ nl[c].kind = "tsbuf" => In(s, c, 1) = In(t, c, 1) /\ In(s, c, 2) = In(t, c, 2)
  BY ComputedSame
<1>4. CASE nl[c].kind = "tsbuf"
  <2>1. /\ s.cout[c] = In(s, c, 1) /\ s.oe[c] = (In(s, c, 2) = 1)
    BY <1>4 DEF Computed
  <2>2. ASSUME nl[c].out \notin gen.buses \cup {0}
        PROVE  t.w[nl[c].out] = IF t.oe[c] THEN t.cout[c] ELSE 0
    <3>1. nl[c].out \in TriNets
      BY <1>2, <1>4, <2>2, TriNetsAre DEF TriKinds
    <3>2. nl[c].out \in Nets \ BusNets(nl) /\ c \in Drivers(nl, nl[c].out)
      BY <1>2, <2>2, <3>1, TriNetsAre DEF Compiled, Generate, Drivers
    <3>3. Level(s, nl[c].out) = IF s.oe[c] THEN s.cout[c] ELSE 0
      BY <3>2, LevelAlone
    <3> QED
      BY <1>1, <3>1, <3>3
  <2> QED
    BY <1>1, <1>3, <1>4, <2>1, <2>2 DEF Computed
<1>5. CASE nl[c].kind # "tsbuf"
  <2>1. nl[c].kind \notin TriKinds
    BY <1>5, Kinds DEF OfKind
  <2>2. nl[c].out \notin TriNets
    BY <1>2, <2>1, TriNetsAre
  <2> QED
    BY <1>1, <1>2, <1>3, <1>5, <2>2 DEF Computed
<1> QED
  BY <1>4, <1>5

-----------------------------------------------------------------------------
(* Phases 1 and 2. *)

Unaffected == OfKind(nl, CombKinds) \ TriAffected(nl)

\* The nets only components of the set drive, among the combinational ones.
Fixed(set) == {net \in 0..NetCount : net = 0 \/ Drivers(nl, net) \cap OfKind(nl, CombKinds) \subseteq set}

\* The components of the set, the unaffected ones and more, agree with their
\* inputs, which only components of the set drive.
Stable(s, set) ==
    /\ Unaffected \subseteq set /\ set \subseteq OfKind(nl, CombKinds)
    /\ \A c \in set : Computed(s, s, c) /\ Ins(nl, c) \subseteq Fixed(set)

\* Each clock divider has sampled the level its input has.
InPhase(s) == \A c \in OfKind(nl, {"clkdiv"}) :
    Ins(nl, c) \cap Unsettled(nl, c) = {} => s.q[c].prev = In(s, c, 1)

SameNets(s, t, set) == \A net \in set : s.w[net] = t.w[net]

\* A component reads its input nets and the constant-zero slot, no others.
LEMMA InputsFrom ==
    ASSUME Compiled, NEW c \in Comps(nl), NEW s, NEW t, SameNets(s, t, Ins(nl, c) \cup {0})
    PROVE  SameInputs(s, t, c)
<1> SUFFICES ASSUME NEW k \in 1..PinCount(nl[c].kind) PROVE In(s, c, k) = In(t, c, k)
  BY DEF SameInputs
<1>1. k \in DOMAIN nl[c].ins
  BY ComponentsAre DEF Compiled
<1>2. nl[c].ins[k] \in Ins(nl, c) \cup {0}
  BY <1>1 DEF Ins
<1> QED
  BY <1>2 DEF In, SameNets

\* Input nets are nets.
LEMMA InputsAre ==
    ASSUME Compiled, NEW c \in Comps(nl)
    PROVE  Ins(nl, c) \subseteq Nets /\ Ins(nl, c) \subseteq 0..NetCount
<1> SUFFICES ASSUME NEW net \in Ins(nl, c) PROVE net \in Nets /\ net \in 0..NetCount
  OBVIOUS
<1>1. PICK a \in DOMAIN nl[c].ins : net = nl[c].ins[a] /\ net # 0
  BY DEF Ins
<1>2. net \in 0..NetCount
  BY <1>1, ComponentsAre DEF Compiled
<1> QED
  BY <1>1, <1>2, ConstantsAssumption DEF Nets

\* In a netlist without a loop no combinational component reads its own output.
LEMMA NoSelfLoop ==
    ASSUME LoopFree(nl), NEW c \in OfKind(nl, CombKinds), NEW net \in Ins(nl, c)
    PROVE  c \notin Drivers(nl, net)
<1> SUFFICES ASSUME c \in Drivers(nl, net) PROVE FALSE
  OBVIOUS
<1>1. net \in Outs(nl, {c})
  BY DEF Drivers, Outs, Ins
<1>2. Loop(nl, {c}) /\ {c} \in SUBSET OfKind(nl, CombKinds)
  BY <1>1 DEF Loop
<1> QED
  BY <1>2 DEF LoopFree

\* The stage of the compiled circuit can be run, in its order.
LEMMA StageOrder ==
    ASSUME Compiled, NEW order, order = gen.stage
    PROVE  /\ Stage(order) /\ ToSet(order) = OfKind(nl, CombKinds \cup ClockKinds)
           /\ \A i \in 1..Len(order) :
                LoopFree(nl) \/ nl[order[i]].kind \in ClockKinds => Behind(nl, order, i)
<1>1. order = TopoOrder(nl, ClockOrder(nl))
  BY DEF Compiled, Generate
<1>2. Netlist(nl) /\ Compiles(nl)
  BY DEF Compiled
<1>3. /\ Nodes(nl, order) /\ ToSet(order) = OfKind(nl, CombKinds \cup ClockKinds)
      /\ \A i \in 1..Len(order) :
                LoopFree(nl) \/ nl[order[i]].kind \in ClockKinds => Behind(nl, order, i)
  BY <1>1, <1>2, StageIs
<1> QED
  BY <1>3 DEF Nodes, Stage

\* What a stage leaves in the state: inputs read in order stay.
LEMMA SameFrom ==
    ASSUME Compiled, NEW order, Stage(order), NEW m \in Nat, m = Len(order),
           NEW run, NEW s, Runs(run, s, order, m), NEW i \in 1..m, Behind(nl, order, i),
           NEW c \in Comps(nl), c = order[i], \A net \in Ins(nl, c) : c \notin Drivers(nl, net)
    PROVE  SameInputs(run[i - 1], run[m], c)
<1>1. ASSUME NEW net \in Ins(nl, c) PROVE run[i - 1].w[net] = run[m].w[net]
  <2>1. net \in Ins(nl, order[i]) /\ order[i] \notin Drivers(nl, net)
    OBVIOUS
  <2> QED
    BY <2>1, InputStays
<1>2. run[i - 1].w[0] = run[m].w[0]
  <2>1. Untouched(order, i - 1, m, 0)
    BY DEF Untouched
  <2>2. i - 1 \in 0..m /\ m \in 0..m /\ i - 1 <= m /\ 0 \in 0..NetCount
    BY ConstantsAssumption
  <2> QED
    BY <2>1, <2>2, RunKeepsNet
<1>3. SameNets(run[i - 1], run[m], Ins(nl, c) \cup {0})
  BY <1>1, <1>2 DEF SameNets
<1> QED
  BY <1>3, InputsFrom

\* After phases 1 and 2, in any netlist: tri-state nets show their latches and
\* dividers have sampled this tick's levels.
LEMMA CombinationalIs ==
    ASSUME Compiled, NEW s \in States, NEW t, t = Propagate(CombStage(s, gen.stage))
    PROVE  /\ t \in States /\ t.w[0] = s.w[0] /\ Quiet(t) /\ InPhase(t)
           /\ LoopFree(nl) => Stable(t, Unaffected)
<1>1. PICK order : order = gen.stage
  OBVIOUS
<1>2. /\ Stage(order) /\ ToSet(order) = OfKind(nl, CombKinds \cup ClockKinds)
      /\ \A i \in 1..Len(order) :
           LoopFree(nl) \/ nl[order[i]].kind \in ClockKinds => Behind(nl, order, i)
  BY <1>1, StageOrder
<1>3. PICK m \in Nat : m = Len(order)
  BY <1>2, Elements DEF Stage
<1>4. PICK run : CombStage(s, order) = run[m] /\ Runs(run, s, order, m)
  BY <1>2, <1>3, CombRunIs
<1>5. PICK s1 : s1 = run[m]
  OBVIOUS
<1>6. s1 \in States /\ t = Propagate(s1)
  BY <1>1, <1>3, <1>4, <1>5 DEF Runs
<1>7. /\ t \in States /\ t.cout = s1.cout /\ t.oe = s1.oe /\ t.q = s1.q
      /\ \A net \in 0..NetCount \ TriNets : t.w[net] = s1.w[net]
      /\ Quiet(t)
  BY <1>6, PropagateIs
<1>8. t.w[0] = s.w[0] /\ t.w[0] = s1.w[0]
  <2>1. Untouched(order, 0, m, 0)
    BY DEF Untouched
  <2>2. 0 \in 0..m /\ m \in 0..m /\ 0 <= m /\ 0 \in 0..NetCount
    BY <1>3, ConstantsAssumption
  <2>3. run[m].w[0] = run[0].w[0]
    BY <1>3, <1>4, <2>1, <2>2, RunKeepsNet
  <2> QED
    BY <1>4, <1>5, <1>7, <2>2, <2>3, TriNetsAre DEF Runs
<1>9. ASSUME NEW c \in Comps(nl), c \in OfKind(nl, CombKinds \cup ClockKinds)
      PROVE  \E i \in 1..m : order[i] = c
  <2>1. ToSet(order) = {order[i] : i \in 1..Len(order)}
    BY <1>2, Elements DEF Stage
  <2> QED
    BY <1>2, <1>3, <1>9, <2>1
<1>10. ASSUME NEW c \in OfKind(nl, {"clkdiv"}), Ins(nl, c) \cap Unsettled(nl, c) = {}
       PROVE  t.q[c].prev = In(t, c, 1)
  <2>1. c \in Comps(nl) /\ nl[c].kind = "clkdiv" /\ nl[c].kind \in ClockKinds
        /\ c \in OfKind(nl, CombKinds \cup ClockKinds)
    BY Kinds DEF OfKind
  <2>2. PICK i \in 1..m : order[i] = c
    BY <1>9, <2>1
  <2>3. \A net \in Ins(nl, c) : c \notin Drivers(nl, net)
    BY <1>10 DEF Unsettled, Outs, Drivers, Ins
  <2>4. SameInputs(run[i - 1], s1, c)
    <3>1. Behind(nl, order, i)
      BY <1>2, <1>3, <2>1, <2>2
    <3> QED
      BY <1>2, <1>3, <1>4, <1>5, <2>1, <2>2, <2>3, <3>1, SameFrom
  <2>5. s1.q[c].prev = In(s1, c, 1)
    <3>1. SameInputs(run[i - 1], run[m], order[i])
      BY <1>5, <2>2, <2>4
    <3>2. nl[order[i]].kind = "clkdiv" => run[m].q[order[i]].prev = In(run[m], order[i], 1)
      BY <1>2, <1>3, <1>4, <3>1, OutputStays
    <3> QED
      BY <1>5, <2>1, <2>2, <3>2
  <2>6. SameNets(s1, t, Ins(nl, c) \cup {0})
    <3>1. Ins(nl, c) \cap TriNets = {}
      BY <1>10 DEF Unsettled, TriNets
    <3> QED
      BY <1>7, <1>8, <2>1, <3>1, InputsAre DEF SameNets
  <2>7. In(s1, c, 1) = In(t, c, 1)
    <3>1. SameInputs(s1, t, c)
      BY <2>1, <2>6, InputsFrom
    <3>2. 1 \in 1..PinCount(nl[c].kind)
      BY <2>1, PinCounts
    <3> QED
      BY <3>1, <3>2 DEF SameInputs
  <2> QED
    BY <1>7, <2>5, <2>7
<1>11. ASSUME LoopFree(nl), NEW c \in Unaffected PROVE Computed(t, t, c) /\ Ins(nl, c) \subseteq Fixed(Unaffected)
  <2>1. c \in Comps(nl) /\ nl[c].kind \in CombKinds /\ c \in OfKind(nl, CombKinds)
        /\ c \in OfKind(nl, CombKinds \cup ClockKinds)
    BY DEF Unaffected, OfKind
  <2>2. PICK i \in 1..m : order[i] = c
    BY <1>9, <2>1
  <2>3. \A net \in Ins(nl, c) : c \notin Drivers(nl, net)
    BY <1>11, <2>1, NoSelfLoop
  <2>4. SameInputs(run[i - 1], s1, c)
    <3>1. Behind(nl, order, i)
      BY <1>2, <1>3, <1>11, <2>2
    <3> QED
      BY <1>2, <1>3, <1>4, <1>5, <2>1, <2>2, <2>3, <3>1, SameFrom
  <2>5. Computed(s1, s1, c)
    <3>1. SameInputs(run[i - 1], run[m], order[i])
      BY <1>5, <2>2, <2>4
    <3>2. nl[order[i]].kind \in CombKinds => Computed(run[m], run[m], order[i])
      BY <1>2, <1>3, <1>4, <3>1, OutputStays
    <3> QED
      BY <1>5, <2>1, <2>2, <3>2
  <2>6. Ins(nl, c) \cap (TriNets \cup Outs(nl, TriAffected(nl))) = {}
    BY AffectedIs, <2>1 DEF Unaffected, TriNets
  <2>7. SameNets(s1, t, Ins(nl, c) \cup {0})
    BY <1>7, <1>8, <2>1, <2>6, InputsAre DEF SameNets
  <2>8. Computed(t, t, c)
    <3>1. SameInputs(s1, t, c)
      BY <2>1, <2>7, InputsFrom
    <3> QED
      BY <1>6, <2>1, <2>5, <3>1, ComputedThrough
  <2>9. ASSUME NEW net \in Ins(nl, c) PROVE net \in Fixed(Unaffected)
    <3>1. net \in 0..NetCount /\ net # 0
      BY <2>1, InputsAre DEF Ins
    <3>2. ASSUME NEW d \in Drivers(nl, net) \cap OfKind(nl, CombKinds) PROVE d \in Unaffected
      <4>1. d \notin TriAffected(nl)
        BY <2>6, <3>1 DEF Outs, Drivers
      <4> QED
        BY <4>1 DEF Unaffected
    <3> QED
      BY <3>1, <3>2 DEF Fixed
  <2> QED
    BY <2>8, <2>9
<1>12. InPhase(t)
  BY <1>10 DEF InPhase
<1>13. LoopFree(nl) => Stable(t, Unaffected)
  BY <1>11 DEF Stable, Unaffected
<1> QED
  BY <1>7, <1>8, <1>12, <1>13

-----------------------------------------------------------------------------
(* Phase 2b. *)

Rerun == Among(gen.sorted, gen.affected)

\* Phase 2b runs the affected components, in their order.
LEMMA RerunOrder ==
    ASSUME Compiled, NEW order, order = Rerun
    PROVE  /\ Stage(order) /\ ToSet(order) = TriAffected(nl)
           /\ TriAffected(nl) \subseteq OfKind(nl, CombKinds)
           /\ LoopFree(nl) => \A i \in 1..Len(order) : Behind(nl, order, i)
<1>1. PICK sorted : sorted = gen.sorted
  OBVIOUS
<1>2. /\ sorted = TopoOrder(nl, Select(nl, CombKinds)) /\ order = Among(sorted, TriAffected(nl))
      /\ Netlist(nl)
  BY <1>1 DEF Compiled, Generate, Rerun
<1>3. /\ Nodes(nl, order) /\ ToSet(order) = TriAffected(nl)
      /\ LoopFree(nl) => \A i \in 1..Len(order) : Behind(nl, order, i)
  BY <1>2, AffectedOrderIs
<1>4. TriAffected(nl) \subseteq OfKind(nl, CombKinds)
  BY AffectedIs
<1>5. OfKind(nl, CombKinds) \subseteq OfKind(nl, CombKinds \cup ClockKinds)
  BY DEF OfKind
<1> QED
  BY <1>3, <1>4, <1>5 DEF Nodes, Stage

\* One round, from s over s1 to t.
Round(s, s1, t, order, m, run) ==
    /\ order = Rerun /\ m \in Nat /\ m = Len(order) /\ Stage(order) /\ ToSet(order) = TriAffected(nl)
    /\ LoopFree(nl) => \A i \in 1..m : Behind(nl, order, i)
    /\ Runs(run, s, order, m) /\ s1 = run[m] /\ t = Propagate(s1)

\* A round is a run of the affected components and a propagation.
LEMMA RoundIs ==
    ASSUME Compiled, NEW s \in States, NEW s1, s1 = CombStage(s, Rerun), NEW t, t = Propagate(s1)
    PROVE  \E order, m, run : Round(s, s1, t, order, m, run)
<1>1. PICK order : order = Rerun
  OBVIOUS
<1>2. /\ Stage(order) /\ ToSet(order) = TriAffected(nl)
      /\ LoopFree(nl) => \A i \in 1..Len(order) : Behind(nl, order, i)
  BY <1>1, RerunOrder
<1>3. PICK m \in Nat : m = Len(order)
  BY <1>2, Elements DEF Stage
<1>4. PICK run : CombStage(s, order) = run[m] /\ Runs(run, s, order, m)
  BY <1>2, <1>3, CombRunIs
<1> QED
  BY <1>1, <1>2, <1>3, <1>4 DEF Round

\* The components and the states of a round.
LEMMA RoundElements ==
    ASSUME Compiled, NEW s, NEW s1, NEW t, NEW order, NEW m, NEW run, Round(s, s1, t, order, m, run)
    PROVE  /\ m \in Nat /\ \A k \in 1..m : order[k] \in TriAffected(nl) /\ order[k] \in OfKind(nl, CombKinds)
           /\ \A c \in TriAffected(nl) : \E k \in 1..m : order[k] = c
           /\ s1 \in States /\ run[0] = s /\ \A k \in 0..m : run[k] \in States
<1>1. /\ order \in Seq(Comps(nl)) /\ m = Len(order) /\ m \in Nat
      /\ ToSet(order) = TriAffected(nl) /\ TriAffected(nl) \subseteq OfKind(nl, CombKinds)
  BY AffectedIs DEF Round, Stage
<1>2. ToSet(order) = {order[k] : k \in 1..m}
  BY <1>1, Elements
<1>3. run[0] = s /\ s1 = run[m] /\ \A k \in 0..m : run[k] \in States
  BY DEF Round, Runs
<1>4. m \in 0..m
  BY <1>1
<1> QED
  BY <1>1, <1>2, <1>3, <1>4

\* In any netlist a round keeps the phase of the clock dividers.
LEMMA RoundKeeps ==
    ASSUME Compiled, NEW s \in States, NEW s1, NEW t, NEW order, NEW m, NEW run,
           Round(s, s1, t, order, m, run)
    PROVE  /\ t \in States /\ t.w[0] = s.w[0] /\ Quiet(t)
           /\ InPhase(s) => InPhase(t)
<1>1. /\ m \in Nat /\ \A k \in 1..m : order[k] \in TriAffected(nl) /\ order[k] \in OfKind(nl, CombKinds)
      /\ s1 \in States /\ run[0] = s
  BY RoundElements
<1>2. t = Propagate(s1) /\ Runs(run, s, order, m) /\ s1 = run[m]
  BY DEF Round
<1>3. /\ t \in States /\ t.cout = s1.cout /\ t.oe = s1.oe /\ t.q = s1.q
      /\ \A net \in 0..NetCount \ TriNets : t.w[net] = s1.w[net]
      /\ Quiet(t)
  BY <1>1, <1>2, PropagateIs
<1>4. 0 \in 0..m /\ m \in 0..m /\ 0 <= m /\ 0 \in 0..NetCount
  BY <1>1, ConstantsAssumption
<1>5. ASSUME NEW net \in 0..NetCount, net = 0 \/ net \notin TriNets \cup Outs(nl, TriAffected(nl))
      PROVE  t.w[net] = s.w[net]
  <2>1. Untouched(order, 0, m, net)
    BY <1>1, <1>5 DEF Untouched, Outs
  <2>2. run[m].w[net] = run[0].w[net]
    BY <1>1, <1>2, <1>4, <2>1, RunKeepsNet
  <2> QED
    BY <1>1, <1>2, <1>3, <1>5, <2>2, TriNetsAre
<1>6. ASSUME InPhase(s) PROVE InPhase(t)
  <2> SUFFICES ASSUME NEW c \in OfKind(nl, {"clkdiv"}), Ins(nl, c) \cap Unsettled(nl, c) = {}
               PROVE  t.q[c].prev = In(t, c, 1)
    BY DEF InPhase
  <2>1. c \in Comps(nl) /\ nl[c].kind = "clkdiv" /\ c \notin OfKind(nl, CombKinds)
    BY Kinds DEF OfKind
  <2>2. NotRun(order, 0, m, c)
    BY <1>1, <2>1 DEF NotRun
  <2>3. run[m].q[c] = run[0].q[c]
    BY <1>1, <1>2, <1>4, <2>1, <2>2, RunKeepsLatch
  <2>4. SameNets(s, t, Ins(nl, c) \cup {0})
    <3>1. \A net \in Ins(nl, c) : net \notin TriNets \cup Outs(nl, TriAffected(nl))
      BY DEF Unsettled, TriNets, Outs
    <3> QED
      BY <1>4, <1>5, <2>1, <3>1, InputsAre DEF SameNets
  <2>5. In(s, c, 1) = In(t, c, 1)
    <3>1. SameInputs(s, t, c)
      BY <2>1, <2>4, InputsFrom
    <3>2. 1 \in 1..PinCount(nl[c].kind)
      BY <2>1, PinCounts
    <3> QED
      BY <3>1, <3>2 DEF SameInputs
  <2>6. s.q[c].prev = In(s, c, 1)
    BY <1>6 DEF InPhase
  <2> QED
    BY <1>1, <1>2, <1>3, <2>3, <2>5, <2>6
<1> QED
  BY <1>3, <1>4, <1>5, <1>6

\* What is settled does not move: the nets only settled components drive, and
\* the latches of those and of the components no round runs.
Kept(s, u, set) ==
    /\ \A net \in Fixed(set) : u.w[net] = s.w[net]
    /\ \A c \in Comps(nl) : c \in set \/ c \notin OfKind(nl, CombKinds) =>
         u.cout[c] = s.cout[c] /\ u.oe[c] = s.oe[c]

\* Inputs only settled components drive read what they read before.
LEMMA KeptInputs ==
    ASSUME Compiled, NEW s, NEW u, NEW set, Kept(s, u, set), NEW c \in Comps(nl), Ins(nl, c) \subseteq Fixed(set)
    PROVE  SameInputs(s, u, c)
<1>1. 0 \in Fixed(set)
  BY ConstantsAssumption DEF Fixed
<1>2. SameNets(s, u, Ins(nl, c) \cup {0})
  BY <1>1 DEF SameNets, Kept
<1> QED
  BY <1>2, InputsFrom

\* Running one affected component moves nothing that is settled.
LEMMA KeptStep ==
    ASSUME Compiled, NEW s, NEW set, Stable(s, set), NEW u \in States, NEW v,
           NEW d \in OfKind(nl, CombKinds), Frame(u, v, d), Computed(u, v, d), Kept(s, u, set)
    PROVE  Kept(s, v, set)
<1>1. d \in Comps(nl) /\ nl[d].kind \in CombKinds /\ nl[d].out \in 0..NetCount
  BY ComponentsAre DEF OfKind, Compiled
<1>2. /\ \A net \in Fixed(set) : net # nl[d].out \/ net = 0 => v.w[net] = s.w[net]
      /\ \A c \in Comps(nl) : c # d /\ (c \in set \/ c \notin OfKind(nl, CombKinds)) =>
           v.cout[c] = s.cout[c] /\ v.oe[c] = s.oe[c]
      /\ nl[d].kind \notin TriKinds => \A c \in Comps(nl) : v.cout[c] = u.cout[c] /\ v.oe[c] = u.oe[c]
  BY DEF Frame, Kept, Fixed
<1>3. CASE d \notin set
  <2>1. nl[d].out \in Fixed(set) => nl[d].out = 0
    BY <1>1, <1>3 DEF Fixed, Drivers
  <2> QED
    BY <1>2, <1>3, <2>1 DEF Kept
<1>4. CASE d \in set
  <2>1. Computed(s, s, d) /\ Ins(nl, d) \subseteq Fixed(set)
    BY <1>4 DEF Stable
  <2>2. SameInputs(s, u, d)
    BY <1>1, <2>1, KeptInputs
  <2>3. /\ Value(s, d) = Value(u, d)
        /\ nl[d].kind = "tsbuf" => In(s, d, 1) = In(u, d, 1) /\ In(s, d, 2) = In(u, d, 2)
    BY <2>2, ComputedSame
  <2>4. CASE nl[d].kind = "tsbuf"
    <3>1. v.cout[d] = s.cout[d] /\ v.oe[d] = s.oe[d]
      BY <2>1, <2>3, <2>4 DEF Computed
    <3>2. ASSUME nl[d].out \in Fixed(set), nl[d].out # 0 PROVE v.w[nl[d].out] = s.w[nl[d].out]
      <4>1. CASE nl[d].out \in gen.buses
        <5>1. v.w[nl[d].out] = u.w[nl[d].out]
          BY <1>1, <2>4, <4>1 DEF Frame, TriKinds
        <5> QED
          BY <3>2, <5>1 DEF Kept
      <4>2. CASE nl[d].out \notin gen.buses
        <5>1. v.w[nl[d].out] = IF v.oe[d] THEN v.cout[d] ELSE 0
          BY <2>4, <3>2, <4>2 DEF Computed
        <5>2. s.w[nl[d].out] = IF s.oe[d] THEN s.cout[d] ELSE 0
          BY <2>1, <2>4, <3>2, <4>2 DEF Computed
        <5> QED
          BY <3>1, <5>1, <5>2
      <4> QED
        BY <4>1, <4>2
    <3> QED
      BY <1>2, <3>1, <3>2 DEF Kept
  <2>5. CASE nl[d].kind # "tsbuf"
    <3>1. nl[d].kind \notin TriKinds
      BY <1>1, <2>5, Kinds
    <3>2. v.cout[d] = s.cout[d] /\ v.oe[d] = s.oe[d]
      BY <1>1, <1>2, <1>4, <3>1 DEF Kept
    <3>3. nl[d].out # 0 => v.w[nl[d].out] = s.w[nl[d].out]
      BY <2>1, <2>3, <2>5 DEF Computed
    <3> QED
      BY <1>2, <3>2, <3>3 DEF Kept
  <2> QED
    BY <2>4, <2>5
<1> QED
  BY <1>3, <1>4

\* A round moves nothing that is settled.
LEMMA KeptRun ==
    ASSUME Compiled, NEW s \in States, NEW s1, NEW t, NEW order, NEW m, NEW run,
           Round(s, s1, t, order, m, run), NEW set, Stable(s, set)
    PROVE  \A k \in 0..m : Kept(s, run[k], set)
<1>1. /\ m \in Nat /\ \A k \in 1..m : order[k] \in OfKind(nl, CombKinds)
      /\ run[0] = s /\ \A k \in 0..m : run[k] \in States
  BY RoundElements
<1> DEFINE T == {k \in Nat : Kept(s, run[k], set)}
<1>2. 0 \in T
  BY <1>1 DEF Kept
<1>3. ASSUME NEW k \in 1..m, k - 1 \in T PROVE k \in T
  <2>1. k - 1 \in 0..m /\ k \in Nat
    BY <1>1
  <2>2. PICK u \in States : u = run[k - 1]
    BY <1>1, <2>1
  <2>3. PICK v, d : v = run[k] /\ d = order[k]
    OBVIOUS
  <2>4. d \in OfKind(nl, CombKinds) /\ nl[d].kind \in CombKinds
    BY <1>1, <2>3 DEF OfKind
  <2>5. Frame(u, v, d) /\ Computed(u, v, d)
    BY <2>2, <2>3, <2>4 DEF Round, Runs
  <2>6. Kept(s, u, set)
    BY <1>3, <2>2
  <2>7. Kept(s, v, set)
    BY <2>4, <2>5, <2>6, KeptStep
  <2> QED
    BY <2>1, <2>3, <2>7
<1> HIDE DEF T
<1>4. \A k \in 0..m : k \in T
  BY <1>1, <1>2, <1>3, Steps
<1> QED
  BY <1>4 DEF T

\* Nor does the propagation behind it.
LEMMA KeptThrough ==
    ASSUME Compiled, NEW s, Quiet(s), NEW s1 \in States, NEW t, t = Propagate(s1), NEW set, Kept(s, s1, set)
    PROVE  Kept(s, t, set)
<1>1. /\ t.cout = s1.cout /\ t.oe = s1.oe
      /\ \A net \in 0..NetCount \ TriNets : t.w[net] = s1.w[net]
      /\ \A net \in TriNets : t.w[net] = Level(s1, net)
  BY PropagateIs
<1>2. ASSUME NEW net \in Fixed(set) PROVE t.w[net] = s.w[net]
  <2>1. net \in 0..NetCount /\ s1.w[net] = s.w[net]
    BY DEF Kept, Fixed
  <2>2. CASE net \notin TriNets
    BY <1>1, <2>1, <2>2
  <2>3. CASE net \in TriNets
    <3>1. net # 0
      BY <2>3, TriNetsAre
    <3>2. SameLatches(s, s1, net)
      BY <3>1 DEF SameLatches, Kept, Fixed, Drivers
    <3>3. Level(s, net) = Level(s1, net)
      BY <2>1, <3>2, LevelSame
    <3> QED
      BY <1>1, <2>3, <3>3 DEF Quiet
  <2> QED
    BY <2>2, <2>3
<1> QED
  BY <1>1, <1>2 DEF Kept

\* What has settled agrees with its inputs after the round as well.
LEMMA SettledAgrees ==
    ASSUME Compiled, NEW s, NEW t, NEW set, Stable(s, set), Kept(s, t, set), NEW c \in set
    PROVE  Computed(t, t, c)
<1>1. c \in OfKind(nl, CombKinds) /\ Computed(s, s, c) /\ Ins(nl, c) \subseteq Fixed(set)
  BY DEF Stable
<1>2. c \in Comps(nl) /\ nl[c].kind \in CombKinds /\ nl[c].out \in 0..NetCount
  BY <1>1, ComponentsAre DEF OfKind, Compiled
<1>3. SameInputs(s, t, c)
  BY <1>1, <1>2, KeptInputs
<1>4. /\ Value(s, c) = Value(t, c)
      /\ nl[c].kind = "tsbuf" => In(s, c, 1) = In(t, c, 1) /\ In(s, c, 2) = In(t, c, 2)
  BY <1>1, <1>3, ComputedSame
<1>5. t.cout[c] = s.cout[c] /\ t.oe[c] = s.oe[c]
  BY <1>2 DEF Kept
<1>6. ASSUME nl[c].out \notin gen.buses PROVE t.w[nl[c].out] = s.w[nl[c].out]
  <2>1. ASSUME nl[c].out # 0 PROVE \A d \in Drivers(nl, nl[c].out) : d = c
    <3>1. nl[c].out \in Nets \ BusNets(nl) /\ c \in Drivers(nl, nl[c].out)
      BY <1>2, <1>6, <2>1, ConstantsAssumption DEF Nets, Compiled, Generate, Drivers
    <3> QED
      BY <3>1, OneDriver
  <2>2. nl[c].out \in Fixed(set)
    BY <1>2, <2>1 DEF Fixed
  <2> QED
    BY <2>2 DEF Kept
<1>7. CASE nl[c].kind = "tsbuf"
  BY <1>1, <1>4, <1>5, <1>6, <1>7 DEF Computed
<1>8. CASE nl[c].kind # "tsbuf"
  <2>1. nl[c].out \notin gen.buses
    BY <1>2, <1>8, PlainOffBus, Kinds
  <2> QED
    BY <1>1, <1>4, <1>6, <1>8, <2>1 DEF Computed
<1> QED
  BY <1>7, <1>8

\* Without a loop some component that has not settled reads settled nets only.
LEMMA OneIsNext ==
    ASSUME Compiled, LoopFree(nl), NEW s, NEW set, Stable(s, set), set # OfKind(nl, CombKinds)
    PROVE  \E c \in TriAffected(nl) \ set : Ins(nl, c) \subseteq Fixed(set)
<1> DEFINE rest == OfKind(nl, CombKinds) \ set
<1>1. rest # {} /\ rest \in SUBSET OfKind(nl, CombKinds)
  BY DEF Stable
<1>2. PICK c \in rest : Ins(nl, c) \cap Outs(nl, rest) = {}
  BY <1>1 DEF LoopFree, Loop
<1>3. c \in TriAffected(nl) \ set /\ c \in Comps(nl)
  BY DEF Stable, Unaffected, OfKind
<1>4. ASSUME NEW net \in Ins(nl, c) PROVE net \in Fixed(set)
  <2>1. net \in 0..NetCount /\ net # 0
    BY <1>3, InputsAre DEF Ins
  <2>2. ASSUME NEW d \in Drivers(nl, net) \cap OfKind(nl, CombKinds) PROVE d \in set
    <3>1. d \notin rest
      BY <1>2, <2>1 DEF Outs, Drivers
    <3> QED
      BY <3>1
  <2> QED
    BY <2>1, <2>2 DEF Fixed
<1> QED
  BY <1>3, <1>4

\* More settled components fix more nets.
LEMMA FixedGrows ==
    ASSUME NEW set, NEW more, set \subseteq more
    PROVE  Fixed(set) \subseteq Fixed(more)
BY DEF Fixed

\* A round settles one more component.
LEMMA RoundSettles ==
    ASSUME Compiled, LoopFree(nl), NEW s \in States, Quiet(s), NEW s1, NEW t,
           NEW order, NEW m, NEW run, Round(s, s1, t, order, m, run),
           NEW set, Stable(s, set), set # OfKind(nl, CombKinds)
    PROVE  \E c \in OfKind(nl, CombKinds) \ set : Stable(t, set \cup {c})
<1>1. PICK c \in TriAffected(nl) \ set : Ins(nl, c) \subseteq Fixed(set)
  BY OneIsNext
<1>2. c \in OfKind(nl, CombKinds) /\ c \in Comps(nl) /\ nl[c].kind \in CombKinds
  BY AffectedIs DEF OfKind
<1>3. /\ m \in Nat /\ \E k \in 1..m : order[k] = c
      /\ s1 \in States /\ t = Propagate(s1) /\ s1 = run[m]
      /\ Stage(order) /\ m = Len(order) /\ Runs(run, s, order, m)
  BY RoundElements DEF Round
<1>4. PICK i \in 1..m : order[i] = c
  BY <1>3
<1>5. Kept(s, run[i - 1], set) /\ Kept(s, s1, set)
  <2>1. i - 1 \in 0..m /\ m \in 0..m
    BY <1>3
  <2> QED
    BY <1>3, <2>1, KeptRun
<1>6. Kept(s, t, set)
  BY <1>3, <1>5, KeptThrough
<1>7. SameInputs(s, run[i - 1], c) /\ SameInputs(s, s1, c) /\ SameInputs(s, t, c)
  BY <1>1, <1>2, <1>5, <1>6, KeptInputs
<1>8. SameInputs(run[i - 1], s1, c) /\ SameInputs(s1, t, c)
  BY <1>7 DEF SameInputs
<1>9. Computed(s1, s1, c)
  <2>1. SameInputs(run[i - 1], run[m], order[i])
    BY <1>3, <1>4, <1>8
  <2>2. nl[order[i]].kind \in CombKinds => Computed(run[m], run[m], order[i])
    BY <1>3, <2>1, OutputStays
  <2> QED
    BY <1>2, <1>3, <1>4, <2>2
<1>10. Computed(t, t, c)
  BY <1>2, <1>3, <1>8, <1>9, ComputedThrough
<1>11. \A d \in set : Computed(t, t, d)
  BY <1>6, SettledAgrees
<1>12. Fixed(set) \subseteq Fixed(set \cup {c})
  BY FixedGrows
<1>13. Stable(t, set \cup {c})
  BY <1>1, <1>2, <1>10, <1>11, <1>12 DEF Stable
<1> QED
  BY <1>2, <1>13

\* Once all have settled, a round changes no wire.
LEMMA RoundRests ==
    ASSUME Compiled, NEW s \in States, Quiet(s), NEW s1, NEW t,
           NEW order, NEW m, NEW run, Round(s, s1, t, order, m, run),
           Stable(s, OfKind(nl, CombKinds))
    PROVE  /\ Stable(t, OfKind(nl, CombKinds))
           /\ \A net \in 0..NetCount : s1.w[net] = s.w[net] /\ t.w[net] = s.w[net]
<1> DEFINE all == OfKind(nl, CombKinds)
<1>1. all = OfKind(nl, CombKinds)
  OBVIOUS
<1> HIDE DEF all
<1>2. m \in Nat /\ s1 \in States /\ t = Propagate(s1) /\ s1 = run[m] /\ Stable(s, all)
  BY <1>1, RoundElements DEF Round
<1>3. Kept(s, s1, all)
  <2>1. m \in 0..m
    BY <1>2
  <2> QED
    BY <1>2, <2>1, KeptRun
<1>4. Kept(s, t, all)
  BY <1>2, <1>3, KeptThrough
<1>5. \A c \in all : Computed(t, t, c)
  BY <1>2, <1>4, SettledAgrees
<1>6. Stable(t, all)
  BY <1>2, <1>5 DEF Stable
<1>7. \A net \in 0..NetCount : net \in Fixed(all)
  BY <1>1 DEF Fixed
<1> QED
  BY <1>1, <1>3, <1>4, <1>6, <1>7 DEF Kept

\* A round that leaves every bus alone has settled all.
LEMMA RoundDone ==
    ASSUME Compiled, LoopFree(nl), NEW s \in States, Quiet(s), NEW s1, NEW t,
           NEW order, NEW m, NEW run, Round(s, s1, t, order, m, run),
           NEW set, Stable(s, set), \A net \in gen.buses : t.w[net] = s1.w[net]
    PROVE  Stable(t, OfKind(nl, CombKinds))
<1>1. /\ m \in Nat /\ \A k \in 1..m : order[k] \in TriAffected(nl)
      /\ \A c \in TriAffected(nl) : \E k \in 1..m : order[k] = c
      /\ s1 \in States /\ run[0] = s
  BY RoundElements
<1>2. /\ t = Propagate(s1) /\ s1 = run[m] /\ m = Len(order) /\ Stage(order) /\ Runs(run, s, order, m)
      /\ \A i \in 1..m : Behind(nl, order, i)
  BY DEF Round
<1>3. /\ t.cout = s1.cout /\ t.oe = s1.oe /\ t \in States
      /\ \A net \in 0..NetCount \ TriNets : t.w[net] = s1.w[net]
      /\ \A net \in TriNets : t.w[net] = Level(s1, net)
  BY <1>1, <1>2, PropagateIs
<1>4. TriAffected(nl) \subseteq OfKind(nl, CombKinds)
  BY AffectedIs
<1>5. ASSUME NEW c \in TriAffected(nl) PROVE Computed(s1, s1, c)
  <2>1. PICK i \in 1..m : order[i] = c
    BY <1>1
  <2>2. c \in OfKind(nl, CombKinds) /\ c \in Comps(nl) /\ nl[c].kind \in CombKinds
    BY <1>4 DEF OfKind
  <2>3. \A net \in Ins(nl, c) : c \notin Drivers(nl, net)
    BY <2>2, NoSelfLoop
  <2>4. SameInputs(run[i - 1], run[m], c)
    <3>1. Behind(nl, order, i)
      BY <1>2
    <3> QED
      BY <1>1, <1>2, <2>1, <2>2, <2>3, <3>1, SameFrom
  <2>5. SameInputs(run[i - 1], run[m], order[i])
    BY <2>1, <2>4
  <2>6. nl[order[i]].kind \in CombKinds => Computed(run[m], run[m], order[i])
    BY <1>1, <1>2, <2>5, OutputStays
  <2> QED
    BY <1>2, <2>1, <2>2, <2>6
<1>6. ASSUME NEW net \in TriNets PROVE t.w[net] = s1.w[net]
  <2>1. net \in Nets /\ net \in 0..NetCount /\ net # 0
    BY TriNetsAre
  <2>2. CASE net \in gen.buses
    BY <2>2
  <2>3. CASE net \notin gen.buses
    <3>1. PICK d \in OfKind(nl, TriKinds) : nl[d].out = net
      BY DEF TriNets, TriOuts, Outs
    <3>2. /\ net \in Nets \ BusNets(nl) /\ d \in Drivers(nl, net) /\ d \in Comps(nl)
          /\ nl[d].kind \in TriKinds
      BY <2>1, <2>3, <3>1 DEF Compiled, Generate, Drivers, OfKind
    <3>3. CASE d \in TriAffected(nl)
      <4>1. nl[d].kind = "tsbuf"
        BY <1>4, <3>2, <3>3, Kinds DEF OfKind
      <4>2. s1.w[net] = IF s1.oe[d] THEN s1.cout[d] ELSE 0
        BY <1>5, <2>1, <2>3, <3>1, <3>3, <4>1 DEF Computed
      <4> QED
        BY <1>3, <3>2, <4>2, LevelAlone
    <3>4. CASE d \notin TriAffected(nl)
      <4>1. \A c \in Drivers(nl, net) : c = d
        BY <3>2, OneDriver
      <4>2. 0 \in 0..m /\ m \in 0..m /\ 0 <= m
        BY <1>1
      <4>3. NotRun(order, 0, m, d)
        BY <1>1, <3>4 DEF NotRun
      <4>4. s1.cout[d] = s.cout[d] /\ s1.oe[d] = s.oe[d]
        BY <1>1, <1>2, <3>2, <4>2, <4>3, RunKeepsLatch
      <4>5. Untouched(order, 0, m, net)
        <5> SUFFICES ASSUME NEW k \in (0 + 1)..m PROVE net # nl[order[k]].out
          BY DEF Untouched
        <5>1. order[k] \in TriAffected(nl) /\ order[k] \in Comps(nl)
          BY <1>1, <1>4 DEF OfKind
        <5> QED
          BY <3>4, <4>1, <5>1 DEF Drivers
      <4>6. s1.w[net] = s.w[net]
        BY <1>1, <1>2, <2>1, <4>2, <4>5, RunKeepsNet
      <4>7. SameLatches(s, s1, net)
        BY <4>1, <4>4 DEF SameLatches
      <4>8. Level(s, net) = Level(s1, net)
        BY <4>6, <4>7, LevelSame
      <4> QED
        BY <1>3, <4>6, <4>8 DEF Quiet
    <3> QED
      BY <3>3, <3>4
  <2> QED
    BY <2>2, <2>3
<1>7. \A net \in 0..NetCount : t.w[net] = s1.w[net]
  BY <1>3, <1>6
<1>8. ASSUME NEW c \in TriAffected(nl) PROVE Computed(t, t, c)
  <2>1. c \in OfKind(nl, CombKinds) /\ c \in Comps(nl)
    BY <1>4 DEF OfKind
  <2>2. SameNets(s1, t, Ins(nl, c) \cup {0})
    BY <1>7, <2>1, InputsAre, ConstantsAssumption DEF SameNets
  <2>3. SameInputs(s1, t, c)
    BY <2>1, <2>2, InputsFrom
  <2> QED
    BY <1>1, <1>2, <1>5, <2>1, <2>3, ComputedThrough
<1>9. ASSUME NEW c \in Unaffected PROVE Computed(t, t, c)
  <2>1. Kept(s, s1, set)
    <3>1. m \in 0..m
      BY <1>1
    <3> QED
      BY <1>2, <3>1, KeptRun
  <2>2. Kept(s, t, set)
    BY <1>1, <1>2, <2>1, KeptThrough
  <2> QED
    BY <2>2, SettledAgrees DEF Stable
<1>10. ASSUME NEW c \in OfKind(nl, CombKinds) PROVE Computed(t, t, c) /\ Ins(nl, c) \subseteq Fixed(OfKind(nl, CombKinds))
  <2>1. Computed(t, t, c)
    BY <1>8, <1>9 DEF Unaffected
  <2>2. Ins(nl, c) \subseteq 0..NetCount
    BY InputsAre DEF OfKind
  <2> QED
    BY <2>1, <2>2 DEF Fixed
<1> QED
  BY <1>10 DEF Stable, Unaffected

-----------------------------------------------------------------------------
(* Phases 3 and 4. *)

\* Phase 3 writes the latches of the tri-state registers and the wires no
\* tri-state output drives.
SeqFrame(s, t) ==
    /\ t \in States /\ t.w[0] = s.w[0]
    /\ \A net \in TriNets : t.w[net] = s.w[net]
    /\ \A c \in Comps(nl) : nl[c].kind \notin SeqKinds => t.cout[c] = s.cout[c] /\ t.oe[c] = s.oe[c]

\* A register writes its own latch or a wire no tri-state output drives.
LEMMA SeqStep ==
    ASSUME Compiled, NEW s \in States, NEW c \in OfKind(nl, SeqKinds \ ClockKinds),
           NEW rising, NEW t, t = ExecSeq(rising, s, c)
    PROVE  SeqFrame(s, t)
<1>1. c \in Comps(nl) /\ nl[c].kind \in {"dff", "treg"} /\ nl[c].kind \in SeqKinds
  BY Kinds DEF OfKind
<1>2. s.q[c] \in [v : Bit, prev : Bit]
  BY <1>1 DEF States
<1>3. In(s, c, 1) \in Bit /\ In(s, c, 2) \in Bit
  <2>1. 1 \in 1..PinCount(nl[c].kind) /\ 2 \in 1..PinCount(nl[c].kind)
    BY <1>1, PinCounts
  <2> QED
    BY <1>1, <2>1, InIsBit DEF Compiled
<1>4. CASE nl[c].kind = "dff"
  <2>1. PICK v : v = IF nl[c].ins[2] \in rising THEN In(s, c, 1) ELSE s.q[c].v
    OBVIOUS
  <2>2. v \in Bit
    BY <1>2, <1>3, <2>1
  <2>3. PICK x : x = [s.q[c] EXCEPT !.v = v]
    OBVIOUS
  <2>4. x \in [v : Bit, prev : Bit]
    BY <1>2, <2>2, <2>3
  <2>5. PICK u : u = Keep(s, c, x)
    OBVIOUS
  <2>6. u = [s EXCEPT !.q[c].v = v]
    BY <2>3, <2>5 DEF Keep
  <2>7. t = Drive(u, c, v)
    BY <1>4, <2>1, <2>6 DEF ExecSeq
  <2>8. u \in States /\ u.w = s.w /\ u.cout = s.cout /\ u.oe = s.oe
    BY <1>1, <2>4, <2>5, KeepIs
  <2>9. /\ t \in States /\ t.cout = u.cout /\ t.oe = u.oe
        /\ \A net \in 0..NetCount : net # nl[c].out \/ net = 0 => t.w[net] = u.w[net]
    BY <1>1, <2>2, <2>7, <2>8, DriveIs DEF Compiled
  <2>10. nl[c].out \notin TriNets /\ TriNets \subseteq 0..NetCount /\ 0 \in 0..NetCount
    BY <1>1, <1>4, Kinds, TriNetsAre, ConstantsAssumption
  <2> QED
    BY <2>8, <2>9, <2>10 DEF SeqFrame
<1>5. CASE nl[c].kind = "treg"
  <2>1. PICK clk : clk = In(s, c, 2)
    OBVIOUS
  <2>2. PICK v : v = IF clk = 1 /\ s.q[c].prev = 0 THEN In(s, c, 1) ELSE s.q[c].v
    OBVIOUS
  <2>3. v \in Bit
    BY <1>2, <1>3, <2>2
  <2>4. PICK x : x = [v |-> v, prev |-> clk]
    OBVIOUS
  <2>5. x \in [v : Bit, prev : Bit]
    BY <1>3, <2>1, <2>3, <2>4
  <2>6. PICK u : u = Keep(s, c, x)
    OBVIOUS
  <2> DEFINE en == TRUE
  <2>10. en \in BOOLEAN
    OBVIOUS
  <2>7. t = Latch(u, c, v, en)
    BY <1>5, <2>1, <2>2, <2>4, <2>6 DEF ExecSeq, Keep
  <2> HIDE DEF en
  <2>8. u \in States /\ u.w = s.w /\ u.cout = s.cout /\ u.oe = s.oe
    BY <1>1, <2>5, <2>6, KeepIs
  <2>9. /\ t \in States /\ t.w = u.w
        /\ \A d \in Comps(nl) \ {c} : t.cout[d] = u.cout[d] /\ t.oe[d] = u.oe[d]
    BY <1>1, <2>3, <2>7, <2>8, <2>10, LatchIs
  <2> QED
    BY <1>1, <2>8, <2>9 DEF SeqFrame
<1> QED
  BY <1>1, <1>4, <1>5

\* So does phase 3 as a whole.
LEMMA SeqStageIs ==
    ASSUME Compiled, NEW s, s \in States, NEW rising, NEW t, t = SeqStage(s, rising)
    PROVE  SeqFrame(s, t)
<1>1. PICK S : S = States
  OBVIOUS
<1>2. PICK order : order = SeqOrder
  OBVIOUS
<1>3. /\ order \in Seq(Comps(nl)) /\ ToSet(order) = OfKind(nl, SeqKinds \ ClockKinds)
  <2>1. PICK kinds : kinds = SeqKinds \ ClockKinds
    OBVIOUS
  <2>2. Nodes(nl, Select(nl, kinds)) /\ ToSet(Select(nl, kinds)) = OfKind(nl, kinds)
    BY SelectIs DEF Compiled
  <2> QED
    BY <1>2, <2>1, <2>2 DEF SeqOrder, Nodes
<1>4. PICK m \in Nat : m = Len(order)
  BY <1>3, Elements
<1> DEFINE G == [k \in 1..m |-> [x \in S |-> ExecSeq(rising, x, order[k])]]
           Def(f) == f = [k \in 0..m |-> IF k = 0 THEN s ELSE ExecSeq(rising, f[k - 1], order[k])]
           run == CHOOSE f : Def(f)
<1>5. \A k \in 1..m : order[k] \in OfKind(nl, SeqKinds \ ClockKinds)
  <2>1. \A k \in 1..m : order[k] \in ToSet(order)
    BY <1>3, <1>4, Elements
  <2> QED
    BY <1>3, <2>1
<1>6. ASSUME NEW k \in 1..m, NEW x \in S
      PROVE  ExecSeq(rising, x, order[k]) \in S /\ SeqFrame(x, ExecSeq(rising, x, order[k]))
  <2>1. PICK c \in OfKind(nl, SeqKinds \ ClockKinds) : c = order[k]
    BY <1>5
  <2>2. SeqFrame(x, ExecSeq(rising, x, c))
    BY <1>1, SeqStep
  <2> QED
    BY <1>1, <2>1, <2>2 DEF SeqFrame
<1>7. G \in [1..m -> [S -> S]]
  BY <1>6
<1>8. PICK f : Computes(G, S, m, s, f)
  <2> HIDE DEF G
  <2> QED
    BY <1>1, <1>7, RunExists
<1>9. f \in [0..m -> S] /\ f[0] = s /\ \A k \in 1..m : f[k] = G[k][f[k - 1]]
  BY <1>8 DEF Computes
<1>10. ASSUME NEW k \in 1..m PROVE f[k - 1] \in S /\ f[k] = ExecSeq(rising, f[k - 1], order[k])
  <2>1. k - 1 \in 0..m
    OBVIOUS
  <2>2. f[k - 1] \in S
    BY <1>9, <2>1
  <2> QED
    BY <1>9, <2>2
<1>11. Def(f)
  <2>1. \A k \in 0..m : k = 0 \/ k \in 1..m
    OBVIOUS
  <2> HIDE DEF G
  <2> QED
    BY <1>9, <1>10, <2>1
<1>12. Def(run)
  <2> HIDE DEF Def
  <2> QED
    BY <1>11
<1>13. t = run[m]
  BY <1>2, <1>4 DEF SeqStage, SeqRun
<1> HIDE DEF run
<1>14. run[0] = s /\ \A k \in 1..m : run[k] = ExecSeq(rising, run[k - 1], order[k])
  <2>1. 0 \in 0..m /\ \A k \in 1..m : k \in 0..m /\ k # 0
    OBVIOUS
  <2>2. run = [k \in 0..m |-> IF k = 0 THEN s ELSE ExecSeq(rising, run[k - 1], order[k])]
    BY <1>12
  <2> QED
    BY <2>1, <2>2
<1>15. \A k \in 0..m : SeqFrame(s, run[k])
  <2> DEFINE T == {k \in Nat : SeqFrame(s, run[k])}
  <2>1. 0 \in T
    BY <1>14 DEF SeqFrame
  <2>2. ASSUME NEW k \in 1..m, k - 1 \in T PROVE k \in T
    <3>1. PICK u, v : u = run[k - 1] /\ v = run[k]
      OBVIOUS
    <3>2. SeqFrame(s, u) /\ u \in S
      BY <1>1, <2>2, <3>1 DEF SeqFrame
    <3>3. SeqFrame(u, v)
      BY <1>6, <1>14, <3>1, <3>2
    <3>4. SeqFrame(s, v)
      BY <3>2, <3>3 DEF SeqFrame
    <3> QED
      BY <3>1, <3>4
  <2> HIDE DEF T
  <2>3. \A k \in 0..m : k \in T
    BY <2>1, <2>2, Steps
  <2> QED
    BY <2>3 DEF T
<1>16. m \in 0..m
  OBVIOUS
<1> QED
  BY <1>13, <1>15, <1>16

\* A register that drives a bus into a conflict is reported; without a report
\* every tri-state net shows the latches phase 3 has left.
LEMMA SequentialIs ==
    ASSUME Compiled, NEW s \in States, NEW rising, NEW s1, s1 = SeqStage(s, rising),
           NEW t, t = SeqTriPropagation(s1)
    PROVE  /\ t \in States /\ t.w[0] = s.w[0]
           /\ (\A net \in TriNets : ResolvedNet(s, net)) /\ BusError(s1, SeqNets \cap gen.buses) = "OK" =>
                \A net \in TriNets : ResolvedNet(t, net)
<1>1. SeqFrame(s, s1) /\ s1 \in States
  BY SeqStageIs DEF SeqFrame
<1>2. SeqNets \subseteq TriNets
  BY DEF SeqNets
<1>3. t = Resolve(s1, SeqNets)
  BY DEF SeqTriPropagation
<1>4. /\ t \in States /\ t.cout = s1.cout /\ t.oe = s1.oe
      /\ \A net \in 0..NetCount \ SeqNets : t.w[net] = s1.w[net]
      /\ \A net \in 0..NetCount : net \in SeqNets => t.w[net] = Level(s1, net)
  BY <1>1, <1>3, ResolveIs
<1>5. t.w[0] = s.w[0]
  <2>1. 0 \in 0..NetCount \ SeqNets
    BY <1>2, TriNetsAre, ConstantsAssumption
  <2> QED
    BY <1>1, <1>4, <2>1 DEF SeqFrame
<1>6. ASSUME NEW net \in TriNets, ResolvedNet(s, net), BusError(s1, SeqNets \cap gen.buses) = "OK"
      PROVE  ResolvedNet(t, net)
  <2>1. net \in 0..NetCount
    BY TriNetsAre
  <2>2. CASE net \in SeqNets
    <3>1. ~InConflict(s1, net)
      BY <1>6, <2>2, ConflictIsBus DEF BusError
    <3>2. SameLatches(s1, t, net)
      BY <1>4 DEF SameLatches
    <3>3. ~InConflict(t, net) /\ t.w[net] = Level(t, net)
      BY <1>4, <2>1, <2>2, <3>1, <3>2, LevelSame
    <3> QED
      BY <3>3, ResolvedOne
  <2>3. CASE net \notin SeqNets
    <3>1. \A c \in Drivers(nl, net) : nl[c].kind \notin SeqKinds /\ c \in Comps(nl)
      BY <2>3 DEF SeqNets, Drivers
    <3>2. SameLatches(s, t, net)
      BY <1>1, <1>4, <3>1 DEF SameLatches, SeqFrame
    <3>3. t.w[net] = s.w[net]
      BY <1>1, <1>4, <2>1, <2>3 DEF SeqFrame
    <3>4. Enabled(s, net) = Enabled(t, net)
      BY <3>2, LevelSame
    <3>5. \A c \in Comps(nl) : Enabled(s, net) = {c} => s.cout[c] = t.cout[c]
      BY <3>2 DEF SameLatches, Enabled
    <3> QED
      BY <1>6, <3>3, <3>4, <3>5 DEF ResolvedNet
  <2> QED
    BY <2>2, <2>3
<1> QED
  BY <1>4, <1>5, <1>6

-----------------------------------------------------------------------------
(* The inductive invariant. *)

Working == {"resolved", "settling", "settled", "sequential"}

\* In a netlist without a loop each round settles a component more, and so
\* the last round the limit allows finds nothing to change.
Progress ==
    /\ err # "BUS_OSCILLATION"
    /\ pc \in {"resolved", "settling"} => \E set : Stable(State, set) /\ round <= Cardinality(set)
    /\ pc \in {"settled", "sequential"} => Stable(State, OfKind(nl, CombKinds))

EngineInv ==
    /\ Compiled /\ State \in States /\ State.w[0] = 0 /\ round \in 0..Len(nl)
    /\ pc \in Working => Quiet(State) /\ InPhase(State)
    /\ pc \in Working \cup {"returned"} /\ err = "OK" => \A net \in TriNets : ResolvedNet(State, net)
    /\ LoopFree(nl) => Progress

\* The same formulas in the next state of a circuit, which stays as compiled.
LEMMA NextCompiled ==
    ASSUME nl' = nl, gen' = gen
    PROVE  /\ Compiled' <=> Compiled
           /\ States' = States /\ TriNets' = TriNets /\ LoopFree(nl)' = LoopFree(nl)
           /\ OfKind(nl, CombKinds)' = OfKind(nl, CombKinds)
BY DEF Compiled, States, TriNets

\* Who drives a net in the next state.
LEMMA NextEnabled ==
    ASSUME nl' = nl, NEW s, State' = s, NEW net
    PROVE  Enabled(State, net)' = Enabled(s, net)
BY DEF Enabled

\* The level of a net in the next state.
LEMMA NextLevel ==
    ASSUME nl' = nl, NEW s, State' = s, NEW net
    PROVE  Level(State, net)' = Level(s, net)
<1>1. Enabled(State, net)' = Enabled(s, net)
  BY NextEnabled
<1>2. InConflict(State, net)' = InConflict(s, net)
  BY <1>1 DEF InConflict
<1> QED
  BY <1>1, <1>2 DEF Level

\* Whether the wires show the latches in the next state.
LEMMA NextQuiet ==
    ASSUME nl' = nl, gen' = gen, NEW s, State' = s
    PROVE  Quiet(State)' <=> Quiet(s)
<1>1. TriNets' = TriNets
  BY NextCompiled
<1>2. \A net : Level(State, net)' = Level(s, net)
  BY NextLevel
<1> QED
  BY <1>1, <1>2 DEF Quiet

\* Whether the tri-state nets are resolved in the next state.
LEMMA NextResolved ==
    ASSUME nl' = nl, gen' = gen, NEW s, State' = s
    PROVE  (\A net \in TriNets : ResolvedNet(State, net))' <=> \A net \in TriNets : ResolvedNet(s, net)
<1>1. TriNets' = TriNets
  BY NextCompiled
<1>2. \A net : Enabled(State, net)' = Enabled(s, net)
  BY NextEnabled
<1>3. Comps(nl)' = Comps(nl)
  OBVIOUS
<1> QED
  BY <1>1, <1>2, <1>3 DEF ResolvedNet

\* Whether the dividers are in phase in the next state.
LEMMA NextInPhase ==
    ASSUME nl' = nl, NEW s, State' = s
    PROVE  InPhase(State)' <=> InPhase(s)
BY DEF InPhase, In

\* Whether a component agrees with its inputs in the next state.
LEMMA NextComputed ==
    ASSUME nl' = nl, gen' = gen, NEW s, State' = s, NEW c
    PROVE  Computed(State, State, c)' <=> Computed(s, s, c)
<1>1. \A k : In(State, c, k)' = In(s, c, k)
  BY DEF In
<1>2. Value(State, c)' = Value(s, c)
  BY <1>1 DEF Value
<1> QED
  BY <1>1, <1>2 DEF Computed

\* What has settled in the next state.
LEMMA NextStable ==
    ASSUME nl' = nl, gen' = gen, NEW s, State' = s, NEW set
    PROVE  Stable(State, set)' <=> Stable(s, set)
<1>1. \A c : Computed(State, State, c)' <=> Computed(s, s, c)
  BY NextComputed
<1>2. Unaffected' = Unaffected /\ Fixed(set)' = Fixed(set)
  BY DEF Unaffected, Fixed
<1> QED
  BY <1>1, <1>2 DEF Stable

\* What a step has to show.
LEMMA NextInv ==
    ASSUME EngineInv, nl' = nl, gen' = gen, NEW s \in States, State' = s, s.w[0] = 0,
           round' \in 0..Len(nl),
           pc' \in Working => Quiet(s) /\ InPhase(s),
           pc' \in Working \cup {"returned"} /\ err' = "OK" => \A net \in TriNets : ResolvedNet(s, net),
           LoopFree(nl) =>
             /\ err' # "BUS_OSCILLATION"
             /\ pc' \in {"resolved", "settling"} => \E set : Stable(s, set) /\ round' <= Cardinality(set)
             /\ pc' \in {"settled", "sequential"} => Stable(s, OfKind(nl, CombKinds))
    PROVE  EngineInv'
<1>1. Compiled' /\ States' = States /\ LoopFree(nl)' = LoopFree(nl)
      /\ OfKind(nl, CombKinds)' = OfKind(nl, CombKinds)
  BY NextCompiled DEF EngineInv
<1>2. Quiet(State)' <=> Quiet(s)
  BY NextQuiet
<1>3. InPhase(State)' <=> InPhase(s)
  BY NextInPhase
<1>4. (\A net \in TriNets : ResolvedNet(State, net))' <=> \A net \in TriNets : ResolvedNet(s, net)
  BY NextResolved
<1>5. \A set : Stable(State, set)' <=> Stable(s, set)
  BY NextStable
<1>6. Stable(State, OfKind(nl, CombKinds))' <=> Stable(s, OfKind(nl, CombKinds))
  <2>1. PICK all : all = OfKind(nl, CombKinds)
    OBVIOUS
  <2> QED
    BY <1>1, <1>5, <2>1 DEF Stable
<1>7. (LoopFree(nl) => Progress)'
  BY <1>1, <1>5, <1>6 DEF Progress
<1>8. Working' = Working
  BY DEF Working
<1> QED
  BY <1>1, <1>2, <1>3, <1>4, <1>7, <1>8 DEF EngineInv

\* Store is an assignment of the whole state.
LEMMA StateIs ==
    ASSUME NEW s \in States, Store(s)
    PROVE  State' = s
BY DEF States, Store, State

\* reset() leaves a state of the circuit.
LEMMA ClearedIs ==
    ASSUME Compiled
    PROVE  Cleared \in States /\ Cleared.w[0] = 0
<1>1. 0 \in 0..NetCount /\ 0 \in Bit
  BY ConstantsAssumption DEF Bit
<1> QED
  BY <1>1 DEF Cleared, States

\* The compiled circuit starts in the invariant.
LEMMA EngineInit == Init => EngineInv
<1> SUFFICES ASSUME Init PROVE EngineInv
  OBVIOUS
<1>1. Compiled
  BY NetlistsAssumption DEF Init, Compiled, Netlist
<1>2. State = Cleared
  BY DEF Init, State, Cleared
<1>3. State \in States /\ State.w[0] = 0
  BY <1>1, <1>2, ClearedIs
<1>4. pc = "idle" /\ err = "OK" /\ round = 0 /\ Len(nl) \in Nat
  BY <1>1, ComponentsAre DEF Init, Compiled
<1> QED
  BY <1>1, <1>3, <1>4 DEF EngineInv, Working, Progress

\* Steps that leave the components alone.
LEMMA QuietStep ==
    ASSUME EngineInv, nl' = nl, gen' = gen, State' = State, round' = round,
           pc' \in Working => pc \in Working,
           pc' \in {"idle", "start"} \/ err' = err,
           err' = err \/ err' = "OK",
           pc' \in Working \cup {"returned"} => pc \in Working \cup {"returned"},
           pc' \in {"resolved", "settling"} => pc \in {"resolved", "settling"},
           pc' \in {"settled", "sequential"} =>
             pc \in {"settled", "sequential"} \/ (pc = "resolved" /\ gen.affected = {})
    PROVE  EngineInv'
<1>1. PICK s \in States : s = State
  BY DEF EngineInv
<1>2. /\ State' = s /\ s.w[0] = 0 /\ round' \in 0..Len(nl)
      /\ pc \in Working => Quiet(s) /\ InPhase(s)
      /\ pc \in Working \cup {"returned"} /\ err = "OK" => \A net \in TriNets : ResolvedNet(s, net)
      /\ LoopFree(nl) => Progress
  BY <1>1 DEF EngineInv
<1>3. pc' \in Working => Quiet(s) /\ InPhase(s)
  BY <1>2
<1>4. pc' \in Working \cup {"returned"} /\ err' = "OK" => \A net \in TriNets : ResolvedNet(s, net)
  BY <1>2 DEF Working
<1>5. ASSUME LoopFree(nl)
      PROVE  /\ err' # "BUS_OSCILLATION"
             /\ pc' \in {"resolved", "settling"} => \E set : Stable(s, set) /\ round' <= Cardinality(set)
             /\ pc' \in {"settled", "sequential"} => Stable(s, OfKind(nl, CombKinds))
  <2>1. /\ err # "BUS_OSCILLATION"
        /\ pc \in {"resolved", "settling"} => \E set : Stable(s, set) /\ round <= Cardinality(set)
        /\ pc \in {"settled", "sequential"} => Stable(s, OfKind(nl, CombKinds))
    BY <1>1, <1>2, <1>5 DEF Progress
  <2>2. ASSUME pc = "resolved", gen.affected = {} PROVE Stable(s, OfKind(nl, CombKinds))
    <3>1. PICK set : Stable(s, set)
      BY <2>1, <2>2
    <3>2. Unaffected = OfKind(nl, CombKinds)
      BY <2>2 DEF Unaffected, EngineInv, Compiled, Generate
    <3>3. set = OfKind(nl, CombKinds)
      BY <3>1, <3>2 DEF Stable
    <3> QED
      BY <3>1, <3>3
  <2> QED
    BY <2>1, <2>2
<1> QED
  BY <1>2, <1>3, <1>4, <1>5, NextInv

\* Writing one net.
LEMMA WireIs ==
    ASSUME NEW s \in States, NEW net \in 0..NetCount, NEW v \in Bit, NEW t, t = [s EXCEPT !.w[net] = v]
    PROVE  t \in States /\ (net # 0 => t.w[0] = s.w[0])
<1>1. s.w \in [0..NetCount -> Bit] /\ 0 \in 0..NetCount
  BY ConstantsAssumption DEF States
<1>2. /\ t.w = [s.w EXCEPT ![net] = v]
      /\ t = [w |-> t.w, cout |-> s.cout, oe |-> s.oe, q |-> s.q]
  BY DEF States
<1>3. t.w \in [0..NetCount -> Bit]
  BY <1>1, <1>2
<1>4. t \in States
  BY <1>2, <1>3 DEF States
<1> QED
  BY <1>1, <1>2, <1>4

\* setWire writes a net while no call is in progress.
LEMMA EngineSetWire ==
    ASSUME EngineInv, NEW net \in HostNets, NEW v \in Bit, SetWire(net, v)
    PROVE  EngineInv'
<1>1. PICK s \in States : s = State
  BY DEF EngineInv
<1>2. PICK t : t = [s EXCEPT !.w[net] = v]
  OBVIOUS
<1>3. net \in 0..NetCount /\ net # 0 /\ s.w[0] = 0
  BY <1>1, ConstantsAssumption DEF EngineInv, HostNets, Nets
<1>4. t \in States /\ t.w[0] = 0
  BY <1>2, <1>3, WireIs
<1>5. t = [w |-> [w EXCEPT ![net] = v], cout |-> cout, oe |-> oe, q |-> q]
  BY <1>1, <1>2 DEF State
<1>6. State' = t
  BY <1>5 DEF SetWire, State
<1>9. pc' = "idle" /\ err' = err /\ nl' = nl /\ gen' = gen /\ round' = round /\ pc' = pc
  BY DEF SetWire
<1>10. /\ pc' \notin Working /\ pc' # "returned" /\ pc' \notin {"resolved", "settling", "settled", "sequential"}
       /\ round' \in 0..Len(nl) /\ (LoopFree(nl) => err' # "BUS_OSCILLATION")
  BY <1>9 DEF Working, EngineInv, Progress
<1> QED
  BY <1>4, <1>6, <1>9, <1>10, NextInv

\* reset() ends in a cleared state, between calls.
LEMMA EngineReset == ASSUME EngineInv, Reset PROVE EngineInv'
<1>1. PICK t : t = Cleared
  OBVIOUS
<1>2. t \in States /\ t.w[0] = 0
  BY <1>1, ClearedIs DEF EngineInv
<1>3. State' = t
  BY <1>1, <1>2, StateIs DEF Reset
<1>4. pc' = "idle" /\ err' = "OK" /\ nl' = nl /\ gen' = gen /\ round' = round
  BY DEF Reset
<1>5. /\ pc' \notin Working /\ pc' # "returned" /\ pc' \notin {"resolved", "settling", "settled", "sequential"}
      /\ round' \in 0..Len(nl) /\ err' # "BUS_OSCILLATION"
  BY <1>4 DEF Working, EngineInv
<1> QED
  BY <1>2, <1>3, <1>4, <1>5, NextInv

\* Every call of the host keeps the invariant.
LEMMA EngineHost == ASSUME EngineInv, Host PROVE EngineInv'
<1>1. CASE \E net \in HostNets, v \in Bit : SetWire(net, v)
  BY <1>1, EngineSetWire
<1>2. CASE Reset
  BY <1>2, EngineReset
<1>3. CASE Tick \/ (\E n \in 1..MaxBatch : TickBatch(n)) \/ (\E n \in 1..MaxBatch : TickCycles(n)) \/ TickForever
  <2>1. PICK c : Begin(c)
    BY <1>3 DEF Tick, TickBatch, TickCycles, TickForever
  <2>2. State' = State /\ nl' = nl /\ gen' = gen /\ round' = round /\ err' = err /\ pc' = "start"
    BY <2>1 DEF Begin, State
  <2> QED
    BY <2>2, QuietStep DEF Working
<1>4. CASE InterruptTickForever
  <2>1. State' = State /\ nl' = nl /\ gen' = gen /\ round' = round /\ err' = err /\ pc' = pc
    BY <1>4 DEF InterruptTickForever, State
  <2> QED
    BY <2>1, QuietStep
<1>5. CASE ClearError
  <2>1. State' = State /\ nl' = nl /\ gen' = gen /\ round' = round /\ err' = "OK" /\ pc' = "idle"
    BY <1>5 DEF ClearError, State
  <2> QED
    BY <2>1, QuietStep DEF Working
<1> QED
  BY <1>1, <1>2, <1>3, <1>4, <1>5 DEF Host

\* Phases 1 and 2 start the count with the unaffected components settled.
LEMMA EngineCombinational == ASSUME EngineInv, Combinational PROVE EngineInv'
<1>1. PICK s0 : s0 = IF call.op = "cycles"
                     THEN [State EXCEPT !.w[ClockNet] = IF call.low THEN 0 ELSE 1] ELSE State
  OBVIOUS
<1>2. PICK t : t = Propagate(CombStage(s0, gen.stage))
  OBVIOUS
<1>3. Store(t) /\ Report(BusError(t, gen.buses)) /\ round' = 0 /\ pc' = "resolved" /\ nl' = nl /\ gen' = gen
  BY <1>1, <1>2 DEF Combinational
<1>4. Compiled /\ State \in States /\ State.w[0] = 0 /\ Len(nl) \in Nat
  BY ComponentsAre DEF EngineInv, Compiled
<1>5. s0 \in States /\ s0.w[0] = 0
  <2>1. CASE call.op # "cycles"
    BY <1>1, <1>4, <2>1
  <2>2. CASE call.op = "cycles"
    <3>1. PICK v \in Bit : v = IF call.low THEN 0 ELSE 1
      BY DEF Bit
    <3>2. PICK s \in States : s = State
      BY <1>4
    <3>3. s0 = [s EXCEPT !.w[ClockNet] = v]
      BY <1>1, <2>2, <3>1, <3>2
    <3>4. ClockNet \in 0..NetCount /\ ClockNet # 0 /\ s.w[0] = 0
      BY <1>4, <3>2, ConstantsAssumption
    <3> QED
      BY <3>3, <3>4, WireIs
  <2> QED
    BY <2>1, <2>2
<1>6. /\ t \in States /\ t.w[0] = s0.w[0] /\ Quiet(t) /\ InPhase(t)
      /\ LoopFree(nl) => Stable(t, Unaffected)
  BY <1>2, <1>4, <1>5, CombinationalIs
<1>7. State' = t
  BY <1>3, <1>6, StateIs
<1>8. err' = "OK" => \A net \in TriNets : ResolvedNet(t, net)
  <2>1. err' = "OK" => BusError(t, gen.buses) = "OK"
    BY <1>3 DEF Report
  <2> QED
    BY <1>4, <1>6, <2>1, QuietResolves
<1>9. LoopFree(nl) => err' # "BUS_OSCILLATION"
  BY <1>3 DEF Report, BusError, EngineInv, Progress
<1>10. LoopFree(nl) => \E set : Stable(t, set) /\ round' <= Cardinality(set)
  <2>1. 0 <= Cardinality(Unaffected)
    <3>1. IsFiniteSet(Unaffected)
      BY <1>4, ComponentsAre, FS_Subset DEF Unaffected, OfKind, Compiled
    <3> QED
      BY <3>1, FS_CardinalityType
  <2> QED
    BY <1>3, <1>6, <2>1
<1>11. round' \in 0..Len(nl) /\ pc' \notin {"settled", "sequential"}
  BY <1>3, <1>4
<1> QED
  BY <1>3, <1>5, <1>6, <1>7, <1>8, <1>9, <1>10, <1>11, NextInv

\* One round of phase 2b, as the step reports it.
LEMMA EngineSettle == ASSUME EngineInv, Settle PROVE EngineInv'
<1>1. PICK s \in States : s = State
  BY DEF EngineInv
<1>2. PICK s1, t : s1 = CombStage(s, Rerun) /\ t = Propagate(s1)
  OBVIOUS
<1>3. PICK changed, last :
        /\ Store(t) /\ nl' = nl /\ gen' = gen
        /\ changed \in BOOLEAN /\ last \in BOOLEAN
        /\ changed <=> \/ \E n \in Outs(nl, {c \in ToSet(Rerun) : nl[c].kind = "tsbuf"}) \ gen.buses : s1.w[n] # s.w[n]
                       \/ \E n \in gen.buses : t.w[n] # s1.w[n]
        /\ last <=> round = Len(nl)
        /\ Report(IF BusError(t, gen.buses) = "OK" /\ changed /\ last
                  THEN "BUS_OSCILLATION" ELSE BusError(t, gen.buses))
        /\ round' = IF changed /\ ~last THEN round + 1 ELSE 0
        /\ pc' = IF changed /\ ~last THEN "settling" ELSE "settled"
        /\ pc = "settling"
  <2> DEFINE changed == \/ \E n \in Outs(nl, {c \in ToSet(Rerun) : nl[c].kind = "tsbuf"}) \ gen.buses : s1.w[n] # s.w[n]
                        \/ \E n \in gen.buses : t.w[n] # s1.w[n]
             last == round + 1 = RoundLimit
  <2>1. last <=> round = Len(nl)
    BY ComponentsAre DEF RoundLimit, EngineInv, Compiled
  <2>2. s.w = w
    BY <1>1 DEF State
  <2>3. changed \in BOOLEAN /\ last \in BOOLEAN
    OBVIOUS
  <2> QED
    BY <1>1, <1>2, <2>1, <2>2, <2>3 DEF Settle, Rerun
<1>4. Compiled /\ State.w[0] = 0 /\ s.w[0] = 0 /\ Len(nl) \in Nat /\ round \in 0..Len(nl)
      /\ Quiet(s) /\ InPhase(s)
  BY <1>1, <1>3, ComponentsAre DEF EngineInv, Compiled, Working
<1>5. PICK order, m, run : Round(s, s1, t, order, m, run)
  BY <1>2, <1>4, RoundIs
<1>6. t \in States /\ t.w[0] = 0 /\ Quiet(t) /\ InPhase(t)
  BY <1>4, <1>5, RoundKeeps
<1>7. State' = t
  BY <1>3, <1>6, StateIs
<1>8. err' = "OK" => \A net \in TriNets : ResolvedNet(t, net)
  <2>1. err' = "OK" => BusError(t, gen.buses) = "OK"
    BY <1>3 DEF Report
  <2> QED
    BY <1>4, <1>6, <2>1, QuietResolves
<1>9. ASSUME LoopFree(nl)
      PROVE  /\ ~(changed /\ last)
             /\ pc' = "settling" => \E set : Stable(t, set) /\ round' <= Cardinality(set)
             /\ pc' = "settled" => Stable(t, OfKind(nl, CombKinds))
  <2>1. PICK set : Stable(s, set) /\ round <= Cardinality(set)
    BY <1>1, <1>3, <1>9 DEF EngineInv, Progress
  <2>2. /\ set \subseteq OfKind(nl, CombKinds) /\ OfKind(nl, CombKinds) \subseteq Comps(nl)
        /\ IsFiniteSet(Comps(nl)) /\ Cardinality(Comps(nl)) = Len(nl)
    BY <1>4, <2>1, ComponentsAre DEF Stable, OfKind, Compiled
  <2>3. IsFiniteSet(set) /\ Cardinality(set) \in Nat
    BY <2>2, FS_Subset, FS_CardinalityType
  <2>4. changed => set # OfKind(nl, CombKinds)
    <3> SUFFICES ASSUME set = OfKind(nl, CombKinds) PROVE ~changed
      OBVIOUS
    <3>1. \A net \in 0..NetCount : s1.w[net] = s.w[net] /\ t.w[net] = s.w[net]
      BY <1>4, <1>5, <2>1, RoundRests
    <3>2. gen.buses \subseteq 0..NetCount
      BY <1>4, ConstantsAssumption DEF Compiled, Generate, BusNets, Nets
    <3>3. Outs(nl, {c \in ToSet(Rerun) : nl[c].kind = "tsbuf"}) \subseteq 0..NetCount
      <4>1. ToSet(Rerun) \subseteq Comps(nl)
        BY <1>4, <1>5, AffectedIs DEF Round, OfKind
      <4> QED
        BY <1>4, <4>1, ComponentsAre DEF Outs, Compiled
    <3> QED
      BY <1>3, <3>1, <3>2, <3>3
  <2>5. changed => \E c \in OfKind(nl, CombKinds) \ set : Stable(t, set \cup {c})
    BY <1>4, <1>5, <1>9, <2>1, <2>4, RoundSettles
  <2>6. ~changed => Stable(t, OfKind(nl, CombKinds))
    BY <1>3, <1>4, <1>5, <1>9, <2>1, RoundDone
  <2>7. ~(changed /\ last)
    <3> SUFFICES ASSUME changed, last PROVE FALSE
      OBVIOUS
    <3>1. Cardinality(set) <= Cardinality(Comps(nl)) /\ (set # Comps(nl) => Cardinality(set) < Cardinality(Comps(nl)))
      BY <2>2, FS_Subset, FS_CardinalityType
    <3>2. set = Comps(nl)
      BY <1>3, <1>4, <2>1, <2>2, <2>3, <3>1
    <3> QED
      BY <2>2, <2>4, <3>2
  <2>8. pc' = "settling" => \E more : Stable(t, more) /\ round' <= Cardinality(more)
    <3> SUFFICES ASSUME pc' = "settling" PROVE \E more : Stable(t, more) /\ round' <= Cardinality(more)
      OBVIOUS
    <3>1. changed /\ round' = round + 1
      BY <1>3
    <3>2. PICK c \in OfKind(nl, CombKinds) \ set : Stable(t, set \cup {c})
      BY <2>5, <3>1
    <3>3. Cardinality(set \cup {c}) = Cardinality(set) + 1
      BY <2>3, <3>2, FS_AddElement
    <3> QED
      BY <1>4, <2>1, <2>3, <3>1, <3>2, <3>3
  <2> QED
    BY <1>3, <2>6, <2>7, <2>8
<1>10. LoopFree(nl) => err' # "BUS_OSCILLATION"
  BY <1>3, <1>9 DEF Report, BusError, EngineInv, Progress
<1>11. /\ round' \in 0..Len(nl) /\ pc' \in {"settling", "settled"}
  BY <1>3, <1>4
<1> QED
  BY <1>3, <1>6, <1>7, <1>8, <1>9, <1>10, <1>11, NextInv

\* Phases 3 and 4 start from a resolved state and end in one, or report.
LEMMA EngineSequential == ASSUME EngineInv, ErrorInv, Sequential PROVE EngineInv'
<1>1. PICK s \in States : s = State
  BY DEF EngineInv
<1>2. PICK rising : rising = {n \in EdgeNets : w[n] = 1 /\ edgePrev[n] = 0}
  OBVIOUS
<1>3. PICK s1, t : s1 = SeqStage(s, rising) /\ t = SeqTriPropagation(s1)
  OBVIOUS
<1>4. /\ Store(t) /\ Report(BusError(s1, SeqNets \cap gen.buses)) /\ pc = "sequential"
      /\ pc' = "returned" /\ nl' = nl /\ gen' = gen /\ round' = round
  BY <1>1, <1>2, <1>3 DEF Sequential
<1>5. Compiled /\ s.w[0] = 0 /\ round \in 0..Len(nl) /\ err = "OK"
      /\ \A net \in TriNets : ResolvedNet(s, net)
  BY <1>1, <1>4 DEF EngineInv, ErrorInv, Working
<1>6. /\ t \in States /\ t.w[0] = 0
      /\ BusError(s1, SeqNets \cap gen.buses) = "OK" => \A net \in TriNets : ResolvedNet(t, net)
  BY <1>3, <1>5, SequentialIs
<1>7. State' = t
  BY <1>4, <1>6, StateIs
<1>8. err' = "OK" => \A net \in TriNets : ResolvedNet(t, net)
  BY <1>4, <1>6 DEF Report
<1>9. err' # "BUS_OSCILLATION"
  BY <1>4, <1>5 DEF Report, BusError
<1> QED
  BY <1>4, <1>5, <1>6, <1>7, <1>8, <1>9, NextInv DEF Working

\* Every call and every step of the thread keeps the invariant.
LEMMA EngineNext == EngineInv /\ ErrorInv /\ [Next]_vars => EngineInv'
<1> SUFFICES ASSUME EngineInv, ErrorInv, [Next]_vars PROVE EngineInv'
  OBVIOUS
<1>1. CASE Host
  BY <1>1, EngineHost
<1>2. CASE Combinational
  BY <1>2, EngineCombinational
<1>3. CASE StopAfterResolution
  <2>1. /\ State' = State /\ nl' = nl /\ gen' = gen /\ round' = round /\ err' = err
        /\ pc = "resolved" /\ pc' \in {"returned", "settling", "sequential"}
        /\ pc' = "sequential" => gen.affected = {}
    BY <1>3 DEF StopAfterResolution, State
  <2> QED
    BY <2>1, QuietStep DEF Working
<1>4. CASE Settle
  BY <1>4, EngineSettle
<1>5. CASE StopAfterSettling
  <2>1. /\ State' = State /\ nl' = nl /\ gen' = gen /\ round' = round /\ err' = err
        /\ pc = "settled" /\ pc' \in {"returned", "sequential"}
    BY <1>5 DEF StopAfterSettling, State
  <2> QED
    BY <2>1, QuietStep DEF Working
<1>6. CASE Sequential
  BY <1>6, EngineSequential
<1>7. CASE NextTick
  <2>1. /\ State' = State /\ nl' = nl /\ gen' = gen /\ round' = round /\ err' = err
        /\ pc' \in {"start", "idle"}
    BY <1>7 DEF NextTick, State
  <2> QED
    BY <2>1, QuietStep DEF Working
<1>8. CASE UNCHANGED vars
  <2>1. /\ State' = State /\ nl' = nl /\ gen' = gen /\ round' = round /\ err' = err /\ pc' = pc
    BY <1>8 DEF vars, State
  <2> QED
    BY <2>1, QuietStep
<1> QED
  BY <1>1, <1>2, <1>3, <1>4, <1>5, <1>6, <1>7, <1>8 DEF Next, Engine

\* A call under way has an operation, and a batch a tick left to run.
CallInv ==
    /\ edgePrev \in [Nets -> Bit] /\ stop \in BOOLEAN
    /\ pc \in {"idle", "start", "resolved", "settling", "settled", "sequential", "returned"}
    /\ call \in [op : {"none", "tick", "batch", "cycles", "forever"},
                 left : 0..MaxBatch, i : 0..(StopEvery - 1), low : BOOLEAN]
    /\ pc # "idle" => call.op # "none" /\ (call.op \in {"batch", "cycles"} => call.left >= 1)

\* No call is in progress at the start.
LEMMA CallInit == Init => CallInv
<1> SUFFICES ASSUME Init PROVE CallInv
  OBVIOUS
<1>1. 0 \in 0..MaxBatch /\ 0 \in 0..(StopEvery - 1) /\ 0 \in Bit
  BY ConstantsAssumption DEF Bit
<1> QED
  BY <1>1 DEF Init, CallInv, Idle

\* A call the host makes.
LEMMA CallBegins ==
    ASSUME CallInv, NEW c, Begin(c),
           c \in [op : {"none", "tick", "batch", "cycles", "forever"},
                  left : 0..MaxBatch, i : 0..(StopEvery - 1), low : BOOLEAN],
           c.op # "none", c.op \in {"batch", "cycles"} => c.left >= 1
    PROVE  CallInv'
BY DEF CallInv, Begin

\* Every call and every pass of the loops keeps the counters in range.
LEMMA CallNext == CallInv /\ EngineInv /\ [Next]_vars => CallInv'
<1> SUFFICES ASSUME CallInv, EngineInv, [Next]_vars PROVE CallInv'
  OBVIOUS
<1> DEFINE Calls == [op : {"none", "tick", "batch", "cycles", "forever"},
                     left : 0..MaxBatch, i : 0..(StopEvery - 1), low : BOOLEAN]
<1>1. 0 \in 0..MaxBatch /\ 1 \in 0..MaxBatch /\ 0 \in 0..(StopEvery - 1) /\ 0 \in Bit
      /\ StopEvery \in Nat \ {0} /\ MaxBatch \in Nat
  BY ConstantsAssumption DEF Bit
<1>2. w \in [0..NetCount -> Bit] /\ Nets \subseteq 0..NetCount
  BY DEF EngineInv, States, State, Nets
<1>3. CASE \E net \in HostNets, v \in Bit : SetWire(net, v)
  BY <1>3 DEF SetWire, CallInv
<1>4. CASE Tick
  <2>1. PICK c : c = [Idle EXCEPT !.op = "tick", !.left = 1]
    OBVIOUS
  <2>2. c \in Calls /\ c.op = "tick"
    BY <1>1, <2>1 DEF Idle
  <2>3. Begin(c)
    BY <1>4, <2>1 DEF Tick
  <2> QED
    BY <2>2, <2>3, CallBegins
<1>5. CASE \E n \in 1..MaxBatch : TickBatch(n)
  <2>1. PICK n \in 1..MaxBatch : TickBatch(n)
    BY <1>5
  <2>2. PICK c : c = [Idle EXCEPT !.op = "batch", !.left = n]
    OBVIOUS
  <2>3. c \in Calls /\ c.op = "batch" /\ c.left >= 1
    <3>1. n \in 0..MaxBatch /\ n >= 1
      BY <1>1
    <3> QED
      BY <1>1, <2>2, <3>1 DEF Idle
  <2>4. Begin(c)
    BY <2>1, <2>2 DEF TickBatch
  <2> QED
    BY <2>3, <2>4, CallBegins
<1>6. CASE \E n \in 1..MaxBatch : TickCycles(n)
  <2>1. PICK n \in 1..MaxBatch : TickCycles(n)
    BY <1>6
  <2>2. PICK c : c = [Idle EXCEPT !.op = "cycles", !.left = n, !.low = TRUE]
    OBVIOUS
  <2>3. c \in Calls /\ c.op = "cycles" /\ c.left >= 1
    <3>1. n \in 0..MaxBatch /\ n >= 1
      BY <1>1
    <3> QED
      BY <1>1, <2>2, <3>1 DEF Idle
  <2>4. Begin(c)
    BY <2>1, <2>2 DEF TickCycles
  <2> QED
    BY <2>3, <2>4, CallBegins
<1>7. CASE TickForever
  <2>1. PICK c : c = [Idle EXCEPT !.op = "forever"]
    OBVIOUS
  <2>2. c \in Calls /\ c.op = "forever"
    BY <1>1, <2>1 DEF Idle
  <2>3. Begin(c)
    BY <1>7, <2>1 DEF TickForever
  <2> QED
    BY <2>2, <2>3, CallBegins
<1>8. CASE InterruptTickForever \/ ClearError
  BY <1>8 DEF InterruptTickForever, ClearError, CallInv
<1>9. CASE Reset
  <2>1. edgePrev' \in [Nets -> Bit]
    BY <1>1, <1>9 DEF Reset
  <2> QED
    BY <1>9, <2>1 DEF Reset, CallInv
<1>10. CASE Combinational \/ Settle
  <2>1. /\ stop' \in BOOLEAN /\ pc # "idle" /\ pc' \in {"resolved", "settling", "settled"}
        /\ edgePrev' = edgePrev /\ call' = call
    BY <1>10 DEF Combinational, Settle, Report, CallInv
  <2> QED
    BY <2>1 DEF CallInv
<1>11. CASE StopAfterResolution \/ StopAfterSettling
  BY <1>11 DEF StopAfterResolution, StopAfterSettling, CallInv
<1>12. CASE Sequential
  <2>1. edgePrev' \in [Nets -> Bit]
    BY <1>2, <1>12 DEF Sequential, CallInv
  <2>2. stop' \in BOOLEAN /\ pc # "idle" /\ pc' = "returned" /\ call' = call
    BY <1>12 DEF Sequential, Report, CallInv
  <2> QED
    BY <2>1, <2>2 DEF CallInv
<1>13. CASE NextTick
  <2>1. /\ pc = "returned" /\ edgePrev' = edgePrev /\ stop' = stop
        /\ call \in Calls /\ call.op # "none" /\ (call.op \in {"batch", "cycles"} => call.left >= 1)
    BY <1>13 DEF NextTick, CallInv
  <2>2. CASE call.op = "cycles" /\ call.low
    <3>1. call' = [call EXCEPT !.low = FALSE] /\ pc' = "start"
      BY <1>13, <2>2 DEF NextTick
    <3>2. call' \in Calls /\ call'.op = "cycles" /\ call'.left = call.left
      BY <2>1, <2>2, <3>1
    <3> QED
      BY <2>1, <2>2, <3>1, <3>2 DEF CallInv
  <2>3. CASE call' = Idle /\ pc' = "idle"
    <3>1. call' \in Calls
      BY <1>1, <2>3 DEF Idle
    <3> QED
      BY <2>1, <2>3, <3>1 DEF CallInv
  <2>4. CASE ~(call.op = "cycles" /\ call.low) /\ ~(call' = Idle /\ pc' = "idle")
    <3>1. /\ call' = [call EXCEPT !.i = (call.i + 1) % StopEvery,
                                  !.left = IF call.op = "forever" THEN 0 ELSE call.left - 1,
                                  !.low = call.op = "cycles"]
          /\ pc' = "start" /\ call.op # "tick" /\ (call.op # "forever" => call.left # 1)
      BY <1>13, <2>4 DEF NextTick
    <3>2. PICK i : i = (call.i + 1) % StopEvery
      OBVIOUS
    <3>3. i \in 0..(StopEvery - 1)
      BY <1>1, <2>1, <3>2
    <3>4. PICK left : left = IF call.op = "forever" THEN 0 ELSE call.left - 1
      OBVIOUS
    <3>5. left \in 0..MaxBatch /\ (call.op # "forever" => left >= 1)
      BY <1>1, <2>1, <3>1, <3>4
    <3>6. PICK low \in BOOLEAN : low = (call.op = "cycles")
      OBVIOUS
    <3>7. call' = [op |-> call.op, left |-> left, i |-> i, low |-> low]
      BY <2>1, <3>1, <3>2, <3>4, <3>6
    <3>8. call' \in Calls /\ call'.op = call.op /\ call'.left = left
      BY <2>1, <3>3, <3>5, <3>7
    <3> QED
      BY <2>1, <3>1, <3>5, <3>8 DEF CallInv
  <2> QED
    BY <2>2, <2>3, <2>4
<1>14. CASE UNCHANGED vars
  BY <1>14 DEF vars, CallInv
<1> QED
  BY <1>3, <1>4, <1>5, <1>6, <1>7, <1>8, <1>9, <1>10, <1>11, <1>12, <1>13, <1>14 DEF Next, Host, Engine

TickInv == ErrorInv /\ EngineInv /\ CallInv

\* The three invariants hold in every reachable state.
LEMMA TickInvariant == Spec => []TickInv
<1>1. Init => TickInv
  BY ErrorInit, EngineInit, CallInit DEF TickInv
<1>2. TickInv /\ [Next]_vars => TickInv'
  BY ErrorNext, EngineNext, CallNext DEF TickInv
<1> QED
  BY <1>1, <1>2, PTL DEF Spec

\* In any netlist the wires, latches, registers, flags and loop counters stay in
\* range, and slot _w[-1] reads zero.
THEOREM TypeCorrect == Spec => []TypeOK
<1>1. TickInv => TypeOK
  <2> SUFFICES ASSUME TickInv PROVE TypeOK
    OBVIOUS
  <2>1. /\ w \in [0..NetCount -> Bit] /\ w[0] = 0 /\ cout \in [Comps(nl) -> Bit]
        /\ oe \in [Comps(nl) -> BOOLEAN] /\ q \in [Comps(nl) -> [v : Bit, prev : Bit]]
    BY DEF TickInv, EngineInv, State, States
  <2> QED
    BY <2>1 DEF TickInv, ErrorInv, EngineInv, CallInv, TypeOK
<1> QED
  BY <1>1, TickInvariant, PTL

\* Resolved, as the lemmas state it.
LEMMA ResolvedIs == Resolved <=> \A net \in TriNets : ResolvedNet(State, net)
BY DEF Resolved, ResolvedNet, State

\* In any netlist, whenever circuit_tick returns without an error, every tri-state
\* net shows the latches of its drivers, the ones phase 3 has written included.
THEOREM BusesFollowDrivers == Spec => []BusesCurrentAtReturn
<1>1. TickInv => BusesCurrentAtReturn
  BY ResolvedIs DEF TickInv, EngineInv, BusesCurrentAtReturn
<1> QED
  BY <1>1, TickInvariant, PTL

\* In any netlist the compiler accepts, a clock divider whose input is not behind a
\* tri-state net has sampled this tick's level of it when phase 3 starts.
THEOREM ClocksSampleInPhase == Spec => []ClockSourcesInPhase
<1>1. TickInv => ClockSourcesInPhase
  BY DEF TickInv, EngineInv, ClockSourcesInPhase, InPhase, Working, State
<1> QED
  BY <1>1, TickInvariant, PTL

\* In any netlist without a combinational loop a tick reaches the zero-delay
\* solution before the registers advance, and phase 2b never reports an oscillation:
\* its limit of components + 1 rounds is enough, since each round settles one more.
THEOREM LoopFreeSettles == Spec => []SettlesExactly
<1>1. TickInv => SettlesExactly
  <2> SUFFICES ASSUME TickInv, LoopFree(nl) PROVE SettledIsFixpoint /\ NoFalseOscillation
    BY DEF SettlesExactly
  <2>1. Progress /\ Compiled
    BY DEF TickInv, EngineInv
  <2>2. NoFalseOscillation
    BY <2>1 DEF Progress, NoFalseOscillation
  <2>3. ASSUME pc = "sequential" PROVE CombAgree /\ Resolved
    <3>1. err = "OK"
      BY <2>3 DEF TickInv, ErrorInv
    <3>2. Resolved
      BY <2>3, <3>1, ResolvedIs DEF TickInv, EngineInv, Working
    <3>3. \A c \in OfKind(nl, CombKinds) : Computed(State, State, c)
      BY <2>1, <2>3 DEF Progress, Stable
    <3>4. ASSUME NEW c \in Comps(nl), nl[c].kind \in CombKinds \ TriKinds
          PROVE  nl[c].out = 0 \/ w[nl[c].out] = Value(State, c)
      <4>1. nl[c].kind # "tsbuf" /\ c \in OfKind(nl, CombKinds)
        BY <3>4, Kinds DEF OfKind
      <4> QED
        BY <3>3, <4>1 DEF Computed, State
    <3>5. ASSUME NEW c \in Comps(nl), nl[c].kind = "tsbuf"
          PROVE  cout[c] = In(State, c, 1) /\ oe[c] = (In(State, c, 2) = 1)
      <4>1. c \in OfKind(nl, CombKinds)
        BY <3>5, Kinds DEF OfKind
      <4>2. Computed(State, State, c)
        BY <3>3, <4>1
      <4>3. State.cout = cout /\ State.oe = oe
        BY DEF State
      <4> QED
        BY <3>5, <4>2, <4>3 DEF Computed
    <3> QED
      BY <3>2, <3>4, <3>5 DEF CombAgree
  <2> QED
    BY <2>2, <2>3 DEF SettledIsFixpoint
<1> QED
  BY <1>1, TickInvariant, PTL
=============================================================================
