---------------------------- MODULE Netlist_proofs ----------------------------
(* Proofs about Netlist, for every set of components, nets and pins and      *)
(* whatever the composites expand to.                                        *)
EXTENDS Netlist, FiniteSetTheorems, SequenceTheorems, TLAPS

-----------------------------------------------------------------------------
(* The strengthening.  It is stated for any records of a netlist, since an   *)
(* expansion keeps a copy of them which must be as good as the original.     *)

Elements(s) == {s[i] : i \in DOMAIN s}

\* Net ids are places; a net that is gone has id 0.
NetsNumbered(ns, nid) ==
    /\ ns \in Seq(Nets) /\ Injective(ns)
    /\ nid \in [Nets -> Ids]
    /\ \A i \in DOMAIN ns : nid[ns[i]] = i - 1
    /\ \A n \in Nets \ Elements(ns) : nid[n] = 0

\* Component ids differ, although they are neither dense nor in order.
LastId == MaxId + Cardinality(Comps)
CompsNumbered(cs, cid) ==
    /\ cs \in Seq(Comps) /\ Injective(cs)
    /\ cid \in [Comps -> 0..LastId]
    /\ \A c, d \in Elements(cs) : cid[c] = cid[d] => c = d
    /\ \A c \in Comps \ Elements(cs) : cid[c] = 0

\* Only pins of live components are wired, and only to live nets.
WiredLive(ns, cs, f) ==
    /\ f \in [Pins -> Nets \cup {None}]
    /\ \A p \in Pins : f[p] # None => p[1] \in Elements(cs) /\ f[p] \in Elements(ns)

Share(f, p, d) == Out(p) /\ Out(d) /\ p # d /\ f[p] # None /\ f[p] = f[d]
ShortFree(f) == \A p, d \in Pins : Share(f, p, d) => Tri(p) /\ Tri(d)

\* The register holds drivers only, tri-state all of them, under the id of their
\* net, and every driver that has company.
Registered(ns, f, b) ==
    /\ b \in [Ids -> SUBSET Pins]
    /\ \A i \in Ids : \A p \in b[i] :
         i + 1 \in DOMAIN ns /\ Out(p) /\ Tri(p) /\ f[p] = ns[i + 1]
    /\ \A i \in DOMAIN ns : \A p, d \in Pins :
         Share(f, p, d) /\ f[p] = ns[i] => p \in b[i - 1]

Sound(ns, cs, nid, cid, f) ==
    NetsNumbered(ns, nid) /\ CompsNumbered(cs, cid) /\ WiredLive(ns, cs, f) /\ ShortFree(f)
Records == Sound(nets, comps, netId, compId, on) /\ Registered(nets, on, bus)

\* While a composite is expanded, what was there before stays as it was, but for
\* the composite's own pins, and the parts to come are new.
Extends(t, s) == Len(s) <= Len(t) /\ \A i \in DOMAIN s : t[i] = s[i]
Part == [comp : Comps, ties : Seq(Nat \X (Nets \cup Nat))]
Expansions ==
    [comp : Comps \cup {None}, nets : Seq(Nets), bound : BOOLEAN, parts : Seq(Part)]
Snapshot ==
    /\ exp.comp \in Composites /\ exp.comp \in OldComps
    /\ Sound(before.nets, before.comps, before.netId, before.compId, before.on)
    /\ Extends(nets, before.nets) /\ Extends(comps, before.comps)
    /\ \A c \in OldComps : compId[c] = before.compId[c]
    /\ \A p \in OldPins : p[1] # exp.comp => on[p] = before.on[p]
    /\ ~exp.bound => \A p \in PinsOn(exp.comp) : on[p] = None
    /\ \A i \in DOMAIN exp.parts : exp.parts[i].comp \notin OldComps
Expanding ==
    /\ exp \in Expansions
    /\ ~Settled => Snapshot

IInv == Records /\ Expanding

-----------------------------------------------------------------------------
(* Sequences without repetition, ids and pins. *)

LEMMA LiveIs ==
    /\ LiveNets = Elements(nets) /\ LiveComps = Elements(comps)
    /\ OldNets = Elements(before.nets) /\ OldComps = Elements(before.comps)
BY DEF LiveNets, LiveComps, OldNets, OldComps, Elements

LEMMA SeqDomain == ASSUME NEW S, NEW s \in Seq(S)
                   PROVE  /\ Len(s) \in Nat /\ DOMAIN s = 1..Len(s)
                          /\ \A i \in DOMAIN s : s[i] \in S
                          /\ Elements(s) \subseteq S
BY DEF Elements

LEMMA AppendNew ==
  ASSUME NEW S, NEW s \in Seq(S), Injective(s), NEW x \in S, x \notin Elements(s)
  PROVE  /\ Append(s, x) \in Seq(S) /\ Injective(Append(s, x))
         /\ DOMAIN Append(s, x) = 1..(Len(s) + 1)
         /\ \A i \in DOMAIN s : Append(s, x)[i] = s[i]
         /\ Append(s, x)[Len(s) + 1] = x
         /\ Elements(Append(s, x)) = Elements(s) \cup {x}
<1> DEFINE t == Append(s, x)
<1>1. /\ t \in Seq(S) /\ Len(t) = Len(s) + 1
      /\ \A i \in 1..Len(s) : t[i] = s[i]
      /\ t[Len(s) + 1] = x
    BY AppendProperties
<1>2. DOMAIN s = 1..Len(s) /\ Len(s) \in Nat /\ DOMAIN t = 1..(Len(s) + 1)
    BY <1>1, SeqDomain
<1>3. \A i \in DOMAIN t : i \in DOMAIN s \/ i = Len(s) + 1
    BY <1>2
<1>4. \A i \in DOMAIN s : s[i] \in Elements(s) /\ i # Len(s) + 1
    BY <1>2 DEF Elements
<1> HIDE DEF t
<1>5. Injective(t)
    BY <1>1, <1>2, <1>3, <1>4 DEF Injective
<1>6. Elements(t) = Elements(s) \cup {x}
    <2>1. Len(s) + 1 \in DOMAIN t /\ DOMAIN s \subseteq DOMAIN t
        BY <1>2
    <2> QED
        BY <1>1, <1>2, <1>3, <2>1 DEF Elements
<1> QED
    BY <1>1, <1>2, <1>5, <1>6 DEF t

LEMMA WithoutOne ==
  ASSUME NEW S, NEW s \in Seq(S), Injective(s), NEW k \in DOMAIN s
  PROVE  /\ Without(s, k) \in Seq(S) /\ Injective(Without(s, k))
         /\ Elements(Without(s, k)) = Elements(s) \ {s[k]}
<1> DEFINE n == Len(s)
           t == Without(s, k)
<1>1. n \in Nat /\ DOMAIN s = 1..n /\ k \in 1..n /\ \A i \in 1..n : s[i] \in S
    BY SeqDomain
<1>2. DOMAIN t = 1..(n - 1) /\ \A i \in 1..(n - 1) : t[i] = IF i < k THEN s[i] ELSE s[i + 1]
    BY DEF Without
<1> HIDE DEF n, t
<1>3. \A i \in 1..(n - 1) : t[i] \in S
    BY <1>1, <1>2
<1>4. t \in Seq(S)
    <2>1. n - 1 \in Nat
        BY <1>1
    <2>2. t = [i \in 1..(n - 1) |-> t[i]]
        BY <1>2 DEF t, Without, n
    <2> QED
        BY <1>3, <2>1, <2>2
<1>5. \A i \in 1..(n - 1) : \E j \in 1..n : j # k /\ t[i] = s[j] /\ j = (IF i < k THEN i ELSE i + 1)
    BY <1>1, <1>2
<1>6. Injective(t)
    <2> SUFFICES ASSUME NEW i \in 1..(n - 1), NEW j \in 1..(n - 1), t[i] = t[j]
                 PROVE  i = j
        BY <1>2 DEF Injective
    <2>1. PICK a \in 1..n : t[i] = s[a] /\ a = (IF i < k THEN i ELSE i + 1)
        BY <1>5
    <2>2. PICK b \in 1..n : t[j] = s[b] /\ b = (IF j < k THEN j ELSE j + 1)
        BY <1>5
    <2>3. a = b
        BY <2>1, <2>2, <1>1 DEF Injective
    <2> QED
        BY <2>1, <2>2, <2>3, <1>1
<1>7. Elements(t) \subseteq Elements(s) \ {s[k]}
    BY <1>1, <1>2, <1>5 DEF Elements, Injective
<1>8. ASSUME NEW j \in 1..n, j # k PROVE \E i \in 1..(n - 1) : t[i] = s[j]
    <2>1. CASE j < k
        BY <2>1, <1>1, <1>2
    <2>2. CASE j > k
        <3>1. j - 1 \in 1..(n - 1) /\ ~(j - 1 < k) /\ (j - 1) + 1 = j
            BY <2>2, <1>1
        <3> QED
            BY <3>1, <1>2
    <2> QED
        BY <2>1, <2>2, <1>1, <1>8
<1>9. Elements(s) \ {s[k]} \subseteq Elements(t)
    <2> SUFFICES ASSUME NEW j \in 1..n, s[j] # s[k] PROVE s[j] \in Elements(t)
        BY <1>1 DEF Elements
    <2>1. PICK i \in 1..(n - 1) : t[i] = s[j]
        BY <1>8
    <2> QED
        BY <2>1, <1>2 DEF Elements
<1> QED
    BY <1>4, <1>6, <1>7, <1>9 DEF t

\* There are no more nets in a netlist than there are nets: ids suffice.
LEMMA IdsSuffice ==
  /\ Cardinality(Nets) \in Nat /\ Cardinality(Comps) \in Nat
  /\ \A s \in Seq(Nets) : Injective(s) => Len(s) <= Cardinality(Nets)
  /\ \A s \in Seq(Comps) : Injective(s) => Len(s) <= Cardinality(Comps)
  /\ \A n \in Nets : 0 \in Ids
<1>1. Cardinality(Nets) \in Nat /\ Cardinality(Comps) \in Nat
    BY FS_CardinalityType, FiniteAssumption
<1>2. ASSUME NEW S, IsFiniteSet(S), NEW s \in Seq(S), Injective(s)
      PROVE  Len(s) <= Cardinality(S)
    <2>1. Len(s) \in Nat /\ DOMAIN s = 1..Len(s)
        BY SeqDomain
    <2>2. s \in Injection(1..Len(s), S)
        BY <1>2, <2>1 DEF Injective, Injection, IsInjective
    <2>3. Cardinality(1..Len(s)) = Len(s)
        BY <2>1, FS_Interval
    <2> QED
        BY <1>2, <2>2, <2>3, FS_Injection
<1>3. ASSUME NEW n \in Nets PROVE 0 \in Ids
    <2>1. <<n>> \in Seq(Nets) /\ Len(<<n>>) = 1 /\ Injective(<<n>>)
        BY DEF Injective
    <2>2. Len(<<n>>) <= Cardinality(Nets)
        BY <1>2, <2>1, FiniteAssumption
    <2> QED
        BY <1>1, <2>1, <2>2 DEF Ids
<1> QED
    BY <1>1, <1>2, <1>3, FiniteAssumption

LEMMA PinFacts == \A p \in Pins : p[1] \in Comps
BY DEF Pins

LEMMA NatMin ==
  ASSUME NEW T \in SUBSET Nat, T # {}
  PROVE  \E x \in T : \A y \in T : x <= y
<1>1. PICK x \in T : \A y \in T : ~(<<y, x>> \in OpToRel(<, Nat))
    BY WFMin, NatLessThanWellFounded
<1>2. \A y \in T : ~(y < x)
    BY <1>1 DEF OpToRel
<1> QED
    BY <1>2

\* Max is defined for sets of naturals with a bound.
LEMMA MaxIs ==
  ASSUME NEW S \in SUBSET Nat, S # {}, NEW b \in Nat, \A x \in S : x <= b
  PROVE  Max(S) \in S /\ \A x \in S : x <= Max(S)
<1> DEFINE T == {y \in Nat : \A x \in S : x <= y}
<1>1. PICK m \in T : \A y \in T : m <= y
    BY NatMin
<1>2. m \in S
    <2> SUFFICES ASSUME m \notin S PROVE FALSE
        OBVIOUS
    <2>1. \A x \in S : x < m
        BY <1>1
    <2>2. PICK x \in S : TRUE
        OBVIOUS
    <2>3. x \in Nat /\ m \in Nat /\ x < m
        BY <1>1, <2>1
    <2>4. m - 1 \in Nat /\ m - 1 < m
        BY <2>3
    <2>5. \A y \in S : y <= m - 1
        BY <2>1, <2>3
    <2>6. m <= m - 1
        BY <1>1, <2>4, <2>5
    <2> QED
        BY <2>3, <2>4, <2>6
<1>3. \E x \in S : \A y \in S : x >= y
    BY <1>1, <1>2
<1>4. Max(S) \in S /\ \A y \in S : Max(S) >= y
    BY <1>3, Zenon DEF Max
<1> QED
    BY <1>4

-----------------------------------------------------------------------------
(* The operations. *)

LEMMA CreateKeeps ==
  ASSUME Records, NEW n \in Nets, CreateNet(n)
  PROVE  Records' /\ Extends(nets', nets)
<1> USE DEF Records, Sound
<1>1. /\ n \notin Elements(nets) /\ nets' = Append(nets, n)
      /\ netId' = [netId EXCEPT ![n] = Len(nets)]
      /\ UNCHANGED <<comps, compId, on, bus>>
    BY LiveIs DEF CreateNet
<1>2. nets \in Seq(Nets) /\ Injective(nets) /\ DOMAIN nets = 1..Len(nets) /\ Len(nets) \in Nat
    BY SeqDomain DEF NetsNumbered
<1>3. /\ nets' \in Seq(Nets) /\ Injective(nets') /\ DOMAIN nets' = 1..(Len(nets) + 1)
      /\ \A i \in DOMAIN nets : nets'[i] = nets[i]
      /\ nets'[Len(nets) + 1] = n
      /\ Elements(nets') = Elements(nets) \cup {n}
    BY <1>1, <1>2, AppendNew
<1>4. Len(nets') = Len(nets) + 1
    BY <1>2, <1>3, SeqDomain
<1>5. Len(nets) \in Ids
    BY <1>2, <1>3, <1>4, IdsSuffice DEF Ids
<1>6. NetsNumbered(nets', netId')
    <2>1. \A i \in DOMAIN nets : nets[i] # n /\ nets[i] \in Nets
        BY <1>1, <1>2, SeqDomain DEF Elements
    <2>2. netId' \in [Nets -> Ids]
        BY <1>1, <1>5 DEF NetsNumbered
    <2>3. \A i \in DOMAIN nets' : netId'[nets'[i]] = i - 1
        <3> SUFFICES ASSUME NEW i \in DOMAIN nets' PROVE netId'[nets'[i]] = i - 1
            OBVIOUS
        <3>1. CASE i \in DOMAIN nets
            BY <3>1, <2>1, <1>1, <1>3 DEF NetsNumbered
        <3>2. CASE i = Len(nets) + 1
            BY <3>2, <1>1, <1>2, <1>3 DEF NetsNumbered
        <3> QED
            BY <3>1, <3>2, <1>2, <1>3
    <2>4. \A m \in Nets \ Elements(nets') : netId'[m] = 0
        BY <1>1, <1>3 DEF NetsNumbered
    <2> QED
        BY <1>3, <2>2, <2>3, <2>4 DEF NetsNumbered
<1>7. WiredLive(nets', comps', on')
    BY <1>1, <1>3 DEF WiredLive
<1>8. Registered(nets', on', bus')
    <2>1. \A i \in Ids : \A p \in bus[i] :
            i + 1 \in DOMAIN nets' /\ Out(p) /\ Tri(p) /\ on[p] = nets'[i + 1]
        BY <1>2, <1>3 DEF Registered
    <2>2. \A i \in DOMAIN nets' : \A p \in Pins : on[p] = nets'[i] => i \in DOMAIN nets
        <3> SUFFICES ASSUME NEW i \in DOMAIN nets', i \notin DOMAIN nets,
                            NEW p \in Pins, on[p] = nets'[i]
                     PROVE  FALSE
            OBVIOUS
        <3>1. nets'[i] = n
            BY <1>2, <1>3
        <3>2. n # None
            BY HandlesAssumption
        <3> QED
            BY <3>1, <3>2, <1>1 DEF WiredLive
    <2>3. \A i \in DOMAIN nets' : \A p, d \in Pins :
            Share(on, p, d) /\ on[p] = nets'[i] => p \in bus[i - 1]
        BY <2>2, <1>3 DEF Registered
    <2> QED
        BY <2>1, <2>3, <1>1 DEF Registered
<1>9. Extends(nets', nets)
    BY <1>2, <1>3, <1>4 DEF Extends
<1> QED
    BY <1>1, <1>6, <1>7, <1>8, <1>9 DEF CompsNumbered, ShortFree

\* The next id is not in use.
LEMMA NextIdIsNew ==
  ASSUME CompsNumbered(comps, compId)
  PROVE  NextId \in Nat /\ \A d \in Elements(comps) : compId[d] # NextId
<1>1. comps \in Seq(Comps) /\ DOMAIN comps = 1..Len(comps) /\ Elements(comps) \subseteq Comps
    BY SeqDomain DEF CompsNumbered
<1>2. LastId \in Nat
    BY IdsSuffice, BoundAssumption DEF LastId
<1>3. CASE comps = <<>>
    <2>1. Elements(comps) = {}
        BY <1>3 DEF Elements
    <2> QED
        BY <2>1, <1>3 DEF NextId
<1>4. CASE comps # <<>>
    <2> DEFINE S == {compId[d] : d \in LiveComps}
    <2>1. Len(comps) \in Nat /\ Len(comps) # 0
        BY <1>1, <1>4, EmptySeq
    <2>2. 1 \in DOMAIN comps
        BY <1>1, <2>1
    <2>3. comps[1] \in Elements(comps)
        BY <2>2 DEF Elements
    <2>4. \A d \in Elements(comps) : compId[d] \in Nat /\ compId[d] <= LastId
        BY <1>1, <1>2 DEF CompsNumbered
    <2>5. S \in SUBSET Nat /\ S # {} /\ \A x \in S : x <= LastId
        BY <2>3, <2>4, LiveIs
    <2> HIDE DEF S
    <2>6. Max(S) \in S /\ \A x \in S : x <= Max(S)
        BY <1>2, <2>5, MaxIs
    <2>7. NextId = 1 + Max(S)
        BY <1>4 DEF NextId, S
    <2>8. \A d \in Elements(comps) : compId[d] \in S
        BY LiveIs DEF S
    <2>9. Max(S) \in Nat /\ \A d \in Elements(comps) : compId[d] \in Nat /\ compId[d] <= Max(S)
        BY <2>4, <2>5, <2>6, <2>8
    <2> QED
        BY <2>7, <2>9
<1> QED
    BY <1>3, <1>4

LEMMA AddKeeps ==
  ASSUME Records, NEW c \in Comps, AddComponent(c)
  PROVE  /\ Records' /\ Extends(comps', comps) /\ Elements(comps') = Elements(comps) \cup {c}
         /\ \A d \in Elements(comps) : compId'[d] = compId[d]
<1> USE DEF Records, Sound
<1>1. /\ c \notin Elements(comps) /\ comps' = Append(comps, c) /\ NextId <= MaxId
      /\ compId' = [compId EXCEPT ![c] = NextId]
      /\ UNCHANGED <<nets, netId, on, bus>>
    BY LiveIs DEF AddComponent, wiring
<1>2. /\ comps \in Seq(Comps) /\ Injective(comps) /\ DOMAIN comps = 1..Len(comps)
      /\ Len(comps) \in Nat /\ Elements(comps) \subseteq Comps
    BY SeqDomain DEF CompsNumbered
<1>3. /\ comps' \in Seq(Comps) /\ Injective(comps') /\ DOMAIN comps' = 1..(Len(comps) + 1)
      /\ \A i \in DOMAIN comps : comps'[i] = comps[i]
      /\ Elements(comps') = Elements(comps) \cup {c}
    BY <1>1, <1>2, AppendNew
<1>4. NextId \in 0..LastId
    <2>1. NextId \in Nat /\ MaxId \in Nat /\ Cardinality(Comps) \in Nat
        BY NextIdIsNew, IdsSuffice, BoundAssumption
    <2> QED
        BY <2>1, <1>1 DEF LastId
<1>5. \A d \in Elements(comps) : d # c /\ compId'[d] = compId[d] /\ compId[d] # NextId
    BY <1>1, <1>2, NextIdIsNew DEF CompsNumbered
<1>6. compId' \in [Comps -> 0..LastId] /\ compId'[c] = NextId
    BY <1>1, <1>4 DEF CompsNumbered
<1>7. CompsNumbered(comps', compId')
    <2>1. \A d, e \in Elements(comps') : compId'[d] = compId'[e] => d = e
        BY <1>3, <1>5, <1>6 DEF CompsNumbered
    <2>2. \A d \in Comps \ Elements(comps') : compId'[d] = 0
        BY <1>1, <1>3 DEF CompsNumbered
    <2> QED
        BY <1>3, <1>6, <2>1, <2>2 DEF CompsNumbered
<1>8. WiredLive(nets', comps', on')
    BY <1>1, <1>3 DEF WiredLive
<1>9. Extends(comps', comps)
    <2>1. Len(comps') = Len(comps) + 1
        BY <1>2, <1>3, SeqDomain
    <2> QED
        BY <1>2, <1>3, <2>1 DEF Extends
<1> QED
    BY <1>1, <1>3, <1>5, <1>7, <1>8, <1>9 DEF NetsNumbered, ShortFree, Registered

LEMMA ConnectKeeps ==
  ASSUME Records, NEW p, NEW n, Connect(p, n)
  PROVE  Records' /\ p \in LivePins /\ on' = [on EXCEPT ![p] = n]
<1> USE DEF Records, Sound
<1> DEFINE shared == IF Out(p) THEN Drivers(n) \ {p} ELSE {}
           b == IF on[p] \notin {None, n} THEN Detached(bus, {p}) ELSE bus
<1>1. /\ p \in LivePins /\ n \in LiveNets /\ MayDrive(p, n)
      /\ on' = [on EXCEPT ![p] = n] /\ UNCHANGED <<nets, comps, netId, compId>>
    BY DEF Connect
<1>2. bus' = IF shared = {} THEN b ELSE [b EXCEPT ![netId[n]] = @ \cup shared \cup {p}]
    BY DEF Connect
<1>3. p \in Pins /\ p[1] \in Elements(comps)
    BY <1>1, LiveIs DEF LivePins
<1>4. PICK k \in DOMAIN nets : nets[k] = n
    BY <1>1 DEF LiveNets
<1>5. /\ n \in Nets /\ n \in Elements(nets) /\ n # None /\ k \in Nat /\ netId[n] = k - 1
      /\ netId[n] \in Ids /\ DOMAIN nets = 1..Len(nets)
    BY <1>1, <1>4, SeqDomain, HandlesAssumption, LiveIs DEF NetsNumbered
<1>6. /\ on \in [Pins -> Nets \cup {None}] /\ on'[p] = n
      /\ \A q \in Pins : q # p => on'[q] = on[q]
    BY <1>1, <1>3 DEF WiredLive
<1>7. WiredLive(nets', comps', on')
    BY <1>1, <1>3, <1>5, <1>6 DEF WiredLive
<1>8. \A q \in shared : /\ q \in Pins /\ q # p /\ on[q] = n /\ Out(q) /\ Tri(q)
                        /\ Out(p) /\ Tri(p)
    BY <1>1, LiveIs DEF MayDrive, Drivers, LivePins
<1>9. \A q \in Pins : Out(p) /\ Out(q) /\ q # p /\ on[q] = n => q \in shared
    BY <1>5, LiveIs DEF Drivers, LivePins, WiredLive
<1> HIDE DEF shared
<1>10. ShortFree(on')
    <2> SUFFICES ASSUME NEW q \in Pins, NEW d \in Pins, Share(on', q, d)
                 PROVE  Tri(q) /\ Tri(d)
        BY DEF ShortFree
    <2>1. CASE q # p /\ d # p
        BY <2>1, <1>6 DEF Share, ShortFree
    <2>2. CASE q = p
        <3>1. d \in shared
            BY <2>2, <1>6, <1>9 DEF Share
        <3> QED
            BY <3>1, <2>2, <1>8
    <2>3. CASE d = p
        <3>1. q \in shared
            BY <2>3, <1>6, <1>9 DEF Share
        <3> QED
            BY <3>1, <2>3, <1>8
    <2> QED
        BY <2>1, <2>2, <2>3
<1>11. b \in [Ids -> SUBSET Pins] /\ \A i \in Ids : b[i] \subseteq bus[i]
    BY DEF Detached, Registered
<1>12. \A i \in Ids : \A q \in bus[i] : q # p => q \in b[i]
    BY DEF Detached, Registered
<1>13. \A i \in Ids : p \in b[i] => i + 1 \in DOMAIN nets /\ Out(p) /\ Tri(p) /\ nets[i + 1] = n
    <2> SUFFICES ASSUME NEW i \in Ids, p \in b[i]
                 PROVE  i + 1 \in DOMAIN nets /\ Out(p) /\ Tri(p) /\ nets[i + 1] = n
        OBVIOUS
    <2>1. i + 1 \in DOMAIN nets /\ Out(p) /\ Tri(p) /\ on[p] = nets[i + 1]
        BY <1>11 DEF Registered
    <2>2. nets[i + 1] \in Nets /\ netId[nets[i + 1]] = i
        BY <2>1, SeqDomain DEF NetsNumbered, Ids
    <2>3. on[p] # None
        BY <2>1, <2>2, HandlesAssumption
    <2>4. CASE on[p] \notin {None, n}
        BY <2>1, <2>2, <2>3, <2>4 DEF Detached
    <2> QED
        BY <2>1, <2>3, <2>4
<1>14. /\ bus' \in [Ids -> SUBSET Pins]
       /\ \A i \in Ids : b[i] \subseteq bus'[i]
       /\ \A i \in Ids : \A q \in bus'[i] :
            q \in b[i] \/ (i = netId[n] /\ shared # {} /\ (q \in shared \/ q = p))
       /\ shared # {} => p \in bus'[netId[n]] /\ shared \subseteq bus'[netId[n]]
    <2> HIDE DEF b
    <2>1. CASE shared = {}
        <3>1. bus' = b
            BY <2>1, <1>2
        <3> QED
            BY <2>1, <3>1, <1>11
    <2>2. CASE shared # {}
        <3>1. shared \subseteq Pins /\ p \in Pins
            BY <1>3, <1>8
        <3>2. bus' = [b EXCEPT ![netId[n]] = @ \cup shared \cup {p}]
            BY <2>2, <1>2
        <3>3. /\ bus'[netId[n]] = b[netId[n]] \cup shared \cup {p}
              /\ \A i \in Ids : i # netId[n] => bus'[i] = b[i]
              /\ bus' \in [Ids -> SUBSET Pins]
            BY <3>1, <3>2, <1>5, <1>11
        <3> QED
            BY <2>2, <3>3, <1>5
    <2> QED
        BY <2>1, <2>2
<1> HIDE DEF b
<1>15. \A i \in Ids : \A q \in bus'[i] :
         i + 1 \in DOMAIN nets /\ Out(q) /\ Tri(q) /\ on'[q] = nets[i + 1]
    <2> SUFFICES ASSUME NEW i \in Ids, NEW q \in bus'[i]
                 PROVE  i + 1 \in DOMAIN nets /\ Out(q) /\ Tri(q) /\ on'[q] = nets[i + 1]
        OBVIOUS
    <2>1. CASE q \in b[i] /\ q # p
        BY <2>1, <1>6, <1>11 DEF Registered
    <2>2. CASE q \in b[i] /\ q = p
        BY <2>2, <1>6, <1>13
    <2>3. CASE i = netId[n] /\ shared # {} /\ (q \in shared \/ q = p)
        <3>1. i + 1 = k
            BY <2>3, <1>5
        <3> QED
            BY <2>3, <3>1, <1>4, <1>6, <1>8
    <2> QED
        BY <2>1, <2>2, <2>3, <1>14
<1>16. \A i \in DOMAIN nets : \A q, d \in Pins :
         Share(on', q, d) /\ on'[q] = nets[i] => q \in bus'[i - 1]
    <2> SUFFICES ASSUME NEW i \in DOMAIN nets, NEW q \in Pins, NEW d \in Pins,
                        Share(on', q, d), on'[q] = nets[i]
                 PROVE  q \in bus'[i - 1]
        OBVIOUS
    <2>1. i - 1 \in Ids
        BY <1>5, SeqDomain, IdsSuffice DEF NetsNumbered, Ids
    <2>2. CASE q # p /\ d # p
        <3>1. Share(on, q, d) /\ on[q] = nets[i]
            BY <2>2, <1>6 DEF Share
        <3>2. q \in bus[i - 1]
            BY <3>1 DEF Registered
        <3> QED
            BY <2>1, <2>2, <3>2, <1>12, <1>14
    <2>3. CASE q = p \/ d = p
        <3>1. nets[i] = n
            BY <2>3, <1>6 DEF Share
        <3>2. i - 1 = netId[n]
            BY <3>1 DEF NetsNumbered
        <3>3. shared # {} /\ (q \in shared \/ q = p)
            BY <2>3, <3>1, <1>6, <1>9 DEF Share
        <3> QED
            BY <3>2, <3>3, <1>14
    <2> QED
        BY <2>2, <2>3
<1> QED
    BY <1>1, <1>7, <1>10, <1>14, <1>15, <1>16 DEF Registered, NetsNumbered, CompsNumbered

\* What is detached leaves the register, and nothing else does.
LEMMA DetachKeeps ==
  ASSUME Records, NEW P \in SUBSET Pins
  PROVE  /\ Unwired(P) \in [Pins -> Nets \cup {None}]
         /\ ShortFree(Unwired(P)) /\ Registered(nets, Unwired(P), Detached(bus, P))
<1> USE DEF Records, Sound
<1> DEFINE f == Unwired(P)
           b == Detached(bus, P)
<1>1. /\ f \in [Pins -> Nets \cup {None}]
      /\ \A p \in P : f[p] = None
      /\ \A p \in Pins \ P : f[p] = on[p]
    BY DEF Unwired, WiredLive
<1>2. /\ b \in [Ids -> SUBSET Pins] /\ \A i \in Ids : b[i] \subseteq bus[i]
      /\ \A i \in Ids : \A p \in bus[i] : p \notin P => p \in b[i]
      /\ \A i \in Ids : \A p \in b[i] :
           ~(p \in P /\ Out(p) /\ on[p] # None /\ netId[on[p]] = i)
    BY DEF Detached, Registered
<1> HIDE DEF f, b
<1>3. \A p, d \in Pins : Share(f, p, d) => Share(on, p, d) /\ f[p] = on[p] /\ p \notin P
    BY <1>1 DEF Share
<1>4. ShortFree(f)
    BY <1>3 DEF ShortFree
<1>5. \A i \in Ids : \A p \in b[i] :
        i + 1 \in DOMAIN nets /\ Out(p) /\ Tri(p) /\ f[p] = nets[i + 1]
    <2> SUFFICES ASSUME NEW i \in Ids, NEW p \in b[i]
                 PROVE  i + 1 \in DOMAIN nets /\ Out(p) /\ Tri(p) /\ f[p] = nets[i + 1]
        OBVIOUS
    <2>1. p \in Pins /\ i + 1 \in DOMAIN nets /\ Out(p) /\ Tri(p) /\ on[p] = nets[i + 1]
        BY <1>2 DEF Registered
    <2>2. nets[i + 1] \in Nets /\ netId[nets[i + 1]] = i
        BY <2>1, SeqDomain DEF NetsNumbered, Ids
    <2>3. on[p] # None
        BY <2>1, <2>2, HandlesAssumption
    <2> QED
        BY <1>1, <1>2, <2>1, <2>2, <2>3
<1>6. \A i \in DOMAIN nets : \A p, d \in Pins :
        Share(f, p, d) /\ f[p] = nets[i] => p \in b[i - 1]
    <2> SUFFICES ASSUME NEW i \in DOMAIN nets, NEW p \in Pins, NEW d \in Pins,
                        Share(f, p, d), f[p] = nets[i]
                 PROVE  p \in b[i - 1]
        OBVIOUS
    <2>1. p \in bus[i - 1] /\ p \notin P
        BY <1>3 DEF Registered
    <2>2. i - 1 \in Ids
        BY SeqDomain, IdsSuffice DEF NetsNumbered, Ids
    <2> QED
        BY <1>2, <2>1, <2>2
<1> QED
    BY <1>1, <1>2, <1>4, <1>5, <1>6 DEF Registered, f, b

LEMMA DisconnectKeeps ==
  ASSUME Records, NEW P \in SUBSET Pins, Disconnect(P)
  PROVE  Records'
<1> USE DEF Records, Sound
<1>1. on' = Unwired(P) /\ bus' = Detached(bus, P) /\ UNCHANGED <<nets, comps, netId, compId>>
    BY DEF Disconnect
<1>2. WiredLive(nets', comps', on')
    BY <1>1, DetachKeeps DEF WiredLive, Unwired
<1> QED
    BY <1>1, <1>2, DetachKeeps DEF NetsNumbered, CompsNumbered

\* A component without wires, or with its pins detached, may go.
LEMMA CompsWithout ==
  ASSUME CompsNumbered(comps, compId), NEW k \in DOMAIN comps,
         comps' = Without(comps, k), compId' = [compId EXCEPT ![comps[k]] = 0]
  PROVE  CompsNumbered(comps', compId') /\ Elements(comps') = Elements(comps) \ {comps[k]}
<1>1. comps \in Seq(Comps) /\ Injective(comps) /\ comps[k] \in Comps
    BY SeqDomain DEF CompsNumbered
<1>2. /\ comps' \in Seq(Comps) /\ Injective(comps')
      /\ Elements(comps') = Elements(comps) \ {comps[k]}
    BY <1>1, WithoutOne
<1>3. Elements(comps) \subseteq Comps /\ 0 \in 0..LastId
    BY <1>1, SeqDomain, IdsSuffice, BoundAssumption DEF LastId
<1>4. compId' \in [Comps -> 0..LastId]
    BY <1>1, <1>3 DEF CompsNumbered
<1> QED
    BY <1>1, <1>2, <1>3, <1>4 DEF CompsNumbered

LEMMA RemoveComponentKeeps ==
  ASSUME Records, NEW c, RemoveComponent(c)
  PROVE  Records'
<1> USE DEF Records, Sound
<1>1. PICK k \in DOMAIN comps :
        /\ comps[k] = c /\ comps' = Without(comps, k) /\ compId' = [compId EXCEPT ![c] = 0]
        /\ on' = Unwired(PinsOn(c)) /\ bus' = Detached(bus, PinsOn(c))
        /\ UNCHANGED <<nets, netId>>
    BY DEF RemoveComponent
<1>2. CompsNumbered(comps', compId') /\ Elements(comps') = Elements(comps) \ {c}
    BY <1>1, CompsWithout
<1>3. PinsOn(c) \subseteq Pins
    BY DEF PinsOn
<1>4. WiredLive(nets', comps', on')
    BY <1>1, <1>2, <1>3, DetachKeeps DEF WiredLive, Unwired, PinsOn
<1> QED
    BY <1>1, <1>2, <1>3, <1>4, DetachKeeps DEF NetsNumbered

LEMMA RemoveNetKeeps ==
  ASSUME Records, NEW n, RemoveNet(n)
  PROVE  Records'
<1> USE DEF Records, Sound
<1>1. PICK k \in DOMAIN nets :
        /\ nets[k] = n /\ nets' = Without(nets, k)
        /\ netId' = Renumbered(Without(nets, k)) /\ bus' = MovedUp(Without(nets, k))
        /\ on' = [p \in Pins |-> IF on[p] = n THEN None ELSE on[p]]
        /\ UNCHANGED <<comps, compId>>
    BY DEF RemoveNet
<1>2. nets \in Seq(Nets) /\ Injective(nets) /\ n \in Nets /\ n # None
    BY <1>1, SeqDomain, HandlesAssumption DEF NetsNumbered
<1>3. /\ nets' \in Seq(Nets) /\ Injective(nets') /\ Elements(nets') = Elements(nets) \ {n}
    BY <1>1, <1>2, WithoutOne
<1>4. /\ DOMAIN nets' = 1..Len(nets') /\ Len(nets') \in Nat
      /\ \A i \in DOMAIN nets' : nets'[i] \in Nets
      /\ \A i \in DOMAIN nets' : i - 1 \in Ids
    <2>1. /\ DOMAIN nets' = 1..Len(nets') /\ Len(nets') \in Nat
          /\ \A i \in DOMAIN nets' : nets'[i] \in Nets
        BY <1>3, SeqDomain
    <2>2. Len(nets') <= Cardinality(Nets) /\ Cardinality(Nets) \in Nat
        BY <1>3, IdsSuffice
    <2> QED
        BY <2>1, <2>2 DEF Ids
<1>5. NetsNumbered(nets', netId')
    <2>1. \A i \in DOMAIN nets' : Place(nets', nets'[i]) = i
        BY <1>3 DEF Place, Injective
    <2>2. netId' = [m \in Nets |-> IF \E i \in DOMAIN nets' : nets'[i] = m
                                    THEN Place(nets', m) - 1 ELSE 0]
        BY <1>1 DEF Renumbered
    <2>3. \A i \in DOMAIN nets' : netId'[nets'[i]] = i - 1
        BY <2>1, <2>2, <1>4
    <2>4. \A m \in Nets \ Elements(nets') : netId'[m] = 0
        BY <2>2 DEF Elements
    <2>5. \A m \in Nets : netId'[m] \in Ids
        <3> SUFFICES ASSUME NEW m \in Nets PROVE netId'[m] \in Ids
            OBVIOUS
        <3>1. CASE m \in Elements(nets')
            BY <3>1, <2>3, <1>4 DEF Elements
        <3>2. CASE m \notin Elements(nets')
            BY <3>2, <2>4, IdsSuffice
        <3> QED
            BY <3>1, <3>2
    <2>6. netId' \in [Nets -> Ids]
        <3>1. netId' = [m \in Nets |-> netId'[m]]
            BY <2>2
        <3> QED
            BY <3>1, <2>5
    <2> QED
        BY <1>3, <2>3, <2>4, <2>6 DEF NetsNumbered
<1>6. /\ on' \in [Pins -> Nets \cup {None}]
      /\ \A p \in Pins : on'[p] # None => on'[p] = on[p] /\ on[p] # n
      /\ \A p \in Pins : on[p] # n => on'[p] = on[p]
    BY <1>1 DEF WiredLive
<1>7. WiredLive(nets', comps', on')
    BY <1>1, <1>3, <1>6 DEF WiredLive
<1>8. \A p, d \in Pins : Share(on', p, d) => Share(on, p, d) /\ on'[p] = on[p]
    BY <1>6 DEF Share
<1>9. ShortFree(on')
    BY <1>8 DEF ShortFree
<1>10. \A i \in DOMAIN nets' : \E j \in DOMAIN nets :
         nets'[i] = nets[j] /\ nets[j] # n /\ netId[nets'[i]] = j - 1
    <2> SUFFICES ASSUME NEW i \in DOMAIN nets'
                 PROVE  \E j \in DOMAIN nets :
                          nets'[i] = nets[j] /\ nets[j] # n /\ netId[nets'[i]] = j - 1
        OBVIOUS
    <2>1. nets'[i] \in Elements(nets) /\ nets'[i] # n
        BY <1>3 DEF Elements
    <2> QED
        BY <2>1 DEF Elements, NetsNumbered
<1>11. /\ \A i \in Ids : i + 1 \in DOMAIN nets' => bus'[i] = bus[netId[nets'[i + 1]]]
       /\ \A i \in Ids : i + 1 \notin DOMAIN nets' => bus'[i] = {}
       /\ bus' = [i \in Ids |-> bus'[i]]
    BY <1>1 DEF MovedUp
<1>12. \A i \in DOMAIN nets' : bus'[i - 1] = bus[netId[nets'[i]]]
    BY <1>4, <1>11
<1>13. Registered(nets', on', bus')
    <2>1. bus' \in [Ids -> SUBSET Pins]
        <3>1. \A i \in Ids : bus'[i] \in SUBSET Pins
            BY <1>4, <1>11 DEF NetsNumbered, Registered
        <3> QED
            BY <3>1, <1>11
    <2>2. ASSUME NEW i \in Ids, NEW p \in bus'[i]
          PROVE  i + 1 \in DOMAIN nets' /\ Out(p) /\ Tri(p) /\ on'[p] = nets'[i + 1]
        <3>1. i + 1 \in DOMAIN nets'
            BY <2>2, <1>11
        <3>2. PICK j \in DOMAIN nets :
                nets'[i + 1] = nets[j] /\ nets[j] # n /\ netId[nets'[i + 1]] = j - 1
            BY <3>1, <1>10
        <3>3. p \in bus[j - 1] /\ j - 1 \in Ids /\ (j - 1) + 1 = j
            BY <3>1, <3>2, <1>2, <1>4, <1>11, <2>2, SeqDomain DEF NetsNumbered
        <3>4. Out(p) /\ Tri(p) /\ on[p] = nets[j] /\ p \in Pins
            BY <3>3 DEF Registered
        <3> QED
            BY <3>1, <3>2, <3>4, <1>6
    <2>3. ASSUME NEW i \in DOMAIN nets', NEW p \in Pins, NEW d \in Pins,
                 Share(on', p, d), on'[p] = nets'[i]
          PROVE  p \in bus'[i - 1]
        <3>1. PICK j \in DOMAIN nets :
                nets'[i] = nets[j] /\ nets[j] # n /\ netId[nets'[i]] = j - 1
            BY <1>10
        <3>2. p \in bus[j - 1]
            BY <3>1, <2>3, <1>8 DEF Registered
        <3> QED
            BY <3>1, <3>2, <1>12
    <2> QED
        BY <2>1, <2>2, <2>3 DEF Registered
<1> QED
    BY <1>1, <1>5, <1>7, <1>9, <1>13 DEF CompsNumbered

LEMMA RemoveAllKeeps ==
  ASSUME Records, RemoveAllNets
  PROVE  Records'
<1> USE DEF Records, Sound
<1>1. /\ nets' = <<>> /\ on' = Unwired(LivePins) /\ bus' = [i \in Ids |-> {}]
      /\ netId' = [n \in Nets |-> 0] /\ UNCHANGED <<comps, compId>>
    BY DEF RemoveAllNets
<1>2. \A p \in Pins : on'[p] = None
    <2>1. \A p \in Pins : on[p] # None => p \in LivePins
        BY LiveIs DEF WiredLive, LivePins
    <2> QED
        BY <1>1, <2>1 DEF Unwired
<1>3. on' \in [Pins -> Nets \cup {None}]
    BY <1>1 DEF Unwired, WiredLive
<1>4. NetsNumbered(nets', netId')
    <2>1. nets' \in Seq(Nets) /\ DOMAIN nets' = {}
        BY <1>1
    <2>2. netId' \in [Nets -> Ids]
        BY <1>1, IdsSuffice
    <2> QED
        BY <1>1, <2>1, <2>2 DEF NetsNumbered, Injective
<1>5. WiredLive(nets', comps', on') /\ ShortFree(on')
    BY <1>2, <1>3 DEF WiredLive, ShortFree, Share
<1>6. Registered(nets', on', bus')
    <2>1. DOMAIN nets' = {}
        BY <1>1
    <2> QED
        BY <1>1, <2>1 DEF Registered
<1> QED
    BY <1>1, <1>4, <1>5, <1>6 DEF CompsNumbered

LEMMA FinitePins == IsFiniteSet(Pins)
<1> DEFINE f == [c \in Comps |-> {c} \X DOMAIN PinsOf[c]]
           T == {{c} \X DOMAIN PinsOf[c] : c \in Comps}
<1>1. \A c \in Comps : IsFiniteSet({c} \X DOMAIN PinsOf[c])
    <2> SUFFICES ASSUME NEW c \in Comps PROVE IsFiniteSet({c} \X DOMAIN PinsOf[c])
        OBVIOUS
    <2>1. Len(PinsOf[c]) \in Nat /\ DOMAIN PinsOf[c] = 1..Len(PinsOf[c])
        BY PinsAssumption, SeqDomain
    <2>2. IsFiniteSet(DOMAIN PinsOf[c])
        BY <2>1, FS_Interval
    <2> QED
        BY <2>2, FS_Singleton, FS_Product
<1>2. f \in Surjection(Comps, T)
    BY DEF Surjection
<1>3. IsFiniteSet(T)
    BY <1>2, FiniteAssumption, FS_Surjection
<1>4. IsFiniteSet(UNION T)
    BY <1>1, <1>3, FS_UNION
<1> QED
    BY <1>4 DEF Pins

LEMMA TwoDrivers ==
  ASSUME NEW n
  PROVE  Cardinality(Drivers(n)) >= 2 <=> \E p, d \in Drivers(n) : p # d
<1> DEFINE D == Drivers(n)
<1>1. IsFiniteSet(D) /\ Cardinality(D) \in Nat
    <2>1. D \in SUBSET Pins
        BY DEF Drivers, LivePins
    <2> QED
        BY <2>1, FinitePins, FS_Subset, FS_CardinalityType
<1> HIDE DEF D
<1>2. Cardinality(D) = 0 <=> D = {}
    BY <1>1, FS_EmptySet
<1>3. Cardinality(D) = 1 <=> \E x : D = {x}
    BY <1>1, FS_Singleton
<1>4. ASSUME NEW p \in D, NEW d \in D, p # d PROVE Cardinality(D) >= 2
    <2>1. D # {} /\ ~\E x : D = {x}
        BY <1>4
    <2> QED
        BY <2>1, <1>1, <1>2, <1>3
<1>5. ASSUME Cardinality(D) >= 2 PROVE \E p, d \in D : p # d
    <2>1. D # {} /\ ~\E x : D = {x}
        BY <1>1, <1>2, <1>3, <1>5
    <2>2. PICK p \in D : TRUE
        BY <2>1
    <2>3. D # {p}
        BY <2>1
    <2> QED
        BY <2>2, <2>3
<1> QED
    BY <1>4, <1>5 DEF D

LEMMA PrepareKeeps ==
  ASSUME Records, Prepare
  PROVE  Records'
<1> USE DEF Records, Sound
<1>1. /\ compId' = [c \in Comps |-> IF c \in Elements(comps) THEN Place(comps, c) - 1 ELSE 0]
      /\ bus' = [i \in Ids |->
                   IF i + 1 \in DOMAIN nets /\ Cardinality(Drivers(nets[i + 1])) >= 2
                   THEN Drivers(nets[i + 1]) ELSE {}]
      /\ UNCHANGED <<nets, comps, netId, on>>
    BY LiveIs DEF Prepare
<1>2. comps \in Seq(Comps) /\ Injective(comps) /\ DOMAIN comps = 1..Len(comps) /\ Len(comps) \in Nat
    BY SeqDomain DEF CompsNumbered
<1>3. \A c \in Elements(comps) : Place(comps, c) \in DOMAIN comps /\ comps[Place(comps, c)] = c
    BY DEF Elements, Place
<1>4. CompsNumbered(comps', compId')
    <2>1. Len(comps) <= Cardinality(Comps) /\ Cardinality(Comps) \in Nat /\ MaxId \in Nat
        BY <1>2, IdsSuffice, BoundAssumption
    <2>2. \A i \in DOMAIN comps : i - 1 \in 0..LastId
        BY <1>2, <2>1 DEF LastId
    <2>3. 0 \in 0..LastId
        BY <2>1 DEF LastId
    <2>4. compId' \in [Comps -> 0..LastId]
        BY <1>1, <1>3, <2>2, <2>3
    <2>5. \A c, d \in Elements(comps) : compId'[c] = compId'[d] => c = d
        <3> SUFFICES ASSUME NEW c \in Elements(comps), NEW d \in Elements(comps),
                            compId'[c] = compId'[d]
                     PROVE  c = d
            OBVIOUS
        <3>1. c \in Comps /\ d \in Comps
            BY <1>2, SeqDomain
        <3>2. Place(comps, c) - 1 = Place(comps, d) - 1
            BY <3>1, <1>1
        <3>3. Place(comps, c) = Place(comps, d)
            BY <3>2, <1>2, <1>3
        <3> QED
            BY <3>3, <1>3
    <2>6. \A c \in Comps \ Elements(comps) : compId'[c] = 0
        BY <1>1
    <2> QED
        BY <1>1, <1>2, <2>4, <2>5, <2>6 DEF CompsNumbered
<1>5. bus' \in [Ids -> SUBSET Pins]
    BY <1>1 DEF Drivers, LivePins
<1>6. ASSUME NEW i \in Ids, NEW p \in bus'[i]
      PROVE  i + 1 \in DOMAIN nets /\ Out(p) /\ Tri(p) /\ on[p] = nets[i + 1]
    <2>1. /\ i + 1 \in DOMAIN nets /\ Cardinality(Drivers(nets[i + 1])) >= 2
          /\ p \in Drivers(nets[i + 1])
        BY <1>1, <1>6
    <2>2. PICK d \in Drivers(nets[i + 1]) : d # p
        BY <2>1, TwoDrivers
    <2>3. nets[i + 1] # None
        BY <2>1, SeqDomain, HandlesAssumption DEF NetsNumbered
    <2>4. p \in Pins /\ d \in Pins /\ Share(on, p, d) /\ on[p] = nets[i + 1] /\ Out(p)
        BY <2>1, <2>2, <2>3 DEF Drivers, LivePins, Share
    <2> QED
        BY <2>1, <2>4 DEF ShortFree
<1>7. ASSUME NEW i \in DOMAIN nets, NEW p \in Pins, NEW d \in Pins,
             Share(on, p, d), on[p] = nets[i]
      PROVE  p \in bus'[i - 1]
    <2>1. i - 1 \in Ids /\ (i - 1) + 1 = i
        BY SeqDomain, IdsSuffice DEF NetsNumbered, Ids
    <2>2. p \in Drivers(nets[i]) /\ d \in Drivers(nets[i]) /\ p # d
        BY <1>7, LiveIs DEF Share, Drivers, LivePins, WiredLive
    <2>3. Cardinality(Drivers(nets[i])) >= 2
        BY <2>2, TwoDrivers
    <2> QED
        BY <1>1, <2>1, <2>2, <2>3
<1>8. Registered(nets', on', bus')
    BY <1>1, <1>5, <1>6, <1>7 DEF Registered
<1> QED
    BY <1>1, <1>4, <1>8 DEF NetsNumbered, WiredLive

-----------------------------------------------------------------------------
(* Expansions. *)

USE DEF Expansions

LEMMA SnapshotKeeps ==
  ASSUME Snapshot, before' = before, exp'.comp = exp.comp,
         Extends(nets', nets), Extends(comps', comps),
         nets \in Seq(Nets), comps \in Seq(Comps), nets' \in Seq(Nets), comps' \in Seq(Comps),
         \A c \in OldComps : compId'[c] = compId[c],
         \A p \in OldPins : p[1] # exp.comp => on'[p] = on[p],
         ~exp'.bound => \A p \in PinsOn(exp.comp) : on'[p] = None,
         \A i \in DOMAIN exp'.parts : exp'.parts[i].comp \notin OldComps
  PROVE  Snapshot'
<1>1. OldComps' = OldComps /\ OldPins' = OldPins /\ PinsOn(exp'.comp) = PinsOn(exp.comp)
    BY DEF OldComps, OldPins
<1>2. before.nets \in Seq(Nets) /\ before.comps \in Seq(Comps)
    BY DEF Snapshot, Sound, NetsNumbered, CompsNumbered
<1>3. Extends(nets', before.nets) /\ Extends(comps', before.comps)
    <2>1. ASSUME NEW S, NEW s \in Seq(S), NEW t \in Seq(S), NEW u \in Seq(S),
                 Extends(t, s), Extends(u, t)
          PROVE  Extends(u, s)
        BY <2>1, SeqDomain DEF Extends
    <2>2. Extends(nets, before.nets) /\ Extends(comps, before.comps)
        BY DEF Snapshot
    <2> QED
        BY <1>2, <2>1, <2>2
<1> QED
    BY <1>1, <1>3 DEF Snapshot

LEMMA ExpIs ==
  ASSUME Expanding
  PROVE  /\ exp.comp \in Comps \cup {None} /\ exp.nets \in Seq(Nets) /\ exp.bound \in BOOLEAN
         /\ exp.parts \in Seq(Part)
BY DEF Expanding

LEMMA BeginKeeps ==
  ASSUME IInv, BeginExpansion
  PROVE  IInv'
<1> USE DEF IInv
<1> DEFINE c == comps[Min(CompositesLeft)]
<1>1. /\ CompositesLeft # {} /\ Unused(c)
      /\ exp' = [comp |-> c, nets |-> Blueprints[c].nets, bound |-> TRUE,
                 parts |-> Blueprints[c].parts]
      /\ before' = [nets |-> nets, comps |-> comps, netId |-> netId, compId |-> compId,
                    on |-> on, bus |-> bus, width |-> width]
      /\ UNCHANGED <<nets, comps, netId, compId, on, bus>>
    BY DEF BeginExpansion, netlist
<1>2. /\ comps \in Seq(Comps) /\ DOMAIN comps = 1..Len(comps) /\ Len(comps) \in Nat
      /\ nets \in Seq(Nets) /\ Len(nets) \in Nat
    BY SeqDomain DEF Records, Sound, NetsNumbered, CompsNumbered
<1>3. Min(CompositesLeft) \in CompositesLeft
    <2>1. CompositesLeft \in SUBSET Nat
        BY <1>2 DEF CompositesLeft
    <2>2. \E x \in CompositesLeft : \A y \in CompositesLeft : x <= y
        BY <1>1, <2>1, NatMin
    <2> QED
        BY <2>2, Zenon DEF Min
<1>4. c \in Composites /\ c \in Elements(comps) /\ c \in Comps
    BY <1>2, <1>3, SeqDomain DEF CompositesLeft, Elements
<1> HIDE DEF c
<1>5. Blueprints[c].nets \in Seq(Nets) /\ Blueprints[c].parts \in Seq(Part)
    BY <1>4, BlueprintsAssumption DEF Part
<1>6. exp' \in Expansions
    BY <1>1, <1>4, <1>5
<1>7. OldComps' = Elements(comps)
    BY <1>1 DEF OldComps, Elements
<1>8. Snapshot'
    <2>1. exp'.comp \in Composites /\ exp'.comp \in OldComps'
        BY <1>1, <1>4, <1>7
    <2>2. Sound(before'.nets, before'.comps, before'.netId, before'.compId, before'.on)
        BY <1>1 DEF Records
    <2>3. Extends(nets', before'.nets) /\ Extends(comps', before'.comps)
        BY <1>1, <1>2 DEF Extends
    <2>4. \A i \in DOMAIN exp'.parts : exp'.parts[i].comp \notin OldComps'
        BY <1>1, <1>4, <1>7, LiveIs DEF Unused, OwnParts
    <2> QED
        BY <1>1, <2>1, <2>2, <2>3, <2>4 DEF Snapshot
<1> QED
    BY <1>1, <1>6, <1>8 DEF Records, Expanding

LEMMA ExpandNetKeeps ==
  ASSUME IInv, ExpandNet
  PROVE  IInv'
<1> USE DEF IInv
<1>1. /\ exp.nets # <<>> /\ CreateNet(Head(exp.nets))
      /\ exp' = [exp EXCEPT !.nets = Tail(@)] /\ before' = before
    BY DEF ExpandNet
<1>2. Head(exp.nets) \in Nets /\ Tail(exp.nets) \in Seq(Nets)
    BY <1>1, ExpIs, HeadTailProperties
<1>3. Records' /\ Extends(nets', nets) /\ UNCHANGED <<comps, compId, on>>
    BY <1>1, <1>2, CreateKeeps DEF CreateNet
<1>4. Snapshot
    BY <1>1 DEF Expanding, Settled, Idle
<1>5. /\ exp' \in Expansions
      /\ exp'.comp = exp.comp /\ exp'.bound = exp.bound /\ exp'.parts = exp.parts
    BY <1>1, <1>2 DEF Expanding
<1>6. /\ nets \in Seq(Nets) /\ comps \in Seq(Comps) /\ Extends(comps', comps)
      /\ nets' \in Seq(Nets) /\ comps' \in Seq(Comps)
    <2>1. nets \in Seq(Nets) /\ comps \in Seq(Comps)
        BY DEF Records, Sound, NetsNumbered, CompsNumbered
    <2>2. nets' \in Seq(Nets)
        BY <1>3 DEF Records, Sound, NetsNumbered
    <2> QED
        BY <1>3, <2>1, <2>2, SeqDomain DEF Extends
<1>7. Snapshot'
    <2>1. ~exp'.bound => \A p \in PinsOn(exp.comp) : on'[p] = None
        BY <1>3, <1>4, <1>5 DEF Snapshot
    <2>2. \A i \in DOMAIN exp'.parts : exp'.parts[i].comp \notin OldComps
        BY <1>4, <1>5 DEF Snapshot
    <2> QED
        BY <1>1, <1>3, <1>4, <1>5, <1>6, <2>1, <2>2, SnapshotKeeps
<1> QED
    BY <1>3, <1>5, <1>7 DEF Expanding

\* The register need not hear of it: no pin of a composite is tri-state.
LEMMA UnbindKeeps ==
  ASSUME IInv, UnbindPins
  PROVE  IInv'
<1> USE DEF IInv
<1>1. /\ ~Settled /\ on' = Unwired(PinsOn(exp.comp)) /\ exp' = [exp EXCEPT !.bound = FALSE]
      /\ UNCHANGED <<nets, comps, netId, compId, bus, before>>
    BY DEF UnbindPins
<1>2. Snapshot /\ Records
    BY <1>1 DEF Expanding
<1>3. PinsOn(exp.comp) \subseteq Pins /\ \A p \in PinsOn(exp.comp) : ~Tri(p)
    BY <1>2, CompositesAssumption DEF PinsOn, Snapshot
<1>4. /\ \A p \in PinsOn(exp.comp) : on'[p] = None
      /\ \A p \in Pins \ PinsOn(exp.comp) : on'[p] = on[p]
    BY <1>1, <1>3 DEF Unwired
<1>5. on' \in [Pins -> Nets \cup {None}] /\ ShortFree(on')
    BY <1>1, <1>3, DetachKeeps
<1>6. WiredLive(nets', comps', on')
    BY <1>1, <1>4, <1>5 DEF Records, Sound, WiredLive
<1>7. Registered(nets, on, bus)
    BY DEF Records
<1>8. Registered(nets', on', bus')
    <2>1. \A i \in Ids : \A p \in bus[i] : p \in Pins \ PinsOn(exp.comp)
        BY <1>3, <1>7 DEF Registered
    <2>2. \A i \in Ids : \A p \in bus[i] :
            i + 1 \in DOMAIN nets /\ Out(p) /\ Tri(p) /\ on'[p] = nets[i + 1]
        BY <1>4, <1>7, <2>1 DEF Registered
    <2>3. \A p, d \in Pins : Share(on', p, d) => Share(on, p, d) /\ on'[p] = on[p]
        BY <1>4 DEF Share
    <2>4. \A i \in DOMAIN nets : \A p, d \in Pins :
            Share(on', p, d) /\ on'[p] = nets[i] => p \in bus[i - 1]
        BY <1>7, <2>3 DEF Registered
    <2> QED
        BY <1>1, <1>7, <2>2, <2>4 DEF Registered
<1>9. /\ exp' \in Expansions
      /\ exp'.comp = exp.comp /\ exp'.parts = exp.parts
    BY <1>1 DEF Expanding
<1>10. /\ nets \in Seq(Nets) /\ comps \in Seq(Comps)
       /\ nets' \in Seq(Nets) /\ comps' \in Seq(Comps)
       /\ Extends(nets', nets) /\ Extends(comps', comps)
    <2>1. nets \in Seq(Nets) /\ comps \in Seq(Comps)
        BY DEF Records, Sound, NetsNumbered, CompsNumbered
    <2> QED
        BY <1>1, <2>1, SeqDomain DEF Extends
<1>11. Snapshot'
    <2>1. \A p \in OldPins : p[1] # exp.comp => on'[p] = on[p]
        BY <1>4 DEF OldPins, PinsOn
    <2>2. \A i \in DOMAIN exp'.parts : exp'.parts[i].comp \notin OldComps
        BY <1>2, <1>9 DEF Snapshot
    <2> QED
        BY <1>1, <1>2, <1>4, <1>9, <1>10, <2>1, <2>2, SnapshotKeeps
<1> QED
    BY <1>1, <1>5, <1>6, <1>8, <1>9, <1>11
       DEF Records, Sound, NetsNumbered, CompsNumbered, Expanding

LEMMA ExpandPartKeeps ==
  ASSUME IInv, ExpandPart
  PROVE  IInv'
<1> USE DEF IInv
<1> DEFINE part == Head(exp.parts)
           tie == Head(part.ties)
           less == <<[part EXCEPT !.ties = Tail(@)]>> \o Tail(exp.parts)
<1>1. ~Settled /\ ~exp.bound /\ exp.parts # <<>> /\ before' = before
    BY DEF ExpandPart
<1>2. Snapshot /\ Records
    BY <1>1 DEF Expanding
<1>3. part \in Part /\ Tail(exp.parts) \in Seq(Part) /\ part.comp \notin OldComps
      /\ \A i \in DOMAIN Tail(exp.parts) : Tail(exp.parts)[i].comp \notin OldComps
    <2>1. /\ part \in Part /\ Tail(exp.parts) \in Seq(Part)
          /\ Len(Tail(exp.parts)) = Len(exp.parts) - 1
          /\ \A i \in 1..Len(Tail(exp.parts)) : Tail(exp.parts)[i] = exp.parts[i + 1]
        BY <1>1, ExpIs, HeadTailProperties
    <2>2. /\ DOMAIN exp.parts = 1..Len(exp.parts) /\ Len(exp.parts) \in Nat
          /\ Len(exp.parts) # 0
          /\ DOMAIN Tail(exp.parts) = 1..Len(Tail(exp.parts)) /\ part = exp.parts[1]
        BY <1>1, <2>1, ExpIs, SeqDomain, EmptySeq
    <2>3. \A i \in DOMAIN Tail(exp.parts) : i + 1 \in DOMAIN exp.parts
        BY <2>1, <2>2
    <2>4. 1 \in DOMAIN exp.parts
        BY <2>2
    <2> QED
        BY <1>2, <2>1, <2>2, <2>3, <2>4 DEF Snapshot
<1>4. part.comp \in Comps /\ part.comp # exp.comp /\ part.ties \in Seq(Nat \X (Nets \cup Nat))
    BY <1>2, <1>3 DEF Part, Snapshot
<1>5. /\ nets \in Seq(Nets) /\ comps \in Seq(Comps)
      /\ Extends(nets, nets) /\ Extends(comps, comps)
    <2>1. nets \in Seq(Nets) /\ comps \in Seq(Comps)
        BY <1>2 DEF Records, Sound, NetsNumbered, CompsNumbered
    <2> QED
        BY <2>1, SeqDomain DEF Extends
<1>6. \A p \in PinsOn(exp.comp) : on[p] = None
    BY <1>1, <1>2 DEF Snapshot
<1>7. CASE AddComponent(part.comp) /\ exp' = exp
    <2>1. /\ Records' /\ Extends(comps', comps) /\ UNCHANGED <<nets, on>>
          /\ \A d \in Elements(comps) : compId'[d] = compId[d]
        BY <1>2, <1>4, <1>7, AddKeeps DEF AddComponent, wiring
    <2>4. comps' \in Seq(Comps)
        BY <2>1 DEF Records, Sound, CompsNumbered
    <2>2. OldComps \subseteq Elements(comps)
        <3>1. before.comps \in Seq(Comps)
            BY <1>2 DEF Snapshot, Sound, CompsNumbered
        <3>2. \A i \in DOMAIN before.comps : i \in DOMAIN comps /\ before.comps[i] = comps[i]
            BY <1>2, <1>5, <3>1, SeqDomain DEF Snapshot, Extends
        <3> QED
            BY <3>2 DEF OldComps, Elements
    <2>3. Snapshot'
        <3>1. \A i \in DOMAIN exp'.parts : exp'.parts[i].comp \notin OldComps
            BY <1>2, <1>7 DEF Snapshot
        <3>2. Extends(nets', nets) /\ nets' \in Seq(Nets) /\ exp'.comp = exp.comp
            BY <1>5, <1>7, <2>1
        <3> QED
            BY <1>1, <1>2, <1>5, <1>6, <2>1, <2>2, <2>4, <3>1, <3>2, SnapshotKeeps
    <2> QED
        BY <1>7, <2>1, <2>3 DEF Expanding
<1>8. CASE exp' = [exp EXCEPT !.parts = Tail(@)] /\ UNCHANGED netlist
    <2>1. UNCHANGED <<nets, comps, netId, compId, on, bus>>
        BY <1>8 DEF netlist
    <2>2. /\ exp' \in Expansions
          /\ exp'.comp = exp.comp /\ exp'.parts = Tail(exp.parts)
        BY <1>3, <1>8 DEF Expanding
    <2>3. Snapshot'
        <3>1. /\ Extends(nets', nets) /\ Extends(comps', comps)
              /\ nets' \in Seq(Nets) /\ comps' \in Seq(Comps)
            BY <1>5, <2>1
        <3> QED
            BY <1>1, <1>2, <1>3, <1>5, <1>6, <2>1, <2>2, <3>1, SnapshotKeeps
    <2> QED
        BY <1>2, <2>1, <2>2, <2>3 DEF Records, Expanding
<1>9. CASE /\ Connect(<<part.comp, tie[1]>>, Target(tie[2])) /\ part.ties # <<>>
           /\ exp' = [exp EXCEPT !.parts = less]
    <2> DEFINE p == <<part.comp, tie[1]>>
    <2>1. /\ Records' /\ p \in LivePins /\ on' = [on EXCEPT ![p] = Target(tie[2])]
          /\ UNCHANGED <<nets, comps, compId>>
        BY <1>2, <1>9, ConnectKeeps DEF Connect
    <2>2. p \in Pins /\ p[1] = part.comp
        BY <2>1 DEF LivePins
    <2>3. \A q \in Pins : q[1] # part.comp => on'[q] = on[q]
        BY <1>2, <2>1, <2>2 DEF Records, Sound, WiredLive
    <2>4. [part EXCEPT !.ties = Tail(@)] \in Part /\ [part EXCEPT !.ties = Tail(@)].comp = part.comp
        <3>1. Tail(part.ties) \in Seq(Nat \X (Nets \cup Nat))
            BY <1>4, <1>9, HeadTailProperties
        <3> HIDE DEF part
        <3> QED
            BY <1>3, <3>1 DEF Part
    <2>5. less \in Seq(Part) /\ \A i \in DOMAIN less : less[i].comp \notin OldComps
        <3> DEFINE new == [part EXCEPT !.ties = Tail(@)]
                   rest == Tail(exp.parts)
        <3>1. new \in Part /\ new.comp \notin OldComps
            BY <1>3, <2>4
        <3>2. rest \in Seq(Part) /\ \A i \in DOMAIN rest : rest[i].comp \notin OldComps
            BY <1>3
        <3> HIDE DEF new, rest
        <3>3. <<new>> \in Seq(Part) /\ Len(<<new>>) = 1 /\ <<new>>[1] = new
            BY <3>1
        <3>4. /\ <<new>> \o rest \in Seq(Part) /\ Len(<<new>> \o rest) = 1 + Len(rest)
              /\ \A i \in 1..(1 + Len(rest)) :
                   (<<new>> \o rest)[i] = IF i <= 1 THEN <<new>>[i] ELSE rest[i - 1]
            BY <3>2, <3>3, ConcatProperties
        <3>5. /\ DOMAIN (<<new>> \o rest) = 1..(1 + Len(rest))
              /\ DOMAIN rest = 1..Len(rest) /\ Len(rest) \in Nat
            BY <3>2, <3>4, SeqDomain
        <3>6. ASSUME NEW i \in DOMAIN (<<new>> \o rest)
              PROVE  (<<new>> \o rest)[i].comp \notin OldComps
            <4>1. CASE i = 1
                BY <4>1, <3>1, <3>3, <3>4, <3>5
            <4>2. CASE i # 1
                <5>1. i - 1 \in DOMAIN rest /\ ~(i <= 1)
                    BY <4>2, <3>5
                <5> QED
                    BY <5>1, <3>2, <3>4, <3>5
            <4> QED
                BY <4>1, <4>2
        <3> QED
            BY <3>4, <3>6 DEF new, rest
    <2> HIDE DEF less, p
    <2>6. /\ exp' \in Expansions
          /\ exp'.comp = exp.comp /\ exp'.parts = less
        BY <1>9, <2>5 DEF Expanding
    <2>7. Snapshot'
        <3>1. /\ Extends(nets', nets) /\ Extends(comps', comps)
              /\ nets' \in Seq(Nets) /\ comps' \in Seq(Comps)
            BY <1>5, <2>1
        <3>2. \A q \in OldPins : on'[q] = on[q]
            BY <1>3, <2>3 DEF OldPins
        <3>3. \A q \in PinsOn(exp.comp) : on'[q] = None
            BY <1>4, <1>6, <2>3 DEF PinsOn
        <3>4. \A i \in DOMAIN exp'.parts : exp'.parts[i].comp \notin OldComps
            BY <2>5, <2>6
        <3>5. exp'.comp = exp.comp /\ \A c \in OldComps : compId'[c] = compId[c]
            BY <2>1, <2>6
        <3> QED
            BY <1>1, <1>2, <1>5, <3>1, <3>2, <3>3, <3>4, <3>5, SnapshotKeeps
    <2> QED
        BY <2>1, <2>6, <2>7 DEF Expanding
<1> QED
    BY <1>7, <1>8, <1>9 DEF ExpandPart

LEMMA IdleKeeps == exp' = Idle => Expanding'
<1> SUFFICES ASSUME exp' = Idle PROVE Expanding'
    OBVIOUS
<1>1. Idle \in Expansions
    BY EmptySeq DEF Idle
<1> QED
    BY <1>1 DEF Expanding, Settled

LEMMA EndKeeps ==
  ASSUME IInv, EndExpansion
  PROVE  IInv'
<1> USE DEF IInv
<1>1. PICK k \in DOMAIN comps : comps[k] = exp.comp /\ comps' = Without(comps, k)
    BY DEF EndExpansion
<1>2. /\ ~Settled /\ ~exp.bound /\ compId' = [compId EXCEPT ![exp.comp] = 0]
      /\ exp' = Idle /\ UNCHANGED <<nets, netId, on, bus>>
    BY DEF EndExpansion, wiring
<1>3. Snapshot /\ Records
    BY <1>2 DEF Expanding
<1>4. CompsNumbered(comps', compId') /\ Elements(comps') = Elements(comps) \ {exp.comp}
    BY <1>1, <1>2, <1>3, CompsWithout DEF Records, Sound
<1>5. \A p \in Pins : p[1] = exp.comp => on[p] = None
    BY <1>2, <1>3 DEF Snapshot, PinsOn
<1>6. WiredLive(nets', comps', on')
    BY <1>2, <1>3, <1>4, <1>5 DEF Records, Sound, WiredLive
<1> QED
    BY <1>2, <1>3, <1>4, <1>6, IdleKeeps DEF Records, Sound, NetsNumbered, ShortFree,
           Registered

\* What a failed expansion leaves is what was before it.
LEMMA FailureRestores ==
  ASSUME IInv, FailExpansion
  PROVE  /\ Snapshot
         /\ nets' = before.nets /\ comps' = before.comps /\ on' = before.on
         /\ netId' = before.netId /\ compId' = before.compId
<1> USE DEF IInv
<1>1. Snapshot /\ Records
    BY DEF FailExpansion, Expanding
<1>2. /\ NetsNumbered(nets, netId) /\ CompsNumbered(comps, compId)
      /\ NetsNumbered(before.nets, before.netId)
      /\ CompsNumbered(before.comps, before.compId)
      /\ WiredLive(before.nets, before.comps, before.on)
    BY <1>1 DEF Records, Sound, Snapshot
<1>3. ASSUME NEW S, NEW t \in Seq(S), NEW s \in Seq(S), Extends(t, s)
      PROVE  SubSeq(t, 1, Len(s)) = s /\ \A i \in DOMAIN s : i \in DOMAIN t /\ t[i] = s[i]
    <2>1. /\ Len(s) \in Nat /\ DOMAIN s = 1..Len(s) /\ Len(t) \in Nat
          /\ DOMAIN t = 1..Len(t)
          /\ Len(s) <= Len(t) /\ \A i \in DOMAIN s : t[i] = s[i]
        BY <1>3, SeqDomain DEF Extends
    <2>2. \A i \in 1..Len(s) : t[i] \in S
        BY <2>1, SeqDomain
    <2>3. /\ SubSeq(t, 1, Len(s)) \in Seq(S)
          /\ Len(SubSeq(t, 1, Len(s))) = IF 1 <= Len(s) THEN Len(s) - 1 + 1 ELSE 0
          /\ \A i \in 1..(Len(s) - 1 + 1) : SubSeq(t, 1, Len(s))[i] = t[1 + i - 1]
        BY <2>1, <2>2, SubSeqProperties
    <2>4. Len(SubSeq(t, 1, Len(s))) = Len(s)
        BY <2>1, <2>3
    <2>5. \A i \in 1..Len(s) : SubSeq(t, 1, Len(s))[i] = s[i]
        <3> SUFFICES ASSUME NEW i \in 1..Len(s) PROVE SubSeq(t, 1, Len(s))[i] = s[i]
            OBVIOUS
        <3>1. i \in 1..(Len(s) - 1 + 1) /\ 1 + i - 1 = i
            BY <2>1
        <3> QED
            BY <3>1, <2>1, <2>3
    <2>6. SubSeq(t, 1, Len(s)) = s
        BY <2>3, <2>4, <2>5, SeqEqual
    <2> QED
        BY <2>1, <2>6
<1>4. /\ nets' = before.nets /\ comps' = before.comps
      /\ \A i \in DOMAIN before.nets : i \in DOMAIN nets /\ nets[i] = before.nets[i]
    <2>1. nets \in Seq(Nets) /\ before.nets \in Seq(Nets) /\ Extends(nets, before.nets)
        BY <1>1, <1>2 DEF Snapshot, NetsNumbered
    <2>2. comps \in Seq(Comps) /\ before.comps \in Seq(Comps) /\ Extends(comps, before.comps)
        BY <1>1, <1>2 DEF Snapshot, CompsNumbered
    <2>3. /\ nets' = SubSeq(nets, 1, Len(before.nets))
          /\ comps' = SubSeq(comps, 1, Len(before.comps))
        BY DEF FailExpansion
    <2>4. /\ SubSeq(nets, 1, Len(before.nets)) = before.nets
          /\ \A i \in DOMAIN before.nets : i \in DOMAIN nets /\ nets[i] = before.nets[i]
        BY <2>1, <1>3
    <2>5. SubSeq(comps, 1, Len(before.comps)) = before.comps
        BY <2>2, <1>3
    <2> QED
        BY <2>3, <2>4, <2>5
<1>5. netId' = before.netId
    <2>1. netId' = [n \in Nets |-> IF n \in Elements(before.nets) THEN netId[n] ELSE 0]
        BY LiveIs DEF FailExpansion
    <2>2. ASSUME NEW n \in Elements(before.nets) PROVE netId[n] = before.netId[n]
        <3>1. PICK i \in DOMAIN before.nets : n = before.nets[i]
            BY DEF Elements
        <3>2. i \in DOMAIN nets /\ n = nets[i]
            BY <1>4, <3>1
        <3> QED
            BY <1>2, <3>1, <3>2 DEF NetsNumbered
    <2>3. before.netId = [n \in Nets |-> before.netId[n]]
        BY <1>2 DEF NetsNumbered
    <2>4. \A n \in Nets \ Elements(before.nets) : before.netId[n] = 0
        BY <1>2 DEF NetsNumbered
    <2>5. [n \in Nets |-> IF n \in Elements(before.nets) THEN netId[n] ELSE 0]
          = [n \in Nets |-> before.netId[n]]
        BY <2>2, <2>4
    <2> QED
        BY <2>1, <2>3, <2>5
<1>6. compId' = before.compId
    <2>1. compId' = [c \in Comps |-> IF c \in Elements(before.comps) THEN compId[c] ELSE 0]
        BY LiveIs DEF FailExpansion
    <2>2. \A c \in Elements(before.comps) : compId[c] = before.compId[c]
        BY <1>1, LiveIs DEF Snapshot
    <2>3. before.compId = [c \in Comps |-> before.compId[c]]
        BY <1>2 DEF CompsNumbered
    <2>4. \A c \in Comps \ Elements(before.comps) : before.compId[c] = 0
        BY <1>2 DEF CompsNumbered
    <2>5. [c \in Comps |-> IF c \in Elements(before.comps) THEN compId[c] ELSE 0]
          = [c \in Comps |-> before.compId[c]]
        BY <2>2, <2>4
    <2> QED
        BY <2>1, <2>3, <2>5
<1>7. on' = before.on
    <2>1. on' = [p \in Pins |-> IF p[1] = exp.comp THEN before.on[p]
                                 ELSE IF p \in OldPins THEN on[p] ELSE None]
        BY DEF FailExpansion, Restored
    <2>2. \A p \in OldPins : p[1] # exp.comp => on[p] = before.on[p]
        BY <1>1 DEF Snapshot
    <2>3. \A p \in Pins : p \notin OldPins => before.on[p] = None
        BY <1>2, LiveIs DEF WiredLive, OldPins
    <2>4. before.on = [p \in Pins |-> before.on[p]]
        BY <1>2 DEF WiredLive
    <2>5. \A p \in Pins : on'[p] = before.on[p]
        BY <2>1, <2>2, <2>3
    <2> QED
        BY <2>1, <2>4, <2>5
<1> QED
    BY <1>1, <1>4, <1>5, <1>6, <1>7

LEMMA FailureKeeps ==
  ASSUME IInv, FailExpansion
  PROVE  IInv'
<1> USE DEF IInv
<1>1. /\ nets' = before.nets /\ comps' = before.comps /\ on' = before.on
      /\ netId' = before.netId /\ compId' = before.compId /\ Snapshot
    BY FailureRestores
<1>2. bus' = Detached(bus, LivePins \ OldPins) /\ exp' = Idle
    BY DEF FailExpansion
<1>3. Sound(nets', comps', netId', compId', on')
    BY <1>1 DEF Snapshot
<1>4. /\ NetsNumbered(nets, netId) /\ WiredLive(nets, comps, on)
      /\ Registered(nets, on, bus)
      /\ NetsNumbered(before.nets, before.netId)
      /\ WiredLive(before.nets, before.comps, before.on) /\ ShortFree(before.on)
    BY <1>1 DEF Records, Sound, Snapshot
<1>5. /\ DOMAIN nets = 1..Len(nets) /\ Len(nets) \in Nat
      /\ DOMAIN before.nets = 1..Len(before.nets) /\ Len(before.nets) \in Nat
      /\ Len(before.nets) <= Len(nets)
      /\ \A i \in DOMAIN before.nets : i \in DOMAIN nets /\ nets[i] = before.nets[i]
    <2>1. nets \in Seq(Nets) /\ before.nets \in Seq(Nets)
        BY <1>4 DEF NetsNumbered
    <2> QED
        BY <1>1, <2>1, SeqDomain DEF Snapshot, Extends
<1>6. \A p \in Pins : Tri(p) => p[1] # exp.comp
    BY <1>1, CompositesAssumption DEF Snapshot
<1>7. \A p \in OldPins : p[1] # exp.comp => on[p] = before.on[p]
    BY <1>1 DEF Snapshot
<1>8. \A p \in Pins : before.on[p] # None => p \in OldPins /\ before.on[p] \in Elements(before.nets)
    BY <1>4, LiveIs DEF WiredLive, OldPins
<1>9. /\ bus' \in [Ids -> SUBSET Pins] /\ \A i \in Ids : bus'[i] \subseteq bus[i]
      /\ \A i \in Ids : \A p \in bus[i] : p \in OldPins => p \in bus'[i]
    BY <1>2, <1>4 DEF Detached, Registered
<1>10. ASSUME NEW i \in Ids, NEW p \in bus'[i]
       PROVE  i + 1 \in DOMAIN before.nets /\ Out(p) /\ Tri(p) /\ before.on[p] = before.nets[i + 1]
    <2>1. /\ p \in bus[i] /\ p \in Pins /\ i + 1 \in DOMAIN nets /\ Out(p) /\ Tri(p)
          /\ on[p] = nets[i + 1]
        BY <1>4, <1>9, <1>10 DEF Registered
    <2>2. nets[i + 1] \in Nets /\ netId[nets[i + 1]] = i
        BY <1>4, <2>1, SeqDomain DEF NetsNumbered, Ids
    <2>3. on[p] # None /\ netId[on[p]] = i
        BY <2>1, <2>2, HandlesAssumption
    <2>4. p \in OldPins
        <3>1. p \in LivePins
            BY <1>4, <2>1, <2>3, LiveIs DEF WiredLive, LivePins
        <3>2. p \notin LivePins \ OldPins
            BY <1>2, <1>10, <2>1, <2>3 DEF Detached
        <3> QED
            BY <3>1, <3>2
    <2>5. before.on[p] = nets[i + 1] /\ before.on[p] # None
        BY <1>6, <1>7, <2>1, <2>3, <2>4
    <2>6. PICK j \in DOMAIN before.nets : before.nets[j] = nets[i + 1]
        BY <1>8, <2>1, <2>5 DEF Elements
    <2>7. j = i + 1
        BY <1>4, <1>5, <2>1, <2>6 DEF NetsNumbered, Injective
    <2> QED
        BY <2>1, <2>5, <2>6, <2>7
<1>11. ASSUME NEW i \in DOMAIN before.nets, NEW p \in Pins, NEW d \in Pins,
              Share(before.on, p, d), before.on[p] = before.nets[i]
       PROVE  p \in bus'[i - 1]
    <2>1. Tri(p) /\ Tri(d)
        BY <1>4, <1>11 DEF ShortFree
    <2>2. on[p] = before.on[p] /\ on[d] = before.on[d] /\ p \in OldPins
        BY <1>6, <1>7, <1>8, <1>11, <2>1 DEF Share
    <2>3. Share(on, p, d) /\ on[p] = nets[i] /\ i \in DOMAIN nets
        BY <1>5, <1>11, <2>2 DEF Share
    <2>4. p \in bus[i - 1]
        BY <1>4, <2>3 DEF Registered
    <2>5. i - 1 \in Ids
        BY <1>4, <1>5, IdsSuffice DEF NetsNumbered, Ids
    <2> QED
        BY <1>9, <2>2, <2>4, <2>5
<1>12. Registered(nets', on', bus')
    BY <1>1, <1>9, <1>10, <1>11 DEF Registered
<1> QED
    BY <1>2, <1>3, <1>12, IdleKeeps DEF Records

-----------------------------------------------------------------------------
(* The invariant and what follows from it. *)

LEMMA InitKeeps == Init => IInv
<1> SUFFICES ASSUME Init PROVE IInv
    OBVIOUS
<1> USE DEF Init
<1>1. nets \in Seq(Nets) /\ DOMAIN nets = {} /\ comps \in Seq(Comps) /\ DOMAIN comps = {}
    BY EmptySeq
<1>2. Elements(nets) = {} /\ Elements(comps) = {}
    BY <1>1 DEF Elements
<1>3. NetsNumbered(nets, netId)
    <2>1. netId \in [Nets -> Ids]
        BY IdsSuffice
    <2> QED
        BY <1>1, <2>1 DEF NetsNumbered, Injective
<1>4. CompsNumbered(comps, compId)
    <2>1. 0 \in 0..LastId
        BY IdsSuffice, BoundAssumption DEF LastId
    <2> QED
        BY <1>1, <1>2, <2>1 DEF CompsNumbered, Injective
<1>5. WiredLive(nets, comps, on) /\ ShortFree(on)
    BY DEF WiredLive, ShortFree, Share
<1>6. Registered(nets, on, bus)
    BY <1>1 DEF Registered
<1>7. Expanding
    <2>1. Idle \in Expansions
        BY EmptySeq DEF Idle
    <2> QED
        BY <2>1 DEF Expanding, Settled
<1> QED
    BY <1>3, <1>4, <1>5, <1>6, <1>7 DEF IInv, Records, Sound

LEMMA EditKeeps ==
  ASSUME IInv, Edit
  PROVE  IInv'
<1> USE DEF IInv
<1>1. exp' = Idle /\ Records
    BY DEF Edit, Settled
<1>2. Records'
    <2>1. CASE \E n \in HostNets : CreateNet(n)
        BY <2>1, <1>1, CreateKeeps DEF HostNets
    <2>2. CASE \E c \in HostComps : AddComponent(c)
        BY <2>2, <1>1, AddKeeps DEF HostComps
    <2>3. CASE \E p \in LivePins, n \in LiveNets : Connect(p, n)
        BY <2>3, <1>1, ConnectKeeps
    <2>4. CASE (\E p \in LivePins : Disconnect({p})) \/ \E c \in LiveComps : Disconnect(PinsOn(c))
        <3>1. PICK P \in SUBSET Pins : Disconnect(P)
            BY <2>4 DEF LivePins, PinsOn
        <3> QED
            BY <3>1, <1>1, DisconnectKeeps
    <2>5. CASE \E c \in LiveComps : RemoveComponent(c)
        BY <2>5, <1>1, RemoveComponentKeeps
    <2>6. CASE \E n \in LiveNets : RemoveNet(n)
        BY <2>6, <1>1, RemoveNetKeeps
    <2>7. CASE RemoveAllNets
        BY <2>7, <1>1, RemoveAllKeeps
    <2> QED
        BY <2>1, <2>2, <2>3, <2>4, <2>5, <2>6, <2>7 DEF Edit
<1> QED
    BY <1>1, <1>2, IdleKeeps

LEMMA StutterKeeps ==
  ASSUME IInv, UNCHANGED vars
  PROVE  IInv'
<1>1. UNCHANGED <<nets, comps, netId, compId, on, bus, exp, before>>
    BY DEF vars, netlist
<1>2. Records'
    BY <1>1 DEF IInv, Records
<1>3. Snapshot => Snapshot'
    BY <1>1 DEF Snapshot, OldComps, OldPins
<1> QED
    BY <1>1, <1>2, <1>3 DEF IInv, Expanding, Settled

LEMMA StepKeeps == IInv /\ [Next]_vars => IInv'
<1> SUFFICES ASSUME IInv, [Next]_vars PROVE IInv'
    OBVIOUS
<1>1. CASE Prepare
    <2>1. exp' = Idle /\ Records'
        BY <1>1, PrepareKeeps DEF IInv, Prepare, Settled
    <2> QED
        BY <2>1, IdleKeeps DEF IInv
<1> QED
    BY <1>1, EditKeeps, BeginKeeps, ExpandNetKeeps, UnbindKeeps, ExpandPartKeeps, EndKeeps,
       FailureKeeps, StutterKeeps DEF Next

LEMMA Invariant == Spec => []IInv
BY InitKeeps, StepKeeps, PTL DEF Spec

\* No sequence of edits, expansions and failed expansions puts a plain output on a
\* net with another driver (connect, Circuit.cpp:205-273).
THEOREM NoShortEver == Spec => []NoShort
<1>1. IInv => NoShort
    <2> SUFFICES ASSUME IInv, NEW n \in LiveNets, NEW p \in Drivers(n), NEW d \in Drivers(n), p # d
                 PROVE  Tri(p) /\ Tri(d)
        BY DEF NoShort
    <2>1. n # None
        BY LiveIs, SeqDomain, HandlesAssumption DEF IInv, Records, Sound, NetsNumbered
    <2>2. p \in Pins /\ d \in Pins /\ Share(on, p, d)
        BY <2>1 DEF Drivers, LivePins, Share
    <2> QED
        BY <2>2 DEF IInv, Records, Sound, ShortFree
<1> QED
    BY <1>1, Invariant, PTL

\* Net ids are the places of the nets, and no two components share an id, after any
\* removals and expansions (Circuit.cpp:194-199, 380-428).
THEOREM IdsAlwaysIdentify == Spec => []IdsIdentify
<1>1. IInv => IdsIdentify
    <2> SUFFICES ASSUME IInv PROVE IdsIdentify
        OBVIOUS
    <2>1. NetsNumbered(nets, netId) /\ CompsNumbered(comps, compId)
        BY DEF IInv, Records, Sound
    <2>2. \A i \in DOMAIN comps : comps[i] \in Elements(comps)
        BY DEF Elements
    <2>3. \A i, j \in DOMAIN comps : compId[comps[i]] = compId[comps[j]] => i = j
        BY <2>1, <2>2 DEF CompsNumbered, Injective
    <2> QED
        BY <2>1, <2>3 DEF NetsNumbered, IdsIdentify
<1> QED
    BY <1>1, Invariant, PTL

\* The bus register is what check would find on the pins: every net with two
\* drivers with exactly those, and nothing that does not drive (Circuit.cpp:258-268).
THEOREM RegisterAlwaysCurrent == Spec => []RegisterIsCurrent
<1>1. IInv => RegisterIsCurrent
    <2> SUFFICES ASSUME IInv PROVE RegisterIsCurrent
        OBVIOUS
    <2>1. NetsNumbered(nets, netId) /\ WiredLive(nets, comps, on) /\ Registered(nets, on, bus)
        BY DEF IInv, Records, Sound
    <2>2. \A i \in Ids : i + 1 \notin DOMAIN nets => bus[i] = {}
        BY <2>1 DEF Registered
    <2>3. ASSUME NEW i \in Ids, i + 1 \in DOMAIN nets
          PROVE  bus[i] \subseteq Drivers(nets[i + 1])
        <3>1. nets[i + 1] # None
            BY <2>1, <2>3, SeqDomain, HandlesAssumption DEF NetsNumbered
        <3>2. \A p \in bus[i] : p \in Pins /\ Out(p) /\ on[p] = nets[i + 1]
            BY <2>1 DEF Registered
        <3> QED
            BY <2>1, <3>1, <3>2, LiveIs DEF Drivers, LivePins, WiredLive
    <2>4. ASSUME NEW i \in Ids, i + 1 \in DOMAIN nets, Cardinality(Drivers(nets[i + 1])) >= 2,
                 NEW p \in Drivers(nets[i + 1])
          PROVE  p \in bus[i]
        <3>1. PICK d \in Drivers(nets[i + 1]) : d # p
            BY <2>4, TwoDrivers
        <3>2. nets[i + 1] # None
            BY <2>1, <2>4, SeqDomain, HandlesAssumption DEF NetsNumbered
        <3>3. p \in Pins /\ d \in Pins /\ Share(on, p, d) /\ on[p] = nets[i + 1]
            BY <3>1, <3>2 DEF Drivers, LivePins, Share
        <3>4. (i + 1) - 1 = i
            BY DEF Ids
        <3> QED
            BY <2>1, <2>4, <3>3, <3>4 DEF Registered
    <2> QED
        BY <2>2, <2>3, <2>4 DEF RegisterIsCurrent
<1> QED
    BY <1>1, Invariant, PTL

\* A failed expansion leaves no trace, at whichever of its calls it fails
\* (expandComposites, Circuit.cpp:691-717): compile may be tried again.
THEOREM FailuresLeaveNoTrace == Spec => FailureLeavesNoTrace
<1>1. IInv /\ [Next]_vars =>
        [FailExpansion => /\ nets' = before.nets /\ comps' = before.comps /\ on' = before.on
                          /\ netId' = before.netId /\ compId' = before.compId]_vars
    BY FailureRestores
<1> QED
    BY <1>1, Invariant, PTL DEF Spec, FailureLeavesNoTrace

-----------------------------------------------------------------------------
(* The widths of nets. *)

\* w is the width of the widest pin on n.
Covers(f, n, w) == \A p \in Pins : f[p] = n => Width(p) <= w
IsWidth(f, n, w) == Covers(f, n, w) /\ (w = 0 \/ \E p \in Pins : f[p] = n /\ Width(p) = w)

\* A net may be as wide as a pin of the composite that has left it, while a part's
\* pin that is as wide is still to be tied to it.
Tied(parts, k, w) == \E i \in DOMAIN parts : \E j \in DOMAIN parts[i].ties :
    parts[i].ties[j][2] = k /\ Width(<<parts[i].comp, parts[i].ties[j][1]>>) >= w
Owed(n) ==
    /\ ~Settled /\ ~exp.bound /\ Covers(on, n, width[n])
    /\ \E k \in DOMAIN PinsOf[exp.comp] :
         /\ before.on[<<exp.comp, k>>] = n /\ k \notin Nets
         /\ Tied(exp.parts, k, width[n])
WidthsInv ==
    /\ width \in [Nets -> Nat]
    /\ \A n \in LiveNets : IsWidth(on, n, width[n]) \/ Owed(n)
    /\ ~Settled /\ exp.bound =>
         /\ exp.parts = Blueprints[exp.comp].parts
         /\ \A p \in PinsOn(exp.comp) : on[p] = before.on[p]

LEMMA WidthFacts == \A p \in Pins : Width(p) \in Nat
<1> SUFFICES ASSUME NEW p \in Pins PROVE Width(p) \in Nat
    OBVIOUS
<1>1. p[1] \in Comps /\ p[2] \in DOMAIN PinsOf[p[1]]
    BY DEF Pins
<1>2. PinsOf[p[1]][p[2]] \in [out : BOOLEAN, tri : BOOLEAN, width : Nat]
    BY <1>1, PinsAssumption, SeqDomain
<1> QED
    BY <1>2 DEF Width

\* By counting: a set of pins without a widest one has a smaller such set in it.
LEMMA WidthsBounded == \E b \in Nat : \A p \in Pins : Width(p) <= b
<1> DEFINE Unbounded(P) == \A b \in Nat : \E p \in P : ~(Width(p) <= b)
           T == {n \in Nat : \E P \in SUBSET Pins : Cardinality(P) = n /\ Unbounded(P)}
<1> SUFFICES ASSUME Unbounded(Pins) PROVE FALSE
    OBVIOUS
<1>1. Cardinality(Pins) \in T
    BY FinitePins, FS_CardinalityType
<1>2. PICK n \in T : \A m \in T : n <= m
    BY <1>1, NatMin
<1>3. PICK P \in SUBSET Pins : Cardinality(P) = n /\ Unbounded(P)
    BY <1>2
<1>4. PICK p \in P : ~(Width(p) <= 0)
    BY <1>3
<1>5. IsFiniteSet(P) /\ Cardinality(P \ {p}) = n - 1
    BY <1>3, <1>4, FinitePins, FS_Subset, FS_RemoveElement
<1>6. n \in Nat /\ n # 0
    BY <1>2, <1>3, <1>4, <1>5, FS_EmptySet
<1>7. n - 1 \in Nat /\ ~(n <= n - 1)
    BY <1>6
<1>8. ~Unbounded(P \ {p})
    <2>1. n - 1 \notin T
        BY <1>2, <1>7
    <2>2. P \ {p} \in SUBSET Pins
        BY <1>3
    <2> HIDE DEF Unbounded
    <2> QED
        BY <2>1, <2>2, <1>5, <1>7
<1>9. PICK b \in Nat : \A q \in P \ {p} : Width(q) <= b
    BY <1>8
<1>10. Width(p) \in Nat /\ \A q \in P : Width(q) \in Nat
    BY <1>3, <1>4, WidthFacts
<1> DEFINE c == IF b <= Width(p) THEN Width(p) ELSE b
<1>11. c \in Nat /\ Width(p) <= c /\ b <= c
    BY <1>10
<1>12. \A q \in P : Width(q) <= c
    <2> SUFFICES ASSUME NEW q \in P PROVE Width(q) <= c
        OBVIOUS
    <2>1. CASE q = p
        BY <2>1, <1>11
    <2>2. CASE q # p
        <3>1. Width(q) <= b /\ Width(q) \in Nat
            BY <2>2, <1>9, <1>10
        <3> HIDE DEF c
        <3> QED
            BY <3>1, <1>11
    <2> QED
        BY <2>1, <2>2
<1> HIDE DEF c
<1> QED
    BY <1>3, <1>11, <1>12

\* What recomputeNetWidths finds, among any pins that have those of the net.
LEMMA WidestIs ==
  ASSUME NEW f, NEW n, NEW P \in SUBSET Pins, \A p \in Pins : f[p] = n => p \in P
  PROVE  Widest(f, P, n) \in Nat /\ IsWidth(f, n, Widest(f, P, n))
<1> DEFINE R == {r \in P : f[r] = n}
           S == {0} \cup {Width(p) : p \in R}
<1>1. PICK b \in Nat : \A p \in Pins : Width(p) <= b
    BY WidthsBounded
<1>2. S \in SUBSET Nat /\ S # {} /\ \A x \in S : x <= b
    BY <1>1, WidthFacts
<1>3. Widest(f, P, n) = Max(S)
    BY DEF Widest
<1>4. \A p \in Pins : f[p] = n => Width(p) \in S
    OBVIOUS
<1>5. \A x \in S : x = 0 \/ \E p \in Pins : f[p] = n /\ Width(p) = x
    OBVIOUS
<1> HIDE DEF S
<1>6. Max(S) \in S /\ \A x \in S : x <= Max(S)
    BY <1>1, <1>2, MaxIs
<1> QED
    BY <1>2, <1>3, <1>4, <1>5, <1>6 DEF IsWidth, Covers

LEMMA OneWidth ==
  ASSUME NEW f, NEW n, NEW v \in Nat, NEW w \in Nat, IsWidth(f, n, v), IsWidth(f, n, w)
  PROVE  v = w
<1>1. v <= w
    <2>1. CASE v = 0
        BY <2>1
    <2>2. CASE v # 0
        BY <2>2 DEF IsWidth, Covers
    <2> QED
        BY <2>1, <2>2
<1>2. w <= v
    <2>1. CASE w = 0
        BY <2>1
    <2>2. CASE w # 0
        BY <2>2 DEF IsWidth, Covers
    <2> QED
        BY <2>1, <2>2
<1> QED
    BY <1>1, <1>2

\* Widths that were recomputed for the wiring f of pins P.
LEMMA RecomputedIs ==
  ASSUME NEW f, NEW P \in SUBSET Pins, \A p \in Pins : f[p] # None => p \in P, None \notin Nets
  PROVE  /\ Recomputed(f, P) \in [Nets -> Nat]
         /\ \A n \in LiveNets : n \in Nets => IsWidth(f, n, Recomputed(f, P)[n])
<1>1. \A n \in Nets : Widest(f, P, n) \in Nat /\ IsWidth(f, n, Widest(f, P, n))
    BY WidestIs
<1> QED
    BY <1>1 DEF Recomputed

\* Two wirings that agree on what is on a net.
LEMMA SameWidth ==
  ASSUME NEW f, NEW g, NEW n, NEW w, \A p \in Pins : f[p] = n <=> g[p] = n
  PROVE  (Covers(f, n, w) <=> Covers(g, n, w)) /\ (IsWidth(f, n, w) <=> IsWidth(g, n, w))
BY DEF Covers, IsWidth

\* A pin joins a net.
LEMMA JoinedWidth ==
  ASSUME NEW f \in [Pins -> Nets \cup {None}], NEW p \in Pins, NEW n \in Nets, NEW w \in Nat,
         f[p] \in {None, n}, Covers(f, n, w)
  PROVE  LET g == [f EXCEPT ![p] = n]
             v == IF Width(p) > w THEN Width(p) ELSE w
         IN  /\ v \in Nat /\ Covers(g, n, v)
             /\ IsWidth(f, n, w) \/ Width(p) >= w => IsWidth(g, n, v)
             /\ \A m \in Nets : m # n => \A q \in Pins : f[q] = m <=> g[q] = m
<1> DEFINE g == [f EXCEPT ![p] = n]
           v == IF Width(p) > w THEN Width(p) ELSE w
<1>1. g[p] = n /\ \A q \in Pins : q # p => g[q] = f[q]
    OBVIOUS
<1>2. Width(p) \in Nat /\ \A q \in Pins : Width(q) \in Nat
    BY WidthFacts
<1>3. v \in Nat /\ w <= v /\ Width(p) <= v /\ (v = w \/ v = Width(p)) /\ (Width(p) >= w => v = Width(p))
    BY <1>2
<1>4. n # None
    BY HandlesAssumption
<1> HIDE DEF g, v
<1>5. Covers(g, n, v)
    <2> SUFFICES ASSUME NEW q \in Pins, g[q] = n PROVE Width(q) <= v
        BY DEF Covers
    <2>1. CASE q = p
        BY <2>1, <1>3
    <2>2. CASE q # p
        <3>1. Width(q) <= w
            BY <2>2, <1>1 DEF Covers
        <3> QED
            BY <3>1, <1>2, <1>3
    <2> QED
        BY <2>1, <2>2
<1>6. ASSUME v = Width(p) PROVE IsWidth(g, n, v)
    BY <1>1, <1>5, <1>6 DEF IsWidth
<1>7. ASSUME v = w, IsWidth(f, n, w) PROVE IsWidth(g, n, v)
    <2>1. CASE w = 0
        BY <2>1, <1>5, <1>7 DEF IsWidth
    <2>2. CASE w # 0
        <3>1. PICK q \in Pins : f[q] = n /\ Width(q) = w
            BY <2>2, <1>7 DEF IsWidth
        <3>2. g[q] = n
            BY <3>1, <1>1
        <3> QED
            BY <3>1, <3>2, <1>5, <1>7 DEF IsWidth
    <2> QED
        BY <2>1, <2>2
<1>8. \A m \in Nets : m # n => \A q \in Pins : f[q] = m <=> g[q] = m
    <2> SUFFICES ASSUME NEW m \in Nets, m # n, NEW q \in Pins PROVE f[q] = m <=> g[q] = m
        OBVIOUS
    <2>1. m # None
        BY HandlesAssumption
    <2> QED
        BY <2>1, <1>1
<1> QED
    BY <1>3, <1>5, <1>6, <1>7, <1>8 DEF g, v

-----------------------------------------------------------------------------
(* The operations, and the widths. *)

LEMMA LiveFacts ==
  ASSUME Records
  PROVE  /\ LiveNets \subseteq Nets /\ None \notin Nets /\ LivePins \subseteq Pins
         /\ \A p \in Pins : on[p] # None => p \in LivePins /\ on[p] \in LiveNets
         /\ on \in [Pins -> Nets \cup {None}]
BY LiveIs, SeqDomain, HandlesAssumption DEF Records, Sound, NetsNumbered, WiredLive, LivePins

\* Every width is that of the widest pin.
Exact == \A n \in LiveNets : IsWidth(on, n, width[n])

LEMMA CreateWidths ==
  ASSUME Records, NEW n \in Nets, CreateNet(n), width \in [Nets -> Nat]
  PROVE  /\ width' \in [Nets -> Nat] /\ LiveNets' = LiveNets \cup {n} /\ on' = on
         /\ n \notin LiveNets /\ IsWidth(on, n, width'[n])
         /\ \A m \in LiveNets : width'[m] = width[m]
<1>1. n \notin LiveNets /\ nets' = Append(nets, n) /\ width' = [width EXCEPT ![n] = 0] /\ on' = on
    BY DEF CreateNet
<1>2. LiveNets' = LiveNets \cup {n}
    <2>1. nets \in Seq(Nets) /\ Injective(nets)
        BY DEF Records, Sound, NetsNumbered
    <2>2. Elements(nets') = Elements(nets) \cup {n}
        BY <1>1, <2>1, AppendNew, LiveIs
    <2> QED
        BY <2>2 DEF LiveNets, Elements
<1>3. \A p \in Pins : on[p] # n
    BY <1>1, LiveFacts
<1>4. IsWidth(on, n, 0)
    BY <1>3 DEF IsWidth, Covers
<1> QED
    BY <1>1, <1>2, <1>4, LiveFacts

\* Either every width is recomputed, or only that of the net joined changes.
LEMMA ConnectWidths ==
  ASSUME Records, NEW p, NEW n, Connect(p, n), width \in [Nets -> Nat]
  PROVE  /\ width' \in [Nets -> Nat] /\ LiveNets' = LiveNets /\ n \in LiveNets
         /\ \A m \in LiveNets :
              \/ IsWidth(on', m, width'[m])
              \/ /\ m # n /\ width'[m] = width[m] /\ ~IsWidth(on, m, width[m])
                 /\ Covers(on, m, width[m]) => Covers(on', m, width[m])
              \/ /\ m = n /\ ~IsWidth(on, n, width[n])
                 /\ Covers(on, n, width[n]) =>
                      /\ Covers(on', n, width[n]) /\ width'[n] = width[n]
                      /\ ~(Width(p) >= width[n])
<1> DEFINE v == IF on[p] \notin {None, n} THEN Recomputed(Unwired({p}), LivePins) ELSE width
           f == IF on[p] \notin {None, n} THEN Unwired({p}) ELSE on
<1>1. /\ p \in LivePins /\ n \in LiveNets /\ on' = [on EXCEPT ![p] = n] /\ nets' = nets
      /\ width' = [v EXCEPT ![n] = IF Width(p) > @ THEN Width(p) ELSE @]
    BY DEF Connect
<1>2. LiveNets' = LiveNets /\ n \in Nets /\ p \in Pins
    BY <1>1, LiveFacts DEF LiveNets
<1>3. f \in [Pins -> Nets \cup {None}] /\ on' = [f EXCEPT ![p] = n] /\ f[p] \in {None, n}
      /\ \A q \in Pins : f[q] # None => q \in LivePins
    <2>1. CASE on[p] \notin {None, n}
        <3>1. /\ Unwired({p}) \in [Pins -> Nets \cup {None}] /\ Unwired({p})[p] = None
              /\ \A q \in Pins : q # p => Unwired({p})[q] = on[q]
            BY <1>2, LiveFacts DEF Unwired
        <3>2. on' = [Unwired({p}) EXCEPT ![p] = n]
            BY <1>1, <1>2, <3>1, LiveFacts
        <3> QED
            BY <2>1, <3>1, <3>2, LiveFacts
    <2>2. CASE on[p] \in {None, n}
        BY <2>2, <1>1, LiveFacts
    <2> QED
        BY <2>1, <2>2
<1>4. v \in [Nets -> Nat]
    <2>1. CASE on[p] \notin {None, n}
        BY <2>1, <1>3, RecomputedIs, LiveFacts
    <2> QED
        BY <2>1
<1>5. on[p] \notin {None, n} => \A m \in LiveNets : IsWidth(f, m, v[m])
    BY <1>3, RecomputedIs, LiveFacts
<1>6. on[p] \in {None, n} => f = on /\ v = width
    OBVIOUS
<1> HIDE DEF v, f
<1>7. Width(p) \in Nat /\ v[n] \in Nat
    BY <1>2, <1>4, WidthFacts
<1>8. width' \in [Nets -> Nat] /\ width'[n] = IF Width(p) > v[n] THEN Width(p) ELSE v[n]
    BY <1>1, <1>2, <1>4, <1>7
<1>9. \A m \in LiveNets : m # n => width'[m] = v[m]
    BY <1>1, <1>4, LiveFacts
<1>10. ASSUME NEW m \in LiveNets, m # n
       PROVE  \A w \in Nat : /\ IsWidth(f, m, w) <=> IsWidth(on', m, w)
                             /\ Covers(f, m, w) <=> Covers(on', m, w)
    <2>1. \A q \in Pins : f[q] = m <=> on'[q] = m
        <3>1. m \in Nets /\ m # None
            BY LiveFacts
        <3> QED
            BY <1>2, <1>3, <1>10, <3>1
    <2> QED
        BY <2>1, SameWidth
<1>11. Covers(f, n, v[n]) => /\ Covers(on', n, width'[n])
                             /\ IsWidth(f, n, v[n]) \/ Width(p) >= v[n] => IsWidth(on', n, width'[n])
    <2> SUFFICES ASSUME Covers(f, n, v[n])
                 PROVE  /\ Covers(on', n, width'[n])
                        /\ IsWidth(f, n, v[n]) \/ Width(p) >= v[n] => IsWidth(on', n, width'[n])
        OBVIOUS
    <2> DEFINE g == [f EXCEPT ![p] = n]
               u == IF Width(p) > v[n] THEN Width(p) ELSE v[n]
    <2>1. Covers(g, n, u) /\ (IsWidth(f, n, v[n]) \/ Width(p) >= v[n] => IsWidth(g, n, u))
        BY <1>2, <1>3, <1>7, JoinedWidth
    <2>2. g = on' /\ u = width'[n]
        BY <1>3, <1>8
    <2> HIDE DEF g, u
    <2> QED
        BY <2>1, <2>2
<1>12. ASSUME NEW m \in LiveNets, m # n, ~IsWidth(on', m, width'[m])
       PROVE  /\ width'[m] = width[m] /\ ~IsWidth(on, m, width[m])
              /\ Covers(on, m, width[m]) => Covers(on', m, width[m])
    <2>1. v[m] \in Nat
        BY <1>4, LiveFacts
    <2>2. ~IsWidth(f, m, v[m])
        BY <1>9, <1>10, <1>12, <2>1
    <2>3. f = on /\ v = width
        BY <1>5, <1>6, <2>2
    <2> QED
        BY <1>9, <1>10, <1>12, <2>1, <2>2, <2>3
<1>13. ASSUME ~IsWidth(on', n, width'[n])
       PROVE  /\ ~IsWidth(on, n, width[n])
              /\ Covers(on, n, width[n]) =>
                   /\ Covers(on', n, width[n]) /\ width'[n] = width[n]
                   /\ ~(Width(p) >= width[n])
    <2>1. IsWidth(f, n, v[n]) => Covers(f, n, v[n])
        BY DEF IsWidth
    <2>2. ~IsWidth(f, n, v[n])
        BY <1>11, <1>13, <2>1
    <2>3. f = on /\ v = width
        BY <1>1, <1>5, <1>6, <2>2
    <2>4. ASSUME Covers(on, n, width[n])
          PROVE  ~(Width(p) >= width[n]) /\ width'[n] = width[n] /\ Covers(on', n, width[n])
        <3>1. ~(Width(p) >= width[n]) /\ Covers(on', n, width'[n])
            BY <1>11, <1>13, <2>3, <2>4
        <3>2. ~(Width(p) > width[n])
            BY <3>1, <1>7, <2>3
        <3> QED
            BY <3>1, <3>2, <1>8, <2>3
    <2> QED
        BY <2>2, <2>3, <2>4
<1> QED
    BY <1>1, <1>2, <1>8, <1>12, <1>13

LEMMA ConnectExact ==
  ASSUME Records, NEW p, NEW n, Connect(p, n), width \in [Nets -> Nat], Exact
  PROVE  width' \in [Nets -> Nat] /\ Exact'
<1>1. /\ width' \in [Nets -> Nat] /\ LiveNets' = LiveNets
      /\ \A m \in LiveNets : IsWidth(on', m, width'[m])
    BY ConnectWidths DEF Exact
<1> QED
    BY <1>1 DEF Exact, IsWidth, Covers

LEMMA DisconnectExact ==
  ASSUME Records, NEW P \in SUBSET Pins, Disconnect(P)
  PROVE  width' \in [Nets -> Nat] /\ Exact'
<1>1. /\ on' = Unwired(P) /\ width' = Recomputed(Unwired(P), LivePins) /\ nets' = nets
    BY DEF Disconnect
<1>2. \A p \in Pins : Unwired(P)[p] # None => p \in LivePins
    BY LiveFacts DEF Unwired
<1>3. /\ width' \in [Nets -> Nat] /\ LiveNets' = LiveNets
      /\ \A m \in LiveNets : IsWidth(on', m, width'[m])
    BY <1>1, <1>2, RecomputedIs, LiveFacts DEF LiveNets
<1> QED
    BY <1>3 DEF Exact, IsWidth, Covers

LEMMA RemoveComponentExact ==
  ASSUME Records, NEW c, RemoveComponent(c)
  PROVE  width' \in [Nets -> Nat] /\ Exact'
<1> DEFINE P == PinsOn(c)
<1>1. /\ on' = Unwired(P) /\ width' = Recomputed(Unwired(P), LivePins \ P) /\ nets' = nets
    BY DEF RemoveComponent
<1>2. P \subseteq Pins
    BY DEF PinsOn
<1> HIDE DEF P
<1>3. \A p \in Pins : Unwired(P)[p] # None => p \in LivePins \ P
    BY LiveFacts DEF Unwired
<1>4. LivePins \ P \in SUBSET Pins
    BY LiveFacts
<1>5. /\ width' \in [Nets -> Nat] /\ LiveNets' = LiveNets
      /\ \A m \in LiveNets : IsWidth(on', m, width'[m])
    BY <1>1, <1>3, <1>4, RecomputedIs, LiveFacts DEF LiveNets
<1> QED
    BY <1>5 DEF Exact, IsWidth, Covers

LEMMA RemoveNetExact ==
  ASSUME Records, NEW n, RemoveNet(n)
  PROVE  width' \in [Nets -> Nat] /\ Exact'
<1>1. PICK k \in DOMAIN nets :
        /\ nets[k] = n /\ nets' = Without(nets, k)
        /\ on' = [p \in Pins |-> IF on[p] = n THEN None ELSE on[p]]
        /\ width' = [Recomputed(on, LivePins) EXCEPT ![n] = 0]
    BY DEF RemoveNet
<1>2. nets \in Seq(Nets) /\ Injective(nets)
    BY DEF Records, Sound, NetsNumbered
<1>3. LiveNets' = LiveNets \ {n}
    <2>1. Elements(nets') = Elements(nets) \ {n}
        BY <1>1, <1>2, WithoutOne
    <2> QED
        BY <2>1 DEF LiveNets, Elements
<1>4. /\ Recomputed(on, LivePins) \in [Nets -> Nat]
      /\ \A m \in LiveNets : IsWidth(on, m, Recomputed(on, LivePins)[m])
    BY RecomputedIs, LiveFacts
<1>5. width' \in [Nets -> Nat] /\ \A m \in LiveNets' : width'[m] = Recomputed(on, LivePins)[m]
    BY <1>1, <1>3, <1>4, LiveFacts
<1>6. ASSUME NEW m \in LiveNets' PROVE \A p \in Pins : on[p] = m <=> on'[p] = m
    BY <1>1, <1>3, LiveFacts
<1>7. \A m \in LiveNets' : IsWidth(on', m, width'[m])
    BY <1>3, <1>4, <1>5, <1>6, SameWidth
<1> QED
    BY <1>5, <1>7 DEF Exact, IsWidth, Covers

-----------------------------------------------------------------------------
(* The steps, and the widths. *)

LEMMA SettledExact ==
  ASSUME WidthsInv, Settled
  PROVE  width \in [Nets -> Nat] /\ Exact
BY DEF WidthsInv, Owed, Exact

LEMMA ExactSettles ==
  ASSUME width' \in [Nets -> Nat], Exact', Settled'
  PROVE  WidthsInv'
BY DEF WidthsInv, Exact

LEMMA EditWidths ==
  ASSUME IInv, WidthsInv, Edit
  PROVE  WidthsInv'
<1>1. Records /\ Settled /\ Settled' /\ width \in [Nets -> Nat] /\ Exact
    BY SettledExact DEF IInv, Edit, Settled
<1>2. width' \in [Nets -> Nat] /\ Exact'
    <2>1. ASSUME NEW n \in HostNets, CreateNet(n) PROVE width' \in [Nets -> Nat] /\ Exact'
        <3>1. n \in Nets
            BY DEF HostNets
        <3>2. /\ width' \in [Nets -> Nat] /\ LiveNets' = LiveNets \cup {n} /\ on' = on
              /\ IsWidth(on, n, width'[n]) /\ \A m \in LiveNets : width'[m] = width[m]
            BY <1>1, <2>1, <3>1, CreateWidths
        <3>3. \A m \in LiveNets' : IsWidth(on, m, width'[m])
            BY <1>1, <3>2 DEF Exact
        <3> QED
            BY <3>2, <3>3 DEF Exact, IsWidth, Covers
    <2>2. ASSUME NEW c \in HostComps, AddComponent(c) PROVE width' \in [Nets -> Nat] /\ Exact'
        <3>1. UNCHANGED <<nets, on, width>>
            BY <2>2 DEF AddComponent, wiring
        <3> QED
            BY <1>1, <3>1 DEF Exact, IsWidth, Covers, LiveNets
    <2>3. CASE \E p \in LivePins, n \in LiveNets : Connect(p, n)
        BY <2>3, <1>1, ConnectExact
    <2>4. CASE (\E p \in LivePins : Disconnect({p})) \/ \E c \in LiveComps : Disconnect(PinsOn(c))
        <3>1. PICK P \in SUBSET Pins : Disconnect(P)
            BY <2>4 DEF LivePins, PinsOn
        <3> QED
            BY <3>1, <1>1, DisconnectExact
    <2>5. CASE \E c \in LiveComps : RemoveComponent(c)
        BY <2>5, <1>1, RemoveComponentExact
    <2>6. CASE \E n \in LiveNets : RemoveNet(n)
        BY <2>6, <1>1, RemoveNetExact
    <2>7. CASE RemoveAllNets
        <3>1. nets' = <<>> /\ width' = [n \in Nets |-> 0]
            BY <2>7 DEF RemoveAllNets
        <3>2. LiveNets' = {}
            BY <3>1 DEF LiveNets
        <3> QED
            BY <3>1, <3>2 DEF Exact
    <2> QED
        BY <2>1, <2>2, <2>3, <2>4, <2>5, <2>6, <2>7 DEF Edit
<1> QED
    BY <1>1, <1>2, ExactSettles

LEMMA BeginWidths ==
  ASSUME IInv, WidthsInv, BeginExpansion
  PROVE  WidthsInv'
<1>1. width \in [Nets -> Nat] /\ Exact
    BY SettledExact DEF BeginExpansion
<1>2. /\ UNCHANGED <<nets, on, width>> /\ before'.on = on'
      /\ exp'.parts = Blueprints[exp'.comp].parts
    BY DEF BeginExpansion, netlist
<1>3. LiveNets' = LiveNets
    BY <1>2 DEF LiveNets
<1>4. \A n \in LiveNets' : IsWidth(on', n, width'[n])
    BY <1>1, <1>2, <1>3 DEF Exact
<1>5. \A n : IsWidth(on, n, width[n]) <=> IsWidth(on, n, width[n])'
    BY <1>2 DEF IsWidth, Covers
<1> QED
    BY <1>1, <1>2, <1>4, <1>5 DEF WidthsInv

\* A net that is owed a width is so while what it is owed is still to come.
LEMMA OwedKeeps ==
  ASSUME NEW n, Owed(n), ~Settled', ~exp'.bound, exp'.comp = exp.comp, before' = before,
         width'[n] = width[n], Covers(on', n, width[n]),
         \A k : k \notin Nets /\ before.on[<<exp.comp, k>>] = n /\ Tied(exp.parts, k, width[n])
                => Tied(exp'.parts, k, width[n])
  PROVE  Owed(n)'
BY DEF Owed, Tied, Covers

LEMMA ExpandNetWidths ==
  ASSUME IInv, WidthsInv, ExpandNet
  PROVE  WidthsInv'
<1>1. /\ exp.nets # <<>> /\ CreateNet(Head(exp.nets)) /\ before' = before
      /\ exp' = [exp EXCEPT !.nets = Tail(@)]
    BY DEF ExpandNet
<1>2. Head(exp.nets) \in Nets /\ Records /\ exp \in Expansions /\ width \in [Nets -> Nat]
    BY <1>1, ExpIs, HeadTailProperties DEF IInv, Expanding, WidthsInv
<1> DEFINE n == Head(exp.nets)
<1>3. /\ width' \in [Nets -> Nat] /\ LiveNets' = LiveNets \cup {n} /\ on' = on
      /\ IsWidth(on, n, width'[n]) /\ \A m \in LiveNets : width'[m] = width[m]
    BY <1>1, <1>2, CreateWidths
<1> HIDE DEF n
<1>4. exp'.comp = exp.comp /\ exp'.bound = exp.bound /\ exp'.parts = exp.parts
    BY <1>1, <1>2
<1>5. ~Settled /\ ~Settled'
    <2>1. ~Settled
        BY <1>1 DEF Settled, Idle
    <2>2. exp.comp # None
        BY <2>1, HandlesAssumption DEF IInv, Expanding, Snapshot, OldComps, Sound, CompsNumbered
    <2> QED
        BY <2>1, <2>2, <1>4 DEF Settled, Idle
<1>6. ASSUME NEW m \in LiveNets' PROVE IsWidth(on', m, width'[m]) \/ Owed(m)'
    <2>1. CASE m = n
        BY <2>1, <1>3
    <2>2. CASE m # n
        <3>1. m \in LiveNets /\ width'[m] = width[m]
            BY <2>2, <1>3
        <3>2. CASE IsWidth(on, m, width[m])
            BY <3>1, <3>2, <1>3
        <3>3. CASE Owed(m)
            <4>1. Covers(on', m, width[m]) /\ ~exp.bound
                BY <3>3, <1>3 DEF Owed
            <4> QED
                BY <3>1, <3>3, <4>1, <1>1, <1>4, <1>5, OwedKeeps
        <3> QED
            BY <3>1, <3>2, <3>3 DEF WidthsInv
    <2> QED
        BY <2>1, <2>2
<1>7. \A m : IsWidth(on', m, width'[m]) <=> IsWidth(on, m, width[m])'
    BY DEF IsWidth, Covers
<1>8. exp'.bound => /\ exp'.parts = Blueprints[exp'.comp].parts
                    /\ \A p \in PinsOn(exp'.comp) : on'[p] = before'.on[p]
    BY <1>1, <1>3, <1>4, <1>5 DEF WidthsInv
<1> QED
    BY <1>3, <1>6, <1>7, <1>8 DEF WidthsInv, PinsOn

\* The nets the composite's pins leave are owed their widths.
LEMMA UnbindWidths ==
  ASSUME IInv, WidthsInv, UnbindPins, PartsAreAsWide
  PROVE  WidthsInv'
<1>1. /\ ~Settled /\ exp.bound /\ on' = Unwired(PinsOn(exp.comp))
      /\ exp' = [exp EXCEPT !.bound = FALSE] /\ UNCHANGED <<nets, width, before>>
    BY DEF UnbindPins
<1>2. /\ Snapshot /\ Records /\ exp \in Expansions /\ exp.comp \in Composites
    BY <1>1 DEF IInv, Expanding, Snapshot
<1>3. exp'.comp = exp.comp /\ ~exp'.bound /\ exp'.parts = exp.parts
    BY <1>1, <1>2
<1>4. exp.comp \in Comps /\ exp.comp # None /\ ~Settled'
    <2>1. exp.comp \in Comps /\ exp.comp # None
        BY <1>2, CompositesAssumption, HandlesAssumption
    <2> QED
        BY <2>1, <1>3 DEF Settled, Idle
<1>5. /\ width \in [Nets -> Nat] /\ LiveNets' = LiveNets
      /\ exp.parts = Blueprints[exp.comp].parts
      /\ \A p \in PinsOn(exp.comp) : on[p] = before.on[p]
      /\ \A n \in LiveNets : IsWidth(on, n, width[n])
    BY <1>1 DEF WidthsInv, Owed, LiveNets
<1>6. \A p \in Pins : on'[p] = IF p[1] = exp.comp THEN None ELSE on[p]
    BY <1>1 DEF Unwired, PinsOn
<1>7. ASSUME NEW k \in DOMAIN PinsOf[exp.comp]
      PROVE  k \notin Nets /\ Tied(exp.parts, k, Width(<<exp.comp, k>>))
    <2> DEFINE parts == Blueprints[exp.comp].parts
    <2>1. PICK i \in DOMAIN parts : \E j \in DOMAIN parts[i].ties :
            /\ parts[i].ties[j][2] = k /\ k \notin Nets
            /\ Width(<<parts[i].comp, parts[i].ties[j][1]>>) >= Width(<<exp.comp, k>>)
        BY <1>2, Zenon DEF PartsAreAsWide
    <2>2. parts = exp.parts
        BY <1>5
    <2> HIDE DEF parts
    <2>3. k \notin Nets /\ Tied(parts, k, Width(<<exp.comp, k>>))
        BY <2>1 DEF Tied
    <2> QED
        BY <2>2, <2>3
<1>8. ASSUME NEW n \in LiveNets PROVE IsWidth(on', n, width[n]) \/ Owed(n)'
    <2>1. n \in Nets /\ n # None
        BY <1>2, LiveFacts
    <2>2. Covers(on', n, width[n])
        BY <1>5, <1>6, <2>1 DEF IsWidth, Covers
    <2>3. CASE width[n] = 0 \/ \E p \in Pins : p[1] # exp.comp /\ on[p] = n /\ Width(p) = width[n]
        BY <2>2, <2>3, <1>6 DEF IsWidth
    <2>4. CASE \E p \in Pins : p[1] = exp.comp /\ on[p] = n /\ Width(p) = width[n]
        <3>1. PICK p \in Pins : p[1] = exp.comp /\ on[p] = n /\ Width(p) = width[n]
            BY <2>4
        <3> DEFINE k == p[2]
        <3>2. p = <<exp.comp, k>> /\ k \in DOMAIN PinsOf[exp.comp]
            BY <3>1 DEF Pins
        <3>3. before.on[<<exp.comp, k>>] = n
            BY <1>5, <3>1, <3>2 DEF PinsOn
        <3>4. k \notin Nets /\ Tied(exp.parts, k, width[n])
            <4>1. k \notin Nets /\ Tied(exp.parts, k, Width(<<exp.comp, k>>))
                BY <1>7, <3>2
            <4>2. Width(<<exp.comp, k>>) = width[n]
                BY <3>1, <3>2
            <4> HIDE DEF k
            <4> QED
                BY <4>1, <4>2
        <3> HIDE DEF k
        <3>5. (~Settled /\ ~exp.bound)' /\ Covers(on, n, width[n])'
            BY <1>1, <1>3, <1>4, <2>2 DEF Covers
        <3>6. Tied(exp.parts, k, width[n])'
            BY <1>1, <1>3, <3>4 DEF Tied
        <3> QED
            BY <1>1, <1>3, <3>2, <3>3, <3>4, <3>5, <3>6 DEF Owed
    <2> QED
        BY <2>3, <2>4, <1>5 DEF IsWidth
<1>9. \A n : IsWidth(on', n, width[n]) <=> IsWidth(on, n, width[n])'
    BY <1>1 DEF IsWidth, Covers
<1> QED
    BY <1>1, <1>3, <1>5, <1>8, <1>9 DEF WidthsInv

\* What is to be tied is tied now, or later.
LEMMA TiesLeft ==
  ASSUME NEW parts \in Seq(Part), parts # <<>>, NEW k, NEW w, Tied(parts, k, w)
  PROVE  LET part == Head(parts)
             less == <<[part EXCEPT !.ties = Tail(@)]>> \o Tail(parts)
         IN  /\ part.ties = <<>> => Tied(Tail(parts), k, w)
             /\ part.ties # <<>> =>
                  \/ Tied(less, k, w)
                  \/ Head(part.ties)[2] = k /\ Width(<<part.comp, Head(part.ties)[1]>>) >= w
<1> DEFINE part == Head(parts)
           new == [part EXCEPT !.ties = Tail(@)]
           rest == Tail(parts)
           less == <<new>> \o rest
<1>1. /\ part \in Part /\ rest \in Seq(Part) /\ Len(rest) = Len(parts) - 1
      /\ \A i \in 1..Len(rest) : rest[i] = parts[i + 1]
    BY HeadTailProperties
<1>2. /\ DOMAIN parts = 1..Len(parts) /\ Len(parts) \in Nat /\ Len(parts) # 0
      /\ DOMAIN rest = 1..Len(rest) /\ part = parts[1]
    BY <1>1, SeqDomain, EmptySeq
<1>3. part.ties \in Seq(Nat \X (Nets \cup Nat))
    BY <1>1 DEF Part
<1> HIDE DEF part, rest
<1>4. PICK i \in DOMAIN parts : \E j \in DOMAIN parts[i].ties :
        parts[i].ties[j][2] = k /\ Width(<<parts[i].comp, parts[i].ties[j][1]>>) >= w
    BY DEF Tied
<1>5. CASE i # 1
    <2>1. i - 1 \in DOMAIN rest /\ rest[i - 1] = parts[i]
        BY <1>1, <1>2, <1>5
    <2>2. Tied(rest, k, w)
        BY <1>4, <2>1 DEF Tied
    <2>3. ASSUME part.ties # <<>> PROVE Tied(less, k, w)
        <3>1. Tail(part.ties) \in Seq(Nat \X (Nets \cup Nat))
            BY <1>3, <2>3, HeadTailProperties
        <3>2. new \in Part
            BY <1>1, <3>1 DEF Part
        <3> HIDE DEF new
        <3>3. <<new>> \in Seq(Part) /\ Len(<<new>>) = 1
            BY <3>2
        <3>4. /\ Len(less) = 1 + Len(rest) /\ less \in Seq(Part)
              /\ \A a \in 1..(1 + Len(rest)) : less[a] = IF a <= 1 THEN <<new>>[a] ELSE rest[a - 1]
            BY <1>1, <3>3, ConcatProperties
        <3> HIDE DEF less
        <3>5. i \in DOMAIN less /\ less[i] = rest[i - 1]
            BY <3>4, <1>1, <1>2, <1>5, <2>1, SeqDomain
        <3> QED
            BY <1>4, <2>1, <3>5 DEF Tied
    <2> QED
        BY <2>2, <2>3 DEF part, rest
<1>6. CASE i = 1
    <2>1. PICK j \in DOMAIN part.ties :
            part.ties[j][2] = k /\ Width(<<part.comp, part.ties[j][1]>>) >= w
        BY <1>2, <1>4, <1>6
    <2>2. /\ DOMAIN part.ties = 1..Len(part.ties) /\ Len(part.ties) \in Nat /\ part.ties # <<>>
        BY <1>3, <2>1, SeqDomain, EmptySeq
    <2>3. CASE j = 1
        <3>1. Head(part.ties) = part.ties[1]
            BY <1>3, <2>2, HeadTailProperties
        <3> QED
            BY <2>1, <2>2, <2>3, <3>1 DEF part
    <2>4. CASE j # 1
        <3>1. /\ Tail(part.ties) \in Seq(Nat \X (Nets \cup Nat))
              /\ Len(Tail(part.ties)) = Len(part.ties) - 1
              /\ \A a \in 1..Len(Tail(part.ties)) : Tail(part.ties)[a] = part.ties[a + 1]
            BY <1>3, <2>2, HeadTailProperties
        <3>2. j - 1 \in DOMAIN Tail(part.ties) /\ Tail(part.ties)[j - 1] = part.ties[j]
            BY <2>2, <2>4, <3>1, SeqDomain
        <3>3. new \in Part /\ new.ties = Tail(part.ties) /\ new.comp = part.comp
            BY <1>1, <3>1 DEF Part
        <3> HIDE DEF new
        <3>4. <<new>> \in Seq(Part) /\ Len(<<new>>) = 1 /\ <<new>>[1] = new
            BY <3>3
        <3>5. /\ Len(less) = 1 + Len(rest) /\ less \in Seq(Part)
              /\ \A a \in 1..(1 + Len(rest)) : less[a] = IF a <= 1 THEN <<new>>[a] ELSE rest[a - 1]
            BY <1>1, <3>4, ConcatProperties
        <3> HIDE DEF less
        <3>6. 1 \in DOMAIN less /\ less[1] = new
            BY <3>4, <3>5, <1>1, <1>2, SeqDomain
        <3>7. Tied(less, k, w)
            BY <2>1, <3>2, <3>3, <3>6 DEF Tied
        <3> QED
            BY <2>2, <3>7 DEF part, rest, less, new
    <2> QED
        BY <2>3, <2>4
<1> QED
    BY <1>5, <1>6

LEMMA ExpandPartWidths ==
  ASSUME IInv, WidthsInv, ExpandPart
  PROVE  WidthsInv'
<1> DEFINE part == Head(exp.parts)
           tie == Head(part.ties)
           less == <<[part EXCEPT !.ties = Tail(@)]>> \o Tail(exp.parts)
<1>1. ~Settled /\ ~exp.bound /\ exp.parts # <<>> /\ before' = before
    BY DEF ExpandPart
<1>2. /\ Snapshot /\ Records /\ exp \in Expansions /\ exp.parts \in Seq(Part)
      /\ width \in [Nets -> Nat]
      /\ \A n \in LiveNets : IsWidth(on, n, width[n]) \/ Owed(n)
    BY <1>1, ExpIs DEF IInv, Expanding, WidthsInv
<1>3. exp.comp # None
    BY <1>2, CompositesAssumption, HandlesAssumption DEF Snapshot
<1>4. /\ exp'.comp = exp.comp /\ ~exp'.bound /\ ~Settled'
      /\ \/ exp'.parts = exp.parts /\ AddComponent(part.comp)
         \/ exp'.parts = Tail(exp.parts) /\ part.ties = <<>> /\ UNCHANGED netlist
         \/ exp'.parts = less /\ part.ties # <<>> /\ Connect(<<part.comp, tie[1]>>, Target(tie[2]))
    <2>1. \/ exp' = exp /\ AddComponent(part.comp)
          \/ exp' = [exp EXCEPT !.parts = Tail(@)] /\ part.ties = <<>> /\ UNCHANGED netlist
          \/ /\ exp' = [exp EXCEPT !.parts = less] /\ part.ties # <<>>
             /\ Connect(<<part.comp, tie[1]>>, Target(tie[2]))
        BY DEF ExpandPart
    <2> HIDE DEF part, tie, less
    <2>2. ASSUME NEW s, exp' = [exp EXCEPT !.parts = s]
          PROVE  exp'.comp = exp.comp /\ exp'.bound = exp.bound /\ exp'.parts = s
        BY <1>2, <2>2
    <2>3. /\ exp'.comp = exp.comp /\ exp'.bound = exp.bound
          /\ \/ exp'.parts = exp.parts /\ AddComponent(part.comp)
             \/ exp'.parts = Tail(exp.parts) /\ part.ties = <<>> /\ UNCHANGED netlist
             \/ exp'.parts = less /\ part.ties # <<>> /\ Connect(<<part.comp, tie[1]>>, Target(tie[2]))
        <3>1. CASE exp' = exp /\ AddComponent(part.comp)
            BY <3>1
        <3>2. CASE exp' = [exp EXCEPT !.parts = Tail(@)] /\ part.ties = <<>> /\ UNCHANGED netlist
            BY <3>2, <2>2
        <3>3. CASE /\ exp' = [exp EXCEPT !.parts = less] /\ part.ties # <<>>
                   /\ Connect(<<part.comp, tie[1]>>, Target(tie[2]))
            BY <3>3, <2>2
        <3> QED
            BY <2>1, <3>1, <3>2, <3>3
    <2>4. ~Settled'
        BY <1>3, <2>3 DEF Settled, Idle
    <2> QED
        BY <1>1, <2>3, <2>4
<1>5. ASSUME NEW k, NEW w, Tied(exp.parts, k, w)
      PROVE  \/ Tied(exp'.parts, k, w)
             \/ /\ Connect(<<part.comp, tie[1]>>, Target(tie[2]))
                /\ tie[2] = k /\ Width(<<part.comp, tie[1]>>) >= w
    <2>1. /\ part.ties = <<>> => Tied(Tail(exp.parts), k, w)
          /\ part.ties # <<>> =>
               Tied(less, k, w) \/ (tie[2] = k /\ Width(<<part.comp, tie[1]>>) >= w)
        BY <1>1, <1>2, <1>5, TiesLeft
    <2> HIDE DEF part, tie, less
    <2> QED
        BY <1>4, <1>5, <2>1
<1> HIDE DEF part, less, tie
<1>6. \A m : IsWidth(on', m, width'[m]) <=> IsWidth(on, m, width[m])'
    BY DEF IsWidth, Covers
<1>7. CASE UNCHANGED <<nets, on, width>> /\ ~Connect(<<part.comp, tie[1]>>, Target(tie[2]))
    <2>1. LiveNets' = LiveNets
        BY <1>7 DEF LiveNets
    <2>2. ASSUME NEW m \in LiveNets, Owed(m) PROVE Owed(m)'
        <3>1. Covers(on', m, width[m])
            BY <1>7, <2>2 DEF Owed
        <3> QED
            BY <1>1, <1>4, <1>5, <1>7, <2>2, <3>1, OwedKeeps
    <2>3. \A m \in LiveNets : IsWidth(on', m, width'[m]) \/ Owed(m)'
        BY <1>2, <1>7, <2>2
    <2> QED
        BY <1>2, <1>4, <1>6, <1>7, <2>1, <2>3 DEF WidthsInv
<1>8. CASE Connect(<<part.comp, tie[1]>>, Target(tie[2]))
    <2> DEFINE p == <<part.comp, tie[1]>>
               n == Target(tie[2])
    <2>1. /\ width' \in [Nets -> Nat] /\ LiveNets' = LiveNets /\ n \in LiveNets
          /\ \A m \in LiveNets :
               \/ IsWidth(on', m, width'[m])
               \/ /\ m # n /\ width'[m] = width[m] /\ ~IsWidth(on, m, width[m])
                  /\ Covers(on, m, width[m]) => Covers(on', m, width[m])
               \/ /\ m = n /\ ~IsWidth(on, n, width[n])
                  /\ Covers(on, n, width[n]) =>
                       /\ Covers(on', n, width[n]) /\ width'[n] = width[n]
                       /\ ~(Width(p) >= width[n])
        BY <1>2, <1>8, ConnectWidths
    <2>2. \A k : tie[2] = k /\ k \notin Nets => n = before.on[<<exp.comp, k>>]
        BY DEF Target
    <2> HIDE DEF p, n
    <2>3. ASSUME NEW m \in LiveNets, ~IsWidth(on', m, width'[m]) PROVE Owed(m)'
        <3>1. Owed(m) /\ Covers(on, m, width[m])
            BY <1>2, <2>1, <2>3 DEF Owed
        <3>2. Covers(on', m, width[m]) /\ width'[m] = width[m]
            BY <2>1, <2>3, <3>1
        <3>3. ASSUME NEW k, k \notin Nets, before.on[<<exp.comp, k>>] = m, Tied(exp.parts, k, width[m])
              PROVE  Tied(exp'.parts, k, width[m])
            <4>1. CASE tie[2] = k /\ Width(p) >= width[m]
                <5>1. n = m
                    BY <2>2, <3>3, <4>1
                <5> QED
                    BY <2>1, <2>3, <3>1, <4>1, <5>1
            <4> QED
                BY <1>5, <3>3, <4>1 DEF p
        <3> QED
            BY <1>1, <1>4, <3>1, <3>2, <3>3, OwedKeeps
    <2> QED
        BY <1>4, <1>6, <2>1, <2>3 DEF WidthsInv
<1>9. AddComponent(part.comp) => UNCHANGED <<nets, on, width>>
    BY DEF AddComponent, wiring
<1>10. UNCHANGED netlist => UNCHANGED <<nets, on, width>>
    BY DEF netlist
<1> QED
    BY <1>4, <1>7, <1>8, <1>9, <1>10

LEMMA EndWidths ==
  ASSUME IInv, WidthsInv, EndExpansion
  PROVE  WidthsInv'
<1>1. /\ ~exp.bound /\ exp.parts = <<>> /\ exp' = Idle /\ UNCHANGED <<nets, on, width>>
    BY DEF EndExpansion, wiring
<1>2. width \in [Nets -> Nat] /\ Exact
    <2>1. \A k, w : ~Tied(exp.parts, k, w)
        BY <1>1 DEF Tied
    <2> QED
        BY <2>1 DEF WidthsInv, Owed, Exact
<1>3. width' \in [Nets -> Nat] /\ Exact' /\ Settled'
    BY <1>1, <1>2 DEF Exact, LiveNets, IsWidth, Covers, Settled
<1> QED
    BY <1>3, ExactSettles

LEMMA FailureWidths ==
  ASSUME IInv, WidthsInv, FailExpansion
  PROVE  WidthsInv'
<1>1. Snapshot /\ nets' = before.nets /\ on' = before.on
    BY FailureRestores
<1>2. /\ width' = [n \in Nets |-> IF n \in OldNets THEN Widest(Restored, OldPins, n) ELSE 0]
      /\ on' = Restored /\ exp' = Idle
    BY DEF FailExpansion
<1>3. WiredLive(before.nets, before.comps, before.on) /\ before.nets \in Seq(Nets)
    BY <1>1 DEF Snapshot, Sound, NetsNumbered
<1>4. LiveNets' = OldNets /\ OldNets \subseteq Nets
    BY <1>1, <1>3, LiveIs, SeqDomain DEF LiveNets, OldNets
<1>5. \A p \in Pins : Restored[p] # None => p \in OldPins
    BY <1>1, <1>2, <1>3, LiveIs DEF WiredLive, OldPins
<1>6. OldPins \in SUBSET Pins
    BY DEF OldPins
<1>7. \A n \in Nets : /\ Widest(Restored, OldPins, n) \in Nat
                      /\ IsWidth(Restored, n, Widest(Restored, OldPins, n))
    BY <1>5, <1>6, WidestIs, HandlesAssumption
<1>8. width' \in [Nets -> Nat] /\ \A n \in LiveNets' : IsWidth(on', n, width'[n])
    BY <1>2, <1>4, <1>7
<1>9. Exact' /\ Settled'
    BY <1>2, <1>8 DEF Exact, IsWidth, Covers, Settled
<1> QED
    BY <1>8, <1>9, ExactSettles

LEMMA WidthsStep == PartsAreAsWide /\ IInv /\ WidthsInv /\ [Next]_vars => WidthsInv'
<1> SUFFICES ASSUME PartsAreAsWide, IInv, WidthsInv, [Next]_vars PROVE WidthsInv'
    OBVIOUS
<1>1. CASE Prepare
    <2>1. Settled /\ UNCHANGED <<nets, on, width, exp>>
        BY <1>1 DEF Prepare
    <2>2. width \in [Nets -> Nat] /\ Exact
        BY <2>1, SettledExact
    <2>3. width' \in [Nets -> Nat] /\ Exact' /\ Settled'
        BY <2>1, <2>2 DEF Exact, LiveNets, IsWidth, Covers, Settled
    <2> QED
        BY <2>3, ExactSettles
<1>2. CASE UNCHANGED vars
    <2>1. UNCHANGED <<nets, on, width, exp, before>>
        BY <1>2 DEF vars, netlist
    <2>2. LiveNets' = LiveNets /\ Settled' = Settled
        BY <2>1 DEF LiveNets, Settled
    <2>3. \A n : IsWidth(on, n, width[n])' <=> IsWidth(on, n, width[n])
        BY <2>1 DEF IsWidth, Covers
    <2>4. \A n : Owed(n)' <=> Owed(n)
        BY <2>1, <2>2 DEF Owed, Tied, Covers
    <2> QED
        BY <2>1, <2>2, <2>3, <2>4 DEF WidthsInv
<1> QED
    BY <1>1, <1>2, EditWidths, BeginWidths, ExpandNetWidths, UnbindWidths, ExpandPartWidths,
       EndWidths, FailureWidths DEF Next

\* After any edits, expansions and failed expansions of composites whose parts are as wide as
\* their pins, ids are places and identify, the bus register has every shared net's
\* drivers, and a net is as wide as its widest pin (Circuit.cpp:205-428).
THEOREM DerivedStaysCurrent == PartsAreAsWide => (Spec => []DerivedIsCurrent)
<1>1. Init => WidthsInv
    <2> SUFFICES ASSUME Init PROVE WidthsInv
        OBVIOUS
    <2>1. LiveNets = {} /\ width \in [Nets -> Nat] /\ Settled
        BY DEF Init, LiveNets, Settled
    <2> QED
        BY <2>1 DEF WidthsInv
<1>2. IInv /\ WidthsInv => WidthIsWidest
    <2> SUFFICES ASSUME IInv, WidthsInv, Settled, NEW n \in LiveNets
                 PROVE  width[n] = Widest(on, LivePins, n)
        BY DEF WidthIsWidest
    <2>1. /\ n \in Nets /\ LivePins \in SUBSET Pins
          /\ \A p \in Pins : on[p] = n => p \in LivePins
        BY LiveFacts DEF IInv
    <2>2. IsWidth(on, n, width[n]) /\ width[n] \in Nat
        BY <2>1, SettledExact DEF Exact
    <2> QED
        BY <2>1, <2>2, WidestIs, OneWidth
<1>3. ASSUME PartsAreAsWide PROVE Spec => []WidthsInv
    <2>1. IInv /\ WidthsInv /\ [Next]_vars => WidthsInv'
        BY <1>3, WidthsStep
    <2> QED
        BY <1>1, <2>1, Invariant, PTL DEF Spec
<1>4. Spec => [](IdsIdentify /\ RegisterIsCurrent)
    BY IdsAlwaysIdentify, RegisterAlwaysCurrent, PTL
<1>5. IdsIdentify /\ RegisterIsCurrent /\ WidthIsWidest => DerivedIsCurrent
    BY DEF DerivedIsCurrent
<1>6. PartsAreAsWide => (Spec => []WidthsInv)
    BY <1>3
<1> QED
    BY <1>2, <1>4, <1>5, <1>6, Invariant, PTL
=============================================================================
