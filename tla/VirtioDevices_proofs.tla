------------------------ MODULE VirtioDevices_proofs ------------------------
(* Proofs about VirtioDevices, for every medium, ring and set of requests,   *)
(* and any number of requests, events and resets.                            *)
EXTENDS VirtioDevices, WellFoundedInduction, TLAPS

-----------------------------------------------------------------------------
(* What a request is made of. *)

Piece == Nat \X Nat \X Nat
Sendable == [id : Nat, what : {r \in Blocks \cup Reads \cup EventBuffers \cup StatusChains : IsChain(r.chain)}]

\* What a descriptor of a request for blocks moves; F[d] is what the first d move.
PiecesOf(s, d) ==
    IF d = 1 \/ s.what.chain[d].next = "none" THEN <<>>
    ELSE [k \in 1..s.what.chain[d].len |-> <<s.id, d, k>>]
PartsTo(s, m, F) ==
    /\ F \in [0..m -> Seq(Piece)] /\ F[0] = <<>>
    /\ \A d \in 1..m : F[d] = F[d - 1] \o PiecesOf(s, d)
PartsOf(s) == CHOOSE F : PartsTo(s, Len(s.what.chain), F)
Base(s, d) == Len(PartsOf(s)[d])
Data(s) == PartsOf(s)[Len(s.what.chain)]

\* Induction over 0..n, for one set of numbers at a time.
LEMMA Steps ==
    ASSUME NEW n \in Nat, NEW T, 0 \in T, \A k \in 1..n : k - 1 \in T => k \in T
    PROVE  \A k \in 0..n : k \in T
<1> DEFINE B == {k \in 0..n : k \notin T}
<1> SUFFICES ASSUME B # {} PROVE FALSE
    OBVIOUS
<1>1. B \in SUBSET Nat
    OBVIOUS
<1>2. PICK x \in B : \A y \in B : ~(<<y, x>> \in OpToRel(<, Nat))
    BY <1>1, WFMin, NatLessThanWellFounded
<1>3. \A y \in B : ~(y < x)
    BY <1>1, <1>2 DEF OpToRel
<1>4. x \in 1..n /\ x - 1 \in 0..n /\ x - 1 < x
    OBVIOUS
<1>5. x - 1 \in T
    BY <1>3, <1>4
<1> QED
    BY <1>2, <1>4, <1>5

LEMMA ElementIs ==
    ASSUME NEW S, NEW s \in Seq(S), NEW i \in 1..Len(s) PROVE s[i] \in S
OBVIOUS

LEMMA AppendKeeps ==
    ASSUME NEW S, NEW s \in Seq(S), NEW r \in S
    PROVE  /\ Append(s, r) \in Seq(S) /\ Append(s, r) # <<>>
           /\ Len(Append(s, r)) = Len(s) + 1 /\ Append(s, r)[Len(s) + 1] = r
           /\ \A i \in 1..Len(s) : Append(s, r)[i] = s[i]
OBVIOUS

LEMMA ConcatKeeps ==
    ASSUME NEW S, NEW s \in Seq(S), NEW t \in Seq(S)
    PROVE  /\ s \o t \in Seq(S) /\ Len(s \o t) = Len(s) + Len(t)
           /\ \A i \in 1..Len(s) : (s \o t)[i] = s[i]
           /\ \A i \in 1..Len(t) : (s \o t)[Len(s) + i] = t[i]
OBVIOUS

LEMMA ChainType ==
    ASSUME NEW s \in Sendable
    PROVE  /\ s.id \in Nat /\ s.what.chain \in Seq(Descriptor)
           /\ Len(s.what.chain) \in Nat \ {0} /\ DOMAIN s.what.chain = 1..Len(s.what.chain)
           /\ \A d \in 1..Len(s.what.chain) :
                /\ s.what.chain[d] \in Descriptor /\ s.what.chain[d].len \in Nat
                /\ s.what.chain[d].next \in {"next", "none", "stray"}
                /\ s.what.chain[d].next = "next" <=> d < Len(s.what.chain)
<1> DEFINE chain == s.what.chain
<1>1. s.id \in Nat /\ IsChain(chain)
    BY DEF Sendable
<1> HIDE DEF chain
<1>2. chain \in Seq(Descriptor) /\ chain # <<>>
    BY <1>1 DEF IsChain
<1>3. Len(chain) \in Nat \ {0} /\ DOMAIN chain = 1..Len(chain)
    BY <1>2
<1>4. \A d \in 1..Len(chain) : chain[d] \in Descriptor
    BY <1>2, ElementIs
<1>5. \A d \in 1..Len(chain) : chain[d].len \in Nat /\ chain[d].next \in {"next", "none", "stray"}
    BY <1>4 DEF Descriptor
<1>6. \A d \in 1..Len(chain) : chain[d].next = "next" <=> d < Len(chain)
    BY <1>1 DEF IsChain
<1> QED
    BY <1>1, <1>2, <1>3, <1>4, <1>5, <1>6 DEF chain

LEMMA PiecesType ==
    ASSUME NEW s \in Sendable, NEW d \in 1..Len(s.what.chain)
    PROVE  /\ PiecesOf(s, d) \in Seq(Piece)
           /\ d = 1 \/ s.what.chain[d].next = "none" => PiecesOf(s, d) = <<>> /\ Len(PiecesOf(s, d)) = 0
           /\ d # 1 /\ s.what.chain[d].next # "none" =>
                /\ Len(PiecesOf(s, d)) = s.what.chain[d].len
                /\ \A k \in 1..s.what.chain[d].len : PiecesOf(s, d)[k] = <<s.id, d, k>>
<1>1. s.id \in Nat /\ s.what.chain[d].len \in Nat
    BY ChainType
<1>2. PICK n \in Nat : n = s.what.chain[d].len
    BY <1>1
<1>3. \A k \in 1..n : <<s.id, d, k>> \in Piece
    BY <1>1, ChainType DEF Piece
<1>4. /\ [k \in 1..n |-> <<s.id, d, k>>] \in Seq(Piece)
      /\ Len([k \in 1..n |-> <<s.id, d, k>>]) = n
    BY <1>3
<1>5. CASE d = 1 \/ s.what.chain[d].next = "none"
    BY <1>5 DEF PiecesOf
<1>6. CASE ~(d = 1 \/ s.what.chain[d].next = "none")
    BY <1>2, <1>4, <1>6 DEF PiecesOf
<1> QED
    BY <1>5, <1>6

LEMMA PartsExist ==
    ASSUME NEW s \in Sendable PROVE PartsTo(s, Len(s.what.chain), PartsOf(s))
<1>1. PICK n \in Nat : n = Len(s.what.chain)
    BY ChainType
<1> DEFINE T == {m \in 0..n : \E F : PartsTo(s, m, F)}
<1>2. 0 \in T
    <2> DEFINE F == [k \in 0..0 |-> <<>>]
    <2>1. F \in [0..0 -> Seq(Piece)] /\ F[0] = <<>> /\ \A d \in 1..0 : F[d] = F[d - 1] \o PiecesOf(s, d)
        OBVIOUS
    <2> HIDE DEF F
    <2>2. PartsTo(s, 0, F)
        BY <2>1 DEF PartsTo
    <2> QED
        BY <2>2
<1>3. ASSUME NEW m \in 1..n, m - 1 \in T PROVE m \in T
    <2>1. PICK F : PartsTo(s, m - 1, F)
        BY <1>3
    <2> DEFINE G == [k \in 0..m |-> IF k = m THEN F[m - 1] \o PiecesOf(s, m) ELSE F[k]]
    <2>2. F \in [0..(m - 1) -> Seq(Piece)] /\ F[0] = <<>>
        BY <2>1 DEF PartsTo
    <2>3. F[m - 1] \o PiecesOf(s, m) \in Seq(Piece)
        BY <1>1, <2>2, PiecesType
    <2>4. G \in [0..m -> Seq(Piece)] /\ G[0] = <<>>
        BY <2>2, <2>3
    <2>5. ASSUME NEW d \in 1..m PROVE G[d] = G[d - 1] \o PiecesOf(s, d)
        <3>1. G[d - 1] = F[d - 1]
            OBVIOUS
        <3>2. G[m] = F[m - 1] \o PiecesOf(s, m)
            OBVIOUS
        <3>3. CASE d = m
            BY <3>1, <3>2, <3>3
        <3>4. CASE d # m
            <4>1. G[d] = F[d] /\ d \in 1..(m - 1)
                BY <3>4
            <4>2. F[d] = F[d - 1] \o PiecesOf(s, d)
                BY <2>1, <4>1 DEF PartsTo
            <4> HIDE DEF G
            <4> QED
                BY <3>1, <4>1, <4>2
        <3> QED
            BY <3>3, <3>4
    <2> HIDE DEF G
    <2>6. PartsTo(s, m, G)
        BY <2>4, <2>5 DEF PartsTo
    <2> QED
        BY <2>6
<1>4. n \in T
    <2>1. n \in 0..n
        OBVIOUS
    <2> HIDE DEF T
    <2> QED
        BY <1>2, <1>3, <2>1, Steps
<1>5. \E F : PartsTo(s, Len(s.what.chain), F)
    BY <1>1, <1>4
<1> QED
    BY <1>5 DEF PartsOf

\* What FlattenSeq makes of a request are its parts.
LEMMA DataIsParts ==
    ASSUME NEW q, Current(q) \in Sendable PROVE DataOf(q) = Data(Current(q))
<1> DEFINE s == Current(q)
           chain == s.what.chain
           F == PartsOf(s)
           seqs == [d \in DOMAIN chain |-> IF d = 1 \/ chain[d].next = "none" THEN <<>>
                                           ELSE [k \in 1..chain[d].len |-> <<s.id, d, k>>]]
           Flat(g) == g = [i \in 1..Len(seqs) |-> IF i = 1 THEN seqs[i] ELSE g[i - 1] \o seqs[i]]
           flatten == CHOOSE g : Flat(g)
<1>1. PICK n \in Nat \ {0} : n = Len(chain)
    BY ChainType
<1>2. DOMAIN chain = 1..n
    BY <1>1, ChainType
<1>3. Len(seqs) = n
    BY <1>2
<1>4. \A d \in 1..n : seqs[d] = PiecesOf(s, d) /\ seqs[d] \in Seq(Piece)
    <2>1. \A d \in 1..n : seqs[d] = PiecesOf(s, d)
        BY <1>2 DEF PiecesOf
    <2>2. \A d \in 1..n : PiecesOf(s, d) \in Seq(Piece)
        BY <1>1, PiecesType
    <2> QED
        BY <2>1, <2>2
<1>5. DataOf(q) = flatten[n]
    BY <1>3 DEF DataOf, FlattenSeq
<1>6. PartsTo(s, n, F)
    BY <1>1, PartsExist
<1> HIDE DEF seqs, F
<1>7. /\ F[0] = <<>> /\ F[1] = seqs[1]
      /\ \A d \in 1..n : F[d] \in Seq(Piece) /\ F[d] = F[d - 1] \o seqs[d]
    <2>1. ASSUME NEW d \in 1..n PROVE F[d] \in Seq(Piece) /\ F[d] = F[d - 1] \o seqs[d]
        <3>1. F[d] = F[d - 1] \o PiecesOf(s, d)
            BY <1>6 DEF PartsTo
        <3>2. F \in [0..n -> Seq(Piece)] /\ d \in 0..n
            BY <1>6 DEF PartsTo
        <3>3. seqs[d] = PiecesOf(s, d)
            BY <1>4
        <3> QED
            BY <3>1, <3>2, <3>3
    <2>2. F[0] = <<>>
        BY <1>6 DEF PartsTo
    <2>3. 1 \in 1..n /\ 1 - 1 = 0
        OBVIOUS
    <2>4. F[1] = <<>> \o seqs[1] /\ seqs[1] \in Seq(Piece)
        BY <1>4, <2>1, <2>2, <2>3
    <2>5. <<>> \o seqs[1] = seqs[1]
        BY <2>4
    <2> QED
        BY <2>1, <2>2, <2>4, <2>5
<1>8. \E g : Flat(g)
    <2> DEFINE G == [i \in 1..n |-> F[i]]
    <2>1. ASSUME NEW i \in 1..n PROVE G[i] = IF i = 1 THEN seqs[i] ELSE G[i - 1] \o seqs[i]
        <3>1. CASE i = 1
            BY <1>7, <3>1
        <3>2. CASE i # 1
            <4>1. G[i] = F[i] /\ G[i - 1] = F[i - 1]
                BY <3>2
            <4> HIDE DEF G
            <4> QED
                BY <1>7, <3>2, <4>1
        <3> QED
            BY <3>1, <3>2
    <2>2. Flat(G)
        BY <1>3, <2>1
    <2> QED
        BY <2>2
<1>9. Flat(flatten)
    <2> HIDE DEF Flat
    <2> QED
        BY <1>8
<1> HIDE DEF flatten
<1>10. flatten[n] = F[n]
    <2> DEFINE T == {i \in 0..n : i = 0 \/ flatten[i] = F[i]}
    <2>1. 0 \in T
        OBVIOUS
    <2>2. ASSUME NEW i \in 1..n, i - 1 \in T PROVE i \in T
        <3>1. flatten[i] = IF i = 1 THEN seqs[i] ELSE flatten[i - 1] \o seqs[i]
            BY <1>3, <1>9
        <3>2. CASE i = 1
            BY <1>7, <3>1, <3>2
        <3>3. CASE i # 1
            <4>1. flatten[i - 1] = F[i - 1] /\ i \in 0..n
                BY <2>2, <3>3
            <4>2. flatten[i] = F[i]
                BY <1>7, <3>1, <3>3, <4>1
            <4> QED
                BY <4>1, <4>2
        <3> QED
            BY <3>2, <3>3
    <2> HIDE DEF T
    <2>3. n \in T
        BY <2>1, <2>2, Steps
    <2> QED
        BY <2>3 DEF T
<1> QED
    BY <1>1, <1>5, <1>10 DEF Data, F

\* Where the pieces of a descriptor are among those of the request.
LEMMA Bases ==
    ASSUME NEW s \in Sendable
    PROVE  /\ Data(s) \in Seq(Piece) /\ Base(s, Len(s.what.chain)) = Len(Data(s))
           /\ Base(s, 0) = 0
           /\ \A d \in 1..Len(s.what.chain) :
                /\ Base(s, d) \in Nat /\ Base(s, d - 1) \in Nat
                /\ Base(s, d) = Base(s, d - 1) + Len(PiecesOf(s, d))
                /\ Base(s, d) <= Len(Data(s))
                /\ \A k \in 1..Len(PiecesOf(s, d)) :
                     Data(s)[Base(s, d - 1) + k] = PiecesOf(s, d)[k]
<1> DEFINE F == PartsOf(s)
<1>1. PICK n \in Nat \ {0} : n = Len(s.what.chain)
    BY ChainType
<1>2. PartsTo(s, n, F)
    BY <1>1, PartsExist
<1>3. F \in [0..n -> Seq(Piece)] /\ F[0] = <<>>
    BY <1>2 DEF PartsTo
<1>4. Data(s) = F[n] /\ \A d \in 0..n : Base(s, d) = Len(F[d])
    BY <1>1 DEF Data, Base
<1> HIDE DEF F
<1>5. ASSUME NEW d \in 1..n
      PROVE  /\ F[d] \in Seq(Piece) /\ F[d - 1] \in Seq(Piece) /\ Len(F[d]) \in Nat /\ Len(F[d - 1]) \in Nat
             /\ Len(F[d]) = Len(F[d - 1]) + Len(PiecesOf(s, d))
             /\ \A k \in 1..Len(F[d - 1]) : F[d][k] = F[d - 1][k]
             /\ \A k \in 1..Len(PiecesOf(s, d)) : F[d][Len(F[d - 1]) + k] = PiecesOf(s, d)[k]
    <2>1. F[d] = F[d - 1] \o PiecesOf(s, d)
        BY <1>2 DEF PartsTo
    <2>2. F[d - 1] \in Seq(Piece) /\ PiecesOf(s, d) \in Seq(Piece)
        BY <1>1, <1>3, PiecesType
    <2> QED
        BY <2>1, <2>2, ConcatKeeps
\* Going down from the last, nothing is lost.
<1> DEFINE T == {i \in 0..n : /\ Len(F[n - i]) <= Len(F[n])
                              /\ \A k \in 1..Len(F[n - i]) : F[n][k] = F[n - i][k]}
<1>6. \A i \in 0..n : i \in T
    <2>1. 0 \in T
        BY <1>5
    <2>2. ASSUME NEW i \in 1..n, i - 1 \in T PROVE i \in T
        <3>1. PICK d \in 1..n : d = n - (i - 1)
            OBVIOUS
        <3>2. n - i = d - 1
            BY <3>1
        <3>3. Len(F[d]) <= Len(F[n]) /\ \A k \in 1..Len(F[d]) : F[n][k] = F[d][k]
            BY <2>2, <3>1
        <3>4. /\ Len(F[d - 1]) \in Nat /\ Len(F[d]) \in Nat /\ Len(F[d - 1]) <= Len(F[d])
              /\ \A k \in 1..Len(F[d - 1]) : F[d][k] = F[d - 1][k]
            BY <1>1, <1>5, PiecesType
        <3>5. Len(F[n]) \in Nat
            BY <1>5
        <3>6. Len(F[d - 1]) <= Len(F[n]) /\ \A k \in 1..Len(F[d - 1]) : F[n][k] = F[d - 1][k]
            BY <3>3, <3>4, <3>5
        <3> QED
            BY <3>2, <3>6
    <2> HIDE DEF T
    <2> QED
        BY <2>1, <2>2, Steps
<1>7. \A d \in 0..n : Len(F[d]) <= Len(F[n]) /\ \A k \in 1..Len(F[d]) : F[n][k] = F[d][k]
    <2> TAKE d \in 0..n
    <2>1. PICK i \in 0..n : i = n - d /\ n - i = d
        OBVIOUS
    <2>2. i \in T
        BY <1>6
    <2> QED
        BY <2>1, <2>2
<1> HIDE DEF T
<1>8. ASSUME NEW d \in 1..n, NEW k \in 1..Len(PiecesOf(s, d))
      PROVE  F[n][Len(F[d - 1]) + k] = PiecesOf(s, d)[k]
    <2>1. PICK j : j = Len(F[d - 1]) + k
        OBVIOUS
    <2>2. j \in 1..Len(F[d])
        BY <1>1, <1>5, <2>1, PiecesType
    <2>3. F[n][j] = F[d][j]
        BY <1>7, <2>2
    <2>4. F[d][j] = PiecesOf(s, d)[k]
        BY <1>5, <2>1
    <2> QED
        BY <2>1, <2>3, <2>4
<1>9. Data(s) \in Seq(Piece) /\ Base(s, n) = Len(Data(s)) /\ Base(s, 0) = 0
    BY <1>3, <1>4
<1>10. ASSUME NEW d \in 1..n
       PROVE  /\ Base(s, d) \in Nat /\ Base(s, d - 1) \in Nat
              /\ Base(s, d) = Base(s, d - 1) + Len(PiecesOf(s, d))
              /\ Base(s, d) <= Len(Data(s))
              /\ \A k \in 1..Len(PiecesOf(s, d)) : Data(s)[Base(s, d - 1) + k] = PiecesOf(s, d)[k]
    <2>1. Base(s, d) = Len(F[d]) /\ Base(s, d - 1) = Len(F[d - 1])
        BY <1>4
    <2> QED
        BY <1>4, <1>5, <1>7, <1>8, <2>1
<1> QED
    BY <1>1, <1>9, <1>10

\* The length of a chain, descriptor by descriptor.
SumTo(chain) == CHOOSE f : f = [d \in 0..Len(chain) |-> IF d = 0 THEN 0 ELSE f[d - 1] + chain[d].len]

LEMMA Sums ==
    ASSUME NEW s \in Sendable
    PROVE  LET chain == s.what.chain IN
           /\ LengthOf(chain) = SumTo(chain)[Len(chain)]
           /\ SumTo(chain)[0] = 0
           /\ \A d \in 1..Len(chain) :
                /\ SumTo(chain)[d] = SumTo(chain)[d - 1] + chain[d].len
                /\ SumTo(chain)[d] \in Nat /\ SumTo(chain)[d - 1] \in Nat
<1> DEFINE chain == s.what.chain
           Sum(f) == f = [d \in 0..Len(chain) |-> IF d = 0 THEN 0 ELSE f[d - 1] + chain[d].len]
           f == SumTo(chain)
<1>1. PICK n \in Nat \ {0} : n = Len(chain)
    BY ChainType
<1>2. \A d \in 1..n : chain[d].len \in Nat
    BY <1>1, ChainType
<1>3. LengthOf(chain) = f[Len(chain)]
    BY DEF LengthOf, SumTo
<1>4. \E g : Sum(g)
    <2> DEFINE Upto(m, g) == /\ g \in [0..m -> Nat] /\ g[0] = 0
                             /\ \A d \in 1..m : g[d] = g[d - 1] + chain[d].len
               T == {m \in 0..n : \E g : Upto(m, g)}
    <2>1. 0 \in T
        <3> DEFINE g == [k \in 0..0 |-> 0]
        <3>1. Upto(0, g)
            OBVIOUS
        <3> HIDE DEF g, Upto
        <3> QED
            BY <3>1
    <2>2. ASSUME NEW m \in 1..n, m - 1 \in T PROVE m \in T
        <3>1. PICK g : Upto(m - 1, g)
            BY <2>2
        <3> DEFINE h == [k \in 0..m |-> IF k = m THEN g[m - 1] + chain[m].len ELSE g[k]]
        <3>2. g \in [0..(m - 1) -> Nat] /\ g[0] = 0
            BY <3>1
        <3>3. g[m - 1] + chain[m].len \in Nat
            BY <1>2, <3>2
        <3>4. h \in [0..m -> Nat] /\ h[0] = 0
            BY <3>2, <3>3
        <3>5. ASSUME NEW d \in 1..m PROVE h[d] = h[d - 1] + chain[d].len
            <4>1. h[d - 1] = g[d - 1] /\ h[m] = g[m - 1] + chain[m].len
                OBVIOUS
            <4>2. CASE d = m
                BY <4>1, <4>2
            <4>3. CASE d # m
                <5>1. h[d] = g[d] /\ d \in 1..(m - 1)
                    BY <4>3
                <5>2. g[d] = g[d - 1] + chain[d].len
                    BY <3>1, <5>1
                <5> HIDE DEF h
                <5> QED
                    BY <4>1, <5>1, <5>2
            <4> QED
                BY <4>2, <4>3
        <3> HIDE DEF h
        <3>6. Upto(m, h)
            BY <3>4, <3>5
        <3> HIDE DEF Upto
        <3> QED
            BY <3>6
    <2>3. n \in T
        <3>1. n \in 0..n
            OBVIOUS
        <3> HIDE DEF T
        <3> QED
            BY <2>1, <2>2, <3>1, Steps
    <2>4. PICK g : Upto(n, g)
        BY <2>3
    <2>5. g = [d \in 0..n |-> IF d = 0 THEN 0 ELSE g[d - 1] + chain[d].len]
        <3>1. DOMAIN g = 0..n /\ g = [d \in 0..n |-> g[d]]
            BY <2>4
        <3>2. \A d \in 0..n : g[d] = IF d = 0 THEN 0 ELSE g[d - 1] + chain[d].len
            BY <2>4
        <3> QED
            BY <3>1, <3>2
    <2> HIDE DEF Upto
    <2>6. Sum(g)
        BY <1>1, <2>5
    <2> QED
        BY <2>6
<1>5. Sum(f)
    <2> HIDE DEF Sum
    <2>1. Sum(CHOOSE g : Sum(g))
        BY <1>4
    <2>2. (CHOOSE g : Sum(g)) = f
        BY DEF Sum, SumTo
    <2> QED
        BY <2>1, <2>2
<1> HIDE DEF f
<1>6. f[0] = 0 /\ \A d \in 1..n : f[d] = f[d - 1] + chain[d].len
    <2>1. \A d \in 0..n : f[d] = IF d = 0 THEN 0 ELSE f[d - 1] + chain[d].len
        BY <1>1, <1>5
    <2> HIDE DEF Sum
    <2> QED
        BY <2>1
<1>7. \A d \in 0..n : f[d] \in Nat
    <2> DEFINE T == {d \in 0..n : f[d] \in Nat}
    <2>1. 0 \in T
        BY <1>6
    <2>2. ASSUME NEW d \in 1..n, d - 1 \in T PROVE d \in T
        <3>1. f[d - 1] \in Nat
            BY <2>2
        <3> QED
            BY <1>2, <1>6, <3>1
    <2>3. \A d \in 0..n : d \in T
        <3> HIDE DEF T
        <3> QED
            BY <2>1, <2>2, Steps
    <2> QED
        BY <2>3
<1>8. \A d \in 1..n : d \in 0..n /\ d - 1 \in 0..n
    OBVIOUS
<1> HIDE DEF Sum
<1> QED
    BY <1>1, <1>3, <1>6, <1>7, <1>8 DEF f

-----------------------------------------------------------------------------
(* Arithmetic. *)

LEMMA DivMod ==
    ASSUME NEW n \in Nat \ {0}, NEW a \in Nat
    PROVE  a % n \in 0..(n - 1) /\ a \div n \in Nat /\ a = n * (a \div n) + (a % n)
OBVIOUS

LEMMA AtLeastOnce == ASSUME NEW n \in Nat \ {0}, NEW x \in Int, x >= 1 PROVE n * x >= n
OBVIOUS

LEMMA NotOnce == ASSUME NEW n \in Nat \ {0}, NEW x \in Int, x <= 0 PROVE n * x <= 0
OBVIOUS

LEMMA Spread ==
    ASSUME NEW n \in Nat, NEW x \in Int, NEW y \in Int PROVE n * x - n * y = n * (x - y)
OBVIOUS

\* Two entries that are less than a round apart are in different slots.
LEMMA SlotsDiffer ==
    ASSUME NEW n \in Nat \ {0}, NEW a \in Nat, NEW b \in Nat, a > b, a - b < n
    PROVE  a % n # b % n
<1> SUFFICES ASSUME a % n = b % n PROVE FALSE
    OBVIOUS
<1> DEFINE x == a \div n
           y == b \div n
<1>1. x \in Int /\ y \in Int /\ a = n * x + (a % n) /\ b = n * y + (b % n)
    BY DivMod
<1> HIDE DEF x, y
<1>2. a - b = n * (x - y)
    <2>1. a - b = n * x - n * y
        BY <1>1
    <2> QED
        BY <1>1, <2>1, Spread
<1>3. CASE x - y >= 1
    BY <1>1, <1>2, <1>3, AtLeastOnce
<1>4. CASE x - y <= 0
    BY <1>1, <1>2, <1>4, NotOnce
<1> QED
    BY <1>1, <1>3, <1>4

\* The test that keeps the multiplication from wrapping is exact.
LEMMA ReachIsExact ==
    ASSUME NEW n \in Nat \ {0}, NEW t \in Nat, NEW s \in Nat, NEW w \in Nat
    PROVE  s <= (t - w) \div n <=> s * n + w <= t
<1> DEFINE q == (t - w) \div n
           r == (t - w) % n
<1>1. q \in Int /\ r \in 0..(n - 1) /\ t - w = n * q + r
    OBVIOUS
<1> HIDE DEF q, r
<1>2. n * q - n * s = n * (q - s) /\ n * q \in Int /\ n * s \in Int /\ n * s = s * n
    BY <1>1, Spread
<1>3. CASE s <= q
    <2>1. n * (q - s) >= 0
        <3>1. PICK x \in Nat : x = q - s
            BY <1>1, <1>3
        <3>2. n * x >= 0
            OBVIOUS
        <3> QED
            BY <3>1, <3>2
    <2>2. s * n <= n * q
        BY <1>2, <2>1
    <2>3. s * n + w <= t
        BY <1>1, <1>2, <2>2
    <2> QED
        BY <1>3, <2>3 DEF q
<1>4. CASE s > q
    <2>1. n * (s - q) >= n /\ n * s - n * q = n * (s - q)
        BY <1>1, <1>4, AtLeastOnce, Spread
    <2>2. s * n >= n * q + n
        BY <1>1, <1>2, <2>1
    <2>3. s * n + w > t
        BY <1>1, <1>2, <2>2
    <2> QED
        BY <1>1, <1>2, <1>4, <2>3 DEF q
<1> QED
    BY <1>1, <1>3, <1>4

\* So a piece is on the medium exactly if its place, which cannot wrap then, is.
LEMMA PlaceIsHome ==
    ASSUME RequestsAssumption, RingsAssumption, sector \in Nat, NEW w \in Nat,
           NEW r, r.sector = sector
    PROVE  /\ InReach(w) /\ OnMedium(Place(w)) <=> Home(r, w + 1) < Size
           /\ InReach(w) => Place(w) = Home(r, w + 1)
           /\ Home(r, w + 1) = sector * SectorSize + w /\ Home(r, w + 1) \in Nat
<1> DEFINE h == sector * SectorSize + w
<1>1. SectorSize \in Nat \ {0} /\ Size \in Nat /\ Top \in Nat /\ Size <= Top + 1
    BY DEF RingsAssumption
<1>2. h \in Nat /\ sector * SectorSize \in Nat
    BY <1>1
<1>3. Home(r, w + 1) = h
    BY <1>2 DEF Home
<1>4. InReach(w) <=> h <= Top
    BY <1>1, ReachIsExact DEF InReach
<1> HIDE DEF h
<1>5. h <= Top => h % (Top + 1) = h
    BY <1>1, <1>2
<1>6. Place(w) = h % (Top + 1)
    BY DEF Place, h
<1> QED
    BY <1>1, <1>2, <1>3, <1>4, <1>5, <1>6 DEF OnMedium, h

-----------------------------------------------------------------------------
(* The strengthening. *)

\* What the medium and the guest's buffers may hold, and what a device carries.
Content == (Nat \X Nat) \cup Piece \cup {Junk}
Stuff == Nat \cup Content \cup [at : Piece, is : Content]
States == {"ok", "ioerr", "unsupp"}
Cur == [id : Nat, desc : Nat, off : Nat, written : Nat, parsed : BOOLEAN, chunk : Seq(Stuff),
        step : Nat, got : Seq(Stuff), status : States \cup {Nothing}]
Phases == {"idle", "avail_idx", "ring", "desc", "header", "data", "status_byte", "used_elem",
           "used_idx"}
Moving == {"desc", "header", "data", "status_byte"}
Ending == {"used_elem", "used_idx"}
Walking == Moving \cup Ending

GuestTypes ==
    /\ dev \in {"blk", "rng", "input"}
    /\ ready \in [AllQueues -> BOOLEAN] /\ posts \in [AllQueues -> Nat] /\ resets \in Nat
    /\ avail \in [AllQueues -> Seq(Sendable)]
    /\ \A i \in 1..Len(avail["req"]) : avail["req"][i].what \in IF dev = "blk" THEN Blocks ELSE Reads
    /\ used \in [AllQueues -> Seq([id : Nat, len : Nat])]
WalkTypes ==
    /\ phase \in [AllQueues -> Phases] /\ last \in [AllQueues -> Nat] /\ cur \in [AllQueues -> Cur]
BlockTypes ==
    /\ sector \in Nat /\ st \in States /\ readOnly \in BOOLEAN
    /\ medium \in [0..(Size - 1) -> Content] /\ shadow \in [0..(Size - 1) -> Content]
RingTypes ==
    /\ evSlot \in [Slots -> Nat] /\ evHead \in Nat /\ evTail \in Nat
    /\ pushing \in BOOLEAN /\ pushed \in Nat /\ draws \in Nat
    /\ stSlot \in [Slots -> Nat] /\ stHead \in Nat /\ stTail \in Nat
    /\ popping \in BOOLEAN /\ overran \in BOOLEAN
    /\ received \in Seq(Nat) /\ accepted \in Seq(Nat) /\ popped \in Seq(Nat)
Types == GuestTypes /\ WalkTypes /\ BlockTypes /\ RingTypes

\* The device gives back the requests one by one, and holds the one it is at.
\* A queue it has not got does nothing.
QueueInOrder(q) ==
    /\ last[q] <= Len(avail[q]) /\ Len(used[q]) = last[q]
    /\ \A i \in 1..last[q] : used[q][i].id = avail[q][i].id
    /\ phase[q] \in Walking \cup {"ring"} => last[q] < Len(avail[q])
    /\ phase[q] \in Walking => cur[q].id = Current(q).id
    /\ phase[q] \in Moving => cur[q].desc \in 1..Len(Chain(q))
    /\ ~ready[q] \/ q \notin Queues => phase[q] = "idle"
QueuesInOrder == \A q \in AllQueues : QueueInOrder(q)

\* The source of entropy reports as much as it has filled.
Filled == SumTo(Chain("req"))[cur["req"].desc - 1] + (IF phase["req"] = "data" THEN cur["req"].off ELSE 0)
LengthsInv == dev = "rng" =>
    /\ \A i \in 1..last["req"] : used["req"][i].len = LengthOf(avail["req"][i].what.chain)
    /\ phase["req"] \in Moving => phase["req"] \in {"desc", "data"} /\ cur["req"].written = Filled
    /\ phase["req"] = "data" => cur["req"].off < Desc("req").len
    /\ phase["req"] \in Ending => cur["req"].written = LengthOf(Chain("req"))

\* What the guest's buffers and the medium hold after n pieces of a request.
ReadFor(r, data, n, before) ==
    IF r.type = "in"
    THEN [k \in 1..n |-> [at |-> data[k], is |-> IF Home(r, k) < Size THEN before[Home(r, k)] ELSE Junk]]
    ELSE <<>>
WrittenFor(r, data, n, locked, before) ==
    [p \in 0..(Size - 1) |-> IF r.type = "out" /\ ~locked /\ \E k \in 1..n : Home(r, k) = p
                             THEN data[p - Home(r, 1) + 1] ELSE before[p]]

\* The block device, n pieces into a request that is s: its registers are those
\* of this request, and the rest is as if it had only had n pieces.
BlocksDone(s, n) ==
    LET r == s.what
        c == cur["req"]
    IN
    /\ type = r.type /\ sector = r.sector
    /\ c.written = IF r.type \in {"in", "out"} THEN n ELSE 0
    /\ c.got = ReadFor(r, Data(s), n, shadow)
    /\ medium = WrittenFor(r, Data(s), n, readOnly, shadow)
\* A piece that is on its way to the guest has been read already.
Reading == mp = "req" /\ phase["req"] = "data" /\ type = "in"
Moved == Base(Current("req"), cur["req"].desc - 1) + (IF phase["req"] = "data" THEN cur["req"].off ELSE 0)
BlocksInv == dev = "blk" =>
    LET s == Current("req")
        r == s.what
        c == cur["req"]
    IN
    /\ phase["req"] \in Moving => c.status = Nothing
    /\ phase["req"] \in Moving /\ (phase["req"] = "header" \/ ~c.parsed) =>
         c.desc = 1 /\ c.written = 0 /\ c.got = <<>> /\ medium = shadow
    /\ phase["req"] \in Moving /\ c.parsed => r.chain[1].len > 0
    /\ phase["req"] \in Moving /\ ~c.parsed => phase["req"] = "desc"
    /\ phase["req"] \in Moving /\ phase["req"] # "header" /\ c.parsed =>
         /\ c.desc > 1 /\ BlocksDone(s, Moved)
         /\ st = Answer(r, IF Reading THEN Moved + 1 ELSE Moved)
         /\ Reading => c.chunk = <<IF Home(r, Moved + 1) < Size THEN shadow[Home(r, Moved + 1)] ELSE Junk>>
    /\ phase["req"] = "data" => c.off < Desc("req").len /\ Desc("req").next # "none"
    /\ phase["req"] = "status_byte" => Desc("req").next = "none" /\ Desc("req").len > 0
    /\ BlocksAreExact

\* The slots between tail and head hold the events of their numbers; so does the
\* one that is being filled.
EventRing ==
    /\ pushed = evHead + (IF pushing THEN 1 ELSE 0)
    /\ evTail <= evHead /\ pushed - evTail <= Ring - 1
    /\ \A t \in evTail..(pushed - 1) : evSlot[t % Ring] = t + 1
EventQueue ==
    /\ phase["event"] \in Moving => phase["event"] \in {"desc", "data"} /\ cur["event"].got = <<>>
    /\ phase["event"] = "data" /\ mp = "event" =>
         LET c == cur["event"] IN
         /\ c.step = evTail /\ Len(c.chunk) <= evHead - evTail
         /\ \A k \in 1..Len(c.chunk) : c.chunk[k] = evTail + k
EventsInv == EventRing /\ EventQueue

\* Of all that has come for the guest, counted from 1, it holds rec; the last of
\* it the device has still to give back.
Follows(come, held, got, rec, calm) ==
    /\ held <= come /\ \A k \in 1..held : got[k] = come - held + k
    /\ \A i \in 1..Len(rec) : rec[i] \in 1..(come - held)
    /\ RisesAlways(rec)
    /\ calm => Len(rec) = come - held /\ \A i \in 1..Len(rec) : rec[i] = i
Feed == IF dev = "rng" THEN "req" ELSE "event"
Drawing == mp = "req" /\ phase["req"] = "data"
Come == IF dev # "rng" THEN evTail ELSE IF Drawing THEN draws - 1 ELSE draws
Held == IF phase[Feed] \in Walking THEN Len(cur[Feed].got) ELSE 0
ReceivedInv ==
    /\ dev = "rng" /\ Drawing => draws > 0 /\ cur["req"].chunk = <<draws>>
    /\ dev # "blk" => Follows(Come, Held, cur[Feed].got, received, resets = 0)
    /\ dev = "blk" => received = <<>>

\* An event of the guest can be in the ring only for the requests up to the one
\* the device is done with; and it is there unless it was empty, or found no room.
Settled == last["status"] + (IF phase["status"] \in Ending THEN 1 ELSE 0)
Tells(r) == Last(r.what.chain).len > 0
Accepted(id) == \E k \in 1..Len(accepted) : accepted[k] = id
IdsInv ==
    /\ \A i \in 1..Len(avail["status"]) : avail["status"][i].id <= posts["status"]
    /\ \A i, j \in 1..Len(avail["status"]) : i < j => avail["status"][i].id < avail["status"][j].id
StatusRing ==
    /\ stTail <= stHead /\ stHead - stTail <= Ring /\ Len(accepted) = stHead
    /\ popping => stTail < stHead
    /\ Len(popped) = stTail + (IF popping THEN 1 ELSE 0)
    /\ \A t \in stTail..(stHead - 1) : stSlot[t % Ring] = accepted[t + 1]
    /\ \A k \in 1..Len(popped) : popped[k] = accepted[k]
StatusInv ==
    /\ \A k \in 1..Len(accepted) :
         /\ accepted[k] <= posts["status"]
         /\ \A j \in 1..Len(avail["status"]) : j > Settled => accepted[k] < avail["status"][j].id
    /\ RisesAlways(accepted)
    /\ phase["status"] \in Moving => phase["status"] \in {"desc", "data"}
    /\ phase["status"] = "data" => Desc("status").next # "next"
    /\ ~overran => \A i \in 1..Settled : Tells(avail["status"][i]) => Accepted(avail["status"][i].id)

IInv ==
    /\ RequestsAssumption /\ RingsAssumption
    /\ Types /\ QueuesInOrder /\ LengthsInv /\ BlocksInv /\ EventsInv /\ ReceivedInv
    /\ IdsInv /\ StatusRing /\ StatusInv

USE DEF AllQueues

-----------------------------------------------------------------------------
(* Types. *)

LEMMA TypeFacts ==
    ASSUME IInv
    PROVE  /\ RequestsAssumption /\ RingsAssumption
           /\ GuestTypes /\ WalkTypes /\ BlockTypes /\ RingTypes
           /\ dev \in {"blk", "rng", "input"}
           /\ phase \in [AllQueues -> Phases] /\ last \in [AllQueues -> Nat] /\ cur \in [AllQueues -> Cur]
           /\ avail \in [AllQueues -> Seq(Sendable)] /\ used \in [AllQueues -> Seq([id : Nat, len : Nat])]
           /\ posts \in [AllQueues -> Nat] /\ \A q \in AllQueues : QueueInOrder(q)
BY DEF IInv, Types, GuestTypes, WalkTypes, QueuesInOrder

LEMMA QueuesAre ==
    ASSUME dev \in {"blk", "rng", "input"}
    PROVE  /\ Queues \subseteq AllQueues
           /\ dev # "input" => Queues = {"req"}
           /\ dev = "input" => Queues = {"event", "status"}
<1>1. CASE dev = "blk"
    BY <1>1 DEF Queues, QueuesOf
<1>2. CASE dev = "rng"
    BY <1>2 DEF Queues, QueuesOf
<1>3. CASE dev = "input"
    BY <1>3 DEF Queues, QueuesOf
<1> QED
    BY <1>1, <1>2, <1>3

\* What is known of the request a queue is at.
LEMMA RequestFacts ==
    ASSUME IInv, NEW q \in AllQueues, phase[q] \in Walking \cup {"ring"}
    PROVE  /\ Current(q) \in Sendable /\ Current(q) = avail[q][last[q] + 1]
           /\ last[q] + 1 \in 1..Len(avail[q]) /\ Chain(q) = Current(q).what.chain
           /\ phase[q] \in Walking => cur[q].id = Current(q).id
           /\ q \in Queues
<1>1. last[q] \in Nat /\ avail[q] \in Seq(Sendable) /\ QueueInOrder(q)
    BY TypeFacts
<1>2. last[q] + 1 \in 1..Len(avail[q])
    BY <1>1 DEF QueueInOrder
<1>3. avail[q][last[q] + 1] \in Sendable
    BY <1>1, <1>2, ElementIs
<1> QED
    BY <1>1, <1>2, <1>3 DEF QueueInOrder, Current, Chain, Walking, Moving, Ending

LEMMA DescFacts ==
    ASSUME IInv, NEW q \in AllQueues, phase[q] \in Moving
    PROVE  /\ Desc(q).len \in Nat /\ Desc(q).next \in {"next", "none", "stray"}
           /\ cur[q].desc \in 1..Len(Chain(q)) /\ Len(Chain(q)) \in Nat \ {0}
           /\ Desc(q).next = "next" <=> cur[q].desc < Len(Chain(q))
           /\ Desc(q) = Chain(q)[cur[q].desc]
           /\ Current(q) \in Sendable /\ Chain(q) = Current(q).what.chain
<1>1. Current(q) \in Sendable /\ Chain(q) = Current(q).what.chain
    BY RequestFacts DEF Walking
<1>2. cur[q].desc \in 1..Len(Chain(q))
    BY TypeFacts DEF QueueInOrder
<1> QED
    BY <1>1, <1>2, ChainType DEF Desc

\* The transfer of a queue is done.
LEMMA Finishes ==
    ASSUME IInv, NEW q \in AllQueues, NEW at, NEW to, Finish(q, at, to)
    PROVE  /\ mp = q /\ mp' = Nothing /\ phase[q] = at /\ phase'[q] = to
           /\ \A p \in AllQueues : p # q => phase'[p] = phase[p]
           /\ to \in Phases => phase' \in [AllQueues -> Phases]
BY TypeFacts DEF Finish

LEMMA Records ==
    ASSUME IInv, NEW q \in AllQueues, NEW c \in Cur, cur' = [cur EXCEPT ![q] = c]
    PROVE  /\ cur'[q] = c /\ \A p \in AllQueues : p # q => cur'[p] = cur[p]
           /\ cur' \in [AllQueues -> Cur]
BY TypeFacts

LEMMA FreshType == Fresh \in Cur
<1>1. <<>> \in Seq(Stuff)
    OBVIOUS
<1> QED
    BY <1>1 DEF Fresh, Cur

\* What remains of a record when parts of it are set.
LEMMA CurKeeps ==
    ASSUME NEW c \in Cur
    PROVE  /\ \A x \in Seq(Stuff) : \A t \in Nat :
                [c EXCEPT !.step = t, !.chunk = x] \in Cur /\ [c EXCEPT !.chunk = x] \in Cur
           /\ \A d \in Nat : \A b \in BOOLEAN :
                [c EXCEPT !.off = 0, !.desc = d, !.parsed = b] \in Cur /\ [c EXCEPT !.off = 0, !.desc = d] \in Cur
           /\ \A d \in Nat : [c EXCEPT !.written = 0, !.desc = d] \in Cur
           /\ \A o, w, d \in Nat : \A g \in Seq(Stuff) :
                /\ [c EXCEPT !.off = o, !.written = w, !.got = g, !.desc = d] \in Cur
                /\ [c EXCEPT !.written = w, !.got = g] \in Cur
           /\ \A w \in Nat : \A s \in States :
                [c EXCEPT !.status = s, !.written = w] \in Cur /\ [c EXCEPT !.written = w] \in Cur
BY DEF Cur

LEMMA StuffIs == Nat \subseteq Stuff /\ Content \subseteq Stuff
    /\ \A p \in Piece : \A x \in Content : [at |-> p, is |-> x] \in Stuff
BY DEF Stuff

LEMMA OneIsSeq == ASSUME NEW S, NEW x \in S PROVE <<x>> \in Seq(S) /\ Len(<<x>>) = 1 /\ <<x>>[1] = x
OBVIOUS

LEMMA SeqIsWider == ASSUME NEW S, NEW T, S \subseteq T, NEW s \in Seq(S) PROVE s \in Seq(T)
OBVIOUS

\* The events a buffer gets are in the ring.
LEMMA WaitingFacts ==
    ASSUME IInv, phase["event"] = "data"
    PROVE  /\ Backlog \in Nat /\ Backlog <= evHead - evTail /\ Slots # {}
           /\ \A k \in 1..Backlog : evSlot[(evTail + k - 1) % Ring] = evTail + k
<1>1. Desc("event").len \in Nat /\ Batch \in Nat /\ Ring \in Nat \ {0}
    BY DescFacts, TypeFacts DEF Moving, RingsAssumption
<1>2. evHead \in Nat /\ evTail \in Nat /\ evTail <= evHead /\ evHead <= pushed /\ pushed \in Nat
    <2>1. evHead \in Nat /\ evTail \in Nat /\ pushed \in Nat
        BY TypeFacts DEF RingTypes
    <2>2. evTail <= evHead /\ pushed = evHead + (IF pushing THEN 1 ELSE 0)
        BY DEF IInv, EventsInv, EventRing
    <2>3. evHead <= pushed
        BY <2>1, <2>2
    <2> QED
        BY <2>1, <2>2, <2>3
<1>3. Backlog \in Nat /\ Backlog <= evHead - evTail
    BY <1>1, <1>2 DEF Backlog, Lesser
<1>4. ASSUME NEW k \in 1..Backlog PROVE evSlot[(evTail + k - 1) % Ring] = evTail + k
    <2>1. PICK t : t = evTail + k - 1
        OBVIOUS
    <2>2. t \in evTail..(pushed - 1) /\ t + 1 = evTail + k
        BY <1>2, <1>3, <2>1
    <2>3. evSlot[t % Ring] = t + 1
        BY <2>2 DEF IInv, EventsInv, EventRing
    <2> QED
        BY <2>1, <2>2, <2>3
<1> QED
    BY <1>1, <1>3, <1>4 DEF Slots

\* What a device takes into its buffer.
LEMMA LoadedType ==
    ASSUME IInv, NEW q \in AllQueues
    PROVE  /\ Buffered(q) \in Cur
           /\ Buffered(q).id = cur[q].id /\ Buffered(q).desc = cur[q].desc /\ Buffered(q).off = cur[q].off
           /\ Buffered(q).written = cur[q].written /\ Buffered(q).parsed = cur[q].parsed
           /\ Buffered(q).got = cur[q].got /\ Buffered(q).status = cur[q].status
<1> DEFINE c == cur[q]
<1>1. c \in Cur
    BY TypeFacts
<1>2. ASSUME NEW x \in Seq(Stuff), NEW t \in Nat,
             Buffered(q) = [c EXCEPT !.step = t, !.chunk = x] \/ Buffered(q) = [c EXCEPT !.chunk = x]
      PROVE  /\ Buffered(q) \in Cur
             /\ Buffered(q).id = c.id /\ Buffered(q).desc = c.desc /\ Buffered(q).off = c.off
             /\ Buffered(q).written = c.written /\ Buffered(q).parsed = c.parsed
             /\ Buffered(q).got = c.got /\ Buffered(q).status = c.status
    <2> HIDE DEF c
    <2>1. Buffered(q) \in Cur
        <3>1. [c EXCEPT !.step = t, !.chunk = x] \in Cur /\ [c EXCEPT !.chunk = x] \in Cur
            BY <1>1, CurKeeps
        <3> QED
            BY <1>2, <3>1
    <2>2. DOMAIN c = {"id", "desc", "off", "written", "parsed", "chunk", "step", "got", "status"}
        BY <1>1 DEF Cur
    <2> QED
        BY <1>2, <2>1, <2>2
<1>3. CASE ~Loads(q)
    BY <1>1, <1>3 DEF Buffered
<1>4. CASE Loads(q) /\ q = "event"
    <2> DEFINE x == [k \in 1..Backlog |-> evSlot[(evTail + k - 1) % Ring]]
    <2>1. phase["event"] = "data" /\ evTail \in Nat
        BY <1>4, TypeFacts DEF Loads, RingTypes
    <2>2. x \in Seq(Stuff)
        <3>1. PICK n \in Nat : n = Backlog
            BY <2>1, WaitingFacts
        <3>2. \A k \in 1..n : evSlot[(evTail + k - 1) % Ring] \in Stuff
            BY <2>1, <3>1, WaitingFacts, StuffIs
        <3> QED
            BY <3>1, <3>2
    <2>3. Buffered(q) = [c EXCEPT !.step = evTail, !.chunk = x]
        BY <1>4 DEF Buffered
    <2> HIDE DEF x, c
    <2> QED
        BY <1>2, <2>1, <2>2, <2>3 DEF c
<1>5. CASE Loads(q) /\ q # "event" /\ dev = "rng"
    <2>1. draws + 1 \in Stuff
        <3>1. draws + 1 \in Nat
            <4>1. RingTypes
                BY TypeFacts
            <4> QED
                BY <4>1 DEF RingTypes
        <3> QED
            BY <3>1, StuffIs
    <2>2. <<draws + 1>> \in Seq(Stuff)
        BY <2>1, OneIsSeq
    <2>3. Buffered(q) = [c EXCEPT !.chunk = <<draws + 1>>]
        BY <1>5 DEF Buffered
    <2>4. 0 \in Nat
        OBVIOUS
    <2> HIDE DEF c
    <2> QED
        BY <1>2, <2>2, <2>3, <2>4 DEF c
<1>6. CASE Loads(q) /\ q # "event" /\ dev # "rng"
    <2> DEFINE x == IF CanRead(c.written) THEN medium[Place(c.written)] ELSE Junk
    <2>1. x \in Content
        <3>1. c.written \in Nat
            BY <1>1 DEF Cur
        <3>2. Place(c.written) \in Nat
            <4>1. sector \in Nat /\ SectorSize \in Nat /\ Top + 1 \in Nat \ {0}
                <5>1. BlockTypes /\ RingsAssumption
                    BY TypeFacts
                <5> QED
                    BY <5>1 DEF BlockTypes, RingsAssumption
            <4>2. sector * SectorSize \in Nat
                BY <4>1
            <4>3. PICK a \in Nat : a = sector * SectorSize + c.written
                BY <3>1, <4>2
            <4>4. a % (Top + 1) \in Nat
                BY <4>1, DivMod
            <4> QED
                BY <4>3, <4>4 DEF Place
        <3>3. CanRead(c.written) => Place(c.written) \in 0..(Size - 1)
            BY <3>2, TypeFacts DEF CanRead, OnMedium, RingsAssumption
        <3>4. Junk \in Content
            BY DEF Content
        <3>5. medium \in [0..(Size - 1) -> Content]
            BY TypeFacts DEF BlockTypes
        <3> QED
            BY <3>3, <3>4, <3>5
    <2>2. Buffered(q) = [c EXCEPT !.chunk = <<x>>]
        BY <1>6 DEF Buffered
    <2>3. <<x>> \in Seq(Stuff)
        <3> HIDE DEF x
        <3> QED
            BY <2>1, OneIsSeq, StuffIs
    <2>4. 0 \in Nat
        OBVIOUS
    <2> HIDE DEF x, c
    <2> QED
        BY <1>2, <2>2, <2>3, <2>4 DEF c
<1> QED
    BY <1>3, <1>4, <1>5, <1>6

LEMMA StartDoes ==
    ASSUME IInv, NEW q \in AllQueues, Start(q)
    PROVE  /\ UNCHANGED <<dev, driver, phase, last, type, sector, readOnly, medium, shadow, evRing,
                          stRing, received>>
           /\ mp = Nothing /\ mp' = q /\ Begins(q)
           /\ cur'[q] = Buffered(q) /\ \A p \in AllQueues : p # q => cur'[p] = cur[p]
           /\ cur' \in [AllQueues -> Cur]
           /\ \A p \in AllQueues :
                /\ cur'[p].id = cur[p].id /\ cur'[p].desc = cur[p].desc /\ cur'[p].off = cur[p].off
                /\ cur'[p].written = cur[p].written /\ cur'[p].parsed = cur[p].parsed
                /\ cur'[p].got = cur[p].got /\ cur'[p].status = cur[p].status
<1>1. /\ cur' = [cur EXCEPT ![q] = Buffered(q)] /\ mp = Nothing /\ mp' = q /\ Begins(q)
      /\ UNCHANGED <<dev, driver, phase, last, type, sector, readOnly, medium, shadow, evRing,
                     stRing, received>>
    BY DEF Start
<1>2. cur'[q] = Buffered(q) /\ cur' \in [AllQueues -> Cur] /\ \A p \in AllQueues : p # q => cur'[p] = cur[p]
    BY <1>1, LoadedType, Records
<1> QED
    BY <1>1, <1>2, LoadedType

\* The source of entropy and the input device at a descriptor.
LEMMA DescDoes ==
    ASSUME IInv, NEW q \in AllQueues, ReadDesc(q)
    PROVE  LET skipped == q = "status" /\ Desc(q).next = "next" IN
           /\ dev # "blk" /\ mp = q /\ mp' = Nothing /\ phase[q] = "desc"
           /\ phase'[q] = IF skipped THEN "desc" ELSE IF Desc(q).len = 0 THEN "used_elem" ELSE "data"
           /\ phase' \in [AllQueues -> Phases]
           /\ UNCHANGED <<driver, last>> /\ Elsewhere
           /\ cur' \in [AllQueues -> Cur] /\ cur'[q].off = 0
           /\ cur'[q].desc = IF skipped THEN cur[q].desc + 1 ELSE cur[q].desc
           /\ cur'[q].id = cur[q].id /\ cur'[q].written = cur[q].written /\ cur'[q].got = cur[q].got
           /\ \A p \in AllQueues : p # q => phase'[p] = phase[p] /\ cur'[p] = cur[p]
<1> DEFINE c == cur[q]
           skipped == q = "status" /\ Desc(q).next = "next"
           to == IF skipped THEN "desc" ELSE IF Desc(q).len = 0 THEN "used_elem" ELSE "data"
           d == IF skipped THEN c.desc + 1 ELSE c.desc
           r == [c EXCEPT !.off = 0, !.desc = d]
<1>1. dev # "blk" /\ Finish(q, "desc", to) /\ cur' = [cur EXCEPT ![q] = r] /\ UNCHANGED <<driver, last>> /\ Elsewhere
    BY DEF ReadDesc
<1>2. to \in Phases
    BY DEF Phases
<1>3. c \in Cur
    BY TypeFacts
<1>4. d \in Nat
    BY <1>3 DEF Cur
<1> HIDE DEF c, d
<1>5. r \in Cur /\ r.off = 0 /\ r.desc = d /\ r.id = c.id /\ r.written = c.written /\ r.got = c.got
    BY <1>3, <1>4, CurKeeps DEF Cur
<1> HIDE DEF r, to
<1>6. cur'[q] = r /\ cur' \in [AllQueues -> Cur] /\ \A p \in AllQueues : p # q => cur'[p] = cur[p]
    BY <1>1, <1>5, Records
<1>7. /\ mp = q /\ mp' = Nothing /\ phase[q] = "desc" /\ phase'[q] = to /\ phase' \in [AllQueues -> Phases]
      /\ \A p \in AllQueues : p # q => phase'[p] = phase[p]
    BY <1>1, <1>2, Finishes
<1> QED
    BY <1>1, <1>5, <1>6, <1>7 DEF to, d, c

\* The block device at a descriptor, at the header and at the status byte.
LEMMA BlockDescDoes ==
    ASSUME IInv, ReadBlockDesc
    PROVE  LET c == cur["req"] IN
           /\ dev = "blk" /\ mp = "req" /\ mp' = Nothing /\ phase["req"] = "desc" /\ phase'["req"] = BlockPhase
           /\ BlockPhase \in Phases /\ phase' \in [AllQueues -> Phases]
           /\ UNCHANGED <<driver, last>> /\ Elsewhere
           /\ cur' \in [AllQueues -> Cur] /\ cur'["req"].off = 0
           /\ cur'["req"].desc = (IF c.parsed /\ BlockPhase = "desc" THEN Onward("req") ELSE c.desc)
           /\ cur'["req"].parsed = (c.parsed \/ Desc("req").len > 0)
           /\ cur'["req"].id = c.id /\ cur'["req"].written = c.written /\ cur'["req"].got = c.got
           /\ cur'["req"].status = c.status
           /\ \A p \in AllQueues : p # "req" => phase'[p] = phase[p] /\ cur'[p] = cur[p]
<1> DEFINE c == cur["req"]
           d == IF c.parsed /\ BlockPhase = "desc" THEN Onward("req") ELSE c.desc
           b == c.parsed \/ Desc("req").len > 0
           r == [c EXCEPT !.off = 0, !.desc = d, !.parsed = b]
<1>1. /\ dev = "blk" /\ Finish("req", "desc", BlockPhase) /\ cur' = [cur EXCEPT !["req"] = r]
      /\ UNCHANGED <<driver, last>> /\ Elsewhere
    BY DEF ReadBlockDesc
<1>2. BlockPhase \in Phases
    <2>1. Desc("req").next \in {"next", "none", "stray"}
        BY <1>1, DescFacts DEF Finish, Moving
    <2> QED
        BY <2>1 DEF BlockPhase, Behind, Phases
<1>3. c \in Cur
    BY TypeFacts
<1>4. d \in Nat /\ b \in BOOLEAN
    BY <1>3 DEF Cur, Onward
<1> HIDE DEF c, d, b
<1>5. /\ r \in Cur /\ r.off = 0 /\ r.desc = d /\ r.parsed = b /\ r.id = c.id /\ r.written = c.written
      /\ r.got = c.got /\ r.status = c.status
    <2>1. r \in Cur
        BY <1>3, <1>4, CurKeeps
    <2>2. DOMAIN c = {"id", "desc", "off", "written", "parsed", "chunk", "step", "got", "status"}
        BY <1>3 DEF Cur
    <2> QED
        BY <2>1, <2>2
<1> HIDE DEF r
<1>6. /\ cur'["req"] = r /\ cur' \in [AllQueues -> Cur]
      /\ \A p \in AllQueues : p # "req" => cur'[p] = cur[p]
    BY <1>1, <1>5, Records
<1>7. /\ mp = "req" /\ mp' = Nothing /\ phase["req"] = "desc" /\ phase'["req"] = BlockPhase
      /\ phase' \in [AllQueues -> Phases]
      /\ \A p \in AllQueues : p # "req" => phase'[p] = phase[p]
    BY <1>1, <1>2, Finishes
<1> QED
    BY <1>1, <1>2, <1>5, <1>6, <1>7 DEF d, b, c

\* Only the block device has more to do than descriptors and data.
LEMMA BlockOnly ==
    ASSUME IInv, phase["req"] \in {"header", "status_byte"} PROVE dev = "blk"
<1>1. QueueInOrder("req") /\ dev \in {"blk", "rng", "input"}
    BY TypeFacts
<1>2. dev # "input"
    BY <1>1, QueuesAre DEF QueueInOrder
<1>3. dev # "rng"
    BY DEF IInv, LengthsInv, Moving
<1> QED
    BY <1>1, <1>2, <1>3

LEMMA HeaderDoes ==
    ASSUME IInv, ReadHeader
    PROVE  LET c == cur["req"] IN
           /\ dev = "blk" /\ mp = "req" /\ mp' = Nothing /\ phase["req"] = "header"
           /\ phase'["req"] = Behind("req", "used_elem") /\ phase' \in [AllQueues -> Phases]
           /\ UNCHANGED <<driver, last, dev, readOnly, medium, shadow, draws, evRing, stRing, received>>
           /\ cur' \in [AllQueues -> Cur]
           /\ Desc("req").next = "none" => UNCHANGED <<type, sector, st>> /\ cur'["req"] = c
           /\ Desc("req").next # "none" =>
                /\ type' = Current("req").what.type /\ sector' = Current("req").what.sector /\ st' = "ok"
                /\ cur'["req"].written = 0 /\ cur'["req"].desc = Onward("req")
           /\ cur'["req"].id = c.id /\ cur'["req"].status = c.status /\ cur'["req"].parsed = c.parsed
           /\ cur'["req"].got = c.got
           /\ \A p \in AllQueues : p # "req" => phase'[p] = phase[p] /\ cur'[p] = cur[p]
<1> DEFINE c == cur["req"]
           d == Onward("req")
           r == [c EXCEPT !.written = 0, !.desc = d]
<1>1. /\ Finish("req", "header", Behind("req", "used_elem"))
      /\ UNCHANGED <<driver, last, dev, readOnly, medium, shadow, draws, evRing, stRing, received>>
      /\ Desc("req").next = "none" => UNCHANGED <<type, sector, st>> /\ cur' = cur
      /\ Desc("req").next # "none" =>
           /\ type' = Current("req").what.type /\ sector' = Current("req").what.sector /\ st' = "ok"
           /\ cur' = [cur EXCEPT !["req"] = r]
    BY DEF ReadHeader, Status
<1>2. phase["req"] = "header" /\ dev = "blk"
    BY <1>1, BlockOnly DEF Finish
<1>3. Behind("req", "used_elem") \in Phases
    BY DescFacts, <1>2 DEF Behind, Phases, Moving
<1>4. c \in Cur
    BY TypeFacts
<1>5. d \in Nat
    BY <1>4 DEF Cur, Onward
<1> HIDE DEF c, d
<1>6. /\ r \in Cur /\ r.written = 0 /\ r.desc = d /\ r.id = c.id /\ r.status = c.status
      /\ r.parsed = c.parsed /\ r.got = c.got
    <2>1. r \in Cur
        BY <1>4, <1>5, CurKeeps
    <2>2. DOMAIN c = {"id", "desc", "off", "written", "parsed", "chunk", "step", "got", "status"}
        BY <1>4 DEF Cur
    <2> QED
        BY <2>1, <2>2
<1> HIDE DEF r
<1>7. Desc("req").next # "none" =>
        /\ cur'["req"] = r /\ cur' \in [AllQueues -> Cur]
        /\ \A p \in AllQueues : p # "req" => cur'[p] = cur[p]
    BY <1>1, <1>6, Records
<1>8. cur \in [AllQueues -> Cur]
    BY TypeFacts
<1>9. /\ mp = "req" /\ mp' = Nothing /\ phase'["req"] = Behind("req", "used_elem")
      /\ phase' \in [AllQueues -> Phases]
      /\ \A p \in AllQueues : p # "req" => phase'[p] = phase[p]
    BY <1>1, <1>3, Finishes
<1> QED
    BY <1>1, <1>2, <1>6, <1>7, <1>8, <1>9 DEF c, d

LEMMA StatusByteDoes ==
    ASSUME IInv, WriteStatusByte
    PROVE  LET c == cur["req"] IN
           /\ dev = "blk" /\ mp = "req" /\ mp' = Nothing /\ phase["req"] = "status_byte"
           /\ phase'["req"] = "used_elem" /\ phase' \in [AllQueues -> Phases]
           /\ UNCHANGED <<driver, last>> /\ Elsewhere
           /\ cur' \in [AllQueues -> Cur] /\ cur'["req"].status = st
           /\ cur'["req"].written = (IF type = "in" THEN c.written ELSE 0)
           /\ cur'["req"].id = c.id /\ cur'["req"].got = c.got /\ cur'["req"].desc = c.desc
           /\ \A p \in AllQueues : p # "req" => phase'[p] = phase[p] /\ cur'[p] = cur[p]
<1> DEFINE c == cur["req"]
           w == IF type = "in" THEN c.written ELSE 0
           r == [c EXCEPT !.status = st, !.written = w]
<1>1. /\ Finish("req", "status_byte", "used_elem") /\ cur' = [cur EXCEPT !["req"] = r]
      /\ UNCHANGED <<driver, last>> /\ Elsewhere
    BY DEF WriteStatusByte
<1>2. phase["req"] = "status_byte" /\ dev = "blk" /\ "used_elem" \in Phases
    BY <1>1, BlockOnly DEF Finish, Phases
<1>3. c \in Cur /\ BlockTypes
    BY TypeFacts
<1>4. w \in Nat /\ st \in States
    BY <1>3 DEF Cur, BlockTypes
<1> HIDE DEF c, w
<1>5. /\ r \in Cur /\ r.status = st /\ r.written = w /\ r.id = c.id /\ r.got = c.got /\ r.desc = c.desc
    <2>1. r \in Cur
        BY <1>3, <1>4, CurKeeps
    <2>2. DOMAIN c = {"id", "desc", "off", "written", "parsed", "chunk", "step", "got", "status"}
        BY <1>3 DEF Cur
    <2> QED
        BY <2>1, <2>2
<1> HIDE DEF r
<1>6. /\ cur'["req"] = r /\ cur' \in [AllQueues -> Cur]
      /\ \A p \in AllQueues : p # "req" => cur'[p] = cur[p]
    BY <1>1, <1>5, Records
<1>7. /\ mp = "req" /\ mp' = Nothing /\ phase'["req"] = "used_elem" /\ phase' \in [AllQueues -> Phases]
      /\ \A p \in AllQueues : p # "req" => phase'[p] = phase[p]
    BY <1>1, <1>2, Finishes
<1> QED
    BY <1>1, <1>2, <1>5, <1>6, <1>7 DEF c, w

\* The block device is at a request for blocks.
LEMMA BlockRequest ==
    ASSUME IInv, dev = "blk", phase["req"] \in Walking
    PROVE  Current("req").what \in Blocks /\ Current("req").what.sector \in Nat
<1> DEFINE s == Current("req")
<1>1. s = avail["req"][last["req"] + 1] /\ last["req"] + 1 \in 1..Len(avail["req"])
    BY RequestFacts
<1>2. GuestTypes
    BY TypeFacts
<1>3. PICK i \in 1..Len(avail["req"]) : i = last["req"] + 1
    BY <1>1
<1>4. avail["req"][i].what \in Blocks
    BY <1>2 DEF GuestTypes
<1>5. s.what \in Blocks
    BY <1>1, <1>3, <1>4
<1> QED
    BY <1>5, TypeFacts DEF RequestsAssumption

\* What the block device has read for the guest is what is on the medium.
LEMMA ReadingFacts ==
    ASSUME IInv, dev = "blk", phase["req"] = "data"
    PROVE  /\ cur["req"].parsed /\ cur["req"].desc > 1
           /\ Current("req").what.sector \in Nat /\ Moved \in Nat /\ Home(Current("req").what, Moved + 1) \in Nat
           /\ mp = "req" /\ type = "in" => cur["req"].chunk[1] \in Content
<1> DEFINE s == Current("req")
           c == cur["req"]
           h == Home(s.what, Moved + 1)
<1>1. c.parsed /\ c.desc > 1
      /\ (Reading => c.chunk = <<IF h < Size THEN shadow[h] ELSE Junk>>)
    BY DEF IInv, BlocksInv, Moving
<1>2. s \in Sendable /\ c.desc \in 1..Len(s.what.chain)
    BY DescFacts DEF Moving
<1>3. s.what.sector \in Nat
    BY BlockRequest DEF Walking, Moving
<1>4. Moved \in Nat
    <2>1. Base(s, c.desc - 1) \in Nat
        BY <1>2, Bases
    <2>2. c \in Cur
        BY TypeFacts
    <2>3. c.off \in Nat
        BY <2>2 DEF Cur
    <2> QED
        BY <2>1, <2>3 DEF Moved
<1>5. h \in Nat
    <2>1. SectorSize \in Nat
        BY TypeFacts DEF RingsAssumption
    <2>2. s.what.sector * SectorSize \in Nat
        BY <1>3, <2>1
    <2>3. PICK m \in Nat : m = Moved
        BY <1>4
    <2>4. s.what.sector * SectorSize + (m + 1) - 1 \in Nat
        BY <2>2
    <2> QED
        BY <2>3, <2>4 DEF Home
<1>6. ASSUME mp = "req", type = "in" PROVE c.chunk[1] \in Content
    <2>1. c.chunk = <<IF h < Size THEN shadow[h] ELSE Junk>>
        BY <1>1, <1>6 DEF Reading
    <2>2. c.chunk[1] = IF h < Size THEN shadow[h] ELSE Junk
        BY <2>1
    <2>3. Size \in Nat /\ shadow \in [0..(Size - 1) -> Content]
        <3>1. RingsAssumption /\ BlockTypes
            BY TypeFacts
        <3> QED
            BY <3>1 DEF RingsAssumption, BlockTypes
    <2> HIDE DEF h, c
    <2>4. h < Size => shadow[h] \in Content
        BY <1>5, <2>3
    <2> QED
        BY <2>2, <2>4 DEF Content
<1> QED
    BY <1>1, <1>3, <1>4, <1>5, <1>6

LEMMA BlockMoveDoes ==
    ASSUME IInv, MoveBlock
    PROVE  LET c == cur["req"]
               over == c.off + 1 >= Desc("req").len
               saves == type = "out" /\ CanWrite(c.written)
               piece == <<c.id, c.desc, c.off + 1>>
           IN
           /\ dev = "blk" /\ mp = "req" /\ mp' = Nothing /\ phase["req"] = "data"
           /\ phase'["req"] = (IF over THEN Behind("req", "status_byte") ELSE "data")
           /\ phase' \in [AllQueues -> Phases]
           /\ UNCHANGED <<driver, last, dev, type, sector, readOnly, shadow, draws, evRing, stRing, received>>
           /\ cur' \in [AllQueues -> Cur] /\ cur'["req"].off = c.off + 1
           /\ cur'["req"].written = (IF type \in {"in", "out"} THEN c.written + 1 ELSE c.written)
           /\ cur'["req"].got = (IF type = "in" THEN Append(c.got, [at |-> piece, is |-> c.chunk[1]]) ELSE c.got)
           /\ cur'["req"].desc = (IF over THEN Onward("req") ELSE c.desc)
           /\ cur'["req"].id = c.id /\ cur'["req"].status = c.status /\ cur'["req"].parsed = c.parsed
           /\ medium' = (IF saves THEN [medium EXCEPT ![Place(c.written)] = piece] ELSE medium)
           /\ medium' \in [0..(Size - 1) -> Content] /\ piece \in Piece
           /\ st' = (IF type = "out" /\ ~saves THEN "ioerr" ELSE IF type = "other" THEN "unsupp" ELSE st)
           /\ st' \in States
           /\ \A p \in AllQueues : p # "req" => phase'[p] = phase[p] /\ cur'[p] = cur[p]
<1> DEFINE c == cur["req"]
           over == c.off + 1 >= Desc("req").len
           saves == type = "out" /\ CanWrite(c.written)
           piece == <<c.id, c.desc, c.off + 1>>
           to == IF over THEN Behind("req", "status_byte") ELSE "data"
           o == c.off + 1
           w == IF type \in {"in", "out"} THEN c.written + 1 ELSE c.written
           g == IF type = "in" THEN Append(c.got, [at |-> piece, is |-> c.chunk[1]]) ELSE c.got
           d == IF over THEN Onward("req") ELSE c.desc
           r == [c EXCEPT !.off = o, !.written = w, !.got = g, !.desc = d]
<1>1. /\ dev = "blk" /\ mp = "req" /\ phase["req"] = "data" /\ Finish("req", "data", to)
      /\ UNCHANGED <<driver, last, dev, type, sector, readOnly, shadow, draws, evRing, stRing, received>>
      /\ cur' = [cur EXCEPT !["req"] = r]
      /\ medium' = (IF saves THEN [medium EXCEPT ![Place(c.written)] = piece] ELSE medium)
      /\ st' = (IF type = "out" /\ ~saves THEN "ioerr" ELSE IF type = "other" THEN "unsupp" ELSE st)
    BY DEF MoveBlock, Offset
<1>2. c \in Cur /\ BlockTypes
    BY TypeFacts
<1>3. /\ c.off \in Nat /\ c.written \in Nat /\ c.desc \in Nat /\ c.id \in Nat /\ c.got \in Seq(Stuff)
      /\ st \in States /\ medium \in [0..(Size - 1) -> Content]
    BY <1>2 DEF Cur, BlockTypes
<1>4. piece \in Piece
    BY <1>3 DEF Piece
<1>5. o \in Nat /\ w \in Nat /\ d \in Nat
    BY <1>3 DEF Onward
<1>6. to \in Phases
    BY <1>1, DescFacts DEF Behind, Phases, Moving
<1>7. g \in Seq(Stuff)
    <2>1. CASE type = "in"
        <3> HIDE DEF piece, c
        <3>1. c.chunk[1] \in Content
            BY <1>1, <2>1, ReadingFacts DEF c
        <3>2. [at |-> piece, is |-> c.chunk[1]] \in Stuff
            BY <1>4, <3>1, StuffIs
        <3> QED
            BY <1>3, <2>1, <3>2, AppendKeeps
    <2>2. CASE type # "in"
        BY <1>3, <2>2
    <2> QED
        BY <2>1, <2>2
<1>8. medium' \in [0..(Size - 1) -> Content] /\ st' \in States
    <2>1. piece \in Content
        BY <1>4 DEF Content
    <2>2. st' \in States
        BY <1>1, <1>3 DEF States
    <2> HIDE DEF piece
    <2> QED
        BY <1>1, <1>3, <2>1, <2>2
<1> HIDE DEF c, o, w, g, d
<1>9. /\ r \in Cur /\ r.off = o /\ r.written = w /\ r.got = g /\ r.desc = d /\ r.id = c.id
      /\ r.status = c.status /\ r.parsed = c.parsed
    <2>1. r \in Cur
        BY <1>2, <1>5, <1>7, CurKeeps
    <2>2. DOMAIN c = {"id", "desc", "off", "written", "parsed", "chunk", "step", "got", "status"}
        BY <1>2 DEF Cur
    <2> QED
        BY <2>1, <2>2
<1> HIDE DEF r, to
<1>10. /\ cur'["req"] = r /\ cur' \in [AllQueues -> Cur]
       /\ \A p \in AllQueues : p # "req" => cur'[p] = cur[p]
    BY <1>1, <1>9, Records
<1>11. /\ mp' = Nothing /\ phase'["req"] = to /\ phase' \in [AllQueues -> Phases]
       /\ \A p \in AllQueues : p # "req" => phase'[p] = phase[p]
    BY <1>1, <1>6, Finishes
<1> QED
    BY <1>1, <1>4, <1>8, <1>9, <1>10, <1>11 DEF c, o, w, g, d, to

LEMMA EntropyDoes ==
    ASSUME IInv, MoveEntropy
    PROVE  LET c == cur["req"]
               over == c.off + 1 >= Desc("req").len
           IN
           /\ dev = "rng" /\ mp = "req" /\ mp' = Nothing /\ phase["req"] = "data"
           /\ phase'["req"] = (IF over THEN Behind("req", "used_elem") ELSE "data")
           /\ phase' \in [AllQueues -> Phases]
           /\ UNCHANGED <<driver, last>> /\ Elsewhere
           /\ cur' \in [AllQueues -> Cur] /\ cur'["req"].off = c.off + 1
           /\ cur'["req"].written = c.written + 1 /\ cur'["req"].got = c.got \o c.chunk
           /\ cur'["req"].desc = (IF over THEN Onward("req") ELSE c.desc)
           /\ cur'["req"].id = c.id
           /\ \A p \in AllQueues : p # "req" => phase'[p] = phase[p] /\ cur'[p] = cur[p]
<1> DEFINE c == cur["req"]
           over == c.off + 1 >= Desc("req").len
           to == IF over THEN Behind("req", "used_elem") ELSE "data"
           o == c.off + 1
           w == c.written + 1
           g == c.got \o c.chunk
           d == IF over THEN Onward("req") ELSE c.desc
           r == [c EXCEPT !.off = o, !.written = w, !.got = g, !.desc = d]
<1>1. /\ dev = "rng" /\ mp = "req" /\ phase["req"] = "data" /\ Finish("req", "data", to)
      /\ UNCHANGED <<driver, last>> /\ Elsewhere /\ cur' = [cur EXCEPT !["req"] = r]
    BY DEF MoveEntropy
<1>2. c \in Cur
    BY TypeFacts
<1>3. /\ c.off \in Nat /\ c.written \in Nat /\ c.desc \in Nat /\ c.got \in Seq(Stuff) /\ c.chunk \in Seq(Stuff)
    BY <1>2 DEF Cur
<1>4. o \in Nat /\ w \in Nat /\ d \in Nat /\ g \in Seq(Stuff)
    BY <1>3 DEF Onward
<1>5. to \in Phases
    BY <1>1, DescFacts DEF Behind, Phases, Moving
<1> HIDE DEF c, o, w, g, d
<1>6. /\ r \in Cur /\ r.off = o /\ r.written = w /\ r.got = g /\ r.desc = d /\ r.id = c.id
    <2>1. r \in Cur
        BY <1>2, <1>4, CurKeeps
    <2>2. DOMAIN c = {"id", "desc", "off", "written", "parsed", "chunk", "step", "got", "status"}
        BY <1>2 DEF Cur
    <2> QED
        BY <2>1, <2>2
<1> HIDE DEF r, to
<1>7. /\ cur'["req"] = r /\ cur' \in [AllQueues -> Cur]
      /\ \A p \in AllQueues : p # "req" => cur'[p] = cur[p]
    BY <1>1, <1>6, Records
<1>8. /\ mp' = Nothing /\ phase'["req"] = to /\ phase' \in [AllQueues -> Phases]
      /\ \A p \in AllQueues : p # "req" => phase'[p] = phase[p]
    BY <1>1, <1>5, Finishes
<1> QED
    BY <1>1, <1>6, <1>7, <1>8 DEF c, o, w, g, d, to

LEMMA EventsMoveDoes ==
    ASSUME IInv, MoveEvents
    PROVE  LET c == cur["event"] IN
           /\ mp = "event" /\ mp' = Nothing /\ phase["event"] = "data" /\ phase'["event"] = "used_elem"
           /\ phase' \in [AllQueues -> Phases] /\ evTail' = c.step + Len(c.chunk) /\ evTail' \in Nat
           /\ UNCHANGED <<dev, driver, last, block, draws, evSlot, evHead, pushing, pushed, stRing, received>>
           /\ cur' \in [AllQueues -> Cur] /\ cur'["event"].written = Len(c.chunk)
           /\ cur'["event"].got = c.chunk /\ cur'["event"].id = c.id
           /\ \A p \in AllQueues : p # "event" => phase'[p] = phase[p] /\ cur'[p] = cur[p]
<1> DEFINE c == cur["event"]
           w == Len(c.chunk)
           g == c.chunk
           r == [c EXCEPT !.written = w, !.got = g]
<1>1. /\ Finish("event", "data", "used_elem") /\ evTail' = c.step + Len(c.chunk)
      /\ UNCHANGED <<dev, driver, last, block, draws, evSlot, evHead, pushing, pushed, stRing, received>>
      /\ cur' = [cur EXCEPT !["event"] = r]
    BY DEF MoveEvents, NextTail
<1>2. c \in Cur /\ "used_elem" \in Phases
    BY TypeFacts DEF Phases
<1>3. w \in Nat /\ g \in Seq(Stuff) /\ c.step \in Nat
    BY <1>2 DEF Cur
<1>4. c.step + w \in Nat
    BY <1>3
<1> HIDE DEF c, w, g
<1>5. r \in Cur /\ r.written = w /\ r.got = g /\ r.id = c.id
    <2>1. r \in Cur
        BY <1>2, <1>3, CurKeeps
    <2>2. DOMAIN c = {"id", "desc", "off", "written", "parsed", "chunk", "step", "got", "status"}
        BY <1>2 DEF Cur
    <2> QED
        BY <2>1, <2>2
<1> HIDE DEF r
<1>6. /\ cur'["event"] = r /\ cur' \in [AllQueues -> Cur]
      /\ \A p \in AllQueues : p # "event" => cur'[p] = cur[p]
    BY <1>1, <1>5, Records
<1>7. /\ mp = "event" /\ mp' = Nothing /\ phase["event"] = "data" /\ phase'["event"] = "used_elem"
      /\ phase' \in [AllQueues -> Phases] /\ \A p \in AllQueues : p # "event" => phase'[p] = phase[p]
    BY <1>1, <1>2, Finishes
<1> QED
    BY <1>1, <1>4, <1>5, <1>6, <1>7 DEF c, w, g

LEMMA StatusMoveDoes ==
    ASSUME IInv, MoveStatus
    PROVE  LET c == cur["status"] IN
           /\ mp = "status" /\ mp' = Nothing /\ phase["status"] = "data" /\ phase'["status"] = "used_elem"
           /\ phase' \in [AllQueues -> Phases] /\ c.id \in Nat
           /\ HasRoom => /\ stSlot' = [stSlot EXCEPT ![stHead % Ring] = c.id] /\ stHead' = stHead + 1
                         /\ accepted' = Append(accepted, c.id) /\ overran' = overran
           /\ ~HasRoom => overran' = TRUE /\ stSlot' = stSlot /\ stHead' = stHead /\ accepted' = accepted
           /\ UNCHANGED <<dev, driver, last, block, draws, evRing, stTail, popping, popped, received>>
           /\ cur' \in [AllQueues -> Cur] /\ cur'["status"].id = c.id
           /\ \A p \in AllQueues : p # "status" => phase'[p] = phase[p] /\ cur'[p] = cur[p]
<1> DEFINE c == cur["status"]
           r == [c EXCEPT !.written = 0]
<1>1. /\ Finish("status", "data", "used_elem") /\ cur' = [cur EXCEPT !["status"] = r]
      /\ UNCHANGED <<dev, driver, last, block, draws, evRing, stTail, popping, popped, received>>
      /\ HasRoom => /\ stSlot' = [stSlot EXCEPT ![stHead % Ring] = c.id] /\ stHead' = stHead + 1
                    /\ accepted' = Append(accepted, c.id) /\ overran' = overran
      /\ ~HasRoom => overran' = TRUE /\ stSlot' = stSlot /\ stHead' = stHead /\ accepted' = accepted
    BY DEF MoveStatus
<1>2. c \in Cur /\ "used_elem" \in Phases
    BY TypeFacts DEF Phases
<1>3. c.id \in Nat
    BY <1>2 DEF Cur
<1> HIDE DEF c
<1>4. r \in Cur /\ r.id = c.id
    <2>1. r \in Cur
        <3>1. 0 \in Nat /\ "ok" \in States
            BY DEF States
        <3> QED
            BY <1>2, <3>1, CurKeeps
    <2>2. DOMAIN c = {"id", "desc", "off", "written", "parsed", "chunk", "step", "got", "status"}
        BY <1>2 DEF Cur
    <2> QED
        BY <2>1, <2>2
<1> HIDE DEF r
<1>5. /\ cur'["status"] = r /\ cur' \in [AllQueues -> Cur]
      /\ \A p \in AllQueues : p # "status" => cur'[p] = cur[p]
    BY <1>1, <1>4, Records
<1>6. /\ mp = "status" /\ mp' = Nothing /\ phase["status"] = "data" /\ phase'["status"] = "used_elem"
      /\ phase' \in [AllQueues -> Phases] /\ \A p \in AllQueues : p # "status" => phase'[p] = phase[p]
    BY <1>1, <1>2, Finishes
<1> QED
    BY <1>1, <1>3, <1>4, <1>5, <1>6 DEF c

\* A queue on which nothing happens.
Still(p) ==
    /\ phase'[p] = phase[p] /\ last'[p] = last[p] /\ cur'[p] = cur[p]
    /\ avail'[p] = avail[p] /\ used'[p] = used[p] /\ posts'[p] = posts[p] /\ ready'[p] = ready[p]

LEMMA StartsOver ==
    ASSUME IInv, NEW q \in AllQueues, EnableQueue(q) \/ DisableQueue(q)
    PROVE  /\ phase'[q] = "idle" /\ last'[q] = 0 /\ avail'[q] = <<>> /\ used'[q] = <<>>
           /\ \A p \in AllQueues : p # q => Still(p)
           /\ cur' = cur /\ posts' = posts /\ Elsewhere /\ mp' \in {mp, Nothing}
           /\ resets' \in Nat /\ (resets' = 0 => resets = 0 /\ phase[q] = "idle")
           /\ phase' \in [AllQueues -> Phases] /\ last' \in [AllQueues -> Nat]
           /\ avail' \in [AllQueues -> Seq(Sendable)] /\ used' \in [AllQueues -> Seq([id : Nat, len : Nat])]
           /\ ready' \in [AllQueues -> BOOLEAN]
<1>1. StartOver(q) /\ cur' = cur /\ posts' = posts /\ Elsewhere
    BY DEF EnableQueue, DisableQueue
<1>2. GuestTypes /\ WalkTypes /\ QueueInOrder(q)
    BY TypeFacts
<1>3. resets \in Nat /\ ready \in [AllQueues -> BOOLEAN]
    BY <1>2 DEF GuestTypes
<1>4. /\ mp' \in {mp, Nothing} /\ resets' \in Nat /\ (resets' = 0 => resets = 0 /\ phase[q] = "idle")
      /\ ready' \in [AllQueues -> BOOLEAN] /\ \A p \in AllQueues : p # q => ready'[p] = ready[p]
    <2>1. CASE EnableQueue(q)
        BY <1>2, <1>3, <2>1 DEF EnableQueue, QueueInOrder
    <2>2. CASE DisableQueue(q)
        <3>1. /\ resets' = resets + 1 /\ ready' = [ready EXCEPT ![q] = FALSE]
              /\ mp' = IF mp = q THEN Nothing ELSE mp
            BY <2>2 DEF DisableQueue
        <3>2. resets' \in Nat /\ resets' # 0
            BY <1>3, <3>1
        <3> QED
            BY <1>3, <3>1, <3>2
    <2> QED
        BY <2>1, <2>2
<1>5. /\ phase \in [AllQueues -> Phases] /\ last \in [AllQueues -> Nat] /\ avail \in [AllQueues -> Seq(Sendable)]
      /\ used \in [AllQueues -> Seq([id : Nat, len : Nat])]
    BY TypeFacts
<1>6. /\ phase' = [phase EXCEPT ![q] = "idle"] /\ last' = [last EXCEPT ![q] = 0]
      /\ avail' = [avail EXCEPT ![q] = <<>>] /\ used' = [used EXCEPT ![q] = <<>>]
    BY <1>1 DEF StartOver
<1>7. /\ phase'[q] = "idle" /\ last'[q] = 0 /\ avail'[q] = <<>> /\ used'[q] = <<>>
      /\ \A p \in AllQueues : p # q =>
           phase'[p] = phase[p] /\ last'[p] = last[p] /\ avail'[p] = avail[p] /\ used'[p] = used[p]
    BY <1>5, <1>6
<1>8. "idle" \in Phases /\ <<>> \in Seq(Sendable) /\ <<>> \in Seq([id : Nat, len : Nat])
    BY DEF Phases
<1>9. /\ phase' \in [AllQueues -> Phases] /\ last' \in [AllQueues -> Nat] /\ avail' \in [AllQueues -> Seq(Sendable)]
      /\ used' \in [AllQueues -> Seq([id : Nat, len : Nat])]
    BY <1>5, <1>6, <1>8
<1> QED
    BY <1>1, <1>4, <1>7, <1>9 DEF Still

LEMMA PostDoes ==
    ASSUME IInv, NEW q \in AllQueues, Post(q)
    PROVE  /\ q \in Queues => \E r \in Sendable :
                /\ r.id = posts[q] + 1 /\ avail'[q] = Append(avail[q], r)
                /\ r.what \in Offers(q)
                /\ avail' \in [AllQueues -> Seq(Sendable)]
           /\ posts'[q] = posts[q] + 1 /\ posts' \in [AllQueues -> Nat]
           /\ \A p \in AllQueues : p # q => Still(p)
           /\ UNCHANGED <<ok, ready, used, resets, walk>> /\ Elsewhere
<1>1. /\ posts' = [posts EXCEPT ![q] = posts[q] + 1] /\ UNCHANGED <<ok, ready, used, resets, walk>> /\ Elsewhere
      /\ \E r \in Offers(q) : avail' = [avail EXCEPT ![q] = Append(avail[q], [id |-> posts'[q], what |-> r])]
    BY DEF Post
<1>2. posts \in [AllQueues -> Nat] /\ avail \in [AllQueues -> Seq(Sendable)] /\ dev \in {"blk", "rng", "input"}
    BY TypeFacts
<1>3. PICK r \in Offers(q) : avail' = [avail EXCEPT ![q] = Append(avail[q], [id |-> posts'[q], what |-> r])]
    BY <1>1
<1>4. posts'[q] = posts[q] + 1 /\ posts[q] + 1 \in Nat /\ posts' \in [AllQueues -> Nat]
    BY <1>1, <1>2
<1>5. ASSUME q \in Queues
      PROVE [id |-> posts[q] + 1, what |-> r] \in Sendable
    <2>1. r \in Blocks \cup Reads \cup EventBuffers \cup StatusChains
        BY <1>3 DEF Offers
    <2>2. IsChain(r.chain)
        BY <2>1, TypeFacts DEF RequestsAssumption
    <2> QED
        BY <1>4, <2>1, <2>2 DEF Sendable
<1>6. \A p \in AllQueues : p # q => Still(p)
    BY <1>1, <1>2, <1>3 DEF Still, walk
<1>7. avail'[q] = Append(avail[q], [id |-> posts[q] + 1, what |-> r])
    BY <1>2, <1>3, <1>4
<1>8. ASSUME q \in Queues PROVE avail' \in [AllQueues -> Seq(Sendable)]
    <2> DEFINE new == [id |-> posts[q] + 1, what |-> r]
    <2>1. new \in Sendable
        BY <1>5, <1>8
    <2> HIDE DEF new
    <2>2. Append(avail[q], new) \in Seq(Sendable)
        BY <1>2, <2>1, AppendKeeps
    <2>3. avail' = [avail EXCEPT ![q] = Append(avail[q], new)]
        BY <1>3, <1>4 DEF new
    <2> QED
        BY <1>2, <2>2, <2>3
<1>9. ASSUME q \in Queues
      PROVE \E x \in Sendable : /\ x.id = posts[q] + 1 /\ avail'[q] = Append(avail[q], x) /\ x.what \in Offers(q)
                                /\ avail' \in [AllQueues -> Seq(Sendable)]
    <2> DEFINE x == [id |-> posts[q] + 1, what |-> r]
    <2>1. x \in Sendable /\ x.id = posts[q] + 1 /\ x.what = r
        BY <1>5, <1>9
    <2>2. avail'[q] = Append(avail[q], x)
        BY <1>7
    <2> HIDE DEF x
    <2> QED
        BY <1>3, <1>8, <1>9, <2>1, <2>2
<1> QED
    BY <1>1, <1>4, <1>6, <1>9

\* The index of the used ring goes on.
LEMMA IndexDoes ==
    ASSUME IInv, NEW q \in AllQueues, WriteUsedIdx(q)
    PROVE  /\ mp = q /\ mp' = Nothing /\ phase[q] = "used_idx" /\ phase'[q] = "avail_idx"
           /\ phase' \in [AllQueues -> Phases] /\ last' \in [AllQueues -> Nat]
           /\ used' \in [AllQueues -> Seq([id : Nat, len : Nat])]
           /\ used'[q] = Append(used[q], [id |-> cur[q].id, len |-> cur[q].written])
           /\ last'[q] = last[q] + 1
           /\ received' = (IF q \in {"req", "event"} /\ dev # "blk" THEN received \o cur[q].got ELSE received)
           /\ UNCHANGED <<dev, ok, ready, posts, avail, resets, cur, block, draws, evRing, stRing>>
           /\ \A p \in AllQueues : p # q => Still(p)
<1> DEFINE e == [id |-> cur[q].id, len |-> cur[q].written]
<1>1. /\ Finish(q, "used_idx", "avail_idx")
      /\ used' = [used EXCEPT ![q] = Append(used[q], e)] /\ last' = [last EXCEPT ![q] = last[q] + 1]
      /\ received' = (IF q \in {"req", "event"} /\ dev # "blk" THEN received \o cur[q].got ELSE received)
      /\ UNCHANGED <<dev, ok, ready, posts, avail, resets, cur, block, draws, evRing, stRing>>
    BY DEF WriteUsedIdx
<1>2. cur[q] \in Cur /\ last \in [AllQueues -> Nat] /\ used \in [AllQueues -> Seq([id : Nat, len : Nat])]
    BY TypeFacts
<1>3. e \in [id : Nat, len : Nat]
    BY <1>2 DEF Cur
<1> HIDE DEF e
<1>4. Append(used[q], e) \in Seq([id : Nat, len : Nat])
    BY <1>2, <1>3, AppendKeeps
<1>5. used' \in [AllQueues -> Seq([id : Nat, len : Nat])] /\ last' \in [AllQueues -> Nat]
    <2>1. last[q] + 1 \in Nat
        BY <1>2
    <2> QED
        BY <1>1, <1>2, <1>4, <2>1
<1>6. /\ used'[q] = Append(used[q], e) /\ last'[q] = last[q] + 1
      /\ \A p \in AllQueues : p # q => used'[p] = used[p] /\ last'[p] = last[p]
    BY <1>1, <1>2
<1>7. "avail_idx" \in Phases
    BY DEF Phases
<1>8. /\ mp = q /\ mp' = Nothing /\ phase[q] = "used_idx" /\ phase'[q] = "avail_idx" /\ phase' \in [AllQueues -> Phases]
      /\ \A p \in AllQueues : p # q => phase'[p] = phase[p]
    BY <1>1, <1>7, Finishes
<1> QED
    BY <1>1, <1>5, <1>6, <1>8 DEF e, Still

\* The index of the available ring, and the request at that place.
LEMMA AvailDoes ==
    ASSUME IInv, NEW q \in AllQueues, ReadAvailIdx(q)
    PROVE  /\ mp = q /\ mp' = Nothing /\ phase[q] = "avail_idx"
           /\ phase'[q] = (IF Len(avail[q]) = last[q] THEN "idle" ELSE "ring")
           /\ phase' \in [AllQueues -> Phases]
           /\ UNCHANGED <<driver, last, cur>> /\ Elsewhere
           /\ \A p \in AllQueues : p # q => Still(p)
<1>1. /\ Finish(q, "avail_idx", IF Len(avail[q]) = last[q] THEN "idle" ELSE "ring")
      /\ UNCHANGED <<driver, last, cur>> /\ Elsewhere
    BY DEF ReadAvailIdx
<1>2. (IF Len(avail[q]) = last[q] THEN "idle" ELSE "ring") \in Phases
    BY DEF Phases
<1> QED
    BY <1>1, <1>2, Finishes DEF Still, driver

LEMMA RingDoes ==
    ASSUME IInv, NEW q \in AllQueues, ReadRing(q)
    PROVE  /\ mp = q /\ mp' = Nothing /\ phase[q] = "ring" /\ phase'[q] = "desc"
           /\ phase' \in [AllQueues -> Phases] /\ cur' \in [AllQueues -> Cur] /\ shadow' = medium
           /\ cur'[q].id = Current(q).id /\ cur'[q].desc = 1 /\ cur'[q].off = 0 /\ cur'[q].written = 0
           /\ cur'[q].parsed = FALSE /\ cur'[q].got = <<>> /\ cur'[q].status = Nothing
           /\ UNCHANGED <<driver, last, dev, type, sector, st, readOnly, medium, draws, evRing, stRing, received>>
           /\ \A p \in AllQueues : p # q => Still(p)
<1> DEFINE r == [Fresh EXCEPT !.id = Current(q).id]
<1>1. /\ Finish(q, "ring", "desc") /\ cur' = [cur EXCEPT ![q] = r] /\ shadow' = medium
      /\ UNCHANGED <<driver, last, dev, type, sector, st, readOnly, medium, draws, evRing, stRing, received>>
    BY DEF ReadRing, Taken
<1>2. Current(q) \in Sendable /\ "desc" \in Phases
    BY <1>1, RequestFacts DEF Finish, Phases
<1>3. Current(q).id \in Nat
    BY <1>2, ChainType
<1>4. /\ r \in Cur /\ r.id = Current(q).id /\ r.desc = 1 /\ r.off = 0 /\ r.written = 0
      /\ r.parsed = FALSE /\ r.got = <<>> /\ r.status = Nothing
    <2>1. PICK i \in Nat : i = Current(q).id
        BY <1>3
    <2>2. PICK f : f = Fresh
        OBVIOUS
    <2>3. /\ f \in Cur /\ f.desc = 1 /\ f.off = 0 /\ f.written = 0 /\ f.parsed = FALSE /\ f.got = <<>>
          /\ f.status = Nothing
        BY <2>2, FreshType DEF Fresh
    <2>4. DOMAIN f = {"id", "desc", "off", "written", "parsed", "chunk", "step", "got", "status"}
        BY <2>3 DEF Cur
    <2>5. [f EXCEPT !.id = i] \in Cur
        BY <2>3 DEF Cur
    <2> QED
        BY <2>1, <2>2, <2>3, <2>4, <2>5
<1> HIDE DEF r
<1>5. cur'[q] = r /\ cur' \in [AllQueues -> Cur] /\ \A p \in AllQueues : p # q => cur'[p] = cur[p]
    BY <1>1, <1>4, Records
<1> QED
    BY <1>1, <1>2, <1>4, <1>5, Finishes DEF Still, driver

LEMMA UsedElemDoes ==
    ASSUME IInv, NEW q \in AllQueues, WriteUsedElem(q)
    PROVE  /\ mp = q /\ mp' = Nothing /\ phase[q] = "used_elem" /\ phase'[q] = "used_idx"
           /\ phase' \in [AllQueues -> Phases]
           /\ UNCHANGED <<driver, last, cur>> /\ Elsewhere
           /\ \A p \in AllQueues : p # q => Still(p)
<1>1. Finish(q, "used_elem", "used_idx") /\ UNCHANGED <<driver, last, cur>> /\ Elsewhere
    BY DEF WriteUsedElem
<1>2. "used_idx" \in Phases
    BY DEF Phases
<1> QED
    BY <1>1, <1>2, Finishes DEF Still, driver

\* A queue is woken: by the driver, or by an event.
LEMMA WakeDoes ==
    ASSUME IInv, NEW q \in AllQueues, Notify(q) \/ (q = "event" /\ Wake)
    PROVE  /\ phase[q] = "idle" /\ phase'[q] = "avail_idx" /\ ready[q] /\ phase' \in [AllQueues -> Phases]
           /\ UNCHANGED <<driver, last, cur, mp>> /\ Elsewhere
           /\ (Wake => q \in Queues)
           /\ \A p \in AllQueues : p # q => Still(p)
<1>1. /\ phase' = [phase EXCEPT ![q] = "avail_idx"] /\ UNCHANGED <<driver, last, cur, mp>> /\ Elsewhere
      /\ phase[q] = "idle" /\ ready[q]
    BY DEF Notify, Wake, WakesUp
<1>2. phase \in [AllQueues -> Phases] /\ "avail_idx" \in Phases
    BY TypeFacts DEF Phases
<1>3. phase'[q] = "avail_idx" /\ phase' \in [AllQueues -> Phases] /\ \A p \in AllQueues : p # q => phase'[p] = phase[p]
    BY <1>1, <1>2
<1>4. Wake => q \in Queues
    <2> SUFFICES ASSUME Wake PROVE q \in Queues
        OBVIOUS
    <2>1. dev = "input"
        BY DEF Wake, WakesUp
    <2>2. CASE q = "event"
        BY <2>1, <2>2, QueuesAre
    <2>3. CASE Notify(q) /\ q # "event"
        <3>1. phase'["event"] = "avail_idx" /\ phase["event"] = "idle"
            BY <1>2 DEF Wake, WakesUp
        <3>2. phase'["event"] = phase["event"]
            BY <1>3, <2>3
        <3> QED
            BY <3>1, <3>2
    <2> QED
        BY <2>2, <2>3
<1> QED
    BY <1>1, <1>3, <1>4 DEF Still, driver

\* The steps, in groups.
WalkStep(q) ==
    \/ Notify(q) \/ Start(q) \/ ReadAvailIdx(q) \/ ReadRing(q) \/ ReadDesc(q) \/ WriteUsedElem(q)
BlockStep == ReadBlockDesc \/ ReadHeader \/ MoveBlock \/ WriteStatusByte
MoveStep == MoveEntropy \/ MoveEvents \/ MoveStatus
HostStep == DriverOk \/ Push \/ PushDone \/ Pop \/ PopDone

LEMMA StepCases ==
    ASSUME IInv, DevicesNext
    PROVE  \/ ResetDevice \/ Wake \/ BlockStep \/ MoveStep \/ HostStep
           \/ \E q \in AllQueues : q \in Queues /\
                (EnableQueue(q) \/ DisableQueue(q) \/ Post(q) \/ WriteUsedIdx(q) \/ WalkStep(q))
<1>1. Queues \subseteq AllQueues
    BY TypeFacts, QueuesAre
<1> QED
    BY <1>1 DEF DevicesNext, Walk, WalkStep, BlockStep, MoveStep, HostStep

LEMMA GuestStill ==
    ASSUME NEW q, Wake \/ BlockStep \/ MoveStep \/ HostStep \/ WalkStep(q)
    PROVE  UNCHANGED <<dev, ready, posts, avail, used, resets>>
<1>1. CASE WalkStep(q)
    BY <1>1 DEF WalkStep, Notify, Start, ReadAvailIdx, ReadRing, ReadDesc, WriteUsedElem, Elsewhere, driver
<1>2. CASE BlockStep
    BY <1>2 DEF BlockStep, ReadBlockDesc, ReadHeader, MoveBlock, WriteStatusByte, Elsewhere, driver
<1>3. CASE MoveStep
    BY <1>3 DEF MoveStep, MoveEntropy, MoveEvents, MoveStatus, Elsewhere, driver
<1>4. CASE HostStep
    BY <1>4 DEF HostStep, DriverOk, Push, PushDone, Pop, PopDone, Elsewhere, driver
<1>5. CASE Wake
    BY <1>5 DEF Wake, Elsewhere, driver
<1> QED
    BY <1>1, <1>2, <1>3, <1>4, <1>5

LEMMA HostStill ==
    ASSUME HostStep
    PROVE  /\ UNCHANGED <<dev, ready, posts, avail, used, resets, phase, last, cur, mp>>
           /\ UNCHANGED <<type, sector, st, readOnly, medium, shadow, draws, received>>
           /\ \A p : Still(p)
BY DEF HostStep, DriverOk, Push, PushDone, Pop, PopDone, Elsewhere, driver, walk, block, Still

LEMMA GuestTypesKeep == ASSUME IInv, DevicesNext PROVE GuestTypes'
<1>1. GuestTypes
    BY TypeFacts
<1>2. ASSUME UNCHANGED <<dev, ready, posts, avail, used, resets>> PROVE GuestTypes'
    BY <1>1, <1>2 DEF GuestTypes
<1>3. CASE ResetDevice
    <2>1. /\ dev' = dev /\ posts' = posts /\ resets' = resets + 1 /\ ready' = [q \in AllQueues |-> FALSE]
          /\ avail' = [q \in AllQueues |-> <<>>] /\ used' = [q \in AllQueues |-> <<>>]
        BY <1>3 DEF ResetDevice, Elsewhere
    <2>2. \A S : <<>> \in Seq(S)
        OBVIOUS
    <2>3. resets' \in Nat /\ avail'["req"] = <<>> /\ Len(avail'["req"]) = 0
        BY <1>1, <2>1 DEF GuestTypes
    <2> QED
        BY <1>1, <2>1, <2>2, <2>3 DEF GuestTypes
<1>4. ASSUME NEW q \in AllQueues, EnableQueue(q) \/ DisableQueue(q) PROVE GuestTypes'
    <2>1. avail'["req"] = avail["req"] \/ avail'["req"] = <<>>
        BY <1>4, StartsOver DEF Still
    <2>2. dev' = dev
        BY <1>4, StartsOver DEF Elsewhere
    <2>3. \A i \in 1..Len(avail'["req"]) : avail'["req"][i].what \in IF dev = "blk" THEN Blocks ELSE Reads
        BY <1>1, <2>1 DEF GuestTypes
    <2> QED
        BY <1>1, <1>4, <2>2, <2>3, StartsOver DEF GuestTypes
<1>5. ASSUME NEW q \in AllQueues, q \in Queues, Post(q) PROVE GuestTypes'
    <2>1. PICK r \in Sendable :
            /\ r.id = posts[q] + 1 /\ avail'[q] = Append(avail[q], r) /\ r.what \in Offers(q)
            /\ avail' \in [AllQueues -> Seq(Sendable)]
        BY <1>5, PostDoes
    <2>2. /\ posts' \in [AllQueues -> Nat] /\ UNCHANGED <<dev, ready, used, resets>>
          /\ q # "req" => avail'["req"] = avail["req"]
        BY <1>5, PostDoes DEF Elsewhere, Still
    <2>3. ASSUME NEW i \in 1..Len(avail'["req"])
          PROVE avail'["req"][i].what \in IF dev = "blk" THEN Blocks ELSE Reads
        <3>1. CASE q # "req"
            BY <1>1, <2>2, <3>1 DEF GuestTypes
        <3>2. CASE q = "req"
            <4>1. avail["req"] \in Seq(Sendable)
                BY TypeFacts
            <4>2. r.what \in IF dev = "blk" THEN Blocks ELSE Reads
                BY <2>1, <3>2 DEF Offers
            <4>3. i \in 1..(Len(avail["req"]) + 1) /\ Len(avail["req"]) \in Nat
                BY <2>1, <3>2, <4>1, AppendKeeps
            <4>4. CASE i = Len(avail["req"]) + 1
                BY <2>1, <3>2, <4>1, <4>2, <4>4, AppendKeeps
            <4>5. CASE i # Len(avail["req"]) + 1
                <5>1. i \in 1..Len(avail["req"])
                    BY <4>3, <4>5
                <5>2. avail'["req"][i] = avail["req"][i]
                    <6>1. PICK a \in Seq(Sendable) : a = avail["req"]
                        BY <4>1
                    <6>2. Append(a, r)[i] = a[i]
                        BY <5>1, <6>1, AppendKeeps
                    <6> QED
                        BY <2>1, <3>2, <6>1, <6>2
                <5> QED
                    BY <1>1, <5>1, <5>2 DEF GuestTypes
            <4> QED
                BY <4>4, <4>5
        <3> QED
            BY <3>1, <3>2
    <2> QED
        BY <1>1, <2>1, <2>2, <2>3 DEF GuestTypes
<1>6. ASSUME NEW q \in AllQueues, WriteUsedIdx(q) PROVE GuestTypes'
    BY <1>1, <1>6, IndexDoes DEF GuestTypes
<1> QED
    BY <1>2, <1>3, <1>4, <1>5, <1>6, StepCases, GuestStill

LEMMA WalkTypesKeep == ASSUME IInv, DevicesNext PROVE WalkTypes'
<1>1. WalkTypes
    BY TypeFacts
<1>2. CASE ResetDevice
    <2>1. /\ phase' = [q \in AllQueues |-> "idle"] /\ last' = [q \in AllQueues |-> 0]
          /\ cur' = [q \in AllQueues |-> Fresh]
        BY <1>2 DEF ResetDevice
    <2> QED
        BY <2>1, FreshType DEF WalkTypes, Phases
<1>3. ASSUME NEW q \in AllQueues, EnableQueue(q) \/ DisableQueue(q) PROVE WalkTypes'
    BY <1>1, <1>3, StartsOver DEF WalkTypes
<1>4. ASSUME NEW q \in AllQueues, Post(q) PROVE WalkTypes'
    BY <1>1, <1>4, PostDoes DEF WalkTypes, walk
<1>5. ASSUME NEW q \in AllQueues, WriteUsedIdx(q) PROVE WalkTypes'
    BY <1>1, <1>5, IndexDoes DEF WalkTypes
<1>6. ASSUME NEW q \in AllQueues, WalkStep(q) PROVE WalkTypes'
    <2>1. CASE Notify(q)
        BY <1>1, <2>1, WakeDoes DEF WalkTypes
    <2>2. CASE Start(q)
        BY <1>1, <2>2, StartDoes DEF WalkTypes
    <2>3. CASE ReadAvailIdx(q)
        BY <1>1, <2>3, AvailDoes DEF WalkTypes
    <2>4. CASE ReadRing(q)
        BY <1>1, <2>4, RingDoes DEF WalkTypes
    <2>5. CASE ReadDesc(q)
        BY <1>1, <2>5, DescDoes DEF WalkTypes
    <2>6. CASE WriteUsedElem(q)
        BY <1>1, <2>6, UsedElemDoes DEF WalkTypes
    <2> QED
        BY <1>6, <2>1, <2>2, <2>3, <2>4, <2>5, <2>6 DEF WalkStep
<1>7. CASE Wake
    BY <1>1, <1>7, WakeDoes DEF WalkTypes
<1>8. CASE BlockStep
    <2>1. CASE ReadBlockDesc
        BY <1>1, <2>1, BlockDescDoes DEF WalkTypes
    <2>2. CASE ReadHeader
        BY <1>1, <2>2, HeaderDoes DEF WalkTypes
    <2>3. CASE MoveBlock
        BY <1>1, <2>3, BlockMoveDoes DEF WalkTypes
    <2>4. CASE WriteStatusByte
        BY <1>1, <2>4, StatusByteDoes DEF WalkTypes
    <2> QED
        BY <1>8, <2>1, <2>2, <2>3, <2>4 DEF BlockStep
<1>9. CASE MoveStep
    <2>1. CASE MoveEntropy
        BY <1>1, <2>1, EntropyDoes DEF WalkTypes
    <2>2. CASE MoveEvents
        BY <1>1, <2>2, EventsMoveDoes DEF WalkTypes
    <2>3. CASE MoveStatus
        BY <1>1, <2>3, StatusMoveDoes DEF WalkTypes
    <2> QED
        BY <1>9, <2>1, <2>2, <2>3 DEF MoveStep
<1>10. CASE HostStep
    BY <1>1, <1>10, HostStill DEF WalkTypes
<1> QED
    BY <1>2, <1>3, <1>4, <1>5, <1>6, <1>7, <1>8, <1>9, <1>10, StepCases

LEMMA BlockTypesKeep == ASSUME IInv, DevicesNext PROVE BlockTypes'
<1>1. BlockTypes
    BY TypeFacts
<1>2. ASSUME UNCHANGED block PROVE BlockTypes'
    BY <1>1, <1>2 DEF BlockTypes, block
<1>3. CASE ReadHeader
    <2>1. dev = "blk" /\ phase["req"] = "header" /\ UNCHANGED <<readOnly, medium, shadow>>
        BY <1>3, HeaderDoes
    <2>2. Current("req").what.sector \in Nat
        BY <2>1, BlockRequest DEF Walking, Moving
    <2>3. sector' \in {sector, Current("req").what.sector} /\ st' \in {st, "ok"}
        BY <1>3, HeaderDoes
    <2> QED
        BY <1>1, <2>1, <2>2, <2>3 DEF BlockTypes, States
<1>4. CASE MoveBlock
    BY <1>1, <1>4, BlockMoveDoes DEF BlockTypes
<1>5. ASSUME NEW q \in AllQueues, ReadRing(q) PROVE BlockTypes'
    BY <1>1, <1>5, RingDoes DEF BlockTypes
<1>6. ASSUME NEW q \in AllQueues, Start(q) PROVE BlockTypes'
    <2>1. UNCHANGED <<sector, readOnly, medium, shadow>> /\ st' \in {st, "ioerr"}
        BY <1>6 DEF Start
    <2> QED
        BY <1>1, <2>1 DEF BlockTypes, States
<1>7. CASE ResetDevice \/ Wake \/ ReadBlockDesc \/ WriteStatusByte \/ MoveStep \/ HostStep
    BY <1>2, <1>7 DEF ResetDevice, Wake, ReadBlockDesc, WriteStatusByte, MoveStep, MoveEntropy, MoveEvents,
        MoveStatus, HostStep, DriverOk, Push, PushDone, Pop, PopDone, Elsewhere
<1>8. ASSUME NEW q \in AllQueues,
             \/ EnableQueue(q) \/ DisableQueue(q) \/ Post(q) \/ WriteUsedIdx(q)
             \/ Notify(q) \/ ReadAvailIdx(q) \/ ReadDesc(q) \/ WriteUsedElem(q)
      PROVE BlockTypes'
    BY <1>2, <1>8 DEF EnableQueue, DisableQueue, Post, WriteUsedIdx, Notify, ReadAvailIdx, ReadDesc,
        WriteUsedElem, Elsewhere
<1> QED
    BY <1>3, <1>4, <1>5, <1>6, <1>7, <1>8, StepCases DEF WalkStep, BlockStep


\* A queue the device has not got is idle.
LEMMA FeedOnly ==
    ASSUME IInv, NEW q \in {"req", "event"}, dev # "blk", phase[q] # "idle" PROVE q = Feed
<1>1. QueueInOrder(q) /\ dev \in {"rng", "input"}
    BY TypeFacts
<1>2. q \in Queues
    BY <1>1 DEF QueueInOrder
<1> QED
    BY <1>1, <1>2, QueuesAre DEF Feed

\* What has come for the guest, and is not given back yet.
LEMMA HeldFacts ==
    ASSUME IInv, dev # "blk"
    PROVE  /\ Feed \in Queues /\ Feed \in {"req", "event"} /\ Come \in Nat /\ Held \in Nat /\ Held <= Come
           /\ phase[Feed] \in Walking => /\ cur[Feed].got \in Seq(Nat) /\ Held = Len(cur[Feed].got)
                                         /\ \A k \in 1..Held : cur[Feed].got[k] = Come - Held + k
<1>1. Feed \in Queues /\ Feed \in {"req", "event"}
    BY TypeFacts, QueuesAre DEF Feed
<1>2. RingTypes /\ cur[Feed] \in Cur /\ ReceivedInv
    BY <1>1, TypeFacts DEF IInv
<1>3. Come \in Nat
    BY <1>2 DEF RingTypes, ReceivedInv, Come
<1>4. cur[Feed].got \in Seq(Stuff)
    BY <1>2 DEF Cur
<1>5. Held \in Nat /\ (phase[Feed] \in Walking => Held = Len(cur[Feed].got))
    BY <1>4 DEF Held
<1>6. Held <= Come /\ (phase[Feed] \in Walking => \A k \in 1..Held : cur[Feed].got[k] = Come - Held + k)
    BY <1>2, <1>5 DEF ReceivedInv, Follows
<1>7. ASSUME phase[Feed] \in Walking PROVE cur[Feed].got \in Seq(Nat)
    <2>1. PICK g \in Seq(Stuff) : g = cur[Feed].got
        BY <1>4
    <2>2. \A k \in 1..Len(g) : g[k] \in Nat
        <3> TAKE k \in 1..Len(g)
        <3>1. g[k] = Come - Held + k
            BY <1>5, <1>6, <1>7, <2>1
        <3> QED
            BY <1>3, <1>5, <1>6, <3>1
    <2>3. g \in Seq(Nat)
        BY <2>2
    <2> QED
        BY <2>1, <2>3
<1> QED
    BY <1>1, <1>3, <1>5, <1>6, <1>7

LEMMA RingTypesKeep == ASSUME IInv, DevicesNext PROVE RingTypes'
<1>1. RingTypes
    BY TypeFacts
<1>2. ASSUME UNCHANGED <<draws, evRing, stRing, received>> PROVE RingTypes'
    BY <1>1, <1>2 DEF RingTypes, evRing, stRing
<1>3. ASSUME NEW q \in AllQueues, Start(q) PROVE RingTypes'
    <2>1. draws' \in Nat
        BY <1>1, <1>3 DEF Start, RingTypes
    <2>2. UNCHANGED <<evRing, stRing, received>>
        BY <1>3 DEF Start, evRing
    <2> QED
        BY <1>1, <2>1, <2>2 DEF RingTypes, evRing, stRing
<1>4. CASE MoveEvents
    <2>1. evTail' \in Nat /\ UNCHANGED <<draws, evSlot, evHead, pushing, pushed, stRing, received>>
        BY <1>4, EventsMoveDoes
    <2> QED
        BY <1>1, <2>1 DEF RingTypes, stRing
<1>5. CASE MoveStatus
    <2>1. /\ cur["status"].id \in Nat /\ UNCHANGED <<draws, evRing, stTail, popping, popped, received>>
          /\ HasRoom => /\ stSlot' = [stSlot EXCEPT ![stHead % Ring] = cur["status"].id] /\ stHead' = stHead + 1
                        /\ accepted' = Append(accepted, cur["status"].id) /\ overran' = overran
          /\ ~HasRoom => overran' = TRUE /\ stSlot' = stSlot /\ stHead' = stHead /\ accepted' = accepted
        BY <1>5, StatusMoveDoes
    <2>2. stSlot' \in [Slots -> Nat] /\ stHead' \in Nat /\ accepted' \in Seq(Nat) /\ overran' \in BOOLEAN
        <3>1. /\ stHead + 1 \in Nat /\ stHead \in Nat /\ stSlot \in [Slots -> Nat] /\ accepted \in Seq(Nat)
              /\ overran \in BOOLEAN
            BY <1>1 DEF RingTypes
        <3>2. Append(accepted, cur["status"].id) \in Seq(Nat)
            BY <2>1, <3>1, AppendKeeps
        <3>3. CASE HasRoom
            BY <2>1, <3>1, <3>2, <3>3
        <3>4. CASE ~HasRoom
            BY <2>1, <3>1, <3>4
        <3> QED
            BY <3>3, <3>4
    <2> QED
        BY <1>1, <2>1, <2>2 DEF RingTypes, evRing
<1>6. ASSUME NEW q \in AllQueues, WriteUsedIdx(q) PROVE RingTypes'
    <2>1. UNCHANGED <<draws, evRing, stRing>> /\ phase[q] = "used_idx"
          /\ received' = (IF q \in {"req", "event"} /\ dev # "blk" THEN received \o cur[q].got ELSE received)
        BY <1>6, IndexDoes DEF evRing
    <2>2. received' \in Seq(Nat)
        <3>1. CASE q \in {"req", "event"} /\ dev # "blk"
            <4>1. q = Feed
                BY <2>1, <3>1, FeedOnly
            <4>2. cur[q].got \in Seq(Nat) /\ received \in Seq(Nat)
                BY <1>1, <2>1, <3>1, <4>1, HeldFacts DEF Walking, Ending, RingTypes
            <4> QED
                BY <2>1, <3>1, <4>2
        <3>2. CASE ~(q \in {"req", "event"} /\ dev # "blk")
            BY <1>1, <2>1, <3>2 DEF RingTypes
        <3> QED
            BY <3>1, <3>2
    <2> QED
        BY <1>1, <2>1, <2>2 DEF RingTypes, evRing, stRing
<1>7. CASE Push
    <2>1. evSlot' = [evSlot EXCEPT ![evHead % Ring] = pushed + 1]
          /\ pushing' = TRUE /\ pushed' = pushed + 1 /\ UNCHANGED <<draws, evHead, evTail, stRing, received>>
        BY <1>7 DEF Push
    <2>2. pushed + 1 \in Nat
        BY <1>1 DEF RingTypes
    <2> QED
        BY <1>1, <2>1, <2>2 DEF RingTypes, stRing
<1>8. CASE PushDone
    <2>1. /\ pushing' = FALSE /\ evHead' = evHead + 1
          /\ UNCHANGED <<draws, evSlot, evTail, pushed, stRing, received>>
        BY <1>8 DEF PushDone
    <2>2. evHead' \in Nat
        BY <1>1, <2>1 DEF RingTypes
    <2> QED
        BY <1>1, <2>1, <2>2 DEF RingTypes, stRing
<1>9. CASE Pop
    <2>1. /\ stHead # stTail /\ popping' = TRUE /\ popped' = Append(popped, stSlot[stTail % Ring])
          /\ UNCHANGED <<draws, evRing, stSlot, stHead, stTail, accepted, overran, received>>
        BY <1>9 DEF Pop
    <2>2. stSlot[stTail % Ring] \in Nat
        <3>1. Ring \in Nat \ {0} /\ stTail \in Nat
            BY <1>1, TypeFacts DEF RingTypes, RingsAssumption
        <3>2. stTail % Ring \in Slots
            BY <3>1, DivMod DEF Slots
        <3> QED
            BY <1>1, <3>2 DEF RingTypes
    <2>3. popped' \in Seq(Nat)
        BY <1>1, <2>1, <2>2 DEF RingTypes
    <2> QED
        BY <1>1, <2>1, <2>3 DEF RingTypes, evRing
<1>10. CASE PopDone
    <2>1. /\ popping' = FALSE /\ stTail' = stTail + 1
          /\ UNCHANGED <<draws, evRing, stSlot, stHead, accepted, popped, overran, received>>
        BY <1>10 DEF PopDone
    <2>2. stTail' \in Nat
        BY <1>1, <2>1 DEF RingTypes
    <2> QED
        BY <1>1, <2>1, <2>2 DEF RingTypes, evRing
<1>11. CASE ResetDevice \/ Wake \/ BlockStep \/ MoveEntropy \/ DriverOk
    BY <1>2, <1>11 DEF ResetDevice, Wake, BlockStep, ReadBlockDesc, ReadHeader, MoveBlock, WriteStatusByte,
        MoveEntropy, DriverOk, Elsewhere, evRing
<1>12. ASSUME NEW q \in AllQueues,
              \/ EnableQueue(q) \/ DisableQueue(q) \/ Post(q)
              \/ Notify(q) \/ ReadAvailIdx(q) \/ ReadRing(q) \/ ReadDesc(q) \/ WriteUsedElem(q)
       PROVE RingTypes'
    BY <1>2, <1>12 DEF EnableQueue, DisableQueue, Post, Notify, ReadAvailIdx, ReadRing, ReadDesc,
        WriteUsedElem, Elsewhere, evRing
<1> QED
    BY <1>3, <1>4, <1>5, <1>6, <1>7, <1>8, <1>9, <1>10, <1>11, <1>12, StepCases
       DEF WalkStep, MoveStep, HostStep

LEMMA TypesKeep == ASSUME IInv, DevicesNext PROVE Types'
BY GuestTypesKeep, WalkTypesKeep, BlockTypesKeep, RingTypesKeep DEF Types

-----------------------------------------------------------------------------
(* The order of requests. *)

\* The steps of one queue.
OnQueue(q) ==
    \/ q \in Queues /\ (EnableQueue(q) \/ DisableQueue(q) \/ Post(q) \/ WriteUsedIdx(q) \/ WalkStep(q))
    \/ q = "event" /\ (Wake \/ MoveEvents)
    \/ q = "req" /\ (BlockStep \/ MoveEntropy)
    \/ q = "status" /\ MoveStatus

LEMMA OthersStill ==
    ASSUME IInv, NEW p \in AllQueues, NEW q \in AllQueues, p # q, OnQueue(q) PROVE Still(p)
<1>1. CASE EnableQueue(q) \/ DisableQueue(q) \/ Post(q) \/ WriteUsedIdx(q)
    BY <1>1, StartsOver, PostDoes, IndexDoes
<1>2. CASE WalkStep(q)
    <2>1. CASE Notify(q) \/ ReadAvailIdx(q) \/ ReadRing(q) \/ WriteUsedElem(q)
        BY <2>1, WakeDoes, AvailDoes, RingDoes, UsedElemDoes
    <2>2. CASE Start(q)
        BY <2>2, StartDoes DEF Still, driver
    <2>3. CASE ReadDesc(q)
        BY <2>3, DescDoes DEF Still, driver
    <2> QED
        BY <1>2, <2>1, <2>2, <2>3 DEF WalkStep
<1>3. CASE q = "event" /\ Wake
    BY <1>3, WakeDoes
<1>4. CASE q = "event" /\ MoveEvents
    BY <1>4, EventsMoveDoes DEF Still, driver
<1>5. CASE q = "status" /\ MoveStatus
    BY <1>5, StatusMoveDoes DEF Still, driver
<1>6. CASE q = "req" /\ MoveEntropy
    BY <1>6, EntropyDoes DEF Still, driver
<1>7. CASE q = "req" /\ BlockStep
    <2>1. CASE ReadBlockDesc
        BY <1>7, <2>1, BlockDescDoes DEF Still, driver
    <2>2. CASE ReadHeader
        BY <1>7, <2>2, HeaderDoes DEF Still, driver
    <2>3. CASE MoveBlock
        BY <1>7, <2>3, BlockMoveDoes DEF Still, driver
    <2>4. CASE WriteStatusByte
        BY <1>7, <2>4, StatusByteDoes DEF Still, driver
    <2> QED
        BY <1>7, <2>1, <2>2, <2>3, <2>4 DEF BlockStep
<1> QED
    BY <1>1, <1>2, <1>3, <1>4, <1>5, <1>6, <1>7 DEF OnQueue

LEMMA AtQueue ==
    ASSUME IInv, DevicesNext, NEW p \in AllQueues
    PROVE  dev' = dev /\ Queues' = Queues /\ (ResetDevice \/ OnQueue(p) \/ Still(p))
<1>1. dev' = dev
    <2>1. CASE ResetDevice
        BY <2>1 DEF ResetDevice, Elsewhere
    <2>2. ASSUME NEW q \in AllQueues, EnableQueue(q) \/ DisableQueue(q) \/ Post(q) \/ WriteUsedIdx(q) PROVE dev' = dev
        BY <2>2 DEF EnableQueue, DisableQueue, Post, WriteUsedIdx, Elsewhere
    <2> QED
        BY <2>1, <2>2, StepCases, GuestStill
<1>2. ASSUME NEW q \in AllQueues, OnQueue(q) PROVE OnQueue(p) \/ Still(p)
    BY <1>2, OthersStill
<1>3. HostStep => Still(p)
    BY HostStill
<1>4. ResetDevice \/ HostStep \/ \E q \in AllQueues : OnQueue(q)
    BY StepCases DEF OnQueue, MoveStep
<1> QED
    BY <1>1, <1>2, <1>3, <1>4 DEF Queues

LEMMA OnwardFacts ==
    ASSUME IInv, NEW q \in AllQueues, phase[q] \in Moving
    PROVE  /\ Onward(q) \in 1..Len(Chain(q)) /\ cur[q].desc \in 1..Len(Chain(q)) /\ Len(Chain(q)) \in Nat
           /\ Desc(q).next = "next" => Onward(q) = cur[q].desc + 1 /\ cur[q].desc < Len(Chain(q))
           /\ Desc(q).next # "next" => Onward(q) = cur[q].desc /\ cur[q].desc = Len(Chain(q))
<1>1. /\ cur[q].desc \in 1..Len(Chain(q)) /\ Len(Chain(q)) \in Nat
      /\ Desc(q).next = "next" <=> cur[q].desc < Len(Chain(q))
    BY DescFacts
<1> QED
    BY <1>1 DEF Onward

LEMMA StillInOrder == ASSUME NEW p, QueueInOrder(p), Still(p), dev' = dev PROVE QueueInOrder(p)'
BY DEF QueueInOrder, Still, Current, Chain, Queues

LEMMA EmptyInOrder ==
    ASSUME NEW p, phase'[p] = "idle", last'[p] = 0, avail'[p] = <<>>, used'[p] = <<>> PROVE QueueInOrder(p)'
BY DEF QueueInOrder, Walking, Moving, Ending

\* A queue goes on with its request, or to the next one.
LEMMA WalksInOrder ==
    ASSUME IInv, NEW p \in AllQueues, UNCHANGED <<dev, avail, used, last, ready>>, phase[p] # "idle",
           phase'[p] \in Walking \cup {"ring"} => last[p] < Len(avail[p]),
           phase'[p] \in Walking => cur'[p].id = Current(p).id,
           phase'[p] \in Moving => cur'[p].desc \in 1..Len(Chain(p))
    PROVE  QueueInOrder(p)'
<1>1. QueueInOrder(p)
    BY TypeFacts
<1>2. ready[p] /\ p \in Queues
    BY <1>1 DEF QueueInOrder
<1>3. Current(p)' = Current(p) /\ Chain(p)' = Chain(p) /\ Queues' = Queues
    BY DEF Current, Chain, Queues
<1> QED
    BY <1>1, <1>2, <1>3 DEF QueueInOrder

LEMMA StepInOrder ==
    ASSUME IInv, NEW p \in AllQueues, OnQueue(p), dev' = dev PROVE QueueInOrder(p)'
<1>1. QueueInOrder(p)
    BY TypeFacts
<1>2. phase[p] \in Walking \cup {"ring"} => last[p] < Len(avail[p])
    BY <1>1 DEF QueueInOrder
<1>3. phase[p] \in Walking => cur[p].id = Current(p).id
    BY <1>1 DEF QueueInOrder
<1>4. CASE EnableQueue(p) \/ DisableQueue(p)
    BY <1>4, StartsOver, EmptyInOrder
<1>5. CASE p \in Queues /\ Post(p)
    <2>1. PICK r \in Sendable : avail'[p] = Append(avail[p], r)
        BY <1>5, PostDoes
    <2>2. UNCHANGED <<dev, ready, used, phase, last, cur>>
        BY <1>5, PostDoes DEF walk, Elsewhere
    <2>3. avail[p] \in Seq(Sendable) /\ last[p] \in Nat
        BY TypeFacts
    <2>4. PICK a \in Seq(Sendable) : a = avail[p]
        BY <2>3
    <2>5. /\ Len(avail'[p]) = Len(a) + 1 /\ \A i \in 1..Len(a) : avail'[p][i] = a[i]
        BY <2>1, <2>4, AppendKeeps
    <2>6. Len(a) \in Nat
        BY <2>4
    <2>7. /\ last'[p] <= Len(avail'[p]) /\ Len(used'[p]) = last'[p]
          /\ phase[p] \in Walking \cup {"ring"} => last'[p] < Len(avail'[p])
        BY <1>1, <2>2, <2>3, <2>4, <2>5, <2>6 DEF QueueInOrder
    <2>8. \A i \in 1..last[p] : i \in 1..Len(a)
        BY <1>1, <2>3, <2>4, <2>6 DEF QueueInOrder
    <2>9. \A i \in 1..last[p] : used[p][i].id = avail'[p][i].id
        BY <1>1, <2>4, <2>5, <2>8 DEF QueueInOrder
    <2>10. phase[p] \in Walking => Current(p)' = Current(p) /\ Chain(p)' = Chain(p)
        <3> SUFFICES ASSUME phase[p] \in Walking PROVE Current(p)' = Current(p)
            BY DEF Chain
        <3>1. last[p] + 1 \in 1..Len(a)
            BY <1>2, <2>3, <2>4, <2>6
        <3>2. avail'[p][last[p] + 1] = a[last[p] + 1]
            BY <2>5, <3>1
        <3> QED
            BY <2>2, <2>4, <3>2 DEF Current
    <2>11. Queues' = Queues
        BY DEF Queues
    <2> QED
        BY <1>1, <2>2, <2>7, <2>9, <2>10, <2>11 DEF QueueInOrder, Walking
<1>6. CASE WriteUsedIdx(p)
    <2> DEFINE e == [id |-> cur[p].id, len |-> cur[p].written]
    <2>1. /\ phase[p] = "used_idx" /\ phase'[p] = "avail_idx" /\ used'[p] = Append(used[p], e)
          /\ last'[p] = last[p] + 1 /\ UNCHANGED <<dev, ready, avail>>
        BY <1>6, IndexDoes
    <2>2. last[p] < Len(avail[p]) /\ cur[p].id = Current(p).id /\ ready[p] /\ p \in Queues
        BY <1>1, <1>2, <1>3, <2>1 DEF Walking, Ending, QueueInOrder
    <2>3. used[p] \in Seq([id : Nat, len : Nat]) /\ last[p] \in Nat /\ avail[p] \in Seq(Sendable) /\ cur[p] \in Cur
        BY TypeFacts
    <2>4. e \in [id : Nat, len : Nat] /\ e.id = avail[p][last[p] + 1].id
        BY <2>2, <2>3 DEF Cur, Current
    <2> HIDE DEF e
    <2>5. PICK u \in Seq([id : Nat, len : Nat]) : u = used[p]
        BY <2>3
    <2>6. /\ Len(used'[p]) = Len(u) + 1 /\ used'[p][Len(u) + 1] = e /\ \A i \in 1..Len(u) : used'[p][i] = u[i]
        BY <2>1, <2>4, <2>5, AppendKeeps
    <2>7. Len(u) = last[p]
        BY <1>1, <2>5 DEF QueueInOrder
    <2>8. ASSUME NEW i \in 1..(last[p] + 1) PROVE used'[p][i].id = avail[p][i].id
        <3>1. CASE i = last[p] + 1
            BY <2>4, <2>6, <2>7, <3>1
        <3>2. CASE i # last[p] + 1
            <4>1. i \in 1..last[p]
                BY <2>3, <3>2
            <4> QED
                BY <1>1, <2>5, <2>6, <2>7, <4>1 DEF QueueInOrder
        <3> QED
            BY <3>1, <3>2
    <2>9. last[p] + 1 <= Len(avail[p])
        BY <2>2, <2>3
    <2> QED
        BY <2>1, <2>2, <2>6, <2>7, <2>8, <2>9 DEF QueueInOrder, Queues, Walking, Moving, Ending
<1>7. CASE Notify(p) \/ (p = "event" /\ Wake)
    <2>1. /\ phase'[p] = "avail_idx" /\ ready[p] /\ UNCHANGED <<avail, used, ready, last, cur>>
        BY <1>7, WakeDoes DEF driver
    <2>2. p \in Queues
        BY <1>7, WakeDoes DEF OnQueue, BlockStep, MoveEntropy, MoveStatus, ReadBlockDesc, ReadHeader, MoveBlock,
           WriteStatusByte, Notify, Finish
    <2> QED
        BY <1>1, <2>1, <2>2 DEF QueueInOrder, Queues, Walking, Moving, Ending
<1>8. CASE Start(p)
    <2>1. UNCHANGED <<dev, avail, used, ready, last, phase>> /\ phase[p] # "idle" /\ cur'[p].id = cur[p].id
          /\ cur'[p].desc = cur[p].desc
        BY <1>8, StartDoes DEF driver, Begins
    <2> QED
        BY <1>1, <2>1 DEF QueueInOrder, Current, Chain, Queues
<1>9. CASE ReadAvailIdx(p)
    <2>1. /\ UNCHANGED <<avail, used, ready, last>> /\ phase[p] = "avail_idx"
          /\ phase'[p] = (IF Len(avail[p]) = last[p] THEN "idle" ELSE "ring")
        BY <1>9, AvailDoes DEF driver
    <2>2. last[p] <= Len(avail[p]) /\ last[p] \in Nat /\ Len(avail[p]) \in Nat
        <3>1. avail[p] \in Seq(Sendable) /\ last[p] \in Nat
            BY TypeFacts
        <3> QED
            BY <1>1, <3>1 DEF QueueInOrder
    <2> QED
        BY <2>1, <2>2, WalksInOrder DEF Walking, Moving, Ending
<1>10. CASE ReadRing(p)
    <2>1. /\ UNCHANGED <<avail, used, ready, last>> /\ phase[p] = "ring" /\ phase'[p] = "desc"
          /\ cur'[p].id = Current(p).id /\ cur'[p].desc = 1
        BY <1>10, RingDoes DEF driver
    <2>2. 1 \in 1..Len(Chain(p))
        BY <2>1, RequestFacts, ChainType
    <2> QED
        BY <1>2, <2>1, <2>2, WalksInOrder
<1>11. CASE ReadDesc(p)
    <2>1. /\ UNCHANGED <<avail, used, ready, last>> /\ phase[p] = "desc"
          /\ cur'[p].id = cur[p].id
          /\ cur'[p].desc = (IF p = "status" /\ Desc(p).next = "next" THEN cur[p].desc + 1 ELSE cur[p].desc)
        BY <1>11, DescDoes DEF driver
    <2>2. cur'[p].desc \in 1..Len(Chain(p))
        BY <2>1, OnwardFacts DEF Moving
    <2> QED
        BY <1>2, <1>3, <2>1, <2>2, WalksInOrder DEF Walking, Moving
<1>12. CASE WriteUsedElem(p)
    <2>1. /\ UNCHANGED <<avail, used, ready, last, cur>> /\ phase[p] = "used_elem" /\ phase'[p] = "used_idx"
        BY <1>12, UsedElemDoes DEF driver
    <2> QED
        BY <1>2, <1>3, <2>1, WalksInOrder DEF Walking, Moving, Ending
<1>13. CASE p = "event" /\ MoveEvents
    <2>1. /\ UNCHANGED <<avail, used, ready, last>> /\ phase[p] = "data" /\ phase'[p] = "used_elem"
          /\ cur'[p].id = cur[p].id
        BY <1>13, EventsMoveDoes DEF driver
    <2> QED
        BY <1>2, <1>3, <2>1, WalksInOrder DEF Walking, Moving, Ending
<1>14. CASE p = "status" /\ MoveStatus
    <2>1. /\ UNCHANGED <<avail, used, ready, last>> /\ phase[p] = "data" /\ phase'[p] = "used_elem"
          /\ cur'[p].id = cur[p].id
        BY <1>14, StatusMoveDoes DEF driver
    <2> QED
        BY <1>2, <1>3, <2>1, WalksInOrder DEF Walking, Moving, Ending
<1>15. ASSUME p = "req", UNCHANGED <<avail, used, ready, last>>, phase[p] \in Moving,
              cur'[p].id = cur[p].id, cur'[p].desc \in {cur[p].desc, Onward(p)}
       PROVE QueueInOrder(p)'
    <2>1. cur'[p].desc \in 1..Len(Chain(p))
        BY <1>15, OnwardFacts
    <2> QED
        BY <1>2, <1>3, <1>15, <2>1, WalksInOrder DEF Walking, Moving
<1>16. CASE p = "req" /\ MoveEntropy
    BY <1>15, <1>16, EntropyDoes DEF driver, Moving
<1>17. CASE p = "req" /\ ReadBlockDesc
    BY <1>15, <1>17, BlockDescDoes DEF driver, Moving
<1>18. CASE p = "req" /\ ReadHeader
    BY <1>15, <1>18, HeaderDoes DEF driver, Moving
<1>19. CASE p = "req" /\ MoveBlock
    BY <1>15, <1>19, BlockMoveDoes DEF driver, Moving
<1>20. CASE p = "req" /\ WriteStatusByte
    BY <1>15, <1>20, StatusByteDoes DEF driver, Moving
<1> QED
    BY <1>4, <1>5, <1>6, <1>7, <1>8, <1>9, <1>10, <1>11, <1>12, <1>13, <1>14, <1>16, <1>17, <1>18, <1>19,
       <1>20 DEF OnQueue, WalkStep, BlockStep

LEMMA QueuesKeep == ASSUME IInv, DevicesNext PROVE QueuesInOrder'
<1> SUFFICES ASSUME NEW p \in AllQueues PROVE QueueInOrder(p)'
    BY DEF QueuesInOrder
<1>1. dev' = dev /\ (ResetDevice \/ OnQueue(p) \/ Still(p))
    BY AtQueue
<1>2. CASE ResetDevice
    BY <1>2, EmptyInOrder DEF ResetDevice
<1>3. QueueInOrder(p)
    BY TypeFacts
<1> QED
    BY <1>1, <1>2, <1>3, StepInOrder, StillInOrder

-----------------------------------------------------------------------------
(* Lengths: what the source of entropy reports. *)

LEMMA PostKeeps ==
    ASSUME IInv, NEW q \in AllQueues, q \in Queues, Post(q)
    PROVE  /\ UNCHANGED <<dev, ready, used, phase, last, cur, mp, resets>> /\ Elsewhere
           /\ posts'[q] = posts[q] + 1 /\ \A p \in AllQueues : p # q => Still(p)
           /\ Len(avail[q]) \in Nat /\ Len(avail'[q]) = Len(avail[q]) + 1
           /\ avail'[q][Len(avail[q]) + 1].id = posts[q] + 1
           /\ \A i \in 1..Len(avail[q]) : avail'[q][i] = avail[q][i]
           /\ last[q] <= Len(avail[q]) /\ last[q] \in Nat
           /\ phase[q] \in Walking => Current(q)' = Current(q) /\ last[q] + 1 \in 1..Len(avail[q])
<1>1. PICK r \in Sendable : r.id = posts[q] + 1 /\ avail'[q] = Append(avail[q], r)
    BY PostDoes
<1>2. UNCHANGED <<dev, ready, used, phase, last, cur, mp, resets>> /\ Elsewhere /\ posts'[q] = posts[q] + 1
      /\ \A p \in AllQueues : p # q => Still(p)
    BY PostDoes DEF walk, Elsewhere
<1>3. PICK a \in Seq(Sendable) : a = avail[q]
    BY TypeFacts
<1>4. /\ Len(avail'[q]) = Len(a) + 1 /\ avail'[q][Len(a) + 1] = r /\ \A i \in 1..Len(a) : avail'[q][i] = a[i]
    BY <1>1, <1>3, AppendKeeps
<1>5. last[q] \in Nat /\ QueueInOrder(q) /\ Len(a) \in Nat
    BY <1>3, TypeFacts
<1>6. last[q] <= Len(a)
    BY <1>3, <1>5 DEF QueueInOrder
<1>7. ASSUME phase[q] \in Walking PROVE Current(q)' = Current(q) /\ last[q] + 1 \in 1..Len(a)
    <2>1. last[q] + 1 \in 1..Len(a)
        BY <1>3, <1>5, <1>7 DEF QueueInOrder
    <2> QED
        BY <1>2, <1>3, <1>4, <2>1 DEF Current
<1> QED
    BY <1>1, <1>2, <1>3, <1>4, <1>5, <1>6, <1>7

LEMMA ReadRequest ==
    ASSUME IInv, dev = "rng", phase["req"] \in Walking
    PROVE  \A d \in 1..(Len(Chain("req")) - 1) : Chain("req")[d].len > 0
<1> DEFINE s == Current("req")
<1>1. s = avail["req"][last["req"] + 1] /\ last["req"] + 1 \in 1..Len(avail["req"]) /\ Chain("req") = s.what.chain
    BY RequestFacts
<1>2. GuestTypes
    BY TypeFacts
<1>3. PICK i \in 1..Len(avail["req"]) : i = last["req"] + 1
    BY <1>1
<1>4. avail["req"][i].what \in Reads
    BY <1>2 DEF GuestTypes
<1>5. s.what \in Reads
    BY <1>1, <1>3, <1>4
<1> QED
    BY <1>1, <1>5, TypeFacts DEF RequestsAssumption

LEMMA LengthsGoOn ==
    ASSUME IInv, UNCHANGED <<dev, avail, used, last>>,
           phase'["req"] \in Moving =>
             /\ phase'["req"] \in {"desc", "data"}
             /\ cur'["req"].written = SumTo(Chain("req"))[cur'["req"].desc - 1]
                                      + (IF phase'["req"] = "data" THEN cur'["req"].off ELSE 0),
           phase'["req"] = "data" => cur'["req"].off < Chain("req")[cur'["req"].desc].len,
           phase'["req"] \in Ending => cur'["req"].written = LengthOf(Chain("req"))
    PROVE  LengthsInv'
<1>1. Chain("req")' = Chain("req")
    BY DEF Chain, Current
<1>2. LengthsInv
    BY DEF IInv
<1> QED
    BY <1>1, <1>2 DEF LengthsInv, Filled, Desc

LEMMA LengthsKeep == ASSUME IInv, DevicesNext PROVE LengthsInv'
<1> SUFFICES ASSUME dev = "rng" PROVE LengthsInv'
    BY AtQueue DEF LengthsInv
<1> DEFINE chain == Chain("req")
           c == cur["req"]
           f == SumTo(chain)
<1>1. dev' = dev /\ (ResetDevice \/ OnQueue("req") \/ Still("req")) /\ Queues = {"req"}
    BY AtQueue, TypeFacts, QueuesAre
<1>2. LengthsInv /\ c \in Cur
    BY TypeFacts DEF IInv
<1>3. CASE Still("req")
    BY <1>1, <1>2, <1>3 DEF LengthsInv, Filled, Desc, Chain, Current, Still
<1>4. ASSUME phase'["req"] \in {"idle"}, last'["req"] = 0 PROVE LengthsInv'
    BY <1>4 DEF LengthsInv, Moving, Ending
<1>5. CASE ResetDevice
    BY <1>4, <1>5 DEF ResetDevice
<1>6. CASE EnableQueue("req") \/ DisableQueue("req")
    BY <1>4, <1>6, StartsOver
<1>7. CASE Post("req")
    <2>1. /\ UNCHANGED <<used, phase, last, cur>> /\ last["req"] <= Len(avail["req"]) /\ last["req"] \in Nat
          /\ Len(avail["req"]) \in Nat
          /\ \A i \in 1..Len(avail["req"]) : avail'["req"][i] = avail["req"][i]
          /\ phase["req"] \in Walking => Chain("req")' = chain
        BY <1>1, <1>7, PostKeeps DEF Chain
    <2>2. \A i \in 1..last["req"] : avail'["req"][i] = avail["req"][i]
        BY <2>1
    <2> QED
        BY <1>1, <1>2, <2>1, <2>2 DEF LengthsInv, Filled, Desc, Walking, Moving, Ending
<1>8. CASE WriteUsedIdx("req")
    <2> DEFINE e == [id |-> c.id, len |-> c.written]
    <2>1. /\ phase["req"] = "used_idx" /\ phase'["req"] = "avail_idx" /\ used'["req"] = Append(used["req"], e)
          /\ last'["req"] = last["req"] + 1 /\ avail' = avail
        BY <1>8, IndexDoes
    <2>2. used["req"] \in Seq([id : Nat, len : Nat]) /\ last["req"] \in Nat /\ QueueInOrder("req")
        BY TypeFacts
    <2>3. e \in [id : Nat, len : Nat] /\ e.len = c.written
        BY <1>2 DEF Cur
    <2>4. c.written = LengthOf(chain) /\ chain = avail["req"][last["req"] + 1].what.chain
        BY <1>2, <2>1 DEF LengthsInv, Ending, Chain, Current
    <2> HIDE DEF e, c, chain
    <2>5. PICK u \in Seq([id : Nat, len : Nat]) : u = used["req"]
        BY <2>2
    <2>6. /\ used'["req"][Len(u) + 1] = e /\ \A i \in 1..Len(u) : used'["req"][i] = u[i]
        BY <2>1, <2>3, <2>5, AppendKeeps
    <2>7. Len(u) = last["req"]
        BY <2>2, <2>5 DEF QueueInOrder
    <2>8. ASSUME NEW i \in 1..(last["req"] + 1) PROVE used'["req"][i].len = LengthOf(avail["req"][i].what.chain)
        <3>1. CASE i = last["req"] + 1
            BY <2>3, <2>4, <2>6, <2>7, <3>1
        <3>2. CASE i # last["req"] + 1
            <4>1. i \in 1..last["req"]
                <5>1. PICK n \in Nat : n = last["req"]
                    BY <2>2
                <5> QED
                    BY <3>2, <5>1
            <4> QED
                BY <1>2, <2>5, <2>6, <2>7, <4>1 DEF LengthsInv
        <3> QED
            BY <3>1, <3>2
    <2> QED
        BY <2>1, <2>8 DEF LengthsInv, Moving, Ending
<1>9. CASE Notify("req")
    <2>1. UNCHANGED <<avail, used, last>> /\ phase'["req"] = "avail_idx"
        BY <1>9, WakeDoes DEF driver
    <2> QED
        BY <1>1, <2>1, LengthsGoOn DEF Moving, Ending
<1>10. CASE ReadAvailIdx("req")
    <2>1. UNCHANGED <<avail, used, last>> /\ phase'["req"] \in {"idle", "ring"}
        BY <1>10, AvailDoes DEF driver
    <2> QED
        BY <1>1, <2>1, LengthsGoOn DEF Moving, Ending
<1>11. CASE Start("req")
    <2>1. UNCHANGED <<avail, used, last, phase>> /\ cur'["req"].off = c.off
          /\ cur'["req"].desc = c.desc /\ cur'["req"].written = c.written
        BY <1>11, StartDoes DEF driver
    <2> QED
        BY <1>1, <1>2, <2>1, LengthsGoOn DEF LengthsInv, Filled, Desc
<1>12. ASSUME phase["req"] \in Walking \cup {"ring"}
       PROVE  /\ LengthOf(chain) = f[Len(chain)] /\ f[0] = 0 /\ Len(chain) \in Nat
              /\ \A d \in 1..Len(chain) : /\ f[d] = f[d - 1] + chain[d].len /\ f[d] \in Nat /\ f[d - 1] \in Nat
                                          /\ chain[d].len \in Nat
    <2>1. Current("req") \in Sendable /\ chain = Current("req").what.chain
        BY <1>12, RequestFacts
    <2> QED
        BY <2>1, Sums, ChainType
<1>13. CASE ReadRing("req")
    <2>1. /\ UNCHANGED <<avail, used, last>> /\ phase["req"] = "ring" /\ phase'["req"] = "desc"
          /\ cur'["req"].desc = 1 /\ cur'["req"].written = 0
        BY <1>13, RingDoes DEF driver
    <2>2. f[1 - 1] + 0 = 0
        BY <1>12, <2>1
    <2> QED
        BY <1>1, <2>1, <2>2, LengthsGoOn DEF Moving, Ending
<1>14. CASE ReadDesc("req")
    <2>1. /\ UNCHANGED <<avail, used, last>> /\ phase["req"] = "desc"
          /\ phase'["req"] = (IF Desc("req").len = 0 THEN "used_elem" ELSE "data")
          /\ cur'["req"].off = 0 /\ cur'["req"].desc = c.desc /\ cur'["req"].written = c.written
        BY <1>14, DescDoes DEF driver
    <2>2. c.desc \in 1..Len(chain) /\ Desc("req").len \in Nat /\ Desc("req") = chain[c.desc]
        BY <2>1, DescFacts DEF Moving
    <2>3. c.written = f[c.desc - 1] + 0
        BY <1>2, <2>1 DEF LengthsInv, Filled, Moving
    <2>4. f[c.desc] = f[c.desc - 1] + chain[c.desc].len /\ f[c.desc - 1] \in Nat /\ LengthOf(chain) = f[Len(chain)]
          /\ Len(chain) \in Nat
        BY <1>12, <2>1, <2>2 DEF Walking, Moving
    <2>5. CASE Desc("req").len = 0
        <3>1. \A d \in 1..(Len(chain) - 1) : chain[d].len > 0
            BY <2>1, ReadRequest DEF Walking, Moving
        <3>2. c.desc = Len(chain)
            BY <2>2, <2>4, <2>5, <3>1
        <3>3. c.written = LengthOf(chain)
            BY <2>2, <2>3, <2>4, <2>5, <3>2
        <3> QED
            BY <1>1, <2>1, <2>5, <3>3, LengthsGoOn DEF Moving, Ending
    <2>6. CASE Desc("req").len # 0
        BY <1>1, <2>1, <2>2, <2>3, <2>6, LengthsGoOn DEF Moving, Ending
    <2> QED
        BY <2>5, <2>6
<1>15. CASE WriteUsedElem("req")
    <2>1. UNCHANGED <<avail, used, last, cur>> /\ phase["req"] = "used_elem" /\ phase'["req"] = "used_idx"
        BY <1>15, UsedElemDoes DEF driver
    <2> QED
        BY <1>1, <1>2, <2>1, LengthsGoOn DEF LengthsInv, Moving, Ending
<1>16. CASE MoveEntropy
    <2>1. /\ UNCHANGED <<avail, used, last>> /\ phase["req"] = "data"
          /\ phase'["req"] = (IF c.off + 1 >= Desc("req").len THEN Behind("req", "used_elem") ELSE "data")
          /\ cur'["req"].off = c.off + 1 /\ cur'["req"].written = c.written + 1
          /\ cur'["req"].desc = (IF c.off + 1 >= Desc("req").len THEN Onward("req") ELSE c.desc)
        BY <1>16, EntropyDoes DEF driver
    <2>2. /\ c.desc \in 1..Len(chain) /\ Desc("req").len \in Nat /\ Desc("req") = chain[c.desc]
          /\ Desc("req").next \in {"next", "none", "stray"}
        BY <2>1, DescFacts DEF Moving
    <2>3. c.written = f[c.desc - 1] + c.off /\ c.off < Desc("req").len
        BY <1>2, <2>1 DEF LengthsInv, Filled, Moving
    <2>4. f[c.desc] = f[c.desc - 1] + chain[c.desc].len /\ f[c.desc - 1] \in Nat /\ LengthOf(chain) = f[Len(chain)]
          /\ Len(chain) \in Nat
        BY <1>12, <2>1, <2>2 DEF Walking, Moving
    <2>5. c.off \in Nat /\ c.desc \in Nat
        BY <1>2 DEF Cur
    <2>6. /\ Desc("req").next = "next" => Onward("req") = c.desc + 1 /\ Behind("req", "used_elem") = "desc"
          /\ Desc("req").next # "next" => c.desc = Len(chain) /\ Behind("req", "used_elem") = "used_elem"
        BY <2>1, <2>2, OnwardFacts DEF Moving, Behind
    <2> HIDE DEF c, f, chain
    <2> DEFINE here == Desc("req")
    <2>9. PICK o \in Nat, b \in Nat, l \in Nat : o = c.off /\ b = f[c.desc - 1] /\ l = here.len
        BY <2>2, <2>4, <2>5
    <2>10. f[c.desc] = b + l /\ c.written = b + o /\ o < l
        BY <2>2, <2>3, <2>4, <2>9
    <2> HIDE DEF here
    <2>7. CASE c.off + 1 >= Desc("req").len
        <3>1. c.written + 1 = f[c.desc]
            <4>1. o + 1 = l
                BY <2>7, <2>9, <2>10 DEF here
            <4> QED
                BY <2>9, <2>10, <4>1
        <3>2. f[c.desc] \in Nat
            BY <2>2, <2>4
        <3>3. CASE Desc("req").next = "next"
            <4>1. phase'["req"] = "desc" /\ cur'["req"].desc = c.desc + 1 /\ cur'["req"].written = f[c.desc]
                BY <2>1, <2>6, <2>7, <3>1, <3>3
            <4>2. cur'["req"].written = f[cur'["req"].desc - 1] + 0
                BY <2>5, <3>2, <4>1
            <4> QED
                BY <1>1, <2>1, <4>1, <4>2, LengthsGoOn DEF Moving, Ending, f, chain
        <3>4. CASE Desc("req").next # "next"
            <4>1. phase'["req"] = "used_elem" /\ cur'["req"].written = LengthOf(chain)
                BY <2>1, <2>4, <2>6, <2>7, <3>1, <3>4
            <4> QED
                BY <1>1, <2>1, <4>1, LengthsGoOn DEF Moving, Ending, chain
        <3> QED
            BY <3>3, <3>4
    <2>8. CASE ~(c.off + 1 >= Desc("req").len)
        <3>1. /\ phase'["req"] = "data" /\ cur'["req"].desc = c.desc
              /\ cur'["req"].written = f[c.desc - 1] + (c.off + 1) /\ c.off + 1 < Desc("req").len
            <4>1. o + 1 < l /\ ~(c.off + 1 >= Desc("req").len)
                BY <2>8, <2>9 DEF here
            <4>2. c.written + 1 = b + (o + 1)
                BY <2>9, <2>10
            <4> QED
                BY <2>1, <2>8, <2>9, <4>1, <4>2 DEF here
        <3> QED
            BY <1>1, <2>1, <2>2, <3>1, LengthsGoOn DEF Moving, Ending, f, chain
    <2> QED
        BY <2>7, <2>8
<1>17. CASE BlockStep
    <2>1. ReadHeader \/ WriteStatusByte => phase["req"] \in {"header", "status_byte"}
        BY DEF ReadHeader, WriteStatusByte, Finish
    <2> QED
        BY <1>17, <2>1, BlockOnly DEF BlockStep, ReadBlockDesc, MoveBlock
<1> QED
    BY <1>1, <1>3, <1>5, <1>6, <1>7, <1>8, <1>9, <1>10, <1>11, <1>13, <1>14, <1>15, <1>16, <1>17
       DEF OnQueue, WalkStep

-----------------------------------------------------------------------------
(* Events. *)

\* What is not done on a queue does not put it on the bus.
LEMMA Elsewheres ==
    ASSUME IInv, DevicesNext, NEW p \in AllQueues
    PROVE  OnQueue(p) \/ ResetDevice \/ (Still(p) /\ (mp' = p => mp = p))
<1>1. ASSUME NEW q \in AllQueues, OnQueue(q) PROVE mp' \in {mp, Nothing, q}
    <2>1. CASE EnableQueue(q) \/ DisableQueue(q)
        BY <2>1, StartsOver
    <2>2. CASE Post(q) \/ WriteUsedIdx(q)
        BY <2>2 DEF Post, walk, WriteUsedIdx, Finish
    <2>3. CASE WalkStep(q)
        BY <2>3 DEF WalkStep, Notify, Start, ReadAvailIdx, ReadRing, ReadDesc, WriteUsedElem, Finish
    <2>4. CASE Wake \/ BlockStep \/ MoveEntropy \/ MoveEvents \/ MoveStatus
        BY <2>4 DEF Wake, BlockStep, ReadBlockDesc, ReadHeader, MoveBlock, WriteStatusByte, MoveEntropy,
            MoveEvents, MoveStatus, Finish
    <2> QED
        BY <1>1, <2>1, <2>2, <2>3, <2>4 DEF OnQueue
<1>2. Nothing \notin AllQueues
    BY TypeFacts DEF RingsAssumption
<1>3. ASSUME NEW q \in AllQueues, OnQueue(q), q # p PROVE Still(p) /\ (mp' = p => mp = p)
    BY <1>1, <1>2, <1>3, OthersStill
<1>4. HostStep => Still(p) /\ mp' = mp
    BY HostStill
<1>5. ResetDevice \/ HostStep \/ \E q \in AllQueues : OnQueue(q)
    BY StepCases DEF OnQueue, MoveStep
<1> QED
    BY <1>3, <1>4, <1>5

LEMMA RingsStill ==
    ASSUME IInv, DevicesNext
    PROVE  /\ Push \/ PushDone \/ MoveEvents \/ UNCHANGED <<evSlot, evHead, evTail, pushing, pushed>>
           /\ MoveStatus \/ Pop \/ PopDone \/ UNCHANGED <<stSlot, stHead, stTail, popping, accepted, popped, overran>>
<1>1. CASE ResetDevice \/ Wake \/ BlockStep \/ MoveStep \/ HostStep
    BY <1>1 DEF ResetDevice, Wake, BlockStep, ReadBlockDesc, ReadHeader, MoveBlock, WriteStatusByte, MoveStep,
        MoveEntropy, MoveEvents, MoveStatus, HostStep, DriverOk, Push, PushDone, Pop, PopDone, Elsewhere, evRing, stRing
<1>2. ASSUME NEW q, EnableQueue(q) \/ DisableQueue(q) \/ Post(q) \/ WriteUsedIdx(q) \/ WalkStep(q)
      PROVE UNCHANGED <<evRing, stRing>>
    BY <1>2 DEF EnableQueue, DisableQueue, Post, WriteUsedIdx, WalkStep, Notify, Start, ReadAvailIdx, ReadRing,
        ReadDesc, WriteUsedElem, Elsewhere
<1> QED
    BY <1>1, <1>2, StepCases DEF evRing, stRing

\* The slots of the two rings.
LEMMA RingNumbers ==
    ASSUME IInv
    PROVE  /\ Ring \in Nat \ {0} /\ evHead \in Nat /\ evTail \in Nat /\ pushed \in Nat /\ pushing \in BOOLEAN
           /\ evSlot \in [Slots -> Nat] /\ stHead \in Nat /\ stTail \in Nat /\ stSlot \in [Slots -> Nat]
           /\ popping \in BOOLEAN /\ accepted \in Seq(Nat) /\ popped \in Seq(Nat) /\ draws \in Nat
           /\ received \in Seq(Nat) /\ overran \in BOOLEAN
           /\ \A t \in Nat : t % Ring \in Slots
<1>1. RingTypes /\ Ring \in Nat \ {0}
    BY TypeFacts DEF RingsAssumption
<1>2. \A t \in Nat : t % Ring \in Slots
    BY <1>1, DivMod DEF Slots
<1> QED
    BY <1>1, <1>2 DEF RingTypes

LEMMA EventRingKeep == ASSUME IInv, DevicesNext PROVE EventRing'
<1>1. /\ pushed = evHead + (IF pushing THEN 1 ELSE 0) /\ evTail <= evHead /\ pushed - evTail <= Ring - 1
      /\ \A t \in evTail..(pushed - 1) : evSlot[t % Ring] = t + 1
    BY DEF IInv, EventsInv, EventRing
<1>2. /\ Ring \in Nat \ {0} /\ evHead \in Nat /\ evTail \in Nat /\ pushed \in Nat /\ pushing \in BOOLEAN
      /\ evSlot \in [Slots -> Nat] /\ \A t \in Nat : t % Ring \in Slots
    BY RingNumbers
<1>3. CASE UNCHANGED <<evSlot, evHead, evTail, pushing, pushed>>
    BY <1>1, <1>3 DEF EventRing
<1>4. CASE Push
    <2>1. /\ ~pushing /\ evHead - evTail < Ring - 1 /\ pushing' = TRUE /\ pushed' = pushed + 1
          /\ evSlot' = [evSlot EXCEPT ![evHead % Ring] = pushed + 1] /\ UNCHANGED <<evHead, evTail>>
        BY <1>4 DEF Push
    <2>2. pushed = evHead
        BY <1>1, <1>2, <2>1
    <2>3. pushed' - evTail <= Ring - 1
        BY <1>2, <2>1, <2>2
    <2>4. ASSUME NEW t \in evTail..(pushed' - 1) PROVE evSlot'[t % Ring] = t + 1
        <3>1. CASE t = evHead
            <4>1. evSlot'[evHead % Ring] = pushed + 1
                BY <1>2, <2>1
            <4> QED
                BY <2>2, <3>1, <4>1
        <3>2. CASE t # evHead
            <4>1. t \in evTail..(pushed - 1) /\ t \in Nat /\ evHead > t /\ evHead - t < Ring
                BY <1>2, <2>1, <2>2, <3>2
            <4>2. evHead % Ring # t % Ring
                BY <1>2, <4>1, SlotsDiffer
            <4>3. evSlot'[t % Ring] = evSlot[t % Ring]
                BY <1>2, <2>1, <4>1, <4>2
            <4> QED
                BY <1>1, <4>1, <4>3
        <3> QED
            BY <3>1, <3>2
    <2> QED
        BY <1>1, <2>1, <2>2, <2>3, <2>4 DEF EventRing
<1>5. CASE PushDone
    <2>1. pushing /\ pushing' = FALSE /\ evHead' = evHead + 1 /\ UNCHANGED <<evSlot, evTail, pushed>>
        BY <1>5 DEF PushDone
    <2>2. pushed = evHead' /\ evTail <= evHead'
        BY <1>1, <1>2, <2>1
    <2> QED
        BY <1>1, <1>2, <2>1, <2>2 DEF EventRing
<1>6. CASE MoveEvents
    <2> DEFINE c == cur["event"]
    <2>1. /\ mp = "event" /\ phase["event"] = "data" /\ evTail' = c.step + Len(c.chunk)
          /\ UNCHANGED <<evSlot, evHead, pushing, pushed>>
        BY <1>6, EventsMoveDoes
    <2>2. c.step = evTail /\ Len(c.chunk) <= evHead - evTail
        BY <2>1 DEF IInv, EventsInv, EventQueue
    <2>3. Len(c.chunk) \in Nat
        <3>1. c \in Cur
            BY TypeFacts
        <3> QED
            BY <3>1 DEF Cur
    <2>4. PICK n \in Nat : n = Len(c.chunk)
        BY <2>3
    <2>5. evTail' = evTail + n /\ n <= evHead - evTail
        BY <2>1, <2>2, <2>4
    <2>6. evTail' <= evHead /\ pushed - evTail' <= Ring - 1
        BY <1>1, <1>2, <2>5
    <2>7. \A t \in evTail'..(pushed - 1) : t \in evTail..(pushed - 1)
        BY <1>2, <2>5
    <2> HIDE DEF c
    <2> QED
        BY <1>1, <2>1, <2>6, <2>7 DEF EventRing
<1> QED
    BY <1>3, <1>4, <1>5, <1>6, RingsStill

LEMMA EventQueueKeep == ASSUME IInv, DevicesNext PROVE EventQueue'
<1> DEFINE c == cur["event"]
<1>1. /\ phase["event"] \in Moving => phase["event"] \in {"desc", "data"} /\ c.got = <<>>
      /\ phase["event"] = "data" /\ mp = "event" =>
           /\ c.step = evTail /\ Len(c.chunk) <= evHead - evTail
           /\ \A k \in 1..Len(c.chunk) : c.chunk[k] = evTail + k
    BY DEF IInv, EventsInv, EventQueue
<1>2. ASSUME phase'["event"] \notin Moving PROVE EventQueue'
    BY <1>2 DEF EventQueue, Moving
<1>3. c \in Cur /\ Nothing \notin AllQueues
    BY TypeFacts DEF RingsAssumption
<1>4. CASE Still("event") /\ (mp' = "event" => mp = "event")
    <2>1. MoveEvents => FALSE
        <3>1. MoveEvents => phase["event"] = "data" /\ phase'["event"] = "used_elem"
            BY EventsMoveDoes
        <3> QED
            BY <1>4, <3>1 DEF Still
    <2>2. evTail' = evTail /\ evHead' \in {evHead, evHead + 1}
        BY <2>1, RingsStill DEF Push, PushDone
    <2>3. evHead \in Nat /\ evTail \in Nat /\ Len(c.chunk) \in Nat
        <3>1. Len(c.chunk) \in Nat
            BY <1>3 DEF Cur
        <3> QED
            BY <3>1, RingNumbers
    <2>4. phase'["event"] = phase["event"] /\ cur'["event"] = c
        BY <1>4 DEF Still
    <2>5. ASSUME phase["event"] = "data", mp' = "event" PROVE Len(c.chunk) <= evHead' - evTail
        <3>1. Len(c.chunk) <= evHead - evTail
            BY <1>1, <1>4, <2>5
        <3> QED
            BY <2>2, <2>3, <3>1
    <2> QED
        BY <1>1, <1>4, <2>2, <2>4, <2>5 DEF EventQueue
<1>5. CASE ResetDevice
    BY <1>2, <1>5 DEF ResetDevice, Moving
<1>6. CASE EnableQueue("event") \/ DisableQueue("event")
    BY <1>2, <1>6, StartsOver DEF Moving
<1>7. CASE Post("event")
    <2>1. UNCHANGED <<phase, cur, mp, evHead, evTail>>
        BY <1>7 DEF Post, walk, Elsewhere, evRing
    <2> QED
        BY <1>1, <2>1 DEF EventQueue
<1>8. CASE WriteUsedIdx("event")
    BY <1>2, <1>8, IndexDoes DEF Moving
<1>9. CASE Notify("event") \/ Wake
    BY <1>2, <1>9, WakeDoes DEF Moving
<1>10. CASE ReadAvailIdx("event")
    BY <1>2, <1>10, AvailDoes DEF Moving
<1>11. CASE WriteUsedElem("event")
    BY <1>2, <1>11, UsedElemDoes DEF Moving
<1>12. CASE MoveEvents
    BY <1>2, <1>12, EventsMoveDoes DEF Moving
<1>13. CASE ReadRing("event")
    <2>1. phase'["event"] = "desc" /\ cur'["event"].got = <<>>
        BY <1>13, RingDoes
    <2> QED
        BY <2>1 DEF EventQueue
<1>14. CASE ReadDesc("event")
    <2>1. mp' = Nothing /\ phase["event"] = "desc" /\ phase'["event"] \in {"used_elem", "data"} /\ cur'["event"].got = c.got
        BY <1>14, DescDoes
    <2> QED
        BY <1>1, <1>3, <2>1 DEF EventQueue, Moving
<1>15. CASE Start("event")
    <2>1. phase' = phase /\ cur'["event"] = Buffered("event") /\ cur'["event"].got = c.got /\ UNCHANGED <<evHead, evTail>>
        BY <1>15, StartDoes DEF evRing
    <2>2. ASSUME phase["event"] = "data"
          PROVE  /\ cur'["event"].step = evTail /\ Len(cur'["event"].chunk) <= evHead - evTail
                 /\ \A k \in 1..Len(cur'["event"].chunk) : cur'["event"].chunk[k] = evTail + k
        <3> DEFINE x == [k \in 1..Backlog |-> evSlot[(evTail + k - 1) % Ring]]
        <3>1. Buffered("event") = [c EXCEPT !.step = evTail, !.chunk = x]
            BY <2>2 DEF Buffered, Loads
        <3>2. /\ Backlog \in Nat /\ Backlog <= evHead - evTail
              /\ \A k \in 1..Backlog : evSlot[(evTail + k - 1) % Ring] = evTail + k
            BY <2>2, WaitingFacts
        <3>3. PICK n \in Nat : n = Backlog
            BY <3>2
        <3>4. Len(x) = n /\ \A k \in 1..n : x[k] = evTail + k
            BY <3>2, <3>3
        <3>5. DOMAIN c = {"id", "desc", "off", "written", "parsed", "chunk", "step", "got", "status"}
            BY <1>3 DEF Cur
        <3> HIDE DEF x, c
        <3>6. cur'["event"].step = evTail /\ cur'["event"].chunk = x
            BY <2>1, <3>1, <3>5
        <3> QED
            BY <3>2, <3>3, <3>4, <3>6
    <2> HIDE DEF c
    <2> QED
        BY <1>1, <2>1, <2>2 DEF EventQueue
<1> QED
    BY <1>4, <1>5, <1>6, <1>7, <1>8, <1>9, <1>10, <1>11, <1>12, <1>13, <1>14, <1>15, Elsewheres DEF OnQueue, WalkStep

\* What has come grows, what is held is given back, and all starts over.
LEMMA FollowsOn ==
    ASSUME NEW come \in Nat, NEW held \in Nat, NEW got, NEW rec \in Seq(Nat), NEW calm \in BOOLEAN,
           Follows(come, held, got, rec, calm),
           NEW more \in Nat, NEW new, NEW quiet \in BOOLEAN, come <= more, quiet => calm /\ held = 0 /\ more = come
    PROVE  Follows(more, 0, new, rec, quiet)
BY DEF Follows

LEMMA FollowsGain ==
    ASSUME NEW come \in Nat, NEW held \in Nat, NEW got \in Seq(Nat), NEW rec, NEW calm,
           Follows(come, held, got, rec, calm), Len(got) = held,
           NEW s \in Seq(Nat), \A k \in 1..Len(s) : s[k] = come + k
    PROVE  Follows(come + Len(s), held + Len(s), got \o s, rec, calm)
<1>1. PICK n \in Nat : n = Len(s)
    OBVIOUS
<1>2. held <= come /\ \A k \in 1..held : got[k] = come - held + k
    BY DEF Follows
<1>3. (come + n) - (held + n) = come - held /\ held + n <= come + n
    BY <1>2
<1>4. ASSUME NEW k \in 1..(held + n) PROVE (got \o s)[k] = (come + n) - (held + n) + k
    <2>1. CASE k \in 1..held
        BY <1>2, <1>3, <2>1, ConcatKeeps
    <2>2. CASE k \notin 1..held
        <3>1. PICK j \in 1..n : k = held + j
            <4>1. k - held \in 1..n /\ k = held + (k - held)
                BY <2>2
            <4> QED
                BY <4>1
        <3>2. (got \o s)[held + j] = s[j]
            <4>1. j \in 1..Len(s)
                BY <1>1
            <4>2. (got \o s)[Len(got) + j] = s[j]
                BY <4>1, ConcatKeeps
            <4> QED
                BY <4>2
        <3>3. s[j] = come + j
            BY <1>1
        <3> QED
            BY <3>1, <3>2, <3>3
    <2> QED
        BY <2>1, <2>2
<1> QED
    BY <1>1, <1>3, <1>4 DEF Follows

LEMMA FollowsGiven ==
    ASSUME NEW come \in Nat, NEW held \in Nat, NEW got \in Seq(Nat), NEW rec \in Seq(Nat), NEW calm, NEW new,
           Follows(come, held, got, rec, calm), Len(got) = held
    PROVE  Follows(come, 0, new, rec \o got, calm)
<1>1. /\ held <= come /\ \A k \in 1..held : got[k] = come - held + k
      /\ \A i \in 1..Len(rec) : rec[i] \in 1..(come - held)
      /\ \A i, j \in 1..Len(rec) : i < j => rec[i] < rec[j]
      /\ calm => Len(rec) = come - held /\ \A i \in 1..Len(rec) : rec[i] = i
    BY DEF Follows, RisesAlways
<1>2. PICK m \in Nat : m = Len(rec)
    OBVIOUS
<1> DEFINE all == rec \o got
<1>3. /\ all \in Seq(Nat) /\ Len(all) = m + held /\ DOMAIN all = 1..(m + held)
      /\ \A i \in 1..m : all[i] = rec[i]
      /\ \A k \in 1..held : all[m + k] = got[k]
    <2>1. /\ all \in Seq(Nat) /\ Len(all) = Len(rec) + Len(got)
          /\ \A i \in 1..Len(rec) : all[i] = rec[i]
          /\ \A k \in 1..Len(got) : all[Len(rec) + k] = got[k]
        <3>1. PICK r \in Seq(Nat), g \in Seq(Nat) : r = rec /\ g = got
            OBVIOUS
        <3>2. /\ r \o g \in Seq(Nat) /\ Len(r \o g) = Len(r) + Len(g)
              /\ \A i \in 1..Len(r) : (r \o g)[i] = r[i]
              /\ \A k \in 1..Len(g) : (r \o g)[Len(r) + k] = g[k]
            OBVIOUS
        <3> QED
            BY <3>1, <3>2
    <2> HIDE DEF all
    <2>2. DOMAIN all = 1..Len(all)
        BY <2>1
    <2> QED
        BY <1>2, <2>1, <2>2
<1> HIDE DEF all
\* The first m are the old ones, and the others count on from them.
<1>4. ASSUME NEW i \in 1..(m + held)
      PROVE  \/ i \in 1..m /\ all[i] = rec[i] /\ all[i] \in 1..(come - held)
             \/ i > m /\ all[i] = come - held + (i - m)
    <2>1. CASE i \in 1..m
        BY <1>1, <1>2, <1>3, <2>1
    <2>2. CASE i \notin 1..m
        <3>1. PICK k \in 1..held : k = i - m
            BY <2>2
        <3>2. all[m + k] = come - held + k /\ m + k = i /\ i > m
            <4>1. all[m + k] = got[k] /\ got[k] = come - held + k
                BY <1>1, <1>3
            <4> QED
                BY <2>2, <3>1, <4>1
        <3> QED
            BY <3>1, <3>2
    <2> QED
        BY <2>1, <2>2
<1>5. \A i \in 1..(m + held) : all[i] \in 1..come
    <2> TAKE i \in 1..(m + held)
    <2>1. CASE all[i] \in 1..(come - held)
        BY <1>1, <2>1
    <2>2. CASE i > m /\ all[i] = come - held + (i - m)
        BY <1>1, <2>2
    <2> QED
        BY <1>4, <2>1, <2>2
<1>6. \A i, j \in 1..(m + held) : i < j => all[i] < all[j]
    <2> SUFFICES ASSUME NEW i \in 1..(m + held), NEW j \in 1..(m + held), i < j PROVE all[i] < all[j]
        OBVIOUS
    <2>1. CASE j \in 1..m
        <3>1. i \in 1..m
            BY <2>1
        <3> QED
            BY <1>1, <1>2, <1>3, <2>1, <3>1
    <2>2. CASE j \notin 1..m
        <3>1. all[j] = come - held + (j - m) /\ j > m
            BY <1>4, <2>2
        <3>2. CASE i \in 1..m
            <4>1. all[i] \in 1..(come - held)
                BY <1>1, <1>2, <1>3, <3>2
            <4> QED
                BY <1>1, <3>1, <4>1
        <3>3. CASE i \notin 1..m
            <4>1. all[i] = come - held + (i - m)
                BY <1>4, <3>3
            <4> QED
                BY <1>1, <3>1, <4>1
        <3> QED
            BY <3>2, <3>3
    <2> QED
        BY <2>1, <2>2
<1>7. calm => m + held = come /\ \A i \in 1..(m + held) : all[i] = i
    <2> SUFFICES ASSUME calm PROVE m + held = come /\ \A i \in 1..(m + held) : all[i] = i
        OBVIOUS
    <2>1. m = come - held /\ \A i \in 1..m : rec[i] = i
        BY <1>1, <1>2
    <2>2. m + held = come
        BY <2>1
    <2>3. ASSUME NEW i \in 1..(m + held) PROVE all[i] = i
        <3>1. CASE i \in 1..m
            BY <1>3, <2>1, <3>1
        <3>2. CASE i > m /\ all[i] = come - held + (i - m)
            BY <2>1, <3>2
        <3> QED
            BY <1>4, <3>1, <3>2
    <2> QED
        BY <2>2, <2>3
<1>8. come - 0 = come
    OBVIOUS
<1> QED
    <2>1. RisesAlways(all)
        BY <1>3, <1>6 DEF RisesAlways
    <2>2. Follows(come, 0, new, all, calm)
        BY <1>3, <1>5, <1>7, <1>8, <2>1 DEF Follows
    <2> QED
        BY <2>2 DEF all

LEMMA FollowsStill ==
    ASSUME NEW come, NEW held \in Nat, NEW got, NEW rec, NEW calm, Follows(come, held, got, rec, calm),
           NEW new, \A k \in 1..held : new[k] = got[k], NEW quiet, quiet => calm
    PROVE  Follows(come, held, new, rec, quiet)
BY DEF Follows

LEMMA CountsStill ==
    ASSUME IInv, DevicesNext
    PROVE  /\ draws' = draws \/ (dev = "rng" /\ Start("req"))
           /\ received' = received \/ \E q \in AllQueues : WriteUsedIdx(q)
           /\ resets \in Nat /\ resets' \in {resets, resets + 1}
<1>0. resets \in Nat
    <2>1. GuestTypes
        BY TypeFacts
    <2> QED
        BY <2>1 DEF GuestTypes
<1>1. CASE ResetDevice \/ Wake \/ BlockStep \/ MoveStep \/ HostStep
    BY <1>0, <1>1 DEF ResetDevice, Wake, BlockStep, ReadBlockDesc, ReadHeader, MoveBlock, WriteStatusByte, MoveStep,
        MoveEntropy, MoveEvents, MoveStatus, HostStep, DriverOk, Push, PushDone, Pop, PopDone, Elsewhere, driver
<1>2. ASSUME NEW q \in AllQueues, q \in Queues,
             EnableQueue(q) \/ DisableQueue(q) \/ Post(q) \/ WriteUsedIdx(q)
      PROVE /\ draws' = draws /\ resets' \in {resets, resets + 1}
            /\ received' = received \/ WriteUsedIdx(q)
    BY <1>2 DEF EnableQueue, DisableQueue, Post, WriteUsedIdx, Elsewhere
<1>3. ASSUME NEW q \in AllQueues, q \in Queues, WalkStep(q)
      PROVE /\ draws' = draws \/ (dev = "rng" /\ Start("req"))
            /\ received' = received /\ resets' = resets
    <2>1. CASE Start(q)
        <3>1. dev = "rng" => q = "req"
            BY <1>3, TypeFacts, QueuesAre
        <3> QED
            BY <2>1, <3>1 DEF Start, driver
    <2>2. CASE ~Start(q)
        BY <1>3, <2>2 DEF WalkStep, Notify, ReadAvailIdx, ReadRing, ReadDesc, WriteUsedElem, Elsewhere, driver
    <2> QED
        BY <2>1, <2>2
<1> QED
    BY <1>0, <1>1, <1>2, <1>3, StepCases

LEMMA NoBlockStep == ASSUME IInv, dev # "blk" PROVE ~BlockStep
<1>1. ReadHeader \/ WriteStatusByte => phase["req"] \in {"header", "status_byte"}
    BY DEF ReadHeader, WriteStatusByte, Finish
<1> QED
    BY <1>1, BlockOnly DEF BlockStep, ReadBlockDesc, MoveBlock

\* What is left to show of a step.
LEMMA ReceivedIs ==
    ASSUME IInv, dev # "blk", dev' = dev, dev = "rng" /\ Drawing' => draws' > 0 /\ cur'["req"].chunk = <<draws'>>,
           NEW come, come = Come', NEW held, held = Held',
           NEW got, got = cur'[Feed].got, NEW calm, calm = (resets' = 0), Follows(come, held, got, received', calm)
    PROVE  ReceivedInv'
<1>1. Feed' = Feed
    BY DEF Feed
<1>2. Follows(Come', Held', cur'[Feed].got, received', resets' = 0)
    OBVIOUS
<1> QED
    BY <1>1, <1>2 DEF ReceivedInv

\* Nothing is held any more.
LEMMA ReceivedOver ==
    ASSUME IInv, dev # "blk", dev' = dev, phase'[Feed] \notin Walking, received' = received,
           Come' \in Nat, Come <= Come', dev = "rng" => ~Drawing',
           resets' = 0 => resets = 0 /\ Held = 0 /\ Come' = Come
    PROVE  ReceivedInv'
<1>1. Come \in Nat /\ Held \in Nat /\ received \in Seq(Nat)
    BY HeldFacts, RingNumbers
<1>2. Follows(Come, Held, cur[Feed].got, received, resets = 0)
    BY DEF IInv, ReceivedInv
<1>3. Held' = 0
    BY DEF Held, Feed
<1>4. PICK come \in Nat : come = Come
    BY <1>1
<1>5. PICK more \in Nat : more = Come'
    OBVIOUS
<1>6. PICK calm \in BOOLEAN : calm = (resets = 0)
    OBVIOUS
<1>7. PICK quiet \in BOOLEAN : quiet = (resets' = 0)
    OBVIOUS
<1>8. PICK got : got = cur[Feed].got
    OBVIOUS
<1>9. PICK new : new = cur'[Feed].got
    OBVIOUS
<1>10. PICK held \in Nat : held = Held
    BY <1>1
<1>11. PICK rec \in Seq(Nat) : rec = received
    BY <1>1
<1>12. Follows(come, held, got, rec, calm)
    BY <1>2, <1>4, <1>6, <1>8, <1>10, <1>11
<1>13. come <= more /\ (quiet => calm /\ held = 0 /\ more = come)
    BY <1>4, <1>5, <1>6, <1>7, <1>10
<1>14. Follows(more, 0, new, rec, quiet)
    BY <1>12, <1>13, FollowsOn
<1>15. Follows(more, 0, new, received', quiet)
    BY <1>11, <1>14
<1> QED
    BY <1>3, <1>5, <1>7, <1>9, <1>15, ReceivedIs

\* What is held is so still, and nothing else has come.
LEMMA ReceivedStill ==
    ASSUME IInv, dev # "blk", dev' = dev, Come' = Come, received' = received, resets' = 0 => resets = 0,
           Held' = Held, phase[Feed] \in Walking => cur'[Feed].got = cur[Feed].got,
           dev = "rng" /\ Drawing' => draws' > 0 /\ cur'["req"].chunk = <<draws'>>
    PROVE  ReceivedInv'
<1>1. Held \in Nat /\ (phase[Feed] \notin Walking => Held = 0)
    BY HeldFacts DEF Held
<1>2. Follows(Come, Held, cur[Feed].got, received, resets = 0)
    BY DEF IInv, ReceivedInv
<1>3. PICK held \in Nat : held = Held
    BY <1>1
<1>4. PICK come : come = Come
    OBVIOUS
<1>5. PICK got : got = cur[Feed].got
    OBVIOUS
<1>6. PICK new : new = cur'[Feed].got
    OBVIOUS
<1>7. PICK calm \in BOOLEAN : calm = (resets = 0)
    OBVIOUS
<1>8. PICK quiet \in BOOLEAN : quiet = (resets' = 0)
    OBVIOUS
<1>9. PICK rec : rec = received
    OBVIOUS
<1>10. Follows(come, held, got, rec, calm)
    BY <1>2, <1>3, <1>4, <1>5, <1>7, <1>9
<1>11. \A k \in 1..held : new[k] = got[k]
    BY <1>1, <1>3, <1>5, <1>6
<1>14. quiet => calm
    BY <1>7, <1>8
<1>12. Follows(come, held, new, rec, quiet)
    BY <1>10, <1>11, <1>14, FollowsStill
<1>13. Follows(come, held, new, received', quiet)
    BY <1>9, <1>12
<1> QED
    BY <1>3, <1>4, <1>6, <1>8, <1>13, ReceivedIs

LEMMA ReceivedKeep == ASSUME IInv, DevicesNext PROVE ReceivedInv'
<1>1. dev' = dev /\ Feed' = Feed /\ RingTypes' /\ dev \in {"blk", "rng", "input"}
    BY AtQueue, RingTypesKeep, TypeFacts DEF Feed
<1>2. CASE dev = "blk"
    <2>1. received = <<>>
        BY <1>2 DEF IInv, ReceivedInv
    <2>2. received' = received
        <3>1. \A p \in AllQueues : WriteUsedIdx(p) => received' = received
            BY <1>2, IndexDoes
        <3> QED
            BY <3>1, CountsStill
    <2> QED
        BY <1>1, <1>2, <2>1, <2>2 DEF ReceivedInv
<1>3. CASE dev # "blk"
    <2>0. PICK q \in {"req", "event"} : q = Feed
        BY <1>3, HeldFacts
    <2> DEFINE c == cur[q]
    <2>1. /\ q \in Queues /\ q \in {"req", "event"} /\ Come \in Nat /\ Held \in Nat
          /\ phase[q] \in Walking => /\ c.got \in Seq(Nat) /\ Held = Len(c.got)
          /\ phase[q] \notin Walking => Held = 0
        BY <1>3, <2>0, HeldFacts DEF Held
    <2>2. /\ Follows(Come, Held, c.got, received, resets = 0)
          /\ dev = "rng" /\ Drawing => draws > 0 /\ cur["req"].chunk = <<draws>>
        BY <1>3, <2>0 DEF IInv, ReceivedInv
    <2>3. /\ draws \in Nat /\ evTail \in Nat /\ received \in Seq(Nat) /\ resets \in Nat
          /\ resets' \in {resets, resets + 1} /\ c \in Cur /\ Nothing \notin AllQueues
        BY <2>1, RingNumbers, CountsStill, TypeFacts DEF RingsAssumption
    <2>4. /\ dev = "rng" => q = "req" /\ Queues = {"req"}
          /\ dev = "input" => q = "event"
        BY <2>0, TypeFacts, QueuesAre DEF Feed
    <2>5. q = Feed /\ Feed' = Feed /\ dev # "blk" /\ dev' = dev
        BY <1>1, <1>3, <2>0
    <2>6. ASSUME resets' = 0 PROVE resets = 0
        BY <2>3, <2>6
    <2>8. CASE ResetDevice
        <3>1. /\ phase' = [p \in AllQueues |-> "idle"] /\ received' = received /\ resets' = resets + 1
              /\ mp' = Nothing /\ draws' = draws /\ evTail' = evTail
            BY <2>8 DEF ResetDevice, Elsewhere, evRing
        <3>2. ~Drawing' /\ resets' # 0
            BY <2>3, <3>1 DEF Drawing
        <3>3. Come <= Come' /\ Come' \in Nat
            BY <2>3, <2>5, <3>1, <3>2 DEF Come
        <3>4. phase'[Feed] \notin Walking
            BY <2>1, <2>5, <3>1 DEF Walking, Moving, Ending
        <3> QED
            BY <2>5, <3>1, <3>2, <3>3, <3>4, ReceivedOver
    <2>9. CASE EnableQueue(q) \/ DisableQueue(q)
        <3>1. /\ phase'[q] = "idle" /\ mp' \in {mp, Nothing} /\ UNCHANGED <<draws, received, evTail>>
              /\ (resets' = 0 => resets = 0 /\ phase[q] = "idle")
            BY <2>1, <2>9, StartsOver DEF Elsewhere, evRing
        <3>2. dev = "rng" => ~Drawing'
            BY <2>4, <3>1 DEF Drawing
        <3>3. Come <= Come' /\ Come' \in Nat
            BY <2>3, <2>5, <3>1, <3>2 DEF Come
        <3>4. phase[q] = "idle" => Held = 0 /\ Come' = Come
            <4> SUFFICES ASSUME phase[q] = "idle" PROVE Held = 0 /\ Come' = Come
                OBVIOUS
            <4>1. Held = 0
                BY <2>5 DEF Held, Walking, Moving, Ending
            <4>2. dev = "rng" => ~Drawing
                BY <2>4 DEF Drawing
            <4> QED
                BY <2>5, <3>1, <3>2, <4>1, <4>2 DEF Come
        <3>5. phase'[Feed] \notin Walking
            BY <2>5, <3>1 DEF Walking, Moving, Ending
        <3> QED
            BY <2>5, <3>1, <3>2, <3>3, <3>4, <3>5, ReceivedOver
    <2>10. CASE Post(q)
        <3>1. UNCHANGED <<phase, cur, mp, draws, evTail, received, resets>>
            BY <2>10 DEF Post, walk, Elsewhere, evRing
        <3>2. Come' = Come /\ Held' = Held /\ Drawing' = Drawing
            BY <2>5, <3>1 DEF Come, Held, Drawing
        <3> QED
            BY <2>2, <2>5, <3>1, <3>2, ReceivedStill
    <2>11. CASE WriteUsedIdx(q)
        <3>1. /\ phase[q] = "used_idx" /\ phase'[q] = "avail_idx" /\ mp' = Nothing
              /\ received' = received \o c.got /\ UNCHANGED <<draws, evTail, resets>>
            BY <2>1, <2>5, <2>11, IndexDoes DEF evRing
        <3>2. dev = "rng" => ~Drawing /\ ~Drawing'
            BY <2>4, <3>1 DEF Drawing
        <3>3. Come' = Come /\ Held' = 0
            BY <2>5, <3>1, <3>2 DEF Come, Held, Walking, Moving, Ending
        <3>4. c.got \in Seq(Nat) /\ Len(c.got) = Held
            BY <2>1, <3>1 DEF Walking, Ending
        <3>5. PICK g \in Seq(Nat) : g = c.got
            BY <3>4
        <3>6. PICK come \in Nat, held \in Nat, rec \in Seq(Nat) : come = Come /\ held = Held /\ rec = received
            BY <2>1, <2>3
        <3>7. PICK calm : calm = (resets = 0)
            OBVIOUS
        <3>8. PICK new : new = cur'[Feed].got
            OBVIOUS
        <3>9. Follows(come, held, g, rec, calm) /\ Len(g) = held
            BY <2>2, <3>4, <3>5, <3>6, <3>7
        <3>10. Follows(come, 0, new, rec \o g, calm)
            BY <3>9, FollowsGiven
        <3>11. Follows(come, 0, new, received', calm)
            BY <3>1, <3>5, <3>6, <3>10
        <3>12. calm = (resets' = 0)
            BY <3>1, <3>7
        <3> QED
            BY <2>5, <3>2, <3>3, <3>6, <3>8, <3>11, <3>12, ReceivedIs
    <2>12. CASE Notify(q) \/ (q = "event" /\ Wake) \/ ReadAvailIdx(q)
        <3>1. /\ phase[q] \in {"idle", "avail_idx"} /\ phase'[q] \in {"avail_idx", "idle", "ring"}
              /\ UNCHANGED <<draws, evTail, received, resets>>
            BY <2>1, <2>12, WakeDoes, AvailDoes DEF Elsewhere, evRing, driver
        <3>2. phase[q] \notin Walking /\ phase'[Feed] \notin Walking /\ phase[q] # "data" /\ phase'[q] # "data"
            BY <2>5, <3>1 DEF Walking, Moving, Ending
        <3>3. dev = "rng" => ~Drawing /\ ~Drawing'
            BY <2>4, <3>2 DEF Drawing
        <3>4. Held = 0 /\ Come' = Come
            BY <2>1, <2>5, <3>1, <3>2, <3>3 DEF Come
        <3> QED
            BY <2>1, <2>5, <3>1, <3>2, <3>3, <3>4, ReceivedOver
    <2>13. CASE ReadRing(q)
        <3>1. /\ phase[q] = "ring" /\ phase'[q] = "desc" /\ cur'[q].got = <<>>
              /\ UNCHANGED <<draws, evTail, received, resets>>
            BY <2>1, <2>13, RingDoes DEF evRing, driver
        <3>2. dev = "rng" => ~Drawing /\ ~Drawing'
            BY <2>4, <3>1 DEF Drawing
        <3>3. phase[Feed] \notin Walking /\ phase'[Feed] \in Walking
            BY <2>5, <3>1 DEF Walking, Moving, Ending
        <3>4. Held = 0 /\ Come' = Come /\ Held' = 0
            <4>1. Len(cur'[Feed].got) = 0
                BY <2>5, <3>1
            <4> QED
                BY <2>1, <2>5, <3>1, <3>2, <3>3, <4>1 DEF Come, Held
        <3> QED
            BY <2>5, <3>1, <3>2, <3>3, <3>4, ReceivedStill
    <2>14. CASE ReadDesc(q) \/ WriteUsedElem(q)
        <3>1. /\ phase[q] \in {"desc", "used_elem"} /\ phase'[q] \in {"desc", "used_elem", "data", "used_idx"}
              /\ mp' = Nothing /\ cur'[q].got = c.got /\ UNCHANGED <<draws, evTail, received, resets>>
            BY <2>1, <2>14, DescDoes, UsedElemDoes DEF Elsewhere, evRing, driver
        <3>2. dev = "rng" => ~Drawing /\ ~Drawing'
            BY <2>3, <2>4, <3>1 DEF Drawing
        <3>3. phase[Feed] \in Walking /\ phase'[Feed] \in Walking
            BY <2>5, <3>1 DEF Walking, Moving, Ending
        <3>4. Held' = Held /\ Come' = Come
            BY <2>5, <3>1, <3>2, <3>3 DEF Come, Held
        <3> QED
            BY <2>5, <3>1, <3>2, <3>4, ReceivedStill
    <2>15. CASE Start(q)
        <3>1. /\ phase' = phase /\ mp = Nothing /\ mp' = q /\ cur'[q] = Buffered(q) /\ cur'[q].got = c.got
              /\ UNCHANGED <<evTail, received, resets>>
              /\ draws' = (IF dev = "rng" /\ Loads(q) THEN draws + 1 ELSE draws)
            BY <2>1, <2>15, StartDoes DEF evRing, driver, Start
        <3>2. Held' = Held /\ ~Drawing
            BY <2>3, <2>5, <3>1 DEF Held, Drawing
        <3>3. CASE dev = "rng" /\ phase[q] = "data"
            <4>1. draws' = draws + 1 /\ q = "req" /\ Drawing'
                BY <2>4, <3>1, <3>3 DEF Loads, Drawing
            <4>2. Come' = draws' - 1 /\ Come = draws
                BY <2>5, <3>2, <3>3, <4>1 DEF Come
            <4>3. cur'["req"].chunk = <<draws + 1>>
                <5>1. Buffered(q) = [c EXCEPT !.chunk = <<draws + 1>>]
                    BY <3>3, <4>1 DEF Buffered, Loads
                <5>2. DOMAIN c = {"id", "desc", "off", "written", "parsed", "chunk", "step", "got", "status"}
                    BY <2>3 DEF Cur
                <5> HIDE DEF c
                <5> QED
                    BY <3>1, <4>1, <5>1, <5>2
            <4>4. Come' = Come /\ draws' > 0
                BY <2>3, <4>1, <4>2
            <4> QED
                BY <2>5, <3>1, <3>2, <4>1, <4>3, <4>4, ReceivedStill
        <3>4. CASE ~(dev = "rng" /\ phase[q] = "data")
            <4>1. draws' = draws /\ (dev = "rng" => ~Drawing')
                BY <2>4, <3>1, <3>4 DEF Loads, Drawing
            <4>2. Come' = Come
                BY <2>5, <3>1, <3>2, <4>1 DEF Come
            <4> QED
                BY <2>5, <3>1, <3>2, <4>1, <4>2, ReceivedStill
        <3> QED
            BY <3>3, <3>4
    <2>16. CASE q = "req" /\ MoveEntropy
        <3>1. /\ dev = "rng" /\ mp = "req" /\ mp' = Nothing /\ phase["req"] = "data"
              /\ phase'["req"] \in {"data", "desc", "used_elem"}
              /\ cur'["req"].got = c.got \o c.chunk /\ UNCHANGED <<draws, received, resets>>
            <4>1. Behind("req", "used_elem") \in {"desc", "used_elem"}
                BY DEF Behind
            <4> QED
                BY <2>16, <4>1, EntropyDoes DEF Elsewhere, driver
        <3>2. Drawing /\ c.chunk = <<draws>> /\ draws > 0
            BY <2>2, <2>16, <3>1 DEF Drawing
        <3>3. ~Drawing'
            BY <2>3, <3>1 DEF Drawing
        <3>4. Come = draws - 1 /\ Come' = draws
            <4>1. Come' = draws'
                BY <2>5, <3>1, <3>3 DEF Come
            <4> QED
                BY <3>1, <3>2, <4>1 DEF Come
        <3>5. Held = Len(c.got) /\ c.got \in Seq(Nat)
            BY <2>1, <2>16, <3>1 DEF Walking, Moving
        <3>6. PICK s \in Seq(Nat) : s = c.chunk /\ Len(s) = 1 /\ s[1] = draws
            <4>1. PICK n \in Nat : n = draws
                BY <2>3
            <4>2. <<n>> \in Seq(Nat) /\ Len(<<n>>) = 1 /\ <<n>>[1] = n
                OBVIOUS
            <4> QED
                BY <3>2, <4>1, <4>2
        <3>7. PICK come \in Nat, held \in Nat, g \in Seq(Nat) : come = Come /\ held = Held /\ g = c.got
            BY <2>1, <3>5
        <3>8. PICK rec \in Seq(Nat) : rec = received
            BY <2>3
        <3>9. PICK calm : calm = (resets = 0)
            OBVIOUS
        <3>10. Follows(come, held, g, rec, calm) /\ Len(g) = held
            BY <2>2, <3>5, <3>7, <3>8, <3>9
        <3>11. \A k \in 1..Len(s) : s[k] = come + k
            BY <2>3, <3>4, <3>6, <3>7
        <3>12. Follows(come + Len(s), held + Len(s), g \o s, rec, calm)
            BY <3>10, <3>11, FollowsGain
        <3>13. cur'[Feed].got = g \o s
            BY <2>5, <2>16, <3>1, <3>6, <3>7
        <3>14. Len(g \o s) = held + Len(s)
            <4>1. Len(g \o s) = Len(g) + Len(s)
                OBVIOUS
            <4> QED
                BY <3>10, <4>1
        <3>15. Held' = held + Len(s) /\ Come' = come + Len(s)
            <4>1. Held' = Len(cur'[Feed].got)
                BY <2>5, <2>16, <3>1 DEF Held, Walking, Moving, Ending
            <4>2. Come' = come + 1
                BY <2>3, <3>4, <3>7
            <4> QED
                BY <3>6, <3>13, <3>14, <4>1, <4>2
        <3>16. PICK more, keep, got : more = come + Len(s) /\ keep = held + Len(s) /\ got = g \o s
            OBVIOUS
        <3>17. Follows(more, keep, got, received', calm) /\ calm = (resets' = 0)
            BY <3>1, <3>8, <3>9, <3>12, <3>16
        <3> QED
            BY <2>5, <3>3, <3>13, <3>15, <3>16, <3>17, ReceivedIs
    <2>17. CASE q = "event" /\ MoveEvents
        <3>1. /\ mp = "event" /\ mp' = Nothing /\ phase["event"] = "data" /\ phase'["event"] = "used_elem"
              /\ evTail' = c.step + Len(c.chunk) /\ cur'["event"].got = c.chunk /\ UNCHANGED <<received, resets>>
            BY <2>17, EventsMoveDoes DEF driver
        <3>2. /\ c.got = <<>> /\ c.step = evTail /\ \A k \in 1..Len(c.chunk) : c.chunk[k] = evTail + k
            BY <2>17, <3>1 DEF IInv, EventsInv, EventQueue, Moving
        <3>3. dev # "rng"
            BY <2>4, <2>17
        <3>4. Come = evTail /\ Come' = evTail + Len(c.chunk)
            BY <2>5, <3>1, <3>2, <3>3 DEF Come
        <3>5. Held = 0
            <4>1. Len(c.got) = 0
                BY <3>2
            <4> QED
                BY <2>1, <2>17, <3>1, <4>1 DEF Walking, Moving
        <3>6. PICK s \in Seq(Nat) : s = c.chunk
            <4>1. c.chunk \in Seq(Stuff)
                BY <2>3 DEF Cur
            <4>2. PICK s \in Seq(Stuff) : s = c.chunk
                BY <4>1
            <4>3. \A k \in 1..Len(s) : s[k] = evTail + k
                BY <3>2, <4>2
            <4>4. \A k \in 1..Len(s) : s[k] \in Nat
                BY <2>3, <4>3
            <4>5. s \in Seq(Nat)
                BY <4>4
            <4> QED
                BY <4>2, <4>5
        <3>7. PICK come \in Nat, n \in Nat : come = Come /\ n = Len(s)
            BY <2>1
        <3>8. PICK rec : rec = received
            OBVIOUS
        <3>9. PICK calm : calm = (resets = 0)
            OBVIOUS
        <3>10. PICK g \in Seq(Nat), none \in Nat : g = <<>> /\ none = 0
            <4>1. <<>> \in Seq(Nat) /\ 0 \in Nat
                OBVIOUS
            <4> QED
                BY <4>1
        <3>11. Follows(come, none, g, rec, calm) /\ Len(g) = none
            BY <2>2, <3>2, <3>5, <3>7, <3>8, <3>9, <3>10
        <3>12. \A k \in 1..Len(s) : s[k] = come + k
            BY <3>2, <3>4, <3>6, <3>7
        <3>13. Follows(come + Len(s), none + Len(s), g \o s, rec, calm)
            BY <3>11, <3>12, FollowsGain
        <3>14. g \o s = s /\ none + Len(s) = n
            BY <3>7, <3>10
        <3>15. Held' = n /\ Come' = come + n
            BY <2>5, <2>17, <3>1, <3>4, <3>6, <3>7 DEF Held, Walking, Moving, Ending
        <3>16. PICK more : more = come + n
            OBVIOUS
        <3>17. Follows(more, n, s, received', calm) /\ calm = (resets' = 0)
            BY <3>1, <3>7, <3>8, <3>9, <3>13, <3>14, <3>16
        <3>18. cur'[Feed].got = s
            BY <2>5, <2>17, <3>1, <3>6
        <3> QED
            BY <2>5, <3>3, <3>15, <3>16, <3>17, <3>18, ReceivedIs
\* Something else happens.
    <2>18. CASE ~OnQueue(q) /\ ~ResetDevice
        <3>1. Still(q) /\ (mp' = q => mp = q)
            BY <2>1, <2>18, Elsewheres
        <3>2. received' = received
            <4> SUFFICES ASSUME NEW p \in AllQueues, WriteUsedIdx(p) PROVE received' = received
                BY CountsStill
            <4>1. phase[p] = "used_idx"
                BY IndexDoes
            <4>2. p # q
                BY <2>1, <2>18 DEF OnQueue
            <4>3. p \notin {"req", "event"}
                BY <2>5, <4>1, <4>2, FeedOnly
            <4> QED
                BY <4>3, IndexDoes
        <3>3. CASE dev = "rng"
            <4>1. HostStep
                <5>1. ~Wake
                    BY <3>3 DEF Wake, WakesUp
                <5>2. ~MoveEvents /\ ~MoveStatus
                    <6>1. QueueInOrder("event") /\ QueueInOrder("status")
                        BY TypeFacts
                    <6>2. phase["event"] = "idle" /\ phase["status"] = "idle"
                        BY <2>4, <3>3, <6>1 DEF QueueInOrder
                    <6> QED
                        BY <6>2, EventsMoveDoes, StatusMoveDoes
                <5> QED
                    BY <2>4, <2>18, <3>3, <5>1, <5>2, StepCases DEF OnQueue, MoveStep
            <4>2. UNCHANGED <<phase, cur, mp, draws, resets>>
                BY <4>1, HostStill
            <4>3. Come' = Come /\ Held' = Held /\ Drawing' = Drawing
                BY <2>5, <3>3, <4>2 DEF Come, Held, Drawing
            <4> QED
                BY <2>2, <2>5, <3>2, <4>2, <4>3, ReceivedStill
        <3>4. CASE dev # "rng"
            <4>1. dev = "input" /\ q = "event"
                BY <1>1, <2>4, <2>5, <3>4
            <4>2. ~MoveEvents
                BY <2>18, <4>1 DEF OnQueue
            <4>3. evTail' = evTail
                BY <4>2, RingsStill DEF Push, PushDone
            <4>4. phase'[q] = phase[q] /\ cur'[q] = cur[q]
                BY <3>1 DEF Still
            <4>5. Come' = Come /\ Held' = Held
                BY <2>5, <3>4, <4>3, <4>4 DEF Come, Held
            <4> QED
                BY <2>5, <2>6, <3>2, <3>4, <4>4, <4>5, ReceivedStill
        <3> QED
            BY <3>3, <3>4
    <2>19. ~(q = "req" /\ BlockStep)
        BY <1>3, NoBlockStep
    <2>20. q \in AllQueues /\ q # "status"
        OBVIOUS
    <2> HIDE DEF c
    <2> QED
        BY <2>8, <2>9, <2>10, <2>11, <2>12, <2>13, <2>14, <2>15, <2>16, <2>17, <2>18, <2>19, <2>20 DEF OnQueue, WalkStep
<1> QED
    BY <1>2, <1>3

-----------------------------------------------------------------------------
(* What the guest reports to the host. *)

LEMMA StatusFacts ==
    ASSUME IInv
    PROVE  /\ avail["status"] \in Seq(Sendable) /\ Len(avail["status"]) \in Nat /\ posts["status"] \in Nat
           /\ last["status"] \in Nat /\ last["status"] <= Len(avail["status"])
           /\ \A i \in 1..Len(avail["status"]) : avail["status"][i].id \in Nat
<1>1. avail["status"] \in Seq(Sendable) /\ posts["status"] \in Nat /\ last["status"] \in Nat /\ QueueInOrder("status")
    BY TypeFacts
<1>2. PICK a \in Seq(Sendable) : a = avail["status"]
    BY <1>1
<1>3. \A i \in 1..Len(a) : a[i].id \in Nat
    BY ElementIs, ChainType
<1> QED
    BY <1>1, <1>2, <1>3 DEF QueueInOrder

LEMMA IdsKeep == ASSUME IInv, DevicesNext PROVE IdsInv'
<1>1. /\ \A i \in 1..Len(avail["status"]) : avail["status"][i].id <= posts["status"]
      /\ \A i, j \in 1..Len(avail["status"]) : i < j => avail["status"][i].id < avail["status"][j].id
    BY DEF IInv, IdsInv
<1>2. ASSUME avail'["status"] = avail["status"], posts'["status"] = posts["status"] PROVE IdsInv'
    BY <1>1, <1>2 DEF IdsInv
<1>3. ASSUME avail'["status"] = <<>> PROVE IdsInv'
    BY <1>3 DEF IdsInv
<1>4. CASE ResetDevice
    BY <1>3, <1>4 DEF ResetDevice
<1>5. CASE EnableQueue("status") \/ DisableQueue("status")
    BY <1>3, <1>5, StartsOver
<1>6. CASE "status" \in Queues /\ Post("status")
    <2>1. PICK a \in Seq(Sendable), n \in Nat, p \in Nat :
            a = avail["status"] /\ n = Len(a) /\ p = posts["status"]
        BY StatusFacts
    <2>2. /\ posts'["status"] = p + 1 /\ Len(avail'["status"]) = n + 1 /\ avail'["status"][n + 1].id = p + 1
          /\ \A i \in 1..n : avail'["status"][i] = a[i]
        BY <1>6, <2>1, PostKeeps
    <2>3. \A i \in 1..n : a[i].id \in Nat /\ a[i].id <= p
        BY <1>1, <2>1, StatusFacts
    <2>4. ASSUME NEW i \in 1..(n + 1)
          PROVE  \/ i \in 1..n /\ avail'["status"][i] = a[i]
                 \/ i = n + 1 /\ avail'["status"][i].id = p + 1
        BY <2>2
    <2>5. \A i \in 1..(n + 1) : avail'["status"][i].id <= p + 1
        BY <2>3, <2>4
    <2>6. ASSUME NEW i \in 1..(n + 1), NEW j \in 1..(n + 1), i < j
          PROVE avail'["status"][i].id < avail'["status"][j].id
        <3>1. i \in 1..n /\ avail'["status"][i] = a[i]
            BY <2>2, <2>6
        <3>2. CASE j = n + 1
            BY <2>2, <2>3, <3>1, <3>2
        <3>3. CASE j # n + 1
            <4>1. j \in 1..n /\ avail'["status"][j] = a[j]
                BY <2>2, <3>3
            <4> QED
                BY <1>1, <2>1, <2>6, <3>1, <4>1
        <3> QED
            BY <3>2, <3>3
    <2> QED
        BY <2>2, <2>5, <2>6 DEF IdsInv
<1>7. CASE WriteUsedIdx("status")
    BY <1>2, <1>7, IndexDoes
<1>8. CASE WalkStep("status") \/ MoveStatus
    BY <1>2, <1>8, GuestStill DEF MoveStep
<1>9. CASE Still("status")
    BY <1>2, <1>9 DEF Still
<1> QED
    BY <1>4, <1>5, <1>6, <1>7, <1>8, <1>9, AtQueue DEF OnQueue

LEMMA StatusRingKeep == ASSUME IInv, DevicesNext PROVE StatusRing'
<1>1. /\ stTail <= stHead /\ stHead - stTail <= Ring /\ Len(accepted) = stHead
      /\ popping => stTail < stHead
      /\ Len(popped) = stTail + (IF popping THEN 1 ELSE 0)
      /\ \A t \in stTail..(stHead - 1) : stSlot[t % Ring] = accepted[t + 1]
      /\ \A k \in 1..Len(popped) : popped[k] = accepted[k]
    BY DEF IInv, StatusRing
<1>2. /\ Ring \in Nat \ {0} /\ stHead \in Nat /\ stTail \in Nat /\ popping \in BOOLEAN
      /\ stSlot \in [Slots -> Nat] /\ \A t \in Nat : t % Ring \in Slots
    BY RingNumbers
<1>3. PICK a \in Seq(Nat), p \in Seq(Nat) : a = accepted /\ p = popped
    BY RingNumbers
<1>4. CASE UNCHANGED <<stSlot, stHead, stTail, popping, accepted, popped>>
    BY <1>1, <1>4 DEF StatusRing
<1>5. CASE MoveStatus
    <2> DEFINE id == cur["status"].id
    <2>1. /\ id \in Nat /\ UNCHANGED <<stTail, popping, popped>>
          /\ HasRoom => /\ stSlot' = [stSlot EXCEPT ![stHead % Ring] = id] /\ stHead' = stHead + 1
                        /\ accepted' = Append(accepted, id)
          /\ ~HasRoom => stSlot' = stSlot /\ stHead' = stHead /\ accepted' = accepted
        BY <1>5, StatusMoveDoes DEF stRing
    <2>2. CASE ~HasRoom
        BY <1>4, <2>1, <2>2
    <2>3. CASE HasRoom
        <3>1. stHead - stTail < Ring
            BY <2>3 DEF HasRoom
        <3>0. PICK x \in Nat : x = id
            BY <2>1
        <3> HIDE DEF id
        <3>2. /\ accepted' = Append(a, x) /\ Len(accepted') = stHead + 1 /\ accepted'[stHead + 1] = x
              /\ \A k \in 1..stHead : accepted'[k] = a[k]
            <4>1. accepted' = Append(a, x) /\ Len(a) = stHead
                BY <1>1, <1>3, <2>1, <2>3, <3>0
            <4>2. /\ Len(Append(a, x)) = Len(a) + 1 /\ Append(a, x)[Len(a) + 1] = x
                  /\ \A k \in 1..Len(a) : Append(a, x)[k] = a[k]
                BY AppendKeeps
            <4> QED
                BY <4>1, <4>2
        <3>3. stTail <= stHead' /\ stHead' - stTail <= Ring /\ (popping => stTail < stHead')
            BY <1>1, <1>2, <2>1, <2>3, <3>1
        <3>4. ASSUME NEW t \in stTail..(stHead' - 1) PROVE stSlot'[t % Ring] = accepted'[t + 1]
            <4>1. CASE t = stHead
                <5>1. stSlot'[stHead % Ring] = id
                    BY <1>2, <2>1, <2>3
                <5> QED
                    BY <3>0, <3>2, <4>1, <5>1
            <4>2. CASE t # stHead
                <5>1. t \in stTail..(stHead - 1) /\ t \in Nat /\ stHead > t /\ stHead - t < Ring /\ t + 1 \in 1..stHead
                    BY <1>2, <2>1, <2>3, <3>1, <4>2
                <5>2. stHead % Ring # t % Ring
                    BY <1>2, <5>1, SlotsDiffer
                <5>3. stSlot'[t % Ring] = stSlot[t % Ring]
                    BY <1>2, <2>1, <2>3, <5>1, <5>2
                <5> QED
                    BY <1>1, <1>3, <3>2, <5>1, <5>3
            <4> QED
                BY <4>1, <4>2
        <3>5. ASSUME NEW k \in 1..Len(popped) PROVE popped[k] = accepted'[k]
            <4>1. Len(popped) <= stHead /\ Len(popped) \in Nat
                BY <1>1, <1>2, <1>3
            <4>2. k \in 1..stHead
                BY <1>2, <4>1
            <4> QED
                BY <1>1, <1>3, <3>2, <4>2
        <3> QED
            BY <1>1, <2>1, <2>3, <3>2, <3>3, <3>4, <3>5 DEF StatusRing
    <2> QED
        BY <2>2, <2>3
<1>6. CASE Pop
    <2>1. /\ ~popping /\ stHead # stTail /\ popping' = TRUE /\ popped' = Append(p, stSlot[stTail % Ring])
          /\ UNCHANGED <<stSlot, stHead, stTail, accepted>>
        BY <1>3, <1>6 DEF Pop
    <2>2. stTail < stHead /\ Len(p) = stTail
        BY <1>1, <1>2, <1>3, <2>1
    <2>3. stSlot[stTail % Ring] = accepted[stTail + 1] /\ stSlot[stTail % Ring] \in Nat
        BY <1>1, <1>2, <2>2
    <2>4. PICK x \in Nat : x = stSlot[stTail % Ring]
        BY <2>3
    <2>5. /\ Len(popped') = stTail + 1 /\ popped'[stTail + 1] = x /\ \A k \in 1..stTail : popped'[k] = p[k]
        BY <2>1, <2>2, <2>4, AppendKeeps
    <2>6. ASSUME NEW k \in 1..(stTail + 1) PROVE popped'[k] = accepted[k]
        <3>1. CASE k = stTail + 1
            BY <2>3, <2>4, <2>5, <3>1
        <3>2. CASE k # stTail + 1
            <4>1. k \in 1..stTail
                BY <1>2, <3>2
            <4> QED
                BY <1>1, <1>3, <2>2, <2>5, <4>1
        <3> QED
            BY <3>1, <3>2
    <2> QED
        BY <1>1, <2>1, <2>2, <2>5, <2>6 DEF StatusRing
<1>7. CASE PopDone
    <2>1. /\ popping /\ popping' = FALSE /\ stTail' = stTail + 1
          /\ UNCHANGED <<stSlot, stHead, accepted, popped>>
        BY <1>7 DEF PopDone
    <2>2. stTail < stHead
        BY <1>1, <2>1
    <2>3. stTail' <= stHead /\ stHead - stTail' <= Ring /\ Len(popped) = stTail'
        BY <1>1, <1>2, <2>1, <2>2
    <2>4. \A t \in stTail'..(stHead - 1) : t \in stTail..(stHead - 1)
        BY <1>2, <2>1
    <2> QED
        BY <1>1, <2>1, <2>3, <2>4 DEF StatusRing
<1> QED
    BY <1>4, <1>5, <1>6, <1>7, RingsStill

\* The device is as far with the guest's events as it was.
LEMMA StatusGoesOn ==
    ASSUME IInv, UNCHANGED <<posts, accepted, overran>>, avail'["status"] = avail["status"],
           Settled' = Settled,
           phase'["status"] \in Moving => phase'["status"] \in {"desc", "data"},
           phase'["status"] = "data" => Desc("status")'.next # "next"
    PROVE  StatusInv'
<1>1. StatusInv
    BY DEF IInv
<1>2. \A id : Accepted(id)' <=> Accepted(id)
    BY DEF Accepted
<1> QED
    BY <1>1, <1>2 DEF StatusInv

\* The device starts over with what the guest reports.
LEMMA StatusStartsOver ==
    ASSUME IInv, accepted' = accepted, overran' = overran, posts' = posts,
           avail'["status"] = <<>>, last'["status"] = 0, phase'["status"] = "idle"
    PROVE  StatusInv'
<1>1. StatusInv
    BY DEF IInv
<1>2. Len(avail'["status"]) = 0 /\ Settled' = 0
    BY DEF Settled, Ending
<1> QED
    BY <1>1, <1>2 DEF StatusInv, Moving

LEMMA StatusKeep == ASSUME IInv, DevicesNext PROVE StatusInv'
<1> DEFINE c == cur["status"]
<1>0. PICK n \in Nat : n = Len(avail["status"])
    BY StatusFacts
<1>1. /\ \A k \in 1..Len(accepted) :
           /\ accepted[k] <= posts["status"]
           /\ \A j \in 1..n : j > Settled => accepted[k] < avail["status"][j].id
      /\ RisesAlways(accepted)
      /\ phase["status"] \in Moving => phase["status"] \in {"desc", "data"}
      /\ phase["status"] = "data" => Desc("status").next # "next"
      /\ ~overran => \A i \in 1..Settled : Tells(avail["status"][i]) => Accepted(avail["status"][i].id)
    BY <1>0 DEF IInv, StatusInv
<1>2. /\ last["status"] \in Nat /\ last["status"] <= n /\ posts["status"] \in Nat
      /\ \A i \in 1..n : avail["status"][i].id \in Nat
      /\ accepted \in Seq(Nat)
      /\ phase["status"] \in Walking => last["status"] + 1 \in 1..n
    BY <1>0, StatusFacts, RingNumbers, RequestFacts
<1>3. MoveStatus \/ UNCHANGED <<accepted, overran>>
    BY RingsStill DEF Pop, PopDone
<1>4. MoveStatus => phase["status"] = "data" /\ phase'["status"] = "used_elem"
    BY StatusMoveDoes
<1>5. CASE Still("status") /\ posts' = posts
    <2>1. ~MoveStatus
        BY <1>4, <1>5 DEF Still
    <2>2. Settled' = Settled /\ Desc("status")' = Desc("status") /\ phase'["status"] = phase["status"]
        BY <1>5 DEF Still, Settled, Desc, Chain, Current
    <2> QED
        BY <1>1, <1>3, <1>5, <2>1, <2>2, StatusGoesOn DEF Still
<1>6. CASE Still("status") /\ posts' # posts
    <2>1. ~MoveStatus
        BY <1>4, <1>6 DEF Still
    <2>2. Settled' = Settled /\ Desc("status")' = Desc("status") /\ \A id : Accepted(id)' <=> Accepted(id)
        BY <1>3, <1>6, <2>1 DEF Still, Settled, Desc, Chain, Current, Accepted
    <2>3. /\ avail'["status"] = avail["status"] /\ posts'["status"] = posts["status"]
          /\ phase'["status"] = phase["status"] /\ UNCHANGED <<accepted, overran>>
        BY <1>3, <1>6, <2>1 DEF Still
    <2> QED
        BY <1>0, <1>1, <2>2, <2>3 DEF StatusInv
<1>7. CASE ResetDevice
    <2>1. posts' = posts /\ avail'["status"] = <<>> /\ last'["status"] = 0 /\ phase'["status"] = "idle"
          /\ UNCHANGED <<accepted, overran>>
        BY <1>7 DEF ResetDevice, Elsewhere, stRing
    <2> QED
        BY <2>1, StatusStartsOver
<1>8. CASE EnableQueue("status") \/ DisableQueue("status")
    <2>1. posts' = posts /\ avail'["status"] = <<>> /\ last'["status"] = 0 /\ phase'["status"] = "idle"
          /\ UNCHANGED <<accepted, overran>>
        BY <1>8, StartsOver DEF Elsewhere, stRing
    <2> QED
        BY <2>1, StatusStartsOver
<1>9. CASE "status" \in Queues /\ Post("status")
    <2>1. PICK p \in Nat : p = posts["status"]
        BY <1>2
    <2>2. /\ UNCHANGED <<phase, last, cur>> /\ Elsewhere /\ posts'["status"] = p + 1
          /\ Len(avail'["status"]) = n + 1 /\ avail'["status"][n + 1].id = p + 1
          /\ \A i \in 1..n : avail'["status"][i] = avail["status"][i]
          /\ phase["status"] \in Walking => Current("status")' = Current("status")
        BY <1>0, <1>9, <2>1, PostKeeps
    <2>3. UNCHANGED <<accepted, overran>> /\ Settled' = Settled
        BY <2>2 DEF Elsewhere, stRing, Settled
    <2>4. phase["status"] = "data" => Desc("status")' = Desc("status")
        BY <2>2 DEF Desc, Chain, Walking, Moving
    <2>5. Settled \in 0..n
        BY <1>2 DEF Settled, Walking
    <2>6. ASSUME NEW k \in 1..Len(accepted)
          PROVE  /\ accepted[k] <= p + 1
                 /\ \A j \in 1..(n + 1) : j > Settled => accepted[k] < avail'["status"][j].id
        <3>1. accepted[k] \in Nat /\ accepted[k] <= p
            BY <1>1, <1>2, <2>1
        <3>2. ASSUME NEW j \in 1..(n + 1), j > Settled PROVE accepted[k] < avail'["status"][j].id
            <4>1. CASE j = n + 1
                BY <2>2, <3>1, <4>1
            <4>2. CASE j # n + 1
                <5>1. j \in 1..n
                    BY <4>2
                <5> QED
                    BY <1>1, <2>2, <3>2, <5>1
            <4> QED
                BY <4>1, <4>2
        <3> QED
            BY <3>1, <3>2
    <2>7. \A i \in 1..Settled : i \in 1..n
        BY <2>5
    <2>8. \A id : Accepted(id)' <=> Accepted(id)
        BY <2>3 DEF Accepted
    <2>9. ~overran => \A i \in 1..Settled : Tells(avail'["status"][i]) => Accepted(avail'["status"][i].id)
        BY <1>1, <2>2, <2>7
    <2> QED
        BY <1>1, <2>2, <2>3, <2>4, <2>6, <2>8, <2>9 DEF StatusInv
<1>10. CASE WriteUsedIdx("status")
    <2>1. /\ phase["status"] = "used_idx" /\ phase'["status"] = "avail_idx" /\ last'["status"] = last["status"] + 1
          /\ UNCHANGED <<posts, avail, accepted, overran>>
        BY <1>10, IndexDoes DEF stRing
    <2>2. Settled' = Settled
        BY <1>2, <2>1 DEF Settled, Ending
    <2> QED
        BY <2>1, <2>2, StatusGoesOn DEF Moving
<1>11. CASE Notify("status") \/ ReadAvailIdx("status") \/ ReadRing("status")
    <2>1. /\ phase["status"] \in {"idle", "avail_idx", "ring"}
          /\ phase'["status"] \in {"idle", "avail_idx", "ring", "desc"}
          /\ UNCHANGED <<posts, avail, accepted, overran, last>>
        BY <1>11, WakeDoes, AvailDoes, RingDoes DEF Elsewhere, stRing, driver
    <2>2. Settled' = Settled
        BY <2>1 DEF Settled, Ending
    <2> QED
        BY <2>1, <2>2, StatusGoesOn DEF Moving
<1>12. CASE WriteUsedElem("status")
    <2>1. /\ phase["status"] = "used_elem" /\ phase'["status"] = "used_idx"
          /\ UNCHANGED <<posts, avail, accepted, overran, last>>
        BY <1>12, UsedElemDoes DEF Elsewhere, stRing, driver
    <2>2. Settled' = Settled
        BY <2>1 DEF Settled, Ending
    <2> QED
        BY <2>1, <2>2, StatusGoesOn DEF Moving
<1>13. CASE Start("status")
    <2>1. UNCHANGED <<posts, avail, accepted, overran, last, phase>> /\ cur'["status"].desc = c.desc
        BY <1>13, StartDoes DEF stRing, driver
    <2>2. Settled' = Settled /\ Desc("status")' = Desc("status")
        BY <2>1 DEF Settled, Desc, Chain, Current
    <2> QED
        BY <1>1, <2>1, <2>2, StatusGoesOn
\* An event that is empty is as good as reported.
<1>14. CASE ReadDesc("status")
    <2>1. /\ phase["status"] = "desc" /\ UNCHANGED <<posts, avail, accepted, overran, last>>
          /\ phase'["status"] = (IF Desc("status").next = "next" THEN "desc"
                                 ELSE IF Desc("status").len = 0 THEN "used_elem" ELSE "data")
          /\ Desc("status").next # "next" => cur'["status"].desc = c.desc
        BY <1>14, DescDoes DEF Elsewhere, stRing, driver
    <2>2. CASE phase'["status"] # "used_elem"
        <3>1. Settled' = Settled
            BY <2>1, <2>2 DEF Settled, Ending
        <3>2. phase'["status"] = "data" => Desc("status").next # "next" /\ Desc("status")' = Desc("status")
            BY <2>1 DEF Desc, Chain, Current
        <3> QED
            BY <2>1, <2>2, <3>1, <3>2, StatusGoesOn
    <2>3. CASE phase'["status"] = "used_elem"
        <3>1. Desc("status").next # "next" /\ Desc("status").len = 0
            BY <2>1, <2>3
        <3>2. Settled = last["status"] /\ Settled' = last["status"] + 1
            BY <1>2, <2>1, <2>3 DEF Settled, Ending
        <3>3. ~Tells(avail["status"][last["status"] + 1])
            <4>1. Desc("status") = Chain("status")[Len(Chain("status"))]
                BY <2>1, <3>1, OnwardFacts, DescFacts DEF Moving
            <4>2. Chain("status") = avail["status"][last["status"] + 1].what.chain
                BY <2>1, RequestFacts DEF Walking, Moving
            <4> QED
                BY <3>1, <4>1, <4>2 DEF Tells, Last
        <3>4. \A j \in 1..n : j > last["status"] + 1 => j > last["status"]
            BY <1>2
        <3>5. \A i \in 1..(last["status"] + 1) : i \in 1..last["status"] \/ i = last["status"] + 1
            BY <1>2
        <3>6. \A id : Accepted(id)' <=> Accepted(id)
            BY <2>1 DEF Accepted
        <3>7. \A k \in 1..Len(accepted) : \A j \in 1..n : j > Settled' => accepted[k] < avail["status"][j].id
            BY <1>1, <3>2, <3>4
        <3>8. ~overran => \A i \in 1..Settled' : Tells(avail["status"][i]) => Accepted(avail["status"][i].id)
            BY <1>1, <3>2, <3>3, <3>5
        <3> QED
            BY <1>0, <1>1, <2>1, <2>3, <3>6, <3>7, <3>8 DEF StatusInv, Moving
    <2> QED
        BY <2>2, <2>3
<1>15. CASE MoveStatus
    <2>1. /\ phase["status"] = "data" /\ phase'["status"] = "used_elem" /\ c.id \in Nat
          /\ UNCHANGED <<posts, avail, last>>
          /\ HasRoom => accepted' = Append(accepted, c.id) /\ overran' = overran
          /\ ~HasRoom => overran' = TRUE /\ accepted' = accepted
        BY <1>15, StatusMoveDoes DEF driver
    <2>2. PICK l \in Nat : l = last["status"]
        BY <1>2
    <2>3. Settled = l /\ Settled' = l + 1
        BY <2>1, <2>2 DEF Settled, Ending
    <2>4. l + 1 \in 1..n /\ c.id = avail["status"][l + 1].id
        BY <1>2, <2>1, <2>2, RequestFacts DEF Walking, Moving
    <2>5. PICK a \in Seq(Nat), x \in Nat, m \in Nat : a = accepted /\ x = c.id /\ m = Len(a)
        BY <1>2, <2>1
    <2>6. \A j \in 1..n : j > l + 1 => j > l
        OBVIOUS
    <2>7. \A k \in 1..m : a[k] <= posts["status"] /\ a[k] < x /\ \A j \in 1..n : j > l + 1 => a[k] < avail["status"][j].id
        BY <1>1, <2>3, <2>4, <2>5, <2>6
    <2>8. CASE ~HasRoom
        <3>1. accepted' = a /\ Len(a) = m /\ overran'
            BY <2>1, <2>5, <2>8
        <3> QED
            BY <1>0, <1>1, <2>1, <2>3, <2>5, <2>7, <3>1 DEF StatusInv, Moving
    <2>9. CASE HasRoom
        <3>1. /\ accepted' = Append(a, x) /\ Len(accepted') = m + 1 /\ accepted'[m + 1] = x /\ overran' = overran
              /\ accepted' \in Seq(Nat) /\ \A k \in 1..m : accepted'[k] = a[k]
            BY <2>1, <2>5, <2>9, AppendKeeps
        <3>2. \A k \in 1..(m + 1) : (k \in 1..m /\ accepted'[k] = a[k]) \/ (k = m + 1 /\ accepted'[k] = x)
            BY <3>1
        <3>3. x <= posts["status"] /\ \A j \in 1..n : j > l + 1 => x < avail["status"][j].id
            BY <1>0, <2>4, <2>5 DEF IInv, IdsInv
        <3>4. \A k \in 1..(m + 1) : /\ accepted'[k] <= posts["status"]
                                    /\ \A j \in 1..n : j > l + 1 => accepted'[k] < avail["status"][j].id
            BY <2>7, <3>2, <3>3
        <3>5. RisesAlways(accepted')
            <4>1. DOMAIN accepted' = 1..(m + 1) /\ DOMAIN a = 1..m
                BY <2>5, <3>1
            <4>2. \A i, j \in 1..m : i < j => a[i] < a[j]
                BY <1>1, <2>5, <4>1 DEF RisesAlways
            <4>3. ASSUME NEW i \in 1..(m + 1), NEW j \in 1..(m + 1), i < j PROVE accepted'[i] < accepted'[j]
                <5>1. i \in 1..m
                    BY <4>3
                <5>2. CASE j = m + 1
                    BY <2>7, <3>1, <5>1, <5>2
                <5>3. CASE j # m + 1
                    <6>1. j \in 1..m
                        BY <5>3
                    <6> QED
                        BY <3>1, <4>2, <4>3, <5>1, <6>1
                <5> QED
                    BY <5>2, <5>3
            <4> QED
                BY <4>1, <4>3 DEF RisesAlways
        <3>6. ASSUME ~overran, NEW i \in 1..(l + 1), Tells(avail["status"][i]) PROVE Accepted(avail["status"][i].id)'
            <4>1. CASE i = l + 1
                <5>1. m + 1 \in 1..Len(accepted') /\ accepted'[m + 1] = avail["status"][i].id
                    BY <2>4, <2>5, <3>1, <4>1
                <5> QED
                    BY <2>1, <5>1 DEF Accepted
            <4>2. CASE i # l + 1
                <5>1. i \in 1..l
                    BY <4>2
                <5>2. PICK k \in 1..m : a[k] = avail["status"][i].id
                    BY <1>1, <2>3, <2>5, <3>6, <5>1 DEF Accepted
                <5>3. k \in 1..Len(accepted') /\ accepted'[k] = avail["status"][i].id
                    BY <3>1, <5>2
                <5> QED
                    BY <2>1, <5>3 DEF Accepted
            <4> QED
                BY <4>1, <4>2
        <3> QED
            BY <1>0, <2>1, <2>3, <3>1, <3>4, <3>5, <3>6 DEF StatusInv, Moving
    <2> QED
        BY <2>8, <2>9
<1> QED
    BY <1>5, <1>6, <1>7, <1>8, <1>9, <1>10, <1>11, <1>12, <1>13, <1>14, <1>15, AtQueue DEF OnQueue, WalkStep

-----------------------------------------------------------------------------
(* Blocks. *)

LEMMA HomeFacts ==
    ASSUME RingsAssumption, NEW r, r.sector \in Nat
    PROVE  \A k \in Nat \ {0} : Home(r, k) \in Nat /\ Home(r, k) = Home(r, 1) + k - 1 /\ Home(r, k) >= Home(r, 1)
<1>1. SectorSize \in Nat
    BY DEF RingsAssumption
<1>2. PICK b \in Nat : b = r.sector * SectorSize
    BY <1>1
<1>3. \A k : Home(r, k) = b + k - 1
    BY <1>2 DEF Home
<1> QED
    BY <1>3

LEMMA AnswerGoesOn ==
    ASSUME NEW r, NEW m \in Nat
    PROVE  /\ Answer(r, 0) = "ok"
           /\ Answer(r, m + 1) =
                IF r.type = "other" THEN "unsupp"
                ELSE IF (r.type = "out" /\ readOnly) \/ (r.type \in {"in", "out"} /\ Home(r, m + 1) >= Size)
                THEN "ioerr" ELSE Answer(r, m)
<1>1. \A k \in 1..(m + 1) : k \in 1..m \/ k = m + 1
    OBVIOUS
<1>2. (\E k \in 1..(m + 1) : Home(r, k) >= Size) <=> ((\E k \in 1..m : Home(r, k) >= Size) \/ Home(r, m + 1) >= Size)
    BY <1>1
<1>3. ~(\E k \in 1..0 : Home(r, k) >= Size)
    OBVIOUS
<1> QED
    BY <1>2, <1>3 DEF Answer

LEMMA GrowsTo ==
    ASSUME NEW S, NEW m \in Nat, NEW f, DOMAIN f = 1..(m + 1), f = [k \in 1..(m + 1) |-> f[k]],
           NEW g \in Seq(S), Len(g) = m, \A k \in 1..m : g[k] = f[k], f[m + 1] \in S
    PROVE  Append(g, f[m + 1]) = f
<1>1. PICK x \in S : x = f[m + 1]
    OBVIOUS
<1>2. PICK h : h = Append(g, x)
    OBVIOUS
<1>3. h \in Seq(S) /\ Len(h) = m + 1 /\ h[m + 1] = x /\ \A k \in 1..m : h[k] = g[k]
    BY <1>2, AppendKeeps
<1>4. DOMAIN h = 1..(m + 1) /\ h = [k \in 1..(m + 1) |-> h[k]]
    BY <1>3
<1>5. \A k \in 1..(m + 1) : h[k] = f[k]
    <2> TAKE k \in 1..(m + 1)
    <2>1. k \in 1..m \/ k = m + 1
        OBVIOUS
    <2> QED
        BY <1>1, <1>3, <2>1
<1> QED
    BY <1>1, <1>2, <1>4, <1>5

\* One piece more is read, and one piece more is written.
LEMMA ReadGrows ==
    ASSUME NEW r, NEW data, NEW m \in Nat, NEW before, r.type = "in",
           NEW g \in Seq(Stuff), g = ReadFor(r, data, m, before),
           NEW x, x = [at |-> data[m + 1], is |-> IF Home(r, m + 1) < Size THEN before[Home(r, m + 1)] ELSE Junk],
           x \in Stuff
    PROVE  Append(g, x) = ReadFor(r, data, m + 1, before)
<1> DEFINE f == [k \in 1..(m + 1) |-> [at |-> data[k], is |-> IF Home(r, k) < Size THEN before[Home(r, k)] ELSE Junk]]
<1>1. f = ReadFor(r, data, m + 1, before)
    BY DEF ReadFor
<1>2. g = [k \in 1..m |-> [at |-> data[k], is |-> IF Home(r, k) < Size THEN before[Home(r, k)] ELSE Junk]]
    BY DEF ReadFor
<1>3. DOMAIN g = 1..m /\ \A k \in 1..m : g[k] = f[k]
    BY <1>2
<1>4. Len(g) = m
    BY <1>3
<1>5. DOMAIN f = 1..(m + 1) /\ f = [k \in 1..(m + 1) |-> f[k]] /\ f[m + 1] = x
    OBVIOUS
<1> HIDE DEF f
<1>6. PICK S : S = Stuff
    OBVIOUS
<1>7. g \in Seq(S) /\ f[m + 1] \in S
    BY <1>5, <1>6
<1>8. Append(g, f[m + 1]) = f
    BY <1>3, <1>4, <1>5, <1>7, GrowsTo
<1> QED
    BY <1>1, <1>5, <1>8

LEMMA WrittenGrows ==
    ASSUME RingsAssumption, NEW r, r.sector \in Nat, NEW data, NEW m \in Nat, NEW locked \in BOOLEAN, NEW before,
           NEW med, med = WrittenFor(r, data, m, locked, before)
    PROVE  /\ r.type = "out" /\ ~locked /\ Home(r, m + 1) < Size =>
                [med EXCEPT ![Home(r, m + 1)] = data[m + 1]] = WrittenFor(r, data, m + 1, locked, before)
           /\ ~(r.type = "out" /\ ~locked /\ Home(r, m + 1) < Size) => med = WrittenFor(r, data, m + 1, locked, before)
<1> DEFINE f == WrittenFor(r, data, m + 1, locked, before)
           Here(n, p) == \E k \in 1..n : Home(r, k) = p
<1>1. PICK h \in Nat : h = Home(r, m + 1)
    BY HomeFacts
<1>2. Size \in Nat /\ Home(r, 1) \in Nat /\ h - Home(r, 1) + 1 = m + 1
    <2>1. 1 \in Nat \ {0} /\ m + 1 \in Nat \ {0}
        OBVIOUS
    <2>2. Home(r, 1) \in Nat /\ h = Home(r, 1) + (m + 1) - 1
        BY <1>1, <2>1, HomeFacts
    <2> QED
        BY <2>2 DEF RingsAssumption
<1>3. \A p : Here(m + 1, p) <=> Here(m, p) \/ p = h
    <2>1. \A k \in 1..(m + 1) : k \in 1..m \/ k = m + 1
        OBVIOUS
    <2> QED
        BY <1>1, <2>1
<1>4. /\ f = [p \in 0..(Size - 1) |-> IF r.type = "out" /\ ~locked /\ Here(m + 1, p)
                                      THEN data[p - Home(r, 1) + 1] ELSE before[p]]
      /\ med = [p \in 0..(Size - 1) |-> IF r.type = "out" /\ ~locked /\ Here(m, p)
                                       THEN data[p - Home(r, 1) + 1] ELSE before[p]]
    BY DEF WrittenFor
<1> HIDE DEF Here, f
<1>5. ASSUME r.type = "out", ~locked, h < Size PROVE [med EXCEPT ![h] = data[m + 1]] = f
    <2> DEFINE e == [med EXCEPT ![h] = data[m + 1]]
    <2>1. h \in 0..(Size - 1)
        BY <1>2, <1>5
    <2>2. DOMAIN e = 0..(Size - 1) /\ DOMAIN f = 0..(Size - 1)
        BY <1>4
    <2>3. ASSUME NEW p \in 0..(Size - 1) PROVE e[p] = f[p]
        <3>1. CASE p = h
            <4>1. Here(m + 1, h) /\ e[h] = data[m + 1]
                BY <1>3, <1>4, <2>1
            <4>2. f[h] = data[h - Home(r, 1) + 1]
                BY <1>4, <1>5, <2>1, <4>1
            <4> QED
                BY <1>2, <3>1, <4>1, <4>2
        <3>2. CASE p # h
            <4>1. e[p] = med[p]
                BY <1>4, <3>2
            <4>2. Here(m + 1, p) <=> Here(m, p)
                BY <1>3, <3>2
            <4> HIDE DEF e
            <4> QED
                BY <1>4, <4>1, <4>2
        <3> QED
            BY <3>1, <3>2
    <2>4. e = [p \in 0..(Size - 1) |-> e[p]] /\ f = [p \in 0..(Size - 1) |-> f[p]]
        BY <1>4
    <2> HIDE DEF e
    <2>5. e = f
        BY <2>3, <2>4
    <2> QED
        BY <2>5 DEF e
<1>6. ASSUME ~(r.type = "out" /\ ~locked /\ h < Size) PROVE med = f
    <2>1. \A p \in 0..(Size - 1) : (r.type = "out" /\ ~locked /\ Here(m + 1, p)) <=> (r.type = "out" /\ ~locked /\ Here(m, p))
        <3> TAKE p \in 0..(Size - 1)
        <3>1. r.type = "out" /\ ~locked => p # h
            BY <1>2, <1>6
        <3> QED
            BY <1>3, <3>1
    <2> QED
        BY <1>4, <2>1
<1> QED
    BY <1>1, <1>5, <1>6 DEF f

\* Nothing is read or written before the first piece.
LEMMA NothingYet ==
    ASSUME NEW r, NEW data, NEW locked, NEW before \in [0..(Size - 1) -> Content]
    PROVE  ReadFor(r, data, 0, before) = <<>> /\ WrittenFor(r, data, 0, locked, before) = before
<1>1. ReadFor(r, data, 0, before) = <<>>
    <2>1. 1..0 = {}
        OBVIOUS
    <2>2. [k \in {} |-> [at |-> data[k], is |-> IF Home(r, k) < Size THEN before[Home(r, k)] ELSE Junk]] = <<>>
        OBVIOUS
    <2> QED
        BY <2>1, <2>2 DEF ReadFor
<1>2. \A p : ~\E k \in 1..0 : Home(r, k) = p
    OBVIOUS
<1> QED
    BY <1>1, <1>2 DEF WrittenFor

\* Only a request to write changes the medium, and nothing before its sector.
LEMMA OnlyThere ==
    ASSUME RingsAssumption, NEW r, r.sector \in Nat, NEW data, NEW m \in Nat, NEW locked, NEW before
    PROVE  \A p \in 0..(Size - 1) : WrittenFor(r, data, m, locked, before)[p] # before[p]
                                    => r.type = "out" /\ p >= Home(r, 1)
<1> TAKE p \in 0..(Size - 1)
<1>1. WrittenFor(r, data, m, locked, before)[p] =
        IF r.type = "out" /\ ~locked /\ \E k \in 1..m : Home(r, k) = p THEN data[p - Home(r, 1) + 1] ELSE before[p]
    BY DEF WrittenFor
<1>2. \A k \in 1..m : Home(r, k) >= Home(r, 1)
    BY HomeFacts
<1> QED
    BY <1>1, <1>2

LEMMA IllFormed ==
    ASSUME NEW s \in Sendable, NEW d \in 1..Len(s.what.chain), s.what.chain[d].next # "next",
           s.what.chain[d].next = "stray" \/ s.what.chain[d].len = 0 \/ d = 1
    PROVE  ~WellFormed(s.what)
<1>1. d = Len(s.what.chain) /\ d \in Nat
    BY ChainType
<1> QED
    BY <1>1 DEF WellFormed, Last

\* With dev = "blk" the requests are all there is.
LEMMA BlockSteps == ASSUME IInv, DevicesNext, dev = "blk" PROVE ResetDevice \/ OnQueue("req") \/ HostStep
<1>1. Queues = {"req"}
    BY TypeFacts, QueuesAre
<1>2. ~Wake
    BY DEF Wake, WakesUp
<1>3. QueueInOrder("event") /\ QueueInOrder("status")
    BY TypeFacts
<1>4. phase["event"] = "idle" /\ phase["status"] = "idle"
    BY <1>1, <1>3 DEF QueueInOrder
<1>5. ~MoveEvents /\ ~MoveStatus
    BY <1>4, EventsMoveDoes, StatusMoveDoes
<1> QED
    BY <1>1, <1>2, <1>5, StepCases DEF OnQueue, MoveStep

\* The device is at no request.
LEMMA BlocksRest == ASSUME phase'["req"] \notin Walking PROVE BlocksInv'
BY DEF BlocksInv, BlocksAreExact, Walking, Moving, Ending

\* The device is at the same request, and has done nothing with it.
LEMMA BlocksStill ==
    ASSUME IInv, UNCHANGED <<dev, type, sector, st, readOnly, medium, shadow>>,
           phase'["req"] = phase["req"], cur'["req"] = cur["req"], mp' = "req" <=> mp = "req",
           phase["req"] \in Walking => Current("req")' = Current("req")
    PROVE  BlocksInv'
<1>1. CASE phase["req"] \notin Walking
    BY <1>1, BlocksRest
<1>2. CASE phase["req"] \in Walking
    <2>1. Current("req")' = Current("req") /\ Chain("req")' = Chain("req")
        BY <1>2 DEF Chain
    <2>2. Desc("req")' = Desc("req") /\ DataOf("req")' = DataOf("req")
        BY <2>1 DEF Desc, DataOf
    <2>3. /\ Moved' = Moved /\ Reading' = Reading
          /\ \A s, n : BlocksDone(s, n)' <=> BlocksDone(s, n)
          /\ \A r, n : Answer(r, n)' = Answer(r, n)
        BY <2>1 DEF Moved, Reading, BlocksDone, Answer
    <2>4. BlocksInv
        BY DEF IInv
    <2> QED
        BY <2>1, <2>2, <2>3, <2>4 DEF BlocksInv, BlocksAreExact
<1> QED
    BY <1>1, <1>2

\* A request that is not well formed ends before its status.
LEMMA BlocksEnd ==
    ASSUME phase'["req"] \in Ending, NEW s, s = Current("req")', ~WellFormed(s.what),
           cur'["req"].status = Nothing,
           \A p \in DOMAIN medium' : medium'[p] # shadow'[p] => s.what.type = "out" /\ p >= Home(s.what, 1)
    PROVE  BlocksInv'
BY DEF BlocksInv, BlocksAreExact, Moving, Ending

\* One that is goes on with the descriptor of that number, and so many pieces.
LEMMA BlocksGoOn ==
    ASSUME phase'["req"] \in {"desc", "data", "status_byte"}, mp' # "req",
           NEW s, s = Current("req")', NEW d, d = cur'["req"].desc, NEW n, n = Moved',
           cur'["req"].status = Nothing, cur'["req"].parsed, s.what.chain[1].len > 0, d > 1,
           BlocksDone(s, n)', NEW a, a = Answer(s.what, n)', st' = a,
           phase'["req"] = "data" => cur'["req"].off < s.what.chain[d].len /\ s.what.chain[d].next # "none",
           phase'["req"] = "status_byte" => s.what.chain[d].next = "none" /\ s.what.chain[d].len > 0
    PROVE  BlocksInv'
<1>1. Desc("req")' = s.what.chain[d]
    BY DEF Desc, Chain
<1>2. phase'["req"] \notin Ending /\ phase'["req"] # "header" /\ ~Reading'
    BY DEF Ending, Reading
<1>3. BlocksAreExact'
    BY <1>2 DEF BlocksAreExact, Ending
<1>4. BlocksDone(s, Moved)' /\ st' = Answer(s.what, Moved)'
    OBVIOUS
<1> QED
    BY <1>1, <1>2, <1>3, <1>4 DEF BlocksInv

LEMMA BlockFacts ==
    ASSUME IInv, dev = "blk", phase["req"] \in Moving
    PROVE  LET s == Current("req")
               r == s.what
               c == cur["req"]
           IN
           /\ s \in Sendable /\ r.sector \in Nat /\ Chain("req") = r.chain /\ Desc("req") = r.chain[c.desc]
           /\ c.desc \in 1..Len(r.chain) /\ Len(r.chain) \in Nat /\ c.id = s.id /\ c.off \in Nat
           /\ r.chain[c.desc].len \in Nat /\ r.chain[c.desc].next \in {"next", "none", "stray"}
           /\ Onward("req") = (IF Desc("req").next = "next" THEN c.desc + 1 ELSE c.desc)
           /\ c.status = Nothing
           /\ phase["req"] = "header" \/ ~c.parsed =>
                c.desc = 1 /\ c.written = 0 /\ c.got = <<>> /\ medium = shadow
           /\ c.parsed => r.chain[1].len > 0
           /\ ~c.parsed => phase["req"] = "desc"
           /\ phase["req"] # "header" /\ c.parsed =>
                /\ c.desc > 1 /\ BlocksDone(s, Moved) /\ st = Answer(r, IF Reading THEN Moved + 1 ELSE Moved)
                /\ Reading => c.chunk = <<IF Home(r, Moved + 1) < Size THEN shadow[Home(r, Moved + 1)] ELSE Junk>>
           /\ phase["req"] = "data" => c.off < Desc("req").len /\ Desc("req").next # "none"
           /\ phase["req"] = "status_byte" => Desc("req").next = "none" /\ Desc("req").len > 0
           /\ Base(s, c.desc - 1) \in Nat /\ Moved \in Nat
           /\ Moved = Base(s, c.desc - 1) + (IF phase["req"] = "data" THEN c.off ELSE 0)
<1> DEFINE s == Current("req")
           c == cur["req"]
<1>1. s \in Sendable /\ Chain("req") = s.what.chain /\ c.id = s.id
    BY RequestFacts DEF Walking
<1>2. s.what.sector \in Nat
    BY BlockRequest DEF Walking
<1>3. /\ c.desc \in 1..Len(s.what.chain) /\ Desc("req") = s.what.chain[c.desc] /\ Len(s.what.chain) \in Nat
      /\ Desc("req").len \in Nat /\ Desc("req").next \in {"next", "none", "stray"}
    BY <1>1, DescFacts
<1>4. c.off \in Nat
    <2>1. c \in Cur
        BY TypeFacts
    <2> QED
        BY <2>1 DEF Cur
<1>5. Base(s, c.desc - 1) \in Nat
    BY <1>1, <1>3, Bases
<1>6. Moved = Base(s, c.desc - 1) + (IF phase["req"] = "data" THEN c.off ELSE 0) /\ Moved \in Nat
    BY <1>4, <1>5 DEF Moved
<1>7. BlocksInv
    BY DEF IInv
<1>8. /\ c.status = Nothing
      /\ phase["req"] = "header" \/ ~c.parsed => c.desc = 1 /\ c.written = 0 /\ c.got = <<>> /\ medium = shadow
      /\ c.parsed => s.what.chain[1].len > 0
      /\ ~c.parsed => phase["req"] = "desc"
    BY <1>7 DEF BlocksInv
<1>9. /\ phase["req"] # "header" /\ c.parsed =>
           /\ c.desc > 1 /\ BlocksDone(s, Moved) /\ st = Answer(s.what, IF Reading THEN Moved + 1 ELSE Moved)
           /\ Reading => c.chunk = <<IF Home(s.what, Moved + 1) < Size THEN shadow[Home(s.what, Moved + 1)] ELSE Junk>>
      /\ phase["req"] = "data" => c.off < Desc("req").len /\ Desc("req").next # "none"
      /\ phase["req"] = "status_byte" => Desc("req").next = "none" /\ Desc("req").len > 0
    BY <1>7 DEF BlocksInv
<1> QED
    BY <1>1, <1>2, <1>3, <1>4, <1>5, <1>6, <1>8, <1>9 DEF Onward

\* A piece is on the medium, and may be moved, exactly if its home is there.
LEMMA CanMove ==
    ASSUME IInv, NEW r, r.sector = sector, NEW w \in Nat
    PROVE  LET h == Home(r, w + 1) IN
           /\ h \in Nat /\ (CanRead(w) <=> h < Size) /\ (CanWrite(w) <=> ~readOnly /\ h < Size)
           /\ h < Size => Place(w) = h
<1>1. RequestsAssumption /\ RingsAssumption /\ BlockTypes
    BY TypeFacts
<1>2. sector \in Nat
    BY <1>1 DEF BlockTypes
<1>3. /\ InReach(w) /\ OnMedium(Place(w)) <=> Home(r, w + 1) < Size
      /\ InReach(w) => Place(w) = Home(r, w + 1)
      /\ Home(r, w + 1) \in Nat
    BY <1>1, <1>2, PlaceIsHome
<1> QED
    BY <1>3 DEF CanRead, CanWrite

\* What has been written is where the request is for.
LEMMA DoneThere ==
    ASSUME IInv, NEW s, s.what.sector \in Nat, NEW n \in Nat, NEW med, NEW before, NEW locked,
           med \in [0..(Size - 1) -> Content], med = WrittenFor(s.what, Data(s), n, locked, before)
    PROVE  \A p \in DOMAIN med : med[p] # before[p] => s.what.type = "out" /\ p >= Home(s.what, 1)
<1>1. RingsAssumption /\ DOMAIN med = 0..(Size - 1)
    BY TypeFacts
<1>2. PICK r, data : r = s.what /\ data = Data(s)
    OBVIOUS
<1> QED
    BY <1>1, <1>2, OnlyThere

\* The device reads ahead one piece.
LEMMA StartBlocks == ASSUME IInv, dev = "blk", Start("req") PROVE BlocksInv'
<1> DEFINE c == cur["req"]
<1>1. /\ UNCHANGED <<dev, driver, phase, last, type, sector, readOnly, medium, shadow>>
      /\ mp = Nothing /\ mp' = "req" /\ cur'["req"] = Buffered("req")
      /\ cur'["req"].id = c.id /\ cur'["req"].desc = c.desc /\ cur'["req"].off = c.off
      /\ cur'["req"].written = c.written /\ cur'["req"].parsed = c.parsed
      /\ cur'["req"].got = c.got /\ cur'["req"].status = c.status
    BY StartDoes
<1>2. st' = IF Loads("req") /\ ~CanRead(c.written) THEN "ioerr" ELSE st
    BY DEF Start
<1>3. Loads("req") <=> phase["req"] = "data" /\ type = "in"
    BY DEF Loads
<1>4. ~Reading /\ (Reading' <=> Loads("req")) /\ c \in Cur /\ BlockTypes
    <2>1. Nothing # "req"
        BY TypeFacts DEF RingsAssumption
    <2> QED
        BY <1>1, <1>3, <2>1, TypeFacts DEF Reading
<1>5. PICK s : s = Current("req")
    OBVIOUS
<1>6. /\ Current("req")' = s /\ Chain("req")' = Chain("req") /\ Desc("req")' = Desc("req") /\ Moved' = Moved
      /\ DataOf("req")' = DataOf("req")
      /\ \A n : BlocksDone(s, n)' <=> BlocksDone(s, n)
      /\ \A r, n : Answer(r, n)' = Answer(r, n)
    BY <1>1, <1>5 DEF Current, Chain, Desc, Moved, DataOf, BlocksDone, Answer, driver
<1>7. BlocksInv
    BY DEF IInv
<1>8. CASE ~Loads("req")
    BY <1>1, <1>2, <1>4, <1>5, <1>6, <1>7, <1>8 DEF BlocksInv, BlocksAreExact
<1>9. CASE Loads("req")
    <2>1. phase["req"] = "data" /\ type = "in" /\ phase["req"] \in Moving
        BY <1>3, <1>9 DEF Moving
    <2>2. /\ s \in Sendable /\ s.what.sector \in Nat /\ c.parsed /\ c.desc > 1 /\ BlocksDone(s, Moved)
          /\ st = Answer(s.what, Moved) /\ Moved \in Nat
        BY <1>4, <1>5, <2>1, BlockFacts
    <2>3. PICK m \in Nat : m = Moved
        BY <2>2
    <2>4. PICK r : r = s.what
        OBVIOUS
    <2>5. /\ r.type = "in" /\ r.sector = sector /\ c.written = m
          /\ medium = WrittenFor(r, Data(s), m, readOnly, shadow)
        BY <2>1, <2>2, <2>3, <2>4 DEF BlocksDone
    <2>6. PICK h : h = Home(r, m + 1)
        OBVIOUS
    <2>7. h \in Nat /\ (CanRead(m) <=> h < Size) /\ (h < Size => Place(m) = h)
        BY <2>5, <2>6, CanMove
    <2>8. h < Size => medium[h] = shadow[h]
        <3> SUFFICES ASSUME h < Size PROVE medium[h] = shadow[h]
            OBVIOUS
        <3>1. h \in 0..(Size - 1)
            <4>1. RingsAssumption
                BY TypeFacts
            <4> QED
                BY <2>7, <4>1 DEF RingsAssumption
        <3> QED
            BY <2>5, <3>1 DEF WrittenFor
    <2>9. cur'["req"].chunk = <<IF h < Size THEN shadow[h] ELSE Junk>>
        <3>1. Buffered("req") = [c EXCEPT !.chunk = <<IF CanRead(c.written) THEN medium[Place(c.written)] ELSE Junk>>]
            BY <1>9 DEF Buffered
        <3>2. DOMAIN c = {"id", "desc", "off", "written", "parsed", "chunk", "step", "got", "status"}
            BY <1>4 DEF Cur
        <3>3. PICK x : x = IF CanRead(c.written) THEN medium[Place(c.written)] ELSE Junk
            OBVIOUS
        <3>4. x = IF h < Size THEN shadow[h] ELSE Junk
            BY <2>5, <2>7, <2>8, <3>3
        <3> HIDE DEF c
        <3>5. cur'["req"].chunk = <<x>>
            BY <1>1, <3>1, <3>2, <3>3
        <3> QED
            BY <3>4, <3>5
    <2>10. st' = Answer(r, m + 1)
        <3>1. Answer(r, m + 1) = IF h >= Size THEN "ioerr" ELSE Answer(r, m)
            BY <2>5, <2>6, AnswerGoesOn
        <3>2. h >= Size <=> ~(h < Size)
            <4>1. RingsAssumption
                BY TypeFacts
            <4> QED
                BY <2>7, <4>1 DEF RingsAssumption
        <3> QED
            BY <1>2, <1>9, <2>2, <2>3, <2>4, <2>5, <2>7, <3>1, <3>2
    <2>11. Reading' /\ phase' = phase
        BY <1>1, <1>4, <1>9
    <2>12. ~(phase["req"] \in Ending) /\ phase["req"] # "header"
        BY <2>1 DEF Ending
    <2>13. BlocksAreExact'
        BY <2>11, <2>12 DEF BlocksAreExact, Ending
    <2>14. st' = Answer(s.what, Moved + 1)' /\ BlocksDone(s, Moved)'
           /\ cur'["req"].chunk = <<IF Home(s.what, Moved' + 1) < Size THEN shadow'[Home(s.what, Moved' + 1)] ELSE Junk>>
        BY <1>1, <1>6, <2>2, <2>3, <2>4, <2>6, <2>9, <2>10
    <2> QED
        BY <1>1, <1>5, <1>6, <1>7, <2>1, <2>2, <2>11, <2>12, <2>13, <2>14 DEF BlocksInv
<1> QED
    BY <1>8, <1>9

LEMMA RingBlocks == ASSUME IInv, dev = "blk", ReadRing("req") PROVE BlocksInv'
<1>1. /\ phase'["req"] = "desc" /\ shadow' = medium /\ medium' = medium /\ cur'["req"].desc = 1
      /\ cur'["req"].written = 0 /\ cur'["req"].parsed = FALSE /\ cur'["req"].got = <<>> /\ cur'["req"].status = Nothing
    BY RingDoes
<1> QED
    BY <1>1 DEF BlocksInv, BlocksAreExact

\* Behind a descriptor that is stepped over, or before the data or the status.
LEMMA DescBlocks == ASSUME IInv, ReadBlockDesc PROVE BlocksInv'
<1> DEFINE c == cur["req"]
           here == Desc("req")
<1>1. /\ dev = "blk" /\ mp' = Nothing /\ phase["req"] = "desc" /\ phase'["req"] = BlockPhase
      /\ UNCHANGED <<driver, last, dev, block>>
      /\ cur'["req"].off = 0
      /\ cur'["req"].desc = (IF c.parsed /\ BlockPhase = "desc" THEN Onward("req") ELSE c.desc)
      /\ cur'["req"].parsed = (c.parsed \/ here.len > 0)
      /\ cur'["req"].id = c.id /\ cur'["req"].written = c.written /\ cur'["req"].got = c.got
      /\ cur'["req"].status = c.status
    BY BlockDescDoes DEF Elsewhere
<1>2. phase["req"] \in Moving /\ Nothing # "req" /\ c \in Cur /\ BlockTypes /\ RingsAssumption
    BY <1>1, TypeFacts DEF Moving, RingsAssumption
<1>3. PICK s : s = Current("req")
    OBVIOUS
<1>4. PICK d \in Nat : d = c.desc
    BY <1>2 DEF Cur
<1>5. /\ Current("req")' = s /\ UNCHANGED <<type, sector, st, readOnly, medium, shadow>>
      /\ \A n : cur'["req"].written = c.written /\ cur'["req"].got = c.got =>
                  (BlocksDone(s, n)' <=> BlocksDone(s, n))
      /\ \A r, n : Answer(r, n)' = Answer(r, n)
    BY <1>1, <1>3 DEF Current, BlocksDone, Answer, driver, block
<1>6. /\ s \in Sendable /\ s.what.sector \in Nat /\ here = s.what.chain[d] /\ d \in 1..Len(s.what.chain)
      /\ here.len \in Nat /\ here.next \in {"next", "none", "stray"} /\ c.status = Nothing
      /\ Onward("req") = (IF here.next = "next" THEN d + 1 ELSE d)
      /\ ~c.parsed => d = 1 /\ c.written = 0 /\ c.got = <<>> /\ medium = shadow
      /\ c.parsed => s.what.chain[1].len > 0
      /\ c.parsed => /\ d > 1 /\ BlocksDone(s, Moved) /\ st = Answer(s.what, Moved)
      /\ Moved \in Nat /\ Moved = Base(s, d - 1) + 0
    <2>1. ~Reading
        BY <1>1 DEF Reading
    <2> QED
        BY <1>1, <1>2, <1>3, <1>4, <2>1, BlockFacts
<1>7. CASE ~c.parsed
    <2>1. CASE here.len = 0
        <3>1. phase'["req"] = "used_elem"
            BY <1>1, <1>7, <2>1 DEF BlockPhase
        <3>2. ~WellFormed(s.what)
            BY <1>6, <1>7, <2>1 DEF WellFormed
        <3> QED
            BY <1>1, <1>5, <1>6, <1>7, <3>1, <3>2, BlocksEnd DEF Ending
    <2>2. CASE here.len # 0
        <3>1. phase'["req"] = "header" /\ cur'["req"].desc = 1 /\ cur'["req"].parsed
            <4>1. here.len > 0
                BY <1>6, <2>2
            <4>2. BlockPhase = "header"
                BY <1>7, <2>2 DEF BlockPhase
            <4> QED
                BY <1>1, <1>4, <1>6, <1>7, <4>1, <4>2
        <3>2. s.what.chain[1].len > 0
            BY <1>6, <1>7, <2>2
        <3> QED
            BY <1>1, <1>5, <1>6, <1>7, <3>1, <3>2 DEF BlocksInv, BlocksAreExact
    <2> QED
        BY <2>1, <2>2
<1>8. CASE c.parsed
    <2>1. PICK m \in Nat : m = Moved
        BY <1>6
    <2>2. BlocksDone(s, m)' /\ st' = Answer(s.what, m)' /\ mp' # "req"
        BY <1>1, <1>2, <1>5, <1>6, <1>8, <2>1
    <2>3. \A p \in DOMAIN medium' : medium'[p] # shadow'[p] => s.what.type = "out" /\ p >= Home(s.what, 1)
        <3>1. medium = WrittenFor(s.what, Data(s), m, readOnly, shadow) /\ medium \in [0..(Size - 1) -> Content]
            BY <1>2, <1>6, <1>8, <2>1 DEF BlocksDone, BlockTypes
        <3>2. PICK med, before, locked : med = medium /\ before = shadow /\ locked = readOnly
            OBVIOUS
        <3>3. \A p \in DOMAIN med : med[p] # before[p] => s.what.type = "out" /\ p >= Home(s.what, 1)
            BY <1>6, <3>1, <3>2, DoneThere
        <3> QED
            BY <1>5, <3>2, <3>3
    <2>4. CASE here.next = "none" /\ here.len = 0
        <3>1. phase'["req"] = "used_elem"
            BY <1>1, <1>8, <2>4 DEF BlockPhase
        <3>2. ~WellFormed(s.what)
            BY <1>6, <2>4, IllFormed
        <3> QED
            BY <1>1, <1>5, <1>6, <2>3, <3>1, <3>2, BlocksEnd DEF Ending
    <2>5. CASE here.next = "stray" /\ here.len = 0
        <3>1. phase'["req"] = "used_elem"
            BY <1>1, <1>8, <2>5 DEF BlockPhase, Behind
        <3>2. ~WellFormed(s.what)
            BY <1>6, <2>5, IllFormed
        <3> QED
            BY <1>1, <1>5, <1>6, <2>3, <3>1, <3>2, BlocksEnd DEF Ending
    <2>6. CASE here.len # 0
        <3>1. phase'["req"] = (IF here.next = "none" THEN "status_byte" ELSE "data") /\ cur'["req"].desc = d
            <4>1. BlockPhase = (IF here.next = "none" THEN "status_byte" ELSE "data")
                BY <1>8, <2>6 DEF BlockPhase
            <4> QED
                BY <1>1, <1>4, <4>1
        <3>2. Moved' = m
            BY <1>1, <1>5, <1>6, <2>1, <3>1 DEF Moved
        <3>3. here.len > 0 /\ 0 < here.len
            BY <1>6, <2>6
        <3>4. PICK a : a = Answer(s.what, m)'
            OBVIOUS
        <3>5. cur'["req"].parsed
            BY <1>1, <1>8
        <3>6. phase'["req"] \in {"desc", "data", "status_byte"}
            BY <3>1
        <3>7. phase'["req"] = "data" => cur'["req"].off < s.what.chain[d].len /\ s.what.chain[d].next # "none"
            BY <1>1, <1>6, <3>1, <3>3
        <3>8. phase'["req"] = "status_byte" => s.what.chain[d].next = "none" /\ s.what.chain[d].len > 0
            BY <1>6, <3>1, <3>3
        <3>9. d > 1 /\ s.what.chain[1].len > 0 /\ cur'["req"].status = Nothing
            BY <1>1, <1>6, <1>8
        <3> QED
            BY <1>5, <2>2, <3>1, <3>2, <3>4, <3>5, <3>6, <3>7, <3>8, <3>9, BlocksGoOn
    <2>7. CASE here.next = "next" /\ here.len = 0
        <3>1. phase'["req"] = "desc" /\ cur'["req"].desc = d + 1
            <4>1. BlockPhase = "desc"
                BY <1>8, <2>7 DEF BlockPhase, Behind
            <4> QED
                BY <1>1, <1>6, <1>8, <2>7, <4>1
        <3>2. Base(s, d) = m
            <4>1. Base(s, d) = Base(s, d - 1) + Len(PiecesOf(s, d)) /\ Base(s, d - 1) \in Nat
                BY <1>6, Bases
            <4>2. Len(PiecesOf(s, d)) = 0
                BY <1>6, <1>8, <2>7, PiecesType
            <4> QED
                BY <1>6, <2>1, <4>1, <4>2
        <3>3. Moved' = m
            <4>1. Moved' = Base(s, (d + 1) - 1) + 0
                BY <1>5, <3>1 DEF Moved
            <4>2. (d + 1) - 1 = d
                OBVIOUS
            <4> QED
                BY <3>2, <4>1, <4>2
        <3>4. PICK a : a = Answer(s.what, m)'
            OBVIOUS
        <3>5. PICK e : e = d + 1
            OBVIOUS
        <3>6. e > 1
            BY <1>6, <1>8, <3>5
        <3>7. cur'["req"].parsed
            BY <1>1, <1>8
        <3> QED
            BY <1>1, <1>5, <1>6, <1>8, <2>2, <3>1, <3>3, <3>4, <3>5, <3>6, <3>7, BlocksGoOn
    <2> HIDE DEF c, here
    <2> QED
        BY <1>6, <2>4, <2>5, <2>6, <2>7
<1> QED
    BY <1>7, <1>8

LEMMA HeaderBlocks == ASSUME IInv, ReadHeader PROVE BlocksInv'
<1> DEFINE c == cur["req"]
           here == Desc("req")
<1>1. /\ dev = "blk" /\ mp' = Nothing /\ phase["req"] = "header" /\ phase'["req"] = Behind("req", "used_elem")
      /\ UNCHANGED <<driver, last, dev, readOnly, medium, shadow>>
      /\ here.next # "none" =>
           /\ type' = Current("req").what.type /\ sector' = Current("req").what.sector /\ st' = "ok"
           /\ cur'["req"].written = 0 /\ cur'["req"].desc = Onward("req")
      /\ cur'["req"].status = c.status /\ cur'["req"].parsed = c.parsed /\ cur'["req"].got = c.got
    BY HeaderDoes
<1>2. phase["req"] \in Moving /\ Nothing # "req" /\ BlockTypes
    BY <1>1, TypeFacts DEF Moving, RingsAssumption
<1>3. PICK s : s = Current("req")
    OBVIOUS
<1>4. Current("req")' = s
    BY <1>1, <1>3 DEF Current, driver
<1>5. /\ s \in Sendable /\ s.what.sector \in Nat /\ here = s.what.chain[1] /\ 1 \in 1..Len(s.what.chain)
      /\ here.next \in {"next", "none", "stray"} /\ c.status = Nothing /\ c.got = <<>> /\ medium = shadow /\ c.desc = 1
      /\ c.parsed /\ s.what.chain[1].len > 0
      /\ Onward("req") = (IF here.next = "next" THEN 1 + 1 ELSE 1)
    <2>1. c.parsed
        BY <1>1, <1>2, BlockFacts
    <2> QED
        BY <1>1, <1>2, <1>3, <2>1, BlockFacts
<1>6. CASE here.next # "next"
    <2>1. phase'["req"] = "used_elem"
        BY <1>1, <1>5, <1>6 DEF Behind
    <2>2. ~WellFormed(s.what)
        BY <1>5, <1>6, IllFormed
    <2> QED
        BY <1>1, <1>4, <1>5, <2>1, <2>2, BlocksEnd DEF Ending
<1>7. CASE here.next = "next"
    <2>1. /\ phase'["req"] = "desc" /\ cur'["req"].desc = 2 /\ cur'["req"].written = 0 /\ cur'["req"].got = <<>>
          /\ type' = s.what.type /\ sector' = s.what.sector /\ st' = "ok" /\ cur'["req"].parsed
        BY <1>1, <1>3, <1>5, <1>7 DEF Behind
    <2>2. Base(s, 1) = 0
        <3>1. Base(s, 1) = Base(s, 1 - 1) + Len(PiecesOf(s, 1)) /\ Base(s, 0) = 0
            BY <1>5, Bases
        <3>2. Len(PiecesOf(s, 1)) = 0
            BY <1>5, PiecesType
        <3> QED
            BY <3>1, <3>2
    <2>3. Moved' = 0
        <3>1. Moved' = Base(s, 2 - 1) + 0
            BY <1>4, <2>1 DEF Moved
        <3>2. 2 - 1 = 1
            OBVIOUS
        <3> QED
            BY <2>2, <3>1, <3>2
    <2>4. BlocksDone(s, 0)'
        <3>1. PICK r : r = s.what
            OBVIOUS
        <3>2. PICK data : data = Data(s)
            OBVIOUS
        <3>3. PICK locked : locked = readOnly
            OBVIOUS
        <3>4. PICK before : before = shadow
            OBVIOUS
        <3>5. before \in [0..(Size - 1) -> Content]
            BY <1>2, <3>4 DEF BlockTypes
        <3>6. ReadFor(r, data, 0, before) = <<>> /\ WrittenFor(r, data, 0, locked, before) = before
            BY <3>5, NothingYet
        <3>7. PICK x, y : x = ReadFor(r, data, 0, before) /\ y = WrittenFor(r, data, 0, locked, before)
            OBVIOUS
        <3>8. cur'["req"].written = (IF s.what.type \in {"in", "out"} THEN 0 ELSE 0)
            BY <2>1
        <3>9. cur'["req"].got = ReadFor(s.what, Data(s), 0, shadow') /\ medium' = WrittenFor(s.what, Data(s), 0, readOnly', shadow')
            BY <1>1, <1>5, <2>1, <3>1, <3>2, <3>3, <3>4, <3>6
        <3> QED
            BY <2>1, <3>8, <3>9 DEF BlocksDone
    <2>5. Answer(s.what, 0)' = "ok"
        <3>1. ~\E k \in 1..0 : Home(s.what, k) >= Size
            OBVIOUS
        <3> QED
            BY <3>1 DEF Answer
    <2>6. PICK n, a, d : n = 0 /\ a = Answer(s.what, 0)' /\ d = 2
        OBVIOUS
    <2>7. d > 1 /\ BlocksDone(s, n)' /\ a = Answer(s.what, n)'
        BY <2>4, <2>6
    <2> QED
        BY <1>1, <1>2, <1>4, <1>5, <2>1, <2>3, <2>5, <2>6, <2>7, BlocksGoOn
<1> HIDE DEF here
<1> QED
    BY <1>6, <1>7

\* The piece that is moved, the registers it was moved with, and what it leaves.
LEMMA PieceMoved ==
    ASSUME IInv, MoveBlock, NEW s, s = Current("req"), NEW m \in Nat, m = Moved
    PROVE  /\ BlocksDone(s, m + 1)' /\ st' = Answer(s.what, m + 1)'
           /\ cur["req"].off < s.what.chain[cur["req"].desc].len
           /\ s.what.chain[cur["req"].desc].next \in {"next", "stray"}
           /\ cur["req"].parsed /\ cur["req"].desc > 1
<1> DEFINE c == cur["req"]
           r == s.what
           over == c.off + 1 >= Desc("req").len
           saves == type = "out" /\ CanWrite(c.written)
           piece == <<c.id, c.desc, c.off + 1>>
<1>1. /\ dev = "blk" /\ mp = "req" /\ phase["req"] = "data"
      /\ UNCHANGED <<driver, last, dev, type, sector, readOnly, shadow>>
      /\ cur'["req"].written = (IF type \in {"in", "out"} THEN c.written + 1 ELSE c.written)
      /\ cur'["req"].got = (IF type = "in" THEN Append(c.got, [at |-> piece, is |-> c.chunk[1]]) ELSE c.got)
      /\ medium' = (IF saves THEN [medium EXCEPT ![Place(c.written)] = piece] ELSE medium)
      /\ piece \in Piece
      /\ st' = (IF type = "out" /\ ~saves THEN "ioerr" ELSE IF type = "other" THEN "unsupp" ELSE st)
    BY BlockMoveDoes
<1>2. phase["req"] \in Moving /\ phase["req"] # "header" /\ (Reading <=> type = "in") /\ RingsAssumption /\ c \in Cur /\ BlockTypes
    BY <1>1, TypeFacts DEF Moving, Reading
<1>3. /\ s \in Sendable /\ r.sector \in Nat /\ c.desc \in 1..Len(r.chain) /\ c.id = s.id /\ c.off \in Nat
      /\ Desc("req") = r.chain[c.desc] /\ r.chain[c.desc].len \in Nat
      /\ r.chain[c.desc].next \in {"next", "none", "stray"}
      /\ c.parsed /\ c.desc > 1 /\ BlocksDone(s, m) /\ st = Answer(r, IF Reading THEN m + 1 ELSE m)
      /\ Reading => c.chunk = <<IF Home(r, m + 1) < Size THEN shadow[Home(r, m + 1)] ELSE Junk>>
      /\ c.off < Desc("req").len /\ Desc("req").next # "none"
      /\ m = Base(s, c.desc - 1) + c.off
    BY <1>1, <1>2, BlockFacts
<1>4. type = r.type /\ sector = r.sector
    BY <1>3 DEF BlocksDone
<1>5. /\ c.written = (IF r.type \in {"in", "out"} THEN m ELSE 0)
      /\ c.got = ReadFor(r, Data(s), m, shadow) /\ medium = WrittenFor(r, Data(s), m, readOnly, shadow)
    BY <1>3 DEF BlocksDone
<1>6. piece = Data(s)[m + 1]
    <2>1. PICK d \in 1..Len(r.chain) : d = c.desc
        BY <1>3
    <2>2. PICK k \in Nat : k = c.off + 1
        BY <1>3
    <2>3. d # 1 /\ r.chain[d].next # "none" /\ k \in 1..r.chain[d].len
        <3>1. PICK len \in Nat : len = r.chain[d].len
            BY <1>3, <2>1
        <3>2. c.off < len /\ c.off \in Nat /\ r.chain[d].next # "none"
            BY <1>3, <2>1, <3>1
        <3>3. k \in 1..len
            BY <2>2, <3>2
        <3> QED
            BY <1>3, <2>1, <3>1, <3>2, <3>3
    <2>4. Len(PiecesOf(s, d)) = r.chain[d].len /\ PiecesOf(s, d)[k] = <<s.id, d, k>>
        BY <1>3, <2>3, PiecesType
    <2>5. Data(s)[Base(s, d - 1) + k] = PiecesOf(s, d)[k] /\ Base(s, d - 1) \in Nat
        <3>1. k \in 1..Len(PiecesOf(s, d))
            BY <2>3, <2>4
        <3> QED
            BY <1>3, <3>1, Bases
    <2>6. Base(s, d - 1) + k = m + 1
        BY <1>3, <2>1, <2>2, <2>5
    <2> QED
        BY <1>3, <2>1, <2>2, <2>4, <2>5, <2>6
<1>7. PICK h : h = Home(r, m + 1)
    OBVIOUS
<1>8. /\ h \in Nat /\ (CanWrite(m) <=> ~readOnly /\ h < Size) /\ (h < Size => Place(m) = h)
    BY <1>4, <1>7, CanMove
<1>9. saves <=> r.type = "out" /\ ~readOnly /\ h < Size
    BY <1>4, <1>5, <1>8
<1>10. PICK data : data = Data(s)
    OBVIOUS
<1>11. cur'["req"].got = ReadFor(r, Data(s), m + 1, shadow)
    <2>1. CASE r.type # "in"
        BY <1>1, <1>4, <1>5, <2>1 DEF ReadFor
    <2>2. CASE r.type = "in"
        <3>1. PICK before, q, g : before = shadow /\ q = r /\ g = c.got
            OBVIOUS
        <3>2. PICK x : x = [at |-> piece, is |-> c.chunk[1]]
            OBVIOUS
        <3>3. c.chunk[1] = IF h < Size THEN before[h] ELSE Junk
            BY <1>2, <1>3, <1>4, <1>7, <2>2, <3>1
        <3>4. x = [at |-> data[m + 1], is |-> IF Home(q, m + 1) < Size THEN before[Home(q, m + 1)] ELSE Junk]
            BY <1>6, <1>7, <1>10, <3>1, <3>2, <3>3
        <3>5. x \in Stuff
            <4>1. c.chunk[1] \in Content
                BY <1>1, <1>4, <2>2, ReadingFacts
            <4> QED
                BY <1>1, <3>2, <4>1, StuffIs
        <3>6. g \in Seq(Stuff)
            BY <1>2, <3>1 DEF Cur
        <3>7. g = ReadFor(q, data, m, before) /\ q.type = "in"
            BY <1>5, <1>10, <2>2, <3>1
        <3>8. Append(g, x) = ReadFor(q, data, m + 1, before)
            BY <3>4, <3>5, <3>6, <3>7, ReadGrows
        <3> QED
            BY <1>1, <1>4, <1>10, <2>2, <3>1, <3>2, <3>8
    <2> QED
        BY <2>1, <2>2
<1>12. medium' = WrittenFor(r, Data(s), m + 1, readOnly, shadow)
    <2>1. PICK locked \in BOOLEAN : locked = readOnly
        BY <1>2 DEF BlockTypes
    <2>2. PICK before, q, med : before = shadow /\ q = r /\ med = medium
        OBVIOUS
    <2>3. med = WrittenFor(q, data, m, locked, before) /\ q.sector \in Nat
        BY <1>3, <1>5, <1>10, <2>1, <2>2
    <2>4. /\ q.type = "out" /\ ~locked /\ Home(q, m + 1) < Size =>
               [med EXCEPT ![Home(q, m + 1)] = data[m + 1]] = WrittenFor(q, data, m + 1, locked, before)
          /\ ~(q.type = "out" /\ ~locked /\ Home(q, m + 1) < Size) => med = WrittenFor(q, data, m + 1, locked, before)
        BY <1>2, <2>3, WrittenGrows
    <2>5. CASE saves
        <3>1. r.type = "out" /\ ~locked /\ h < Size
            BY <1>9, <2>1, <2>5
        <3>2. c.written = m
            BY <1>5, <3>1
        <3>3. Place(c.written) = h
            BY <1>8, <3>1, <3>2
        <3>4. medium' = [medium EXCEPT ![h] = data[m + 1]]
            BY <1>1, <1>6, <1>10, <2>5, <3>3
        <3> QED
            BY <1>7, <1>10, <2>1, <2>2, <2>4, <3>1, <3>4
    <2>6. CASE ~saves
        <3>1. ~(q.type = "out" /\ ~locked /\ Home(q, m + 1) < Size)
            BY <1>7, <1>9, <2>1, <2>2, <2>6
        <3>2. medium' = med
            BY <1>1, <2>2, <2>6
        <3> QED
            BY <1>10, <2>1, <2>2, <2>4, <3>1, <3>2
    <2> QED
        BY <2>5, <2>6
<1>13. cur'["req"].written = (IF r.type \in {"in", "out"} THEN m + 1 ELSE 0)
    BY <1>1, <1>4, <1>5
<1>14. BlocksDone(s, m + 1)'
    <2>1. type' = r.type /\ sector' = r.sector /\ readOnly' = readOnly /\ shadow' = shadow
        BY <1>1, <1>4
    <2>2. /\ cur'["req"].got = ReadFor(r, Data(s), m + 1, shadow')
          /\ medium' = WrittenFor(r, Data(s), m + 1, readOnly', shadow')
        BY <1>11, <1>12, <2>1
    <2> QED
        BY <1>13, <2>1, <2>2 DEF BlocksDone
<1>15. st' = Answer(r, m + 1)
    <2>1. h >= Size <=> ~(h < Size)
        BY <1>2, <1>8 DEF RingsAssumption
    <2>2. Answer(r, m + 1) =
            IF r.type = "other" THEN "unsupp"
            ELSE IF (r.type = "out" /\ readOnly) \/ (r.type \in {"in", "out"} /\ h >= Size)
            THEN "ioerr" ELSE Answer(r, m)
        BY <1>7, AnswerGoesOn
    <2>3. CASE r.type = "in"
        <3>1. st = Answer(r, m + 1)
            BY <1>2, <1>3, <1>4, <2>3
        <3>2. st' = st
            BY <1>1, <1>4, <2>3
        <3> QED
            BY <3>1, <3>2
    <2>4. CASE r.type # "in"
        <3>1. st = Answer(r, m)
            BY <1>2, <1>3, <1>4, <2>4
        <3> QED
            BY <1>1, <1>4, <1>9, <2>1, <2>2, <2>4, <3>1
    <2> QED
        BY <2>3, <2>4
<1>16. Answer(r, m + 1)' = Answer(r, m + 1)
    BY <1>1 DEF Answer
<1> QED
    BY <1>3, <1>14, <1>15, <1>16

\* Behind a piece.
LEMMA MoveBlocks == ASSUME IInv, MoveBlock PROVE BlocksInv'
<1> DEFINE c == cur["req"]
           here == Desc("req")
<1>1. /\ dev = "blk" /\ mp' # "req" /\ phase["req"] = "data"
      /\ phase'["req"] = (IF c.off + 1 >= here.len THEN Behind("req", "status_byte") ELSE "data")
      /\ UNCHANGED <<driver, last, dev, readOnly, shadow>>
      /\ cur'["req"].off = c.off + 1
      /\ cur'["req"].desc = (IF c.off + 1 >= here.len THEN Onward("req") ELSE c.desc)
      /\ cur'["req"].status = c.status /\ cur'["req"].parsed = c.parsed
      /\ medium' \in [0..(Size - 1) -> Content]
    <2>1. Nothing # "req"
        BY TypeFacts DEF RingsAssumption
    <2> QED
        BY <2>1, BlockMoveDoes
<1>2. phase["req"] \in Moving
    BY <1>1 DEF Moving
<1>3. PICK s : s = Current("req")
    OBVIOUS
<1>4. PICK m \in Nat : m = Moved
    BY <1>1, <1>2, BlockFacts
<1>5. Current("req")' = s
    BY <1>1, <1>3 DEF Current, driver
<1>6. /\ BlocksDone(s, m + 1)' /\ st' = Answer(s.what, m + 1)'
      /\ c.off < s.what.chain[c.desc].len /\ s.what.chain[c.desc].next \in {"next", "stray"}
      /\ c.parsed /\ c.desc > 1
    BY <1>3, <1>4, PieceMoved
<1>7. /\ s \in Sendable /\ s.what.sector \in Nat /\ c.desc \in 1..Len(s.what.chain) /\ here = s.what.chain[c.desc]
      /\ c.off \in Nat /\ s.what.chain[c.desc].len \in Nat /\ c.status = Nothing /\ s.what.chain[1].len > 0
      /\ Onward("req") = (IF here.next = "next" THEN c.desc + 1 ELSE c.desc)
      /\ m = Base(s, c.desc - 1) + c.off
    BY <1>1, <1>2, <1>3, <1>4, <1>6, BlockFacts
<1>8. PICK d \in Nat : d = c.desc
    BY <1>7
<1>9. PICK len \in Nat : len = s.what.chain[d].len
    BY <1>7, <1>8
<1>10. PICK n \in Nat : n = m + 1
    OBVIOUS
<1>11. PICK a : a = Answer(s.what, n)'
    OBVIOUS
<1>12. BlocksDone(s, n)' /\ st' = a
    BY <1>6, <1>10, <1>11
<1>13. d > 1 /\ d \in 1..Len(s.what.chain) /\ here = s.what.chain[d]
    BY <1>6, <1>7, <1>8
<1>14. cur'["req"].status = Nothing /\ cur'["req"].parsed
    BY <1>1, <1>6, <1>7
<1>15. PICK o \in Nat : o = c.off
    BY <1>7
<1>16. o < len /\ m = Base(s, d - 1) + o /\ Base(s, d - 1) \in Nat
    BY <1>6, <1>7, <1>8, <1>9, <1>13, <1>15, Bases
<1>17. here.len = len
    BY <1>9, <1>13
<1> HIDE DEF c, here
<1>18. CASE o + 1 < len
    <2>1. phase'["req"] = "data" /\ cur'["req"].desc = d /\ cur'["req"].off = o + 1
        BY <1>1, <1>8, <1>15, <1>17, <1>18
    <2>2. Moved' = n
        <3>1. Moved' = Base(s, d - 1) + (o + 1)
            BY <1>5, <2>1 DEF Moved
        <3> QED
            BY <1>10, <1>16, <3>1
    <2>3. s.what.chain[d].next # "none"
        BY <1>6, <1>8
    <2>4. cur'["req"].off < s.what.chain[d].len
        BY <1>9, <1>18, <2>1
    <2> QED
        BY <1>1, <1>5, <1>7, <1>11, <1>12, <1>13, <1>14, <2>1, <2>2, <2>3, <2>4, BlocksGoOn
<1>19. CASE o + 1 >= len /\ s.what.chain[d].next = "next"
    <2>1. o + 1 = len
        BY <1>16, <1>19
    <2>2. phase'["req"] = "desc" /\ cur'["req"].desc = d + 1
        BY <1>1, <1>7, <1>8, <1>13, <1>15, <1>17, <1>19 DEF Behind, here
    <2>3. Base(s, d) = n
        <3>1. Base(s, d) = Base(s, d - 1) + Len(PiecesOf(s, d))
            BY <1>7, <1>13, Bases
        <3>2. Len(PiecesOf(s, d)) = len
            <4>1. d # 1 /\ s.what.chain[d].next # "none"
                BY <1>13, <1>19
            <4> QED
                BY <1>7, <1>9, <1>13, <4>1, PiecesType
        <3> QED
            BY <1>10, <1>16, <2>1, <3>1, <3>2
    <2>4. Moved' = n
        <3>1. Moved' = Base(s, (d + 1) - 1) + 0
            BY <1>5, <2>2 DEF Moved
        <3>2. (d + 1) - 1 = d
            OBVIOUS
        <3> QED
            BY <2>3, <3>1, <3>2
    <2>5. PICK e : e = d + 1
        OBVIOUS
    <2>6. e > 1
        BY <1>13, <2>5
    <2> QED
        BY <1>1, <1>5, <1>7, <1>11, <1>12, <1>14, <2>2, <2>4, <2>5, <2>6, BlocksGoOn
<1>20. CASE o + 1 >= len /\ s.what.chain[d].next = "stray"
    <2>1. phase'["req"] = "used_elem"
        BY <1>1, <1>8, <1>13, <1>15, <1>17, <1>20 DEF Behind, here
    <2>2. ~WellFormed(s.what)
        BY <1>7, <1>13, <1>20, IllFormed
    <2>3. medium' = WrittenFor(s.what, Data(s), n, readOnly, shadow)
        BY <1>1, <1>12 DEF BlocksDone
    <2>4. PICK med, before, locked : med = medium' /\ before = shadow /\ locked = readOnly
        OBVIOUS
    <2>5. med \in [0..(Size - 1) -> Content] /\ med = WrittenFor(s.what, Data(s), n, locked, before)
        BY <1>1, <2>3, <2>4
    <2>6. \A p \in DOMAIN med : med[p] # before[p] => s.what.type = "out" /\ p >= Home(s.what, 1)
        BY <1>7, <2>5, DoneThere
    <2>7. \A p \in DOMAIN medium' : medium'[p] # shadow'[p] => s.what.type = "out" /\ p >= Home(s.what, 1)
        BY <1>1, <2>4, <2>6
    <2> QED
        BY <1>5, <1>14, <2>1, <2>2, <2>7, BlocksEnd DEF Ending
<1> QED
    BY <1>6, <1>8, <1>16, <1>18, <1>19, <1>20

\* The status byte: the request is done, and all its pieces are.
LEMMA StatusByteBlocks == ASSUME IInv, WriteStatusByte PROVE BlocksInv'
<1> DEFINE c == cur["req"]
<1>1. /\ dev = "blk" /\ phase["req"] = "status_byte" /\ phase'["req"] = "used_elem"
      /\ UNCHANGED <<driver, last>> /\ UNCHANGED <<dev, block>>
      /\ cur'["req"].status = st /\ cur'["req"].written = (IF type = "in" THEN c.written ELSE 0)
      /\ cur'["req"].got = c.got
    BY StatusByteDoes DEF Elsewhere
<1>2. phase["req"] \in Moving /\ phase["req"] # "header" /\ ~Reading /\ BlockTypes
    BY <1>1, TypeFacts DEF Moving, Reading
<1>3. PICK s : s = Current("req")
    OBVIOUS
<1>4. PICK r : r = s.what
    OBVIOUS
<1>5. PICK m \in Nat : m = Moved
    BY <1>1, <1>2, BlockFacts
<1>6. /\ s \in Sendable /\ r.sector \in Nat /\ c.desc \in 1..Len(r.chain) /\ Desc("req") = r.chain[c.desc]
      /\ c.parsed /\ c.desc > 1 /\ BlocksDone(s, m) /\ st = Answer(r, m)
      /\ r.chain[1].len > 0 /\ Desc("req").next = "none" /\ Desc("req").len > 0
      /\ m = Base(s, c.desc - 1) + 0
    BY <1>1, <1>2, <1>3, <1>4, <1>5, BlockFacts
<1>7. PICK d \in 1..Len(r.chain) : d = c.desc
    BY <1>6
<1>8. d > 1 /\ r.chain[d].next = "none" /\ r.chain[d].len > 0
    BY <1>6, <1>7
<1>9. /\ Len(r.chain) \in Nat /\ d = Len(r.chain)
      /\ \A i \in 1..(Len(r.chain) - 1) : r.chain[i].next = "next"
    <2>1. /\ Len(r.chain) \in Nat
          /\ \A i \in 1..Len(r.chain) : r.chain[i].next = "next" <=> i < Len(r.chain)
        BY <1>4, <1>6, ChainType
    <2>2. PICK l \in Nat : l = Len(r.chain)
        BY <2>1
    <2>3. d \in 1..l /\ ~(d < l)
        BY <1>8, <2>1, <2>2
    <2>4. \A i \in 1..(l - 1) : i \in 1..l /\ i < l
        OBVIOUS
    <2> QED
        BY <2>1, <2>2, <2>3, <2>4
<1>10. WellFormed(r)
    BY <1>6, <1>7, <1>8, <1>9 DEF WellFormed, Last
<1>11. Len(Data(s)) = m /\ DataOf("req") = Data(s)
    <2>1. Base(s, d) = Base(s, d - 1) + Len(PiecesOf(s, d)) /\ Base(s, Len(r.chain)) = Len(Data(s))
          /\ Base(s, d - 1) \in Nat
        BY <1>4, <1>6, <1>7, Bases
    <2>2. Len(PiecesOf(s, d)) = 0
        BY <1>4, <1>6, <1>7, <1>8, PiecesType
    <2>3. DataOf("req") = Data(s)
        BY <1>3, <1>6, DataIsParts
    <2> QED
        BY <1>5, <1>6, <1>7, <1>9, <2>1, <2>2, <2>3
<1>12. PICK data : data = Data(s)
    OBVIOUS
<1>13. /\ type = r.type /\ c.written = (IF r.type \in {"in", "out"} THEN m ELSE 0)
       /\ c.got = ReadFor(r, data, m, shadow) /\ medium = WrittenFor(r, data, m, readOnly, shadow)
    BY <1>4, <1>6, <1>12 DEF BlocksDone
<1>14. DOMAIN medium = 0..(Size - 1)
    BY <1>2 DEF BlockTypes
<1>15. Current("req")' = s /\ DataOf("req")' = data /\ Len(data) = m
       /\ UNCHANGED <<type, sector, st, readOnly, medium, shadow>>
    BY <1>1, <1>3, <1>11, <1>12 DEF Current, DataOf, driver, block
<1>16. Answer(r, m)' = Answer(r, m)
    BY <1>15 DEF Answer
<1>17. BlocksAreExact'
    <2>1. cur'["req"].status = Answer(r, m)'
        BY <1>1, <1>6, <1>16
    <2>2. cur'["req"].written = IF r.type = "in" THEN m ELSE 0
        BY <1>1, <1>13
    <2>3. cur'["req"].got = ReadFor(r, data, m, shadow') /\ medium' = WrittenFor(r, data, m, readOnly', shadow')
        BY <1>1, <1>13, <1>15
    <2>4. cur'["req"].got = IF r.type = "in"
                  THEN [k \in 1..m |-> [at |-> data[k],
                        is |-> IF Home(r, k) < Size THEN shadow'[Home(r, k)] ELSE Junk]] ELSE <<>>
        BY <2>3 DEF ReadFor
    <2>5. medium' = [p \in DOMAIN medium' |->
                  IF r.type = "out" /\ ~readOnly' /\ \E k \in 1..m : Home(r, k) = p
                  THEN data[p - Home(r, 1) + 1] ELSE shadow'[p]]
        BY <1>14, <1>15, <2>3 DEF WrittenFor
    <2>6. Current("req").what' = r /\ WellFormed(r)
        BY <1>4, <1>10, <1>15
    <2> QED
        BY <1>15, <2>1, <2>2, <2>4, <2>5, <2>6 DEF BlocksAreExact
<1> QED
    BY <1>1, <1>17 DEF BlocksInv, Moving

\* What the device says of the request stays while it is given back.
LEMMA UsedElemBlocks == ASSUME IInv, dev = "blk", WriteUsedElem("req") PROVE BlocksInv'
<1>1. /\ phase["req"] = "used_elem" /\ phase'["req"] = "used_idx"
      /\ UNCHANGED <<driver, last, cur>> /\ UNCHANGED <<dev, block>>
    BY UsedElemDoes DEF Elsewhere
<1>2. /\ Current("req")' = Current("req") /\ DataOf("req")' = DataOf("req")
      /\ UNCHANGED <<cur, type, sector, st, readOnly, medium, shadow>>
      /\ \A r, n : Answer(r, n)' = Answer(r, n)
    BY <1>1 DEF Current, DataOf, Answer, driver, block
<1>3. BlocksAreExact
    BY DEF IInv, BlocksInv
<1>4. BlocksAreExact'
    BY <1>1, <1>2, <1>3 DEF BlocksAreExact
<1> QED
    BY <1>1, <1>4 DEF BlocksInv, Moving

LEMMA BlocksKeep == ASSUME IInv, DevicesNext PROVE BlocksInv'
<1>1. dev' = dev
    <2>1. "req" \in AllQueues
        OBVIOUS
    <2> QED
        BY <2>1, AtQueue
<1>2. CASE dev # "blk"
    BY <1>1, <1>2 DEF BlocksInv
<1>3. CASE dev = "blk"
    <2>1. ResetDevice \/ OnQueue("req") \/ HostStep
        BY <1>3, BlockSteps
    <2>2. CASE ResetDevice
        <3>1. phase'["req"] = "idle"
            BY <2>2 DEF ResetDevice
        <3> QED
            BY <3>1, BlocksRest DEF Walking, Moving, Ending
    <2>3. CASE HostStep
        <3>1. /\ UNCHANGED <<dev, avail, phase, last, cur, mp>>
              /\ UNCHANGED <<type, sector, st, readOnly, medium, shadow>>
            BY <2>3, HostStill
        <3>2. Current("req")' = Current("req")
            BY <3>1 DEF Current
        <3> QED
            BY <3>1, <3>2, BlocksStill
    <2>4. CASE OnQueue("req")
        <3>1. CASE EnableQueue("req") \/ DisableQueue("req")
            <4>1. phase'["req"] = "idle"
                BY <3>1, StartsOver
            <4> QED
                BY <4>1, BlocksRest DEF Walking, Moving, Ending
        <3>2. CASE "req" \in Queues /\ Post("req")
            <4>1. /\ UNCHANGED <<dev, phase, last, cur, mp>> /\ UNCHANGED block
                  /\ phase["req"] \in Walking => Current("req")' = Current("req")
                BY <3>2, PostKeeps DEF Elsewhere
            <4>2. UNCHANGED <<type, sector, st, readOnly, medium, shadow>>
                BY <4>1 DEF block
            <4> QED
                BY <4>1, <4>2, BlocksStill
        <3>3. CASE WriteUsedIdx("req")
            <4>1. phase'["req"] = "avail_idx"
                BY <3>3, IndexDoes
            <4> QED
                BY <4>1, BlocksRest DEF Walking, Moving, Ending
        <3>4. CASE Notify("req")
            <4>1. phase'["req"] = "avail_idx"
                BY <3>4, WakeDoes
            <4> QED
                BY <4>1, BlocksRest DEF Walking, Moving, Ending
        <3>5. CASE ReadAvailIdx("req")
            <4>1. phase'["req"] \in {"idle", "ring"}
                BY <3>5, AvailDoes
            <4> QED
                BY <4>1, BlocksRest DEF Walking, Moving, Ending
        <3>6. CASE Start("req")
            BY <1>3, <3>6, StartBlocks
        <3>7. CASE ReadRing("req")
            BY <1>3, <3>7, RingBlocks
        <3>8. CASE ReadDesc("req") \/ MoveEntropy
            BY <1>3, <3>8 DEF ReadDesc, MoveEntropy
        <3>9. CASE WriteUsedElem("req")
            BY <1>3, <3>9, UsedElemBlocks
        <3> QED
            BY <2>4, <3>1, <3>2, <3>3, <3>4, <3>5, <3>6, <3>7, <3>8, <3>9, DescBlocks, HeaderBlocks,
               MoveBlocks, StatusByteBlocks DEF OnQueue, WalkStep, BlockStep
    <2> QED
        BY <2>1, <2>2, <2>3, <2>4
<1> QED
    BY <1>2, <1>3

-----------------------------------------------------------------------------
(* The whole. *)

LEMMA InitInv == ASSUME RequestsAssumption, RingsAssumption, DevicesInit PROVE IInv
<1>1. dev \in {"blk", "rng", "input"} /\ readOnly \in BOOLEAN
    BY DEF DevicesInit, RequestsAssumption
<1>2. \A q \in AllQueues :
        /\ ready[q] = FALSE /\ posts[q] = 0 /\ avail[q] = <<>> /\ used[q] = <<>>
        /\ phase[q] = "idle" /\ last[q] = 0 /\ cur[q] = Fresh
    BY DEF DevicesInit
<1>3. GuestTypes
    <2>1. avail["req"] = <<>> /\ Len(avail["req"]) = 0
        BY <1>2
    <2>2. <<>> \in Seq(Sendable) /\ <<>> \in Seq([id : Nat, len : Nat])
        OBVIOUS
    <2> QED
        BY <1>1, <2>1, <2>2 DEF DevicesInit, GuestTypes
<1>4. WalkTypes
    <2>1. PICK C : C = Cur
        OBVIOUS
    <2>2. PICK f \in C : f = Fresh
        BY <2>1, FreshType
    <2>3. cur = [q \in AllQueues |-> f]
        BY <2>2 DEF DevicesInit
    <2>4. cur \in [AllQueues -> C]
        BY <2>3
    <2>5. phase \in [AllQueues -> Phases] /\ last \in [AllQueues -> Nat]
        BY DEF DevicesInit, Phases
    <2> QED
        BY <2>1, <2>4, <2>5 DEF WalkTypes
<1>5. BlockTypes
    <2>1. Size \in Nat
        BY DEF RingsAssumption
    <2>2. \A p \in 0..(Size - 1) : <<0, p>> \in Content
        <3>1. \A p \in 0..(Size - 1) : <<0, p>> \in Nat \X Nat
            BY <2>1
        <3> QED
            BY <3>1 DEF Content
    <2>3. medium \in [0..(Size - 1) -> Content]
        BY <2>2 DEF DevicesInit
    <2> QED
        BY <1>1, <2>3 DEF DevicesInit, BlockTypes, States
<1>6. RingTypes
    <2>1. <<>> \in Seq(Nat)
        OBVIOUS
    <2> QED
        BY <2>1 DEF DevicesInit, RingTypes
<1>7. QueuesInOrder
    <2> SUFFICES ASSUME NEW q \in AllQueues PROVE QueueInOrder(q)
        BY DEF QueuesInOrder
    <2> QED
        BY <1>2 DEF QueueInOrder, Walking, Moving, Ending
<1>8. phase["req"] = "idle" /\ phase["event"] = "idle" /\ phase["status"] = "idle" /\ last["req"] = 0
    BY <1>2
<1>9. LengthsInv
    BY <1>8 DEF LengthsInv, Moving, Ending
<1>10. BlocksInv
    BY <1>8 DEF BlocksInv, BlocksAreExact, Moving, Ending
<1>11. EventsInv
    <2>1. Ring \in Nat \ {0}
        BY DEF RingsAssumption
    <2>2. EventRing
        BY <2>1 DEF DevicesInit, EventRing
    <2> QED
        BY <1>8, <2>2 DEF EventsInv, EventQueue, Moving
<1>12. ReceivedInv
    <2>1. phase[Feed] = "idle"
        BY <1>8 DEF Feed
    <2>2. Held = 0 /\ ~Drawing
        BY <1>8, <2>1 DEF Held, Walking, Moving, Ending, Drawing
    <2>3. Come = 0
        BY <2>2 DEF Come, DevicesInit
    <2>4. PICK rec : rec = received
        OBVIOUS
    <2>5. rec = <<>> /\ Len(rec) = 0 /\ DOMAIN rec = {}
        BY <2>4 DEF DevicesInit
    <2>6. \A got, calm : Follows(0, 0, got, rec, calm)
        BY <2>5 DEF Follows, RisesAlways
    <2> QED
        BY <2>2, <2>3, <2>4, <2>5, <2>6 DEF ReceivedInv
<1>13. avail["status"] = <<>> /\ Len(avail["status"]) = 0 /\ last["status"] = 0
    BY <1>2
<1>14. IdsInv
    BY <1>13 DEF IdsInv
<1>15. accepted = <<>> /\ Len(accepted) = 0 /\ DOMAIN accepted = {} /\ popped = <<>> /\ Len(popped) = 0
    BY DEF DevicesInit
<1>16. StatusRing
    <2>1. Ring \in Nat
        BY DEF RingsAssumption
    <2>2. stHead = 0 /\ stTail = 0 /\ popping = FALSE
        BY DEF DevicesInit
    <2> QED
        BY <1>15, <2>1, <2>2 DEF StatusRing
<1>17. StatusInv
    <2>1. Settled = 0
        BY <1>8, <1>13 DEF Settled, Ending
    <2>2. RisesAlways(accepted)
        BY <1>15 DEF RisesAlways
    <2> QED
        BY <1>8, <1>15, <2>1, <2>2 DEF StatusInv, Moving
<1> QED
    BY <1>3, <1>4, <1>5, <1>6, <1>7, <1>9, <1>10, <1>11, <1>12, <1>14, <1>16, <1>17 DEF IInv, Types

LEMMA Inductive == ASSUME IInv, [DevicesNext]_devicesVars PROVE IInv'
<1>1. CASE DevicesNext
    <2>1. RequestsAssumption' /\ RingsAssumption'
        BY DEF IInv, RequestsAssumption, RingsAssumption
    <2>2. EventsInv'
        BY <1>1, EventRingKeep, EventQueueKeep DEF EventsInv
    <2> QED
        BY <1>1, <2>1, <2>2, TypesKeep, QueuesKeep, LengthsKeep, BlocksKeep, ReceivedKeep, IdsKeep,
           StatusRingKeep, StatusKeep DEF IInv
<1>2. CASE UNCHANGED devicesVars
    <2>1. /\ UNCHANGED <<dev, ready, posts, avail, used, resets, phase, last, cur, mp>>
          /\ UNCHANGED <<type, sector, st, readOnly, medium, shadow, draws>>
          /\ UNCHANGED <<evSlot, evHead, evTail, pushing, pushed>>
          /\ UNCHANGED <<stSlot, stHead, stTail, popping, accepted, popped, overran, received>>
        BY <1>2 DEF devicesVars, driver, walk, block, evRing, stRing
    <2>2. RequestsAssumption' /\ RingsAssumption'
        BY DEF IInv, RequestsAssumption, RingsAssumption
    <2>3. Types'
        BY <2>1 DEF IInv, Types, GuestTypes, WalkTypes, BlockTypes, RingTypes
    <2>4. QueuesInOrder'
        BY <2>1 DEF IInv, QueuesInOrder, QueueInOrder, Current, Chain, Queues
    <2>5. LengthsInv'
        BY <2>1 DEF IInv, LengthsInv, Filled, Current, Chain, Desc
    <2>6. BlocksInv'
        <3>1. Current("req")' = Current("req")
            BY <2>1 DEF Current
        <3> QED
            BY <2>1, <3>1, BlocksStill
    <2>7. EventsInv'
        BY <2>1 DEF IInv, EventsInv, EventRing, EventQueue
    <2>8. ReceivedInv'
        BY <2>1 DEF IInv, ReceivedInv, Drawing, Come, Held, Feed
    <2>9. IdsInv' /\ StatusRing'
        BY <2>1 DEF IInv, IdsInv, StatusRing
    <2>10. StatusInv'
        BY <2>1 DEF IInv, StatusInv, Settled, Desc, Chain, Current, Tells, Accepted
    <2> QED
        BY <2>2, <2>3, <2>4, <2>5, <2>6, <2>7, <2>8, <2>9, <2>10 DEF IInv
<1> QED
    BY <1>1, <1>2

LEMMA InvIsExact == ASSUME IInv PROVE DevicesAreExact
<1>1. BlocksAreExact
    BY DEF IInv, BlocksInv, BlocksAreExact
<1>2. EventsInOrder
    <2>1. CASE dev = "blk"
        <3>1. PICK rec : rec = received
            OBVIOUS
        <3>2. rec = <<>> /\ DOMAIN rec = {}
            BY <2>1, <3>1 DEF IInv, ReceivedInv
        <3>3. rec = [i \in DOMAIN rec |-> i]
            BY <3>2
        <3> QED
            BY <3>1, <3>2, <3>3 DEF EventsInOrder, RisesAlways
    <2>2. CASE dev # "blk"
        <3>1. PICK rec \in Seq(Nat) : rec = received
            BY RingNumbers
        <3>2. PICK come \in Nat, held \in Nat : come = Come /\ held = Held
            BY <2>2, HeldFacts
        <3>3. /\ held <= come /\ RisesAlways(rec) /\ \A i \in 1..Len(rec) : rec[i] \in 1..(come - held)
              /\ resets = 0 => Len(rec) = come - held /\ \A i \in 1..Len(rec) : rec[i] = i
            BY <2>2, <3>1, <3>2 DEF IInv, ReceivedInv, Follows
        <3>4. come <= (IF dev = "rng" THEN draws ELSE pushed)
            <4>1. evHead \in Nat /\ evTail \in Nat /\ pushed \in Nat /\ draws \in Nat
                BY RingNumbers
            <4>2. pushed = evHead + (IF pushing THEN 1 ELSE 0) /\ evTail <= evHead
                BY DEF IInv, EventsInv, EventRing
            <4>3. evTail <= pushed
                <5>1. CASE pushing
                    BY <4>1, <4>2, <5>1
                <5>2. CASE ~pushing
                    BY <4>1, <4>2, <5>2
                <5> QED
                    BY <5>1, <5>2
            <4>4. dev # "rng" => come = evTail
                BY <3>2 DEF Come
            <4>5. dev = "rng" => come \in {draws, draws - 1}
                BY <3>2 DEF Come
            <4> QED
                BY <4>1, <4>3, <4>4, <4>5
        <3>5. PICK top \in Nat : top = IF dev = "rng" THEN draws ELSE pushed
            BY RingNumbers
        <3>6. DOMAIN rec = 1..Len(rec) /\ Len(rec) \in Nat
            OBVIOUS
        <3>7. \A i \in DOMAIN rec : rec[i] <= top
            BY <3>3, <3>4, <3>5, <3>6
        <3>8. resets = 0 => rec = [i \in DOMAIN rec |-> i]
            <4> SUFFICES ASSUME \A i \in 1..Len(rec) : rec[i] = i PROVE rec = [i \in DOMAIN rec |-> i]
                BY <3>3
            <4>1. rec = [i \in DOMAIN rec |-> rec[i]]
                OBVIOUS
            <4> QED
                BY <3>6, <4>1
        <3> QED
            BY <3>1, <3>3, <3>5, <3>7, <3>8 DEF EventsInOrder
    <2> QED
        BY <2>1, <2>2
<1>3. StatusInOrder
    <2>1. StatusInv /\ StatusRing /\ QueueInOrder("status")
        BY TypeFacts DEF IInv
    <2>2. PICK acc \in Seq(Nat), pop \in Seq(Nat) : acc = accepted /\ pop = popped
        BY RingNumbers
    <2>3. PICK n \in Nat : n = Len(pop)
        OBVIOUS
    <2>4. n <= Len(acc) /\ \A k \in 1..n : pop[k] = acc[k]
        <3>1. stHead \in Nat /\ stTail \in Nat /\ popping \in BOOLEAN
            BY RingNumbers
        <3>2. /\ stTail <= stHead /\ Len(acc) = stHead /\ (popping => stTail < stHead)
              /\ n = stTail + (IF popping THEN 1 ELSE 0) /\ \A k \in 1..n : pop[k] = acc[k]
            BY <2>1, <2>2, <2>3 DEF StatusRing
        <3>3. CASE popping
            BY <3>1, <3>2, <3>3
        <3>4. CASE ~popping
            BY <3>1, <3>2, <3>4
        <3> QED
            BY <3>3, <3>4
    <2>5. pop = SubSeq(acc, 1, n)
        <3>1. PICK sub : sub = SubSeq(acc, 1, n)
            OBVIOUS
        <3>2. sub \in Seq(Nat) /\ Len(sub) = n /\ \A k \in 1..n : sub[k] = acc[k]
            BY <2>4, <3>1
        <3>3. DOMAIN sub = DOMAIN pop /\ \A k \in DOMAIN pop : sub[k] = pop[k]
            BY <2>3, <2>4, <3>2
        <3>4. sub = [k \in DOMAIN sub |-> sub[k]] /\ pop = [k \in DOMAIN pop |-> pop[k]]
            BY <3>2
        <3> QED
            BY <3>1, <3>3, <3>4
    <2>6. ASSUME ~overran, NEW i \in DOMAIN used["status"], Last(avail["status"][i].what.chain).len > 0
          PROVE  \E k \in DOMAIN accepted : accepted[k] = avail["status"][i].id
        <3>1. used["status"] \in Seq([id : Nat, len : Nat]) /\ last["status"] \in Nat
              /\ Len(used["status"]) = last["status"]
            BY <2>1, TypeFacts DEF QueueInOrder
        <3>2. i \in 1..last["status"]
            BY <3>1
        <3>3. i \in 1..Settled
            BY <3>1, <3>2 DEF Settled
        <3>4. Accepted(avail["status"][i].id)
            BY <2>1, <2>6, <3>3 DEF StatusInv, Tells
        <3> QED
            BY <2>2, <3>4 DEF Accepted
    <2>7. popped = SubSeq(accepted, 1, Len(popped))
        BY <2>2, <2>3, <2>5
    <2>8. RisesAlways(accepted)
        BY <2>1 DEF StatusInv
    <2> QED
        BY <2>6, <2>7, <2>8 DEF StatusInOrder
<1>4. GivenBackInOrder
    <2> SUFFICES ASSUME NEW q \in Queues
                 PROVE  /\ Len(used[q]) <= Len(avail[q])
                        /\ \A i \in DOMAIN used[q] : used[q][i].id = avail[q][i].id
                        /\ dev = "rng" => \A i \in DOMAIN used[q] :
                             used[q][i].len = LengthOf(avail[q][i].what.chain)
        BY DEF GivenBackInOrder
    <2>1. q \in AllQueues /\ (dev = "rng" => q = "req")
        BY TypeFacts, QueuesAre
    <2>2. QueueInOrder(q) /\ used[q] \in Seq([id : Nat, len : Nat])
        BY <2>1, TypeFacts
    <2>3. DOMAIN used[q] = 1..last[q] /\ Len(used[q]) = last[q] /\ last[q] <= Len(avail[q])
          /\ \A i \in 1..last[q] : used[q][i].id = avail[q][i].id
        BY <2>2 DEF QueueInOrder
    <2>4. LengthsInv
        BY DEF IInv
    <2> QED
        BY <2>1, <2>3, <2>4 DEF LengthsInv
<1> QED
    BY <1>1, <1>2, <1>3, <1>4 DEF DevicesAreExact

\* The strengthening holds always.
THEOREM Invariant == RequestsAssumption /\ RingsAssumption => (DevicesSpec => []IInv)
<1>1. RequestsAssumption /\ RingsAssumption /\ DevicesInit => IInv
    BY InitInv
<1>2. IInv /\ [DevicesNext]_devicesVars => IInv'
    BY Inductive
<1> QED
    BY <1>1, <1>2, PTL DEF DevicesSpec

\* What every device promises, whatever the requests, the medium and the rings:
\* each piece of a block request ends up at its home and the status is that of
\* this request alone (makeBlkSpec); events and entropy reach the guest in order,
\* none twice, and none is lost without a reset (makeSpec of VirtioInput and
\* VirtioRng); the host reads what the guest reported (popStatusEvent); and every
\* request comes back once and in order (genDone).
THEOREM DevicesKeepTheirWord == RequestsAssumption /\ RingsAssumption => (DevicesSpec => []DevicesAreExact)
<1>1. IInv => DevicesAreExact
    BY InvIsExact
<1> QED
    BY <1>1, Invariant, PTL
=============================================================================
