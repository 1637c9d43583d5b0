---------------------------- MODULE MCWishboneBus ----------------------------
(* A RAM and a second memory of one word each behind the interconnect; or a  *)
(* part of a hart: its accesses, its page walks, or its data cache.  What is *)
(* not under test stays as it began.                                         *)
EXTENDS WishboneBus, HartAccess, HartMmu, Caches

VARIABLE subject
allVars == <<subject, vars, accessVars, mmuVars, cacheVars>>

Decode == (0 :> 0) @@ (1 :> 1)
BothInOne == (0 :> 0) @@ (1 :> 0)
OneSlave == (0 :> 0)

\* All orders of insertion, up to swapping two neighbours neither of which is
\* the interconnect: all others read and write wires of their own only.
Before(o, p, q) == \E i, j \in DOMAIN o : i < j /\ o[i] = p /\ o[j] = q
Rank(p) == IF p[1] = "master" THEN p[2] ELSE MasterCount + p[2]
InOrderBut(o) == \A i \in 1..(Len(o) - 1) :
    <<"ic", 0>> \in {o[i], o[i + 1]} \/ Rank(o[i]) < Rank(o[i + 1])
AllOrders == {o \in [1..Cardinality(Parts) -> Parts] :
    /\ \A i, j \in DOMAIN o : o[i] = o[j] => i = j
    /\ InOrderBut(o)}
CpuFirst(o) == \A m \in Cpus : Before(o, <<"master", m>>, <<"ic", 0>>)
CpuFirstOrders == {o \in AllOrders : CpuFirst(o)}

\* A reservation, any access, and one that would show what the others left
\* behind.  Floating-point doubles across two pages are left out (README).
Vas == 0 .. (Space - 1)
MCFill == [b \in Vas |-> (5 * b + 3 * (b \div 4) + 1) % 2^ByteBits]
Raws == {[i \in 1..8 |-> (3 * i + 4) % 2^ByteBits]}
Integer ==
    [op : {"load"}, n : {1, 2, 4}, sx : BOOLEAN, va : Vas, paging : BOOLEAN]
      \cup [op : {"load"}, n : {8}, sx : {TRUE}, va : Vas, paging : BOOLEAN]
      \cup [op : {"store"}, n : {1, 2, 4, 8}, v2 : Raws, va : Vas, paging : BOOLEAN]
Floating ==
    {a \in [op : {"fload"}, n : {2, 4, 8}, va : Vas, paging : BOOLEAN]
             \cup [op : {"fstore"}, n : {2, 4, 8}, v2 : Raws, va : Vas, paging : BOOLEAN] :
         ~AcrossPages(a)}
Atomic == [op : {"amo"}, n : {4, 8}, va : Vas, v2 : Raws \cup {Ones(8)}, paging : {FALSE},
           f5 : {"LR", "SC", "SWAP", "ADD", "XOR", "AND", "OR", "MIN", "MAX", "MINU", "MAXU"}]
Reserve == {a \in Atomic : a.f5 = "LR" /\ a.v2 \in Raws /\ <<a.n, a.va>> \in {<<4, 8>>, <<8, 0>>}}
Probe ==
    {a \in Integer : ~a.paging /\ a.va \in {3, 8}} \cup {a \in Floating : ~a.paging /\ a.va \in {4, 6}}
      \cup {a \in Atomic : a.f5 \in {"LR", "SC", "ADD"} /\ a.v2 \in Raws /\ a.va \in {0, 8}}
MCAccesses == <<Reserve, Integer \cup Floating \cup Atomic, Probe>>
NoAccesses == <<>>

\* Page tables: root 0 has a table with one clean page, and a page of two pages
\* that user mode may read; root 1 has nothing.
Page(f, w, d, u) == [kind |-> "page", to |-> f, w |-> w, d |-> d, u |-> u]
Table(t) == [kind |-> "table", to |-> t]
MCAsid == [r \in Roots |-> 0]
MCBoot == [s \in Slots |->
  CASE s = <<"top", 0, 0>> -> Table(0)
    [] s = <<"top", 0, 1>> -> Page(0, FALSE, TRUE, TRUE)
    [] s = <<"low", 0, 0>> -> Page(2, TRUE, FALSE, FALSE)
    [] OTHER -> NoEntry]
MCTop == {NoEntry, Table(0), Page(0, FALSE, TRUE, TRUE)}
MCLow == {NoEntry, Page(2, TRUE, TRUE, FALSE), Page(2, TRUE, FALSE, FALSE)}

\* Two lines of two words that share a place; the second word of the other
\* line lies outside the cached segment.
MCAddrs == {<<0, 0>>, <<0, 1>>, <<1, 0>>, <<1, 1>>}
MCCacheable == MCAddrs \ {<<1, 1>>}
MCWrites == {[a |-> <<0, 0>>, sel |-> {0, 1}], [a |-> <<0, 1>>, sel |-> {0}]}
MCForeign == {<<0, 0>>}

NoHart ==
    /\ hart = [phase |-> "none"] /\ regs = <<>> /\ trap = "none" /\ wire = Low
    /\ link = <<>> /\ cells = <<>> /\ done = 0 /\ want = <<>>
NoBus == order = CHOOSE o \in Orders : TRUE
NoCache == kind = "cache" /\ cpuFirst

MCInit ==
    /\ Init /\ MmuInit /\ CacheInit
    /\ \/ subject = "bus" /\ NoHart /\ NoCache
       \/ subject = "access" /\ NoBus /\ AccessInit /\ NoCache
       \/ subject = "caches" /\ NoBus /\ NoHart
       \/ subject = "mmu" /\ NoBus /\ NoHart /\ NoCache
MCNext ==
    \/ subject = "bus" /\ Next /\ UNCHANGED <<subject, accessVars, mmuVars, cacheVars>>
    \/ subject = "access" /\ AccessNext /\ UNCHANGED <<subject, vars, mmuVars, cacheVars>>
    \/ subject = "mmu" /\ MmuNext /\ UNCHANGED <<subject, vars, accessVars, cacheVars>>
    \/ subject = "caches" /\ CacheNext /\ UNCHANGED <<subject, vars, accessVars, mmuVars>>
MCSpec == MCInit /\ [][MCNext]_allVars
=============================================================================
