---------------------------- MODULE Platform_proofs ----------------------------
(* Proofs about parts of the platform.  A core's copies of what lives         *)
(* elsewhere: HartFetch (code), HartMmu (page tables) and HartTraps           *)
(* (interrupt wires and the levels a trap has interrupted), for every memory  *)
(* size, map, page table, set of wires and masks, and any number of stores.   *)
(* And SlirpBackend, for every number of addresses, packets, runs and timers; *)
(* Caches, for all lines, addresses, writes and values of a byte; and Plic,   *)
(* for every number of sources, contexts and levels.                          *)
EXTENDS HartFetch, HartMmu, HartTraps, Caches, SlirpBackend, Plic, TLAPS

-----------------------------------------------------------------------------
(* Fetch.  Whatever may still be executed was in memory since the last       *)
(* FENCE.I: the words and the whole instructions of the valid lines, and the *)
(* first half that waits for its second.                                     *)

\* Parts <<word, version>> of an instruction.
Fresh(parts) ==
  \A i \in DOMAIN parts : parts[i][1] \in CodeWords /\ parts[i][2] \in fresh[parts[i][1]]
CacheLine == [valid : BOOLEAN, word : Nat, raw : Nat,
              whole : {<<>>} \cup ((CodeWords \X Nat) \X (CodeWords \X Nat))]

MemoryIsFresh ==
  /\ code \in [CodeWords -> Nat] /\ DOMAIN fresh = CodeWords
  /\ \A a \in CodeWords : code[a] \in fresh[a]
\* A line that is not valid keeps what it held.
LinesAreFresh ==
  /\ icache \in [Lines -> CacheLine]
  /\ \A l \in Lines : icache[l].valid =>
       /\ icache[l].word \in CodeWords /\ icache[l].raw \in fresh[icache[l].word]
       /\ Fresh(icache[l].whole)
\* The second word of an instruction across is in memory too.
FetchIsFresh ==
  /\ fetch.phase \in {"FETCH", "WAIT_FETCH", "WAIT_FETCH_HI"}
  /\ fetch.phase /= "FETCH" => fetch.at \in CodeWords /\ (fetch.across => fetch.at + 1 \in CodeWords)
  /\ fetch.phase = "WAIT_FETCH_HI" =>
       fetch.across /\ fetch.word0 \in Nat /\ fetch.word0 \in fresh[fetch.at]
FetchInv == MemoryIsFresh /\ LinesAreFresh /\ FetchIsFresh /\ CodeIsFresh

\* To execute fresh parts keeps what matters about the fetch.
LEMMA RunsFresh ==
  ASSUME NEW p, NEW w, NEW across, NEW parts,
         Runs(p, w, across, parts), Fresh(parts), fresh' = fresh
  PROVE  CodeIsFresh' /\ FetchIsFresh'
BY DEF Runs, Fresh, CodeIsFresh, FetchIsFresh, Ready

LEMMA FetchInitInv == FetchInit => FetchInv
<1> SUFFICES ASSUME FetchInit PROVE FetchInv
  OBVIOUS
<1>1. NoLine \in CacheLine /\ ~NoLine.valid
  BY DEF NoLine, CacheLine
<1>2. LinesAreFresh
  BY <1>1 DEF FetchInit, LinesAreFresh
<1> QED
  BY <1>2 DEF FetchInit, FetchInv, MemoryIsFresh, FetchIsFresh, CodeIsFresh, Ready

LEMMA LineType == \A a \in CodeWords : Line(a) \in Lines
BY FramesAssumption DEF CodeWords, Line, Lines

LEMMA FetchKeeps == FetchInv /\ Fetch => FetchInv'
<1> SUFFICES ASSUME FetchInv, Fetch PROVE FetchInv'
  OBVIOUS
<1>1. PICK p \in Pages, w \in {0, 1}, across \in BOOLEAN :
        /\ across /\ w = 1 => p + 1 \in Pages
        /\ FromCache(p, w, across, 2 * Map[p] + w) \/ FromBus(p, w, across, 2 * Map[p] + w)
        /\ UNCHANGED <<code, stores, fresh>>
  BY DEF Fetch
<1> DEFINE a == 2 * Map[p] + w
<1>2. a \in CodeWords /\ (across => a + 1 \in CodeWords)
  <2>1. Map[p] \in Frames /\ (p + 1 \in Pages => Map[p] + 1 \in Frames)
    BY FramesAssumption
  <2> QED
    BY <1>1, <2>1, FramesAssumption DEF CodeWords
<1> HIDE DEF a
<1>3. MemoryIsFresh'
  BY <1>1 DEF FetchInv, MemoryIsFresh
<1>4. CASE FromCache(p, w, across, a)
  <2>1. LinesAreFresh'
    BY <1>1, <1>4 DEF FromCache, FetchInv, LinesAreFresh, Fresh
  <2>2. \A x \in CodeWords : Holds(x) => Raw(x) \in fresh[x] /\ Fresh(icache[Line(x)].whole)
    BY LineType DEF FetchInv, LinesAreFresh, Holds, Raw, Fresh
  <2>3. \E parts : Runs(p, w, across, parts) /\ Fresh(parts)
    <3>1. CASE ~across
      BY <1>2, <1>4, <2>2, <3>1 DEF FromCache, Fresh
    <3>2. CASE across /\ icache[Line(a)].whole /= <<>>
      BY <1>2, <1>4, <2>2, <3>2 DEF FromCache
    <3>3. CASE across /\ icache[Line(a)].whole = <<>>
      <4>1. /\ Holds(a) /\ Holds(a + 1)
            /\ Runs(p, w, across, <<<<a, Raw(a)>>, <<a + 1, Raw(a + 1)>>>>)
        BY <1>4, <3>3 DEF FromCache
      <4>2. Fresh(<<<<a, Raw(a)>>, <<a + 1, Raw(a + 1)>>>>)
        BY <1>2, <2>2, <3>3, <4>1 DEF Fresh
      <4> QED BY <4>1, <4>2
    <3> QED BY <3>1, <3>2, <3>3
  <2> QED
    BY <1>1, <1>3, <2>1, <2>3, RunsFresh DEF FetchInv
<1>5. CASE FromBus(p, w, across, a)
  BY <1>1, <1>2, <1>3, <1>5 DEF FromBus, FetchInv, LinesAreFresh, FetchIsFresh, CodeIsFresh,
         Fresh
<1> QED
  BY <1>1, <1>4, <1>5 DEF a

LEMMA WaitKeeps == FetchInv /\ WaitFetch => FetchInv'
<1> SUFFICES ASSUME FetchInv, WaitFetch PROVE FetchInv'
  OBVIOUS
<1> DEFINE a == fetch.at
<1>1. a \in CodeWords /\ code[a] \in fresh[a] /\ Line(a) \in Lines
  BY LineType DEF FetchInv, FetchIsFresh, WaitFetch, MemoryIsFresh
<1>2. MemoryIsFresh'
  BY DEF WaitFetch, FetchInv, MemoryIsFresh
<1>3. LinesAreFresh'
  <2>1. /\ Filled(a) \in CacheLine /\ Filled(a).word = a /\ Filled(a).raw = code[a]
        /\ Filled(a).whole = <<>>
    BY <1>1 DEF Filled, CacheLine, FetchInv, MemoryIsFresh, CodeWords
  <2>2. Fresh(<<>>)
    BY DEF Fresh
  <2>3. icache' = [icache EXCEPT ![Line(a)] = Filled(a)] /\ fresh' = fresh
    BY DEF WaitFetch
  <2> HIDE DEF a
  <2> QED
    BY <1>1, <2>1, <2>2, <2>3 DEF FetchInv, LinesAreFresh, Fresh
<1>4. CASE fetch.across
  <2>1. /\ fetch'.phase = "WAIT_FETCH_HI" /\ fetch'.across /\ fetch'.at = a
        /\ fetch'.word0 = code[a]
        /\ ran' = ran /\ fresh' = fresh
    BY <1>4 DEF WaitFetch
  <2>2. a + 1 \in CodeWords /\ code[a] \in Nat
    BY <1>1, <1>4 DEF FetchInv, FetchIsFresh, WaitFetch, MemoryIsFresh
  <2> QED
    BY <1>1, <1>2, <1>3, <2>1, <2>2 DEF FetchInv, FetchIsFresh, CodeIsFresh
<1>5. CASE ~fetch.across
  <2>1. Fresh(<<<<a, code[a]>>>>)
    BY <1>1 DEF Fresh
  <2> QED
    BY <1>2, <1>3, <1>5, <2>1, RunsFresh DEF WaitFetch, FetchInv
<1> QED
  BY <1>4, <1>5

LEMMA WaitHiKeeps == FetchInv /\ WaitFetchHi => FetchInv'
<1> SUFFICES ASSUME FetchInv, WaitFetchHi PROVE FetchInv'
  OBVIOUS
<1> DEFINE a == fetch.at
           whole == <<<<a, fetch.word0>>, <<a + 1, code[a + 1]>>>>
<1>1. /\ a \in CodeWords /\ a + 1 \in CodeWords /\ Line(a) \in Lines
      /\ fetch.word0 \in fresh[a] /\ code[a + 1] \in fresh[a + 1]
  BY LineType DEF FetchInv, FetchIsFresh, WaitFetchHi, MemoryIsFresh
<1>2. Fresh(whole)
  BY <1>1 DEF Fresh
<1>3. MemoryIsFresh'
  BY DEF WaitFetchHi, FetchInv, MemoryIsFresh
<1>4. LinesAreFresh'
  <2>1. CASE Holds(a)
    <3>1. icache' = [icache EXCEPT ![Line(a)].whole = whole]
      BY <2>1 DEF WaitFetchHi
    <3>2. whole \in (CodeWords \X Nat) \X (CodeWords \X Nat)
      BY <1>1 DEF WaitFetchHi, FetchInv, FetchIsFresh, MemoryIsFresh
    <3> HIDE DEF whole
    <3>3. \A l \in Lines : /\ icache'[l] \in CacheLine /\ icache'[l].word = icache[l].word
            /\ icache'[l].raw = icache[l].raw /\ icache'[l].valid = icache[l].valid
            /\ icache'[l].whole \in {whole, icache[l].whole}
      BY <3>1, <3>2 DEF FetchInv, LinesAreFresh, CacheLine
    <3>4. icache' \in [Lines -> CacheLine] /\ fresh' = fresh
      BY <3>1, <3>3 DEF WaitFetchHi, FetchInv, LinesAreFresh
    <3> QED
      BY <1>2, <3>3, <3>4 DEF FetchInv, LinesAreFresh, Fresh
  <2>2. CASE ~Holds(a)
    BY <2>2 DEF WaitFetchHi, FetchInv, LinesAreFresh, Fresh
  <2> QED BY <2>1, <2>2
<1> QED
  BY <1>2, <1>3, <1>4, RunsFresh DEF WaitFetchHi, FetchInv

LEMMA FetchStep == FetchInv /\ [FetchNext]_fetchVars => FetchInv'
<1> SUFFICES ASSUME FetchInv, [FetchNext]_fetchVars PROVE FetchInv'
  OBVIOUS
<1>1. CASE Fetch \/ WaitFetch \/ WaitFetchHi
  BY <1>1, FetchKeeps, WaitKeeps, WaitHiKeeps
<1>2. CASE StoreCode
  <2>1. /\ MemoryIsFresh' /\ fetch' = fetch /\ icache' = icache /\ ran' = {}
        /\ \A a \in CodeWords : fresh[a] \subseteq fresh'[a]
    BY <1>2 DEF StoreCode, FetchInv, MemoryIsFresh
  <2>2. LinesAreFresh'
    BY <2>1 DEF FetchInv, LinesAreFresh, Fresh
  <2> QED
    BY <2>1, <2>2 DEF FetchInv, FetchIsFresh, CodeIsFresh
<1>3. CASE FenceI
  <2>1. \A l \in Lines : icache'[l] \in CacheLine /\ ~icache'[l].valid
    BY <1>3 DEF FenceI, FetchInv, LinesAreFresh, CacheLine
  <2>2. LinesAreFresh'
    BY <1>3, <2>1 DEF FenceI, LinesAreFresh
  <2> QED
    BY <1>3, <2>2 DEF FenceI, FetchInv, MemoryIsFresh, FetchIsFresh, CodeIsFresh
<1>4. CASE UNCHANGED fetchVars
  BY <1>4 DEF fetchVars, FetchInv, MemoryIsFresh, LinesAreFresh, FetchIsFresh, CodeIsFresh,
         Fresh
<1> QED
  BY <1>1, <1>2, <1>3, <1>4 DEF FetchNext

\* No instruction is executed that memory has not held since the last FENCE.I,
\* however its words came into the cache of decoded instructions.
THEOREM FetchSafety == FetchSpec => []CodeIsFresh
<1>1. FetchSpec => []FetchInv
  BY FetchInitInv, FetchStep, PTL DEF FetchSpec
<1>2. FetchInv => CodeIsFresh
  BY DEF FetchInv
<1> QED
  BY <1>1, <1>2, PTL

-----------------------------------------------------------------------------
(* Translation.  A valid TLB entry, the cached top-level entry and the slot  *)
(* a walk is at each stem from entries that were in the tables of the root   *)
(* in use since the last fence; and the state of the set of the TLB says how *)
(* many more walks an access can need.                                       *)

AllPages == Tops \X Lows

TopSlot(root, page) == <<"top", root, page[1]>>
LowSlot(table, page) == <<"low", table, page[2]>>
\* A TLB entry for page that entry e, found at level lev, was made of.
MadeOf(t, e, lev) ==
  /\ e.kind = "page" /\ Aligned(e, lev) /\ t.to = LowBits(t.page, e, lev)
  /\ t.w = e.w /\ t.d = e.d /\ t.u = e.u
\* A table that a root has named for a top half since the last fence.
Named(held, root, top, table) ==
  \E e \in held[<<"top", root, top>>] : e.kind = "table" /\ e.to = table
\* A TLB entry was made of entries that the tables have held.
Stems(held, root, t) ==
  /\ t.page \in AllPages
  /\ \/ \E e \in held[TopSlot(root, t.page)] : MadeOf(t, e, 1)
     \/ \E table \in Tables :
          /\ Named(held, root, t.page[1], table)
          /\ \E e \in held[LowSlot(table, t.page)] : MadeOf(t, e, 0)

TablesAreRecent ==
  /\ tables \in [Slots -> TopEntries \cup LowEntries]
  /\ DOMAIN recent = Slots
  /\ \A s \in Slots : tables[s] \in recent[s]
TlbIsRecent ==
  /\ DOMAIN tlb = Ways /\ \A w \in Ways : tlb[w].valid => Stems(recent, satp, tlb[w])
L1IsRecent ==
  l1.valid => l1.top \in Tops /\ l1.to \in Tables /\ Named(recent, satp, l1.top, l1.to)
\* Where a walk reads.
Located ==
  \/ level = 1 /\ pte = TopSlot(satp, req.page)
  \/ /\ level = 0
     /\ \E table \in Tables :
          Named(recent, satp, req.page[1], table) /\ pte = LowSlot(table, req.page)
WalkIsRecent ==
  /\ step \in {"READY", "WALK", "RETRY"} /\ satp \in Roots /\ lru \in Ways
  /\ step /= "READY" => req.page \in AllPages
  /\ step = "WALK" => Located

\* The access under way is served by way w; or the next way to be given up is
\* the first, which then is the one that is looked at.
Serves(w) ==
  /\ w \in Matching(req.page) /\ Permits(tlb[w], req.kind) /\ Marked(tlb[w], req.kind)
FullAndFirst == tlb[1].valid /\ tlb[2].valid /\ lru = 1
WalksInv ==
  /\ step = "READY" => walks = 0
  /\ step = "WALK" => walks = 1 \/ (walks = 2 /\ FullAndFirst)
  /\ step = "RETRY" => \/ walks = 1 /\ (Serves(1) \/ FullAndFirst)
                       \/ walks = 2 /\ Serves(1)
MmuInv == TablesAreRecent /\ TlbIsRecent /\ L1IsRecent /\ WalkIsRecent /\ WalksInv

LEMMA MmuInitInv == MmuInit => MmuInv
BY EntriesAssumption DEF MmuInit, MmuInv, TablesAreRecent, TlbIsRecent, L1IsRecent,
       WalkIsRecent, WalksInv, Empty, Ways

LEMMA SlotTypes ==
  ASSUME WalkIsRecent, NEW page \in AllPages
  PROVE  TopSlot(satp, page) \in Slots /\ \A table \in Tables : LowSlot(table, page) \in Slots
BY DEF WalkIsRecent, AllPages, TopSlot, LowSlot, Slots

LEMMA AtIsSlot ==
  ASSUME WalkIsRecent, step = "WALK"
  PROVE  pte \in Slots
BY SlotTypes DEF WalkIsRecent, Located

\* An access, or its repetition once the TLB was filled for it.
LEMMA TranslateKeeps ==
  ASSUME MmuInv, NEW page \in AllPages, NEW how, Translate(page, how), UNCHANGED machine,
         \/ step = "READY"
         \/ step = "RETRY" /\ page = req.page /\ how = req.kind
  PROVE  MmuInv'
<1> USE DEF MmuInv, machine
<1>1. CASE TlbHit(page, how)
  <2>1. TablesAreRecent' /\ TlbIsRecent' /\ L1IsRecent'
    BY <1>1 DEF TlbHit, TablesAreRecent, TlbIsRecent, L1IsRecent
  <2> QED
    BY <1>1, <2>1 DEF TlbHit, Ends, WalkIsRecent, WalksInv, First, Ways
<1>2. CASE TlbFault(page, how)
  <2>1. TablesAreRecent' /\ TlbIsRecent' /\ L1IsRecent'
    BY <1>2 DEF TlbFault, TablesAreRecent, TlbIsRecent, L1IsRecent
  <2> QED
    BY <1>2, <2>1 DEF TlbFault, Ends, WalkIsRecent, WalksInv
<1>3. CASE Walk(page, how)
  <2>1. TablesAreRecent' /\ TlbIsRecent' /\ L1IsRecent'
    BY <1>3 DEF Walk, TablesAreRecent, TlbIsRecent, L1IsRecent
  <2>2. WalkIsRecent'
    BY <1>3 DEF Walk, WalkIsRecent, Located, L1Hit, L1IsRecent, TopSlot, LowSlot, Named
  <2>3. WalksInv'
    <3>1. CASE step = "READY"
      BY <1>3, <3>1 DEF Walk, WalksInv
    <3>2. CASE step = "RETRY" /\ page = req.page /\ how = req.kind
      <4>1. ~Serves(1)
        BY <1>3, <3>2 DEF Walk, Serves, First
      <4>2. walks = 1 /\ FullAndFirst
        BY <3>2, <4>1 DEF WalksInv
      <4> QED
        BY <1>3, <4>2 DEF Walk, WalksInv, FullAndFirst
    <3> QED BY <3>1, <3>2
  <2> QED BY <2>1, <2>2, <2>3
<1> QED BY <1>1, <1>2, <1>3 DEF Translate

LEMMA AbandonKeeps == MmuInv /\ Abandon => MmuInv'
<1> SUFFICES ASSUME MmuInv, Abandon PROVE MmuInv'
  OBVIOUS
<1>1. TablesAreRecent' /\ TlbIsRecent' /\ L1IsRecent'
  BY DEF Abandon, MmuInv, TablesAreRecent, TlbIsRecent, L1IsRecent
<1> QED
  BY <1>1 DEF Abandon, Ends, MmuInv, WalkIsRecent, WalksInv

\* The entry read.
LEMMA PteKeeps == MmuInv /\ HandlePte => MmuInv'
<1> SUFFICES ASSUME MmuInv, HandlePte PROVE MmuInv'
  OBVIOUS
<1> DEFINE e == tables[pte]
<1>1. /\ step = "WALK" /\ UNCHANGED machine /\ Located
      /\ req.page \in AllPages /\ pte \in Slots /\ e \in recent[pte]
      /\ e \in TopEntries \cup LowEntries
  BY AtIsSlot DEF HandlePte, MmuInv, WalkIsRecent, TablesAreRecent
<1>2. TablesAreRecent'
  BY DEF HandlePte, machine, MmuInv, TablesAreRecent, PteFaults, PteMaps, PteDescends
<1>3. CASE PteFaults
  <2>1. TlbIsRecent' /\ L1IsRecent'
    BY <1>1, <1>3 DEF PteFaults, machine, MmuInv, TlbIsRecent, L1IsRecent
  <2> QED
    BY <1>1, <1>2, <1>3, <2>1 DEF PteFaults, Ends, machine, MmuInv, WalkIsRecent, WalksInv
<1>4. CASE PteMaps
  <2> DEFINE t == [valid |-> TRUE, page |-> req.page, asid |-> Asid[satp],
                   to |-> LowBits(req.page, e, level), w |-> e.w, d |-> e.d, u |-> e.u]
  <2>1. /\ tlb' = [tlb EXCEPT ![Way] = t] /\ lru' = 3 - Way /\ step' = "RETRY"
        /\ UNCHANGED <<l1, req, level, pte, walks, recent, satp, priv, sum>>
        /\ e.kind = "page" /\ Aligned(e, level) /\ Permits(e, req.kind)
        /\ Marked(e, req.kind)
    BY <1>1, <1>4 DEF PteMaps, machine, Faults
  <2>2. MadeOf(t, e, level)
    BY <2>1 DEF MadeOf, LowBits
  <2>3. Stems(recent, satp, t)
    BY <1>1, <2>1, <2>2 DEF Located, Stems
  <2>4. /\ t.valid /\ t.page = req.page /\ t.asid = Asid[satp]
        /\ Permits(t, req.kind) /\ Marked(t, req.kind)
    BY <2>1 DEF Permits, Marked
  <2>5. Way \in Ways
    BY DEF Way, Ways, MmuInv, WalkIsRecent
  <2> HIDE DEF t, e
  <2>6. TlbIsRecent'
    BY <2>1, <2>3, <2>5 DEF MmuInv, TlbIsRecent
  <2>7. L1IsRecent'
    BY <2>1 DEF MmuInv, L1IsRecent, Named
  <2>8. WalkIsRecent'
    BY <2>1, <2>5, <1>1 DEF MmuInv, WalkIsRecent, Ways
  <2>9. Way = 1 => Serves(1)'
    BY <2>1, <2>4, <2>5 DEF Serves, Matching, Permits, Marked, MmuInv, TlbIsRecent, Ways
  <2>10. Way = 2 => FullAndFirst'
    BY <2>1, <2>4 DEF FullAndFirst, MmuInv, TlbIsRecent, Ways, Way
  <2>11. FullAndFirst => Way = 1
    BY DEF FullAndFirst, Way
  <2>12. WalksInv'
    BY <1>1, <2>1, <2>5, <2>9, <2>10, <2>11 DEF MmuInv, WalksInv, Ways
  <2> QED
    BY <1>2, <2>6, <2>7, <2>8, <2>12 DEF MmuInv
<1>5. CASE PteDescends
  <2>1. level = 1 /\ e.kind = "table"
    BY <1>1, <1>5 DEF PteDescends, Faults, Located
  <2>2. e.to \in Tables /\ Named(recent, satp, req.page[1], e.to)
    BY <1>1, <2>1, EntriesAssumption DEF Located, Named, TopSlot
  <2>3. TlbIsRecent'
    BY <1>1, <1>5 DEF PteDescends, machine, MmuInv, TlbIsRecent
  <2>4. L1IsRecent'
    BY <1>1, <1>5, <2>2 DEF PteDescends, machine, L1IsRecent, AllPages
  <2>5. Located'
    BY <1>1, <1>5, <2>2 DEF PteDescends, machine, Located, Named, LowSlot
  <2>6. WalkIsRecent' /\ WalksInv'
    BY <1>1, <1>5, <2>5 DEF PteDescends, machine, MmuInv, WalkIsRecent, WalksInv,
           FullAndFirst
  <2> QED
    BY <1>2, <2>3, <2>4, <2>6 DEF MmuInv
<1> QED BY <1>3, <1>4, <1>5 DEF HandlePte


\* What is added to a slot takes nothing away.
LEMMA StemsGrow ==
  ASSUME NEW old, NEW new, NEW root \in Roots, NEW t, Stems(old, root, t),
         \A s \in Slots : old[s] \subseteq new[s]
  PROVE  Stems(new, root, t)
<1>1. \A top \in Tops : <<"top", root, top>> \in Slots
  BY DEF Slots
<1>2. TopSlot(root, t.page) \in Slots /\ \A table \in Tables : LowSlot(table, t.page) \in Slots
  BY DEF Stems, AllPages, TopSlot, LowSlot, Slots
<1>3. \A table : Named(old, root, t.page[1], table) => Named(new, root, t.page[1], table)
  BY <1>1 DEF Named, Stems, AllPages
<1> QED
  BY <1>2, <1>3 DEF Stems

LEMMA EditKeeps == MmuInv /\ Edit => MmuInv'
<1> SUFFICES ASSUME MmuInv, Edit PROVE MmuInv'
  OBVIOUS
<1>1. PICK s \in Slots, e \in TopEntries \cup LowEntries :
        /\ tables' = [tables EXCEPT ![s] = e]
        /\ recent' = [recent EXCEPT ![s] = @ \cup {e}]
        /\ UNCHANGED <<satp, priv, sum, tlb, lru, l1, step, req, level, pte, walks>>
  BY DEF Edit
<1>2. TablesAreRecent' /\ \A x \in Slots : recent[x] \subseteq recent'[x]
  BY <1>1 DEF MmuInv, TablesAreRecent
<1>3. ASSUME NEW top \in Tops, NEW table, Named(recent, satp, top, table)
      PROVE  Named(recent', satp, top, table)
  <2>1. <<"top", satp, top>> \in Slots
    BY DEF MmuInv, WalkIsRecent, Slots
  <2> QED
    BY <1>2, <1>3, <2>1 DEF Named
<1>4. TlbIsRecent'
  BY <1>1, <1>2, StemsGrow DEF MmuInv, TlbIsRecent, WalkIsRecent
<1>5. L1IsRecent'
  BY <1>1, <1>3 DEF MmuInv, L1IsRecent
<1>6. WalkIsRecent'
  BY <1>1, <1>3 DEF MmuInv, WalkIsRecent, Located, AllPages
<1>7. WalksInv'
  BY <1>1 DEF MmuInv, WalksInv, Serves, FullAndFirst, Matching, Permits, Marked
<1> QED BY <1>2, <1>4, <1>5, <1>6, <1>7 DEF MmuInv

\* Software.
LEMMA FlushKeeps == MmuInv /\ (SfenceVma \/ WriteSatp) => MmuInv'
<1> SUFFICES ASSUME MmuInv, SfenceVma \/ WriteSatp PROVE MmuInv'
  OBVIOUS
<1>1. /\ tlb' = [w \in Ways |-> Empty] /\ l1' = Empty
      /\ recent' = [s \in Slots |-> {tables[s]}]
      /\ step = "READY" /\ satp' \in Roots
      /\ UNCHANGED <<tables, lru, step, req, level, pte, walks>>
  BY DEF SfenceVma, WriteSatp, Flushed, machine, MmuInv, WalkIsRecent
<1> QED
  BY <1>1 DEF MmuInv, TablesAreRecent, TlbIsRecent, L1IsRecent, WalkIsRecent, WalksInv,
         Empty

LEMMA PrivilegeKeeps == MmuInv /\ ChangePrivilege => MmuInv'
BY DEF ChangePrivilege, MmuInv, TablesAreRecent, TlbIsRecent, L1IsRecent, WalkIsRecent,
       WalksInv

LEMMA MmuStep == MmuInv /\ [MmuNext]_mmuVars => MmuInv'
<1> SUFFICES ASSUME MmuInv, [MmuNext]_mmuVars PROVE MmuInv'
  OBVIOUS
<1>1. CASE Access
  <2>1. PICK page \in AllPages, how \in {"fetch", "load", "store"} : Translate(page, how)
    BY <1>1 DEF Access, AllPages
  <2> QED
    BY <1>1, <2>1, TranslateKeeps DEF Access
<1>2. CASE Retry
  BY <1>2, TranslateKeeps DEF Retry, MmuInv, WalkIsRecent
<1>3. CASE Abandon \/ HandlePte \/ Edit \/ SfenceVma \/ WriteSatp \/ ChangePrivilege
  BY <1>3, AbandonKeeps, PteKeeps, EditKeeps, FlushKeeps, PrivilegeKeeps
<1>4. CASE UNCHANGED mmuVars
  BY <1>4 DEF mmuVars, MmuInv, TablesAreRecent, TlbIsRecent, L1IsRecent, WalkIsRecent,
         Located, WalksInv,
        Serves, FullAndFirst, Matching, Permits, Marked
<1> QED BY <1>1, <1>2, <1>3, <1>4 DEF MmuNext

\* What an entry of a table reached through the root comes to is possible.
LEMMA BelowIsPossible ==
  ASSUME NEW page, NEW how, NEW table, Named(recent, satp, page[1], table),
         NEW e \in recent[LowSlot(table, page)]
  PROVE  Outcome(e, 0, page, how) \in Possible(page, how)
<1> DEFINE tops == recent[<<"top", satp, page[1]>>]
           Below(t) == {Outcome(x, 0, page, how) : x \in recent[<<"low", t.to, page[2]>>]}
<1>1. PICK t \in tops : t.kind = "table" /\ t.to = table
  BY DEF Named
<1>2. Outcome(e, 0, page, how) \in Below(t)
  BY <1>1 DEF LowSlot
<1>3. Below(t) \subseteq UNION {Below(y) : y \in {x \in tops : x.kind = "table"}}
  BY <1>1
<1>4. UNION {Below(y) : y \in {x \in tops : x.kind = "table"}} \subseteq Possible(page, how)
  BY DEF Possible
<1> QED
  BY <1>2, <1>3, <1>4

\* What can come of an entry the tables have held is possible.
LEMMA StemIsPossible ==
  ASSUME NEW t, Stems(recent, satp, t), NEW how
  PROVE  /\ ~Permits(t, how) => Fault \in Possible(t.page, how)
         /\ Permits(t, how) /\ Marked(t, how) => t.to \in Possible(t.page, how)
<1>1. ASSUME NEW e, NEW lev, MadeOf(t, e, lev)
      PROVE  /\ ~Permits(t, how) => Outcome(e, lev, t.page, how) = Fault
             /\ Permits(t, how) /\ Marked(t, how) => Outcome(e, lev, t.page, how) = t.to
  BY <1>1 DEF MadeOf, Outcome, Permits, Marked
<1>2. CASE \E e \in recent[TopSlot(satp, t.page)] : MadeOf(t, e, 1)
  BY <1>1, <1>2 DEF Possible, TopSlot, MadeOf
<1>3. ASSUME NEW table \in Tables, Named(recent, satp, t.page[1], table),
             NEW e \in recent[LowSlot(table, t.page)], MadeOf(t, e, 0)
      PROVE  Outcome(e, 0, t.page, how) \in Possible(t.page, how)
  BY <1>3, BelowIsPossible
<1> QED
  BY <1>1, <1>2, <1>3 DEF Stems

LEMMA InvIsSound == MmuInv => TranslationIsSound
<1> SUFFICES ASSUME MmuInv PROVE TranslationIsSound
  OBVIOUS
<1>1. ASSUME NEW page \in Tops \X Lows, NEW how \in {"fetch", "load", "store"},
             NEW given \in Given(page, how)
      PROVE  given \in Possible(page, how)
  <2> DEFINE t == tlb[First(Matching(page))]
  <2>1. Matching(page) /= {} /\ First(Matching(page)) \in Matching(page)
    BY DEF Given, First, Matching, Ways
  <2>2. t.valid /\ t.page = page /\ Stems(recent, satp, t)
    BY <2>1 DEF Matching, MmuInv, TlbIsRecent
  <2>3. given = IF ~Permits(t, how) THEN Fault ELSE t.to
    BY <2>1 DEF Given
  <2>4. Permits(t, how) => Marked(t, how)
    BY <2>1 DEF Given
  <2> HIDE DEF t
  <2> QED
    BY <2>2, <2>3, <2>4, StemIsPossible
<1>2. ASSUME step = "WALK", Faults(tables[pte])
      PROVE  Fault \in Possible(req.page, req.kind)
  <2> DEFINE e == tables[pte]
  <2>1. Located /\ e \in recent[pte]
    BY <1>2, AtIsSlot DEF MmuInv, WalkIsRecent, TablesAreRecent
  <2>2. Outcome(e, level, req.page, req.kind) = Fault
    BY <1>2, <2>1 DEF Faults, Outcome, Located
  <2>3. CASE level = 1 /\ pte = TopSlot(satp, req.page)
    <3>1. e.kind # "table"
      BY <1>2, <2>3 DEF Faults
    <3> QED
      BY <2>1, <2>2, <2>3, <3>1 DEF Possible, TopSlot
  <2>4. CASE level = 0 /\ \E table \in Tables :
               Named(recent, satp, req.page[1], table) /\ pte = LowSlot(table, req.page)
    BY <2>1, <2>2, <2>4, BelowIsPossible
  <2> QED BY <2>1, <2>3, <2>4 DEF Located
<1>3. WalksEnd
  BY DEF MmuInv, WalkIsRecent, WalksInv, WalksEnd
<1> QED
  BY <1>1, <1>2, <1>3 DEF TranslationIsSound, TranslationIsRecent

\* Every access is given what the tables in use have said since the last fence,
\* or its fault, after at most two walks.
THEOREM TranslationSafety == MmuSpec => []TranslationIsSound
<1>1. MmuSpec => []MmuInv
  BY MmuInitInv, MmuStep, PTL DEF MmuSpec
<1> QED
  BY <1>1, InvIsSound, PTL

-----------------------------------------------------------------------------
(* Traps. *)
USE WiresAssumption, MasksAssumption, SetupsAssumption DEF U, S, M

Interrupts == {"MEI", "MTI", "MSI", "SEI", "SSI", "STI"}
Phases == {"FETCH", "WAIT", "EXECUTE", "WAIT_MEM", "HALTED"}
CpuState ==
  [priv : {U, S, M}, phase : Phases, mie : SUBSET Interrupts, mip : SUBSET Interrupts,
   mip_sw : SUBSET Interrupts, mideleg : SUBSET Interrupts, medeleg : SUBSET Exceptions,
   mtvec : BOOLEAN, wfi : BOOLEAN, off : BOOLEAN,
   MIE : BOOLEAN, MPIE : BOOLEAN, MPP : {U, S, M}, SIE : BOOLEAN, SPIE : BOOLEAN,
   SPP : {U, S}, MPRV : BOOLEAN, TSR : BOOLEAN, TW : BOOLEAN]
FrameSets == [{"M", "S"} -> SUBSET ({U, S, M} \X BOOLEAN)]

\* What is kept of an interrupted level is what mstatus stacks for it.
Stacked(h) ==
  /\ frames.M \subseteq {<<h.MPP, h.MPIE>>}
  /\ frames.S \subseteq {<<h.SPP, h.SPIE>>}
  /\ h.MPRV => h.priv = M

\* The bits of mip that software holds up are those it has asked for.
Asked(h) ==
  h.mip_sw = wanted /\ wanted \subseteq Writable /\ wanted \subseteq h.mip

\* A hart in WFI is halted, with nothing it has enabled pending.
Sleeps(h) ==
  /\ h.wfi => h.phase = "HALTED"
  /\ h.wfi /\ ~h.off => h.mip \cap h.mie = {}

TrapTypeOK == timer \in {"never", "ahead", "due"} /\ frames \in FrameSets
HartInv(h) == h \in CpuState /\ Stacked(h) /\ Asked(h) /\ Sleeps(h)
TrapInv == TrapTypeOK /\ HartInv(hart)

LEMMA ResetGood == ASSUME NEW h, h = ResetState PROVE h \in CpuState
BY DEF ResetState, CpuState, Phases

LEMMA TrapInitInv == TrapInit => TrapInv
BY ResetGood DEF TrapInit, TrapInv, TrapTypeOK, HartInv, Stacked, Asked, Sleeps, ResetState,
       NoFrame, FrameSets

\* What is gathered at an edge is a state of the hart.
LEMMA MergedType ==
  ASSUME NEW h \in CpuState, NEW w \in Wires, NEW t
  PROVE  Merged(h, w, t) \in CpuState
<1> DEFINE mip == Merged(h, w, t).mip
<1>1. Merged(h, w, t) = [h EXCEPT !.mip = mip]
    BY DEF Merged, CpuState
<1>2. mip \subseteq Interrupts
    BY DEF Merged, CpuState, External, Interrupts
<1> QED
    BY <1>1, <1>2 DEF CpuState

LEMMA NextPhaseType ==
  ASSUME NEW h \in CpuState, NEW p \in Phases
  PROVE  [h EXCEPT !.phase = p] \in CpuState
BY DEF CpuState

LEMMA TakeTrapType ==
  ASSUME NEW h \in CpuState, NEW cause
  PROVE  TakeTrap(h, cause) \in CpuState
<1>1. CASE TrapLevel(h, cause) = "S"
  <2>1. h.priv \in {U, S} /\ h.SIE \in BOOLEAN
    BY <1>1 DEF TrapLevel, CpuState
  <2>2. EnterS(h) \in CpuState
    BY <2>1 DEF EnterS, CpuState
  <2> QED
    BY <1>1, <2>2, NextPhaseType DEF TakeTrap, Phases
<1>2. CASE TrapLevel(h, cause) = "M"
  <2>1. EnterM(h) \in CpuState
    BY DEF EnterM, CpuState
  <2> QED
    BY <1>2, <2>1, NextPhaseType DEF TakeTrap, Phases
<1> QED BY <1>1, <1>2 DEF TrapLevel

LEMMA MretType ==
  ASSUME NEW h \in CpuState
  PROVE  Mret(h) \in CpuState
<1> DEFINE mprv == h.MPRV /\ h.MPP = M
           g == [h EXCEPT !.priv = h.MPP, !.MIE = h.MPIE, !.MPIE = TRUE, !.MPP = U,
                          !.MPRV = mprv]
<1>1. mprv \in BOOLEAN
  OBVIOUS
<1>2. Mret(h) = [g EXCEPT !.phase = "FETCH"]
  BY DEF Mret, CpuState
<1> HIDE DEF mprv
<1>3. g \in CpuState
  BY <1>1 DEF CpuState
<1> QED
  BY <1>2, <1>3, NextPhaseType DEF Phases

\* A trap, whatever its cause and its level.
LEMMA TrapKeeps ==
  ASSUME TrapTypeOK, NEW h, HartInv(h), ~h.wfi, NEW cause, Trap(h, cause)
  PROVE  TrapInv'
<1> USE DEF Trap, HartInv
<1>1. hart' \in CpuState
  BY TakeTrapType
<1>2. Asked(hart)' /\ Sleeps(hart)'
  BY DEF TakeTrap, TrapLevel, EnterS, EnterM, Asked, Sleeps, CpuState
<1>3. TrapTypeOK'
  BY DEF TrapTypeOK, FrameSets, Interrupted, TrapLevel, Enable, CpuState
<1>4. CASE TrapLevel(h, cause) = "S"
  <2>1. h.priv # M
    BY <1>4 DEF TrapLevel
  <2>2. /\ frames'.M = frames.M /\ frames'.S \subseteq {<<h.priv, h.SIE>>}
    BY <1>4 DEF TrapTypeOK, FrameSets, Interrupted, Enable
  <2>3. /\ hart'.MPP = h.MPP /\ hart'.MPIE = h.MPIE /\ hart'.MPRV = h.MPRV
        /\ hart'.SPP = h.priv /\ hart'.SPIE = h.SIE
    BY <1>4 DEF TakeTrap, EnterS, CpuState
  <2> QED
    BY <1>1, <1>2, <1>3, <2>1, <2>2, <2>3 DEF TrapInv, Stacked
<1>5. CASE TrapLevel(h, cause) = "M"
  <2>2. /\ frames'.S = frames.S /\ frames'.M \subseteq {<<h.priv, h.MIE>>}
    BY <1>5 DEF TrapTypeOK, FrameSets, Interrupted, Enable
  <2>3. /\ hart'.SPP = h.SPP /\ hart'.SPIE = h.SPIE /\ hart'.priv = M
        /\ hart'.MPP = h.priv /\ hart'.MPIE = h.MIE
    BY <1>5 DEF TakeTrap, EnterM, CpuState
  <2> QED
    BY <1>1, <1>2, <1>3, <2>2, <2>3 DEF TrapInv, Stacked
<1> QED BY <1>4, <1>5 DEF TrapLevel

\* A step of the hart that is no trap and leaves the stacks and mip alone.
LEMMA GotoKeeps ==
  ASSUME TrapTypeOK, NEW h, HartInv(h), ~h.wfi, NEW next \in Phases, Goto(h, next)
  PROVE  TrapInv'
BY DEF Goto, Became, HartInv, TrapInv, TrapTypeOK, CpuState, Stacked, Asked, Sleeps

LEMMA EcallKeeps ==
  ASSUME TrapTypeOK, NEW h, HartInv(h), ~h.wfi, Ecall(h)
  PROVE  TrapInv'
<1>1. CASE \E cause : Trap(h, cause)
  BY <1>1, TrapKeeps
<1>2. CASE /\ hart' = [h EXCEPT !.phase = "FETCH"] /\ timer' \in {"ahead", "due"}
           /\ UNCHANGED <<wanted, frames>>
  BY <1>2 DEF HartInv, TrapInv, TrapTypeOK, CpuState, Stacked, Asked, Sleeps, Phases
<1>3. CASE Became(PowerOff(h))
  BY <1>3 DEF Became, PowerOff, HartInv, TrapInv, TrapTypeOK, CpuState, Stacked, Asked,
         Sleeps, Phases
<1> QED BY <1>1, <1>2, <1>3 DEF Ecall

LEMMA ReturnsKeep ==
  ASSUME TrapTypeOK, NEW h, HartInv(h), ~h.wfi, ExecMret(h) \/ ExecSret(h)
  PROVE  TrapInv'
<1>1. CASE \E cause : Trap(h, cause)
  BY <1>1, TrapKeeps
<1>2. CASE hart' = Mret(h) /\ frames' = Touched("M") /\ UNCHANGED <<timer, wanted>>
  <2> USE DEF HartInv
  <2>0. hart' \in CpuState
    BY <1>2, MretType
  <2>1. Asked(hart)' /\ Sleeps(hart)'
    BY <1>2 DEF Mret, CpuState, Asked, Sleeps
  <2>2. TrapTypeOK' /\ frames'.M = {} /\ frames'.S = frames.S
    BY <1>2 DEF Touched, TrapTypeOK, FrameSets
  <2>3. hart'.SPP = h.SPP /\ hart'.SPIE = h.SPIE /\ (hart'.MPRV => hart'.priv = M)
    BY <1>2 DEF Mret, CpuState
  <2> QED
    BY <2>0, <2>1, <2>2, <2>3 DEF TrapInv, Stacked
<1>3. CASE hart' = Sret(h) /\ frames' = Touched("S") /\ UNCHANGED <<timer, wanted>>
  <2>1. hart' \in CpuState /\ Asked(hart)' /\ Sleeps(hart)'
    BY <1>3 DEF Sret, HartInv, CpuState, Asked, Sleeps, Phases
  <2>2. TrapTypeOK' /\ frames'.S = {} /\ frames'.M = frames.M
    BY <1>3 DEF Touched, TrapTypeOK, FrameSets
  <2>3. hart'.MPP = h.MPP /\ hart'.MPIE = h.MPIE /\ ~hart'.MPRV
    BY <1>3 DEF Sret, HartInv, CpuState
  <2> QED
    BY <2>1, <2>2, <2>3 DEF HartInv, TrapInv, Stacked
<1> QED BY <1>1, <1>2, <1>3 DEF ExecMret, ExecSret

LEMMA WfiKeeps ==
  ASSUME TrapTypeOK, NEW h, HartInv(h), ~h.wfi, ExecWfi(h)
  PROVE  TrapInv'
<1>1. CASE \E cause : Trap(h, cause)
  BY <1>1, TrapKeeps
<1>2. CASE Became(Wfi(h))
  BY <1>2 DEF Became, Wfi, HartInv, TrapInv, TrapTypeOK, CpuState, Stacked, Asked, Sleeps,
         Phases
<1> QED BY <1>1, <1>2 DEF ExecWfi

\* The masks: CSRRS and CSRRC of mip work on what software holds up, so that a
\* wire never becomes a bit of software.
LEMMA MaskKeeps ==
  ASSUME TrapTypeOK, NEW h, HartInv(h), ~h.wfi, AccessMask(h)
  PROVE  TrapInv'
<1>1. CASE \E cause : Trap(h, cause)
  BY <1>1, TrapKeeps
<1>2. ASSUME NEW csr \in {"mie", "sie", "mip", "sip"}, NEW op \in {"W", "S", "C"},
         NEW v \in Masks,
         hart' = [MaskWritten(h, csr, op, v) EXCEPT !.phase = "FETCH"],
         wanted' = IF csr = "mip" THEN Operated(op, wanted, v) \cap Writable ELSE wanted,
         UNCHANGED <<timer, frames>>
      PROVE TrapInv'
  <2>1. v \subseteq Interrupts
    BY DEF Rank, Interrupts
  <2>2. \A old : old \subseteq Interrupts => Operated(op, old, v) \subseteq Interrupts
    BY <2>1 DEF Operated
  <2> DEFINE g == MaskWritten(h, csr, op, v)
  <2>3. /\ g = [h EXCEPT !.mie = g.mie, !.mip = g.mip, !.mip_sw = g.mip_sw]
        /\ g.mie \subseteq Interrupts /\ g.mip \subseteq Interrupts
        /\ g.mip_sw = wanted' /\ wanted' \subseteq Writable /\ wanted' \subseteq g.mip
    <3>1. CASE csr = "mie"
      BY <1>2, <2>2, <3>1 DEF MaskWritten, HartInv, CpuState, Asked
    <3>2. CASE csr = "sie"
      BY <1>2, <2>2, <3>2 DEF MaskWritten, WriteSie, HartInv, CpuState, Asked
    <3>3. CASE csr = "mip"
      <4> DEFINE x == Operated(op, MipBase(h), v)
                 sw == x \cap Writable
                 mip == (h.mip \ (Writable \cup {"SSI"})) \cup (x \cap {"SSI"})
                          \cup ((h.mip \ h.mip_sw) \cap Writable) \cup sw
      <4>1. g = [h EXCEPT !.mip_sw = sw, !.mip = mip]
        BY <3>3 DEF MaskWritten, WriteMip, HartInv, CpuState
      <4>2. sw = wanted'
        BY <1>2, <3>3 DEF Operated, MipBase, HartInv, Asked
      <4>3. mip \subseteq Interrupts /\ sw \subseteq Interrupts
        BY DEF HartInv, CpuState, Writable, Interrupts
      <4> QED
        BY <4>1, <4>2, <4>3 DEF HartInv, CpuState
    <3>4. CASE csr = "sip"
      BY <1>2, <2>2, <3>4 DEF MaskWritten, WriteSip, HartInv, CpuState, Asked, Writable,
             Interrupts
    <3> QED BY <3>1, <3>2, <3>3, <3>4
  <2> HIDE DEF g
  <2> QED
    <3>1. hart' = [h EXCEPT !.mie = g.mie, !.mip = g.mip, !.mip_sw = g.mip_sw, !.phase = "FETCH"]
      <4>1. hart' = [g EXCEPT !.phase = "FETCH"]
        BY <1>2 DEF g
      <4> QED BY <2>3, <4>1 DEF HartInv, CpuState
    <3>2. g.mip_sw \subseteq Interrupts
      BY <2>3 DEF Writable, Interrupts
    <3>3. hart' \in CpuState
      BY <2>3, <3>1, <3>2 DEF HartInv, CpuState, Phases
    <3>4. /\ hart'.mip = g.mip /\ hart'.mip_sw = g.mip_sw /\ ~hart'.wfi
          /\ hart'.MPP = h.MPP /\ hart'.MPIE = h.MPIE /\ hart'.SPP = h.SPP
          /\ hart'.SPIE = h.SPIE
          /\ hart'.MPRV = h.MPRV /\ hart'.priv = h.priv
      BY <3>1 DEF HartInv, CpuState
    <3> QED
      BY <1>2, <2>3, <3>3, <3>4 DEF HartInv, TrapInv, TrapTypeOK, Stacked, Asked, Sleeps
<1> QED BY <1>1, <1>2 DEF AccessMask

LEMMA StatusKeeps ==
  ASSUME TrapTypeOK, NEW h, HartInv(h), ~h.wfi, WriteStatus(h)
  PROVE  TrapInv'
<1>1. PICK f \in Fields, b \in BOOLEAN :
       /\ f \in MFields /\ (h.priv # M => f \in SFields)
       /\ hart' = [h EXCEPT ![f] = b, !.phase = "FETCH"]
       /\ frames' = IF f \in {"MIE", "MPIE"} THEN Touched("M")
                    ELSE IF f \in SFields THEN Touched("S") ELSE frames
       /\ UNCHANGED <<timer, wanted>>
  BY DEF WriteStatus, MFields
<1>2. TrapTypeOK'
  BY <1>1 DEF TrapTypeOK, FrameSets, Touched
<1> USE DEF HartInv, CpuState, Phases, SFields
<1>3. hart' \in CpuState
  <2>1. CASE f \in {"MIE", "MPIE", "SIE"}
    BY <2>1, <1>1
  <2>2. CASE f \notin {"MIE", "MPIE", "SIE"}
    BY <2>2, <1>1 DEF MFields
  <2> QED
    BY <2>1, <2>2
<1>4. Asked(hart)' /\ Sleeps(hart)'
  BY <1>1 DEF MFields, Asked, Sleeps
<1>5. CASE f \in {"MIE", "MPIE"}
  <2>1. frames'.M = {} /\ frames'.S = frames.S
    BY <1>1, <1>5 DEF Touched, TrapTypeOK, FrameSets
  <2>2. hart'.SPP = h.SPP /\ hart'.SPIE = h.SPIE /\ hart'.MPRV = h.MPRV /\ hart'.priv = h.priv
    BY <1>1, <1>5
  <2> QED BY <1>2, <1>3, <1>4, <2>1, <2>2 DEF TrapInv, Stacked
<1>6. CASE f \in SFields
  <2>1. frames'.S = {} /\ frames'.M = frames.M
    BY <1>1, <1>6 DEF Touched, TrapTypeOK, FrameSets
  <2>2. hart'.MPP = h.MPP /\ hart'.MPIE = h.MPIE /\ hart'.MPRV = h.MPRV /\ hart'.priv = h.priv
    BY <1>1, <1>6
  <2> QED BY <1>2, <1>3, <1>4, <2>1, <2>2 DEF TrapInv, Stacked
<1>7. CASE f \in {"MPRV", "TSR", "TW"}
  <2>1. frames' = frames /\ h.priv = M
    BY <1>1, <1>7
  <2>2. hart'.MPP = h.MPP /\ hart'.MPIE = h.MPIE /\ hart'.SPP = h.SPP /\ hart'.SPIE = h.SPIE /\ hart'.priv = h.priv
    BY <1>1, <1>7
  <2> QED BY <1>2, <1>3, <1>4, <2>1, <2>2 DEF TrapInv, Stacked
<1> QED BY <1>1, <1>5, <1>6, <1>7 DEF MFields

LEMMA PreviousKeeps ==
  ASSUME TrapTypeOK, NEW h, HartInv(h), ~h.wfi, WritePrevious(h)
  PROVE  TrapInv'
<1>1. CASE \E mpp \in {U, S, 2} : /\ hart' = [h EXCEPT !.MPP = Legal(mpp), !.phase = "FETCH"]
                                  /\ frames' = Touched("M") /\ UNCHANGED <<timer, wanted>>
  <2>1. TrapTypeOK' /\ frames'.M = {} /\ frames'.S = frames.S
    BY <1>1 DEF Touched, TrapTypeOK, FrameSets
  <2> QED
    BY <1>1, <2>1 DEF Legal, TrapInv, HartInv, Stacked, Asked, Sleeps, CpuState, Phases
<1>2. CASE \E spp \in {U, S} : /\ hart' = [h EXCEPT !.SPP = spp, !.phase = "FETCH"]
                               /\ frames' = Touched("S") /\ UNCHANGED <<timer, wanted>>
  <2>1. TrapTypeOK' /\ frames'.S = {} /\ frames'.M = frames.M
    BY <1>2 DEF Touched, TrapTypeOK, FrameSets
  <2> QED
    BY <1>2, <2>1 DEF TrapInv, HartInv, Stacked, Asked, Sleeps, CpuState, Phases
<1> QED BY <1>1, <1>2 DEF WritePrevious

LEMMA InstallKeeps ==
  ASSUME TrapTypeOK, NEW h, HartInv(h), ~h.wfi, Install(h)
  PROVE  TrapInv'
<1>1. PICK s \in Setups :
        Became([h EXCEPT !.mideleg = s.mideleg \cap Supervisor,
                         !.medeleg = s.medeleg \cap Exceptions,
                         !.mtvec = s.mtvec, !.phase = "FETCH"])
  BY DEF Install
<1>2. /\ s.mideleg \cap Supervisor \subseteq Interrupts
      /\ s.medeleg \cap Exceptions \subseteq Exceptions /\ s.mtvec \in BOOLEAN
  BY DEF Supervisor, Interrupts
<1>3. hart' \in CpuState
  BY <1>1, <1>2 DEF Became, HartInv, CpuState, Phases
<1>4. /\ hart'.mip = h.mip /\ hart'.mip_sw = h.mip_sw /\ hart'.mie = h.mie
      /\ hart'.wfi = h.wfi
      /\ hart'.MPP = h.MPP /\ hart'.MPIE = h.MPIE /\ hart'.SPP = h.SPP
      /\ hart'.SPIE = h.SPIE
      /\ hart'.MPRV = h.MPRV /\ hart'.priv = h.priv
  BY <1>1 DEF Became, HartInv, CpuState
<1> QED
  BY <1>1, <1>3, <1>4 DEF Became, TrapInv, TrapTypeOK, HartInv, Stacked, Asked, Sleeps

LEMMA ExecuteKeeps ==
  ASSUME TrapTypeOK, NEW h, HartInv(h), ~h.wfi, DoExecute(h)
  PROVE  TrapInv'
BY TrapKeeps, GotoKeeps, EcallKeeps, ReturnsKeep, WfiKeeps, MaskKeeps, StatusKeeps,
       PreviousKeeps, InstallKeeps
   DEF DoExecute, Instruction, Plain, Faulting, Phases

\* The edge gathers what is raised.
LEMMA SeenGood ==
  ASSUME TrapInv, NEW w \in Wires
  PROVE  HartInv(Woken(Merged(hart, w, timer)))
<1> DEFINE g == Merged(hart, w, timer)
<1>1. g \in CpuState
  BY MergedType DEF TrapInv, HartInv
<1>2. g = [hart EXCEPT !.mip = g.mip]
  BY DEF Merged, TrapInv, HartInv, CpuState
<1>3. wanted \subseteq g.mip
  BY DEF Merged, TrapInv, HartInv, CpuState, Asked, Writable, External
<1> HIDE DEF g
<1>4. Woken(g) \in CpuState
  <2>1. CASE Wakes(g)
    <3>1. Woken(g) = [g EXCEPT !.wfi = FALSE, !.phase = "FETCH"]
      BY <2>1 DEF Woken
    <3> QED BY <1>1, <3>1 DEF CpuState, Phases
  <2> QED BY <1>1, <2>1 DEF Woken
<1>5. Woken(g) = [hart EXCEPT !.mip = g.mip, !.wfi = Woken(g).wfi, !.phase = Woken(g).phase]
  BY <1>1, <1>2 DEF Woken, TrapInv, HartInv, CpuState
<1>6. Sleeps(Woken(g))
  BY <1>1, <1>2 DEF Woken, Wakes, Sleeps, TrapInv, HartInv, CpuState
<1>7. Stacked(Woken(g)) /\ Asked(Woken(g))
  BY <1>3, <1>5 DEF Stacked, Asked, TrapInv, HartInv, CpuState
<1> QED
  BY <1>4, <1>6, <1>7 DEF HartInv, g

LEMMA EdgeKeeps ==
  ASSUME TrapInv, NEW w \in Wires, Edge(w)
  PROVE  TrapInv'
<1>1. CASE Became(hart)
  BY <1>1 DEF Became, TrapInv, TrapTypeOK, HartInv, Stacked, Asked, Sleeps
<1>2. ASSUME NEW h, h = Woken(Merged(hart, w, timer)),
             FetchPhase(h) \/ WaitPhase(h) \/ ExecutePhase(h) \/ MemPhase(h) \/ HaltedPhase(h)
      PROVE  TrapInv'
  <2>1. TrapTypeOK /\ HartInv(h)
    BY <1>2, SeenGood DEF TrapInv
  <2>2. h.phase # "HALTED" => ~h.wfi
    BY <2>1 DEF HartInv, Sleeps, CpuState
  <2>3. CASE FetchPhase(h)
    BY <2>1, <2>2, <2>3, TrapKeeps, GotoKeeps, ExecuteKeeps DEF FetchPhase, Phases
  <2>4. CASE WaitPhase(h)
    BY <2>1, <2>2, <2>4, TrapKeeps, GotoKeeps DEF WaitPhase, Phases
  <2>5. CASE ExecutePhase(h)
    BY <2>1, <2>2, <2>5, ExecuteKeeps DEF ExecutePhase
  <2>6. CASE MemPhase(h)
    BY <2>1, <2>2, <2>6, GotoKeeps DEF MemPhase, Phases
  <2>7. CASE HaltedPhase(h)
    BY <2>1, <2>7 DEF HaltedPhase, Became, TrapInv, TrapTypeOK, HartInv, Stacked, Asked,
           Sleeps
  <2> QED BY <1>2, <2>3, <2>4, <2>5, <2>6, <2>7
<1> QED BY <1>1, <1>2 DEF Edge

LEMMA TrapStep == TrapInv /\ [TrapNext]_trapVars => TrapInv'
<1> SUFFICES ASSUME TrapInv, [TrapNext]_trapVars PROVE TrapInv'
  OBVIOUS
<1>1. CASE \E w \in Wires : Edge(w)
  BY <1>1, EdgeKeeps
<1>2. CASE TimerPasses \/ UNCHANGED trapVars
  BY <1>2 DEF TimerPasses, trapVars, TrapInv, TrapTypeOK, HartInv, Stacked, Asked, Sleeps
<1>3. CASE Reset
  BY <1>3, TrapInitInv, ResetGood DEF Reset, TrapInv, TrapTypeOK, HartInv, Stacked, Asked,
         Sleeps, ResetState, NoFrame, FrameSets
<1> QED BY <1>1, <1>2, <1>3 DEF TrapNext

LEMMA SeenIsCurrent == TrapInv => InterruptsAreSeen
<1> SUFFICES ASSUME TrapInv PROVE PendingIsCurrent /\ SleepsIdle
  BY DEF InterruptsAreSeen
<1> USE DEF TrapInv, HartInv
<1>1. SleepsIdle
  BY DEF SleepsIdle, Sleeps
<1>2. ASSUME NEW w \in Wires PROVE
    LET shown == Merged(hart, w, timer).mip
        supervisorTimer == "STI" \in hart.mideleg /\ ("MTI" \in w \/ timer = "due")
    IN  /\ shown \cap {"MEI", "MTI", "MSI"} = w \ {"SEI"}
        /\ "SEI" \in shown <=> "SEI" \in w \cup wanted
        /\ "STI" \in shown <=> ("STI" \in wanted \/ supervisorTimer)
  <2> DEFINE ext == IF w = {} /\ hart.mip \cap External = {} THEN hart.mip
             ELSE (hart.mip \ External) \cup w \cup (hart.mip_sw \cap {"SEI"})
      mirror == IF "STI" \in hart.mideleg /\ ("MTI" \in w \/ timer = "due")
                THEN ext \cup {"STI"} ELSE ext \ {"STI"}
  <2>1. Merged(hart, w, timer).mip = mirror \cup (hart.mip_sw \cap {"STI"})
    BY DEF Merged, CpuState
  <2>2. ext \cap {"MEI", "MTI", "MSI"} = w \ {"SEI"} /\ ("SEI" \in ext <=> "SEI" \in w \cup wanted)
    BY DEF External, Asked, Writable
  <2> HIDE DEF ext
  <2> QED BY <2>1, <2>2 DEF Asked
<1> QED BY <1>1, <1>2 DEF PendingIsCurrent

LEMMA ReturnsRight == TrapInv => HandlersReturn
BY DEF TrapInv, HartInv, Stacked, CpuState, HandlersReturn, Mret, Sret

LEMMA TrapInvariant == TrapSpec => []TrapInv
BY TrapInitInv, TrapStep, PTL DEF TrapSpec

\* The hart sees exactly the interrupts somebody raises, and sleeps through none.
THEOREM InterruptSafety == TrapSpec => []InterruptsAreSeen
BY TrapInvariant, SeenIsCurrent, PTL

\* A handler that returns restores what its trap interrupted, and MPRV never
\* outlives M mode.
THEOREM ReturnSafety == TrapSpec => []HandlersReturn
BY TrapInvariant, ReturnsRight, PTL

-----------------------------------------------------------------------------
(* The network back end, whatever libslirp does in its calls. *)

Timer == [expired : BOOLEAN, fired : BOOLEAN, gen : Nat]
BackendTypes ==
    /\ DOMAIN timers \subseteq Addresses /\ timers \in [DOMAIN timers -> Timer]
    /\ gens \in Nat

\* The strengthening: a timer keeps its mark only while it is due; a callback
\* runs only in the part of the loop that calls timers; a card without a back
\* end has no thread, and none has one while it makes another; and what the
\* rings hold was made in this run.
MarkedIsDue == \A a \in Live : timers[a].fired => timers[a].expired
CallsInTurn == calling # NoTimer => worker = "call"
OneThread == (~ctx => worker = "none") /\ (host = "creating" => ~ctx)
RingsOfRun == txRing \in Seq({run}) /\ rxRing \in Seq({run})

TimersInv == MarkedIsDue /\ CallsInTurn /\ CallsAreDue
BackendInv == BackendTypes /\ TimersInv /\ OneThread /\ RingsOfRun

-----------------------------------------------------------------------------
\* Whatever libslirp does in a call, the timers stay marked only while they are
\* due and the guest gets packets of this run.
LEMMA LibslirpKeeps ==
    ASSUME BackendTypes, MarkedIsDue, rxRing \in Seq({run}), LibslirpActs, run' = run
    PROVE  BackendTypes' /\ MarkedIsDue' /\ rxRing' \in Seq({run})
<1>1. CASE Nothing
    BY <1>1 DEF Nothing, BackendTypes, MarkedIsDue, Live
<1>2. CASE Deliver
    BY <1>2 DEF Deliver, BackendTypes, MarkedIsDue, Live
<1>3. ASSUME NEW a \in Addresses, NewTimer(a)
      PROVE  BackendTypes' /\ MarkedIsDue' /\ rxRing' \in Seq({run})
    BY <1>3 DEF NewTimer, BackendTypes, MarkedIsDue, Live, Timer
<1>4. ASSUME NEW a \in Addresses, FreeTimer(a)
      PROVE  BackendTypes' /\ MarkedIsDue' /\ rxRing' \in Seq({run})
    BY <1>4 DEF FreeTimer, BackendTypes, MarkedIsDue, Live, Timer
<1>5. ASSUME NEW a \in Addresses, NEW past \in BOOLEAN, SetTimer(a, past)
      PROVE  BackendTypes' /\ MarkedIsDue' /\ rxRing' \in Seq({run})
    BY <1>5 DEF SetTimer, BackendTypes, MarkedIsDue, Live, Timer
<1> QED
    BY <1>1, <1>2, <1>3, <1>4, <1>5 DEF LibslirpActs

LEMMA BackendInit == SlirpInit => BackendInv
BY DEF SlirpInit, BackendInv, BackendTypes, TimersInv, MarkedIsDue, CallsInTurn, CallsAreDue, OneThread,
       RingsOfRun, Live, Timer

\* The calls of the simulation's thread, on the card.
LEMMA BackendHost == BackendInv /\ Host => BackendInv'
<1> SUFFICES ASSUME BackendInv, Host PROVE BackendInv'
    OBVIOUS
<1> USE DEF BackendInv, BackendTypes, TimersInv, MarkedIsDue, CallsInTurn, CallsAreDue, OneThread,
            RingsOfRun, Live
<1>1. ASSUME NEW call \in {"init", "deinit"}, BeginDestroy(call) PROVE BackendInv'
    BY <1>1 DEF BeginDestroy, loop
<1>2. CASE BeginInit \/ DeinitWithout
    BY <1>2 DEF BeginInit, DeinitWithout, loop, backend
<1>3. ASSUME NEW works \in BOOLEAN, Create(works) PROVE BackendInv'
    BY <1>3 DEF Create
<1>4. CASE Destroyed
    BY <1>4 DEF Destroyed, Joins
<1>5. CASE Send
    BY <1>5 DEF Send, loop
<1>6. CASE Receive
    BY <1>6 DEF Receive, card, backend, loop
<1> QED
    BY <1>1, <1>2, <1>3, <1>4, <1>5, <1>6 DEF Host

\* A round of the back end's thread.
LEMMA WorkerKeeps == BackendInv /\ WorkerRuns => BackendInv'
<1> SUFFICES ASSUME BackendInv, WorkerRuns PROVE BackendInv'
    OBVIOUS
<1> USE DEF BackendInv, TimersInv, OneThread, RingsOfRun, card, Goes
<1>1. CASE Top \/ CollectSockets \/ Wait
    BY <1>1 DEF Top, CollectSockets, Wait, backend, BackendTypes, MarkedIsDue, CallsInTurn,
                CallsAreDue, Live
<1>2. CASE PopPacket
  <2>1. BackendTypes' /\ MarkedIsDue' /\ rxRing' \in Seq({run})
      BY <1>2, LibslirpKeeps DEF PopPacket
  <2>2. calling' = NoTimer
      BY <1>2 DEF PopPacket, CallsInTurn
  <2> QED
      BY <1>2, <2>1, <2>2 DEF PopPacket, CallsInTurn, CallsAreDue
<1>3. CASE CollectDue
    BY SMTT(30), <1>3 DEF CollectDue, IsDue, BackendTypes, MarkedIsDue, CallsInTurn, CallsAreDue, Live, Timer
<1>4. CASE CallTimer
    BY <1>4 DEF CallTimer, StillDue, backend, BackendTypes, MarkedIsDue, CallsInTurn, CallsAreDue, Live
<1>5. CASE TimerActs
  <2>1. BackendTypes' /\ MarkedIsDue' /\ rxRing' \in Seq({run})
      BY <1>5, LibslirpKeeps DEF TimerActs
  <2> QED
      BY <1>5, <2>1 DEF TimerActs, CallsInTurn, CallsAreDue
<1>6. CASE Drain
    BY <1>6 DEF Drain, BackendTypes, MarkedIsDue, CallsInTurn, CallsAreDue, Live
<1>7. CASE Look
  <2>1. BackendTypes' /\ MarkedIsDue' /\ rxRing' \in Seq({run})
      BY <1>7, LibslirpKeeps DEF Look
  <2>2. calling' = NoTimer
      BY <1>7 DEF Look, CallsInTurn
  <2> QED
      BY <1>7, <2>1, <2>2 DEF Look, CallsInTurn, CallsAreDue
<1> QED
    BY <1>1, <1>2, <1>3, <1>4, <1>5, <1>6, <1>7 DEF WorkerRuns

\* The thread ends short of memory, or time passes.
LEMMA BackendRest ==
    ASSUME BackendInv, Escape \/ \E a \in Addresses : Expire(a)
    PROVE  BackendInv'
<1> USE DEF BackendInv, TimersInv, OneThread, RingsOfRun, card, Goes
<1>1. CASE Escape
    BY <1>1 DEF Escape, backend, BackendTypes, MarkedIsDue, CallsInTurn, CallsAreDue, Live
<1>2. ASSUME NEW a \in Addresses, Expire(a) PROVE BackendInv'
  <2>1. BackendTypes' /\ MarkedIsDue'
    <3>1. /\ DOMAIN timers' = DOMAIN timers /\ timers[a] \in Timer
          /\ timers' = [timers EXCEPT ![a] = [timers[a] EXCEPT !.expired = TRUE]]
      BY <1>2 DEF Expire, Live, BackendTypes
    <3>2. /\ timers'[a] = [timers[a] EXCEPT !.expired = TRUE]
          /\ \A b \in DOMAIN timers : b # a => timers'[b] = timers[b]
      BY <1>2, <3>1 DEF Expire, Live
    <3>3. timers'[a] \in Timer /\ timers'[a].expired
      BY ZenonT(30), <3>1, <3>2 DEF Timer
    <3>4. timers' \in [DOMAIN timers -> Timer] /\ gens' = gens
      BY <1>2, <3>1, <3>2, <3>3 DEF Expire, BackendTypes
    <3> QED
      BY <3>1, <3>2, <3>3, <3>4 DEF BackendTypes, MarkedIsDue, Live
  <2>2. CallsInTurn'
    BY <1>2 DEF Expire, loop, CallsInTurn
  <2>3. CallsAreDue'
    BY <1>2 DEF Expire, loop, BackendTypes, CallsAreDue, Live, Timer
  <2> QED
    BY <1>2, <2>1, <2>2, <2>3 DEF Expire, loop
<1> QED
    BY <1>1, <1>2

LEMMA BackendStutter == BackendInv /\ UNCHANGED slirpVars => BackendInv'
BY DEF BackendInv, BackendTypes, TimersInv, MarkedIsDue, CallsInTurn, CallsAreDue, OneThread,
       RingsOfRun, Live, slirpVars, card, backend, loop

LEMMA BackendStep == BackendInv /\ [SlirpNext]_slirpVars => BackendInv'
BY BackendHost, WorkerKeeps, BackendRest, BackendStutter DEF SlirpNext

LEMMA BackendInvIsSafe == BackendInv => BackendIsSafe
BY DEF BackendInv, TimersInv, OneThread, RingsOfRun, BackendIsSafe, RunsAreApart, Alive, Range

\* Every callback is called for the timer found due, and no packet or thread of an
\* earlier run is left.
THEOREM BackendSafety == SlirpSpec => []BackendIsSafe
<1>1. SlirpSpec => []BackendInv
    BY BackendInit, BackendStep, PTL DEF SlirpSpec
<1> QED
    BY <1>1, BackendInvIsSafe, PTL

-----------------------------------------------------------------------------
(* Both caches: the CPU, and a memory that answers what it is shown once.    *)

Places == 0..(LineWords - 1)
MemAddrs == {x[1] : x \in Addrs} \X Places
CpuRequests == Reads \cup CpuWrites

\* The memory has done what the request l asks for, and nothing since.
Done(l) ==
    /\ l.op = "rd" => ram.dat = dram[l.a]
    /\ l.op = "wr" => \A b \in l.sel : dram[l.a][b] = l.v[b]

\* What the CPU asks for is among what it may be given.
AskedFor ==
    /\ cpu \in {Idle} \cup CpuRequests
    /\ dram \in [MemAddrs -> Word]
    /\ Active(cpu) => dram[cpu.a] \in seen

\* A write has been made at some time since the CPU asked for it, and a read is
\* answered with a word of that time.
Right(dat) ==
    IF cpu.op = "rd" THEN dat \in seen
    ELSE \E x \in seen : \A b \in cpu.sel : x[b] = cpu.v[b]

-----------------------------------------------------------------------------
(* WishboneDcache *)

DcState ==
    [tag : Nat, v : SUBSET Places, data : [Places -> Word], busy : {"no", "fill", "write"},
     req : {Idle} \cup CpuRequests, rsp : BOOLEAN, done : BOOLEAN, rdat : Word,
     snprev : BOOLEAN, abort : BOOLEAN, hold : BOOLEAN, own : Addrs \cup {Nil}]
DcTypes ==
    /\ c \in DcState
    /\ bus \in [holder : {Nil, "cache", "other"}, last : {Nil, "cache", "other"}, gap : BOOLEAN,
                line : {Idle} \cup CpuRequests \cup ForeignWrites]
    /\ other \in {Idle} \cup ForeignWrites

\* What the memory is shown is the holder's request until the holder drops it.
PortInv ==
    /\ bus.holder # Nil => bus.last = bus.holder
    /\ bus.holder = Nil \/ bus.gap <=> ~Active(bus.line)
    /\ bus.holder = "cache" /\ Active(bus.line) => DcRequest \in {Idle, bus.line}
    /\ bus.holder = "other" /\ Active(bus.line) => other \in {Idle, bus.line}
    /\ ram.ack = Active(bus.line) /\ ram.prev = Active(bus.line) /\ c.snprev = Active(bus.line)
    /\ Active(bus.line) => Done(bus.line)

\* A machine s works for the request q that the CPU holds, and remembers the
\* address of a write until the CPU has been told of its end.
WorksFor(s, q) ==
    /\ s.busy # "no" => /\ s.req = q /\ Active(q) /\ q.a \in Cacheable
                        /\ ~s.rsp /\ ~s.hold
                        /\ s.busy = "fill" <=> q.op = "rd"
    /\ s.busy = "fill" => ~(s.tag = q.a[1] /\ q.a[2] \in s.v)
    /\ s.busy = "write" => s.own = q.a
    /\ s.own # Nil => s.busy = "write" \/ s.rsp
MachineInv ==
    /\ WorksFor(c, cpu)
    /\ c.rsp /\ Active(cpu) => cpu.a \in Cacheable /\ Right(c.rdat)
    /\ cpuFirst /\ c.rsp => Active(cpu)

\* A valid word is what the memory mm has there, with the write on its way.
Coming(s, mm, a) ==
    IF s.busy = "write" /\ s.req.a = a THEN Merge(mm[a], s.req.v, s.req.sel) ELSE mm[a]
ValidWords(s, mm) == \A w \in s.v : /\ <<s.tag, w>> \in Cacheable
                               /\ s.data[w] = Coming(s, mm, <<s.tag, w>>)

DcInv == AskedFor /\ DcTypes /\ PortInv /\ MachineInv /\ ValidWords(c, dram)

-----------------------------------------------------------------------------
(* WishboneCache *)

\* A fill reads every word of its line.
LineReads == {[op |-> "rd", a |-> a] : a \in MemAddrs}
WcState ==
    [valid : BOOLEAN, tag : Nat, data : [Places -> Word], st : {"idle", "ask", "wait"},
     req : {Idle} \cup CpuRequests, ftag : Nat, word : Places, we : {"no", "sent"},
     low : BOOLEAN, held : BOOLEAN, latched : Word, prev : BOOLEAN,
     dn : {Idle} \cup LineReads \cup CpuWrites]
WcTypes == c \in WcState /\ up \in [ack : BOOLEAN, dat : Word]

\* What the machine s asks the memory for, and what the memory has been given.
Asking(s) ==
    /\ Active(s.dn) <=> s.st = "wait" \/ s.we = "sent"
    /\ s.st = "wait" => s.dn = [op |-> "rd", a |-> <<s.ftag, s.word>>]
    /\ s.we = "sent" => s.dn = s.req /\ s.req \in CpuWrites /\ s.st = "idle"
    /\ s.st # "idle" => s.req \in Reads /\ s.ftag = s.req.a[1]
DownInv == Asking(c) /\ ram.prev \in BOOLEAN /\ ram.ack = ram.prev /\ (ram.prev => Active(c.dn) /\ Done(c.dn))

\* A fill that has not been taken back is for the read the CPU holds; a write
\* is never taken back.
ForInv ==
    /\ c.low => c.st # "idle"
    /\ c.st # "idle" /\ ~c.low => cpu = c.req \/ (cpu = Idle /\ ~cpuFirst)
    /\ c.we = "sent" => cpu = c.req
    /\ cpuFirst => /\ c.we = "sent" => ~up.ack
                   /\ c.held => Active(cpu) /\ up.ack
                   /\ Active(cpu) /\ up.ack => Right(up.dat)
    /\ ~cpuFirst => (c.held => ~Active(cpu))

\* The words filled so far, and the whole of a valid line, are the memory's,
\* with the write on its way.
Sent(s, mm, a) == IF s.we = "sent" /\ s.req.a = a THEN Merge(mm[a], s.req.v, s.req.sel) ELSE mm[a]
LineIsSound(s, mm) ==
    /\ s.st # "idle" => \A w \in Places : w < s.word => s.data[w] = mm[<<s.ftag, w>>]
    /\ s.st = "idle" /\ s.valid => /\ s.tag \in {x[1] : x \in Addrs}
                                   /\ \A w \in Places : s.data[w] = Sent(s, mm, <<s.tag, w>>)

WcInv == AskedFor /\ WcTypes /\ DownInv /\ ForInv /\ LineIsSound(c, dram)
CacheInv == IF kind = "dcache" THEN DcInv ELSE kind = "cache" /\ WcInv

-----------------------------------------------------------------------------
(* Requests, words and the memory. *)

LEMMA CpuFields ==
    ASSUME NEW q \in CpuRequests
    PROVE  /\ q.op \in {"rd", "wr"} /\ Active(q) /\ q.a \in Addrs
           /\ q.op = "wr" => /\ q.sel \in SUBSET Lanes /\ q.v \in Word
                             /\ \E w \in Writes : w.a = q.a /\ w.sel = q.sel
<1>1. CASE q \in Reads
  BY <1>1, NilAssumption DEF Reads, Active, Idle
<1>2. CASE q \in CpuWrites
  <2>1. PICK w \in Writes, v \in Word : q = [op |-> "wr", a |-> w.a, sel |-> w.sel, v |-> v]
    BY <1>2 DEF CpuWrites
  <2>2. w.a \in Addrs /\ w.sel \in SUBSET Lanes
    BY WritesAssumption
  <2>3. q # Idle
    BY <2>1, NilAssumption DEF Idle
  <2> QED
    BY <2>1, <2>2, <2>3 DEF Active
<1> QED
  BY <1>1, <1>2 DEF CpuRequests

LEMMA ForeignFields ==
    ASSUME NEW q \in ForeignWrites
    PROVE  /\ q.op = "wr" /\ Active(q) /\ q.a \in Addrs /\ q.a \in Foreign
           /\ q.sel = Lanes /\ q.v \in Word
BY NilAssumption, AddrAssumption DEF ForeignWrites, Active, Idle

LEMMA AddrFields ==
    ASSUME NEW a \in Addrs
    PROVE  a = <<a[1], a[2]>> /\ a[1] \in Nat /\ a[2] \in Places /\ a \in MemAddrs
BY AddrAssumption DEF MemAddrs, Places

LEMMA IdleFields == ~Active(Idle) /\ Idle.op \notin {"rd", "wr"}
BY NilAssumption DEF Active, Idle

LEMMA MergeType ==
    ASSUME NEW old \in Word, NEW new \in Word, NEW sel PROVE Merge(old, new, sel) \in Word
BY DEF Merge, Word

\* To write twice is to write once; to write what is there changes nothing, and
\* a whole word is what is written.
LEMMA MergeFacts ==
    ASSUME NEW old, NEW new, NEW sel
    PROVE  /\ Merge(Merge(old, new, sel), new, sel) = Merge(old, new, sel)
           /\ \A b \in sel \cap Lanes : Merge(old, new, sel)[b] = new[b]
           /\ old \in Word /\ (\A b \in sel : old[b] = new[b]) => Merge(old, new, sel) = old
           /\ new \in Word => Merge(old, new, Lanes) = new
<1>1. Merge(Merge(old, new, sel), new, sel) = Merge(old, new, sel)
  BY DEF Merge
<1>2. \A b \in sel \cap Lanes : Merge(old, new, sel)[b] = new[b]
  BY DEF Merge
<1>3. ASSUME old \in Word, \A b \in sel : old[b] = new[b] PROVE Merge(old, new, sel) = old
  BY <1>3 DEF Merge, Word
<1>4. ASSUME new \in Word PROVE Merge(old, new, Lanes) = new
  BY <1>4 DEF Merge, Word
<1> QED
  BY <1>1, <1>2, <1>3, <1>4

\* The memory takes a request when it goes up, and then keeps to it.
LEMMA ServeStep ==
    ASSUME dram \in [MemAddrs -> Word], NEW l \in {Idle} \cup LineReads \cup CpuRequests \cup ForeignWrites,
           Serve(l), ram.prev \in BOOLEAN, ram.prev /\ Active(l) => Done(l)
    PROVE  /\ dram' \in [MemAddrs -> Word]
           /\ ram'.ack = Active(l) /\ ram'.prev = Active(l)
           /\ Active(l) => Done(l)'
           /\ ram.prev \/ ~Active(l) \/ l.op = "rd" => dram' = dram
           /\ Active(l) /\ ~ram.prev /\ l.op = "wr" =>
                dram' = [dram EXCEPT ![l.a] = Merge(@, l.v, l.sel)]
<1> DEFINE rise == Active(l) /\ ~ram.prev
<1>1. /\ ram' = [prev |-> Active(l), ack |-> Active(l),
                 dat |-> IF rise /\ l.op = "rd" THEN dram[l.a] ELSE ram.dat]
      /\ dram' = IF rise /\ l.op = "wr" THEN [dram EXCEPT ![l.a] = Merge(@, l.v, l.sel)] ELSE dram
  BY DEF Serve
<1>2. ram'.ack = Active(l) /\ ram'.prev = Active(l)
      /\ ram'.dat = IF rise /\ l.op = "rd" THEN dram[l.a] ELSE ram.dat
  BY <1>1 DEF Active
<1>3. ASSUME Active(l)
      PROVE  /\ l.op \in {"rd", "wr"} /\ l.a \in MemAddrs
             /\ l.op = "wr" => l.sel \in SUBSET Lanes /\ l.v \in Word
  <2>1. CASE l \in LineReads
    BY <2>1 DEF LineReads
  <2> QED
    BY <1>3, <2>1, CpuFields, ForeignFields, AddrFields, IdleFields
<1>4. CASE rise /\ l.op = "wr"
  <2>1. dram[l.a] \in Word /\ l.a \in MemAddrs /\ l.v \in Word /\ l.sel \in SUBSET Lanes
    BY <1>3, <1>4
  <2>2. dram' = [dram EXCEPT ![l.a] = Merge(dram[l.a], l.v, l.sel)]
    BY <1>1, <1>4
  <2>3. dram' \in [MemAddrs -> Word] /\ dram'[l.a] = Merge(dram[l.a], l.v, l.sel)
    BY <2>1, <2>2, MergeType
  <2>4. Done(l)'
    BY <1>4, <2>1, <2>3, MergeFacts DEF Done
  <2> QED
    BY <1>2, <1>4, <2>2, <2>3, <2>4
<1>5. CASE ~(rise /\ l.op = "wr")
  <2>1. dram' = dram
    BY <1>1, <1>5
  <2>2. Active(l) => Done(l)'
    BY <1>2, <1>3, <1>5, <2>1 DEF Done
  <2> QED
    BY <1>2, <1>5, <2>1, <2>2
<1> QED
  BY <1>4, <1>5

-----------------------------------------------------------------------------
(* The interconnect. *)

BusState ==
    [holder : {Nil, "cache", "other"}, last : {Nil, "cache", "other"}, gap : BOOLEAN,
     line : {Idle} \cup CpuRequests \cup ForeignWrites]

\* What is on the memory's lines changes only by way of Idle, and it is the
\* request of the master that has them.
LEMMA TurnStep ==
    ASSUME bus \in BusState,
           bus.holder # Nil => bus.last = bus.holder,
           bus.holder = Nil \/ bus.gap <=> ~Active(bus.line),
           NEW m \in {Idle} \cup CpuRequests, NEW f \in {Idle} \cup ForeignWrites,
           bus.holder = "cache" /\ Active(bus.line) => m \in {Idle, bus.line},
           bus.holder = "other" /\ Active(bus.line) => f \in {Idle, bus.line},
           NEW b \in BusTurn(m, f)
    PROVE  /\ b \in BusState
           /\ b.holder # Nil => b.last = b.holder
           /\ b.holder = Nil \/ b.gap <=> ~Active(b.line)
           /\ Active(b.line) => /\ b.holder = "cache" => b.line = m
                                /\ b.holder = "other" => b.line = f
           /\ Active(b.line) /\ Active(bus.line) => b.line = bus.line
           /\ bus.holder = "cache" /\ Active(bus.line) /\ Active(m) =>
                b.line = bus.line
<1> DEFINE wants == (IF Active(m) THEN {"cache"} ELSE {}) \cup (IF Active(f) THEN {"other"} ELSE {})
           holders == IF bus.holder \in wants THEN {bus.holder} ELSE IF wants = {} THEN {Nil} ELSE wants
           Next1(h) == [holder |-> h,
                        last   |-> IF h = Nil THEN bus.last ELSE h,
                        gap    |-> h \notin {Nil, bus.holder, bus.last} /\ bus.last # Nil,
                        line   |-> IF h = Nil \/ (h # bus.holder /\ bus.last \notin {Nil, h}) THEN Idle
                                   ELSE IF h = "cache" THEN m ELSE f]
<1>1. PICK h \in holders : b = Next1(h)
  BY DEF BusTurn
<1>2. /\ h = Nil \/ h \in wants
      /\ h \in {Nil, "cache", "other"}
      /\ h = "cache" => Active(m)
      /\ h = "other" => Active(f)
      /\ bus.holder \in wants => h = bus.holder
  BY NilAssumption
<1> DEFINE g == h \notin {Nil, bus.holder, bus.last} /\ bus.last # Nil
<1>3. g \in BOOLEAN
  OBVIOUS
<1>4. /\ b.holder = h /\ b.last = (IF h = Nil THEN bus.last ELSE h) /\ b.gap = g
      /\ b.line = (IF h = Nil \/ (h # bus.holder /\ bus.last \notin {Nil, h}) THEN Idle
                   ELSE IF h = "cache" THEN m ELSE f)
  BY <1>1
<1>5. b \in BusState
  <2>1. b.line \in {Idle} \cup CpuRequests \cup ForeignWrites /\ b.last \in {Nil, "cache", "other"}
    BY <1>2, <1>4 DEF BusState
  <2> HIDE DEF g
  <2>2. b = [holder |-> b.holder, last |-> b.last, gap |-> b.gap, line |-> b.line]
    BY <1>1, <1>4
  <2> QED
    BY <1>2, <1>3, <1>4, <2>1, <2>2 DEF BusState
<1>6. b.holder # Nil => b.last = b.holder
  BY <1>4
<1>7. b.holder = Nil \/ b.gap <=> ~Active(b.line)
  BY <1>2, <1>4, IdleFields, NilAssumption
<1>8. Active(b.line) => /\ b.holder = "cache" => b.line = m
                        /\ b.holder = "other" => b.line = f
  BY <1>4, IdleFields, NilAssumption
<1>9. Active(b.line) /\ Active(bus.line) => b.line = bus.line
  BY <1>2, <1>4, IdleFields, NilAssumption DEF BusState
<1>10. bus.holder = "cache" /\ Active(bus.line) /\ Active(m) => b.line = bus.line
  BY <1>2, <1>4, IdleFields, NilAssumption
<1> QED
  BY <1>5, <1>6, <1>7, <1>8, <1>9, <1>10

-----------------------------------------------------------------------------
(* The WishboneDcache's machine, part by part. *)

\* What begins in a tick, for the CPU's request q.
LEMMA StartStep ==
    ASSUME NEW s \in DcState, NEW q \in {Idle} \cup CpuRequests, NEW m \in {Idle, q},
           NEW mm \in [MemAddrs -> Word], WorksFor(s, q), ValidWords(s, mm), ~s.hold,
           s.busy # "no" => m = q,
           s.busy = "no" /\ Active(m) => ~s.rsp,
           s.busy = "no" /\ Active(m) /\ m.a \in Cacheable /\ m.op = "rd" =>
               ~(s.tag = m.a[1] /\ m.a[2] \in s.v)
    PROVE  /\ DcStart(s, m) \in DcState
           /\ WorksFor(DcStart(s, m), q)
           /\ ValidWords(DcStart(s, m), mm)
           /\ DcStart(s, m).rsp = s.rsp /\ DcStart(s, m).hold = s.hold
           /\ DcStart(s, m).busy # "no" => m = q
           /\ Active(m) /\ m.a \in Cacheable => DcStart(s, m).busy # "no"
<1>1. CASE s.busy # "no" \/ ~Active(m) \/ m.a \notin Cacheable
  <2>1. DcStart(s, m) = s
    BY <1>1 DEF DcStart
  <2> QED
    BY <1>1, <2>1
<1>2. CASE ~(s.busy # "no" \/ ~Active(m) \/ m.a \notin Cacheable) /\ m.op = "rd"
  <2>1. DcStart(s, m) = [s EXCEPT !.busy = "fill", !.req = m, !.abort = FALSE]
    BY <1>2 DEF DcStart
  <2>2. PICK t : t = DcStart(s, m)
    OBVIOUS
  <2>7. m \in {Idle} \cup CpuRequests
    OBVIOUS
  <2>3. /\ t \in DcState /\ t.busy = "fill" /\ t.req = m /\ t.tag = s.tag /\ t.v = s.v
        /\ t.data = s.data /\ t.rsp = s.rsp /\ t.hold = s.hold /\ t.own = s.own
    BY <2>1, <2>2, <2>7 DEF DcState
  <2>4. m = q /\ ~s.rsp /\ s.own = Nil
    BY <1>2, IdleFields DEF WorksFor
  <2>5. WorksFor(t, q)
    BY <1>2, <2>3, <2>4 DEF WorksFor
  <2>6. ValidWords(t, mm)
    BY <1>2, <2>3 DEF ValidWords, Coming
  <2> QED
    BY <2>2, <2>3, <2>4, <2>5, <2>6
<1>3. CASE ~(s.busy # "no" \/ ~Active(m) \/ m.a \notin Cacheable) /\ m.op # "rd"
  <2> DEFINE here == s.tag = m.a[1]
             w == m.a[2]
             d == IF here THEN [s.data EXCEPT ![w] = Merge(@, m.v, m.sel)] ELSE s.data
             vv == IF here /\ m.sel = Lanes THEN s.v \cup {w} ELSE s.v
  <2>1. DcStart(s, m) = [s EXCEPT !.busy = "write", !.req = m, !.abort = FALSE, !.own = m.a,
                                  !.data = d, !.v = vv]
    BY <1>3 DEF DcStart
  <2>2. PICK t : t = DcStart(s, m)
    OBVIOUS
  <2>3. /\ m = q /\ ~s.rsp /\ m \in CpuRequests /\ m.op = "wr" /\ m.a \in Addrs /\ m.v \in Word
        /\ m.a = <<m.a[1], w>> /\ w \in Places
    BY <1>3, IdleFields, CpuFields, AddrFields
  <2>4. d \in [Places -> Word] /\ vv \subseteq Places
    BY <2>3, MergeType DEF DcState
  <2> HIDE DEF d, vv
  <2>5. /\ t \in DcState /\ t.busy = "write" /\ t.req = m /\ t.tag = s.tag /\ t.v = vv
        /\ t.data = d /\ t.rsp = s.rsp /\ t.hold = s.hold /\ t.own = m.a
    <3>1. m \in {Idle} \cup CpuRequests /\ m.a \in Addrs \cup {Nil}
      BY <2>3
    <3> QED
      BY <2>1, <2>2, <2>4, <3>1 DEF DcState
  <2>6. WorksFor(t, q)
    BY <1>3, <2>3, <2>5 DEF WorksFor
  <2>7. ValidWords(t, mm)
    <3> SUFFICES ASSUME NEW x \in t.v
                 PROVE  <<t.tag, x>> \in Cacheable /\ t.data[x] = Coming(t, mm, <<t.tag, x>>)
      BY DEF ValidWords
    <3>1. CASE here /\ x = w
      <4>1. <<t.tag, x>> = m.a /\ m.a \in Cacheable
        BY <1>3, <2>3, <2>5, <3>1
      <4>2. t.data[x] = Merge(s.data[w], m.v, m.sel)
        BY <2>3, <2>5, <3>1 DEF d, DcState
      <4>3. CASE w \in s.v
        <5>1. s.data[w] = mm[m.a]
          BY <1>3, <3>1, <4>1, <4>3, <2>5 DEF ValidWords, Coming
        <5> QED
          BY <2>5, <4>1, <4>2, <5>1 DEF Coming
      <4>4. CASE w \notin s.v
        <5>1. m.sel = Lanes
          BY <2>5, <3>1, <4>4 DEF vv
        <5> QED
          BY <2>3, <2>5, <4>1, <4>2, <5>1, MergeFacts DEF Coming
      <4> QED
        BY <4>3, <4>4
    <3>2. CASE ~(here /\ x = w)
      <4>1. x \in s.v /\ x \in Places /\ t.data[x] = s.data[x]
        BY <2>3, <2>5, <3>2 DEF d, vv, DcState
      <4>2. <<t.tag, x>> # m.a
        BY <2>3, <2>5, <3>2
      <4> QED
        BY <1>3, <2>5, <4>1, <4>2 DEF ValidWords, Coming
    <3> QED
      BY <3>1, <3>2
  <2> QED
    BY <2>2, <2>3, <2>5, <2>6, <2>7
<1> QED
  BY <1>1, <1>2, <1>3

\* What ends in a tick, with the memory's answer ret.
Answered(ret, q, mm) ==
    /\ q.op = "rd" => ret.dat = mm[q.a]
    /\ q.op = "wr" => \A b \in q.sel : mm[q.a][b] = q.v[b]

LEMMA FinishStep ==
    ASSUME NEW s \in DcState, NEW q \in {Idle} \cup CpuRequests, NEW m \in {Idle, q},
           NEW mm \in [MemAddrs -> Word], WorksFor(s, q), ValidWords(s, mm), ~s.hold,
           s.busy # "no" => m = q,
           s.busy = "no" /\ Active(m) => ~s.rsp,
           Active(m) /\ m.a \in Cacheable => s.busy # "no",
           NEW ret, ret.ack => Active(m) /\ Answered(ret, q, mm)
    PROVE  /\ DcFinish(s, m, ret) \in DcState
           /\ WorksFor(DcFinish(s, m, ret), q)
           /\ ValidWords(DcFinish(s, m, ret), mm)
           /\ DcFinish(s, m, ret).own # Nil /\ DcFinish(s, m, ret).busy # "write" => ret.ack
           /\ DcFinish(s, m, ret).own # Nil => Active(m)
           /\ DcFinish(s, m, ret).busy # "no" => s.busy # "no"
           /\ DcFinish(s, m, ret).rsp =>
                s.rsp \/ (Active(m) /\ m.a \in Cacheable /\ Answered([dat |-> DcFinish(s, m, ret).rdat], q, mm))
<1> DEFINE ends == Active(m) /\ m.a \in Cacheable /\ ret.ack /\ ~s.done
<1>1. CASE ~Active(m)
  <2>1. DcFinish(s, m, ret) = [s EXCEPT !.done = FALSE, !.own = Nil]
    BY <1>1 DEF DcFinish
  <2>2. PICK t : t = DcFinish(s, m, ret)
    OBVIOUS
  <2>3. /\ t \in DcState /\ t.busy = s.busy /\ t.req = s.req /\ t.tag = s.tag /\ t.v = s.v
        /\ t.data = s.data /\ t.rsp = s.rsp /\ t.hold = s.hold /\ t.own = Nil
    BY <2>1, <2>2 DEF DcState
  <2>4. s.busy = "no"
    BY <1>1 DEF WorksFor
  <2>5. WorksFor(t, q) /\ ValidWords(t, mm)
    BY <2>3, <2>4 DEF WorksFor, ValidWords, Coming
  <2> QED
    BY <2>2, <2>3, <2>4, <2>5
<1>2. CASE Active(m) /\ ~ends
  <2>1. DcFinish(s, m, ret) = s
    BY <1>2 DEF DcFinish
  <2>2. s.own # Nil => s.busy = "write"
    BY <1>2 DEF WorksFor
  <2> QED
    BY <1>2, <2>1, <2>2
<1>3. CASE ends /\ s.busy = "fill" /\ s.abort
  <2>1. DcFinish(s, m, ret) = [s EXCEPT !.abort = FALSE, !.hold = TRUE, !.busy = "no"]
    BY <1>3 DEF DcFinish
  <2>2. PICK t : t = DcFinish(s, m, ret)
    OBVIOUS
  <2>3. /\ t \in DcState /\ t.busy = "no" /\ t.req = s.req /\ t.tag = s.tag /\ t.v = s.v
        /\ t.data = s.data /\ t.rsp = s.rsp /\ t.own = s.own
    BY <2>1, <2>2 DEF DcState
  <2>4. s.own = Nil
    BY <1>3 DEF WorksFor
  <2>5. WorksFor(t, q) /\ ValidWords(t, mm)
    BY <1>3, <2>3, <2>4 DEF WorksFor, ValidWords, Coming
  <2> QED
    BY <1>3, <2>2, <2>3, <2>4, <2>5
<1>4. CASE ends /\ ~(s.busy = "fill" /\ s.abort)
  <2> DEFINE w == s.req.a[2]
             filled == s.busy = "fill"
             tag == IF filled THEN s.req.a[1] ELSE s.tag
             vv == IF ~filled THEN s.v ELSE IF s.tag = s.req.a[1] THEN s.v \cup {w} ELSE {w}
             d == IF filled THEN [s.data EXCEPT ![w] = ret.dat] ELSE s.data
             rdat == IF filled THEN ret.dat ELSE s.rdat
  <2>1. DcFinish(s, m, ret) = [s EXCEPT !.busy = "no", !.rsp = TRUE, !.done = TRUE,
                                 !.tag = tag, !.v = vv, !.data = d, !.rdat = rdat]
    BY <1>4 DEF DcFinish
  <2>2. /\ s.busy \in {"fill", "write"} /\ m = q /\ s.req = q /\ q \in CpuRequests /\ q.a \in Addrs
        /\ q.a = <<q.a[1], w>> /\ w \in Places /\ q.a[1] \in Nat /\ q.a \in MemAddrs
        /\ q.op \in {"rd", "wr"}
    BY <1>4, IdleFields, CpuFields, AddrFields DEF DcState, WorksFor
  <2>3. mm[q.a] \in Word
    BY <2>2
  <2>4. filled => q.op = "rd" /\ ret.dat = mm[q.a]
    BY <1>4, <2>2 DEF WorksFor, Answered
  <2>5. tag \in Nat /\ vv \subseteq Places /\ d \in [Places -> Word] /\ rdat \in Word
    BY <2>2, <2>3, <2>4 DEF DcState
  <2>6. Answered([dat |-> rdat], q, mm)
    BY <1>4, <2>2, <2>4 DEF Answered, WorksFor
  <2>7. \A x \in vv : <<tag, x>> \in Cacheable /\ d[x] = mm[<<tag, x>>]
    <3> SUFFICES ASSUME NEW x \in vv PROVE <<tag, x>> \in Cacheable /\ d[x] = mm[<<tag, x>>]
      OBVIOUS
    <3>1. CASE filled /\ x = w
      BY <1>4, <2>2, <2>4, <3>1 DEF DcState
    <3>2. CASE filled /\ x # w
      <4>1. x \in s.v /\ tag = s.tag /\ d[x] = s.data[x] /\ <<tag, x>> # q.a
        BY <2>2, <3>2 DEF DcState
      <4> QED
        BY <3>2, <4>1 DEF ValidWords, Coming
    <3>3. CASE ~filled
      <4>1. x \in s.v /\ tag = s.tag /\ d[x] = s.data[x] /\ q.op = "wr" /\ s.busy = "write"
        BY <2>2, <3>3 DEF WorksFor
      <4>2. Merge(mm[q.a], q.v, q.sel) = mm[q.a]
        BY <1>4, <2>3, <4>1, MergeFacts DEF Answered
      <4> QED
        BY <2>2, <4>1, <4>2 DEF ValidWords, Coming
    <3> QED
      BY <3>1, <3>2, <3>3
  <2> HIDE DEF tag, vv, d, rdat, w
  <2>8. PICK t : t = DcFinish(s, m, ret)
    OBVIOUS
  <2>9. /\ t \in DcState /\ t.busy = "no" /\ t.tag = tag /\ t.v = vv
        /\ t.data = d /\ t.rsp /\ t.own = s.own /\ t.rdat = rdat
    BY <2>1, <2>5, <2>8 DEF DcState
  <2>10. WorksFor(t, q) /\ ValidWords(t, mm)
    BY <2>7, <2>9 DEF WorksFor, ValidWords, Coming
  <2> QED
    BY <1>4, <2>2, <2>6, <2>8, <2>9, <2>10
<1> QED
  BY <1>1, <1>2, <1>3, <1>4

\* A write by another master to an address whose last write by the CPU is still
\* under way is taken for that write; it is harmless if the CPU writes whole words.
EchoIsWhole == \A w \in Writes : w.a \in Foreign \cap Cacheable => w.sel = Lanes

\* What the memory is shown to do in a tick.
Changes(l, mm, mm2) == l.op = "wr" /\ mm2 = [mm EXCEPT ![l.a] = Merge(mm[l.a], l.v, l.sel)]

LEMMA SnoopStep ==
    ASSUME EchoIsWhole, NEW s \in DcState, NEW q \in {Idle} \cup CpuRequests, WorksFor(s, q),
           NEW mm \in [MemAddrs -> Word], NEW mm2, ValidWords(s, mm),
           NEW l \in {Idle} \cup CpuRequests \cup ForeignWrites,
           \/ mm2 = mm
           \/ /\ Active(l) /\ ~s.snprev /\ Changes(l, mm, mm2)
              /\ l \in ForeignWrites \/ (l = q /\ (l.a \in Cacheable => s.busy = "write"))
              /\ s.own # Nil => s.busy = "write"
    PROVE  /\ DcSnoop(s, l) \in DcState
           /\ WorksFor(DcSnoop(s, l), q)
           /\ ValidWords(DcSnoop(s, l), mm2)
           /\ DcSnoop(s, l).busy = s.busy /\ DcSnoop(s, l).rsp = s.rsp
           /\ DcSnoop(s, l).own = s.own /\ DcSnoop(s, l).rdat = s.rdat
<1> DEFINE heard == Active(l) /\ ~s.snprev /\ l.op = "wr" /\ l.a \in Cacheable /\ s.own # l.a
<1>1. Active(l) => l.a \in Addrs /\ l.a \in MemAddrs
  BY CpuFields, ForeignFields, AddrFields, IdleFields
<1>2. \A x \in s.v : <<s.tag, x>> \in Cacheable /\ <<s.tag, x>> \in MemAddrs
  BY AddrFields, AddrAssumption DEF ValidWords
<1>3. CASE heard
  <2> DEFINE ab == s.abort \/ (s.busy = "fill" /\ s.req.a[1] = l.a[1])
             vv == IF s.tag = l.a[1] THEN {} ELSE s.v
  <2>1. DcSnoop(s, l) = [s EXCEPT !.abort = ab, !.v = vv]
    BY <1>3 DEF DcSnoop
  <2>2. ab \in BOOLEAN /\ vv \subseteq s.v
    BY DEF DcState
  <2>3. s.tag # l.a[1] => \A x \in s.v : mm2[<<s.tag, x>>] = mm[<<s.tag, x>>]
    BY <1>1, <1>2, <1>3 DEF Changes
  <2>4. ValidWords([s EXCEPT !.v = vv], mm2)
    BY <2>3 DEF ValidWords, Coming, DcState
  <2> HIDE DEF ab, vv
  <2>5. PICK t : t = DcSnoop(s, l)
    OBVIOUS
  <2>6. /\ t \in DcState /\ t.busy = s.busy /\ t.req = s.req /\ t.tag = s.tag /\ t.v = vv
        /\ t.data = s.data /\ t.rsp = s.rsp /\ t.hold = s.hold /\ t.own = s.own /\ t.rdat = s.rdat
    BY <2>1, <2>2, <2>5 DEF DcState
  <2>7. WorksFor(t, q)
    BY <2>2, <2>6 DEF WorksFor
  <2>8. ValidWords(t, mm2)
    BY <2>4, <2>6 DEF ValidWords, Coming, DcState
  <2> QED
    BY <2>5, <2>6, <2>7, <2>8
<1>4. CASE ~heard
  <2>1. DcSnoop(s, l) = s
    BY <1>4 DEF DcSnoop
  <2>2. ValidWords(s, mm2)
    <3>1. CASE mm2 = mm
      BY <3>1
    <3>2. CASE mm2 # mm /\ l.a \notin Cacheable
      BY <1>1, <1>2, <3>2 DEF Changes, ValidWords, Coming
    <3>3. CASE mm2 # mm /\ l.a \in Cacheable
      <4>1. /\ s.own = l.a /\ s.busy = "write" /\ s.req = q /\ q.a = l.a /\ q \in CpuRequests
            /\ q.op = "wr"
        BY <1>1, <1>4, <3>3, NilAssumption, IdleFields, CpuFields DEF Changes, WorksFor
      <4>2. q.v \in Word /\ \E w \in Writes : w.a = q.a /\ w.sel = q.sel
        BY <4>1, CpuFields
      <4>3. Merge(mm2[l.a], q.v, q.sel) = Merge(mm[l.a], q.v, q.sel)
        <5>1. CASE l = q
          BY <1>1, <3>3, <5>1, MergeFacts DEF Changes
        <5>2. CASE l \in ForeignWrites
          <6>1. q.sel = Lanes
            BY <3>3, <4>1, <4>2, <5>2, ForeignFields DEF EchoIsWhole
          <6> QED
            BY <4>2, <6>1, MergeFacts
        <5> QED
          BY <3>3, <5>1, <5>2
      <4>4. ASSUME NEW x \in s.v, <<s.tag, x>> # l.a PROVE mm2[<<s.tag, x>>] = mm[<<s.tag, x>>]
        BY <1>1, <1>2, <3>3, <4>4 DEF Changes
      <4> QED
        BY <4>1, <4>3, <4>4 DEF ValidWords, Coming
    <3> QED
      BY <3>1, <3>2, <3>3
  <2> QED
    BY <2>1, <2>2
<1> QED
  BY <1>3, <1>4

\* The memory's answer is to the request the CPU has at the port.
AnswerIsOwn(m, ret) ==
    /\ ret.ack \in BOOLEAN
    /\ ret.ack => /\ Active(m) /\ m = cpu /\ Answered(ret, cpu, dram)
                  /\ bus.holder = "cache" /\ Active(bus.line) /\ m = bus.line

LEMMA RequestIsOwn ==
    ASSUME DcInv, NEW m, m = DcRequest
    PROVE  /\ m \in {Idle, cpu} /\ m \in {Idle} \cup CpuRequests
           /\ c.busy # "no" => m = cpu
           /\ Active(m) => m = cpu /\ cpu \in CpuRequests
           /\ c.busy = "no" /\ Active(m) => ~c.rsp /\ ~c.hold
           /\ c.busy = "no" /\ Active(m) /\ m.a \in Cacheable /\ m.op = "rd" => ~Hit(m.a)
<1>1. m = IF c.busy # "no" THEN c.req
          ELSE IF Active(cpu) /\ ~c.rsp /\ ~c.hold
                  /\ ~(cpu.op = "rd" /\ cpu.a \in Cacheable /\ Hit(cpu.a)) THEN cpu ELSE Idle
  BY DEF DcRequest
<1>2. c.busy # "no" => c.req = cpu
  BY DEF DcInv, MachineInv, WorksFor
<1>3. cpu \in {Idle} \cup CpuRequests
  BY DEF DcInv, AskedFor
<1> QED
  BY <1>1, <1>2, <1>3, IdleFields

LEMMA MemoryAnswers ==
    ASSUME DcInv, NEW m, m = DcRequest, NEW ret, ret = MemoryAnswer
    PROVE  AnswerIsOwn(m, ret)
<1>1. ret = IF bus.holder = "cache" /\ ~bus.gap /\ Active(m) /\ ram.ack
            THEN [ack |-> TRUE, dat |-> ram.dat] ELSE NoAnswer
  BY DEF MemoryAnswer
<1>2. CASE bus.holder = "cache" /\ ~bus.gap /\ Active(m) /\ ram.ack
  <2>1. ret.ack = TRUE /\ ret.dat = ram.dat
    BY <1>1, <1>2
  <2>2. Active(bus.line) /\ m = bus.line /\ m = cpu /\ Done(bus.line)
    BY <1>2, RequestIsOwn, IdleFields DEF DcInv, PortInv
  <2>3. Answered(ret, cpu, dram)
    BY <2>1, <2>2 DEF Answered, Done
  <2> QED
    BY <1>2, <2>1, <2>2, <2>3 DEF AnswerIsOwn
<1>3. CASE ~(bus.holder = "cache" /\ ~bus.gap /\ Active(m) /\ ram.ack)
  BY <1>1, <1>3 DEF NoAnswer, AnswerIsOwn
<1> QED
  BY <1>2, <1>3

\* What the CPU is answered is right, and while its cacheable request is at
\* the port it is not answered.
LEMMA CpuAnswers ==
    ASSUME DcInv, NEW m, m = DcRequest, NEW ret, AnswerIsOwn(m, ret), Active(cpu)
    PROVE  /\ DcAnswer(ret).ack => Right(DcAnswer(ret).dat)
           /\ Active(m) /\ cpu.a \in Cacheable => ~DcAnswer(ret).ack
           /\ c.rsp => DcAnswer(ret).ack
<1> DEFINE ans == DcAnswer(ret)
<1>1. /\ cpu \in CpuRequests /\ cpu.op \in {"rd", "wr"} /\ cpu.a \in Addrs /\ cpu.a \in MemAddrs
      /\ cpu.a = <<cpu.a[1], cpu.a[2]>> /\ dram[cpu.a] \in seen
  <2>1. cpu \in CpuRequests /\ dram[cpu.a] \in seen
    BY IdleFields DEF DcInv, AskedFor
  <2> QED
    BY <2>1, CpuFields, AddrFields
<1>2. CASE cpu.a \notin Cacheable
  <2>1. ans = ret /\ ~c.rsp
    BY <1>1, <1>2 DEF DcAnswer, DcInv, MachineInv
  <2>2. ret.ack => Right(ret.dat)
    BY <1>1 DEF AnswerIsOwn, Answered, Right
  <2> QED
    BY <1>2, <2>1, <2>2
<1>3. CASE cpu.a \in Cacheable /\ cpu.op = "rd"
  <2>1. ans = IF Hit(cpu.a) THEN [ack |-> TRUE, dat |-> c.data[cpu.a[2]]]
              ELSE IF c.rsp THEN [ack |-> TRUE, dat |-> c.rdat] ELSE NoAnswer
    BY <1>3 DEF DcAnswer
  <2>2. Hit(cpu.a) => c.data[cpu.a[2]] = dram[cpu.a]
    <3> SUFFICES ASSUME Hit(cpu.a) PROVE c.data[cpu.a[2]] = dram[cpu.a]
      OBVIOUS
    <3>1. c.busy # "write"
      BY <1>3 DEF DcInv, MachineInv, WorksFor
    <3>2. cpu.a[2] \in c.v /\ cpu.a = <<c.tag, cpu.a[2]>>
      BY <1>1 DEF Hit
    <3>3. c.data[cpu.a[2]] = Coming(c, dram, cpu.a)
      BY <3>2 DEF DcInv, ValidWords
    <3> QED
      BY <3>1, <3>3 DEF Coming
  <2>3. c.rsp => c.rdat \in seen
    BY <1>3 DEF DcInv, MachineInv, Right
  <2>4. Active(m) => ~Hit(cpu.a) /\ ~c.rsp
    <3>1. CASE c.busy = "no"
      BY <1>3, <3>1, RequestIsOwn
    <3>2. CASE c.busy # "no"
      BY <1>3, <3>2 DEF DcInv, MachineInv, WorksFor, Hit
    <3> QED
      BY <3>1, <3>2
  <2> QED
    BY <1>1, <1>3, <2>1, <2>2, <2>3, <2>4 DEF Right, NoAnswer
<1>4. CASE cpu.a \in Cacheable /\ cpu.op = "wr"
  <2>1. ans = [ack |-> c.rsp, dat |-> Zero]
    BY <1>4 DEF DcAnswer
  <2>2. c.rsp => \A dat : Right(dat)
    BY <1>4 DEF DcInv, MachineInv, Right
  <2>3. Active(m) => ~c.rsp
    BY RequestIsOwn DEF DcInv, MachineInv, WorksFor
  <2> QED
    BY <1>4, <2>1, <2>2, <2>3
<1> QED
  BY <1>1, <1>2, <1>3, <1>4

\* The cache in one tick: what begins, what ends and what is heard.
LEMMA EdgeStep ==
    ASSUME EchoIsWhole, DcInv, NEW m, m = DcRequest, NEW ret, AnswerIsOwn(m, ret),
           NEW l \in {Idle} \cup CpuRequests \cup ForeignWrites, NEW mm2,
           \/ mm2 = dram
           \/ /\ Active(l) /\ ~ram.prev /\ Changes(l, dram, mm2)
              /\ l \in ForeignWrites \/ l = m,
           NEW active \in BOOLEAN, NEW t, t = DcEdge(m, ret, l, active)
    PROVE  /\ t \in DcState /\ t.snprev = Active(l)
           /\ ValidWords(t, mm2)
           /\ t.busy # "no" => Active(m) /\ m.a \in Cacheable /\ WorksFor(t, cpu)
           /\ t.own # Nil /\ t.busy # "write" => Active(m) /\ m.a \in Cacheable /\ t.rsp = active
           /\ t.rsp => /\ active
                       /\ c.rsp \/ (Active(m) /\ m.a \in Cacheable /\ Answered([dat |-> t.rdat], cpu, dram))
<1>1. /\ m \in {Idle, cpu} /\ m \in {Idle} \cup CpuRequests
      /\ c.busy # "no" => m = cpu
      /\ Active(m) => m = cpu /\ cpu \in CpuRequests
      /\ c.busy = "no" /\ Active(m) => ~c.rsp /\ ~c.hold
      /\ c.busy = "no" /\ Active(m) /\ m.a \in Cacheable /\ m.op = "rd" => ~Hit(m.a)
  BY RequestIsOwn
<1>2. /\ c \in DcState /\ WorksFor(c, cpu) /\ ValidWords(c, dram) /\ dram \in [MemAddrs -> Word]
      /\ cpu \in {Idle} \cup CpuRequests /\ c.snprev = Active(bus.line) /\ ram.prev = Active(bus.line)
  BY DEF DcInv, DcTypes, MachineInv, AskedFor, PortInv
<1>3. Active(m) => ~c.rsp
  BY <1>1, <1>2 DEF WorksFor
<1>4. PICK s0 : s0 = [c EXCEPT !.hold = FALSE]
  OBVIOUS
<1>5. /\ s0 \in DcState /\ ~s0.hold /\ s0.busy = c.busy /\ s0.req = c.req /\ s0.tag = c.tag /\ s0.v = c.v
      /\ s0.data = c.data /\ s0.rsp = c.rsp /\ s0.own = c.own /\ s0.snprev = c.snprev
  BY <1>2, <1>4 DEF DcState
<1>6. WorksFor(s0, cpu) /\ ValidWords(s0, dram)
  BY <1>2, <1>5 DEF WorksFor, ValidWords, Coming
<1>7. PICK s1 : s1 = DcStart(s0, m)
  OBVIOUS
<1>8. s0.busy = "no" /\ Active(m) /\ m.a \in Cacheable /\ m.op = "rd" =>
         ~(s0.tag = m.a[1] /\ m.a[2] \in s0.v)
  BY <1>1, <1>5 DEF Hit
<1>9. /\ s1 \in DcState /\ WorksFor(s1, cpu) /\ ValidWords(s1, dram) /\ s1.rsp = c.rsp /\ ~s1.hold
      /\ s1.busy # "no" => m = cpu
      /\ Active(m) /\ m.a \in Cacheable => s1.busy # "no"
  BY <1>1, <1>2, <1>5, <1>6, <1>7, <1>8, StartStep
<1>10. s1.snprev = c.snprev
  BY <1>5, <1>7 DEF DcStart, DcState
<1>11. PICK s2 : s2 = DcFinish(s1, m, ret)
  OBVIOUS
<1>12. ret.ack => Active(m) /\ Answered(ret, cpu, dram) /\ Active(bus.line)
  BY DEF AnswerIsOwn
<1>13. /\ s2 \in DcState /\ WorksFor(s2, cpu) /\ ValidWords(s2, dram)
       /\ s2.own # Nil /\ s2.busy # "write" => ret.ack
       /\ s2.own # Nil => Active(m)
       /\ s2.busy # "no" => s1.busy # "no"
       /\ s2.rsp => s1.rsp \/ (Active(m) /\ m.a \in Cacheable /\ Answered([dat |-> s2.rdat], cpu, dram))
  BY <1>1, <1>2, <1>3, <1>9, <1>11, <1>12, FinishStep
<1>14. s2.snprev = c.snprev
  BY <1>9, <1>10, <1>11 DEF DcFinish, DcState
<1>15. PICK s3 : s3 = DcSnoop(s2, l)
  OBVIOUS
<1>16. \/ mm2 = dram
       \/ /\ Active(l) /\ ~s2.snprev /\ Changes(l, dram, mm2)
          /\ l \in ForeignWrites \/ (l = cpu /\ (l.a \in Cacheable => s2.busy = "write"))
          /\ s2.own # Nil => s2.busy = "write"
  <2> SUFFICES ASSUME Active(l), ~ram.prev, Changes(l, dram, mm2), l \in ForeignWrites \/ l = m
               PROVE  /\ ~s2.snprev
                      /\ l \in ForeignWrites \/ (l = cpu /\ (l.a \in Cacheable => s2.busy = "write"))
                      /\ s2.own # Nil => s2.busy = "write"
    OBVIOUS
  <2>1. ~ret.ack /\ ~s2.snprev
    BY <1>2, <1>12, <1>14
  <2>2. s2.own # Nil => s2.busy = "write"
    BY <1>13, <2>1
  <2>3. ASSUME l \notin ForeignWrites, l.a \in Cacheable PROVE s2.busy = "write"
    <3>1. l = m /\ Active(m) /\ m = cpu /\ m.op = "wr"
      BY <1>1, <2>3 DEF Changes
    <3>2. s2 = s1
      BY <1>11, <2>1, <3>1 DEF DcFinish
    <3>3. s1.busy = "write"
      BY <1>9, <2>3, <3>1 DEF WorksFor, DcState
    <3> QED
      BY <3>2, <3>3
  <2> QED
    BY <1>1, <2>1, <2>2, <2>3
<1>17. /\ s3 \in DcState /\ WorksFor(s3, cpu) /\ ValidWords(s3, mm2)
       /\ s3.busy = s2.busy /\ s3.rsp = s2.rsp /\ s3.own = s2.own /\ s3.rdat = s2.rdat
  BY <1>2, <1>13, <1>15, <1>16, SnoopStep
<1>18. t = [s3 EXCEPT !.snprev = Active(l), !.rsp = s3.rsp /\ active]
  BY <1>4, <1>7, <1>11, <1>15 DEF DcEdge
<1> DEFINE sn == Active(l)
           rs == s3.rsp /\ active
<1>19. sn \in BOOLEAN /\ rs \in BOOLEAN
  BY DEF Active
<1>20. (rs => active /\ s3.rsp) /\ (s3.rsp => rs = active)
  BY <1>17 DEF DcState
<1>21. t = [s3 EXCEPT !.snprev = sn, !.rsp = rs]
  BY <1>18
<1> HIDE DEF sn, rs
<1>22. /\ t \in DcState /\ t.snprev = sn /\ t.rsp = rs /\ t.busy = s3.busy /\ t.req = s3.req
       /\ t.tag = s3.tag /\ t.v = s3.v /\ t.data = s3.data /\ t.hold = s3.hold /\ t.own = s3.own
       /\ t.rdat = s3.rdat
  BY <1>17, <1>19, <1>21 DEF DcState
<1>23. ValidWords(t, mm2)
  BY <1>17, <1>22 DEF ValidWords, Coming
<1>24. t.busy # "no" => WorksFor(t, cpu)
  <2> SUFFICES ASSUME t.busy # "no" PROVE WorksFor(t, cpu)
    OBVIOUS
  <2>1. ~s3.rsp /\ ~t.rsp
    BY <1>17, <1>20, <1>22 DEF WorksFor
  <2> QED
    BY <1>17, <1>22, <2>1 DEF WorksFor
<1>25. t.busy # "no" => Active(m) /\ m.a \in Cacheable
  BY <1>9, <1>13, <1>17, <1>22 DEF WorksFor
<1>27. ASSUME t.own # Nil, t.busy # "write"
       PROVE  Active(m) /\ m.a \in Cacheable /\ t.rsp = active
  <2>1. s3.rsp /\ Active(m)
    BY <1>13, <1>17, <1>22, <1>27 DEF WorksFor
  <2>2. m.a \in Cacheable
    BY <1>3, <1>9, <1>13, <1>17, <2>1
  <2> QED
    BY <1>20, <1>22, <2>1, <2>2
<1>28. t.rsp => /\ active
                /\ c.rsp \/ (Active(m) /\ m.a \in Cacheable /\ Answered([dat |-> t.rdat], cpu, dram))
  BY <1>9, <1>13, <1>17, <1>20, <1>22
<1> QED
  BY <1>22, <1>23, <1>24, <1>25, <1>27, <1>28 DEF sn

\* One tick of the WishboneDcache.
LEMMA DcStep ==
    ASSUME EchoIsWhole, DcInv, Dcache
    PROVE  /\ DcInv'
           /\ Active(cpu) /\ DcAnswer(MemoryAnswer).ack => Right(DcAnswer(MemoryAnswer).dat)
<1>1. PICK m : m = DcRequest
  OBVIOUS
<1>2. PICK ret : ret = MemoryAnswer
  OBVIOUS
<1>3. PICK ans : ans = DcAnswer(ret)
  OBVIOUS
<1>4. PICK l : l = bus'.line
  OBVIOUS
<1>5. PICK active : active = Active(IF cpuFirst THEN cpu' ELSE cpu)
  OBVIOUS
<1>6. /\ cpu' \in CpuTurn(ans, FALSE)
      /\ other' \in IF ~Active(other) THEN {Idle} \cup ForeignWrites
                    ELSE IF bus.holder = "other" /\ ~bus.gap /\ ram.ack THEN {Idle} ELSE {other}
      /\ bus' \in BusTurn(m, other)
      /\ c' = DcEdge(m, ret, l, active)
      /\ Serve(l) /\ Watch
      /\ UNCHANGED <<kind, cpuFirst, up>>
  BY <1>1, <1>2, <1>3, <1>4, <1>5 DEF Dcache
<1>7. AnswerIsOwn(m, ret)
  BY <1>1, <1>2, MemoryAnswers
<1>8. /\ m \in {Idle, cpu} /\ m \in {Idle} \cup CpuRequests
      /\ Active(m) => m = cpu /\ Active(cpu)
  BY <1>1, RequestIsOwn, IdleFields
<1>9. Active(cpu) => /\ ans.ack => Right(ans.dat)
                     /\ Active(m) /\ cpu.a \in Cacheable => ~ans.ack
                     /\ c.rsp => ans.ack
  BY <1>1, <1>3, <1>7, CpuAnswers
<1>10. /\ cpu' \in {Idle} \cup CpuRequests
       /\ Active(cpu) => cpu' \in {Idle, cpu} /\ (ans.ack => cpu' = Idle) /\ (~ans.ack => cpu' = cpu)
  <2>1. cpu \in {Idle} \cup CpuRequests
    BY DEF DcInv, AskedFor
  <2> QED
    BY <1>6, <2>1, IdleFields DEF CpuTurn, CpuRequests
<1>11. /\ bus \in BusState /\ other \in {Idle} \cup ForeignWrites
       /\ bus.holder # Nil => bus.last = bus.holder
       /\ bus.holder = Nil \/ bus.gap <=> ~Active(bus.line)
       /\ bus.holder = "cache" /\ Active(bus.line) => m \in {Idle, bus.line}
       /\ bus.holder = "other" /\ Active(bus.line) => other \in {Idle, bus.line}
  BY <1>1 DEF DcInv, DcTypes, PortInv, BusState
<1>12. /\ bus' \in BusState
       /\ bus'.holder # Nil => bus'.last = bus'.holder
       /\ bus'.holder = Nil \/ bus'.gap <=> ~Active(l)
       /\ Active(l) => /\ bus'.holder = "cache" => l = m
                       /\ bus'.holder = "other" => l = other
       /\ Active(l) /\ Active(bus.line) => l = bus.line
  <2>1. PICK b : b = bus'
    OBVIOUS
  <2>2. b \in BusTurn(m, other) /\ b.line = l
    BY <1>4, <1>6, <2>1
  <2> QED
    BY <1>8, <1>11, <2>1, <2>2, TurnStep
<1>13. l \in {Idle} \cup CpuRequests \cup ForeignWrites
       /\ (Active(l) => l = m \/ (l = other /\ l \in ForeignWrites))
  BY <1>4, <1>11, <1>12, IdleFields DEF BusState
<1>14. ram.prev = Active(bus.line) /\ ram.prev \in BOOLEAN /\ dram \in [MemAddrs -> Word]
       /\ (Active(bus.line) => Done(bus.line))
  BY DEF DcInv, PortInv, AskedFor, Active
<1>15. /\ dram' \in [MemAddrs -> Word]
       /\ ram'.ack = Active(l) /\ ram'.prev = Active(l)
       /\ Active(l) => Done(l)'
       /\ ram.prev \/ ~Active(l) \/ l.op = "rd" => dram' = dram
       /\ Active(l) /\ ~ram.prev /\ l.op = "wr" =>
            dram' = [dram EXCEPT ![l.a] = Merge(@, l.v, l.sel)]
  BY <1>6, <1>12, <1>13, <1>14, ServeStep
<1>16. \/ dram' = dram
       \/ /\ Active(l) /\ ~ram.prev /\ Changes(l, dram, dram')
          /\ l \in ForeignWrites \/ l = m
  <2>1. Active(l) => l.op \in {"rd", "wr"}
    BY <1>13, CpuFields, ForeignFields, IdleFields
  <2> QED
    BY <1>13, <1>15, <2>1 DEF Changes
<1>17. /\ c' \in DcState /\ c'.snprev = Active(l)
       /\ ValidWords(c', dram')
       /\ c'.busy # "no" => Active(m) /\ m.a \in Cacheable /\ WorksFor(c', cpu)
       /\ c'.own # Nil /\ c'.busy # "write" => Active(m) /\ m.a \in Cacheable /\ c'.rsp = active
       /\ c'.rsp => /\ active
                    /\ c.rsp \/ (Active(m) /\ m.a \in Cacheable /\ Answered([dat |-> c'.rdat], cpu, dram))
  <2>1. PICK t, mm2 : t = c' /\ mm2 = dram'
    OBVIOUS
  <2>2. active \in BOOLEAN
    BY <1>5 DEF Active
  <2>3. t = DcEdge(m, ret, l, active)
    BY <1>6, <2>1
  <2>4. \/ mm2 = dram
        \/ /\ Active(l) /\ ~ram.prev /\ Changes(l, dram, mm2)
           /\ l \in ForeignWrites \/ l = m
    BY <1>16, <2>1
  <2> QED
    BY <1>1, <1>7, <1>13, <2>1, <2>2, <2>3, <2>4, EdgeStep
<1>18. Active(m) /\ m.a \in Cacheable => cpu' = cpu /\ ~ans.ack
  BY <1>8, <1>9, <1>10
<1>19. /\ Active(cpu') => dram'[cpu'.a] \in seen'
       /\ Active(cpu) /\ Active(cpu') => seen \subseteq seen'
  <2>1. Active(cpu) /\ Active(cpu') => cpu' = cpu /\ seen' = seen \cup {dram'[cpu.a]}
    BY <1>6, <1>10, IdleFields DEF Watch
  <2>2. ~Active(cpu) /\ Active(cpu') => seen' = {dram[cpu'.a], dram'[cpu'.a]}
    BY <1>6 DEF Watch
  <2> QED
    BY <2>1, <2>2
<1>20. AskedFor'
  BY <1>10, <1>15, <1>19 DEF AskedFor
<1>21. DcTypes'
  <2>1. other' \in {Idle} \cup ForeignWrites
    BY <1>6, <1>11
  <2> QED
    BY <1>12, <1>17, <2>1 DEF DcTypes, BusState
<1>22. WorksFor(c', cpu')
  <2>1. CASE c'.busy # "no"
    BY <1>17, <1>18, <2>1
  <2>2. CASE c'.busy = "no"
    <3>1. ASSUME c'.own # Nil PROVE c'.rsp
      <4>1. Active(m) /\ m.a \in Cacheable /\ c'.rsp = active /\ cpu' = cpu
        BY <1>17, <1>18, <2>2, <3>1
      <4> QED
        BY <1>5, <1>8, <4>1
    <3> QED
      BY <2>2, <3>1 DEF WorksFor
  <2> QED
    BY <2>1, <2>2
<1>23. MachineInv'
  <2>1. ASSUME c'.rsp, Active(cpu')
        PROVE  (cpu.a \in Cacheable /\ Right(c.rdat))'
    <3>1. ~c.rsp
      <4>1. CASE Active(cpu)
        BY <1>9, <1>10, <2>1, <4>1, IdleFields
      <4>2. CASE ~Active(cpu)
        BY <1>5, <1>17, <2>1, <4>2 DEF DcInv, MachineInv
      <4> QED
        BY <4>1, <4>2
    <3>2. Active(m) /\ m.a \in Cacheable /\ Answered([dat |-> c'.rdat], cpu, dram) /\ cpu' = cpu /\ m = cpu
      BY <1>8, <1>17, <1>18, <2>1, <3>1
    <3>3. dram[cpu.a] \in seen /\ seen \subseteq seen' /\ cpu \in CpuRequests
      BY <1>8, <1>19, <3>2, IdleFields DEF DcInv, AskedFor
    <3>4. cpu.op \in {"rd", "wr"}
      BY <3>3, CpuFields
    <3> QED
      BY <3>2, <3>3, <3>4 DEF Answered, Right
  <2>2. cpuFirst' /\ c'.rsp => Active(cpu')
    BY <1>5, <1>6, <1>17
  <2> QED
    BY <1>22, <2>1, <2>2 DEF MachineInv
<1>24. PortInv'
  <2>1. DcRequest' \in {Idle, cpu'}
    BY <1>22 DEF DcRequest, WorksFor
  <2>2. bus'.holder = "cache" /\ Active(l) => DcRequest' \in {Idle, l}
    BY <1>8, <1>10, <1>12, <2>1
  <2>3. bus'.holder = "other" /\ Active(l) => other' \in {Idle, l}
    BY <1>6, <1>12
  <2> QED
    BY <1>4, <1>12, <1>15, <1>17, <2>2, <2>3 DEF PortInv
<1> QED
  BY <1>2, <1>3, <1>9, <1>17, <1>20, <1>21, <1>23, <1>24 DEF DcInv

-----------------------------------------------------------------------------
(* The WishboneCache's machine. *)

\* The line with the write that is on its way is the line after it.
LEMMA WriteLands ==
    ASSUME NEW s \in WcState, Asking(s), NEW mm \in [MemAddrs -> Word], LineIsSound(s, mm), s.we = "sent"
    PROVE  LineIsSound(s, [mm EXCEPT ![s.req.a] = Merge(@, s.req.v, s.req.sel)])
<1> DEFINE a == s.req.a
           mm2 == [mm EXCEPT ![s.req.a] = Merge(@, s.req.v, s.req.sel)]
<1>1. s.st = "idle" /\ a \in MemAddrs
  BY CpuFields, AddrFields DEF Asking, CpuRequests
<1>2. mm2[a] = Merge(mm[a], s.req.v, s.req.sel) /\ \A x \in MemAddrs : x # a => mm2[x] = mm[x]
  BY <1>1
<1>3. ASSUME s.valid, NEW w \in Places PROVE s.data[w] = Sent(s, mm2, <<s.tag, w>>)
  <2>1. <<s.tag, w>> \in MemAddrs /\ s.data[w] = Sent(s, mm, <<s.tag, w>>)
    BY <1>1, <1>3 DEF LineIsSound, MemAddrs
  <2>2. CASE <<s.tag, w>> = a
    BY <1>2, <2>1, <2>2, MergeFacts DEF Sent
  <2>3. CASE <<s.tag, w>> # a
    <3>1. mm2[<<s.tag, w>>] = mm[<<s.tag, w>>]
      BY <1>2, <2>1, <2>3
    <3> HIDE DEF mm2
    <3> QED
      BY <2>1, <2>3, <3>1 DEF Sent
  <2> QED
    BY <2>2, <2>3
<1> HIDE DEF mm2
<1>4. s.valid => s.tag \in {x[1] : x \in Addrs}
  BY <1>1 DEF LineIsSound
<1>5. LineIsSound(s, mm2)
  BY <1>1, <1>3, <1>4 DEF LineIsSound
<1> QED
  BY <1>5 DEF mm2

\* What the machine does at an edge, for the request it sees.
LEMMA MachineStep ==
    ASSUME WcInv, NEW asked \in {Idle} \cup CpuRequests, c.we = "sent" => asked = c.req,
           NEW f, f = IF c.st = "idle" THEN WcTake(c, asked) ELSE WcFill(c, ram.ack, ram.dat),
           NEW s, s = WcSend(f, ram.ack)
    PROVE  /\ s \in WcState /\ Asking(s) /\ LineIsSound(s, dram)
           /\ s.held = c.held /\ s.low = c.low
           /\ ram.ack => s.dn = Idle
           /\ s.st # "idle" => IF c.st # "idle" THEN s.req = c.req
                               ELSE Active(asked) /\ s.req = asked /\ c.we = "no" /\ ~Has(c, asked.a)
           /\ s.we = "sent" => s.req = asked /\ asked.op = "wr" /\ c.st = "idle"
           /\ c.we = "sent" /\ s.we = "no" => Done(c.req)
           /\ c.st # "idle" /\ f.st = "idle" => f.data \in [Places -> Word] /\ f.data[c.req.a[2]] = dram[c.req.a]
<1>1. c \in WcState /\ Asking(c) /\ LineIsSound(c, dram) /\ dram \in [MemAddrs -> Word]
  BY DEF WcInv, AskedFor, WcTypes, DownInv
<1>2. /\ c.st = "wait" \/ c.we = "sent" <=> Active(c.dn)
      /\ ram.ack => Active(c.dn) /\ Done(c.dn)
  BY DEF WcInv, DownInv, Asking
<1>3. CASE c.st = "idle" /\ c.we = "no" /\ (c.prev \/ ~Active(asked) \/ (asked.op = "rd" /\ Has(c, asked.a)))
  <2>1. f = c /\ s = c
    BY <1>3 DEF WcTake, WcSend
  <2>2. ~ram.ack
    BY <1>2, <1>3
  <2> QED
    BY <1>1, <1>3, <2>1, <2>2
<1>4. CASE c.st = "idle" /\ c.we = "no" /\ ~c.prev /\ Active(asked) /\ asked.op = "rd" /\ ~Has(c, asked.a)
  <2>1. f = [c EXCEPT !.req = asked, !.ftag = asked.a[1], !.word = 0, !.st = "ask"]
    BY <1>4 DEF WcTake
  <2>2. asked \in Reads /\ asked.a[1] \in Nat /\ 0 \in Places
    <3>1. asked \in CpuRequests
      BY <1>4, IdleFields
    <3>2. asked \in Reads
      BY <1>4, <3>1 DEF CpuRequests, CpuWrites
    <3> QED
      BY <3>1, <3>2, CpuFields, AddrFields, AddrAssumption DEF Places
  <2>3. /\ f \in WcState /\ f.st = "ask" /\ f.we = "no" /\ f.req = asked /\ f.ftag = asked.a[1] /\ f.word = 0
        /\ f.dn = c.dn /\ f.held = c.held /\ f.low = c.low
    BY <1>1, <1>4, <2>1, <2>2 DEF WcState
  <2>4. s = f
    BY <2>3 DEF WcSend
  <2>5. ~Active(c.dn) /\ ~ram.ack
    BY <1>2, <1>4
  <2>6. Asking(s)
    BY <2>2, <2>3, <2>4, <2>5 DEF Asking
  <2>7. LineIsSound(s, dram)
    BY <2>3, <2>4 DEF LineIsSound, Places
  <2> QED
    BY <1>4, <2>3, <2>4, <2>5, <2>6, <2>7
<1>5. CASE c.st = "idle" /\ c.we = "no" /\ ~c.prev /\ Active(asked) /\ asked.op # "rd"
  <2> DEFINE here == Has(c, asked.a)
             w == asked.a[2]
             d == IF here THEN [c.data EXCEPT ![w] = Merge(c.data[w], asked.v, asked.sel)] ELSE c.data
  <2>1. f = [c EXCEPT !.req = asked, !.we = "send", !.data = d]
    BY <1>5 DEF WcTake
  <2>2. /\ asked \in CpuWrites /\ asked.op = "wr" /\ asked.a = <<asked.a[1], w>> /\ w \in Places /\ asked.v \in Word
        /\ asked.a \in MemAddrs
    <3>1. asked \in CpuRequests
      BY <1>5, IdleFields
    <3>2. asked \in CpuWrites
      BY <1>5, <3>1 DEF CpuRequests, Reads
    <3> QED
      BY <1>5, <3>1, <3>2, CpuFields, AddrFields
  <2>3. d \in [Places -> Word]
    BY <1>1, <2>2, MergeType DEF WcState
  <2>4. \A x \in Places : d[x] = IF here /\ x = w THEN Merge(c.data[w], asked.v, asked.sel) ELSE c.data[x]
    BY <1>1, <2>2 DEF WcState
  <2> HIDE DEF d
  <2>5. s = [f EXCEPT !.dn = f.req, !.we = "sent"]
    BY <1>1, <2>1 DEF WcSend, WcState
  <2>6. s = [c EXCEPT !.req = asked, !.we = "sent", !.data = d, !.dn = asked]
    BY <1>1, <2>1, <2>5 DEF WcState
  <2>7. /\ s \in WcState /\ s.st = "idle" /\ s.we = "sent" /\ s.req = asked /\ s.dn = asked /\ s.data = d
        /\ s.valid = c.valid /\ s.tag = c.tag /\ s.held = c.held /\ s.low = c.low
    BY <1>1, <1>5, <2>2, <2>3, <2>6 DEF WcState
  <2>8. Asking(s)
    BY <1>5, <2>2, <2>7 DEF Asking
  <2>9. ~ram.ack
    BY <1>2, <1>5
  <2>10. ASSUME c.valid, NEW x \in Places PROVE d[x] = Sent(s, dram, <<c.tag, x>>)
    <3>1. c.data[x] = dram[<<c.tag, x>>]
      BY <1>1, <1>5, <2>10 DEF LineIsSound, Sent
    <3>2. CASE here /\ x = w
      BY <2>2, <2>4, <2>7, <3>1, <3>2 DEF Sent, Has
    <3>3. CASE ~(here /\ x = w)
      <4>1. <<c.tag, x>> # asked.a
        BY <2>2, <2>10, <3>3 DEF Has
      <4> QED
        BY <2>4, <2>7, <3>1, <3>3, <4>1 DEF Sent
    <3> QED
      BY <3>2, <3>3
  <2>11. LineIsSound(s, dram)
    BY <1>1, <1>5, <2>7, <2>10 DEF LineIsSound
  <2> QED
    BY <1>5, <2>2, <2>7, <2>8, <2>9, <2>11
<1>6. CASE c.we = "sent"
  <2>1. c.st = "idle" /\ c.dn = c.req /\ c.req \in CpuWrites /\ asked = c.req
    BY <1>1, <1>6 DEF Asking
  <2>2. c.req.a \in MemAddrs /\ c.req.op = "wr"
    <3>1. c.req \in CpuRequests
      BY <2>1 DEF CpuRequests
    <3> QED
      BY <2>1, <3>1, CpuFields, AddrFields DEF CpuWrites
  <2>3. f = c
    BY <1>6, <2>1 DEF WcTake
  <2>4. CASE ~ram.ack
    BY <1>1, <1>6, <2>1, <2>2, <2>3, <2>4 DEF WcSend
  <2>5. CASE ram.ack
    <3>1. s = [c EXCEPT !.dn = Idle, !.we = "no"]
      BY <1>6, <2>3, <2>5 DEF WcSend
    <3>2. /\ s \in WcState /\ s.st = "idle" /\ s.we = "no" /\ s.dn = Idle /\ s.data = c.data
          /\ s.valid = c.valid /\ s.tag = c.tag /\ s.held = c.held /\ s.low = c.low
      BY <1>1, <2>1, <3>1 DEF WcState
    <3>3. Asking(s)
      BY <3>2, IdleFields DEF Asking
    <3>4. Merge(dram[c.req.a], c.req.v, c.req.sel) = dram[c.req.a] /\ Done(c.req)
      BY <1>1, <1>2, <2>1, <2>2, <2>5, MergeFacts DEF Done
    <3>5. LineIsSound(s, dram)
      BY <1>1, <2>1, <3>2, <3>4 DEF LineIsSound, Sent
    <3> QED
      BY <2>1, <2>3, <3>2, <3>3, <3>4, <3>5
  <2> QED
    BY <2>4, <2>5
<1>7. CASE c.st = "ask"
  <2> DEFINE r == [op |-> "rd", a |-> <<c.ftag, c.word>>]
  <2>1. c.we = "no" /\ c.req \in Reads /\ c.ftag = c.req.a[1] /\ ~ram.ack
    BY <1>1, <1>2, <1>7 DEF Asking, WcState
  <2>2. r \in LineReads
    BY <1>1, <2>1 DEF LineReads, MemAddrs, Reads, WcState
  <2>3. Active(r)
    BY NilAssumption DEF Active, Idle
  <2> HIDE DEF r
  <2>4. f = [c EXCEPT !.dn = r, !.st = "wait"]
    BY <1>7 DEF WcFill, r
  <2>5. /\ f \in WcState /\ f.st = "wait" /\ f.we = "no" /\ f.dn = r /\ f.data = c.data /\ f.word = c.word
        /\ f.ftag = c.ftag /\ f.req = c.req /\ f.held = c.held /\ f.low = c.low
    BY <1>1, <2>1, <2>2, <2>4 DEF WcState
  <2>6. s = f
    BY <2>5 DEF WcSend
  <2>7. Asking(s)
    BY <2>1, <2>3, <2>5, <2>6 DEF Asking, r
  <2>8. LineIsSound(s, dram)
    BY <1>1, <1>7, <2>5, <2>6 DEF LineIsSound
  <2> QED
    BY <1>7, <2>1, <2>5, <2>6, <2>7, <2>8
<1>8. CASE c.st = "wait" /\ ~ram.ack
  <2>1. c.we = "no"
    BY <1>1, <1>8 DEF Asking, WcState
  <2>2. f = c /\ s = c
    BY <1>8, <2>1 DEF WcFill, WcSend
  <2> QED
    BY <1>1, <1>8, <2>1, <2>2
<1>9. CASE c.st = "wait" /\ ram.ack
  <2> DEFINE d == [c.data EXCEPT ![c.word] = ram.dat]
  <2>1. /\ c.we = "no" /\ c.req \in Reads /\ c.ftag = c.req.a[1]
        /\ ram.dat = dram[<<c.ftag, c.word>>]
    BY <1>1, <1>2, <1>9 DEF Asking, WcState, Done
  <2>2. <<c.ftag, c.word>> \in MemAddrs /\ c.word \in Places
    BY <1>1, <2>1 DEF MemAddrs, Reads, WcState
  <2>3. d \in [Places -> Word]
    BY <1>1, <2>1, <2>2 DEF WcState
  <2>4. \A w \in Places : w < c.word + 1 => d[w] = dram[<<c.ftag, w>>]
    <3> TAKE w \in Places
    <3> HAVE w < c.word + 1
    <3>1. w \in Int /\ c.word \in Int
      BY <2>2, AddrAssumption DEF Places
    <3>2. CASE w = c.word
      BY <1>1, <2>1, <2>2, <3>2 DEF WcState
    <3>3. CASE w < c.word
      BY <1>1, <1>9, <3>1, <3>3 DEF LineIsSound, WcState
    <3> QED
      BY <3>1, <3>2, <3>3
  <2> HIDE DEF d
  <2>5. CASE c.word + 1 < LineWords
    <3>1. f = [c EXCEPT !.data = d, !.dn = Idle, !.word = c.word + 1, !.st = "ask"]
      BY <1>9, <2>5 DEF WcFill, d
    <3>2. c.word + 1 \in Places
      BY <2>2, <2>5, AddrAssumption DEF Places
    <3>3. /\ f \in WcState /\ f.st = "ask" /\ f.we = "no" /\ f.dn = Idle /\ f.data = d /\ f.word = c.word + 1
          /\ f.ftag = c.ftag /\ f.req = c.req /\ f.held = c.held /\ f.low = c.low
      BY <1>1, <2>1, <2>3, <3>1, <3>2 DEF WcState
    <3>4. s = f
      BY <3>3 DEF WcSend
    <3>5. Asking(s)
      BY <2>1, <3>3, <3>4, IdleFields DEF Asking
    <3>6. LineIsSound(s, dram)
      BY <2>4, <3>3, <3>4 DEF LineIsSound
    <3> QED
      BY <1>9, <2>1, <3>3, <3>4, <3>5, <3>6
  <2>6. CASE ~(c.word + 1 < LineWords)
    <3>1. f = [c EXCEPT !.data = d, !.dn = Idle, !.word = 0, !.st = "idle", !.valid = TRUE, !.tag = c.ftag]
      BY <1>9, <2>6 DEF WcFill, d
    <3>2. 0 \in Places /\ \A w \in Places : d[w] = dram[<<c.ftag, w>>]
      BY <2>2, <2>4, <2>6, AddrAssumption DEF Places
    <3>3. /\ f \in WcState /\ f.st = "idle" /\ f.we = "no" /\ f.dn = Idle /\ f.data = d /\ f.valid
          /\ f.tag = c.ftag /\ f.held = c.held /\ f.low = c.low
      BY <1>1, <2>1, <2>3, <3>1, <3>2 DEF WcState
    <3>4. s = f
      BY <3>3 DEF WcSend
    <3>5. Asking(s)
      BY <3>3, <3>4, IdleFields DEF Asking
    <3>6. c.req.a \in Addrs /\ c.req.a = <<c.ftag, c.req.a[2]>> /\ c.req.a[2] \in Places
      BY <2>1, AddrFields DEF Reads
    <3>7. LineIsSound(s, dram)
      BY <3>2, <3>3, <3>4, <3>6 DEF LineIsSound, Sent
    <3> QED
      <4>1. f.data[c.req.a[2]] = dram[c.req.a]
        BY <3>2, <3>3, <3>6
      <4> QED
        BY <1>9, <2>1, <2>3, <3>3, <3>4, <3>5, <3>7, <4>1
  <2> QED
    BY <2>5, <2>6
<1> QED
  <2>1. c.st \in {"idle", "ask", "wait"} /\ c.we \in {"no", "sent"}
    BY <1>1 DEF WcState
  <2> QED
    BY <2>1, <1>3, <1>4, <1>5, <1>6, <1>7, <1>8, <1>9

\* The answer of an edge, and what the machine remembers of it.
LEMMA CacheEdge ==
    ASSUME WcInv, NEW asked \in {Idle} \cup CpuRequests, c.we = "sent" => asked = c.req,
           c.st # "idle" /\ ~c.low /\ Active(asked) => asked = c.req, ~(Active(asked) /\ c.held),
           NEW e, e = WcEdge(asked, ram.ack, ram.dat)
    PROVE  /\ e.after \in WcState /\ Asking(e.after) /\ LineIsSound(e.after, dram)
           /\ e.answer \in [ack : BOOLEAN, dat : Word]
           /\ e.answer.ack /\ Active(asked) => Answered(e.answer, asked, dram)
           /\ ram.ack => e.after.dn = Idle
           /\ e.after.st # "idle" /\ ~e.after.low =>
                e.after.req = asked /\ Active(asked) /\ (c.st = "idle" => ~e.answer.ack)
           /\ e.after.we = "sent" => e.after.req = asked /\ ~e.answer.ack /\ c.st = "idle"
           /\ e.after.low => e.after.st # "idle"
           /\ e.after.held => Active(asked) /\ e.answer.ack
<1>1. /\ c \in WcState /\ Asking(c) /\ LineIsSound(c, dram) /\ dram \in [MemAddrs -> Word]
      /\ c.low => c.st # "idle"
  BY DEF WcInv, AskedFor, WcTypes, DownInv, ForInv
<1>2. PICK low : low = (c.low \/ (c.st # "idle" /\ ~Active(asked)))
  OBVIOUS
<1>3. PICK hit : hit = (c.st = "idle" /\ ~c.prev /\ c.we = "no" /\ asked.op = "rd" /\ Has(c, asked.a))
  OBVIOUS
<1>4. PICK f : f = IF c.st = "idle" THEN WcTake(c, asked) ELSE WcFill(c, ram.ack, ram.dat)
  OBVIOUS
<1>5. PICK s : s = WcSend(f, ram.ack)
  OBVIOUS
<1>6. PICK ends : ends = (c.st # "idle" /\ f.st = "idle")
  OBVIOUS
<1>7. PICK wrote : wrote = (c.we = "sent" /\ s.we = "no")
  OBVIOUS
<1>8. PICK gives : gives = (((hit \/ ends) /\ ~WcGivenUp(c, asked)) \/ wrote \/ (Active(asked) /\ c.held))
  OBVIOUS
<1>9. PICK out : out = IF Active(asked) /\ c.held THEN c.latched
                       ELSE IF hit THEN c.data[asked.a[2]] ELSE IF ends THEN f.data[c.req.a[2]] ELSE Zero
  OBVIOUS
<1>10. /\ low \in BOOLEAN /\ hit \in BOOLEAN /\ ends \in BOOLEAN /\ wrote \in BOOLEAN /\ gives \in BOOLEAN
  BY <1>1, <1>2, <1>3, <1>6, <1>7, <1>8 DEF WcState
<1>11. e = [answer |-> [ack |-> gives, dat |-> out],
            after  |-> [s EXCEPT !.latched = IF gives THEN out ELSE @,
                                 !.held = Active(asked) /\ (gives \/ @),
                                 !.prev = Active(asked) /\ ~low,
                                 !.low  = low /\ s.st # "idle"]]
  BY <1>2, <1>3, <1>4, <1>5, <1>6, <1>7, <1>8, <1>9 DEF WcEdge
<1>12. /\ s \in WcState /\ Asking(s) /\ LineIsSound(s, dram)
       /\ s.held = c.held /\ s.low = c.low
       /\ ram.ack => s.dn = Idle
       /\ s.st # "idle" => IF c.st # "idle" THEN s.req = c.req
                           ELSE Active(asked) /\ s.req = asked /\ c.we = "no" /\ ~Has(c, asked.a)
       /\ s.we = "sent" => s.req = asked /\ asked.op = "wr" /\ c.st = "idle"
       /\ c.we = "sent" /\ s.we = "no" => Done(c.req)
       /\ c.st # "idle" /\ f.st = "idle" => f.data \in [Places -> Word] /\ f.data[c.req.a[2]] = dram[c.req.a]
  BY <1>4, <1>5, MachineStep
<1>13. hit => /\ asked \in CpuRequests /\ asked.a \in Addrs /\ asked.a = <<c.tag, asked.a[2]>> /\ asked.a[2] \in Places
              /\ c.data[asked.a[2]] = dram[asked.a]
  <2> SUFFICES ASSUME hit
               PROVE  /\ asked \in CpuRequests /\ asked.a \in Addrs /\ asked.a = <<c.tag, asked.a[2]>>
                      /\ asked.a[2] \in Places /\ c.data[asked.a[2]] = dram[asked.a]
    OBVIOUS
  <2>1. c.st = "idle" /\ c.we = "no" /\ asked.op = "rd" /\ c.valid /\ c.tag = asked.a[1]
    BY <1>3 DEF Has
  <2>2. asked \in CpuRequests
    BY <2>1, IdleFields
  <2>3. asked.a \in Addrs /\ asked.a = <<c.tag, asked.a[2]>> /\ asked.a[2] \in Places
    BY <2>1, <2>2, CpuFields, AddrFields
  <2>4. c.data[asked.a[2]] = dram[asked.a]
    BY <1>1, <2>1, <2>3 DEF LineIsSound, Sent
  <2> QED
    BY <2>2, <2>3, <2>4
<1>14. ends => /\ c.st # "idle" /\ c.req \in Reads /\ c.req.a[2] \in Places /\ f.data \in [Places -> Word]
               /\ f.data[c.req.a[2]] = dram[c.req.a]
  <2> SUFFICES ASSUME ends PROVE c.st # "idle" /\ c.req \in Reads /\ c.req.a[2] \in Places
    BY <1>6, <1>12
  <2>1. c.st # "idle" /\ c.req \in Reads
    BY <1>1, <1>6 DEF Asking
  <2>2. c.req.a \in Addrs
    BY <2>1 DEF Reads
  <2> QED
    BY <2>1, <2>2, AddrFields
<1>15. out \in Word
  BY <1>1, <1>9, <1>13, <1>14, AddrAssumption DEF WcState, Word, Zero
<1>16. gives = (((hit \/ ends) /\ ~WcGivenUp(c, asked)) \/ wrote)
  BY <1>8
<1>17. gives /\ Active(asked) => Answered([dat |-> out], asked, dram)
  <2> SUFFICES ASSUME gives, Active(asked) PROVE Answered([dat |-> out], asked, dram)
    OBVIOUS
  <2>1. CASE hit
    <3>1. out = dram[asked.a] /\ asked.op = "rd"
      BY <1>3, <1>9, <1>13, <2>1
    <3> QED
      BY <3>1 DEF Answered
  <2>2. CASE ends /\ ~WcGivenUp(c, asked)
    <3>1. asked = c.req
      BY <1>14, <2>2 DEF WcGivenUp
    <3>2. ~hit
      BY <1>3, <1>14, <2>2
    <3>3. out = dram[asked.a] /\ asked.op = "rd"
      BY <1>9, <1>14, <2>2, <3>1, <3>2 DEF Reads
    <3> QED
      BY <3>3 DEF Answered
  <2>3. CASE wrote
    <3>1. Done(c.req) /\ asked = c.req /\ c.req \in CpuWrites
      BY <1>1, <1>7, <1>12, <2>3 DEF Asking
    <3> QED
      BY <3>1 DEF Answered, Done, CpuWrites
  <2> QED
    BY <1>16, <2>1, <2>2, <2>3
<1> DEFINE la == IF gives THEN out ELSE s.latched
           he == Active(asked) /\ (gives \/ s.held)
           pr == Active(asked) /\ ~low
           lo == low /\ s.st # "idle"
<1>18. la \in Word /\ he \in BOOLEAN /\ pr \in BOOLEAN /\ lo \in BOOLEAN
  BY <1>10, <1>12, <1>15 DEF WcState, Active
<1>19. (he => Active(asked) /\ gives) /\ (lo => s.st # "idle") /\ (s.st # "idle" /\ ~lo => ~low)
  BY <1>10, <1>12
<1>20. e.after = [s EXCEPT !.latched = la, !.held = he, !.prev = pr, !.low = lo]
  BY <1>11
<1> HIDE DEF la, he, pr, lo
<1>21. /\ e.after \in WcState /\ e.after.held = he /\ e.after.low = lo
       /\ e.after.st = s.st /\ e.after.we = s.we /\ e.after.req = s.req /\ e.after.dn = s.dn
       /\ e.after.data = s.data /\ e.after.valid = s.valid /\ e.after.tag = s.tag /\ e.after.word = s.word
       /\ e.after.ftag = s.ftag
  BY <1>12, <1>18, <1>20 DEF WcState
<1>22. Asking(e.after)
  BY <1>12, <1>21 DEF Asking
<1>23. LineIsSound(e.after, dram)
  BY <1>12, <1>21 DEF LineIsSound, Sent
<1>24. e.answer = [ack |-> gives, dat |-> out]
  BY <1>11
<1>25. e.answer \in [ack : BOOLEAN, dat : Word] /\ e.answer.ack = gives /\ e.answer.dat = out
  BY <1>10, <1>15, <1>24
<1>26. e.answer.ack /\ Active(asked) => Answered(e.answer, asked, dram)
  BY <1>17, <1>25 DEF Answered
<1>27. s.st # "idle" /\ ~low => s.req = asked /\ Active(asked)
  BY <1>2, <1>12
<1>28. s.st # "idle" /\ c.st = "idle" => ~gives
  <2> SUFFICES ASSUME s.st # "idle", c.st = "idle" PROVE ~gives
    OBVIOUS
  <2>1. ~hit /\ ~ends /\ ~wrote
    BY <1>3, <1>6, <1>7, <1>12
  <2> QED
    BY <1>16, <2>1
<1>29. s.we = "sent" => ~gives /\ s.req = asked /\ c.st = "idle"
  <2> SUFFICES ASSUME s.we = "sent" PROVE ~gives /\ s.req = asked /\ c.st = "idle"
    OBVIOUS
  <2>1. ~hit /\ ~ends /\ ~wrote
    BY <1>3, <1>6, <1>7, <1>12
  <2> QED
    BY <1>12, <1>16, <2>1
<1> QED
  BY <1>12, <1>19, <1>21, <1>22, <1>23, <1>25, <1>26, <1>27, <1>28, <1>29

\* One tick of the WishboneCache.
LEMMA WcStep ==
    ASSUME WcInv, Cache
    PROVE  /\ WcInv'
           /\ Active(cpu) /\ (IF cpuFirst THEN up.ack ELSE up'.ack) =>
                Right(IF cpuFirst THEN up.dat ELSE up'.dat)
<1>1. PICK asked : asked = IF cpuFirst THEN cpu' ELSE cpu
  OBVIOUS
<1>2. PICK e : e = WcEdge(asked, ram.ack, ram.dat)
  OBVIOUS
<1>3. PICK withdraws \in {FALSE, c.st # "idle"} :
        cpu' \in CpuTurn(IF cpuFirst THEN up ELSE e.answer, withdraws)
  BY <1>1, <1>2 DEF Cache
<1>4. /\ up' = e.answer /\ c' = e.after
      /\ Serve(e.after.dn) \/ (~ram.prev /\ ram' = ram /\ dram' = dram)
      /\ Watch
      /\ kind' = kind /\ cpuFirst' = cpuFirst
  BY <1>1, <1>2 DEF Cache
<1>5. /\ cpu \in {Idle} \cup CpuRequests /\ dram \in [MemAddrs -> Word]
      /\ Active(cpu) => dram[cpu.a] \in seen
      /\ c \in WcState /\ ram.prev \in BOOLEAN
      /\ ram.ack = ram.prev /\ (ram.prev => Active(c.dn) /\ Done(c.dn))
  BY DEF WcInv, AskedFor, WcTypes, DownInv
<1> DEFINE ack == IF cpuFirst THEN up.ack ELSE e.answer.ack
<1>6. /\ cpu' \in {Idle} \cup CpuRequests
      /\ Active(cpu) => cpu' \in {Idle, cpu}
      /\ Active(cpu) /\ ack => cpu' = Idle
      /\ Active(cpu) /\ ~ack /\ c.st = "idle" => cpu' = cpu
  BY <1>3, <1>5, IdleFields DEF CpuTurn, CpuRequests
<1>7. asked \in {Idle} \cup CpuRequests
  BY <1>1, <1>5, <1>6
<1>8. c.we = "sent" => asked = c.req
  <2> SUFFICES ASSUME c.we = "sent" PROVE asked = c.req
    OBVIOUS
  <2>1. cpu = c.req /\ c.st = "idle" /\ (cpuFirst => ~up.ack) /\ Active(cpu)
    BY CpuFields DEF WcInv, ForInv, DownInv, Asking, CpuRequests
  <2> QED
    BY <1>1, <1>6, <2>1
<1>9. c.st # "idle" /\ ~c.low => cpu = c.req \/ (cpu = Idle /\ ~cpuFirst)
  BY DEF WcInv, ForInv
<1>10. c.st # "idle" /\ ~c.low /\ Active(asked) => asked = c.req
  <2>1. c.st # "idle" => Active(c.req)
    BY CpuFields DEF WcInv, DownInv, Asking, CpuRequests
  <2> QED
    BY <1>1, <1>6, <1>9, <2>1, IdleFields
<1>11. ~(Active(asked) /\ c.held)
  <2>1. cpuFirst => (c.held => Active(cpu) /\ up.ack)
    BY DEF WcInv, ForInv
  <2>2. ~cpuFirst => (c.held => ~Active(cpu))
    BY DEF WcInv, ForInv
  <2> QED
    BY <1>1, <1>6, <2>1, <2>2, IdleFields
<1>12. /\ e.after \in WcState /\ Asking(e.after) /\ LineIsSound(e.after, dram)
       /\ e.answer \in [ack : BOOLEAN, dat : Word]
       /\ e.answer.ack /\ Active(asked) => Answered(e.answer, asked, dram)
       /\ ram.ack => e.after.dn = Idle
       /\ e.after.st # "idle" /\ ~e.after.low =>
            e.after.req = asked /\ Active(asked) /\ (c.st = "idle" => ~e.answer.ack)
       /\ e.after.we = "sent" => e.after.req = asked /\ ~e.answer.ack /\ c.st = "idle"
       /\ e.after.low => e.after.st # "idle"
       /\ e.after.held => Active(asked) /\ e.answer.ack
  BY <1>2, <1>7, <1>8, <1>10, <1>11, CacheEdge
<1>13. PICK t : t = e.after
  OBVIOUS
<1>14. /\ t \in WcState /\ Asking(t) /\ LineIsSound(t, dram) /\ c' = t
       /\ ram.ack => t.dn = Idle
       /\ t.we = "sent" => t.dn = t.req /\ t.st = "idle" /\ t.req \in CpuWrites
       /\ t.we # "sent" => t.dn = Idle \/ t.dn.op = "rd"
  <2>1. Asking(t) /\ t \in WcState /\ c' = t
    BY <1>4, <1>12, <1>13
  <2>2. t.we # "sent" => t.dn = Idle \/ t.dn.op = "rd"
    BY <2>1 DEF Asking, Active
  <2> QED
    BY <1>12, <1>13, <2>1, <2>2 DEF Asking
\* the memory
<1>15. /\ dram' \in [MemAddrs -> Word]
       /\ ram'.ack = ram'.prev /\ ram'.prev \in BOOLEAN
       /\ ram'.prev => Active(t.dn) /\ Done(t.dn)'
       /\ \/ dram' = dram
          \/ t.we = "sent" /\ dram' = [dram EXCEPT ![t.req.a] = Merge(@, t.req.v, t.req.sel)]
  <2>1. CASE Serve(e.after.dn)
    <3>1. t.dn \in {Idle} \cup LineReads \cup CpuRequests \cup ForeignWrites
      BY <1>14 DEF WcState, CpuRequests
    <3>2. ram.prev => ~Active(t.dn)
      BY <1>5, <1>14, IdleFields
    <3>3. ram.prev \in BOOLEAN
      BY <1>5
    <3>4. /\ dram' \in [MemAddrs -> Word]
          /\ ram'.ack = Active(t.dn) /\ ram'.prev = Active(t.dn)
          /\ Active(t.dn) => Done(t.dn)'
          /\ ram.prev \/ ~Active(t.dn) \/ t.dn.op = "rd" => dram' = dram
          /\ Active(t.dn) /\ ~ram.prev /\ t.dn.op = "wr" =>
               dram' = [dram EXCEPT ![t.dn.a] = Merge(@, t.dn.v, t.dn.sel)]
      BY <1>5, <1>13, <2>1, <3>1, <3>2, <3>3, ServeStep
    <3>5. t.we = "sent" => t.dn.op = "wr"
      BY <1>14 DEF CpuWrites
    <3> QED
      BY <1>14, <3>4, <3>5, IdleFields DEF Active
  <2>2. CASE ~ram.prev /\ ram' = ram /\ dram' = dram
    BY <1>5, <2>2
  <2> QED
    BY <1>4, <2>1, <2>2
<1>16. LineIsSound(t, dram')
  <2>1. PICK mm2 : mm2 = dram'
    OBVIOUS
  <2>2. CASE dram' = dram
    BY <1>14, <2>2
  <2>3. CASE t.we = "sent" /\ dram' = [dram EXCEPT ![t.req.a] = Merge(@, t.req.v, t.req.sel)]
    BY <1>5, <1>14, <2>3, WriteLands
  <2> QED
    BY <1>15, <2>2, <2>3
\* the CPU
<1>17. /\ Active(cpu') => dram[cpu'.a] \in seen' /\ dram'[cpu'.a] \in seen'
       /\ Active(cpu) /\ Active(cpu') => seen \subseteq seen'
  <2>1. Active(cpu) /\ Active(cpu') => cpu' = cpu /\ seen' = seen \cup {dram'[cpu.a]}
    BY <1>4, <1>6, IdleFields DEF Watch
  <2>2. ~Active(cpu) /\ Active(cpu') => seen' = {dram[cpu'.a], dram'[cpu'.a]}
    BY <1>4 DEF Watch
  <2> QED
    BY <1>5, <2>1, <2>2
<1>18. AskedFor'
  BY <1>6, <1>15, <1>17 DEF AskedFor
<1>19. WcTypes'
  BY <1>4, <1>12, <1>14 DEF WcTypes
<1>20. DownInv'
  BY <1>14, <1>15 DEF DownInv
<1>21. e.answer.ack /\ Active(asked) =>
          /\ asked.op \in {"rd", "wr"}
          /\ asked.op = "rd" => e.answer.dat = dram[asked.a]
          /\ asked.op = "wr" => \A b \in asked.sel : dram[asked.a][b] = asked.v[b]
  BY <1>7, <1>12, CpuFields, IdleFields DEF Answered
<1>22. ForInv'
  <2>1. t.low => t.st # "idle"
    BY <1>12, <1>13
  <2>2. t.st # "idle" /\ ~t.low => cpu' = t.req \/ (cpu' = Idle /\ ~cpuFirst)
    BY <1>1, <1>6, <1>12, <1>13
  <2>3. t.we = "sent" => cpu' = t.req
    <3> SUFFICES ASSUME t.we = "sent", ~cpuFirst PROVE cpu' = t.req
      BY <1>1, <1>12, <1>13
    <3>1. t.req = cpu /\ ~e.answer.ack /\ c.st = "idle"
      BY <1>1, <1>12, <1>13
    <3>2. Active(cpu)
      BY <1>14, <3>1, CpuFields DEF CpuRequests
    <3> QED
      BY <1>6, <3>1, <3>2
  <2>4. t.we = "sent" => ~up'.ack
    BY <1>4, <1>12, <1>13
  <2>5. cpuFirst => (t.held => Active(cpu') /\ up'.ack)
    BY <1>1, <1>4, <1>12, <1>13
  <2>6. ASSUME cpuFirst, Active(cpu'), up'.ack PROVE Right(up.dat)'
    <3>1. asked = cpu' /\ dram[cpu'.a] \in seen'
      BY <1>1, <1>17, <2>6
    <3> QED
      BY <1>4, <1>21, <2>6, <3>1 DEF Right
  <2>7. ~cpuFirst => (t.held => ~Active(cpu'))
    BY <1>1, <1>6, <1>12, <1>13, IdleFields
  <2> QED
    BY <1>4, <1>14, <2>1, <2>2, <2>3, <2>4, <2>5, <2>6, <2>7 DEF ForInv
<1>23. ASSUME Active(cpu), IF cpuFirst THEN up.ack ELSE up'.ack
       PROVE  Right(IF cpuFirst THEN up.dat ELSE up'.dat)
  <2>1. CASE cpuFirst
    BY <1>23, <2>1 DEF WcInv, ForInv
  <2>2. CASE ~cpuFirst
    <3>1. asked = cpu /\ e.answer.ack /\ up' = e.answer /\ dram[cpu.a] \in seen
      BY <1>1, <1>4, <1>5, <1>23, <2>2
    <3>2. Right(e.answer.dat)
      BY <1>21, <1>23, <3>1 DEF Right
    <3> QED
      BY <2>2, <3>1, <3>2
  <2> QED
    BY <2>1, <2>2
<1> QED
  BY <1>14, <1>16, <1>18, <1>19, <1>20, <1>22, <1>23 DEF WcInv

-----------------------------------------------------------------------------
(* Both. *)

LEMMA CachesStart == CacheInit => CacheInv
<1> SUFFICES ASSUME CacheInit PROVE CacheInv
  OBVIOUS
<1>1. /\ ~Active(Idle) /\ Zero \in Word /\ [w \in Places |-> Zero] \in [Places -> Word] /\ 0 \in Places
      /\ dram \in [MemAddrs -> Word]
  BY IdleFields, AddrAssumption DEF CacheInit, Zero, Word, Places, MemAddrs
<1>2. AskedFor
  BY <1>1 DEF CacheInit, AskedFor
<1>3. ~ram.prev /\ ~ram.ack /\ ram.prev = FALSE /\ ram.ack = FALSE /\ cpu = Idle
  BY DEF CacheInit
<1>4. CASE kind = "dcache"
  <2>1. c = DcInit
    BY <1>4 DEF CacheInit
  <2>2. c \in DcState
    BY <1>1, <2>1 DEF DcInit, DcState, Places
  <2>3. /\ c.busy = "no" /\ c.v = {} /\ c.rsp = FALSE /\ c.snprev = FALSE /\ c.own = Nil
    BY <2>1 DEF DcInit
  <2>4. bus = [holder |-> Nil, last |-> Nil, gap |-> FALSE, line |-> Idle] /\ other = Idle
    BY DEF CacheInit
  <2>5. DcTypes
    BY <2>2, <2>4 DEF DcTypes
  <2>6. PortInv
    BY <1>1, <1>3, <2>3, <2>4, NilAssumption DEF PortInv, Active
  <2>7. MachineInv /\ ValidWords(c, dram)
    BY <2>3 DEF MachineInv, WorksFor, ValidWords
  <2> QED
    BY <1>2, <1>4, <2>5, <2>6, <2>7 DEF CacheInv, DcInv
<1>5. CASE kind = "cache"
  <2>1. c = WcInit
    BY <1>5 DEF CacheInit
  <2>2. c \in WcState
    BY <1>1, <2>1 DEF WcInit, WcState, Places
  <2>3. /\ c.st = "idle" /\ c.we = "no" /\ c.dn = Idle /\ c.valid = FALSE /\ c.held = FALSE /\ c.low = FALSE
    BY <2>1 DEF WcInit
  <2>4. up = NoAnswer /\ up.ack = FALSE /\ up \in [ack : BOOLEAN, dat : Word]
    BY <1>1 DEF CacheInit, NoAnswer
  <2>5. WcTypes
    BY <2>2, <2>4 DEF WcTypes
  <2>6. DownInv
    BY <1>1, <1>3, <2>3 DEF DownInv, Asking
  <2>7. ForInv /\ LineIsSound(c, dram)
    BY <1>1, <1>3, <2>3, <2>4 DEF ForInv, LineIsSound
  <2> QED
    BY <1>2, <1>5, <2>5, <2>6, <2>7 DEF CacheInv, WcInv
<1> QED
  BY <1>4, <1>5 DEF CacheInit

LEMMA CachesStep ==
    ASSUME EchoIsWhole, CacheInv, [CacheNext]_cacheVars
    PROVE  /\ CacheInv'
           /\ \/ UNCHANGED cacheVars
              \/ Active(cpu) /\ ~Active(cpu') /\ Taken.ack => Right(Taken.dat)
<1>1. CASE Dcache
  <2>1. kind = "dcache" /\ kind' = kind
    BY <1>1 DEF Dcache
  <2>2. DcInv' /\ (Active(cpu) /\ DcAnswer(MemoryAnswer).ack => Right(DcAnswer(MemoryAnswer).dat))
    BY <1>1, <2>1, DcStep DEF CacheInv
  <2>3. Taken = DcAnswer(MemoryAnswer)
    BY <2>1 DEF Taken
  <2> QED
    BY <2>1, <2>2, <2>3 DEF CacheInv
<1>2. CASE Cache
  <2>1. kind = "cache" /\ kind' = kind
    BY <1>2 DEF Cache
  <2>2. /\ WcInv'
        /\ Active(cpu) /\ (IF cpuFirst THEN up.ack ELSE up'.ack) =>
             Right(IF cpuFirst THEN up.dat ELSE up'.dat)
    BY <1>2, <2>1, WcStep DEF CacheInv
  <2>3. Taken = IF cpuFirst THEN up ELSE up'
    BY <2>1 DEF Taken
  <2> QED
    BY <2>1, <2>2, <2>3 DEF CacheInv
<1>3. CASE UNCHANGED cacheVars
  <2>1. CacheInv'
    <3>1. CASE kind = "dcache"
      BY <1>3, <3>1 DEF cacheVars, CacheInv, DcInv, AskedFor, DcTypes, PortInv, MachineInv, WorksFor, ValidWords,
                        Coming, Right, Done, DcRequest, Hit
    <3>2. CASE kind # "dcache"
      BY <1>3, <3>2 DEF cacheVars, CacheInv, WcInv, AskedFor, WcTypes, DownInv, Asking, ForInv, LineIsSound,
                        Sent, Right, Done
    <3> QED
      BY <3>1, <3>2
  <2> QED
    BY <1>3, <2>1
<1> QED
  BY <1>1, <1>2, <1>3 DEF CacheNext

\* WishboneDcache.h, WishboneCache.h: a word the CPU is given is one the memory
\* had at its address while it was asking, and a write that is acknowledged has
\* been made, for any line, any addresses, either order of the parts, any other
\* master and any memory; of words that another master writes too, the CPU
\* writes all lanes at once.
THEOREM ReadsStayCurrent == EchoIsWhole => (CacheSpec => ReadsAreCurrent)
<1> SUFFICES ASSUME EchoIsWhole PROVE CacheSpec => ReadsAreCurrent
  OBVIOUS
<1>1. CacheInit => CacheInv
  BY CachesStart
<1>2. CacheInv /\ [CacheNext]_cacheVars => CacheInv'
  BY CachesStep
<1>3. CacheInv /\ [CacheNext]_cacheVars =>
        [Active(cpu) /\ ~Active(cpu') /\ Taken.ack =>
            IF cpu.op = "rd" THEN Taken.dat \in seen
            ELSE \E x \in seen : \A b \in cpu.sel : x[b] = cpu.v[b]]_cacheVars
  BY CachesStep DEF Right
<1> QED
  BY <1>1, <1>2, <1>3, PTL DEF CacheSpec, ReadsAreCurrent

-----------------------------------------------------------------------------
(* The interrupt controller.                                                *)

\* The strengthening: the ack is the bus as the last edge saw it; while it was
\* idle the last sources looked at are caught; and the number kept for a claim
\* that is still on the bus is in its context's hands.
AckIsPrev == busAck = prevStb
LastCaught == ~prevStb => lastSrc \subseteq pending \cup InService(insvc)
HeldIsServed == prevStb /\ busReq # NoAccess /\ busReq.op = "claim" /\ latched # 0 =>
    latched \in insvc[busReq.at]
DatIsHeld == busAck => busDat = latched

PlicInv ==
    /\ PlicTypeOK /\ OneHandler /\ WireIsCurrent
    /\ AckIsPrev /\ LastCaught /\ HeldIsServed /\ DatIsHeld

USE SizesAssumption, ContextsAssumption

LEMMA WaitingType == PlicTypeOK => Waiting \in SUBSET Sources
BY DEF PlicTypeOK, Waiting

\* A source that waits at an edge is in nobody's hands.
LEMMA WaitingIsFree == OneHandler => Waiting \cap InService(insvc) = {}
BY DEF OneHandler, Waiting

LEMMA PlicInitInv == PlicInit => PlicInv
<1> SUFFICES ASSUME PlicInit PROVE PlicInv
    OBVIOUS
<1>1. PlicTypeOK
  <2>1. 0 \in 0..N
    OBVIOUS
  <2>2. NoSources \in [Contexts -> SUBSET Sources]
    BY DEF NoSources
  <2> QED
    BY <2>1, <2>2 DEF PlicInit, PlicTypeOK
<1>2. OneHandler
    BY DEF PlicInit, OneHandler, NoSources
<1>3. Wanted(prio, thr, en, pending) = FALSE
    BY DEF PlicInit, Wanted
<1>4. WireIsCurrent
    BY <1>3 DEF PlicInit, WireIsCurrent
<1> QED
    BY <1>1, <1>2, <1>4 DEF PlicInit, PlicInv, AckIsPrev, LastCaught, HeldIsServed, DatIsHeld

\* The wires of the bus and of the sources.
LEMMA BusKeeps == PlicInv /\ Bus => PlicInv'
<1> SUFFICES ASSUME PlicInv, Bus PROVE PlicInv'
    OBVIOUS
<1>1. PlicTypeOK'
    BY DEF PlicInv, PlicTypeOK, Bus, Level, Request, Release
<1>2. OneHandler' /\ WireIsCurrent'
    BY DEF PlicInv, OneHandler, WireIsCurrent, Wanted, InService, Bus
<1>3. AckIsPrev' /\ LastCaught' /\ DatIsHeld'
    BY DEF PlicInv, AckIsPrev, LastCaught, DatIsHeld, InService, Bus
<1>4. HeldIsServed'
    BY DEF PlicInv, HeldIsServed, Bus, Level, Request, Release
<1> QED
    BY <1>1, <1>2, <1>3, <1>4 DEF PlicInv

\* What any edge that leaves the sources where they are preserves.
LEMMA RisingEdgeKeeps ==
    ASSUME PlicInv, RisingEdge, NEW d, Outputs(d), d = latched', d \in 0..N,
           pending' = Waiting, insvc' = insvc,
           prio' \in [Sources -> Levels], thr' \in [Contexts -> Levels],
           en' \in [Contexts -> SUBSET Sources],
           busReq # NoAccess /\ prevStb => latched' = latched,
           busReq # NoAccess /\ ~prevStb => latched' = 0
    PROVE  PlicInv'
<1>1. PlicTypeOK'
  <2>1. Waiting \in SUBSET Sources
    BY WaitingType DEF PlicInv
  <2> QED
    BY <2>1 DEF PlicInv, PlicTypeOK, RisingEdge, Outputs, Wanted
<1>2. OneHandler'
    BY WaitingIsFree DEF PlicInv, OneHandler, InService
<1>3. WireIsCurrent'
    BY DEF WireIsCurrent, Outputs, Wanted
<1>4. AckIsPrev' /\ DatIsHeld'
    BY DEF AckIsPrev, DatIsHeld, RisingEdge, Outputs
<1>5. LastCaught'
    BY DEF LastCaught, RisingEdge, Waiting, InService
<1>6. HeldIsServed'
    BY DEF PlicInv, HeldIsServed, RisingEdge
<1> QED
    BY <1>1, <1>2, <1>3, <1>4, <1>5, <1>6 DEF PlicInv

LEMMA HoldKeeps == PlicInv /\ Hold => PlicInv'
<1> SUFFICES ASSUME PlicInv, Hold PROVE PlicInv'
    OBVIOUS
<1>1. RisingEdge /\ Outputs(latched') /\ latched' \in 0..N /\ pending' = Waiting /\ insvc' = insvc
    BY DEF Hold, PlicInv, PlicTypeOK
<1>2. /\ prio' \in [Sources -> Levels] /\ thr' \in [Contexts -> Levels]
      /\ en' \in [Contexts -> SUBSET Sources]
    BY DEF Hold, PlicInv, PlicTypeOK
<1>3. /\ busReq # NoAccess /\ prevStb => latched' = latched
      /\ busReq # NoAccess /\ ~prevStb => latched' = 0
    BY DEF Hold
<1> QED
    BY <1>1, <1>2, <1>3, RisingEdgeKeeps

\* The accesses that write a register or nothing, and a claim of nothing.
LEMMA WritesKeep ==
    PlicInv /\ (WritePriority \/ WriteThreshold \/ WriteEnable \/ Other \/ ClaimNothing) => PlicInv'
<1> SUFFICES ASSUME PlicInv,
                    WritePriority \/ WriteThreshold \/ WriteEnable \/ Other \/ ClaimNothing
             PROVE  PlicInv'
    OBVIOUS
<1>1. /\ RisingEdge /\ Outputs(0) /\ latched' = 0 /\ pending' = Waiting /\ insvc' = insvc
      /\ ~prevStb
    BY DEF WritePriority, WriteThreshold, WriteEnable, Other, ClaimNothing, FirstEdge
<1>2. prio' \in [Sources -> Levels]
    BY DEF WritePriority, WriteThreshold, WriteEnable, Other, ClaimNothing, FirstEdge, PlicInv,
           PlicTypeOK, Requests
<1>3. thr' \in [Contexts -> Levels]
    BY DEF WritePriority, WriteThreshold, WriteEnable, Other, ClaimNothing, FirstEdge, PlicInv,
           PlicTypeOK, Requests
<1>4. en' \in [Contexts -> SUBSET Sources]
    BY DEF WritePriority, WriteThreshold, WriteEnable, Other, ClaimNothing, FirstEdge, PlicInv,
           PlicTypeOK, Requests
<1> QED
    BY <1>1, <1>2, <1>3, <1>4, RisingEdgeKeeps

\* A claim moves a source that is in nobody's hands into its context's.
LEMMA ClaimKeeps == PlicInv /\ Claim => PlicInv'
<1> SUFFICES ASSUME PlicInv, Claim PROVE PlicInv'
    OBVIOUS
<1>1. PICK s \in Sources : Claimed(s) /\ latched' = s /\ Outputs(s)
    BY DEF Claim
<1>2. /\ RisingEdge /\ busReq # NoAccess /\ busReq.op = "claim" /\ busReq.at \in Contexts
      /\ prio' = prio /\ thr' = thr /\ en' = en
    BY DEF Claim, FirstEdge, PlicInv, PlicTypeOK, Requests
<1>3. /\ s \in Waiting /\ pending' = Waiting \ {s}
      /\ insvc' = [insvc EXCEPT ![busReq.at] = @ \cup {s}]
    BY <1>1 DEF Claimed, IsBest, Candidates
<1>4. insvc \in [Contexts -> SUBSET Sources] /\ Waiting \in SUBSET Sources
    BY WaitingType DEF PlicInv, PlicTypeOK
<1>5. PlicTypeOK'
  <2>1. insvc' \in [Contexts -> SUBSET Sources]
    BY <1>3, <1>4
  <2>2. latched' \in 0..N /\ busDat' \in 0..N /\ pending' \in SUBSET Sources
    BY <1>1, <1>3, <1>4 DEF Outputs, Sources
  <2> QED
    BY <1>1, <1>2, <2>1, <2>2 DEF PlicInv, PlicTypeOK, RisingEdge, Outputs, Wanted
<1>6. OneHandler'
  <2>1. \A m \in Contexts : s \notin insvc[m]
    BY <1>3, WaitingIsFree DEF PlicInv, InService
  <2>2. \A m \in Contexts : insvc'[m] = IF m = busReq.at THEN insvc[m] \cup {s} ELSE insvc[m]
    BY <1>2, <1>3, <1>4
  <2>3. pending' \cap InService(insvc') = {}
    <3>1. \A m \in Contexts : insvc[m] \cap Waiting = {}
      BY WaitingIsFree DEF PlicInv, InService
    <3>2. \A m \in Contexts : insvc'[m] \cap pending' = {}
      BY <1>3, <2>2, <3>1
    <3> QED
      BY <3>2 DEF InService
  <2>4. \A m, d \in Contexts : m # d => insvc'[m] \cap insvc'[d] = {}
    <3> SUFFICES ASSUME NEW m \in Contexts, NEW d \in Contexts, m # d
                 PROVE  insvc'[m] \cap insvc'[d] = {}
      OBVIOUS
    <3>1. insvc[m] \cap insvc[d] = {} /\ s \notin insvc[m] /\ s \notin insvc[d]
      BY <2>1 DEF PlicInv, OneHandler
    <3>2. CASE m = busReq.at
      BY <2>2, <3>1, <3>2
    <3>3. CASE m # busReq.at
      BY <2>2, <3>1, <3>3
    <3> QED
      BY <3>2, <3>3
  <2> QED
    BY <2>3, <2>4 DEF OneHandler, InService
<1>7. WireIsCurrent'
    BY <1>1 DEF WireIsCurrent, Outputs, Wanted
<1>8. AckIsPrev' /\ DatIsHeld'
    BY <1>1, <1>2 DEF AckIsPrev, DatIsHeld, RisingEdge, Outputs
<1>9. LastCaught'
    BY <1>2 DEF LastCaught, RisingEdge
<1>10. HeldIsServed'
    BY <1>1, <1>2, <1>3, <1>4 DEF HeldIsServed, RisingEdge
<1> QED
    BY <1>5, <1>6, <1>7, <1>8, <1>9, <1>10 DEF PlicInv

LEMMA CompleteKeeps == PlicInv /\ Complete => PlicInv'
<1> SUFFICES ASSUME PlicInv, Complete PROVE PlicInv'
    OBVIOUS
<1>1. /\ RisingEdge /\ busReq # NoAccess /\ busReq.op = "complete" /\ busReq.at \in Contexts
      /\ prio' = prio /\ thr' = thr /\ en' = en
      /\ pending' = Waiting /\ latched' = 0 /\ Outputs(0)
      /\ insvc' = [insvc EXCEPT ![busReq.at] = @ \ Completed]
    BY DEF Complete, FirstEdge, PlicInv, PlicTypeOK, Requests
<1>2. insvc \in [Contexts -> SUBSET Sources] /\ Waiting \in SUBSET Sources
    BY WaitingType DEF PlicInv, PlicTypeOK
<1>3. insvc' \in [Contexts -> SUBSET Sources] /\ \A m \in Contexts : insvc'[m] \subseteq insvc[m]
    BY <1>1, <1>2
<1>4. PlicTypeOK'
    BY <1>1, <1>2, <1>3 DEF PlicInv, PlicTypeOK, RisingEdge, Outputs, Wanted
<1>5. OneHandler'
    BY <1>1, <1>3, WaitingIsFree DEF PlicInv, OneHandler, InService
<1>6. WireIsCurrent'
    BY <1>1 DEF WireIsCurrent, Outputs, Wanted
<1>7. AckIsPrev' /\ DatIsHeld' /\ LastCaught' /\ HeldIsServed'
    BY <1>1 DEF AckIsPrev, DatIsHeld, LastCaught, HeldIsServed, RisingEdge, Outputs
<1> QED
    BY <1>4, <1>5, <1>6, <1>7 DEF PlicInv

LEMMA PlicResetKeeps == PlicReset => PlicInv'
<1> SUFFICES ASSUME PlicReset PROVE PlicInv'
    OBVIOUS
<1>1. PlicTypeOK'
  <2>1. 0 \in 0..N
    OBVIOUS
  <2>2. NoSources \in [Contexts -> SUBSET Sources]
    BY DEF NoSources
  <2> QED
    BY <2>1, <2>2 DEF PlicReset, PlicTypeOK
<1>2. OneHandler'
    BY DEF PlicReset, OneHandler, NoSources
<1>3. Wanted(prio, thr, en, pending)' = FALSE
    BY DEF PlicReset, Wanted
<1>4. WireIsCurrent'
    BY <1>3 DEF PlicReset, WireIsCurrent
<1> QED
    BY <1>1, <1>2, <1>4 DEF PlicReset, PlicInv, AckIsPrev, LastCaught, HeldIsServed, DatIsHeld

LEMMA PlicStutterKeeps == PlicInv /\ UNCHANGED plicVars => PlicInv'
BY DEF PlicInv, plicVars, PlicTypeOK, OneHandler, WireIsCurrent, AckIsPrev, LastCaught, HeldIsServed,
       DatIsHeld, InService, Wanted

LEMMA PlicInductive == PlicInv /\ [PlicNext]_plicVars => PlicInv'
BY BusKeeps, HoldKeeps, WritesKeep, ClaimKeeps, CompleteKeeps, PlicResetKeeps, PlicStutterKeeps
   DEF PlicNext

\* The inductive invariant holds in every reachable state.
LEMMA PlicInvariant == PlicSpec => []PlicInv
BY PlicInitInv, PlicInductive, PTL DEF PlicSpec

-----------------------------------------------------------------------------
\* Every variable keeps its type.
THEOREM PlicTypesHold == PlicSpec => []PlicTypeOK
BY PlicInvariant, PTL DEF PlicInv

\* No source is ever in two handlers' hands, or offered again while it is in one's.
THEOREM OneHandlerHolds == PlicSpec => []OneHandler
BY PlicInvariant, PTL DEF PlicInv

\* The irq wire says at every moment what the registers say.
THEOREM WireAlwaysCurrent == PlicSpec => []WireIsCurrent
BY PlicInvariant, PTL DEF PlicInv

\* The quiet path, which looks at nothing but the wires, loses no level.
THEOREM NoLevelIsLost == PlicSpec => []NoLevelLost
<1>1. PlicInv => NoLevelLost
    BY DEF PlicInv, LastCaught, NoLevelLost, Quiet
<1> QED
    BY <1>1, PlicInvariant, PTL

\* Together: no interrupt gets lost on its way through the controller.
THEOREM NothingIsEverLost == PlicSpec => []NothingIsLost
BY WireAlwaysCurrent, NoLevelIsLost, PTL DEF NothingIsLost

\* The number a claim is answered with is in the asking context's hands for as
\* long as the answer is on the wire.
THEOREM AnswersAreServed == PlicSpec => []AnswerIsServed
<1>1. PlicInv => AnswerIsServed
    BY DEF PlicInv, AckIsPrev, HeldIsServed, DatIsHeld, AnswerIsServed
<1> QED
    BY <1>1, PlicInvariant, PTL

-----------------------------------------------------------------------------
(* The gateways. *)

LEMMA StageIs == OneHandler => \A s \in Sources :
    /\ s \in pending => Stage(s) = "waiting"
    /\ s \notin pending => \A m \in Contexts : s \in insvc[m] => Stage(s) = m
    /\ s \notin pending /\ s \notin InService(insvc) => Stage(s) = "idle"
BY DEF OneHandler, Stage, InService

LEMMA StageIsNext == OneHandler' => \A s \in Sources :
    /\ s \in pending' => Stage(s)' = "waiting"
    /\ s \notin pending' => \A m \in Contexts : s \in insvc'[m] => Stage(s)' = m
    /\ s \notin pending' /\ s \notin InService(insvc') => Stage(s)' = "idle"
BY DEF OneHandler, Stage, InService

\* The sources that arrive at an edge were idle.
LEMMA Arriving == PlicTypeOK /\ OneHandler => Waiting \ pending \subseteq
    {s \in Sources : [t \in Sources |-> Stage(t)][s] = "idle"}
BY StageIs, WaitingType DEF Waiting

LEMMA EdgeDelivers ==
    ASSUME PlicTypeOK, OneHandler, OneHandler', pending' = Waiting, insvc' = insvc
    PROVE  G!Deliver
<1> DEFINE A == Waiting \ pending
<1>1. A \in SUBSET {s \in Sources : [t \in Sources |-> Stage(t)][s] = "idle"}
    BY Arriving
<1>2. \A s \in Sources : Stage(s)' = IF s \in A THEN "waiting" ELSE Stage(s)
    BY StageIs, StageIsNext DEF Waiting, Stage
<1>3. [s \in Sources |-> Stage(s)]' = G!Arrived(A)
    BY <1>2 DEF G!Arrived
<1> QED
    BY <1>1, <1>3 DEF G!Deliver

LEMMA ClaimDelivers == ASSUME PlicInv, PlicInv', Claim PROVE G!Deliver
<1> DEFINE A == Waiting \ pending
<1>1. PICK s \in Sources : Claimed(s)
    BY DEF Claim
<1>2. s \in Waiting /\ pending' = Waiting \ {s} /\ busReq.at \in Contexts
      /\ insvc' = [insvc EXCEPT ![busReq.at] = @ \cup {s}]
    BY <1>1 DEF Claimed, IsBest, Candidates, Claim, FirstEdge, PlicInv, PlicTypeOK, Requests
<1>3. A \in SUBSET {r \in Sources : [t \in Sources |-> Stage(t)][r] = "idle"}
    BY Arriving DEF PlicInv
<1>4. insvc \in [Contexts -> SUBSET Sources]
    BY DEF PlicInv, PlicTypeOK
<1>5. Stage(s)' = busReq.at
    BY <1>2, <1>4, StageIsNext DEF PlicInv
<1>6. G!Arrived(A)[s] = "waiting"
    BY <1>2, StageIs DEF G!Arrived, PlicInv
<1>7. \A r \in Sources : r # s => Stage(r)' = G!Arrived(A)[r]
  <2> SUFFICES ASSUME NEW r \in Sources, r # s PROVE Stage(r)' = G!Arrived(A)[r]
    OBVIOUS
  <2>1. \A m \in Contexts : r \in insvc'[m] <=> r \in insvc[m]
    BY <1>2, <1>4
  <2>2. CASE r \in Waiting
    BY <1>2, <2>2, StageIs, StageIsNext DEF G!Arrived, PlicInv
  <2>3. CASE r \notin Waiting
    <3>1. r \notin pending /\ r \notin pending'
      BY <1>2, <2>3 DEF Waiting
    <3>2. G!Arrived(A)[r] = Stage(r)
      BY <2>3 DEF G!Arrived
    <3>3. CASE \E m \in Contexts : r \in insvc[m]
      BY <2>1, <3>1, <3>2, <3>3, StageIs, StageIsNext DEF PlicInv
    <3>4. CASE \A m \in Contexts : r \notin insvc[m]
      BY <2>1, <3>1, <3>2, <3>4, StageIs, StageIsNext DEF PlicInv, InService
    <3> QED
      BY <3>3, <3>4
  <2> QED
    BY <2>2, <2>3
<1>8. [r \in Sources |-> Stage(r)]' = [G!Arrived(A) EXCEPT ![s] = busReq.at]
    BY <1>5, <1>7 DEF G!Arrived
<1> QED
    BY <1>2, <1>3, <1>6, <1>8 DEF G!Deliver

LEMMA CompleteIsDone == ASSUME PlicInv, PlicInv', Complete PROVE G!Deliver \/ G!Done
<1> DEFINE A == Waiting \ pending
<1>0. PICK s : s = busReq.val
    OBVIOUS
<1>1. /\ busReq.at \in Contexts /\ pending' = Waiting
      /\ insvc' = [insvc EXCEPT ![busReq.at] = @ \ Completed]
    BY DEF Complete, FirstEdge, PlicInv, PlicTypeOK, Requests
<1>2. insvc \in [Contexts -> SUBSET Sources] /\ en \in [Contexts -> SUBSET Sources]
    BY DEF PlicInv, PlicTypeOK
<1>3. CASE s \in en[busReq.at] /\ s \in insvc[busReq.at]
  <2>1. s \in Sources /\ s \notin Waiting
    BY <1>1, <1>2, <1>3, WaitingIsFree DEF PlicInv, InService
  <2>2. \A m \in Contexts : insvc'[m] = IF m = busReq.at THEN insvc[m] \ {s} ELSE insvc[m]
    BY <1>0, <1>1, <1>2, <1>3 DEF Completed
  <2>3. A \in SUBSET {r \in Sources : [t \in Sources |-> Stage(t)][r] = "idle"}
    BY Arriving DEF PlicInv
  <2>4. Stage(s) = busReq.at
    BY <1>1, <1>3, <2>1, StageIs DEF PlicInv, Waiting
  <2>5. Stage(s)' = "idle"
    <3>1. \A m \in Contexts : s \notin insvc'[m]
      <4>1. \A m \in Contexts : m # busReq.at => s \notin insvc[m]
        BY <1>1, <1>3 DEF PlicInv, OneHandler
      <4> QED
        BY <2>2, <4>1
    <3>2. s \notin InService(insvc')
      BY <3>1 DEF InService
    <3> QED
      BY <1>1, <2>1, <3>2, StageIsNext DEF PlicInv
  <2>6. \A r \in Sources : r # s => Stage(r)' = G!Arrived(A)[r]
    <3> SUFFICES ASSUME NEW r \in Sources, r # s PROVE Stage(r)' = G!Arrived(A)[r]
      OBVIOUS
    <3>1. \A m \in Contexts : r \in insvc'[m] <=> r \in insvc[m]
      BY <2>2
    <3>2. CASE r \in Waiting
      BY <1>1, <3>2, StageIs, StageIsNext DEF G!Arrived, PlicInv
    <3>3. CASE r \notin Waiting
      <4>1. r \notin pending /\ r \notin pending' /\ G!Arrived(A)[r] = Stage(r)
        BY <1>1, <3>3 DEF Waiting, G!Arrived
      <4>2. CASE \E m \in Contexts : r \in insvc[m]
        BY <3>1, <4>1, <4>2, StageIs, StageIsNext DEF PlicInv
      <4>3. CASE \A m \in Contexts : r \notin insvc[m]
        BY <3>1, <4>1, <4>3, StageIs, StageIsNext DEF PlicInv, InService
      <4> QED
        BY <4>2, <4>3
    <3> QED
      BY <3>2, <3>3
  <2>7. [r \in Sources |-> Stage(r)]' = [G!Arrived(A) EXCEPT ![s] = "idle"]
    BY <2>5, <2>6 DEF G!Arrived
  <2> QED
    BY <1>1, <2>1, <2>3, <2>4, <2>7 DEF G!Done
<1>4. CASE ~(s \in en[busReq.at] /\ s \in insvc[busReq.at])
  <2>1. insvc' = insvc
    BY <1>0, <1>1, <1>2, <1>4 DEF Completed
  <2> QED
    BY <1>1, <2>1, EdgeDelivers DEF PlicInv
<1> QED
    BY <1>3, <1>4

\* Every step of the controller is a step of the gateways, or leaves them alone.
LEMMA StepRefines ==
    ASSUME PlicInv, PlicInv', [PlicNext]_plicVars
    PROVE  [G!Deliver \/ G!Done \/ G!Forget]_([s \in Sources |-> Stage(s)])
<1>1. CASE Bus \/ UNCHANGED plicVars
  <2>1. pending' = pending /\ insvc' = insvc
    BY <1>1 DEF Bus, plicVars
  <2>2. \A s \in Sources : Stage(s)' = Stage(s)
    BY <2>1 DEF Stage, InService
  <2> QED
    BY <2>2
<1>2. CASE Hold \/ WritePriority \/ WriteThreshold \/ WriteEnable \/ Other \/ ClaimNothing
    BY <1>2, EdgeDelivers
       DEF PlicInv, Hold, WritePriority, WriteThreshold, WriteEnable, Other, ClaimNothing
<1>3. CASE Claim
    BY <1>3, ClaimDelivers
<1>4. CASE Complete
    BY <1>4, CompleteIsDone
<1>5. CASE PlicReset
    BY <1>5 DEF PlicReset, G!Forget, Stage, InService, NoSources
<1> QED
    BY <1>1, <1>2, <1>3, <1>4, <1>5 DEF PlicNext

\* The controller implements a gateway for every source, however many there
\* are, with whatever priorities and accesses.
THEOREM PlicIsGateway == PlicSpec => ImplementsGateway
<1>1. PlicInit => G!Init
    BY DEF PlicInit, G!Init, Stage, InService, NoSources
<1>2. PlicInv /\ PlicInv' /\ [PlicNext]_plicVars
        => [G!Deliver \/ G!Done \/ G!Forget]_([s \in Sources |-> Stage(s)])
    BY StepRefines
<1> QED
    BY <1>1, <1>2, PlicInvariant, PTL DEF PlicSpec, ImplementsGateway, G!Spec
=============================================================================
