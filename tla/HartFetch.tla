------------------------------ MODULE HartFetch ------------------------------
(* Instruction fetch of RiscVCPU: the direct-mapped cache of decoded words,  *)
(* and 32-bit instructions that lie across two words, while code is stored   *)
(* into memory.  A page of the model has two words; a word holds, from its   *)
(* first half, an instruction of its own, or, from its second, one that goes *)
(* on in the next word.  What a word holds is the number of times it has     *)
(* been stored to.                                                           *)
EXTENDS Naturals, FiniteSets, TLC

CONSTANTS Pages,     \* virtual pages, from 0
          Frames,    \* physical pages, from 0
          Map,       \* what the page tables say
          MaxStores  \* bound: stores to code

\* Two pages that lie next to each other virtually: behind the first there is
\* memory, though it need not be the second.
ASSUME FramesAssumption ==
  /\ Cardinality(Frames) \in Nat /\ Frames = 0 .. (Cardinality(Frames) - 1)
  /\ Map \in [Pages -> Frames]
  /\ \A p \in Pages : p + 1 \in Pages => Map[p] + 1 \in Frames

CodeWords == 0 .. (2 * Cardinality(Frames) - 1)
Lines == {0, 1}
Line(a) == a % 2
NoLine == [valid |-> FALSE, word |-> 0, raw |-> 0, whole |-> <<>>]

VARIABLES code,    \* memory: the version of every word
          stores,  \* stores to it so far
          icache,  \* per line: the word, its version, the instruction across
          fetch,   \* phase, word, whether across, the first word's version
          ran,     \* (history) the parts of the instruction executed last
          fresh    \* (history) the versions of every word since the last FENCE.I
fetchVars == <<code, stores, icache, fetch, ran, fresh>>

Ready == [phase |-> "FETCH"]
FetchInit ==
  /\ code = [a \in CodeWords |-> 0] /\ stores = 0
  /\ icache = [l \in Lines |-> NoLine]
  /\ fetch = Ready /\ ran = {}
  /\ fresh = [a \in CodeWords |-> {0}]

Holds(a) == icache[Line(a)].valid /\ icache[Line(a)].word = a
Raw(a) == icache[Line(a)].raw

(* Word w of page p, at physical word a; the second half is looked for      *)
(* where the physical address goes on.                                      *)
Runs(vpage, vword, across, parts) ==
  /\ ran' = {[part |-> i, page |-> vpage, word |-> vword, across |-> across,
              from |-> parts[i][1], version |-> parts[i][2]] : i \in DOMAIN parts}
  /\ fetch' = Ready

FromCache(p, w, across, a) ==
  /\ Holds(a)
  /\ IF ~across THEN Runs(p, w, across, <<<<a, Raw(a)>>>>)
     ELSE IF icache[Line(a)].whole /= <<>>
     THEN Runs(p, w, across, icache[Line(a)].whole)
     ELSE Holds(a + 1) /\ Runs(p, w, across, <<<<a, Raw(a)>>, <<a + 1, Raw(a + 1)>>>>)
  /\ UNCHANGED icache
FromBus(p, w, across, a) ==
  /\ Holds(a) => across /\ icache[Line(a)].whole = <<>> /\ ~Holds(a + 1)
  /\ fetch' = [phase |-> "WAIT_FETCH", page |-> p, word |-> w, across |-> across, at |-> a]
  /\ UNCHANGED <<icache, ran>>
Fetch ==
  /\ fetch.phase = "FETCH"
  /\ \E p \in Pages, w \in {0, 1}, across \in BOOLEAN :
       /\ across /\ w = 1 => p + 1 \in Pages
       /\ LET a == 2 * Map[p] + w
          IN  FromCache(p, w, across, a) \/ FromBus(p, w, across, a)
  /\ UNCHANGED <<code, stores, fresh>>

(* Mutant: the instruction across is not forgotten with the line.           *)
Filled_KeepsWhole(a) ==
  [valid |-> TRUE, word |-> a, raw |-> code[a], whole |-> icache[Line(a)].whole]
Filled(a) == [valid |-> TRUE, word |-> a, raw |-> code[a], whole |-> <<>>]
WaitFetch ==
  /\ fetch.phase = "WAIT_FETCH"
  /\ icache' = [icache EXCEPT ![Line(fetch.at)] = Filled(fetch.at)]
  /\ IF fetch.across
     THEN /\ fetch' = [phase |-> "WAIT_FETCH_HI", page |-> fetch.page, word |-> fetch.word,
                       across |-> TRUE, at |-> fetch.at, word0 |-> code[fetch.at]]
          /\ UNCHANGED ran
     ELSE Runs(fetch.page, fetch.word, FALSE, <<<<fetch.at, code[fetch.at]>>>>)
  /\ UNCHANGED <<code, stores, fresh>>

WaitFetchHi ==
  /\ fetch.phase = "WAIT_FETCH_HI"
  /\ LET whole == <<<<fetch.at, fetch.word0>>, <<fetch.at + 1, code[fetch.at + 1]>>>>
     IN  /\ Runs(fetch.page, fetch.word, TRUE, whole)
         /\ icache' = IF Holds(fetch.at)
                      THEN [icache EXCEPT ![Line(fetch.at)].whole = whole] ELSE icache
  /\ UNCHANGED <<code, stores, fresh>>

StoreCode ==
  /\ stores < MaxStores /\ stores' = stores + 1
  /\ \E a \in CodeWords :
       /\ code' = [code EXCEPT ![a] = @ + 1]
       /\ fresh' = [fresh EXCEPT ![a] = @ \cup {code[a] + 1}]
  /\ UNCHANGED <<icache, fetch>> /\ ran' = {}

FenceI ==
  /\ fetch.phase = "FETCH"
  /\ icache' = [l \in Lines |-> [icache[l] EXCEPT !.valid = FALSE]]
  /\ fresh' = [a \in CodeWords |-> {code[a]}]
  /\ UNCHANGED <<code, stores, fetch>> /\ ran' = {}

FetchNext == Fetch \/ WaitFetch \/ WaitFetchHi \/ StoreCode \/ FenceI
FetchSpec == FetchInit /\ [][FetchNext]_fetchVars

(* Every part of an instruction that is executed is what memory has held    *)
(* some time since the last FENCE.I, however its two words got into the     *)
(* cache.                                                                   *)
CodeIsFresh == \A r \in ran : r.version \in fresh[r.from]

(* The two parts of an instruction are at the addresses its own two virtual *)
(* addresses translate to.                                                  *)
MappedAt(r) ==
  IF r.part = 1 THEN 2 * Map[r.page] + r.word
  ELSE IF r.word = 0 THEN 2 * Map[r.page] + 1 ELSE 2 * Map[r.page + 1]
FetchIsTranslated == \A r \in ran : r.from = MappedAt(r)
=============================================================================
