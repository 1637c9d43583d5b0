------------------------------- MODULE HartMmu -------------------------------
(* Address translation of RiscVCPU (Sv32/Sv39): the two-way TLB, the cache   *)
(* of top-level entries, and the walk that reads one page-table entry after  *)
(* another over the bus while software edits the tables.  A table has two    *)
(* levels; all pages of the model compete for one set of the TLB.  A page    *)
(* table entry points to a table or maps a page: readable, perhaps writable, *)
(* perhaps dirty, perhaps open to user mode.                                 *)
EXTENDS Privilege, FiniteSets

CONSTANTS Roots,     \* the page tables satp may name
          Tops, Lows,\* the two halves of a page number
          Asid,      \* the address space of each root
          TopEntries, LowEntries, \* what software stores in tables of the two levels
          Tables,    \* the tables of the lower level
          Fault,
          Boot,      \* the tables software starts with
          MaxEdits   \* bound: stores to page tables

NoEntry == [kind |-> "invalid"]
Slots == ({"top"} \X Roots \X Tops) \cup ({"low"} \X Tables \X Lows)
Ways == {1, 2}
Empty == [valid |-> FALSE]

ASSUME EntriesAssumption ==
  /\ Roots /= {}
  /\ Boot \in [Slots -> TopEntries \cup LowEntries]
  /\ \A e \in TopEntries \cup LowEntries : e.kind = "table" => e.to \in Tables

VARIABLES tables,  \* the page tables in memory
          edits,   \* stores to them so far
          satp,    \* the root in use
          priv, sum,
          tlb, lru,
          l1,      \* the cached top-level entry
          step,   \* READY, WALK while an entry is read, RETRY once it is in the TLB
          req,     \* the access being translated: page, kind of access
          level, pte,  \* of the walk: level and slot of the entry being read
          walks,   \* (history) walks of the access so far
          recent   \* (history) the entries each slot has held since the last fence
mmuVars == <<tables, edits, satp, priv, sum, tlb, lru, l1, step, req, level, pte, walks, recent>>
machine == <<tables, edits, satp, priv, sum>>

NoRequest == [page |-> <<>>, kind |-> "none"]

MmuInit ==
  /\ tables = Boot
  /\ edits = 0 /\ satp = (CHOOSE r \in Roots : TRUE) /\ priv = S /\ sum = FALSE
  /\ tlb = [w \in Ways |-> Empty] /\ lru = 1 /\ l1 = Empty
  /\ step = "READY" /\ req = NoRequest /\ level = 1 /\ pte = <<>>
  /\ walks = 0
  /\ recent = [s \in Slots |-> {tables[s]}]

(***************************************************************************)
(* checkPerms, and the dirty bit, which a store must find set.             *)
(***************************************************************************)
Permits(e, kind) ==
  /\ kind = "store" => e.w
  /\ priv = U => e.u
  /\ priv = S /\ e.u => kind /= "fetch" /\ sum
Marked(e, kind) == kind = "store" => e.d
LowBits(page, e, lev) == IF lev = 1 THEN e.to + page[2] ELSE e.to
Aligned(e, lev) == lev = 1 => e.to % Cardinality(Lows) = 0

(***************************************************************************)
(* mmuTranslate.                                                           *)
(***************************************************************************)
\* Mutant: entries are compared by the low half of the page number.
Matching_ByLow(page) == {w \in Ways : tlb[w].valid /\ tlb[w].page[2] = page[2]}
Matching(page) == {w \in Ways : tlb[w].valid /\ tlb[w].page = page /\ tlb[w].asid = Asid[satp]}
First(ws) == IF 1 \in ws THEN 1 ELSE 2

Ends == step' = "READY" /\ walks' = 0 /\ req' = NoRequest
TlbHit(page, kind) ==
  /\ Matching(page) /= {}
  /\ LET w == First(Matching(page))
     IN  /\ Permits(tlb[w], kind) /\ Marked(tlb[w], kind)
         /\ Ends
         /\ lru' = 3 - w
  /\ UNCHANGED <<tlb, l1, level, pte, recent>>
TlbFault(page, kind) ==
  /\ Matching(page) /= {}
  /\ ~Permits(tlb[First(Matching(page))], kind)
  /\ Ends
  /\ UNCHANGED <<tlb, lru, l1, level, pte, recent>>
L1Hit(page) == l1.valid /\ l1.top = page[1]
Walk(page, kind) ==
  /\ LET ws == Matching(page)
     IN  ws /= {} => Permits(tlb[First(ws)], kind) /\ ~Marked(tlb[First(ws)], kind)
  /\ step' = "WALK" /\ walks' = walks + 1
  /\ req' = [page |-> page, kind |-> kind]
  /\ level' = IF L1Hit(page) THEN 0 ELSE 1
  /\ pte' = IF L1Hit(page) THEN <<"low", l1.to, page[2]>> ELSE <<"top", satp, page[1]>>
  /\ UNCHANGED <<tlb, lru, l1, recent>>
Translate(page, kind) == TlbHit(page, kind) \/ TlbFault(page, kind) \/ Walk(page, kind)

Access ==
  /\ step = "READY"
  /\ \E page \in Tops \X Lows, kind \in {"fetch", "load", "store"} : Translate(page, kind)
  /\ UNCHANGED machine
(* The TLB has been filled: the instruction is fetched, or executed, again. *)
Retry ==
  /\ step = "RETRY" /\ Translate(req.page, req.kind)
  /\ UNCHANGED machine
(* ... unless, before it is executed again, an interrupt comes, and with it *)
(* another privilege.                                                       *)
Abandon ==
  /\ step = "RETRY" /\ req.kind /= "fetch" /\ priv' = S /\ Ends
  /\ UNCHANGED <<tables, edits, satp, sum, tlb, lru, l1, level, pte, recent>>

(***************************************************************************)
(* handlePte: the entry arrives.                                           *)
(***************************************************************************)
Faults(e) ==
  \/ e.kind = "invalid"
  \/ e.kind = "table" /\ level = 0
  \/ /\ e.kind = "page"
     /\ ~Aligned(e, level) \/ ~Permits(e, req.kind) \/ ~Marked(e, req.kind)
\* Mutant: a full set always gives up its second way.
Way_Fixed == IF ~tlb[1].valid THEN 1 ELSE 2
Way == IF ~tlb[1].valid THEN 1 ELSE IF ~tlb[2].valid THEN 2 ELSE lru

PteFaults ==
  /\ Faults(tables[pte])
  /\ Ends
  /\ UNCHANGED <<tlb, lru, l1, level, pte, recent>>
PteMaps ==
  LET e == tables[pte] IN
  /\ e.kind = "page" /\ ~Faults(e)
  /\ tlb' = [tlb EXCEPT ![Way] = [valid |-> TRUE, page |-> req.page, asid |-> Asid[satp],
                                  to |-> LowBits(req.page, e, level),
                                  w |-> e.w, d |-> e.d, u |-> e.u]]
  /\ lru' = 3 - Way
  /\ step' = "RETRY"
  /\ UNCHANGED <<l1, req, level, pte, walks, recent>>
PteDescends ==
  LET e == tables[pte] IN
  /\ e.kind = "table" /\ ~Faults(e)
  /\ l1' = [valid |-> TRUE, top |-> req.page[1], to |-> e.to]
  /\ level' = 0 /\ pte' = <<"low", e.to, req.page[2]>>
  /\ UNCHANGED <<tlb, lru, step, req, walks, recent>>
HandlePte ==
  /\ step = "WALK"
  /\ PteFaults \/ PteMaps \/ PteDescends
  /\ UNCHANGED machine

(***************************************************************************)
(* Software.  Stores to the tables come from any hart or device, and at    *)
(* any time; the rest from this hart, between two instructions.            *)
(***************************************************************************)
Edit ==
  /\ edits < MaxEdits /\ edits' = edits + 1
  /\ \E s \in Slots :
       \E e \in (IF s[1] = "top" THEN TopEntries ELSE LowEntries) \ {tables[s]} :
         /\ tables' = [tables EXCEPT ![s] = e]
         /\ recent' = [recent EXCEPT ![s] = @ \cup {e}]
  /\ UNCHANGED <<satp, priv, sum, tlb, lru, l1, step, req, level, pte, walks>>
\* Mutant: a flush leaves the cached top-level entry.
Flushed_KeepsL1 ==
  /\ tlb' = [w \in Ways |-> Empty] /\ l1' = l1
  /\ recent' = [s \in Slots |-> {tables[s]}]
Flushed ==
  /\ tlb' = [w \in Ways |-> Empty] /\ l1' = Empty
  /\ recent' = [s \in Slots |-> {tables[s]}]
SfenceVma ==
  /\ step = "READY" /\ priv = S /\ Flushed
  /\ UNCHANGED <<machine, lru, step, req, level, pte, walks>>
WriteSatp ==
  /\ step = "READY" /\ priv = S /\ Flushed
  /\ satp' \in Roots
  /\ UNCHANGED <<tables, edits, priv, sum, lru, step, req, level, pte, walks>>
ChangePrivilege ==
  /\ step = "READY"
  /\ \/ priv' = S + U - priv /\ sum' = sum
     \/ priv = S /\ sum' = ~sum /\ priv' = priv
  /\ UNCHANGED <<tables, edits, satp, tlb, lru, l1, step, req, level, pte, walks, recent>>

MmuNext ==
  \/ Access \/ Retry \/ Abandon \/ HandlePte \/ Edit \/ SfenceVma \/ WriteSatp \/ ChangePrivilege
MmuSpec == MmuInit /\ [][MmuNext]_mmuVars

(***************************************************************************)
(* What must hold.                                                         *)
(***************************************************************************)
(* The ways through the tables, each entry one that its slot has held since *)
(* the last fence.                                                          *)
Outcome(e, lev, page, kind) ==
  IF e.kind = "page" /\ Aligned(e, lev) /\ Permits(e, kind) /\ Marked(e, kind)
  THEN LowBits(page, e, lev) ELSE Fault
Possible(page, kind) ==
  LET tops == recent[<<"top", satp, page[1]>>]
  IN  {Outcome(e, 1, page, kind) : e \in {t \in tops : t.kind /= "table"}}
      \cup UNION {{Outcome(e, 0, page, kind) : e \in recent[<<"low", t.to, page[2]>>]} :
                    t \in {x \in tops : x.kind = "table"}}

(* An access is given the page, or the fault, that the tables in use have   *)
(* held some time since the last SFENCE.VMA or write of satp, with the      *)
(* privilege of now: nothing older survives in the TLB or in the cache of   *)
(* top-level entries, and no fault is invented.                             *)
Given(page, kind) ==
  IF Matching(page) = {} THEN {}
  ELSE LET e == tlb[First(Matching(page))]
       IN  IF ~Permits(e, kind) THEN {Fault} ELSE IF Marked(e, kind) THEN {e.to} ELSE {}
TranslationIsRecent ==
  /\ \A page \in Tops \X Lows, kind \in {"fetch", "load", "store"} :
       \A given \in Given(page, kind) : given \in Possible(page, kind)
  /\ step = "WALK" /\ Faults(tables[pte]) => Fault \in Possible(req.page, req.kind)

(* A page whose TLB entry is too clean for a store is walked again and      *)
(* lands in the other way; the access ends all the same, after two walks.   *)
WalksEnd == walks <= 2

TranslationIsSound == TranslationIsRecent /\ WalksEnd
=============================================================================
