------------------------ MODULE DllLifecycle_proofs ------------------------
(* Proofs about DllLifecycle, for every set of circuits and components.      *)
EXTENDS DllHistory, FiniteSetTheorems, TLAPS

-----------------------------------------------------------------------------
(* The inductive invariant. *)

Running == {"entering", "global_init", "creating", "calling"}
Leaving == {"leaving", "global_deinit", "unloading", "closing"}
Unbuilt == {"destroying", "cleanup", "erasing", "erase_closing", "loading"}

\* Where a call on k is, against the flags of k.
CircuitInv(k) ==
    /\ compiled[k] => canDeinit[k]
    /\ started[k] => canDeinit[k]
    /\ pc[k] \in Running => compiled[k]
    /\ pc[k] \in Unbuilt => ~started[k]
    /\ pc[k] \in Leaving /\ op[k] # "rollback" => ~started[k]
    /\ pc[k] \in {"global_deinit", "unloading"} =>
         cur[k] \in Comps /\ Owner[cur[k]] = k /\ ~initCalled[cur[k]]
    /\ \A c \in rem[k] \cup doomed[k] : Owner[c] = k
    /\ pc[k] \in {"entering", "global_init", "loading"} => \A c \in rem[k] : has[c]

\* A component that counts as initialised will be seen by the simDeinit of its
\* circuit before its handle can go.
CompInv(c) ==
    /\ loaded[c] => has[c]
    /\ initCalled[c] =>
         /\ loaded[c]
         /\ \/ started[Owner[c]]
            \/ pc[Owner[c]] \in {"entering", "global_init", "creating", "destroying"}
            \/ pc[Owner[c]] \in Leaving /\ c \in rem[Owner[c]]

Counts ==
    /\ refs = Cardinality(Holders) /\ simRefs = Cardinality(Inside)
    /\ opened = Cardinality(Closing) + (IF refs = 0 THEN 0 ELSE 1)

IInv ==
    /\ TypeOK /\ Counts
    /\ \A k \in Circuits : CircuitInv(k)
    /\ \A c \in Comps : CompInv(c)

\* Without a failing init: what compiled code may call is mapped.
CodeInv(k) ==
    /\ op[k] # "rollback"
    /\ pc[k] \in Leaving \cup {"destroying", "erasing", "erase_closing", "loading"} => ~canDeinit[k]
    /\ pc[k] = "destroying" => \A c \in rem[k] : loaded[c] /\ jit[c] = "live"
    /\ canDeinit[k] =>
         \A c \in Comps : Owner[c] = k /\ jit[c] # "none" => loaded[c] /\ jit[c] = "live"
    /\ pc[k] = "loading" =>
         \A c \in Comps : Owner[c] = k => jit[c] = "none" /\ (has[c] /\ c \notin rem[k] =>
             loaded[c])
    /\ pc[k] \in {"creating", "calling"} => \A c \in rem[k] : jit[c] # "none"
SafeInv == \A k \in Circuits : CodeInv(k)
\* No simInit throws in this step.
NoneThrows == \A k \in Circuits : op'[k] # "rollback"

-----------------------------------------------------------------------------
(* Counting. *)

\* The members of a finite set a Boolean function holds of.
Where(f) == {c \in Comps : f[c]}

\* There are finitely many of them, and none iff the count is zero.
LEMMA CountType ==
    ASSUME NEW f PROVE  /\ IsFiniteSet(Where(f)) /\ Cardinality(Where(f)) \in Nat
                        /\ Cardinality(Where(f)) = 0 <=> \A c \in Comps : ~f[c]
<1>1. Where(f) \subseteq Comps
  BY DEF Where
<1>2. IsFiniteSet(Where(f))
  BY <1>1, FiniteAssumption, FS_Subset
<1>3. Cardinality(Where(f)) \in Nat /\ (Cardinality(Where(f)) = 0 <=> Where(f) = {})
  BY <1>2, FS_CardinalityType, FS_EmptySet
<1> QED
  BY <1>2, <1>3 DEF Where

\* Setting one more entry counts one more, clearing one counts one less.
LEMMA CountChanges ==
    ASSUME NEW f \in [Comps -> BOOLEAN], NEW c \in Comps
    PROVE  /\ ~f[c] => Cardinality(Where([f EXCEPT ![c] = TRUE])) = Cardinality(Where(f)) + 1
           /\ f[c] => Cardinality(Where([f EXCEPT ![c] = FALSE])) = Cardinality(Where(f)) - 1
<1>1. IsFiniteSet(Where(f))
  BY CountType
<1>2. ASSUME ~f[c]
      PROVE  Cardinality(Where([f EXCEPT ![c] = TRUE])) = Cardinality(Where(f)) + 1
  <2>1. Where([f EXCEPT ![c] = TRUE]) = Where(f) \cup {c} /\ c \notin Where(f)
    BY <1>2 DEF Where
  <2> QED
    BY <1>1, <2>1, FS_AddElement
<1>3. ASSUME f[c]
      PROVE  Cardinality(Where([f EXCEPT ![c] = FALSE])) = Cardinality(Where(f)) - 1
  <2>1. Where([f EXCEPT ![c] = FALSE]) = Where(f) \ {c} /\ c \in Where(f)
    BY <1>3 DEF Where
  <2> QED
    BY <1>1, <2>1, FS_RemoveElement
<1> QED
  BY <1>2, <1>3

\* The circuits that still have to close the library are finitely many.
LEMMA ClosingType == /\ IsFiniteSet(Closing) /\ Cardinality(Closing) \in Nat
                     /\ \A k \in Closing : Cardinality(Closing) > 0
<1>1. Closing \subseteq Circuits
  BY DEF Closing
<1>2. IsFiniteSet(Closing)
  BY <1>1, FiniteAssumption, FS_Subset
<1> QED
  BY <1>2, FS_CardinalityType, FS_EmptySet

ClosingPCs == {"closing", "erase_closing"}

\* How one circuit's step changes that number.
LEMMA ClosingChanges ==
    ASSUME TypeOK, NEW k \in Circuits, NEW p, pc' = [pc EXCEPT ![k] = p]
    PROVE  /\ (pc[k] \in ClosingPCs <=> p \in ClosingPCs) => Closing' = Closing
           /\ pc[k] \notin ClosingPCs /\ p \in ClosingPCs
                => Cardinality(Closing') = Cardinality(Closing) + 1
           /\ pc[k] \in ClosingPCs /\ p \notin ClosingPCs
                => Cardinality(Closing') = Cardinality(Closing) - 1
<1>1. pc \in [Circuits -> PCs]
  BY DEF TypeOK
<1>2. (pc[k] \in ClosingPCs <=> p \in ClosingPCs) => Closing' = Closing
  BY <1>1 DEF Closing, ClosingPCs
<1>3. ASSUME pc[k] \notin ClosingPCs, p \in ClosingPCs
      PROVE  Cardinality(Closing') = Cardinality(Closing) + 1
  <2>1. Closing' = Closing \cup {k} /\ k \notin Closing
    BY <1>1, <1>3 DEF Closing, ClosingPCs
  <2> QED
    BY <2>1, ClosingType, FS_AddElement
<1>4. ASSUME pc[k] \in ClosingPCs, p \notin ClosingPCs
      PROVE  Cardinality(Closing') = Cardinality(Closing) - 1
  <2>1. Closing' = Closing \ {k} /\ k \in Closing
    BY <1>1, <1>4 DEF Closing, ClosingPCs
  <2> QED
    BY <2>1, ClosingType, FS_RemoveElement
<1> QED
  BY <1>2, <1>3, <1>4

\* A step that touches neither the table nor a closing circuit keeps the counts.
LEMMA CountsKept ==
    ASSUME Counts, Closing' = Closing,
           UNCHANGED <<refs, simRefs, opened, loaded, initCalled>>
    PROVE  Counts'
BY DEF Counts, Holders, Inside

\* dll_load of a component without a handle.
LEMMA LoadCounts ==
    ASSUME TypeOK, Counts, NEW c \in Comps, ~loaded[c], DllLoad(c), Closing' = Closing,
           UNCHANGED initCalled
    PROVE  Counts' /\ refs' \in Nat /\ opened' \in Nat /\ simRefs' \in Nat
<1>1. Holders = Where(loaded) /\ Holders' = Where([loaded EXCEPT ![c] = TRUE]) /\ Inside' = Inside
  BY DEF Holders, Where, DllLoad, Inside
<1>2. Cardinality(Holders') = Cardinality(Holders) + 1
  BY <1>1, CountChanges DEF TypeOK
<1>3. Cardinality(Closing) \in Nat
  BY ClosingType
<1> QED
  BY <1>1, <1>2, <1>3 DEF Counts, DllLoad, TypeOK

\* dll_unload of a component with a handle that is not between simInit and
\* simDeinit: there is a reference to give back, and the last one is the one
\* that goes on to close.
LEMMA UnloadCounts ==
    ASSUME TypeOK, Counts, \A d \in Comps : initCalled[d] => loaded[d],
           NEW c \in Comps, loaded[c], ~initCalled[c], DllUnload(c),
           UNCHANGED initCalled,
           Cardinality(Closing') = Cardinality(Closing) + (IF refs = 1 THEN 1 ELSE 0)
    PROVE  Counts' /\ refs' \in Nat /\ opened' \in Nat /\ simRefs' \in Nat
<1>1. /\ Holders = Where(loaded) /\ Holders' = Where([loaded EXCEPT ![c] = FALSE])
      /\ Inside' = Inside /\ Inside = Where(initCalled)
  BY DEF Holders, Where, DllUnload, Inside
<1>2. Cardinality(Holders') = Cardinality(Holders) - 1
  BY <1>1, CountChanges DEF TypeOK
<1>3. Cardinality(Holders) > 0
  BY <1>1, CountType
<1>4. Cardinality(Closing) \in Nat
  BY ClosingType
<1>5. refs = 1 => simRefs = 0
  <2> SUFFICES ASSUME refs = 1 PROVE Inside = {}
    BY <1>1, CountType DEF Counts, Where
  <2>1. Cardinality(Where([loaded EXCEPT ![c] = FALSE])) = 0
    BY <1>1, <1>2 DEF Counts
  <2>2. \A d \in Comps : ~[loaded EXCEPT ![c] = FALSE][d]
    BY <2>1, CountType
  <2>3. \A d \in Comps : d # c => ~loaded[d]
    BY <2>2 DEF TypeOK
  <2> QED
    BY <2>3 DEF Inside
<1> QED
  BY <1>1, <1>2, <1>3, <1>4, <1>5 DEF Counts, DllUnload, TypeOK

\* While a component holds a handle the table has an entry.
LEMMA Count1 ==
    ASSUME TypeOK, Counts, NEW c \in Comps
    PROVE  (loaded[c] => refs > 0) /\ (initCalled[c] => simRefs > 0)
<1>1. Holders = Where(loaded) /\ Inside = Where(initCalled)
  BY DEF Holders, Inside, Where
<1> QED
  BY <1>1, CountType DEF Counts, TypeOK
-----------------------------------------------------------------------------
(* Every action keeps the invariant. *)

\* The loops that only call into the library.
LEMMA ConsumeInv ==
    ASSUME IInv, NEW k \in Circuits,
           Destroy(k) \/ Create(k) \/ CallDll(k)
    PROVE  IInv'
<1> USE DEF lib, comp, code, flags, ctl, Goto, Enter, Free, Took, Of, Compiled,
           Destroy, Create, CallDll
<1>1. TypeOK'
  BY DEF IInv, TypeOK, Pointer, PCs
<1>2. Counts'
  <2>1. Closing' = Closing
    BY DEF IInv, TypeOK, Closing
  <2> QED
    BY <2>1, CountsKept DEF IInv
<1>3. ASSUME NEW j \in Circuits PROVE CircuitInv(j)'
  BY OwnerAssumption, NoCompAssumption
     DEF IInv, TypeOK, CircuitInv, Running, Leaving, Unbuilt
<1>4. ASSUME NEW d \in Comps PROVE CompInv(d)'
  BY OwnerAssumption DEF IInv, TypeOK, CircuitInv, CompInv, Running, Leaving, Unbuilt
<1> QED
  BY <1>1, <1>2, <1>3, <1>4 DEF IInv

\* The ends of those loops.
LEMMA MoveOnInv ==
    ASSUME IInv, NEW k \in Circuits,
           Destroyed(k) \/ Entered(k) \/ Created(k) \/ Called(k)
    PROVE  IInv'
<1> USE DEF lib, comp, code, flags, ctl, Goto, Enter, Free, Took, Of, Compiled,
           Destroyed, Entered, Created, Called
<1>1. TypeOK'
  BY ZenonT(30) DEF IInv, TypeOK, Pointer, PCs
<1>2. Counts'
  <2>1. Closing' = Closing
    BY DEF IInv, TypeOK, Closing
  <2> QED
    BY <2>1, CountsKept DEF IInv
<1>3. ASSUME NEW j \in Circuits PROVE CircuitInv(j)'
  BY OwnerAssumption, NoCompAssumption
     DEF IInv, TypeOK, CircuitInv, Running, Leaving, Unbuilt
<1>4. ASSUME NEW d \in Comps PROVE CompInv(d)'
  BY OwnerAssumption DEF IInv, TypeOK, CircuitInv, CompInv, Running, Leaving, Unbuilt
<1> QED
  BY <1>1, <1>2, <1>3, <1>4 DEF IInv

\* The ends of a call.
LEMMA BackInv ==
    ASSUME IInv, NEW k \in Circuits,
           Erased(k) \/ StopBuilding(k)
    PROVE  IInv'
<1> USE DEF lib, comp, code, flags, ctl, Goto, Enter, Free, Took, Of, Compiled,
           Erased, StopBuilding
<1>1. TypeOK'
  BY DEF IInv, TypeOK, Pointer, PCs
<1>2. Counts'
  <2>1. Closing' = Closing
    BY DEF IInv, TypeOK, Closing
  <2> QED
    BY <2>1, CountsKept DEF IInv
<1>3. ASSUME NEW j \in Circuits PROVE CircuitInv(j)'
  BY OwnerAssumption, NoCompAssumption
     DEF IInv, TypeOK, CircuitInv, Running, Leaving, Unbuilt
<1>4. ASSUME NEW d \in Comps PROVE CompInv(d)'
  BY OwnerAssumption DEF IInv, TypeOK, CircuitInv, CompInv, Running, Leaving, Unbuilt
<1> QED
  BY <1>1, <1>2, <1>3, <1>4 DEF IInv

\* The library's own deinit.
LEMMA GlobalDeinitInv ==
    ASSUME IInv, NEW k \in Circuits,
           GlobalDeinit(k)
    PROVE  IInv'
<1> USE DEF lib, comp, code, flags, ctl, Goto, Enter, Free, Took, Of, Compiled,
           GlobalDeinit
<1>1. TypeOK'
  BY DEF IInv, TypeOK, Pointer, PCs
<1>2. Counts'
  <2>1. Closing' = Closing
    BY DEF IInv, TypeOK, Closing
  <2> QED
    BY <2>1, CountsKept DEF IInv
<1>3. ASSUME NEW j \in Circuits PROVE CircuitInv(j)'
  BY OwnerAssumption, NoCompAssumption
     DEF IInv, TypeOK, CircuitInv, Running, Leaving, Unbuilt
<1>4. ASSUME NEW d \in Comps PROVE CompInv(d)'
  BY OwnerAssumption DEF IInv, TypeOK, CircuitInv, CompInv, Running, Leaving, Unbuilt
<1> QED
  BY <1>1, <1>2, <1>3, <1>4 DEF IInv

\* The library's own init.
LEMMA GlobalInitInv ==
    ASSUME IInv, NEW k \in Circuits,
           GlobalInit(k)
    PROVE  IInv'
<1> USE DEF lib, comp, code, flags, ctl, Goto, Enter, Free, Took, Of, Compiled,
           GlobalInit
<1>1. TypeOK'
  BY DEF IInv, TypeOK, Pointer, PCs
<1>2. Counts'
  <2>1. Closing' = Closing
    BY DEF IInv, TypeOK, Closing
  <2> QED
    BY <2>1, CountsKept DEF IInv
<1>3. ASSUME NEW j \in Circuits PROVE CircuitInv(j)'
  BY OwnerAssumption, NoCompAssumption
     DEF IInv, TypeOK, CircuitInv, Running, Leaving, Unbuilt
<1>4. ASSUME NEW d \in Comps PROVE CompInv(d)'
  BY OwnerAssumption DEF IInv, TypeOK, CircuitInv, CompInv, Running, Leaving, Unbuilt
<1> QED
  BY <1>1, <1>2, <1>3, <1>4 DEF IInv

\* The end of deinit.
LEMMA LeftInv ==
    ASSUME IInv, NEW k \in Circuits,
           Left(k)
    PROVE  IInv'
<1> USE DEF lib, comp, code, flags, ctl, Goto, Enter, Free, Took, Of, Compiled,
           Left
<1>1. TypeOK'
  BY DEF IInv, TypeOK, Pointer, PCs
<1>2. Counts'
  <2>1. Closing' = Closing
    BY DEF IInv, TypeOK, Closing
  <2> QED
    BY <2>1, CountsKept DEF IInv
<1>3. ASSUME NEW j \in Circuits PROVE CircuitInv(j)'
  BY OwnerAssumption, NoCompAssumption
     DEF IInv, TypeOK, CircuitInv, Running, Leaving, Unbuilt
<1>4. ASSUME NEW d \in Comps PROVE CompInv(d)'
  BY OwnerAssumption DEF IInv, TypeOK, CircuitInv, CompInv, Running, Leaving, Unbuilt
<1> QED
  BY <1>1, <1>2, <1>3, <1>4 DEF IInv

\* A rollback.
LEMMA ThrowInv ==
    ASSUME IInv, NEW k \in Circuits,
           Throw(k)
    PROVE  IInv'
<1> USE DEF lib, comp, code, flags, ctl, Goto, Enter, Free, Took, Of, Compiled,
           Throw
<1>1. TypeOK'
  BY DEF IInv, TypeOK, Pointer, PCs
<1>2. Counts'
  <2>1. Closing' = Closing
    BY DEF IInv, TypeOK, Closing
  <2> QED
    BY <2>1, CountsKept DEF IInv
<1>3. ASSUME NEW j \in Circuits PROVE CircuitInv(j)'
  BY OwnerAssumption, NoCompAssumption
     DEF IInv, TypeOK, CircuitInv, Running, Leaving, Unbuilt
<1>4. ASSUME NEW d \in Comps PROVE CompInv(d)'
  BY OwnerAssumption DEF IInv, TypeOK, CircuitInv, CompInv, Running, Leaving, Unbuilt
<1> QED
  BY <1>1, <1>2, <1>3, <1>4 DEF IInv

\* jitCleanup.
LEMMA CleanupInv ==
    ASSUME IInv, NEW k \in Circuits,
           Cleanup(k)
    PROVE  IInv'
<1> USE DEF lib, comp, code, flags, ctl, Goto, Enter, Free, Took, Of, Compiled,
           Cleanup
<1>1. TypeOK'
  BY DEF IInv, TypeOK, Pointer, PCs
<1>2. Counts'
  <2>1. Closing' = Closing
    BY DEF IInv, TypeOK, Closing
  <2> QED
    BY <2>1, CountsKept DEF IInv
<1>3. ASSUME NEW j \in Circuits PROVE CircuitInv(j)'
  BY OwnerAssumption, NoCompAssumption
     DEF IInv, TypeOK, CircuitInv, Running, Leaving, Unbuilt
<1>4. ASSUME NEW d \in Comps PROVE CompInv(d)'
  BY OwnerAssumption DEF IInv, TypeOK, CircuitInv, CompInv, Running, Leaving, Unbuilt
<1> QED
  BY <1>1, <1>2, <1>3, <1>4 DEF IInv

\* The linking of new code.
LEMMA LinkInv ==
    ASSUME IInv, NEW k \in Circuits,
           Link(k)
    PROVE  IInv'
<1> USE DEF lib, comp, code, flags, ctl, Goto, Enter, Free, Took, Of, Compiled,
           Link
<1>1. TypeOK'
  BY DEF IInv, TypeOK, Pointer, PCs
<1>2. Counts'
  <2>1. Closing' = Closing
    BY DEF IInv, TypeOK, Closing
  <2> QED
    BY <2>1, CountsKept DEF IInv
<1>3. ASSUME NEW j \in Circuits PROVE CircuitInv(j)'
  BY OwnerAssumption, NoCompAssumption
     DEF IInv, TypeOK, CircuitInv, Running, Leaving, Unbuilt
<1>4. ASSUME NEW d \in Comps PROVE CompInv(d)'
  BY OwnerAssumption DEF IInv, TypeOK, CircuitInv, CompInv, Running, Leaving, Unbuilt
<1> QED
  BY <1>1, <1>2, <1>3, <1>4 DEF IInv

\* The calls that only set a flag.
LEMMA FlagInv ==
    ASSUME IInv, NEW k \in Circuits,
           EditNetlist(k) \/ ClearError(k)
    PROVE  IInv'
<1> USE DEF lib, comp, code, flags, ctl, Goto, Enter, Free, Took, Of, Compiled,
           EditNetlist, ClearError
<1>1. TypeOK'
  BY DEF IInv, TypeOK, Pointer, PCs
<1>2. Counts'
  <2>1. Closing' = Closing
    BY DEF IInv, TypeOK, Closing
  <2> QED
    BY <2>1, CountsKept DEF IInv
<1>3. ASSUME NEW j \in Circuits PROVE CircuitInv(j)'
  BY OwnerAssumption, NoCompAssumption
     DEF IInv, TypeOK, CircuitInv, Running, Leaving, Unbuilt
<1>4. ASSUME NEW d \in Comps PROVE CompInv(d)'
  BY OwnerAssumption DEF IInv, TypeOK, CircuitInv, CompInv, Running, Leaving, Unbuilt
<1> QED
  BY <1>1, <1>2, <1>3, <1>4 DEF IInv

\* The beginning of init.
LEMMA BeginInitInv ==
    ASSUME IInv, NEW k \in Circuits,
           InitCircuit(k)
    PROVE  IInv'
<1> USE DEF lib, comp, code, flags, ctl, Goto, Enter, Free, Took, Of, Compiled,
           InitCircuit
<1>1. TypeOK'
  BY DEF IInv, TypeOK, Pointer, PCs
<1>2. Counts'
  <2>1. Closing' = Closing
    BY DEF IInv, TypeOK, Closing
  <2> QED
    BY <2>1, CountsKept DEF IInv
<1>3. ASSUME NEW j \in Circuits PROVE CircuitInv(j)'
  BY OwnerAssumption, NoCompAssumption
     DEF IInv, TypeOK, CircuitInv, Running, Leaving, Unbuilt
<1>4. ASSUME NEW d \in Comps PROVE CompInv(d)'
  BY OwnerAssumption DEF IInv, TypeOK, CircuitInv, CompInv, Running, Leaving, Unbuilt
<1> QED
  BY <1>1, <1>2, <1>3, <1>4 DEF IInv

\* The beginning of tick.
LEMMA TickInv ==
    ASSUME IInv, NEW k \in Circuits,
           Tick(k)
    PROVE  IInv'
<1> USE DEF lib, comp, code, flags, ctl, Goto, Enter, Free, Took, Of, Compiled,
           Tick
<1>1. TypeOK'
  BY DEF IInv, TypeOK, Pointer, PCs
<1>2. Counts'
  <2>1. Closing' = Closing
    BY DEF IInv, TypeOK, Closing
  <2> QED
    BY <2>1, CountsKept DEF IInv
<1>3. ASSUME NEW j \in Circuits PROVE CircuitInv(j)'
  BY OwnerAssumption, NoCompAssumption
     DEF IInv, TypeOK, CircuitInv, Running, Leaving, Unbuilt
<1>4. ASSUME NEW d \in Comps PROVE CompInv(d)'
  BY OwnerAssumption DEF IInv, TypeOK, CircuitInv, CompInv, Running, Leaving, Unbuilt
<1> QED
  BY <1>1, <1>2, <1>3, <1>4 DEF IInv

\* The beginning of reset.
LEMMA ResetInv ==
    ASSUME IInv, NEW k \in Circuits,
           Reset(k)
    PROVE  IInv'
<1> USE DEF lib, comp, code, flags, ctl, Goto, Enter, Free, Took, Of, Compiled,
           Reset
<1>1. TypeOK'
  BY DEF IInv, TypeOK, Pointer, PCs
<1>2. Counts'
  <2>1. Closing' = Closing
    BY DEF IInv, TypeOK, Closing
  <2> QED
    BY <2>1, CountsKept DEF IInv
<1>3. ASSUME NEW j \in Circuits PROVE CircuitInv(j)'
  BY OwnerAssumption, NoCompAssumption
     DEF IInv, TypeOK, CircuitInv, Running, Leaving, Unbuilt
<1>4. ASSUME NEW d \in Comps PROVE CompInv(d)'
  BY OwnerAssumption DEF IInv, TypeOK, CircuitInv, CompInv, Running, Leaving, Unbuilt
<1> QED
  BY <1>1, <1>2, <1>3, <1>4 DEF IInv
\* deinit and the calls that begin with it.
LEMMA BeginDeinitInv ==
    ASSUME IInv, NEW k \in Circuits,
           NEW o \in {"deinit", "clear", "remove", "compile", "validate"},
           NEW D \in SUBSET {c \in Comps : Owner[c] = k},
           BeginDeinit(k, o), doomed' = [doomed EXCEPT ![k] = D]
    PROVE  IInv'
<1> USE DEF lib, comp, code, flags, ctl, Goto, Enter, Free, Compiled, BeginDeinit
<1>1. TypeOK'
  BY DEF IInv, TypeOK, PCs
<1>2. Counts'
  <2>1. Closing' = Closing
    BY DEF IInv, TypeOK, Closing
  <2> QED
    BY <2>1, CountsKept DEF IInv
<1>3. ASSUME NEW j \in Circuits PROVE CircuitInv(j)'
  BY DEF IInv, TypeOK, CircuitInv, Running, Leaving, Unbuilt
<1>4. ASSUME NEW d \in Comps PROVE CompInv(d)'
  BY OwnerAssumption DEF IInv, TypeOK, CircuitInv, CompInv, Leaving
<1> QED
  BY <1>1, <1>2, <1>3, <1>4 DEF IInv

\* removeComponent, compile and validate of a circuit that init has not started.
LEMMA EnterInv ==
    ASSUME IInv, NEW k \in Circuits, NEW o \in {"remove", "compile", "validate"},
           NEW D \in SUBSET {c \in Comps : Owner[c] = k}, NEW p \in {"erasing", "cleanup"},
           Enter(k, o, p, D), ~started[k], doomed' = [doomed EXCEPT ![k] = D],
           compiled' \in {compiled, [compiled EXCEPT ![k] = FALSE]},
           UNCHANGED <<lib, comp, code, started, failed, canDeinit>>
    PROVE  IInv'
<1> USE DEF lib, comp, code, flags, ctl, Goto, Enter, Free
<1>1. TypeOK'
  BY DEF IInv, TypeOK, PCs
<1>2. Counts'
  <2>1. Closing' = Closing
    BY DEF IInv, TypeOK, Closing
  <2> QED
    BY <2>1, CountsKept DEF IInv
<1>3. ASSUME NEW j \in Circuits PROVE CircuitInv(j)'
  BY DEF IInv, TypeOK, CircuitInv, Running, Leaving, Unbuilt
<1>4. ASSUME NEW d \in Comps PROVE CompInv(d)'
  BY OwnerAssumption DEF IInv, TypeOK, CircuitInv, CompInv, Leaving
<1> QED
  BY <1>1, <1>2, <1>3, <1>4 DEF IInv

\* Both of them for removeComponent.
LEMMA RemoveInv ==
    ASSUME IInv, NEW c \in Comps, RemoveComponent(c)
    PROVE  IInv'
<1> DEFINE k == Owner[c]
<1>1. k \in Circuits /\ {c} \in SUBSET {d \in Comps : Owner[d] = k}
  BY OwnerAssumption
<1>2. CASE canDeinit[k]
  BY <1>1, <1>2, BeginDeinitInv DEF RemoveComponent
<1>3. CASE ~canDeinit[k]
  <2>1. ~started[k]
    BY <1>1, <1>3 DEF IInv, CircuitInv
  <2> QED
    BY <1>1, <1>3, <2>1, EnterInv DEF RemoveComponent
<1> QED
  BY <1>2, <1>3

\* And for compile and validate.
LEMMA BuildInv ==
    ASSUME IInv, NEW k \in Circuits, NEW o \in {"compile", "validate"}, Build(k, o)
    PROVE  IInv'
<1>1. CASE started[k]
  BY <1>1, BeginDeinitInv DEF Build
<1>2. CASE ~started[k]
  BY <1>2, EnterInv DEF Build, flags
<1> QED
  BY <1>1, <1>2

\* addComponent takes a handle for the new component.
LEMMA AddInv ==
    ASSUME IInv, NEW c \in Comps, AddComponent(c)
    PROVE  IInv'
<1> USE DEF lib, comp, code, flags, ctl, Free
<1>1. /\ Owner[c] \in Circuits /\ Closing' = Closing /\ ~loaded[c]
      /\ DllLoad(c) /\ UNCHANGED initCalled
  BY OwnerAssumption DEF IInv, TypeOK, Closing, CompInv, AddComponent
<1>2. Counts' /\ refs' \in Nat /\ opened' \in Nat /\ simRefs' \in Nat
  BY <1>1, LoadCounts DEF IInv
<1>3. TypeOK'
  BY <1>1, <1>2 DEF IInv, TypeOK, DllLoad, AddComponent
<1>4. ASSUME NEW j \in Circuits PROVE CircuitInv(j)'
  BY <1>1 DEF IInv, TypeOK, CircuitInv, Running, AddComponent, DllLoad
<1>5. ASSUME NEW d \in Comps PROVE CompInv(d)'
  BY <1>1 DEF IInv, TypeOK, CompInv, AddComponent, DllLoad
<1> QED
  BY <1>2, <1>3, <1>4, <1>5 DEF IInv

\* So does prepareForCompile, for a component that has none.
LEMMA LoadInv ==
    ASSUME IInv, NEW k \in Circuits, Load(k)
    PROVE  IInv'
<1> USE DEF lib, comp, code, flags, ctl, Goto, Took
<1>1. PICK c \in rem[k] :
        /\ pc[k] = "loading"
        /\ IF loaded[c] THEN UNCHANGED <<lib, loaded>> ELSE DllLoad(c)
        /\ Goto(k, "loading", Took(k, c))
        /\ UNCHANGED <<has, initCalled, code, flags, op, cur, doomed>>
  BY DEF Load
<1>2. c \in Comps /\ Closing' = Closing /\ has[c]
  BY <1>1 DEF IInv, TypeOK, Closing, CircuitInv
<1>3. Counts' /\ refs' \in Nat /\ opened' \in Nat /\ simRefs' \in Nat
  <2>1. CASE loaded[c]
    BY <1>1, <1>2, <2>1, CountsKept DEF IInv, TypeOK
  <2>2. CASE ~loaded[c]
    BY <1>1, <1>2, <2>2, LoadCounts DEF IInv
  <2> QED
    BY <2>1, <2>2
<1>4. TypeOK'
  BY <1>1, <1>2, <1>3 DEF IInv, TypeOK, DllLoad
<1>5. ASSUME NEW j \in Circuits PROVE CircuitInv(j)'
  BY <1>1, <1>2 DEF IInv, TypeOK, CircuitInv, DllLoad, Running, Leaving
<1>6. ASSUME NEW d \in Comps PROVE CompInv(d)'
  BY <1>1, <1>2, OwnerAssumption DEF IInv, TypeOK, CompInv, DllLoad, Leaving
<1> QED
  BY <1>3, <1>4, <1>5, <1>6 DEF IInv

\* The destructor of a component.
LEMMA EraseInv ==
    ASSUME IInv, NEW k \in Circuits, Erase(k)
    PROVE  IInv'
<1> USE DEF lib, comp, code, flags, ctl, Goto, Took
<1>1. PICK c \in rem[k] :
        /\ pc[k] = "erasing"
        /\ has' = [has EXCEPT ![c] = FALSE]
        /\ IF loaded[c]
           THEN DllUnload(c) /\ Goto(k, IF refs = 1 THEN "erase_closing" ELSE "erasing", Took(k, c))
           ELSE UNCHANGED <<lib, loaded>> /\ Goto(k, "erasing", Took(k, c))
        /\ UNCHANGED <<initCalled, code, flags, op, cur, doomed>>
  BY DEF Erase
<1>2. c \in Comps /\ Owner[c] = k /\ \A d \in Comps : initCalled[d] => loaded[d]
  BY DEF IInv, TypeOK, CircuitInv, CompInv
<1>3. ~initCalled[c] /\ ~started[k]
  BY <1>1, <1>2 DEF IInv, CircuitInv, CompInv, Unbuilt, Leaving
<1>4. CASE loaded[c]
  <2>1. DllUnload(c) /\ UNCHANGED initCalled
    BY <1>1, <1>4
  <2>2. PICK p \in {"erase_closing", "erasing"} :
          /\ p = (IF refs = 1 THEN "erase_closing" ELSE "erasing")
          /\ pc' = [pc EXCEPT ![k] = p]
    BY <1>1, <1>4
  <2>3. Cardinality(Closing') = Cardinality(Closing) + (IF refs = 1 THEN 1 ELSE 0)
    <3>1. /\ (pc[k] \in ClosingPCs <=> p \in ClosingPCs) => Closing' = Closing
          /\ pc[k] \notin ClosingPCs /\ p \in ClosingPCs
               => Cardinality(Closing') = Cardinality(Closing) + 1
      BY <2>2, ClosingChanges DEF IInv
    <3> QED
      BY <1>1, <2>2, <3>1, ClosingType DEF ClosingPCs
  <2>4. Counts' /\ refs' \in Nat /\ opened' \in Nat /\ simRefs' \in Nat
    BY <1>2, <1>3, <1>4, <2>1, <2>3, UnloadCounts DEF IInv
  <2>5. TypeOK'
    BY <1>1, <1>2, <1>4, <2>1, <2>2, <2>4 DEF IInv, TypeOK, PCs, DllUnload
  <2>6. \A j \in Circuits : CircuitInv(j)'
    BY <1>1, <1>2, <1>3, <2>1, <2>2 DEF IInv, TypeOK, CircuitInv, DllUnload, Running, Leaving,
               Unbuilt
  <2>7. ASSUME NEW d \in Comps PROVE CompInv(d)'
    BY ZenonT(30), <1>1, <1>2, <1>3, <2>1, <2>2, OwnerAssumption
       DEF IInv, TypeOK, CompInv, DllUnload, Leaving
  <2> QED
    BY <2>4, <2>5, <2>6, <2>7 DEF IInv
<1>5. CASE ~loaded[c]
  <2>1. /\ UNCHANGED <<lib, loaded, initCalled, code, flags, op, cur, doomed>>
        /\ pc' = [pc EXCEPT ![k] = "erasing"] /\ rem' = [rem EXCEPT ![k] = rem[k] \ {c}]
    BY <1>1, <1>5
  <2>2. Closing' = Closing
    BY <1>1, <2>1 DEF IInv, TypeOK, Closing
  <2>3. TypeOK' /\ Counts'
    BY <1>1, <2>1, <2>2, CountsKept DEF IInv, TypeOK, PCs
  <2>4. \A j \in Circuits : CircuitInv(j)'
    BY <1>1, <1>3, <2>1 DEF IInv, TypeOK, CircuitInv, Running, Leaving, Unbuilt
  <2>5. ASSUME NEW d \in Comps PROVE CompInv(d)'
    BY <1>1, <1>2, <1>5, <2>1, OwnerAssumption DEF IInv, TypeOK, CompInv, Leaving
  <2> QED
    BY <2>3, <2>4, <2>5 DEF IInv
<1> QED
  BY <1>4, <1>5

\* The same for simDeinit.
LEMMA UnloadInv ==
    ASSUME IInv, NEW k \in Circuits, Unload(k)
    PROVE  IInv'
<1> USE DEF lib, comp, code, flags, ctl, Goto
<1> DEFINE c == cur[k]
<1>1. /\ pc[k] = "unloading" /\ cur' = [cur EXCEPT ![k] = NoComp]
      /\ UNCHANGED <<has, initCalled, code, flags, op, doomed>>
      /\ rem' = [rem EXCEPT ![k] = rem[k]]
  BY DEF Unload
<1>2. /\ c \in Comps /\ Owner[c] = k /\ ~initCalled[c]
      /\ \A d \in Comps : initCalled[d] => loaded[d]
  BY <1>1 DEF IInv, TypeOK, CircuitInv, CompInv
<1>3. CASE loaded[c]
  <2>1. DllUnload(c) /\ UNCHANGED initCalled
    BY <1>1, <1>3 DEF Unload
  <2>2. PICK p \in {"closing", "leaving"} :
          /\ p = (IF refs = 1 THEN "closing" ELSE "leaving")
          /\ pc' = [pc EXCEPT ![k] = p]
    BY <1>1, <1>3 DEF Unload
  <2>3. Cardinality(Closing') = Cardinality(Closing) + (IF refs = 1 THEN 1 ELSE 0)
    <3>1. /\ (pc[k] \in ClosingPCs <=> p \in ClosingPCs) => Closing' = Closing
          /\ pc[k] \notin ClosingPCs /\ p \in ClosingPCs
               => Cardinality(Closing') = Cardinality(Closing) + 1
      BY <2>2, ClosingChanges DEF IInv
    <3> QED
      BY <1>1, <2>2, <3>1, ClosingType DEF ClosingPCs
  <2>4. Counts' /\ refs' \in Nat /\ opened' \in Nat /\ simRefs' \in Nat
    BY <1>2, <1>3, <2>1, <2>3, UnloadCounts DEF IInv
  <2>5. TypeOK'
    BY <1>1, <1>2, <2>1, <2>2, <2>4 DEF IInv, TypeOK, PCs, DllUnload
  <2>6. \A j \in Circuits : CircuitInv(j)'
    BY <1>1, <1>2, <2>1, <2>2, NoCompAssumption
       DEF IInv, TypeOK, CircuitInv, DllUnload, Running, Leaving, Unbuilt
  <2>7. ASSUME NEW d \in Comps PROVE CompInv(d)'
    BY <1>1, <1>2, <2>1, <2>2, OwnerAssumption DEF IInv, TypeOK, CompInv, DllUnload, Leaving
  <2> QED
    BY <2>4, <2>5, <2>6, <2>7 DEF IInv
<1>4. CASE ~loaded[c]
  <2>1. UNCHANGED <<lib, loaded>> /\ pc' = [pc EXCEPT ![k] = "leaving"]
    BY <1>1, <1>4 DEF Unload
  <2>2. Closing' = Closing
    BY <1>1, <2>1 DEF IInv, TypeOK, Closing
  <2>3. TypeOK' /\ Counts'
    BY <1>1, <2>1, <2>2, CountsKept DEF IInv, TypeOK, PCs
  <2>4. \A j \in Circuits : CircuitInv(j)'
    BY <1>1, <2>1 DEF IInv, TypeOK, CircuitInv, Running, Leaving, Unbuilt
  <2>5. ASSUME NEW d \in Comps PROVE CompInv(d)'
    BY <1>1, <2>1, OwnerAssumption DEF IInv, TypeOK, CompInv, Leaving
  <2> QED
    BY <2>3, <2>4, <2>5 DEF IInv
<1> QED
  BY <1>3, <1>4

\* dlclose: a circuit on its way to it accounts for one open library.
LEMMA CloseInv ==
    ASSUME IInv, NEW k \in Circuits, Close(k)
    PROVE  IInv'
<1> USE DEF lib, comp, code, flags, ctl, Goto
<1>1. PICK p \in {"leaving", "erasing"} :
        /\ pc[k] \in {"closing", "erase_closing"} /\ DlClose
        /\ p = (IF pc[k] = "closing" THEN "leaving" ELSE "erasing")
        /\ pc' = [pc EXCEPT ![k] = p] /\ rem' = [rem EXCEPT ![k] = rem[k]]
        /\ UNCHANGED <<comp, flags, op, cur, doomed>>
  BY DEF Close
<1>2. Cardinality(Closing') = Cardinality(Closing) - 1 /\ Cardinality(Closing) > 0
      /\ Cardinality(Closing) \in Nat
  BY <1>1, ClosingChanges, ClosingType DEF IInv, ClosingPCs, Closing
<1>3. Counts' /\ opened' \in Nat
  BY <1>1, <1>2 DEF IInv, TypeOK, Counts, DlClose, Holders, Inside
<1>4. TypeOK'
  BY <1>1, <1>3 DEF IInv, TypeOK, Pointer, PCs, DlClose, Stale
<1>5. \A j \in Circuits : CircuitInv(j)'
  BY <1>1 DEF IInv, TypeOK, CircuitInv, Running, Leaving, Unbuilt
<1>6. ASSUME NEW d \in Comps PROVE CompInv(d)'
  BY <1>1, OwnerAssumption DEF IInv, TypeOK, CompInv, Leaving
<1> QED
  BY <1>3, <1>4, <1>5, <1>6 DEF IInv

\* simInit reloads a library that is gone.
LEMMA ReloadInv ==
    ASSUME IInv, NEW k \in Circuits, Reload(k)
    PROVE  IInv'
<1> USE DEF lib, comp, code, flags, ctl, Took
<1>1. PICK c \in rem[k] :
        /\ pc[k] = "entering" /\ ~loaded[c]
        /\ \/ DllLoad(c) /\ UNCHANGED rem
           \/ UNCHANGED <<lib, loaded>> /\ rem' = [rem EXCEPT ![k] = Took(k, c)]
        /\ UNCHANGED <<has, initCalled, code, flags, pc, op, cur, doomed>>
  BY DEF Reload
<1>2. c \in Comps /\ Closing' = Closing /\ has[c] /\ ~initCalled[c]
  BY <1>1 DEF IInv, TypeOK, Closing, CircuitInv, CompInv
<1>3. Counts' /\ refs' \in Nat /\ opened' \in Nat /\ simRefs' \in Nat
  <2>1. CASE DllLoad(c)
    BY <1>1, <1>2, <2>1, LoadCounts DEF IInv
  <2>2. CASE UNCHANGED <<lib, loaded>>
    BY <1>1, <1>2, <2>2, CountsKept DEF IInv, TypeOK
  <2> QED
    BY <1>1, <2>1, <2>2
<1>4. TypeOK'
  BY <1>1, <1>2, <1>3 DEF IInv, TypeOK, DllLoad
<1>5. ASSUME NEW j \in Circuits PROVE CircuitInv(j)'
  BY <1>1, <1>2 DEF IInv, TypeOK, CircuitInv, DllLoad
<1>6. ASSUME NEW d \in Comps PROVE CompInv(d)'
  BY SMTT(30), <1>1, <1>2, OwnerAssumption DEF IInv, TypeOK, CompInv, CircuitInv, DllLoad, Leaving
<1> QED
  BY <1>3, <1>4, <1>5, <1>6 DEF IInv

\* dll_sim_acquire: one more component inside.
LEMMA AcquireInv ==
    ASSUME IInv, NEW k \in Circuits, Acquire(k)
    PROVE  IInv'
<1> USE DEF lib, comp, code, flags, ctl, Goto, Took
<1>1. PICK c \in rem[k] :
        /\ pc[k] = "entering" /\ loaded[c]
        /\ simRefs' = IF initCalled[c] THEN simRefs ELSE simRefs + 1
        /\ Goto(k, IF ~initCalled[c] /\ simRefs = 0 THEN "global_init" ELSE "entering", Took(k, c))
        /\ initCalled' = [initCalled EXCEPT ![c] = TRUE]
        /\ UNCHANGED <<refs, opened, inited, has, loaded, code, flags, op, cur, doomed>>
  BY DEF Acquire
<1>2. PICK p \in {"global_init", "entering"} :
        pc' = [pc EXCEPT ![k] = p] /\ rem' = [rem EXCEPT ![k] = rem[k] \ {c}]
  BY <1>1
<1>3. c \in Comps /\ Owner[c] = k
  BY <1>1 DEF IInv, TypeOK, CircuitInv
<1>4. Closing' = Closing
  BY <1>1, <1>2 DEF IInv, TypeOK, Closing
<1>5. Counts' /\ simRefs' \in Nat
  <2>1. Inside = Where(initCalled) /\ Inside' = Where([initCalled EXCEPT ![c] = TRUE]) /\ Holders' =
      Holders
    BY <1>1 DEF Inside, Holders, Where
  <2>2. CASE initCalled[c]
    <3>1. initCalled' = initCalled
      BY <1>1, <2>2 DEF IInv, TypeOK
    <3> QED
      BY <1>1, <1>4, <2>2, <3>1, CountsKept DEF IInv, TypeOK
  <2>3. CASE ~initCalled[c]
    <3>1. Cardinality(Inside') = Cardinality(Inside) + 1
      BY <1>3, <2>1, <2>3, CountChanges DEF IInv, TypeOK
    <3> QED
      BY <1>1, <1>4, <2>1, <2>3, <3>1 DEF IInv, TypeOK, Counts
  <2> QED
    BY <2>2, <2>3
<1>6. TypeOK'
  BY <1>1, <1>2, <1>3, <1>5 DEF IInv, TypeOK, PCs
<1>7. ASSUME NEW j \in Circuits PROVE CircuitInv(j)'
  BY <1>1, <1>2, <1>3 DEF IInv, TypeOK, CircuitInv, Running, Leaving, Unbuilt
<1>8. ASSUME NEW d \in Comps PROVE CompInv(d)'
  BY <1>1, <1>2, <1>3, OwnerAssumption DEF IInv, TypeOK, CompInv, Leaving
<1> QED
  BY <1>5, <1>6, <1>7, <1>8 DEF IInv

\* dll_sim_release: the count of a component that is inside is positive, so it
\* is given back.
LEMMA ReleaseInv ==
    ASSUME IInv, NEW k \in Circuits, Release(k)
    PROVE  IInv'
<1> USE DEF lib, comp, code, flags, ctl, Goto, Took
<1>1. PICK c \in rem[k] :
        /\ pc[k] = "leaving"
        /\ cur' = [cur EXCEPT ![k] = c]
        /\ simRefs' = IF initCalled[c] /\ simRefs > 0 THEN simRefs - 1 ELSE simRefs
        /\ Goto(k, IF initCalled[c] /\ simRefs > 0 /\ simRefs = 1
                   THEN "global_deinit" ELSE "unloading", Took(k, c))
        /\ initCalled' = [initCalled EXCEPT ![c] = FALSE]
        /\ UNCHANGED <<refs, opened, inited, has, loaded, code, flags, op, doomed>>
  BY DEF Release
<1>2. PICK p \in {"global_deinit", "unloading"} :
        pc' = [pc EXCEPT ![k] = p] /\ rem' = [rem EXCEPT ![k] = rem[k] \ {c}]
  BY <1>1
<1>3. c \in Comps /\ Owner[c] = k
  BY <1>1 DEF IInv, TypeOK, CircuitInv
<1>4. Closing' = Closing
  BY <1>1, <1>2 DEF IInv, TypeOK, Closing
<1>5. Counts' /\ simRefs' \in Nat
  <2>1. Inside = Where(initCalled) /\ Inside' = Where([initCalled EXCEPT ![c] = FALSE]) /\ Holders' =
      Holders
    BY <1>1 DEF Inside, Holders, Where
  <2>2. CASE ~initCalled[c]
    <3>1. initCalled' = initCalled
      BY <1>1, <2>2 DEF IInv, TypeOK
    <3> QED
      BY <1>1, <1>4, <2>2, <3>1, CountsKept DEF IInv, TypeOK
  <2>3. CASE initCalled[c]
    <3>1. Cardinality(Inside') = Cardinality(Inside) - 1
      BY <1>3, <2>1, <2>3, CountChanges DEF IInv, TypeOK
    <3>2. simRefs > 0
      BY <1>3, <2>3, Count1 DEF IInv
    <3> QED
      BY <1>1, <1>4, <2>1, <2>3, <3>1, <3>2 DEF IInv, TypeOK, Counts
  <2> QED
    BY <2>2, <2>3 DEF IInv, TypeOK
<1>6. TypeOK'
  BY <1>1, <1>2, <1>3, <1>5 DEF IInv, TypeOK, PCs
<1>7. ASSUME NEW j \in Circuits PROVE CircuitInv(j)'
  BY <1>1, <1>2, <1>3 DEF IInv, TypeOK, CircuitInv, Running, Leaving, Unbuilt
<1>8. ASSUME NEW d \in Comps PROVE CompInv(d)'
  BY <1>1, <1>2, <1>3, OwnerAssumption DEF IInv, TypeOK, CompInv, Leaving
<1> QED
  BY <1>5, <1>6, <1>7, <1>8 DEF IInv

-----------------------------------------------------------------------------
(* The inductive step. *)

\* Nothing is loaded and no call is in progress.
LEMMA InitInv == Init => IInv
<1> SUFFICES ASSUME Init PROVE IInv
  OBVIOUS
<1>1. TypeOK
  BY DEF Init, TypeOK, Pointer, PCs
<1>2. Holders = {} /\ Inside = {} /\ Closing = {}
  BY DEF Init, Holders, Inside, Closing
<1>3. Counts
  BY <1>2, FS_EmptySet DEF Init, Counts
<1>4. \A k \in Circuits : CircuitInv(k)
  BY DEF Init, CircuitInv, Running, Unbuilt, Leaving
<1>5. \A c \in Comps : CompInv(c)
  BY DEF Init, CompInv
<1> QED
  BY <1>1, <1>3, <1>4, <1>5 DEF IInv

\* Every call and every step keeps the invariant.
LEMMA NextInv == IInv /\ [Next]_vars => IInv'
<1> SUFFICES ASSUME IInv, [Next]_vars PROVE IInv'
  OBVIOUS
<1>1. ASSUME NEW c \in Comps, AddComponent(c) \/ RemoveComponent(c) PROVE IInv'
  BY <1>1, AddInv, RemoveInv
<1>2. ASSUME NEW k \in Circuits, Compile(k) \/ Validate(k) PROVE IInv'
  BY <1>2, BuildInv DEF Compile, Validate
<1>3. ASSUME NEW k \in Circuits, Deinit(k) \/ Clear(k) PROVE IInv'
  <2>1. {} \in SUBSET {c \in Comps : Owner[c] = k} /\ Of(k) \in SUBSET {c \in Comps : Owner[c] = k}
    BY DEF Of
  <2> QED
    BY <1>3, <2>1, BeginDeinitInv DEF Deinit, Clear
<1>4. ASSUME NEW k \in Circuits,
             InitCircuit(k) \/ Tick(k) \/ Reset(k) \/ EditNetlist(k) \/ ClearError(k)
      PROVE  IInv'
  BY <1>4, BeginInitInv, TickInv, ResetInv, FlagInv
<1>5. ASSUME NEW k \in Circuits, Step(k) PROVE IInv'
  BY <1>5, ConsumeInv, MoveOnInv, BackInv, GlobalDeinitInv, GlobalInitInv, LeftInv, ThrowInv,
     CleanupInv, LinkInv, ReleaseInv, UnloadInv, CloseInv, EraseInv, LoadInv, ReloadInv, AcquireInv
                DEF Step
<1>6. CASE UNCHANGED vars
  BY <1>6 DEF vars, lib, comp, code, flags, ctl, IInv, TypeOK, Counts, Holders, Inside, Closing,
     CircuitInv, CompInv
<1> QED
  BY <1>1, <1>2, <1>3, <1>4, <1>5, <1>6 DEF Next, Host

\* The invariant always holds.
LEMMA Invariant == Spec => []IInv
BY InitInv, NextInv, PTL DEF Spec

-----------------------------------------------------------------------------
(* Results. *)

\* Every variable keeps its type, whatever the circuits do.
THEOREM TypesHold == Spec => []TypeOK
<1>1. IInv => TypeOK
  BY DEF IInv
<1> QED
  BY <1>1, Invariant, PTL

\* The table's counts are those of the components that hold a handle and those
\* that are between simInit and simDeinit, for any number of circuits and
\* components, overlapping calls and failing inits included: the library is
\* neither closed under a component nor left open for nobody.
THEOREM CountsAlwaysMatch == Spec => []CountsMatch
<1>1. IInv => CountsMatch
  <2> SUFFICES ASSUME IInv PROVE Inside \subseteq Holders
    BY DEF IInv, Counts, CountsMatch
  <2> QED
    BY DEF IInv, CompInv, Inside, Holders
<1> QED
  BY <1>1, Invariant, PTL
-----------------------------------------------------------------------------
(* What compiled code may call stays mapped, when no init fails. *)

\* A step of one circuit that touches only its own handles does not disturb
\* the code of another.
LEMMA OthersSafe ==
    ASSUME IInv, SafeInv, NEW k \in Circuits, NEW j \in Circuits \ {k}, NEW p, NEW r,
           pc' = [pc EXCEPT ![k] = p], rem' = [rem EXCEPT ![k] = r],
           UNCHANGED <<op, canDeinit, jit, has>>,
           \A c \in Comps : Owner[c] = j => loaded'[c] = loaded[c]
    PROVE  CodeInv(j)'
<1>1. pc'[j] = pc[j] /\ rem'[j] = rem[j] /\ \A c \in rem[j] : c \in Comps /\ Owner[c] = j
  BY DEF IInv, TypeOK, CircuitInv
<1>2. CodeInv(j)
  BY DEF SafeInv
<1> QED
  BY <1>1, <1>2 DEF CodeInv

\* simDeinit lets go of a library whose code can no longer be entered.
LEMMA UnloadSafe ==
    ASSUME IInv, SafeInv, NEW k \in Circuits, Unload(k)
    PROVE  SafeInv'
<1> USE DEF code, flags, Goto
<1>1. PICK p \in {"closing", "leaving"} :
        /\ pc[k] = "unloading" /\ pc' = [pc EXCEPT ![k] = p] /\ rem' = [rem EXCEPT ![k] = rem[k]]
        /\ loaded' \in {loaded, [loaded EXCEPT ![cur[k]] = FALSE]}
        /\ UNCHANGED <<has, jit, canDeinit, op>>
  BY DEF Unload, DllUnload
<1>2. cur[k] \in Comps /\ Owner[cur[k]] = k
  BY <1>1 DEF IInv, CircuitInv
<1>3. ASSUME NEW j \in Circuits \ {k} PROVE CodeInv(j)'
  <2>1. \A c \in Comps : Owner[c] = j => loaded'[c] = loaded[c]
    BY <1>1, <1>2 DEF IInv, TypeOK
  <2> QED
    BY <1>1, <2>1, OthersSafe
<1>4. CodeInv(k)'
  BY <1>1, <1>2 DEF IInv, TypeOK, SafeInv, CodeInv, Leaving
<1> QED
  BY <1>3, <1>4 DEF SafeInv

\* prepareForCompile takes a handle, so the code about to be linked is mapped.
LEMMA LoadSafe ==
    ASSUME IInv, SafeInv, NEW k \in Circuits, Load(k)
    PROVE  SafeInv'
<1> USE DEF code, flags, Goto, Took
<1>1. PICK c \in rem[k] :
        /\ pc[k] = "loading"
        /\ IF loaded[c] THEN UNCHANGED <<lib, loaded>> ELSE DllLoad(c)
        /\ Goto(k, "loading", Took(k, c))
        /\ UNCHANGED <<has, initCalled, code, flags, op, cur, doomed>>
  BY DEF Load
<1>2. c \in Comps /\ Owner[c] = k
  BY DEF IInv, TypeOK, CircuitInv
<1>3. loaded' = [loaded EXCEPT ![c] = TRUE]
  BY <1>1, <1>2 DEF DllLoad, IInv, TypeOK
<1>4. ASSUME NEW j \in Circuits \ {k} PROVE CodeInv(j)'
  <2>1. \A d \in Comps : Owner[d] = j => loaded'[d] = loaded[d]
    BY <1>2, <1>3 DEF IInv, TypeOK
  <2> QED
    BY <1>1, <2>1, OthersSafe
<1>5. CodeInv(k)'
  BY <1>1, <1>2, <1>3 DEF IInv, TypeOK, SafeInv, CodeInv, Leaving
<1> QED
  BY <1>4, <1>5 DEF SafeInv

\* simInit's reload too.
LEMMA ReloadSafe ==
    ASSUME IInv, SafeInv, NEW k \in Circuits, Reload(k)
    PROVE  SafeInv'
<1> USE DEF code, flags, Took
<1>1. PICK c \in rem[k] :
        /\ pc[k] = "entering" /\ ~loaded[c]
        /\ \/ DllLoad(c) /\ UNCHANGED rem
           \/ UNCHANGED <<lib, loaded>> /\ rem' = [rem EXCEPT ![k] = Took(k, c)]
        /\ UNCHANGED <<has, initCalled, code, flags, pc, op, cur, doomed>>
  BY DEF Reload
<1>2. c \in Comps /\ Owner[c] = k
  BY DEF IInv, TypeOK, CircuitInv
<1>3. PICK r : pc' = [pc EXCEPT ![k] = "entering"] /\ rem' = [rem EXCEPT ![k] = r]
  <2>1. pc' = [pc EXCEPT ![k] = "entering"]
    BY <1>1 DEF IInv, TypeOK
  <2>2. rem = [rem EXCEPT ![k] = rem[k]]
    BY DEF IInv, TypeOK
  <2> QED
    BY <1>1, <2>1, <2>2
<1>4. loaded' \in {loaded, [loaded EXCEPT ![c] = TRUE]}
  BY <1>1 DEF DllLoad
<1>5. ASSUME NEW j \in Circuits \ {k} PROVE CodeInv(j)'
  <2>1. \A d \in Comps : Owner[d] = j => loaded'[d] = loaded[d]
    BY <1>2, <1>4 DEF IInv, TypeOK
  <2> QED
    BY <1>1, <1>3, <2>1, OthersSafe
<1>6. CodeInv(k)'
  BY <1>1, <1>2, <1>3, <1>4 DEF IInv, TypeOK, SafeInv, CodeInv, Leaving
<1> QED
  BY <1>5, <1>6 DEF SafeInv

\* The library is unmapped only when no component holds a handle, and then no
\* compiled code that could still be entered refers to it.
LEMMA CloseSafe ==
    ASSUME IInv, SafeInv, NEW k \in Circuits, Close(k)
    PROVE  SafeInv'
<1> USE DEF comp, flags, Goto
<1>1. PICK p \in {"leaving", "erasing"} :
        /\ pc[k] \in {"closing", "erase_closing"} /\ DlClose
        /\ p = (IF pc[k] = "closing" THEN "leaving" ELSE "erasing")
        /\ pc' = [pc EXCEPT ![k] = p] /\ rem' = [rem EXCEPT ![k] = rem[k]]
        /\ UNCHANGED <<comp, flags, op, cur, doomed>>
  BY DEF Close
<1>2. Cardinality(Closing) > 0 /\ Cardinality(Closing) \in Nat
  BY <1>1, ClosingType DEF Closing
<1>3. CASE opened > 1
  <2>1. jit' = jit
    BY <1>3, <1>1 DEF DlClose
  <2>2. ASSUME NEW j \in Circuits \ {k} PROVE CodeInv(j)'
    BY <1>1, <2>1, OthersSafe
  <2>3. CodeInv(k)'
    BY <1>1, <2>1 DEF IInv, TypeOK, SafeInv, CodeInv, Leaving
  <2> QED
    BY <2>2, <2>3 DEF SafeInv
<1>4. CASE ~(opened > 1)
  <2>1. refs = 0
    BY <1>2, <1>4 DEF IInv, TypeOK, Counts
  <2>2. \A c \in Comps : ~loaded[c]
    BY <2>1, Count1 DEF IInv
  <2>3. jit' = [c \in Comps |-> IF jit[c] = "live" THEN "stale" ELSE jit[c]]
    BY <1>1, <1>4 DEF DlClose, Stale
  <2>4. ASSUME NEW j \in Circuits PROVE CodeInv(j)'
    <3>1. CodeInv(j) /\ rem'[j] = rem[j] /\ rem[j] \subseteq Comps
      BY <1>1 DEF SafeInv, IInv, TypeOK
    <3>2. pc'[j] = pc[j] \/ (j = k /\ pc'[k] \in {"leaving", "erasing"})
      BY <1>1 DEF IInv, TypeOK
    <3>3. /\ op'[j] # "rollback"
          /\ pc'[j] \in Leaving \cup {"destroying", "erasing", "erase_closing", "loading"} =>
              ~canDeinit'[j]
      BY <1>1, <3>1, <3>2 DEF CodeInv, Leaving
    <3>4. /\ pc'[j] = "destroying" => rem[j] = {}
          /\ canDeinit[j] => \A c \in Comps : Owner[c] = j => jit[c] = "none"
      BY <2>2, <3>1, <3>2 DEF CodeInv
    <3> QED
      BY <1>1, <2>2, <2>3, <3>1, <3>2, <3>3, <3>4 DEF CodeInv
  <2> QED
    BY <2>4 DEF SafeInv
<1> QED
  BY <1>3, <1>4

\* Each step of a call in progress.
LEMMA SafeStep ==
    ASSUME IInv, SafeInv, ~InitMayThrow \/ NoneThrows, NEW k \in Circuits, Step(k)
    PROVE  SafeInv'
<1> SUFFICES ASSUME NEW j \in Circuits PROVE CodeInv(j)'
  BY DEF SafeInv
<1> USE OwnerAssumption DEF lib, comp, code, flags, ctl, Goto, Enter, Free, Took, Of, Compiled,
           IInv, TypeOK, CircuitInv, CompInv,
        SafeInv, CodeInv, Leaving, Unbuilt, Running
<1>1. CASE Destroy(k)
  BY <1>1 DEF Destroy
<1>2. CASE Destroyed(k)
  BY <1>2 DEF Destroyed
<1>3. CASE GlobalDeinit(k)
  BY <1>3 DEF GlobalDeinit
<1>4. CASE Left(k)
  BY <1>4 DEF Left
<1>5. CASE Erased(k)
  BY <1>5 DEF Erased
<1>6. CASE StopBuilding(k)
  BY <1>6 DEF StopBuilding
<1>7. CASE GlobalInit(k)
  BY <1>7 DEF GlobalInit
<1>8. CASE Throw(k)
  BY <1>8 DEF Throw, NoneThrows
<1>9. CASE Entered(k)
  BY <1>9 DEF Entered
<1>10. CASE Create(k)
  BY <1>10 DEF Create
<1>11. CASE Created(k)
  BY <1>11 DEF Created
<1>12. CASE CallDll(k)
  BY <1>12 DEF CallDll
<1>13. CASE Called(k)
  BY <1>13 DEF Called
<1>14. CASE Cleanup(k)
  BY <1>14 DEF Cleanup
<1>15. CASE Link(k)
  BY <1>15 DEF Link
<1>16. CASE Release(k)
  BY <1>16 DEF Release
<1>17. CASE Unload(k)
  BY <1>17, UnloadSafe DEF SafeInv
<1>18. CASE Erase(k)
  BY <1>18 DEF Erase, DllUnload
<1>19. CASE Load(k)
  BY <1>19, LoadSafe DEF SafeInv
<1>20. CASE Reload(k)
  BY <1>20, ReloadSafe DEF SafeInv
<1>21. CASE Acquire(k)
  BY <1>21 DEF Acquire
<1>22. CASE Close(k)
  BY <1>22, CloseSafe DEF SafeInv
<1> QED
  BY <1>1, <1>2, <1>3, <1>4, <1>5, <1>6, <1>7, <1>8, <1>9, <1>10, <1>11, <1>12, <1>13, <1>14, <1>15,
             <1>16, <1>17, <1>18, <1>19, <1>20, <1>21, <1>22 DEF Step

\* The beginning of each call.
LEMMA SafeHost ==
    ASSUME IInv, SafeInv, Host
    PROVE  SafeInv'
<1> SUFFICES ASSUME NEW j \in Circuits PROVE CodeInv(j)'
  BY DEF SafeInv
<1> USE OwnerAssumption DEF lib, comp, code, flags, ctl, Goto, Enter, Free, Took, Of, Compiled,
           IInv, TypeOK, CircuitInv, CompInv,
        SafeInv, CodeInv, Leaving, Unbuilt, Running
<1>1. ASSUME NEW k \in Circuits, EditNetlist(k) PROVE CodeInv(j)'
  BY <1>1 DEF EditNetlist
<1>2. ASSUME NEW k \in Circuits, ClearError(k) PROVE CodeInv(j)'
  BY <1>2 DEF ClearError
<1>3. ASSUME NEW k \in Circuits, Deinit(k) PROVE CodeInv(j)'
  BY <1>3 DEF Deinit, BeginDeinit
<1>4. ASSUME NEW k \in Circuits, Clear(k) PROVE CodeInv(j)'
  BY <1>4 DEF Clear, BeginDeinit
<1>5. ASSUME NEW k \in Circuits, InitCircuit(k) PROVE CodeInv(j)'
  BY <1>5 DEF InitCircuit
<1>6. ASSUME NEW k \in Circuits, Tick(k) PROVE CodeInv(j)'
  BY <1>6 DEF Tick
<1>7. ASSUME NEW k \in Circuits, Reset(k) PROVE CodeInv(j)'
  BY <1>7 DEF Reset
<1>8. ASSUME NEW k \in Circuits, Compile(k) PROVE CodeInv(j)'
  BY <1>8 DEF Compile, Build, BeginDeinit
<1>9. ASSUME NEW k \in Circuits, Validate(k) PROVE CodeInv(j)'
  BY <1>9 DEF Validate, Build, BeginDeinit
<1>10. ASSUME NEW c \in Comps, AddComponent(c) PROVE CodeInv(j)'
  BY <1>10 DEF AddComponent, DllLoad
<1>11. ASSUME NEW c \in Comps, RemoveComponent(c) PROVE CodeInv(j)'
  BY <1>11 DEF RemoveComponent, BeginDeinit
<1> QED
  BY <1>1, <1>2, <1>3, <1>4, <1>5, <1>6, <1>7, <1>8, <1>9, <1>10, <1>11 DEF Host

\* At the start there is no compiled code.
LEMMA SafeInit == Init => SafeInv
BY DEF Init, SafeInv, CodeInv, Leaving

\* Both kinds of step keep it.
LEMMA SafeNext ==
    (~InitMayThrow \/ NoneThrows) /\ IInv /\ SafeInv /\ [Next]_vars => SafeInv'
<1> SUFFICES ASSUME ~InitMayThrow \/ NoneThrows, IInv, SafeInv, [Next]_vars PROVE SafeInv'
  OBVIOUS
<1>1. CASE UNCHANGED vars
  BY <1>1 DEF vars, lib, comp, code, flags, ctl, SafeInv, CodeInv
<1> QED
  BY <1>1, SafeHost, SafeStep DEF Next

\* What is mapped when compiled code may be entered.
LEMMA SafeMeansLive == IInv /\ SafeInv => NoStaleCall
<1> SUFFICES ASSUME IInv, SafeInv, NEW k \in Circuits, NEW c \in Comps, MayCall(k, c)
             PROVE  jit[c] = "live"
  BY DEF NoStaleCall
<1>1. Owner[c] = k /\ CodeInv(k) /\ CircuitInv(k)
  BY DEF MayCall, IInv, SafeInv, CircuitInv
<1>2. CASE pc[k] \in {"creating", "calling"}
  BY <1>1, <1>2 DEF MayCall, CodeInv, CircuitInv, Running
<1>3. CASE pc[k] = "destroying"
  BY <1>1, <1>3 DEF MayCall, CodeInv
<1> QED
  BY <1>2, <1>3 DEF MayCall

\* Compiled code never calls into a library that has been unloaded since it was
\* compiled, for any number of circuits that share the library and however
\* their calls overlap, as long as no init is rolled back.
THEOREM NoStaleCallUnlessInitFails == ~InitMayThrow => (Spec => []NoStaleCall)
<1> SUFFICES ASSUME ~InitMayThrow PROVE Spec => []NoStaleCall
  OBVIOUS
<1>1. IInv /\ SafeInv => NoStaleCall
  BY SafeMeansLive
<1>2. Init => SafeInv
  BY SafeInit
<1>3. IInv /\ SafeInv /\ [Next]_vars => SafeInv'
  BY SafeNext
<1> QED
  BY <1>1, <1>2, <1>3, Invariant, PTL DEF Spec

\* What the history adds to a step.
LEMMA HistoryStep ==
    ASSUME [Next /\ Record]_<<vars, overlapped, threw>>
    PROVE  /\ [Next]_vars
           /\ \/ Record \/ UNCHANGED <<vars, overlapped, threw>>
           /\ (threw => threw') /\ (overlapped => overlapped')
<1>1. [Next]_vars /\ (Record \/ UNCHANGED <<vars, overlapped, threw>>)
  OBVIOUS
<1>2. CASE Record
  BY <1>1, <1>2, Zenon DEF Record
<1>3. CASE UNCHANGED <<vars, overlapped, threw>>
  BY <1>1, <1>3
<1> QED
  BY <1>1, <1>2, <1>3

LEMMA HistoryIsSpec == HistorySpec => Spec
BY HistoryStep, PTL DEF HistorySpec, HistoryInit, Spec

\* The same where inits may throw, up to the first that does: what a failing
\* init leaves behind is the only way to a stale call.
THEOREM NoStaleCallBeforeAFailure == HistorySpec => []NoStaleUnlessThrown
<1> DEFINE J == ~threw => SafeInv
<1>1. HistoryInit => J
  BY SafeInit DEF HistoryInit
<1>2. IInv /\ J /\ [Next /\ Record]_<<vars, overlapped, threw>> => J'
  <2> SUFFICES ASSUME IInv, ~threw => SafeInv, [Next /\ Record]_<<vars, overlapped, threw>>, ~threw'
               PROVE  SafeInv'
    OBVIOUS
  <2>1. ~threw /\ [Next]_vars /\ (Record \/ UNCHANGED <<vars, overlapped, threw>>)
    BY HistoryStep
  <2>2. CASE Record
    <3>1. NoneThrows
      BY <2>2 DEF Record, NoneThrows
    <3> QED
      BY <2>1, <3>1, SafeNext
  <2>3. CASE UNCHANGED <<vars, overlapped, threw>>
    BY <2>1, <2>3 DEF vars, lib, comp, code, flags, ctl, SafeInv, CodeInv
  <2> QED
    BY <2>1, <2>2, <2>3
<1>3. IInv /\ J => NoStaleUnlessThrown
  BY SafeMeansLive DEF NoStaleUnlessThrown
<1> HIDE DEF J
<1> QED
  BY <1>1, <1>2, <1>3, Invariant, HistoryIsSpec, PTL DEF HistorySpec
-----------------------------------------------------------------------------
(* No state object outlives the code it belongs to. *)

\* Where the circuit_deinit that will destroy the object of c still lies ahead.
ObjInv(c) ==
    obj[c] # "none" =>
      /\ jit[c] # "none"
      /\ \/ started[Owner[c]] \/ pc[Owner[c]] = "creating"
         \/ pc[Owner[c]] = "destroying" /\ c \in rem[Owner[c]]
ObjectsInv == \A c \in Comps : ObjInv(c)

\* The steps of a call: an object is made under the code of its circuit, and
\* every end of that code comes after the objects' own.
LEMMA ObjectsStep ==
    ASSUME IInv, ObjectsInv, NEW k \in Circuits, Step(k)
    PROVE  ObjectsInv'
<1> SUFFICES ASSUME NEW c \in Comps PROVE ObjInv(c)'
  BY DEF ObjectsInv
<1> USE OwnerAssumption DEF lib, comp, code, flags, ctl, Goto, Took, Of, Compiled, IInv, TypeOK,
           CircuitInv, ObjectsInv, ObjInv, Pointer
<1>1. CASE Destroy(k)
  BY <1>1 DEF Destroy
<1>2. CASE Destroyed(k)
  BY <1>2 DEF Destroyed
<1>3. CASE Release(k)
  BY <1>3 DEF Release
<1>4. CASE GlobalDeinit(k)
  BY <1>4 DEF GlobalDeinit
<1>5. CASE Unload(k)
  BY <1>5 DEF Unload
<1>6. CASE Close(k)
  BY <1>6 DEF Close, DlClose, Stale
<1>7. CASE Left(k)
  BY <1>7 DEF Left
<1>8. CASE Cleanup(k)
  BY <1>8 DEF Cleanup
<1>9. CASE Erase(k) \/ Erased(k)
  BY <1>9 DEF Erase, Erased
<1>10. CASE Load(k) \/ StopBuilding(k)
  BY <1>10 DEF Load, StopBuilding
<1>11. CASE Link(k)
  BY <1>11 DEF Link
<1>12. CASE Reload(k)
  BY <1>12 DEF Reload
<1>13. CASE Acquire(k)
  BY <1>13 DEF Acquire
<1>14. CASE GlobalInit(k)
  BY <1>14 DEF GlobalInit
<1>15. CASE Throw(k) \/ Entered(k)
  BY <1>15 DEF Throw, Entered
<1>16. CASE Create(k)
  BY <1>16 DEF Create
<1>17. CASE Created(k)
  BY <1>17 DEF Created
<1>18. CASE CallDll(k) \/ Called(k)
  BY <1>18 DEF CallDll, Called
<1> QED
  BY <1>1, <1>2, <1>3, <1>4, <1>5, <1>6, <1>7, <1>8, <1>9, <1>10, <1>11, <1>12, <1>13, <1>14, <1>15,
     <1>16, <1>17, <1>18 DEF Step

\* The beginning of each call: deinit comes to every object of a started
\* circuit, and what skips it has none.
LEMMA ObjectsHost ==
    ASSUME IInv, ObjectsInv, Host
    PROVE  ObjectsInv'
<1> SUFFICES ASSUME NEW c \in Comps PROVE ObjInv(c)'
  BY DEF ObjectsInv
<1> USE OwnerAssumption DEF lib, comp, code, flags, ctl, Goto, Enter, Free, Of, Compiled, IInv, TypeOK,
           CircuitInv, ObjectsInv, ObjInv
<1>1. ASSUME NEW k \in Circuits, EditNetlist(k) \/ ClearError(k) PROVE ObjInv(c)'
  BY <1>1 DEF EditNetlist, ClearError
<1>2. ASSUME NEW k \in Circuits, NEW o, BeginDeinit(k, o) PROVE ObjInv(c)'
  BY <1>2 DEF BeginDeinit
<1>3. ASSUME NEW k \in Circuits, Deinit(k) \/ Clear(k) PROVE ObjInv(c)'
  BY <1>2, <1>3 DEF Deinit, Clear
<1>4. ASSUME NEW k \in Circuits, InitCircuit(k) \/ Tick(k) \/ Reset(k) PROVE ObjInv(c)'
  BY SMTT(30), <1>4 DEF InitCircuit, Tick, Reset
<1>5. ASSUME NEW k \in Circuits, Compile(k) \/ Validate(k) PROVE ObjInv(c)'
  <2>1. CASE started[k]
    BY <1>2, <1>5, <2>1 DEF Compile, Validate, Build
  <2>2. CASE ~started[k]
    BY <1>5, <2>2 DEF Compile, Validate, Build
  <2> QED
    BY <2>1, <2>2
<1>6. ASSUME NEW d \in Comps, AddComponent(d) PROVE ObjInv(c)'
  BY <1>6 DEF AddComponent, DllLoad
<1>7. ASSUME NEW d \in Comps, RemoveComponent(d) PROVE ObjInv(c)'
  <2>1. CASE canDeinit[Owner[d]]
    BY <1>2, <1>7, <2>1 DEF RemoveComponent
  <2>2. CASE ~canDeinit[Owner[d]]
    BY <1>7, <2>2 DEF RemoveComponent
  <2> QED
    BY <2>1, <2>2
<1> QED
  BY <1>1, <1>3, <1>4, <1>5, <1>6, <1>7 DEF Host

LEMMA ObjectsInvariant == Spec => []ObjectsInv
<1>1. Init => ObjectsInv
  BY DEF Init, ObjectsInv, ObjInv
<1>2. IInv /\ ObjectsInv /\ [Next]_vars => ObjectsInv'
  <2> SUFFICES ASSUME IInv, ObjectsInv, [Next]_vars PROVE ObjectsInv'
    OBVIOUS
  <2>1. CASE UNCHANGED vars
    BY <2>1 DEF vars, lib, comp, code, flags, ctl, ObjectsInv, ObjInv
  <2> QED
    BY <2>1, ObjectsHost, ObjectsStep DEF Next
<1> QED
  BY <1>1, <1>2, Invariant, PTL DEF Spec

\* When compiled code is dropped, every state object its circuit_init created
\* has been destroyed, failing inits and overlapping calls included.
THEOREM NoObjectIsOrphaned == Spec => []NoOrphan
<1>1. IInv /\ ObjectsInv => NoOrphan
  BY DEF IInv, ObjectsInv, ObjInv, CircuitInv, Unbuilt, NoOrphan
<1> QED
  BY <1>1, Invariant, ObjectsInvariant, PTL
-----------------------------------------------------------------------------
(* The library's own init and deinit, while calls do not overlap.            *)

\* As long as no init throws, a component with a state object is between its
\* simInit and its simDeinit, and init comes to every compiled component.
InsideInv(c) ==
    /\ obj[c] # "none" => initCalled[c]
    /\ jit[c] # "none" =>
         /\ started[Owner[c]] \/ pc[Owner[c]] = "creating" => initCalled[c]
         /\ pc[Owner[c]] \in {"entering", "global_init"} => c \in rem[Owner[c]] \/ initCalled[c]
EnteredInv == \A c \in Comps : InsideInv(c)

LEMMA EnteredStep ==
    ASSUME IInv, SafeInv, ObjectsInv, EnteredInv, NoneThrows, NEW k \in Circuits, Step(k)
    PROVE  EnteredInv'
<1> SUFFICES ASSUME NEW c \in Comps PROVE InsideInv(c)'
  BY DEF EnteredInv
<1>1. /\ InsideInv(c) /\ ObjInv(c) /\ CompInv(c) /\ CircuitInv(k) /\ CodeInv(k) /\ Owner[c] \in Circuits
      /\ CircuitInv(Owner[c]) /\ CodeInv(Owner[c]) /\ TypeOK
  BY OwnerAssumption DEF IInv, SafeInv, ObjectsInv, EnteredInv
<1> USE <1>1 DEF lib, comp, code, flags, ctl, Goto, Took, Of, Compiled, InsideInv, TypeOK
<1>2. CASE Destroy(k) \/ Destroyed(k)
  BY <1>2 DEF Destroy, Destroyed
<1>3. CASE Release(k)
  BY <1>3 DEF Release, CircuitInv, CodeInv, ObjInv, Leaving
<1>4. CASE GlobalDeinit(k) \/ Unload(k)
  BY <1>4 DEF GlobalDeinit, Unload
<1>5. CASE Close(k)
  BY <1>5 DEF Close, DlClose, Stale
<1>6. CASE Left(k)
  BY <1>6 DEF Left
<1>7. CASE Cleanup(k)
  BY <1>7 DEF Cleanup
<1>8. CASE Erase(k) \/ Erased(k)
  BY <1>8 DEF Erase, Erased
<1>9. CASE Load(k) \/ StopBuilding(k)
  BY <1>9 DEF Load, StopBuilding
<1>10. CASE Link(k)
  BY <1>10 DEF Link, CircuitInv, Unbuilt
<1>11. CASE Reload(k)
  BY <1>11 DEF Reload, CircuitInv, CodeInv, Running
<1>12. CASE Acquire(k)
  BY <1>12 DEF Acquire
<1>13. CASE GlobalInit(k)
  BY <1>13 DEF GlobalInit
<1>14. CASE Throw(k)
  BY <1>14 DEF Throw, NoneThrows
<1>15. CASE Entered(k)
  BY <1>15 DEF Entered
<1>16. CASE Create(k)
  BY <1>16 DEF Create, CodeInv, CircuitInv
<1>17. CASE Created(k)
  BY <1>17 DEF Created
<1>18. CASE CallDll(k) \/ Called(k)
  BY <1>18 DEF CallDll, Called
<1> QED
  BY <1>2, <1>3, <1>4, <1>5, <1>6, <1>7, <1>8, <1>9, <1>10, <1>11, <1>12, <1>13, <1>14, <1>15,
     <1>16, <1>17, <1>18 DEF Step

LEMMA EnteredHost ==
    ASSUME IInv, SafeInv, ObjectsInv, EnteredInv, Host
    PROVE  EnteredInv'
<1> SUFFICES ASSUME NEW c \in Comps PROVE InsideInv(c)'
  BY DEF EnteredInv
<1>1. /\ InsideInv(c) /\ ObjInv(c) /\ CompInv(c) /\ Owner[c] \in Circuits
      /\ CircuitInv(Owner[c]) /\ CodeInv(Owner[c]) /\ TypeOK
  BY OwnerAssumption DEF IInv, SafeInv, ObjectsInv, EnteredInv
<1> USE <1>1 DEF lib, comp, code, flags, ctl, Goto, Enter, Free, Of, Compiled, InsideInv, TypeOK
<1>2. ASSUME NEW k \in Circuits, EditNetlist(k) \/ ClearError(k) PROVE InsideInv(c)'
  BY <1>2 DEF EditNetlist, ClearError
<1>3. ASSUME NEW k \in Circuits, NEW o, BeginDeinit(k, o) PROVE InsideInv(c)'
  BY <1>3 DEF BeginDeinit
<1>4. ASSUME NEW k \in Circuits, Deinit(k) \/ Clear(k) PROVE InsideInv(c)'
  BY <1>3, <1>4 DEF Deinit, Clear
<1>5. ASSUME NEW k \in Circuits, InitCircuit(k) PROVE InsideInv(c)'
  BY <1>5 DEF InitCircuit, CircuitInv, CodeInv, CompInv
<1>6. ASSUME NEW k \in Circuits, Tick(k) \/ Reset(k) PROVE InsideInv(c)'
  BY <1>6 DEF Tick, Reset
<1>7. ASSUME NEW k \in Circuits, Compile(k) \/ Validate(k) PROVE InsideInv(c)'
  <2>1. CASE started[k]
    BY <1>3, <1>7, <2>1 DEF Compile, Validate, Build
  <2>2. CASE ~started[k]
    BY <1>7, <2>2 DEF Compile, Validate, Build
  <2> QED
    BY <2>1, <2>2
<1>8. ASSUME NEW d \in Comps, AddComponent(d) PROVE InsideInv(c)'
  BY <1>8 DEF AddComponent, DllLoad
<1>9. ASSUME NEW d \in Comps, RemoveComponent(d) PROVE InsideInv(c)'
  <2>1. CASE canDeinit[Owner[d]]
    BY <1>3, <1>9, <2>1, OwnerAssumption DEF RemoveComponent
  <2>2. CASE ~canDeinit[Owner[d]]
    BY <1>9, <2>2, OwnerAssumption DEF RemoveComponent
  <2> QED
    BY <2>1, <2>2
<1> QED
  BY <1>2, <1>4, <1>5, <1>6, <1>7, <1>8, <1>9 DEF Host

\* Between its init and its deinit the library counts a component; a call that
\* is about to make one of the two is the only one there is.
BracketInv ==
    /\ ~Overlap
    /\ \A k \in Circuits :
         /\ pc[k] = "global_deinit" => simRefs = 0
         /\ pc[k] = "global_init" => simRefs > 0 /\ \A c \in Comps : obj[c] = "none"
    /\ inited <=> \/ simRefs > 0 /\ \A k \in Circuits : pc[k] # "global_init"
                  \/ \E k \in Circuits : pc[k] = "global_deinit"

\* The same of the one circuit k that is in a call.
BracketOf(k) ==
    /\ pc[k] = "global_deinit" => simRefs = 0
    /\ pc[k] = "global_init" => simRefs > 0 /\ \A c \in Comps : obj[c] = "none"
    /\ inited <=> (simRefs > 0 /\ pc[k] # "global_init") \/ pc[k] = "global_deinit"

\* In a step of a call k that is the only one before the step, it still is.
LEMMA Alone ==
    ASSUME TypeOK, ~Overlap, NEW k \in Circuits, Step(k)
    PROVE  /\ \A j \in Circuits \ {k} : pc[j] = "idle" /\ pc'[j] = "idle"
           /\ ~Overlap'
<1> USE DEF Goto, ctl, TypeOK
<1>1. pc[k] # "idle" /\ \A j \in Circuits \ {k} : pc'[j] = pc[j]
  <2>1. CASE Destroy(k) \/ Destroyed(k) \/ Release(k) \/ GlobalDeinit(k) \/ Unload(k) \/ Close(k)
    BY <2>1 DEF Destroy, Destroyed, Release, GlobalDeinit, Unload, Close
  <2>2. CASE Left(k) \/ Cleanup(k) \/ Erase(k) \/ Erased(k)
    BY <2>2 DEF Left, Cleanup, Erase, Erased
  <2>3. CASE Load(k) \/ StopBuilding(k) \/ Link(k)
    BY <2>3 DEF Load, StopBuilding, Link
  <2>4. CASE Reload(k) \/ Acquire(k) \/ GlobalInit(k) \/ Throw(k) \/ Entered(k)
    BY <2>4 DEF Reload, Acquire, GlobalInit, Throw, Entered
  <2>5. CASE Create(k) \/ Created(k) \/ CallDll(k) \/ Called(k)
    BY <2>5 DEF Create, Created, CallDll, Called
  <2> QED
    BY <2>1, <2>2, <2>3, <2>4, <2>5 DEF Step
<1>2. \A j \in Circuits \ {k} : pc[j] = "idle"
  BY <1>1 DEF Overlap
<1> QED
  BY <1>1, <1>2 DEF Overlap

\* A handle is never the last to go while a component counts.
LEMMA SimRefsKept ==
    ASSUME IInv, IInv', UNCHANGED initCalled PROVE simRefs' = simRefs
BY DEF IInv, Counts, Inside

\* The table's entry closes only when no component counts any more.
LEMMA LastClose ==
    ASSUME IInv, NEW k \in Circuits, Close(k), ~(opened > 1) PROVE simRefs = 0
<1>1. Cardinality(Closing) > 0 /\ Cardinality(Closing) \in Nat
  BY ClosingType DEF Closing, Close
<1>2. refs = 0
  BY <1>1 DEF IInv, TypeOK, Counts
<1>3. \A c \in Comps : ~initCalled[c]
  BY <1>2, Count1 DEF IInv, CompInv
<1>4. Inside = {}
  BY <1>3 DEF Inside
<1> QED
  BY <1>4, FS_EmptySet DEF IInv, Counts

\* The first one in finds no state object, the last one out leaves none to come.
LEMMA BracketStep ==
    ASSUME IInv, IInv', ObjectsInv, EnteredInv, BracketInv, NEW k \in Circuits, Step(k)
    PROVE  BracketInv'
<1>1. /\ \A j \in Circuits \ {k} : pc[j] = "idle" /\ pc'[j] = "idle"
      /\ ~Overlap'
  BY Alone DEF IInv, BracketInv
<1>2. BracketOf(k)
  BY <1>1 DEF BracketInv, BracketOf
<1>3. /\ simRefs \in Nat /\ inited \in BOOLEAN /\ pc \in [Circuits -> PCs]
      /\ initCalled \in [Comps -> BOOLEAN] /\ rem[k] \subseteq Comps
  BY DEF IInv, TypeOK
<1>4. BracketOf(k)'
  <2> USE <1>2, <1>3 DEF lib, comp, code, flags, ctl, Goto, BracketOf
  <2>1. CASE Destroy(k) \/ Destroyed(k)
    BY <2>1 DEF Destroy, Destroyed
  <2>2. CASE Release(k)
    BY <2>2 DEF Release
  <2>3. CASE GlobalDeinit(k)
    BY <2>3 DEF GlobalDeinit
  <2>4. CASE Unload(k)
    <3>1. simRefs' = simRefs
      BY <2>4, SimRefsKept DEF Unload
    <3> QED
      BY <2>4, <3>1 DEF Unload, DllUnload
  <2>5. CASE Close(k)
    <3>1. ~(opened > 1) => simRefs = 0
      BY <2>5, LastClose
    <3>2. inited' = inited
      BY <2>5, <3>1 DEF Close, DlClose
    <3> QED
      BY <2>5, <3>2 DEF Close, DlClose
  <2>6. CASE Left(k) \/ Cleanup(k)
    BY <2>6 DEF Left, Cleanup
  <2>7. CASE Erase(k)
    <3>1. simRefs' = simRefs
      BY <2>7, SimRefsKept DEF Erase
    <3> QED
      BY <2>7, <3>1 DEF Erase, DllUnload
  <2>8. CASE Erased(k) \/ StopBuilding(k) \/ Link(k)
    BY <2>8 DEF Erased, StopBuilding, Link
  <2>9. CASE Load(k)
    BY <2>9 DEF Load, DllLoad
  <2>10. CASE Reload(k)
    BY <2>10 DEF Reload, DllLoad
  <2>11. CASE Acquire(k)
    <3>1. simRefs = 0 => \A c \in Comps : obj[c] = "none"
      BY Count1 DEF IInv, EnteredInv, InsideInv
    <3> QED
      BY <2>11, <3>1 DEF Acquire
  <2>12. CASE GlobalInit(k)
    BY <2>12 DEF GlobalInit
  <2>13. CASE Throw(k) \/ Entered(k)
    BY <2>13 DEF Throw, Entered
  <2>14. CASE Create(k) \/ Created(k) \/ CallDll(k) \/ Called(k)
    BY <2>14 DEF Create, Created, CallDll, Called
  <2> QED
    BY <2>1, <2>2, <2>3, <2>4, <2>5, <2>6, <2>7, <2>8, <2>9, <2>10, <2>11, <2>12, <2>13, <2>14 DEF Step
<1> QED
  BY <1>1, <1>4 DEF BracketInv, BracketOf

\* A call begins outside the library.
LEMMA BracketHost ==
    ASSUME IInv, BracketInv, Host, ~Overlap'
    PROVE  BracketInv'
<1> DEFINE Outside(p) == p \notin {"global_init", "global_deinit"}
           KeepsOut ==
             /\ UNCHANGED <<simRefs, inited, obj>>
             /\ \A j \in Circuits : pc'[j] = pc[j] \/ (Outside(pc[j]) /\ Outside(pc'[j]))
<1>1. KeepsOut
  <2> USE DEF lib, comp, code, flags, ctl, Goto, Enter, Free, IInv, TypeOK
  <2>1. ASSUME NEW k \in Circuits, EditNetlist(k) \/ ClearError(k) PROVE KeepsOut
    BY <2>1 DEF EditNetlist, ClearError
  <2>2. ASSUME NEW k \in Circuits, NEW o, BeginDeinit(k, o) PROVE KeepsOut
    BY <2>2 DEF BeginDeinit
  <2>3. ASSUME NEW k \in Circuits, Deinit(k) \/ Clear(k) PROVE KeepsOut
    BY <2>2, <2>3 DEF Deinit, Clear
  <2>4. ASSUME NEW k \in Circuits, InitCircuit(k) \/ Tick(k) \/ Reset(k) PROVE KeepsOut
    BY <2>4 DEF InitCircuit, Tick, Reset
  <2>5. ASSUME NEW k \in Circuits, Compile(k) \/ Validate(k) PROVE KeepsOut
    BY <2>2, <2>5 DEF Compile, Validate, Build
  <2>6. ASSUME NEW c \in Comps, AddComponent(c) PROVE KeepsOut
    BY <2>6 DEF AddComponent, DllLoad
  <2>7. ASSUME NEW c \in Comps, RemoveComponent(c) PROVE KeepsOut
    BY <2>2, <2>7, OwnerAssumption DEF RemoveComponent
  <2> QED
    BY <2>1, <2>3, <2>4, <2>5, <2>6, <2>7 DEF Host
<1> QED
  BY <1>1 DEF BracketInv

\* What the invariants say where init and deinit of the library run.
LEMMA BracketsHold == IInv /\ EnteredInv /\ BracketInv => ObjectsOnlyWhileInited /\ InitOnce
<1> SUFFICES ASSUME IInv, EnteredInv, BracketInv PROVE ObjectsOnlyWhileInited /\ InitOnce
  OBVIOUS
<1>1. ASSUME NEW c \in Comps, obj[c] # "none" PROVE inited
  <2>1. simRefs > 0
    BY <1>1, Count1 DEF IInv, EnteredInv, InsideInv
  <2> QED
    BY <1>1, <2>1 DEF BracketInv
<1>2. ASSUME NEW k \in Circuits
      PROVE (pc[k] = "global_init" => ~inited) /\ (pc[k] = "global_deinit" => inited)
  <2>1. pc[k] = "global_init" => \A j \in Circuits : pc[j] # "global_deinit"
    BY DEF BracketInv, Overlap
  <2> QED
    BY <2>1 DEF BracketInv
<1> QED
  BY <1>1, <1>2 DEF ObjectsOnlyWhileInited, InitOnce

\* While calls have not overlapped and no init has thrown, dcs_dll_init runs
\* before the first state object of any circuit is made and dcs_dll_deinit
\* after the last is destroyed, and the two alternate.
THEOREM InitBracketsObjects == HistorySpec => []BracketedAlone
<1> DEFINE E == ~threw => SafeInv /\ EnteredInv
           B == ~threw /\ ~overlapped => BracketInv
<1>1. HistoryInit => E /\ B
  <2>1. Init => EnteredInv
    BY DEF Init, EnteredInv, InsideInv
  <2>2. Init => BracketInv
    BY DEF Init, BracketInv, Overlap
  <2> QED
    BY <2>1, <2>2, SafeInit DEF HistoryInit
<1>2. IInv /\ IInv' /\ ObjectsInv /\ E /\ B /\ [Next /\ Record]_<<vars, overlapped, threw>>
        => E' /\ B'
  <2> SUFFICES ASSUME IInv, IInv', ObjectsInv, E, B,
                      [Next /\ Record]_<<vars, overlapped, threw>>
               PROVE  E' /\ B'
    OBVIOUS
  <2>1. /\ [Next]_vars /\ (Record \/ UNCHANGED <<vars, overlapped, threw>>)
        /\ (threw => threw') /\ (overlapped => overlapped')
    BY HistoryStep
  <2>2. CASE UNCHANGED <<vars, overlapped, threw>>
    BY <2>2 DEF vars, lib, comp, code, flags, ctl, SafeInv, CodeInv, EnteredInv, InsideInv,
                BracketInv, Overlap
  <2>3. CASE Record
    <3>1. /\ ~threw' => NoneThrows
          /\ ~overlapped' => ~Overlap'
      BY <2>3, Zenon DEF Record, NoneThrows
    <3>2. ASSUME ~threw' PROVE SafeInv' /\ EnteredInv'
      <4>1. SafeInv'
        BY <2>1, <3>1, <3>2, SafeNext
      <4>2. ASSUME UNCHANGED vars PROVE EnteredInv'
        BY <2>1, <3>2, <4>2 DEF vars, lib, comp, code, flags, ctl, EnteredInv, InsideInv
      <4>3. SafeInv /\ EnteredInv /\ NoneThrows
        BY <2>1, <3>1, <3>2
      <4>4. ASSUME Host PROVE EnteredInv'
        BY <4>3, <4>4, EnteredHost
      <4>5. ASSUME NEW k \in Circuits, Step(k) PROVE EnteredInv'
        BY <4>3, <4>5, EnteredStep
      <4> QED
        BY <2>1, <4>1, <4>2, <4>4, <4>5 DEF Next
    <3>3. ASSUME ~threw', ~overlapped' PROVE BracketInv'
      <4>1. CASE UNCHANGED vars
        BY <2>1, <3>3, <4>1 DEF vars, lib, comp, code, flags, ctl, BracketInv, Overlap
      <4> QED
        BY <2>1, <3>1, <3>3, <4>1, BracketStep, BracketHost DEF Next
    <3> QED
      BY <3>2, <3>3
  <2> QED
    BY <2>1, <2>2, <2>3
<1>3. IInv /\ E /\ B => BracketedAlone
  BY BracketsHold DEF BracketedAlone
<1> HIDE DEF E, B
<1> QED
  BY <1>1, <1>2, <1>3, Invariant, ObjectsInvariant, HistoryIsSpec, PTL DEF HistorySpec

====
