---------------------------- MODULE DllLifecycle ----------------------------
(***************************************************************************)
(* The lifecycle calls of class Circuit (addComponent, compile, validate,  *)
(* init, tick, reset, deinit, removeComponent, clear) as far as they touch *)
(* a shared library: Dll.cpp's table of handles, which several components  *)
(* of several circuits share, the library's own init and deinit, and the   *)
(* addresses in it that compiled code holds.                               *)
(*                                                                         *)
(* All components here load one library, the only case in which they meet. *)
(* Calls on different circuits may overlap.  A call is a sequence of       *)
(* steps, each at most one critical section of dll_mutex or one call into  *)
(* the library.  A loop over the components of a circuit takes them in any *)
(* order: rem is the set it has not come to.                               *)
(***************************************************************************)
EXTENDS Integers, FiniteSets

CONSTANTS
    Circuits,
    Comps,         \* the DLL components
    Owner,         \* the circuit each component belongs to, once added
    NoComp,        \* no component
    Concurrent,    \* may calls on different circuits overlap?
    InitMayThrow   \* may the simInit of some other component throw?

ASSUME OwnerAssumption == Owner \in [Comps -> Circuits]
ASSUME NoCompAssumption == NoComp \notin Comps
ASSUME FiniteAssumption == IsFiniteSet(Comps) /\ IsFiniteSet(Circuits)
ASSUME FlagsAssumption == Concurrent \in BOOLEAN /\ InitMayThrow \in BOOLEAN

VARIABLES
    refs, simRefs,      \* the table's entry; no entry when refs = 0
    opened,             \* dlopen less dlclose: the library is mapped while > 0
    inited,             \* dcs_dll_init has run, dcs_dll_deinit has not
    has,                \* the component is in its circuit
    loaded, initCalled, \* _loaded and _init_called of each component
    jit,                \* the library address compiled in for each component
    obj,                \* the component's _dcs_dll_state in the compiled code
    compiled, started,  \* _compiled and _sim_started of each circuit
    failed,             \* _tick_error is set
    canDeinit,          \* _jit.deinit is not null
    pc, op, rem, cur,   \* the call in progress on each circuit
    doomed              \* the components it destroys

lib == <<refs, simRefs, opened, inited>>
comp == <<has, loaded, initCalled>>
code == <<jit, obj>>
flags == <<compiled, started, failed, canDeinit>>
ctl == <<pc, op, rem, cur, doomed>>
vars == <<lib, comp, code, flags, ctl>>

Of(k) == {c \in Comps : Owner[c] = k /\ has[c]}
Compiled(k) == {c \in Comps : Owner[c] = k /\ jit[c] # "none"}

\* May a call on k begin?
Free(k) == pc[k] = "idle" /\ (Concurrent \/ \A j \in Circuits : pc[j] = "idle")

Goto(k, p, r) == pc' = [pc EXCEPT ![k] = p] /\ rem' = [rem EXCEPT ![k] = r]
Enter(k, o, p, r) ==
    Free(k) /\ op' = [op EXCEPT ![k] = o] /\ Goto(k, p, r) /\ UNCHANGED cur
Took(k, c) == rem[k] \ {c}

-----------------------------------------------------------------------------
(* The table of handles. *)

\* dll_load and loadSymbols.  (A failing loadSymbols gives the reference back.)
DllLoad(c) ==
    /\ refs' = refs + 1
    /\ opened' = IF refs = 0 THEN opened + 1 ELSE opened
    /\ loaded' = [loaded EXCEPT ![c] = TRUE]
    /\ UNCHANGED <<simRefs, inited>>

\* dll_unload, up to the end of its critical section: the last reference
\* removes the entry, and the caller goes on to close the library.
DllUnload(c) ==
    /\ refs' = refs - 1
    /\ simRefs' = IF refs = 1 THEN 0 ELSE simRefs
    /\ loaded' = [loaded EXCEPT ![c] = FALSE]
    /\ UNCHANGED <<opened, inited>>

Stale(f) == [c \in Comps |-> IF f[c] = "live" THEN "stale" ELSE f[c]]

\* dlclose: the last one unmaps the library, and what pointed into it is stale.
DlClose ==
    /\ opened' = opened - 1
    /\ inited' = (inited /\ opened > 1)
    /\ jit' = IF opened > 1 THEN jit ELSE Stale(jit)
    /\ obj' = IF opened > 1 THEN obj ELSE Stale(obj)
    /\ UNCHANGED <<refs, simRefs>>

-----------------------------------------------------------------------------
Init ==
    /\ refs = 0 /\ simRefs = 0 /\ opened = 0 /\ inited = FALSE
    /\ has = [c \in Comps |-> FALSE]
    /\ loaded = [c \in Comps |-> FALSE] /\ initCalled = [c \in Comps |-> FALSE]
    /\ jit = [c \in Comps |-> "none"] /\ obj = [c \in Comps |-> "none"]
    /\ compiled = [k \in Circuits |-> FALSE] /\ started = [k \in Circuits |-> FALSE]
    /\ failed = [k \in Circuits |-> FALSE] /\ canDeinit = [k \in Circuits |-> FALSE]
    /\ pc = [k \in Circuits |-> "idle"] /\ op = [k \in Circuits |-> "none"]
    /\ rem = [k \in Circuits |-> {}] /\ cur = [k \in Circuits |-> NoComp]
    /\ doomed = [k \in Circuits |-> {}]

\* addComponent: prepare() loads the library to read the pins; a failure there
\* leaves everything as it was.
AddComponent(c) ==
    /\ Free(Owner[c]) /\ ~has[c]
    /\ DllLoad(c)
    /\ has' = [has EXCEPT ![c] = TRUE]
    /\ compiled' = [compiled EXCEPT ![Owner[c]] = FALSE]
    /\ UNCHANGED <<initCalled, code, started, failed, canDeinit, ctl>>

\* createNet, connect, removeNet: the compiled code no longer fits.
EditNetlist(k) ==
    /\ Free(k) /\ compiled[k]
    /\ compiled' = [compiled EXCEPT ![k] = FALSE]
    /\ UNCHANGED <<lib, comp, code, started, failed, canDeinit, ctl>>

ClearError(k) ==
    /\ Free(k) /\ failed[k]
    /\ failed' = [failed EXCEPT ![k] = FALSE]
    /\ UNCHANGED <<lib, comp, code, compiled, started, canDeinit, ctl>>

(* deinit, which compile, validate, removeComponent and clear begin with. *)

BeginDeinit(k, o) ==
    /\ Enter(k, o, "destroying", IF canDeinit[k] THEN Compiled(k) ELSE {})
    /\ compiled' = [compiled EXCEPT ![k] = FALSE]
    /\ started' = [started EXCEPT ![k] = FALSE]
    /\ canDeinit' = [canDeinit EXCEPT ![k] = FALSE]
    /\ UNCHANGED <<lib, comp, code, failed>>

Deinit(k) == BeginDeinit(k, "deinit") /\ doomed' = [doomed EXCEPT ![k] = {}]
Clear(k) == BeginDeinit(k, "clear") /\ doomed' = [doomed EXCEPT ![k] = Of(k)]

\* Mutant: the component is destroyed first.
RemoveComponent_NoDeinit(c) ==
    LET k == Owner[c] IN
    /\ has[c]
    /\ doomed' = [doomed EXCEPT ![k] = {c}]
    /\ Enter(k, "remove", "erasing", {c})
    /\ compiled' = [compiled EXCEPT ![k] = FALSE]
    /\ UNCHANGED <<lib, comp, code, started, failed, canDeinit>>

RemoveComponent(c) ==
    LET k == Owner[c] IN
    /\ has[c]
    /\ doomed' = [doomed EXCEPT ![k] = {c}]
    /\ IF canDeinit[k] THEN BeginDeinit(k, "remove")
       ELSE /\ Enter(k, "remove", "erasing", {c})
            /\ compiled' = [compiled EXCEPT ![k] = FALSE]
            /\ UNCHANGED <<lib, comp, code, started, failed, canDeinit>>

\* Mutant: straight to jitCleanup.
Build_NoDeinit(k, o) ==
    /\ doomed' = [doomed EXCEPT ![k] = {}]
    /\ Enter(k, o, "cleanup", {}) /\ UNCHANGED <<lib, comp, code, flags>>

\* compile and validate deinit only a circuit that init has started.
Build(k, o) ==
    /\ doomed' = [doomed EXCEPT ![k] = {}]
    /\ IF started[k] THEN BeginDeinit(k, o)
       ELSE Enter(k, o, "cleanup", {}) /\ UNCHANGED <<lib, comp, code, flags>>
Compile(k) == Build(k, "compile")
Validate(k) == Build(k, "validate")

\* circuit_deinit: dcs_dll_destroy for each state object.
Destroy(k) == \E c \in rem[k] :
    /\ pc[k] = "destroying"
    /\ obj' = [obj EXCEPT ![c] = "none"]
    /\ Goto(k, "destroying", Took(k, c))
    /\ UNCHANGED <<lib, comp, jit, flags, op, cur, doomed>>

Destroyed(k) ==
    /\ pc[k] = "destroying" /\ rem[k] = {}
    /\ Goto(k, "leaving", Of(k))
    /\ UNCHANGED <<lib, comp, code, flags, op, cur, doomed>>

\* Mutant: the mark is not cleared.
Release_KeepsMark(k) == \E c \in rem[k] :
    /\ pc[k] = "leaving"
    /\ cur' = [cur EXCEPT ![k] = c]
    /\ LET counts == initCalled[c] /\ simRefs > 0 IN
       /\ simRefs' = IF counts THEN simRefs - 1 ELSE simRefs
       /\ Goto(k, IF counts /\ simRefs = 1 THEN "global_deinit" ELSE "unloading", Took(k, c))
    /\ UNCHANGED <<refs, opened, inited, comp, code, flags, op, doomed>>

\* simDeinit of one component: dll_sim_release tells the last one out to call
\* dcs_dll_deinit, after the lock is released; then the handle goes.
Release(k) == \E c \in rem[k] :
    /\ pc[k] = "leaving"
    /\ cur' = [cur EXCEPT ![k] = c]
    /\ LET counts == initCalled[c] /\ simRefs > 0 IN
       /\ simRefs' = IF counts THEN simRefs - 1 ELSE simRefs
       /\ Goto(k, IF counts /\ simRefs = 1 THEN "global_deinit" ELSE "unloading", Took(k, c))
    /\ initCalled' = [initCalled EXCEPT ![c] = FALSE]
    /\ UNCHANGED <<refs, opened, inited, has, loaded, code, flags, op, doomed>>

GlobalDeinit(k) ==
    /\ pc[k] = "global_deinit"
    /\ inited' = FALSE
    /\ Goto(k, "unloading", rem[k])
    /\ UNCHANGED <<refs, simRefs, opened, comp, code, flags, op, cur, doomed>>

Unload(k) ==
    /\ pc[k] = "unloading"
    /\ cur' = [cur EXCEPT ![k] = NoComp]
    /\ IF loaded[cur[k]]
       THEN DllUnload(cur[k]) /\ Goto(k, IF refs = 1 THEN "closing" ELSE "leaving", rem[k])
       ELSE UNCHANGED <<lib, loaded>> /\ Goto(k, "leaving", rem[k])
    /\ UNCHANGED <<has, initCalled, code, flags, op, doomed>>

Close(k) ==
    /\ pc[k] \in {"closing", "erase_closing"}
    /\ DlClose
    /\ Goto(k, IF pc[k] = "closing" THEN "leaving" ELSE "erasing", rem[k])
    /\ UNCHANGED <<comp, flags, op, cur, doomed>>

\* What the caller of deinit goes on with.
Left(k) ==
    /\ pc[k] = "leaving" /\ rem[k] = {}
    /\ Goto(k, IF op[k] \in {"deinit", "rollback"} THEN "idle"
               ELSE IF op[k] = "remove" THEN "erasing" ELSE "cleanup", doomed[k])
    /\ failed' = [failed EXCEPT ![k] = failed[k] \/ op[k] = "rollback"]
    /\ UNCHANGED <<lib, comp, code, compiled, started, canDeinit, op, cur, doomed>>

\* jitCleanup: the compiled code goes, its state objects with it.
Cleanup(k) ==
    /\ pc[k] = "cleanup"
    /\ jit' = [c \in Comps |-> IF Owner[c] = k THEN "none" ELSE jit[c]]
    /\ obj' = [c \in Comps |-> IF Owner[c] = k THEN "none" ELSE obj[c]]
    /\ compiled' = [compiled EXCEPT ![k] = FALSE]
    /\ canDeinit' = [canDeinit EXCEPT ![k] = FALSE]
    /\ failed' = [failed EXCEPT ![k] = failed[k] /\ op[k] # "compile"]
    /\ IF op[k] = "clear" THEN Goto(k, "erasing", doomed[k]) ELSE Goto(k, "loading", Of(k))
    /\ UNCHANGED <<lib, comp, started, op, cur, doomed>>

\* The destructor gives back a handle that simDeinit has not.
Erase(k) == \E c \in rem[k] :
    /\ pc[k] = "erasing"
    /\ has' = [has EXCEPT ![c] = FALSE]
    /\ IF loaded[c]
       THEN DllUnload(c) /\ Goto(k, IF refs = 1 THEN "erase_closing" ELSE "erasing", Took(k, c))
       ELSE UNCHANGED <<lib, loaded>> /\ Goto(k, "erasing", Took(k, c))
    /\ UNCHANGED <<initCalled, code, flags, op, cur, doomed>>

Erased(k) ==
    /\ pc[k] = "erasing" /\ rem[k] = {}
    /\ Goto(k, "idle", {})
    /\ UNCHANGED <<lib, comp, code, flags, op, cur, doomed>>

(* compile and validate, after jitCleanup. *)

\* prepareForCompile of one component.
Load(k) == \E c \in rem[k] :
    /\ pc[k] = "loading"
    /\ IF loaded[c] THEN UNCHANGED <<lib, loaded>> ELSE DllLoad(c)
    /\ Goto(k, "loading", Took(k, c))
    /\ UNCHANGED <<has, initCalled, code, flags, op, cur, doomed>>

\* An error on the way (no library, a bad netlist, no memory), or the end of
\* validate.
StopBuilding(k) ==
    /\ pc[k] = "loading"
    /\ Goto(k, "idle", {})
    /\ UNCHANGED <<lib, comp, code, flags, op, cur, doomed>>

\* The backend resolves the symbols the components export.
Link(k) ==
    /\ pc[k] = "loading" /\ rem[k] = {} /\ op[k] = "compile"
    /\ jit' = [c \in Comps |-> IF c \in Of(k) THEN "live" ELSE jit[c]]
    /\ compiled' = [compiled EXCEPT ![k] = TRUE]
    /\ canDeinit' = [canDeinit EXCEPT ![k] = TRUE]
    /\ Goto(k, "idle", {})
    /\ UNCHANGED <<lib, comp, obj, started, failed, op, cur, doomed>>

(* init *)

InitCircuit(k) ==
    /\ compiled[k]
    /\ Enter(k, "init", "entering", Of(k))
    /\ failed' = [failed EXCEPT ![k] = FALSE]
    /\ UNCHANGED <<lib, comp, code, compiled, started, canDeinit, doomed>>

\* simInit reloads a library that is gone, and gives up in silence if it cannot.
Reload(k) == \E c \in rem[k] :
    /\ pc[k] = "entering" /\ ~loaded[c]
    /\ \/ DllLoad(c) /\ UNCHANGED rem
       \/ UNCHANGED <<lib, loaded>> /\ rem' = [rem EXCEPT ![k] = Took(k, c)]
    /\ UNCHANGED <<has, initCalled, code, flags, pc, op, cur, doomed>>

\* Mutant: every instance runs the library's init.
Acquire_EachInits(k) == \E c \in rem[k] :
    /\ pc[k] = "entering" /\ loaded[c]
    /\ simRefs' = IF initCalled[c] THEN simRefs ELSE simRefs + 1
    /\ Goto(k, IF initCalled[c] THEN "entering" ELSE "global_init", Took(k, c))
    /\ initCalled' = [initCalled EXCEPT ![c] = TRUE]
    /\ UNCHANGED <<refs, opened, inited, has, loaded, code, flags, op, cur, doomed>>

\* dll_sim_acquire: the first one in is told to call dcs_dll_init.
Acquire(k) == \E c \in rem[k] :
    /\ pc[k] = "entering" /\ loaded[c]
    /\ simRefs' = IF initCalled[c] THEN simRefs ELSE simRefs + 1
    /\ Goto(k, IF ~initCalled[c] /\ simRefs = 0 THEN "global_init" ELSE "entering", Took(k, c))
    /\ initCalled' = [initCalled EXCEPT ![c] = TRUE]
    /\ UNCHANGED <<refs, opened, inited, has, loaded, code, flags, op, cur, doomed>>

GlobalInit(k) ==
    /\ pc[k] = "global_init"
    /\ inited' = TRUE
    /\ Goto(k, "entering", rem[k])
    /\ UNCHANGED <<refs, simRefs, opened, comp, code, flags, op, cur, doomed>>

\* Another component's simInit throws: everyone is rolled back.
Throw(k) ==
    /\ InitMayThrow /\ pc[k] = "entering"
    /\ op' = [op EXCEPT ![k] = "rollback"]
    /\ Goto(k, "leaving", Of(k))
    /\ UNCHANGED <<lib, comp, code, flags, cur, doomed>>

Entered(k) ==
    /\ pc[k] = "entering" /\ rem[k] = {}
    /\ Goto(k, "creating", Compiled(k))
    /\ UNCHANGED <<lib, comp, code, flags, op, cur, doomed>>

\* circuit_init: an old state object is destroyed, a new one created.
Create(k) == \E c \in rem[k] :
    /\ pc[k] = "creating"
    /\ obj' = [obj EXCEPT ![c] = jit[c]]
    /\ Goto(k, "creating", Took(k, c))
    /\ UNCHANGED <<lib, comp, jit, flags, op, cur, doomed>>

Created(k) ==
    /\ pc[k] = "creating" /\ rem[k] = {}
    /\ started' = [started EXCEPT ![k] = TRUE]
    /\ Goto(k, "idle", {})
    /\ UNCHANGED <<lib, comp, code, compiled, failed, canDeinit, op, cur, doomed>>

(* tick and reset *)

Tick(k) ==
    /\ compiled[k] /\ ~failed[k]
    /\ Enter(k, "tick", "calling", Compiled(k))
    /\ UNCHANGED <<lib, comp, code, flags, doomed>>

Reset(k) ==
    /\ compiled[k]
    /\ Enter(k, "reset", "calling", {c \in Compiled(k) : obj[c] # "none"})
    /\ failed' = [failed EXCEPT ![k] = FALSE]
    /\ UNCHANGED <<lib, comp, code, compiled, started, canDeinit, doomed>>

CallDll(k) == \E c \in rem[k] :
    /\ pc[k] = "calling"
    /\ Goto(k, "calling", Took(k, c))
    /\ UNCHANGED <<lib, comp, code, flags, op, cur, doomed>>

Called(k) ==
    /\ pc[k] = "calling" /\ rem[k] = {}
    /\ Goto(k, "idle", {})
    /\ UNCHANGED <<lib, comp, code, flags, op, cur, doomed>>

Host ==
    \/ \E c \in Comps : AddComponent(c) \/ RemoveComponent(c)
    \/ \E k \in Circuits :
         \/ Compile(k) \/ Validate(k) \/ InitCircuit(k) \/ Tick(k) \/ Reset(k)
         \/ EditNetlist(k) \/ ClearError(k) \/ Deinit(k) \/ Clear(k)

Step(k) ==
    \/ Destroy(k) \/ Destroyed(k) \/ Release(k) \/ GlobalDeinit(k) \/ Unload(k) \/ Close(k)
    \/ Left(k) \/ Cleanup(k) \/ Erase(k) \/ Erased(k)
    \/ Load(k) \/ StopBuilding(k) \/ Link(k)
    \/ Reload(k) \/ Acquire(k) \/ GlobalInit(k) \/ Throw(k) \/ Entered(k)
    \/ Create(k) \/ Created(k) \/ CallDll(k) \/ Called(k)

Next == Host \/ \E k \in Circuits : Step(k)

Spec == Init /\ [][Next]_vars
-----------------------------------------------------------------------------
(* Properties. *)

Pointer == {"none", "live", "stale"}
PCs == {"idle", "destroying", "leaving", "global_deinit", "unloading", "closing", "cleanup",
        "erasing", "erase_closing", "loading", "entering", "global_init", "creating", "calling"}

TypeOK ==
    /\ refs \in Nat /\ simRefs \in Nat /\ opened \in Nat
    /\ inited \in BOOLEAN
    /\ has \in [Comps -> BOOLEAN]
    /\ loaded \in [Comps -> BOOLEAN] /\ initCalled \in [Comps -> BOOLEAN]
    /\ jit \in [Comps -> Pointer] /\ obj \in [Comps -> Pointer]
    /\ compiled \in [Circuits -> BOOLEAN] /\ started \in [Circuits -> BOOLEAN]
    /\ failed \in [Circuits -> BOOLEAN] /\ canDeinit \in [Circuits -> BOOLEAN]
    /\ pc \in [Circuits -> PCs]
    /\ op \in [Circuits -> {"none", "deinit", "clear", "remove", "compile", "validate",
                            "init", "rollback", "tick", "reset"}]
    /\ rem \in [Circuits -> SUBSET Comps] /\ doomed \in [Circuits -> SUBSET Comps]
    /\ cur \in [Circuits -> Comps \cup {NoComp}]

\* The table counts the components that hold a handle and those between
\* simInit and simDeinit, whatever the circuits do meanwhile; the library is
\* open once for a table entry and once for each dlclose still to come.
Holders == {c \in Comps : loaded[c]}
Inside == {c \in Comps : initCalled[c]}
Closing == {k \in Circuits : pc[k] \in {"closing", "erase_closing"}}
CountsMatch ==
    /\ refs = Cardinality(Holders) /\ simRefs = Cardinality(Inside)
    /\ Inside \subseteq Holders
    /\ opened = Cardinality(Closing) + (IF refs = 0 THEN 0 ELSE 1)

\* Compiled code never calls into a library that has been unloaded since it
\* was compiled.
MayCall(k, c) ==
    /\ c \in rem[k]
    /\ \/ pc[k] \in {"creating", "calling"}
       \/ pc[k] = "destroying" /\ obj[c] # "none"
NoStaleCall == \A k \in Circuits, c \in Comps : MayCall(k, c) => jit[c] = "live"

\* The library's contract: its init runs before any state object is created
\* and its deinit after the last is destroyed, over all circuits.
ObjectsOnlyWhileInited == (\E c \in Comps : obj[c] # "none") => inited

\* dcs_dll_init and dcs_dll_deinit alternate.
InitOnce ==
    \A k \in Circuits : /\ pc[k] = "global_init" => ~inited
                        /\ pc[k] = "global_deinit" => inited

\* No state object is lost with the code that owns it.
NoOrphan == \A k \in Circuits, c \in Comps :
    pc[k] = "cleanup" /\ Owner[c] = k => obj[c] = "none"
=============================================================================
