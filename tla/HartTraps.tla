------------------------------ MODULE HartTraps ------------------------------
(* Privilege, interrupts and traps of RiscVCPU: what a rising edge of the    *)
(* clock does to mip, how an interrupt or an exception enters a handler and  *)
(* how MRET and SRET leave it, WFI, the CSRs that govern all this, and the   *)
(* built-in SBI.  Fetching, page walks and memory accesses appear as phases  *)
(* that take some edges and may end in a fault; HartMmu, HartFetch   *)
(* and HartAccess say what happens in them.                                  *)
EXTENDS Privilege

CONSTANTS Wires,     \* the sets of interrupt wires that may be up at an edge
          Masks,     \* the sets of interrupts software writes to mie, sie, mip, sip
          Fields,    \* the bits of mstatus software writes
          Setups     \* the values of mideleg, medeleg and mtvec software installs

External == {"MEI", "MTI", "MSI", "SEI"}
Supervisor == {"SSI", "STI", "SEI"}
Writable == {"SEI", "STI"}
Rank == [MEI |-> 1, MSI |-> 2, MTI |-> 3, SEI |-> 4, SSI |-> 5, STI |-> 6]
Exceptions == {"fault", "illegal", "breakpoint", "ecallU", "ecallS"}

ASSUME WiresAssumption == Wires \subseteq SUBSET External
ASSUME MasksAssumption == Masks \subseteq SUBSET DOMAIN Rank
ASSUME SetupsAssumption == \A s \in Setups : s.mtvec \in BOOLEAN

VARIABLES hart,    \* the CpuState
          timer,   \* timer_deadline against cycles: never, ahead or due
          wanted,  \* (history) the mip bits software has asked for
          frames   \* (history) per level, what its last trap interrupted
trapVars == <<hart, timer, wanted, frames>>

ResetState ==
  [priv |-> M, phase |-> "FETCH", mie |-> {}, mip |-> {}, mip_sw |-> {},
   mideleg |-> {}, medeleg |-> {}, mtvec |-> FALSE, wfi |-> FALSE, off |-> FALSE,
   MIE |-> FALSE, MPIE |-> FALSE, MPP |-> U, SIE |-> FALSE, SPIE |-> FALSE,
   SPP |-> U, MPRV |-> FALSE, TSR |-> FALSE, TW |-> FALSE]

NoFrame == [M |-> {}, S |-> {}]

TrapInit ==
  /\ hart = ResetState
  /\ timer = "never"
  /\ wanted = {}
  /\ frames = NoFrame

(***************************************************************************)
(* The edge: the wires, the software bits and the timer are put together.  *)
(***************************************************************************)
Merged(h, w, t) ==
  LET ext == IF w = {} /\ h.mip \cap External = {} THEN h.mip
             ELSE (h.mip \ External) \cup w \cup (h.mip_sw \cap {"SEI"})
      mirror == IF "STI" \in h.mideleg /\ ("MTI" \in w \/ t = "due")
                THEN ext \cup {"STI"} ELSE ext \ {"STI"}
  IN  [h EXCEPT !.mip = mirror \cup (h.mip_sw \cap {"STI"})]

(* While an access waits and no line is up or remembered the edge returns  *)
(* before anything is merged.                                              *)
QuietEdge(h, w) ==
  /\ h.phase = "WAIT_MEM" /\ w = {} /\ h.mip \cap External = {}
  /\ "STI" \notin h.mideleg \cup h.mip /\ ~h.wfi

Wakes(h) == ~h.off /\ h.wfi /\ h.mip \cap h.mie /= {}
Woken(h) == IF Wakes(h) THEN [h EXCEPT !.wfi = FALSE, !.phase = "FETCH"] ELSE h

(***************************************************************************)
(* Interrupts and traps.                                                   *)
(***************************************************************************)
Highest(p) == CHOOSE i \in p : \A j \in p : Rank[i] <= Rank[j]

TakeInterrupt(h) ==
  LET pending == h.mie \cap h.mip
      toM == pending \ h.mideleg
      toS == pending \cap h.mideleg
  IN  IF toM /= {} /\ (h.priv /= M \/ h.MIE) THEN {Highest(toM)}
      ELSE IF toS /= {} /\ h.priv /= M /\ (h.priv = U \/ h.SIE) THEN {Highest(toS)}
      ELSE {}

TrapLevel(h, cause) == IF h.priv /= M /\ cause \in h.mideleg \cup h.medeleg THEN "S" ELSE "M"

EnterS(h) == [h EXCEPT !.SPIE = h.SIE, !.SIE = FALSE, !.SPP = h.priv, !.priv = S]
\* Mutant: an M-level trap pushes the S-level enable as well.
EnterM_BothStacks(h) ==
  [h EXCEPT !.MPIE = h.MIE, !.MIE = FALSE, !.SPIE = h.SIE, !.MPP = h.priv, !.priv = M]
EnterM(h) == [h EXCEPT !.MPIE = h.MIE, !.MIE = FALSE, !.MPP = h.priv, !.priv = M]
TakeTrap(h, cause) ==
  [(IF TrapLevel(h, cause) = "S" THEN EnterS(h) ELSE EnterM(h)) EXCEPT !.phase = "FETCH"]

Mret(h) ==
  [h EXCEPT !.priv = h.MPP, !.MIE = h.MPIE, !.MPIE = TRUE, !.MPP = U,
            !.MPRV = @ /\ h.MPP = M, !.phase = "FETCH"]
\* Mutant: SRET leaves MPRV.
Sret_KeepsMprv(h) ==
  [h EXCEPT !.priv = h.SPP, !.SIE = h.SPIE, !.SPIE = TRUE, !.SPP = U, !.phase = "FETCH"]
Sret(h) ==
  [h EXCEPT !.priv = h.SPP, !.SIE = h.SPIE, !.SPIE = TRUE, !.SPP = U,
            !.MPRV = FALSE, !.phase = "FETCH"]
SretIsLegal(h) == h.priv = M \/ (h.priv = S /\ ~h.TSR)
WfiIsLegal(h) == h.priv = M \/ (h.priv = S /\ ~h.TW)
\* Mutant: WFI halts without looking at mip.
Wfi_WhileDisabled(h) == [h EXCEPT !.wfi = TRUE, !.phase = "HALTED"]
Wfi(h) ==
  IF h.mip \cap h.mie = {} /\ h.mie /= {}
  THEN [h EXCEPT !.wfi = TRUE, !.phase = "HALTED"]
  ELSE [h EXCEPT !.phase = "FETCH"]
PowerOff(h) == [h EXCEPT !.off = TRUE, !.wfi = TRUE, !.phase = "HALTED"]

(***************************************************************************)
(* The CSRs.  CSRRW writes v, CSRRS adds it to what it reads, CSRRC takes  *)
(* it away; the last two work on the software bits of mip, not on what a   *)
(* read of mip returns.                                                    *)
(***************************************************************************)
\* Mutant: CSRRS and CSRRC of mip work on what a read returns.
MipBase_AsRead(h) == h.mip
Operated(op, old, v) == CASE op = "W" -> v [] op = "S" -> old \cup v [] op = "C" -> old \ v
MipBase(h) == (h.mip \ Writable) \cup (h.mip_sw \cap Writable)
WriteMip(h, v) ==
  LET byHardware == (h.mip \ h.mip_sw) \cap Writable
      sw == v \cap Writable
  IN  [h EXCEPT !.mip_sw = sw,
                !.mip = (@ \ (Writable \cup {"SSI"})) \cup (v \cap {"SSI"}) \cup byHardware \cup sw]
WriteSip(h, v) == [h EXCEPT !.mip = (@ \ {"SSI"}) \cup (v \cap {"SSI"})]
WriteSie(h, v) == [h EXCEPT !.mie = (@ \ Supervisor) \cup (v \cap Supervisor)]

MaskWritten(h, csr, op, v) ==
  CASE csr = "mie" -> [h EXCEPT !.mie = Operated(op, @, v)]
    [] csr = "sie" -> WriteSie(h, Operated(op, h.mie \cap Supervisor, v))
    [] csr = "mip" -> WriteMip(h, Operated(op, MipBase(h), v))
    [] csr = "sip" -> WriteSip(h, Operated(op, h.mip \cap Supervisor, v))

SFields == {"SIE", "SPIE"}
MFields == SFields \cup {"MIE", "MPIE", "MPRV", "TSR", "TW"}
Legal(mpp) == IF mpp = 2 THEN M ELSE mpp
MachineCsrs == {"mie", "mip"}

(***************************************************************************)
(* History: what a trap interrupted, until software or a second trap of    *)
(* the level overwrites it.                                                *)
(***************************************************************************)
Enable(h, level) == IF level = "S" THEN h.SIE ELSE h.MIE
Interrupted(h, level) ==
  [frames EXCEPT ![level] = IF @ = {} THEN {<<h.priv, Enable(h, level)>>} ELSE {}]
Trap(h, cause) ==
  /\ hart' = TakeTrap(h, cause)
  /\ frames' = Interrupted(h, TrapLevel(h, cause))
  /\ UNCHANGED <<timer, wanted>>
Touched(level) == [frames EXCEPT ![level] = {}]
Became(h) == hart' = h /\ UNCHANGED <<timer, wanted, frames>>
Goto(h, phase) == Became([h EXCEPT !.phase = phase])

(***************************************************************************)
(* One instruction, once no interrupt is in its way.                       *)
(***************************************************************************)
Plain(h) == \E phase \in {"FETCH", "WAIT", "WAIT_MEM"} : Goto(h, phase)
Faulting(h) == \E cause \in {"fault", "illegal", "breakpoint"} : Trap(h, cause)
Ecall(h) ==
  CASE h.priv = U -> Trap(h, "ecallU")
    [] h.priv = M -> Trap(h, "ecallM")
    [] h.priv = S /\ h.mtvec -> Trap(h, "ecallS")
    [] OTHER ->
       \/ /\ timer' \in {"ahead", "due"}
          /\ hart' = [h EXCEPT !.phase = "FETCH"] /\ UNCHANGED <<wanted, frames>>
       \/ Became(PowerOff(h))
ExecMret(h) ==
  IF h.priv = M
  THEN hart' = Mret(h) /\ frames' = Touched("M") /\ UNCHANGED <<timer, wanted>>
  ELSE Trap(h, "illegal")
ExecSret(h) ==
  IF SretIsLegal(h)
  THEN hart' = Sret(h) /\ frames' = Touched("S") /\ UNCHANGED <<timer, wanted>>
  ELSE Trap(h, "illegal")
ExecWfi(h) == IF WfiIsLegal(h) THEN Became(Wfi(h)) ELSE Trap(h, "illegal")

AccessMask(h) ==
  \E csr \in {"mie", "sie", "mip", "sip"}, op \in {"W", "S", "C"}, v \in Masks :
    IF h.priv < (IF csr \in MachineCsrs THEN M ELSE S) THEN Trap(h, "illegal")
    ELSE /\ hart' = [MaskWritten(h, csr, op, v) EXCEPT !.phase = "FETCH"]
         /\ wanted' = IF csr = "mip" THEN Operated(op, wanted, v) \cap Writable ELSE wanted
         /\ UNCHANGED <<timer, frames>>
WriteStatus(h) ==
  /\ h.priv /= U
  /\ \E f \in Fields \cap (IF h.priv = M THEN MFields ELSE SFields), b \in BOOLEAN :
       /\ h[f] /= b
       /\ hart' = [h EXCEPT ![f] = b, !.phase = "FETCH"]
       /\ frames' = IF f \in {"MIE", "MPIE"} THEN Touched("M")
                    ELSE IF f \in SFields THEN Touched("S") ELSE frames
       /\ UNCHANGED <<timer, wanted>>
WritePrevious(h) ==
  \/ /\ h.priv = M /\ "MPP" \in Fields
     /\ \E mpp \in {U, S, 2} : hart' = [h EXCEPT !.MPP = Legal(mpp), !.phase = "FETCH"]
     /\ frames' = Touched("M") /\ UNCHANGED <<timer, wanted>>
  \/ /\ h.priv /= U /\ "SPP" \in Fields
     /\ \E spp \in {U, S} : hart' = [h EXCEPT !.SPP = spp, !.phase = "FETCH"]
     /\ frames' = Touched("S") /\ UNCHANGED <<timer, wanted>>
Install(h) ==
  /\ h.priv = M
  /\ \E s \in Setups :
       Became([h EXCEPT !.mideleg = s.mideleg \cap Supervisor,
                        !.medeleg = s.medeleg \cap Exceptions,
                        !.mtvec = s.mtvec, !.phase = "FETCH"])

Instruction(h) ==
  \/ Plain(h) \/ Faulting(h) \/ Ecall(h) \/ ExecMret(h) \/ ExecSret(h) \/ ExecWfi(h)
  \/ AccessMask(h) \/ WriteStatus(h) \/ WritePrevious(h) \/ Install(h)

(* Interrupts are sampled at the instruction boundary, before the          *)
(* instruction has done anything.                                          *)
DoExecute(h) ==
  IF TakeInterrupt(h) /= {}
  THEN \E cause \in TakeInterrupt(h) : Trap(h, cause)
  ELSE Instruction(h)

(***************************************************************************)
(* The phases.  An instruction that is in the cache executes in FETCH.     *)
(***************************************************************************)
FetchPhase(h) == h.phase = "FETCH" /\ (Goto(h, "WAIT") \/ Trap(h, "fault") \/ DoExecute(h))
WaitPhase(h) ==
  /\ h.phase = "WAIT"
  /\ (\E phase \in {"WAIT", "FETCH", "EXECUTE"} : Goto(h, phase)) \/ Trap(h, "fault")
ExecutePhase(h) == h.phase = "EXECUTE" /\ DoExecute(h)
MemPhase(h) == h.phase = "WAIT_MEM" /\ (Goto(h, "WAIT_MEM") \/ Goto(h, "FETCH"))
HaltedPhase(h) == h.phase = "HALTED" /\ Became(h)

Edge(w) ==
  \/ QuietEdge(hart, w) /\ Became(hart)
  \/ LET h == Woken(Merged(hart, w, timer))
     IN  FetchPhase(h) \/ WaitPhase(h) \/ ExecutePhase(h) \/ MemPhase(h) \/ HaltedPhase(h)

TimerPasses ==
  /\ timer = "ahead" /\ timer' = "due"
  /\ UNCHANGED <<hart, wanted, frames>>

Reset ==
  /\ hart' = ResetState
  /\ timer' = "never" /\ wanted' = {} /\ frames' = NoFrame

TrapNext == (\E w \in Wires : Edge(w)) \/ TimerPasses \/ Reset
TrapSpec == TrapInit /\ [][TrapNext]_trapVars

(***************************************************************************)
(* What must hold.                                                         *)
(***************************************************************************)
(* Whatever the wires are at the next edge, the interrupts the hart then   *)
(* sees are exactly those somebody raises: a wire, the supervisor timer    *)
(* while it is delegated, or a bit software has set and not cleared.  No   *)
(* read-modify-write of mip turns a wire into a bit that stays.            *)
PendingIsCurrent ==
  \A w \in Wires :
    LET seen == Merged(hart, w, timer).mip
        supervisorTimer == "STI" \in hart.mideleg /\ ("MTI" \in w \/ timer = "due")
    IN  /\ seen \cap {"MEI", "MTI", "MSI"} = w \ {"SEI"}
        /\ "SEI" \in seen <=> "SEI" \in w \cup wanted
        /\ "STI" \in seen <=> ("STI" \in wanted \/ supervisorTimer)

(* A hart sleeps in WFI only while nothing it has enabled is pending: an   *)
(* interrupt that comes in just before, or with, the WFI is not slept on.  *)
SleepsIdle == hart.wfi /\ ~hart.off => hart.mip \cap hart.mie = {}

InterruptsAreSeen == PendingIsCurrent /\ SleepsIdle

(* Whenever a handler returns it returns to the privilege and the          *)
(* interrupt enable its trap interrupted, unless it has written them or    *)
(* has itself been trapped to its own level; traps to the other level in   *)
(* between change nothing.  MPRV, which makes the accesses of M mode those *)
(* of another level, never outlives M mode, whichever way it is left.      *)
HandlersReturn ==
  /\ \A f \in frames.M : <<Mret(hart).priv, Mret(hart).MIE>> = f
  /\ \A f \in frames.S : <<Sret(hart).priv, Sret(hart).SIE>> = f
  /\ hart.MPRV => hart.priv = M
=============================================================================
