---------------------------- MODULE MCTickEngine ----------------------------
(* Netlists for model checking TickEngine, or one integer instruction of the *)
(* core.  Every family of netlists is taken in every insertion order of its  *)
(* components.                                                               *)
EXTENDS TickEngine, IsaManual

Part(kind, ins, out) == [kind |-> kind, ins |-> ins, out |-> out]

Orders(n) ==
    {[i \in DOMAIN n |-> n[p[i]]] : p \in {f \in [DOMAIN n -> DOMAIN n] : IsInjective(f)}}

\* A bus multiplexed between the host and a register, which follows it inverted.
BusMux == <<Part("tsbuf", <<1, 2>>, 3), Part("not", <<2>>, 4), Part("tsbuf", <<6, 4>>, 3),
            Part("not", <<3>>, 5), Part("dff", <<5, 7>>, 6)>>

\* A bus behind a bus: net 3 enables a driver of net 5, which may then collide
\* with the other.
Cascade == <<Part("tsbuf", <<1, 2>>, 3), Part("not", <<2>>, 4), Part("tsbuf", <<1, 4>>, 3),
             Part("tsbuf", <<1, 3>>, 5), Part("tsbuf", <<4, 4>>, 5)>>

\* A tri-state register on a bus with a gate that may collide with it.
SharedWithRegister ==
    <<Part("tsbuf", <<1, 2>>, 3), Part("treg", <<1, 7>>, 3), Part("not", <<3>>, 4),
      Part("buf", <<4>>, 5), Part("dff", <<5, 7>>, 6)>>

\* A bus that only registers read: phase 2b has nothing to do.
RegistersOnly ==
    <<Part("tsbuf", <<1, 2>>, 3), Part("treg", <<1, 7>>, 3), Part("dff", <<3, 7>>, 4)>>

\* A divided clock behind an inverter.
ClockTree == <<Part("clkgen", <<>>, 3), Part("not", <<3>>, 4), Part("clkdiv", <<4>>, 5),
               Part("dff", <<1, 5>>, 6)>>

\* An inverter fed back through a tri-state net, which oscillates while enabled.
Oscillator == <<Part("tsbuf", <<4, 2>>, 3), Part("not", <<3>>, 4), Part("dff", <<4, 7>>, 5)>>

LoopFreeFamilies == {BusMux, Cascade, SharedWithRegister, RegistersOnly, ClockTree}
MCNetlists == UNION {Orders(n) : n \in LoopFreeFamilies \cup {Oscillator}}

\* What the premise of SettlesExactly takes in.
ASSUME FamiliesAssumption ==
    \A n \in MCNetlists : Compiles(n) => (LoopFree(n) <=> n \notin Orders(Oscillator))

\* Registers of 16 bits: what is at the ends of a byte, a word and a register,
\* and immediates whose high bits look like funct7 values.
MCIsaValues == {0, 1, 2, 3, 7, 127, 128, 255, 256, 4660, 32767, 32768, 43981, 65279, 65534, 65535}
MCIsaImms == {0, 1, -1, 2047, -2048, 129, 143, 152, 1295, -700, 768}
MCShamts == 0..15
MCParcels == {c \in SUBSET (0..15) : ~({0, 1} \subseteq c)}

NoIsa == core = [at |-> "none"]
NoNetlist == nl = CHOOSE n \in Netlists : Compiles(n)

MCInit == Init /\ (NoIsa \/ (NoNetlist /\ IsaInit))
MCNext == \/ core.at = "none" /\ Next /\ UNCHANGED core
          \/ core.at # "none" /\ IsaNext /\ UNCHANGED vars
MCSpec == MCInit /\ [][MCNext]_<<vars, core>>
=============================================================================
