----------------------------- MODULE MCNetlist -----------------------------
(* A composite of two tri-state buffers, back to back, and a third outside; *)
(* or the interrupt controller and its handlers.  What is not under test    *)
(* stays as it began.                                                       *)
EXTENDS Netlist, Plic, TLC

CONSTANTS t1, m, fwd, bwd, n1, n2, i1
VARIABLE subject

OutPin(tri, w) == [out |-> TRUE, tri |-> tri, width |-> w]
InPin(w) == [out |-> FALSE, tri |-> FALSE, width |-> w]

MCPinsOf == (t1 :> <<OutPin(TRUE, 2)>>) @@ (m :> <<InPin(1), OutPin(FALSE, 1)>>)
            @@ (fwd :> <<InPin(1), OutPin(TRUE, 1)>>) @@ (bwd :> <<InPin(1), OutPin(TRUE, 1)>>)
MCBlueprints == m :>
    [nets |-> <<i1>>,
     parts |-> <<[comp |-> fwd, ties |-> <<<<1, i1>>, <<2, 2>>>>],
                 [comp |-> bwd, ties |-> <<<<1, 2>>, <<2, 1>>>>]>>]

ASSUME WidthsAssumption == PartsAreAsWide

\* The two nets of the host are alike, and so are the two contexts.
MCSymmetry == Permutations({n1, n2}) \cup Permutations(Contexts)

MCInit == Init /\ PlicInit /\ subject \in {"netlist", "plic"}
MCNext == \/ subject = "netlist" /\ Next /\ UNCHANGED <<subject, plicVars>>
          \/ subject = "plic" /\ PlicNext /\ UNCHANGED <<subject, vars>>
MCSpec == MCInit /\ [][MCNext]_<<subject, vars, plicVars>>
=============================================================================
