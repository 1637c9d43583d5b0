---------------------------- MODULE MCVirtioNet ----------------------------
(* Small queues for VirtioNet; or the interrupts and traps of a core that    *)
(* has nothing else to do.                                                   *)
EXTENDS VirtioNet, HartTraps

VARIABLE subject
allVars == <<subject, vars, trapVars>>

\* A packet in two descriptors that is larger than a slot, and a chain that
\* leads beyond the address space behind a chunk.
MCChains == {<<0, 1, 2>>, <<1, Bad>>}

\* Interrupts.
MCWires == {{}, {"MTI", "SEI"}}
MCMasks == {{"MTI"}, {"SEI", "STI"}}
MCFields == {"MIE", "SIE", "MPRV", "MPP"}
MCSetups ==
  {[mideleg |-> {"MTI", "SEI", "STI"}, medeleg |-> {"fault", "ecallM"}, mtvec |-> TRUE],
   [mideleg |-> {}, medeleg |-> {}, mtvec |-> FALSE]}

MCInit == Init /\ TrapInit /\ subject \in {"net", "traps"}
MCNext == \/ subject = "net" /\ Next /\ UNCHANGED <<subject, trapVars>>
          \/ subject = "traps" /\ TrapNext /\ UNCHANGED <<subject, vars>>
MCSpec == MCInit /\ [][MCNext]_allVars
=============================================================================
