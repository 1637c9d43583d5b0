------------------------------ MODULE Gateway ------------------------------
(* What an interrupt controller promises of its sources: each waits, is      *)
(* handed to one context, and can come back only when that context is done.  *)
EXTENDS Naturals

CONSTANTS Sources, Contexts
VARIABLE stage    \* of each source: "idle", "waiting", or the context serving it

Init == stage = [s \in Sources |-> "idle"]

\* The idle sources in A have come up; one that waits, perhaps one of them, may
\* be handed to a context.
Arrived(A) == [s \in Sources |-> IF s \in A THEN "waiting" ELSE stage[s]]
Deliver == \E A \in SUBSET {s \in Sources : stage[s] = "idle"} :
    \/ stage' = Arrived(A)
    \/ \E s \in Sources, c \in Contexts :
         /\ Arrived(A)[s] = "waiting"
         /\ stage' = [Arrived(A) EXCEPT ![s] = c]

\* A context is done with a source; others may have come up meanwhile.
Done == \E A \in SUBSET {s \in Sources : stage[s] = "idle"}, s \in Sources, c \in Contexts :
    /\ stage[s] = c
    /\ stage' = [Arrived(A) EXCEPT ![s] = "idle"]

\* The circuit is reset.
Forget == stage' = [s \in Sources |-> "idle"]

Spec == Init /\ [][Deliver \/ Done \/ Forget]_stage
=============================================================================
