----------------------------- MODULE DllHistory -----------------------------
(* DllLifecycle with two history variables: whether calls on two circuits    *)
(* have ever overlapped, and whether a simInit has ever thrown.              *)
EXTENDS DllLifecycle

VARIABLES overlapped, threw

Overlap == \E j, k \in Circuits : j # k /\ pc[j] # "idle" /\ pc[k] # "idle"
Record ==
    /\ overlapped' = (overlapped \/ Overlap')
    /\ threw' = (threw \/ \E k \in Circuits : op'[k] = "rollback")
HistoryInit == Init /\ overlapped = FALSE /\ threw = FALSE
HistorySpec == HistoryInit /\ [][Next /\ Record]_<<vars, overlapped, threw>>

\* On one thread, and with no init failing, the library's init and deinit
\* alternate and bracket the life of every state object, over all circuits.
BracketedAlone == ~overlapped /\ ~threw => ObjectsOnlyWhileInited /\ InitOnce

\* With no init failing, on any number of threads, compiled code never calls
\* into an unloaded library.
NoStaleUnlessThrown == ~threw => NoStaleCall
=============================================================================
