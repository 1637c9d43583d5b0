---------------------------- MODULE SharedMemory ----------------------------
(***************************************************************************)
(* What a bus promises its masters: every request is served exactly once,  *)
(* at one moment between its start and its end, on one memory that all of  *)
(* them share, and a read hands its master the word it was served.         *)
(***************************************************************************)
EXTENDS Integers

CONSTANTS Masters, Words, Values, None

VARIABLES
    mem,    \* the words
    req,    \* each master's request, or None
    resp,   \* what it was served with, or None
    got     \* the word each master last read

vars == <<mem, req, resp, got>>
Request == [adr : Words, we : BOOLEAN, dat : Values]

Init ==
    /\ mem = [w \in Words |-> 0] /\ got = [m \in Masters |-> 0]
    /\ req = [m \in Masters |-> None] /\ resp = [m \in Masters |-> None]

Issue(m) ==
    /\ req[m] = None /\ req'[m] # None
    /\ \E r \in Request : req' = [req EXCEPT ![m] = r]
    /\ UNCHANGED <<mem, resp, got>>

Serve(m) ==
    /\ req[m] # None /\ resp[m] = None
    /\ mem' = IF req[m].we THEN [mem EXCEPT ![req[m].adr] = req[m].dat] ELSE mem
    /\ resp' = [resp EXCEPT ![m] = IF req[m].we THEN 0 ELSE mem[req[m].adr]]
    /\ UNCHANGED <<req, got>>

Return(m) ==
    /\ req[m] # None /\ resp[m] # None
    /\ got' = IF req[m].we THEN got ELSE [got EXCEPT ![m] = resp[m]]
    /\ req' = [req EXCEPT ![m] = None] /\ resp' = [resp EXCEPT ![m] = None]
    /\ UNCHANGED mem

Next == \E m \in Masters : Issue(m) \/ Serve(m) \/ Return(m)
Spec == Init /\ [][Next]_vars
=============================================================================
