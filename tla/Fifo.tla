-------------------------------- MODULE Fifo --------------------------------
(* What a bounded first-in first-out buffer promises: items come out in the  *)
(* order they went in, none is lost, invented or read twice, and no more     *)
(* than Capacity are held.  A step may take one item out and put one in.     *)
EXTENDS Naturals, Sequences

CONSTANTS Item, Capacity, NoItem

VARIABLES queue, out

Init == queue = <<>> /\ out = NoItem

Idle == UNCHANGED <<queue, out>>

Put(d) ==
    /\ Len(queue) < Capacity
    /\ queue' = Append(queue, d)
    /\ out' = out

Get ==
    /\ queue # <<>>
    /\ out' = Head(queue)
    /\ queue' = Tail(queue)

\* Both ends at once.
Pass(d) ==
    /\ queue # <<>>
    /\ out' = Head(queue)
    /\ queue' = Append(Tail(queue), d)

Reset == queue' = <<>> /\ out' = NoItem

Next == Get \/ Reset \/ \E d \in Item : Put(d) \/ Pass(d)

Spec == Init /\ [][Next]_<<queue, out>>
=============================================================================
