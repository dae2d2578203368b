---------------------------- MODULE BoundedQueue ----------------------------
(***************************************************************************)
(* What the recorder's ring promises: a queue of at most Capacity values,  *)
(* each handed to the consumer once, in the order it was put in.           *)
(***************************************************************************)
EXTENDS Naturals, Sequences

CONSTANTS Value, Capacity

VARIABLES
    queue,   \* the values put and not yet taken
    taken    \* the value the consumer took last

vars == <<queue, taken>>

Init == queue = <<>> /\ taken \in Value

Put(v) == Len(queue) < Capacity /\ queue' = Append(queue, v) /\ UNCHANGED taken

Take == /\ queue # <<>>
        /\ taken' = Head(queue) /\ queue' = Tail(queue)

Next == Take \/ \E v \in Value : Put(v)

Spec == Init /\ [][Next]_vars
=============================================================================
