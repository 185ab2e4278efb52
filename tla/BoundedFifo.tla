---------------------------- MODULE BoundedFifo -----------------------------
(***************************************************************************)
(* What Queue.tla promises: a first-in first-out channel of bounded length *)
(* where every item sent is received once, by one receiver.                *)
(***************************************************************************)
EXTENDS Sequences, Integers

CONSTANTS Item, NoItem, Capacity, Thread

VARIABLES fifo,   \* the items sent and not yet received
          got     \* the last item each thread received

vars == <<fifo, got>>

Init == fifo = <<>> /\ got = [t \in Thread |-> NoItem]

Send(v) == /\ Len(fifo) < Capacity
           /\ fifo' = Append(fifo, v)
           /\ UNCHANGED got

Receive(t) == /\ fifo # <<>>
              /\ got' = [got EXCEPT ![t] = Head(fifo)]
              /\ fifo' = Tail(fifo)

Next == \/ \E v \in Item : Send(v)
        \/ \E t \in Thread : Receive(t)

Spec == Init /\ [][Next]_vars
=============================================================================
