-------------------------- MODULE ConcurrentQueue --------------------------
(***************************************************************************)
(* What a ConcurrentQueue promises: enq appends, wait_deq and a nowait_deq *)
(* that returns true take the oldest item, each at one instant between its *)
(* call and its return, and an item that was put in is taken in the end.   *)
(***************************************************************************)
EXTENDS Naturals, Sequences

CONSTANTS
    Dequeuers,  \* threads that dequeue
    Items       \* what is stored

VARIABLES
    q,          \* the items in the queue, oldest first
    got         \* dequeuer -> the items it has received, in order

vars == <<q, got>>

Init == q = << >> /\ got = [d \in Dequeuers |-> << >>]

\* void enq(T t)
Enq(t) == q' = Append(q, t) /\ UNCHANGED got

\* T wait_deq(), or bool nowait_deq(T &t) that returns true
Deq(d) ==
    /\ q # << >>
    /\ q' = Tail(q)
    /\ got' = [got EXCEPT ![d] = Append(@, Head(q))]

Next == (\E t \in Items : Enq(t)) \/ (\E d \in Dequeuers : Deq(d))

Spec == Init /\ [][Next]_vars /\ WF_vars(\E d \in Dequeuers : Deq(d))
============================================================================
