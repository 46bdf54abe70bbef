----------------------------- MODULE BoundedFifo -----------------------------
(* What base/BlockingQueue.h promises: a FIFO that does not grow beyond its *)
(* capacity.  A put adds at the end, a get takes the oldest element, and    *)
(* clear() drops everything.  The capacity may be changed at any time; an   *)
(* already longer queue keeps its elements.                                 *)
EXTENDS Naturals, Sequences

CONSTANTS Threads, Values,
          Nothing            \* a thread that has not received anything yet

VARIABLES queue, capacity,
          got                \* got[t]: the element thread t received last

vars == <<queue, capacity, got>>

Init == /\ queue = <<>>
        /\ capacity \in Nat
        /\ got = [t \in Threads |-> Nothing]

Put(v) == /\ Len(queue) < capacity
          /\ queue' = Append(queue, v)
          /\ UNCHANGED <<capacity, got>>

Get(t) == /\ queue # <<>>
          /\ got' = [got EXCEPT ![t] = Head(queue)]
          /\ queue' = Tail(queue)
          /\ UNCHANGED capacity

Clear == /\ queue' = <<>>
         /\ UNCHANGED <<capacity, got>>

SetCapacity == /\ capacity' \in Nat
               /\ UNCHANGED <<queue, got>>

Next == \/ \E v \in Values : Put(v)
        \/ \E t \in Threads : Get(t)
        \/ Clear
        \/ SetCapacity

Spec == Init /\ [][Next]_vars
=============================================================================
