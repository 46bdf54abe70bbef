------------------------------ MODULE EventFifo ------------------------------
(****************************************************************************)
(* What base/mpsc_fifo.h promises to its users: a FIFO with many producers  *)
(* and one consumer in which a push takes its place in one step (Claim) and *)
(* becomes visible in a later one (Publish).  A published element is hidden *)
(* from the consumer for as long as an older push is still between the two, *)
(* so pop() may answer "empty" although a later push has already returned.  *)
(****************************************************************************)
EXTENDS Naturals, Sequences

CONSTANTS Producers,  \* the threads that push
          Nobody,     \* owner of a published element, not a producer
          Values,     \* what is pushed
          Initial     \* what the consumer holds before the first pop()

VARIABLES queue,      \* the elements in the order of their claims
          popped      \* what the consumer received last

vars == <<queue, popped>>

Init == /\ queue = <<>>
        /\ popped = Initial

(* A producer has at most one push in progress.                             *)
Claim(p, v) ==
  /\ \A i \in 1..Len(queue) : queue[i].by # p
  /\ queue' = Append(queue, [val |-> v, by |-> p])
  /\ UNCHANGED popped

Publish(p) ==
  /\ \E i \in 1..Len(queue) : /\ queue[i].by = p
                              /\ queue' = [queue EXCEPT ![i].by = Nobody]
  /\ UNCHANGED popped

CanPop == queue # <<>> /\ queue[1].by = Nobody

Pop == /\ CanPop
       /\ popped' = queue[1].val
       /\ queue' = Tail(queue)

(* pop(nullptr), the step of clear(): the element is dropped.               *)
Discard == /\ CanPop
           /\ queue' = Tail(queue)
           /\ UNCHANGED popped

Next == \/ \E p \in Producers : (\E v \in Values : Claim(p, v)) \/ Publish(p)
        \/ Pop
        \/ Discard

Spec == Init /\ [][Next]_vars
=============================================================================
