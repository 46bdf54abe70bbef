------------------------------- MODULE MpscFifo -------------------------------
(****************************************************************************)
(* base/mpsc_fifo.h: the linked list that carries the events of a surface   *)
(* (PlatformSurface::Private::events).  Any thread pushes, one thread pops. *)
(* Every access to shared memory is a step of its own: the allocation, the  *)
(* exchange of in_ and the store of next in push(); the comparison of out_  *)
(* with in_, the load of next, the move of the value, the deletion of the   *)
(* old head and the assignment of out_ in pop().  Freed nodes are reused.   *)
(* The accesses are sequentially consistent.  The loads of in_ and next in  *)
(* pop() are relaxed, which orders them with the release in push() only as  *)
(* far as the value is read through the pointer that was loaded.            *)
(****************************************************************************)
EXTENDS Naturals, Sequences

CONSTANTS Producers,  \* threads that push; a push carries <<producer, number>>
          Nodes,      \* addresses the allocator hands out
          Null,       \* the null pointer, and the idle value of node variables
          MaxPush     \* bound: pushes of one producer

ASSUME NullAssumption == Null \notin Nodes \cup Producers
ASSUME MaxPushAssumption == MaxPush \in Nat

VARIABLES
  in_,        \* the node pushed last
  out_,       \* the dummy head; the first element is in its successor
  next,       \* next[x]: node::next of x
  val,        \* val[x]: node::v of x
  heap,       \* the nodes that are allocated
  pc,         \* pc[p]: where producer p is in push()
  node,       \* node[p]: the local n of push()
  prev,       \* prev[p]: the local t of push()
  sent,       \* sent[p]: how many pushes p has begun
  cpc,        \* where the consumer is in pop(), or "dead" after the destructor
  n,          \* the local n of pop()
  closing,    \* the destructor is running clear()
  got,        \* the element pop() returned last
  order       \* history: the allocated nodes of the list, in the order of exchanges

consumer == <<cpc, n, closing, got>>
producer == <<pc, node, prev, sent>>
vars == <<in_, out_, next, val, heap, producer, consumer, order>>

Value == Producers \X (1..MaxPush)
None == <<Null, 0>>
NodeOrNull == Nodes \cup {Null}

(* out_ = new node(), in_.store(out_)                                       *)
Init ==
  /\ \E x \in Nodes : /\ out_ = x
                      /\ in_ = x
                      /\ heap = {x}
                      /\ order = <<x>>
  /\ next = [x \in Nodes |-> Null]
  /\ val = [x \in Nodes |-> None]
  /\ pc = [p \in Producers |-> "idle"]
  /\ node = [p \in Producers |-> Null]
  /\ prev = [p \in Producers |-> Null]
  /\ sent = [p \in Producers |-> 0]
  /\ cpc = "idle"
  /\ n = Null
  /\ closing = FALSE
  /\ got = None

-----------------------------------------------------------------------------
(* push(): the new node, the exchange of in_ and the store into t->next.    *)

PushNew(p) ==
  /\ pc[p] = "idle" /\ sent[p] < MaxPush
  /\ ~closing                       \* nobody pushes once the owner is deleted
  /\ \E x \in Nodes \ heap :
       /\ heap' = heap \cup {x}
       /\ next' = [next EXCEPT ![x] = Null]
       /\ val' = [val EXCEPT ![x] = <<p, sent[p] + 1>>]
       /\ node' = [node EXCEPT ![p] = x]
  /\ sent' = [sent EXCEPT ![p] = @ + 1]
  /\ pc' = [pc EXCEPT ![p] = "exchange"]
  /\ UNCHANGED <<in_, out_, prev, consumer, order>>

(* A bug: in_ is read, and stored by another step, instead of exchanged. *)
PushExchange_Load(p) ==
  /\ pc[p] = "exchange"
  /\ prev' = [prev EXCEPT ![p] = in_]
  /\ order' = Append(order, node[p])
  /\ pc' = [pc EXCEPT ![p] = "link"]
  /\ UNCHANGED <<in_, out_, next, val, heap, node, sent, consumer>>

PushExchange(p) ==
  /\ pc[p] = "exchange"
  /\ prev' = [prev EXCEPT ![p] = in_]
  /\ in_' = node[p]
  /\ order' = Append(order, node[p])
  /\ pc' = [pc EXCEPT ![p] = "link"]
  /\ UNCHANGED <<out_, next, val, heap, node, sent, consumer>>

(* A bug: the link is stored through in_ read again instead of through t. *)
PushLink_Reload(p) ==
  /\ pc[p] = "link"
  /\ next' = [next EXCEPT ![in_] = node[p]]
  /\ pc' = [pc EXCEPT ![p] = "idle"]
  /\ node' = [node EXCEPT ![p] = Null]
  /\ prev' = [prev EXCEPT ![p] = Null]
  /\ UNCHANGED <<in_, out_, val, heap, sent, consumer, order>>

PushLink(p) ==
  /\ pc[p] = "link"
  /\ next' = [next EXCEPT ![prev[p]] = node[p]]
  /\ pc' = [pc EXCEPT ![p] = "idle"]
  /\ node' = [node EXCEPT ![p] = Null]
  /\ prev' = [prev EXCEPT ![p] = Null]
  /\ UNCHANGED <<in_, out_, val, heap, sent, consumer, order>>

-----------------------------------------------------------------------------
(* pop(): returning false is a step back to "idle".                         *)

PopCompare ==
  /\ cpc = "idle"
  /\ out_ # in_
  /\ cpc' = "load"
  /\ UNCHANGED <<in_, out_, next, val, heap, producer, n, closing, got, order>>

(* A bug: the successor of out_ is taken to be in_. *)
PopLoad_Newest ==
  /\ cpc = "load"
  /\ n' = in_
  /\ cpc' = IF in_ = Null THEN "idle" ELSE "move"
  /\ UNCHANGED <<in_, out_, next, val, heap, producer, closing, got, order>>

PopLoad ==
  /\ cpc = "load"
  /\ n' = next[out_]
  /\ cpc' = IF next[out_] = Null THEN "idle" ELSE "move"
  /\ UNCHANGED <<in_, out_, next, val, heap, producer, closing, got, order>>

(* A bug: the value is taken from the dummy head. *)
PopMove_Dummy ==
  /\ cpc = "move"
  /\ got' = IF closing THEN got ELSE val[out_]
  /\ cpc' = "delete"
  /\ UNCHANGED <<in_, out_, next, val, heap, producer, n, closing, order>>

(* clear() passes a null v: the value is dropped with the node.             *)
PopMove ==
  /\ cpc = "move"
  /\ got' = IF closing THEN got ELSE val[n]
  /\ cpc' = "delete"
  /\ UNCHANGED <<in_, out_, next, val, heap, producer, n, closing, order>>

PopDelete ==
  /\ cpc = "delete"
  /\ heap' = heap \ {out_}
  /\ order' = Tail(order)
  /\ cpc' = "advance"
  /\ UNCHANGED <<in_, out_, next, val, producer, n, closing, got>>

(* A bug: out_ moves two nodes. *)
PopAdvance_Skip ==
  /\ cpc = "advance"
  /\ out_' = next[n]
  /\ n' = Null
  /\ cpc' = "idle"
  /\ UNCHANGED <<in_, next, val, heap, producer, closing, got, order>>

PopAdvance ==
  /\ cpc = "advance"
  /\ out_' = n
  /\ n' = Null
  /\ cpc' = "idle"
  /\ UNCHANGED <<in_, next, val, heap, producer, closing, got, order>>

(* ~mpsc_fifo(): the owner is deleted by the thread that pops, after the    *)
(* last push has returned (the callers hold a reference to the surface).    *)
Destroy ==
  /\ ~closing /\ cpc = "idle"
  /\ \A p \in Producers : pc[p] = "idle"
  /\ closing' = TRUE
  /\ UNCHANGED <<in_, out_, next, val, heap, producer, cpc, n, got, order>>

(* A bug: the destructor does not call clear(). *)
DestroyLast_NoClear ==
  /\ closing /\ cpc = "idle"
  /\ heap' = heap \ {out_}
  /\ order' = Tail(order)
  /\ cpc' = "dead"
  /\ UNCHANGED <<in_, out_, next, val, producer, n, closing, got>>

(* clear() has seen pop() return false at the comparison: delete out_.      *)
DestroyLast ==
  /\ closing /\ cpc = "idle" /\ out_ = in_
  /\ heap' = heap \ {out_}
  /\ order' = Tail(order)
  /\ cpc' = "dead"
  /\ UNCHANGED <<in_, out_, next, val, producer, n, closing, got>>

Push(p) == PushNew(p) \/ PushExchange(p) \/ PushLink(p)
Pop == PopCompare \/ PopLoad \/ PopMove \/ PopDelete \/ PopAdvance

Next == \/ \E p \in Producers : Push(p)
        \/ Pop
        \/ Destroy
        \/ DestroyLast

Spec == Init /\ [][Next]_vars

(* A push that has begun returns (it has no loop and takes no lock), and    *)
(* the consumer calls pop() again and again.                                *)
Fairness == /\ \A p \in Producers : WF_vars(PushExchange(p) \/ PushLink(p))
            /\ WF_vars(Pop)
            /\ WF_vars(DestroyLast)

FairSpec == Spec /\ Fairness

-----------------------------------------------------------------------------
TypeOK ==
  /\ in_ \in Nodes /\ out_ \in Nodes
  /\ next \in [Nodes -> NodeOrNull]
  /\ val \in [Nodes -> Value \cup {None}]
  /\ heap \in SUBSET Nodes
  /\ pc \in [Producers -> {"idle", "exchange", "link"}]
  /\ node \in [Producers -> NodeOrNull]
  /\ prev \in [Producers -> NodeOrNull]
  /\ sent \in [Producers -> 0..MaxPush]
  /\ cpc \in {"idle", "load", "move", "delete", "advance", "dead"}
  /\ n \in NodeOrNull
  /\ closing \in BOOLEAN
  /\ got \in Value \cup {None}
  /\ order \in Seq(Nodes)

(* No thread ever reads, writes or deletes a freed node: the node a         *)
(* producer is about to link from, and those pop() is about to use, are     *)
(* allocated, although the consumer frees nodes while producers still hold  *)
(* pointers into the list.                                                  *)
NoUseAfterFree ==
  /\ \A p \in Producers : /\ pc[p] # "idle" => node[p] \in heap
                          /\ pc[p] = "link" => prev[p] \in heap
  /\ cpc \in {"idle", "load", "move", "delete"} => out_ \in heap
  /\ cpc \in {"move", "delete", "advance"} => n \in heap

(* Two producers never store into the same next pointer, and none stores    *)
(* into one that is already set: no push can overwrite another one's link.  *)
NoLostLink ==
  \A p \in Producers : pc[p] = "link" =>
    /\ next[prev[p]] = Null
    /\ \A q \in Producers \ {p} : pc[q] = "link" => prev[q] # prev[p]

(* Once the destructor is done no node is left allocated: clear() has not   *)
(* taken a half-linked list for an empty one.                               *)
NoLeak == cpc = "dead" => heap = {}

(* The queue the promise of EventFifo talks about, read off the list: the   *)
(* element in order[i+1] is published when order[i] points to it.           *)
Owner(i) == IF next[order[i]] # Null THEN Null
            ELSE CHOOSE p \in Producers : pc[p] = "link" /\ prev[p] = order[i]

Taken == IF cpc = "delete" THEN 1 ELSE 0

AbsQueue == [i \in 1..(Len(order) - 1 - Taken) |->
               [val |-> val[order[i + 1 + Taken]], by |-> Owner(i + Taken)]]

Abs == INSTANCE EventFifo WITH Nobody <- Null, Values <- Value, Initial <- None,
                               queue <- AbsQueue, popped <- got

(* The list implements the FIFO: nothing is lost, duplicated or reordered,  *)
(* and each push takes effect in one step.                                  *)
ImplementsFifo == Abs!Spec

(* Every element a producer pushes is handed to the consumer (or dropped by *)
(* the destructor), however the steps of push() and pop() interleave.       *)
EventuallyPopped ==
  \A p \in Producers, k \in 1..MaxPush :
    (pc[p] = "exchange" /\ sent[p] = k) ~> (closing \/ got = <<p, k>>)
=============================================================================
