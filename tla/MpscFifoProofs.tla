---------------------------- MODULE MpscFifoProofs ----------------------------
(****************************************************************************)
(* Safety of mpsc_fifo for any number of producers, pushes and nodes.       *)
(****************************************************************************)
EXTENDS MpscFifo, TLAPS, SequenceTheorems

(* The list starts at the node pop() will make, or has left, its head, ends *)
(* at in_, and no node occurs twice ...                                     *)
First == IF cpc = "advance" THEN n ELSE out_

OrderOK ==
  /\ order = <<>> <=> cpc = "dead"
  /\ order # <<>> => order[1] = First /\ order[Len(order)] = in_
  /\ \A i, j \in 1..Len(order) : order[i] = order[j] => i = j

(* ... each node points to the next one or waits for the producer that has  *)
(* exchanged in_ to link it ...                                             *)
LinkOK ==
  /\ order # <<>> => next[in_] = Null
  /\ \A i \in 1..(Len(order) - 1) :
       next[order[i]] \in {Null, order[i + 1]}

(* ... and such a producer owns the null link from prev to node.            *)
PrevOK ==
  \A p \in Producers : pc[p] = "link" =>
    /\ next[prev[p]] = Null
    /\ \E i \in 1..(Len(order) - 1) : prev[p] = order[i] /\ node[p] = order[i + 1]

(* A node between allocation and exchange belongs to one producer; two      *)
(* pushes never have the same node.                                         *)
NodeOK ==
  /\ \A p \in Producers : pc[p] = "exchange" =>
       /\ node[p] \in heap
       /\ next[node[p]] = Null
       /\ \A i \in 1..Len(order) : order[i] # node[p]
  /\ \A p, q \in Producers :
       p # q /\ pc[p] # "idle" /\ pc[q] # "idle" => node[p] # node[q]

(* What is allocated is in the list or about to be put there.               *)
HeapOK ==
  /\ \A i \in 1..Len(order) : order[i] \in heap
  /\ \A x \in heap : \/ \E i \in 1..Len(order) : order[i] = x
                     \/ \E p \in Producers : pc[p] = "exchange" /\ node[p] = x

ConsumerOK ==
  /\ cpc = "load" => Len(order) > 1
  /\ cpc \in {"move", "delete"} => Len(order) > 1 /\ n = order[2] /\ next[out_] = n

ClosingOK ==
  /\ closing => \A p \in Producers : pc[p] = "idle"
  /\ cpc = "dead" => closing

IInv == /\ TypeOK /\ OrderOK /\ LinkOK /\ PrevOK /\ NodeOK
        /\ HeapOK /\ ConsumerOK /\ ClosingOK

-----------------------------------------------------------------------------
(* The initial list is the dummy node alone.                                *)
LEMMA InitIInv == Init => IInv
<1> SUFFICES ASSUME Init PROVE IInv
  OBVIOUS
<1>1. PICK x \in Nodes : out_ = x /\ in_ = x /\ heap = {x} /\ order = <<x>>
  BY DEF Init
<1>2. order \in Seq(Nodes) /\ Len(order) = 1 /\ order[1] = x /\ order # <<>>
  BY <1>1
<1>3. TypeOK
  <2>1. sent \in [Producers -> 0..MaxPush]
    BY MaxPushAssumption DEF Init
  <2>2. val \in [Nodes -> Value \cup {None}] /\ got \in Value \cup {None}
    BY DEF Init
  <2> QED
    BY <1>1, <1>2, <2>1, <2>2 DEF Init, TypeOK, NodeOrNull
<1>4. OrderOK /\ LinkOK
  BY <1>1, <1>2 DEF Init, OrderOK, First, LinkOK
<1>5. PrevOK /\ NodeOK /\ HeapOK
  BY <1>1, <1>2 DEF Init, PrevOK, NodeOK, HeapOK
<1>6. ConsumerOK /\ ClosingOK
  BY DEF Init, ConsumerOK, ClosingOK
<1> QED
  BY <1>3, <1>4, <1>5, <1>6 DEF IInv

(* push() takes a fresh node, which is in no list and of no other producer. *)
LEMMA PushNewStep ==
  ASSUME IInv, NEW p \in Producers, PushNew(p)
  PROVE  IInv'
<1> USE DEF IInv
<1>1. PICK x \in Nodes \ heap :
         /\ heap' = heap \cup {x}
         /\ next' = [next EXCEPT ![x] = Null]
         /\ val' = [val EXCEPT ![x] = <<p, sent[p] + 1>>]
         /\ node' = [node EXCEPT ![p] = x]
  BY DEF PushNew
<1>2. /\ pc[p] = "idle" /\ sent[p] < MaxPush /\ ~closing
      /\ sent' = [sent EXCEPT ![p] = @ + 1]
      /\ pc' = [pc EXCEPT ![p] = "exchange"]
      /\ UNCHANGED <<in_, out_, prev, cpc, n, closing, got, order>>
  BY DEF PushNew, consumer
<1>3. TypeOK'
  <2>1. <<p, sent[p] + 1>> \in Value
    BY <1>2, MaxPushAssumption DEF TypeOK, Value
  <2> QED
    BY <1>1, <1>2, <2>1, MaxPushAssumption DEF TypeOK, NodeOrNull
<1>4. \A i \in 1..Len(order) : order[i] # x /\ order[i] \in Nodes
  BY DEF HeapOK, TypeOK
<1>5. OrderOK'
  BY <1>2 DEF OrderOK, First
<1>6. order # <<>> => in_ # x
  BY <1>4 DEF OrderOK, TypeOK
<1>7. LinkOK'
  BY <1>1, <1>2, <1>4, <1>6 DEF LinkOK, TypeOK
<1>8. PrevOK'
  BY <1>1, <1>2, <1>4 DEF PrevOK, TypeOK
<1>9. NodeOK'
  <2>1. ASSUME NEW q \in Producers, pc[q] # "idle" PROVE node[q] # x
    <3>1. CASE pc[q] = "exchange"
      BY <3>1 DEF NodeOK
    <3>2. CASE pc[q] = "link"
      <4>1. PICK i \in 1..(Len(order) - 1) : node[q] = order[i + 1]
        BY <3>2 DEF PrevOK
      <4>2. i + 1 \in 1..Len(order)
        BY LenProperties DEF TypeOK
      <4> QED
        BY <1>4, <4>1, <4>2
    <3> QED
      BY <2>1, <3>1, <3>2 DEF TypeOK
  <2> QED
    BY <1>1, <1>2, <1>4, <2>1 DEF NodeOK, TypeOK, NodeOrNull
<1>10. HeapOK'
  BY <1>1, <1>2 DEF HeapOK, TypeOK
<1>11. ConsumerOK'
  BY <1>1, <1>2, <1>4 DEF ConsumerOK, OrderOK, First, TypeOK
<1>12. ClosingOK'
  BY <1>2 DEF ClosingOK
<1> QED
  BY <1>3, <1>5, <1>7, <1>8, <1>9, <1>10, <1>11, <1>12

(* The exchange appends the node of p; the old in_ now waits for its link.  *)
LEMMA PushExchangeStep ==
  ASSUME IInv, NEW p \in Producers, PushExchange(p)
  PROVE  IInv'
<1> USE DEF IInv
<1>1. /\ pc[p] = "exchange"
      /\ prev' = [prev EXCEPT ![p] = in_]
      /\ in_' = node[p]
      /\ order' = Append(order, node[p])
      /\ pc' = [pc EXCEPT ![p] = "link"]
      /\ UNCHANGED <<out_, next, val, heap, node, sent, cpc, n, closing, got>>
  BY DEF PushExchange, consumer
<1>2. node[p] \in Nodes /\ node[p] \in heap /\ next[node[p]] = Null
  BY <1>1 DEF NodeOK, TypeOK
<1>3. order # <<>> /\ order \in Seq(Nodes)
  BY <1>1 DEF ClosingOK, OrderOK, TypeOK
<1>4. /\ order' \in Seq(Nodes) /\ order' # <<>>
      /\ Len(order') = Len(order) + 1
      /\ \A i \in 1..Len(order) : order'[i] = order[i]
      /\ order'[Len(order) + 1] = node[p]
  BY <1>1, <1>2, <1>3, AppendProperties
<1>5. Len(order) \in Nat /\ Len(order) >= 1
  BY <1>3
<1>6. \A i \in 1..Len(order) : order[i] # node[p]
  BY <1>1 DEF NodeOK
<1>7. TypeOK'
  BY <1>1, <1>2, <1>4 DEF TypeOK, NodeOrNull
<1>8. OrderOK'
  BY <1>1, <1>3, <1>4, <1>5, <1>6 DEF OrderOK, First
<1>9. LinkOK'
  BY <1>1, <1>2, <1>3, <1>4, <1>5 DEF LinkOK, OrderOK
<1>10. PrevOK'
  <2> SUFFICES ASSUME NEW q \in Producers, pc'[q] = "link"
               PROVE  /\ next[prev'[q]] = Null
                      /\ \E i \in 1..Len(order) : prev'[q] = order'[i] /\ node[q] = order'[i + 1]
    BY <1>1, <1>4, <1>5 DEF PrevOK
  <2>1. CASE q = p
    BY <2>1, <1>1, <1>3, <1>4, <1>5 DEF TypeOK, LinkOK, OrderOK
  <2>2. CASE q # p
    <3>1. pc[q] = "link" /\ prev'[q] = prev[q]
      BY <2>2, <1>1 DEF TypeOK
    <3>2. PICK i \in 1..(Len(order) - 1) : prev[q] = order[i] /\ node[q] = order[i + 1]
      BY <3>1 DEF PrevOK
    <3>3. i \in 1..Len(order) /\ i + 1 \in 1..Len(order)
      BY <1>5
    <3> QED
      BY <3>1, <3>2, <3>3, <1>4 DEF PrevOK
  <2> QED
    BY <2>1, <2>2
<1>11. NodeOK'
  <2>1. \A q \in Producers : q # p /\ pc[q] = "exchange" => node[q] # node[p]
    BY <1>1 DEF NodeOK
  <2> QED
    BY <1>1, <1>4, <1>5, <2>1 DEF NodeOK, TypeOK
<1>12. HeapOK'
  <2>1. \A i \in 1..Len(order') : order'[i] \in heap
    BY <1>2, <1>4, <1>5 DEF HeapOK
  <2>2. ASSUME NEW x \in heap
        PROVE  \/ \E i \in 1..Len(order') : order'[i] = x
               \/ \E q \in Producers : pc'[q] = "exchange" /\ node[q] = x
    <3>1. CASE \E i \in 1..Len(order) : order[i] = x
      BY <3>1, <1>4, <1>5
    <3>2. CASE \E q \in Producers : pc[q] = "exchange" /\ node[q] = x
      BY <3>2, <1>1, <1>4, <1>5 DEF TypeOK
    <3> QED
      BY <3>1, <3>2 DEF HeapOK
  <2> QED
    BY <1>1, <2>1, <2>2 DEF HeapOK
<1>13. ConsumerOK'
  BY <1>1, <1>4, <1>5 DEF ConsumerOK
<1>14. ClosingOK'
  BY <1>1 DEF ClosingOK
<1> QED
  BY <1>7, <1>8, <1>9, <1>10, <1>11, <1>12, <1>13, <1>14

(* The link turns the null pointer of prev into the pointer to its          *)
(* successor; no other producer waits for the same one.                     *)
LEMMA PushLinkStep ==
  ASSUME IInv, NEW p \in Producers, PushLink(p)
  PROVE  IInv'
<1> USE DEF IInv
<1>1. /\ pc[p] = "link"
      /\ next' = [next EXCEPT ![prev[p]] = node[p]]
      /\ pc' = [pc EXCEPT ![p] = "idle"]
      /\ node' = [node EXCEPT ![p] = Null]
      /\ prev' = [prev EXCEPT ![p] = Null]
      /\ UNCHANGED <<in_, out_, val, heap, sent, cpc, n, closing, got, order>>
  BY DEF PushLink, consumer
<1>2. PICK k \in 1..(Len(order) - 1) : prev[p] = order[k] /\ node[p] = order[k + 1]
  BY <1>1 DEF PrevOK
<1>3. /\ Len(order) \in Nat
      /\ \A i \in 1..Len(order) : order[i] \in Nodes
      /\ k \in 1..Len(order) /\ k + 1 \in 1..Len(order)
  BY DEF TypeOK
<1>4. prev[p] \in Nodes /\ node[p] \in Nodes /\ next[prev[p]] = Null
  BY <1>1, <1>2, <1>3 DEF PrevOK
<1>5. \A i \in 1..Len(order) : i # k => order[i] # prev[p] /\ next'[order[i]] = next[order[i]]
  BY <1>1, <1>2, <1>3 DEF OrderOK, TypeOK
<1>6. \A q \in Producers : q # p /\ pc[q] # "idle" => node[q] # node[p]
  BY <1>1 DEF NodeOK
<1>7. TypeOK'
  BY <1>1, <1>4 DEF TypeOK, NodeOrNull
<1>8. OrderOK'
  BY <1>1 DEF OrderOK, First
<1>9. LinkOK'
  <2>1. next'[order[k]] = order[k + 1]
    BY <1>1, <1>2, <1>3 DEF TypeOK
  <2>2. order # <<>> => next'[in_] = Null
    BY <1>2, <1>3, <1>5 DEF OrderOK, LinkOK
  <2>3. \A i \in 1..(Len(order) - 1) : next'[order[i]] \in {Null, order[i + 1]}
    BY <1>2, <1>3, <1>5, <2>1 DEF LinkOK
  <2> QED
    BY <1>1, <2>2, <2>3 DEF LinkOK
<1>10. PrevOK'
  <2> SUFFICES ASSUME NEW q \in Producers, pc'[q] = "link"
               PROVE  /\ next'[prev'[q]] = Null
                      /\ \E i \in 1..(Len(order) - 1) :
                           prev'[q] = order[i] /\ node'[q] = order[i + 1]
    BY <1>1 DEF PrevOK
  <2>1. q # p /\ pc[q] = "link" /\ prev'[q] = prev[q] /\ node'[q] = node[q]
    BY <1>1 DEF TypeOK
  <2>2. PICK i \in 1..(Len(order) - 1) : prev[q] = order[i] /\ node[q] = order[i + 1]
    BY <2>1 DEF PrevOK
  <2>3. i # k /\ i \in 1..Len(order)
    BY <2>1, <2>2, <1>2, <1>3, <1>6
  <2> QED
    BY <2>1, <2>2, <2>3, <1>5 DEF PrevOK
<1>11. NodeOK'
  <2>1. \A q \in Producers : pc'[q] # "idle" => q # p /\ pc'[q] = pc[q] /\ node'[q] = node[q]
    BY <1>1 DEF TypeOK
  <2>2. \A q \in Producers : pc[q] = "exchange" => node[q] \in heap /\ node[q] # prev[p]
    BY <1>2, <1>3 DEF NodeOK
  <2> QED
    BY <1>1, <2>1, <2>2 DEF NodeOK, TypeOK
<1>12. HeapOK'
  BY <1>1 DEF HeapOK, TypeOK
<1>13. ConsumerOK'
  <2> SUFFICES ASSUME cpc \in {"move", "delete"} PROVE next'[out_] = n
    BY <1>1 DEF ConsumerOK
  <2>1. n \in Nodes /\ next[out_] = n
    BY <1>3 DEF ConsumerOK, TypeOK
  <2> QED
    BY <2>1, <1>1, <1>4, NullAssumption DEF TypeOK
<1>14. ClosingOK'
  BY <1>1 DEF ClosingOK, TypeOK
<1> QED
  BY <1>7, <1>8, <1>9, <1>10, <1>11, <1>12, <1>13, <1>14

-----------------------------------------------------------------------------
(* pop() looks at the list without changing it until it frees the head.     *)
LEMMA PopReadStep ==
  ASSUME IInv, PopCompare \/ PopLoad \/ PopMove
  PROVE  IInv'
<1> USE DEF IInv, producer
<1>1. Len(order) \in Nat /\ \A i \in 1..Len(order) : order[i] \in Nodes
  BY DEF TypeOK
<1>2. CASE PopCompare
  <2>1. Len(order) > 1
    BY <1>2, <1>1 DEF PopCompare, OrderOK, First
  <2> QED
    BY <1>2, <2>1 DEF PopCompare, TypeOK, OrderOK, First, LinkOK, PrevOK, NodeOK, HeapOK,
                      ConsumerOK, ClosingOK
<1>3. CASE PopLoad
  <2>1. Len(order) > 1 /\ out_ = order[1] /\ next[out_] \in {Null, order[2]}
    BY <1>3, <1>1 DEF PopLoad, OrderOK, First, LinkOK, ConsumerOK
  <2>2. TypeOK' /\ ConsumerOK'
    BY <1>3, <1>1, <2>1 DEF PopLoad, TypeOK, ConsumerOK, NodeOrNull
  <2> QED
    BY <1>3, <2>2 DEF PopLoad, OrderOK, First, LinkOK, PrevOK, NodeOK, HeapOK, ClosingOK
<1>4. CASE PopMove
  <2>1. n \in Nodes
    BY <1>4, <1>1 DEF PopMove, ConsumerOK
  <2>2. TypeOK'
    BY <1>4, <2>1 DEF PopMove, TypeOK
  <2> QED
    BY <1>4, <2>2 DEF PopMove, OrderOK, First, LinkOK, PrevOK, NodeOK, HeapOK, ConsumerOK,
                      ClosingOK
<1> QED
  BY <1>2, <1>3, <1>4

(* Freeing the head takes it off the list: its link is set, so no producer  *)
(* waits for it.                                                            *)
LEMMA PopDeleteStep ==
  ASSUME IInv, PopDelete
  PROVE  IInv'
<1> USE DEF IInv
<1>1. /\ cpc = "delete" /\ cpc' = "advance"
      /\ heap' = heap \ {out_}
      /\ order' = Tail(order)
      /\ UNCHANGED <<in_, out_, next, val, pc, node, prev, sent, n, closing, got>>
  BY DEF PopDelete, producer
<1>2. /\ order \in Seq(Nodes) /\ order # <<>> /\ Len(order) \in Nat /\ Len(order) > 1
      /\ out_ = order[1] /\ n = order[2] /\ next[out_] = n
      /\ \A i \in 1..Len(order) : order[i] \in Nodes
  BY <1>1 DEF TypeOK, ConsumerOK, OrderOK, First
<1>3. /\ order' \in Seq(Nodes)
      /\ Len(order') = Len(order) - 1
      /\ \A i \in 1..Len(order') : order'[i] = order[i + 1]
  BY <1>1, <1>2, HeadTailProperties
<1>4. \A i \in 1..Len(order') : i + 1 \in 1..Len(order) /\ order'[i] # out_
  BY <1>2, <1>3 DEF OrderOK
<1>5. TypeOK'
  BY <1>1, <1>3 DEF TypeOK
<1>6. OrderOK'
  <2>1. order' # <<>> /\ order'[1] = n /\ order'[Len(order')] = in_
    BY <1>2, <1>3 DEF OrderOK
  <2>2. \A i, j \in 1..Len(order') : order'[i] = order'[j] => i = j
    <3> SUFFICES ASSUME NEW i \in 1..Len(order'), NEW j \in 1..Len(order'),
                        order'[i] = order'[j]
                 PROVE  i = j
      OBVIOUS
    <3>1. order[i + 1] = order[j + 1]
      BY <1>3
    <3>2. i + 1 = j + 1
      BY <3>1, <1>4 DEF OrderOK
    <3> QED
      BY <3>2, <1>2, <1>3
  <2> QED
    BY <1>1, <2>1, <2>2 DEF OrderOK, First
<1>7. LinkOK'
  BY <1>1, <1>2, <1>3, <1>4 DEF LinkOK
<1>8. PrevOK'
  <2> SUFFICES ASSUME NEW p \in Producers, pc[p] = "link"
               PROVE  \E i \in 1..(Len(order') - 1) : prev[p] = order'[i] /\ node[p] = order'[i + 1]
    BY <1>1 DEF PrevOK
  <2>1. PICK i \in 1..(Len(order) - 1) : prev[p] = order[i] /\ node[p] = order[i + 1]
    BY DEF PrevOK
  <2>2. i # 1
    BY <2>1, <1>2, NullAssumption DEF PrevOK
  <2>3. i - 1 \in 1..(Len(order') - 1) /\ (i - 1) + 1 = i
    BY <2>2, <1>2, <1>3
  <2>4. order'[i - 1] = order[i] /\ order'[i] = order[i + 1]
    BY <2>3, <1>2, <1>3
  <2> QED
    BY <2>1, <2>3, <2>4
<1>9. NodeOK'
  <2>1. \A p \in Producers : pc[p] = "exchange" => node[p] # out_
    BY <1>2 DEF NodeOK
  <2> QED
    BY <1>1, <1>3, <1>4, <2>1 DEF NodeOK
<1>10. HeapOK'
  <2>1. \A i \in 1..Len(order') : order'[i] \in heap'
    BY <1>1, <1>3, <1>4 DEF HeapOK
  <2>2. ASSUME NEW x \in heap'
        PROVE  \/ \E i \in 1..Len(order') : order'[i] = x
               \/ \E p \in Producers : pc[p] = "exchange" /\ node[p] = x
    <3>1. CASE \E i \in 1..Len(order) : order[i] = x
      <4>1. PICK i \in 1..Len(order) : order[i] = x
        BY <3>1
      <4>2. i # 1
        BY <4>1, <1>1, <1>2
      <4>3. i - 1 \in 1..Len(order') /\ (i - 1) + 1 = i
        BY <4>2, <1>2, <1>3
      <4> QED
        BY <4>1, <4>3, <1>3
    <3> QED
      BY <1>1, <3>1 DEF HeapOK
  <2> QED
    BY <1>1, <2>1, <2>2 DEF HeapOK
<1>11. ConsumerOK' /\ ClosingOK'
  BY <1>1 DEF ConsumerOK, ClosingOK
<1> QED
  BY <1>5, <1>6, <1>7, <1>8, <1>9, <1>10, <1>11

(* The steps that only move the consumer: out_ = n, and the destructor      *)
(* beginning its clear().                                                   *)
LEMMA AdvanceStep ==
  ASSUME IInv, PopAdvance \/ Destroy
  PROVE  IInv'
<1> USE DEF IInv, producer
<1>1. CASE PopAdvance
  <2>1. order # <<>> /\ order[1] = n /\ n \in Nodes
    BY <1>1 DEF PopAdvance, OrderOK, First, TypeOK
  <2>2. TypeOK'
    BY <1>1, <2>1 DEF PopAdvance, TypeOK, NodeOrNull
  <2>3. OrderOK'
    BY <1>1, <2>1 DEF PopAdvance, OrderOK, First
  <2> QED
    BY <1>1, <2>2, <2>3 DEF PopAdvance, LinkOK, PrevOK, NodeOK, HeapOK, ConsumerOK, ClosingOK
<1>2. CASE Destroy
  <2>1. TypeOK' /\ ClosingOK'
    BY <1>2 DEF Destroy, TypeOK, ClosingOK
  <2>2. OrderOK' /\ LinkOK' /\ PrevOK'
    BY <1>2 DEF Destroy, OrderOK, First, LinkOK, PrevOK
  <2>3. NodeOK' /\ HeapOK' /\ ConsumerOK'
    BY <1>2 DEF Destroy, NodeOK, HeapOK, ConsumerOK
  <2> QED
    BY <2>1, <2>2, <2>3
<1> QED
  BY <1>1, <1>2

(* The destructor frees the last node: nothing is linked or waiting.        *)
LEMMA DestroyLastStep ==
  ASSUME IInv, DestroyLast
  PROVE  IInv'
<1> USE DEF IInv
<1>1. /\ closing /\ cpc = "idle" /\ out_ = in_ /\ cpc' = "dead"
      /\ heap' = heap \ {out_}
      /\ order' = Tail(order)
      /\ UNCHANGED <<in_, out_, next, val, pc, node, prev, sent, n, closing, got>>
  BY DEF DestroyLast, producer
<1>2. \A p \in Producers : pc[p] = "idle"
  BY <1>1 DEF ClosingOK
<1>3. order \in Seq(Nodes) /\ order # <<>> /\ Len(order) = 1 /\ order[1] = out_
  <2>1. order \in Seq(Nodes) /\ order # <<>>
    BY <1>1 DEF TypeOK, OrderOK
  <2>2. order[1] = out_ /\ order[Len(order)] = out_
    BY <1>1, <2>1 DEF OrderOK, First
  <2>3. 1 \in 1..Len(order) /\ Len(order) \in 1..Len(order)
    BY <2>1
  <2> QED
    BY <2>1, <2>2, <2>3 DEF OrderOK
<1>4. order' \in Seq(Nodes) /\ Len(order') = 0 /\ order' = <<>>
  BY <1>1, <1>3, HeadTailProperties
<1>5. heap' = {}
  BY <1>1, <1>2, <1>3 DEF HeapOK
<1>6. TypeOK'
  <2>1. heap' \in SUBSET Nodes /\ order' \in Seq(Nodes)
    BY <1>4, <1>5
  <2> QED
    BY <1>1, <2>1 DEF TypeOK
<1>7. OrderOK' /\ LinkOK'
  BY <1>1, <1>4 DEF OrderOK, LinkOK
<1>8. PrevOK' /\ NodeOK'
  BY <1>1, <1>2 DEF PrevOK, NodeOK
<1>9. HeapOK' /\ ConsumerOK' /\ ClosingOK'
  <2>1. HeapOK'
    BY <1>4, <1>5 DEF HeapOK
  <2>2. ConsumerOK' /\ ClosingOK'
    BY <1>1 DEF ConsumerOK, ClosingOK
  <2> QED
    BY <2>1, <2>2
<1> QED
  BY <1>6, <1>7, <1>8, <1>9

-----------------------------------------------------------------------------
(* The invariant is inductive: it holds initially and every step of push(), *)
(* pop() and the destructor keeps it.                                       *)
THEOREM Inductive == Spec => []IInv
<1>1. Init => IInv
  BY InitIInv
<1>2. IInv /\ [Next]_vars => IInv'
  <2> SUFFICES ASSUME IInv, [Next]_vars PROVE IInv'
    OBVIOUS
  <2>1. ASSUME NEW p \in Producers, Push(p) PROVE IInv'
    BY <2>1, PushNewStep, PushExchangeStep, PushLinkStep DEF Push
  <2>2. CASE Pop
    BY <2>2, PopReadStep, PopDeleteStep, AdvanceStep DEF Pop
  <2>3. CASE Destroy \/ DestroyLast
    BY <2>3, AdvanceStep, DestroyLastStep
  <2>4. CASE UNCHANGED vars
    <3>1. TypeOK' /\ OrderOK' /\ LinkOK'
      BY <2>4 DEF vars, consumer, producer, IInv, TypeOK, OrderOK, First, LinkOK
    <3>2. PrevOK' /\ NodeOK' /\ HeapOK'
      BY <2>4 DEF vars, consumer, producer, IInv, PrevOK, NodeOK, HeapOK
    <3>3. ConsumerOK' /\ ClosingOK'
      BY <2>4 DEF vars, consumer, producer, IInv, ConsumerOK, ClosingOK
    <3> QED
      BY <3>1, <3>2, <3>3 DEF IInv
  <2> QED
    BY <2>1, <2>2, <2>3, <2>4 DEF Next
<1> QED
  BY <1>1, <1>2, PTL DEF Spec

(* Every variable keeps its type.                                           *)
THEOREM TypeCorrect == Spec => []TypeOK
<1>1. IInv => TypeOK
  BY DEF IInv
<1> QED
  BY <1>1, Inductive, PTL

(* No thread touches a freed node, whatever pop() frees and the allocator   *)
(* reuses between two steps of a push().                                    *)
THEOREM MemorySafe == Spec => []NoUseAfterFree
<1>1. IInv => NoUseAfterFree
  <2> SUFFICES ASSUME IInv PROVE NoUseAfterFree
    OBVIOUS
  <2> USE DEF IInv
  <2>1. Len(order) \in Nat /\ \A i \in 1..Len(order) : order[i] \in heap
    BY DEF TypeOK, HeapOK
  <2>2. ASSUME NEW p \in Producers
        PROVE  /\ pc[p] # "idle" => node[p] \in heap
               /\ pc[p] = "link" => prev[p] \in heap
    <3>1. CASE pc[p] = "link"
      <4>1. PICK i \in 1..(Len(order) - 1) : prev[p] = order[i] /\ node[p] = order[i + 1]
        BY <3>1 DEF PrevOK
      <4>2. i \in 1..Len(order) /\ i + 1 \in 1..Len(order)
        BY <2>1
      <4> QED
        BY <4>1, <4>2, <2>1
    <3>2. CASE pc[p] = "exchange"
      BY <3>2 DEF NodeOK
    <3> QED
      BY <3>1, <3>2 DEF TypeOK
  <2>3. cpc # "dead" => order # <<>> /\ First \in heap
    BY <2>1 DEF OrderOK, TypeOK
  <2>4. cpc \in {"move", "delete", "advance"} => n \in heap
    BY <2>1, <2>3 DEF ConsumerOK, First
  <2> QED
    BY <2>2, <2>3, <2>4 DEF NoUseAfterFree, First
<1> QED
  BY <1>1, Inductive, PTL

(* Every link is stored once, by the producer it belongs to.                *)
THEOREM LinksKept == Spec => []NoLostLink
<1>1. IInv => NoLostLink
  <2> SUFFICES ASSUME IInv, NEW p \in Producers, pc[p] = "link",
                      NEW q \in Producers \ {p}, pc[q] = "link"
               PROVE  prev[q] # prev[p]
    BY DEF NoLostLink, IInv, PrevOK
  <2>1. PICK i \in 1..(Len(order) - 1) : prev[p] = order[i] /\ node[p] = order[i + 1]
    BY DEF IInv, PrevOK
  <2>2. PICK j \in 1..(Len(order) - 1) : prev[q] = order[j] /\ node[q] = order[j + 1]
    BY DEF IInv, PrevOK
  <2>3. node[p] # node[q]
    BY DEF IInv, NodeOK
  <2> QED
    BY <2>1, <2>2, <2>3 DEF IInv, OrderOK, TypeOK
<1> QED
  BY <1>1, Inductive, PTL

(* The destructor frees every node.                                         *)
THEOREM NothingLeaked == Spec => []NoLeak
<1>1. IInv => NoLeak
  BY DEF IInv, NoLeak, OrderOK, HeapOK, ClosingOK, TypeOK
<1> QED
  BY <1>1, Inductive, PTL

-----------------------------------------------------------------------------
(* The refinement of EventFifo needs one more fact: a link that is missing  *)
(* within the list is about to be stored by some producer, and what is in   *)
(* the list was pushed.                                                     *)
PendingOK ==
  /\ \A i \in 1..(Len(order) - 1) :
       next[order[i]] = Null => \E p \in Producers : pc[p] = "link" /\ prev[p] = order[i]
  /\ \A p \in Producers : pc[p] = "exchange" => val[node[p]] \in Value

RInv == IInv /\ PendingOK

(* The list begins with no link to store.                                   *)
LEMMA InitPending == Init => PendingOK
<1> SUFFICES ASSUME Init PROVE PendingOK
  OBVIOUS
<1>1. Len(order) = 1
  BY DEF Init
<1> QED
  BY <1>1 DEF Init, PendingOK

(* The producer that makes in_ an inner node is the one that links it.      *)
LEMMA PushPending ==
  ASSUME IInv, PendingOK, NEW p \in Producers, Push(p)
  PROVE  PendingOK'
<1> USE DEF IInv
<1>1. Len(order) \in Nat /\ \A i \in 1..Len(order) : order[i] \in Nodes
  BY DEF TypeOK
<1>2. CASE PushNew(p)
  <2>1. PICK x \in Nodes \ heap :
           /\ next' = [next EXCEPT ![x] = Null]
           /\ val' = [val EXCEPT ![x] = <<p, sent[p] + 1>>]
           /\ node' = [node EXCEPT ![p] = x]
    BY <1>2 DEF PushNew
  <2>2. /\ pc[p] = "idle" /\ sent[p] < MaxPush /\ order' = order /\ prev' = prev
        /\ pc' = [pc EXCEPT ![p] = "exchange"]
    BY <1>2 DEF PushNew
  <2>3. <<p, sent[p] + 1>> \in Value
    BY <2>2, MaxPushAssumption DEF TypeOK, Value
  <2>4. \A i \in 1..Len(order) : next'[order[i]] = next[order[i]]
    BY <1>1, <2>1 DEF HeapOK, TypeOK
  <2>5. \A i \in 1..(Len(order) - 1) : next'[order[i]] = Null =>
           \E q \in Producers : pc'[q] = "link" /\ prev'[q] = order[i]
    <3> SUFFICES ASSUME NEW i \in 1..(Len(order) - 1), next'[order[i]] = Null
                 PROVE  \E q \in Producers : pc'[q] = "link" /\ prev'[q] = order[i]
      OBVIOUS
    <3>1. next[order[i]] = Null
      BY <1>1, <2>4
    <3>2. PICK q \in Producers : pc[q] = "link" /\ prev[q] = order[i]
      BY <3>1 DEF PendingOK
    <3> QED
      BY <2>2, <3>2 DEF TypeOK
  <2>6. \A q \in Producers : pc'[q] = "exchange" => val'[node'[q]] \in Value
    BY <2>1, <2>2, <2>3 DEF PendingOK, NodeOK, TypeOK
  <2> QED
    BY <2>2, <2>5, <2>6 DEF PendingOK
<1>3. CASE PushExchange(p)
  <2>1. /\ pc[p] = "exchange" /\ pc' = [pc EXCEPT ![p] = "link"]
        /\ prev' = [prev EXCEPT ![p] = in_] /\ order' = Append(order, node[p])
        /\ UNCHANGED <<next, val, node>>
    BY <1>3 DEF PushExchange
  <2>2. order # <<>> /\ order \in Seq(Nodes) /\ node[p] \in Nodes /\ order[Len(order)] = in_
    BY <2>1 DEF ClosingOK, OrderOK, NodeOK, TypeOK
  <2>3. /\ Len(order') = Len(order) + 1
        /\ \A i \in 1..Len(order) : order'[i] = order[i]
    BY <2>1, <2>2, AppendProperties
  <2>4. ASSUME NEW i \in 1..(Len(order') - 1), next[order'[i]] = Null
        PROVE  \E q \in Producers : pc'[q] = "link" /\ prev'[q] = order'[i]
    <3>1. CASE i = Len(order)
      BY <1>1, <2>1, <2>2, <2>3, <3>1 DEF TypeOK
    <3>2. CASE i # Len(order)
      <4>1. PICK q \in Producers : pc[q] = "link" /\ prev[q] = order[i]
        BY <1>1, <2>3, <2>4, <3>2 DEF PendingOK
      <4> QED
        BY <1>1, <2>1, <2>3, <3>2, <4>1 DEF TypeOK
    <3> QED
      BY <3>1, <3>2
  <2> QED
    BY <2>1, <2>4 DEF PendingOK, TypeOK
<1>4. CASE PushLink(p)
  <2>1. /\ pc[p] = "link" /\ pc' = [pc EXCEPT ![p] = "idle"]
        /\ next' = [next EXCEPT ![prev[p]] = node[p]]
        /\ node' = [node EXCEPT ![p] = Null]
        /\ prev' = [prev EXCEPT ![p] = Null]
        /\ UNCHANGED <<order, val>>
    BY <1>4 DEF PushLink
  <2>2. PICK k \in 1..(Len(order) - 1) : prev[p] = order[k] /\ node[p] = order[k + 1]
    BY <2>1 DEF PrevOK
  <2>3. prev[p] \in Nodes /\ node[p] \in Nodes
    BY <1>1, <2>2
  <2>4. ASSUME NEW i \in 1..(Len(order) - 1), next'[order[i]] = Null
        PROVE  \E q \in Producers : pc'[q] = "link" /\ prev'[q] = order[i]
    <3>1. order[i] # prev[p] /\ next[order[i]] = Null
      BY <1>1, <2>1, <2>3, <2>4, NullAssumption DEF TypeOK
    <3>2. PICK q \in Producers : pc[q] = "link" /\ prev[q] = order[i]
      BY <3>1 DEF PendingOK
    <3> QED
      BY <2>1, <3>1, <3>2 DEF TypeOK
  <2> QED
    BY <2>1, <2>4 DEF PendingOK, TypeOK
<1> QED
  BY <1>2, <1>3, <1>4 DEF Push

(* The consumer only takes nodes off whose link is stored.                  *)
LEMMA ConsumerPending ==
  ASSUME IInv, PendingOK, Pop \/ Destroy \/ DestroyLast
  PROVE  PendingOK'
<1> USE DEF IInv
<1>1. UNCHANGED <<pc, prev, node, val, next>>
  BY DEF Pop, PopCompare, PopLoad, PopMove, PopDelete, PopAdvance, Destroy, DestroyLast, producer
<1>2. CASE UNCHANGED order
  BY <1>1, <1>2 DEF PendingOK
<1>3. CASE order # <<>> /\ order' = Tail(order)
  <2>1. /\ order \in Seq(Nodes) /\ Len(order) \in Nat
        /\ Len(order') = Len(order) - 1
        /\ \A i \in 1..Len(order') : order'[i] = order[i + 1]
    BY <1>3, HeadTailProperties DEF TypeOK
  <2>2. ASSUME NEW i \in 1..(Len(order') - 1), next[order'[i]] = Null
        PROVE  \E p \in Producers : pc[p] = "link" /\ prev[p] = order'[i]
    <3>1. i + 1 \in 1..(Len(order) - 1) /\ order'[i] = order[i + 1]
      BY <2>1
    <3> QED
      BY <2>2, <3>1 DEF PendingOK
  <2> QED
    BY <1>1, <2>2 DEF PendingOK
<1> QED
  BY <1>2, <1>3 DEF Pop, PopCompare, PopLoad, PopMove, PopDelete, PopAdvance, Destroy,
                    DestroyLast, OrderOK

(* RInv holds of every behaviour.                                           *)
LEMMA RefinementInvariant == Spec => []RInv
<1>1. IInv /\ PendingOK /\ [Next]_vars => PendingOK'
  <2>1. IInv /\ PendingOK /\ UNCHANGED vars => PendingOK'
    BY DEF vars, producer, PendingOK
  <2> QED
    BY <2>1, PushPending, ConsumerPending DEF Next
<1> QED
  BY <1>1, InitPending, Inductive, PTL DEF Spec, RInv

-----------------------------------------------------------------------------
Entry == [val : Value \cup {None}, by : Producers \cup {Null}]

(* How many elements the consumer can still be handed.                      *)
Pending == IF cpc = "dead" THEN 0 ELSE Len(order) - 1 - Taken

(* What the queue of EventFifo is: the owner of an element is the producer  *)
(* whose link is missing in front of it.                                    *)
QueueOK ==
  /\ Pending \in Nat /\ AbsQueue \in Seq(Entry) /\ Len(AbsQueue) = Pending
  /\ \A i \in 1..Pending :
       /\ AbsQueue[i].val = val[order[i + 1 + Taken]]
       /\ \A p \in Producers :
            AbsQueue[i].by = p <=> pc[p] = "link" /\ prev[p] = order[i + Taken]

(* At most one producer waits to link a node: Owner chooses that one.       *)
LEMMA OwnerIs ==
  ASSUME RInv, NEW i \in 1..(Len(order) - 1)
  PROVE  /\ Owner(i) \in Producers \cup {Null}
         /\ \A p \in Producers : Owner(i) = p <=> pc[p] = "link" /\ prev[p] = order[i]
<1> USE DEF RInv, IInv
<1>1. CASE next[order[i]] # Null
  BY <1>1, NullAssumption DEF Owner, PrevOK
<1>2. CASE next[order[i]] = Null
  <2>1. \E p \in Producers : pc[p] = "link" /\ prev[p] = order[i]
    BY <1>2 DEF PendingOK
  <2>2. Owner(i) \in Producers /\ pc[Owner(i)] = "link" /\ prev[Owner(i)] = order[i]
    BY <1>2, <2>1 DEF Owner
  <2>3. \A p, q \in Producers :
           pc[p] = "link" /\ prev[p] = order[i] /\ pc[q] = "link" /\ prev[q] = order[i] => p = q
    <3> SUFFICES ASSUME NEW p \in Producers, NEW q \in Producers,
                        pc[p] = "link", prev[p] = order[i], pc[q] = "link", prev[q] = order[i],
                        p # q
                 PROVE  FALSE
      OBVIOUS
    <3>1. PICK j \in 1..(Len(order) - 1) : prev[p] = order[j] /\ node[p] = order[j + 1]
      BY DEF PrevOK
    <3>2. PICK k \in 1..(Len(order) - 1) : prev[q] = order[k] /\ node[q] = order[k + 1]
      BY DEF PrevOK
    <3>3. node[p] # node[q]
      BY DEF NodeOK
    <3>4. j \in 1..Len(order) /\ k \in 1..Len(order)
      BY DEF TypeOK
    <3>5. j = k
      BY <3>1, <3>2, <3>4 DEF OrderOK
    <3> QED
      BY <3>1, <3>2, <3>3, <3>5
  <2> QED
    BY <2>2, <2>3
<1> QED
  BY <1>1, <1>2

(* Element i of the queue is in the node after the i-th one not yet popped. *)
LEMMA QueueIs == RInv => QueueOK
<1> SUFFICES ASSUME RInv PROVE QueueOK
  OBVIOUS
<1> USE DEF RInv, IInv
<1>1. /\ Len(order) \in Nat /\ \A i \in 1..Len(order) : order[i] \in Nodes
      /\ val \in [Nodes -> Value \cup {None}]
  BY DEF TypeOK
<1>2. /\ cpc = "dead" => Len(order) = 0
      /\ cpc # "dead" => Len(order) > 0
      /\ cpc = "delete" => Len(order) > 1
  BY EmptySeq DEF OrderOK, ConsumerOK, TypeOK
<1>3. Pending \in Nat /\ Taken \in {0, 1} /\ 1..Pending = 1..(Len(order) - 1 - Taken)
  <2>1. Pending \in Nat /\ Taken \in {0, 1}
    BY <1>1, <1>2 DEF Pending, Taken
  <2>2. \A i \in Int : i \in 1..Pending <=> i \in 1..(Len(order) - 1 - Taken)
    BY <1>1, <1>2, <2>1 DEF Pending, Taken
  <2> QED
    BY <2>1, <2>2
<1>4. \A i \in 1..Pending : /\ i + Taken \in 1..(Len(order) - 1)
                            /\ i + 1 + Taken \in 1..Len(order)
  BY <1>1, <1>3
<1>5. AbsQueue = [i \in 1..Pending |->
                    [val |-> val[order[i + 1 + Taken]], by |-> Owner(i + Taken)]]
  BY <1>3 DEF AbsQueue
<1>6. \A i \in 1..Pending :
         /\ val[order[i + 1 + Taken]] \in Value \cup {None}
         /\ Owner(i + Taken) \in Producers \cup {Null}
         /\ \A p \in Producers :
              Owner(i + Taken) = p <=> pc[p] = "link" /\ prev[p] = order[i + Taken]
  BY <1>1, <1>4, OwnerIs
<1>7. AbsQueue \in [1..Pending -> Entry]
  BY <1>5, <1>6 DEF Entry
<1>8. AbsQueue \in Seq(Entry) /\ Len(AbsQueue) = Pending
  BY <1>3, <1>7, SeqDef
<1> QED
  BY <1>3, <1>5, <1>6, <1>8 DEF QueueOK

(* Two queues are equal when they agree on the values and on who is         *)
(* publishing what.                                                         *)
LEMMA SameQueue ==
  ASSUME NEW s \in Seq(Entry), NEW t \in Seq(Entry),
         NEW k \in Nat, Len(s) = k, Len(t) = k,
         \A i \in 1..k :
           s[i].val = t[i].val /\ \A p \in Producers : s[i].by = p <=> t[i].by = p
  PROVE  s = t
<1>1. \A i \in 1..Len(s) : s[i] = t[i]
  <2> SUFFICES ASSUME NEW i \in 1..Len(s) PROVE s[i] = t[i]
    OBVIOUS
  <2>1. s[i] \in Entry /\ t[i] \in Entry
    OBVIOUS
  <2>2. s[i].val = t[i].val /\ s[i].by = t[i].by
    BY <2>1, NullAssumption DEF Entry
  <2> QED
    BY <2>1, <2>2 DEF Entry
<1> QED
  BY <1>1, SeqEqual

(* push() claims its place with the exchange ...                            *)
LEMMA ExchangeClaims ==
  ASSUME RInv, QueueOK, QueueOK', NEW p \in Producers, PushExchange(p)
  PROVE  Abs!Claim(p, val[node[p]]) /\ val[node[p]] \in Value
<1> USE DEF RInv, IInv
<1>1. /\ pc[p] = "exchange" /\ pc' = [pc EXCEPT ![p] = "link"]
      /\ prev' = [prev EXCEPT ![p] = in_] /\ order' = Append(order, node[p])
      /\ UNCHANGED <<val, node, cpc, got>>
  BY DEF PushExchange, consumer
<1>2. val[node[p]] \in Value
  BY <1>1 DEF PendingOK
<1>3. /\ order # <<>> /\ order \in Seq(Nodes) /\ node[p] \in Nodes
      /\ order[Len(order)] = in_ /\ cpc # "dead"
  BY <1>1 DEF ClosingOK, OrderOK, NodeOK, TypeOK
<1>4. /\ Len(order) \in Nat /\ Len(order') = Len(order) + 1
      /\ \A i \in 1..Len(order) : order'[i] = order[i]
      /\ order'[Len(order) + 1] = node[p]
  BY <1>1, <1>3, AppendProperties
<1>5. /\ Taken' = Taken /\ Taken \in {0, 1} /\ Pending' = Pending + 1
      /\ Pending = Len(order) - 1 - Taken
  BY <1>1, <1>3, <1>4 DEF Taken, Pending
<1> DEFINE e == [val |-> val[node[p]], by |-> p]
           s == Append(AbsQueue, e)
<1>6. e \in Entry
  BY <1>2 DEF Entry
<1>7. /\ s \in Seq(Entry) /\ Len(s) = Pending + 1
      /\ \A i \in 1..Pending : s[i] = AbsQueue[i]
      /\ s[Pending + 1] = e
  BY <1>6, AppendProperties DEF QueueOK
<1>8. ASSUME NEW i \in 1..(Pending + 1)
      PROVE  /\ AbsQueue'[i].val = s[i].val
             /\ \A q \in Producers : AbsQueue'[i].by = q <=> s[i].by = q
  <2>1. /\ AbsQueue'[i].val = val[order'[i + 1 + Taken]]
        /\ \A q \in Producers :
             AbsQueue'[i].by = q <=> pc'[q] = "link" /\ prev'[q] = order'[i + Taken]
    BY <1>1, <1>5 DEF QueueOK
  <2>2. CASE i = Pending + 1
    <3>1. i + Taken = Len(order) /\ i + 1 + Taken = Len(order) + 1
      BY <1>4, <1>5, <2>2 DEF QueueOK
    <3>2. order'[i + Taken] = in_ /\ order'[i + 1 + Taken] = node[p]
      BY <1>3, <1>4, <3>1
    <3>3. \A q \in Producers : q # p => ~(pc[q] = "link" /\ prev[q] = in_)
      <4> SUFFICES ASSUME NEW q \in Producers, pc[q] = "link", prev[q] = in_
                   PROVE  FALSE
        BY <1>1
      <4>1. PICK k \in 1..(Len(order) - 1) : prev[q] = order[k]
        BY DEF PrevOK
      <4>2. k = Len(order)
        BY <4>1, <1>3, <1>4 DEF OrderOK
      <4> QED
        BY <4>1, <4>2, <1>4
    <3>4. \A q \in Producers : pc'[q] = "link" /\ prev'[q] = in_ <=> q = p
      BY <1>1, <3>3 DEF TypeOK
    <3>5. s[i].val = val[node[p]] /\ s[i].by = p
      BY <1>7, <2>2
    <3> QED
      BY <2>1, <3>2, <3>4, <3>5
  <2>3. CASE i # Pending + 1
    <3>1. i \in 1..Pending /\ i + Taken \in 1..(Len(order) - 1) /\ i + 1 + Taken \in 1..Len(order)
      BY <1>4, <1>5, <2>3 DEF QueueOK
    <3>2. order'[i + Taken] = order[i + Taken] /\ order'[i + 1 + Taken] = order[i + 1 + Taken]
      BY <1>4, <3>1
    <3>3. order[i + Taken] # in_
      BY <1>3, <1>4, <3>1 DEF OrderOK
    <3>4. \A q \in Producers : pc'[q] = "link" /\ prev'[q] = order[i + Taken]
                                 <=> pc[q] = "link" /\ prev[q] = order[i + Taken]
      BY <1>1, <3>3 DEF TypeOK
    <3>5. /\ s[i].val = val[order[i + 1 + Taken]]
          /\ \A q \in Producers : s[i].by = q <=> pc[q] = "link" /\ prev[q] = order[i + Taken]
      BY <1>7, <3>1 DEF QueueOK
    <3> QED
      BY <2>1, <3>2, <3>4, <3>5
  <2> QED
    BY <2>2, <2>3
<1>9. AbsQueue' = s
  <2>1. AbsQueue' \in Seq(Entry) /\ Len(AbsQueue') = Pending + 1 /\ Pending + 1 \in Nat
    BY <1>5 DEF QueueOK
  <2> HIDE DEF s
  <2> QED
    BY <1>7, <1>8, <2>1, SameQueue
<1>10. \A i \in 1..Len(AbsQueue) : AbsQueue[i].by # p
  BY <1>1 DEF QueueOK
<1> QED
  BY <1>1, <1>2, <1>9, <1>10 DEF Abs!Claim

(* ... and publishes its element with the link.                             *)
LEMMA LinkPublishes ==
  ASSUME RInv, QueueOK, QueueOK', NEW p \in Producers, PushLink(p)
  PROVE  Abs!Publish(p)
<1> USE DEF RInv, IInv
<1>1. /\ pc[p] = "link" /\ pc' = [pc EXCEPT ![p] = "idle"]
      /\ prev' = [prev EXCEPT ![p] = Null]
      /\ UNCHANGED <<order, val, cpc, got>>
  BY DEF PushLink, consumer
<1>2. PICK k \in 1..(Len(order) - 1) : prev[p] = order[k]
  BY <1>1 DEF PrevOK
<1>3. Len(order) \in Nat /\ order # <<>> /\ cpc # "dead"
  BY <1>2 DEF OrderOK, TypeOK
<1>4. /\ Taken' = Taken /\ Taken \in {0, 1} /\ Pending' = Pending
      /\ Pending = Len(order) - 1 - Taken
  BY <1>1, <1>3 DEF Taken, Pending
<1>5. cpc = "delete" => k # 1
  <2> SUFFICES ASSUME cpc = "delete", k = 1 PROVE FALSE
    OBVIOUS
  <2>1. order[1] = out_ /\ next[out_] = order[2] /\ order[2] \in Nodes
    BY <1>3 DEF OrderOK, First, ConsumerOK, TypeOK
  <2>2. next[order[1]] = Null
    BY <1>1, <1>2 DEF PrevOK
  <2> QED
    BY <2>1, <2>2, NullAssumption
<1> DEFINE j == k - Taken
           s == [AbsQueue EXCEPT ![j].by = Null]
<1>6. j \in 1..Pending /\ j + Taken = k
  BY <1>3, <1>4, <1>5 DEF Taken
<1>7. AbsQueue \in Seq(Entry) /\ Len(AbsQueue) = Pending /\ AbsQueue[j].by = p
  BY <1>1, <1>2, <1>6 DEF QueueOK
<1>8. AbsQueue[j] \in Entry
  BY <1>6, <1>7
<1>9. [AbsQueue[j] EXCEPT !.by = Null] \in Entry
  BY <1>8 DEF Entry
<1>10. /\ s \in Seq(Entry) /\ Len(s) = Pending
       /\ \A i \in 1..Pending : s[i] = IF i = j THEN [AbsQueue[j] EXCEPT !.by = Null]
                                       ELSE AbsQueue[i]
  BY <1>6, <1>7, <1>9, ExceptSeq
<1>11. ASSUME NEW i \in 1..Pending
       PROVE  /\ AbsQueue'[i].val = s[i].val
              /\ \A q \in Producers : AbsQueue'[i].by = q <=> s[i].by = q
  <2>1. /\ AbsQueue'[i].val = val[order[i + 1 + Taken]]
        /\ \A q \in Producers :
             AbsQueue'[i].by = q <=> pc'[q] = "link" /\ prev'[q] = order[i + Taken]
    BY <1>1, <1>4 DEF QueueOK
  <2>2. /\ AbsQueue[i].val = val[order[i + 1 + Taken]]
        /\ \A q \in Producers :
             AbsQueue[i].by = q <=> pc[q] = "link" /\ prev[q] = order[i + Taken]
    BY DEF QueueOK
  <2>3. CASE i = j
    <3>1. s[i].val = AbsQueue[i].val /\ s[i].by = Null
      BY <1>8, <1>10, <2>3 DEF Entry
    <3>2. \A q \in Producers : AbsQueue'[i].by # q
      BY <1>1, <1>6, <1>7, <2>1, <2>2, <2>3 DEF TypeOK
    <3> QED
      BY <2>1, <2>2, <3>1, <3>2, NullAssumption
  <2>4. CASE i # j
    <3>1. order[i + Taken] # prev[p]
      <4>1. i + Taken \in 1..Len(order) /\ k \in 1..Len(order) /\ i + Taken # k
        BY <1>3, <1>4, <2>4
      <4> QED
        BY <1>2, <4>1 DEF OrderOK
    <3>2. \A q \in Producers : pc'[q] = "link" /\ prev'[q] = order[i + Taken]
                                 <=> pc[q] = "link" /\ prev[q] = order[i + Taken]
      BY <1>1, <3>1 DEF TypeOK
    <3> QED
      BY <1>10, <2>1, <2>2, <2>4, <3>2
  <2> QED
    BY <2>3, <2>4
<1>12. AbsQueue' = s
  <2>1. AbsQueue' \in Seq(Entry) /\ Len(AbsQueue') = Pending /\ Pending \in Nat
    BY <1>4 DEF QueueOK
  <2> HIDE DEF s
  <2> QED
    BY <1>10, <1>11, <2>1, SameQueue
<1> QED
  BY <1>1, <1>6, <1>7, <1>12 DEF Abs!Publish

(* The consumer pops when it moves the value; clear() discards it.          *)
LEMMA MovePops ==
  ASSUME RInv, QueueOK, QueueOK', PopMove
  PROVE  Abs!Pop \/ Abs!Discard
<1> USE DEF RInv, IInv
<1>1. /\ cpc = "move" /\ cpc' = "delete"
      /\ got' = IF closing THEN got ELSE val[n]
      /\ UNCHANGED <<order, val, next, pc, prev>>
  BY DEF PopMove, producer
<1>2. /\ Len(order) \in Nat /\ Len(order) > 1 /\ n = order[2] /\ order[1] = out_
      /\ next[out_] = n /\ n \in Nodes
  BY <1>1 DEF ConsumerOK, OrderOK, First, TypeOK
<1>3. /\ Taken = 0 /\ Taken' = 1 /\ Pending = Len(order) - 1 /\ Pending' = Pending - 1
      /\ Pending > 0
  BY <1>1, <1>2 DEF Taken, Pending
<1>4. /\ AbsQueue \in Seq(Entry) /\ Len(AbsQueue) = Pending /\ AbsQueue # <<>>
  BY <1>2, <1>3, EmptySeq DEF QueueOK
<1>5. AbsQueue[1].val = val[n] /\ AbsQueue[1].by = Null
  <2>1. 1 \in 1..Pending
    BY <1>2, <1>3
  <2>2. AbsQueue[1] \in Entry
    BY <1>4, <2>1
  <2>3. \A p \in Producers : ~(pc[p] = "link" /\ prev[p] = out_)
    BY <1>2, NullAssumption DEF PrevOK
  <2>4. /\ AbsQueue[1].val = val[order[2]]
        /\ \A p \in Producers : AbsQueue[1].by = p <=> pc[p] = "link" /\ prev[p] = order[1]
    BY <1>3, <2>1 DEF QueueOK
  <2> QED
    BY <1>2, <2>2, <2>3, <2>4 DEF Entry
<1>6. /\ Tail(AbsQueue) \in Seq(Entry) /\ Len(Tail(AbsQueue)) = Pending - 1
      /\ \A i \in 1..(Pending - 1) : Tail(AbsQueue)[i] = AbsQueue[i + 1]
  BY <1>4, HeadTailProperties
<1>7. AbsQueue' = Tail(AbsQueue)
  <2>1. ASSUME NEW i \in 1..(Pending - 1)
        PROVE  /\ AbsQueue'[i].val = AbsQueue[i + 1].val
               /\ \A p \in Producers : AbsQueue'[i].by = p <=> AbsQueue[i + 1].by = p
    <3>1. /\ AbsQueue'[i].val = val[order[i + 1 + 1]]
          /\ \A p \in Producers : AbsQueue'[i].by = p <=> pc[p] = "link" /\ prev[p] = order[i + 1]
      BY <1>1, <1>3 DEF QueueOK
    <3>2. i + 1 \in 1..Pending /\ (i + 1) + 0 = i + 1
      BY <1>2, <1>3
    <3>3. /\ AbsQueue[i + 1].val = val[order[i + 1 + 1]]
          /\ \A p \in Producers :
               AbsQueue[i + 1].by = p <=> pc[p] = "link" /\ prev[p] = order[i + 1]
      BY <1>3, <3>2 DEF QueueOK
    <3> QED
      BY <3>1, <3>3
  <2>2. AbsQueue' \in Seq(Entry) /\ Len(AbsQueue') = Pending - 1 /\ Pending - 1 \in Nat
    BY <1>3 DEF QueueOK
  <2> DEFINE s == Tail(AbsQueue)
             k == Pending - 1
  <2>3. /\ s \in Seq(Entry) /\ Len(s) = k
        /\ \A i \in 1..k : /\ AbsQueue'[i].val = s[i].val
                           /\ \A p \in Producers : AbsQueue'[i].by = p <=> s[i].by = p
    BY <1>6, <2>1
  <2>4. AbsQueue' \in Seq(Entry) /\ Len(AbsQueue') = k /\ k \in Nat
    BY <2>2
  <2> HIDE DEF s, k
  <2>5. AbsQueue' = s
    BY <2>3, <2>4, SameQueue
  <2> QED
    BY <2>5 DEF s
<1> QED
  BY <1>1, <1>4, <1>5, <1>7 DEF Abs!Pop, Abs!Discard, Abs!CanPop

(* Freeing the old head does not change what is in the queue.               *)
LEMMA DeleteHides ==
  ASSUME RInv, QueueOK, QueueOK', PopDelete \/ DestroyLast
  PROVE  UNCHANGED Abs!vars
<1> USE DEF RInv, IInv
<1>1. order' = Tail(order) /\ UNCHANGED <<val, pc, prev, got>>
  BY DEF PopDelete, DestroyLast, producer
<1>2. order # <<>> /\ order \in Seq(Nodes) /\ Len(order) \in Nat
  BY DEF PopDelete, DestroyLast, OrderOK, TypeOK
<1>3. /\ Len(order') = Len(order) - 1
      /\ \A i \in 1..Len(order') : order'[i] = order[i + 1]
  BY <1>1, <1>2, HeadTailProperties
<1>4. CASE PopDelete
  <2>1. Taken = 1 /\ Taken' = 0 /\ Pending = Len(order) - 2 /\ Pending' = Pending
    BY <1>2, <1>3, <1>4 DEF PopDelete, Taken, Pending
  <2>2. ASSUME NEW i \in 1..Pending
        PROVE  /\ AbsQueue'[i].val = AbsQueue[i].val
               /\ \A p \in Producers : AbsQueue'[i].by = p <=> AbsQueue[i].by = p
    <3>1. i \in 1..Len(order') /\ i + 1 \in 1..Len(order')
      BY <1>2, <1>3, <2>1
    <3>2. order'[i + 0] = order[i + 1] /\ order'[i + 1 + 0] = order[i + 1 + 1]
      BY <1>3, <3>1
    <3>3. /\ AbsQueue'[i].val = val[order'[i + 1 + 0]]
          /\ \A p \in Producers :
               AbsQueue'[i].by = p <=> pc[p] = "link" /\ prev[p] = order'[i + 0]
      BY <1>1, <2>1 DEF QueueOK
    <3>4. /\ AbsQueue[i].val = val[order[i + 1 + 1]]
          /\ \A p \in Producers : AbsQueue[i].by = p <=> pc[p] = "link" /\ prev[p] = order[i + 1]
      BY <2>1 DEF QueueOK
    <3> QED
      BY <3>2, <3>3, <3>4
  <2>3. AbsQueue' = AbsQueue
    <3>1. /\ AbsQueue' \in Seq(Entry) /\ Len(AbsQueue') = Pending /\ Pending \in Nat
          /\ AbsQueue \in Seq(Entry) /\ Len(AbsQueue) = Pending
      BY <2>1 DEF QueueOK
    <3> QED
      BY <2>2, <3>1, SameQueue
  <2> QED
    BY <1>1, <2>3 DEF Abs!vars
<1>5. CASE DestroyLast
  <2>1. order[1] = order[Len(order)] /\ cpc = "idle" /\ cpc' = "dead"
    BY <1>2, <1>5 DEF DestroyLast, OrderOK, First
  <2>2. Len(order) = 1
    <3>1. 1 \in 1..Len(order) /\ Len(order) \in 1..Len(order)
      BY <1>2, EmptySeq
    <3> QED
      BY <2>1, <3>1 DEF OrderOK
  <2>3. Pending = 0 /\ Pending' = 0
    BY <2>1, <2>2 DEF Pending, Taken
  <2>4. AbsQueue' = AbsQueue
    BY <2>3, EmptySeq DEF QueueOK
  <2> QED
    BY <1>1, <2>4 DEF Abs!vars
<1> QED
  BY <1>4, <1>5

(* The allocation, the comparison, the load, the advance and the start of   *)
(* the destructor are hidden.                                               *)
LEMMA OthersHide ==
  ASSUME RInv, QueueOK, QueueOK',
         \/ \E p \in Producers : PushNew(p)
         \/ PopCompare \/ PopLoad \/ PopAdvance \/ Destroy
         \/ UNCHANGED vars
  PROVE  UNCHANGED Abs!vars
<1> USE DEF RInv, IInv
<1>1. UNCHANGED <<order, prev, got>> /\ (cpc = "dead" <=> cpc' = "dead") /\ Taken' = Taken
  BY DEF PushNew, PopCompare, PopLoad, PopAdvance, Destroy, vars, producer, consumer, Taken
<1>2. \A p \in Producers : pc'[p] = "link" <=> pc[p] = "link"
  BY DEF PushNew, PopCompare, PopLoad, PopAdvance, Destroy, vars, producer, TypeOK
<1>3. \A i \in 1..Len(order) : val'[order[i]] = val[order[i]]
  BY DEF PushNew, PopCompare, PopLoad, PopAdvance, Destroy, vars, HeapOK, TypeOK
<1>4. Pending' = Pending /\ Taken \in {0, 1} /\ Len(order) \in Nat
  BY <1>1 DEF Pending, Taken, TypeOK
<1>5. ASSUME NEW i \in 1..Pending
      PROVE  /\ AbsQueue'[i].val = AbsQueue[i].val
             /\ \A p \in Producers : AbsQueue'[i].by = p <=> AbsQueue[i].by = p
  <2>1. i + 1 + Taken \in 1..Len(order)
    BY <1>4 DEF Pending
  <2> QED
    BY <1>1, <1>2, <1>3, <1>4, <2>1 DEF QueueOK
<1>6. AbsQueue' = AbsQueue
  <2>1. /\ AbsQueue' \in Seq(Entry) /\ Len(AbsQueue') = Pending /\ Pending \in Nat
        /\ AbsQueue \in Seq(Entry) /\ Len(AbsQueue) = Pending
    BY <1>4 DEF QueueOK
  <2> QED
    BY <1>5, <2>1, SameQueue
<1> QED
  BY <1>1, <1>6 DEF Abs!vars

LEMMA Simulates == RInv /\ QueueOK /\ QueueOK' /\ [Next]_vars => [Abs!Next]_(Abs!vars)
<1> SUFFICES ASSUME RInv, QueueOK, QueueOK', [Next]_vars
             PROVE  Abs!Next \/ UNCHANGED Abs!vars
  OBVIOUS
<1>1. CASE \E p \in Producers : PushExchange(p)
  BY <1>1, ExchangeClaims DEF Abs!Next
<1>2. CASE \E p \in Producers : PushLink(p)
  BY <1>2, LinkPublishes DEF Abs!Next
<1>3. CASE PopMove
  BY <1>3, MovePops DEF Abs!Next
<1>4. CASE PopDelete \/ DestroyLast
  BY <1>4, DeleteHides
<1>5. CASE \/ \E p \in Producers : PushNew(p)
           \/ PopCompare \/ PopLoad \/ PopAdvance \/ Destroy
           \/ UNCHANGED vars
  BY <1>5, OthersHide
<1> QED
  BY <1>1, <1>2, <1>3, <1>4, <1>5 DEF Next, Push, Pop

(* The list implements the FIFO of EventFifo for any number of producers    *)
(* and nodes: push() takes effect with its exchange, becomes visible with   *)
(* its link, and pop() hands out every element once, in the order of the    *)
(* exchanges.                                                               *)
THEOREM Refinement == Spec => ImplementsFifo
<1>1. Init => Abs!Init
  <2> SUFFICES ASSUME Init PROVE AbsQueue = <<>> /\ got = None
    BY DEF Abs!Init
  <2>1. RInv
    BY InitIInv, InitPending DEF RInv
  <2>2. Len(AbsQueue) = 0 /\ AbsQueue \in Seq(Entry)
    BY <2>1, QueueIs DEF QueueOK, Pending, Taken, Init
  <2> QED
    BY <2>2, EmptySeq DEF Init
<1> QED
  BY <1>1, RefinementInvariant, QueueIs, Simulates, PTL DEF Spec, ImplementsFifo, Abs!Spec
=============================================================================
