------------------------- MODULE BlockingQueueProofs --------------------------
(****************************************************************************)
(* Safety of BlockingQueue for any number of threads, any marks and any     *)
(* number of calls: no wake-up is lost, producers and consumers never all   *)
(* sleep on each other, and the queue is a bounded FIFO.                    *)
(****************************************************************************)
EXTENDS BlockingQueue, FiniteSetTheorems, SequenceTheorems, TLAPS

(* The types of what a critical section may change.                         *)
CoreOK ==
  /\ queue_ \in Seq(Values) /\ size_ = Len(queue_)
  /\ pop_waiting_ \in BOOLEAN /\ push_waiting_ \in BOOLEAN
  /\ pc \in [Threads -> {"idle", "full", "full_for", "empty", "empty_for", "try_push",
                         "try_push_for", "try_pop", "try_pop_for"}]
  /\ full_ \subseteq {t \in Threads : pc[t] \in {"full", "full_for"}}
  /\ empty_ \subseteq {t \in Threads : pc[t] \in {"empty", "empty_for"}}
  /\ got \in [Threads -> Values \cup {Nothing}]

MarksOK == max_ \in Nat /\ min_ \in Nat /\ wake_push_ \in Nat /\ wait_min_ \in BOOLEAN

(* A thread within a push has something to push.                            *)
ArgOK ==
  \A t \in Threads :
    pc[t] \in {"full", "full_for", "try_push", "try_push_for"} => arg[t] \in Values

(* Calls are only spent.                                                    *)
LeftOK ==
  /\ left \in [Threads -> [Ops -> Nat]]
  /\ \A t \in Threads, op \in Ops : left[t][op] <= Quota[t][op]

(* NoLostElement and NoLostPlace while the marks stay where they are.  A    *)
(* producer is woken for a place only below the mark wake_push_.            *)
ElementsOK ==
  empty_ # {} => Len(queue_) <= WakeMin + Cardinality(WokenPop)

WakeLimit == IF max_ <= wake_push_ + 1 THEN max_ ELSE wake_push_ + 1

PlacesOK ==
  full_ # {} => WakeLimit - Len(queue_) <= Cardinality(WokenPush)

IInv ==
  /\ CoreOK /\ MarksOK /\ arg \in [Threads -> Values \cup {Nothing}] /\ ArgOK /\ LeftOK
  /\ MinUnmoved => ElementsOK
  /\ MaxUnmoved => PlacesOK

-----------------------------------------------------------------------------
(* notify_one() takes one sleeper away, if there is one.                    *)
LEMMA NotifyOneTakes ==
  ASSUME NEW S, NEW T \in NotifyOne(S)
  PROVE  \/ S = {} /\ T = {}
         \/ \E u \in S : T = S \ {u}
BY DEF NotifyOne

(* The sets of woken threads are finite, like the threads.                  *)
LEMMA WokenCount ==
  ASSUME NEW S \in SUBSET Threads
  PROVE  IsFiniteSet(S) /\ Cardinality(S) \in Nat
BY ThreadsAssumption, FS_Subset, FS_CardinalityType

(* A thread more is a count more; a subset counts no more.                  *)
LEMMA CountMore ==
  ASSUME NEW S \in SUBSET Threads, NEW T \in SUBSET Threads, NEW u \in T \ S,
         S \cup {u} \subseteq T
  PROVE  Cardinality(S) + 1 <= Cardinality(T)
<1>1. IsFiniteSet(S) /\ IsFiniteSet(T) /\ Cardinality(S) \in Nat /\ Cardinality(T) \in Nat
  BY WokenCount
<1>2. Cardinality(S \cup {u}) = Cardinality(S) + 1
  BY <1>1, FS_AddElement
<1>3. Cardinality(S \cup {u}) <= Cardinality(T)
  BY <1>1, FS_Subset
<1> QED
  BY <1>1, <1>2, <1>3

(* A larger set of threads counts no less.                                *)
LEMMA CountNoLess ==
  ASSUME NEW S \in SUBSET Threads, NEW T \in SUBSET Threads, S \subseteq T
  PROVE  Cardinality(S) <= Cardinality(T)
BY WokenCount, FS_Subset

(* A set that loses at most the thread t counts at most one less.          *)
LEMMA CountOneLess ==
  ASSUME NEW S \in SUBSET Threads, NEW T \in SUBSET Threads, NEW t, S \ {t} \subseteq T
  PROVE  Cardinality(S) - 1 <= Cardinality(T)
<1>1. IsFiniteSet(S) /\ Cardinality(S) \in Nat /\ Cardinality(T) \in Nat
  BY WokenCount
<1>2. Cardinality(S \ {t}) \in {Cardinality(S), Cardinality(S) - 1}
  BY <1>1, FS_RemoveElement
<1>3. Cardinality(S \ {t}) <= Cardinality(T)
  BY CountNoLess
<1> QED
  BY <1>1, <1>2, <1>3

-----------------------------------------------------------------------------
(* A call spends one of the quota; a mark that has not moved has not been   *)
(* asked to.                                                                *)
LEMMA BeginSpends ==
  ASSUME LeftOK, NEW t \in Threads, NEW op \in Ops, Begin(t, op)
  PROVE  /\ LeftOK'
         /\ MinUnmoved' => MinUnmoved /\ op \notin {"setMin", "setWaitForMin"}
         /\ MaxUnmoved' => MaxUnmoved /\ op \notin {"setMax", "setWakePush"}
<1> USE QueueQuotaAssumption
<1>1. left' = [left EXCEPT ![t] = [left[t] EXCEPT ![op] = left[t][op] - 1]] /\ left[t][op] > 0
  BY DEF Begin
<1>2. left' \in [Threads -> [Ops -> Nat]]
  BY <1>1 DEF LeftOK
<1>3. \A u \in Threads, o \in Ops :
         left'[u][o] = IF u = t /\ o = op THEN left[u][o] - 1 ELSE left[u][o]
  BY <1>1 DEF LeftOK
<1>4. LeftOK'
  <2>1. \A u \in Threads, o \in Ops : left'[u][o] <= Quota[u][o]
    BY <1>3 DEF LeftOK
  <2> QED
    BY <1>2, <2>1 DEF LeftOK
<1>5. \A u \in Threads, o \in Ops : left'[u][o] = Quota[u][o] =>
         left[u][o] = Quota[u][o] /\ ~(u = t /\ o = op)
  BY <1>3 DEF LeftOK
<1>6. {"setMin", "setWaitForMin"} \subseteq Ops /\ {"setMax", "setWakePush"} \subseteq Ops
  BY DEF Ops
<1>7. MinUnmoved' => MinUnmoved /\ op \notin {"setMin", "setWaitForMin"}
  BY <1>5, <1>6 DEF MinUnmoved, Unmoved
<1>8. MaxUnmoved' => MaxUnmoved /\ op \notin {"setMax", "setWakePush"}
  BY <1>5, <1>6 DEF MaxUnmoved, Unmoved
<1> QED
  BY <1>4, <1>7, <1>8

(* Who goes on with a call he is in spends nothing.                         *)
LEMMA LeftKept ==
  ASSUME LeftOK, UNCHANGED left
  PROVE  LeftOK' /\ (MinUnmoved' => MinUnmoved) /\ (MaxUnmoved' => MaxUnmoved)
BY DEF LeftOK, MinUnmoved, MaxUnmoved, Unmoved

-----------------------------------------------------------------------------
(* The end of a push.                                                       *)
LEMMA PutKeeps ==
  ASSUME CoreOK, MarksOK, UNCHANGED settings,
         NEW t \in Threads, NEW v \in Values, NEW sleepers,
         pc[t] \notin {"empty", "empty_for"},
         sleepers = full_ \ {t},
         Put(t, v, sleepers)
  PROVE  /\ CoreOK'
         /\ ElementsOK => ElementsOK'
         /\ PlacesOK => PlacesOK'
<1>1. /\ push_waiting_' = FALSE /\ queue_' = Append(queue_, v)
      /\ size_' = size_ + 1 /\ full_' = full_ \ {t}
      /\ pc' = [pc EXCEPT ![t] = "idle"] /\ got' = got
  BY DEF Put, Goto
<1>2. \/ WakesPop(size_') /\ empty_' \in NotifyOne(empty_)
      \/ ~WakesPop(size_') /\ empty_' = empty_
  BY DEF Put
<1>3. empty_' \subseteq empty_
  BY <1>2, NotifyOneTakes
<1>4. queue_' \in Seq(Values) /\ Len(queue_') = Len(queue_) + 1 /\ Len(queue_) \in Nat
  BY <1>1, AppendProperties, LenProperties DEF CoreOK
<1>5. pop_waiting_' \in BOOLEAN
  BY DEF Put, CoreOK
<1>6. CoreOK'
  BY <1>1, <1>3, <1>4, <1>5 DEF CoreOK
<1>7. WakeMin' = WakeMin /\ WakeLimit' = WakeLimit /\ WakeMin \in Nat /\ WakeLimit \in Nat
  BY DEF WakeMin, WakeLimit, settings, MarksOK
<1>8. /\ WokenPop \in SUBSET Threads /\ WokenPop' \in SUBSET Threads
      /\ WokenPush \in SUBSET Threads /\ WokenPush' \in SUBSET Threads
  BY DEF WokenPop, WokenPush
<1>9. ElementsOK => ElementsOK'
  <2> SUFFICES ASSUME ElementsOK, empty_' # {}
               PROVE  Len(queue_') <= WakeMin' + Cardinality(WokenPop')
    BY DEF ElementsOK
  <2>1. Len(queue_) <= WakeMin + Cardinality(WokenPop)
    BY <1>3 DEF ElementsOK
  <2>2. CASE WakesPop(size_')
    <3>1. PICK u \in empty_ : empty_' = empty_ \ {u}
      BY <1>2, <2>2, NotifyOneTakes
    <3>2. u \in WokenPop' \ WokenPop /\ WokenPop \cup {u} \subseteq WokenPop'
      BY <1>1, <3>1 DEF WokenPop, CoreOK
    <3>3. Cardinality(WokenPop) + 1 <= Cardinality(WokenPop')
      BY <1>8, <3>2, CountMore
    <3> QED
      BY <1>4, <1>7, <1>8, <2>1, <3>3, WokenCount
  <2>3. CASE ~WakesPop(size_')
    <3>1. Len(queue_') <= WakeMin
      BY <1>1, <1>4, <2>3 DEF WakesPop, WakeMin, CoreOK, MarksOK
    <3> QED
      BY <1>4, <1>7, <1>8, <3>1, WokenCount
  <2> QED
    BY <2>2, <2>3
<1>10. PlacesOK => PlacesOK'
  <2> SUFFICES ASSUME PlacesOK, full_' # {}
               PROVE  WakeLimit' - Len(queue_') <= Cardinality(WokenPush')
    BY DEF PlacesOK
  <2>1. WakeLimit - Len(queue_) <= Cardinality(WokenPush)
    BY <1>1 DEF PlacesOK
  <2>2. WokenPush \ {t} \subseteq WokenPush'
    BY <1>1 DEF WokenPush, CoreOK
  <2>3. Cardinality(WokenPush) - 1 <= Cardinality(WokenPush')
    BY <1>8, <2>2, CountOneLess
  <2> QED
    BY <1>4, <1>7, <1>8, <2>1, <2>3, WokenCount
<1> QED
  BY <1>6, <1>9, <1>10

(* The end of a pop.                                                        *)
LEMMA TakeKeeps ==
  ASSUME CoreOK, MarksOK, UNCHANGED settings,
         NEW t \in Threads, NEW sleepers,
         pc[t] \notin {"full", "full_for"},
         sleepers = empty_ \ {t},
         ~IsEmpty, Take(t, sleepers)
  PROVE  /\ CoreOK'
         /\ ElementsOK => ElementsOK'
         /\ PlacesOK => PlacesOK'
<1>1. /\ queue_' = Tail(queue_) /\ got' = [got EXCEPT ![t] = Head(queue_)]
      /\ size_' = size_ - 1 /\ empty_' = empty_ \ {t}
      /\ pc' = [pc EXCEPT ![t] = "idle"]
  BY DEF Take, Goto
<1>2. \/ WakesPush(size_') /\ full_' \in NotifyOne(full_)
      \/ ~WakesPush(size_') /\ full_' = full_
  BY DEF Take
<1>3. full_' \subseteq full_
  BY <1>2, NotifyOneTakes
<1>4. /\ queue_' \in Seq(Values) /\ Len(queue_') = Len(queue_) - 1
      /\ Len(queue_) \in Nat \ {0} /\ Head(queue_) \in Values
  BY <1>1, HeadTailProperties, EmptySeq DEF CoreOK, IsEmpty
<1>5. pop_waiting_' \in BOOLEAN /\ push_waiting_' \in BOOLEAN
  BY DEF Take, CoreOK
<1>6. CoreOK'
  BY <1>1, <1>3, <1>4, <1>5 DEF CoreOK
<1>7. WakeMin' = WakeMin /\ WakeLimit' = WakeLimit /\ WakeMin \in Nat /\ WakeLimit \in Nat
  BY DEF WakeMin, WakeLimit, settings, MarksOK
<1>8. /\ WokenPop \in SUBSET Threads /\ WokenPop' \in SUBSET Threads
      /\ WokenPush \in SUBSET Threads /\ WokenPush' \in SUBSET Threads
  BY DEF WokenPop, WokenPush
<1>9. ElementsOK => ElementsOK'
  <2> SUFFICES ASSUME ElementsOK, empty_' # {}
               PROVE  Len(queue_') <= WakeMin' + Cardinality(WokenPop')
    BY DEF ElementsOK
  <2>1. Len(queue_) <= WakeMin + Cardinality(WokenPop)
    BY <1>1 DEF ElementsOK
  <2>2. WokenPop \ {t} \subseteq WokenPop'
    BY <1>1 DEF WokenPop, CoreOK
  <2>3. Cardinality(WokenPop) - 1 <= Cardinality(WokenPop')
    BY <1>8, <2>2, CountOneLess
  <2> QED
    BY <1>4, <1>7, <1>8, <2>1, <2>3, WokenCount
<1>10. PlacesOK => PlacesOK'
  <2> SUFFICES ASSUME PlacesOK, full_' # {}
               PROVE  WakeLimit' - Len(queue_') <= Cardinality(WokenPush')
    BY DEF PlacesOK
  <2>1. WakeLimit - Len(queue_) <= Cardinality(WokenPush)
    BY <1>3 DEF PlacesOK
  <2>2. CASE WakesPush(size_')
    <3>1. PICK u \in full_ : full_' = full_ \ {u}
      BY <1>2, <2>2, NotifyOneTakes
    <3>2. u \in WokenPush' \ WokenPush /\ WokenPush \cup {u} \subseteq WokenPush'
      BY <1>1, <3>1 DEF WokenPush, CoreOK
    <3>3. Cardinality(WokenPush) + 1 <= Cardinality(WokenPush')
      BY <1>8, <3>2, CountMore
    <3> QED
      BY <1>4, <1>7, <1>8, <2>1, <3>3, WokenCount
  <2>3. CASE ~WakesPush(size_')
    <3>1. WakeLimit <= Len(queue_')
      BY <1>1, <1>4, <2>3 DEF WakesPush, WakeLimit, CoreOK, MarksOK
    <3> QED
      BY <1>4, <1>7, <1>8, <3>1, WokenCount
  <2> QED
    BY <2>2, <2>3
<1> QED
  BY <1>6, <1>9, <1>10

(* A step that neither adds nor takes an element: who falls asleep does so  *)
(* on an empty or on a full queue; who wakes up joins the woken ones.       *)
LEMMA ElementsKept ==
  ASSUME CoreOK, MarksOK, UNCHANGED <<queue_, min_, wait_min_>>, ElementsOK,
         IsEmpty \/ (empty_' \subseteq empty_ /\ WokenPop \subseteq WokenPop')
  PROVE  ElementsOK'
<1>1. WokenPop \in SUBSET Threads /\ WokenPop' \in SUBSET Threads
  BY DEF WokenPop
<1>2. Cardinality(WokenPop) \in Nat /\ Cardinality(WokenPop') \in Nat
  BY <1>1, WokenCount
<1>3. WakeMin \in Nat /\ WakeMin' = WakeMin /\ Len(queue_) \in Nat
  BY LenProperties DEF WakeMin, MarksOK, CoreOK
<1>4. CASE IsEmpty
  BY <1>2, <1>3, <1>4, EmptySeq DEF IsEmpty, ElementsOK
<1>5. CASE empty_' \subseteq empty_ /\ WokenPop \subseteq WokenPop'
  <2>1. Cardinality(WokenPop) <= Cardinality(WokenPop')
    BY <1>1, <1>5, CountNoLess
  <2> QED
    BY <1>2, <1>3, <1>5, <2>1 DEF ElementsOK
<1> QED
  BY <1>4, <1>5

(* The same for the free places and the producers.                          *)
LEMMA PlacesKept ==
  ASSUME CoreOK, MarksOK, UNCHANGED <<queue_, max_, wake_push_>>, PlacesOK,
         IsFull \/ (full_' \subseteq full_ /\ WokenPush \subseteq WokenPush')
  PROVE  PlacesOK'
<1>1. WokenPush \in SUBSET Threads /\ WokenPush' \in SUBSET Threads
  BY DEF WokenPush
<1>2. Cardinality(WokenPush) \in Nat /\ Cardinality(WokenPush') \in Nat
  BY <1>1, WokenCount
<1>3. WakeLimit \in Nat /\ WakeLimit' = WakeLimit /\ Len(queue_) \in Nat /\ WakeLimit <= max_
  BY LenProperties DEF WakeLimit, MarksOK, CoreOK
<1>4. CASE IsFull
  BY <1>2, <1>3, <1>4 DEF IsFull, PlacesOK, MarksOK
<1>5. CASE full_' \subseteq full_ /\ WokenPush \subseteq WokenPush'
  <2>1. Cardinality(WokenPush) <= Cardinality(WokenPush')
    BY <1>1, <1>5, CountNoLess
  <2> QED
    BY <1>2, <1>3, <1>5, <2>1 DEF PlacesOK
<1> QED
  BY <1>4, <1>5

-----------------------------------------------------------------------------
(* The queue starts empty, with nobody asleep.                              *)
LEMMA InitIInv == Init => IInv
<1> SUFFICES ASSUME Init PROVE IInv
  OBVIOUS
<1>1. CoreOK
  BY EmptySeq DEF Init, CoreOK
<1>2. MarksOK
  BY SettingsAssumption DEF Init, MarksOK
<1>3. arg \in [Threads -> Values \cup {Nothing}] /\ ArgOK
  BY DEF Init, ArgOK
<1>4. LeftOK
  BY QueueQuotaAssumption DEF Init, LeftOK
<1>5. ElementsOK /\ PlacesOK
  BY DEF Init, ElementsOK, PlacesOK
<1> QED
  BY <1>1, <1>2, <1>3, <1>4, <1>5 DEF IInv

(* push(), and the two ways to go on after a wait: a producer puts its      *)
(* element into a queue that is not full, or sleeps on a full one.          *)
LEMMA PushStep ==
  ASSUME IInv, NEW t \in Threads, NEW v \in Values, Push(t, v)
  PROVE  IInv'
<1> USE DEF IInv
<1>1. LeftOK' /\ (MinUnmoved' => MinUnmoved) /\ (MaxUnmoved' => MaxUnmoved)
  BY BeginSpends DEF Push, Ops
<1>2. MarksOK' /\ UNCHANGED settings
  BY DEF Push, settings, MarksOK
<1>3. arg' = [arg EXCEPT ![t] = v] /\ pc[t] = "idle" /\ t \notin full_
  BY DEF Push, Begin, CoreOK
<1>4. CASE Put(t, v, full_)
  <2>1. full_ = full_ \ {t}
    BY <1>3
  <2>2. CoreOK' /\ (ElementsOK => ElementsOK') /\ (PlacesOK => PlacesOK')
    BY <1>2, <1>3, <1>4, <2>1, PutKeeps
  <2>3. arg' \in [Threads -> Values \cup {Nothing}] /\ ArgOK'
    BY <1>3, <1>4 DEF Put, Goto, CoreOK, ArgOK
  <2> QED
    BY <1>1, <1>2, <2>2, <2>3
<1>5. CASE IsFull /\ SleepFull(t, "full")
  <2>1. CoreOK'
    BY <1>3, <1>5 DEF SleepFull, Goto, CoreOK
  <2>2. arg' \in [Threads -> Values \cup {Nothing}] /\ ArgOK'
    BY <1>3, <1>5 DEF SleepFull, Goto, CoreOK, ArgOK
  <2>3. ElementsOK => ElementsOK'
    <3>1. empty_' \subseteq empty_ /\ WokenPop \subseteq WokenPop'
      BY <1>3, <1>5 DEF SleepFull, Goto, CoreOK, WokenPop
    <3> QED
      BY <1>2, <1>5, <3>1, ElementsKept DEF SleepFull, settings
  <2>4. PlacesOK => PlacesOK'
    BY <1>2, <1>5, PlacesKept DEF SleepFull, settings
  <2> QED
    BY <1>1, <1>2, <2>1, <2>2, <2>3, <2>4
<1> QED
  BY <1>4, <1>5 DEF Push

(* A woken producer tests the predicate of full_.wait() again.              *)
LEMMA PushWakeStep ==
  ASSUME IInv, NEW t \in Threads, PushWake(t)
  PROVE  IInv'
<1> USE DEF IInv
<1>1. /\ LeftOK' /\ (MinUnmoved' => MinUnmoved) /\ (MaxUnmoved' => MaxUnmoved)
      /\ MarksOK' /\ UNCHANGED settings /\ UNCHANGED arg
  BY LeftKept DEF PushWake, settings, MarksOK
<1>2. pc[t] \in {"full", "full_for"} /\ t \notin full_ /\ arg[t] \in Values
  BY DEF PushWake, ArgOK
<1>3. CASE Put(t, arg[t], full_)
  <2>1. full_ = full_ \ {t}
    BY <1>2
  <2>2. CoreOK' /\ (ElementsOK => ElementsOK') /\ (PlacesOK => PlacesOK')
    BY <1>1, <1>2, <1>3, <2>1, PutKeeps
  <2>3. ArgOK'
    BY <1>1, <1>3 DEF Put, Goto, CoreOK, ArgOK
  <2> QED
    BY <1>1, <2>2, <2>3
<1>4. CASE /\ IsFull /\ full_' = full_ \cup {t}
           /\ UNCHANGED <<queue_, size_, pop_waiting_, push_waiting_, empty_, pc, got>>
  <2>1. CoreOK' /\ ArgOK'
    BY <1>1, <1>2, <1>4 DEF CoreOK, ArgOK
  <2>2. ElementsOK => ElementsOK'
    <3>1. empty_' \subseteq empty_ /\ WokenPop \subseteq WokenPop'
      BY <1>4 DEF WokenPop
    <3> QED
      BY <1>1, <1>4, <3>1, ElementsKept DEF settings
  <2>3. PlacesOK => PlacesOK'
    BY <1>1, <1>4, PlacesKept DEF settings
  <2> QED
    BY <1>1, <2>1, <2>2, <2>3
<1> QED
  BY <1>3, <1>4 DEF PushWake

(* tryPush() with the mutex: without a timeout it gives up on a full queue. *)
LEMMA TryPushLockedStep ==
  ASSUME IInv, NEW t \in Threads, TryPushLocked(t)
  PROVE  IInv'
<1> USE DEF IInv
<1>1. /\ LeftOK' /\ (MinUnmoved' => MinUnmoved) /\ (MaxUnmoved' => MaxUnmoved)
      /\ MarksOK' /\ UNCHANGED settings /\ UNCHANGED arg
  BY LeftKept DEF TryPushLocked, settings, MarksOK
<1>2. pc[t] \in {"try_push", "try_push_for"} /\ t \notin full_ /\ arg[t] \in Values
  BY DEF TryPushLocked, ArgOK, CoreOK
<1>3. CASE Put(t, arg[t], full_)
  <2>1. full_ = full_ \ {t}
    BY <1>2
  <2>2. CoreOK' /\ (ElementsOK => ElementsOK') /\ (PlacesOK => PlacesOK')
    BY <1>1, <1>2, <1>3, <2>1, PutKeeps
  <2>3. ArgOK'
    BY <1>1, <1>3 DEF Put, Goto, CoreOK, ArgOK
  <2> QED
    BY <1>1, <2>2, <2>3
<1>4. CASE IsFull /\ ~Put(t, arg[t], full_)
  <2>1. \/ SleepFull(t, "full_for")
        \/ /\ push_waiting_' = TRUE /\ Goto(t, "idle")
           /\ UNCHANGED <<queue_, size_, pop_waiting_, full_, empty_, got>>
    BY <1>4 DEF TryPushLocked
  <2>2. CoreOK' /\ ArgOK'
    BY <1>1, <1>2, <2>1 DEF SleepFull, Goto, CoreOK, ArgOK
  <2>3. ElementsOK => ElementsOK'
    <3>1. empty_' \subseteq empty_ /\ WokenPop \subseteq WokenPop'
      BY <1>2, <2>1 DEF SleepFull, Goto, CoreOK, WokenPop
    <3>2. UNCHANGED queue_
      BY <2>1 DEF SleepFull
    <3> QED
      BY <1>1, <3>1, <3>2, ElementsKept DEF settings
  <2>4. PlacesOK => PlacesOK'
    <3>1. UNCHANGED queue_
      BY <2>1 DEF SleepFull
    <3> QED
      BY <1>1, <1>4, <3>1, PlacesKept DEF settings
  <2> QED
    BY <1>1, <2>2, <2>3, <2>4
<1> QED
  BY <1>3, <1>4 DEF TryPushLocked

(* wait_for() on full_ is over: the producer puts its element or gives up.  *)
LEMMA PushTimeoutStep ==
  ASSUME IInv, NEW t \in Threads, PushTimeout(t)
  PROVE  IInv'
<1> USE DEF IInv
<1>1. /\ LeftOK' /\ (MinUnmoved' => MinUnmoved) /\ (MaxUnmoved' => MaxUnmoved)
      /\ MarksOK' /\ UNCHANGED settings /\ UNCHANGED arg
  BY LeftKept DEF PushTimeout, settings, MarksOK
<1>2. pc[t] = "full_for" /\ arg[t] \in Values
  BY DEF PushTimeout, ArgOK
<1>3. CASE Put(t, arg[t], full_ \ {t})
  <2>1. CoreOK' /\ (ElementsOK => ElementsOK') /\ (PlacesOK => PlacesOK')
    BY <1>1, <1>2, <1>3, PutKeeps
  <2>2. ArgOK'
    BY <1>1, <1>3 DEF Put, Goto, CoreOK, ArgOK
  <2> QED
    BY <1>1, <2>1, <2>2
<1>4. CASE /\ IsFull /\ full_' = full_ \ {t} /\ Goto(t, "idle")
           /\ UNCHANGED <<queue_, size_, pop_waiting_, push_waiting_, empty_, got>>
  <2>1. CoreOK' /\ ArgOK'
    BY <1>1, <1>2, <1>4 DEF Goto, CoreOK, ArgOK
  <2>2. ElementsOK => ElementsOK'
    <3>1. empty_' \subseteq empty_ /\ WokenPop \subseteq WokenPop'
      BY <1>2, <1>4 DEF Goto, CoreOK, WokenPop
    <3> QED
      BY <1>1, <1>4, <3>1, ElementsKept DEF settings
  <2>3. PlacesOK => PlacesOK'
    BY <1>1, <1>4, PlacesKept DEF settings
  <2> QED
    BY <1>1, <2>1, <2>2, <2>3
<1> QED
  BY <1>3, <1>4 DEF PushTimeout

(* The try variants before they lock: only the thread itself moves.         *)
LEMMA TryStep ==
  ASSUME IInv, NEW t \in Threads,
         \/ \E v \in Values : TryPush(t, v) \/ TryPushFor(t, v)
         \/ TryPop(t) \/ TryPopFor(t)
  PROVE  IInv'
<1> USE DEF IInv
<1>1. PICK op \in {"tryPush", "tryPushFor", "tryPop", "tryPopFor"},
           l \in {"idle", "try_push", "try_push_for", "try_pop", "try_pop_for"} :
         Begin(t, op) /\ Goto(t, l)
  BY DEF TryPush, TryPushFor, TryPop, TryPopFor
<1>2. UNCHANGED <<queue_, size_, settings, pop_waiting_, push_waiting_, full_, empty_, got>>
  BY DEF TryPush, TryPushFor, TryPop, TryPopFor, settings
<1>3. \/ \E v \in Values : arg' = [arg EXCEPT ![t] = v]
      \/ UNCHANGED arg /\ l \in {"idle", "try_pop", "try_pop_for"}
  BY <1>1 DEF TryPush, TryPushFor, TryPop, TryPopFor, Goto, CoreOK
<1>4. LeftOK' /\ (MinUnmoved' => MinUnmoved) /\ (MaxUnmoved' => MaxUnmoved)
  BY <1>1, BeginSpends DEF Ops
<1>5. MarksOK'
  BY <1>2 DEF settings, MarksOK
<1>6. pc[t] = "idle" /\ pc' = [pc EXCEPT ![t] = l]
  BY <1>1 DEF Begin, Goto
<1>7. CoreOK'
  BY <1>2, <1>6 DEF CoreOK
<1>8. arg' \in [Threads -> Values \cup {Nothing}] /\ ArgOK'
  BY <1>3, <1>6 DEF ArgOK, CoreOK
<1>9. ElementsOK => ElementsOK'
  <2>1. empty_' \subseteq empty_ /\ WokenPop \subseteq WokenPop'
    BY <1>2, <1>6 DEF WokenPop, CoreOK
  <2> QED
    BY <1>2, <2>1, ElementsKept DEF settings
<1>10. PlacesOK => PlacesOK'
  <2>1. full_' \subseteq full_ /\ WokenPush \subseteq WokenPush'
    BY <1>2, <1>6 DEF WokenPush, CoreOK
  <2> QED
    BY <1>2, <2>1, PlacesKept DEF settings
<1> QED
  BY <1>4, <1>5, <1>7, <1>8, <1>9, <1>10

(* pop(), and the two ways to go on after a wait.                           *)
LEMMA PopStep ==
  ASSUME IInv, NEW t \in Threads, Pop(t)
  PROVE  IInv'
<1> USE DEF IInv
<1>1. LeftOK' /\ (MinUnmoved' => MinUnmoved) /\ (MaxUnmoved' => MaxUnmoved)
  BY BeginSpends DEF Pop, Ops
<1>2. MarksOK' /\ UNCHANGED settings /\ UNCHANGED arg
  BY DEF Pop, settings, MarksOK
<1>3. pc[t] = "idle" /\ t \notin empty_
  BY DEF Pop, Begin, CoreOK
<1>4. CASE ~IsEmpty /\ Take(t, empty_)
  <2>1. empty_ = empty_ \ {t}
    BY <1>3
  <2>2. CoreOK' /\ (ElementsOK => ElementsOK') /\ (PlacesOK => PlacesOK')
    BY <1>2, <1>3, <1>4, <2>1, TakeKeeps
  <2>3. ArgOK'
    BY <1>2, <1>4 DEF Take, Goto, CoreOK, ArgOK
  <2> QED
    BY <1>1, <1>2, <2>2, <2>3
<1>5. CASE IsEmpty /\ SleepEmpty(t, "empty")
  <2>1. CoreOK' /\ ArgOK'
    BY <1>2, <1>3, <1>5 DEF SleepEmpty, Goto, CoreOK, ArgOK
  <2>2. ElementsOK => ElementsOK'
    BY <1>2, <1>5, ElementsKept DEF SleepEmpty, settings
  <2>3. PlacesOK => PlacesOK'
    <3>1. full_' \subseteq full_ /\ WokenPush \subseteq WokenPush'
      BY <1>3, <1>5 DEF SleepEmpty, Goto, CoreOK, WokenPush
    <3> QED
      BY <1>2, <1>5, <3>1, PlacesKept DEF SleepEmpty, settings
  <2> QED
    BY <1>1, <1>2, <2>1, <2>2, <2>3
<1> QED
  BY <1>4, <1>5 DEF Pop

(* A woken consumer tests the predicate of empty_.wait() again.             *)
LEMMA PopWakeStep ==
  ASSUME IInv, NEW t \in Threads, PopWake(t)
  PROVE  IInv'
<1> USE DEF IInv
<1>1. /\ LeftOK' /\ (MinUnmoved' => MinUnmoved) /\ (MaxUnmoved' => MaxUnmoved)
      /\ MarksOK' /\ UNCHANGED settings /\ UNCHANGED arg
  BY LeftKept DEF PopWake, settings, MarksOK
<1>2. pc[t] \in {"empty", "empty_for"} /\ t \notin empty_
  BY DEF PopWake
<1>3. CASE ~IsEmpty /\ Take(t, empty_)
  <2>1. empty_ = empty_ \ {t}
    BY <1>2
  <2>2. CoreOK' /\ (ElementsOK => ElementsOK') /\ (PlacesOK => PlacesOK')
    BY <1>1, <1>2, <1>3, <2>1, TakeKeeps
  <2>3. ArgOK'
    BY <1>1, <1>3 DEF Take, Goto, CoreOK, ArgOK
  <2> QED
    BY <1>1, <2>2, <2>3
<1>4. CASE /\ IsEmpty /\ empty_' = empty_ \cup {t}
           /\ UNCHANGED <<queue_, size_, pop_waiting_, push_waiting_, full_, pc, got>>
  <2>1. CoreOK' /\ ArgOK'
    BY <1>1, <1>2, <1>4 DEF CoreOK, ArgOK
  <2>2. ElementsOK => ElementsOK'
    BY <1>1, <1>4, ElementsKept DEF settings
  <2>3. PlacesOK => PlacesOK'
    <3>1. full_' \subseteq full_ /\ WokenPush \subseteq WokenPush'
      BY <1>4 DEF WokenPush
    <3> QED
      BY <1>1, <1>4, <3>1, PlacesKept DEF settings
  <2> QED
    BY <1>1, <2>1, <2>2, <2>3
<1> QED
  BY <1>3, <1>4 DEF PopWake

(* tryPop() with the mutex: without a timeout it gives up on an empty queue.*)
LEMMA TryPopLockedStep ==
  ASSUME IInv, NEW t \in Threads, TryPopLocked(t)
  PROVE  IInv'
<1> USE DEF IInv
<1>1. /\ LeftOK' /\ (MinUnmoved' => MinUnmoved) /\ (MaxUnmoved' => MaxUnmoved)
      /\ MarksOK' /\ UNCHANGED settings /\ UNCHANGED arg
  BY LeftKept DEF TryPopLocked, settings, MarksOK
<1>2. pc[t] \in {"try_pop", "try_pop_for"} /\ t \notin empty_
  BY DEF TryPopLocked, CoreOK
<1>3. CASE ~IsEmpty /\ Take(t, empty_)
  <2>1. empty_ = empty_ \ {t}
    BY <1>2
  <2>2. CoreOK' /\ (ElementsOK => ElementsOK') /\ (PlacesOK => PlacesOK')
    BY <1>1, <1>2, <1>3, <2>1, TakeKeeps
  <2>3. ArgOK'
    BY <1>1, <1>3 DEF Take, Goto, CoreOK, ArgOK
  <2> QED
    BY <1>1, <2>2, <2>3
<1>4. CASE IsEmpty
  <2>1. \/ SleepEmpty(t, "empty_for")
        \/ /\ pop_waiting_' = TRUE /\ Goto(t, "idle")
           /\ UNCHANGED <<queue_, size_, push_waiting_, full_, empty_, got>>
    BY <1>4 DEF TryPopLocked
  <2>2. CoreOK' /\ ArgOK'
    BY <1>1, <1>2, <2>1 DEF SleepEmpty, Goto, CoreOK, ArgOK
  <2>3. UNCHANGED queue_
    BY <2>1 DEF SleepEmpty
  <2>4. ElementsOK => ElementsOK'
    BY <1>1, <1>4, <2>3, ElementsKept DEF settings
  <2>5. PlacesOK => PlacesOK'
    <3>1. full_' \subseteq full_ /\ WokenPush \subseteq WokenPush'
      BY <1>2, <2>1 DEF SleepEmpty, Goto, CoreOK, WokenPush
    <3> QED
      BY <1>1, <2>3, <3>1, PlacesKept DEF settings
  <2> QED
    BY <1>1, <2>2, <2>4, <2>5
<1> QED
  BY <1>3, <1>4 DEF TryPopLocked

(* wait_for() on empty_ is over: the consumer takes an element or gives up. *)
LEMMA PopTimeoutStep ==
  ASSUME IInv, NEW t \in Threads, PopTimeout(t)
  PROVE  IInv'
<1> USE DEF IInv
<1>1. /\ LeftOK' /\ (MinUnmoved' => MinUnmoved) /\ (MaxUnmoved' => MaxUnmoved)
      /\ MarksOK' /\ UNCHANGED settings /\ UNCHANGED arg
  BY LeftKept DEF PopTimeout, settings, MarksOK
<1>2. pc[t] = "empty_for"
  BY DEF PopTimeout
<1>3. CASE ~IsEmpty /\ Take(t, empty_ \ {t})
  <2>1. CoreOK' /\ (ElementsOK => ElementsOK') /\ (PlacesOK => PlacesOK')
    BY <1>1, <1>2, <1>3, TakeKeeps
  <2>2. ArgOK'
    BY <1>1, <1>3 DEF Take, Goto, CoreOK, ArgOK
  <2> QED
    BY <1>1, <2>1, <2>2
<1>4. CASE /\ IsEmpty /\ empty_' = empty_ \ {t} /\ Goto(t, "idle")
           /\ UNCHANGED <<queue_, size_, pop_waiting_, push_waiting_, full_, got>>
  <2>1. CoreOK' /\ ArgOK'
    BY <1>1, <1>2, <1>4 DEF Goto, CoreOK, ArgOK
  <2>2. ElementsOK => ElementsOK'
    BY <1>1, <1>4, ElementsKept DEF settings
  <2>3. PlacesOK => PlacesOK'
    <3>1. full_' \subseteq full_ /\ WokenPush \subseteq WokenPush'
      BY <1>2, <1>4 DEF Goto, CoreOK, WokenPush
    <3> QED
      BY <1>1, <1>4, <3>1, PlacesKept DEF settings
  <2> QED
    BY <1>1, <2>1, <2>2, <2>3
<1> QED
  BY <1>3, <1>4 DEF PopTimeout

(* A spurious wake-up is one woken thread more.                             *)
LEMMA SpuriousStep ==
  ASSUME IInv, NEW t \in Threads, Spurious(t)
  PROVE  IInv'
<1> USE DEF IInv
<1>1. /\ LeftOK' /\ (MinUnmoved' => MinUnmoved) /\ (MaxUnmoved' => MaxUnmoved)
      /\ MarksOK' /\ UNCHANGED settings
  BY LeftKept DEF Spurious, settings, MarksOK
<1>2. /\ full_' \subseteq full_ /\ empty_' \subseteq empty_
      /\ UNCHANGED <<queue_, size_, pop_waiting_, push_waiting_, pc, arg, got>>
  BY DEF Spurious
<1>3. CoreOK' /\ arg' \in [Threads -> Values \cup {Nothing}] /\ ArgOK'
  BY <1>2 DEF CoreOK, ArgOK
<1>4. WokenPop \subseteq WokenPop' /\ WokenPush \subseteq WokenPush'
  BY <1>2 DEF WokenPop, WokenPush
<1>5. (ElementsOK => ElementsOK') /\ (PlacesOK => PlacesOK')
  BY <1>1, <1>2, <1>4, ElementsKept, PlacesKept DEF settings
<1> QED
  BY <1>1, <1>3, <1>5

(* clear() frees every place and wakes every producer.                      *)
LEMMA ClearStep ==
  ASSUME IInv, NEW t \in Threads, Clear(t)
  PROVE  IInv'
<1> USE DEF IInv
<1>1. LeftOK' /\ (MinUnmoved' => MinUnmoved) /\ (MaxUnmoved' => MaxUnmoved)
  BY BeginSpends DEF Clear, Ops
<1>2. /\ queue_' = <<>> /\ size_' = 0 /\ full_' = {}
      /\ pop_waiting_' = TRUE /\ push_waiting_' = FALSE
      /\ UNCHANGED <<settings, empty_, pc, arg, got>>
  BY DEF Clear
<1>3. MarksOK'
  BY <1>2 DEF settings, MarksOK
<1>4. CoreOK'
  BY <1>2, EmptySeq DEF CoreOK
<1>5. arg' \in [Threads -> Values \cup {Nothing}] /\ ArgOK'
  BY <1>2 DEF ArgOK
<1>6. ElementsOK' /\ PlacesOK'
  <2>1. WokenPop' \in SUBSET Threads
    BY DEF WokenPop
  <2>2. Cardinality(WokenPop') \in Nat /\ WakeMin' \in Nat
    BY <1>3, <2>1, WokenCount DEF WakeMin, MarksOK
  <2>3. Len(queue_') = 0
    BY <1>2, EmptySeq
  <2> QED
    BY <1>2, <2>2, <2>3 DEF ElementsOK, PlacesOK
<1> QED
  BY <1>1, <1>3, <1>4, <1>5, <1>6

(* setMax() and setMin() wake one thread; what they and the two setters     *)
(* without a lock disturb is only claimed while they are not called.        *)
LEMMA SetterStep ==
  ASSUME IInv, NEW t \in Threads, Setter(t)
  PROVE  IInv'
<1> USE DEF IInv
<1>1. PICK op \in {"setMax", "setMin", "setWakePush", "setWaitForMin"} :
         /\ Begin(t, op)
         /\ op \in {"setMax", "setWakePush"} => UNCHANGED <<empty_, min_, wait_min_>>
         /\ op \in {"setMin", "setWaitForMin"} => UNCHANGED <<full_, max_, wake_push_>>
  BY DEF Setter, SetMax, SetMin, SetWakePush, SetWaitForMin
<1>2. UNCHANGED <<queue_, size_, pop_waiting_, push_waiting_, pc, arg, got>>
  BY DEF Setter, SetMax, SetMin, SetWakePush, SetWaitForMin
<1>3. full_' \subseteq full_ /\ empty_' \subseteq empty_
  BY NotifyOneTakes DEF Setter, SetMax, SetMin, SetWakePush, SetWaitForMin
<1>4. MarksOK'
  BY LimitsAssumption DEF Setter, SetMax, SetMin, SetWakePush, SetWaitForMin, MarksOK
<1>5. /\ LeftOK'
      /\ MinUnmoved' => MinUnmoved /\ op \notin {"setMin", "setWaitForMin"}
      /\ MaxUnmoved' => MaxUnmoved /\ op \notin {"setMax", "setWakePush"}
  BY <1>1, BeginSpends DEF Ops
<1>6. CoreOK' /\ arg' \in [Threads -> Values \cup {Nothing}] /\ ArgOK'
  BY <1>2, <1>3 DEF CoreOK, ArgOK
<1>7. WokenPop \subseteq WokenPop' /\ WokenPush \subseteq WokenPush'
  BY <1>2, <1>3 DEF WokenPop, WokenPush
<1>8. MinUnmoved' => ElementsOK'
  BY <1>1, <1>2, <1>3, <1>5, <1>7, ElementsKept
<1>9. MaxUnmoved' => PlacesOK'
  BY <1>1, <1>2, <1>3, <1>5, <1>7, PlacesKept
<1> QED
  BY <1>4, <1>5, <1>6, <1>8, <1>9

(* No step breaks the inductive invariant.                                  *)
LEMMA NextIInv == IInv /\ [Next]_vars => IInv'
<1> SUFFICES ASSUME IInv, [Next]_vars PROVE IInv'
  OBVIOUS
<1>1. CASE UNCHANGED vars
  BY <1>1 DEF vars, settings, IInv, CoreOK, MarksOK, ArgOK, LeftOK, MinUnmoved, MaxUnmoved,
              Unmoved, ElementsOK, PlacesOK, WakeMin, WakeLimit, WokenPop, WokenPush
<1>2. CASE Next
  <2>1. PICK t \in Threads :
           \/ \E v \in Values : Push(t, v) \/ TryPush(t, v) \/ TryPushFor(t, v)
           \/ Pop(t) \/ TryPop(t) \/ TryPopFor(t)
           \/ Resume(t)
           \/ PushTimeout(t) \/ PopTimeout(t)
           \/ Spurious(t)
           \/ Clear(t)
           \/ Setter(t)
    BY <1>2 DEF Next
  <2>2. CASE \E v \in Values : Push(t, v)
    BY <2>2, PushStep
  <2>3. CASE Pop(t)
    BY <2>3, PopStep
  <2>4. CASE \/ \E v \in Values : TryPush(t, v) \/ TryPushFor(t, v)
             \/ TryPop(t) \/ TryPopFor(t)
    BY <2>4, TryStep
  <2>5. CASE Resume(t)
    BY <2>5, PushWakeStep, PopWakeStep, TryPushLockedStep, TryPopLockedStep DEF Resume
  <2>6. CASE PushTimeout(t) \/ PopTimeout(t)
    BY <2>6, PushTimeoutStep, PopTimeoutStep
  <2>7. CASE Spurious(t)
    BY <2>7, SpuriousStep
  <2>8. CASE Clear(t)
    BY <2>8, ClearStep
  <2>9. CASE Setter(t)
    BY <2>9, SetterStep
  <2> QED
    BY <2>1, <2>2, <2>3, <2>4, <2>5, <2>6, <2>7, <2>8, <2>9
<1> QED
  BY <1>1, <1>2

(* IInv holds of every behaviour.                                           *)
LEMMA Inductive == Spec => []IInv
BY InitIInv, NextIInv, PTL DEF Spec

-----------------------------------------------------------------------------
(* size_, which tryPush() and tryPop() read without the mutex, is the       *)
(* length of the queue, and only threads within a wait are asleep.          *)
THEOREM TypeCorrect == Spec => []TypeOK
<1>1. IInv => TypeOK
  BY DEF IInv, CoreOK, MarksOK, LeftOK, TypeOK
<1> QED
  BY <1>1, Inductive, PTL

(* No element waits for a sleeping consumer: one notify_one() per push that *)
(* leaves more than min_ is enough, for any number of threads (126-128).    *)
THEOREM ElementsNotLost == Spec => []NoLostElement
<1>1. IInv => NoLostElement
  BY DEF IInv, ElementsOK, NoLostElement
<1> QED
  BY <1>1, Inductive, PTL

(* No free place waits for a sleeping producer when every pop() notifies    *)
(* (182-185).                                                               *)
THEOREM PlacesNotLost == Spec => []NoLostPlace
<1>1. IInv => NoLostPlace
  BY DEF IInv, PlacesOK, WakeLimit, NoLostPlace
<1> QED
  BY <1>1, Inductive, PTL

(* With the marks in the order of the figure (14-18), producers and         *)
(* consumers are never all asleep on each other, for any number of threads. *)
THEOREM NeverAllAsleep == Spec => []NoMutualSleep
<1>1. IInv => NoMutualSleep
  <2> SUFFICES ASSUME IInv, MinUnmoved, MaxUnmoved, WakeMin < wake_push_,
                      wake_push_ <= max_, full_ # {}, empty_ # {},
                      WokenPush = {}, WokenPop = {}
               PROVE  FALSE
    BY DEF NoMutualSleep
  <2>1. Cardinality(WokenPush) = 0 /\ Cardinality(WokenPop) = 0
    BY FS_EmptySet
  <2>2. Len(queue_) <= WakeMin /\ WakeLimit - Len(queue_) <= 0
    BY <2>1, LenProperties DEF IInv, CoreOK, MarksOK, ElementsOK, PlacesOK, WakeMin, WakeLimit
  <2> QED
    BY <2>2, LenProperties DEF IInv, CoreOK, MarksOK, WakeMin, WakeLimit
<1> QED
  BY <1>1, Inductive, PTL

-----------------------------------------------------------------------------
(* A push within its critical section is a Put of the bounded FIFO.         *)
LEMMA PutIsPut ==
  ASSUME CoreOK, MarksOK, UNCHANGED settings, NEW t \in Threads, NEW v \in Values,
         NEW sleepers, ~IsFull, Put(t, v, sleepers)
  PROVE  Fifo!Put(v)
BY LenProperties DEF Put, IsFull, settings, CoreOK, MarksOK, Fifo!Put

(* A pop within its critical section is a Get.                              *)
LEMMA TakeIsGet ==
  ASSUME UNCHANGED settings, NEW t \in Threads, NEW sleepers, ~IsEmpty, Take(t, sleepers)
  PROVE  Fifo!Get(t)
BY DEF Take, IsEmpty, settings, Fifo!Get

(* What a producer does is a Put, or hidden from the FIFO.                  *)
LEMMA ProducerSimulates ==
  ASSUME IInv, NEW t \in Threads,
         \/ \E v \in Values : Push(t, v)
         \/ PushWake(t) \/ TryPushLocked(t) \/ PushTimeout(t)
  PROVE  (\E v \in Values : Fifo!Put(v)) \/ UNCHANGED Fifo!vars
<1>1. UNCHANGED settings
  BY DEF Push, PushWake, TryPushLocked, PushTimeout
<1>2. CASE \E v \in Values, sleepers \in SUBSET Threads : ~IsFull /\ Put(t, v, sleepers)
  BY <1>1, <1>2, PutIsPut DEF IInv
<1>3. CASE UNCHANGED <<queue_, got>>
  BY <1>1, <1>3 DEF settings, Fifo!vars
<1>4. full_ \subseteq Threads
  BY DEF IInv, CoreOK
<1>5. pc[t] \in {"full", "full_for", "try_push", "try_push_for"} => arg[t] \in Values
  BY DEF IInv, ArgOK
<1> QED
  BY <1>2, <1>3, <1>4, <1>5 DEF Push, PushWake, TryPushLocked, PushTimeout, SleepFull

(* What a consumer does is a Get, or hidden.                                *)
LEMMA ConsumerSimulates ==
  ASSUME IInv, NEW t \in Threads,
         Pop(t) \/ PopWake(t) \/ TryPopLocked(t) \/ PopTimeout(t)
  PROVE  Fifo!Get(t) \/ UNCHANGED Fifo!vars
<1>1. UNCHANGED settings
  BY DEF Pop, PopWake, TryPopLocked, PopTimeout
<1>2. CASE \E sleepers \in {empty_, empty_ \ {t}} : ~IsEmpty /\ Take(t, sleepers)
  BY <1>1, <1>2, TakeIsGet
<1>3. CASE UNCHANGED <<queue_, got>>
  BY <1>1, <1>3 DEF settings, Fifo!vars
<1> QED
  BY <1>2, <1>3 DEF Pop, PopWake, TryPopLocked, PopTimeout, SleepEmpty

(* Every step of the queue is a step of the bounded FIFO or hidden.         *)
LEMMA Simulates == IInv /\ IInv' /\ [Next]_vars => [Fifo!Next]_(Fifo!vars)
<1> SUFFICES ASSUME IInv, IInv', [Next]_vars PROVE Fifo!Next \/ UNCHANGED Fifo!vars
  OBVIOUS
<1>1. CASE UNCHANGED vars
  BY <1>1 DEF vars, settings, Fifo!vars
<1>2. CASE Next
  <2>1. PICK t \in Threads :
           \/ \E v \in Values : Push(t, v) \/ TryPush(t, v) \/ TryPushFor(t, v)
           \/ Pop(t) \/ TryPop(t) \/ TryPopFor(t)
           \/ Resume(t)
           \/ PushTimeout(t) \/ PopTimeout(t)
           \/ Spurious(t)
           \/ Clear(t)
           \/ Setter(t)
    BY <1>2 DEF Next
  <2>2. CASE \/ \E v \in Values : Push(t, v)
             \/ PushWake(t) \/ TryPushLocked(t) \/ PushTimeout(t)
    BY <2>2, ProducerSimulates DEF Fifo!Next
  <2>3. CASE Pop(t) \/ PopWake(t) \/ TryPopLocked(t) \/ PopTimeout(t)
    BY <2>3, ConsumerSimulates DEF Fifo!Next
  <2>4. CASE \/ \E v \in Values : TryPush(t, v) \/ TryPushFor(t, v)
             \/ TryPop(t) \/ TryPopFor(t) \/ Spurious(t)
    BY <2>4 DEF TryPush, TryPushFor, TryPop, TryPopFor, Spurious, settings, Fifo!vars
  <2>5. CASE Clear(t)
    BY <2>5 DEF Clear, settings, Fifo!Clear, Fifo!Next
  <2>6. CASE Setter(t)
    <3>1. max_' \in Nat
      BY DEF IInv, MarksOK
    <3>2. UNCHANGED <<queue_, got>>
      BY <2>6 DEF Setter, SetMax, SetMin, SetWakePush, SetWaitForMin
    <3> QED
      BY <3>1, <3>2 DEF Fifo!SetCapacity, Fifo!Next
  <2> QED
    BY <2>1, <2>2, <2>3, <2>4, <2>5, <2>6 DEF Resume
<1> QED
  BY <1>1, <1>2

(* The queue with its locks, sleepers, timeouts and shortcuts implements    *)
(* the bounded FIFO: every element comes out once and in order, and no push *)
(* goes beyond max_.                                                        *)
THEOREM Refinement == Spec => ImplementsBoundedFifo
<1>1. Init => Fifo!Init
  BY SettingsAssumption DEF Init, Fifo!Init
<1> QED
  BY <1>1, Inductive, Simulates, PTL DEF Spec, ImplementsBoundedFifo, Fifo!Spec
=============================================================================
