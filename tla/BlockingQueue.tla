---------------------------- MODULE BlockingQueue ----------------------------
(****************************************************************************)
(* base/BlockingQueue.h: a FIFO under one mutex with two condition          *)
(* variables.  push() waits on full_ while the queue holds max_ elements;   *)
(* pop() waits on empty_ while it holds none, and a producer wakes it only  *)
(* when more than min_ elements are there; a consumer wakes producers only  *)
(* when at most wake_push_ are left.                                        *)
(*                                                                          *)
(* A critical section is one step.  A wait gives the mutex up: the thread   *)
(* joins the sleepers of the condition variable, leaves them when it is     *)
(* notified, spuriously, or when its time is over, and then tests its       *)
(* predicate in a step of its own.  tryPush() and tryPop() read size_       *)
(* without the mutex before they lock it.                                   *)
(****************************************************************************)
EXTENDS Naturals, Sequences, FiniteSets

CONSTANTS Threads, Values,
          Nothing,       \* no element
          Settings,      \* the initial [max, min, wake, wait] to consider
          Limits,        \* the values the setters are called with
          Quota          \* bound: Quota[t][op] calls of op by thread t

Ops == {"push", "tryPush", "tryPushFor", "pop", "tryPop", "tryPopFor", "clear",
        "setMax", "setMin", "setWakePush", "setWaitForMin"}

ASSUME SettingsAssumption ==
  Settings \subseteq [max : Nat, min : Nat, wake : Nat, wait : BOOLEAN]
ASSUME LimitsAssumption == Limits \subseteq Nat
ASSUME NothingAssumption == Nothing \notin Values
ASSUME ThreadsAssumption == IsFiniteSet(Threads)
ASSUME QueueQuotaAssumption == Quota \in [Threads -> [Ops -> Nat]]

VARIABLES
  queue_, size_, max_, min_, wake_push_, wait_min_, pop_waiting_, push_waiting_,
  full_,         \* the threads asleep on full_
  empty_,        \* the threads asleep on empty_
  pc,            \* pc[t]: the operation thread t is in
  arg,           \* arg[t]: what it pushes
  got,           \* got[t]: what it popped last
  left           \* left[t][op]: what remains of Quota

settings == <<max_, min_, wake_push_, wait_min_>>
vars == <<queue_, size_, settings, pop_waiting_, push_waiting_, full_, empty_, pc, arg,
          got, left>>

-----------------------------------------------------------------------------
Init ==
  /\ queue_ = <<>> /\ size_ = 0
  /\ \E s \in Settings : /\ max_ = s.max /\ min_ = s.min
                         /\ wake_push_ = s.wake /\ wait_min_ = s.wait
  /\ pop_waiting_ = TRUE /\ push_waiting_ = FALSE
  /\ full_ = {} /\ empty_ = {}
  /\ pc = [t \in Threads |-> "idle"]
  /\ arg = [t \in Threads |-> Nothing]
  /\ got = [t \in Threads |-> Nothing]
  /\ left = Quota

Begin(t, op) == /\ pc[t] = "idle" /\ left[t][op] > 0
                /\ left' = [left EXCEPT ![t][op] = @ - 1]

Goto(t, l) == pc' = [pc EXCEPT ![t] = l]

(* notify_one(): who sleeps on after it; one of them is woken, if any.       *)
NotifyOne(sleepers) == IF sleepers = {} THEN {{}} ELSE {sleepers \ {t} : t \in sleepers}

-----------------------------------------------------------------------------
(* Whether the push that leaves n elements wakes a consumer.                *)
WakesPop_Early(n) == n - 1 > min_ \/ ~wait_min_
WakesPop_IfWaiting(n) == pop_waiting_ /\ (n > min_ \/ ~wait_min_)
WakesPop(n) == n > min_ \/ ~wait_min_

(* The end of a push, with the mutex: only the try variants reset           *)
(* pop_waiting_.                                                            *)
Put(t, v, sleepers) ==
  /\ push_waiting_' = FALSE
  /\ queue_' = Append(queue_, v)
  /\ size_' = size_ + 1
  /\ full_' = sleepers
  /\ IF WakesPop(size_')
       THEN /\ empty_' \in NotifyOne(empty_)
            /\ pop_waiting_' = (pop_waiting_ /\ pc[t] \in {"idle", "full"})
       ELSE UNCHANGED <<empty_, pop_waiting_>>
  /\ Goto(t, "idle")
  /\ UNCHANGED got

SleepFull(t, l) ==
  /\ push_waiting_' = TRUE
  /\ full_' = full_ \cup {t}
  /\ Goto(t, l)
  /\ UNCHANGED <<queue_, size_, pop_waiting_, empty_, got>>

IsFull == Len(queue_) >= max_

Push(t, v) ==
  /\ Begin(t, "push")
  /\ arg' = [arg EXCEPT ![t] = v]
  /\ \/ ~IsFull /\ Put(t, v, full_)
     \/ IsFull /\ SleepFull(t, "full")
  /\ UNCHANGED settings

(* The predicate of full_.wait() after a wake-up: it sleeps on or goes on.  *)
PushWake(t) ==
  /\ pc[t] \in {"full", "full_for"} /\ t \notin full_
  /\ \/ ~IsFull /\ Put(t, arg[t], full_)
     \/ /\ IsFull /\ full_' = full_ \cup {t}
        /\ UNCHANGED <<queue_, size_, pop_waiting_, push_waiting_, empty_, pc, got>>
  /\ UNCHANGED <<settings, arg, left>>

(* tryPush() without a timeout reads size_ and max_ before it locks.        *)
TryPush(t, v) ==
  /\ Begin(t, "tryPush")
  /\ arg' = [arg EXCEPT ![t] = v]
  /\ Goto(t, IF size_ >= max_ THEN "idle" ELSE "try_push")
  /\ UNCHANGED <<queue_, size_, settings, pop_waiting_, push_waiting_, full_, empty_, got>>

TryPushFor(t, v) ==
  /\ Begin(t, "tryPushFor")
  /\ arg' = [arg EXCEPT ![t] = v]
  /\ Goto(t, "try_push_for")
  /\ UNCHANGED <<queue_, size_, settings, pop_waiting_, push_waiting_, full_, empty_, got>>

TryPushLocked(t) ==
  /\ pc[t] \in {"try_push", "try_push_for"}
  /\ \/ ~IsFull /\ Put(t, arg[t], full_)
     \/ IsFull /\ pc[t] = "try_push_for" /\ SleepFull(t, "full_for")
     \/ /\ IsFull /\ pc[t] = "try_push"
        /\ push_waiting_' = TRUE
        /\ Goto(t, "idle")
        /\ UNCHANGED <<queue_, size_, pop_waiting_, full_, empty_, got>>
  /\ UNCHANGED <<settings, arg, left>>

PushTimeout_Blind(t) ==
  /\ pc[t] = "full_for"
  /\ Put(t, arg[t], full_ \ {t})
  /\ UNCHANGED <<settings, arg, left>>

(* wait_for() is over: the predicate is tested a last time.                 *)
PushTimeout(t) ==
  /\ pc[t] = "full_for"
  /\ \/ ~IsFull /\ Put(t, arg[t], full_ \ {t})
     \/ /\ IsFull
        /\ full_' = full_ \ {t}
        /\ Goto(t, "idle")
        /\ UNCHANGED <<queue_, size_, pop_waiting_, push_waiting_, empty_, got>>
  /\ UNCHANGED <<settings, arg, left>>

-----------------------------------------------------------------------------
(* Whether the pop that leaves n elements wakes a producer.                 *)
WakesPush_OnlyFull(n) == n + 1 = max_
WakesPush_IfWaiting(n) == push_waiting_ /\ n <= wake_push_
WakesPush(n) == n <= wake_push_

(* The end of a pop, with the mutex.                                        *)
Take(t, sleepers) ==
  /\ got' = [got EXCEPT ![t] = Head(queue_)]
  /\ queue_' = Tail(queue_)
  /\ size_' = size_ - 1
  /\ pop_waiting_' = (Len(queue_) = 1 /\ min_ > 0)
  /\ empty_' = sleepers
  /\ IF WakesPush(size_')
       THEN full_' \in NotifyOne(full_) /\ push_waiting_' = FALSE
       ELSE UNCHANGED <<full_, push_waiting_>>
  /\ Goto(t, "idle")

SleepEmpty(t, l) ==
  /\ pop_waiting_' = TRUE
  /\ empty_' = empty_ \cup {t}
  /\ Goto(t, l)
  /\ UNCHANGED <<queue_, size_, push_waiting_, full_, got>>

IsEmpty == queue_ = <<>>

Pop(t) ==
  /\ Begin(t, "pop")
  /\ \/ ~IsEmpty /\ Take(t, empty_)
     \/ IsEmpty /\ SleepEmpty(t, "empty")
  /\ UNCHANGED <<settings, arg>>

(* The predicate of empty_.wait() asks for one element, not for min_.       *)
PopWake(t) ==
  /\ pc[t] \in {"empty", "empty_for"} /\ t \notin empty_
  /\ \/ ~IsEmpty /\ Take(t, empty_)
     \/ /\ IsEmpty /\ empty_' = empty_ \cup {t}
        /\ UNCHANGED <<queue_, size_, pop_waiting_, push_waiting_, full_, pc, got>>
  /\ UNCHANGED <<settings, arg, left>>

TryPop(t) ==
  /\ Begin(t, "tryPop")
  /\ Goto(t, IF size_ = 0 THEN "idle" ELSE "try_pop")
  /\ UNCHANGED <<queue_, size_, settings, pop_waiting_, push_waiting_, full_, empty_, arg,
                 got>>

TryPopFor(t) ==
  /\ Begin(t, "tryPopFor")
  /\ Goto(t, "try_pop_for")
  /\ UNCHANGED <<queue_, size_, settings, pop_waiting_, push_waiting_, full_, empty_, arg,
                 got>>

TryPopLocked(t) ==
  /\ pc[t] \in {"try_pop", "try_pop_for"}
  /\ \/ ~IsEmpty /\ Take(t, empty_)
     \/ IsEmpty /\ pc[t] = "try_pop_for" /\ SleepEmpty(t, "empty_for")
     \/ /\ IsEmpty /\ pc[t] = "try_pop"
        /\ pop_waiting_' = TRUE
        /\ Goto(t, "idle")
        /\ UNCHANGED <<queue_, size_, push_waiting_, full_, empty_, got>>
  /\ UNCHANGED <<settings, arg, left>>

PopTimeout(t) ==
  /\ pc[t] = "empty_for"
  /\ \/ ~IsEmpty /\ Take(t, empty_ \ {t})
     \/ /\ IsEmpty
        /\ empty_' = empty_ \ {t}
        /\ Goto(t, "idle")
        /\ UNCHANGED <<queue_, size_, pop_waiting_, push_waiting_, full_, got>>
  /\ UNCHANGED <<settings, arg, left>>

-----------------------------------------------------------------------------
(* A condition variable may wake a thread that nobody has notified.         *)
Spurious(t) ==
  /\ \/ t \in full_ /\ full_' = full_ \ {t} /\ UNCHANGED empty_
     \/ t \in empty_ /\ empty_' = empty_ \ {t} /\ UNCHANGED full_
  /\ UNCHANGED <<queue_, size_, settings, pop_waiting_, push_waiting_, pc, arg, got, left>>

Clear_NoNotify(t) ==
  /\ Begin(t, "clear")
  /\ queue_' = <<>> /\ size_' = 0
  /\ pop_waiting_' = TRUE /\ push_waiting_' = FALSE
  /\ UNCHANGED <<settings, full_, empty_, pc, arg, got>>
Clear_NoSize(t) ==
  /\ Begin(t, "clear")
  /\ queue_' = <<>> /\ full_' = {}
  /\ pop_waiting_' = TRUE /\ push_waiting_' = FALSE
  /\ UNCHANGED <<size_, settings, empty_, pc, arg, got>>
Clear(t) ==
  /\ Begin(t, "clear")
  /\ queue_' = <<>> /\ size_' = 0
  /\ full_' = {}
  /\ pop_waiting_' = TRUE /\ push_waiting_' = FALSE
  /\ UNCHANGED <<settings, empty_, pc, arg, got>>

SetMax(t, n) ==
  /\ Begin(t, "setMax")
  /\ max_' = n
  /\ IF Len(queue_) < n THEN full_' \in NotifyOne(full_) ELSE UNCHANGED full_
  /\ UNCHANGED <<queue_, size_, min_, wake_push_, wait_min_, pop_waiting_, push_waiting_,
                 empty_, pc, arg, got>>

SetMin(t, n) ==
  /\ Begin(t, "setMin")
  /\ min_' = n
  /\ IF Len(queue_) > n THEN empty_' \in NotifyOne(empty_) ELSE UNCHANGED empty_
  /\ UNCHANGED <<queue_, size_, max_, wake_push_, wait_min_, pop_waiting_, push_waiting_,
                 full_, pc, arg, got>>

(* These two take no lock and wake nobody.                                  *)
SetWakePush(t, n) ==
  /\ Begin(t, "setWakePush")
  /\ wake_push_' = n
  /\ UNCHANGED <<queue_, size_, max_, min_, wait_min_, pop_waiting_, push_waiting_, full_,
                 empty_, pc, arg, got>>

SetWaitForMin(t, b) ==
  /\ Begin(t, "setWaitForMin")
  /\ wait_min_' = b
  /\ UNCHANGED <<queue_, size_, max_, min_, wake_push_, pop_waiting_, push_waiting_, full_,
                 empty_, pc, arg, got>>

-----------------------------------------------------------------------------
Resume(t) == PushWake(t) \/ PopWake(t) \/ TryPushLocked(t) \/ TryPopLocked(t)

Setter(t) == \/ \E n \in Limits : SetMax(t, n) \/ SetMin(t, n) \/ SetWakePush(t, n)
             \/ \E b \in BOOLEAN : SetWaitForMin(t, b)

Next ==
  \E t \in Threads :
     \/ \E v \in Values : Push(t, v) \/ TryPush(t, v) \/ TryPushFor(t, v)
     \/ Pop(t) \/ TryPop(t) \/ TryPopFor(t)
     \/ Resume(t)
     \/ PushTimeout(t) \/ PopTimeout(t)
     \/ Spurious(t)
     \/ Clear(t)
     \/ Setter(t)

Spec == Init /\ [][Next]_vars

(* The scheduler lets every thread that is not blocked go on; nothing makes *)
(* a thread call an operation, a timeout expire or a spurious wake-up come. *)
Fairness == \A t \in Threads : WF_vars(Resume(t))

FairSpec == Spec /\ Fairness
-----------------------------------------------------------------------------
(* The threads that were notified and have not tested their predicate yet.  *)
WokenPop  == {t \in Threads : pc[t] \in {"empty", "empty_for"}} \ empty_
WokenPush == {t \in Threads : pc[t] \in {"full", "full_for"}} \ full_

(* min_ as the producers use it.                                            *)
WakeMin == IF wait_min_ THEN min_ ELSE 0

(* The counter size_ is read without the lock in place of queue_.size(): it *)
(* agrees with it, and nobody sleeps who has left his operation.            *)
TypeOK ==
  /\ queue_ \in Seq(Values) /\ size_ = Len(queue_)
  /\ max_ \in Nat /\ min_ \in Nat /\ wake_push_ \in Nat /\ wait_min_ \in BOOLEAN
  /\ pop_waiting_ \in BOOLEAN /\ push_waiting_ \in BOOLEAN
  /\ pc \in [Threads -> {"idle", "full", "full_for", "empty", "empty_for", "try_push",
                         "try_push_for", "try_pop", "try_pop_for"}]
  /\ full_ \subseteq {t \in Threads : pc[t] \in {"full", "full_for"}}
  /\ empty_ \subseteq {t \in Threads : pc[t] \in {"empty", "empty_for"}}
  /\ arg \in [Threads -> Values \cup {Nothing}]
  /\ got \in [Threads -> Values \cup {Nothing}]
  /\ left \in [Threads -> [Ops -> Nat]]

(* No setter of ops was called yet: setMax() and setMin() notify one thread *)
(* only, the other setters none.                                            *)
Unmoved(ops) == \A t \in Threads, op \in ops : left[t][op] = Quota[t][op]
MinUnmoved == Unmoved({"setMin", "setWaitForMin"})
MaxUnmoved == Unmoved({"setMax", "setWakePush"})

(* One notify_one() per element is enough: while a consumer sleeps, each    *)
(* element beyond min_ has a consumer that was woken for it, whatever       *)
(* timeouts, spurious wake-ups and barging threads come between (126-128).  *)
NoLostElement ==
  (empty_ # {} /\ MinUnmoved) => Len(queue_) <= WakeMin + Cardinality(WokenPop)

(* As long as every pop() notifies (wake_push_ not below max_ - 1), while a *)
(* producer sleeps each free place has a producer woken for it (182-185).   *)
NoLostPlace ==
  (full_ # {} /\ MaxUnmoved /\ max_ <= wake_push_ + 1)
    => max_ - Len(queue_) <= Cardinality(WokenPush)

(* With the marks in the order of the figure in lines 14-18, producers and  *)
(* consumers are never all asleep on each other.                            *)
NoMutualSleep ==
  (/\ MinUnmoved /\ MaxUnmoved
   /\ WakeMin < wake_push_ /\ wake_push_ <= max_
   /\ full_ # {} /\ empty_ # {})
    => WokenPush \cup WokenPop # {}

(* The queue with its locks, sleepers and shortcuts is a bounded FIFO:      *)
(* elements are popped in the order of the pushes, each once, and a push    *)
(* never grows the queue beyond max_.                                       *)
Fifo == INSTANCE BoundedFifo WITH queue <- queue_, capacity <- max_
ImplementsBoundedFifo == Fifo!Spec

(* A consumer blocked in pop() with more than min_ elements there returns,  *)
(* or others take the elements: it does not sleep on work.                  *)
PopReturns ==
  \A t \in Threads :
    (pc[t] = "empty" /\ Len(queue_) > WakeMin /\ MinUnmoved)
      ~> (pc[t] = "idle" \/ Len(queue_) <= WakeMin \/ ~MinUnmoved)

(* A producer blocked in push() with a free place returns, or others take   *)
(* the place, when every pop() notifies.                                    *)
PushReturns ==
  \A t \in Threads :
    (pc[t] = "full" /\ ~IsFull /\ MaxUnmoved /\ max_ <= wake_push_ + 1)
      ~> (pc[t] = "idle" \/ IsFull \/ ~MaxUnmoved)
=============================================================================
