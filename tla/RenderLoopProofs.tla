--------------------------- MODULE RenderLoopProofs ---------------------------
(****************************************************************************)
(* The rendering loop for any number of surfaces, threads and calls: types, *)
(* the balance of acquire() and release(), and the removal of a surface.    *)
(****************************************************************************)
EXTENDS RenderLoop, TLAPS, SequenceTheorems

(* A call in progress has a surface, ...                                    *)
CallOK == \A t \in Threads : call[t].at # "idle" => call[t].s \in Surfaces

(* ... and so has process(); the surface it works on is in the list, unless *)
(* its task has yet to find out that it was freed.                          *)
CurOK ==
  /\ rpc \in InProcess => cur \in Surfaces
  /\ rpc = "enter" => sp[cur] # "new"
  /\ rpc \in Acquired \cup {"create", "erase", "return"} => sp[cur] = "live"
  /\ rpc = "removed" => sp[cur] = "freed"

(* The list has no duplicate and holds the live SurfaceContexts.            *)
ListOK ==
  /\ \A i, j \in 1..Len(surfaces) : surfaces[i] = surfaces[j] => i = j
  /\ \A s \in Surfaces : sp[s] = "live" <=> \E i \in 1..Len(surfaces) : surfaces[i] = s

(* A task, a callback and an add() in progress refer to a SurfaceContext    *)
(* that was created; it may be freed.                                       *)
Known == {s \in Surfaces : sp[s] # "new"}

TasksRefer ==
  \A i \in 1..Len(tasks) : tasks[i].kind # "update" => tasks[i].s \in Known

ReferenceOK ==
  /\ TasksRefer
  /\ \A s \in Surfaces : cb[s] => s \in Known
  /\ \A t \in App : pc[t] \in {"add_cb", "add_task"} => visit[t] # <<>> /\ Head(visit[t]) \in Known

CloseCalls ==
  \A s \in Surfaces :
    onclose[s] = IF sp[s] = "freed" \/ (rpc = "erase" /\ cur = s) THEN 1 ELSE 0

(* What start() overwrites is not running.                                  *)
ThreadOK == rpc # "off" => joinable

IInv == /\ TypeOK /\ CallOK /\ CurOK /\ GateBalanced
        /\ ListOK /\ ReferenceOK /\ CloseCalls /\ ThreadOK

-----------------------------------------------------------------------------
(* A function on 1..n is a sequence.                                       *)
LEMMA FunctionIsSeq ==
  ASSUME NEW S, NEW n \in Nat, NEW f \in [1..n -> S]
  PROVE  f \in Seq(S) /\ Len(f) = n
<1>1. f \in UNION {[1..m -> S] : m \in Nat}
  OBVIOUS
<1>2. f \in Seq(S)
  BY <1>1, SeqDef
<1> QED
  BY <1>2, LenProperties

(* The operations of PlatformSurface keep the types of its variables, and a *)
(* call its surface.                                                        *)

LEMMA EventTypes ==
  /\ PS!Close \in PS!Event /\ PS!Resize \in PS!Event
  /\ \A old, new \in PS!HandleOrNull : PS!NativeHandle(old, new) \in PS!Event
  /\ PS!NoCall \in PS!Call /\ PS!NoCall.at = "idle"
  BY DEF PS!Close, PS!Resize, PS!NativeHandle, PS!Event, PS!NoCall, PS!Call, PS!HandleOrNull

(* What follows an event is a call of the same surface, or no call.         *)
LEMMA ReturnTypes ==
  ASSUME NEW c \in PS!Call
  PROVE  /\ PS!Return(c) \in PS!Call
         /\ PS!Return(c).at = "idle" \/ PS!Return(c).s = c.s
<1>1. CASE c.then = "return"
  BY <1>1, EventTypes DEF PS!Return
<1>2. CASE c.then = "resize"
  BY <1>2, EventTypes DEF PS!Return, PS!Call
<1>3. CASE c.then = "close"
  BY <1>3 DEF PS!Return, PS!Call
<1> QED
  BY <1>1, <1>2, <1>3 DEF PS!Call

LEMMA BeginTypes ==
  ASSUME PS!TypeOK, CallOK, NEW t \in Threads, NEW s \in Surfaces, NEW e \in PS!Event,
         NEW then \in {"return", "resize", "close"}, PS!BeginPush(t, s, e, then)
  PROVE  call' \in [Threads -> PS!Call] /\ CallOK'
<1> DEFINE c == [at |-> "check", s |-> s, ev |-> e, then |-> then]
<1>1. c \in PS!Call
  BY DEF PS!Call
<1>2. call' = [call EXCEPT ![t] = c]
  BY DEF PS!BeginPush
<1>3. c.s = s
  OBVIOUS
<1> HIDE DEF c
<1> QED
  BY <1>1, <1>2, <1>3 DEF PS!TypeOK, CallOK

LEMMA CallTypes ==
  ASSUME PS!TypeOK, CallOK, NEW t \in Threads, NEW s \in Surfaces,
         \/ PS!ResizeSurface(t, s)
         \/ PS!CloseSurface(t, s)
         \/ \E h \in Handles \cup {Null} : PS!ResetNativeHandle(t, s, h)
  PROVE  PS!TypeOK' /\ CallOK' /\ UNCHANGED cb
<1>1. CASE PS!ResizeSurface(t, s)
  BY <1>1, EventTypes, BeginTypes DEF PS!ResizeSurface, PS!TypeOK
<1>2. CASE PS!CloseSurface(t, s)
  BY <1>2, EventTypes, BeginTypes DEF PS!CloseSurface, PS!TypeOK
<1>3. CASE \E h \in Handles \cup {Null} : PS!ResetNativeHandle(t, s, h)
  <2>1. PICK h \in Handles \cup {Null} : PS!ResetNativeHandle(t, s, h)
    BY <1>3
  <2>2. PICK sized_ \in BOOLEAN :
          PS!BeginPush(t, s, PS!NativeHandle(native_handle[s], h),
                       IF h # Null /\ sized_ THEN "resize" ELSE "return")
    BY <2>1 DEF PS!ResetNativeHandle
  <2>3. PS!NativeHandle(native_handle[s], h) \in PS!Event
    BY EventTypes DEF PS!TypeOK, PS!HandleOrNull
  <2>4. call' \in [Threads -> PS!Call] /\ CallOK'
    BY <2>2, <2>3, BeginTypes
  <2> QED
    BY <2>1, <2>4 DEF PS!ResetNativeHandle, PS!TypeOK, PS!HandleOrNull
<1> QED
  BY <1>1, <1>2, <1>3

LEMMA PushTypes ==
  ASSUME PS!TypeOK, CallOK, NEW t \in Threads, PS!Push(t) \/ PS!Notify(t)
  PROVE  PS!TypeOK' /\ CallOK' /\ UNCHANGED cb
<1> DEFINE q == call[t].s
<1>1. call[t] \in PS!Call
  BY DEF PS!TypeOK
<1>2. PS!Return(call[t]) \in PS!Call
      /\ (PS!Return(call[t]).at = "idle" \/ PS!Return(call[t]).s = q)
  BY <1>1, ReturnTypes
<1>3. CASE PS!PushCheck(t)
  <2>1. q \in Surfaces
    BY <1>3 DEF PS!PushCheck, CallOK
  <2>2. [call[t] EXCEPT !.at = "claim"] \in PS!Call
    BY <1>1 DEF PS!Call
  <2>3. [call[t] EXCEPT !.at = "claim"].s = q
    BY <1>1 DEF PS!Call
  <2> QED
    BY <1>2, <1>3, <2>1, <2>2, <2>3 DEF PS!PushCheck, PS!TypeOK, CallOK
<1>4. CASE PS!PushClaim(t)
  <2> DEFINE e == [ev |-> call[t].ev, by |-> t]
  <2>1. q \in Surfaces
    BY <1>4 DEF PS!PushClaim, CallOK
  <2>2. e \in [ev : PS!Event, by : Threads \cup {Null}]
    BY <1>1 DEF PS!Call
  <2>3. Append(events[q], e) \in Seq([ev : PS!Event, by : Threads \cup {Null}])
    <3>1. events[q] \in Seq([ev : PS!Event, by : Threads \cup {Null}])
      BY <2>1 DEF PS!TypeOK
    <3> HIDE DEF q, e
    <3> QED
      BY <2>2, <3>1, AppendProperties
  <2>4. events' = [events EXCEPT ![q] = Append(events[q], e)]
    BY <1>4 DEF PS!PushClaim
  <2>5. events' \in [Surfaces -> Seq([ev : PS!Event, by : Threads \cup {Null}])]
    BY <2>3, <2>4 DEF PS!TypeOK
  <2>6. [call[t] EXCEPT !.at = "link"] \in PS!Call /\ [call[t] EXCEPT !.at = "link"].s = q
    BY <1>1 DEF PS!Call
  <2>7. call' = [call EXCEPT ![t] = [call[t] EXCEPT !.at = "link"]]
    BY <1>4 DEF PS!PushClaim
  <2> QED
    BY <1>4, <2>1, <2>5, <2>6, <2>7 DEF PS!PushClaim, PS!TypeOK, CallOK
<1>5. CASE PS!PushLink(t)
  <2>1. q \in Surfaces
    BY <1>5 DEF PS!PushLink, CallOK
  <2>2. PS!Publish(events[q], t) \in Seq([ev : PS!Event, by : Threads \cup {Null}])
    <3> DEFINE E == [ev : PS!Event, by : Threads \cup {Null}]
    <3>1. events[q] \in Seq(E)
      BY <2>1 DEF PS!TypeOK
    <3>2. DOMAIN events[q] = 1..Len(events[q]) /\ Len(events[q]) \in Nat
      BY <3>1
    <3>3. \A i \in 1..Len(events[q]) : [events[q][i] EXCEPT !.by = Null] \in E /\ events[q][i] \in E
      <4>1. \A i \in 1..Len(events[q]) : events[q][i] \in E
        <5> HIDE DEF E, q
        <5> QED
          BY <3>1, ElementOfSeq
      <4>2. \A r \in E : [r EXCEPT !.by = Null] \in E
        OBVIOUS
      <4> HIDE DEF E, q
      <4> QED
        BY <4>1, <4>2
    <3> DEFINE f == [i \in 1..Len(events[q]) |-> IF events[q][i].by = t
                       THEN [events[q][i] EXCEPT !.by = Null] ELSE events[q][i]]
    <3>4. f \in [1..Len(events[q]) -> E]
      BY <3>3
    <3>5. f \in Seq(E)
      <4> HIDE DEF f, E, q
      <4> QED
        BY <3>2, <3>4, FunctionIsSeq
    <3> QED
      BY <3>2, <3>5 DEF PS!Publish
  <2>3. events' = [events EXCEPT ![q] = PS!Publish(events[q], t)]
    BY <1>5 DEF PS!PushLink
  <2>4. events' \in [Surfaces -> Seq([ev : PS!Event, by : Threads \cup {Null}])]
    BY <2>2, <2>3 DEF PS!TypeOK
  <2>5. [call[t] EXCEPT !.at = "notify"] \in PS!Call /\ [call[t] EXCEPT !.at = "notify"].s = q
    BY <1>1 DEF PS!Call
  <2>6. call' = [call EXCEPT ![t] = [call[t] EXCEPT !.at = "notify"]]
    BY <1>5 DEF PS!PushLink
  <2> QED
    BY <1>5, <2>1, <2>4, <2>5, <2>6 DEF PS!PushLink, PS!TypeOK, CallOK
<1>6. CASE PS!SetClosed(t)
  BY <1>6, EventTypes DEF PS!SetClosed, PS!TypeOK, CallOK
<1>7. CASE PS!Notify(t)
  <2>1. call' = [call EXCEPT ![t] = PS!Return(call[t])]
    BY <1>7 DEF PS!Notify
  <2>2. call[t].at # "idle"
    BY <1>7 DEF PS!Notify
  <2> HIDE DEF q
  <2> QED
    BY <1>2, <1>7, <2>1, <2>2 DEF PS!Notify, PS!TypeOK, CallOK, q
<1> QED
  BY <1>3, <1>4, <1>5, <1>6, <1>7 DEF PS!Push

LEMMA PopTypes ==
  ASSUME PS!TypeOK, NEW s \in Surfaces, PS!PopEvent(s),
         UNCHANGED <<closed, native_handle, cb, call>>
  PROVE  PS!TypeOK'
<1> DEFINE E == [ev : PS!Event, by : Threads \cup {Null}]
<1>1. events[s] \in Seq(E) /\ events[s] # <<>>
  BY DEF PS!TypeOK, PS!PopEvent, PS!CanPop
<1>2. Tail(events[s]) \in Seq(E)
  BY <1>1
<1> QED
  BY <1>2 DEF PS!TypeOK, PS!PopEvent

LEMMA SurfaceFrame ==
  ASSUME PS!TypeOK, CallOK, UNCHANGED surfaceVars
  PROVE  PS!TypeOK' /\ CallOK'
  BY DEF PS!TypeOK, CallOK, surfaceVars

-----------------------------------------------------------------------------
(* Counting down a quota.                                                   *)
LEMMA SpendTypes ==
  ASSUME left \in [Threads -> [Ops -> Nat]], NEW t \in Threads, NEW op \in Ops, Spend(t, op)
  PROVE  left' \in [Threads -> [Ops -> Nat]]
<1>1. left[t] \in [Ops -> Nat] /\ left[t][op] \in Nat /\ left[t][op] > 0
  BY DEF Spend
<1>2. [left[t] EXCEPT ![op] = left[t][op] - 1] \in [Ops -> Nat]
  BY <1>1
<1>3. left' = [left EXCEPT ![t] = [left[t] EXCEPT ![op] = left[t][op] - 1]]
  BY DEF Spend
<1> QED
  BY <1>2, <1>3

LEMMA ThreadTypes == App \subseteq Threads /\ Render \in Threads /\ Main \in App
  BY ThreadAssumption DEF Threads

(* Lists of tasks and of surfaces.                                          *)

LEMMA TaskTypes ==
  /\ UpdateTask \in Task
  /\ \A s \in Surfaces : AddTask(s) \in Task /\ EventTask(s) \in Task
  /\ \A k \in Task : k.kind # "update" => k.s \in Surfaces
<1>1. ASSUME NEW k \in Task, k.kind # "update"
      PROVE  k.s \in Surfaces
  <2>1. CASE \E s \in Surfaces : k = AddTask(s)
    BY <2>1 DEF AddTask
  <2>2. CASE \E s \in Surfaces : k = EventTask(s)
    BY <2>2 DEF EventTask
  <2>3. CASE k = UpdateTask
    BY <1>1, <2>3 DEF UpdateTask
  <2> QED
    BY <2>1, <2>2, <2>3 DEF Task
<1> QED
  BY <1>1 DEF Task

LEMMA ScheduleStep ==
  ASSUME tasks \in Seq(Task), TasksRefer, UNCHANGED sp,
         NEW k \in Task, k.kind # "update" => k.s \in Known, Schedule(k)
  PROVE  tasks' \in Seq(Task) /\ TasksRefer'
<1>1. /\ tasks' \in Seq(Task)
      /\ Len(tasks') = Len(tasks) + 1 /\ Len(tasks) \in Nat
      /\ \A i \in 1..Len(tasks) : tasks'[i] = tasks[i]
      /\ tasks'[Len(tasks) + 1] = k
  BY AppendProperties, LenProperties DEF Schedule
<1>2. ASSUME NEW i \in 1..Len(tasks'), tasks'[i].kind # "update"
      PROVE  tasks'[i].s \in Known'
  <2>1. CASE i \in 1..Len(tasks)
    BY <1>1, <1>2, <2>1 DEF TasksRefer, Known
  <2>2. CASE i = Len(tasks) + 1
    BY <1>1, <1>2, <2>2 DEF Known
  <2> QED
    BY <1>1, <2>1, <2>2
<1> QED
  BY <1>1, <1>2 DEF TasksRefer

(* add() puts a new SurfaceContext at the end of the list.                  *)
LEMMA AppendSurface ==
  ASSUME surfaces \in Seq(Surfaces), sp \in [Surfaces -> {"new", "live", "freed"}], ListOK,
         NEW s \in Surfaces, sp[s] = "new",
         surfaces' = Append(surfaces, s), sp' = [sp EXCEPT ![s] = "live"]
  PROVE  surfaces' \in Seq(Surfaces) /\ ListOK'
<1>1. /\ surfaces' \in Seq(Surfaces)
      /\ Len(surfaces') = Len(surfaces) + 1 /\ Len(surfaces) \in Nat
      /\ \A i \in 1..Len(surfaces) : surfaces'[i] = surfaces[i]
      /\ surfaces'[Len(surfaces) + 1] = s
  BY AppendProperties, LenProperties
<1>2. \A i \in 1..Len(surfaces) : surfaces[i] \in Surfaces /\ surfaces[i] # s
  BY ElementOfSeq DEF ListOK
<1>3. \A i, j \in 1..Len(surfaces') : surfaces'[i] = surfaces'[j] => i = j
  BY <1>1, <1>2 DEF ListOK
<1>4. ASSUME NEW r \in Surfaces
      PROVE  sp'[r] = "live" <=> \E i \in 1..Len(surfaces') : surfaces'[i] = r
  <2>1. CASE r = s
    BY <1>1, <2>1
  <2>2. CASE r # s
    <3>1. sp'[r] = sp[r]
      BY <2>2
    <3>2. \A i \in 1..Len(surfaces') : surfaces'[i] = r => i \in 1..Len(surfaces)
      BY <1>1, <2>2
    <3> QED
      BY <1>1, <3>1, <3>2 DEF ListOK
  <2> QED
    BY <2>1, <2>2
<1> QED
  BY <1>1, <1>3, <1>4 DEF ListOK

(* Erasing the node of a freed SurfaceContext leaves the live ones.         *)
LEMMA EraseSurface ==
  ASSUME surfaces \in Seq(Surfaces), sp \in [Surfaces -> {"new", "live", "freed"}], ListOK,
         NEW s \in Surfaces, Erase(s), sp' = [sp EXCEPT ![s] = "freed"]
  PROVE  surfaces' \in Seq(Surfaces) /\ ListOK'
<1>1. PICK k \in 1..Len(surfaces) : surfaces[k] = s /\ surfaces' = RemoveAt(surfaces, k)
  BY DEF Erase
<1> DEFINE a == SubSeq(surfaces, 1, k - 1)
           b == SubSeq(surfaces, k + 1, Len(surfaces))
<1>2. Len(surfaces) \in Nat /\ \A i \in 1..Len(surfaces) : surfaces[i] \in Surfaces
  BY LenProperties, ElementOfSeq
<1>3. /\ a \in Seq(Surfaces) /\ Len(a) = k - 1
      /\ \A i \in 1..(k - 1) : a[i] = surfaces[i]
  <2>1. \A i \in 1..(k - 1) : surfaces[i] \in Surfaces
    BY <1>2
  <2> QED
    BY <1>2, <2>1, SubSeqProperties
<1>4. /\ b \in Seq(Surfaces) /\ Len(b) = Len(surfaces) - k
      /\ \A i \in 1..(Len(surfaces) - k) : b[i] = surfaces[k + i]
  <2>1. \A i \in (k + 1)..Len(surfaces) : surfaces[i] \in Surfaces
    BY <1>2
  <2> QED
    BY <1>2, <2>1, SubSeqProperties
<1>5. /\ surfaces' \in Seq(Surfaces) /\ Len(surfaces') = Len(surfaces) - 1
      /\ \A i \in 1..Len(surfaces') : surfaces'[i] = surfaces[IF i < k THEN i ELSE i + 1]
  <2>1. surfaces' = a \o b
    BY <1>1 DEF RemoveAt
  <2> HIDE DEF a, b
  <2>2. /\ surfaces' \in Seq(Surfaces)
        /\ Len(surfaces') = Len(a) + Len(b)
        /\ \A i \in 1..(Len(a) + Len(b)) :
              surfaces'[i] = IF i <= Len(a) THEN a[i] ELSE b[i - Len(a)]
    BY <1>3, <1>4, <2>1, ConcatProperties
  <2>3. Len(surfaces') = Len(surfaces) - 1
    BY <1>2, <1>3, <1>4, <2>2
  <2>4. ASSUME NEW i \in 1..Len(surfaces')
        PROVE  surfaces'[i] = surfaces[IF i < k THEN i ELSE i + 1]
    <3>1. CASE i < k
      BY <1>2, <1>3, <1>4, <2>2, <2>3, <3>1
    <3>2. CASE ~(i < k)
      <4>1. surfaces'[i] = b[i - (k - 1)] /\ i - (k - 1) \in 1..(Len(surfaces) - k)
        BY <1>2, <1>3, <1>4, <2>2, <2>3, <3>2
      <4>2. surfaces'[i] = surfaces[k + (i - (k - 1))]
        BY <1>4, <4>1
      <4>3. k + (i - (k - 1)) = i + 1
        BY <1>2
      <4> QED
        BY <3>2, <4>2, <4>3
    <3> QED
      BY <3>1, <3>2
  <2> QED
    BY <2>2, <2>3, <2>4
<1> HIDE DEF a, b
<1>6. ASSUME NEW i \in 1..Len(surfaces'), NEW j \in 1..Len(surfaces'), surfaces'[i] = surfaces'[j]
      PROVE  i = j
  <2> DEFINE g(n) == IF n < k THEN n ELSE n + 1
  <2>1. g(i) \in 1..Len(surfaces) /\ g(j) \in 1..Len(surfaces)
    BY <1>2, <1>5
  <2>2. surfaces[g(i)] = surfaces[g(j)]
    BY <1>5, <1>6
  <2>3. g(i) = g(j)
    BY <2>1, <2>2 DEF ListOK
  <2> QED
    BY <1>2, <1>5, <2>3
<1>7. ASSUME NEW r \in Surfaces
      PROVE  sp'[r] = "live" <=> \E i \in 1..Len(surfaces') : surfaces'[i] = r
  <2>1. CASE r = s
    <3>1. sp'[r] = "freed"
      BY <2>1
    <3>2. ASSUME NEW i \in 1..Len(surfaces'), surfaces'[i] = r
          PROVE  FALSE
      <4> DEFINE j == IF i < k THEN i ELSE i + 1
      <4>1. j \in 1..Len(surfaces) /\ j # k
        BY <1>2, <1>5
      <4>2. surfaces[j] = surfaces[k]
        BY <1>1, <1>5, <2>1, <3>2
      <4> HIDE DEF j
      <4> QED
        BY <4>1, <4>2 DEF ListOK
    <3> QED
      BY <3>1, <3>2
  <2>2. CASE r # s
    <3>1. sp'[r] = sp[r]
      BY <2>2
    <3>2. ASSUME NEW j \in 1..Len(surfaces), surfaces[j] = r
          PROVE  \E i \in 1..Len(surfaces') : surfaces'[i] = r
      <4>1. j # k
        BY <1>1, <2>2, <3>2
      <4> DEFINE i == IF j < k THEN j ELSE j - 1
      <4>2. i \in 1..Len(surfaces') /\ surfaces'[i] = r
        BY <1>2, <1>5, <3>2, <4>1
      <4> QED
        BY <4>2
    <3>3. ASSUME NEW i \in 1..Len(surfaces'), surfaces'[i] = r
          PROVE  \E j \in 1..Len(surfaces) : surfaces[j] = r
      BY <1>2, <1>5, <3>3
    <3> QED
      BY <3>1, <3>2, <3>3 DEF ListOK
  <2> QED
    BY <2>1, <2>2
<1> QED
  BY <1>5, <1>6, <1>7 DEF ListOK

-----------------------------------------------------------------------------
USE DEF surfaceVars, listVars, contextVars, loopVars, renderVars, appVars

(* acquire() at the start of process() and after a context was created, and *)
(* release() on each of its ways out.                                       *)
LEMMA GateAcquired ==
  ASSUME held \in [Surfaces -> {0, 1}], GateBalanced, cur \in Surfaces,
         rpc \notin Acquired, Acquire, rpc' \in Acquired, UNCHANGED cur
  PROVE  held' \in [Surfaces -> {0, 1}] /\ GateBalanced'
  BY DEF GateBalanced, Acquire

LEMMA GateReleased ==
  ASSUME held \in [Surfaces -> {0, 1}], GateBalanced, cur \in Surfaces,
         rpc \in Acquired, held' = [held EXCEPT ![cur] = @ - 1], rpc' \notin Acquired
  PROVE  held' \in [Surfaces -> {0, 1}] /\ GateBalanced'
  BY DEF GateBalanced

LEMMA GateFrame ==
  ASSUME GateBalanced, UNCHANGED held,
         \/ rpc \notin Acquired /\ rpc' \notin Acquired
         \/ rpc \in Acquired /\ rpc' \in Acquired /\ UNCHANGED cur
  PROVE  GateBalanced'
  BY DEF GateBalanced

LEMMA ListFrame ==
  ASSUME ListOK, UNCHANGED <<surfaces, sp>>
  PROVE  ListOK'
  BY DEF ListOK

LEMMA ReferenceFrame ==
  ASSUME ReferenceOK, UNCHANGED <<tasks, sp, cb, pc, visit>>
  PROVE  ReferenceOK'
  BY DEF ReferenceOK, TasksRefer, Known

LEMMA CloseFrame ==
  ASSUME CloseCalls, UNCHANGED <<onclose, sp>>,
         \/ rpc # "erase" /\ rpc' # "erase"
         \/ UNCHANGED <<rpc, cur>>
  PROVE  CloseCalls'
  BY DEF CloseCalls

LEMMA ThreadFrame ==
  ASSUME ThreadOK, UNCHANGED joinable, rpc # "off" \/ UNCHANGED rpc
  PROVE  ThreadOK'
  BY DEF ThreadOK

-----------------------------------------------------------------------------
(* The rendering thread.                                                    *)

LEMMA RunBeginStep == ASSUME IInv, RunBegin PROVE IInv'
<1>1. PS!TypeOK' /\ CallOK'
  BY SurfaceFrame DEF IInv, TypeOK, RunBegin
<1>2. TypeOK'
  BY <1>1 DEF IInv, TypeOK, InProcess, Acquired, RunBegin
<1> QED
  BY <1>1, <1>2 DEF IInv, CurOK, GateBalanced, ListOK, ReferenceOK, TasksRefer, Known, CloseCalls, ThreadOK, InProcess, Acquired, RunBegin

LEMMA RunAfterStep == ASSUME IInv, RunAfter PROVE IInv'
<1>1. PS!TypeOK' /\ CallOK'
  BY SurfaceFrame DEF IInv, TypeOK, RunAfter
<1>2. TypeOK'
  BY <1>1, TaskTypes DEF IInv, TypeOK, InProcess, Acquired, RunAfter
<1> QED
  BY <1>1, <1>2 DEF IInv, CurOK, GateBalanced, ListOK, ReferenceOK, TasksRefer, Known, CloseCalls, ThreadOK, InProcess, Acquired, RunAfter

LEMMA RunExitStep == ASSUME IInv, RunExit PROVE IInv'
<1>1. PS!TypeOK' /\ CallOK'
  BY SurfaceFrame DEF IInv, TypeOK, RunExit
<1>2. TypeOK'
  BY <1>1 DEF IInv, TypeOK, InProcess, Acquired, RunExit
<1> QED
  BY <1>1, <1>2 DEF IInv, CurOK, GateBalanced, ListOK, ReferenceOK, TasksRefer, Known, CloseCalls, ThreadOK, InProcess, Acquired, RunExit

LEMMA ProcessFreedStep == ASSUME IInv, ProcessFreed PROVE IInv'
<1>1. PS!TypeOK' /\ CallOK'
  BY SurfaceFrame DEF IInv, TypeOK, ProcessFreed
<1>2. TypeOK'
  BY <1>1 DEF IInv, TypeOK, InProcess, Acquired, ProcessFreed
<1> QED
  BY <1>1, <1>2 DEF IInv, CurOK, GateBalanced, ListOK, ReferenceOK, TasksRefer, Known, CloseCalls, ThreadOK, InProcess, Acquired, ProcessFreed

LEMMA CreateContextFailsStep == ASSUME IInv, CreateContextFails PROVE IInv'
<1>1. PS!TypeOK' /\ CallOK'
  BY SurfaceFrame DEF IInv, TypeOK, CreateContextFails, Returned
<1>2. TypeOK'
  BY <1>1 DEF IInv, TypeOK, InProcess, Acquired, CreateContextFails, Returned
<1> QED
  BY <1>1, <1>2 DEF IInv, CurOK, GateBalanced, ListOK, ReferenceOK, TasksRefer, Known, CloseCalls, ThreadOK, InProcess, Acquired, CreateContextFails, Returned

LEMMA RunTaskStep == ASSUME IInv, RunTask PROVE IInv'
<1>1. PS!TypeOK' /\ CallOK'
  BY SurfaceFrame DEF IInv, TypeOK, RunTask
<1>2. /\ Head(tasks) \in Task /\ Head(tasks) = tasks[1] /\ Tail(tasks) \in Seq(Task)
      /\ Len(Tail(tasks)) = Len(tasks) - 1 /\ Len(tasks) \in Nat \ {0}
      /\ \A i \in 1..Len(Tail(tasks)) : Tail(tasks)[i] = tasks[i + 1]
  BY HeadTailProperties, EmptySeq DEF IInv, TypeOK, RunTask
<1>3. tasks' = Tail(tasks) /\ task' = Head(tasks) /\ rpc = "pop" /\ UNCHANGED sp
  BY DEF RunTask
<1>4. TasksRefer'
  BY <1>2, <1>3 DEF IInv, ReferenceOK, TasksRefer, Known
<1>5. task'.kind # "update" => task'.s \in Known
  BY <1>2, <1>3 DEF IInv, ReferenceOK, TasksRefer
<1>6. surfaces # <<>> => Head(surfaces) \in Known
  <2>1. SUFFICES ASSUME surfaces # <<>> PROVE Head(surfaces) \in Known
    OBVIOUS
  <2>2. Len(surfaces) \in Nat \ {0} /\ Head(surfaces) = surfaces[1] /\ Head(surfaces) \in Surfaces
    BY <2>1, EmptySeq, HeadTailProperties DEF IInv, TypeOK
  <2>3. sp[Head(surfaces)] = "live"
    BY <2>2 DEF IInv, ListOK
  <2> QED
    BY <2>2, <2>3 DEF Known
<1>7. \/ cur' \in Known /\ rpc' = "enter"
      \/ cur' = Null /\ rpc' = "after"
  BY <1>5, <1>6 DEF RunTask
<1>8. TypeOK'
  BY <1>1, <1>2, <1>3, <1>7 DEF IInv, TypeOK, RunTask, InProcess, Acquired, Known
<1>9. CurOK'
  BY <1>3, <1>7 DEF CurOK, InProcess, Acquired, Known
<1>10. GateBalanced' /\ CloseCalls' /\ ThreadOK' /\ ListOK'
  BY <1>3, <1>7, GateFrame, CloseFrame, ThreadFrame, ListFrame DEF IInv, RunTask, Acquired
<1>11. ReferenceOK'
  BY <1>4 DEF IInv, ReferenceOK, Known, RunTask
<1> QED
  BY <1>1, <1>8, <1>9, <1>10, <1>11 DEF IInv

LEMMA ProcessEnterStep == ASSUME IInv, ProcessEnter PROVE IInv'
<1>1. PS!TypeOK' /\ CallOK'
  BY SurfaceFrame DEF IInv, TypeOK, ProcessEnter
<1>2. /\ cur \in Surfaces /\ sp[cur] = "live" /\ UNCHANGED <<sp, cur>>
      /\ rpc = "enter" /\ rpc' \in {"events", "return", "after"}
  BY DEF IInv, TypeOK, CurOK, InProcess, ProcessEnter, Returned
<1>3. held' \in [Surfaces -> {0, 1}] /\ GateBalanced'
  BY <1>2, GateAcquired, GateFrame DEF IInv, TypeOK, ProcessEnter, Returned, Acquired
<1>4. TypeOK'
  BY <1>1, <1>2, <1>3 DEF IInv, TypeOK, ProcessEnter, InProcess, Acquired
<1>5. CurOK'
  BY <1>2 DEF CurOK, InProcess, Acquired
<1>6. ThreadOK' /\ ListOK' /\ ReferenceOK' /\ CloseCalls'
  BY <1>2, ThreadFrame, ListFrame, ReferenceFrame, CloseFrame DEF IInv, ProcessEnter
<1> QED
  BY <1>1, <1>3, <1>4, <1>5, <1>6 DEF IInv

(* What is common to the steps inside process() that pop an event.          *)
LEMMA NextEventFacts ==
  ASSUME IInv, NEW type, NextEvent(type)
  PROVE  /\ PS!TypeOK' /\ CallOK'
         /\ cur \in Surfaces /\ sp[cur] = "live" /\ rpc = "events"
         /\ UNCHANGED <<closed, native_handle, cb, call>>
<1>1. cur \in Surfaces /\ sp[cur] = "live"
  BY DEF IInv, CurOK, NextEvent, InProcess, Acquired
<1>2. PS!TypeOK'
  BY <1>1, PopTypes DEF IInv, TypeOK, NextEvent
<1> QED
  BY <1>1, <1>2 DEF IInv, CallOK, NextEvent

LEMMA ProcessCloseStep == ASSUME IInv, ProcessClose PROVE IInv'
<1>1. /\ PS!TypeOK' /\ CallOK'
      /\ cur \in Surfaces /\ sp[cur] = "live" /\ rpc = "events" /\ rpc' = "erase"
      /\ UNCHANGED <<cb, cur, sp, surfaces>>
  BY NextEventFacts DEF ProcessClose
<1>2. held' \in [Surfaces -> {0, 1}] /\ GateBalanced'
  BY <1>1, GateReleased DEF IInv, TypeOK, ProcessClose, Acquired
<1>3. live' \in [Surfaces -> Int]
  BY <1>1 DEF IInv, TypeOK, ProcessClose, DestroyContextIf
<1>4. onclose' \in [Surfaces -> {0, 1}] /\ CloseCalls'
  BY <1>1 DEF IInv, TypeOK, CloseCalls, ProcessClose
<1>5. TypeOK'
  BY <1>1, <1>2, <1>3, <1>4 DEF IInv, TypeOK, ProcessClose, InProcess, Acquired
<1>6. CurOK'
  BY <1>1 DEF CurOK, InProcess, Acquired
<1>7. ThreadOK' /\ ListOK' /\ ReferenceOK'
  BY <1>1, ThreadFrame, ListFrame, ReferenceFrame DEF IInv, ProcessClose
<1> QED
  BY <1>1, <1>2, <1>4, <1>5, <1>6, <1>7 DEF IInv

LEMMA ProcessResizeStep == ASSUME IInv, ProcessResize PROVE IInv'
<1>1. /\ PS!TypeOK' /\ CallOK'
      /\ cur \in Surfaces /\ sp[cur] = "live" /\ rpc = "events"
      /\ UNCHANGED <<cb, cur, rpc, sp, surfaces, held, onclose>>
  BY NextEventFacts DEF ProcessResize
<1>2. TypeOK'
  BY <1>1 DEF IInv, TypeOK, ProcessResize, InProcess, Acquired
<1>3. CurOK'
  BY <1>1 DEF CurOK, InProcess, Acquired
<1>4. GateBalanced' /\ ThreadOK' /\ ListOK' /\ ReferenceOK' /\ CloseCalls'
  BY <1>1, GateFrame, ThreadFrame, ListFrame, ReferenceFrame, CloseFrame DEF IInv, ProcessResize, Acquired
<1> QED
  BY <1>1, <1>2, <1>3, <1>4 DEF IInv

LEMMA ProcessNativeHandleStep == ASSUME IInv, ProcessNativeHandle PROVE IInv'
<1>1. /\ PS!TypeOK' /\ CallOK'
      /\ cur \in Surfaces /\ sp[cur] = "live" /\ rpc = "events"
      /\ rpc' \in {"return", "after", "create"}
      /\ UNCHANGED <<cb, cur, sp, surfaces, onclose>>
  BY NextEventFacts DEF ProcessNativeHandle, Returned
<1>2. held' \in [Surfaces -> {0, 1}] /\ GateBalanced'
  BY <1>1, GateReleased DEF IInv, TypeOK, ProcessNativeHandle, Acquired
<1>3. live' \in [Surfaces -> Int]
  BY <1>1 DEF IInv, TypeOK, ProcessNativeHandle, DestroyContextIf
<1>4. TypeOK'
  BY <1>1, <1>2, <1>3 DEF IInv, TypeOK, ProcessNativeHandle, InProcess, Acquired
<1>5. CurOK'
  BY <1>1 DEF CurOK, InProcess, Acquired
<1>6. ThreadOK' /\ ListOK' /\ ReferenceOK' /\ CloseCalls'
  BY <1>1, ThreadFrame, ListFrame, ReferenceFrame, CloseFrame DEF IInv, ProcessNativeHandle
<1> QED
  BY <1>1, <1>2, <1>4, <1>5, <1>6 DEF IInv

LEMMA CreateContextStep == ASSUME IInv, CreateContext PROVE IInv'
<1>1. /\ cur \in Surfaces /\ sp[cur] = "live" /\ rpc = "create"
      /\ rpc' \in {"events", "return", "after"}
      /\ UNCHANGED <<cur, sp, surfaces, onclose>>
  BY DEF IInv, CurOK, InProcess, CreateContext, Returned
<1>2. PS!TypeOK' /\ CallOK'
  BY <1>1 DEF IInv, TypeOK, PS!TypeOK, CallOK, CreateContext, PS!SetEventCallback
<1>3. native_handle[cur] \in Handles
  BY <1>1 DEF IInv, TypeOK, PS!TypeOK, PS!HandleOrNull, CreateContext
<1>4. held' \in [Surfaces -> {0, 1}] /\ GateBalanced'
  BY <1>1, GateAcquired, GateFrame DEF IInv, TypeOK, CreateContext, Returned, Acquired
<1>5. /\ ctx' \in [Surfaces -> Handles \cup {Null}] /\ rctx' \in Handles \cup {Null}
      /\ live' \in [Surfaces -> Int]
  BY <1>1, <1>3 DEF IInv, TypeOK, CreateContext
<1>6. TypeOK'
  BY <1>1, <1>2, <1>4, <1>5 DEF IInv, TypeOK, CreateContext, InProcess, Acquired
<1>7. CurOK'
  BY <1>1 DEF CurOK, InProcess, Acquired
<1>8. ReferenceOK'
  BY <1>1 DEF IInv, TypeOK, PS!TypeOK, ReferenceOK, TasksRefer, Known, CreateContext, PS!SetEventCallback
<1>9. ThreadOK' /\ ListOK' /\ CloseCalls'
  BY <1>1, ThreadFrame, ListFrame, CloseFrame DEF IInv, CreateContext
<1> QED
  BY <1>2, <1>4, <1>6, <1>7, <1>8, <1>9 DEF IInv

LEMMA ProcessDrawStep == ASSUME IInv, ProcessDraw PROVE IInv'
<1>1. /\ cur \in Surfaces /\ sp[cur] = "live" /\ rpc = "events"
      /\ rpc' \in {"release", "return", "after"}
      /\ UNCHANGED <<cur, sp, surfaces, onclose>>
  BY DEF IInv, CurOK, InProcess, Acquired, ProcessDraw, Returned
<1>2. PS!TypeOK' /\ CallOK' /\ UNCHANGED cb
  BY <1>1, SurfaceFrame, CallTypes, ThreadTypes DEF IInv, TypeOK, ProcessDraw
<1>3. left' \in [Threads -> [Ops -> Nat]]
  BY SpendTypes, ThreadTypes DEF IInv, TypeOK, ProcessDraw, Ops
<1>4. held' \in [Surfaces -> {0, 1}] /\ GateBalanced'
  <2>1. CASE UNCHANGED held /\ rpc' = "release"
    BY <1>1, <2>1, GateFrame DEF IInv, TypeOK, Acquired
  <2>2. CASE held' = [held EXCEPT ![cur] = @ - 1] /\ rpc' # "release"
    BY <1>1, <2>2, GateReleased DEF IInv, TypeOK, Acquired
  <2> QED
    BY <2>1, <2>2 DEF ProcessDraw, Returned
<1>5. TypeOK'
  BY <1>1, <1>2, <1>3, <1>4 DEF IInv, TypeOK, ProcessDraw, InProcess, Acquired
<1>6. CurOK'
  BY <1>1 DEF CurOK, InProcess, Acquired
<1>7. ThreadOK' /\ ListOK' /\ ReferenceOK' /\ CloseCalls'
  BY <1>1, <1>2, ThreadFrame, ListFrame, ReferenceFrame, CloseFrame DEF IInv, ProcessDraw
<1> QED
  BY <1>2, <1>4, <1>5, <1>6, <1>7 DEF IInv

LEMMA ProcessReleaseStep == ASSUME IInv, ProcessRelease PROVE IInv'
<1>1. PS!TypeOK' /\ CallOK'
  BY SurfaceFrame DEF IInv, TypeOK, ProcessRelease
<1>2. /\ cur \in Surfaces /\ sp[cur] = "live" /\ rpc = "release"
      /\ rpc' \in {"return", "after"} /\ UNCHANGED <<cur, sp>>
  BY DEF IInv, CurOK, InProcess, Acquired, ProcessRelease, Returned
<1>3. held' \in [Surfaces -> {0, 1}] /\ GateBalanced'
  BY <1>2, GateReleased DEF IInv, TypeOK, ProcessRelease, Acquired
<1>4. TypeOK'
  BY <1>1, <1>2, <1>3 DEF IInv, TypeOK, ProcessRelease, InProcess, Acquired
<1>5. CurOK'
  BY <1>2 DEF CurOK, InProcess, Acquired
<1>6. ThreadOK' /\ ListOK' /\ ReferenceOK' /\ CloseCalls'
  BY <1>2, ThreadFrame, ListFrame, ReferenceFrame, CloseFrame DEF IInv, ProcessRelease
<1> QED
  BY <1>1, <1>3, <1>4, <1>5, <1>6 DEF IInv

LEMMA ProcessEraseStep == ASSUME IInv, ProcessErase PROVE IInv'
<1>1. PS!TypeOK' /\ CallOK'
  BY SurfaceFrame DEF IInv, TypeOK, ProcessErase
<1>2. /\ cur \in Surfaces /\ rpc = "erase" /\ rpc' \in {"removed", "after"}
      /\ UNCHANGED <<cur, onclose, held>> /\ sp' = [sp EXCEPT ![cur] = "freed"]
  BY DEF IInv, CurOK, InProcess, ProcessErase, ReturnedNull
<1>3. surfaces' \in Seq(Surfaces) /\ ListOK'
  BY <1>2, EraseSurface DEF IInv, TypeOK, ProcessErase
<1>4. TypeOK'
  BY <1>1, <1>2, <1>3 DEF IInv, TypeOK, ProcessErase, InProcess, Acquired
<1>5. CurOK'
  BY <1>2 DEF IInv, TypeOK, CurOK, InProcess, Acquired
<1>6. GateBalanced' /\ ThreadOK'
  BY <1>2, GateFrame, ThreadFrame DEF IInv, Acquired, ProcessErase
<1>7. ReferenceOK'
  BY <1>2 DEF IInv, TypeOK, ReferenceOK, TasksRefer, Known, ProcessErase
<1>8. CloseCalls'
  BY <1>2 DEF IInv, TypeOK, CloseCalls
<1> QED
  BY <1>1, <1>3, <1>4, <1>5, <1>6, <1>7, <1>8 DEF IInv

(* The next surface of the list exists and is live.                         *)
LEMMA UpdateNextStep == ASSUME IInv, UpdateNext PROVE IInv'
<1>1. PS!TypeOK' /\ CallOK'
  BY SurfaceFrame DEF IInv, TypeOK, UpdateNext
<1>2. /\ cur \in Surfaces /\ sp[cur] = "live" /\ rpc = "return"
      /\ UNCHANGED <<surfaces, sp, held, onclose>>
  BY DEF IInv, CurOK, InProcess, UpdateNext
<1>3. \/ rpc' = "after" /\ cur' = cur
      \/ rpc' = "enter" /\ cur' \in Surfaces /\ sp[cur'] = "live"
  <2>1. CASE cur = Last(surfaces)
    BY <2>1 DEF UpdateNext
  <2>2. CASE cur # Last(surfaces)
    <3> DEFINE k == CHOOSE i \in 2..Len(surfaces) : surfaces[i - 1] = cur
    <3>1. Len(surfaces) \in Nat /\ \A i \in 1..Len(surfaces) : surfaces[i] \in Surfaces
      BY LenProperties, ElementOfSeq DEF IInv, TypeOK
    <3>2. PICK j \in 1..Len(surfaces) : surfaces[j] = cur
      BY <1>2 DEF IInv, ListOK
    <3>3. j # Len(surfaces)
      BY <2>2, <3>2 DEF Last
    <3>4. j + 1 \in 2..Len(surfaces) /\ surfaces[(j + 1) - 1] = cur
      BY <3>1, <3>2, <3>3
    <3>5. k \in 2..Len(surfaces)
      BY <3>4
    <3>6. surfaces[k] \in Surfaces /\ sp[surfaces[k]] = "live"
      BY <3>1, <3>5 DEF IInv, ListOK
    <3> QED
      BY <2>2, <3>6 DEF UpdateNext
  <2> QED
    BY <2>1, <2>2
<1>4. TypeOK'
  BY <1>1, <1>2, <1>3 DEF IInv, TypeOK, UpdateNext, InProcess, Acquired
<1>5. CurOK'
  BY <1>2, <1>3 DEF CurOK, InProcess, Acquired
<1>6. GateBalanced' /\ ThreadOK' /\ ListOK' /\ ReferenceOK' /\ CloseCalls'
  BY <1>2, <1>3, GateFrame, ThreadFrame, ListFrame, ReferenceFrame, CloseFrame DEF IInv, UpdateNext, Acquired
<1> QED
  BY <1>1, <1>4, <1>5, <1>6 DEF IInv

(* The surface the task of add() cleans up is freed: it is not in the list. *)
LEMMA AddTaskEraseStep == ASSUME IInv, AddTaskErase PROVE IInv'
<1>1. PS!TypeOK' /\ CallOK'
  BY SurfaceFrame DEF IInv, TypeOK, AddTaskErase
<1>2. cur \in Surfaces /\ sp[cur] = "freed" /\ rpc = "removed"
  BY DEF IInv, CurOK, InProcess, AddTaskErase
<1>3. cur \notin ToSet(surfaces)
  <2>1. DOMAIN surfaces = 1..Len(surfaces)
    BY LenProperties DEF IInv, TypeOK
  <2> QED
    BY <1>2, <2>1 DEF IInv, ListOK, ToSet
<1>4. rpc' = "fault" /\ UNCHANGED <<surfaces, sp, cur, held, onclose>>
  BY <1>3 DEF AddTaskErase
<1>5. TypeOK'
  BY <1>1, <1>3, <1>4 DEF IInv, TypeOK, AddTaskErase, InProcess, Acquired
<1>6. CurOK'
  BY <1>4 DEF CurOK, InProcess, Acquired
<1>7. GateBalanced' /\ ThreadOK' /\ ListOK' /\ ReferenceOK' /\ CloseCalls'
  BY <1>2, <1>4, GateFrame, ThreadFrame, ListFrame, ReferenceFrame, CloseFrame DEF IInv, AddTaskErase, Acquired
<1> QED
  BY <1>1, <1>5, <1>6, <1>7 DEF IInv

(* A step of pushEvent(), whichever thread runs it.                         *)
LEMMA PushStepStep == ASSUME IInv, NEW t \in Threads, PushStep(t) PROVE IInv'
<1>1. PS!TypeOK' /\ CallOK' /\ UNCHANGED cb
  BY PushTypes DEF IInv, TypeOK, PushStep
<1>2. tasks' \in Seq(Task) /\ TasksRefer'
  <2>1. CASE UNCHANGED tasks
    BY <2>1 DEF IInv, TypeOK, ReferenceOK, TasksRefer, Known, PushStep
  <2>2. CASE PS!Notifies(t) /\ Schedule(EventTask(call[t].s))
    <3>1. call[t].s \in Surfaces /\ cb[call[t].s]
      BY <2>2 DEF IInv, CallOK, PS!Notifies
    <3>2. EventTask(call[t].s) \in Task /\ EventTask(call[t].s).s \in Known
      BY <3>1, TaskTypes DEF IInv, ReferenceOK, EventTask
    <3> QED
      BY <2>2, <3>2, ScheduleStep DEF IInv, TypeOK, ReferenceOK, PushStep
  <2> QED
    BY <2>1, <2>2 DEF PushStep
<1>3. TypeOK'
  BY <1>1, <1>2 DEF IInv, TypeOK, PushStep
<1>4. ReferenceOK'
  BY <1>1, <1>2 DEF IInv, ReferenceOK, Known, PushStep
<1>5. CurOK' /\ GateBalanced'
  BY DEF IInv, CurOK, GateBalanced, PushStep
<1>6. ThreadOK' /\ ListOK' /\ CloseCalls'
  BY ThreadFrame, ListFrame, CloseFrame DEF IInv, PushStep
<1> QED
  BY <1>1, <1>3, <1>4, <1>5, <1>6 DEF IInv

(* A step that begins a call of a surface on thread t and otherwise changes *)
(* at most what t has still to visit and a quota.                           *)
LEMMA CallStep ==
  ASSUME IInv, NEW t \in Threads, NEW s \in Surfaces,
         \/ PS!ResizeSurface(t, s)
         \/ PS!CloseSurface(t, s)
         \/ \E h \in Handles \cup {Null} : PS!ResetNativeHandle(t, s, h),
         visit' \in [App -> Seq(Surfaces)],
         \A u \in App : pc[u] \in {"add_cb", "add_task"} => visit'[u] = visit[u],
         left' \in [Threads -> [Ops -> Nat]],
         UNCHANGED <<listVars, contextVars, loopVars, renderVars, pc, tasks, allowed, fault>>
  PROVE  IInv'
<1>1. PS!TypeOK' /\ CallOK' /\ UNCHANGED cb
  BY CallTypes DEF IInv, TypeOK
<1>2. TypeOK'
  BY <1>1 DEF IInv, TypeOK
<1>3. ReferenceOK'
  BY <1>1 DEF IInv, ReferenceOK, TasksRefer, Known
<1>4. CurOK' /\ GateBalanced'
  BY DEF IInv, CurOK, GateBalanced
<1>5. ThreadOK' /\ ListOK' /\ CloseCalls'
  BY ThreadFrame, ListFrame, CloseFrame DEF IInv
<1> QED
  BY <1>1, <1>2, <1>3, <1>4, <1>5 DEF IInv

LEMMA NativeEventStep ==
  ASSUME IInv, NEW t \in Threads, NEW s \in Surfaces, NativeEvent(t, s),
         UNCHANGED <<listVars, contextVars, loopVars, renderVars, appVars, tasks, allowed, fault>>
  PROVE  IInv'
<1>1. left' \in [Threads -> [Ops -> Nat]]
  BY SpendTypes, ThreadTypes DEF IInv, TypeOK, NativeEvent, Ops
<1>2. visit' \in [App -> Seq(Surfaces)]
  BY DEF IInv, TypeOK
<1> QED
  BY <1>1, <1>2, CallStep DEF NativeEvent

LEMMA ProcessNativeStep == ASSUME IInv, ProcessNative PROVE IInv'
<1>1. cur \in Surfaces
  BY DEF IInv, CurOK, InProcess, Acquired, ProcessNative
<1> QED
  BY <1>1, NativeEventStep, ThreadTypes DEF ProcessNative


LEMMA LockAndVisitStep == ASSUME IInv, NEW t \in App, NEW from \in {"stop_lock", "poll_lock"}, NEW to \in {"stop", "poll"}, LockAndVisit(t, from, to) PROVE IInv'
<1>1. PS!TypeOK' /\ CallOK'
  BY SurfaceFrame DEF IInv, TypeOK, LockAndVisit, Lock, Goto
<1>2. TypeOK'
  BY <1>1 DEF IInv, TypeOK, InProcess, Acquired, LockAndVisit, Lock, Goto
<1> QED
  BY <1>1, <1>2 DEF IInv, CurOK, GateBalanced, ListOK, ReferenceOK, TasksRefer, Known, CloseCalls, ThreadOK, InProcess, Acquired, LockAndVisit, Lock, Goto

LEMMA UnlockAndGoStep == ASSUME IInv, NEW t \in App, NEW from \in {"stop", "poll"}, NEW to \in {"idle", "wait"}, UnlockAndGo(t, from, to) PROVE IInv'
<1>1. PS!TypeOK' /\ CallOK'
  BY SurfaceFrame DEF IInv, TypeOK, UnlockAndGo, Unlock, Goto
<1>2. TypeOK'
  BY <1>1 DEF IInv, TypeOK, InProcess, Acquired, UnlockAndGo, Unlock, Goto
<1> QED
  BY <1>1, <1>2 DEF IInv, CurOK, GateBalanced, ListOK, ReferenceOK, TasksRefer, Known, CloseCalls, ThreadOK, InProcess, Acquired, UnlockAndGo, Unlock, Goto

LEMMA StopStep == ASSUME IInv, NEW t \in App, Stop(t) PROVE IInv'
<1>1. PS!TypeOK' /\ CallOK'
  BY SurfaceFrame DEF IInv, TypeOK, Stop, Free, Goto
<1>2. left' \in [Threads -> [Ops -> Nat]]
  BY SpendTypes, ThreadTypes DEF IInv, TypeOK, Stop, Ops
<1>3. TypeOK'
  BY <1>1, <1>2 DEF IInv, TypeOK, InProcess, Acquired, Stop, Free, Goto
<1> QED
  BY <1>1, <1>3 DEF IInv, CurOK, GateBalanced, ListOK, ReferenceOK, TasksRefer, Known, CloseCalls, ThreadOK, InProcess, Acquired, Stop, Free, Goto

LEMMA WaitStep == ASSUME IInv, NEW t \in App, Wait(t) PROVE IInv'
<1>1. PS!TypeOK' /\ CallOK'
  BY SurfaceFrame DEF IInv, TypeOK, Wait, Free, Goto
<1>2. left' \in [Threads -> [Ops -> Nat]]
  BY SpendTypes, ThreadTypes DEF IInv, TypeOK, Wait, Ops
<1>3. TypeOK'
  BY <1>1, <1>2 DEF IInv, TypeOK, InProcess, Acquired, Wait, Free, Goto
<1> QED
  BY <1>1, <1>3 DEF IInv, CurOK, GateBalanced, ListOK, ReferenceOK, TasksRefer, Known, CloseCalls, ThreadOK, InProcess, Acquired, Wait, Free, Goto

LEMMA WaitCheckStep == ASSUME IInv, NEW t \in App, WaitCheck(t) PROVE IInv'
<1>1. PS!TypeOK' /\ CallOK'
  BY SurfaceFrame DEF IInv, TypeOK, WaitCheck, Goto
<1>2. TypeOK'
  BY <1>1 DEF IInv, TypeOK, InProcess, Acquired, WaitCheck, Goto
<1> QED
  BY <1>1, <1>2 DEF IInv, CurOK, GateBalanced, ListOK, ReferenceOK, TasksRefer, Known, CloseCalls, ThreadOK, InProcess, Acquired, WaitCheck, Goto

LEMMA WaitNextStep == ASSUME IInv, NEW t \in App, WaitNext(t) PROVE IInv'
<1>1. PS!TypeOK' /\ CallOK'
  BY SurfaceFrame DEF IInv, TypeOK, WaitNext
<1>2. TypeOK'
  BY <1>1 DEF IInv, TypeOK, InProcess, Acquired, WaitNext
<1> QED
  BY <1>1, <1>2 DEF IInv, CurOK, GateBalanced, ListOK, ReferenceOK, TasksRefer, Known, CloseCalls, ThreadOK, InProcess, Acquired, WaitNext

LEMMA AppStateStep == ASSUME IInv, NEW s \in Surfaces, AppState(s) PROVE IInv'
<1>1. PS!TypeOK' /\ CallOK'
  BY SurfaceFrame DEF IInv, TypeOK, AppState
<1>2. left' \in [Threads -> [Ops -> Nat]]
  BY SpendTypes, ThreadTypes DEF IInv, TypeOK, AppState, Ops
<1>3. TypeOK'
  BY <1>1, <1>2 DEF IInv, TypeOK, InProcess, Acquired, AppState
<1> QED
  BY <1>1, <1>3 DEF IInv, CurOK, GateBalanced, ListOK, ReferenceOK, TasksRefer, Known, CloseCalls, ThreadOK, InProcess, Acquired, AppState

LEMMA StartStep == ASSUME IInv, NEW t \in App, Start(t) PROVE IInv'
<1>1. PS!TypeOK' /\ CallOK'
  BY SurfaceFrame DEF IInv, TypeOK, Start
<1>2. left' \in [Threads -> [Ops -> Nat]]
  BY SpendTypes, ThreadTypes DEF IInv, TypeOK, Start, Ops
<1>3. TypeOK'
  BY <1>1, <1>2 DEF IInv, TypeOK, Start, Goto, InProcess, Acquired
<1>4. \/ rpc = "off" /\ rpc' = "begin"
      \/ UNCHANGED rpc
  BY DEF IInv, ThreadOK, Start
<1>5. UNCHANGED <<surfaces, sp, held, onclose, cur, tasks, cb, visit>>
  BY DEF Start
<1>6. CurOK'
  BY <1>4, <1>5 DEF IInv, CurOK, InProcess, Acquired
<1>7. GateBalanced' /\ ListOK' /\ CloseCalls'
  BY <1>4, <1>5, GateFrame, ListFrame, CloseFrame DEF IInv, GateBalanced, Acquired
<1>8. ReferenceOK'
  BY <1>5 DEF IInv, TypeOK, ReferenceOK, TasksRefer, Known, Start, Goto
<1>9. ThreadOK'
  BY DEF IInv, ThreadOK, Start
<1> QED
  BY <1>1, <1>3, <1>6, <1>7, <1>8, <1>9 DEF IInv

LEMMA JoinStep == ASSUME IInv, NEW t \in App, Join(t) PROVE IInv'
<1>1. PS!TypeOK' /\ CallOK'
  BY SurfaceFrame DEF IInv, TypeOK, Join
<1>2. pc' \in [App -> {"idle", "add_cb", "add_task", "stop_lock", "stop", "wait",
                       "poll_lock", "poll", "join", "fault"}]
  BY DEF IInv, TypeOK, Join, Goto
<1>3. joinable' \in BOOLEAN
  BY DEF Join
<1>4. TypeOK'
  BY <1>1, <1>2, <1>3 DEF IInv, TypeOK, Join
<1>5. ReferenceOK'
  BY DEF IInv, TypeOK, ReferenceOK, TasksRefer, Known, Join, Goto
<1>6. CurOK' /\ GateBalanced'
  BY DEF IInv, CurOK, GateBalanced, Join
<1>7. ThreadOK' /\ ListOK' /\ CloseCalls'
  BY ListFrame, CloseFrame DEF IInv, ThreadOK, Join
<1> QED
  BY <1>1, <1>4, <1>5, <1>6, <1>7 DEF IInv

LEMMA AddPushBackStep ==
  ASSUME IInv, NEW t \in App, NEW s \in Surfaces, AddPushBack(t, s)
  PROVE  IInv'
<1>1. PS!TypeOK' /\ CallOK'
  BY SurfaceFrame DEF IInv, TypeOK, AddPushBack
<1>2. left' \in [Threads -> [Ops -> Nat]]
  BY SpendTypes, ThreadTypes DEF IInv, TypeOK, AddPushBack, Ops
<1>3. /\ sp[s] = "new" /\ sp' = [sp EXCEPT ![s] = "live"]
      /\ pc' = [pc EXCEPT ![t] = "add_cb"] /\ visit' = [visit EXCEPT ![t] = <<s>>]
      /\ UNCHANGED <<onclose, held, rpc, cur, tasks, cb>>
  BY DEF AddPushBack, Goto
<1>4. surfaces' \in Seq(Surfaces) /\ ListOK'
  BY <1>3, AppendSurface DEF IInv, TypeOK, AddPushBack
<1>5. visit' \in [App -> Seq(Surfaces)]
  <2>1. <<s>> \in Seq(Surfaces)
    OBVIOUS
  <2> QED
    BY <1>3, <2>1 DEF IInv, TypeOK
<1>6. TypeOK'
  BY <1>1, <1>2, <1>3, <1>4, <1>5 DEF IInv, TypeOK, AddPushBack, Lock
<1>7. CurOK'
  BY <1>3 DEF IInv, TypeOK, CurOK, InProcess, Acquired
<1>8. GateBalanced' /\ ThreadOK'
  BY <1>3, GateFrame, ThreadFrame DEF IInv, AddPushBack
<1>9. ReferenceOK'
  <2>1. Known \subseteq Known' /\ s \in Known'
    BY <1>3 DEF IInv, TypeOK, Known
  <2>2. <<s>> # <<>> /\ Head(<<s>>) = s
    OBVIOUS
  <2>3. TasksRefer' /\ \A r \in Surfaces : cb'[r] => r \in Known'
    BY <1>3, <2>1 DEF IInv, ReferenceOK, TasksRefer
  <2>4. \A u \in App : pc'[u] \in {"add_cb", "add_task"}
                        => visit'[u] # <<>> /\ Head(visit'[u]) \in Known'
    BY <1>3, <2>1, <2>2 DEF IInv, TypeOK, ReferenceOK
  <2> QED
    BY <2>3, <2>4 DEF ReferenceOK
<1>10. CloseCalls'
  BY <1>3 DEF IInv, TypeOK, CloseCalls, CurOK, InProcess, Acquired
<1> QED
  BY <1>1, <1>4, <1>6, <1>7, <1>8, <1>9, <1>10 DEF IInv

LEMMA AddSetCallbackStep == ASSUME IInv, NEW t \in App, AddSetCallback(t) PROVE IInv'
<1>1. Head(visit[t]) \in Known
  BY DEF IInv, ReferenceOK, AddSetCallback
<1>2. PS!TypeOK' /\ CallOK'
  BY <1>1 DEF IInv, TypeOK, PS!TypeOK, CallOK, AddSetCallback, PS!SetEventCallback, Known
<1>3. TypeOK'
  BY <1>2 DEF IInv, TypeOK, AddSetCallback, Goto
<1>4. ReferenceOK'
  BY <1>1 DEF IInv, TypeOK, PS!TypeOK, ReferenceOK, TasksRefer, Known, AddSetCallback, Goto,
              PS!SetEventCallback
<1>5. CurOK' /\ GateBalanced'
  BY DEF IInv, CurOK, GateBalanced, AddSetCallback
<1>6. ThreadOK' /\ ListOK' /\ CloseCalls'
  BY ThreadFrame, ListFrame, CloseFrame DEF IInv, AddSetCallback
<1> QED
  BY <1>2, <1>3, <1>4, <1>5, <1>6 DEF IInv

LEMMA AddScheduleStep == ASSUME IInv, NEW t \in App, AddSchedule(t) PROVE IInv'
<1> DEFINE s == Head(visit[t])
<1>1. s \in Known /\ s \in Surfaces
  BY DEF IInv, ReferenceOK, AddSchedule, Known
<1>2. PS!TypeOK' /\ CallOK'
  BY SurfaceFrame DEF IInv, TypeOK, AddSchedule
<1>3. tasks' \in Seq(Task) /\ TasksRefer'
  <2>1. AddTask(s) \in Task /\ AddTask(s).s \in Known
    BY <1>1, TaskTypes DEF AddTask
  <2> QED
    BY <2>1, ScheduleStep DEF IInv, TypeOK, ReferenceOK, AddSchedule
<1>4. visit' \in [App -> Seq(Surfaces)]
  BY DEF IInv, TypeOK, AddSchedule
<1>5. TypeOK'
  BY <1>2, <1>3, <1>4 DEF IInv, TypeOK, AddSchedule, Unlock, Goto
<1>6. ReferenceOK'
  BY <1>3 DEF IInv, TypeOK, ReferenceOK, Known, AddSchedule, Goto
<1>7. CurOK' /\ GateBalanced'
  BY DEF IInv, CurOK, GateBalanced, AddSchedule
<1>8. ThreadOK' /\ ListOK' /\ CloseCalls'
  BY ThreadFrame, ListFrame, CloseFrame DEF IInv, AddSchedule
<1> QED
  BY <1>2, <1>3, <1>5, <1>6, <1>7, <1>8 DEF IInv

LEMMA UpdateStep == ASSUME IInv, NEW t \in App, Update(t) PROVE IInv'
<1>1. PS!TypeOK' /\ CallOK'
  BY SurfaceFrame DEF IInv, TypeOK, Update
<1>2. left' \in [Threads -> [Ops -> Nat]]
  BY SpendTypes, ThreadTypes DEF IInv, TypeOK, Update, Ops
<1>3. tasks' \in Seq(Task) /\ TasksRefer'
  BY TaskTypes, ScheduleStep DEF IInv, TypeOK, ReferenceOK, Update, UpdateTask
<1>4. TypeOK'
  BY <1>1, <1>2, <1>3 DEF IInv, TypeOK, Update
<1>5. ReferenceOK'
  BY <1>3 DEF IInv, ReferenceOK, Known, Update
<1>6. CurOK' /\ GateBalanced'
  BY DEF IInv, CurOK, GateBalanced, Update
<1>7. ThreadOK' /\ ListOK' /\ CloseCalls'
  BY ThreadFrame, ListFrame, CloseFrame DEF IInv, Update
<1> QED
  BY <1>1, <1>4, <1>5, <1>6, <1>7 DEF IInv

LEMMA SurfaceCallStep ==
  ASSUME IInv, NEW t \in App, NEW s \in Surfaces, SurfaceCall(t, s)
  PROVE  IInv'
<1>1. t \in Threads
  BY ThreadTypes
<1>2. left' \in [Threads -> [Ops -> Nat]]
  BY <1>1, SpendTypes DEF IInv, TypeOK, SurfaceCall, Ops
<1>3. visit' \in [App -> Seq(Surfaces)]
  BY DEF IInv, TypeOK, SurfaceCall
<1>4. \/ PS!ResizeSurface(t, s)
      \/ PS!CloseSurface(t, s)
      \/ \E h \in Handles \cup {Null} : PS!ResetNativeHandle(t, s, h)
  BY DEF SurfaceCall
<1> QED
  BY <1>1, <1>2, <1>3, <1>4, CallStep DEF SurfaceCall

LEMMA StopCloseStep == ASSUME IInv, NEW t \in App, StopClose(t) PROVE IInv'
<1>1. Head(visit[t]) \in Surfaces /\ Tail(visit[t]) \in Seq(Surfaces)
  BY HeadTailProperties DEF IInv, TypeOK, StopClose
<1>2. visit' = [visit EXCEPT ![t] = Tail(visit[t])] /\ pc[t] = "stop"
  BY DEF StopClose
<1>3. /\ visit' \in [App -> Seq(Surfaces)]
      /\ \A u \in App : pc[u] \in {"add_cb", "add_task"} => visit'[u] = visit[u]
  BY <1>1, <1>2 DEF IInv, TypeOK
<1>4. left' \in [Threads -> [Ops -> Nat]]
  BY DEF IInv, TypeOK, StopClose
<1>5. CASE PS!CloseSurface(t, Head(visit[t]))
  BY <1>1, <1>3, <1>4, <1>5, CallStep, ThreadTypes DEF StopClose
<1>6. CASE UNCHANGED surfaceVars
  <2>1. PS!TypeOK' /\ CallOK'
    BY <1>6, SurfaceFrame DEF IInv, TypeOK, surfaceVars
  <2>2. TypeOK'
    BY <1>3, <1>4, <2>1 DEF IInv, TypeOK, StopClose
  <2>3. ReferenceOK'
    BY <1>3, <1>6 DEF IInv, TypeOK, ReferenceOK, TasksRefer, Known, StopClose, surfaceVars
  <2> QED
    BY <1>2, <1>3, <1>6, <2>1, <2>2, <2>3
       DEF IInv, CurOK, GateBalanced, ListOK, CloseCalls, ThreadOK, StopClose, surfaceVars
<1> QED
  BY <1>5, <1>6 DEF StopClose

LEMMA WaitNativeStep == ASSUME IInv, NEW t \in App, WaitNative(t) PROVE IInv'
<1>1. Head(visit[t]) \in Surfaces
  BY HeadTailProperties DEF IInv, TypeOK, WaitNative
<1> QED
  BY <1>1, NativeEventStep, ThreadTypes DEF WaitNative


-----------------------------------------------------------------------------
LEMMA InitIInv == ASSUME Init PROVE IInv
<1>1. PS!TypeOK /\ CallOK
  <2> DEFINE E == [ev : PS!Event, by : Threads \cup {Null}]
             First(h) == [ev |-> PS!NativeHandle(Null, h), by |-> Null]
  <2>1. \A h \in Handles : First(h) \in E
    BY EventTypes DEF PS!HandleOrNull
  <2> HIDE DEF E
  <2>2. \A h \in Handles : <<First(h)>> \in Seq(E)
    BY <2>1
  <2>3. <<>> \in Seq(E)
    BY EmptySeq
  <2>4. events \in [Surfaces -> {<<>>} \cup {<<First(h)>> : h \in Handles}]
    BY DEF Init, PS!Init
  <2> HIDE DEF First
  <2>5. events \in [Surfaces -> Seq(E)]
    BY <2>2, <2>3, <2>4
  <2> QED
    BY <2>5, EventTypes DEF Init, PS!Init, PS!TypeOK, CallOK, E
<1>2. TypeOK
  <2>1. /\ surfaces \in Seq(Surfaces) /\ tasks \in Seq(Task)
        /\ visit \in [App -> Seq(Surfaces)]
    BY EmptySeq DEF Init
  <2>2. task \in Task /\ left \in [Threads -> [Ops -> Nat]]
    BY TaskTypes, QuotaAssumption DEF Init
  <2>3. /\ sp \in [Surfaces -> {"new", "live", "freed"}]
        /\ ctx \in [Surfaces -> Handles \cup {Null}]
        /\ sized \in [Surfaces -> BOOLEAN]
        /\ held \in [Surfaces -> {0, 1}] /\ allowed \in [Surfaces -> BOOLEAN]
        /\ live \in [Surfaces -> Int] /\ onclose \in [Surfaces -> {0, 1}]
    BY DEF Init
  <2>4. /\ running \in BOOLEAN /\ stop_requested \in BOOLEAN
        /\ stop_on_last_close \in BOOLEAN /\ joinable \in BOOLEAN
    BY DEF Init
  <2>5. /\ mtx = Null /\ rpc = "off" /\ cur = Null /\ rctx = Null /\ fault = "none"
        /\ pc = [t \in App |-> "idle"]
    BY DEF Init
  <2> QED
    BY <1>1, <2>1, <2>2, <2>3, <2>4, <2>5 DEF TypeOK
<1>3. CurOK /\ GateBalanced /\ CloseCalls /\ ThreadOK
  BY DEF Init, CurOK, GateBalanced, CloseCalls, ThreadOK, InProcess, Acquired
<1>4. ListOK
  BY DEF Init, ListOK
<1>5. ReferenceOK
  BY DEF Init, PS!Init, ReferenceOK, TasksRefer
<1> QED
  BY <1>1, <1>2, <1>3, <1>4, <1>5 DEF IInv

LEMMA StutterStep == ASSUME IInv, UNCHANGED vars PROVE IInv'
<1>1. PS!TypeOK' /\ CallOK'
  BY SurfaceFrame DEF IInv, TypeOK, vars
<1>2. TypeOK'
  BY <1>1 DEF IInv, TypeOK, vars
<1> QED
  BY <1>1, <1>2 DEF IInv, CurOK, GateBalanced, ListOK, ReferenceOK, TasksRefer, Known, CloseCalls,
                    ThreadOK, vars

(* Every step of every thread keeps the invariant.                          *)
LEMMA NextStep == ASSUME IInv, [Next]_vars PROVE IInv'
<1>1. CASE RenderStep
  BY <1>1, RunBeginStep, RunTaskStep, RunAfterStep, RunExitStep, ProcessFreedStep,
     ProcessEnterStep, ProcessCloseStep, ProcessResizeStep, ProcessNativeHandleStep,
     CreateContextStep, CreateContextFailsStep, ProcessDrawStep, ProcessReleaseStep,
     ProcessEraseStep, UpdateNextStep, AddTaskEraseStep, PushStepStep, ThreadTypes
  DEF RenderStep
<1>2. CASE ProcessNative
  BY <1>2, ProcessNativeStep
<1>3. ASSUME NEW t \in App, AppCall(t) PROVE IInv'
  BY <1>3, StartStep, UpdateStep, StopStep, WaitStep, AddPushBackStep, SurfaceCallStep
  DEF AppCall
<1>4. ASSUME NEW t \in App, AppLock(t) PROVE IInv'
  BY <1>4, LockAndVisitStep DEF AppLock, StopLock, WaitLock
<1>5. ASSUME NEW t \in App, AppStep(t) PROVE IInv'
  BY <1>5, PushStepStep, AddSetCallbackStep, AddScheduleStep, StopCloseStep, UnlockAndGoStep,
     WaitCheckStep, WaitNextStep, JoinStep, ThreadTypes
  DEF AppStep, StopUnlock, WaitUnlock
<1>6. ASSUME NEW t \in App, WaitNative(t) PROVE IInv'
  BY <1>6, WaitNativeStep
<1>7. ASSUME NEW s \in Surfaces, AppState(s) PROVE IInv'
  BY <1>7, AppStateStep
<1>8. CASE UNCHANGED vars
  BY <1>8, StutterStep
<1> QED
  BY <1>1, <1>2, <1>3, <1>4, <1>5, <1>6, <1>7, <1>8 DEF Next

(* The inductive invariant holds in every reachable state.                  *)
THEOREM Inductive == Spec => []IInv
  BY InitIInv, NextStep, PTL DEF Spec

(* The variables of the loop and of its surfaces keep their types.          *)
THEOREM TypeCorrect == Spec => []TypeOK
<1>1. IInv => TypeOK
  BY DEF IInv
<1> QED
  BY <1>1, Inductive, PTL

(* process() acquires and releases a surface in pairs, on every way out.    *)
THEOREM AcquireReleaseBalanced == Spec => []GateBalanced
<1>1. IInv => GateBalanced
  BY DEF IInv
<1> QED
  BY <1>1, Inductive, PTL

(* A surface that process() removed has left the list and was reported to   *)
(* onClose() once; the list holds exactly the others.                       *)
THEOREM RemovedOnce == Spec => []ClosedOnce
<1>1. IInv => ClosedOnce
  <2>1. ASSUME IInv, NEW s \in Surfaces
        PROVE  s \in ToSet(surfaces) <=> sp[s] = "live"
    <3>1. DOMAIN surfaces = 1..Len(surfaces)
      BY <2>1, LenProperties DEF IInv, TypeOK
    <3> QED
      BY <2>1, <3>1 DEF IInv, ListOK, ToSet
  <2> QED
    BY <2>1 DEF IInv, CloseCalls, ClosedOnce
<1> QED
  BY <1>1, Inductive, PTL
=============================================================================
