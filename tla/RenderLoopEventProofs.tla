------------------------ MODULE RenderLoopEventProofs ------------------------
(****************************************************************************)
(* What becomes of the events of a surface, for any number of surfaces,     *)
(* threads and calls.  When one thread is in charge of the handles of the   *)
(* windows, every context is destroyed once.  When process() never returns  *)
(* early, no event stays in a queue that nobody looks at again, and the     *)
(* context follows the handle.                                              *)
(****************************************************************************)
EXTENDS RenderLoopProofs

USE DEF surfaceVars, listVars, contextVars, loopVars, renderVars, appVars

(* An event of a queue that announces a handle, ...                         *)
Handle(q, i) == q[i].ev.type = "NativeHandle"

(* ... a queue without one, ...                                             *)
NoHandle(q) == \A i \in 1..Len(q) : ~Handle(q, i)

(* ... one whose announcements take up where the one before ended, ...      *)
Chained(q) ==
  \A i, j \in 1..Len(q) :
    i < j /\ Handle(q, i) /\ Handle(q, j) /\ (\A k \in 1..Len(q) : i < k /\ k < j => ~Handle(q, k))
      => q[j].ev.before = q[i].ev.after

(* ... one whose last announcement is h, ...                                *)
EndsWith(q, h) ==
  \A i \in 1..Len(q) :
    Handle(q, i) /\ (\A k \in 1..Len(q) : i < k => ~Handle(q, k)) => q[i].ev.after = h

(* ... and one whose first announcement replaces a handle: process() then   *)
(* destroys the context there is.                                           *)
BeginsWithHandle(q) ==
  \A i \in 1..Len(q) :
    Handle(q, i) /\ (\A k \in 1..Len(q) : k < i => ~Handle(q, k)) => q[i].ev.before # Null

(* Whatever is announced by q is announced by p in the same order.          *)
AnnouncedAs(q, p) ==
  /\ Chained(q) => Chained(p)
  /\ \A h : EndsWith(q, h) => EndsWith(p, h)
  /\ BeginsWithHandle(q) => BeginsWithHandle(p)
  /\ NoHandle(p) => NoHandle(q)

(* Publishing an entry leaves the announcements, ...                        *)
LEMMA SameHandles ==
  ASSUME NEW q, NEW p, Len(p) = Len(q), \A i \in 1..Len(q) : p[i].ev = q[i].ev
  PROVE  AnnouncedAs(q, p)
<1>1. \A i \in 1..Len(q) : Handle(p, i) <=> Handle(q, i)
  BY DEF Handle
<1>2. Chained(q) => Chained(p)
  BY <1>1 DEF Chained
<1>3. \A h : EndsWith(q, h) => EndsWith(p, h)
  BY <1>1 DEF EndsWith
<1>4. BeginsWithHandle(q) => BeginsWithHandle(p)
  BY <1>1 DEF BeginsWithHandle
<1>5. NoHandle(p) => NoHandle(q)
  BY <1>1 DEF NoHandle
<1> QED
  BY <1>2, <1>3, <1>4, <1>5 DEF AnnouncedAs

(* ... a push adds its own at the end, and ...                              *)
LEMMA AppendHandles ==
  ASSUME NEW S, NEW q \in Seq(S), NEW e \in S
  PROVE  LET p == Append(q, e) IN
         IF e.ev.type = "NativeHandle"
         THEN /\ Chained(q) /\ EndsWith(q, e.ev.before) => Chained(p)
              /\ EndsWith(p, e.ev.after) /\ ~NoHandle(p)
              /\ BeginsWithHandle(q) /\ (NoHandle(q) => e.ev.before # Null) => BeginsWithHandle(p)
         ELSE AnnouncedAs(q, p)
<1> DEFINE p == Append(q, e)
           n == Len(q)
<1>1. n \in Nat /\ Len(p) = n + 1 /\ p[n + 1] = e /\ \A i \in 1..n : p[i] = q[i]
  BY AppendProperties, LenProperties
<1> HIDE DEF p
<1>2. /\ \A i \in 1..n : Handle(p, i) <=> Handle(q, i)
      /\ Handle(p, n + 1) <=> e.ev.type = "NativeHandle"
  BY <1>1 DEF Handle
<1>3. ASSUME Chained(q), EndsWith(q, e.ev.before) \/ e.ev.type # "NativeHandle"
      PROVE  Chained(p)
  <2> SUFFICES ASSUME NEW i \in 1..(n + 1), NEW j \in 1..(n + 1), i < j, Handle(p, i), Handle(p, j),
                      \A k \in 1..(n + 1) : i < k /\ k < j => ~Handle(p, k)
               PROVE  p[j].ev.before = p[i].ev.after
    BY <1>1 DEF Chained
  <2>1. i \in 1..n /\ Handle(q, i)
    BY <1>1, <1>2
  <2>2. CASE j \in 1..n
    BY <1>1, <1>2, <1>3, <2>1, <2>2 DEF Chained
  <2>3. CASE j = n + 1
    <3>1. \A k \in 1..n : i < k => ~Handle(q, k)
      BY <1>1, <1>2, <2>3
    <3>2. q[i].ev.after = e.ev.before
      BY <1>2, <1>3, <2>1, <2>3, <3>1 DEF EndsWith
    <3> QED
      BY <1>1, <2>1, <2>3, <3>2
  <2> QED
    BY <1>1, <2>2, <2>3
<1>4. ASSUME BeginsWithHandle(q), NoHandle(q) => e.ev.before # Null \/ e.ev.type # "NativeHandle"
      PROVE  BeginsWithHandle(p)
  <2> SUFFICES ASSUME NEW i \in 1..(n + 1), Handle(p, i), \A k \in 1..(n + 1) : k < i => ~Handle(p, k)
               PROVE  p[i].ev.before # Null
    BY <1>1 DEF BeginsWithHandle
  <2>1. CASE i \in 1..n
    BY <1>1, <1>2, <1>4, <2>1 DEF BeginsWithHandle
  <2>2. CASE i = n + 1
    <3>1. NoHandle(q)
      BY <1>1, <1>2, <2>2 DEF NoHandle
    <3> QED
      BY <1>1, <1>2, <1>4, <2>2, <3>1
  <2> QED
    BY <1>1, <2>1, <2>2
<1>5. CASE e.ev.type = "NativeHandle"
  <2>1. EndsWith(p, e.ev.after) /\ ~NoHandle(p)
    BY <1>1, <1>2, <1>5 DEF EndsWith, NoHandle
  <2> QED
    BY <1>3, <1>4, <1>5, <2>1 DEF p
<1>6. CASE e.ev.type # "NativeHandle"
  <2>1. NoHandle(p) => NoHandle(q)
    BY <1>1, <1>2 DEF NoHandle
  <2>2. ASSUME NEW h, EndsWith(q, h)
        PROVE  EndsWith(p, h)
    <3> SUFFICES ASSUME NEW i \in 1..(n + 1), Handle(p, i), \A k \in 1..(n + 1) : i < k => ~Handle(p, k)
                 PROVE  p[i].ev.after = h
      BY <1>1 DEF EndsWith
    <3>1. i \in 1..n
      BY <1>1, <1>2, <1>6
    <3> QED
      BY <1>1, <1>2, <2>2, <3>1 DEF EndsWith
  <2> QED
    BY <1>3, <1>4, <1>6, <2>1, <2>2 DEF AnnouncedAs, p
<1> QED
  BY <1>5, <1>6

(* ... a pop takes the first one.                                           *)
LEMMA TailHandles ==
  ASSUME NEW S, NEW q \in Seq(S), q # <<>>
  PROVE  LET p == Tail(q) IN
         IF Handle(q, 1)
         THEN /\ Chained(q) => Chained(p)
              /\ Chained(q) /\ q[1].ev.after # Null => BeginsWithHandle(p)
              /\ \A h : EndsWith(q, h) => EndsWith(p, h)
              /\ \A h : EndsWith(q, h) /\ NoHandle(p) => q[1].ev.after = h
         ELSE AnnouncedAs(q, p)
<1> DEFINE p == Tail(q)
           n == Len(q)
<1>1. n \in Nat \ {0} /\ Len(p) = n - 1 /\ \A i \in 1..(n - 1) : p[i] = q[i + 1]
  BY HeadTailProperties, EmptySeq, LenProperties
<1> HIDE DEF p
<1>2. \A i \in 1..(n - 1) : Handle(p, i) <=> Handle(q, i + 1)
  BY <1>1 DEF Handle
<1>3. ASSUME Chained(q) PROVE Chained(p)
  <2> SUFFICES ASSUME NEW i \in 1..(n - 1), NEW j \in 1..(n - 1), i < j, Handle(p, i), Handle(p, j),
                      \A k \in 1..(n - 1) : i < k /\ k < j => ~Handle(p, k)
               PROVE  p[j].ev.before = p[i].ev.after
    BY <1>1 DEF Chained
  <2>1. ASSUME NEW k \in 1..n, i + 1 < k, k < j + 1 PROVE ~Handle(q, k)
    <3>1. k - 1 \in 1..(n - 1) /\ i < k - 1 /\ k - 1 < j /\ (k - 1) + 1 = k
      BY <1>1, <2>1
    <3> QED
      BY <1>2, <3>1
  <2>2. i + 1 \in 1..n /\ j + 1 \in 1..n /\ i + 1 < j + 1 /\ Handle(q, i + 1) /\ Handle(q, j + 1)
    BY <1>1, <1>2
  <2>3. q[j + 1].ev.before = q[i + 1].ev.after
    BY <1>3, <2>1, <2>2 DEF Chained
  <2> QED
    BY <1>1, <2>3
<1>4. ASSUME NEW h, EndsWith(q, h) PROVE EndsWith(p, h)
  <2> SUFFICES ASSUME NEW i \in 1..(n - 1), Handle(p, i), \A k \in 1..(n - 1) : i < k => ~Handle(p, k)
               PROVE  p[i].ev.after = h
    BY <1>1 DEF EndsWith
  <2>1. ASSUME NEW k \in 1..n, i + 1 < k PROVE ~Handle(q, k)
    <3>1. k - 1 \in 1..(n - 1) /\ i < k - 1 /\ (k - 1) + 1 = k
      BY <1>1, <2>1
    <3> QED
      BY <1>2, <3>1
  <2>2. i + 1 \in 1..n /\ Handle(q, i + 1)
    BY <1>1, <1>2
  <2> QED
    BY <1>1, <1>4, <2>1, <2>2 DEF EndsWith
<1>5. ASSUME NoHandle(p) PROVE \A k \in 2..n : ~Handle(q, k)
  <2> SUFFICES ASSUME NEW k \in 2..n PROVE ~Handle(q, k)
    OBVIOUS
  <2>1. k - 1 \in 1..(n - 1) /\ (k - 1) + 1 = k
    BY <1>1
  <2>2. ~Handle(p, k - 1)
    BY <1>1, <1>5, <2>1 DEF NoHandle
  <2> QED
    BY <1>2, <2>1, <2>2
<1>6. ASSUME NEW i \in 1..(n - 1), Handle(p, i), \A k \in 1..(n - 1) : k < i => ~Handle(p, k)
      PROVE  /\ i + 1 \in 1..n /\ Handle(q, i + 1) /\ p[i] = q[i + 1]
             /\ \A k \in 2..n : k < i + 1 => ~Handle(q, k)
  <2>1. ASSUME NEW k \in 2..n, k < i + 1 PROVE ~Handle(q, k)
    <3>1. k - 1 \in 1..(n - 1) /\ k - 1 < i /\ (k - 1) + 1 = k
      BY <1>1, <2>1
    <3> QED
      BY <1>2, <1>6, <3>1
  <2> QED
    BY <1>1, <1>2, <1>6, <2>1
<1>7. CASE Handle(q, 1)
  <2>1. ASSUME Chained(q), q[1].ev.after # Null PROVE BeginsWithHandle(p)
    <3> SUFFICES ASSUME NEW i \in 1..(n - 1), Handle(p, i), \A k \in 1..(n - 1) : k < i => ~Handle(p, k)
                 PROVE  p[i].ev.before # Null
      BY <1>1 DEF BeginsWithHandle
    <3>1. /\ i + 1 \in 1..n /\ Handle(q, i + 1) /\ p[i] = q[i + 1]
          /\ \A k \in 2..n : k < i + 1 => ~Handle(q, k)
      BY <1>6
    <3>2. 1 \in 1..n /\ 1 < i + 1 /\ \A k \in 1..n : 1 < k /\ k < i + 1 => ~Handle(q, k)
      BY <1>1, <3>1
    <3>3. q[i + 1].ev.before = q[1].ev.after
      BY <1>7, <2>1, <3>1, <3>2 DEF Chained
    <3> QED
      BY <2>1, <3>1, <3>3
  <2>2. ASSUME NEW h, EndsWith(q, h), NoHandle(p) PROVE q[1].ev.after = h
    <3>1. 1 \in 1..n /\ \A k \in 1..n : 1 < k => ~Handle(q, k)
      BY <1>1, <1>5, <2>2
    <3> QED
      BY <1>7, <2>2, <3>1 DEF EndsWith
  <2> QED
    BY <1>3, <1>4, <1>7, <2>1, <2>2 DEF p
<1>8. CASE ~Handle(q, 1)
  <2>1. ASSUME NoHandle(p) PROVE NoHandle(q)
    <3>1. \A k \in 1..n : k = 1 \/ k \in 2..n
      BY <1>1
    <3> QED
      BY <1>5, <1>8, <2>1, <3>1 DEF NoHandle
  <2>2. ASSUME BeginsWithHandle(q) PROVE BeginsWithHandle(p)
    <3> SUFFICES ASSUME NEW i \in 1..(n - 1), Handle(p, i), \A k \in 1..(n - 1) : k < i => ~Handle(p, k)
                 PROVE  p[i].ev.before # Null
      BY <1>1 DEF BeginsWithHandle
    <3>1. /\ i + 1 \in 1..n /\ Handle(q, i + 1) /\ p[i] = q[i + 1]
          /\ \A k \in 2..n : k < i + 1 => ~Handle(q, k)
      BY <1>6
    <3>2. \A k \in 1..n : k < i + 1 => ~Handle(q, k)
      <4>1. \A k \in 1..n : k = 1 \/ k \in 2..n
        BY <1>1
      <4> QED
        BY <1>8, <3>1, <4>1
    <3> QED
      BY <2>2, <3>1, <3>2 DEF BeginsWithHandle
  <2> QED
    BY <1>3, <1>4, <1>8, <2>1, <2>2 DEF AnnouncedAs, p
<1> QED
  BY <1>7, <1>8

-----------------------------------------------------------------------------
(* Thread r, and no other, resets the handles of surfaces.                  *)
OnlyResets(r) == \A q \in Quotas : \A t \in App \ {r} : q[t]["reset"] = 0 /\ q[t]["detach"] = 0

(* The other threads have no reset to make, and make none.                  *)
OthersLeft(r) == \A t \in App \ {r} : left[t]["reset"] = 0 /\ left[t]["detach"] = 0

OthersCalls(r) == \A t \in Threads \ {r} : call[t].ev.type # "NativeHandle"

(* Thread r is about to announce a handle of s, and the event will not be   *)
(* dropped.                                                                 *)
Announces(r, s) ==
  /\ call[r].s = s /\ call[r].ev.type = "NativeHandle"
  /\ call[r].at = "claim" \/ (call[r].at = "check" /\ ~closed[s])

HasContext(s) == ctx[s] # Null \/ (rpc = "create" /\ cur = s)

(* The announcements of s on their way are a chain up to the handle of the  *)
(* surface, and one that reaches a context has its handle to destroy.       *)
AnnouncedAt(r, s) ==
  /\ Chained(events[s])
  /\ Announces(r, s) => EndsWith(events[s], call[r].ev.before)
  /\ Announces(r, s) /\ ~closed[s] => native_handle[s] = call[r].ev.after
  /\ ~Announces(r, s) /\ ~closed[s] => EndsWith(events[s], native_handle[s])
  /\ HasContext(s) =>
       /\ BeginsWithHandle(events[s])
       /\ NoHandle(events[s]) =>
            /\ Announces(r, s) => call[r].ev.before # Null
            /\ ~Announces(r, s) /\ ~closed[s] => native_handle[s] # Null

AnnouncedOK(r) == \A s \in Surfaces : AnnouncedAt(r, s)

(* What process() remembers of the context of its surface.                  *)
LocalContextOK ==
  /\ rpc \in Acquired => rctx = ctx[cur]
  /\ rpc = "create" => ctx[cur] = Null

(* The inductive invariant of the contexts.                                 *)
HandleInv(r) == /\ OthersLeft(r) /\ OthersCalls(r) /\ AnnouncedOK(r)
                /\ LocalContextOK /\ ContextOwnership

(* A budget that is used up stays used up.                                  *)
LEMMA SpendKeepsNone ==
  ASSUME left \in [Threads -> [Ops -> Nat]], NEW t \in Threads, NEW op \in Ops, Spend(t, op),
         NEW u \in Threads, NEW o \in Ops, left[u][o] = 0
  PROVE  left'[u][o] = 0
<1>1. left[t] \in [Ops -> Nat] /\ left[u] \in [Ops -> Nat]
  OBVIOUS
<1>2. left' = [left EXCEPT ![t] = [left[t] EXCEPT ![op] = left[t][op] - 1]] /\ left[t][op] > 0
  BY DEF Spend
<1>3. CASE u # t
  BY <1>2, <1>3
<1>4. CASE u = t
  BY <1>1, <1>2, <1>4
<1> QED
  BY <1>3, <1>4

(* Whatever the step.                                                       *)
LEMMA NoneStaysNone ==
  ASSUME IInv, [Next]_vars, NEW u \in Threads, NEW o \in Ops, left[u][o] = 0
  PROVE  left'[u][o] = 0
<1> SUFFICES UNCHANGED left \/ \E t \in Threads : \E op \in Ops : Spend(t, op)
  BY SpendKeepsNone DEF IInv, TypeOK
<1>1. CASE RenderStep
  <2>1. CASE ProcessDraw
    <3>1. "change" \in Ops
      BY DEF Ops
    <3> QED
      BY <2>1, <3>1, ThreadTypes DEF ProcessDraw
  <2>2. CASE RenderStep /\ ~ProcessDraw
    BY <2>2 DEF RenderStep, RunBegin, RunTask, RunAfter, RunExit, ProcessFreed, ProcessEnter, ProcessClose,
      ProcessResize, ProcessNativeHandle, CreateContext, CreateContextFails, ProcessRelease, ProcessErase,
      UpdateNext, AddTaskErase, PushStep
  <2> QED
    BY <1>1, <2>1, <2>2
<1>2. CASE ProcessNative
  BY <1>2, ThreadTypes DEF ProcessNative, NativeEvent, Ops
<1>3. ASSUME NEW t \in App, AppCall(t)
      PROVE  \E op \in Ops : Spend(t, op)
  BY <1>3 DEF AppCall, Start, Update, Stop, Wait, AddPushBack, SurfaceCall, Ops
<1>4. ASSUME NEW t \in App, AppLock(t) \/ AppStep(t)
      PROVE  UNCHANGED left
  BY <1>4 DEF AppLock, AppStep, StopLock, WaitLock, LockAndVisit, PushStep, AddSetCallback, AddSchedule,
    StopClose, StopUnlock, WaitCheck, WaitNext, WaitUnlock, UnlockAndGo, Join
<1>5. ASSUME NEW t \in App, WaitNative(t)
      PROVE  Spend(Render, "native")
  BY <1>5 DEF WaitNative, NativeEvent
<1>6. ASSUME NEW s \in Surfaces, AppState(s)
      PROVE  Spend(Render, "gate")
  BY <1>6 DEF AppState
<1>7. {"native", "gate"} \subseteq Ops
  BY DEF Ops
<1> QED
  BY <1>1, <1>2, <1>3, <1>4, <1>5, <1>6, <1>7, ThreadTypes DEF Next, vars

(* What keeps the announcements of a surface a chain.                       *)
LEMMA AnnouncedFrame ==
  ASSUME NEW r \in App, NEW s \in Surfaces, AnnouncedAt(r, s),
         AnnouncedAs(events[s], events'[s]), UNCHANGED native_handle,
         closed[s] => closed'[s],
         HasContext(s)' => HasContext(s),
         Announces(r, s)' => Announces(r, s) /\ call'[r].ev = call[r].ev,
         ~Announces(r, s)' /\ ~closed'[s] => ~Announces(r, s)
  PROVE  AnnouncedAt(r, s)'
<1> DEFINE a == Announces(r, s)
           b == Announces(r, s)'
           c == HasContext(s)
           d == HasContext(s)'
<1>1. /\ Chained(events[s])
      /\ a => EndsWith(events[s], call[r].ev.before)
      /\ a /\ ~closed[s] => native_handle[s] = call[r].ev.after
      /\ ~a /\ ~closed[s] => EndsWith(events[s], native_handle[s])
      /\ c => /\ BeginsWithHandle(events[s])
              /\ NoHandle(events[s]) =>
                   /\ a => call[r].ev.before # Null
                   /\ ~a /\ ~closed[s] => native_handle[s] # Null
  BY DEF AnnouncedAt
<1>2. /\ b => a /\ call'[r].ev = call[r].ev
      /\ ~b /\ ~closed'[s] => ~a
      /\ d => c /\ (closed[s] => closed'[s]) /\ native_handle'[s] = native_handle[s]
  OBVIOUS
<1>3. /\ Chained(events[s]) => Chained(events'[s])
      /\ \A h : EndsWith(events[s], h) => EndsWith(events'[s], h)
      /\ BeginsWithHandle(events[s]) => BeginsWithHandle(events'[s])
      /\ NoHandle(events'[s]) => NoHandle(events[s])
  BY DEF AnnouncedAs
<1>4. SUFFICES
      /\ Chained(events'[s])
      /\ b => EndsWith(events'[s], call'[r].ev.before)
      /\ b /\ ~closed'[s] => native_handle'[s] = call'[r].ev.after
      /\ ~b /\ ~closed'[s] => EndsWith(events'[s], native_handle'[s])
      /\ d => /\ BeginsWithHandle(events'[s])
              /\ NoHandle(events'[s]) =>
                   /\ b => call'[r].ev.before # Null
                   /\ ~b /\ ~closed'[s] => native_handle'[s] # Null
  BY DEF AnnouncedAt, Chained, EndsWith, BeginsWithHandle, NoHandle, Handle
<1> HIDE DEF a, b, c, d
<1> QED
  BY <1>1, <1>2, <1>3

(* A queue that stays announces what it did.                                *)
LEMMA SameAnnounced == \A q : AnnouncedAs(q, q)
  BY DEF AnnouncedAs

(* A call begins that announces nothing: on thread r none is in progress.   *)
LEMMA CallAnnounces ==
  ASSUME IInv, NEW r \in App, OthersCalls(r), AnnouncedOK(r),
         NEW t \in Threads, NEW q \in Surfaces,
         PS!ResizeSurface(t, q) \/ PS!CloseSurface(t, q), UNCHANGED <<ctx, cur>>,
         rpc' # "create" \/ UNCHANGED rpc
  PROVE  OthersCalls(r)' /\ AnnouncedOK(r)'
<1>1. PICK e \in {PS!Resize, PS!Close}, then \in {"return", "close"} : PS!BeginPush(t, q, e, then)
  BY DEF PS!ResizeSurface, PS!CloseSurface
<1>2. /\ call[t].at = "idle" /\ UNCHANGED <<events, closed, native_handle>>
      /\ call' = [call EXCEPT ![t] = [at |-> "check", s |-> q, ev |-> e, then |-> then]]
      /\ call \in [Threads -> PS!Call]
  BY <1>1 DEF PS!ResizeSurface, PS!CloseSurface, PS!BeginPush, PS!Idle, IInv, TypeOK, PS!TypeOK
<1>3. e.type # "NativeHandle"
  BY <1>1 DEF PS!Resize, PS!Close
<1>4. OthersCalls(r)'
  BY <1>2, <1>3 DEF OthersCalls
<1>5. r \in Threads
  BY ThreadTypes
<1>6. ASSUME NEW s \in Surfaces PROVE AnnouncedAt(r, s)'
  <2>1. Announces(r, s)' <=> Announces(r, s)
    <3>1. CASE t = r
      BY <1>2, <1>3, <1>5, <3>1 DEF Announces
    <3>2. CASE t # r
      BY <1>2, <1>5, <3>2 DEF Announces
    <3> QED
      BY <3>1, <3>2
  <2>2. Announces(r, s)' => call'[r].ev = call[r].ev
    BY <1>2, <1>3, <1>5 DEF Announces
  <2>3. HasContext(s)' => HasContext(s)
    BY DEF HasContext
  <2> QED
    BY <1>2, <2>1, <2>2, <2>3, SameAnnounced, AnnouncedFrame DEF AnnouncedOK
<1> QED
  BY <1>4, <1>6 DEF AnnouncedOK

(* resetNativeHandle() announces the handle it takes from the surface.      *)
LEMMA ResetAnnounces ==
  ASSUME IInv, NEW r \in App, OthersCalls(r), AnnouncedOK(r),
         NEW q \in Surfaces, NEW h \in Handles \cup {Null}, PS!ResetNativeHandle(r, q, h),
         UNCHANGED <<ctx, cur, rpc>>
  PROVE  OthersCalls(r)' /\ AnnouncedOK(r)'
<1> DEFINE e == PS!NativeHandle(native_handle[q], h)
<1>1. r \in Threads
  BY ThreadTypes
<1>2. /\ call \in [Threads -> PS!Call] /\ native_handle \in [Surfaces -> Handles \cup {Null}]
      /\ call[r].at = "idle" /\ UNCHANGED <<events, closed>>
      /\ native_handle' = [native_handle EXCEPT ![q] = h]
  BY DEF PS!ResetNativeHandle, PS!BeginPush, PS!Idle, IInv, TypeOK, PS!TypeOK, PS!HandleOrNull
<1>3. PICK then \in {"resize", "return"} :
        call' = [call EXCEPT ![r] = [at |-> "check", s |-> q, ev |-> e, then |-> then]]
  BY DEF PS!ResetNativeHandle, PS!BeginPush
<1>4. e.type = "NativeHandle" /\ e.before = native_handle[q] /\ e.after = h
  BY DEF PS!NativeHandle
<1> HIDE DEF e
<1>5. /\ call'[r].at = "check" /\ call'[r].s = q /\ call'[r].ev = e
      /\ \A t \in Threads \ {r} : call'[t] = call[t]
  BY <1>1, <1>2, <1>3
<1>6. OthersCalls(r)'
  BY <1>5 DEF OthersCalls
<1>7. \A s \in Surfaces : ~Announces(r, s)
  BY <1>2 DEF Announces
<1>8. ASSUME NEW s \in Surfaces, s # q PROVE AnnouncedAt(r, s)'
  <2>1. ~Announces(r, s)'
    BY <1>5, <1>8 DEF Announces
  <2>2. native_handle'[s] = native_handle[s]
    BY <1>2, <1>8
  <2>3. HasContext(s)' <=> HasContext(s)
    BY DEF HasContext
  <2>4. AnnouncedAt(r, s)
    BY DEF AnnouncedOK
  <2> QED
    BY <1>2, <1>7, <2>1, <2>2, <2>3, <2>4
    DEF AnnouncedAt, Chained, EndsWith, BeginsWithHandle, NoHandle, Handle
<1>9. AnnouncedAt(r, q)'
  <2>1. Announces(r, q)' <=> ~closed[q]
    BY <1>2, <1>4, <1>5 DEF Announces
  <2>2. native_handle'[q] = h
    BY <1>2
  <2>3. HasContext(q)' <=> HasContext(q)
    BY DEF HasContext
  <2>4. AnnouncedAt(r, q)
    BY DEF AnnouncedOK
  <2>5. /\ Chained(events[q])
        /\ ~closed[q] => EndsWith(events[q], e.before)
        /\ HasContext(q) => /\ BeginsWithHandle(events[q])
                            /\ NoHandle(events[q]) /\ ~closed[q] => e.before # Null
    BY <1>4, <1>7, <2>4 DEF AnnouncedAt
  <2> DEFINE a == Announces(r, q)'
             d == HasContext(q)'
  <2>6. SUFFICES
        /\ Chained(events[q])
        /\ a => EndsWith(events[q], e.before)
        /\ a /\ ~closed[q] => native_handle'[q] = e.after
        /\ ~a /\ ~closed[q] => EndsWith(events[q], native_handle'[q])
        /\ d => /\ BeginsWithHandle(events[q])
                /\ NoHandle(events[q]) =>
                     /\ a => e.before # Null
                     /\ ~a /\ ~closed[q] => native_handle'[q] # Null
    <3>1. events' = events /\ closed' = closed
      BY <1>2
    <3> QED
      BY <1>5, <3>1 DEF AnnouncedAt, Chained, EndsWith, BeginsWithHandle, NoHandle, Handle
  <2>7. (a <=> ~closed[q]) /\ (d <=> HasContext(q))
    BY <2>1, <2>3
  <2> HIDE DEF a, d
  <2> QED
    BY <1>4, <2>2, <2>5, <2>7
<1> QED
  BY <1>6, <1>8, <1>9 DEF AnnouncedOK

(* pushEvent() and close(), whichever thread runs them.                     *)
LEMMA PushAnnounces ==
  ASSUME IInv, NEW r \in App, OthersCalls(r), AnnouncedOK(r),
         NEW t \in Threads, PS!Push(t) \/ PS!Notify(t), UNCHANGED <<ctx, cur, rpc>>
  PROVE  OthersCalls(r)' /\ AnnouncedOK(r)'
<1> DEFINE q == call[t].s
<1>1. /\ call \in [Threads -> PS!Call] /\ r \in Threads /\ call[t] \in PS!Call
      /\ closed \in [Surfaces -> BOOLEAN]
      /\ events \in [Surfaces -> Seq([ev : PS!Event, by : Threads \cup {Null}])]
  BY ThreadTypes DEF IInv, TypeOK, PS!TypeOK
<1>2. \A s \in Surfaces : HasContext(s)' <=> HasContext(s)
  BY DEF HasContext
<1>3. UNCHANGED native_handle
  BY DEF PS!Push, PS!PushCheck, PS!PushClaim, PS!PushLink, PS!SetClosed, PS!Notify
<1>4. PS!Return(call[t]).ev.type = "NativeHandle" => PS!Return(call[t]).at \in {"idle", "close"}
  BY <1>1 DEF PS!Return, PS!NoCall, PS!Close, PS!Resize, PS!Call
<1>5. t # r => PS!Return(call[t]).ev.type # "NativeHandle"
  BY <1>1 DEF OthersCalls, PS!Return, PS!NoCall, PS!Close, PS!Resize, PS!Call
<1>6. \A u \in Threads \ {t} : call'[u] = call[u]
  BY <1>1 DEF PS!Push, PS!PushCheck, PS!PushClaim, PS!PushLink, PS!SetClosed, PS!Notify
<1>7. /\ call'[t].ev = call[t].ev \/ call'[t] = PS!Return(call[t]) \/ call'[t] = PS!NoCall
      /\ call[t].at # "idle" /\ q \in Surfaces
  BY <1>1 DEF PS!Push, PS!PushCheck, PS!PushClaim, PS!PushLink, PS!SetClosed, PS!Notify, PS!Call, IInv, CallOK
<1>8. OthersCalls(r)'
  <2>1. PS!NoCall.ev.type # "NativeHandle"
    BY DEF PS!NoCall, PS!Close
  <2> QED
    BY <1>1, <1>5, <1>6, <1>7, <2>1 DEF OthersCalls
<1>9. SUFFICES ASSUME NEW s \in Surfaces PROVE AnnouncedAt(r, s)'
  BY <1>8 DEF AnnouncedOK
<1>10. AnnouncedAt(r, s)
  BY DEF AnnouncedOK
<1>11. CASE PS!PushCheck(t) \/ PS!Notify(t)
  <2>1. UNCHANGED <<events, closed>>
    BY <1>11 DEF PS!PushCheck, PS!Notify
  <2>2. /\ Announces(r, s)' => Announces(r, s) /\ call'[r].ev = call[r].ev
        /\ Announces(r, s) => Announces(r, s)'
    <3>1. CASE t # r
      BY <1>1, <1>6, <2>1, <3>1 DEF Announces
    <3>2. CASE t = r /\ PS!PushCheck(t)
      <4>1. CASE closed[q]
        <5>1. call'[t] = PS!Return(call[t]) /\ call[t].at = "check"
          BY <1>1, <3>2, <4>1 DEF PS!PushCheck
        <5> QED
          BY <1>4, <2>1, <3>2, <4>1, <5>1 DEF Announces
      <4>2. CASE ~closed[q]
        <5>1. call'[t] = [call[t] EXCEPT !.at = "claim"] /\ call[t].at = "check"
          BY <1>1, <3>2, <4>2 DEF PS!PushCheck
        <5>2. call'[t].at = "claim" /\ call'[t].s = q /\ call'[t].ev = call[t].ev
          BY <1>1, <5>1 DEF PS!Call
        <5> QED
          BY <2>1, <3>2, <4>2, <5>1, <5>2 DEF Announces
      <4> QED
        BY <4>1, <4>2
    <3>3. CASE t = r /\ PS!Notify(t)
      <4>1. call'[t] = PS!Return(call[t]) /\ call[t].at = "notify"
        BY <1>1, <3>3 DEF PS!Notify
      <4> QED
        BY <1>4, <3>3, <4>1 DEF Announces
    <3> QED
      BY <1>11, <3>1, <3>2, <3>3
  <2> QED
    BY <1>2, <1>3, <1>10, <2>1, <2>2, SameAnnounced, AnnouncedFrame
<1>12. CASE PS!SetClosed(t)
  <2>1. /\ UNCHANGED events /\ closed' = [closed EXCEPT ![q] = TRUE]
        /\ call' = [call EXCEPT ![t] = PS!NoCall] /\ call[t].at = "close"
    BY <1>12 DEF PS!SetClosed
  <2>2. closed[s] => closed'[s]
    BY <1>1, <2>1
  <2>3. CASE t # r
    <3>1. call'[r] = call[r]
      BY <1>1, <1>6, <2>3
    <3>2. Announces(r, s)' => Announces(r, s) /\ call'[r].ev = call[r].ev
      BY <2>2, <3>1 DEF Announces
    <3>3. ~Announces(r, s)' /\ ~closed'[s] => ~Announces(r, s)
      BY <3>1 DEF Announces
    <3> QED
      BY <1>2, <1>3, <1>10, <2>1, <2>2, <3>2, <3>3, SameAnnounced, AnnouncedFrame
  <2>4. CASE t = r
    <3>1. call'[r].at = "idle"
      BY <1>1, <2>1, <2>4 DEF PS!NoCall
    <3>2. ~Announces(r, s)' /\ ~Announces(r, s)
      BY <2>1, <2>4, <3>1 DEF Announces
    <3> QED
      BY <1>2, <1>3, <1>10, <2>1, <2>2, <3>2, SameAnnounced, AnnouncedFrame
  <2> QED
    BY <2>3, <2>4
<1>13. CASE PS!PushLink(t)
  <2>1. /\ UNCHANGED closed /\ call[t].at = "link"
        /\ events' = [events EXCEPT ![q] = PS!Publish(events[q], t)]
        /\ call' = [call EXCEPT ![t] = [call[t] EXCEPT !.at = "notify"]]
    BY <1>13 DEF PS!PushLink
  <2>2. call'[t].at = "notify" /\ (t # r => call'[r] = call[r])
    BY <1>1, <1>6, <2>1 DEF PS!Call
  <2>3. (Announces(r, s)' <=> Announces(r, s)) /\ (Announces(r, s)' => call'[r].ev = call[r].ev)
    BY <2>1, <2>2 DEF Announces
  <2>4. AnnouncedAs(events[s], events'[s])
    <3>1. CASE s # q
      BY <1>1, <2>1, <3>1, SameAnnounced
    <3>2. CASE s = q
      <4> DEFINE a == events[q]
                 b == PS!Publish(a, t)
                 E == [ev : PS!Event, by : Threads \cup {Null}]
      <4>1. a \in Seq(E) /\ events'[s] = b
        BY <1>1, <1>7, <2>1, <3>2
      <4>2. DOMAIN a = 1..Len(a) /\ Len(a) \in Nat /\ \A i \in 1..Len(a) : a[i] \in E
        <5> HIDE DEF a, E
        <5> QED
          BY <4>1, LenProperties, ElementOfSeq
      <4>3. b = [i \in 1..Len(a) |-> IF a[i].by = t THEN [a[i] EXCEPT !.by = Null] ELSE a[i]]
        BY <4>2 DEF PS!Publish
      <4> HIDE DEF a
      <4>4. \A i \in 1..Len(a) : b[i].ev = a[i].ev
        <5>1. \A x \in E : [x EXCEPT !.by = Null].ev = x.ev
          OBVIOUS
        <5> QED
          BY <4>2, <4>3, <5>1
      <4>5. Len(b) = Len(a)
        <5>1. b \in [1..Len(a) -> E]
          <6>1. \A x \in E : [x EXCEPT !.by = Null] \in E
            OBVIOUS
          <6> HIDE DEF E, b
          <6> QED
            BY <4>2, <4>3, <6>1
        <5> HIDE DEF b, E
        <5> QED
          BY <4>2, <5>1, FunctionIsSeq
      <4> HIDE DEF b
      <4> QED
        BY <3>2, <4>1, <4>4, <4>5, SameHandles DEF a
    <3> QED
      BY <3>1, <3>2
  <2> QED
    BY <1>2, <1>3, <1>10, <2>1, <2>3, <2>4, AnnouncedFrame
<1>14. CASE PS!PushClaim(t)
  <2> DEFINE e == [ev |-> call[t].ev, by |-> t]
             E == [ev : PS!Event, by : Threads \cup {Null}]
  <2>1. /\ UNCHANGED closed /\ call[t].at = "claim"
        /\ events' = [events EXCEPT ![q] = Append(events[q], e)]
        /\ call' = [call EXCEPT ![t] = [call[t] EXCEPT !.at = "link"]]
    BY <1>14 DEF PS!PushClaim
  <2>2. call'[t].at = "link" /\ (t # r => call'[r] = call[r])
    BY <1>1, <1>6, <2>1 DEF PS!Call
  <2>3. CASE s # q
    <3>1. events'[s] = events[s]
      BY <1>1, <2>1, <2>3
    <3>2. Announces(r, s)' <=> Announces(r, s)
      BY <2>1, <2>2, <2>3 DEF Announces
    <3>3. Announces(r, s)' => call'[r].ev = call[r].ev
      BY <2>2 DEF Announces
    <3> QED
      BY <1>2, <1>3, <1>10, <2>1, <3>1, <3>2, <3>3, SameAnnounced, AnnouncedFrame
  <2>4. CASE s = q
    <3>1. events[q] \in Seq(E) /\ e \in E /\ events'[s] = Append(events[q], e)
          /\ e.ev = call[t].ev
      BY <1>1, <1>7, <2>1, <2>4 DEF PS!Call
    <3> HIDE DEF E
    <3>2. CASE call[t].ev.type # "NativeHandle"
      <4>1. AnnouncedAs(events[q], Append(events[q], e))
        <5> HIDE DEF e, q
        <5> QED
          BY <3>1, <3>2, AppendHandles
      <4>2. Announces(r, s)' <=> Announces(r, s)
        BY <2>1, <2>2, <3>2 DEF Announces
      <4>3. Announces(r, s)' => call'[r].ev = call[r].ev
        BY <2>2 DEF Announces
      <4> QED
        BY <1>2, <1>3, <1>10, <2>1, <2>4, <3>1, <4>1, <4>2, <4>3, AnnouncedFrame
    <3>3. CASE call[t].ev.type = "NativeHandle"
      <4>1. t = r /\ Announces(r, s) /\ ~Announces(r, s)'
        BY <2>1, <2>2, <2>4, <3>3 DEF OthersCalls, Announces
      <4> DEFINE p == Append(events[q], e)
      <4>2. /\ Chained(events[q]) /\ EndsWith(events[q], e.ev.before) => Chained(p)
            /\ EndsWith(p, e.ev.after) /\ ~NoHandle(p)
            /\ BeginsWithHandle(events[q]) /\ (NoHandle(events[q]) => e.ev.before # Null)
                 => BeginsWithHandle(p)
        <5> HIDE DEF e, q
        <5> QED
          BY <3>1, <3>3, AppendHandles
      <4>3. /\ Chained(events[q]) /\ EndsWith(events[q], e.ev.before)
            /\ ~closed[s] => native_handle[s] = e.ev.after
            /\ HasContext(s) => /\ BeginsWithHandle(events[q])
                                /\ NoHandle(events[q]) => e.ev.before # Null
        BY <1>10, <2>4, <3>1, <4>1 DEF AnnouncedAt
      <4>4. /\ Chained(p)
            /\ ~closed[s] => EndsWith(p, native_handle[s])
            /\ HasContext(s) => BeginsWithHandle(p) /\ ~NoHandle(p)
        <5> HIDE DEF p, e, q
        <5> QED
          BY <4>2, <4>3
      <4>5. events'[s] = p /\ closed'[s] = closed[s] /\ native_handle'[s] = native_handle[s]
        BY <1>3, <2>1, <3>1
      <4> HIDE DEF p
      <4> DEFINE d == HasContext(s)'
                 a == Announces(r, s)'
      <4>6. SUFFICES
            /\ Chained(events'[s])
            /\ a => EndsWith(events'[s], call'[r].ev.before)
            /\ a /\ ~closed'[s] => native_handle'[s] = call'[r].ev.after
            /\ ~a /\ ~closed'[s] => EndsWith(events'[s], native_handle'[s])
            /\ d => /\ BeginsWithHandle(events'[s])
                    /\ NoHandle(events'[s]) =>
                         /\ a => call'[r].ev.before # Null
                         /\ ~a /\ ~closed'[s] => native_handle'[s] # Null
        BY DEF AnnouncedAt, Chained, EndsWith, BeginsWithHandle, NoHandle, Handle
      <4>7. ~a /\ (d <=> HasContext(s))
        BY <1>2, <4>1
      <4> HIDE DEF a, d
      <4> QED
        BY <4>4, <4>5, <4>7
    <3> QED
      BY <3>2, <3>3
  <2> QED
    BY <2>3, <2>4
<1> QED
  BY <1>11, <1>12, <1>13, <1>14 DEF PS!Push

(* process() pops an event that announces no handle, ...                    *)
LEMMA PopAnnounces ==
  ASSUME IInv, NEW r \in App, OthersCalls(r), AnnouncedOK(r),
         NEW type, NextEvent(type), type # "NativeHandle",
         UNCHANGED ctx, rpc' # "create"
  PROVE  OthersCalls(r)' /\ AnnouncedOK(r)'
<1>1. /\ cur \in Surfaces /\ UNCHANGED <<closed, native_handle, call>>
  BY NextEventFacts
<1>2. /\ events' = [events EXCEPT ![cur] = Tail(events[cur])] /\ events[cur] # <<>>
      /\ Head(events[cur]).ev.type = type
      /\ events \in [Surfaces -> Seq([ev : PS!Event, by : Threads \cup {Null}])]
  BY DEF NextEvent, PS!PopEvent, PS!CanPop, IInv, TypeOK, PS!TypeOK
<1>3. ASSUME NEW s \in Surfaces PROVE AnnouncedAs(events[s], events'[s])
  <2>1. CASE s # cur
    BY <1>1, <1>2, <2>1, SameAnnounced
  <2>2. CASE s = cur
    <3>1. ~Handle(events[cur], 1) /\ events'[cur] = Tail(events[cur])
      BY <1>1, <1>2 DEF Handle
    <3> QED
      BY <1>1, <1>2, <2>2, <3>1, TailHandles
  <2> QED
    BY <2>1, <2>2
<1>4. ASSUME NEW s \in Surfaces PROVE AnnouncedAt(r, s)'
  <2>1. Announces(r, s)' <=> Announces(r, s)
    BY <1>1 DEF Announces
  <2>2. HasContext(s)' => HasContext(s)
    BY DEF HasContext
  <2> QED
    BY <1>1, <1>3, <2>1, <2>2, AnnouncedFrame DEF AnnouncedOK
<1> QED
  BY <1>1, <1>4 DEF OthersCalls, AnnouncedOK

(* ... and one that does: the context of the old handle is destroyed, and   *)
(* what is announced next begins with the handle a new one will have.       *)
LEMMA HandleStep ==
  ASSUME IInv, NEW r \in App, HandleInv(r), ProcessNativeHandle
  PROVE  OthersCalls(r)' /\ AnnouncedOK(r)' /\ LocalContextOK' /\ ContextOwnership'
<1> DEFINE q == events[cur]
           p == Tail(q)
           e == Head(q).ev
<1>1. /\ cur \in Surfaces /\ rpc = "events" /\ UNCHANGED <<closed, native_handle, call, cur>>
      /\ rpc' = IF e.after = Null THEN Returned ELSE "create"
      /\ Returned \in {"return", "after"}
  BY NextEventFacts DEF ProcessNativeHandle, Returned
<1>2. /\ events' = [events EXCEPT ![cur] = p] /\ q # <<>> /\ e.type = "NativeHandle"
      /\ events \in [Surfaces -> Seq([ev : PS!Event, by : Threads \cup {Null}])]
      /\ ctx \in [Surfaces -> Handles \cup {Null}] /\ live \in [Surfaces -> Int]
      /\ ctx' = [ctx EXCEPT ![cur] = Null]
  BY DEF ProcessNativeHandle, NextEvent, PS!PopEvent, PS!CanPop, IInv, TypeOK, PS!TypeOK
<1>3. e = q[1].ev /\ Handle(q, 1)
  BY <1>1, <1>2 DEF Handle
<1>4. 1 \in 1..Len(q)
  <2>1. q \in Seq([ev : PS!Event, by : Threads \cup {Null}])
    BY <1>1, <1>2
  <2> HIDE DEF q
  <2> QED
    BY <1>2, <2>1, EmptySeq, LenProperties
<1>5. AnnouncedAt(r, cur) /\ events'[cur] = p
  BY <1>1, <1>2 DEF HandleInv, AnnouncedOK
<1>6. ctx[cur] # Null => e.before # Null
  <2>1. ctx[cur] # Null => BeginsWithHandle(q)
    BY <1>5 DEF AnnouncedAt, HasContext
  <2>2. \A k \in 1..Len(q) : k < 1 => ~Handle(q, k)
    OBVIOUS
  <2>3. BeginsWithHandle(q) => q[1].ev.before # Null
    <3> HIDE DEF q
    <3> QED
      BY <1>3, <1>4, <2>2 DEF BeginsWithHandle
  <2> QED
    BY <1>3, <2>1, <2>3
<1>7. LocalContextOK'
  BY <1>1, <1>2 DEF LocalContextOK, Acquired
<1>8. ContextOwnership'
  <2>1. /\ live[cur] = IF ctx[cur] # Null THEN 1 ELSE 0
        /\ \A s \in Surfaces : live[s] = IF ctx[s] # Null THEN 1 ELSE 0
    BY <1>1 DEF HandleInv, ContextOwnership
  <2>2. rctx = ctx[cur]
    BY <1>1 DEF HandleInv, LocalContextOK, Acquired
  <2>3. live' = IF e.before # Null /\ rctx # Null THEN [live EXCEPT ![cur] = @ - 1] ELSE live
    BY DEF ProcessNativeHandle, DestroyContextIf
  <2>4. live'[cur] = 0 /\ \A s \in Surfaces : s # cur => live'[s] = live[s]
    BY <1>1, <1>2, <1>6, <2>1, <2>2, <2>3
  <2>5. rpc' # "erase"
    BY <1>1
  <2>6. ctx'[cur] = Null /\ \A s \in Surfaces : s # cur => ctx'[s] = ctx[s]
    BY <1>1, <1>2
  <2> QED
    BY <2>1, <2>4, <2>5, <2>6 DEF ContextOwnership
<1>9. ASSUME NEW s \in Surfaces PROVE AnnouncedAt(r, s)'
  <2>1. Announces(r, s)' <=> Announces(r, s)
    BY <1>1 DEF Announces
  <2>2. CASE s # cur
    <3>1. events'[s] = events[s] /\ (HasContext(s)' => HasContext(s))
      BY <1>1, <1>2, <2>2 DEF HasContext
    <3> QED
      BY <1>1, <2>1, <3>1, SameAnnounced, AnnouncedFrame DEF HandleInv, AnnouncedOK
  <2>3. CASE s = cur
    <3> DEFINE a == Announces(r, cur)
    <3>1. /\ Chained(q) /\ (a => EndsWith(q, call[r].ev.before))
          /\ a /\ ~closed[cur] => native_handle[cur] = call[r].ev.after
          /\ ~a /\ ~closed[cur] => EndsWith(q, native_handle[cur])
      BY <1>5 DEF AnnouncedAt
    <3>2. /\ Chained(q) => Chained(p)
          /\ Chained(q) /\ q[1].ev.after # Null => BeginsWithHandle(p)
          /\ \A h : EndsWith(q, h) => EndsWith(p, h)
          /\ \A h : EndsWith(q, h) /\ NoHandle(p) => q[1].ev.after = h
      <4>1. q \in Seq([ev : PS!Event, by : Threads \cup {Null}])
        BY <1>1, <1>2
      <4> HIDE DEF q
      <4> QED
        BY <1>2, <1>3, <4>1, TailHandles
    <3>3. HasContext(cur)' => e.after # Null
      BY <1>1, <1>2 DEF HasContext
    <3> DEFINE d == HasContext(cur)'
               b == Announces(r, cur)'
    <3>4. SUFFICES
          /\ Chained(events'[cur])
          /\ b => EndsWith(events'[cur], call'[r].ev.before)
          /\ b /\ ~closed'[cur] => native_handle'[cur] = call'[r].ev.after
          /\ ~b /\ ~closed'[cur] => EndsWith(events'[cur], native_handle'[cur])
          /\ d => /\ BeginsWithHandle(events'[cur])
                  /\ NoHandle(events'[cur]) =>
                       /\ b => call'[r].ev.before # Null
                       /\ ~b /\ ~closed'[cur] => native_handle'[cur] # Null
      <4>1. cur' = cur
        BY <1>1
      <4> QED
        BY <2>3, <4>1 DEF AnnouncedAt, Chained, EndsWith, BeginsWithHandle, NoHandle, Handle,
                          Announces, HasContext
    <3>5. (b <=> a) /\ (d => q[1].ev.after # Null)
      <4>1. cur' = cur
        BY <1>1
      <4>2. b <=> a
        BY <1>1, <4>1 DEF Announces
      <4>3. d => q[1].ev.after # Null
        BY <1>3, <3>3
      <4> QED
        BY <4>2, <4>3
    <3>6. /\ events'[cur] = p /\ closed'[cur] = closed[cur] /\ native_handle'[cur] = native_handle[cur]
          /\ call'[r] = call[r]
      BY <1>1, <1>5
    <3> HIDE DEF a, b, d, p, q
    <3> QED
      BY <3>1, <3>2, <3>5, <3>6
  <2> QED
    BY <2>2, <2>3
<1>10. OthersCalls(r)'
  BY <1>1 DEF HandleInv, OthersCalls
<1> QED
  BY <1>7, <1>8, <1>9, <1>10 DEF AnnouncedOK

(* A step that leaves the surfaces alone.                                   *)
LEMMA AnnouncedKept ==
  ASSUME NEW r \in App, OthersCalls(r), AnnouncedOK(r),
         UNCHANGED <<events, closed, native_handle, call>>,
         \A s \in Surfaces : HasContext(s)' => HasContext(s)
  PROVE  OthersCalls(r)' /\ AnnouncedOK(r)'
<1>1. ASSUME NEW s \in Surfaces PROVE AnnouncedAt(r, s)'
  <2>1. Announces(r, s)' <=> Announces(r, s)
    BY DEF Announces
  <2> QED
    BY <2>1, SameAnnounced, AnnouncedFrame DEF AnnouncedOK
<1> QED
  BY <1>1 DEF OthersCalls, AnnouncedOK

(* Steps that leave the contexts and what process() remembers of them.      *)
LEMMA ContextFrame ==
  ASSUME LocalContextOK, ContextOwnership, UNCHANGED <<ctx, live, rctx, cur>>,
         \/ UNCHANGED rpc
         \/ rpc = "events" /\ rpc' = "release"
         \/ rpc' \notin Acquired \cup {"create", "erase"} /\ rpc # "erase"
  PROVE  /\ LocalContextOK' /\ ContextOwnership'
         /\ \A s \in Surfaces : HasContext(s)' => HasContext(s)
  BY DEF LocalContextOK, ContextOwnership, HasContext, Acquired

(* The steps of the rendering thread.                                       *)
LEMMA RenderContexts ==
  ASSUME IInv, NEW r \in App, HandleInv(r), RenderStep \/ ProcessNative
  PROVE  OthersCalls(r)' /\ AnnouncedOK(r)' /\ LocalContextOK' /\ ContextOwnership'
<1>1. CASE RunBegin \/ RunExit \/ ProcessFreed
  BY <1>1, AnnouncedKept, ContextFrame
  DEF HandleInv, RunBegin, RunExit, ProcessFreed, Acquired
<1>2. CASE RunTask
  <2>1. rpc = "pop" /\ rpc' \in {"enter", "after"} /\ UNCHANGED <<ctx, live, rctx>>
    BY <1>2 DEF RunTask
  <2>2. LocalContextOK' /\ ContextOwnership' /\ \A s \in Surfaces : HasContext(s)' => HasContext(s)
    BY <2>1 DEF HandleInv, LocalContextOK, ContextOwnership, HasContext, Acquired
  <2> QED
    BY <1>2, <2>2, AnnouncedKept DEF HandleInv, RunTask
<1>3. CASE RunAfter \/ UpdateNext
  <2>1. /\ rpc \in {"after", "return"} /\ rpc' \in {"exit", "pop", "enter", "after"}
        /\ UNCHANGED <<ctx, live>>
    BY <1>3 DEF RunAfter, UpdateNext
  <2>2. LocalContextOK' /\ ContextOwnership' /\ \A s \in Surfaces : HasContext(s)' => HasContext(s)
    BY <2>1 DEF HandleInv, LocalContextOK, ContextOwnership, HasContext, Acquired
  <2> QED
    BY <1>3, <2>2, AnnouncedKept DEF HandleInv, RunAfter, UpdateNext
<1>4. CASE ProcessEnter
  <2>1. /\ rpc = "enter" /\ UNCHANGED <<ctx, live, cur>>
        /\ \/ rpc' = "events" /\ rctx' = ctx[cur]
           \/ rpc' \in {"return", "after"}
    BY <1>4 DEF ProcessEnter, Returned
  <2>2. LocalContextOK' /\ ContextOwnership' /\ \A s \in Surfaces : HasContext(s)' => HasContext(s)
    BY <2>1 DEF HandleInv, LocalContextOK, ContextOwnership, HasContext, Acquired
  <2> QED
    BY <1>4, <2>2, AnnouncedKept DEF HandleInv, ProcessEnter
<1>5. CASE ProcessClose
  <2>1. /\ rpc = "events" /\ rpc' = "erase" /\ UNCHANGED <<ctx, cur, rctx>> /\ cur \in Surfaces
        /\ NextEvent("Close") /\ live \in [Surfaces -> Int]
        /\ live' = IF rctx # Null THEN [live EXCEPT ![cur] = @ - 1] ELSE live
    BY <1>5, NextEventFacts DEF ProcessClose, DestroyContextIf, IInv, TypeOK
  <2>2. /\ rctx = ctx[cur]
        /\ \A s \in Surfaces : live[s] = IF ctx[s] # Null THEN 1 ELSE 0
    BY <2>1 DEF HandleInv, LocalContextOK, ContextOwnership, Acquired
  <2>3. live'[cur] = 0 /\ \A s \in Surfaces : s # cur => live'[s] = live[s]
    BY <2>1, <2>2
  <2>4. LocalContextOK' /\ ContextOwnership'
    BY <2>1, <2>2, <2>3 DEF LocalContextOK, ContextOwnership, Acquired
  <2> QED
    BY <2>1, <2>4, PopAnnounces DEF HandleInv
<1>6. CASE ProcessResize
  <2>1. UNCHANGED <<ctx, live, rctx, cur, rpc>> /\ NextEvent("Resize") /\ rpc = "events"
    BY <1>6 DEF ProcessResize, NextEvent
  <2> QED
    BY <2>1, PopAnnounces, ContextFrame DEF HandleInv
<1>7. CASE ProcessNativeHandle
  BY <1>7, HandleStep
<1>8. CASE CreateContext
  <2>1. /\ rpc = "create" /\ rpc' \in {"events", "return", "after"} /\ UNCHANGED cur /\ cur \in Surfaces
        /\ native_handle[cur] # Null
        /\ ctx' = [ctx EXCEPT ![cur] = native_handle[cur]] /\ rctx' = native_handle[cur]
        /\ live' = [live EXCEPT ![cur] = @ + 1]
        /\ ctx \in [Surfaces -> Handles \cup {Null}] /\ live \in [Surfaces -> Int]
        /\ UNCHANGED <<events, closed, native_handle, call>>
    BY <1>8 DEF CreateContext, Returned, IInv, CurOK, InProcess, TypeOK
  <2>2. ctx[cur] = Null /\ \A s \in Surfaces : live[s] = IF ctx[s] # Null THEN 1 ELSE 0
    BY <2>1 DEF HandleInv, LocalContextOK, ContextOwnership
  <2>3. live[cur] = 0
    BY <2>1, <2>2
  <2>4. /\ live'[cur] = 1 /\ ctx'[cur] = native_handle[cur]
        /\ \A s \in Surfaces : s # cur => live'[s] = live[s] /\ ctx'[s] = ctx[s]
    BY <2>1, <2>3
  <2>5. LocalContextOK' /\ ContextOwnership'
    BY <2>1, <2>2, <2>4 DEF LocalContextOK, ContextOwnership, Acquired
  <2>6. \A s \in Surfaces : HasContext(s)' => HasContext(s)
    BY <2>1, <2>4 DEF HasContext
  <2> QED
    BY <2>1, <2>5, <2>6, AnnouncedKept DEF HandleInv
<1>9. CASE CreateContextFails
  <2>1. rpc = "create" /\ rpc' \in {"return", "after"} /\ UNCHANGED <<ctx, live, cur>>
    BY <1>9 DEF CreateContextFails, Returned
  <2>2. LocalContextOK' /\ ContextOwnership' /\ \A s \in Surfaces : HasContext(s)' => HasContext(s)
    BY <2>1 DEF HandleInv, LocalContextOK, ContextOwnership, HasContext, Acquired
  <2> QED
    BY <1>9, <2>2, AnnouncedKept DEF HandleInv, CreateContextFails
<1>10. CASE ProcessDraw
  <2>1. /\ rpc = "events" /\ UNCHANGED <<ctx, live, rctx, cur>> /\ cur \in Surfaces
        /\ \/ rpc' \in {"return", "after"} /\ UNCHANGED surfaceVars
           \/ rpc' = "release" /\ PS!ResizeSurface(Render, cur)
    BY <1>10 DEF ProcessDraw, Returned, IInv, CurOK, InProcess, Acquired
  <2>2. LocalContextOK' /\ ContextOwnership' /\ \A s \in Surfaces : HasContext(s)' => HasContext(s)
    BY <2>1, ContextFrame DEF HandleInv, Acquired
  <2>3. CASE UNCHANGED surfaceVars
    BY <2>2, <2>3, AnnouncedKept DEF HandleInv
  <2>4. CASE rpc' = "release" /\ PS!ResizeSurface(Render, cur)
    BY <2>1, <2>2, <2>4, CallAnnounces, ThreadTypes DEF HandleInv
  <2> QED
    BY <2>1, <2>3, <2>4
<1>11. CASE ProcessRelease
  <2>1. rpc = "release" /\ rpc' \in {"return", "after"} /\ UNCHANGED <<ctx, live, rctx, cur>>
    BY <1>11 DEF ProcessRelease, Returned
  <2>2. LocalContextOK' /\ ContextOwnership' /\ \A s \in Surfaces : HasContext(s)' => HasContext(s)
    BY <2>1, ContextFrame DEF HandleInv, Acquired
  <2> QED
    BY <1>11, <2>2, AnnouncedKept DEF HandleInv, ProcessRelease
<1>12. CASE ProcessErase
  <2>1. /\ rpc = "erase" /\ rpc' \in {"removed", "after"} /\ UNCHANGED <<live, cur>>
        /\ ctx' = [ctx EXCEPT ![cur] = Null] /\ cur \in Surfaces
        /\ ctx \in [Surfaces -> Handles \cup {Null}]
    BY <1>12 DEF ProcessErase, ReturnedNull, IInv, CurOK, InProcess, TypeOK
  <2>2. LocalContextOK' /\ ContextOwnership' /\ \A s \in Surfaces : HasContext(s)' => HasContext(s)
    BY <2>1 DEF HandleInv, LocalContextOK, ContextOwnership, HasContext, Acquired
  <2> QED
    BY <1>12, <2>2, AnnouncedKept DEF HandleInv, ProcessErase
<1>13. CASE AddTaskErase
  <2>1. rpc = "removed" /\ rpc' \in {"fault", "after"} /\ UNCHANGED <<ctx, live, rctx, cur>>
    BY <1>13 DEF AddTaskErase
  <2>2. LocalContextOK' /\ ContextOwnership' /\ \A s \in Surfaces : HasContext(s)' => HasContext(s)
    BY <2>1, ContextFrame DEF HandleInv, Acquired
  <2> QED
    BY <1>13, <2>2, AnnouncedKept DEF HandleInv, AddTaskErase
<1>14. CASE PushStep(Render)
  BY <1>14, PushAnnounces, ContextFrame, ThreadTypes DEF HandleInv, PushStep
<1>15. CASE ProcessNative
  <2>1. cur \in Surfaces /\ (PS!ResizeSurface(Render, cur) \/ PS!CloseSurface(Render, cur))
        /\ UNCHANGED <<ctx, live, rctx, cur, rpc>>
    BY <1>15 DEF ProcessNative, NativeEvent, IInv, CurOK, InProcess, Acquired
  <2> QED
    BY <2>1, CallAnnounces, ContextFrame, ThreadTypes DEF HandleInv
<1> QED
  BY <1>1, <1>2, <1>3, <1>4, <1>5, <1>6, <1>7, <1>8, <1>9, <1>10, <1>11, <1>12, <1>13, <1>14, <1>15
  DEF RenderStep

(* The steps of the application threads.                                    *)
LEMMA AppContexts ==
  ASSUME IInv, NEW r \in App, HandleInv(r), NEW t \in App,
         AppCall(t) \/ AppLock(t) \/ AppStep(t) \/ WaitNative(t)
  PROVE  OthersCalls(r)' /\ AnnouncedOK(r)' /\ LocalContextOK' /\ ContextOwnership'
<1>1. t \in Threads
  BY ThreadTypes
<1>2. CASE Start(t)
  <2>1. /\ UNCHANGED <<ctx, live, rctx, cur>> /\ UNCHANGED surfaceVars
        /\ UNCHANGED rpc \/ (rpc = "off" /\ rpc' = "begin")
    BY <1>2 DEF Start, IInv, ThreadOK
  <2> QED
    BY <2>1, AnnouncedKept, ContextFrame DEF HandleInv, Acquired
<1>3. CASE Update(t) \/ Stop(t) \/ Wait(t) \/ AppLock(t) \/ AddSetCallback(t) \/ AddSchedule(t)
           \/ StopUnlock(t) \/ WaitCheck(t) \/ WaitNext(t) \/ WaitUnlock(t) \/ Join(t)
  <2>1. UNCHANGED <<ctx, live, rctx, cur, rpc, events, closed, native_handle, call>>
    BY <1>3 DEF Update, Stop, Wait, AppLock, StopLock, WaitLock, LockAndVisit, AddSetCallback,
      AddSchedule, StopUnlock, WaitCheck, WaitNext, WaitUnlock, UnlockAndGo, Join
  <2> QED
    BY <2>1, AnnouncedKept, ContextFrame DEF HandleInv
<1>4. ASSUME NEW s \in Surfaces, AddPushBack(t, s)
      PROVE  OthersCalls(r)' /\ AnnouncedOK(r)' /\ LocalContextOK' /\ ContextOwnership'
  BY <1>4, AnnouncedKept, ContextFrame DEF HandleInv, AddPushBack
<1>5. ASSUME NEW s \in Surfaces, PS!ResizeSurface(t, s) \/ PS!CloseSurface(t, s),
             UNCHANGED <<ctx, live, rctx, cur, rpc>>
      PROVE  OthersCalls(r)' /\ AnnouncedOK(r)' /\ LocalContextOK' /\ ContextOwnership'
  BY <1>1, <1>5, CallAnnounces, ContextFrame DEF HandleInv
<1>6. ASSUME NEW s \in Surfaces, SurfaceCall(t, s)
      PROVE  OthersCalls(r)' /\ AnnouncedOK(r)' /\ LocalContextOK' /\ ContextOwnership'
  <2>1. UNCHANGED <<ctx, live, rctx, cur, rpc>>
    BY <1>6 DEF SurfaceCall
  <2>2. CASE PS!ResizeSurface(t, s) \/ PS!CloseSurface(t, s)
    BY <1>5, <2>1, <2>2
  <2>3. ASSUME NEW h \in Handles \cup {Null}, PS!ResetNativeHandle(t, s, h),
               left[t]["reset"] > 0 \/ left[t]["detach"] > 0
        PROVE  OthersCalls(r)' /\ AnnouncedOK(r)' /\ LocalContextOK' /\ ContextOwnership'
    <3>1. t = r
      BY <2>3 DEF HandleInv, OthersLeft
    <3> QED
      BY <2>1, <2>3, <3>1, ResetAnnounces, ContextFrame DEF HandleInv
  <2> QED
    BY <1>6, <2>2, <2>3 DEF SurfaceCall, Spend
<1>7. CASE StopClose(t)
  <2>1. Head(visit[t]) \in Surfaces /\ UNCHANGED <<ctx, live, rctx, cur, rpc>>
    BY <1>7, HeadTailProperties DEF IInv, TypeOK, StopClose
  <2>2. CASE PS!CloseSurface(t, Head(visit[t]))
    BY <1>5, <2>1, <2>2
  <2>3. CASE UNCHANGED surfaceVars
    BY <2>1, <2>3, AnnouncedKept, ContextFrame DEF HandleInv, surfaceVars
  <2> QED
    BY <1>7, <2>2, <2>3 DEF StopClose
<1>8. CASE WaitNative(t)
  <2>1. /\ Head(visit[t]) \in Surfaces
        /\ PS!ResizeSurface(t, Head(visit[t])) \/ PS!CloseSurface(t, Head(visit[t]))
        /\ UNCHANGED <<ctx, live, rctx, cur, rpc>>
    BY <1>8, HeadTailProperties DEF IInv, TypeOK, WaitNative, NativeEvent
  <2> QED
    BY <1>5, <2>1
<1>9. CASE PushStep(t)
  BY <1>1, <1>9, PushAnnounces, ContextFrame DEF HandleInv, PushStep
<1> QED
  BY <1>2, <1>3, <1>4, <1>6, <1>7, <1>8, <1>9 DEF AppCall, AppStep

(* The invariant is inductive, ...                                          *)
LEMMA HandleNext ==
  ASSUME IInv, NEW r \in App, HandleInv(r), [Next]_vars
  PROVE  HandleInv(r)'
<1>1. OthersLeft(r)'
  <2>1. {"reset", "detach"} \subseteq Ops
    BY DEF Ops
  <2> QED
    BY <2>1, NoneStaysNone, ThreadTypes DEF HandleInv, OthersLeft
<1>2. OthersCalls(r)' /\ AnnouncedOK(r)' /\ LocalContextOK' /\ ContextOwnership'
  <2>1. CASE RenderStep \/ ProcessNative
    BY <2>1, RenderContexts
  <2>2. ASSUME NEW t \in App, AppCall(t) \/ AppLock(t) \/ AppStep(t) \/ WaitNative(t)
        PROVE  OthersCalls(r)' /\ AnnouncedOK(r)' /\ LocalContextOK' /\ ContextOwnership'
    BY <2>2, AppContexts
  <2>3. ASSUME NEW s \in Surfaces, AppState(s)
        PROVE  OthersCalls(r)' /\ AnnouncedOK(r)' /\ LocalContextOK' /\ ContextOwnership'
    BY <2>3, AnnouncedKept, ContextFrame DEF HandleInv, AppState
  <2>4. CASE UNCHANGED vars
    BY <2>4, AnnouncedKept, ContextFrame DEF HandleInv, vars
  <2> QED
    BY <2>1, <2>2, <2>3, <2>4 DEF Next
<1> QED
  BY <1>1, <1>2 DEF HandleInv

(* ... and holds of surfaces as they are constructed.                       *)
LEMMA HandleInit ==
  ASSUME Init, NEW r \in App, OnlyResets(r)
  PROVE  HandleInv(r)
<1>1. OthersLeft(r)
  BY DEF Init, OnlyResets, OthersLeft
<1>2. /\ r \in Threads /\ call = [t \in Threads |-> PS!NoCall]
      /\ PS!NoCall.at = "idle" /\ PS!NoCall.ev.type = "Close"
  BY ThreadTypes DEF Init, PS!Init, PS!NoCall, PS!Close
<1>3. OthersCalls(r) /\ \A s \in Surfaces : ~Announces(r, s)
  BY <1>2 DEF OthersCalls, Announces
<1>4. LocalContextOK /\ ContextOwnership /\ \A s \in Surfaces : ~HasContext(s)
  BY DEF Init, LocalContextOK, ContextOwnership, HasContext, Acquired
<1>5. ASSUME NEW s \in Surfaces PROVE AnnouncedAt(r, s)
  <2>1. PS!Created(s)
    BY DEF Init, PS!Init
  <2>2. CASE events[s] = <<>>
    BY <1>3, <1>4, <2>2 DEF AnnouncedAt, Chained, EndsWith
  <2>3. CASE events[s] = <<[ev |-> PS!NativeHandle(Null, native_handle[s]), by |-> Null]>>
    <3>1. Len(events[s]) = 1 /\ events[s][1].ev.after = native_handle[s]
      BY <2>3 DEF PS!NativeHandle
    <3>2. \A i \in 1..1 : i = 1
      OBVIOUS
    <3> QED
      BY <1>3, <1>4, <3>1, <3>2 DEF AnnouncedAt, Chained, EndsWith
  <2> QED
    BY <2>1, <2>2, <2>3 DEF PS!Created
<1> QED
  BY <1>1, <1>3, <1>4, <1>5 DEF HandleInv, AnnouncedOK

(* Every context is destroyed exactly once when one thread is in charge of  *)
(* the handles of the windows, however many threads resize and close them,  *)
(* add and update surfaces and stop the loop.                               *)
THEOREM ContextsDestroyedOnce ==
  ASSUME NEW r \in App, OnlyResets(r)
  PROVE  Spec => []ContextOwnership
<1>1. Init => IInv /\ HandleInv(r)
  BY InitIInv, HandleInit
<1>2. IInv /\ HandleInv(r) /\ [Next]_vars => (IInv /\ HandleInv(r))'
  BY NextStep, HandleNext
<1>3. IInv /\ HandleInv(r) => ContextOwnership
  BY DEF HandleInv
<1> QED
  BY <1>1, <1>2, <1>3, PTL DEF Spec

-----------------------------------------------------------------------------
(* acquire() is never refused, no window loses its handle and contexts can  *)
(* be created: process() takes none of the early returns that leave events  *)
(* in the queue.                                                            *)
NeverReturnsEarly ==
  /\ ~CreateMayFail
  /\ \A q \in Quotas : q[Render]["gate"] = 0 /\ \A t \in App : q[t]["detach"] = 0

(* What follows from it: ...                                                *)
StaysAllowed ==
  /\ left[Render]["gate"] = 0 /\ \A t \in App : left[t]["detach"] = 0
  /\ \A s \in Surfaces : allowed[s]

(* A surface whose handle was announced has one.                            *)
HandleKept ==
  /\ \A t \in Threads : call[t].ev.type = "NativeHandle" =>
       /\ call[t].s \in Surfaces /\ native_handle[call[t].s] # Null
       /\ call[t].ev.after # Null
  /\ \A s \in Surfaces : \A i \in 1..Len(events[s]) :
       Handle(events[s], i) => events[s][i].ev.after # Null /\ native_handle[s] # Null
  /\ rpc = "create" => native_handle[cur] # Null

(* An entry that is not published belongs to a push in progress.            *)
UnpublishedOK ==
  \A s \in Surfaces : \A i \in 1..Len(events[s]) :
    LET t == events[s][i].by IN t # Null => call[t].s = s /\ call[t].at = "link"

(* The entries of the queues after a step of pushEvent().                   *)
LEMMA PushEntries ==
  ASSUME IInv, NEW t \in Threads, PS!Push(t) \/ PS!Notify(t), NEW s \in Surfaces
  PROVE  /\ \A i \in 1..Len(events'[s]) :
              \/ /\ i \in 1..Len(events[s]) /\ events'[s][i].ev = events[s][i].ev
                 /\ events'[s][i].by \in {events[s][i].by, Null}
                 /\ PS!PushLink(t) /\ call[t].s = s => events'[s][i].by # t
              \/ /\ PS!PushClaim(t) /\ call[t].s = s
                 /\ events'[s][i].ev = call[t].ev /\ events'[s][i].by = t
         /\ \A i \in 1..Len(events[s]) :
              i \in 1..Len(events'[s]) /\ events'[s][i].ev = events[s][i].ev
         /\ PS!PushClaim(t) /\ call[t].s = s =>
              \E i \in 1..Len(events'[s]) : events'[s][i].ev = call[t].ev
<1> DEFINE q == call[t].s
           E == [ev : PS!Event, by : Threads \cup {Null}]
           a == events[s]
           b == events'[s]
<1>1. /\ a \in Seq(E) /\ call[t] \in PS!Call /\ t # Null
      /\ events \in [Surfaces -> Seq(E)] /\ call \in [Threads -> PS!Call]
  BY RenderNullAssumption DEF IInv, TypeOK, PS!TypeOK
<1>2. Len(a) \in Nat /\ DOMAIN a = 1..Len(a) /\ \A i \in 1..Len(a) : a[i] \in E
  <2> HIDE DEF a, E
  <2> QED
    BY <1>1, LenProperties, ElementOfSeq
<1>3. CASE PS!PushClaim(t) /\ q = s
  <2> DEFINE e == [ev |-> call[t].ev, by |-> t]
  <2>1. b = Append(a, e) /\ e \in E /\ e.ev = call[t].ev /\ e.by = t
    BY <1>1, <1>3 DEF PS!PushClaim, PS!Call
  <2> HIDE DEF e, E, a, b
  <2>2. /\ Len(b) = Len(a) + 1 /\ b[Len(a) + 1] = e
        /\ \A i \in 1..Len(a) : b[i] = a[i]
    BY <1>1, <2>1, AppendProperties
  <2>3. \A i \in 1..Len(b) : i \in 1..Len(a) \/ i = Len(a) + 1
    BY <1>2, <2>2
  <2>4. Len(a) + 1 \in 1..Len(b) /\ \A i \in 1..Len(a) : i \in 1..Len(b)
    BY <1>2, <2>2
  <2>5. ~PS!PushLink(t)
    BY <1>3 DEF PS!PushClaim, PS!PushLink
  <2> QED
    BY <1>3, <2>1, <2>2, <2>3, <2>4, <2>5 DEF a, b
<1>4. CASE PS!PushLink(t) /\ q = s
  <2>1. b = [i \in 1..Len(a) |-> IF a[i].by = t THEN [a[i] EXCEPT !.by = Null] ELSE a[i]]
    BY <1>1, <1>2, <1>4 DEF PS!PushLink, PS!Publish
  <2>2. \A x \in E : /\ [x EXCEPT !.by = Null] \in E /\ [x EXCEPT !.by = Null].ev = x.ev
                     /\ [x EXCEPT !.by = Null].by = Null
    OBVIOUS
  <2> HIDE DEF a, b
  <2>3. \A i \in 1..Len(a) : b[i].ev = a[i].ev /\ b[i].by \in {a[i].by, Null} /\ b[i].by # t
    BY <1>1, <1>2, <2>1, <2>2
  <2>4. b \in [1..Len(a) -> E]
    <3> HIDE DEF E
    <3> QED
      BY <1>2, <2>1, <2>2
  <2>5. Len(b) = Len(a)
    <3> HIDE DEF E
    <3> QED
      BY <1>2, <2>4, FunctionIsSeq
  <2>6. ~PS!PushClaim(t)
    BY <1>4 DEF PS!PushClaim, PS!PushLink
  <2> QED
    BY <2>3, <2>5, <2>6 DEF a, b
<1>5. CASE ~(PS!PushClaim(t) /\ q = s) /\ ~(PS!PushLink(t) /\ q = s)
  <2>1. b = a
    BY <1>1, <1>5 DEF PS!Push, PS!PushCheck, PS!PushClaim, PS!PushLink, PS!SetClosed, PS!Notify
  <2> HIDE DEF a, b
  <2> QED
    BY <1>5, <2>1 DEF a, b
<1> QED
  BY <1>3, <1>4, <1>5

(* The entries after process() popped one.                                  *)
LEMMA PopEntries ==
  ASSUME IInv, NEW type, NextEvent(type)
  PROVE  /\ \A s \in Surfaces : s # cur => events'[s] = events[s]
         /\ 1 \in 1..Len(events[cur]) /\ events[cur][1].ev.type = type
         /\ \A i \in 1..Len(events'[cur]) :
              i + 1 \in 1..Len(events[cur]) /\ events'[cur][i] = events[cur][i + 1]
         /\ \A i \in 1..Len(events[cur]) :
              i = 1 \/ (i - 1 \in 1..Len(events'[cur]) /\ events'[cur][i - 1] = events[cur][i])
<1> DEFINE E == [ev : PS!Event, by : Threads \cup {Null}]
           a == events[cur]
           b == events'[cur]
<1>1. cur \in Surfaces
  BY NextEventFacts
<1>2. /\ events \in [Surfaces -> Seq(E)] /\ a # <<>> /\ Head(a).ev.type = type
      /\ events' = [events EXCEPT ![cur] = Tail(a)]
  BY DEF NextEvent, PS!PopEvent, PS!CanPop, IInv, TypeOK, PS!TypeOK
<1>3. a \in Seq(E) /\ b = Tail(a) /\ \A s \in Surfaces : s # cur => events'[s] = events[s]
  BY <1>1, <1>2
<1> HIDE DEF a, b, E
<1>4. /\ Len(a) \in Nat \ {0} /\ Head(a) = a[1] /\ Len(b) = Len(a) - 1
      /\ \A i \in 1..Len(b) : b[i] = a[i + 1]
  BY <1>2, <1>3, HeadTailProperties, EmptySeq, LenProperties
<1>5. \A i \in 1..Len(b) : i + 1 \in 1..Len(a) /\ b[i] = a[i + 1]
  BY <1>4
<1>6. ASSUME NEW i \in 1..Len(a), i # 1 PROVE i - 1 \in 1..Len(b) /\ b[i - 1] = a[i]
  <2>1. i - 1 \in 1..Len(b) /\ (i - 1) + 1 = i
    BY <1>4, <1>6
  <2> QED
    BY <1>5, <2>1
<1>7. 1 \in 1..Len(a) /\ a[1].ev.type = type
  BY <1>2, <1>4
<1> QED
  BY <1>3, <1>5, <1>6, <1>7 DEF a, b

-----------------------------------------------------------------------------
(* What a step may do to the surfaces, whichever action takes it.           *)
Quiet == UNCHANGED <<events, closed, native_handle, call>>

Called(t, s) == PS!ResizeSurface(t, s) \/ PS!CloseSurface(t, s)

Handled(t, s) == \E h \in Handles : PS!ResetNativeHandle(t, s, h)

(* The kinds of steps, with the callback of a push ...                      *)
LEMMA StepOfCalls ==
  ASSUME IInv, StaysAllowed, [Next]_vars
  PROVE  \/ Quiet
         \/ \E t \in Threads : \E s \in Surfaces : Called(t, s)
         \/ \E t \in App : \E s \in Surfaces : Handled(t, s)
         \/ \E t \in Threads : PushStep(t)
         \/ ProcessClose \/ ProcessResize \/ ProcessNativeHandle
<1>1. CASE RenderStep
  <2>1. CASE ProcessDraw
    BY <2>1, ThreadTypes DEF ProcessDraw, Quiet, Called, IInv, CurOK, InProcess, Acquired
  <2>2. CASE PushStep(Render)
    BY <2>2, ThreadTypes
  <2>3. CASE ~ProcessDraw /\ ~PushStep(Render) /\ ~ProcessClose /\ ~ProcessResize /\ ~ProcessNativeHandle
    BY <1>1, <2>3 DEF RenderStep, RunBegin, RunTask, RunAfter, RunExit, ProcessFreed, ProcessEnter,
      CreateContext, CreateContextFails, ProcessRelease, ProcessErase, UpdateNext, AddTaskErase, Quiet
  <2> QED
    BY <2>1, <2>2, <2>3
<1>2. CASE ProcessNative
  BY <1>2, ThreadTypes DEF ProcessNative, NativeEvent, Called, IInv, CurOK, InProcess, Acquired
<1>3. ASSUME NEW t \in App, Start(t) \/ Update(t) \/ Stop(t) \/ Wait(t)
                            \/ \E s \in Surfaces : AddPushBack(t, s)
      PROVE  Quiet
  BY <1>3 DEF Start, Update, Stop, Wait, AddPushBack, Quiet
<1>4. ASSUME NEW t \in App, NEW s \in Surfaces, SurfaceCall(t, s)
      PROVE  Called(t, s) \/ Handled(t, s)
  <2>1. ~Spend(t, "detach")
    BY DEF StaysAllowed, Spend
  <2> QED
    BY <1>4, <2>1 DEF SurfaceCall, Called, Handled
<1>5. ASSUME NEW t \in App, StopClose(t) \/ WaitNative(t)
      PROVE  Quiet \/ \E s \in Surfaces : Called(t, s)
  <2>1. Head(visit[t]) \in Surfaces
    BY <1>5, HeadTailProperties DEF IInv, TypeOK, StopClose, WaitNative
  <2> QED
    BY <1>5, <2>1 DEF StopClose, WaitNative, NativeEvent, Called, Quiet
<1>6. ASSUME NEW t \in App, AppLock(t) \/ (AppStep(t) /\ ~StopClose(t) /\ ~PushStep(t))
      PROVE  Quiet
  BY <1>6 DEF AppLock, AppStep, StopLock, WaitLock, LockAndVisit, AddSetCallback, AddSchedule,
    StopUnlock, WaitCheck, WaitNext, WaitUnlock, UnlockAndGo, Join, Quiet
<1>8. ASSUME NEW s \in Surfaces, AppState(s) PROVE Quiet
  BY <1>8 DEF AppState, Quiet
<1>9. CASE UNCHANGED vars
  BY <1>9 DEF vars, Quiet
<1>10. ASSUME NEW t \in App, AppStep(t)
       PROVE  StopClose(t) \/ PushStep(t) \/ (AppStep(t) /\ ~StopClose(t) /\ ~PushStep(t))
  BY <1>10
<1> QED
  BY <1>1, <1>2, <1>3, <1>4, <1>5, <1>6, <1>8, <1>9, <1>10, ThreadTypes DEF Next, AppCall

(* ... and without it.                                                      *)
LEMMA StepOfSurfaces ==
  ASSUME IInv, StaysAllowed, [Next]_vars
  PROVE  \/ Quiet
         \/ \E t \in Threads : \E s \in Surfaces : Called(t, s)
         \/ \E t \in App : \E s \in Surfaces : Handled(t, s)
         \/ \E t \in Threads : PS!Push(t) \/ PS!Notify(t)
         \/ ProcessClose \/ ProcessResize \/ ProcessNativeHandle
<1>1. ASSUME NEW t \in Threads, PushStep(t) PROVE PS!Push(t) \/ PS!Notify(t)
  BY <1>1 DEF PushStep
<1> QED
  BY <1>1, StepOfCalls

-----------------------------------------------------------------------------
(* Nothing refuses acquire().                                               *)
LEMMA StaysAllowedNext ==
  ASSUME IInv, StaysAllowed, [Next]_vars
  PROVE  StaysAllowed'
<1>1. "gate" \in Ops /\ "detach" \in Ops
  BY DEF Ops
<1>2. left'[Render]["gate"] = 0 /\ \A t \in App : left'[t]["detach"] = 0
  BY <1>1, NoneStaysNone, ThreadTypes DEF StaysAllowed
<1>3. \A s \in Surfaces : ~AppState(s)
  BY DEF StaysAllowed, AppState, Spend
<1>4. UNCHANGED allowed
  <2>1. CASE RenderStep
    BY <2>1 DEF RenderStep, RunBegin, RunTask, RunAfter, RunExit, ProcessFreed, ProcessEnter, ProcessClose,
      ProcessResize, ProcessNativeHandle, CreateContext, CreateContextFails, ProcessDraw, ProcessRelease,
      ProcessErase, UpdateNext, AddTaskErase, PushStep
  <2>2. CASE ProcessNative
    BY <2>2 DEF ProcessNative
  <2>3. ASSUME NEW t \in App, AppCall(t) PROVE UNCHANGED allowed
    BY <2>3 DEF AppCall, Start, Update, Stop, Wait, AddPushBack, SurfaceCall
  <2>4. ASSUME NEW t \in App, AppLock(t) \/ AppStep(t) \/ WaitNative(t) PROVE UNCHANGED allowed
    BY <2>4 DEF AppLock, AppStep, WaitNative, StopLock, WaitLock, LockAndVisit, PushStep, AddSetCallback,
      AddSchedule, StopClose, StopUnlock, WaitCheck, WaitNext, WaitUnlock, UnlockAndGo, Join
  <2> QED
    BY <1>3, <2>1, <2>2, <2>3, <2>4 DEF Next, vars
<1> QED
  BY <1>2, <1>4 DEF StaysAllowed

(* A closed surface has Close in its queue, unless process() has popped it. *)
CloseSeen(s) ==
  \/ \E i \in 1..Len(events[s]) : events[s][i].ev.type = "Close"
  \/ cur = s /\ rpc = "erase"
  \/ sp[s] = "freed"

(* A call past the push of its Close event.                                 *)
PastClose(c) == c.at = "close" \/ (c.then = "close" /\ c.at \in {"link", "notify"})

(* A surface is closed after its Close event is in the queue.               *)
CloseQueued ==
  /\ \A s \in Surfaces : closed[s] => CloseSeen(s)
  /\ \A t \in Threads : call[t].then = "close" => call[t].ev.type = "Close"
  /\ \A t \in Threads : \A s \in Surfaces : call[t].s = s /\ PastClose(call[t]) => CloseSeen(s)

(* A context on another handle than that of the surface is about to be      *)
(* replaced, or the surface to be removed.                                  *)
Replaced(s) ==
  \/ \E t \in Threads : /\ call[t].s = s /\ call[t].ev.type = "NativeHandle"
                        /\ call[t].at \in {"check", "claim"}
  \/ ~NoHandle(events[s])
  \/ rpc = "create" /\ cur = s
  \/ closed[s]
  \/ sp[s] = "freed"

ContextsFollow == \A s \in Surfaces : ctx[s] = native_handle[s] \/ Replaced(s)

(* What the steps do to the state of process().                             *)
LEMMA StepOfContexts ==
  ASSUME IInv, StaysAllowed, HandleKept, ~CreateMayFail, [Next]_vars
  PROVE  /\ rpc' = "create" => ProcessNativeHandle \/ (rpc = "create" /\ UNCHANGED cur)
         /\ rpc = "create" => CreateContext \/ UNCHANGED <<rpc, cur>>
         /\ rpc = "erase" => ProcessErase \/ UNCHANGED <<rpc, cur>>
         /\ UNCHANGED ctx \/ ProcessNativeHandle \/ CreateContext \/ ProcessErase
         /\ \A s \in Surfaces : sp[s] = "freed" => sp'[s] = "freed"
<1> DEFINE G == /\ rpc' = "create" => ProcessNativeHandle \/ (rpc = "create" /\ UNCHANGED cur)
                /\ rpc = "create" => CreateContext \/ UNCHANGED <<rpc, cur>>
                /\ rpc = "erase" => ProcessErase \/ UNCHANGED <<rpc, cur>>
                /\ UNCHANGED ctx \/ ProcessNativeHandle \/ CreateContext \/ ProcessErase
                /\ \A s \in Surfaces : sp[s] = "freed" => sp'[s] = "freed"
<1>1. CASE RenderStep
  <2>1. ~CreateContextFails
    BY DEF CreateContextFails, HandleKept
  <2>2. CASE ProcessErase
    <3>1. rpc = "erase" /\ sp' = [sp EXCEPT ![cur] = "freed"] /\ rpc' \in {"removed", "after"}
      BY <2>2 DEF ProcessErase, ReturnedNull
    <3> QED
      BY <2>2, <3>1 DEF IInv, TypeOK
  <2>3. CASE AddTaskErase
    <3>1. rpc = "removed" /\ rpc' \in {"fault", "after"} /\ UNCHANGED ctx
          /\ (UNCHANGED sp \/ sp' = [sp EXCEPT ![cur] = "freed"])
      BY <2>3 DEF AddTaskErase
    <3> QED
      BY <3>1 DEF IInv, TypeOK
  <2>4. CASE ProcessNativeHandle \/ CreateContext
    BY <2>4 DEF ProcessNativeHandle, NextEvent, CreateContext, Returned
  <2>5. CASE PushStep(Render)
    BY <2>5 DEF PushStep
  <2>6. CASE RunBegin \/ RunTask \/ RunAfter \/ RunExit \/ ProcessFreed \/ ProcessEnter \/ ProcessClose
             \/ ProcessResize \/ ProcessDraw \/ ProcessRelease \/ UpdateNext
    BY <2>6 DEF RunBegin, RunTask, RunAfter, RunExit, ProcessFreed, ProcessEnter, ProcessClose,
      ProcessResize, ProcessDraw, ProcessRelease, UpdateNext, NextEvent, Returned
  <2> QED
    BY <1>1, <2>1, <2>2, <2>3, <2>4, <2>5, <2>6 DEF RenderStep
<1>2. CASE ProcessNative
  BY <1>2 DEF ProcessNative
<1>3. ASSUME NEW t \in App, AppCall(t) PROVE G
  <2>1. CASE Start(t)
    BY <2>1 DEF Start, IInv, ThreadOK
  <2>2. ASSUME NEW s \in Surfaces, AddPushBack(t, s) PROVE G
    <3>1. sp[s] = "new" /\ sp' = [sp EXCEPT ![s] = "live"] /\ UNCHANGED <<rpc, cur, ctx>>
      BY <2>2 DEF AddPushBack
    <3> QED
      BY <3>1 DEF IInv, TypeOK
  <2>3. CASE Update(t) \/ Stop(t) \/ Wait(t) \/ \E s \in Surfaces : SurfaceCall(t, s)
    BY <2>3 DEF Update, Stop, Wait, SurfaceCall
  <2> QED
    BY <1>3, <2>1, <2>2, <2>3 DEF AppCall
<1>4. ASSUME NEW t \in App, AppLock(t) \/ AppStep(t) \/ WaitNative(t) PROVE G
  BY <1>4 DEF AppLock, AppStep, WaitNative, StopLock, WaitLock, LockAndVisit, PushStep, AddSetCallback,
      AddSchedule, StopClose, StopUnlock, WaitCheck, WaitNext, WaitUnlock, UnlockAndGo, Join
<1>5. ASSUME NEW s \in Surfaces, AppState(s) PROVE G
  BY <1>5 DEF AppState
<1>6. CASE UNCHANGED vars
  BY <1>6 DEF vars
<1> QED
  BY <1>1, <1>2, <1>3, <1>4, <1>5, <1>6 DEF Next

(* The event of a call: a new one, the one of before, or a resize after it. *)
LEMMA CallEvents ==
  ASSUME IInv, NEW t \in Threads, PS!Push(t) \/ PS!Notify(t)
  PROVE  /\ call[t].s \in Surfaces /\ \A u \in Threads : u # t => call'[u] = call[u]
         /\ \/ call'[t].ev = call[t].ev /\ call'[t].s = call[t].s
            \/ call'[t].ev \in {PS!Resize, PS!Close}
<1>1. call \in [Threads -> PS!Call] /\ call[t] \in PS!Call
  BY DEF IInv, TypeOK, PS!TypeOK
<1>2. call[t].s \in Surfaces
  BY DEF IInv, CallOK, PS!Push, PS!PushCheck, PS!PushClaim, PS!PushLink, PS!SetClosed, PS!Notify
<1>3. \A u \in Threads : u # t => call'[u] = call[u]
  BY <1>1 DEF PS!Push, PS!PushCheck, PS!PushClaim, PS!PushLink, PS!SetClosed, PS!Notify
<1>4. \A at \in {"claim", "link", "notify"} :
        [call[t] EXCEPT !.at = at].ev = call[t].ev /\ [call[t] EXCEPT !.at = at].s = call[t].s
  BY <1>1 DEF PS!Call
<1>5. /\ PS!NoCall.ev = PS!Close
      /\ \/ PS!Return(call[t]).ev \in {PS!Resize, PS!Close}
         \/ PS!Return(call[t]).ev = call[t].ev /\ PS!Return(call[t]).s = call[t].s
  BY <1>1 DEF PS!NoCall, PS!Return, PS!Call
<1> QED
  BY <1>1, <1>2, <1>3, <1>4, <1>5
  DEF PS!Push, PS!PushCheck, PS!PushClaim, PS!PushLink, PS!SetClosed, PS!Notify

(* What is left in a queue was there before the pop.                        *)
LEMMA PopKeeps ==
  ASSUME IInv, NEW type, NextEvent(type), NEW s \in Surfaces, NEW i \in 1..Len(events'[s])
  PROVE  \E j \in 1..Len(events[s]) : events'[s][i] = events[s][j]
<1>1. CASE s # cur
  BY <1>1, PopEntries
<1>2. CASE s = cur
  <2>1. i + 1 \in 1..Len(events[cur]) /\ events'[cur][i] = events[cur][i + 1]
    BY <1>2, PopEntries
  <2> QED
    BY <1>2, <2>1
<1> QED
  BY <1>1, <1>2

(* No handle is taken back, so that one that was announced stays.           *)
LEMMA HandleKeptNext ==
  ASSUME IInv, StaysAllowed, HandleKept, ~CreateMayFail, [Next]_vars
  PROVE  HandleKept'
<1>1. /\ call \in [Threads -> PS!Call] /\ native_handle \in [Surfaces -> Handles \cup {Null}]
      /\ Null \notin Handles
  BY RenderNullAssumption DEF IInv, TypeOK, PS!TypeOK, PS!HandleOrNull
<1>2. PS!Resize.type # "NativeHandle" /\ PS!Close.type # "NativeHandle"
  BY DEF PS!Resize, PS!Close
<1>3. ASSUME NEW type, NextEvent(type), UNCHANGED <<native_handle, call, cur>>,
             rpc' = "create" => type = "NativeHandle"
      PROVE  HandleKept'
  <2>1. \A s \in Surfaces : \A i \in 1..Len(events'[s]) :
          \E j \in 1..Len(events[s]) : events'[s][i] = events[s][j]
    BY <1>3, PopKeeps
  <2>2. type = "NativeHandle" => native_handle[cur] # Null
    BY <1>3, PopEntries, NextEventFacts DEF HandleKept, Handle
  <2> QED
    BY <1>3, <2>1, <2>2 DEF HandleKept, Handle
<1>4. CASE ProcessNativeHandle
  BY <1>3, <1>4, NextEventFacts DEF ProcessNativeHandle
<1>5. CASE ~ProcessNativeHandle
  <2>1. rpc' = "create" => rpc = "create" /\ UNCHANGED cur /\ cur \in Surfaces
    BY <1>5, StepOfContexts DEF IInv, CurOK, InProcess
  <2>2. CASE Quiet
    BY <2>1, <2>2 DEF HandleKept, Quiet, Handle
  <2>3. ASSUME NEW t \in Threads, NEW q \in Surfaces, Called(t, q) PROVE HandleKept'
    <3>1. PICK e \in {PS!Resize, PS!Close}, then \in {"return", "close"} : PS!BeginPush(t, q, e, then)
      BY <2>3 DEF Called, PS!ResizeSurface, PS!CloseSurface
    <3>2. /\ UNCHANGED <<events, native_handle>>
          /\ call' = [call EXCEPT ![t] = [at |-> "check", s |-> q, ev |-> e, then |-> then]]
      BY <2>3, <3>1 DEF Called, PS!ResizeSurface, PS!CloseSurface, PS!BeginPush
    <3>3. \A u \in Threads : call'[u].ev.type = "NativeHandle" => call'[u] = call[u]
      BY <1>1, <1>2, <3>1, <3>2
    <3> QED
      BY <2>1, <3>2, <3>3 DEF HandleKept, Handle
  <2>4. ASSUME NEW t \in App, NEW q \in Surfaces, Handled(t, q) PROVE HandleKept'
    <3>1. PICK h \in Handles : PS!ResetNativeHandle(t, q, h)
      BY <2>4 DEF Handled
    <3>2. PICK then \in {"return", "resize"} : PS!BeginPush(t, q, PS!NativeHandle(native_handle[q], h), then)
      BY <3>1 DEF PS!ResetNativeHandle
    <3> DEFINE e == PS!NativeHandle(native_handle[q], h)
    <3>3. /\ UNCHANGED events /\ native_handle' = [native_handle EXCEPT ![q] = h] /\ h # Null
          /\ call' = [call EXCEPT ![t] = [at |-> "check", s |-> q, ev |-> e, then |-> then]]
          /\ e.after = h
      BY <1>1, <3>1, <3>2 DEF PS!ResetNativeHandle, PS!BeginPush, PS!NativeHandle
    <3> HIDE DEF e
    <3>4. native_handle'[q] # Null /\ \A s \in Surfaces : native_handle[s] # Null => native_handle'[s] # Null
      BY <1>1, <3>3
    <3>5. \A u \in Threads : call'[u] = call[u] \/ (call'[u].s = q /\ call'[u].ev.after # Null)
      BY <1>1, <3>3
    <3> QED
      BY <2>1, <3>3, <3>4, <3>5 DEF HandleKept, Handle
  <2>5. ASSUME NEW t \in Threads, PS!Push(t) \/ PS!Notify(t) PROVE HandleKept'
    <3>1. UNCHANGED native_handle
      BY <2>5 DEF PS!Push, PS!PushCheck, PS!PushClaim, PS!PushLink, PS!SetClosed, PS!Notify
    <3>2. ASSUME NEW s \in Surfaces, NEW i \in 1..Len(events'[s]), Handle(events'[s], i)
          PROVE  events'[s][i].ev.after # Null /\ native_handle[s] # Null
      <4>1. \/ i \in 1..Len(events[s]) /\ events'[s][i].ev = events[s][i].ev
            \/ call[t].s = s /\ events'[s][i].ev = call[t].ev
        BY <2>5, PushEntries
      <4> QED
        BY <3>2, <4>1 DEF HandleKept, Handle
    <3>3. \A u \in Threads : call'[u].ev.type = "NativeHandle" =>
             call'[u].ev = call[u].ev /\ call'[u].s = call[u].s
      BY <1>2, <2>5, CallEvents
    <3> QED
      BY <2>1, <3>1, <3>2, <3>3 DEF HandleKept
  <2>6. CASE ProcessClose \/ ProcessResize
    <3>1. rpc' # "create" /\ UNCHANGED <<native_handle, call, cur>>
          /\ \E type \in {"Close", "Resize"} : NextEvent(type)
      BY <2>6, NextEventFacts DEF ProcessClose, ProcessResize, NextEvent
    <3> QED
      BY <1>3, <3>1
  <2> QED
    BY <1>5, <2>2, <2>3, <2>4, <2>5, <2>6, StepOfSurfaces
<1> QED
  BY <1>4, <1>5

(* A call in progress at "link" is moved on by its own thread only.         *)
LEMMA UnpublishedNext ==
  ASSUME IInv, StaysAllowed, UnpublishedOK, [Next]_vars
  PROVE  UnpublishedOK'
<1>1. call \in [Threads -> PS!Call] /\ Null \notin Threads
  BY RenderNullAssumption DEF IInv, TypeOK, PS!TypeOK
<1>2. \A s \in Surfaces : \A i \in 1..Len(events[s]) : events[s][i].by \in Threads \cup {Null}
  <2> SUFFICES ASSUME NEW s \in Surfaces
               PROVE  \A i \in 1..Len(events[s]) : events[s][i].by \in Threads \cup {Null}
    OBVIOUS
  <2> DEFINE E == [ev : PS!Event, by : Threads \cup {Null}]
             a == events[s]
  <2>1. a \in Seq(E)
    BY DEF IInv, TypeOK, PS!TypeOK
  <2>2. \A x \in E : x.by \in Threads \cup {Null}
    OBVIOUS
  <2> HIDE DEF E, a
  <2>3. \A i \in 1..Len(a) : a[i] \in E
    BY <2>1, ElementOfSeq
  <2> QED
    BY <2>2, <2>3 DEF a
<1>3. CASE Quiet
  BY <1>3 DEF UnpublishedOK, Quiet
<1>4. ASSUME NEW t \in Threads, NEW q \in Surfaces, NEW e, NEW then, PS!BeginPush(t, q, e, then),
             UNCHANGED events
      PROVE  UnpublishedOK'
  <2>1. \A u \in Threads : call[u].at = "link" => call'[u] = call[u]
    BY <1>1, <1>4 DEF PS!BeginPush, PS!Idle
  <2> QED
    BY <1>1, <1>2, <1>4, <2>1 DEF UnpublishedOK
<1>5. ASSUME NEW t \in Threads, NEW q \in Surfaces, Called(t, q) PROVE UnpublishedOK'
  BY <1>4, <1>5 DEF Called, PS!ResizeSurface, PS!CloseSurface
<1>6. ASSUME NEW t \in App, NEW q \in Surfaces, Handled(t, q) PROVE UnpublishedOK'
  BY <1>4, <1>6, ThreadTypes DEF Handled, PS!ResetNativeHandle
<1>7. ASSUME NEW t \in Threads, PS!Push(t) \/ PS!Notify(t) PROVE UnpublishedOK'
  <2>1. \A u \in Threads : u # t => call'[u] = call[u]
    BY <1>7, CallEvents
  <2>2. CASE PS!PushClaim(t)
    <3>1. call'[t] = [call[t] EXCEPT !.at = "link"] /\ call[t].at = "claim"
      BY <1>1, <2>2 DEF PS!PushClaim
    <3>2. call'[t].at = "link" /\ call'[t].s = call[t].s
      BY <1>1, <3>1 DEF PS!Call
    <3>3. ASSUME NEW s \in Surfaces, NEW i \in 1..Len(events'[s]), events'[s][i].by # Null
          PROVE  call'[events'[s][i].by].s = s /\ call'[events'[s][i].by].at = "link"
      <4>1. \/ i \in 1..Len(events[s]) /\ events'[s][i].by \in {events[s][i].by, Null}
            \/ call[t].s = s /\ events'[s][i].by = t
        BY <1>7, PushEntries
      <4>2. CASE i \in 1..Len(events[s]) /\ events'[s][i].by = events[s][i].by
        <5>1. call[events[s][i].by].s = s /\ call[events[s][i].by].at = "link" /\ events[s][i].by \in Threads
          BY <1>2, <3>3, <4>2 DEF UnpublishedOK
        <5> QED
          BY <2>1, <3>1, <4>2, <5>1
      <4> QED
        BY <3>2, <3>3, <4>1, <4>2
    <3> QED
      BY <3>3 DEF UnpublishedOK
  <2>3. CASE ~PS!PushClaim(t)
    <3>1. ASSUME NEW s \in Surfaces, NEW i \in 1..Len(events'[s]), events'[s][i].by # Null
          PROVE  call'[events'[s][i].by].s = s /\ call'[events'[s][i].by].at = "link"
      <4>1. /\ i \in 1..Len(events[s]) /\ events'[s][i].by = events[s][i].by
            /\ PS!PushLink(t) /\ call[t].s = s => events'[s][i].by # t
        BY <1>7, <2>3, <3>1, PushEntries
      <4>2. call[events[s][i].by].s = s /\ call[events[s][i].by].at = "link" /\ events[s][i].by \in Threads
        BY <1>2, <3>1, <4>1 DEF UnpublishedOK
      <4>3. call[t].at = "link" => PS!PushLink(t)
        BY <1>7 DEF PS!Push, PS!PushCheck, PS!PushClaim, PS!PushLink, PS!SetClosed, PS!Notify
      <4>4. events[s][i].by # t
        BY <4>1, <4>2, <4>3
      <4> QED
        BY <2>1, <4>1, <4>2, <4>4
    <3> QED
      BY <3>1 DEF UnpublishedOK
  <2> QED
    BY <2>2, <2>3
<1>8. CASE ProcessClose \/ ProcessResize \/ ProcessNativeHandle
  <2>1. UNCHANGED call /\ \E type \in {"Close", "Resize", "NativeHandle"} : NextEvent(type)
    BY <1>8, NextEventFacts DEF ProcessClose, ProcessResize, ProcessNativeHandle
  <2>2. \A s \in Surfaces : \A i \in 1..Len(events'[s]) :
          \E j \in 1..Len(events[s]) : events'[s][i] = events[s][j]
    BY <2>1, PopKeeps
  <2>3. ASSUME NEW s \in Surfaces, NEW i \in 1..Len(events'[s]), events'[s][i].by # Null
        PROVE  call'[events'[s][i].by].s = s /\ call'[events'[s][i].by].at = "link"
    <3>1. PICK j \in 1..Len(events[s]) : events'[s][i] = events[s][j]
      BY <2>2
    <3>2. call[events[s][j].by].s = s /\ call[events[s][j].by].at = "link"
      BY <2>3, <3>1 DEF UnpublishedOK
    <3> QED
      BY <2>1, <3>1, <3>2
  <2> QED
    BY <2>3 DEF UnpublishedOK
<1> QED
  BY <1>3, <1>5, <1>6, <1>7, <1>8, StepOfSurfaces

(* Only process() takes the Close event out of the queue, and then frees    *)
(* the surface.                                                             *)
LEMMA CloseSeenKept ==
  ASSUME IInv, StaysAllowed, HandleKept, ~CreateMayFail, [Next]_vars,
         NEW s \in Surfaces, CloseSeen(s)
  PROVE  CloseSeen(s)'
<1>1. CASE sp[s] = "freed"
  BY <1>1, StepOfContexts DEF CloseSeen
<1>2. CASE cur = s /\ rpc = "erase"
  <2>1. CASE ProcessErase
    <3>1. sp' = [sp EXCEPT ![cur] = "freed"]
      BY <2>1 DEF ProcessErase
    <3> QED
      BY <1>2, <3>1 DEF CloseSeen, IInv, TypeOK
  <2>2. CASE UNCHANGED <<rpc, cur>>
    BY <1>2, <2>2 DEF CloseSeen
  <2> QED
    BY <1>2, <2>1, <2>2, StepOfContexts
<1>3. ASSUME NEW i \in 1..Len(events[s]), events[s][i].ev.type = "Close"
      PROVE  CloseSeen(s)'
  <2>1. CASE UNCHANGED events
    BY <1>3, <2>1 DEF CloseSeen
  <2>2. ASSUME NEW t \in Threads, PS!Push(t) \/ PS!Notify(t) PROVE CloseSeen(s)'
    <3>1. i \in 1..Len(events'[s]) /\ events'[s][i].ev = events[s][i].ev
      BY <2>2, PushEntries
    <3> QED
      BY <1>3, <3>1 DEF CloseSeen
  <2>3. ASSUME NEW type, NextEvent(type), s # cur \/ type # "Close" PROVE CloseSeen(s)'
    <3>1. CASE s # cur
      BY <1>3, <2>3, <3>1, PopEntries DEF CloseSeen
    <3>2. CASE s = cur
      <4>1. i # 1
        BY <1>3, <2>3, <3>2, PopEntries
      <4>2. i - 1 \in 1..Len(events'[s]) /\ events'[s][i - 1] = events[s][i]
        BY <2>3, <3>2, <4>1, PopEntries
      <4> QED
        BY <1>3, <4>2 DEF CloseSeen
    <3> QED
      BY <3>1, <3>2
  <2>4. CASE ProcessClose
    <3>1. CASE s = cur
      BY <2>4, <3>1 DEF ProcessClose, CloseSeen
    <3> QED
      BY <2>3, <2>4, <3>1 DEF ProcessClose
  <2>5. CASE ProcessResize \/ ProcessNativeHandle
    BY <2>3, <2>5 DEF ProcessResize, ProcessNativeHandle
  <2>6. ASSUME NEW t \in Threads, NEW q \in Surfaces, Called(t, q) \/ Handled(t, q)
        PROVE  UNCHANGED events
    BY <2>6 DEF Called, Handled, PS!ResizeSurface, PS!CloseSurface, PS!ResetNativeHandle
  <2> QED
    BY <2>1, <2>2, <2>4, <2>5, <2>6, StepOfSurfaces, ThreadTypes DEF Quiet
<1> QED
  BY <1>1, <1>2, <1>3 DEF CloseSeen

(* close() assigns closed after pushEvent() has returned.                   *)
LEMMA CloseQueuedNext ==
  ASSUME IInv, StaysAllowed, HandleKept, ~CreateMayFail, CloseQueued, [Next]_vars
  PROVE  CloseQueued'
<1>1. call \in [Threads -> PS!Call] /\ closed \in [Surfaces -> BOOLEAN]
  BY DEF IInv, TypeOK, PS!TypeOK
<1>2. \A s \in Surfaces : CloseSeen(s) => CloseSeen(s)'
  BY CloseSeenKept
<1>3. CASE UNCHANGED <<call, closed>>
  BY <1>2, <1>3 DEF CloseQueued, PastClose
<1>4. ASSUME NEW t \in Threads, \A u \in Threads : u # t => call'[u] = call[u],
             \A s \in Surfaces : closed'[s] => CloseSeen(s)',
             call'[t].then = "close" => call'[t].ev.type = "Close",
             \A s \in Surfaces : call'[t].s = s /\ PastClose(call'[t]) => CloseSeen(s)'
      PROVE  CloseQueued'
  <2>1. ASSUME NEW u \in Threads, NEW s \in Surfaces, call'[u].s = s, PastClose(call'[u])
        PROVE  CloseSeen(s)'
    <3>1. CASE u # t
      BY <1>2, <1>4, <2>1, <3>1 DEF CloseQueued
    <3> QED
      BY <1>4, <2>1, <3>1
  <2>2. \A u \in Threads : call'[u].then = "close" => call'[u].ev.type = "Close"
    BY <1>4 DEF CloseQueued
  <2> QED
    BY <1>4, <2>1, <2>2 DEF CloseQueued, PastClose
<1>5. ASSUME NEW t \in Threads, NEW q \in Surfaces, NEW e \in PS!Event, NEW then,
             PS!BeginPush(t, q, e, then), then = "close" => e.type = "Close", UNCHANGED closed
      PROVE  CloseQueued'
  <2>1. /\ \A u \in Threads : u # t => call'[u] = call[u]
        /\ call'[t] = [at |-> "check", s |-> q, ev |-> e, then |-> then]
    BY <1>1, <1>5 DEF PS!BeginPush
  <2>2. ~PastClose(call'[t]) /\ (call'[t].then = "close" => call'[t].ev.type = "Close")
    BY <1>5, <2>1 DEF PastClose
  <2>3. \A s \in Surfaces : closed'[s] => CloseSeen(s)'
    BY <1>2, <1>5 DEF CloseQueued
  <2> QED
    BY <1>4, <2>1, <2>2, <2>3
<1>6. ASSUME NEW t \in Threads, NEW q \in Surfaces, Called(t, q) PROVE CloseQueued'
  <2>1. PS!Resize \in PS!Event /\ PS!Close \in PS!Event /\ PS!Close.type = "Close"
    BY EventTypes DEF PS!Close
  <2> QED
    BY <1>5, <1>6, <2>1 DEF Called, PS!ResizeSurface, PS!CloseSurface
<1>7. ASSUME NEW t \in App, NEW q \in Surfaces, Handled(t, q) PROVE CloseQueued'
  <2>1. PICK h \in Handles : PS!ResetNativeHandle(t, q, h)
    BY <1>7 DEF Handled
  <2>2. PS!NativeHandle(native_handle[q], h) \in PS!Event
    BY EventTypes DEF IInv, TypeOK, PS!TypeOK, PS!HandleOrNull
  <2>3. PICK then \in {"return", "resize"} : PS!BeginPush(t, q, PS!NativeHandle(native_handle[q], h), then)
    BY <2>1 DEF PS!ResetNativeHandle
  <2>4. t \in Threads /\ UNCHANGED closed
    BY <2>1, ThreadTypes DEF PS!ResetNativeHandle
  <2>5. then # "close"
    OBVIOUS
  <2> HIDE DEF Called
  <2> QED
    BY <1>5, <2>2, <2>3, <2>4, <2>5
<1>8. ASSUME NEW t \in Threads, PS!Push(t) \/ PS!Notify(t) PROVE CloseQueued'
  <2>1. PICK q \in Surfaces : q = call[t].s
    BY <1>8, CallEvents
  <2>2. (\A u \in Threads : u # t => call'[u] = call[u]) /\ call[t] \in PS!Call
    BY <1>1, <1>8, CallEvents
  <2>3. \A s \in Surfaces : closed'[s] => CloseSeen(s)'
    <3>1. CASE PS!SetClosed(t)
      <4>1. closed' = [closed EXCEPT ![q] = TRUE] /\ CloseSeen(q)
        BY <2>1, <3>1 DEF PS!SetClosed, CloseQueued, PastClose
      <4> QED
        BY <1>1, <1>2, <2>1, <4>1 DEF CloseQueued
    <3>2. CASE ~PS!SetClosed(t)
      <4>1. UNCHANGED closed
        BY <1>8, <3>2 DEF PS!Push, PS!PushCheck, PS!PushClaim, PS!PushLink, PS!Notify
      <4> QED
        BY <1>2, <4>1 DEF CloseQueued
    <3> QED
      BY <3>1, <3>2
  <2>4. SUFFICES /\ call'[t].then = "close" => call'[t].ev.type = "Close"
                 /\ PastClose(call'[t]) => call'[t].s = q /\ CloseSeen(q)'
    BY <1>4, <2>2, <2>3
  <2>5. ASSUME call' = [call EXCEPT ![t] = PS!Return(call[t])],
               call[t].then = "close" => CloseSeen(q)'
        PROVE  /\ call'[t].then # "close"
               /\ PastClose(call'[t]) => call'[t].s = q /\ CloseSeen(q)'
    <3>1. call'[t] = PS!Return(call[t])
      BY <1>1, <2>5
    <3>2. call'[t].then = "return" /\ (call'[t].at = "close" => call[t].then = "close" /\ call'[t].s = q)
      BY <2>1, <2>2, <3>1 DEF PS!Return, PS!NoCall, PS!Call
    <3> QED
      BY <2>5, <3>2 DEF PastClose
  <2>6. \A at \in {"claim", "link", "notify"} :
           LET c == [call[t] EXCEPT !.at = at] IN
           c.at = at /\ c.then = call[t].then /\ c.ev = call[t].ev /\ c.s = q
    BY <2>1, <2>2 DEF PS!Call
  <2>7. CASE PS!PushCheck(t)
    <3>1. CASE closed[q]
      <4>1. call' = [call EXCEPT ![t] = PS!Return(call[t])] /\ CloseSeen(q)
        BY <1>1, <2>1, <2>7, <3>1 DEF PS!PushCheck, CloseQueued
      <4> QED
        BY <1>2, <2>5, <4>1
    <3>2. CASE ~closed[q]
      <4>1. call'[t] = [call[t] EXCEPT !.at = "claim"]
        BY <1>1, <2>1, <2>7, <3>2 DEF PS!PushCheck
      <4>2. call'[t].at = "claim" /\ call'[t].then = call[t].then /\ call'[t].ev = call[t].ev
        BY <2>6, <4>1
      <4> QED
        BY <4>2 DEF CloseQueued, PastClose
    <3> QED
      BY <3>1, <3>2
  <2>8. CASE PS!PushClaim(t)
    <3>1. call'[t] = [call[t] EXCEPT !.at = "link"]
      BY <1>1, <2>8 DEF PS!PushClaim
    <3>2. call'[t].at = "link" /\ call'[t].then = call[t].then /\ call'[t].ev = call[t].ev /\ call'[t].s = q
      BY <2>6, <3>1
    <3>3. PICK i \in 1..Len(events'[q]) : events'[q][i].ev = call[t].ev
      BY <1>8, <2>1, <2>8, PushEntries
    <3>4. call[t].then = "close" => CloseSeen(q)'
      BY <3>3 DEF CloseQueued, CloseSeen
    <3> QED
      BY <3>2, <3>4 DEF CloseQueued, PastClose
  <2>9. CASE PS!PushLink(t)
    <3>1. call'[t] = [call[t] EXCEPT !.at = "notify"] /\ call[t].at = "link"
      BY <1>1, <2>9 DEF PS!PushLink
    <3>2. call'[t].at = "notify" /\ call'[t].then = call[t].then /\ call'[t].ev = call[t].ev /\ call'[t].s = q
      BY <2>6, <3>1
    <3> QED
      BY <1>2, <2>1, <3>1, <3>2 DEF CloseQueued, PastClose
  <2>10. CASE PS!SetClosed(t)
    <3>1. call'[t] = PS!NoCall
      BY <1>1, <2>10 DEF PS!SetClosed
    <3> QED
      BY <3>1 DEF PS!NoCall, PastClose
  <2>11. CASE PS!Notify(t)
    <3>1. /\ call' = [call EXCEPT ![t] = PS!Return(call[t])]
          /\ call[t].then = "close" => CloseSeen(q)
      BY <2>1, <2>11 DEF PS!Notify, CloseQueued, PastClose
    <3> QED
      BY <1>2, <2>5, <3>1
  <2> QED
    BY <1>8, <2>7, <2>8, <2>9, <2>10, <2>11 DEF PS!Push
<1>9. CASE ProcessClose \/ ProcessResize \/ ProcessNativeHandle
  <2>1. UNCHANGED <<closed, call>>
    BY <1>9, NextEventFacts DEF ProcessClose, ProcessResize, ProcessNativeHandle
  <2> QED
    BY <1>3, <2>1
<1> QED
  BY <1>3, <1>6, <1>7, <1>8, <1>9, StepOfSurfaces DEF Quiet

-----------------------------------------------------------------------------
(* The context is created on the handle that the surface has by then; a     *)
(* change that comes later has its event still before it.                   *)
LEMMA ContextsFollowNext ==
  ASSUME IInv, StaysAllowed, HandleKept, ~CreateMayFail, ContextsFollow, [Next]_vars
  PROVE  ContextsFollow'
<1> SUFFICES ASSUME NEW s \in Surfaces PROVE (ctx[s] = native_handle[s] \/ Replaced(s))'
  BY DEF ContextsFollow
<1>1. /\ call \in [Threads -> PS!Call] /\ closed \in [Surfaces -> BOOLEAN]
      /\ ctx \in [Surfaces -> Handles \cup {Null}] /\ native_handle \in [Surfaces -> Handles \cup {Null}]
  BY DEF IInv, TypeOK, PS!TypeOK, PS!HandleOrNull
<1>2. /\ rpc = "create" => CreateContext \/ UNCHANGED <<rpc, cur>>
      /\ UNCHANGED ctx \/ ProcessNativeHandle \/ CreateContext \/ ProcessErase
      /\ sp[s] = "freed" => sp'[s] = "freed"
  BY StepOfContexts
<1>3. CASE ProcessNativeHandle
  <2>1. cur \in Surfaces /\ UNCHANGED <<closed, native_handle, call, cur>>
    BY <1>3, NextEventFacts DEF ProcessNativeHandle
  <2>2. CASE s # cur
    <3>1. ctx'[s] = ctx[s] /\ rpc # "create" /\ events'[s] = events[s]
      BY <1>1, <1>3, <2>1, <2>2, PopEntries DEF ProcessNativeHandle, NextEvent
    <3> QED
      BY <1>2, <2>1, <2>2, <3>1 DEF ContextsFollow, Replaced, NoHandle, Handle
  <2>3. CASE s = cur
    <3>1. 1 \in 1..Len(events[cur]) /\ Handle(events[cur], 1)
      BY <1>3, PopEntries DEF ProcessNativeHandle, Handle
    <3>2. events[cur][1].ev.after # Null
      BY <2>1, <3>1 DEF HandleKept
    <3>3. rpc' = "create"
      BY <1>3, <3>2 DEF ProcessNativeHandle
    <3> QED
      BY <2>1, <2>3, <3>3 DEF Replaced
  <2> QED
    BY <2>2, <2>3
<1>4. CASE CreateContext
  <2>1. /\ cur \in Surfaces /\ UNCHANGED <<events, closed, native_handle, call, cur>> /\ rpc = "create"
        /\ ctx' = [ctx EXCEPT ![cur] = native_handle[cur]]
    BY <1>4 DEF CreateContext, IInv, CurOK, InProcess
  <2>2. CASE s = cur
    BY <1>1, <2>1, <2>2
  <2>3. CASE s # cur
    BY <1>1, <1>2, <2>1, <2>3 DEF ContextsFollow, Replaced, NoHandle, Handle
  <2> QED
    BY <2>2, <2>3
<1>5. CASE ProcessErase
  <2>1. /\ cur \in Surfaces /\ UNCHANGED <<events, closed, native_handle, call, cur>> /\ rpc = "erase"
        /\ ctx' = [ctx EXCEPT ![cur] = Null] /\ sp' = [sp EXCEPT ![cur] = "freed"]
    BY <1>5 DEF ProcessErase, IInv, CurOK, InProcess
  <2>2. CASE s = cur
    <3>1. sp'[s] = "freed"
      BY <2>1, <2>2 DEF IInv, TypeOK
    <3> QED
      BY <3>1 DEF Replaced
  <2>3. CASE s # cur
    BY <1>1, <1>2, <2>1, <2>3 DEF ContextsFollow, Replaced, NoHandle, Handle
  <2> QED
    BY <2>2, <2>3
<1>6. CASE UNCHANGED ctx /\ ~CreateContext
  <2>1. rpc = "create" => UNCHANGED <<rpc, cur>>
    BY <1>2, <1>6
  <2>2. CASE Quiet
    BY <1>2, <1>6, <2>1, <2>2 DEF ContextsFollow, Replaced, NoHandle, Handle, Quiet
  <2>3. ASSUME NEW t \in Threads, NEW q \in Surfaces, Called(t, q)
        PROVE  (ctx[s] = native_handle[s] \/ Replaced(s))'
    <3>1. \A u \in Threads : call[u].at \in {"check", "claim"} => call'[u] = call[u]
      BY <1>1, <2>3 DEF Called, PS!ResizeSurface, PS!CloseSurface, PS!BeginPush, PS!Idle
    <3>2. UNCHANGED <<events, closed, native_handle>>
      BY <2>3 DEF Called, PS!ResizeSurface, PS!CloseSurface
    <3> QED
      BY <1>2, <1>6, <2>1, <3>1, <3>2 DEF ContextsFollow, Replaced, NoHandle, Handle
  <2>4. ASSUME NEW t \in App, NEW q \in Surfaces, Handled(t, q)
        PROVE  (ctx[s] = native_handle[s] \/ Replaced(s))'
    <3>1. PICK h \in Handles : PS!ResetNativeHandle(t, q, h)
      BY <2>4 DEF Handled
    <3>2. PICK then \in {"return", "resize"} : PS!BeginPush(t, q, PS!NativeHandle(native_handle[q], h), then)
      BY <3>1 DEF PS!ResetNativeHandle
    <3>3. /\ UNCHANGED <<events, closed>> /\ native_handle' = [native_handle EXCEPT ![q] = h]
          /\ t \in Threads /\ call[t].at = "idle"
      BY <3>1, <3>2, ThreadTypes DEF PS!ResetNativeHandle, PS!BeginPush, PS!Idle
    <3>4. /\ call'[t].at = "check" /\ call'[t].s = q /\ call'[t].ev.type = "NativeHandle"
          /\ \A u \in Threads : u # t => call'[u] = call[u]
      BY <1>1, <3>2, <3>3 DEF PS!BeginPush, PS!NativeHandle
    <3>5. CASE s = q
      BY <3>3, <3>4, <3>5 DEF Replaced
    <3>6. CASE s # q
      <4>1. native_handle'[s] = native_handle[s]
        BY <1>1, <3>3, <3>6
      <4>2. \A u \in Threads : call[u].at \in {"check", "claim"} => call'[u] = call[u]
        BY <3>3, <3>4
      <4> QED
        BY <1>2, <1>6, <2>1, <3>3, <4>1, <4>2 DEF ContextsFollow, Replaced, NoHandle, Handle
    <3> QED
      BY <3>5, <3>6
  <2>5. ASSUME NEW t \in Threads, PS!Push(t) \/ PS!Notify(t)
        PROVE  (ctx[s] = native_handle[s] \/ Replaced(s))'
    <3>1. PICK q \in Surfaces : q = call[t].s
      BY <2>5, CallEvents
    <3>2. UNCHANGED native_handle /\ (closed[s] => closed'[s])
      BY <1>1, <2>5, <3>1
      DEF PS!Push, PS!PushCheck, PS!PushClaim, PS!PushLink, PS!SetClosed, PS!Notify
    <3>3. ASSUME ~NoHandle(events[s]) PROVE ~NoHandle(events'[s])
      <4>1. PICK i \in 1..Len(events[s]) : Handle(events[s], i)
        BY <3>3 DEF NoHandle
      <4>2. i \in 1..Len(events'[s]) /\ events'[s][i].ev = events[s][i].ev
        BY <2>5, PushEntries
      <4> QED
        BY <4>1, <4>2 DEF NoHandle, Handle
    <3>4. ASSUME NEW u \in Threads, call[u].s = s, call[u].ev.type = "NativeHandle",
                 call[u].at \in {"check", "claim"}
          PROVE  Replaced(s)'
      <4>1. CASE u # t
        <5>1. call'[u] = call[u]
          BY <2>5, <4>1, CallEvents
        <5> QED
          BY <3>4, <5>1 DEF Replaced
      <4>2. CASE u = t /\ PS!PushCheck(t)
        <5>1. CASE closed[s]
          BY <3>2, <5>1 DEF Replaced
        <5>2. CASE ~closed[s]
          <6>1. call'[t] = [call[t] EXCEPT !.at = "claim"] /\ call[t] \in PS!Call
            BY <1>1, <3>4, <4>2, <5>2 DEF PS!PushCheck
          <6>2. call'[t].at = "claim" /\ call'[t].s = call[t].s /\ call'[t].ev = call[t].ev
            BY <6>1 DEF PS!Call
          <6> QED
            BY <3>4, <4>2, <6>2 DEF Replaced
        <5> QED
          BY <5>1, <5>2
      <4>3. CASE u = t /\ PS!PushClaim(t)
        <5>1. \E i \in 1..Len(events'[s]) : events'[s][i].ev = call[t].ev
          BY <2>5, <3>4, <4>3, PushEntries
        <5> QED
          BY <3>4, <4>3, <5>1 DEF Replaced, NoHandle, Handle
      <4> QED
        BY <2>5, <3>4, <4>1, <4>2, <4>3
        DEF PS!Push, PS!PushCheck, PS!PushClaim, PS!PushLink, PS!SetClosed, PS!Notify
    <3> QED
      BY <1>2, <1>6, <2>1, <3>2, <3>3, <3>4 DEF ContextsFollow, Replaced
  <2>6. CASE ProcessClose \/ ProcessResize
    <3>1. PICK type \in {"Close", "Resize"} : NextEvent(type)
      BY <2>6 DEF ProcessClose, ProcessResize
    <3>2. UNCHANGED <<closed, native_handle, call>>
      BY <3>1, NextEventFacts
    <3>3. ASSUME ~NoHandle(events[s]) PROVE ~NoHandle(events'[s])
      <4>1. PICK i \in 1..Len(events[s]) : Handle(events[s], i)
        BY <3>3 DEF NoHandle
      <4>2. CASE s # cur
        BY <3>1, <3>3, <4>2, PopEntries
      <4>3. CASE s = cur
        <5>1. i # 1
          BY <3>1, <4>1, <4>3, PopEntries DEF Handle
        <5>2. i - 1 \in 1..Len(events'[s]) /\ events'[s][i - 1] = events[s][i]
          BY <3>1, <4>3, <5>1, PopEntries
        <5> QED
          BY <4>1, <5>2 DEF NoHandle, Handle
      <4> QED
        BY <4>2, <4>3
    <3> QED
      BY <1>2, <1>6, <2>1, <3>2, <3>3 DEF ContextsFollow, Replaced
  <2> QED
    BY <1>3, <2>2, <2>3, <2>4, <2>5, <2>6, StepOfSurfaces
<1> QED
  BY <1>2, <1>3, <1>4, <1>5, <1>6

-----------------------------------------------------------------------------
(* Who will look at the queue of s again: a push that has yet to invoke the *)
(* callback, a task, process() or add().                                    *)
Pushing(s) == \E t \in Threads : call[t].s = s /\ call[t].at \in {"link", "notify"}

Scheduled(s) == \E i \in 1..Len(tasks) : tasks[i].kind # "update" /\ tasks[i].s = s

Processing(s) == cur = s /\ rpc \in {"enter", "events", "create", "erase"}

Adding(s, at) == \E t \in App : pc[t] \in at /\ visit[t] = <<s>>

Covered(s) == Pushing(s) \/ Scheduled(s) \/ Processing(s) \/ Adding(s, {"add_cb", "add_task"})

(* An event in a queue is covered, and a push that finds no callback set    *)
(* overlaps the add() that is going to set it.                              *)
EventsCovered ==
  \A s \in Surfaces :
    sp[s] = "live" => /\ events[s] # <<>> => Covered(s)
                      /\ cb[s] \/ Adding(s, {"add_cb"})

(* add() visits the surface it adds.                                        *)
VisitOK == \A t \in App : pc[t] \in {"add_cb", "add_task"} => visit[t] = <<Head(visit[t])>>

(* What the steps do to an add() in progress.                               *)
LEMMA StepOfAdd ==
  ASSUME IInv, [Next]_vars, NEW t \in App
  PROVE  \/ pc[t] \in {"add_cb", "add_task"} /\ pc'[t] = pc[t] /\ visit'[t] = visit[t]
         \/ pc[t] \notin {"add_cb", "add_task"} /\ pc'[t] \notin {"add_cb", "add_task"}
         \/ AddSetCallback(t) \/ AddSchedule(t) \/ \E s \in Surfaces : AddPushBack(t, s)
<1> DEFINE G == \/ pc[t] \in {"add_cb", "add_task"} /\ pc'[t] = pc[t] /\ visit'[t] = visit[t]
                \/ pc[t] \notin {"add_cb", "add_task"} /\ pc'[t] \notin {"add_cb", "add_task"}
                \/ AddSetCallback(t) \/ AddSchedule(t) \/ \E s \in Surfaces : AddPushBack(t, s)
<1>2. ASSUME UNCHANGED <<pc, visit>> PROVE G
  BY <1>2
<1>3. DOMAIN pc = App /\ DOMAIN visit = App
  BY DEF IInv, TypeOK
<1>4. CASE RenderStep
  BY <1>2, <1>4 DEF RenderStep, RunBegin, RunTask, RunAfter, RunExit, ProcessFreed, ProcessEnter, ProcessClose,
      ProcessResize, ProcessNativeHandle, CreateContext, CreateContextFails, ProcessDraw, ProcessRelease,
      ProcessErase, UpdateNext, AddTaskErase, PushStep
<1>5. CASE ProcessNative
  BY <1>2, <1>5 DEF ProcessNative
<1>6. ASSUME NEW u \in App, u # t, AppCall(u) \/ AppLock(u) \/ AppStep(u) \/ WaitNative(u) PROVE G
  <2>1. pc'[t] = pc[t] /\ visit'[t] = visit[t]
    BY <1>3, <1>6 DEF AppCall, AppLock, AppStep, WaitNative, Start, Update, Stop, Wait, AddPushBack, SurfaceCall,
      StopLock, WaitLock, LockAndVisit, PushStep, AddSetCallback, AddSchedule, StopClose, StopUnlock, WaitCheck,
      WaitNext, WaitUnlock, UnlockAndGo, Join, Goto
  <2> QED
    BY <2>1
<1>7. CASE Update(t) \/ (\E s \in Surfaces : SurfaceCall(t, s)) \/ PushStep(t) \/ WaitNative(t)
  BY <1>2, <1>7 DEF Update, SurfaceCall, PushStep, WaitNative
<1>8. CASE Start(t) \/ Stop(t) \/ Wait(t) \/ AppLock(t) \/ StopClose(t) \/ StopUnlock(t) \/ WaitCheck(t)
           \/ WaitNext(t) \/ WaitUnlock(t) \/ Join(t)
  BY <1>3, <1>8 DEF Start, Stop, Wait, AppLock, StopLock, WaitLock, LockAndVisit, StopClose, StopUnlock,
      WaitCheck, WaitNext, WaitUnlock, UnlockAndGo, Join, Goto, Free
<1>9. ASSUME NEW s \in Surfaces, AppState(s) PROVE G
  BY <1>2, <1>9 DEF AppState
<1>10. CASE UNCHANGED vars
  BY <1>2, <1>10 DEF vars
<1>11. CASE AppCall(t) \/ AppLock(t) \/ AppStep(t) \/ WaitNative(t)
  BY <1>7, <1>8, <1>11 DEF AppCall, AppStep
<1> QED
  BY <1>4, <1>5, <1>6, <1>9, <1>10, <1>11 DEF Next

(* add() visits one surface only.                                           *)
LEMMA VisitNext ==
  ASSUME IInv, VisitOK, [Next]_vars
  PROVE  VisitOK'
<1> SUFFICES ASSUME NEW t \in App, pc'[t] \in {"add_cb", "add_task"}
             PROVE  visit'[t] = <<Head(visit'[t])>>
  BY DEF VisitOK
<1>1. CASE AddSetCallback(t)
  BY <1>1 DEF VisitOK, AddSetCallback
<1>2. CASE AddSchedule(t)
  BY <1>2 DEF AddSchedule, Goto, IInv, TypeOK
<1>3. ASSUME NEW s \in Surfaces, AddPushBack(t, s) PROVE visit'[t] = <<Head(visit'[t])>>
  <2>1. visit'[t] = <<s>>
    BY <1>3 DEF AddPushBack, IInv, TypeOK
  <2> QED
    BY <2>1
<1> QED
  BY <1>1, <1>2, <1>3, StepOfAdd DEF VisitOK

(* A surface stays covered while it is in the list.                         *)
LEMMA AddingStays ==
  ASSUME IInv, [Next]_vars, NEW s \in Surfaces, Adding(s, {"add_cb", "add_task"})
  PROVE  Covered(s)'
<1>1. PICK t \in App : pc[t] \in {"add_cb", "add_task"} /\ visit[t] = <<s>>
  BY DEF Adding
<1>2. Head(visit[t]) = s
  BY <1>1
<1>3. CASE AddSetCallback(t)
  <2>1. pc'[t] = "add_task" /\ visit'[t] = <<s>>
    BY <1>1, <1>3 DEF AddSetCallback, Goto, IInv, TypeOK
  <2> QED
    BY <2>1 DEF Covered, Adding
<1>4. CASE AddSchedule(t)
  <2>1. tasks' = Append(tasks, AddTask(s)) /\ tasks \in Seq(Task) /\ AddTask(s) \in Task
    BY <1>2, <1>4, TaskTypes DEF AddSchedule, Schedule, IInv, TypeOK
  <2>2. Len(tasks) + 1 \in 1..Len(tasks') /\ tasks'[Len(tasks) + 1] = AddTask(s)
    BY <2>1, AppendProperties, LenProperties
  <2>3. AddTask(s).kind # "update" /\ AddTask(s).s = s
    BY DEF AddTask
  <2> QED
    BY <2>2, <2>3 DEF Covered, Scheduled
<1>5. CASE pc'[t] = pc[t] /\ visit'[t] = visit[t]
  BY <1>1, <1>5 DEF Covered, Adding
<1>6. \A q \in Surfaces : ~AddPushBack(t, q)
  BY <1>1 DEF AddPushBack, Free
<1> QED
  BY <1>1, <1>3, <1>4, <1>5, <1>6, StepOfAdd

(* What the steps do to a push that has entered its event in the queue, ... *)
LEMMA StepOfPush ==
  ASSUME IInv, StaysAllowed, [Next]_vars, NEW t \in Threads, call[t].at \in {"link", "notify"}
  PROVE  call'[t] = call[t] \/ PushStep(t)
<1>1. DOMAIN call = Threads
  BY DEF IInv, TypeOK, PS!TypeOK
<1>2. CASE Quiet
  BY <1>2 DEF Quiet
<1>3. ASSUME NEW u \in Threads, NEW s \in Surfaces, Called(u, s) PROVE call'[t] = call[t]
  BY <1>1, <1>3 DEF Called, PS!ResizeSurface, PS!CloseSurface, PS!BeginPush, PS!Idle
<1>4. ASSUME NEW u \in App, NEW s \in Surfaces, Handled(u, s) PROVE call'[t] = call[t]
  BY <1>1, <1>4, ThreadTypes DEF Handled, PS!ResetNativeHandle, PS!BeginPush, PS!Idle
<1>5. ASSUME NEW u \in Threads, PushStep(u) PROVE call'[t] = call[t] \/ PushStep(t)
  <2>1. CASE u # t
    BY <1>5, <2>1, CallEvents DEF PushStep
  <2> QED
    BY <1>5, <2>1
<1>6. CASE ProcessClose \/ ProcessResize \/ ProcessNativeHandle
  BY <1>6 DEF ProcessClose, ProcessResize, ProcessNativeHandle, NextEvent
<1> QED
  BY <1>2, <1>3, <1>4, <1>5, <1>6, StepOfCalls

(* ... to the tasks, ...                                                    *)
LEMMA StepOfTasks ==
  ASSUME IInv, [Next]_vars
  PROVE  UNCHANGED tasks \/ RunTask \/ \E k \in Task : Schedule(k)
<1> DEFINE G == UNCHANGED tasks \/ RunTask \/ \E k \in Task : Schedule(k)
<1>1. ASSUME NEW t \in Threads, PushStep(t) PROVE G
  <2>1. CASE PS!Notify(t) /\ Schedule(EventTask(call[t].s))
    <3>1. call[t].s \in Surfaces
      BY <2>1, CallEvents
    <3> QED
      BY <2>1, <3>1, TaskTypes
  <2> QED
    BY <1>1, <2>1 DEF PushStep
<1>2. CASE RenderStep
  <2>1. CASE ~PushStep(Render)
    BY <1>2, <2>1 DEF RenderStep, RunBegin, RunAfter, RunExit, ProcessFreed, ProcessEnter, ProcessClose,
      ProcessResize, ProcessNativeHandle, CreateContext, CreateContextFails, ProcessDraw, ProcessRelease,
      ProcessErase, UpdateNext, AddTaskErase
  <2> QED
    BY <1>1, <2>1, ThreadTypes
<1>3. CASE ProcessNative
  BY <1>3 DEF ProcessNative
<1>4. ASSUME NEW t \in App, AppCall(t) PROVE G
  BY <1>4, TaskTypes DEF AppCall, Start, Update, Stop, Wait, AddPushBack, SurfaceCall
<1>5. ASSUME NEW t \in App, AppLock(t) \/ AppStep(t) \/ WaitNative(t) PROVE G
  <2>1. CASE AddSchedule(t)
    <3>1. Head(visit[t]) \in Surfaces
      BY <2>1 DEF AddSchedule, IInv, ReferenceOK, Known
    <3> QED
      BY <2>1, <3>1, TaskTypes DEF AddSchedule
  <2>2. CASE ~AddSchedule(t) /\ ~PushStep(t)
    BY <1>5, <2>2 DEF AppLock, AppStep, WaitNative, StopLock, WaitLock, LockAndVisit, AddSetCallback,
      StopClose, StopUnlock, WaitCheck, WaitNext, WaitUnlock, UnlockAndGo, Join
  <2> QED
    BY <1>1, <2>1, <2>2, ThreadTypes
<1>6. ASSUME NEW s \in Surfaces, AppState(s) PROVE G
  BY <1>6 DEF AppState
<1>7. CASE UNCHANGED vars
  BY <1>7 DEF vars
<1> QED
  BY <1>2, <1>3, <1>4, <1>5, <1>6, <1>7 DEF Next

(* ... and to process().                                                    *)
LEMMA StepOfProcess ==
  ASSUME IInv, [Next]_vars, rpc \in {"enter", "events", "create", "erase"}
  PROVE  \/ UNCHANGED <<rpc, cur>>
         \/ ProcessFreed \/ ProcessEnter \/ ProcessClose \/ ProcessNativeHandle
         \/ CreateContext \/ CreateContextFails \/ ProcessDraw \/ ProcessErase
<1>1. CASE RenderStep
  BY <1>1 DEF RenderStep, RunBegin, RunTask, RunAfter, RunExit, ProcessResize, ProcessRelease, UpdateNext,
    AddTaskErase, PushStep
<1>2. CASE ProcessNative
  BY <1>2 DEF ProcessNative
<1>3. ASSUME NEW t \in App, AppCall(t) PROVE UNCHANGED <<rpc, cur>>
  BY <1>3 DEF AppCall, Start, Update, Stop, Wait, AddPushBack, SurfaceCall, IInv, ThreadOK
<1>4. ASSUME NEW t \in App, AppLock(t) \/ AppStep(t) \/ WaitNative(t) PROVE UNCHANGED <<rpc, cur>>
  BY <1>4 DEF AppLock, AppStep, WaitNative, StopLock, WaitLock, LockAndVisit, PushStep, AddSetCallback,
    AddSchedule, StopClose, StopUnlock, WaitCheck, WaitNext, WaitUnlock, UnlockAndGo, Join
<1>5. ASSUME NEW s \in Surfaces, AppState(s) PROVE UNCHANGED <<rpc, cur>>
  BY <1>5 DEF AppState
<1>6. CASE UNCHANGED vars
  BY <1>6 DEF vars
<1> QED
  BY <1>1, <1>2, <1>3, <1>4, <1>5, <1>6 DEF Next

-----------------------------------------------------------------------------
(* A push whose callback is not set yet overlaps the add() that sets it and *)
(* schedules a task after that.                                             *)
LEMMA PushingStays ==
  ASSUME IInv, StaysAllowed, EventsCovered, [Next]_vars, NEW s \in Surfaces, sp[s] = "live", Pushing(s)
  PROVE  Covered(s)'
<1>1. PICK t \in Threads : call[t].s = s /\ call[t].at \in {"link", "notify"}
  BY DEF Pushing
<1>2. call \in [Threads -> PS!Call]
  BY DEF IInv, TypeOK, PS!TypeOK
<1>3. CASE call'[t] = call[t]
  BY <1>1, <1>3 DEF Covered, Pushing
<1>4. CASE PS!PushLink(t)
  <2>1. call'[t] = [call[t] EXCEPT !.at = "notify"] /\ call[t] \in PS!Call
    BY <1>2, <1>4 DEF PS!PushLink
  <2>2. call'[t].at = "notify" /\ call'[t].s = s
    BY <1>1, <2>1 DEF PS!Call
  <2> QED
    BY <2>2 DEF Covered, Pushing
<1>5. CASE PushStep(t) /\ PS!Notify(t) /\ cb[s]
  <2>1. call[t].at = "notify"
    BY <1>5 DEF PS!Notify
  <2>2. tasks' = Append(tasks, EventTask(s))
    BY <1>1, <1>5, <2>1 DEF PushStep, PS!Notifies, Schedule, PS!Push, PS!PushCheck, PS!PushClaim, PS!PushLink,
      PS!SetClosed
  <2>3. tasks \in Seq(Task) /\ EventTask(s) \in Task
    BY TaskTypes DEF IInv, TypeOK
  <2>4. Len(tasks) + 1 \in 1..Len(tasks') /\ tasks'[Len(tasks) + 1] = EventTask(s)
    BY <2>2, <2>3, AppendProperties, LenProperties
  <2>5. EventTask(s).kind # "update" /\ EventTask(s).s = s
    BY DEF EventTask
  <2> QED
    BY <2>4, <2>5 DEF Covered, Scheduled
<1>6. CASE ~cb[s]
  <2>1. Adding(s, {"add_cb", "add_task"})
    BY <1>6 DEF EventsCovered, Adding
  <2> QED
    BY <2>1, AddingStays
<1>7. PushStep(t) => PS!PushLink(t) \/ PS!Notify(t)
  BY <1>1 DEF PushStep, PS!Push, PS!PushCheck, PS!PushClaim, PS!SetClosed
<1> QED
  BY <1>1, <1>3, <1>4, <1>5, <1>6, <1>7, StepOfPush

(* A task that was scheduled runs process() on its surface.                 *)
LEMMA ScheduledStays ==
  ASSUME IInv, [Next]_vars, NEW s \in Surfaces, Scheduled(s)
  PROVE  Covered(s)'
<1>1. PICK i \in 1..Len(tasks) : tasks[i].kind # "update" /\ tasks[i].s = s
  BY DEF Scheduled
<1>2. tasks \in Seq(Task) /\ Len(tasks) \in Nat
  BY LenProperties DEF IInv, TypeOK
<1>3. CASE UNCHANGED tasks
  BY <1>1, <1>3 DEF Covered, Scheduled
<1>4. ASSUME NEW k \in Task, Schedule(k) PROVE Covered(s)'
  <2>1. i \in 1..Len(tasks') /\ tasks'[i] = tasks[i]
    BY <1>2, <1>4, AppendProperties DEF Schedule
  <2> QED
    BY <1>1, <2>1 DEF Covered, Scheduled
<1>5. CASE RunTask
  <2>1. /\ tasks # <<>> /\ tasks' = Tail(tasks) /\ Head(tasks) = tasks[1] /\ Len(tasks') = Len(tasks) - 1
        /\ \A j \in 1..Len(tasks') : tasks'[j] = tasks[j + 1]
    BY <1>2, <1>5, HeadTailProperties DEF RunTask
  <2>2. CASE i = 1
    <3>1. cur' = s /\ rpc' = "enter"
      BY <1>1, <1>5, <2>1, <2>2 DEF RunTask
    <3> QED
      BY <3>1 DEF Covered, Processing
  <2>3. CASE i # 1
    <3>1. i - 1 \in 1..Len(tasks') /\ (i - 1) + 1 = i
      BY <1>2, <2>1, <2>3
    <3>2. tasks'[i - 1] = tasks[i]
      BY <2>1, <3>1
    <3> QED
      BY <1>1, <3>1, <3>2 DEF Covered, Scheduled
  <2> QED
    BY <2>2, <2>3
<1> QED
  BY <1>3, <1>4, <1>5, StepOfTasks

(* process() leaves events in the queue only when an older push has yet to  *)
(* publish its own: that push will invoke the callback.                     *)
LEMMA ProcessingStays ==
  ASSUME IInv, StaysAllowed, HandleKept, UnpublishedOK, EventsCovered, ~CreateMayFail, [Next]_vars,
         NEW s \in Surfaces, sp[s] = "live", Processing(s), sp'[s] = "live", events'[s] # <<>>
  PROVE  Covered(s)'
<1>1. cur = s /\ rpc \in {"enter", "events", "create", "erase"} /\ allowed[s]
  BY DEF Processing, StaysAllowed
<1>2. CASE UNCHANGED <<rpc, cur>>
  BY <1>1, <1>2 DEF Covered, Processing
<1>3. ~ProcessFreed /\ ~ProcessErase
  <2>1. ~ProcessFreed
    BY <1>1 DEF ProcessFreed
  <2>2. ProcessErase => sp'[s] = "freed"
    BY <1>1 DEF ProcessErase, IInv, TypeOK
  <2> QED
    BY <2>1, <2>2
<1>4. CASE ProcessEnter \/ ProcessClose
  BY <1>1, <1>4 DEF ProcessEnter, ProcessClose, NextEvent, Covered, Processing
<1>5. CASE ProcessNativeHandle
  <2>1. 1 \in 1..Len(events[s]) /\ Handle(events[s], 1)
    BY <1>1, <1>5, PopEntries DEF ProcessNativeHandle, Handle
  <2>2. events[s][1].ev.after # Null
    BY <2>1 DEF HandleKept
  <2>3. rpc' = "create" /\ cur' = cur
    BY <1>1, <1>5, <2>2 DEF ProcessNativeHandle
  <2> QED
    BY <1>1, <2>3 DEF Covered, Processing
<1>6. CASE CreateContext
  BY <1>1, <1>6 DEF CreateContext, Covered, Processing
<1>7. ~CreateContextFails
  BY DEF CreateContextFails, HandleKept
<1>8. CASE ProcessDraw
  <2>1. events'[s] = events[s] /\ events[s][1].by # Null
    BY <1>1, <1>8 DEF ProcessDraw, PS!CanPop, PS!ResizeSurface
  <2>2. 1 \in 1..Len(events[s])
    <3> DEFINE q == events[s]
               E == [ev : PS!Event, by : Threads \cup {Null}]
    <3>1. q \in Seq(E) /\ q # <<>>
      BY <2>1 DEF IInv, TypeOK, PS!TypeOK
    <3> HIDE DEF q, E
    <3>2. Len(q) \in Nat \ {0}
      BY <3>1, EmptySeq, LenProperties
    <3>3. 1 \in 1..Len(q)
      BY <3>2
    <3> QED
      BY <3>3 DEF q
  <2>3. events[s][1].by \in Threads
    <3> DEFINE q == events[s]
               E == [ev : PS!Event, by : Threads \cup {Null}]
    <3>1. q \in Seq(E)
      BY DEF IInv, TypeOK, PS!TypeOK
    <3>2. \A x \in E : x.by # Null => x.by \in Threads
      OBVIOUS
    <3>3. 1 \in 1..Len(q) /\ q[1].by # Null
      BY <2>1, <2>2
    <3> HIDE DEF q, E
    <3>4. q[1] \in E
      BY <3>1, <3>3, ElementOfSeq
    <3>5. q[1].by \in Threads
      BY <3>2, <3>3, <3>4
    <3> QED
      BY <3>5 DEF q
  <2>4. Pushing(s)
    BY <2>1, <2>2, <2>3 DEF UnpublishedOK, Pushing
  <2> QED
    BY <2>4, PushingStays
<1> QED
  BY <1>1, <1>2, <1>3, <1>4, <1>5, <1>6, <1>7, <1>8, StepOfProcess

(* A surface that had no event has one once it is being pushed.             *)
LEMMA FirstEvent ==
  ASSUME IInv, StaysAllowed, [Next]_vars, NEW s \in Surfaces, events[s] = <<>>, events'[s] # <<>>
  PROVE  Pushing(s)'
<1>1. call \in [Threads -> PS!Call] /\ DOMAIN events = Surfaces
  BY DEF IInv, TypeOK, PS!TypeOK
<1>2. ~Quiet
  BY DEF Quiet
<1>3. \A t \in Threads, q \in Surfaces : ~Called(t, q)
  BY DEF Called, PS!ResizeSurface, PS!CloseSurface
<1>4. \A t \in App, q \in Surfaces : ~Handled(t, q)
  BY DEF Handled, PS!ResetNativeHandle
<1>5. ~(ProcessClose \/ ProcessResize \/ ProcessNativeHandle)
  <2>1. ASSUME NEW type, NextEvent(type) PROVE FALSE
    <3>1. s # cur
      BY <2>1 DEF NextEvent, PS!PopEvent, PS!CanPop
    <3> QED
      BY <2>1, <3>1, PopEntries
  <2> QED
    BY <2>1 DEF ProcessClose, ProcessResize, ProcessNativeHandle
<1>6. PICK t \in Threads : PS!Push(t) \/ PS!Notify(t)
  BY <1>2, <1>3, <1>4, <1>5, StepOfSurfaces
<1>7. CASE PS!PushClaim(t)
  <2>1. call[t].s = s
    BY <1>1, <1>7 DEF PS!PushClaim
  <2>2. call'[t] = [call[t] EXCEPT !.at = "link"] /\ call[t] \in PS!Call
    BY <1>1, <1>7 DEF PS!PushClaim
  <2>3. call'[t].at = "link" /\ call'[t].s = s
    BY <2>1, <2>2 DEF PS!Call
  <2> QED
    BY <2>3 DEF Pushing
<1>8. CASE PS!PushLink(t)
  <2>1. PS!Publish(events[s], t) = <<>>
    BY DEF PS!Publish
  <2> QED
    BY <1>1, <1>8, <2>1 DEF PS!PushLink
<1> QED
  BY <1>6, <1>7, <1>8 DEF PS!Push, PS!PushCheck, PS!SetClosed, PS!Notify

(* When a surface enters the list, and when its callback is set.            *)
LEMMA StepOfLive ==
  ASSUME IInv, [Next]_vars, NEW s \in Surfaces
  PROVE  /\ sp'[s] = "live" => sp[s] = "live" \/ (sp[s] = "new" /\ \E t \in App : AddPushBack(t, s))
         /\ cb[s] => cb'[s]
<1> DEFINE G == /\ sp'[s] = "live" => sp[s] = "live" \/ (sp[s] = "new" /\ \E t \in App : AddPushBack(t, s))
                /\ cb[s] => cb'[s]
<1>1. sp \in [Surfaces -> {"new", "live", "freed"}] /\ cb \in [Surfaces -> BOOLEAN]
  BY DEF IInv, TypeOK, PS!TypeOK
<1>2. CASE UNCHANGED <<sp, cb>>
  BY <1>2
<1>3. CASE RenderStep
  <2>1. CASE ProcessErase \/ AddTaskErase
    BY <1>1, <2>1 DEF ProcessErase, AddTaskErase
  <2>2. CASE CreateContext
    BY <1>1, <2>2 DEF CreateContext, PS!SetEventCallback
  <2>3. CASE PushStep(Render)
    BY <1>2, <2>3 DEF PushStep, PS!Push, PS!PushCheck, PS!PushClaim, PS!PushLink, PS!SetClosed, PS!Notify
  <2>4. CASE RunBegin \/ RunTask \/ RunAfter \/ RunExit \/ ProcessFreed \/ ProcessEnter \/ ProcessClose
             \/ ProcessResize \/ ProcessNativeHandle \/ CreateContextFails \/ ProcessDraw
             \/ ProcessRelease \/ UpdateNext
    BY <1>2, <2>4 DEF RunBegin, RunTask, RunAfter, RunExit, ProcessFreed, ProcessEnter, ProcessClose,
      ProcessResize, ProcessNativeHandle, CreateContextFails, ProcessDraw, ProcessRelease, UpdateNext,
      NextEvent, PS!ResizeSurface
  <2> QED
    BY <1>3, <2>1, <2>2, <2>3, <2>4 DEF RenderStep
<1>4. CASE ProcessNative
  BY <1>2, <1>4 DEF ProcessNative, NativeEvent, PS!ResizeSurface, PS!CloseSurface
<1>5. ASSUME NEW t \in App, AppCall(t) PROVE G
  <2>1. ASSUME NEW q \in Surfaces, AddPushBack(t, q) PROVE G
    <3>1. sp' = [sp EXCEPT ![q] = "live"] /\ UNCHANGED cb /\ sp[q] = "new"
      BY <2>1 DEF AddPushBack
    <3> QED
      BY <1>1, <2>1, <3>1
  <2>2. ASSUME NEW q \in Surfaces, SurfaceCall(t, q) PROVE UNCHANGED <<sp, cb>>
    BY <2>2 DEF SurfaceCall, PS!ResizeSurface, PS!CloseSurface, PS!ResetNativeHandle
  <2> QED
    BY <1>2, <1>5, <2>1, <2>2 DEF AppCall, Start, Update, Stop, Wait
<1>6. ASSUME NEW t \in App, AppLock(t) \/ AppStep(t) \/ WaitNative(t) PROVE G
  <2>1. CASE AddSetCallback(t)
    BY <1>1, <2>1 DEF AddSetCallback, PS!SetEventCallback
  <2>2. CASE ~AddSetCallback(t)
    BY <1>2, <1>6, <2>2 DEF AppLock, AppStep, WaitNative, StopLock, WaitLock, LockAndVisit, PushStep, AddSchedule,
      StopClose, StopUnlock, WaitCheck, WaitNext, WaitUnlock, UnlockAndGo, Join, NativeEvent,
      PS!ResizeSurface, PS!CloseSurface, PS!Push, PS!PushCheck, PS!PushClaim, PS!PushLink, PS!SetClosed, PS!Notify
  <2> QED
    BY <2>1, <2>2
<1>7. ASSUME NEW q \in Surfaces, AppState(q) PROVE G
  BY <1>2, <1>7 DEF AppState
<1>8. CASE UNCHANGED vars
  BY <1>2, <1>8 DEF vars
<1> QED
  BY <1>3, <1>4, <1>5, <1>6, <1>7, <1>8 DEF Next

(* No step leaves an event to nobody.                                       *)
LEMMA EventsCoveredNext ==
  ASSUME IInv, StaysAllowed, HandleKept, UnpublishedOK, EventsCovered, ~CreateMayFail, [Next]_vars
  PROVE  EventsCovered'
<1> SUFFICES ASSUME NEW s \in Surfaces, sp'[s] = "live"
             PROVE  /\ events'[s] # <<>> => Covered(s)'
                    /\ cb'[s] \/ Adding(s, {"add_cb"})'
  BY DEF EventsCovered
<1>1. ASSUME NEW t \in App, AddPushBack(t, s)
      PROVE  Adding(s, {"add_cb"})' /\ Adding(s, {"add_cb", "add_task"})'
  <2>1. pc'[t] = "add_cb" /\ visit'[t] = <<s>>
    BY <1>1 DEF AddPushBack, Goto, IInv, TypeOK
  <2> QED
    BY <2>1 DEF Adding
<1>2. CASE sp[s] = "live"
  <2>1. ASSUME events'[s] # <<>> PROVE Covered(s)'
    <3>1. CASE events[s] = <<>>
      BY <2>1, <3>1, FirstEvent DEF Covered
    <3>2. CASE events[s] # <<>>
      <4>1. Pushing(s) \/ Scheduled(s) \/ Processing(s) \/ Adding(s, {"add_cb", "add_task"})
        BY <1>2, <3>2 DEF EventsCovered, Covered
      <4> QED
        BY <1>2, <2>1, <4>1, PushingStays, ScheduledStays, ProcessingStays, AddingStays
    <3> QED
      BY <3>1, <3>2
  <2>2. ASSUME ~cb'[s] PROVE Adding(s, {"add_cb"})'
    <3>1. ~cb[s]
      BY <2>2, StepOfLive
    <3>2. PICK t \in App : pc[t] = "add_cb" /\ visit[t] = <<s>>
      BY <1>2, <3>1 DEF EventsCovered, Adding
    <3>3. ~AddSetCallback(t)
      BY <2>2, <3>2 DEF AddSetCallback, PS!SetEventCallback, IInv, TypeOK, PS!TypeOK
    <3>4. ~AddSchedule(t) /\ \A q \in Surfaces : ~AddPushBack(t, q)
      BY <3>2 DEF AddSchedule, AddPushBack, Free
    <3>5. pc'[t] = pc[t] /\ visit'[t] = visit[t]
      BY <3>2, <3>3, <3>4, StepOfAdd
    <3> QED
      BY <3>2, <3>5 DEF Adding
  <2> QED
    BY <2>1, <2>2
<1> QED
  BY <1>1, <1>2, StepOfLive DEF Covered

-----------------------------------------------------------------------------
(* The inductive invariant of the events: it holds of constructed surfaces, *)
(* is kept by every step, and leaves nothing to do when everybody rests.    *)
CoverInv == /\ StaysAllowed /\ HandleKept /\ UnpublishedOK /\ CloseQueued /\ ContextsFollow
            /\ EventsCovered /\ VisitOK

(* Initially only the events of the constructors are queued.                *)
LEMMA CoverInit ==
  ASSUME NeverReturnsEarly, Init
  PROVE  CoverInv
<1>1. left[Render]["gate"] = 0 /\ \A t \in App : left[t]["detach"] = 0
  BY DEF Init, NeverReturnsEarly
<1>2. StaysAllowed
  BY <1>1 DEF Init, StaysAllowed
<1>3. \A t \in Threads : call[t] = PS!NoCall
  BY DEF Init, PS!Init
<1>4. /\ PS!NoCall.ev.type = "Close" /\ PS!NoCall.at = "idle" /\ PS!NoCall.then = "return"
  BY DEF PS!NoCall, PS!Close
<1>5. ASSUME NEW s \in Surfaces
      PROVE  /\ \A i \in 1..Len(events[s]) :
                  /\ events[s][i].by = Null
                  /\ Handle(events[s], i) => events[s][i].ev.after # Null /\ native_handle[s] # Null
             /\ events[s] = <<>> => native_handle[s] = Null
             /\ events[s] # <<>> => ~NoHandle(events[s])
  <2>1. CASE native_handle[s] = Null /\ events[s] = <<>>
    BY <2>1
  <2>2. CASE /\ native_handle[s] \in Handles
             /\ events[s] = <<[ev |-> PS!NativeHandle(Null, native_handle[s]), by |-> Null]>>
    <3> DEFINE e == [ev |-> PS!NativeHandle(Null, native_handle[s]), by |-> Null]
    <3>1. /\ e.by = Null /\ e.ev.after = native_handle[s] /\ native_handle[s] # Null
          /\ e.ev.type = "NativeHandle"
      BY <2>2, RenderNullAssumption DEF PS!NativeHandle
    <3>2. Len(events[s]) = 1 /\ events[s][1] = e
      BY <2>2
    <3> HIDE DEF e
    <3> QED
      BY <3>1, <3>2 DEF NoHandle, Handle
  <2> QED
    BY <2>1, <2>2 DEF Init, PS!Init, PS!Created
<1>6. rpc = "off" /\ \A t \in App : pc[t] = "idle"
  BY DEF Init
<1>7. HandleKept
  BY <1>3, <1>4, <1>5, <1>6 DEF HandleKept
<1>8. UnpublishedOK
  BY <1>5 DEF UnpublishedOK
<1>9. CloseQueued
  BY <1>3, <1>4 DEF CloseQueued, PastClose, Init, PS!Init
<1>10. ContextsFollow
  BY <1>5 DEF ContextsFollow, Replaced, Init
<1>11. EventsCovered /\ VisitOK
  BY <1>6 DEF EventsCovered, VisitOK, Init
<1> QED
  BY <1>2, <1>7, <1>8, <1>9, <1>10, <1>11 DEF CoverInv

(* Every step keeps it.                                                     *)
LEMMA CoverNext ==
  ASSUME ~CreateMayFail, IInv, CoverInv, [Next]_vars
  PROVE  CoverInv'
BY StaysAllowedNext, HandleKeptNext, UnpublishedNext, CloseQueuedNext, ContextsFollowNext,
   EventsCoveredNext, VisitNext DEF CoverInv

(* When everybody rests nobody covers an event, so that there is none.      *)
LEMMA NothingCovers ==
  ASSUME CoverInv, Quiescent, NEW s \in Surfaces, sp[s] = "live"
  PROVE  events[s] = <<>> /\ ctx[s] = native_handle[s]
<1>1. ~Pushing(s) /\ ~Scheduled(s) /\ ~Processing(s) /\ ~Adding(s, {"add_cb", "add_task"})
  BY DEF Quiescent, Pushing, Scheduled, Processing, Adding, PS!Idle
<1>2. events[s] = <<>>
  BY <1>1 DEF CoverInv, EventsCovered, Covered
<1>3. ~closed[s]
  BY <1>2 DEF CoverInv, CloseQueued, CloseSeen, Quiescent
<1>4. ~Replaced(s)
  BY <1>2, <1>3 DEF Replaced, NoHandle, Handle, Quiescent, PS!Idle
<1> QED
  BY <1>2, <1>4 DEF CoverInv, ContextsFollow

(* Every event of a surface in the list is covered in every reachable       *)
(* state.                                                                   *)
THEOREM Covering == ASSUME NeverReturnsEarly PROVE Spec => []CoverInv
<1>1. Init => CoverInv
  BY CoverInit
<1>2. IInv /\ CoverInv /\ [Next]_vars => CoverInv'
  BY CoverNext DEF NeverReturnsEarly
<1> QED
  BY <1>1, <1>2, Inductive, PTL DEF Spec

(* When process() takes none of its early returns, the rendering thread     *)
(* blocks only when every event was processed: also the one that it could   *)
(* not see behind a push that was not published, and the one whose push     *)
(* found no callback (PlatformSurface::pushEvent(), RenderLoop::add() and   *)
(* process()).                                                              *)
THEOREM NothingStranded == ASSUME NeverReturnsEarly PROVE Spec => []NoStrandedEvent
<1>1. CoverInv => NoStrandedEvent
  BY NothingCovers DEF NoStrandedEvent
<1> QED
  BY <1>1, Covering, PTL

(* ... and then the context of every surface in the list was created on the *)
(* handle that its window announced last, however the resets overtook their *)
(* events (RenderLoop.cpp, the NativeHandle branch of process()).           *)
THEOREM ContextsFollowHandles == ASSUME NeverReturnsEarly PROVE Spec => []ContextFollowsHandle
<1>1. CoverInv => ContextFollowsHandle
  BY NothingCovers DEF ContextFollowsHandle
<1> QED
  BY <1>1, Covering, PTL
=============================================================================
