--------------------------- MODULE PlatformSurface ---------------------------
(****************************************************************************)
(* PlatformSurface.cpp: a surface queues the events of its window for the   *)
(* rendering thread.  resize(), close() and resetNativeHandle() run on any  *)
(* thread; each of them pushes events one after the other, and a push is    *)
(* not atomic: it checks closed, takes its place in the queue, becomes      *)
(* visible, and then invokes the event callback.  The queue is the abstract *)
(* FIFO of EventFifo, which MpscFifo implements: claimed, then published.   *)
(****************************************************************************)
EXTENDS Naturals, Sequences

CONSTANTS Surfaces,
          Threads,
          Handles,    \* native window handles
          Null        \* the null handle; also "no thread" and "no surface"

VARIABLES
  events,         \* events[s]: the FIFO, entries [ev, by]; by is Null once published
  closed,         \* closed[s]
  native_handle,  \* native_handle[s]
  cb,             \* cb[s]: an event callback is set
  call            \* call[t]: the push thread t is executing

vars == <<events, closed, native_handle, cb, call>>

-----------------------------------------------------------------------------
(* PlatformSurface::Event.  The two sizes of a resize are abstracted.       *)

HandleOrNull == Handles \cup {Null}

Close == [type |-> "Close", before |-> Null, after |-> Null]
Resize == [type |-> "Resize", before |-> Null, after |-> Null]
(* Two bugs: the old handle is read after the assignment of the new one, or  *)
(* the two are swapped.                                                     *)
NativeHandle_Late(old, new) == [type |-> "NativeHandle", before |-> new, after |-> new]
NativeHandle_Swapped(old, new) == [type |-> "NativeHandle", before |-> new, after |-> old]

NativeHandle(old, new) == [type |-> "NativeHandle", before |-> old, after |-> new]

Event == [type : {"Close", "Resize", "NativeHandle"},
          before : HandleOrNull, after : HandleOrNull]

(* A call in progress: the surface, the event being pushed, the place in    *)
(* pushEvent() and what the caller does once pushEvent() returns.           *)
Call == [at : {"idle", "check", "claim", "link", "notify", "close"},
         s : Surfaces \cup {Null}, ev : Event,
         then : {"return", "resize", "close"}]

NoCall == [at |-> "idle", s |-> Null, ev |-> Close, then |-> "return"]

Idle(t) == call[t].at = "idle"

(* What follows pushEvent(): resetNativeHandle() goes on to resize(), and   *)
(* close() to the assignment of closed.                                     *)
Return(c) == CASE c.then = "return" -> NoCall
               [] c.then = "resize" -> [c EXCEPT !.at = "check", !.ev = Resize,
                                                 !.then = "return"]
               [] c.then = "close"  -> [c EXCEPT !.at = "close", !.then = "return"]

BeginPush(t, s, e, then) ==
  /\ Idle(t)
  /\ call' = [call EXCEPT ![t] = [at |-> "check", s |-> s, ev |-> e, then |-> then]]

-----------------------------------------------------------------------------
(* The three operations.                                                    *)

ResizeSurface(t, s) ==
  /\ BeginPush(t, s, Resize, "return")
  /\ UNCHANGED <<events, closed, native_handle, cb>>

(* A bug: close() sets closed before it pushes the event.                   *)
CloseSurface_ClosedFirst(t, s) ==
  /\ BeginPush(t, s, Close, "return")
  /\ closed' = [closed EXCEPT ![s] = TRUE]
  /\ UNCHANGED <<events, native_handle, cb>>

CloseSurface(t, s) ==
  /\ BeginPush(t, s, Close, "close")
  /\ UNCHANGED <<events, closed, native_handle, cb>>

(* The virtual size() of the window decides whether a resize follows.       *)
ResetNativeHandle(t, s, h) ==
  /\ native_handle[s] # h
  /\ native_handle' = [native_handle EXCEPT ![s] = h]
  /\ \E sized \in BOOLEAN :
       BeginPush(t, s, NativeHandle(native_handle[s], h),
                 IF h # Null /\ sized THEN "resize" ELSE "return")
  /\ UNCHANGED <<events, closed, cb>>

-----------------------------------------------------------------------------
(* pushEvent() and what close() does after it.                              *)

PushCheck(t) ==
  /\ call[t].at = "check"
  /\ call' = [call EXCEPT ![t] = IF closed[@.s] THEN Return(@)
                                 ELSE [@ EXCEPT !.at = "claim"]]
  /\ UNCHANGED <<events, closed, native_handle, cb>>

PushClaim(t) ==
  /\ call[t].at = "claim"
  /\ events' = [events EXCEPT ![call[t].s] = Append(@, [ev |-> call[t].ev, by |-> t])]
  /\ call' = [call EXCEPT ![t].at = "link"]
  /\ UNCHANGED <<closed, native_handle, cb>>

Publish(q, t) == [i \in DOMAIN q |-> IF q[i].by = t THEN [q[i] EXCEPT !.by = Null] ELSE q[i]]

PushLink(t) ==
  /\ call[t].at = "link"
  /\ events' = [events EXCEPT ![call[t].s] = Publish(@, t)]
  /\ call' = [call EXCEPT ![t].at = "notify"]
  /\ UNCHANGED <<closed, native_handle, cb>>

(* A bug: only the event that finds the queue empty invokes the callback.   *)
Notifies_First(t) == /\ call[t].at = "notify" /\ cb[call[t].s]
                     /\ Len(events[call[t].s]) = 1

(* The callback itself, when it is set, belongs to whoever set it.          *)
Notifies(t) == call[t].at = "notify" /\ cb[call[t].s]

Notify(t) ==
  /\ call[t].at = "notify"
  /\ call' = [call EXCEPT ![t] = Return(@)]
  /\ UNCHANGED <<events, closed, native_handle, cb>>

SetClosed(t) ==
  /\ call[t].at = "close"
  /\ closed' = [closed EXCEPT ![call[t].s] = TRUE]
  /\ call' = [call EXCEPT ![t] = NoCall]
  /\ UNCHANGED <<events, native_handle, cb>>

Push(t) == PushCheck(t) \/ PushClaim(t) \/ PushLink(t) \/ SetClosed(t)

-----------------------------------------------------------------------------
(* The side of the rendering thread: the pop of popEvent(), after its       *)
(* processEvents() has run, and setEventCallback().                         *)

CanPop(s) == events[s] # <<>> /\ events[s][1].by = Null

PopEvent(s) ==
  /\ CanPop(s)
  /\ events' = [events EXCEPT ![s] = Tail(@)]

SetEventCallback(s) == cb' = [cb EXCEPT ![s] = TRUE]

-----------------------------------------------------------------------------
(* A constructed surface: an internal window has announced its handle (X11, *)
(* Win32, Wayland, GBM), a foreign one waits for resetNativeHandle().       *)
Created(s) ==
  \/ native_handle[s] = Null /\ events[s] = <<>>
  \/ /\ native_handle[s] \in Handles
     /\ events[s] = <<[ev |-> NativeHandle(Null, native_handle[s]), by |-> Null]>>

Init ==
  /\ native_handle \in [Surfaces -> HandleOrNull]
  /\ events \in [Surfaces -> {<<>>} \cup
                   {<<[ev |-> NativeHandle(Null, h), by |-> Null]>> : h \in Handles}]
  /\ \A s \in Surfaces : Created(s)
  /\ closed = [s \in Surfaces |-> FALSE]
  /\ cb = [s \in Surfaces |-> FALSE]
  /\ call = [t \in Threads |-> NoCall]

TypeOK ==
  /\ events \in [Surfaces -> Seq([ev : Event, by : Threads \cup {Null}])]
  /\ closed \in [Surfaces -> BOOLEAN]
  /\ native_handle \in [Surfaces -> HandleOrNull]
  /\ cb \in [Surfaces -> BOOLEAN]
  /\ call \in [Threads -> Call]
=============================================================================
