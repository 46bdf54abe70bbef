----------------------------- MODULE X11Surface ------------------------------
(****************************************************************************)
(* X11Surface.cpp: processEvents().  All X11 surfaces share one display and *)
(* its event queue, and the rendering thread (popEvent) and the thread in   *)
(* waitForStopped() both pump it, each on behalf of one surface.  A pump    *)
(* asks how many events are pending, takes that many one at a time, and     *)
(* gives up at a ConfigureNotify that is not news for its surface.          *)
(*                                                                          *)
(* A surface is named by its window.  The events that reach its queue are   *)
(* those of PlatformSurface: the last resize is told[s], a close is         *)
(* membership in xclosed.                                                   *)
(****************************************************************************)
EXTENDS Naturals, Sequences

CONSTANTS Windows, NoWindow,
          Pumps,           \* the threads that pump
          Waiter,          \* the one in waitForStopped(), which keeps pumping
          Sizes, FirstSize,
          MaxRequests      \* bound: what users and application ask for

ASSUME PumpAssumption == Waiter \in Pumps /\ NoWindow \notin Windows
ASSUME SizeAssumption == FirstSize \in Sizes /\ MaxRequests \in Nat

VARIABLES
  xq,          \* the event queue of the display
  server,      \* server[w]: the size of the window
  asked,       \* the windows whose close button was pressed
  w_,          \* w_[w]: the last size a ConfigureNotify brought
  told,        \* told[w]: the size in the last resize event of the surface
  resizing,    \* the call of resize() that has not pushed its event yet
  xclosed,     \* the surfaces whose close() was called
  pump,        \* pump[t]: the processEvents() thread t is in
  mixed,       \* the windows with a resize that went astray: see SizeFollows
  requests     \* what remains of MaxRequests

x11Vars == <<xq, server, asked, w_, told, resizing, xclosed, pump, mixed, requests>>

NoEvent == [type |-> "none", win |-> NoWindow, size |-> FirstSize]
Configure(w, z) == [type |-> "configure", win |-> w, size |-> z]
Delete(w) == [type |-> "delete", win |-> w, size |-> FirstSize]

(* robbed: another pump has taken an event since this one counted them.     *)
NotPumping == [s |-> NoWindow, n |-> 0, ev |-> NoEvent, robbed |-> FALSE]

X11Init ==
  /\ xq = <<>> /\ asked = {} /\ xclosed = {} /\ mixed = {}
  /\ server = [w \in Windows |-> FirstSize]
  /\ w_ = server /\ told = server /\ resizing = NoEvent
  /\ pump = [t \in Pumps |-> NotPumping]
  /\ requests = MaxRequests

-----------------------------------------------------------------------------
(* The server, as the user and the window manager drive it.                 *)
Request ==
  /\ requests > 0
  /\ requests' = requests - 1
  /\ UNCHANGED <<w_, told, xclosed, pump, mixed>>

(* A window that is only moved keeps its size, and says so too.             *)
Resized(w, z) ==
  /\ server' = [server EXCEPT ![w] = z]
  /\ xq' = Append(xq, Configure(w, z))

ResizeWindow(w, z) == Request /\ Resized(w, z) /\ UNCHANGED <<asked, resizing>>

PressClose(w) ==
  /\ Request
  /\ w \notin asked
  /\ asked' = asked \cup {w}
  /\ xq' = Append(xq, Delete(w))
  /\ UNCHANGED <<server, resizing>>

(* resize(): XResizeWindow(), which a window manager may deny, and then the *)
(* event, with the size that was asked for.                                 *)
XResize(w, z) ==
  /\ Request
  /\ resizing = NoEvent
  /\ resizing' = Configure(w, z)
  /\ Resized(w, z) \/ UNCHANGED <<xq, server>>
  /\ UNCHANGED asked

PushResize ==
  /\ resizing # NoEvent
  /\ told' = [told EXCEPT ![resizing.win] = resizing.size]
  /\ mixed' = mixed \cup (IF server[resizing.win] = resizing.size THEN {} ELSE {resizing.win})
  /\ resizing' = NoEvent
  /\ UNCHANGED <<xq, server, asked, w_, xclosed, pump, requests>>

-----------------------------------------------------------------------------
(* A bug: an off-by-one in the number of events to take.                    *)
Pending_OneMore == Len(xq) + 1

Pending == Len(xq)          \* XPending()

PumpBegin(t, s) ==
  /\ pump[t] = NotPumping
  /\ Pending > 0
  /\ pump' = [pump EXCEPT ![t].s = s, ![t].n = Pending]
  /\ UNCHANGED <<xq, server, asked, w_, told, resizing, xclosed, mixed, requests>>

Holding(t) == pump[t].ev # NoEvent

(* The event e is taken by t although it is for another surface, or while   *)
(* another pump still holds an older size of the same window.               *)
Mixes(t, e) ==
  /\ e.type = "configure"
  /\ \/ e.win # pump[t].s
     \/ \E u \in Pumps \ {t} : pump[u].ev.type = "configure" /\ pump[u].ev.win = e.win

(* XNextEvent() blocks while the queue is empty.                            *)
NextEvent(t) ==
  /\ pump[t].n > 0 /\ ~Holding(t)
  /\ xq # <<>>
  /\ xq' = Tail(xq)
  /\ pump' = [u \in Pumps |-> IF u = t THEN [pump[u] EXCEPT !.ev = Head(xq)]
                              ELSE [pump[u] EXCEPT !.robbed = pump[u] # NotPumping]]
  /\ mixed' = IF Mixes(t, Head(xq)) THEN mixed \cup {Head(xq).win} ELSE mixed
  /\ UNCHANGED <<server, asked, w_, told, resizing, xclosed, requests>>

Finish(t) == pump' = [pump EXCEPT ![t] = NotPumping]

GoOn(t) ==
  IF pump[t].n = 1 THEN Finish(t)
  ELSE pump' = [pump EXCEPT ![t].n = @ - 1, ![t].ev = NoEvent]

(* A bug: the cached size is compared but never renewed.                    *)
Remember_Never(s, z) == UNCHANGED w_

Remember(s, z) == w_' = [w_ EXCEPT ![s] = z]

HandleConfigure(t) ==
  LET e == pump[t].ev  s == pump[t].s IN
  /\ e.type = "configure"
  /\ IF e.win = s /\ e.size # w_[s]
       THEN Remember(s, e.size) /\ told' = [told EXCEPT ![s] = e.size] /\ GoOn(t)
       ELSE Finish(t) /\ UNCHANGED <<w_, told>>
  /\ UNCHANGED <<xq, server, asked, resizing, xclosed, mixed, requests>>

(* A bug: the close button of another window is thrown away.                *)
Closes_Own(t) == {pump[t].s} \cap {pump[t].ev.win}

Closes(t) == {pump[t].s}

HandleDelete(t) ==
  /\ pump[t].ev.type = "delete"
  /\ xclosed' = xclosed \cup Closes(t)
  /\ GoOn(t)
  /\ UNCHANGED <<xq, server, asked, w_, told, resizing, mixed, requests>>

PumpStep(t) == NextEvent(t) \/ HandleConfigure(t) \/ HandleDelete(t)

X11Next ==
  \/ \E w \in Windows : PressClose(w) \/ \E z \in Sizes : ResizeWindow(w, z) \/ XResize(w, z)
  \/ PushResize
  \/ \E t \in Pumps : PumpStep(t) \/ \E s \in Windows : PumpBegin(t, s)

X11Spec == X11Init /\ [][X11Next]_x11Vars

(* waitForStopped() pumps every surface of the loop again and again; a pump *)
(* that has begun goes on unless XNextEvent() blocks it.                    *)
PumpsOn == \E s \in Windows \ xclosed : PumpBegin(Waiter, s)

X11FairSpec == /\ X11Spec
               /\ \A t \in Pumps : WF_x11Vars(PumpStep(t))
               /\ WF_x11Vars(PumpsOn)

-----------------------------------------------------------------------------
(* The last size a surface was told is that of its window once the queue is *)
(* drained, unless a pump of another surface took one of its resizes, two   *)
(* pumps handled two of them in the wrong order, or resize() announced a    *)
(* size that the window did not have.                                       *)
SizeFollows ==
  (xq = <<>> /\ resizing = NoEvent /\ \A t \in Pumps : ~Holding(t)) =>
    \A w \in Windows \ mixed : told[w] = server[w]

(* processEvents() blocks in XNextEvent() only because another thread took  *)
(* an event that it had counted.                                            *)
BlocksOnlyWhenRobbed ==
  \A t \in Pumps : (pump[t].n > 0 /\ ~Holding(t) /\ xq = <<>>) => pump[t].robbed

(* The close button closes a surface, whichever pump gets the message.      *)
CloseAnswered == \A w \in Windows : w \in asked ~> xclosed # {}

(* "let wm notify us when close window is requested by user(close button)"  *)
(* (X11Surface.cpp:132): a surface is closed when its own window was asked  *)
(* to close.                                                                *)
CloseOwnWindow == xclosed \subseteq asked
=============================================================================
