--------------------------- MODULE X11SurfaceProofs --------------------------
(****************************************************************************)
(* The event queue that the X11 surfaces share, for any number of windows,  *)
(* of pumping threads and of requests: which resizes reach their surface,   *)
(* and when a pump can block.                                               *)
(****************************************************************************)
EXTENDS X11Surface, SequenceTheorems, TLAPS

XEvent == [type : {"configure", "delete"}, win : Windows, size : Sizes]

PumpState == [s : Windows \cup {NoWindow}, n : Nat, ev : XEvent \cup {NoEvent},
              robbed : BOOLEAN]

X11TypeOK ==
  /\ xq \in Seq(XEvent)
  /\ server \in [Windows -> Sizes] /\ w_ \in [Windows -> Sizes] /\ told \in [Windows -> Sizes]
  /\ resizing \in XEvent \cup {NoEvent}
  /\ pump \in [Pumps -> PumpState]
  /\ requests \in Nat

(* A pump that nobody has robbed finds every event it counted: as many as   *)
(* it still has to take are in the queue.                                   *)
CountOK ==
  \A t \in Pumps :
    /\ Holding(t) => pump[t].n > 0
    /\ ~pump[t].robbed => pump[t].n <= Len(xq) + (IF Holding(t) THEN 1 ELSE 0)

-----------------------------------------------------------------------------
(* The sizes of window w on their way to its surface: what a pump holds,   *)
(* then what is in the queue.  The last one is the size of the window; and  *)
(* when none of them is news to the surface (w_[w] is the size already),    *)
(* the surface was told that size.                                          *)
News(e, w) == e.type = "configure" /\ e.win = w

InQueue(w) == {i \in 1..Len(xq) : News(xq[i], w)}

HeldBy(w) == {t \in Pumps : News(pump[t].ev, w)}

LastOK(w) ==
  InQueue(w) # {} =>
    \E i \in InQueue(w) : (\A j \in InQueue(w) : j <= i) /\ xq[i].size = server[w]

HeldOK(w) ==
  \A t \in HeldBy(w) : /\ pump[t].s = w
                       /\ \A u \in HeldBy(w) : u = t
                       /\ InQueue(w) = {} => pump[t].ev.size = server[w]

RestOK(w) ==
  /\ \A i \in InQueue(w) : xq[i].size = w_[w]
  /\ \A t \in HeldBy(w) : pump[t].ev.size = w_[w]
  => told[w] = server[w] /\ w_[w] = server[w]

WayOK(w) == LastOK(w) /\ HeldOK(w) /\ RestOK(w)

X11Inv == X11TypeOK /\ CountOK /\ \A w \in Windows \ mixed : WayOK(w)

-----------------------------------------------------------------------------
(* At first every surface knows the size of its window.                     *)
LEMMA InitX11 == X11Init => X11Inv
<1> SUFFICES ASSUME X11Init PROVE X11Inv
  OBVIOUS
<1> USE SizeAssumption, PumpAssumption
<1>1. xq \in Seq(XEvent) /\ Len(xq) = 0
  BY EmptySeq DEF X11Init
<1>2. X11TypeOK
  BY <1>1 DEF X11Init, X11TypeOK, PumpState, NotPumping
<1>3. CountOK
  BY <1>1 DEF X11Init, CountOK, NotPumping, Holding
<1>4. ASSUME NEW w \in Windows PROVE WayOK(w)
  <2>1. InQueue(w) = {}
    BY <1>1 DEF InQueue
  <2>2. HeldBy(w) = {}
    BY DEF X11Init, HeldBy, News, NotPumping, NoEvent
  <2> QED
    BY <2>1, <2>2 DEF X11Init, WayOK, LastOK, HeldOK, RestOK
<1> QED
  BY <1>2, <1>3, <1>4 DEF X11Inv

(* What a step does not touch stays as it is: the way of the sizes of one   *)
(* window does not depend on the messages, pumps and surfaces of others.    *)
LEMMA WayKept ==
  ASSUME NEW w \in Windows, WayOK(w),
         InQueue(w)' = InQueue(w), \A i \in InQueue(w) : xq'[i] = xq[i],
         HeldBy(w)' = HeldBy(w),
         \A t \in HeldBy(w) : pump'[t].ev = pump[t].ev /\ pump'[t].s = pump[t].s,
         server'[w] = server[w], w_'[w] = w_[w], told'[w] \in {told[w], server[w]}
  PROVE  WayOK(w)'
BY DEF WayOK, LastOK, HeldOK, RestOK

(* An event that is appended.                                               *)
LEMMA Appended ==
  ASSUME X11TypeOK, NEW e \in XEvent, xq' = Append(xq, e)
  PROVE  /\ xq' \in Seq(XEvent) /\ Len(xq') = Len(xq) + 1 /\ Len(xq) \in Nat
         /\ \A i \in 1..Len(xq) : xq'[i] = xq[i]
         /\ xq'[Len(xq) + 1] = e
         /\ \A w : InQueue(w)' = InQueue(w) \cup (IF News(e, w) THEN {Len(xq) + 1} ELSE {})
<1>1. /\ xq' \in Seq(XEvent) /\ Len(xq') = Len(xq) + 1 /\ Len(xq) \in Nat
      /\ \A i \in 1..Len(xq) : xq'[i] = xq[i]
      /\ xq'[Len(xq) + 1] = e
  BY AppendProperties DEF X11TypeOK
<1>2. \A i : i \in 1..Len(xq') <=> i \in 1..Len(xq) \/ i = Len(xq) + 1
  BY <1>1
<1>3. ASSUME NEW w
      PROVE  InQueue(w)' = InQueue(w) \cup (IF News(e, w) THEN {Len(xq) + 1} ELSE {})
  <2>1. InQueue(w)' = {i \in 1..Len(xq') : News(xq'[i], w)}
    BY DEF InQueue, News
  <2> QED
    BY <1>1, <1>2, <2>1 DEF InQueue
<1> QED
  BY <1>1, <1>3

(* A window that is resized or moved: the new size follows the last one.    *)
LEMMA ResizedStep ==
  ASSUME X11Inv, NEW w \in Windows, NEW z \in Sizes, Resized(w, z),
         UNCHANGED <<w_, told, pump, mixed>>
  PROVE  /\ CountOK' /\ xq' \in Seq(XEvent) /\ server' \in [Windows -> Sizes]
         /\ \A v \in Windows \ mixed' : WayOK(v)'
<1> USE DEF X11Inv
<1> DEFINE e == Configure(w, z)
           new == Len(xq) + 1
<1>1. /\ server' = [server EXCEPT ![w] = z]
      /\ xq' = Append(xq, e) /\ e \in XEvent
  BY DEF Resized, Configure, XEvent
<1>2. /\ xq' \in Seq(XEvent) /\ Len(xq') = Len(xq) + 1 /\ Len(xq) \in Nat
      /\ \A i \in 1..Len(xq) : xq'[i] = xq[i]
      /\ xq'[new] = e
      /\ \A v : InQueue(v)' = InQueue(v) \cup (IF News(e, v) THEN {new} ELSE {})
  BY <1>1, Appended
<1>3. CountOK'
  BY <1>2 DEF CountOK, Holding, X11TypeOK, PumpState
<1>4. server' \in [Windows -> Sizes]
  BY <1>1 DEF X11TypeOK
<1>5. ASSUME NEW v \in Windows \ mixed PROVE WayOK(v)'
  <2>1. HeldBy(v)' = HeldBy(v) /\ InQueue(v) \subseteq 1..Len(xq)
    BY DEF HeldBy, InQueue
  <2>2. CASE v # w
    <3>1. InQueue(v)' = InQueue(v)
      BY <1>2, <2>2 DEF News, Configure
    <3>2. server'[v] = server[v]
      BY <1>1, <2>2 DEF X11TypeOK
    <3> QED
      BY <1>2, <2>1, <3>1, <3>2, WayKept
  <2>3. CASE v = w
    <3>1. /\ InQueue(w)' = InQueue(w) \cup {new} /\ xq'[new].size = z /\ server'[w] = z
          /\ \A i \in InQueue(w) : xq'[i] = xq[i] /\ i \in Nat /\ i < new
      <4>1. News(e, w) /\ e.size = z
        BY DEF News, Configure
      <4>2. server'[w] = z
        BY <1>1 DEF X11TypeOK
      <4>3. \A i \in InQueue(w) : i \in 1..Len(xq) /\ i \in Nat /\ i < new
        BY <1>2, <2>1, <2>3
      <4> QED
        BY <1>2, <4>1, <4>2, <4>3
    <3>2. WayOK(w)
      BY <2>3
    <3>3. LastOK(w)'
      BY <1>2, <3>1 DEF LastOK
    <3>4. HeldOK(w)'
      BY <2>1, <2>3, <3>1, <3>2 DEF WayOK, HeldOK
    <3>5. RestOK(w)'
      <4> SUFFICES ASSUME \A i \in InQueue(w)' : xq'[i].size = w_[w],
                          \A t \in HeldBy(w) : pump[t].ev.size = w_[w]
                   PROVE  told[w] = server'[w] /\ w_[w] = server'[w]
        BY <2>1, <2>3 DEF RestOK
      <4>1. z = w_[w] /\ \A i \in InQueue(w) : xq[i].size = w_[w]
        BY <3>1
      <4>2. told[w] = server[w] /\ w_[w] = server[w]
        BY <3>2, <4>1 DEF WayOK, RestOK
      <4> QED
        BY <3>1, <4>1, <4>2
    <3> QED
      BY <2>3, <3>3, <3>4, <3>5 DEF WayOK
  <2> QED
    BY <2>2, <2>3
<1> QED
  BY <1>2, <1>3, <1>4, <1>5

(* What users and application ask for.                                      *)
LEMMA RequestStep ==
  ASSUME X11Inv, NEW w \in Windows,
         PressClose(w) \/ \E z \in Sizes : ResizeWindow(w, z) \/ XResize(w, z)
  PROVE  X11Inv'
<1> USE DEF X11Inv
<1>1. requests' \in Nat /\ UNCHANGED <<w_, told, pump, mixed>>
  BY DEF PressClose, ResizeWindow, XResize, Request, X11TypeOK
<1>2. CASE PressClose(w)
  <2>1. Delete(w) \in XEvent /\ xq' = Append(xq, Delete(w)) /\ UNCHANGED <<server, resizing>>
    BY <1>2, SizeAssumption DEF PressClose, Delete, XEvent
  <2>2. /\ xq' \in Seq(XEvent) /\ Len(xq') = Len(xq) + 1 /\ Len(xq) \in Nat
        /\ \A i \in 1..Len(xq) : xq'[i] = xq[i]
        /\ \A v : InQueue(v)' = InQueue(v)
    <3>1. \A v : ~News(Delete(w), v)
      BY DEF News, Delete
    <3>2. \A v : InQueue(v)' = InQueue(v) \cup (IF News(Delete(w), v) THEN {Len(xq) + 1} ELSE {})
      BY <2>1, Appended
    <3>3. \A v : InQueue(v)' = InQueue(v)
      BY <3>1, <3>2
    <3> QED
      BY <2>1, <3>3, Appended
  <2>3. X11TypeOK'
    BY <1>1, <2>1, <2>2 DEF X11TypeOK
  <2>4. CountOK'
    BY <1>1, <2>2 DEF CountOK, Holding, X11TypeOK, PumpState
  <2>5. ASSUME NEW v \in Windows \ mixed PROVE WayOK(v)'
    <3>1. HeldBy(v)' = HeldBy(v) /\ InQueue(v) \subseteq 1..Len(xq)
      BY <1>1 DEF HeldBy, InQueue
    <3> QED
      BY <1>1, <2>1, <2>2, <3>1, WayKept
  <2> QED
    BY <1>1, <2>3, <2>4, <2>5
<1>3. ASSUME NEW z \in Sizes, ResizeWindow(w, z) \/ XResize(w, z)
      PROVE  X11Inv'
  <2>1. resizing' \in XEvent \cup {NoEvent}
    BY <1>3 DEF ResizeWindow, XResize, X11TypeOK, Configure, XEvent
  <2>2. CASE Resized(w, z)
    <3>1. /\ CountOK' /\ xq' \in Seq(XEvent) /\ server' \in [Windows -> Sizes]
          /\ \A v \in Windows \ mixed' : WayOK(v)'
      BY <1>1, <2>2, ResizedStep
    <3>2. X11TypeOK'
      BY <1>1, <2>1, <3>1 DEF X11TypeOK
    <3> QED
      BY <3>1, <3>2
  <2>3. CASE UNCHANGED <<xq, server>>
    <3>1. X11TypeOK' /\ CountOK'
      BY <1>1, <2>1, <2>3 DEF X11TypeOK, CountOK, Holding
    <3>2. ASSUME NEW v \in Windows \ mixed PROVE WayOK(v)'
      <4>1. HeldBy(v)' = HeldBy(v) /\ InQueue(v)' = InQueue(v)
        BY <1>1, <2>3 DEF HeldBy, InQueue
      <4> QED
        BY <1>1, <2>3, <4>1, WayKept
    <3> QED
      BY <1>1, <3>1, <3>2
  <2> QED
    BY <1>3, <2>2, <2>3 DEF ResizeWindow, XResize
<1> QED
  BY <1>2, <1>3

(* resize() tells the surface a size: that of the window, or else the       *)
(* window is mixed.                                                         *)
LEMMA PushResizeStep ==
  ASSUME X11Inv, PushResize
  PROVE  X11Inv'
<1> USE DEF X11Inv
<1>1. /\ resizing \in XEvent /\ resizing' = NoEvent
      /\ told' = [told EXCEPT ![resizing.win] = resizing.size]
      /\ mixed' = mixed \cup (IF server[resizing.win] = resizing.size THEN {}
                              ELSE {resizing.win})
      /\ UNCHANGED <<xq, server, w_, pump, requests>>
  BY DEF PushResize, X11TypeOK
<1>2. resizing.win \in Windows /\ resizing.size \in Sizes
  BY <1>1 DEF XEvent
<1>3. X11TypeOK' /\ CountOK'
  BY <1>1, <1>2 DEF X11TypeOK, CountOK, Holding
<1>4. ASSUME NEW v \in Windows \ mixed' PROVE WayOK(v)'
  <2>1. v \in Windows \ mixed /\ told'[v] \in {told[v], server[v]}
    BY <1>1, <1>2 DEF X11TypeOK
  <2>2. HeldBy(v)' = HeldBy(v) /\ InQueue(v)' = InQueue(v)
    BY <1>1 DEF HeldBy, InQueue
  <2> QED
    BY <1>1, <2>1, <2>2, WayKept
<1> QED
  BY <1>3, <1>4

(* A pump counts what is in the queue.                                      *)
LEMMA PumpBeginStep ==
  ASSUME X11Inv, NEW t \in Pumps, NEW s \in Windows, PumpBegin(t, s)
  PROVE  X11Inv'
<1> USE DEF X11Inv
<1>1. /\ pump[t] = NotPumping /\ Len(xq) \in Nat
      /\ pump' = [pump EXCEPT ![t] = [s |-> s, n |-> Len(xq), ev |-> NoEvent,
                                      robbed |-> FALSE]]
      /\ UNCHANGED <<xq, server, w_, told, resizing, mixed, requests>>
  BY LenProperties DEF PumpBegin, Pending, NotPumping, X11TypeOK
<1>2. pump' \in [Pumps -> PumpState]
  BY <1>1 DEF X11TypeOK, PumpState
<1>3. X11TypeOK'
  BY <1>1, <1>2 DEF X11TypeOK
<1>4. CountOK'
  BY <1>1 DEF CountOK, Holding, X11TypeOK
<1>5. ASSUME NEW v \in Windows \ mixed PROVE WayOK(v)'
  <2>1. ~News(NoEvent, v)
    BY DEF News, NoEvent
  <2>2. HeldBy(v)' = HeldBy(v) /\ t \notin HeldBy(v) /\ InQueue(v)' = InQueue(v)
    BY <1>1, <2>1 DEF HeldBy, InQueue, X11TypeOK, NotPumping
  <2>3. \A u \in HeldBy(v) : pump'[u] = pump[u]
    BY <1>1, <2>2 DEF HeldBy, X11TypeOK
  <2> QED
    BY <1>1, <2>2, <2>3, WayKept
<1> QED
  BY <1>1, <1>3, <1>4, <1>5

(* A pump has handled what it held and goes on.                             *)
LEMMA HandledCounts ==
  ASSUME X11TypeOK, CountOK, NEW t \in Pumps, Holding(t), GoOn(t) \/ Finish(t),
         UNCHANGED xq
  PROVE  /\ pump' \in [Pumps -> PumpState] /\ CountOK'
         /\ pump'[t].ev = NoEvent /\ \A u \in Pumps \ {t} : pump'[u] = pump[u]
<1>1. PICK q \in {NotPumping, [pump[t] EXCEPT !.n = pump[t].n - 1, !.ev = NoEvent]} :
         pump' = [pump EXCEPT ![t] = q]
  BY DEF GoOn, Finish, X11TypeOK, PumpState
<1>2. pump[t] \in PumpState /\ pump[t].n > 0
  BY DEF X11TypeOK, CountOK
<1>3. /\ q \in PumpState /\ q.ev = NoEvent
      /\ ~q.robbed => q.n <= Len(xq)
  <2>1. Len(xq) \in Nat
    BY LenProperties DEF X11TypeOK
  <2>2. CASE q = NotPumping
    BY <2>1, <2>2 DEF NotPumping, PumpState
  <2>3. CASE q = [pump[t] EXCEPT !.n = pump[t].n - 1, !.ev = NoEvent]
    <3>1. q \in PumpState /\ q.ev = NoEvent /\ q.n = pump[t].n - 1 /\ q.robbed = pump[t].robbed
      <4>1. pump[t].n - 1 \in Nat
        BY <1>2 DEF PumpState
      <4>2. /\ q.s = pump[t].s /\ q.n = pump[t].n - 1 /\ q.ev = NoEvent
            /\ q.robbed = pump[t].robbed
        BY <1>2, <2>3 DEF PumpState
      <4>3. q = [s |-> q.s, n |-> q.n, ev |-> q.ev, robbed |-> q.robbed]
        BY <1>2, <2>3 DEF PumpState
      <4> QED
        BY <1>2, <4>1, <4>2, <4>3 DEF PumpState
    <3> QED
      BY <1>2, <2>1, <3>1 DEF CountOK, PumpState
  <2> QED
    BY <2>2, <2>3
<1>4. /\ pump' \in [Pumps -> PumpState] /\ pump'[t] = q
      /\ \A u \in Pumps \ {t} : pump'[u] = pump[u]
  BY <1>1, <1>3 DEF X11TypeOK
<1>5. CountOK'
  <2>1. Len(xq) \in Nat
    BY LenProperties DEF X11TypeOK
  <2> QED
    BY <1>3, <1>4, <2>1 DEF CountOK, Holding
<1> QED
  BY <1>3, <1>4, <1>5

(* A resize that reaches its own surface is what the surface remembers and  *)
(* is told; one that does not belongs to a mixed window.                    *)
LEMMA HandleConfigureStep ==
  ASSUME X11Inv, NEW t \in Pumps, HandleConfigure(t)
  PROVE  X11Inv'
<1> USE DEF X11Inv
<1> DEFINE e == pump[t].ev
           s == pump[t].s
<1>1. /\ e.type = "configure" /\ Holding(t)
      /\ GoOn(t) \/ Finish(t)
      /\ UNCHANGED <<xq, server, resizing, mixed, requests>>
  BY DEF HandleConfigure, Holding, NoEvent
<1>2. \/ /\ e.win = s /\ e.size # w_[s]
         /\ w_' = [w_ EXCEPT ![s] = e.size] /\ told' = [told EXCEPT ![s] = e.size]
      \/ /\ ~(e.win = s /\ e.size # w_[s])
         /\ w_' = w_ /\ told' = told
  BY DEF HandleConfigure, Remember
<1>3. /\ pump' \in [Pumps -> PumpState] /\ CountOK'
      /\ pump'[t].ev = NoEvent /\ \A u \in Pumps \ {t} : pump'[u] = pump[u]
  BY <1>1, HandledCounts
<1>4. e \in XEvent
  BY <1>1 DEF X11TypeOK, PumpState, Holding
<1>5. X11TypeOK'
  <2>1. e.win \in Windows /\ e.size \in Sizes
    BY <1>4 DEF XEvent
  <2>2. w_' \in [Windows -> Sizes] /\ told' \in [Windows -> Sizes]
    BY <1>2, <2>1 DEF X11TypeOK
  <2> QED
    BY <1>1, <1>3, <2>2 DEF X11TypeOK
<1>6. ASSUME NEW v \in Windows \ mixed PROVE WayOK(v)'
  <2>1. WayOK(v)
    OBVIOUS
  <2>2. HeldBy(v)' = HeldBy(v) \ {t} /\ InQueue(v)' = InQueue(v)
    BY <1>1, <1>3 DEF HeldBy, InQueue, News, NoEvent
  <2>3. \A u \in HeldBy(v) \ {t} : pump'[u] = pump[u]
    BY <1>3 DEF HeldBy
  <2>4. CASE e.win # v
    <3>1. t \notin HeldBy(v) /\ w_'[v] = w_[v] /\ told'[v] = told[v]
      BY <1>2, <2>4 DEF HeldBy, News, X11TypeOK
    <3> QED
      BY <1>1, <2>1, <2>2, <2>3, <3>1, WayKept
  <2>5. CASE e.win = v
    <3>1. t \in HeldBy(v)
      BY <1>1, <2>5 DEF HeldBy, News
    <3>2. /\ s = v /\ HeldBy(v) = {t} /\ HeldBy(v)' = {}
          /\ InQueue(v) = {} => e.size = server[v]
      <4>1. HeldOK(v)
        BY <2>1 DEF WayOK
      <4>2. s = v /\ (\A u \in HeldBy(v) : u = t) /\ (InQueue(v) = {} => e.size = server[v])
        BY <3>1, <4>1 DEF HeldOK
      <4> QED
        BY <2>2, <3>1, <4>2
    <3>3. w_'[v] = e.size /\ told'[v] \in {told[v], e.size}
          /\ (e.size # w_[v] => told'[v] = e.size) /\ (e.size = w_[v] => told'[v] = told[v])
      BY <1>2, <2>5, <3>2 DEF X11TypeOK
    <3>4. LastOK(v)' /\ HeldOK(v)'
      BY <1>1, <2>1, <2>2, <3>2 DEF WayOK, LastOK, HeldOK
    <3>5. RestOK(v)'
      <4> SUFFICES ASSUME \A i \in InQueue(v) : xq[i].size = e.size
                   PROVE  told'[v] = server[v] /\ e.size = server[v]
        BY <1>1, <2>2, <3>3 DEF RestOK
      <4>1. CASE e.size = w_[v]
        <5>1. \A u \in HeldBy(v) : pump[u].ev.size = w_[v]
          BY <3>2, <4>1
        <5> QED
          BY <2>1, <3>3, <4>1, <5>1 DEF WayOK, RestOK
      <4>2. CASE e.size # w_[v]
        <5>1. e.size = server[v]
          BY <2>1, <3>2 DEF WayOK, LastOK
        <5> QED
          BY <3>3, <4>2, <5>1
      <4> QED
        BY <4>1, <4>2
    <3> QED
      BY <3>4, <3>5 DEF WayOK
  <2> QED
    BY <2>4, <2>5
<1> QED
  BY <1>1, <1>3, <1>5, <1>6

(* A close message does not move sizes.                                     *)
LEMMA HandleDeleteStep ==
  ASSUME X11Inv, NEW t \in Pumps, HandleDelete(t)
  PROVE  X11Inv'
<1> USE DEF X11Inv
<1>1. /\ pump[t].ev.type = "delete" /\ Holding(t) /\ GoOn(t)
      /\ UNCHANGED <<xq, server, w_, told, resizing, mixed, requests>>
  BY DEF HandleDelete, Holding, NoEvent
<1>2. /\ pump' \in [Pumps -> PumpState] /\ CountOK'
      /\ pump'[t].ev = NoEvent /\ \A u \in Pumps \ {t} : pump'[u] = pump[u]
  BY <1>1, HandledCounts
<1>3. X11TypeOK'
  BY <1>1, <1>2 DEF X11TypeOK
<1>4. ASSUME NEW v \in Windows \ mixed PROVE WayOK(v)'
  <2>1. t \notin HeldBy(v) /\ HeldBy(v)' = HeldBy(v) /\ InQueue(v)' = InQueue(v)
    BY <1>1, <1>2 DEF HeldBy, InQueue, News, NoEvent
  <2>2. \A u \in HeldBy(v) : pump'[u] = pump[u]
    BY <1>2, <2>1 DEF HeldBy
  <2> QED
    BY <1>1, <2>1, <2>2, WayKept
<1> QED
  BY <1>1, <1>2, <1>3, <1>4

(* A pump takes the oldest event.  If that is a resize of an unmixed        *)
(* window, the pump works for that window and nobody holds another one.     *)
LEMMA NextEventStep ==
  ASSUME X11Inv, NEW t \in Pumps, NextEvent(t)
  PROVE  X11Inv'
<1> USE DEF X11Inv
<1> DEFINE e == Head(xq)
<1>1. /\ pump[t].n > 0 /\ pump[t].ev = NoEvent /\ xq # <<>> /\ xq' = Tail(xq)
      /\ pump' = [u \in Pumps |-> IF u = t THEN [pump[u] EXCEPT !.ev = e]
                                  ELSE [pump[u] EXCEPT !.robbed = pump[u] # NotPumping]]
      /\ mixed' = IF Mixes(t, e) THEN mixed \cup {e.win} ELSE mixed
      /\ UNCHANGED <<server, w_, told, resizing, requests>>
  BY DEF NextEvent, Holding
<1>2. /\ e \in XEvent /\ e = xq[1] /\ xq' \in Seq(XEvent)
      /\ Len(xq) \in Nat /\ Len(xq) > 0 /\ Len(xq') = Len(xq) - 1
      /\ \A i \in 1..Len(xq') : xq'[i] = xq[i + 1]
  BY <1>1, HeadTailProperties, LenProperties, EmptySeq DEF X11TypeOK
<1>3. /\ pump'[t].ev = e /\ pump'[t].s = pump[t].s /\ pump'[t].n = pump[t].n
      /\ pump'[t].robbed = pump[t].robbed
      /\ \A u \in Pumps \ {t} :
           /\ pump'[u].ev = pump[u].ev /\ pump'[u].s = pump[u].s /\ pump'[u].n = pump[u].n
           /\ pump'[u].robbed = (pump[u] # NotPumping)
  BY <1>1 DEF X11TypeOK, PumpState
<1>4. pump' \in [Pumps -> PumpState]
  BY <1>1, <1>2 DEF X11TypeOK, PumpState
<1>5. X11TypeOK'
  BY <1>1, <1>2, <1>4 DEF X11TypeOK
<1>6. CountOK'
  <2> SUFFICES ASSUME NEW u \in Pumps
               PROVE  /\ Holding(u)' => pump'[u].n > 0
                      /\ ~pump'[u].robbed =>
                           pump'[u].n <= Len(xq') + (IF Holding(u)' THEN 1 ELSE 0)
    BY DEF CountOK
  <2>1. pump[u].n \in Nat /\ pump[u].robbed \in BOOLEAN
    BY DEF X11TypeOK, PumpState
  <2>2. CASE u = t
    <3>1. Holding(t)' /\ ~Holding(t)
      <4>1. e # NoEvent
        BY <1>2, PumpAssumption DEF XEvent, NoEvent
      <4> QED
        BY <1>1, <1>3, <4>1 DEF Holding
    <3> QED
      BY <1>1, <1>2, <1>3, <2>1, <2>2, <3>1 DEF CountOK
  <2>3. CASE u # t
    <3>1. Holding(u)' <=> Holding(u)
      BY <1>3, <2>3 DEF Holding
    <3>2. pump[u] = NotPumping => pump[u].n = 0
      BY DEF NotPumping
    <3>3. Holding(u) => pump[u].n > 0
      BY DEF CountOK
    <3>4. pump'[u].n = pump[u].n /\ (~pump'[u].robbed => pump[u] = NotPumping)
      BY <1>3, <2>3
    <3>5. ~pump'[u].robbed => pump'[u].n = 0
      BY <3>2, <3>4
    <3>6. Len(xq') + (IF Holding(u)' THEN 1 ELSE 0) >= 0
      BY <1>2
    <3> QED
      BY <3>1, <3>3, <3>4, <3>5, <3>6
  <2> QED
    BY <2>2, <2>3
<1>7. ASSUME NEW v \in Windows \ mixed' PROVE WayOK(v)'
  <2>1. WayOK(v)
    BY <1>1
  <2>2. /\ \A i \in InQueue(v)' : i + 1 \in InQueue(v) /\ xq'[i] = xq[i + 1] /\ i \in Nat
        /\ \A i \in InQueue(v) : i = 1 \/ (i - 1 \in InQueue(v)' /\ (i - 1) + 1 = i)
    BY <1>2 DEF InQueue
  <2>3. 1 \in InQueue(v) <=> News(e, v)
    BY <1>2 DEF InQueue
  <2>4. \A u \in Pumps \ {t} : u \in HeldBy(v)' <=> u \in HeldBy(v)
    BY <1>3 DEF HeldBy, News
  <2>5. t \notin HeldBy(v) /\ (t \in HeldBy(v)' <=> News(e, v))
    BY <1>1, <1>3 DEF HeldBy, News, NoEvent
  <2>6. HeldBy(v) \subseteq Pumps /\ HeldBy(v)' \subseteq Pumps
    BY DEF HeldBy
  <2>7. LastOK(v)'
    <3> SUFFICES ASSUME InQueue(v)' # {}
                 PROVE  \E i \in InQueue(v)' : /\ \A j \in InQueue(v)' : j <= i
                                               /\ xq'[i].size = server[v]
      BY <1>1 DEF LastOK
    <3>1. PICK i \in InQueue(v) : (\A j \in InQueue(v) : j <= i) /\ xq[i].size = server[v]
      BY <2>1, <2>2 DEF WayOK, LastOK
    <3>2. i - 1 \in InQueue(v)' /\ xq'[i - 1] = xq[i]
      <4>1. PICK k \in InQueue(v)' : k + 1 \in InQueue(v) /\ k \in Nat
        BY <2>2
      <4>2. k \in 1..Len(xq')
        BY <1>2 DEF InQueue
      <4>3. i # 1 /\ i \in 1..Len(xq)
        BY <3>1, <4>1, <4>2 DEF InQueue
      <4> QED
        BY <1>2, <2>2, <4>3
    <3>3. \A j \in InQueue(v)' : j <= i - 1
      BY <1>2, <2>2, <3>1 DEF InQueue
    <3> QED
      BY <3>1, <3>2, <3>3
  <2>8. CASE ~News(e, v)
    <3>1. /\ HeldBy(v)' = HeldBy(v)
          /\ \A u \in HeldBy(v) : pump'[u].ev = pump[u].ev /\ pump'[u].s = pump[u].s
      <4>1. HeldBy(v)' = HeldBy(v)
        BY <2>4, <2>5, <2>6, <2>8
      <4>2. \A u \in HeldBy(v) : u \in Pumps \ {t}
        BY <2>5, <2>6
      <4> QED
        BY <1>3, <4>1, <4>2
    <3>2. InQueue(v)' = {} <=> InQueue(v) = {}
      BY <2>2, <2>3, <2>8
    <3>3. HeldOK(v)'
      <4>1. HeldOK(v) /\ UNCHANGED <<w_, server>>
        BY <1>1, <2>1 DEF WayOK
      <4> QED
        BY <3>1, <3>2, <4>1 DEF HeldOK
    <3>4. RestOK(v)'
      <4>1. RestOK(v) /\ UNCHANGED <<w_, told, server>>
        BY <1>1, <2>1 DEF WayOK
      <4>2. (\A i \in InQueue(v)' : xq'[i].size = w_[v])
               => \A i \in InQueue(v) : xq[i].size = w_[v]
        BY <2>2, <2>3, <2>8
      <4> QED
        BY <3>1, <4>1, <4>2 DEF RestOK
    <3> QED
      BY <2>7, <3>3, <3>4 DEF WayOK
  <2>9. CASE News(e, v)
    <3>1. e.type = "configure" /\ e.win = v /\ ~Mixes(t, e)
      BY <1>1, <2>9 DEF News
    <3>2. pump[t].s = v /\ HeldBy(v) = {}
      BY <2>5, <2>6, <3>1 DEF Mixes, HeldBy, News
    <3>3. HeldBy(v)' = {t} /\ pump'[t].ev = e /\ pump'[t].s = v
      BY <1>3, <2>4, <2>5, <2>6, <2>9, <3>2
    <3>4. InQueue(v)' = {} => e.size = server[v]
      <4> SUFFICES ASSUME InQueue(v)' = {} PROVE e.size = server[v]
        OBVIOUS
      <4>1. \A j \in InQueue(v) : j = 1
        BY <2>2
      <4> QED
        BY <1>2, <2>1, <2>3, <2>9, <4>1 DEF WayOK, LastOK
    <3>5. HeldOK(v)'
      BY <1>1, <3>3, <3>4 DEF HeldOK
    <3>6. RestOK(v)'
      <4> SUFFICES ASSUME \A i \in InQueue(v)' : xq'[i].size = w_[v], e.size = w_[v]
                   PROVE  told[v] = server[v] /\ w_[v] = server[v]
        BY <1>1, <3>3 DEF RestOK
      <4>1. \A i \in InQueue(v) : xq[i].size = w_[v]
        BY <1>2, <2>2
      <4> QED
        BY <2>1, <3>2, <4>1 DEF WayOK, RestOK
    <3> QED
      BY <2>7, <3>5, <3>6 DEF WayOK
  <2> QED
    BY <2>8, <2>9
<1> QED
  BY <1>5, <1>6, <1>7

(* The invariant holds of every behaviour.                                  *)
LEMMA X11Inductive == X11Spec => []X11Inv
<1>1. X11Inv /\ [X11Next]_x11Vars => X11Inv'
  <2> SUFFICES ASSUME X11Inv, [X11Next]_x11Vars PROVE X11Inv'
    OBVIOUS
  <2>1. CASE \E w \in Windows :
               PressClose(w) \/ \E z \in Sizes : ResizeWindow(w, z) \/ XResize(w, z)
    BY <2>1, RequestStep
  <2>2. CASE PushResize
    BY <2>2, PushResizeStep
  <2>3. CASE \E t \in Pumps, s \in Windows : PumpBegin(t, s)
    BY <2>3, PumpBeginStep
  <2>4. CASE \E t \in Pumps : PumpStep(t)
    BY <2>4, NextEventStep, HandleConfigureStep, HandleDeleteStep DEF PumpStep
  <2>5. CASE UNCHANGED x11Vars
    BY <2>5 DEF x11Vars, X11Inv, X11TypeOK, CountOK, Holding, WayOK, LastOK, HeldOK,
                RestOK, InQueue, HeldBy
  <2> QED
    BY <2>1, <2>2, <2>3, <2>4, <2>5 DEF X11Next
<1> QED
  BY <1>1, InitX11, PTL DEF X11Spec

(* The last size that a surface was told is that of its window once the     *)
(* queue is drained, except for the windows whose resizes went astray, for  *)
(* any number of windows and of threads that pump (processEvents()).        *)
THEOREM SizesFollow == X11Spec => []SizeFollows
<1>1. X11Inv => SizeFollows
  <2> SUFFICES ASSUME X11Inv, xq = <<>>, \A t \in Pumps : ~Holding(t),
                      NEW w \in Windows \ mixed
               PROVE  told[w] = server[w]
    BY DEF SizeFollows
  <2>1. InQueue(w) = {} /\ HeldBy(w) = {}
    BY DEF InQueue, HeldBy, News, Holding, NoEvent
  <2> QED
    BY <2>1 DEF X11Inv, WayOK, RestOK
<1> QED
  BY <1>1, X11Inductive, PTL

(* XNextEvent() never blocks a pump whose events nobody has taken.          *)
THEOREM OnlyRobbedBlock == X11Spec => []BlocksOnlyWhenRobbed
<1>1. X11Inv => BlocksOnlyWhenRobbed
  <2>1. xq = <<>> => Len(xq) = 0
    BY EmptySeq
  <2> QED
    BY <2>1 DEF X11Inv, CountOK, X11TypeOK, PumpState, BlocksOnlyWhenRobbed
<1> QED
  BY <1>1, X11Inductive, PTL
=============================================================================
