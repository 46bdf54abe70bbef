--------------------------- MODULE WrappedSurface ----------------------------
(****************************************************************************)
(* AndroidSurface.cpp, UIKitSurface.mm and CocoaSurface.mm: surfaces that   *)
(* wrap a window of the application.  What they keep of it they get in the  *)
(* callback of resetNativeHandle(): a reference, an observer, or both.      *)
(* UIKitSurface also stops the rendering thread while the application is in *)
(* the background: acquire() and release() are the ends of a critical       *)
(* section that the notifications of the application take part in.          *)
(****************************************************************************)
EXTENDS Integers

CONSTANTS Views,       \* windows, views, Java surfaces
          Layers,      \* CALayers given as a handle
          NoNative,
          MaxHandles    \* bound: calls of resetNativeHandle()

Natives == Views \cup Layers
ASSUME NativeAssumption == NoNative \notin Natives /\ Views \cap Layers = {}
ASSUME WrappedBoundAssumption == MaxHandles \in Nat

VARIABLES
  platform,      \* "android", "uikit" or "cocoa"
  native,        \* nativeHandle()
  holds,         \* anw_, layer_ or view_
  refs,          \* refs[n]: references taken minus references given back
  watched,       \* the natives whose size is observed
  gfx_allowed_, mtx_,
  gate,          \* the rendering thread in acquire()
  notified,      \* what the main thread is told: "none", "front" or "back"
  slipped,       \* the application changed its state within acquire()
  wrapped_gone,
  stray,         \* a callback locked the mutex of a surface that is gone
  resets

wrappedVars == <<platform, native, holds, refs, watched, gfx_allowed_, mtx_, gate, notified,
                 slipped, wrapped_gone, stray, resets>>
gateVars == <<gfx_allowed_, mtx_, gate, notified, slipped>>

WrappedInit ==
  /\ platform \in {"android", "uikit", "cocoa"}
  /\ native = NoNative /\ holds = NoNative
  /\ refs = [n \in Natives |-> 0] /\ watched = {}
  /\ gfx_allowed_ = TRUE /\ mtx_ = "free" /\ gate = "out" /\ notified = "none"
  /\ slipped = FALSE /\ wrapped_gone = FALSE /\ stray = FALSE /\ resets = MaxHandles

Swap(old, new) ==
  [n \in Natives |-> refs[n] + (IF n = new THEN 1 ELSE 0) - (IF n = old THEN 1 ELSE 0)]

-----------------------------------------------------------------------------
(* The callbacks, once nativeHandle() is n.  A bug: the reference is kept   *)
(* unless the handle is reset to null.                                      *)
LetGo_AtNull(held, n) == IF n = NoNative THEN held ELSE NoNative

LetGo(held, n) == held

(* ANativeWindow_fromSurface() may fail.                                    *)
AndroidCallback(n) ==
  /\ holds' \in IF n = NoNative THEN {NoNative} ELSE {n, NoNative}
  /\ refs' = Swap(LetGo(holds, n), holds')
  /\ UNCHANGED watched

(* layer_ stays what it was when the handle is null.                        *)
UIKitCallback(n) ==
  /\ holds' = IF n = NoNative THEN holds ELSE n
  /\ refs' = Swap(LetGo(native, n), n)
  /\ watched' = (watched \ {native}) \cup ({n} \ {NoNative})

(* A CALayer has no view to observe, and view_ too survives a null handle.  *)
CocoaCallback(n) ==
  /\ holds' = IF n = NoNative THEN holds ELSE IF n \in Layers THEN NoNative ELSE n
  /\ watched' = (IF native \in Views THEN {} ELSE watched) \cup ({n} \cap Views)
  /\ UNCHANGED refs

Callback(n) ==
  CASE platform = "android" -> AndroidCallback(n)
    [] platform = "uikit"   -> UIKitCallback(n)
    [] platform = "cocoa"   -> CocoaCallback(n)

ResetNative(n) ==
  /\ ~wrapped_gone /\ resets > 0 /\ n # native
  /\ platform = "android" => n \notin Layers
  /\ resets' = resets - 1
  /\ native' = n
  /\ Callback(n)
  /\ UNCHANGED <<platform, gateVars, wrapped_gone, stray>>

(* The destructors.  UIKitSurface gives layer_ back and then resets the     *)
(* handle, which gives it back once more.                                   *)
DestroyAndroid ==
  /\ refs' = Swap(holds, NoNative)
  /\ holds' = NoNative
  /\ UNCHANGED <<native, watched>>

DestroyUIKit ==
  /\ refs' = [n \in Natives |-> refs[n] - (IF n = holds THEN 1 ELSE 0)
                                        - (IF n = native THEN 1 ELSE 0)]
  /\ watched' = watched \ {native}
  /\ native' = NoNative
  /\ UNCHANGED holds

DestroyCocoa ==
  /\ native' = NoNative
  /\ watched' = {}
  /\ UNCHANGED <<holds, refs>>

DestroyWrapped ==
  /\ ~wrapped_gone /\ gate = "out"
  /\ wrapped_gone' = TRUE
  /\ CASE platform = "android" -> DestroyAndroid
       [] platform = "uikit"   -> DestroyUIKit
       [] platform = "cocoa"   -> DestroyCocoa
  /\ UNCHANGED <<platform, gateVars, stray, resets>>

-----------------------------------------------------------------------------
(* UIKitSurface::acquire() on the rendering thread: it locks, unlocks again *)
(* when drawing is not allowed, and returns what gfx_allowed_ is by then.   *)
wrapped == <<platform, native, holds, refs, watched, wrapped_gone, resets>>
others == <<wrapped, stray>>

(* A bug: acquire() only looks at gfx_allowed_.                              *)
Lock_Not ==
  /\ platform = "uikit" /\ ~wrapped_gone /\ gate = "out"
  /\ gate' = "test"
  /\ UNCHANGED <<others, gfx_allowed_, mtx_, notified, slipped>>

Lock ==
  /\ platform = "uikit" /\ ~wrapped_gone /\ gate = "out" /\ mtx_ = "free"
  /\ mtx_' = "render" /\ gate' = "test"
  /\ UNCHANGED <<others, gfx_allowed_, notified, slipped>>

(* A bug: the mutex stays locked when drawing is not allowed.               *)
Refused_Never == FALSE

Refused == ~gfx_allowed_

Test ==
  /\ gate = "test"
  /\ mtx_' = IF Refused THEN "free" ELSE mtx_
  /\ gate' = "return"
  /\ slipped' = FALSE
  /\ UNCHANGED <<others, gfx_allowed_, notified>>

Acquired ==
  /\ gate = "return"
  /\ gate' = IF gfx_allowed_ THEN "drawing" ELSE "out"
  /\ UNCHANGED <<others, gfx_allowed_, mtx_, notified, slipped>>

(* release() of a mutex that is not locked is undefined.                    *)
ReleaseGate ==
  /\ gate = "drawing" /\ mtx_ = "render"
  /\ mtx_' = "free" /\ gate' = "out"
  /\ UNCHANGED <<others, gfx_allowed_, notified, slipped>>

(* appStateChanged: on the main thread, and the lock in its callback.       *)
AppStateChanged(state) ==
  /\ platform = "uikit" /\ ~wrapped_gone /\ notified = "none"
  /\ notified' = state
  /\ UNCHANGED <<others, gfx_allowed_, mtx_, gate, slipped>>

SetAllowed ==
  /\ notified # "none" /\ ~wrapped_gone
  /\ mtx_ = "free"
  /\ gfx_allowed_' = (notified = "front")
  /\ slipped' = (slipped \/ gate = "return")
  /\ notified' = "none"
  /\ UNCHANGED <<others, mtx_, gate>>

(* The callback captures the surface, and a notification that is on its way *)
(* when the observer is removed finds it deleted.                           *)
StrayCallback ==
  /\ notified # "none" /\ wrapped_gone
  /\ stray' = TRUE
  /\ notified' = "none"
  /\ UNCHANGED <<wrapped, gfx_allowed_, mtx_, gate, slipped>>

WrappedNext ==
  \/ \E n \in Natives \cup {NoNative} : ResetNative(n)
  \/ DestroyWrapped
  \/ Lock \/ Test \/ Acquired \/ ReleaseGate
  \/ \E state \in {"front", "back"} : AppStateChanged(state)
  \/ SetAllowed \/ StrayCallback

WrappedSpec == WrappedInit /\ [][WrappedNext]_wrappedVars

(* The threads go on; what is locked is unlocked.                           *)
WrappedFairSpec == WrappedSpec /\ WF_wrappedVars(Test \/ Acquired \/ ReleaseGate)
                               /\ SF_wrappedVars(SetAllowed)

-----------------------------------------------------------------------------
Sole(n) == {n} \ {NoNative}

(* A surface has one reference to, or one observer of, the handle it has    *)
(* and none to those it had; none at all once deleted, except that          *)
(* UIKitSurface by then has given back one reference too many.              *)
OneReference ==
  /\ platform = "android" =>
       refs = [n \in Natives |-> IF n = holds THEN 1 ELSE 0] /\ holds \in {native, NoNative}
  /\ platform = "uikit" => watched = Sole(native)
  /\ platform = "uikit" /\ ~wrapped_gone =>
       refs = [n \in Natives |-> IF n = native THEN 1 ELSE 0]
  /\ platform = "cocoa" => watched = Sole(native) \cap Views

(* Drawing happens with the mutex locked and the application in front,      *)
(* unless its state changed just before acquire() returned.                 *)
DrawsInFront == (gate = "drawing" /\ ~slipped) => mtx_ = "render" /\ gfx_allowed_

(* The application learns that drawing has stopped: the callback of a       *)
(* notification returns, whatever the rendering thread does - unless it     *)
(* unlocked what it had not locked, or the surface is deleted.              *)
NotificationReturns ==
  (notified # "none") ~> (notified = "none" \/ wrapped_gone \/ (gate = "drawing" /\ slipped))
=============================================================================
