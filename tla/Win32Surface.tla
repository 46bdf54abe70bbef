---------------------------- MODULE Win32Surface -----------------------------
(****************************************************************************)
(* Win32Surface.cpp: one surface and its windows.  An internal surface has  *)
(* a window of its own; resetNativeHandle() attaches the windows of the     *)
(* application, whose window procedure it replaces.  Messages are           *)
(* dispatched by the thread that owns the windows: in waitForStopped(),     *)
(* which holds RenderLoop::Private::mtx, or in the application's own event  *)
(* loop, which does not.  The rendering thread deletes the surface, with    *)
(* the same mutex, once it has popped a Close event.                        *)
(****************************************************************************)
EXTENDS Naturals, Sequences

CONSTANTS Own,         \* the window of an internal surface
          Foreign,     \* windows of the application
          NoHwnd,
          MaxMessages, \* bound: messages posted
          MaxResets    \* bound: calls of resetNativeHandle()

ASSUME WindowAssumption == Own \notin Foreign /\ NoHwnd \notin Foreign \cup {Own}
ASSUME Win32BoundAssumption == MaxMessages \in Nat /\ MaxResets \in Nat

VARIABLES
  windows,     \* the windows that exist
  proc,        \* proc[w]: whose window procedure w has, "ours" or "theirs"
  userdata,    \* the windows whose GWLP_USERDATA is the surface
  hwnd,        \* nativeHandle()
  win_,        \* the internal window, or NoHwnd
  orig_proc_,  \* "none", "theirs" or "ours"
  posted,      \* messages posted and not dispatched
  in_proc,     \* the message the owner thread is dispatching
  kept,        \* the surface can not be deleted: mtx, or a shared_ptr, is held
  announced,   \* PlatformSurface::close() was called
  freed,       \* the surface is deleted
  attached,    \* the foreign windows in the order they were attached
  app_loop,    \* the owner thread also runs an event loop of the application
  w32fault,    \* the undefined behaviour it ran into
  quota        \* what remains of MaxMessages and MaxResets

w32Vars == <<windows, proc, userdata, hwnd, win_, orig_proc_, posted, in_proc, kept,
             announced, freed, attached, app_loop, w32fault, quota>>

Hwnds == Foreign \cup {Own}
Message == [w : Hwnds, m : {"close", "size", "destroy"}]
NotInProc == [at |-> "none", w |-> NoHwnd, m |-> "size"]

(* The constructor.  Given a handle it only sets the callback and leaves    *)
(* the rest to resetNativeHandle().                                         *)
Win32Init ==
  /\ \/ win_ = Own /\ windows = Hwnds
     \/ win_ = NoHwnd /\ windows = Foreign
  /\ hwnd = win_
  /\ proc = [w \in Hwnds |-> IF w = Own THEN "ours" ELSE "theirs"]
  /\ userdata = windows \cap {Own}
  /\ orig_proc_ = "none" /\ posted = {} /\ in_proc = NotInProc
  /\ kept = FALSE /\ announced = FALSE /\ freed = FALSE /\ attached = <<>>
  /\ app_loop \in BOOLEAN /\ w32fault = "none"
  /\ quota = [messages |-> MaxMessages, resets |-> MaxResets]

hooks == <<proc, userdata, hwnd, orig_proc_, attached, app_loop>>

Idle == in_proc = NotInProc /\ w32fault = "none"

-----------------------------------------------------------------------------
(* The callback of resetNativeHandle(), on the owner thread.  The window    *)
(* that is left keeps its hook.                                             *)
ResetHwnd(h) ==
  /\ Idle /\ ~freed /\ quota.resets > 0 /\ h # hwnd
  /\ h \in windows \cup {NoHwnd}
  /\ hwnd' = h
  /\ IF h \in Foreign
       THEN /\ orig_proc_' = proc[h]
            /\ proc' = [proc EXCEPT ![h] = "ours"]
            /\ attached' = Append(attached, h)
       ELSE UNCHANGED <<orig_proc_, proc, attached>>
  /\ userdata' = userdata \cup ({h} \ {NoHwnd})
  /\ quota' = [quota EXCEPT !.resets = @ - 1]
  /\ UNCHANGED <<windows, win_, posted, in_proc, kept, announced, freed, app_loop, w32fault>>

Post(w, m) ==
  /\ w \in windows /\ quota.messages > 0
  /\ posted' = posted \cup {[w |-> w, m |-> m]}
  /\ quota' = [quota EXCEPT !.messages = @ - 1]
  /\ UNCHANGED <<windows, hooks, win_, in_proc, kept, announced, freed, w32fault>>

-----------------------------------------------------------------------------
(* processEvents() under the mutex of the loop.                             *)
PumpEnter ==
  /\ Idle /\ ~kept /\ ~freed
  /\ kept' = TRUE
  /\ UNCHANGED <<windows, hooks, win_, posted, in_proc, announced, freed, w32fault, quota>>

PumpLeave ==
  /\ Idle /\ kept
  /\ kept' = FALSE
  /\ UNCHANGED <<windows, hooks, win_, posted, in_proc, announced, freed, w32fault, quota>>

(* A bug: the messages of the internal window too are dispatched without    *)
(* the mutex.                                                               *)
MayDispatch_Unlocked(w) == TRUE

(* PeekMessageW() takes the messages of every window of the thread, and so  *)
(* does an event loop of the application, which knows of no mutex.          *)
MayDispatch(w) == kept \/ app_loop

(* WinProc() reads the surface from the window.                             *)
DispatchMessage ==
  /\ Idle
  /\ \E p \in posted :
       /\ MayDispatch(p.w)
       /\ posted' = posted \ {p}
       /\ in_proc' = IF p.w \in windows /\ proc[p.w] = "ours" /\ p.w \in userdata
                       THEN [at |-> "event", w |-> p.w, m |-> p.m] ELSE NotInProc
  /\ UNCHANGED <<windows, hooks, win_, kept, announced, freed, w32fault, quota>>

(* processEvent(): nothing without a handle.                                *)
ProcessEvent ==
  /\ in_proc.at = "event"
  /\ IF freed THEN w32fault' = "deleted" /\ UNCHANGED <<announced, in_proc>>
     ELSE /\ announced' = (announced \/ (hwnd # NoHwnd /\ in_proc.m \in {"close", "destroy"}))
          /\ in_proc' = [in_proc EXCEPT !.at = "default"]
          /\ UNCHANGED w32fault
  /\ UNCHANGED <<windows, hooks, win_, posted, kept, freed, quota>>

(* Then the original procedure, which the surface still knows, or           *)
(* DefWindowProcW(): WM_CLOSE destroys the window, which sends WM_DESTROY;  *)
(* the application's procedure may decide otherwise.                        *)
DefaultProc ==
  /\ in_proc.at = "default"
  /\ \/ /\ freed \/ orig_proc_ = "ours"
        /\ w32fault' = IF freed THEN "deleted" ELSE "recursion"
        /\ UNCHANGED <<windows, in_proc, kept>>
     \/ /\ ~freed /\ orig_proc_ # "ours" /\ in_proc.m = "close"
        /\ in_proc' \in {[in_proc EXCEPT !.at = "event", !.m = "destroy"]}
                        \cup (IF orig_proc_ = "theirs" THEN {NotInProc} ELSE {})
        /\ UNCHANGED <<windows, w32fault, kept>>
     \/ /\ ~freed /\ orig_proc_ # "ours" /\ in_proc.m # "close"
        /\ windows' = IF in_proc.m = "destroy" THEN windows \ {in_proc.w} ELSE windows
        /\ in_proc' = NotInProc
        /\ UNCHANGED <<w32fault, kept>>
  /\ UNCHANGED <<hooks, win_, posted, announced, freed, quota>>

(* close() on the owner thread, which holds a shared_ptr; DestroyWindow()   *)
(* fails on any other one, and nothing happens.                             *)
CloseHwnd ==
  /\ Idle /\ ~freed /\ hwnd \in windows /\ hwnd \in userdata
  /\ kept' = TRUE
  /\ in_proc' = [at |-> "event", w |-> hwnd, m |-> "destroy"]
  /\ UNCHANGED <<windows, hooks, win_, posted, announced, freed, w32fault, quota>>

(* The destructor, on the rendering thread: it can not destroy a window of  *)
(* another thread.                                                          *)
Unhooked == IF hwnd # NoHwnd /\ orig_proc_ # "none"
              THEN [proc EXCEPT ![hwnd] = orig_proc_] ELSE proc

DeleteSurface ==
  /\ announced /\ ~freed /\ ~kept
  /\ freed' = TRUE
  /\ proc' = Unhooked
  /\ UNCHANGED <<windows, userdata, hwnd, win_, orig_proc_, posted, in_proc, kept, announced,
                 attached, app_loop, w32fault, quota>>

Win32Next ==
  \/ \E h \in Hwnds \cup {NoHwnd} : ResetHwnd(h)
  \/ \E w \in Hwnds, m \in {"close", "size"} : Post(w, m)
  \/ PumpEnter \/ PumpLeave \/ DispatchMessage \/ ProcessEvent \/ DefaultProc
  \/ CloseHwnd \/ DeleteSurface

Win32Spec == Win32Init /\ [][Win32Next]_w32Vars

-----------------------------------------------------------------------------
(* An internal surface that is never given another window is safe where     *)
(* waitForStopped() is the only event loop of its thread: no message        *)
(* reaches it once the rendering thread has deleted it.                     *)
OwnWindowSafe == (win_ = Own /\ attached = <<>> /\ ~app_loop) => w32fault = "none"
=============================================================================
