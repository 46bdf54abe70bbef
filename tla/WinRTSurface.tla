---------------------------- MODULE WinRTSurface -----------------------------
(****************************************************************************)
(* WinRTSurface.cpp and UIRun.cpp: a surface listens to the size of the     *)
(* object it is attached to: a core window, a XAML panel or a WinUI panel.  *)
(* The handler keeps a plain pointer to the surface, so the destructor has  *)
(* to take it back first.  On a panel both are done on the UI thread:       *)
(* another thread posts a task there and waits for it.                      *)
(*                                                                          *)
(* As() and Lookup() release the smart pointer they fill, so an object that *)
(* is asked for and not found leaves a null one; one that is not asked for  *)
(* stays.                                                                   *)
(****************************************************************************)
EXTENDS Naturals

CONSTANTS Cores,       \* core windows
          Panels,      \* XAML swap chain panels
          WinUIPanels, \* WinUI swap chain panels
          Others,      \* property sets without a window
          NoObject,
          MaxAttach    \* bound: calls of resetNativeHandle()

Objects == Cores \cup Panels \cup WinUIPanels \cup Others
ASSUME ObjectAssumption ==
  NoObject \notin Objects /\ Cores \cap (Panels \cup WinUIPanels) = {} /\ MaxAttach \in Nat

VARIABLES
  inspectable_, winrt_win_, panel_, winui_panel_,  \* what the surface holds
  token,         \* of the last registration, 0 when there is none
  handlers,      \* the registrations <<object, token>>
  attach,        \* the call of resetNativeHandle() or of the destructor
  ui_task,       \* what was posted to the UI thread
  ui,            \* the UI thread: "free", "handling" an event, "waiting" for the loop,
                 \* "stuck" in a task, or "down", with no dispatcher any more
  winrt_freed,   \* the surface is deleted
  lapses,        \* what went wrong: "crossed" is a panel attached after a core window,
                 \* "unposted" a handler that no task takes back, "remote" one of a
                 \* core window that another thread took back
  attaches       \* calls so far, which also numbers the tokens

winrtVars == <<inspectable_, winrt_win_, panel_, winui_panel_, token, handlers, attach,
               ui_task, ui, winrt_freed, lapses, attaches>>
held == <<inspectable_, winrt_win_, panel_, winui_panel_>>

NoCall == [at |-> "idle", by |-> "ui", to |-> NoObject, dying |-> FALSE]

WinRTInit ==
  /\ inspectable_ = NoObject /\ winrt_win_ = NoObject
  /\ panel_ = NoObject /\ winui_panel_ = NoObject
  /\ token = 0 /\ handlers = {} /\ attach = NoCall /\ ui_task = "none" /\ ui = "free"
  /\ winrt_freed = FALSE /\ lapses = {} /\ attaches = 0

IsPanel(o) == o \in Panels \cup WinUIPanels

(* The UI thread is in its dispatcher; it can go on with a call of its own. *)
UIFree == ui = "free" /\ (attach.by = "ui" => attach.at = "idle")
MayRun == attach.by = "ui" => ui = "free"

-----------------------------------------------------------------------------
(* resetNativeHandle() and the destructor, on the UI thread or another one. *)
Attach(by, o) ==
  /\ attach.at = "idle" /\ ~winrt_freed /\ attaches < MaxAttach
  /\ by = "ui" => ui = "free"
  /\ o # inspectable_
  /\ attach' = [at |-> IF inspectable_ = NoObject THEN "attach" ELSE "unregister",
                by |-> by, to |-> o, dying |-> FALSE]
  /\ attaches' = attaches + 1
  /\ lapses' = lapses \cup (IF IsPanel(o) /\ winrt_win_ # NoObject THEN {"crossed"} ELSE {})
  /\ UNCHANGED <<held, token, handlers, ui_task, ui, winrt_freed>>

BeginDelete(by) ==
  /\ attach.at = "idle" /\ ~winrt_freed
  /\ by = "ui" => ui = "free"
  /\ attach' = [at |-> "unregister", by |-> by, to |-> NoObject, dying |-> TRUE]
  /\ UNCHANGED <<held, token, handlers, ui_task, ui, winrt_freed, lapses, attaches>>

-----------------------------------------------------------------------------
(* RunOnUIThread(): the task runs at once on the UI thread, is posted and   *)
(* waited for, or is given up, on either thread, when a call fails.  Each   *)
(* MS_CHECK() spins for ever while the last error of the thread looks like  *)
(* a failed HRESULT (UIRun.h:32).  Two bugs: the thread is never found to   *)
(* be the UI thread, or the task is not waited for.                         *)
HasThreadAccess_Never == FALSE

HasThreadAccess == attach.by = "ui"

Wait_Not(next) == next

Wait(next) == "wait"

Goes(next) == attach' = [attach EXCEPT !.at = next] /\ UNCHANGED ui_task

Posts(task, next) == /\ ~HasThreadAccess
                     /\ ui_task' = task
                     /\ attach' = [attach EXCEPT !.at = Wait(next)]

(* The object whose size is observed on the UI thread.                      *)
Observed == IF panel_ # NoObject THEN panel_ ELSE winui_panel_

(* unregisterSizeChange(): with a core window the token is spent on it, and *)
(* what a panel is then given is 0.                                         *)
Unregister ==
  LET spent == token # 0 /\ winrt_win_ # NoObject
      left  == IF spent THEN 0 ELSE token
      rest  == handlers \ (IF spent THEN {<<winrt_win_, token>>} ELSE {})
      task  == token # 0 /\ Observed # NoObject
      far   == IF spent /\ ~HasThreadAccess THEN {"remote"} ELSE {} IN
  /\ attach.at = "unregister" /\ MayRun
  /\ \/ /\ task => HasThreadAccess
        /\ token' = IF task THEN 0 ELSE left
        /\ handlers' = rest \ (IF task THEN {<<Observed, left>>} ELSE {})
        /\ lapses' = lapses \cup far
        /\ Goes("attach")
     \/ /\ task
        /\ token' = left /\ handlers' = rest
        /\ \/ (Posts("remove", "attach") \/ Goes("stuck")) /\ lapses' = lapses \cup far
           \/ Goes("attach") /\ lapses' = lapses \cup far \cup {"unposted"}
  /\ UNCHANGED <<held, ui, winrt_freed, attaches>>

(* registerSizeChange(): the queries of the three kinds of object in turn.  *)
(* The handler of a core window is added by whichever thread it is.         *)
Hold(o) ==
  /\ inspectable_' = o
  /\ IF o = NoObject THEN UNCHANGED <<winrt_win_, panel_, winui_panel_>>
     ELSE /\ panel_' = IF o \in Panels THEN o ELSE NoObject
          /\ winui_panel_' = IF o \in WinUIPanels THEN o
                             ELSE IF o \in Panels THEN winui_panel_ ELSE NoObject
          /\ winrt_win_' = IF o \in Cores THEN o ELSE winrt_win_

Register ==
  LET o == attach.to
      target == IF IsPanel(o) THEN o ELSE IF o = NoObject THEN NoObject ELSE winrt_win_' IN
  /\ attach.at = "attach" /\ ~attach.dying /\ MayRun
  /\ Hold(o)
  /\ \/ /\ target # NoObject /\ (IsPanel(o) => HasThreadAccess)
        /\ token' = attaches /\ handlers' = handlers \cup {<<target, attaches>>}
        /\ Goes("idle")
     \/ /\ UNCHANGED <<token, handlers>>
        /\ \/ Goes("idle")
           \/ target # NoObject /\ Goes("stuck")
           \/ IsPanel(o) /\ Posts("add", "idle")
  /\ UNCHANGED <<ui, winrt_freed, lapses, attaches>>

Deleted ==
  /\ attach.at = "attach" /\ attach.dying /\ MayRun
  /\ winrt_freed' = TRUE
  /\ attach' = NoCall
  /\ UNCHANGED <<held, token, handlers, ui_task, ui, lapses, attaches>>

-----------------------------------------------------------------------------
(* The UI thread: a posted task, then the promise the caller waits for.     *)
RunTask ==
  /\ ui_task # "none" /\ UIFree
  /\ \/ ui_task = "add" /\ token' = attaches /\ handlers' = handlers \cup {<<Observed, attaches>>}
     \/ ui_task = "add" /\ UNCHANGED <<token, handlers>>
     \/ ui_task = "remove" /\ token' = 0 /\ handlers' = handlers \ {<<Observed, token>>}
  /\ ui_task' = "none"
  /\ attach' = IF attach.at # "wait" THEN attach
               ELSE [attach EXCEPT !.at = IF ui_task = "add" THEN "idle" ELSE "attach"]
  /\ UNCHANGED <<held, ui, winrt_freed, lapses, attaches>>

(* MS_ENSURE() around add_SizeChanged() spins; the dispatcher shuts down    *)
(* with the tasks that it has accepted.                                     *)
UIStops ==
  /\ UIFree
  /\ ui' \in {"down"} \cup (IF ui_task = "add" THEN {"stuck"} ELSE {})
  /\ UNCHANGED <<held, token, handlers, attach, ui_task, winrt_freed, lapses, attaches>>

(* The size of an object changes: Invoke() is a handler's, resize() the     *)
(* surface's.                                                               *)
Invoke ==
  /\ UIFree /\ handlers # {}
  /\ ui' = "handling"
  /\ UNCHANGED <<held, token, handlers, attach, ui_task, winrt_freed, lapses, attaches>>

InvokeReturns ==
  /\ ui = "handling"
  /\ ui' = "free"
  /\ UNCHANGED <<held, token, handlers, attach, ui_task, winrt_freed, lapses, attaches>>

(* The application calls waitForStopped() on the UI thread, which returns   *)
(* when the rendering thread has deleted the surface.                       *)
WaitForLoop ==
  /\ UIFree /\ ~winrt_freed
  /\ ui' = "waiting"
  /\ UNCHANGED <<held, token, handlers, attach, ui_task, winrt_freed, lapses, attaches>>

LoopStopped ==
  /\ ui = "waiting" /\ winrt_freed
  /\ ui' = "free"
  /\ UNCHANGED <<held, token, handlers, attach, ui_task, winrt_freed, lapses, attaches>>

Step == Unregister \/ Register \/ Deleted

WinRTNext ==
  \/ \E by \in {"ui", "other"} :
       BeginDelete(by) \/ \E o \in Objects \cup {NoObject} : Attach(by, o)
  \/ Step \/ RunTask \/ Invoke \/ InvokeReturns \/ WaitForLoop \/ LoopStopped
  \/ UIStops

WinRTSpec == WinRTInit /\ [][WinRTNext]_winrtVars

(* Handlers return, threads go on, and the queue of the dispatcher gets to  *)
(* every task, however many events are handled before.                      *)
WinRTFairSpec == WinRTSpec /\ WF_winrtVars(Step) /\ SF_winrtVars(RunTask)
                           /\ WF_winrtVars(InvokeReturns)

-----------------------------------------------------------------------------
(* What a surface listens to, where it does.                                *)
Source == IF winrt_win_ # NoObject THEN winrt_win_ ELSE Observed

(* After any sequence of core windows, panels and other objects there is    *)
(* one handler at most, where the token says, and none that could still be  *)
(* called when the surface is deleted - unless a panel came after a core    *)
(* window, whose win_ is never reset, or a task to take a handler back      *)
(* could not be posted; nor is one being called then, unless another thread *)
(* took it back from a core window, which waits for nobody.                 *)
HandlerTakenBack ==
  /\ (lapses \subseteq {"remote"}) =>
       /\ winrt_freed => handlers = {} /\ ui_task = "none"
       /\ attach.at = "idle" => handlers \subseteq {<<Source, token>>}
  /\ (lapses = {} /\ winrt_freed) => ui # "handling"

(* A call returns, unless it has to wait for a UI thread that waits for the *)
(* render loop or whose dispatcher is gone, or MS_CHECK() spins.            *)
CallReturns ==
  attach.at # "idle" ~> (attach.at \in {"idle", "stuck"} \/ ui \in {"waiting", "down", "stuck"})
=============================================================================
