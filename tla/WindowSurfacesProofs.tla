------------------------- MODULE WindowSurfacesProofs ------------------------
(****************************************************************************)
(* The surfaces of Windows, of WinRT, of the systems whose windows are      *)
(* wrapped and of Wayland, for any number of windows, panels, messages,     *)
(* resets, threads that dispatch and events: what a surface has registered  *)
(* with its window it takes back, nothing reaches it once it is deleted,    *)
(* and on a compositor that announces its globals in the usual order a      *)
(* Wayland surface is constructed, used and closed without a fault.         *)
(****************************************************************************)
EXTENDS Win32Surface, WinRTSurface, WrappedSurface, WaylandSurface, TLAPS

(* Win32Surface with its own window only: what reaches WinProc() is         *)
(* dispatched by a thread that keeps the surface from being deleted.        *)
OwnWindowOK ==
  /\ hwnd \in {Own, NoHwnd} /\ orig_proc_ = "none"
  /\ \A w \in Foreign : proc[w] = "theirs"
  /\ in_proc.at # "none" => kept
  /\ freed => ~kept
  /\ w32fault = "none"

Win32Inv ==
  /\ windows \subseteq Hwnds
  /\ hwnd \in Hwnds \cup {NoHwnd}
  /\ proc \in [Hwnds -> {"ours", "theirs"}]
  /\ orig_proc_ \in {"none", "ours", "theirs"}
  /\ in_proc \in [at : {"none", "event", "default"}, w : Hwnds \cup {NoHwnd},
                  m : {"close", "size", "destroy"}]
  /\ posted \subseteq Message
  /\ attached \in Seq(Foreign)
  /\ (win_ = Own /\ attached = <<>> /\ ~app_loop) => OwnWindowOK

(* WinRTSurface until a panel crosses a core window or a task is not        *)
(* posted: what a call is about to do finds the handler where the token and *)
(* win_ and the panels say it is.                                           *)
CalmOK ==
  /\ winrt_win_ # NoObject => Observed = NoObject /\ ~IsPanel(attach.to)
  /\ ui_task \in {"none", "add", "remove"}
  /\ ui_task # "none" <=> attach.at = "wait"
  /\ ui_task # "none" => Observed # NoObject
  /\ handlers # {} => /\ handlers = {<<Source, token>>} /\ token # 0
                      /\ Source # NoObject /\ inspectable_ # NoObject
  /\ handlers = {} => "remote" \in lapses \/ ui # "handling"
  /\ attach.at = "attach" => handlers = {}
  /\ ui_task = "add" => handlers = {} /\ attaches > 0 /\ inspectable_ # NoObject
  /\ (attach.at # "idle" /\ ~attach.dying) => attaches > 0
  /\ winrt_freed => handlers = {} /\ attach.at = "idle"

Calm == "crossed" \notin lapses /\ "unposted" \notin lapses

WinRTInv ==
  /\ attaches \in Nat
  /\ attach \in [at : {"idle", "unregister", "attach", "wait", "stuck"}, by : {"ui", "other"},
                 to : Objects \cup {NoObject}, dying : BOOLEAN]
  /\ lapses \subseteq {"crossed", "unposted", "remote"}
  /\ Calm => CalmOK

(* WrappedSurface: until the state of the application changes under it,     *)
(* acquire() returns with the mutex exactly when drawing is allowed.        *)
GateOK ==
  /\ gate = "test" => mtx_ = "render"
  /\ (gate = "return" /\ ~slipped) => mtx_ = IF gfx_allowed_ THEN "render" ELSE "free"
  /\ DrawsInFront

WrappedInv ==
  /\ platform \in {"android", "uikit", "cocoa"}
  /\ native \in Natives \cup {NoNative}
  /\ OneReference
  /\ GateOK

-----------------------------------------------------------------------------
(* The windows of the application have their own procedures at first.       *)
LEMMA InitWin32 == Win32Init => Win32Inv
BY WindowAssumption DEF Win32Init, Win32Inv, OwnWindowOK, Hwnds, Message, NotInProc

(* Attaching a window of the application, which ends what is said of a      *)
(* surface with its own window only.                                        *)
LEMMA ResetHwndKeeps ==
  ASSUME Win32Inv, NEW h \in Hwnds \cup {NoHwnd}, ResetHwnd(h)
  PROVE  Win32Inv'
<1> USE WindowAssumption DEF Win32Inv
<1>1. CASE h \in Foreign
  <2>1. attached' = Append(attached, h) /\ proc' = [proc EXCEPT ![h] = "ours"]
    BY <1>1 DEF ResetHwnd
  <2>2. attached' \in Seq(Foreign) /\ attached' # <<>>
    BY <1>1, <2>1
  <2>3. proc' \in [Hwnds -> {"ours", "theirs"}] /\ orig_proc_' \in {"ours", "theirs"}
    BY <1>1, <2>1 DEF ResetHwnd, Hwnds
  <2> QED
    BY <2>2, <2>3 DEF ResetHwnd, Message, Hwnds
<1>2. CASE h \notin Foreign
  <2>1. h \in {Own, NoHwnd}
    BY <1>2 DEF Hwnds
  <2> QED
    BY <1>2, <2>1 DEF ResetHwnd, OwnWindowOK, Message, Hwnds
<1> QED
  BY <1>1, <1>2

(* Messages, the thread that pumps, and close() on it: only the thread that *)
(* keeps the surface dispatches to a window that is the surface's own.      *)
LEMMA OwnerKeeps ==
  ASSUME Win32Inv,
         \/ \E w \in Hwnds, m \in {"close", "size"} : Post(w, m)
         \/ PumpEnter \/ PumpLeave \/ DispatchMessage \/ CloseHwnd
  PROVE  Win32Inv'
<1> USE WindowAssumption DEF Win32Inv, hooks
<1>1. CASE \E w \in Hwnds, m \in {"close", "size"} : Post(w, m)
  BY <1>1 DEF Post, Message, OwnWindowOK
<1>2. CASE PumpEnter
  BY <1>2 DEF PumpEnter, Message, OwnWindowOK
<1>3. CASE PumpLeave
  BY <1>3 DEF PumpLeave, Idle, NotInProc, Message, OwnWindowOK
<1>4. CASE DispatchMessage
  <2>1. PICK p \in posted :
          /\ MayDispatch(p.w)
          /\ posted' = posted \ {p}
          /\ in_proc' = IF p.w \in windows /\ proc[p.w] = "ours" /\ p.w \in userdata
                          THEN [at |-> "event", w |-> p.w, m |-> p.m] ELSE NotInProc
    BY <1>4 DEF DispatchMessage
  <2>2. p.w \in Hwnds /\ p.m \in {"close", "size", "destroy"}
    BY DEF Message
  <2>3. in_proc' \in [at : {"none", "event", "default"}, w : Hwnds \cup {NoHwnd},
                      m : {"close", "size", "destroy"}]
    BY <2>1, <2>2 DEF NotInProc
  <2>4. ~app_loop /\ in_proc'.at # "none" => kept
    BY <2>1 DEF NotInProc, MayDispatch
  <2> QED
    BY <1>4, <2>1, <2>3, <2>4 DEF DispatchMessage, OwnWindowOK, Message
<1>5. CASE CloseHwnd
  BY <1>5 DEF CloseHwnd, OwnWindowOK, Message
<1> QED
  BY <1>1, <1>2, <1>3, <1>4, <1>5

(* What WinProc() does with a message finds the surface and its original    *)
(* procedure, and the destructor waits for it.                              *)
LEMMA WinProcKeeps ==
  ASSUME Win32Inv, ProcessEvent \/ DefaultProc \/ DeleteSurface
  PROVE  Win32Inv'
<1> USE WindowAssumption DEF Win32Inv, hooks
<1>1. CASE ProcessEvent
  <2>1. OwnWindowOK => ~freed
    BY <1>1 DEF ProcessEvent, OwnWindowOK
  <2> QED
    BY <1>1, <2>1 DEF ProcessEvent, OwnWindowOK, Message
<1>2. CASE DefaultProc
  <2>1. OwnWindowOK => ~freed /\ orig_proc_ # "ours" /\ kept
    BY <1>2 DEF DefaultProc, OwnWindowOK
  <2>2. in_proc' \in [at : {"none", "event", "default"}, w : Hwnds \cup {NoHwnd},
                      m : {"close", "size", "destroy"}]
    <3>1. in_proc' \in {in_proc, [in_proc EXCEPT !.at = "event", !.m = "destroy"], NotInProc}
      BY <1>2 DEF DefaultProc
    <3>2. NotInProc \in [at : {"none", "event", "default"}, w : Hwnds \cup {NoHwnd},
                         m : {"close", "size", "destroy"}]
      BY DEF NotInProc
    <3>3. [in_proc EXCEPT !.at = "event", !.m = "destroy"]
            \in [at : {"none", "event", "default"}, w : Hwnds \cup {NoHwnd},
                 m : {"close", "size", "destroy"}]
      OBVIOUS
    <3> QED
      BY <3>1, <3>2, <3>3
  <2>3. windows' \subseteq Hwnds
    BY <1>2 DEF DefaultProc
  <2> QED
    BY <1>2, <2>1, <2>2, <2>3 DEF DefaultProc, OwnWindowOK, Message
<1>3. CASE DeleteSurface
  <2>1. OwnWindowOK => Unhooked = proc
    BY DEF Unhooked, OwnWindowOK
  <2>2. Unhooked \in [Hwnds -> {"ours", "theirs"}]
    BY DEF Unhooked
  <2> QED
    BY <1>3, <2>1, <2>2 DEF DeleteSurface, OwnWindowOK, Message
<1> QED
  BY <1>1, <1>2, <1>3

(* Together: every step of Win32Surface keeps its invariant.                *)
LEMMA Win32Invariant == Win32Spec => []Win32Inv
<1>1. Win32Inv /\ [Win32Next]_w32Vars => Win32Inv'
  <2> SUFFICES ASSUME Win32Inv, [Win32Next]_w32Vars
               PROVE  Win32Inv'
    OBVIOUS
  <2>1. CASE \E h \in Hwnds \cup {NoHwnd} : ResetHwnd(h)
    BY <2>1, ResetHwndKeeps
  <2>2. CASE \/ \E w \in Hwnds, m \in {"close", "size"} : Post(w, m)
             \/ PumpEnter \/ PumpLeave \/ DispatchMessage \/ CloseHwnd
    BY <2>2, OwnerKeeps
  <2>3. CASE ProcessEvent \/ DefaultProc \/ DeleteSurface
    BY <2>3, WinProcKeeps
  <2>4. CASE UNCHANGED w32Vars
    BY <2>4 DEF w32Vars, Win32Inv, OwnWindowOK, Message
  <2> QED
    BY <2>1, <2>2, <2>3, <2>4 DEF Win32Next
<1> QED
  BY <1>1, InitWin32, PTL DEF Win32Spec

(* A surface with a window of its own that is never given another one, on a *)
(* thread whose only event loop is waitForStopped(): no message reaches it  *)
(* once the rendering thread has deleted it, and its window procedure never *)
(* calls itself (Win32Surface.cpp, WinProc() and the destructor).           *)
THEOREM OwnWindowIsSafe == Win32Spec => []OwnWindowSafe
<1>1. Win32Inv => OwnWindowSafe
  BY DEF Win32Inv, OwnWindowOK, OwnWindowSafe
<1> QED
  BY <1>1, Win32Invariant, PTL

-----------------------------------------------------------------------------
(* Nothing is registered before the first call.                             *)
LEMMA InitWinRT == WinRTInit => WinRTInv
BY ObjectAssumption DEF WinRTInit, WinRTInv, CalmOK, NoCall, Observed, Objects, IsPanel

(* A call begins: it unregisters first when something is attached.          *)
LEMMA CallKeeps ==
  ASSUME WinRTInv, NEW by \in {"ui", "other"},
         BeginDelete(by) \/ \E o \in Objects \cup {NoObject} : Attach(by, o)
  PROVE  WinRTInv'
<1> USE ObjectAssumption DEF WinRTInv, Calm, CalmOK, held, Observed, Source, IsPanel
<1>1. CASE BeginDelete(by)
  <2>1. attach' = [at |-> "unregister", by |-> by, to |-> NoObject, dying |-> TRUE]
    BY <1>1 DEF BeginDelete
  <2>2. ~IsPanel(NoObject)
    BY DEF Objects
  <2> QED
    BY <1>1, <2>1, <2>2 DEF BeginDelete
<1>2. CASE \E o \in Objects \cup {NoObject} : Attach(by, o)
  <2>1. PICK o \in Objects \cup {NoObject} : Attach(by, o)
    BY <1>2
  <2>2. attach' = [at |-> IF inspectable_ = NoObject THEN "attach" ELSE "unregister",
                   by |-> by, to |-> o, dying |-> FALSE]
    BY <2>1 DEF Attach
  <2>3. attaches' \in Nat /\ attaches' > 0
    BY <2>1 DEF Attach
  <2>4. lapses' = lapses \cup (IF IsPanel(o) /\ winrt_win_ # NoObject THEN {"crossed"} ELSE {})
    BY <2>1 DEF Attach
  <2> QED
    BY <2>1, <2>2, <2>3, <2>4 DEF Attach
<1> QED
  BY <1>1, <1>2

(* unregisterSizeChange(): the handler of a core window at once, that of a  *)
(* panel on the UI thread or by a task.                                     *)
LEMMA UnregisterKeeps ==
  ASSUME WinRTInv, Unregister
  PROVE  WinRTInv'
<1> USE ObjectAssumption DEF WinRTInv, held, Goes, Posts, Wait, HasThreadAccess
<1> DEFINE spent == token # 0 /\ winrt_win_ # NoObject
           left  == IF spent THEN 0 ELSE token
           rest  == handlers \ (IF spent THEN {<<winrt_win_, token>>} ELSE {})
           task  == token # 0 /\ Observed # NoObject
           far   == IF spent /\ ~HasThreadAccess THEN {"remote"} ELSE {}
<1>1. attach.at = "unregister" /\ MayRun
      /\ UNCHANGED <<inspectable_, winrt_win_, panel_, winui_panel_, ui, winrt_freed, attaches>>
  BY DEF Unregister
<1>2. \/ /\ task => HasThreadAccess
         /\ token' = IF task THEN 0 ELSE left
         /\ handlers' = rest \ (IF task THEN {<<Observed, left>>} ELSE {})
         /\ lapses' = lapses \cup far
         /\ Goes("attach")
      \/ /\ task
         /\ token' = left /\ handlers' = rest
         /\ \/ (Posts("remove", "attach") \/ Goes("stuck")) /\ lapses' = lapses \cup far
            \/ Goes("attach") /\ lapses' = lapses \cup far \cup {"unposted"}
  BY DEF Unregister
<1> HIDE DEF left, rest, task
<1>3. attach' \in [at : {"idle", "unregister", "attach", "wait", "stuck"}, by : {"ui", "other"},
                   to : Objects \cup {NoObject}, dying : BOOLEAN]
      /\ lapses' \subseteq {"crossed", "unposted", "remote"}
      /\ attach'.to = attach.to /\ attach'.dying = attach.dying
  BY <1>2
<1>4. ASSUME Calm' PROVE CalmOK'
  <2>1. Calm /\ CalmOK /\ ui_task = "none" /\ ~winrt_freed
    BY <1>1, <1>2, <1>4 DEF Calm, CalmOK
  <2>2. Observed' = Observed /\ Source' = Source
    BY <1>1 DEF Observed, Source
  <2>3. handlers # {} => handlers = {<<Source, token>>} /\ token # 0 /\ Source # NoObject
    BY <2>1 DEF CalmOK
  <2>4. attach.by = "ui" => ui = "free"
    BY <1>1 DEF MayRun
  <2>5. CASE task /\ winrt_win_ = NoObject
    <3>1. left = token /\ rest = handlers /\ far = {} /\ Observed # NoObject
      BY <2>5 DEF left, rest, task
    <3>2. Source = Observed
      BY <2>5 DEF Source
    <3>3. CASE Goes("attach") /\ HasThreadAccess /\ handlers' = handlers \ {<<Observed, token>>}
      <4>1. handlers' = {}
        BY <2>3, <3>2, <3>3
      <4>2. ui' # "handling"
        BY <1>1, <2>4, <3>3
      <4> QED
        BY <1>1, <1>3, <2>1, <2>2, <2>5, <3>3, <4>1, <4>2 DEF CalmOK
    <3>4. CASE Posts("remove", "attach") /\ handlers' = handlers /\ token' = token
               /\ lapses' = lapses
      BY <1>1, <1>3, <2>1, <2>2, <2>5, <3>1, <3>4 DEF CalmOK
    <3>5. CASE Goes("stuck") /\ handlers' = handlers /\ token' = token /\ lapses' = lapses
      BY <1>1, <1>3, <2>1, <2>2, <2>5, <3>1, <3>5 DEF CalmOK
    <3> QED
      BY <1>2, <1>4, <2>5, <3>1, <3>3, <3>4, <3>5 DEF Calm
  <2>6. CASE ~(task /\ winrt_win_ = NoObject)
    <3>1. ~task
      BY <2>1, <2>6 DEF CalmOK, task
    <3>2. Goes("attach") /\ handlers' = rest /\ lapses' = lapses \cup far
      BY <1>2, <3>1
    <3>3. handlers' = {}
      <4>1. CASE handlers = {}
        BY <3>2, <4>1 DEF rest
      <4>2. CASE handlers # {}
        <5>1. handlers = {<<Source, token>>} /\ token # 0 /\ Source # NoObject
          BY <2>3, <4>2
        <5>2. Observed = NoObject
          BY <3>1, <5>1 DEF task
        <5>3. Source = winrt_win_ /\ winrt_win_ # NoObject
          BY <5>1, <5>2 DEF Source
        <5> QED
          BY <3>2, <5>1, <5>3 DEF rest
      <4> QED
        BY <4>1, <4>2
    <3>4. "remote" \in lapses' \/ ui # "handling"
      <4>1. CASE handlers = {}
        BY <2>1, <3>2, <4>1 DEF CalmOK
      <4>2. CASE handlers # {} /\ ~HasThreadAccess
        <5>1. spent
          BY <2>3, <3>1, <4>2 DEF task, Source
        <5> QED
          BY <3>2, <4>2, <5>1
      <4>3. CASE HasThreadAccess
        BY <2>4, <4>3
      <4> QED
        BY <4>1, <4>2, <4>3
    <3> QED
      BY <1>1, <1>3, <2>1, <2>2, <3>2, <3>3, <3>4 DEF CalmOK
  <2> QED
    BY <2>5, <2>6
<1> QED
  BY <1>1, <1>3, <1>4

(* registerSizeChange(): the object that is observed is the one asked for,  *)
(* or the core window from before.                                          *)
LEMMA RegisterKeeps ==
  ASSUME WinRTInv, Register
  PROVE  WinRTInv'
<1> USE ObjectAssumption DEF WinRTInv, held, Goes, Posts, Wait
<1> DEFINE o == attach.to
           target == IF IsPanel(o) THEN o ELSE IF o = NoObject THEN NoObject ELSE winrt_win_'
<1>1. attach.at = "attach" /\ ~attach.dying /\ MayRun /\ Hold(o)
      /\ UNCHANGED <<ui, winrt_freed, lapses, attaches>>
  BY DEF Register
<1>2. \/ /\ target # NoObject /\ token' = attaches
         /\ handlers' = handlers \cup {<<target, attaches>>}
         /\ Goes("idle")
      \/ /\ UNCHANGED <<token, handlers>>
         /\ Goes("idle") \/ Goes("stuck") \/ (IsPanel(o) /\ Posts("add", "idle"))
  BY DEF Register
<1> HIDE DEF target
<1>3. attach' \in [at : {"idle", "unregister", "attach", "wait", "stuck"}, by : {"ui", "other"},
                   to : Objects \cup {NoObject}, dying : BOOLEAN]
      /\ attach'.to = o /\ attach'.dying = attach.dying
  BY <1>2
<1>4. ASSUME Calm' PROVE CalmOK'
  <2>1. Calm /\ CalmOK
    BY <1>1, <1>4 DEF Calm
  <2>2. ui_task = "none" /\ handlers = {} /\ attaches > 0 /\ ~winrt_freed
        /\ ("remote" \in lapses \/ ui # "handling")
        /\ (winrt_win_ # NoObject => Observed = NoObject /\ ~IsPanel(o))
    BY <1>1, <2>1 DEF CalmOK
  <2>3. inspectable_' = o
    BY <1>1 DEF Hold
  <2>4. winrt_win_' # NoObject => Observed' = NoObject /\ ~IsPanel(o)
    <3>1. CASE o = NoObject
      BY <1>1, <2>2, <3>1 DEF Hold, Observed
    <3>2. CASE o # NoObject /\ IsPanel(o)
      <4>1. winrt_win_' = NoObject \/ o \in Cores
        BY <1>1, <2>2, <3>2 DEF Hold
      <4>2. o \in Cores => o \notin Panels \cup WinUIPanels
        BY ObjectAssumption
      <4> QED
        BY <3>2, <4>1, <4>2 DEF IsPanel
    <3>3. CASE o # NoObject /\ ~IsPanel(o)
      BY <1>1, <3>3 DEF Hold, Observed, IsPanel
    <3> QED
      BY <3>1, <3>2, <3>3
  <2>5. IsPanel(o) => Observed' = o /\ o # NoObject /\ winrt_win_' = NoObject
    <3>1. IsPanel(o) => o # NoObject
      BY DEF IsPanel, Objects
    <3>2. IsPanel(o) => Observed' = o
      BY <1>1, <3>1 DEF IsPanel, Hold, Observed
    <3> QED
      BY <2>4, <3>1, <3>2
  <2>6. CASE target # NoObject /\ token' = attaches /\ Goes("idle")
             /\ handlers' = handlers \cup {<<target, attaches>>}
    <3>1. target = Source' /\ o # NoObject
      BY <2>4, <2>5, <2>6 DEF target, Source
    <3>2. handlers' = {<<Source', token'>>} /\ token' # 0
      BY <2>2, <2>6, <3>1
    <3> QED
      BY <1>1, <1>3, <2>2, <2>3, <2>4, <2>6, <3>1, <3>2 DEF CalmOK
  <2>7. CASE UNCHANGED <<token, handlers>> /\ (Goes("idle") \/ Goes("stuck"))
    BY <1>1, <1>3, <2>2, <2>3, <2>4, <2>7 DEF CalmOK
  <2>8. CASE UNCHANGED <<token, handlers>> /\ IsPanel(o) /\ Posts("add", "idle")
    BY <1>1, <1>3, <2>2, <2>3, <2>4, <2>5, <2>8 DEF CalmOK
  <2> QED
    BY <1>2, <2>6, <2>7, <2>8
<1> QED
  BY <1>1, <1>3, <1>4

(* The end of the destructor, and the UI thread.                            *)
LEMMA UIThreadKeeps ==
  ASSUME WinRTInv, \/ Deleted \/ RunTask \/ UIStops
                   \/ Invoke \/ InvokeReturns \/ WaitForLoop \/ LoopStopped
  PROVE  WinRTInv'
<1> USE ObjectAssumption DEF WinRTInv, Calm, held
<1>1. CASE Deleted
  <2>1. attach' = NoCall /\ winrt_freed' = TRUE /\ attach.at = "attach"
        /\ UNCHANGED <<inspectable_, winrt_win_, panel_, winui_panel_, token, handlers, ui_task,
                       ui, lapses, attaches>>
    BY <1>1 DEF Deleted
  <2>2. ~IsPanel(NoObject)
    BY DEF IsPanel, Objects
  <2> QED
    BY <2>1, <2>2 DEF CalmOK, NoCall, Observed, Source
<1>2. CASE RunTask
  <2>1. attach' \in [at : {"idle", "unregister", "attach", "wait", "stuck"}, by : {"ui", "other"},
                     to : Objects \cup {NoObject}, dying : BOOLEAN]
    BY <1>2 DEF RunTask
  <2>2. UNCHANGED <<inspectable_, winrt_win_, panel_, winui_panel_, ui, winrt_freed, lapses,
                    attaches>> /\ ui_task # "none" /\ ui = "free" /\ ui_task' = "none"
    BY <1>2 DEF RunTask, UIFree
  <2>3. Observed' = Observed /\ Source' = Source
    BY <2>2 DEF Observed, Source
  <2>4. ASSUME CalmOK PROVE CalmOK'
    <3>1. attach.at = "wait" /\ ~winrt_freed /\ Source = Observed /\ Observed # NoObject
          /\ winrt_win_ = NoObject
      BY <2>2, <2>4 DEF CalmOK, Source
    <3>2. CASE ui_task = "add"
      <4>1. attach' = [attach EXCEPT !.at = "idle"]
        BY <1>2, <3>1, <3>2 DEF RunTask
      <4>2. \/ token' = attaches /\ handlers' = {<<Observed, attaches>>}
            \/ token' = token /\ handlers' = {}
        BY <1>2, <2>4, <3>2 DEF RunTask, CalmOK
      <4> QED
        BY <2>2, <2>3, <2>4, <3>1, <3>2, <4>1, <4>2 DEF CalmOK
    <3>3. CASE ui_task = "remove"
      <4>1. attach' = [attach EXCEPT !.at = "attach"]
            /\ handlers' = handlers \ {<<Observed, token>>}
        BY <1>2, <3>1, <3>3 DEF RunTask
      <4>2. handlers' = {}
        BY <2>4, <3>1, <4>1 DEF CalmOK
      <4> QED
        BY <2>2, <2>3, <2>4, <3>1, <4>1, <4>2 DEF CalmOK
    <3> QED
      BY <2>2, <2>4, <3>2, <3>3 DEF CalmOK
  <2> QED
    BY <2>1, <2>2, <2>4
<1>3. CASE UIStops \/ Invoke \/ InvokeReturns \/ WaitForLoop \/ LoopStopped
  <2>1. UNCHANGED <<inspectable_, winrt_win_, panel_, winui_panel_, token, handlers, attach,
                    ui_task, winrt_freed, lapses, attaches>>
    BY <1>3 DEF UIStops, Invoke, InvokeReturns, WaitForLoop, LoopStopped
  <2>2. handlers # {} \/ ui' # "handling"
    BY <1>3 DEF UIStops, Invoke, InvokeReturns, WaitForLoop, LoopStopped
  <2> QED
    BY <2>1, <2>2 DEF CalmOK, Observed, Source
<1> QED
  BY <1>1, <1>2, <1>3

(* Together: every step of WinRTSurface and of the UI thread does.          *)
LEMMA WinRTInvariant == WinRTSpec => []WinRTInv
<1>1. WinRTInv /\ [WinRTNext]_winrtVars => WinRTInv'
  <2> SUFFICES ASSUME WinRTInv, [WinRTNext]_winrtVars
               PROVE  WinRTInv'
    OBVIOUS
  <2>1. ASSUME NEW by \in {"ui", "other"},
               BeginDelete(by) \/ \E o \in Objects \cup {NoObject} : Attach(by, o)
        PROVE  WinRTInv'
    BY <2>1, CallKeeps
  <2>2. CASE Step
    BY <2>2, UnregisterKeeps, RegisterKeeps, UIThreadKeeps DEF Step
  <2>3. CASE RunTask \/ UIStops \/ Invoke \/ InvokeReturns \/ WaitForLoop \/ LoopStopped
    BY <2>3, UIThreadKeeps
  <2>4. CASE UNCHANGED winrtVars
    BY <2>4 DEF winrtVars, held, WinRTInv, Calm, CalmOK, Observed, Source
  <2> QED
    BY <2>1, <2>2, <2>3, <2>4 DEF WinRTNext
<1> QED
  BY <1>1, InitWinRT, PTL DEF WinRTSpec

(* After any sequence of core windows, panels and other objects, attached   *)
(* and deleted from whichever thread, whatever the UI thread handles or     *)
(* waits for meanwhile and whichever add_SizeChanged() fails, the handler   *)
(* is taken back before the surface is deleted - unless a panel came after  *)
(* a core window or the task to take it back was not posted; and none is    *)
(* being called then, unless another thread took it from a core window      *)
(* (WinRTSurface.cpp, UIRun.cpp).                                           *)
THEOREM HandlerIsTakenBack == WinRTSpec => []HandlerTakenBack
<1>1. WinRTInv => HandlerTakenBack
  <2> SUFFICES ASSUME WinRTInv PROVE HandlerTakenBack
    OBVIOUS
  <2>1. lapses \subseteq {"remote"} => CalmOK
    BY DEF WinRTInv, Calm
  <2> QED
    BY <2>1 DEF CalmOK, HandlerTakenBack
<1> QED
  BY <1>1, WinRTInvariant, PTL

-----------------------------------------------------------------------------
(* A surface starts with no handle.                                         *)
LEMMA InitWrapped == WrappedInit => WrappedInv
BY NativeAssumption
   DEF WrappedInit, WrappedInv, OneReference, GateOK, DrawsInFront, Sole

(* Setting a handle: the references and the observers follow.               *)
LEMMA ResetNativeKeeps ==
  ASSUME WrappedInv, NEW n \in Natives \cup {NoNative}, ResetNative(n)
  PROVE  WrappedInv'
<1> USE NativeAssumption DEF WrappedInv
<1>1. native' = n /\ Callback(n) /\ UNCHANGED <<platform, gateVars, wrapped_gone>>
      /\ ~wrapped_gone /\ n # native
  BY DEF ResetNative
<1>2. GateOK'
  BY <1>1 DEF GateOK, DrawsInFront, gateVars
<1>3. CASE platform = "android"
  <2>1. AndroidCallback(n)
    BY <1>1, <1>3 DEF Callback
  <2>2. holds' \in {n, NoNative} /\ holds \in {native, NoNative}
        /\ refs = [x \in Natives |-> IF x = holds THEN 1 ELSE 0]
        /\ refs' = Swap(holds, holds')
    BY <1>3, <2>1 DEF AndroidCallback, LetGo, OneReference
  <2>3. refs' = [x \in Natives |-> IF x = holds' THEN 1 ELSE 0]
    BY <1>1, <2>2 DEF Swap
  <2> QED
    BY <1>1, <1>2, <1>3, <2>2, <2>3 DEF OneReference
<1>4. CASE platform = "uikit"
  <2>1. UIKitCallback(n)
    BY <1>1, <1>4 DEF Callback
  <2>2. watched' = Sole(n)
    BY <1>1, <1>4, <2>1 DEF UIKitCallback, OneReference, Sole
  <2>3. refs' = Swap(native, n) /\ refs = [x \in Natives |-> IF x = native THEN 1 ELSE 0]
    BY <1>1, <1>4, <2>1 DEF UIKitCallback, LetGo, OneReference
  <2>4. refs' = [x \in Natives |-> IF x = n THEN 1 ELSE 0]
    BY <1>1, <2>3 DEF Swap
  <2> QED
    BY <1>1, <1>2, <1>4, <2>2, <2>4 DEF OneReference, Sole
<1>5. CASE platform = "cocoa"
  <2>1. CocoaCallback(n)
    BY <1>1, <1>5 DEF Callback
  <2>2. watched' = Sole(n) \cap Views
    BY <1>5, <2>1 DEF CocoaCallback, OneReference, Sole, Natives
  <2> QED
    BY <1>1, <1>2, <1>5, <2>2 DEF OneReference, Sole
<1> QED
  BY <1>3, <1>4, <1>5

(* The destructors.                                                         *)
LEMMA DestroyKeeps ==
  ASSUME WrappedInv, DestroyWrapped
  PROVE  WrappedInv'
<1> USE NativeAssumption DEF WrappedInv
<1>1. UNCHANGED <<platform, gateVars>> /\ wrapped_gone' = TRUE
      /\ (platform = "android" => DestroyAndroid)
      /\ (platform = "uikit" => DestroyUIKit)
      /\ (platform = "cocoa" => DestroyCocoa)
  BY DEF DestroyWrapped
<1>2. GateOK'
  BY <1>1 DEF GateOK, DrawsInFront, gateVars
<1>3. CASE platform = "android"
  <2>1. refs = [x \in Natives |-> IF x = holds THEN 1 ELSE 0]
        /\ refs' = Swap(holds, NoNative) /\ holds' = NoNative /\ UNCHANGED native
    BY <1>1, <1>3 DEF DestroyAndroid, OneReference
  <2>2. refs' = [x \in Natives |-> IF x = NoNative THEN 1 ELSE 0]
    BY <2>1 DEF Swap
  <2> QED
    BY <1>1, <1>2, <1>3, <2>1, <2>2 DEF OneReference
<1>4. CASE platform = "uikit"
  BY <1>1, <1>2, <1>4 DEF DestroyUIKit, OneReference, Sole
<1>5. CASE platform = "cocoa"
  BY <1>1, <1>2, <1>5 DEF DestroyCocoa, OneReference, Sole
<1> QED
  BY <1>3, <1>4, <1>5

(* acquire(), release() and the notifications of the application.           *)
LEMMA GateKeeps ==
  ASSUME WrappedInv,
         \/ Lock \/ Test \/ Acquired \/ ReleaseGate
         \/ \E state \in {"front", "back"} : AppStateChanged(state)
         \/ SetAllowed \/ StrayCallback
  PROVE  WrappedInv'
<1>1. UNCHANGED wrapped
  BY DEF Lock, Test, Acquired, ReleaseGate, AppStateChanged, SetAllowed, StrayCallback, others, wrapped
<1>2. OneReference'
  BY <1>1 DEF WrappedInv, OneReference, wrapped, Sole
<1>3. GateOK'
  <2> USE DEF WrappedInv, GateOK, DrawsInFront
  <2>1. CASE Lock
    BY <2>1 DEF Lock
  <2>2. CASE Test
    BY <2>2 DEF Test, Refused
  <2>3. CASE Acquired
    BY <2>3 DEF Acquired
  <2>4. CASE ReleaseGate
    BY <2>4 DEF ReleaseGate
  <2>5. CASE \E state \in {"front", "back"} : AppStateChanged(state)
    BY <2>5 DEF AppStateChanged
  <2>6. CASE SetAllowed
    BY <2>6 DEF SetAllowed
  <2>7. CASE StrayCallback
    BY <2>7 DEF StrayCallback
  <2> QED
    BY <2>1, <2>2, <2>3, <2>4, <2>5, <2>6, <2>7
<1> QED
  BY <1>1, <1>2, <1>3 DEF WrappedInv, wrapped

(* Together: every step of a wrapping surface does.                         *)
LEMMA WrappedInvariant == WrappedSpec => []WrappedInv
<1>1. WrappedInv /\ [WrappedNext]_wrappedVars => WrappedInv'
  <2> SUFFICES ASSUME WrappedInv, [WrappedNext]_wrappedVars
               PROVE  WrappedInv'
    OBVIOUS
  <2>1. CASE \E n \in Natives \cup {NoNative} : ResetNative(n)
    BY <2>1, ResetNativeKeeps
  <2>2. CASE DestroyWrapped
    BY <2>2, DestroyKeeps
  <2>3. CASE \/ Lock \/ Test \/ Acquired \/ ReleaseGate
             \/ \E state \in {"front", "back"} : AppStateChanged(state)
             \/ SetAllowed \/ StrayCallback
    BY <2>3, GateKeeps
  <2>4. CASE UNCHANGED wrappedVars
    BY <2>4 DEF wrappedVars, WrappedInv, OneReference, GateOK, DrawsInFront, Sole
  <2> QED
    BY <2>1, <2>2, <2>3, <2>4 DEF WrappedNext
<1> QED
  BY <1>1, InitWrapped, PTL DEF WrappedSpec

(* A wrapping surface has one reference to, or one observer of, the handle  *)
(* it has and none to those it had, over any number of resets               *)
(* (AndroidSurface.cpp, UIKitSurface.mm, CocoaSurface.mm).                  *)
THEOREM HoldsOneReference == WrappedSpec => []OneReference
<1>1. WrappedInv => OneReference
  BY DEF WrappedInv
<1> QED
  BY <1>1, WrappedInvariant, PTL

(* UIKitSurface::acquire() returns true with its mutex locked and the       *)
(* application in front, unless the application changed its state just      *)
(* before acquire() returned.                                               *)
THEOREM DrawsOnlyInFront == WrappedSpec => []DrawsInFront
<1>1. WrappedInv => DrawsInFront
  BY DEF WrappedInv, GateOK
<1> QED
  BY <1>1, WrappedInvariant, PTL

-----------------------------------------------------------------------------
(* WaylandSurface.                                                          *)

(* What the registry has announced is bound: the surface by the time a      *)
(* shell asks for one, the toplevel by the time a button is pressed.        *)
BoundOK ==
  /\ "compositor" \in ToSet(order) => member["surface"] # None
  /\ "wm_base" \in ToSet(order) => member["toplevel"] # None
  /\ "shell_surface" \in alive => "shell" \in ToSet(order)

(* Only a wl_shell_surface sends events that go through ss_listener.        *)
EventNames == RegistryEvents \cup WmBaseEvents \cup XdgSurfaceEvents \cup ToplevelEvents
              \cup ShellSurfaceEvents \cup PointerEvents

ShellEventsOK ==
  /\ wire \in Seq(EventNames) /\ wlq \in Seq(EventNames)
  /\ disp \in [Dispatchers -> EventNames \cup {None}]
  /\ \/ "shell" \in ToSet(order)
     \/ /\ \A i \in 1..Len(wire) : wire[i] \notin ShellSurfaceEvents
        /\ \A i \in 1..Len(wlq) : wlq[i] \notin ShellSurfaceEvents
        /\ \A t \in Dispatchers : disp[t] \notin ShellSurfaceEvents

WLInv ==
  /\ order \in Seq(Globals)
  /\ DOMAIN member = Members
  /\ BoundOK
  /\ ShellEventsOK
  /\ OrderlyIsSafe

-----------------------------------------------------------------------------
(* A global that is announced joins those that were.                        *)
LEMMA AnnouncedToSet ==
  ASSUME NEW s \in Seq(Globals), NEW g \in Globals
  PROVE  Append(s, g) \in Seq(Globals) /\ ToSet(Append(s, g)) = ToSet(s) \cup {g}
<1> DEFINE a == Append(s, g)
<1>1. a \in Seq(Globals) /\ Len(a) = Len(s) + 1 /\ a[Len(s) + 1] = g
      /\ \A i \in 1..Len(s) : a[i] = s[i]
  OBVIOUS
<1>2. DOMAIN a = 1..Len(s) + 1 /\ DOMAIN s = 1..Len(s) /\ Len(s) \in Nat
  BY <1>1
<1>3. ASSUME NEW x \in ToSet(a) PROVE x \in ToSet(s) \cup {g}
  BY <1>1, <1>2 DEF ToSet
<1>4. ASSUME NEW x \in ToSet(s) \cup {g} PROVE x \in ToSet(a)
  <2>1. CASE x = g
    BY <1>1, <1>2, <2>1 DEF ToSet
  <2>2. CASE x \in ToSet(s)
    BY <1>1, <1>2, <2>2 DEF ToSet
  <2> QED
    BY <2>1, <2>2
<1> QED
  BY <1>1, <1>3, <1>4

(* An xdg_wm_base that comes before any compositor is not orderly.          *)
LEMMA XdgNeedsCompositor ==
  ASSUME order \in Seq(Globals), "compositor" \notin ToSet(order),
         order' = Append(order, "wm_base")
  PROVE  ~Orderly'
<1>1. ASSUME NEW i \in DOMAIN order', order'[i] = "compositor" PROVE FALSE
  <2>1. i \in 1..Len(order) + 1
    BY <1>1
  <2>2. CASE i = Len(order) + 1
    BY <1>1, <2>2
  <2>3. CASE i \in 1..Len(order)
    BY <1>1, <2>3 DEF ToSet
  <2> QED
    BY <2>1, <2>2, <2>3
<1> QED
  BY <1>1 DEF Orderly

(* Before the registry answers there is only the display.                   *)
LEMMA InitWL == WLInit => WLInv
<1> SUFFICES ASSUME WLInit PROVE WLInv
  OBVIOUS
<1>1. order \in Seq(Globals) /\ ToSet(order) = {} /\ wire \in Seq(EventNames)
      /\ wlq \in Seq(EventNames)
  BY DEF WLInit, ToSet
<1>2. ShellEventsOK
  BY <1>1, NoneAssumption DEF WLInit, ShellEventsOK, ShellSurfaceEvents
<1> QED
  BY <1>1, <1>2, NoneAssumption
     DEF WLInit, WLInv, BoundOK, OrderlyIsSafe, Orderly, Members

-----------------------------------------------------------------------------
(* registry_add_object(): a shell that finds no surface, or a surface that  *)
(* has a role already, was not announced in order.                          *)
LEMMA RegistryKeeps ==
  ASSUME WLInv, BindCompositor \/ BindSeat \/ BindXdg \/ BindShell
  PROVE  WLInv'
<1> USE NoneAssumption
<1>1. ASSUME NEW g \in Globals, Announced(g)
      PROVE  /\ order' \in Seq(Globals) /\ ToSet(order') = ToSet(order) \cup {g}
             /\ order' = Append(order, g) /\ wpc = "registry"
             /\ UNCHANGED <<wire, wlq, disp>>
  BY <1>1, AnnouncedToSet DEF Announced, WLInv
<1>2. ASSUME NEW g \in Globals, Announced(g)
      PROVE  ShellEventsOK'
  BY <1>1, <1>2 DEF WLInv, ShellEventsOK
<1>3. CASE BindCompositor
  <2>1. Announced("compositor") /\ "compositor" \in Globals
    BY <1>3 DEF BindCompositor, Globals
  <2>2. member' = [m \in Members |-> IF m = "surface" THEN "surface" ELSE member[m]]
        /\ alive' = alive \cup {"compositor", "surface"} /\ wpc' = wpc
    BY <1>3 DEF BindCompositor, Bind
  <2> QED
    BY <1>1, <1>2, <2>1, <2>2 DEF WLInv, BoundOK, OrderlyIsSafe, Members
<1>4. CASE BindSeat
  <2>1. Announced("seat") /\ "seat" \in Globals
    BY <1>4 DEF BindSeat, Globals
  <2>2. member' = [m \in Members |-> IF m = "seat" THEN "seat" ELSE member[m]]
        /\ alive' = alive \cup {"seat", "pointer"} /\ wpc' = wpc
    BY <1>4 DEF BindSeat, Bind
  <2> QED
    BY <1>1, <1>2, <2>1, <2>2 DEF WLInv, BoundOK, OrderlyIsSafe, Members
<1>5. CASE BindXdg
  <2>1. Announced("wm_base") /\ "wm_base" \in Globals
    BY <1>5 DEF BindXdg, Globals
  <2>2. member' = [m \in Members |-> IF m = "wm" THEN "wm"
                                     ELSE IF m = "shell_surface" THEN "xdg_surface"
                                     ELSE IF m = "toplevel" THEN "toplevel" ELSE member[m]]
        /\ alive' = alive \cup {"wm", "xdg_surface", "toplevel"}
        /\ wpc' = GetXdgSurface(wpc)
    BY <1>5 DEF BindXdg, Bind
  <2>3. BoundOK'
    BY <1>1, <2>1, <2>2 DEF WLInv, BoundOK, Members
  <2>4. OrderlyIsSafe'
    <3>1. CASE member["surface"] = None
      BY <1>1, <2>1, <3>1, XdgNeedsCompositor DEF WLInv, BoundOK, OrderlyIsSafe
    <3>2. CASE "shell_surface" \in alive
      <4>1. "shell" \in ToSet(order')
        BY <1>1, <2>1, <3>2 DEF WLInv, BoundOK
      <4> QED
        BY <4>1 DEF Orderly, OrderlyIsSafe
    <3>3. CASE member["surface"] # None /\ "shell_surface" \notin alive
      BY <1>1, <2>1, <2>2, <3>3 DEF GetXdgSurface, OrderlyIsSafe
    <3> QED
      BY <3>1, <3>2, <3>3
  <2> QED
    BY <1>1, <1>2, <2>1, <2>2, <2>3, <2>4 DEF WLInv
<1>6. CASE BindShell
  <2>1. Announced("shell") /\ "shell" \in Globals
    BY <1>6 DEF BindShell, Globals
  <2>2. member' = [m \in Members |-> IF m = "wm" THEN "shell"
                                     ELSE IF m = "shell_surface" THEN "shell_surface"
                                     ELSE member[m]]
        /\ alive' = alive \cup {"shell", "shell_surface"}
    BY <1>6 DEF BindShell, Bind
  <2>3. BoundOK'
    BY <1>1, <2>1, <2>2 DEF WLInv, BoundOK, Members
  <2>4. OrderlyIsSafe'
    BY <1>1, <2>1 DEF Orderly, OrderlyIsSafe
  <2> QED
    BY <1>1, <1>2, <2>1, <2>2, <2>3, <2>4 DEF WLInv
<1> QED
  BY <1>3, <1>4, <1>5, <1>6

(* WaylandEGLSurface(): the surface is used only with a window to draw on.  *)
LEMMA CreateKeeps ==
  ASSUME WLInv, CreateEglWindow \/ Constructed
  PROVE  WLInv'
<1>1. UNCHANGED <<order, wire, wlq, disp>> /\ ShellEventsOK'
  BY DEF CreateEglWindow, Constructed, WLInv, ShellEventsOK
<1>2. CASE UNCHANGED <<member, alive>> /\ wpc' \in {"egl", "closed", "no_surface"}
           /\ (wpc' = "no_surface" => member["surface"] = None)
  <2>1. Orderly => "compositor" \in ToSet(order)
    BY DEF Orderly, ToSet
  <2> QED
    BY <1>1, <1>2, <2>1 DEF WLInv, BoundOK, OrderlyIsSafe, Orderly
<1>3. CASE Bind([handle |-> "eglwin"]) /\ alive' = alive \cup {"eglwin"} /\ wpc' = "egl"
  <2>1. member' = [m \in Members |-> IF m = "handle" THEN "eglwin" ELSE member[m]]
    BY <1>3 DEF Bind
  <2> QED
    BY <1>1, <1>3, <2>1, NoneAssumption
       DEF WLInv, BoundOK, OrderlyIsSafe, Orderly, Members
<1>4. CASE Constructed
  BY <1>1, <1>4 DEF Constructed, WLInv, BoundOK, OrderlyIsSafe, Orderly
<1> QED
  BY <1>2, <1>3, <1>4 DEF CreateEglWindow

(* An event on its way to its listener: those of a wl_shell_surface need a  *)
(* wl_shell that was announced.                                             *)
LEMMA DeliveryKeeps ==
  ASSUME WLInv, Send \/ ReadSocket \/ \E t \in Dispatchers : Dispatch(t)
  PROVE  WLInv'
<1>1. UNCHANGED <<wpc, order, member, alive>> /\ Live
  BY DEF Send, ReadSocket, Dispatch
<1>2. ShellEventsOK'
  <2> USE DEF WLInv, ShellEventsOK
  <2>1. CASE Send
    <3>1. PICK e \in Events : wire' = Append(wire, e)
      BY <2>1 DEF Send
    <3>2. e \in EventNames /\ (e \in ShellSurfaceEvents => "shell" \in ToSet(order))
      BY DEF Events, EventNames, RegistryEvents, WmBaseEvents, XdgSurfaceEvents,
             ToplevelEvents, ShellSurfaceEvents, PointerEvents, BoundOK
    <3> QED
      BY <1>1, <2>1, <3>1, <3>2 DEF Send
  <2>2. CASE ReadSocket
    BY <1>1, <2>2 DEF ReadSocket
  <2>3. ASSUME NEW t \in Dispatchers, Dispatch(t) PROVE ShellEventsOK'
    <3>1. disp' = [disp EXCEPT ![t] = wlq[1]] /\ wlq' = Tail(wlq) /\ UNCHANGED wire
          /\ wlq[1] \in EventNames /\ 1 \in 1..Len(wlq)
      BY <2>3 DEF Dispatch
    <3>2. wlq' \in Seq(EventNames) /\ Len(wlq') = Len(wlq) - 1
          /\ \A i \in 1..Len(wlq') : wlq'[i] = wlq[i + 1] /\ i + 1 \in 1..Len(wlq)
      BY <2>3, <3>1 DEF Dispatch
    <3>3. "shell" \notin ToSet(order) => \A u \in Dispatchers : disp'[u] \notin ShellSurfaceEvents
      BY <3>1
    <3> QED
      BY <1>1, <3>1, <3>2, <3>3
  <2> QED
    BY <2>1, <2>2, <2>3
<1>3. OrderlyIsSafe'
  BY <1>1 DEF WLInv, OrderlyIsSafe, Orderly, Live, Constructing
<1> QED
  BY <1>1, <1>2, <1>3 DEF WLInv, BoundOK

(* The listeners find, on an orderly compositor, the toplevel; one that is  *)
(* gone is called for an event of the registry.                             *)
LEMMA ListenersKeep ==
  ASSUME WLInv, NEW t \in Dispatchers, Deliver(t)
  PROVE  WLInv'
<1>1. UNCHANGED <<order, member, alive, wire, wlq>> /\ Live
  BY DEF Deliver, Pong, AckConfigure, IgnoreGlobal, ResizeEglWindow, CloseToplevel,
         MoveToplevel, StaleListener, Handled
<1>2. disp' = [disp EXCEPT ![t] = None] \/ UNCHANGED disp
  BY DEF Deliver, Pong, AckConfigure, IgnoreGlobal, ResizeEglWindow, CloseToplevel,
         MoveToplevel, StaleListener, Handled
<1>3. ShellEventsOK'
  BY <1>1, <1>2, NoneAssumption DEF WLInv, ShellEventsOK, ShellSurfaceEvents
<1>4. \/ wpc' \in {wpc, "no_handle"}
      \/ wpc' = "no_toplevel" /\ member["toplevel"] = None
      \/ wpc' = "stale" /\ UNCHANGED disp /\ disp[t] \in ShellSurfaceEvents \cup RegistryEvents
  BY DEF Deliver, Pong, AckConfigure, IgnoreGlobal, ResizeEglWindow, CloseToplevel,
         MoveToplevel, StaleListener, Handled
<1>5. OrderlyIsSafe'
  BY <1>1, <1>4 DEF WLInv, BoundOK, ShellEventsOK, OrderlyIsSafe, Orderly, Live, Constructing
<1> QED
  BY <1>1, <1>3, <1>5 DEF WLInv, BoundOK

(* The destructor: what it does wrong is none of the faults before it.      *)
LEMMA DestructorKeeps ==
  ASSUME WLInv, BeginDestroy \/ Destroy
  PROVE  WLInv'
<1>1. UNCHANGED <<order, member, wire, wlq, disp>> /\ alive' \subseteq alive
      /\ wpc' \in {"destroy", "gone"}
  BY DEF BeginDestroy, Destroy
<1> QED
  BY <1>1 DEF WLInv, BoundOK, ShellEventsOK, OrderlyIsSafe, Orderly

(* Together: every step of the surface keeps the invariant.                 *)
LEMMA WLInvariant == WLSpec => []WLInv
<1>1. WLInv /\ [WLNext]_wlVars => WLInv'
  <2> SUFFICES ASSUME WLInv, [WLNext]_wlVars
               PROVE  WLInv'
    OBVIOUS
  <2>1. CASE BindCompositor \/ BindSeat \/ BindXdg \/ BindShell
    BY <2>1, RegistryKeeps
  <2>2. CASE CreateEglWindow \/ Constructed
    BY <2>2, CreateKeeps
  <2>3. CASE Send \/ ReadSocket \/ \E t \in Dispatchers : Dispatch(t)
    BY <2>3, DeliveryKeeps
  <2>4. CASE \E t \in Dispatchers : Deliver(t)
    BY <2>4, ListenersKeep
  <2>5. CASE BeginDestroy \/ Destroy
    BY <2>5, DestructorKeeps
  <2>6. CASE UNCHANGED wlVars
    BY <2>6 DEF wlVars, WLInv, BoundOK, ShellEventsOK, OrderlyIsSafe, Orderly
  <2> QED
    BY <2>1, <2>2, <2>3, <2>4, <2>5, <2>6 DEF WLNext
<1> QED
  BY <1>1, InitWL, PTL DEF WLSpec

(* However many events are on their way and threads dispatch them, on a     *)
(* compositor that announces wl_compositor before its one shell, which is   *)
(* xdg_wm_base, the roles are asked for in order, the surface in use has    *)
(* its EGL window and its toplevel, and of the two listeners that are gone  *)
(* only the one of the registry can still be called (WaylandSurface.cpp,    *)
(* registry_add_object() and the listeners).                                *)
THEOREM OrderlyStaysSafe == WLSpec => []OrderlyIsSafe
<1>1. WLInv => OrderlyIsSafe
  BY DEF WLInv
<1> QED
  BY <1>1, WLInvariant, PTL
=============================================================================
