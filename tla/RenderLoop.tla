------------------------------ MODULE RenderLoop ------------------------------
(****************************************************************************)
(* RenderLoop.cpp: one rendering thread executes tasks from a queue.  Adding *)
(* a surface, every event of a surface and update() schedule a task, and a  *)
(* task runs process(): pop all events of the surface, then draw.  A Close  *)
(* event removes the surface and frees its SurfaceContext.  The application *)
(* threads call start, add, update, stop, waitForStopped and the operations *)
(* of PlatformSurface at any time.                                          *)
(*                                                                          *)
(* What C++ leaves undefined is recorded as a fault and stops the thread    *)
(* that runs into it; the properties claim nothing of what follows.         *)
(****************************************************************************)
EXTENDS Integers, Sequences, SequencesExt

CONSTANTS Surfaces, Handles, Null,
          App,              \* application threads
          Main,             \* the one that starts the loop and waits for it
          Render,           \* the rendering thread, and the owner of its budgets
          CreateMayFail,    \* createRenderContext() may return null
          Silent,           \* surfaces whose close() may announce nothing
          Quotas            \* bound: in a run of quota q \in Quotas thread t does q[t][op]
                            \* operations op

Threads == App \cup {Render}

(* "detach" is a reset to the null handle.  Of the rendering thread: "gate",*)
(* the application goes to the background or comes back; "native", an event *)
(* the window system delivers to processEvents(); "change", a new format    *)
(* that submitRenderContext() reports.                                      *)
Ops == {"start", "add", "update", "resize", "close", "reset", "detach", "stop",
        "wait", "gate", "native", "change"}

ASSUME ThreadAssumption == Main \in App /\ Render \notin App
ASSUME RenderNullAssumption == Null \notin Surfaces \cup Threads \cup Handles
ASSUME FlagAssumption == CreateMayFail \in BOOLEAN
ASSUME SilentAssumption == Silent \subseteq Surfaces
ASSUME QuotaAssumption == Quotas \subseteq [Threads -> [Ops -> Nat]]

VARIABLES
  events, closed, native_handle, cb, call,      \* PlatformSurface
  surfaces,            \* Private::surfaces
  sp,                  \* sp[s]: "new", then its SurfaceContext is "live", "freed"
  ctx,                 \* ctx[s]: sp->ctx, named by the handle it was created on
  sized,               \* sized[s]: sp->width and sp->height are set
  tasks,               \* Private::tasks
  mtx,                 \* the owner of Private::mtx, or Null
  running, stop_requested, stop_on_last_close,
  joinable,            \* render_thread.joinable()
  rpc,                 \* where the rendering thread is
  task,                \* the task it executes
  cur,                 \* process(): the surface
  rctx,                \* process(): the local ctx
  pc,                  \* pc[t]: where application thread t is
  visit,               \* visit[t]: the surfaces its loop has still to visit
  held,                \* held[s]: acquire() without release()
  allowed,             \* allowed[s]: acquire() succeeds
  live,                \* live[s]: contexts created and not destroyed
  onclose,             \* onclose[s]: calls of close_cb
  fault,               \* the undefined behaviour the program ran into
  left                 \* left[t][op]: what remains of the quota

surfaceVars == <<events, closed, native_handle, cb, call>>
listVars == <<surfaces, sp, mtx>>
contextVars == <<ctx, sized, held, live, onclose>>
loopVars == <<running, stop_requested, stop_on_last_close, joinable>>
renderVars == <<rpc, task, cur, rctx>>
appVars == <<pc, visit>>
vars == <<surfaceVars, listVars, contextVars, loopVars, renderVars, appVars,
          tasks, allowed, fault, left>>

PS == INSTANCE PlatformSurface

-----------------------------------------------------------------------------
AddTask(s) == [kind |-> "add", s |-> s]        \* scheduled by add()
EventTask(s) == [kind |-> "event", s |-> s]    \* scheduled by the event callback
UpdateTask == [kind |-> "update", s |-> Null]  \* scheduled by update()

Schedule(k) == tasks' = Append(tasks, k)

Spend(t, op) == /\ left[t][op] > 0
                /\ left' = [left EXCEPT ![t][op] = @ - 1]

Init ==
  /\ PS!Init
  /\ surfaces = <<>>
  /\ sp = [s \in Surfaces |-> "new"]
  /\ ctx = [s \in Surfaces |-> Null]
  /\ sized = [s \in Surfaces |-> FALSE]
  /\ tasks = <<>>
  /\ mtx = Null
  /\ running = FALSE /\ stop_requested = FALSE /\ joinable = FALSE
  /\ stop_on_last_close = TRUE
  /\ rpc = "off" /\ task = UpdateTask /\ cur = Null /\ rctx = Null
  /\ pc = [t \in App |-> "idle"]
  /\ visit = [t \in App |-> <<>>]
  /\ held = [s \in Surfaces |-> 0]
  /\ allowed = [s \in Surfaces |-> TRUE]
  /\ live = [s \in Surfaces |-> 0]
  /\ onclose = [s \in Surfaces |-> 0]
  /\ fault = "none"
  /\ left \in Quotas

-----------------------------------------------------------------------------
(* A surface operation in progress on thread t.  The callback that add()    *)
(* has set schedules a task that refers to the SurfaceContext of s.         *)

PushStep(t) ==
  /\ \/ PS!Push(t) /\ UNCHANGED tasks
     \/ /\ PS!Notify(t)
        /\ IF PS!Notifies(t) THEN Schedule(EventTask(call[t].s)) ELSE UNCHANGED tasks
  /\ UNCHANGED <<listVars, contextVars, loopVars, renderVars, appVars, allowed,
                 fault, left>>

(* processEvents(): the window system delivers a resize or a close button   *)
(* to whichever thread is pumping the surface.                              *)
NativeEvent(t, s) ==
  /\ Spend(Render, "native")
  /\ PS!ResizeSurface(t, s) \/ PS!CloseSurface(t, s)

-----------------------------------------------------------------------------
(* The rendering thread: Private::run().                                    *)

RunBegin ==
  /\ rpc = "begin"
  /\ running' = TRUE
  /\ rpc' = "pop"
  /\ UNCHANGED <<surfaceVars, listVars, contextVars, stop_requested, stop_on_last_close,
                 joinable, task, cur, rctx, appVars, tasks, allowed, fault, left>>

(* tasks.pop() and the start of the task.  The task of update() reads the   *)
(* list without the lock; on an empty one it has nothing to do.             *)
RunTask ==
  /\ rpc = "pop"
  /\ tasks # <<>>
  /\ tasks' = Tail(tasks)
  /\ task' = Head(tasks)
  /\ \/ /\ task'.kind # "update"
        /\ cur' = task'.s /\ rpc' = "enter"
     \/ /\ task'.kind = "update" /\ surfaces # <<>>
        /\ cur' = Head(surfaces) /\ rpc' = "enter"
     \/ /\ task'.kind = "update" /\ surfaces = <<>>
        /\ cur' = Null /\ rpc' = "after"
  /\ UNCHANGED <<surfaceVars, listVars, contextVars, loopVars, rctx, appVars, allowed,
                 fault, left>>

(* A bug: stop() is obeyed only by a loop that stops on the last close. *)
RunAfter_LastCloseOnly ==
  /\ rpc = "after"
  /\ rpc' = IF stop_requested /\ stop_on_last_close /\ surfaces = <<>> THEN "exit" ELSE "pop"
  /\ task' = UpdateTask /\ cur' = Null /\ rctx' = Null
  /\ UNCHANGED <<surfaceVars, listVars, contextVars, loopVars, appVars, tasks, allowed,
                 fault, left>>

RunAfter ==
  /\ rpc = "after"
  /\ rpc' = IF stop_requested /\ surfaces = <<>> THEN "exit" ELSE "pop"
  /\ task' = UpdateTask /\ cur' = Null /\ rctx' = Null
  /\ UNCHANGED <<surfaceVars, listVars, contextVars, loopVars, appVars, tasks, allowed,
                 fault, left>>

(* A bug: running is not reset. *)
RunExit_Running ==
  /\ rpc = "exit"
  /\ running' = running
  /\ rpc' = "off"
  /\ UNCHANGED <<surfaceVars, listVars, contextVars, stop_requested, stop_on_last_close,
                 joinable, task, cur, rctx, appVars, tasks, allowed, fault, left>>

RunExit ==
  /\ rpc = "exit"
  /\ running' = FALSE
  /\ rpc' = "off"
  /\ UNCHANGED <<surfaceVars, listVars, contextVars, stop_requested, stop_on_last_close,
                 joinable, task, cur, rctx, appVars, tasks, allowed, fault, left>>

-----------------------------------------------------------------------------
(* The rendering thread: process(sp) for the surface cur.                   *)

Acquire == /\ allowed[cur]
           /\ held' = [held EXCEPT ![cur] = @ + 1]

(* Where a return from process() leads: the surface, which only update()    *)
(* looks at to go on, or null, which makes the task of add() clean up.      *)
Returned == IF task.kind = "update" THEN "return" ELSE "after"
ReturnedNull == IF task.kind = "add" THEN "removed" ELSE "after"

(* sp->surface of a freed SurfaceContext is undefined behaviour.            *)
ProcessFreed ==
  /\ rpc = "enter"
  /\ sp[cur] = "freed"
  /\ fault' = "dangling"
  /\ rpc' = "fault"
  /\ UNCHANGED <<surfaceVars, listVars, contextVars, loopVars, task, cur, rctx, appVars,
                 tasks, allowed, left>>

ProcessEnter ==
  /\ rpc = "enter"
  /\ sp[cur] # "freed"
  /\ \/ Acquire /\ rctx' = ctx[cur] /\ rpc' = "events"
     \/ ~allowed[cur] /\ rctx' = Null /\ rpc' = Returned /\ UNCHANGED held
  /\ UNCHANGED <<surfaceVars, listVars, ctx, sized, live, onclose, loopVars, task, cur,
                 appVars, tasks, allowed, fault, left>>

(* popEvent() calls processEvents() before it looks at the queue.           *)
ProcessNative ==
  /\ rpc = "events"
  /\ NativeEvent(Render, cur)
  /\ UNCHANGED <<listVars, contextVars, loopVars, renderVars, appVars, tasks, allowed,
                 fault>>

NextEvent(type) ==
  /\ rpc = "events"
  /\ PS!Idle(Render)
  /\ PS!PopEvent(cur)
  /\ Head(events[cur]).ev.type = type
  /\ UNCHANGED <<closed, native_handle, cb, call>>

(* destroyRenderContext() and onDestroyContext, when the condition holds.   *)
DestroyContextIf(b) ==
  live' = IF b THEN [live EXCEPT ![cur] = @ - 1] ELSE live

(* A bug: onClose() is called only for a surface that has a context. *)
ProcessClose_CtxOnly ==
  /\ NextEvent("Close")
  /\ DestroyContextIf(rctx # Null)
  /\ onclose' = IF rctx # Null THEN [onclose EXCEPT ![cur] = @ + 1] ELSE onclose
  /\ held' = [held EXCEPT ![cur] = @ - 1]
  /\ rpc' = "erase"
  /\ UNCHANGED <<listVars, ctx, sized, loopVars, task, cur, rctx, appVars, tasks,
                 allowed, fault, left>>

ProcessClose ==
  /\ NextEvent("Close")
  /\ DestroyContextIf(rctx # Null)
  /\ onclose' = [onclose EXCEPT ![cur] = @ + 1]
  /\ held' = [held EXCEPT ![cur] = @ - 1]
  /\ rpc' = "erase"
  /\ UNCHANGED <<listVars, ctx, sized, loopVars, task, cur, rctx, appVars, tasks,
                 allowed, fault, left>>

ProcessResize ==
  /\ NextEvent("Resize")
  /\ sized' = [sized EXCEPT ![cur] = TRUE]
  /\ UNCHANGED <<listVars, ctx, held, live, onclose, loopVars, renderVars, appVars, tasks,
                 allowed, fault, left>>

ProcessNativeHandle ==
  /\ NextEvent("NativeHandle")
  /\ LET e == Head(events[cur]).ev IN
       /\ DestroyContextIf(e.before # Null /\ rctx # Null)
       /\ rpc' = IF e.after = Null THEN Returned ELSE "create"
  /\ ctx' = [ctx EXCEPT ![cur] = Null]
  /\ held' = [held EXCEPT ![cur] = @ - 1]
  /\ UNCHANGED <<listVars, sized, onclose, loopVars, task, cur, rctx, appVars, tasks,
                 allowed, fault, left>>

(* A context is created on the handle the surface has now, which may be     *)
(* newer than the event; without a handle there is nothing to create it on. *)
CreateContext ==
  /\ rpc = "create"
  /\ native_handle[cur] # Null
  /\ ctx' = [ctx EXCEPT ![cur] = native_handle[cur]]
  /\ rctx' = native_handle[cur]
  /\ live' = [live EXCEPT ![cur] = @ + 1]
  /\ PS!SetEventCallback(cur)
  /\ \/ Acquire /\ rpc' = "events"
     \/ ~allowed[cur] /\ rpc' = Returned /\ UNCHANGED held
  /\ UNCHANGED <<events, closed, native_handle, call, listVars, sized, onclose, loopVars,
                 task, cur, appVars, tasks, allowed, fault, left>>

(* A bug: the failure path releases the surface a second time. *)
CreateContextFails_Release ==
  /\ rpc = "create"
  /\ CreateMayFail \/ native_handle[cur] = Null
  /\ rctx' = Null
  /\ held' = [held EXCEPT ![cur] = @ - 1]
  /\ rpc' = Returned
  /\ UNCHANGED <<surfaceVars, listVars, ctx, sized, live, onclose, loopVars, task, cur, appVars, tasks,
                 allowed, fault, left>>

CreateContextFails ==
  /\ rpc = "create"
  /\ CreateMayFail \/ native_handle[cur] = Null
  /\ rctx' = Null
  /\ rpc' = Returned
  /\ UNCHANGED <<surfaceVars, listVars, contextVars, loopVars, task, cur, appVars, tasks,
                 allowed, fault, left>>

(* popEvent() has returned false: draw if there is a context, and resize    *)
(* again when submitRenderContext() reports a change.                       *)
ProcessDraw ==
  /\ rpc = "events"
  /\ PS!Idle(Render)
  /\ ~PS!CanPop(cur)
  /\ \/ /\ held' = [held EXCEPT ![cur] = @ - 1]
        /\ rpc' = Returned
        /\ UNCHANGED <<surfaceVars, left>>
     \/ /\ rctx # Null /\ sized[cur]
        /\ Spend(Render, "change")
        /\ PS!ResizeSurface(Render, cur)
        /\ rpc' = "release"
        /\ UNCHANGED held
  /\ UNCHANGED <<listVars, ctx, sized, live, onclose, loopVars, task, cur, rctx, appVars,
                 tasks, allowed, fault>>

ProcessRelease ==
  /\ rpc = "release"
  /\ PS!Idle(Render)
  /\ held' = [held EXCEPT ![cur] = @ - 1]
  /\ rpc' = Returned
  /\ UNCHANGED <<surfaceVars, listVars, ctx, sized, live, onclose, loopVars, task, cur, rctx,
                 appVars, tasks, allowed, fault, left>>

(* The end of the Close branch, under the lock: erase, delete sp.  The      *)
(* search before the lock finds the same element: only this thread removes  *)
(* any, and what add() appends does not move it.                            *)
Erase(s) == \E i \in 1..Len(surfaces) : /\ surfaces[i] = s
                                        /\ surfaces' = RemoveAt(surfaces, i)

ProcessErase ==
  /\ rpc = "erase"
  /\ mtx = Null
  /\ Erase(cur)
  /\ sp' = [sp EXCEPT ![cur] = "freed"]
  /\ ctx' = [ctx EXCEPT ![cur] = Null]
  /\ sized' = [sized EXCEPT ![cur] = FALSE]
  /\ stop_requested' = (stop_requested \/ (stop_on_last_close /\ surfaces' = <<>>))
  /\ rpc' = ReturnedNull
  /\ UNCHANGED <<surfaceVars, mtx, held, live, onclose, running, stop_on_last_close, joinable,
                 task, cur, rctx, appVars, tasks, allowed, fault, left>>

(* The loop of update() goes on to the next surface of the list, unless     *)
(* process() has removed this one.                                          *)
UpdateNext ==
  /\ rpc = "return"
  /\ IF cur # Last(surfaces)
       THEN /\ cur' = surfaces[CHOOSE i \in 2..Len(surfaces) : surfaces[i - 1] = cur]
            /\ rpc' = "enter"
       ELSE rpc' = "after" /\ UNCHANGED cur
  /\ UNCHANGED <<surfaceVars, listVars, contextVars, loopVars, task, rctx, appVars, tasks,
                 allowed, fault, left>>

(* The task of add() erases and deletes the SurfaceContext once more: what  *)
(* find() returns is end() when process() has erased it.                    *)
AddTaskErase ==
  /\ rpc = "removed"
  /\ mtx = Null
  /\ IF cur \in ToSet(surfaces)
       THEN /\ Erase(cur)
            /\ sp' = [sp EXCEPT ![cur] = "freed"]
            /\ rpc' = "after"
            /\ UNCHANGED fault
       ELSE /\ fault' = "erase_end"
            /\ rpc' = "fault"
            /\ UNCHANGED <<surfaces, sp>>
  /\ UNCHANGED <<surfaceVars, mtx, contextVars, loopVars, task, cur, rctx, appVars, tasks,
                 allowed, left>>

RenderStep ==
  \/ RunBegin \/ RunTask \/ RunAfter \/ RunExit
  \/ ProcessFreed \/ ProcessEnter \/ ProcessClose \/ ProcessResize
  \/ ProcessNativeHandle \/ CreateContext \/ CreateContextFails \/ ProcessDraw
  \/ ProcessRelease \/ ProcessErase \/ UpdateNext \/ AddTaskErase
  \/ PushStep(Render)

-----------------------------------------------------------------------------
(* Application threads.  add(), stop() and the loop of waitForStopped()     *)
(* hold mtx over several steps.                                             *)

Lock(t) == mtx = Null /\ mtx' = t
Unlock(t) == mtx = t /\ mtx' = Null
Goto(t, l) == pc' = [pc EXCEPT ![t] = l]
Free(t) == pc[t] = "idle" /\ PS!Idle(t)

(* Outside its own calls a thread reaches a surface through the weak_ptr    *)
(* add() returned; before that only the thread that made it knows it.       *)
CanUse(t, s) ==
  \/ sp[s] = "new" /\ t = Main
  \/ sp[s] = "live" /\ \A u \in App : pc[u] \in {"add_cb", "add_task"} => visit[u] # <<s>>

(* A thread that a previous start() left unjoined terminates the program.   *)
Start(t) ==
  /\ t = Main /\ Free(t) /\ Spend(t, "start")
  /\ ~running
  /\ running' = TRUE
  /\ stop_on_last_close' \in BOOLEAN
  /\ IF joinable THEN /\ fault' = "terminate"
                      /\ Goto(t, "fault")
                      /\ UNCHANGED <<joinable, rpc>>
                 ELSE /\ joinable' = TRUE /\ rpc' = "begin"
                      /\ UNCHANGED <<fault, pc>>
  /\ UNCHANGED <<surfaceVars, listVars, contextVars, stop_requested, task, cur, rctx, visit,
                 tasks, allowed>>

AddPushBack(t, s) ==
  /\ Free(t) /\ Spend(t, "add")
  /\ sp[s] = "new" /\ \A u \in App : call[u].s # s
  /\ Lock(t)
  /\ surfaces' = Append(surfaces, s)
  /\ sp' = [sp EXCEPT ![s] = "live"]
  /\ visit' = [visit EXCEPT ![t] = <<s>>]
  /\ Goto(t, "add_cb")
  /\ UNCHANGED <<surfaceVars, contextVars, loopVars, renderVars, tasks, allowed, fault>>

AddSetCallback(t) ==
  /\ pc[t] = "add_cb"
  /\ PS!SetEventCallback(Head(visit[t]))
  /\ Goto(t, "add_task")
  /\ UNCHANGED <<events, closed, native_handle, call, listVars, contextVars, loopVars,
                 renderVars, visit, tasks, allowed, fault, left>>

AddSchedule(t) ==
  /\ pc[t] = "add_task"
  /\ Schedule(AddTask(Head(visit[t])))
  /\ Unlock(t)
  /\ visit' = [visit EXCEPT ![t] = <<>>]
  /\ Goto(t, "idle")
  /\ UNCHANGED <<surfaceVars, surfaces, sp, contextVars, loopVars, renderVars, allowed, fault,
                 left>>

Update(t) ==
  /\ Free(t) /\ Spend(t, "update")
  /\ Schedule(UpdateTask)
  /\ UNCHANGED <<surfaceVars, listVars, contextVars, loopVars, renderVars, appVars, allowed,
                 fault>>

SurfaceCall(t, s) ==
  /\ Free(t) /\ CanUse(t, s)
  /\ \/ Spend(t, "resize") /\ PS!ResizeSurface(t, s)
     \/ Spend(t, "close") /\ PS!CloseSurface(t, s)
     \/ \E h \in Handles : Spend(t, "reset") /\ PS!ResetNativeHandle(t, s, h)
     \/ Spend(t, "detach") /\ PS!ResetNativeHandle(t, s, Null)
  /\ UNCHANGED <<listVars, contextVars, loopVars, renderVars, appVars, tasks, allowed, fault>>

(* stop(): returns at once unless the loop runs.                            *)
Stop(t) ==
  /\ Free(t) /\ Spend(t, "stop")
  /\ running
  /\ stop_requested' = TRUE
  /\ Goto(t, "stop_lock")
  /\ UNCHANGED <<surfaceVars, listVars, contextVars, running, stop_on_last_close, joinable,
                 renderVars, visit, tasks, allowed, fault>>

LockAndVisit(t, from, to) ==
  /\ pc[t] = from
  /\ Lock(t)
  /\ visit' = [visit EXCEPT ![t] = surfaces]
  /\ Goto(t, to)
  /\ UNCHANGED <<surfaceVars, surfaces, sp, contextVars, loopVars, renderVars, tasks, allowed,
                 fault, left>>

StopLock(t) == LockAndVisit(t, "stop_lock", "stop")

(* close() is virtual.  Win32Surface::close() destroys the window instead:  *)
(* the Close event follows from its messages, if the window belongs to the  *)
(* calling thread, and without a window or on another thread nothing does.  *)
StopClose(t) ==
  /\ pc[t] = "stop" /\ visit[t] # <<>>
  /\ \/ PS!CloseSurface(t, Head(visit[t]))
     \/ Head(visit[t]) \in Silent /\ PS!Idle(t) /\ UNCHANGED surfaceVars
  /\ visit' = [visit EXCEPT ![t] = Tail(@)]
  /\ UNCHANGED <<listVars, contextVars, loopVars, renderVars, pc, tasks, allowed, fault, left>>

UnlockAndGo(t, from, to) ==
  /\ pc[t] = from /\ visit[t] = <<>> /\ PS!Idle(t)
  /\ Unlock(t)
  /\ Goto(t, to)
  /\ UNCHANGED <<surfaceVars, surfaces, sp, contextVars, loopVars, renderVars, visit, tasks,
                 allowed, fault, left>>

StopUnlock(t) == UnlockAndGo(t, "stop", "idle")

-----------------------------------------------------------------------------
(* waitForStopped(): while (running) { lock; pump every surface; unlock;    *)
(* sleep }, then join.                                                      *)

Wait(t) ==
  /\ t = Main /\ Free(t) /\ Spend(t, "wait")
  /\ Goto(t, "wait")
  /\ UNCHANGED <<surfaceVars, listVars, contextVars, loopVars, renderVars, visit, tasks,
                 allowed, fault>>

WaitCheck(t) ==
  /\ pc[t] = "wait"
  /\ Goto(t, IF running THEN "poll_lock" ELSE "join")
  /\ UNCHANGED <<surfaceVars, listVars, contextVars, loopVars, renderVars, visit, tasks,
                 allowed, fault, left>>

WaitLock(t) == LockAndVisit(t, "poll_lock", "poll")

WaitNative(t) ==
  /\ pc[t] = "poll" /\ visit[t] # <<>>
  /\ NativeEvent(t, Head(visit[t]))
  /\ UNCHANGED <<listVars, contextVars, loopVars, renderVars, appVars, tasks, allowed, fault>>

WaitNext(t) ==
  /\ pc[t] = "poll" /\ visit[t] # <<>> /\ PS!Idle(t)
  /\ visit' = [visit EXCEPT ![t] = Tail(@)]
  /\ UNCHANGED <<surfaceVars, listVars, contextVars, loopVars, renderVars, pc, tasks, allowed,
                 fault, left>>

WaitUnlock(t) == UnlockAndGo(t, "poll", "wait")

Join(t) ==
  /\ pc[t] = "join"
  /\ joinable => rpc = "off"
  /\ joinable' = FALSE
  /\ Goto(t, "idle")
  /\ UNCHANGED <<surfaceVars, listVars, contextVars, running, stop_requested,
                 stop_on_last_close, renderVars, visit, tasks, allowed, fault, left>>

(* The application goes to the background or comes back.  While a surface   *)
(* is acquired the notification waits for its release.                      *)
AppState(s) ==
  /\ held[s] = 0
  /\ Spend(Render, "gate")
  /\ allowed' = [allowed EXCEPT ![s] = ~@]
  /\ UNCHANGED <<surfaceVars, listVars, contextVars, loopVars, renderVars, appVars, tasks,
                 fault>>

AppCall(t) ==
  \/ Start(t) \/ Update(t) \/ Stop(t) \/ Wait(t)
  \/ \E s \in Surfaces : AddPushBack(t, s) \/ SurfaceCall(t, s)

AppLock(t) == StopLock(t) \/ WaitLock(t)

AppStep(t) ==
  \/ PushStep(t)
  \/ AddSetCallback(t) \/ AddSchedule(t)
  \/ StopClose(t) \/ StopUnlock(t)
  \/ WaitCheck(t) \/ WaitNext(t) \/ WaitUnlock(t) \/ Join(t)

Next ==
  \/ RenderStep
  \/ ProcessNative
  \/ \E t \in App : AppCall(t) \/ AppLock(t) \/ AppStep(t) \/ WaitNative(t)
  \/ \E s \in Surfaces : AppState(s)

Spec == Init /\ [][Next]_vars

(* A thread with something to do is scheduled.  mtx is not fair by itself,  *)
(* but waitForStopped() sleeps without it between two rounds and stop() and *)
(* add() take it once per call, so a thread that keeps asking gets it.      *)
Fairness ==
  /\ WF_vars(RenderStep)
  /\ SF_vars(ProcessErase \/ AddTaskErase)
  /\ \A t \in App : WF_vars(AppStep(t)) /\ SF_vars(AppLock(t))

FairSpec == Spec /\ Fairness
-----------------------------------------------------------------------------
(* Properties.                                                              *)

Task == {AddTask(s) : s \in Surfaces} \cup {EventTask(s) : s \in Surfaces} \cup {UpdateTask}

(* The states of the rendering thread inside process(), by what it holds.   *)
Acquired == {"events", "release"}
InProcess == Acquired \cup {"enter", "create", "erase", "return", "removed"}

TypeOK ==
  /\ PS!TypeOK
  /\ surfaces \in Seq(Surfaces)
  /\ sp \in [Surfaces -> {"new", "live", "freed"}]
  /\ ctx \in [Surfaces -> Handles \cup {Null}]
  /\ sized \in [Surfaces -> BOOLEAN]
  /\ tasks \in Seq(Task)
  /\ mtx \in App \cup {Null}
  /\ running \in BOOLEAN /\ stop_requested \in BOOLEAN
  /\ stop_on_last_close \in BOOLEAN /\ joinable \in BOOLEAN
  /\ rpc \in InProcess \cup {"off", "begin", "pop", "after", "exit", "fault"}
  /\ task \in Task
  /\ cur \in Surfaces \cup {Null}
  /\ rctx \in Handles \cup {Null}
  /\ pc \in [App -> {"idle", "add_cb", "add_task", "stop_lock", "stop", "wait",
                     "poll_lock", "poll", "join", "fault"}]
  /\ visit \in [App -> Seq(Surfaces)]
  /\ held \in [Surfaces -> {0, 1}]
  /\ allowed \in [Surfaces -> BOOLEAN]
  /\ live \in [Surfaces -> Int]
  /\ onclose \in [Surfaces -> {0, 1}]
  /\ fault \in {"none", "dangling", "erase_end", "terminate"}
  /\ left \in [Threads -> [Ops -> Nat]]

(* Every rendering context is destroyed exactly once: a surface has one     *)
(* context while sp->ctx names it and none otherwise, through handle        *)
(* changes, failed creations, refused acquires and Close.                   *)
ContextOwnership ==
  \A s \in Surfaces :
    live[s] = IF ctx[s] # Null /\ ~(rpc = "erase" /\ cur = s) THEN 1 ELSE 0

(* A surface is acquired exactly while process() is between its acquire and *)
(* its release: none of the early returns of process() keeps it acquired or *)
(* releases it twice.                                                       *)
GateBalanced ==
  \A s \in Surfaces : held[s] = IF rpc \in Acquired /\ cur = s THEN 1 ELSE 0

(* onClose() is called once for a surface that goes away and never for one  *)
(* that stays in the list, although several threads may close it.           *)
ClosedOnce ==
  \A s \in Surfaces :
    /\ onclose[s] = IF sp[s] = "freed" \/ (rpc = "erase" /\ cur = s) THEN 1 ELSE 0
    /\ s \in ToSet(surfaces) <=> sp[s] = "live"

(* Nobody is in the middle of a call and the rendering thread is blocked.   *)
Quiescent ==
  /\ fault = "none" /\ rpc = "pop" /\ tasks = <<>>
  /\ \A t \in Threads : PS!Idle(t)
  /\ \A t \in App : pc[t] \notin {"add_cb", "add_task", "stop"}

(* When the rendering thread blocks, no event is left in the queue of a     *)
(* surface: the tasks of concurrent pushes cover every event, also those    *)
(* that process() could not see because an older push was not published.    *)
NoStrandedEvent ==
  Quiescent => \A s \in Surfaces : sp[s] = "live" => events[s] = <<>>

(* ... and its context belongs to the handle the window has last announced, *)
(* however the handle changes overtook the events that announce them.       *)
ContextFollowsHandle ==
  Quiescent => \A s \in Surfaces : sp[s] = "live" => ctx[s] = native_handle[s]

(* A surface in the list that was closed is removed.                        *)
CloseRemoves ==
  \A s \in Surfaces :
    (sp[s] = "live" /\ closed[s]) ~> (sp[s] = "freed" \/ fault # "none" \/ ~running)

(* A loop that still has surfaces when stop() visits them ends, unless a    *)
(* surface is added after the visit, ...                                    *)
Stopping(t) == /\ pc[t] = "stop" /\ surfaces # <<>>
               /\ \A s \in Surfaces : sp[s] # "new"

StopEnds == \A t \in App : Stopping(t) ~> (rpc = "off" \/ fault # "none")

(* ... and the thread that waits for it returns from waitForStopped().      *)
WaitReturns ==
  \A t, u \in App :
    (Stopping(t) /\ pc[u] = "poll_lock") ~> (pc[u] = "idle" \/ fault # "none")

(* The documents and comments of the code, refuted by the runs that expect  *)
(* a violation.  RenderLoop.h:39 lets the application close a surface to    *)
(* remove it, and process() is documented (:59) to return null when the     *)
(* surface is no longer used: no later task may touch it.                   *)
NoDanglingTask == fault # "dangling"

(* The task of add() deletes a surface that process() closed ("create=>     *)
(* resize=>close event in 1 process()", RenderLoop.cpp:194).                *)
NoDoubleErase == fault # "erase_end"

(* stop(): "close all surfaces, invoke onClose() callbacks, destroy gfx     *)
(* contexts and surfaces, then exit render loop" (RenderLoop.h:24).         *)
StopExitsLoop == (stop_requested /\ running) ~> (rpc = "off" \/ fault # "none")
=============================================================================
