# A TLA+ model of UGS

UGS (Universal Graphics Surface) wraps the native window of a platform in a
`PlatformSurface` and drives any number of surfaces from one rendering thread, a
`RenderLoop`. The code is small and almost every line of it is about threads, or about
what a window system expects of its client: the windows produce events on the thread that
pumps them, the application calls `add`, `update`, `stop` and `waitForStopped` from its own
threads, the rendering thread consumes everything, and each native surface keeps
references, handlers and objects that have to be given back once. This directory models
the core and the native side, checks both with TLC and proves with TLAPS that all the safety
properties that the runs check hold of every instance.

## 1. Inventory

The core:

| Component | State | Operations | Talks to |
|---|---|---|---|
| `mpsc_fifo` (base/mpsc_fifo.h) | linked nodes, `in_` (atomic), `out_` | push/emplace (any thread), pop, clear, destructor (one thread) | queue of events of a surface |
| `BlockingQueue` (base/BlockingQueue.h) | list, `size_`, min, max, wake_push, two condition variables | push, pop, tryPush, tryPop, clear, setters | queue of tasks of the loop |
| `PlatformSurface` | `events`, `closed`, `native_handle`, callbacks | resize, close, resetNativeHandle, popEvent, setEventCallback, acquire/release, processEvents | pushes into its `mpsc_fifo`, then calls the event callback |
| `RenderLoop` | `surfaces`, `tasks`, `mtx`, `running`, `stop_requested`, `stop_on_last_close`, `render_thread`, per surface a `SurfaceContext` (ctx, width, height) | start, add, update, stop, waitForStopped; run and process on the rendering thread | callbacks of the surfaces schedule tasks; tasks pop events |

The native side:

| Component | State | Operations | Talks to |
|---|---|---|---|
| `PlatformSurface::create` | none | tries the kinds of surface of a platform in order, deletes what is incomplete | constructors and destructors of all surfaces |
| X11Surface | one static display; window, last size | constructor, destructor, processEvents, resize | event queue of the X server, `resize`, `close` |
| WaylandSurface, WaylandEGLSurface | bound globals, union of shell objects, egl window | registry, listeners, processEvents, destructor | compositor (xdg-shell.[ch]), libwayland-egl |
| GBMSurface | card, crtc, gbm device and surface, the frame that is kept | constructor, submit, destructor | libgbm, DRM |
| Win32Surface | window, own or foreign, and its original procedure | constructor, handle callback, WinProc, close, processEvents, destructor | message queue of the thread that owns the window |
| WinRTSurface, UIRun | inspectable, core window, panels, token | register and unregister of the size handler, RunOnUIThread | dispatcher of the UI thread |
| UIKitSurface | layer reference and observer, `gfx_allowed_`, mutex | handle callback, acquire, release, application state, destructor | notifications of the application |
| CocoaSurface, AndroidSurface | view and observer; ANativeWindow | handle callback, destructor | window system |
| RPiSurface, MaliFBSurface | display, element; library, file | constructor, destructor | dispmanx, libmali |
| examples | EGL and D3D11 contexts, shaders per context | create, activate, resize, draw, destroy | callbacks of `RenderLoop` |
| OpenWFCSurface, winui.h, build files | | never constructed; declarations | |

What is hard here, and what must be true in spite of it:

* **Event queue.** A push is an exchange followed by a store; in between the list
  is cut. No element may be lost, duplicated or reordered, no freed node touched,
  no node leaked.
* **Wake-ups.** An event is handled only if some task runs `process()` after it is
  visible. Tasks are scheduled by the event callback, by `add` and by `update`;
  `process()` has early returns that leave events behind.
* **Removal.** `process()` frees the SurfaceContext at a Close event while other
  tasks, the callback and the task of `add` still point to it.
* **Contexts.** A rendering context is created and destroyed by handle events that
  may lag behind the handle of the window; acquire and release must pair up over
  all return paths.
* **Stopping.** The loop ends when `stop_requested` is set and its list is empty;
  somebody must still schedule a task for it to notice.
* **Shared queues of the window system.** Two threads pump one X display or one Wayland
  display on behalf of different surfaces: sizes and close requests have to reach the
  right one, and no pump may block on an event that another has taken.
* **Foreign threads.** The rendering thread deletes a surface whose handlers run on the
  thread of the window; calls that wait for the UI thread must return.
* **Partial construction.** Every constructor can stop in the middle, and its destructor
  runs all the same.
* **Order of requests.** A compositor announces its globals in any order and demands that
  objects are destroyed in a certain one; DRM scans out a buffer that must not be
  rendered into; DXGI resizes only buffers that nobody views.
* **References.** What is taken in the callback of the handle is given back there or in
  the destructor, once.

`PROJECT.json` lists every hazard at its line, with the properties that look for it.

## 2. Modules

```
EventFifo            what mpsc_fifo promises (abstract)
   ^ implemented by
MpscFifo             mpsc_fifo.h, one step per access     MpscFifoProofs
PlatformSurface      events as an EventFifo, push in steps
   ^ instantiated as PS by
RenderLoop           threads, tasks, process()            RenderLoopProofs
                                                             ^ extended by
                                                          RenderLoopEventProofs
BoundedFifo          what BlockingQueue promises (abstract)
   ^ implemented by
BlockingQueue        one step per critical section        BlockingQueueProofs

GBMSurface                                                GBMSurfaceProofs
X11Surface                                                X11SurfaceProofs
Win32Surface  WinRTSurface  WrappedSurface
WaylandSurface                                            WindowSurfacesProofs
SurfaceFactory  EGLContexts  D3D11Contexts
   ^ all nine extended by                                    ^ all three extended by
NativeSystems        one of them is active                NativeSystemsProofs

MCMpscFifo, MCRenderLoop, MCBlockingQueue, MCNativeSystems   instances for TLC
```

### MpscFifo

State: `next`, `val` of the nodes, which nodes are allocated, `in_`, `out_`, and the
program counters of the producers and of the consumer. The actions follow `push`
(allocate, `exchange`, store of `next`) and `pop` (load of `next`, move of the value,
`delete`, advance) one shared access at a time; freed nodes may be allocated again
at once, as `new` may do. `order` is a history variable: the allocated nodes of the
list in the order of their exchanges. `EventFifo` is the abstract queue: a push
*claims* its place and is *published* later, and an unpublished element hides the
published ones behind it. `ImplementsFifo` is the refinement.

The accesses are sequentially consistent. The code asks for less: the store of `next` in
`push` is a release, but `pop` loads it relaxed (mpsc_fifo.h:65), so that nothing in the C++
memory model orders the consumer's read of `n->v` after the producer's write of it. Builds
do order them, because the address that is read comes from the load. What is checked and
proved here says nothing about a build that would not.

### BlockingQueue

A critical section of the mutex is one step. A thread that waits joins `full_` or `empty_`
(the sleepers of the condition variable), leaves it when it is notified or spuriously
(`Spurious`), and tests its predicate in `PushWake` or `PopWake`; `PushTimeout` and
`PopTimeout` end a timed wait at any moment, also one that was just notified. `tryPush` and
`tryPop` without a timeout read `size_` in one step and lock in the next. `BoundedFifo` is
what it promises: a FIFO within its capacity. Its setters are actions too; plain members
that are read without the lock are read at their current value.

### PlatformSurface

`events[s]` holds entries with the thread that has claimed but not yet published
them, exactly as in `EventFifo`. `call[t]` is the push thread `t` is executing:
`check` (the test of `closed`), `claim`, `link`, `notify` (the event callback), and for
`close()` the assignment of `closed` that follows. `resetNativeHandle` continues with a
resize when the virtual `size()` answers. Sizes are abstracted.

### RenderLoop

One action per step between two points where another thread can interfere:

* rendering thread: `RunBegin`, `RunTask` (pop a task), the steps of `process()`
  (`ProcessEnter`, `ProcessClose`, `ProcessResize`, `ProcessNativeHandle`,
  `CreateContext`, `CreateContextFails`, `ProcessDraw`, `ProcessRelease`, `ProcessErase`),
  `UpdateNext` (the loop of the task of `update`), `AddTaskErase` (the clean-up of the
  task of `add`), `RunAfter` (the exit test), `RunExit`;
* application threads: `Start`, `AddPushBack` to `AddSchedule` (under `mtx`), `Update`,
  `Stop` to `StopUnlock`, `Wait` to `Join`, and `SurfaceCall` for the operations of a
  surface they may use;
* environment: `ProcessNative` and `WaitNative` (the window system delivers an event
  to `processEvents()` on whichever thread pumps), `AppState` (acquire starts or ceases
  to be refused, as UIKitSurface does in the background), a context that cannot be
  created, a submit that reports a new format.

`ProcessErase` and `AddTaskErase` take `find`, the erase and the deletion as one step
although `process()` calls `find` before it locks `mtx` (RenderLoop.cpp:224): only the
rendering thread removes, and what `add` appends meanwhile does not move the element that
was found. The data race of that access is below the step. `StopClose` is
`surface->close()`; a surface in `Silent` may have one that announces nothing, as
`Win32Surface::close()` on a thread that does not own the window (Win32Surface.cpp:120). What
`process()` does for Android after a resize presents a frame and changes nothing here.

Undefined behaviour and `std::terminate` are recorded in `fault`, which stops the thread
that runs into it; nothing is claimed about what happens afterwards.

Assumptions about the user of the library, all taken from its documents or its
structure: the `onX` setters are called before `start`; `start` and `waitForStopped` are
called by one thread (`Main`); a thread other than the one that created a surface
reaches it through the `weak_ptr` that `add` returned and keeps it locked during a
call; one thread at a time resets the handle of a surface in the runs.

`CreateMayFail`, the number of surfaces, handles and threads, and `Quotas`, are constants.
A quota bounds how often each thread performs each operation, and an initial state chooses
one of `Quotas`; they are the only bound, here and in `BlockingQueue`.

### SurfaceFactory

`create()` over the platforms of the build files. `CallCreate` chooses the platform, the
type that the application asks for and whether it brings a handle; `Create` chooses the
kind or the list of kinds, for a handle on Windows also `create_winrt_surface()`. A
constructor is a script of calls (`X11Script`, `GBMScript`, …): `need` ends it when the call
fails, `try` goes on without, `test` holds nothing, `check` ends it unless something was got,
`drop` gives back, `use` takes a pointer that is not checked. `NextKind` deletes a
surface without a handle, as the destructor of its kind does (`X11GivesBack`, …), and
tries the next; `DeleteReturned` deletes the one that was returned. `lost` collects what
a destructor did not give back; `Forgotten` names the six resources that can get there.
A bad pointer (the egl window of no surface, the crtc of an incomplete GBMSurface, the shell
object that is destroyed twice) ends the process with `crashed_in`, or does nothing.

### GBMSurface

`Draw` is EGL rendering into any buffer that is not locked; `submit()` is `LockFrontBuffer`,
`AddFB`, `SetCrtc`, `RmFB`, `Release`, `Store`, one call on the device each, of which the
code checks none; `RestoreCrtc` and `DestroyGBM` are the destructor. `scanned` is what the
crtc shows. Removing a frame buffer that is shown switches the crtc off, as DRM does.

### X11Surface

`xq` is the queue of the one display, `pump[t]` the `processEvents()` thread `t` is in: the
surface it works for, how many of the events that `XPending` counted are left, and the
event it has taken. `NextEvent`, `HandleConfigure` and `HandleDelete` are the loop and its
two cases; a window that is moved sends a configure event of the size it has, which ends the pump. `PressClose`, `ResizeWindow` are the user, `XResize` and `PushResize` the two
halves of `resize()`.

### WaylandSurface

The globals arrive in any order (`BindCompositor`, `BindSeat`, `BindXdg`, `BindShell`), while
the constructors of the base class (`wpc = "registry"`) and of the EGL surface (`"egl"`)
make their round trips; `CreateEglWindow` is between them, `Constructed` at their end. The
member pointers share the words of the union as in the header. Requests and events are
those of xdg-shell.h that the code uses, with the protocol's rules: a surface has one
role, libwayland aborts on a null proxy. `Send` puts an event on the wire, at any time, also a
global that comes or goes later. `ReadSocket` reads it, which the round trips do and later
`eglSwapBuffers`, but not `processEvents()`; `Dispatch` and `Deliver` are
`wl_display_dispatch_pending` on two threads and the listeners. The listener of the registry
and that of the wl_shell_surface are local variables of functions that have returned
(WaylandSurface.cpp:28, :40): `StaleListener` is the call through the dead frame, which brings the
surface down, beside `IgnoreGlobal`, `Pong` and `ResizeEglWindow` for builds where the
constant outlives its scope. `Destroy` walks over the members in the order of the two destructors.

### Win32Surface

Windows, their procedures and user data, posted messages, and the message the owner
thread is in: `DispatchMessage`, `ProcessEvent`, `DefaultProc`. It is dispatched under the
mutex of the loop (`PumpEnter`) or, where the thread also runs an event loop of the
application (`app_loop`), outside, whichever window it is for. `ResetHwnd` is
the callback of the handle, `CloseHwnd` is `close()`, `DeleteSurface` the destructor on the
rendering thread. Code that runs on a deleted surface, and a procedure that calls itself,
are recorded in `w32fault`.

### WinRTSurface

What the surface holds of a core window, a XAML or a WinUI panel, the token of the last
registration and the set of handlers that are registered. `Attach` is
`resetNativeHandle()`, on the UI thread or another one, `BeginDelete` the destructor;
`Unregister`, `Register`, `Deleted` are its steps, each with the outcomes of
`RunOnUIThread`: the task runs at once (`Goes`), is posted and waited for (`Posts`, `Wait`), cannot be
posted, or a failing call meets the spin of `MS_CHECK` (`"stuck"`). The code waits for a
registration too, although WinRTSurface.cpp:212 says "so no wait". `RunTask` is the dispatcher,
`UIStops` its end with a task it has accepted (`"down"`) or a task that spins,
`Invoke` an event it handles, `WaitForLoop` an application that waits for the render loop
there. `lapses` records what the properties exempt: a panel after a core window, a task that
was not posted, a core window that another thread let go.

### WrappedSurface

Android, UIKit and Cocoa: the callback of the handle and the destructor of each, over
`refs` (references taken minus references given back) and `watched` (observers); the
static part of UIKitSurface is the gate, at the level of its mutex: `Lock`, `Test`,
`Acquired`, `ReleaseGate` on the rendering thread, `AppStateChanged` and `SetAllowed` on the
main thread. A notification that is on its way when the surface is deleted finds it gone
(`StrayCallback`). `RenderLoop` has the same gate as one step.

### EGLContexts and D3D11Contexts

The contexts of the examples as the callbacks of the loop use them: with EGL several
contexts and displays on one thread, `MakeCurrent` as the set of what may be current after it,
since `eglMakeCurrent` can fail on a whole context too, and a destructor that
terminates the display (`Released`, `Terminated`); with D3D11 the swap chain, the views that
keep its buffers, device removal, the map from addresses of contexts to shaders, and the
resize callback that is called without a context (`null_ctx`).

### NativeSystems

A build has some of these systems, and they share no state. `NativeSystems` extends all
nine; the variable `system` says which one is active, and `Only` keeps the variables of the
others. So one run checks all of them, at the cost of their sum and not of their product.

## 3. Runs

| Run | Question |
|---|---|
| `mpsc_fifo` | two producers with two pushes each, a consumer and the destructor: memory safety, no lost link, no leak, refinement of `EventFifo`, and every element is popped |
| `loop_life` | two surfaces from `add` to their removal: contexts are created and destroyed once and acquire/release are balanced under handle changes, a lost handle, background, failed creations and Close; one `onClose` each, and the list agrees with the SurfaceContexts |
| `loop_quiescent` | two threads push events: when the rendering thread blocks nothing is left behind and the context belongs to the current handle |
| `loop_stop` | `stop` and `close` on one thread, `waitForStopped` on another, a close by the window system: a closed surface is removed, the loop ends, the waiter returns |
| `queue` | producers and consumers that block, try and time out, `clear`, `setMax` and `setMin`: every element beyond min and every free place has somebody awake for it, and the queue implements `BoundedFifo` |
| `queue_live` | blocking calls for six settings of the marks, `clear`, `setWakePush`, `setWaitForMin`: nobody sleeps on an element or a free place, producers and consumers never all sleep |
| `native` | the nine systems of `NativeSystems`, each with the properties below |
| five more | statements that the code does not keep, see section 4 |

The properties of `native`:

| System | Properties |
|---|---|
| factory | `NothingElseLost`: deleted surfaces give back all but the six resources of `Forgotten`, nothing incomplete is returned unasked |
| gbm | `ScanoutStable`: the buffer on the screen is not one the GPU may render into, whichever calls failed; `OneFrameKept`: between frames one buffer and its frame buffer are kept, at the end none |
| x11 | `SizeFollows`: once the queue is drained the last size announced is that of the window; `BlocksOnlyWhenRobbed`; `CloseAnswered` |
| wayland | `OrderlyIsSafe`: the roles are asked for in order and the listeners find what they use, under any order of events; `WaylandCloseAnswered`: a close request that was read is answered |
| win32 | `OwnWindowSafe`: no message reaches a deleted surface that has a window of its own and a thread that only waits for the loop |
| winrt | `HandlerTakenBack`: no handler survives its surface, but for the lapses; `CallReturns`: a call that does not wait for a UI thread that is waiting, stuck or gone |
| wrapped | `OneReference`, `DrawsInFront`, `NotificationReturns` |
| egl | `CurrentIsAlive`: what is drawn to exists on a display that was not terminated, though several surfaces share one |
| d3d11 | `ViewportFits`, `OwnShaders` |

Where the code keeps a property only under a condition, the condition is part of the
property and named in its comment (a resize that went astray, a panel after a core window, a
task that could not be posted, an event loop of the application, a device that was removed):
section 4 lists what happens otherwise.

**Bounds.** The queue has max one to three, so that it is full and empty again within two or
three calls of each thread; five pushes let both producers sleep while the queue is above
`wake_push_`. `setMax` and `setMin` notify one thread however far the limit moves, and the
other two setters notify nobody: the wake-up properties hold until the marks are moved,
and say so (`MinUnmoved`, `MaxUnmoved`).

In `loop_life` `close()` may announce nothing (`Silent`), since its properties are about what
happens, not that it does; in `loop_stop` it announces Close, without which no loop ends.
`loop_life` has two surfaces and two handles, which are interchangeable (`Symmetry`; it has
no liveness property), and two quotas: one surface with two changes of its handle, two
changes of the background and a Close, and two surfaces closed by `stop` and by a thread.
Surfaces share only the list, the task queue and the exit test, so one is enough for
`loop_quiescent` and `loop_stop`. The quotas give each thread the calls that the question
needs: more of the same operations repeat interleavings.

In `native`: three buffers (one on the screen, one new, one free); two windows, two pumps,
two sizes and two requests, which already let one pump take what the other has counted and
two resizes cross; two events of a compositor for two dispatchers; one own and two foreign
windows with two messages and two handle changes, so that a window is attached, left and
attached again; three attachments over core window, two XAML panels, a WinUI panel and an
object that is none of them, so that a token can outlive its object; three handles; three
contexts on two displays, so that two share one; two addresses, three devices and three
sizes (zero is a minimised window), so that an address is used again. Sizes and objects
have no other properties than being different.

Deadlock is not checked: the program stops when its quotas are spent, and a native surface
when it is deleted.

**Fairness.** `FairSpec` of the loop: every thread that can continue does (`WF`); the threads
that ask for `mtx` get it (`SF`), because `waitForStopped` sleeps 10 ms without it in every
round and the others hold it for a bounded time. No fairness is assumed for calls of the
application or for the window system. In `BlockingQueue` a woken thread goes on (`WF`);
timeouts and spurious wake-ups need not come. The liveness properties of the loop are
stated for runs in which `acquire` is not refused: a refused one strands events (see below).

`NativeFairSpec`: a pump that has begun goes on, and `waitForStopped` pumps every surface
again and again (`PumpStep`, `PumpsOn`); a Wayland display is pumped, by `waitForStopped`
(RenderLoop.cpp:117-123) or by a task that pops events (PlatformSurface.cpp:177), while nothing
is assumed about the socket being read, because a frame is drawn only when a task runs
(`Dispatch`, `Deliver`); handlers return, and a dispatcher that is not shut down gets to every
posted task however many events it handles before (`Step`, `InvokeReturns`, `SF` of `RunTask`); the rendering thread goes on between acquire
and release, and the main thread gets a mutex that is unlocked again and again (`SF` of
`SetAllowed`: more than `std::mutex` promises, and what its implementations do). Users, applications and compositors owe nothing.

## 4. Where code and documents disagree

Five runs expect a violation; each checks one statement of a document or a comment.

| Run | Statement | What the code does |
|---|---|---|
| `dangling_task` | RenderLoop.h:39, :59 | a task scheduled by an earlier event runs on the deleted SurfaceContext |
| `double_erase` | RenderLoop.cpp:194 | the task of `add` deletes `*end()` when `process()` has removed the surface |
| `stop_exits` | RenderLoop.h:24 | `stop` on a loop without surfaces schedules nothing (RenderLoop.cpp:104), and a Close is popped by nobody while acquire is refused (:209): the loop does not exit |
| `x11_close` | X11Surface.cpp:132 | the pump that takes the close request of a window closes the surface it works for (:161) |
| `wayland_role` | xdg-shell.h:997 | the destructor destroys the xdg_surface before its toplevel, and again after it (WaylandSurface.cpp:93, :97) |

Others need no run to be seen, only the line, or are the conditions of the properties above:

* `start` does not reset `stop_requested` (RenderLoop.cpp:86), so a loop that was stopped once
  and is started again with `start(false)` ends at its first task with an empty list.
* A consumer is woken when more than min elements are there (BlockingQueue.h:127), while
  BlockingQueue.h:30 says "keep blocking until size >= min"; and `push` blocks only at max
  (:132), while :61 says it is blocked above wakePush.
* An event may be pushed behind Close: `closed` is tested before the push
  (PlatformSurface.cpp:183) and set after that of Close.
* An X11 surface that shares its display loses resizes to the pump of another one, and one
  that equals the cached size ends the pump (X11Surface.cpp:152); `resize` announces a size
  that the window manager may deny.
* `Win32Surface::close()` does nothing on a thread that does not own the window
  (Win32Surface.cpp:120): `stop` from there does not end the loop.
* A GBMSurface that was not completed uses a null crtc in its destructor (GBMSurface.cpp:186)
  and a device that may be null in its constructor; it loses the list of the devices when
  DRM_CARD is too high (:101).
* A WaylandSurface binds both shells when a compositor has both, and needs its surface before
  its shell (WaylandSurface.cpp:155); with a wl_compositor that is missing it makes an egl window
  of a null surface (WaylandEGLSurface.cpp:58). Its registry, compositor and pointer are never
  destroyed (WaylandSurface.cpp:27, :129, :136), and two of its listeners are called after their
  stack frames are gone (:28, :40): an output that is plugged in is enough.
* A Win32Surface on a window of the application, or beside an event loop of the application,
  may be deleted while its window dispatches, and one that is attached to a window twice takes its own procedure for the original one.
* A WinRTSurface that was on a core window keeps it, and registers with it again, and on a panel
  after it the token is spent on the wrong object; a task that could not be posted is not run,
  and one that was accepted by a dispatcher that shuts down is waited for for ever.
* `UIKitSurface` gives its layer back twice when it is destroyed (UIKitSurface.mm:115, :91), and
  `acquire` reads `gfx_allowed_` again after it has unlocked (:141); the callback of a
  notification captures the surface and may find it deleted (:104).
* RPiSurface forgets the host when there is no display (RPiSurface.cpp:62), MaliFBSurface a
  file (MaliFBSurface.cpp:57).
* `~WinRTSurface` on the rendering thread waits for the UI thread (WinRTSurface.cpp:259), which
  may be in `waitForStopped` and wait for the rendering thread.
* Nobody looks at whether a context became current (RenderLoop.cpp:211, :272), although :280 counts
  on it: the frame then goes to the context of another surface, or to none.
* In the examples: terminating a display takes it from other contexts (EGLRenderLoop.cpp:64);
  only `rtv_` is released before the buffers are resized (D3D11RenderLoop.cpp:51), and the pipeline
  keeps a view until a frame is drawn, so that a second resize before it is refused (:56);
  a context without a device is forgotten (D3D11RenderLoop.cpp:170), and the resize callback,
  which `process()` calls without a context too (RenderLoop.cpp:237), uses it (testd3d11.cpp:278).

## 5. Proofs

Eight modules hold proofs that `tlapm` checks to the last leaf. Every invariant, and both
refinements, that a run checks on a small instance is proved in them for every value of the
constants that satisfies the named assumptions. Nothing else is assumed, except by three
theorems of `RenderLoopEventProofs` that state a hypothesis about the quotas.

**`MpscFifoProofs`** (assumptions `NullAssumption`: `Null` is no node;
`MaxPushAssumption`: the bound on pushes is a natural number). `Inductive` proves
`Spec => []IInv`. The invariant adds to the properties that the runs check what makes them
inductive: `order`, the list of allocated nodes, has no repetitions, starts at `out_` and
ends at `in_`; each node other than the last has either its link or one producer that is
about to store it; a node being prepared by a producer is in nobody else's hands. From it
follow `TypeCorrect` (`TypeOK`), `MemorySafe` (`NoUseAfterFree`), `LinksKept`
(`NoLostLink`) and `NothingLeaked` (`NoLeak`), for any number of producers and nodes.

`Refinement` proves `Spec => ImplementsFifo`. The abstract queue of a state is the part of
`order` after the node that is at its front, each element unpublished as long as the link
*to* it is missing. An exchange is the abstract claim, the store of `next` the abstract
publication, and the move of the value the abstract pop; every other step leaves the
abstract queue alone. The steps of a producer need `PrevOK` (a missing link belongs to one
producer only) and `PendingOK` (each missing link has a producer that is about to store it,
and every value in the list was pushed).

**`RenderLoopProofs`** (`ThreadAssumption`, `RenderNullAssumption`, `FlagAssumption`,
`QuotaAssumption`, `SilentAssumption`: constants have their types and null is no handle). `Inductive` proves
`Spec => []IInv` for any number of surfaces, threads and handles and any quota, with

| Conjunct of `IInv` | Why it is needed |
|---|---|
| `TypeOK`, `CallOK` | a call in progress has a surface, so that the next step keeps the types |
| `CurOK` | between acquire and return the current surface is in the list; only its own `erase` step frees it |
| `GateBalanced` | the property itself |
| `ListOK` | no surface is twice in the list, and the list holds exactly the live ones: an erase removes one |
| `ReferenceOK` | tasks, callbacks and an `add` in progress refer to a SurfaceContext that was created, perhaps freed since: a task never meets a surface that was not added |
| `CloseCalls` | `onClose` was called for the freed surfaces and for the one being erased, once |
| `ThreadOK` | a running rendering thread is joinable, so that `start` cannot replace it and reset the step of `process()` |

From it follow `TypeCorrect` (`TypeOK`), `AcquireReleaseBalanced` (`GateBalanced`: none of
the return paths of `process()` keeps a surface acquired or releases it twice) and
`RemovedOnce` (`ClosedOnce`). The proof of `Next` has one lemma per action; `fault` is
the reason why `ClosedOnce` survives the two undefined behaviours of section 4: the
thread that meets one stops there, and the theorems say nothing about a program after that.

**`GBMSurfaceProofs`** (`BufferAssumption`: the buffers are finitely many and the null buffer
is none of them). `GBMInv` is inductive for any number of buffers and any pattern of
failing calls:

| Conjunct | Why it is needed |
|---|---|
| `LockedOK` | exactly the previous frame and, within `submit`, the new one are locked: a buffer that is rendered into is neither |
| `FbsOK` | each frame buffer belongs to one of the two frames, so that one is free when `AddFB` needs it |
| `ShownExists` | the crtc never shows a frame buffer that was removed |
| `NewOK` | the new buffer is not the previous one: the GPU rendered into an unlocked buffer |

From it follow `GBMTypeCorrect` (`GBMTypeOK`), `GBMScanoutStable` (`ScanoutStable`) and
`GBMOneFrameKept` (`OneFrameKept`).

**`RenderLoopEventProofs`** is about what `process()` does with events. Its theorems have
hypotheses about the quotas, which say what the threads of a run do at all:

| Theorem | Property | Hypothesis |
|---|---|---|
| `ContextsDestroyedOnce` | `ContextOwnership` | `OnlyResets(r)`: one thread is in charge of the handles |
| `NothingStranded` | `NoStrandedEvent` | `NeverReturnsEarly`: `acquire` is not refused, no window loses its handle, contexts can be created |
| `ContextsFollowHandles` | `ContextFollowsHandle` | `NeverReturnsEarly`; any number of threads may reset handles |

The runs `loop_life` and `loop_quiescent` satisfy the hypotheses of what they check, and none
can be dropped. With two threads that reset, their `before`/`after` pairs overlap, and TLC
finds a context that is never destroyed; with a refused `acquire` or a lost handle, `process()`
returns with events in the queue and TLC finds them stranded. These are the hazards of
PlatformSurface.cpp:125 and RenderLoop.cpp:209.

For the first theorem `HandleInv` says that the announcements of a surface on their way (in the
queue, then in the call of the resetting thread) are a chain, each beginning with the handle the
one before ended with and the last one ending with the handle of the surface. So a context
that exists meets an announcement whose `before` is not null, which is what makes `process()`
destroy it. The proofs rest on three lemmas about queues: what publishing an entry
(`SameHandles`), a push (`AppendHandles`) and a pop (`TailHandles`) do to such a chain.

For the other two `CoverInv` follows who will look at a queue again. An event of a surface in
the list is *covered* by a push that has yet to invoke the callback, by a task, by
`process()` at work on the surface, or by an `add` in progress; each hands over to another:

| Conjunct of `CoverInv` | Why it is needed |
|---|---|
| `EventsCovered` | the property, in states that are not at rest; and a push that finds no callback set overlaps the `add` that is going to set it and to schedule a task |
| `UnpublishedOK` | an entry that is not published belongs to a push that has yet to notify: `process()` may leave what is behind it |
| `StaysAllowed`, `HandleKept` | `process()` takes none of its early returns |
| `CloseQueued` | a surface that is closed has its Close event in the queue or is being removed, so that a dropped handle event does no harm |
| `ContextsFollow` | a context on an old handle has the event that replaces it still before it |
| `VisitOK` | `add` is about one surface |

**`BlockingQueueProofs`** (`SettingsAssumption`, `LimitsAssumption`, `QueueQuotaAssumption`: marks
and quotas are numbers; `NothingAssumption`; `ThreadsAssumption`: the threads are finitely many,
so that those that are awake can be counted). The invariant has the types (`CoreOK`, `MarksOK`,
`ArgOK`), quotas that only shrink (`LeftOK`, from which follows that the marks have not moved) and
the two counts: while somebody sleeps in `empty_`, the elements beyond min are at most as many
as the consumers that were woken and have not run yet (`ElementsOK`); while somebody sleeps in
`full_`, the same for free places and producers (`PlacesOK`). `PlacesOK` counts places up to
`wake_push_ + 1`, if that is less than max: a pop notifies only below that mark. From it follow
`TypeCorrect`, `ElementsNotLost`, `PlacesNotLost` and `NeverAllAsleep`. `Refinement`
proves `Spec => ImplementsBoundedFifo`: a critical section is a put, a take, a clear or a new
mark of `BoundedFifo`, or it leaves the list alone.

**`X11SurfaceProofs`** (`PumpAssumption`, `SizeAssumption`). `SizesFollow` and `OnlyRobbedBlock`, for
any number of windows and of threads that pump. `CountOK`: a pump that nobody robbed still
finds what it counted. `WayOK` is about the sizes on their way to a surface (what a pump
holds, what is queued): the last one is that of the window, and when none of them is news to
the surface, what it was told last is that of the window too. So a pump that takes a size
equal to the cached one for the end of its work leaves nothing untold.

**`WindowSurfacesProofs`**, for any number of windows, panels, messages, resets, events and
threads that dispatch:

* `OwnWindowIsSafe` (`WindowAssumption`, `Win32BoundAssumption`). What dispatches a message to
  `WinProc`, where the application has no event loop, is `kept`: it holds the mutex of the loop or a
  `shared_ptr`, so that the surface cannot be deleted before the message is handled.
* `HandlerIsTakenBack` (`ObjectAssumption`). `CalmOK` says that the only handler registered is
  the one whose object and token the surface remembers, through every place where a call
  waits for the UI thread, until a lapse: a panel after a core window, or a task that was
  not posted. Registrations that fail are no lapse.
* `HoldsOneReference`, `DrawsOnlyInFront` (`NativeAssumption`, `WrappedBoundAssumption`). `GateOK`
  says which thread holds the mutex at every step of `acquire()` and of the notification.
* `OrderlyStaysSafe` (`NewsAssumption`, `NoneAssumption`). `BoundOK` says what is bound
  once the registry has announced which global, `ShellEventsOK` that no event of a
  wl_shell_surface is on its way when there is none: of the two listeners that are gone only
  that of the registry can be called, and the theorem does not say that it is not.

**`NativeSystemsProofs`** (`ContextAssumption`, `D3DAssumption`): `CurrentStaysAlive`,
`ViewportFitsBuffers`, `ShadersAreItsOwn`; and `OnlyForgottenIsLost`, which goes
through the scripts of the constructors call by call, and through what the destructors give
back of it. `NativeSystemsCompose` proves that a
behaviour of `NativeSystems` is a behaviour of each of its nine systems, and
`NativeSystemsSafe` combines all of the above: the thirteen invariants of the run `native`,
each with the conditions it names, hold of the composition.

## 6. Only model-checked, and not modelled

Model-checked only: the liveness properties (`EventuallyPopped`, `StopEnds`, `WaitReturns`,
`CloseRemoves`, `PopReturns`, `PushReturns`, `CloseAnswered`, `WaylandCloseAnswered`, `CallReturns`,
`NotificationReturns`), because TLAPS has no rules for fairness and `ENABLED`; and what section 4
says of runs that expect a violation, which is a single behaviour each. The proofs are about
the models: that these follow the code is what the map of `PROJECT.json` is for.

Not modelled:

* OpenWFCSurface, which `create` never constructs; winui.h, which declares interfaces; build
  and project files.
* `size()` of the surfaces, `doResize` of Win32Surface and `resize` of AndroidSurface, which ask
  or tell the window system and change nothing of the surface; `GetOnUIThread`, which has no
  caller; the requests and events of xdg-shell that WaylandSurface does not use.
* The main functions of the examples: what they ask of the loop is in `RenderLoop`.
* Data races on plain members (`native_handle`, the event callback, the list of surfaces under
  `find`) below one step, and weak memory orders (the relaxed loads of `mpsc_fifo::pop`).
* A seat that gains or loses its pointer later: its listener only asks for the pointer.
* The native surfaces are not composed with `RenderLoop`: what it does to them is an action of
  their environment (the rendering thread deletes, waits, acquires), with the mutex where it
  matters (Win32Surface, WinRTSurface).

## 7. Plan

In this order:

1. `SurfaceLifecycle`, the abstract life of one surface (added, attached to a handle,
   detached, closed, removed), implemented by `RenderLoop`, with a proof of the refinement.
2. Action properties of the loop (what a step may never do to a surface that was freed), and
   `NothingStranded` for loops in which `acquire` is refused but comes back with an update.
3. `RenderLoop` composed with the display of `X11Surface` and with the UI thread of
   `WinRTSurface`.
