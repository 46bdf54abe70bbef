--------------------------- MODULE WaylandSurface ----------------------------
(****************************************************************************)
(* WaylandSurface.cpp and WaylandEGLSurface.cpp, with the requests and      *)
(* events of xdg-shell.h that they use.  The constructor binds the globals  *)
(* of the compositor in the order they are announced; the surface then      *)
(* lives on the events of its display, which only the round trips of the    *)
(* constructors and a rendering call read from the socket, and which two    *)
(* threads may dispatch; the destructor walks over the member pointers,     *)
(* where wl_shell and xdg_shell share the words of a union.  The listeners  *)
(* of the registry and of the wl_shell_surface are local variables of the   *)
(* functions that register them, which libwayland goes on to call through.  *)
(****************************************************************************)
EXTENDS Naturals, Sequences, SequencesExt

CONSTANTS Dispatchers,   \* the threads that call processEvents()
          None,          \* a null pointer; also "no event"
          MaxNews        \* bound: the events the compositor sends

ASSUME NewsAssumption == MaxNews \in Nat
ASSUME NoneAssumption == None \notin {"display", "surface", "seat", "wm", "shell", "xdg_surface",
                                      "shell_surface", "toplevel", "eglwin",
                                      "global", "global_remove", "ping", "configure", "size",
                                      "close", "shell_ping", "shell_size", "button"}

VARIABLES
  wpc,         \* where the owner of the surface is, or what brought it down
  order,       \* the globals announced so far, in their order
  member,      \* member[m]: the object the member pointer m holds
  alive,       \* the objects (client side) that exist
  wire,        \* events sent by the compositor and not read
  wlq,         \* events read and not dispatched
  disp,        \* disp[t]: the event whose listener thread t calls
  wlclosed,    \* close() was called
  dtor,        \* what the destructor has still to destroy
  news         \* what remains of MaxNews

wlVars == <<wpc, order, member, alive, wire, wlq, disp, wlclosed, dtor, news>>

Globals == {"compositor", "seat", "wm_base", "shell"}

(* The surface is constructed (the base class, then the EGL window) or used. *)
Constructing == wpc \in {"registry", "egl"}
Live == Constructing \/ wpc = "run"

(* shell_ is a union: shell_.wl.shell is shell_.xdg.wm, shell_.wl.surface   *)
(* is shell_.xdg.surface.                                                   *)
Members == {"display", "surface", "seat", "wm", "shell_surface", "toplevel", "handle"}

WLInit ==
  /\ wpc = "registry"
  /\ order = <<>>
  /\ member = [m \in Members |-> IF m = "display" THEN "display" ELSE None]
  /\ alive = {"display"}
  /\ wire = <<>> /\ wlq = <<>> /\ disp = [t \in Dispatchers |-> None]
  /\ wlclosed = FALSE /\ dtor = <<>> /\ news = MaxNews

Bind(new) == member' = [m \in Members |-> IF m \in DOMAIN new THEN new[m] ELSE member[m]]

(* The compositor announces those it has, each once, in any order, and the  *)
(* round trips of the constructor call registry_add_object() for each.      *)
Announced(g) == /\ wpc = "registry" /\ g \in Globals \ ToSet(order)
                /\ \A t \in Dispatchers : disp[t] = None
                /\ order' = Append(order, g)
                /\ UNCHANGED <<wire, wlq, disp, wlclosed, dtor, news>>

-----------------------------------------------------------------------------
(* registry_add_object().  A bug: the surface is created only on the second *)
(* roundtrip.                                                               *)
BindCompositor_NoSurface ==
  /\ Announced("compositor")
  /\ alive' = alive \cup {"compositor"}
  /\ UNCHANGED <<member, wpc>>

BindCompositor ==
  /\ Announced("compositor")
  /\ Bind([surface |-> "surface"])
  /\ alive' = alive \cup {"compositor", "surface"}
  /\ UNCHANGED wpc

(* The seat announces a pointer at once; its buttons move the window.       *)
BindSeat ==
  /\ Announced("seat")
  /\ Bind([seat |-> "seat"])
  /\ alive' = alive \cup {"seat", "pointer"}
  /\ UNCHANGED wpc

(* xdg_wm_base.get_xdg_surface: libwayland aborts on a null surface, and    *)
(* the compositor on a surface that already has a role.                     *)
GetXdgSurface(ok) == IF member["surface"] = None THEN "abort"
                     ELSE IF "shell_surface" \in alive THEN "error" ELSE ok

BindXdg ==
  /\ Announced("wm_base")
  /\ Bind([wm |-> "wm", shell_surface |-> "xdg_surface", toplevel |-> "toplevel"])
  /\ wpc' = GetXdgSurface(wpc)
  /\ alive' = alive \cup {"wm", "xdg_surface", "toplevel"}

BindShell ==
  /\ Announced("shell")
  /\ Bind([wm |-> "shell", shell_surface |-> "shell_surface"])
  /\ wpc' = IF member["surface"] = None THEN "abort"
            ELSE IF "toplevel" \in alive THEN "error" ELSE wpc
  /\ alive' = alive \cup {"shell", "shell_surface"}

(* WaylandEGLSurface(): without libwayland-egl it returns at once, and      *)
(* PlatformSurface::create() deletes a surface without a handle.  The       *)
(* window is null when there is no memory for it.  The surface it gets is   *)
(* not checked: a null one is used here or by the first frame.              *)
CreateEglWindow ==
  /\ wpc = "registry" /\ \A t \in Dispatchers : disp[t] = None
  /\ \/ /\ Bind([handle |-> "eglwin"])
        /\ alive' = alive \cup {"eglwin"}
        /\ wpc' = "egl"
     \/ /\ UNCHANGED <<member, alive>>
        /\ wpc' \in {"egl", "closed"} \cup (IF member["surface"] = None THEN {"no_surface"} ELSE {})
  /\ UNCHANGED <<order, wire, wlq, disp, wlclosed, dtor, news>>

(* The round trip after it is over.                                         *)
Constructed ==
  /\ wpc = "egl" /\ \A t \in Dispatchers : disp[t] = None
  /\ wpc' = IF member["handle"] = None THEN "closed" ELSE "run"
  /\ UNCHANGED <<order, member, alive, wire, wlq, disp, wlclosed, dtor, news>>

-----------------------------------------------------------------------------
(* The events the compositor sends, by the object it sends them to.  A      *)
(* global here is one that the code does not bind, such as an output that   *)
(* is plugged in.  A pointer is on a surface that a frame gave contents.    *)
RegistryEvents == {"global", "global_remove"}
WmBaseEvents == {"ping"}
XdgSurfaceEvents == {"configure"}
ToplevelEvents == {"size", "close"}   \* two others are ignored
ShellSurfaceEvents == {"shell_ping", "shell_size"}
PointerEvents == {"button"}

Events == RegistryEvents
          \cup (IF "wm" \in alive THEN WmBaseEvents ELSE {})
          \cup (IF "xdg_surface" \in alive THEN XdgSurfaceEvents ELSE {})
          \cup (IF "toplevel" \in alive THEN ToplevelEvents ELSE {})
          \cup (IF "shell_surface" \in alive THEN ShellSurfaceEvents ELSE {})
          \cup (IF "pointer" \in alive /\ wpc = "run" THEN PointerEvents ELSE {})

Send ==
  /\ Live /\ news > 0
  /\ \E e \in Events : wire' = Append(wire, e)
  /\ news' = news - 1
  /\ UNCHANGED <<wpc, order, member, alive, wlq, disp, wlclosed, dtor>>

(* A round trip of the constructors, later eglSwapBuffers() reads the       *)
(* socket: wl_display_dispatch_pending() does not.                          *)
ReadSocket ==
  /\ Live /\ wire # <<>>
  /\ wlq' = wlq \o wire /\ wire' = <<>>
  /\ UNCHANGED <<wpc, order, member, alive, disp, wlclosed, dtor, news>>

(* One event off the queue, then its listener: by a round trip of the one   *)
(* thread that constructs the surface, later by processEvents().            *)
Dispatch(t) ==
  /\ Live /\ disp[t] = None /\ wlq # <<>>
  /\ Constructing => \A u \in Dispatchers : disp[u] = None
  /\ disp' = [disp EXCEPT ![t] = Head(wlq)]
  /\ wlq' = Tail(wlq)
  /\ UNCHANGED <<wpc, order, member, alive, wire, wlclosed, dtor, news>>

(* The listener returns.                                                    *)
Handled(t, events) ==
  /\ Live /\ disp[t] \in events
  /\ disp' = [disp EXCEPT ![t] = None]
  /\ UNCHANGED <<order, member, alive, wire, wlq, dtor, news>>

Pong(t) == Handled(t, {"ping", "shell_ping"}) /\ UNCHANGED <<wpc, wlclosed>>

AckConfigure(t) == Handled(t, {"configure"}) /\ UNCHANGED <<wpc, wlclosed>>

(* Both listeners of a registry event do nothing about these.               *)
IgnoreGlobal(t) == Handled(t, RegistryEvents) /\ UNCHANGED <<wpc, wlclosed>>

(* The base class is under construction: its resize() is the one called.    *)
ResizeEglWindow(t) ==
  /\ Handled(t, {"size", "shell_size"})
  /\ wpc' = IF wpc # "registry" /\ member["handle"] = None THEN "no_handle" ELSE wpc
  /\ UNCHANGED wlclosed

(* A bug: the listener of close does nothing.                               *)
CloseToplevel_Ignored(t) == Handled(t, {"close"}) /\ UNCHANGED <<wpc, wlclosed>>

CloseToplevel(t) == /\ Handled(t, {"close"})
                    /\ wlclosed' = TRUE
                    /\ UNCHANGED wpc

(* A button moves the toplevel; with a wl_shell there is none.              *)
MoveToplevel(t) == /\ Handled(t, {"button"})
                   /\ wpc' = IF member["toplevel"] = None THEN "no_toplevel" ELSE wpc
                   /\ UNCHANGED wlclosed

(* reg_listener is gone with WaylandSurface(), ss_listener with             *)
(* init_wl_shell(): what libwayland then calls is undefined.  A build that  *)
(* keeps the constants in static memory gets away with it, as above.        *)
StaleListener(t) ==
  /\ Live
  /\ \/ disp[t] \in ShellSurfaceEvents
     \/ disp[t] \in RegistryEvents /\ wpc # "registry"
  /\ wpc' = "stale"
  /\ UNCHANGED <<order, member, alive, wire, wlq, disp, wlclosed, dtor, news>>

Deliver(t) == Pong(t) \/ AckConfigure(t) \/ IgnoreGlobal(t) \/ ResizeEglWindow(t)
              \/ CloseToplevel(t) \/ MoveToplevel(t) \/ StaleListener(t)

-----------------------------------------------------------------------------
(* The loop deletes a closed surface when nobody dispatches.  The egl       *)
(* window goes first, then the members of the base class.                   *)
DestroyOrder == <<"handle", "shell_surface", "toplevel", "shell_surface", "wm", "seat",
                  "surface", "display">>

BeginDestroy ==
  /\ \/ wpc = "closed"
     \/ wpc = "run" /\ wlclosed /\ \A t \in Dispatchers : disp[t] = None
  /\ wpc' = "destroy"
  /\ dtor' = DestroyOrder
  /\ UNCHANGED <<order, member, alive, wire, wlq, disp, wlclosed, news>>

(* The null pointers are skipped; an object that is gone may not be used.   *)
Destroy ==
  /\ wpc = "destroy" /\ dtor # <<>>
  /\ dtor' = Tail(dtor)
  /\ LET o == member[Head(dtor)] IN
       /\ alive' = alive \ {o}
       /\ wpc' = IF o = None \/ o \in alive THEN wpc ELSE "gone"
  /\ UNCHANGED <<order, member, wire, wlq, disp, wlclosed, news>>

WLNext ==
  \/ BindCompositor \/ BindSeat \/ BindXdg \/ BindShell
  \/ CreateEglWindow \/ Constructed
  \/ Send \/ ReadSocket \/ (\E t \in Dispatchers : Dispatch(t) \/ Deliver(t))
  \/ BeginDestroy \/ Destroy

WLSpec == WLInit /\ [][WLNext]_wlVars

(* A thread pumps the display: the one in waitForStopped(), or one that     *)
(* pops the events of the surface.  Nothing makes a thread read the socket. *)
WLFairSpec == /\ WLSpec
              /\ \A t \in Dispatchers : WF_wlVars(Dispatch(t)) /\ WF_wlVars(Deliver(t))

-----------------------------------------------------------------------------
Orderly ==
  /\ "shell" \notin ToSet(order) /\ "wm_base" \in ToSet(order)
  /\ \E i \in DOMAIN order : order[i] = "compositor" /\ "wm_base" \notin ToSet(SubSeq(order, 1, i))

(* On a compositor that announces wl_compositor before its one shell, which *)
(* is xdg_wm_base, the constructor never asks for a role without a surface  *)
(* or twice, nor for an EGL window of none, a button finds its toplevel, a  *)
(* surface in use has its EGL window, and when a listener that is gone is   *)
(* called, it is the one of the registry: whatever the order of the rest    *)
(* and the events on their way (WaylandSurface.cpp: registry_add_object()   *)
(* and the listeners).                                                      *)
OrderlyIsSafe ==
  Orderly => /\ wpc \notin {"abort", "error", "no_surface", "no_toplevel"}
             /\ wpc = "run" => member["handle"] # None
             /\ wpc = "stale" => \E t \in Dispatchers : disp[t] \in RegistryEvents

Received(e) == (\E i \in DOMAIN wlq : wlq[i] = e) \/ (\E t \in Dispatchers : disp[t] = e)

(* A close request of the compositor that is read from the socket reaches   *)
(* the application, behind whatever else was read and over two threads that *)
(* dispatch, unless the surface is brought down first.                      *)
WaylandCloseAnswered == Received("close") ~> (wlclosed \/ ~Live)

(* "An xdg_surface must only be destroyed after its role object has been    *)
(* destroyed" (xdg-shell.h:997): ~WaylandSurface() takes it for a           *)
(* wl_shell_surface, whose place in the union it has.                       *)
RoleDestroyedFirst == "toplevel" \in alive => "xdg_surface" \in alive
=============================================================================
