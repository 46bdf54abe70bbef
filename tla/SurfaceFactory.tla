--------------------------- MODULE SurfaceFactory ----------------------------
(****************************************************************************)
(* PlatformSurface::create(), with the constructors and destructors of the  *)
(* surfaces it tries.  A constructor is a script of calls; the one that     *)
(* fails ends it, and leaves a surface without a native handle.  create()   *)
(* deletes such a surface and tries the next kind - unless the application  *)
(* has asked for this kind.                                                 *)
(****************************************************************************)
EXTENDS Naturals, Sequences

VARIABLES
  build,      \* the platform the library is built for
  asked_for,  \* the parameter type of create()
  wrapping,   \* the parameter handle is not null
  phase,      \* where create() is
  tries,      \* the creators it has still to try
  kind,       \* the surface under construction or returned
  step,       \* the next call of its constructor
  got,        \* what it holds
  handle_set, \* its nativeHandle() is not null
  lost,       \* what deleted surfaces did not give back
  crashed_in  \* the kind of surface that fell over a bad pointer, or "none"

factoryVars == <<build, asked_for, wrapping, phase, tries, kind, step, got, handle_set, lost,
                 crashed_in>>
parameters == <<build, asked_for, wrapping>>

Builds == {"desktop", "rpi", "windows", "mac"}
Types == {"Default", "X11", "Wayland", "GBM", "XCB"}   \* there is no XCB surface

FactoryInit ==
  /\ build = "desktop" /\ asked_for = "Default" /\ wrapping = FALSE
  /\ phase = "call" /\ tries = <<>> /\ kind = "none" /\ step = 1
  /\ got = {} /\ handle_set = FALSE /\ lost = {} /\ crashed_in = "none"

-----------------------------------------------------------------------------
(* The constructors.  need: returns without it; try: goes on without it;    *)
(* test: returns or goes on; check: returns unless it was got; use: of a    *)
(* pointer that is not checked.                                             *)
Calls(op, what) == [op |-> op, what |-> what]

Call(op, r) == Calls(op, {r})

X11Display == Call("need", "x11_display")     \* opened once, and kept

X11Script == <<X11Display, Call("get", "window"), Call("handle", "window")>>

(* The first card with a connected connector, or that of DRM_CARD: with a   *)
(* number that is too high, the list of the devices is left as it is.       *)
FdConnector == <<Call("need", "drm_devices"), Call("test", "card_number"), Call("try", "card"),
                 Call("drop", "drm_devices"), Call("check", "card")>>

GBMScript == <<Call("test", "symbols")>> \o FdConnector
             \o <<Call("test", "encoder"), Call("need", "crtc"), Call("try", "device"),
                  Call("use", "device"), Call("try", "gbm_surface"),
                  Call("handle", "gbm_surface")>>

IsLegacyGLDriver == Call("test", "legacy_driver")

FullscreenWindow == <<Call("test", "display_size"), Call("get", "element")>>

RPiScript == <<Call("get", "bcm_host"), Call("need", "dispmanx"), IsLegacyGLDriver,
               Call("try", "gles2")>> \o FullscreenWindow \o <<Call("handle", "element")>>

MaliScript == <<Call("test", "dev_mali"), Call("need", "libmali"), Call("test", "DRI2Connect"),
                Call("try", "fb0"), Call("test", "screen_info"), Call("drop", "fb0"),
                Call("handle", "libmali")>>

(* The registry announces what the compositor has; a shell asks for the     *)
(* surface that wl_compositor gave (the other order is in WaylandSurface).  *)
WaylandScript == <<Call("need", "wl_display"), Call("get", "wl_registry"),
                   Calls("try", {"wl_compositor", "wl_surface"}),
                   Calls("try", {"wl_compositor", "wl_surface", "shell"}),
                   Calls("try", {"wl_seat", "wl_pointer"}),
                   Call("test", "libwayland_egl"), Call("use", "wl_surface"),
                   Call("try", "egl_window"), Call("handle", "egl_window")>>

Win32Script == <<Call("get", "hwnd"), Call("handle", "hwnd")>>

(* The other constructors make nothing, and neither does Win32Surface() for *)
(* a window of the application.                                             *)
Script(k) == CASE k = "x11" -> X11Script [] k = "gbm" -> GBMScript
               [] k = "rpi" -> RPiScript [] k = "mali" -> MaliScript
               [] k = "wayland" -> WaylandScript
               [] k = "win32" /\ ~wrapping -> Win32Script
               [] OTHER -> <<>>

(* The destructors: what they give back ...                                 *)
X11GivesBack == IF handle_set THEN {"window"} ELSE {}

GBMGivesBack == {"card", "crtc", "device", "gbm_surface"}

RPiGivesBack == IF "dispmanx" \notin got THEN {}
                ELSE {"bcm_host", "dispmanx", "gles2"} \cup (IF handle_set THEN {"element"} ELSE {})

MaliGivesBack == {"libmali"}

WaylandGivesBack == {"egl_window", "shell", "wl_seat", "wl_surface", "wl_display"}

Win32GivesBack == {"hwnd"}

GivesBack == CASE kind = "x11" -> X11GivesBack [] kind = "gbm" -> GBMGivesBack
               [] kind = "rpi" -> RPiGivesBack [] kind = "mali" -> MaliGivesBack
               [] kind = "wayland" -> WaylandGivesBack [] kind = "win32" -> Win32GivesBack
               [] OTHER -> {}

(* ... and what they do to a bad pointer: the crtc is not checked, and the  *)
(* object of a Wayland shell is destroyed twice through the union.          *)
UsesBlindly == \/ kind = "gbm" /\ "crtc" \notin got
               \/ kind = "wayland" /\ "shell" \in got

(* The display is opened once and stays.                                    *)
Static == {"x11_display"}

-----------------------------------------------------------------------------
(* create(): a wrapper for a handle, the type that was asked for, or the    *)
(* kinds of the platform in their order.                                    *)
Fallbacks == CASE build = "windows" -> <<"win32">>
               [] build = "rpi"     -> <<"rpi", "mali", "x11", "wayland", "gbm">>
               [] build = "desktop" -> <<"x11", "wayland", "gbm">>
               [] OTHER -> <<>>

Wraps == wrapping /\ (build \in {"windows", "mac"} => asked_for # "Default")

KindOf(type) == CASE type = "X11" -> "x11" [] type = "Wayland" -> "wayland" [] type = "GBM" -> "gbm"

Asked == build \in {"desktop", "rpi"} /\ asked_for \notin {"Default", "XCB"}

(* create_win32_surface(): a handle that is no window is a panel or a core  *)
(* window; where that is not built in, create() ends with the wrapper.      *)
Win32Kinds == {"win32", "winrt", "wrapper"}

Begin(k, ks) == /\ kind' = k /\ tries' = ks /\ step' = 1 /\ phase' = "construct"
                /\ got' = {} /\ handle_set' = FALSE

CallCreate ==
  /\ phase = "call"
  /\ build' \in Builds /\ asked_for' \in Types /\ wrapping' \in BOOLEAN
  /\ phase' = "create"
  /\ UNCHANGED <<tries, kind, step, got, handle_set, lost, crashed_in>>

Create ==
  /\ phase = "create"
  /\ CASE Wraps -> Begin("wrapper", <<>>)
       [] ~Wraps /\ Asked -> Begin(KindOf(asked_for), <<>>)
       [] ~Wraps /\ ~Asked /\ build = "mac" -> Begin("cocoa", <<>>)
       [] ~Wraps /\ build = "windows" /\ wrapping -> \E k \in Win32Kinds : Begin(k, <<>>)
       [] OTHER -> Begin(Head(Fallbacks), Tail(Fallbacks))
  /\ UNCHANGED <<parameters, lost, crashed_in>>

(* What a bad pointer does is undefined: the process ends there, or goes on.*)
Outcomes(bad) == {crashed_in} \cup (IF bad THEN {kind} ELSE {})

(* One call of the constructor.                                             *)
Acquire(what) == got' = got \cup what /\ step' = step + 1

ReturnEarly == step' = Len(Script(kind)) + 1 /\ UNCHANGED got

Construct ==
  /\ phase = "construct" /\ step <= Len(Script(kind))
  /\ LET c == Script(kind)[step] IN
       /\ \/ c.op \in {"need", "get", "try"} /\ Acquire(c.what)
          \/ c.op \in {"need", "test"} /\ ReturnEarly
          \/ c.op \in {"try", "test", "use", "handle"} /\ step' = step + 1 /\ UNCHANGED got
          \/ c.op = "check" /\ c.what \subseteq got /\ step' = step + 1 /\ UNCHANGED got
          \/ c.op = "check" /\ ~(c.what \subseteq got) /\ ReturnEarly
          \/ c.op = "drop" /\ step' = step + 1 /\ got' = got \ c.what
       /\ handle_set' = (handle_set \/ (c.op = "handle" /\ c.what \subseteq got))
       /\ crashed_in' \in Outcomes(c.op = "use" /\ ~(c.what \subseteq got))
  /\ UNCHANGED <<parameters, phase, tries, kind, lost>>

(* What create() does with it.  A bug: whatever was made is returned.       *)
Returned_Any == TRUE

Returned == Asked \/ Wraps \/ handle_set \/ wrapping \/ kind \in {"cocoa", "wrapper"}

Completed == phase = "construct" /\ step > Len(Script(kind))

Return ==
  /\ Completed /\ Returned
  /\ phase' = "done"
  /\ UNCHANGED <<parameters, tries, kind, step, got, handle_set, lost, crashed_in>>

GiveBack == /\ crashed_in' \in Outcomes(UsesBlindly)
            /\ lost' = lost \cup ((got \ GivesBack) \ Static)

NextKind ==
  /\ Completed /\ ~Returned
  /\ GiveBack
  /\ Begin(IF tries = <<>> THEN "wrapper" ELSE Head(tries),
           IF tries = <<>> THEN <<>> ELSE Tail(tries))
  /\ UNCHANGED parameters

(* The application, or the render loop, deletes what create() returned.     *)
DeleteReturned ==
  /\ phase = "done"
  /\ GiveBack
  /\ phase' = "deleted" /\ got' = {}
  /\ UNCHANGED <<parameters, tries, kind, step, handle_set>>

FactoryNext == /\ crashed_in = "none"
               /\ CallCreate \/ Create \/ Construct \/ Return \/ NextKind \/ DeleteReturned

FactorySpec == FactoryInit /\ [][FactoryNext]_factoryVars

-----------------------------------------------------------------------------
(* What some constructor takes and no destructor gives back: the host of a  *)
(* RPiSurface without a display, the frame buffer that MaliFBSurface opened *)
(* in vain, the devices listed for a card number that is too high, and of   *)
(* Wayland the registry, the compositor and the pointer.                    *)
Forgotten == {"bcm_host", "fb0", "drm_devices", "wl_registry", "wl_compositor", "wl_pointer"}

(* A surface that is deleted gives back all else that it got, in whichever  *)
(* call its constructor stopped: each connection to a display, card, device *)
(* and library, each window and element (the destructors).  And create()    *)
(* returns nothing incomplete that nobody asked for (PlatformSurface.cpp).  *)
NothingElseLost ==
  /\ lost \subseteq Forgotten
  /\ (phase = "done" /\ ~Asked /\ ~wrapping) => (handle_set \/ got = {})
=============================================================================
