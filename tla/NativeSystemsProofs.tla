------------------------- MODULE NativeSystemsProofs -------------------------
(****************************************************************************)
(* The contexts of the examples and PlatformSurface::create(), for any      *)
(* number of contexts, devices, window sizes and attempts; and the native   *)
(* side as a whole, which is safe because each of its systems is.           *)
(****************************************************************************)
EXTENDS NativeSystems, GBMSurfaceProofs, X11SurfaceProofs, WindowSurfacesProofs

-----------------------------------------------------------------------------
(* A context that is current is whole, on a display that was there: no      *)
(* display is shared with a context that has none, and whichever is deleted *)
(* on its display leaves nothing current.                                   *)
EGLInv ==
  /\ display_ \in [Contexts -> Displays \cup {NoDisplay}]
  /\ made \in [Contexts -> SUBSET Whole]
  /\ in_use \subseteq Contexts
  /\ \A c \in in_use : display_[c] = NoDisplay => made[c] = {}
  /\ CurrentIsAlive

(* What is current exists, whatever eglMakeCurrent() refuses, whichever     *)
(* constructor stopped early and however many contexts share a display that *)
(* one of them terminates (EGLRenderLoop.cpp, process()).                   *)
THEOREM CurrentStaysAlive == EGLSpec => []CurrentIsAlive
<1>1. EGLInit => EGLInv
  BY DEF EGLInit, EGLInv, CurrentIsAlive
<1>2. EGLInv /\ [EGLNext]_eglVars => EGLInv'
  <2> SUFFICES ASSUME EGLInv, [EGLNext]_eglVars
               PROVE  EGLInv'
    OBVIOUS
  <2> USE ContextAssumption DEF EGLInv, CurrentIsAlive, Whole
  <2>1. ASSUME NEW c \in Contexts, CreateContext(c) PROVE EGLInv'
    <3>1. PICK d \in Displays \cup {NoDisplay}, what \in {{}, {"surface"}, Whole} :
            /\ d = NoDisplay => what = {}
            /\ display_' = [display_ EXCEPT ![c] = d] /\ made' = [made EXCEPT ![c] = what]
      BY <2>1 DEF CreateContext
    <3>2. c \notin in_use /\ in_use' = in_use \cup {c} /\ valid' = valid \cup {c}
          /\ UNCHANGED current
      BY <2>1 DEF CreateContext
    <3>3. what \subseteq Whole
      BY DEF Whole
    <3> QED
      BY <3>1, <3>2, <3>3
  <2>2. ASSUME NEW c \in Contexts, Activate(c) PROVE EGLInv'
    <3>1. current' = current \/ current' = NoContext
          \/ (current' = c /\ made[c] = Whole /\ c \in valid)
      BY <2>2 DEF Activate, MakeCurrent
    <3> QED
      BY <2>2, <3>1 DEF Activate
  <2>3. ASSUME NEW c \in Contexts, DestroyContext(c) PROVE EGLInv'
    <3>1. made' = [made EXCEPT ![c] = {}] /\ in_use' = in_use \ {c} /\ UNCHANGED display_
          /\ valid' = valid \ Terminated(c) /\ current' = Released(c)
      BY <2>3 DEF DestroyContext
    <3>2. made' \in [Contexts -> SUBSET Whole]
      BY <3>1
    <3>3. CASE display_[c] = NoDisplay /\ current # NoContext
      <4>1. current \in in_use /\ current # c /\ current \notin Terminated(c)
        BY <3>3 DEF Terminated
      <4> QED
        BY <3>1, <3>2, <3>3, <4>1 DEF Released
    <3>4. CASE ~(display_[c] = NoDisplay /\ current # NoContext)
      BY <3>1, <3>2, <3>4 DEF Released
    <3> QED
      BY <3>3, <3>4
  <2>4. CASE DrawFrame
    BY <2>4 DEF DrawFrame
  <2>5. CASE UNCHANGED eglVars
    BY <2>5 DEF eglVars
  <2> QED
    BY <2>1, <2>2, <2>3, <2>4, <2>5 DEF EGLNext
<1>3. EGLInv => CurrentIsAlive
  BY DEF EGLInv
<1> QED
  BY <1>1, <1>2, <1>3, PTL DEF EGLSpec

-----------------------------------------------------------------------------
(* A frame that was drawn has been presented, and the pipeline has let go   *)
(* of the view: only a resize before that is refused, and says so.          *)
D3DInv ==
  /\ ctx \in Addresses \cup {NoAddress}
  /\ devices \in Nat
  /\ ctx_shader \in [Addresses -> [vs : Nat, ps : Nat]]
  /\ rtv_ \in BOOLEAN /\ bound \in BOOLEAN /\ drawn \in BOOLEAN
  /\ broken \in BOOLEAN /\ unbuilt \in BOOLEAN
  /\ drawn => ~bound
  /\ refused \in {"no", "early"}
  /\ ViewportFits
  /\ OwnShaders

(* There is no context at first.                                            *)
LEMMA InitD3D == D3DInit => D3DInv
<1> SUFFICES ASSUME D3DInit PROVE D3DInv
  OBVIOUS
<1>1. ctx = NoAddress /\ devices \in Nat /\ ctx_shader \in [Addresses -> [vs : Nat, ps : Nat]]
  BY DEF D3DInit
<1>2. rtv_ = FALSE /\ bound = FALSE /\ drawn = FALSE /\ broken = FALSE /\ unbuilt = FALSE
  BY DEF D3DInit
<1>3. refused = "no"
  BY DEF D3DInit
<1> QED
  BY <1>1, <1>2, <1>3 DEF D3DInv, ViewportFits, OwnShaders

(* A new context builds the shaders of its own device, whatever an earlier  *)
(* one left under its address.                                              *)
LEMMA CreateD3DKeeps ==
  ASSUME D3DInv, NEW a \in Addresses, NEW z \in ClientSizes, CreateD3D(a, z)
  PROVE  D3DInv'
<1> USE D3DAssumption DEF D3DInv, ViewportFits, OwnShaders, chain
<1>1. CASE ctx' = ctx
  BY <1>1 DEF CreateD3D
<1>2. CASE ctx' # ctx
  <2>1. /\ ctx' = a /\ dev_' = devices' /\ devices' = devices + 1
        /\ buffers' = z /\ viewport' = z /\ rtv_' \in BOOLEAN /\ bound' \in BOOLEAN
        /\ drawn' = FALSE /\ refused' = "no" /\ broken' = FALSE
    BY <1>2 DEF CreateD3D
  <2>2. PICK upto \in 0..4 :
          /\ ctx_shader' = [ctx_shader EXCEPT ![a] = Built(@, devices', upto)]
          /\ unbuilt' = (upto < 4)
    BY <1>2 DEF CreateD3D
  <2>3. Built(ctx_shader[a], devices', upto) \in [vs : Nat, ps : Nat]
    BY <2>1 DEF Built
  <2>4. upto = 4 => Built(ctx_shader[a], devices', upto) = [vs |-> devices', ps |-> devices']
    BY DEF Built
  <2>5. ctx_shader' \in [Addresses -> [vs : Nat, ps : Nat]] /\ unbuilt' \in BOOLEAN
    BY <2>2, <2>3
  <2>6. OwnShaders'
    <3>1. CASE unbuilt'
      BY <3>1
    <3>2. CASE ~unbuilt'
      <4>1. ~(upto < 4)
        BY <2>2, <3>2, Zenon
      <4>2. upto = 4
        BY <4>1
      <4> QED
        BY <2>1, <2>2, <2>4, <4>2
    <3> QED
      BY <3>1, <3>2
  <2>7. ViewportFits' /\ (drawn' => ~bound') /\ refused' \in {"no", "early"}
    BY <2>1
  <2>8. ctx' \in Addresses \cup {NoAddress} /\ devices' \in Nat
    BY <2>1
  <2> QED
    BY <2>1, <2>5, <2>6, <2>7, <2>8, Zenon
<1> QED
  BY <1>1, <1>2

(* ResizeBuffers() is refused only while a view is bound, and then it is    *)
(* early: a frame that was drawn has let go of it.                          *)
LEMMA ResizeOutcome ==
  ASSUME D3DInv, NEW z, ResizeBuffers(z)
  PROVE  /\ refused' \in {"no", "early"}
         /\ refused' = "early" \/ broken' = TRUE \/ buffers' = z
         /\ rtv_' \in BOOLEAN /\ bound' \in BOOLEAN /\ broken' \in BOOLEAN
<1>1. CASE Held /\ refused' = (IF drawn THEN "late" ELSE "early") /\ rtv_' \in BOOLEAN
           /\ bound' = TRUE /\ UNCHANGED <<buffers, broken>>
  <2>1. ~drawn
    BY <1>1, Zenon DEF D3DInv, Held
  <2> QED
    BY <1>1, <2>1, Zenon DEF D3DInv
<1>2. CASE ~Held /\ buffers' = z /\ refused' = "no" /\ UNCHANGED broken
           /\ \E view \in BOOLEAN : rtv_' = view /\ bound' = view
  BY <1>2 DEF D3DInv
<1>3. CASE broken' = TRUE /\ rtv_' = FALSE /\ UNCHANGED <<buffers, bound, refused>>
  BY <1>3 DEF D3DInv
<1> QED
  BY <1>1, <1>2, <1>3, Zenon DEF ResizeBuffers

(* The buffers follow the window, or the resize is refused early, or the    *)
(* device is removed.                                                       *)
LEMMA UseD3DKeeps ==
  ASSUME D3DInv, \/ \E z \in ClientSizes : ResizeD3D(z)
                 \/ DrawD3D \/ DestroyD3D
  PROVE  D3DInv'
<1>1. CASE \E z \in ClientSizes : ResizeD3D(z)
  <2>1. PICK z \in ClientSizes : ResizeD3D(z)
    BY <1>1
  <2>2. UNCHANGED <<ctx, dev_, devices, ctx_shader, unbuilt>>
    BY <2>1 DEF ResizeD3D
  <2>3. CASE z = 0 \/ ctx = NoAddress
    BY <2>1, <2>2, <2>3 DEF ResizeD3D, D3DInv, ViewportFits, OwnShaders, chain
  <2>4. CASE ~(z = 0 \/ ctx = NoAddress)
    <3>1. ResizeBuffers(z) /\ viewport' = z /\ drawn' = FALSE
      BY <2>1, <2>4 DEF ResizeD3D
    <3>2. /\ refused' \in {"no", "early"}
          /\ refused' = "early" \/ broken' = TRUE \/ buffers' = z
          /\ rtv_' \in BOOLEAN /\ bound' \in BOOLEAN /\ broken' \in BOOLEAN
      BY <3>1, ResizeOutcome
    <3>3. ViewportFits'
      BY <3>1, <3>2, Zenon DEF ViewportFits
    <3>4. OwnShaders'
      BY <2>2 DEF D3DInv, OwnShaders
    <3>5. /\ ctx' \in Addresses \cup {NoAddress} /\ devices' \in Nat
          /\ ctx_shader' \in [Addresses -> [vs : Nat, ps : Nat]] /\ unbuilt' \in BOOLEAN
      BY <2>2 DEF D3DInv
    <3> QED
      BY <3>1, <3>2, <3>3, <3>4, <3>5, Zenon DEF D3DInv
  <2> QED
    BY <2>3, <2>4
<1>2. CASE DrawD3D
  BY <1>2 DEF DrawD3D, D3DInv, ViewportFits, OwnShaders, chain
<1>3. CASE DestroyD3D
  BY <1>3, D3DAssumption DEF DestroyD3D, D3DInv, ViewportFits, OwnShaders, chain
<1> QED
  BY <1>1, <1>2, <1>3

(* Together: every step of the example keeps the invariant.                 *)
LEMMA D3DInvariant == D3DSpec => []D3DInv
<1>1. D3DInv /\ [D3DNext]_d3dVars => D3DInv'
  <2> SUFFICES ASSUME D3DInv, [D3DNext]_d3dVars
               PROVE  D3DInv'
    OBVIOUS
  <2>1. CASE \E a \in Addresses, z \in ClientSizes : CreateD3D(a, z)
    BY <2>1, CreateD3DKeeps
  <2>2. CASE (\E z \in ClientSizes : ResizeD3D(z)) \/ DrawD3D \/ DestroyD3D
    BY <2>2, UseD3DKeeps
  <2>3. CASE UNCHANGED d3dVars
    BY <2>3 DEF d3dVars, D3DInv, ViewportFits, OwnShaders
  <2> QED
    BY <2>1, <2>2, <2>3 DEF D3DNext
<1> QED
  BY <1>1, InitD3D, PTL DEF D3DSpec

(* ResizeBuffers() is refused only before the frame of an earlier size was  *)
(* drawn; and unless the last one was refused or the device was removed,    *)
(* the buffers have the size that is drawn (D3D11RenderLoop.cpp,            *)
(* resizeBuffers()).                                                        *)
THEOREM ViewportFitsBuffers == D3DSpec => []ViewportFits
<1>1. D3DInv => ViewportFits
  BY DEF D3DInv
<1> QED
  BY <1>1, D3DInvariant, PTL

(* A frame is drawn with shaders of the device that draws it, over any      *)
(* number of contexts at the same address, unless they could not all be     *)
(* built (testd3d11.cpp, build_shader() and the map of the shaders).        *)
THEOREM ShadersAreItsOwn == D3DSpec => []OwnShaders
<1>1. D3DInv => OwnShaders
  BY DEF D3DInv
<1> QED
  BY <1>1, D3DInvariant, PTL

-----------------------------------------------------------------------------
(* What a surface of each kind can hold.                                    *)
Resources(k) ==
  CASE k = "x11"     -> {"x11_display", "window"}
    [] k = "gbm"     -> {"drm_devices", "card", "crtc", "device", "gbm_surface"}
    [] k = "rpi"     -> {"bcm_host", "dispmanx", "gles2", "element"}
    [] k = "mali"    -> {"libmali", "fb0"}
    [] k = "wayland" -> {"wl_display", "wl_registry", "wl_compositor", "wl_surface", "shell",
                         "wl_seat", "wl_pointer", "egl_window"}
    [] k = "win32"   -> {"hwnd"}
    [] OTHER         -> {}

(* A window, or an element, is the handle, or will be with the next call;   *)
(* past its second call RPiSurface() has a display.                         *)
HandleOK ==
  /\ kind = "x11" /\ "window" \in got => handle_set \/ step = 3
  /\ kind = "rpi" /\ "element" \in got => handle_set \/ step = 7
  /\ kind = "rpi" /\ "dispmanx" \notin got => got \subseteq {"bcm_host"} /\ step \notin 3..7

FactoryInv ==
  /\ step \in Nat \ {0}
  /\ got \subseteq Resources(kind)
  /\ HandleOK
  /\ phase = "done" => step > Len(Script(kind))
  /\ NothingElseLost

(* The scripts, call by call where their order matters.                     *)
LEMMA X11Calls ==
  /\ Len(X11Script) = 3
  /\ X11Script[1] = Call("need", "x11_display")
  /\ X11Script[2] = Call("get", "window")
  /\ X11Script[3] = Call("handle", "window")
BY DEF X11Script, X11Display

LEMMA RPiCalls ==
  /\ Len(RPiScript) = 7
  /\ RPiScript[1] = Call("get", "bcm_host")
  /\ RPiScript[2] = Call("need", "dispmanx")
  /\ RPiScript[3] = Call("test", "legacy_driver")
  /\ RPiScript[4] = Call("try", "gles2")
  /\ RPiScript[5] = Call("test", "display_size")
  /\ RPiScript[6] = Call("get", "element")
  /\ RPiScript[7] = Call("handle", "element")
BY DEF RPiScript, FullscreenWindow, IsLegacyGLDriver

LEMMA MaliCalls ==
  /\ Len(MaliScript) = 7
  /\ MaliScript[1] = Call("test", "dev_mali")
  /\ MaliScript[2] = Call("need", "libmali")
  /\ MaliScript[3] = Call("test", "DRI2Connect")
  /\ MaliScript[4] = Call("try", "fb0")
  /\ MaliScript[5] = Call("test", "screen_info")
  /\ MaliScript[6] = Call("drop", "fb0")
  /\ MaliScript[7] = Call("handle", "libmali")
BY DEF MaliScript

LEMMA GBMCalls ==
  /\ Len(GBMScript) = 12
  /\ GBMScript[1] = Call("test", "symbols")
  /\ GBMScript[2] = Call("need", "drm_devices")
  /\ GBMScript[3] = Call("test", "card_number")
  /\ GBMScript[4] = Call("try", "card")
  /\ GBMScript[5] = Call("drop", "drm_devices")
  /\ GBMScript[6] = Call("check", "card")
  /\ GBMScript[7] = Call("test", "encoder")
  /\ GBMScript[8] = Call("need", "crtc")
  /\ GBMScript[9] = Call("try", "device")
  /\ GBMScript[10] = Call("use", "device")
  /\ GBMScript[11] = Call("try", "gbm_surface")
  /\ GBMScript[12] = Call("handle", "gbm_surface")
BY DEF GBMScript, FdConnector

LEMMA WaylandCalls ==
  /\ Len(WaylandScript) = 9
  /\ WaylandScript[1] = Call("need", "wl_display")
  /\ WaylandScript[2] = Call("get", "wl_registry")
  /\ WaylandScript[3] = Calls("try", {"wl_compositor", "wl_surface"})
  /\ WaylandScript[4] = Calls("try", {"wl_compositor", "wl_surface", "shell"})
  /\ WaylandScript[5] = Calls("try", {"wl_seat", "wl_pointer"})
  /\ WaylandScript[6] = Call("test", "libwayland_egl")
  /\ WaylandScript[7] = Call("use", "wl_surface")
  /\ WaylandScript[8] = Call("try", "egl_window")
  /\ WaylandScript[9] = Call("handle", "egl_window")
BY DEF WaylandScript

(* A constructor gets what its kind of surface can hold.                    *)
LEMMA ScriptGets ==
  ASSUME NEW k, NEW n \in 1..Len(Script(k)), Script(k)[n].op \in {"need", "get", "try"}
  PROVE  Script(k)[n].what \subseteq Resources(k)
<1>1. CASE k = "x11"
  <2>1. Script(k) = X11Script
    BY <1>1 DEF Script
  <2>2. n \in 1..3
    BY <2>1, X11Calls
  <2> QED
    BY <1>1, <2>1, <2>2, X11Calls DEF Resources, Call, Calls
<1>2. CASE k = "rpi"
  <2>1. Script(k) = RPiScript
    BY <1>2 DEF Script
  <2>2. n \in 1..7
    BY <2>1, RPiCalls
  <2> QED
    BY <1>2, <2>1, <2>2, RPiCalls DEF Resources, Call, Calls
<1>3. CASE k = "gbm"
  <2>1. Script(k) = GBMScript
    BY <1>3 DEF Script
  <2>2. n \in 1..12
    BY <2>1, GBMCalls
  <2> QED
    BY <1>3, <2>1, <2>2, GBMCalls DEF Resources, Call, Calls
<1>4. CASE k = "mali"
  <2>1. Script(k) = MaliScript
    BY <1>4 DEF Script
  <2>2. n \in 1..7
    BY <2>1, MaliCalls
  <2> QED
    BY <1>4, <2>1, <2>2, MaliCalls DEF Resources, Call, Calls
<1>5. CASE k = "wayland"
  <2>1. Script(k) = WaylandScript
    BY <1>5 DEF Script
  <2>2. n \in 1..9
    BY <2>1, WaylandCalls
  <2> QED
    BY <1>5, <2>1, <2>2, WaylandCalls DEF Resources, Call, Calls
<1>6. CASE k = "win32" /\ ~wrapping
  <2>1. Script(k) = Win32Script
    BY <1>6 DEF Script
  <2> QED
    BY <1>6, <2>1 DEF Win32Script, Resources, Call, Calls
<1>7. CASE k \notin {"x11", "rpi", "gbm", "mali", "wayland"} /\ ~(k = "win32" /\ ~wrapping)
  BY <1>7 DEF Script
<1> QED
  BY <1>1, <1>2, <1>3, <1>4, <1>5, <1>6, <1>7

(* Nothing is held before create() is called.                               *)
LEMMA InitFactory == FactoryInit => FactoryInv
BY DEF FactoryInit, FactoryInv, HandleOK, NothingElseLost

-----------------------------------------------------------------------------
(* create() and the calls of the constructors.                              *)
LEMMA ConstructKeeps ==
  ASSUME FactoryInv, CallCreate \/ Create \/ Construct
  PROVE  FactoryInv'
<1> USE DEF FactoryInv
<1>1. CASE CallCreate
  <2>1. UNCHANGED <<tries, kind, step, got, handle_set, lost>> /\ phase' = "create"
    BY <1>1 DEF CallCreate
  <2> QED
    BY <2>1 DEF HandleOK, NothingElseLost
<1>2. CASE Create
  <2>1. step' = 1 /\ got' = {} /\ phase' = "construct" /\ UNCHANGED lost
    BY <1>2 DEF Create, Begin
  <2> QED
    BY <2>1 DEF HandleOK, NothingElseLost
<1>3. CASE Construct
  <2> DEFINE c == Script(kind)[step]
  <2>1. /\ step \in 1..Len(Script(kind)) /\ phase = "construct"
        /\ UNCHANGED <<parameters, phase, tries, kind, lost>>
        /\ handle_set' = (handle_set \/ (c.op = "handle" /\ c.what \subseteq got))
    <3>1. Len(Script(kind)) \in Nat
      BY DEF Script
    <3> QED
      BY <1>3, <3>1 DEF Construct
  <2>2. \/ c.op \in {"need", "get", "try"} /\ Acquire(c.what)
        \/ c.op \in {"need", "test"} /\ ReturnEarly
        \/ c.op \in {"try", "test", "use", "handle"} /\ step' = step + 1 /\ UNCHANGED got
        \/ c.op = "check" /\ step' = step + 1 /\ UNCHANGED got
        \/ c.op = "check" /\ ReturnEarly
        \/ c.op = "drop" /\ step' = step + 1 /\ got' = got \ c.what
    BY <1>3 DEF Construct
  <2>3. c.op \in {"need", "get", "try"} => c.what \subseteq Resources(kind)
    BY <2>1, ScriptGets
  <2>4. step' \in Nat \ {0} /\ got' \subseteq Resources(kind)
    BY <2>1, <2>2, <2>3 DEF Acquire, ReturnEarly
  <2>5. HandleOK'
    <3>1. handle_set => handle_set'
      BY <2>1, Zenon
    <3>2. c.op = "handle" /\ c.what \subseteq got => handle_set'
      BY <2>1, Zenon
    <3>3. kind' = kind
      BY <2>1
    <3>4. CASE kind = "x11"
      <4>1. step \in 1..3 /\ Script(kind) = X11Script
        BY <2>1, <3>4, X11Calls DEF Script
      <4>2. CASE step = 1 \/ step = 2
        <5>1. "window" \in got' => "window" \in got \/ step' = 3
          BY <2>2, <4>1, <4>2, X11Calls DEF Acquire, ReturnEarly, Call, Calls
        <5> QED
          BY <3>1, <3>3, <3>4, <4>2, <5>1 DEF HandleOK
      <4>3. CASE step = 3
        <5>1. got' = got /\ ("window" \in got => handle_set')
          BY <2>2, <3>2, <4>1, <4>3, X11Calls DEF Call, Calls
        <5> QED
          BY <3>3, <3>4, <5>1 DEF HandleOK
      <4> QED
        BY <4>1, <4>2, <4>3
    <3>5. CASE kind = "rpi"
      <4>1. step \in 1..7 /\ Script(kind) = RPiScript
        BY <2>1, <3>5, RPiCalls DEF Script
      <4>2. "element" \in got' => handle_set' \/ step' = 7
        <5>1. CASE step \in 1..6
          <6>1. "element" \in got' => "element" \in got \/ step' = 7
            BY <2>2, <4>1, <5>1, RPiCalls DEF Acquire, ReturnEarly, Call, Calls
          <6> QED
            BY <3>1, <3>5, <5>1, <6>1 DEF HandleOK
        <5>2. CASE step = 7
          BY <2>2, <3>2, <4>1, <5>2, RPiCalls DEF Call, Calls
        <5> QED
          BY <4>1, <5>1, <5>2
      <4>3. "dispmanx" \notin got' => got' \subseteq {"bcm_host"} /\ step' \notin 3..7
        <5>1. CASE step = 1
          BY <2>2, <3>5, <4>1, <5>1, RPiCalls DEF HandleOK, Acquire, ReturnEarly, Call, Calls
        <5>2. CASE step = 2
          BY <2>2, <3>5, <4>1, <5>2, RPiCalls DEF HandleOK, Acquire, ReturnEarly, Call, Calls
        <5>3. CASE step \in 3..7
          <6>1. "dispmanx" \in got
            BY <3>5, <5>3 DEF HandleOK
          <6>2. "dispmanx" \in got'
            BY <2>2, <4>1, <5>3, <6>1, RPiCalls DEF Acquire, ReturnEarly, Call, Calls
          <6> QED
            BY <6>2
        <5> QED
          BY <4>1, <5>1, <5>2, <5>3
      <4> QED
        BY <3>3, <3>5, <4>2, <4>3 DEF HandleOK
    <3> QED
      BY <3>3, <3>4, <3>5 DEF HandleOK
  <2> QED
    BY <2>1, <2>4, <2>5 DEF NothingElseLost
<1> QED
  BY <1>1, <1>2, <1>3

(* What a constructed surface holds its destructor gives back, but for what *)
(* no destructor knows of.                                                  *)
LEMMA DestructorGivesBack ==
  ASSUME FactoryInv, step > Len(Script(kind))
  PROVE  (got \ GivesBack) \ Static \subseteq Forgotten
<1> USE DEF FactoryInv, Static, Forgotten
<1>1. CASE kind = "x11"
  <2>1. step > 3
    BY <1>1, X11Calls DEF Script
  <2> QED
    BY <1>1, <2>1 DEF HandleOK, GivesBack, X11GivesBack, Resources
<1>2. CASE kind = "rpi"
  <2>1. step > 7
    BY <1>2, RPiCalls DEF Script
  <2> QED
    BY <1>2, <2>1 DEF HandleOK, GivesBack, RPiGivesBack, Resources
<1>3. CASE kind \notin {"x11", "rpi"}
  BY <1>3 DEF GivesBack, GBMGivesBack, MaliGivesBack, WaylandGivesBack, Win32GivesBack,
              Resources
<1> QED
  BY <1>1, <1>2, <1>3

(* create() returns what it made, or deletes it and goes on; the            *)
(* application deletes what was returned.                                   *)
LEMMA ReturnKeeps ==
  ASSUME FactoryInv, Return \/ NextKind \/ DeleteReturned
  PROVE  FactoryInv'
<1> USE DEF FactoryInv
<1>1. ASSUME step > Len(Script(kind)), GiveBack
      PROVE  lost' \subseteq Forgotten
  BY <1>1, DestructorGivesBack DEF GiveBack, NothingElseLost
<1>2. CASE Return
  <2>1. UNCHANGED <<parameters, tries, kind, step, got, handle_set, lost>>
        /\ step > Len(Script(kind)) /\ phase' = "done"
    BY <1>2 DEF Return, Completed
  <2>2. Script(kind)' = Script(kind) /\ Asked' = Asked
    BY <2>1 DEF Script, Asked, parameters
  <2>3. Asked \/ wrapping \/ handle_set \/ kind \in {"cocoa", "wrapper"}
    BY <1>2 DEF Return, Returned, Wraps
  <2>4. kind \in {"cocoa", "wrapper"} => got = {}
    BY DEF Resources
  <2>5. NothingElseLost'
    BY <2>1, <2>2, <2>3, <2>4 DEF NothingElseLost, parameters
  <2> QED
    BY <2>1, <2>2, <2>5 DEF HandleOK
<1>3. CASE NextKind
  <2>1. /\ step' = 1 /\ got' = {} /\ phase' = "construct"
        /\ step > Len(Script(kind)) /\ GiveBack
    BY <1>3 DEF NextKind, Begin, Completed
  <2> QED
    BY <1>1, <2>1 DEF HandleOK, NothingElseLost
<1>4. CASE DeleteReturned
  <2>1. /\ UNCHANGED <<parameters, tries, kind, step, handle_set>> /\ got' = {}
        /\ phase = "done" /\ phase' = "deleted" /\ GiveBack
    BY <1>4 DEF DeleteReturned
  <2>2. kind = "rpi" => step > 7
    BY <2>1, RPiCalls DEF Script
  <2>3. HandleOK'
    BY <2>1, <2>2 DEF HandleOK
  <2> QED
    BY <1>1, <2>1, <2>3 DEF NothingElseLost
<1> QED
  BY <1>2, <1>3, <1>4

(* Together: every step of create() keeps the invariant.                    *)
LEMMA FactoryInvariant == FactorySpec => []FactoryInv
<1>1. FactoryInv /\ [FactoryNext]_factoryVars => FactoryInv'
  <2> SUFFICES ASSUME FactoryInv, [FactoryNext]_factoryVars
               PROVE  FactoryInv'
    OBVIOUS
  <2>1. CASE CallCreate \/ Create \/ Construct
    BY <2>1, ConstructKeeps
  <2>2. CASE Return \/ NextKind \/ DeleteReturned
    BY <2>2, ReturnKeeps
  <2>3. CASE UNCHANGED factoryVars
    <3>1. Script(kind)' = Script(kind) /\ Asked' = Asked
      BY <2>3 DEF factoryVars, Script, Asked
    <3> QED
      BY <2>3, <3>1 DEF factoryVars, FactoryInv, HandleOK, NothingElseLost
  <2> QED
    BY <2>1, <2>2, <2>3 DEF FactoryNext
<1> QED
  BY <1>1, InitFactory, PTL DEF FactorySpec

(* However many kinds of surface create() tries, and in whichever call each *)
(* constructor stops, what is lost is one of the six resources that no      *)
(* destructor knows of, and create() returns nothing incomplete that nobody *)
(* asked for (PlatformSurface.cpp, create(), and the destructors).          *)
THEOREM OnlyForgottenIsLost == FactorySpec => []NothingElseLost
<1>1. FactoryInv => NothingElseLost
  BY DEF FactoryInv
<1> QED
  BY <1>1, FactoryInvariant, PTL

-----------------------------------------------------------------------------
(* A step of the native side is one of the chosen system, and the others    *)
(* rest.                                                                    *)
LEMMA OneSystemSteps ==
  ASSUME [NativeNext]_nativeVars
  PROVE  /\ [FactoryNext]_factoryVars
         /\ [GBMNext]_gbmVars
         /\ [X11Next]_x11Vars
         /\ [WLNext]_wlVars
         /\ [Win32Next]_w32Vars
         /\ [WinRTNext]_winrtVars
         /\ [WrappedNext]_wrappedVars
         /\ [EGLNext]_eglVars
         /\ [D3DNext]_d3dVars
<1>1. CASE UNCHANGED nativeVars
  BY <1>1 DEF nativeVars
<1>2. CASE Only("factory") /\ FactoryNext
  BY <1>2 DEF Only
<1>3. CASE Only("gbm") /\ GBMNext
  BY <1>3 DEF Only
<1>4. CASE Only("x11") /\ X11Next
  BY <1>4 DEF Only
<1>5. CASE Only("wayland") /\ WLNext
  BY <1>5 DEF Only
<1>6. CASE Only("win32") /\ Win32Next
  BY <1>6 DEF Only
<1>7. CASE Only("winrt") /\ WinRTNext
  BY <1>7 DEF Only
<1>8. CASE Only("wrapped") /\ WrappedNext
  BY <1>8 DEF Only
<1>9. CASE Only("egl") /\ EGLNext
  BY <1>9 DEF Only
<1>10. CASE Only("d3d11") /\ D3DNext
  BY <1>10 DEF Only
<1> QED
  BY <1>1, <1>2, <1>3, <1>4, <1>5, <1>6, <1>7, <1>8, <1>9, <1>10 DEF NativeNext

(* Every behaviour of the native side is one of each of its systems, which  *)
(* share no state: what is proved of a system alone holds beside the others *)
(* too.                                                                     *)
THEOREM NativeSystemsCompose ==
  NativeSpec => /\ FactorySpec /\ GBMSpec /\ X11Spec /\ WLSpec /\ Win32Spec
                /\ WinRTSpec /\ WrappedSpec /\ EGLSpec /\ D3DSpec
<1>1. NativeInit => /\ FactoryInit /\ GBMInit /\ X11Init /\ WLInit /\ Win32Init
                    /\ WinRTInit /\ WrappedInit /\ EGLInit /\ D3DInit
  BY DEF NativeInit
<1>2. [NativeNext]_nativeVars =>
        /\ [FactoryNext]_factoryVars
        /\ [GBMNext]_gbmVars
        /\ [X11Next]_x11Vars
        /\ [WLNext]_wlVars
        /\ [Win32Next]_w32Vars
        /\ [WinRTNext]_winrtVars
        /\ [WrappedNext]_wrappedVars
        /\ [EGLNext]_eglVars
        /\ [D3DNext]_d3dVars
  BY OneSystemSteps
<1> QED
  BY <1>1, <1>2, PTL
     DEF NativeSpec, FactorySpec, GBMSpec, X11Spec, WLSpec, Win32Spec, WinRTSpec,
         WrappedSpec, EGLSpec, D3DSpec

(* All the safety properties of the native side at once; what each of them  *)
(* exempts is said where it is defined.                                     *)
THEOREM NativeSystemsSafe ==
  NativeSpec => [](/\ ScanoutStable /\ OneFrameKept /\ SizeFollows /\ BlocksOnlyWhenRobbed
                   /\ OrderlyIsSafe /\ OwnWindowSafe /\ HandlerTakenBack
                   /\ OneReference /\ DrawsInFront /\ CurrentIsAlive
                   /\ ViewportFits /\ OwnShaders /\ NothingElseLost)
BY NativeSystemsCompose, GBMScanoutStable, GBMOneFrameKept, SizesFollow, OnlyRobbedBlock,
   OrderlyStaysSafe, OwnWindowIsSafe, HandlerIsTakenBack, HoldsOneReference,
   DrawsOnlyInFront, CurrentStaysAlive, ViewportFitsBuffers, ShadersAreItsOwn,
   OnlyForgottenIsLost, PTL
=============================================================================
