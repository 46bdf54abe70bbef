---------------------------- MODULE NativeSystems ----------------------------
(****************************************************************************)
(* The native side of the library: the choice of a surface, the surfaces of *)
(* the window systems, and the contexts of the examples.  A build has some  *)
(* of them and they share no state: a behaviour of this module is one of    *)
(* the system that it has chosen, while the others rest.                    *)
(****************************************************************************)
EXTENDS GBMSurface, X11Surface, WaylandSurface, Win32Surface, WinRTSurface,
        WrappedSurface, EGLContexts, D3D11Contexts, SurfaceFactory

VARIABLE system

nativeVars == <<system, factoryVars, gbmVars, x11Vars, wlVars, w32Vars, winrtVars,
                wrappedVars, eglVars, d3dVars>>

Systems == {"factory", "gbm", "x11", "wayland", "win32", "winrt", "wrapped", "egl", "d3d11"}

(* Where an initial state leaves a choice, only the chosen system has it.   *)
NativeInit ==
  /\ system \in Systems
  /\ FactoryInit /\ GBMInit /\ X11Init /\ WLInit /\ Win32Init /\ WinRTInit
  /\ WrappedInit /\ EGLInit /\ D3DInit
  /\ system = "win32" \/ (win_ = NoHwnd /\ ~app_loop)
  /\ system = "wrapped" \/ platform = "android"

(* All but one of the systems rest.                                         *)
Only(name) ==
  /\ system = name /\ UNCHANGED system
  /\ IF name = "factory" THEN TRUE ELSE UNCHANGED factoryVars
  /\ IF name = "gbm"     THEN TRUE ELSE UNCHANGED gbmVars
  /\ IF name = "x11"     THEN TRUE ELSE UNCHANGED x11Vars
  /\ IF name = "wayland" THEN TRUE ELSE UNCHANGED wlVars
  /\ IF name = "win32"   THEN TRUE ELSE UNCHANGED w32Vars
  /\ IF name = "winrt"   THEN TRUE ELSE UNCHANGED winrtVars
  /\ IF name = "wrapped" THEN TRUE ELSE UNCHANGED wrappedVars
  /\ IF name = "egl"     THEN TRUE ELSE UNCHANGED eglVars
  /\ IF name = "d3d11"   THEN TRUE ELSE UNCHANGED d3dVars

NativeNext ==
  \/ Only("factory") /\ FactoryNext
  \/ Only("gbm")     /\ GBMNext
  \/ Only("x11")     /\ X11Next
  \/ Only("wayland") /\ WLNext
  \/ Only("win32")   /\ Win32Next
  \/ Only("winrt")   /\ WinRTNext
  \/ Only("wrapped") /\ WrappedNext
  \/ Only("egl")     /\ EGLNext
  \/ Only("d3d11")   /\ D3DNext

NativeSpec == NativeInit /\ [][NativeNext]_nativeVars

(* The fairness of X11FairSpec, WLFairSpec, WinRTFairSpec, WrappedFairSpec. *)
NativeFairSpec ==
  /\ NativeSpec
  /\ \A t \in Pumps : WF_nativeVars(Only("x11") /\ PumpStep(t))
  /\ WF_nativeVars(Only("x11") /\ PumpsOn)
  /\ \A t \in Dispatchers : /\ WF_nativeVars(Only("wayland") /\ Dispatch(t))
                            /\ WF_nativeVars(Only("wayland") /\ Deliver(t))
  /\ WF_nativeVars(Only("winrt") /\ Step)
  /\ SF_nativeVars(Only("winrt") /\ RunTask)
  /\ WF_nativeVars(Only("winrt") /\ InvokeReturns)
  /\ WF_nativeVars(Only("wrapped") /\ (Test \/ Acquired \/ ReleaseGate))
  /\ SF_nativeVars(Only("wrapped") /\ SetAllowed)
=============================================================================
