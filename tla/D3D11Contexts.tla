---------------------------- MODULE D3D11Contexts ----------------------------
(****************************************************************************)
(* examples/D3D11RenderLoop.cpp and the callbacks of testd3d11.cpp: one     *)
(* surface whose context is made, resized, drawn with and deleted, again    *)
(* and again.  The swap chain refuses to resize its buffers while a view of *)
(* them is held, be it by rtv_ or by the pipeline.  The shaders are kept by *)
(* the address of their context, and no entry is ever removed.              *)
(****************************************************************************)
EXTENDS Naturals

CONSTANTS Addresses,   \* where a ContextD3D11Impl can be allocated
          NoAddress,
          ClientSizes, \* sizes of the window, 0 when it is minimised
          MaxDevices   \* bound: devices created

ASSUME D3DAssumption ==
  NoAddress \notin Addresses /\ ClientSizes \subseteq Nat /\ MaxDevices \in Nat

VARIABLES
  ctx,          \* sp->ctx
  dev_,         \* its device, 0 for none
  devices,      \* how many were created
  leaked,       \* contexts that createRenderContext() allocated and forgot
  buffers,      \* the size of the buffers of the swap chain
  rtv_,         \* a view of them exists
  bound,        \* the pipeline has a view of them
  viewport,
  drawn,        \* a frame was drawn since the last resize
  refused,      \* the last ResizeBuffers() found a view: "no", or "early" before a
                \* frame was drawn, or "late"
  broken,       \* the device was removed
  ctx_shader,   \* ctx_shader[a]: the devices of the vertex and pixel shader, 0 for none
  unbuilt,      \* the last build of the shaders failed
  null_ctx      \* a callback used the context that is not there

d3dVars == <<ctx, dev_, devices, leaked, buffers, rtv_, bound, viewport, drawn, refused,
             broken, ctx_shader, unbuilt, null_ctx>>
chain == <<buffers, rtv_, bound, viewport, drawn, refused, broken>>

D3DInit ==
  /\ ctx = NoAddress /\ dev_ = 0 /\ devices = 0 /\ leaked = {}
  /\ buffers = 0 /\ rtv_ = FALSE /\ bound = FALSE /\ viewport = 0
  /\ drawn = FALSE /\ refused = "no" /\ broken = FALSE
  /\ ctx_shader = [a \in Addresses |-> [vs |-> 0, ps |-> 0]]
  /\ unbuilt = FALSE /\ null_ctx = FALSE

-----------------------------------------------------------------------------
(* build_shader() and build_shader2(): the vertex shader, the input layout, *)
(* the pixel shader and the rest, and a return at the first that fails.     *)
(* The & of the smart pointer of a shader releases the one it had.  A bug:  *)
(* an entry that has shaders is not built again.                            *)
Built_Once(s, d, upto) ==
  IF s.vs # 0 THEN s ELSE [vs |-> IF upto >= 1 THEN d ELSE 0, ps |-> IF upto >= 3 THEN d ELSE 0]

Built(s, d, upto) ==
  [vs |-> IF upto = 0 THEN 0 ELSE d,
   ps |-> IF upto < 2 THEN s.ps ELSE IF upto = 2 THEN 0 ELSE d]

(* createRenderContext() and the callback onContextCreated().  Without a    *)
(* device or a swap chain the object is not deleted.                        *)
CreateD3D(a, z) ==
  /\ ctx = NoAddress /\ a \notin leaked /\ devices < MaxDevices
  /\ devices' = devices + 1 /\ UNCHANGED null_ctx
  /\ \/ leaked' = leaked \cup {a}
        /\ UNCHANGED <<ctx, dev_, chain, ctx_shader, unbuilt>>
     \/ /\ ctx' = a /\ dev_' = devices'
        /\ buffers' = z /\ viewport' = z
        /\ \E view \in BOOLEAN : rtv_' = view /\ bound' = view
        /\ drawn' = FALSE /\ refused' = "no" /\ broken' = FALSE
        /\ \E upto \in 0..4 :
             /\ ctx_shader' = [ctx_shader EXCEPT ![a] = Built(@, devices', upto)]
             /\ unbuilt' = (upto < 4)
        /\ UNCHANGED leaked

(* resizeBuffers(): rtv_ is released first.  A bug: it is not.              *)
Held_Rtv == rtv_ \/ bound

Held == bound

ResizeBuffers(z) ==
  \/ /\ Held /\ ~broken
     /\ refused' = (IF drawn THEN "late" ELSE "early")
     /\ rtv_' \in BOOLEAN /\ bound' = TRUE
     /\ UNCHANGED <<buffers, broken>>
  \/ /\ ~Held /\ ~broken
     /\ buffers' = z /\ refused' = "no"
     /\ \E view \in BOOLEAN : rtv_' = view /\ bound' = view
     /\ UNCHANGED broken
  \/ /\ broken' = TRUE /\ rtv_' = FALSE
     /\ UNCHANGED <<buffers, bound, refused>>

(* The callback onResize().  process() calls it without a context too.      *)
ResizeD3D(z) ==
  /\ IF z = 0 \/ ctx = NoAddress THEN UNCHANGED chain
     ELSE ResizeBuffers(z) /\ viewport' = z /\ drawn' = FALSE
  /\ null_ctx' = (z # 0 /\ ctx = NoAddress)
  /\ UNCHANGED <<ctx, dev_, devices, leaked, ctx_shader, unbuilt>>

(* The callback onDraw() and Present(); the pipeline lets go of the view.   *)
DrawD3D ==
  /\ ctx # NoAddress
  /\ bound' = (bound /\ ~rtv_)
  /\ drawn' = (drawn \/ rtv_)
  /\ UNCHANGED <<ctx, dev_, devices, leaked, buffers, rtv_, viewport, refused, broken,
                 ctx_shader, unbuilt, null_ctx>>

DestroyD3D ==
  /\ ctx # NoAddress
  /\ ctx' = NoAddress /\ dev_' = 0
  /\ rtv_' = FALSE /\ bound' = FALSE
  /\ UNCHANGED <<devices, leaked, buffers, viewport, drawn, refused, broken, ctx_shader,
                 unbuilt, null_ctx>>

(* The virtual call through a null pointer ends the process.                *)
D3DNext ==
  /\ ~null_ctx
  /\ \/ \E a \in Addresses, z \in ClientSizes : CreateD3D(a, z)
     \/ \E z \in ClientSizes : ResizeD3D(z)
     \/ DrawD3D \/ DestroyD3D

D3DSpec == D3DInit /\ [][D3DNext]_d3dVars

-----------------------------------------------------------------------------
(* ResizeBuffers() is refused only before the frame of an earlier size was  *)
(* drawn, and the buffers have the size that is drawn, after any number of  *)
(* resizes, unless the last one was refused or the device was removed.      *)
ViewportFits ==
  /\ refused # "late"
  /\ (ctx # NoAddress /\ refused = "no" /\ ~broken) => viewport = buffers

(* A frame is drawn with shaders of the device that draws it, although an   *)
(* earlier context may have left its own under the same address - unless    *)
(* they could not all be built.                                             *)
OwnShaders ==
  (ctx # NoAddress /\ ~unbuilt) => ctx_shader[ctx] = [vs |-> dev_, ps |-> dev_]
=============================================================================
