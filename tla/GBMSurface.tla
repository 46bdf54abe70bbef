----------------------------- MODULE GBMSurface ------------------------------
(****************************************************************************)
(* GBMSurface.cpp: a surface on a bare screen.  EGL renders into the        *)
(* buffers of a gbm_surface; after each frame submit() locks the buffer     *)
(* that was rendered, wraps it in a DRM frame buffer, points the crtc at    *)
(* it, and only then gives the previous frame back.  Every call on the      *)
(* device is a step; AddFB and SetCrtc may fail, and submit() looks at      *)
(* neither result.  The surface is one whose constructor has completed:     *)
(* SurfaceFactory has the other ones.                                       *)
(****************************************************************************)
EXTENDS FiniteSets

CONSTANTS Buffers,     \* the buffers of the gbm_surface
          NoBo         \* the null gbm_bo

ASSUME BufferAssumption == IsFiniteSet(Buffers) /\ NoBo \notin Buffers

VARIABLES
  frame,       \* where the rendering thread is
  front,       \* the buffer that was swapped and not yet locked
  locked,      \* the buffers given out by gbm_surface_lock_front_buffer()
  fbs,         \* fbs[f]: the buffer of frame buffer f, NoBo when there is no such f
  scanned,     \* what the crtc shows: "console", "off" or a frame buffer
  bo, fb,      \* submit(): its locals
  bo_, fb_     \* the frame that is kept

gbmVars == <<frame, front, locked, fbs, scanned, bo, fb, bo_, fb_>>

FbIds == {"fb1", "fb2"}   \* enough: the previous frame and the new one
BoOrNone == Buffers \cup {NoBo}

GBMInit ==
  /\ frame = "draw"
  /\ front = NoBo /\ locked = {}
  /\ fbs = [f \in FbIds |-> NoBo]
  /\ scanned = "console"
  /\ bo = NoBo /\ fb = "none" /\ bo_ = NoBo /\ fb_ = "none"

-----------------------------------------------------------------------------
(* libgbm and EGL: a frame is rendered into a buffer that is not locked.    *)
(* When the swap fails there is no front buffer.                            *)
Draw ==
  /\ frame = "draw"
  /\ front' \in (Buffers \ locked) \cup {NoBo}
  /\ frame' = "lock"
  /\ UNCHANGED <<locked, fbs, scanned, bo, fb, bo_, fb_>>

-----------------------------------------------------------------------------
(* submit().  gbm_bo_get_handle() dereferences the buffer it is given.      *)
LockFrontBuffer ==
  /\ frame = "lock"
  /\ bo' = front /\ fb' = "none"
  /\ front' = NoBo
  /\ locked' = locked \cup ({front} \ {NoBo})
  /\ frame' = IF front = NoBo THEN "crash" ELSE "add"
  /\ UNCHANGED <<fbs, scanned, bo_, fb_>>

AddFB ==
  /\ frame = "add"
  /\ \/ UNCHANGED <<fbs, fb>>
     \/ /\ fb' \in {f \in FbIds : fbs[f] = NoBo}
        /\ fbs' = [fbs EXCEPT ![fb'] = bo]
  /\ frame' = "set"
  /\ UNCHANGED <<front, locked, scanned, bo, bo_, fb_>>

(* The crtc keeps what it shows when the call fails, as it does without a   *)
(* frame buffer.                                                            *)
SetCrtc ==
  /\ frame = "set"
  /\ scanned' \in {scanned} \cup ({fb} \ {"none"})
  /\ frame' = IF bo_ = NoBo THEN "store" ELSE "rm"
  /\ UNCHANGED <<front, locked, fbs, bo, fb, bo_, fb_>>

(* Removing the frame buffer that is shown switches the crtc off.           *)
DrmRmFB(f) ==
  /\ fbs' = [g \in FbIds |-> IF g = f THEN NoBo ELSE fbs[g]]
  /\ scanned' = IF scanned = f THEN "off" ELSE scanned

(* A bug: the frame buffers of earlier frames stay.                         *)
RmFB_Skipped ==
  /\ frame = "rm"
  /\ frame' = "release"
  /\ UNCHANGED <<front, locked, fbs, scanned, bo, fb, bo_, fb_>>

RmFB ==
  /\ frame = "rm"
  /\ DrmRmFB(fb_)
  /\ frame' = "release"
  /\ UNCHANGED <<front, locked, bo, fb, bo_, fb_>>

(* A bug: the new buffer is given back instead of the previous one.         *)
Release_New ==
  /\ frame = "release"
  /\ locked' = locked \ {bo}
  /\ frame' = "store"
  /\ UNCHANGED <<front, fbs, scanned, bo, fb, bo_, fb_>>

Release ==
  /\ frame = "release"
  /\ locked' = locked \ {bo_}
  /\ frame' = "store"
  /\ UNCHANGED <<front, fbs, scanned, bo, fb, bo_, fb_>>

Store ==
  /\ frame = "store"
  /\ bo_' = bo /\ fb_' = fb
  /\ frame' = "draw"
  /\ UNCHANGED <<front, locked, fbs, scanned, bo, fb>>

-----------------------------------------------------------------------------
(* The destructor: the mode of the console comes back, then the frame goes  *)
(* and the gbm_surface with its buffers.                                    *)
RestoreCrtc ==
  /\ frame = "draw"
  /\ scanned' \in {scanned, "console"}
  /\ frame' = "destroy"
  /\ UNCHANGED <<front, locked, fbs, bo, fb, bo_, fb_>>

DestroyGBM ==
  /\ frame = "destroy"
  /\ IF bo_ = NoBo THEN UNCHANGED <<fbs, scanned>> ELSE DrmRmFB(fb_)
  /\ locked' = locked \ {bo_}
  /\ frame' = "gone"
  /\ UNCHANGED <<front, bo, fb, bo_, fb_>>

GBMNext ==
  \/ Draw \/ LockFrontBuffer \/ AddFB \/ SetCrtc \/ RmFB \/ Release \/ Store
  \/ RestoreCrtc \/ DestroyGBM

GBMSpec == GBMInit /\ [][GBMNext]_gbmVars

-----------------------------------------------------------------------------
GBMTypeOK ==
  /\ frame \in {"draw", "lock", "add", "set", "rm", "release", "store", "destroy",
                "gone", "crash"}
  /\ front \in BoOrNone /\ bo \in BoOrNone /\ bo_ \in BoOrNone
  /\ locked \subseteq Buffers
  /\ fbs \in [FbIds -> BoOrNone]
  /\ scanned \in FbIds \cup {"console", "off"}
  /\ fb \in FbIds \cup {"none"} /\ fb_ \in FbIds \cup {"none"}

(* The buffer on the screen is never one the GPU may render into: while the *)
(* crtc shows a frame buffer its buffer stays locked, whichever of the      *)
(* calls of this frame or of an earlier one failed.                         *)
ScanoutStable ==
  scanned \in FbIds => fbs[scanned] \in locked

(* Between frames one buffer and its frame buffer are kept and no other, so *)
(* the renderer always finds a free one; nothing is left at the end.        *)
OneFrameKept ==
  /\ frame = "draw" => /\ locked = {bo_} \ {NoBo}
                       /\ \A f \in FbIds : fbs[f] # NoBo => f = fb_
  /\ frame = "gone" => /\ locked = {} /\ scanned \notin FbIds
                       /\ \A f \in FbIds : fbs[f] = NoBo
=============================================================================
