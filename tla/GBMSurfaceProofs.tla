--------------------------- MODULE GBMSurfaceProofs ---------------------------
(****************************************************************************)
(* The frames of GBMSurface, for any number of buffers: what the crtc shows *)
(* is not rendered into, and nothing but one frame is kept.                 *)
(****************************************************************************)
EXTENDS GBMSurface, TLAPS

(* Within submit() the new frame is there beside the previous one.          *)
OldLocked == frame \notin {"store", "gone"}
NewLocked == frame \in {"add", "set", "rm", "release", "store"}
OldFb == frame \notin {"release", "store", "gone"}
NewFb == frame \in {"set", "rm", "release", "store"}

LockedOK ==
  locked = ((IF OldLocked THEN {bo_} ELSE {}) \cup (IF NewLocked THEN {bo} ELSE {})) \ {NoBo}

(* A frame buffer that exists is that of one of the two frames.             *)
FbsOK ==
  \A f \in FbIds : fbs[f] # NoBo => \/ OldFb /\ f = fb_ /\ fbs[f] = bo_
                                    \/ NewFb /\ f = fb /\ fbs[f] = bo

ShownExists == scanned \in FbIds => fbs[scanned] # NoBo

NewOK ==
  /\ NewLocked => bo # NoBo /\ bo # bo_
  /\ frame = "lock" => front \notin locked
  /\ frame = "add" => fb = "none"
  /\ frame = "set" /\ fb # "none" => fbs[fb] = bo

GBMInv == GBMTypeOK /\ LockedOK /\ FbsOK /\ ShownExists /\ NewOK
-----------------------------------------------------------------------------
(* The surface starts with no frame.                                        *)
LEMMA InitGBM == GBMInit => GBMInv
BY BufferAssumption DEF GBMInit, GBMInv, NewLocked, FbIds, BoOrNone, LockedOK, FbsOK, ShownExists, NewOK, GBMTypeOK

(* Every call of submit() and of the destructor, whether it succeeds or     *)
(* not, keeps the two frames apart.                                         *)
LEMMA StepGBM == GBMInv /\ [GBMNext]_gbmVars => GBMInv'
<1> SUFFICES ASSUME GBMInv, [GBMNext]_gbmVars
             PROVE  GBMInv'
  OBVIOUS
<1> USE BufferAssumption DEF GBMInv
<1>1. CASE Draw
  <2>1. GBMTypeOK'
    BY <1>1 DEF Draw, BoOrNone, GBMTypeOK
  <2>2. LockedOK'
    BY <1>1 DEF Draw, OldLocked, NewLocked, LockedOK
  <2>3. FbsOK'
    BY <1>1 DEF Draw, OldFb, NewFb, FbsOK
  <2>4. ShownExists'
    BY <1>1 DEF Draw, ShownExists
  <2>5. NewOK'
    BY <1>1 DEF Draw, NewLocked, NewOK, GBMTypeOK
  <2> QED
    BY <2>1, <2>2, <2>3, <2>4, <2>5
<1>2. CASE LockFrontBuffer
  <2>1. GBMTypeOK'
    BY <1>2 DEF LockFrontBuffer, BoOrNone, GBMTypeOK
  <2>2. LockedOK'
    BY <1>2 DEF LockFrontBuffer, OldLocked, NewLocked, LockedOK
  <2>3. FbsOK'
    BY <1>2 DEF LockFrontBuffer, OldFb, NewFb, FbsOK
  <2>4. ShownExists'
    BY <1>2 DEF LockFrontBuffer, ShownExists
  <2>5. NewOK'
    BY <1>2 DEF LockFrontBuffer, OldLocked, NewLocked, LockedOK, NewOK
  <2> QED
    BY <2>1, <2>2, <2>3, <2>4, <2>5
<1>3. CASE AddFB
  <2>1. GBMTypeOK'
    BY <1>3 DEF AddFB, GBMTypeOK
  <2>2. LockedOK'
    BY <1>3 DEF AddFB, OldLocked, NewLocked, LockedOK
  <2>3. FbsOK'
    BY <1>3 DEF AddFB, OldFb, NewFb, FbsOK, GBMTypeOK
  <2>4. ShownExists'
    BY <1>3 DEF AddFB, ShownExists, GBMTypeOK
  <2>5. NewOK'
    BY <1>3 DEF AddFB, NewLocked, NewOK, GBMTypeOK
  <2> QED
    BY <2>1, <2>2, <2>3, <2>4, <2>5
<1>4. CASE SetCrtc
  <2>1. GBMTypeOK'
    BY <1>4 DEF SetCrtc, GBMTypeOK
  <2>2. LockedOK'
    BY <1>4 DEF SetCrtc, OldLocked, NewLocked, LockedOK
  <2>3. FbsOK'
    BY <1>4 DEF SetCrtc, OldFb, NewFb, FbsOK
  <2>4. ShownExists'
    BY <1>4 DEF SetCrtc, NewLocked, ShownExists, NewOK
  <2>5. NewOK'
    BY <1>4 DEF SetCrtc, NewLocked, NewOK
  <2> QED
    BY <2>1, <2>2, <2>3, <2>4, <2>5
<1>5. CASE RmFB
  <2>1. GBMTypeOK'
    BY <1>5 DEF RmFB, BoOrNone, GBMTypeOK, DrmRmFB
  <2>2. LockedOK'
    BY <1>5 DEF RmFB, OldLocked, NewLocked, LockedOK
  <2>3. FbsOK'
    BY <1>5 DEF RmFB, NewFb, FbsOK, DrmRmFB
  <2>4. ShownExists'
    BY <1>5 DEF RmFB, FbIds, ShownExists, DrmRmFB
  <2>5. NewOK'
    BY <1>5 DEF RmFB, NewLocked, NewOK
  <2> QED
    BY <2>1, <2>2, <2>3, <2>4, <2>5
<1>6. CASE Release
  <2>1. GBMTypeOK'
    BY <1>6 DEF Release, GBMTypeOK
  <2>2. LockedOK'
    BY <1>6 DEF Release, OldLocked, NewLocked, LockedOK, NewOK
  <2>3. FbsOK'
    BY <1>6 DEF Release, OldFb, NewFb, FbsOK
  <2>4. ShownExists'
    BY <1>6 DEF Release, ShownExists
  <2>5. NewOK'
    BY <1>6 DEF Release, NewLocked, NewOK
  <2> QED
    BY <2>1, <2>2, <2>3, <2>4, <2>5
<1>7. CASE Store
  <2>1. GBMTypeOK'
    BY <1>7 DEF Store, GBMTypeOK
  <2>2. LockedOK'
    BY <1>7 DEF Store, OldLocked, NewLocked, LockedOK
  <2>3. FbsOK'
    BY <1>7 DEF Store, OldFb, FbsOK
  <2>4. ShownExists'
    BY <1>7 DEF Store, ShownExists
  <2>5. NewOK'
    BY <1>7 DEF Store, NewLocked, NewOK
  <2> QED
    BY <2>1, <2>2, <2>3, <2>4, <2>5
<1>8. CASE RestoreCrtc
  <2>1. GBMTypeOK'
    BY <1>8 DEF RestoreCrtc, GBMTypeOK
  <2>2. LockedOK'
    BY <1>8 DEF RestoreCrtc, OldLocked, NewLocked, LockedOK
  <2>3. FbsOK'
    BY <1>8 DEF RestoreCrtc, OldFb, NewFb, FbsOK
  <2>4. ShownExists'
    BY <1>8 DEF RestoreCrtc, FbIds, ShownExists
  <2>5. NewOK'
    BY <1>8 DEF RestoreCrtc, NewLocked, NewOK
  <2> QED
    BY <2>1, <2>2, <2>3, <2>4, <2>5
<1>9. CASE DestroyGBM
  <2>1. GBMTypeOK'
    BY <1>9 DEF DestroyGBM, BoOrNone, GBMTypeOK, DrmRmFB
  <2>2. LockedOK'
    BY <1>9 DEF DestroyGBM, OldLocked, NewLocked, LockedOK
  <2>3. FbsOK'
    BY <1>9 DEF DestroyGBM, NewFb, FbsOK, DrmRmFB
  <2>4. ShownExists'
    BY <1>9 DEF DestroyGBM, FbIds, ShownExists, DrmRmFB
  <2>5. NewOK'
    BY <1>9 DEF DestroyGBM, NewLocked, NewOK
  <2> QED
    BY <2>1, <2>2, <2>3, <2>4, <2>5
<1>10. CASE UNCHANGED gbmVars
  BY <1>10 DEF gbmVars, OldLocked, NewLocked, OldFb, NewFb, LockedOK, FbsOK, ShownExists, NewOK, GBMTypeOK
<1> QED
  BY <1>1, <1>2, <1>3, <1>4, <1>5, <1>6, <1>7, <1>8, <1>9, <1>10 DEF GBMNext

(* The two frames are kept apart in every reachable state.                  *)
LEMMA GBMAlways == GBMSpec => []GBMInv
<1>1. GBMInit => GBMInv
  BY InitGBM
<1>2. GBMInv /\ [GBMNext]_gbmVars => GBMInv'
  BY StepGBM
<1> QED
  BY <1>1, <1>2, PTL DEF GBMSpec

(* Type correctness: two frame buffer ids are enough for every run.         *)
THEOREM GBMTypeCorrect == GBMSpec => []GBMTypeOK
<1>1. GBMInv => GBMTypeOK
  BY DEF GBMInv
<1> QED
  BY <1>1, GBMAlways, PTL

(* The buffer on the screen is locked, with any number of buffers and       *)
(* however the calls of submit() fail.                                      *)
THEOREM GBMScanoutStable == GBMSpec => []ScanoutStable
<1>1. GBMInv => ScanoutStable
  BY BufferAssumption DEF GBMInv, ScanoutStable, OldLocked, NewLocked, OldFb, NewFb, LockedOK, FbsOK, ShownExists
<1> QED
  BY <1>1, GBMAlways, PTL

(* Between frames one buffer with its frame buffer is kept, and nothing is  *)
(* left of a surface that was deleted.                                      *)
THEOREM GBMOneFrameKept == GBMSpec => []OneFrameKept
<1>1. GBMInv => OneFrameKept
  BY BufferAssumption DEF GBMInv, OneFrameKept, OldLocked, NewLocked, OldFb, NewFb, LockedOK, FbsOK, ShownExists
<1> QED
  BY <1>1, GBMAlways, PTL
=============================================================================
