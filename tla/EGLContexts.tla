----------------------------- MODULE EGLContexts -----------------------------
(****************************************************************************)
(* examples/EGLRenderLoop.cpp: the contexts of a render loop with several   *)
(* surfaces, as the rendering thread makes them, makes them current, draws  *)
(* with them and deletes them.  process() looks neither at what the         *)
(* constructor of ContextEGL has achieved nor at whether its context could  *)
(* be made current, so a frame is drawn with whatever context is current.   *)
(****************************************************************************)
EXTENDS FiniteSets

CONSTANTS Contexts,    \* ContextEGL objects
          Displays,
          NoContext, NoDisplay

ASSUME ContextAssumption == NoContext \notin Contexts /\ NoDisplay \notin Displays

VARIABLES
  display_,      \* display_[c]
  made,          \* made[c]: which of {"surface", "context"} the constructor made
  in_use,        \* the ContextEGL objects that exist
  valid,         \* those whose display was not terminated since
  current,       \* the context that is current on the rendering thread
  frame_of       \* the context of the surface that process() is drawing

eglVars == <<display_, made, in_use, valid, current, frame_of>>

Whole == {"surface", "context"}

EGLInit ==
  /\ display_ = [c \in Contexts |-> NoDisplay]
  /\ made = [c \in Contexts |-> {}]
  /\ in_use = {} /\ valid = {}
  /\ current = NoContext /\ frame_of = NoContext

-----------------------------------------------------------------------------
(* eglMakeCurrent(): what is current afterwards.  With no surface and no    *)
(* context it leaves none current; where it fails it changes nothing, and   *)
(* it may fail for each other reason that a whole context has, as a native  *)
(* window that is gone.                                                     *)
MakeCurrent(c) ==
  IF display_[c] # NoDisplay /\ made[c] = {} THEN {NoContext}
  ELSE {current} \cup (IF made[c] = Whole /\ c \in valid THEN {c} ELSE {})

(* createRenderContext(): the constructor returns early when a call fails,  *)
(* from eglGetDisplay() on, and the object is used all the same.            *)
CreateContext(c) ==
  /\ frame_of = NoContext /\ c \notin in_use
  /\ \E d \in Displays \cup {NoDisplay}, what \in {{}, {"surface"}, Whole} :
       /\ d = NoDisplay => what = {}
       /\ display_' = [display_ EXCEPT ![c] = d]
       /\ made' = [made EXCEPT ![c] = what]
  /\ in_use' = in_use \cup {c} /\ valid' = valid \cup {c}
  /\ UNCHANGED <<current, frame_of>>

(* process(): activateRenderContext(), then the frame.                      *)
Activate(c) ==
  /\ frame_of = NoContext /\ c \in in_use
  /\ current' \in MakeCurrent(c)
  /\ frame_of' = c
  /\ UNCHANGED <<display_, made, in_use, valid>>

(* The draw callback and swapBuffers().                                     *)
DrawFrame ==
  /\ frame_of # NoContext
  /\ frame_of' = NoContext
  /\ UNCHANGED <<display_, made, in_use, valid, current>>

(* ~ContextEGL(): nothing without a display.  Otherwise it leaves no        *)
(* context current and terminates the display, for every context on it.     *)
(* A bug: only the context itself is looked for before.                     *)
Released_Own(c) == IF current = c THEN NoContext ELSE current

Released(c) == IF display_[c] = NoDisplay THEN current ELSE NoContext

Terminated(c) == {d \in in_use : display_[d] = display_[c]}

DestroyContext(c) ==
  /\ c \in in_use /\ frame_of = c
  /\ current' = Released(c)
  /\ valid' = valid \ Terminated(c)
  /\ in_use' = in_use \ {c}
  /\ made' = [made EXCEPT ![c] = {}]
  /\ frame_of' = NoContext
  /\ UNCHANGED display_

EGLNext ==
  \/ \E c \in Contexts : CreateContext(c) \/ Activate(c) \/ DestroyContext(c)
  \/ DrawFrame

EGLSpec == EGLInit /\ [][EGLNext]_eglVars

-----------------------------------------------------------------------------
(* Whatever is drawn, and be it for a surface whose own context could not   *)
(* be made current, goes to a context that exists, on a display that no     *)
(* ~ContextEGL() of another surface has terminated: process() draws with    *)
(* what an earlier surface has left current.                                *)
CurrentIsAlive == current # NoContext => current \in in_use \cap valid /\ made[current] = Whole
=============================================================================
