----------------------------- MODULE MCRenderLoop -----------------------------
(* Instances of RenderLoop: what each thread may do, per run.               *)
EXTENDS RenderLoop, TLC

CONSTANTS U           \* an application thread besides Main

NoOps == [op \in Ops |-> 0]

Budget(main, u, env) == (Main :> (main @@ NoOps)) @@ (U :> (u @@ NoOps))
                        @@ (Render :> (env @@ NoOps))

(* One surface whose window changes and loses its handle, goes to the       *)
(* background twice and is closed.                                          *)
HandleQuota == Budget([start |-> 1, add |-> 1, close |-> 1],
                      [reset |-> 1, detach |-> 1],
                      [gate |-> 2, change |-> 1])

(* Two surfaces that are closed by stop(), by a thread and by the last one  *)
(* going away.                                                              *)
RemovalQuota == Budget([start |-> 1, add |-> 2, stop |-> 1],
                       [close |-> 1], NoOps)

LifeQuotas == {HandleQuota, RemovalQuota}

(* Surfaces and handles are interchangeable.                                *)
Symmetry == Permutations(Surfaces) \cup Permutations(Handles)

(* Two threads push events of one surface at the same time.                 *)
QuiescentQuotas == {Budget([start |-> 1, add |-> 1, close |-> 1, update |-> 1],
                           [reset |-> 1, resize |-> 1],
                           NoOps)}

(* A thread closes the surface and stops the loop while the other one waits *)
(* for it; the window system may close the surface on whichever thread      *)
(* pumps it.                                                                *)
StopQuotas == {Budget([start |-> 1, add |-> 1, wait |-> 1], [stop |-> 1, close |-> 1],
                      [native |-> 1])}

(* The runs that refute a statement of the documentation.                   *)
DanglingQuotas == {Budget([start |-> 1, add |-> 2], [resize |-> 1, close |-> 1], NoOps)}

CloseFirstQuotas == {Budget([start |-> 1, add |-> 1, close |-> 1], NoOps, NoOps)}

StopExitsQuotas == {Budget([start |-> 1, add |-> 1, close |-> 1, stop |-> 1], NoOps, NoOps),
                    Budget([start |-> 1, add |-> 1, stop |-> 1], NoOps, [gate |-> 1])}
=============================================================================
