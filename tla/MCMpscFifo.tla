------------------------------ MODULE MCMpscFifo ------------------------------
(* Two producers, two pushes each, four nodes: one more than the queue can  *)
(* hold together with its dummy head when the oldest one is being freed.    *)
EXTENDS MpscFifo
=============================================================================
