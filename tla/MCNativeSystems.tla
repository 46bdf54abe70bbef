--------------------------- MODULE MCNativeSystems ---------------------------
(* An instance of NativeSystems: the constants are in MCNativeSystems.cfg.  *)
EXTENDS NativeSystems
=============================================================================
