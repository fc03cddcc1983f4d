--------------------------- MODULE MCBridgeService ---------------------------
(* BridgeService on small instances; the callers are interchangeable.      *)
EXTENDS BridgeService, TLC

Symmetry == Permutations(Caller)
=============================================================================
