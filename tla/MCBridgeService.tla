--------------------------- MODULE MCBridgeService ---------------------------
(* Values for the constants of BridgeService: handlers and connections are *)
(* model values, interchangeable in the runs that check no liveness.       *)
EXTENDS BridgeService, TLC

Symmetry == Permutations(Handlers) \cup Permutations(Conns)
=============================================================================
