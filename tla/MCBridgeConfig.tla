--------------------------- MODULE MCBridgeConfig ---------------------------
(* The handlers of a run of BridgeConfig are alike.                        *)
EXTENDS BridgeConfig, TLC

Symmetry == Permutations(Handlers)
=============================================================================
