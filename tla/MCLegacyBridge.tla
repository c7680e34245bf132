--------------------------- MODULE MCLegacyBridge ---------------------------
(* LegacyBridge with connections as model values.                          *)
EXTENDS LegacyBridge
=============================================================================
