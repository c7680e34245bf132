----------------------------- MODULE MCQtBridge -----------------------------
(* QtBridge with connections as model values.                              *)
EXTENDS QtBridge
=============================================================================
