------------------------- MODULE MCSctTargetInitiator -------------------------
(* Model-checking instance of SctTargetInitiator: every configuration.       *)
EXTENDS SctTargetInitiator
=============================================================================
