------------------------------- MODULE MCSctPipe -------------------------------
(* Model-checking instance of SctPipe: every configuration.                  *)
EXTENDS SctPipe
=============================================================================
