------------------------------ MODULE MCSctFifo ------------------------------
(* Model-checking instances of SctFifo.                                      *)
EXTENDS SctFifo

AllConfigs == {c \in Config : Elaborates(c) /\ ~c.INIT_BUFFER}
SupportedConfigs == {c \in Config : Supported(c)}
=============================================================================
