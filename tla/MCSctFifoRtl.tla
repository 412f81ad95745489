----------------------------- MODULE MCSctFifoRtl -----------------------------
(* Model-checking instances of SctFifoRtl.                                   *)
EXTENDS SctFifoRtl, FifoConfig

AllConfigs == {c \in Config : Elaborates(c)}
=============================================================================
