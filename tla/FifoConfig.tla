------------------------------ MODULE FifoConfig ------------------------------
(***************************************************************************)
(* The ways a FIFO can be set up: which kind of process is attached to each *)
(* side (addToPut, addToGet) and the constructor's parameters; and which of *)
(* them before_end_of_elaboration accepts.                                  *)
(***************************************************************************)

\* Process kinds (cthread_put, cthread_get) and constructor parameters.
Config == [cthread_put : BOOLEAN, cthread_get : BOOLEAN,
           SYNC_VALID : BOOLEAN, SYNC_READY : BOOLEAN, INIT_BUFFER : BOOLEAN]

\* before_end_of_elaboration lets these simulate: methods on both sides need
\* a register on at least one of the two paths.  The models have a process for each
\* side; a single method on both sides would need both registers.
Elaborates(c) == c.cthread_put \/ c.cthread_get \/ c.SYNC_VALID \/ c.SYNC_READY

\* ... and these simulate without a warning.
Supported(c) == /\ Elaborates(c)
                /\ ~(c.cthread_put /\ c.SYNC_VALID)
                /\ ~(c.cthread_get /\ c.SYNC_READY)
=============================================================================
