---------------------------- MODULE MCSctPrimFifo ----------------------------
(* Model-checking instances of SctPrimFifo.                                  *)
EXTENDS SctPrimFifo

\* sct_fifo<T, 2, TRAITS, 1>; USE_ELEM_NUM only adds notifications, it is
\* explored for two threads.
FifoConfigs == {FifoConfig(2, cput, cget, valid, ready, elem) :
                    cput, cget, valid, ready \in BOOLEAN, elem \in {FALSE}}
          \cup {FifoConfig(2, TRUE, TRUE, valid, ready, TRUE) :
                    valid, ready \in BOOLEAN}

\* sct_target<T, TRAITS, 1> bound to sct_initiator<T, TRAITS, 1>, also with a FIFO
\* of length 1 attached.
TargetConfigs == {TargetConfig(cput, cget, sync, 0) : cput, cget, sync \in BOOLEAN}
            \cup {TargetConfig(kind, kind, FALSE, 1) : kind \in BOOLEAN}

\* sct_pipe<T, 1, TRAITS, 1>.
PipeConfigs == {PipeConfig(1, cput, cget) : cput, cget \in BOOLEAN}
AllConfigs == FifoConfigs \cup TargetConfigs \cup PipeConfigs

\* A target between two threads: get(data, enable) is checked there on its own.
ThreadTargets == {c \in TargetConfigs : c.cthread_put /\ c.cthread_get}
LiveConfigs == AllConfigs \ ThreadTargets

\* With a peeking process: of the kind of the GET process, and a method beside
\* the GET thread of a FIFO (no notification of peek_event depends on sync_ready).
Peeked(configs, kind) == {[c EXCEPT !.peek = kind] : c \in configs}
GetThreads == {c \in AllConfigs : c.cthread_get}
PeekedConfigs == Peeked(GetThreads, "thread") \cup Peeked(AllConfigs \ GetThreads, "method")
            \cup Peeked({c \in FifoConfigs : c.cthread_get /\ ~c.USE_ELEM_NUM /\ ~c.sync_ready},
                   "method")
=============================================================================
