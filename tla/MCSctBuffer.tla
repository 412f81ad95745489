----------------------------- MODULE MCSctBuffer -----------------------------
(* Model-checking instance of SctBuffer: the three simulations, lengths one *)
(* (two in "LT") to three with every combination of multiple puts and gets  *)
(* and of eager threads; length four, where the thresholds of put_event and *)
(* get_event lie apart, with two eager threads.                             *)
EXTENDS SctBuffer

SmallConfigs ==
    {BufferConfig(mode, n, FALSE, FALSE, eager) :
        mode \in {"CA", "AT"}, n \in 1 .. 3, eager \in SUBSET Side}
    \cup {TargetConfig(att, mput, mget, eager) :
        att \in {0, 1}, mput, mget \in BOOLEAN, eager \in SUBSET Side}
    \cup {BufferConfig("LT", 4, mput, mget, Side) : mput, mget \in BOOLEAN}
=============================================================================
