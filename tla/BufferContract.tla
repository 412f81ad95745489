---------------------------- MODULE BufferContract ----------------------------
(***************************************************************************)
(* What a buffer of the Single Source library promises its two threads in   *)
(* every simulation mode: a bounded queue in which a delta cycle performs   *)
(* the puts and the gets of one activation of each thread.  The puts find   *)
(* room beside the elements the delta cycle began with, the gets take the   *)
(* oldest of them.                                                          *)
(***************************************************************************)
EXTENDS Integers, Sequences

CONSTANT Data

VARIABLES
    size,       \* how many elements fit, fixed at elaboration
    q,          \* the elements, oldest first
    op          \* what the last delta cycle did: [put, get], two sequences

contractVars == <<size, q, op>>

NoOp == [put |-> <<>>, get |-> <<>>]

Init == q = <<>> /\ op = NoOp

\* Sequences over Data of length n at most.
Burst(n) == UNION {[1 .. k -> Data] : k \in 0 .. n}

Delta(put, gets) ==
    /\ Len(q) + Len(put) <= size
    /\ q' = SubSeq(q, gets + 1, Len(q)) \o put
    /\ op' = [put |-> put, get |-> SubSeq(q, 1, gets)]
    /\ UNCHANGED size

Reset == q' = <<>> /\ op' = NoOp /\ UNCHANGED size

Next == \/ \E put \in Burst(size), gets \in 0 .. Len(q) : Delta(put, gets)
        \/ Reset

Spec == Init /\ [][Next]_contractVars
=============================================================================
