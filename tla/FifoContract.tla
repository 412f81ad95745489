----------------------------- MODULE FifoContract -----------------------------
(***************************************************************************)
(* What a FIFO of the Single Source library promises its users, whatever    *)
(* the process kinds and whatever the simulation mode: a bounded queue that *)
(* performs at most one put and one get per clock cycle.                    *)
(***************************************************************************)
EXTENDS Integers, Sequences

CONSTANTS Data, ZERO

VARIABLES
    promise,    \* [size, passThrough, makesRoom], fixed at elaboration
    q,          \* the elements, oldest first
    op          \* what the last clock cycle did: [put, get]

contractVars == <<promise, q, op>>

NoOp == [done |-> FALSE, data |-> ZERO]
Results == [done : BOOLEAN, data : Data]

Init == /\ q = <<>>
        /\ op = [put |-> NoOp, get |-> NoOp]

\* One clock cycle.  A put needs a free slot, or a get in the same cycle when
\* the ready path is combinational; a get needs an element, or a put in the
\* same cycle when the valid path is combinational.  A get takes the oldest.
Cycle(put, get) ==
    LET offered == IF put.done THEN Append(q, put.data) ELSE q IN
    /\ put.done => \/ Len(q) < promise.size
                   \/ get.done /\ promise.makesRoom
    /\ get.done => /\ q # <<>> \/ (put.done /\ promise.passThrough)
                   /\ get.data = Head(offered)
    /\ q' = IF get.done THEN Tail(offered) ELSE offered
    /\ op' = [put |-> put, get |-> get]
    /\ UNCHANGED promise

Reset == /\ q' = <<>>
         /\ op' = [put |-> NoOp, get |-> NoOp]
         /\ UNCHANGED promise

Next == \/ \E put, get \in Results : Cycle(put, get)
        \/ Reset

Spec == Init /\ [][Next]_contractVars
=============================================================================
