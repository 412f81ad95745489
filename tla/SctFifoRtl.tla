------------------------------ MODULE SctFifoRtl ------------------------------
(***************************************************************************)
(* The FIFO as hardware: the __SC_TOOL__ branch of sct_fifo, which is what  *)
(* the compiler turns into SystemVerilog.  Here put_req and get_req are     *)
(* combinational in every case, so one step is one clock cycle.             *)
(***************************************************************************)
EXTENDS Integers, Sequences

CONSTANTS LENGTH, Data, ZERO, Configs

VARIABLES
    cfg,            \* process kinds and constructor parameters, fixed
    pop_indx,       \* index of the element that will be popped
    push_indx,      \* index where a pushed element is stored
    element_num_d,  \* number of elements after the last clock edge
    buffer,         \* FIFO slots
    op              \* what the last clock cycle did: [put, get]

rtlVars == <<cfg, pop_indx, push_indx, element_num_d, buffer, op>>

ASSUME RtlLengthAssumption == LENGTH \in Nat \ {0}
ASSUME RtlDataAssumption == ZERO \in Data

Indx == 0 .. LENGTH - 1
NoOp == [done |-> FALSE, data |-> ZERO]
Results == [done : BOOLEAN, data : Data]
NextIndx(i) == IF i = LENGTH - 1 THEN 0 ELSE i + 1

Init == /\ cfg \in Configs
        /\ pop_indx = 0 /\ push_indx = 0
        /\ element_num_d = 0
        /\ buffer = [i \in Indx |-> ZERO]
        /\ op = [put |-> NoOp, get |-> NoOp]

\* Mutants of ready_push: no test for a full FIFO; the registers ignored.
ReadyPushAlwaysComb(pop) == element_num_d # LENGTH \/ pop

\* asyncProc: what the two sides see, given the other side's request.
out_valid(push) == \/ element_num_d # 0
                   \/ push /\ ~cfg.cthread_put /\ ~cfg.SYNC_VALID
data_out(data_in) == IF element_num_d # 0 \/ cfg.SYNC_VALID \/ cfg.cthread_put
                     THEN buffer[pop_indx] ELSE data_in
ready_push(pop) == \/ element_num_d # LENGTH
                   \/ pop /\ ~cfg.cthread_get /\ ~cfg.SYNC_READY

\* One clock cycle: the requests are granted by asyncProc's outputs and
\* syncProc performs them.
Cycle(put, get) ==
    LET push == put.done
        pop == get.done
    IN
    /\ push => ready_push(pop)
    /\ pop => out_valid(push) /\ get.data = data_out(put.data)
    /\ pop_indx' = IF pop THEN NextIndx(pop_indx) ELSE pop_indx
    /\ push_indx' = IF push THEN NextIndx(push_indx) ELSE push_indx
    /\ buffer' = IF push THEN [buffer EXCEPT ![push_indx] = put.data] ELSE buffer
    /\ element_num_d' = CASE pop /\ ~push -> element_num_d - 1
                          [] push /\ ~pop -> element_num_d + 1
                          [] OTHER -> element_num_d
    /\ op' = [put |-> put, get |-> get]
    /\ UNCHANGED cfg

\* Mutant: push_indx is not reset.
ResetKeepsPushIndx ==
    /\ pop_indx' = 0 /\ element_num_d' = 0
    /\ op' = [put |-> NoOp, get |-> NoOp]
    /\ UNCHANGED <<cfg, push_indx, buffer>>

\* The reset section of syncProc.  Without INIT_BUFFER it clears slot 0 only:
\* what the other slots hold then is left open here, no one may rely on it.
Reset == /\ pop_indx' = 0 /\ push_indx' = 0
         /\ element_num_d' = 0
         /\ buffer' \in [Indx -> Data]
         /\ \A i \in Indx : i = 0 \/ cfg.INIT_BUFFER => buffer'[i] = ZERO
         /\ op' = [put |-> NoOp, get |-> NoOp]
         /\ UNCHANGED cfg

Next == \/ \E put, get \in Results : Cycle(put, get)
        \/ Reset

Spec == Init /\ [][Next]_rtlVars

-----------------------------------------------------------------------------
(* Properties.                                                               *)

\* The registers keep their types; the element counter never leaves 0..LENGTH
\* although asyncProc adds and subtracts without testing it.
TypeOK ==
    /\ cfg \in Configs
    /\ pop_indx \in Indx /\ push_indx \in Indx
    /\ element_num_d \in 0 .. LENGTH
    /\ buffer \in [Indx -> Data]
    /\ op \in [put : Results, get : Results]

\* The three registers that syncProc moves independently of each other agree:
\* the push index is element_num_d slots after the pop index, round the ring.
IndicesAgree ==
    \/ push_indx = pop_indx + element_num_d
    \/ push_indx + LENGTH = pop_indx + element_num_d

\* The n elements of ring b that start in slot p, oldest first.
Slot(p, k) == IF p + k < LENGTH THEN p + k ELSE p + k - LENGTH
Ring(b, p, n) == [k \in 1 .. n |-> b[Slot(p, k - 1)]]
Contents == Ring(buffer, pop_indx, element_num_d)

Contract == INSTANCE FifoContract WITH
    q <- Contents,
    promise <- [size |-> LENGTH,
                passThrough |-> ~cfg.cthread_put /\ ~cfg.SYNC_VALID,
                makesRoom |-> ~cfg.cthread_get /\ ~cfg.SYNC_READY]

\* The ring buffer is a bounded queue: a put is accepted only when there is
\* room, a get returns the oldest element, and nothing is lost or duplicated.
ImplementsContract == Contract!Spec
=============================================================================
