------------------------------- MODULE SctFifo -------------------------------
(***************************************************************************)
(* Cycle accurate FIFO channel sct_fifo<T, LENGTH, TRAITS, 0> as it is      *)
(* simulated: its two processes asyncProc and syncProc, the member          *)
(* functions a PUT process and a GET process call, and the SystemC kernel's *)
(* evaluate / update / advance-time cycle that schedules all of them.       *)
(*                                                                          *)
(* A signal keeps a current value (cur) and a value for the next update     *)
(* (nxt), like sct_prim_signal::curr_val and next_val.  A process reads cur *)
(* and writes nxt; Update makes nxt current and wakes every process that is *)
(* sensitive to a signal that changed.  Time advances (ClockEdge, reset)    *)
(* only when nothing is runnable and no update is pending.                  *)
(***************************************************************************)
EXTENDS Integers, Sequences, FifoConfig

CONSTANTS
    LENGTH,         \* maximal number of elements
    ElemNums,       \* number of values of ElemNum_t, 2^sct_nbits<LENGTH>
    Data,           \* the values of type T
    ZERO,           \* T{}
    Configs,        \* the configurations explored
    PutOps,         \* what the PUT process may do when it runs
    GetOps,         \* what the GET process may do when it runs
    MaxResets       \* bound: how often reset is asserted again

ASSUME LengthAssumption == LENGTH \in Nat \ {0}
ASSUME ElemNumsAssumption == ElemNums \in Nat /\ ElemNums > LENGTH
ASSUME DataAssumption == ZERO \in Data
ASSUME MaxResetsAssumption == MaxResets \in Nat

ASSUME ConfigsAssumption == \A c \in Configs : c \in Config /\ Elaborates(c)

PutOpKinds == {"idle", "clear", "put", "mask", "b_put"}
GetOpKinds == {"idle", "clear", "get", "mask", "b_get"}
ASSUME OpsAssumption == PutOps \subseteq PutOpKinds /\ GetOps \subseteq GetOpKinds

VARIABLES
    cfg,        \* the configuration, fixed when the design is elaborated
    cur, nxt,   \* current and next values of the signals
    runnable,   \* processes to run in this evaluation phase
    rst,        \* reset is active
    edge,       \* what started this evaluation phase: "clock", "reset", "none"
    put_ok,     \* what put() last returned to its caller, and the value passed
    get_ok,     \* what get() last returned to its caller, and the value given
    blocked,    \* which of the two processes waits inside b_put() / b_get()
    q,          \* history: elements put and not yet got, oldest first
    op,         \* history: what the last clock edge committed
    resets      \* number of times reset has been asserted again

vars == <<cfg, cur, nxt, runnable, rst, edge, put_ok, get_ok, blocked, q, op, resets>>

Indx == 0 .. LENGTH - 1
Result == [done : BOOLEAN, data : Data]
Nothing == [done |-> FALSE, data |-> ZERO]
Outcome(does, data) == IF does THEN [done |-> TRUE, data |-> data] ELSE Nothing

\* The signals of the channel.  put_op/put_val/get_op are the registers of the
\* user's design that a PUT or GET *method* looks at (it has no state itself).
Signals == [put_req : BOOLEAN, get_req : BOOLEAN,
            put_req_d : BOOLEAN, get_req_d : BOOLEAN,
            data_in : Data, data_out : Data,
            ready_push : BOOLEAN, out_valid : BOOLEAN,
            pop_indx : Indx, push_indx : Indx,
            element_num : 0 .. ElemNums - 1, element_num_d : 0 .. ElemNums - 1,
            buffer : [Indx -> Data],
            put_op : PutOpKinds, put_val : Data, get_op : GetOpKinds]

NextIndx(i) == IF i = LENGTH - 1 THEN 0 ELSE i + 1

\* A thread's request is a toggle seen against its registered copy, a
\* method's request is a level.
Push(s) == IF cfg.cthread_put THEN s.put_req # s.put_req_d ELSE s.put_req
Pop(s)  == IF cfg.cthread_get THEN s.get_req # s.get_req_d ELSE s.get_req

\* Mutants of asyncProc's helpers.
OutValidForMethods(s) ==        \* cthread_get not tested
    IF Pop(s) THEN s.element_num_d # 0 /\ s.element_num_d # 1
              ELSE s.element_num_d # 0
OutValidLast(s) == s.element_num_d > 1          \* the last element is kept back
OutValidNow(s) == s.element_num_d # 0           \* pending pop forgotten
ReadyPushNow(s) == s.element_num_d # LENGTH     \* pending push forgotten
PopIndxNow(s) == s.pop_indx                     \* pending pop forgotten

\* asyncProc: the combinational outputs as a function of the signals it reads.
OutValid(s) == IF cfg.cthread_get /\ Pop(s)
               THEN s.element_num_d # 0 /\ s.element_num_d # 1
               ELSE s.element_num_d # 0
PopIndx(s) == IF cfg.cthread_get /\ Pop(s) THEN NextIndx(s.pop_indx) ELSE s.pop_indx
ReadyPush(s) == IF cfg.cthread_put /\ Push(s)
                THEN s.element_num_d # LENGTH /\ s.element_num_d # LENGTH - 1
                ELSE s.element_num_d # LENGTH
ElementNum(s) == IF Pop(s) /\ ~Push(s) THEN (s.element_num_d - 1) % ElemNums
                 ELSE IF ~Pop(s) /\ Push(s) THEN (s.element_num_d + 1) % ElemNums
                 ELSE s.element_num_d
CombOutputs(s) ==
    [out_valid  |-> IF cfg.SYNC_VALID THEN OutValid(s) ELSE Push(s) \/ OutValid(s),
     data_out   |-> IF cfg.SYNC_VALID \/ OutValid(s) THEN s.buffer[PopIndx(s)]
                    ELSE s.data_in,
     ready_push |-> IF cfg.SYNC_READY THEN ReadyPush(s) ELSE Pop(s) \/ ReadyPush(s),
     element_num |-> ElementNum(s)]

\* Sensitivity: which processes a change of the signals from s to t wakes.
AsyncSensitiveNoGet == {"data_in", "put_req", "pop_indx", "element_num_d",  \* mutant
                        "put_req_d", "get_req_d", "buffer"}
GetSensitiveNoData == {"out_valid", "element_num_d", "get_op"}          \* mutant
AsyncSensitive == {"data_in", "put_req", "get_req", "pop_indx", "element_num_d",
                   "put_req_d", "get_req_d", "buffer"}
PutSensitive == {"ready_push", "element_num_d", "put_op", "put_val"}
GetSensitive == {"out_valid", "data_out", "element_num_d", "get_op"}
Changed(s, t, names) == \E n \in names : s[n] # t[n]
Woken(s, t) ==
    {p \in {"asyncProc", "put", "get"} :
        \/ p = "asyncProc" /\ Changed(s, t, AsyncSensitive)
        \/ p = "put" /\ ~cfg.cthread_put /\ Changed(s, t, PutSensitive)
        \/ p = "get" /\ ~cfg.cthread_get /\ Changed(s, t, GetSensitive)}
Threads == {"syncProc"} \cup (IF cfg.cthread_put THEN {"put"} ELSE {})
                        \cup (IF cfg.cthread_get THEN {"get"} ELSE {})

\* Signals power up as zeros and reset is active; method processes run once at
\* initialization and threads run their reset section first.
Init ==
    /\ cfg \in Configs
    /\ cur = [put_req |-> FALSE, get_req |-> FALSE,
              put_req_d |-> FALSE, get_req_d |-> FALSE,
              data_in |-> ZERO, data_out |-> ZERO,
              ready_push |-> FALSE, out_valid |-> FALSE,
              pop_indx |-> 0, push_indx |-> 0,
              element_num |-> 0, element_num_d |-> 0,
              buffer |-> [i \in Indx |-> ZERO],
              put_op |-> "clear", put_val |-> ZERO, get_op |-> "clear"]
    /\ nxt = cur
    /\ runnable = {"asyncProc", "syncProc", "put", "get"}
    /\ rst = TRUE
    /\ edge = "reset"
    /\ put_ok = Nothing /\ get_ok = Nothing
    /\ blocked = [put |-> FALSE, get |-> FALSE]
    /\ q = <<>>
    /\ op = [put |-> Nothing, get |-> Nothing]
    /\ resets = 0

-----------------------------------------------------------------------------
(* Evaluation phase: any runnable process runs to its end or next wait().   *)

asyncProc ==
    /\ "asyncProc" \in runnable
    /\ runnable' = runnable \ {"asyncProc"}
    /\ LET out == CombOutputs(cur) IN
       nxt' = [nxt EXCEPT !.out_valid = out.out_valid, !.data_out = out.data_out,
                          !.ready_push = out.ready_push,
                          !.element_num = out.element_num]
    /\ UNCHANGED <<cfg, cur, rst, edge, put_ok, get_ok, blocked, q, op, resets>>

\* Mutant: the registered requests survive reset.
SyncResetKeepsRequests(n) ==
    [n EXCEPT !.pop_indx = 0, !.push_indx = 0, !.element_num_d = 0,
              !.buffer = [i \in Indx |-> IF i = 0 \/ cfg.INIT_BUFFER THEN ZERO
                                         ELSE n.buffer[i]]]

\* syncProc's reset section: without INIT_BUFFER only cell 0 is cleared.
SyncReset(n) ==
    [n EXCEPT !.pop_indx = 0, !.push_indx = 0,
              !.put_req_d = IF cfg.cthread_put THEN FALSE ELSE n.put_req_d,
              !.get_req_d = IF cfg.cthread_get THEN FALSE ELSE n.get_req_d,
              !.element_num_d = 0,
              !.buffer = [i \in Indx |-> IF i = 0 \/ cfg.INIT_BUFFER THEN ZERO
                                         ELSE n.buffer[i]]]

\* syncProc's main loop, from one wait() to the next.
SyncCycle(s, n) ==
    [n EXCEPT
        !.pop_indx = IF Pop(s) THEN NextIndx(s.pop_indx) ELSE n.pop_indx,
        !.buffer = IF Push(s) THEN [n.buffer EXCEPT ![s.push_indx] = s.data_in]
                              ELSE n.buffer,
        !.push_indx = IF Push(s) THEN NextIndx(s.push_indx) ELSE n.push_indx,
        !.put_req_d = IF cfg.cthread_put THEN s.put_req ELSE n.put_req_d,
        !.get_req_d = IF cfg.cthread_get THEN s.get_req ELSE n.get_req_d,
        !.element_num_d = s.element_num]

syncProc ==
    /\ "syncProc" \in runnable
    /\ runnable' = runnable \ {"syncProc"}
    /\ nxt' = IF rst THEN SyncReset(nxt) ELSE SyncCycle(cur, nxt)
    /\ UNCHANGED <<cfg, cur, rst, edge, put_ok, get_ok, blocked, q, op, resets>>

GetReqLevel(does) == does       \* mutant: a thread's request is a level

\* The value written to put_req by a call that does (or does not) put.
PutReq(does) == IF cfg.cthread_put THEN (IF does THEN ~cur.put_req ELSE cur.put_req)
                                   ELSE does
GetReq(does) == IF cfg.cthread_get THEN (IF does THEN ~cur.get_req ELSE cur.get_req)
                                   ELSE does

PutRuns == "put" \in runnable /\ runnable' = runnable \ {"put"}
GetRuns == "get" \in runnable /\ runnable' = runnable \ {"get"}
PutFrame == UNCHANGED <<cfg, cur, rst, edge, get_ok, q, op, resets>>
GetFrame == UNCHANGED <<cfg, cur, rst, edge, put_ok, q, op, resets>>

\* reset_put(), in the reset section of the PUT thread.
reset_put ==
    /\ PutRuns /\ cfg.cthread_put /\ rst
    /\ nxt' = [nxt EXCEPT !.put_req = FALSE, !.data_in = ZERO]
    /\ put_ok' = Nothing
    /\ blocked' = [blocked EXCEPT !.put = FALSE]
    /\ PutFrame

\* The PUT thread does not touch the channel in this clock cycle.
put_idle ==
    /\ PutRuns /\ cfg.cthread_put /\ ~rst /\ ~blocked.put
    /\ "idle" \in PutOps
    /\ put_ok' = Nothing
    /\ UNCHANGED <<nxt, blocked>>
    /\ PutFrame

\* clear_put(): the PUT thread calls it, and a PUT method that does not put.
clear_put ==
    /\ PutRuns
    /\ IF cfg.cthread_put THEN ~rst /\ ~blocked.put /\ "clear" \in PutOps
                          ELSE cur.put_op = "clear"
    /\ nxt' = [nxt EXCEPT !.put_req = PutReq(FALSE), !.data_in = ZERO]
    /\ put_ok' = Nothing
    /\ UNCHANGED blocked
    /\ PutFrame

\* put(data) and put(data, mask); it returns ready_push && mask.
put(data, mask) ==
    /\ PutRuns
    /\ IF cfg.cthread_put THEN ~rst /\ ~blocked.put
                          ELSE data = cur.put_val
    /\ LET does == cur.ready_push /\ mask IN
       /\ nxt' = [nxt EXCEPT !.put_req = PutReq(does), !.data_in = data]
       /\ put_ok' = Outcome(does, data)
    /\ UNCHANGED blocked
    /\ PutFrame

\* b_put(data): data_in is assigned once, then the thread waits until the FIFO
\* is ready.
b_put(data) ==
    /\ PutRuns /\ cfg.cthread_put /\ ~rst
    /\ IF blocked.put THEN data = cur.data_in ELSE "b_put" \in PutOps
    /\ nxt' = [nxt EXCEPT !.put_req = PutReq(cur.ready_push), !.data_in = data]
    /\ put_ok' = Outcome(cur.ready_push, data)
    /\ blocked' = [blocked EXCEPT !.put = ~cur.ready_push]
    /\ PutFrame

\* reset_get(), in the reset section of the GET thread.
reset_get ==
    /\ GetRuns /\ cfg.cthread_get /\ rst
    /\ nxt' = [nxt EXCEPT !.get_req = FALSE]
    /\ get_ok' = Nothing
    /\ blocked' = [blocked EXCEPT !.get = FALSE]
    /\ GetFrame

get_idle ==
    /\ GetRuns /\ cfg.cthread_get /\ ~rst /\ ~blocked.get
    /\ "idle" \in GetOps
    /\ get_ok' = Nothing
    /\ UNCHANGED <<nxt, blocked>>
    /\ GetFrame

\* clear_get(): the GET thread calls it, and a GET method that does not get.
clear_get ==
    /\ GetRuns
    /\ IF cfg.cthread_get THEN ~rst /\ ~blocked.get /\ "clear" \in GetOps
                          ELSE cur.get_op = "clear"
    /\ nxt' = [nxt EXCEPT !.get_req = GetReq(FALSE)]
    /\ get_ok' = Nothing
    /\ UNCHANGED blocked
    /\ GetFrame

\* get() and get(data, enable); it returns out_valid && enable.
get(enable) ==
    /\ GetRuns
    /\ cfg.cthread_get => ~rst /\ ~blocked.get
    /\ LET does == cur.out_valid /\ enable IN
       /\ nxt' = [nxt EXCEPT !.get_req = GetReq(does)]
       /\ get_ok' = Outcome(does, cur.data_out)
    /\ UNCHANGED blocked
    /\ GetFrame

\* b_get(): the thread waits until the FIFO has an element to give.
b_get ==
    /\ GetRuns /\ cfg.cthread_get /\ ~rst
    /\ blocked.get \/ "b_get" \in GetOps
    /\ nxt' = [nxt EXCEPT !.get_req = GetReq(cur.out_valid)]
    /\ get_ok' = Outcome(cur.out_valid, cur.data_out)
    /\ blocked' = [blocked EXCEPT !.get = ~cur.out_valid]
    /\ GetFrame

\* The operation a PUT (GET) process may perform: a method's is in its register.
PutOp == IF cfg.cthread_put THEN PutOps ELSE {cur.put_op}
GetOp == IF cfg.cthread_get THEN GetOps ELSE {cur.get_op}

PutProc == \/ reset_put \/ put_idle \/ clear_put
           \/ \E d \in Data : \/ "put" \in PutOp /\ put(d, TRUE)
                              \/ "mask" \in PutOp /\ put(d, FALSE)
                              \/ b_put(d)
GetProc == \/ reset_get \/ get_idle \/ clear_get
           \/ "get" \in GetOp /\ get(TRUE)
           \/ "mask" \in GetOp /\ get(FALSE)
           \/ b_get

-----------------------------------------------------------------------------
(* Update phase and time.                                                    *)

\* What the clock edge did to the elements: a put of this edge and a get of
\* this edge are both visible to the user after it.
Offered == IF put_ok.done THEN Append(q, put_ok.data) ELSE q
Committed == IF get_ok.done /\ Offered # <<>> THEN Tail(Offered) ELSE Offered

Settled == runnable = {} /\ nxt = cur /\ edge = "none"

\* Update phase (one delta cycle ends).  The first one after a clock edge or a
\* reset makes the effects of that edge visible.
Update ==
    /\ runnable = {} /\ (nxt # cur \/ edge # "none")
    /\ cur' = nxt
    /\ runnable' = Woken(cur, nxt)
    /\ edge' = "none"
    /\ CASE edge = "none" -> UNCHANGED <<q, op>>
         [] edge # "none" /\ rst ->
                /\ q' = <<>>
                /\ op' = [put |-> Nothing, get |-> Nothing]
         [] OTHER ->
                /\ q' = Committed
                /\ op' = [put |-> put_ok, get |-> get_ok]
    /\ UNCHANGED <<cfg, nxt, rst, put_ok, get_ok, blocked, resets>>

\* Active clock edge: all threads run; the registers a PUT or GET method looks
\* at take new values with the same update.
ClockEdge ==
    /\ Settled
    /\ runnable' = Threads
    /\ edge' = "clock"
    /\ \E po \in IF cfg.cthread_put THEN {"clear"} ELSE PutOps \ {"idle", "b_put"},
          pv \in IF cfg.cthread_put THEN {ZERO} ELSE Data,
          go \in IF cfg.cthread_get THEN {"clear"} ELSE GetOps \ {"idle", "b_get"} :
          nxt' = [nxt EXCEPT !.put_op = po, !.put_val = pv, !.get_op = go]
    /\ UNCHANGED <<cfg, cur, rst, put_ok, get_ok, blocked, q, op, resets>>

\* Asynchronous reset, between clock edges: every thread runs its reset section.
AssertReset ==
    /\ Settled /\ ~rst /\ resets < MaxResets
    /\ rst' = TRUE
    /\ resets' = resets + 1
    /\ edge' = "reset"
    /\ runnable' = Threads
    /\ UNCHANGED <<cfg, cur, nxt, put_ok, get_ok, blocked, q, op>>

\* Reset is released between clock edges; no process is sensitive to that.
ReleaseReset ==
    /\ Settled /\ rst
    /\ rst' = FALSE
    /\ UNCHANGED <<cfg, cur, nxt, runnable, edge, put_ok, get_ok, blocked, q, op,
                   resets>>

Evaluate == asyncProc \/ syncProc \/ PutProc \/ GetProc
Next == Evaluate \/ Update \/ ClockEdge \/ AssertReset \/ ReleaseReset

\* The kernel always runs a runnable process, an update or the next event; the
\* testbench eventually releases reset.
Fairness == WF_vars(Evaluate) /\ WF_vars(Update) /\ WF_vars(ClockEdge)
            /\ SF_vars(ReleaseReset)

Spec == Init /\ [][Next]_vars /\ Fairness

-----------------------------------------------------------------------------
(* Properties.                                                               *)

\* Every signal, present and pending, keeps its type; element_num stays inside
\* ElemNum_t even when asyncProc computes it from a half-settled request pair.
TypeOK ==
    /\ cfg \in Configs
    /\ cur \in Signals /\ nxt \in Signals
    /\ runnable \subseteq {"asyncProc", "syncProc", "put", "get"}
    /\ rst \in BOOLEAN
    /\ edge \in {"none", "clock", "reset"}
    /\ put_ok \in Result /\ get_ok \in Result
    /\ blocked \in [put : BOOLEAN, get : BOOLEAN]
    /\ q \in Seq(Data)
    /\ op \in [put : Result, get : Result]
    /\ resets \in 0 .. MaxResets

\* The sensitivity list of asyncProc is complete: when the delta cycles of a
\* time step are over, its outputs are what it would compute if it ran again.
OutputsSettled ==
    Settled => LET out == CombOutputs(cur) IN \A n \in DOMAIN out : cur[n] = out[n]

\* A process of either kind reads settled results: when time advances, what
\* a PUT (GET) method last returned is what it would return now.
MethodsSettled ==
    Settled =>
        /\ ~cfg.cthread_put =>
              put_ok.done = (cur.put_op = "put" /\ cur.ready_push)
        /\ ~cfg.cthread_get =>
              /\ get_ok.done = (cur.get_op = "get" /\ cur.out_valid)
              /\ get_ok.done => get_ok.data = cur.data_out

\* Can a put of this very clock cycle be got in it, and can a get make room in
\* it?  Only along a combinational path from a method.
PassThrough == ~cfg.cthread_put /\ ~cfg.SYNC_VALID
MakesRoom == ~cfg.cthread_get /\ ~cfg.SYNC_READY

\* ready() tells the truth: at the clock edge it is true exactly when there is
\* room for one more element, counting the requests both sides made earlier.
ReadyIffRoom ==
    Settled /\ ~rst /\ Supported(cfg) =>
        cur.ready_push = (Len(q) < LENGTH \/ (MakesRoom /\ get_ok.done))

\* elem_num(): which of the two counters it reads depends on the process kinds.
elem_num == IF ~cfg.cthread_put /\ ~cfg.cthread_get THEN cur.element_num_d
            ELSE cur.element_num

\* request() and peek() tell the truth: there is an element exactly when one
\* was put and not yet got, and peek() shows the oldest of them; between two
\* threads elem_num() counts them.
RequestIffElement ==
    Settled /\ ~rst /\ Supported(cfg) =>
        LET avail == IF PassThrough THEN Offered ELSE q IN
        /\ cur.out_valid = (avail # <<>>)
        /\ cur.out_valid => cur.data_out = Head(avail)
        /\ cfg.cthread_put /\ cfg.cthread_get => elem_num = Len(q)

\* Delta cycles end: time always reaches another clock edge.
ClockTicks == []<>(edge = "clock")

\* A thread inside b_put() returns, provided the other side keeps getting.
BlockedPutReturns == blocked.put ~> ~blocked.put

\* A thread inside b_get() returns, provided the other side keeps putting.
BlockedGetReturns == blocked.get ~> ~blocked.get

\* The contract of the FIFO interface, for this configuration.
Contract == INSTANCE FifoContract WITH
    promise <- [size |-> LENGTH, passThrough |-> PassThrough, makesRoom |-> MakesRoom]

\* Whatever order processes and delta cycles come in, the simulated FIFO is
\* seen from its users as a bounded queue.
ImplementsContract == Contract!Spec

\* The registers of the synthesized FIFO, read off the simulated one: the
\* requests its threads made at the last edge are already performed.
ThreadPush == cfg.cthread_put /\ Push(cur)
ThreadPop == cfg.cthread_get /\ Pop(cur)
Rtl == INSTANCE SctFifoRtl WITH
    pop_indx <- IF ThreadPop THEN NextIndx(cur.pop_indx) ELSE cur.pop_indx,
    push_indx <- IF ThreadPush THEN NextIndx(cur.push_indx) ELSE cur.push_indx,
    element_num_d <- cur.element_num_d + (IF ThreadPush THEN 1 ELSE 0)
                                       - (IF ThreadPop THEN 1 ELSE 0),
    buffer <- IF ThreadPush THEN [cur.buffer EXCEPT ![cur.push_indx] = cur.data_in]
                            ELSE cur.buffer

\* Simulation and generated hardware agree clock cycle by clock cycle.
ImplementsRtl == Rtl!Spec
=============================================================================
