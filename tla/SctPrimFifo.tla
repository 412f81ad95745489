----------------------------- MODULE SctPrimFifo -----------------------------
(***************************************************************************)
(* sct_prim_fifo: the FIFO of approximate time (TLM) simulation.  It is the *)
(* core of sct_fifo<.., 1> and of a connected sct_initiator / sct_target    *)
(* pair in that mode.  There is no clock: a process runs when put_event or  *)
(* get_event wakes it, updateProc runs one clock period after a request.    *)
(* A notification that is not sent is a process that sleeps for ever.       *)
(*                                                                          *)
(* One AdvanceTime is one clock period.  Events are notified for the next   *)
(* delta cycle (methods, SC_ZERO_TIME) or the next period (threads and      *)
(* updateProc, clk_period).                                                 *)
(***************************************************************************)
EXTENDS Integers, Sequences

CONSTANTS
    Data,           \* the values of type T
    ZERO,           \* T{}
    Configs,        \* the configurations explored
    PutOps,         \* what the PUT process may do when it runs
    GetOps,         \* what the GET process may do when it runs
    MaxResets       \* bound: how often reset is asserted again

\* The attributes fixed at elaboration.  fifoSize is set by the enclosing
\* channel, targ_init and targ_init_sync when that channel is a target; peek is
\* the kind of the process added with addPeekTo().
Config == [cthread_put : BOOLEAN, cthread_get : BOOLEAN,
           sync_valid : BOOLEAN, sync_ready : BOOLEAN, USE_ELEM_NUM : BOOLEAN,
           targ_init : BOOLEAN, targ_init_sync : BOOLEAN, fifoSize : Nat \ {0},
           peek : {"none", "method", "thread"}]

\* sct_fifo<T, LENGTH, TRAITS, 1>: at least two slots.
FifoConfig(LENGTH, cput, cget, valid, ready, elem) ==
    [cthread_put |-> cput, cthread_get |-> cget,
     sync_valid |-> valid, sync_ready |-> ready, USE_ELEM_NUM |-> elem,
     targ_init |-> FALSE, targ_init_sync |-> FALSE,
     fifoSize |-> IF LENGTH > 1 THEN LENGTH ELSE 2, peek |-> "none"]

\* sct_pipe<T, N, TRAITS, 1>: registered in both directions.
PipeConfig(N, cput, cget) == FifoConfig(N + 1, cput, cget, TRUE, TRUE, FALSE)

\* sct_target<T, TRAITS, 1>::before_end_of_elaboration, att is the length of
\* the FIFO added with add_fifo (0 if none).
TargetConfig(cput, cget, sync, att) ==
    [cthread_put |-> cput, cthread_get |-> cget,
     sync_valid |-> sync, sync_ready |-> ~cget, USE_ELEM_NUM |-> FALSE,
     targ_init |-> ~sync, targ_init_sync |-> sync,
     fifoSize |-> (IF cput THEN 2 ELSE 1) + (IF sync THEN 1 ELSE 0) + att,
     peek |-> "none"]

PutOpKinds == {"clear", "put", "mask", "b_put"}
GetOpKinds == {"clear", "get", "get_enable", "mask", "b_get"}

ASSUME DataAssumption == ZERO \in Data
ASSUME ConfigsAssumption == Configs \subseteq Config
ASSUME OpsAssumption == PutOps \subseteq PutOpKinds /\ GetOps \subseteq GetOpKinds
ASSUME MaxResetsAssumption == MaxResets \in Nat

VARIABLES
    cfg,        \* the configuration
    cur, nxt,   \* current and next values of the signals
    core,       \* plain variables of the channel, used by updateProc only
    runnable,   \* processes to run in this evaluation phase
    delta,      \* events notified for the next delta cycle
    timed,      \* events notified for the next clock period
    rst,        \* reset is active
    edge,       \* what started this evaluation phase: "time", "reset", "none"
    put_ok,     \* what put() last returned in this period, and its argument
    get_ok,     \* what get() last returned in this period, and its data
    seen,       \* what request() and peek() returned to the peeking process
    blocked,    \* which of the two threads waits inside b_put() / b_get()
    q,          \* history: elements put and not yet got, oldest first
    op,         \* history: what the last period committed
    resets      \* number of times reset has been asserted again

vars == <<cfg, cur, nxt, core, runnable, delta, timed, rst, edge, put_ok, get_ok,
          seen, blocked, q, op, resets>>

Result == [done : BOOLEAN, data : Data]
Nothing == [done |-> FALSE, data |-> ZERO]
Outcome(does, data) == IF does THEN [done |-> TRUE, data |-> data] ELSE Nothing
Indx == 0 .. cfg.fifoSize - 1
NextIndx(i) == IF i = cfg.fifoSize - 1 THEN 0 ELSE i + 1

\* Is a put (get) requested and not yet performed by updateProc?
PutPending(s) == s.put_req # s.put_req_d
GetPending(s) == s.get_req # s.get_req_d

\* putReady(), outValid(), getData().
PutReadyAlmostFull(s) ==   \* mutant: the put made in this period is not counted
    s.element_num_d # cfg.fifoSize \/ (~cfg.sync_ready /\ GetPending(s))
putReady(s) ==
    LET sync_method == cfg.targ_init_sync /\ ~cfg.cthread_put
        room == \/ /\ s.element_num_d # cfg.fifoSize
                   /\ \/ ~cfg.cthread_put
                      \/ IF cfg.targ_init THEN GetPending(s) ELSE ~PutPending(s)
                      \/ s.element_num_d # cfg.fifoSize - 1
                \/ ~cfg.sync_ready /\ GetPending(s)
    IN IF sync_method /\ cfg.cthread_get /\ GetPending(s) THEN TRUE
       ELSE IF sync_method /\ ~s.put_done /\ s.element_num_d # 0 THEN FALSE
       ELSE room

OutValidTwice(s) ==        \* mutant: the get made in this period is not counted
    s.element_num_d # 0 \/ (~cfg.sync_valid /\ PutPending(s))
outValid(s) ==
    \/ /\ s.element_num_d # 0
       /\ ~cfg.cthread_get \/ ~GetPending(s) \/ s.element_num_d # 1
    \/ ~cfg.sync_valid /\ PutPending(s)

GetDataAgain(s) ==         \* mutant: the get made in this period is not counted
    IF s.element_num_d > 0 THEN s.get_data ELSE s.put_data
getData(s) ==
    IF cfg.cthread_get /\ GetPending(s)
    THEN IF s.element_num_d > 1 THEN s.get_data_next ELSE s.put_data
    ELSE IF s.element_num_d > 0 THEN s.get_data ELSE s.put_data

When(condition, event) == IF condition THEN {event} ELSE {}

\* GET_TIME, PUT_TIME and PEEK_TIME: a thread is woken one period later, a method
\* in the next delta cycle; update_event is always one period later.
Timed == {"update"} \cup When(cfg.cthread_put, "put")
                    \cup When(cfg.cthread_get, "get")
                    \cup When(cfg.peek = "thread", "peek")
Notify(events) == /\ timed' = timed \cup (events \cap Timed)
                  /\ delta' = delta \cup (events \ Timed)

Init ==
    /\ cfg \in Configs
    /\ cur = [put_req |-> FALSE, get_req |-> FALSE, has_reset |-> FALSE,
              put_req_d |-> FALSE, get_req_d |-> FALSE, put_data |-> ZERO,
              element_num_d |-> 0, get_data |-> ZERO, get_data_next |-> ZERO,
              put_done |-> FALSE,
              put_op |-> "clear", put_val |-> ZERO, get_op |-> "clear"]
    /\ nxt = cur
    /\ core = [hasReset |-> FALSE, getIndx |-> 0, putIndx |-> 0, elemNum |-> 0,
               buffer |-> [i \in Indx |-> ZERO]]
    /\ runnable = {"put", "get", "resetProc"} \cup When(cfg.peek # "none", "peek")
    /\ delta = {} /\ timed = {}
    /\ rst = TRUE
    /\ edge = "reset"
    /\ put_ok = Nothing /\ get_ok = Nothing /\ seen = Nothing
    /\ blocked = [put |-> FALSE, get |-> FALSE]
    /\ q = <<>>
    /\ op = [put |-> Nothing, get |-> Nothing]
    /\ resets = 0

-----------------------------------------------------------------------------
(* Evaluation phase.                                                         *)

Cleared(c) == [c EXCEPT !.getIndx = 0, !.putIndx = 0, !.elemNum = 0,
                        !.buffer = [c.buffer EXCEPT ![0] = ZERO]]

\* The buffer after the requests of the last period are performed.
Performed(c, s) ==
    LET doPut == PutPending(s)
        doGet == GetPending(s)
    IN [c EXCEPT
          !.buffer = IF doPut THEN [c.buffer EXCEPT ![c.putIndx] = s.put_data]
                              ELSE c.buffer,
          !.putIndx = IF doPut THEN NextIndx(c.putIndx) ELSE c.putIndx,
          !.getIndx = IF doGet THEN NextIndx(c.getIndx) ELSE c.getIndx,
          !.elemNum = c.elemNum + (IF doPut THEN 1 ELSE 0)
                                - (IF doGet THEN 1 ELSE 0)]

\* updateProc: performs a reset or the pending requests, wakes the processes
\* and shows the result in the signals.
updateProc ==
    LET doPut == PutPending(cur)
        doGet == GetPending(cur)
        reset == cur.has_reset # core.hasReset
        c == IF reset THEN Cleared(core) ELSE Performed(core, cur)
        moved == ~reset /\ (doPut \/ doGet)
    IN
    /\ "update" \in runnable
    /\ runnable' = runnable \ {"update"}
    /\ core' = [c EXCEPT !.hasReset = cur.has_reset]
    /\ Notify(When(moved /\ (~cfg.cthread_put \/ (doGet /\ cfg.sync_ready)), "put")
         \cup When(moved /\ (~cfg.cthread_get \/ (doPut /\ cfg.sync_valid)), "get")
         \cup When(moved /\ \/ cfg.peek = "method"
                            \/ cfg.peek = "thread" /\ doPut /\ cfg.sync_valid, "peek")
         \cup When(cfg.targ_init_sync /\ ~cfg.cthread_put /\ (doPut \/ doGet), "update"))
    /\ nxt' = [nxt EXCEPT
                 !.put_done = IF cfg.targ_init_sync THEN doPut \/ doGet ELSE nxt.put_done,
                 !.element_num_d = c.elemNum,
                 !.get_data = c.buffer[c.getIndx],
                 !.get_data_next = c.buffer[NextIndx(c.getIndx)],
                 !.put_req_d = cur.put_req,
                 !.get_req_d = cur.get_req]
    /\ UNCHANGED <<cfg, cur, rst, edge, put_ok, get_ok, seen, blocked, q, op, resets>>

\* resetProc of the enclosing channel: reset_core(reset).
reset_core ==
    /\ "resetProc" \in runnable
    /\ runnable' = runnable \ {"resetProc"}
    /\ IF rst THEN /\ nxt' = [nxt EXCEPT !.has_reset = ~cur.has_reset]
                   /\ Notify({"update"})
              ELSE /\ Notify({"put", "get"} \cup When(cfg.peek # "none", "peek"))
                   /\ UNCHANGED nxt
    /\ UNCHANGED <<cfg, cur, core, rst, edge, put_ok, get_ok, seen, blocked, q, op, resets>>

PutRuns == "put" \in runnable /\ runnable' = runnable \ {"put"}
GetRuns == "get" \in runnable /\ runnable' = runnable \ {"get"}
PutFrame == UNCHANGED <<cfg, cur, core, rst, edge, get_ok, seen, q, op, resets>>
GetFrame == UNCHANGED <<cfg, cur, core, rst, edge, put_ok, seen, q, op, resets>>

\* A thread acts on its request register, a method on the registered copy: a
\* method's request ends with the period unless the method repeats it.
NewPutReq(does) == IF cfg.cthread_put
                   THEN IF does THEN ~cur.put_req ELSE cur.put_req
                   ELSE IF does THEN ~cur.put_req_d ELSE cur.put_req_d
NewGetReq(does) == IF cfg.cthread_get
                   THEN IF does THEN ~cur.get_req ELSE cur.get_req
                   ELSE IF does THEN ~cur.get_req_d ELSE cur.get_req_d

\* A method begins with reset_put() / clear_put(): it withdraws the request it
\* made in this period, and tells a GET method that saw it.
ClearPutNotifies ==
    IF ~cfg.cthread_put /\ ~cfg.sync_valid /\ PutPending(cur)
    THEN When(~cfg.cthread_get, "get") \cup When(cfg.peek = "method", "peek")
    ELSE {}
ClearGetNotifies == When(/\ ~cfg.cthread_get /\ ~cfg.cthread_put
                         /\ ~cfg.sync_ready /\ GetPending(cur), "put")

\* Who a successful put() notifies: GET and the peeking process when the element
\* is the only one to get, and the putting thread itself to let it put again.
PutNotifiesEmptyOnly == {"update"}      \* mutant: a pending get is not considered
    \cup When(~cfg.sync_valid /\ (cfg.USE_ELEM_NUM \/ cur.element_num_d = 0), "get")
    \cup When(cfg.cthread_put, "put")
PutNotifiesUpdateOnly == {"update"}     \* mutant: left to updateProc
    \cup When(cfg.cthread_put, "put")
PutNotifies == {"update"}
    \cup (IF /\ ~cfg.sync_valid
             /\ \/ cfg.USE_ELEM_NUM
                \/ cur.element_num_d = 0
                \/ cfg.cthread_put /\ GetPending(cur) /\ cur.element_num_d = 1
          THEN {"get"} \cup When(cfg.peek # "none", "peek") ELSE {})
    \cup When(cfg.cthread_put, "put")

\* Who get(data, enable) notifies ...
GetNoUpdate ==                          \* mutant: updateProc is not notified
    When(~cfg.sync_ready, "put") \cup When(cfg.cthread_get, "get")
GetNotifiesFullOnly == {"update"}       \* mutant: a pending put is not considered
    \cup When(/\ ~cfg.sync_ready
              /\ cfg.USE_ELEM_NUM \/ cur.element_num_d = cfg.fifoSize, "put")
    \cup When(cfg.cthread_get, "get")
GetNotifiesUpdateOnly == {"update"}     \* mutant: left to updateProc
    \cup When(cfg.cthread_get, "get")
GetEnableNotifies == {"update"}
    \cup When(/\ ~cfg.sync_ready
              /\ \/ cfg.USE_ELEM_NUM
                 \/ cur.element_num_d = cfg.fifoSize
                 \/ /\ cfg.cthread_get /\ PutPending(cur)
                    /\ cur.element_num_d = cfg.fifoSize - 1, "put")
    \cup When(cfg.cthread_get, "get") \cup When(cfg.peek = "thread", "peek")

\* ... and get(), which adds the two target/initiator cases.
GetNotifies == GetEnableNotifies
    \cup When(/\ ~cfg.sync_ready
              /\ \/ /\ cfg.targ_init /\ cfg.cthread_put
                    /\ cur.element_num_d = cfg.fifoSize - 1
                 \/ cfg.targ_init_sync /\ ~cfg.cthread_put /\ cfg.cthread_get, "put")

\* The reset section of a PUT thread: reset_put() leaves the signals alone.
reset_put ==
    /\ PutRuns /\ cfg.cthread_put /\ rst
    /\ put_ok' = Nothing
    /\ blocked' = [blocked EXCEPT !.put = FALSE]
    /\ UNCHANGED <<nxt, delta, timed>>
    /\ PutFrame

\* clear_put(), by a thread or by a method that does not put.
clear_put ==
    /\ PutRuns
    /\ IF cfg.cthread_put THEN ~rst /\ ~blocked.put /\ "clear" \in PutOps
                          ELSE cur.put_op = "clear"
    /\ nxt' = [nxt EXCEPT !.put_req = NewPutReq(FALSE), !.put_data = ZERO]
    /\ Notify(ClearPutNotifies)
    /\ put_ok' = Nothing
    /\ UNCHANGED blocked
    /\ PutFrame

\* put(data) and put(data, mask); put_data keeps its value if it fails, but a
\* method has cleared it first.
put(data, mask) ==
    /\ PutRuns
    /\ IF cfg.cthread_put THEN ~rst /\ ~blocked.put ELSE data = cur.put_val
    /\ LET does == putReady(cur) /\ mask IN
       /\ nxt' = [nxt EXCEPT !.put_req = NewPutReq(does),
                             !.put_data = IF does THEN data
                                          ELSE IF cfg.cthread_put THEN nxt.put_data
                                          ELSE ZERO]
       /\ Notify(ClearPutNotifies \cup IF does THEN PutNotifies ELSE {})
       /\ put_ok' = Outcome(does, data)
    /\ UNCHANGED blocked
    /\ PutFrame

\* b_put(data) of the enclosing channel: while (!ready()) wait(); put(data).
b_put(data) ==
    /\ PutRuns /\ cfg.cthread_put /\ ~rst
    /\ blocked.put \/ "b_put" \in PutOps
    /\ blocked' = [blocked EXCEPT !.put = ~putReady(cur)]
    /\ IF putReady(cur)
       THEN /\ nxt' = [nxt EXCEPT !.put_req = NewPutReq(TRUE), !.put_data = data]
            /\ Notify(PutNotifies)
            /\ put_ok' = Outcome(TRUE, data)
       ELSE /\ put_ok' = Nothing
            /\ UNCHANGED <<nxt, delta, timed>>
    /\ PutFrame

reset_get ==
    /\ GetRuns /\ cfg.cthread_get /\ rst
    /\ get_ok' = Nothing
    /\ blocked' = [blocked EXCEPT !.get = FALSE]
    /\ UNCHANGED <<nxt, delta, timed>>
    /\ GetFrame

clear_get ==
    /\ GetRuns
    /\ IF cfg.cthread_get THEN ~rst /\ ~blocked.get /\ "clear" \in GetOps
                          ELSE cur.get_op = "clear"
    /\ nxt' = [nxt EXCEPT !.get_req = NewGetReq(FALSE)]
    /\ Notify(ClearGetNotifies)
    /\ get_ok' = Nothing
    /\ UNCHANGED blocked
    /\ GetFrame

\* get() (notifies = GetNotifies) and get(data, enable).
get(enable, notifies) ==
    /\ GetRuns
    /\ cfg.cthread_get => ~rst /\ ~blocked.get
    /\ LET does == outValid(cur) /\ enable IN
       /\ nxt' = [nxt EXCEPT !.get_req = NewGetReq(does)]
       /\ Notify(ClearGetNotifies \cup IF does THEN notifies ELSE {})
       /\ get_ok' = Outcome(does, getData(cur))
    /\ UNCHANGED blocked
    /\ GetFrame

\* b_get() of the enclosing channel: while (!request()) wait(); return get().
b_get ==
    /\ GetRuns /\ cfg.cthread_get /\ ~rst
    /\ blocked.get \/ "b_get" \in GetOps
    /\ blocked' = [blocked EXCEPT !.get = ~outValid(cur)]
    /\ IF outValid(cur)
       THEN /\ nxt' = [nxt EXCEPT !.get_req = NewGetReq(TRUE)]
            /\ Notify(GetNotifies)
            /\ get_ok' = Outcome(TRUE, getData(cur))
       ELSE /\ get_ok' = Nothing
            /\ UNCHANGED <<nxt, delta, timed>>
    /\ GetFrame

\* A process added with addPeekTo() looks at the channel: request() and peek().
peek ==
    /\ "peek" \in runnable
    /\ runnable' = runnable \ {"peek"}
    /\ seen' = Outcome(outValid(cur), getData(cur))
    /\ UNCHANGED <<cfg, cur, nxt, core, delta, timed, rst, edge, put_ok, get_ok,
                   blocked, q, op, resets>>

PutOp == IF cfg.cthread_put THEN PutOps ELSE {cur.put_op}
GetOp == IF cfg.cthread_get THEN GetOps ELSE {cur.get_op}

PutProc == \/ reset_put \/ clear_put
           \/ \E d \in Data : \/ "put" \in PutOp /\ put(d, TRUE)
                              \/ "mask" \in PutOp /\ put(d, FALSE)
                              \/ b_put(d)
GetProc == \/ reset_get \/ clear_get
           \/ "get" \in GetOp /\ get(TRUE, GetNotifies)
           \/ "get_enable" \in GetOp /\ get(TRUE, GetEnableNotifies)
           \/ "mask" \in GetOp /\ get(FALSE, GetEnableNotifies)
           \/ b_get

-----------------------------------------------------------------------------
(* Update phase and time.                                                    *)

Offered == IF put_ok.done THEN Append(q, put_ok.data) ELSE q
Committed == IF get_ok.done /\ Offered # <<>> THEN Tail(Offered) ELSE Offered

Settled == runnable = {} /\ nxt = cur /\ delta = {} /\ edge = "none"

\* The methods woken by a change of the registers they look at.
Stimulated == When(~cfg.cthread_put /\ <<nxt.put_op, nxt.put_val>>
                                         # <<cur.put_op, cur.put_val>>, "put")
         \cup When(~cfg.cthread_get /\ nxt.get_op # cur.get_op, "get")

Update ==
    /\ runnable = {} /\ (nxt # cur \/ delta # {} \/ edge # "none")
    /\ cur' = nxt
    /\ runnable' = delta \cup Stimulated
    /\ delta' = {}
    /\ edge' = "none"
    /\ CASE edge = "none" -> UNCHANGED <<q, op, put_ok, get_ok>>
         [] edge # "none" /\ rst ->
                /\ q' = <<>>
                /\ op' = [put |-> Nothing, get |-> Nothing]
                /\ put_ok' = Nothing /\ get_ok' = Nothing
         [] edge = "time" /\ ~rst ->
                /\ q' = Committed
                /\ op' = [put |-> put_ok, get |-> get_ok]
                /\ put_ok' = Nothing /\ get_ok' = Nothing
         [] OTHER -> UNCHANGED <<q, op, put_ok, get_ok>>
    /\ UNCHANGED <<cfg, nxt, core, timed, rst, seen, blocked, resets>>

\* One clock period later.  A thread that is not inside a blocking call may
\* also be woken by whatever else it is sensitive to; the registers of the
\* user's design that methods look at change unless they are in reset.
AdvanceTime ==
    /\ Settled
    /\ \E others \in SUBSET (When(cfg.cthread_put /\ ~blocked.put, "put")
                        \cup When(cfg.cthread_get /\ ~blocked.get, "get")) :
          runnable' = timed \cup others
    /\ timed' = {}
    /\ edge' = "time"
    /\ \E po \in IF cfg.cthread_put \/ rst THEN {"clear"} ELSE PutOps \ {"b_put"} :
       \E pv \in IF po = "put" THEN Data ELSE {ZERO},
          go \in IF cfg.cthread_get \/ rst THEN {"clear"} ELSE GetOps \ {"b_get"} :
          nxt' = [nxt EXCEPT !.put_op = po, !.put_val = pv, !.get_op = go]
    /\ UNCHANGED <<cfg, cur, core, delta, rst, put_ok, get_ok, seen, blocked, q, op,
                   resets>>

\* Reset is asserted: threads restart, registers of the user's design reset.
AssertReset ==
    /\ Settled /\ ~rst /\ resets < MaxResets
    /\ rst' = TRUE
    /\ resets' = resets + 1
    /\ edge' = "reset"
    /\ runnable' = {"resetProc"} \cup (Timed \ {"update"})
    /\ nxt' = [nxt EXCEPT !.put_op = "clear", !.put_val = ZERO, !.get_op = "clear"]
    /\ UNCHANGED <<cfg, cur, core, delta, timed, put_ok, get_ok, seen, blocked, q,
                   op>>

\* Reset is released, not earlier than one clock period after it was asserted.
ReleaseReset ==
    /\ Settled /\ rst /\ cur.has_reset = core.hasReset
    /\ rst' = FALSE
    /\ edge' = "reset"
    /\ runnable' = {"resetProc"}
    /\ UNCHANGED <<cfg, cur, nxt, core, delta, timed, put_ok, get_ok, seen, blocked, q,
                   op, resets>>

Evaluate == updateProc \/ reset_core \/ PutProc \/ GetProc \/ peek
Next == Evaluate \/ Update \/ AdvanceTime \/ AssertReset \/ ReleaseReset

Fairness == WF_vars(Evaluate) /\ WF_vars(Update) /\ WF_vars(AdvanceTime)
            /\ SF_vars(ReleaseReset)

Spec == Init /\ [][Next]_vars /\ Fairness

-----------------------------------------------------------------------------
(* Properties.                                                               *)

\* The counters and indices of the channel stay inside its buffer, and events
\* are notified with the delay of the process kind they wake.
TypeOK ==
    /\ cfg \in Configs
    /\ \A s \in {cur, nxt} :
          /\ s.element_num_d \in 0 .. cfg.fifoSize
          /\ {s.put_data, s.get_data, s.get_data_next, s.put_val} \subseteq Data
          /\ {s.put_req, s.get_req, s.put_req_d, s.get_req_d, s.has_reset,
              s.put_done} \subseteq BOOLEAN
          /\ s.put_op \in PutOpKinds /\ s.get_op \in GetOpKinds
    /\ core.getIndx \in Indx /\ core.putIndx \in Indx
    /\ core.elemNum \in 0 .. cfg.fifoSize
    /\ core.buffer \in [Indx -> Data]
    /\ runnable \subseteq {"put", "get", "peek", "update", "resetProc"}
    /\ timed \subseteq Timed /\ delta \cap Timed = {}
    /\ put_ok \in Result /\ get_ok \in Result /\ seen \in Result

\* The assertions of updateProc never fail: no put into a full buffer without a
\* get at the same time, no get from an empty one.
AssertionsHold ==
    "update" \in runnable /\ cur.has_reset = core.hasReset =>
        /\ PutPending(cur) => core.elemNum < cfg.fifoSize \/ GetPending(cur)
        /\ GetPending(cur) => core.elemNum > 0 \/ PutPending(cur)

\* A request is never forgotten: whenever one is pending an update is on its way.
RequestsPerformed ==
    Settled /\ (PutPending(cur) \/ GetPending(cur)) => "update" \in timed

PassThrough == ~cfg.cthread_put /\ ~cfg.sync_valid
MakesRoom == /\ ~cfg.cthread_get
             /\ ~cfg.sync_ready \/ (cfg.targ_init /\ cfg.cthread_put)

Contract == INSTANCE FifoContract WITH
    promise <- [size |-> cfg.fifoSize,
                passThrough |-> PassThrough, makesRoom |-> MakesRoom]

\* The TLM FIFO, too, is a bounded queue for its users.
ImplementsContract == Contract!Spec

\* A method that wants to put (get) has done so by the end of the period if it
\* can: it was woken after every change that matters to it.
MethodsWoken ==
    Settled /\ ~rst =>
        /\ ~cfg.cthread_put => put_ok.done = (cur.put_op = "put" /\ putReady(cur))
        /\ ~cfg.cthread_get =>
              /\ get_ok.done = (cur.get_op \in {"get", "get_enable"} /\ outValid(cur))
              /\ get_ok.done => get_ok.data = getData(cur)

\* No lost wake-up: a thread that waits in b_put() although it could go on has
\* been notified, or is an initiator with a registered ready path, which the
\* updateProc on its way notifies.
PutWoken == Settled /\ blocked.put /\ putReady(cur) =>
                "put" \in timed
                \/ (cfg.targ_init /\ cfg.sync_ready /\ GetPending(cur))

\* The same for a thread that waits in b_get(); whatever makes an element show, a
\* put() or the updateProc that counts it, has notified this thread.
GetWoken == Settled /\ blocked.get /\ outValid(cur) => "get" \in timed

\* No stale peek: a process added with addPeekTo() that has not seen the oldest
\* element as it is now has been notified, or is a method and will be by the
\* updateProc that performs the get of a thread.  Not so a thread beside a GET
\* method: get() wakes it for the instant at which updateProc removes the element,
\* where it sees it once more.
PeekWoken ==
    /\ Settled /\ ~rst /\ cfg.peek # "none"
    /\ cfg.peek = "thread" => cfg.cthread_get
    => \/ seen = Outcome(outValid(cur), getData(cur))
       \/ "peek" \in timed
       \/ cfg.peek = "method" /\ cfg.cthread_get /\ GetPending(cur)

\* elem_num() in a thread.
elem_num == cur.element_num_d + (IF PutPending(cur) THEN 1 ELSE 0)
                              - (IF GetPending(cur) THEN 1 ELSE 0)

\* request() and peek() tell the truth (a put of a thread through a registered
\* valid path shows one period later); between two threads elem_num() is the
\* number of elements put and not yet got.
RequestIffElement ==
    Settled /\ ~rst =>
        /\ cur.has_reset = core.hasReset /\ ~(cfg.cthread_put /\ cfg.sync_valid) =>
              LET avail == IF PassThrough THEN Offered ELSE q IN
              /\ outValid(cur) = (avail # <<>>)
              /\ outValid(cur) => getData(cur) = Head(avail)
        /\ cfg.cthread_put /\ cfg.cthread_get => elem_num = Len(q)

\* A thread in b_put() returns, provided the other side goes on getting: some
\* notification always reaches it.
BlockedPutReturns == blocked.put ~> ~blocked.put

\* A thread in b_get() returns, provided the other side goes on putting.
BlockedGetReturns == blocked.get ~> ~blocked.get
=============================================================================
