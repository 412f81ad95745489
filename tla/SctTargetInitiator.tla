-------------------------- MODULE SctTargetInitiator --------------------------
(***************************************************************************)
(* sct_initiator<T, TRAITS, 0> bound to sct_target<T, TRAITS, 0>: the       *)
(* processes of both modules, the calls of the PUT process on one and of    *)
(* the GET process on the other, and the SystemC kernel that schedules      *)
(* them (see SctFifo).  Request and data go one way, ready the other; the   *)
(* request toggles of both sides and up to two data registers must agree on *)
(* which element is where.                                                  *)
(***************************************************************************)
EXTENDS Integers, Sequences

CONSTANTS
    Data,           \* the values of type T
    ZERO,           \* T{}
    Configs,        \* the configurations explored
    PutOps,         \* what the PUT process may do when it runs
    GetOps,         \* what the GET process may do when it runs
    MaxResets       \* bound: how often reset is asserted again

\* Process kinds (addTo on each side), always_ready of the target, and whether
\* one of the two was constructed with a sync register.
Config == [cthread_put : BOOLEAN, cthread_get : BOOLEAN,
           sync : BOOLEAN, always_ready : BOOLEAN]

PutOpKinds == {"clear", "put", "mask", "b_put"}
GetOpKinds == {"clear", "get", "mask", "b_get"}

ASSUME DataAssumption == ZERO \in Data
ASSUME ConfigsAssumption == Configs \subseteq Config
ASSUME OpsAssumption == PutOps \subseteq PutOpKinds /\ GetOps \subseteq GetOpKinds
ASSUME MaxResetsAssumption == MaxResets \in Nat

VARIABLES
    cfg,        \* the configuration
    cur, nxt,   \* current and next values of the signals
    runnable,   \* processes to run in this evaluation phase
    rst,        \* reset is active
    edge,       \* what started this evaluation phase: "clock", "reset", "none"
    put_ok,     \* what put() last returned to its caller, and the value passed
    get_ok,     \* what get() last returned to its caller, and the value given
    blocked,    \* which of the two processes waits inside b_put() / b_get()
    q,          \* history: elements put and not yet got, oldest first
    op,         \* history: what the last clock edge committed
    resets      \* number of times reset has been asserted again

vars == <<cfg, cur, nxt, runnable, rst, edge, put_ok, get_ok, blocked, q, op, resets>>

Result == [done : BOOLEAN, data : Data]
Nothing == [done |-> FALSE, data |-> ZERO]
Outcome(does, data) == IF does THEN [done |-> TRUE, data |-> data] ELSE Nothing

\* core_req_d exists on both sides: init_req_d and targ_req_d.
Signals == [put_req : BOOLEAN, put_req_d : BOOLEAN, init_req_d : BOOLEAN,
            sync_req : BOOLEAN, sync_req_d : BOOLEAN, sync_data : Data,
            core_req : BOOLEAN, core_data : Data, core_ready : BOOLEAN,
            get_req : BOOLEAN, get_req_d : BOOLEAN, targ_req_d : BOOLEAN,
            core_data_d : Data, core_data_out : Data,
            put_op : PutOpKinds, put_val : Data, get_op : GetOpKinds]

\* do_bind: chan_sync ends up in the initiator, or in an always ready target.
InitSync == cfg.sync /\ ~cfg.always_ready
TargSync == cfg.sync /\ cfg.always_ready

\* Does the initiator keep a request until the target is ready?
Holds == InitSync \/ cfg.cthread_put

\* req_control, ready_control, core_ready_meth, core_data_mux: the outputs as
\* functions of the signals.
NewPut(s) == IF Holds THEN s.put_req # s.put_req_d ELSE s.put_req
CoreReq(s) == NewPut(s) \/ (~cfg.always_ready /\ Holds /\ s.init_req_d)

Taken(s) == IF cfg.cthread_get THEN s.get_req # s.get_req_d ELSE s.get_req_d
CoreReadyLate(s) == cfg.always_ready \/ ~s.targ_req_d       \* mutant
CoreReady(s) == cfg.always_ready \/ Taken(s) \/ ~s.targ_req_d

CoreDataOut(s) == IF (IF cfg.always_ready THEN ~TargSync ELSE s.core_ready)
                  THEN s.core_data ELSE s.core_data_d

RequestFresh(s) ==                          \* mutant: register not considered
    IF TargSync THEN s.targ_req_d ELSE s.core_req

\* ready() and request().
Ready(s) == cfg.always_ready \/ s.core_ready
Request(s) == IF cfg.always_ready
              THEN IF TargSync THEN s.targ_req_d ELSE s.core_req
              ELSE ~s.core_ready \/ s.core_req

\* The processes, and the signals those that are not clocked are sensitive to.
Clocked == {"targ_core_thread"}
           \cup (IF InitSync THEN {"sync_thread"} ELSE {})
           \cup (IF Holds THEN {"init_core_thread"} ELSE {})
           \cup (IF cfg.cthread_put THEN {"put"} ELSE {})
           \cup (IF cfg.cthread_get THEN {"get"} ELSE {})
GetSensitiveNoReg == {"core_req", "core_ready", "get_op"}       \* mutant
GetSensitive == {"core_req", "targ_req_d", "core_ready", "core_data_out", "get_op"}
Sensitive == [req_control |-> {"put_req", "put_req_d", "init_req_d"},
              ready_control |-> IF cfg.always_ready THEN {}
                                ELSE {"get_req", "get_req_d", "targ_req_d"},
              core_data_mux |-> {"core_ready", "core_data", "core_data_d"},
              put |-> IF cfg.cthread_put THEN {} ELSE {"core_ready", "put_op", "put_val"},
              get |-> IF cfg.cthread_get THEN {} ELSE GetSensitive]
Woken(s, t) == {p \in DOMAIN Sensitive : \E n \in Sensitive[p] : s[n] # t[n]}

Init ==
    /\ cfg \in Configs
    /\ cur = [put_req |-> FALSE, put_req_d |-> FALSE, init_req_d |-> FALSE,
              sync_req |-> FALSE, sync_req_d |-> FALSE, sync_data |-> ZERO,
              core_req |-> FALSE, core_data |-> ZERO, core_ready |-> FALSE,
              get_req |-> FALSE, get_req_d |-> FALSE, targ_req_d |-> FALSE,
              core_data_d |-> ZERO, core_data_out |-> ZERO,
              put_op |-> "clear", put_val |-> ZERO, get_op |-> "clear"]
    /\ nxt = cur
    /\ runnable = Clocked \cup DOMAIN Sensitive
    /\ rst = TRUE
    /\ edge = "reset"
    /\ put_ok = Nothing /\ get_ok = Nothing
    /\ blocked = [put |-> FALSE, get |-> FALSE]
    /\ q = <<>>
    /\ op = [put |-> Nothing, get |-> Nothing]
    /\ resets = 0

-----------------------------------------------------------------------------
(* Evaluation phase: the processes of the two modules.                       *)

Runs(p) == p \in runnable /\ runnable' = runnable \ {p}
ModuleFrame == UNCHANGED <<cfg, cur, rst, edge, put_ok, get_ok, blocked, q, op, resets>>

req_control == /\ Runs("req_control")
               /\ nxt' = [nxt EXCEPT !.core_req = CoreReq(cur)]
               /\ ModuleFrame

\* With always_ready this is core_ready_meth, which runs once.
ready_control == /\ Runs("ready_control")
                 /\ nxt' = [nxt EXCEPT !.core_ready = CoreReady(cur)]
                 /\ ModuleFrame

core_data_mux == /\ Runs("core_data_mux")
                 /\ nxt' = [nxt EXCEPT !.core_data_out = CoreDataOut(cur)]
                 /\ ModuleFrame

\* The initiator's sync register moves on when the target is ready.
SyncStepAnyway(s, n) ==                     \* mutant: core_ready not tested
    IF IF cfg.cthread_put THEN s.sync_req # s.sync_req_d ELSE s.sync_req
    THEN [n EXCEPT !.put_req = ~s.put_req, !.core_data = s.sync_data,
                   !.sync_req_d = IF cfg.cthread_put THEN s.sync_req ELSE n.sync_req_d]
    ELSE n
SyncStep(s, n) ==
    LET new == IF cfg.cthread_put THEN s.sync_req # s.sync_req_d ELSE s.sync_req
    IN IF new /\ s.core_ready
       THEN [n EXCEPT !.put_req = ~s.put_req, !.core_data = s.sync_data,
                      !.sync_req_d = IF cfg.cthread_put THEN s.sync_req ELSE n.sync_req_d]
       ELSE n
sync_thread ==
    /\ Runs("sync_thread")
    /\ nxt' = IF rst
              THEN [nxt EXCEPT !.put_req = FALSE, !.core_data = ZERO,
                               !.sync_req_d = IF cfg.cthread_put THEN FALSE
                                              ELSE nxt.sync_req_d]
              ELSE SyncStep(cur, nxt)
    /\ ModuleFrame

\* The initiator's core_thread.
init_core_thread ==
    /\ Runs("init_core_thread")
    /\ nxt' = [nxt EXCEPT
                 !.put_req_d = ~rst /\ cur.put_req,
                 !.init_req_d = IF cfg.always_ready THEN nxt.init_req_d
                                ELSE ~rst /\ ~cur.core_ready /\ cur.core_req]
    /\ ModuleFrame

\* The target's core_thread, or always_ready_thread.
targ_core_thread ==
    /\ Runs("targ_core_thread")
    /\ nxt' =
         IF cfg.always_ready
         THEN IF ~TargSync THEN nxt
              ELSE [nxt EXCEPT !.targ_req_d = ~rst /\ cur.core_req,
                               !.core_data_d = IF rst THEN ZERO ELSE cur.core_data]
         ELSE [nxt EXCEPT !.get_req_d = ~rst /\ cur.get_req,
                          !.targ_req_d = ~rst /\ (~cur.core_ready \/ cur.core_req),
                          !.core_data_d = IF rst THEN ZERO
                                          ELSE IF cur.core_req /\ cur.core_ready
                                          THEN cur.core_data ELSE nxt.core_data_d]
    /\ ModuleFrame

-----------------------------------------------------------------------------
(* Evaluation phase: the PUT process calls the initiator.                    *)

PutFrame == UNCHANGED <<cfg, cur, rst, edge, get_ok, q, op, resets>>
GetFrame == UNCHANGED <<cfg, cur, rst, edge, put_ok, q, op, resets>>

\* A put goes to the sync register if there is one.
PutReg == IF InitSync THEN cur.sync_req ELSE cur.put_req
Sent(req, data) == IF InitSync
                   THEN [nxt EXCEPT !.sync_req = req, !.sync_data = data]
                   ELSE [nxt EXCEPT !.put_req = req, !.core_data = data]

reset_put ==
    /\ Runs("put") /\ cfg.cthread_put /\ rst
    /\ nxt' = Sent(FALSE, ZERO)
    /\ put_ok' = Nothing
    /\ blocked' = [blocked EXCEPT !.put = FALSE]
    /\ PutFrame

\* clear_put(): a thread must not touch the data it may still be offering.
clear_put ==
    /\ Runs("put")
    /\ IF cfg.cthread_put THEN ~rst /\ ~blocked.put /\ "clear" \in PutOps
                          ELSE cur.put_op = "clear"
    /\ nxt' = IF ~cfg.cthread_put THEN Sent(FALSE, ZERO)
              ELSE IF cfg.always_ready THEN [nxt EXCEPT !.core_data = ZERO]
              ELSE nxt
    /\ put_ok' = Nothing
    /\ UNCHANGED blocked
    /\ PutFrame

\* put(data) and put(data, mask).
put(data, mask) ==
    /\ Runs("put")
    /\ IF cfg.cthread_put THEN ~rst /\ ~blocked.put ELSE data = cur.put_val
    /\ nxt' = CASE cfg.cthread_put /\ Ready(cur) ->
                       Sent(IF mask THEN ~PutReg ELSE PutReg, data)
                [] cfg.cthread_put /\ ~Ready(cur) -> nxt
                [] ~cfg.cthread_put /\ Ready(cur) -> Sent(mask, data)
                [] OTHER -> Sent(FALSE, ZERO)
    /\ put_ok' = Outcome(Ready(cur) /\ mask, data)
    /\ UNCHANGED blocked
    /\ PutFrame

\* b_put(data) is refused when the target is always ready.
b_put(data) ==
    /\ Runs("put") /\ cfg.cthread_put /\ ~rst /\ ~cfg.always_ready
    /\ blocked.put \/ "b_put" \in PutOps
    /\ nxt' = IF cur.core_ready THEN Sent(~PutReg, data) ELSE nxt
    /\ put_ok' = Outcome(cur.core_ready, data)
    /\ blocked' = [blocked EXCEPT !.put = ~cur.core_ready]
    /\ PutFrame

-----------------------------------------------------------------------------
(* Evaluation phase: the GET process calls the target.                       *)

\* The value written to get_req by a call that does (or does not) get.
GetReq(does) == IF cfg.cthread_get THEN (IF does THEN ~cur.get_req ELSE cur.get_req)
                                   ELSE does

reset_get ==
    /\ Runs("get") /\ cfg.cthread_get /\ rst
    /\ nxt' = [nxt EXCEPT !.get_req = FALSE]
    /\ get_ok' = Nothing
    /\ blocked' = [blocked EXCEPT !.get = FALSE]
    /\ GetFrame

\* An always ready target promises to get whenever there is a request.
clear_get ==
    /\ Runs("get")
    /\ IF cfg.cthread_get
       THEN ~rst /\ ~blocked.get /\ ~cfg.always_ready /\ "clear" \in GetOps
       ELSE cur.get_op = "clear"
    /\ nxt' = [nxt EXCEPT !.get_req = GetReq(FALSE)]
    /\ get_ok' = Nothing
    /\ UNCHANGED blocked
    /\ GetFrame

\* get() and get(data, enable).
get(enable) ==
    /\ Runs("get")
    /\ cfg.cthread_get => ~rst /\ ~blocked.get
    /\ nxt' = [nxt EXCEPT !.get_req = GetReq(Request(cur) /\ enable)]
    /\ get_ok' = Outcome(Request(cur) /\ enable, cur.core_data_out)
    /\ UNCHANGED blocked
    /\ GetFrame

b_get ==
    /\ Runs("get") /\ cfg.cthread_get /\ ~rst
    /\ blocked.get \/ "b_get" \in GetOps
    /\ nxt' = [nxt EXCEPT !.get_req = GetReq(Request(cur))]
    /\ get_ok' = Outcome(Request(cur), cur.core_data_out)
    /\ blocked' = [blocked EXCEPT !.get = ~Request(cur)]
    /\ GetFrame

PutOp == IF cfg.cthread_put THEN PutOps ELSE {cur.put_op}
GetOp == IF ~cfg.cthread_get THEN {cur.get_op}
         ELSE IF cfg.always_ready THEN GetOps \ {"clear", "mask"} ELSE GetOps

ModuleProc == \/ req_control \/ ready_control \/ core_data_mux
              \/ sync_thread \/ init_core_thread \/ targ_core_thread
PutProc == \/ reset_put \/ clear_put
           \/ \E d \in Data : \/ "put" \in PutOp /\ put(d, TRUE)
                              \/ "mask" \in PutOp /\ put(d, FALSE)
                              \/ b_put(d)
GetProc == \/ reset_get \/ clear_get
           \/ "get" \in GetOp /\ get(TRUE)
           \/ "mask" \in GetOp /\ get(FALSE)
           \/ b_get

-----------------------------------------------------------------------------
(* Update phase and time.                                                    *)

Offered == IF put_ok.done THEN Append(q, put_ok.data) ELSE q
Committed == IF get_ok.done /\ Offered # <<>> THEN Tail(Offered) ELSE Offered

Settled == runnable = {} /\ nxt = cur /\ edge = "none"

Update ==
    /\ runnable = {} /\ (nxt # cur \/ edge # "none")
    /\ cur' = nxt
    /\ runnable' = Woken(cur, nxt)
    /\ edge' = "none"
    /\ CASE edge = "none" -> UNCHANGED <<q, op>>
         [] edge # "none" /\ rst ->
                /\ q' = <<>>
                /\ op' = [put |-> Nothing, get |-> Nothing]
         [] OTHER ->
                /\ q' = Committed
                /\ op' = [put |-> put_ok, get |-> get_ok]
    /\ UNCHANGED <<cfg, nxt, rst, put_ok, get_ok, blocked, resets>>

\* Active clock edge; the registers that methods look at take new values (for a
\* method get(data, false) does what clear_get() does).
ClockEdge ==
    /\ Settled
    /\ runnable' = Clocked
    /\ edge' = "clock"
    /\ \E po \in IF cfg.cthread_put THEN {"clear"} ELSE PutOps \ {"b_put"} :
       \E pv \in IF po = "clear" THEN {ZERO} ELSE Data,
          go \in IF cfg.cthread_get THEN {"clear"}
                 ELSE IF cfg.always_ready THEN {"get"} ELSE GetOps \ {"mask", "b_get"} :
          nxt' = [nxt EXCEPT !.put_op = po, !.put_val = pv, !.get_op = go]
    /\ UNCHANGED <<cfg, cur, rst, put_ok, get_ok, blocked, q, op, resets>>

AssertReset ==
    /\ Settled /\ ~rst /\ resets < MaxResets
    /\ rst' = TRUE
    /\ resets' = resets + 1
    /\ edge' = "reset"
    /\ runnable' = Clocked
    /\ UNCHANGED <<cfg, cur, nxt, put_ok, get_ok, blocked, q, op>>

ReleaseReset ==
    /\ Settled /\ rst
    /\ rst' = FALSE
    /\ UNCHANGED <<cfg, cur, nxt, runnable, edge, put_ok, get_ok, blocked, q, op,
                   resets>>

Evaluate == ModuleProc \/ PutProc \/ GetProc
Next == Evaluate \/ Update \/ ClockEdge \/ AssertReset \/ ReleaseReset

\* The kernel goes on, reset is released in the end, and the GET process tries
\* to get infinitely often; nothing is assumed of the PUT process.
KeepsGetting == /\ SF_vars("get" \in GetOp /\ get(TRUE))
                /\ SF_vars(ClockEdge /\ (~cfg.cthread_get => nxt'.get_op = "get"))
Fairness == /\ WF_vars(Evaluate) /\ WF_vars(Update) /\ WF_vars(ClockEdge)
            /\ SF_vars(ReleaseReset)
            /\ KeepsGetting

Spec == Init /\ [][Next]_vars /\ Fairness

-----------------------------------------------------------------------------
(* Properties.                                                               *)

\* The data registers between the two processes: core_data of a put thread, the
\* sync register, core_data_d.
Slots == (IF cfg.cthread_put THEN 2 ELSE 1) + (IF cfg.sync THEN 1 ELSE 0)

\* Every signal, present and pending, keeps its type, and never are more
\* elements under way than there are data registers to keep them.
TypeOK ==
    /\ cfg \in Configs
    /\ cur \in Signals /\ nxt \in Signals
    /\ runnable \subseteq Clocked \cup DOMAIN Sensitive
    /\ rst \in BOOLEAN
    /\ edge \in {"none", "clock", "reset"}
    /\ put_ok \in Result /\ get_ok \in Result
    /\ blocked \in [put : BOOLEAN, get : BOOLEAN]
    /\ q \in Seq(Data) /\ Len(q) <= Slots
    /\ op \in [put : Result, get : Result]
    /\ resets \in 0 .. MaxResets

\* The sensitivity lists of both modules and of addTo() are complete: when time
\* advances, no process would compute anything else if it ran again.
SignalsSettled ==
    Settled =>
        /\ cur.core_req = CoreReq(cur)
        /\ cur.core_ready = CoreReady(cur)
        /\ cur.core_data_out = CoreDataOut(cur)
        /\ ~cfg.cthread_put => put_ok.done = (cur.put_op = "put" /\ Ready(cur))
        /\ ~cfg.cthread_get =>
              get_ok = Outcome(cur.get_op = "get" /\ Request(cur), cur.core_data_out)

\* Back pressure is never spurious: the target refuses only while its register
\* keeps the oldest element that was put and not yet got.
NotReadyHoldsOldest ==
    Settled /\ ~rst /\ ~cur.core_ready =>
        q # <<>> /\ cur.core_data_d = Head(q)

\* A put by a method without a sync register can be got in the same cycle.
PassThrough == ~cfg.cthread_put /\ ~cfg.sync

Contract == INSTANCE FifoContract WITH
    promise <- [size |-> Slots, passThrough |-> PassThrough, makesRoom |-> FALSE]

\* The pair is a bounded queue: nothing is lost, duplicated or reordered; its
\* size is the one that the TLM model of the pair (SctPrimFifo) gives itself.
ImplementsContract == Contract!Spec

\* A thread in b_put() returns while the other side keeps getting.
BlockedPutReturns == blocked.put ~> ~blocked.put

\* What was put arrives, even if nothing is put after it.
Delivered == q # <<>> ~> (op.get.done \/ rst)
=============================================================================
