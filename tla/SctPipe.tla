------------------------------- MODULE SctPipe -------------------------------
(***************************************************************************)
(* Pipeline register sct_pipe<T, N, TRAITS, 0> with its shift register      *)
(* sct_pl_reg: N stages that may be moved by re-timing and an output        *)
(* register behind them.  Stages shift towards the output whenever there is *)
(* an empty one ahead, so bubbles collapse while nothing is got.            *)
(*                                                                          *)
(* Signals, processes and the kernel's phases are modelled as in SctFifo.   *)
(* busy_reg, busy_reg_d and enable are the sets of stages whose bit is 1.   *)
(***************************************************************************)
EXTENDS Integers, Sequences

CONSTANTS
    N,              \* number of pipeline registers
    Data,           \* the values of type T
    ZERO,           \* T{}
    Configs,        \* the configurations explored
    PutOps,         \* what the PUT process may do when it runs
    GetOps,         \* what the GET process may do when it runs
    MaxResets       \* bound: how often reset is asserted again

\* Process kinds, from addToPut and addToGet.
Config == [cthread_put : BOOLEAN, cthread_get : BOOLEAN]

PutOpKinds == {"clear", "put", "mask", "b_put"}
GetOpKinds == {"clear", "get", "mask", "b_get"}

ASSUME StagesAssumption == N \in Nat \ {0}
ASSUME DataAssumption == ZERO \in Data
ASSUME ConfigsAssumption == Configs \subseteq Config
ASSUME OpsAssumption == PutOps \subseteq PutOpKinds /\ GetOps \subseteq GetOpKinds
ASSUME MaxResetsAssumption == MaxResets \in Nat

VARIABLES
    cfg,        \* the configuration
    cur, nxt,   \* current and next values of the signals
    regs,       \* the array of sct_pl_reg
    runnable,   \* processes to run in this evaluation phase
    rst,        \* reset is active
    edge,       \* what started this evaluation phase: "clock", "reset", "none"
    put_ok,     \* what put() last returned to its caller, and the value passed
    get_ok,     \* what get() last returned to its caller, and the value given
    blocked,    \* which of the two processes waits inside b_put() / b_get()
    q,          \* history: elements put and not yet got, oldest first
    age,        \* history: clock edges since each of them was put, up to N
    op,         \* history: what the last clock edge committed
    resets      \* number of times reset has been asserted again

history == <<q, age, op>>
vars == <<cfg, cur, nxt, regs, runnable, rst, edge, put_ok, get_ok, blocked, history, resets>>

Stage == 0 .. N - 1
Result == [done : BOOLEAN, data : Data]
Nothing == [done |-> FALSE, data |-> ZERO]
Outcome(does, data) == IF does THEN [done |-> TRUE, data |-> data] ELSE Nothing

Signals == [put_req : BOOLEAN, put_req_d : BOOLEAN,
            get_req : BOOLEAN, get_req_d : BOOLEAN,
            ready_push : BOOLEAN, out_valid : BOOLEAN,
            enable : SUBSET Stage, data_in : Data, data_out : Data,
            reg_full : BOOLEAN, reg_full_d : BOOLEAN,
            data_reg : Data, data_reg_d : Data,
            busy_reg : SUBSET Stage, busy_reg_d : SUBSET Stage,
            put_op : PutOpKinds, put_val : Data, get_op : GetOpKinds]

Push(s) == IF cfg.cthread_put THEN s.put_req # s.put_req_d ELSE s.put_req
Pop(s)  == IF cfg.cthread_get THEN s.get_req # s.get_req_d ELSE s.get_req

\* Mutants of asyncProc's helpers.
MovesOne(busy) ==               \* a stage only looks at the one ahead of it
    {i \in busy : i + 1 \in Stage \ busy}
RegFullEarly(s) ==              \* a method's get counts in its own cycle, too
    s.reg_full_d /\ ~Pop(s)
TakesKept(s) ==                 \* the output register refilled while still full
    N - 1 \in s.busy_reg_d

\* The loop over the stages, from the output down: the words of these stages
\* move up, because there is an empty stage somewhere ahead.
Moves(busy) == {i \in busy : \E j \in Stage \ busy : j > i}
Shifted(busy) == (busy \ Moves(busy)) \cup {i + 1 : i \in Moves(busy)}

\* The output register, after the last get of a thread; is it refilled?
RegFull(s) == s.reg_full_d /\ ~(cfg.cthread_get /\ Pop(s))
Takes(s) == ~RegFull(s) /\ N - 1 \in s.busy_reg_d

\* asyncProc's outputs.  A method's get empties the output register at the end
\* of its cycle only.
CombOutputs(s) ==
    LET busy   == IF Takes(s) THEN s.busy_reg_d \ {N - 1} ELSE s.busy_reg_d
        full   == RegFull(s) \/ Takes(s)
        accept == IF Push(s) /\ 0 \notin Shifted(busy) THEN {0} ELSE {}
    IN  [ready_push |-> 0 \notin Shifted(busy),
         out_valid  |-> full,
         busy_reg   |-> Shifted(busy) \cup accept,
         enable     |-> {i + 1 : i \in Moves(busy)} \cup accept,
         reg_full   |-> full /\ ~(~cfg.cthread_get /\ Pop(s)),
         data_reg   |-> IF Takes(s) THEN s.data_out ELSE s.data_reg_d]

AsyncSensitive == {"put_req", "put_req_d", "get_req", "get_req_d",
                   "reg_full_d", "data_reg_d", "data_out", "busy_reg_d"}
GetSensitiveNoData == {"out_valid", "get_op"}                   \* mutant
PutSensitive == {"ready_push", "put_op", "put_val"}
GetSensitive == {"out_valid", "data_reg", "get_op"}
Changed(s, t, names) == \E n \in names : s[n] # t[n]
Woken(s, t) ==
    {p \in {"asyncProc", "put", "get"} :
        \/ p = "asyncProc" /\ Changed(s, t, AsyncSensitive)
        \/ p = "put" /\ ~cfg.cthread_put /\ Changed(s, t, PutSensitive)
        \/ p = "get" /\ ~cfg.cthread_get /\ Changed(s, t, GetSensitive)}
Threads == {"syncProc", "plProc"} \cup (IF cfg.cthread_put THEN {"put"} ELSE {})
                                  \cup (IF cfg.cthread_get THEN {"get"} ELSE {})

Init ==
    /\ cfg \in Configs
    /\ cur = [put_req |-> FALSE, put_req_d |-> FALSE,
              get_req |-> FALSE, get_req_d |-> FALSE,
              ready_push |-> FALSE, out_valid |-> FALSE,
              enable |-> {}, data_in |-> ZERO, data_out |-> ZERO,
              reg_full |-> FALSE, reg_full_d |-> FALSE,
              data_reg |-> ZERO, data_reg_d |-> ZERO,
              busy_reg |-> {}, busy_reg_d |-> {},
              put_op |-> "clear", put_val |-> ZERO, get_op |-> "clear"]
    /\ nxt = cur
    /\ regs \in [Stage -> Data]         \* not initialized before reset
    /\ runnable = {"asyncProc", "syncProc", "plProc", "put", "get"}
    /\ rst = TRUE
    /\ edge = "reset"
    /\ put_ok = Nothing /\ get_ok = Nothing
    /\ blocked = [put |-> FALSE, get |-> FALSE]
    /\ q = <<>> /\ age = <<>>
    /\ op = [put |-> Nothing, get |-> Nothing]
    /\ resets = 0

-----------------------------------------------------------------------------
(* Evaluation phase.                                                         *)

Runs(p) == p \in runnable /\ runnable' = runnable \ {p}
ModuleFrame == UNCHANGED <<cfg, cur, rst, edge, put_ok, get_ok, blocked, history, resets>>

asyncProc ==
    /\ Runs("asyncProc")
    /\ LET out == CombOutputs(cur) IN
       nxt' = [n \in DOMAIN nxt |-> IF n \in DOMAIN out THEN out[n] ELSE nxt[n]]
    /\ UNCHANGED regs
    /\ ModuleFrame

\* syncProc's main loop: a thread's request stays pending until it is taken.
SyncCycle(s, n) ==
    [n EXCEPT !.busy_reg_d = s.busy_reg, !.reg_full_d = s.reg_full,
              !.data_reg_d = s.data_reg,
              !.put_req_d = IF cfg.cthread_put /\ s.ready_push THEN s.put_req
                            ELSE n.put_req_d,
              !.get_req_d = IF cfg.cthread_get THEN s.get_req ELSE n.get_req_d]
SyncReset(n) ==
    [n EXCEPT !.busy_reg_d = {}, !.reg_full_d = FALSE, !.data_reg_d = ZERO,
              !.put_req_d = IF cfg.cthread_put THEN FALSE ELSE n.put_req_d,
              !.get_req_d = IF cfg.cthread_get THEN FALSE ELSE n.get_req_d]

syncProc ==
    /\ Runs("syncProc")
    /\ nxt' = IF rst THEN SyncReset(nxt) ELSE SyncCycle(cur, nxt)
    /\ UNCHANGED regs
    /\ ModuleFrame

\* Mutant: stages shift from the input up, so a word overtakes the empty ones.
ShiftUpwards(s, r) ==
    [i \in Stage |-> IF \A j \in 0 .. i : j \in s.enable THEN s.data_in
                     ELSE IF i \in s.enable THEN r[i - 1] ELSE r[i]]

\* sct_pl_reg: enabled stages take the word before them.
Shift(s, r) ==
    [i \in Stage |-> IF i \notin s.enable THEN r[i]
                     ELSE IF i = 0 THEN s.data_in ELSE r[i - 1]]

plProc ==
    /\ Runs("plProc")
    /\ regs' = IF rst THEN [i \in Stage |-> ZERO] ELSE Shift(cur, regs)
    /\ nxt' = [nxt EXCEPT !.data_out = regs'[N - 1]]
    /\ ModuleFrame

PutReq(does) == IF cfg.cthread_put THEN (IF does THEN ~cur.put_req ELSE cur.put_req)
                                   ELSE does
GetReq(does) == IF cfg.cthread_get THEN (IF does THEN ~cur.get_req ELSE cur.get_req)
                                   ELSE does
PutFrame == UNCHANGED <<cfg, cur, regs, rst, edge, get_ok, history, resets>>
GetFrame == UNCHANGED <<cfg, cur, regs, rst, edge, put_ok, history, resets>>

reset_put ==
    /\ Runs("put") /\ cfg.cthread_put /\ rst
    /\ nxt' = [nxt EXCEPT !.put_req = FALSE, !.data_in = ZERO]
    /\ put_ok' = Nothing
    /\ blocked' = [blocked EXCEPT !.put = FALSE]
    /\ PutFrame

\* clear_put(): the data of a thread may still wait to be taken.
clear_put ==
    /\ Runs("put")
    /\ IF cfg.cthread_put THEN ~rst /\ ~blocked.put /\ "clear" \in PutOps
                          ELSE cur.put_op = "clear"
    /\ nxt' = [nxt EXCEPT !.put_req = PutReq(FALSE),
                          !.data_in = IF cfg.cthread_put THEN nxt.data_in ELSE ZERO]
    /\ put_ok' = Nothing
    /\ UNCHANGED blocked
    /\ PutFrame

\* put(data) and put(data, mask): data_in is left alone if the pipe is not ready,
\* but not if the mask is 0.
put(data, mask) ==
    /\ Runs("put")
    /\ IF cfg.cthread_put THEN ~rst /\ ~blocked.put
                          ELSE data = cur.put_val
    /\ nxt' = [nxt EXCEPT !.put_req = PutReq(cur.ready_push /\ mask),
                          !.data_in = IF cur.ready_push THEN data
                                      ELSE IF cfg.cthread_put THEN nxt.data_in
                                      ELSE ZERO]
    /\ put_ok' = Outcome(cur.ready_push /\ mask, data)
    /\ UNCHANGED blocked
    /\ PutFrame

\* b_put(data): nothing is written until the pipe is ready; put_ok keeps the
\* argument of the waiting thread.
b_put(data) ==
    /\ Runs("put") /\ cfg.cthread_put /\ ~rst
    /\ IF blocked.put THEN data = put_ok.data ELSE "b_put" \in PutOps
    /\ nxt' = IF cur.ready_push
              THEN [nxt EXCEPT !.put_req = ~cur.put_req, !.data_in = data]
              ELSE nxt
    /\ put_ok' = [done |-> cur.ready_push, data |-> data]
    /\ blocked' = [blocked EXCEPT !.put = ~cur.ready_push]
    /\ PutFrame

reset_get ==
    /\ Runs("get") /\ cfg.cthread_get /\ rst
    /\ nxt' = [nxt EXCEPT !.get_req = FALSE]
    /\ get_ok' = Nothing
    /\ blocked' = [blocked EXCEPT !.get = FALSE]
    /\ GetFrame

clear_get ==
    /\ Runs("get")
    /\ IF cfg.cthread_get THEN ~rst /\ ~blocked.get /\ "clear" \in GetOps
                          ELSE cur.get_op = "clear"
    /\ nxt' = [nxt EXCEPT !.get_req = GetReq(FALSE)]
    /\ get_ok' = Nothing
    /\ UNCHANGED blocked
    /\ GetFrame

\* get() and get(data, enable).
get(enable) ==
    /\ Runs("get")
    /\ cfg.cthread_get => ~rst /\ ~blocked.get
    /\ nxt' = [nxt EXCEPT !.get_req = GetReq(cur.out_valid /\ enable)]
    /\ get_ok' = Outcome(cur.out_valid /\ enable, cur.data_reg)
    /\ UNCHANGED blocked
    /\ GetFrame

b_get ==
    /\ Runs("get") /\ cfg.cthread_get /\ ~rst
    /\ blocked.get \/ "b_get" \in GetOps
    /\ nxt' = [nxt EXCEPT !.get_req = GetReq(cur.out_valid)]
    /\ get_ok' = Outcome(cur.out_valid, cur.data_reg)
    /\ blocked' = [blocked EXCEPT !.get = ~cur.out_valid]
    /\ GetFrame

PutOp == IF cfg.cthread_put THEN PutOps ELSE {cur.put_op}
GetOp == IF cfg.cthread_get THEN GetOps ELSE {cur.get_op}

PutProc == \/ reset_put \/ clear_put
           \/ \E d \in Data : \/ "put" \in PutOp /\ put(d, TRUE)
                              \/ "mask" \in PutOp /\ put(d, FALSE)
                              \/ b_put(d)
GetProc == \/ reset_get \/ clear_get
           \/ "get" \in GetOp /\ get(TRUE)
           \/ "mask" \in GetOp /\ get(FALSE)
           \/ b_get

-----------------------------------------------------------------------------
(* Update phase and time.                                                    *)

Settled == runnable = {} /\ nxt = cur /\ edge = "none"

\* What a clock edge commits, seen by the users: a get takes the oldest.
Older == [i \in DOMAIN age |-> IF age[i] < N THEN age[i] + 1 ELSE N]
Commit ==
    LET elems == IF put_ok.done THEN Append(q, put_ok.data) ELSE q
        ages  == IF put_ok.done THEN Append(Older, 0) ELSE Older
        takes == get_ok.done /\ elems # <<>>
    IN  /\ q' = IF takes THEN Tail(elems) ELSE elems
        /\ age' = IF takes THEN Tail(ages) ELSE ages
        /\ op' = [put |-> put_ok, get |-> get_ok]

Update ==
    /\ runnable = {} /\ (nxt # cur \/ edge # "none")
    /\ cur' = nxt
    /\ runnable' = Woken(cur, nxt)
    /\ edge' = "none"
    /\ CASE edge = "none" -> UNCHANGED history
         [] edge # "none" /\ rst ->
                /\ q' = <<>> /\ age' = <<>>
                /\ op' = [put |-> Nothing, get |-> Nothing]
         [] OTHER -> Commit
    /\ UNCHANGED <<cfg, nxt, regs, rst, put_ok, get_ok, blocked, resets>>

\* Active clock edge; the registers that methods look at take new values (for a
\* method get(data, false) does what clear_get() does).
ClockEdge ==
    /\ Settled
    /\ runnable' = Threads
    /\ edge' = "clock"
    /\ \E po \in IF cfg.cthread_put THEN {"clear"} ELSE PutOps \ {"b_put"} :
       \E pv \in IF po = "clear" THEN {ZERO} ELSE Data,
          go \in IF cfg.cthread_get THEN {"clear"} ELSE GetOps \ {"mask", "b_get"} :
          nxt' = [nxt EXCEPT !.put_op = po, !.put_val = pv, !.get_op = go]
    /\ UNCHANGED <<cfg, cur, regs, rst, put_ok, get_ok, blocked, history, resets>>

\* Asynchronous reset between clock edges, and its release.
AssertReset ==
    /\ Settled /\ ~rst /\ resets < MaxResets
    /\ rst' = TRUE
    /\ resets' = resets + 1
    /\ edge' = "reset"
    /\ runnable' = Threads
    /\ UNCHANGED <<cfg, cur, nxt, regs, put_ok, get_ok, blocked, history>>

ReleaseReset ==
    /\ Settled /\ rst
    /\ rst' = FALSE
    /\ UNCHANGED <<cfg, cur, nxt, regs, runnable, edge, put_ok, get_ok, blocked,
                   history, resets>>

Evaluate == asyncProc \/ syncProc \/ plProc \/ PutProc \/ GetProc
Next == Evaluate \/ Update \/ ClockEdge \/ AssertReset \/ ReleaseReset

Fairness == WF_vars(Evaluate) /\ WF_vars(Update) /\ WF_vars(ClockEdge)
            /\ SF_vars(ReleaseReset)

Spec == Init /\ [][Next]_vars /\ Fairness

-----------------------------------------------------------------------------
(* Properties.                                                               *)

\* Signals and registers keep their types, and never are more elements under
\* way than there are registers for them: N stages, the output register, and
\* data_in of a PUT thread.
Slots == N + 1 + (IF cfg.cthread_put THEN 1 ELSE 0)
TypeOK ==
    /\ cfg \in Configs
    /\ cur \in Signals /\ nxt \in Signals
    /\ regs \in [Stage -> Data]
    /\ runnable \subseteq {"asyncProc", "syncProc", "plProc", "put", "get"}
    /\ put_ok \in Result /\ get_ok \in Result
    /\ blocked \in [put : BOOLEAN, get : BOOLEAN]
    /\ q \in Seq(Data) /\ Len(q) <= Slots
    /\ age \in Seq(0 .. N) /\ Len(age) = Len(q)
    /\ op \in [put : Result, get : Result]
    /\ resets \in 0 .. MaxResets

\* The sensitivity lists of asyncProc, addToPut and addToGet are complete: when
\* time advances, no process would compute anything else if it ran again.
SignalsSettled ==
    Settled =>
        /\ LET out == CombOutputs(cur) IN \A n \in DOMAIN out : cur[n] = out[n]
        /\ ~cfg.cthread_put => put_ok.done = (cur.put_op = "put" /\ cur.ready_push)
        /\ ~cfg.cthread_get =>
              get_ok = Outcome(cur.get_op = "get" /\ cur.out_valid, cur.data_reg)

\* Bubbles collapse: the pipe refuses a put only when all its stages and its
\* output register are taken.
NotReadyFull == Settled /\ ~rst /\ ~cur.ready_push => Len(q) > N

\* Constant latency: an element is offered, and it is the oldest one, as soon
\* as N clock edges have moved it through the stages and never earlier,
\* whatever back pressure and bubbles it met on the way (the put of a thread
\* enters one edge later).
Latency == IF cfg.cthread_put THEN N ELSE N - 1
RequestAfterLatency ==
    Settled /\ ~rst =>
        /\ cur.out_valid = (q # <<>> /\ Head(age) >= Latency)
        /\ cur.out_valid => cur.data_reg = Head(q)

Contract == INSTANCE FifoContract WITH
    promise <- [size |-> Slots, passThrough |-> FALSE, makesRoom |-> FALSE]

\* The pipe is a bounded queue: no word is lost, doubled or overtaken.
ImplementsContract == Contract!Spec
=============================================================================
