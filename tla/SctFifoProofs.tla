---------------------------- MODULE SctFifoProofs ----------------------------
(***************************************************************************)
(* Proofs about the simulated FIFO, for every length, data set, set of      *)
(* configurations and set of calls.  Signals keep their types and, when the *)
(* delta cycles of a time step are over, no method process of the channel   *)
(* or of its users would compute anything else if it ran again.  From that, *)
(* and from what each phase of a time step may write, the registers always  *)
(* hold the elements put and not yet got: ready(), request() and peek()     *)
(* tell the truth, and the simulation implements both the synthesized FIFO  *)
(* and the bounded queue.                                                   *)
(***************************************************************************)
EXTENDS SctFifo, SequenceTheorems, TLAPS

\* A process that does not wait for its turn has left results that fit the
\* present values of the signals: asyncProc in its outputs, a PUT or GET method
\* in what it returned.
OutputsCurrent ==
    LET out == CombOutputs(cur) IN
    /\ nxt.out_valid = out.out_valid
    /\ nxt.data_out = out.data_out
    /\ nxt.ready_push = out.ready_push
    /\ nxt.element_num = out.element_num
PutCurrent == put_ok.done = (cur.put_op = "put" /\ cur.ready_push)
GetCurrent == /\ get_ok.done = (cur.get_op = "get" /\ cur.out_valid)
              /\ get_ok.done => get_ok.data = cur.data_out

AsyncInv == "asyncProc" \in runnable \/ OutputsCurrent
PutInv == cfg.cthread_put \/ "put" \in runnable \/ PutCurrent
GetInv == cfg.cthread_get \/ "get" \in runnable \/ GetCurrent
Inv == TypeOK /\ AsyncInv /\ PutInv /\ GetInv

-----------------------------------------------------------------------------
(* Types.                                                                    *)

\* The result of a call is well typed and says what it was told.
LEMMA OutcomeType ==
    ASSUME NEW b \in BOOLEAN, NEW d \in Data
    PROVE  /\ Outcome(b, d) \in Result /\ Outcome(b, d).done = b
           /\ b => Outcome(b, d).data = d
           /\ Nothing \in Result /\ Nothing.done = FALSE
  BY DataAssumption DEF Outcome, Nothing, Result

\* A request seen by asyncProc or syncProc is a Boolean, an index stays a ring
\* index, and the elaborated configuration is one of the explored ones.
LEMMA RequestType ==
    ASSUME cfg \in Configs, NEW s \in Signals
    PROVE  /\ cfg \in Config /\ Push(s) \in BOOLEAN /\ Pop(s) \in BOOLEAN
           /\ \A i \in Indx : NextIndx(i) \in Indx
<1>1. cfg \in Config
  BY ConfigsAssumption
<1>2. Push(s) \in BOOLEAN /\ Pop(s) \in BOOLEAN
  BY DEF Push, Pop, Signals
<1>3. \A i \in Indx : NextIndx(i) \in Indx
  BY LengthAssumption DEF NextIndx, Indx
<1> QED
  BY <1>1, <1>2, <1>3

\* asyncProc computes values of the types of its outputs: the counter stays in
\* ElemNum_t, the ring is read inside its bounds.
LEMMA CombType ==
    ASSUME cfg \in Configs, NEW s \in Signals
    PROVE  /\ CombOutputs(s).out_valid \in BOOLEAN
           /\ CombOutputs(s).data_out \in Data
           /\ CombOutputs(s).ready_push \in BOOLEAN
           /\ CombOutputs(s).element_num \in 0 .. ElemNums - 1
<1>1. cfg \in Config /\ Push(s) \in BOOLEAN /\ Pop(s) \in BOOLEAN
  BY RequestType
<1>2. PopIndx(s) \in Indx
  BY RequestType DEF PopIndx, Signals
<1>3. s.buffer[PopIndx(s)] \in Data /\ s.data_in \in Data
  BY <1>2 DEF Signals
<1>4. OutValid(s) \in BOOLEAN /\ ReadyPush(s) \in BOOLEAN
  BY <1>1 DEF OutValid, ReadyPush
<1>5. s.element_num_d \in 0 .. ElemNums - 1
  BY DEF Signals
<1>6. ElementNum(s) \in 0 .. ElemNums - 1
  BY <1>5, ElemNumsAssumption DEF ElementNum
<1> QED
  BY <1>1, <1>3, <1>4, <1>6 DEF CombOutputs, Config

\* syncProc leaves well typed registers, in reset and in a clock cycle.
LEMMA SyncType ==
    ASSUME cfg \in Configs, NEW s \in Signals, NEW n \in Signals
    PROVE  SyncReset(n) \in Signals /\ SyncCycle(s, n) \in Signals
<1>1. Push(s) \in BOOLEAN /\ Pop(s) \in BOOLEAN /\ cfg \in Config
      /\ NextIndx(s.pop_indx) \in Indx /\ NextIndx(s.push_indx) \in Indx
  BY RequestType DEF Signals
<1> DEFINE cleared == [i \in Indx |-> IF i = 0 \/ cfg.INIT_BUFFER THEN ZERO
                                      ELSE n.buffer[i]]
           putd == IF cfg.cthread_put THEN FALSE ELSE n.put_req_d
           getd == IF cfg.cthread_get THEN FALSE ELSE n.get_req_d
<1>2. SyncReset(n) \in Signals
  <2>1. cleared \in [Indx -> Data]
    BY DataAssumption DEF Signals
  <2>2. putd \in BOOLEAN /\ getd \in BOOLEAN
    BY DEF Signals
  <2>3. 0 \in Indx /\ 0 \in 0 .. ElemNums - 1
    BY LengthAssumption, ElemNumsAssumption DEF Indx
  <2>4. SyncReset(n) = [n EXCEPT !.pop_indx = 0, !.push_indx = 0, !.put_req_d = putd,
                          !.get_req_d = getd, !.element_num_d = 0, !.buffer = cleared]
    BY DEF SyncReset
  <2> HIDE DEF cleared, putd, getd
  <2> QED
    BY <2>1, <2>2, <2>3, <2>4 DEF Signals
<1>3. [n.buffer EXCEPT ![s.push_indx] = s.data_in] \in [Indx -> Data]
  BY DEF Signals
<1>4. SyncCycle(s, n) \in Signals
  BY <1>1, <1>3 DEF SyncCycle, Signals
<1> QED
  BY <1>2, <1>4

\* At power-up every method is still to run.
LEMMA InitInv == Init => Inv
<1> SUFFICES ASSUME Init PROVE Inv
  OBVIOUS
<1>1. cur \in Signals
  <2>1. [i \in Indx |-> ZERO] \in [Indx -> Data]
    BY DataAssumption
  <2>2. 0 \in Indx /\ 0 \in 0 .. ElemNums - 1
    BY LengthAssumption, ElemNumsAssumption DEF Indx
  <2> QED
    BY <2>1, <2>2, DataAssumption DEF Init, Signals, PutOpKinds, GetOpKinds
<1>2. TypeOK
  <2>1. Nothing \in Result
    BY OutcomeType, DataAssumption
  <2>2. q \in Seq(Data) /\ blocked \in [put : BOOLEAN, get : BOOLEAN]
    BY DEF Init
  <2>3. op \in [put : Result, get : Result] /\ put_ok \in Result /\ get_ok \in Result
    BY <2>1 DEF Init
  <2>4. resets \in 0 .. MaxResets
    BY MaxResetsAssumption DEF Init
  <2> QED
    BY <1>1, <2>2, <2>3, <2>4 DEF Init, TypeOK
<1> QED
  BY <1>2 DEF Init, Inv, AsyncInv, PutInv, GetInv

-----------------------------------------------------------------------------
(* Steps that leave a process's results, and what it reads, alone.           *)

\* The outputs of asyncProc stay current in a step of another process.
LEMMA AsyncKept ==
    ASSUME AsyncInv, UNCHANGED <<cfg, cur>>,
           "asyncProc" \in runnable => "asyncProc" \in runnable',
           nxt'.out_valid = nxt.out_valid, nxt'.data_out = nxt.data_out,
           nxt'.ready_push = nxt.ready_push, nxt'.element_num = nxt.element_num
    PROVE  AsyncInv'
  BY DEF AsyncInv, OutputsCurrent, CombOutputs, OutValid, PopIndx, ReadyPush,
         ElementNum, Push, Pop, NextIndx

\* So does what a PUT method returned.
LEMMA PutKept ==
    ASSUME PutInv, UNCHANGED <<cfg, cur, put_ok>>,
           "put" \in runnable => "put" \in runnable'
    PROVE  PutInv'
  BY DEF PutInv, PutCurrent

\* And what a GET method returned.
LEMMA GetKept ==
    ASSUME GetInv, UNCHANGED <<cfg, cur, get_ok>>,
           "get" \in runnable => "get" \in runnable'
    PROVE  GetInv'
  BY DEF GetInv, GetCurrent

-----------------------------------------------------------------------------
(* The processes of the channel.                                             *)

\* asyncProc makes its outputs current.
LEMMA AsyncStep == ASSUME Inv, asyncProc PROVE Inv'
<1> DEFINE out == CombOutputs(cur)
<1>1. cfg \in Configs /\ cur \in Signals /\ nxt \in Signals
  BY DEF Inv, TypeOK
<1>2. /\ out.out_valid \in BOOLEAN /\ out.data_out \in Data
      /\ out.ready_push \in BOOLEAN /\ out.element_num \in 0 .. ElemNums - 1
  BY <1>1, CombType
<1>3. nxt' = [nxt EXCEPT !.out_valid = out.out_valid, !.data_out = out.data_out,
                         !.ready_push = out.ready_push,
                         !.element_num = out.element_num]
  BY DEF asyncProc
<1>4. OutputsCurrent'
  <2>1. out' = out
    BY DEF asyncProc, CombOutputs, OutValid, PopIndx, ReadyPush, ElementNum,
           Push, Pop, NextIndx
  <2>2. /\ nxt'.out_valid = out.out_valid /\ nxt'.data_out = out.data_out
        /\ nxt'.ready_push = out.ready_push /\ nxt'.element_num = out.element_num
    <3> HIDE DEF out
    <3> QED BY <1>1, <1>3 DEF Signals
  <2> QED
    BY <2>1, <2>2 DEF OutputsCurrent
<1>5. nxt' \in Signals
  <2> HIDE DEF out
  <2> QED BY <1>1, <1>2, <1>3 DEF Signals
<1>6. TypeOK'
  BY <1>5 DEF Inv, TypeOK, asyncProc
<1>7. PutInv' /\ GetInv'
  BY PutKept, GetKept DEF Inv, asyncProc
<1> QED
  BY <1>4, <1>6, <1>7 DEF Inv, AsyncInv

\* syncProc writes registers, no outputs of asyncProc.
LEMMA SyncStep == ASSUME Inv, syncProc PROVE Inv'
<1>1. cfg \in Configs /\ cur \in Signals /\ nxt \in Signals /\ AsyncInv
  BY DEF Inv, TypeOK
<1>2. nxt' \in Signals
  BY <1>1, SyncType DEF syncProc
<1>3. TypeOK'
  BY <1>2 DEF Inv, TypeOK, syncProc
<1>4. /\ nxt'.out_valid = nxt.out_valid /\ nxt'.data_out = nxt.data_out
      /\ nxt'.ready_push = nxt.ready_push /\ nxt'.element_num = nxt.element_num
  <2>1. CASE rst
    BY <1>1, <2>1 DEF syncProc, SyncReset, Signals
  <2>2. CASE ~rst
    BY <1>1, <2>2 DEF syncProc, SyncCycle, Signals
  <2> QED
    BY <2>1, <2>2
<1>5. AsyncInv'
  BY <1>1, <1>4, AsyncKept DEF syncProc
<1>6. PutInv' /\ GetInv'
  BY PutKept, GetKept DEF Inv, syncProc
<1> QED
  BY <1>3, <1>5, <1>6 DEF Inv

-----------------------------------------------------------------------------
(* The calls of the PUT process.                                             *)

\* A call of a PUT process writes put_req and data_in only.
LEMMA PutWrites ==
    ASSUME Inv, PutRuns, PutFrame, NEW r \in BOOLEAN, NEW d \in Data,
           nxt' = nxt \/ nxt' = [nxt EXCEPT !.put_req = r, !.data_in = d],
           put_ok' \in Result, blocked' \in [put : BOOLEAN, get : BOOLEAN],
           cfg.cthread_put \/ PutCurrent'
    PROVE  Inv'
<1>1. nxt \in Signals /\ AsyncInv /\ PutInv /\ GetInv
  BY DEF Inv, TypeOK
<1>2. nxt' \in Signals
  BY <1>1 DEF Signals
<1>3. TypeOK'
  BY <1>2 DEF Inv, TypeOK, PutRuns, PutFrame
<1>4. /\ nxt'.out_valid = nxt.out_valid /\ nxt'.data_out = nxt.data_out
      /\ nxt'.ready_push = nxt.ready_push /\ nxt'.element_num = nxt.element_num
  BY <1>1 DEF Signals
<1>5. AsyncInv'
  BY <1>1, <1>4, AsyncKept DEF PutRuns, PutFrame
<1>6. GetInv'
  BY <1>1, GetKept DEF PutRuns, PutFrame
<1>7. PutInv'
  BY DEF PutInv, PutFrame
<1> QED
  BY <1>3, <1>5, <1>6, <1>7 DEF Inv

\* What a call writes to put_req is a Boolean, whatever the process kind.
LEMMA PutReqType ==
    ASSUME Inv, NEW does \in BOOLEAN
    PROVE  PutReq(does) \in BOOLEAN /\ cur.ready_push \in BOOLEAN
           /\ cur.data_in \in Data /\ cur.put_val \in Data
  BY DEF Inv, TypeOK, Signals, PutReq

\* Every call of the PUT process keeps the invariant; a method returns what the
\* present value of ready_push says.
LEMMA PutStep == ASSUME Inv, PutProc PROVE Inv'
<1>1. blocked \in [put : BOOLEAN, get : BOOLEAN] /\ cfg \in Config
  BY ConfigsAssumption DEF Inv, TypeOK
<1>2. ZERO \in Data /\ Nothing \in Result /\ Nothing.done = FALSE
  BY DataAssumption, OutcomeType
<1>3. CASE reset_put
  BY <1>1, <1>2, <1>3, PutWrites DEF reset_put
<1>4. CASE put_idle
  BY <1>1, <1>2, <1>4, PutWrites DEF put_idle
<1>5. CASE clear_put
  <2>1. PutReq(FALSE) \in BOOLEAN
    BY PutReqType
  <2>2. cfg.cthread_put \/ PutCurrent'
    BY <1>1, <1>2, <1>5 DEF clear_put, PutFrame, PutCurrent
  <2> QED
    BY <1>1, <1>2, <1>5, <2>1, <2>2, PutWrites DEF clear_put
<1>6. ASSUME NEW d \in Data, NEW mask \in BOOLEAN, put(d, mask),
             (IF mask THEN "put" ELSE "mask") \in PutOp
      PROVE  Inv'
  <2> DEFINE does == cur.ready_push /\ mask
  <2>1. does \in BOOLEAN /\ PutReq(does) \in BOOLEAN
    BY PutReqType
  <2>2. Outcome(does, d) \in Result /\ Outcome(does, d).done = does
    BY <2>1, OutcomeType
  <2>3. cfg.cthread_put \/ PutCurrent'
    BY <1>1, <1>6, <2>2 DEF put, PutFrame, PutCurrent, PutOp
  <2> QED
    BY <1>1, <1>6, <2>1, <2>2, <2>3, PutWrites DEF put
<1>7. ASSUME NEW d \in Data, b_put(d) PROVE Inv'
  <2>1. cur.ready_push \in BOOLEAN /\ PutReq(cur.ready_push) \in BOOLEAN
    BY PutReqType
  <2>2. Outcome(cur.ready_push, d) \in Result
    BY <2>1, OutcomeType
  <2> QED
    BY <1>1, <1>7, <2>1, <2>2, PutWrites DEF b_put
<1> QED
  BY <1>3, <1>4, <1>5, <1>6, <1>7 DEF PutProc

-----------------------------------------------------------------------------
(* The calls of the GET process.                                             *)

\* A call of a GET process writes get_req only.
LEMMA GetWrites ==
    ASSUME Inv, GetRuns, GetFrame, NEW r \in BOOLEAN,
           nxt' = nxt \/ nxt' = [nxt EXCEPT !.get_req = r],
           get_ok' \in Result, blocked' \in [put : BOOLEAN, get : BOOLEAN],
           cfg.cthread_get \/ GetCurrent'
    PROVE  Inv'
<1>1. nxt \in Signals /\ AsyncInv /\ PutInv /\ GetInv
  BY DEF Inv, TypeOK
<1>2. nxt' \in Signals
  BY <1>1 DEF Signals
<1>3. TypeOK'
  BY <1>2 DEF Inv, TypeOK, GetRuns, GetFrame
<1>4. /\ nxt'.out_valid = nxt.out_valid /\ nxt'.data_out = nxt.data_out
      /\ nxt'.ready_push = nxt.ready_push /\ nxt'.element_num = nxt.element_num
  BY <1>1 DEF Signals
<1>5. AsyncInv'
  BY <1>1, <1>4, AsyncKept DEF GetRuns, GetFrame
<1>6. PutInv'
  BY <1>1, PutKept DEF GetRuns, GetFrame
<1>7. GetInv'
  BY DEF GetInv, GetFrame
<1> QED
  BY <1>3, <1>5, <1>6, <1>7 DEF Inv

\* What a call writes to get_req is a Boolean, whatever the process kind.
LEMMA GetReqType ==
    ASSUME Inv, NEW does \in BOOLEAN
    PROVE  GetReq(does) \in BOOLEAN /\ cur.out_valid \in BOOLEAN
           /\ cur.data_out \in Data
  BY DEF Inv, TypeOK, Signals, GetReq

\* Every call of the GET process keeps the invariant; a method returns what the
\* present values of out_valid and data_out say.
LEMMA GetStep == ASSUME Inv, GetProc PROVE Inv'
<1>1. blocked \in [put : BOOLEAN, get : BOOLEAN] /\ cfg \in Config
  BY ConfigsAssumption DEF Inv, TypeOK
<1>2. Nothing \in Result /\ Nothing.done = FALSE
  BY DataAssumption, OutcomeType
<1>3. CASE reset_get
  BY <1>1, <1>2, <1>3, GetWrites DEF reset_get
<1>4. CASE get_idle
  BY <1>1, <1>2, <1>4, GetWrites DEF get_idle
<1>5. CASE clear_get
  <2>1. GetReq(FALSE) \in BOOLEAN
    BY GetReqType
  <2>2. cfg.cthread_get \/ GetCurrent'
    BY <1>1, <1>2, <1>5 DEF clear_get, GetFrame, GetCurrent
  <2> QED
    BY <1>1, <1>2, <1>5, <2>1, <2>2, GetWrites DEF clear_get
<1>6. ASSUME NEW enable \in BOOLEAN, get(enable),
             (IF enable THEN "get" ELSE "mask") \in GetOp
      PROVE  Inv'
  <2> DEFINE does == cur.out_valid /\ enable
  <2>1. does \in BOOLEAN /\ GetReq(does) \in BOOLEAN /\ cur.data_out \in Data
    BY GetReqType
  <2>2. /\ Outcome(does, cur.data_out) \in Result
        /\ Outcome(does, cur.data_out).done = does
        /\ does => Outcome(does, cur.data_out).data = cur.data_out
    BY <2>1, OutcomeType
  <2>3. cfg.cthread_get \/ GetCurrent'
    BY <1>1, <1>6, <2>2 DEF get, GetFrame, GetCurrent, GetOp
  <2> QED
    BY <1>1, <1>6, <2>1, <2>2, <2>3, GetWrites DEF get
<1>7. CASE b_get
  <2>1. cur.out_valid \in BOOLEAN /\ GetReq(cur.out_valid) \in BOOLEAN
        /\ cur.data_out \in Data
    BY GetReqType
  <2>2. Outcome(cur.out_valid, cur.data_out) \in Result
    BY <2>1, OutcomeType
  <2> QED
    BY <1>1, <1>7, <2>1, <2>2, GetWrites DEF b_get
<1> QED
  BY <1>3, <1>4, <1>5, <1>6, <1>7 DEF GetProc

-----------------------------------------------------------------------------
(* Update phase and time.                                                    *)

\* asyncProc reads nothing that is missing from its sensitivity list.
LEMMA CombReads ==
    ASSUME NEW s, NEW t, ~Changed(s, t, AsyncSensitive)
    PROVE  CombOutputs(s) = CombOutputs(t)
<1>1. /\ s.data_in = t.data_in /\ s.put_req = t.put_req /\ s.get_req = t.get_req
      /\ s.pop_indx = t.pop_indx /\ s.element_num_d = t.element_num_d
      /\ s.put_req_d = t.put_req_d /\ s.get_req_d = t.get_req_d
      /\ s.buffer = t.buffer
  BY DEF Changed, AsyncSensitive
<1> QED
  BY <1>1 DEF CombOutputs, OutValid, PopIndx, ReadyPush, ElementNum, Push, Pop

\* The update phase wakes whoever read something that changed.
LEMMA UpdateStep == ASSUME Inv, Update PROVE Inv'
<1>1. /\ cfg \in Configs /\ cur \in Signals /\ nxt \in Signals
      /\ put_ok \in Result /\ get_ok \in Result /\ q \in Seq(Data)
      /\ op \in [put : Result, get : Result]
  BY DEF Inv, TypeOK
<1>2. /\ runnable = {} /\ cur' = nxt /\ nxt' = nxt /\ runnable' = Woken(cur, nxt)
      /\ edge' = "none" /\ UNCHANGED <<cfg, rst, put_ok, get_ok, blocked, resets>>
  BY DEF Update
<1>3. q' \in Seq(Data) /\ op' \in [put : Result, get : Result]
  <2>1. Offered \in Seq(Data)
    BY <1>1 DEF Offered, Result
  <2>2. Committed \in Seq(Data)
    BY <2>1 DEF Committed
  <2>3. Nothing \in Result
    BY DataAssumption, OutcomeType
  <2>4. \/ UNCHANGED <<q, op>>
        \/ q' = <<>> /\ op' = [put |-> Nothing, get |-> Nothing]
        \/ q' = Committed /\ op' = [put |-> put_ok, get |-> get_ok]
    BY DEF Update
  <2>5. q' \in Seq(Data)
    <3>1. q' = q \/ q' = <<>> \/ q' = Committed
      BY <2>4
    <3> QED
      BY <1>1, <2>2, <3>1, EmptySeq
  <2>6. op' \in [put : Result, get : Result]
    BY <1>1, <2>3, <2>4
  <2> QED
    BY <2>5, <2>6
<1>4. TypeOK'
  <2>1. runnable' \subseteq {"asyncProc", "syncProc", "put", "get"}
    BY <1>2 DEF Woken
  <2> QED
    BY <1>1, <1>2, <1>3, <2>1 DEF Inv, TypeOK
<1>5. AsyncInv'
  <2> SUFFICES ASSUME "asyncProc" \notin runnable' PROVE OutputsCurrent'
    BY DEF AsyncInv
  <2>1. ~Changed(cur, nxt, AsyncSensitive)
    BY <1>2 DEF Woken
  <2>2. CombOutputs(nxt) = CombOutputs(cur)
    BY <2>1, CombReads
  <2>3. (CombOutputs(cur))' = CombOutputs(nxt)
    BY <1>2 DEF CombOutputs, OutValid, PopIndx, ReadyPush, ElementNum, Push, Pop,
                NextIndx
  <2>4. OutputsCurrent
    BY <1>2 DEF Inv, AsyncInv
  <2> QED
    BY <1>2, <2>2, <2>3, <2>4 DEF OutputsCurrent
<1>6. PutInv'
  <2> SUFFICES ASSUME ~cfg.cthread_put, "put" \notin runnable' PROVE PutCurrent'
    BY <1>2 DEF PutInv
  <2>1. ~Changed(cur, nxt, PutSensitive)
    BY <1>2 DEF Woken
  <2>2. nxt.put_op = cur.put_op /\ nxt.ready_push = cur.ready_push
    BY <2>1 DEF Changed, PutSensitive
  <2> QED
    BY <1>2, <2>2 DEF Inv, PutInv, PutCurrent
<1>7. GetInv'
  <2> SUFFICES ASSUME ~cfg.cthread_get, "get" \notin runnable' PROVE GetCurrent'
    BY <1>2 DEF GetInv
  <2>1. ~Changed(cur, nxt, GetSensitive)
    BY <1>2 DEF Woken
  <2>2. /\ nxt.get_op = cur.get_op /\ nxt.out_valid = cur.out_valid
        /\ nxt.data_out = cur.data_out
    BY <2>1 DEF Changed, GetSensitive
  <2> QED
    BY <1>2, <2>2 DEF Inv, GetInv, GetCurrent
<1> QED
  BY <1>4, <1>5, <1>6, <1>7 DEF Inv

\* Time advances only in a settled state: every result is current and stays so.
LEMMA TimeStep ==
    ASSUME Inv, ClockEdge \/ AssertReset \/ ReleaseReset
    PROVE  Inv'
<1>1. /\ nxt \in Signals /\ AsyncInv /\ PutInv /\ GetInv /\ runnable = {}
      /\ UNCHANGED <<cfg, cur, put_ok, get_ok, blocked, q, op>>
  BY DEF Inv, TypeOK, ClockEdge, AssertReset, ReleaseReset, Settled
<1>2. nxt' \in Signals /\ nxt'.out_valid = nxt.out_valid /\ nxt'.data_out = nxt.data_out
      /\ nxt'.ready_push = nxt.ready_push /\ nxt'.element_num = nxt.element_num
  <2>1. CASE ClockEdge
    <3>1. PICK po \in IF cfg.cthread_put THEN {"clear"} ELSE PutOps \ {"idle", "b_put"},
               pv \in IF cfg.cthread_put THEN {ZERO} ELSE Data,
               go \in IF cfg.cthread_get THEN {"clear"} ELSE GetOps \ {"idle", "b_get"} :
               nxt' = [nxt EXCEPT !.put_op = po, !.put_val = pv, !.get_op = go]
      BY <2>1 DEF ClockEdge
    <3>2. po \in PutOpKinds /\ pv \in Data /\ go \in GetOpKinds
      BY OpsAssumption, DataAssumption DEF PutOpKinds, GetOpKinds
    <3> QED
      BY <1>1, <3>1, <3>2 DEF Signals
  <2>2. CASE AssertReset \/ ReleaseReset
    BY <1>1, <2>2 DEF AssertReset, ReleaseReset
  <2> QED
    BY <2>1, <2>2
<1>3. /\ rst' \in BOOLEAN /\ edge' \in {"none", "clock", "reset"}
      /\ runnable' \subseteq {"asyncProc", "syncProc", "put", "get"}
      /\ resets' \in 0 .. MaxResets
  <2>1. rst \in BOOLEAN /\ edge \in {"none", "clock", "reset"} /\ resets \in 0 .. MaxResets
    BY DEF Inv, TypeOK
  <2>2. CASE ClockEdge
    BY <2>1, <2>2 DEF ClockEdge, Threads
  <2>3. CASE AssertReset
    BY <2>1, <2>3, MaxResetsAssumption DEF AssertReset, Threads
  <2>4. CASE ReleaseReset
    BY <1>1, <2>1, <2>4 DEF ReleaseReset
  <2> QED
    BY <2>2, <2>3, <2>4
<1>4. TypeOK'
  BY <1>1, <1>2, <1>3 DEF Inv, TypeOK
<1>5. AsyncInv'
  BY <1>1, <1>2, AsyncKept
<1>6. PutInv' /\ GetInv'
  BY <1>1, PutKept, GetKept
<1> QED
  BY <1>4, <1>5, <1>6 DEF Inv

-----------------------------------------------------------------------------
(* Settled results.                                                          *)

\* Signals of the simulated FIFO keep their types, the counter included, for
\* every length; at the end of a time step asyncProc's outputs, and what PUT and
\* GET methods returned, are what a further run of them would give: no
\* sensitivity list misses a signal.
THEOREM SimulationSettles == Spec => [](TypeOK /\ OutputsSettled /\ MethodsSettled)
<1>1. Inv /\ [Next]_vars => Inv'
  <2> SUFFICES ASSUME Inv, [Next]_vars PROVE Inv'
    OBVIOUS
  <2>1. CASE UNCHANGED vars
    BY <2>1 DEF vars, Inv, TypeOK, AsyncInv, PutInv, GetInv, OutputsCurrent,
                PutCurrent, GetCurrent, CombOutputs, OutValid, PopIndx, ReadyPush,
                ElementNum, Push, Pop, NextIndx
  <2>2. CASE Evaluate
    BY <2>2, AsyncStep, SyncStep, PutStep, GetStep DEF Evaluate
  <2> QED
    BY <2>1, <2>2, UpdateStep, TimeStep DEF Next
<1>2. Inv => TypeOK /\ OutputsSettled /\ MethodsSettled
  <2> SUFFICES ASSUME Inv PROVE TypeOK /\ OutputsSettled /\ MethodsSettled
    OBVIOUS
  <2>1. OutputsSettled
    BY DEF Inv, AsyncInv, OutputsCurrent, OutputsSettled, Settled, CombOutputs
  <2>2. MethodsSettled
    BY DEF Inv, PutInv, GetInv, PutCurrent, GetCurrent, MethodsSettled, Settled
  <2> QED
    BY <2>1, <2>2 DEF Inv
<1> QED
  BY InitInv, <1>1, <1>2, PTL DEF Spec

-----------------------------------------------------------------------------
(* The queue in the registers.  A thread's request is performed a clock edge *)
(* after the call that made it returned, so the elements a user knows of are *)
(* in the ring with the pending push and the pending pop already applied.    *)

TPush(s) == cfg.cthread_put /\ Push(s)
TPop(s) == cfg.cthread_get /\ Pop(s)
Count(s) == s.element_num_d + (IF TPush(s) THEN 1 ELSE 0) - (IF TPop(s) THEN 1 ELSE 0)
First(s) == IF TPop(s) THEN NextIndx(s.pop_indx) ELSE s.pop_indx
Free(s) == IF TPush(s) THEN NextIndx(s.push_indx) ELSE s.push_indx
Slots(s) == IF TPush(s) THEN [s.buffer EXCEPT ![s.push_indx] = s.data_in] ELSE s.buffer

\* The counter is within bounds, a pending request can be performed, and the
\* push index is element_num_d slots after the pop index, round the ring.
RegsAgree(s) ==
    /\ s.element_num_d \in 0 .. LENGTH
    /\ TPush(s) => s.element_num_d # LENGTH
    /\ TPop(s) => s.element_num_d # 0
    /\ \/ s.push_indx = s.pop_indx + s.element_num_d
       \/ s.push_indx + LENGTH = s.pop_indx + s.element_num_d

\* Sequence s is held in the n slots of ring b from slot p on.
Slot(p, k) == IF p + k < LENGTH THEN p + k ELSE p + k - LENGTH
HeldIn(s, b, p, n) == Len(s) = n /\ \A k \in 1 .. n : s[k] = b[Slot(p, k - 1)]

Stored == RegsAgree(cur) /\ HeldIn(q, Slots(cur), First(cur), Count(cur))

\* A PUT or GET method writes the request that fits what it returned.
MethodRequests ==
    /\ ~cfg.cthread_put => /\ nxt.put_req = put_ok.done
                           /\ put_ok.done => nxt.data_in = put_ok.data
    /\ ~cfg.cthread_get => nxt.get_req = get_ok.done

SameRegs(s, t) ==
    /\ t.pop_indx = s.pop_indx /\ t.push_indx = s.push_indx
    /\ t.element_num_d = s.element_num_d /\ t.buffer = s.buffer
    /\ t.put_req_d = s.put_req_d /\ t.get_req_d = s.get_req_d

\* Between clock edges only methods run, and they write no register.
DeltaPhase ==
    edge = "none" =>
        /\ runnable \cap Threads = {}
        /\ SameRegs(cur, nxt)
        /\ cfg.cthread_put => nxt.put_req = cur.put_req /\ nxt.data_in = cur.data_in
        /\ cfg.cthread_get => nxt.get_req = cur.get_req

\* In reset a thread that has run has cleared what it drives.
ResetPhase ==
    edge # "none" /\ rst =>
        /\ "syncProc" \notin runnable =>
              /\ nxt.pop_indx = 0 /\ nxt.push_indx = 0 /\ nxt.element_num_d = 0
              /\ cfg.cthread_put => nxt.put_req_d = FALSE
              /\ cfg.cthread_get => nxt.get_req_d = FALSE
              /\ \A i \in Indx : i = 0 \/ cfg.INIT_BUFFER => nxt.buffer[i] = ZERO
        /\ cfg.cthread_put /\ "put" \notin runnable => nxt.put_req = FALSE
        /\ cfg.cthread_get /\ "get" \notin runnable => nxt.get_req = FALSE

\* What syncProc has made of the registers at this clock edge.
Clocked ==
    /\ nxt.pop_indx = IF Pop(cur) THEN NextIndx(cur.pop_indx) ELSE cur.pop_indx
    /\ nxt.push_indx = IF Push(cur) THEN NextIndx(cur.push_indx) ELSE cur.push_indx
    /\ nxt.buffer = IF Push(cur) THEN [cur.buffer EXCEPT ![cur.push_indx] = cur.data_in]
                                 ELSE cur.buffer
    /\ nxt.element_num_d = cur.element_num
    /\ cfg.cthread_put => nxt.put_req_d = cur.put_req
    /\ cfg.cthread_get => nxt.get_req_d = cur.get_req

\* What the calls of the PUT and GET threads have made of the requests.
PutCalled == /\ put_ok.done = (nxt.put_req # cur.put_req)
             /\ put_ok.done => cur.ready_push /\ nxt.data_in = put_ok.data
GetCalled == /\ get_ok.done = (nxt.get_req # cur.get_req)
             /\ get_ok.done => cur.out_valid /\ get_ok.data = cur.data_out

\* At a clock edge out of reset only threads run, in any order, and all of them
\* see the outputs that asyncProc settled before the edge.
ClockPhase ==
    edge # "none" /\ ~rst =>
        /\ runnable \subseteq Threads
        /\ LET out == CombOutputs(cur) IN
           /\ cur.out_valid = out.out_valid /\ cur.data_out = out.data_out
           /\ cur.ready_push = out.ready_push /\ cur.element_num = out.element_num
        /\ IF "syncProc" \in runnable THEN SameRegs(cur, nxt) ELSE Clocked
        /\ IF cfg.cthread_put /\ "put" \notin runnable THEN PutCalled
           ELSE nxt.put_req = cur.put_req /\ nxt.data_in = cur.data_in
        /\ IF cfg.cthread_get /\ "get" \notin runnable THEN GetCalled
           ELSE nxt.get_req = cur.get_req

Phase == MethodRequests /\ DeltaPhase /\ ResetPhase /\ ClockPhase
SimInv == Inv /\ Phase /\ Stored

-----------------------------------------------------------------------------
(* The phases of a time step.                                                *)

\* asyncProc runs in no clock edge out of reset, and writes outputs only.
LEMMA AsyncPhase == ASSUME Inv, Phase, asyncProc PROVE Phase'
<1>1. nxt \in Signals /\ cfg \in Config
  BY ConfigsAssumption DEF Inv, TypeOK
<1>2. /\ "asyncProc" \in runnable /\ runnable' = runnable \ {"asyncProc"}
      /\ UNCHANGED <<cfg, cur, rst, edge, put_ok, get_ok>>
  BY DEF asyncProc
<1> DEFINE out == CombOutputs(cur)
<1>3. nxt' = [nxt EXCEPT !.out_valid = out.out_valid, !.data_out = out.data_out,
                         !.ready_push = out.ready_push,
                         !.element_num = out.element_num]
  BY DEF asyncProc
<1> HIDE DEF out
<1>4. SameRegs(nxt, nxt') /\ nxt'.put_req = nxt.put_req /\ nxt'.data_in = nxt.data_in
      /\ nxt'.get_req = nxt.get_req
  BY <1>1, <1>3 DEF Signals, SameRegs
<1>5. edge = "none" \/ rst
  BY <1>2 DEF Phase, ClockPhase, Threads
<1>6. MethodRequests'
  BY <1>2, <1>4 DEF Phase, MethodRequests
<1>7. DeltaPhase'
  BY <1>2, <1>4 DEF Phase, DeltaPhase, SameRegs, Threads
<1>8. ResetPhase'
  BY <1>2, <1>4 DEF Phase, ResetPhase, SameRegs
<1>9. ClockPhase'
  BY <1>2, <1>5 DEF ClockPhase
<1> QED
  BY <1>6, <1>7, <1>8, <1>9 DEF Phase

\* syncProc clears the registers, or performs the requests made before the edge.
LEMMA SyncPhase == ASSUME Inv, Phase, syncProc PROVE Phase'
<1>1. nxt \in Signals /\ cur \in Signals /\ cfg \in Configs /\ cfg \in Config
      /\ rst \in BOOLEAN
  BY ConfigsAssumption DEF Inv, TypeOK
<1>2. /\ "syncProc" \in runnable /\ runnable' = runnable \ {"syncProc"}
      /\ UNCHANGED <<cfg, cur, rst, edge, put_ok, get_ok>>
      /\ nxt' = IF rst THEN SyncReset(nxt) ELSE SyncCycle(cur, nxt)
  BY DEF syncProc
<1>3. edge # "none"
  BY <1>2 DEF Phase, DeltaPhase, Threads
<1>4. nxt'.put_req = nxt.put_req /\ nxt'.data_in = nxt.data_in
      /\ nxt'.get_req = nxt.get_req
  <2>1. CASE rst
    BY <1>1, <1>2, <2>1 DEF SyncReset, Signals
  <2>2. CASE ~rst
    BY <1>1, <1>2, <2>2 DEF SyncCycle, Signals
  <2> QED
    BY <2>1, <2>2
<1>5. MethodRequests'
  BY <1>2, <1>4 DEF Phase, MethodRequests
<1>6. DeltaPhase'
  BY <1>2, <1>3 DEF DeltaPhase
<1>7. ResetPhase'
  <2> SUFFICES ASSUME rst PROVE ResetPhase'
    BY <1>2 DEF ResetPhase
  <2> DEFINE cleared == [i \in Indx |-> IF i = 0 \/ cfg.INIT_BUFFER THEN ZERO
                                        ELSE nxt.buffer[i]]
  <2>1. /\ nxt'.pop_indx = 0 /\ nxt'.push_indx = 0 /\ nxt'.element_num_d = 0
        /\ cfg.cthread_put => nxt'.put_req_d = FALSE
        /\ cfg.cthread_get => nxt'.get_req_d = FALSE
        /\ nxt'.buffer = cleared
    BY <1>1, <1>2 DEF SyncReset, Signals
  <2>2. \A i \in Indx : i = 0 \/ cfg.INIT_BUFFER => nxt'.buffer[i] = ZERO
    BY <2>1
  <2>3. /\ cfg.cthread_put /\ "put" \notin runnable' => nxt'.put_req = FALSE
        /\ cfg.cthread_get /\ "get" \notin runnable' => nxt'.get_req = FALSE
    BY <1>2, <1>3, <1>4 DEF Phase, ResetPhase
  <2> QED
    BY <1>2, <2>1, <2>2, <2>3 DEF ResetPhase
<1>8. ClockPhase'
  <2> SUFFICES ASSUME ~rst PROVE ClockPhase'
    BY <1>2 DEF ClockPhase
  <2>1. SameRegs(cur, nxt) /\ runnable \subseteq Threads
    BY <1>2, <1>3 DEF Phase, ClockPhase
  <2>2. Clocked'
    <3>1. /\ Push(cur)' = Push(cur) /\ Pop(cur)' = Pop(cur)
      BY <1>2 DEF Push, Pop
    <3>2. /\ nxt'.pop_indx = IF Pop(cur) THEN NextIndx(cur.pop_indx) ELSE nxt.pop_indx
          /\ nxt'.push_indx = IF Push(cur) THEN NextIndx(cur.push_indx) ELSE nxt.push_indx
          /\ nxt'.buffer = IF Push(cur)
                           THEN [nxt.buffer EXCEPT ![cur.push_indx] = cur.data_in]
                           ELSE nxt.buffer
          /\ nxt'.element_num_d = cur.element_num
          /\ nxt'.put_req_d = (IF cfg.cthread_put THEN cur.put_req ELSE nxt.put_req_d)
          /\ nxt'.get_req_d = (IF cfg.cthread_get THEN cur.get_req ELSE nxt.get_req_d)
      BY <1>1, <1>2 DEF SyncCycle, Signals
    <3> QED
      BY <1>2, <2>1, <3>1, <3>2 DEF Clocked, SameRegs, NextIndx
  <2>3. LET out == CombOutputs(cur) IN
        /\ cur.out_valid = out.out_valid /\ cur.data_out = out.data_out
        /\ cur.ready_push = out.ready_push /\ cur.element_num = out.element_num
    BY <1>3 DEF Phase, ClockPhase
  <2>4. (CombOutputs(cur))' = CombOutputs(cur)
    BY <1>2 DEF CombOutputs, OutValid, PopIndx, ReadyPush, ElementNum, Push, Pop, NextIndx
  <2>5. IF cfg.cthread_put /\ "put" \notin runnable' THEN PutCalled'
        ELSE nxt'.put_req = cur.put_req /\ nxt'.data_in = cur.data_in
    BY <1>2, <1>3, <1>4 DEF Phase, ClockPhase, PutCalled
  <2>6. IF cfg.cthread_get /\ "get" \notin runnable' THEN GetCalled'
        ELSE nxt'.get_req = cur.get_req
    BY <1>2, <1>3, <1>4 DEF Phase, ClockPhase, GetCalled
  <2>7. runnable' \subseteq Threads'
    BY <1>2, <2>1 DEF Threads
  <2> QED
    BY <1>2, <2>2, <2>3, <2>4, <2>5, <2>6, <2>7 DEF ClockPhase
<1> QED
  BY <1>5, <1>6, <1>7, <1>8 DEF Phase

\* A call of the PUT process writes the request that fits its result.
LEMMA PutPhase ==
    ASSUME Inv, Phase, PutRuns, PutFrame,
           SameRegs(nxt, nxt'), nxt'.get_req = nxt.get_req,
           ~cfg.cthread_put => /\ nxt'.put_req = put_ok'.done
                               /\ put_ok'.done => nxt'.data_in = put_ok'.data,
           cfg.cthread_put /\ rst => nxt'.put_req = FALSE,
           cfg.cthread_put /\ ~rst => PutCalled'
    PROVE  Phase'
<1>1. cfg \in Config
  BY ConfigsAssumption DEF Inv, TypeOK
<1>2. /\ "put" \in runnable /\ runnable' = runnable \ {"put"}
      /\ UNCHANGED <<cfg, cur, rst, edge, get_ok>>
  BY DEF PutRuns, PutFrame
<1>3. cfg.cthread_put => edge # "none"
  BY <1>2 DEF Phase, DeltaPhase, Threads
<1>4. ~cfg.cthread_put => edge = "none" \/ rst
  BY <1>2 DEF Phase, ClockPhase, Threads
<1>5. MethodRequests'
  BY <1>2 DEF Phase, MethodRequests
<1>6. DeltaPhase'
  BY <1>2, <1>3 DEF Phase, DeltaPhase, SameRegs, Threads
<1>7. ResetPhase'
  BY <1>2 DEF Phase, ResetPhase, SameRegs
<1>8. ClockPhase'
  <2> SUFFICES ASSUME edge # "none", ~rst PROVE ClockPhase'
    BY <1>2 DEF ClockPhase
  <2>1. cfg.cthread_put /\ PutCalled'
    BY <1>4
  <2>2. runnable' \subseteq Threads'
    BY <1>2 DEF Phase, ClockPhase, Threads
  <2>3. IF "syncProc" \in runnable' THEN SameRegs(cur, nxt)' ELSE Clocked'
    BY <1>2 DEF Phase, ClockPhase, SameRegs, Clocked, Push, Pop, NextIndx
  <2>4. LET out == CombOutputs(cur) IN
        /\ cur.out_valid = out.out_valid /\ cur.data_out = out.data_out
        /\ cur.ready_push = out.ready_push /\ cur.element_num = out.element_num
    BY DEF Phase, ClockPhase
  <2>5. (CombOutputs(cur))' = CombOutputs(cur)
    BY <1>2 DEF CombOutputs, OutValid, PopIndx, ReadyPush, ElementNum, Push, Pop, NextIndx
  <2>6. IF cfg.cthread_get /\ "get" \notin runnable' THEN GetCalled'
        ELSE nxt'.get_req = cur.get_req
    BY <1>2 DEF Phase, ClockPhase, GetCalled
  <2> QED
    BY <1>2, <2>1, <2>2, <2>3, <2>4, <2>5, <2>6 DEF ClockPhase
<1> QED
  BY <1>5, <1>6, <1>7, <1>8 DEF Phase

\* A call of the GET process writes the request that fits its result.
LEMMA GetPhase ==
    ASSUME Inv, Phase, GetRuns, GetFrame,
           SameRegs(nxt, nxt'), nxt'.put_req = nxt.put_req, nxt'.data_in = nxt.data_in,
           ~cfg.cthread_get => nxt'.get_req = get_ok'.done,
           cfg.cthread_get /\ rst => nxt'.get_req = FALSE,
           cfg.cthread_get /\ ~rst => GetCalled'
    PROVE  Phase'
<1>1. cfg \in Config
  BY ConfigsAssumption DEF Inv, TypeOK
<1>2. /\ "get" \in runnable /\ runnable' = runnable \ {"get"}
      /\ UNCHANGED <<cfg, cur, rst, edge, put_ok>>
  BY DEF GetRuns, GetFrame
<1>3. cfg.cthread_get => edge # "none"
  BY <1>2 DEF Phase, DeltaPhase, Threads
<1>4. ~cfg.cthread_get => edge = "none" \/ rst
  BY <1>2 DEF Phase, ClockPhase, Threads
<1>5. MethodRequests'
  BY <1>2 DEF Phase, MethodRequests
<1>6. DeltaPhase'
  BY <1>2, <1>3 DEF Phase, DeltaPhase, SameRegs, Threads
<1>7. ResetPhase'
  BY <1>2 DEF Phase, ResetPhase, SameRegs
<1>8. ClockPhase'
  <2> SUFFICES ASSUME edge # "none", ~rst PROVE ClockPhase'
    BY <1>2 DEF ClockPhase
  <2>1. cfg.cthread_get /\ GetCalled'
    BY <1>4
  <2>2. runnable' \subseteq Threads'
    BY <1>2 DEF Phase, ClockPhase, Threads
  <2>3. IF "syncProc" \in runnable' THEN SameRegs(cur, nxt)' ELSE Clocked'
    BY <1>2 DEF Phase, ClockPhase, SameRegs, Clocked, Push, Pop, NextIndx
  <2>4. LET out == CombOutputs(cur) IN
        /\ cur.out_valid = out.out_valid /\ cur.data_out = out.data_out
        /\ cur.ready_push = out.ready_push /\ cur.element_num = out.element_num
    BY DEF Phase, ClockPhase
  <2>5. (CombOutputs(cur))' = CombOutputs(cur)
    BY <1>2 DEF CombOutputs, OutValid, PopIndx, ReadyPush, ElementNum, Push, Pop, NextIndx
  <2>6. IF cfg.cthread_put /\ "put" \notin runnable' THEN PutCalled'
        ELSE nxt'.put_req = cur.put_req /\ nxt'.data_in = cur.data_in
    BY <1>2 DEF Phase, ClockPhase, PutCalled
  <2> QED
    BY <1>2, <2>1, <2>2, <2>3, <2>4, <2>5, <2>6 DEF ClockPhase
<1> QED
  BY <1>5, <1>6, <1>7, <1>8 DEF Phase

\* Every call of the PUT process, from its result to its request: a thread
\* toggles put_req exactly when the call returns true.
LEMMA PutCallPhase == ASSUME Inv, Phase, PutProc PROVE Phase'
<1>1. /\ cfg \in Config /\ nxt \in Signals /\ cur \in Signals /\ ZERO \in Data
      /\ put_ok \in Result /\ rst \in BOOLEAN
  BY ConfigsAssumption, DataAssumption DEF Inv, TypeOK
<1>2. /\ cur.put_req \in BOOLEAN /\ nxt.put_req \in BOOLEAN /\ cur.ready_push \in BOOLEAN
      /\ cfg.cthread_put \in BOOLEAN
  BY <1>1 DEF Signals, Config
<1>3. Nothing.done = FALSE
  BY DEF Nothing
<1>4. CASE reset_put
  <2>1. /\ SameRegs(nxt, nxt') /\ nxt'.get_req = nxt.get_req /\ nxt'.put_req = FALSE
    BY <1>1, <1>4 DEF reset_put, SameRegs, Signals
  <2> QED
    BY <1>4, <2>1, PutPhase DEF reset_put
<1>5. CASE put_idle
  <2>1. SameRegs(nxt, nxt') /\ nxt'.get_req = nxt.get_req /\ nxt'.put_req = nxt.put_req
    BY <1>5 DEF put_idle, SameRegs
  <2>2. nxt.put_req = cur.put_req
    <3>1. edge # "none" /\ "put" \in runnable /\ ~rst
      BY <1>5 DEF put_idle, PutRuns, Phase, DeltaPhase, Threads
    <3> QED
      BY <3>1 DEF Phase, ClockPhase
  <2>3. PutCalled'
    BY <1>3, <1>5, <2>1, <2>2 DEF put_idle, PutFrame, PutCalled
  <2> QED
    BY <1>5, <2>1, <2>3, PutPhase DEF put_idle
<1>6. ASSUME NEW does \in BOOLEAN, NEW d \in Data, PutRuns, PutFrame,
             nxt' = [nxt EXCEPT !.put_req = PutReq(does), !.data_in = d],
             put_ok' = Outcome(does, d), does => cur.ready_push,
             cfg.cthread_put => ~rst
      PROVE  Phase'
  <2> DEFINE r == PutReq(does)
  <2>1. /\ ~cfg.cthread_put => r = does
        /\ cfg.cthread_put => r = (IF does THEN ~cur.put_req ELSE cur.put_req)
        /\ r \in BOOLEAN
    BY <1>2 DEF PutReq
  <2> HIDE DEF r
  <2>2. nxt' = [nxt EXCEPT !.put_req = r, !.data_in = d]
    BY <1>6 DEF r
  <2>3. /\ SameRegs(nxt, nxt') /\ nxt'.get_req = nxt.get_req
        /\ nxt'.put_req = r /\ nxt'.data_in = d
    BY <1>1, <2>1, <2>2 DEF SameRegs, Signals
  <2>4. put_ok'.done = does /\ (does => put_ok'.data = d)
    BY <1>6, OutcomeType
  <2>5. cfg.cthread_put => does = (r # cur.put_req)
    BY <1>2, <2>1
  <2>6. cur' = cur
    BY <1>6 DEF PutFrame
  <2>7. cfg.cthread_put => PutCalled'
    BY <1>2, <1>6, <2>1, <2>3, <2>4, <2>5, <2>6 DEF PutCalled
  <2>8. ~cfg.cthread_put => /\ nxt'.put_req = put_ok'.done
                            /\ put_ok'.done => nxt'.data_in = put_ok'.data
    BY <2>1, <2>3, <2>4
  <2> QED
    BY <1>6, <2>3, <2>7, <2>8, PutPhase
<1>7. CASE clear_put
  <2>1. /\ PutRuns /\ PutFrame /\ put_ok' = Outcome(FALSE, ZERO)
        /\ nxt' = [nxt EXCEPT !.put_req = PutReq(FALSE), !.data_in = ZERO]
        /\ cfg.cthread_put => ~rst
    BY <1>7 DEF clear_put, Outcome
  <2> QED
    BY <1>1, <1>6, <2>1, Zenon
<1>8. ASSUME NEW d \in Data, NEW mask \in BOOLEAN, put(d, mask) PROVE Phase'
  <2> DEFINE does == cur.ready_push /\ mask
  <2>1. /\ PutRuns /\ PutFrame /\ put_ok' = Outcome(does, d)
        /\ nxt' = [nxt EXCEPT !.put_req = PutReq(does), !.data_in = d]
        /\ cfg.cthread_put => ~rst
    BY <1>8 DEF put
  <2>2. does \in BOOLEAN /\ (does => cur.ready_push)
    BY <1>2
  <2> HIDE DEF does
  <2> QED
    BY <1>6, <2>1, <2>2, Zenon
<1>9. ASSUME NEW d \in Data, b_put(d) PROVE Phase'
  <2> DEFINE does == cur.ready_push
  <2>1. /\ PutRuns /\ PutFrame /\ put_ok' = Outcome(does, d)
        /\ nxt' = [nxt EXCEPT !.put_req = PutReq(does), !.data_in = d]
        /\ cfg.cthread_put => ~rst
    BY <1>9 DEF b_put
  <2>2. does \in BOOLEAN /\ (does => cur.ready_push)
    BY <1>2
  <2> HIDE DEF does
  <2> QED
    BY <1>6, <2>1, <2>2, Zenon
<1> QED
  BY <1>4, <1>5, <1>7, <1>8, <1>9 DEF PutProc

\* Every call of the GET process likewise.
LEMMA GetCallPhase == ASSUME Inv, Phase, GetProc PROVE Phase'
<1>1. /\ cfg \in Config /\ nxt \in Signals /\ cur \in Signals
      /\ get_ok \in Result /\ rst \in BOOLEAN
  BY ConfigsAssumption DEF Inv, TypeOK
<1>2. /\ cur.get_req \in BOOLEAN /\ nxt.get_req \in BOOLEAN /\ cur.out_valid \in BOOLEAN
      /\ cfg.cthread_get \in BOOLEAN /\ cur.data_out \in Data
  BY <1>1 DEF Signals, Config
<1>3. Nothing.done = FALSE
  BY DEF Nothing
<1>4. CASE reset_get
  <2>1. /\ SameRegs(nxt, nxt') /\ nxt'.put_req = nxt.put_req
        /\ nxt'.data_in = nxt.data_in /\ nxt'.get_req = FALSE
    BY <1>1, <1>4 DEF reset_get, SameRegs, Signals
  <2> QED
    BY <1>4, <2>1, GetPhase DEF reset_get
<1>5. CASE get_idle
  <2>1. SameRegs(nxt, nxt') /\ nxt' = nxt
    BY <1>5 DEF get_idle, SameRegs
  <2>2. nxt.get_req = cur.get_req
    <3>1. edge # "none" /\ "get" \in runnable /\ ~rst
      BY <1>5 DEF get_idle, GetRuns, Phase, DeltaPhase, Threads
    <3> QED
      BY <3>1 DEF Phase, ClockPhase
  <2>3. GetCalled'
    BY <1>3, <1>5, <2>1, <2>2 DEF get_idle, GetFrame, GetCalled
  <2> QED
    BY <1>5, <2>1, <2>3, GetPhase DEF get_idle
<1>6. ASSUME NEW does \in BOOLEAN, NEW d \in Data, GetRuns, GetFrame,
             nxt' = [nxt EXCEPT !.get_req = GetReq(does)],
             get_ok' = Outcome(does, d), does => cur.out_valid /\ d = cur.data_out,
             cfg.cthread_get => ~rst
      PROVE  Phase'
  <2> DEFINE r == GetReq(does)
  <2>1. /\ ~cfg.cthread_get => r = does
        /\ cfg.cthread_get => r = (IF does THEN ~cur.get_req ELSE cur.get_req)
        /\ r \in BOOLEAN
    BY <1>2 DEF GetReq
  <2> HIDE DEF r
  <2>2. nxt' = [nxt EXCEPT !.get_req = r]
    BY <1>6 DEF r
  <2>3. /\ SameRegs(nxt, nxt') /\ nxt'.put_req = nxt.put_req
        /\ nxt'.data_in = nxt.data_in /\ nxt'.get_req = r
    BY <1>1, <2>1, <2>2 DEF SameRegs, Signals
  <2>4. get_ok'.done = does /\ (does => get_ok'.data = d)
    BY <1>6, OutcomeType
  <2>5. cfg.cthread_get => does = (r # cur.get_req)
    BY <1>2, <2>1
  <2>6. cur' = cur
    BY <1>6 DEF GetFrame
  <2>7. cfg.cthread_get => GetCalled'
    BY <1>2, <1>6, <2>1, <2>3, <2>4, <2>5, <2>6 DEF GetCalled
  <2>8. ~cfg.cthread_get => nxt'.get_req = get_ok'.done
    BY <2>1, <2>3, <2>4
  <2> QED
    BY <1>6, <2>3, <2>7, <2>8, GetPhase
<1>7. CASE clear_get
  <2>1. get_ok' = Outcome(FALSE, cur.data_out)
    BY <1>7 DEF clear_get, Outcome
  <2> QED
    BY <1>1, <1>2, <1>6, <1>7, <2>1 DEF clear_get
<1>8. ASSUME NEW enable \in BOOLEAN, get(enable) PROVE Phase'
  BY <1>2, <1>6, <1>8 DEF get
<1>9. CASE b_get
  BY <1>2, <1>6, <1>9 DEF b_get
<1> QED
  BY <1>4, <1>5, <1>7, <1>8, <1>9 DEF GetProc

\* After an update phase the next one starts with no register pending.
LEMMA UpdatePhase == ASSUME Inv, Phase, Update PROVE Phase'
<1>1. /\ runnable = {} /\ cur' = nxt /\ nxt' = nxt /\ runnable' = Woken(cur, nxt)
      /\ edge' = "none" /\ UNCHANGED <<cfg, rst, put_ok, get_ok>>
  BY DEF Update
<1>2. runnable' \cap Threads' = {}
  BY <1>1 DEF Woken, Threads
<1> QED
  BY <1>1, <1>2 DEF Phase, MethodRequests, DeltaPhase, ResetPhase, ClockPhase, SameRegs

\* A clock edge finds the outputs settled and wakes every thread.
LEMMA TimePhase ==
    ASSUME Inv, Phase, ClockEdge \/ AssertReset \/ ReleaseReset
    PROVE  Phase'
<1>1. /\ nxt \in Signals /\ runnable = {} /\ nxt = cur /\ edge = "none"
      /\ UNCHANGED <<cfg, cur, put_ok, get_ok>>
  BY DEF Inv, TypeOK, ClockEdge, AssertReset, ReleaseReset, Settled
<1>2. /\ SameRegs(nxt, nxt') /\ nxt'.put_req = nxt.put_req
      /\ nxt'.get_req = nxt.get_req /\ nxt'.data_in = nxt.data_in
  <2>1. CASE ClockEdge
    <3>1. PICK po \in IF cfg.cthread_put THEN {"clear"} ELSE PutOps \ {"idle", "b_put"},
               pv \in IF cfg.cthread_put THEN {ZERO} ELSE Data,
               go \in IF cfg.cthread_get THEN {"clear"} ELSE GetOps \ {"idle", "b_get"} :
               nxt' = [nxt EXCEPT !.put_op = po, !.put_val = pv, !.get_op = go]
      BY <2>1 DEF ClockEdge
    <3> QED
      BY <1>1, <3>1 DEF Signals, SameRegs
  <2>2. CASE AssertReset \/ ReleaseReset
    BY <1>1, <2>2 DEF AssertReset, ReleaseReset, SameRegs
  <2> QED
    BY <2>1, <2>2
<1>3. MethodRequests'
  BY <1>1, <1>2 DEF Phase, MethodRequests
<1>4. CASE ReleaseReset
  <2>1. runnable' = runnable /\ edge' = edge /\ nxt' = nxt
    BY <1>4 DEF ReleaseReset
  <2>2. DeltaPhase'
    BY <1>1, <2>1 DEF Phase, DeltaPhase, SameRegs, Threads
  <2> QED
    BY <1>1, <1>3, <2>1, <2>2 DEF Phase, ResetPhase, ClockPhase
<1>5. CASE ClockEdge \/ AssertReset
  <2>1. runnable' = Threads /\ edge' # "none" /\ Threads' = Threads
    <3>1. runnable' = Threads /\ edge' \in {"clock", "reset"}
      BY <1>5 DEF ClockEdge, AssertReset
    <3> QED
      BY <1>1, <3>1 DEF Threads
  <2>2. DeltaPhase'
    BY <2>1 DEF DeltaPhase
  <2>3. ResetPhase'
    BY <1>1, <2>1 DEF ResetPhase, Threads
  <2>4. OutputsCurrent
    BY <1>1 DEF Inv, AsyncInv
  <2>5. (CombOutputs(cur))' = CombOutputs(cur)
    BY <1>1 DEF CombOutputs, OutValid, PopIndx, ReadyPush, ElementNum, Push, Pop, NextIndx
  <2>6. /\ "syncProc" \in Threads /\ (cfg.cthread_put => "put" \in Threads)
        /\ (cfg.cthread_get => "get" \in Threads)
    BY DEF Threads
  <2>7. ClockPhase'
    BY <1>1, <1>2, <2>1, <2>4, <2>5, <2>6 DEF ClockPhase, OutputsCurrent, SameRegs
  <2> QED
    BY <1>3, <2>2, <2>3, <2>7 DEF Phase
<1> QED
  BY <1>4, <1>5

-----------------------------------------------------------------------------
(* The clock edge.                                                           *)

\* Both indices move round the ring in step with the number of elements.
LEMMA IndexStep ==
    ASSUME NEW p \in Indx, NEW i \in Indx, NEW n \in 0 .. LENGTH,
           i = p + n \/ i + LENGTH = p + n,
           NEW push \in BOOLEAN, NEW pop \in BOOLEAN,
           push /\ ~pop => n # LENGTH, pop /\ ~push => n # 0,
           NEW z, z = IF pop THEN NextIndx(p) ELSE p,
           NEW j, j = IF push THEN NextIndx(i) ELSE i,
           NEW m, m = n + (IF push THEN 1 ELSE 0) - (IF pop THEN 1 ELSE 0)
    PROVE  z \in Indx /\ j \in Indx /\ m \in 0 .. LENGTH
           /\ (j = z + m \/ j + LENGTH = z + m)
<1>1. LENGTH \in Nat \ {0}
  BY LengthAssumption
<1> QED
  BY <1>1 DEF NextIndx, Indx

\* The ring with the pending requests applied is well formed.
LEMMA Mapped ==
    ASSUME cfg \in Configs, NEW s \in Signals, RegsAgree(s)
    PROVE  /\ TPush(s) \in BOOLEAN /\ TPop(s) \in BOOLEAN
           /\ First(s) \in Indx /\ Free(s) \in Indx /\ Count(s) \in 0 .. LENGTH
           /\ Free(s) = First(s) + Count(s) \/ Free(s) + LENGTH = First(s) + Count(s)
           /\ Slots(s) \in [Indx -> Data]
<1>1. TPush(s) \in BOOLEAN /\ TPop(s) \in BOOLEAN
  BY DEF TPush, TPop
<1>2. /\ s.pop_indx \in Indx /\ s.push_indx \in Indx /\ s.data_in \in Data
      /\ s.buffer \in [Indx -> Data]
  BY DEF Signals
<1>3. Slots(s) \in [Indx -> Data]
  BY <1>1, <1>2 DEF Slots
<1>4. /\ s.element_num_d \in 0 .. LENGTH
      /\ TPush(s) => s.element_num_d # LENGTH
      /\ TPop(s) => s.element_num_d # 0
      /\ \/ s.push_indx = s.pop_indx + s.element_num_d
         \/ s.push_indx + LENGTH = s.pop_indx + s.element_num_d
  BY DEF RegsAgree
<1> DEFINE p == s.pop_indx
           i == s.push_indx
           n == s.element_num_d
           a == TPush(s)
           r == TPop(s)
<1>5. /\ First(s) = IF r THEN NextIndx(p) ELSE p
      /\ Free(s) = IF a THEN NextIndx(i) ELSE i
      /\ Count(s) = n + (IF a THEN 1 ELSE 0) - (IF r THEN 1 ELSE 0)
  BY DEF First, Free, Count
<1> HIDE DEF p, i, n, a, r
<1>6. /\ p \in Indx /\ i \in Indx /\ n \in 0 .. LENGTH /\ (i = p + n \/ i + LENGTH = p + n)
      /\ a \in BOOLEAN /\ r \in BOOLEAN /\ (a => n # LENGTH) /\ (r => n # 0)
  BY <1>1, <1>2, <1>4 DEF p, i, n, a, r, RegsAgree
<1>7. /\ First(s) \in Indx /\ Free(s) \in Indx /\ Count(s) \in 0 .. LENGTH
      /\ Free(s) = First(s) + Count(s) \/ Free(s) + LENGTH = First(s) + Count(s)
  BY <1>5, <1>6, IndexStep
<1> QED
  BY <1>1, <1>3, <1>7

\* A clock edge out of reset, when all threads have run: the ring with pending
\* requests applied moves by exactly what the calls returned to their callers.
LEMMA EdgeStep ==
    ASSUME SimInv, Update, edge # "none", ~rst
    PROVE  /\ RegsAgree(nxt)
           /\ Count(nxt) = Count(cur) + (IF put_ok.done THEN 1 ELSE 0)
                                      - (IF get_ok.done THEN 1 ELSE 0)
           /\ First(nxt) = IF get_ok.done THEN NextIndx(First(cur)) ELSE First(cur)
           /\ Free(nxt) = IF put_ok.done THEN NextIndx(Free(cur)) ELSE Free(cur)
           /\ Slots(nxt) = IF put_ok.done
                           THEN [Slots(cur) EXCEPT ![Free(cur)] = put_ok.data]
                           ELSE Slots(cur)
           /\ put_ok.done => Count(cur) # LENGTH \/ (get_ok.done /\ MakesRoom)
           /\ get_ok.done => Count(cur) # 0 \/ (put_ok.done /\ PassThrough)
           /\ get_ok.done => get_ok.data = IF Count(cur) # 0
                                           THEN Slots(cur)[First(cur)]
                                           ELSE put_ok.data
<1> DEFINE ct == cfg.cthread_put
           cg == cfg.cthread_get
           sv == cfg.SYNC_VALID
           sr == cfg.SYNC_READY
           push == Push(cur)
           pop == Pop(cur)
           pd == put_ok.done
           gd == get_ok.done
           e == cur.element_num_d
           m == cur.element_num
<1>1. /\ cfg \in Configs /\ cfg \in Config /\ cur \in Signals /\ nxt \in Signals
      /\ put_ok \in Result /\ get_ok \in Result /\ runnable = {}
      /\ RegsAgree(cur)
  BY ConfigsAssumption DEF SimInv, Inv, TypeOK, Stored, Update
<1>2. /\ ct \in BOOLEAN /\ cg \in BOOLEAN /\ sv \in BOOLEAN /\ sr \in BOOLEAN
      /\ push \in BOOLEAN /\ pop \in BOOLEAN /\ pd \in BOOLEAN /\ gd \in BOOLEAN
      /\ m \in 0 .. ElemNums - 1
      /\ cur.put_req \in BOOLEAN /\ nxt.put_req \in BOOLEAN /\ nxt.put_req_d \in BOOLEAN
      /\ cur.get_req \in BOOLEAN /\ nxt.get_req \in BOOLEAN /\ nxt.get_req_d \in BOOLEAN
      /\ cur.ready_push \in BOOLEAN /\ cur.out_valid \in BOOLEAN
      /\ cur.pop_indx \in Indx /\ cur.push_indx \in Indx
      /\ cur.buffer \in [Indx -> Data] /\ cur.data_in \in Data
  BY <1>1, RequestType DEF Config, Result, Signals
<1>3. /\ Clocked
      /\ IF ct THEN PutCalled ELSE nxt.put_req = cur.put_req /\ nxt.data_in = cur.data_in
      /\ IF cg THEN GetCalled ELSE nxt.get_req = cur.get_req
  BY <1>1 DEF SimInv, Phase, ClockPhase
<1>4. /\ cur.out_valid = CombOutputs(cur).out_valid
      /\ cur.data_out = CombOutputs(cur).data_out
      /\ cur.ready_push = CombOutputs(cur).ready_push
      /\ m = CombOutputs(cur).element_num
  BY DEF SimInv, Phase, ClockPhase
<1>5. /\ ~ct => (push <=> pd) /\ (pd => cur.ready_push) /\ (pd => cur.data_in = put_ok.data)
      /\ ~cg => (pop <=> gd) /\ (gd => cur.out_valid) /\ (gd => get_ok.data = cur.data_out)
  <2>1. ~ct => PutCurrent /\ push = cur.put_req
    BY <1>1, <1>2 DEF SimInv, Inv, PutInv, Push
  <2>2. ~cg => GetCurrent /\ pop = cur.get_req
    BY <1>1, <1>2 DEF SimInv, Inv, GetInv, Pop
  <2>3. MethodRequests
    BY DEF SimInv, Phase
  <2> QED
    BY <1>2, <1>3, <2>1, <2>2, <2>3 DEF MethodRequests, PutCurrent, GetCurrent
<1>6. /\ ct => (TPush(nxt) <=> pd) /\ (pd => cur.ready_push /\ nxt.data_in = put_ok.data)
      /\ cg => (TPop(nxt) <=> gd) /\ (gd => cur.out_valid /\ get_ok.data = cur.data_out)
      /\ ~ct => ~TPush(nxt) /\ ~TPush(cur)
      /\ ~cg => ~TPop(nxt) /\ ~TPop(cur)
      /\ ct => (TPush(cur) <=> push)
      /\ cg => (TPop(cur) <=> pop)
  <2>1. /\ ct => nxt.put_req_d = cur.put_req
        /\ cg => nxt.get_req_d = cur.get_req
    BY <1>3 DEF Clocked
  <2>2. ct => (TPush(nxt) <=> pd) /\ (pd => cur.ready_push /\ nxt.data_in = put_ok.data)
    BY <1>2, <1>3, <2>1 DEF PutCalled, TPush, Push
  <2>3. cg => (TPop(nxt) <=> gd) /\ (gd => cur.out_valid /\ get_ok.data = cur.data_out)
    BY <1>2, <1>3, <2>1 DEF GetCalled, TPop, Pop
  <2> QED
    BY <2>2, <2>3 DEF TPush, TPop
<1>7. /\ ct => (TPush(cur) <=> push)
      /\ cg => (TPop(cur) <=> pop)
  BY DEF TPush, TPop
<1>8. /\ e \in 0 .. LENGTH /\ (ct /\ push => e # LENGTH) /\ (cg /\ pop => e # 0)
      /\ cur.push_indx = cur.pop_indx + e \/ cur.push_indx + LENGTH = cur.pop_indx + e
  BY <1>1, <1>7 DEF RegsAgree
<1>9. pd => \/ ~sr /\ pop
            \/ e # LENGTH /\ (ct /\ push => e # LENGTH - 1)
  BY <1>2, <1>4, <1>5, <1>6 DEF CombOutputs, ReadyPush
<1>10. gd => \/ ~sv /\ push
             \/ e # 0 /\ (cg /\ pop => e # 1)
  BY <1>2, <1>4, <1>5, <1>6 DEF CombOutputs, OutValid
<1>11. m = IF pop /\ ~push THEN (e - 1) % ElemNums
           ELSE IF ~pop /\ push THEN (e + 1) % ElemNums ELSE e
  BY <1>2, <1>4 DEF CombOutputs, ElementNum
<1>12. Count(cur) = e + (IF ct /\ push THEN 1 ELSE 0) - (IF cg /\ pop THEN 1 ELSE 0)
  BY DEF Count, TPush, TPop
<1>13. /\ m = e + (IF push THEN 1 ELSE 0) - (IF pop THEN 1 ELSE 0)
       /\ m \in 0 .. LENGTH /\ Count(cur) \in 0 .. LENGTH
       /\ ct /\ pd => m # LENGTH
       /\ cg /\ gd => m # 0
       /\ pd => Count(cur) # LENGTH \/ (gd /\ ~cg /\ ~sr)
       /\ gd => Count(cur) # 0 \/ (pd /\ ~ct /\ ~sv)
       /\ m + (IF ct /\ pd THEN 1 ELSE 0) - (IF cg /\ gd THEN 1 ELSE 0)
            = Count(cur) + (IF pd THEN 1 ELSE 0) - (IF gd THEN 1 ELSE 0)
  <2> DEFINE n == Count(cur)
  <2>1. n = e + (IF ct /\ push THEN 1 ELSE 0) - (IF cg /\ pop THEN 1 ELSE 0)
    BY <1>12
  <2> HIDE DEF ct, cg, sv, sr, push, pop, pd, gd, e, m, n
  <2>2. (~ct => (push <=> pd)) /\ (~cg => (pop <=> gd))
    BY <1>5
  <2>3. /\ ct \in BOOLEAN /\ cg \in BOOLEAN /\ sv \in BOOLEAN /\ sr \in BOOLEAN
        /\ push \in BOOLEAN /\ pop \in BOOLEAN /\ pd \in BOOLEAN /\ gd \in BOOLEAN
        /\ m \in 0 .. ElemNums - 1
    BY <1>2
  <2>4. e \in 0 .. LENGTH /\ (ct /\ push => e # LENGTH) /\ (cg /\ pop => e # 0)
    BY <1>8
  <2>5. LENGTH \in Nat \ {0} /\ ElemNums \in Nat /\ ElemNums > LENGTH
    BY LengthAssumption, ElemNumsAssumption
  <2>6. pop /\ ~push => e # 0
    BY <1>10, <2>2, <2>3, <2>4
  <2>7. push /\ ~pop => e # LENGTH
    BY <1>9, <2>2, <2>3, <2>4
  <2>8. \A x \in 0 .. ElemNums - 1 : x % ElemNums = x
    BY <2>5
  <2>9. pop /\ ~push => m = e - 1
    <3>1. pop /\ ~push => e - 1 \in 0 .. ElemNums - 1
      BY <2>4, <2>5, <2>6
    <3> QED
      BY <1>11, <2>8, <3>1
  <2>10. push /\ ~pop => m = e + 1
    <3>1. push /\ ~pop => e + 1 \in 0 .. ElemNums - 1
      BY <2>4, <2>5, <2>7
    <3> QED
      BY <1>11, <2>8, <3>1
  <2>11. (push <=> pop) => m = e
    BY <1>11
  <2>12. m = e + (IF push THEN 1 ELSE 0) - (IF pop THEN 1 ELSE 0)
    BY <2>3, <2>4, <2>9, <2>10, <2>11
  <2>13. m \in 0 .. LENGTH /\ n \in 0 .. LENGTH
    BY <2>1, <2>3, <2>4, <2>5, <2>6, <2>7, <2>12
  <2>14. (ct /\ pd => m # LENGTH) /\ (cg /\ gd => m # 0)
    BY <1>9, <1>10, <2>2, <2>3, <2>4, <2>5, <2>12
  <2>15. /\ pd => n # LENGTH \/ (gd /\ ~cg /\ ~sr)
         /\ gd => n # 0 \/ (pd /\ ~ct /\ ~sv)
    BY <1>9, <1>10, <2>1, <2>2, <2>3, <2>4, <2>5
  <2>16. m + (IF ct /\ pd THEN 1 ELSE 0) - (IF cg /\ gd THEN 1 ELSE 0)
           = n + (IF pd THEN 1 ELSE 0) - (IF gd THEN 1 ELSE 0)
    BY <2>1, <2>2, <2>3, <2>4, <2>12
  <2> QED
    BY <2>12, <2>13, <2>14, <2>15, <2>16, Zenon DEF n
<1>14. nxt.element_num_d = m
  BY <1>3 DEF Clocked
<1>15. Count(nxt) = Count(cur) + (IF pd THEN 1 ELSE 0) - (IF gd THEN 1 ELSE 0)
  <2>1. Count(nxt) = m + (IF ct /\ pd THEN 1 ELSE 0) - (IF cg /\ gd THEN 1 ELSE 0)
    BY <1>2, <1>6, <1>14 DEF Count
  <2> QED
    BY <1>13, <2>1
<1>16. RegsAgree(nxt)
  <2>1. /\ nxt.pop_indx = IF pop THEN NextIndx(cur.pop_indx) ELSE cur.pop_indx
        /\ nxt.push_indx = IF push THEN NextIndx(cur.push_indx) ELSE cur.push_indx
    BY <1>3 DEF Clocked
  <2>2. (push /\ ~pop => e # LENGTH) /\ (pop /\ ~push => e # 0)
    BY <1>2, <1>5, <1>8, <1>9, <1>10
  <2>3. \/ nxt.push_indx = nxt.pop_indx + m
        \/ nxt.push_indx + LENGTH = nxt.pop_indx + m
    <3> DEFINE p == cur.pop_indx
               i == cur.push_indx
               z == nxt.pop_indx
               j == nxt.push_indx
    <3>1. /\ z = IF pop THEN NextIndx(p) ELSE p
          /\ j = IF push THEN NextIndx(i) ELSE i
          /\ p \in Indx /\ i \in Indx /\ (i = p + e \/ i + LENGTH = p + e)
      BY <1>2, <1>8, <2>1
    <3> HIDE DEF p, i, z, j, e, m, push, pop
    <3>2. j = z + m \/ j + LENGTH = z + m
      BY <1>2, <1>8, <1>13, <2>2, <3>1, IndexStep
    <3> QED
      BY <3>2 DEF z, j
  <2> QED
    BY <1>6, <1>13, <1>14, <2>3 DEF RegsAgree
<1>17. First(nxt) = IF gd THEN NextIndx(First(cur)) ELSE First(cur)
  <2>1. nxt.pop_indx = IF pop THEN NextIndx(cur.pop_indx) ELSE cur.pop_indx
    BY <1>3 DEF Clocked
  <2> HIDE DEF pop, gd
  <2> QED
    BY <1>2, <1>5, <1>6, <1>7, <2>1 DEF First
<1>18. Free(nxt) = IF pd THEN NextIndx(Free(cur)) ELSE Free(cur)
  <2>1. nxt.push_indx = IF push THEN NextIndx(cur.push_indx) ELSE cur.push_indx
    BY <1>3 DEF Clocked
  <2> HIDE DEF push, pd
  <2> QED
    BY <1>2, <1>5, <1>6, <1>7, <2>1 DEF Free
<1>19. Slots(nxt) = IF pd THEN [Slots(cur) EXCEPT ![Free(cur)] = put_ok.data]
                    ELSE Slots(cur)
  <2>1. /\ nxt.buffer = IF push THEN [cur.buffer EXCEPT ![cur.push_indx] = cur.data_in]
                        ELSE cur.buffer
        /\ nxt.push_indx = IF push THEN NextIndx(cur.push_indx) ELSE cur.push_indx
    BY <1>3 DEF Clocked
  <2>2. CASE ct
    <3>1. nxt.buffer = Slots(cur) /\ nxt.push_indx = Free(cur)
      BY <1>7, <2>1, <2>2 DEF Slots, Free
    <3> QED
      BY <1>6, <2>2, <3>1 DEF Slots
  <2>3. CASE ~ct
    <3>1. Slots(cur) = cur.buffer /\ Free(cur) = cur.push_indx /\ Slots(nxt) = nxt.buffer
      BY <1>6, <2>3 DEF Slots, Free
    <3> QED
      BY <1>5, <2>1, <2>3, <3>1
  <2> QED
    BY <2>2, <2>3
<1>20. gd => get_ok.data = IF Count(cur) # 0 THEN Slots(cur)[First(cur)] ELSE put_ok.data
  <2> SUFFICES ASSUME gd
               PROVE  get_ok.data = IF Count(cur) # 0 THEN Slots(cur)[First(cur)]
                                    ELSE put_ok.data
    OBVIOUS
  <2>1. get_ok.data = IF sv \/ OutValid(cur) THEN cur.buffer[First(cur)] ELSE cur.data_in
    <3>1. get_ok.data = cur.data_out
      BY <1>2, <1>5, <1>6
    <3>2. PopIndx(cur) = First(cur)
      BY DEF PopIndx, First, TPop
    <3> QED
      BY <1>4, <3>1, <3>2 DEF CombOutputs
  <2>2. OutValid(cur) <=> e # 0 /\ (cg /\ pop => e # 1)
    BY <1>2 DEF OutValid
  <2>3. CASE e # 0 /\ (cg /\ pop => e # 1)
    <3>1. Count(cur) # 0
      BY <1>8, <1>12, <2>3, LengthAssumption
    <3>2. TPush(cur) => First(cur) # cur.push_indx
      <4> DEFINE p == cur.pop_indx
                 i == cur.push_indx
                 f == First(cur)
      <4>1. /\ p \in Indx /\ i \in Indx /\ (i = p + e \/ i + LENGTH = p + e)
            /\ f = IF cg /\ pop THEN NextIndx(p) ELSE p
        BY <1>2, <1>8 DEF First, TPop
      <4>2. TPush(cur) => e # LENGTH
        BY <1>1 DEF RegsAgree
      <4> HIDE DEF p, i, f, e, pop, cg
      <4>3. TPush(cur) => f # i
        BY <1>2, <1>8, <2>3, <4>1, <4>2, LengthAssumption DEF NextIndx, Indx
      <4> QED
        BY <4>3 DEF f, i
    <3>3. First(cur) \in Indx
      BY <1>1, Mapped
    <3>4. Slots(cur)[First(cur)] = cur.buffer[First(cur)]
      BY <1>2, <3>2, <3>3 DEF Slots
    <3> QED
      BY <2>1, <2>2, <2>3, <3>1, <3>4
  <2>4. CASE ~(e # 0 /\ (cg /\ pop => e # 1))
    <3>1. ~sv /\ push
      BY <1>10, <2>4
    <3>2. get_ok.data = cur.data_in
      BY <2>1, <2>2, <2>4, <3>1
    <3>3. CASE ct
      <4>1. TPush(cur) /\ Count(cur) = 1
        BY <1>7, <1>8, <1>12, <2>4, <3>1, <3>3, LengthAssumption
      <4>2. First(cur) = cur.push_indx
        <5> DEFINE p == cur.pop_indx
                   i == cur.push_indx
                   f == First(cur)
        <5>1. /\ p \in Indx /\ i \in Indx /\ (i = p + e \/ i + LENGTH = p + e)
              /\ f = IF cg /\ pop THEN NextIndx(p) ELSE p
          BY <1>2, <1>8 DEF First, TPop
        <5> HIDE DEF p, i, f, e, pop, cg
        <5>2. f = i
          BY <1>2, <1>8, <2>4, <5>1, LengthAssumption DEF NextIndx, Indx
        <5> QED
          BY <5>2 DEF f, i
      <4> QED
        BY <1>2, <3>2, <4>1, <4>2 DEF Slots
    <3>4. CASE ~ct
      <4>1. Count(cur) = 0
        BY <1>8, <1>12, <2>4, <3>4, LengthAssumption
      <4> QED
        BY <1>5, <3>1, <3>2, <3>4, <4>1
    <3> QED
      BY <3>3, <3>4
  <2> QED
    BY <2>3, <2>4
<1>21. /\ pd => Count(cur) # LENGTH \/ (gd /\ MakesRoom)
       /\ gd => Count(cur) # 0 \/ (pd /\ PassThrough)
  BY <1>13 DEF MakesRoom, PassThrough
<1> QED
  BY <1>15, <1>16, <1>17, <1>18, <1>19, <1>20, <1>21

\* A delta cycle between edges does not touch the ring or a thread's request.
LEMMA DeltaStep ==
    ASSUME SimInv, Update, edge = "none"
    PROVE  /\ RegsAgree(nxt) /\ Count(nxt) = Count(cur) /\ First(nxt) = First(cur)
           /\ Free(nxt) = Free(cur) /\ Slots(nxt) = Slots(cur)
<1>1. /\ SameRegs(cur, nxt) /\ RegsAgree(cur)
      /\ cfg.cthread_put => nxt.put_req = cur.put_req /\ nxt.data_in = cur.data_in
      /\ cfg.cthread_get => nxt.get_req = cur.get_req
  BY DEF SimInv, Phase, DeltaPhase, Stored
<1>2. TPush(nxt) = TPush(cur) /\ TPop(nxt) = TPop(cur)
  BY <1>1 DEF TPush, TPop, Push, Pop, SameRegs
<1>3. TPush(nxt) => nxt.data_in = cur.data_in
  BY <1>1 DEF TPush
<1> QED
  BY <1>1, <1>2, <1>3 DEF SameRegs, RegsAgree, Count, First, Free, Slots

\* A reset empties the ring and withdraws the threads' requests.
LEMMA ResetStep ==
    ASSUME SimInv, Update, edge # "none", rst
    PROVE  /\ RegsAgree(nxt) /\ Count(nxt) = 0 /\ First(nxt) = 0 /\ Free(nxt) = 0
           /\ Slots(nxt) \in [Indx -> Data]
           /\ \A i \in Indx : i = 0 \/ cfg.INIT_BUFFER => Slots(nxt)[i] = ZERO
<1>1. runnable = {} /\ nxt \in Signals
  BY DEF Update, SimInv, Inv, TypeOK
<1>2. /\ nxt.pop_indx = 0 /\ nxt.push_indx = 0 /\ nxt.element_num_d = 0
      /\ cfg.cthread_put => nxt.put_req_d = FALSE /\ nxt.put_req = FALSE
      /\ cfg.cthread_get => nxt.get_req_d = FALSE /\ nxt.get_req = FALSE
      /\ \A i \in Indx : i = 0 \/ cfg.INIT_BUFFER => nxt.buffer[i] = ZERO
  BY <1>1 DEF SimInv, Phase, ResetPhase
<1>3. ~TPush(nxt) /\ ~TPop(nxt)
  BY <1>2 DEF TPush, TPop, Push, Pop
<1>4. nxt.buffer \in [Indx -> Data]
  BY <1>1 DEF Signals
<1> QED
  BY <1>2, <1>3, <1>4, LengthAssumption DEF RegsAgree, Count, First, Free, Slots

\* The first update after an edge makes the queue what the users were told: a put
\* stores behind the last element and a get drops the oldest, also when both
\* happen at one edge and the slot freed is the slot filled.
LEMMA QueueUpdate ==
    ASSUME SimInv, Update, edge # "none", ~rst
    PROVE  /\ HeldIn(q', Slots(nxt), First(nxt), Count(nxt))
           /\ q' = (IF get_ok.done THEN Tail(Offered) ELSE Offered)
           /\ op' = [put |-> put_ok, get |-> get_ok]
           /\ Count(cur) = 0 => q = <<>>
           /\ Count(cur) # 0 => q # <<>>
           /\ get_ok.done => get_ok.data = Head(Offered)
<1> DEFINE pd == put_ok.done
           gd == get_ok.done
           d == put_ok.data
           n == Count(cur)
           p == First(cur)
           i == Free(cur)
           b == Slots(cur)
<1>1. /\ cfg \in Configs /\ cur \in Signals /\ put_ok \in Result /\ get_ok \in Result
      /\ q \in Seq(Data) /\ RegsAgree(cur) /\ HeldIn(q, b, p, n)
  BY DEF SimInv, Inv, TypeOK, Stored
<1>2. pd \in BOOLEAN /\ gd \in BOOLEAN /\ d \in Data
  BY <1>1 DEF Result
<1>3. /\ p \in Indx /\ i \in Indx /\ n \in 0 .. LENGTH /\ b \in [Indx -> Data]
      /\ i = p + n \/ i + LENGTH = p + n
  BY <1>1, Mapped
<1>4. /\ pd => n # LENGTH \/ gd
      /\ gd => n # 0 \/ pd
      /\ gd => get_ok.data = IF n # 0 THEN b[p] ELSE d
      /\ Count(nxt) = n + (IF pd THEN 1 ELSE 0) - (IF gd THEN 1 ELSE 0)
      /\ First(nxt) = IF gd THEN NextIndx(p) ELSE p
      /\ Slots(nxt) = IF pd THEN [b EXCEPT ![i] = d] ELSE b
  BY EdgeStep
<1>5. Offered = IF pd THEN Append(q, d) ELSE q
  BY DEF Offered
<1> HIDE DEF pd, gd, d, n, p, i, b
<1>6. (pd /\ ~gd => n # LENGTH) /\ (gd /\ ~pd => n # 0) /\ LENGTH \in Nat \ {0}
  BY <1>4, LengthAssumption
<1> DEFINE off == IF pd THEN Append(q, d) ELSE q
           t == IF gd THEN Tail(off) ELSE off
           c == Slots(nxt)
           z == First(nxt)
           a == IF pd THEN 1 ELSE 0
           r == IF gd THEN 1 ELSE 0
<1>7. Len(q) = n /\ \A k \in 1 .. n : q[k] = b[Slot(p, k - 1)]
  BY <1>1 DEF HeldIn
<1>8. /\ off \in Seq(Data) /\ Len(off) = n + a
      /\ \A k \in 1 .. n : off[k] = q[k]
      /\ pd => off[n + 1] = d
  <2>1. /\ Append(q, d) \in Seq(Data) /\ Len(Append(q, d)) = Len(q) + 1
        /\ \A k \in 1 .. Len(q) : Append(q, d)[k] = q[k]
        /\ Append(q, d)[Len(q) + 1] = d
    BY <1>1, <1>2 DEF Append
  <2> QED
    BY <1>1, <1>3, <1>7, <2>1
<1>9. a \in 0 .. 1 /\ r \in 0 .. 1 /\ n + a - r \in 0 .. LENGTH
  BY <1>2, <1>3, <1>6
<1>10. gd => off # <<>>
  <2>1. gd => n + a # 0
    BY <1>3, <1>6
  <2> HIDE DEF off, a
  <2> QED
    BY <1>8, <2>1, EmptySeq
<1> HIDE DEF off
<1>11. /\ t \in Seq(Data) /\ Len(t) = n + a - r
       /\ \A k \in 1 .. n + a - r : t[k] = off[k + r]
  <2>1. CASE gd
    <3> HIDE DEF a
    <3>1. /\ Tail(off) \in Seq(Data) /\ Len(Tail(off)) = n + a - 1
          /\ \A k \in 1 .. n + a - 1 : Tail(off)[k] = off[k + 1]
      BY <1>3, <1>8, <1>9, <1>10, <2>1, HeadTailProperties
    <3> QED
      BY <2>1, <3>1
  <2>2. CASE ~gd
    BY <1>3, <1>8, <1>9, <2>2
  <2> QED
    BY <2>1, <2>2
<1>12. \A k \in 1 .. n + a - r : Slot(z, k - 1) = Slot(p, (k + r) - 1)
  BY <1>2, <1>3, <1>4, <1>6, <1>9 DEF Slot, NextIndx, Indx
<1>13. /\ c \in [Indx -> Data] /\ (pd => c[i] = d) /\ (~pd => c = b)
       /\ \A j \in Indx \ {i} : c[j] = b[j]
  BY <1>2, <1>3, <1>4
<1>14. pd <=> a = 1
  BY <1>2
<1> HIDE DEF t, c, z, a, r
<1>15. ASSUME NEW k \in 1 .. n + a - r PROVE off[k + r] = c[Slot(p, (k + r) - 1)]
  <2>1. k + r \in Int /\ k + r \in 1 .. n + a
    BY <1>3, <1>9
  <2>2. CASE k + r = n + 1
    <3>1. pd /\ Slot(p, (k + r) - 1) = i
      BY <1>3, <1>6, <1>9, <1>14, <2>1, <2>2 DEF Slot, Indx
    <3> QED
      BY <1>8, <1>13, <2>2, <3>1
  <2>3. CASE k + r # n + 1
    <3>1. k + r \in 1 .. n
      BY <1>3, <1>9, <2>1, <2>3
    <3>2. pd => k + r # 1 \/ n # LENGTH
      BY <1>3, <1>6, <1>9 DEF r
    <3> DEFINE w == k + r
    <3>3. w \in 1 .. n /\ (pd => w # 1 \/ n # LENGTH)
      BY <3>1, <3>2
    <3> HIDE DEF w
    <3>4. Slot(p, w - 1) \in Indx /\ (pd => Slot(p, w - 1) # i)
      BY <1>3, <1>6, <3>3 DEF Slot, Indx
    <3>5. off[w] = b[Slot(p, w - 1)]
      BY <1>7, <1>8, <3>3
    <3>6. off[w] = c[Slot(p, w - 1)]
      BY <1>13, <3>4, <3>5
    <3> QED
      BY <3>6 DEF w
  <2> QED
    BY <2>2, <2>3
<1>16. HeldIn(t, c, z, n + a - r)
  BY <1>11, <1>12, <1>15 DEF HeldIn
<1>17. n = 0 => q = <<>>
  BY <1>1, <1>7, EmptySeq
<1>18. n # 0 => q # <<>> /\ Head(off) = b[p]
  <2>1. Slot(p, 1 - 1) = p
    BY <1>3, <1>6 DEF Slot, Indx
  <2>2. n # 0 => q # <<>> /\ off[1] = b[p]
    BY <1>1, <1>3, <1>7, <1>8, <2>1, EmptySeq
  <2> QED
    BY <2>2 DEF Head
<1>19. pd /\ n = 0 => Head(off) = d
  BY <1>8 DEF Head
<1>20. gd => get_ok.data = Head(off)
  BY <1>4, <1>18, <1>19
<1>21. Offered = off
  BY <1>5 DEF off
<1>22. q' = Committed /\ op' = [put |-> put_ok, get |-> get_ok]
  BY DEF Update
<1>23. q' = t
  BY <1>2, <1>10, <1>21, <1>22 DEF Committed, gd, t
<1>24. n + a - r = Count(nxt)
  BY <1>4 DEF a, r
<1>25. HeldIn(q', Slots(nxt), First(nxt), Count(nxt))
  BY <1>16, <1>23, <1>24 DEF c, z
<1>26. q' = (IF gd THEN Tail(Offered) ELSE Offered)
  BY <1>21, <1>23 DEF t
<1> QED
  BY <1>17, <1>18, <1>20, <1>21, <1>22, <1>25, <1>26 DEF gd, n

\* Every update keeps the queue in the ring.
LEMMA UpdateStored == ASSUME SimInv, Update PROVE Stored'
<1>1. cur' = nxt /\ cfg' = cfg /\ edge \in {"none", "clock", "reset"} /\ rst \in BOOLEAN
  BY DEF Update, SimInv, Inv, TypeOK
<1>2. /\ RegsAgree(cur)' <=> RegsAgree(nxt)
      /\ Count(cur)' = Count(nxt) /\ First(cur)' = First(nxt) /\ Slots(cur)' = Slots(nxt)
  BY <1>1 DEF RegsAgree, Count, First, Slots, TPush, TPop, Push, Pop, NextIndx
<1>3. ASSUME RegsAgree(nxt), HeldIn(q', Slots(nxt), First(nxt), Count(nxt))
      PROVE  Stored'
  BY <1>2, <1>3 DEF Stored, HeldIn, Slot
<1>4. CASE edge = "none"
  <2>1. q' = q
    BY <1>4 DEF Update
  <2> QED
    BY <1>3, <1>4, <2>1, DeltaStep DEF SimInv, Stored
<1>5. CASE edge # "none" /\ rst
  <2>1. q' = <<>>
    BY <1>5 DEF Update
  <2>2. Len(q') = 0
    BY <2>1
  <2>3. HeldIn(q', Slots(nxt), First(nxt), 0)
    BY <2>2 DEF HeldIn
  <2> QED
    BY <1>3, <1>5, <2>3, ResetStep
<1>6. CASE edge # "none" /\ ~rst
  BY <1>3, <1>6, EdgeStep, QueueUpdate
<1> QED
  BY <1>1, <1>4, <1>5, <1>6

\* No other step touches the queue or the registers.
LEMMA StoredKept == ASSUME Stored, UNCHANGED <<cfg, cur, q>> PROVE Stored'
  BY DEF Stored, RegsAgree, HeldIn, Slot, Count, First, Slots, TPush, TPop, Push, Pop,
         NextIndx

\* Power-up: an empty ring, every process still to run.
LEMMA InitSim == ASSUME Init PROVE SimInv
<1>1. Inv
  BY InitInv
<1>2. MethodRequests /\ DeltaPhase /\ ResetPhase /\ ClockPhase
  BY DEF Init, MethodRequests, DeltaPhase, ResetPhase, ClockPhase, Nothing
<1>3. /\ cur.pop_indx = 0 /\ cur.push_indx = 0 /\ cur.element_num_d = 0
      /\ cur.put_req = FALSE /\ cur.put_req_d = FALSE
      /\ cur.get_req = FALSE /\ cur.get_req_d = FALSE /\ q = <<>>
  BY DEF Init
<1>4. ~TPush(cur) /\ ~TPop(cur)
  BY <1>3 DEF TPush, TPop, Push, Pop
<1>5. RegsAgree(cur) /\ Count(cur) = 0
  BY <1>3, <1>4, LengthAssumption DEF RegsAgree, Count
<1>6. HeldIn(q, Slots(cur), First(cur), 0)
  BY <1>3 DEF HeldIn
<1> QED
  BY <1>1, <1>2, <1>5, <1>6 DEF SimInv, Phase, Stored

\* SimInv is inductive.
LEMMA SimStep == ASSUME SimInv, [Next]_vars PROVE SimInv'
<1>1. Inv /\ Phase /\ Stored
  BY DEF SimInv
<1>2. CASE UNCHANGED vars
  <2>1. Inv'
    BY <1>1, <1>2 DEF vars, Inv, TypeOK, AsyncInv, PutInv, GetInv, OutputsCurrent,
                PutCurrent, GetCurrent, CombOutputs, OutValid, PopIndx, ReadyPush,
                ElementNum, Push, Pop, NextIndx
  <2>2. Phase'
    BY <1>1, <1>2 DEF vars, Phase, MethodRequests, DeltaPhase, ResetPhase, ClockPhase,
                SameRegs, Clocked, PutCalled, GetCalled, Threads, CombOutputs, OutValid,
                PopIndx, ReadyPush, ElementNum, Push, Pop, NextIndx
  <2>3. Stored'
    BY <1>1, <1>2, StoredKept DEF vars
  <2> QED
    BY <2>1, <2>2, <2>3 DEF SimInv
<1>3. CASE asyncProc
  BY <1>1, <1>3, AsyncStep, AsyncPhase, StoredKept DEF asyncProc, SimInv
<1>4. CASE syncProc
  BY <1>1, <1>4, SyncStep, SyncPhase, StoredKept DEF syncProc, SimInv
<1>5. CASE PutProc
  <2>1. UNCHANGED <<cfg, cur, q>>
    BY <1>5 DEF PutProc, reset_put, put_idle, clear_put, put, b_put, PutFrame
  <2> QED
    BY <1>1, <1>5, <2>1, PutStep, PutCallPhase, StoredKept DEF SimInv
<1>6. CASE GetProc
  <2>1. UNCHANGED <<cfg, cur, q>>
    BY <1>6 DEF GetProc, reset_get, get_idle, clear_get, get, b_get, GetFrame
  <2> QED
    BY <1>1, <1>6, <2>1, GetStep, GetCallPhase, StoredKept DEF SimInv
<1>7. CASE Update
  BY <1>1, <1>7, UpdateStep, UpdatePhase, UpdateStored DEF SimInv
<1>8. CASE ClockEdge \/ AssertReset \/ ReleaseReset
  <2>1. UNCHANGED <<cfg, cur, q>>
    BY <1>8, Zenon DEF ClockEdge, AssertReset, ReleaseReset
  <2> QED
    BY <1>1, <1>8, <2>1, TimeStep, TimePhase, StoredKept DEF SimInv
<1> QED
  BY <1>2, <1>3, <1>4, <1>5, <1>6, <1>7, <1>8 DEF Next, Evaluate

-----------------------------------------------------------------------------
(* What users of the simulated FIFO see.                                     *)

\* In every reachable state the registers hold the elements put and not yet got.
LEMMA SimInvariant == Spec => []SimInv
  BY InitSim, SimStep, PTL DEF Spec

\* At the end of a time step a method's request is what it returned, and the
\* outputs are asyncProc's.
LEMMA AtSettled ==
    ASSUME SimInv, Settled
    PROVE  /\ cur.out_valid = CombOutputs(cur).out_valid
           /\ cur.data_out = CombOutputs(cur).data_out
           /\ cur.ready_push = CombOutputs(cur).ready_push
           /\ cur.element_num = CombOutputs(cur).element_num
           /\ ~cfg.cthread_put => /\ cur.put_req = put_ok.done
                                  /\ put_ok.done => cur.data_in = put_ok.data
           /\ ~cfg.cthread_get => cur.get_req = get_ok.done
<1>1. OutputsCurrent /\ nxt = cur /\ MethodRequests
  BY DEF SimInv, Inv, AsyncInv, Settled, Phase
<1> QED
  BY <1>1 DEF OutputsCurrent, MethodRequests

\* What a user sees out of reset, for a configuration without a warning.
LEMMA Truth == ASSUME SimInv PROVE ReadyIffRoom /\ RequestIffElement
<1> SUFFICES ASSUME Settled, ~rst, Supported(cfg)
             PROVE  ReadyIffRoom /\ RequestIffElement
  BY DEF ReadyIffRoom, RequestIffElement
<1> DEFINE ct == cfg.cthread_put
           cg == cfg.cthread_get
           sv == cfg.SYNC_VALID
           sr == cfg.SYNC_READY
           push == Push(cur)
           pop == Pop(cur)
           pd == put_ok.done
           gd == get_ok.done
           e == cur.element_num_d
           n == Count(cur)
           p == First(cur)
           b == Slots(cur)
<1>1. /\ cfg \in Configs /\ cfg \in Config /\ cur \in Signals /\ q \in Seq(Data)
      /\ put_ok \in Result /\ get_ok \in Result
      /\ RegsAgree(cur) /\ HeldIn(q, b, p, n)
  BY ConfigsAssumption DEF SimInv, Inv, TypeOK, Stored
<1>2. /\ ct \in BOOLEAN /\ cg \in BOOLEAN /\ sv \in BOOLEAN /\ sr \in BOOLEAN
      /\ push \in BOOLEAN /\ pop \in BOOLEAN /\ pd \in BOOLEAN /\ gd \in BOOLEAN
      /\ cur.put_req \in BOOLEAN /\ cur.get_req \in BOOLEAN
      /\ cur.ready_push \in BOOLEAN /\ cur.out_valid \in BOOLEAN
      /\ cur.pop_indx \in Indx /\ cur.push_indx \in Indx
      /\ cur.buffer \in [Indx -> Data] /\ cur.data_in \in Data /\ put_ok.data \in Data
      /\ e \in 0 .. ElemNums - 1
  BY <1>1, RequestType DEF Config, Result, Signals
<1>3. ~(ct /\ sv) /\ ~(cg /\ sr)
  BY DEF Supported
<1>4. /\ ~ct => (push <=> pd) /\ (pd => cur.data_in = put_ok.data)
      /\ ~cg => (pop <=> gd)
  BY <1>2, AtSettled DEF Push, Pop
<1>5. /\ (TPush(cur) <=> ct /\ push) /\ (TPop(cur) <=> cg /\ pop)
      /\ n = e + (IF ct /\ push THEN 1 ELSE 0) - (IF cg /\ pop THEN 1 ELSE 0)
  BY DEF TPush, TPop, Count
<1>6. /\ e \in 0 .. LENGTH /\ (ct /\ push => e # LENGTH) /\ (cg /\ pop => e # 0)
      /\ cur.push_indx = cur.pop_indx + e \/ cur.push_indx + LENGTH = cur.pop_indx + e
  BY <1>1, <1>5 DEF RegsAgree
<1>7. /\ cur.ready_push <=> \/ ~sr /\ pop
                            \/ e # LENGTH /\ (ct /\ push => e # LENGTH - 1)
      /\ OutValid(cur) <=> e # 0 /\ (cg /\ pop => e # 1)
      /\ cur.out_valid <=> (~sv /\ push) \/ OutValid(cur)
      /\ cur.data_out = IF sv \/ OutValid(cur) THEN cur.buffer[p] ELSE cur.data_in
  <2>1. PopIndx(cur) = p
    BY DEF PopIndx, First, TPop
  <2>2. OutValid(cur) <=> e # 0 /\ (cg /\ pop => e # 1)
    BY <1>2 DEF OutValid
  <2>3. ReadyPush(cur) <=> e # LENGTH /\ (ct /\ push => e # LENGTH - 1)
    BY <1>2 DEF ReadyPush
  <2>4. cur.ready_push = (IF sr THEN ReadyPush(cur) ELSE pop \/ ReadyPush(cur))
    BY AtSettled DEF CombOutputs
  <2>5. cur.out_valid = (IF sv THEN OutValid(cur) ELSE push \/ OutValid(cur))
    BY AtSettled DEF CombOutputs
  <2>6. cur.data_out = IF sv \/ OutValid(cur) THEN cur.buffer[p] ELSE cur.data_in
    BY <2>1, AtSettled DEF CombOutputs
  <2> QED
    BY <1>2, <2>2, <2>3, <2>4, <2>5, <2>6
<1>8. LENGTH \in Nat \ {0} /\ ElemNums \in Nat /\ ElemNums > LENGTH
  BY LengthAssumption, ElemNumsAssumption
<1>9. /\ p \in Indx /\ n \in 0 .. LENGTH /\ b \in [Indx -> Data]
      /\ Len(q) = n /\ \A k \in 1 .. n : q[k] = b[Slot(p, k - 1)]
  BY <1>1, Mapped DEF HeldIn
<1>10. ReadyIffRoom
  <2>1. MakesRoom <=> ~cg /\ ~sr
    BY DEF MakesRoom
  <2>2. cur.ready_push <=> (n < LENGTH \/ (MakesRoom /\ gd))
    <3> HIDE DEF ct, cg, sr, push, pop, gd, e, n
    <3> QED
      BY <1>2, <1>3, <1>4, <1>5, <1>6, <1>7, <1>8, <2>1
  <2> QED
    BY <1>2, <1>9, <2>2 DEF ReadyIffRoom
<1>11. n = 0 <=> q = <<>>
  BY <1>1, <1>9, EmptySeq
<1>12. n # 0 => Head(q) = b[p]
  <2>1. Slot(p, 1 - 1) = p
    BY <1>8, <1>9 DEF Slot, Indx
  <2>2. n # 0 => q[1] = b[p]
    <3> HIDE DEF n, p, b
    <3> QED BY <1>8, <1>9, <2>1
  <2> QED
    BY <2>2 DEF Head
\* The element that data_out shows, when there is one in the ring.
<1>13. ASSUME OutValid(cur) PROVE n # 0 /\ cur.buffer[p] = b[p]
  <2>1. e # 0 /\ (cg /\ pop => e # 1)
    BY <1>7, <1>13
  <2> DEFINE x == cur.pop_indx
             i == cur.push_indx
  <2>2. /\ x \in Indx /\ i \in Indx /\ (i = x + e \/ i + LENGTH = x + e)
        /\ p = IF cg /\ pop THEN NextIndx(x) ELSE x
    BY <1>2, <1>6 DEF First, TPop
  <2>3. n # 0
    <3> HIDE DEF n, e, ct, cg, push, pop
    <3> QED BY <1>2, <1>5, <1>6, <1>8, <2>1
  <2>4. ct /\ push => p # i
    <3> HIDE DEF x, i, p, e, ct, cg, push, pop
    <3> QED BY <1>2, <1>6, <1>8, <2>1, <2>2 DEF NextIndx, Indx
  <2>5. cur.buffer[p] = b[p]
    BY <1>2, <1>5, <1>9, <2>4 DEF Slots
  <2> QED
    BY <2>3, <2>5
\* The element of a thread's pending put, when it is the only one.
<1>14. ASSUME ~OutValid(cur), ct, push PROVE n = 1 /\ b[p] = cur.data_in
  <2>1. ~(e # 0 /\ (cg /\ pop => e # 1))
    BY <1>7, <1>14
  <2> DEFINE x == cur.pop_indx
             i == cur.push_indx
  <2>2. /\ x \in Indx /\ i \in Indx /\ (i = x + e \/ i + LENGTH = x + e)
        /\ p = IF cg /\ pop THEN NextIndx(x) ELSE x
    BY <1>2, <1>6 DEF First, TPop
  <2>3. n = 1
    <3> HIDE DEF n, e, ct, cg, push, pop
    <3> QED BY <1>2, <1>5, <1>6, <1>8, <1>14, <2>1
  <2>4. p = i
    <3> HIDE DEF x, i, p, e, ct, cg, push, pop
    <3> QED BY <1>2, <1>6, <1>8, <2>1, <2>2 DEF NextIndx, Indx
  <2>5. b[p] = cur.data_in
    BY <1>2, <1>5, <1>14, <2>4 DEF Slots
  <2> QED
    BY <2>3, <2>5
<1>15. ASSUME ~OutValid(cur), ~(ct /\ push) PROVE n = 0
  <2>1. ~(e # 0 /\ (cg /\ pop => e # 1))
    BY <1>7, <1>15
  <2> HIDE DEF n, e, ct, cg, push, pop
  <2> QED
    BY <1>2, <1>5, <1>6, <1>8, <1>15, <2>1
<1> DEFINE avail == IF PassThrough THEN Offered ELSE q
<1>16. (PassThrough <=> ~ct /\ ~sv) /\ Offered = (IF pd THEN Append(q, put_ok.data) ELSE q)
  BY DEF PassThrough, Offered
<1>17. /\ Append(q, put_ok.data) # <<>>
       /\ n # 0 => Head(Append(q, put_ok.data)) = Head(q)
       /\ n = 0 => Head(Append(q, put_ok.data)) = put_ok.data
  <2> DEFINE d == put_ok.data
  <2>1. /\ Append(q, d) # <<>> /\ Append(q, d)[Len(q) + 1] = d
        /\ \A k \in 1 .. Len(q) : Append(q, d)[k] = q[k]
    <3>1. d \in Data
      BY <1>2
    <3> HIDE DEF d
    <3> QED BY <1>1, <3>1 DEF Append
  <2> HIDE DEF n, d
  <2>2. n # 0 => Append(q, d)[1] = q[1]
    BY <1>8, <1>9, <2>1
  <2>3. n = 0 => Append(q, d)[1] = d
    BY <1>9, <2>1
  <2> QED
    BY <2>1, <2>2, <2>3 DEF Head, d
<1>18. cur.out_valid <=> avail # <<>>
  BY <1>2, <1>3, <1>4, <1>7, <1>11, <1>13, <1>14, <1>15, <1>16, <1>17
<1>19. cur.out_valid => cur.data_out = Head(avail)
  <2> SUFFICES ASSUME cur.out_valid PROVE cur.data_out = Head(avail)
    OBVIOUS
  <2>1. CASE OutValid(cur)
    <3>1. cur.data_out = Head(q) /\ n # 0
      BY <1>7, <1>12, <1>13, <2>1
    <3> QED
      BY <1>16, <1>17, <3>1
  <2>2. CASE ~OutValid(cur)
    <3>1. ~sv /\ push /\ cur.data_out = cur.data_in
      BY <1>7, <2>2
    <3>2. CASE ct
      BY <1>12, <1>14, <1>16, <2>2, <3>1, <3>2
    <3>3. CASE ~ct
      BY <1>4, <1>15, <1>16, <1>17, <2>2, <3>1, <3>3
    <3> QED
      BY <3>2, <3>3
  <2> QED
    BY <2>1, <2>2
<1>20. ct /\ cg => elem_num = Len(q)
  <2> SUFFICES ASSUME ct, cg PROVE elem_num = n
    BY <1>9
  <2>1. elem_num = ElementNum(cur)
    BY AtSettled DEF elem_num, CombOutputs
  <2>2. ElementNum(cur) = IF pop /\ ~push THEN (e - 1) % ElemNums
                          ELSE IF ~pop /\ push THEN (e + 1) % ElemNums ELSE e
    BY DEF ElementNum
  <2>3. n = e + (IF push THEN 1 ELSE 0) - (IF pop THEN 1 ELSE 0)
    BY <1>5
  <2>4. (push => e # LENGTH) /\ (pop => e # 0)
    BY <1>6
  <2>5. \A x \in 0 .. ElemNums - 1 : x % ElemNums = x
    BY <1>8
  <2> HIDE DEF e, n, push, pop
  <2>6. (pop => e - 1 \in 0 .. ElemNums - 1) /\ (push => e + 1 \in 0 .. ElemNums - 1)
    BY <1>6, <1>8, <2>4
  <2>7. /\ pop => (e - 1) % ElemNums = e - 1
        /\ push => (e + 1) % ElemNums = e + 1
    BY <2>5, <2>6
  <2> DEFINE dec == (e - 1) % ElemNums
             inc == (e + 1) % ElemNums
  <2>8. /\ pop => dec = e - 1
        /\ push => inc = e + 1
        /\ ElementNum(cur) = IF pop /\ ~push THEN dec ELSE IF ~pop /\ push THEN inc ELSE e
    BY <2>2, <2>7
  <2> HIDE DEF dec, inc
  <2> QED
    BY <1>2, <1>6, <2>1, <2>3, <2>8
<1>21. RequestIffElement
  BY <1>2, <1>18, <1>19, <1>20 DEF RequestIffElement
<1> QED
  BY <1>10, <1>21

-----------------------------------------------------------------------------
(* Refinement: a time step of the simulation is a clock cycle of the         *)
(* hardware, and a step of the bounded queue.                                *)

\* The registers of the hardware are the ring with pending requests applied.
LEMMA RtlRegisters ==
    /\ (IF ThreadPop THEN NextIndx(cur.pop_indx) ELSE cur.pop_indx) = First(cur)
    /\ (IF ThreadPush THEN NextIndx(cur.push_indx) ELSE cur.push_indx) = Free(cur)
    /\ cur.element_num_d + (IF ThreadPush THEN 1 ELSE 0) - (IF ThreadPop THEN 1 ELSE 0)
         = Count(cur)
    /\ (IF ThreadPush THEN [cur.buffer EXCEPT ![cur.push_indx] = cur.data_in]
                      ELSE cur.buffer) = Slots(cur)
  BY DEF First, Free, Count, Slots, TPush, TPop, ThreadPush, ThreadPop

\* So they are after an update.
LEMMA RtlRegistersNext ==
    ASSUME cfg' = cfg, NEW s, cur' = s
    PROVE  /\ (IF ThreadPop THEN NextIndx(cur.pop_indx) ELSE cur.pop_indx)' = First(s)
           /\ (IF ThreadPush THEN NextIndx(cur.push_indx) ELSE cur.push_indx)' = Free(s)
           /\ (cur.element_num_d + (IF ThreadPush THEN 1 ELSE 0)
                                 - (IF ThreadPop THEN 1 ELSE 0))' = Count(s)
           /\ (IF ThreadPush THEN [cur.buffer EXCEPT ![cur.push_indx] = cur.data_in]
                             ELSE cur.buffer)' = Slots(s)
  BY DEF First, Free, Count, Slots, TPush, TPop, ThreadPush, ThreadPop, Push, Pop, NextIndx

\* A step that leaves cfg, cur and op alone is invisible to the hardware.
LEMMA RtlStutter ==
    ASSUME UNCHANGED <<cfg, cur, op>>
    PROVE  UNCHANGED Rtl!rtlVars
  BY DEF Rtl!rtlVars, ThreadPush, ThreadPop, Push, Pop, NextIndx

\* The update that ends a clock edge is one cycle of the hardware.
LEMMA RtlCycle ==
    ASSUME SimInv, Update, edge # "none", ~rst
    PROVE  Rtl!Cycle(put_ok, get_ok)
<1>1. /\ cur' = nxt /\ cfg' = cfg /\ cfg \in Configs /\ cur \in Signals
      /\ put_ok \in Result /\ get_ok \in Result /\ RegsAgree(cur)
  BY DEF Update, SimInv, Inv, TypeOK, Stored
<1> DEFINE n == Count(cur)
           p == First(cur)
           i == Free(cur)
           b == Slots(cur)
           pd == put_ok.done
           gd == get_ok.done
<1>2. pd \in BOOLEAN /\ gd \in BOOLEAN /\ n \in 0 .. LENGTH
  BY <1>1, Mapped DEF Result
<1>3. /\ Count(nxt) = n + (IF pd THEN 1 ELSE 0) - (IF gd THEN 1 ELSE 0)
      /\ First(nxt) = IF gd THEN NextIndx(p) ELSE p
      /\ Free(nxt) = IF pd THEN NextIndx(i) ELSE i
      /\ Slots(nxt) = IF pd THEN [b EXCEPT ![i] = put_ok.data] ELSE b
      /\ pd => n # LENGTH \/ (gd /\ MakesRoom)
      /\ gd => n # 0 \/ (pd /\ PassThrough)
      /\ gd => get_ok.data = IF n # 0 THEN b[p] ELSE put_ok.data
  BY EdgeStep
<1>4. op' = [put |-> put_ok, get |-> get_ok]
  BY QueueUpdate
<1>5. pd => Rtl!ready_push(gd)
  BY <1>3, RtlRegisters DEF Rtl!ready_push, MakesRoom
<1>6. gd => Rtl!out_valid(pd)
  BY <1>3, RtlRegisters DEF Rtl!out_valid, PassThrough
<1>7. gd => get_ok.data = Rtl!data_out(put_ok.data)
  <2> DEFINE rp == IF ThreadPop THEN NextIndx(cur.pop_indx) ELSE cur.pop_indx
             rn == cur.element_num_d + (IF ThreadPush THEN 1 ELSE 0)
                                     - (IF ThreadPop THEN 1 ELSE 0)
             rb == IF ThreadPush THEN [cur.buffer EXCEPT ![cur.push_indx] = cur.data_in]
                   ELSE cur.buffer
  <2>1. Rtl!data_out(put_ok.data) = IF rn # 0 \/ cfg.SYNC_VALID \/ cfg.cthread_put
                                    THEN rb[rp] ELSE put_ok.data
    BY DEF Rtl!data_out
  <2>2. rp = p /\ rn = n /\ rb = b
    BY RtlRegisters
  <2> HIDE DEF rp, rn, rb
  <2> HIDE DEF b, p, n
  <2> QED
    BY <1>3, <2>1, <2>2 DEF PassThrough
<1>8. (IF ThreadPop THEN NextIndx(cur.pop_indx) ELSE cur.pop_indx)'
        = IF gd THEN Rtl!NextIndx(IF ThreadPop THEN NextIndx(cur.pop_indx)
                                               ELSE cur.pop_indx)
          ELSE (IF ThreadPop THEN NextIndx(cur.pop_indx) ELSE cur.pop_indx)
  BY <1>1, <1>3, RtlRegisters, RtlRegistersNext DEF Rtl!NextIndx, NextIndx
<1>9. (IF ThreadPush THEN NextIndx(cur.push_indx) ELSE cur.push_indx)'
        = IF pd THEN Rtl!NextIndx(IF ThreadPush THEN NextIndx(cur.push_indx)
                                                ELSE cur.push_indx)
          ELSE (IF ThreadPush THEN NextIndx(cur.push_indx) ELSE cur.push_indx)
  BY <1>1, <1>3, RtlRegisters, RtlRegistersNext DEF Rtl!NextIndx, NextIndx
<1> QED
  BY <1>1, <1>2, <1>3, <1>4, <1>5, <1>6, <1>7, <1>8, <1>9, RtlRegisters, RtlRegistersNext
     DEF Rtl!Cycle

\* The update that ends a reset is a reset of the hardware.
LEMMA RtlReset ==
    ASSUME SimInv, Update, edge # "none", rst
    PROVE  Rtl!Reset
<1>1. cur' = nxt /\ cfg' = cfg /\ op' = [put |-> Nothing, get |-> Nothing]
  BY DEF Update
<1>2. /\ Count(nxt) = 0 /\ First(nxt) = 0 /\ Free(nxt) = 0
      /\ Slots(nxt) \in [Indx -> Data]
      /\ \A i \in Indx : i = 0 \/ cfg.INIT_BUFFER => Slots(nxt)[i] = ZERO
  BY ResetStep
<1>3. Rtl!Indx = Indx /\ Rtl!NoOp = Nothing
  BY DEF Rtl!Indx, Indx, Rtl!NoOp, Nothing
<1> QED
  BY <1>1, <1>2, <1>3, RtlRegistersNext DEF Rtl!Reset

\* A delta cycle is invisible to the hardware.
LEMMA RtlDelta ==
    ASSUME SimInv, Update, edge = "none"
    PROVE  UNCHANGED Rtl!rtlVars
<1>1. cur' = nxt /\ cfg' = cfg /\ op' = op
  BY DEF Update
<1> QED
  BY <1>1, DeltaStep, RtlRegisters, RtlRegistersNext DEF Rtl!rtlVars

\* Which steps a user can see.
LEMMA Invisible ==
    ASSUME [Next]_vars, ~Update
    PROVE  UNCHANGED <<cfg, cur, q, op>>
<1>1. CASE UNCHANGED vars
  BY <1>1 DEF vars
<1>2. CASE asyncProc \/ syncProc
  BY <1>2 DEF asyncProc, syncProc
<1>3. CASE PutProc
  BY <1>3 DEF PutProc, reset_put, put_idle, clear_put, put, b_put, PutFrame
<1>4. CASE GetProc
  BY <1>4 DEF GetProc, reset_get, get_idle, clear_get, get, b_get, GetFrame
<1>5. CASE ClockEdge \/ AssertReset \/ ReleaseReset
  BY <1>5, Zenon DEF ClockEdge, AssertReset, ReleaseReset
<1> QED
  BY <1>1, <1>2, <1>3, <1>4, <1>5 DEF Next, Evaluate

\* The first update after an edge is a cycle, or a reset, of the bounded queue;
\* a delta cycle is invisible.
LEMMA ContractStep ==
    ASSUME SimInv, Update
    PROVE  [Contract!Next]_(Contract!contractVars)
<1>1. /\ cfg' = cfg /\ cfg \in Configs /\ cur \in Signals /\ q \in Seq(Data)
      /\ put_ok \in Result /\ get_ok \in Result /\ RegsAgree(cur)
      /\ HeldIn(q, Slots(cur), First(cur), Count(cur))
  BY DEF Update, SimInv, Inv, TypeOK, Stored
<1>2. UNCHANGED <<PassThrough, MakesRoom>>
  BY <1>1 DEF PassThrough, MakesRoom
<1>3. CASE edge = "none"
  BY <1>2, <1>3 DEF Update, Contract!contractVars
<1>4. CASE edge # "none" /\ rst
  <2>1. Contract!Reset
    BY <1>2, <1>4 DEF Update, Contract!Reset, Contract!NoOp, Nothing
  <2> QED
    BY <2>1 DEF Contract!Next
<1>5. CASE edge # "none" /\ ~rst
  <2>1. /\ q' = (IF get_ok.done THEN Tail(Offered) ELSE Offered)
        /\ op' = [put |-> put_ok, get |-> get_ok]
        /\ Count(cur) # 0 => q # <<>>
        /\ get_ok.done => get_ok.data = Head(Offered)
    BY <1>5, QueueUpdate
  <2>2. /\ put_ok.done => Count(cur) # LENGTH \/ (get_ok.done /\ MakesRoom)
        /\ get_ok.done => Count(cur) # 0 \/ (put_ok.done /\ PassThrough)
    BY <1>5, EdgeStep
  <2>3. Len(q) = Count(cur) /\ Count(cur) \in 0 .. LENGTH
    BY <1>1, Mapped DEF HeldIn
  <2>4. put_ok.done => Len(q) < LENGTH \/ (get_ok.done /\ MakesRoom)
    BY <2>2, <2>3, LengthAssumption
  <2>5. get_ok.done => q # <<>> \/ (put_ok.done /\ PassThrough)
    BY <2>1, <2>2
  <2>6. Contract!Cycle(put_ok, get_ok)
    BY <1>2, <2>1, <2>4, <2>5 DEF Contract!Cycle, Offered
  <2> QED
    BY <1>1, <2>6 DEF Contract!Next, Contract!Results, Result
<1> QED
  BY <1>3, <1>4, <1>5

\* A PUT or GET method of the user's design reads settled results: when time
\* advances, what it last returned is what it would return now.
THEOREM MethodsSettle == Spec => []MethodsSettled
  BY SimulationSettles, PTL

\* ready() of the simulated FIFO is true at a clock edge exactly when there is
\* room, for every length, configuration without a warning and set of calls.
THEOREM ReadyTellsTruth == Spec => []ReadyIffRoom
  BY SimInvariant, Truth, PTL

\* request(), peek() and, between threads, elem_num() are exact at a clock edge:
\* an element is offered exactly when one is there, and it is the oldest.
THEOREM RequestTellsTruth == Spec => []RequestIffElement
  BY SimInvariant, Truth, PTL

\* The simulated FIFO, with its delta cycles, delayed thread requests and any
\* order of its processes, is the synthesized FIFO clock cycle by clock cycle:
\* for every length, configuration that elaborates, and set of calls.
THEOREM SimulationImplementsRtl == Spec => ImplementsRtl
<1>1. Init => Rtl!Init
  <2> SUFFICES ASSUME Init PROVE Rtl!Init
    OBVIOUS
  <2>1. /\ cur.pop_indx = 0 /\ cur.push_indx = 0 /\ cur.element_num_d = 0
        /\ cur.put_req = FALSE /\ cur.put_req_d = FALSE
        /\ cur.get_req = FALSE /\ cur.get_req_d = FALSE
        /\ cur.buffer = [i \in Indx |-> ZERO]
    BY DEF Init
  <2>2. ~ThreadPush /\ ~ThreadPop
    BY <2>1 DEF ThreadPush, ThreadPop, Push, Pop
  <2> QED
    BY <2>1, <2>2 DEF Init, Rtl!Init, Rtl!Indx, Indx, Rtl!NoOp, Nothing
<1>2. SimInv /\ [Next]_vars => [Rtl!Next]_(Rtl!rtlVars)
  <2> SUFFICES ASSUME SimInv, [Next]_vars PROVE [Rtl!Next]_(Rtl!rtlVars)
    OBVIOUS
  <2>1. CASE ~Update
    BY <2>1, Invisible, RtlStutter
  <2>2. CASE Update /\ edge = "none"
    BY <2>2, RtlDelta
  <2>3. CASE Update /\ edge # "none" /\ rst
    BY <2>3, RtlReset DEF Rtl!Next
  <2>4. CASE Update /\ edge # "none" /\ ~rst
    <3>1. put_ok \in Result /\ get_ok \in Result
      BY DEF SimInv, Inv, TypeOK
    <3>2. Rtl!Cycle(put_ok, get_ok)
      BY <2>4, RtlCycle
    <3> QED
      BY <3>1, <3>2 DEF Rtl!Next, Rtl!Results, Result
  <2> QED
    BY <2>1, <2>2, <2>3, <2>4
<1> QED
  BY <1>1, <1>2, SimInvariant, PTL DEF Spec, ImplementsRtl, Rtl!Spec

\* Seen from its users the simulated FIFO is the bounded queue the interface
\* promises: nothing is lost, duplicated or reordered, whatever order processes
\* and delta cycles come in.
THEOREM SimulationImplementsContract == Spec => ImplementsContract
<1>1. Init => Contract!Init
  BY DEF Init, Contract!Init, Contract!NoOp, Nothing
<1>2. SimInv /\ [Next]_vars => [Contract!Next]_(Contract!contractVars)
  <2> SUFFICES ASSUME SimInv, [Next]_vars PROVE [Contract!Next]_(Contract!contractVars)
    OBVIOUS
  <2>1. CASE ~Update
    <3>1. UNCHANGED <<cfg, cur, q, op>>
      BY <2>1, Invisible
    <3> QED
      BY <3>1 DEF Contract!contractVars, PassThrough, MakesRoom
  <2> QED
    BY <2>1, ContractStep
<1> QED
  BY <1>1, <1>2, SimInvariant, PTL DEF Spec, ImplementsContract, Contract!Spec
=============================================================================
