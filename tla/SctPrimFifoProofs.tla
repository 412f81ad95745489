-------------------------- MODULE SctPrimFifoProofs --------------------------
(***************************************************************************)
(* Proofs about the FIFO of approximate time simulation, for every data     *)
(* set, set of configurations (any combination of the options, not only the *)
(* ones the enclosing channels build) and set of calls.  There are four     *)
(* layers, each an inductive invariant: Inv, the counts; QInv, the queue;   *)
(* WInv, who waits in b_put() or b_get(); VInv, who peeks.                  *)
(***************************************************************************)
EXTENDS SctPrimFifo, SequenceTheorems, TLAPS

\* What the signals may hold.
Signals == [put_req : BOOLEAN, get_req : BOOLEAN, has_reset : BOOLEAN,
            put_req_d : BOOLEAN, get_req_d : BOOLEAN, put_data : Data,
            element_num_d : 0 .. cfg.fifoSize, get_data : Data,
            get_data_next : Data, put_done : BOOLEAN,
            put_op : PutOpKinds, put_val : Data, get_op : GetOpKinds]

\* What the plain variables may hold.
Core == [hasReset : BOOLEAN, getIndx : Indx, putIndx : Indx,
         elemNum : 0 .. cfg.fifoSize, buffer : [Indx -> Data]]

\* The processes the kernel runs.
Processes == {"put", "get", "peek", "update", "resetProc"}

\* The type of every variable; an event waits for the phase its process kind asks for.
Types ==
    /\ cfg \in Configs
    /\ cur \in Signals /\ nxt \in Signals /\ core \in Core
    /\ runnable \subseteq Processes
    /\ timed \subseteq Timed
    /\ delta \subseteq {"put", "get", "peek"} \ Timed
    /\ rst \in BOOLEAN /\ edge \in {"none", "time", "reset"}
    /\ put_ok \in Result /\ get_ok \in Result /\ seen \in Result
    /\ blocked \in [put : BOOLEAN, get : BOOLEAN]

\* Which processes run in which phase: threads and updateProc at an edge, methods in
\* the delta cycles, after the release of reset only resetProc.
Phases ==
    /\ edge = "none" => "resetProc" \notin runnable /\ runnable \cap Timed = {}
    /\ edge = "time" => runnable \subseteq Timed
    /\ edge = "reset" => /\ "update" \notin runnable
                         /\ ~rst => runnable \subseteq {"resetProc"}

\* The signals updateProc writes.
Shown(s) == <<s.element_num_d, s.get_data, s.get_data_next, s.put_req_d, s.get_req_d,
              s.put_done>>

\* The signals show the buffer.  At an edge at which updateProc has run, or did not
\* have to, the new copies of the requests are the requests seen at the edge.
Mirror ==
    /\ nxt.element_num_d = core.elemNum
    /\ nxt.get_data = core.buffer[core.getIndx]
    /\ nxt.get_data_next = core.buffer[NextIndx(core.getIndx)]
    /\ edge # "time" \/ "update" \in runnable => Shown(cur) = Shown(nxt)
    /\ edge = "time" /\ "update" \notin runnable =>
          nxt.put_req_d = cur.put_req /\ nxt.get_req_d = cur.get_req

\* has_reset has been toggled and updateProc has not yet cleared the buffer.
ResetAsked == nxt.has_reset # core.hasReset

\* Reset is active and the buffer not yet cleared.
Resetting == rst /\ ("resetProc" \in runnable \/ ResetAsked)

\* A toggle of has_reset is never missed: updateProc is on its way to it and reset
\* stays active until then; under reset the methods of the design ask for nothing.
ResetSeen ==
    /\ ResetAsked => rst /\ "update" \in (IF edge = "time" THEN runnable ELSE timed)
    /\ edge = "reset" =>
          /\ cur.has_reset = core.hasReset
          /\ "resetProc" \in runnable => nxt.has_reset = cur.has_reset
          /\ rst => Resetting
    /\ edge # "reset" => cur.has_reset = nxt.has_reset
    /\ rst => nxt.put_op = "clear" /\ nxt.get_op = "clear"
    /\ edge = "none" => cur.put_op = nxt.put_op /\ cur.get_op = nxt.get_op

\* Who writes requests: a thread at an edge, a method in the delta cycles; before it
\* has run in a phase its request is the one that was seen.
Writers ==
    /\ edge = "time" =>
          /\ rst \/ ~cfg.cthread_put \/ "put" \in runnable => nxt.put_req = cur.put_req
          /\ rst \/ ~cfg.cthread_get \/ "get" \in runnable => nxt.get_req = cur.get_req
    /\ edge = "none" =>
          /\ cfg.cthread_put \/ "put" \in runnable => nxt.put_req = cur.put_req
          /\ cfg.cthread_get \/ "get" \in runnable => nxt.get_req = cur.get_req

\* A put asked for that updateProc of the next period performs.
NewPut == IF edge = "time" THEN nxt.put_req # cur.put_req ELSE PutPending(nxt)

\* The same for a get.
NewGet == IF edge = "time" THEN nxt.get_req # cur.get_req ELSE GetPending(nxt)

\* updateProc is on its way to every request, and reset leaves none behind.
Requests ==
    /\ NewPut \/ NewGet => "update" \in timed
    /\ rst /\ ~Resetting => ~NewPut /\ ~NewGet

\* The number of elements when the updateProc of this edge is done.
Elements == IF "update" \in runnable
            THEN core.elemNum + (IF PutPending(cur) THEN 1 ELSE 0)
                              - (IF GetPending(cur) THEN 1 ELSE 0)
            ELSE core.elemNum

\* A put (p) that fits beside n elements and a get (g).
LegalPut(p, g, n) == p => \/ n < cfg.fifoSize
                          \/ g /\ ~cfg.cthread_put /\ (~cfg.sync_ready \/ cfg.cthread_get)

\* A get (g) for which n elements and a put (p) leave something.
LegalGet(p, g, n) == g => n > 0 \/ (p /\ ~cfg.cthread_get /\ ~cfg.sync_valid)

\* A method that withdraws a request has told the method that relied on it.
Withdrawn ==
    edge = "none" =>
    /\ ~cfg.cthread_put /\ ~cfg.cthread_get /\ ~cfg.sync_ready
       /\ GetPending(cur) /\ ~GetPending(nxt) => "put" \in delta
    /\ ~cfg.cthread_put /\ ~cfg.cthread_get /\ ~cfg.sync_valid
       /\ PutPending(cur) /\ ~PutPending(nxt) => "get" \in delta

\* updateProc is asked for what the buffer can do: the requests it is about to
\* perform are legal, and so are the ones collected for the next period unless a
\* method that will revise them is still to run.
Legal ==
    /\ "update" \in runnable /\ cur.has_reset = core.hasReset =>
          /\ LegalPut(PutPending(cur), GetPending(cur), core.elemNum)
          /\ LegalGet(PutPending(cur), GetPending(cur), core.elemNum)
    /\ ~Resetting =>
          /\ "put" \in runnable \cup delta \/ LegalPut(NewPut, NewGet, Elements)
          /\ "get" \in runnable \cup delta \/ LegalGet(NewPut, NewGet, Elements)

\* At an edge the registered count and the requests seen with it tell the number of
\* elements, and were legal.
AtEdge ==
    edge = "time" /\ ~rst =>
        /\ Elements = cur.element_num_d + (IF PutPending(cur) THEN 1 ELSE 0)
                                        - (IF GetPending(cur) THEN 1 ELSE 0)
        /\ LegalPut(PutPending(cur), GetPending(cur), cur.element_num_d)
        /\ LegalGet(PutPending(cur), GetPending(cur), cur.element_num_d)

\* The inductive invariant of the counts.
Inv == Types /\ Phases /\ Mirror /\ ResetSeen /\ Writers /\ Requests /\ Withdrawn /\ Legal
       /\ AtEdge

-----------------------------------------------------------------------------
(* What the steps of the processes do to the signals.                        *)

\* The options are Booleans and there is at least one slot.
LEMMA ConfigType ==
    ASSUME cfg \in Configs
    PROVE  /\ cfg.cthread_put \in BOOLEAN /\ cfg.cthread_get \in BOOLEAN
           /\ cfg.sync_valid \in BOOLEAN /\ cfg.sync_ready \in BOOLEAN
           /\ cfg.USE_ELEM_NUM \in BOOLEAN
           /\ cfg.targ_init \in BOOLEAN /\ cfg.targ_init_sync \in BOOLEAN
           /\ cfg.fifoSize \in Nat /\ cfg.fifoSize > 0
           /\ cfg.peek \in {"none", "method", "thread"}
<1>1. cfg \in Config
  BY ConfigsAssumption
<1> QED BY <1>1 DEF Config

\* What the signals are made of.
LEMMA SignalType ==
    ASSUME NEW s \in Signals
    PROVE  /\ s.put_req \in BOOLEAN /\ s.get_req \in BOOLEAN
           /\ s.has_reset \in BOOLEAN /\ s.put_done \in BOOLEAN
           /\ s.put_req_d \in BOOLEAN /\ s.get_req_d \in BOOLEAN
           /\ s.put_data \in Data /\ s.get_data \in Data
           /\ s.get_data_next \in Data /\ s.put_val \in Data
           /\ s.element_num_d \in 0 .. cfg.fifoSize
           /\ s.put_op \in PutOpKinds /\ s.get_op \in GetOpKinds
BY DEF Signals

\* An index is followed by an index.
LEMMA NextIndxType ==
    ASSUME cfg \in Configs, NEW i \in Indx
    PROVE  NextIndx(i) \in Indx /\ 0 \in Indx
BY ConfigType DEF Indx, NextIndx

\* The outcome of a call is a result.
LEMMA OutcomeType ==
    ASSUME NEW does \in BOOLEAN, NEW d \in Data
    PROVE  Outcome(does, d) \in Result /\ Nothing \in Result
BY DataAssumption DEF Outcome, Result, Nothing

\* The data a get returns is data.
LEMMA GetDataType ==
    ASSUME NEW s \in Signals
    PROVE  getData(s) \in Data
BY SignalType DEF getData

\* Which events wait for the next clock period.
LEMMA TimedEvents ==
    /\ "update" \in Timed
    /\ "put" \in Timed <=> cfg.cthread_put
    /\ "get" \in Timed <=> cfg.cthread_get
    /\ "peek" \in Timed <=> cfg.peek = "thread"
    /\ "resetProc" \notin Timed
    /\ Timed \subseteq {"put", "get", "peek", "update"}
BY DEF Timed, When

\* A notification adds events, each to the set its process kind asks for.
LEMMA Notified ==
    ASSUME NEW events \in SUBSET {"put", "get", "peek", "update"},
           Notify(events), timed \subseteq Timed,
           delta \subseteq {"put", "get", "peek"} \ Timed
    PROVE  /\ timed \subseteq timed' /\ delta \subseteq delta'
           /\ timed' \subseteq Timed
           /\ delta' \subseteq {"put", "get", "peek"} \ Timed
           /\ \A e \in events : IF e \in Timed THEN e \in timed' ELSE e \in delta'
BY TimedEvents DEF Notify


-----------------------------------------------------------------------------
(* What a call does: it waits, it changes nothing, or it succeeds.           *)

\* A thread in its reset section, or in b_put() without room.
PutSleeps ==
    /\ cfg.cthread_put /\ UNCHANGED <<nxt, delta, timed>> /\ put_ok' = Nothing
    /\ blocked' = [blocked EXCEPT !.put = ~rst]
    /\ rst \/ ~putReady(cur)

\* clear_put(), or a put() that returns FALSE.
PutRefuses ==
    /\ cfg.cthread_put => ~rst /\ ~blocked.put
    /\ ~cfg.cthread_put => ~(cur.put_op = "put" /\ putReady(cur))
    /\ \E d \in Data : nxt' = [nxt EXCEPT !.put_req = NewPutReq(FALSE), !.put_data = d]
    /\ Notify(ClearPutNotifies)
    /\ put_ok' = Nothing
    /\ UNCHANGED blocked

\* A put() that succeeds.
PutDoes(d) ==
    /\ cfg.cthread_put => ~rst
    /\ ~cfg.cthread_put => cur.put_op = "put" /\ d = cur.put_val
    /\ putReady(cur)
    /\ nxt' = [nxt EXCEPT !.put_req = NewPutReq(TRUE), !.put_data = d]
    /\ Notify(ClearPutNotifies \cup PutNotifies)
    /\ put_ok' = [done |-> TRUE, data |-> d]
    /\ blocked' = [blocked EXCEPT !.put = IF cfg.cthread_put THEN FALSE ELSE blocked.put]

\* A run of the PUT process.
PutStep == /\ PutRuns /\ PutFrame
           /\ PutSleeps \/ PutRefuses \/ \E d \in Data : PutDoes(d)

\* A thread in its reset section, or in b_get() without an element.
GetSleeps ==
    /\ cfg.cthread_get /\ UNCHANGED <<nxt, delta, timed>> /\ get_ok' = Nothing
    /\ blocked' = [blocked EXCEPT !.get = ~rst]
    /\ rst \/ ~outValid(cur)

\* clear_get(), or a get() that returns FALSE.
GetRefuses ==
    /\ cfg.cthread_get => ~rst /\ ~blocked.get
    /\ ~cfg.cthread_get => ~(cur.get_op \in {"get", "get_enable"} /\ outValid(cur))
    /\ nxt' = [nxt EXCEPT !.get_req = NewGetReq(FALSE)]
    /\ Notify(ClearGetNotifies)
    /\ get_ok' = Nothing
    /\ UNCHANGED blocked

\* A get() that succeeds.
GetDoes(notifies) ==
    /\ cfg.cthread_get => ~rst
    /\ ~cfg.cthread_get => cur.get_op \in {"get", "get_enable"}
    /\ outValid(cur)
    /\ nxt' = [nxt EXCEPT !.get_req = NewGetReq(TRUE)]
    /\ Notify(ClearGetNotifies \cup notifies)
    /\ get_ok' = [done |-> TRUE, data |-> getData(cur)]
    /\ blocked' = [blocked EXCEPT !.get = IF cfg.cthread_get THEN FALSE ELSE blocked.get]

\* A run of the GET process.
GetStep == /\ GetRuns /\ GetFrame
           /\ \/ GetSleeps \/ GetRefuses \/ GetDoes(GetNotifies)
              \/ GetDoes(GetEnableNotifies) /\ "get_enable" \in GetOp

\* Every run of the PUT process is one of these.
LEMMA PutProcIsStep ==
    ASSUME Types, PutProc
    PROVE  PutStep
<1> USE ConfigType, SignalType, DataAssumption
<1>t. /\ cfg \in Configs /\ cur \in Signals /\ nxt \in Signals /\ rst \in BOOLEAN
      /\ blocked \in [put : BOOLEAN, get : BOOLEAN]
  BY DEF Types
<1>u. blocked = [blocked EXCEPT !.put = blocked.put]
  BY <1>t
<1>1. CASE reset_put
  BY <1>1, <1>t DEF reset_put, PutStep, PutSleeps
<1>2. CASE clear_put
  BY <1>2, <1>t DEF clear_put, PutStep, PutRefuses
<1>3. ASSUME NEW d \in Data, NEW mask \in BOOLEAN, put(d, mask),
             mask => "put" \in PutOp, ~mask => "mask" \in PutOp
      PROVE  PutStep
  <2> DEFINE does == putReady(cur) /\ mask
  <2>1. /\ PutRuns /\ PutFrame /\ UNCHANGED blocked
        /\ IF cfg.cthread_put THEN ~rst /\ ~blocked.put ELSE d = cur.put_val
        /\ nxt' = [nxt EXCEPT !.put_req = NewPutReq(does),
                              !.put_data = IF does THEN d
                                           ELSE IF cfg.cthread_put THEN nxt.put_data
                                           ELSE ZERO]
        /\ Notify(ClearPutNotifies \cup IF does THEN PutNotifies ELSE {})
        /\ put_ok' = Outcome(does, d)
    BY <1>3 DEF put
  <2>2. ~cfg.cthread_put => cur.put_op = IF mask THEN "put" ELSE "mask"
    BY <1>3 DEF PutOp
  <2>3. CASE does
    BY <2>1, <2>2, <2>3, <1>t, <1>u DEF PutStep, PutDoes, Outcome
  <2>4. CASE ~does
    <3>1. ClearPutNotifies \cup {} = ClearPutNotifies
      OBVIOUS
    <3>2. NewPutReq(does) = NewPutReq(FALSE)
      BY <2>4 DEF NewPutReq
    <3> HIDE DEF does
    <3>3. /\ Notify(ClearPutNotifies) /\ put_ok' = Nothing
          /\ nxt' = [nxt EXCEPT !.put_req = NewPutReq(FALSE),
                                !.put_data = IF cfg.cthread_put THEN nxt.put_data
                                             ELSE ZERO]
      BY <2>1, <2>4, <3>1, <3>2 DEF Outcome
    <3>4. ~cfg.cthread_put => ~(cur.put_op = "put" /\ putReady(cur))
      BY <2>2, <2>4 DEF does
    <3> QED BY <2>1, <3>3, <3>4, <1>t DEF PutStep, PutRefuses
  <2> QED BY <2>3, <2>4
<1>4. ASSUME NEW d \in Data, b_put(d) PROVE PutStep
  <2>1. CASE putReady(cur)
    <3>1. ClearPutNotifies \cup PutNotifies = PutNotifies
      BY <1>4 DEF ClearPutNotifies, b_put
    <3> QED BY <1>4, <2>1, <3>1, <1>t DEF b_put, PutStep, PutDoes, Outcome
  <2>2. CASE ~putReady(cur)
    BY <1>4, <2>2, <1>t DEF b_put, PutStep, PutSleeps
  <2> QED BY <2>1, <2>2
<1> QED BY <1>1, <1>2, <1>3, <1>4 DEF PutProc

\* Every run of the GET process is one of these.
LEMMA GetProcIsStep ==
    ASSUME Types, GetProc
    PROVE  GetStep
<1> USE ConfigType, SignalType, DataAssumption
<1>t. /\ cfg \in Configs /\ cur \in Signals /\ nxt \in Signals /\ rst \in BOOLEAN
      /\ blocked \in [put : BOOLEAN, get : BOOLEAN]
  BY DEF Types
<1>u. blocked = [blocked EXCEPT !.get = blocked.get]
  BY <1>t
<1>1. CASE reset_get
  BY <1>1, <1>t DEF reset_get, GetStep, GetSleeps
<1>2. CASE clear_get
  BY <1>2, <1>t DEF clear_get, GetStep, GetRefuses
<1>3. ASSUME NEW enable \in BOOLEAN, NEW notifies,
             \/ notifies = GetNotifies
             \/ /\ notifies = GetEnableNotifies
                /\ enable => "get_enable" \in GetOp,
             get(enable, notifies),
             enable => "get" \in GetOp \/ "get_enable" \in GetOp,
             ~enable => "mask" \in GetOp
      PROVE  GetStep
  <2> DEFINE does == outValid(cur) /\ enable
  <2>1. /\ GetRuns /\ GetFrame /\ UNCHANGED blocked
        /\ cfg.cthread_get => ~rst /\ ~blocked.get
        /\ nxt' = [nxt EXCEPT !.get_req = NewGetReq(does)]
        /\ Notify(ClearGetNotifies \cup IF does THEN notifies ELSE {})
        /\ get_ok' = Outcome(does, getData(cur))
    BY <1>3 DEF get
  <2>2. ~cfg.cthread_get => IF enable THEN cur.get_op \in {"get", "get_enable"}
                                      ELSE cur.get_op = "mask"
    BY <1>3 DEF GetOp
  <2>3. CASE does
    <3>1. GetDoes(notifies)
      BY <2>1, <2>2, <2>3, <1>t, <1>u DEF GetDoes, Outcome
    <3> QED BY <2>1, <2>3, <3>1, <1>3 DEF GetStep
  <2>4. CASE ~does
    <3>1. ClearGetNotifies \cup {} = ClearGetNotifies
      OBVIOUS
    <3>2. NewGetReq(does) = NewGetReq(FALSE)
      BY <2>4 DEF NewGetReq
    <3>4. ~cfg.cthread_get =>
             ~(cur.get_op \in {"get", "get_enable"} /\ outValid(cur))
      BY <2>2, <2>4
    <3> HIDE DEF does
    <3>3. /\ Notify(ClearGetNotifies) /\ get_ok' = Nothing
          /\ nxt' = [nxt EXCEPT !.get_req = NewGetReq(FALSE)]
      BY <2>1, <2>4, <3>1, <3>2 DEF Outcome
    <3> QED BY <2>1, <3>3, <3>4, <1>t DEF GetStep, GetRefuses
  <2> QED BY <2>3, <2>4
<1>4. CASE b_get
  <2>1. CASE outValid(cur)
    <3>1. ClearGetNotifies \cup GetNotifies = GetNotifies
      BY <1>4 DEF ClearGetNotifies, When, b_get
    <3> QED BY <1>4, <2>1, <3>1, <1>t DEF b_get, GetStep, GetDoes, Outcome
  <2>2. CASE ~outValid(cur)
    BY <1>4, <2>2, <1>t DEF b_get, GetStep, GetSleeps
  <2> QED BY <2>1, <2>2
<1>5. CASE "get" \in GetOp /\ get(TRUE, GetNotifies)
  <2>1. GetNotifies = GetNotifies
    OBVIOUS
  <2> QED BY <1>5, <1>3, <2>1, Zenon
<1>6. CASE "get_enable" \in GetOp /\ get(TRUE, GetEnableNotifies)
  BY <1>6, <1>3
<1>7. CASE "mask" \in GetOp /\ get(FALSE, GetEnableNotifies)
  BY <1>7, <1>3
<1> QED BY <1>1, <1>2, <1>4, <1>5, <1>6, <1>7 DEF GetProc


\* The events the calls notify.
LEMMA NotifyTypes ==
    /\ ClearPutNotifies \in SUBSET {"put", "get", "peek", "update"}
    /\ ClearGetNotifies \in SUBSET {"put", "get", "peek", "update"}
    /\ ClearPutNotifies \cup PutNotifies \in SUBSET {"put", "get", "peek", "update"}
    /\ ClearGetNotifies \cup GetNotifies \in SUBSET {"put", "get", "peek", "update"}
    /\ ClearGetNotifies \cup GetEnableNotifies
          \in SUBSET {"put", "get", "peek", "update"}
    /\ "update" \in PutNotifies /\ "update" \in GetNotifies
    /\ "update" \in GetEnableNotifies
<1>1. /\ ClearPutNotifies \subseteq {"get", "peek"}
      /\ ClearGetNotifies \subseteq {"put"}
  BY DEF ClearPutNotifies, ClearGetNotifies, When
<1>2. PutNotifies \subseteq {"put", "get", "peek", "update"} /\ "update" \in PutNotifies
  BY DEF PutNotifies, When
<1>3. /\ GetEnableNotifies \subseteq {"put", "get", "peek", "update"}
      /\ "update" \in GetEnableNotifies
  BY DEF GetEnableNotifies, When
<1>4. GetNotifies \subseteq {"put", "get", "peek", "update"} /\ "update" \in GetNotifies
  BY <1>3 DEF GetNotifies, When
<1> QED BY <1>1, <1>2, <1>3, <1>4

\* Two states of the signals that differ in the put request at most.
SamePutBut(s, t) ==
    /\ t.get_req = s.get_req /\ t.has_reset = s.has_reset
    /\ t.put_req_d = s.put_req_d /\ t.get_req_d = s.get_req_d
    /\ t.element_num_d = s.element_num_d /\ t.get_data = s.get_data
    /\ t.get_data_next = s.get_data_next /\ t.put_done = s.put_done
    /\ t.put_op = s.put_op /\ t.put_val = s.put_val /\ t.get_op = s.get_op
\* The same for the get request.
SameGetBut(s, t) ==
    /\ t.put_req = s.put_req /\ t.has_reset = s.has_reset
    /\ t.put_req_d = s.put_req_d /\ t.get_req_d = s.get_req_d
    /\ t.put_data = s.put_data
    /\ t.element_num_d = s.element_num_d /\ t.get_data = s.get_data
    /\ t.get_data_next = s.get_data_next /\ t.put_done = s.put_done
    /\ t.put_op = s.put_op /\ t.put_val = s.put_val /\ t.get_op = s.get_op

\* A new request is a Boolean.
LEMMA NewReqType ==
    ASSUME Types, NEW does \in BOOLEAN
    PROVE  NewPutReq(does) \in BOOLEAN /\ NewGetReq(does) \in BOOLEAN
BY ConfigType, SignalType DEF Types, NewPutReq, NewGetReq

\* Writing the get request.
LEMMA GetWrite ==
    ASSUME NEW s \in Signals, NEW r \in BOOLEAN
    PROVE  LET t == [s EXCEPT !.get_req = r] IN
           t \in Signals /\ SameGetBut(s, t) /\ t.get_req = r
BY DEF Signals, SameGetBut

\* What a run of the PUT process leaves alone, and what becomes of its request.
LEMMA PutFields ==
    ASSUME Types, PutStep
    PROVE  /\ nxt' \in Signals /\ SamePutBut(nxt, nxt')
           /\ timed \subseteq timed' /\ delta \subseteq delta'
           /\ timed' \subseteq Timed /\ delta' \subseteq {"put", "get", "peek"} \ Timed
           /\ ~cfg.cthread_put =>
                 \A e \in ClearPutNotifies : IF e \in Timed THEN e \in timed' ELSE e \in delta'
           /\ \/ /\ nxt'.put_req = nxt.put_req
                 /\ cfg.cthread_put /\ (rst \/ ~putReady(cur))
              \/ /\ nxt'.put_req = NewPutReq(FALSE)
                 /\ cfg.cthread_put => ~rst
              \/ /\ nxt'.put_req = NewPutReq(TRUE)
                 /\ putReady(cur)
                 /\ cfg.cthread_put => ~rst
                 /\ ~cfg.cthread_put => cur.put_op = "put"
                 /\ "update" \in timed'
           /\ put_ok' \in Result
           /\ blocked' \in [put : BOOLEAN, get : BOOLEAN] /\ blocked'.get = blocked.get
<1>t. /\ cfg \in Configs /\ cur \in Signals /\ nxt \in Signals /\ rst \in BOOLEAN
      /\ blocked \in [put : BOOLEAN, get : BOOLEAN]
      /\ timed \subseteq Timed /\ delta \subseteq {"put", "get", "peek"} \ Timed
  BY DEF Types
<1>n. Nothing \in Result
  BY DataAssumption DEF Nothing, Result
<1>b. cfg.cthread_put \in BOOLEAN
  BY <1>t, ConfigType
<1>1. CASE PutSleeps
  BY <1>1, <1>t, <1>n DEF PutSleeps, SamePutBut
<1>2. CASE PutRefuses
  <2>1. PICK d \in Data :
           nxt' = [nxt EXCEPT !.put_req = NewPutReq(FALSE), !.put_data = d]
    BY <1>2 DEF PutRefuses
  <2>2. /\ nxt' \in Signals /\ SamePutBut(nxt, nxt')
        /\ nxt'.put_req = NewPutReq(FALSE)
    <3>1. NewPutReq(FALSE) \in BOOLEAN
      BY NewReqType
    <3> QED BY <2>1, <3>1, <1>t DEF Signals, SamePutBut
  <2>3. Notify(ClearPutNotifies) /\ put_ok' = Nothing /\ blocked' = blocked
        /\ (cfg.cthread_put => ~rst)
    BY <1>2 DEF PutRefuses
  <2>4. /\ timed \subseteq timed' /\ delta \subseteq delta'
        /\ timed' \subseteq Timed /\ delta' \subseteq {"put", "get", "peek"} \ Timed
        /\ \A e \in ClearPutNotifies : IF e \in Timed THEN e \in timed' ELSE e \in delta'
    BY <2>3, <1>t, Notified, NotifyTypes
  <2> QED BY <2>2, <2>3, <2>4, <1>t, <1>n
<1>3. ASSUME NEW d \in Data, PutDoes(d)
      PROVE  /\ nxt' \in Signals /\ SamePutBut(nxt, nxt')
             /\ timed \subseteq timed' /\ delta \subseteq delta'
             /\ timed' \subseteq Timed
             /\ delta' \subseteq {"put", "get", "peek"} \ Timed
             /\ \A e \in ClearPutNotifies :
                    IF e \in Timed THEN e \in timed' ELSE e \in delta'
             /\ nxt'.put_req = NewPutReq(TRUE)
             /\ putReady(cur)
             /\ cfg.cthread_put => ~rst
             /\ ~cfg.cthread_put => cur.put_op = "put"
             /\ "update" \in timed'
             /\ put_ok' \in Result
             /\ blocked' \in [put : BOOLEAN, get : BOOLEAN]
             /\ blocked'.get = blocked.get
  <2>2. /\ nxt' \in Signals /\ SamePutBut(nxt, nxt')
        /\ nxt'.put_req = NewPutReq(TRUE)
    <3>1. NewPutReq(TRUE) \in BOOLEAN
      BY NewReqType
    <3>2. nxt' = [nxt EXCEPT !.put_req = NewPutReq(TRUE), !.put_data = d]
      BY <1>3 DEF PutDoes
    <3> QED BY <3>1, <3>2, <1>t DEF Signals, SamePutBut
  <2>3. /\ Notify(ClearPutNotifies \cup PutNotifies)
        /\ put_ok' = [done |-> TRUE, data |-> d]
        /\ blocked' = [blocked EXCEPT !.put = IF cfg.cthread_put THEN FALSE
                                              ELSE blocked.put]
    BY <1>3 DEF PutDoes
  <2>4. /\ timed \subseteq timed' /\ delta \subseteq delta'
        /\ timed' \subseteq Timed /\ delta' \subseteq {"put", "get", "peek"} \ Timed
        /\ \A e \in ClearPutNotifies \cup PutNotifies :
               IF e \in Timed THEN e \in timed' ELSE e \in delta'
    BY <2>3, <1>t, Notified, NotifyTypes
  <2>5. "update" \in timed'
    BY <2>4, NotifyTypes, TimedEvents
  <2>6. put_ok' \in Result
    BY <2>3 DEF Result
  <2>7. blocked' \in [put : BOOLEAN, get : BOOLEAN] /\ blocked'.get = blocked.get
    BY <2>3, <1>t
  <2>8. /\ putReady(cur) /\ (cfg.cthread_put => ~rst)
        /\ ~cfg.cthread_put => cur.put_op = "put"
    BY <1>3 DEF PutDoes
  <2> QED BY <2>2, <2>4, <2>5, <2>6, <2>7, <2>8
<1>4. CASE \E d \in Data : PutDoes(d)
  <2>1. PICK d \in Data : PutDoes(d)
    BY <1>4
  <2> QED BY <1>3, <2>1
<1> QED BY <1>1, <1>2, <1>4 DEF PutStep

\* The same for the GET process.
LEMMA GetFields ==
    ASSUME Types, GetStep
    PROVE  /\ nxt' \in Signals /\ SameGetBut(nxt, nxt')
           /\ timed \subseteq timed' /\ delta \subseteq delta'
           /\ timed' \subseteq Timed /\ delta' \subseteq {"put", "get", "peek"} \ Timed
           /\ ~cfg.cthread_get =>
                 \A e \in ClearGetNotifies : IF e \in Timed THEN e \in timed' ELSE e \in delta'
           /\ \/ /\ nxt'.get_req = nxt.get_req
                 /\ cfg.cthread_get /\ (rst \/ ~outValid(cur))
              \/ /\ nxt'.get_req = NewGetReq(FALSE)
                 /\ cfg.cthread_get => ~rst
              \/ /\ nxt'.get_req = NewGetReq(TRUE)
                 /\ outValid(cur)
                 /\ cfg.cthread_get => ~rst
                 /\ ~cfg.cthread_get => cur.get_op # "clear"
                 /\ "update" \in timed'
           /\ get_ok' \in Result
           /\ blocked' \in [put : BOOLEAN, get : BOOLEAN] /\ blocked'.put = blocked.put
<1>t. /\ cfg \in Configs /\ cur \in Signals /\ nxt \in Signals /\ rst \in BOOLEAN
      /\ blocked \in [put : BOOLEAN, get : BOOLEAN]
      /\ timed \subseteq Timed /\ delta \subseteq {"put", "get", "peek"} \ Timed
  BY DEF Types
<1>n. Nothing \in Result
  BY DataAssumption DEF Nothing, Result
<1>b. cfg.cthread_get \in BOOLEAN
  BY <1>t, ConfigType
<1>1. CASE GetSleeps
  BY <1>1, <1>t, <1>n DEF GetSleeps, SameGetBut
<1>2. CASE GetRefuses
  <2>2. /\ nxt' \in Signals /\ SameGetBut(nxt, nxt')
        /\ nxt'.get_req = NewGetReq(FALSE)
    BY <1>2, <1>t, GetWrite, NewReqType DEF GetRefuses
  <2>3. Notify(ClearGetNotifies) /\ get_ok' = Nothing /\ blocked' = blocked
        /\ (cfg.cthread_get => ~rst)
    BY <1>2 DEF GetRefuses
  <2>4. /\ timed \subseteq timed' /\ delta \subseteq delta'
        /\ timed' \subseteq Timed /\ delta' \subseteq {"put", "get", "peek"} \ Timed
        /\ \A e \in ClearGetNotifies : IF e \in Timed THEN e \in timed' ELSE e \in delta'
    BY <2>3, <1>t, Notified, NotifyTypes
  <2> QED BY <2>2, <2>3, <2>4, <1>t, <1>n
<1>3. ASSUME NEW notifies, GetDoes(notifies),
             ClearGetNotifies \cup notifies \in SUBSET {"put", "get", "peek", "update"},
             "update" \in notifies
      PROVE  /\ nxt' \in Signals /\ SameGetBut(nxt, nxt')
             /\ timed \subseteq timed' /\ delta \subseteq delta'
             /\ timed' \subseteq Timed
             /\ delta' \subseteq {"put", "get", "peek"} \ Timed
             /\ \A e \in ClearGetNotifies :
                    IF e \in Timed THEN e \in timed' ELSE e \in delta'
             /\ nxt'.get_req = NewGetReq(TRUE)
             /\ outValid(cur)
             /\ cfg.cthread_get => ~rst
             /\ ~cfg.cthread_get => cur.get_op # "clear"
             /\ "update" \in timed'
             /\ get_ok' \in Result
             /\ blocked' \in [put : BOOLEAN, get : BOOLEAN]
             /\ blocked'.put = blocked.put
  <2>2. /\ nxt' \in Signals /\ SameGetBut(nxt, nxt')
        /\ nxt'.get_req = NewGetReq(TRUE)
    BY <1>3, <1>t, GetWrite, NewReqType DEF GetDoes
  <2>3. /\ Notify(ClearGetNotifies \cup notifies)
        /\ get_ok' = [done |-> TRUE, data |-> getData(cur)]
        /\ blocked' = [blocked EXCEPT !.get = IF cfg.cthread_get THEN FALSE
                                              ELSE blocked.get]
    BY <1>3 DEF GetDoes
  <2>4. /\ timed \subseteq timed' /\ delta \subseteq delta'
        /\ timed' \subseteq Timed /\ delta' \subseteq {"put", "get", "peek"} \ Timed
        /\ \A e \in ClearGetNotifies \cup notifies :
               IF e \in Timed THEN e \in timed' ELSE e \in delta'
    BY <2>3, <1>t, <1>3, Notified
  <2>5. "update" \in timed'
    BY <2>4, <1>3, TimedEvents
  <2>6. get_ok' \in Result
    BY <2>3, <1>t, GetDataType DEF Result
  <2>7. blocked' \in [put : BOOLEAN, get : BOOLEAN] /\ blocked'.put = blocked.put
    BY <2>3, <1>t
  <2>8. /\ outValid(cur) /\ (cfg.cthread_get => ~rst)
        /\ ~cfg.cthread_get => cur.get_op # "clear"
    BY <1>3 DEF GetDoes
  <2> QED BY <2>2, <2>4, <2>5, <2>6, <2>7, <2>8
<1>4. CASE GetDoes(GetNotifies)
  <2>1. /\ ClearGetNotifies \cup GetNotifies \in SUBSET {"put", "get", "peek", "update"}
        /\ "update" \in GetNotifies
    BY NotifyTypes
  <2> QED BY <1>3, <1>4, <2>1
<1>5. CASE GetDoes(GetEnableNotifies)
  <2>1. /\ ClearGetNotifies \cup GetEnableNotifies
              \in SUBSET {"put", "get", "peek", "update"}
        /\ "update" \in GetEnableNotifies
    BY NotifyTypes
  <2> QED BY <1>3, <1>5, <2>1
<1> QED BY <1>1, <1>2, <1>4, <1>5 DEF GetStep


-----------------------------------------------------------------------------
(* The invariant is inductive.                                               *)

\* The initial states satisfy the invariant.
LEMMA InitInv == Init => Inv
<1> SUFFICES ASSUME Init PROVE Inv
  OBVIOUS
<1>c. cfg \in Configs
  BY DEF Init
<1> USE ConfigType, <1>c
<1>0. 0 \in Indx
  BY DEF Indx
<1>1. Types
  <2>1. cur \in Signals /\ nxt \in Signals
    BY DataAssumption DEF Init, Signals, PutOpKinds, GetOpKinds
  <2>2. core \in Core
    BY <1>0, DataAssumption DEF Init, Core
  <2>3. /\ runnable \subseteq Processes
        /\ timed \subseteq Timed /\ delta \subseteq {"put", "get", "peek"} \ Timed
    BY DEF Init, Processes, When
  <2>4. Nothing \in Result
    BY DataAssumption DEF Nothing, Result
  <2> QED BY <2>1, <2>2, <2>3, <2>4 DEF Init, Types
<1>2. Phases
  BY DEF Init, Phases, When
<1>3. Mirror
  BY <1>0, NextIndxType DEF Init, Mirror, Shown
<1>4. ResetSeen /\ Writers
  BY DEF Init, ResetSeen, ResetAsked, Resetting, Writers
<1>5. Requests /\ Withdrawn /\ Legal /\ AtEdge
  BY DEF Init, Requests, Withdrawn, Legal, AtEdge, NewPut, NewGet, PutPending, GetPending,
         Resetting, When
<1> QED BY <1>1, <1>2, <1>3, <1>4, <1>5 DEF Inv

\* A run of the PUT process keeps the types.
LEMMA PutTypes ==
    ASSUME Types, PutStep
    PROVE  Types'
<1>1. UNCHANGED <<cfg, cur, core, rst, edge, get_ok, seen, q, op, resets>>
  BY DEF PutStep, PutFrame
<1>2. runnable' \subseteq Processes
  BY DEF PutStep, PutRuns, Types
<1>3. Signals' = Signals /\ Core' = Core /\ Timed' = Timed
  BY <1>1 DEF Signals, Core, Timed, Indx, When
<1> QED BY <1>1, <1>2, <1>3, PutFields DEF Types

\* A run of the GET process keeps the types.
LEMMA GetTypes ==
    ASSUME Types, GetStep
    PROVE  Types'
<1>1. UNCHANGED <<cfg, cur, core, rst, edge, put_ok, seen, q, op, resets>>
  BY DEF GetStep, GetFrame
<1>2. runnable' \subseteq Processes
  BY DEF GetStep, GetRuns, Types
<1>3. Signals' = Signals /\ Core' = Core /\ Timed' = Timed
  BY <1>1 DEF Signals, Core, Timed, Indx, When
<1> QED BY <1>1, <1>2, <1>3, GetFields DEF Types

\* There is room after the edge for what a PUT thread puts at it: putReady()
\* counts the requests that updateProc performs at the same edge.
LEMMA ThreadPutLegal ==
    ASSUME Inv, cfg.cthread_put, ~rst, edge = "time", putReady(cur)
    PROVE  Elements < cfg.fifoSize
<1>t. cfg \in Configs /\ cur \in Signals /\ core \in Core /\ nxt \in Signals
  BY DEF Inv, Types
<1>n. /\ cfg.fifoSize \in Nat /\ cfg.fifoSize > 0
      /\ cur.element_num_d \in Nat /\ cur.element_num_d <= cfg.fifoSize
  BY <1>t, ConfigType, SignalType DEF Core
<1>1. /\ PutPending(cur) => cur.element_num_d < cfg.fifoSize
      /\ GetPending(cur) => cur.element_num_d > 0 \/ PutPending(cur)
      /\ Elements = cur.element_num_d + (IF PutPending(cur) THEN 1 ELSE 0)
                                      - (IF GetPending(cur) THEN 1 ELSE 0)
  BY <1>n DEF Inv, AtEdge, LegalPut, LegalGet
<1> QED BY <1>1, <1>n DEF putReady

\* There is an element after the edge for a GET thread that gets at it.
LEMMA ThreadGetLegal ==
    ASSUME Inv, cfg.cthread_get, ~rst, edge = "time", outValid(cur)
    PROVE  Elements > 0
<1>t. cfg \in Configs /\ cur \in Signals /\ core \in Core /\ nxt \in Signals
  BY DEF Inv, Types
<1>n. /\ cfg.fifoSize \in Nat /\ cfg.fifoSize > 0
      /\ cur.element_num_d \in Nat /\ cur.element_num_d <= cfg.fifoSize
  BY <1>t, ConfigType, SignalType DEF Core
<1>1. /\ GetPending(cur) => cur.element_num_d > 0
      /\ Elements = cur.element_num_d + (IF PutPending(cur) THEN 1 ELSE 0)
                                      - (IF GetPending(cur) THEN 1 ELSE 0)
  BY <1>n DEF Inv, AtEdge, LegalPut, LegalGet
<1> QED BY <1>1, <1>n DEF outValid


\* A run of the PUT process keeps the invariant.
LEMMA PutKeeps ==
    ASSUME Inv, PutStep
    PROVE  Inv'
<1>t. /\ cfg \in Configs /\ cur \in Signals /\ nxt \in Signals /\ core \in Core
      /\ rst \in BOOLEAN /\ edge \in {"none", "time", "reset"}
      /\ nxt' \in Signals
  BY PutFields DEF Inv, Types
<1>b. /\ cfg.cthread_put \in BOOLEAN /\ cfg.cthread_get \in BOOLEAN
      /\ cfg.sync_valid \in BOOLEAN /\ cfg.sync_ready \in BOOLEAN
      /\ cur.put_req \in BOOLEAN /\ nxt.put_req \in BOOLEAN /\ nxt'.put_req \in BOOLEAN
      /\ cur.put_req_d \in BOOLEAN
      /\ core.elemNum \in Nat /\ cfg.fifoSize \in Nat
  BY <1>t, ConfigType, SignalType DEF Core
<1>f. /\ UNCHANGED <<cfg, cur, core, rst, edge>>
      /\ "put" \in runnable /\ runnable' = runnable \ {"put"}
  BY DEF PutStep, PutFrame, PutRuns
<1>g. /\ timed \subseteq timed' /\ delta \subseteq delta'
      /\ ~cfg.cthread_put /\ ~cfg.cthread_get /\ ~cfg.sync_valid /\ PutPending(cur)
            => "get" \in delta'
  <2>1. timed \subseteq timed' /\ delta \subseteq delta'
    BY PutFields DEF Inv
  <2>2. ASSUME ~cfg.cthread_put, ~cfg.cthread_get, ~cfg.sync_valid, PutPending(cur)
        PROVE  "get" \in delta'
    <3>1. "get" \in ClearPutNotifies
      BY <2>2 DEF ClearPutNotifies, When
    <3> QED BY <2>2, <3>1, PutFields, TimedEvents DEF Inv
  <2> QED BY <2>1, <2>2
<1>s. SamePutBut(nxt, nxt')
  BY PutFields DEF Inv
<1>r. \/ /\ nxt'.put_req = nxt.put_req
         /\ cfg.cthread_put /\ (rst \/ ~putReady(cur))
      \/ /\ nxt'.put_req = NewPutReq(FALSE)
         /\ cfg.cthread_put => ~rst
      \/ /\ nxt'.put_req = NewPutReq(TRUE)
         /\ putReady(cur)
         /\ cfg.cthread_put => ~rst
         /\ ~cfg.cthread_put => cur.put_op = "put"
         /\ "update" \in timed'
  BY PutFields DEF Inv
<1>k. /\ cfg.cthread_put => edge # "none"
      /\ ~cfg.cthread_put => edge # "time"
      /\ edge = "reset" => rst /\ Resetting
  BY <1>f, TimedEvents DEF Inv, Phases, ResetSeen
<1>o. cur.put_req_d = nxt.put_req_d \/ edge = "time"
  BY DEF Inv, Mirror, Shown
<1>1. Types'
  BY PutTypes DEF Inv
<1>2. Phases'
  <2>1. Timed' = Timed
    BY <1>f DEF Timed, When
  <2> QED BY <1>f, <2>1 DEF Inv, Phases
<1>3. Mirror'
  BY <1>f, <1>s DEF Inv, Mirror, SamePutBut, Shown, NextIndx
<1>4. ResetSeen'
  BY <1>f, <1>g, <1>s DEF Inv, ResetSeen, Resetting, ResetAsked, SamePutBut
<1>5. Writers'
  <2>1. edge = "time" => (rst \/ ~cfg.cthread_put => nxt'.put_req = cur.put_req)
    BY <1>f, <1>k, <1>r, <1>b DEF Inv, Writers, NewPutReq
  <2>2. edge = "none" => ~cfg.cthread_put
    BY <1>k
  <2> QED BY <1>f, <1>s, <2>1, <2>2 DEF Inv, Writers, SamePutBut
<1>6. /\ NewGet' = NewGet /\ Elements' = Elements
      /\ Resetting' = Resetting
  BY <1>f, <1>s DEF NewGet, Elements, Resetting, ResetAsked, SamePutBut, GetPending,
                    PutPending
<1>7. \/ ~NewPut'
      \/ edge = "reset" /\ NewPut /\ NewPut'
      \/ putReady(cur) /\ "update" \in timed'
         /\ (~cfg.cthread_put => cur.put_op = "put") /\ (cfg.cthread_put => ~rst)
  <2>1. CASE edge = "time"
    BY <2>1, <1>f, <1>k, <1>r, <1>b DEF NewPut, NewPutReq, Inv, Writers
  <2>2. CASE edge # "time" /\ ~cfg.cthread_put
    BY <2>2, <1>f, <1>k, <1>r, <1>b, <1>s, <1>o
    DEF NewPut, NewPutReq, PutPending, SamePutBut
  <2>3. CASE edge = "reset" /\ cfg.cthread_put
    BY <2>3, <1>f, <1>k, <1>r, <1>b, <1>s DEF NewPut, PutPending, SamePutBut
  <2> QED BY <2>1, <2>2, <2>3, <1>k, <1>t
<1>8. Requests'
  <2>1. NewPut' \/ NewGet' => "update" \in timed'
    BY <1>6, <1>7, <1>g DEF Inv, Requests
  <2>2. ASSUME rst, ~Resetting PROVE ~NewPut' /\ ~NewGet'
    <3>1. cur.put_op = "clear" \/ edge = "time"
      BY <1>k, <1>t, <2>2 DEF Inv, ResetSeen
    <3> QED BY <3>1, <2>2, <1>6, <1>7, <1>k DEF Inv, Requests
  <2> QED BY <1>f, <1>6, <2>1, <2>2 DEF Requests
<1>9. Withdrawn'
  BY <1>f, <1>g, <1>s DEF Inv, Withdrawn, SamePutBut, PutPending, GetPending
<1>10. Legal'
  <2>1. ASSUME ~Resetting
        PROVE  /\ "put" \in delta' \/ LegalPut(NewPut', NewGet, Elements)
               /\ "get" \in runnable \cup delta' \/ LegalGet(NewPut', NewGet, Elements)
    <3>1. "put" \in delta' \/ LegalPut(NewPut', NewGet, Elements)
      <4>1. CASE ~NewPut'
        BY <4>1 DEF LegalPut
      <4>2. CASE NewPut' /\ cfg.cthread_put
        BY <4>2, <2>1, <1>7, <1>k, <1>t, ThreadPutLegal DEF LegalPut
      <4>3. CASE NewPut' /\ ~cfg.cthread_put
        <5>1. edge = "none" /\ putReady(cur)
          BY <4>3, <2>1, <1>7, <1>k, <1>t
        <5>2. Elements = cur.element_num_d /\ NewGet = GetPending(nxt)
          BY <5>1, TimedEvents DEF Inv, Phases, Mirror, Shown, Elements, NewGet
        <5>3. cfg.cthread_get => GetPending(nxt) = GetPending(cur)
          BY <5>1 DEF Inv, Writers, Mirror, Shown, GetPending
        <5>4. ~cfg.cthread_get /\ ~cfg.sync_ready /\ GetPending(cur) /\ ~GetPending(nxt)
                 => "put" \in delta'
          BY <4>3, <5>1, <1>g DEF Inv, Withdrawn
        <5>5. cur.element_num_d \in Nat /\ cur.element_num_d <= cfg.fifoSize
          BY <1>t, <1>b, SignalType
        <5>6. \/ cur.element_num_d < cfg.fifoSize
              \/ /\ ~cfg.sync_ready \/ cfg.cthread_get
                 /\ GetPending(cur)
          BY <5>1, <5>5, <4>3, <1>b DEF putReady
        <5> QED BY <5>2, <5>3, <5>4, <5>6, <4>3, <1>b DEF LegalPut
      <4> QED BY <4>1, <4>2, <4>3
    <3>2. "get" \in runnable \cup delta' \/ LegalGet(NewPut', NewGet, Elements)
      <4>1. "get" \in runnable \cup delta \/ LegalGet(NewPut, NewGet, Elements)
        BY <2>1 DEF Inv, Legal
      <4>2. CASE ~NewPut \/ NewPut' \/ "get" \in runnable \cup delta
        BY <4>1, <4>2, <1>g DEF LegalGet
      <4>3. CASE NewPut /\ ~NewPut' /\ "get" \notin runnable \cup delta
        <5>1. edge = "none" /\ ~cfg.cthread_put
          BY <4>3, <2>1, <1>f, <1>k, <1>t DEF NewPut, Inv, Writers
        <5>2. PutPending(cur)
          BY <4>3, <5>1, <1>f DEF NewPut, Inv, Writers, Mirror, Shown, PutPending
        <5> QED BY <4>1, <4>3, <5>1, <5>2, <1>g, <1>b DEF LegalGet
      <4> QED BY <4>2, <4>3
    <3> QED BY <3>1, <3>2
  <2>2. ASSUME "update" \in runnable, cur.has_reset = core.hasReset
        PROVE  /\ LegalPut(PutPending(cur), GetPending(cur), core.elemNum)
               /\ LegalGet(PutPending(cur), GetPending(cur), core.elemNum)
    BY <2>2 DEF Inv, Legal
  <2> QED BY <1>f, <1>6, <2>1, <2>2
          DEF Legal, LegalPut, LegalGet, PutPending, GetPending
<1>11. AtEdge'
  BY <1>f, <1>6 DEF Inv, AtEdge, LegalPut, LegalGet, PutPending, GetPending
<1> QED BY <1>1, <1>2, <1>3, <1>4, <1>5, <1>8, <1>9, <1>10, <1>11 DEF Inv


\* A run of the GET process keeps the invariant.
LEMMA GetKeeps ==
    ASSUME Inv, GetStep
    PROVE  Inv'
<1>t. /\ cfg \in Configs /\ cur \in Signals /\ nxt \in Signals /\ core \in Core
      /\ rst \in BOOLEAN /\ edge \in {"none", "time", "reset"}
      /\ nxt' \in Signals
  BY GetFields DEF Inv, Types
<1>b. /\ cfg.cthread_put \in BOOLEAN /\ cfg.cthread_get \in BOOLEAN
      /\ cfg.sync_valid \in BOOLEAN /\ cfg.sync_ready \in BOOLEAN
      /\ cur.get_req \in BOOLEAN /\ nxt.get_req \in BOOLEAN /\ nxt'.get_req \in BOOLEAN
      /\ cur.get_req_d \in BOOLEAN
      /\ core.elemNum \in Nat /\ cfg.fifoSize \in Nat
  BY <1>t, ConfigType, SignalType DEF Core
<1>f. /\ UNCHANGED <<cfg, cur, core, rst, edge>>
      /\ "get" \in runnable /\ runnable' = runnable \ {"get"}
  BY DEF GetStep, GetFrame, GetRuns
<1>g. /\ timed \subseteq timed' /\ delta \subseteq delta'
      /\ ~cfg.cthread_put /\ ~cfg.cthread_get /\ ~cfg.sync_ready /\ GetPending(cur)
            => "put" \in delta'
  <2>1. timed \subseteq timed' /\ delta \subseteq delta'
    BY GetFields DEF Inv
  <2>2. ASSUME ~cfg.cthread_put, ~cfg.cthread_get, ~cfg.sync_ready, GetPending(cur)
        PROVE  "put" \in delta'
    <3>1. "put" \in ClearGetNotifies
      BY <2>2 DEF ClearGetNotifies, When
    <3> QED BY <2>2, <3>1, GetFields, TimedEvents DEF Inv
  <2> QED BY <2>1, <2>2
<1>s. SameGetBut(nxt, nxt')
  BY GetFields DEF Inv
<1>r. \/ /\ nxt'.get_req = nxt.get_req
         /\ cfg.cthread_get /\ (rst \/ ~outValid(cur))
      \/ /\ nxt'.get_req = NewGetReq(FALSE)
         /\ cfg.cthread_get => ~rst
      \/ /\ nxt'.get_req = NewGetReq(TRUE)
         /\ outValid(cur)
         /\ cfg.cthread_get => ~rst
         /\ ~cfg.cthread_get => cur.get_op # "clear"
         /\ "update" \in timed'
  BY GetFields DEF Inv
<1>k. /\ cfg.cthread_get => edge # "none"
      /\ ~cfg.cthread_get => edge # "time"
      /\ edge = "reset" => rst /\ Resetting
  BY <1>f, TimedEvents DEF Inv, Phases, ResetSeen
<1>o. cur.get_req_d = nxt.get_req_d \/ edge = "time"
  BY DEF Inv, Mirror, Shown
<1>1. Types'
  BY GetTypes DEF Inv
<1>2. Phases'
  <2>1. Timed' = Timed
    BY <1>f DEF Timed, When
  <2> QED BY <1>f, <2>1 DEF Inv, Phases
<1>3. Mirror'
  BY <1>f, <1>s DEF Inv, Mirror, SameGetBut, Shown, NextIndx
<1>4. ResetSeen'
  BY <1>f, <1>g, <1>s DEF Inv, ResetSeen, Resetting, ResetAsked, SameGetBut
<1>5. Writers'
  <2>1. edge = "time" => (rst \/ ~cfg.cthread_get => nxt'.get_req = cur.get_req)
    BY <1>f, <1>k, <1>r, <1>b DEF Inv, Writers, NewGetReq
  <2>2. edge = "none" => ~cfg.cthread_get
    BY <1>k
  <2> QED BY <1>f, <1>s, <2>1, <2>2 DEF Inv, Writers, SameGetBut
<1>6. /\ NewPut' = NewPut /\ Elements' = Elements
      /\ Resetting' = Resetting
  BY <1>f, <1>s DEF NewPut, Elements, Resetting, ResetAsked, SameGetBut, GetPending,
                    PutPending
<1>7. \/ ~NewGet'
      \/ edge = "reset" /\ NewGet /\ NewGet'
      \/ /\ outValid(cur) /\ "update" \in timed'
         /\ ~cfg.cthread_get => cur.get_op # "clear"
         /\ cfg.cthread_get => ~rst
  <2>1. CASE edge = "time"
    BY <2>1, <1>f, <1>k, <1>r, <1>b DEF NewGet, NewGetReq, Inv, Writers
  <2>2. CASE edge # "time" /\ ~cfg.cthread_get
    BY <2>2, <1>f, <1>k, <1>r, <1>b, <1>s, <1>o
    DEF NewGet, NewGetReq, GetPending, SameGetBut
  <2>3. CASE edge = "reset" /\ cfg.cthread_get
    BY <2>3, <1>f, <1>k, <1>r, <1>b, <1>s DEF NewGet, GetPending, SameGetBut
  <2> QED BY <2>1, <2>2, <2>3, <1>k, <1>t
<1>8. Requests'
  <2>1. NewPut' \/ NewGet' => "update" \in timed'
    BY <1>6, <1>7, <1>g DEF Inv, Requests
  <2>2. ASSUME rst, ~Resetting PROVE ~NewPut' /\ ~NewGet'
    <3>1. cur.get_op = "clear" \/ edge = "time"
      BY <1>k, <1>t, <2>2 DEF Inv, ResetSeen
    <3> QED BY <3>1, <2>2, <1>6, <1>7, <1>k DEF Inv, Requests
  <2> QED BY <1>f, <1>6, <2>1, <2>2 DEF Requests
<1>9. Withdrawn'
  BY <1>f, <1>g, <1>s DEF Inv, Withdrawn, SameGetBut, PutPending, GetPending
<1>10. Legal'
  <2>1. ASSUME ~Resetting
        PROVE  /\ "get" \in delta' \/ LegalGet(NewPut, NewGet', Elements)
               /\ "put" \in runnable \cup delta' \/ LegalPut(NewPut, NewGet', Elements)
    <3>1. "get" \in delta' \/ LegalGet(NewPut, NewGet', Elements)
      <4>1. CASE ~NewGet'
        BY <4>1 DEF LegalGet
      <4>2. CASE NewGet' /\ cfg.cthread_get
        BY <4>2, <2>1, <1>7, <1>k, <1>t, ThreadGetLegal DEF LegalGet
      <4>3. CASE NewGet' /\ ~cfg.cthread_get
        <5>1. edge = "none" /\ outValid(cur)
          BY <4>3, <2>1, <1>7, <1>k, <1>t
        <5>2. Elements = cur.element_num_d /\ NewPut = PutPending(nxt)
          BY <5>1, TimedEvents DEF Inv, Phases, Mirror, Shown, Elements, NewPut
        <5>3. cfg.cthread_put => PutPending(nxt) = PutPending(cur)
          BY <5>1 DEF Inv, Writers, Mirror, Shown, PutPending
        <5>4. ~cfg.cthread_put /\ ~cfg.sync_valid /\ PutPending(cur) /\ ~PutPending(nxt)
                 => "get" \in delta'
          BY <4>3, <5>1, <1>g DEF Inv, Withdrawn
        <5>5. cur.element_num_d \in Nat
          BY <1>t, <1>b, SignalType
        <5>6. \/ cur.element_num_d > 0
              \/ ~cfg.sync_valid /\ PutPending(cur)
          BY <5>1, <5>5, <4>3, <1>b DEF outValid
        <5> QED BY <5>2, <5>3, <5>4, <5>6, <4>3, <1>b DEF LegalGet
      <4> QED BY <4>1, <4>2, <4>3
    <3>2. "put" \in runnable \cup delta' \/ LegalPut(NewPut, NewGet', Elements)
      <4>1. "put" \in runnable \cup delta \/ LegalPut(NewPut, NewGet, Elements)
        BY <2>1 DEF Inv, Legal
      <4>2. CASE ~NewGet \/ NewGet' \/ "put" \in runnable \cup delta
        BY <4>1, <4>2, <1>g DEF LegalPut
      <4>3. CASE NewGet /\ ~NewGet' /\ "put" \notin runnable \cup delta
        <5>1. edge = "none" /\ ~cfg.cthread_get
          BY <4>3, <2>1, <1>f, <1>k, <1>t DEF NewGet, Inv, Writers
        <5>2. GetPending(cur)
          BY <4>3, <5>1, <1>f DEF NewGet, Inv, Writers, Mirror, Shown, GetPending
        <5> QED BY <4>1, <4>3, <5>1, <5>2, <1>g, <1>b DEF LegalPut
      <4> QED BY <4>2, <4>3
    <3> QED BY <3>1, <3>2
  <2>2. ASSUME "update" \in runnable, cur.has_reset = core.hasReset
        PROVE  /\ LegalPut(PutPending(cur), GetPending(cur), core.elemNum)
               /\ LegalGet(PutPending(cur), GetPending(cur), core.elemNum)
    BY <2>2 DEF Inv, Legal
  <2> QED BY <1>f, <1>6, <2>1, <2>2
          DEF Legal, LegalPut, LegalGet, PutPending, GetPending
<1>11. AtEdge'
  BY <1>f, <1>6 DEF Inv, AtEdge, LegalPut, LegalGet, PutPending, GetPending
<1> QED BY <1>1, <1>2, <1>3, <1>4, <1>5, <1>8, <1>9, <1>10, <1>11 DEF Inv


\* What a run of updateProc leaves alone, and what it writes.
SameUpdateBut(s, t) ==
    /\ t.put_req = s.put_req /\ t.get_req = s.get_req /\ t.has_reset = s.has_reset
    /\ t.put_data = s.put_data
    /\ t.put_op = s.put_op /\ t.put_val = s.put_val /\ t.get_op = s.get_op

\* The buffer updateProc leaves.
UpdateCore == IF cur.has_reset # core.hasReset THEN Cleared(core)
                                               ELSE Performed(core, cur)

\* The events updateProc notifies.
UpdateNotifies ==
    LET doPut == PutPending(cur)
        doGet == GetPending(cur)
        moved == cur.has_reset = core.hasReset /\ (doPut \/ doGet)
    IN When(moved /\ (~cfg.cthread_put \/ (doGet /\ cfg.sync_ready)), "put")
       \cup When(moved /\ (~cfg.cthread_get \/ (doPut /\ cfg.sync_valid)), "get")
       \cup When(moved /\ \/ cfg.peek = "method"
                          \/ cfg.peek = "thread" /\ doPut /\ cfg.sync_valid, "peek")
       \cup When(cfg.targ_init_sync /\ ~cfg.cthread_put /\ (doPut \/ doGet), "update")

\* The buffer after updateProc: cleared, or with the requests performed.
LEMMA UpdateCoreFields ==
    ASSUME Inv, "update" \in runnable
    PROVE  /\ UpdateCore \in Core
           /\ UpdateCore.elemNum =
                 IF cur.has_reset # core.hasReset THEN 0
                 ELSE core.elemNum + (IF PutPending(cur) THEN 1 ELSE 0)
                                   - (IF GetPending(cur) THEN 1 ELSE 0)
           /\ UpdateCore.elemNum = IF cur.has_reset # core.hasReset THEN 0 ELSE Elements
<1>t. cfg \in Configs /\ cur \in Signals /\ core \in Core
  BY DEF Inv, Types
<1>c. /\ core.hasReset \in BOOLEAN /\ core.getIndx \in Indx /\ core.putIndx \in Indx
      /\ core.elemNum \in 0 .. cfg.fifoSize /\ core.buffer \in [Indx -> Data]
      /\ cfg.fifoSize \in Nat
  BY <1>t, ConfigType DEF Core
<1>s. cur.put_data \in Data
  BY <1>t, SignalType
<1>i. /\ 0 \in Indx /\ NextIndx(core.getIndx) \in Indx /\ NextIndx(core.putIndx) \in Indx
  BY <1>t, <1>c, NextIndxType
<1>1. CASE cur.has_reset # core.hasReset
  <2> DEFINE b == [core.buffer EXCEPT ![0] = ZERO]
  <2>1. UpdateCore = [core EXCEPT !.getIndx = 0, !.putIndx = 0, !.elemNum = 0,
                                  !.buffer = b]
    BY <1>1 DEF UpdateCore, Cleared
  <2>2. b \in [Indx -> Data]
    BY <1>c, <1>i, DataAssumption
  <2>3. 0 \in 0 .. cfg.fifoSize
    BY <1>c
  <2> HIDE DEF b
  <2>4. UpdateCore \in Core /\ UpdateCore.elemNum = 0
    BY <2>1, <2>2, <2>3, <1>t, <1>i DEF Core
  <2> QED BY <2>4, <1>1
<1>2. CASE cur.has_reset = core.hasReset
  <2> DEFINE b == IF PutPending(cur)
                  THEN [core.buffer EXCEPT ![core.putIndx] = cur.put_data]
                  ELSE core.buffer
             p == IF PutPending(cur) THEN NextIndx(core.putIndx) ELSE core.putIndx
             g == IF GetPending(cur) THEN NextIndx(core.getIndx) ELSE core.getIndx
             n == core.elemNum + (IF PutPending(cur) THEN 1 ELSE 0)
                               - (IF GetPending(cur) THEN 1 ELSE 0)
  <2>1. UpdateCore = [core EXCEPT !.buffer = b, !.putIndx = p, !.getIndx = g,
                                  !.elemNum = n]
    BY <1>2 DEF UpdateCore, Performed
  <2>2. b \in [Indx -> Data] /\ p \in Indx /\ g \in Indx
    BY <1>c, <1>s, <1>i
  <2>3. /\ PutPending(cur) => core.elemNum < cfg.fifoSize \/ GetPending(cur)
        /\ GetPending(cur) => core.elemNum > 0 \/ PutPending(cur)
    BY <1>2 DEF Inv, Legal, LegalPut, LegalGet
  <2>4. n \in 0 .. cfg.fifoSize
    BY <2>3, <1>c
  <2>5. n = Elements
    BY DEF Elements
  <2> HIDE DEF b, p, g, n
  <2>6. UpdateCore \in Core /\ UpdateCore.elemNum = n
    BY <2>1, <2>2, <2>4, <1>t DEF Core
  <2> QED BY <2>5, <2>6, <1>2 DEF n
<1> QED BY <1>1, <1>2

\* What updateProc writes.
LEMMA UpdateFields ==
    ASSUME Inv, updateProc
    PROVE  /\ core' \in Core /\ core'.hasReset = cur.has_reset
           /\ core'.elemNum = UpdateCore.elemNum /\ core'.buffer = UpdateCore.buffer
           /\ core'.getIndx = UpdateCore.getIndx /\ core'.putIndx = UpdateCore.putIndx
           /\ nxt' \in Signals /\ SameUpdateBut(nxt, nxt')
           /\ nxt'.element_num_d = core'.elemNum
           /\ nxt'.get_data = core'.buffer[core'.getIndx]
           /\ nxt'.get_data_next = core'.buffer[NextIndx(core'.getIndx)]
           /\ nxt'.put_req_d = cur.put_req /\ nxt'.get_req_d = cur.get_req
           /\ nxt'.put_done = IF cfg.targ_init_sync
                              THEN PutPending(cur) \/ GetPending(cur) ELSE nxt.put_done
           /\ "update" \in runnable /\ runnable' = runnable \ {"update"}
           /\ UNCHANGED <<cfg, cur, rst, edge, put_ok, get_ok, seen, blocked, q, op,
                          resets>>
           /\ timed \subseteq timed' /\ delta \subseteq delta'
           /\ timed' \subseteq Timed /\ delta' \subseteq {"put", "get", "peek"} \ Timed
           /\ \A e \in UpdateNotifies : IF e \in Timed THEN e \in timed' ELSE e \in delta'
<1>t. /\ cfg \in Configs /\ cur \in Signals /\ nxt \in Signals /\ core \in Core
      /\ timed \subseteq Timed /\ delta \subseteq {"put", "get", "peek"} \ Timed
  BY DEF Inv, Types
<1>s. /\ cur.put_req \in BOOLEAN /\ cur.get_req \in BOOLEAN /\ cur.has_reset \in BOOLEAN
      /\ nxt.put_done \in BOOLEAN
  BY <1>t, SignalType
<1> DEFINE c == UpdateCore
           doPut == PutPending(cur)
           doGet == GetPending(cur)
           moved == ~(cur.has_reset # core.hasReset) /\ (doPut \/ doGet)
<1>1. /\ "update" \in runnable
      /\ runnable' = runnable \ {"update"}
      /\ core' = [c EXCEPT !.hasReset = cur.has_reset]
      /\ Notify(When(moved /\ (~cfg.cthread_put \/ (doGet /\ cfg.sync_ready)), "put")
           \cup When(moved /\ (~cfg.cthread_get \/ (doPut /\ cfg.sync_valid)), "get")
           \cup When(moved /\ \/ cfg.peek = "method"
                              \/ cfg.peek = "thread" /\ doPut /\ cfg.sync_valid, "peek")
           \cup When(cfg.targ_init_sync /\ ~cfg.cthread_put /\ (doPut \/ doGet),
                     "update"))
      /\ nxt' = [nxt EXCEPT
                   !.put_done = IF cfg.targ_init_sync THEN doPut \/ doGet
                                ELSE nxt.put_done,
                   !.element_num_d = c.elemNum,
                   !.get_data = c.buffer[c.getIndx],
                   !.get_data_next = c.buffer[NextIndx(c.getIndx)],
                   !.put_req_d = cur.put_req,
                   !.get_req_d = cur.get_req]
      /\ UNCHANGED <<cfg, cur, rst, edge, put_ok, get_ok, seen, blocked, q, op, resets>>
  BY DEF updateProc, UpdateCore
<1>2. c \in Core
  BY <1>1, UpdateCoreFields
<1>3. /\ core' \in Core /\ core'.hasReset = cur.has_reset
      /\ core'.elemNum = c.elemNum /\ core'.buffer = c.buffer
      /\ core'.getIndx = c.getIndx /\ core'.putIndx = c.putIndx
  <2> HIDE DEF c
  <2> QED BY <1>1, <1>2, <1>s DEF Core
<1>4. /\ c.elemNum \in 0 .. cfg.fifoSize /\ c.getIndx \in Indx
      /\ c.buffer \in [Indx -> Data]
  <2> HIDE DEF c
  <2> QED BY <1>2 DEF Core
<1>5. c.buffer[c.getIndx] \in Data /\ c.buffer[NextIndx(c.getIndx)] \in Data
  <2>1. NextIndx(c.getIndx) \in Indx
    BY <1>4, <1>t, NextIndxType
  <2> HIDE DEF c
  <2> QED BY <1>4, <2>1
<1>6. PICK done \in BOOLEAN, n \in 0 .. cfg.fifoSize, d1 \in Data, d2 \in Data :
         /\ n = c.elemNum /\ d1 = c.buffer[c.getIndx]
         /\ d2 = c.buffer[NextIndx(c.getIndx)]
         /\ done = IF cfg.targ_init_sync THEN doPut \/ doGet ELSE nxt.put_done
  <2>1. (IF cfg.targ_init_sync THEN doPut \/ doGet ELSE nxt.put_done) \in BOOLEAN
    BY <1>s, <1>t, ConfigType DEF PutPending, GetPending
  <2> HIDE DEF c, doPut, doGet
  <2> QED BY <1>4, <1>5, <2>1
<1>7. /\ nxt' \in Signals /\ SameUpdateBut(nxt, nxt')
      /\ nxt'.element_num_d = n /\ nxt'.get_data = d1 /\ nxt'.get_data_next = d2
      /\ nxt'.put_req_d = cur.put_req /\ nxt'.get_req_d = cur.get_req
      /\ nxt'.put_done = done
  <2>1. nxt' = [nxt EXCEPT !.put_done = done, !.element_num_d = n, !.get_data = d1,
                           !.get_data_next = d2, !.put_req_d = cur.put_req,
                           !.get_req_d = cur.get_req]
    BY <1>1, <1>6
  <2> QED BY <2>1, <1>s, <1>t DEF Signals, SameUpdateBut
<1>8. Notify(UpdateNotifies) /\ UpdateNotifies \in SUBSET {"put", "get", "peek", "update"}
  <2>1. UpdateNotifies \in SUBSET {"put", "get", "peek", "update"}
    BY DEF UpdateNotifies, When
  <2>2. moved <=> cur.has_reset = core.hasReset /\ (doPut \/ doGet)
    OBVIOUS
  <2> HIDE DEF c
  <2> QED BY <1>1, <2>1, <2>2 DEF UpdateNotifies
<1>9. /\ timed \subseteq timed' /\ delta \subseteq delta'
      /\ timed' \subseteq Timed /\ delta' \subseteq {"put", "get", "peek"} \ Timed
      /\ \A e \in UpdateNotifies : IF e \in Timed THEN e \in timed' ELSE e \in delta'
  BY <1>8, <1>t, Notified
<1>10. /\ nxt'.element_num_d = core'.elemNum
       /\ nxt'.get_data = core'.buffer[core'.getIndx]
       /\ nxt'.get_data_next = core'.buffer[NextIndx(core'.getIndx)]
  <2> HIDE DEF c
  <2> QED BY <1>3, <1>6, <1>7
<1> QED BY <1>1, <1>3, <1>6, <1>7, <1>9, <1>10

\* A run of updateProc keeps the invariant.
LEMMA UpdateProcKeeps ==
    ASSUME Inv, updateProc
    PROVE  Inv'
<1>u. /\ "update" \in runnable /\ runnable' = runnable \ {"update"}
      /\ UNCHANGED <<cfg, cur, rst, edge, put_ok, get_ok, seen, blocked, q, op, resets>>
      /\ timed \subseteq timed' /\ delta \subseteq delta'
  BY UpdateFields
<1>e. edge = "time"
  BY <1>u, TimedEvents DEF Inv, Types, Phases
<1>s. SameUpdateBut(nxt, nxt') /\ core'.hasReset = cur.has_reset
  BY UpdateFields
<1>c. Timed' = Timed /\ Signals' = Signals /\ Core' = Core /\ Indx' = Indx
  BY <1>u DEF Timed, When, Signals, Core, Indx
<1>1. Types'
  BY <1>u, <1>c, UpdateFields DEF Inv, Types
<1>2. Phases'
  BY <1>u, <1>c DEF Inv, Phases
<1>3. Mirror'
  BY <1>u, <1>e, UpdateFields DEF Mirror, NextIndx
<1>4. ResetSeen'
  BY <1>u, <1>e, <1>s DEF Inv, ResetSeen, ResetAsked, SameUpdateBut
<1>5. Writers' /\ Withdrawn'
  BY <1>u, <1>e, <1>s DEF Inv, Writers, Withdrawn, SameUpdateBut
<1>6. NewPut' = NewPut /\ NewGet' = NewGet
  BY <1>u, <1>e, <1>s DEF NewPut, NewGet, SameUpdateBut
<1>7. Requests'
  <2>1. rst => ~NewPut /\ ~NewGet
    BY <1>e DEF Inv, Writers, NewPut, NewGet
  <2> QED BY <1>u, <1>6, <2>1 DEF Inv, Requests
<1>8. /\ ~rst => Elements' = Elements
      /\ ~rst => cur.has_reset = core.hasReset
  <2>1. ~rst => cur.has_reset = core.hasReset
    BY <1>e DEF Inv, ResetSeen, ResetAsked
  <2>2. Elements' = UpdateCore.elemNum
    BY <1>u, UpdateFields DEF Elements
  <2> QED BY <2>1, <2>2, <1>u, UpdateCoreFields
<1>9. Legal'
  <2>1. rst => ~NewPut /\ ~NewGet
    BY <1>e DEF Inv, Writers, NewPut, NewGet
  <2>2. ~rst => ~Resetting
    BY DEF Resetting
  <2>3. CASE rst
    BY <2>3, <2>1, <1>u, <1>6 DEF Legal, LegalPut, LegalGet
  <2>4. CASE ~rst
    BY <2>4, <2>2, <1>u, <1>6, <1>8 DEF Inv, Legal, LegalPut, LegalGet
  <2> QED BY <2>3, <2>4
<1>10. AtEdge'
  BY <1>u, <1>8 DEF Inv, AtEdge, LegalPut, LegalGet, PutPending, GetPending
<1> QED BY <1>1, <1>2, <1>3, <1>4, <1>5, <1>7, <1>9, <1>10 DEF Inv


\* A run of resetProc, reset_core(), keeps the invariant.
LEMMA ResetCoreKeeps ==
    ASSUME Inv, reset_core
    PROVE  Inv'
<1>t. /\ cfg \in Configs /\ cur \in Signals /\ nxt \in Signals /\ core \in Core
      /\ rst \in BOOLEAN /\ edge \in {"none", "time", "reset"}
      /\ timed \subseteq Timed /\ delta \subseteq {"put", "get", "peek"} \ Timed
  BY DEF Inv, Types
<1>f. /\ "resetProc" \in runnable /\ runnable' = runnable \ {"resetProc"}
      /\ UNCHANGED <<cfg, cur, core, rst, edge, put_ok, get_ok, seen, blocked, q, op,
                     resets>>
  BY DEF reset_core
<1>e. edge = "reset"
  BY <1>f, <1>t, TimedEvents DEF Inv, Phases
<1>h. cur.has_reset \in BOOLEAN /\ core.hasReset \in BOOLEAN
  BY <1>t, SignalType DEF Core
<1>n. /\ timed \subseteq timed' /\ delta \subseteq delta'
      /\ timed' \subseteq Timed /\ delta' \subseteq {"put", "get", "peek"} \ Timed
      /\ rst => "update" \in timed'
  <2>1. CASE rst
    <3>1. Notify({"update"}) /\ {"update"} \in SUBSET {"put", "get", "peek", "update"}
      BY <2>1 DEF reset_core
    <3> QED BY <3>1, <1>t, Notified, TimedEvents
  <2>2. CASE ~rst
    <3> DEFINE events == {"put", "get"} \cup When(cfg.peek # "none", "peek")
    <3>1. Notify(events) /\ events \in SUBSET {"put", "get", "peek", "update"}
      BY <2>2 DEF reset_core, When
    <3> HIDE DEF events
    <3> QED BY <3>1, <1>t, <2>2, Notified
  <2> QED BY <2>1, <2>2
<1>s. /\ nxt' \in Signals
      /\ nxt'.has_reset = IF rst THEN ~cur.has_reset ELSE nxt.has_reset
      /\ nxt'.put_req = nxt.put_req /\ SamePutBut([nxt EXCEPT !.has_reset = nxt'.has_reset], nxt')
  BY <1>t, <1>h DEF reset_core, Signals, SamePutBut
<1>x. /\ nxt'.put_req = nxt.put_req /\ nxt'.get_req = nxt.get_req
      /\ nxt'.put_req_d = nxt.put_req_d /\ nxt'.get_req_d = nxt.get_req_d
      /\ nxt'.element_num_d = nxt.element_num_d /\ nxt'.get_data = nxt.get_data
      /\ nxt'.get_data_next = nxt.get_data_next /\ nxt'.put_done = nxt.put_done
      /\ nxt'.put_op = nxt.put_op /\ nxt'.get_op = nxt.get_op
  BY <1>t, <1>h DEF reset_core, Signals
<1>c. Timed' = Timed /\ Signals' = Signals /\ Core' = Core
  BY <1>f DEF Timed, When, Signals, Core, Indx
<1>1. Types'
  BY <1>f, <1>c, <1>n, <1>s DEF Inv, Types
<1>2. Phases'
  BY <1>f, <1>c, <1>e DEF Inv, Phases
<1>3. Mirror'
  BY <1>f, <1>x, <1>e DEF Inv, Mirror, Shown, NextIndx
<1>4. ResetSeen'
  BY <1>f, <1>x, <1>s, <1>e, <1>h, <1>n DEF Inv, ResetSeen, ResetAsked, Resetting
<1>5. Writers' /\ Withdrawn' /\ AtEdge'
  BY <1>f, <1>e DEF Writers, Withdrawn, AtEdge
<1>6. NewPut' = NewPut /\ NewGet' = NewGet /\ Elements' = Elements
  BY <1>f, <1>x, <1>e DEF NewPut, NewGet, Elements, PutPending, GetPending
<1>7. Resetting' <=> rst
  BY <1>4, <1>f, <1>e DEF ResetSeen, Resetting
<1>8. Requests'
  BY <1>f, <1>6, <1>7, <1>n DEF Inv, Requests
<1>9. Legal'
  <2>1. ~rst => ~Resetting
    BY DEF Resetting
  <2>2. "update" \notin runnable
    BY <1>e DEF Inv, Phases
  <2> QED BY <1>f, <1>6, <1>7, <1>n, <2>1, <2>2 DEF Inv, Legal, LegalPut, LegalGet
<1> QED BY <1>1, <1>2, <1>3, <1>4, <1>5, <1>8, <1>9 DEF Inv

\* A peeking process keeps the invariant.
LEMMA PeekKeeps ==
    ASSUME Inv, peek
    PROVE  Inv'
<1>f. /\ "peek" \in runnable /\ runnable' = runnable \ {"peek"}
      /\ seen' = Outcome(outValid(cur), getData(cur))
      /\ UNCHANGED <<cfg, cur, nxt, core, delta, timed, rst, edge, put_ok, get_ok,
                     blocked, q, op, resets>>
  BY DEF peek
<1>c. Timed' = Timed /\ Signals' = Signals /\ Core' = Core
  BY <1>f DEF Timed, When, Signals, Core, Indx
<1>s. seen' \in Result
  <2>1. getData(cur) \in Data
    BY GetDataType DEF Inv, Types
  <2> QED BY <1>f, <2>1, DataAssumption DEF Outcome, Result, Nothing
<1>1. Types' /\ Phases'
  BY <1>f, <1>c, <1>s DEF Inv, Types, Phases
<1>2. Mirror' /\ ResetSeen' /\ Writers' /\ Withdrawn'
  BY <1>f DEF Inv, Mirror, Shown, NextIndx, ResetSeen, ResetAsked, Resetting, Writers,
              Withdrawn, PutPending, GetPending
<1>3. /\ NewPut' = NewPut /\ NewGet' = NewGet /\ Elements' = Elements
      /\ Resetting' = Resetting
  BY <1>f DEF NewPut, NewGet, Elements, PutPending, GetPending, Resetting, ResetAsked
<1>4. Requests' /\ Legal' /\ AtEdge'
  BY <1>f, <1>3 DEF Inv, Requests, Legal, AtEdge, LegalPut, LegalGet, PutPending,
                    GetPending
<1> QED BY <1>1, <1>2, <1>4 DEF Inv

\* The update phase keeps the invariant.
LEMMA UpdateKeeps ==
    ASSUME Inv, Update
    PROVE  Inv'
<1>t. /\ cfg \in Configs /\ cur \in Signals /\ nxt \in Signals /\ core \in Core
      /\ rst \in BOOLEAN /\ edge \in {"none", "time", "reset"}
      /\ timed \subseteq Timed /\ delta \subseteq {"put", "get", "peek"} \ Timed
  BY DEF Inv, Types
<1>f. /\ runnable = {} /\ cur' = nxt /\ runnable' = delta \cup Stimulated
      /\ delta' = {} /\ edge' = "none"
      /\ UNCHANGED <<cfg, nxt, core, timed, rst, seen, blocked, resets>>
  BY DEF Update
<1>o. put_ok' \in Result /\ get_ok' \in Result
  <2>1. \/ put_ok' = put_ok /\ get_ok' = get_ok
        \/ put_ok' = Nothing /\ get_ok' = Nothing
    BY <1>t DEF Update
  <2>2. put_ok \in Result /\ get_ok \in Result
    BY DEF Inv, Types
  <2>3. Nothing \in Result
    BY DataAssumption DEF Nothing, Result
  <2> QED BY <2>1, <2>2, <2>3
<1>c. Timed' = Timed /\ Signals' = Signals /\ Core' = Core
  BY <1>f DEF Timed, When, Signals, Core, Indx
<1>u. runnable' \subseteq {"put", "get", "peek"} \ Timed
  <2>1. Stimulated \subseteq {"put", "get"} \ Timed
    BY TimedEvents DEF Stimulated, When
  <2> QED BY <1>f, <1>t, <2>1
<1>1. Types'
  BY <1>f, <1>t, <1>o, <1>c, <1>u DEF Inv, Types, Processes
<1>2. Phases'
  BY <1>f, <1>c, <1>u DEF Phases
<1>3. Mirror'
  BY <1>f DEF Inv, Mirror, Shown, NextIndx
<1>4. ResetAsked' = ResetAsked /\ Resetting' = Resetting
  BY <1>f, <1>u DEF ResetAsked, Resetting
<1>5. ResetSeen'
  BY <1>f, <1>4 DEF Inv, ResetSeen
<1>6. Writers' /\ Withdrawn' /\ AtEdge'
  BY <1>f DEF Writers, Withdrawn, AtEdge, GetPending, PutPending
<1>7. NewPut' = NewPut /\ NewGet' = NewGet /\ Elements' = Elements
  <2>1. "update" \notin runnable'
    BY <1>u
  <2>2. NewPut' = NewPut /\ NewGet' = NewGet
    BY <1>f DEF Inv, Mirror, NewPut, NewGet, PutPending, GetPending
  <2> QED BY <1>f, <2>1, <2>2 DEF Elements
<1>8. Requests'
  BY <1>f, <1>4, <1>7 DEF Inv, Requests
<1>9. Legal'
  <2>1. "update" \notin runnable'
    BY <1>u
  <2> QED BY <1>f, <1>4, <1>7, <2>1 DEF Inv, Legal, LegalPut, LegalGet
<1> QED BY <1>1, <1>2, <1>3, <1>5, <1>6, <1>8, <1>9 DEF Inv

\* The user's registers change, nothing else does.
SameButOps(s, t) ==
    /\ t.put_req = s.put_req /\ t.get_req = s.get_req /\ t.has_reset = s.has_reset
    /\ t.put_req_d = s.put_req_d /\ t.get_req_d = s.get_req_d
    /\ t.put_data = s.put_data
    /\ t.element_num_d = s.element_num_d /\ t.get_data = s.get_data
    /\ t.get_data_next = s.get_data_next /\ t.put_done = s.put_done

\* One clock period later the invariant still holds.
LEMMA AdvanceKeeps ==
    ASSUME Inv, AdvanceTime
    PROVE  Inv'
<1>t. /\ cfg \in Configs /\ cur \in Signals /\ nxt \in Signals /\ core \in Core
      /\ rst \in BOOLEAN /\ edge \in {"none", "time", "reset"}
      /\ timed \subseteq Timed /\ delta \subseteq {"put", "get", "peek"} \ Timed
  BY DEF Inv, Types
<1>f. /\ runnable = {} /\ nxt = cur /\ delta = {} /\ edge = "none"
      /\ timed' = {} /\ edge' = "time"
      /\ UNCHANGED <<cfg, cur, core, delta, rst, put_ok, get_ok, seen, blocked, q, op,
                     resets>>
  BY DEF AdvanceTime, Settled
<1>u. runnable' \subseteq Timed /\ timed \subseteq runnable'
      /\ ("update" \in runnable' <=> "update" \in timed)
  <2>1. PICK others \in SUBSET (When(cfg.cthread_put /\ ~blocked.put, "put")
                           \cup When(cfg.cthread_get /\ ~blocked.get, "get")) :
           runnable' = timed \cup others
    BY DEF AdvanceTime
  <2>2. others \subseteq {"put", "get"} /\ others \subseteq Timed
    BY <2>1, TimedEvents DEF When
  <2> QED BY <2>1, <2>2, <1>t
<1>s. /\ nxt' \in Signals /\ SameButOps(nxt, nxt')
      /\ rst => nxt'.put_op = "clear" /\ nxt'.get_op = "clear"
  <2>1. PICK po \in (IF cfg.cthread_put \/ rst THEN {"clear"} ELSE PutOps \ {"b_put"}) :
        \E pv \in IF po = "put" THEN Data ELSE {ZERO},
           go \in IF cfg.cthread_get \/ rst THEN {"clear"} ELSE GetOps \ {"b_get"} :
           nxt' = [nxt EXCEPT !.put_op = po, !.put_val = pv, !.get_op = go]
    BY DEF AdvanceTime
  <2>2. PICK pv \in (IF po = "put" THEN Data ELSE {ZERO}),
             go \in (IF cfg.cthread_get \/ rst THEN {"clear"} ELSE GetOps \ {"b_get"}) :
           nxt' = [nxt EXCEPT !.put_op = po, !.put_val = pv, !.get_op = go]
    BY <2>1
  <2>3. po \in PutOpKinds /\ pv \in Data /\ go \in GetOpKinds
    BY <2>1, <2>2, OpsAssumption, DataAssumption DEF PutOpKinds, GetOpKinds
  <2>4. rst => po = "clear" /\ go = "clear"
    BY <2>1, <2>2
  <2>5. /\ nxt' \in Signals /\ SameButOps(nxt, nxt')
        /\ nxt'.put_op = po /\ nxt'.get_op = go
    BY <2>2, <2>3, <1>t DEF Signals, SameButOps
  <2> QED BY <2>4, <2>5
<1>c. Timed' = Timed /\ Signals' = Signals /\ Core' = Core
  BY <1>f DEF Timed, When, Signals, Core, Indx
<1>1. Types'
  <2>1. runnable' \subseteq Processes
    BY <1>u, TimedEvents DEF Processes
  <2> QED BY <1>f, <1>t, <1>s, <1>c, <2>1 DEF Inv, Types
<1>2. Phases'
  BY <1>f, <1>c, <1>u DEF Phases
<1>p. /\ NewPut = PutPending(cur) /\ NewGet = GetPending(cur)
      /\ Elements = core.elemNum /\ cur.element_num_d = core.elemNum
      /\ ~NewPut' /\ ~NewGet'
  BY <1>f, <1>s DEF NewPut, NewGet, Elements, Inv, Mirror, SameButOps
<1>q. "update" \notin timed => ~PutPending(cur) /\ ~GetPending(cur)
  BY <1>p DEF Inv, Requests
<1>3. Mirror'
  <2>1. "update" \notin timed => cur.put_req_d = cur.put_req /\ cur.get_req_d = cur.get_req
    BY <1>q DEF PutPending, GetPending
  <2> QED BY <1>f, <1>s, <1>u, <2>1 DEF Inv, Mirror, Shown, NextIndx, SameButOps
<1>4. ResetSeen'
  <2>1. ResetAsked' = ResetAsked
    BY <1>f, <1>s DEF ResetAsked, SameButOps
  <2> QED BY <1>f, <1>s, <1>u, <2>1 DEF Inv, ResetSeen, SameButOps
<1>5. Writers' /\ Withdrawn'
  BY <1>f, <1>s DEF Writers, Withdrawn, SameButOps
<1>6. Requests'
  BY <1>p DEF Requests
<1>7. ~Resetting => /\ LegalPut(PutPending(cur), GetPending(cur), core.elemNum)
                    /\ LegalGet(PutPending(cur), GetPending(cur), core.elemNum)
  BY <1>f, <1>p DEF Inv, Legal
<1>8. Resetting => cur.has_reset # core.hasReset
  BY <1>f DEF Resetting, ResetAsked
<1>r. /\ PutPending(cur)' = PutPending(cur) /\ GetPending(cur)' = GetPending(cur)
  BY <1>f DEF PutPending, GetPending
<1>9. Legal'
  BY <1>f, <1>p, <1>7, <1>8, <1>r DEF Legal, LegalPut, LegalGet
<1>10. AtEdge'
  <2>1. ASSUME ~rst
        PROVE  Elements' = cur.element_num_d + (IF PutPending(cur) THEN 1 ELSE 0)
                                             - (IF GetPending(cur) THEN 1 ELSE 0)
    <3>1. core.elemNum \in Nat
      BY <1>t, ConfigType DEF Core
    <3> QED BY <1>f, <1>p, <1>q, <1>r, <1>u, <3>1 DEF Elements
  <2>2. ~rst => ~Resetting
    BY DEF Resetting
  <2> QED BY <1>f, <1>p, <1>7, <1>r, <2>1, <2>2 DEF AtEdge, LegalPut, LegalGet
<1> QED BY <1>1, <1>2, <1>3, <1>4, <1>5, <1>6, <1>9, <1>10 DEF Inv

\* Asserting or releasing reset keeps the invariant.
LEMMA ResetKeeps ==
    ASSUME Inv, AssertReset \/ ReleaseReset
    PROVE  Inv'
<1>t. /\ cfg \in Configs /\ cur \in Signals /\ nxt \in Signals /\ core \in Core
      /\ rst \in BOOLEAN /\ edge \in {"none", "time", "reset"}
      /\ timed \subseteq Timed /\ delta \subseteq {"put", "get", "peek"} \ Timed
  BY DEF Inv, Types
<1>f. /\ runnable = {} /\ nxt = cur /\ delta = {} /\ edge = "none"
      /\ edge' = "reset"
      /\ UNCHANGED <<cfg, cur, core, delta, timed, put_ok, get_ok, seen, blocked, q, op>>
  BY DEF AssertReset, ReleaseReset, Settled
<1>u. /\ rst' \in BOOLEAN
      /\ "resetProc" \in runnable' /\ "update" \notin runnable'
      /\ runnable' \subseteq Processes
      /\ ~rst' => runnable' = {"resetProc"} /\ rst /\ cur.has_reset = core.hasReset
      /\ rst' => ~rst
  BY TimedEvents DEF AssertReset, ReleaseReset, Processes
<1>s. /\ nxt' \in Signals /\ SameButOps(nxt, nxt')
      /\ rst' => nxt'.put_op = "clear" /\ nxt'.get_op = "clear"
  <2>1. CASE AssertReset
    <3>1. "clear" \in PutOpKinds /\ "clear" \in GetOpKinds /\ ZERO \in Data
      BY DataAssumption DEF PutOpKinds, GetOpKinds
    <3>2. nxt' = [nxt EXCEPT !.put_op = "clear", !.put_val = ZERO, !.get_op = "clear"]
      BY <2>1 DEF AssertReset
    <3> QED BY <3>1, <3>2, <1>t DEF Signals, SameButOps
  <2>2. CASE ReleaseReset
    BY <2>2, <1>t, <1>u DEF ReleaseReset, SameButOps
  <2> QED BY <2>1, <2>2
<1>c. Timed' = Timed /\ Signals' = Signals /\ Core' = Core
  BY <1>f DEF Timed, When, Signals, Core, Indx
<1>1. Types'
  BY <1>f, <1>t, <1>u, <1>s, <1>c DEF Inv, Types
<1>2. Phases'
  BY <1>f, <1>u DEF Phases
<1>3. Mirror'
  BY <1>f, <1>s DEF Inv, Mirror, Shown, NextIndx, SameButOps
<1>4. ResetSeen'
  <2>1. ~ResetAsked
    BY <1>f, <1>u DEF Inv, ResetSeen, ResetAsked
  <2>2. ~ResetAsked'
    BY <1>f, <1>s, <2>1 DEF ResetAsked, SameButOps
  <2> QED BY <1>f, <1>u, <1>s, <2>1, <2>2
          DEF Inv, ResetSeen, Resetting, ResetAsked, SameButOps
<1>5. Writers' /\ Withdrawn' /\ AtEdge'
  BY <1>f DEF Writers, Withdrawn, AtEdge
<1>6. NewPut' = NewPut /\ NewGet' = NewGet /\ Elements' = Elements
  BY <1>f, <1>s, <1>u DEF NewPut, NewGet, Elements, PutPending, GetPending, SameButOps
<1>7. Resetting' <=> rst'
  BY <1>u DEF Resetting
<1>8. Requests'
  BY <1>f, <1>6, <1>7 DEF Inv, Requests
<1>9. Legal'
  <2>1. ~rst' => ~Resetting
    BY <1>f, <1>u DEF Resetting, ResetAsked
  <2> QED BY <1>f, <1>u, <1>6, <1>7, <2>1 DEF Inv, Legal, LegalPut, LegalGet
<1> QED BY <1>1, <1>2, <1>3, <1>4, <1>5, <1>8, <1>9 DEF Inv

\* Every step keeps the invariant.
LEMMA NextInv ==
    ASSUME Inv, [Next]_vars
    PROVE  Inv'
<1>1. CASE Next
  <2>t. Types
    BY DEF Inv
  <2>1. CASE updateProc
    BY <2>1, UpdateProcKeeps
  <2>2. CASE reset_core
    BY <2>2, ResetCoreKeeps
  <2>3. CASE PutProc
    BY <2>3, <2>t, PutProcIsStep, PutKeeps
  <2>4. CASE GetProc
    BY <2>4, <2>t, GetProcIsStep, GetKeeps
  <2>5. CASE peek
    BY <2>5, PeekKeeps
  <2>6. CASE Update
    BY <2>6, UpdateKeeps
  <2>7. CASE AdvanceTime
    BY <2>7, AdvanceKeeps
  <2>8. CASE AssertReset \/ ReleaseReset
    BY <2>8, ResetKeeps
  <2> QED BY <1>1, <2>1, <2>2, <2>3, <2>4, <2>5, <2>6, <2>7, <2>8 DEF Next, Evaluate
<1>2. CASE UNCHANGED vars
  BY <1>2 DEF vars, Inv, Types, Signals, Core, Indx, Timed, When, Phases, Mirror, Shown,
     NextIndx, ResetSeen, ResetAsked, Resetting, Writers, Requests, NewPut, NewGet,
     Withdrawn, Legal, LegalPut, LegalGet, AtEdge, Elements, PutPending, GetPending
<1> QED BY <1>1, <1>2

\* The invariant holds in every reachable state.
THEOREM Invariant == Spec => []Inv
<1>1. Init => Inv
  BY InitInv
<1>2. Inv /\ [Next]_vars => Inv'
  BY NextInv
<1> QED BY <1>1, <1>2, PTL DEF Spec

\* The counters and indices of the FIFO stay inside its buffer, and every event
\* is notified with the delay of the process it wakes.
THEOREM CountersInRange == Spec => []TypeOK
<1>1. Inv => TypeOK
  <2> SUFFICES ASSUME Inv PROVE TypeOK
    OBVIOUS
  <2>1. cur \in Signals /\ nxt \in Signals /\ core \in Core
    BY DEF Inv, Types
  <2>2. /\ core.getIndx \in Indx /\ core.putIndx \in Indx
        /\ core.elemNum \in 0 .. cfg.fifoSize /\ core.buffer \in [Indx -> Data]
    BY <2>1 DEF Core
  <2>3. \A s \in {cur, nxt} :
          /\ s.element_num_d \in 0 .. cfg.fifoSize
          /\ {s.put_data, s.get_data, s.get_data_next, s.put_val} \subseteq Data
          /\ {s.put_req, s.get_req, s.put_req_d, s.get_req_d, s.has_reset,
              s.put_done} \subseteq BOOLEAN
          /\ s.put_op \in PutOpKinds /\ s.get_op \in GetOpKinds
    BY <2>1, SignalType
  <2> QED BY <2>2, <2>3 DEF Inv, Types, TypeOK, Processes
<1> QED BY <1>1, Invariant, PTL

\* The assertions of updateProc never fail, whatever the combination of options:
\* the two sides never overrun the buffer, although ready() and request() are
\* computed from counts that updateProc changes in the same evaluation phase and
\* a method may withdraw the request another one relied on.
THEOREM NoOverrun == Spec => []AssertionsHold
<1>1. Inv => AssertionsHold
  BY DEF Inv, Legal, LegalPut, LegalGet, AssertionsHold
<1> QED BY <1>1, Invariant, PTL

\* A request is never forgotten: whenever one is pending updateProc is on its way.
THEOREM RequestsAreServed == Spec => []RequestsPerformed
<1>1. Inv => RequestsPerformed
  BY DEF Inv, Requests, NewPut, NewGet, RequestsPerformed, Settled
<1> QED BY <1>1, Invariant, PTL


-----------------------------------------------------------------------------
(* The queue.                                                                *)

\* Sequence s with d appended if put, then without its first element if got.
After(s, put_done, d, get_done) ==
    LET offered == IF put_done THEN Append(s, d) ELSE s
    IN IF get_done THEN Tail(offered) ELSE offered

\* The slot k places behind slot i.
Slot(i, k) == IF i + k < cfg.fifoSize THEN i + k ELSE i + k - cfg.fifoSize

\* The elements in the buffer, oldest first.
Content(c) == [k \in 1 .. c.elemNum |-> c.buffer[Slot(c.getIndx, k - 1)]]

\* putIndx is elemNum slots ahead of getIndx.
Ring == \/ core.putIndx = core.getIndx + core.elemNum
        \/ core.putIndx + cfg.fifoSize = core.getIndx + core.elemNum

\* What the buffer holds when the edge is over.
Due == IF "update" \in runnable
       THEN After(Content(core), PutPending(cur), cur.put_data, GetPending(cur))
       ELSE Content(core)

\* The users' queue at an edge: its length and first element are what elem_num(),
\* request() and peek() of a thread tell.
Front ==
    /\ Len(q) = cur.element_num_d + (IF cfg.cthread_put /\ PutPending(cur) THEN 1 ELSE 0)
                                  - (IF cfg.cthread_get /\ GetPending(cur) THEN 1 ELSE 0)
    /\ q # <<>> => Head(q) = getData(cur)

\* Between the edges the users' queue is the buffer with the requests of threads
\* performed; at an edge the buffer becomes the queue with those of methods.
QueuePart ==
    /\ q \in Seq(Data)
    /\ Ring
    /\ edge # "time" /\ ~Resetting =>
          q = After(Content(core), cfg.cthread_put /\ PutPending(nxt), nxt.put_data,
                    cfg.cthread_get /\ GetPending(nxt))
    /\ edge = "time" /\ ~rst =>
          /\ Due = After(q, ~cfg.cthread_put /\ PutPending(cur), cur.put_data,
                         ~cfg.cthread_get /\ GetPending(cur))
          /\ Front
    /\ rst /\ edge # "reset" => q = <<>>
    /\ rst /\ ~Resetting => core.elemNum = 0
    /\ rst /\ edge = "time" /\ "update" \in runnable /\ ~ResetAsked =>
          ~PutPending(cur) /\ ~GetPending(cur)

\* What the last put() returned is the request it left.
PutTold ==
    /\ edge = "time" /\ ~rst =>
          IF cfg.cthread_put
          THEN /\ put_ok.done = NewPut
               /\ put_ok.done => putReady(cur) /\ put_ok.data = nxt.put_data
          ELSE /\ put_ok.done = PutPending(cur)
               /\ put_ok.done => put_ok.data = cur.put_data
    /\ edge # "time" /\ ~Resetting =>
          IF cfg.cthread_put
          THEN ~put_ok.done
          ELSE /\ put_ok.done = PutPending(nxt)
               /\ put_ok.done => put_ok.data = nxt.put_data
    /\ rst /\ edge # "reset" => ~put_ok.done

\* What the last get() returned is the request it left, with the oldest element,
\* unless the method will be run again.
GetTold ==
    /\ edge = "time" /\ ~rst =>
          IF cfg.cthread_get
          THEN /\ get_ok.done = NewGet
               /\ get_ok.done => outValid(cur) /\ get_ok.data = getData(cur)
          ELSE /\ get_ok.done = GetPending(cur)
               /\ get_ok.done => get_ok.data = getData(cur)
    /\ edge # "time" /\ ~Resetting =>
          IF cfg.cthread_get
          THEN ~get_ok.done
          ELSE /\ get_ok.done = GetPending(nxt)
               /\ get_ok.done => \/ "get" \in runnable \cup delta
                                 \/ get_ok.data = getData(nxt)
    /\ rst /\ edge # "reset" => ~get_ok.done

\* Data put by a method changes in the delta cycles only, and the GET method that
\* saw the old data is woken.
DataPart ==
    edge = "none" /\ nxt.put_data # cur.put_data =>
        /\ ~cfg.cthread_put /\ "put" \notin runnable
        /\ PutPending(cur) /\ ~cfg.cthread_get /\ ~cfg.sync_valid => "get" \in delta

\* The inductive invariant of the queue.
QInv == Inv /\ QueuePart /\ PutTold /\ GetTold /\ DataPart

-----------------------------------------------------------------------------
(* Sequences.                                                                *)

\* What After makes of a sequence.
LEMMA AfterProperties ==
    ASSUME NEW s \in Seq(Data), NEW d \in Data, NEW p \in BOOLEAN, NEW g \in BOOLEAN,
           g => p \/ Len(s) > 0
    PROVE  /\ After(s, p, d, g) \in Seq(Data)
           /\ Len(After(s, p, d, g)) = Len(s) + (IF p THEN 1 ELSE 0)
                                              - (IF g THEN 1 ELSE 0)
           /\ ~g => \A k \in 1 .. Len(s) : After(s, p, d, g)[k] = s[k]
           /\ g => \A k \in 1 .. Len(s) - 1 : After(s, p, d, g)[k] = s[k + 1]
           /\ p /\ ~g => After(s, p, d, g)[Len(s) + 1] = d
           /\ p /\ g /\ Len(s) > 0 => After(s, p, d, g)[Len(s)] = d
<1> DEFINE o == IF p THEN Append(s, d) ELSE s
<1>1. Len(s) \in Nat
  BY LenProperties
<1>2. /\ o \in Seq(Data) /\ Len(o) = Len(s) + (IF p THEN 1 ELSE 0)
      /\ \A k \in 1 .. Len(s) : o[k] = s[k]
      /\ p => o[Len(s) + 1] = d
  BY <1>1, AppendProperties
<1>3. After(s, p, d, g) = IF g THEN Tail(o) ELSE o
  BY DEF After
<1> HIDE DEF o
<1>4. CASE ~g
  BY <1>1, <1>2, <1>3, <1>4
<1>5. CASE g
  <2>1. Len(o) > 0
    BY <1>1, <1>2, <1>5
  <2>2. o # <<>>
    BY <1>2, <2>1, EmptySeq
  <2>3. /\ Tail(o) \in Seq(Data) /\ Len(Tail(o)) = Len(o) - 1
        /\ \A k \in 1 .. Len(Tail(o)) : Tail(o)[k] = o[k + 1]
    BY <1>2, <2>2, HeadTailProperties
  <2>4. Len(Tail(o)) = (Len(s) + (IF p THEN 1 ELSE 0)) - 1
    BY <1>2, <2>3
  <2>5. \A k \in 1 .. Len(s) - 1 : Tail(o)[k] = s[k + 1]
    BY <1>1, <1>2, <2>3, <2>4
  <2>6. p /\ Len(s) > 0 => Tail(o)[Len(s)] = d
    <3>1. p /\ Len(s) > 0 => Len(s) \in 1 .. Len(Tail(o))
      BY <1>1, <2>4
    <3> QED BY <1>1, <1>2, <2>3, <3>1
  <2>7. After(s, p, d, g) = Tail(o)
    BY <1>3, <1>5
  <2> DEFINE t == After(s, p, d, g)
  <2>t. t = Tail(o)
    BY <2>7
  <2>l. Len(Tail(o)) = Len(s) + (IF p THEN 1 ELSE 0) - 1
    BY <1>1, <2>4
  <2> HIDE DEF t
  <2>8. /\ t \in Seq(Data) /\ \A k \in 1 .. Len(s) - 1 : t[k] = s[k + 1]
        /\ p /\ Len(s) > 0 => t[Len(s)] = d
        /\ Len(t) = Len(s) + (IF p THEN 1 ELSE 0) - 1
    BY <2>3, <2>5, <2>6, <2>t, <2>l, Zenon
  <2>9. Len(t) = Len(s) + (IF p THEN 1 ELSE 0) - (IF g THEN 1 ELSE 0)
    BY <1>5, <2>8
  <2> QED BY <1>5, <2>8, <2>9 DEF t
<1> QED BY <1>4, <1>5

\* Putting and getting commute when there is something to get.
LEMMA TailAppend ==
    ASSUME NEW s \in Seq(Data), NEW d \in Data, s # <<>>
    PROVE  Tail(Append(s, d)) = Append(Tail(s), d)
<1>1. Len(s) \in Nat \ {0}
  BY EmptySeq
<1>2. /\ Append(s, d) \in Seq(Data) /\ Append(s, d) # <<>>
      /\ Len(Append(s, d)) = Len(s) + 1
      /\ \A i \in 1 .. Len(s) : Append(s, d)[i] = s[i]
      /\ Append(s, d)[Len(s) + 1] = d
  BY AppendProperties
<1>3. /\ Tail(s) \in Seq(Data) /\ Len(Tail(s)) = Len(s) - 1
      /\ \A i \in 1 .. Len(Tail(s)) : Tail(s)[i] = s[i + 1]
  BY HeadTailProperties
<1>4. /\ Tail(Append(s, d)) \in Seq(Data) /\ Len(Tail(Append(s, d))) = Len(s)
      /\ \A i \in 1 .. Len(s) : Tail(Append(s, d))[i] = Append(s, d)[i + 1]
  <2>1. /\ Tail(Append(s, d)) \in Seq(Data)
        /\ Len(Tail(Append(s, d))) = Len(Append(s, d)) - 1
        /\ \A i \in 1 .. Len(Tail(Append(s, d))) :
               Tail(Append(s, d))[i] = Append(s, d)[i + 1]
    BY <1>2, HeadTailProperties
  <2> QED BY <1>1, <1>2, <2>1
<1>5. /\ Append(Tail(s), d) \in Seq(Data) /\ Len(Append(Tail(s), d)) = Len(s)
      /\ \A i \in 1 .. Len(s) - 1 : Append(Tail(s), d)[i] = Tail(s)[i]
      /\ Append(Tail(s), d)[Len(s)] = d
  <2>1. /\ Append(Tail(s), d) \in Seq(Data)
        /\ Len(Append(Tail(s), d)) = Len(Tail(s)) + 1
        /\ \A i \in 1 .. Len(Tail(s)) : Append(Tail(s), d)[i] = Tail(s)[i]
        /\ Append(Tail(s), d)[Len(Tail(s)) + 1] = d
    BY <1>3, AppendProperties
  <2>2. Len(Tail(s)) + 1 = Len(s)
    BY <1>1, <1>3
  <2> QED BY <1>1, <1>3, <2>1, <2>2
<1>6. ASSUME NEW i \in 1 .. Len(s)
      PROVE  Tail(Append(s, d))[i] = Append(Tail(s), d)[i]
  <2>1. CASE i = Len(s)
    BY <2>1, <1>1, <1>2, <1>4, <1>5
  <2>2. CASE i # Len(s)
    <3>1. i \in 1 .. Len(s) - 1 /\ i + 1 \in 1 .. Len(s)
      BY <2>2, <1>1
    <3>2. Tail(Append(s, d))[i] = s[i + 1]
      BY <3>1, <1>2, <1>4
    <3>3. Append(Tail(s), d)[i] = s[i + 1]
      BY <3>1, <1>3, <1>5
    <3> QED BY <3>2, <3>3
  <2> QED BY <2>1, <2>2
<1>7. \A i \in 1 .. Len(Tail(Append(s, d))) :
         Tail(Append(s, d))[i] = Append(Tail(s), d)[i]
  BY <1>4, <1>6
<1>8. Len(Tail(Append(s, d))) = Len(Append(Tail(s), d))
  BY <1>4, <1>5
<1> DEFINE t == Tail(Append(s, d))
           u == Append(Tail(s), d)
<1>9. t \in Seq(Data) /\ u \in Seq(Data) /\ Len(t) = Len(u)
      /\ \A i \in 1 .. Len(t) : t[i] = u[i]
  BY <1>4, <1>5, <1>7, <1>8
<1> HIDE DEF t, u
<1>10. t = u
  BY <1>9, SeqEqual
<1> QED BY <1>10 DEF t, u

\* What the buffer holds is a sequence of as many elements as are counted.
LEMMA ContentType ==
    ASSUME cfg \in Configs, NEW c \in Core
    PROVE  /\ Content(c) \in Seq(Data) /\ Len(Content(c)) = c.elemNum
           /\ \A k \in 1 .. c.elemNum : Content(c)[k] = c.buffer[Slot(c.getIndx, k - 1)]
           /\ c.elemNum = 0 => Content(c) = <<>>
           /\ c.elemNum \in Nat
<1>1. /\ c.elemNum \in Nat /\ c.elemNum <= cfg.fifoSize /\ c.getIndx \in Indx
      /\ c.buffer \in [Indx -> Data] /\ cfg.fifoSize \in Nat /\ cfg.fifoSize > 0
  BY ConfigType DEF Core
<1>2. \A k \in 1 .. c.elemNum : Slot(c.getIndx, k - 1) \in Indx
  BY <1>1 DEF Slot, Indx
<1>3. Content(c) \in [1 .. c.elemNum -> Data]
  BY <1>1, <1>2 DEF Content
<1>4. Content(c) \in Seq(Data)
  BY <1>1, <1>3, SeqDef
<1>5. Len(Content(c)) = c.elemNum
  <2>1. DOMAIN Content(c) = 1 .. c.elemNum
    BY DEF Content
  <2>2. /\ Len(Content(c)) \in Nat /\ DOMAIN Content(c) = 1 .. Len(Content(c))
    BY <1>4, LenProperties
  <2> QED BY <1>1, <2>1, <2>2
<1>6. c.elemNum = 0 => Content(c) = <<>>
  BY <1>4, <1>5, EmptySeq
<1> QED BY <1>1, <1>4, <1>5, <1>6 DEF Content


\* Performing the requests puts the new element behind the others and drops the
\* oldest, also when both happen at once and the slot freed is the slot filled.
LEMMA PerformedContent ==
    ASSUME Inv, Ring, "update" \in runnable, cur.has_reset = core.hasReset
    PROVE  /\ Content(UpdateCore) =
                 After(Content(core), PutPending(cur), cur.put_data, GetPending(cur))
           /\ \/ UpdateCore.putIndx = UpdateCore.getIndx + UpdateCore.elemNum
              \/ UpdateCore.putIndx + cfg.fifoSize = UpdateCore.getIndx + UpdateCore.elemNum
<1> DEFINE pd == PutPending(cur)
           gd == GetPending(cur)
           d == cur.put_data
           n == core.elemNum
           p == core.getIndx
           i == core.putIndx
           b == core.buffer
           N == cfg.fifoSize
           s == Content(core)
           u == UpdateCore
<1>1. cfg \in Configs /\ cur \in Signals /\ core \in Core
  BY DEF Inv, Types
<1>2. /\ pd \in BOOLEAN /\ gd \in BOOLEAN /\ d \in Data /\ N \in Nat /\ N > 0
      /\ n \in Nat /\ n <= N /\ p \in Indx /\ i \in Indx /\ b \in [Indx -> Data]
      /\ i = p + n \/ i + N = p + n
  BY <1>1, ConfigType, SignalType DEF Core, PutPending, GetPending, Ring
<1>3. (pd /\ ~gd => n # N) /\ (gd /\ ~pd => n # 0)
  BY <1>2 DEF Inv, Legal, LegalPut, LegalGet
<1>4. /\ u.buffer = IF pd THEN [b EXCEPT ![i] = d] ELSE b
      /\ u.putIndx = IF pd THEN NextIndx(i) ELSE i
      /\ u.getIndx = IF gd THEN NextIndx(p) ELSE p
      /\ u.elemNum = n + (IF pd THEN 1 ELSE 0) - (IF gd THEN 1 ELSE 0)
  <2>1. u = Performed(core, cur)
    BY DEF UpdateCore
  <2> QED BY <2>1, <1>1 DEF Performed, Core
<1>5. u \in Core
  BY UpdateCoreFields
<1>6. /\ s \in Seq(Data) /\ Len(s) = n
      /\ \A k \in 1 .. n : s[k] = b[Slot(p, k - 1)]
  BY <1>1, ContentType
<1>7. /\ Content(u) \in Seq(Data) /\ Len(Content(u)) = u.elemNum
      /\ \A k \in 1 .. u.elemNum : Content(u)[k] = u.buffer[Slot(u.getIndx, k - 1)]
  BY <1>1, <1>5, ContentType
<1> HIDE DEF pd, gd, d, n, p, i, b, s, u, N
<1> DEFINE a == IF pd THEN 1 ELSE 0
           r == IF gd THEN 1 ELSE 0
           t == After(s, pd, d, gd)
           z == u.getIndx
           c == u.buffer
           m == u.elemNum
<1>8. a \in 0 .. 1 /\ r \in 0 .. 1 /\ m = n + a - r /\ m \in 0 .. N
      /\ (pd <=> a = 1) /\ (gd <=> r = 1)
  BY <1>2, <1>3, <1>4
<1>9. /\ t \in Seq(Data) /\ Len(t) = m
      /\ \A k \in 1 .. n - r : t[k] = s[k + r]
      /\ pd /\ m > 0 => t[m] = d
  <2>1. gd => pd \/ Len(s) > 0
    BY <1>2, <1>3, <1>6
  <2>2. /\ t \in Seq(Data) /\ Len(t) = Len(s) + a - r
        /\ ~gd => \A k \in 1 .. Len(s) : t[k] = s[k]
        /\ gd => \A k \in 1 .. Len(s) - 1 : t[k] = s[k + 1]
        /\ pd /\ ~gd => t[Len(s) + 1] = d
        /\ pd /\ gd /\ Len(s) > 0 => t[Len(s)] = d
    <3>1. s \in Seq(Data) /\ d \in Data /\ pd \in BOOLEAN /\ gd \in BOOLEAN
      BY <1>2, <1>6
    <3>2. /\ After(s, pd, d, gd) \in Seq(Data)
          /\ Len(After(s, pd, d, gd)) = Len(s) + (IF pd THEN 1 ELSE 0)
                                               - (IF gd THEN 1 ELSE 0)
          /\ ~gd => \A k \in 1 .. Len(s) : After(s, pd, d, gd)[k] = s[k]
          /\ gd => \A k \in 1 .. Len(s) - 1 : After(s, pd, d, gd)[k] = s[k + 1]
          /\ pd /\ ~gd => After(s, pd, d, gd)[Len(s) + 1] = d
          /\ pd /\ gd /\ Len(s) > 0 => After(s, pd, d, gd)[Len(s)] = d
      BY <3>1, <2>1, AfterProperties
    <3> QED BY <3>2, Zenon
  <2> HIDE DEF t
  <2>3. \A k \in 1 .. n - r : t[k] = s[k + r]
    BY <1>2, <1>6, <2>2
  <2>4. pd /\ m > 0 => t[m] = d
    BY <1>2, <1>6, <1>8, <2>2
  <2> QED BY <2>2, <2>3, <2>4, <1>6, <1>8
<1>10. /\ z \in Indx
       /\ \A k \in 1 .. m : Slot(z, k - 1) = Slot(p, (k + r) - 1)
       /\ u.putIndx = z + m \/ u.putIndx + N = z + m
  <2>1. z = IF gd THEN NextIndx(p) ELSE p
    BY <1>4
  <2>2. u.putIndx = IF pd THEN NextIndx(i) ELSE i
    BY <1>4
  <2>3. N = cfg.fifoSize
    BY DEF N
  <2>4. p \in 0 .. N - 1 /\ i \in 0 .. N - 1
    BY <1>2, <2>3 DEF Indx
  <2> HIDE DEF z, m, a, r
  <2>5. z \in Indx
    BY <1>2, <2>1, <2>3, <2>4 DEF NextIndx, Indx
  <2>6. \A k \in 1 .. m : Slot(z, k - 1) = Slot(p, (k + r) - 1)
    <3> SUFFICES ASSUME NEW k \in 1 .. m PROVE Slot(z, k - 1) = Slot(p, (k + r) - 1)
      OBVIOUS
    <3>1. CASE gd
      BY <3>1, <1>2, <1>8, <2>1, <2>3, <2>4 DEF Slot, NextIndx
    <3>2. CASE ~gd
      BY <3>2, <1>2, <1>8, <2>1, <2>3, <2>4 DEF Slot, NextIndx
    <3> QED BY <3>1, <3>2
  <2>7. u.putIndx = z + m \/ u.putIndx + N = z + m
    <3> DEFINE j == u.putIndx
    <3>1. j = IF pd THEN NextIndx(i) ELSE i
      BY <2>2
    <3> HIDE DEF j
    <3>2. j = z + m \/ j + N = z + m
      BY <3>1, <1>2, <1>3, <1>8, <2>1, <2>3, <2>4 DEF NextIndx
    <3> QED BY <3>2 DEF j
  <2> QED BY <2>5, <2>6, <2>7
<1>11. /\ c \in [Indx -> Data] /\ (pd => c[i] = d) /\ (~pd => c = b)
       /\ \A j \in Indx \ {i} : c[j] = b[j]
  BY <1>2, <1>4
<1> HIDE DEF a, r, t, z, c, m
<1>12. ASSUME NEW k \in 1 .. m PROVE t[k] = c[Slot(p, (k + r) - 1)]
  <2>1. CASE k + r = n + 1
    <3>1. pd /\ k = m /\ m > 0
      BY <1>2, <1>8, <2>1
    <3>2. Slot(p, (k + r) - 1) = i
      BY <1>2, <1>3, <1>8, <2>1, <3>1 DEF Slot, Indx, N, r
    <3> QED BY <1>9, <1>11, <3>1, <3>2
  <2>2. CASE k + r # n + 1
    <3> DEFINE w == k + r
    <3>1. w \in 1 .. n /\ k \in 1 .. n - r
      BY <1>2, <1>8, <2>2
    <3>2. pd => w # 1 \/ n # N
      BY <1>2, <1>3, <1>8 DEF r
    <3>3. t[k] = s[w]
      BY <1>9, <3>1
    <3> HIDE DEF w
    <3>4. Slot(p, w - 1) \in Indx /\ (pd => Slot(p, w - 1) # i)
      BY <1>2, <1>3, <3>1, <3>2 DEF Slot, Indx, N
    <3>5. s[w] = b[Slot(p, w - 1)]
      BY <1>6, <3>1
    <3>6. t[k] = c[Slot(p, w - 1)]
      BY <1>11, <3>3, <3>4, <3>5
    <3> QED BY <3>6 DEF w
  <2> QED BY <2>1, <2>2
<1>13. \A k \in 1 .. m : Content(u)[k] = t[k]
  BY <1>7, <1>10, <1>12 DEF m, z, c
<1>14. Content(u) = t
  <2> DEFINE v == Content(u)
  <2>1. v \in Seq(Data) /\ t \in Seq(Data) /\ Len(v) = Len(t)
        /\ \A k \in 1 .. Len(v) : v[k] = t[k]
    BY <1>7, <1>9, <1>13 DEF m
  <2> HIDE DEF v
  <2>2. v = t
    BY <2>1, SeqEqual
  <2> QED BY <2>2 DEF v
<1> QED BY <1>10, <1>14 DEF t, u, s, pd, gd, d, z, m, N


\* When the delta cycles are over, the requests of threads can be performed and
\* request() and peek() of a thread show the oldest element of the queue.
LEMMA QueueFront ==
    ASSUME Inv, Settled, ~Resetting,
           q = After(Content(core), cfg.cthread_put /\ PutPending(cur), cur.put_data,
                     cfg.cthread_get /\ GetPending(cur))
    PROVE  /\ Front /\ q \in Seq(Data)
           /\ LegalPut(PutPending(cur), GetPending(cur), core.elemNum)
           /\ LegalGet(PutPending(cur), GetPending(cur), core.elemNum)
<1>t. cfg \in Configs /\ cur \in Signals /\ core \in Core
  BY DEF Inv, Types
<1>f. runnable = {} /\ nxt = cur /\ delta = {} /\ edge = "none"
  BY DEF Settled
<1>1. /\ LegalPut(PutPending(cur), GetPending(cur), core.elemNum)
      /\ LegalGet(PutPending(cur), GetPending(cur), core.elemNum)
  BY <1>f DEF Inv, Legal, NewPut, NewGet, Elements
<1>2. /\ cur.element_num_d = core.elemNum
      /\ cur.get_data = core.buffer[core.getIndx]
      /\ cur.get_data_next = core.buffer[NextIndx(core.getIndx)]
  BY <1>f DEF Inv, Mirror
<1> DEFINE pd == cfg.cthread_put /\ PutPending(cur)
           gd == cfg.cthread_get /\ GetPending(cur)
           d == cur.put_data
           s == Content(core)
           n == core.elemNum
<1>3. pd \in BOOLEAN /\ gd \in BOOLEAN /\ d \in Data /\ n \in Nat /\ n <= cfg.fifoSize
      /\ cfg.fifoSize \in Nat /\ cfg.fifoSize > 0 /\ core.getIndx \in Indx
      /\ core.buffer \in [Indx -> Data]
  BY <1>t, ConfigType, SignalType DEF Core
<1>4. gd => n > 0
  BY <1>1 DEF LegalGet
<1>5. /\ s \in Seq(Data) /\ Len(s) = n
      /\ \A k \in 1 .. n : s[k] = core.buffer[Slot(core.getIndx, k - 1)]
  BY <1>t, ContentType
<1>6. /\ n > 0 => s[1] = cur.get_data
      /\ n > 1 => s[2] = cur.get_data_next
  <2>1. Slot(core.getIndx, 1 - 1) = core.getIndx
    BY <1>3 DEF Slot, Indx
  <2>2. n > 1 => Slot(core.getIndx, 2 - 1) = NextIndx(core.getIndx)
    BY <1>3 DEF Slot, Indx, NextIndx
  <2>3. (n > 0 => 1 \in 1 .. n) /\ (n > 1 => 2 \in 1 .. n)
    BY <1>3
  <2> HIDE DEF s, n
  <2> QED BY <1>2, <1>5, <2>1, <2>2, <2>3
<1>7. getData(cur) = IF gd THEN IF n > 1 THEN cur.get_data_next ELSE d
                     ELSE IF n > 0 THEN cur.get_data ELSE d
  BY <1>2 DEF getData
<1>8. q = After(s, pd, d, gd)
  OBVIOUS
<1>h. Len(q) = n + (IF pd THEN 1 ELSE 0) - (IF gd THEN 1 ELSE 0) /\ q \in Seq(Data)
      /\ (q # <<>> => Head(q) = getData(cur))
  <2> HIDE DEF pd, gd, d, s, n
  <2>1. gd => pd \/ Len(s) > 0
    BY <1>4, <1>5
  <2>2. /\ After(s, pd, d, gd) \in Seq(Data)
        /\ Len(After(s, pd, d, gd)) = Len(s) + (IF pd THEN 1 ELSE 0)
                                             - (IF gd THEN 1 ELSE 0)
        /\ ~gd => \A k \in 1 .. Len(s) : After(s, pd, d, gd)[k] = s[k]
        /\ gd => \A k \in 1 .. Len(s) - 1 : After(s, pd, d, gd)[k] = s[k + 1]
        /\ pd /\ ~gd => After(s, pd, d, gd)[Len(s) + 1] = d
        /\ pd /\ gd /\ Len(s) > 0 => After(s, pd, d, gd)[Len(s)] = d
    <3>1. s \in Seq(Data) /\ d \in Data /\ pd \in BOOLEAN /\ gd \in BOOLEAN
      BY <1>3, <1>5
    <3> QED BY <3>1, <2>1, AfterProperties
  <2>3. /\ q \in Seq(Data) /\ Len(q) = n + (IF pd THEN 1 ELSE 0) - (IF gd THEN 1 ELSE 0)
        /\ ~gd => \A k \in 1 .. n : q[k] = s[k]
        /\ gd => \A k \in 1 .. n - 1 : q[k] = s[k + 1]
        /\ pd /\ ~gd => q[n + 1] = d
        /\ pd /\ gd => q[n] = d
    BY <1>4, <1>5, <1>8, <2>2
  <2>4. ASSUME q # <<>> PROVE q[1] = getData(cur)
    <3>1. Len(q) > 0
      BY <2>3, <2>4, EmptySeq
    <3>2. CASE gd
      BY <3>1, <3>2, <2>3, <1>3, <1>4, <1>6, <1>7
    <3>3. CASE ~gd
      BY <3>1, <3>3, <2>3, <1>3, <1>6, <1>7
    <3> QED BY <3>2, <3>3
  <2>5. Head(q) = q[1]
    OBVIOUS
  <2> QED BY <2>3, <2>4, <2>5
<1> QED BY <1>1, <1>2, <1>h DEF Front

\* A run of the PUT process keeps the queue.
LEMMA PutQueue ==
    ASSUME QInv, PutStep
    PROVE  QInv'
<1>i. Inv /\ QueuePart /\ PutTold /\ GetTold /\ DataPart
  BY DEF QInv
<1>j. Inv'
  BY <1>i, PutKeeps
<1>t. /\ cfg \in Configs /\ cur \in Signals /\ nxt \in Signals /\ core \in Core
      /\ rst \in BOOLEAN /\ edge \in {"none", "time", "reset"}
      /\ nxt' \in Signals /\ put_ok \in Result /\ put_ok' \in Result
  BY <1>i, PutFields DEF Inv, Types
<1>b. /\ cfg.cthread_put \in BOOLEAN /\ cfg.cthread_get \in BOOLEAN
      /\ cfg.sync_valid \in BOOLEAN /\ cfg.sync_ready \in BOOLEAN
      /\ cur.put_req \in BOOLEAN /\ nxt.put_req \in BOOLEAN /\ nxt'.put_req \in BOOLEAN
      /\ cur.put_req_d \in BOOLEAN /\ put_ok'.done \in BOOLEAN
      /\ core.elemNum \in Nat
  BY <1>t, ConfigType, SignalType DEF Core, Result
<1>f. /\ UNCHANGED <<cfg, cur, core, rst, edge, get_ok, q>>
      /\ "put" \in runnable /\ runnable' = runnable \ {"put"}
  BY DEF PutStep, PutFrame, PutRuns
<1>s. SamePutBut(nxt, nxt')
  BY <1>i, PutFields DEF Inv
<1>g. /\ timed \subseteq timed' /\ delta \subseteq delta'
      /\ ~cfg.cthread_put /\ ~cfg.cthread_get /\ ~cfg.sync_valid /\ PutPending(cur)
            => "get" \in delta'
  <2>1. timed \subseteq timed' /\ delta \subseteq delta'
    BY <1>i, PutFields DEF Inv
  <2>2. ASSUME ~cfg.cthread_put, ~cfg.cthread_get, ~cfg.sync_valid, PutPending(cur)
        PROVE  "get" \in delta'
    <3>1. "get" \in ClearPutNotifies
      BY <2>2 DEF ClearPutNotifies, When
    <3> QED BY <1>i, <2>2, <3>1, PutFields, TimedEvents DEF Inv
  <2> QED BY <2>1, <2>2
<1>k. /\ cfg.cthread_put => edge # "none"
      /\ ~cfg.cthread_put => edge # "time"
      /\ edge = "reset" => rst /\ Resetting
  BY <1>i, <1>f, TimedEvents DEF Inv, Phases, ResetSeen
<1>o. cur.put_req_d = nxt.put_req_d \/ edge = "time"
  BY <1>i DEF Inv, Mirror, Shown
<1>x. /\ Resetting' = Resetting /\ ResetAsked' = ResetAsked /\ NewGet' = NewGet
      /\ getData(cur)' = getData(cur) /\ outValid(cur)' = outValid(cur)
      /\ putReady(cur)' = putReady(cur)
      /\ Front' = Front /\ Due' = Due /\ Content(core)' = Content(core)
      /\ GetPending(nxt)' = GetPending(nxt)
      /\ PutPending(cur)' = PutPending(cur) /\ GetPending(cur)' = GetPending(cur)
  BY <1>f, <1>s DEF Resetting, ResetAsked, NewGet, getData, outValid, putReady, Front, Due, Content,
                    Slot, GetPending, PutPending, SamePutBut
<1>c. \/ put_ok' = Nothing /\ nxt'.put_req = nxt.put_req /\ cfg.cthread_put
      \/ put_ok' = Nothing /\ nxt'.put_req = NewPutReq(FALSE)
      \/ /\ \E d \in Data : put_ok' = [done |-> TRUE, data |-> d] /\ nxt'.put_data = d
         /\ nxt'.put_req = NewPutReq(TRUE) /\ putReady(cur)
         /\ cfg.cthread_put => ~rst
         /\ ~cfg.cthread_put => cur.put_op = "put"
  <2>1. CASE PutSleeps
    BY <2>1 DEF PutSleeps
  <2>2. CASE PutRefuses
    <3>1. PICK d \in Data :
             nxt' = [nxt EXCEPT !.put_req = NewPutReq(FALSE), !.put_data = d]
      BY <2>2 DEF PutRefuses
    <3>2. nxt'.put_req = NewPutReq(FALSE)
      BY <3>1, <1>t DEF Signals
    <3> QED BY <2>2, <3>2 DEF PutRefuses
  <2>3. ASSUME NEW d \in Data, PutDoes(d)
        PROVE  /\ put_ok' = [done |-> TRUE, data |-> d] /\ nxt'.put_data = d
               /\ nxt'.put_req = NewPutReq(TRUE) /\ putReady(cur)
               /\ cfg.cthread_put => ~rst
               /\ ~cfg.cthread_put => cur.put_op = "put"
    <3>1. nxt' = [nxt EXCEPT !.put_req = NewPutReq(TRUE), !.put_data = d]
      BY <2>3 DEF PutDoes
    <3>2. nxt'.put_req = NewPutReq(TRUE) /\ nxt'.put_data = d
      BY <3>1, <1>t DEF Signals
    <3> QED BY <2>3, <3>2 DEF PutDoes
  <2> QED BY <2>1, <2>2, <2>3 DEF PutStep
<1>1. QueuePart'
  <2>1. edge # "time" /\ ~Resetting => ~cfg.cthread_put
    BY <1>k, <1>t
  <2>2. ASSUME edge # "time", ~Resetting
        PROVE  q = After(Content(core), FALSE, nxt'.put_data,
                         cfg.cthread_get /\ GetPending(nxt))
    BY <2>1, <2>2, <1>i DEF QueuePart, After
  <2>3. edge # "time" /\ ~Resetting =>
           q' = After(Content(core)', (cfg.cthread_put /\ PutPending(nxt))',
                      nxt'.put_data, (cfg.cthread_get /\ GetPending(nxt))')
    BY <2>1, <2>2, <1>f, <1>x DEF After
  <2>4. Ring'
    BY <1>i, <1>f DEF QueuePart, Ring
  <2>5. edge = "time" /\ ~rst =>
           /\ Due' = After(q, ~cfg.cthread_put /\ PutPending(cur), cur.put_data,
                           ~cfg.cthread_get /\ GetPending(cur))
           /\ Front'
    BY <1>i, <1>x DEF QueuePart
  <2> QED BY <1>i, <1>f, <1>x, <2>3, <2>4, <2>5 DEF QueuePart, After
<1>2. PutTold'
  <2>1. CASE edge = "time" /\ ~rst
    <3>1. cfg.cthread_put /\ nxt.put_req = cur.put_req
      BY <2>1, <1>i, <1>f, <1>k DEF Inv, Writers
    <3>2. /\ put_ok'.done = NewPut'
          /\ put_ok'.done => putReady(cur) /\ put_ok'.data = nxt'.put_data
      BY <2>1, <3>1, <1>c, <1>f, <1>b DEF Nothing, NewPut, NewPutReq
    <3> QED BY <2>1, <3>1, <3>2, <1>f, <1>x DEF PutTold
  <2>2. CASE edge = "time" /\ rst
    <3>1. put_ok' = Nothing
      BY <2>2, <1>c, <1>k, <1>b
    <3> QED BY <2>2, <3>1, <1>f DEF PutTold, Nothing
  <2>3. CASE edge = "reset"
    BY <2>3, <1>f, <1>k, <1>x DEF PutTold
  <2>4. CASE edge = "none"
    <3>1. ~cfg.cthread_put
      BY <2>4, <1>k
    <3>2. /\ put_ok'.done = PutPending(nxt')
          /\ put_ok'.done => put_ok'.data = nxt'.put_data
      BY <2>4, <3>1, <1>c, <1>b, <1>o, <1>s DEF Nothing, PutPending, NewPutReq, SamePutBut
    <3>3. rst => put_ok' = Nothing
      BY <2>4, <3>1, <1>c, <1>i DEF Inv, ResetSeen
    <3> QED BY <2>4, <3>1, <3>2, <3>3, <1>f DEF PutTold, Nothing, PutPending
  <2> QED BY <2>1, <2>2, <2>3, <2>4, <1>t
<1>3. GetTold'
  <2>1. CASE edge # "time" /\ ~Resetting /\ ~cfg.cthread_get
    <3>1. edge = "none" /\ ~cfg.cthread_put
      BY <2>1, <1>k, <1>t
    <3>2. /\ get_ok.done = GetPending(nxt)
          /\ get_ok.done => \/ "get" \in runnable \cup delta
                            \/ get_ok.data = getData(nxt)
      BY <1>i, <2>1 DEF GetTold
    <3>3. ASSUME get_ok.done
          PROVE  "get" \in runnable' \cup delta' \/ get_ok.data = getData(nxt)'
      <4>1. CASE "get" \in runnable \cup delta
        BY <4>1, <1>f, <1>g
      <4>2. CASE "get" \notin runnable \cup delta /\ core.elemNum > 0
        <5>1. nxt.element_num_d = core.elemNum
          BY <1>i DEF Inv, Mirror
        <5>2. getData(nxt)' = getData(nxt)
          BY <5>1, <4>2, <2>1, <1>f, <1>s DEF getData, SamePutBut
        <5> QED BY <5>2, <4>2, <3>2, <3>3
      <4>3. CASE "get" \notin runnable \cup delta /\ ~(core.elemNum > 0)
        <5>1. NewGet /\ NewPut = PutPending(nxt) /\ Elements = core.elemNum
          BY <3>1, <3>2, <3>3, <1>i, TimedEvents DEF NewGet, NewPut, Elements, Inv, Phases
        <5>2. PutPending(nxt) /\ ~cfg.sync_valid
          BY <5>1, <4>3, <2>1, <1>i DEF Inv, Legal, LegalGet
        <5>3. PutPending(cur)
          BY <5>2, <3>1, <1>f, <1>i, <1>o DEF Inv, Writers, PutPending
        <5> QED BY <5>2, <5>3, <3>1, <2>1, <1>g
      <4> QED BY <4>1, <4>2, <4>3
    <3> QED BY <3>1, <3>2, <3>3, <2>1, <1>f, <1>i, <1>x DEF GetTold
  <2>2. CASE ~(edge # "time" /\ ~Resetting /\ ~cfg.cthread_get)
    BY <2>2, <1>i, <1>f, <1>x DEF GetTold
  <2> QED BY <2>1, <2>2
<1>4. DataPart'
  BY <1>f, <1>g, <1>k, <1>x DEF DataPart
<1> QED BY <1>j, <1>1, <1>2, <1>3, <1>4 DEF QInv


\* A run of the GET process keeps the queue.
LEMMA GetQueue ==
    ASSUME QInv, GetStep
    PROVE  QInv'
<1>i. Inv /\ QueuePart /\ PutTold /\ GetTold /\ DataPart
  BY DEF QInv
<1>j. Inv'
  BY <1>i, GetKeeps
<1>t. /\ cfg \in Configs /\ cur \in Signals /\ nxt \in Signals /\ core \in Core
      /\ rst \in BOOLEAN /\ edge \in {"none", "time", "reset"}
      /\ nxt' \in Signals /\ get_ok \in Result /\ get_ok' \in Result
  BY <1>i, GetFields DEF Inv, Types
<1>b. /\ cfg.cthread_put \in BOOLEAN /\ cfg.cthread_get \in BOOLEAN
      /\ cfg.sync_valid \in BOOLEAN /\ cfg.sync_ready \in BOOLEAN
      /\ cur.get_req \in BOOLEAN /\ nxt.get_req \in BOOLEAN /\ nxt'.get_req \in BOOLEAN
      /\ cur.get_req_d \in BOOLEAN /\ get_ok'.done \in BOOLEAN
      /\ core.elemNum \in Nat /\ cur.element_num_d \in Nat
  BY <1>t, ConfigType, SignalType DEF Core, Result
<1>f. /\ UNCHANGED <<cfg, cur, core, rst, edge, put_ok, q>>
      /\ "get" \in runnable /\ runnable' = runnable \ {"get"}
  BY DEF GetStep, GetFrame, GetRuns
<1>s. SameGetBut(nxt, nxt') /\ delta \subseteq delta'
  BY <1>i, GetFields DEF Inv
<1>k. /\ cfg.cthread_get => edge # "none"
      /\ ~cfg.cthread_get => edge # "time"
      /\ edge = "reset" => rst /\ Resetting
  BY <1>i, <1>f, TimedEvents DEF Inv, Phases, ResetSeen
<1>o. cur.get_req_d = nxt.get_req_d \/ edge = "time"
  BY <1>i DEF Inv, Mirror, Shown
<1>x. /\ Resetting' = Resetting /\ ResetAsked' = ResetAsked /\ NewPut' = NewPut
      /\ getData(cur)' = getData(cur) /\ outValid(cur)' = outValid(cur)
      /\ putReady(cur)' = putReady(cur)
      /\ Front' = Front /\ Due' = Due /\ Content(core)' = Content(core)
      /\ PutPending(nxt)' = PutPending(nxt)
      /\ PutPending(cur)' = PutPending(cur) /\ GetPending(cur)' = GetPending(cur)
  BY <1>f, <1>s DEF Resetting, ResetAsked, NewPut, getData, outValid, putReady, Front, Due, Content,
                    Slot, GetPending, PutPending, SameGetBut
<1>c. \/ get_ok' = Nothing /\ nxt'.get_req = nxt.get_req /\ cfg.cthread_get
      \/ get_ok' = Nothing /\ nxt'.get_req = NewGetReq(FALSE)
      \/ /\ get_ok' = [done |-> TRUE, data |-> getData(cur)]
         /\ outValid(cur)
         /\ nxt'.get_req = NewGetReq(TRUE)
         /\ cfg.cthread_get => ~rst
         /\ ~cfg.cthread_get => cur.get_op # "clear"
  <2>1. CASE GetSleeps
    BY <2>1 DEF GetSleeps
  <2>2. CASE GetRefuses
    <3>1. nxt'.get_req = NewGetReq(FALSE)
      BY <2>2, <1>t DEF Signals, GetRefuses
    <3> QED BY <2>2, <3>1 DEF GetRefuses
  <2>3. ASSUME NEW notifies, GetDoes(notifies)
        PROVE  /\ get_ok' = [done |-> TRUE, data |-> getData(cur)]
               /\ outValid(cur)
               /\ nxt'.get_req = NewGetReq(TRUE)
               /\ cfg.cthread_get => ~rst
               /\ ~cfg.cthread_get => cur.get_op # "clear"
    <3>1. nxt'.get_req = NewGetReq(TRUE)
      BY <2>3, <1>t DEF GetDoes, Signals
    <3> QED BY <2>3, <3>1 DEF GetDoes
  <2> QED BY <2>1, <2>2, <2>3 DEF GetStep
<1>1. QueuePart'
  <2>1. edge # "time" /\ ~Resetting => ~cfg.cthread_get
    BY <1>k, <1>t
  <2>2. ASSUME edge # "time", ~Resetting
        PROVE  q = After(Content(core), cfg.cthread_put /\ PutPending(nxt), nxt.put_data,
                         FALSE)
    BY <2>1, <2>2, <1>i DEF QueuePart, After
  <2>3. edge # "time" /\ ~Resetting =>
           q' = After(Content(core)', (cfg.cthread_put /\ PutPending(nxt))',
                      nxt'.put_data, (cfg.cthread_get /\ GetPending(nxt))')
    BY <2>1, <2>2, <1>f, <1>x, <1>s DEF After, SameGetBut
  <2>4. Ring'
    BY <1>i, <1>f DEF QueuePart, Ring
  <2>5. edge = "time" /\ ~rst =>
           /\ Due' = After(q, ~cfg.cthread_put /\ PutPending(cur), cur.put_data,
                           ~cfg.cthread_get /\ GetPending(cur))
           /\ Front'
    BY <1>i, <1>x DEF QueuePart
  <2> QED BY <1>i, <1>f, <1>x, <2>3, <2>4, <2>5 DEF QueuePart, After
<1>2. GetTold'
  <2>1. CASE edge = "time" /\ ~rst
    <3>1. cfg.cthread_get /\ nxt.get_req = cur.get_req
      BY <2>1, <1>i, <1>f, <1>k DEF Inv, Writers
    <3>2. /\ get_ok'.done = NewGet'
          /\ get_ok'.done => outValid(cur) /\ get_ok'.data = getData(cur)
      BY <2>1, <3>1, <1>c, <1>f, <1>b DEF Nothing, NewGet, NewGetReq
    <3> QED BY <2>1, <3>1, <3>2, <1>f, <1>x DEF GetTold
  <2>2. CASE edge = "time" /\ rst
    <3>1. get_ok' = Nothing
      BY <2>2, <1>c, <1>k, <1>b
    <3> QED BY <2>2, <3>1, <1>f DEF GetTold, Nothing
  <2>3. CASE edge = "reset"
    BY <2>3, <1>f, <1>k, <1>x DEF GetTold
  <2>4. CASE edge = "none"
    <3>1. ~cfg.cthread_get
      BY <2>4, <1>k
    <3>2. get_ok'.done = GetPending(nxt')
      BY <2>4, <3>1, <1>c, <1>b, <1>o, <1>s DEF Nothing, GetPending, NewGetReq, SameGetBut
    <3>3. rst => get_ok' = Nothing
      BY <2>4, <3>1, <1>c, <1>i DEF Inv, ResetSeen
    <3>4. ASSUME get_ok'.done
          PROVE  "get" \in runnable' \cup delta' \/ get_ok'.data = getData(nxt)'
      <4>1. outValid(cur) /\ get_ok'.data = getData(cur)
        <5>1. get_ok' # Nothing
          BY <3>4 DEF Nothing
        <5>2. outValid(cur) /\ get_ok' = [done |-> TRUE, data |-> getData(cur)]
          BY <5>1, <1>c
        <5> QED BY <5>2
      <4>2. /\ nxt'.element_num_d = cur.element_num_d /\ nxt'.get_data = cur.get_data
            /\ nxt'.put_data = nxt.put_data
        BY <2>4, <1>i, <1>s DEF Inv, Mirror, Shown, SameGetBut
      <4>3. CASE cur.element_num_d > 0 \/ nxt.put_data = cur.put_data
        BY <4>1, <4>2, <4>3, <3>1, <1>f DEF getData
      <4>4. CASE ~(cur.element_num_d > 0) /\ nxt.put_data # cur.put_data
        <5>1. PutPending(cur) /\ ~cfg.sync_valid
          BY <4>1, <4>4, <1>b DEF outValid
        <5>2. "get" \in delta
          BY <5>1, <4>4, <3>1, <2>4, <1>i DEF DataPart
        <5> QED BY <5>2, <1>s
      <4> QED BY <4>3, <4>4
    <3> QED BY <2>4, <3>1, <3>2, <3>3, <3>4, <1>f DEF GetTold, Nothing, GetPending
  <2> QED BY <2>1, <2>2, <2>3, <2>4, <1>t
<1>3. PutTold'
  BY <1>i, <1>f, <1>x, <1>s DEF PutTold, SameGetBut
<1>4. DataPart'
  BY <1>i, <1>f, <1>s, <1>x DEF DataPart, SameGetBut
<1> QED BY <1>j, <1>1, <1>2, <1>3, <1>4 DEF QInv

\* A run of updateProc keeps the queue.
LEMMA UpdateProcQueue ==
    ASSUME QInv, updateProc
    PROVE  QInv'
<1>i. Inv /\ QueuePart /\ PutTold /\ GetTold /\ DataPart
  BY DEF QInv
<1>j. Inv'
  BY <1>i, UpdateProcKeeps
<1>u. /\ "update" \in runnable /\ runnable' = runnable \ {"update"}
      /\ UNCHANGED <<cfg, cur, rst, edge, put_ok, get_ok, seen, blocked, q, op, resets>>
      /\ SameUpdateBut(nxt, nxt') /\ core'.hasReset = cur.has_reset
      /\ core'.elemNum = UpdateCore.elemNum /\ core'.buffer = UpdateCore.buffer
      /\ core'.getIndx = UpdateCore.getIndx /\ core'.putIndx = UpdateCore.putIndx
  BY <1>i, UpdateFields
<1>e. edge = "time"
  BY <1>i, <1>u, TimedEvents DEF Inv, Types, Phases
<1>t. /\ cfg \in Configs /\ core \in Core /\ rst \in BOOLEAN
  BY <1>i DEF Inv, Types
<1>c. Content(core)' = Content(UpdateCore)
  BY <1>u DEF Content, Slot
<1>x. /\ NewPut' = NewPut /\ NewGet' = NewGet
      /\ getData(cur)' = getData(cur) /\ outValid(cur)' = outValid(cur)
      /\ putReady(cur)' = putReady(cur)
      /\ Front' = Front
      /\ PutPending(cur)' = PutPending(cur) /\ GetPending(cur)' = GetPending(cur)
      /\ nxt'.put_data = nxt.put_data
  BY <1>u, <1>e DEF NewPut, NewGet, getData, outValid, putReady, Front, GetPending, PutPending,
                    SameUpdateBut
<1>1. QueuePart'
  <2>1. CASE cur.has_reset = core.hasReset
    <3>1. Content(UpdateCore) = Due /\ Ring'
      BY <2>1, <1>i, <1>u, PerformedContent DEF QueuePart, Due, Ring
    <3>2. Due' = Due
      BY <3>1, <1>u, <1>c DEF Due
    <3>3. rst => core'.elemNum = 0
      <4>1. rst => ~ResetAsked /\ ~Resetting
        BY <2>1, <1>e, <1>i, TimedEvents DEF Inv, ResetSeen, ResetAsked, Resetting, Phases
      <4>2. rst => core.elemNum = 0 /\ ~PutPending(cur) /\ ~GetPending(cur)
        BY <4>1, <1>e, <1>u, <1>i DEF QueuePart
      <4>3. core'.elemNum = core.elemNum + (IF PutPending(cur) THEN 1 ELSE 0)
                                         - (IF GetPending(cur) THEN 1 ELSE 0)
        BY <2>1, <1>i, <1>u, UpdateCoreFields
      <4> QED BY <4>2, <4>3
    <3>4. Ring'
      BY <3>1
    <3>5. edge = "time" /\ ~rst =>
           /\ Due' = After(q, ~cfg.cthread_put /\ PutPending(cur), cur.put_data,
                           ~cfg.cthread_get /\ GetPending(cur))
           /\ Front'
      BY <3>2, <1>i, <1>x DEF QueuePart
    <3> QED BY <1>i, <1>e, <1>u, <1>x, <3>3, <3>4, <3>5 DEF QueuePart, After
  <2>2. CASE cur.has_reset # core.hasReset
    <3>1. rst
      BY <2>2, <1>e, <1>i DEF Inv, ResetSeen, ResetAsked
    <3>2. core'.elemNum = 0 /\ core'.getIndx = 0 /\ core'.putIndx = 0
      <4>1. UpdateCore = Cleared(core)
        BY <2>2 DEF UpdateCore
      <4> QED BY <4>1, <1>t, <1>u DEF Cleared, Core
    <3>3. Ring'
      BY <3>2 DEF Ring
    <3> QED BY <3>1, <3>2, <3>3, <1>i, <1>e, <1>u DEF QueuePart
  <2> QED BY <2>1, <2>2
<1>2. PutTold' /\ GetTold' /\ DataPart'
  BY <1>i, <1>u, <1>e, <1>x DEF PutTold, GetTold, DataPart
<1> QED BY <1>j, <1>1, <1>2 DEF QInv


\* A step that changes neither the queue nor what the queue is compared with.
LEMMA QueueKept ==
    ASSUME QInv, Inv',
           UNCHANGED <<cfg, cur, nxt, core, delta, rst, edge, put_ok, get_ok, q>>,
           runnable' \subseteq runnable,
           "get" \in runnable => "get" \in runnable',
           "update" \in runnable <=> "update" \in runnable',
           "put" \notin runnable => "put" \notin runnable',
           Resetting' = Resetting
    PROVE  QInv'
<1>i. Inv /\ QueuePart /\ PutTold /\ GetTold /\ DataPart
  BY DEF QInv
<1>x. /\ NewPut' = NewPut /\ NewGet' = NewGet /\ ResetAsked' = ResetAsked
      /\ getData(cur)' = getData(cur) /\ outValid(cur)' = outValid(cur)
      /\ putReady(cur)' = putReady(cur)
      /\ getData(nxt)' = getData(nxt)
      /\ Front' = Front /\ Due' = Due /\ Content(core)' = Content(core) /\ Ring' = Ring
      /\ PutPending(cur)' = PutPending(cur) /\ GetPending(cur)' = GetPending(cur)
      /\ PutPending(nxt)' = PutPending(nxt) /\ GetPending(nxt)' = GetPending(nxt)
  BY DEF NewPut, NewGet, getData, outValid, putReady, Front, Due, Content, Slot, Ring, GetPending,
         PutPending, ResetAsked
<1>1. QueuePart'
  BY <1>i, <1>x DEF QueuePart, After
<1>2. PutTold' /\ DataPart'
  BY <1>i, <1>x DEF PutTold, DataPart
<1>3. GetTold'
  BY <1>i, <1>x DEF GetTold
<1> QED BY <1>1, <1>2, <1>3 DEF QInv

\* A peeking process keeps the queue.
LEMMA PeekQueue ==
    ASSUME QInv, peek
    PROVE  QInv'
<1>1. Inv'
  BY PeekKeeps DEF QInv
<1>2. Resetting' = Resetting
  BY DEF peek, Resetting, ResetAsked
<1> QED BY <1>1, <1>2, QueueKept DEF peek

\* resetProc keeps the queue: it starts a reset, or lets the users start.
LEMMA ResetCoreQueue ==
    ASSUME QInv, reset_core
    PROVE  QInv'
<1>i. Inv /\ QueuePart /\ PutTold /\ GetTold /\ DataPart
  BY DEF QInv
<1>j. Inv'
  BY <1>i, ResetCoreKeeps
<1>f. /\ "resetProc" \in runnable /\ runnable' = runnable \ {"resetProc"}
      /\ UNCHANGED <<cfg, cur, core, rst, edge, put_ok, get_ok, seen, blocked, q, op,
                     resets>>
  BY DEF reset_core
<1>e. edge = "reset"
  BY <1>i, <1>f, TimedEvents DEF Inv, Types, Phases
<1>r. Ring'
  BY <1>i, <1>f DEF QueuePart, Ring
<1>1. CASE rst
  <2>1. Resetting'
    BY <1>1, <1>f, <1>e, <1>j DEF Inv, ResetSeen
  <2> QED BY <2>1, <1>1, <1>e, <1>f, <1>i, <1>j, <1>r
          DEF QInv, QueuePart, PutTold, GetTold, DataPart
<1>2. CASE ~rst
  <2>1. nxt' = nxt /\ ~Resetting /\ ~Resetting'
    BY <1>2, <1>f DEF reset_core, Resetting
  <2>2. delta \subseteq delta'
    <3> DEFINE events == {"put", "get"} \cup When(cfg.peek # "none", "peek")
    <3>1. Notify(events)
      BY <1>2 DEF reset_core
    <3> QED BY <3>1 DEF Notify
  <2>x. /\ getData(nxt)' = getData(nxt) /\ Content(core)' = Content(core)
        /\ PutPending(nxt)' = PutPending(nxt) /\ GetPending(nxt)' = GetPending(nxt)
    BY <1>f, <2>1 DEF getData, Content, Slot, PutPending, GetPending
  <2>3. QueuePart'
    BY <1>2, <2>1, <2>x, <1>e, <1>f, <1>i, <1>r DEF QueuePart, After
  <2>4. PutTold' /\ GetTold' /\ DataPart'
    BY <1>2, <2>1, <2>2, <2>x, <1>e, <1>f, <1>i DEF PutTold, GetTold, DataPart
  <2> QED BY <2>3, <2>4, <1>j DEF QInv
<1> QED BY <1>1, <1>2, <1>i DEF Inv, Types

\* One clock period later the queue is where it was.
LEMMA AdvanceQueue ==
    ASSUME QInv, AdvanceTime
    PROVE  QInv'
<1>i. Inv /\ QueuePart /\ PutTold /\ GetTold /\ DataPart
  BY DEF QInv
<1>j. Inv'
  BY <1>i, AdvanceKeeps
<1>f. /\ runnable = {} /\ nxt = cur /\ delta = {} /\ edge = "none" /\ Settled
      /\ timed' = {} /\ edge' = "time"
      /\ UNCHANGED <<cfg, cur, core, delta, rst, put_ok, get_ok, seen, blocked, q, op,
                     resets>>
  BY DEF AdvanceTime, Settled
<1>t. cfg \in Configs /\ cur \in Signals /\ core \in Core /\ rst \in BOOLEAN
  BY <1>i DEF Inv, Types
<1>n. ~NewPut' /\ ~NewGet' /\ nxt'.put_req = cur.put_req /\ nxt'.get_req = cur.get_req
      /\ nxt'.has_reset = nxt.has_reset
  <2>1. PICK po \in (IF cfg.cthread_put \/ rst THEN {"clear"} ELSE PutOps \ {"b_put"}) :
        \E pv \in IF po = "put" THEN Data ELSE {ZERO},
           go \in IF cfg.cthread_get \/ rst THEN {"clear"} ELSE GetOps \ {"b_get"} :
           nxt' = [nxt EXCEPT !.put_op = po, !.put_val = pv, !.get_op = go]
    BY DEF AdvanceTime
  <2>2. PICK pv \in (IF po = "put" THEN Data ELSE {ZERO}),
             go \in (IF cfg.cthread_get \/ rst THEN {"clear"} ELSE GetOps \ {"b_get"}) :
           nxt' = [nxt EXCEPT !.put_op = po, !.put_val = pv, !.get_op = go]
    BY <2>1
  <2> QED BY <2>2, <1>f, <1>t DEF Signals, NewPut, NewGet
<1>p. PutPending(cur) = PutPending(nxt) /\ GetPending(cur) = GetPending(nxt)
      /\ getData(cur) = getData(nxt)
  BY <1>f
<1>x. /\ PutPending(cur)' = PutPending(cur) /\ GetPending(cur)' = GetPending(cur)
      /\ getData(cur)' = getData(cur) /\ Front' = Front
      /\ Content(core)' = Content(core) /\ Ring' = Ring
  BY <1>f DEF PutPending, GetPending, getData, Front, Content, Slot, Ring
<1>u. /\ "update" \in runnable' <=> "update" \in timed
      /\ "update" \notin timed => ~PutPending(cur) /\ ~GetPending(cur)
  <2>1. PICK others \in SUBSET (When(cfg.cthread_put /\ ~blocked.put, "put")
                           \cup When(cfg.cthread_get /\ ~blocked.get, "get")) :
           runnable' = timed \cup others
    BY DEF AdvanceTime
  <2>2. "update" \notin others
    BY <2>1 DEF When
  <2>3. "update" \notin timed => ~PutPending(cur) /\ ~GetPending(cur)
    BY <1>i, <1>f DEF Inv, Requests, NewPut, NewGet
  <2> QED BY <2>1, <2>2, <2>3
<1>1. CASE ~rst
  <2>r. ~Resetting
    BY <1>1 DEF Resetting
  <2>1. q = After(Content(core), cfg.cthread_put /\ PutPending(cur), cur.put_data,
                  cfg.cthread_get /\ GetPending(cur))
    BY <2>r, <1>f, <1>i DEF QueuePart
  <2>2. /\ Front
        /\ LegalGet(PutPending(cur), GetPending(cur), core.elemNum)
    BY <2>1, <2>r, <1>f, <1>i, QueueFront
  <2>3. /\ Content(core) \in Seq(Data) /\ Len(Content(core)) = core.elemNum
        /\ cur.put_data \in Data /\ core.elemNum \in Nat
        /\ cfg.cthread_put \in BOOLEAN /\ cfg.cthread_get \in BOOLEAN
    BY <1>t, ContentType, SignalType, ConfigType
  <2>4. cfg.cthread_get /\ GetPending(cur) => Content(core) # <<>>
    <3>1. cfg.cthread_get /\ GetPending(cur) => core.elemNum > 0
      BY <2>2 DEF LegalGet
    <3>2. Len(<<>>) = 0
      BY EmptySeq
    <3> QED BY <2>3, <3>1, <3>2
  <2>5. Due' = After(Content(core), PutPending(cur), cur.put_data, GetPending(cur))
    <3>1. CASE "update" \in timed
      BY <3>1, <1>u, <1>x, <1>f DEF Due, After
    <3>2. CASE "update" \notin timed
      BY <3>2, <1>u, <1>x DEF Due, After
    <3> QED BY <3>1, <3>2
  <2>6. After(Content(core), PutPending(cur), cur.put_data, GetPending(cur)) =
           After(q, ~cfg.cthread_put /\ PutPending(cur), cur.put_data,
                 ~cfg.cthread_get /\ GetPending(cur))
    <3> DEFINE s == Content(core)
               pd == PutPending(cur)
               gd == GetPending(cur)
    <3>1. CASE cfg.cthread_put \/ ~cfg.cthread_get \/ ~pd \/ ~gd
      BY <3>1, <2>1, <2>3 DEF After
    <3>2. CASE ~cfg.cthread_put /\ cfg.cthread_get /\ pd /\ gd
      <4>1. s \in Seq(Data) /\ s # <<>> /\ cur.put_data \in Data
        BY <3>2, <2>3, <2>4
      <4>2. Tail(Append(s, cur.put_data)) = Append(Tail(s), cur.put_data)
        BY <4>1, TailAppend
      <4>3. q = Tail(s)
        BY <3>2, <2>1 DEF After
      <4> QED BY <3>2, <4>2, <4>3 DEF After
    <3> QED BY <3>1, <3>2
  <2>7. QueuePart'
    BY <1>1, <2>2, <2>5, <2>6, <1>f, <1>x, <1>i DEF QueuePart, After
  <2>d. put_ok.done \in BOOLEAN /\ get_ok.done \in BOOLEAN
    BY <1>i DEF Inv, Types, Result
  <2>8. PutTold' /\ DataPart'
    <3>1. CASE cfg.cthread_put
      <4>1. ~put_ok.done
        BY <3>1, <2>r, <1>f, <1>i DEF PutTold
      <4>2. (put_ok.done = NewPut)'
        BY <4>1, <2>d, <1>n, <1>f DEF NewPut
      <4> QED BY <1>1, <3>1, <4>1, <4>2, <1>f DEF PutTold, DataPart
    <3>2. CASE ~cfg.cthread_put
      <4>1. /\ put_ok.done = PutPending(cur)
            /\ put_ok.done => put_ok.data = cur.put_data
        BY <3>2, <2>r, <1>f, <1>p, <1>i DEF PutTold
      <4> QED BY <1>1, <3>2, <4>1, <1>f, <1>x DEF PutTold, DataPart
    <3> QED BY <3>1, <3>2
  <2>9. GetTold'
    <3>1. CASE cfg.cthread_get
      <4>1. ~get_ok.done
        BY <3>1, <2>r, <1>f, <1>i DEF GetTold
      <4>2. (get_ok.done = NewGet)'
        BY <4>1, <2>d, <1>n, <1>f DEF NewGet
      <4> QED BY <1>1, <3>1, <4>1, <4>2, <1>f DEF GetTold
    <3>2. CASE ~cfg.cthread_get
      <4>1. /\ get_ok.done = GetPending(cur)
            /\ get_ok.done => get_ok.data = getData(cur)
        BY <3>2, <2>r, <1>f, <1>p, <1>i DEF GetTold
      <4> QED BY <1>1, <3>2, <4>1, <1>f, <1>x DEF GetTold
    <3> QED BY <3>1, <3>2
  <2> QED BY <2>7, <2>8, <2>9, <1>j DEF QInv
<1>2. CASE rst
  <2>1. ResetAsked' = ResetAsked /\ (Resetting <=> ResetAsked)
    BY <1>2, <1>f, <1>n DEF ResetAsked, Resetting
  <2>2. Resetting' <=> Resetting
    <3>0. Timed' = Timed
      BY <1>f DEF Timed
    <3>1. "resetProc" \notin runnable'
      BY <3>0, <1>f, <1>j, TimedEvents DEF Inv, Phases
    <3> QED BY <1>2, <1>f, <2>1, <3>1 DEF Resetting
  <2>3. ~ResetAsked => ~PutPending(cur) /\ ~GetPending(cur)
    BY <1>2, <2>1, <1>i, <1>f DEF Inv, Requests, NewPut, NewGet
  <2>4. QueuePart'
    BY <1>2, <1>f, <1>x, <1>i, <2>1, <2>2, <2>3 DEF QueuePart
  <2>5. PutTold' /\ GetTold' /\ DataPart'
    BY <1>2, <1>f, <1>i DEF PutTold, GetTold, DataPart
  <2> QED BY <2>4, <2>5, <1>j DEF QInv
<1> QED BY <1>1, <1>2, <1>t

\* Asserting or releasing reset leaves the queue alone.
LEMMA ResetQueue ==
    ASSUME QInv, AssertReset \/ ReleaseReset
    PROVE  QInv'
<1>i. Inv /\ QueuePart /\ PutTold /\ GetTold /\ DataPart
  BY DEF QInv
<1>j. Inv'
  BY <1>i, ResetKeeps
<1>f. /\ runnable = {} /\ nxt = cur /\ delta = {} /\ edge = "none"
      /\ edge' = "reset"
      /\ UNCHANGED <<cfg, cur, core, delta, timed, put_ok, get_ok, seen, blocked, q, op>>
  BY DEF AssertReset, ReleaseReset, Settled
<1>r. Ring'
  BY <1>f, <1>i DEF QueuePart, Ring
<1>1. CASE AssertReset
  <2>1. Resetting' /\ rst'
    BY <1>1 DEF AssertReset, Resetting
  <2> QED BY <2>1, <1>f, <1>i, <1>j, <1>r
          DEF QInv, QueuePart, PutTold, GetTold, DataPart
<1>2. CASE ReleaseReset
  <2>1. ~rst' /\ nxt' = nxt /\ rst /\ ~Resetting /\ ~Resetting'
    BY <1>2, <1>f DEF ReleaseReset, Resetting, ResetAsked
  <2>x. /\ getData(nxt)' = getData(nxt) /\ Content(core)' = Content(core)
        /\ PutPending(nxt)' = PutPending(nxt) /\ GetPending(nxt)' = GetPending(nxt)
    BY <1>f, <2>1 DEF getData, Content, Slot, PutPending, GetPending
  <2>3. QueuePart'
    BY <2>1, <2>x, <1>f, <1>i, <1>r DEF QueuePart, After
  <2>4. PutTold' /\ GetTold' /\ DataPart'
    BY <2>1, <2>x, <1>f, <1>i DEF PutTold, GetTold, DataPart
  <2> QED BY <2>3, <2>4, <1>j DEF QInv
<1> QED BY <1>1, <1>2


\* What the users were told at an edge, when everyone has run: an element that was
\* got is the oldest one, or was put through an empty queue; a put had a free
\* slot, or the get made one.
LEMMA CycleLegal ==
    ASSUME QInv, runnable = {}, edge = "time", ~rst
    PROVE  /\ get_ok.done => /\ q # <<>> \/ (put_ok.done /\ PassThrough)
                             /\ Offered # <<>> /\ get_ok.data = Head(Offered)
           /\ put_ok.done => Len(q) < cfg.fifoSize \/ (get_ok.done /\ MakesRoom)
           /\ get_ok.done /\ ~cfg.cthread_get /\ cfg.cthread_put => q # <<>>
<1>i. Inv /\ QueuePart /\ PutTold /\ GetTold /\ DataPart
  BY DEF QInv
<1>t. /\ cfg \in Configs /\ cur \in Signals /\ put_ok \in Result /\ get_ok \in Result
      /\ delta \cap Timed = {}
  BY <1>i DEF Inv, Types
<1> DEFINE P == PutPending(cur)
           G == GetPending(cur)
           n == cur.element_num_d
           a == IF P THEN 1 ELSE 0
           r == IF G THEN 1 ELSE 0
<1>1. /\ n \in Nat /\ n <= cfg.fifoSize /\ cfg.fifoSize \in Nat
      /\ P \in BOOLEAN /\ G \in BOOLEAN /\ put_ok.done \in BOOLEAN /\ get_ok.done \in BOOLEAN
      /\ put_ok.data \in Data
      /\ cfg.cthread_put \in BOOLEAN /\ cfg.cthread_get \in BOOLEAN
      /\ cfg.sync_valid \in BOOLEAN /\ cfg.sync_ready \in BOOLEAN
      /\ cfg.targ_init \in BOOLEAN
  BY <1>t, ConfigType, SignalType DEF Result, PutPending, GetPending
<1>2. q \in Seq(Data) /\ Len(q) \in Nat /\ (q = <<>> <=> Len(q) = 0)
  BY <1>i, EmptySeq, LenProperties DEF QueuePart
<1>3. /\ Len(q) = n + (IF cfg.cthread_put /\ P THEN 1 ELSE 0)
                    - (IF cfg.cthread_get /\ G THEN 1 ELSE 0)
      /\ q # <<>> => Head(q) = getData(cur)
  BY <1>i DEF QueuePart, Front
<1>4. LegalPut(P, G, n) /\ LegalGet(P, G, n) /\ Elements = n + a - r
  BY <1>i DEF Inv, AtEdge
<1>5. /\ cfg.cthread_put =>
            /\ put_ok.done <=> NewPut
            /\ put_ok.done => putReady(cur)
      /\ ~cfg.cthread_put =>
            /\ put_ok.done <=> P
            /\ put_ok.done => put_ok.data = cur.put_data
  BY <1>i, <1>1 DEF PutTold
<1>6. /\ cfg.cthread_get => (get_ok.done => outValid(cur))
      /\ ~cfg.cthread_get => (get_ok.done <=> G)
      /\ get_ok.done => get_ok.data = getData(cur)
  BY <1>i, <1>1 DEF GetTold
<1>7. ASSUME get_ok.done
      PROVE  /\ q # <<>> \/ (put_ok.done /\ PassThrough)
             /\ ~cfg.cthread_get /\ cfg.cthread_put => q # <<>>
  <2>1. CASE cfg.cthread_get
    <3>1. \/ n # 0 /\ (~G \/ n # 1)
          \/ ~cfg.sync_valid /\ P
      BY <1>6, <1>7, <2>1 DEF outValid
    <3> QED BY <2>1, <3>1, <1>1, <1>2, <1>3, <1>4, <1>5 DEF LegalGet, PassThrough
  <2>2. CASE ~cfg.cthread_get
    <3>1. n > 0 \/ (P /\ ~cfg.sync_valid)
      BY <2>2, <1>4, <1>6, <1>7 DEF LegalGet
    <3>2. CASE n > 0
      BY <2>2, <3>2, <1>1, <1>2, <1>3
    <3>3. CASE P /\ ~cfg.sync_valid
      <4>1. cfg.cthread_put => Len(q) > 0
        BY <2>2, <3>3, <1>1, <1>2, <1>3
      <4> QED BY <3>3, <4>1, <1>1, <1>2, <1>5 DEF PassThrough
    <3> QED BY <3>1, <3>2, <3>3
  <2> QED BY <2>1, <2>2, <1>1
<1>8. ASSUME get_ok.done
      PROVE  Offered # <<>> /\ get_ok.data = Head(Offered)
  <2>1. CASE q # <<>>
    <3>1. put_ok.done => /\ Append(q, put_ok.data) # <<>>
                         /\ Head(Append(q, put_ok.data)) = Head(q)
      BY <2>1, <1>1, <1>2, AppendProperties
    <3> QED BY <2>1, <3>1, <1>3, <1>6, <1>8 DEF Offered
  <2>2. CASE q = <<>>
    <3>1. put_ok.done /\ ~cfg.cthread_put
      BY <2>2, <1>7, <1>8 DEF PassThrough
    <3>2. n <= 1 /\ (~(cfg.cthread_get /\ G) => n = 0) /\ Len(q) = 0
      BY <2>2, <3>1, <1>1, <1>2, <1>3
    <3>3. getData(cur) = put_ok.data
      <4>1. put_ok.data = cur.put_data
        BY <3>1, <1>5
      <4>2. CASE cfg.cthread_get /\ G
        BY <4>1, <4>2, <3>2, <1>1 DEF getData
      <4>3. CASE ~(cfg.cthread_get /\ G)
        BY <4>1, <4>3, <3>2, <1>1 DEF getData
      <4> QED BY <4>2, <4>3
    <3>4. Append(q, put_ok.data) # <<>> /\ Head(Append(q, put_ok.data)) = put_ok.data
      BY <2>2, <1>1, <1>2, AppendProperties
    <3> QED BY <3>1, <3>3, <3>4, <1>6, <1>8 DEF Offered
  <2> QED BY <2>1, <2>2
<1>9. ASSUME put_ok.done
      PROVE  Len(q) < cfg.fifoSize \/ (get_ok.done /\ MakesRoom)
  <2>1. CASE cfg.cthread_put
    <3>1. "put" \notin runnable \cup delta
      BY <2>1, <1>t, TimedEvents
    <3>2. LegalPut(NewPut, NewGet, Elements)
      BY <3>1, <1>i DEF Inv, Legal, Resetting
    <3>3. Elements < cfg.fifoSize
      BY <3>2, <2>1, <1>5, <1>9 DEF LegalPut
    <3>4. \/ n # cfg.fifoSize /\ (IF cfg.targ_init THEN G ELSE ~P)
          \/ n # cfg.fifoSize /\ n # cfg.fifoSize - 1
          \/ ~cfg.sync_ready /\ G
      BY <2>1, <1>5, <1>9 DEF putReady
    <3>5. CASE cfg.cthread_get
      BY <2>1, <3>3, <3>5, <1>1, <1>2, <1>3, <1>4
    <3>6. CASE ~cfg.cthread_get
      BY <2>1, <3>3, <3>4, <3>6, <1>1, <1>2, <1>3, <1>4, <1>6 DEF MakesRoom
    <3> QED BY <3>5, <3>6
  <2>2. CASE ~cfg.cthread_put
    <3>1. n < cfg.fifoSize \/ (G /\ (~cfg.sync_ready \/ cfg.cthread_get))
      BY <2>2, <1>4, <1>5, <1>9 DEF LegalPut
    <3>2. Len(q) = n - (IF cfg.cthread_get /\ G THEN 1 ELSE 0)
      BY <2>2, <1>1, <1>3
    <3>3. CASE n < cfg.fifoSize \/ (G /\ cfg.cthread_get)
      BY <3>2, <3>3, <1>1
    <3>4. CASE G /\ ~cfg.sync_ready /\ ~cfg.cthread_get
      BY <3>4, <1>6 DEF MakesRoom
    <3> QED BY <3>1, <3>3, <3>4
  <2> QED BY <2>1, <2>2
<1> QED BY <1>7, <1>8, <1>9


\* The end of an evaluation phase: what the users were told becomes the queue, and
\* it is what the buffer holds with the requests just made.
LEMMA UpdateQueue ==
    ASSUME QInv, Update
    PROVE  QInv'
<1>i. Inv /\ QueuePart /\ PutTold /\ GetTold /\ DataPart
  BY DEF QInv
<1>j. Inv'
  BY <1>i, UpdateKeeps
<1>t. /\ cfg \in Configs /\ cur \in Signals /\ nxt \in Signals /\ core \in Core
      /\ rst \in BOOLEAN /\ edge \in {"none", "time", "reset"}
      /\ delta \subseteq {"put", "get", "peek"} \ Timed
      /\ put_ok \in Result /\ get_ok \in Result
  BY <1>i DEF Inv, Types
<1>f. /\ runnable = {} /\ cur' = nxt /\ runnable' = delta \cup Stimulated
      /\ delta' = {} /\ edge' = "none" /\ nxt' = nxt
      /\ UNCHANGED <<cfg, nxt, core, timed, rst, seen, blocked, resets>>
  BY DEF Update
<1>s. "resetProc" \notin runnable'
  BY <1>f, <1>t DEF Stimulated, When
<1>x. /\ ResetAsked' = ResetAsked /\ Resetting' = Resetting
      /\ Content(core)' = Content(core) /\ Ring' = Ring
      /\ getData(nxt)' = getData(nxt)
      /\ PutPending(nxt)' = PutPending(nxt) /\ GetPending(nxt)' = GetPending(nxt)
  BY <1>f, <1>s DEF ResetAsked, Resetting, Content, Slot, Ring, getData, PutPending, GetPending
<1>d. DataPart'
  BY <1>f DEF DataPart
<1>r. Ring'
  BY <1>i, <1>x DEF QueuePart
<1>z. /\ Nothing.done = FALSE /\ <<>> \in Seq(Data)
  BY EmptySeq DEF Nothing
<1>1. CASE edge = "none" \/ (edge = "reset" /\ ~rst)
  <2>1. UNCHANGED <<q, put_ok, get_ok>>
    BY <1>1 DEF Update
  <2>2. edge # "time" /\ (rst => edge # "reset")
    BY <1>1
  <2>3. QueuePart'
    BY <2>1, <2>2, <1>f, <1>x, <1>r, <1>i DEF QueuePart, After
  <2>4. PutTold'
    BY <2>1, <2>2, <1>f, <1>x, <1>i DEF PutTold
  <2>5. GetTold'
    BY <2>1, <2>2, <1>f, <1>x, <1>i DEF GetTold
  <2> QED BY <1>j, <1>d, <2>3, <2>4, <2>5 DEF QInv
<1>2. CASE edge # "none" /\ rst
  <2>1. q' = <<>> /\ put_ok' = Nothing /\ get_ok' = Nothing
    BY <1>2 DEF Update
  <2>2. ASSUME ~Resetting
        PROVE  /\ edge = "time" /\ core.elemNum = 0
               /\ PutPending(nxt) = FALSE /\ GetPending(nxt) = FALSE
    <3>1. edge = "time"
      BY <1>2, <2>2, <1>i, <1>t DEF Inv, ResetSeen
    <3>2. ~NewPut /\ ~NewGet
      BY <1>2, <2>2, <1>i DEF Inv, Requests
    <3>3. ~PutPending(nxt) /\ ~GetPending(nxt)
      BY <3>1, <3>2, <1>f, <1>i DEF Inv, Mirror, NewPut, NewGet, PutPending, GetPending
    <3> QED BY <3>1, <3>3, <1>2, <2>2, <1>i DEF QueuePart, PutPending, GetPending
  <2>3. ~Resetting => Content(core) = <<>>
    BY <2>2, <1>t, ContentType
  <2>4. QueuePart'
    BY <1>2, <2>1, <2>2, <2>3, <1>f, <1>x, <1>r, <1>z DEF QueuePart, After
  <2>5. PutTold' /\ GetTold'
    BY <1>2, <2>1, <2>2, <1>f, <1>x, <1>z DEF PutTold, GetTold
  <2> QED BY <1>j, <1>d, <2>4, <2>5 DEF QInv
<1>3. CASE edge = "time" /\ ~rst
  <2>1. q' = Committed /\ put_ok' = Nothing /\ get_ok' = Nothing
    BY <1>3 DEF Update
  <2>2. /\ get_ok.done => Offered # <<>>
        /\ get_ok.done /\ ~cfg.cthread_get /\ cfg.cthread_put => q # <<>>
        /\ get_ok.done => q # <<>> \/ put_ok.done
    BY <1>3, <1>f, CycleLegal
  <2>3. q' = After(q, put_ok.done, put_ok.data, get_ok.done)
    BY <2>1, <2>2 DEF Committed, Offered, After
  <2>4. /\ (PutPending(nxt) <=> NewPut) /\ (GetPending(nxt) <=> NewGet)
    BY <1>3, <1>f, <1>i DEF Inv, Mirror, NewPut, NewGet, PutPending, GetPending
  <2>5. /\ ~cfg.cthread_put => ~NewPut
        /\ ~cfg.cthread_get => ~NewGet
    BY <1>3, <1>i DEF Inv, Writers, NewPut, NewGet
  <2>6. Content(core) = After(q, ~cfg.cthread_put /\ PutPending(cur), cur.put_data,
                              ~cfg.cthread_get /\ GetPending(cur))
    BY <1>3, <1>f, <1>i DEF QueuePart, Due
  <2>b. /\ cfg.cthread_put \in BOOLEAN /\ cfg.cthread_get \in BOOLEAN
        /\ put_ok.done \in BOOLEAN /\ get_ok.done \in BOOLEAN
        /\ put_ok.data \in Data /\ q \in Seq(Data)
    BY <1>t, <1>i, ConfigType DEF Result, QueuePart
  <2>7. /\ cfg.cthread_put =>
              /\ put_ok.done <=> NewPut
              /\ put_ok.done => put_ok.data = nxt.put_data
        /\ ~cfg.cthread_put =>
              /\ put_ok.done <=> PutPending(cur)
              /\ put_ok.done => put_ok.data = cur.put_data
    BY <1>3, <1>i, <2>b DEF PutTold
  <2>8. /\ cfg.cthread_get => (get_ok.done <=> NewGet)
        /\ ~cfg.cthread_get => (get_ok.done <=> GetPending(cur))
    BY <1>3, <1>i, <2>b DEF GetTold
  <2>9. q' = After(Content(core), cfg.cthread_put /\ PutPending(nxt), nxt.put_data,
                   cfg.cthread_get /\ GetPending(nxt))
    <3>1. CASE cfg.cthread_put /\ ~cfg.cthread_get /\ put_ok.done /\ get_ok.done
      <4>1. Content(core) = Tail(q)
        BY <3>1, <2>6, <2>8 DEF After
      <4>2. /\ q' = Tail(Append(q, put_ok.data)) /\ put_ok.data = nxt.put_data
            /\ q # <<>>
        BY <3>1, <2>2, <2>3, <2>7 DEF After
      <4>3. Tail(Append(q, put_ok.data)) = Append(Tail(q), put_ok.data)
        BY <4>2, <2>b, TailAppend
      <4>4. PutPending(nxt)
        BY <3>1, <2>4, <2>7
      <4> QED BY <3>1, <4>1, <4>2, <4>3, <4>4 DEF After
    <3>2. CASE cfg.cthread_put /\ ~(~cfg.cthread_get /\ put_ok.done /\ get_ok.done)
      BY <3>2, <2>3, <2>4, <2>6, <2>7, <2>8 DEF After
    <3>3. CASE ~cfg.cthread_put
      BY <3>3, <2>3, <2>4, <2>6, <2>7, <2>8 DEF After
    <3> QED BY <3>1, <3>2, <3>3
  <2>10. q' \in Seq(Data)
    <3>1. get_ok.done => put_ok.done \/ Len(q) > 0
      BY <2>2, <2>b, EmptySeq, LenProperties
    <3> QED BY <2>3, <2>b, <3>1, AfterProperties
  <2>11. QueuePart'
    BY <1>3, <2>9, <2>10, <1>f, <1>x, <1>r DEF QueuePart, After
  <2>12. PutTold' /\ GetTold'
    BY <1>3, <2>1, <2>4, <2>5, <2>b, <1>f, <1>x, <1>z DEF PutTold, GetTold, PutPending, GetPending
  <2> QED BY <1>j, <1>d, <2>11, <2>12 DEF QInv
<1> QED BY <1>1, <1>2, <1>3, <1>t


\* Initially the FIFO is being reset.
LEMMA InitQueue == Init => QInv
<1> SUFFICES ASSUME Init PROVE QInv
  OBVIOUS
<1>1. Inv
  BY InitInv
<1>2. /\ q = <<>> /\ rst /\ edge = "reset" /\ "resetProc" \in runnable
      /\ core.getIndx = 0 /\ core.putIndx = 0 /\ core.elemNum = 0
  BY DEF Init
<1>3. Resetting
  BY <1>2 DEF Resetting
<1>4. Ring /\ q \in Seq(Data)
  BY <1>2, EmptySeq DEF Ring
<1> QED BY <1>1, <1>2, <1>3, <1>4 DEF QInv, QueuePart, PutTold, GetTold, DataPart

\* Every step keeps the queue.
LEMMA NextQueue ==
    ASSUME QInv, [Next]_vars
    PROVE  QInv'
<1>1. CASE Next
  <2>t. Types
    BY DEF QInv, Inv
  <2>1. CASE updateProc
    BY <2>1, UpdateProcQueue
  <2>2. CASE reset_core
    BY <2>2, ResetCoreQueue
  <2>3. CASE PutProc
    BY <2>3, <2>t, PutProcIsStep, PutQueue
  <2>4. CASE GetProc
    BY <2>4, <2>t, GetProcIsStep, GetQueue
  <2>5. CASE peek
    BY <2>5, PeekQueue
  <2>6. CASE Update
    BY <2>6, UpdateQueue
  <2>7. CASE AdvanceTime
    BY <2>7, AdvanceQueue
  <2>8. CASE AssertReset \/ ReleaseReset
    BY <2>8, ResetQueue
  <2> QED BY <1>1, <2>1, <2>2, <2>3, <2>4, <2>5, <2>6, <2>7, <2>8 DEF Next, Evaluate
<1>2. CASE UNCHANGED vars
  <2>1. Inv'
    BY <1>2, NextInv DEF QInv
  <2>2. UNCHANGED <<cfg, cur, nxt, core, runnable, delta, rst, edge, put_ok, get_ok, q>>
    BY <1>2 DEF vars
  <2>3. Resetting' = Resetting
    BY <2>2 DEF Resetting, ResetAsked
  <2> QED BY <2>1, <2>2, <2>3, QueueKept
<1> QED BY <1>1, <1>2

\* The buffer is the users' queue at all times, up to the requests under way.
THEOREM QueueInvariant == Spec => []QInv
<1>1. Init => QInv
  BY InitQueue
<1>2. QInv /\ [Next]_vars => QInv'
  BY NextQueue
<1> QED BY <1>1, <1>2, PTL DEF Spec

\* request() and peek() tell the truth when time advances, and between two threads
\* elem_num() is the number of elements put and not yet got.
THEOREM RequestsTellTruth == Spec => []RequestIffElement
<1>1. QInv => RequestIffElement
  <2> SUFFICES ASSUME QInv, Settled, ~rst
               PROVE  /\ ~(cfg.cthread_put /\ cfg.sync_valid) =>
                            LET avail == IF PassThrough THEN Offered ELSE q IN
                            /\ outValid(cur) = (avail # <<>>)
                            /\ outValid(cur) => getData(cur) = Head(avail)
                      /\ cfg.cthread_put /\ cfg.cthread_get => elem_num = Len(q)
    BY DEF RequestIffElement
  <2>i. Inv /\ QueuePart /\ PutTold
    BY DEF QInv
  <2>f. runnable = {} /\ nxt = cur /\ delta = {} /\ edge = "none" /\ ~Resetting
    BY DEF Settled, Resetting
  <2>1. q = After(Content(core), cfg.cthread_put /\ PutPending(cur), cur.put_data,
                  cfg.cthread_get /\ GetPending(cur))
    BY <2>f, <2>i DEF QueuePart
  <2>2. /\ Front /\ q \in Seq(Data)
        /\ LegalGet(PutPending(cur), GetPending(cur), core.elemNum)
    BY <2>1, <2>f, <2>i, QueueFront
  <2> DEFINE P == PutPending(cur)
             G == GetPending(cur)
             n == cur.element_num_d
             front == n # 0 /\ (~(cfg.cthread_get /\ G) \/ n # 1)
  <2>t. cfg \in Configs /\ cur \in Signals /\ put_ok \in Result /\ n = core.elemNum
    BY <2>i, <2>f DEF Inv, Types, Mirror
  <2>3. /\ n \in Nat /\ P \in BOOLEAN /\ G \in BOOLEAN
        /\ cfg.cthread_put \in BOOLEAN /\ cfg.cthread_get \in BOOLEAN
        /\ cfg.sync_valid \in BOOLEAN /\ put_ok.done \in BOOLEAN /\ put_ok.data \in Data
    BY <2>t, ConfigType, SignalType DEF Result, PutPending, GetPending
  <2>4. /\ Len(q) = n + (IF cfg.cthread_put /\ P THEN 1 ELSE 0)
                      - (IF cfg.cthread_get /\ G THEN 1 ELSE 0)
        /\ q # <<>> => Head(q) = getData(cur)
        /\ q = <<>> <=> Len(q) = 0
        /\ Len(q) \in Nat
    BY <2>2, EmptySeq, LenProperties DEF Front
  <2>5. outValid(cur) <=> front \/ (~cfg.sync_valid /\ P)
    BY <2>3 DEF outValid
  <2>6. cfg.cthread_get /\ G => n > 0
    BY <2>2, <2>t DEF LegalGet
  <2>7. ~cfg.cthread_put => (put_ok.done <=> P) /\ (put_ok.done => put_ok.data = cur.put_data)
    BY <2>f, <2>i, <2>3 DEF PutTold
  <2>8. cfg.cthread_put /\ cfg.cthread_get => elem_num = Len(q)
    BY <2>3, <2>4 DEF elem_num
  <2>9. ASSUME ~PassThrough, ~(cfg.cthread_put /\ cfg.sync_valid)
        PROVE  /\ outValid(cur) <=> q # <<>>
               /\ outValid(cur) => getData(cur) = Head(q)
    <3>1. CASE cfg.cthread_put /\ ~cfg.sync_valid
      BY <3>1, <2>3, <2>4, <2>5, <2>6
    <3>2. CASE ~cfg.cthread_put /\ cfg.sync_valid
      BY <3>2, <2>3, <2>4, <2>5
    <3> QED BY <3>1, <3>2, <2>9, <2>3 DEF PassThrough
  <2>10. ASSUME PassThrough
         PROVE  /\ outValid(cur) <=> Offered # <<>>
                /\ outValid(cur) => getData(cur) = Head(Offered)
    <3>0. ~cfg.cthread_put /\ ~cfg.sync_valid
      BY <2>10 DEF PassThrough
    <3>1. q # <<>> <=> front
      BY <3>0, <2>3, <2>4, <2>6
    <3>2. Append(q, put_ok.data) # <<>>
          /\ Head(Append(q, put_ok.data)) = IF q = <<>> THEN put_ok.data ELSE Head(q)
      BY <2>2, <2>3, AppendProperties
    <3>3. CASE q # <<>>
      BY <3>1, <3>2, <3>3, <2>4, <2>5 DEF Offered
    <3>4. CASE q = <<>>
      <4>1. n <= 1 /\ (~(cfg.cthread_get /\ G) => n = 0)
        BY <3>0, <3>4, <2>3, <2>4
      <4>2. getData(cur) = cur.put_data
        BY <4>1, <2>3 DEF getData
      <4>3. outValid(cur) <=> put_ok.done
        BY <3>0, <3>1, <3>4, <2>5, <2>7
      <4> QED BY <3>0, <3>2, <3>4, <4>2, <4>3, <2>7 DEF Offered
    <3> QED BY <3>3, <3>4
  <2>11. outValid(cur) \in BOOLEAN
    BY DEF outValid
  <2> QED BY <2>8, <2>9, <2>10, <2>11
<1> QED BY <1>1, QueueInvariant, PTL

\* A step of the FIFO is a cycle or a reset of the queue, or is not visible in it.
LEMMA ContractStep ==
    ASSUME QInv, [Next]_vars
    PROVE  [Contract!Next]_(Contract!contractVars)
<1>1. cfg' = cfg
  BY DEF Next, Evaluate, PutProc, GetProc, updateProc, reset_core, peek, reset_put,
         clear_put, put, b_put, reset_get, clear_get, get, b_get, PutFrame, GetFrame,
         Update, AdvanceTime, AssertReset, ReleaseReset, vars
<1> DEFINE pr == [size |-> cfg.fifoSize, passThrough |-> PassThrough, makesRoom |-> MakesRoom]
<1>2. pr' = pr
  BY <1>1 DEF PassThrough, MakesRoom
<1>3. CASE ~Update
  <2>1. UNCHANGED <<q, op>>
    BY <1>3 DEF Next, Evaluate, PutProc, GetProc, updateProc, reset_core, peek, reset_put,
         clear_put, put, b_put, reset_get, clear_get, get, b_get, PutFrame, GetFrame,
         AdvanceTime, AssertReset, ReleaseReset, vars
  <2> QED BY <1>2, <2>1 DEF Contract!contractVars
<1>4. CASE Update /\ (edge = "none" \/ (edge = "reset" /\ ~rst))
  <2>1. UNCHANGED <<q, op>>
    BY <1>4 DEF Update
  <2> QED BY <1>2, <2>1 DEF Contract!contractVars
<1>5. CASE Update /\ edge # "none" /\ rst
  <2>1. Contract!Reset
    BY <1>2, <1>5 DEF Update, Contract!Reset, Contract!NoOp, Nothing
  <2> QED BY <2>1 DEF Contract!Next
<1>6. CASE Update /\ edge = "time" /\ ~rst
  <2>1. q' = Committed /\ op' = [put |-> put_ok, get |-> get_ok] /\ runnable = {}
    BY <1>6 DEF Update
  <2>2. put_ok \in Result /\ get_ok \in Result
    BY DEF QInv, Inv, Types
  <2>3. /\ get_ok.done => /\ q # <<>> \/ (put_ok.done /\ PassThrough)
                          /\ Offered # <<>> /\ get_ok.data = Head(Offered)
        /\ put_ok.done => Len(q) < cfg.fifoSize \/ (get_ok.done /\ MakesRoom)
    BY <1>6, <2>1, CycleLegal
  <2>4. q' = IF get_ok.done THEN Tail(Offered) ELSE Offered
    BY <2>1, <2>3 DEF Committed
  <2>5. Contract!Cycle(put_ok, get_ok)
    BY <1>2, <2>1, <2>3, <2>4 DEF Contract!Cycle, Offered
  <2> QED BY <2>2, <2>5 DEF Contract!Next, Contract!Results, Result
<1>7. edge \in {"none", "time", "reset"} /\ rst \in BOOLEAN
  BY DEF QInv, Inv, Types
<1> QED BY <1>3, <1>4, <1>5, <1>6, <1>7

\* The FIFO of approximate time simulation is the bounded queue its users expect,
\* for every depth and every combination of options: nothing is lost, doubled or
\* reordered, although put and get requests are performed a period after they are
\* made and ready(), request() and get() answer from what is already under way.
THEOREM TlmFifoImplementsContract == Spec => ImplementsContract
<1>1. Init => Contract!Init
  BY DEF Init, Contract!Init, Contract!NoOp, Nothing
<1>2. QInv /\ [Next]_vars => [Contract!Next]_(Contract!contractVars)
  BY ContractStep
<1> QED BY <1>1, <1>2, QueueInvariant, PTL DEF Spec, ImplementsContract, Contract!Spec


-----------------------------------------------------------------------------
(* Nobody sleeps who could go on.                                            *)

\* The events on their way.
Woken == timed \cup delta

\* get(data, enable) lacks the two cases in which get() of a target wakes its
\* initiator; these are the options under which nobody depends on them.
GetWakesThread == cfg.targ_init /\ cfg.cthread_put =>
                      cfg.sync_ready \/ "get_enable" \notin GetOps
GetWakesMethod == cfg.targ_init_sync /\ ~cfg.cthread_put /\ cfg.cthread_get =>
                      ~cfg.sync_ready /\ "get_enable" \notin GetOps

\* At an edge, if nothing has woken the PUT process: updateProc has performed no
\* get it would be told of, and no get made the room it waits for.
PutCalled ==
    edge = "time" /\ ~rst /\ "put" \notin Woken =>
        /\ "update" \notin runnable =>
              /\ GetPending(cur) => cfg.cthread_put /\ ~cfg.sync_ready
              /\ ~cfg.cthread_put => ~PutPending(cur)
        /\ NewGet /\ ~cfg.sync_ready =>
              /\ cur.element_num_d # cfg.fifoSize
              /\ PutPending(cur) => cur.element_num_d # cfg.fifoSize - 1
              /\ GetWakesThread /\ cfg.targ_init /\ cfg.cthread_put =>
                    cur.element_num_d # cfg.fifoSize - 1
        /\ NewGet /\ GetWakesMethod => ~(cfg.targ_init_sync /\ ~cfg.cthread_put)
        /\ ~cfg.cthread_put /\ nxt.put_done => cur.put_done

\* The same for the GET process.
GetCalled ==
    edge = "time" /\ ~rst /\ "get" \notin Woken =>
        /\ "update" \notin runnable =>
              /\ PutPending(cur) => cfg.cthread_get /\ ~cfg.sync_valid
              /\ ~cfg.cthread_get => ~GetPending(cur)
        /\ NewPut /\ ~cfg.sync_valid =>
              /\ cur.element_num_d # 0
              /\ GetPending(cur) => cur.element_num_d # 1

\* A thread in b_put() that is not woken: no room, or it is told by updateProc.
PutWaits ==
    blocked.put =>
        /\ cfg.cthread_put
        /\ rst \/ edge = "reset" => rst /\ edge = "reset" /\ "put" \in runnable
        /\ edge = "none" =>
              /\ ~PutPending(nxt)
              /\ "put" \notin timed /\ GetWakesThread =>
                    /\ core.elemNum = cfg.fifoSize
                       \/ (cfg.targ_init /\ core.elemNum = cfg.fifoSize - 1)
                    /\ GetPending(nxt) => cfg.sync_ready
        /\ edge = "time" /\ "put" \notin runnable =>
              /\ nxt.put_req = cur.put_req
              /\ "put" \notin timed /\ GetWakesThread =>
                    ~putReady(cur) \/ (cfg.sync_ready /\ GetPending(cur))

\* A thread in b_get() that is not woken: nothing to get.
GetWaits ==
    blocked.get =>
        /\ cfg.cthread_get
        /\ rst \/ edge = "reset" => rst /\ edge = "reset" /\ "get" \in runnable
        /\ edge = "none" =>
              /\ ~GetPending(nxt)
              /\ "get" \notin timed =>
                    /\ core.elemNum = 0
                    /\ PutPending(nxt) => cfg.sync_valid
        /\ edge = "time" /\ "get" \notin runnable =>
              /\ nxt.get_req = cur.get_req
              /\ "get" \notin timed => ~outValid(cur)

\* A PUT method that is not woken has put if it wants to and can.
PutAsks ==
    ~rst /\ ~cfg.cthread_put =>
        /\ edge = "reset" => "resetProc" \in runnable \/ "put" \in delta
        /\ edge = "none" /\ "put" \notin delta /\ GetWakesMethod =>
              /\ putReady(nxt) = putReady(cur)
              /\ "put" \notin runnable =>
                    PutPending(nxt) = (nxt.put_op = "put" /\ putReady(nxt))
        /\ edge = "time" /\ "put" \notin delta /\ GetWakesMethod =>
              PutPending(cur) = (cur.put_op = "put" /\ putReady(cur))

\* A GET method that is not woken has got if it wants to and can.
GetAsks ==
    ~rst /\ ~cfg.cthread_get =>
        /\ edge = "reset" => "resetProc" \in runnable \/ "get" \in delta
        /\ edge = "none" /\ "get" \notin delta =>
              /\ outValid(nxt) = outValid(cur)
              /\ "get" \notin runnable =>
                    GetPending(nxt) = (nxt.get_op \in {"get", "get_enable"} /\ outValid(nxt))
        /\ edge = "time" /\ "get" \notin delta =>
              GetPending(cur) = (cur.get_op \in {"get", "get_enable"} /\ outValid(cur))

\* A GET method makes the calls it was given.
OpsKnown == {cur.get_op, nxt.get_op} \subseteq GetOps \cup {"clear"}

\* The inductive invariant of the wake-ups.
WInv == /\ QInv /\ OpsKnown
        /\ PutCalled /\ GetCalled /\ PutWaits /\ GetWaits /\ PutAsks /\ GetAsks


\* A notification wakes whom it names, now or a period later.
LEMMA NotifyWakes ==
    ASSUME NEW events, Notify(events)
    PROVE  timed \subseteq timed' /\ delta \subseteq delta' /\ events \subseteq Woken'
BY DEF Notify, Woken

\* putReady() and outValid() in terms of the counts.
LEMMA ReadyIs ==
    ASSUME cfg \in Configs, NEW s \in Signals
    PROVE  /\ cfg.cthread_put =>
                 (putReady(s) <=>
                     \/ /\ s.element_num_d # cfg.fifoSize
                        /\ \/ IF cfg.targ_init THEN GetPending(s) ELSE ~PutPending(s)
                           \/ s.element_num_d # cfg.fifoSize - 1
                     \/ ~cfg.sync_ready /\ GetPending(s))
           /\ ~cfg.cthread_put =>
                 (putReady(s) <=>
                     \/ cfg.targ_init_sync /\ cfg.cthread_get /\ GetPending(s)
                     \/ /\ ~(cfg.targ_init_sync /\ ~s.put_done /\ s.element_num_d # 0)
                        /\ \/ s.element_num_d # cfg.fifoSize
                           \/ ~cfg.sync_ready /\ GetPending(s))
           /\ outValid(s) <=>
                 \/ /\ s.element_num_d # 0
                    /\ ~cfg.cthread_get \/ ~GetPending(s) \/ s.element_num_d # 1
                 \/ ~cfg.sync_valid /\ PutPending(s)
           /\ putReady(s) \in BOOLEAN /\ outValid(s) \in BOOLEAN
<1>1. /\ cfg.cthread_put \in BOOLEAN /\ cfg.cthread_get \in BOOLEAN
      /\ cfg.sync_valid \in BOOLEAN /\ cfg.sync_ready \in BOOLEAN
      /\ cfg.targ_init \in BOOLEAN /\ cfg.targ_init_sync \in BOOLEAN
      /\ PutPending(s) \in BOOLEAN /\ GetPending(s) \in BOOLEAN /\ s.put_done \in BOOLEAN
  BY ConfigType, SignalType DEF PutPending, GetPending
<1>2. outValid(s) \in BOOLEAN
  BY DEF outValid
<1>3. putReady(s) \in BOOLEAN
  BY <1>1 DEF putReady
<1>4. CASE cfg.cthread_put
  BY <1>1, <1>2, <1>3, <1>4 DEF putReady, outValid
<1>5. CASE ~cfg.cthread_put
  BY <1>1, <1>2, <1>3, <1>5 DEF putReady, outValid
<1> QED BY <1>1, <1>4, <1>5


\* A run of the PUT process wakes everyone who waits for it.
LEMMA PutWakeUps ==
    ASSUME WInv, PutStep
    PROVE  WInv'
<1>i. /\ QInv /\ Inv /\ Types /\ OpsKnown /\ PutCalled /\ GetCalled /\ PutWaits /\ GetWaits
      /\ PutAsks /\ GetAsks
  BY DEF WInv, QInv, Inv
<1>q. QInv' /\ Inv'
  BY <1>i, PutQueue DEF QInv
<1>t. /\ cfg \in Configs /\ cur \in Signals /\ nxt \in Signals /\ nxt' \in Signals
      /\ rst \in BOOLEAN /\ edge \in {"none", "time", "reset"}
      /\ blocked \in [put : BOOLEAN, get : BOOLEAN]
  BY <1>i, PutFields DEF Types
<1>b. /\ cfg.cthread_put \in BOOLEAN /\ cfg.cthread_get \in BOOLEAN
      /\ cfg.sync_valid \in BOOLEAN
      /\ cur.put_req \in BOOLEAN /\ cur.put_req_d \in BOOLEAN /\ nxt.put_req_d \in BOOLEAN
  BY <1>t, ConfigType, SignalType
<1>f. /\ UNCHANGED <<cfg, cur, core, rst, edge, get_ok, q>>
      /\ "put" \in runnable /\ runnable' = runnable \ {"put"}
  BY DEF PutStep, PutFrame, PutRuns
<1>s. SamePutBut(nxt, nxt') /\ blocked'.get = blocked.get
      /\ timed \subseteq timed' /\ delta \subseteq delta'
  BY <1>i, PutFields
<1>k. /\ cfg.cthread_put => edge # "none"
      /\ ~cfg.cthread_put => edge # "time"
      /\ edge = "reset" => rst
  BY <1>i, <1>f, TimedEvents DEF Inv, Phases
<1>w. "get" \in Woken' => IF cfg.cthread_get THEN "get" \in timed' ELSE "get" \in delta'
  <2>1. Timed' = Timed
    BY <1>f DEF Timed
  <2> QED BY <1>q, <1>b, <2>1, TimedEvents DEF Inv, Types, Woken
<1>x. /\ NewGet' = NewGet /\ Woken \subseteq Woken'
      /\ putReady(cur)' = putReady(cur) /\ outValid(cur)' = outValid(cur)
      /\ PutPending(cur)' = PutPending(cur) /\ GetPending(cur)' = GetPending(cur)
      /\ GetPending(nxt)' = GetPending(nxt)
      /\ nxt'.get_op = nxt.get_op /\ nxt'.put_op = nxt.put_op /\ nxt'.get_req = nxt.get_req
      /\ nxt'.put_done = nxt.put_done /\ nxt'.element_num_d = nxt.element_num_d
      /\ nxt'.put_req_d = nxt.put_req_d
      /\ GetWakesThread' = GetWakesThread /\ GetWakesMethod' = GetWakesMethod
  BY <1>f, <1>s DEF NewGet, Woken, putReady, outValid, GetPending, PutPending, SamePutBut,
                          GetWakesThread, GetWakesMethod
<1>n. /\ edge = "none" => /\ cur.element_num_d = core.elemNum /\ nxt.element_num_d = core.elemNum
                          /\ nxt.put_op = cur.put_op /\ nxt.put_req_d = cur.put_req_d
      /\ edge = "time" /\ ~rst => nxt.put_req = cur.put_req
  BY <1>i, <1>f DEF Inv, Mirror, Shown, ResetSeen, Writers
\* The three outcomes.
<1>c. \/ /\ cfg.cthread_put /\ nxt' = nxt /\ blocked'.put = ~rst
         /\ rst \/ ~putReady(cur)
      \/ /\ nxt'.put_req = NewPutReq(FALSE) /\ blocked'.put = FALSE
         /\ ~cfg.cthread_put => ~(cur.put_op = "put" /\ putReady(cur))
         /\ ~cfg.cthread_put /\ ~cfg.sync_valid /\ PutPending(cur) /\ ~cfg.cthread_get
            => "get" \in Woken'
      \/ /\ nxt'.put_req = NewPutReq(TRUE) /\ blocked'.put = FALSE
         /\ ~cfg.cthread_put => cur.put_op = "put" /\ putReady(cur)
         /\ ~cfg.sync_valid
            /\ (cur.element_num_d = 0
                \/ (cfg.cthread_put /\ GetPending(cur) /\ cur.element_num_d = 1))
            => "get" \in Woken'
  <2>1. CASE PutSleeps
    BY <2>1, <1>t DEF PutSleeps
  <2>2. CASE PutRefuses
    <3>1. PICK d \in Data :
             nxt' = [nxt EXCEPT !.put_req = NewPutReq(FALSE), !.put_data = d]
      BY <2>2 DEF PutRefuses
    <3>2. nxt'.put_req = NewPutReq(FALSE)
      BY <3>1, <1>t DEF Signals
    <3>3. blocked'.put = FALSE
      BY <2>2, <1>i, <1>t, <1>b DEF PutRefuses, PutWaits
    <3>4. ~cfg.cthread_put /\ ~cfg.sync_valid /\ PutPending(cur) /\ ~cfg.cthread_get
            => "get" \in Woken'
      <4>1. Notify(ClearPutNotifies)
        BY <2>2 DEF PutRefuses
      <4>2. ClearPutNotifies \subseteq Woken'
        BY <4>1, NotifyWakes
      <4> QED BY <4>2 DEF ClearPutNotifies, When
    <3> QED BY <2>2, <3>2, <3>3, <3>4 DEF PutRefuses
  <2>3. ASSUME NEW d \in Data, PutDoes(d)
        PROVE  /\ nxt'.put_req = NewPutReq(TRUE) /\ blocked'.put = FALSE
               /\ ~cfg.cthread_put => cur.put_op = "put" /\ putReady(cur)
               /\ ~cfg.sync_valid
                  /\ (cur.element_num_d = 0
                      \/ (cfg.cthread_put /\ GetPending(cur) /\ cur.element_num_d = 1))
                  => "get" \in Woken'
    <3>1. nxt' = [nxt EXCEPT !.put_req = NewPutReq(TRUE), !.put_data = d]
      BY <2>3 DEF PutDoes
    <3>2. nxt'.put_req = NewPutReq(TRUE)
      BY <3>1, <1>t DEF Signals
    <3>3. blocked'.put = FALSE
      BY <2>3, <1>i, <1>t, <1>b DEF PutDoes, PutWaits
    <3>4. Notify(ClearPutNotifies \cup PutNotifies)
      BY <2>3 DEF PutDoes
    <3>5. PutNotifies \subseteq Woken'
      BY <3>4, NotifyWakes
    <3> QED BY <2>3, <3>2, <3>3, <3>5 DEF PutDoes, PutNotifies
  <2> QED BY <2>1, <2>2, <2>3 DEF PutStep
<1>1. OpsKnown'
  BY <1>i, <1>f, <1>x DEF OpsKnown
<1>2. PutCalled'
  BY <1>i, <1>f, <1>x DEF PutCalled
<1>3. GetCalled'
  <2> SUFFICES ASSUME edge = "time", ~rst, "get" \notin Woken', NewPut', ~cfg.sync_valid
               PROVE  /\ cur.element_num_d # 0
                      /\ GetPending(cur) => cur.element_num_d # 1
    BY <1>i, <1>f, <1>x DEF GetCalled
  <2>1. nxt'.put_req # cur.put_req /\ cfg.cthread_put
    BY <1>f, <1>k DEF NewPut
  <2>2. NewPutReq(FALSE) = cur.put_req
    BY <2>1 DEF NewPutReq
  <2> QED BY <1>c, <1>n, <2>1, <2>2
<1>4. PutWaits'
  <2> SUFFICES ASSUME blocked'.put PROVE PutWaits'
    BY DEF PutWaits
  <2>1. cfg.cthread_put /\ nxt' = nxt /\ ~rst /\ ~putReady(cur)
    BY <1>c, <1>t
  <2>2. edge = "time"
    BY <2>1, <1>k, <1>t
  <2> QED BY <2>1, <2>2, <1>f, <1>n, <1>x DEF PutWaits
<1>5. GetWaits'
  <2>1. ASSUME blocked.get, edge = "none", "get" \notin timed', PutPending(nxt)'
        PROVE  cfg.sync_valid
    <3>1. cfg.cthread_get /\ core.elemNum = 0 /\ (PutPending(nxt) => cfg.sync_valid)
      BY <2>1, <1>i, <1>s DEF GetWaits
    <3>2. "get" \notin Woken' /\ ~cfg.cthread_put
      BY <2>1, <3>1, <1>s, <1>w, <1>k
    <3>3. nxt'.put_req # nxt'.put_req_d
      BY <2>1 DEF PutPending
    <3>4. nxt'.put_req # NewPutReq(FALSE)
      BY <2>1, <3>2, <3>3, <1>n, <1>x DEF NewPutReq
    <3> QED BY <2>1, <3>1, <3>2, <3>4, <1>c, <1>n, <1>b
  <2> QED BY <2>1, <1>i, <1>f, <1>s, <1>x DEF GetWaits
<1>6. PutAsks'
  <2> SUFFICES ASSUME ~rst, ~cfg.cthread_put, "put" \notin delta', GetWakesMethod
               PROVE  /\ edge = "none"
                      /\ putReady(nxt)' = putReady(cur)
                      /\ PutPending(nxt)' = (nxt'.put_op = "put" /\ putReady(nxt)')
    BY <1>f, <1>k, <1>t, <1>x DEF PutAsks
  <2>1. edge = "none"
    BY <1>k, <1>t
  <2>2. putReady(nxt) = putReady(cur)
    BY <2>1, <1>i, <1>s DEF PutAsks
  <2>3. putReady(nxt)' = putReady(nxt)
    BY <1>f, <1>x, <1>s DEF putReady, GetPending, SamePutBut
  <2>4. PutPending(nxt)' <=> (cur.put_op = "put" /\ putReady(cur))
    <3>1. nxt'.put_req_d = cur.put_req_d
      BY <2>1, <1>n, <1>x
    <3> QED BY <3>1, <1>c, <1>b DEF PutPending, NewPutReq
  <2>5. PutPending(nxt)' \in BOOLEAN
    BY DEF PutPending
  <2> QED BY <2>1, <2>2, <2>3, <2>4, <2>5, <1>n, <1>x
<1>7. GetAsks'
  <2>1. ASSUME ~rst, ~cfg.cthread_get, edge = "none", "get" \notin delta'
        PROVE  outValid(nxt)' = outValid(cur)
    <3>1. "get" \notin Woken' /\ ~cfg.cthread_put
      BY <2>1, <1>s, <1>w, <1>k
    <3>2. /\ outValid(nxt)' <=> core.elemNum # 0 \/ (~cfg.sync_valid /\ PutPending(nxt)')
          /\ outValid(cur) <=> core.elemNum # 0 \/ (~cfg.sync_valid /\ PutPending(cur))
          /\ outValid(nxt)' \in BOOLEAN /\ outValid(cur) \in BOOLEAN
      BY <2>1, <1>b, <1>f, <1>n, <1>x DEF outValid, PutPending
    <3>3. CASE core.elemNum # 0 \/ cfg.sync_valid
      BY <3>2, <3>3
    <3>4. CASE ~(core.elemNum # 0 \/ cfg.sync_valid)
      <4>1. nxt'.put_req = NewPutReq(FALSE) /\ ~PutPending(cur)
        BY <2>1, <3>1, <3>4, <1>c, <1>n
      <4>2. ~PutPending(nxt)'
        BY <2>1, <3>1, <4>1, <1>n, <1>x DEF PutPending, NewPutReq
      <4> QED BY <3>2, <4>1, <4>2
    <3> QED BY <3>3, <3>4
  <2>2. ASSUME ~rst, ~cfg.cthread_get, edge = "none", "get" \notin delta', "get" \notin runnable'
        PROVE  GetPending(nxt)' = (nxt'.get_op \in {"get", "get_enable"} /\ outValid(nxt)')
    <3>1. /\ outValid(nxt) = outValid(cur)
          /\ GetPending(nxt) = (nxt.get_op \in {"get", "get_enable"} /\ outValid(nxt))
      BY <2>2, <1>i, <1>f, <1>s DEF GetAsks
    <3> QED BY <2>1, <2>2, <3>1, <1>x
  <2>3. edge = "reset" => rst
    BY <1>k
  <2>4. ASSUME ~rst, ~cfg.cthread_get, edge = "time", "get" \notin delta'
        PROVE  GetPending(cur) = (cur.get_op \in {"get", "get_enable"} /\ outValid(cur))
    BY <2>4, <1>i, <1>s DEF GetAsks
  <2> QED BY <2>1, <2>2, <2>3, <2>4, <1>f, <1>x DEF GetAsks
<1> QED BY <1>q, <1>1, <1>2, <1>3, <1>4, <1>5, <1>6, <1>7 DEF WInv


\* A run of the GET process wakes everyone who waits for it.
LEMMA GetWakeUps ==
    ASSUME WInv, GetStep
    PROVE  WInv'
<1>i. /\ QInv /\ Inv /\ Types /\ OpsKnown /\ PutCalled /\ GetCalled /\ PutWaits /\ GetWaits
      /\ PutAsks /\ GetAsks
  BY DEF WInv, QInv, Inv
<1>q. QInv' /\ Inv'
  BY <1>i, GetQueue DEF QInv
<1>t. /\ cfg \in Configs /\ cur \in Signals /\ nxt \in Signals /\ nxt' \in Signals
      /\ rst \in BOOLEAN /\ edge \in {"none", "time", "reset"}
      /\ blocked \in [put : BOOLEAN, get : BOOLEAN]
  BY <1>i, GetFields DEF Types
<1>b. /\ cfg.cthread_put \in BOOLEAN /\ cfg.cthread_get \in BOOLEAN
      /\ cfg.sync_ready \in BOOLEAN /\ cfg.targ_init_sync \in BOOLEAN
      /\ cur.get_req \in BOOLEAN /\ cur.get_req_d \in BOOLEAN /\ nxt.get_req_d \in BOOLEAN
  BY <1>t, ConfigType, SignalType
<1>f. /\ UNCHANGED <<cfg, cur, core, rst, edge, put_ok, q>>
      /\ "get" \in runnable /\ runnable' = runnable \ {"get"}
  BY DEF GetStep, GetFrame, GetRuns
<1>s. SameGetBut(nxt, nxt') /\ blocked'.put = blocked.put
      /\ timed \subseteq timed' /\ delta \subseteq delta'
  BY <1>i, GetFields
<1>k. /\ cfg.cthread_get => edge # "none"
      /\ ~cfg.cthread_get => edge # "time"
      /\ edge = "reset" => rst
  BY <1>i, <1>f, TimedEvents DEF Inv, Phases
<1>w. "put" \in Woken' => IF cfg.cthread_put THEN "put" \in timed' ELSE "put" \in delta'
  <2>1. Timed' = Timed
    BY <1>f DEF Timed
  <2> QED BY <1>q, <1>b, <2>1, TimedEvents DEF Inv, Types, Woken
<1>x. /\ NewPut' = NewPut /\ Woken \subseteq Woken'
      /\ putReady(cur)' = putReady(cur) /\ outValid(cur)' = outValid(cur)
      /\ PutPending(cur)' = PutPending(cur) /\ GetPending(cur)' = GetPending(cur)
      /\ PutPending(nxt)' = PutPending(nxt)
      /\ nxt'.get_op = nxt.get_op /\ nxt'.put_op = nxt.put_op /\ nxt'.put_req = nxt.put_req
      /\ nxt'.put_done = nxt.put_done /\ nxt'.element_num_d = nxt.element_num_d
      /\ nxt'.get_req_d = nxt.get_req_d
      /\ GetWakesThread' = GetWakesThread /\ GetWakesMethod' = GetWakesMethod
  BY <1>f, <1>s DEF NewPut, Woken, putReady, outValid, GetPending, PutPending, SameGetBut,
                    GetWakesThread, GetWakesMethod
<1>n. /\ edge = "none" => /\ cur.element_num_d = core.elemNum /\ nxt.element_num_d = core.elemNum
                          /\ nxt.get_op = cur.get_op /\ nxt.get_req_d = cur.get_req_d
                          /\ nxt.put_done = cur.put_done
      /\ edge = "time" /\ ~rst => nxt.get_req = cur.get_req
  BY <1>i, <1>f DEF Inv, Mirror, Shown, ResetSeen, Writers
\* The three outcomes.
<1>c. \/ /\ cfg.cthread_get /\ nxt' = nxt /\ blocked'.get = ~rst
         /\ rst \/ ~outValid(cur)
      \/ /\ nxt'.get_req = NewGetReq(FALSE) /\ blocked'.get = FALSE
         /\ ~cfg.cthread_get => ~(cur.get_op \in {"get", "get_enable"} /\ outValid(cur))
         /\ ~cfg.cthread_put /\ ~cfg.sync_ready /\ GetPending(cur) /\ ~cfg.cthread_get
            => "put" \in Woken'
      \/ /\ nxt'.get_req = NewGetReq(TRUE) /\ blocked'.get = FALSE
         /\ ~cfg.cthread_get => cur.get_op \in {"get", "get_enable"} /\ outValid(cur)
         /\ ~cfg.sync_ready
            /\ \/ cur.element_num_d = cfg.fifoSize
               \/ /\ cfg.cthread_get /\ PutPending(cur)
                  /\ cur.element_num_d = cfg.fifoSize - 1
               \/ /\ "get_enable" \notin GetOps /\ cfg.targ_init /\ cfg.cthread_put
                  /\ cur.element_num_d = cfg.fifoSize - 1
               \/ /\ "get_enable" \notin GetOps /\ cfg.targ_init_sync
                  /\ ~cfg.cthread_put /\ cfg.cthread_get
            => "put" \in Woken'
  <2>1. CASE GetSleeps
    BY <2>1, <1>t DEF GetSleeps
  <2>2. CASE GetRefuses
    <3>1. nxt' = [nxt EXCEPT !.get_req = NewGetReq(FALSE)]
      BY <2>2 DEF GetRefuses
    <3>2. nxt'.get_req = NewGetReq(FALSE)
      BY <3>1, <1>t DEF Signals
    <3>3. blocked'.get = FALSE
      BY <2>2, <1>i, <1>t, <1>b DEF GetRefuses, GetWaits
    <3>4. ~cfg.cthread_put /\ ~cfg.sync_ready /\ GetPending(cur) /\ ~cfg.cthread_get
            => "put" \in Woken'
      <4>1. Notify(ClearGetNotifies)
        BY <2>2 DEF GetRefuses
      <4>2. ClearGetNotifies \subseteq Woken'
        BY <4>1, NotifyWakes
      <4> QED BY <4>2 DEF ClearGetNotifies, When
    <3> QED BY <2>2, <3>2, <3>3, <3>4 DEF GetRefuses
  <2>3. ASSUME NEW notifies, GetDoes(notifies)
        PROVE  /\ nxt'.get_req = NewGetReq(TRUE) /\ blocked'.get = FALSE
               /\ ~cfg.cthread_get => cur.get_op \in {"get", "get_enable"} /\ outValid(cur)
               /\ notifies \subseteq Woken'
    <3>1. nxt' = [nxt EXCEPT !.get_req = NewGetReq(TRUE)]
      BY <2>3 DEF GetDoes
    <3>2. nxt'.get_req = NewGetReq(TRUE)
      BY <3>1, <1>t DEF Signals
    <3>3. blocked'.get = FALSE
      BY <2>3, <1>i, <1>t, <1>b DEF GetDoes, GetWaits
    <3>4. Notify(ClearGetNotifies \cup notifies)
      BY <2>3 DEF GetDoes
    <3>5. notifies \subseteq Woken'
      BY <3>4, NotifyWakes
    <3> QED BY <2>3, <3>2, <3>3, <3>5 DEF GetDoes
  <2>4. CASE GetDoes(GetNotifies)
    <3>1. GetNotifies \subseteq Woken'
      BY <2>3, <2>4
    <3> QED BY <2>3, <2>4, <3>1 DEF GetNotifies, GetEnableNotifies, When
  <2>5. CASE GetDoes(GetEnableNotifies) /\ "get_enable" \in GetOp
    <3>1. GetEnableNotifies \subseteq Woken'
      BY <2>3, <2>5
    <3>2. "get_enable" \in GetOps
      BY <2>5, <1>i DEF GetOp, OpsKnown
    <3> QED BY <2>3, <2>5, <3>1, <3>2 DEF GetEnableNotifies, When
  <2> QED BY <2>1, <2>2, <2>4, <2>5 DEF GetStep
<1>1. OpsKnown'
  BY <1>i, <1>f, <1>x DEF OpsKnown
<1>2. GetCalled'
  BY <1>i, <1>f, <1>x DEF GetCalled
<1>3. PutCalled'
  <2>1. ASSUME edge = "time", ~rst, "put" \notin Woken', NewGet'
        PROVE  /\ ~cfg.sync_ready =>
                     /\ cur.element_num_d # cfg.fifoSize
                     /\ PutPending(cur) => cur.element_num_d # cfg.fifoSize - 1
                     /\ GetWakesThread /\ cfg.targ_init /\ cfg.cthread_put =>
                           cur.element_num_d # cfg.fifoSize - 1
               /\ GetWakesMethod => ~(cfg.targ_init_sync /\ ~cfg.cthread_put)
    <3>1. nxt'.get_req # cur.get_req /\ cfg.cthread_get
      BY <2>1, <1>f, <1>k DEF NewGet
    <3>2. NewGetReq(FALSE) = cur.get_req
      BY <3>1 DEF NewGetReq
    <3> QED BY <1>c, <1>n, <2>1, <3>1, <3>2 DEF GetWakesThread, GetWakesMethod
  <2> QED BY <2>1, <1>i, <1>f, <1>x DEF PutCalled
<1>4. GetWaits'
  <2> SUFFICES ASSUME blocked'.get PROVE GetWaits'
    BY DEF GetWaits
  <2>1. cfg.cthread_get /\ nxt' = nxt /\ ~rst /\ ~outValid(cur)
    BY <1>c, <1>t
  <2>2. edge = "time"
    BY <2>1, <1>k, <1>t
  <2> QED BY <2>1, <2>2, <1>f, <1>n, <1>x DEF GetWaits
<1>5. PutWaits'
  <2>1. ASSUME blocked.put, edge = "none", "put" \notin timed', GetPending(nxt)', GetWakesThread
        PROVE  cfg.sync_ready
    <3>1. /\ cfg.cthread_put /\ (GetPending(nxt) => cfg.sync_ready)
          /\ core.elemNum = cfg.fifoSize \/ (cfg.targ_init /\ core.elemNum = cfg.fifoSize - 1)
      BY <2>1, <1>i, <1>s DEF PutWaits
    <3>2. "put" \notin Woken' /\ ~cfg.cthread_get
      BY <2>1, <3>1, <1>w, <1>k
    <3>3. nxt'.get_req # nxt'.get_req_d
      BY <2>1 DEF GetPending
    <3>4. nxt'.get_req # NewGetReq(FALSE)
      BY <2>1, <3>2, <3>3, <1>n, <1>x DEF NewGetReq
    <3> QED BY <2>1, <3>1, <3>2, <3>4, <1>c, <1>n, <1>b DEF GetWakesThread
  <2> QED BY <2>1, <1>i, <1>f, <1>s, <1>x DEF PutWaits
<1>6. GetAsks'
  <2> SUFFICES ASSUME ~rst, ~cfg.cthread_get, "get" \notin delta'
               PROVE  /\ edge = "none"
                      /\ outValid(nxt)' = outValid(cur)
                      /\ GetPending(nxt)' = (nxt'.get_op \in {"get", "get_enable"}
                                             /\ outValid(nxt)')
    BY <1>f, <1>k, <1>t, <1>x DEF GetAsks
  <2>1. edge = "none"
    BY <1>k, <1>t
  <2>2. outValid(nxt) = outValid(cur)
    BY <2>1, <1>i, <1>s DEF GetAsks
  <2>3. outValid(nxt)' = outValid(nxt)
    BY <1>f, <1>x, <1>s DEF outValid, PutPending, SameGetBut
  <2>4. GetPending(nxt)' <=> (cur.get_op \in {"get", "get_enable"} /\ outValid(cur))
    <3>1. nxt'.get_req_d = cur.get_req_d
      BY <2>1, <1>n, <1>x
    <3> QED BY <3>1, <1>c, <1>b DEF GetPending, NewGetReq
  <2>5. GetPending(nxt)' \in BOOLEAN
    BY DEF GetPending
  <2> QED BY <2>1, <2>2, <2>3, <2>4, <2>5, <1>n, <1>x
<1>7. PutAsks'
  <2>1. ASSUME ~rst, ~cfg.cthread_put, edge = "none", "put" \notin delta'
        PROVE  putReady(nxt)' = putReady(cur)
    <3>1. "put" \notin Woken' /\ ~cfg.cthread_get
      BY <2>1, <1>w, <1>k
    <3>2. /\ putReady(nxt)' <=>
                /\ ~(cfg.targ_init_sync /\ ~cur.put_done /\ core.elemNum # 0)
                /\ core.elemNum # cfg.fifoSize \/ (~cfg.sync_ready /\ GetPending(nxt)')
          /\ putReady(cur) <=>
                /\ ~(cfg.targ_init_sync /\ ~cur.put_done /\ core.elemNum # 0)
                /\ core.elemNum # cfg.fifoSize \/ (~cfg.sync_ready /\ GetPending(cur))
          /\ putReady(nxt)' \in BOOLEAN /\ putReady(cur) \in BOOLEAN
      BY <2>1, <3>1, <1>b, <1>f, <1>n, <1>x DEF putReady, GetPending
    <3>3. CASE core.elemNum # cfg.fifoSize \/ cfg.sync_ready
      BY <3>2, <3>3
    <3>4. CASE ~(core.elemNum # cfg.fifoSize \/ cfg.sync_ready)
      <4>1. nxt'.get_req = NewGetReq(FALSE) /\ ~GetPending(cur)
        BY <2>1, <3>1, <3>4, <1>c, <1>n
      <4>2. ~GetPending(nxt)'
        BY <2>1, <3>1, <4>1, <1>n, <1>x DEF GetPending, NewGetReq
      <4> QED BY <3>2, <4>1, <4>2
    <3> QED BY <3>3, <3>4
  <2>2. ASSUME ~rst, ~cfg.cthread_put, edge = "none", "put" \notin delta', "put" \notin runnable',
               GetWakesMethod
        PROVE  PutPending(nxt)' = (nxt'.put_op = "put" /\ putReady(nxt)')
    <3>1. /\ putReady(nxt) = putReady(cur)
          /\ PutPending(nxt) = (nxt.put_op = "put" /\ putReady(nxt))
      BY <2>2, <1>i, <1>f, <1>s DEF PutAsks
    <3> QED BY <2>1, <2>2, <3>1, <1>x
  <2>3. edge = "reset" => rst
    BY <1>k
  <2>4. ASSUME ~rst, ~cfg.cthread_put, edge = "time", "put" \notin delta', GetWakesMethod
        PROVE  PutPending(cur) = (cur.put_op = "put" /\ putReady(cur))
    BY <2>4, <1>i, <1>s DEF PutAsks
  <2> QED BY <2>1, <2>2, <2>3, <2>4, <1>f, <1>x DEF PutAsks
<1> QED BY <1>q, <1>1, <1>2, <1>3, <1>4, <1>5, <1>6, <1>7 DEF WInv


\* updateProc wakes everyone who waits for the requests it performs.
LEMMA UpdateProcWakeUps ==
    ASSUME WInv, updateProc
    PROVE  WInv'
<1>i. /\ QInv /\ Inv /\ Types /\ OpsKnown /\ PutCalled /\ GetCalled /\ PutWaits /\ GetWaits
      /\ PutAsks /\ GetAsks
  BY DEF WInv, QInv, Inv
<1>q. QInv' /\ Inv'
  BY <1>i, UpdateProcQueue DEF QInv
<1>u. /\ "update" \in runnable /\ runnable' = runnable \ {"update"}
      /\ UNCHANGED <<cfg, cur, rst, edge, put_ok, get_ok, seen, blocked, q, op, resets>>
      /\ SameUpdateBut(nxt, nxt')
  BY <1>i, UpdateFields
<1>e. edge = "time"
  BY <1>i, <1>u, TimedEvents DEF Inv, Types, Phases
<1>t. cfg \in Configs /\ nxt \in Signals /\ cur \in Signals
  BY <1>i DEF Types
<1>b. /\ cfg.cthread_put \in BOOLEAN /\ cfg.cthread_get \in BOOLEAN
      /\ cfg.sync_valid \in BOOLEAN /\ cfg.sync_ready \in BOOLEAN
      /\ cfg.targ_init_sync \in BOOLEAN
      /\ PutPending(cur) \in BOOLEAN /\ GetPending(cur) \in BOOLEAN
  BY <1>t, ConfigType DEF PutPending, GetPending
<1>r. ~rst => cur.has_reset = core.hasReset
  BY <1>e, <1>i DEF Inv, ResetSeen, ResetAsked
\* What it notifies.
<1>n. /\ timed \subseteq timed' /\ delta \subseteq delta'
      /\ ~rst /\ (PutPending(cur) \/ GetPending(cur)) =>
            /\ ~cfg.cthread_put \/ (GetPending(cur) /\ cfg.sync_ready) => "put" \in Woken'
            /\ ~cfg.cthread_get \/ (PutPending(cur) /\ cfg.sync_valid) => "get" \in Woken'
  <2> DEFINE doPut == PutPending(cur)
             doGet == GetPending(cur)
             reset == cur.has_reset # core.hasReset
             moved == ~reset /\ (doPut \/ doGet)
             events == When(moved /\ (~cfg.cthread_put \/ (doGet /\ cfg.sync_ready)), "put")
                  \cup When(moved /\ (~cfg.cthread_get \/ (doPut /\ cfg.sync_valid)), "get")
                  \cup When(moved /\ \/ cfg.peek = "method"
                                     \/ cfg.peek = "thread" /\ doPut /\ cfg.sync_valid, "peek")
                  \cup When(cfg.targ_init_sync /\ ~cfg.cthread_put /\ (doPut \/ doGet), "update")
  <2>1. Notify(events)
    BY DEF updateProc
  <2>2. timed \subseteq timed' /\ delta \subseteq delta' /\ events \subseteq Woken'
    BY <2>1, NotifyWakes
  <2> QED BY <2>2, <1>r DEF When
<1>d. nxt'.put_done = IF cfg.targ_init_sync THEN PutPending(cur) \/ GetPending(cur)
                                            ELSE nxt.put_done
  BY <1>t DEF updateProc, Signals
<1>x. /\ NewPut' = NewPut /\ NewGet' = NewGet /\ Woken \subseteq Woken'
      /\ putReady(cur)' = putReady(cur) /\ outValid(cur)' = outValid(cur)
      /\ PutPending(cur)' = PutPending(cur) /\ GetPending(cur)' = GetPending(cur)
      /\ nxt'.get_op = nxt.get_op /\ nxt'.get_req = nxt.get_req /\ nxt'.put_req = nxt.put_req
      /\ GetWakesThread' = GetWakesThread /\ GetWakesMethod' = GetWakesMethod
  BY <1>u, <1>e, <1>n DEF NewPut, NewGet, Woken, putReady, outValid, GetPending, PutPending,
                          SameUpdateBut, GetWakesThread, GetWakesMethod
<1>1. OpsKnown'
  BY <1>i, <1>u, <1>x DEF OpsKnown
<1>2. PutCalled'
  <2> SUFFICES ASSUME ~rst, "put" \notin Woken'
               PROVE  /\ GetPending(cur) => cfg.cthread_put /\ ~cfg.sync_ready
                      /\ ~cfg.cthread_put => ~PutPending(cur)
                      /\ ~cfg.cthread_put /\ nxt'.put_done => cur.put_done
    BY <1>i, <1>u, <1>x DEF PutCalled
  <2>1. ~cfg.cthread_put => ~PutPending(cur) /\ ~GetPending(cur)
    BY <1>n
  <2>2. ~cfg.cthread_put /\ nxt.put_done => cur.put_done
    BY <1>e, <1>i, <1>x DEF PutCalled
  <2> QED BY <2>1, <2>2, <1>n, <1>d, <1>b
<1>3. GetCalled'
  <2> SUFFICES ASSUME ~rst, "get" \notin Woken'
               PROVE  /\ PutPending(cur) => cfg.cthread_get /\ ~cfg.sync_valid
                      /\ ~cfg.cthread_get => ~GetPending(cur)
    BY <1>i, <1>u, <1>x DEF GetCalled
  <2> QED BY <1>n, <1>b
<1>4. PutWaits' /\ GetWaits'
  BY <1>e, <1>i, <1>u, <1>n, <1>x DEF PutWaits, GetWaits
<1>5. PutAsks' /\ GetAsks'
  BY <1>e, <1>i, <1>u, <1>n, <1>x DEF PutAsks, GetAsks
<1> QED BY <1>q, <1>1, <1>2, <1>3, <1>4, <1>5 DEF WInv

\* resetProc wakes the users when reset is released.
LEMMA ResetCoreWakeUps ==
    ASSUME WInv, reset_core
    PROVE  WInv'
<1>i. /\ QInv /\ Inv /\ Types /\ OpsKnown /\ PutWaits /\ GetWaits /\ PutAsks /\ GetAsks
  BY DEF WInv, QInv, Inv
<1>q. QInv' /\ Inv'
  BY <1>i, ResetCoreQueue DEF QInv
<1>f. /\ "resetProc" \in runnable /\ runnable' = runnable \ {"resetProc"}
      /\ UNCHANGED <<cfg, cur, core, rst, edge, put_ok, get_ok, seen, blocked, q, op,
                     resets>>
  BY DEF reset_core
<1>t. cfg \in Configs /\ nxt \in Signals
  BY <1>i DEF Types
<1>e. edge = "reset"
  BY <1>i, <1>f, TimedEvents DEF Inv, Types, Phases
<1>n. nxt'.get_op = nxt.get_op
  BY <1>t DEF reset_core, Signals
<1>1. OpsKnown' /\ PutCalled' /\ GetCalled'
  BY <1>i, <1>e, <1>f, <1>n DEF OpsKnown, PutCalled, GetCalled
<1>2. PutWaits' /\ GetWaits'
  BY <1>i, <1>e, <1>f DEF PutWaits, GetWaits
<1>3. PutAsks' /\ GetAsks'
  <2> SUFFICES ASSUME ~rst
               PROVE  /\ ~cfg.cthread_put => "put" \in delta'
                      /\ ~cfg.cthread_get => "get" \in delta'
    BY <1>e, <1>f DEF PutAsks, GetAsks
  <2> DEFINE events == {"put", "get"} \cup When(cfg.peek # "none", "peek")
  <2>1. Notify(events)
    BY DEF reset_core
  <2> QED BY <2>1, TimedEvents DEF Notify
<1> QED BY <1>q, <1>1, <1>2, <1>3 DEF WInv

\* A step that changes nothing a process waits for.
LEMMA WakeUpsKept ==
    ASSUME WInv, QInv',
           UNCHANGED <<cfg, cur, nxt, core, delta, timed, rst, edge, blocked>>,
           runnable' = runnable \/ runnable' = runnable \ {"peek"}
    PROVE  WInv'
<1>x. /\ NewPut' = NewPut /\ NewGet' = NewGet /\ Woken' = Woken
      /\ putReady(cur)' = putReady(cur) /\ outValid(cur)' = outValid(cur)
      /\ putReady(nxt)' = putReady(nxt) /\ outValid(nxt)' = outValid(nxt)
      /\ PutPending(cur)' = PutPending(cur) /\ GetPending(cur)' = GetPending(cur)
      /\ PutPending(nxt)' = PutPending(nxt) /\ GetPending(nxt)' = GetPending(nxt)
      /\ GetWakesThread' = GetWakesThread /\ GetWakesMethod' = GetWakesMethod
  BY DEF NewPut, NewGet, Woken, putReady, outValid, GetPending, PutPending, GetWakesThread,
         GetWakesMethod
<1>1. OpsKnown' /\ PutCalled' /\ GetCalled'
  BY <1>x DEF WInv, OpsKnown, PutCalled, GetCalled
<1>2. PutWaits' /\ GetWaits'
  BY <1>x DEF WInv, PutWaits, GetWaits
<1>3. PutAsks' /\ GetAsks'
  BY <1>x DEF WInv, PutAsks, GetAsks
<1> QED BY <1>1, <1>2, <1>3 DEF WInv

\* A peeking process wakes nobody.
LEMMA PeekWakeUps ==
    ASSUME WInv, peek
    PROVE  WInv'
<1>1. QInv'
  BY PeekQueue DEF WInv
<1> QED BY <1>1, WakeUpsKept DEF peek


\* The end of an evaluation phase: whoever is not woken has nothing to do.
LEMMA UpdateWakeUps ==
    ASSUME WInv, Update
    PROVE  WInv'
<1>i. /\ QInv /\ Inv /\ Types /\ OpsKnown /\ PutCalled /\ GetCalled /\ PutWaits /\ GetWaits
      /\ PutAsks /\ GetAsks
  BY DEF WInv, QInv, Inv
<1>q. QInv'
  BY <1>i, UpdateQueue
<1>t. /\ cfg \in Configs /\ cur \in Signals /\ nxt \in Signals /\ core \in Core
      /\ rst \in BOOLEAN /\ edge \in {"none", "time", "reset"}
      /\ timed \subseteq Timed /\ delta \subseteq {"put", "get", "peek"} \ Timed
  BY <1>i DEF Types
<1>f. /\ runnable = {} /\ cur' = nxt /\ runnable' = delta \cup Stimulated
      /\ delta' = {} /\ edge' = "none" /\ nxt' = nxt
      /\ UNCHANGED <<cfg, core, timed, rst, blocked>>
  BY DEF Update
<1>b. /\ cfg.cthread_put \in BOOLEAN /\ cfg.cthread_get \in BOOLEAN
      /\ cfg.sync_valid \in BOOLEAN /\ cfg.sync_ready \in BOOLEAN
      /\ cfg.targ_init \in BOOLEAN /\ cfg.targ_init_sync \in BOOLEAN
      /\ PutPending(cur) \in BOOLEAN /\ GetPending(cur) \in BOOLEAN
      /\ PutPending(nxt) \in BOOLEAN /\ GetPending(nxt) \in BOOLEAN
      /\ cfg.fifoSize \in Nat /\ cfg.fifoSize > 0
      /\ cur.element_num_d \in 0 .. cfg.fifoSize
      /\ cur.put_done \in BOOLEAN /\ nxt.put_done \in BOOLEAN
  BY <1>t, ConfigType, SignalType DEF PutPending, GetPending
<1>x. /\ putReady(cur)' = putReady(nxt) /\ outValid(cur)' = outValid(nxt)
      /\ putReady(nxt)' = putReady(nxt) /\ outValid(nxt)' = outValid(nxt)
      /\ PutPending(nxt)' = PutPending(nxt) /\ GetPending(nxt)' = GetPending(nxt)
      /\ GetWakesThread' = GetWakesThread /\ GetWakesMethod' = GetWakesMethod
  BY <1>f DEF putReady, outValid, GetPending, PutPending, GetWakesThread, GetWakesMethod
<1>w. /\ "put" \in Woken <=> IF cfg.cthread_put THEN "put" \in timed ELSE "put" \in delta
      /\ "get" \in Woken <=> IF cfg.cthread_get THEN "get" \in timed ELSE "get" \in delta
  BY <1>t, <1>b, TimedEvents DEF Woken
\* At an edge that everyone has answered.
<1>e. ASSUME edge = "time", ~rst
      PROVE  /\ core.elemNum = cur.element_num_d + (IF PutPending(cur) THEN 1 ELSE 0)
                                                 - (IF GetPending(cur) THEN 1 ELSE 0)
             /\ nxt.element_num_d = core.elemNum
             /\ LegalPut(PutPending(cur), GetPending(cur), cur.element_num_d)
             /\ LegalGet(PutPending(cur), GetPending(cur), cur.element_num_d)
             /\ (PutPending(nxt) <=> NewPut) /\ (GetPending(nxt) <=> NewGet)
             /\ ~cfg.cthread_put => ~NewPut
             /\ ~cfg.cthread_get => ~NewGet
  <2>1. nxt.put_req_d = cur.put_req /\ nxt.get_req_d = cur.get_req
        /\ nxt.element_num_d = core.elemNum
    BY <1>e, <1>f, <1>i DEF Inv, Mirror
  <2>2. (PutPending(nxt) <=> NewPut) /\ (GetPending(nxt) <=> NewGet)
    BY <1>e, <2>1 DEF NewPut, NewGet, PutPending, GetPending
  <2>3. /\ ~cfg.cthread_put => ~NewPut
        /\ ~cfg.cthread_get => ~NewGet
    BY <1>e, <1>i DEF Inv, Writers, NewPut, NewGet
  <2> QED BY <1>e, <1>f, <1>i, <2>1, <2>2, <2>3 DEF Inv, AtEdge, Elements
<1>1. OpsKnown' /\ PutCalled' /\ GetCalled'
  BY <1>i, <1>f DEF OpsKnown, PutCalled, GetCalled
<1>2. PutWaits'
  <2> SUFFICES ASSUME blocked.put
               PROVE  /\ cfg.cthread_put /\ ~rst /\ ~PutPending(nxt)
                      /\ "put" \notin timed /\ GetWakesThread =>
                            /\ core.elemNum = cfg.fifoSize
                               \/ (cfg.targ_init /\ core.elemNum = cfg.fifoSize - 1)
                            /\ GetPending(nxt) => cfg.sync_ready
    BY <1>f, <1>x DEF PutWaits
  <2>1. cfg.cthread_put /\ ~rst /\ edge # "reset"
    BY <1>i, <1>f DEF PutWaits
  <2>2. CASE edge = "none"
    BY <2>1, <2>2, <1>i DEF PutWaits
  <2>3. CASE edge = "time"
    <3>1. ~PutPending(nxt)
      BY <2>1, <2>3, <1>e, <1>f, <1>i DEF PutWaits, NewPut
    <3>2. ASSUME "put" \notin timed, GetWakesThread
          PROVE  /\ core.elemNum = cfg.fifoSize
                    \/ (cfg.targ_init /\ core.elemNum = cfg.fifoSize - 1)
                 /\ GetPending(nxt) => cfg.sync_ready
      <4>1. ~putReady(cur) \/ (cfg.sync_ready /\ GetPending(cur))
        BY <2>3, <3>2, <1>f, <1>i DEF PutWaits
      <4>2. /\ GetPending(cur) => ~cfg.sync_ready
            /\ NewGet /\ ~cfg.sync_ready =>
                  /\ cur.element_num_d # cfg.fifoSize
                  /\ PutPending(cur) => cur.element_num_d # cfg.fifoSize - 1
                  /\ cfg.targ_init => cur.element_num_d # cfg.fifoSize - 1
        BY <2>1, <2>3, <3>2, <1>f, <1>i, <1>w DEF PutCalled
      <4>3. ~GetPending(cur) /\ ~putReady(cur)
        BY <2>1, <4>1, <4>2, <1>t, <1>b, ReadyIs
      <4>4. \/ cur.element_num_d = cfg.fifoSize
            \/ /\ cur.element_num_d = cfg.fifoSize - 1
               /\ cfg.targ_init \/ PutPending(cur)
        BY <2>1, <4>3, <1>t, <1>b, ReadyIs
      <4>5. GetPending(nxt) => cfg.sync_ready
        BY <2>1, <2>3, <4>2, <4>4, <1>e
      <4>6. PutPending(cur) => cur.element_num_d # cfg.fifoSize
        BY <2>1, <2>3, <1>e, <1>b DEF LegalPut
      <4>7. core.elemNum = cur.element_num_d + (IF PutPending(cur) THEN 1 ELSE 0)
        BY <2>1, <2>3, <4>3, <1>e, <1>b
      <4> QED BY <4>4, <4>5, <4>6, <4>7, <1>b
    <3> QED BY <2>1, <3>1, <3>2
  <2> QED BY <2>1, <2>2, <2>3, <1>t
<1>3. GetWaits'
  <2> SUFFICES ASSUME blocked.get
               PROVE  /\ cfg.cthread_get /\ ~rst /\ ~GetPending(nxt)
                      /\ "get" \notin timed =>
                            /\ core.elemNum = 0
                            /\ PutPending(nxt) => cfg.sync_valid
    BY <1>f, <1>x DEF GetWaits
  <2>1. cfg.cthread_get /\ ~rst /\ edge # "reset"
    BY <1>i, <1>f DEF GetWaits
  <2>2. CASE edge = "none"
    BY <2>1, <2>2, <1>i DEF GetWaits
  <2>3. CASE edge = "time"
    <3>1. ~GetPending(nxt)
      BY <2>1, <2>3, <1>e, <1>f, <1>i DEF GetWaits, NewGet
    <3>2. ASSUME "get" \notin timed
          PROVE  core.elemNum = 0 /\ (PutPending(nxt) => cfg.sync_valid)
      <4>1. ~outValid(cur)
        BY <2>3, <3>2, <1>f, <1>i DEF GetWaits
      <4>2. /\ PutPending(cur) => ~cfg.sync_valid
            /\ NewPut /\ ~cfg.sync_valid =>
                  /\ cur.element_num_d # 0
                  /\ GetPending(cur) => cur.element_num_d # 1
        BY <2>1, <2>3, <3>2, <1>f, <1>i, <1>w DEF GetCalled
      <4>3. /\ ~PutPending(cur)
            /\ cur.element_num_d = 0 \/ (GetPending(cur) /\ cur.element_num_d = 1)
        BY <2>1, <4>1, <4>2, <1>t, <1>b, ReadyIs
      <4>4. GetPending(cur) => cur.element_num_d # 0
        BY <2>1, <2>3, <4>3, <1>e, <1>b DEF LegalGet
      <4>5. PutPending(nxt) => cfg.sync_valid
        BY <2>1, <2>3, <4>2, <4>3, <1>e
      <4>6. core.elemNum = cur.element_num_d - (IF GetPending(cur) THEN 1 ELSE 0)
        BY <2>1, <2>3, <4>3, <1>e, <1>b
      <4> QED BY <4>3, <4>4, <4>5, <4>6, <1>b
    <3> QED BY <2>1, <3>1, <3>2
  <2> QED BY <2>1, <2>2, <2>3, <1>t
<1>4. PutAsks'
  <2> SUFFICES ASSUME ~rst, ~cfg.cthread_put, GetWakesMethod, "put" \notin runnable'
               PROVE  PutPending(nxt) = (nxt.put_op = "put" /\ putReady(nxt))
    BY <1>f, <1>x DEF PutAsks
  <2>1. "put" \notin delta /\ nxt.put_op = cur.put_op
    BY <1>f DEF Stimulated, When
  <2>2. edge # "reset"
    BY <2>1, <1>f, <1>i DEF PutAsks
  <2>3. CASE edge = "none"
    BY <2>1, <2>3, <1>f, <1>i DEF PutAsks
  <2>4. CASE edge = "time"
    <3>1. /\ ~PutPending(cur) /\ ~GetPending(cur)
          /\ NewGet /\ ~cfg.sync_ready => cur.element_num_d # cfg.fifoSize
          /\ NewGet => ~cfg.targ_init_sync
          /\ nxt.put_done => cur.put_done
      BY <2>1, <2>4, <1>f, <1>i, <1>w DEF PutCalled
    <3>2. PutPending(cur) = (cur.put_op = "put" /\ putReady(cur))
      BY <2>1, <2>4, <1>i DEF PutAsks
    <3>3. nxt.element_num_d = cur.element_num_d
      BY <2>4, <3>1, <1>e, <1>b
    <3>4. ASSUME ~putReady(cur) PROVE ~putReady(nxt)
      <4>1. ~(/\ ~(cfg.targ_init_sync /\ ~cur.put_done /\ cur.element_num_d # 0)
              /\ cur.element_num_d # cfg.fifoSize)
        BY <3>1, <3>4, <1>t, ReadyIs
      <4>2. GetPending(nxt) <=> NewGet
        BY <2>4, <1>e
      <4> QED BY <3>1, <3>3, <4>1, <4>2, <1>t, <1>b, ReadyIs
    <3>5. ~PutPending(nxt)
      BY <2>4, <1>e
    <3>6. ~(nxt.put_op = "put" /\ putReady(nxt))
      BY <2>1, <3>1, <3>2, <3>4
    <3> QED BY <3>5, <3>6, <1>b
  <2> QED BY <2>2, <2>3, <2>4, <1>t
<1>5. GetAsks'
  <2> SUFFICES ASSUME ~rst, ~cfg.cthread_get, "get" \notin runnable'
               PROVE  GetPending(nxt) = (nxt.get_op \in {"get", "get_enable"} /\ outValid(nxt))
    BY <1>f, <1>x DEF GetAsks
  <2>1. "get" \notin delta /\ nxt.get_op = cur.get_op
    BY <1>f DEF Stimulated, When
  <2>2. edge # "reset"
    BY <2>1, <1>f, <1>i DEF GetAsks
  <2>3. CASE edge = "none"
    BY <2>1, <2>3, <1>f, <1>i DEF GetAsks
  <2>4. CASE edge = "time"
    <3>1. /\ ~PutPending(cur) /\ ~GetPending(cur)
          /\ NewPut /\ ~cfg.sync_valid => cur.element_num_d # 0
      BY <2>1, <2>4, <1>f, <1>i, <1>w DEF GetCalled
    <3>2. GetPending(cur) = (cur.get_op \in {"get", "get_enable"} /\ outValid(cur))
      BY <2>1, <2>4, <1>i DEF GetAsks
    <3>3. nxt.element_num_d = cur.element_num_d /\ (PutPending(nxt) <=> NewPut)
      BY <2>4, <3>1, <1>e, <1>b
    <3>4. ASSUME ~outValid(cur) PROVE ~outValid(nxt)
      BY <3>1, <3>3, <3>4, <1>t, <1>b, ReadyIs
    <3>5. ~GetPending(nxt)
      BY <2>4, <1>e
    <3>6. ~(nxt.get_op \in {"get", "get_enable"} /\ outValid(nxt))
      BY <2>1, <3>1, <3>2, <3>4
    <3> QED BY <3>5, <3>6, <1>b
  <2> QED BY <2>2, <2>3, <2>4, <1>t
<1> QED BY <1>q, <1>1, <1>2, <1>3, <1>4, <1>5 DEF WInv


\* One clock period later the processes woken run, the others have nothing to do.
LEMMA AdvanceWakeUps ==
    ASSUME WInv, AdvanceTime
    PROVE  WInv'
<1>i. /\ QInv /\ Inv /\ Types /\ OpsKnown /\ PutWaits /\ GetWaits /\ PutAsks /\ GetAsks
  BY DEF WInv, QInv, Inv
<1>q. QInv'
  BY <1>i, AdvanceQueue
<1>f. /\ runnable = {} /\ nxt = cur /\ delta = {} /\ edge = "none"
      /\ timed' = {} /\ edge' = "time"
      /\ UNCHANGED <<cfg, cur, core, delta, rst, blocked>>
  BY DEF AdvanceTime, Settled
<1>t. cfg \in Configs /\ cur \in Signals /\ nxt \in Signals /\ core \in Core
  BY <1>i DEF Types
<1>b. /\ cfg.cthread_put \in BOOLEAN /\ cfg.cthread_get \in BOOLEAN
      /\ cfg.sync_valid \in BOOLEAN /\ cfg.sync_ready \in BOOLEAN
      /\ cfg.targ_init \in BOOLEAN /\ cfg.fifoSize \in Nat /\ cfg.fifoSize > 0
      /\ core.elemNum = cur.element_num_d
  BY <1>t, <1>f, <1>i, ConfigType DEF Inv, Mirror
<1>n. /\ nxt'.put_req = cur.put_req /\ nxt'.get_req = cur.get_req
      /\ nxt'.put_done = cur.put_done /\ nxt'.get_op \in GetOps \cup {"clear"}
  <2>1. PICK po \in (IF cfg.cthread_put \/ rst THEN {"clear"} ELSE PutOps \ {"b_put"}) :
        \E pv \in IF po = "put" THEN Data ELSE {ZERO},
           go \in IF cfg.cthread_get \/ rst THEN {"clear"} ELSE GetOps \ {"b_get"} :
           nxt' = [nxt EXCEPT !.put_op = po, !.put_val = pv, !.get_op = go]
    BY DEF AdvanceTime
  <2>2. PICK pv \in (IF po = "put" THEN Data ELSE {ZERO}),
             go \in (IF cfg.cthread_get \/ rst THEN {"clear"} ELSE GetOps \ {"b_get"}) :
           nxt' = [nxt EXCEPT !.put_op = po, !.put_val = pv, !.get_op = go]
    BY <2>1
  <2> QED BY <2>2, <1>f, <1>t DEF Signals
<1>u. /\ timed \subseteq runnable'
      /\ "update" \notin runnable' => ~PutPending(cur) /\ ~GetPending(cur)
  <2>1. timed \subseteq runnable'
    BY DEF AdvanceTime
  <2>2. "update" \notin timed => ~PutPending(cur) /\ ~GetPending(cur)
    BY <1>i, <1>f DEF Inv, Requests, NewPut, NewGet
  <2> QED BY <2>1, <2>2
<1>x. /\ putReady(cur)' = putReady(cur) /\ outValid(cur)' = outValid(cur)
      /\ PutPending(cur)' = PutPending(cur) /\ GetPending(cur)' = GetPending(cur)
      /\ GetWakesThread' = GetWakesThread /\ GetWakesMethod' = GetWakesMethod
      /\ ~NewPut' /\ ~NewGet'
  BY <1>f, <1>n DEF putReady, outValid, GetPending, PutPending, GetWakesThread, GetWakesMethod,
                    NewPut, NewGet
<1>p. PutPending(cur) = PutPending(nxt) /\ GetPending(cur) = GetPending(nxt)
      /\ putReady(cur) = putReady(nxt) /\ outValid(cur) = outValid(nxt)
  BY <1>f
<1>1. OpsKnown' /\ PutCalled' /\ GetCalled'
  BY <1>i, <1>f, <1>n, <1>u, <1>x DEF OpsKnown, PutCalled, GetCalled
<1>2. PutWaits'
  <2>1. ASSUME blocked.put, "put" \notin runnable', GetWakesThread
        PROVE  ~putReady(cur) \/ (cfg.sync_ready /\ GetPending(cur))
    <3>1. /\ cfg.cthread_put
          /\ core.elemNum = cfg.fifoSize \/ (cfg.targ_init /\ core.elemNum = cfg.fifoSize - 1)
          /\ GetPending(cur) => cfg.sync_ready
      BY <2>1, <1>f, <1>i, <1>u, <1>p DEF PutWaits
    <3> QED BY <3>1, <1>t, <1>b, ReadyIs
  <2> QED BY <2>1, <1>f, <1>i, <1>n, <1>x DEF PutWaits
<1>3. GetWaits'
  <2>1. ASSUME blocked.get, "get" \notin runnable'
        PROVE  ~outValid(cur)
    <3>1. /\ core.elemNum = 0 /\ (PutPending(cur) => cfg.sync_valid)
      BY <2>1, <1>f, <1>i, <1>u, <1>p DEF GetWaits
    <3> QED BY <3>1, <1>t, <1>b, ReadyIs
  <2> QED BY <2>1, <1>f, <1>i, <1>n, <1>x DEF GetWaits
<1>4. PutAsks'
  BY <1>f, <1>i, <1>p, <1>x DEF PutAsks
<1>5. GetAsks'
  BY <1>f, <1>i, <1>p, <1>x DEF GetAsks
<1> QED BY <1>q, <1>1, <1>2, <1>3, <1>4, <1>5 DEF WInv

\* Reset wakes every thread, and its release starts resetProc.
LEMMA ResetWakeUps ==
    ASSUME WInv, AssertReset \/ ReleaseReset
    PROVE  WInv'
<1>i. /\ QInv /\ Inv /\ Types /\ OpsKnown /\ PutWaits /\ GetWaits /\ PutAsks /\ GetAsks
  BY DEF WInv, QInv, Inv
<1>q. QInv'
  BY <1>i, ResetQueue
<1>t. cfg \in Configs /\ nxt \in Signals
  BY <1>i DEF Types
<1>f. /\ runnable = {} /\ nxt = cur /\ delta = {} /\ edge = "none" /\ edge' = "reset"
      /\ UNCHANGED <<cfg, cur, core, delta, timed, blocked>>
  BY DEF AssertReset, ReleaseReset, Settled
<1>1. CASE AssertReset
  <2>1. rst' /\ runnable' = {"resetProc"} \cup (Timed \ {"update"})
        /\ nxt'.get_op = "clear"
    BY <1>1, <1>t DEF AssertReset, Signals
  <2>2. PutWaits' /\ GetWaits'
    BY <2>1, <1>f, <1>i, TimedEvents DEF PutWaits, GetWaits
  <2> QED BY <2>1, <2>2, <1>f, <1>i, <1>q
          DEF WInv, OpsKnown, PutCalled, GetCalled, PutAsks, GetAsks
<1>2. CASE ReleaseReset
  <2>1. rst /\ ~rst' /\ runnable' = {"resetProc"} /\ nxt' = nxt
    BY <1>2 DEF ReleaseReset
  <2>2. PutWaits' /\ GetWaits'
    BY <2>1, <1>f, <1>i DEF PutWaits, GetWaits
  <2> QED BY <2>1, <2>2, <1>f, <1>i, <1>q
          DEF WInv, OpsKnown, PutCalled, GetCalled, PutAsks, GetAsks
<1> QED BY <1>1, <1>2

\* Initially nobody waits.
LEMMA InitWakeUps == Init => WInv
<1> SUFFICES ASSUME Init PROVE WInv
  OBVIOUS
<1>1. QInv
  BY InitQueue
<1>2. /\ rst /\ edge = "reset" /\ blocked.put = FALSE /\ blocked.get = FALSE
      /\ cur.get_op = "clear" /\ nxt.get_op = "clear"
  BY DEF Init
<1> QED BY <1>1, <1>2 DEF WInv, OpsKnown, PutCalled, GetCalled, PutWaits, GetWaits, PutAsks,
                          GetAsks

\* Every step wakes whom it must.
LEMMA NextWakeUps ==
    ASSUME WInv, [Next]_vars
    PROVE  WInv'
<1>1. CASE Next
  <2>t. Types
    BY DEF WInv, QInv, Inv
  <2>1. CASE updateProc
    BY <2>1, UpdateProcWakeUps
  <2>2. CASE reset_core
    BY <2>2, ResetCoreWakeUps
  <2>3. CASE PutProc
    BY <2>3, <2>t, PutProcIsStep, PutWakeUps
  <2>4. CASE GetProc
    BY <2>4, <2>t, GetProcIsStep, GetWakeUps
  <2>5. CASE peek
    BY <2>5, PeekWakeUps
  <2>6. CASE Update
    BY <2>6, UpdateWakeUps
  <2>7. CASE AdvanceTime
    BY <2>7, AdvanceWakeUps
  <2>8. CASE AssertReset \/ ReleaseReset
    BY <2>8, ResetWakeUps
  <2> QED BY <1>1, <2>1, <2>2, <2>3, <2>4, <2>5, <2>6, <2>7, <2>8 DEF Next, Evaluate
<1>2. CASE UNCHANGED vars
  <2>1. QInv'
    BY <1>2, NextQueue DEF WInv
  <2> QED BY <1>2, <2>1, WakeUpsKept DEF vars
<1> QED BY <1>1, <1>2

\* Nobody sleeps who could go on, at all times.
THEOREM WakeUpInvariant == Spec => []WInv
<1>1. Init => WInv
  BY InitWakeUps
<1>2. WInv /\ [Next]_vars => WInv'
  BY NextWakeUps
<1> QED BY <1>1, <1>2, PTL DEF Spec

\* No lost wake-up of a thread in b_get(), for every combination of options.
THEOREM SleepingGetIsWoken == Spec => []GetWoken
<1>1. WInv => GetWoken
  <2> SUFFICES ASSUME WInv, Settled, blocked.get, "get" \notin timed PROVE ~outValid(cur)
    BY DEF GetWoken
  <2>1. nxt = cur /\ edge = "none" /\ cfg \in Configs /\ cur \in Signals /\ core \in Core
        /\ cur.element_num_d = core.elemNum
    BY DEF WInv, QInv, Inv, Types, Settled, Mirror
  <2>2. core.elemNum = 0 /\ (PutPending(cur) => cfg.sync_valid)
    BY <2>1 DEF WInv, GetWaits
  <2> QED BY <2>1, <2>2, ReadyIs
<1> QED BY <1>1, WakeUpInvariant, PTL

\* No lost wake-up of a thread in b_put(), wherever get(data, enable) is not used
\* between the two threads of a target/initiator pair.  There it is lost indeed:
\* get(data, enable) lacks the notification for an almost full FIFO.
THEOREM SleepingPutIsWoken ==
    ASSUME \A c \in Configs : c.targ_init /\ c.cthread_put =>
                                  c.sync_ready \/ "get_enable" \notin GetOps
    PROVE  Spec => []PutWoken
<1>1. WInv => PutWoken
  <2> SUFFICES ASSUME WInv, Settled, blocked.put, "put" \notin timed, putReady(cur)
               PROVE  cfg.targ_init /\ cfg.sync_ready /\ GetPending(cur)
    BY DEF PutWoken
  <2>1. nxt = cur /\ edge = "none" /\ cfg \in Configs /\ cur \in Signals /\ core \in Core
        /\ cur.element_num_d = core.elemNum
    BY DEF WInv, QInv, Inv, Types, Settled, Mirror
  <2>2. GetWakesThread
    BY <2>1 DEF GetWakesThread
  <2>3. /\ cfg.cthread_put
        /\ core.elemNum = cfg.fifoSize \/ (cfg.targ_init /\ core.elemNum = cfg.fifoSize - 1)
        /\ GetPending(cur) => cfg.sync_ready
    BY <2>1, <2>2 DEF WInv, PutWaits
  <2> QED BY <2>1, <2>3, ReadyIs, ConfigType
<1> QED BY <1>1, WakeUpInvariant, PTL

\* Every method that wants to put or get and can has done so when time advances,
\* wherever a synchronous target does not get with get(data, enable), which lacks
\* the notification of the initiator's method.
THEOREM MethodsAreWoken ==
    ASSUME \A c \in Configs : c.targ_init_sync /\ ~c.cthread_put /\ c.cthread_get =>
                                  ~c.sync_ready /\ "get_enable" \notin GetOps
    PROVE  Spec => []MethodsWoken
<1>1. WInv => MethodsWoken
  <2> SUFFICES ASSUME WInv, Settled, ~rst
               PROVE  /\ ~cfg.cthread_put =>
                            put_ok.done = (cur.put_op = "put" /\ putReady(cur))
                      /\ ~cfg.cthread_get =>
                            /\ get_ok.done = (cur.get_op \in {"get", "get_enable"}
                                              /\ outValid(cur))
                            /\ get_ok.done => get_ok.data = getData(cur)
    BY DEF MethodsWoken
  <2>1. runnable = {} /\ delta = {} /\ nxt = cur /\ edge = "none" /\ cfg \in Configs
        /\ ~Resetting
    BY DEF WInv, QInv, Inv, Types, Settled, Resetting
  <2>2. GetWakesMethod
    BY <2>1 DEF GetWakesMethod
  <2>3. ~cfg.cthread_put => /\ put_ok.done = PutPending(cur)
                            /\ PutPending(cur) = (cur.put_op = "put" /\ putReady(cur))
    BY <2>1, <2>2 DEF WInv, QInv, PutTold, PutAsks
  <2>4. ~cfg.cthread_get =>
           /\ get_ok.done = GetPending(cur)
           /\ get_ok.done => get_ok.data = getData(cur)
           /\ GetPending(cur) = (cur.get_op \in {"get", "get_enable"} /\ outValid(cur))
    BY <2>1 DEF WInv, QInv, GetTold, GetAsks
  <2> QED BY <2>3, <2>4
<1> QED BY <1>1, WakeUpInvariant, PTL


-----------------------------------------------------------------------------
(* Peeking.                                                                  *)

\* What request() and peek() return.
View(s) == Outcome(outValid(s), getData(s))

\* A peeking method that is not woken has seen what there is to see; a get made by
\* a thread shows to it when updateProc has performed it.
PeekAsks ==
    ~rst /\ cfg.peek = "method" =>
        /\ edge = "reset" => "resetProc" \in runnable \/ "peek" \in delta
        /\ edge = "none" /\ "peek" \notin delta /\ ~(cfg.cthread_get /\ GetPending(nxt)) =>
              /\ View(nxt) = View(cur)
              /\ "peek" \notin runnable => seen = View(nxt)
        /\ edge = "time" /\ "peek" \notin delta =>
              /\ (cfg.cthread_get /\ GetPending(cur)) \/ seen = View(cur)
              /\ "update" \notin runnable => ~PutPending(cur) /\ ~GetPending(cur)
              /\ NewPut /\ ~cfg.sync_valid => cur.element_num_d # 0
              /\ ~PutPending(cur) /\ ~GetPending(cur) => nxt.get_data = cur.get_data

\* A peeking thread beside a GET thread that is not woken has seen the oldest
\* element of the buffer, and no request in this period changes that.
PeekWaits ==
    ~rst /\ cfg.peek = "thread" /\ cfg.cthread_get =>
        /\ edge = "reset" => "resetProc" \in runnable \/ "peek" \in timed
        /\ edge = "none" /\ "peek" \notin timed =>
              /\ ~GetPending(nxt)
              /\ PutPending(nxt) /\ ~cfg.sync_valid => core.elemNum # 0
              /\ seen = Outcome(core.elemNum # 0, nxt.get_data)
        /\ edge = "time" /\ "peek" \notin timed =>
              /\ "peek" \notin runnable => seen = View(cur)
              /\ "update" \notin runnable /\ PutPending(cur) => ~cfg.sync_valid
              /\ NewPut /\ ~cfg.sync_valid =>
                    cur.element_num_d # 0 /\ (GetPending(cur) => cur.element_num_d # 1)
              /\ ~NewGet

\* The inductive invariant of the peeks.
VInv == QInv /\ PeekAsks /\ PeekWaits


\* What shows when no get of a thread is under way.
LEMMA ViewIs ==
    ASSUME cfg \in Configs, NEW s \in Signals, ~(cfg.cthread_get /\ GetPending(s))
    PROVE  View(s) = IF s.element_num_d # 0 THEN [done |-> TRUE, data |-> s.get_data]
                     ELSE IF ~cfg.sync_valid /\ PutPending(s)
                          THEN [done |-> TRUE, data |-> s.put_data]
                          ELSE Nothing
<1>1. cfg.fifoSize \in Nat /\ s.element_num_d \in 0 .. cfg.fifoSize
  BY ConfigType, SignalType
<1>2. s.element_num_d > 0 <=> s.element_num_d # 0
  BY <1>1
<1>3. getData(s) = IF s.element_num_d # 0 THEN s.get_data ELSE s.put_data
  BY <1>2 DEF getData
<1>4. outValid(s) <=> s.element_num_d # 0 \/ (~cfg.sync_valid /\ PutPending(s))
  BY DEF outValid
<1> QED BY <1>3, <1>4 DEF View, Outcome

\* A run of the PUT process.
LEMMA PutShows ==
    ASSUME VInv, PutStep
    PROVE  VInv'
<1>i. QInv /\ Inv /\ Types /\ PeekAsks /\ PeekWaits
  BY DEF VInv, QInv, Inv
<1>q. QInv' /\ Inv'
  BY <1>i, PutQueue DEF QInv
<1>t. /\ cfg \in Configs /\ cur \in Signals /\ nxt \in Signals /\ nxt' \in Signals
      /\ rst \in BOOLEAN /\ edge \in {"none", "time", "reset"}
  BY <1>i, PutFields DEF Types
<1>b. /\ cfg.cthread_put \in BOOLEAN /\ cfg.cthread_get \in BOOLEAN
      /\ cfg.sync_valid \in BOOLEAN
      /\ cur.put_req \in BOOLEAN /\ cur.put_req_d \in BOOLEAN /\ nxt.put_req_d \in BOOLEAN
  BY <1>t, ConfigType, SignalType
<1>f. /\ UNCHANGED <<cfg, cur, core, rst, edge, seen>>
      /\ "put" \in runnable /\ runnable' = runnable \ {"put"}
  BY DEF PutStep, PutFrame, PutRuns
<1>s. SamePutBut(nxt, nxt') /\ timed \subseteq timed' /\ delta \subseteq delta'
  BY <1>i, PutFields
<1>k. /\ cfg.cthread_put => edge # "none"
      /\ ~cfg.cthread_put => edge # "time"
      /\ edge = "reset" => rst
  BY <1>i, <1>f, TimedEvents DEF Inv, Phases
<1>w. "peek" \in Woken' => IF cfg.peek = "thread" THEN "peek" \in timed' ELSE "peek" \in delta'
  <2>1. Timed' = Timed
    BY <1>f DEF Timed
  <2> QED BY <1>q, <2>1, TimedEvents DEF Inv, Types, Woken
<1>x. /\ NewGet' = NewGet /\ View(cur)' = View(cur)
      /\ PutPending(cur)' = PutPending(cur) /\ GetPending(cur)' = GetPending(cur)
      /\ GetPending(nxt)' = GetPending(nxt)
      /\ nxt'.get_data = nxt.get_data /\ nxt'.element_num_d = nxt.element_num_d
      /\ nxt'.put_req_d = nxt.put_req_d
  BY <1>f, <1>s DEF NewGet, View, outValid, getData, GetPending, PutPending, SamePutBut
<1>n. /\ edge = "none" => /\ cur.element_num_d = core.elemNum /\ nxt.element_num_d = core.elemNum
                          /\ nxt.put_req_d = cur.put_req_d /\ nxt.get_data = cur.get_data
                          /\ cfg.cthread_get => (GetPending(nxt) <=> GetPending(cur))
      /\ edge = "time" /\ ~rst => nxt.put_req = cur.put_req
  BY <1>i, <1>f DEF Inv, Mirror, Shown, Writers, GetPending
\* The three outcomes.
<1>c. \/ /\ cfg.cthread_put /\ nxt' = nxt
      \/ /\ nxt'.put_req = NewPutReq(FALSE)
         /\ ~cfg.cthread_put /\ ~cfg.sync_valid /\ PutPending(cur) /\ cfg.peek = "method"
            => "peek" \in Woken'
      \/ /\ nxt'.put_req = NewPutReq(TRUE)
         /\ /\ ~cfg.sync_valid /\ cfg.peek # "none"
            /\ \/ cur.element_num_d = 0
               \/ cfg.cthread_put /\ GetPending(cur) /\ cur.element_num_d = 1
            => "peek" \in Woken'
  <2>1. CASE PutSleeps
    BY <2>1 DEF PutSleeps
  <2>2. CASE PutRefuses
    <3>1. PICK d \in Data :
             nxt' = [nxt EXCEPT !.put_req = NewPutReq(FALSE), !.put_data = d]
      BY <2>2 DEF PutRefuses
    <3>2. nxt'.put_req = NewPutReq(FALSE)
      BY <3>1, <1>t DEF Signals
    <3>3. Notify(ClearPutNotifies)
      BY <2>2 DEF PutRefuses
    <3>4. ClearPutNotifies \subseteq Woken'
      BY <3>3, NotifyWakes
    <3> QED BY <3>2, <3>4 DEF ClearPutNotifies, When
  <2>3. ASSUME NEW d \in Data, PutDoes(d)
        PROVE  /\ nxt'.put_req = NewPutReq(TRUE)
               /\ /\ ~cfg.sync_valid /\ cfg.peek # "none"
                  /\ \/ cur.element_num_d = 0
                     \/ cfg.cthread_put /\ GetPending(cur) /\ cur.element_num_d = 1
                  => "peek" \in Woken'
    <3>1. nxt' = [nxt EXCEPT !.put_req = NewPutReq(TRUE), !.put_data = d]
      BY <2>3 DEF PutDoes
    <3>2. nxt'.put_req = NewPutReq(TRUE)
      BY <3>1, <1>t DEF Signals
    <3>3. Notify(ClearPutNotifies \cup PutNotifies)
      BY <2>3 DEF PutDoes
    <3>4. PutNotifies \subseteq Woken'
      BY <3>3, NotifyWakes
    <3> QED BY <3>2, <3>4 DEF PutNotifies, When
  <2> QED BY <2>1, <2>2, <2>3 DEF PutStep
<1>d. ASSUME edge = "time", ~rst, NewPut', ~cfg.sync_valid, "peek" \notin Woken',
             cfg.peek # "none"
      PROVE  cur.element_num_d # 0 /\ (GetPending(cur) => cur.element_num_d # 1)
  <2>1. nxt'.put_req # cur.put_req /\ cfg.cthread_put
    BY <1>d, <1>f, <1>k DEF NewPut
  <2>2. NewPutReq(FALSE) = cur.put_req
    BY <2>1 DEF NewPutReq
  <2> QED BY <1>d, <1>c, <1>n, <2>1, <2>2
<1>1. PeekAsks'
  <2> SUFFICES ASSUME ~rst, cfg.peek = "method", "peek" \notin delta' PROVE PeekAsks'
    <3>1. edge = "reset" => rst
      BY <1>k
    <3> QED BY <3>1, <1>f DEF PeekAsks
  <2>1. "peek" \notin Woken' /\ "peek" \notin delta /\ edge # "reset"
    BY <1>w, <1>s, <1>k
  <2>2. CASE edge = "none"
    <3>1. ~cfg.cthread_put
      BY <2>2, <1>k
    <3>2. ASSUME ~(cfg.cthread_get /\ GetPending(nxt)) PROVE View(nxt)' = View(cur)
      <4>1. ~(cfg.cthread_get /\ GetPending(cur)) /\ ~(cfg.cthread_get /\ GetPending(nxt'))
        BY <2>2, <3>2, <1>n, <1>s DEF GetPending, SamePutBut
      <4>2. View(nxt)' = View(nxt')
        BY <1>f DEF View, outValid, getData, GetPending, PutPending
      <4>3. View(cur) = IF core.elemNum # 0 THEN [done |-> TRUE, data |-> cur.get_data]
                        ELSE IF ~cfg.sync_valid /\ PutPending(cur)
                             THEN [done |-> TRUE, data |-> cur.put_data]
                             ELSE Nothing
        BY <2>2, <4>1, <1>t, <1>n, ViewIs
      <4>4. View(nxt') = IF core.elemNum # 0 THEN [done |-> TRUE, data |-> cur.get_data]
                         ELSE IF ~cfg.sync_valid /\ PutPending(nxt')
                              THEN [done |-> TRUE, data |-> nxt'.put_data]
                              ELSE Nothing
        BY <2>2, <4>1, <1>t, <1>n, <1>x, ViewIs
      <4>5. CASE core.elemNum # 0 \/ cfg.sync_valid
        BY <4>2, <4>3, <4>4, <4>5
      <4>6. CASE ~(core.elemNum # 0 \/ cfg.sync_valid)
        <5>1. nxt'.put_req = NewPutReq(FALSE) /\ ~PutPending(cur)
          BY <2>1, <2>2, <3>1, <4>6, <1>c, <1>n
        <5>2. ~PutPending(nxt')
          BY <2>2, <3>1, <5>1, <1>n, <1>x DEF PutPending, NewPutReq
        <5> QED BY <4>2, <4>3, <4>4, <5>1, <5>2
      <4> QED BY <4>5, <4>6
    <3>3. ASSUME ~(cfg.cthread_get /\ GetPending(nxt)), "peek" \notin runnable'
          PROVE  seen = View(cur)
      BY <2>1, <2>2, <3>3, <1>i, <1>f DEF PeekAsks
    <3> QED BY <2>2, <3>2, <3>3, <1>f, <1>x DEF PeekAsks
  <2>3. CASE edge = "time"
    BY <2>1, <2>3, <1>d, <1>i, <1>f, <1>x DEF PeekAsks
  <2> QED BY <2>1, <2>2, <2>3, <1>t
<1>2. PeekWaits'
  <2> SUFFICES ASSUME ~rst, cfg.peek = "thread", cfg.cthread_get, "peek" \notin timed'
               PROVE  PeekWaits'
    <3>1. edge = "reset" => rst
      BY <1>k
    <3> QED BY <3>1, <1>f DEF PeekWaits
  <2>1. "peek" \notin Woken' /\ "peek" \notin timed /\ edge # "reset"
    BY <1>w, <1>s, <1>k
  <2>2. CASE edge = "none"
    <3>1. ~cfg.cthread_put
      BY <2>2, <1>k
    <3>2. ASSUME PutPending(nxt)', ~cfg.sync_valid PROVE core.elemNum # 0
      <4>1. nxt'.put_req # NewPutReq(FALSE)
        BY <2>2, <3>1, <3>2, <1>n, <1>x DEF NewPutReq, PutPending
      <4> QED BY <2>1, <2>2, <3>1, <3>2, <4>1, <1>c, <1>n
    <3> QED BY <2>1, <2>2, <3>2, <1>i, <1>f, <1>x DEF PeekWaits
  <2>3. CASE edge = "time"
    BY <2>1, <2>3, <1>d, <1>i, <1>f, <1>x DEF PeekWaits
  <2> QED BY <2>1, <2>2, <2>3, <1>t
<1> QED BY <1>q, <1>1, <1>2 DEF VInv


\* A run of the GET process.
LEMMA GetShows ==
    ASSUME VInv, GetStep
    PROVE  VInv'
<1>i. QInv /\ Inv /\ Types /\ PeekAsks /\ PeekWaits
  BY DEF VInv, QInv, Inv
<1>q. QInv' /\ Inv'
  BY <1>i, GetQueue DEF QInv
<1>t. /\ cfg \in Configs /\ cur \in Signals /\ nxt \in Signals
      /\ rst \in BOOLEAN /\ edge \in {"none", "time", "reset"}
  BY <1>i DEF Types
<1>f. /\ UNCHANGED <<cfg, cur, core, rst, edge, seen>>
      /\ "get" \in runnable /\ runnable' = runnable \ {"get"}
  BY DEF GetStep, GetFrame, GetRuns
<1>s. SameGetBut(nxt, nxt') /\ timed \subseteq timed' /\ delta \subseteq delta'
  BY <1>i, GetFields
<1>k. /\ cfg.cthread_get => edge # "none"
      /\ ~cfg.cthread_get => edge # "time"
      /\ edge = "reset" => rst
  BY <1>i, <1>f, TimedEvents DEF Inv, Phases
<1>x. /\ NewPut' = NewPut /\ View(cur)' = View(cur)
      /\ PutPending(cur)' = PutPending(cur) /\ GetPending(cur)' = GetPending(cur)
      /\ nxt'.get_data = nxt.get_data
      /\ ~cfg.cthread_get => View(nxt)' = View(nxt)
  BY <1>f, <1>s DEF NewPut, View, outValid, getData, GetPending, PutPending, SameGetBut
<1>1. PeekAsks'
  BY <1>i, <1>f, <1>s, <1>k, <1>x DEF PeekAsks
<1>2. ASSUME edge = "time", ~rst, cfg.cthread_get, cfg.peek = "thread", NewGet'
      PROVE  "peek" \in timed'
  <2>1. nxt.get_req = cur.get_req /\ nxt'.get_req # cur.get_req
    BY <1>2, <1>i, <1>f DEF Inv, Writers, NewGet
  <2>2. ~GetSleeps
    BY <2>1 DEF GetSleeps
  <2>3. ~GetRefuses
    <3>1. NewGetReq(FALSE) = cur.get_req
      BY <1>2 DEF NewGetReq
    <3>2. nxt' = [nxt EXCEPT !.get_req = NewGetReq(FALSE)] => nxt'.get_req = NewGetReq(FALSE)
      BY <1>t DEF Signals
    <3> QED BY <2>1, <3>1, <3>2 DEF GetRefuses
  <2>4. \/ Notify(ClearGetNotifies \cup GetNotifies)
        \/ Notify(ClearGetNotifies \cup GetEnableNotifies)
    BY <2>2, <2>3 DEF GetStep, GetDoes
  <2>5. "peek" \in GetNotifies /\ "peek" \in GetEnableNotifies /\ "peek" \in Timed
    BY <1>2, TimedEvents DEF GetNotifies, GetEnableNotifies, When
  <2> QED BY <2>4, <2>5 DEF Notify
<1>3. PeekWaits'
  BY <1>2, <1>i, <1>f, <1>s, <1>k, <1>x DEF PeekWaits
<1> QED BY <1>q, <1>1, <1>3 DEF VInv

\* updateProc wakes the peeking process, and shows another element only if it
\* performs a request.
LEMMA UpdateProcShows ==
    ASSUME VInv, updateProc
    PROVE  VInv'
<1>i. QInv /\ Inv /\ Types /\ PeekAsks /\ PeekWaits
  BY DEF VInv, QInv, Inv
<1>q. QInv'
  BY <1>i, UpdateProcQueue
<1>u. /\ "update" \in runnable /\ runnable' = runnable \ {"update"}
      /\ UNCHANGED <<cfg, cur, rst, edge, seen>>
      /\ SameUpdateBut(nxt, nxt')
      /\ timed \subseteq timed' /\ delta \subseteq delta'
      /\ \A e \in UpdateNotifies : IF e \in Timed THEN e \in timed' ELSE e \in delta'
      /\ nxt'.get_data = core'.buffer[core'.getIndx]
      /\ core'.buffer = UpdateCore.buffer /\ core'.getIndx = UpdateCore.getIndx
  BY <1>i, UpdateFields
<1>e. edge = "time"
  BY <1>i, <1>u, TimedEvents DEF Inv, Types, Phases
<1>t. cfg \in Configs /\ nxt \in Signals /\ cur \in Signals /\ core \in Core
  BY <1>i DEF Types
<1>r. ~rst => cur.has_reset = core.hasReset
  BY <1>e, <1>i DEF Inv, ResetSeen, ResetAsked
<1>n. ~rst /\ (PutPending(cur) \/ GetPending(cur)) =>
            /\ cfg.peek = "method" => "peek" \in delta'
            /\ cfg.peek = "thread" /\ PutPending(cur) /\ cfg.sync_valid => "peek" \in timed'
  <2>1. ~rst /\ (PutPending(cur) \/ GetPending(cur)) =>
           /\ cfg.peek = "method" => "peek" \in UpdateNotifies
           /\ cfg.peek = "thread" /\ PutPending(cur) /\ cfg.sync_valid
              => "peek" \in UpdateNotifies
    BY <1>r DEF UpdateNotifies, When
  <2> QED BY <2>1, <1>u, TimedEvents
<1>d. ~rst /\ ~PutPending(cur) /\ ~GetPending(cur) => nxt'.get_data = nxt.get_data
  <2> SUFFICES ASSUME ~rst, ~PutPending(cur), ~GetPending(cur)
               PROVE  nxt'.get_data = nxt.get_data
    OBVIOUS
  <2>1. UpdateCore = Performed(core, cur)
    BY <1>r DEF UpdateCore
  <2>2. UpdateCore.buffer = core.buffer /\ UpdateCore.getIndx = core.getIndx
    BY <2>1, <1>t DEF Performed, Core
  <2> QED BY <2>2, <1>u, <1>i DEF Inv, Mirror
<1>x. /\ NewPut' = NewPut /\ NewGet' = NewGet /\ View(cur)' = View(cur)
      /\ PutPending(cur)' = PutPending(cur) /\ GetPending(cur)' = GetPending(cur)
  BY <1>u, <1>e DEF NewPut, NewGet, View, outValid, getData, GetPending, PutPending,
                    SameUpdateBut
<1>1. PeekAsks'
  BY <1>e, <1>i, <1>u, <1>n, <1>d, <1>x DEF PeekAsks
<1>2. PeekWaits'
  BY <1>e, <1>i, <1>u, <1>n, <1>x DEF PeekWaits
<1> QED BY <1>q, <1>1, <1>2 DEF VInv

\* resetProc wakes the peeking process when reset is released.
LEMMA ResetCoreShows ==
    ASSUME VInv, reset_core
    PROVE  VInv'
<1>i. QInv /\ Inv /\ Types /\ PeekAsks /\ PeekWaits
  BY DEF VInv, QInv, Inv
<1>q. QInv'
  BY <1>i, ResetCoreQueue
<1>f. /\ "resetProc" \in runnable /\ UNCHANGED <<cfg, cur, core, rst, edge, seen>>
  BY DEF reset_core
<1>e. edge = "reset"
  BY <1>i, <1>f, TimedEvents DEF Inv, Types, Phases
<1>1. ASSUME ~rst
      PROVE  /\ cfg.peek = "method" => "peek" \in delta'
             /\ cfg.peek = "thread" => "peek" \in timed'
  <2> DEFINE events == {"put", "get"} \cup When(cfg.peek # "none", "peek")
  <2>1. Notify(events)
    BY <1>1 DEF reset_core
  <2>2. cfg.peek # "none" => "peek" \in events
    BY DEF When
  <2> QED BY <2>1, <2>2, TimedEvents DEF Notify
<1>2. PeekAsks' /\ PeekWaits'
  BY <1>1, <1>e, <1>f DEF PeekAsks, PeekWaits
<1> QED BY <1>q, <1>2 DEF VInv

\* The peeking process looks at the channel.
LEMMA PeekShows ==
    ASSUME VInv, peek
    PROVE  VInv'
<1>i. QInv /\ Inv /\ Types /\ PeekAsks /\ PeekWaits
  BY DEF VInv, QInv, Inv
<1>q. QInv'
  BY <1>i, PeekQueue
<1>f. /\ "peek" \in runnable /\ runnable' = runnable \ {"peek"} /\ seen' = View(cur)
      /\ UNCHANGED <<cfg, cur, nxt, core, delta, timed, rst, edge>>
  BY DEF peek, View
<1>x. /\ NewPut' = NewPut /\ NewGet' = NewGet
      /\ View(cur)' = View(cur) /\ View(nxt)' = View(nxt)
      /\ PutPending(cur)' = PutPending(cur) /\ GetPending(cur)' = GetPending(cur)
      /\ PutPending(nxt)' = PutPending(nxt) /\ GetPending(nxt)' = GetPending(nxt)
  BY <1>f DEF NewPut, NewGet, View, outValid, getData, GetPending, PutPending
<1>k. /\ cfg.peek = "thread" => edge # "none"
      /\ edge = "reset" => rst
  BY <1>i, <1>f, TimedEvents DEF Inv, Phases
<1>1. PeekAsks'
  BY <1>i, <1>f, <1>x, <1>k DEF PeekAsks
<1>2. PeekWaits'
  BY <1>i, <1>f, <1>x, <1>k DEF PeekWaits
<1> QED BY <1>q, <1>1, <1>2 DEF VInv


\* At an edge that everyone has answered and updateProc has performed the requests
\* of: what a thread saw is the oldest element, if there is one.
LEMMA EdgeView ==
    ASSUME QInv, runnable = {}, edge = "time", ~rst, cfg.cthread_get,
           PutPending(cur) => ~cfg.sync_valid
    PROVE  View(cur) = Outcome(core.elemNum # 0, nxt.get_data)
<1>i. Inv /\ QueuePart
  BY DEF QInv
<1>t. cfg \in Configs /\ cur \in Signals /\ core \in Core
  BY <1>i DEF Inv, Types
<1> DEFINE P == PutPending(cur)
           G == GetPending(cur)
           n == cur.element_num_d
           m == core.elemNum
           d == cur.put_data
           pd == ~cfg.cthread_put /\ P
           gd == ~cfg.cthread_get /\ G
           s == Content(core)
<1>1. /\ n \in Nat /\ m \in Nat /\ d \in Data
      /\ P \in BOOLEAN /\ G \in BOOLEAN /\ pd \in BOOLEAN /\ gd = FALSE
      /\ cfg.cthread_put \in BOOLEAN /\ cfg.sync_valid \in BOOLEAN
      /\ cfg.fifoSize \in Nat /\ cfg.fifoSize > 0 /\ core.getIndx \in Indx
  BY <1>t, ConfigType, SignalType DEF PutPending, GetPending, Core
<1>2. /\ m = n + (IF P THEN 1 ELSE 0) - (IF G THEN 1 ELSE 0)
      /\ G => n > 0
  BY <1>i, <1>1 DEF Inv, AtEdge, Elements, LegalGet
<1>3. /\ q \in Seq(Data)
      /\ Len(q) = n + (IF cfg.cthread_put /\ P THEN 1 ELSE 0) - (IF G THEN 1 ELSE 0)
      /\ q # <<>> => Head(q) = getData(cur)
      /\ s = After(q, pd, d, gd)
  BY <1>i DEF QueuePart, Front, Due
<1>4. /\ s \in Seq(Data) /\ Len(s) = m
      /\ m # 0 => s[1] = nxt.get_data
  <2>1. /\ s \in Seq(Data) /\ Len(s) = m
        /\ \A k \in 1 .. m : s[k] = core.buffer[Slot(core.getIndx, k - 1)]
    BY <1>t, ContentType
  <2>2. Slot(core.getIndx, 1 - 1) = core.getIndx
    BY <1>1 DEF Slot, Indx
  <2>3. m # 0 => 1 \in 1 .. m
    BY <1>1
  <2>4. nxt.get_data = core.buffer[core.getIndx]
    BY <1>i DEF Inv, Mirror
  <2> HIDE DEF s, m
  <2> QED BY <2>1, <2>2, <2>3, <2>4
<1>5. outValid(cur) <=> m # 0
  <2>1. outValid(cur) <=> \/ n # 0 /\ (~G \/ n # 1)
                          \/ ~cfg.sync_valid /\ P
    BY <1>t, ReadyIs
  <2> QED BY <2>1, <1>1, <1>2
<1>6. getData(cur) = IF G THEN IF n > 1 THEN cur.get_data_next ELSE d
                     ELSE IF n > 0 THEN cur.get_data ELSE d
  BY DEF getData
<1>7. ASSUME m # 0 PROVE getData(cur) = nxt.get_data
  <2> HIDE DEF s, pd, d, gd
  <2>1. /\ Len(q) \in Nat /\ (q = <<>> <=> Len(q) = 0) /\ Head(q) = q[1]
    BY <1>3, EmptySeq, LenProperties
  <2>2. /\ ~gd => \A k \in 1 .. Len(q) : After(q, pd, d, gd)[k] = q[k]
        /\ pd /\ ~gd => After(q, pd, d, gd)[Len(q) + 1] = d
    <3>1. q \in Seq(Data) /\ d \in Data /\ pd \in BOOLEAN /\ gd \in BOOLEAN
          /\ (gd => pd \/ Len(q) > 0)
      BY <1>1, <1>3
    <3> QED BY <3>1, AfterProperties
  <2>3. /\ \A k \in 1 .. Len(q) : s[k] = q[k]
        /\ pd => s[Len(q) + 1] = d
    BY <2>2, <1>1, <1>3
  <2>4. CASE q # <<>>
    BY <2>1, <2>3, <2>4, <1>3, <1>4, <1>7
  <2>5. CASE q = <<>>
    <3>1. Len(q) = 0 /\ n <= 1 /\ (~G => n = 0) /\ pd
      BY <2>1, <2>5, <1>1, <1>2, <1>3, <1>7 DEF pd
    <3>2. s[1] = d
      BY <2>3, <3>1
    <3>3. getData(cur) = d
      BY <3>1, <1>1, <1>6
    <3> QED BY <3>2, <3>3, <1>4, <1>7
  <2> QED BY <2>4, <2>5
<1> QED BY <1>5, <1>7 DEF View, Outcome

\* The end of an evaluation phase.
LEMMA UpdateShows ==
    ASSUME VInv, Update
    PROVE  VInv'
<1>i. QInv /\ Inv /\ Types /\ PeekAsks /\ PeekWaits
  BY DEF VInv, QInv, Inv
<1>q. QInv'
  BY <1>i, UpdateQueue
<1>t. /\ cfg \in Configs /\ cur \in Signals /\ nxt \in Signals /\ core \in Core
      /\ rst \in BOOLEAN /\ edge \in {"none", "time", "reset"}
  BY <1>i DEF Types
<1>f. /\ runnable = {} /\ cur' = nxt /\ runnable' = delta \cup Stimulated
      /\ delta' = {} /\ edge' = "none" /\ nxt' = nxt
      /\ UNCHANGED <<cfg, core, timed, rst, seen>>
  BY DEF Update
<1>x. /\ View(cur)' = View(nxt) /\ View(nxt)' = View(nxt)
      /\ PutPending(nxt)' = PutPending(nxt) /\ GetPending(nxt)' = GetPending(nxt)
  BY <1>f DEF View, outValid, getData, GetPending, PutPending
<1>b. /\ cfg.cthread_put \in BOOLEAN /\ cfg.cthread_get \in BOOLEAN
      /\ cfg.sync_valid \in BOOLEAN
      /\ PutPending(cur) \in BOOLEAN /\ GetPending(cur) \in BOOLEAN
      /\ cur.element_num_d \in Nat
  BY <1>t, ConfigType, SignalType DEF PutPending, GetPending
<1>e. ASSUME edge = "time", ~rst
      PROVE  /\ core.elemNum = cur.element_num_d + (IF PutPending(cur) THEN 1 ELSE 0)
                                                 - (IF GetPending(cur) THEN 1 ELSE 0)
             /\ nxt.element_num_d = core.elemNum
             /\ LegalGet(PutPending(cur), GetPending(cur), cur.element_num_d)
             /\ (PutPending(nxt) <=> NewPut) /\ (GetPending(nxt) <=> NewGet)
  <2>1. nxt.put_req_d = cur.put_req /\ nxt.get_req_d = cur.get_req
        /\ nxt.element_num_d = core.elemNum
    BY <1>e, <1>f, <1>i DEF Inv, Mirror
  <2>2. (PutPending(nxt) <=> NewPut) /\ (GetPending(nxt) <=> NewGet)
    BY <1>e, <2>1 DEF NewPut, NewGet, PutPending, GetPending
  <2> QED BY <1>e, <1>f, <1>i, <2>1, <2>2 DEF Inv, AtEdge, Elements
<1>1. PeekAsks'
  <2> SUFFICES ASSUME ~rst, cfg.peek = "method", "peek" \notin delta,
                      ~(cfg.cthread_get /\ GetPending(nxt))
               PROVE  seen = View(nxt)
    BY <1>f, <1>x DEF PeekAsks
  <2>1. edge # "reset"
    BY <1>f, <1>i DEF PeekAsks
  <2>2. CASE edge = "none"
    BY <2>2, <1>f, <1>i DEF PeekAsks
  <2>3. CASE edge = "time"
    <3>1. /\ ~PutPending(cur) /\ ~GetPending(cur) /\ seen = View(cur)
          /\ NewPut /\ ~cfg.sync_valid => cur.element_num_d # 0
          /\ nxt.get_data = cur.get_data
      BY <2>3, <1>f, <1>i DEF PeekAsks
    <3>2. View(cur) = IF cur.element_num_d # 0 THEN [done |-> TRUE, data |-> cur.get_data]
                      ELSE Nothing
      BY <3>1, <1>t, ViewIs
    <3>3. View(nxt) = IF nxt.element_num_d # 0 THEN [done |-> TRUE, data |-> nxt.get_data]
                      ELSE IF ~cfg.sync_valid /\ PutPending(nxt)
                           THEN [done |-> TRUE, data |-> nxt.put_data]
                           ELSE Nothing
      BY <1>t, ViewIs
    <3>4. nxt.element_num_d = cur.element_num_d /\ (PutPending(nxt) <=> NewPut)
      BY <2>3, <3>1, <1>e, <1>b
    <3> QED BY <3>1, <3>2, <3>3, <3>4
  <2> QED BY <2>1, <2>2, <2>3, <1>t
<1>2. PeekWaits'
  <2> SUFFICES ASSUME ~rst, cfg.peek = "thread", cfg.cthread_get, "peek" \notin timed
               PROVE  /\ ~GetPending(nxt)
                      /\ PutPending(nxt) /\ ~cfg.sync_valid => core.elemNum # 0
                      /\ seen = Outcome(core.elemNum # 0, nxt.get_data)
    BY <1>f, <1>x DEF PeekWaits
  <2>1. edge # "reset"
    BY <1>f, <1>i DEF PeekWaits
  <2>2. CASE edge = "none"
    BY <2>2, <1>f, <1>i DEF PeekWaits
  <2>3. CASE edge = "time"
    <3>1. /\ seen = View(cur) /\ ~NewGet
          /\ PutPending(cur) => ~cfg.sync_valid
          /\ NewPut /\ ~cfg.sync_valid =>
                cur.element_num_d # 0 /\ (GetPending(cur) => cur.element_num_d # 1)
      BY <2>3, <1>f, <1>i DEF PeekWaits
    <3>2. View(cur) = Outcome(core.elemNum # 0, nxt.get_data)
      BY <2>3, <3>1, <1>f, <1>i, EdgeView
    <3>3. PutPending(nxt) /\ ~cfg.sync_valid => core.elemNum # 0
      BY <2>3, <3>1, <1>e, <1>b
    <3> QED BY <2>3, <3>1, <3>2, <3>3, <1>e
  <2> QED BY <2>1, <2>2, <2>3, <1>t
<1> QED BY <1>q, <1>1, <1>2 DEF VInv

\* One clock period later.
LEMMA AdvanceShows ==
    ASSUME VInv, AdvanceTime
    PROVE  VInv'
<1>i. QInv /\ Inv /\ Types /\ PeekAsks /\ PeekWaits
  BY DEF VInv, QInv, Inv
<1>q. QInv'
  BY <1>i, AdvanceQueue
<1>f. /\ runnable = {} /\ nxt = cur /\ delta = {} /\ edge = "none"
      /\ timed' = {} /\ edge' = "time"
      /\ UNCHANGED <<cfg, cur, core, delta, rst, seen>>
  BY DEF AdvanceTime, Settled
<1>t. cfg \in Configs /\ cur \in Signals /\ nxt \in Signals /\ core \in Core
  BY <1>i DEF Types
<1>n. /\ nxt'.put_req = cur.put_req /\ nxt'.get_req = cur.get_req
      /\ nxt'.get_data = cur.get_data
  <2>1. PICK po \in (IF cfg.cthread_put \/ rst THEN {"clear"} ELSE PutOps \ {"b_put"}) :
        \E pv \in IF po = "put" THEN Data ELSE {ZERO},
           go \in IF cfg.cthread_get \/ rst THEN {"clear"} ELSE GetOps \ {"b_get"} :
           nxt' = [nxt EXCEPT !.put_op = po, !.put_val = pv, !.get_op = go]
    BY DEF AdvanceTime
  <2>2. PICK pv \in (IF po = "put" THEN Data ELSE {ZERO}),
             go \in (IF cfg.cthread_get \/ rst THEN {"clear"} ELSE GetOps \ {"b_get"}) :
           nxt' = [nxt EXCEPT !.put_op = po, !.put_val = pv, !.get_op = go]
    BY <2>1
  <2> QED BY <2>2, <1>f, <1>t DEF Signals
<1>u. /\ timed \subseteq runnable'
      /\ "update" \notin runnable' => ~PutPending(cur) /\ ~GetPending(cur)
  <2>1. timed \subseteq runnable'
    BY DEF AdvanceTime
  <2>2. "update" \notin timed => ~PutPending(cur) /\ ~GetPending(cur)
    BY <1>i, <1>f DEF Inv, Requests, NewPut, NewGet
  <2> QED BY <2>1, <2>2
<1>x. /\ View(cur)' = View(cur)
      /\ PutPending(cur)' = PutPending(cur) /\ GetPending(cur)' = GetPending(cur)
      /\ ~NewPut' /\ ~NewGet'
  BY <1>f, <1>n DEF View, outValid, getData, GetPending, PutPending, NewPut, NewGet
<1>p. GetPending(nxt) = GetPending(cur) /\ View(nxt) = View(cur)
      /\ PutPending(nxt) = PutPending(cur)
  BY <1>f
<1>1. PeekAsks'
  BY <1>i, <1>f, <1>n, <1>u, <1>x, <1>p DEF PeekAsks
<1>2. PeekWaits'
  <2> SUFFICES ASSUME ~rst, cfg.peek = "thread", cfg.cthread_get, "peek" \notin runnable'
               PROVE  seen = View(cur)
    BY <1>f, <1>u, <1>x DEF PeekWaits
  <2>1. /\ ~GetPending(cur)
        /\ PutPending(cur) /\ ~cfg.sync_valid => core.elemNum # 0
        /\ seen = Outcome(core.elemNum # 0, cur.get_data)
    BY <1>i, <1>f, <1>u, <1>p DEF PeekWaits
  <2>2. cur.element_num_d = core.elemNum
    BY <1>i, <1>f DEF Inv, Mirror
  <2>3. View(cur) = IF core.elemNum # 0 THEN [done |-> TRUE, data |-> cur.get_data]
                    ELSE IF ~cfg.sync_valid /\ PutPending(cur)
                         THEN [done |-> TRUE, data |-> cur.put_data]
                         ELSE Nothing
    BY <2>1, <2>2, <1>t, ViewIs
  <2> QED BY <2>1, <2>3 DEF Outcome
<1> QED BY <1>q, <1>1, <1>2 DEF VInv

\* Reset starts resetProc.
LEMMA ResetShows ==
    ASSUME VInv, AssertReset \/ ReleaseReset
    PROVE  VInv'
<1>q. QInv'
  BY ResetQueue DEF VInv
<1>1. edge' = "reset" /\ "resetProc" \in runnable'
  BY DEF AssertReset, ReleaseReset
<1> QED BY <1>q, <1>1 DEF VInv, PeekAsks, PeekWaits

\* Every step wakes the peeking process when it must.
LEMMA NextShows ==
    ASSUME VInv, [Next]_vars
    PROVE  VInv'
<1>1. CASE Next
  <2>t. Types
    BY DEF VInv, QInv, Inv
  <2>1. CASE updateProc
    BY <2>1, UpdateProcShows
  <2>2. CASE reset_core
    BY <2>2, ResetCoreShows
  <2>3. CASE PutProc
    BY <2>3, <2>t, PutProcIsStep, PutShows
  <2>4. CASE GetProc
    BY <2>4, <2>t, GetProcIsStep, GetShows
  <2>5. CASE peek
    BY <2>5, PeekShows
  <2>6. CASE Update
    BY <2>6, UpdateShows
  <2>7. CASE AdvanceTime
    BY <2>7, AdvanceShows
  <2>8. CASE AssertReset \/ ReleaseReset
    BY <2>8, ResetShows
  <2> QED BY <1>1, <2>1, <2>2, <2>3, <2>4, <2>5, <2>6, <2>7, <2>8 DEF Next, Evaluate
<1>2. CASE UNCHANGED vars
  <2>1. QInv'
    BY <1>2, NextQueue DEF VInv
  <2>x. /\ NewPut' = NewPut /\ NewGet' = NewGet
        /\ View(cur)' = View(cur) /\ View(nxt)' = View(nxt)
        /\ PutPending(cur)' = PutPending(cur) /\ GetPending(cur)' = GetPending(cur)
        /\ PutPending(nxt)' = PutPending(nxt) /\ GetPending(nxt)' = GetPending(nxt)
    BY <1>2 DEF vars, NewPut, NewGet, View, outValid, getData, GetPending, PutPending
  <2>2. PeekAsks'
    BY <1>2, <2>x DEF VInv, PeekAsks, vars
  <2>3. PeekWaits'
    BY <1>2, <2>x DEF VInv, PeekWaits, vars
  <2> QED BY <2>1, <2>2, <2>3 DEF VInv
<1> QED BY <1>1, <1>2

\* The peeking process is woken when it must, at all times.
THEOREM PeekInvariant == Spec => []VInv
<1>1. Init => VInv
  <2>1. Init => QInv
    BY InitQueue
  <2>2. Init => rst
    BY DEF Init
  <2> QED BY <2>1, <2>2 DEF VInv, PeekAsks, PeekWaits
<1>2. VInv /\ [Next]_vars => VInv'
  BY NextShows
<1> QED BY <1>1, <1>2, PTL DEF Spec

\* No stale peek, for every combination of options.
THEOREM PeekIsNotStale == Spec => []PeekWoken
<1>1. VInv => PeekWoken
  <2> SUFFICES ASSUME VInv, Settled, ~rst, cfg.peek # "none", "peek" \notin timed,
                      cfg.peek = "thread" => cfg.cthread_get,
                      ~(cfg.peek = "method" /\ cfg.cthread_get /\ GetPending(cur))
               PROVE  seen = View(cur)
    BY DEF PeekWoken, View
  <2>1. /\ runnable = {} /\ delta = {} /\ nxt = cur /\ edge = "none"
        /\ cfg \in Configs /\ cur \in Signals /\ cur.element_num_d = core.elemNum
    BY DEF VInv, QInv, Inv, Types, Settled, Mirror
  <2>2. cfg.peek \in {"none", "method", "thread"}
    BY <2>1, ConfigType
  <2>3. CASE cfg.peek = "method"
    BY <2>1, <2>3 DEF VInv, PeekAsks
  <2>4. CASE cfg.peek = "thread"
    <3>1. /\ ~GetPending(cur)
          /\ PutPending(cur) /\ ~cfg.sync_valid => core.elemNum # 0
          /\ seen = Outcome(core.elemNum # 0, cur.get_data)
      BY <2>1, <2>4 DEF VInv, PeekWaits
    <3>2. View(cur) = IF core.elemNum # 0 THEN [done |-> TRUE, data |-> cur.get_data]
                      ELSE IF ~cfg.sync_valid /\ PutPending(cur)
                           THEN [done |-> TRUE, data |-> cur.put_data]
                           ELSE Nothing
      BY <3>1, <2>1, ViewIs
    <3> QED BY <3>1, <3>2 DEF Outcome
  <2> QED BY <2>2, <2>3, <2>4
<1> QED BY <1>1, PeekInvariant, PTL
=============================================================================
