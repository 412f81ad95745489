--------------------------- MODULE SctPipeProofs ---------------------------
(***************************************************************************)
(* Proofs about the pipeline register, for every number of stages, data     *)
(* set, set of configurations and set of calls.                             *)
(*                                                                          *)
(* The argument: data_in of a PUT thread, the stages and the output         *)
(* register are the places -1, 0 .. N - 1 and N of one shift register.  At  *)
(* a clock edge every word with an empty place ahead of it moves up one     *)
(* place, then the get of the edge empties place N.  The words under way    *)
(* are the queue: there is a strictly decreasing map from its indices onto  *)
(* the places taken.                                                        *)
(***************************************************************************)
EXTENDS SctPipe, SequenceTheorems, FiniteSetTheorems, TLAPS

-----------------------------------------------------------------------------
(* The inductive invariant: one part per process, and where the words are.   *)

Procs == {"asyncProc", "syncProc", "plProc", "put", "get"}
Types ==
    /\ cfg \in Configs
    /\ cur \in Signals /\ nxt \in Signals
    /\ regs \in [Stage -> Data]
    /\ runnable \subseteq Procs
    /\ rst \in BOOLEAN
    /\ edge \in {"none", "clock", "reset"}
    /\ put_ok \in Result /\ get_ok \in Result
    /\ blocked \in [put : BOOLEAN, get : BOOLEAN]
    /\ op \in [put : Result, get : Result]
    /\ resets \in 0 .. MaxResets

\* asyncProc has written what it computes from s.
Outputs == {"ready_push", "out_valid", "busy_reg", "enable", "reg_full", "data_reg"}
Shows(n, s) == \A f \in Outputs : n[f] = CombOutputs(s)[f]
AsyncPart == "asyncProc" \notin runnable => Shows(nxt, cur)

SyncSame == /\ nxt.busy_reg_d = cur.busy_reg_d /\ nxt.reg_full_d = cur.reg_full_d
            /\ nxt.data_reg_d = cur.data_reg_d
            /\ nxt.put_req_d = cur.put_req_d /\ nxt.get_req_d = cur.get_req_d
SyncStep ==
    IF rst
    THEN /\ nxt.busy_reg_d = {} /\ ~nxt.reg_full_d
         /\ cfg.cthread_put => ~nxt.put_req_d
    ELSE /\ nxt.busy_reg_d = cur.busy_reg /\ nxt.reg_full_d = cur.reg_full
         /\ nxt.data_reg_d = cur.data_reg
         /\ cfg.cthread_put =>
               nxt.put_req_d = IF cur.ready_push THEN cur.put_req ELSE cur.put_req_d
         /\ cfg.cthread_get => nxt.get_req_d = cur.get_req
SyncPart == IF edge = "none" \/ "syncProc" \in runnable THEN SyncSame ELSE SyncStep

\* The PUT process.
PutSame == nxt.put_req = cur.put_req /\ nxt.data_in = cur.data_in
PutThread ==
    IF rst THEN ~nxt.put_req
    ELSE IF put_ok.done
    THEN cur.ready_push /\ nxt.put_req = ~cur.put_req /\ nxt.data_in = put_ok.data
    ELSE nxt.put_req = cur.put_req /\ (~cur.ready_push => nxt.data_in = cur.data_in)
PutMethod(s) == put_ok = Outcome(s.put_op = "put" /\ s.ready_push, s.put_val)
PutWrites(n) == n.put_req = put_ok.done /\ (put_ok.done => n.data_in = put_ok.data)
PutPart == IF cfg.cthread_put
           THEN IF edge = "none" \/ "put" \in runnable THEN PutSame ELSE PutThread
           ELSE "put" \notin runnable => PutMethod(cur) /\ PutWrites(nxt)

\* The GET process.
GetThread ==
    IF rst THEN ~nxt.get_req
    ELSE /\ nxt.get_req = IF get_ok.done THEN ~cur.get_req ELSE cur.get_req
         /\ get_ok.done => cur.out_valid /\ get_ok.data = cur.data_reg
GetMethod(s) == get_ok = Outcome(s.get_op = "get" /\ s.out_valid, s.data_reg)
GetPart == IF cfg.cthread_get
           THEN IF edge = "none" \/ "get" \in runnable
                THEN nxt.get_req = cur.get_req ELSE GetThread
           ELSE "get" \notin runnable => GetMethod(cur) /\ nxt.get_req = get_ok.done

\* The present values when a clock edge comes.
Stable ==
    /\ Shows(cur, cur)
    /\ ~cfg.cthread_put => PutMethod(cur) /\ PutWrites(cur)
    /\ ~cfg.cthread_get => GetMethod(cur) /\ cur.get_req = get_ok.done
KernelPart ==
    /\ edge = "none" => runnable \cap Threads = {}
    /\ edge = "reset" => rst
    /\ edge = "clock" => runnable \subseteq Threads
    /\ edge # "none" /\ ~rst => Stable

Parts == AsyncPart /\ SyncPart /\ PutPart /\ GetPart /\ KernelPart

\* The places -1 .. N, those that are taken, and the words in them; r is the
\* array of sct_pl_reg.
Place == -1 .. N
Pending(s) == cfg.cthread_put /\ Push(s)
Taken(s) == s.busy_reg_d \cup (IF RegFull(s) THEN {N} ELSE {})
                         \cup (IF Pending(s) THEN {-1} ELSE {})
Word(s, r, i) == IF i = -1 THEN s.data_in ELSE IF i = N THEN s.data_reg_d ELSE r[i]

\* The element at index j of the queue is at place pos[j].
InOrder(s, pos, n) ==
    /\ pos \in [1 .. n -> Place]
    /\ \A i, j \in 1 .. n : i < j => pos[i] > pos[j]
    /\ Taken(s) = {pos[j] : j \in 1 .. n}
Carried(s, r, pos, elems) == \A j \in 1 .. Len(elems) : elems[j] = Word(s, r, pos[j])

\* An element that was never held up is as far as its age says; one that was has
\* no empty stage ahead of it.
Delay == IF cfg.cthread_put THEN 1 ELSE 0
OnTime(s, p, a) ==
    IF p = N THEN a >= N - 1 + Delay
    ELSE /\ a >= p + Delay
         /\ a = p + Delay \/ \A i \in Stage : i > p => i \in s.busy_reg_d
Aged(s, pos, ages) == \A j \in 1 .. Len(ages) : OnTime(s, pos[j], ages[j])

History == q \in Seq(Data) /\ age \in Seq(0 .. N) /\ Len(age) = Len(q)
Holds(s, r) == /\ N - 1 \in s.busy_reg_d => s.data_out = r[N - 1]
               /\ \E pos \in [1 .. Len(q) -> Place] :
                     InOrder(s, pos, Len(q)) /\ Carried(s, r, pos, q) /\ Aged(s, pos, age)

\* plProc changes the array at once, the signals change with the update.
PlPart(r) == IF edge = "none" \/ "plProc" \in runnable
             THEN regs = r /\ nxt.data_out = cur.data_out
             ELSE /\ ~rst => regs = Shift(cur, r)
                  /\ nxt.data_out = regs[N - 1]
Words == \E r \in [Stage -> Data] : PlPart(r) /\ Holds(cur, r)

Inv == Types /\ Parts /\ History /\ Words

-----------------------------------------------------------------------------
(* Types.                                                                    *)

\* The process kinds are Booleans.
LEMMA ConfigType ==
    ASSUME cfg \in Configs
    PROVE  /\ cfg.cthread_put \in BOOLEAN /\ cfg.cthread_get \in BOOLEAN
           /\ Delay \in {0, 1} /\ Delay = (IF cfg.cthread_put THEN 1 ELSE 0)
<1>1. cfg \in Config
  BY ConfigsAssumption
<1>2. cfg.cthread_put \in BOOLEAN /\ cfg.cthread_get \in BOOLEAN
  BY <1>1 DEF Config
<1> QED BY <1>2 DEF Delay

\* What put() and get() return.
LEMMA OutcomeType ==
    ASSUME NEW b \in BOOLEAN, NEW d \in Data
    PROVE  /\ Outcome(b, d) \in Result /\ Outcome(b, d).done = b
           /\ b => Outcome(b, d).data = d
           /\ Nothing \in Result /\ Nothing.done = FALSE
           /\ Outcome(FALSE, d) = Nothing
  BY DataAssumption DEF Outcome, Nothing, Result

\* The signals one by one.
LEMMA SignalTypes ==
    ASSUME NEW s \in Signals
    PROVE  /\ s.put_req \in BOOLEAN /\ s.put_req_d \in BOOLEAN
           /\ s.get_req \in BOOLEAN /\ s.get_req_d \in BOOLEAN
           /\ s.ready_push \in BOOLEAN /\ s.out_valid \in BOOLEAN
           /\ s.enable \in SUBSET Stage /\ s.data_in \in Data /\ s.data_out \in Data
           /\ s.reg_full \in BOOLEAN /\ s.reg_full_d \in BOOLEAN
           /\ s.data_reg \in Data /\ s.data_reg_d \in Data
           /\ s.busy_reg \in SUBSET Stage /\ s.busy_reg_d \in SUBSET Stage
           /\ s.put_op \in PutOpKinds /\ s.put_val \in Data /\ s.get_op \in GetOpKinds
           /\ DOMAIN s = {"put_req", "put_req_d", "get_req", "get_req_d", "ready_push",
                          "out_valid", "enable", "data_in", "data_out", "reg_full",
                          "reg_full_d", "data_reg", "data_reg_d", "busy_reg",
                          "busy_reg_d", "put_op", "put_val", "get_op"}
  BY DEF Signals

\* What asyncProc computes: the stages after the output register took its word,
\* and stage 0 if it accepts one.
After(s) == IF Takes(s) THEN s.busy_reg_d \ {N - 1} ELSE s.busy_reg_d
Accept(s) == IF Push(s) /\ 0 \notin Shifted(After(s)) THEN {0} ELSE {}
LEMMA Comb ==
    ASSUME NEW s
    PROVE  /\ CombOutputs(s).ready_push = (0 \notin Shifted(After(s)))
           /\ CombOutputs(s).out_valid = (RegFull(s) \/ Takes(s))
           /\ CombOutputs(s).busy_reg = Shifted(After(s)) \cup Accept(s)
           /\ CombOutputs(s).enable = {i + 1 : i \in Moves(After(s))} \cup Accept(s)
           /\ CombOutputs(s).reg_full = ((RegFull(s) \/ Takes(s)) /\ ~(~cfg.cthread_get /\ Pop(s)))
           /\ CombOutputs(s).data_reg = IF Takes(s) THEN s.data_out ELSE s.data_reg_d
           /\ DOMAIN CombOutputs(s) = Outputs
<1>1. CombOutputs(s) =
         [ready_push |-> 0 \notin Shifted(After(s)),
          out_valid  |-> RegFull(s) \/ Takes(s),
          busy_reg   |-> Shifted(After(s)) \cup Accept(s),
          enable     |-> {i + 1 : i \in Moves(After(s))} \cup Accept(s),
          reg_full   |-> (RegFull(s) \/ Takes(s)) /\ ~(~cfg.cthread_get /\ Pop(s)),
          data_reg   |-> IF Takes(s) THEN s.data_out ELSE s.data_reg_d]
  BY DEF CombOutputs, After, Accept
<1> QED BY <1>1 DEF Outputs

\* Words only move inside the stages.
LEMMA StageTypes ==
    ASSUME NEW busy \in SUBSET Stage
    PROVE  /\ Moves(busy) \subseteq busy
           /\ \A i \in Moves(busy) : i + 1 \in Stage
           /\ {i + 1 : i \in Moves(busy)} \subseteq Stage
           /\ Shifted(busy) \subseteq Stage
           /\ 0 \in Stage /\ N - 1 \in Stage
<1>1. Moves(busy) \subseteq busy /\ \A i \in Moves(busy) : i + 1 \in Stage
  BY StagesAssumption DEF Moves, Stage
<1>2. 0 \in Stage /\ N - 1 \in Stage
  BY StagesAssumption DEF Stage
<1> QED BY <1>1, <1>2 DEF Shifted

\* The outputs of asyncProc have the types of its signals.
LEMMA CombTypes ==
    ASSUME cfg \in Configs, NEW s \in Signals
    PROVE  /\ Push(s) \in BOOLEAN /\ Pop(s) \in BOOLEAN
           /\ RegFull(s) \in BOOLEAN /\ Takes(s) \in BOOLEAN
           /\ After(s) \in SUBSET Stage
           /\ CombOutputs(s).ready_push \in BOOLEAN /\ CombOutputs(s).out_valid \in BOOLEAN
           /\ CombOutputs(s).busy_reg \in SUBSET Stage /\ CombOutputs(s).enable \in SUBSET Stage
           /\ CombOutputs(s).reg_full \in BOOLEAN /\ CombOutputs(s).data_reg \in Data
<1>1. cfg.cthread_put \in BOOLEAN /\ cfg.cthread_get \in BOOLEAN
  BY ConfigType
<1>2. /\ s.put_req \in BOOLEAN /\ s.put_req_d \in BOOLEAN
      /\ s.get_req \in BOOLEAN /\ s.get_req_d \in BOOLEAN
      /\ s.reg_full_d \in BOOLEAN /\ s.busy_reg_d \in SUBSET Stage
      /\ s.data_out \in Data /\ s.data_reg_d \in Data
  BY SignalTypes
<1>3. Push(s) \in BOOLEAN /\ Pop(s) \in BOOLEAN
  BY <1>1, <1>2 DEF Push, Pop
<1>4. RegFull(s) \in BOOLEAN /\ Takes(s) \in BOOLEAN
  BY <1>1, <1>2, <1>3 DEF RegFull, Takes
<1>5. After(s) \in SUBSET Stage
  BY <1>2 DEF After
<1>6. /\ Shifted(After(s)) \subseteq Stage /\ Accept(s) \subseteq Stage
      /\ {i + 1 : i \in Moves(After(s))} \subseteq Stage
  BY <1>5, StageTypes DEF Accept
<1>7. /\ CombOutputs(s).ready_push \in BOOLEAN /\ CombOutputs(s).out_valid \in BOOLEAN
      /\ CombOutputs(s).reg_full \in BOOLEAN
  BY <1>1, <1>3, <1>4, Comb
<1>8. CombOutputs(s).busy_reg \in SUBSET Stage /\ CombOutputs(s).enable \in SUBSET Stage
  BY <1>6, Comb
<1>9. CombOutputs(s).data_reg \in Data
  BY <1>2, Comb
<1> QED BY <1>3, <1>4, <1>5, <1>7, <1>8, <1>9

\* The sensitivity lists.
LEMMA NotWoken ==
    ASSUME NEW s, NEW t
    PROVE  /\ "asyncProc" \notin Woken(s, t) =>
                 /\ s.put_req = t.put_req /\ s.put_req_d = t.put_req_d
                 /\ s.get_req = t.get_req /\ s.get_req_d = t.get_req_d
                 /\ s.reg_full_d = t.reg_full_d /\ s.data_reg_d = t.data_reg_d
                 /\ s.data_out = t.data_out /\ s.busy_reg_d = t.busy_reg_d
           /\ "put" \notin Woken(s, t) /\ ~cfg.cthread_put =>
                 s.ready_push = t.ready_push /\ s.put_op = t.put_op /\ s.put_val = t.put_val
           /\ "get" \notin Woken(s, t) /\ ~cfg.cthread_get =>
                 s.out_valid = t.out_valid /\ s.data_reg = t.data_reg /\ s.get_op = t.get_op
           /\ Woken(s, t) \subseteq Procs /\ Woken(s, t) \cap Threads = {}
<1>1. "asyncProc" \notin Woken(s, t) => \A n \in AsyncSensitive : s[n] = t[n]
  BY DEF Woken, Changed
<1>2. "put" \notin Woken(s, t) /\ ~cfg.cthread_put => \A n \in PutSensitive : s[n] = t[n]
  BY DEF Woken, Changed
<1>3. "get" \notin Woken(s, t) /\ ~cfg.cthread_get => \A n \in GetSensitive : s[n] = t[n]
  BY DEF Woken, Changed
<1>4. Woken(s, t) \subseteq Procs /\ Woken(s, t) \cap Threads = {}
  BY DEF Woken, Procs, Threads
<1>5. "asyncProc" \notin Woken(s, t) =>
         /\ s.put_req = t.put_req /\ s.put_req_d = t.put_req_d
         /\ s.get_req = t.get_req /\ s.get_req_d = t.get_req_d
         /\ s.reg_full_d = t.reg_full_d /\ s.data_reg_d = t.data_reg_d
         /\ s.data_out = t.data_out /\ s.busy_reg_d = t.busy_reg_d
  BY <1>1 DEF AsyncSensitive
<1> QED BY <1>2, <1>3, <1>4, <1>5 DEF PutSensitive, GetSensitive

\* What asyncProc shows depends on the signals it is sensitive to.
LEMMA SameOutputs ==
    ASSUME NEW s, NEW t,
           s.put_req = t.put_req, s.put_req_d = t.put_req_d,
           s.get_req = t.get_req, s.get_req_d = t.get_req_d,
           s.reg_full_d = t.reg_full_d, s.data_reg_d = t.data_reg_d,
           s.data_out = t.data_out, s.busy_reg_d = t.busy_reg_d
    PROVE  CombOutputs(s) = CombOutputs(t)
<1>1. Push(s) = Push(t) /\ Pop(s) = Pop(t)
  BY DEF Push, Pop
<1>2. RegFull(s) = RegFull(t) /\ Takes(s) = Takes(t)
  BY <1>1 DEF RegFull, Takes
<1> QED BY <1>1, <1>2 DEF CombOutputs

-----------------------------------------------------------------------------
(* Steps of one process leave the parts of the others alone.                 *)

\* Each part is about the signals one process writes.
LEMMA Kept ==
    ASSUME Parts, UNCHANGED <<cfg, cur, rst, edge>>
    PROVE  /\ ("asyncProc" \in runnable => "asyncProc" \in runnable')
              /\ (\A f \in Outputs : nxt'[f] = nxt[f]) => AsyncPart'
           /\ ("syncProc" \in runnable <=> "syncProc" \in runnable')
              /\ nxt'.busy_reg_d = nxt.busy_reg_d /\ nxt'.reg_full_d = nxt.reg_full_d
              /\ nxt'.data_reg_d = nxt.data_reg_d
              /\ nxt'.put_req_d = nxt.put_req_d /\ nxt'.get_req_d = nxt.get_req_d => SyncPart'
           /\ ("put" \in runnable <=> "put" \in runnable') /\ put_ok' = put_ok
              /\ nxt'.put_req = nxt.put_req /\ nxt'.data_in = nxt.data_in => PutPart'
           /\ ("get" \in runnable <=> "get" \in runnable') /\ get_ok' = get_ok
              /\ nxt'.get_req = nxt.get_req => GetPart'
<1>1. CombOutputs(cur)' = CombOutputs(cur)
  BY DEF CombOutputs, Takes, RegFull, Push, Pop
<1>2. ASSUME "asyncProc" \in runnable => "asyncProc" \in runnable',
             \A f \in Outputs : nxt'[f] = nxt[f]
      PROVE  AsyncPart'
  BY <1>1, <1>2 DEF Parts, AsyncPart, Shows
<1>3. ASSUME "syncProc" \in runnable <=> "syncProc" \in runnable',
             nxt'.busy_reg_d = nxt.busy_reg_d, nxt'.reg_full_d = nxt.reg_full_d,
             nxt'.data_reg_d = nxt.data_reg_d,
             nxt'.put_req_d = nxt.put_req_d, nxt'.get_req_d = nxt.get_req_d
      PROVE  SyncPart'
  BY <1>3 DEF Parts, SyncPart, SyncSame, SyncStep
<1>4. ASSUME "put" \in runnable <=> "put" \in runnable', put_ok' = put_ok,
             nxt'.put_req = nxt.put_req, nxt'.data_in = nxt.data_in
      PROVE  PutPart'
  BY <1>4 DEF Parts, PutPart, PutSame, PutThread, PutMethod, PutWrites
<1>5. ASSUME "get" \in runnable <=> "get" \in runnable', get_ok' = get_ok,
             nxt'.get_req = nxt.get_req
      PROVE  GetPart'
  BY <1>5 DEF Parts, GetPart, GetThread, GetMethod
<1> QED BY <1>2, <1>3, <1>4, <1>5

\* The kernel's part in a step of process p, which returns nothing to a method
\* while an edge is evaluated.
LEMMA KernelKept ==
    ASSUME Types, Parts, UNCHANGED <<cfg, cur, rst, edge>>, NEW p, Runs(p),
           put_ok' = put_ok \/ p = "put", get_ok' = get_ok \/ p = "get"
    PROVE  KernelPart'
<1>1. CombOutputs(cur)' = CombOutputs(cur) /\ Threads' = Threads
  BY DEF CombOutputs, Takes, RegFull, Push, Pop, Threads
<1>2. KernelPart /\ runnable' \subseteq runnable /\ p \in runnable
  BY DEF Parts, Runs
<1>3. ASSUME edge # "none", ~rst PROVE Stable'
  <2>1. edge = "clock" /\ p \in Threads /\ Stable
    BY <1>2, <1>3 DEF Types, KernelPart
  <2>2. /\ ~cfg.cthread_put => put_ok' = put_ok
        /\ ~cfg.cthread_get => get_ok' = get_ok
    BY <2>1 DEF Threads
  <2> QED BY <1>1, <2>1, <2>2 DEF Stable, Shows, PutMethod, PutWrites, GetMethod
<1> QED BY <1>1, <1>2, <1>3 DEF KernelPart

\* The words in a step of the evaluation phase.
LEMMA HoldsKept ==
    ASSUME UNCHANGED <<cfg, cur, q, age>>, NEW r
    PROVE  Holds(cur, r)' = Holds(cur, r)
<1>1. /\ Taken(cur)' = Taken(cur) /\ Delay' = Delay
  BY DEF Taken, RegFull, Pending, Push, Pop, Delay
<1> QED BY <1>1 DEF Holds, InOrder, Carried, Word, Aged, OnTime

\* A step of another process than plProc leaves the words alone.
LEMMA WordsKept ==
    ASSUME Words, UNCHANGED <<cfg, cur, rst, edge, regs, q, age>>,
           "plProc" \in runnable <=> "plProc" \in runnable',
           nxt'.data_out = nxt.data_out
    PROVE  Words'
<1>1. PICK r \in [Stage -> Data] : PlPart(r) /\ Holds(cur, r)
  BY DEF Words
<1>2. Holds(cur, r)'
  BY <1>1, HoldsKept
<1>3. PlPart(r)'
  BY <1>1 DEF PlPart, Shift
<1> QED BY <1>1, <1>2, <1>3 DEF Words

\* A process that writes values of the right types keeps the types.
LEMMA TypesKept ==
    ASSUME Types, UNCHANGED <<cfg, cur, rst, edge, op, resets>>, NEW p, Runs(p),
           nxt' \in Signals, put_ok' \in Result, get_ok' \in Result,
           regs' \in [Stage -> Data],
           blocked' \in [put : BOOLEAN, get : BOOLEAN]
    PROVE  Types'
  BY DEF Types, Runs

-----------------------------------------------------------------------------
(* The processes of the module.                                              *)

\* The step of asyncProc.
LEMMA AsyncStep == ASSUME Inv, asyncProc PROVE Inv'
<1> DEFINE out == CombOutputs(cur)
<1>1. /\ Types /\ Parts /\ History /\ Words /\ nxt \in Signals /\ cur \in Signals
      /\ put_ok \in Result /\ get_ok \in Result /\ regs \in [Stage -> Data]
      /\ blocked \in [put : BOOLEAN, get : BOOLEAN] /\ cfg \in Configs
  BY DEF Inv, Types
<1>2. /\ Runs("asyncProc")
      /\ UNCHANGED <<cfg, cur, rst, edge, put_ok, get_ok, blocked, q, age, op, resets, regs>>
      /\ nxt' = [n \in DOMAIN nxt |-> IF n \in DOMAIN out THEN out[n] ELSE nxt[n]]
  BY DEF asyncProc, ModuleFrame, history
<1>3. /\ out.ready_push \in BOOLEAN /\ out.out_valid \in BOOLEAN
      /\ out.busy_reg \in SUBSET Stage /\ out.enable \in SUBSET Stage
      /\ out.reg_full \in BOOLEAN /\ out.data_reg \in Data
      /\ DOMAIN out = Outputs
  BY <1>1, CombTypes, Comb
<1> HIDE DEF out
<1>4. nxt' = [nxt EXCEPT !.ready_push = out.ready_push, !.out_valid = out.out_valid,
                         !.busy_reg = out.busy_reg, !.enable = out.enable,
                         !.reg_full = out.reg_full, !.data_reg = out.data_reg]
  BY <1>1, <1>2, <1>3, SignalTypes DEF Outputs
<1>5. /\ nxt' \in Signals
      /\ nxt'.put_req = nxt.put_req /\ nxt'.put_req_d = nxt.put_req_d
      /\ nxt'.get_req = nxt.get_req /\ nxt'.get_req_d = nxt.get_req_d
      /\ nxt'.data_in = nxt.data_in /\ nxt'.data_out = nxt.data_out
      /\ nxt'.reg_full_d = nxt.reg_full_d /\ nxt'.data_reg_d = nxt.data_reg_d
      /\ nxt'.busy_reg_d = nxt.busy_reg_d
      /\ nxt'.put_op = nxt.put_op /\ nxt'.get_op = nxt.get_op
  BY <1>1, <1>3, <1>4 DEF Signals
<1>6. \A f \in Outputs : nxt'[f] = out[f]
  BY <1>1, <1>2, <1>3, SignalTypes DEF Outputs
<1>7. AsyncPart'
  <2>1. CombOutputs(cur)' = out
    BY <1>2 DEF out, CombOutputs, Takes, RegFull, Push, Pop
  <2> QED BY <1>6, <2>1 DEF AsyncPart, Shows
<1>8. runnable' = runnable \ {"asyncProc"}
  BY <1>2 DEF Runs
<1>9. SyncPart' /\ PutPart' /\ GetPart'
  BY <1>1, <1>2, <1>5, <1>8, Kept
<1>10. KernelPart'
  BY <1>1, <1>2, KernelKept
<1>11. Words'
  BY <1>1, <1>2, <1>5, <1>8, WordsKept
<1>12. Types' /\ History'
  BY <1>1, <1>2, <1>5, TypesKept DEF History
<1> QED BY <1>7, <1>9, <1>10, <1>11, <1>12 DEF Inv, Parts

\* The clocked processes run in the evaluation phase of an edge only.
LEMMA AtEdge ==
    ASSUME Types, Parts, NEW p, Runs(p), p \in Threads
    PROVE  edge # "none" /\ p \in runnable /\ runnable' = runnable \ {p}
  BY DEF Types, Parts, KernelPart, Runs

\* The step of syncProc.
LEMMA SyncProcStep == ASSUME Inv, syncProc PROVE Inv'
<1>1. /\ Types /\ Parts /\ History /\ Words /\ nxt \in Signals /\ cur \in Signals
      /\ put_ok \in Result /\ get_ok \in Result /\ regs \in [Stage -> Data]
      /\ blocked \in [put : BOOLEAN, get : BOOLEAN] /\ cfg \in Configs
      /\ cfg.cthread_put \in BOOLEAN /\ cfg.cthread_get \in BOOLEAN /\ rst \in BOOLEAN
      /\ ZERO \in Data
  BY ConfigType, DataAssumption DEF Inv, Types
<1>2. /\ Runs("syncProc")
      /\ UNCHANGED <<cfg, cur, rst, edge, put_ok, get_ok, blocked, q, age, op, resets, regs>>
      /\ nxt' = IF rst THEN SyncReset(nxt) ELSE SyncCycle(cur, nxt)
  BY DEF syncProc, ModuleFrame, history
<1>3. edge # "none" /\ "syncProc" \in runnable /\ runnable' = runnable \ {"syncProc"}
  BY <1>1, <1>2, AtEdge DEF Threads
<1>4. SyncSame
  BY <1>1, <1>3 DEF Parts, SyncPart
<1>5. PICK b \in SUBSET Stage, f \in BOOLEAN, d \in Data, p \in BOOLEAN, g \in BOOLEAN :
         /\ nxt' = [nxt EXCEPT !.busy_reg_d = b, !.reg_full_d = f, !.data_reg_d = d,
                               !.put_req_d = p, !.get_req_d = g]
         /\ IF rst
            THEN b = {} /\ ~f /\ (cfg.cthread_put => ~p)
            ELSE /\ b = cur.busy_reg /\ f = cur.reg_full /\ d = cur.data_reg
                 /\ cfg.cthread_put => p = IF cur.ready_push THEN cur.put_req ELSE cur.put_req_d
                 /\ cfg.cthread_get => g = cur.get_req
  <2>1. CASE rst
    <3> DEFINE p == IF cfg.cthread_put THEN FALSE ELSE nxt.put_req_d
               g == IF cfg.cthread_get THEN FALSE ELSE nxt.get_req_d
               b == {}
    <3>1. nxt' = [nxt EXCEPT !.busy_reg_d = b, !.reg_full_d = FALSE, !.data_reg_d = ZERO,
                               !.put_req_d = p, !.get_req_d = g]
      BY <1>2, <2>1 DEF SyncReset
    <3>2. p \in BOOLEAN /\ g \in BOOLEAN /\ (cfg.cthread_put => ~p) /\ b \in SUBSET Stage
          /\ b = {}
      BY <1>1, SignalTypes
    <3> HIDE DEF p, g, b
    <3> QED BY <1>1, <2>1, <3>1, <3>2
  <2>2. CASE ~rst
    <3> DEFINE p == IF cfg.cthread_put /\ cur.ready_push THEN cur.put_req ELSE nxt.put_req_d
               g == IF cfg.cthread_get THEN cur.get_req ELSE nxt.get_req_d
               b == cur.busy_reg
               f == cur.reg_full
               d == cur.data_reg
    <3>1. nxt' = [nxt EXCEPT !.busy_reg_d = b, !.reg_full_d = f, !.data_reg_d = d,
                               !.put_req_d = p, !.get_req_d = g]
      BY <1>2, <2>2 DEF SyncCycle
    <3>2. p \in BOOLEAN /\ g \in BOOLEAN /\ b \in SUBSET Stage /\ f \in BOOLEAN /\ d \in Data
      BY <1>1, SignalTypes
    <3>3. /\ b = cur.busy_reg /\ f = cur.reg_full /\ d = cur.data_reg
          /\ cfg.cthread_put => p = IF cur.ready_push THEN cur.put_req ELSE cur.put_req_d
          /\ cfg.cthread_get => g = cur.get_req
      BY <1>4 DEF SyncSame
    <3> HIDE DEF p, g, b, f, d
    <3> QED BY <2>2, <3>1, <3>2, <3>3
  <2> QED BY <2>1, <2>2
<1>6. /\ nxt' \in Signals /\ nxt'.busy_reg_d = b /\ nxt'.reg_full_d = f
      /\ nxt'.data_reg_d = d /\ nxt'.put_req_d = p /\ nxt'.get_req_d = g
      /\ nxt'.put_req = nxt.put_req /\ nxt'.get_req = nxt.get_req
      /\ nxt'.data_in = nxt.data_in /\ nxt'.data_out = nxt.data_out
      /\ nxt'.ready_push = nxt.ready_push /\ nxt'.out_valid = nxt.out_valid
      /\ nxt'.busy_reg = nxt.busy_reg /\ nxt'.enable = nxt.enable
      /\ nxt'.reg_full = nxt.reg_full /\ nxt'.data_reg = nxt.data_reg
  BY <1>1, <1>5 DEF Signals
<1>7. SyncPart'
  BY <1>2, <1>3, <1>5, <1>6 DEF SyncPart, SyncStep
<1>8. AsyncPart' /\ PutPart' /\ GetPart'
  <2>1. \A x \in Outputs : nxt'[x] = nxt[x]
    BY <1>6 DEF Outputs
  <2> QED BY <1>1, <1>2, <1>3, <1>6, <2>1, Kept
<1>9. KernelPart'
  BY <1>1, <1>2, KernelKept
<1>10. Words'
  BY <1>1, <1>2, <1>3, <1>6, WordsKept
<1>11. Types' /\ History'
  BY <1>1, <1>2, <1>6, TypesKept DEF History
<1> QED BY <1>7, <1>8, <1>9, <1>10, <1>11 DEF Inv, Parts

\* The step of plProc: the array is not a signal.
LEMMA PlProcStep == ASSUME Inv, plProc PROVE Inv'
<1> DEFINE d == regs'[N - 1]
<1>1. /\ Types /\ Parts /\ History /\ Words /\ nxt \in Signals /\ cur \in Signals
      /\ put_ok \in Result /\ get_ok \in Result /\ regs \in [Stage -> Data]
      /\ blocked \in [put : BOOLEAN, get : BOOLEAN] /\ cfg \in Configs
      /\ rst \in BOOLEAN /\ ZERO \in Data /\ cur.data_in \in Data
      /\ cur.enable \subseteq Stage
  BY SignalTypes, DataAssumption DEF Inv, Types
<1>2. /\ Runs("plProc")
      /\ UNCHANGED <<cfg, cur, rst, edge, put_ok, get_ok, blocked, q, age, op, resets>>
      /\ regs' = IF rst THEN [i \in Stage |-> ZERO] ELSE Shift(cur, regs)
      /\ nxt' = [nxt EXCEPT !.data_out = d]
  BY DEF plProc, ModuleFrame, history
<1>3. edge # "none" /\ "plProc" \in runnable /\ runnable' = runnable \ {"plProc"}
  BY <1>1, <1>2, AtEdge DEF Threads
<1>4. regs' \in [Stage -> Data] /\ d \in Data
  <2>1. \A i \in Stage : i # 0 => i - 1 \in Stage
    BY StagesAssumption DEF Stage
  <2>2. N - 1 \in Stage
    BY StagesAssumption DEF Stage
  <2>3. Shift(cur, regs) \in [Stage -> Data]
    BY <1>1, <2>1 DEF Shift
  <2> QED BY <1>1, <1>2, <2>2, <2>3
<1> HIDE DEF d
<1>5. /\ nxt' \in Signals /\ nxt'.data_out = d
      /\ nxt'.put_req = nxt.put_req /\ nxt'.put_req_d = nxt.put_req_d
      /\ nxt'.get_req = nxt.get_req /\ nxt'.get_req_d = nxt.get_req_d
      /\ nxt'.data_in = nxt.data_in
      /\ nxt'.reg_full_d = nxt.reg_full_d /\ nxt'.data_reg_d = nxt.data_reg_d
      /\ nxt'.busy_reg_d = nxt.busy_reg_d
      /\ nxt'.ready_push = nxt.ready_push /\ nxt'.out_valid = nxt.out_valid
      /\ nxt'.busy_reg = nxt.busy_reg /\ nxt'.enable = nxt.enable
      /\ nxt'.reg_full = nxt.reg_full /\ nxt'.data_reg = nxt.data_reg
  BY <1>1, <1>2, <1>4 DEF Signals
<1>6. AsyncPart' /\ SyncPart' /\ PutPart' /\ GetPart'
  <2>1. \A x \in Outputs : nxt'[x] = nxt[x]
    BY <1>5 DEF Outputs
  <2> QED BY <1>1, <1>2, <1>3, <1>5, <2>1, Kept
<1>7. KernelPart'
  BY <1>1, <1>2, KernelKept
<1>8. Words'
  <2>1. PICK r \in [Stage -> Data] : PlPart(r) /\ Holds(cur, r)
    BY <1>1 DEF Words
  <2>2. regs = r
    BY <1>3, <2>1 DEF PlPart
  <2>3. Holds(cur, r)'
    BY <1>2, <2>1, HoldsKept
  <2>4. PlPart(r)'
    BY <1>2, <1>3, <1>5, <2>2 DEF PlPart, Shift, d
  <2> QED BY <2>1, <2>3, <2>4 DEF Words
<1>9. Types' /\ History'
  BY <1>1, <1>2, <1>4, <1>5, TypesKept DEF History
<1> QED BY <1>6, <1>7, <1>8, <1>9 DEF Inv, Parts

-----------------------------------------------------------------------------
(* The PUT and the GET process.                                              *)

\* A call of the PUT process that establishes PutPart keeps the invariant.
LEMMA PutCall ==
    ASSUME Inv, Runs("put"), PutFrame, NEW p \in BOOLEAN, NEW d \in Data,
           nxt' = [nxt EXCEPT !.put_req = p, !.data_in = d],
           put_ok' \in Result, blocked' \in [put : BOOLEAN, get : BOOLEAN], PutPart'
    PROVE  Inv'
<1>1. /\ Types /\ Parts /\ History /\ Words /\ nxt \in Signals
      /\ get_ok \in Result /\ regs \in [Stage -> Data]
  BY DEF Inv, Types
<1>2. /\ UNCHANGED <<cfg, cur, regs, rst, edge, get_ok, q, age, op, resets>>
      /\ runnable' = runnable \ {"put"}
  BY DEF PutFrame, history, Runs
<1>3. /\ nxt' \in Signals
      /\ nxt'.put_req_d = nxt.put_req_d
      /\ nxt'.get_req = nxt.get_req /\ nxt'.get_req_d = nxt.get_req_d
      /\ nxt'.data_out = nxt.data_out
      /\ nxt'.reg_full_d = nxt.reg_full_d /\ nxt'.data_reg_d = nxt.data_reg_d
      /\ nxt'.busy_reg_d = nxt.busy_reg_d
      /\ nxt'.ready_push = nxt.ready_push /\ nxt'.out_valid = nxt.out_valid
      /\ nxt'.busy_reg = nxt.busy_reg /\ nxt'.enable = nxt.enable
      /\ nxt'.reg_full = nxt.reg_full /\ nxt'.data_reg = nxt.data_reg
  BY <1>1 DEF Signals
<1>4. AsyncPart' /\ SyncPart' /\ GetPart'
  <2>1. \A x \in Outputs : nxt'[x] = nxt[x]
    BY <1>3 DEF Outputs
  <2> QED BY <1>1, <1>2, <1>3, <2>1, Kept
<1>5. KernelPart'
  BY <1>1, <1>2, KernelKept
<1>6. Words'
  BY <1>1, <1>2, <1>3, WordsKept
<1>7. Types' /\ History'
  BY <1>1, <1>2, <1>3, TypesKept DEF History
<1> QED BY <1>4, <1>5, <1>6, <1>7 DEF Inv, Parts

\* PutPart after a call, from what the call wrote and returned.
LEMMA PutPartIs ==
    ASSUME Inv, Runs("put"), PutFrame, NEW p \in BOOLEAN, NEW d \in Data,
           nxt' = [nxt EXCEPT !.put_req = p, !.data_in = d],
           cfg.cthread_put =>
               IF rst THEN ~p
               ELSE IF put_ok'.done THEN cur.ready_push /\ p = ~cur.put_req /\ d = put_ok'.data
               ELSE p = cur.put_req /\ (~cur.ready_push => d = nxt.data_in),
           ~cfg.cthread_put =>
               /\ put_ok' = Outcome(cur.put_op = "put" /\ cur.ready_push, cur.put_val)
               /\ p = put_ok'.done /\ (put_ok'.done => d = put_ok'.data)
    PROVE  PutPart'
<1>1. /\ nxt \in Signals /\ Types /\ Parts
      /\ UNCHANGED <<cfg, cur, rst, edge>> /\ "put" \in runnable
      /\ runnable' = runnable \ {"put"} /\ cfg.cthread_put \in BOOLEAN
  BY ConfigType DEF Inv, Types, PutFrame, Runs
<1>2. nxt'.put_req = p /\ nxt'.data_in = d
  BY <1>1 DEF Signals
<1>3. CASE cfg.cthread_put
  <2>1. edge # "none" /\ "put" \in Threads
    BY <1>1, <1>3 DEF Parts, KernelPart, Threads
  <2>2. PutSame
    BY <1>1, <1>3 DEF Parts, PutPart
  <2> QED BY <1>1, <1>2, <1>3, <2>1, <2>2 DEF PutPart, PutThread, PutSame
<1>4. CASE ~cfg.cthread_put
  <2>1. PutMethod(cur)'
    BY <1>1, <1>4 DEF PutMethod
  <2> QED BY <1>1, <1>2, <1>4, <2>1 DEF PutPart, PutWrites
<1> QED BY <1>1, <1>3, <1>4

\* Every call of the PUT process.
LEMMA PutStep == ASSUME Inv, PutProc PROVE Inv'
<1>1. /\ cfg \in Configs /\ nxt \in Signals /\ cur \in Signals /\ rst \in BOOLEAN
      /\ blocked \in [put : BOOLEAN, get : BOOLEAN] /\ put_ok \in Result
      /\ cfg.cthread_put \in BOOLEAN /\ ZERO \in Data
      /\ cur.put_req \in BOOLEAN /\ cur.ready_push \in BOOLEAN /\ nxt.data_in \in Data
      /\ nxt.put_req \in BOOLEAN /\ cur.put_val \in Data
      /\ \A x : Outcome(FALSE, x) = Nothing
  BY ConfigType, SignalTypes, DataAssumption DEF Inv, Types, Outcome
<1>2. CASE reset_put
  <2>1. /\ Runs("put") /\ PutFrame /\ cfg.cthread_put /\ rst
        /\ nxt' = [nxt EXCEPT !.put_req = FALSE, !.data_in = ZERO]
        /\ put_ok' = Nothing /\ blocked' \in [put : BOOLEAN, get : BOOLEAN]
    BY <1>1, <1>2 DEF reset_put
  <2>2. put_ok' \in Result
    BY <1>1, <2>1, OutcomeType
  <2>3. PutPart'
    BY <1>1, <2>1, PutPartIs
  <2> QED BY <1>1, <2>1, <2>2, <2>3, PutCall
<1>3. CASE clear_put
  <2> DEFINE p == PutReq(FALSE)
             d == IF cfg.cthread_put THEN nxt.data_in ELSE ZERO
  <2>1. /\ Runs("put") /\ PutFrame
        /\ IF cfg.cthread_put THEN ~rst ELSE cur.put_op = "clear"
        /\ nxt' = [nxt EXCEPT !.put_req = p, !.data_in = d]
        /\ put_ok' = Nothing /\ blocked' \in [put : BOOLEAN, get : BOOLEAN]
    BY <1>1, <1>3 DEF clear_put
  <2>2. put_ok' \in Result /\ put_ok'.done = FALSE
    BY <1>1, <2>1, OutcomeType
  <2>3. p \in BOOLEAN /\ d \in Data
        /\ (IF cfg.cthread_put THEN p = cur.put_req /\ d = nxt.data_in ELSE p = FALSE)
    BY <1>1 DEF PutReq
  <2> HIDE DEF p, d
  <2>4. ~cfg.cthread_put => put_ok' = Outcome(cur.put_op = "put" /\ cur.ready_push, cur.put_val)
    <3> SUFFICES ASSUME ~cfg.cthread_put
                 PROVE  put_ok' = Outcome(cur.put_op = "put" /\ cur.ready_push, cur.put_val)
      OBVIOUS
    <3>1. (cur.put_op = "put" /\ cur.ready_push) = FALSE
      BY <2>1
    <3> QED BY <1>1, <2>1, <3>1
  <2>5. PutPart'
    BY <1>1, <2>1, <2>2, <2>3, <2>4, PutPartIs
  <2> QED BY <2>1, <2>2, <2>3, <2>5, PutCall
<1>4. ASSUME NEW x \in Data, NEW mask \in BOOLEAN, put(x, mask),
             (IF mask THEN "put" ELSE "mask") \in PutOp
      PROVE  Inv'
  <2> DEFINE does == cur.ready_push /\ mask
             p == PutReq(does)
             d == IF cur.ready_push THEN x ELSE IF cfg.cthread_put THEN nxt.data_in ELSE ZERO
  <2>1. /\ Runs("put") /\ PutFrame
        /\ IF cfg.cthread_put THEN ~rst ELSE x = cur.put_val
        /\ nxt' = [nxt EXCEPT !.put_req = p, !.data_in = d]
        /\ put_ok' = Outcome(does, x) /\ blocked' = blocked
    BY <1>4 DEF put
  <2>2. /\ does \in BOOLEAN /\ (does => cur.ready_push)
        /\ p \in BOOLEAN /\ d \in Data
        /\ p = (IF cfg.cthread_put THEN IF does THEN ~cur.put_req ELSE cur.put_req ELSE does)
        /\ does => d = x
        /\ cfg.cthread_put /\ ~cur.ready_push => d = nxt.data_in
    BY <1>1 DEF PutReq
  <2>3. ~cfg.cthread_put => does = (cur.put_op = "put" /\ cur.ready_push)
    BY <1>1, <1>4 DEF PutOp
  <2> HIDE DEF does, p, d
  <2>4. put_ok' \in Result /\ put_ok'.done = does /\ (does => put_ok'.data = x)
    BY <2>1, <2>2, OutcomeType
  <2>5. ~cfg.cthread_put => put_ok' = Outcome(cur.put_op = "put" /\ cur.ready_push, cur.put_val)
    BY <2>1, <2>3
  <2>6. PutPart'
    <3>1. cfg.cthread_put =>
               IF rst THEN ~p
               ELSE IF put_ok'.done THEN cur.ready_push /\ p = ~cur.put_req /\ d = put_ok'.data
               ELSE p = cur.put_req /\ (~cur.ready_push => d = nxt.data_in)
      BY <1>1, <2>1, <2>2, <2>4
    <3>2. ~cfg.cthread_put => p = put_ok'.done /\ (put_ok'.done => d = put_ok'.data)
      BY <1>1, <2>1, <2>2, <2>4
    <3> QED BY <2>1, <2>2, <2>5, <3>1, <3>2, PutPartIs
  <2> QED BY <1>1, <2>1, <2>2, <2>4, <2>6, PutCall
<1>5. ASSUME NEW x \in Data, b_put(x) PROVE Inv'
  <2> DEFINE p == IF cur.ready_push THEN ~cur.put_req ELSE nxt.put_req
             d == IF cur.ready_push THEN x ELSE nxt.data_in
  <2>1. /\ Runs("put") /\ PutFrame /\ cfg.cthread_put /\ ~rst
        /\ nxt' = (IF cur.ready_push
                   THEN [nxt EXCEPT !.put_req = ~cur.put_req, !.data_in = x] ELSE nxt)
        /\ put_ok' = [done |-> cur.ready_push, data |-> x]
        /\ blocked' \in [put : BOOLEAN, get : BOOLEAN]
    BY <1>1, <1>5 DEF b_put
  <2>2. nxt' = [nxt EXCEPT !.put_req = p, !.data_in = d]
    <3>1. nxt = [nxt EXCEPT !.put_req = nxt.put_req, !.data_in = nxt.data_in]
      BY <1>1 DEF Signals
    <3> QED BY <2>1, <3>1
  <2>3. nxt.put_req = cur.put_req
    BY <2>1 DEF Inv, Parts, PutPart, PutSame, Runs
  <2>4. /\ p \in BOOLEAN /\ d \in Data
        /\ cur.ready_push => p = ~cur.put_req /\ d = x
        /\ ~cur.ready_push => p = cur.put_req /\ d = nxt.data_in
    BY <1>1, <2>3
  <2> HIDE DEF p, d
  <2>5. put_ok' \in Result /\ put_ok'.done = cur.ready_push /\ put_ok'.data = x
    BY <1>1, <2>1 DEF Result
  <2>6. PutPart'
    <3>1. cfg.cthread_put =>
               IF rst THEN ~p
               ELSE IF put_ok'.done THEN cur.ready_push /\ p = ~cur.put_req /\ d = put_ok'.data
               ELSE p = cur.put_req /\ (~cur.ready_push => d = nxt.data_in)
      BY <1>1, <2>1, <2>4, <2>5
    <3> QED BY <2>1, <2>2, <2>4, <3>1, PutPartIs
  <2> QED BY <2>1, <2>2, <2>4, <2>5, <2>6, PutCall
<1> QED BY <1>2, <1>3, <1>4, <1>5 DEF PutProc

\* A call of the GET process that does or does not take the word offered.
LEMMA GetTakes ==
    ASSUME Inv, Runs("get"), GetFrame, NEW does \in BOOLEAN,
           nxt' = [nxt EXCEPT !.get_req = GetReq(does)] \/
               (rst /\ cfg.cthread_get /\ nxt' = [nxt EXCEPT !.get_req = FALSE]),
           get_ok' = Outcome(does, cur.data_reg), does => cur.out_valid,
           blocked' \in [put : BOOLEAN, get : BOOLEAN],
           cfg.cthread_get /\ rst => nxt' = [nxt EXCEPT !.get_req = FALSE],
           ~cfg.cthread_get => does = (cur.get_op = "get" /\ cur.out_valid)
    PROVE  Inv'
<1>1. /\ Types /\ Parts /\ History /\ Words /\ nxt \in Signals /\ cur \in Signals
      /\ put_ok \in Result /\ regs \in [Stage -> Data] /\ cfg \in Configs
      /\ cfg.cthread_get \in BOOLEAN /\ cur.get_req \in BOOLEAN /\ cur.data_reg \in Data
      /\ cur.out_valid \in BOOLEAN /\ rst \in BOOLEAN
  BY ConfigType, SignalTypes DEF Inv, Types
<1>2. /\ UNCHANGED <<cfg, cur, regs, rst, edge, put_ok, q, age, op, resets>>
      /\ "get" \in runnable /\ runnable' = runnable \ {"get"}
  BY DEF GetFrame, history, Runs
<1>3. /\ get_ok' \in Result /\ get_ok'.done = does /\ (does => get_ok'.data = cur.data_reg)
  BY <1>1, OutcomeType
<1>4. PICK r \in BOOLEAN : /\ nxt' = [nxt EXCEPT !.get_req = r]
                           /\ IF cfg.cthread_get /\ rst THEN ~r ELSE r = GetReq(does)
  <2>1. CASE cfg.cthread_get /\ rst
    BY <2>1
  <2>2. CASE ~(cfg.cthread_get /\ rst)
    <3>1. GetReq(does) \in BOOLEAN
      BY <1>1 DEF GetReq
    <3> QED BY <2>2, <3>1
  <2> QED BY <2>1, <2>2
<1>5. /\ nxt' \in Signals /\ nxt'.get_req = r
      /\ nxt'.put_req = nxt.put_req /\ nxt'.put_req_d = nxt.put_req_d
      /\ nxt'.get_req_d = nxt.get_req_d /\ nxt'.data_in = nxt.data_in
      /\ nxt'.data_out = nxt.data_out
      /\ nxt'.reg_full_d = nxt.reg_full_d /\ nxt'.data_reg_d = nxt.data_reg_d
      /\ nxt'.busy_reg_d = nxt.busy_reg_d
      /\ nxt'.ready_push = nxt.ready_push /\ nxt'.out_valid = nxt.out_valid
      /\ nxt'.busy_reg = nxt.busy_reg /\ nxt'.enable = nxt.enable
      /\ nxt'.reg_full = nxt.reg_full /\ nxt'.data_reg = nxt.data_reg
  BY <1>1, <1>4 DEF Signals
<1>6. GetPart'
  <2>1. CASE cfg.cthread_get
    <3>1. edge # "none"
      BY <1>1, <1>2, <2>1 DEF Parts, KernelPart, Threads
    <3>2. GetThread'
      BY <1>1, <1>2, <1>3, <1>4, <1>5, <2>1 DEF GetThread, GetReq
    <3> QED BY <1>2, <2>1, <3>1, <3>2 DEF GetPart
  <2>2. CASE ~cfg.cthread_get
    <3>1. r = does
      BY <1>4, <2>2 DEF GetReq
    <3>2. get_ok' = Outcome(cur'.get_op = "get" /\ cur'.out_valid, cur'.data_reg)
      <4>1. does = (cur'.get_op = "get" /\ cur'.out_valid)
        BY <1>2, <2>2
      <4> QED BY <1>2, <4>1
    <3>3. GetMethod(cur)'
      BY <3>2 DEF GetMethod
    <3> QED BY <1>2, <1>3, <1>5, <2>2, <3>1, <3>3 DEF GetPart
  <2> QED BY <1>1, <2>1, <2>2
<1>7. AsyncPart' /\ SyncPart' /\ PutPart'
  <2>1. \A x \in Outputs : nxt'[x] = nxt[x]
    BY <1>5 DEF Outputs
  <2> QED BY <1>1, <1>2, <1>5, <2>1, Kept
<1>8. KernelPart'
  BY <1>1, <1>2, KernelKept
<1>9. Words'
  BY <1>1, <1>2, <1>5, WordsKept
<1>10. Types' /\ History'
  BY <1>1, <1>2, <1>3, <1>5, TypesKept DEF History
<1> QED BY <1>6, <1>7, <1>8, <1>9, <1>10 DEF Inv, Parts

\* Every call of the GET process.
LEMMA GetStep == ASSUME Inv, GetProc PROVE Inv'
<1>1. /\ cfg \in Configs /\ cur \in Signals /\ rst \in BOOLEAN
      /\ blocked \in [put : BOOLEAN, get : BOOLEAN]
      /\ cfg.cthread_get \in BOOLEAN /\ cur.out_valid \in BOOLEAN
      /\ \A x : Outcome(FALSE, x) = Nothing
  BY ConfigType, SignalTypes DEF Inv, Types, Outcome
<1>2. CASE reset_get
  <2>1. /\ Runs("get") /\ GetFrame /\ cfg.cthread_get /\ rst
        /\ nxt' = [nxt EXCEPT !.get_req = FALSE]
        /\ get_ok' = Outcome(FALSE, cur.data_reg)
        /\ blocked' \in [put : BOOLEAN, get : BOOLEAN]
    BY <1>1, <1>2 DEF reset_get
  <2> QED BY <2>1, GetTakes
<1>3. CASE clear_get
  <2>1. /\ Runs("get") /\ GetFrame /\ nxt' = [nxt EXCEPT !.get_req = GetReq(FALSE)]
        /\ get_ok' = Outcome(FALSE, cur.data_reg)
        /\ blocked' = blocked /\ (IF cfg.cthread_get THEN ~rst ELSE cur.get_op = "clear")
    BY <1>1, <1>3 DEF clear_get
  <2> QED BY <1>1, <2>1, GetTakes
<1>4. ASSUME NEW enable \in BOOLEAN, get(enable),
             (IF enable THEN "get" ELSE "mask") \in GetOp
      PROVE  Inv'
  <2> DEFINE does == cur.out_valid /\ enable
  <2>1. /\ Runs("get") /\ GetFrame /\ nxt' = [nxt EXCEPT !.get_req = GetReq(does)]
        /\ get_ok' = Outcome(does, cur.data_reg)
        /\ blocked' = blocked /\ (cfg.cthread_get => ~rst)
    BY <1>4 DEF get
  <2>2. does \in BOOLEAN /\ (does => cur.out_valid)
    BY <1>1
  <2>3. ~cfg.cthread_get => does = (cur.get_op = "get" /\ cur.out_valid)
    BY <1>1, <1>4 DEF GetOp
  <2> HIDE DEF does
  <2> QED BY <1>1, <2>1, <2>2, <2>3, GetTakes
<1>5. CASE b_get
  <2>1. /\ Runs("get") /\ GetFrame /\ nxt' = [nxt EXCEPT !.get_req = GetReq(cur.out_valid)]
        /\ get_ok' = Outcome(cur.out_valid, cur.data_reg)
        /\ blocked' \in [put : BOOLEAN, get : BOOLEAN] /\ cfg.cthread_get /\ ~rst
    BY <1>1, <1>5 DEF b_get
  <2> QED BY <1>1, <2>1, GetTakes
<1> QED BY <1>2, <1>3, <1>4, <1>5 DEF GetProc

-----------------------------------------------------------------------------
(* One shift of the places.                                                  *)

\* A word moves up if there is an empty place ahead of it.
Open(B, i) == \E e \in Place : e \notin B /\ e > i
Up(B, i) == IF Open(B, i) THEN i + 1 ELSE i

\* The places taken when an edge comes: the put of a method counts, too.
Loaded(s) == s.busy_reg_d \cup (IF RegFull(s) THEN {N} ELSE {})
                          \cup (IF Push(s) THEN {-1} ELSE {})

\* Words stay inside the places.
LEMMA UpTypes ==
    ASSUME NEW B, NEW i \in Place
    PROVE  /\ Up(B, i) \in Place
           /\ Open(B, i) \in BOOLEAN
           /\ Open(B, i) => i < N /\ Up(B, i) = i + 1
           /\ ~Open(B, i) => Up(B, i) = i /\ \A e \in Place : e > i => e \in B
           /\ N \notin B /\ i < N => Open(B, i)
  BY StagesAssumption DEF Up, Open, Place

\* Words never overtake each other.
LEMMA UpInOrder ==
    ASSUME NEW B, NEW i \in Place, NEW j \in Place, j \in B, i < j
    PROVE  Up(B, i) < Up(B, j)
<1>1. CASE Open(B, i) /\ ~Open(B, j)
  <2>1. PICK e \in Place : e \notin B /\ e > i
    BY <1>1 DEF Open
  <2>2. ~(e > j) /\ e # j
    BY <1>1, <2>1 DEF Open
  <2> QED BY <1>1, <2>1, <2>2, StagesAssumption DEF Up, Place
<1>2. CASE ~Open(B, i) \/ Open(B, j)
  BY <1>2, StagesAssumption DEF Up, Place
<1> QED BY <1>1, <1>2

\* Which places are taken.
LEMMA LoadedIs ==
    ASSUME cfg \in Configs, NEW s \in Signals
    PROVE  /\ Loaded(s) \subseteq Place /\ Taken(s) \subseteq Loaded(s)
           /\ \A i \in Stage : i \in Loaded(s) <=> i \in s.busy_reg_d
           /\ \A i \in Stage : i \in Taken(s) <=> i \in s.busy_reg_d
           /\ N \in Loaded(s) <=> RegFull(s)
           /\ N \in Taken(s) <=> RegFull(s)
           /\ -1 \in Loaded(s) <=> Push(s)
           /\ -1 \in Taken(s) <=> Pending(s)
           /\ \A i \in Place : i = -1 \/ i = N \/ i \in Stage
           /\ -1 \in Place /\ N \in Place /\ -1 \notin Stage /\ N \notin Stage
           /\ Stage \subseteq Place
<1>1. /\ \A i \in Place : i = -1 \/ i = N \/ i \in Stage
      /\ -1 \in Place /\ N \in Place /\ -1 \notin Stage /\ N \notin Stage /\ N # -1
      /\ Stage \subseteq Place
  BY StagesAssumption DEF Place, Stage
<1>2. s.busy_reg_d \subseteq Stage
  BY SignalTypes
<1>3. Pending(s) => Push(s)
  BY DEF Pending
<1> QED BY <1>1, <1>2, <1>3 DEF Loaded, Taken

\* Which stages asyncProc moves up.
LEMMA MovesIs ==
    ASSUME cfg \in Configs, NEW s \in Signals
    PROVE  /\ Takes(s) <=> N - 1 \in Loaded(s) /\ Open(Loaded(s), N - 1)
           /\ \A i \in Stage : i \in Moves(After(s)) <=>
                 i \in Loaded(s) /\ i # N - 1 /\ Open(Loaded(s), i)
<1> DEFINE B == Loaded(s)
           b == s.busy_reg_d
<1>1. /\ B \subseteq Place /\ (\A i \in Stage : i \in B <=> i \in b)
      /\ (N \in B <=> RegFull(s)) /\ N \in Place /\ Stage \subseteq Place
      /\ \A i \in Place : i = -1 \/ i = N \/ i \in Stage
  BY LoadedIs
<1>2. /\ N - 1 \in Stage /\ N \in Nat \ {0} /\ Stage = 0 .. N - 1 /\ Place = -1 .. N
      /\ b \subseteq Stage
  BY StagesAssumption, SignalTypes DEF Stage, Place
<1>3. Takes(s) <=> N - 1 \in B /\ N \notin B
  BY <1>1, <1>2 DEF Takes
<1>4. After(s) = IF N \in B THEN b ELSE b \ {N - 1}
  BY <1>1, <1>2, <1>3 DEF After
<1> HIDE DEF B, b
<1>5. Open(B, N - 1) <=> N \notin B
  BY <1>2 DEF Open
<1>6. ASSUME NEW i \in Stage
      PROVE  i \in Moves(After(s)) <=> i \in B /\ i # N - 1 /\ Open(B, i)
  <2>1. i \in Moves(After(s)) <=> i \in After(s) /\ \E j \in Stage : j \notin After(s) /\ j > i
    BY DEF Moves
  <2>2. CASE N \in B
    <3>1. (\E j \in Stage : j \notin b /\ j > i) <=> Open(B, i)
      BY <1>1, <1>2, <2>2 DEF Open
    <3>2. Open(B, i) => i # N - 1
      BY <1>5, <2>2
    <3> QED BY <1>1, <1>4, <2>1, <2>2, <3>1, <3>2
  <2>3. CASE N \notin B
    <3>1. Open(B, i)
      BY <1>1, <1>2, <2>3 DEF Open
    <3>2. i # N - 1 => N - 1 > i
      BY <1>2
    <3> QED BY <1>1, <1>2, <1>4, <2>1, <2>3, <3>1, <3>2
  <2> QED BY <2>2, <2>3
<1> QED BY <1>3, <1>5, <1>6 DEF B

\* What asyncProc computes is the shift of the places.
LEMMA ShiftIs ==
    ASSUME cfg \in Configs, NEW s \in Signals
    PROVE  /\ CombOutputs(s).ready_push <=> Open(Loaded(s), -1)
           /\ CombOutputs(s).out_valid <=> \E p \in Loaded(s) : Up(Loaded(s), p) = N
           /\ \A i \in Stage : i \in CombOutputs(s).busy_reg <=>
                 \E p \in Loaded(s) : Up(Loaded(s), p) = i
           /\ \A p \in Loaded(s) : p \in Stage /\ ~Open(Loaded(s), p) =>
                 p \notin CombOutputs(s).enable
           /\ \A p \in Loaded(s) : p + 1 \in Stage /\ Open(Loaded(s), p) =>
                 p + 1 \in CombOutputs(s).enable
           /\ CombOutputs(s).data_reg =
                 IF N - 1 \in Loaded(s) /\ Open(Loaded(s), N - 1) THEN s.data_out ELSE s.data_reg_d
<1> DEFINE B == Loaded(s)
           M == Moves(After(s))
           A == After(s)
<1>1. /\ B \subseteq Place /\ (\A i \in Stage : i \in B <=> i \in s.busy_reg_d)
      /\ (N \in B <=> RegFull(s)) /\ N \in Place /\ Stage \subseteq Place
      /\ (-1 \in B <=> Push(s)) /\ -1 \in Place
      /\ \A i \in Place : i = -1 \/ i = N \/ i \in Stage
  BY LoadedIs
<1>2. /\ N - 1 \in Stage /\ N \in Nat \ {0} /\ Stage = 0 .. N - 1 /\ Place = -1 .. N
      /\ 0 \in Stage
  BY StagesAssumption DEF Stage, Place
<1>3. /\ Takes(s) <=> N - 1 \in B /\ Open(B, N - 1)
      /\ \A i \in Stage : i \in M <=> i \in B /\ i # N - 1 /\ Open(B, i)
  BY MovesIs
<1>4. M \subseteq A /\ A \subseteq Stage /\ Takes(s) \in BOOLEAN
  BY CombTypes, StageTypes
<1>5. \A i \in Stage : i \in A <=> i \in B /\ ~(i = N - 1 /\ Open(B, N - 1))
  BY <1>1, <1>2, <1>3 DEF After
<1>6. Shifted(A) = (A \ M) \cup {i + 1 : i \in M}
  BY DEF Shifted
<1>7. Accept(s) = IF -1 \in B /\ 0 \notin Shifted(A) THEN {0} ELSE {}
  BY <1>1 DEF Accept
<1>8. /\ CombOutputs(s).ready_push = (0 \notin Shifted(A))
      /\ CombOutputs(s).out_valid = (N \in B \/ Takes(s))
      /\ CombOutputs(s).busy_reg = Shifted(A) \cup Accept(s)
      /\ CombOutputs(s).enable = {i + 1 : i \in M} \cup Accept(s)
      /\ CombOutputs(s).data_reg = IF Takes(s) THEN s.data_out ELSE s.data_reg_d
  <2>1. RegFull(s) = (N \in B)
    BY <1>1, CombTypes
  <2> QED BY <2>1, Comb
<1> HIDE DEF A, M, B
<1>9. \A i \in Stage : i \in {x + 1 : x \in M} <=> i - 1 \in B /\ i - 1 \in Stage /\ Open(B, i - 1)
  <2> SUFFICES ASSUME NEW i \in Stage
               PROVE  i \in {x + 1 : x \in M} <=> i - 1 \in B /\ i - 1 \in Stage /\ Open(B, i - 1)
    OBVIOUS
  <2>1. i \in {x + 1 : x \in M} <=> i - 1 \in M
    <3>1. \A x \in M : x \in Int
      BY <1>2, <1>4
    <3>2. i \in Int /\ (i - 1) + 1 = i
      BY <1>2
    <3>3. ASSUME i \in {x + 1 : x \in M} PROVE i - 1 \in M
      BY <3>1, <3>2, <3>3
    <3>4. ASSUME i - 1 \in M PROVE i \in {x + 1 : x \in M}
      BY <3>2, <3>4
    <3> QED BY <3>3, <3>4
  <2>2. i - 1 # N - 1
    BY <1>2
  <2>3. M \subseteq Stage
    BY <1>4
  <2> QED BY <1>3, <2>1, <2>2, <2>3
<1>10. \A i \in Stage : i \in A \ M <=> i \in B /\ ~Open(B, i)
  BY <1>3, <1>5
<1>11. 0 \in Shifted(A) <=> ~Open(B, -1)
  <2>1. 0 \in Shifted(A) <=> 0 \in B /\ ~Open(B, 0)
    BY <1>2, <1>6, <1>9, <1>10
  <2>2. Open(B, -1) <=> 0 \notin B \/ Open(B, 0)
    BY <1>2 DEF Open
  <2> QED BY <2>1, <2>2
<1>12. \A i \in Stage : i \in CombOutputs(s).busy_reg <=>
          (i \in B /\ ~Open(B, i)) \/ (i - 1 \in B /\ Open(B, i - 1))
  <2> SUFFICES ASSUME NEW i \in Stage
               PROVE  i \in CombOutputs(s).busy_reg <=>
                         (i \in B /\ ~Open(B, i)) \/ (i - 1 \in B /\ Open(B, i - 1))
    OBVIOUS
  <2>1. i \in CombOutputs(s).busy_reg <=>
           \/ i \in B /\ ~Open(B, i)
           \/ i - 1 \in B /\ i - 1 \in Stage /\ Open(B, i - 1)
           \/ i = 0 /\ -1 \in B /\ Open(B, -1)
    BY <1>6, <1>7, <1>8, <1>9, <1>10, <1>11
  <2>2. /\ i = 0 => i - 1 = -1
        /\ i # 0 => i - 1 \in Stage
        /\ i - 1 = -1 => i = 0
    BY <1>2
  <2>3. -1 \notin Stage
    BY <1>2
  <2> QED BY <2>1, <2>2, <2>3
<1>13. \A p \in B, i \in Place : Up(B, p) = i <=> (p = i /\ ~Open(B, i)) \/ (p = i - 1 /\ Open(B, i - 1))
  BY <1>1, <1>2 DEF Up
<1>14. \A i \in Stage : i \in CombOutputs(s).busy_reg <=> \E p \in B : Up(B, p) = i
  BY <1>1, <1>12, <1>13
<1>15. CombOutputs(s).out_valid <=> \E p \in B : Up(B, p) = N
  <2>1. ~Open(B, N)
    BY <1>2 DEF Open
  <2> QED BY <1>1, <1>3, <1>8, <1>13, <2>1
<1>16. \A p \in B : p \in Stage /\ ~Open(B, p) => p \notin CombOutputs(s).enable
  <2> SUFFICES ASSUME NEW p \in B, p \in Stage, ~Open(B, p)
               PROVE  p \notin CombOutputs(s).enable
    OBVIOUS
  <2>1. ~(p - 1 \in B /\ p - 1 \in Stage /\ Open(B, p - 1))
    <3> SUFFICES ASSUME p - 1 \in Stage, Open(B, p - 1) PROVE FALSE
      OBVIOUS
    <3>1. PICK e \in Place : e \notin B /\ e > p - 1
      BY DEF Open
    <3>2. e > p
      BY <1>2, <3>1
    <3> QED BY <3>1, <3>2 DEF Open
  <2>2. p = 0 => ~Open(B, -1)
    <3> SUFFICES ASSUME p = 0, Open(B, -1) PROVE FALSE
      OBVIOUS
    <3>1. PICK e \in Place : e \notin B /\ e > -1
      BY DEF Open
    <3>2. e > p
      BY <1>2, <3>1
    <3> QED BY <3>1, <3>2 DEF Open
  <2> QED BY <1>7, <1>8, <1>9, <1>11, <2>1, <2>2
<1>17. \A p \in B : p + 1 \in Stage /\ Open(B, p) => p + 1 \in CombOutputs(s).enable
  <2> SUFFICES ASSUME NEW p \in B, p + 1 \in Stage, Open(B, p)
               PROVE  p + 1 \in CombOutputs(s).enable
    OBVIOUS
  <2>1. p \in Place /\ p \in Int /\ (p + 1) - 1 = p
    BY <1>1, <1>2
  <2>2. CASE p \in Stage
    BY <1>8, <1>9, <2>1, <2>2
  <2>3. CASE p = -1
    BY <1>7, <1>8, <1>11, <2>3
  <2>4. p # N
    BY <1>2
  <2> QED BY <1>1, <2>1, <2>2, <2>3, <2>4
<1>18. CombOutputs(s).data_reg =
          IF N - 1 \in B /\ Open(B, N - 1) THEN s.data_out ELSE s.data_reg_d
  BY <1>3, <1>4, <1>8
<1>19. CombOutputs(s).ready_push <=> Open(B, -1)
  BY <1>8, <1>11
<1> QED BY <1>14, <1>15, <1>16, <1>17, <1>18, <1>19 DEF B

-----------------------------------------------------------------------------
(* The update of a clock edge.                                               *)

\* What the processes have written when the edge outside reset is evaluated.
AtClock == Types /\ Parts /\ runnable = {} /\ edge # "none" /\ ~rst

\* The handshakes of the edge, and what the registers take over.
LEMMA EdgeSignals ==
    ASSUME AtClock
    PROVE  /\ cur.ready_push <=> Open(Loaded(cur), -1)
           /\ cur.out_valid <=> \E p \in Loaded(cur) : Up(Loaded(cur), p) = N
           /\ nxt.busy_reg_d = CombOutputs(cur).busy_reg
           /\ cur.enable = CombOutputs(cur).enable
           /\ nxt.data_reg_d = cur.data_reg
           /\ cur.data_reg = CombOutputs(cur).data_reg
           /\ RegFull(nxt) <=> cur.out_valid /\ ~get_ok.done
           /\ Pending(nxt) <=> cfg.cthread_put /\ (put_ok.done \/ (Push(cur) /\ ~cur.ready_push))
           /\ put_ok.done => cur.ready_push
           /\ get_ok.done => cur.out_valid /\ get_ok.data = cur.data_reg
           /\ ~cfg.cthread_put => /\ Push(cur) <=> put_ok.done
                                  /\ put_ok.done => cur.data_in = put_ok.data
           /\ cfg.cthread_put => /\ put_ok.done => nxt.data_in = put_ok.data
                                 /\ ~cur.ready_push => nxt.data_in = cur.data_in
<1>1. /\ cfg \in Configs /\ cur \in Signals /\ nxt \in Signals
      /\ cfg.cthread_put \in BOOLEAN /\ cfg.cthread_get \in BOOLEAN
      /\ put_ok \in Result /\ get_ok \in Result
      /\ put_ok.done \in BOOLEAN /\ get_ok.done \in BOOLEAN
  BY ConfigType DEF AtClock, Types, Result
<1>2. /\ cur.put_req \in BOOLEAN /\ cur.put_req_d \in BOOLEAN /\ cur.get_req \in BOOLEAN
      /\ cur.ready_push \in BOOLEAN /\ cur.out_valid \in BOOLEAN /\ cur.data_reg \in Data
      /\ cur.put_val \in Data
  BY <1>1, SignalTypes
<1>3. /\ Stable /\ SyncStep
      /\ cfg.cthread_put => PutThread
      /\ cfg.cthread_get => GetThread
  BY DEF AtClock, Parts, SyncPart, PutPart, GetPart, KernelPart
<1>4. /\ cur.ready_push = CombOutputs(cur).ready_push
      /\ cur.out_valid = CombOutputs(cur).out_valid
      /\ cur.busy_reg = CombOutputs(cur).busy_reg
      /\ cur.enable = CombOutputs(cur).enable
      /\ cur.reg_full = CombOutputs(cur).reg_full
      /\ cur.data_reg = CombOutputs(cur).data_reg
  BY <1>3 DEF Stable, Shows, Outputs
<1>5. /\ nxt.busy_reg_d = cur.busy_reg /\ nxt.reg_full_d = cur.reg_full
      /\ nxt.data_reg_d = cur.data_reg
      /\ cfg.cthread_put =>
            nxt.put_req_d = IF cur.ready_push THEN cur.put_req ELSE cur.put_req_d
      /\ cfg.cthread_get => nxt.get_req_d = cur.get_req
  BY <1>3 DEF AtClock, SyncStep
<1>6. ASSUME ~cfg.cthread_put
      PROVE  /\ Push(cur) <=> put_ok.done
             /\ put_ok.done => cur.data_in = put_ok.data /\ cur.ready_push
  <2>1. PutMethod(cur) /\ PutWrites(cur)
    BY <1>3, <1>6 DEF Stable
  <2>2. put_ok.done = (cur.put_op = "put" /\ cur.ready_push)
    <3> DEFINE does == cur.put_op = "put" /\ cur.ready_push
    <3>1. does \in BOOLEAN /\ put_ok = Outcome(does, cur.put_val)
      BY <2>1 DEF PutMethod
    <3> HIDE DEF does
    <3>2. put_ok.done = does
      BY <1>2, <3>1, OutcomeType
    <3> QED BY <3>2 DEF does
  <2> QED BY <1>1, <1>2, <1>6, <2>1, <2>2 DEF PutWrites, Push
<1>7. ASSUME cfg.cthread_put
      PROVE  /\ put_ok.done => nxt.data_in = put_ok.data /\ cur.ready_push
             /\ ~cur.ready_push => nxt.data_in = cur.data_in
             /\ nxt.put_req = IF put_ok.done THEN ~cur.put_req ELSE cur.put_req
  BY <1>1, <1>3, <1>7 DEF PutThread, AtClock
<1>8. get_ok.done => cur.out_valid /\ get_ok.data = cur.data_reg
  <2>1. CASE cfg.cthread_get
    BY <1>3, <2>1 DEF GetThread, AtClock
  <2>2. CASE ~cfg.cthread_get
    <3> DEFINE does == cur.get_op = "get" /\ cur.out_valid
    <3>1. does \in BOOLEAN /\ get_ok = Outcome(does, cur.data_reg) /\ (does => cur.out_valid)
      BY <1>3, <2>2 DEF Stable, GetMethod
    <3> HIDE DEF does
    <3> QED BY <1>2, <3>1, OutcomeType
  <2> QED BY <1>1, <2>1, <2>2
<1>9. Pending(nxt) <=> cfg.cthread_put /\ (put_ok.done \/ (Push(cur) /\ ~cur.ready_push))
  BY <1>1, <1>2, <1>5, <1>7 DEF Pending, Push
<1>10. RegFull(nxt) <=> cur.out_valid /\ ~get_ok.done
  <2>1. cur.reg_full = (cur.out_valid /\ ~(~cfg.cthread_get /\ Pop(cur)))
    BY <1>4, Comb
  <2>2. CASE cfg.cthread_get
    <3>1. nxt.get_req = IF get_ok.done THEN ~cur.get_req ELSE cur.get_req
      BY <1>3, <2>2 DEF GetThread, AtClock
    <3>2. Pop(nxt) <=> get_ok.done
      BY <1>1, <1>2, <1>5, <2>2, <3>1 DEF Pop
    <3> QED BY <1>1, <1>2, <1>5, <2>1, <2>2, <3>2 DEF RegFull
  <2>3. CASE ~cfg.cthread_get
    <3>1. Pop(cur) = get_ok.done
      BY <1>3, <2>3 DEF Stable, Pop
    <3> QED BY <1>1, <1>2, <1>5, <2>1, <2>3, <3>1 DEF RegFull
  <2> QED BY <1>1, <2>2, <2>3
<1>11. /\ cur.ready_push <=> Open(Loaded(cur), -1)
       /\ cur.out_valid <=> \E p \in Loaded(cur) : Up(Loaded(cur), p) = N
  BY <1>1, <1>4, ShiftIs
<1> QED BY <1>1, <1>4, <1>5, <1>6, <1>7, <1>8, <1>9, <1>10, <1>11

\* The places taken after the edge.
LEMMA EdgeTaken ==
    ASSUME AtClock
    PROVE  /\ Taken(nxt) \subseteq Place
           /\ \A i \in Place : i \in Taken(nxt) <=>
                 \/ (\E p \in Loaded(cur) : Up(Loaded(cur), p) = i) /\ ~(i = N /\ get_ok.done)
                 \/ i = -1 /\ cfg.cthread_put /\ put_ok.done
<1> DEFINE B == Loaded(cur)
<1>1. /\ cfg \in Configs /\ cur \in Signals /\ nxt \in Signals /\ N \in Nat \ {0}
      /\ cfg.cthread_put \in BOOLEAN
  BY StagesAssumption, ConfigType DEF AtClock, Types
<1>2. /\ Taken(nxt) \subseteq Place
      /\ \A i \in Stage : i \in Taken(nxt) <=> i \in nxt.busy_reg_d
      /\ N \in Taken(nxt) <=> RegFull(nxt)
      /\ -1 \in Taken(nxt) <=> Pending(nxt)
      /\ \A i \in Place : i = -1 \/ i = N \/ i \in Stage
      /\ -1 \notin Stage /\ N \notin Stage /\ -1 \in Place /\ N # -1
  <2>1. Taken(nxt) \subseteq Loaded(nxt) /\ Loaded(nxt) \subseteq Place
    BY <1>1, LoadedIs
  <2>2. N # -1
    BY <1>1
  <2> QED BY <1>1, <2>1, <2>2, LoadedIs
<1>3. B \subseteq Place /\ (-1 \in B <=> Push(cur))
  BY <1>1, LoadedIs
<1>4. \A i \in Stage : i \in nxt.busy_reg_d <=> \E p \in B : Up(B, p) = i
  BY <1>1, EdgeSignals, ShiftIs
<1>5. /\ cur.ready_push <=> Open(B, -1)
      /\ RegFull(nxt) <=> (\E p \in B : Up(B, p) = N) /\ ~get_ok.done
      /\ Pending(nxt) <=> cfg.cthread_put /\ (put_ok.done \/ (-1 \in B /\ ~Open(B, -1)))
      /\ ~cfg.cthread_put /\ -1 \in B => Open(B, -1)
  BY <1>3, EdgeSignals
<1>6. (\E p \in B : Up(B, p) = -1) <=> -1 \in B /\ ~Open(B, -1)
  <2>1. ASSUME NEW p \in B, Up(B, p) = -1 PROVE p = -1 /\ ~Open(B, -1)
    BY <1>1, <1>3, <2>1 DEF Up, Place
  <2> QED BY <2>1, <1>2, UpTypes
<1> HIDE DEF B
<1>7. ASSUME NEW i \in Place
      PROVE  i \in Taken(nxt) <=>
                 \/ (\E p \in B : Up(B, p) = i) /\ ~(i = N /\ get_ok.done)
                 \/ i = -1 /\ cfg.cthread_put /\ put_ok.done
  <2>1. CASE i \in Stage
    BY <1>2, <1>4, <2>1
  <2>2. CASE i = N
    BY <1>2, <1>5, <2>2
  <2>3. CASE i = -1
    BY <1>1, <1>2, <1>5, <1>6, <2>3
  <2> QED BY <1>2, <2>1, <2>2, <2>3
<1> QED BY <1>2, <1>7 DEF B

\* Every word keeps its value on the way.
LEMMA EdgeWord ==
    ASSUME AtClock, NEW r \in [Stage -> Data], PlPart(r),
           N - 1 \in cur.busy_reg_d => cur.data_out = r[N - 1],
           NEW p \in Loaded(cur)
    PROVE  Word(nxt, regs, Up(Loaded(cur), p)) = Word(cur, r, p)
<1> DEFINE B == Loaded(cur)
           u == Up(B, p)
<1> SUFFICES Word(nxt, regs, u) = Word(cur, r, p)
  OBVIOUS
<1>1. /\ cfg \in Configs /\ cur \in Signals /\ N \in Nat \ {0} /\ cfg.cthread_put \in BOOLEAN
  BY StagesAssumption, ConfigType DEF AtClock, Types
<1>2. /\ B \subseteq Place /\ (-1 \in B <=> Push(cur))
      /\ \A i \in Stage : i \in B <=> i \in cur.busy_reg_d
      /\ \A i \in Place : i = -1 \/ i = N \/ i \in Stage
  BY <1>1, LoadedIs
<1>3. /\ p \in Place /\ u \in Place /\ Stage = 0 .. N - 1 /\ Place = -1 .. N
      /\ u = IF Open(B, p) THEN p + 1 ELSE p
  BY <1>2, UpTypes DEF Stage, Place, Up
<1>4. regs = Shift(cur, r)
  BY DEF AtClock, PlPart
<1>5. /\ \A x \in B : x \in Stage /\ ~Open(B, x) => x \notin cur.enable
      /\ \A x \in B : x + 1 \in Stage /\ Open(B, x) => x + 1 \in cur.enable
      /\ cur.data_reg = IF N - 1 \in B /\ Open(B, N - 1) THEN cur.data_out ELSE cur.data_reg_d
  BY <1>1, EdgeSignals, ShiftIs
<1>6. /\ nxt.data_reg_d = cur.data_reg
      /\ cur.ready_push <=> Open(B, -1)
      /\ ~cfg.cthread_put /\ Push(cur) => cur.ready_push
      /\ cfg.cthread_put /\ ~cur.ready_push => nxt.data_in = cur.data_in
  BY EdgeSignals
<1> HIDE DEF B, u
<1>7. CASE u \in Stage
  <2>1. Word(nxt, regs, u) = regs[u]
    BY <1>1, <1>3, <1>7 DEF Word
  <2>2. CASE Open(B, p)
    <3>1. u = p + 1 /\ u \in cur.enable
      BY <1>3, <1>5, <1>7, <2>2 DEF B
    <3>2. regs[u] = IF u = 0 THEN cur.data_in ELSE r[u - 1]
      BY <1>4, <1>7, <3>1 DEF Shift
    <3>3. CASE p = -1
      BY <2>1, <3>1, <3>2, <3>3 DEF Word
    <3>4. CASE p # -1
      <4>1. u # 0 /\ u - 1 = p /\ p # N
        BY <1>1, <1>3, <1>7, <3>1, <3>4
      <4> QED BY <2>1, <3>2, <3>4, <4>1 DEF Word
    <3> QED BY <3>3, <3>4
  <2>3. CASE ~Open(B, p)
    <3>1. u = p /\ u \notin cur.enable
      BY <1>3, <1>5, <1>7, <2>3 DEF B
    <3>2. regs[u] = r[u]
      BY <1>4, <1>7, <3>1 DEF Shift
    <3>3. p # -1 /\ p # N
      BY <1>1, <1>3, <1>7, <3>1
    <3> QED BY <2>1, <3>1, <3>2, <3>3 DEF Word
  <2> QED BY <2>2, <2>3
<1>8. CASE u = N
  <2>1. Word(nxt, regs, u) = cur.data_reg
    BY <1>1, <1>6, <1>8 DEF Word
  <2>2. CASE Open(B, p)
    <3>1. p = N - 1 /\ p \in B /\ p \in Stage /\ p # -1 /\ p # N
      BY <1>1, <1>3, <1>8, <2>2 DEF B
    <3>2. cur.data_reg = cur.data_out /\ cur.data_out = r[p]
      BY <1>2, <1>5, <2>2, <3>1
    <3> QED BY <2>1, <3>1, <3>2 DEF Word
  <2>3. CASE ~Open(B, p)
    <3>1. p = N /\ p \in B /\ p # -1
      BY <1>1, <1>3, <1>8, <2>3 DEF B
    <3>2. ~Open(B, N - 1)
      BY <1>1, <1>3, <3>1 DEF Open
    <3> QED BY <1>5, <2>1, <3>1, <3>2 DEF Word
  <2> QED BY <2>2, <2>3
<1>9. CASE u = -1
  <2>1. p = -1 /\ ~Open(B, -1) /\ p \in B
    BY <1>3, <1>9 DEF B
  <2>2. nxt.data_in = cur.data_in
    BY <1>1, <1>2, <1>6, <2>1
  <2> QED BY <1>9, <2>1, <2>2 DEF Word
<1> QED BY <1>2, <1>3, <1>7, <1>8, <1>9

\* No word falls behind: one that moves keeps up with its age, one that is held
\* up has every stage ahead of it taken.
LEMMA EdgeOnTime ==
    ASSUME AtClock, NEW p \in Place, NEW a \in 0 .. N, OnTime(cur, p, a)
    PROVE  OnTime(nxt, Up(Loaded(cur), p), IF a < N THEN a + 1 ELSE N)
<1> DEFINE B == Loaded(cur)
           c == IF a < N THEN a + 1 ELSE N
<1> SUFFICES OnTime(nxt, Up(B, p), c)
  OBVIOUS
<1>1. /\ cfg \in Configs /\ cur \in Signals /\ N \in Nat \ {0}
      /\ Delay \in {0, 1} /\ Stage = 0 .. N - 1 /\ Place = -1 .. N
  BY StagesAssumption, ConfigType DEF AtClock, Types, Stage, Place
<1>2. /\ \A i \in Stage : i \in B <=> i \in cur.busy_reg_d
      /\ \A i \in Stage : i \in nxt.busy_reg_d <=> \E x \in B : Up(B, x) = i
  BY <1>1, LoadedIs, EdgeSignals, ShiftIs
<1>3. c \in 0 .. N /\ c >= a /\ (a < N => c = a + 1) /\ (a = N => c = N)
  BY <1>1
<1> HIDE DEF B, c
<1>4. CASE Open(B, p)
  <2>1. Up(B, p) = p + 1 /\ p < N
    BY <1>4, UpTypes
  <2>2. CASE p + 1 = N
    <3>1. a >= N - 1 + Delay
      BY <1>1, <2>1, <2>2 DEF OnTime
    <3>2. c >= N - 1 + Delay
      BY <1>1, <1>3, <3>1
    <3> QED BY <1>1, <2>1, <2>2, <3>2 DEF OnTime
  <2>3. CASE p + 1 # N
    <3>1. p # N /\ p + 1 # N /\ p + 1 < N
      BY <1>1, <2>1, <2>3
    <3>2. /\ a >= p + Delay
          /\ a = p + Delay \/ \A i \in Stage : i > p => i \in cur.busy_reg_d
      BY <3>1 DEF OnTime
    <3>3. c >= p + 1 + Delay
      BY <1>1, <1>3, <3>1, <3>2
    <3>4. a = p + Delay => c = p + 1 + Delay
      BY <1>1, <1>3, <3>1
    <3>5. ASSUME \A i \in Stage : i > p => i \in cur.busy_reg_d
          PROVE  \A i \in Stage : i > p + 1 => i \in nxt.busy_reg_d
      <4>1. N \notin B
        <5>1. PICK e \in Place : e \notin B /\ e > p
          BY <1>4 DEF Open
        <5>2. e \notin Stage
          BY <1>2, <3>5, <5>1
        <5> QED BY <1>1, <5>1, <5>2
      <4> SUFFICES ASSUME NEW i \in Stage, i > p + 1
                   PROVE  \E x \in B : Up(B, x) = i
        BY <1>2
      <4>2. i - 1 \in Stage /\ i - 1 > p /\ (i - 1) + 1 = i /\ i - 1 < N /\ i - 1 \in Place
        BY <1>1
      <4>3. i - 1 \in B
        BY <1>2, <3>5, <4>2
      <4>4. Up(B, i - 1) = i
        BY <4>1, <4>2, UpTypes
      <4> QED BY <4>3, <4>4
    <3>6. OnTime(nxt, p + 1, c)
      BY <1>1, <3>1, <3>2, <3>3, <3>4, <3>5 DEF OnTime
    <3> QED BY <2>1, <3>6
  <2> QED BY <2>2, <2>3
<1>5. CASE ~Open(B, p)
  <2>1. Up(B, p) = p /\ \A e \in Place : e > p => e \in B
    BY <1>5, UpTypes
  <2>2. CASE p = N
    BY <1>1, <1>3, <2>1, <2>2 DEF OnTime
  <2>3. CASE p # N
    <3>1. c >= p + Delay
      BY <1>1, <1>3, <2>3 DEF OnTime
    <3>2. \A i \in Stage : i > p => i \in nxt.busy_reg_d
      <4> SUFFICES ASSUME NEW i \in Stage, i > p PROVE \E x \in B : Up(B, x) = i
        BY <1>2
      <4>1. i \in Place /\ i \in B
        BY <1>1, <2>1
      <4>2. ~Open(B, i)
        BY <1>1, <2>1 DEF Open
      <4> QED BY <4>1, <4>2, UpTypes
    <3>3. OnTime(nxt, p, c)
      BY <2>3, <3>1, <3>2 DEF OnTime
    <3> QED BY <2>1, <3>3
  <2> QED BY <2>2, <2>3
<1> QED BY <1>4, <1>5

-----------------------------------------------------------------------------
(* The queue at a clock edge.                                                *)

\* A put appends, a get drops the first element.
LEMMA AppendTail ==
    ASSUME NEW S, NEW x \in Seq(S), NEW d \in S
    PROVE  /\ Append(x, d) \in Seq(S) /\ Len(Append(x, d)) = Len(x) + 1
           /\ \A k \in 1 .. Len(x) : Append(x, d)[k] = x[k]
           /\ Append(x, d)[Len(x) + 1] = d
           /\ Len(x) # 0 => /\ Tail(x) \in Seq(S) /\ Len(Tail(x)) = Len(x) - 1
                            /\ \A k \in 1 .. Len(x) - 1 : Tail(x)[k] = x[k + 1]
<1>1. /\ Append(x, d) \in Seq(S) /\ Len(Append(x, d)) = Len(x) + 1
      /\ \A k \in 1 .. Len(x) : Append(x, d)[k] = x[k]
      /\ Append(x, d)[Len(x) + 1] = d
  BY AppendProperties
<1>2. ASSUME Len(x) # 0
      PROVE  /\ Tail(x) \in Seq(S) /\ Len(Tail(x)) = Len(x) - 1
             /\ \A k \in 1 .. Len(x) - 1 : Tail(x)[k] = x[k + 1]
  <2>1. x # <<>>
    BY <1>2
  <2> QED BY <2>1, HeadTailProperties
<1> QED BY <1>1, <1>2

Offered == IF put_ok.done THEN Append(q, put_ok.data) ELSE q
OfferedAges == IF put_ok.done THEN Append(Older, 0) ELSE Older
Committed == IF get_ok.done THEN Tail(Offered) ELSE Offered
CommittedAges == IF get_ok.done THEN Tail(OfferedAges) ELSE OfferedAges
Puts == IF put_ok.done THEN 1 ELSE 0
Gets == IF get_ok.done THEN 1 ELSE 0

\* Index by index: what the edge commits.
LEMMA CommitIs ==
    ASSUME History, put_ok \in Result, get_ok \in Result, get_ok.done => Len(q) # 0
    PROVE  /\ Puts \in {0, 1} /\ Gets \in {0, 1} /\ (Puts = 1 <=> put_ok.done)
           /\ (Gets = 1 <=> get_ok.done) /\ Len(q) \in Nat
           /\ Offered # <<>> \/ ~get_ok.done
           /\ Committed \in Seq(Data) /\ CommittedAges \in Seq(0 .. N)
           /\ Len(Committed) = Len(q) + Puts - Gets
           /\ Len(CommittedAges) = Len(q) + Puts - Gets
           /\ \A j \in 1 .. Len(q) + Puts - Gets :
                 /\ j + Gets \in 1 .. Len(q) + Puts
                 /\ j + Gets <= Len(q) =>
                       /\ Committed[j] = q[j + Gets]
                       /\ CommittedAges[j] = Older[j + Gets]
                 /\ j + Gets > Len(q) =>
                       /\ put_ok.done /\ j + Gets = Len(q) + 1
                       /\ Committed[j] = put_ok.data /\ CommittedAges[j] = 0
<1> DEFINE m == Len(q)
           p == Puts
           g == Gets
<1>1. /\ q \in Seq(Data) /\ age \in Seq(0 .. N) /\ Len(age) = m /\ m \in Nat
      /\ put_ok.data \in Data /\ put_ok.done \in BOOLEAN /\ get_ok.done \in BOOLEAN
      /\ N \in Nat \ {0} /\ 0 \in 0 .. N
  BY StagesAssumption DEF History, Result
<1>2. Older \in Seq(0 .. N) /\ Len(Older) = m
  <2>1. DOMAIN age = 1 .. m /\ age \in [1 .. m -> 0 .. N]
    BY <1>1
  <2>2. Older \in [1 .. m -> 0 .. N]
    BY <1>1, <2>1 DEF Older
  <2>3. Older \in Seq(0 .. N)
    BY <1>1, <2>2, SeqDef
  <2>4. 1 .. Len(Older) = 1 .. m /\ Len(Older) \in Nat
    BY <2>2, <2>3, LenProperties
  <2> QED BY <1>1, <2>3, <2>4
<1>3. /\ p \in {0, 1} /\ g \in {0, 1} /\ (p = 1 <=> put_ok.done) /\ (g = 1 <=> get_ok.done)
      /\ g = 1 => m # 0
  BY <1>1 DEF Puts, Gets
<1> DEFINE x == Offered
           y == OfferedAges
<1>4. /\ x \in Seq(Data) /\ Len(x) = m + p
      /\ \A k \in 1 .. m : x[k] = q[k]
      /\ p = 1 => x[m + 1] = put_ok.data
  <2>1. CASE put_ok.done
    <3>1. x = Append(q, put_ok.data) /\ p = 1
      BY <2>1 DEF Offered, Puts
    <3> QED BY <1>1, <3>1, AppendTail
  <2>2. CASE ~put_ok.done
    BY <1>1, <2>2 DEF Offered, Puts
  <2> QED BY <1>1, <2>1, <2>2
<1>5. /\ y \in Seq(0 .. N) /\ Len(y) = m + p
      /\ \A k \in 1 .. m : y[k] = Older[k]
      /\ p = 1 => y[m + 1] = 0
  <2>1. CASE put_ok.done
    <3>1. y = Append(Older, 0) /\ p = 1
      BY <2>1 DEF OfferedAges, Puts
    <3> HIDE DEF y
    <3> QED BY <1>1, <1>2, <3>1, AppendTail
  <2>2. CASE ~put_ok.done
    BY <1>1, <1>2, <2>2 DEF OfferedAges, Puts
  <2> QED BY <1>1, <2>1, <2>2
<1>6. x # <<>> \/ ~get_ok.done
  BY <1>1, <1>3, <1>4
<1>7. /\ Committed = IF g = 1 THEN Tail(x) ELSE x
      /\ CommittedAges = IF g = 1 THEN Tail(y) ELSE y
  BY <1>3 DEF Committed, CommittedAges
<1> HIDE DEF x, y, p, g, m
<1>8. /\ Committed \in Seq(Data) /\ Len(Committed) = m + p - g
      /\ \A j \in 1 .. m + p - g : Committed[j] = x[j + g]
  <2>1. CASE g = 1
    <3>1. Len(x) # 0 /\ Len(x) = m + p /\ m + p \in Nat
      BY <1>1, <1>3, <1>4, <2>1
    <3>2. /\ Tail(x) \in Seq(Data) /\ Len(Tail(x)) = Len(x) - 1
          /\ \A k \in 1 .. Len(x) - 1 : Tail(x)[k] = x[k + 1]
      BY <1>1, <1>4, <3>1, AppendTail
    <3>3. m + p - g = Len(x) - 1
      BY <1>1, <1>3, <2>1, <3>1
    <3> QED BY <1>7, <2>1, <3>2, <3>3
  <2>2. CASE g = 0
    <3>1. m + p - g = m + p /\ \A j \in 1 .. m + p : j + g = j
      BY <1>1, <1>3, <2>2
    <3> QED BY <1>4, <1>7, <2>2, <3>1
  <2> QED BY <1>3, <2>1, <2>2
<1>9. /\ CommittedAges \in Seq(0 .. N) /\ Len(CommittedAges) = m + p - g
      /\ \A j \in 1 .. m + p - g : CommittedAges[j] = y[j + g]
  <2>1. CASE g = 1
    <3>1. Len(y) # 0 /\ Len(y) = m + p /\ m + p \in Nat
      BY <1>1, <1>3, <1>5, <2>1
    <3>2. /\ Tail(y) \in Seq(0 .. N) /\ Len(Tail(y)) = Len(y) - 1
          /\ \A k \in 1 .. Len(y) - 1 : Tail(y)[k] = y[k + 1]
      BY <1>1, <1>5, <3>1, AppendTail
    <3>3. m + p - g = Len(y) - 1
      BY <1>1, <1>3, <2>1, <3>1
    <3> QED BY <1>7, <2>1, <3>2, <3>3
  <2>2. CASE g = 0
    <3>1. m + p - g = m + p /\ \A j \in 1 .. m + p : j + g = j
      BY <1>1, <1>3, <2>2
    <3> QED BY <1>5, <1>7, <2>2, <3>1
  <2> QED BY <1>3, <2>1, <2>2
<1>10. ASSUME NEW j \in 1 .. m + p - g
       PROVE  /\ j + g \in 1 .. m + p
              /\ j + g <= m => /\ Committed[j] = q[j + g]
                               /\ CommittedAges[j] = Older[j + g]
              /\ j + g > m => /\ put_ok.done /\ j + g = m + 1
                              /\ Committed[j] = put_ok.data /\ CommittedAges[j] = 0
  <2>1. /\ j + g \in 1 .. m + p /\ (j + g <= m => j + g \in 1 .. m)
        /\ j + g > m => p = 1 /\ j + g = m + 1
    BY <1>1, <1>3
  <2> QED BY <1>3, <1>4, <1>5, <1>8, <1>9, <2>1
<1> QED BY <1>1, <1>3, <1>6, <1>8, <1>9, <1>10 DEF p, g, m, x

\* Where the words are before the edge.
LEMMA LoadedWords ==
    ASSUME AtClock, History, NEW pos \in [1 .. Len(q) -> Place], InOrder(cur, pos, Len(q))
    PROVE  /\ \A j \in 1 .. Len(q) : pos[j] \in Loaded(cur) /\ pos[j] \in Place
           /\ \A i \in Loaded(cur) :
                 \/ \E j \in 1 .. Len(q) : pos[j] = i
                 \/ i = -1 /\ ~cfg.cthread_put /\ put_ok.done
           /\ ~cfg.cthread_put => \A j \in 1 .. Len(q) : pos[j] # -1
           /\ put_ok.done /\ ~cfg.cthread_put => -1 \in Loaded(cur)
           /\ put_ok.done => \A j \in 1 .. Len(q) : Up(Loaded(cur), pos[j]) # -1
           /\ cur.out_valid => Len(q) # 0 /\ Up(Loaded(cur), pos[1]) = N
           /\ ~cur.out_valid => \A j \in 1 .. Len(q) : Up(Loaded(cur), pos[j]) # N
<1> DEFINE B == Loaded(cur)
           m == Len(q)
<1>1. /\ cfg \in Configs /\ cur \in Signals /\ N \in Nat \ {0} /\ m \in Nat
      /\ cfg.cthread_put \in BOOLEAN /\ Place = -1 .. N
  BY StagesAssumption, ConfigType DEF AtClock, Types, History, Place
<1>2. /\ B \subseteq Place /\ Taken(cur) \subseteq B
      /\ \A i \in Stage : i \in B <=> i \in Taken(cur)
      /\ N \in B <=> N \in Taken(cur)
      /\ -1 \in B <=> Push(cur)
      /\ -1 \in Taken(cur) <=> Pending(cur)
      /\ \A i \in Place : i = -1 \/ i = N \/ i \in Stage
  BY <1>1, LoadedIs
<1>3. /\ Taken(cur) = {pos[j] : j \in 1 .. m}
      /\ \A i, j \in 1 .. m : i < j => pos[i] > pos[j]
  BY DEF InOrder
<1>4. /\ ~cfg.cthread_put => (Push(cur) <=> put_ok.done)
      /\ cur.ready_push <=> Open(B, -1)
      /\ put_ok.done => cur.ready_push
      /\ cur.out_valid <=> \E i \in B : Up(B, i) = N
  BY EdgeSignals
<1>5. Pending(cur) <=> cfg.cthread_put /\ Push(cur)
  BY DEF Pending
<1> HIDE DEF B, m
<1>6. \A j \in 1 .. m : pos[j] \in B /\ pos[j] \in Place
  BY <1>2, <1>3
<1>7. \A i \in B : \/ \E j \in 1 .. m : pos[j] = i
                   \/ i = -1 /\ ~cfg.cthread_put /\ put_ok.done
  BY <1>1, <1>2, <1>3, <1>4, <1>5
<1>8. ~cfg.cthread_put => \A j \in 1 .. m : pos[j] # -1
  BY <1>2, <1>3, <1>5
<1>9. put_ok.done => \A j \in 1 .. m : Up(B, pos[j]) # -1
  <2> SUFFICES ASSUME put_ok.done, NEW j \in 1 .. m PROVE Up(B, pos[j]) # -1
    OBVIOUS
  <2>1. Open(B, -1) /\ pos[j] \in -1 .. N
    BY <1>1, <1>4, <1>6
  <2> QED BY <2>1 DEF Up
<1>10. cur.out_valid => m # 0 /\ Up(B, pos[1]) = N
  <2> SUFFICES ASSUME cur.out_valid PROVE m # 0 /\ Up(B, pos[1]) = N
    OBVIOUS
  <2>1. PICK i \in B : Up(B, i) = N
    BY <1>4
  <2>2. i # -1
    BY <1>1, <2>1 DEF Up
  <2>3. PICK j \in 1 .. m : pos[j] = i
    BY <1>7, <2>1, <2>2
  <2>4. m # 0 /\ 1 \in 1 .. m
    BY <1>1
  <2>5. pos[1] \in Place /\ i \in Place
    BY <1>2, <1>6, <2>1, <2>4
  <2>6. j = 1
    <3> SUFFICES ASSUME 1 < j PROVE FALSE
      OBVIOUS
    <3>1. i < pos[1] /\ pos[1] \in B
      BY <1>3, <1>6, <2>3, <2>4
    <3>2. Up(B, i) < Up(B, pos[1]) /\ Up(B, pos[1]) \in Place
      BY <2>5, <3>1, UpInOrder, UpTypes
    <3> QED BY <1>1, <2>1, <3>2
  <2> QED BY <2>1, <2>3, <2>4, <2>6
<1>11. ~cur.out_valid => \A j \in 1 .. m : Up(B, pos[j]) # N
  BY <1>4, <1>6
<1>12. put_ok.done /\ ~cfg.cthread_put => -1 \in B
  BY <1>2, <1>4
<1> QED BY <1>6, <1>7, <1>8, <1>9, <1>10, <1>11, <1>12 DEF B, m

\* The edge commits a put and a get of the queue: the words are where the shift
\* left them, and a get was given the oldest.
NewPlace == IF cfg.cthread_put THEN -1 ELSE 0
LEMMA EdgeCommits ==
    ASSUME AtClock, History, NEW r \in [Stage -> Data], PlPart(r), Holds(cur, r)
    PROVE  /\ get_ok.done => Len(q) # 0 /\ get_ok.data = q[1]
           /\ Committed \in Seq(Data) /\ CommittedAges \in Seq(0 .. N)
           /\ Len(CommittedAges) = Len(Committed)
           /\ N - 1 \in nxt.busy_reg_d => nxt.data_out = regs[N - 1]
           /\ \E pos \in [1 .. Len(Committed) -> Place] :
                 /\ InOrder(nxt, pos, Len(Committed))
                 /\ Carried(nxt, regs, pos, Committed)
                 /\ Aged(nxt, pos, CommittedAges)
<1>1. PICK pos \in [1 .. Len(q) -> Place] :
         InOrder(cur, pos, Len(q)) /\ Carried(cur, r, pos, q) /\ Aged(cur, pos, age)
  BY DEF Holds
<1> DEFINE B == Loaded(cur)
           m == Len(q)
           p == Puts
           g == Gets
           n == m + p - g
<1>2. /\ cfg \in Configs /\ cur \in Signals /\ nxt \in Signals /\ N \in Nat \ {0} /\ m \in Nat
      /\ cfg.cthread_put \in BOOLEAN /\ Place = -1 .. N /\ Stage = 0 .. N - 1
      /\ put_ok \in Result /\ get_ok \in Result
      /\ put_ok.done \in BOOLEAN /\ get_ok.done \in BOOLEAN
      /\ Delay = (IF cfg.cthread_put THEN 1 ELSE 0)
      /\ q \in Seq(Data) /\ age \in Seq(0 .. N) /\ Len(age) = m
  BY StagesAssumption, ConfigType DEF AtClock, Types, History, Place, Stage, Result
<1>3. /\ B \subseteq Place
      /\ \A j \in 1 .. m : pos[j] \in B /\ pos[j] \in Place
      /\ \A i \in B : \/ \E j \in 1 .. m : pos[j] = i
                      \/ i = -1 /\ ~cfg.cthread_put /\ put_ok.done
      /\ ~cfg.cthread_put => \A j \in 1 .. m : pos[j] # -1
      /\ put_ok.done /\ ~cfg.cthread_put => -1 \in B
      /\ put_ok.done => \A j \in 1 .. m : Up(B, pos[j]) # -1
      /\ cur.out_valid => m # 0 /\ Up(B, pos[1]) = N
  BY <1>1, <1>2, LoadedWords, LoadedIs
<1>4. /\ put_ok.done => cur.ready_push
      /\ cur.ready_push <=> Open(B, -1)
      /\ get_ok.done => cur.out_valid /\ get_ok.data = cur.data_reg
      /\ nxt.data_reg_d = cur.data_reg
      /\ ~cfg.cthread_put /\ put_ok.done => cur.data_in = put_ok.data
      /\ cfg.cthread_put /\ put_ok.done => nxt.data_in = put_ok.data
  BY EdgeSignals
<1>5. \A i, j \in 1 .. m : i < j => pos[i] > pos[j]
  BY <1>1 DEF InOrder
<1>6. N - 1 \in cur.busy_reg_d => cur.data_out = r[N - 1]
  BY DEF Holds
<1>7. \A x \in B : Word(nxt, regs, Up(B, x)) = Word(cur, r, x)
  BY <1>6, EdgeWord
<1>8. get_ok.done => m # 0
  BY <1>3, <1>4
<1>9. /\ p \in {0, 1} /\ g \in {0, 1} /\ (p = 1 <=> put_ok.done) /\ (g = 1 <=> get_ok.done)
      /\ Committed \in Seq(Data) /\ CommittedAges \in Seq(0 .. N)
      /\ Len(Committed) = n /\ Len(CommittedAges) = n
      /\ \A j \in 1 .. n :
            /\ j + g \in 1 .. m + p
            /\ j + g <= m => Committed[j] = q[j + g] /\ CommittedAges[j] = Older[j + g]
            /\ j + g > m => /\ put_ok.done /\ j + g = m + 1
                            /\ Committed[j] = put_ok.data /\ CommittedAges[j] = 0
  BY <1>2, <1>8, CommitIs
<1>10. put_ok.done /\ ~cfg.cthread_put => Up(B, -1) = 0
  BY <1>4 DEF Up
<1>11. \A i \in Place : i \in Taken(nxt) <=>
           \/ (\E x \in B : Up(B, x) = i) /\ ~(i = N /\ get_ok.done)
           \/ i = -1 /\ cfg.cthread_put /\ put_ok.done
  BY EdgeTaken
<1> DEFINE new == [j \in 1 .. n |-> IF j + g <= m THEN Up(B, pos[j + g]) ELSE NewPlace]
<1> HIDE DEF B, m, p, g
<1>12. n \in Int /\ \A j \in 1 .. n : j \in Int /\ j >= 1 /\ j + g \in Int /\ j + g >= 1
                                       /\ (j + g <= m => j + g \in 1 .. m)
  BY <1>2, <1>9
<1>13. \A j \in 1 .. n :
          /\ new[j] = IF j + g <= m THEN Up(B, pos[j + g]) ELSE NewPlace
          /\ new[j] \in Place
          /\ ~(j + g <= m) => /\ put_ok.done /\ new[j] = NewPlace
                              /\ Committed[j] = put_ok.data /\ CommittedAges[j] = 0
  <2> SUFFICES ASSUME NEW j \in 1 .. n
               PROVE  /\ new[j] = IF j + g <= m THEN Up(B, pos[j + g]) ELSE NewPlace
                      /\ new[j] \in Place
                      /\ ~(j + g <= m) => /\ put_ok.done /\ new[j] = NewPlace
                                          /\ Committed[j] = put_ok.data
                                          /\ CommittedAges[j] = 0
    OBVIOUS
  <2>1. NewPlace \in Place
    BY <1>2 DEF NewPlace
  <2>2. new[j] = IF j + g <= m THEN Up(B, pos[j + g]) ELSE NewPlace
    OBVIOUS
  <2> HIDE DEF new
  <2>3. new[j] \in Place
    BY <1>3, <1>12, <2>1, <2>2, UpTypes
  <2>4. ~(j + g <= m) => j + g > m
    BY <1>2, <1>12
  <2> QED BY <1>9, <2>2, <2>3, <2>4
<1>14. new \in [1 .. n -> Place]
  BY <1>13
<1>15. \A k \in 1 .. m : Up(B, pos[k]) \in Place
  BY <1>3, UpTypes
<1>16. \A k, l \in 1 .. m : k < l => Up(B, pos[k]) > Up(B, pos[l])
  <2> SUFFICES ASSUME NEW k \in 1 .. m, NEW l \in 1 .. m, k < l
               PROVE  Up(B, pos[k]) > Up(B, pos[l])
    OBVIOUS
  <2>1. /\ pos[l] < pos[k] /\ pos[k] \in B /\ pos[k] \in Place /\ pos[l] \in Place
        /\ Up(B, pos[k]) \in Place /\ Up(B, pos[l]) \in Place
    BY <1>2, <1>3, <1>5, <1>15
  <2>2. Up(B, pos[l]) < Up(B, pos[k])
    BY <2>1, UpInOrder
  <2> QED BY <1>2, <2>1, <2>2
<1>17. put_ok.done => \A k \in 1 .. m : Up(B, pos[k]) > NewPlace
  <2> SUFFICES ASSUME put_ok.done, NEW k \in 1 .. m PROVE Up(B, pos[k]) > NewPlace
    OBVIOUS
  <2>1. CASE cfg.cthread_put
    BY <1>2, <1>3, <1>15, <2>1 DEF NewPlace
  <2>2. CASE ~cfg.cthread_put
    <3>1. pos[k] \in B /\ pos[k] \in Place /\ -1 < pos[k] /\ -1 \in Place
      BY <1>2, <1>3, <2>2
    <3>2. Up(B, -1) < Up(B, pos[k])
      BY <3>1, UpInOrder
    <3> QED BY <1>2, <1>10, <1>15, <2>2, <3>2 DEF NewPlace
  <2> QED BY <1>2, <2>1, <2>2
<1>18. \A i, j \in 1 .. n : i < j => new[i] > new[j]
  <2> SUFFICES ASSUME NEW i \in 1 .. n, NEW j \in 1 .. n, i < j PROVE new[i] > new[j]
    OBVIOUS
  <2>1. i + g < j + g /\ j + g \in 1 .. m + p /\ (j + g > m => put_ok.done /\ j + g = m + 1)
    BY <1>9, <1>12
  <2>2. i + g <= m
    BY <1>2, <1>9, <1>12, <2>1
  <2>3. i + g \in 1 .. m /\ new[i] = Up(B, pos[i + g])
    BY <1>12, <1>13, <2>2
  <2>4. CASE j + g <= m
    <3>1. j + g \in 1 .. m /\ new[j] = Up(B, pos[j + g])
      BY <1>12, <1>13, <2>4
    <3> QED BY <1>16, <2>1, <2>3, <3>1
  <2>5. CASE ~(j + g <= m)
    <3>1. new[j] = NewPlace /\ put_ok.done
      BY <1>13, <2>5
    <3> QED BY <1>17, <2>3, <3>1
  <2> QED BY <2>4, <2>5
<1> HIDE DEF new, n
<1>19. ASSUME NEW j \in 1 .. n PROVE new[j] \in Taken(nxt)
  <2>1. CASE j + g <= m
    <3>1. j + g \in 1 .. m /\ new[j] = Up(B, pos[j + g]) /\ new[j] \in Place
      BY <1>12, <1>13, <1>19, <2>1
    <3>2. ~(new[j] = N /\ get_ok.done)
      <4> SUFFICES ASSUME get_ok.done PROVE new[j] # N
        OBVIOUS
      <4>1. g = 1 /\ 1 < j + g /\ 1 \in 1 .. m
        BY <1>2, <1>9, <1>12, <1>19, <3>1
      <4>2. Up(B, pos[1]) > Up(B, pos[j + g]) /\ Up(B, pos[1]) = N
        BY <1>3, <1>4, <1>16, <3>1, <4>1
      <4> QED BY <1>2, <3>1, <4>2
    <3> QED BY <1>3, <1>11, <3>1, <3>2
  <2>2. CASE ~(j + g <= m)
    <3>1. new[j] = NewPlace /\ new[j] \in Place /\ put_ok.done
      BY <1>13, <1>19, <2>2
    <3>2. CASE cfg.cthread_put
      BY <1>11, <3>1, <3>2 DEF NewPlace
    <3>3. CASE ~cfg.cthread_put
      <4>1. new[j] = 0 /\ Up(B, -1) = 0 /\ -1 \in B /\ 0 # N
        BY <1>2, <1>3, <1>10, <3>1, <3>3 DEF NewPlace
      <4> QED BY <1>11, <3>1, <4>1
    <3> QED BY <1>2, <3>2, <3>3
  <2> QED BY <2>1, <2>2
<1>20. n = m + p - g
  BY DEF n
<1>21. ASSUME NEW i \in Taken(nxt) PROVE \E j \in 1 .. n : new[j] = i
  <2>1. i \in Place
    BY <1>2, <1>21, EdgeTaken
  <2>2. put_ok.done => m + 1 - g \in 1 .. n /\ new[m + 1 - g] = NewPlace
    <3> SUFFICES ASSUME put_ok.done PROVE m + 1 - g \in 1 .. n /\ new[m + 1 - g] = NewPlace
      OBVIOUS
    <3>1. p = 1 /\ (g = 1 => m # 0)
      BY <1>8, <1>9
    <3>2. m + 1 - g \in 1 .. n /\ (m + 1 - g) + g = m + 1 /\ ~(m + 1 <= m)
      BY <1>2, <1>9, <1>20, <3>1
    <3> QED BY <1>13, <3>2
  <2>3. CASE i = -1 /\ cfg.cthread_put /\ put_ok.done
    BY <2>2, <2>3 DEF NewPlace
  <2>4. ASSUME NEW x \in B, Up(B, x) = i, ~(i = N /\ get_ok.done)
        PROVE  \E j \in 1 .. n : new[j] = i
    <3>1. ASSUME NEW k \in 1 .. m, pos[k] = x PROVE \E j \in 1 .. n : new[j] = i
      <4>1. get_ok.done => k # 1
        BY <1>3, <1>4, <2>4, <3>1
      <4>2. k - g \in 1 .. n /\ (k - g) + g = k /\ k <= m
        BY <1>2, <1>9, <1>20, <4>1
      <4>3. new[k - g] = Up(B, pos[k])
        BY <1>13, <4>2
      <4> QED BY <2>4, <3>1, <4>2, <4>3
    <3>2. CASE x = -1 /\ ~cfg.cthread_put /\ put_ok.done
      BY <1>10, <2>2, <2>4, <3>2 DEF NewPlace
    <3> QED BY <1>3, <2>4, <3>1, <3>2
  <2> QED BY <1>11, <1>21, <2>1, <2>3, <2>4
<1>22. InOrder(nxt, new, n)
  <2>1. Taken(nxt) = {new[j] : j \in 1 .. n}
    BY <1>19, <1>21
  <2> QED BY <1>14, <1>18, <2>1 DEF InOrder
<1>23. \A k \in 1 .. m : q[k] = Word(cur, r, pos[k])
  BY <1>1 DEF Carried, m
<1>24. ASSUME NEW j \in 1 .. n PROVE Committed[j] = Word(nxt, regs, new[j])
  <2>1. CASE j + g <= m
    <3>1. j + g \in 1 .. m /\ new[j] = Up(B, pos[j + g])
      BY <1>12, <1>13, <1>24, <2>1
    <3>2. Committed[j] = q[j + g]
      BY <1>9, <1>24, <2>1
    <3> QED BY <1>3, <1>7, <1>23, <3>1, <3>2
  <2>2. CASE ~(j + g <= m)
    <3>1. new[j] = NewPlace /\ put_ok.done /\ Committed[j] = put_ok.data
      BY <1>13, <1>24, <2>2
    <3>2. CASE cfg.cthread_put
      BY <1>4, <3>1, <3>2 DEF NewPlace, Word
    <3>3. CASE ~cfg.cthread_put
      <4>1. new[j] = Up(B, -1) /\ -1 \in B
        BY <1>3, <1>10, <3>1, <3>3 DEF NewPlace
      <4>2. Word(cur, r, -1) = cur.data_in
        BY DEF Word
      <4> QED BY <1>4, <1>7, <3>1, <3>3, <4>1, <4>2
    <3> QED BY <1>2, <3>2, <3>3
  <2> QED BY <2>1, <2>2
<1>25. ASSUME NEW j \in 1 .. n PROVE OnTime(nxt, new[j], CommittedAges[j])
  <2>1. CASE j + g <= m
    <3>1. j + g \in 1 .. m /\ new[j] = Up(B, pos[j + g])
      BY <1>12, <1>13, <1>25, <2>1
    <3> DEFINE a == age[j + g]
    <3>2. a \in 0 .. N /\ OnTime(cur, pos[j + g], a) /\ j + g \in DOMAIN age
      BY <1>1, <1>2, <3>1 DEF Aged
    <3>3. CommittedAges[j] = IF a < N THEN a + 1 ELSE N
      BY <1>9, <1>25, <2>1, <3>2 DEF Older
    <3> HIDE DEF a
    <3>4. OnTime(nxt, Up(B, pos[j + g]), IF a < N THEN a + 1 ELSE N)
      BY <1>3, <3>1, <3>2, EdgeOnTime DEF B
    <3> QED BY <3>1, <3>3, <3>4
  <2>2. CASE ~(j + g <= m)
    <3>1. new[j] = NewPlace /\ CommittedAges[j] = 0
      BY <1>13, <1>25, <2>2
    <3>2. OnTime(nxt, NewPlace, 0)
      BY <1>2 DEF OnTime, NewPlace
    <3> QED BY <3>1, <3>2
  <2> QED BY <2>1, <2>2
<1>26. /\ Carried(nxt, regs, new, Committed) /\ Aged(nxt, new, CommittedAges)
  BY <1>9, <1>24, <1>25 DEF Carried, Aged, n
<1>27. get_ok.done => get_ok.data = q[1]
  <2> SUFFICES ASSUME get_ok.done PROVE get_ok.data = q[1]
    OBVIOUS
  <2>1. m # 0 /\ 1 \in 1 .. m /\ Up(B, pos[1]) = N
    BY <1>2, <1>3, <1>4
  <2>2. Word(nxt, regs, N) = q[1]
    BY <1>3, <1>7, <1>23, <2>1
  <2>3. Word(nxt, regs, N) = nxt.data_reg_d
    BY <1>2 DEF Word
  <2> QED BY <1>4, <2>2, <2>3
<1>28. nxt.data_out = regs[N - 1]
  BY DEF PlPart, AtClock
<1>29. Len(Committed) = n /\ Len(CommittedAges) = n
  BY <1>9 DEF n
<1> QED BY <1>8, <1>9, <1>14, <1>22, <1>26, <1>27, <1>28, <1>29 DEF m

-----------------------------------------------------------------------------
(* The kernel, and the invariant.                                            *)

\* The update phase: a process that is not woken has nothing else to compute.
LEMMA UpdateParts == ASSUME Inv, Update PROVE Parts'
<1>1. /\ runnable = {} /\ cur' = nxt /\ nxt' = nxt /\ runnable' = Woken(cur, nxt)
      /\ edge' = "none" /\ cfg' = cfg /\ put_ok' = put_ok /\ get_ok' = get_ok
  BY DEF Update
<1>2. CombOutputs(cur)' = CombOutputs(nxt) /\ Threads' = Threads
  BY <1>1 DEF CombOutputs, Takes, RegFull, Push, Pop, Threads
<1>3. /\ Shows(nxt, cur)
      /\ ~cfg.cthread_put => PutMethod(cur) /\ PutWrites(nxt)
      /\ ~cfg.cthread_get => GetMethod(cur) /\ nxt.get_req = get_ok.done
  BY <1>1 DEF Inv, Parts, AsyncPart, PutPart, GetPart
<1>4. AsyncPart'
  <2>1. ASSUME "asyncProc" \notin Woken(cur, nxt) PROVE CombOutputs(nxt) = CombOutputs(cur)
    BY <2>1, NotWoken, SameOutputs
  <2> QED BY <1>1, <1>2, <1>3, <2>1 DEF AsyncPart, Shows
<1>5. SyncPart'
  BY <1>1 DEF SyncPart, SyncSame
<1>6. PutPart'
  <2>1. ASSUME "put" \notin Woken(cur, nxt), ~cfg.cthread_put PROVE PutMethod(nxt)
    BY <1>3, <2>1, NotWoken DEF PutMethod
  <2>2. (PutMethod(cur) /\ PutWrites(nxt))' = (PutMethod(nxt) /\ PutWrites(nxt))
    BY <1>1 DEF PutMethod, PutWrites
  <2>3. PutSame'
    BY <1>1 DEF PutSame
  <2> QED BY <1>1, <1>3, <2>1, <2>2, <2>3 DEF PutPart
<1>7. GetPart'
  <2>1. ASSUME "get" \notin Woken(cur, nxt), ~cfg.cthread_get PROVE GetMethod(nxt)
    BY <1>3, <2>1, NotWoken DEF GetMethod
  <2>2. GetMethod(cur)' = GetMethod(nxt)
    BY <1>1 DEF GetMethod
  <2> QED BY <1>1, <1>3, <2>1, <2>2 DEF GetPart
<1>8. KernelPart'
  <2>1. Woken(cur, nxt) \cap Threads = {}
    BY NotWoken
  <2> QED BY <1>1, <1>2, <2>1 DEF KernelPart
<1> QED BY <1>4, <1>5, <1>6, <1>7, <1>8 DEF Parts

\* The words after the update, from those in the new values of the signals.
LEMMA WordsAre ==
    ASSUME Types, cur' = nxt, nxt' = nxt, UNCHANGED <<cfg, regs>>, edge' = "none",
           N - 1 \in nxt.busy_reg_d => nxt.data_out = regs[N - 1],
           \E pos \in [1 .. Len(q') -> Place] :
              /\ InOrder(nxt, pos, Len(q')) /\ Carried(nxt, regs, pos, q')
              /\ Aged(nxt, pos, age')
    PROVE  Words'
<1>1. Taken(cur)' = Taken(nxt) /\ Delay' = Delay
  BY DEF Taken, RegFull, Pending, Push, Pop, Delay
<1>2. PICK pos \in [1 .. Len(q') -> Place] :
         /\ InOrder(nxt, pos, Len(q')) /\ Carried(nxt, regs, pos, q') /\ Aged(nxt, pos, age')
  OBVIOUS
<1>3. /\ InOrder(nxt, pos, Len(q')) = InOrder(cur, pos, Len(q))'
      /\ Carried(nxt, regs, pos, q') = Carried(cur, regs, pos, q)'
      /\ Aged(nxt, pos, age') = Aged(cur, pos, age)'
  BY <1>1 DEF InOrder, Carried, Word, Aged, OnTime
<1>4. Holds(cur, regs)'
  BY <1>2, <1>3 DEF Holds
<1>5. PlPart(regs)' /\ regs' \in [Stage -> Data]
  BY DEF PlPart, Types
<1> QED BY <1>4, <1>5 DEF Words

\* An update that is not one of an edge leaves every word where it is.
LEMMA DeltaWords ==
    ASSUME Inv, Update, edge = "none"
    PROVE  Words'
<1>1. /\ Types /\ Parts /\ runnable = {} /\ cur' = nxt /\ nxt' = nxt /\ edge' = "none"
      /\ UNCHANGED <<cfg, regs, q, age>>
      /\ cfg.cthread_put \in BOOLEAN /\ cfg.cthread_get \in BOOLEAN
  BY ConfigType DEF Inv, Types, Update, history
<1>2. PICK r \in [Stage -> Data] : PlPart(r) /\ Holds(cur, r)
  BY DEF Inv, Words
<1>3. regs = r /\ nxt.data_out = cur.data_out
  BY <1>2 DEF PlPart
<1>4. PICK pos \in [1 .. Len(q) -> Place] :
         InOrder(cur, pos, Len(q)) /\ Carried(cur, r, pos, q) /\ Aged(cur, pos, age)
  BY <1>2 DEF Holds
<1>5. /\ SyncSame
      /\ cfg.cthread_put => PutSame
      /\ cfg.cthread_get => nxt.get_req = cur.get_req
  BY <1>1 DEF Parts, SyncPart, PutPart, GetPart
<1>6. RegFull(nxt) = RegFull(cur) /\ Pending(nxt) = Pending(cur)
  BY <1>1, <1>5 DEF RegFull, Pending, Push, Pop, SyncSame, PutSame
<1>7. Taken(nxt) = Taken(cur)
  BY <1>5, <1>6 DEF Taken, SyncSame
<1>8. \A j \in 1 .. Len(q) : Word(nxt, regs, pos[j]) = Word(cur, r, pos[j])
  <2> SUFFICES ASSUME NEW j \in 1 .. Len(q)
               PROVE  Word(nxt, regs, pos[j]) = Word(cur, r, pos[j])
    OBVIOUS
  <2>1. pos[j] = -1 => cfg.cthread_put
    <3>1. pos[j] \in Taken(cur)
      BY <1>4 DEF InOrder
    <3>2. -1 \in Taken(cur) => Pending(cur)
      BY <1>1, LoadedIs DEF Types
    <3> QED BY <3>1, <3>2 DEF Pending
  <2> QED BY <1>3, <1>5, <2>1 DEF Word, PutSame, SyncSame
<1>9. /\ InOrder(nxt, pos, Len(q)) /\ Carried(nxt, regs, pos, q) /\ Aged(nxt, pos, age)
  <2>1. InOrder(nxt, pos, Len(q))
    BY <1>4, <1>7 DEF InOrder
  <2>2. Carried(nxt, regs, pos, q)
    BY <1>4, <1>8 DEF Carried
  <2>3. Aged(nxt, pos, age)
    BY <1>4, <1>5 DEF Aged, OnTime, SyncSame
  <2> QED BY <2>1, <2>2, <2>3
<1>10. N - 1 \in nxt.busy_reg_d => nxt.data_out = regs[N - 1]
  BY <1>2, <1>3, <1>5 DEF Holds, SyncSame
<1>11. \E x \in [1 .. Len(q') -> Place] :
          /\ InOrder(nxt, x, Len(q')) /\ Carried(nxt, regs, x, q') /\ Aged(nxt, x, age')
  BY <1>1, <1>9
<1> QED BY <1>1, <1>10, <1>11, WordsAre

\* Reset empties every place, also from states in which words are under way.
LEMMA ResetWords ==
    ASSUME Inv, Update, edge # "none", rst
    PROVE  Words' /\ History'
<1>1. /\ Types /\ Parts /\ runnable = {} /\ cur' = nxt /\ nxt' = nxt /\ edge' = "none"
      /\ UNCHANGED <<cfg, regs>> /\ q' = <<>> /\ age' = <<>>
      /\ cfg.cthread_put \in BOOLEAN /\ nxt \in Signals /\ cfg \in Configs
  BY ConfigType DEF Inv, Types, Update
<1>2. /\ SyncStep /\ (cfg.cthread_put => PutThread)
  BY <1>1 DEF Parts, SyncPart, PutPart
<1>3. /\ nxt.busy_reg_d = {} /\ ~nxt.reg_full_d
      /\ cfg.cthread_put => ~nxt.put_req_d /\ ~nxt.put_req
  BY <1>2 DEF SyncStep, PutThread
<1>4. ~RegFull(nxt) /\ ~Pending(nxt)
  <2>1. nxt.put_req \in BOOLEAN /\ nxt.put_req_d \in BOOLEAN
    BY <1>1, SignalTypes
  <2> QED BY <1>1, <1>3, <2>1 DEF RegFull, Pending, Push
<1>5. Taken(nxt) = {}
  BY <1>3, <1>4 DEF Taken
<1>6. Len(q') = 0 /\ Len(age') = 0 /\ 1 .. 0 = {}
  BY <1>1
<1> DEFINE pos == [j \in 1 .. 0 |-> N]
<1>7. pos \in [1 .. Len(q') -> Place] /\ InOrder(nxt, pos, Len(q'))
  BY <1>5, <1>6 DEF InOrder
<1>8. Carried(nxt, regs, pos, q') /\ Aged(nxt, pos, age')
  BY <1>6 DEF Carried, Aged
<1> HIDE DEF pos
<1>9. Words'
  <2>1. \E x \in [1 .. Len(q') -> Place] :
          /\ InOrder(nxt, x, Len(q')) /\ Carried(nxt, regs, x, q') /\ Aged(nxt, x, age')
    BY <1>7, <1>8
  <2> QED BY <1>1, <1>3, <2>1, WordsAre
<1>10. History'
  BY <1>1 DEF History
<1> QED BY <1>9, <1>10

\* The update phase: of a delta cycle, of reset, of a clock edge.
LEMMA UpdateStep == ASSUME Inv, Update PROVE Inv'
<1>1. /\ runnable = {} /\ cur' = nxt /\ nxt' = nxt /\ runnable' = Woken(cur, nxt)
      /\ edge' = "none"
      /\ UNCHANGED <<cfg, regs, rst, put_ok, get_ok, blocked, resets>>
  BY DEF Update
<1>2. /\ Types /\ Parts /\ History /\ put_ok \in Result /\ get_ok \in Result
      /\ op \in [put : Result, get : Result]
  BY DEF Inv, Types
<1>3. Words' /\ History' /\ op' \in [put : Result, get : Result]
  <2>1. CASE edge = "none"
    <3>1. UNCHANGED <<q, age, op>>
      BY <2>1 DEF Update, history
    <3> QED BY <1>2, <2>1, <3>1, DeltaWords DEF History
  <2>2. CASE edge # "none" /\ rst
    <3>1. op' = [put |-> Nothing, get |-> Nothing]
      BY <2>2 DEF Update
    <3>2. Nothing \in Result
      BY DataAssumption, OutcomeType
    <3> QED BY <2>2, <3>1, <3>2, ResetWords
  <2>3. CASE edge # "none" /\ ~rst
    <3>1. PICK r \in [Stage -> Data] : PlPart(r) /\ Holds(cur, r)
      BY DEF Inv, Words
    <3>2. AtClock
      BY <1>1, <1>2, <2>3 DEF AtClock
    <3>3. /\ get_ok.done => Len(q) # 0
          /\ Committed \in Seq(Data) /\ CommittedAges \in Seq(0 .. N)
          /\ Len(CommittedAges) = Len(Committed)
          /\ N - 1 \in nxt.busy_reg_d => nxt.data_out = regs[N - 1]
          /\ \E pos \in [1 .. Len(Committed) -> Place] :
                 /\ InOrder(nxt, pos, Len(Committed))
                 /\ Carried(nxt, regs, pos, Committed)
                 /\ Aged(nxt, pos, CommittedAges)
      BY <1>2, <3>1, <3>2, EdgeCommits
    <3>4. get_ok.done => Offered # <<>>
      BY <1>2, <3>3, CommitIs
    <3>5. q' = Committed /\ age' = CommittedAges /\ op' = [put |-> put_ok, get |-> get_ok]
      BY <2>3, <3>4 DEF Update, Commit, Committed, CommittedAges, Offered, OfferedAges
    <3>6. Words'
      BY <1>1, <1>2, <3>3, <3>5, WordsAre
    <3>7. History' /\ op' \in [put : Result, get : Result]
      BY <1>2, <3>3, <3>5 DEF History
    <3> QED BY <3>6, <3>7
  <2> QED BY <2>1, <2>2, <2>3
<1>4. Types'
  <2>1. runnable' \subseteq Procs
    BY <1>1, NotWoken
  <2> QED BY <1>1, <1>2, <1>3, <2>1 DEF Types
<1> QED BY <1>3, <1>4, UpdateParts DEF Inv

\* What the parts say when time may advance.
LEMMA WhenSettled ==
    ASSUME Parts, Settled
    PROVE  /\ runnable = {} /\ nxt = cur /\ edge = "none" /\ Stable
<1>1. runnable = {} /\ nxt = cur /\ edge = "none"
  BY DEF Settled
<1> QED BY <1>1 DEF Parts, AsyncPart, PutPart, GetPart, Stable

\* Time advances to an edge: the clocked processes run, nothing else does.
LEMMA EdgeParts ==
    ASSUME Parts, Settled, UNCHANGED <<cfg, cur, put_ok, get_ok>>,
           runnable' = Threads, edge' \in {"clock", "reset"}, edge' = "reset" => rst',
           NEW po, NEW pv, NEW go, nxt \in Signals,
           nxt' = [nxt EXCEPT !.put_op = po, !.put_val = pv, !.get_op = go]
    PROVE  Parts'
<1>1. runnable = {} /\ nxt = cur /\ edge = "none" /\ Stable
  BY WhenSettled
<1>2. /\ nxt'.put_req = cur.put_req /\ nxt'.put_req_d = cur.put_req_d
      /\ nxt'.get_req = cur.get_req /\ nxt'.get_req_d = cur.get_req_d
      /\ nxt'.data_in = cur.data_in /\ nxt'.data_out = cur.data_out
      /\ nxt'.reg_full_d = cur.reg_full_d /\ nxt'.data_reg_d = cur.data_reg_d
      /\ nxt'.busy_reg_d = cur.busy_reg_d
      /\ nxt'.ready_push = cur.ready_push /\ nxt'.out_valid = cur.out_valid
      /\ nxt'.busy_reg = cur.busy_reg /\ nxt'.enable = cur.enable
      /\ nxt'.reg_full = cur.reg_full /\ nxt'.data_reg = cur.data_reg
  BY <1>1 DEF Signals
<1>3. CombOutputs(cur)' = CombOutputs(cur) /\ Threads' = Threads
  BY DEF CombOutputs, Takes, RegFull, Push, Pop, Threads
<1>4. "syncProc" \in Threads /\ (cfg.cthread_put => "put" \in Threads)
      /\ (cfg.cthread_get => "get" \in Threads)
  BY DEF Threads
<1>5. AsyncPart'
  <2>1. \A f \in Outputs : nxt'[f] = cur[f]
    BY <1>2 DEF Outputs
  <2> QED BY <1>1, <1>3, <2>1 DEF AsyncPart, Stable, Shows
<1>6. SyncPart'
  BY <1>2, <1>4 DEF SyncPart, SyncSame
<1>7. PutPart' /\ GetPart'
  <2>1. PutSame' /\ nxt'.get_req = cur'.get_req
    BY <1>2 DEF PutSame
  <2>2. ~cfg.cthread_put => PutMethod(cur)' /\ PutWrites(nxt)'
    BY <1>1, <1>2 DEF Stable, PutMethod, PutWrites
  <2>3. ~cfg.cthread_get => GetMethod(cur)' /\ nxt'.get_req = get_ok'.done
    BY <1>1, <1>2 DEF Stable, GetMethod
  <2> QED BY <1>4, <2>1, <2>2, <2>3 DEF PutPart, GetPart
<1>8. KernelPart'
  <2>1. Stable'
    BY <1>1, <1>3 DEF Stable, Shows, PutMethod, PutWrites, GetMethod
  <2> QED BY <1>3, <2>1 DEF KernelPart
<1> QED BY <1>5, <1>6, <1>7, <1>8 DEF Parts

\* The words when time advances.
LEMMA TimeWords ==
    ASSUME Words, edge = "none", UNCHANGED <<cfg, cur, regs, q, age>>,
           nxt'.data_out = nxt.data_out, edge' = "none" \/ "plProc" \in runnable'
    PROVE  Words'
<1>1. PICK r \in [Stage -> Data] : PlPart(r) /\ Holds(cur, r)
  BY DEF Words
<1>2. Holds(cur, r)'
  BY <1>1, HoldsKept
<1>3. PlPart(r)'
  BY <1>1 DEF PlPart
<1> QED BY <1>1, <1>2, <1>3 DEF Words

\* Time advances.
LEMMA TimeStep == ASSUME Inv, ClockEdge \/ AssertReset \/ ReleaseReset PROVE Inv'
<1>1. /\ Types /\ Parts /\ History /\ Words /\ cfg \in Configs /\ nxt \in Signals
      /\ cfg.cthread_put \in BOOLEAN /\ cfg.cthread_get \in BOOLEAN
  BY ConfigType DEF Inv, Types
<1>2. UNCHANGED <<cfg, cur, regs, put_ok, get_ok, blocked, q, age, op>> /\ Settled
  BY DEF ClockEdge, AssertReset, ReleaseReset, history
<1>3. /\ History' /\ edge = "none" /\ Threads \subseteq Procs /\ "plProc" \in Threads
  BY <1>1, <1>2 DEF History, Settled, Threads, Procs
<1>4. CASE ClockEdge
  <2>1. PICK po \in IF cfg.cthread_put THEN {"clear"} ELSE PutOps \ {"b_put"} :
        \E pv \in IF po = "clear" THEN {ZERO} ELSE Data,
           go \in IF cfg.cthread_get THEN {"clear"} ELSE GetOps \ {"mask", "b_get"} :
           nxt' = [nxt EXCEPT !.put_op = po, !.put_val = pv, !.get_op = go]
    BY <1>4 DEF ClockEdge
  <2>2. PICK pv \in IF po = "clear" THEN {ZERO} ELSE Data,
             go \in IF cfg.cthread_get THEN {"clear"} ELSE GetOps \ {"mask", "b_get"} :
           nxt' = [nxt EXCEPT !.put_op = po, !.put_val = pv, !.get_op = go]
    BY <2>1
  <2>3. po \in PutOpKinds /\ pv \in Data /\ go \in GetOpKinds
    BY <1>1, <2>1, <2>2, OpsAssumption, DataAssumption DEF PutOpKinds, GetOpKinds
  <2>4. nxt' \in Signals /\ nxt'.data_out = nxt.data_out
    BY <1>1, <2>3, <2>2 DEF Signals
  <2>5. runnable' = Threads /\ edge' = "clock" /\ rst' = rst /\ resets' = resets
    BY <1>4 DEF ClockEdge
  <2>6. Parts'
    BY <1>1, <1>2, <2>5, <2>2, EdgeParts
  <2>7. Types' /\ Words'
    BY <1>1, <1>2, <1>3, <2>4, <2>5, TimeWords DEF Types
  <2> QED BY <1>3, <2>6, <2>7 DEF Inv
<1>5. CASE AssertReset
  <2>1. /\ runnable' = Threads /\ edge' = "reset" /\ rst' = TRUE /\ nxt' = nxt
        /\ resets' = resets + 1 /\ resets < MaxResets
    BY <1>5 DEF AssertReset
  <2> DEFINE po == nxt.put_op
             pv == nxt.put_val
             go == nxt.get_op
  <2>2. nxt' = [nxt EXCEPT !.put_op = po, !.put_val = pv, !.get_op = go]
    BY <1>1, <2>1 DEF Signals
  <2> HIDE DEF po, pv, go
  <2>3. Parts'
    BY <1>1, <1>2, <2>1, <2>2, EdgeParts
  <2>4. resets' \in 0 .. MaxResets
    BY <1>1, <2>1, MaxResetsAssumption DEF Types
  <2>5. Types' /\ Words'
    BY <1>1, <1>2, <1>3, <2>1, <2>4, TimeWords DEF Types
  <2> QED BY <1>3, <2>3, <2>5 DEF Inv
<1>6. CASE ReleaseReset
  <2>1. UNCHANGED <<nxt, runnable, edge, resets>> /\ rst' = FALSE /\ edge = "none"
    BY <1>6 DEF ReleaseReset, Settled
  <2>2. AsyncPart' /\ SyncPart'
    <3>1. CombOutputs(cur)' = CombOutputs(cur)
      BY <1>2 DEF CombOutputs, Takes, RegFull, Push, Pop
    <3>2. AsyncPart'
      BY <1>1, <1>2, <2>1, <3>1 DEF Parts, AsyncPart, Shows
    <3>3. SyncPart'
      BY <1>1, <1>2, <2>1 DEF Parts, SyncPart, SyncSame
    <3> QED BY <3>2, <3>3
  <2>3. PutPart' /\ GetPart'
    BY <1>1, <1>2, <2>1 DEF Parts, PutPart, PutSame, PutMethod, PutWrites, GetPart, GetMethod
  <2>4. KernelPart'
    BY <1>1, <1>2, <2>1 DEF Parts, KernelPart, Threads
  <2>5. Types' /\ Words'
    BY <1>1, <1>2, <1>3, <2>1, TimeWords DEF Types
  <2> QED BY <1>3, <2>2, <2>3, <2>4, <2>5 DEF Inv, Parts
<1> QED BY <1>4, <1>5, <1>6

\* The invariant holds after elaboration.
LEMMA InitInv == Init => Inv
<1> SUFFICES ASSUME Init PROVE Inv
  OBVIOUS
<1>1. /\ cfg \in Configs /\ nxt = cur /\ runnable = Procs /\ regs \in [Stage -> Data]
      /\ rst = TRUE /\ edge = "reset" /\ put_ok = Nothing /\ get_ok = Nothing
      /\ blocked = [put |-> FALSE, get |-> FALSE]
      /\ q = <<>> /\ age = <<>> /\ op = [put |-> Nothing, get |-> Nothing] /\ resets = 0
  BY DEF Init, Procs
<1>2. /\ cur \in Signals /\ ~cur.put_req /\ ~cur.put_req_d /\ ~cur.reg_full_d
      /\ cur.busy_reg_d = {}
  BY DataAssumption DEF Init, Signals, PutOpKinds, GetOpKinds
<1>3. Nothing \in Result
  BY DataAssumption, OutcomeType
<1>4. Types
  BY <1>1, <1>2, <1>3, MaxResetsAssumption DEF Types
<1>5. Parts
  BY <1>1 DEF Parts, AsyncPart, SyncPart, SyncSame, PutPart, PutSame, GetPart, KernelPart, Procs
<1>6. History
  BY <1>1 DEF History
<1>7. Words
  <2>1. PlPart(regs)
    BY <1>1 DEF PlPart, Procs
  <2>2. cur.put_req = cur.put_req_d
    BY <1>2 DEF Signals
  <2>3. Taken(cur) = {}
    BY <1>2, <2>2 DEF Taken, RegFull, Pending, Push
  <2>4. Len(q) = 0 /\ Len(age) = 0 /\ 1 .. 0 = {}
    BY <1>1
  <2> DEFINE pos == [j \in 1 .. 0 |-> N]
  <2>5. /\ pos \in [1 .. Len(q) -> Place] /\ InOrder(cur, pos, Len(q))
        /\ Carried(cur, regs, pos, q) /\ Aged(cur, pos, age)
    BY <2>3, <2>4 DEF InOrder, Carried, Aged
  <2> HIDE DEF pos
  <2>6. Holds(cur, regs)
    BY <1>2, <2>5 DEF Holds
  <2> QED BY <1>1, <2>1, <2>6 DEF Words
<1> QED BY <1>4, <1>5, <1>6, <1>7 DEF Inv

\* Every step keeps the invariant.
LEMMA NextInv == ASSUME Inv, [Next]_vars PROVE Inv'
<1>1. CASE UNCHANGED vars
  <2>1. UNCHANGED <<cfg, cur, nxt, regs, runnable, rst, edge, put_ok, get_ok, blocked, q,
                    age, op, resets>>
    BY <1>1 DEF vars, history
  <2>2. Types' /\ History'
    BY <2>1 DEF Inv, Types, History
  <2>3. AsyncPart' /\ SyncPart' /\ PutPart' /\ GetPart'
    BY <2>1, Kept DEF Inv
  <2>4. KernelPart'
    <3>1. CombOutputs(cur)' = CombOutputs(cur) /\ Threads' = Threads
      BY <2>1 DEF CombOutputs, Takes, RegFull, Push, Pop, Threads
    <3> QED BY <2>1, <3>1 DEF Inv, Parts, KernelPart, Stable, Shows, PutMethod, PutWrites,
                              GetMethod
  <2>5. Words'
    BY <2>1, WordsKept DEF Inv
  <2> QED BY <2>2, <2>3, <2>4, <2>5 DEF Inv, Parts
<1> QED
  BY <1>1, AsyncStep, SyncProcStep, PlProcStep, PutStep, GetStep, UpdateStep, TimeStep
     DEF Next, Evaluate

-----------------------------------------------------------------------------
(* What follows from the invariant.                                          *)

\* As many elements as places are taken.
LEMMA QueueIsTaken ==
    ASSUME Inv
    PROVE  /\ IsFiniteSet(Taken(cur)) /\ Cardinality(Taken(cur)) = Len(q)
           /\ Taken(cur) \subseteq (IF cfg.cthread_put THEN -1 ELSE 0) .. N
           /\ Len(q) \in Nat
<1>1. PICK r \in [Stage -> Data] : PlPart(r) /\ Holds(cur, r)
  BY DEF Inv, Words
<1>2. PICK pos \in [1 .. Len(q) -> Place] : InOrder(cur, pos, Len(q))
  BY <1>1 DEF Holds
<1>3. /\ Len(q) \in Nat /\ cfg \in Configs /\ cur \in Signals /\ N \in Nat \ {0}
      /\ cfg.cthread_put \in BOOLEAN
  BY ConfigType, StagesAssumption DEF Inv, Types, History
<1> DEFINE m == Len(q)
           T == Taken(cur)
<1>4. /\ T = {pos[j] : j \in 1 .. m}
      /\ \A i, j \in 1 .. m : i < j => pos[i] > pos[j]
      /\ \A j \in 1 .. m : pos[j] \in Int
  BY <1>2, <1>3 DEF InOrder, Place
<1> HIDE DEF m, T
<1>5. m \in Nat
  BY <1>3 DEF m
<1>6. pos \in [1 .. m -> T]
  BY <1>2, <1>4 DEF m
<1>7. \A i, j \in 1 .. m : pos[i] = pos[j] => i = j
  <2> SUFFICES ASSUME NEW i \in 1 .. m, NEW j \in 1 .. m, pos[i] = pos[j], i # j PROVE FALSE
    OBVIOUS
  <2>1. i < j \/ j < i
    BY <1>5
  <2> QED BY <1>4, <2>1
<1>8. pos \in Bijection(1 .. m, T)
  <2>1. pos \in Injection(1 .. m, T)
    BY <1>6, <1>7 DEF Injection, IsInjective
  <2>2. pos \in Surjection(1 .. m, T)
    BY <1>4, <1>6 DEF Surjection
  <2> QED BY <2>1, <2>2 DEF Bijection
<1>9. IsFiniteSet(1 .. m) /\ Cardinality(1 .. m) = m
  BY <1>5, FS_Interval
<1>10. IsFiniteSet(T) /\ Cardinality(T) = Cardinality(1 .. m)
  <2>1. ExistsBijection(1 .. m, T)
    BY <1>8 DEF ExistsBijection
  <2> QED BY <1>9, <2>1, FS_Bijection
<1>11. T \subseteq (IF cfg.cthread_put THEN -1 ELSE 0) .. N
  <2>1. /\ T \subseteq Place /\ (-1 \in T => cfg.cthread_put)
    BY <1>3, LoadedIs DEF T, Pending
  <2> QED BY <1>3, <2>1 DEF Place
<1> QED BY <1>3, <1>9, <1>10, <1>11 DEF T, m

\* The registers suffice; there is room while one of the places 0 .. N is
\* empty, and there are more than N words when none is.
LEMMA QueueFits ==
    ASSUME Inv
    PROVE  /\ Len(q) <= Slots
           /\ (\E e \in 0 .. N : e \notin Taken(cur)) => Len(q) < Slots
           /\ (\A e \in 0 .. N : e \in Taken(cur)) => Len(q) > N
<1> DEFINE T == Taken(cur)
           lo == IF cfg.cthread_put THEN -1 ELSE 0
           m == Len(q)
<1>1. /\ IsFiniteSet(T) /\ Cardinality(T) = m /\ T \subseteq lo .. N /\ m \in Nat
  BY QueueIsTaken
<1>2. N \in Nat \ {0} /\ lo \in {-1, 0} /\ cfg.cthread_put \in BOOLEAN /\ Slots = N - lo + 1
  BY ConfigType, StagesAssumption DEF Inv, Types, Slots
<1> HIDE DEF T, lo, m
<1>3. IsFiniteSet(lo .. N) /\ Cardinality(lo .. N) = Slots
  BY <1>2, FS_Interval
<1>4. m <= Slots
  BY <1>1, <1>3, FS_Subset
<1>5. ASSUME NEW e \in 0 .. N, e \notin T PROVE m < Slots
  <2>1. e \in lo .. N /\ T \subseteq (lo .. N) \ {e}
    BY <1>1, <1>2, <1>5
  <2>2. /\ IsFiniteSet((lo .. N) \ {e})
        /\ Cardinality((lo .. N) \ {e}) = Slots - 1
    BY <1>3, <2>1, FS_RemoveElement
  <2>3. m <= Slots - 1
    <3>1. T \in SUBSET ((lo .. N) \ {e})
      BY <2>1
    <3>2. Cardinality(T) <= Cardinality((lo .. N) \ {e})
      BY <2>2, <3>1, FS_Subset
    <3> QED BY <1>1, <2>2, <3>2
  <2> QED BY <1>1, <1>2, <2>3
<1>6. ASSUME \A e \in 0 .. N : e \in T PROVE m > N
  <2>1. Cardinality(0 .. N) = N + 1
    BY <1>2, FS_Interval
  <2>2. 0 .. N \in SUBSET T
    BY <1>6
  <2>3. Cardinality(0 .. N) <= m
    BY <1>1, <2>2, FS_Subset
  <2> QED BY <1>1, <1>2, <2>1, <2>3
<1> QED BY <1>4, <1>5, <1>6 DEF T, m

\* The pipe is ready while one of the places 0 .. N is empty.
LEMMA ReadyIs ==
    ASSUME Inv, Shows(cur, cur)
    PROVE  cur.ready_push <=> \E e \in 0 .. N : e \notin Taken(cur)
<1>1. cfg \in Configs /\ cur \in Signals /\ N \in Nat \ {0}
  BY StagesAssumption DEF Inv, Types
<1>2. cur.ready_push = CombOutputs(cur).ready_push
  BY DEF Shows, Outputs
<1>3. cur.ready_push <=> Open(Loaded(cur), -1)
  BY <1>1, <1>2, ShiftIs
<1>4. /\ \A i \in Stage : i \in Loaded(cur) <=> i \in Taken(cur)
      /\ N \in Loaded(cur) <=> N \in Taken(cur)
  BY <1>1, LoadedIs
<1>5. \A e \in 0 .. N : e \in Loaded(cur) <=> e \in Taken(cur)
  BY <1>1, <1>4 DEF Stage
<1>6. Open(Loaded(cur), -1) <=> \E e \in 0 .. N : e \notin Loaded(cur)
  BY <1>1 DEF Open, Place
<1> QED BY <1>3, <1>5, <1>6

\* Every edge outside reset is a cycle of the contract, every other step changes
\* nothing in it or resets it.
LEMMA ContractStep ==
    ASSUME Inv, [Next]_vars
    PROVE  [Contract!Next]_(Contract!contractVars)
<1>1. cfg' = cfg
  BY DEF Next, Evaluate, PutProc, GetProc, asyncProc, syncProc, plProc, reset_put,
         clear_put, put, b_put, reset_get, clear_get, get, b_get, ModuleFrame, PutFrame,
         GetFrame, Update, ClockEdge, AssertReset, ReleaseReset, vars
<1>2. Slots' = Slots
  BY <1>1 DEF Slots
<1>3. CASE ~Update
  <2>1. UNCHANGED <<q, op>>
    BY <1>3 DEF Next, Evaluate, PutProc, GetProc, asyncProc, syncProc, plProc, reset_put,
         clear_put, put, b_put, reset_get, clear_get, get, b_get, ModuleFrame, PutFrame,
         GetFrame, ClockEdge, AssertReset, ReleaseReset, vars, history
  <2> QED BY <1>2, <2>1 DEF Contract!contractVars
<1>4. CASE Update /\ edge = "none"
  BY <1>2, <1>4 DEF Update, Contract!contractVars, history
<1>5. CASE Update /\ edge # "none" /\ rst
  <2>1. Contract!Reset
    BY <1>2, <1>5 DEF Update, Contract!Reset, Contract!NoOp, Nothing
  <2> QED BY <2>1 DEF Contract!Next
<1>6. CASE Update /\ edge # "none" /\ ~rst
  <2>1. /\ runnable = {} /\ Types /\ Parts /\ History /\ put_ok \in Result /\ get_ok \in Result
        /\ put_ok.data \in Data /\ q \in Seq(Data)
    BY <1>6 DEF Inv, Types, Update, Result, History
  <2>2. AtClock /\ Stable
    BY <1>6, <2>1 DEF AtClock, Parts, KernelPart
  <2>3. PICK r \in [Stage -> Data] : PlPart(r) /\ Holds(cur, r)
    BY DEF Inv, Words
  <2>4. get_ok.done => Len(q) # 0 /\ get_ok.data = q[1]
    BY <2>1, <2>2, <2>3, EdgeCommits
  <2>5. get_ok.done => Offered # <<>>
    BY <2>1, <2>4, CommitIs
  <2>6. q' = Committed /\ op' = [put |-> put_ok, get |-> get_ok]
    BY <1>6, <2>5 DEF Update, Commit, Committed, Offered
  <2>7. put_ok.done => Len(q) < Slots
    BY <2>2, EdgeSignals, ReadyIs, QueueFits DEF Stable
  <2>8. get_ok.done => q # <<>> /\ get_ok.data = Head(Offered)
    <3> SUFFICES ASSUME get_ok.done PROVE q # <<>> /\ get_ok.data = Head(Offered)
      OBVIOUS
    <3>1. q # <<>> /\ 1 \in 1 .. Len(q)
      BY <2>1, <2>4
    <3>2. Append(q, put_ok.data) # <<>> /\ Append(q, put_ok.data)[1] = q[1]
      BY <2>1, <3>1, AppendTail
    <3>3. Offered[1] = q[1]
      BY <3>2 DEF Offered
    <3>4. Offered \in Seq(Data) /\ Head(Offered) = Offered[1]
      BY <2>1, <2>5, AppendTail DEF Offered
    <3> QED BY <2>4, <3>1, <3>3, <3>4
  <2>9. Contract!Cycle(put_ok, get_ok)
    BY <1>2, <2>6, <2>7, <2>8 DEF Contract!Cycle, Offered, Committed
  <2> QED BY <2>1, <2>9 DEF Contract!Next, Contract!Results, Result
<1> QED BY <1>3, <1>4, <1>5, <1>6

\* The parts of the processes and the place of every word, at all times.
THEOREM Invariant == Spec => []Inv
  BY InitInv, NextInv, PTL DEF Spec

\* Every signal keeps its type, and never are more elements under way than
\* stages, output register and data_in can hold: no word is overwritten for
\* lack of room.
THEOREM RegistersSuffice == Spec => []TypeOK
<1>1. Inv => TypeOK
  BY QueueFits DEF Inv, Types, TypeOK, History, Procs
<1> QED BY <1>1, Invariant, PTL

\* The sensitivity lists of asyncProc, addToPut and addToGet are complete: when
\* time advances no process would compute anything else.
THEOREM PipeSettles == Spec => []SignalsSettled
<1>1. Inv => SignalsSettled
  <2> SUFFICES ASSUME Inv, Settled
               PROVE  /\ \A n \in DOMAIN CombOutputs(cur) : cur[n] = CombOutputs(cur)[n]
                      /\ ~cfg.cthread_put => put_ok.done = (cur.put_op = "put" /\ cur.ready_push)
                      /\ ~cfg.cthread_get =>
                            get_ok = Outcome(cur.get_op = "get" /\ cur.out_valid, cur.data_reg)
    BY DEF SignalsSettled
  <2>1. Stable /\ cur \in Signals
    BY WhenSettled DEF Inv, Types
  <2>2. cur.ready_push \in BOOLEAN /\ cur.put_val \in Data
    BY <2>1, SignalTypes
  <2>3. ASSUME ~cfg.cthread_put PROVE put_ok.done = (cur.put_op = "put" /\ cur.ready_push)
    <3> DEFINE does == cur.put_op = "put" /\ cur.ready_push
    <3>1. put_ok = Outcome(does, cur.put_val) /\ does \in BOOLEAN
      BY <2>1, <2>3 DEF Stable, PutMethod
    <3> HIDE DEF does
    <3>2. put_ok.done = does
      BY <2>2, <3>1, OutcomeType
    <3> QED BY <3>2 DEF does
  <2>4. \A n \in DOMAIN CombOutputs(cur) : cur[n] = CombOutputs(cur)[n]
    BY <2>1, Comb DEF Stable, Shows
  <2> QED BY <2>1, <2>3, <2>4 DEF Stable, GetMethod
<1> QED BY <1>1, Invariant, PTL

\* Bubbles collapse: a put is refused only when all stages and the output
\* register are taken.
THEOREM BubblesCollapse == Spec => []NotReadyFull
<1>1. Inv => NotReadyFull
  <2> SUFFICES ASSUME Inv, Settled, ~cur.ready_push PROVE Len(q) > N
    BY DEF NotReadyFull
  <2>1. Shows(cur, cur)
    BY WhenSettled DEF Inv, Stable
  <2> QED BY <2>1, ReadyIs, QueueFits
<1> QED BY <1>1, Invariant, PTL

\* Constant latency: the oldest element, and no other, is offered as soon as it
\* went through all the stages and never earlier.
THEOREM ConstantLatency == Spec => []RequestAfterLatency
<1>1. Inv => RequestAfterLatency
  <2> SUFFICES ASSUME Inv, Settled
               PROVE  /\ cur.out_valid = (q # <<>> /\ Head(age) >= Latency)
                      /\ cur.out_valid => cur.data_reg = Head(q)
    BY DEF RequestAfterLatency
  <2> DEFINE B == Loaded(cur)
             T == Taken(cur)
  <2>1. /\ cfg \in Configs /\ cur \in Signals /\ N \in Nat \ {0} /\ Shows(cur, cur)
        /\ cfg.cthread_put \in BOOLEAN /\ Delay = (IF cfg.cthread_put THEN 1 ELSE 0)
        /\ q \in Seq(Data) /\ age \in Seq(0 .. N) /\ Len(age) = Len(q) /\ Len(q) \in Nat
        /\ cur.out_valid \in BOOLEAN
    BY StagesAssumption, ConfigType, WhenSettled, SignalTypes DEF Inv, Types, Stable, History
  <2>2. Latency = N - 1 + Delay
    BY <2>1 DEF Latency
  <2>3. PICK r \in [Stage -> Data] : Holds(cur, r)
    BY DEF Inv, Words
  <2>4. PICK pos \in [1 .. Len(q) -> Place] :
           InOrder(cur, pos, Len(q)) /\ Carried(cur, r, pos, q) /\ Aged(cur, pos, age)
    BY <2>3 DEF Holds
  <2>5. N - 1 \in cur.busy_reg_d => cur.data_out = r[N - 1]
    BY <2>3 DEF Holds
  <2>6. /\ cur.out_valid = (RegFull(cur) \/ Takes(cur))
        /\ cur.data_reg = IF Takes(cur) THEN cur.data_out ELSE cur.data_reg_d
    BY <2>1, Comb DEF Shows, Outputs
  <2>7. /\ N \in T <=> RegFull(cur)
        /\ N - 1 \in T <=> N - 1 \in cur.busy_reg_d
        /\ N - 1 \in Stage
    BY <2>1, LoadedIs DEF Stage
  <2>8. /\ RegFull(cur) \in BOOLEAN /\ Takes(cur) \in BOOLEAN
        /\ Takes(cur) <=> N \notin T /\ N - 1 \in T
    BY <2>1, <2>7, CombTypes DEF Takes
  <2>9. /\ T = {pos[j] : j \in 1 .. Len(q)}
        /\ \A i, j \in 1 .. Len(q) : i < j => pos[i] > pos[j]
        /\ \A j \in 1 .. Len(q) : pos[j] \in -1 .. N
    BY <2>4 DEF InOrder, Place
  <2> HIDE DEF T, B
  <2>10. CASE Len(q) = 0
    <3>1. q = <<>> /\ 1 .. Len(q) = {}
      BY <2>1, <2>10, EmptySeq
    <3>2. T = {}
      BY <2>9, <3>1
    <3>3. ~cur.out_valid
      BY <2>6, <2>7, <2>8, <3>2
    <3> QED BY <2>1, <3>1, <3>3
  <2>11. CASE Len(q) # 0
    <3> DEFINE a == age[1]
               p == pos[1]
    <3>1. /\ 1 \in 1 .. Len(q) /\ q # <<>> /\ Head(q) = q[1] /\ Head(age) = a
          /\ age # <<>>
      BY <2>1, <2>11
    <3>2. /\ OnTime(cur, p, a) /\ q[1] = Word(cur, r, p) /\ a \in 0 .. N
          /\ p \in T /\ p \in -1 .. N
      BY <2>1, <2>4, <2>9, <3>1 DEF Aged, Carried
    <3> HIDE DEF a, p
    <3>3. \A x \in T : x <= p
      <4> SUFFICES ASSUME NEW j \in 1 .. Len(q) PROVE pos[j] <= p
        BY <2>9
      <4>1. j = 1 \/ 1 < j
        BY <2>1
      <4> QED BY <2>1, <2>9, <3>1, <3>2, <4>1 DEF p
    <3>4. CASE p = N
      <4>1. RegFull(cur) /\ ~Takes(cur) /\ p # -1
        BY <2>1, <2>7, <2>8, <3>2, <3>4
      <4>2. cur.data_reg = q[1]
        BY <2>6, <3>2, <3>4, <4>1 DEF Word
      <4>3. a >= Latency
        BY <2>2, <3>2, <3>4 DEF OnTime
      <4> QED BY <2>1, <2>6, <3>1, <4>1, <4>2, <4>3
    <3>5. CASE p = N - 1
      <4>1. Takes(cur) /\ p # N /\ p # -1 /\ N \notin T
        BY <2>1, <2>8, <3>2, <3>3, <3>5
      <4>2. cur.data_reg = q[1]
        BY <2>5, <2>6, <2>7, <3>2, <3>5, <4>1 DEF Word
      <4>3. a >= Latency
        BY <2>2, <3>2, <3>5, <4>1 DEF OnTime
      <4> QED BY <2>1, <2>6, <3>1, <4>1, <4>2, <4>3
    <3>6. CASE p < N - 1
      <4>1. N \notin T /\ N - 1 \notin T
        BY <2>1, <3>2, <3>3, <3>6
      <4>2. ~cur.out_valid
        BY <2>1, <2>6, <2>7, <2>8, <4>1
      <4>3. a = p + Delay
        <5>1. p # N /\ N - 1 > p /\ N - 1 \notin cur.busy_reg_d
          BY <2>1, <2>7, <3>2, <3>6, <4>1
        <5> QED BY <2>7, <3>2, <5>1 DEF OnTime
      <4>4. ~(a >= Latency)
        BY <2>1, <2>2, <3>2, <3>6, <4>3
      <4> QED BY <2>1, <3>1, <4>2, <4>4
    <3> QED BY <2>1, <3>2, <3>4, <3>5, <3>6
  <2> QED BY <2>10, <2>11
<1> QED BY <1>1, Invariant, PTL

\* The pipe is a bounded queue: no word is lost, doubled or overtaken, whatever
\* bubbles and back pressure it meets, and reset empties it.
THEOREM PipeImplementsContract == Spec => ImplementsContract
<1>1. Init => Contract!Init
  BY DEF Init, Contract!Init, Contract!NoOp, Nothing
<1> QED BY <1>1, ContractStep, Invariant, PTL DEF Spec, ImplementsContract, Contract!Spec
=============================================================================
