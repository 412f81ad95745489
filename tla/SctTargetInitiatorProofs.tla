---------------------- MODULE SctTargetInitiatorProofs ----------------------
(***************************************************************************)
(* Proofs about a bound initiator and target, for every data set, set of    *)
(* configurations and set of calls.  When the delta cycles of a time step   *)
(* are over no process would compute anything else if it ran again; the     *)
(* data registers then hold the elements put and not yet got, in order; and *)
(* a clock edge moves them as the bounded queue of FifoContract does.       *)
(***************************************************************************)
EXTENDS SctTargetInitiator, SequenceTheorems, TLAPS

\* What the data registers hold: core_data_d while the target keeps its word,
\* core_data while the initiator offers one, sync_data of a PUT thread.
Keeps(s) == IF cfg.always_ready THEN TargSync /\ s.targ_req_d
                                ELSE s.targ_req_d /\ ~Taken(s)
Held(s) == Holds /\ CoreReq(s)
Synced(s) == InitSync /\ cfg.cthread_put /\ s.sync_req # s.sync_req_d
Word(there, data) == IF there THEN <<data>> ELSE <<>>
Words(s) == Word(Keeps(s), s.core_data_d) \o Word(Held(s), s.core_data)
            \o Word(Synced(s), s.sync_data)

-----------------------------------------------------------------------------
(* The inductive invariant, one part per process.                            *)

Types ==
    /\ cfg \in Configs
    /\ cur \in Signals /\ nxt \in Signals
    /\ runnable \subseteq Clocked \cup DOMAIN Sensitive
    /\ rst \in BOOLEAN
    /\ edge \in {"none", "clock", "reset"}
    /\ put_ok \in Result /\ get_ok \in Result
    /\ blocked \in [put : BOOLEAN, get : BOOLEAN]
    /\ q \in Seq(Data)
    /\ op \in [put : Result, get : Result]
    /\ resets \in 0 .. MaxResets

\* A process without a clock that is not about to run has written what it
\* computes from the present values.
ReqPart == "req_control" \notin runnable => nxt.core_req = CoreReq(cur)
ReadyPart == "ready_control" \notin runnable => nxt.core_ready = CoreReady(cur)
MuxPart == "core_data_mux" \notin runnable => nxt.core_data_out = CoreDataOut(cur)

\* A clocked process has run in the evaluation phase of an edge or not; between
\* edges its registers do not change.
TargetSame == /\ nxt.get_req_d = cur.get_req_d /\ nxt.targ_req_d = cur.targ_req_d
              /\ nxt.core_data_d = cur.core_data_d
TargetStep ==
    IF cfg.always_ready
    THEN IF TargSync
         THEN /\ nxt.targ_req_d = (~rst /\ cur.core_req)
              /\ nxt.core_data_d = IF rst THEN ZERO ELSE cur.core_data
         ELSE TargetSame
    ELSE /\ nxt.get_req_d = (~rst /\ cur.get_req)
         /\ nxt.targ_req_d = (~rst /\ (~cur.core_ready \/ cur.core_req))
         /\ ~rst => nxt.core_data_d = IF cur.core_req /\ cur.core_ready
                                      THEN cur.core_data ELSE cur.core_data_d
TargetPart == IF edge = "none" \/ "targ_core_thread" \in runnable
              THEN TargetSame ELSE TargetStep

InitiatorSame == nxt.put_req_d = cur.put_req_d /\ nxt.init_req_d = cur.init_req_d
InitiatorStep ==
    /\ nxt.put_req_d = (~rst /\ cur.put_req)
    /\ ~cfg.always_ready =>
          nxt.init_req_d = (~rst /\ ~cur.core_ready /\ cur.core_req)
InitiatorPart == IF edge = "none" \/ "init_core_thread" \in runnable \/ ~Holds
                 THEN InitiatorSame ELSE InitiatorStep

SyncSame == /\ nxt.put_req = cur.put_req /\ nxt.core_data = cur.core_data
            /\ nxt.sync_req_d = cur.sync_req_d
Moves == /\ IF cfg.cthread_put THEN cur.sync_req # cur.sync_req_d ELSE cur.sync_req
         /\ cur.core_ready
SyncThread ==
    IF rst THEN ~nxt.put_req /\ (cfg.cthread_put => ~nxt.sync_req_d)
    ELSE IF Moves
    THEN /\ nxt.put_req = ~cur.put_req /\ nxt.core_data = cur.sync_data
         /\ cfg.cthread_put => nxt.sync_req_d = cur.sync_req
    ELSE SyncSame
SyncPart == InitSync => IF edge = "none" \/ "sync_thread" \in runnable
                        THEN SyncSame ELSE SyncThread

\* The PUT process: a thread has toggled the register a put goes to, a method
\* has set it.
Reg(s) == IF InitSync THEN s.sync_req ELSE s.put_req
RegData(s) == IF InitSync THEN s.sync_data ELSE s.core_data
PutSame == Reg(nxt) = Reg(cur) /\ RegData(nxt) = RegData(cur)
PutThread ==
    IF rst THEN ~Reg(nxt)
    ELSE IF put_ok.done
    THEN Ready(cur) /\ Reg(nxt) = ~Reg(cur) /\ RegData(nxt) = put_ok.data
    ELSE Reg(nxt) = Reg(cur) /\ (~Ready(cur) => RegData(nxt) = RegData(cur))
PutMethod(s) == put_ok = Outcome(s.put_op = "put" /\ Ready(s), s.put_val)
PutWrites(n) == Reg(n) = put_ok.done /\ (put_ok.done => RegData(n) = put_ok.data)
PutPart == IF cfg.cthread_put
           THEN IF edge = "none" \/ "put" \in runnable THEN PutSame ELSE PutThread
           ELSE "put" \notin runnable => PutMethod(cur) /\ PutWrites(nxt)

\* The GET process.
GetThread ==
    IF rst THEN ~nxt.get_req
    ELSE /\ nxt.get_req = IF get_ok.done THEN ~cur.get_req ELSE cur.get_req
         /\ get_ok.done => Request(cur) /\ get_ok.data = cur.core_data_out
         /\ cfg.always_ready => get_ok.done = Request(cur)
GetMethod(s) == get_ok = Outcome(s.get_op = "get" /\ Request(s), s.core_data_out)
GetPart == IF cfg.cthread_get
           THEN IF edge = "none" \/ "get" \in runnable
                THEN nxt.get_req = cur.get_req ELSE GetThread
           ELSE "get" \notin runnable => GetMethod(cur) /\ nxt.get_req = get_ok.done

\* The present values when a clock edge comes.
Stable ==
    /\ cur.core_req = CoreReq(cur)
    /\ cur.core_ready = CoreReady(cur)
    /\ cur.core_data_out = CoreDataOut(cur)
    /\ ~cfg.cthread_put => PutMethod(cur) /\ PutWrites(cur)
    /\ ~cfg.cthread_get => GetMethod(cur) /\ cur.get_req = get_ok.done
KernelPart ==
    /\ edge = "none" => runnable \cap Clocked = {}
    /\ edge = "reset" => rst
    /\ edge = "clock" => runnable \subseteq Clocked
    /\ edge # "none" /\ ~rst => Stable

\* The GET method of an always ready target gets from the first edge on; before
\* it nothing is put.
Quiet(s) == s.put_op = "clear" /\ ~s.put_req /\ ~s.put_req_d /\ ~s.targ_req_d
QuietPart ==
    cfg.always_ready /\ ~cfg.cthread_get =>
        /\ cur.get_op = "get" \/ Quiet(cur)
        /\ nxt.get_op = "get" \/ (Quiet(nxt) /\ Quiet(cur) /\ edge # "clock")

Parts == /\ ReqPart /\ ReadyPart /\ MuxPart
         /\ TargetPart /\ InitiatorPart /\ SyncPart
         /\ PutPart /\ GetPart
         /\ KernelPart /\ QuietPart
Inv == Types /\ Parts /\ q = Words(cur)

-----------------------------------------------------------------------------
(* Types.                                                                    *)

\* The options are Booleans, and the sync register is on one side only.
LEMMA ConfigType ==
    ASSUME cfg \in Configs
    PROVE  /\ cfg.cthread_put \in BOOLEAN /\ cfg.cthread_get \in BOOLEAN
           /\ cfg.sync \in BOOLEAN /\ cfg.always_ready \in BOOLEAN
           /\ InitSync \in BOOLEAN /\ TargSync \in BOOLEAN /\ Holds \in BOOLEAN
           /\ InitSync => ~cfg.always_ready /\ Holds
           /\ TargSync => cfg.always_ready
<1>1. cfg \in Config
  BY ConfigsAssumption
<1>2. /\ cfg.cthread_put \in BOOLEAN /\ cfg.cthread_get \in BOOLEAN
      /\ cfg.sync \in BOOLEAN /\ cfg.always_ready \in BOOLEAN
  BY <1>1 DEF Config
<1> QED BY <1>2 DEF InitSync, TargSync, Holds

\* What the processes compute has the type of the signal they write.
LEMMA OutputTypes ==
    ASSUME cfg \in Configs, NEW s \in Signals
    PROVE  /\ NewPut(s) \in BOOLEAN /\ Taken(s) \in BOOLEAN
           /\ CoreReq(s) \in BOOLEAN /\ CoreReady(s) \in BOOLEAN
           /\ CoreDataOut(s) \in Data
           /\ Ready(s) \in BOOLEAN /\ Request(s) \in BOOLEAN
           /\ Reg(s) \in BOOLEAN /\ RegData(s) \in Data
<1>1. /\ cfg.cthread_put \in BOOLEAN /\ cfg.cthread_get \in BOOLEAN
      /\ cfg.sync \in BOOLEAN /\ cfg.always_ready \in BOOLEAN
      /\ InitSync \in BOOLEAN /\ TargSync \in BOOLEAN /\ Holds \in BOOLEAN
  BY ConfigType
<1>2. /\ s.put_req \in BOOLEAN /\ s.put_req_d \in BOOLEAN /\ s.init_req_d \in BOOLEAN
      /\ s.get_req \in BOOLEAN /\ s.get_req_d \in BOOLEAN /\ s.targ_req_d \in BOOLEAN
      /\ s.core_req \in BOOLEAN /\ s.core_ready \in BOOLEAN
      /\ s.sync_req \in BOOLEAN /\ s.sync_req_d \in BOOLEAN
      /\ s.core_data \in Data /\ s.core_data_d \in Data /\ s.sync_data \in Data
  BY DEF Signals
<1>3. NewPut(s) \in BOOLEAN /\ Taken(s) \in BOOLEAN /\ Ready(s) \in BOOLEAN
      /\ Request(s) \in BOOLEAN
  BY <1>1, <1>2 DEF NewPut, Taken, Ready, Request
<1> QED BY <1>1, <1>2, <1>3 DEF CoreReq, CoreReady, CoreDataOut, Reg, RegData

\* What put() and get() return.
LEMMA OutcomeType ==
    ASSUME NEW b \in BOOLEAN, NEW d \in Data
    PROVE  /\ Outcome(b, d) \in Result /\ Outcome(b, d).done = b
           /\ b => Outcome(b, d).data = d
           /\ Nothing \in Result /\ Nothing.done = FALSE
           /\ Outcome(FALSE, d) = Nothing
  BY DataAssumption DEF Outcome, Nothing, Result

\* Which processes there are, and which of them are clocked.
LEMMA Processes ==
    /\ DOMAIN Sensitive = {"req_control", "ready_control", "core_data_mux", "put", "get"}
    /\ Clocked \subseteq {"targ_core_thread", "sync_thread", "init_core_thread", "put", "get"}
    /\ "targ_core_thread" \in Clocked
    /\ "sync_thread" \in Clocked <=> InitSync
    /\ "init_core_thread" \in Clocked <=> Holds
    /\ "put" \in Clocked <=> cfg.cthread_put
    /\ "get" \in Clocked <=> cfg.cthread_get
  BY DEF Sensitive, Clocked

\* The sensitivity lists.
LEMMA NotWoken ==
    ASSUME NEW s, NEW t
    PROVE  /\ "req_control" \notin Woken(s, t) =>
                 s.put_req = t.put_req /\ s.put_req_d = t.put_req_d
                 /\ s.init_req_d = t.init_req_d
           /\ "ready_control" \notin Woken(s, t) /\ ~cfg.always_ready =>
                 s.get_req = t.get_req /\ s.get_req_d = t.get_req_d
                 /\ s.targ_req_d = t.targ_req_d
           /\ "core_data_mux" \notin Woken(s, t) =>
                 s.core_ready = t.core_ready /\ s.core_data = t.core_data
                 /\ s.core_data_d = t.core_data_d
           /\ "put" \notin Woken(s, t) /\ ~cfg.cthread_put =>
                 s.core_ready = t.core_ready /\ s.put_op = t.put_op
                 /\ s.put_val = t.put_val
           /\ "get" \notin Woken(s, t) /\ ~cfg.cthread_get =>
                 s.core_req = t.core_req /\ s.targ_req_d = t.targ_req_d
                 /\ s.core_ready = t.core_ready
                 /\ s.core_data_out = t.core_data_out /\ s.get_op = t.get_op
           /\ Woken(s, t) \subseteq DOMAIN Sensitive
           /\ cfg.cthread_put => "put" \notin Woken(s, t)
           /\ cfg.cthread_get => "get" \notin Woken(s, t)
<1>1. \A p \in {"req_control", "ready_control", "core_data_mux", "put", "get"} :
         p \notin Woken(s, t) <=> \A n \in Sensitive[p] : s[n] = t[n]
  BY Processes DEF Woken
<1>2. Woken(s, t) \subseteq DOMAIN Sensitive
  BY DEF Woken
<1>3. /\ Sensitive["req_control"] = {"put_req", "put_req_d", "init_req_d"}
      /\ ~cfg.always_ready =>
            Sensitive["ready_control"] = {"get_req", "get_req_d", "targ_req_d"}
      /\ Sensitive["core_data_mux"] = {"core_ready", "core_data", "core_data_d"}
      /\ Sensitive["put"] = IF cfg.cthread_put THEN {} ELSE {"core_ready", "put_op", "put_val"}
      /\ Sensitive["get"] = IF cfg.cthread_get THEN {} ELSE GetSensitive
  BY DEF Sensitive
<1>4. "req_control" \notin Woken(s, t) =>
         s.put_req = t.put_req /\ s.put_req_d = t.put_req_d /\ s.init_req_d = t.init_req_d
  BY <1>1, <1>3
<1>5. "ready_control" \notin Woken(s, t) /\ ~cfg.always_ready =>
         s.get_req = t.get_req /\ s.get_req_d = t.get_req_d /\ s.targ_req_d = t.targ_req_d
  BY <1>1, <1>3
<1>6. "core_data_mux" \notin Woken(s, t) =>
         s.core_ready = t.core_ready /\ s.core_data = t.core_data
         /\ s.core_data_d = t.core_data_d
  BY <1>1, <1>3
<1>7. "put" \notin Woken(s, t) /\ ~cfg.cthread_put =>
         s.core_ready = t.core_ready /\ s.put_op = t.put_op /\ s.put_val = t.put_val
  BY <1>1, <1>3
<1>8. "get" \notin Woken(s, t) /\ ~cfg.cthread_get =>
         s.core_req = t.core_req /\ s.targ_req_d = t.targ_req_d
         /\ s.core_ready = t.core_ready
         /\ s.core_data_out = t.core_data_out /\ s.get_op = t.get_op
  BY <1>1, <1>3 DEF GetSensitive
<1>9. /\ cfg.cthread_put => "put" \notin Woken(s, t)
      /\ cfg.cthread_get => "get" \notin Woken(s, t)
  BY <1>1, <1>3
<1> QED BY <1>2, <1>4, <1>5, <1>6, <1>7, <1>8, <1>9

-----------------------------------------------------------------------------
(* Steps of one process leave the parts of the others alone.                 *)

\* Each part is about the signals one process writes: a step that leaves them
\* and that process alone keeps the part.
LEMMA Kept ==
    ASSUME Parts, UNCHANGED <<cfg, cur, rst, edge>>
    PROVE  /\ ("req_control" \in runnable => "req_control" \in runnable')
              /\ nxt'.core_req = nxt.core_req => ReqPart'
           /\ ("ready_control" \in runnable => "ready_control" \in runnable')
              /\ nxt'.core_ready = nxt.core_ready => ReadyPart'
           /\ ("core_data_mux" \in runnable => "core_data_mux" \in runnable')
              /\ nxt'.core_data_out = nxt.core_data_out => MuxPart'
           /\ ("targ_core_thread" \in runnable <=> "targ_core_thread" \in runnable')
              /\ nxt'.get_req_d = nxt.get_req_d /\ nxt'.targ_req_d = nxt.targ_req_d
              /\ nxt'.core_data_d = nxt.core_data_d => TargetPart'
           /\ ("init_core_thread" \in runnable <=> "init_core_thread" \in runnable')
              /\ nxt'.put_req_d = nxt.put_req_d /\ nxt'.init_req_d = nxt.init_req_d
              => InitiatorPart'
           /\ ("sync_thread" \in runnable <=> "sync_thread" \in runnable')
              /\ (InitSync => /\ nxt'.put_req = nxt.put_req
                              /\ nxt'.core_data = nxt.core_data
                              /\ nxt'.sync_req_d = nxt.sync_req_d)
              => SyncPart'
           /\ ("put" \in runnable <=> "put" \in runnable') /\ put_ok' = put_ok
              /\ Reg(nxt)' = Reg(nxt) /\ RegData(nxt)' = RegData(nxt) => PutPart'
           /\ ("get" \in runnable <=> "get" \in runnable') /\ get_ok' = get_ok
              /\ nxt'.get_req = nxt.get_req => GetPart'
<1>1. /\ InitSync' = InitSync /\ TargSync' = TargSync /\ Holds' = Holds
      /\ CoreReq(cur)' = CoreReq(cur) /\ CoreReady(cur)' = CoreReady(cur)
      /\ CoreDataOut(cur)' = CoreDataOut(cur)
      /\ Ready(cur)' = Ready(cur) /\ Request(cur)' = Request(cur)
      /\ Reg(cur)' = Reg(cur) /\ RegData(cur)' = RegData(cur)
      /\ Moves' = Moves
  BY DEF InitSync, TargSync, Holds, CoreReq, NewPut, CoreReady, Taken, CoreDataOut,
         Ready, Request, Reg, RegData, Moves
<1>2. ASSUME "req_control" \in runnable => "req_control" \in runnable',
             nxt'.core_req = nxt.core_req
      PROVE  ReqPart'
  BY <1>1, <1>2 DEF Parts, ReqPart
<1>3. ASSUME "ready_control" \in runnable => "ready_control" \in runnable',
             nxt'.core_ready = nxt.core_ready
      PROVE  ReadyPart'
  BY <1>1, <1>3 DEF Parts, ReadyPart
<1>4. ASSUME "core_data_mux" \in runnable => "core_data_mux" \in runnable',
             nxt'.core_data_out = nxt.core_data_out
      PROVE  MuxPart'
  BY <1>1, <1>4 DEF Parts, MuxPart
<1>5. ASSUME "targ_core_thread" \in runnable <=> "targ_core_thread" \in runnable',
             nxt'.get_req_d = nxt.get_req_d, nxt'.targ_req_d = nxt.targ_req_d,
             nxt'.core_data_d = nxt.core_data_d
      PROVE  TargetPart'
  BY <1>1, <1>5 DEF Parts, TargetPart, TargetSame, TargetStep
<1>6. ASSUME "init_core_thread" \in runnable <=> "init_core_thread" \in runnable',
             nxt'.put_req_d = nxt.put_req_d, nxt'.init_req_d = nxt.init_req_d
      PROVE  InitiatorPart'
  BY <1>1, <1>6 DEF Parts, InitiatorPart, InitiatorSame, InitiatorStep
<1>7. ASSUME "sync_thread" \in runnable <=> "sync_thread" \in runnable',
             InitSync => /\ nxt'.put_req = nxt.put_req /\ nxt'.core_data = nxt.core_data
                         /\ nxt'.sync_req_d = nxt.sync_req_d
      PROVE  SyncPart'
  BY <1>1, <1>7 DEF Parts, SyncPart, SyncSame, SyncThread
<1>8. ASSUME "put" \in runnable <=> "put" \in runnable', put_ok' = put_ok,
             Reg(nxt)' = Reg(nxt), RegData(nxt)' = RegData(nxt)
      PROVE  PutPart'
  BY <1>1, <1>8 DEF Parts, PutPart, PutSame, PutThread, PutMethod, PutWrites
<1>9. ASSUME "get" \in runnable <=> "get" \in runnable', get_ok' = get_ok,
             nxt'.get_req = nxt.get_req
      PROVE  GetPart'
  BY <1>1, <1>9 DEF Parts, GetPart, GetThread, GetMethod
<1> QED BY <1>2, <1>3, <1>4, <1>5, <1>6, <1>7, <1>8, <1>9

\* The kernel's part in a step of process p, which returns nothing to a method
\* while an edge is evaluated.
LEMMA KernelKept ==
    ASSUME Types, Parts, UNCHANGED <<cfg, cur, rst, edge>>, NEW p, Runs(p),
           put_ok' = put_ok \/ p = "put", get_ok' = get_ok \/ p = "get"
    PROVE  KernelPart'
<1>1. /\ InitSync' = InitSync /\ TargSync' = TargSync /\ Holds' = Holds
      /\ CoreReq(cur)' = CoreReq(cur) /\ CoreReady(cur)' = CoreReady(cur)
      /\ CoreDataOut(cur)' = CoreDataOut(cur)
      /\ Ready(cur)' = Ready(cur) /\ Request(cur)' = Request(cur)
      /\ Reg(cur)' = Reg(cur) /\ RegData(cur)' = RegData(cur)
      /\ Clocked' = Clocked
  BY DEF InitSync, TargSync, Holds, CoreReq, NewPut, CoreReady, Taken, CoreDataOut,
         Ready, Request, Reg, RegData, Clocked
<1>2. KernelPart /\ runnable' \subseteq runnable /\ p \in runnable
  BY DEF Parts, Runs
<1>3. ASSUME edge # "none", ~rst PROVE Stable'
  <2>1. edge = "clock" /\ p \in Clocked /\ Stable
    BY <1>2, <1>3 DEF Types, KernelPart
  <2>2. /\ ~cfg.cthread_put => put_ok' = put_ok
        /\ ~cfg.cthread_get => get_ok' = get_ok
    BY <2>1, Processes
  <2> QED BY <1>1, <2>1, <2>2 DEF Stable, PutMethod, PutWrites, GetMethod
<1> QED BY <1>1, <1>2, <1>3 DEF KernelPart

\* A step of the evaluation phase keeps QuietPart unless it puts before the
\* first edge.
LEMMA QuietKept ==
    ASSUME Parts, UNCHANGED <<cfg, cur, rst, edge>>,
           nxt'.put_op = nxt.put_op, nxt'.get_op = nxt.get_op,
           cfg.always_ready /\ Quiet(nxt) /\ Quiet(cur) /\ edge # "clock" =>
               ~nxt'.put_req /\ ~nxt'.put_req_d /\ ~nxt'.targ_req_d
    PROVE  QuietPart'
  BY DEF Parts, QuietPart, Quiet

\* The queue and the types in a step of the evaluation phase.
LEMMA WordsKept ==
    ASSUME UNCHANGED <<cfg, cur>>
    PROVE  Words(cur)' = Words(cur)
  BY DEF Words, Keeps, Held, Synced, Word, CoreReq, NewPut, Taken, Holds, InitSync, TargSync

\* A step of one process keeps the types if what it writes has them.
LEMMA TypesKept ==
    ASSUME Types, UNCHANGED <<cfg, cur, rst, edge, q, op, resets>>, NEW p, Runs(p),
           nxt' \in Signals, put_ok' \in Result, get_ok' \in Result,
           blocked' \in [put : BOOLEAN, get : BOOLEAN]
    PROVE  Types'
<1>1. Clocked' = Clocked /\ (DOMAIN Sensitive)' = DOMAIN Sensitive
  BY Processes DEF Clocked, InitSync, Holds, Sensitive
<1> QED BY <1>1 DEF Types, Runs

-----------------------------------------------------------------------------
(* The processes of the two modules.                                         *)

\* The step of req_control.
LEMMA ReqStep == ASSUME Inv, req_control PROVE Inv'
<1>1. /\ Types /\ Parts /\ nxt \in Signals /\ CoreReq(cur) \in BOOLEAN
      /\ q = Words(cur) /\ put_ok \in Result /\ get_ok \in Result
      /\ blocked \in [put : BOOLEAN, get : BOOLEAN]
  BY OutputTypes DEF Inv, Types
<1>2. Runs("req_control") /\ UNCHANGED <<cfg, cur, rst, edge, put_ok, get_ok, blocked, q, op, resets>>
      /\ nxt' = [nxt EXCEPT !.core_req = CoreReq(cur)]
  BY DEF req_control, ModuleFrame
<1>3. /\ nxt' \in Signals /\ nxt'.core_req = CoreReq(cur)
      /\ nxt'.put_req = nxt.put_req /\ nxt'.put_req_d = nxt.put_req_d
      /\ nxt'.init_req_d = nxt.init_req_d /\ nxt'.sync_req = nxt.sync_req
      /\ nxt'.sync_req_d = nxt.sync_req_d /\ nxt'.sync_data = nxt.sync_data
      /\ nxt'.core_data = nxt.core_data /\ nxt'.core_ready = nxt.core_ready
      /\ nxt'.get_req = nxt.get_req /\ nxt'.get_req_d = nxt.get_req_d
      /\ nxt'.targ_req_d = nxt.targ_req_d /\ nxt'.core_data_d = nxt.core_data_d
      /\ nxt'.core_data_out = nxt.core_data_out
      /\ nxt'.put_op = nxt.put_op /\ nxt'.get_op = nxt.get_op
  BY <1>1, <1>2 DEF Signals
<1>4. runnable' = runnable \ {"req_control"} /\ InitSync' = InitSync
      /\ Reg(nxt)' = Reg(nxt) /\ RegData(nxt)' = RegData(nxt)
  BY <1>2, <1>3 DEF Runs, Reg, RegData, InitSync
<1>5. ReqPart'
  BY <1>2, <1>3 DEF ReqPart, CoreReq, NewPut, Holds, InitSync
<1>6. ReadyPart' /\ MuxPart' /\ TargetPart' /\ InitiatorPart' /\ SyncPart' /\ PutPart' /\ GetPart'
  BY <1>1, <1>2, <1>3, <1>4, Kept
<1>7. KernelPart' /\ QuietPart'
  <2>1. KernelPart'
    BY <1>1, <1>2, KernelKept
  <2>2. QuietPart'
    BY <1>1, <1>2, <1>3, QuietKept DEF Quiet
  <2> QED BY <2>1, <2>2
<1>8. Types' /\ q' = Words(cur)'
  <2>1. Types'
    BY <1>1, <1>2, <1>3, TypesKept
  <2>2. Words(cur)' = Words(cur)
    BY <1>2, WordsKept
  <2> QED BY <1>1, <1>2, <2>1, <2>2
<1> QED BY <1>5, <1>6, <1>7, <1>8 DEF Inv, Parts

\* The step of ready_control, or core_ready_meth.
LEMMA ReadyStep == ASSUME Inv, ready_control PROVE Inv'
<1>1. /\ Types /\ Parts /\ nxt \in Signals /\ CoreReady(cur) \in BOOLEAN
      /\ q = Words(cur) /\ put_ok \in Result /\ get_ok \in Result
      /\ blocked \in [put : BOOLEAN, get : BOOLEAN]
  BY OutputTypes DEF Inv, Types
<1>2. Runs("ready_control") /\ UNCHANGED <<cfg, cur, rst, edge, put_ok, get_ok, blocked, q, op, resets>>
      /\ nxt' = [nxt EXCEPT !.core_ready = CoreReady(cur)]
  BY DEF ready_control, ModuleFrame
<1>3. /\ nxt' \in Signals /\ nxt'.core_ready = CoreReady(cur)
      /\ nxt'.put_req = nxt.put_req /\ nxt'.put_req_d = nxt.put_req_d
      /\ nxt'.init_req_d = nxt.init_req_d /\ nxt'.sync_req = nxt.sync_req
      /\ nxt'.sync_req_d = nxt.sync_req_d /\ nxt'.sync_data = nxt.sync_data
      /\ nxt'.core_data = nxt.core_data /\ nxt'.core_req = nxt.core_req
      /\ nxt'.get_req = nxt.get_req /\ nxt'.get_req_d = nxt.get_req_d
      /\ nxt'.targ_req_d = nxt.targ_req_d /\ nxt'.core_data_d = nxt.core_data_d
      /\ nxt'.core_data_out = nxt.core_data_out
      /\ nxt'.put_op = nxt.put_op /\ nxt'.get_op = nxt.get_op
  BY <1>1, <1>2 DEF Signals
<1>4. runnable' = runnable \ {"ready_control"} /\ InitSync' = InitSync
      /\ Reg(nxt)' = Reg(nxt) /\ RegData(nxt)' = RegData(nxt)
  BY <1>2, <1>3 DEF Runs, Reg, RegData, InitSync
<1>5. ReadyPart'
  BY <1>2, <1>3 DEF ReadyPart, CoreReady, Taken
<1>6. ReqPart' /\ MuxPart' /\ TargetPart' /\ InitiatorPart' /\ SyncPart' /\ PutPart' /\ GetPart'
  BY <1>1, <1>2, <1>3, <1>4, Kept
<1>7. KernelPart' /\ QuietPart'
  <2>1. KernelPart'
    BY <1>1, <1>2, KernelKept
  <2>2. QuietPart'
    BY <1>1, <1>2, <1>3, QuietKept DEF Quiet
  <2> QED BY <2>1, <2>2
<1>8. Types' /\ q' = Words(cur)'
  <2>1. Types'
    BY <1>1, <1>2, <1>3, TypesKept
  <2>2. Words(cur)' = Words(cur)
    BY <1>2, WordsKept
  <2> QED BY <1>1, <1>2, <2>1, <2>2
<1> QED BY <1>5, <1>6, <1>7, <1>8 DEF Inv, Parts

\* The step of core_data_mux.
LEMMA MuxStep == ASSUME Inv, core_data_mux PROVE Inv'
<1>1. /\ Types /\ Parts /\ nxt \in Signals /\ CoreDataOut(cur) \in Data
      /\ q = Words(cur) /\ put_ok \in Result /\ get_ok \in Result
      /\ blocked \in [put : BOOLEAN, get : BOOLEAN]
  BY OutputTypes DEF Inv, Types
<1>2. Runs("core_data_mux") /\ UNCHANGED <<cfg, cur, rst, edge, put_ok, get_ok, blocked, q, op, resets>>
      /\ nxt' = [nxt EXCEPT !.core_data_out = CoreDataOut(cur)]
  BY DEF core_data_mux, ModuleFrame
<1>3. /\ nxt' \in Signals /\ nxt'.core_data_out = CoreDataOut(cur)
      /\ nxt'.put_req = nxt.put_req /\ nxt'.put_req_d = nxt.put_req_d
      /\ nxt'.init_req_d = nxt.init_req_d /\ nxt'.sync_req = nxt.sync_req
      /\ nxt'.sync_req_d = nxt.sync_req_d /\ nxt'.sync_data = nxt.sync_data
      /\ nxt'.core_data = nxt.core_data /\ nxt'.core_req = nxt.core_req
      /\ nxt'.core_ready = nxt.core_ready
      /\ nxt'.get_req = nxt.get_req /\ nxt'.get_req_d = nxt.get_req_d
      /\ nxt'.targ_req_d = nxt.targ_req_d /\ nxt'.core_data_d = nxt.core_data_d
      /\ nxt'.put_op = nxt.put_op /\ nxt'.get_op = nxt.get_op
  BY <1>1, <1>2 DEF Signals
<1>4. runnable' = runnable \ {"core_data_mux"} /\ InitSync' = InitSync
      /\ Reg(nxt)' = Reg(nxt) /\ RegData(nxt)' = RegData(nxt)
  BY <1>2, <1>3 DEF Runs, Reg, RegData, InitSync
<1>5. MuxPart'
  BY <1>2, <1>3 DEF MuxPart, CoreDataOut, TargSync
<1>6. ReqPart' /\ ReadyPart' /\ TargetPart' /\ InitiatorPart' /\ SyncPart' /\ PutPart' /\ GetPart'
  BY <1>1, <1>2, <1>3, <1>4, Kept
<1>7. KernelPart' /\ QuietPart'
  <2>1. KernelPart'
    BY <1>1, <1>2, KernelKept
  <2>2. QuietPart'
    BY <1>1, <1>2, <1>3, QuietKept DEF Quiet
  <2> QED BY <2>1, <2>2
<1>8. Types' /\ q' = Words(cur)'
  <2>1. Types'
    BY <1>1, <1>2, <1>3, TypesKept
  <2>2. Words(cur)' = Words(cur)
    BY <1>2, WordsKept
  <2> QED BY <1>1, <1>2, <2>1, <2>2
<1> QED BY <1>5, <1>6, <1>7, <1>8 DEF Inv, Parts

\* The clocked processes run in the evaluation phase of an edge only.
LEMMA AtEdge ==
    ASSUME Types, Parts, NEW p, Runs(p), p \in {"targ_core_thread", "sync_thread", "init_core_thread"}
    PROVE  /\ edge # "none" /\ p \in runnable /\ runnable' = runnable \ {p}
           /\ p = "sync_thread" => InitSync
           /\ p = "init_core_thread" => Holds
  BY Processes DEF Types, Parts, KernelPart, Runs

\* The step of sync_thread.
LEMMA SyncThreadStep == ASSUME Inv, sync_thread PROVE Inv'
<1>1. /\ Types /\ Parts /\ nxt \in Signals /\ cur \in Signals
      /\ q = Words(cur) /\ put_ok \in Result /\ get_ok \in Result
      /\ blocked \in [put : BOOLEAN, get : BOOLEAN]
      /\ cfg.cthread_put \in BOOLEAN /\ rst \in BOOLEAN /\ ZERO \in Data
  BY ConfigType, DataAssumption DEF Inv, Types
<1>2. Runs("sync_thread") /\ UNCHANGED <<cfg, cur, rst, edge, put_ok, get_ok, blocked, q, op, resets>>
  BY DEF sync_thread, ModuleFrame
<1>3. /\ edge # "none" /\ InitSync /\ InitSync' /\ ~cfg.always_ready
      /\ "sync_thread" \in runnable /\ runnable' = runnable \ {"sync_thread"}
  BY <1>1, <1>2, AtEdge DEF InitSync
<1>4. PICK r \in BOOLEAN, d \in Data, e \in BOOLEAN :
         /\ nxt' = [nxt EXCEPT !.put_req = r, !.core_data = d, !.sync_req_d = e]
         /\ IF rst THEN ~r /\ (cfg.cthread_put => ~e)
            ELSE IF Moves
            THEN r = ~cur.put_req /\ d = cur.sync_data /\ (cfg.cthread_put => e = cur.sync_req)
            ELSE r = nxt.put_req /\ d = nxt.core_data /\ e = nxt.sync_req_d
  <2>1. CASE rst
    <3> DEFINE e == IF cfg.cthread_put THEN FALSE ELSE nxt.sync_req_d
    <3>1. nxt' = [nxt EXCEPT !.put_req = FALSE, !.core_data = ZERO, !.sync_req_d = e]
      BY <2>1 DEF sync_thread
    <3>2. e \in BOOLEAN /\ (cfg.cthread_put => ~e)
      BY <1>1 DEF Signals
    <3> HIDE DEF e
    <3> QED BY <1>1, <2>1, <3>1, <3>2
  <2>2. CASE ~rst /\ Moves
    <3> DEFINE e == IF cfg.cthread_put THEN cur.sync_req ELSE nxt.sync_req_d
               r == ~cur.put_req
    <3>1. nxt' = [nxt EXCEPT !.put_req = r, !.core_data = cur.sync_data, !.sync_req_d = e]
      BY <2>2 DEF sync_thread, SyncStep, Moves
    <3>2. e \in BOOLEAN /\ (cfg.cthread_put => e = cur.sync_req) /\ r \in BOOLEAN
          /\ cur.sync_data \in Data /\ r = ~cur.put_req
      BY <1>1 DEF Signals
    <3> HIDE DEF e, r
    <3> QED BY <2>2, <3>1, <3>2
  <2>3. CASE ~rst /\ ~Moves
    <3>1. nxt' = nxt
      BY <2>3 DEF sync_thread, SyncStep, Moves
    <3>2. nxt = [nxt EXCEPT !.put_req = nxt.put_req, !.core_data = nxt.core_data,
                            !.sync_req_d = nxt.sync_req_d]
          /\ nxt.put_req \in BOOLEAN /\ nxt.core_data \in Data /\ nxt.sync_req_d \in BOOLEAN
      BY <1>1 DEF Signals
    <3> QED BY <2>3, <3>1, <3>2
  <2> QED BY <2>1, <2>2, <2>3
<1>5. /\ nxt' \in Signals /\ nxt'.put_req = r /\ nxt'.core_data = d /\ nxt'.sync_req_d = e
      /\ nxt'.put_req_d = nxt.put_req_d
      /\ nxt'.init_req_d = nxt.init_req_d /\ nxt'.sync_req = nxt.sync_req
      /\ nxt'.sync_data = nxt.sync_data
      /\ nxt'.core_req = nxt.core_req /\ nxt'.core_ready = nxt.core_ready
      /\ nxt'.get_req = nxt.get_req /\ nxt'.get_req_d = nxt.get_req_d
      /\ nxt'.targ_req_d = nxt.targ_req_d /\ nxt'.core_data_d = nxt.core_data_d
      /\ nxt'.core_data_out = nxt.core_data_out
      /\ nxt'.put_op = nxt.put_op /\ nxt'.get_op = nxt.get_op
  BY <1>1, <1>4 DEF Signals
<1>6. Reg(nxt)' = Reg(nxt) /\ RegData(nxt)' = RegData(nxt) /\ Moves' = Moves
  BY <1>2, <1>3, <1>5 DEF Reg, RegData, Moves
<1>7. SyncPart'
  <2>1. SyncSame
    BY <1>1, <1>3 DEF Parts, SyncPart
  <2> QED BY <1>2, <1>3, <1>4, <1>5, <1>6, <2>1 DEF SyncPart, SyncThread, SyncSame
<1>8. ReqPart' /\ ReadyPart' /\ MuxPart' /\ TargetPart' /\ InitiatorPart' /\ PutPart' /\ GetPart'
  BY <1>1, <1>2, <1>3, <1>5, <1>6, Kept
<1>9. KernelPart' /\ QuietPart'
  <2>1. KernelPart'
    BY <1>1, <1>2, KernelKept
  <2>2. QuietPart'
    BY <1>1, <1>2, <1>3, <1>5, QuietKept DEF Quiet
  <2> QED BY <2>1, <2>2
<1>10. Types' /\ q' = Words(cur)'
  <2>1. Types'
    BY <1>1, <1>2, <1>5, TypesKept
  <2>2. Words(cur)' = Words(cur)
    BY <1>2, WordsKept
  <2> QED BY <1>1, <1>2, <2>1, <2>2
<1> QED BY <1>7, <1>8, <1>9, <1>10 DEF Inv, Parts

\* The step of the initiator's core_thread.
LEMMA InitiatorThreadStep == ASSUME Inv, init_core_thread PROVE Inv'
<1> DEFINE a == ~rst /\ cur.put_req
           b == IF cfg.always_ready THEN nxt.init_req_d
                ELSE ~rst /\ ~cur.core_ready /\ cur.core_req
<1>1. /\ Types /\ Parts /\ nxt \in Signals /\ cur \in Signals
      /\ q = Words(cur) /\ put_ok \in Result /\ get_ok \in Result
      /\ blocked \in [put : BOOLEAN, get : BOOLEAN]
      /\ cfg.always_ready \in BOOLEAN /\ rst \in BOOLEAN
  BY ConfigType DEF Inv, Types
<1>2. Runs("init_core_thread") /\ UNCHANGED <<cfg, cur, rst, edge, put_ok, get_ok, blocked, q, op, resets>>
      /\ nxt' = [nxt EXCEPT !.put_req_d = a, !.init_req_d = b]
  BY DEF init_core_thread, ModuleFrame
<1>3. /\ edge # "none" /\ Holds /\ Holds'
      /\ "init_core_thread" \in runnable /\ runnable' = runnable \ {"init_core_thread"}
  BY <1>1, <1>2, AtEdge DEF Holds, InitSync
<1>4. a \in BOOLEAN /\ b \in BOOLEAN
  BY <1>1 DEF Signals
<1>5. /\ nxt' \in Signals /\ nxt'.put_req_d = a /\ nxt'.init_req_d = b
      /\ nxt'.put_req = nxt.put_req
      /\ nxt'.sync_req_d = nxt.sync_req_d /\ nxt'.sync_data = nxt.sync_data
      /\ nxt'.sync_req = nxt.sync_req
      /\ nxt'.core_data = nxt.core_data /\ nxt'.core_req = nxt.core_req
      /\ nxt'.core_ready = nxt.core_ready
      /\ nxt'.get_req = nxt.get_req /\ nxt'.get_req_d = nxt.get_req_d
      /\ nxt'.targ_req_d = nxt.targ_req_d /\ nxt'.core_data_d = nxt.core_data_d
      /\ nxt'.core_data_out = nxt.core_data_out
      /\ nxt'.put_op = nxt.put_op /\ nxt'.get_op = nxt.get_op
  <2> HIDE DEF a, b
  <2> QED BY <1>1, <1>2, <1>4 DEF Signals
<1>6. Reg(nxt)' = Reg(nxt) /\ RegData(nxt)' = RegData(nxt) /\ InitSync' = InitSync
  BY <1>2, <1>5 DEF Reg, RegData, InitSync
<1>7. InitiatorPart'
  <2>1. InitiatorSame
    BY <1>1, <1>3 DEF Parts, InitiatorPart
  <2> QED BY <1>2, <1>3, <1>5, <2>1 DEF InitiatorPart, InitiatorStep
<1>8. ReqPart' /\ ReadyPart' /\ MuxPart' /\ TargetPart' /\ SyncPart' /\ PutPart' /\ GetPart'
  BY <1>1, <1>2, <1>3, <1>5, <1>6, Kept
<1>9. KernelPart' /\ QuietPart'
  <2>1. KernelPart'
    BY <1>1, <1>2, KernelKept
  <2>2. edge # "clock" => rst
    BY <1>1, <1>3 DEF Types, Parts, KernelPart
  <2>3. QuietPart'
    BY <1>1, <1>2, <1>3, <1>5, <2>2, QuietKept DEF Quiet
  <2> QED BY <2>1, <2>3
<1>10. Types' /\ q' = Words(cur)'
  <2>1. Types'
    BY <1>1, <1>2, <1>5, TypesKept
  <2>2. Words(cur)' = Words(cur)
    BY <1>2, WordsKept
  <2> QED BY <1>1, <1>2, <2>1, <2>2
<1> QED BY <1>7, <1>8, <1>9, <1>10 DEF Inv, Parts

\* The step of the target's core_thread, or always_ready_thread.
LEMMA TargetThreadStep == ASSUME Inv, targ_core_thread PROVE Inv'
<1>1. /\ Types /\ Parts /\ nxt \in Signals /\ cur \in Signals
      /\ q = Words(cur) /\ put_ok \in Result /\ get_ok \in Result
      /\ blocked \in [put : BOOLEAN, get : BOOLEAN]
      /\ cfg.always_ready \in BOOLEAN /\ rst \in BOOLEAN /\ ZERO \in Data
      /\ TargSync \in BOOLEAN
  BY ConfigType, DataAssumption DEF Inv, Types
<1>2. Runs("targ_core_thread") /\ UNCHANGED <<cfg, cur, rst, edge, put_ok, get_ok, blocked, q, op, resets>>
  BY DEF targ_core_thread, ModuleFrame
<1>3. /\ edge # "none" /\ TargSync' = TargSync
      /\ "targ_core_thread" \in runnable /\ runnable' = runnable \ {"targ_core_thread"}
  BY <1>1, <1>2, AtEdge DEF TargSync
<1>4. TargetSame
  BY <1>1, <1>3 DEF Parts, TargetPart
<1>5. PICK a \in BOOLEAN, b \in BOOLEAN, d \in Data :
         /\ nxt' = [nxt EXCEPT !.get_req_d = a, !.targ_req_d = b, !.core_data_d = d]
         /\ IF cfg.always_ready
            THEN IF TargSync
                 THEN b = (~rst /\ cur.core_req) /\ d = IF rst THEN ZERO ELSE cur.core_data
                 ELSE a = cur.get_req_d /\ b = cur.targ_req_d /\ d = cur.core_data_d
            ELSE /\ a = (~rst /\ cur.get_req)
                 /\ b = (~rst /\ (~cur.core_ready \/ cur.core_req))
                 /\ ~rst => d = IF cur.core_req /\ cur.core_ready
                                THEN cur.core_data ELSE cur.core_data_d
  <2>1. CASE cfg.always_ready /\ TargSync
    <3> DEFINE b == ~rst /\ cur.core_req
               d == IF rst THEN ZERO ELSE cur.core_data
    <3>1. nxt' = [nxt EXCEPT !.targ_req_d = b, !.core_data_d = d]
      BY <2>1 DEF targ_core_thread
    <3>2. b \in BOOLEAN /\ d \in Data /\ nxt.get_req_d \in BOOLEAN
      BY <1>1 DEF Signals
    <3> HIDE DEF b, d
    <3>3. nxt' = [nxt EXCEPT !.get_req_d = nxt.get_req_d, !.targ_req_d = b, !.core_data_d = d]
      BY <1>1, <3>1 DEF Signals
    <3> USE DEF b, d
    <3> QED BY <2>1, <3>2, <3>3
  <2>2. CASE cfg.always_ready /\ ~TargSync
    <3>1. nxt' = nxt
      BY <2>2 DEF targ_core_thread
    <3>2. nxt = [nxt EXCEPT !.get_req_d = nxt.get_req_d, !.targ_req_d = nxt.targ_req_d,
                            !.core_data_d = nxt.core_data_d]
          /\ nxt.get_req_d \in BOOLEAN /\ nxt.targ_req_d \in BOOLEAN /\ nxt.core_data_d \in Data
      BY <1>1 DEF Signals
    <3> QED BY <1>4, <2>2, <3>1, <3>2 DEF TargetSame
  <2>3. CASE ~cfg.always_ready
    <3> DEFINE a == ~rst /\ cur.get_req
               b == ~rst /\ (~cur.core_ready \/ cur.core_req)
               d == IF rst THEN ZERO ELSE IF cur.core_req /\ cur.core_ready
                                          THEN cur.core_data ELSE nxt.core_data_d
    <3>1. nxt' = [nxt EXCEPT !.get_req_d = a, !.targ_req_d = b, !.core_data_d = d]
      BY <2>3 DEF targ_core_thread
    <3>2. a \in BOOLEAN /\ b \in BOOLEAN /\ d \in Data
      BY <1>1 DEF Signals
    <3>3. ~rst => d = IF cur.core_req /\ cur.core_ready THEN cur.core_data ELSE cur.core_data_d
      BY <1>4 DEF TargetSame
    <3>4. a = (~rst /\ cur.get_req) /\ b = (~rst /\ (~cur.core_ready \/ cur.core_req))
      OBVIOUS
    <3> HIDE DEF a, b, d
    <3> QED BY <2>3, <3>1, <3>2, <3>3, <3>4
  <2> QED BY <2>1, <2>2, <2>3
<1>6. /\ nxt' \in Signals /\ nxt'.get_req_d = a /\ nxt'.targ_req_d = b /\ nxt'.core_data_d = d
      /\ nxt'.put_req = nxt.put_req /\ nxt'.put_req_d = nxt.put_req_d
      /\ nxt'.init_req_d = nxt.init_req_d /\ nxt'.sync_req = nxt.sync_req
      /\ nxt'.sync_req_d = nxt.sync_req_d /\ nxt'.sync_data = nxt.sync_data
      /\ nxt'.core_data = nxt.core_data /\ nxt'.core_req = nxt.core_req
      /\ nxt'.core_ready = nxt.core_ready /\ nxt'.get_req = nxt.get_req
      /\ nxt'.core_data_out = nxt.core_data_out
      /\ nxt'.put_op = nxt.put_op /\ nxt'.get_op = nxt.get_op
  BY <1>1, <1>5 DEF Signals
<1>7. Reg(nxt)' = Reg(nxt) /\ RegData(nxt)' = RegData(nxt) /\ InitSync' = InitSync
  BY <1>2, <1>6 DEF Reg, RegData, InitSync
<1>8. TargetPart'
  BY <1>2, <1>3, <1>5, <1>6 DEF TargetPart, TargetStep, TargetSame
<1>9. ReqPart' /\ ReadyPart' /\ MuxPart' /\ InitiatorPart' /\ SyncPart' /\ PutPart' /\ GetPart'
  BY <1>1, <1>2, <1>3, <1>6, <1>7, Kept
<1>10. KernelPart' /\ QuietPart'
  <2>1. KernelPart'
    BY <1>1, <1>2, KernelKept
  <2>2. edge # "clock" => rst
    BY <1>1, <1>3 DEF Types, Parts, KernelPart
  <2>3. cfg.always_ready /\ Quiet(cur) /\ edge # "clock" => ~nxt'.targ_req_d
    BY <1>5, <1>6, <2>2 DEF Quiet
  <2>4. QuietPart'
    BY <1>1, <1>2, <1>3, <1>6, <2>3, QuietKept DEF Quiet
  <2> QED BY <2>1, <2>4
<1>11. Types' /\ q' = Words(cur)'
  <2>1. Types'
    BY <1>1, <1>2, <1>6, TypesKept
  <2>2. Words(cur)' = Words(cur)
    BY <1>2, WordsKept
  <2> QED BY <1>1, <1>2, <2>1, <2>2
<1> QED BY <1>8, <1>9, <1>10, <1>11 DEF Inv, Parts

-----------------------------------------------------------------------------
(* The calls of the PUT process.                                             *)

\* A put writes one request register and one data register.
LEMMA SentIs ==
    ASSUME nxt \in Signals, cfg \in Configs, UNCHANGED cfg,
           NEW r \in BOOLEAN, NEW d \in Data, nxt' = Sent(r, d)
    PROVE  /\ nxt' \in Signals /\ Reg(nxt)' = r /\ RegData(nxt)' = d
           /\ InitSync => nxt'.put_req = nxt.put_req /\ nxt'.core_data = nxt.core_data
           /\ ~InitSync => nxt'.put_req = r
           /\ nxt'.put_req_d = nxt.put_req_d /\ nxt'.init_req_d = nxt.init_req_d
           /\ nxt'.sync_req_d = nxt.sync_req_d
           /\ nxt'.core_req = nxt.core_req /\ nxt'.core_ready = nxt.core_ready
           /\ nxt'.get_req = nxt.get_req /\ nxt'.get_req_d = nxt.get_req_d
           /\ nxt'.targ_req_d = nxt.targ_req_d /\ nxt'.core_data_d = nxt.core_data_d
           /\ nxt'.core_data_out = nxt.core_data_out
           /\ nxt'.put_op = nxt.put_op /\ nxt'.get_op = nxt.get_op
<1>0. InitSync' = InitSync /\ InitSync \in BOOLEAN
  BY ConfigType DEF InitSync
<1>1. CASE InitSync
  <2>1. nxt' = [nxt EXCEPT !.sync_req = r, !.sync_data = d]
    BY <1>1 DEF Sent
  <2> QED BY <1>0, <1>1, <2>1 DEF Signals, Reg, RegData
<1>2. CASE ~InitSync
  <2>1. nxt' = [nxt EXCEPT !.put_req = r, !.core_data = d]
    BY <1>2 DEF Sent
  <2> QED BY <1>0, <1>2, <2>1 DEF Signals, Reg, RegData
<1> QED BY <1>0, <1>1, <1>2

\* A call of the PUT process that establishes PutPart keeps the invariant.
LEMMA PutCall ==
    ASSUME Inv, Runs("put"), PutFrame, NEW r \in BOOLEAN, NEW d \in Data,
           nxt' = nxt \/ nxt' = Sent(r, d), put_ok' \in Result,
           blocked' \in [put : BOOLEAN, get : BOOLEAN], PutPart',
           cfg.always_ready /\ Quiet(nxt) /\ Quiet(cur) /\ edge # "clock" =>
               nxt' = nxt \/ ~r
    PROVE  Inv'
<1>1. /\ Types /\ Parts /\ nxt \in Signals /\ cfg \in Configs
      /\ q = Words(cur) /\ get_ok \in Result
      /\ InitSync \in BOOLEAN /\ (InitSync => ~cfg.always_ready)
  BY ConfigType DEF Inv, Types
<1>2. UNCHANGED <<cfg, cur, rst, edge, get_ok, q, op, resets>>
      /\ runnable' = runnable \ {"put"}
  BY DEF PutFrame, Runs
<1>3. /\ nxt' \in Signals
      /\ InitSync => nxt'.put_req = nxt.put_req /\ nxt'.core_data = nxt.core_data
      /\ nxt' = nxt \/ InitSync \/ nxt'.put_req = r
      /\ nxt'.put_req_d = nxt.put_req_d /\ nxt'.init_req_d = nxt.init_req_d
      /\ nxt'.sync_req_d = nxt.sync_req_d
      /\ nxt'.core_req = nxt.core_req /\ nxt'.core_ready = nxt.core_ready
      /\ nxt'.get_req = nxt.get_req /\ nxt'.get_req_d = nxt.get_req_d
      /\ nxt'.targ_req_d = nxt.targ_req_d /\ nxt'.core_data_d = nxt.core_data_d
      /\ nxt'.core_data_out = nxt.core_data_out
      /\ nxt'.put_op = nxt.put_op /\ nxt'.get_op = nxt.get_op
  <2>1. CASE nxt' = nxt
    BY <1>1, <2>1
  <2>2. CASE nxt' = Sent(r, d)
    BY <1>1, <1>2, <2>2, SentIs
  <2> QED BY <2>1, <2>2
<1>4. ReqPart' /\ ReadyPart' /\ MuxPart' /\ TargetPart' /\ InitiatorPart' /\ SyncPart' /\ GetPart'
  BY <1>1, <1>2, <1>3, Kept
<1>5. KernelPart'
  BY <1>1, <1>2, KernelKept
<1>6. cfg.always_ready /\ Quiet(nxt) /\ Quiet(cur) /\ edge # "clock" =>
         ~nxt'.put_req /\ ~nxt'.put_req_d /\ ~nxt'.targ_req_d
  BY <1>1, <1>3 DEF Quiet
<1>7. QuietPart'
  BY <1>1, <1>2, <1>3, <1>6, QuietKept
<1>8. Types'
  BY <1>1, <1>2, <1>3, TypesKept
<1>9. q' = Words(cur)'
  BY <1>1, <1>2, WordsKept
<1> QED BY <1>4, <1>5, <1>7, <1>8, <1>9 DEF Inv, Parts

\* What a call has to leave behind, by kind of process.
LEMMA PutPartIs ==
    ASSUME Inv, Runs("put"), PutFrame
    PROVE  /\ cfg.cthread_put => edge # "none" /\ PutSame
           /\ edge # "none" /\ edge # "clock" => rst
           /\ cfg.cthread_put /\ PutThread' => PutPart'
           /\ ~cfg.cthread_put /\ PutMethod(cur)' /\ PutWrites(nxt)' => PutPart'
           /\ InitSync' = InitSync /\ Ready(cur)' = Ready(cur)
           /\ Reg(cur)' = Reg(cur) /\ RegData(cur)' = RegData(cur)
           /\ (nxt' = nxt => Reg(nxt)' = Reg(nxt) /\ RegData(nxt)' = RegData(nxt))
           /\ UNCHANGED <<cfg, cur, rst, edge>>
<1>1. "put" \in runnable /\ runnable' = runnable \ {"put"} /\ UNCHANGED <<cfg, cur, rst, edge>>
  BY DEF Runs, PutFrame
<1>2. cfg.cthread_put => edge # "none" /\ PutSame
  BY <1>1, Processes DEF Inv, Parts, KernelPart, PutPart
<1>3. edge # "none" /\ edge # "clock" => rst
  BY DEF Inv, Types, Parts, KernelPart
<1>4. /\ cfg.cthread_put /\ PutThread' => PutPart'
      /\ ~cfg.cthread_put /\ PutMethod(cur)' /\ PutWrites(nxt)' => PutPart'
  BY <1>1, <1>2 DEF PutPart
<1> QED BY <1>1, <1>2, <1>3, <1>4 DEF InitSync, Ready, Reg, RegData

\* Every call of the PUT process.
LEMMA PutStep == ASSUME Inv, PutProc PROVE Inv'
<1>1. /\ cfg \in Configs /\ nxt \in Signals /\ cur \in Signals /\ rst \in BOOLEAN
      /\ blocked \in [put : BOOLEAN, get : BOOLEAN]
      /\ cfg.cthread_put \in BOOLEAN /\ cfg.always_ready \in BOOLEAN
      /\ InitSync \in BOOLEAN /\ (InitSync => ~cfg.always_ready)
  BY ConfigType DEF Inv, Types
<1>2. ZERO \in Data /\ Nothing \in Result /\ Nothing.done = FALSE
  BY DataAssumption, OutcomeType
<1>3. /\ Ready(cur) \in BOOLEAN /\ Reg(cur) \in BOOLEAN /\ RegData(cur) \in Data
      /\ Reg(nxt) \in BOOLEAN /\ RegData(nxt) \in Data
      /\ cur.core_ready \in BOOLEAN
      /\ PutReg = Reg(cur) /\ (cfg.always_ready => Ready(cur))
      /\ (~cfg.always_ready => Ready(cur) = cur.core_ready)
  BY <1>1, OutputTypes DEF PutReg, Reg, Ready, Signals
<1>4. CASE reset_put
  <2>1. /\ Runs("put") /\ PutFrame /\ cfg.cthread_put /\ rst
        /\ nxt' = Sent(FALSE, ZERO) /\ put_ok' = Nothing
        /\ blocked' \in [put : BOOLEAN, get : BOOLEAN]
    BY <1>1, <1>4 DEF reset_put
  <2>2. Reg(nxt)' = FALSE
    BY <1>1, <1>2, <2>1, SentIs DEF PutFrame
  <2>3. rst'
    BY <2>1 DEF PutFrame
  <2>4. PutPart'
    BY <2>1, <2>2, <2>3, PutPartIs DEF PutThread
  <2> QED BY <1>2, <2>1, <2>4, PutCall
<1>5. CASE clear_put
  <2>1. /\ Runs("put") /\ PutFrame /\ put_ok' = Nothing /\ blocked' = blocked
        /\ IF cfg.cthread_put THEN ~rst ELSE cur.put_op = "clear"
    BY <1>5 DEF clear_put
  <2>2. UNCHANGED <<cfg, cur, rst, edge>>
    BY <2>1 DEF PutFrame
  <2>3. CASE ~cfg.cthread_put
    <3>1. nxt' = Sent(FALSE, ZERO)
      BY <1>5, <2>3 DEF clear_put
    <3>2. Reg(nxt)' = FALSE
      BY <1>1, <1>2, <2>2, <3>1, SentIs
    <3>3. PutMethod(cur)'
      BY <2>1, <2>2, <2>3 DEF PutMethod, Outcome, Nothing
    <3>4. PutWrites(nxt)'
      BY <1>2, <2>1, <3>2 DEF PutWrites
    <3>5. PutPart'
      BY <2>1, <2>3, <3>3, <3>4, PutPartIs
    <3> QED BY <1>1, <1>2, <2>1, <3>1, <3>5, PutCall
  <2>4. CASE cfg.cthread_put
    <3>0. edge # "none" /\ PutSame /\ ~rst /\ edge = "clock"
      BY <2>1, <2>4, PutPartIs
    <3>1. nxt' = nxt \/ (cfg.always_ready /\ nxt' = Sent(Reg(nxt), ZERO))
      <4>1. CASE cfg.always_ready
        <5>1. nxt' = [nxt EXCEPT !.core_data = ZERO]
          BY <1>5, <2>4, <4>1 DEF clear_put
        <5>2. [nxt EXCEPT !.core_data = ZERO] = [nxt EXCEPT !.put_req = nxt.put_req, !.core_data = ZERO]
          BY <1>1, <1>2 DEF Signals
        <5> QED BY <1>1, <4>1, <5>1, <5>2 DEF Sent, Reg
      <4>2. CASE ~cfg.always_ready
        BY <1>5, <2>4, <4>2 DEF clear_put
      <4> QED BY <1>1, <4>1, <4>2
    <3>2. /\ Reg(nxt)' = Reg(nxt)
          /\ RegData(nxt)' = RegData(nxt) \/ cfg.always_ready
      <4>1. CASE nxt' = nxt
        BY <2>1, <4>1, PutPartIs
      <4>2. CASE cfg.always_ready /\ nxt' = Sent(Reg(nxt), ZERO)
        BY <1>1, <1>2, <1>3, <2>2, <4>2, SentIs
      <4> QED BY <3>1, <4>1, <4>2
    <3>3. PutThread'
      <4>1. Reg(cur)' = Reg(cur) /\ RegData(cur)' = RegData(cur) /\ Ready(cur)' = Ready(cur)
        BY <2>1, PutPartIs
      <4>2. ~rst' /\ ~put_ok'.done
        BY <1>2, <2>1, <2>2, <3>0
      <4>3. Reg(nxt)' = Reg(cur)' /\ (~Ready(cur)' => RegData(nxt)' = RegData(cur)')
        BY <1>3, <3>0, <3>2, <4>1 DEF PutSame
      <4> QED BY <4>2, <4>3 DEF PutThread
    <3>4. PutPart'
      BY <2>1, <2>4, <3>3, PutPartIs
    <3>5. nxt' = nxt \/ nxt' = Sent(Reg(nxt), ZERO)
      BY <3>1
    <3> QED BY <1>1, <1>2, <1>3, <2>1, <3>0, <3>4, <3>5, PutCall
  <2> QED BY <1>1, <2>3, <2>4
<1>6. ASSUME NEW d \in Data, NEW mask \in BOOLEAN, put(d, mask),
             (IF mask THEN "put" ELSE "mask") \in PutOp
      PROVE  Inv'
  <2> DEFINE does == Ready(cur) /\ mask
  <2>1. /\ Runs("put") /\ PutFrame /\ blocked' = blocked /\ put_ok' = Outcome(does, d)
        /\ IF cfg.cthread_put THEN ~rst ELSE d = cur.put_val
    BY <1>6 DEF put
  <2>2. /\ does \in BOOLEAN /\ Outcome(does, d) \in Result /\ Outcome(does, d).done = does
        /\ does => Outcome(does, d).data = d
    BY <1>3, OutcomeType
  <2>3. UNCHANGED <<cfg, cur, rst, edge>>
    BY <2>1 DEF PutFrame
  <2>4. CASE ~cfg.cthread_put
    <3> DEFINE e == IF Ready(cur) THEN d ELSE ZERO
    <3>1. nxt' = Sent(does, e)
      <4>1. CASE Ready(cur)
        <5>1. nxt' = Sent(mask, d)
          BY <1>1, <1>3, <1>6, <2>4, <4>1 DEF put
        <5>2. does = mask /\ e = d
          BY <1>3, <4>1
        <5> QED BY <5>1, <5>2
      <4>2. CASE ~Ready(cur)
        <5>1. nxt' = Sent(FALSE, ZERO)
          BY <1>1, <1>3, <1>6, <2>4, <4>2 DEF put
        <5>2. does = FALSE /\ e = ZERO
          BY <1>3, <4>2
        <5> QED BY <5>1, <5>2
      <4> QED BY <4>1, <4>2
    <3>2. e \in Data /\ (does => e = d)
      BY <1>2
    <3>3. cur.put_op = IF mask THEN "put" ELSE "mask"
      BY <1>6, <2>4 DEF PutOp
    <3>4. Reg(nxt)' = does /\ RegData(nxt)' = e
      <4> HIDE DEF e, does
      <4> QED BY <1>1, <2>2, <2>3, <3>1, <3>2, SentIs
    <3>5. PutMethod(cur)'
      <4>1. Ready(cur)' = Ready(cur)
        BY <2>1, PutPartIs
      <4>2. does = (cur'.put_op = "put" /\ Ready(cur)')
        BY <1>3, <2>3, <3>3, <4>1
      <4>3. put_ok' = Outcome(cur'.put_op = "put" /\ Ready(cur)', cur'.put_val)
        BY <2>1, <2>3, <2>4, <4>2
      <4> QED BY <4>3 DEF PutMethod, Outcome, Nothing
    <3>6. PutWrites(nxt)'
      <4> HIDE DEF e, does
      <4> QED BY <2>1, <2>2, <3>2, <3>4 DEF PutWrites
    <3>7. PutPart'
      BY <2>1, <2>4, <3>5, <3>6, PutPartIs
    <3>8. Quiet(cur) => FALSE
      BY <3>3 DEF Quiet
    <3>9. put_ok' \in Result /\ blocked' \in [put : BOOLEAN, get : BOOLEAN]
      BY <1>1, <2>1, <2>2
    <3> HIDE DEF e, does
    <3> QED BY <2>1, <2>2, <3>1, <3>2, <3>7, <3>8, <3>9, PutCall
  <2>5. CASE cfg.cthread_put
    <3> DEFINE r == IF mask THEN ~Reg(cur) ELSE Reg(cur)
    <3>0. edge # "none" /\ PutSame /\ ~rst /\ edge = "clock"
      BY <2>1, <2>5, PutPartIs
    <3>1. nxt' = IF Ready(cur) THEN Sent(r, d) ELSE nxt
      BY <1>1, <1>3, <1>6, <2>5 DEF put
    <3>2. r \in BOOLEAN
      BY <1>3
    <3>3. /\ Ready(cur) => Reg(nxt)' = r /\ RegData(nxt)' = d
          /\ ~Ready(cur) => Reg(nxt)' = Reg(nxt) /\ RegData(nxt)' = RegData(nxt)
      <4> HIDE DEF r
      <4>1. CASE Ready(cur)
        BY <1>1, <2>3, <3>1, <3>2, <4>1, SentIs
      <4>2. CASE ~Ready(cur)
        BY <2>1, <3>1, <4>2, PutPartIs
      <4> QED BY <4>1, <4>2
    <3>4. PutThread'
      <4>1. Reg(cur)' = Reg(cur) /\ RegData(cur)' = RegData(cur) /\ Ready(cur)' = Ready(cur)
        BY <2>1, PutPartIs
      <4>2. ~rst' /\ put_ok'.done = does /\ (does => put_ok'.data = d)
        BY <2>1, <2>2, <2>3, <3>0
      <4>3. CASE does
        BY <1>3, <3>3, <4>1, <4>2, <4>3 DEF PutThread
      <4>4. CASE ~does
        <5>1. Reg(nxt)' = Reg(cur)' /\ (~Ready(cur)' => RegData(nxt)' = RegData(cur)')
          BY <1>3, <3>0, <3>3, <4>1, <4>4 DEF PutSame
        <5> QED BY <4>2, <4>4, <5>1 DEF PutThread
      <4> QED BY <4>3, <4>4
    <3>5. PutPart'
      BY <2>1, <2>5, <3>4, PutPartIs
    <3>6. put_ok' \in Result /\ blocked' \in [put : BOOLEAN, get : BOOLEAN]
          /\ (nxt' = nxt \/ nxt' = Sent(r, d))
      BY <1>1, <2>1, <2>2, <3>1
    <3> HIDE DEF r, does
    <3> QED BY <2>1, <3>0, <3>2, <3>5, <3>6, PutCall
  <2> QED BY <1>1, <2>4, <2>5
<1>7. ASSUME NEW d \in Data, b_put(d) PROVE Inv'
  <2> DEFINE r == ~Reg(cur)
  <2>1. /\ Runs("put") /\ PutFrame /\ cfg.cthread_put /\ ~rst /\ ~cfg.always_ready
        /\ nxt' = IF cur.core_ready THEN Sent(r, d) ELSE nxt
        /\ put_ok' = Outcome(cur.core_ready, d)
        /\ blocked' \in [put : BOOLEAN, get : BOOLEAN]
    BY <1>1, <1>3, <1>7 DEF b_put
  <2>2. /\ Outcome(cur.core_ready, d) \in Result
        /\ Outcome(cur.core_ready, d).done = cur.core_ready
        /\ cur.core_ready => Outcome(cur.core_ready, d).data = d
    BY <1>3, OutcomeType
  <2>3. UNCHANGED <<cfg, cur, rst, edge>>
    BY <2>1 DEF PutFrame
  <2>4. r \in BOOLEAN /\ Ready(cur) = cur.core_ready
    BY <1>3, <2>1
  <2>5. edge # "none" /\ PutSame /\ edge = "clock"
    BY <2>1, PutPartIs
  <2>6. /\ Ready(cur) => Reg(nxt)' = r /\ RegData(nxt)' = d
        /\ ~Ready(cur) => Reg(nxt)' = Reg(nxt) /\ RegData(nxt)' = RegData(nxt)
    <3> HIDE DEF r
    <3>1. CASE Ready(cur)
      BY <1>1, <2>1, <2>3, <2>4, <3>1, SentIs
    <3>2. CASE ~Ready(cur)
      BY <2>1, <2>4, <3>2, PutPartIs
    <3> QED BY <3>1, <3>2
  <2>7. PutThread'
    <3>1. Reg(cur)' = Reg(cur) /\ RegData(cur)' = RegData(cur) /\ Ready(cur)' = Ready(cur)
      BY <2>1, PutPartIs
    <3>2. ~rst' /\ put_ok'.done = Ready(cur) /\ (Ready(cur) => put_ok'.data = d)
      BY <2>1, <2>2, <2>3, <2>4
    <3>3. CASE Ready(cur)
      BY <2>6, <3>1, <3>2, <3>3 DEF PutThread
    <3>4. CASE ~Ready(cur)
      <4>1. Reg(nxt)' = Reg(cur)' /\ RegData(nxt)' = RegData(cur)'
        BY <2>5, <2>6, <3>1, <3>4 DEF PutSame
      <4> QED BY <3>2, <3>4, <4>1 DEF PutThread
    <3> QED BY <3>3, <3>4
  <2>8. PutPart'
    BY <2>1, <2>7, PutPartIs
  <2>9. put_ok' \in Result /\ (nxt' = nxt \/ nxt' = Sent(r, d))
    BY <2>1, <2>2
  <2> HIDE DEF r
  <2> QED BY <2>1, <2>4, <2>5, <2>8, <2>9, PutCall
<1> QED BY <1>4, <1>5, <1>6, <1>7 DEF PutProc

-----------------------------------------------------------------------------
(* The calls of the GET process.                                             *)

\* A call of the GET process that establishes GetPart keeps the invariant.
LEMMA GetCall ==
    ASSUME Inv, Runs("get"), GetFrame, NEW r \in BOOLEAN,
           nxt' = [nxt EXCEPT !.get_req = r], get_ok' \in Result,
           blocked' \in [put : BOOLEAN, get : BOOLEAN], GetPart'
    PROVE  Inv'
<1>1. /\ Types /\ Parts /\ nxt \in Signals /\ q = Words(cur) /\ put_ok \in Result
  BY DEF Inv, Types
<1>2. UNCHANGED <<cfg, cur, rst, edge, put_ok, q, op, resets>>
      /\ runnable' = runnable \ {"get"}
  BY DEF GetFrame, Runs
<1>3. /\ nxt' \in Signals
      /\ nxt'.put_req = nxt.put_req /\ nxt'.core_data = nxt.core_data
      /\ nxt'.put_req_d = nxt.put_req_d /\ nxt'.init_req_d = nxt.init_req_d
      /\ nxt'.sync_req = nxt.sync_req /\ nxt'.sync_data = nxt.sync_data
      /\ nxt'.sync_req_d = nxt.sync_req_d
      /\ nxt'.core_req = nxt.core_req /\ nxt'.core_ready = nxt.core_ready
      /\ nxt'.get_req_d = nxt.get_req_d
      /\ nxt'.targ_req_d = nxt.targ_req_d /\ nxt'.core_data_d = nxt.core_data_d
      /\ nxt'.core_data_out = nxt.core_data_out
      /\ nxt'.put_op = nxt.put_op /\ nxt'.get_op = nxt.get_op
  BY <1>1 DEF Signals
<1>4. Reg(nxt)' = Reg(nxt) /\ RegData(nxt)' = RegData(nxt)
  BY <1>2, <1>3 DEF Reg, RegData, InitSync
<1>5. ReqPart' /\ ReadyPart' /\ MuxPart' /\ TargetPart' /\ InitiatorPart' /\ SyncPart' /\ PutPart'
  BY <1>1, <1>2, <1>3, <1>4, Kept
<1>6. KernelPart'
  BY <1>1, <1>2, KernelKept
<1>7. QuietPart'
  BY <1>1, <1>2, <1>3, QuietKept DEF Quiet
<1>8. Types'
  BY <1>1, <1>2, <1>3, TypesKept
<1>9. q' = Words(cur)'
  BY <1>1, <1>2, WordsKept
<1> QED BY <1>5, <1>6, <1>7, <1>8, <1>9 DEF Inv, Parts

\* A get that does or does not take the word offered.
LEMMA GetTakes ==
    ASSUME Inv, Runs("get"), GetFrame, NEW does \in BOOLEAN,
           nxt' = [nxt EXCEPT !.get_req = GetReq(does)],
           get_ok' = Outcome(does, cur.core_data_out), does => Request(cur),
           blocked' \in [put : BOOLEAN, get : BOOLEAN],
           cfg.cthread_get => ~rst /\ (cfg.always_ready => does = Request(cur)),
           ~cfg.cthread_get => does = (cur.get_op = "get" /\ Request(cur))
    PROVE  Inv'
<1>1. /\ cfg \in Configs /\ nxt \in Signals /\ cur \in Signals
      /\ cur.get_req \in BOOLEAN /\ cur.core_data_out \in Data
      /\ cfg.cthread_get \in BOOLEAN /\ cfg.always_ready \in BOOLEAN
      /\ Request(cur) \in BOOLEAN
  BY ConfigType, OutputTypes DEF Inv, Types, Signals
<1>2. /\ get_ok' \in Result /\ get_ok'.done = does
      /\ does => get_ok'.data = cur.core_data_out
  BY <1>1, OutcomeType
<1>3. UNCHANGED <<cfg, cur, rst, edge>> /\ "get" \in runnable /\ runnable' = runnable \ {"get"}
      /\ Request(cur)' = Request(cur)
  BY DEF GetFrame, Runs, Request, TargSync
<1>4. PICK r \in BOOLEAN : r = GetReq(does)
  BY <1>1 DEF GetReq
<1>5. nxt'.get_req = r
  BY <1>1, <1>4 DEF Signals
<1>6. GetPart'
  <2>1. CASE cfg.cthread_get
    <3>1. edge # "none"
      BY <1>3, <2>1, Processes DEF Inv, Parts, KernelPart
    <3>2. r = IF does THEN ~cur.get_req ELSE cur.get_req
      BY <1>4, <2>1 DEF GetReq
    <3>3. GetThread'
      BY <1>2, <1>3, <1>5, <2>1, <3>2 DEF GetThread
    <3> QED BY <1>3, <2>1, <3>1, <3>3 DEF GetPart
  <2>2. CASE ~cfg.cthread_get
    <3>1. r = does
      BY <1>4, <2>2 DEF GetReq
    <3>2. get_ok' = Outcome(cur'.get_op = "get" /\ Request(cur)', cur'.core_data_out)
      <4>1. does = (cur'.get_op = "get" /\ Request(cur)')
        BY <1>3, <2>2
      <4> QED BY <1>3, <4>1
    <3>3. GetMethod(cur)'
      BY <3>2 DEF GetMethod, Outcome, Nothing
    <3> QED BY <1>2, <1>3, <1>5, <2>2, <3>1, <3>3 DEF GetPart
  <2> QED BY <1>1, <2>1, <2>2
<1> QED BY <1>2, <1>4, <1>6, GetCall

\* Every call of the GET process.
LEMMA GetStep == ASSUME Inv, GetProc PROVE Inv'
<1>1. /\ cfg \in Configs /\ nxt \in Signals /\ cur \in Signals /\ rst \in BOOLEAN
      /\ blocked \in [put : BOOLEAN, get : BOOLEAN]
      /\ cfg.cthread_get \in BOOLEAN /\ cfg.always_ready \in BOOLEAN
      /\ Request(cur) \in BOOLEAN /\ cur.core_data_out \in Data
  BY ConfigType, OutputTypes DEF Inv, Types, Signals
<1>2. \A d \in Data : Outcome(FALSE, d) = Nothing
  BY DEF Outcome
<1>3. CASE reset_get
  <2>1. /\ Runs("get") /\ GetFrame /\ cfg.cthread_get /\ rst
        /\ nxt' = [nxt EXCEPT !.get_req = FALSE] /\ get_ok' = Nothing
        /\ blocked' \in [put : BOOLEAN, get : BOOLEAN]
    BY <1>1, <1>3 DEF reset_get
  <2>2. get_ok' \in Result /\ nxt'.get_req = FALSE
    BY <1>1, <2>1, OutcomeType DEF Signals
  <2>3. GetPart'
    <3>1. edge # "none"
      BY <2>1, Processes DEF Inv, Parts, KernelPart, Runs
    <3> QED BY <2>1, <2>2, <3>1 DEF GetPart, GetThread, GetFrame, Runs
  <2> QED BY <2>1, <2>2, <2>3, GetCall
<1>4. CASE clear_get
  <2>1. /\ Runs("get") /\ GetFrame /\ nxt' = [nxt EXCEPT !.get_req = GetReq(FALSE)]
        /\ get_ok' = Nothing /\ blocked' = blocked
        /\ IF cfg.cthread_get THEN ~rst /\ ~cfg.always_ready ELSE cur.get_op = "clear"
    BY <1>4 DEF clear_get
  <2>2. get_ok' = Outcome(FALSE, cur.core_data_out)
    BY <1>1, <1>2, <2>1
  <2> QED BY <1>1, <2>1, <2>2, GetTakes
<1>5. ASSUME NEW enable \in BOOLEAN, get(enable),
             (IF enable THEN "get" ELSE "mask") \in GetOp
      PROVE  Inv'
  <2> DEFINE does == Request(cur) /\ enable
  <2>1. /\ Runs("get") /\ GetFrame /\ nxt' = [nxt EXCEPT !.get_req = GetReq(does)]
        /\ get_ok' = Outcome(does, cur.core_data_out) /\ blocked' = blocked
        /\ cfg.cthread_get => ~rst
    BY <1>5 DEF get
  <2>2. does \in BOOLEAN /\ (does => Request(cur))
    BY <1>1
  <2>3. cfg.cthread_get /\ cfg.always_ready => does = Request(cur)
    BY <1>1, <1>5 DEF GetOp
  <2>4. ~cfg.cthread_get => does = (cur.get_op = "get" /\ Request(cur))
    BY <1>1, <1>5 DEF GetOp
  <2> HIDE DEF does
  <2> QED BY <1>1, <2>1, <2>2, <2>3, <2>4, GetTakes
<1>6. CASE b_get
  <2>1. /\ Runs("get") /\ GetFrame /\ nxt' = [nxt EXCEPT !.get_req = GetReq(Request(cur))]
        /\ get_ok' = Outcome(Request(cur), cur.core_data_out)
        /\ blocked' \in [put : BOOLEAN, get : BOOLEAN]
        /\ cfg.cthread_get /\ ~rst
    BY <1>1, <1>6 DEF b_get
  <2> QED BY <1>1, <2>1, GetTakes
<1> QED BY <1>3, <1>4, <1>5, <1>6 DEF GetProc

-----------------------------------------------------------------------------
(* What a clock edge does to the words under way.                            *)

\* Sequences of two and of three words.
LEMMA IsPair ==
    ASSUME NEW s \in Seq(Data), Len(s) = 2
    PROVE  s = <<s[1], s[2]>>
  OBVIOUS

\* The same for three.
LEMMA IsTriple ==
    ASSUME NEW s \in Seq(Data), Len(s) = 3
    PROVE  s = <<s[1], s[2], s[3]>>
  OBVIOUS

\* How a second word is added.
LEMMA Pairs ==
    ASSUME NEW a \in Data, NEW b \in Data
    PROVE  Append(<<a>>, b) = <<a, b>> /\ <<a>> \o <<b>> = <<a, b>>
<1> DEFINE s == Append(<<a>>, b)
           t == <<a>> \o <<b>>
<1>1. /\ s \in Seq(Data) /\ Len(s) = 2 /\ s[1] = a /\ s[2] = b
      /\ t \in Seq(Data) /\ Len(t) = 2 /\ t[1] = a /\ t[2] = b
  OBVIOUS
<1> HIDE DEF s, t
<1>2. s = <<a, b>> /\ t = <<a, b>>
  BY <1>1, IsPair
<1> QED BY <1>2 DEF s, t

\* How a third word is added.
LEMMA Triples ==
    ASSUME NEW a \in Data, NEW b \in Data, NEW c \in Data
    PROVE  Append(<<a, b>>, c) = <<a, b, c>> /\ <<a, b>> \o <<c>> = <<a, b, c>>
<1> DEFINE s == Append(<<a, b>>, c)
           t == <<a, b>> \o <<c>>
<1>1. /\ s \in Seq(Data) /\ Len(s) = 3 /\ s[1] = a /\ s[2] = b /\ s[3] = c
      /\ t \in Seq(Data) /\ Len(t) = 3 /\ t[1] = a /\ t[2] = b /\ t[3] = c
  OBVIOUS
<1> HIDE DEF s, t
<1>2. s = <<a, b, c>> /\ t = <<a, b, c>>
  BY <1>1, IsTriple
<1> QED BY <1>2 DEF s, t

\* All that is needed of the sequences of up to three words.
LEMMA Tuples ==
    ASSUME NEW a \in Data, NEW b \in Data, NEW c \in Data
    PROVE  /\ <<>> \in Seq(Data) /\ <<a>> \in Seq(Data)
           /\ <<a, b>> \in Seq(Data) /\ <<a, b, c>> \in Seq(Data)
           /\ <<a>> # <<>> /\ <<a, b>> # <<>> /\ <<a, b, c>> # <<>>
           /\ Len(<<>>) = 0 /\ Len(<<a>>) = 1 /\ Len(<<a, b>>) = 2 /\ Len(<<a, b, c>>) = 3
           /\ Append(<<>>, a) = <<a>> /\ Append(<<a>>, b) = <<a, b>>
           /\ Append(<<a, b>>, c) = <<a, b, c>>
           /\ Head(<<a>>) = a /\ Head(<<a, b>>) = a /\ Head(<<a, b, c>>) = a
           /\ Tail(<<a>>) = <<>> /\ Tail(<<a, b>>) = <<b>> /\ Tail(<<a, b, c>>) = <<b, c>>
<1>1. /\ <<>> \in Seq(Data) /\ <<a>> \in Seq(Data)
      /\ <<a, b>> \in Seq(Data) /\ <<a, b, c>> \in Seq(Data)
      /\ <<a>> # <<>> /\ <<a, b>> # <<>> /\ <<a, b, c>> # <<>>
      /\ Len(<<>>) = 0 /\ Len(<<a>>) = 1 /\ Len(<<a, b>>) = 2 /\ Len(<<a, b, c>>) = 3
  OBVIOUS
<1>2. /\ Head(<<a>>) = a /\ Head(<<a, b>>) = a /\ Head(<<a, b, c>>) = a
      /\ Tail(<<a>>) = <<>> /\ Tail(<<a, b>>) = <<b>> /\ Append(<<>>, a) = <<a>>
  OBVIOUS
<1>3. Tail(<<a, b, c>>) = <<b, c>>
  OBVIOUS
<1> QED BY <1>1, <1>2, <1>3, Pairs, Triples

\* The three registers hold data, and either hold a word or do not.
LEMMA WordTypes ==
    ASSUME cfg \in Configs, NEW s \in Signals
    PROVE  /\ Keeps(s) \in BOOLEAN /\ Held(s) \in BOOLEAN /\ Synced(s) \in BOOLEAN
           /\ s.core_data_d \in Data /\ s.core_data \in Data /\ s.sync_data \in Data
<1>1. /\ CoreReq(s) \in BOOLEAN /\ Taken(s) \in BOOLEAN /\ Holds \in BOOLEAN
      /\ TargSync \in BOOLEAN /\ InitSync \in BOOLEAN
      /\ cfg.always_ready \in BOOLEAN /\ cfg.cthread_put \in BOOLEAN
  BY ConfigType, OutputTypes
<1>2. /\ s.targ_req_d \in BOOLEAN /\ s.sync_req \in BOOLEAN /\ s.sync_req_d \in BOOLEAN
      /\ s.core_data_d \in Data /\ s.core_data \in Data /\ s.sync_data \in Data
  BY DEF Signals
<1> QED BY <1>1, <1>2 DEF Keeps, Held, Synced

\* The words are those of their three registers, in this order.
LEMMA WordsOf ==
    ASSUME cfg \in Configs, NEW s \in Signals
    PROVE  Words(s) =
             IF Keeps(s)
             THEN IF Held(s) THEN IF Synced(s) THEN <<s.core_data_d, s.core_data, s.sync_data>>
                                               ELSE <<s.core_data_d, s.core_data>>
                             ELSE IF Synced(s) THEN <<s.core_data_d, s.sync_data>>
                                               ELSE <<s.core_data_d>>
             ELSE IF Held(s) THEN IF Synced(s) THEN <<s.core_data, s.sync_data>>
                                               ELSE <<s.core_data>>
                             ELSE IF Synced(s) THEN <<s.sync_data>> ELSE <<>>
<1> DEFINE k == Keeps(s)
           h == Held(s)
           y == Synced(s)
           a == s.core_data_d
           b == s.core_data
           c == s.sync_data
<1>1. /\ k \in BOOLEAN /\ h \in BOOLEAN /\ y \in BOOLEAN
      /\ a \in Data /\ b \in Data /\ c \in Data
  BY WordTypes
<1>2. Words(s) = Word(k, a) \o Word(h, b) \o Word(y, c)
  BY DEF Words
<1> HIDE DEF k, h, y, a, b, c
<1>3. /\ \A t \in Seq(Data) : <<>> \o t = t /\ t \o <<>> = t
      /\ <<>> \in Seq(Data) /\ <<a>> \in Seq(Data) /\ <<b>> \in Seq(Data) /\ <<c>> \in Seq(Data)
      /\ <<a, b>> \in Seq(Data)
  BY <1>1
<1>4. <<a>> \o <<b>> = <<a, b>> /\ <<a>> \o <<c>> = <<a, c>> /\ <<b>> \o <<c>> = <<b, c>>
      /\ <<a, b>> \o <<c>> = <<a, b, c>>
  BY <1>1, Pairs, Triples
<1>5. Words(s) = IF k THEN IF h THEN IF y THEN <<a, b, c>> ELSE <<a, b>>
                                ELSE IF y THEN <<a, c>> ELSE <<a>>
                 ELSE IF h THEN IF y THEN <<b, c>> ELSE <<b>>
                           ELSE IF y THEN <<c>> ELSE <<>>
  <2>1. CASE k /\ h
    BY <1>2, <1>3, <1>4, <2>1 DEF Word
  <2>2. CASE k /\ ~h
    BY <1>2, <1>3, <1>4, <2>2 DEF Word
  <2>3. CASE ~k /\ h
    BY <1>2, <1>3, <1>4, <2>3 DEF Word
  <2>4. CASE ~k /\ ~h
    BY <1>2, <1>3, <1>4, <2>4 DEF Word
  <2> QED BY <2>1, <2>2, <2>3, <2>4
<1> QED BY <1>5 DEF k, h, y, a, b, c

\* Between edges the words stay where they are.
LEMMA DeltaWords ==
    ASSUME Inv, edge = "none"
    PROVE  Words(nxt) = Words(cur)
<1>1. TargetSame /\ InitiatorSame /\ (InitSync => SyncSame) /\ (cfg.cthread_put => PutSame)
      /\ (cfg.cthread_get => nxt.get_req = cur.get_req)
  BY DEF Inv, Parts, TargetPart, InitiatorPart, SyncPart, PutPart, GetPart
<1>2. Keeps(nxt) = Keeps(cur)
  BY <1>1 DEF Keeps, Taken, TargetSame
<1>3. Holds => nxt.put_req = cur.put_req /\ nxt.core_data = cur.core_data
  BY <1>1 DEF Holds, SyncSame, PutSame, Reg, RegData
<1>4. Held(nxt) = Held(cur)
  BY <1>1, <1>3 DEF Held, CoreReq, NewPut, InitiatorSame
<1>5. Synced(nxt) = Synced(cur) /\ (Synced(cur) => nxt.sync_data = cur.sync_data)
  BY <1>1 DEF Synced, SyncSame, PutSame, Reg, RegData
<1>6. nxt.core_data_d = cur.core_data_d /\ (Held(cur) => nxt.core_data = cur.core_data)
  BY <1>1, <1>3 DEF TargetSame, Held
<1> QED BY <1>2, <1>4, <1>5, <1>6 DEF Words, Word

\* When all clocked processes have been reset nothing is under way.
LEMMA ResetWords ==
    ASSUME Inv, edge # "none", rst, runnable = {}
    PROVE  Words(nxt) = <<>>
<1>1. /\ TargetStep /\ (Holds => InitiatorStep) /\ (InitSync => SyncThread)
      /\ (cfg.cthread_put => PutThread)
  BY DEF Inv, Parts, TargetPart, InitiatorPart, SyncPart, PutPart
<1>2. /\ cfg \in Configs /\ nxt \in Signals /\ cfg.always_ready \in BOOLEAN
      /\ cfg.cthread_put \in BOOLEAN /\ InitSync \in BOOLEAN /\ TargSync \in BOOLEAN
  BY ConfigType DEF Inv, Types
<1>3. ~Keeps(nxt)
  BY <1>1, <1>2 DEF TargetStep, Keeps, TargSync
<1>4. ~Held(nxt)
  <2>1. Holds => ~nxt.put_req /\ ~nxt.put_req_d /\ (~cfg.always_ready => ~nxt.init_req_d)
    BY <1>1, <1>2 DEF Holds, InitiatorStep, SyncThread, PutThread, Reg
  <2> QED BY <1>2, <2>1 DEF Held, CoreReq, NewPut, Signals
<1>5. ~Synced(nxt)
  BY <1>1, <1>2 DEF Synced, SyncThread, PutThread, Reg, Signals
<1> QED BY <1>2, <1>3, <1>4, <1>5, WordsOf

\* What the processes have written when all have run outside reset.
LEMMA EdgeRegs ==
    ASSUME Inv, edge # "none", ~rst, runnable = {}
    PROVE  /\ Stable /\ TargetStep /\ (Holds => InitiatorStep) /\ (InitSync => SyncThread)
           /\ (cfg.cthread_put => PutThread) /\ (cfg.cthread_get => GetThread)
           /\ edge = "clock"
  BY DEF Inv, Types, Parts, TargetPart, InitiatorPart, SyncPart, PutPart, GetPart, KernelPart

\* What is got is offered, and is the word that core_data_out shows; an always
\* ready target's user gets whatever is offered.
LEMMA EdgeGets ==
    ASSUME Inv, edge # "none", ~rst, runnable = {}
    PROVE  /\ get_ok.done => Request(cur) /\ get_ok.data = cur.core_data_out
           /\ cfg.always_ready => get_ok.done = Request(cur)
           /\ ~cfg.always_ready => Taken(nxt) = get_ok.done
<1>1. /\ Stable /\ TargetStep /\ (cfg.cthread_get => GetThread)
  BY EdgeRegs
<1>2. /\ cfg \in Configs /\ cur \in Signals /\ nxt \in Signals /\ get_ok.done \in BOOLEAN
      /\ cfg.cthread_get \in BOOLEAN /\ cfg.always_ready \in BOOLEAN
      /\ Request(cur) \in BOOLEAN /\ cur.core_data_out \in Data
      /\ cur.get_req \in BOOLEAN /\ nxt.get_req \in BOOLEAN
  BY ConfigType, OutputTypes DEF Inv, Types, Signals, Result
<1>3. ~cfg.always_ready => nxt.get_req_d = cur.get_req
  BY <1>1, <1>2 DEF TargetStep
<1>4. CASE cfg.cthread_get
  BY <1>1, <1>2, <1>3, <1>4 DEF GetThread, Taken
<1>5. CASE ~cfg.cthread_get
  <2> DEFINE does == cur.get_op = "get" /\ Request(cur)
  <2>1. get_ok = Outcome(does, cur.core_data_out) /\ cur.get_req = get_ok.done
    BY <1>1, <1>5 DEF Stable, GetMethod
  <2>2. get_ok.done = does /\ (does => get_ok.data = cur.core_data_out)
    BY <1>2, <2>1, OutcomeType
  <2>3. cfg.always_ready /\ Request(cur) => cur.get_op = "get"
    <3> SUFFICES ASSUME cfg.always_ready, cur.get_op # "get" PROVE ~Request(cur)
      OBVIOUS
    <3>1. Quiet(cur)
      BY <1>5 DEF Inv, Parts, QuietPart
    <3>2. cur.core_req = CoreReq(cur)
      BY <1>1 DEF Stable
    <3>3. ~CoreReq(cur)
      BY <1>2, <3>1 DEF CoreReq, NewPut, Quiet, Signals
    <3> QED BY <1>2, <3>1, <3>2, <3>3 DEF Request, Quiet
  <2>4. ~cfg.always_ready => Taken(nxt) = get_ok.done
    BY <1>3, <1>5, <2>1 DEF Taken
  <2> QED BY <1>2, <2>2, <2>3, <2>4
<1> QED BY <1>2, <1>4, <1>5

\* A put that was done found the target ready.
LEMMA EdgePuts ==
    ASSUME Inv, edge # "none", ~rst, runnable = {}
    PROVE  /\ put_ok.done => Ready(cur)
           /\ ~cfg.cthread_put => Reg(cur) = put_ok.done
                                  /\ (put_ok.done => RegData(cur) = put_ok.data)
<1>1. Stable /\ (cfg.cthread_put => PutThread)
  BY EdgeRegs
<1>2. /\ cfg \in Configs /\ cur \in Signals /\ put_ok.done \in BOOLEAN
      /\ cfg.cthread_put \in BOOLEAN /\ Ready(cur) \in BOOLEAN /\ cur.put_val \in Data
  BY ConfigType, OutputTypes DEF Inv, Types, Signals, Result
<1>3. CASE cfg.cthread_put
  BY <1>1, <1>2, <1>3 DEF PutThread
<1>4. CASE ~cfg.cthread_put
  <2> DEFINE does == cur.put_op = "put" /\ Ready(cur)
  <2>1. put_ok = Outcome(does, cur.put_val) /\ PutWrites(cur)
    BY <1>1, <1>4 DEF Stable, PutMethod
  <2>2. put_ok.done = does
    BY <1>2, <2>1, OutcomeType
  <2> QED BY <1>2, <2>1, <2>2 DEF PutWrites
<1> QED BY <1>2, <1>3, <1>4

\* A target that keeps its word: nothing was put, and the others wait.
LEMMA EdgeFull ==
    ASSUME Inv, edge # "none", ~rst, runnable = {}, ~cfg.always_ready, Keeps(cur)
    PROVE  /\ ~put_ok.done
           /\ get_ok.done => get_ok.data = cur.core_data_d
           /\ Keeps(nxt) = ~get_ok.done /\ nxt.core_data_d = cur.core_data_d
           /\ Held(nxt) = Held(cur) /\ (Held(cur) => nxt.core_data = cur.core_data)
           /\ Synced(nxt) = Synced(cur) /\ (Synced(cur) => nxt.sync_data = cur.sync_data)
<1>1. /\ Stable /\ TargetStep /\ (Holds => InitiatorStep) /\ (InitSync => SyncThread)
      /\ (cfg.cthread_put => PutThread)
  BY EdgeRegs
<1>2. /\ cfg \in Configs /\ cur \in Signals /\ nxt \in Signals
      /\ put_ok.done \in BOOLEAN /\ get_ok.done \in BOOLEAN
      /\ cfg.cthread_put \in BOOLEAN /\ InitSync \in BOOLEAN /\ Holds \in BOOLEAN
      /\ ~TargSync /\ Taken(cur) \in BOOLEAN
  BY ConfigType, OutputTypes DEF Inv, Types, Result
<1>3. /\ cur.core_req \in BOOLEAN /\ cur.core_ready \in BOOLEAN /\ cur.targ_req_d \in BOOLEAN
      /\ cur.put_req \in BOOLEAN /\ cur.sync_req \in BOOLEAN /\ cur.sync_req_d \in BOOLEAN
      /\ nxt.put_req \in BOOLEAN
  BY <1>2 DEF Signals
<1>4. ~cur.core_ready /\ cur.core_req = CoreReq(cur) /\ cur.core_data_out = cur.core_data_d
  BY <1>1, <1>2, <1>3 DEF Stable, Keeps, CoreReady, CoreDataOut
<1>5. ~put_ok.done /\ ~Ready(cur)
  BY <1>2, <1>4, EdgePuts DEF Ready
<1>6. get_ok.done => get_ok.data = cur.core_data_d
  BY <1>4, EdgeGets
<1>7. Keeps(nxt) = ~get_ok.done /\ nxt.core_data_d = cur.core_data_d
  <2>1. nxt.targ_req_d = TRUE /\ nxt.core_data_d = cur.core_data_d
    BY <1>1, <1>3, <1>4 DEF TargetStep
  <2>2. Taken(nxt) = get_ok.done
    BY EdgeGets
  <2> QED BY <1>2, <2>1, <2>2 DEF Keeps
<1>8. Holds => nxt.put_req = cur.put_req /\ nxt.core_data = cur.core_data
  <2>1. InitSync => SyncSame
    BY <1>1, <1>4 DEF SyncThread, Moves
  <2>2. ~InitSync /\ cfg.cthread_put => nxt.put_req = cur.put_req /\ nxt.core_data = cur.core_data
    BY <1>1, <1>5 DEF PutThread, Reg, RegData
  <2> QED BY <2>1, <2>2 DEF Holds, SyncSame
<1>9. Held(nxt) = Held(cur)
  <2>1. Holds => nxt.put_req_d = cur.put_req /\ nxt.init_req_d = cur.core_req
    BY <1>1, <1>3, <1>4 DEF InitiatorStep
  <2>2. Holds => CoreReq(nxt) = CoreReq(cur)
    BY <1>3, <1>4, <1>8, <2>1 DEF CoreReq, NewPut
  <2> QED BY <2>2 DEF Held
<1>10. Synced(nxt) = Synced(cur) /\ (Synced(cur) => nxt.sync_data = cur.sync_data)
  <2>1. InitSync => nxt.sync_req_d = cur.sync_req_d
    BY <1>1, <1>4 DEF SyncThread, Moves, SyncSame
  <2>2. InitSync /\ cfg.cthread_put => nxt.sync_req = cur.sync_req /\ nxt.sync_data = cur.sync_data
    BY <1>1, <1>5 DEF PutThread, Reg, RegData
  <2> QED BY <2>1, <2>2 DEF Synced
<1> QED BY <1>5, <1>6, <1>7, <1>8, <1>9, <1>10 DEF Held

\* A target without a word, or whose word was taken, takes the one offered;
\* the words behind it move on.
LEMMA EdgeFree ==
    ASSUME Inv, edge # "none", ~rst, runnable = {}, ~cfg.always_ready, ~Keeps(cur)
    PROVE  /\ Holds => /\ Keeps(nxt) = (Held(cur) /\ ~get_ok.done)
                       /\ Held(cur) => nxt.core_data_d = cur.core_data
                       /\ get_ok.done => Held(cur) /\ get_ok.data = cur.core_data
           /\ Holds /\ ~(InitSync /\ cfg.cthread_put) =>
                       /\ Held(nxt) = put_ok.done
                       /\ put_ok.done => nxt.core_data = put_ok.data
                       /\ ~Synced(cur) /\ ~Synced(nxt)
           /\ InitSync /\ cfg.cthread_put =>
                       /\ Held(nxt) = Synced(cur)
                       /\ Synced(cur) => nxt.core_data = cur.sync_data
                       /\ Synced(nxt) = put_ok.done
                       /\ put_ok.done => nxt.sync_data = put_ok.data
           /\ ~Holds => /\ ~Held(cur) /\ ~Held(nxt) /\ ~Synced(cur) /\ ~Synced(nxt)
                        /\ Keeps(nxt) = (put_ok.done /\ ~get_ok.done)
                        /\ put_ok.done => nxt.core_data_d = put_ok.data
                        /\ get_ok.done => put_ok.done /\ get_ok.data = put_ok.data
<1>1. /\ Stable /\ TargetStep /\ (Holds => InitiatorStep) /\ (InitSync => SyncThread)
      /\ (cfg.cthread_put => PutThread)
  BY EdgeRegs
<1>2. /\ cfg \in Configs /\ cur \in Signals /\ nxt \in Signals
      /\ put_ok.done \in BOOLEAN /\ get_ok.done \in BOOLEAN
      /\ cfg.cthread_put \in BOOLEAN /\ InitSync \in BOOLEAN /\ Holds \in BOOLEAN
      /\ ~TargSync /\ Taken(cur) \in BOOLEAN /\ CoreReq(cur) \in BOOLEAN
  BY ConfigType, OutputTypes DEF Inv, Types, Result
<1>3. /\ cur.core_req \in BOOLEAN /\ cur.core_ready \in BOOLEAN /\ cur.targ_req_d \in BOOLEAN
      /\ cur.put_req \in BOOLEAN /\ cur.sync_req \in BOOLEAN /\ cur.sync_req_d \in BOOLEAN
      /\ nxt.put_req \in BOOLEAN /\ nxt.sync_req \in BOOLEAN /\ nxt.sync_req_d \in BOOLEAN
      /\ nxt.targ_req_d \in BOOLEAN
  BY <1>2 DEF Signals
<1>4. cur.core_ready /\ cur.core_req = CoreReq(cur) /\ cur.core_data_out = cur.core_data
  BY <1>1, <1>2, <1>3 DEF Stable, Keeps, CoreReady, CoreDataOut
<1>5. Request(cur) = CoreReq(cur) /\ (get_ok.done => CoreReq(cur) /\ get_ok.data = cur.core_data)
  BY <1>2, <1>3, <1>4, EdgeGets DEF Request
<1>6. /\ Keeps(nxt) = (CoreReq(cur) /\ ~get_ok.done)
      /\ CoreReq(cur) => nxt.core_data_d = cur.core_data
  <2>1. nxt.targ_req_d = CoreReq(cur) /\ (CoreReq(cur) => nxt.core_data_d = cur.core_data)
    BY <1>1, <1>2, <1>3, <1>4 DEF TargetStep
  <2>2. Taken(nxt) = get_ok.done
    BY EdgeGets
  <2> QED BY <1>2, <2>1, <2>2 DEF Keeps
<1>7. CASE ~Holds
  <2>1. ~Held(cur) /\ ~Held(nxt) /\ ~Synced(cur) /\ ~Synced(nxt) /\ ~InitSync /\ ~cfg.cthread_put
    BY <1>7 DEF Held, Synced, Holds
  <2>2. CoreReq(cur) = put_ok.done /\ (put_ok.done => cur.core_data = put_ok.data)
    BY <1>2, <1>3, <1>7, <2>1, EdgePuts DEF CoreReq, NewPut, Reg, RegData
  <2> QED BY <1>2, <1>5, <1>6, <1>7, <2>1, <2>2
<1>8. CASE Holds
  <2>1. Held(cur) = CoreReq(cur)
    BY <1>2, <1>8 DEF Held
  <2>2. Held(nxt) = (nxt.put_req # cur.put_req)
    <3>1. nxt.put_req_d = cur.put_req /\ nxt.init_req_d = FALSE
      BY <1>1, <1>3, <1>4, <1>8 DEF InitiatorStep
    <3> QED BY <1>3, <1>8, <3>1 DEF Held, CoreReq, NewPut
  <2>3. CASE ~InitSync
    <3>1. cfg.cthread_put /\ ~Synced(cur) /\ ~Synced(nxt)
      BY <1>8, <2>3 DEF Holds, Synced
    <3>2. (nxt.put_req # cur.put_req) = put_ok.done /\ (put_ok.done => nxt.core_data = put_ok.data)
      BY <1>1, <1>2, <1>3, <2>3, <3>1 DEF PutThread, Reg, RegData
    <3> QED BY <1>5, <1>6, <1>8, <2>1, <2>2, <2>3, <3>1, <3>2
  <2>4. CASE InitSync /\ ~cfg.cthread_put
    <3>1. ~Synced(cur) /\ ~Synced(nxt)
      BY <2>4 DEF Synced
    <3>2. cur.sync_req = put_ok.done /\ (put_ok.done => cur.sync_data = put_ok.data)
      BY <2>4, EdgePuts DEF Reg, RegData
    <3>3. (nxt.put_req # cur.put_req) = put_ok.done /\ (put_ok.done => nxt.core_data = put_ok.data)
      BY <1>1, <1>2, <1>3, <1>4, <2>4, <3>2 DEF SyncThread, Moves, SyncSame
    <3> QED BY <1>5, <1>6, <1>8, <2>1, <2>2, <2>4, <3>1, <3>3
  <2>5. CASE InitSync /\ cfg.cthread_put
    <3>1. Synced(cur) = (cur.sync_req # cur.sync_req_d)
      BY <1>3, <2>5 DEF Synced
    <3>2. /\ (nxt.put_req # cur.put_req) = Synced(cur)
          /\ Synced(cur) => nxt.core_data = cur.sync_data
          /\ nxt.sync_req_d = cur.sync_req
      BY <1>1, <1>2, <1>3, <1>4, <2>5, <3>1 DEF SyncThread, Moves, SyncSame
    <3>3. (nxt.sync_req # cur.sync_req) = put_ok.done /\ (put_ok.done => nxt.sync_data = put_ok.data)
      BY <1>1, <1>2, <1>3, <2>5 DEF PutThread, Reg, RegData
    <3>4. Synced(nxt) = put_ok.done
      BY <1>2, <1>3, <2>5, <3>2, <3>3 DEF Synced
    <3> QED BY <1>5, <1>6, <1>8, <2>1, <2>2, <2>5, <3>2, <3>3, <3>4
  <2> QED BY <1>2, <2>3, <2>4, <2>5
<1> QED BY <1>2, <1>7, <1>8

\* An always ready target takes what is offered, into its register if it has
\* one, and its user gets it.
LEMMA EdgeAlways ==
    ASSUME Inv, edge # "none", ~rst, runnable = {}, cfg.always_ready
    PROVE  /\ ~Synced(cur) /\ ~Synced(nxt)
           /\ cfg.cthread_put => Held(nxt) = put_ok.done
                                 /\ (put_ok.done => nxt.core_data = put_ok.data)
           /\ ~cfg.cthread_put => ~Held(cur) /\ ~Held(nxt)
           /\ TargSync => get_ok.done = Keeps(cur) /\ (get_ok.done => get_ok.data = cur.core_data_d)
           /\ ~TargSync => ~Keeps(cur) /\ ~Keeps(nxt)
           /\ TargSync /\ cfg.cthread_put =>
                 Keeps(nxt) = Held(cur) /\ (Held(cur) => nxt.core_data_d = cur.core_data)
           /\ TargSync /\ ~cfg.cthread_put =>
                 Keeps(nxt) = put_ok.done /\ (put_ok.done => nxt.core_data_d = put_ok.data)
           /\ ~TargSync /\ cfg.cthread_put =>
                 get_ok.done = Held(cur) /\ (get_ok.done => get_ok.data = cur.core_data)
           /\ ~TargSync /\ ~cfg.cthread_put =>
                 get_ok.done = put_ok.done /\ (get_ok.done => get_ok.data = put_ok.data)
<1>1. /\ Stable /\ TargetStep /\ (Holds => InitiatorStep)
      /\ (cfg.cthread_put => PutThread)
  BY EdgeRegs
<1>2. /\ cfg \in Configs /\ cur \in Signals /\ nxt \in Signals
      /\ put_ok.done \in BOOLEAN /\ get_ok.done \in BOOLEAN
      /\ cfg.cthread_put \in BOOLEAN /\ ~InitSync /\ TargSync \in BOOLEAN
      /\ CoreReq(cur) \in BOOLEAN
      /\ Holds = cfg.cthread_put
  BY ConfigType, OutputTypes DEF Inv, Types, Result, Holds, InitSync
<1>3. /\ cur.core_req \in BOOLEAN /\ cur.targ_req_d \in BOOLEAN
      /\ cur.put_req \in BOOLEAN /\ nxt.put_req \in BOOLEAN
      /\ nxt.targ_req_d \in BOOLEAN
  BY <1>2 DEF Signals
<1>4. cur.core_req = CoreReq(cur)
      /\ cur.core_data_out = IF TargSync THEN cur.core_data_d ELSE cur.core_data
  BY <1>1 DEF Stable, CoreDataOut
<1>5. /\ get_ok.done = (IF TargSync THEN cur.targ_req_d ELSE CoreReq(cur))
      /\ get_ok.done => get_ok.data = cur.core_data_out
  BY <1>4, EdgeGets DEF Request
<1>6. ~Synced(cur) /\ ~Synced(nxt)
  BY <1>2 DEF Synced
<1>7. TargSync => /\ nxt.targ_req_d = CoreReq(cur) /\ nxt.core_data_d = cur.core_data
                  /\ Keeps(cur) = cur.targ_req_d /\ Keeps(nxt) = nxt.targ_req_d
  BY <1>1, <1>2, <1>3, <1>4 DEF TargetStep, Keeps
<1>8. ~TargSync => ~Keeps(cur) /\ ~Keeps(nxt)
  BY DEF Keeps
<1>9. CASE cfg.cthread_put
  <2>1. Held(cur) = CoreReq(cur)
    BY <1>2, <1>9 DEF Held
  <2>2. nxt.put_req_d = cur.put_req
    BY <1>1, <1>2, <1>3, <1>9 DEF InitiatorStep
  <2>3. (nxt.put_req # cur.put_req) = put_ok.done /\ (put_ok.done => nxt.core_data = put_ok.data)
    BY <1>1, <1>2, <1>3, <1>9 DEF PutThread, Reg, RegData
  <2>4. Held(nxt) = put_ok.done
    BY <1>2, <1>3, <1>9, <2>2, <2>3 DEF Held, CoreReq, NewPut
  <2> QED BY <1>2, <1>4, <1>5, <1>6, <1>7, <1>8, <1>9, <2>1, <2>3, <2>4
<1>10. CASE ~cfg.cthread_put
  <2>1. ~Held(cur) /\ ~Held(nxt)
    BY <1>2, <1>10 DEF Held
  <2>2. CoreReq(cur) = put_ok.done /\ (put_ok.done => cur.core_data = put_ok.data)
    BY <1>2, <1>3, <1>10, EdgePuts DEF CoreReq, NewPut, Reg, RegData
  <2> QED BY <1>2, <1>4, <1>5, <1>6, <1>7, <1>8, <1>10, <2>1, <2>2
<1> QED BY <1>2, <1>9, <1>10

\* Together: the queue takes the put and the get of the edge, as the contract
\* says, and the registers hold what is in it then.
LEMMA EdgeCommits ==
    ASSUME Inv, edge # "none", ~rst, runnable = {}
    PROVE  /\ Words(nxt) = Committed
           /\ Committed = IF get_ok.done THEN Tail(Offered) ELSE Offered
           /\ put_ok.done => Len(q) < Slots
           /\ get_ok.done => q # <<>> \/ (put_ok.done /\ PassThrough)
           /\ get_ok.done => get_ok.data = Head(Offered)
           /\ Committed \in Seq(Data)
<1> DEFINE k == Keeps(cur)
           h == Held(cur)
           y == Synced(cur)
           a == cur.core_data_d
           b == cur.core_data
           c == cur.sync_data
           p == put_ok.done
           d == put_ok.data
           g == get_ok.done
           e == get_ok.data
           k2 == Keeps(nxt)
           h2 == Held(nxt)
           y2 == Synced(nxt)
           a2 == nxt.core_data_d
           b2 == nxt.core_data
           c2 == nxt.sync_data
           w == Words(nxt)
<1>1. /\ cfg \in Configs /\ cur \in Signals /\ nxt \in Signals
      /\ p \in BOOLEAN /\ d \in Data /\ g \in BOOLEAN /\ e \in Data
      /\ cfg.cthread_put \in BOOLEAN /\ cfg.sync \in BOOLEAN /\ cfg.always_ready \in BOOLEAN
      /\ InitSync \in BOOLEAN /\ TargSync \in BOOLEAN /\ Holds \in BOOLEAN
      /\ q = Words(cur)
  BY ConfigType DEF Inv, Types, Result
<1>2. /\ k \in BOOLEAN /\ h \in BOOLEAN /\ y \in BOOLEAN
      /\ a \in Data /\ b \in Data /\ c \in Data
      /\ k2 \in BOOLEAN /\ h2 \in BOOLEAN /\ y2 \in BOOLEAN
      /\ a2 \in Data /\ b2 \in Data /\ c2 \in Data
  BY <1>1, WordTypes
<1>3. /\ q = IF k THEN IF h THEN IF y THEN <<a, b, c>> ELSE <<a, b>>
                            ELSE IF y THEN <<a, c>> ELSE <<a>>
             ELSE IF h THEN IF y THEN <<b, c>> ELSE <<b>>
                       ELSE IF y THEN <<c>> ELSE <<>>
      /\ w = IF k2 THEN IF h2 THEN IF y2 THEN <<a2, b2, c2>> ELSE <<a2, b2>>
                              ELSE IF y2 THEN <<a2, c2>> ELSE <<a2>>
             ELSE IF h2 THEN IF y2 THEN <<b2, c2>> ELSE <<b2>>
                        ELSE IF y2 THEN <<c2>> ELSE <<>>
  BY <1>1, WordsOf
<1>4. /\ Offered = IF p THEN Append(q, d) ELSE q
      /\ Committed = IF g /\ Offered # <<>> THEN Tail(Offered) ELSE Offered
      /\ Slots = (IF cfg.cthread_put THEN 2 ELSE 1) + (IF cfg.sync THEN 1 ELSE 0)
      /\ PassThrough = (~cfg.cthread_put /\ ~cfg.sync)
      /\ InitSync = (cfg.sync /\ ~cfg.always_ready) /\ TargSync = (cfg.sync /\ cfg.always_ready)
      /\ Holds = (InitSync \/ cfg.cthread_put)
  BY DEF Offered, Committed, Slots, PassThrough, InitSync, TargSync, Holds
<1>5. ~cfg.always_ready /\ k => /\ ~p /\ (g => e = a) /\ k2 = ~g /\ a2 = a
                                /\ h2 = h /\ (h => b2 = b) /\ y2 = y /\ (y => c2 = c)
  BY EdgeFull
<1>6. ~cfg.always_ready /\ ~k =>
        /\ Holds => /\ k2 = (h /\ ~g) /\ (h => a2 = b) /\ (g => h /\ e = b)
        /\ Holds /\ ~(InitSync /\ cfg.cthread_put) =>
              /\ h2 = p /\ (p => b2 = d) /\ ~y /\ ~y2
        /\ InitSync /\ cfg.cthread_put =>
              /\ h2 = y /\ (y => b2 = c) /\ y2 = p /\ (p => c2 = d)
        /\ ~Holds => /\ ~h /\ ~h2 /\ ~y /\ ~y2 /\ k2 = (p /\ ~g)
                     /\ (p => a2 = d) /\ (g => p /\ e = d)
  BY EdgeFree
<1>7. cfg.always_ready =>
        /\ ~y /\ ~y2
        /\ cfg.cthread_put => h2 = p /\ (p => b2 = d)
        /\ ~cfg.cthread_put => ~h /\ ~h2
        /\ TargSync => g = k /\ (g => e = a)
        /\ ~TargSync => ~k /\ ~k2
        /\ TargSync /\ cfg.cthread_put => k2 = h /\ (h => a2 = b)
        /\ TargSync /\ ~cfg.cthread_put => k2 = p /\ (p => a2 = d)
        /\ ~TargSync /\ cfg.cthread_put => g = h /\ (g => e = b)
        /\ ~TargSync /\ ~cfg.cthread_put => g = p /\ (g => e = d)
  BY EdgeAlways
<1>8. \A u \in Data, v \in Data, x \in Data :
           /\ <<>> \in Seq(Data) /\ <<u>> \in Seq(Data)
           /\ <<u, v>> \in Seq(Data) /\ <<u, v, x>> \in Seq(Data)
           /\ <<u>> # <<>> /\ <<u, v>> # <<>> /\ <<u, v, x>> # <<>>
           /\ Len(<<>>) = 0 /\ Len(<<u>>) = 1 /\ Len(<<u, v>>) = 2 /\ Len(<<u, v, x>>) = 3
           /\ Append(<<>>, u) = <<u>> /\ Append(<<u>>, v) = <<u, v>>
           /\ Append(<<u, v>>, x) = <<u, v, x>>
           /\ Head(<<u>>) = u /\ Head(<<u, v>>) = u /\ Head(<<u, v, x>>) = u
           /\ Tail(<<u>>) = <<>> /\ Tail(<<u, v>>) = <<v>> /\ Tail(<<u, v, x>>) = <<v, x>>
  BY Tuples
<1> DEFINE Goal == /\ w = Committed
                   /\ Committed = IF g THEN Tail(Offered) ELSE Offered
                   /\ p => Len(q) < Slots
                   /\ g => q # <<>> \/ (p /\ PassThrough)
                   /\ g => e = Head(Offered)
                   /\ Committed \in Seq(Data)
<1> HIDE DEF k, h, y, a, b, c, p, d, g, e, k2, h2, y2, a2, b2, c2, w
<1>9. w \in Seq(Data)
  BY <1>2, <1>3, <1>8
<1>10. ASSUME ~cfg.always_ready, k PROVE Goal
  <2>1. w = (IF g THEN Tail(q) ELSE q) /\ q # <<>> /\ Head(q) = a /\ q \in Seq(Data) /\ w \in Seq(Data)
    BY <1>1, <1>2, <1>3, <1>5, <1>8, <1>10
  <2> QED BY <1>1, <1>2, <1>4, <1>5, <1>10, <2>1
<1>11. ASSUME ~cfg.always_ready, ~k, ~Holds PROVE Goal
  <2>1. Slots = 1 /\ PassThrough
    BY <1>1, <1>11 DEF Slots, PassThrough, Holds, InitSync, TargSync
  <2>2. /\ q = <<>>
        /\ w = IF k2 THEN <<a2>> ELSE <<>>
    BY <1>2, <1>3, <1>6, <1>11
  <2>3. Offered = IF p THEN <<d>> ELSE <<>>
    <3>1. Append(<<>>, d) = <<d>>
      BY <1>1, <1>2, <1>8
    <3> QED BY <1>1, <1>2, <1>4, <2>2, <3>1
  <2> QED BY <1>1, <1>2, <1>4, <1>6, <1>8, <1>11, <2>1, <2>2, <2>3
<1>12. ASSUME ~cfg.always_ready, ~k, Holds, ~(InitSync /\ cfg.cthread_put) PROVE Goal
  <2>1. Slots = 2
    BY <1>1, <1>12 DEF Slots, PassThrough, Holds, InitSync, TargSync
  <2>2. /\ q = IF h THEN <<b>> ELSE <<>>
        /\ w = IF k2 THEN IF h2 THEN <<a2, b2>> ELSE <<a2>> ELSE IF h2 THEN <<b2>> ELSE <<>>
    BY <1>2, <1>3, <1>6, <1>12
  <2>3. Offered = IF p THEN IF h THEN <<b, d>> ELSE <<d>> ELSE q
    <3>1. Append(<<>>, d) = <<d>> /\ Append(<<b>>, d) = <<b, d>>
      BY <1>1, <1>2, <1>8
    <3> QED BY <1>1, <1>2, <1>4, <2>2, <3>1
  <2>4. p => Len(q) < Slots
    BY <1>1, <1>2, <1>6, <1>8, <1>12, <2>1, <2>2
  <2>5. /\ <<b>> # <<>> /\ Head(<<b>>) = b /\ Tail(<<b>>) = <<>>
        /\ <<b, d>> # <<>> /\ Head(<<b, d>>) = b /\ Tail(<<b, d>>) = <<d>>
    BY <1>1, <1>2, <1>8
  <2>6. ~g => w = Offered
    BY <1>1, <1>2, <1>6, <1>12, <2>2, <2>3
  <2>7. g => /\ Offered # <<>> /\ w = Tail(Offered) /\ e = Head(Offered)
             /\ q # <<>>
    BY <1>1, <1>2, <1>6, <1>12, <2>2, <2>3, <2>5
  <2> QED BY <1>1, <1>4, <1>9, <2>4, <2>6, <2>7
<1>13. ASSUME ~cfg.always_ready, ~k, InitSync, cfg.cthread_put PROVE Goal
  <2>1. Slots = 3
    BY <1>1, <1>13 DEF Slots, PassThrough, Holds, InitSync, TargSync
  <2>2. /\ q = IF h THEN IF y THEN <<b, c>> ELSE <<b>> ELSE IF y THEN <<c>> ELSE <<>>
        /\ w = IF k2 THEN IF h2 THEN IF y2 THEN <<a2, b2, c2>> ELSE <<a2, b2>>
                                ELSE IF y2 THEN <<a2, c2>> ELSE <<a2>>
               ELSE IF h2 THEN IF y2 THEN <<b2, c2>> ELSE <<b2>>
                          ELSE IF y2 THEN <<c2>> ELSE <<>>
    BY <1>2, <1>3, <1>6, <1>13
  <2>3. Offered = IF p THEN IF h THEN IF y THEN <<b, c, d>> ELSE <<b, d>>
                              ELSE IF y THEN <<c, d>> ELSE <<d>>
                  ELSE q
    <3>1. /\ Append(<<>>, d) = <<d>> /\ Append(<<b>>, d) = <<b, d>>
      BY <1>1, <1>2, <1>8
    <3>2. Append(<<c>>, d) = <<c, d>>
      BY <1>1, <1>2, Pairs
    <3>3. Append(<<b, c>>, d) = <<b, c, d>>
      BY <1>1, <1>2, Triples
    <3> QED BY <1>1, <1>2, <1>4, <2>2, <3>1, <3>2, <3>3
  <2>4. p => Len(q) < Slots
    BY <1>1, <1>2, <1>4, <1>6, <1>8, <1>13, <2>1, <2>2
  <2>5. /\ <<b, c, d>> # <<>> /\ Head(<<b, c, d>>) = b /\ Tail(<<b, c, d>>) = <<c, d>>
        /\ <<b, d>> # <<>> /\ Head(<<b, d>>) = b /\ Tail(<<b, d>>) = <<d>>
        /\ <<b, c>> # <<>> /\ Head(<<b, c>>) = b /\ Tail(<<b, c>>) = <<c>>
        /\ <<b>> # <<>> /\ Head(<<b>>) = b /\ Tail(<<b>>) = <<>>
    BY <1>1, <1>2, <1>8
  <2>6. ~g => w = Offered
    BY <1>1, <1>2, <1>4, <1>6, <1>13, <2>2, <2>3
  <2>7. g => /\ Offered # <<>> /\ w = Tail(Offered) /\ e = Head(Offered)
             /\ q # <<>>
    BY <1>1, <1>2, <1>4, <1>6, <1>13, <2>2, <2>3, <2>5
  <2> QED BY <1>1, <1>4, <1>9, <2>4, <2>6, <2>7
<1>14. ASSUME cfg.always_ready, TargSync, cfg.cthread_put PROVE Goal
  <2>1. Slots = 3
    BY <1>1, <1>14 DEF Slots, PassThrough, Holds, InitSync, TargSync
  <2>2. /\ q = IF k THEN IF h THEN <<a, b>> ELSE <<a>> ELSE IF h THEN <<b>> ELSE <<>>
        /\ w = IF k2 THEN IF h2 THEN <<a2, b2>> ELSE <<a2>> ELSE IF h2 THEN <<b2>> ELSE <<>>
    BY <1>2, <1>3, <1>7, <1>14
  <2>3. Offered = IF p THEN IF k THEN IF h THEN <<a, b, d>> ELSE <<a, d>>
                              ELSE IF h THEN <<b, d>> ELSE <<d>>
                  ELSE q
    <3>1. /\ Append(<<>>, d) = <<d>> /\ Append(<<b>>, d) = <<b, d>>
      BY <1>1, <1>2, <1>8
    <3>2. Append(<<a>>, d) = <<a, d>>
      BY <1>1, <1>2, Pairs
    <3>3. Append(<<a, b>>, d) = <<a, b, d>>
      BY <1>1, <1>2, Triples
    <3> QED BY <1>1, <1>2, <1>4, <2>2, <3>1, <3>2, <3>3
  <2>4. p => Len(q) < Slots
    BY <1>1, <1>2, <1>7, <1>8, <1>14, <2>1, <2>2
  <2>5. /\ <<a, b, d>> # <<>> /\ Head(<<a, b, d>>) = a /\ Tail(<<a, b, d>>) = <<b, d>>
        /\ <<a, d>> # <<>> /\ Head(<<a, d>>) = a /\ Tail(<<a, d>>) = <<d>>
        /\ <<a, b>> # <<>> /\ Head(<<a, b>>) = a /\ Tail(<<a, b>>) = <<b>>
        /\ <<a>> # <<>> /\ Head(<<a>>) = a /\ Tail(<<a>>) = <<>>
    BY <1>1, <1>2, <1>8
  <2>6. ~g => w = Offered
    BY <1>1, <1>2, <1>7, <1>14, <2>2, <2>3
  <2>7. g => /\ Offered # <<>> /\ w = Tail(Offered) /\ e = Head(Offered)
             /\ q # <<>>
    BY <1>1, <1>2, <1>7, <1>14, <2>2, <2>3, <2>5
  <2> QED BY <1>1, <1>4, <1>9, <2>4, <2>6, <2>7
<1>15. ASSUME cfg.always_ready, TargSync, ~cfg.cthread_put PROVE Goal
  <2>1. Slots = 2
    BY <1>1, <1>15 DEF Slots, PassThrough, Holds, InitSync, TargSync
  <2>2. /\ q = IF k THEN <<a>> ELSE <<>>
        /\ w = IF k2 THEN <<a2>> ELSE <<>>
    BY <1>2, <1>3, <1>7, <1>15
  <2>3. Offered = IF p THEN IF k THEN <<a, d>> ELSE <<d>> ELSE q
    <3>1. Append(<<>>, d) = <<d>> /\ Append(<<a>>, d) = <<a, d>>
      BY <1>1, <1>2, <1>8
    <3> QED BY <1>1, <1>2, <1>4, <2>2, <3>1
  <2>4. p => Len(q) < Slots
    BY <1>1, <1>2, <1>7, <1>8, <1>15, <2>1, <2>2
  <2>5. /\ <<a, d>> # <<>> /\ Head(<<a, d>>) = a /\ Tail(<<a, d>>) = <<d>>
        /\ <<a>> # <<>> /\ Head(<<a>>) = a /\ Tail(<<a>>) = <<>>
    BY <1>1, <1>2, <1>8
  <2>6. ~g => w = Offered
    BY <1>1, <1>2, <1>7, <1>15, <2>2, <2>3
  <2>7. g => /\ Offered # <<>> /\ w = Tail(Offered) /\ e = Head(Offered)
             /\ q # <<>>
    BY <1>1, <1>2, <1>7, <1>15, <2>2, <2>3, <2>5
  <2> QED BY <1>1, <1>4, <1>9, <2>4, <2>6, <2>7
<1>16. ASSUME cfg.always_ready, ~TargSync, cfg.cthread_put PROVE Goal
  <2>1. Slots = 2
    BY <1>1, <1>16 DEF Slots, PassThrough, Holds, InitSync, TargSync
  <2>2. /\ q = IF h THEN <<b>> ELSE <<>>
        /\ w = IF h2 THEN <<b2>> ELSE <<>>
    BY <1>2, <1>3, <1>7, <1>16
  <2>3. Offered = IF p THEN IF h THEN <<b, d>> ELSE <<d>> ELSE q
    <3>1. Append(<<>>, d) = <<d>> /\ Append(<<b>>, d) = <<b, d>>
      BY <1>1, <1>2, <1>8
    <3> QED BY <1>1, <1>2, <1>4, <2>2, <3>1
  <2>4. p => Len(q) < Slots
    BY <1>1, <1>2, <1>7, <1>8, <1>16, <2>1, <2>2
  <2>5. /\ <<b, d>> # <<>> /\ Head(<<b, d>>) = b /\ Tail(<<b, d>>) = <<d>>
        /\ <<b>> # <<>> /\ Head(<<b>>) = b /\ Tail(<<b>>) = <<>>
    BY <1>1, <1>2, <1>8
  <2>6. ~g => w = Offered
    BY <1>1, <1>2, <1>7, <1>16, <2>2, <2>3
  <2>7. g => /\ Offered # <<>> /\ w = Tail(Offered) /\ e = Head(Offered)
             /\ q # <<>>
    BY <1>1, <1>2, <1>7, <1>16, <2>2, <2>3, <2>5
  <2> QED BY <1>1, <1>4, <1>9, <2>4, <2>6, <2>7
<1>17. ASSUME cfg.always_ready, ~TargSync, ~cfg.cthread_put PROVE Goal
  <2>1. Slots = 1 /\ PassThrough
    BY <1>1, <1>17 DEF Slots, PassThrough, Holds, InitSync, TargSync
  <2>2. /\ q = <<>>
        /\ w = <<>>
    BY <1>2, <1>3, <1>7, <1>17
  <2>3. Offered = IF p THEN <<d>> ELSE <<>>
    <3>1. Append(<<>>, d) = <<d>>
      BY <1>1, <1>2, <1>8
    <3> QED BY <1>1, <1>2, <1>4, <2>2, <3>1
  <2> QED BY <1>1, <1>2, <1>4, <1>7, <1>8, <1>17, <2>1, <2>2, <2>3
<1>18. Goal
  BY <1>1, <1>2, <1>10, <1>11, <1>12, <1>13, <1>14, <1>15, <1>16, <1>17
<1> QED BY <1>18 DEF k, h, y, a, b, c, p, d, g, e, k2, h2, y2, a2, b2, c2, w

-----------------------------------------------------------------------------
(* The kernel, and the invariant.                                            *)

\* The update phase: a process that is not woken has nothing else to compute.
LEMMA UpdateParts == ASSUME Inv, Update PROVE Parts'
<1>1. /\ runnable = {} /\ cur' = nxt /\ nxt' = nxt /\ runnable' = Woken(cur, nxt)
      /\ edge' = "none" /\ cfg' = cfg /\ put_ok' = put_ok /\ get_ok' = get_ok
  BY DEF Update
<1>2. /\ InitSync' = InitSync /\ TargSync' = TargSync /\ Holds' = Holds
      /\ CoreReq(cur)' = CoreReq(nxt) /\ CoreReady(cur)' = CoreReady(nxt)
      /\ CoreDataOut(cur)' = CoreDataOut(nxt)
      /\ Reg(nxt)' = Reg(nxt) /\ Reg(cur)' = Reg(nxt)
      /\ RegData(nxt)' = RegData(nxt) /\ RegData(cur)' = RegData(nxt)
      /\ Clocked' = Clocked
  BY <1>1 DEF InitSync, TargSync, Holds, CoreReq, NewPut, CoreReady, Taken, CoreDataOut,
              Reg, RegData, Clocked
<1>3. /\ nxt.core_req = CoreReq(cur) /\ nxt.core_ready = CoreReady(cur)
      /\ nxt.core_data_out = CoreDataOut(cur)
      /\ ~cfg.cthread_put => PutMethod(cur) /\ PutWrites(nxt)
      /\ ~cfg.cthread_get => GetMethod(cur) /\ nxt.get_req = get_ok.done
  BY <1>1 DEF Inv, Parts, ReqPart, ReadyPart, MuxPart, PutPart, GetPart
<1>4. ReqPart'
  <2>1. ASSUME "req_control" \notin Woken(cur, nxt) PROVE CoreReq(nxt) = CoreReq(cur)
    BY <2>1, NotWoken DEF CoreReq, NewPut
  <2> QED BY <1>1, <1>2, <1>3, <2>1 DEF ReqPart
<1>5. ReadyPart'
  <2>1. ASSUME "ready_control" \notin Woken(cur, nxt) PROVE CoreReady(nxt) = CoreReady(cur)
    <3>1. CASE cfg.always_ready
      BY <3>1 DEF CoreReady
    <3>2. CASE ~cfg.always_ready
      BY <2>1, <3>2, NotWoken DEF CoreReady, Taken
    <3> QED BY <3>1, <3>2
  <2> QED BY <1>1, <1>2, <1>3, <2>1 DEF ReadyPart
<1>6. MuxPart'
  <2>1. ASSUME "core_data_mux" \notin Woken(cur, nxt) PROVE CoreDataOut(nxt) = CoreDataOut(cur)
    BY <2>1, NotWoken DEF CoreDataOut
  <2> QED BY <1>1, <1>2, <1>3, <2>1 DEF MuxPart
<1>7. TargetPart' /\ InitiatorPart' /\ SyncPart'
  BY <1>1 DEF TargetPart, TargetSame, InitiatorPart, InitiatorSame, SyncPart, SyncSame
<1>8. PutPart'
  <2>1. ASSUME "put" \notin Woken(cur, nxt), ~cfg.cthread_put PROVE PutMethod(nxt)
    BY <1>3, <2>1, NotWoken DEF PutMethod, Ready
  <2>2. (PutMethod(cur) /\ PutWrites(nxt))' = (PutMethod(nxt) /\ PutWrites(nxt))
    BY <1>1, <1>2 DEF PutMethod, PutWrites, Ready
  <2>3. PutSame'
    BY <1>1, <1>2 DEF PutSame
  <2> QED BY <1>1, <1>3, <2>1, <2>2, <2>3 DEF PutPart
<1>9. GetPart'
  <2>1. ASSUME "get" \notin Woken(cur, nxt), ~cfg.cthread_get PROVE GetMethod(nxt)
    BY <1>3, <2>1, NotWoken DEF GetMethod, Request
  <2>2. GetMethod(cur)' = GetMethod(nxt)
    BY <1>1, <1>2 DEF GetMethod, Request
  <2> QED BY <1>1, <1>3, <2>1, <2>2 DEF GetPart
<1>10. KernelPart'
  <2>1. Woken(cur, nxt) \cap Clocked = {}
    BY Processes, NotWoken
  <2> QED BY <1>1, <1>2, <2>1 DEF KernelPart
<1>11. QuietPart'
  <2>1. QuietPart
    BY DEF Inv, Parts
  <2> QED BY <1>1, <2>1 DEF QuietPart, Quiet
<1> QED BY <1>4, <1>5, <1>6, <1>7, <1>8, <1>9, <1>10, <1>11 DEF Parts

\* The update phase moves the queue and the registers alike.
LEMMA UpdateStep == ASSUME Inv, Update PROVE Inv'
<1>1. /\ runnable = {} /\ cur' = nxt /\ nxt' = nxt /\ runnable' = Woken(cur, nxt)
      /\ edge' = "none"
      /\ UNCHANGED <<cfg, rst, put_ok, get_ok, blocked, resets>>
  BY DEF Update
<1>2. /\ Types /\ q = Words(cur)
  BY DEF Inv
<1>3. Words(cur)' = Words(nxt)
  BY <1>1 DEF Words, Keeps, Held, Synced, Word, CoreReq, NewPut, Taken, Holds, InitSync, TargSync
<1>4. q' = Words(nxt) /\ q' \in Seq(Data) /\ op' \in [put : Result, get : Result]
  <2>1. CASE edge = "none"
    BY <1>2, <2>1, DeltaWords DEF Update, Types
  <2>2. CASE edge # "none" /\ rst
    <3>1. q' = <<>> /\ op' = [put |-> Nothing, get |-> Nothing]
      BY <2>2 DEF Update
    <3>2. Nothing \in Result
      BY DataAssumption, OutcomeType
    <3> QED BY <1>1, <2>2, <3>1, <3>2, ResetWords
  <2>3. CASE edge # "none" /\ ~rst
    <3>1. q' = Committed /\ op' = [put |-> put_ok, get |-> get_ok]
      BY <2>3 DEF Update
    <3>2. Committed = Words(nxt) /\ Committed \in Seq(Data)
      BY <1>1, <2>3, EdgeCommits
    <3> QED BY <1>2, <3>1, <3>2 DEF Types
  <2> QED BY <2>1, <2>2, <2>3
<1>5. Types'
  <2>1. runnable' \subseteq (Clocked \cup DOMAIN Sensitive)'
    BY <1>1, NotWoken, Processes DEF Clocked, InitSync, Holds, Sensitive
  <2> QED BY <1>1, <1>2, <1>4, <2>1 DEF Types
<1> QED BY <1>3, <1>4, <1>5, UpdateParts DEF Inv

\* What the parts say when time may advance.
LEMMA WhenSettled ==
    ASSUME Parts, Settled
    PROVE  /\ runnable = {} /\ nxt = cur /\ edge = "none"
           /\ TargetSame /\ InitiatorSame /\ SyncSame /\ PutSame
           /\ Stable
<1>1. runnable = {} /\ nxt = cur /\ edge = "none"
  BY DEF Settled
<1> QED
  BY <1>1 DEF Parts, ReqPart, ReadyPart, MuxPart, PutPart, GetPart, Stable,
              TargetSame, InitiatorSame, SyncSame, PutSame

\* Time advances to an edge: the clocked processes run, nothing else does.
LEMMA EdgeParts ==
    ASSUME Parts, Settled, UNCHANGED <<cfg, cur, put_ok, get_ok>>,
           runnable' = Clocked, edge' \in {"clock", "reset"}, edge' = "reset" => rst',
           NEW po, NEW pv, NEW go, nxt \in Signals,
           nxt' = [nxt EXCEPT !.put_op = po, !.put_val = pv, !.get_op = go],
           cfg.always_ready /\ ~cfg.cthread_get =>
               go = "get" \/ (nxt' = nxt /\ edge' = "reset")
    PROVE  Parts'
<1>1. /\ runnable = {} /\ nxt = cur /\ edge = "none" /\ Stable /\ QuietPart
  BY WhenSettled DEF Parts
<1>2. /\ nxt'.get_op = go
      /\ nxt'.put_req = cur.put_req /\ nxt'.put_req_d = cur.put_req_d
      /\ nxt'.init_req_d = cur.init_req_d /\ nxt'.sync_req = cur.sync_req
      /\ nxt'.sync_req_d = cur.sync_req_d /\ nxt'.sync_data = cur.sync_data
      /\ nxt'.core_data = cur.core_data /\ nxt'.core_req = cur.core_req
      /\ nxt'.core_ready = cur.core_ready
      /\ nxt'.get_req = cur.get_req /\ nxt'.get_req_d = cur.get_req_d
      /\ nxt'.targ_req_d = cur.targ_req_d /\ nxt'.core_data_d = cur.core_data_d
      /\ nxt'.core_data_out = cur.core_data_out
  BY <1>1 DEF Signals
<1>3. /\ InitSync' = InitSync /\ TargSync' = TargSync /\ Holds' = Holds
      /\ CoreReq(cur)' = CoreReq(cur) /\ CoreReady(cur)' = CoreReady(cur)
      /\ CoreDataOut(cur)' = CoreDataOut(cur)
      /\ Ready(cur)' = Ready(cur) /\ Request(cur)' = Request(cur)
      /\ Reg(cur)' = Reg(cur) /\ RegData(cur)' = RegData(cur)
      /\ Reg(nxt)' = Reg(cur) /\ RegData(nxt)' = RegData(cur)
      /\ Clocked' = Clocked
  BY <1>2 DEF InitSync, TargSync, Holds, CoreReq, NewPut, CoreReady, Taken, CoreDataOut,
              Ready, Request, Reg, RegData, Clocked
<1>4. ReqPart' /\ ReadyPart' /\ MuxPart'
  BY <1>1, <1>2, <1>3 DEF ReqPart, ReadyPart, MuxPart, Stable
<1>5. TargetPart' /\ InitiatorPart' /\ SyncPart'
  BY <1>2, <1>3, Processes DEF TargetPart, TargetSame, InitiatorPart, InitiatorSame, SyncPart, SyncSame
<1>6. PutPart' /\ GetPart'
  <2>1. PutSame' /\ nxt'.get_req = cur'.get_req
    BY <1>2, <1>3 DEF PutSame
  <2>2. ~cfg.cthread_put => PutMethod(cur)' /\ PutWrites(nxt)'
    BY <1>1, <1>3 DEF Stable, PutMethod, PutWrites
  <2>3. ~cfg.cthread_get => GetMethod(cur)' /\ nxt'.get_req = get_ok'.done
    BY <1>1, <1>2, <1>3 DEF Stable, GetMethod
  <2> QED BY <2>1, <2>2, <2>3, Processes DEF PutPart, GetPart
<1>7. KernelPart'
  <2>1. Stable'
    BY <1>1, <1>3 DEF Stable, PutMethod, PutWrites, GetMethod
  <2> QED BY <1>3, <2>1 DEF KernelPart
<1>8. QuietPart'
  BY <1>1, <1>2 DEF QuietPart, Quiet
<1> QED BY <1>4, <1>5, <1>6, <1>7, <1>8 DEF Parts

\* The steps that advance time.
LEMMA TimeStep == ASSUME Inv, ClockEdge \/ AssertReset \/ ReleaseReset PROVE Inv'
<1>1. /\ Types /\ Parts /\ q = Words(cur) /\ cfg \in Configs /\ nxt \in Signals
      /\ cfg.cthread_put \in BOOLEAN /\ cfg.cthread_get \in BOOLEAN
      /\ cfg.always_ready \in BOOLEAN
  BY ConfigType DEF Inv, Types
<1>2. UNCHANGED <<cfg, cur, put_ok, get_ok, blocked, q, op>> /\ Settled
  BY DEF ClockEdge, AssertReset, ReleaseReset
<1>3. /\ q' = Words(cur)'
      /\ Clocked' = Clocked /\ (DOMAIN Sensitive)' = DOMAIN Sensitive
  BY <1>1, <1>2, WordsKept, Processes DEF Clocked, InitSync, Holds, Sensitive
<1>4. CASE ClockEdge
  <2>1. PICK po \in IF cfg.cthread_put THEN {"clear"} ELSE PutOps \ {"b_put"} :
        \E pv \in IF po = "clear" THEN {ZERO} ELSE Data,
           go \in IF cfg.cthread_get THEN {"clear"}
                  ELSE IF cfg.always_ready THEN {"get"} ELSE GetOps \ {"mask", "b_get"} :
           nxt' = [nxt EXCEPT !.put_op = po, !.put_val = pv, !.get_op = go]
    BY <1>4 DEF ClockEdge
  <2>2. PICK pv \in IF po = "clear" THEN {ZERO} ELSE Data,
             go \in IF cfg.cthread_get THEN {"clear"}
                    ELSE IF cfg.always_ready THEN {"get"} ELSE GetOps \ {"mask", "b_get"} :
           nxt' = [nxt EXCEPT !.put_op = po, !.put_val = pv, !.get_op = go]
    BY <2>1
  <2>3. po \in PutOpKinds /\ pv \in Data /\ go \in GetOpKinds
    BY <1>1, <2>1, <2>2, OpsAssumption, DataAssumption DEF PutOpKinds, GetOpKinds
  <2>4. nxt' \in Signals
    BY <1>1, <2>3, <2>2 DEF Signals
  <2>5. runnable' = Clocked /\ edge' = "clock" /\ rst' = rst /\ resets' = resets
    BY <1>4 DEF ClockEdge
  <2>6. Parts'
    BY <1>1, <1>2, <2>5, <2>2, EdgeParts
  <2>7. Types'
    BY <1>1, <1>2, <1>3, <2>4, <2>5 DEF Types
  <2> QED BY <1>3, <2>6, <2>7 DEF Inv
<1>5. CASE AssertReset
  <2>1. /\ runnable' = Clocked /\ edge' = "reset" /\ rst' = TRUE /\ nxt' = nxt
        /\ resets' = resets + 1 /\ resets < MaxResets
    BY <1>5 DEF AssertReset
  <2> DEFINE po == nxt.put_op
             pv == nxt.put_val
             go == nxt.get_op
  <2>2. nxt' = [nxt EXCEPT !.put_op = po, !.put_val = pv, !.get_op = go]
    BY <1>1, <2>1 DEF Signals
  <2> HIDE DEF po, pv, go
  <2>3. Parts'
    <3>1. edge' \in {"clock", "reset"} /\ (edge' = "reset" => rst') /\ runnable' = Clocked
      BY <2>1
    <3>2. cfg.always_ready /\ ~cfg.cthread_get => go = "get" \/ (nxt' = nxt /\ edge' = "reset")
      BY <2>1
    <3> QED BY <1>1, <1>2, <2>2, <3>1, <3>2, EdgeParts
  <2>4. resets' \in 0 .. MaxResets
    BY <1>1, <2>1, MaxResetsAssumption DEF Types
  <2>5. Types'
    BY <1>1, <1>2, <1>3, <2>1, <2>4 DEF Types
  <2> QED BY <1>3, <2>3, <2>5 DEF Inv
<1>6. CASE ReleaseReset
  <2>1. UNCHANGED <<nxt, runnable, edge, resets>> /\ rst' = FALSE /\ edge = "none"
    BY <1>6 DEF ReleaseReset, Settled
  <2>2. /\ ReqPart' /\ ReadyPart' /\ MuxPart'
    BY <1>1, <1>2, <2>1 DEF Parts, ReqPart, ReadyPart, MuxPart, CoreReq, NewPut, CoreReady,
              Taken, CoreDataOut, Holds, InitSync, TargSync
  <2>3. TargetPart' /\ InitiatorPart' /\ SyncPart'
    BY <1>1, <1>2, <2>1 DEF Parts, TargetPart, TargetSame, InitiatorPart, InitiatorSame,
              SyncPart, SyncSame, InitSync
  <2>4. PutPart' /\ GetPart'
    BY <1>1, <1>2, <2>1 DEF Parts, PutPart, PutSame, PutMethod, PutWrites, GetPart, GetMethod,
              Reg, RegData, Ready, Request, InitSync, TargSync
  <2>5. KernelPart' /\ QuietPart'
    BY <1>1, <1>2, <1>3, <2>1 DEF Parts, KernelPart, QuietPart, Quiet
  <2>6. Types'
    BY <1>1, <1>2, <1>3, <2>1 DEF Types
  <2> QED BY <1>3, <2>2, <2>3, <2>4, <2>5, <2>6 DEF Inv, Parts
<1> QED BY <1>4, <1>5, <1>6

\* In the initial states all processes are about to run and nothing is under way.
LEMMA InitInv == Init => Inv
<1> SUFFICES ASSUME Init PROVE Inv
  OBVIOUS
<1>1. /\ cfg \in Configs /\ nxt = cur /\ runnable = Clocked \cup DOMAIN Sensitive
      /\ rst = TRUE /\ edge = "reset" /\ put_ok = Nothing /\ get_ok = Nothing
      /\ blocked = [put |-> FALSE, get |-> FALSE]
      /\ q = <<>> /\ op = [put |-> Nothing, get |-> Nothing] /\ resets = 0
  BY DEF Init
<1>2. /\ cur \in Signals /\ ~cur.put_req /\ ~cur.put_req_d /\ ~cur.init_req_d
      /\ ~cur.sync_req /\ ~cur.sync_req_d /\ ~cur.targ_req_d
      /\ ~cur.get_req /\ ~cur.get_req_d /\ cur.put_op = "clear"
  BY DataAssumption DEF Init, Signals, PutOpKinds, GetOpKinds
<1>3. Nothing \in Result
  BY DataAssumption, OutcomeType
<1>4. Types
  BY <1>1, <1>2, <1>3, MaxResetsAssumption DEF Types
<1>5. /\ "req_control" \in runnable /\ "ready_control" \in runnable
      /\ "core_data_mux" \in runnable /\ "targ_core_thread" \in runnable
      /\ "put" \in runnable /\ "get" \in runnable
      /\ InitSync => "sync_thread" \in runnable
      /\ Holds => "init_core_thread" \in runnable
  BY <1>1, Processes
<1>6. Parts
  BY <1>1, <1>2, <1>5 DEF Parts, ReqPart, ReadyPart, MuxPart, TargetPart, TargetSame,
         InitiatorPart, InitiatorSame, SyncPart, SyncSame, PutPart, PutSame, GetPart,
         KernelPart, QuietPart, Quiet
<1>7. Words(cur) = <<>>
  <2>1. ~Keeps(cur) /\ ~Held(cur) /\ ~Synced(cur)
    BY <1>2 DEF Keeps, Held, Synced, CoreReq, NewPut, Signals
  <2> QED BY <1>1, <1>2, <2>1, WordsOf
<1> QED BY <1>1, <1>4, <1>6, <1>7 DEF Inv

\* The invariant is inductive.
LEMMA NextInv == ASSUME Inv, [Next]_vars PROVE Inv'
<1>1. CASE UNCHANGED vars
  BY <1>1 DEF vars, Inv, Types, Parts, ReqPart, ReadyPart, MuxPart, TargetPart, TargetSame,
         TargetStep, InitiatorPart, InitiatorSame, InitiatorStep, SyncPart, SyncSame,
         SyncThread, Moves, PutPart, PutSame, PutThread, PutMethod, PutWrites, Reg, RegData,
         GetPart, GetThread, GetMethod, KernelPart, Stable, QuietPart, Quiet, Words, Word,
         Keeps, Held, Synced, CoreReq, NewPut, CoreReady, Taken, CoreDataOut, Ready, Request,
         InitSync, TargSync, Holds, Clocked, Sensitive, GetSensitive
<1>2. CASE ModuleProc
  BY <1>2, ReqStep, ReadyStep, MuxStep, SyncThreadStep, InitiatorThreadStep,
     TargetThreadStep DEF ModuleProc
<1> QED
  BY <1>1, <1>2, PutStep, GetStep, UpdateStep, TimeStep DEF Next, Evaluate

-----------------------------------------------------------------------------
(* What follows from the invariant.                                          *)

\* The registers hold as many words as the contract's queue has slots.
LEMMA WordsFit ==
    ASSUME Inv
    PROVE  /\ Len(q) <= Slots
           /\ Keeps(cur) => q # <<>> /\ Head(q) = cur.core_data_d
<1> DEFINE k == Keeps(cur)
           h == Held(cur)
           y == Synced(cur)
           a == cur.core_data_d
           b == cur.core_data
           c == cur.sync_data
<1>1. /\ cfg \in Configs /\ cur \in Signals
      /\ cfg.cthread_put \in BOOLEAN /\ cfg.sync \in BOOLEAN /\ cfg.always_ready \in BOOLEAN
      /\ q = Words(cur)
  BY ConfigType DEF Inv, Types
<1>2. /\ k \in BOOLEAN /\ h \in BOOLEAN /\ y \in BOOLEAN
      /\ a \in Data /\ b \in Data /\ c \in Data
  BY <1>1, WordTypes
<1>3. q = IF k THEN IF h THEN IF y THEN <<a, b, c>> ELSE <<a, b>>
                         ELSE IF y THEN <<a, c>> ELSE <<a>>
          ELSE IF h THEN IF y THEN <<b, c>> ELSE <<b>>
                    ELSE IF y THEN <<c>> ELSE <<>>
  BY <1>1, WordsOf
<1>4. /\ y => cfg.cthread_put /\ cfg.sync
      /\ h => cfg.cthread_put \/ cfg.sync
      /\ k /\ h /\ cfg.always_ready => cfg.cthread_put /\ cfg.sync
  BY <1>1 DEF Synced, Held, Keeps, Holds, InitSync, TargSync
<1>5. Slots = (IF cfg.cthread_put THEN 2 ELSE 1) + (IF cfg.sync THEN 1 ELSE 0)
  BY DEF Slots
<1> HIDE DEF k, h, y, a, b, c
<1>6. /\ <<a>> # <<>> /\ <<a, b>> # <<>> /\ <<a, c>> # <<>> /\ <<a, b, c>> # <<>>
      /\ Head(<<a>>) = a /\ Head(<<a, b>>) = a /\ Head(<<a, c>>) = a /\ Head(<<a, b, c>>) = a
      /\ Len(<<>>) = 0 /\ Len(<<a>>) = 1 /\ Len(<<b>>) = 1 /\ Len(<<c>>) = 1
      /\ Len(<<a, b>>) = 2 /\ Len(<<a, c>>) = 2 /\ Len(<<b, c>>) = 2 /\ Len(<<a, b, c>>) = 3
  OBVIOUS
<1>7. k => q # <<>> /\ Head(q) = a
  BY <1>2, <1>3, <1>6
<1>8. Len(q) <= Slots
  <2>1. /\ y => Slots = 3
        /\ k /\ h => Slots \in {2, 3}
        /\ Slots \in {1, 2, 3}
    BY <1>1, <1>2, <1>4, <1>5
  <2> QED BY <1>2, <1>3, <1>6, <2>1
<1> QED BY <1>7, <1>8 DEF k, a

\* Every edge outside reset is a cycle of the contract, every other step changes
\* nothing in it or resets it.
LEMMA ContractStep ==
    ASSUME Inv, [Next]_vars
    PROVE  [Contract!Next]_(Contract!contractVars)
<1>1. cfg' = cfg
  BY DEF Next, Evaluate, ModuleProc, PutProc, GetProc, req_control, ready_control,
         core_data_mux, sync_thread, init_core_thread, targ_core_thread, reset_put,
         clear_put, put, b_put, reset_get, clear_get, get, b_get, ModuleFrame, PutFrame,
         GetFrame, Update, ClockEdge, AssertReset, ReleaseReset, vars
<1>2. UNCHANGED <<Slots, PassThrough>>
  BY <1>1 DEF Slots, PassThrough
<1>3. CASE ~Update
  <2>1. UNCHANGED <<q, op>>
    BY <1>3 DEF Next, Evaluate, ModuleProc, PutProc, GetProc, req_control, ready_control,
         core_data_mux, sync_thread, init_core_thread, targ_core_thread, reset_put,
         clear_put, put, b_put, reset_get, clear_get, get, b_get, ModuleFrame, PutFrame,
         GetFrame, ClockEdge, AssertReset, ReleaseReset, vars
  <2> QED BY <1>2, <2>1 DEF Contract!contractVars
<1>4. CASE Update /\ edge = "none"
  BY <1>2, <1>4 DEF Update, Contract!contractVars
<1>5. CASE Update /\ edge # "none" /\ rst
  <2>1. Contract!Reset
    BY <1>2, <1>5 DEF Update, Contract!Reset, Contract!NoOp, Nothing
  <2> QED BY <2>1 DEF Contract!Next
<1>6. CASE Update /\ edge # "none" /\ ~rst
  <2>1. q' = Committed /\ op' = [put |-> put_ok, get |-> get_ok] /\ runnable = {}
    BY <1>6 DEF Update
  <2>2. /\ Committed = IF get_ok.done THEN Tail(Offered) ELSE Offered
        /\ put_ok.done => Len(q) < Slots
        /\ get_ok.done => q # <<>> \/ (put_ok.done /\ PassThrough)
        /\ get_ok.done => get_ok.data = Head(Offered)
    BY <1>6, <2>1, EdgeCommits
  <2>3. Contract!Cycle(put_ok, get_ok)
    BY <1>2, <2>1, <2>2 DEF Contract!Cycle, Offered
  <2>4. put_ok \in Result /\ get_ok \in Result
    BY DEF Inv, Types
  <2> QED BY <2>3, <2>4 DEF Contract!Next, Contract!Results, Result
<1> QED BY <1>3, <1>4, <1>5, <1>6

\* The parts of the processes and the place of every word, at all times.
THEOREM Invariant == Spec => []Inv
  BY InitInv, NextInv, PTL DEF Spec

\* Every signal keeps its type, and never are more elements under way than the
\* two modules have data registers: no word is overwritten for lack of room.
THEOREM RegistersSuffice == Spec => []TypeOK
<1>1. Inv => TypeOK
  BY WordsFit DEF Inv, Types, TypeOK
<1> QED BY <1>1, Invariant, PTL

\* The sensitivity lists of initiator and target, and of addTo(), are complete:
\* when time advances no process would compute anything else.
THEOREM PairSettles == Spec => []SignalsSettled
<1>1. Inv => SignalsSettled
  <2> SUFFICES ASSUME Inv, Settled
               PROVE  /\ cur.core_req = CoreReq(cur)
                      /\ cur.core_ready = CoreReady(cur)
                      /\ cur.core_data_out = CoreDataOut(cur)
                      /\ ~cfg.cthread_put => put_ok.done = (cur.put_op = "put" /\ Ready(cur))
                      /\ ~cfg.cthread_get =>
                            get_ok = Outcome(cur.get_op = "get" /\ Request(cur), cur.core_data_out)
    BY DEF SignalsSettled
  <2>1. Stable /\ cfg \in Configs /\ cur \in Signals
    BY WhenSettled DEF Inv, Types
  <2>2. Ready(cur) \in BOOLEAN /\ cur.put_val \in Data
    BY <2>1, OutputTypes DEF Signals
  <2>3. ASSUME ~cfg.cthread_put PROVE put_ok.done = (cur.put_op = "put" /\ Ready(cur))
    <3> DEFINE does == cur.put_op = "put" /\ Ready(cur)
    <3>1. put_ok = Outcome(does, cur.put_val)
      BY <2>1, <2>3 DEF Stable, PutMethod
    <3>2. does \in BOOLEAN
      BY <2>2
    <3> HIDE DEF does
    <3>3. put_ok.done = does
      BY <2>2, <3>1, <3>2, OutcomeType
    <3> QED BY <3>3 DEF does
  <2> QED BY <2>1, <2>3 DEF Stable, GetMethod
<1> QED BY <1>1, Invariant, PTL

\* The target refuses only while its register keeps the oldest element that was
\* put and not yet got.
THEOREM BackPressure == Spec => []NotReadyHoldsOldest
<1>1. Inv => NotReadyHoldsOldest
  <2> SUFFICES ASSUME Inv, Settled, ~cur.core_ready
               PROVE  q # <<>> /\ cur.core_data_d = Head(q)
    BY DEF NotReadyHoldsOldest
  <2>1. Stable /\ cfg \in Configs /\ cur \in Signals
    BY WhenSettled DEF Inv, Types
  <2>2. ~CoreReady(cur)
    BY <2>1 DEF Stable
  <2>3. Keeps(cur)
    BY <2>2 DEF CoreReady, Keeps
  <2> QED BY <2>3, WordsFit
<1> QED BY <1>1, Invariant, PTL

\* The pair of initiator and target is a bounded queue whatever the process
\* kinds, the sync register, always_ready and the order in which the processes
\* of a delta cycle run: nothing is lost, duplicated or reordered.
THEOREM PairImplementsContract == Spec => ImplementsContract
<1>1. Init => Contract!Init
  BY DEF Init, Contract!Init, Contract!NoOp, Nothing
<1>2. Inv /\ [Next]_vars => [Contract!Next]_(Contract!contractVars)
  BY ContractStep
<1> QED BY <1>1, <1>2, Invariant, PTL DEF Spec, ImplementsContract, Contract!Spec
=============================================================================
