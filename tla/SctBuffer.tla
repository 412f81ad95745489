------------------------------- MODULE SctBuffer -------------------------------
(***************************************************************************)
(* sct_buffer, the FIFO for threads only, in its three simulations:         *)
(*   "CA"  sct_buffer_impl, its threads run at every clock edge;            *)
(*   "AT"  sct_buffer_impl, its threads run when its one event is notified; *)
(*   "LT"  sct_prim_buffer, also the whole of a connected initiator/target  *)
(*         pair in that mode: a thread may put or get several elements      *)
(*         before it waits, and put_event / get_event are notified only at  *)
(*         some fill levels.                                                *)
(* It is a primitive channel: calls change it at once, update() runs at the *)
(* end of the delta cycle if one of them called request_update().           *)
(* One AdvanceTime is one clock period.                                     *)
(***************************************************************************)
EXTENDS Integers, Sequences

CONSTANTS
    Data,           \* the values of type T
    ZERO,           \* T{}
    Configs,        \* the configurations explored
    MaxResets       \* bound: how often reset is asserted again

Side == {"put", "get"}

\* Attributes fixed at elaboration.  eager: the threads of which it is known
\* that, whenever they run, they transfer until the buffer refuses; the others
\* do what they like.
Config == [mode : {"CA", "AT", "LT"}, bufSize : Nat \ {0},
           MULTI_PUT : BOOLEAN, MULTI_GET : BOOLEAN, eager : SUBSET Side]

\* sct_buffer<T, LENGTH, TRAITS, mode>.  Several transfers per delta cycle, and
\* the assertion that there are two slots at least, are those of "LT".
BufferConfig(mode, LENGTH, multi_put, multi_get, eager) ==
    [mode |-> mode, bufSize |-> LENGTH,
     MULTI_PUT |-> multi_put, MULTI_GET |-> multi_get, eager |-> eager]

\* sct_target<T, TRAITS, 2>::before_end_of_elaboration, att is the length of the
\* FIFO added with add_fifo (0 if none).
TargetConfig(att, multi_put, multi_get, eager) ==
    BufferConfig("LT", IF att > 0 THEN att + 2 ELSE 2, multi_put, multi_get, eager)

ASSUME DataAssumption == ZERO \in Data
ASSUME ConfigsAssumption ==
    /\ Configs \subseteq Config
    /\ \A c \in Configs : IF c.mode = "LT" THEN c.bufSize > 1
                                           ELSE ~c.MULTI_PUT /\ ~c.MULTI_GET
ASSUME MaxResetsAssumption == MaxResets \in Nat

VARIABLES
    cfg,        \* the configuration
    ch,         \* the members of the channel, see ChannelType
    runnable,   \* threads to run in this evaluation phase
    running,    \* the one that has begun, "none" between two activations
    rst,        \* reset is active
    put_ok,     \* elements put in this delta cycle
    get_ok,     \* elements got in this delta cycle
    refused,    \* threads that went to sleep because the buffer refused them
    blocked,    \* those of them that wait inside b_put() / b_get()
    q,          \* history: elements put and not yet got, oldest first
    op,         \* history: what the last delta cycle committed
    resets      \* number of times reset has been asserted again

vars == <<cfg, ch, runnable, running, rst, put_ok, get_ok, refused, blocked, q, op, resets>>

LT == cfg.mode = "LT"
NextIndx(i) == IF i = cfg.bufSize - 1 THEN 0 ELSE i + 1
When(condition, side) == IF condition THEN {side} ELSE {}

\* updating: request_update() was called; notified: threads whose event is
\* notified for the next clock period (an earlier notification stays).
Init ==
    /\ cfg \in Configs
    /\ ch = [pop_indx |-> 0, get_num |-> 0, push_indx |-> 0, put_num |-> 0,
             element_num |-> 0, buffer |-> [i \in 0 .. cfg.bufSize - 1 |-> ZERO],
             updating |-> FALSE, notified |-> {}]
    /\ rst = TRUE /\ runnable = Side /\ running = "none"
    /\ put_ok = <<>> /\ get_ok = <<>>
    /\ refused = {} /\ blocked = {}
    /\ q = <<>> /\ op = [put |-> <<>>, get |-> <<>>]
    /\ resets = 0

-----------------------------------------------------------------------------
(* The channel's methods, as functions of its members. *)

ready(c) == cfg.bufSize - c.element_num > (IF cfg.MULTI_PUT THEN c.put_num ELSE 0)
request(c) == c.element_num > (IF cfg.MULTI_GET THEN c.get_num ELSE 0)
peek(c) == c.buffer[c.pop_indx]

reset_put(c) == [c EXCEPT !.push_indx = 0, !.element_num = 0, !.put_num = 0,
                          !.buffer[0] = ZERO, !.updating = TRUE]
ResetGetKeepsIndx(c) ==      \* mutant: the index is not reset
    [c EXCEPT !.get_num = 0, !.updating = TRUE]
reset_get(c) == [c EXCEPT !.pop_indx = 0, !.get_num = 0, !.updating = TRUE]

\* The clears withdraw a request of this delta cycle; "LT" refuses them to a
\* side with several requests, and does not need a new update.
clear_put(c) == [c EXCEPT !.put_num = 0, !.updating = c.updating \/ ~LT]
clear_get(c) == [c EXCEPT !.get_num = 0, !.updating = c.updating \/ ~LT]

GetNotifiesLast(c) ==        \* mutant: threshold one too low
    LET first == c.get_num = 0 IN
    When(\/ cfg.MULTI_PUT /\ c.element_num <= c.get_num + 1
         \/ first /\ ~cfg.MULTI_PUT /\ c.element_num = cfg.bufSize, "put")
    \cup When(first /\ (cfg.MULTI_PUT \/ ~cfg.MULTI_GET), "get")
GetNotifiesSelf(c) ==        \* mutant: a putter with one request forgotten
    When(cfg.MULTI_PUT /\ c.element_num <= c.get_num + 2, "put")
    \cup When(c.get_num = 0 /\ (cfg.MULTI_PUT \/ ~cfg.MULTI_GET), "get")
\* Whom doGet() wakes.  A side with one request per delta cycle is woken when
\* the buffer was full (empty) and after each transfer of its own; a side with
\* several is woken when there is one element (one free slot) left.
GetNotifies(c) ==
    LET first == c.get_num = 0 IN
    When(\/ cfg.MULTI_PUT /\ c.element_num <= c.get_num + 2
         \/ first /\ ~cfg.MULTI_PUT /\ c.element_num = cfg.bufSize, "put")
    \cup When(first /\ (cfg.MULTI_PUT \/ ~cfg.MULTI_GET), "get")
PutNotifiesFull(c) ==        \* mutant: threshold above what put_num can reach
    LET first == c.put_num = 0 IN
    When(\/ cfg.MULTI_GET /\ c.element_num >= cfg.bufSize - c.put_num
         \/ first /\ ~cfg.MULTI_GET /\ c.element_num = 0, "get")
    \cup When(first /\ (cfg.MULTI_GET \/ ~cfg.MULTI_PUT), "put")
PutNotifies(c) ==
    LET first == c.put_num = 0 IN
    When(\/ cfg.MULTI_GET /\ c.element_num >= cfg.bufSize - c.put_num - 2
         \/ first /\ ~cfg.MULTI_GET /\ c.element_num = 0, "get")
    \cup When(first /\ (cfg.MULTI_GET \/ ~cfg.MULTI_PUT), "put")

doGet(c) ==
    [c EXCEPT !.pop_indx = IF cfg.MULTI_GET THEN NextIndx(@) ELSE @,
              !.get_num = IF cfg.MULTI_GET THEN @ + 1 ELSE 1,
              !.notified = IF LT THEN @ \cup GetNotifies(c) ELSE @,
              !.updating = TRUE]
doPut(c, data) ==
    [c EXCEPT !.buffer[c.push_indx] = data,
              !.push_indx = IF cfg.MULTI_PUT THEN NextIndx(@) ELSE @,
              !.put_num = IF cfg.MULTI_PUT THEN @ + 1 ELSE 1,
              !.notified = IF LT THEN @ \cup PutNotifies(c) ELSE @,
              !.updating = TRUE]

update(c) ==
    LET got == c.get_num > 0 /\ ~cfg.MULTI_GET
        put == c.put_num > 0 /\ ~cfg.MULTI_PUT
    IN [c EXCEPT !.pop_indx = IF got THEN NextIndx(@) ELSE @,
                 !.push_indx = IF put THEN NextIndx(@) ELSE @,
                 !.element_num = @ - c.get_num + c.put_num,
                 !.get_num = 0, !.put_num = 0,
                 !.notified = IF cfg.mode = "AT" THEN Side ELSE @,
                 !.updating = FALSE]

-----------------------------------------------------------------------------
(* The threads.  An activation is a sequence of calls that ends in wait().   *)
(* Threads do not preempt each other.                                        *)

MayRun(side) == /\ side \in runnable
                /\ running \in {"none", side}

\* The thread goes on after the call.
Continue(side) == /\ running' = side
                  /\ blocked' = blocked \ {side}
                  /\ UNCHANGED <<runnable, refused>>
\* The thread reaches wait().
Sleep(side) == /\ running' = "none"
               /\ runnable' = runnable \ {side}

\* put() that returns true, or the end of b_put().  A side without MULTI_PUT
\* puts once per activation.
Put(data) ==
    /\ MayRun("put") /\ ~rst /\ ready(ch)
    /\ cfg.MULTI_PUT \/ put_ok = <<>>
    /\ ch' = doPut(ch, data)
    /\ put_ok' = Append(put_ok, data)
    /\ Continue("put")
    /\ UNCHANGED <<cfg, rst, get_ok, q, op, resets>>

Get ==
    /\ MayRun("get") /\ ~rst /\ request(ch)
    /\ cfg.MULTI_GET \/ get_ok = <<>>
    /\ ch' = doGet(ch)
    /\ get_ok' = Append(get_ok, peek(ch))
    /\ Continue("get")
    /\ UNCHANGED <<cfg, rst, put_ok, q, op, resets>>

\* put() / get() that returns false, after which the thread waits, or one more
\* turn of the loop in b_put() / b_get(), which "LT" refuses to a side with
\* several requests.
Refused(side, accepts, multi, done) ==
    /\ MayRun(side) /\ ~rst /\ ~accepts
    /\ multi \/ done = <<>>
    /\ refused' = refused \cup {side}
    /\ \/ UNCHANGED blocked
       \/ ~multi /\ blocked' = blocked \cup {side}
    /\ Sleep(side)
    /\ UNCHANGED <<cfg, ch, rst, put_ok, get_ok, q, op, resets>>
PutRefused == Refused("put", ready(ch), cfg.MULTI_PUT, put_ok)
GetRefused == Refused("get", request(ch), cfg.MULTI_GET, get_ok)

\* wait() without having been refused (mask or enable false included).  An
\* eager thread does so only after its one transfer.
Wait(side, multi, done) ==
    /\ MayRun(side) /\ ~rst /\ side \notin blocked
    /\ side \in cfg.eager => ~multi /\ done # <<>>
    /\ refused' = refused \ {side}
    /\ Sleep(side)
    /\ UNCHANGED <<cfg, ch, rst, put_ok, get_ok, blocked, q, op, resets>>
PutWait == Wait("put", cfg.MULTI_PUT, put_ok)
GetWait == Wait("get", cfg.MULTI_GET, get_ok)

\* A clear at the start of an activation, or as its last call, which withdraws
\* the transfer made in it.
Clear(side, multi) ==
    /\ MayRun(side) /\ ~rst /\ side \notin blocked \cup cfg.eager /\ ~multi
    /\ IF running = "none"
       THEN Continue(side)
       ELSE Sleep(side) /\ refused' = refused \ {side} /\ UNCHANGED blocked
ClearPut == /\ Clear("put", cfg.MULTI_PUT)
            /\ ch' = clear_put(ch) /\ put_ok' = <<>>
            /\ UNCHANGED <<cfg, rst, get_ok, q, op, resets>>
ClearGet == /\ Clear("get", cfg.MULTI_GET)
            /\ ch' = clear_get(ch) /\ get_ok' = <<>>
            /\ UNCHANGED <<cfg, rst, put_ok, q, op, resets>>

\* The reset section of a thread, run again by every event while rst.
ResetSection(side) ==
    /\ MayRun(side) /\ rst
    /\ ch' = IF side = "put" THEN reset_put(ch) ELSE reset_get(ch)
    /\ refused' = refused \ {side} /\ blocked' = blocked \ {side}
    /\ Sleep(side)
    /\ UNCHANGED <<cfg, rst, put_ok, get_ok, q, op, resets>>

Evaluate == \/ \E data \in Data : Put(data)
            \/ Get
            \/ PutRefused \/ GetRefused
            \/ PutWait \/ GetWait
            \/ ClearPut \/ ClearGet
            \/ \E side \in Side : ResetSection(side)

-----------------------------------------------------------------------------
(* The kernel, the clock and the reset. *)

Idle == runnable = {} /\ ~ch.updating

\* The update phase, when one was requested.
Update ==
    /\ runnable = {} /\ ch.updating
    /\ ch' = update(ch)
    /\ q' = IF rst THEN <<>> ELSE SubSeq(q, Len(get_ok) + 1, Len(q)) \o put_ok
    /\ op' = [put |-> put_ok, get |-> get_ok]
    /\ put_ok' = <<>> /\ get_ok' = <<>>
    /\ UNCHANGED <<cfg, runnable, running, rst, refused, blocked, resets>>

\* The next clock period.  Other channels may wake the threads as well.
AdvanceTime ==
    /\ Idle
    /\ \E others \in SUBSET Side :
          runnable' = IF cfg.mode = "CA" THEN Side ELSE ch.notified \cup others
    /\ ch' = [ch EXCEPT !.notified = {}]
    /\ op' = [put |-> <<>>, get |-> <<>>]
    /\ UNCHANGED <<cfg, running, rst, put_ok, get_ok, refused, blocked, q, resets>>

\* nrst is in the sensitivity lists of "AT" and "LT", the reset of all threads.
AssertReset ==
    /\ Idle /\ ~rst /\ resets < MaxResets
    /\ rst' = TRUE /\ runnable' = Side /\ resets' = resets + 1
    /\ UNCHANGED <<cfg, ch, running, put_ok, get_ok, refused, blocked, q, op>>
ReleaseReset ==
    /\ Idle /\ rst
    /\ rst' = FALSE /\ runnable' = IF cfg.mode = "CA" THEN {} ELSE Side
    /\ UNCHANGED <<cfg, ch, running, put_ok, get_ok, refused, blocked, q, op, resets>>

Next == Evaluate \/ Update \/ AdvanceTime \/ AssertReset \/ ReleaseReset

\* The kernel goes on; reset does not last for ever.
Fairness == WF_vars(Evaluate) /\ WF_vars(Update) /\ WF_vars(AdvanceTime)
            /\ SF_vars(ReleaseReset)

Spec == Init /\ [][Next]_vars /\ Fairness

-----------------------------------------------------------------------------
(* Properties. *)

Indx == 0 .. cfg.bufSize - 1
Count == 0 .. cfg.bufSize
ChannelType ==
    [pop_indx : Indx, get_num : Count, push_indx : Indx, put_num : Count,
     element_num : Count, buffer : [Indx -> Data],
     updating : BOOLEAN, notified : SUBSET Side]

\* Types, and no index or counter ever leaves the buffer: element_num -= get_num
\* and element_num += put_num of update() neither underflow nor overflow.
TypeOK ==
    /\ cfg \in Configs
    /\ ch \in ChannelType
    /\ runnable \subseteq Side /\ running \in runnable \cup {"none"}
    /\ rst \in BOOLEAN
    /\ put_ok \in Seq(Data) /\ get_ok \in Seq(Data)
    /\ refused \subseteq Side /\ blocked \subseteq refused
    /\ q \in Seq(Data)
    /\ op \in [put : Seq(Data), get : Seq(Data)]
    /\ resets \in 0 .. MaxResets

\* A thread that sleeps because the buffer refused it has its event notified as
\* soon as the buffer accepts again; in "LT", if it makes several transfers per
\* activation, at the latest when one element (one free slot) is left, so that
\* the two threads are never asleep waiting for each other.
RefusedAreWoken ==
    Idle /\ ~rst /\ cfg.mode # "CA" =>
        /\ "put" \in refused \ ch.notified =>
              IF cfg.MULTI_PUT THEN ch.element_num > 1 ELSE ~ready(ch)
        /\ "get" \in refused \ ch.notified =>
              IF cfg.MULTI_GET THEN ch.element_num < cfg.bufSize - 1 ELSE ~request(ch)

Contract == INSTANCE BufferContract WITH size <- cfg.bufSize
\* In every mode the buffer is a bounded queue, with several puts and gets per
\* delta cycle, wrapping indices, withdrawn requests and resets.
ImplementsContract == Contract!Spec

\* While the other thread transfers whenever it can, b_put() and b_get() return.
BlockedReturn ==
    /\ ("get" \in cfg.eager /\ "put" \in blocked) ~> ("put" \notin blocked)
    /\ ("put" \in cfg.eager /\ "get" \in blocked) ~> ("get" \notin blocked)

\* The elements put are delivered while the getter takes whatever it finds; a
\* getter with several requests per activation sleeps until the buffer is almost
\* full, so that the putter has to keep putting.
Delivered ==
    (/\ "get" \in cfg.eager
     /\ cfg.MULTI_GET => "put" \in cfg.eager
     /\ q # <<>>) ~> (op.get # <<>> \/ q = <<>>)
=============================================================================
