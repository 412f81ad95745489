# A TLA+ model of ICSC: channels, assertions and thread translation

ICSC (Intel Compiler for SystemC) is two programs that share one language:

* the **Single Source library** (`src/components/common/sctcommon/`), C++ templates that
  a designer instantiates: communication channels (FIFO, target/initiator, pipe, buffer),
  registers, signals, clocks and temporal assertions. The same header is *simulated* by
  the SystemC kernel and *translated* to SystemVerilog;
* the **translator** (`src/sc_tool/`), a Clang tool that turns elaborated SystemC modules
  into SystemVerilog.

The library carries all concurrency of the project: several processes, scheduled in any
order within a delta cycle, talk through signals, toggles and events, and several
implementations of one interface (cycle accurate, approximate time and loosely timed
simulation, generated hardware) have to agree. This development models that part first,
and of the translator the two places where what it generates runs differently from the
source by design: a thread with `wait()` calls becomes a state machine, and a simulated
temporal assertion becomes an SVA property.

## 1. Inventory

| Component | State | Operations | Hard behaviour | What makes it correct |
|---|---|---|---|---|
| `sct_fifo`, mode 0 (`sct_fifo.h` 40-720) | `put_req`, `get_req`, their registered copies, `data_in`, `data_out`, `ready_push`, `out_valid`, ring `buffer` with `pop_indx`, `push_indx`, `element_num`, `element_num_d` | `reset_put/get`, `clear_put/get`, `put`, `b_put`, `get`, `b_get`, `peek`, `elem_num`; processes `asyncProc`, `syncProc` | order of processes in a delta cycle, sensitivity, toggles of threads vs. levels of methods, asynchronous reset | bounded queue; outputs settle; same cycle behaviour as the generated FIFO |
| same, `__SC_TOOL__` branch | `buffer`, two indices, counter | one step per clock cycle | ring boundary, full and empty at once for length 1 | counter = distance of the indices; bounded queue |
| `sct_prim_fifo` (mode 1 core) | request toggles, registered copies, C++ members `getIndx`, `putIndx`, `elemNum`, `buffer`; events | same calls; `updateProc`, `reset_core` | processes sleep until notified, notifications are conditional on the fill level | no lost wake-up, no forgotten request, no failed assertion, bounded queue |
| `sct_fifo`, mode 1; `sct_target`/`sct_initiator`, mode 1 | a `sct_prim_fifo` plus how it is parameterised at elaboration | forwarding, `resetProc`, `before_end_of_elaboration` | size and sync flags derived from the process kinds of both sides | as above, for every derived parameter set |
| `sct_initiator` / `sct_target`, mode 0 | `put_req`, `core_req(_d)`, sync register, `core_ready`, `core_data(_d)`, `get_req(_d)` | same calls; `req_control`, `sync_thread`, `core_thread` x 2, `ready_control`, `core_data_mux`, `always_ready_thread` | request and ready cross in opposite directions; two words under way | bounded queue; no spurious back pressure; the last word arrives |
| `sct_prim_signal` | current and next value, written flag | `write`, `read`, `update` | update is visible one delta later | part of every module |
| `sct_pipe`, `sct_pl_reg`, mode 0 | requests and their copies, `busy_reg(_d)`, `enable`, `regs`, output register `reg_full(_d)`, `data_reg(_d)` | same calls; `asyncProc`, `syncProc`, `plProc` | bubbles collapse while the output is stalled; a thread's put may wait outside a full pipe | bounded queue; refuses only when full; constant latency |
| `sct_buffer` (modes 0 and 1), `sct_prim_buffer` (mode 2: `sct_buffer`, target/initiator) | indices, `element_num`, transfers of this delta cycle `put_num`, `get_num`, ring `buffer`; one event, or `put_event` and `get_event` | same calls; `update()` as primitive channel | mode 2: several transfers per delta cycle, each event notified at some fill levels only | bounded queue; a refused thread is woken; everything put is delivered |
| `sct_register`, `sct_comb_signal` | current and next value | read, write, clear | last write in a delta wins | next value is the last one written |
| `sct_clock`, `sct_clk_gate` | period, enable, next edge | enable, disable, change of period | edge already scheduled when disabled | no short pulse, an edge per period |
| `sct_property` and the SVA the translator writes for it | rings `leftPast`, `rightPast` with their indices | `init`, two `check` functions, `operator()`; `parseSvaTime`, `putTemporalAssert` | rings of different sizes, single times, swapped times, stable/rose/fell | same verdict as the SVA |
| translator, threads: `cthread/ScCThreadStates.cpp`, `ScThreadBuilder.cpp` | states in order of discovery, replaced states, counter width | numbering `wait()` calls, generating code per state, merging equal texts, reset branch | states merged after code was generated; one counter for all `wait(N)`; reset | the module does in every cycle what the thread does |
| translator, the rest: `cfg/`, `elab/`, `expr/`, `scope/`, `dyn_elab/`, `utils/` | maps over Clang AST nodes, design database | one sequential pass | joins of value states | pure algorithms |

Interaction: a user's process calls `put`/`get` on one side; the channel writes signals;
the kernel's update phase makes the new values visible and wakes sensitive processes; at
the clock edge (mode 0) or a clock period later (`update_event`, mode 1) the request is
performed. `sct_target` and `sct_initiator` share their signals by `do_bind`; a target may
hold a FIFO and forward to it. PROJECT.json lists every component with its status and,
under "hazards", the places where this can go wrong.

## 2. Modules

| Module | Models | Kind |
|---|---|---|
| `FifoContract` | `sct_put_if`/`sct_get_if`: a bounded queue, at most one put and one get per clock cycle; `promise` says whether a put may be got, or a get may make room, within the same cycle | abstract specification |
| `FifoConfig` | process kinds, constructor parameters, and what `before_end_of_elaboration` refuses or warns about | operators |
| `SctFifo` | mode 0 FIFO in simulation | component; implements `FifoContract` and `SctFifoRtl` |
| `SctFifoRtl` | the FIFO the translator generates | component; implements `FifoContract` |
| `SctFifoRtlProofs` | theorems about `SctFifoRtl` | proofs |
| `SctPrimFifo` | mode 1 FIFO, as `sct_fifo<1>` (`FifoConfig` operator), as `sct_pipe<1>` (`PipeConfig`) and as bound target/initiator pair (`TargetConfig`) | component; implements `FifoContract` |
| `SctPrimFifoProofs` | theorems about `SctPrimFifo` | proofs |
| `SctFifoProofs` | theorems about `SctFifo` | proofs |
| `SctPipe` | mode 0 pipeline register with its shift register `sct_pl_reg` | component; implements `FifoContract` |
| `SctPipeProofs` | theorems about `SctPipe` | proofs |
| `SctTargetInitiator` | mode 0 pair, the processes of both modules composed | composition; implements `FifoContract` |
| `SctTargetInitiatorProofs` | theorems about `SctTargetInitiator` | proofs |
| `BufferContract` | `sct_buffer` as its users see it: a bounded queue with any number of puts and gets per delta cycle, and clear by reset | abstract specification |
| `SctBuffer` | the three simulations of `sct_buffer`, the mode 2 target/initiator pair included | component; implements `BufferContract` |
| `SctBufferProofs` | theorems about `SctBuffer` | proofs |
| `ThreadFsm` | the translation of a clocked thread into a state machine, then thread and generated module side by side | composition |
| `ThreadFsmProofs` | theorem about `ThreadFsm` | proofs |
| `SctProperty` | the simulated temporal assertion and the generated SVA, on the same values | component with its reference definition |
| `SctPropertyProofs` | theorem about `SctProperty` | proofs |
| `MC...` | instances for TLC | |

**State.** `cur` and `nxt` are the current and the next value of every signal
(`sct_prim_signal::curr_val`, `next_val`); signals keep the names of the source
(`init_req_d` and `targ_req_d` are the two `core_req_d`). `core` in `SctPrimFifo` holds
the plain C++ members, which change at once. `runnable`, `delta` and `timed` are the
processes to run now, in the next delta, and after a clock period. `blocked` says which
thread is inside `b_put` or `b_get`. `q`, `op`, `put_ok`, `get_ok` are history: the
elements put and not got, what the last clock edge did, and what the last calls returned.
They never guard an action of the channel.

**Actions.** One per process of the channel and one per member function, each a whole run
up to the next `wait()` or return. `Update` is the kernel's update phase, `ClockEdge` and
`AdvanceTime` advance time once everything has settled, `AssertReset` and `ReleaseReset`
drive the reset, which may come after any settled state. A *thread* chooses any
allowed call at each run. A *method* has no state, so what it does is fixed by registers
of the surrounding design (`put_op`, `put_val`, `get_op`), which change at the clock edge;
it may run many times per edge and must come to the same answer.

**`SctPrimFifo`, peeking process.** A third process registered with `addPeekTo` (`peek` in
the configuration: none, a method or a thread) reads `request()` and the head; `seen` is
what it saw last. The notifications of `peek_event` in `put`, `get`, the clears,
`updateProc` and `reset_core` are part of those actions.

**`SctBuffer`.** `ch` holds the members of the channel. Calls change them at once, `Update`
is `update()` at the end of a delta cycle in which a call requested it. A thread that has
begun (`running`) may make any sequence of calls before it waits; `refused` and `blocked`
are the threads that went to sleep because the buffer refused them, in any call and in
`b_put`/`b_get`. `AdvanceTime` is a clock period: it wakes all threads in mode 0 (`"CA"`),
the notified ones in modes 1 and 2 (`"AT"`, `"LT"`). A configuration names the *eager*
threads, which transfer whenever they run until they are refused; the others are free.

**`ThreadFsm`.** A thread is a graph: the wait its reset section leads to, and for each
wait what follows for each value of the inputs, which statement the analysis meets first
(`succ`, without the call stack that led there) and how deep in loops the wait is. Of the
module's other threads it knows the largest N of the last one before it that has a counter
(`earlier`) and whether one after it takes its counter (`later`), since `waitNVarName` is
state of the module. `Analyse` is one `wait()` reached by
`ScTraverseConst`, in any order of pending paths: it numbers the state
(`getOrInsertStateID`), records `wait(N)`, and collects `waitSuccsSet` and
`waitMaxLoopLevel`. `Generate` is `ThreadBuilder::run`: the test for a single state
(`OneSuccessor`, the translator's `isSingleState()`), the text
of each state, the merging of states with equal texts, the second stage and the reset
branch; `Refuse` is the fatal error of `putWaitNAssign` when a `wait(1)` needs a counter
and neither this thread nor one before it has created one. A counter that two threads
assign (`CounterShared`) takes any value: SystemVerilog allows one `always_comb` per
variable.
`ClockEdge` then runs the generated case statement and, beside it, the thread as SystemC
runs it, on the same input; `Reset` comes at any time.

**`SctProperty`.** `prop` holds the members of `sct_property`; a `ClockEdge` with values for
both sides is `operator()`: `init` at the first call, then `check`. `hist` is history, what
the two sides were at the last edges. `Sva` is what `parseSvaTime` and `putTemporalAssert`
print, as delays and repetitions; `SvaFails` is the meaning the SystemVerilog standard
gives to it (external). `init` is written once for both forms: with `lo = hi` the second
one does what the first does, and `operator()` calls only the second.

`RT` is the type of the right side: `bool` in the plain form, anything in the other three.

**Kernel.** SystemC's scheduler is third-party code kept in `src/systemc/`. Of its
evaluate/update/advance cycle the modules have what the library relies on: one process at a
time in any order, updates when none is left, and the next timed notifications
(`sc_simcontext::simulate`) when nothing is runnable; of a clocked thread, that `wait(N)`
returns at the N-th edge (`wait_cycles`, `trigger_static`) and that reset restarts its
function (`sc_thread_cor_fn`).

**One process on both sides.** In every channel model PUT and GET are two processes. A FIFO
used on both sides by one method needs both registers (the last test of
`before_end_of_elaboration`); this use is not modelled.

## 3. Runs

Every passing run explores all process kinds and constructor parameters at once: the
configuration is a variable chosen in `Init`.

| Run | Bounds | Shows |
|---|---|---|
| `fifo` | length 2, two values, one extra reset, all calls, configurations without elaboration warning | `OutputsSettled`, `MethodsSettled` (sensitivity lists complete), `ReadyIffRoom`, `RequestIffElement` (`ready`, `request`, `peek`, and `elem_num` between threads agree with the queue), `ImplementsContract`, `ImplementsRtl` (each cycle of the simulation is one of the generated hardware) |
| `fifo_one` | length 1, also configurations that warn | `ImplementsContract`, `ClockTicks` (delta cycles end), `BlockedPutReturns`, `BlockedGetReturns` |
| `fifo_rtl` | length 3 | `IndicesAgree`, `ImplementsContract` |
| `prim_fifo` | size 2 for the FIFO; 1 to 3 for the pair, as elaboration derives it, and with a FIFO of length 1 attached to the target; pipe of one stage; each with a peeking process; two values, one extra reset | `TypeOK`, `AssertionsHold` (the asserts of `updateProc`), `RequestsPerformed`, `MethodsWoken`, `PutWoken`, `GetWoken`, `PeekWoken` (a peeking process sees the present head), `RequestIffElement`, `ImplementsContract`; all calls but a successful `get(data, enable)`, which `prim_fifo_live` and the theorems of section 4 cover |
| `prim_fifo_live` | same configurations except a pair of two threads, one value | blocked threads are woken, with `get(data, enable)` as non-blocking get |
| `prim_get_enable` | a pair of two threads | *violation*: `get(data, enable)` lacks the notification that `get()` has for a target/initiator pair, so a thread in `b_put` is not woken |
| `pipe` | three stages (the fewest where a stage sees an empty one that is not its neighbour), two values, one extra reset, all process kinds | `SignalsSettled`, `NotReadyFull` ("some empty registers ... are shifted to provide next request put"), `RequestAfterLatency` (an element is offered exactly when its latency is over), `ImplementsContract` (size 4, or 5 with a PUT thread) |
| `targ_init` | all 16 configurations, two values, one extra reset | `SignalsSettled`, `NotReadyHoldsOldest`, `ImplementsContract` (size 1 to 3), `BlockedPutReturns`, `Delivered` (a last word with no put after it arrives too) |
| `buffer` | modes 0 and 1: lengths 1 to 3; mode 2: lengths 2 and 3 with every combination of one and several transfers, length 4 with two eager threads; two values, one extra reset | `RefusedAreWoken`, `ImplementsContract`, `BlockedReturn`, `Delivered` |
| `thread_fsm` | every graph of up to three waits with two branches and two kinds of code, four patterns of `wait()`/`wait(N)` with N up to 4, equal and unequal layouts; waits with one successor statement, in the main loop and in an inner loop; threads with `wait(1)` only, after a thread with a counter and without one; a counter taken by a later thread | `InStep` (same state, same count, same action in every cycle, but for the three kinds of threads below), `NoEndlessWait` |
| `thread_wait_one` | a thread that begins with `wait(1)` and has a `wait(2)` | *violation* of `FollowsThread`: reset leaves the counter at zero, and the first state counts through the whole range of the counter |
| `rose_fell` | ROSE and FELL with times 0 and 1; values 0 to 2 | *violation* of `SameVerdict`: `check()` compares the whole value with the one before, `$rose` and `$fell` look at the lowest bit |

*Why the bounds are enough.* Channels are data independent: two values suffice to see an
element lost, doubled or reordered next to another one, and one value where only waiting
matters. Length 2 is the smallest with both an index that wraps and a fill level that is
neither empty nor full; "almost full" and "almost empty" coincide there, length 1 has them
at the limits, length 3 (`fifo_rtl`, the three-slot pair) apart. One further reset
(`MaxResets = 1`, after the power-up reset) meets every state of a running channel; after
it the state is that of power-up, up to the uncleared cells, which a run then reuses.
`ElemNums` is the number of values of the counter's unsigned type, and the decrement wraps.
In `SctBuffer` the thresholds of the two events (`bufSize - put_num - 2` and
`get_num + 2`) coincide or are negative up to length 3 and lie apart at length 4. In
`ThreadFsm` three waits give two states to merge and one that must stay apart, N = 4 needs
one bit more than N = 3, and N = 1, 2 next to it. `SctProperty` is proved for every length
of time (section 4), and its run only has to show a value wider than one bit.
`MCSctProperty.cfg` checks the proved `SameVerdictOnBits` for all four forms with every
accepted pair of times up to 3, in either order.

*Fairness.* `WF` of `Evaluate`, `Update` and `ClockEdge`/`AdvanceTime`: the kernel never
stops while there is work, and the clock runs. `SF` of `ReleaseReset`: a testbench ends
its reset. `SctTargetInitiator` adds that the process on the target's side tries to get
infinitely often (`KeepsGetting`): without it no channel could promise progress; in the
other liveness runs the call sets contain only attempts to put and get, which is the same
assumption. In `SctBuffer` it is the configuration's eager threads; with several transfers
per activation on the getter's side `Delivered` needs the putter to go on, since such a
getter is woken only when one free slot is left. In `ThreadFsm`, `WF` of `Analyse` and
`Generate` (the translator is a terminating program) and of `ClockEdge`. No fairness is
assumed of the order of processes or of the values chosen. Deadlock is checked in every
run but the two of `ThreadFsm`, where the translator may refuse a thread and stop.

*What the violations show.* `prim_get_enable`, `thread_wait_one` and `rose_fell` are findings
about the code, described in PROJECT.json with the comment or document they contradict.

`InStep` names three kinds of threads that the generated module need not follow. The first,
`WaitOneFirst`, is that of `thread_wait_one`. The other two have a configuration each, to be
run by hand, in which TLC finds `FollowsThread` violated:

* `CountsShared` (`MCThreadFsm_shared_counter.cfg`): all `wait(int)` of the thread are
  `wait(1)`, and an earlier thread of the module has a `wait(N)`. `waitNVarName` still holds
  that thread's counter, so the state tests and both threads assign one counter, where
  `doc/trans_flow.tex:530` says "There is one counter per thread process". The test
  `cthread_wait_n` has such a thread: its reference output
  (`cthread_wait_n.sv:943`) assigns `cntr_name_conflict_WAIT_N_COUNTER_next0`. The thread
  there is single-state and does not read the counter, so it is followed; the thread that
  owns the counter has `later` set.
* `MistakenSingle` (`MCThreadFsm_called_twice.cfg`): a function with a `wait()` is called in
  several places of the main loop and has a statement after its wait. All waits then have
  one successor, since `waitSuccsSet` holds statements without their call stack, and the
  thread is generated as one state with the code that follows the first call only, where
  `doc/trans_flow.tex:374` says that with one state `always_comb` "has all the after-reset
  logic".

Two further observations have no run of their own. `elem_num()` of a METHOD beside a thread moves
before the clock edge, while a comment of `sct_ipc_if.h` (line 160) says "value updated
last clock edge for METHOD"; `RequestIffElement` therefore speaks of `elem_num()` between
threads only. And a thread that peeks beside a GET *method* is woken by `get()` for the
very instant at which `updateProc` removes the element, and may keep the old view;
`PeekWoken` excludes this pair.

## 4. Proofs

`SctFifoRtlProofs` proves, for every `LENGTH` in `Nat \ {0}`, every set `Data`, every
configuration set:

* `RtlInvariant`: `Spec => [](TypeOK /\ IndicesAgree)`. The conjunction is inductive:
  `TypeOK` alone is not, since a counter that stays in `0..LENGTH` needs to know that a
  pop happens only on a non-empty ring, and `IndicesAgree` (`push_indx` is `pop_indx` plus
  the count, modulo `LENGTH`) needs the ranges of `TypeOK`. Indices wrap by comparison, as
  in the code, so the congruence is stated as two linear cases and no step needs `%`.
* `RtlImplementsContract`: `Spec => ImplementsContract`. The refinement mapping reads the
  queue off the ring: `Contents == Ring(buffer, pop_indx, element_num_d)`. Lemmas
  `RingPush`, `RingPop` and `RingPushPop` say what writing at `push_indx` and moving
  `pop_indx` do to that sequence; the last one covers a push and a pop in one cycle,
  including the full ring where the written cell is the one just read. `CycleRefines` and
  `ResetRefines` then map each step.

Assumptions: `RtlLengthAssumption` and `RtlDataAssumption` of `SctFifoRtl` (a positive
length, `ZERO` is a value), evaluated by TLC on the instance.

`SctFifoProofs` proves, for every `LENGTH`, `Data`, set of configurations and of calls:

* `SimulationSettles`: `Spec => [](TypeOK /\ OutputsSettled /\ MethodsSettled)`. The two
  properties speak of settled states only; the inductive invariant says what holds in
  the middle of a delta cycle: a method process is either still to run, or its results
  (in `nxt` for `asyncProc`, in `put_ok`/`get_ok` for the users') fit the *current*
  signals (`AsyncInv`, `PutInv`, `GetInv`). Evaluation steps of other processes touch
  neither (`AsyncKept`, `PutKept`, `GetKept`); the update phase wakes the process unless
  every signal it is sensitive to kept its value, and `CombReads` shows that `asyncProc`
  reads no other signal. That lemma is where an incomplete sensitivity list would fail.

* `ReadyTellsTruth`, `RequestTellsTruth`, `SimulationImplementsRtl` and
  `SimulationImplementsContract`. They need to know where the elements are, at every point of
  a delta cycle. `SimInv` adds two parts to the invariant above: `Phase`, what each clocked
  process and each user thread has written between the edge and its update, and `Stored`, that
  the ring read from `pop_indx`, with the request of a PUT thread not yet performed appended
  and the one of a GET thread removed, is the history queue. The refinement mapping to
  `SctFifoRtl` performs these pending requests early, which is what makes a delayed thread
  request and a method's immediate one the same hardware.

Assumptions: those named in `SctFifo` (length positive, counter type wide enough, `ZERO`
a value, configurations among those that elaborate).

`SctBufferProofs` proves, for every `bufSize`, mode, combination of one and several
transfers, `Data` and number of resets:

* `BufferTypes`: `Spec => []TypeOK`, and `BufferImplementsContract`:
  `Spec => ImplementsContract`. Both rest on one invariant. A side with several transfers
  moves its index at the call, a side with one at `update()`, and `element_num` changes at
  `update()` for both, so in the middle of a delta cycle no member says where the queue
  begins. `RingInv` states it with a hidden slot *b*, the place of the oldest element that
  was in the buffer when the delta cycle began: both indices and the counter are
  determined by *b* and the transfers made since (`IndicesInv`), and the cells from *b* on
  hold the history queue followed by what was put in this delta cycle (`ContentsInv`).
  `PendingInv` says that a transfer not yet committed has requested its update, `ResetInv`
  what the reset sections have cleared so far, in either order. `PutInv`, `GetInv`,
  `ClearInv`, `ResetSectionInv`, `UpdateInv` show that each operation preserves it;
  `DeltaRefines` and `TimeRefines` map the steps.

* `SleepersAreWoken`: `Spec => []RefusedAreWoken`. `WakeInv` relates who was refused, at
  which fill level, to the events on their way in the middle of a delta cycle, where the
  transfer that makes room is made but not committed: a refused thread is either notified, or
  the transfers that could wake it are still to come or pending in `update()`.

Assumptions: `DataAssumption`, `ConfigsAssumption` (two slots at least in mode 2, as its
constructor asserts; several transfers in mode 2 only) and `MaxResetsAssumption`.

`ThreadFsmProofs` proves, for any finite set of waits, any threads, any inputs and code:

* `FsmInStep`: `Spec => []InStep`. The inductive invariant has two parts. While the
  translator analyses, every wait reached has one ID, the counter is as wide as the largest
  N recorded, and what a numbered state leads to is numbered or pending (`AnalysisInv`).
  When the module runs, replacement is idempotent and replaces a state only by one with the
  same text, so that the branch taken in a merged state does what the wait's own code does
  (`RunInv`); a single state does what every wait does, or several codes were taken for it,
  and does not count, or another thread's counter is used. A text says whether its wait counts, and how long is in the counter, set
  where the state is entered: this is what makes merging sound, and where leaving it out
  would fail.

Assumptions: `MaxNumberAssumption`, `WidthAssumption` (the register of *n*'s width holds
*n*; a fact about `bitsInNumber`, a recursive function, that TLC evaluates up to the bound),
`WaitsAssumption`, `ProgramsAssumption`, `ActsAssumption`. Which successors the waits have, how
deep they are in loops and what the other threads of the module do is not restricted.
`InStep` excludes what section 3 shows violated: a thread that begins with `wait(1)`, one that
counts with a shared counter, and different codes taken for one state.

`SctPropertyProofs` proves, for times of any length and any set of values:

* `VerdictsAgree`: `Spec => []SameVerdictOnBits`, that is `SameVerdict` at every edge, except a
  ROSE or FELL whose right side is not 0 or 1 at this edge or the one before (what
  `rose_fell` shows violated). The invariant `Members` says which edge each ring
  entry comes from: walking back cyclically from the index one meets the edges in order
  (`Age`). `StoredMembers` shows that `check()` preserves it (`NextIndxIs`, `AgeStep` for the
  wrap), `RingsRead` that the ring holds exactly the window, `VerdictIs` that the condition
  over an unordered ring equals the SVA's, form by form. For STABLE this needs that a value
  equal at any two neighbouring edges is the same at all (`StableChain`, by the least
  counterexample).

There are no assumptions: `Init` takes the assertions that pass the asserts of `init` and
`parseSvaTime`, and the values are any.

`SctTargetInitiatorProofs` proves, for any data, calls and set of configurations:

* `Invariant`: `Spec => []Inv`. `Inv` has one part per process of the two modules, saying what
  it has written (in `nxt`, from `cur`) once it is no longer to run, and one equation for the
  data: the history queue is `core_data_d`, `core_data` and `sync_data` in this order, each as
  far as it holds a word. Whether it does is read off the request flags (`Keeps`, `Held`,
  `Synced`), because the code keeps no counter: this equation is the handshake's correctness.
* `PairSettles`, `RegistersSuffice`, `BackPressure` and `PairImplementsContract` follow from it.

Assumptions: `DataAssumption`, `ConfigsAssumption`, `OpsAssumption`, `MaxResetsAssumption`.

`SctPipeProofs` proves, for every number of stages `N`, any data, calls and configurations:

* `Invariant`: `Spec => []Inv`. One part per process as above; for the data, `data_in` of a PUT
  thread, the stages and the output register are places -1, 0 .. N - 1 and N of one shift
  register, and `Words` says that a strictly decreasing map takes the queue onto the places
  taken, with the words in them and ages that fit (`OnTime`: a word is as far as its age says,
  or has no empty stage ahead of it). `ShiftIs` shows that what `asyncProc` computes, the output
  register refilled first, then the loop over the stages, then the put, is one rule: a word
  moves up if and only if there is an empty place ahead of it. `UpInOrder` says that this rule
  keeps the order, `EdgeWord` that the data follow, `EdgeOnTime` the ages, and `EdgeCommits`
  puts them together with the put and the get of the edge. Words are followed from before
  `plProc` runs: the array is not a signal and changes at once, in any order with the others.
* `BubblesCollapse` and `RegistersSuffice` count places with the cardinality theorems,
  `ConstantLatency` looks at the first word, `PipeSettles` at the parts only, and
  `PipeImplementsContract` at the edge.

Assumptions: `StagesAssumption` (`N` positive) and those of the pair.

`SctPrimFifoProofs` proves, for every size, any data and calls, and *every* combination of the
options (`Configs` is any subset of `Config`, not only what the three enclosing channels
build), in four layers, each an inductive invariant on top of the one before:

* `Inv`, the counts. A request travels over three copies (`nxt`, `cur`, the registered copy)
  and is performed a period after it was made. `Legal` says that what is collected for the
  next `updateProc` fits the buffer as it will be then, unless a method that is going to
  revise its request is still to run (`Withdrawn`: whoever withdraws a request has woken the
  method that relied on it); `AtEdge` that a thread, which sees the old count and the old
  requests, can compute the new count; `ResetSeen` that no toggle of `has_reset` is missed.
  From it `CountersInRange`, `NoOverrun` and `RequestsAreServed`.
* `QInv`, the queue. `Content` reads the ring from `getIndx`; between the edges the history
  queue is `Content` with the requests of *threads* performed, at an edge the buffer becomes
  the queue with those of *methods* performed (`QueuePart`), and what the calls returned is
  what they requested (`PutTold`, `GetTold`). `PerformedContent` is the ring lemma,
  `QueueFront` and `CycleLegal` give `RequestsTellTruth` and `TlmFifoImplementsContract`.
* `WInv`, who waits. `PutCalled` and `GetCalled` say what cannot have happened at an edge if a
  process has not been notified, `PutWaits` and `GetWaits` what a thread in a blocking call
  that is not notified may rely on, `PutAsks` and `GetAsks` the same for methods. From it
  `SleepingGetIsWoken` (no side condition), `SleepingPutIsWoken` and `MethodsAreWoken`.
* `VInv`, who peeks: a peeking process that is not notified has seen the present head
  (`PeekAsks` for a method, `PeekWaits` for a thread); `PeekIsNotStale`. `EdgeView` connects
  what a thread saw at the edge with what the buffer holds after it.

Two theorems have a hypothesis on the constants, and both are about the same line:
`get(data, enable)` lacks the two notifications `get()` has for a target. `SleepingPutIsWoken`
excludes `get_enable` where the initiator is a thread, the target is not synchronous and its
ready path is combinational, which is where `prim_get_enable` shows the wake-up lost;
`MethodsAreWoken` excludes it for the thread of a synchronous target with an initiator method,
and there also needs the combinational ready path that `TargetConfig` always gives it.

Assumptions: `DataAssumption`, `ConfigsAssumption` (options are Booleans, at least one slot),
`OpsAssumption`, `MaxResetsAssumption`.

The invariants `SimInv`, `WakeInv`, the `Inv` of the pair and the pipe, and the four of
`SctPrimFifo` were checked with TLC on small instances before they were proved. The proofs
sharpened three properties: `PutWoken`, `GetWoken` and `PeekWoken` allowed more pending work as
an excuse for a process that is not notified than the code needs.

*Only model-checked:* every safety property and refinement a passing run checks is also proved.
What is left to TLC is what this prover cannot do: liveness under fairness
(`BlockedPutReturns`, `BlockedGetReturns`, `BlockedReturn`, `Delivered`, `ClockTicks`,
`NoEndlessWait`) and `ENABLED`. No module uses a `RECURSIVE` operator; the one recursive
function, `bitsInNumber`, is evaluated by TLC and enters the proofs as an assumption.

## 5. Not modelled

*Library.* A FIFO attached to a target in mode 0 (`put_to_fifo`; in mode 1 it only adds slots
and is modelled); two clocks on one channel; `sct_multi_*` arrays; `almost_full` and
`almost_empty` (comparisons of `elem_num` with a constant); `addInReg`, `addOutReg` of the
pipe (parameters of the generated component); `sct_register`, `sct_comb_signal`,
`sct_clock`, `sct_clk_gate`. A reset pulse shorter than a clock period is excluded in
`SctPrimFifo` (`ReleaseReset` waits for `updateProc`). An always ready target is only used
by a process that gets in every cycle, which is what `always_ready` promises to the
initiator.

*Assertions.* `SCT_ASSERT_THREAD` and `SCT_ASSERT_LOOP`, whose SVA is placed inside a
process; X values.

*Translator.* Everything that rewrites Clang's AST into text: expressions, statements,
constant propagation over C++ values, the elaboration database, dynamic elaboration through
debug information. It is sequential, runs once, and its correctness is that of a translation
between two languages whose semantics would have to be modelled first; a model over a toy
language would say nothing about this code. Of thread translation, the code inside a state
is one abstract action, and which variables become registers is left out, as is what else two
threads with one counter do to each other.

SystemC's kernel and data types (`src/systemc/`), the test designs and the build files are
third-party or data.

## 6. Plan

Done: the FIFO in its three forms, the target/initiator pair, the pipe, the buffer in three
modes, thread translation, temporal assertions of module scope; proofs of every safety
property and refinement of these.

1. `SctTargetFifo`: `put_to_fifo` composed from `SctTargetInitiator` and `SctFifo`.
2. Assertions inside a process; short reset pulses in `SctPrimFifo`.
3. `SctRegister`, `SctClock`: next-value register, clock enabled and disabled between edges.
